--------------------------- MODULE StoreRequests ---------------------------
(***************************************************************************)
(* What a session store can be asked: the operations of SignalStore,       *)
(* ProtocolStore, AppSyncStore, MsgSecretStore, DeviceStore and Session,   *)
(* each as a request on one table.  A request names its rows by their keys *)
(* and becomes a fixed number of statements; Hits is the WHERE clause of   *)
(* one of them, NewRow what it leaves in a row it hits, and Sees the rows  *)
(* that are returned.                                                      *)
(*                                                                         *)
(* A key is a pair: the first part of a composite primary key and the      *)
(* rest of it.  Tables with one key column take the pair as one name.  A   *)
(* row is the number of the request that wrote it and the numbers it keeps *)
(* beside its payload (uploaded, has_key, or times).  An answer that is    *)
(* computed from rows, as a maximum, a count or an equality, is those rows.*)
(***************************************************************************)
EXTENDS Naturals, Sequences

CONSTANTS
    Keys,       \* the primary keys, pairs
    DeviceKey,  \* the key of the device table's only row (0)
    NoRow,      \* the absence of a row
    NoKey,      \* the absence of a sync key
    Used        \* the tables that are asked for

ASSUME RequestAssumption ==
    /\ DeviceKey \in Keys /\ NoKey \notin Keys
    /\ NoRow \notin [value : Nat, times : Seq(Nat)]

Tables == {"identities", "signal_sessions", "prekeys", "signed_prekeys", "sender_keys",
           "sync_keys", "app_versions", "mutation_macs", "sender_key_devices",
           "lid_mappings", "base_keys", "device_lists", "tc_tokens", "sent_messages",
           "msg_secrets", "device", "chats", "contacts"}

Row == [value : Nat, times : Seq(Nat)]

Request(op, table, keys, times) ==
    [op |-> op, table |-> table, keys |-> keys, times |-> times, value |-> 0]

Singles == {<<k>> : k \in Keys}
Batches == Singles \cup {b \in Keys \X Keys : b[1] # b[2]}
Flags == {<<0>>, <<1>>}

Put(table, batches, times) == {Request("put", table, b, s) : b \in batches, s \in times}
Get(table) == {Request("get", table, b, << >>) : b \in Singles}
All(table) == {Request("all", table, << >>, << >>)}
Some(table) == {Request("some", table, b, << >>) : b \in Singles}
Delete(table, batches) == {Request("delete", table, b, << >>) : b \in batches}
Clear(table) == {Request("clear", table, b, << >>) : b \in Singles}
Wipe(table) == {Request("wipe", table, << >>, << >>)}
Expire(table, cuts) == {Request("expire", table, << >>, c) : c \in cuts}

KeyValue(table) == Put(table, Singles, {<< >>}) \cup Get(table) \cup Delete(table, Singles)

-----------------------------------------------------------------------------
(* SignalStore.                                                            *)

IdentityRequests == KeyValue("identities")
SessionRequests == KeyValue("signal_sessions")

PreKeyRequests ==
    Put("prekeys", Singles, Flags) \cup Get("prekeys") \cup Delete("prekeys", Singles)
        \cup All("prekeys")

MarkRequests == {Request("mark", "prekeys", b, << >>) : b \in Batches}

SignedPreKeyRequests == KeyValue("signed_prekeys") \cup All("signed_prekeys")
SenderKeyRequests == KeyValue("sender_keys")

SignalRequests ==
    IdentityRequests \cup SessionRequests \cup PreKeyRequests \cup MarkRequests
        \cup SignedPreKeyRequests \cup SenderKeyRequests

-----------------------------------------------------------------------------
(* AppSyncStore.                                                           *)

SyncKeyRequests == Put("sync_keys", Singles, {<< >>}) \cup Get("sync_keys")

LatestRequests == {Request("latest", "sync_keys", << >>, << >>)}

VersionRequests == Put("app_versions", Singles, {<< >>}) \cup Get("app_versions")

MacRequests ==
    Put("mutation_macs", Batches, {<< >>}) \cup Get("mutation_macs")
        \cup Delete("mutation_macs", Batches) \cup Clear("mutation_macs")

SyncRequests == SyncKeyRequests \cup LatestRequests \cup VersionRequests \cup MacRequests

-----------------------------------------------------------------------------
(* ProtocolStore.                                                          *)

SenderKeyDeviceRequests ==
    Put("sender_key_devices", Batches, Flags) \cup Some("sender_key_devices")
        \cup Clear("sender_key_devices") \cup Wipe("sender_key_devices")
        \cup {Request("deleteDevices", "sender_key_devices", b, << >>) : b \in Batches}

LidRequests ==
    Put("lid_mappings", Singles, {<< >>}) \cup Get("lid_mappings") \cup All("lid_mappings")

ListRequests == KeyValue("base_keys") \cup KeyValue("device_lists")

\* token_timestamp and, if it is not NULL, sender_timestamp.
TokenRequests ==
    Put("tc_tokens", Singles, Flags \cup {<<1, 0>>}) \cup Get("tc_tokens")
        \cup Delete("tc_tokens", Singles) \cup All("tc_tokens")
        \cup Expire("tc_tokens", {<<1, 0>>, <<1, 1>>})

SentRequests ==
    Put("sent_messages", Singles, Flags) \cup Expire("sent_messages", Flags)
        \cup {Request("take", "sent_messages", b, << >>) : b \in Singles}

ProtocolRequests ==
    SenderKeyDeviceRequests \cup LidRequests \cup ListRequests
        \cup TokenRequests \cup SentRequests

-----------------------------------------------------------------------------
(* MsgSecretStore, DeviceStore, Session.                                   *)

SecretRequests ==
    Put("msg_secrets", Batches, Flags) \cup Get("msg_secrets") \cup Expire("msg_secrets", Flags)

CreateRequests == {Request("create", "device", <<DeviceKey>>, << >>)}

DeviceRequests ==
    {Request(op, "device", <<DeviceKey>>, << >>) : op \in {"put", "get"}} \cup CreateRequests

ClearDeviceRequests == {Request("clearDevice", "device", << >>, << >>)}

\* A contact is only ever looked up: SqliteSession writes none, and
\* MemorySession::add_contact is not an operation of the trait.
ContactRequests == Get("contacts")

ChatRequests == KeyValue("chats") \cup All("chats")

Requests ==
    {r \in SignalRequests \cup SyncRequests \cup ProtocolRequests \cup SecretRequests
           \cup DeviceRequests \cup ClearDeviceRequests \cup ContactRequests \cup ChatRequests :
        r.table \in Used}

-----------------------------------------------------------------------------
(* What a request does to the rows of its table.                           *)

\* One statement per entry of a batch; create() counts, then inserts.
Statements(r) ==
    IF r.op \in {"put", "delete", "deleteDevices", "mark"} THEN Len(r.keys)
    ELSE IF r.op = "create" THEN 2 ELSE 1

\* A time that is NULL is not there to be compared.
Expired(row, cut) == \E i \in DOMAIN row.times : i \in DOMAIN cut /\ row.times[i] < cut[i]

\* The keys that the i-th statement of r hits in table d.
Hits(d, r, i) ==
    {k \in Keys :
        \/ r.op \in {"put", "delete", "take"} /\ k = r.keys[i]
        \/ r.op = "mark" /\ k = r.keys[i] /\ d[k] # NoRow
        \/ r.op = "deleteDevices" /\ k[2] = r.keys[i][2]
        \/ r.op = "clear" /\ k[1] = r.keys[1][1]
        \/ r.op \in {"wipe", "clearDevice"}
        \/ r.op = "expire" /\ d[k] # NoRow /\ Expired(d[k], r.times)
        \/ r.op = "create" /\ i = 2 /\ k = r.keys[1] /\ d[k] = NoRow}

NewRow(d, r, k) ==
    IF r.op \in {"put", "create"} THEN [value |-> r.value, times |-> r.times]
    ELSE IF r.op = "mark" THEN [d[k] EXCEPT !.times = <<1>>]
    ELSE NoRow

\* The rows that r returns, or counts, when it finds table d.
Sees(d, r) ==
    {k \in Keys :
        /\ d[k] # NoRow
        /\ \/ r.op = "all"
           \/ r.op = "some" /\ k[1] = r.keys[1][1]
           \/ r.op \in {"get", "take"} /\ k = r.keys[1]
           \/ r.op = "expire" /\ Expired(d[k], r.times)}

Answer(d, latest, r) ==
    IF r.op = "latest" THEN {<<latest, NoRow>>}
    ELSE {<<k, d[k]>> : k \in Sees(d, r)}

=============================================================================
