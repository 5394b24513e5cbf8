------------------------ MODULE SessionStoresProofs ------------------------
(* Proofs about SessionStores. *)
EXTENDS SessionStores, SequenceTheorems, TLAPS

Shaped(r) ==
    /\ r \in [op : Ops, table : Tables, keys : Seq(Keys), times : Seq(Nat), value : {0}]
    /\ r.op = "put" /\ r.table \in {"sync_keys", "sent_messages"} => Len(r.keys) = 1
    /\ r.op = "take" => Len(r.keys) = 1 /\ r.table = "sent_messages"
    /\ r.table = "sent_messages" => r.op \in {"put", "take", "expire"}
    /\ r.op = "create" => r.table = "device" /\ r.keys = <<DeviceKey>>

LEMMA BatchFacts ==
    /\ \A b \in Singles : b \in Seq(Keys) /\ Len(b) = 1
    /\ \A b \in Batches : b \in Seq(Keys)
<1>1. ASSUME NEW k \in Keys PROVE <<k>> \in Seq(Keys) /\ Len(<<k>>) = 1
  OBVIOUS
<1>2. ASSUME NEW j \in Keys, NEW k \in Keys PROVE <<j, k>> \in Seq(Keys)
  OBVIOUS
<1>3. ASSUME NEW b \in Keys \X Keys PROVE b = <<b[1], b[2]>>
  OBVIOUS
<1> QED
  BY <1>1, <1>2, <1>3 DEF Batches, Singles

LEMMA TimesFacts ==
    /\ << >> \in Seq(Nat) /\ <<0>> \in Seq(Nat) /\ <<1>> \in Seq(Nat)
    /\ <<1, 0>> \in Seq(Nat) /\ <<1, 1>> \in Seq(Nat)
  OBVIOUS

LEMMA RequestIsShaped ==
    ASSUME NEW op \in Ops, NEW t \in Tables, NEW b \in Seq(Keys), NEW s \in Seq(Nat),
           op = "put" /\ t \in {"sync_keys", "sent_messages"} => Len(b) = 1,
           op = "take" => Len(b) = 1 /\ t = "sent_messages",
           t = "sent_messages" => op \in {"put", "take", "expire"},
           op = "create" => t = "device" /\ b = <<DeviceKey>>
    PROVE  Shaped(Request(op, t, b, s))
<1> DEFINE r == Request(op, t, b, s)
<1>1. r \in [op : Ops, table : Tables, keys : Seq(Keys), times : Seq(Nat), value : {0}]
  BY DEF Request
<1>2. r.op = op /\ r.table = t /\ r.keys = b
  BY DEF Request
<1> QED
  BY <1>1, <1>2 DEF Shaped

LEMMA PutShape ==
    ASSUME NEW t \in Tables, NEW ts, \A s \in ts : s \in Seq(Nat)
    PROVE  /\ \A r \in Put(t, Singles, ts) : Shaped(r)
           /\ t \notin {"sync_keys", "sent_messages"} => \A r \in Put(t, Batches, ts) : Shaped(r)
<1>1. ASSUME NEW r \in Put(t, Singles, ts) PROVE Shaped(r)
  <2>1. PICK b \in Singles, s \in ts : r = Request("put", t, b, s)
    BY <1>1 DEF Put
  <2> QED
    BY <2>1, BatchFacts, RequestIsShaped DEF Ops
<1>2. ASSUME NEW r \in Put(t, Batches, ts), t \notin {"sync_keys", "sent_messages"}
      PROVE  Shaped(r)
  <2>1. PICK b \in Batches, s \in ts : r = Request("put", t, b, s)
    BY <1>2 DEF Put
  <2> QED
    BY <1>2, <2>1, BatchFacts, RequestIsShaped DEF Ops
<1> QED
  BY <1>1, <1>2

LEMMA ReadShape ==
    ASSUME NEW t \in Tables, t # "sent_messages", NEW r \in Get(t) \cup All(t) \cup Some(t)
    PROVE  Shaped(r)
<1>1. PICK op \in {"get", "all", "some"}, b \in Singles \cup {<< >>} : r = Request(op, t, b, << >>)
  BY DEF Get, All, Some
<1>2. b \in Seq(Keys)
  BY BatchFacts, EmptySeq
<1> QED
  BY <1>1, <1>2, TimesFacts, RequestIsShaped DEF Ops

LEMMA DeleteShape ==
    ASSUME NEW t \in Tables, t # "sent_messages", NEW bs, bs = Singles \/ bs = Batches,
           NEW r \in Delete(t, bs) \cup Clear(t) \cup Wipe(t)
    PROVE  Shaped(r)
<1>1. PICK op \in {"delete", "clear", "wipe"}, b \in Singles \cup Batches \cup {<< >>} :
          r = Request(op, t, b, << >>)
  BY DEF Delete, Clear, Wipe
<1>2. b \in Seq(Keys)
  BY BatchFacts, EmptySeq
<1> QED
  BY <1>1, <1>2, TimesFacts, RequestIsShaped DEF Ops

LEMMA ExpireShape ==
    ASSUME NEW t \in Tables, NEW cs, \A c \in cs : c \in Seq(Nat), NEW r \in Expire(t, cs)
    PROVE  Shaped(r)
<1>1. PICK c \in cs : r = Request("expire", t, << >>, c)
  BY DEF Expire
<1>2. << >> \in Seq(Keys) /\ c \in Seq(Nat)
  BY EmptySeq
<1> QED
  BY <1>1, <1>2, RequestIsShaped DEF Ops

LEMMA KeyValueShape ==
    ASSUME NEW t \in Tables, t # "sent_messages", NEW r \in KeyValue(t)
    PROVE  Shaped(r)
<1>1. CASE r \in Put(t, Singles, {<< >>})
  <2>1. \A s \in {<< >>} : s \in Seq(Nat)
    BY TimesFacts
  <2> QED
    BY <1>1, <2>1, PutShape
<1>2. CASE r \in Get(t)
  BY <1>2, ReadShape
<1>3. CASE r \in Delete(t, Singles)
  BY <1>3, DeleteShape
<1> QED
  BY <1>1, <1>2, <1>3 DEF KeyValue

LEMMA OtherShape ==
    ASSUME NEW r \in MarkRequests \cup LatestRequests \cup DeviceRequests \cup ClearDeviceRequests
                      \cup {Request("deleteDevices", "sender_key_devices", b, << >>) : b \in Batches}
                      \cup {Request("take", "sent_messages", b, << >>) : b \in Singles}
    PROVE  Shaped(r)
<1>1. <<DeviceKey>> \in Seq(Keys) /\ << >> \in Seq(Keys) /\ << >> \in Seq(Nat)
  BY RequestAssumption
<1>2. {"mark", "latest", "put", "get", "create", "clearDevice", "deleteDevices", "take"} \subseteq Ops
  BY DEF Ops
<1>3. {"prekeys", "sync_keys", "device", "sender_key_devices", "sent_messages"} \subseteq Tables
  BY DEF Tables
<1>4. CASE r \in MarkRequests
  <2>1. PICK b \in Batches : r = Request("mark", "prekeys", b, << >>)
    BY <1>4 DEF MarkRequests
  <2> QED
    BY <2>1, <1>1, <1>2, <1>3, BatchFacts, RequestIsShaped
<1>5. CASE r \in LatestRequests
  BY <1>5, <1>1, <1>2, <1>3, RequestIsShaped DEF LatestRequests
<1>6. CASE r \in DeviceRequests
  <2>1. PICK op \in {"put", "get", "create"} : r = Request(op, "device", <<DeviceKey>>, << >>)
    BY <1>6 DEF DeviceRequests, CreateRequests
  <2> QED
    BY <2>1, <1>1, <1>2, <1>3, RequestIsShaped
<1>7. CASE r \in ClearDeviceRequests
  BY <1>7, <1>1, <1>2, <1>3, RequestIsShaped DEF ClearDeviceRequests
<1>8. CASE r \in {Request("deleteDevices", "sender_key_devices", b, << >>) : b \in Batches}
  <2>1. PICK b \in Batches : r = Request("deleteDevices", "sender_key_devices", b, << >>)
    BY <1>8
  <2> QED
    BY <2>1, <1>1, <1>2, <1>3, BatchFacts, RequestIsShaped
<1>9. CASE r \in {Request("take", "sent_messages", b, << >>) : b \in Singles}
  <2>1. PICK b \in Singles : r = Request("take", "sent_messages", b, << >>)
    BY <1>9
  <2> QED
    BY <2>1, <1>1, <1>2, <1>3, BatchFacts, RequestIsShaped
<1> QED
  BY <1>4, <1>5, <1>6, <1>7, <1>8, <1>9

LEMMA TableFacts ==
    {"identities", "signal_sessions", "prekeys", "signed_prekeys", "sender_keys", "sync_keys",
     "app_versions", "mutation_macs", "sender_key_devices", "lid_mappings", "base_keys",
     "device_lists", "tc_tokens", "sent_messages", "msg_secrets", "device", "chats",
     "contacts"} \subseteq Tables
  BY DEF Tables

LEMMA RequestShape == \A r \in Requests : Shaped(r)
<1>1. ASSUME NEW r \in SignalRequests PROVE Shaped(r)
  <2>1. (\A s \in Flags : s \in Seq(Nat)) /\ "prekeys" \in Tables
    BY TimesFacts DEF Flags, Tables
  <2>2. CASE r \in PreKeyRequests
    <3>1. CASE r \in Put("prekeys", Singles, Flags)
      BY <2>1, <3>1, PutShape
    <3>2. CASE r \in Get("prekeys") \cup All("prekeys")
      BY <2>1, <3>2, ReadShape
    <3>3. CASE r \in Delete("prekeys", Singles)
      BY <2>1, <3>3, DeleteShape
    <3> QED
      BY <2>2, <3>1, <3>2, <3>3 DEF PreKeyRequests
  <2>3. CASE r \in IdentityRequests \cup SessionRequests \cup SignedPreKeyRequests
                      \cup SenderKeyRequests
    BY <2>3, TableFacts, KeyValueShape, ReadShape
    DEF IdentityRequests, SessionRequests, SignedPreKeyRequests, SenderKeyRequests
  <2> QED
    BY <1>1, <2>2, <2>3, OtherShape DEF SignalRequests
<1>2. ASSUME NEW r \in SyncRequests PROVE Shaped(r)
  <2>1. \A s \in {<< >>} : s \in Seq(Nat)
    BY TimesFacts
  <2>2. CASE r \in SyncKeyRequests \cup VersionRequests
    BY <2>1, <2>2, TableFacts, PutShape, ReadShape DEF SyncKeyRequests, VersionRequests
  <2>3. CASE r \in MacRequests
    BY <2>1, <2>3, TableFacts, PutShape, ReadShape, DeleteShape DEF MacRequests
  <2> QED
    BY <1>2, <2>2, <2>3, OtherShape DEF SyncRequests
<1>3. ASSUME NEW r \in ProtocolRequests PROVE Shaped(r)
  <2>1. ASSUME NEW x \in SenderKeyDeviceRequests PROVE Shaped(x)
    BY <2>1, TableFacts, TimesFacts, PutShape, ReadShape, DeleteShape, OtherShape
    DEF SenderKeyDeviceRequests, Flags
  <2>2. ASSUME NEW x \in LidRequests PROVE Shaped(x)
    BY <2>2, TableFacts, TimesFacts, PutShape, ReadShape DEF LidRequests
  <2>3. ASSUME NEW x \in ListRequests PROVE Shaped(x)
    BY <2>3, TableFacts, KeyValueShape DEF ListRequests
  <2>4. ASSUME NEW x \in TokenRequests PROVE Shaped(x)
    <3> DEFINE ts == Flags \cup {<<1, 0>>}
               cs == {<<1, 0>>, <<1, 1>>}
    <3>1. (\A s \in ts : s \in Seq(Nat)) /\ (\A c \in cs : c \in Seq(Nat))
      BY TimesFacts DEF Flags
    <3>2. \/ x \in Put("tc_tokens", Singles, ts)
          \/ x \in Get("tc_tokens") \cup All("tc_tokens")
          \/ x \in Delete("tc_tokens", Singles)
          \/ x \in Expire("tc_tokens", cs)
      BY <2>4 DEF TokenRequests
    <3> HIDE DEF ts, cs
    <3>3. "tc_tokens" \in Tables
      BY DEF Tables
    <3>4. CASE x \in Put("tc_tokens", Singles, ts)
      BY <3>4, <3>1, <3>3, PutShape
    <3>5. CASE x \in Get("tc_tokens") \cup All("tc_tokens")
      BY <3>5, <3>3, ReadShape
    <3>6. CASE x \in Delete("tc_tokens", Singles)
      BY <3>6, <3>3, DeleteShape
    <3>7. CASE x \in Expire("tc_tokens", cs)
      BY <3>7, <3>1, <3>3, ExpireShape
    <3> QED
      BY <3>2, <3>4, <3>5, <3>6, <3>7
  <2>5. ASSUME NEW x \in SentRequests PROVE Shaped(x)
    <3>1. (\A s \in Flags : s \in Seq(Nat)) /\ "sent_messages" \in Tables
      BY TimesFacts DEF Flags, Tables
    <3>2. CASE x \in Put("sent_messages", Singles, Flags)
      BY <3>1, <3>2, PutShape
    <3>3. CASE x \in Expire("sent_messages", Flags)
      BY <3>1, <3>3, ExpireShape
    <3> QED
      BY <2>5, <3>2, <3>3, OtherShape DEF SentRequests
  <2> QED
    BY <1>3, <2>1, <2>2, <2>3, <2>4, <2>5 DEF ProtocolRequests
<1>4. ASSUME NEW r \in SecretRequests PROVE Shaped(r)
  <2>1. (\A s \in Flags : s \in Seq(Nat)) /\ "msg_secrets" \in Tables
    BY TimesFacts DEF Flags, Tables
  <2>2. CASE r \in Put("msg_secrets", Batches, Flags)
    BY <2>1, <2>2, PutShape
  <2>3. CASE r \in Get("msg_secrets")
    BY <2>1, <2>3, ReadShape
  <2>4. CASE r \in Expire("msg_secrets", Flags)
    BY <2>1, <2>4, ExpireShape
  <2> QED
    BY <1>4, <2>2, <2>3, <2>4 DEF SecretRequests
<1>5. ASSUME NEW r \in ContactRequests \cup ChatRequests PROVE Shaped(r)
  BY <1>5, TableFacts, KeyValueShape, ReadShape DEF ContactRequests, ChatRequests
<1> QED
  BY <1>1, <1>2, <1>3, <1>4, <1>5, OtherShape DEF Requests

-----------------------------------------------------------------------------
(* What the statements of a request do to its table.                       *)

Table == [Keys -> Row \cup {NoRow}]

\* A request that has its number.
Numbered(r) == r \in Asks /\ Shaped([r EXCEPT !.value = 0])

LEMMA AskFacts ==
    ASSUME NEW r, Numbered(r)
    PROVE  /\ r.op \in Ops /\ r.table \in Tables /\ r.keys \in Seq(Keys) /\ r.times \in Seq(Nat)
           /\ r.value \in Nat
           /\ r.op = "put" /\ r.table \in {"sync_keys", "sent_messages"} => Len(r.keys) = 1
           /\ r.op = "take" => Len(r.keys) = 1 /\ r.table = "sent_messages"
           /\ r.table = "sent_messages" => r.op \in {"put", "take", "expire"}
           /\ r.op = "create" => r.table = "device" /\ r.keys = <<DeviceKey>>
           /\ Statements(r) \in Nat
           /\ r.op \notin {"put", "delete", "deleteDevices", "mark", "create"} => Statements(r) = 1
           /\ r.op \in {"put", "delete", "deleteDevices", "mark"} => Statements(r) = Len(r.keys)
           /\ r.op = "create" => Statements(r) = 2
<1> DEFINE z == [r EXCEPT !.value = 0]
<1>1. z.op = r.op /\ z.table = r.table /\ z.keys = r.keys
  BY DEF Numbered, Asks
<1>2. Shaped(z)
  BY DEF Numbered
<1>3. r.op \in Ops /\ r.table \in Tables /\ r.keys \in Seq(Keys) /\ r.times \in Seq(Nat)
        /\ r.value \in Nat
  <2>1. z.op \in Ops
    BY <1>2 DEF Shaped
  <2> HIDE DEF z
  <2> QED
    BY <2>1, <1>1 DEF Numbered, Asks
<1>4. Len(r.keys) \in Nat
  BY <1>3, LenProperties
<1> HIDE DEF z
<1>5. /\ r.op = "put" /\ r.table \in {"sync_keys", "sent_messages"} => Len(r.keys) = 1
      /\ r.op = "take" => Len(r.keys) = 1 /\ r.table = "sent_messages"
      /\ r.table = "sent_messages" => r.op \in {"put", "take", "expire"}
      /\ r.op = "create" => r.table = "device" /\ r.keys = <<DeviceKey>>
  BY <1>1, <1>2 DEF Shaped
<1>6. Statements(r) \in Nat
  BY <1>4 DEF Statements
<1>7. /\ r.op \notin {"put", "delete", "deleteDevices", "mark", "create"} => Statements(r) = 1
      /\ r.op \in {"put", "delete", "deleteDevices", "mark"} => Statements(r) = Len(r.keys)
      /\ r.op = "create" => Statements(r) = 2
  BY DEF Statements
<1> QED
  BY <1>3, <1>5, <1>6, <1>7

LEMMA RowFacts ==
    ASSUME NEW r, Numbered(r), NEW d \in Table, NEW k \in Keys, NEW i \in Nat, k \in Hits(d, r, i)
    PROVE  NewRow(d, r, k) \in Row \cup {NoRow}
<1>1. CASE r.op \in {"put", "create"}
  BY <1>1, AskFacts DEF NewRow, Row
<1>2. CASE r.op = "mark"
  <2>1. d[k] \in Row
    BY <1>2 DEF Hits, Table
  <2>2. <<1>> \in Seq(Nat)
    BY TimesFacts
  <2>3. [d[k] EXCEPT !.times = <<1>>] \in Row
    BY <2>1, <2>2 DEF Row
  <2> QED
    BY <1>2, <2>3 DEF NewRow
<1> QED
  BY <1>1, <1>2 DEF NewRow

LEMMA DoneType ==
    ASSUME NEW r, Numbered(r), NEW d \in Table, NEW n \in Nat
    PROVE  Done(d, r, n) \in Table /\ Statement(d, r, n) \in Table
<1>1. ASSUME NEW k \in Keys, NEW i \in 1..n, k \in Hits(d, r, i)
      PROVE  NewRow(d, r, k) \in Row \cup {NoRow}
  BY <1>1, RowFacts
<1>2. ASSUME NEW k \in Keys, k \in Hits(d, r, n)
      PROVE  NewRow(d, r, k) \in Row \cup {NoRow}
  BY <1>2, RowFacts
<1> QED
  BY <1>1, <1>2 DEF Done, Statement, Table

LEMMA DoneNothing ==
    ASSUME NEW r, NEW d \in Table
    PROVE  Done(d, r, 0) = d
  BY DEF Done, Table

\* The n-th statement finds what the ones before it have left, which changes
\* nothing of what it does.
LEMMA StatementDone ==
    ASSUME NEW r, Numbered(r), r.op # "create", NEW d \in Table, NEW n \in Nat, n < Statements(r)
    PROVE  Statement(Done(d, r, n), r, n + 1) = Done(d, r, n + 1)
<1> DEFINE D == Done(d, r, n)
<1>1. \A k \in Keys : D[k] = IF \E i \in 1..n : k \in Hits(d, r, i) THEN NewRow(d, r, k) ELSE d[k]
  BY DEF Done
<1>a. D \in Table
  BY DoneType
<1>b. \A i \in 1..(n + 1) : i \in 1..n \/ i = n + 1
  OBVIOUS
<1>c. 1..n \subseteq 1..(n + 1) /\ n + 1 \in 1..(n + 1)
  OBVIOUS
<1> HIDE DEF D
<1>2. CASE r.op \in {"put", "delete", "deleteDevices"}
  <2>1. \A k \in Keys : k \in Hits(D, r, n + 1) <=> k \in Hits(d, r, n + 1)
    BY <1>2 DEF Hits
  <2>2. \A k \in Keys : NewRow(D, r, k) = NewRow(d, r, k)
    BY <1>2 DEF NewRow
  <2>3. ASSUME NEW k \in Keys
        PROVE  (IF k \in Hits(D, r, n + 1) THEN NewRow(D, r, k) ELSE D[k])
               = (IF \E i \in 1..(n + 1) : k \in Hits(d, r, i) THEN NewRow(d, r, k) ELSE d[k])
    BY <1>1, <1>b, <1>c, <2>1, <2>2
  <2> QED
    BY <2>3 DEF Statement, Done, D
<1>3. CASE r.op = "mark"
  <2>1. \A k \in Keys : k \in Hits(d, r, n + 1) => d[k] \in Row
    BY <1>3 DEF Hits, Table
  <2>2. \A k \in Keys : NewRow(d, r, k) = [d[k] EXCEPT !.times = <<1>>]
    BY <1>3 DEF NewRow
  <2>3. \A k \in Keys : NewRow(D, r, k) = [D[k] EXCEPT !.times = <<1>>]
    BY <1>3 DEF NewRow
  <2>4. NoRow \notin Row
    BY RequestAssumption DEF Row
  <2>5. \A k \in Keys : d[k] \in Row => [d[k] EXCEPT !.times = <<1>>] \in Row
    BY TimesFacts DEF Row
  <2>6. \A k \in Keys : d[k] \in Row =>
           [[d[k] EXCEPT !.times = <<1>>] EXCEPT !.times = <<1>>] = [d[k] EXCEPT !.times = <<1>>]
    BY DEF Row
  <2>7. \A k \in Keys, i \in 1..n : k \in Hits(d, r, i) => d[k] \in Row
    BY <1>3 DEF Hits, Table
  <2>8. \A k \in Keys : D[k] # NoRow <=> d[k] # NoRow
    <3> TAKE k \in Keys
    <3>1. CASE \E i \in 1..n : k \in Hits(d, r, i)
      <4>1. d[k] \in Row
        BY <2>7, <3>1
      <4>2. NewRow(d, r, k) \in Row
        BY <2>2, <2>5, <4>1
      <4>3. D[k] = NewRow(d, r, k)
        BY <1>1, <3>1
      <4> QED
        BY <2>4, <4>1, <4>2, <4>3
    <3>2. CASE ~\E i \in 1..n : k \in Hits(d, r, i)
      BY <1>1, <3>2
    <3> QED
      BY <3>1, <3>2
  <2>9. \A k \in Keys : k \in Hits(D, r, n + 1) <=> k \in Hits(d, r, n + 1)
    BY <1>3, <2>8 DEF Hits
  <2>10. \A k \in Keys : k \in Hits(d, r, n + 1) => NewRow(D, r, k) = NewRow(d, r, k)
    BY <1>1, <2>1, <2>2, <2>3, <2>6
  <2>11. ASSUME NEW k \in Keys
         PROVE  (IF k \in Hits(D, r, n + 1) THEN NewRow(D, r, k) ELSE D[k])
                = (IF \E i \in 1..(n + 1) : k \in Hits(d, r, i) THEN NewRow(d, r, k) ELSE d[k])
    BY <1>1, <1>b, <1>c, <2>9, <2>10
  <2> QED
    BY <2>11 DEF Statement, Done, D
<1>4. CASE r.op \notin {"put", "delete", "deleteDevices", "mark"}
  <2>1. n = 0
    BY <1>4, AskFacts
  <2>2. D = d
    BY <2>1, DoneNothing DEF D
  <2>3. \A i \in 1..(n + 1) : i = n + 1
    BY <2>1
  <2>4. ASSUME NEW k \in Keys
        PROVE  k \in Hits(d, r, n + 1) <=> \E i \in 1..(n + 1) : k \in Hits(d, r, i)
    BY <2>3, <1>c
  <2>5. Statement(d, r, n + 1) = Done(d, r, n + 1)
    BY <2>4 DEF Statement, Done
  <2> QED
    BY <2>2, <2>5 DEF D
<1> QED
  BY <1>2, <1>3, <1>4

\* The count of create() changes nothing, and neither does create() when there
\* is a row.
LEMMA CreateDone ==
    ASSUME NEW r, Numbered(r), r.op = "create", NEW d \in Table
    PROVE  /\ Done(d, r, 1) = d
           /\ d[DeviceKey] # NoRow => Done(d, r, 2) = d
           /\ Statement(d, r, 2) = Done(d, r, 2)
<1>1. r.keys[1] = DeviceKey
  BY AskFacts
<1>2. 2 \in 1..2 /\ \A i \in 1..1 : i # 2
  OBVIOUS
<1>3. \A i \in Nat : \A k \in Keys : k \in Hits(d, r, i) <=> (i = 2 /\ k = DeviceKey /\ d[k] = NoRow)
  BY <1>1 DEF Hits
<1>4. \A i \in 1..2 : i \in Nat
  OBVIOUS
<1>5. \A i \in 1..1 : i \in Nat
  OBVIOUS
<1>6. Done(d, r, 1) = d
  BY <1>2, <1>3, <1>5 DEF Done, Table
<1>7. d[DeviceKey] # NoRow => Done(d, r, 2) = d
  BY <1>3, <1>4 DEF Done, Table
<1>8. Statement(d, r, 2) = Done(d, r, 2)
  BY <1>2, <1>3, <1>4 DEF Statement, Done
<1> QED
  BY <1>6, <1>7, <1>8

-----------------------------------------------------------------------------
(* The rowids of sync_keys.                                                *)

Setting(r) == r.op = "put" /\ r.table = "sync_keys"

LEMMA LatestIsMax ==
    ASSUME NEW o \in [Keys -> Nat], Ranked(o), \E k \in Keys : o[k] > 0
    PROVE  Latest(o) \in Keys /\ \A k \in Keys \ {Latest(o)} : o[k] < o[Latest(o)]
<1>1. PICK m \in Keys : \A k \in Keys \ {m} : o[k] < o[m]
  BY DEF Ranked
<1>2. \A j \in Keys : o[j] <= o[m]
  BY <1>1
<1>3. \A k \in Keys : (\A j \in Keys : o[j] <= o[k]) => k = m
  BY <1>1
<1>4. (CHOOSE k \in Keys : \A j \in Keys : o[j] <= o[k]) = m
  BY <1>2, <1>3
<1>5. ~\A k \in Keys : o[k] = 0
  OBVIOUS
<1>6. Latest(o) = m
  BY <1>4, <1>5 DEF Latest
<1> QED
  BY <1>1, <1>6

LEMMA LatestOfNone ==
    ASSUME NEW o \in [Keys -> Nat], ~\E k \in Keys : o[k] > 0
    PROVE  Latest(o) = NoKey /\ Ranked(o)
  BY DEF Latest, Ranked

LEMMA NextRowidIsNext ==
    ASSUME NEW o \in [Keys -> Nat], Ranked(o)
    PROVE  NextRowid(o) \in Nat \ {0} /\ \A k \in Keys : o[k] < NextRowid(o)
<1>1. CASE \E k \in Keys : o[k] > 0
  <2>1. Latest(o) \in Keys /\ \A k \in Keys \ {Latest(o)} : o[k] < o[Latest(o)]
    BY <1>1, LatestIsMax
  <2>2. NextRowid(o) = o[Latest(o)] + 1
    BY <2>1, RequestAssumption DEF NextRowid
  <2> QED
    BY <2>1, <2>2
<1>2. CASE ~\E k \in Keys : o[k] > 0
  BY <1>2, LatestOfNone DEF NextRowid
<1> QED
  BY <1>1, <1>2

LEMMA OrderedFacts ==
    ASSUME NEW o \in [Keys -> Nat], Ranked(o), NEW r, Numbered(r)
    PROVE  /\ Ordered(o, r) \in [Keys -> Nat] /\ Ranked(Ordered(o, r))
           /\ Setting(r) => Latest(Ordered(o, r)) = r.keys[1]
           /\ ~Setting(r) => Ordered(o, r) = o
<1>1. CASE Setting(r)
  <2> DEFINE k == r.keys[1]
             q == [o EXCEPT ![k] = NextRowid(o)]
  <2>1. k \in Keys
    <3>1. Len(r.keys) = 1 /\ r.keys \in Seq(Keys)
      BY <1>1, AskFacts DEF Setting
    <3> QED
      BY <3>1, ElementOfSeq
  <2>2. NextRowid(o) \in Nat \ {0} /\ \A j \in Keys : o[j] < NextRowid(o)
    BY NextRowidIsNext
  <2>3. Ordered(o, r) = q
    BY <1>1 DEF Ordered, Setting
  <2>4. q \in [Keys -> Nat] /\ q[k] > 0 /\ \A j \in Keys \ {k} : q[j] < q[k]
    BY <2>1, <2>2
  <2> HIDE DEF k, q
  <2>5. Ranked(q)
    BY <2>1, <2>4 DEF Ranked
  <2>6. Latest(q) \in Keys /\ \A j \in Keys \ {Latest(q)} : q[j] < q[Latest(q)]
    BY <2>1, <2>4, <2>5, LatestIsMax
  <2>7. Latest(q) = k
    BY <2>1, <2>4, <2>6
  <2> QED
    BY <1>1, <2>3, <2>4, <2>5, <2>7 DEF k
<1>2. CASE ~Setting(r)
  BY <1>2 DEF Ordered, Setting
<1> QED
  BY <1>1, <1>2

-----------------------------------------------------------------------------
(* Type correctness.                                                       *)

LEMMA PendingFacts ==
    ASSUME TypeOK, NEW p \in Callers, pending[p] # NoRequest
    PROVE  Numbered(pending[p]) /\ pending[p].value \in 1..count
<1>1. pending[p] \in Asks
  BY DEF TypeOK
<1>2. pending[p].value \in 1..count /\ [pending[p] EXCEPT !.value = 0] \in Requests
  BY DEF TypeOK
<1> QED
  BY <1>1, <1>2, RequestShape DEF Numbered

LEMMA Asking ==
    ASSUME TypeOK, NEW p \in Callers, NEW r \in Requests, Asked(p, r)
    PROVE  /\ pending' \in [Callers -> Asks \cup {NoRequest}]
           /\ pending'[p] # NoRequest /\ pending'[p].value = count + 1
           /\ \A q \in Callers \ {p} : pending'[q] = pending[q]
           /\ \A q \in Callers :
                 pending'[q] # NoRequest =>
                     pending'[q].value \in 1..count' /\ [pending'[q] EXCEPT !.value = 0] \in Requests
           /\ count' = count + 1 /\ count' \in 0..MaxRequests
<1> DEFINE x == [r EXCEPT !.value = count + 1]
<1>1. count \in 0..MaxRequests /\ MaxRequests \in Nat
  BY StoreAssumption DEF TypeOK
<1>2. Shaped(r)
  BY RequestShape
<1>3. x \in Asks /\ x.value = count + 1 /\ [x EXCEPT !.value = 0] = r
  <2>1. r \in [op : Ops, table : Tables, keys : Seq(Keys), times : Seq(Nat), value : {0}]
    BY <1>2 DEF Shaped
  <2>2. x \in Asks
    <3>1. x = [op |-> r.op, table |-> r.table, keys |-> r.keys, times |-> r.times,
               value |-> count + 1]
      BY <2>1
    <3>2. count + 1 \in Nat
      BY <1>1
    <3> HIDE DEF x
    <3> QED
      BY <2>1, <3>1, <3>2 DEF Asks
  <2>3. x.value = count + 1
    BY <2>1
  <2>4. [x EXCEPT !.value = 0] = r
    BY <2>1
  <2> QED
    BY <2>2, <2>3, <2>4
<1>4. x # NoRequest
  BY <1>3, StoreAssumption
<1>5. count' = count + 1 /\ count' \in 0..MaxRequests /\ pending' = [pending EXCEPT ![p] = x]
  BY <1>1 DEF Asked
<1> HIDE DEF x
<1>6. pending'[p] = x /\ \A q \in Callers \ {p} : pending'[q] = pending[q]
  BY <1>5 DEF TypeOK
<1>7. pending' \in [Callers -> Asks \cup {NoRequest}]
  BY <1>3, <1>5 DEF TypeOK
<1>8. ASSUME NEW q \in Callers, pending'[q] # NoRequest
      PROVE  pending'[q].value \in 1..count' /\ [pending'[q] EXCEPT !.value = 0] \in Requests
  <2>1. CASE q = p
    BY <1>1, <1>3, <1>5, <1>6, <2>1
  <2>2. CASE q # p
    <3>1. pending[q].value \in 1..count /\ [pending[q] EXCEPT !.value = 0] \in Requests
      BY <1>6, <1>8, <2>2 DEF TypeOK
    <3> QED
      BY <3>1, <1>1, <1>5, <1>6, <2>2
  <2> QED
    BY <2>1, <2>2
<1> QED
  BY <1>3, <1>4, <1>5, <1>6, <1>7, <1>8

LEMMA Answering ==
    ASSUME TypeOK, NEW p \in Callers, pending' = [pending EXCEPT ![p] = NoRequest], count' = count
    PROVE  /\ pending' \in [Callers -> Asks \cup {NoRequest}]
           /\ \A q \in Callers :
                 pending'[q] # NoRequest =>
                     /\ q # p /\ pending'[q] = pending[q]
                     /\ pending'[q].value \in 1..count'
                     /\ [pending'[q] EXCEPT !.value = 0] \in Requests
  BY DEF TypeOK

LEMMA TabledAt ==
    ASSUME NEW d, Tabled(d)
    PROVE  /\ \A t \in Tables : d[t] \in Table
           /\ \A t \in Tables : \A e \in Table : Tabled([d EXCEPT ![t] = e])
  BY DEF Tabled, Table

LEMMA EmptyFacts == Tabled(EmptyTables) /\ EmptyOrder \in [Keys -> Nat] /\ Ranked(EmptyOrder)
  BY DEF Tabled, EmptyTables, EmptyOrder, Ranked

\* The parts of TypeOK that an action may disturb on its own.
Locked ==
    /\ holder \in Callers \cup {Nobody} /\ at \in Nat
    /\ old \in [db : {old.db}, order : [Keys -> Nat]] /\ Tabled(old.db)

LEMMA NothingFacts ==
    ASSUME holder' = Nobody, at' = 0, old' = Nothing
    PROVE  Locked'
  BY EmptyFacts DEF Locked, Nothing

LEMMA HandedType ==
    ASSUME TypeOK, NEW r, NEW rows
    PROVE  Handed(r, rows) \in [1..MaxRequests -> Nat]
  BY DEF TypeOK, Handed

LEMMA TypeStep == TypeOK /\ OrderInv /\ [Next]_vars => TypeOK'
<1> SUFFICES ASSUME TypeOK, OrderInv, [Next]_vars PROVE TypeOK'
  OBVIOUS
<1>o. order \in [Keys -> Nat] /\ Ranked(order) /\ Tabled(db) /\ Locked
  BY DEF TypeOK, OrderInv, Locked
<1>1. ASSUME NEW p \in Callers, Lock(p) PROVE TypeOK'
  <2>1. PICK r \in Requests : Asked(p, r)
    BY <1>1 DEF Lock
  <2>2. Locked'
    BY <1>1, <1>o DEF Lock, Locked
  <2>3. UNCHANGED <<sqlite, db, order, crashes, handed>>
    BY <1>1 DEF Lock, dbVars
  <2> QED
    BY <2>1, <2>2, <2>3, Asking DEF TypeOK, Locked
<1>2. ASSUME NEW p \in Callers, Execute(p) PROVE TypeOK'
  <2> DEFINE r == pending[p]
  <2>1. r # NoRequest /\ at' = at + 1 /\ db' = [db EXCEPT ![r.table] = Statement(@, r, at + 1)]
          /\ order' = Ordered(order, r)
    BY <1>2 DEF Execute
  <2>2. UNCHANGED <<sqlite, holder, old, pending, count, crashes, handed>>
    BY <1>2 DEF Execute
  <2>3. Numbered(r) /\ r.table \in Tables
    BY <2>1, PendingFacts, AskFacts
  <2>4. Statement(db[r.table], r, at + 1) \in Table
    <3>1. db[r.table] \in Table /\ at + 1 \in Nat
      BY <1>o, <2>3, TabledAt DEF Locked
    <3> QED
      BY <2>3, <3>1, DoneType
  <2>5. Tabled(db')
    BY <1>o, <2>1, <2>3, <2>4, TabledAt
  <2>6. order' \in [Keys -> Nat]
    BY <1>o, <2>1, <2>3, OrderedFacts
  <2>7. Locked'
    BY <1>o, <2>1, <2>2 DEF Locked
  <2> QED
    BY <2>2, <2>5, <2>6, <2>7 DEF TypeOK, Locked
<1>3. ASSUME NEW p \in Callers, CountDevice(p) PROVE TypeOK'
  <2>1. at' \in Nat
    BY <1>3 DEF CountDevice
  <2> QED
    BY <1>3, <2>1 DEF TypeOK, CountDevice, dbVars
<1>4. ASSUME NEW p \in Callers, InsertDevice(p) PROVE TypeOK'
  <2> DEFINE r == pending[p]
  <2>1. r # NoRequest /\ at' = 2 /\ db' = [db EXCEPT !["device"] = Statement(@, r, 2)]
    BY <1>4 DEF InsertDevice
  <2>2. UNCHANGED <<sqlite, order, holder, old, pending, count, crashes, handed>>
    BY <1>4 DEF InsertDevice
  <2>3. Numbered(r) /\ "device" \in Tables
    BY <2>1, PendingFacts DEF Tables
  <2>4. Tabled(db')
    BY <1>o, <2>1, <2>3, TabledAt, DoneType
  <2> QED
    BY <2>1, <2>2, <2>4 DEF TypeOK
<1>5. ASSUME NEW p \in Callers, StatementFails(p) PROVE TypeOK'
  <2>1. UNCHANGED <<sqlite, db, order, count, crashes, handed>> /\ Locked'
    BY <1>5, NothingFacts DEF StatementFails, Unlock, dbVars
  <2>2. pending' = [pending EXCEPT ![p] = NoRequest]
    BY <1>5 DEF StatementFails, Unlock
  <2> QED
    BY <2>1, <2>2, Answering DEF TypeOK, Locked
<1>6. ASSUME NEW p \in Callers, Return(p) PROVE TypeOK'
  <2>1. UNCHANGED <<sqlite, db, order, count, crashes>> /\ Locked'
    BY <1>6, NothingFacts DEF Return, Unlock, dbVars
  <2>2. pending' = [pending EXCEPT ![p] = NoRequest]
    BY <1>6 DEF Return, Unlock
  <2>3. handed' \in [1..MaxRequests -> Nat]
    BY <1>6, HandedType DEF Return
  <2> QED
    BY <2>1, <2>2, <2>3, Answering DEF TypeOK, Locked
<1>7. ASSUME NEW p \in Callers, Call(p) PROVE TypeOK'
  <2>1. PICK r \in Requests : Asked(p, r)
    BY <1>7 DEF Call
  <2>2. UNCHANGED <<sqlite, db, order, holder, at, old, crashes, handed>>
    BY <1>7 DEF Call, dbVars, lockVars
  <2> QED
    BY <2>1, <2>2, Asking DEF TypeOK
<1>8. ASSUME NEW p \in Callers, MemoryServes(p) PROVE TypeOK'
  <2> DEFINE r == pending[p]
  <2>1. Numbered(r) /\ r.table \in Tables /\ Statements(r) \in Nat
    BY <1>8, PendingFacts, AskFacts DEF MemoryServes
  <2>2. Tabled(db')
    <3>1. Done(db[r.table], r, Statements(r)) \in Table
      BY <1>o, <2>1, TabledAt, DoneType
    <3>2. db' = db \/ db' = [db EXCEPT ![r.table] = Done(@, r, Statements(r))]
      BY <1>8 DEF MemoryServes
    <3> QED
      BY <1>o, <2>1, <3>1, <3>2, TabledAt
  <2>3. order' \in [Keys -> Nat]
    <3>1. order' = Ordered(order, r)
      BY <1>8 DEF MemoryServes
    <3> QED
      BY <1>o, <2>1, <3>1, OrderedFacts
  <2>4. handed' \in [1..MaxRequests -> Nat]
    BY <1>8, HandedType DEF MemoryServes
  <2>5. UNCHANGED <<sqlite, holder, at, old, count, crashes>>
    BY <1>8 DEF MemoryServes, lockVars
  <2>6. pending' = [pending EXCEPT ![p] = NoRequest]
    BY <1>8 DEF MemoryServes
  <2> QED
    BY <2>2, <2>3, <2>4, <2>5, <2>6, Answering DEF TypeOK
<1>9. CASE Crash
  <2>1. Tabled(db') /\ order' \in [Keys -> Nat]
    BY <1>9, <1>o, EmptyFacts DEF Crash, dbVars
  <2>2. Locked'
    BY <1>9, NothingFacts DEF Crash
  <2>3. pending' = [p \in Callers |-> NoRequest] /\ UNCHANGED <<sqlite, count, handed>>
    BY <1>9 DEF Crash
  <2>4. crashes' \in 0..MaxCrashes
    BY <1>9, StoreAssumption DEF Crash, TypeOK
  <2> QED
    BY <2>1, <2>2, <2>3, <2>4 DEF TypeOK, Locked
<1>10. CASE UNCHANGED vars
  BY <1>10 DEF TypeOK, vars, dbVars, lockVars
<1> QED
  BY <1>1, <1>2, <1>3, <1>4, <1>5, <1>6, <1>7, <1>8, <1>9, <1>10 DEF Next, CallerNext

-----------------------------------------------------------------------------
(* Who holds the lock, and what has become of the tables since.            *)

LEMMA HeldFacts ==
    ASSUME TypeOK, OrderInv, HeldInv, NEW p \in Callers, sqlite, pending[p] # NoRequest
    PROVE  /\ holder = p /\ at \in 0..Statements(pending[p])
           /\ Numbered(pending[p]) /\ pending[p].table \in Tables
           /\ Tabled(old.db) /\ old.db[pending[p].table] \in Table
           /\ old.order \in [Keys -> Nat] /\ Ranked(old.order)
           /\ db = [old.db EXCEPT ![pending[p].table] = Done(@, pending[p], at)]
           /\ order = IF at > 0 THEN Ordered(old.order, pending[p]) ELSE old.order
           /\ answer = IF at > 0
                       THEN Answer(old.db[pending[p].table], Latest(old.order), pending[p]) ELSE {}
<1>1. holder = p /\ holder # Nobody
  BY StoreAssumption DEF HeldInv
<1>2. Numbered(pending[p]) /\ pending[p].table \in Tables /\ Statements(pending[p]) \in Nat
  BY PendingFacts, AskFacts
<1>3. Tabled(old.db) /\ old.order \in [Keys -> Nat] /\ at \in Nat
  BY DEF TypeOK
<1>4. old.db[pending[p].table] \in Table
  BY <1>2, <1>3, TabledAt
<1> QED
  BY <1>1, <1>2, <1>3, <1>4 DEF HeldInv, OrderInv

LEMMA OrderStep == TypeOK /\ OrderInv /\ [Next]_vars => OrderInv'
<1> SUFFICES ASSUME TypeOK, OrderInv, [Next]_vars PROVE OrderInv'
  OBVIOUS
<1>1. order \in [Keys -> Nat] /\ Ranked(order) /\ Ranked(old.order)
  BY DEF TypeOK, OrderInv
<1>2. ASSUME NEW p \in Callers, pending[p] # NoRequest
      PROVE  Ranked(Ordered(order, pending[p]))
  BY <1>1, <1>2, PendingFacts, OrderedFacts
<1>3. Nothing.order = EmptyOrder
  BY DEF Nothing
<1>4. ASSUME NEW p \in Callers, CallerNext(p) PROVE OrderInv'
  <2>1. CASE Lock(p)
    BY <1>1, <2>1 DEF Lock, dbVars, OrderInv
  <2>2. CASE Execute(p)
    BY <1>1, <1>2, <2>2 DEF Execute, OrderInv
  <2>3. CASE CountDevice(p) \/ InsertDevice(p) \/ Call(p)
    BY <1>1, <2>3 DEF CountDevice, InsertDevice, Call, dbVars, lockVars, OrderInv
  <2>4. CASE StatementFails(p) \/ Return(p)
    BY <1>1, <1>3, <2>4, EmptyFacts DEF StatementFails, Return, Unlock, dbVars, OrderInv
  <2>5. CASE MemoryServes(p)
    BY <1>1, <1>2, <2>5 DEF MemoryServes, lockVars, OrderInv
  <2> QED
    BY <1>4, <2>1, <2>2, <2>3, <2>4, <2>5 DEF CallerNext
<1>5. CASE Crash
  BY <1>1, <1>3, <1>5, EmptyFacts DEF Crash, dbVars, OrderInv
<1>6. CASE UNCHANGED vars
  BY <1>1, <1>6 DEF vars, dbVars, lockVars, OrderInv
<1> QED
  BY <1>4, <1>5, <1>6 DEF Next

\* A batch returns nothing, and neither does create().
LEMMA BatchAnswer ==
    ASSUME NEW r, NEW d, NEW latest, r.op \in {"put", "delete", "deleteDevices", "mark", "create"}
    PROVE  Answer(d, latest, r) = {}
  BY DEF Answer, Sees

LEMMA HeldStep == TypeOK /\ OrderInv /\ HeldInv /\ [Next]_vars => HeldInv'
<1> SUFFICES ASSUME TypeOK, OrderInv, HeldInv, [Next]_vars PROVE HeldInv'
  OBVIOUS
<1>1. ASSUME NEW p \in Callers, Lock(p) PROVE HeldInv'
  <2>1. PICK r \in Requests : Asked(p, r)
    BY <1>1 DEF Lock
  <2>2. /\ sqlite /\ sqlite' = sqlite /\ holder = Nobody /\ holder' = p /\ at' = 0 /\ answer' = {}
        /\ old' = [db |-> db, order |-> order] /\ db' = db /\ order' = order
    BY <1>1 DEF Lock, dbVars
  <2>3. \A q \in Callers : pending[q] = NoRequest
    BY <2>2, StoreAssumption DEF HeldInv
  <2>4. pending'[p] # NoRequest /\ \A q \in Callers \ {p} : pending'[q] = NoRequest
    BY <2>1, <2>3, Asking
  <2>5. TypeOK'
    BY TypeStep
  <2>6. LET x == pending'[p] IN Numbered(x) /\ x.table \in Tables /\ Statements(x) \in Nat
    <3>1. pending'[p] \in Asks /\ [pending'[p] EXCEPT !.value = 0] \in Requests
      BY <2>4, <2>5 DEF TypeOK
    <3> QED
      BY <3>1, RequestShape, AskFacts DEF Numbered
  <2>7. db[(pending'[p]).table] \in Table
    BY <2>6, TabledAt DEF TypeOK
  <2>8. db = [db EXCEPT ![(pending'[p]).table] = Done(@, pending'[p], 0)]
    BY <2>6, <2>7, DoneNothing DEF TypeOK, Tabled
  <2> QED
    BY <2>2, <2>4, <2>6, <2>8 DEF HeldInv
<1>2. ASSUME NEW p \in Callers, Execute(p) PROVE HeldInv'
  <2> DEFINE r == pending[p]
             d == old.db[r.table]
  <2>1. /\ holder = p /\ r # NoRequest /\ r.op # "create" /\ at < Statements(r) /\ at' = at + 1
        /\ answer' = Answer(db[r.table], Latest(order), r)
        /\ db' = [db EXCEPT ![r.table] = Statement(@, r, at + 1)]
        /\ order' = Ordered(order, r)
    BY <1>2 DEF Execute
  <2>2. UNCHANGED <<sqlite, holder, old, pending>>
    BY <1>2 DEF Execute
  <2>3. sqlite
    BY <2>1, StoreAssumption DEF HeldInv
  <2>4. /\ at \in 0..Statements(r) /\ Numbered(r) /\ r.table \in Tables /\ Tabled(old.db)
        /\ d \in Table /\ old.order \in [Keys -> Nat] /\ Ranked(old.order)
        /\ db = [old.db EXCEPT ![r.table] = Done(@, r, at)]
        /\ order = IF at > 0 THEN Ordered(old.order, r) ELSE old.order
        /\ answer = IF at > 0 THEN Answer(d, Latest(old.order), r) ELSE {}
    BY <2>1, <2>3, HeldFacts
  <2> HIDE DEF r
  <2>5. Statements(r) \in Nat /\ at \in Nat
    BY <2>4, AskFacts
  <2>6. db[r.table] = Done(d, r, at)
    BY <2>4 DEF Tabled
  <2>7. db' = [old.db EXCEPT ![r.table] = Done(d, r, at + 1)]
    <3>1. Statement(Done(d, r, at), r, at + 1) = Done(d, r, at + 1)
      BY <2>1, <2>4, <2>5, StatementDone
    <3> QED
      BY <2>1, <2>4, <2>6, <3>1 DEF Tabled
  <2>8. at > 0 => r.op \in {"put", "delete", "deleteDevices", "mark"} /\ ~Setting(r)
    <3> SUFFICES ASSUME at > 0 PROVE r.op \in {"put", "delete", "deleteDevices", "mark"} /\ ~Setting(r)
      OBVIOUS
    <3>1. Statements(r) > 1
      BY <2>1, <2>5
    <3>a. /\ r.op \notin {"put", "delete", "deleteDevices", "mark", "create"} => Statements(r) = 1
          /\ r.op \in {"put", "delete", "deleteDevices", "mark"} => Statements(r) = Len(r.keys)
          /\ r.op # "create"
      BY <2>1, <2>4, AskFacts
    <3>b. Statements(r) # 1
      BY <2>5, <3>1
    <3>2. r.op \in {"put", "delete", "deleteDevices", "mark"} /\ Statements(r) = Len(r.keys)
      BY <3>a, <3>b
    <3>3. Len(r.keys) # 1
      BY <3>b, <3>2, Zenon
    <3>4. r.op = "put" /\ r.table \in {"sync_keys", "sent_messages"} => Len(r.keys) = 1
      BY <2>4, AskFacts
    <3> QED
      BY <3>2, <3>3, <3>4 DEF Setting
  <2>9. order' = Ordered(old.order, r)
    <3>1. CASE at = 0
      BY <2>1, <2>4, <3>1
    <3>2. CASE at > 0
      BY <2>1, <2>4, <2>8, <3>2, OrderedFacts
    <3> QED
      BY <2>5, <3>1, <3>2
  <2>10. answer' = Answer(d, Latest(old.order), r)
    <3>1. CASE at = 0
      <4>1. db[r.table] = d /\ order = old.order
        BY <2>4, <2>6, <3>1, DoneNothing
      <4> QED
        BY <2>1, <4>1
    <3>2. CASE at > 0
      BY <2>1, <2>8, <3>2, BatchAnswer
    <3> QED
      BY <2>5, <3>1, <3>2
  <2>11. \A q \in Callers : pending[q] # NoRequest => q = p
    BY <2>1, <2>3 DEF HeldInv
  <2>12. pending'[holder'] = r /\ r # NoRequest /\ holder' = p
    BY <2>1, <2>2 DEF r
  <2>13. db' = [old'.db EXCEPT ![r.table] = Done(@, r, at')]
    BY <2>1, <2>2, <2>7 DEF r
  <2>14. order' = IF at' > 0 THEN Ordered(old'.order, r) ELSE old'.order
    BY <2>1, <2>2, <2>5, <2>9
  <2>15. answer' = IF at' > 0 THEN Answer(old'.db[r.table], Latest(old'.order), r) ELSE {}
    BY <2>1, <2>2, <2>5, <2>10 DEF r
  <2>16. \A q \in Callers : sqlite' /\ pending'[q] # NoRequest => holder' = q
    BY <2>2, <2>11, <2>12
  <2>17. sqlite' /\ at' <= Statements(r)
    BY <2>1, <2>2, <2>3, <2>5
  <2> QED
    BY <2>12, <2>13, <2>14, <2>15, <2>16, <2>17 DEF HeldInv
<1>3. ASSUME NEW p \in Callers, CountDevice(p) \/ InsertDevice(p) PROVE HeldInv'
  <2> DEFINE r == pending[p]
             d == old.db["device"]
  <2>1. /\ holder = p /\ r # NoRequest /\ r.op = "create" /\ at \in {0, 1} /\ at' \in {1, 2}
        /\ UNCHANGED <<sqlite, holder, old, pending, order, answer>>
    BY <1>3 DEF CountDevice, InsertDevice, dbVars
  <2>2. sqlite
    BY <2>1, StoreAssumption DEF HeldInv
  <2>3. /\ Numbered(r) /\ r.table \in Tables /\ Tabled(old.db)
        /\ old.db[r.table] \in Table /\ old.order \in [Keys -> Nat] /\ Ranked(old.order)
        /\ db = [old.db EXCEPT ![r.table] = Done(@, r, at)]
        /\ order = IF at > 0 THEN Ordered(old.order, r) ELSE old.order
        /\ answer = IF at > 0 THEN Answer(old.db[r.table], Latest(old.order), r) ELSE {}
    BY <2>1, <2>2, HeldFacts
  <2>4. r.table = "device" /\ Statements(r) = 2
    BY <2>1, <2>3, AskFacts
  <2>5. Done(d, r, 0) = d /\ Done(d, r, 1) = d /\ (d[DeviceKey] # NoRow => Done(d, r, 2) = d)
          /\ Statement(d, r, 2) = Done(d, r, 2)
    BY <2>1, <2>3, <2>4, DoneNothing, CreateDone
  <2>6. db = old.db
    BY <2>1, <2>3, <2>4, <2>5 DEF Tabled
  <2>7. db' = [old.db EXCEPT !["device"] = Done(@, r, at')]
    <3>1. CASE CountDevice(p)
      <4>1. db' = db /\ (at' = 2 => db["device"][DeviceKey] # NoRow) /\ at' \in {1, 2}
        BY <3>1 DEF CountDevice, dbVars
      <4> QED
        BY <2>3, <2>5, <2>6, <4>1 DEF Tabled
    <3>2. CASE InsertDevice(p)
      <4>1. db' = [db EXCEPT !["device"] = Statement(@, r, 2)] /\ at' = 2
        BY <3>2 DEF InsertDevice
      <4> QED
        BY <2>3, <2>5, <2>6, <4>1
    <3> QED
      BY <1>3, <3>1, <3>2
  <2>8. order = old.order /\ answer = {} /\ Ordered(old.order, r) = old.order
          /\ Answer(d, Latest(old.order), r) = {}
    BY <2>1, <2>3, <2>4, OrderedFacts, BatchAnswer DEF Setting
  <2>9. \A q \in Callers : pending[q] # NoRequest => q = p
    BY <2>1, <2>2 DEF HeldInv
  <2> QED
    BY <2>1, <2>2, <2>4, <2>7, <2>8, <2>9 DEF HeldInv
<1>4. ASSUME NEW p \in Callers, StatementFails(p) \/ Return(p) PROVE HeldInv'
  <2>1. /\ holder = p /\ holder' = Nobody /\ pending' = [pending EXCEPT ![p] = NoRequest]
        /\ sqlite' = sqlite
    BY <1>4 DEF StatementFails, Return, Unlock
  <2>2. \A q \in Callers : pending'[q] # NoRequest => q # p /\ pending'[q] = pending[q]
    BY <2>1 DEF TypeOK
  <2> QED
    BY <2>1, <2>2 DEF HeldInv
<1>5. ASSUME NEW p \in Callers, Call(p) \/ MemoryServes(p) PROVE HeldInv'
  <2>1. ~sqlite /\ sqlite' = sqlite /\ holder' = holder
    BY <1>5 DEF Call, MemoryServes, lockVars
  <2> QED
    BY <2>1 DEF HeldInv
<1>6. CASE Crash
  BY <1>6 DEF Crash, HeldInv
<1>7. CASE UNCHANGED vars
  BY <1>7 DEF HeldInv, vars, dbVars, lockVars
<1> QED
  BY <1>1, <1>2, <1>3, <1>4, <1>5, <1>6, <1>7 DEF Next, CallerNext

-----------------------------------------------------------------------------
(* Where the payload of a sent message is.                                 *)

Sent == IF holder = Nobody THEN db["sent_messages"] ELSE old.db["sent_messages"]

LEMMA SentType == ASSUME TypeOK PROVE Sent \in Table
<1>1. "sent_messages" \in Tables
  BY DEF Tables
<1> QED
  BY <1>1, TabledAt DEF TypeOK, Sent

LEMMA SentEffect ==
    ASSUME NEW r, Numbered(r), r.table = "sent_messages", NEW d \in Table,
           NEW n \in 0..Statements(r), NEW k \in Keys, Done(d, r, n)[k] # NoRow
    PROVE  /\ \/ Done(d, r, n)[k] = d[k]
              \/ r.op = "put" /\ k = r.keys[1] /\ Done(d, r, n)[k].value = r.value
           /\ ~(r.op = "take" /\ n = Statements(r) /\ k = r.keys[1])
<1>1. r.op \in {"put", "take", "expire"} /\ Statements(r) = 1 /\ n \in {0, 1}
  <2>1. /\ r.op \in {"put", "take", "expire"} /\ (r.op = "put" => Len(r.keys) = 1)
        /\ r.op \notin {"put", "delete", "deleteDevices", "mark", "create"} => Statements(r) = 1
        /\ r.op \in {"put", "delete", "deleteDevices", "mark"} => Statements(r) = Len(r.keys)
    BY AskFacts
  <2>2. Statements(r) = 1
    BY <2>1
  <2> QED
    BY <2>1, <2>2
<1>2. CASE n = 0
  BY <1>1, <1>2, DoneNothing
<1>3. CASE n = 1
  <2>1. \A i \in 1..n : i = 1
    BY <1>3
  <2>2. 1 \in 1..n
    BY <1>3
  <2>3. Done(d, r, n)[k] = IF k \in Hits(d, r, 1) THEN NewRow(d, r, k) ELSE d[k]
    BY <2>1, <2>2 DEF Done
  <2>4. CASE r.op = "put"
    BY <2>3, <2>4 DEF Hits, NewRow
  <2>5. CASE r.op # "put"
    <3>1. NewRow(d, r, k) = NoRow
      BY <1>1, <2>5 DEF NewRow
    <3>2. Done(d, r, n)[k] = d[k] /\ k \notin Hits(d, r, 1)
      BY <2>3, <3>1
    <3> QED
      BY <3>2, <2>5 DEF Hits
  <2> QED
    BY <2>4, <2>5
<1> QED
  BY <1>1, <1>2, <1>3

\* The payloads a request takes are the one it asked for, which was there.
LEMMA HandedFacts ==
    ASSUME TypeOK, NEW r, NEW d, NEW latest, NEW m \in 1..MaxRequests,
           Handed(r, Answer(d, latest, r))[m] # handed[m]
    PROVE  /\ r.op = "take" /\ r.keys[1] \in Keys /\ d[r.keys[1]] # NoRow
           /\ d[r.keys[1]].value = m /\ Handed(r, Answer(d, latest, r))[m] = handed[m] + 1
<1> DEFINE h == Handed(r, Answer(d, latest, r))
<1>1. r.op = "take" /\ h[m] = handed[m] + 1 /\ \E x \in Answer(d, latest, r) : x[2].value = m
  BY DEF Handed
<1>2. PICK x \in Answer(d, latest, r) : x[2].value = m
  BY <1>1
<1>3. PICK k \in Sees(d, r) : x = <<k, d[k]>>
  BY <1>1, <1>2 DEF Answer
<1>4. k \in Keys /\ k = r.keys[1] /\ d[k] # NoRow
  BY <1>1, <1>3 DEF Sees
<1> QED
  BY <1>1, <1>2, <1>3, <1>4

LEMMA ServeNumbers ==
    ASSUME TypeOK, NumberInv, NEW p \in Callers, pending[p] # NoRequest,
           NEW n \in 0..Statements(pending[p]), NEW latest,
           pending' = [pending EXCEPT ![p] = NoRequest], count' = count,
           Sent' = IF pending[p].table = "sent_messages" THEN Done(Sent, pending[p], n) ELSE Sent,
           \/ handed' = handed
           \/ /\ n = Statements(pending[p]) /\ pending[p].table = "sent_messages"
              /\ handed' = Handed(pending[p], Answer(Sent, latest, pending[p]))
    PROVE  NumberInv'
<1> DEFINE r == pending[p]
<1>1. Numbered(r) /\ r.value \in 1..count
  BY PendingFacts
<1>2. /\ \A k \in Keys : Sent[k] # NoRow =>
            /\ Sent[k].value \in 1..count /\ handed[Sent[k].value] = 0
            /\ \A j \in Keys \ {k} : Sent[j] # NoRow => Sent[j].value # Sent[k].value
            /\ \A q \in Callers : pending[q] # NoRequest => pending[q].value # Sent[k].value
      /\ \A q \in Callers : pending[q] # NoRequest =>
            /\ handed[pending[q].value] = 0
            /\ \A s \in Callers \ {q} : pending[s] # NoRequest => pending[s].value # pending[q].value
      /\ \A m \in 1..MaxRequests : handed[m] \in {0, 1} /\ (m > count => handed[m] = 0)
  BY DEF NumberInv, Sent
<1>3. count \in Nat /\ MaxRequests \in Nat /\ count <= MaxRequests
  BY StoreAssumption DEF TypeOK
<1>4. Sent \in Table
  BY SentType
<1>5. ASSUME NEW k \in Keys, Sent'[k] # NoRow
      PROVE  \/ Sent'[k] = Sent[k]
             \/ r.op = "put" /\ r.table = "sent_messages" /\ k = r.keys[1] /\ Sent'[k].value = r.value
  BY <1>1, <1>4, <1>5, SentEffect
<1>6. ASSUME NEW m \in 1..MaxRequests, handed'[m] # handed[m]
      PROVE  /\ r.op = "take" /\ r.keys[1] \in Keys /\ Sent[r.keys[1]] # NoRow
             /\ Sent[r.keys[1]].value = m /\ handed'[m] = handed[m] + 1
             /\ Sent'[r.keys[1]] = NoRow
  <2>1. /\ n = Statements(r) /\ r.table = "sent_messages"
        /\ handed' = Handed(r, Answer(Sent, latest, r))
    BY <1>6
  <2>2. /\ r.op = "take" /\ r.keys[1] \in Keys /\ Sent[r.keys[1]] # NoRow
        /\ Sent[r.keys[1]].value = m /\ handed'[m] = handed[m] + 1
    BY <1>6, <2>1, HandedFacts
  <2>3. Sent'[r.keys[1]] = NoRow
    BY <1>1, <1>4, <2>1, <2>2, SentEffect
  <2> QED
    BY <2>2, <2>3
<1>7. \A q \in Callers : pending'[q] # NoRequest => q # p /\ pending'[q] = pending[q]
  BY DEF TypeOK
<1> HIDE DEF r
<1>8. ASSUME NEW k \in Keys, Sent'[k] # NoRow
      PROVE  /\ Sent'[k].value \in 1..count' /\ handed'[Sent'[k].value] = 0
             /\ \A j \in Keys \ {k} : Sent'[j] # NoRow => Sent'[j].value # Sent'[k].value
             /\ \A q \in Callers : pending'[q] # NoRequest => pending'[q].value # Sent'[k].value
  <2>1. CASE Sent'[k] = Sent[k]
    <3>1. Sent'[k].value \in 1..count /\ handed[Sent'[k].value] = 0
      BY <1>2, <1>8, <2>1
    <3>2. Sent'[k].value \in 1..MaxRequests
      BY <1>3, <3>1
    <3>3. handed'[Sent'[k].value] = 0
      BY <1>2, <1>6, <1>8, <2>1, <3>1, <3>2
    <3>4. ASSUME NEW j \in Keys \ {k}, Sent'[j] # NoRow PROVE Sent'[j].value # Sent'[k].value
      <4>1. CASE Sent'[j] = Sent[j]
        BY <1>2, <1>8, <2>1, <3>4, <4>1
      <4>2. CASE Sent'[j].value = r.value
        BY <1>2, <1>8, <2>1, <4>2 DEF r
      <4> QED
        BY <1>5, <3>4, <4>1, <4>2
    <3>5. ASSUME NEW q \in Callers, pending'[q] # NoRequest PROVE pending'[q].value # Sent'[k].value
      BY <1>2, <1>7, <1>8, <2>1, <3>5
    <3> QED
      BY <3>1, <3>3, <3>4, <3>5
  <2>2. CASE r.op = "put" /\ k = r.keys[1] /\ Sent'[k].value = r.value
    <3>1. r.value \in 1..MaxRequests /\ handed[r.value] = 0
      BY <1>1, <1>2, <1>3 DEF r
    <3>2. handed'[r.value] = 0
      BY <1>6, <2>2, <3>1
    <3>3. ASSUME NEW j \in Keys \ {k}, Sent'[j] # NoRow PROVE Sent'[j].value # r.value
      <4>1. Sent'[j] = Sent[j]
        BY <1>5, <2>2, <3>3
      <4> QED
        BY <1>2, <3>3, <4>1 DEF r
    <3>4. ASSUME NEW q \in Callers, pending'[q] # NoRequest PROVE pending'[q].value # r.value
      BY <1>2, <1>7, <3>4 DEF r
    <3> QED
      BY <1>1, <2>2, <3>2, <3>3, <3>4 DEF r
  <2> QED
    BY <1>5, <1>8, <2>1, <2>2
<1>9. ASSUME NEW q \in Callers, pending'[q] # NoRequest
      PROVE  /\ handed'[pending'[q].value] = 0
             /\ \A s \in Callers \ {q} : pending'[s] # NoRequest => pending'[s].value # pending'[q].value
  <2>1. pending'[q] = pending[q] /\ handed[pending[q].value] = 0
    BY <1>2, <1>7, <1>9
  <2>2. pending[q].value \in 1..MaxRequests
    BY <1>3, <1>9, <2>1, PendingFacts
  <2>3. handed'[pending[q].value] = 0
    BY <1>2, <1>6, <1>9, <2>1, <2>2
  <2> QED
    BY <1>2, <1>7, <1>9, <2>1, <2>3
<1>10. ASSUME NEW m \in 1..MaxRequests
       PROVE  handed'[m] \in {0, 1} /\ (m > count' => handed'[m] = 0)
  <2>1. CASE handed'[m] = handed[m]
    BY <1>2, <2>1
  <2>2. CASE handed'[m] # handed[m]
    <3>1. handed[m] = 0 /\ m \in 1..count /\ handed'[m] = handed[m] + 1
      BY <1>2, <1>6, <2>2
    <3> QED
      BY <1>3, <3>1
  <2> QED
    BY <2>1, <2>2
<1> QED
  BY <1>8, <1>9, <1>10 DEF NumberInv, Sent

\* A new request has a number that is nowhere yet.
LEMMA AskNumbers ==
    ASSUME TypeOK, NumberInv, NEW p \in Callers, NEW r \in Requests, Asked(p, r),
           Sent' = Sent, handed' = handed
    PROVE  NumberInv'
<1>1. /\ \A k \in Keys : Sent[k] # NoRow =>
            /\ Sent[k].value \in 1..count /\ handed[Sent[k].value] = 0
            /\ \A j \in Keys \ {k} : Sent[j] # NoRow => Sent[j].value # Sent[k].value
            /\ \A q \in Callers : pending[q] # NoRequest => pending[q].value # Sent[k].value
      /\ \A q \in Callers : pending[q] # NoRequest =>
            /\ handed[pending[q].value] = 0
            /\ \A s \in Callers \ {q} : pending[s] # NoRequest => pending[s].value # pending[q].value
      /\ \A m \in 1..MaxRequests : handed[m] \in {0, 1} /\ (m > count => handed[m] = 0)
  BY DEF NumberInv, Sent
<1>2. /\ pending'[p] # NoRequest /\ pending'[p].value = count + 1 /\ count' = count + 1
      /\ \A q \in Callers \ {p} : pending'[q] = pending[q]
      /\ count' \in 0..MaxRequests /\ count \in Nat /\ MaxRequests \in Nat
  BY Asking, StoreAssumption DEF TypeOK
<1>3. \A q \in Callers : pending[q] # NoRequest => pending[q].value \in 1..count
  BY PendingFacts
<1>4. ASSUME NEW k \in Keys, Sent'[k] # NoRow
      PROVE  /\ Sent'[k].value \in 1..count' /\ handed'[Sent'[k].value] = 0
             /\ \A j \in Keys \ {k} : Sent'[j] # NoRow => Sent'[j].value # Sent'[k].value
             /\ \A q \in Callers : pending'[q] # NoRequest => pending'[q].value # Sent'[k].value
  <2>1. Sent'[k].value \in 1..count /\ handed'[Sent'[k].value] = 0
    BY <1>1, <1>4
  <2>2. \A j \in Keys \ {k} : Sent'[j] # NoRow => Sent'[j].value # Sent'[k].value
    BY <1>1, <1>4
  <2>3. ASSUME NEW q \in Callers, pending'[q] # NoRequest PROVE pending'[q].value # Sent'[k].value
    <3>1. CASE q = p
      BY <1>2, <2>1, <3>1
    <3>2. CASE q # p
      BY <1>1, <1>2, <1>4, <2>3, <3>2
    <3> QED
      BY <3>1, <3>2
  <2> QED
    BY <1>2, <2>1, <2>2, <2>3
<1>5. ASSUME NEW q \in Callers, pending'[q] # NoRequest
      PROVE  /\ handed'[pending'[q].value] = 0
             /\ \A s \in Callers \ {q} : pending'[s] # NoRequest => pending'[s].value # pending'[q].value
  <2>1. CASE q = p
    <3>1. count + 1 \in 1..MaxRequests /\ count + 1 > count
      BY <1>2
    <3>2. handed'[count + 1] = 0
      BY <1>1, <3>1
    <3>3. \A s \in Callers \ {q} : pending'[s] # NoRequest => pending'[s].value \in 1..count
      BY <1>2, <1>3, <2>1
    <3> QED
      BY <1>2, <2>1, <3>2, <3>3
  <2>2. CASE q # p
    <3>1. pending'[q] = pending[q] /\ pending[q].value \in 1..count /\ handed'[pending[q].value] = 0
      BY <1>1, <1>2, <1>3, <1>5, <2>2
    <3>2. ASSUME NEW s \in Callers \ {q}, pending'[s] # NoRequest
          PROVE  pending'[s].value # pending'[q].value
      <4>1. CASE s = p
        BY <1>2, <3>1, <4>1
      <4>2. CASE s # p
        BY <1>1, <1>2, <1>5, <2>2, <3>1, <3>2, <4>2
      <4> QED
        BY <4>1, <4>2
    <3> QED
      BY <3>1, <3>2
  <2> QED
    BY <2>1, <2>2
<1>6. \A m \in 1..MaxRequests : handed'[m] \in {0, 1} /\ (m > count' => handed'[m] = 0)
  BY <1>1, <1>2
<1> QED
  BY <1>4, <1>5, <1>6 DEF NumberInv, Sent

\* What sent_messages holds when an operation ends.
LEMMA ReleasedSent ==
    ASSUME TypeOK, OrderInv, HeldInv, NEW p \in Callers, holder = p, pending[p] # NoRequest,
           holder' = Nobody, db' = db
    PROVE  /\ at \in 0..Statements(pending[p])
           /\ Sent' = IF pending[p].table = "sent_messages" THEN Done(Sent, pending[p], at) ELSE Sent
<1>1. sqlite /\ p # Nobody
  BY StoreAssumption DEF HeldInv
<1>2. "sent_messages" \in Tables
  BY DEF Tables
<1>3. /\ at \in 0..Statements(pending[p]) /\ Tabled(old.db) /\ pending[p].table \in Tables
      /\ db = [old.db EXCEPT ![pending[p].table] = Done(@, pending[p], at)]
  BY <1>1, HeldFacts
<1>4. Sent = old.db["sent_messages"] /\ Sent' = db["sent_messages"]
  BY <1>1 DEF Sent
<1> QED
  BY <1>2, <1>3, <1>4 DEF Tabled

LEMMA NumberStep == TypeOK /\ OrderInv /\ HeldInv /\ NumberInv /\ [Next]_vars => NumberInv'
<1> SUFFICES ASSUME TypeOK, OrderInv, HeldInv, NumberInv, [Next]_vars PROVE NumberInv'
  OBVIOUS
<1>1. ASSUME NEW p \in Callers, Lock(p) \/ Call(p) PROVE NumberInv'
  <2>1. PICK r \in Requests : Asked(p, r)
    BY <1>1 DEF Lock, Call
  <2>2. handed' = handed
    BY <1>1 DEF Lock, Call
  <2>3. Sent' = Sent
    <3>1. CASE Lock(p)
      BY <3>1, StoreAssumption DEF Lock, dbVars, Sent
    <3>2. CASE Call(p)
      BY <3>2 DEF Call, dbVars, lockVars, Sent
    <3> QED
      BY <1>1, <3>1, <3>2
  <2> QED
    BY <2>1, <2>2, <2>3, AskNumbers
<1>2. ASSUME NEW p \in Callers, Execute(p) \/ CountDevice(p) \/ InsertDevice(p) PROVE NumberInv'
  <2>1. holder = p /\ p # Nobody /\ UNCHANGED <<holder, old, pending, count, handed>>
    BY <1>2, StoreAssumption DEF Execute, CountDevice, InsertDevice
  <2> QED
    BY <2>1 DEF NumberInv
<1>3. ASSUME NEW p \in Callers, StatementFails(p) PROVE NumberInv'
  <2>1. /\ holder = p /\ pending[p] # NoRequest /\ holder' = Nobody /\ db' = db
        /\ pending' = [pending EXCEPT ![p] = NoRequest] /\ count' = count /\ handed' = handed
    BY <1>3 DEF StatementFails, Unlock, dbVars
  <2> QED
    BY <2>1, ReleasedSent, ServeNumbers
<1>4. ASSUME NEW p \in Callers, Return(p) PROVE NumberInv'
  <2> DEFINE r == pending[p]
  <2>1. /\ holder = p /\ r # NoRequest /\ holder' = Nobody /\ db' = db /\ at = Statements(r)
        /\ pending' = [pending EXCEPT ![p] = NoRequest] /\ count' = count
        /\ handed' = Handed(r, answer)
    BY <1>4 DEF Return, Unlock, dbVars
  <2>2. /\ at \in 0..Statements(r)
        /\ Sent' = IF r.table = "sent_messages" THEN Done(Sent, r, at) ELSE Sent
    BY <2>1, ReleasedSent
  <2>3. CASE r.op = "take"
    <3>1. sqlite
      BY <2>1, StoreAssumption DEF HeldInv
    <3>2. Numbered(r) /\ answer = IF at > 0 THEN Answer(old.db[r.table], Latest(old.order), r) ELSE {}
      BY <2>1, <3>1, HeldFacts
    <3>3. r.table = "sent_messages" /\ at = 1
      BY <2>1, <2>3, <3>2, AskFacts
    <3>4. Sent = old.db["sent_messages"]
      BY <2>1, StoreAssumption DEF Sent
    <3>5. handed' = Handed(r, Answer(Sent, Latest(old.order), r))
      BY <2>1, <3>2, <3>3, <3>4
    <3> QED
      BY <2>1, <2>2, <3>3, <3>5, ServeNumbers
  <2>4. CASE r.op # "take"
    <3>1. handed' = handed
      BY <2>1, <2>4 DEF Handed, TypeOK
    <3> QED
      BY <2>1, <2>2, <3>1, ServeNumbers
  <2> QED
    BY <2>3, <2>4
<1>5. ASSUME NEW p \in Callers, MemoryServes(p) PROVE NumberInv'
  <2> DEFINE r == pending[p]
  <2>1. /\ ~sqlite /\ r # NoRequest /\ count' = count /\ holder' = holder /\ old' = old
        /\ pending' = [pending EXCEPT ![p] = NoRequest]
        /\ handed' = Handed(r, Answer(db[r.table], Latest(order), r))
        /\ \/ r.op = "clearDevice" /\ db' = db
           \/ r.op # "clearDevice" /\ db' = [db EXCEPT ![r.table] = Done(@, r, Statements(r))]
    BY <1>5 DEF MemoryServes, lockVars
  <2>2. Numbered(r)
    BY <2>1, PendingFacts
  <2>3. /\ r.table \in Tables /\ "sent_messages" \in Tables /\ Statements(r) \in Nat
        /\ (r.op = "take" => r.table = "sent_messages")
        /\ (r.table = "sent_messages" => r.op # "clearDevice")
    BY <2>2, AskFacts DEF Tables
  <2>4. holder = Nobody
    BY <2>1 DEF HeldInv
  <2>5. Sent = db["sent_messages"] /\ Sent' = db'["sent_messages"]
    BY <2>1, <2>4 DEF Sent
  <2>6. Sent' = IF r.table = "sent_messages" THEN Done(Sent, r, Statements(r)) ELSE Sent
    <3>1. CASE r.op = "clearDevice"
      BY <2>1, <2>3, <2>5, <3>1
    <3>2. CASE r.op # "clearDevice"
      BY <2>1, <2>3, <2>5, <3>2 DEF TypeOK, Tabled
    <3> QED
      BY <3>1, <3>2
  <2>7. Statements(r) \in 0..Statements(r)
    BY <2>3
  <2>8. CASE r.op = "take"
    <3>1. handed' = Handed(r, Answer(Sent, Latest(order), r))
      BY <2>1, <2>3, <2>5, <2>8
    <3> QED
      BY <2>1, <2>3, <2>6, <2>7, <2>8, <3>1, ServeNumbers
  <2>9. CASE r.op # "take"
    <3>1. handed' = handed
      BY <2>1, <2>9 DEF Handed, TypeOK
    <3> QED
      BY <2>1, <2>6, <2>7, <3>1, ServeNumbers
  <2> QED
    BY <2>8, <2>9
<1>6. CASE Crash
  <2>1. /\ holder' = Nobody /\ pending' = [p \in Callers |-> NoRequest] /\ UNCHANGED <<sqlite, count, handed>>
        /\ IF sqlite THEN db' = db ELSE db' = EmptyTables
    BY <1>6 DEF Crash, dbVars
  <2>2. \A q \in Callers : pending'[q] = NoRequest
    BY <2>1
  <2>3. ASSUME NEW k \in Keys, Sent'[k] # NoRow
        PROVE  /\ Sent'[k].value \in 1..count /\ handed[Sent'[k].value] = 0
               /\ \A j \in Keys \ {k} : Sent'[j] # NoRow => Sent'[j].value # Sent'[k].value
    <3>1. Sent' = db'["sent_messages"] /\ "sent_messages" \in Tables
      BY <2>1 DEF Sent, Tables
    <3>2. sqlite /\ db' = db
      <4>1. CASE ~sqlite
        BY <2>1, <2>3, <3>1, <4>1 DEF EmptyTables
      <4> QED
        BY <2>1, <4>1 DEF TypeOK
    <3>3. CASE holder = Nobody
      BY <2>3, <3>1, <3>2, <3>3 DEF NumberInv
    <3>4. CASE holder # Nobody
      <4> DEFINE r == pending[holder]
      <4>1. holder \in Callers /\ r # NoRequest
        BY <3>4 DEF HeldInv, TypeOK
      <4>2. /\ at \in 0..Statements(r)
            /\ Sent' = IF r.table = "sent_messages" THEN Done(Sent, r, at) ELSE Sent
        BY <2>1, <3>2, <4>1, ReleasedSent
      <4>3. \A j \in Keys : Sent'[j] # NoRow =>
               \/ Sent'[j] = Sent[j]
               \/ j = r.keys[1] /\ Sent'[j].value = r.value
        BY <4>1, <4>2, PendingFacts, SentType, SentEffect
      <4>4. r.value \in 1..count /\ handed[r.value] = 0
        BY <4>1, PendingFacts DEF NumberInv
      <4>5. \A j \in Keys : Sent[j] # NoRow =>
              /\ Sent[j].value \in 1..count /\ handed[Sent[j].value] = 0
              /\ \A i \in Keys \ {j} : Sent[i] # NoRow => Sent[i].value # Sent[j].value
              /\ r.value # Sent[j].value
        BY <4>1 DEF NumberInv, Sent
      <4> QED
        BY <2>3, <4>3, <4>4, <4>5
    <3> QED
      BY <3>3, <3>4
  <2>4. \A m \in 1..MaxRequests : handed'[m] \in {0, 1} /\ (m > count' => handed'[m] = 0)
    BY <2>1 DEF NumberInv
  <2> QED
    BY <2>1, <2>2, <2>3, <2>4 DEF NumberInv, Sent
<1>7. CASE UNCHANGED vars
  BY <1>7 DEF NumberInv, vars, dbVars, lockVars
<1> QED
  BY <1>1, <1>2, <1>3, <1>4, <1>5, <1>6, <1>7 DEF Next, CallerNext

-----------------------------------------------------------------------------

LEMMA InitInv == Init => StoreInv
<1> SUFFICES ASSUME Init PROVE StoreInv
  OBVIOUS
<1>1. /\ sqlite \in BOOLEAN /\ db = EmptyTables /\ order = EmptyOrder
      /\ holder = Nobody /\ at = 0 /\ old = Nothing /\ answer = {}
      /\ pending = [p \in Callers |-> NoRequest]
      /\ count = 0 /\ crashes = 0 /\ handed = [n \in 1..MaxRequests |-> 0]
  BY DEF Init
<1>2. MaxRequests \in Nat /\ MaxCrashes \in Nat
  BY StoreAssumption
<1>3. Tabled(db) /\ order \in [Keys -> Nat] /\ Ranked(order) /\ Ranked(old.order)
        /\ old \in [db : {old.db}, order : [Keys -> Nat]] /\ Tabled(old.db)
  BY <1>1, EmptyFacts DEF Nothing
<1>4. TypeOK
  <2>1. pending \in [Callers -> Asks \cup {NoRequest}] /\ \A p \in Callers : pending[p] = NoRequest
    BY <1>1
  <2>2. handed \in [1..MaxRequests -> Nat]
    BY <1>1
  <2> QED
    BY <1>1, <1>2, <1>3, <2>1, <2>2 DEF TypeOK
<1>5. HeldInv /\ OrderInv
  BY <1>1, <1>3 DEF HeldInv, OrderInv
<1>6. NumberInv
  <2>1. "sent_messages" \in Tables
    BY DEF Tables
  <2>2. \A k \in Keys : db["sent_messages"][k] = NoRow
    BY <1>1, <2>1 DEF EmptyTables
  <2> QED
    BY <1>1, <2>2 DEF NumberInv
<1> QED
  BY <1>4, <1>5, <1>6 DEF StoreInv

\* Whatever the number of tasks, keys, requests and crashes: who works on a
\* SqliteSession holds its lock and finds the tables as it left them, and the
\* payload of a request is in one place (sqlite/mod.rs with_conn).
THEOREM StoreInvariant == Spec => []StoreInv
<1>1. StoreInv /\ [Next]_vars => StoreInv'
  BY TypeStep, OrderStep, HeldStep, NumberStep DEF StoreInv
<1> QED
  BY InitInv, <1>1, PTL DEF Spec

LEMMA TakenOnceHolds == StoreInv => TakenOnce
<1> SUFFICES ASSUME StoreInv, NEW n \in 1..MaxRequests, handed[n] > 0
             PROVE  /\ handed[n] = 1
                    /\ \A k \in Keys :
                          db["sent_messages"][k] # NoRow => db["sent_messages"][k].value # n
  BY DEF TakenOnce
<1>1. handed[n] = 1
  BY DEF StoreInv, NumberInv
<1>2. \A j \in Keys : Sent[j] # NoRow => handed[Sent[j].value] = 0
  BY DEF StoreInv, NumberInv, Sent
<1>3. ASSUME NEW k \in Keys, db["sent_messages"][k] # NoRow
      PROVE  db["sent_messages"][k].value # n
  <2>1. CASE holder = Nobody
    BY <1>1, <1>2, <1>3, <2>1 DEF Sent
  <2>2. CASE holder # Nobody
    <3> DEFINE r == pending[holder]
    <3>1. /\ holder \in Callers /\ r # NoRequest /\ sqlite /\ TypeOK /\ OrderInv /\ HeldInv
          /\ handed[r.value] = 0
      BY <2>2 DEF StoreInv, HeldInv, NumberInv, TypeOK
    <3>2. /\ at \in 0..Statements(r) /\ Tabled(old.db) /\ r.table \in Tables /\ Numbered(r)
          /\ db = [old.db EXCEPT ![r.table] = Done(@, r, at)]
      BY <3>1, HeldFacts
    <3>3. Sent = old.db["sent_messages"] /\ "sent_messages" \in Tables /\ Sent \in Table
      BY <2>2, <3>1, SentType DEF Sent, Tables
    <3>4. CASE r.table = "sent_messages"
      <4>1. db["sent_messages"] = Done(Sent, r, at)
        BY <3>2, <3>3, <3>4 DEF Tabled
      <4>2. db["sent_messages"][k] = Sent[k] \/ db["sent_messages"][k].value = r.value
        BY <1>3, <3>2, <3>3, <3>4, <4>1, SentEffect
      <4> QED
        BY <1>1, <1>2, <1>3, <3>1, <4>2
    <3>5. CASE r.table # "sent_messages"
      BY <1>1, <1>2, <1>3, <3>2, <3>3, <3>5 DEF Tabled
    <3> QED
      BY <3>4, <3>5
  <2> QED
    BY <2>1, <2>2
<1> QED
  BY <1>1, <1>3

\* A payload kept for retries is handed out at most once (protocol_store.rs
\* take_sent_message).
THEOREM TakenAtMostOnce == Spec => []TakenOnce
  BY StoreInvariant, TakenOnceHolds, PTL

-----------------------------------------------------------------------------
(* SessionStores implements AtomicStore.                                   *)

LEMMA SameRequests == Atomic!Requests = Requests
  BY DEF Requests, SignalRequests, IdentityRequests, SessionRequests, PreKeyRequests,
     MarkRequests, SignedPreKeyRequests, SenderKeyRequests, SyncRequests, SyncKeyRequests,
     LatestRequests, VersionRequests, MacRequests, ProtocolRequests, SenderKeyDeviceRequests,
     LidRequests, ListRequests, TokenRequests, SentRequests, SecretRequests, DeviceRequests,
     CreateRequests, ClearDeviceRequests, ContactRequests, ChatRequests,
     KeyValue, Put, Get, All, Some, Delete, Clear, Wipe, Expire, Request, Singles, Batches, Flags,
     Atomic!Requests, Atomic!SignalRequests, Atomic!IdentityRequests, Atomic!SessionRequests,
     Atomic!PreKeyRequests, Atomic!MarkRequests, Atomic!SignedPreKeyRequests,
     Atomic!SenderKeyRequests, Atomic!SyncRequests, Atomic!SyncKeyRequests,
     Atomic!LatestRequests, Atomic!VersionRequests, Atomic!MacRequests,
     Atomic!ProtocolRequests, Atomic!SenderKeyDeviceRequests, Atomic!LidRequests,
     Atomic!ListRequests, Atomic!TokenRequests, Atomic!SentRequests, Atomic!SecretRequests,
     Atomic!DeviceRequests, Atomic!CreateRequests, Atomic!ClearDeviceRequests,
     Atomic!ContactRequests, Atomic!ChatRequests,
     Atomic!KeyValue, Atomic!Put, Atomic!Get, Atomic!All, Atomic!Some,
     Atomic!Delete, Atomic!Clear, Atomic!Wipe, Atomic!Expire, Atomic!Request, Atomic!Singles, Atomic!Batches, Atomic!Flags

LEMMA SameStatements == \A r : Atomic!Statements(r) = Statements(r)
  BY DEF Statements, Atomic!Statements

LEMMA SameAnswer == \A d, l, r : Atomic!Answer(d, l, r) = Answer(d, l, r)
  BY DEF Answer, Sees, Expired, Atomic!Answer, Atomic!Sees, Atomic!Expired

LEMMA SameDone == \A d, r, n : Atomic!Applied(d, r, n) = Done(d, r, n)
  BY DEF Done, Hits, NewRow, Expired, Atomic!Applied, Atomic!Hits, Atomic!NewRow, Atomic!Expired

SeenDb == IF holder = Nobody THEN db ELSE old.db
SeenOrder == IF holder = Nobody THEN order ELSE old.order

LEMMA SameVars ==
    UNCHANGED <<sqlite, SeenDb, SeenOrder, pending, returned>> => UNCHANGED Atomic!vars
  BY DEF Atomic!vars, SeenDb, SeenOrder

LEMMA AtomicInit == Init => Atomic!Init
<1> SUFFICES ASSUME Init PROVE Atomic!Init
  OBVIOUS
<1>1. Latest(EmptyOrder) = NoKey
  BY DEF Latest, EmptyOrder
<1> QED
  BY <1>1 DEF Init, Atomic!Init, EmptyTables, Tables, Atomic!EmptyStore, Atomic!Tables, NoReturn,
     Returned, Atomic!NoReturn, Atomic!Returned

LEMMA AtomicAsk ==
    ASSUME TypeOK, NEW p \in Callers, NEW r \in Requests, Asked(p, r),
           UNCHANGED <<sqlite, SeenDb, SeenOrder>>
    PROVE  Atomic!Ask(p)
<1>1. count + 1 \in 1..MaxRequests
  BY StoreAssumption DEF Asked, TypeOK
<1>2. pending[p] = NoRequest /\ pending' = [pending EXCEPT ![p] = [r EXCEPT !.value = count + 1]]
        /\ returned' = NoReturn
  BY DEF Asked
<1>3. r \in Atomic!Requests
  BY SameRequests
<1> QED
  BY <1>1, <1>2, <1>3 DEF Atomic!Ask, Atomic!NoReturn, Atomic!Returned, NoReturn, Returned, SeenDb,
     SeenOrder

\* A request whose first n entries are done is a request served as far.
LEMMA AtomicCommit ==
    ASSUME TypeOK, OrderInv, NEW p \in Callers, pending[p] # NoRequest,
           NEW n \in 0..Statements(pending[p]),
           sqlite \/ pending[p].op # "clearDevice",
           SeenDb' = [SeenDb EXCEPT ![pending[p].table] = Done(@, pending[p], n)],
           SeenOrder' = IF n > 0 THEN Ordered(SeenOrder, pending[p]) ELSE SeenOrder
    PROVE  Atomic!Commit(pending[p], n)
<1> DEFINE r == pending[p]
<1>1. Numbered(r)
  BY PendingFacts
<1>2. SeenOrder \in [Keys -> Nat] /\ Ranked(SeenOrder)
  BY DEF SeenOrder, TypeOK, OrderInv
<1>3. Latest(SeenOrder') = IF Setting(r) /\ n > 0 THEN r.keys[1] ELSE Latest(SeenOrder)
  BY <1>1, <1>2, OrderedFacts
<1>4. ~Atomic!Ignored(r)
  BY DEF Atomic!Ignored
<1> QED
  BY <1>3, <1>4, SameDone DEF Atomic!Commit, SeenDb, SeenOrder, Setting

LEMMA AtomicRelease ==
    ASSUME StoreInv, NEW p \in Callers, holder = p, pending[p] # NoRequest,
           holder' = Nobody, UNCHANGED dbVars
    PROVE  /\ at \in 0..Statements(pending[p]) /\ Atomic!Commit(pending[p], at)
           /\ answer = IF at > 0 THEN Answer(SeenDb[pending[p].table], Latest(SeenOrder), pending[p])
                       ELSE {}
           /\ Numbered(pending[p])
<1>1. sqlite /\ p # Nobody /\ TypeOK /\ OrderInv /\ HeldInv
  BY StoreAssumption DEF HeldInv, StoreInv
<1>2. /\ at \in 0..Statements(pending[p]) /\ Numbered(pending[p])
      /\ db = [old.db EXCEPT ![pending[p].table] = Done(@, pending[p], at)]
      /\ order = IF at > 0 THEN Ordered(old.order, pending[p]) ELSE old.order
      /\ answer = IF at > 0
                  THEN Answer(old.db[pending[p].table], Latest(old.order), pending[p]) ELSE {}
  BY <1>1, HeldFacts
<1>3. SeenDb = old.db /\ SeenOrder = old.order /\ SeenDb' = db /\ SeenOrder' = order
  BY <1>1 DEF SeenDb, SeenOrder, dbVars
<1>4. Atomic!Commit(pending[p], at)
  BY <1>1, <1>2, <1>3, AtomicCommit
<1> QED
  BY <1>2, <1>3, <1>4

LEMMA AtomicReturn ==
    ASSUME StoreInv, NEW p \in Callers, StatementFails(p) \/ Return(p)
    PROVE  Atomic!Serve(p)
<1> DEFINE r == pending[p]
<1>1. /\ holder = p /\ r # NoRequest /\ holder' = Nobody /\ UNCHANGED <<sqlite, dbVars>>
      /\ pending' = [pending EXCEPT ![p] = NoRequest]
  BY DEF StatementFails, Return, Unlock
<1>2. /\ at \in 0..Statements(r) /\ Atomic!Commit(r, at)
      /\ answer = IF at > 0 THEN Answer(SeenDb[r.table], Latest(SeenOrder), r) ELSE {}
      /\ Numbered(r)
  BY <1>1, AtomicRelease
<1>3. Statements(r) \in Nat
  BY <1>2, AskFacts
<1>4. CASE StatementFails(p)
  <2>1. at < Statements(r) /\ returned' = Returned(p, "error", {})
    BY <1>4 DEF StatementFails
  <2>2. at \in 0..(Atomic!Statements(r) - 1)
    BY <1>2, <1>3, <2>1, SameStatements
  <2> QED
    BY <1>1, <1>2, <2>1, <2>2 DEF Atomic!Serve, Atomic!Returned, Returned
<1>5. CASE Return(p)
  <2>1. at = Statements(r) /\ returned' = Returned(p, "ok", answer)
    BY <1>5 DEF Return
  <2>2. answer = Answer(SeenDb[r.table], Latest(SeenOrder), r)
    <3>1. CASE at > 0
      BY <1>2, <3>1
    <3>2. CASE at = 0
      <4>1. r.op \in {"put", "delete", "deleteDevices", "mark", "create"}
        <5>1. Statements(r) # 1
          BY <2>1, <3>2
        <5>2. r.op \notin {"put", "delete", "deleteDevices", "mark", "create"} => Statements(r) = 1
          BY <1>2, AskFacts
        <5> QED
          BY <5>1, <5>2
      <4> QED
        BY <1>2, <3>2, <4>1, BatchAnswer
    <3> QED
      BY <1>2, <3>1, <3>2
  <2>3. Atomic!Commit(r, Atomic!Statements(r))
    BY <1>2, <2>1, SameStatements
  <2>4. returned' = Atomic!Returned(p, "ok", Atomic!Answer(SeenDb[r.table], Latest(SeenOrder), r))
    BY <2>1, <2>2, SameAnswer DEF Atomic!Returned, Returned
  <2> QED
    BY <1>1, <2>3, <2>4 DEF Atomic!Serve, SeenDb, SeenOrder
<1> QED
  BY <1>4, <1>5

LEMMA AtomicMemory ==
    ASSUME StoreInv, NEW p \in Callers, MemoryServes(p)
    PROVE  Atomic!Serve(p)
<1> DEFINE r == pending[p]
<1>1. /\ ~sqlite /\ r # NoRequest /\ UNCHANGED <<sqlite, holder>>
      /\ pending' = [pending EXCEPT ![p] = NoRequest]
      /\ returned' = Returned(p, "ok", Answer(db[r.table], Latest(order), r))
      /\ order' = Ordered(order, r)
      /\ db' = IF r.op = "clearDevice" THEN db
               ELSE [db EXCEPT ![r.table] = Done(@, r, Statements(r))]
  BY DEF MemoryServes, lockVars
<1>2. TypeOK /\ OrderInv /\ HeldInv /\ Numbered(r) /\ Statements(r) \in Nat
  BY <1>1, PendingFacts, AskFacts DEF StoreInv
<1>3. holder = Nobody
  BY <1>1, <1>2 DEF HeldInv
<1>4. SeenDb = db /\ SeenOrder = order /\ SeenDb' = db' /\ SeenOrder' = order'
  BY <1>1, <1>3 DEF SeenDb, SeenOrder
<1>5. Atomic!Commit(r, Statements(r))
  <2>1. order' = IF Statements(r) > 0 THEN Ordered(order, r) ELSE order
    <3>1. CASE Statements(r) > 0
      BY <1>1, <3>1
    <3>2. CASE Statements(r) = 0
      <4>1. ~Setting(r)
        <5>1. Statements(r) # 1
          BY <3>2
        <5>2. /\ r.op = "put" /\ r.table \in {"sync_keys", "sent_messages"} => Len(r.keys) = 1
              /\ r.op \in {"put", "delete", "deleteDevices", "mark"} => Statements(r) = Len(r.keys)
          BY <1>2, AskFacts
        <5> QED
          BY <5>1, <5>2 DEF Setting
      <4> QED
        BY <1>1, <1>2, <3>2, <4>1, OrderedFacts DEF TypeOK, OrderInv
    <3> QED
      BY <1>2, <3>1, <3>2
  <2>2. CASE r.op # "clearDevice"
    <3>1. Statements(r) \in 0..Statements(r)
      BY <1>2
    <3> QED
      BY <1>1, <1>2, <1>4, <2>1, <2>2, <3>1, AtomicCommit
  <2>3. CASE r.op = "clearDevice"
    <3>1. Atomic!Ignored(r) /\ ~Setting(r)
      BY <1>1, <2>3 DEF Atomic!Ignored, Setting
    <3>2. order' = order
      BY <1>1, <1>2, <3>1, OrderedFacts DEF TypeOK, OrderInv
    <3> QED
      BY <1>1, <1>3, <2>3, <3>1, <3>2 DEF Atomic!Commit
  <2> QED
    BY <2>2, <2>3
<1>6. Atomic!Commit(r, Atomic!Statements(r))
  BY <1>5, SameStatements
<1>7. returned' = Atomic!Returned(p, "ok", Atomic!Answer(SeenDb[r.table], Latest(SeenOrder), r))
  BY <1>1, <1>4, SameAnswer DEF Atomic!Returned, Returned
<1> QED
  BY <1>1, <1>6, <1>7 DEF Atomic!Serve, SeenDb, SeenOrder

LEMMA AtomicCrash == ASSUME StoreInv, Crash PROVE Atomic!Crash
<1>1. /\ holder' = Nobody /\ pending' = [p \in Callers |-> NoRequest] /\ returned' = NoReturn
      /\ UNCHANGED sqlite
      /\ IF sqlite THEN UNCHANGED dbVars ELSE db' = EmptyTables /\ order' = EmptyOrder
  BY DEF Crash
<1>2. returned' = Atomic!NoReturn
  BY <1>1 DEF NoReturn, Returned, Atomic!NoReturn, Atomic!Returned
<1>3. CASE ~sqlite
  <2>1. Latest(EmptyOrder) = NoKey /\ EmptyTables = Atomic!EmptyStore
    BY DEF Latest, EmptyOrder, EmptyTables, Tables, Atomic!EmptyStore, Atomic!Tables
  <2> QED
    BY <1>1, <1>2, <1>3, <2>1 DEF Atomic!Crash
<1>4. CASE sqlite /\ holder = Nobody
  BY <1>1, <1>2, <1>4 DEF Atomic!Crash, dbVars
<1>5. CASE sqlite /\ holder # Nobody
  <2>1. holder \in Callers /\ pending[holder] # NoRequest
    BY <1>5 DEF StoreInv, HeldInv, TypeOK
  <2>2. at \in 0..Statements(pending[holder]) /\ Atomic!Commit(pending[holder], at)
    BY <1>1, <1>5, <2>1, AtomicRelease
  <2> QED
    BY <1>1, <1>2, <1>5, <2>1, <2>2, SameStatements DEF Atomic!Crash
<1> QED
  BY <1>3, <1>4, <1>5

LEMMA AtomicStep == StoreInv /\ [Next]_vars => [Atomic!Next]_Atomic!vars
<1> SUFFICES ASSUME StoreInv, [Next]_vars PROVE [Atomic!Next]_Atomic!vars
  OBVIOUS
<1>1. ASSUME NEW p \in Callers, Lock(p) PROVE Atomic!Ask(p)
  <2>1. UNCHANGED <<sqlite, SeenDb, SeenOrder>> /\ \E r \in Requests : Asked(p, r)
    BY <1>1, StoreAssumption DEF Lock, dbVars, SeenDb, SeenOrder
  <2> QED
    BY <2>1, AtomicAsk DEF StoreInv
<1>2. ASSUME NEW p \in Callers, Call(p) PROVE Atomic!Ask(p)
  <2>1. UNCHANGED <<sqlite, SeenDb, SeenOrder>> /\ \E r \in Requests : Asked(p, r)
    BY <1>2 DEF Call, dbVars, lockVars, SeenDb, SeenOrder
  <2> QED
    BY <2>1, AtomicAsk DEF StoreInv
<1>3. ASSUME NEW p \in Callers, Execute(p) \/ CountDevice(p) \/ InsertDevice(p)
      PROVE  UNCHANGED Atomic!vars
  <2>1. holder = p /\ p # Nobody /\ UNCHANGED <<sqlite, holder, old, pending, returned>>
    BY <1>3, StoreAssumption DEF Execute, CountDevice, InsertDevice
  <2> QED
    BY <2>1, SameVars DEF SeenDb, SeenOrder
<1>4. CASE UNCHANGED vars
  BY <1>4, SameVars DEF vars, dbVars, lockVars, SeenDb, SeenOrder
<1> QED
  BY <1>1, <1>2, <1>3, <1>4, AtomicReturn, AtomicMemory, AtomicCrash
  DEF Next, CallerNext, Atomic!Next

\* To its callers the session serves each request in one step, whatever the
\* number of tasks, keys, requests and crashes (SqliteSession and MemorySession
\* against AtomicStore).
THEOREM ServesAtomically == Spec => ImplementsAtomic
<1>1. StoreInv /\ [Next]_vars => [Atomic!Next]_Atomic!vars
  BY AtomicStep
<1> QED
  BY StoreInvariant, AtomicInit, <1>1, PTL DEF Spec, ImplementsAtomic, Atomic!Spec
=============================================================================
