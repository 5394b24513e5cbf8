--------------------------- MODULE SessionStores ---------------------------
(***************************************************************************)
(* SqliteSession and MemorySession under the tasks that share them.  An    *)
(* operation of SqliteSession locks the connection, executes its           *)
(* statements one by one, each a transaction of its own, and unlocks when  *)
(* it returns; a statement that fails ends it.  MemorySession hands every  *)
(* operation to a map in memory, which serves it at once.                  *)
(*                                                                         *)
(* Callers are threads or tasks; the lock is held over no await, so tasks  *)
(* of one thread only make fewer of these behaviours.                      *)
(***************************************************************************)
EXTENDS StoreRequests, FiniteSets

CONSTANTS
    Callers,      \* the tasks
    NoRequest,    \* what a task has asked for when it asks for nothing
    Nobody,       \* the holder of a free lock
    MaxRequests,  \* bound: how many requests are made
    MaxCrashes    \* bound: how often the process ends

\* What a task may be waiting for, and more.
Ops == {"put", "get", "all", "some", "delete", "clear", "wipe", "expire", "mark", "deleteDevices",
        "take", "latest", "create", "clearDevice"}

Asks == [op : Ops, table : Tables, keys : Seq(Keys), times : Seq(Nat), value : Nat]

ASSUME StoreAssumption ==
    /\ Nobody \notin Callers
    /\ NoRequest \notin Asks
    /\ MaxRequests \in Nat /\ MaxCrashes \in Nat

VARIABLES
    sqlite,   \* whether the session is a SqliteSession
    db,       \* the tables
    order,    \* the rowid of each row of sync_keys, 0 for none
    holder,   \* who holds the connection's lock
    at,       \* how many statements the holder has executed
    old,      \* the tables and rowids when the holder took the lock
    answer,   \* what the holder's statements have returned
    pending,  \* per task, the request that is being served
    returned, \* the last request that has returned, until the next one is made
    count,    \* how many requests have been made
    crashes,  \* how often the process has ended
    handed    \* per sent message, how often take_sent_message has returned it

dbVars == <<db, order>>
lockVars == <<holder, at, old, answer>>
vars == <<sqlite, dbVars, lockVars, pending, returned, count, crashes, handed>>

Returned(p, outcome, rows) == [task |-> p, outcome |-> outcome, rows |-> rows]
NoReturn == Returned(Nobody, "none", {})
EmptyTables == [t \in Tables |-> [k \in Keys |-> NoRow]]
EmptyOrder == [k \in Keys |-> 0]
Nothing == [db |-> EmptyTables, order |-> EmptyOrder]

\* Both constructors; an existing file is a state that a crash leaves.
Init ==
    /\ sqlite \in BOOLEAN
    /\ db = EmptyTables /\ order = EmptyOrder
    /\ holder = Nobody /\ at = 0 /\ old = Nothing /\ answer = {}
    /\ pending = [p \in Callers |-> NoRequest]
    /\ returned = NoReturn
    /\ count = 0 /\ crashes = 0
    /\ handed = [n \in 1..MaxRequests |-> 0]

-----------------------------------------------------------------------------
(* The latest sync key: ORDER BY rowid DESC LIMIT 1.  INSERT OR REPLACE    *)
(* gives its row the rowid that follows the largest one, whether or not    *)
(* it replaces one.                                                        *)

Latest(o) ==
    IF \A k \in Keys : o[k] = 0 THEN NoKey
    ELSE CHOOSE k \in Keys : \A j \in Keys : o[j] <= o[k]

NextRowid(o) == IF Latest(o) = NoKey THEN 1 ELSE o[Latest(o)] + 1

\* Faulty variant: a row that is replaced keeps its rowid, as with an upsert.
OrderedUpsert(o, r) ==
    IF r.op = "put" /\ r.table = "sync_keys" /\ o[r.keys[1]] = 0
    THEN [o EXCEPT ![r.keys[1]] = NextRowid(o)]
    ELSE o

Ordered(o, r) ==
    IF r.op = "put" /\ r.table = "sync_keys"
    THEN [o EXCEPT ![r.keys[1]] = NextRowid(o)]
    ELSE o

-----------------------------------------------------------------------------
(* SqliteSession.                                                          *)

Asked(p, r) ==
    /\ pending[p] = NoRequest /\ count < MaxRequests
    /\ count' = count + 1
    /\ pending' = [pending EXCEPT ![p] = [r EXCEPT !.value = count + 1]]
    /\ returned' = NoReturn

\* Faulty variant: the lock is not waited for.
LockAlways(p) ==
    /\ sqlite
    /\ \E r \in Requests : Asked(p, r)
    /\ holder' = p /\ at' = 0 /\ answer' = {}
    /\ old' = [db |-> db, order |-> order]
    /\ UNCHANGED <<sqlite, dbVars, crashes, handed>>

\* An operation begins: self.conn.lock().
Lock(p) ==
    /\ sqlite /\ holder = Nobody
    /\ \E r \in Requests : Asked(p, r)
    /\ holder' = p /\ at' = 0 /\ answer' = {}
    /\ old' = [db |-> db, order |-> order]
    /\ UNCHANGED <<sqlite, dbVars, crashes, handed>>

\* Faulty variant: take_sent_message only selects.
StatementPeeking(d, r, n) ==
    [k \in Keys |-> IF k \in Hits(d, r, n) /\ r.op # "take" THEN NewRow(d, r, k) ELSE d[k]]

\* What the n-th statement of r makes of table d.
Statement(d, r, n) == [k \in Keys |-> IF k \in Hits(d, r, n) THEN NewRow(d, r, k) ELSE d[k]]

\* The next statement is executed.
Execute(p) ==
    LET r == pending[p] IN
    /\ holder = p /\ r # NoRequest /\ r.op # "create" /\ at < Statements(r)
    /\ at' = at + 1
    /\ answer' = Answer(db[r.table], Latest(order), r)
    /\ db' = [db EXCEPT ![r.table] = Statement(@, r, at + 1)]
    /\ order' = Ordered(order, r)
    /\ UNCHANGED <<sqlite, holder, old, pending, returned, count, crashes, handed>>

\* create() counts the device's rows; a count that fails passes for none
\* (is_ok_and).
CountDevice(p) ==
    /\ holder = p /\ pending[p] # NoRequest /\ pending[p].op = "create" /\ at = 0
    /\ \/ db["device"][DeviceKey] # NoRow /\ at' = 2
       \/ at' = 1
    /\ UNCHANGED <<sqlite, dbVars, holder, old, answer, pending, returned, count, crashes, handed>>

\* Then it inserts a new device, which a row that is there makes fail: the
\* primary key is the same, and this INSERT does not replace.
InsertDevice(p) ==
    /\ holder = p /\ pending[p] # NoRequest /\ pending[p].op = "create" /\ at = 1
    /\ db["device"][DeviceKey] = NoRow
    /\ at' = 2
    /\ db' = [db EXCEPT !["device"] = Statement(@, pending[p], 2)]
    /\ UNCHANGED <<sqlite, order, holder, old, answer, pending, returned, count, crashes, handed>>

Unlock(p) ==
    /\ holder' = Nobody /\ at' = 0 /\ old' = Nothing /\ answer' = {}
    /\ pending' = [pending EXCEPT ![p] = NoRequest]

\* A statement fails: the operation returns its error, and what the statements
\* before it have done stays.
StatementFails(p) ==
    /\ holder = p /\ pending[p] # NoRequest /\ at < Statements(pending[p])
    /\ pending[p].op = "create" => at = 1
    /\ Unlock(p)
    /\ returned' = Returned(p, "error", {})
    /\ UNCHANGED <<sqlite, dbVars, count, crashes, handed>>

\* The payloads that rows hands to a task.
Handed(r, rows) ==
    [n \in 1..MaxRequests |->
        IF r.op = "take" /\ (\E x \in rows : x[2].value = n) THEN handed[n] + 1 ELSE handed[n]]

Return(p) ==
    /\ holder = p /\ pending[p] # NoRequest /\ at = Statements(pending[p])
    /\ Unlock(p)
    /\ returned' = Returned(p, "ok", answer)
    /\ handed' = Handed(pending[p], answer)
    /\ UNCHANGED <<sqlite, dbVars, count, crashes>>

-----------------------------------------------------------------------------
(* MemorySession.                                                          *)

Call(p) ==
    /\ ~sqlite
    /\ \E r \in Requests : Asked(p, r)
    /\ UNCHANGED <<sqlite, dbVars, lockVars, crashes, handed>>

\* Table d when the first n entries of r are done.
Done(d, r, n) ==
    [k \in Keys |-> IF \E i \in 1..n : k \in Hits(d, r, i) THEN NewRow(d, r, k) ELSE d[k]]

\* The map, a dependency, is taken to do to its rows what the same request
\* does to a table, and to serve it as a whole; Session::clear_device is left
\* to its default, which does nothing.
MemoryServes(p) ==
    LET r == pending[p]
        found == Answer(db[r.table], Latest(order), r)
    IN
    /\ ~sqlite /\ r # NoRequest
    /\ db' = IF r.op = "clearDevice" THEN db
             ELSE [db EXCEPT ![r.table] = Done(@, r, Statements(r))]
    /\ order' = Ordered(order, r)
    /\ returned' = Returned(p, "ok", found)
    /\ handed' = Handed(r, found)
    /\ pending' = [pending EXCEPT ![p] = NoRequest]
    /\ UNCHANGED <<sqlite, lockVars, count, crashes>>

-----------------------------------------------------------------------------

\* The process ends between two statements and another one opens the session:
\* the file holds every statement that was executed, a map holds nothing.
Crash ==
    /\ crashes < MaxCrashes /\ crashes' = crashes + 1
    /\ IF sqlite THEN UNCHANGED dbVars ELSE db' = EmptyTables /\ order' = EmptyOrder
    /\ holder' = Nobody /\ at' = 0 /\ old' = Nothing /\ answer' = {}
    /\ pending' = [p \in Callers |-> NoRequest]
    /\ returned' = NoReturn
    /\ UNCHANGED <<sqlite, count, handed>>

CallerNext(p) ==
    \/ Lock(p) \/ Execute(p) \/ CountDevice(p) \/ InsertDevice(p) \/ StatementFails(p) \/ Return(p)
    \/ Call(p) \/ MemoryServes(p)

Next == (\E p \in Callers : CallerNext(p)) \/ Crash

Spec == Init /\ [][Next]_vars

-----------------------------------------------------------------------------
(* Properties.                                                             *)

Tabled(d) == d \in [Tables -> [Keys -> Row \cup {NoRow}]]

TypeOK ==
    /\ sqlite \in BOOLEAN
    /\ Tabled(db) /\ order \in [Keys -> Nat]
    /\ holder \in Callers \cup {Nobody} /\ at \in Nat
    /\ old \in [db : {old.db}, order : [Keys -> Nat]] /\ Tabled(old.db)
    /\ pending \in [Callers -> Asks \cup {NoRequest}]
    /\ \A p \in Callers :
          pending[p] # NoRequest =>
              pending[p].value \in 1..count /\ [pending[p] EXCEPT !.value = 0] \in Requests
    /\ count \in 0..MaxRequests /\ crashes \in 0..MaxCrashes
    /\ handed \in [1..MaxRequests -> Nat]

\* Who works on a SqliteSession holds its lock, and has done to the tables
\* what the statements it has executed do to those it found: nothing else
\* has happened to them since.
HeldInv ==
    /\ \A p \in Callers : sqlite /\ pending[p] # NoRequest => holder = p
    /\ holder # Nobody =>
          LET r == pending[holder] IN
          /\ sqlite /\ r # NoRequest /\ at <= Statements(r)
          /\ db = [old.db EXCEPT ![r.table] = Done(@, r, at)]
          /\ order = IF at > 0 THEN Ordered(old.order, r) ELSE old.order
          /\ answer = IF at > 0 THEN Answer(old.db[r.table], Latest(old.order), r) ELSE {}

\* The latest sync key is the only one with the largest rowid.
Ranked(o) ==
    (\E k \in Keys : o[k] > 0) => \E m \in Keys : \A k \in Keys \ {m} : o[k] < o[m]

OrderInv == Ranked(order) /\ Ranked(old.order)

\* The payload of one request is in one place: in a row of sent_messages, in a
\* task that is waiting, or taken.
NumberInv ==
    LET sent == IF holder = Nobody THEN db["sent_messages"] ELSE old.db["sent_messages"] IN
    /\ \A k \in Keys : sent[k] # NoRow =>
          /\ sent[k].value \in 1..count /\ handed[sent[k].value] = 0
          /\ \A j \in Keys \ {k} : sent[j] # NoRow => sent[j].value # sent[k].value
          /\ \A p \in Callers : pending[p] # NoRequest => pending[p].value # sent[k].value
    /\ \A p \in Callers : pending[p] # NoRequest =>
          /\ handed[pending[p].value] = 0
          /\ \A q \in Callers \ {p} : pending[q] # NoRequest => pending[q].value # pending[p].value
    /\ \A n \in 1..MaxRequests : handed[n] \in {0, 1} /\ (n > count => handed[n] = 0)

StoreInv == TypeOK /\ HeldInv /\ OrderInv /\ NumberInv

\* A payload that take_sent_message has returned, to whomever, is not in the
\* session any more and is not returned again, whatever fails or crashes.
TakenOnce ==
    \A n \in 1..MaxRequests : handed[n] > 0 =>
        /\ handed[n] = 1
        /\ \A k \in Keys : db["sent_messages"][k] # NoRow => db["sent_messages"][k].value # n

\* To its callers the session serves each request in one step, also a batch
\* that is made of many statements: on Ok all of it, on an error or a crash
\* the first entries of it.  create() never replaces a device, and
\* get_latest_sync_key_id is the key that was set last (SqliteSession and
\* MemorySession against AtomicStore).
Atomic == INSTANCE AtomicStore WITH
    durable <- sqlite,
    store <- IF holder = Nobody THEN db ELSE old.db,
    latest <- Latest(IF holder = Nobody THEN order ELSE old.order),
    Numbers <- 1..MaxRequests

ImplementsAtomic == Atomic!Spec

=============================================================================
