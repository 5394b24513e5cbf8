---------------------------- MODULE AtomicStore ----------------------------
(***************************************************************************)
(* What a session store promises to the tasks that share it.  A request is *)
(* served in one step, after it was made and before it returns: on success *)
(* all of it, with the rows it found there; on an error the first entries  *)
(* of it.  A crash may leave the first entries of a request that was being *)
(* served.  The sync key that was set last is the latest.                  *)
(***************************************************************************)
EXTENDS StoreRequests

CONSTANTS
    Callers,    \* the tasks
    Nobody,     \* no task
    Numbers,    \* the numbers of the requests
    NoRequest   \* what a task has asked for when it asks for nothing

VARIABLES
    durable,  \* whether the store outlives the process
    store,    \* its tables
    latest,   \* the sync key that was set last
    pending,  \* per task, the request it has made
    returned  \* the last request that has returned, until the next one is made

vars == <<durable, store, latest, pending, returned>>

Returned(p, outcome, rows) == [task |-> p, outcome |-> outcome, rows |-> rows]
NoReturn == Returned(Nobody, "none", {})
EmptyStore == [t \in Tables |-> [k \in Keys |-> NoRow]]

Init ==
    /\ durable \in BOOLEAN
    /\ store = EmptyStore /\ latest = NoKey
    /\ pending = [p \in Callers |-> NoRequest]
    /\ returned = NoReturn

\* Table d when the first n entries of r are done.
Applied(d, r, n) ==
    [k \in Keys |-> IF \E i \in 1..n : k \in Hits(d, r, i) THEN NewRow(d, r, k) ELSE d[k]]

\* A store that keeps no device has none to clear (Session::clear_device).
Ignored(r) == ~durable /\ r.op = "clearDevice"

Commit(r, n) ==
    /\ store' = IF Ignored(r) THEN store
                ELSE [store EXCEPT ![r.table] = Applied(@, r, n)]
    /\ latest' = IF r.op = "put" /\ r.table = "sync_keys" /\ n > 0 THEN r.keys[1] ELSE latest

Ask(p) ==
    /\ pending[p] = NoRequest
    /\ \E r \in Requests, n \in Numbers : pending' = [pending EXCEPT ![p] = [r EXCEPT !.value = n]]
    /\ returned' = NoReturn
    /\ UNCHANGED <<durable, store, latest>>

Serve(p) ==
    LET r == pending[p] IN
    /\ r # NoRequest
    /\ \/ /\ Commit(r, Statements(r))
          /\ returned' = Returned(p, "ok", Answer(store[r.table], latest, r))
       \/ /\ \E n \in 0..(Statements(r) - 1) : Commit(r, n)
          /\ returned' = Returned(p, "error", {})
    /\ pending' = [pending EXCEPT ![p] = NoRequest]
    /\ UNCHANGED durable

Crash ==
    /\ IF durable
       THEN \/ UNCHANGED <<store, latest>>
            \/ \E p \in Callers :
                  /\ pending[p] # NoRequest
                  /\ \E n \in 0..Statements(pending[p]) : Commit(pending[p], n)
       ELSE store' = EmptyStore /\ latest' = NoKey
    /\ pending' = [p \in Callers |-> NoRequest]
    /\ returned' = NoReturn
    /\ UNCHANGED durable

Next == (\E p \in Callers : Ask(p) \/ Serve(p)) \/ Crash

Spec == Init /\ [][Next]_vars

=============================================================================
