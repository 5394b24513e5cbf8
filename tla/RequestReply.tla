---------------------------- MODULE RequestReply ----------------------------
(***************************************************************************)
(* What the connection layer promises an application task that calls       *)
(* send_iq or send_node, whatever happens to the connection meanwhile:     *)
(*   - the request reaches the server at most once;                        *)
(*   - a call that returns Ok, or an error the server itself gave, was     *)
(*     executed before it returned;                                        *)
(*   - the outcome of a call never changes.                                *)
(* And what it does not promise: a call that returns a local failure (not  *)
(* connected, send failed, timed out) may have been executed, and may even *)
(* be executed after it returned, because its node stays queued.           *)
(***************************************************************************)
EXTENDS Naturals

CONSTANT Calls

VARIABLES
    status,    \* per call: "idle", "pending", "ok", "refused" or "failed"
    executed   \* per call, how often its request has been put on the network

reqVars == <<status, executed>>

ReqInit ==
    /\ status = [c \in Calls |-> "idle"]
    /\ executed = [c \in Calls |-> 0]

Invoke(c) ==
    /\ status[c] = "idle"
    /\ status' = [status EXCEPT ![c] = "pending"]
    /\ UNCHANGED executed

Execute(c) ==
    /\ status[c] \in {"pending", "failed"} /\ executed[c] = 0
    /\ executed' = [executed EXCEPT ![c] = 1]
    /\ UNCHANGED status

\* "refused" is an answer of the server that is, or is read as, an error.
Return(c) ==
    /\ status[c] = "pending" /\ executed[c] = 1
    /\ status' \in {[status EXCEPT ![c] = s] : s \in {"ok", "refused"}}
    /\ UNCHANGED executed

Fail(c) ==
    /\ status[c] = "pending"
    /\ status' = [status EXCEPT ![c] = "failed"]
    /\ UNCHANGED executed

ReqNext == \E c \in Calls : Invoke(c) \/ Execute(c) \/ Return(c) \/ Fail(c)

ReqSpec == ReqInit /\ [][ReqNext]_reqVars

=============================================================================
