------------------------------ MODULE RpcCalls ------------------------------
(***************************************************************************)
(* What the executor of a nanorpc client promises the code that calls it:  *)
(* a call is handed to the server at most twice, it returns only what the  *)
(* server answered to that very call, and only after the server ran it.  A *)
(* call that raises promises nothing: the server may have run it or may    *)
(* still run it.  Nothing here knows of sessions, sockets or threads.      *)
(***************************************************************************)
EXTENDS Naturals

CONSTANTS
  Calls,      \* the activations of the executor
  None        \* no answer yet

VARIABLES
  status,     \* status[k]: where call k stands
  served,     \* served[k]: how often the server ran call k
  answer      \* answer[k]: the call whose response was handed to k

vars == <<status, served, answer>>

Init ==
  /\ status = [k \in Calls |-> "idle"]
  /\ served = [k \in Calls |-> 0]
  /\ answer = [k \in Calls |-> None]

\* The caller invokes the executor.
Begin(k) ==
  /\ status[k] = "idle"
  /\ status' = [status EXCEPT ![k] = "open"]
  /\ UNCHANGED <<served, answer>>

\* The server runs a request of k, possibly after k has already ended.
Serve(k) ==
  /\ status[k] # "idle"
  /\ served[k] < 2
  /\ served' = [served EXCEPT ![k] = @ + 1]
  /\ UNCHANGED <<status, answer>>

\* The response of k has arrived.
Answer(k) ==
  /\ status[k] = "open"
  /\ served[k] > 0
  /\ answer[k] = None
  /\ answer' = [answer EXCEPT ![k] = k]
  /\ UNCHANGED <<status, served>>

\* An answered call returns; it cannot fail any more.
Return(k) ==
  /\ status[k] = "open"
  /\ answer[k] = k
  /\ status' = [status EXCEPT ![k] = "returned"]
  /\ UNCHANGED <<served, answer>>

\* An unanswered call throws.
Raise(k) ==
  /\ status[k] \in {"idle", "open"}
  /\ answer[k] = None
  /\ status' = [status EXCEPT ![k] = "raised"]
  /\ UNCHANGED <<served, answer>>

Next ==
  \E k \in Calls : Begin(k) \/ Serve(k) \/ Answer(k) \/ Return(k) \/ Raise(k)

Spec == Init /\ [][Next]_vars

=============================================================================
