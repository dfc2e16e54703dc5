------------------------------ MODULE Connection ------------------------------
(***************************************************************************)
(* What the server promises whoever holds the other end of a connection,   *)
(* whatever its tasks, handlers, strand and buffers do.  The peer asks for *)
(* one thing at a time.  Until it asks for something too large, its        *)
(* request is served while it waits for the answer, at most once; the      *)
(* answer is the one to that request, and comes after the serving; it is   *)
(* complete if the connection is to be kept; and the server breaks off     *)
(* without an answer only at the first request, with nothing served.       *)
(* After a request that is too large nothing is promised but that none is  *)
(* served twice.                                                           *)
(***************************************************************************)
EXTENDS Naturals, Sequences

CONSTANTS
  MaxRequests,   \* requests the peer may send (bound of the model)
  Kinds,         \* their kinds
  Keeps          \* whether they ask to keep the connection

VARIABLES
  asked,     \* the requests, in order
  answers,   \* what the peer took for the answers, in order
  peer,      \* "ready" to ask, "waiting", "closed" or "reset"
  served     \* served[i]: how often the user's function ran for request i

vars == <<asked, answers, peer, served>>

\* The number of the last request.
Last == Len(asked)

Fit == \A i \in 1..Last : asked[i].kind # "big"

\* The requests a function is run for, and the status each kind is owed.
Served(kind) == kind \in {"good", "large", "throws"}

Owed(kind) ==
  CASE kind \in {"good", "large"}  -> 200
    [] kind = "empty"              -> 400
    [] kind \in {"throws", "null"} -> 500
    [] OTHER                       -> 404

Init ==
  /\ asked = <<>>
  /\ answers = <<>>
  /\ peer = "ready"
  /\ served = [i \in 1..MaxRequests |-> 0]

Ask ==
  /\ peer = "ready"
  /\ Last < MaxRequests
  /\ peer' = "waiting"
  /\ \E kind \in Kinds, keep \in Keeps :
       asked' = Append(asked, [re |-> Last + 1, kind |-> kind, keep |-> keep])
  /\ UNCHANGED <<answers, served>>

\* A request is served late only if the peer was reset while it waited.
Serve(i) ==
  /\ i \in 1..Last
  /\ Served(asked[i].kind)
  /\ served[i] = 0
  /\ Fit => i = Last /\ peer \in {"waiting", "reset"}
  /\ served' = [served EXCEPT ![i] = 1]
  /\ UNCHANGED <<asked, answers, peer>>

\* The answer `a' may be given to the last request.
IsAnswer(a) ==
  /\ a.re = Last
  /\ a.status = Owed(asked[Last].kind)
  /\ Served(asked[Last].kind) => served[Last] = 1

Answer(a) ==
  /\ peer = "waiting"
  /\ Fit => IsAnswer(a)
  /\ asked[Last].keep => a.whole
  /\ answers' = Append(answers, a)
  /\ peer' = IF asked[Last].keep THEN "ready" ELSE "closed"
  /\ UNCHANGED <<asked, served>>

BreakOff ==
  /\ peer = "waiting"
  /\ Fit => answers = <<>> /\ \A i \in 1..Last : served[i] = 0
  /\ peer' = "closed"
  /\ UNCHANGED <<asked, answers, served>>

Leave ==
  /\ \/ peer = "ready" /\ peer' = "closed"
     \/ peer \in {"ready", "waiting"} /\ peer' = "reset"
  /\ UNCHANGED <<asked, answers, served>>

Next ==
  \/ Ask \/ BreakOff \/ Leave
  \/ \E i \in 1..MaxRequests : Serve(i)
  \/ \E re \in 0..MaxRequests, status \in {200, 400, 404, 500}, whole \in BOOLEAN :
       Answer([re |-> re, status |-> status, whole |-> whole])

Spec == Init /\ [][Next]_vars

=============================================================================
