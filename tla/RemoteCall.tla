----------------------------- MODULE RemoteCall -----------------------------
(***************************************************************************)
(* What nanorpc promises whoever calls a function through core::client:    *)
(* only the function with the id that was asked for runs, at most twice;   *)
(* there is a result only if a run of it did not throw; and a result that  *)
(* was read stays as it is.  A call that raises promises nothing of the    *)
(* function.  Nothing here knows of messages, packers or executors.        *)
(***************************************************************************)
EXTENDS Naturals, Sequences

CONSTANTS
  Calls,
  Names,        \* the functions
  Id,           \* Id[n]: the id of function n
  None          \* no id yet

VARIABLES
  stage,        \* stage[c]: where call c stands
  asked,        \* asked[c]: the id it names
  runs,         \* runs[c]: the runs of functions for it
  kept          \* kept[c]: what was read from its result

vars == <<stage, asked, runs, kept>>

Init ==
  /\ stage = [c \in Calls |-> "idle"]
  /\ asked = [c \in Calls |-> None]
  /\ runs = [c \in Calls |-> <<>>]
  /\ kept = [c \in Calls |-> <<>>]

\* An id that cannot be read is zero, or none at all.
Ask(c) ==
  /\ stage[c] = "idle"
  /\ stage' = [stage EXCEPT ![c] = "open"]
  /\ \E i \in {Id[n] : n \in Names} \cup {0, None} : asked' = [asked EXCEPT ![c] = i]
  /\ UNCHANGED <<runs, kept>>

\* The function runs, possibly after the call has ended.
Run(c) ==
  /\ stage[c] # "idle"
  /\ Len(runs[c]) < 2
  /\ \E n \in Names, threw \in BOOLEAN :
       /\ Id[n] = asked[c]
       /\ runs' = [runs EXCEPT ![c] = Append(@, [of |-> n, threw |-> threw])]
  /\ UNCHANGED <<stage, asked, kept>>

Finish(c) ==
  /\ stage[c] = "open"
  /\ \E i \in 1..Len(runs[c]) : ~runs[c][i].threw
  /\ stage' = [stage EXCEPT ![c] = "result"]
  /\ UNCHANGED <<asked, runs, kept>>

Raise(c) ==
  /\ stage[c] \in {"idle", "open"}
  /\ stage' = [stage EXCEPT ![c] = "raised"]
  /\ UNCHANGED <<asked, runs, kept>>

\* The result is read; it never changes again.
Get(c) ==
  /\ stage[c] = "result"
  /\ kept[c] = <<>>
  /\ \E v \in {kept'[c]} : kept' = [kept EXCEPT ![c] = v]
  /\ UNCHANGED <<stage, asked, runs>>

Next == \E c \in Calls : Ask(c) \/ Run(c) \/ Finish(c) \/ Raise(c) \/ Get(c)

Spec == Init /\ [][Next]_vars

=============================================================================
