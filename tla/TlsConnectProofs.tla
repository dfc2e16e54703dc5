-------------------------- MODULE TlsConnectProofs --------------------------
(***************************************************************************)
(* A worker is left to run the handlers of the handshakes, for any number  *)
(* of workers that exceeds the number of calling threads.  One worker      *)
(* alone never ends a handshake, and a stop() that meets a handshake under *)
(* way never returns, whatever their numbers.                              *)
(***************************************************************************)
EXTENDS TlsConnect, FiniteSetTheorems, TLAPS

\* A worker waits for a handshake that is under way, and no other worker waits
\* for the same one.
HeldInv ==
  /\ TypeOK
  /\ \A w \in Workers : held[w] # None => at[held[w]] \in {"shaking", "shaken"}
  /\ \A v, w \in Workers : held[v] = held[w] /\ held[v] # None => v = w

LEMMA InitHeld == Init => HeldInv
BY WorkersAssumption DEF Init, HeldInv, TypeOK

LEMMA StepHeld == HeldInv /\ [Next]_vars => HeldInv'
<1> SUFFICES ASSUME HeldInv, [Next]_vars PROVE HeldInv'
  OBVIOUS
<1> USE WorkersAssumption DEF HeldInv, TypeOK
<1>1. ASSUME NEW c \in Connectors, Begin(c) PROVE HeldInv'
  BY <1>1 DEF Begin
<1>2. ASSUME NEW c \in Connectors, NEW w \in Workers, StartConnect(w, c)
      PROVE  HeldInv'
  BY <1>2 DEF StartConnect
<1>3. ASSUME NEW c \in Connectors, NEW w \in Workers, BeginHandshake(w, c)
      PROVE  HeldInv'
  BY <1>3 DEF BeginHandshake, Running
<1>4. ASSUME NEW c \in Connectors, NEW w \in Workers, FinishHandshake(w, c)
      PROVE  HeldInv'
  BY <1>4 DEF FinishHandshake
<1>5. ASSUME NEW c \in Connectors, NEW w \in Workers, Exchange(w, c)
      PROVE  HeldInv'
  BY <1>5 DEF Exchange
<1>6. ASSUME NEW w \in Workers, Resume(w) PROVE HeldInv'
  BY <1>6 DEF Resume
<1>7. CASE Stop \/ Join \/ \E w \in Workers : Exit(w)
  BY <1>7 DEF Stop, Join, Exit
<1>8. CASE UNCHANGED vars
  BY <1>8 DEF vars
<1> QED
  BY <1>1, <1>2, <1>3, <1>4, <1>5, <1>6, <1>7, <1>8 DEF Next, Connect

\* However handshakes and stops interleave, the workers are never all blocked in
\* the handler that waits for a handshake, if they outnumber the calling threads.
THEOREM SomeWorkerLeft == Spec => []WorkerLeft
<1>1. HeldInv => WorkerLeft
  <2> SUFFICES ASSUME HeldInv, Cardinality(Connectors) < Cardinality(Workers),
                      \A w \in Workers : held[w] # None
               PROVE  FALSE
    BY DEF WorkerLeft
  <2>1. held \in [Workers -> Connectors]
    BY DEF HeldInv, TypeOK
  <2>2. \E v, w \in Workers : v # w /\ held[v] = held[w]
    BY <2>1, WorkersAssumption, FS_PigeonHole
  <2> QED
    BY <2>2 DEF HeldInv
<1>2. HeldInv /\ [Next]_vars => HeldInv'
  BY StepHeld
<1> QED
  BY <1>1, <1>2, InitHeld, PTL DEF Spec

-----------------------------------------------------------------------------
\* The only worker is in the handler that waits for the handshake, and nobody is
\* left to run the handler that ends it.
Starved(w) ==
  /\ \A c \in Connectors : at[c] = "shaking" => held[w] = c
  /\ \A c \in Connectors : at[c] \notin {"shaken", "connected"}

LEMMA StepStarved ==
  ASSUME NEW w, Workers = {w}, TypeOK, Starved(w), [Next]_vars
  PROVE  Starved(w)'
<1> USE WorkersAssumption DEF Starved, TypeOK
<1>1. ASSUME NEW c \in Connectors, Begin(c) PROVE Starved(w)'
  BY <1>1 DEF Begin
<1>2. ASSUME NEW c \in Connectors, Connect(c) PROVE Starved(w)'
  BY <1>2
  DEF Connect, StartConnect, BeginHandshake, FinishHandshake, Exchange, Running
<1>3. CASE Stop \/ Join \/ \E v \in Workers : Exit(v)
  BY <1>3 DEF Stop, Join, Exit
<1>4. \A v \in Workers : ~Resume(v)
  BY DEF Resume
<1>5. CASE UNCHANGED vars
  BY <1>5 DEF vars
<1> QED
  BY <1>1, <1>2, <1>3, <1>4, <1>5 DEF Next

\* No call ever has a connection.
NoConnection == \A c \in Connectors : at[c] # "connected"

\* A client made with one worker, the least it accepts, never connects:
\* no call of any number of threads gets past its first handshake.
THEOREM OneWorkerStarves ==
  ASSUME NEW CONSTANT w, Workers = {w}
  PROVE  Spec => []NoConnection
<1>1. Init => Starved(w)
  BY DEF Init, Starved
<1>2. TypeOK /\ Starved(w) /\ [Next]_vars => Starved(w)'
  BY StepStarved
<1>3. Starved(w) => NoConnection
  BY DEF Starved, NoConnection
<1>4. HeldInv => TypeOK
  BY DEF HeldInv
<1>5. HeldInv /\ [Next]_vars => HeldInv'
  BY StepHeld
<1> QED
  BY <1>1, <1>2, <1>3, <1>4, <1>5, InitHeld, PTL DEF Spec

-----------------------------------------------------------------------------
\* One step of a client that is being stopped.
LEMMA StepInterrupted ==
  ASSUME TypeOK, Interrupted, [Next]_vars
  PROVE  Interrupted' \/ life' = "exited"
<1>1. PICK w \in Workers :
        life = "stopping" /\ held[w] # None /\ at[held[w]] = "shaking"
  BY DEF Interrupted
<1> USE <1>1, WorkersAssumption DEF TypeOK
<1>2. \A v \in Workers : ~Running(v)
  BY DEF Running
<1>3. ASSUME NEW c \in Connectors, Begin(c) PROVE Interrupted'
  BY <1>3 DEF Begin, Interrupted
<1>4. ASSUME NEW v \in Workers, Resume(v) PROVE Interrupted'
  <2>1. /\ held' = [held EXCEPT ![v] = None] /\ life' = life
        /\ at' = [at EXCEPT ![held[v]] = "connected"]
        /\ at[held[v]] = "shaken" /\ v # w /\ held[v] # held[w]
    BY <1>4 DEF Resume
  <2>2. held'[w] = held[w] /\ at'[held[w]] = "shaking"
    BY <2>1
  <2> QED
    BY <2>1, <2>2 DEF Interrupted
<1>5. ASSUME NEW v \in Workers, Exit(v) PROVE life' = "exited"
  BY <1>5 DEF Exit
<1>6. ~Stop /\ ~Join /\ \A c \in Connectors : ~Connect(c)
  BY <1>2 DEF Stop, Join, Connect, StartConnect, BeginHandshake,
              FinishHandshake, Exchange
<1>7. CASE UNCHANGED vars
  BY <1>7 DEF vars, Interrupted
<1> QED
  BY <1>3, <1>4, <1>5, <1>6, <1>7 DEF Next

\* stop() does not return while a worker waits for a handshake, and no step ends
\* that wait but the end of the process.
THEOREM InterruptedForEver == Spec => StopInterrupted
<1>1. TypeOK /\ [Next]_vars => [Interrupted => Interrupted' \/ life' = "exited"]_vars
  BY StepInterrupted
<1>2. HeldInv => TypeOK
  BY DEF HeldInv
<1>3. HeldInv /\ [Next]_vars => HeldInv'
  BY StepHeld
<1> QED
  BY <1>1, <1>2, <1>3, InitHeld, PTL DEF Spec, StopInterrupted

=============================================================================
