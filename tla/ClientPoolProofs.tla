-------------------------- MODULE ClientPoolProofs --------------------------
(***************************************************************************)
(* Proofs about ClientPool for any number of calls, sessions and threads.  *)
(***************************************************************************)
EXTENDS ClientPool, TLAPS

-----------------------------------------------------------------------------
(* The inductive invariant *)

\* Which local variables of the executor are set, by program point.
LocalsSet ==
  \A k \in Calls :
    /\ fresh[k] # None <=> pc[k] = "connect"
    /\ pc[k] \in {"send", "write", "read", "caught", "put"} => sess[k] # None
    /\ pc[k] \in Ended \cup {"idle"} => sess[k] = None

\* A session with a pending close is in nobody's use: at most a call holds it
\* that waits for another session.
ClosingUnused ==
  /\ \A s \in Pooled : s \notin closing
  /\ \A k \in Calls :
       /\ fresh[k] \notin closing
       /\ sess[k] \in closing => pc[k] \in {"caught", "get", "make", "connect"}

\* A call waits for messages on the session it sent its request on.
Waits(k, s) == pc[k] \in {"write", "read"} /\ sess[k] = s

\* What is on the wire belongs to a call that waits for it, or to a session
\* about to be closed.
WireOwned ==
  /\ \A m \in requests :
       m.sess # None => Waits(m.call, m.sess) \/ m.sess \in closing
  /\ \A r \in responses : Waits(r.call, r.sess) \/ r.sess \in closing

\* A session in use carries one message.
WireSingle ==
  /\ \A m, n \in requests :
       m.sess = n.sess /\ m.sess # None => m = n \/ m.sess \in closing
  /\ \A m \in requests, r \in responses : m.sess = r.sess => r.sess \in closing

\* A response is the trace of an execution.
AnswersRun ==
  /\ \A r \in responses : execs[r.call] > 0
  /\ OwnResponse

SafetyInv ==
  /\ TypeOK
  /\ LocalsSet
  /\ ExclusiveSession
  /\ ClosingUnused
  /\ WireOwned
  /\ WireSingle
  /\ AnswersRun
  /\ NeverAborted

\* The sends a call has started.
Unsent == {"idle", "get", "make", "connect", "send"}
Sends(k) == IF pc[k] \in Unsent THEN try[k] - 1 ELSE try[k]

Pending(k, t) == IF \E m \in requests : m.call = k /\ m.try = t THEN 1 ELSE 0

\* Each send has put one request on the wire; it is there, or it has been run,
\* or it is lost.
CountInv ==
  /\ \A k \in Calls : pc[k] = "idle" => try[k] = 1
  /\ \A m \in requests :
       m.try <= try[m.call] /\ (m.try = try[m.call] => pc[m.call] \notin Unsent)
  /\ \A m, n \in requests : m.call = n.call /\ m.try = n.try => m = n
  /\ \A k \in Calls : execs[k] + Pending(k, 1) + Pending(k, 2) <= Sends(k)

-----------------------------------------------------------------------------
(* Type correctness *)

\* The initial state is well typed.
LEMMA InitType == Init => TypeOK /\ LocalsSet
<1> SUFFICES ASSUME Init PROVE TypeOK /\ LocalsSet
  OBVIOUS
<1> USE PoolAssumption
<1>1. /\ pc \in [Calls -> Points]
      /\ try \in [Calls -> {1, 2}]
      /\ sess \in [Calls -> Sessions \cup {None}]
      /\ fresh \in [Calls -> Sessions \cup {None}]
      /\ result \in [Calls -> Calls \cup {None}]
  BY DEF Init, Points
<1>2. /\ pool \in Seq(Sessions)
      /\ closing \subseteq Sessions
      /\ sock \in [Sessions -> {"closed", "open", "broken"}]
      /\ requests \subseteq Message
      /\ responses \subseteq Response
      /\ execs \in [Calls -> Nat]
  BY DEF Init
<1>3. /\ resets \in Nat
      /\ crashes \in Nat
      /\ life \in {"off", "on", "draining", "assigning", "joining"}
      /\ up \in BOOLEAN
      /\ ctxStopped \in BOOLEAN
      /\ owned \in BOOLEAN
  BY DEF Init
<1>4. LocalsSet
  BY DEF Init, LocalsSet, Ended
<1> QED
  BY <1>1, <1>2, <1>3, <1>4 DEF TypeOK

\* Detaching requests from a connection changes nothing but where the response
\* would go.
LEMMA DetachedMessages ==
  ASSUME NEW s \in Sessions, NEW reqs \in SUBSET Message
  PROVE  /\ Detached(s, reqs) \subseteq Message
         /\ \A d \in Detached(s, reqs) : \E m \in reqs :
              /\ d.call = m.call /\ d.try = m.try
              /\ m.sess = s => d.sess = None
              /\ m.sess # s => d = m
<1> SUFFICES ASSUME NEW m \in reqs
             PROVE  LET d == IF m.sess = s THEN [m EXCEPT !.sess = None] ELSE m
                    IN  /\ d \in Message
                        /\ d.call = m.call /\ d.try = m.try
                        /\ m.sess = s => d.sess = None
                        /\ m.sess # s => d = m
  BY Zenon DEF Detached
<1>1. m \in Message
  OBVIOUS
<1> QED
  BY <1>1 DEF Message

LEMMA StillAttached ==
  ASSUME NEW s \in Sessions, NEW reqs \in SUBSET Message
  PROVE  \A d \in Detached(s, reqs) :
           d.sess # None => d \in reqs /\ d.sess # s
<1> SUFFICES ASSUME NEW d \in Detached(s, reqs), d.sess # None
             PROVE  d \in reqs /\ d.sess # s
  OBVIOUS
<1>1. PICK m \in reqs : (m.sess = s => d.sess = None) /\ (m.sess # s => d = m)
  BY DetachedMessages
<1> QED
  BY <1>1

\* No step of the client, the server or the network breaks a type.  That the
\* session used by send() is not null is needed for it.
LEMMA StepType == TypeOK /\ LocalsSet /\ [Next]_vars => TypeOK'
<1> SUFFICES ASSUME TypeOK, LocalsSet, [Next]_vars PROVE TypeOK'
  OBVIOUS
<1> USE PoolAssumption DEF TypeOK
<1>1. ASSUME NEW k \in Calls, Start(k) PROVE TypeOK'
  BY <1>1 DEF Start, Points, poolVars, wireVars, hostVars, faultVars, lifeVars
<1>2. ASSUME NEW k \in Calls, GetSession(k) PROVE TypeOK'
  <2>1. CASE pool # <<>> /\ pool' = Tail(pool) /\ sess' = [sess EXCEPT ![k] = Head(pool)]
    <3>1. Head(pool) \in Sessions /\ Tail(pool) \in Seq(Sessions)
      BY <2>1
    <3>2. sess' \in [Calls -> Sessions \cup {None}]
      BY <2>1, <3>1
    <3>3. pool' \in Seq(Sessions)
      BY <1>2, <2>1, <3>1 DEF GetSession
    <3>4. pc' \in [Calls -> Points]
      BY <1>2 DEF GetSession, Points
    <3> QED BY <1>2, <3>2, <3>3, <3>4
        DEF GetSession, wireVars, hostVars, faultVars, lifeVars
  <2>2. CASE UNCHANGED <<sess, pool>>
    <3>1. pc' \in [Calls -> Points]
      BY <1>2 DEF GetSession, Points
    <3> QED BY <1>2, <2>2, <3>1
        DEF GetSession, wireVars, hostVars, faultVars, lifeVars
  <2> QED BY <1>2, <2>1, <2>2 DEF GetSession
<1>3. ASSUME NEW k \in Calls, RefuseSession(k) PROVE TypeOK'
  BY <1>3 DEF RefuseSession, Throw, Points, wireVars, hostVars, faultVars,
              lifeVars
<1>4. ASSUME NEW k \in Calls, MakeSession(k) PROVE TypeOK'
  BY <1>4 DEF MakeSession, Free, Points, poolVars, hostVars, faultVars, lifeVars
<1>5. ASSUME NEW k \in Calls, Send(k) PROVE TypeOK'
  <2>1. [call |-> k, try |-> try[k], sess |-> sess[k]] \in Message
    BY DEF Message
  <2> QED BY <1>5, <2>1
      DEF Send, Points, poolVars, hostVars, faultVars, lifeVars
<1>6. ASSUME NEW k \in Calls, Retry(k) PROVE TypeOK'
  BY <1>6 DEF Retry, Points, poolVars, wireVars, hostVars, faultVars, lifeVars
<1>7. ASSUME NEW k \in Calls, GiveUp(k) PROVE TypeOK'
  BY <1>7 DEF GiveUp, Throw, Points, wireVars, hostVars, faultVars, lifeVars
<1>8. ASSUME NEW k \in Calls, PutSession(k) PROVE TypeOK'
  BY <1>8 DEF PutSession, LocalsSet, Points, wireVars, hostVars, faultVars,
              lifeVars
<1>9. ASSUME NEW k \in Calls, OnConnect(k) PROVE TypeOK'
  BY <1>9 DEF OnConnect, Throw, LocalsSet, Points, hostVars, faultVars, lifeVars
<1>10. ASSUME NEW k \in Calls, OnWrite(k) PROVE TypeOK'
  <2>1. sess[k] \in Sessions
    BY <1>10 DEF OnWrite, LocalsSet
  <2>2. pc' \in [Calls -> Points] /\ closing' \subseteq Sessions
    <3>1. pc' \in [Calls -> Points]
      BY <1>10 DEF OnWrite, SendFailed, Points
    <3>2. closing' \subseteq Sessions
      BY <1>10, <2>1 DEF OnWrite, SendFailed
    <3> QED
      BY <3>1, <3>2
  <2> QED
    BY <1>10, <2>2 DEF OnWrite, wireVars, hostVars, faultVars, lifeVars
<1>11. ASSUME NEW k \in Calls, OnRead(k) PROVE TypeOK'
  <2>1. sess[k] \in Sessions
    BY <1>11 DEF OnRead, LocalsSet
  <2>2. pc' \in [Calls -> Points] /\ closing' \subseteq Sessions
    <3>1. pc' \in [Calls -> Points]
      BY <1>11 DEF OnRead, SendFailed, Points
    <3>2. closing' \subseteq Sessions
      BY <1>11, <2>1 DEF OnRead, SendFailed
    <3> QED
      BY <3>1, <3>2
  <2>3. responses' \subseteq Response /\ result' \in [Calls -> Calls \cup {None}]
    BY <1>11 DEF OnRead, Response
  <2> QED
    BY <1>11, <2>2, <2>3 DEF OnRead, hostVars, faultVars, lifeVars
<1>12. ASSUME NEW s \in Sessions, CloseSession(s) PROVE TypeOK'
  <2>1. requests' \subseteq Message
    BY <1>12, DetachedMessages DEF CloseSession
  <2>2. pc' \in [Calls -> Points] /\ sock' \in [Sessions -> {"closed", "open", "broken"}]
    BY <1>12 DEF CloseSession, Points
  <2>3. closing' \subseteq Sessions /\ responses' \subseteq Response
    BY <1>12 DEF CloseSession
  <2> QED
    BY <1>12, <2>1, <2>2, <2>3 DEF CloseSession, hostVars, faultVars, lifeVars
<1>13. ASSUME NEW m \in requests, Execute(m) PROVE TypeOK'
  BY <1>13 DEF Execute, Message, Response, Points, callVars, poolVars,
               faultVars, lifeVars
<1>14. ASSUME NEW s \in Sessions, Reset(s) PROVE TypeOK'
  <2>1. requests' \subseteq Message
    <3>1. PICK lost \in SUBSET {m \in requests : m.sess = s} :
            requests' = Detached(s, requests \ lost)
      BY <1>14 DEF Reset
    <3> QED BY <3>1, DetachedMessages
  <2>2. responses' \subseteq Response
    BY <1>14 DEF Reset
  <2>3. /\ sock' \in [Sessions -> {"closed", "open", "broken"}]
        /\ resets' \in Nat
        /\ UNCHANGED <<callVars, poolVars, hostVars, crashes, lifeVars>>
    BY <1>14 DEF Reset
  <2> QED
    BY <2>1, <2>2, <2>3 DEF callVars, poolVars, hostVars, lifeVars
<1>15. CASE Crash
  <2>1. up' \in BOOLEAN
    BY <1>15, Zenon DEF Crash
  <2>2. /\ sock' \in [Sessions -> {"closed", "open", "broken"}]
        /\ requests' \subseteq Message /\ responses' \subseteq Response
        /\ crashes' \in Nat
    BY <1>15 DEF Crash
  <2> QED
    BY <1>15, <2>1, <2>2 DEF Crash, callVars, poolVars, lifeVars
<1>16. CASE Restart
  BY <1>16 DEF Restart, callVars, poolVars, wireVars, faultVars, lifeVars
<1>17. CASE Run \/ StopContext \/ JoinWorkers \/ Release
  BY <1>17 DEF Run, StopContext, JoinWorkers, Release, callVars, poolVars,
               wireVars, hostVars, faultVars
<1>18. CASE DrainPool
  BY <1>18 DEF DrainPool, callVars, hostVars, faultVars
<1>19. CASE UNCHANGED vars
  BY <1>19 DEF vars, callVars, poolVars, wireVars, hostVars, faultVars, lifeVars
<1> QED
  BY <1>1, <1>2, <1>3, <1>4, <1>5, <1>6, <1>7, <1>8, <1>9, <1>10, <1>11, <1>12,
     <1>13, <1>14, <1>15, <1>16, <1>17, <1>18, <1>19
  DEF Next, Caller, Handler, Fault, Life

\* Nor does it unset a local variable of the executor that is still needed.
LEMMA StepLocals == TypeOK /\ LocalsSet /\ [Next]_vars => LocalsSet'
<1> SUFFICES ASSUME TypeOK, LocalsSet, [Next]_vars PROVE LocalsSet'
  OBVIOUS
<1> USE PoolAssumption DEF TypeOK, LocalsSet, Ended
<1>1. ASSUME NEW k \in Calls, Start(k) PROVE LocalsSet'
  BY <1>1 DEF Start
<1>2. ASSUME NEW k \in Calls, GetSession(k) PROVE LocalsSet'
  <2>1. pool # <<>> => Head(pool) \in Sessions
    OBVIOUS
  <2> QED
    BY <1>2, <2>1 DEF GetSession
<1>3. ASSUME NEW k \in Calls, RefuseSession(k) PROVE LocalsSet'
  BY <1>3 DEF RefuseSession, Throw
<1>4. ASSUME NEW k \in Calls, MakeSession(k) PROVE LocalsSet'
  BY <1>4 DEF MakeSession, Free
<1>5. ASSUME NEW k \in Calls, Send(k) \/ Retry(k) PROVE LocalsSet'
  BY <1>5 DEF Send, Retry
<1>6. ASSUME NEW k \in Calls, GiveUp(k) PROVE LocalsSet'
  BY <1>6 DEF GiveUp, Throw
<1>7. ASSUME NEW k \in Calls, PutSession(k) PROVE LocalsSet'
  BY <1>7 DEF PutSession
<1>8. ASSUME NEW k \in Calls, OnConnect(k) PROVE LocalsSet'
  BY <1>8 DEF OnConnect, Throw
<1>9. ASSUME NEW k \in Calls, OnWrite(k) PROVE LocalsSet'
  BY <1>9 DEF OnWrite, SendFailed
<1>10. ASSUME NEW k \in Calls, OnRead(k) PROVE LocalsSet'
  BY <1>10 DEF OnRead, SendFailed
<1>11. ASSUME NEW s \in Sessions, CloseSession(s) PROVE LocalsSet'
  BY <1>11 DEF CloseSession
<1>12. CASE UNCHANGED callVars
  BY <1>12 DEF callVars
<1> QED
  BY <1>1, <1>2, <1>3, <1>4, <1>5, <1>6, <1>7, <1>8, <1>9, <1>10, <1>11, <1>12
  DEF Next, Caller, Handler, Fault, Life, Execute, Reset, Crash, Restart, Run,
      StopContext, DrainPool, JoinWorkers, Release, vars

\* Every variable keeps its type in every behaviour of the client.
THEOREM TypeCorrect == Spec => []TypeOK
<1>1. TypeOK /\ LocalsSet /\ [Next]_vars => TypeOK' /\ LocalsSet'
  BY StepType, StepLocals
<1> QED
  BY <1>1, InitType, PTL DEF Spec

-----------------------------------------------------------------------------
(* One owner per session *)

\* What pop() and emplace() do to the contents of the queue.
LEMMA PoppedPool ==
  ASSUME TypeOK, ExclusiveSession, pool # <<>>, pool' = Tail(pool)
  PROVE  /\ Head(pool) \in Pooled
         /\ Pooled' = Pooled \ {Head(pool)}
         /\ \A i, j \in 1..Len(pool') : i # j => pool'[i] # pool'[j]
<1>1. pool \in Seq(Sessions) /\ Len(pool) \in Nat \ {0}
  BY DEF TypeOK
<1>2. Len(pool') = Len(pool) - 1 /\ \A i \in 1..Len(pool') : pool'[i] = pool[i + 1]
  BY <1>1
<1>3. Head(pool) = pool[1]
  BY <1>1
<1>4. \A i, j \in 1..Len(pool) : i # j => pool[i] # pool[j]
  BY DEF ExclusiveSession
<1>5. ASSUME NEW s \in Pooled, s # Head(pool) PROVE s \in Pooled'
  <2>1. PICK i \in 1..Len(pool) : s = pool[i]
    BY DEF Pooled
  <2>2. i - 1 \in 1..Len(pool') /\ pool'[i - 1] = s
    BY <1>1, <1>2, <1>3, <1>5, <2>1
  <2> QED
    BY <2>2 DEF Pooled
<1>6. ASSUME NEW s \in Pooled' PROVE s \in Pooled /\ s # Head(pool)
  <2>1. PICK i \in 1..Len(pool') : s = pool'[i]
    BY <1>6 DEF Pooled
  <2>2. i + 1 \in 1..Len(pool) /\ s = pool[i + 1] /\ 1 \in 1..Len(pool)
    BY <1>1, <1>2, <2>1
  <2> QED
    BY <1>3, <1>4, <2>1, <2>2 DEF Pooled
<1>7. Head(pool) \in Pooled
  BY <1>1, <1>3 DEF Pooled
<1>8. \A i, j \in 1..Len(pool') : i # j => pool'[i] # pool'[j]
  BY <1>1, <1>2, <1>4
<1> QED
  BY <1>5, <1>6, <1>7, <1>8

LEMMA PushedPool ==
  ASSUME TypeOK, ExclusiveSession, NEW s \in Sessions, s \notin Pooled,
         pool' = Append(pool, s)
  PROVE  /\ Pooled' = Pooled \cup {s}
         /\ \A i, j \in 1..Len(pool') : i # j => pool'[i] # pool'[j]
<1>1. pool \in Seq(Sessions) /\ Len(pool) \in Nat
  BY DEF TypeOK
<1>2. /\ Len(pool') = Len(pool) + 1
      /\ pool'[Len(pool) + 1] = s
      /\ \A i \in 1..Len(pool) : pool'[i] = pool[i]
  BY <1>1
<1>3. \A i, j \in 1..Len(pool) : i # j => pool[i] # pool[j]
  BY DEF ExclusiveSession
<1>4. \A i \in 1..Len(pool) : pool[i] # s
  BY DEF Pooled
<1>5. ASSUME NEW t \in Pooled' PROVE t \in Pooled \cup {s}
  BY <1>1, <1>2, <1>5 DEF Pooled
<1>6. ASSUME NEW t \in Pooled \cup {s} PROVE t \in Pooled'
  BY <1>1, <1>2, <1>6 DEF Pooled
<1>7. \A i, j \in 1..Len(pool') : i # j => pool'[i] # pool'[j]
  BY <1>1, <1>2, <1>3, <1>4
<1> QED
  BY <1>5, <1>6, <1>7

\* The calls' own view of ExclusiveSession, apart from the queue.
HeldOnce ==
  /\ \A k \in Calls : sess[k] \notin Pooled /\ fresh[k] \notin Pooled
  /\ \A j, k \in Calls :
       /\ sess[j] # None => sess[j] # fresh[k]
       /\ (j # k /\ sess[j] # None) => sess[j] # sess[k]
       /\ (j # k /\ fresh[j] # None) => fresh[j] # fresh[k]

LEMMA StepExclusive ==
  TypeOK /\ LocalsSet /\ ExclusiveSession /\ [Next]_vars => ExclusiveSession'
<1> SUFFICES ASSUME TypeOK, LocalsSet, ExclusiveSession, [Next]_vars
             PROVE  ExclusiveSession'
  OBVIOUS
<1>a. HeldOnce
  BY DEF ExclusiveSession, HeldOnce
<1>b. None \notin Pooled /\ Pooled \subseteq Sessions
  BY PoolAssumption DEF TypeOK, Pooled
<1>c. ASSUME UNCHANGED pool, HeldOnce' PROVE ExclusiveSession'
  BY <1>c DEF ExclusiveSession, HeldOnce
<1>d. UNCHANGED pool => Pooled' = Pooled
  BY DEF Pooled
<1> USE <1>a, PoolAssumption DEF TypeOK
<1>1. ASSUME NEW k \in Calls, GetSession(k) PROVE ExclusiveSession'
  <2>1. CASE pool # <<>> /\ pool' = Tail(pool) /\ sess' = [sess EXCEPT ![k] = Head(pool)]
    <3>1. HeldOnce'
      BY <1>1, <1>b, <2>1, PoppedPool DEF GetSession, HeldOnce
    <3> QED
      BY <2>1, <3>1, PoppedPool DEF ExclusiveSession, HeldOnce
  <2>2. CASE UNCHANGED <<sess, pool>>
    <3>1. HeldOnce'
      BY <1>1, <1>d, <2>2 DEF GetSession, HeldOnce
    <3> QED
      BY <1>c, <2>2, <3>1
  <2> QED
    BY <1>1, <2>1, <2>2 DEF GetSession
<1>2. ASSUME NEW k \in Calls, RefuseSession(k) \/ GiveUp(k) PROVE ExclusiveSession'
  <2>1. UNCHANGED <<pool, fresh>> /\ sess' = [sess EXCEPT ![k] = None]
    BY <1>2 DEF RefuseSession, GiveUp, Throw
  <2>2. HeldOnce'
    BY <1>b, <1>d, <2>1 DEF HeldOnce
  <2> QED
    BY <1>c, <2>1, <2>2
<1>3. ASSUME NEW k \in Calls, MakeSession(k) PROVE ExclusiveSession'
  <2>1. UNCHANGED <<pool, sess>>
    BY <1>3 DEF MakeSession, poolVars
  <2>2. PICK s \in Free : fresh' = [fresh EXCEPT ![k] = s]
    BY <1>3 DEF MakeSession
  <2>3. HeldOnce'
    BY <1>b, <1>d, <2>1, <2>2 DEF HeldOnce, Free
  <2> QED
    BY <1>c, <2>1, <2>3
<1>4. ASSUME NEW k \in Calls, PutSession(k) PROVE ExclusiveSession'
  <2>1. sess[k] \in Sessions /\ sess[k] \notin Pooled
    BY <1>4 DEF PutSession, LocalsSet, HeldOnce
  <2>2. pool' = Append(pool, sess[k]) /\ sess' = [sess EXCEPT ![k] = None]
        /\ UNCHANGED fresh
    BY <1>4 DEF PutSession
  <2>3. HeldOnce'
    BY <1>b, <2>1, <2>2, PushedPool DEF HeldOnce
  <2> QED
    BY <2>1, <2>2, <2>3, PushedPool DEF ExclusiveSession, HeldOnce
<1>5. ASSUME NEW k \in Calls, OnConnect(k) PROVE ExclusiveSession'
  <2>1. fresh[k] \in Sessions
    BY <1>5 DEF OnConnect, LocalsSet
  <2>2. /\ UNCHANGED pool
        /\ fresh' = [fresh EXCEPT ![k] = None]
        /\ \/ sess' = [sess EXCEPT ![k] = fresh[k]]
           \/ sess' = [sess EXCEPT ![k] = None]
    BY <1>5 DEF OnConnect, Throw
  <2>3. HeldOnce'
    BY <1>b, <1>d, <2>1, <2>2 DEF HeldOnce
  <2> QED
    BY <1>c, <2>2, <2>3
<1>6. CASE DrainPool
  <2>1. pool' = <<>> /\ UNCHANGED <<sess, fresh>>
    BY <1>6 DEF DrainPool, callVars
  <2>2. Pooled' = {} /\ Len(pool') = 0
    BY <2>1 DEF Pooled
  <2> QED
    BY <2>1, <2>2 DEF ExclusiveSession, HeldOnce
<1>7. CASE UNCHANGED <<pool, sess, fresh>>
  <2>1. HeldOnce'
    BY <1>d, <1>7 DEF HeldOnce
  <2> QED
    BY <1>c, <1>7, <2>1
<1> QED
  BY <1>1, <1>2, <1>3, <1>4, <1>5, <1>6, <1>7
  DEF Next, Caller, Handler, Fault, Life, Start, Send, Retry, OnWrite, OnRead,
      CloseSession, Execute, Reset, Crash, Restart, Run, StopContext,
      JoinWorkers, Release, callVars, poolVars, vars

-----------------------------------------------------------------------------
(* A session with a pending close is not used *)

LEMMA StepClosing == SafetyInv /\ [Next]_vars => ClosingUnused'
<1> SUFFICES ASSUME SafetyInv, [Next]_vars PROVE ClosingUnused'
  OBVIOUS
<1> USE PoolAssumption
<1>a. TypeOK /\ LocalsSet /\ ExclusiveSession /\ ClosingUnused /\ HeldOnce
  BY DEF SafetyInv, ExclusiveSession, HeldOnce
<1>b. None \notin Pooled /\ Pooled \subseteq Sessions /\ closing \subseteq Sessions
  BY <1>a DEF TypeOK, Pooled
<1>c. UNCHANGED pool => Pooled' = Pooled
  BY DEF Pooled
<1>d. /\ pc \in [Calls -> Points]
      /\ sess \in [Calls -> Sessions \cup {None}]
      /\ fresh \in [Calls -> Sessions \cup {None}]
  BY <1>a DEF TypeOK
<1>1. ASSUME NEW k \in Calls, GetSession(k) PROVE ClosingUnused'
  <2>1. CASE pool # <<>> /\ pool' = Tail(pool) /\ sess' = [sess EXCEPT ![k] = Head(pool)]
    <3>1. Head(pool) \notin closing /\ Pooled' \subseteq Pooled
      BY <1>a, <2>1, PoppedPool DEF ClosingUnused
    <3> QED
      BY <1>1, <1>a, <1>d, <2>1, <3>1 DEF GetSession, ClosingUnused
  <2>2. CASE pc' = [pc EXCEPT ![k] = "make"] /\ UNCHANGED <<sess, pool>>
    BY <1>1, <1>a, <1>c, <1>d, <2>2 DEF GetSession, ClosingUnused
  <2> QED
    BY <1>1, <2>1, <2>2 DEF GetSession
<1>2. ASSUME NEW k \in Calls, RefuseSession(k) \/ GiveUp(k) PROVE ClosingUnused'
  <2>1. /\ UNCHANGED <<pool, fresh>>
        /\ sess' = [sess EXCEPT ![k] = None]
        /\ closing' = closing \cup ({sess[k]} \ {None})
        /\ \A j \in Calls : j # k => pc'[j] = pc[j]
    BY <1>2, <1>d DEF RefuseSession, GiveUp, Throw
  <2> QED
    BY <1>a, <1>b, <1>c, <1>d, <2>1 DEF ClosingUnused, HeldOnce
<1>3. ASSUME NEW k \in Calls, MakeSession(k) PROVE ClosingUnused'
  <2>1. UNCHANGED <<pool, sess, closing>> /\ pc' = [pc EXCEPT ![k] = "connect"]
    BY <1>3 DEF MakeSession, poolVars
  <2>2. PICK s \in Free : fresh' = [fresh EXCEPT ![k] = s]
    BY <1>3 DEF MakeSession
  <2> QED
    BY <1>3, <1>a, <1>c, <1>d, <2>1, <2>2 DEF ClosingUnused, Free
<1>4. ASSUME NEW k \in Calls, PutSession(k) PROVE ClosingUnused'
  <2>1. sess[k] \in Sessions /\ sess[k] \notin Pooled /\ sess[k] \notin closing
    BY <1>4, <1>a, <1>d DEF PutSession, LocalsSet, HeldOnce, ClosingUnused
  <2>2. pool' = Append(pool, sess[k]) /\ sess' = [sess EXCEPT ![k] = None]
        /\ UNCHANGED <<fresh, closing>> /\ pc' = [pc EXCEPT ![k] = "done"]
    BY <1>4 DEF PutSession
  <2>3. Pooled' = Pooled \cup {sess[k]}
    BY <1>a, <2>1, <2>2, PushedPool
  <2> QED
    BY <1>a, <1>b, <1>d, <2>1, <2>2, <2>3 DEF ClosingUnused
<1>5. ASSUME NEW k \in Calls, OnConnect(k) PROVE ClosingUnused'
  <2>1. UNCHANGED pool /\ pc[k] = "connect" /\ fresh[k] \in Sessions
        /\ fresh' = [fresh EXCEPT ![k] = None] /\ fresh[k] \notin closing
    BY <1>5, <1>a, <1>d DEF OnConnect, LocalsSet, ClosingUnused
  <2>2. CASE /\ pc' = [pc EXCEPT ![k] = "send"]
             /\ sess' = [sess EXCEPT ![k] = fresh[k]]
             /\ UNCHANGED closing
    BY <1>a, <1>b, <1>c, <1>d, <2>1, <2>2 DEF ClosingUnused
  <2>3. CASE Throw(k, "failed")
    BY <1>a, <1>b, <1>c, <1>d, <2>1, <2>3 DEF Throw, ClosingUnused, HeldOnce
  <2> QED
    BY <1>5, <2>2, <2>3 DEF OnConnect
<1>6. ASSUME NEW k \in Calls, OnWrite(k) \/ OnRead(k) PROVE ClosingUnused'
  <2>1. UNCHANGED <<pool, sess, fresh>> /\ pc[k] \in {"write", "read"}
    BY <1>6 DEF OnWrite, OnRead
  <2>2. sess[k] \in Sessions /\ sess[k] \notin Pooled /\ sess[k] \notin closing
    BY <1>a, <1>d, <2>1 DEF LocalsSet, HeldOnce, ClosingUnused
  <2>3. CASE UNCHANGED closing /\ pc' \in {[pc EXCEPT ![k] = "read"], [pc EXCEPT ![k] = "put"]}
    BY <1>a, <1>c, <1>d, <2>1, <2>2, <2>3 DEF ClosingUnused
  <2>4. CASE SendFailed(k)
    BY <1>a, <1>c, <1>d, <2>1, <2>2, <2>4 DEF SendFailed, ClosingUnused, HeldOnce
  <2> QED
    BY <1>6, <2>3, <2>4 DEF OnWrite, OnRead
<1>7. ASSUME NEW s \in Sessions, CloseSession(s) PROVE ClosingUnused'
  <2>1. /\ UNCHANGED <<pool, sess, fresh>>
        /\ closing' = closing \ {s} /\ s \in closing
    BY <1>7 DEF CloseSession
  <2>2. \A k \in Calls : pc'[k] = pc[k]
    BY <1>7, <1>a DEF CloseSession, ClosingUnused
  <2> QED
    BY <1>a, <1>c, <1>d, <2>1, <2>2 DEF ClosingUnused
<1>8. ASSUME NEW k \in Calls, Start(k) PROVE ClosingUnused'
  <2>1. UNCHANGED <<pool, sess, fresh, closing>> /\ sess[k] = None
        /\ \A j \in Calls : j # k => pc'[j] = pc[j]
    BY <1>8, <1>a, <1>d DEF Start, poolVars, LocalsSet
  <2> QED
    BY <1>a, <1>b, <1>c, <1>d, <2>1 DEF ClosingUnused
<1>9. ASSUME NEW k \in Calls, Send(k) \/ Retry(k) PROVE ClosingUnused'
  <2>1. UNCHANGED <<pool, sess, fresh, closing>>
    BY <1>9 DEF Send, Retry, poolVars
  <2>2. (pc[k] = "caught" /\ pc'[k] = "get") \/ pc[k] = "send"
    BY <1>9, <1>d DEF Send, Retry
  <2>3. \A j \in Calls : j # k => pc'[j] = pc[j]
    BY <1>9, <1>d DEF Send, Retry
  <2> QED
    BY <1>a, <1>c, <1>d, <2>1, <2>2, <2>3 DEF ClosingUnused
<1>10. CASE DrainPool
  <2>1. pool' = <<>> /\ UNCHANGED <<pc, sess, fresh, closing>>
    BY <1>10 DEF DrainPool, callVars
  <2>2. Pooled' = {}
    BY <2>1 DEF Pooled
  <2> QED
    BY <1>a, <2>1, <2>2 DEF ClosingUnused
<1>11. CASE UNCHANGED <<pc, sess, fresh, pool, closing>>
  BY <1>11, <1>a, <1>c DEF ClosingUnused
<1> QED
  BY <1>1, <1>2, <1>3, <1>4, <1>5, <1>6, <1>7, <1>8, <1>9, <1>10, <1>11
  DEF Next, Caller, Handler, Fault, Life, Execute, Reset, Crash, Restart, Run,
      StopContext, JoinWorkers, Release, callVars, poolVars, vars

\* A posted close never runs under a call that uses the session.
LEMMA StepNeverAborted == SafetyInv /\ [Next]_vars => NeverAborted'
<1> SUFFICES ASSUME SafetyInv, [Next]_vars PROVE NeverAborted'
  OBVIOUS
<1>a. pc \in [Calls -> Points] /\ NeverAborted /\ ClosingUnused
  BY DEF SafetyInv, TypeOK
<1>1. ASSUME NEW s \in Sessions, CloseSession(s) PROVE NeverAborted'
  BY <1>1, <1>a DEF CloseSession, ClosingUnused, NeverAborted
<1>2. ASSUME NEW k \in Calls, Start(k) \/ Caller(k) PROVE NeverAborted'
  BY <1>2, <1>a
  DEF Start, Caller, GetSession, RefuseSession, MakeSession, Send, Retry, GiveUp,
      PutSession, Throw, NeverAborted
<1>3. ASSUME NEW k \in Calls, Handler(k) PROVE NeverAborted'
  BY <1>3, <1>a
  DEF Handler, OnConnect, OnWrite, OnRead, Throw, SendFailed, NeverAborted
<1>4. CASE UNCHANGED pc
  BY <1>4, <1>a DEF NeverAborted
<1> QED
  BY <1>1, <1>2, <1>3, <1>4
  DEF Next, Fault, Life, Execute, Reset, Crash, Restart, Run, StopContext,
      DrainPool, JoinWorkers, Release, callVars, vars

-----------------------------------------------------------------------------
(* What is on the wire *)

WireInv == WireOwned /\ WireSingle

\* Steps that take messages off the wire at most, and end no wait but by closing
\* the session.
LEMMA WireKept ==
  ASSUME WireInv,
         requests' \subseteq requests, responses' \subseteq responses,
         closing \subseteq closing',
         \A j \in Calls, s \in Sessions : Waits(j, s) => Waits(j, s)' \/ s \in closing',
         TypeOK
  PROVE  WireInv'
<1> USE DEF WireInv
<1>1. \A m \in requests : m.call \in Calls /\ m.sess \in Sessions \cup {None}
  BY DEF TypeOK, Message
<1>2. \A r \in responses : r.call \in Calls /\ r.sess \in Sessions
  BY DEF TypeOK, Response
<1>3. WireOwned'
  BY <1>1, <1>2 DEF WireOwned
<1>4. WireSingle'
  BY DEF WireSingle
<1> QED
  BY <1>3, <1>4

\* A response on a session some call waits on is the only message there, and it
\* is the response to that call.
LEMMA ReadsOwn ==
  ASSUME SafetyInv, NEW k \in Calls, NEW r \in responses,
         pc[k] = "read", r.sess = sess[k]
  PROVE  /\ r.call = k
         /\ \A m \in requests : m.sess # r.sess
         /\ \A q \in responses : q.sess = r.sess => q = r
<1>1. r \in Response /\ sess[k] \in Sessions /\ sess[k] \notin closing
  BY PoolAssumption DEF SafetyInv, TypeOK, LocalsSet, ClosingUnused
<1>2. \A q \in responses : q.sess = r.sess => q \in Response /\ q.call = k
  <2> SUFFICES ASSUME NEW q \in responses, q.sess = r.sess
               PROVE  q \in Response /\ q.call = k
    OBVIOUS
  <2>1. q \in Response /\ q.call \in Calls
    BY DEF SafetyInv, TypeOK, Response
  <2>2. Waits(q.call, q.sess)
    BY <1>1 DEF SafetyInv, WireOwned
  <2> QED
    BY <1>1, <2>1, <2>2, PoolAssumption DEF Waits, SafetyInv, ExclusiveSession
<1>3. \A q \in responses : q.sess = r.sess => q = r
  BY <1>1, <1>2 DEF Response
<1> QED
  BY <1>1, <1>2, <1>3 DEF SafetyInv, WireSingle

LEMMA StepWire == SafetyInv /\ [Next]_vars => WireInv'
<1> SUFFICES ASSUME SafetyInv, [Next]_vars PROVE WireInv'
  OBVIOUS
<1> USE PoolAssumption
<1>a. TypeOK /\ LocalsSet /\ ExclusiveSession /\ ClosingUnused /\ WireInv
  BY DEF SafetyInv, WireInv
<1>b. /\ pc \in [Calls -> Points]
      /\ sess \in [Calls -> Sessions \cup {None}]
  BY <1>a DEF TypeOK
<1>c. /\ \A m \in requests : m \in Message /\ m.call \in Calls
                             /\ m.sess \in Sessions \cup {None}
      /\ \A r \in responses : r \in Response /\ r.call \in Calls /\ r.sess \in Sessions
  BY <1>a DEF TypeOK, Message, Response
<1>1. ASSUME NEW k \in Calls,
             \/ Start(k) \/ GetSession(k) \/ RefuseSession(k) \/ MakeSession(k)
             \/ Retry(k) \/ GiveUp(k) \/ PutSession(k) \/ OnConnect(k)
      PROVE  WireInv'
  <2>1. /\ UNCHANGED <<requests, responses>> /\ closing \subseteq closing'
        /\ pc[k] \notin {"write", "read"}
    BY <1>1 DEF Start, GetSession, RefuseSession, MakeSession, Retry, GiveUp,
                PutSession, OnConnect, Throw, poolVars, wireVars
  <2>2. \A j \in Calls : j # k => pc'[j] = pc[j] /\ sess'[j] = sess[j]
    BY <1>1, <1>b DEF Start, GetSession, RefuseSession, MakeSession, Retry,
                      GiveUp, PutSession, OnConnect, Throw
  <2> QED
    BY <1>a, <2>1, <2>2, WireKept DEF Waits
<1>2. ASSUME NEW k \in Calls, Send(k) PROVE WireInv'
  <2> DEFINE new == [call |-> k, try |-> try[k], sess |-> sess[k]]
  <2>1. /\ pc[k] = "send" /\ pc' = [pc EXCEPT ![k] = "write"]
        /\ requests' \subseteq requests \cup {new}
        /\ UNCHANGED <<sess, closing, responses>>
    BY <1>2 DEF Send, poolVars
  <2>2. sess[k] \in Sessions /\ sess[k] \notin closing
    BY <1>a, <1>b, <2>1 DEF LocalsSet, ClosingUnused
  <2>3. \A j \in Calls : ~Waits(j, sess[k])
    BY <1>a, <2>1, <2>2 DEF Waits, ExclusiveSession
  <2>4. /\ \A m \in requests : m.sess # sess[k]
        /\ \A r \in responses : r.sess # sess[k]
    BY <1>a, <1>c, <2>2, <2>3 DEF WireInv, WireOwned
  <2>5. new.sess = sess[k] /\ new.call = k
    OBVIOUS
  <2> HIDE DEF new
  <2>6. \A j \in Calls, s \in Sessions : Waits(j, s) => Waits(j, s)'
    BY <1>b, <2>1 DEF Waits
  <2>7. Waits(k, sess[k])'
    BY <1>b, <2>1 DEF Waits
  <2>8. WireOwned'
    BY <1>a, <1>c, <2>1, <2>5, <2>6, <2>7 DEF WireInv, WireOwned
  <2>9. WireSingle'
    BY <1>a, <2>1, <2>4, <2>5 DEF WireInv, WireSingle
  <2> QED
    BY <2>8, <2>9 DEF WireInv
<1>3. ASSUME NEW k \in Calls, OnWrite(k) PROVE WireInv'
  <2>1. /\ UNCHANGED <<requests, responses, sess>> /\ closing \subseteq closing'
        /\ \/ pc' = [pc EXCEPT ![k] = "read"]
           \/ sess[k] \in closing' /\ \A j \in Calls : j # k => pc'[j] = pc[j]
    BY <1>3, <1>b DEF OnWrite, SendFailed, wireVars
  <2> QED
    BY <1>a, <1>b, <2>1, WireKept DEF Waits
<1>4. ASSUME NEW k \in Calls, OnRead(k) PROVE WireInv'
  <2>1. /\ requests' = requests /\ responses' \subseteq responses
        /\ sess' = sess /\ closing \subseteq closing' /\ pc[k] = "read"
        /\ \A j \in Calls : j # k => pc'[j] = pc[j]
    BY <1>4, <1>b DEF OnRead, SendFailed
  <2>2. CASE sess[k] \in closing'
    BY <1>a, <2>1, <2>2, WireKept DEF Waits
  <2>3. CASE sess[k] \notin closing'
    <3>1. PICK r \in responses : r.sess = sess[k] /\ responses' = responses \ {r}
      BY <1>4, <2>3 DEF OnRead, SendFailed
    <3>2. /\ \A m \in requests' : m.sess # sess[k]
          /\ \A q \in responses' : q.sess # sess[k]
      BY <2>1, <3>1, ReadsOwn
    <3>3. \A j \in Calls, s \in Sessions : Waits(j, s) /\ s # sess[k] => Waits(j, s)'
      BY <2>1 DEF Waits
    <3>4. WireOwned'
      BY <1>a, <1>c, <2>1, <3>2, <3>3 DEF WireInv, WireOwned
    <3>5. WireSingle'
      BY <1>a, <2>1 DEF WireInv, WireSingle
    <3> QED
      BY <3>4, <3>5 DEF WireInv
  <2> QED
    BY <2>2, <2>3
<1>5. ASSUME NEW s \in Sessions, CloseSession(s) PROVE WireInv'
  <2>1. /\ closing' = closing \ {s} /\ s \in closing /\ sess' = sess
        /\ requests' = Detached(s, requests)
        /\ responses' = {r \in responses : r.sess # s}
    BY <1>5 DEF CloseSession
  <2>2. \A k \in Calls : pc'[k] = pc[k]
    BY <1>5, <1>a DEF CloseSession, ClosingUnused
  <2>3. \A d \in requests' : d.sess # None => d \in requests /\ d.sess # s
    BY <1>a, <2>1, StillAttached DEF TypeOK
  <2>4. \A j \in Calls, t \in Sessions : Waits(j, t) => Waits(j, t)'
    BY <2>1, <2>2 DEF Waits
  <2>5. WireOwned'
    BY <1>a, <1>c, <2>1, <2>3, <2>4 DEF WireInv, WireOwned
  <2>6. WireSingle'
    BY <1>a, <1>c, <2>1, <2>3 DEF WireInv, WireSingle
  <2> QED
    BY <2>5, <2>6 DEF WireInv
<1>6. ASSUME NEW m \in requests, Execute(m) PROVE WireInv'
  <2>1. /\ UNCHANGED <<pc, sess, closing>> /\ requests' = requests \ {m}
        /\ responses' = IF m.sess = None THEN responses
                          ELSE responses \cup {[call |-> m.call, sess |-> m.sess]}
    BY <1>6 DEF Execute, callVars, poolVars
  <2>2. \A j \in Calls, t \in Sessions : Waits(j, t)' = Waits(j, t)
    BY <2>1 DEF Waits
  <2>3. WireOwned'
    BY <1>a, <1>c, <2>1, <2>2 DEF WireInv, WireOwned
  <2>4. WireSingle'
    BY <1>a, <1>c, <2>1 DEF WireInv, WireSingle
  <2> QED
    BY <2>3, <2>4 DEF WireInv
<1>7. ASSUME NEW s \in Sessions, Reset(s) PROVE WireInv'
  <2>1. UNCHANGED <<pc, sess, closing>> /\ responses' \subseteq responses
    BY <1>7 DEF Reset, callVars, poolVars
  <2>2. PICK lost \in SUBSET {m \in requests : m.sess = s} :
          requests' = Detached(s, requests \ lost)
    BY <1>7 DEF Reset
  <2>3. \A d \in requests' : d.sess # None => d \in requests
    <3>1. requests \ lost \in SUBSET Message
      BY <1>a DEF TypeOK
    <3> QED
      BY <2>2, <3>1, StillAttached
  <2>4. \A j \in Calls, t \in Sessions : Waits(j, t)' = Waits(j, t)
    BY <2>1 DEF Waits
  <2>5. WireOwned'
    BY <1>a, <1>c, <2>1, <2>3, <2>4 DEF WireInv, WireOwned
  <2>6. WireSingle'
    BY <1>a, <1>c, <2>1, <2>3 DEF WireInv, WireSingle
  <2> QED
    BY <2>5, <2>6 DEF WireInv
<1>8. CASE /\ UNCHANGED <<pc, sess, closing>>
           /\ requests' \subseteq requests /\ responses' \subseteq responses
  BY <1>8, <1>a, WireKept DEF Waits
<1> QED
  BY <1>1, <1>2, <1>3, <1>4, <1>5, <1>6, <1>7, <1>8
  DEF Next, Caller, Handler, Fault, Life, Crash, Restart, Run, StopContext,
      DrainPool, JoinWorkers, Release, callVars, poolVars, wireVars, vars

-----------------------------------------------------------------------------
(* What a call returns *)

LEMMA StepAnswers == SafetyInv /\ [Next]_vars => AnswersRun'
<1> SUFFICES ASSUME SafetyInv, [Next]_vars PROVE AnswersRun'
  OBVIOUS
<1>a. /\ pc \in [Calls -> Points]
      /\ result \in [Calls -> Calls \cup {None}]
      /\ execs \in [Calls -> Nat]
  BY DEF SafetyInv, TypeOK
<1>b. /\ \A r \in responses : r.call \in Calls /\ execs[r.call] > 0
      /\ \A k \in Calls : pc[k] \in {"put", "done"} => result[k] = k /\ execs[k] > 0
  BY DEF SafetyInv, TypeOK, Response, AnswersRun, OwnResponse
<1>1. ASSUME UNCHANGED <<execs, result>>, responses' \subseteq responses,
             \A j \in Calls : pc'[j] \in {"put", "done"} => pc[j] \in {"put", "done"}
      PROVE  AnswersRun'
  BY <1>1, <1>b DEF AnswersRun, OwnResponse
<1>2. ASSUME NEW k \in Calls, Start(k) \/ Caller(k) PROVE AnswersRun'
  <2>1. UNCHANGED <<execs, result, responses>>
    BY <1>2 DEF Start, Caller, GetSession, RefuseSession, MakeSession, Send,
                Retry, GiveUp, PutSession, wireVars, hostVars
  <2>2. \A j \in Calls : pc'[j] \in {"put", "done"} => pc[j] \in {"put", "done"}
    BY <1>2, <1>a DEF Start, Caller, GetSession, RefuseSession, MakeSession,
                      Send, Retry, GiveUp, PutSession, Throw
  <2> QED
    BY <1>1, <2>1, <2>2
<1>3. ASSUME NEW k \in Calls, OnConnect(k) \/ OnWrite(k) PROVE AnswersRun'
  <2>1. UNCHANGED <<execs, result, responses>>
    BY <1>3 DEF OnConnect, OnWrite, wireVars, hostVars
  <2>2. \A j \in Calls : pc'[j] \in {"put", "done"} => pc[j] \in {"put", "done"}
    BY <1>3, <1>a DEF OnConnect, OnWrite, SendFailed, Throw
  <2> QED
    BY <1>1, <2>1, <2>2
<1>4. ASSUME NEW k \in Calls, OnRead(k) PROVE AnswersRun'
  <2>1. UNCHANGED execs /\ responses' \subseteq responses /\ pc[k] = "read"
    BY <1>4 DEF OnRead, hostVars
  <2>2. CASE SendFailed(k) /\ UNCHANGED result
    BY <1>1, <1>a, <2>1, <2>2 DEF SendFailed
  <2>3. CASE \E r \in responses : /\ r.sess = sess[k]
                                  /\ pc' = [pc EXCEPT ![k] = "put"]
                                  /\ result' = [result EXCEPT ![k] = r.call]
    <3>1. PICK r \in responses : /\ r.sess = sess[k]
                                 /\ pc' = [pc EXCEPT ![k] = "put"]
                                 /\ result' = [result EXCEPT ![k] = r.call]
      BY <2>3
    <3>2. r.call = k
      BY <2>1, <3>1, ReadsOwn
    <3> QED
      BY <1>a, <1>b, <2>1, <3>1, <3>2 DEF AnswersRun, OwnResponse
  <2> QED
    BY <1>4, <2>2, <2>3 DEF OnRead
<1>5. ASSUME NEW s \in Sessions, CloseSession(s) PROVE AnswersRun'
  <2>1. UNCHANGED <<execs, result>> /\ responses' \subseteq responses
    BY <1>5 DEF CloseSession, hostVars
  <2>2. \A j \in Calls : pc'[j] \in {"put", "done"} => pc[j] \in {"put", "done"}
    BY <1>5 DEF CloseSession
  <2> QED
    BY <1>1, <2>1, <2>2
<1>6. ASSUME NEW m \in requests, Execute(m) PROVE AnswersRun'
  <2>1. /\ m.call \in Calls
        /\ UNCHANGED <<pc, result>>
        /\ execs' = [execs EXCEPT ![m.call] = @ + 1]
        /\ \A r \in responses' : r \in responses \/ r.call = m.call
    BY <1>6 DEF Execute, callVars, SafetyInv, TypeOK, Message
  <2>2. execs'[m.call] > 0 /\ \A k \in Calls : execs[k] > 0 => execs'[k] > 0
    BY <1>a, <2>1
  <2> QED
    BY <1>b, <2>1, <2>2 DEF AnswersRun, OwnResponse
<1>7. CASE UNCHANGED <<execs, result, pc>> /\ responses' \subseteq responses
  BY <1>1, <1>7
<1> QED
  BY <1>2, <1>3, <1>4, <1>5, <1>6, <1>7
  DEF Next, Handler, Fault, Life, Reset, Crash, Restart, Run, StopContext,
      DrainPool, JoinWorkers, Release, callVars, wireVars, hostVars, vars

-----------------------------------------------------------------------------
(* The safety theorems *)

LEMMA InitSafety == Init => SafetyInv
<1> SUFFICES ASSUME Init PROVE SafetyInv
  OBVIOUS
<1>1. TypeOK /\ LocalsSet
  BY InitType
<1>2. Pooled = {} /\ Len(pool) = 0
  BY DEF Init, Pooled
<1>3. ExclusiveSession /\ ClosingUnused
  BY <1>2 DEF Init, ExclusiveSession, ClosingUnused
<1>4. WireOwned /\ WireSingle /\ AnswersRun /\ NeverAborted
  BY DEF Init, WireOwned, WireSingle, AnswersRun, OwnResponse, NeverAborted
<1> QED
  BY <1>1, <1>3, <1>4 DEF SafetyInv

\* The invariant on which the theorems below rest holds in every behaviour.
THEOREM Safety == Spec => []SafetyInv
<1>1. SafetyInv /\ [Next]_vars => SafetyInv'
  BY StepType, StepLocals, StepExclusive, StepClosing, StepWire, StepAnswers,
     StepNeverAborted
  DEF SafetyInv, WireInv
<1> QED
  BY <1>1, InitSafety, PTL DEF Spec

\* No two calls ever share a session, and no session is both in the queue and
\* in use, however calls, failures and stop() interleave.
THEOREM SessionsExclusive == Spec => []ExclusiveSession
<1>1. SafetyInv => ExclusiveSession
  BY DEF SafetyInv
<1> QED
  BY <1>1, Safety, PTL

\* The session get_session() pops is clean: nothing is in flight on it and no
\* close is pending.
THEOREM PoolQuiet == Spec => []PooledQuiet
<1>1. SafetyInv => PooledQuiet
  <2> SUFFICES ASSUME SafetyInv, NEW s \in Pooled
               PROVE  /\ s \notin closing
                      /\ \A m \in requests : m.sess # s
                      /\ \A r \in responses : r.sess # s
    BY DEF PooledQuiet
  <2>1. s \in Sessions /\ s # None
    BY PoolAssumption DEF SafetyInv, TypeOK, Pooled
  <2>2. s \notin closing
    BY DEF SafetyInv, ClosingUnused
  <2>3. \A k \in Calls : ~Waits(k, s)
    BY DEF SafetyInv, ExclusiveSession, Waits
  <2>4. /\ \A m \in requests : m.call \in Calls
        /\ \A r \in responses : r.call \in Calls
    BY DEF SafetyInv, TypeOK, Message, Response
  <2> QED
    BY <2>1, <2>2, <2>3, <2>4 DEF SafetyInv, WireOwned
<1> QED
  BY <1>1, Safety, PTL

\* No socket is closed under a call: the branch of the handlers of send() that
\* returns without fulfilling the promise is never taken.
THEOREM NoCallAborted == Spec => []NeverAborted
<1>1. SafetyInv => NeverAborted
  BY DEF SafetyInv
<1> QED
  BY <1>1, Safety, PTL

\* What a call returns is the server's response to that call.
THEOREM ResponsesMatch == Spec => []OwnResponse
<1>1. SafetyInv => OwnResponse
  BY DEF SafetyInv, AnswersRun
<1> QED
  BY <1>1, Safety, PTL

-----------------------------------------------------------------------------
(* How often the server runs a call *)

\* Steps that send nothing and run nothing: pending requests may vanish, and no
\* call forgets a send.
LEMMA CountKept ==
  ASSUME TypeOK, CountInv,
         execs' = execs, requests' \in SUBSET Message,
         \A d \in requests' : \E m \in requests : d.call = m.call /\ d.try = m.try,
         \A d, e \in requests' : d.call = e.call /\ d.try = e.try => d = e,
         \A k \in Calls :
           /\ try'[k] \in {1, 2}
           /\ Sends(k)' >= Sends(k)
           /\ try[k] <= try'[k]
           /\ pc'[k] \in Unsent /\ try'[k] = try[k] => pc[k] \in Unsent
           /\ pc'[k] = "idle" => try'[k] = 1
  PROVE  CountInv'
<1>1. /\ try \in [Calls -> {1, 2}] /\ execs \in [Calls -> Nat]
      /\ \A m \in requests : m.call \in Calls /\ m.try \in {1, 2}
      /\ \A m \in requests' : m.call \in Calls /\ m.try \in {1, 2}
  BY DEF TypeOK, Message
<1>2. ASSUME NEW d \in requests'
      PROVE  d.try <= try'[d.call] /\ (d.try = try'[d.call] => pc'[d.call] \notin Unsent)
  <2>1. PICK m \in requests : d.call = m.call /\ d.try = m.try
    OBVIOUS
  <2>2. m.try <= try[m.call] /\ (m.try = try[m.call] => pc[m.call] \notin Unsent)
    BY DEF CountInv
  <2> HIDE DEF Unsent
  <2> QED
    BY <1>1, <2>1, <2>2
<1>3. ASSUME NEW k \in Calls
      PROVE  execs'[k] + Pending(k, 1)' + Pending(k, 2)' <= Sends(k)'
  <2>1. /\ Pending(k, 1)' \in 0..1 /\ Pending(k, 2)' \in 0..1
        /\ Pending(k, 1) \in 0..1 /\ Pending(k, 2) \in 0..1
    BY DEF Pending
  <2>2. Pending(k, 1)' <= Pending(k, 1)
    BY DEF Pending
  <2>3. Pending(k, 2)' <= Pending(k, 2)
    BY DEF Pending
  <2>4. Sends(k) \in Nat /\ Sends(k)' \in Nat
    BY <1>1 DEF Sends
  <2>5. execs[k] + Pending(k, 1) + Pending(k, 2) <= Sends(k) /\ execs[k] \in Nat
    BY <1>1 DEF CountInv
  <2> HIDE DEF Unsent
  <2> QED
    BY <2>1, <2>2, <2>3, <2>4, <2>5
<1>4. \A k \in Calls : pc'[k] = "idle" => try'[k] = 1
  OBVIOUS
<1> QED
  BY <1>2, <1>3, <1>4 DEF CountInv

LEMMA StepCount == SafetyInv /\ CountInv /\ [Next]_vars => CountInv'
<1> SUFFICES ASSUME SafetyInv, CountInv, [Next]_vars PROVE CountInv'
  OBVIOUS
<1>a. TypeOK /\ TypeOK'
  BY StepType DEF SafetyInv
<1>b. /\ pc \in [Calls -> Points] /\ try \in [Calls -> {1, 2}]
      /\ execs \in [Calls -> Nat] /\ requests \in SUBSET Message
      /\ requests' \in SUBSET Message /\ execs' \in [Calls -> Nat]
  BY <1>a DEF TypeOK
<1>c. \A m, n \in requests : m.call = n.call /\ m.try = n.try => m = n
  BY DEF CountInv
<1>d. ASSUME UNCHANGED try, UNCHANGED execs, requests' \subseteq requests,
             \A k \in Calls : (pc'[k] \in Unsent => pc[k] \in Unsent)
                             /\ (pc'[k] = "idle" => pc[k] = "idle")
      PROVE  CountInv'
  <2>1. \A k \in Calls : Sends(k)' >= Sends(k)
    BY <1>b, <1>d DEF Sends
  <2>2. \A k \in Calls : pc'[k] = "idle" => try'[k] = 1
    BY <1>d DEF CountInv
  <2> QED
    BY <1>a, <1>b, <1>c, <1>d, <2>1, <2>2, CountKept
<1>1. ASSUME NEW k \in Calls,
             \/ Start(k) \/ GetSession(k) \/ RefuseSession(k) \/ MakeSession(k)
             \/ GiveUp(k) \/ PutSession(k) \/ OnConnect(k) \/ OnWrite(k) \/ OnRead(k)
      PROVE  CountInv'
  <2>1. UNCHANGED <<try, execs, requests>>
    BY <1>1 DEF Start, GetSession, RefuseSession, MakeSession, GiveUp, PutSession,
                OnConnect, OnWrite, OnRead, wireVars, hostVars
  <2>2. \A j \in Calls : (pc'[j] \in Unsent => pc[j] \in Unsent)
                        /\ (pc'[j] = "idle" => pc[j] = "idle")
    BY <1>1, <1>b DEF Start, GetSession, RefuseSession, MakeSession, GiveUp,
                      PutSession, OnConnect, OnWrite, OnRead, Throw, SendFailed,
                      Unsent
  <2> QED
    BY <1>d, <2>1, <2>2
<1>2. ASSUME NEW k \in Calls, Retry(k) PROVE CountInv'
  <2>1. /\ UNCHANGED <<execs, requests>> /\ pc[k] = "caught" /\ try[k] = 1
        /\ pc' = [pc EXCEPT ![k] = "get"] /\ try' = [try EXCEPT ![k] = 2]
    BY <1>2 DEF Retry, wireVars, hostVars
  <2>2. \A j \in Calls :
          /\ Sends(j)' >= Sends(j)
          /\ try'[j] \in {1, 2} /\ try[j] <= try'[j]
          /\ pc'[j] \in Unsent /\ try'[j] = try[j] => pc[j] \in Unsent
          /\ pc'[j] = "idle" => try'[j] = 1
    BY <1>b, <2>1 DEF Sends, Unsent, CountInv
  <2> QED
    BY <1>a, <1>b, <1>c, <2>1, <2>2, CountKept
<1>3. ASSUME NEW k \in Calls, Send(k) PROVE CountInv'
  <2> DEFINE new == [call |-> k, try |-> try[k], sess |-> sess[k]]
  <2>1. /\ UNCHANGED <<execs, try>> /\ pc[k] = "send"
        /\ pc' = [pc EXCEPT ![k] = "write"]
        /\ requests' \subseteq requests \cup {new}
    BY <1>3 DEF Send, hostVars
  <2>2. new.call = k /\ new.try = try[k]
    OBVIOUS
  <2> HIDE DEF new
  <2>3. \A m \in requests : m.call = k => m.try < try[k]
    BY <1>b, <2>1 DEF CountInv, Unsent, Message
  <2>4. \A m \in requests' : m.try <= try'[m.call] /\ (m.try = try'[m.call] => pc'[m.call] \notin Unsent)
    BY <1>b, <2>1, <2>2 DEF CountInv, Unsent, Message
  <2>5. \A m, n \in requests' : m.call = n.call /\ m.try = n.try => m = n
    BY <1>b, <1>c, <2>1, <2>2, <2>3 DEF Message
  <2>6. ASSUME NEW j \in Calls
        PROVE  execs'[j] + Pending(j, 1)' + Pending(j, 2)' <= Sends(j)'
    <3>1. execs[j] + Pending(j, 1) + Pending(j, 2) <= Sends(j) /\ execs[j] \in Nat
      BY <1>b DEF CountInv
    <3>2. CASE j # k
      BY <2>1, <2>2, <3>1, <3>2, <1>b DEF Pending, Sends
    <3>3. CASE j = k
      <4>1. Sends(k) = try[k] - 1 /\ Sends(k)' = try[k]
        BY <1>b, <2>1 DEF Sends, Unsent
      <4>2. Pending(k, try[k]) = 0
        BY <1>b, <2>3 DEF Pending, Message
      <4>3. \A t \in {1, 2} : t # try[k] => Pending(k, t)' <= Pending(k, t)
        BY <2>1, <2>2 DEF Pending
      <4>4. \A t \in {1, 2} : Pending(k, t)' \in 0..1 /\ Pending(k, t) \in 0..1
        BY DEF Pending
      <4> QED
        BY <1>b, <2>1, <3>1, <3>3, <4>1, <4>2, <4>3, <4>4
    <3> QED
      BY <3>2, <3>3
  <2>7. \A j \in Calls : pc'[j] = "idle" => try'[j] = 1
    BY <1>b, <2>1 DEF CountInv
  <2> QED
    BY <2>4, <2>5, <2>6, <2>7 DEF CountInv
<1>4. ASSUME NEW s \in Sessions, CloseSession(s) \/ Reset(s) PROVE CountInv'
  <2>1. PICK kept \in SUBSET requests : requests' = Detached(s, kept)
    BY <1>4 DEF CloseSession, Reset
  <2>2. \A d \in requests' : \E m \in kept :
           d.call = m.call /\ d.try = m.try
           /\ (m.sess = s => d.sess = None) /\ (m.sess # s => d = m)
    BY <1>b, <2>1, DetachedMessages
  <2>3. \A d, e \in requests' : d.call = e.call /\ d.try = e.try => d = e
    BY <1>b, <1>c, <2>2 DEF Message
  <2>4. UNCHANGED <<try, execs>>
    BY <1>4 DEF CloseSession, Reset, callVars, hostVars
  <2>5. \A j \in Calls :
          /\ pc'[j] \in Unsent => pc[j] \in Unsent
          /\ pc'[j] = "idle" => pc[j] = "idle"
    BY <1>4 DEF CloseSession, Reset, callVars, Unsent
  <2>6. \A j \in Calls : Sends(j)' >= Sends(j)
    BY <1>b, <2>4, <2>5 DEF Sends
  <2>7. \A j \in Calls : pc'[j] = "idle" => try'[j] = 1
    BY <2>4, <2>5 DEF CountInv
  <2> QED
    BY <1>a, <1>b, <2>2, <2>3, <2>4, <2>5, <2>6, <2>7, CountKept
<1>5. ASSUME NEW m \in requests, Execute(m) PROVE CountInv'
  <2>1. /\ UNCHANGED <<pc, try>> /\ requests' = requests \ {m}
        /\ execs' = [execs EXCEPT ![m.call] = @ + 1]
        /\ m.call \in Calls /\ m.try \in {1, 2}
    BY <1>5, <1>b DEF Execute, callVars, Message
  <2>2. ASSUME NEW j \in Calls
        PROVE  execs'[j] + Pending(j, 1)' + Pending(j, 2)' <= Sends(j)'
    <3>1. execs[j] + Pending(j, 1) + Pending(j, 2) <= Sends(j) /\ execs[j] \in Nat
      BY <1>b DEF CountInv
    <3>2. Sends(j)' = Sends(j) /\ Sends(j) \in Nat
      BY <1>b, <2>1 DEF Sends
    <3>3. \A t \in {1, 2} : /\ Pending(j, t)' <= Pending(j, t)
                            /\ Pending(j, t)' \in 0..1 /\ Pending(j, t) \in 0..1
      BY <2>1 DEF Pending
    <3>4. CASE j # m.call
      BY <1>b, <2>1, <3>1, <3>2, <3>3, <3>4
    <3>5. CASE j = m.call
      <4>1. Pending(j, m.try) = 1 /\ Pending(j, m.try)' = 0
        BY <1>c, <2>1, <3>5 DEF Pending
      <4> QED
        BY <1>b, <2>1, <3>1, <3>2, <3>3, <3>5, <4>1
    <3> QED
      BY <3>4, <3>5
  <2> QED
    BY <2>1, <2>2 DEF CountInv
<1>6. CASE UNCHANGED <<pc, try, execs>> /\ requests' \subseteq requests
  BY <1>d, <1>6
<1> QED
  BY <1>1, <1>2, <1>3, <1>4, <1>5, <1>6
  DEF Next, Caller, Handler, Fault, Life, Crash, Restart, Run, StopContext,
      DrainPool, JoinWorkers, Release, callVars, wireVars, hostVars, vars

\* The server never runs a call more often than it was sent: once, or twice
\* after a retry.
THEOREM AtMostOncePerTry == Spec => []OncePerTry
<1>1. Init => CountInv
  BY DEF Init, CountInv, Pending, Sends, Unsent
<1>2. SafetyInv /\ CountInv /\ [Next]_vars => CountInv'
  BY StepCount
<1>3. SafetyInv /\ CountInv => OncePerTry
  <2> SUFFICES ASSUME SafetyInv, CountInv, NEW k \in Calls PROVE execs[k] <= try[k]
    BY DEF OncePerTry
  <2>1. try[k] \in {1, 2} /\ execs[k] \in Nat
    BY DEF SafetyInv, TypeOK
  <2>2. Pending(k, 1) \in 0..1 /\ Pending(k, 2) \in 0..1
    BY DEF Pending
  <2>3. execs[k] + Pending(k, 1) + Pending(k, 2) <= Sends(k)
    BY DEF CountInv
  <2> QED
    BY <2>1, <2>2, <2>3 DEF Sends
<1> QED
  BY <1>1, <1>2, <1>3, Safety, PTL DEF Spec

-----------------------------------------------------------------------------
(* The client implements RpcCalls *)

\* A call has a response only once it is about to return.
AnsweredInv == \A k \in Calls : result[k] # None => pc[k] \in {"put", "done"}

LEMMA StepAnswered == SafetyInv /\ AnsweredInv /\ [Next]_vars => AnsweredInv'
<1> SUFFICES ASSUME SafetyInv, AnsweredInv, [Next]_vars PROVE AnsweredInv'
  OBVIOUS
<1>a. pc \in [Calls -> Points] /\ result \in [Calls -> Calls \cup {None}]
  BY DEF SafetyInv, TypeOK
<1>1. ASSUME NEW k \in Calls, Start(k) \/ Caller(k) PROVE AnsweredInv'
  BY <1>1, <1>a DEF Start, Caller, GetSession, RefuseSession, MakeSession, Send,
                    Retry, GiveUp, PutSession, Throw, AnsweredInv
<1>2. ASSUME NEW k \in Calls, Handler(k) PROVE AnsweredInv'
  BY <1>2, <1>a DEF Handler, OnConnect, OnWrite, OnRead, SendFailed, Throw,
                    AnsweredInv
<1>3. ASSUME NEW s \in Sessions, CloseSession(s) PROVE AnsweredInv'
  BY <1>3, <1>a DEF CloseSession, AnsweredInv
<1>4. CASE UNCHANGED <<pc, result>>
  BY <1>4 DEF AnsweredInv
<1> QED
  BY <1>1, <1>2, <1>3, <1>4
  DEF Next, Fault, Life, Execute, Reset, Crash, Restart, Run, StopContext,
      DrainPool, JoinWorkers, Release, callVars, vars

Status == [k \in Calls |-> CallStatus(k)]

LEMMA StepRefines ==
  SafetyInv /\ CountInv /\ AnsweredInv /\ [Next]_vars
    => [Abstract!Next]_(Abstract!vars)
<1> SUFFICES ASSUME SafetyInv, CountInv, AnsweredInv, [Next]_vars
             PROVE  Abstract!Next \/ UNCHANGED <<Status, execs, result>>
  BY DEF Abstract!vars, Status
<1>a. /\ pc \in [Calls -> Points] /\ try \in [Calls -> {1, 2}]
      /\ result \in [Calls -> Calls \cup {None}] /\ execs \in [Calls -> Nat]
      /\ requests \subseteq Message
  BY DEF SafetyInv, TypeOK
<1>b. \A k \in Calls : pc'[k] = pc[k] => CallStatus(k)' = CallStatus(k)
  BY DEF CallStatus
<1>c. ASSUME \A k \in Calls : CallStatus(k)' = CallStatus(k)
      PROVE  UNCHANGED Status
  BY <1>c DEF Status
<1>d. ASSUME NEW k \in Calls, NEW st, CallStatus(k)' = st,
             \A j \in Calls : j # k => pc'[j] = pc[j]
      PROVE  Status' = [Status EXCEPT ![k] = st]
  BY <1>b, <1>d DEF Status
<1>e. \A k \in Calls : Status[k] = CallStatus(k)
  BY DEF Status
<1>1. ASSUME NEW k \in Calls, Start(k) PROVE Abstract!Next
  <2>1. /\ pc[k] = "idle" /\ UNCHANGED <<execs, result>>
        /\ pc' \in {[pc EXCEPT ![k] = "get"], [pc EXCEPT ![k] = "refused"]}
    BY <1>1 DEF Start, hostVars
  <2>2. CallStatus(k) = "idle" /\ CallStatus(k)' \in {"open", "raised"} /\ result[k] = None
    BY <1>a, <2>1 DEF CallStatus, AnsweredInv
  <2>3. Status' = [Status EXCEPT ![k] = CallStatus(k)']
    BY <1>a, <1>d, <2>1
  <2>4. Abstract!Begin(k) \/ Abstract!Raise(k)
    BY <1>e, <2>1, <2>2, <2>3 DEF Abstract!Begin, Abstract!Raise, Status
  <2> QED
    BY <2>4 DEF Abstract!Next
<1>2. ASSUME NEW k \in Calls,
             GetSession(k) \/ MakeSession(k) \/ Send(k) \/ Retry(k) \/ OnWrite(k)
      PROVE  UNCHANGED <<Status, execs, result>>
  <2>1. UNCHANGED <<execs, result>>
    BY <1>2 DEF GetSession, MakeSession, Send, Retry, OnWrite, hostVars
  <2>2. /\ pc[k] \in Points \ {"idle", "done", "failed", "refused"}
        /\ pc'[k] \in Points \ {"idle", "done", "failed", "refused"}
        /\ \A j \in Calls : j # k => pc'[j] = pc[j]
    BY <1>2, <1>a DEF GetSession, MakeSession, Send, Retry, OnWrite, SendFailed,
                      Points
  <2>3. CallStatus(k)' = CallStatus(k)
    BY <2>2 DEF CallStatus
  <2> QED
    BY <1>b, <1>c, <2>1, <2>2, <2>3
<1>3. ASSUME NEW k \in Calls,
             \/ RefuseSession(k) \/ GiveUp(k)
             \/ OnConnect(k) /\ Throw(k, "failed")
      PROVE  Abstract!Next
  <2>1. /\ pc[k] \in {"make", "caught", "connect"} /\ UNCHANGED <<execs, result>>
        /\ pc' \in {[pc EXCEPT ![k] = "failed"], [pc EXCEPT ![k] = "refused"]}
    BY <1>3 DEF RefuseSession, GiveUp, OnConnect, Throw, hostVars
  <2>2. CallStatus(k) = "open" /\ CallStatus(k)' = "raised" /\ result[k] = None
    BY <1>a, <2>1 DEF CallStatus, AnsweredInv
  <2>3. Status' = [Status EXCEPT ![k] = "raised"]
    BY <1>a, <1>d, <2>1, <2>2
  <2>4. Abstract!Raise(k)
    BY <1>e, <2>1, <2>2, <2>3 DEF Abstract!Raise, Status
  <2> QED
    BY <2>4 DEF Abstract!Next
<1>4. ASSUME NEW k \in Calls, OnConnect(k), pc' = [pc EXCEPT ![k] = "send"]
      PROVE  UNCHANGED <<Status, execs, result>>
  <2>1. pc[k] = "connect" /\ UNCHANGED <<execs, result>>
    BY <1>4 DEF OnConnect, hostVars
  <2>2. CallStatus(k)' = CallStatus(k)
    BY <1>4, <1>a, <2>1 DEF CallStatus
  <2> QED
    BY <1>4, <1>a, <1>b, <1>c, <2>1, <2>2
<1>5. ASSUME NEW k \in Calls, PutSession(k) PROVE Abstract!Next
  <2>1. /\ pc[k] = "put" /\ UNCHANGED <<execs, result>>
        /\ pc' = [pc EXCEPT ![k] = "done"]
    BY <1>5 DEF PutSession, hostVars
  <2>2. CallStatus(k) = "open" /\ CallStatus(k)' = "returned" /\ result[k] = k
    BY <1>a, <2>1 DEF CallStatus, SafetyInv, AnswersRun, OwnResponse
  <2>3. Status' = [Status EXCEPT ![k] = "returned"]
    BY <1>a, <1>d, <2>1, <2>2
  <2>4. Abstract!Return(k)
    BY <1>e, <2>1, <2>2, <2>3 DEF Abstract!Return, Status
  <2> QED
    BY <2>4 DEF Abstract!Next
<1>6. ASSUME NEW k \in Calls, OnRead(k)
      PROVE  Abstract!Next \/ UNCHANGED <<Status, execs, result>>
  <2>1. /\ pc[k] = "read" /\ UNCHANGED execs
        /\ pc' \in {[pc EXCEPT ![k] = "put"], [pc EXCEPT ![k] = "caught"]}
    BY <1>6 DEF OnRead, SendFailed, hostVars
  <2>2. CallStatus(k) = "open" /\ CallStatus(k)' = "open" /\ result[k] = None
    BY <1>a, <2>1 DEF CallStatus, AnsweredInv
  <2>3. UNCHANGED Status
    BY <1>a, <1>b, <1>c, <2>1, <2>2
  <2>4. CASE UNCHANGED result
    BY <2>1, <2>3, <2>4
  <2>5. CASE \E r \in responses : r.sess = sess[k] /\ result' = [result EXCEPT ![k] = r.call]
    <3>1. PICK r \in responses : r.sess = sess[k] /\ result' = [result EXCEPT ![k] = r.call]
      BY <2>5
    <3>2. r.call = k /\ execs[k] > 0
      BY <2>1, <3>1, ReadsOwn DEF SafetyInv, AnswersRun
    <3>3. Abstract!Answer(k)
      BY <1>e, <2>1, <2>2, <2>3, <3>1, <3>2 DEF Abstract!Answer, Status
    <3> QED
      BY <3>3 DEF Abstract!Next
  <2> QED
    BY <1>6, <2>4, <2>5 DEF OnRead
<1>7. ASSUME NEW s \in Sessions, CloseSession(s)
      PROVE  UNCHANGED <<Status, execs, result>>
  <2>1. UNCHANGED <<execs, result>> /\ \A k \in Calls : pc'[k] = pc[k]
    BY <1>7 DEF CloseSession, SafetyInv, ClosingUnused, hostVars
  <2> QED
    BY <1>b, <1>c, <2>1
<1>8. ASSUME NEW m \in requests, Execute(m) PROVE Abstract!Next
  <2>1. /\ m.call \in Calls /\ m.try \in {1, 2} /\ UNCHANGED <<pc, result>>
        /\ execs' = [execs EXCEPT ![m.call] = @ + 1]
    BY <1>8, <1>a DEF Execute, callVars, Message
  <2>2. UNCHANGED Status
    BY <1>b, <1>c, <2>1
  <2>3. execs[m.call] < 2
    <3>1. Pending(m.call, 1) + Pending(m.call, 2) > 0
      BY <2>1 DEF Pending
    <3>2. /\ Pending(m.call, 1) \in 0..1 /\ Pending(m.call, 2) \in 0..1
          /\ execs[m.call] \in Nat /\ try[m.call] \in {1, 2}
      BY <1>a, <2>1 DEF Pending
    <3>3. execs[m.call] + Pending(m.call, 1) + Pending(m.call, 2) <= Sends(m.call)
      BY <2>1 DEF CountInv
    <3>4. Sends(m.call) <= 2 /\ Sends(m.call) \in Nat
      BY <3>2 DEF Sends
    <3> QED
      BY <3>1, <3>2, <3>3, <3>4
  <2>4. CallStatus(m.call) # "idle"
    <3>1. pc[m.call] # "idle"
      BY <1>a, <2>1 DEF CountInv, Unsent
    <3> QED
      BY <3>1 DEF CallStatus
  <2>5. Abstract!Serve(m.call)
    BY <1>e, <2>1, <2>2, <2>3, <2>4 DEF Abstract!Serve, Status
  <2> QED
    BY <2>1, <2>5 DEF Abstract!Next
<1>9. CASE UNCHANGED <<pc, execs, result>>
  BY <1>9, <1>b, <1>c
<1>10. ASSUME NEW k \in Calls, OnConnect(k)
       PROVE  Throw(k, "failed") \/ pc' = [pc EXCEPT ![k] = "send"]
  BY <1>10 DEF OnConnect
<1> QED
  BY <1>1, <1>2, <1>3, <1>4, <1>5, <1>6, <1>7, <1>8, <1>9, <1>10
  DEF Next, Caller, Handler, Fault, Life, Reset, Crash, Restart, Run,
      StopContext, DrainPool, JoinWorkers, Release, callVars, hostVars, vars

\* Every behaviour of the client, seen through the status of its calls, is one
\* RpcCalls allows: pool, retry, failures and stop() add nothing to it.
THEOREM Refinement == Spec => ImplementsRpcCalls
<1>1. Init => Abstract!Init
  BY DEF Init, Abstract!Init, CallStatus
<1>2. Init => CountInv /\ AnsweredInv
  BY DEF Init, CountInv, Pending, Sends, Unsent, AnsweredInv
<1>3. SafetyInv /\ CountInv /\ [Next]_vars => CountInv'
  BY StepCount
<1>4. SafetyInv /\ AnsweredInv /\ [Next]_vars => AnsweredInv'
  BY StepAnswered
<1>5. SafetyInv /\ CountInv /\ AnsweredInv /\ [Next]_vars
        => [Abstract!Next]_(Abstract!vars)
  BY StepRefines
<1> QED
  BY <1>1, <1>2, <1>3, <1>4, <1>5, Safety, PTL
  DEF Spec, ImplementsRpcCalls, Abstract!Spec

=============================================================================
