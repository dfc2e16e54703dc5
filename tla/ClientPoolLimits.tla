-------------------------- MODULE ClientPoolLimits --------------------------
(***************************************************************************)
(* Four limits of ClientPool, proved for any number of calls, sessions and *)
(* threads: how many sessions the queue may hold, how many broken          *)
(* connections a call survives, what a call can wait for, and what is left *)
(* of the calls after a stop().  All but the last rest on SafetyInv.       *)
(***************************************************************************)
EXTENDS ClientPoolProofs, FiniteSetTheorems

-----------------------------------------------------------------------------
(* The queue never holds more sessions than there were concurrent calls. *)

\* The calls that run never outnumber the threads, and each of them that will
\* put a session back has left room for it.
LimitInv ==
  /\ IsFiniteSet(Active)
  /\ Cardinality(Active) <= Threads
  /\ PoolBound

LEMMA HoldersActive == Holders \subseteq Active
BY DEF Holders, Active, Ended

LEMMA InitLimit == Init => LimitInv
<1> SUFFICES ASSUME Init PROVE LimitInv
  OBVIOUS
<1>1. Active = {} /\ Holders = {} /\ Len(pool) = 0
  BY DEF Init, Active, Holders
<1> QED
  BY <1>1, FS_EmptySet, PoolAssumption DEF LimitInv, PoolBound

\* Steps that start no call, take no session out and put none back.
LEMMA FewerLimit ==
  ASSUME TypeOK, LimitInv, Active' \subseteq Active, Holders' \subseteq Holders,
         pool' = pool \/ pool' = <<>>
  PROVE  LimitInv'
<1>1. /\ IsFiniteSet(Active') /\ Cardinality(Active') <= Cardinality(Active)
      /\ Cardinality(Active) \in Nat /\ Cardinality(Active') \in Nat
  BY FS_Subset, FS_CardinalityType DEF LimitInv
<1>2. IsFiniteSet(Holders)
  BY HoldersActive, FS_Subset DEF LimitInv
<1>3. /\ Cardinality(Holders') <= Cardinality(Holders)
      /\ Cardinality(Holders) \in Nat /\ Cardinality(Holders') \in Nat
  BY <1>2, FS_Subset, FS_CardinalityType
<1>4. Len(pool) \in Nat /\ Len(pool') \in Nat /\ Len(pool') <= Len(pool)
  BY DEF TypeOK
<1> QED
  BY <1>1, <1>3, <1>4, PoolAssumption DEF LimitInv, PoolBound

\* A call starts if there is a thread for it.
LEMMA StartLimit == ASSUME TypeOK, LimitInv, NEW k \in Calls, Start(k) PROVE LimitInv'
<1>1. /\ Active' \subseteq Active \cup {k} /\ Holders' = Holders
      /\ pool' = pool /\ Cardinality(Active) < Threads
  BY DEF Start, TypeOK, Active, Holders, Ended, poolVars
<1>2. /\ IsFiniteSet(Active \cup {k}) /\ Cardinality(Active) \in Nat
      /\ Cardinality(Active \cup {k}) <= Cardinality(Active) + 1
  <2>1. IsFiniteSet(Active)
    BY DEF LimitInv
  <2>2. Cardinality(Active) \in Nat
    BY <2>1, FS_CardinalityType
  <2> QED
    BY <2>1, <2>2, FS_AddElement
<1>3. /\ IsFiniteSet(Active') /\ Cardinality(Active') <= Cardinality(Active \cup {k})
      /\ Cardinality(Active') \in Nat /\ Cardinality(Active \cup {k}) \in Nat
  BY <1>1, <1>2, FS_Subset, FS_CardinalityType
<1> QED
  BY <1>1, <1>2, <1>3, PoolAssumption DEF LimitInv, PoolBound

\* A call takes a session, or finds the queue empty and will make one.
LEMMA GetLimit == ASSUME TypeOK, LimitInv, NEW k \in Calls, GetSession(k) PROVE LimitInv'
<1>1. /\ Active' = Active /\ Holders' = Holders \cup {k}
      /\ k \notin Holders /\ k \in Active
  BY DEF GetSession, TypeOK, Active, Holders, Ended
<1>2. /\ IsFiniteSet(Holders) /\ Cardinality(Holders) \in Nat
      /\ Cardinality(Holders') = Cardinality(Holders) + 1
  BY <1>1, HoldersActive, FS_Subset, FS_AddElement, FS_CardinalityType DEF LimitInv
<1>3. CASE pool # <<>> /\ pool' = Tail(pool)
  <2>1. Len(pool) \in Nat /\ Len(pool') = Len(pool) - 1
    BY <1>3 DEF TypeOK
  <2> QED
    BY <1>1, <1>2, <2>1, PoolAssumption DEF LimitInv, PoolBound
<1>4. CASE pool = <<>> /\ pool' = pool
  <2>1. Holders' \subseteq Active
    BY <1>1, HoldersActive
  <2>2. /\ Cardinality(Holders') <= Cardinality(Active)
        /\ Cardinality(Active) \in Nat /\ Len(pool') = 0
    BY <1>4, <2>1, FS_Subset, FS_CardinalityType DEF LimitInv
  <2> QED
    BY <1>1, <1>2, <2>2, PoolAssumption DEF LimitInv, PoolBound
<1> QED
  BY <1>3, <1>4 DEF GetSession

\* A call puts its session back and is done.
LEMMA PutLimit == ASSUME TypeOK, LimitInv, NEW k \in Calls, PutSession(k) PROVE LimitInv'
<1>1. /\ Active' = Active \ {k} /\ Holders' = Holders \ {k}
      /\ k \in Holders
  BY DEF PutSession, TypeOK, Active, Holders, Ended
<1>2. /\ IsFiniteSet(Active') /\ Cardinality(Active') \in Nat
      /\ Cardinality(Active) \in Nat /\ Cardinality(Active') <= Cardinality(Active)
  BY <1>1, FS_Subset, FS_CardinalityType DEF LimitInv
<1>3. /\ IsFiniteSet(Holders) /\ Cardinality(Holders) \in Nat
      /\ Cardinality(Holders') = Cardinality(Holders) - 1
  BY <1>1, HoldersActive, FS_Subset, FS_RemoveElement, FS_CardinalityType DEF LimitInv
<1>4. Len(pool) \in Nat /\ Len(pool') = Len(pool) + 1
  BY DEF PutSession, TypeOK
<1> QED
  BY <1>2, <1>3, <1>4, PoolAssumption DEF LimitInv, PoolBound

LEMMA StepLimit == TypeOK /\ LimitInv /\ [Next]_vars => LimitInv'
<1> SUFFICES ASSUME TypeOK, LimitInv, [Next]_vars PROVE LimitInv'
  OBVIOUS
<1>1. ASSUME NEW k \in Calls,
             \/ RefuseSession(k) \/ MakeSession(k) \/ Send(k) \/ Retry(k) \/ GiveUp(k)
      PROVE  LimitInv'
  <2>1. Active' \subseteq Active /\ Holders' \subseteq Holders /\ pool' = pool
    BY <1>1 DEF TypeOK, RefuseSession, MakeSession, Send, Retry, GiveUp, Throw,
                Active, Holders, Ended, poolVars
  <2> QED
    BY <2>1, FewerLimit
<1>2. ASSUME NEW k \in Calls, Handler(k) PROVE LimitInv'
  <2>1. Active' \subseteq Active /\ Holders' \subseteq Holders /\ pool' = pool
    BY <1>2 DEF TypeOK, Handler, OnConnect, OnWrite, OnRead, SendFailed, Throw,
                Active, Holders, Ended
  <2> QED
    BY <2>1, FewerLimit
<1>3. ASSUME NEW s \in Sessions, CloseSession(s) PROVE LimitInv'
  <2>1. Active' \subseteq Active /\ Holders' \subseteq Holders /\ pool' = pool
    BY <1>3 DEF TypeOK, CloseSession, Active, Holders, Ended
  <2> QED
    BY <2>1, FewerLimit
<1>4. CASE pc' = pc /\ (pool' = pool \/ pool' = <<>>)
  BY <1>4, FewerLimit DEF Active, Holders
<1> QED
  BY <1>1, <1>2, <1>3, <1>4, StartLimit, GetLimit, PutLimit
  DEF Next, Caller, Fault, Life, Execute, Reset, Crash, Restart, Run,
      StopContext, DrainPool, JoinWorkers, Release, callVars, poolVars, vars

\* The session queue, which has no limit of its own, is bounded by the number
\* of threads that call at the same time, however the calls fail and retry.
THEOREM PoolIsBounded == Spec => []PoolBound
<1>1. LimitInv => PoolBound
  BY DEF LimitInv
<1> QED
  BY <1>1, InitLimit, StepLimit, TypeCorrect, PTL DEF Spec

-----------------------------------------------------------------------------
(* One broken connection is never seen by a caller. *)

\* The sessions a call may send on now or later without connecting.
InUse ==
  Pooled \cup {sess[k] : k \in {j \in Calls : pc[j] \in {"send", "write", "read", "put"}}}

\* The first send of k has failed.
SentInVain(k) == pc[k] = "caught" \/ try[k] = 2

\* Of the sessions in use one at most is broken, and none once a call has met
\* the broken one: the second send of that call cannot fail.
MaskInv ==
  resets <= 1 /\ crashes = 0 =>
    /\ up
    /\ \A s \in InUse : sock[s] \in {"open", "broken"}
    /\ \A s \in InUse : sock[s] = "broken" => resets = 1
    /\ \A s, t \in InUse : sock[s] = "broken" /\ sock[t] = "broken" => s = t
    /\ \A k \in Calls \ Oversized :
         /\ SentInVain(k) => resets = 1 /\ \A s \in InUse : sock[s] = "open"
         /\ try[k] = 2 => pc[k] # "caught"
         /\ pc[k] # "failed"

LEMMA InitMask == Init => MaskInv
<1> SUFFICES ASSUME Init PROVE MaskInv
  OBVIOUS
<1>1. InUse = {}
  BY DEF Init, InUse, Pooled
<1> QED
  BY <1>1 DEF Init, MaskInv, SentInVain

\* Steps that take no new session into use and fail no send.
LEMMA KeptMask ==
  ASSUME MaskInv, UNCHANGED <<resets, crashes, try>>, up => up',
         InUse' \subseteq InUse, \A s \in InUse' : sock'[s] = sock[s],
         \A k \in Calls : pc'[k] \in {"caught", "failed"} => pc'[k] = pc[k]
  PROVE  MaskInv'
<1> SUFFICES ASSUME (resets <= 1 /\ crashes = 0)'
             PROVE  /\ up'
                    /\ \A s \in InUse' : /\ sock'[s] \in {"open", "broken"}
                                         /\ sock'[s] = "broken" => resets' = 1
                    /\ \A s, t \in InUse' :
                         sock'[s] = "broken" /\ sock'[t] = "broken" => s = t
                    /\ \A k \in Calls \ Oversized :
                         /\ SentInVain(k)' =>
                              resets' = 1 /\ \A s \in InUse' : sock'[s] = "open"
                         /\ try'[k] = 2 => pc'[k] # "caught"
                         /\ pc'[k] # "failed"
  BY DEF MaskInv
<1>1. resets <= 1 /\ crashes = 0
  OBVIOUS
<1>2. \A k \in Calls : SentInVain(k)' => SentInVain(k)
  BY DEF SentInVain
<1> QED
  BY <1>1, <1>2 DEF MaskInv

\* A send fails.
LEMMA FailedMask ==
  ASSUME SafetyInv, MaskInv, NEW k \in Calls, SendFailed(k),
         pc[k] \in {"write", "read"}, sock[sess[k]] # "open" \/ k \in Oversized,
         UNCHANGED <<try, sess, pool, sock, up, resets, crashes>>
  PROVE  MaskInv'
<1>1. SUFFICES ASSUME resets <= 1, crashes = 0 PROVE MaskInv'
  BY DEF MaskInv
<1>2. pc \in [Calls -> Points] /\ try \in [Calls -> {1, 2}] /\ sess[k] # None
  BY DEF SafetyInv, TypeOK, LocalsSet
<1>3. pc' = [pc EXCEPT ![k] = "caught"]
  BY DEF SendFailed
<1>4. sess[k] \in InUse
  BY DEF InUse
<1>5. InUse' = InUse \ {sess[k]}
  <2>1. Pooled' = Pooled /\ sess[k] \notin Pooled
    BY DEF Pooled, SafetyInv, ExclusiveSession
  <2>2. \A j \in Calls : j # k => sess[j] # sess[k] /\ pc'[j] = pc[j]
    BY <1>2, <1>3 DEF SafetyInv, ExclusiveSession
  <2> QED
    BY <1>2, <1>3, <2>1, <2>2 DEF InUse
<1>6. CASE k \in Oversized
  <2>1. \A j \in Calls \ Oversized : pc'[j] = pc[j] /\ (SentInVain(j)' <=> SentInVain(j))
    BY <1>2, <1>3, <1>6 DEF SentInVain
  <2> QED
    BY <1>1, <1>5, <2>1 DEF MaskInv
<1>7. CASE k \notin Oversized
  <2>1. sock[sess[k]] = "broken" /\ resets = 1 /\ up
    BY <1>1, <1>4, <1>7 DEF MaskInv
  <2>2. \A s \in InUse' : sock'[s] = "open"
    BY <1>1, <1>4, <1>5, <2>1 DEF MaskInv
  <2>3. try[k] # 2
    BY <1>1, <1>4, <1>7, <2>1 DEF MaskInv, SentInVain
  <2>4. \A j \in Calls \ Oversized : /\ try'[j] = 2 => pc'[j] # "caught"
                                     /\ pc'[j] # "failed"
    BY <1>1, <1>2, <1>3, <2>3 DEF MaskInv
  <2> QED
    BY <1>1, <2>1, <2>2, <2>4 DEF MaskInv
<1> QED
  BY <1>6, <1>7

\* Getting, putting back and giving up sessions.
LEMMA CallerMask == ASSUME SafetyInv, MaskInv, NEW k \in Calls, Start(k) \/ Caller(k)
                    PROVE  MaskInv'
<1>1. /\ pc \in [Calls -> Points] /\ try \in [Calls -> {1, 2}]
      /\ sess \in [Calls -> Sessions \cup {None}]
      /\ sock \in [Sessions -> {"closed", "open", "broken"}]
      /\ TypeOK /\ ExclusiveSession /\ LocalsSet
  BY DEF SafetyInv, TypeOK
<1>2. UNCHANGED <<resets, crashes, up>>
  BY DEF Start, Caller, GetSession, RefuseSession, MakeSession, Send, Retry, GiveUp,
         PutSession, faultVars, hostVars
<1>3. CASE Start(k) \/ Send(k) \/ RefuseSession(k)
  <2>1. /\ UNCHANGED <<try, pool, sock>>
        /\ \A j \in Calls : pc'[j] \in {"caught", "failed"} => pc'[j] = pc[j]
    BY <1>1, <1>3 DEF Start, Send, RefuseSession, Throw, poolVars, wireVars
  <2>2. InUse' \subseteq InUse
    BY <1>1, <1>3 DEF Start, Send, RefuseSession, Throw, InUse, Pooled, poolVars
  <2> QED
    BY <1>2, <2>1, <2>2, KeptMask
<1>4. CASE GetSession(k)
  <2>1. /\ UNCHANGED <<try, sock>>
        /\ \A j \in Calls : pc'[j] \in {"caught", "failed"} => pc'[j] = pc[j]
    BY <1>1, <1>4 DEF GetSession, wireVars
  <2>2. InUse' \subseteq InUse
    <3>1. CASE pool # <<>> /\ pool' = Tail(pool) /\ sess' = [sess EXCEPT ![k] = Head(pool)]
      <4>1. Head(pool) \in Pooled /\ Pooled' \subseteq Pooled
        BY <1>1, <3>1, PoppedPool
      <4> QED
        BY <1>1, <1>4, <3>1, <4>1 DEF GetSession, InUse
    <3>2. CASE UNCHANGED <<sess, pool>> /\ pc' = [pc EXCEPT ![k] = "make"]
      BY <1>1, <3>2 DEF InUse, Pooled
    <3> QED
      BY <1>4, <3>1, <3>2 DEF GetSession
  <2> QED
    BY <1>2, <2>1, <2>2, KeptMask
<1>5. CASE MakeSession(k)
  <2>1. /\ UNCHANGED <<try, pool, sess>> /\ pc' = [pc EXCEPT ![k] = "connect"]
        /\ \E s \in Free : sock' = [sock EXCEPT ![s] = "closed"]
    BY <1>5 DEF MakeSession, poolVars
  <2>2. InUse' \subseteq InUse
    BY <1>1, <2>1 DEF InUse, Pooled
  <2>3. \A s \in InUse : s \notin Free
    BY DEF InUse, Free
  <2>4. InUse \subseteq Sessions \cup {None}
    BY <1>1 DEF TypeOK, InUse, Pooled
  <2>5. \A s \in InUse' : sock'[s] = sock[s]
    BY <1>1, <2>1, <2>2, <2>3, <2>4
  <2> QED
    BY <1>1, <1>2, <2>1, <2>2, <2>5, KeptMask
<1>6. CASE Retry(k)
  <2>1. /\ pc[k] = "caught" /\ pc' = [pc EXCEPT ![k] = "get"]
        /\ try' = [try EXCEPT ![k] = 2] /\ UNCHANGED <<sess, pool, sock>>
    BY <1>6 DEF Retry, poolVars, wireVars
  <2>2. InUse' = InUse
    BY <1>1, <2>1 DEF InUse, Pooled
  <2>3. \A j \in Calls : j # k => pc'[j] = pc[j] /\ try'[j] = try[j]
    BY <1>1, <2>1
  <2>4. pc'[k] = "get" /\ SentInVain(k)
    BY <1>1, <2>1 DEF SentInVain
  <2>5. \A j \in Calls : SentInVain(j)' => SentInVain(j)
    BY <2>3, <2>4 DEF SentInVain
  <2> QED
    BY <1>2, <2>1, <2>2, <2>3, <2>4, <2>5 DEF MaskInv
<1>7. CASE GiveUp(k)
  <2>1. /\ pc[k] = "caught" /\ try[k] = 2 /\ pc' = [pc EXCEPT ![k] = "failed"]
        /\ sess' = [sess EXCEPT ![k] = None] /\ UNCHANGED <<try, pool, sock>>
    BY <1>7 DEF GiveUp, Throw, wireVars
  <2>2. InUse' \subseteq InUse
    BY <1>1, <2>1 DEF InUse, Pooled
  <2>3. \A j \in Calls : /\ SentInVain(j)' => SentInVain(j)
                         /\ pc'[j] = "caught" => pc[j] = "caught"
                         /\ j # k => pc'[j] = pc[j]
    BY <1>1, <2>1 DEF SentInVain
  <2>4. resets <= 1 /\ crashes = 0 => k \in Oversized
    BY <2>1 DEF MaskInv
  <2> QED
    BY <1>2, <2>1, <2>2, <2>3, <2>4 DEF MaskInv
<1>8. CASE PutSession(k)
  <2>1. /\ pc[k] = "put" /\ pc' = [pc EXCEPT ![k] = "done"]
        /\ pool' = Append(pool, sess[k]) /\ sess' = [sess EXCEPT ![k] = None]
        /\ UNCHANGED <<try, sock>>
    BY <1>8 DEF PutSession, wireVars
  <2>2. sess[k] \in Sessions /\ sess[k] \notin Pooled
    BY <1>1, <2>1 DEF LocalsSet, ExclusiveSession
  <2>3. Pooled' = Pooled \cup {sess[k]}
    BY <1>1, <2>1, <2>2, PushedPool
  <2>4. InUse' \subseteq InUse
    BY <1>1, <2>1, <2>3 DEF InUse
  <2> QED
    BY <1>1, <1>2, <2>1, <2>4, KeptMask
<1> QED
  BY <1>3, <1>4, <1>5, <1>6, <1>7, <1>8 DEF Caller

\* Connecting, writing and reading.
LEMMA HandlerMask == ASSUME SafetyInv, MaskInv, NEW k \in Calls, Handler(k)
                     PROVE  MaskInv'
<1>1. /\ pc \in [Calls -> Points] /\ sess \in [Calls -> Sessions \cup {None}]
      /\ fresh \in [Calls -> Sessions \cup {None}]
      /\ sock \in [Sessions -> {"closed", "open", "broken"}]
      /\ TypeOK /\ ExclusiveSession /\ LocalsSet
  BY DEF SafetyInv, TypeOK
<1>2. UNCHANGED <<resets, crashes, up, try, pool>>
  BY DEF Handler, OnConnect, OnWrite, OnRead, faultVars, hostVars
<1>3. CASE OnConnect(k)
  <2>1. SUFFICES ASSUME resets <= 1, crashes = 0 PROVE MaskInv'
    BY <1>2 DEF MaskInv
  <2>2. /\ pc' = [pc EXCEPT ![k] = "send"] /\ sess' = [sess EXCEPT ![k] = fresh[k]]
        /\ sock' = [sock EXCEPT ![fresh[k]] = "open"] /\ pc[k] = "connect"
    BY <1>3, <2>1 DEF OnConnect, MaskInv
  <2>3. fresh[k] \in Sessions
    BY <1>1, <2>2 DEF LocalsSet
  <2>4. InUse \subseteq Sessions /\ fresh[k] \notin InUse
    <3>1. Pooled \subseteq Sessions /\ fresh[k] \notin Pooled
      BY <1>1 DEF TypeOK, Pooled, ExclusiveSession
    <3>2. \A j \in Calls : pc[j] \in {"send", "write", "read", "put"} =>
            sess[j] \in Sessions /\ sess[j] # fresh[k]
      BY <1>1 DEF LocalsSet, ExclusiveSession
    <3> QED
      BY <3>1, <3>2 DEF InUse
  <2>5. InUse' \subseteq InUse \cup {fresh[k]}
    BY <1>1, <1>2, <2>2 DEF InUse, Pooled
  <2>6. sock'[fresh[k]] = "open" /\ \A s \in InUse : sock'[s] = sock[s]
    BY <1>1, <2>2, <2>3, <2>4
  <2>7. \A j \in Calls : /\ SentInVain(j)' => SentInVain(j)
                         /\ pc'[j] \in {"caught", "failed"} => pc'[j] = pc[j]
    BY <1>1, <1>2, <2>2 DEF SentInVain
  <2> QED
    BY <1>2, <2>1, <2>5, <2>6, <2>7 DEF MaskInv
<1>4. CASE pc[k] \in {"write", "read"} /\ pc' \in {[pc EXCEPT ![k] = p] : p \in {"read", "put"}}
           /\ UNCHANGED <<sess, sock>>
  <2>1. InUse' \subseteq InUse
    BY <1>1, <1>2, <1>4 DEF InUse, Pooled
  <2>2. \A j \in Calls : pc'[j] \in {"caught", "failed"} => pc'[j] = pc[j]
    BY <1>1, <1>4
  <2> QED
    BY <1>2, <1>4, <2>1, <2>2, KeptMask
<1>5. CASE SendFailed(k) /\ pc[k] \in {"write", "read"} /\ UNCHANGED <<sess, sock>>
           /\ (sock[sess[k]] # "open" \/ k \in Oversized)
  BY <1>2, <1>5, FailedMask
<1>6. ASSUME OnWrite(k) PROVE MaskInv'
  BY <1>4, <1>5, <1>6 DEF OnWrite, wireVars
<1>7. ASSUME OnRead(k) PROVE MaskInv'
  <2>1. \A r \in responses : r.sess = sess[k] => r.call = k
    BY <1>7, ReadsOwn DEF OnRead
  <2> QED
    BY <1>4, <1>5, <1>7, <2>1 DEF OnRead
<1> QED
  BY <1>3, <1>6, <1>7 DEF Handler

\* Closes, the server and the network.
LEMMA OutsideMask ==
  ASSUME SafetyInv, MaskInv,
         \/ \E s \in Sessions : CloseSession(s)
         \/ \E m \in requests : Execute(m)
         \/ Fault
  PROVE  MaskInv'
<1>1. /\ pc \in [Calls -> Points] /\ sess \in [Calls -> Sessions \cup {None}]
      /\ sock \in [Sessions -> {"closed", "open", "broken"}]
      /\ resets \in Nat /\ crashes \in Nat
      /\ ClosingUnused /\ TypeOK /\ LocalsSet
  BY DEF SafetyInv, TypeOK
<1>2. InUse \subseteq Sessions
  BY <1>1 DEF TypeOK, LocalsSet, InUse, Pooled
<1>3. ASSUME NEW s \in Sessions, CloseSession(s) PROVE MaskInv'
  <2>1. /\ UNCHANGED <<resets, crashes, try, up, pool, sess>> /\ s \in closing
        /\ sock' = [sock EXCEPT ![s] = "closed"] \/ sock' = sock
        /\ pc' \in [Calls -> Points]
        /\ \A j \in Calls : pc'[j] \in {pc[j], "aborted"}
    BY <1>1, <1>3 DEF CloseSession, faultVars, hostVars, Points
  <2>2. InUse' \subseteq InUse
    BY <2>1 DEF InUse, Pooled
  <2>3. s \notin InUse
    BY <1>1, <2>1 DEF InUse, ClosingUnused
  <2>4. \A t \in InUse' : sock'[t] = sock[t]
    BY <1>1, <1>2, <2>1, <2>2, <2>3
  <2> QED
    BY <2>1, <2>2, <2>4, KeptMask
<1>4. ASSUME NEW m \in requests, Execute(m) PROVE MaskInv'
  <2>1. UNCHANGED <<resets, crashes, try, up, pool, sess, pc, sock>>
    BY <1>4 DEF Execute, callVars, poolVars, faultVars
  <2> QED
    BY <2>1, KeptMask DEF InUse, Pooled
<1>5. CASE Restart
  <2>1. UNCHANGED <<resets, crashes, try, pool, sess, pc, sock>> /\ up'
    BY <1>5 DEF Restart, callVars, poolVars, wireVars, faultVars
  <2> QED
    BY <2>1, KeptMask DEF InUse, Pooled
<1>6. CASE Crash
  BY <1>1, <1>6 DEF Crash, MaskInv
<1>7. ASSUME NEW s \in Sessions, Reset(s) PROVE MaskInv'
  <2>1. /\ UNCHANGED <<crashes, try, up, pool, sess, pc>> /\ resets' = resets + 1
        /\ sock' = [sock EXCEPT ![s] = "broken"]
    BY <1>7 DEF Reset, callVars, poolVars, hostVars
  <2>2. SUFFICES ASSUME resets = 0, crashes = 0 PROVE MaskInv'
    BY <1>1, <2>1 DEF MaskInv
  <2>3. InUse' = InUse /\ \A k \in Calls : SentInVain(k)' <=> SentInVain(k)
    BY <2>1 DEF InUse, Pooled, SentInVain
  <2>4. \A t \in InUse : sock[t] = "open" /\ (t # s => sock'[t] = "open")
    BY <1>1, <1>2, <2>1, <2>2 DEF MaskInv
  <2>5. \A t \in InUse : sock'[t] \in {"open", "broken"} /\ (sock'[t] = "broken" => t = s)
    BY <1>1, <1>2, <2>1, <2>4
  <2>6. \A k \in Calls \ Oversized : ~SentInVain(k)
    BY <2>2 DEF MaskInv
  <2> QED
    BY <2>1, <2>2, <2>3, <2>5, <2>6 DEF MaskInv, SentInVain
<1> QED
  BY <1>3, <1>4, <1>5, <1>6, <1>7 DEF Fault

LEMMA LifeMask == ASSUME SafetyInv, MaskInv, Life \/ UNCHANGED vars PROVE MaskInv'
<1>1. UNCHANGED <<resets, crashes, try, up, sess, pc>>
  BY DEF Life, Run, StopContext, DrainPool, JoinWorkers, Release, callVars, faultVars,
         hostVars, vars
<1>2. CASE UNCHANGED <<pool, sock>>
  BY <1>1, <1>2, KeptMask DEF InUse, Pooled
<1>3. CASE DrainPool
  <2>1. /\ pool' = <<>>
        /\ sock' = [s \in Sessions |-> IF s \in Pooled THEN "closed" ELSE sock[s]]
    BY <1>3 DEF DrainPool
  <2>2. Pooled' = {}
    BY <2>1 DEF Pooled
  <2>3. InUse' \subseteq InUse /\ InUse' \subseteq Sessions
    BY <1>1, <2>2 DEF InUse, SafetyInv, TypeOK, LocalsSet
  <2>4. \A s \in InUse' : s \notin Pooled
    BY <1>1, <2>2 DEF InUse, SafetyInv, ExclusiveSession
  <2> QED
    BY <1>1, <2>1, <2>3, <2>4, KeptMask
<1> QED
  BY <1>2, <1>3 DEF Life, Run, StopContext, JoinWorkers, Release, poolVars, wireVars, vars

\* A caller never learns of a single dropped connection, whatever the other calls
\* are doing: the retry finds none but sound sessions.
THEOREM ResetMasked == Spec => []OneResetIsMasked
<1>1. SafetyInv /\ MaskInv /\ [Next]_vars => MaskInv'
  BY CallerMask, HandlerMask, OutsideMask, LifeMask DEF Next
<1>2. SafetyInv /\ MaskInv => OneResetIsMasked
  BY DEF MaskInv, OneResetIsMasked, SafetyInv, TypeOK
<1> QED
  BY <1>1, <1>2, InitMask, Safety, PTL DEF Spec

-----------------------------------------------------------------------------
(* What a call waits for is on its way. *)

\* A connection is open only while the server is there.
ServerUp == \A s \in Sessions : sock[s] = "open" => up

WaitInv == ServerUp /\ NoVainWait

\* Call k waits on a sound connection, and the server has its request or has
\* answered it.
Listens(k) == pc[k] \in {"write", "read"} /\ sock[sess[k]] = "open"

Asked(k) ==
  \/ \E m \in requests : m.call = k /\ m.sess = sess[k]
  \/ \E r \in responses : r.call = k /\ r.sess = sess[k]

LEMMA WaitInvCalls ==
  ASSUME SafetyInv
  PROVE  /\ \A k \in Calls : Listens(k) => sess[k] \in Sessions /\ sess[k] # None
         /\ WaitInv <=> ServerUp /\ \A k \in Calls : Listens(k) => Asked(k)
<1>1. \A k \in Calls : Listens(k) => sess[k] \in Sessions /\ sess[k] # None
  BY DEF Listens, SafetyInv, TypeOK, LocalsSet
<1> QED
  BY <1>1 DEF WaitInv, ServerUp, NoVainWait, Listens, Asked

LEMMA WaitInvNext ==
  ASSUME SafetyInv', ServerUp', \A k \in Calls : Listens(k)' => Asked(k)'
  PROVE  WaitInv'
<1>1. \A k \in Calls : Listens(k)' => sess'[k] \in Sessions
  BY DEF Listens, SafetyInv, TypeOK, LocalsSet
<1> QED
  BY <1>1 DEF WaitInv, ServerUp, NoVainWait, Listens, Asked

\* Only the requests of its own connection are detached from it.
LEMMA StaysAttached ==
  ASSUME NEW s, NEW reqs, NEW m \in reqs, m.sess # s
  PROVE  m \in Detached(s, reqs)
<1>1. m = IF m.sess = s THEN [m EXCEPT !.sess = None] ELSE m
  OBVIOUS
<1> QED
  BY <1>1, Zenon DEF Detached

\* Steps that take no message from a connection some call listens to.
LEMMA KeptWait ==
  ASSUME SafetyInv, SafetyInv', WaitInv, ServerUp',
         \A j \in Calls : Listens(j)' => Listens(j) /\ sess'[j] = sess[j],
         \A j \in Calls : Listens(j)' =>
           /\ \A m \in requests : m.sess = sess[j] => m \in requests'
           /\ \A r \in responses : r.sess = sess[j] => r \in responses'
  PROVE  WaitInv'
<1>1. ASSUME NEW j \in Calls, Listens(j)' PROVE Asked(j)'
  <2>1. Asked(j) /\ sess'[j] = sess[j]
    BY <1>1, WaitInvCalls
  <2> QED
    BY <1>1, <2>1 DEF Asked
<1> QED
  BY <1>1, WaitInvNext

LEMMA CallerWait ==
  ASSUME SafetyInv, SafetyInv', WaitInv, NEW k \in Calls,
         Start(k) \/ Caller(k)
  PROVE  WaitInv'
<1>a. /\ pc \in [Calls -> Points] /\ sess \in [Calls -> Sessions \cup {None}]
      /\ sock \in [Sessions -> {"closed", "open", "broken"}]
  BY DEF SafetyInv, TypeOK
<1>1. CASE \/ Start(k) \/ GetSession(k) \/ RefuseSession(k)
           \/ Retry(k) \/ GiveUp(k) \/ PutSession(k)
  <2>1. UNCHANGED <<wireVars, up>> /\ pc'[k] \notin {"write", "read"}
    BY <1>1, <1>a DEF Start, GetSession, RefuseSession, Retry, GiveUp,
                      PutSession, Throw, hostVars
  <2>2. \A j \in Calls : j # k => pc'[j] = pc[j] /\ sess'[j] = sess[j]
    BY <1>1, <1>a DEF Start, GetSession, RefuseSession, Retry, GiveUp,
                      PutSession, Throw
  <2>3. ServerUp'
    BY <2>1 DEF WaitInv, ServerUp, wireVars
  <2> QED
    BY <2>1, <2>2, <2>3, KeptWait DEF Listens, wireVars
<1>2. CASE MakeSession(k)
  <2>1. PICK s \in Free : sock' = [sock EXCEPT ![s] = "closed"]
    BY <1>2 DEF MakeSession
  <2>2. UNCHANGED <<sess, requests, responses, up>> /\ pc' = [pc EXCEPT ![k] = "connect"]
    BY <1>2 DEF MakeSession, hostVars
  <2>3. ServerUp'
    BY <1>a, <2>1, <2>2 DEF WaitInv, ServerUp, Free
  <2>4. \A j \in Calls : Listens(j)' => Listens(j)
    BY <1>a, <2>1, <2>2 DEF Listens, Free
  <2> QED
    BY <2>2, <2>3, <2>4, KeptWait
<1>3. CASE Send(k)
  <2> DEFINE new == [call |-> k, try |-> try[k], sess |-> sess[k]]
  <2>1. /\ UNCHANGED <<sess, sock, responses, up>>
        /\ pc' = [pc EXCEPT ![k] = "write"]
        /\ requests' = IF sock[sess[k]] = "open" THEN requests \cup {new} ELSE requests
    BY <1>3 DEF Send, hostVars
  <2>2. new.call = k /\ new.sess = sess[k]
    OBVIOUS
  <2> HIDE DEF new
  <2>3. ServerUp'
    BY <2>1 DEF WaitInv, ServerUp
  <2>4. ASSUME NEW j \in Calls, Listens(j)' PROVE Asked(j)'
    <3>1. CASE j = k
      BY <1>a, <2>1, <2>2, <2>4, <3>1 DEF Listens, Asked
    <3>2. CASE j # k
      <4>1. Listens(j)
        BY <1>a, <2>1, <2>4, <3>2 DEF Listens
      <4>2. Asked(j)
        BY <4>1, WaitInvCalls
      <4> QED
        BY <2>1, <4>2 DEF Asked
    <3> QED
      BY <3>1, <3>2
  <2> QED
    BY <2>3, <2>4, WaitInvNext
<1> QED
  BY <1>1, <1>2, <1>3 DEF Caller

LEMMA HandlerWait ==
  ASSUME SafetyInv, SafetyInv', WaitInv, NEW k \in Calls, Handler(k)
  PROVE  WaitInv'
<1>a. /\ pc \in [Calls -> Points] /\ sess \in [Calls -> Sessions \cup {None}]
      /\ sock \in [Sessions -> {"closed", "open", "broken"}]
  BY DEF SafetyInv, TypeOK
<1>b. \A j \in Calls : j # k => pc'[j] = pc[j] /\ sess'[j] = sess[j]
  BY <1>a DEF Handler, OnConnect, OnWrite, OnRead, Throw, SendFailed
<1>1. CASE OnConnect(k)
  <2>1. /\ UNCHANGED <<requests, responses, up>>
        /\ \/ up /\ sock' = [sock EXCEPT ![fresh[k]] = "open"]
           \/ sock' = sock
        /\ pc'[k] \notin {"write", "read"}
    BY <1>1, <1>a DEF OnConnect, Throw, hostVars
  <2>2. ServerUp'
    BY <1>a, <2>1 DEF WaitInv, ServerUp
  <2>3. \A j \in Calls : Listens(j)' => Listens(j) /\ sess'[j] = sess[j]
    <3> SUFFICES ASSUME NEW j \in Calls, Listens(j)'
                 PROVE  Listens(j) /\ sess'[j] = sess[j]
      OBVIOUS
    <3>1. j # k /\ pc'[j] = pc[j] /\ sess'[j] = sess[j]
      BY <1>b, <2>1 DEF Listens
    <3>2. sess[j] # None /\ sess[j] # fresh[k] /\ sess[j] \in Sessions
      BY <1>a, <3>1, WaitInvCalls DEF Listens, SafetyInv, ExclusiveSession, LocalsSet
    <3> QED
      BY <1>a, <2>1, <3>1, <3>2 DEF Listens
  <2> QED
    BY <2>1, <2>2, <2>3, KeptWait
<1>2. CASE OnWrite(k)
  <2>1. UNCHANGED <<sess, sock, requests, responses, up>> /\ pc[k] = "write"
    BY <1>2 DEF OnWrite, wireVars, hostVars
  <2>2. ServerUp'
    BY <2>1 DEF WaitInv, ServerUp
  <2>3. \A j \in Calls : Listens(j)' => Listens(j)
    BY <1>b, <2>1 DEF Listens
  <2> QED
    BY <2>1, <2>2, <2>3, KeptWait
<1>3. CASE OnRead(k)
  <2>1. /\ UNCHANGED <<sess, sock, requests, up>> /\ pc[k] = "read"
        /\ pc'[k] \notin {"write", "read"}
        /\ \A r \in responses : r.sess # sess[k] => r \in responses'
    BY <1>3, <1>a DEF OnRead, SendFailed, hostVars
  <2>2. ServerUp'
    BY <2>1 DEF WaitInv, ServerUp
  <2>3. ASSUME NEW j \in Calls, Listens(j)'
        PROVE  Listens(j) /\ sess[j] # sess[k]
    <3>1. j # k /\ Listens(j)
      BY <1>b, <2>1, <2>3 DEF Listens
    <3> QED
      BY <3>1, WaitInvCalls DEF SafetyInv, ExclusiveSession
  <2> QED
    BY <2>1, <2>2, <2>3, KeptWait
<1> QED
  BY <1>1, <1>2, <1>3 DEF Handler

LEMMA CloseWait ==
  ASSUME SafetyInv, SafetyInv', WaitInv, NEW s \in Sessions, CloseSession(s)
  PROVE  WaitInv'
<1>a. sock \in [Sessions -> {"closed", "open", "broken"}]
  BY DEF SafetyInv, TypeOK
<1>1. /\ s \in closing /\ UNCHANGED <<sess, up>>
      /\ sock' = [sock EXCEPT ![s] = "closed"] \/ sock' = sock
      /\ requests' = Detached(s, requests)
      /\ responses' = {r \in responses : r.sess # s}
  BY DEF CloseSession, hostVars
<1>2. \A k \in Calls : pc'[k] = pc[k]
  BY DEF CloseSession, SafetyInv, ClosingUnused
<1>3. ServerUp'
  BY <1>a, <1>1 DEF WaitInv, ServerUp
<1>4. \A j \in Calls : Listens(j)' => Listens(j) /\ sess[j] # s
  <2> SUFFICES ASSUME NEW j \in Calls, Listens(j)'
               PROVE  Listens(j) /\ sess[j] # s
    OBVIOUS
  <2>1. pc[j] \in {"write", "read"} /\ sock'[sess[j]] = "open"
    BY <1>1, <1>2 DEF Listens
  <2>2. sess[j] \notin closing
    BY <2>1 DEF SafetyInv, ClosingUnused
  <2>3. sess[j] \in Sessions
    BY <2>1 DEF SafetyInv, TypeOK, LocalsSet
  <2> QED
    BY <1>a, <1>1, <2>1, <2>2, <2>3 DEF Listens
<1>5. \A m \in requests : m.sess # s => m \in requests'
  BY <1>1, StaysAttached
<1> QED
  BY <1>1, <1>3, <1>4, <1>5, KeptWait

LEMMA ExecuteWait ==
  ASSUME SafetyInv, SafetyInv', WaitInv, NEW m \in requests, Execute(m)
  PROVE  WaitInv'
<1>1. /\ UNCHANGED <<pc, sess, sock, up>> /\ requests' = requests \ {m}
      /\ responses' = IF m.sess = None THEN responses
                        ELSE responses \cup {[call |-> m.call, sess |-> m.sess]}
  BY DEF Execute, callVars
<1>2. ServerUp'
  BY <1>1 DEF WaitInv, ServerUp
<1>3. ASSUME NEW j \in Calls, Listens(j)' PROVE Asked(j)'
  <2>1. Listens(j) /\ Asked(j) /\ sess[j] # None
    BY <1>1, <1>3, WaitInvCalls DEF Listens
  <2>2. CASE m.call = j /\ m.sess = sess[j]
    <3> DEFINE new == [call |-> m.call, sess |-> m.sess]
    <3>1. new.call = j /\ new.sess = sess'[j] /\ new \in responses'
      BY <1>1, <2>1, <2>2
    <3> QED
      BY <3>1 DEF Asked
  <2>3. CASE ~(m.call = j /\ m.sess = sess[j])
    BY <1>1, <2>1, <2>3 DEF Asked
  <2> QED
    BY <2>2, <2>3
<1> QED
  BY <1>2, <1>3, WaitInvNext

LEMMA FaultWait ==
  ASSUME SafetyInv, SafetyInv', WaitInv, Fault PROVE WaitInv'
<1>a. sock \in [Sessions -> {"closed", "open", "broken"}]
  BY DEF SafetyInv, TypeOK
<1>1. ASSUME NEW s \in Sessions, Reset(s) PROVE WaitInv'
  <2>1. UNCHANGED <<pc, sess, up>> /\ sock' = [sock EXCEPT ![s] = "broken"]
    BY <1>1 DEF Reset, callVars, hostVars
  <2>2. PICK lost \in SUBSET {m \in requests : m.sess = s} :
          requests' = Detached(s, requests \ lost)
    BY <1>1 DEF Reset
  <2>3. \A m \in requests : m.sess # s => m \in requests'
    BY <2>2, StaysAttached
  <2>4. \A r \in responses : r.sess # s => r \in responses'
    BY <1>1 DEF Reset
  <2>5. ServerUp'
    BY <1>a, <2>1 DEF WaitInv, ServerUp
  <2>6. \A j \in Calls : Listens(j)' => Listens(j) /\ sess[j] # s
    BY <1>a, <2>1, WaitInvCalls DEF Listens, SafetyInv, TypeOK, LocalsSet
  <2> QED
    BY <2>1, <2>3, <2>4, <2>5, <2>6, KeptWait
<1>2. CASE Crash
  <2>1. /\ UNCHANGED <<pc, sess>>
        /\ sock' = [s \in Sessions |-> IF sock[s] = "open" THEN "broken" ELSE sock[s]]
    BY <1>2 DEF Crash, callVars
  <2>2. \A s \in Sessions : sock'[s] # "open"
    BY <2>1
  <2>3. ServerUp'
    BY <2>2 DEF ServerUp
  <2>4. \A j \in Calls : ~Listens(j)'
    BY <2>1, <2>2 DEF Listens, SafetyInv, TypeOK, LocalsSet
  <2> QED
    BY <2>3, <2>4, WaitInvNext
<1>3. CASE Restart
  <2>1. UNCHANGED <<pc, sess, sock, requests, responses>> /\ up'
    BY <1>3 DEF Restart, callVars, wireVars
  <2> QED
    BY <2>1, KeptWait DEF ServerUp, Listens
<1> QED
  BY <1>1, <1>2, <1>3 DEF Fault

LEMMA LifeWait ==
  ASSUME SafetyInv, SafetyInv', WaitInv, Life \/ UNCHANGED vars PROVE WaitInv'
<1>1. /\ UNCHANGED <<pc, sess, requests, responses, up>>
      /\ \A s \in Sessions : sock'[s] = "open" => sock[s] = "open"
  BY DEF Life, Run, StopContext, DrainPool, JoinWorkers, Release, callVars,
         wireVars, hostVars, vars
<1>2. ServerUp'
  BY <1>1 DEF WaitInv, ServerUp
<1>3. \A j \in Calls : Listens(j)' => Listens(j)
  BY <1>1 DEF Listens, SafetyInv, TypeOK, LocalsSet
<1> QED
  BY <1>1, <1>2, <1>3, KeptWait

\* No call waits on a sound connection for a response that cannot come: no step of
\* the client or of the network loses a request but with its connection.  This is
\* what the liveness of calls rests on, whatever the scheduling.
THEOREM NobodyWaitsInVain == Spec => []NoVainWait
<1>1. Init => WaitInv
  BY DEF Init, WaitInv, ServerUp, NoVainWait
<1>2. SafetyInv /\ SafetyInv' /\ WaitInv /\ [Next]_vars => WaitInv'
  BY CallerWait, HandlerWait, CloseWait, ExecuteWait, FaultWait, LifeWait DEF Next
<1>3. WaitInv => NoVainWait
  BY DEF WaitInv
<1> QED
  BY <1>1, <1>2, <1>3, Safety, PTL DEF Spec

-----------------------------------------------------------------------------
(* What is left after a stop(). *)

\* One step of the client, its workers, the server or the network, after a stop.
LEMMA StopStep ==
  ASSUME TypeOK, [Next]_vars, ctxStopped, NEW k \in Calls
  PROVE  /\ ctxStopped'
         /\ pc[k] \in {"connect", "write", "read"} => pc'[k] = pc[k]
         /\ pc'[k] \in {"put", "done"} => pc[k] \in {"put", "done"}
<1>a. pc \in [Calls -> Points] /\ ~HandlersRun
  BY DEF TypeOK, HandlersRun
<1>1. ctxStopped'
  BY <1>a
  DEF Next, Start, Caller, GetSession, RefuseSession, MakeSession, Send, Retry,
      GiveUp, PutSession, Handler, OnConnect, OnWrite, OnRead, CloseSession,
      Execute, Fault, Reset, Crash, Restart, Life, Run, StopContext, DrainPool,
      JoinWorkers, Release, lifeVars, vars
<1>2. ASSUME NEW j \in Calls, Start(j) \/ Caller(j)
      PROVE  /\ pc[k] \in {"connect", "write", "read"} => pc'[k] = pc[k]
             /\ pc'[k] \in {"put", "done"} => pc[k] \in {"put", "done"}
  BY <1>2, <1>a
  DEF Start, Caller, GetSession, RefuseSession, MakeSession, Send, Retry, GiveUp,
      PutSession, Throw
<1>3. CASE UNCHANGED pc
  BY <1>1, <1>3
<1>4. (\E j \in Calls : Start(j) \/ Caller(j)) \/ UNCHANGED pc
  BY <1>a
  DEF Next, Handler, OnConnect, OnWrite, OnRead, CloseSession, Execute, Fault,
      Reset, Crash, Restart, Life, Run, StopContext, DrainPool, JoinWorkers,
      Release, callVars, vars
<1> QED
  BY <1>1, <1>2, <1>3, <1>4

\* After a stop() no call that waits goes on and no other gets a response, not
\* even if the client is run again.
THEOREM NothingAfterStop == Spec => StopIsFinal
<1>1. TypeOK /\ [Next]_vars =>
        [\A k \in Calls : ctxStopped =>
           /\ ctxStopped'
           /\ pc[k] \in {"connect", "write", "read"} => pc'[k] = pc[k]
           /\ pc'[k] \in {"put", "done"} => pc[k] \in {"put", "done"}]_vars
  BY StopStep
<1> QED
  BY <1>1, TypeCorrect, PTL DEF Spec, StopIsFinal

=============================================================================
