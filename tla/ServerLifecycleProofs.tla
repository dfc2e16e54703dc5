----------------------- MODULE ServerLifecycleProofs -----------------------
(***************************************************************************)
(* The accept loop neither breaks off nor doubles, and a stopped server is *)
(* quiet, for any number of workers, connections, runs and failures.  The  *)
(* invariant is inductive together with the types, which say that a new    *)
(* listener has a number no handler refers to yet.                         *)
(***************************************************************************)
EXTENDS ServerLifecycle, TLAPS

LoopInv == TypeOK /\ OneAccept /\ QuietWhenStopped

LEMMA InitLoop == Init => LoopInv
<1> SUFFICES ASSUME Init PROVE LoopInv
  OBVIOUS
<1> USE LifecycleAssumption DEF Init, Out, Handler
<1>1. TypeOK
  <2>1. derived \in BOOLEAN /\ ctxStopped \in BOOLEAN
    BY Zenon
  <2>2. at \in [Workers -> {Out}]
    OBVIOUS
  <2>3. tasks \subseteq [op : Ops \ {"made"}, gen : 1..gen]
    OBVIOUS
  <2>4. conn \in [Connections -> {"new", "backlog", "accepted", "session",
                                  "refused"}]
    OBVIOUS
  <2>5. /\ gen \in 0..MaxRuns
        /\ listener \in 0..gen
        /\ failures \in 0..MaxFailures
    OBVIOUS
  <2> QED
    BY <2>1, <2>2, <2>3, <2>4, <2>5 DEF TypeOK
<1>2. OneAccept
  BY DEF OneAccept
<1> QED
  BY <1>1, <1>2 DEF LoopInv, QuietWhenStopped

\* Aborting an accept keeps what tells handlers apart.
LEMMA AbortKeeps ==
  ASSUME NEW g, NEW t \in [op : Ops \ {"made"}, gen : 1..gen]
  PROVE  /\ Abort(t, g) \in [op : Ops \ {"made"}, gen : 1..gen]
         /\ Abort(t, g).gen = t.gen
BY DEF Abort, Handler, Ops

\* The user's thread, the kernel and the clients.
LEMMA ProgramLoop ==
  ASSUME LoopInv,
         \/ Run \/ Destroy \/ DropListener \/ StopContext \/ JoinWorkers
         \/ \E c \in Connections : Connect(c)
         \/ \E g \in 1..gen : AcceptEnds(g)
  PROVE  LoopInv'
<1> USE LifecycleAssumption DEF LoopInv, TypeOK, OneAccept, QuietWhenStopped
<1>1. CASE Run
  <2> USE <1>1 DEF Run, Handler, Idle, Serving, Out, Ops
  <2>1. derived' \in BOOLEAN /\ ctxStopped' \in BOOLEAN
    BY Zenon
  <2>2. tasks' \subseteq [op : Ops \ {"made"}, gen : 1..gen']
    OBVIOUS
  <2>3. at' \in [Workers -> [op : Ops \ {"pending"}, gen : 1..gen']
                              \cup {Idle, Serving, Out}]
    OBVIOUS
  <2>4. TypeOK'
    BY <2>1, <2>2, <2>3
  <2>5. \A t \in tasks : t.gen # gen + 1
    OBVIOUS
  <2>6. \A v \in Workers : at'[v].gen = 0
    OBVIOUS
  <2>7. /\ \A t \in tasks' : t \in tasks \/ t = Handler("first", gen + 1)
        /\ Handler("first", gen + 1) \in tasks'
        /\ Handler("first", gen + 1).gen = gen + 1
        /\ listener' = gen + 1
    OBVIOUS
  <2>8. \A t \in tasks' : t.gen # 0
    BY <2>2
  <2>9. \A t, u \in tasks' : t.gen = u.gen => t = u
    BY <2>5, <2>7
  <2>10. \A v, w \in Workers : at'[v].gen = at'[w].gen /\ at'[v].gen # 0 => v = w
    BY <2>6
  <2>11. \A t \in tasks', w \in Workers : t.gen # at'[w].gen
    BY <2>6, <2>8
  <2>12. \E t \in tasks' : t.gen = listener'
    BY ONLY <2>7
  <2>13. OneAccept'
    BY ONLY <2>9, <2>10, <2>11, <2>12 DEF OneAccept
  <2> QED
    BY <2>4, <2>13
<1>2. CASE Destroy \/ StopContext \/ JoinWorkers
  BY <1>2 DEF Destroy, StopContext, JoinWorkers
<1>3. CASE DropListener
  <2>1. CASE UNCHANGED <<tasks, conn, socket>>
    BY <1>3, <2>1 DEF DropListener
  <2>2. CASE DestroyListener(listener, tasks)
    <3>1. /\ tasks' = {Abort(t, listener) : t \in tasks}
          /\ socket' = None
          /\ conn' \in [Connections -> {"new", "backlog", "accepted",
                                        "session", "refused"}]
      BY <2>2 DEF DestroyListener
    <3>2. /\ prog' = "stopping" /\ listener' = 0
          /\ UNCHANGED <<derived, gen, at, ctxStopped, failures>>
      BY <1>3 DEF DropListener
    <3>3. /\ tasks' \subseteq [op : Ops \ {"made"}, gen : 1..gen]
          /\ \A t, u \in tasks' : t.gen = u.gen => t = u
          /\ \A t \in tasks' : \E u \in tasks : t.gen = u.gen
      <4>1. \A t \in tasks :
              /\ Abort(t, listener) \in [op : Ops \ {"made"}, gen : 1..gen]
              /\ Abort(t, listener).gen = t.gen
        BY AbortKeeps
      <4> QED
        BY <3>1, <4>1
    <3>4. derived' \in BOOLEAN /\ ctxStopped' \in BOOLEAN
      BY <3>2, Zenon
    <3>5. TypeOK'
      BY <3>1, <3>2, <3>3, <3>4
    <3>6. OneAccept'
      BY <3>2, <3>3
    <3> QED
      BY <3>2, <3>5, <3>6
  <2> QED
    BY <1>3, <2>1, <2>2 DEF DropListener
<1>4. CASE \E c \in Connections : Connect(c)
  BY <1>4 DEF Connect
<1>5. ASSUME NEW g \in 1..gen, AcceptEnds(g) PROVE LoopInv'
  <2> USE <1>5 DEF AcceptEnds, Handler
  <2>1. /\ socket' \in Connections \cup {None}
        /\ conn' \in [Connections -> {"new", "backlog", "accepted", "session",
                                      "refused"}]
        /\ failures' \in 0..MaxFailures
    OBVIOUS
  <2>2. tasks' \subseteq [op : Ops \ {"made"}, gen : 1..gen]
    BY DEF Ops
  <2>3. derived' \in BOOLEAN /\ ctxStopped' \in BOOLEAN
    BY Zenon
  <2>4. TypeOK'
    BY <2>1, <2>2, <2>3
  <2>5. PICK h, d : /\ h \in tasks /\ h.gen = g /\ d.gen = g
                    /\ tasks' = (tasks \ {h}) \cup {d}
    OBVIOUS
  <2>6. OneAccept'
    BY <2>5
  <2> QED
    BY <2>4, <2>6
<1> QED
  BY <1>1, <1>2, <1>3, <1>4, <1>5

\* The workers.
LEMMA WorkerLoop ==
  ASSUME LoopInv, NEW w \in Workers, Take(w) \/ Serve(w) \/ Proceed(w)
  PROVE  LoopInv'
<1> USE LifecycleAssumption DEF LoopInv, TypeOK, OneAccept, QuietWhenStopped
<1>1. CASE Take(w)
  BY <1>1 DEF Take, Idle, Serving, Out, Handler, Ops
<1>2. CASE Serve(w) \/ EndServe(w) \/ Leave(w)
  BY <1>2 DEF Serve, EndServe, Leave, Idle, Serving, Out, Handler
<1>3. CASE Crash
  BY <1>3 DEF Crash
<1>4. CASE Accept(w)
  <2> DEFINE g == at[w].gen
  <2>1. g \in 1..gen
    BY <1>4 DEF Accept, Idle, Serving, Out, Handler, Ops
  <2>2. CASE /\ at' = [at EXCEPT ![w] = Idle]
             /\ listener # g
             /\ DestroyListener(g, tasks \cup {Handler("pending", g)})
             /\ UNCHANGED <<prog, derived, gen, listener, ctxStopped, failures>>
    <3> DEFINE ts == tasks \cup {Handler("pending", g)}
    <3>1. /\ ts \subseteq [op : Ops \ {"made"}, gen : 1..gen]
          /\ \A t, u \in ts : t.gen = u.gen => t = u
      BY <2>1 DEF Handler, Ops
    <3>2. /\ tasks' \subseteq [op : Ops \ {"made"}, gen : 1..gen]
          /\ \A t, u \in tasks' : t.gen = u.gen => t = u
          /\ \A t \in tasks' : \E u \in ts : t.gen = u.gen
          /\ \A u \in ts : \E t \in tasks' : t.gen = u.gen
      <4>1. tasks' = {Abort(t, g) : t \in ts}
        BY <2>2 DEF DestroyListener
      <4>2. \A t \in ts :
              /\ Abort(t, g) \in [op : Ops \ {"made"}, gen : 1..gen]
              /\ Abort(t, g).gen = t.gen
        BY <3>1, AbortKeeps
      <4> HIDE DEF ts, g
      <4> QED
        BY <3>1, <4>1, <4>2
    <3>3. derived' \in BOOLEAN /\ ctxStopped' \in BOOLEAN
      BY <2>2, Zenon
    <3>4. /\ socket' = None
          /\ conn' \in [Connections -> {"new", "backlog", "accepted",
                                        "session", "refused"}]
      BY <2>2 DEF DestroyListener
    <3>5. TypeOK'
      BY <2>2, <3>2, <3>3, <3>4
    <3>6. OneAccept'
      BY <2>2, <3>2 DEF Idle, Handler
    <3>7. QuietWhenStopped'
      BY <1>4, <2>2 DEF Accept, Out, Handler
    <3> QED
      BY <3>5, <3>6, <3>7
  <2>3. CASE /\ at' = [at EXCEPT ![w] = Idle]
             /\ \E op \in {"pending", "done"} :
                  tasks' = tasks \cup {Handler(op, g)}
             /\ UNCHANGED <<prog, derived, gen, listener, socket, conn,
                            ctxStopped, failures>>
    <3>1. derived' \in BOOLEAN /\ ctxStopped' \in BOOLEAN
      BY <2>3, Zenon
    <3>2. tasks' \subseteq [op : Ops \ {"made"}, gen : 1..gen]
      BY <2>1, <2>3 DEF Handler, Ops
    <3>3. TypeOK'
      BY <2>3, <3>1, <3>2
    <3>4. OneAccept'
      <4>1. PICK h : h.gen = g /\ tasks' = tasks \cup {h}
        BY <2>3 DEF Handler
      <4>2. \A v \in Workers : at'[v].gen = IF v = w THEN 0 ELSE at[v].gen
        BY <2>3 DEF Idle, Handler
      <4> QED
        BY <2>1, <2>3, <4>1, <4>2
    <3>5. QuietWhenStopped'
      BY <1>4, <2>3 DEF Accept, Out, Handler
    <3> QED
      BY <3>3, <3>4, <3>5
  <2> QED
    BY <1>3, <1>4, <2>2, <2>3 DEF Accept
<1>5. CASE CreateSession(w)
  <2>1. CASE /\ at' = [at EXCEPT ![w] = Handler("made", at[w].gen)]
             /\ UNCHANGED <<prog, derived, gen, listener, tasks, ctxStopped>>
    <3>1. at[w].gen \in 1..gen
      BY <1>5 DEF CreateSession, Idle, Serving, Out, Handler, Ops
    <3>2. derived' \in BOOLEAN /\ ctxStopped' \in BOOLEAN
      BY <2>1, Zenon
    <3>3. /\ socket' \in Connections \cup {None}
          /\ conn' \in [Connections -> {"new", "backlog", "accepted",
                                        "session", "refused"}]
          /\ failures' \in 0..MaxFailures
      BY <1>5 DEF CreateSession, Crash
    <3>4. at' \in [Workers -> [op : Ops \ {"pending"}, gen : 1..gen]
                                \cup {Idle, Serving, Out}]
      BY <2>1, <3>1 DEF Handler, Ops
    <3>5. TypeOK'
      BY <2>1, <3>2, <3>3, <3>4
    <3>6. OneAccept'
      BY <2>1, <3>1 DEF Handler
    <3>7. QuietWhenStopped'
      BY <1>5, <2>1 DEF CreateSession, Out, Handler
    <3> QED
      BY <3>5, <3>6, <3>7
  <2> QED
    BY <1>3, <1>5, <2>1 DEF CreateSession
<1>6. CASE Repost(w)
  <2>1. CASE /\ at' = [at EXCEPT ![w] = Idle]
             /\ tasks' = tasks \cup {Handler("again", at[w].gen)}
             /\ UNCHANGED <<prog, derived, gen, listener, socket, conn,
                            ctxStopped, failures>>
    <3>1. at[w].gen \in 1..gen
      BY <1>6 DEF Repost, Idle, Serving, Out, Handler, Ops
    <3>2. derived' \in BOOLEAN /\ ctxStopped' \in BOOLEAN
      BY <2>1, Zenon
    <3>3. tasks' \subseteq [op : Ops \ {"made"}, gen : 1..gen]
      BY <2>1, <3>1 DEF Handler, Ops
    <3>4. TypeOK'
      BY <2>1, <3>2, <3>3
    <3>5. OneAccept'
      <4>1. PICK h : h.gen = at[w].gen /\ tasks' = tasks \cup {h}
        BY <2>1 DEF Handler
      <4>2. \A v \in Workers : at'[v].gen = IF v = w THEN 0 ELSE at[v].gen
        BY <2>1 DEF Idle, Handler
      <4> QED
        BY <2>1, <3>1, <4>1, <4>2
    <3>6. QuietWhenStopped'
      BY <1>6, <2>1 DEF Repost, Out, Handler
    <3> QED
      BY <3>4, <3>5, <3>6
  <2> QED
    BY <1>3, <1>6, <2>1 DEF Repost
<1> QED
  BY <1>1, <1>2, <1>4, <1>5, <1>6 DEF Proceed

LEMMA StepLoop == LoopInv /\ [Next]_vars => LoopInv'
<1>1. LoopInv /\ UNCHANGED vars => LoopInv'
  BY DEF LoopInv, TypeOK, OneAccept, QuietWhenStopped, vars
<1> QED
  BY <1>1, ProgramLoop, WorkerLoop DEF Next

THEOREM Loop == Spec => []LoopInv
BY InitLoop, StepLoop, PTL DEF Spec

\* Type correctness of the server.
THEOREM TypeCorrect == Spec => []TypeOK
<1>1. LoopInv => TypeOK
  BY DEF LoopInv
<1> QED
  BY <1>1, Loop, PTL

\* One accept of a running server is outstanding, queued or being handled, and
\* never two of the same listener.
THEOREM AcceptLoopHolds == Spec => []OneAccept
<1>1. LoopInv => OneAccept
  BY DEF LoopInv
<1> QED
  BY <1>1, Loop, PTL

\* No handler runs once stop() or the destructor has returned.
THEOREM StoppedIsQuiet == Spec => []QuietWhenStopped
<1>1. LoopInv => QuietWhenStopped
  BY DEF LoopInv
<1> QED
  BY <1>1, Loop, PTL

-----------------------------------------------------------------------------
(* What an earlier run leaves behind. *)

\* The context is stopped once and for all by the first stop(): before it there is
\* one listener and every handler is of that one; after it no worker of a server
\* that is off, or on again, is in a handler.
RerunInv ==
  /\ prog = "on" => listener = gen /\ gen # 0
  /\ prog = "joining" => ctxStopped
  /\ ~ctxStopped => gen <= 1
  /\ ~ctxStopped /\ prog = "off" => gen = 0
  /\ ctxStopped /\ prog = "on" => \A w \in Workers : at[w] \in {Idle, Out}

LEMMA InitRerun == Init => RerunInv
BY DEF Init, RerunInv

LEMMA StepRerun == LoopInv /\ RerunInv /\ [Next]_vars => RerunInv'
<1> SUFFICES ASSUME LoopInv, RerunInv, [Next]_vars PROVE RerunInv'
  OBVIOUS
<1>a. /\ at \in [Workers -> [op : Ops \ {"pending"}, gen : 1..gen]
                              \cup {Idle, Serving, Out}]
      /\ gen \in Nat /\ listener \in 0..gen
  BY LifecycleAssumption DEF LoopInv, TypeOK
<1>1. CASE Run
  BY <1>1, <1>a DEF Run, RerunInv
<1>2. CASE DropListener \/ StopContext
  BY <1>2 DEF DropListener, StopContext, RerunInv
<1>3. CASE JoinWorkers
  BY <1>3 DEF JoinWorkers, RerunInv
<1>4. ASSUME prog' = "crashed", UNCHANGED <<gen, ctxStopped>> PROVE RerunInv'
  BY <1>4 DEF RerunInv
<1>5. ASSUME UNCHANGED <<prog, listener, gen, ctxStopped>>,
             \A w \in Workers :
               ctxStopped /\ at[w] \in {Idle, Out} => at'[w] \in {Idle, Out}
      PROVE  RerunInv'
  BY <1>5 DEF RerunInv
<1>6. ASSUME NEW w \in Workers, Take(w) \/ Serve(w) \/ EndServe(w) \/ Leave(w)
      PROVE  RerunInv'
  BY <1>6, <1>5, <1>a DEF Take, Serve, EndServe, Leave
<1>7. ASSUME NEW w \in Workers, Accept(w) \/ CreateSession(w) \/ Repost(w)
      PROVE  RerunInv'
  <2>1. at[w] \notin {Idle, Out}
    BY <1>7 DEF Accept, CreateSession, Repost, Idle, Out, Handler
  <2>2. \/ prog' = "crashed" /\ UNCHANGED <<gen, ctxStopped>>
        \/ /\ UNCHANGED <<prog, listener, gen, ctxStopped>>
           /\ \A v \in Workers : v # w => at'[v] = at[v]
    BY <1>7, <1>a DEF Accept, CreateSession, Repost, Crash
  <2> QED
    BY <1>4, <1>5, <2>1, <2>2
<1>8. CASE \/ Destroy \/ UNCHANGED vars
           \/ \E c \in Connections : Connect(c)
           \/ \E g \in 1..gen : AcceptEnds(g)
  BY <1>5, <1>8 DEF Destroy, Connect, AcceptEnds, vars
<1> QED
  BY <1>1, <1>2, <1>3, <1>6, <1>7, <1>8 DEF Next, Proceed

\* In a server that serves, every handler of the accept loop is of its listener.
LEMMA HandlersOfListener ==
  ASSUME LoopInv, RerunInv, prog = "on", NEW w \in Workers, at[w].gen # 0
  PROVE  Alive(at[w].gen)
<1>1. /\ at[w] \in [op : Ops \ {"pending"}, gen : 1..gen] \cup {Idle, Serving, Out}
      /\ gen \in Nat
  BY LifecycleAssumption DEF LoopInv, TypeOK
<1>2. at[w].gen \in 1..gen /\ at[w] \notin {Idle, Out}
  BY <1>1 DEF Idle, Serving, Out, Handler
<1>3. gen <= 1 /\ listener = gen
  BY <1>2 DEF RerunInv
<1>4. at[w].gen = listener
  BY <1>1, <1>2, <1>3
<1> QED
  BY <1>4 DEF Alive

LEMMA CrashStep ==
  ASSUME LoopInv, RerunInv, [Next]_vars, prog # "crashed", prog' = "crashed"
  PROVE  prog \in {"stopping", "joining"} \/ ~derived
<1> SUFFICES ASSUME prog \in {"off", "on"}, derived PROVE FALSE
  BY DEF LoopInv, TypeOK
<1>1. PICK w \in Workers : Accept(w) \/ CreateSession(w) \/ Repost(w)
  BY DEF Next, Run, Destroy, DropListener, StopContext, JoinWorkers, Connect,
         AcceptEnds, Take, Serve, Proceed, EndServe, Leave, vars
<1>2. ~Alive(at[w].gen)
  BY <1>1 DEF Accept, CreateSession, Repost
<1>3. at[w].op \in {"first", "again", "done", "aborted", "made"}
  BY <1>1 DEF Accept, CreateSession, Repost
<1>4. at[w] \notin {Idle, Serving, Out}
  BY <1>3 DEF Idle, Serving, Out, Handler
<1>5. prog = "on"
  BY <1>4 DEF LoopInv, QuietWhenStopped
<1>6. at[w].gen # 0
  BY <1>4 DEF LoopInv, TypeOK
<1> QED
  BY <1>2, <1>5, <1>6, HandlersOfListener

\* A server that serves is not killed by its accept loop, however often it was
\* stopped and run before.
THEOREM ServingIsSafe == Spec => CrashOnlyInStop
<1>1. LoopInv /\ RerunInv /\ [Next]_vars =>
        [prog # "crashed" /\ prog' = "crashed" =>
           prog \in {"stopping", "joining"} \/ ~derived]_vars
  BY CrashStep
<1> QED
  BY <1>1, InitRerun, StepRerun, Loop, PTL DEF Spec, CrashOnlyInStop

LEMMA StoppedStep ==
  ASSUME LoopInv, RerunInv, [Next]_vars, ctxStopped
  PROVE  /\ ctxStopped'
         /\ prog \in {"off", "on"} =>
              \A c \in Connections : conn'[c] = "session" => conn[c] = "session"
<1>1. ctxStopped'
  BY DEF Next, Run, Destroy, DropListener, StopContext, JoinWorkers, Connect,
         AcceptEnds, Take, Serve, Proceed, Accept, CreateSession, Repost, Crash,
         EndServe, Leave, vars
<1>2. prog \in {"off", "on"} => \A w \in Workers : ~CreateSession(w)
  <2>1. \A w \in Workers : CreateSession(w) => at[w].op \in {"done", "aborted"}
    BY DEF CreateSession
  <2>2. prog \in {"off", "on"} => \A w \in Workers : at[w] \in {Idle, Out}
    BY DEF LoopInv, QuietWhenStopped, RerunInv
  <2> QED
    BY <2>1, <2>2 DEF Idle, Out, Handler
<1>3. ASSUME prog \in {"off", "on"}, NEW c \in Connections, conn'[c] = "session"
      PROVE  conn[c] = "session"
  BY <1>2, <1>3
  DEF LoopInv, TypeOK, Next, Run, Destroy, DropListener, DestroyListener,
      StopContext, JoinWorkers, Connect, AcceptEnds, Take, Serve, Proceed,
      Accept, Repost, Crash, EndServe, Leave, vars
<1> QED
  BY <1>1, <1>3

\* A server that is run again after a stop() makes no session.
THEOREM NothingAfterStop == Spec => StopIsFinal
<1>1. LoopInv /\ RerunInv /\ [Next]_vars =>
        [ctxStopped =>
           /\ ctxStopped'
           /\ prog \in {"off", "on"} =>
                \A c \in Connections : conn'[c] = "session" => conn[c] = "session"]_vars
  BY StoppedStep
<1> QED
  BY <1>1, InitRerun, StepRerun, Loop, PTL DEF Spec, StopIsFinal

=============================================================================
