--------------------------- MODULE ServerLifecycle ---------------------------
(***************************************************************************)
(* The server object of src/nanorpc/http/server.cpp and its listener: run()*)
(* opens the listener and starts the workers, the accept loop turns        *)
(* connections into sessions, stop() and the destructor drop the listener, *)
(* stop the io_context and join the workers.  Sessions only matter here as *)
(* work that occupies a worker.                                            *)
(*                                                                         *)
(* The accept loop is a chain of handlers that refer to the listener by a  *)
(* raw pointer; only the first task of the chain holds a shared_ptr.  What *)
(* a handler does to a destroyed listener is undefined: the process dies,  *)
(* or the freed memory still reads as a listener with a closed acceptor.   *)
(***************************************************************************)
EXTENDS Naturals, FiniteSets

CONSTANTS
  Workers,       \* threads in context_.run()
  Connections,   \* connections clients may open (bound of the model)
  MaxRuns,       \* calls of run() (bound of the model)
  MaxFailures,   \* accepts and sessions that may fail (bound of the model)
  None           \* no connection

ASSUME LifecycleAssumption ==
  /\ MaxRuns \in Nat
  /\ MaxFailures \in Nat
  /\ None \notin Connections

VARIABLES
  prog,        \* how far the user's thread is in run() and stop()
  derived,     \* whether the derived part of the server object still exists
  gen,         \* listeners made so far; listeners are numbered from 1
  listener,    \* listener_, 0 when it is reset: this is stopped()
  tasks,       \* handlers of the accept loop, queued or waiting for the kernel
  at,          \* at[w]: the handler worker w is in
  socket,      \* the connection in the listener's socket_
  conn,        \* conn[c]: what became of connection c
  ctxStopped,  \* context_.stopped()
  failures     \* failures so far

vars == <<prog, derived, gen, listener, tasks, at, socket, conn, ctxStopped,
          failures>>

\* A handler of the accept loop: "first" is the task posted by listener::run,
\* "pending" an async_accept, "done" and "aborted" its handler, "made" that
\* handler after its try block, "again" the task it posts.
Ops == {"first", "pending", "done", "aborted", "made", "again"}
Handler(op, g) == [op |-> op, gen |-> g]

\* A worker that is in no handler of the accept loop.
Idle    == Handler("idle", 0)
Serving == Handler("serving", 0)
Out     == Handler("out", 0)

\* A listener exists while listener_ or the first task of its loop refers to it.
Alive(g) ==
  \/ listener = g
  \/ Handler("first", g) \in tasks
  \/ \E w \in Workers : at[w] = Handler("first", g)

\* A listener binds the port in its constructor, which throws while another has it.
PortFree == \A g \in 1..gen : ~Alive(g)

Init ==
  /\ prog = "off"
  /\ derived = TRUE
  /\ gen = 0
  /\ listener = 0
  /\ tasks = {}
  /\ at = [w \in Workers |-> Out]
  /\ socket = None
  /\ conn = [c \in Connections |-> "new"]
  /\ ctxStopped = FALSE
  /\ failures = 0

-----------------------------------------------------------------------------
(* Likely slips; each breaks a property stated below. *)

\* run() posts for the listener it replaces.
RunOldNumber ==
  /\ prog = "off"
  /\ derived
  /\ gen < MaxRuns
  /\ PortFree
  /\ prog' = "on"
  /\ gen' = gen + 1
  /\ listener' = gen + 1
  /\ tasks' = tasks \cup {Handler("first", gen)}
  /\ at' = [w \in Workers |-> Idle]
  /\ UNCHANGED <<derived, socket, conn, ctxStopped, failures>>

\* A failed accept ends the loop.
CreateSessionOrReturn(w) ==
  /\ prog # "crashed"
  /\ at[w].op \in {"done", "aborted"}
  /\ at' = [at EXCEPT ![w] = IF socket = None THEN Idle
                                              ELSE Handler("made", at[w].gen)]
  /\ conn' = [c \in Connections |-> IF c = socket THEN "session" ELSE conn[c]]
  /\ socket' = None
  /\ UNCHANGED <<prog, derived, gen, listener, tasks, ctxStopped, failures>>

\* stop() joins before it stops the context.
StopContextLate ==
  /\ prog = "stopping"
  /\ prog' = "joining"
  /\ UNCHANGED <<derived, gen, listener, tasks, at, socket, conn, ctxStopped,
                 failures>>

\* stop() does not join.
JoinNobody ==
  /\ prog = "joining"
  /\ prog' = "off"
  /\ UNCHANGED <<derived, gen, listener, tasks, at, socket, conn, ctxStopped,
                 failures>>

\* run() restarts the context, with the handlers an earlier stop() left in it.
RunRestarts ==
  /\ prog = "off"
  /\ derived
  /\ gen < MaxRuns
  /\ PortFree
  /\ prog' = "on"
  /\ gen' = gen + 1
  /\ listener' = gen + 1
  /\ tasks' = tasks \cup {Handler("first", gen + 1)}
  /\ at' = [w \in Workers |-> Idle]
  /\ ctxStopped' = FALSE
  /\ UNCHANGED <<derived, socket, conn, failures>>

\* Workers go on taking handlers from a stopped context.
TakeStopped(w) ==
  /\ prog # "crashed"
  /\ at[w] = Idle
  /\ \E t \in tasks : /\ t.op # "pending"
                      /\ at' = [at EXCEPT ![w] = t]
                      /\ tasks' = tasks \ {t}
  /\ UNCHANGED <<prog, derived, gen, listener, socket, conn, ctxStopped,
                 failures>>

-----------------------------------------------------------------------------
(* The thread of the user program. *)

\* What the end of listener g makes of handler t: its accept is aborted.
Abort(t, g) == IF t = Handler("pending", g) THEN Handler("aborted", g) ELSE t

\* The destructor of listener g: its acceptor and its socket are closed.
DestroyListener(g, ts) ==
  /\ tasks' = {Abort(t, g) : t \in ts}
  /\ conn' = [c \in Connections |-> IF conn[c] \in {"backlog", "accepted"}
                                      THEN "refused" ELSE conn[c]]
  /\ socket' = None

\* run().  When the constructor of the listener throws, nothing has changed.
Run ==
  /\ prog = "off"
  /\ derived
  /\ gen < MaxRuns
  /\ PortFree
  /\ prog' = "on"
  /\ gen' = gen + 1
  /\ listener' = gen + 1
  /\ tasks' = tasks \cup {Handler("first", gen + 1)}
  /\ at' = [w \in Workers |-> Idle]
  /\ UNCHANGED <<derived, socket, conn, ctxStopped, failures>>

\* ~impl has run; the destructor of the base class comes next and stops a server
\* that still runs.
Destroy ==
  /\ prog \in {"off", "on"}
  /\ derived
  /\ derived' = FALSE
  /\ UNCHANGED <<prog, gen, listener, tasks, at, socket, conn, ctxStopped,
                 failures>>

\* stop(): listener_.reset(), ...
DropListener ==
  /\ prog = "on"
  /\ prog' = "stopping"
  /\ listener' = 0
  /\ IF \/ Handler("first", listener) \in tasks
        \/ \E w \in Workers : at[w] = Handler("first", listener)
       THEN UNCHANGED <<tasks, conn, socket>>
       ELSE DestroyListener(listener, tasks)
  /\ UNCHANGED <<derived, gen, at, ctxStopped, failures>>

\* ... context_.stop(), ...
StopContext ==
  /\ prog = "stopping"
  /\ prog' = "joining"
  /\ ctxStopped' = TRUE
  /\ UNCHANGED <<derived, gen, listener, tasks, at, socket, conn, failures>>

\* ... and join() for every worker.
JoinWorkers ==
  /\ prog = "joining"
  /\ \A w \in Workers : at[w] = Out
  /\ prog' = "off"
  /\ UNCHANGED <<derived, gen, listener, tasks, at, socket, conn, ctxStopped,
                 failures>>

-----------------------------------------------------------------------------
(* The kernel and the clients. *)

Connect(c) ==
  /\ prog # "crashed"
  /\ conn[c] = "new"
  /\ \E g \in 1..gen : Alive(g)
  /\ conn' = [conn EXCEPT ![c] = "backlog"]
  /\ UNCHANGED <<prog, derived, gen, listener, tasks, at, socket, ctxStopped,
                 failures>>

\* The async_accept of listener g has ended.
AcceptEnds(g) ==
  /\ prog # "crashed"
  /\ ~ctxStopped
  /\ Handler("pending", g) \in tasks
  /\ tasks' = (tasks \ {Handler("pending", g)}) \cup {Handler("done", g)}
  /\ \/ \E c \in Connections :
          /\ conn[c] = "backlog"
          /\ conn' = [conn EXCEPT ![c] = "accepted"]
          /\ socket' = c
          /\ UNCHANGED failures
     \/ /\ failures < MaxFailures
        /\ failures' = failures + 1
        /\ UNCHANGED <<conn, socket>>
  /\ UNCHANGED <<prog, derived, gen, listener, at, ctxStopped>>

-----------------------------------------------------------------------------
(* The workers. *)

\* A handler of the accept loop is ready and a worker takes it.
Take(w) ==
  /\ prog # "crashed"
  /\ ~ctxStopped
  /\ at[w] = Idle
  /\ \E t \in tasks : /\ t.op # "pending"
                      /\ at' = [at EXCEPT ![w] = t]
                      /\ tasks' = tasks \ {t}
  /\ UNCHANGED <<prog, derived, gen, listener, socket, conn, ctxStopped,
                 failures>>

\* Undefined behaviour or a pure virtual call ends the process.
Crash ==
  /\ prog' = "crashed"
  /\ UNCHANGED <<derived, gen, listener, tasks, at, socket, conn, ctxStopped,
                 failures>>

\* listener::accept().  The first task releases its shared_ptr when it ends.
\* With a closed acceptor the accept ends at once with an error.
Accept(w) ==
  /\ prog # "crashed"
  /\ at[w].op \in {"first", "again"}
  /\ LET g == at[w].gen IN
       \/ /\ at' = [at EXCEPT ![w] = Idle]
          /\ \/ /\ listener = g
                /\ tasks' = tasks \cup {Handler("pending", g)}
                /\ UNCHANGED <<conn, socket>>
             \/ /\ listener # g
                /\ at[w].op = "first"
                /\ DestroyListener(g, tasks \cup {Handler("pending", g)})
             \/ /\ ~Alive(g)
                /\ tasks' = tasks \cup {Handler("done", g)}
                /\ UNCHANGED <<conn, socket>>
          /\ UNCHANGED <<prog, derived, gen, listener, ctxStopped, failures>>
       \/ ~Alive(g) /\ Crash

\* The handler of async_accept, up to the end of its try block: a session is
\* made for the connection in socket_, unless the accept or the session failed.
CreateSession(w) ==
  /\ prog # "crashed"
  /\ at[w].op \in {"done", "aborted"}
  /\ \/ /\ at' = [at EXCEPT ![w] = Handler("made", at[w].gen)]
        /\ \/ /\ socket = None
              /\ UNCHANGED <<conn, socket, failures>>
           \/ /\ socket # None
              /\ derived
              /\ socket' = None
              /\ \/ /\ conn' = [conn EXCEPT ![socket] = "session"]
                    /\ UNCHANGED failures
                 \/ /\ failures < MaxFailures
                    /\ failures' = failures + 1
                    /\ conn' = [conn EXCEPT ![socket] = "refused"]
        /\ UNCHANGED <<prog, derived, gen, listener, tasks, ctxStopped>>
     \/ /\ \/ ~Alive(at[w].gen)
           \/ socket # None /\ ~derived
        /\ Crash

\* The end of that handler posts the next accept.
Repost(w) ==
  /\ prog # "crashed"
  /\ at[w].op = "made"
  /\ \/ /\ at' = [at EXCEPT ![w] = Idle]
        /\ tasks' = tasks \cup {Handler("again", at[w].gen)}
        /\ UNCHANGED <<prog, derived, gen, listener, socket, conn, ctxStopped,
                       failures>>
     \/ ~Alive(at[w].gen) /\ Crash

\* A handler of a session runs on a worker, the user's function included.
Serve(w) ==
  /\ prog # "crashed"
  /\ ~ctxStopped
  /\ at[w] = Idle
  /\ \E c \in Connections : conn[c] = "session"
  /\ at' = [at EXCEPT ![w] = Serving]
  /\ UNCHANGED <<prog, derived, gen, listener, tasks, socket, conn, ctxStopped,
                 failures>>

EndServe(w) ==
  /\ prog # "crashed"
  /\ at[w] = Serving
  /\ at' = [at EXCEPT ![w] = Idle]
  /\ UNCHANGED <<prog, derived, gen, listener, tasks, socket, conn, ctxStopped,
                 failures>>

\* context_.run() returns in a worker: the context is stopped.
Leave(w) ==
  /\ prog # "crashed"
  /\ ctxStopped
  /\ at[w] = Idle
  /\ at' = [at EXCEPT ![w] = Out]
  /\ UNCHANGED <<prog, derived, gen, listener, tasks, socket, conn, ctxStopped,
                 failures>>

Proceed(w) ==
  Accept(w) \/ CreateSession(w) \/ Repost(w) \/ EndServe(w) \/ Leave(w)

Next ==
  \/ Run \/ Destroy \/ DropListener \/ StopContext \/ JoinWorkers
  \/ \E c \in Connections : Connect(c)
  \/ \E g \in 1..gen : AcceptEnds(g)
  \/ \E w \in Workers : Take(w) \/ Serve(w) \/ Proceed(w)

Spec == Init /\ [][Next]_vars

\* A worker that is in a handler finishes it, the user's function included, and
\* leaves a stopped context.  Ready handlers are taken in the order they became
\* ready, so no handler is overtaken for ever: strong fairness.  The kernel ends
\* the accept when there is a connection.  stop() and the destructor, once they
\* have begun, go on.
Fairness ==
  /\ \A w \in Workers : WF_vars(Proceed(w))
  /\ SF_vars(\E w \in Workers : Take(w))
  /\ WF_vars(\E g \in 1..gen : AcceptEnds(g))
  /\ WF_vars(StopContext)
  /\ WF_vars(JoinWorkers)
  /\ WF_vars(~derived /\ DropListener)

FairSpec == Spec /\ Fairness

-----------------------------------------------------------------------------
(* Properties *)

\* The variables keep their types.
TypeOK ==
  /\ prog \in {"off", "on", "stopping", "joining", "crashed"}
  /\ derived \in BOOLEAN
  /\ gen \in 0..MaxRuns
  /\ listener \in 0..gen
  /\ tasks \subseteq [op : Ops \ {"made"}, gen : 1..gen]
  /\ at \in [Workers -> [op : Ops \ {"pending"}, gen : 1..gen]
                          \cup {Idle, Serving, Out}]
  /\ socket \in Connections \cup {None}
  /\ conn \in [Connections -> {"new", "backlog", "accepted", "session",
                               "refused"}]
  /\ ctxStopped \in BOOLEAN
  /\ failures \in 0..MaxFailures

\* The accept loop never breaks off while the server runs, whatever fails, and it
\* never doubles: two accepts at a time would share the listener's one socket.
OneAccept ==
  /\ \A t, u \in tasks : t.gen = u.gen => t = u
  /\ \A v, w \in Workers : at[v].gen = at[w].gen /\ at[v].gen # 0 => v = w
  /\ \A t \in tasks, w \in Workers : t.gen # at[w].gen
  /\ listener # 0 => \/ \E t \in tasks : t.gen = listener
                     \/ \E w \in Workers : at[w].gen = listener

\* When stop() or the destructor has returned, no handler is running: what the
\* user's functions refer to may be destroyed.
QuietWhenStopped == prog = "off" => \A w \in Workers : at[w] = Out

\* A connection that has reached a running server becomes a session, unless it
\* fails or the server is stopped, whatever the other sessions do.
EveryConnectionServed ==
  \A c \in Connections :
    conn[c] = "backlog" ~> \/ conn[c] \in {"session", "refused"}
                           \/ ctxStopped
                           \/ prog = "crashed"

\* stop() returns, or a handler has met the destroyed listener.
StopReturns == prog = "stopping" ~> prog \in {"off", "crashed"}

\* Only a stop() or a destructor in progress can kill the process: a server that
\* serves never meets a listener that is gone, not even one an earlier run() made.
CrashOnlyInStop ==
  [][prog # "crashed" /\ prog' = "crashed" =>
       prog \in {"stopping", "joining"} \/ ~derived]_vars

\* stop() is final: a server that is run again accepts connections in the backlog
\* of its port and never makes a session of one.
StopIsFinal ==
  [][ctxStopped =>
       /\ ctxStopped'
       /\ prog \in {"off", "on"} =>
            \A c \in Connections : conn'[c] = "session" => conn[c] = "session"]_vars

\* No handler runs on a listener that has been destroyed, as the handlers'
\* name for it, self, and enable_shared_from_this suggest.
NoDanglingListener == \A w \in Workers : at[w].gen # 0 => Alive(at[w].gen)

\* make_session, which is virtual, is only called while the object that defines
\* it exists: the destructor of the base class stops a server that still runs.
NoPureCall ==
  \A w \in Workers : at[w].op = "done" /\ socket # None => derived

=============================================================================
