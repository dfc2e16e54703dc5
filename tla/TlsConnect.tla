----------------------------- MODULE TlsConnect -----------------------------
(***************************************************************************)
(* How the sessions of the https client connect.  The handler of the TCP   *)
(* connect starts the TLS handshake and waits, inside the handler, for its *)
(* outcome: it occupies its worker until another worker has run the        *)
(* handler of the handshake.  When the connect or the handshake has failed *)
(* the waiting handler throws, the exception leaves context_.run(), and    *)
(* the worker ends the process.  ClientPool has the http session, whose    *)
(* connect waits only in the thread of the caller.                         *)
(***************************************************************************)
EXTENDS Naturals, FiniteSets

CONSTANTS
  Workers,      \* threads in context_.run()
  Connectors,   \* threads of the user program that make calls
  None

ASSUME WorkersAssumption ==
  /\ IsFiniteSet(Workers)
  /\ IsFiniteSet(Connectors)
  /\ None \notin Connectors

VARIABLES
  at,         \* at[c]: how far the call of c has come
  link,       \* link[c]: what became of the connection of c
  held,       \* held[w]: the call whose handshake w is waiting for
  life        \* of the client: "exited" is std::exit()

vars == <<at, link, held, life>>

Init ==
  /\ at = [c \in Connectors |-> "idle"]
  /\ link = [c \in Connectors |-> "none"]
  /\ held = [w \in Workers |-> None]
  /\ life = "on"

\* A worker that can take the next ready handler.
Running(w) == life = "on" /\ held[w] = None

-----------------------------------------------------------------------------
(* Likely slips; each breaks a property stated below. *)

\* The worker is counted as busy for ever.
ResumeHeld(w) ==
  /\ life \in {"on", "stopping"}
  /\ held[w] # None
  /\ at[held[w]] = "shaken"
  /\ at' = [at EXCEPT ![held[w]] = "connected"]
  /\ UNCHANGED <<link, held, life>>

\* The handler of the handshake goes through a strand that the waiting handler
\* occupies.
FinishHandshakeOnStrand(w, c) ==
  /\ Running(w)
  /\ at[c] = "shaking"
  /\ \A v \in Workers : held[v] # c
  /\ at' = [at EXCEPT ![c] = "shaken"]
  /\ UNCHANGED <<link, held, life>>

\* Workers go on taking handlers until stop() has joined them.
BeginHandshakeStopping(w, c) ==
  /\ life \in {"on", "stopping"}
  /\ held[w] = None
  /\ at[c] = "connecting"
  /\ at' = [at EXCEPT ![c] = "shaking"]
  /\ link' \in {[link EXCEPT ![c] = l] : l \in {"up", "broken"}}
  /\ held' = [held EXCEPT ![w] = c]
  /\ UNCHANGED life

\* The same, for the handler of the handshake.
FinishHandshakeStopping(w, c) ==
  /\ life \in {"on", "stopping"}
  /\ held[w] = None
  /\ at[c] = "shaking"
  /\ at' = [at EXCEPT ![c] = "shaken"]
  /\ UNCHANGED <<link, held, life>>

-----------------------------------------------------------------------------
\* get_session() makes a session, posts its connect and waits.
Begin(c) ==
  /\ life \in {"on", "stopping"}
  /\ at[c] = "idle"
  /\ at' = [at EXCEPT ![c] = "posted"]
  /\ link' = [link EXCEPT ![c] = "none"]
  /\ UNCHANGED <<held, life>>

\* The posted task starts the TCP connect.
StartConnect(w, c) ==
  /\ Running(w)
  /\ at[c] = "posted"
  /\ at' = [at EXCEPT ![c] = "connecting"]
  /\ UNCHANGED <<link, held, life>>

\* The TCP connect has ended, well or not; its handler does not look, starts
\* the handshake and waits.
BeginHandshake(w, c) ==
  /\ Running(w)
  /\ at[c] = "connecting"
  /\ at' = [at EXCEPT ![c] = "shaking"]
  /\ link' \in {[link EXCEPT ![c] = l] : l \in {"up", "broken"}}
  /\ held' = [held EXCEPT ![w] = c]
  /\ UNCHANGED life

\* The handshake has ended; its handler fulfils the inner promise.
FinishHandshake(w, c) ==
  /\ Running(w)
  /\ at[c] = "shaking"
  /\ at' = [at EXCEPT ![c] = "shaken"]
  /\ \/ UNCHANGED link
     \/ link' = [link EXCEPT ![c] = "broken"]
  /\ UNCHANGED <<held, life>>

\* The waiting handler goes on and wakes the caller.
Resume(w) ==
  /\ life \in {"on", "stopping"}
  /\ held[w] # None
  /\ at[held[w]] = "shaken"
  /\ link[held[w]] = "up"
  /\ at' = [at EXCEPT ![held[w]] = "connected"]
  /\ held' = [held EXCEPT ![w] = None]
  /\ UNCHANGED <<link, life>>

\* Or it throws, and the worker ends the process.
Exit(w) ==
  /\ life \in {"on", "stopping"}
  /\ held[w] # None
  /\ at[held[w]] = "shaken"
  /\ link[held[w]] = "broken"
  /\ life' = "exited"
  /\ UNCHANGED <<at, link, held>>

\* The handlers of send(), taken together: they need a worker as well.
Exchange(w, c) ==
  /\ Running(w)
  /\ at[c] = "connected"
  /\ at' = [at EXCEPT ![c] = "idle"]
  /\ UNCHANGED <<link, held, life>>

\* stop(): context_.stop() makes the workers leave once they have finished the
\* handler they are in, ...
Stop ==
  /\ life = "on"
  /\ life' = "stopping"
  /\ UNCHANGED <<at, link, held>>

\* ... and stop() waits for all of them.
Join ==
  /\ life = "stopping"
  /\ \A w \in Workers : held[w] = None
  /\ life' = "off"
  /\ UNCHANGED <<at, link, held>>

Connect(c) ==
  \E w \in Workers : \/ StartConnect(w, c) \/ BeginHandshake(w, c)
                     \/ FinishHandshake(w, c) \/ Exchange(w, c)

Next ==
  \/ \E c \in Connectors : Begin(c) \/ Connect(c)
  \/ \E w \in Workers : Resume(w) \/ Exit(w)
  \/ Stop
  \/ Join

Spec == Init /\ [][Next]_vars

\* Ready handlers are run while some worker is free, a handler that waits for a
\* fulfilled promise goes on, stop() goes on when the workers have left.  The
\* network is part of it: connects and handshakes end, as the code has no
\* timeout that would end them.
Fairness ==
  /\ \A c \in Connectors : WF_vars(Connect(c))
  /\ \A w \in Workers : WF_vars(Resume(w) \/ Exit(w))
  /\ WF_vars(Join)

FairSpec == Spec /\ Fairness

-----------------------------------------------------------------------------
(* Properties *)

\* The variables keep their types.
TypeOK ==
  /\ at \in [Connectors -> {"idle", "posted", "connecting", "shaking", "shaken",
                            "connected"}]
  /\ link \in [Connectors -> {"none", "up", "broken"}]
  /\ held \in [Workers -> Connectors \cup {None}]
  /\ life \in {"on", "stopping", "off", "exited"}

\* With more workers than calling threads, the waiting handlers never take all
\* the workers: one is left to run the handlers of the handshakes.
WorkerLeft ==
  Cardinality(Connectors) < Cardinality(Workers)
    => \E w \in Workers : held[w] = None

\* Every call ends, unless the client is stopped or the process ends.  The
\* constructor accepts any number of workers and takes at least one
\* (workers_count_{std::max<int>(1, workers)}).
EveryCallEnds ==
  \A c \in Connectors : at[c] # "idle" ~> at[c] = "idle" \/ life # "on"

\* stop() returns, or the process ends, if no handshake was unfinished when it
\* stopped the context: nothing else can hold a worker.
StopReturns ==
  (/\ life = "stopping"
   /\ \A w \in Workers : held[w] # None => at[held[w]] = "shaken")
    ~> life \in {"off", "exited"}

\* A stop() that meets a handshake under way waits for ever for the worker that
\* waits for it: the handler that would free the worker is not run any more.
Interrupted ==
  life = "stopping" /\ \E w \in Workers : held[w] # None /\ at[held[w]] = "shaking"

StopInterrupted == [][Interrupted => Interrupted' \/ life' = "exited"]_vars

\* A connection that cannot be made is reported to the caller as an exception,
\* as the client of examples/ssl_hello_world expects.
FailureIsReported == life # "exited"

=============================================================================
