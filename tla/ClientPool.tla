----------------------------- MODULE ClientPool -----------------------------
(***************************************************************************)
(* The client of src/nanorpc/http/client.cpp: calls made by threads of the *)
(* user program share a pool of keep-alive sessions; the handlers of the   *)
(* sessions run on the worker threads of an io_context; a failed send is   *)
(* retried once on another session; run(), stop() and the destructor open  *)
(* and close the whole.  The server is the one of server.cpp seen from the *)
(* wire: it runs each request it has read and answers on the connection    *)
(* the request came on.  The network may reset a connection, the server    *)
(* process may crash and come back.                                        *)
(*                                                                         *)
(* A session is named by its address, so a name is used again once nothing *)
(* refers to the session any more.                                         *)
(***************************************************************************)
EXTENDS Naturals, Sequences, FiniteSets

CONSTANTS
  Calls,          \* activations of the executor (bound of the model)
  Sessions,       \* addresses of session objects (bound of the model)
  Threads,        \* how many calls the user program makes at a time
  Oversized,      \* calls whose response exceeds the client's parser limit
  MaxResets,      \* connections the network may reset (bound of the model)
  MaxCrashes,     \* times the server process may crash (bound of the model)
  ExplicitStop,   \* whether the user program may call stop()
  None            \* no session, no call, no connection

ASSUME PoolAssumption ==
  /\ Oversized \subseteq Calls
  /\ Threads \in Nat \ {0}
  /\ MaxResets \in Nat
  /\ MaxCrashes \in Nat
  /\ ExplicitStop \in BOOLEAN
  /\ None \notin Sessions \cup Calls

VARIABLES
  pc,         \* pc[k]: where call k stands in the executor
  try,        \* try[k]: first or second send of call k
  sess,       \* sess[k]: the executor's local variable `session'
  fresh,      \* fresh[k]: the session get_session() is connecting for k
  result,     \* result[k]: the call whose response k was handed
  pool,       \* session_queue_
  closing,    \* sessions with a posted close that has not run
  sock,       \* sock[s]: the client's end of the connection of s
  requests,   \* requests written, and not yet run by the server
  responses,  \* responses written by the server, and not yet read
  execs,      \* execs[k]: how often the server ran the request of k
  up,         \* whether the server process accepts connections
  resets,     \* connections reset so far
  crashes,    \* server crashes so far
  life,       \* progress of run() and stop(); "off" is stopped()
  ctxStopped, \* context_.stopped()
  owned       \* whether the user program still owns the client object

callVars  == <<pc, try, sess, fresh, result>>
poolVars  == <<pool, closing>>
wireVars  == <<sock, requests, responses>>
hostVars  == <<execs, up>>
faultVars == <<resets, crashes>>
lifeVars  == <<life, ctxStopped, owned>>
vars == <<callVars, poolVars, wireVars, hostVars, faultVars, lifeVars>>

-----------------------------------------------------------------------------
Points == {"idle", "get", "make", "connect", "send", "write", "read",
           "caught", "put", "aborted", "done", "failed", "refused"}
Ended  == {"done", "failed", "refused"}

\* The calls that hold a strong reference to the client (this_.lock()).
Active == {k \in Calls : pc[k] \notin Ended \cup {"idle"}}

Pooled == {pool[i] : i \in 1..Len(pool)}

\* Addresses no shared_ptr refers to: make_shared may return any of them.
Free == {s \in Sessions :
           /\ s \notin Pooled \cup closing
           /\ \A k \in Calls : sess[k] # s /\ fresh[k] # s}

Message  == [call : Calls, try : {1, 2}, sess : Sessions \cup {None}]
Response == [call : Calls, sess : Sessions]

\* weak_ptr::lock succeeds while the program or a running call owns the client.
OwnerAlive == owned \/ Active # {}

\* Workers are inside context_.run(), and the context has not been stopped.
\* run() never restarts a stopped context, so no handler runs after a stop.
HandlersRun == life = "on" /\ ~ctxStopped

Init ==
  /\ pc = [k \in Calls |-> "idle"]
  /\ try = [k \in Calls |-> 1]
  /\ sess = [k \in Calls |-> None]
  /\ fresh = [k \in Calls |-> None]
  /\ result = [k \in Calls |-> None]
  /\ pool = <<>>
  /\ closing = {}
  /\ sock = [s \in Sessions |-> "closed"]
  /\ requests = {}
  /\ responses = {}
  /\ execs = [k \in Calls |-> 0]
  /\ up = TRUE
  /\ resets = 0
  /\ crashes = 0
  /\ life = "off"
  /\ ctxStopped = FALSE
  /\ owned = TRUE

-----------------------------------------------------------------------------
(* Likely slips in the executor; each breaks a property stated below. *)

\* front() without pop().
GetSessionUnpopped(k) ==
  /\ pc[k] = "get"
  /\ \/ /\ pool # <<>>
        /\ pc' = [pc EXCEPT ![k] = "send"]
        /\ sess' = [sess EXCEPT ![k] = Head(pool)]
     \/ /\ pool = <<>>
        /\ pc' = [pc EXCEPT ![k] = "make"]
        /\ UNCHANGED sess
  /\ UNCHANGED <<try, fresh, result, poolVars, wireVars, hostVars, faultVars,
                 lifeVars>>

\* Every call makes a session of its own.
GetSessionUnpooled(k) ==
  /\ pc[k] = "get"
  /\ pc' = [pc EXCEPT ![k] = "make"]
  /\ UNCHANGED <<try, sess, fresh, result, poolVars, wireVars, hostVars,
                 faultVars, lifeVars>>

\* The retry is a loop.
RetryUnlimited(k) ==
  /\ pc[k] = "caught"
  /\ pc' = [pc EXCEPT ![k] = "get"]
  /\ UNCHANGED <<try, sess, fresh, result, poolVars, wireVars, hostVars,
                 faultVars, lifeVars>>

\* The retry sends on the session that has just failed.
RetryOnFailedSession(k) ==
  /\ pc[k] = "caught"
  /\ try[k] = 1
  /\ pc' = [pc EXCEPT ![k] = "send"]
  /\ try' = [try EXCEPT ![k] = 2]
  /\ UNCHANGED <<sess, fresh, result, poolVars, wireVars, hostVars,
                 faultVars, lifeVars>>

\* An error handler that closes the session and forgets the promise.
SendFailedUnnoticed(k) ==
  /\ pc' = [pc EXCEPT ![k] = "aborted"]
  /\ closing' = closing \cup {sess[k]}

\* The pointer put back has been moved from.
PutSessionMoved(k) ==
  /\ pc[k] = "put"
  /\ pc' = [pc EXCEPT ![k] = "done"]
  /\ pool' = Append(pool, None)
  /\ sess' = [sess EXCEPT ![k] = None]
  /\ UNCHANGED <<try, fresh, result, closing, wireVars, hostVars, faultVars,
                 lifeVars>>

\* The first failure ends the call.
GiveUpAtOnce(k) ==
  /\ pc[k] = "caught"
  /\ pc' = [pc EXCEPT ![k] = "failed"]
  /\ closing' = closing \cup ({sess[k]} \ {None})
  /\ sess' = [sess EXCEPT ![k] = None]
  /\ UNCHANGED <<try, fresh, result, pool, wireVars, hostVars, faultVars,
                 lifeVars>>

\* The parser's limit ends the read, but not the wait for it.
OnReadUnnoticed(k) ==
  /\ pc[k] = "read"
  /\ HandlersRun
  /\ \E r \in responses :
       /\ r.sess = sess[k]
       /\ responses' = responses \ {r}
       /\ IF r.call \in Oversized
            THEN UNCHANGED <<pc, result>>
            ELSE /\ pc' = [pc EXCEPT ![k] = "put"]
                 /\ result' = [result EXCEPT ![k] = r.call]
  /\ UNCHANGED <<try, sess, fresh, poolVars, sock, requests, hostVars,
                 faultVars, lifeVars>>

\* run() restarts the context, with the handlers an earlier stop() left in it.
RunRestarts ==
  /\ owned
  /\ life = "off"
  /\ life' = "on"
  /\ ctxStopped' = FALSE
  /\ UNCHANGED <<callVars, poolVars, wireVars, hostVars, faultVars, owned>>

-----------------------------------------------------------------------------
(* The executor, on a thread of the user program. *)

\* catch (...): close the session held, if any, and throw.
Throw(k, how) ==
  /\ pc' = [pc EXCEPT ![k] = how]
  /\ closing' = closing \cup ({sess[k]} \ {None})
  /\ sess' = [sess EXCEPT ![k] = None]

Start(k) ==
  /\ pc[k] = "idle"
  /\ Cardinality(Active) < Threads
  /\ pc' = [pc EXCEPT ![k] = IF OwnerAlive THEN "get" ELSE "refused"]
  /\ UNCHANGED <<try, sess, fresh, result, poolVars, wireVars, hostVars,
                 faultVars, lifeVars>>

\* get_session(), the locked part.  A retry still holds the session whose
\* send failed, until get_session() returns another one.
GetSession(k) ==
  /\ pc[k] = "get"
  /\ \/ /\ pool # <<>>
        /\ pc' = [pc EXCEPT ![k] = "send"]
        /\ sess' = [sess EXCEPT ![k] = Head(pool)]
        /\ pool' = Tail(pool)
     \/ /\ pool = <<>>
        /\ pc' = [pc EXCEPT ![k] = "make"]
        /\ UNCHANGED <<sess, pool>>
  /\ UNCHANGED <<try, fresh, result, closing, wireVars, hostVars, faultVars,
                 lifeVars>>

\* get_session() found no session: the client was not started ...
RefuseSession(k) ==
  /\ pc[k] = "make"
  /\ life = "off"
  /\ Throw(k, "refused")
  /\ UNCHANGED <<try, fresh, result, pool, wireVars, hostVars, faultVars,
                 lifeVars>>

\* ... or it makes one, posts its connect and waits for the outcome.
MakeSession(k) ==
  /\ pc[k] = "make"
  /\ life # "off"
  /\ \E s \in Free :
       /\ fresh' = [fresh EXCEPT ![k] = s]
       /\ sock' = [sock EXCEPT ![s] = "closed"]
  /\ pc' = [pc EXCEPT ![k] = "connect"]
  /\ UNCHANGED <<try, sess, result, poolVars, requests, responses, hostVars,
                 faultVars, lifeVars>>

\* session::send() starts its write and waits for the response.
Send(k) ==
  /\ pc[k] = "send"
  /\ pc' = [pc EXCEPT ![k] = "write"]
  /\ requests' = IF sock[sess[k]] = "open"
                   THEN requests \cup
                          {[call |-> k, try |-> try[k], sess |-> sess[k]]}
                   ELSE requests
  /\ UNCHANGED <<try, sess, fresh, result, poolVars, sock, responses,
                 hostVars, faultVars, lifeVars>>

\* The first failure is caught and the request is sent again.
Retry(k) ==
  /\ pc[k] = "caught"
  /\ try[k] = 1
  /\ pc' = [pc EXCEPT ![k] = "get"]
  /\ try' = [try EXCEPT ![k] = 2]
  /\ UNCHANGED <<sess, fresh, result, poolVars, wireVars, hostVars,
                 faultVars, lifeVars>>

\* The second one ends the call.
GiveUp(k) ==
  /\ pc[k] = "caught"
  /\ try[k] = 2
  /\ Throw(k, "failed")
  /\ UNCHANGED <<try, fresh, result, pool, wireVars, hostVars, faultVars,
                 lifeVars>>

PutSession(k) ==
  /\ pc[k] = "put"
  /\ pc' = [pc EXCEPT ![k] = "done"]
  /\ pool' = Append(pool, sess[k])
  /\ sess' = [sess EXCEPT ![k] = None]
  /\ UNCHANGED <<try, fresh, result, closing, wireVars, hostVars, faultVars,
                 lifeVars>>

-----------------------------------------------------------------------------
(* Handlers, on the workers.  A handler that fulfils the promise of a call *)
(* and the wake-up of the thread that waits for it are one step.           *)

OnConnect(k) ==
  /\ pc[k] = "connect"
  /\ HandlersRun
  /\ fresh' = [fresh EXCEPT ![k] = None]
  /\ \/ /\ up
        /\ pc' = [pc EXCEPT ![k] = "send"]
        /\ sess' = [sess EXCEPT ![k] = fresh[k]]
        /\ sock' = [sock EXCEPT ![fresh[k]] = "open"]
        /\ UNCHANGED closing
     \/ /\ ~up
        /\ Throw(k, "failed")
        /\ UNCHANGED sock
  /\ UNCHANGED <<try, result, pool, requests, responses, hostVars, faultVars,
                 lifeVars>>

\* The handler reports an error: set_exception(), then close().
SendFailed(k) ==
  /\ pc' = [pc EXCEPT ![k] = "caught"]
  /\ closing' = closing \cup {sess[k]}

\* The first write to a connection the peer has dropped may still succeed.
OnWrite(k) ==
  /\ pc[k] = "write"
  /\ HandlersRun
  /\ \/ /\ pc' = [pc EXCEPT ![k] = "read"]
        /\ UNCHANGED closing
     \/ /\ sock[sess[k]] # "open"
        /\ SendFailed(k)
  /\ UNCHANGED <<try, sess, fresh, result, pool, wireVars, hostVars,
                 faultVars, lifeVars>>

\* What the connection holds is read before its end is seen.
OnRead(k) ==
  /\ pc[k] = "read"
  /\ HandlersRun
  /\ \/ \E r \in responses :
          /\ r.sess = sess[k]
          /\ responses' = responses \ {r}
          /\ \/ /\ r.call \notin Oversized
                /\ pc' = [pc EXCEPT ![k] = "put"]
                /\ result' = [result EXCEPT ![k] = r.call]
                /\ UNCHANGED closing
             \/ /\ r.call \in Oversized
                /\ SendFailed(k)
                /\ UNCHANGED result
     \/ /\ sock[sess[k]] # "open"
        /\ \A r \in responses : r.sess # sess[k]
        /\ SendFailed(k)
        /\ UNCHANGED <<result, responses>>
  /\ UNCHANGED <<try, sess, fresh, pool, sock, requests, hostVars, faultVars,
                 lifeVars>>

\* Requests on s that the server has already taken in are run all the same,
\* but their responses have nowhere to go.
Detached(s, reqs) ==
  {IF m.sess = s THEN [m EXCEPT !.sess = None] ELSE m : m \in reqs}

\* A posted close runs.  Closing an open socket aborts what is pending on it;
\* the handlers of send() return on operation_aborted and leave the promise of
\* the call unset.  On a broken connection shutdown() may fail, and then the
\* socket is not closed.
CloseSession(s) ==
  /\ HandlersRun
  /\ s \in closing
  /\ closing' = closing \ {s}
  /\ \/ sock' = [sock EXCEPT ![s] = "closed"]
     \/ sock[s] = "broken" /\ UNCHANGED sock
  /\ pc' = [k \in Calls |->
              IF sock[s] = "open" /\ sess[k] = s /\ pc[k] \in {"write", "read"}
                THEN "aborted" ELSE pc[k]]
  /\ requests' = Detached(s, requests)
  /\ responses' = {r \in responses : r.sess # s}
  /\ UNCHANGED <<try, sess, fresh, result, pool, hostVars, faultVars,
                 lifeVars>>

-----------------------------------------------------------------------------
(* The server, and what goes wrong around it. *)

\* A server session runs a request it has read and writes the response.
Execute(m) ==
  /\ up
  /\ m \in requests
  /\ requests' = requests \ {m}
  /\ execs' = [execs EXCEPT ![m.call] = @ + 1]
  /\ responses' = IF m.sess = None
                    THEN responses
                    ELSE responses \cup {[call |-> m.call, sess |-> m.sess]}
  /\ UNCHANGED <<callVars, poolVars, sock, up, faultVars, lifeVars>>

\* The network drops a connection, with any part of what is in flight on it.
Reset(s) ==
  /\ resets < MaxResets
  /\ resets' = resets + 1
  /\ sock[s] = "open"
  /\ sock' = [sock EXCEPT ![s] = "broken"]
  /\ \E lost \in SUBSET {m \in requests : m.sess = s} :
       requests' = Detached(s, requests \ lost)
  /\ \E lost \in SUBSET {r \in responses : r.sess = s} :
       responses' = responses \ lost
  /\ UNCHANGED <<callVars, poolVars, hostVars, crashes, lifeVars>>

\* The server process ends: every connection breaks, every request not yet
\* run is gone.  Responses already received by the client may survive.
Crash ==
  /\ crashes < MaxCrashes
  /\ up
  /\ up' = FALSE
  /\ crashes' = crashes + 1
  /\ sock' = [s \in Sessions |-> IF sock[s] = "open" THEN "broken" ELSE sock[s]]
  /\ requests' = {}
  /\ responses' \in SUBSET responses
  /\ UNCHANGED <<callVars, poolVars, execs, resets, lifeVars>>

Restart ==
  /\ ~up
  /\ up' = TRUE
  /\ UNCHANGED <<callVars, poolVars, wireVars, execs, faultVars, lifeVars>>

-----------------------------------------------------------------------------
(* The life of the client object. *)

\* run() does not look at the state of the context: after a stop() the workers
\* it starts leave a stopped context at once.
Run ==
  /\ owned
  /\ life = "off"
  /\ life' = "on"
  /\ UNCHANGED <<callVars, poolVars, wireVars, hostVars, faultVars,
                 ctxStopped, owned>>

\* stop(), called by the program or by the destructor once the last reference
\* is gone: it stops the context, ...
StopContext ==
  /\ life = "on"
  /\ IF owned THEN ExplicitStop ELSE Active = {}
  /\ life' = "draining"
  /\ ctxStopped' = TRUE
  /\ UNCHANGED <<callVars, poolVars, wireVars, hostVars, faultVars, owned>>

\* ... drops the pooled sessions, whose sockets close: once by moving the queue
\* out and once more by assigning an empty one.  Neither takes lock_, so calls
\* get and put sessions before, between and after.
DrainPool ==
  /\ life \in {"draining", "assigning"}
  /\ life' = IF life = "draining" THEN "assigning" ELSE "joining"
  /\ pool' = <<>>
  /\ sock' = [s \in Sessions |-> IF s \in Pooled THEN "closed" ELSE sock[s]]
  /\ UNCHANGED <<callVars, closing, requests, responses, hostVars, faultVars,
                 ctxStopped, owned>>

\* ... and joins and forgets the workers.
JoinWorkers ==
  /\ life = "joining"
  /\ life' = "off"
  /\ UNCHANGED <<callVars, poolVars, wireVars, hostVars, faultVars,
                 ctxStopped, owned>>

\* The program gives up the client object.
Release ==
  /\ owned
  /\ life \in {"off", "on"}
  /\ owned' = FALSE
  /\ UNCHANGED <<callVars, poolVars, wireVars, hostVars, faultVars, life,
                 ctxStopped>>

-----------------------------------------------------------------------------
Caller(k) ==
  \/ GetSession(k) \/ RefuseSession(k) \/ MakeSession(k)
  \/ Send(k) \/ Retry(k) \/ GiveUp(k) \/ PutSession(k)

Handler(k) == OnConnect(k) \/ OnWrite(k) \/ OnRead(k)

Fault == Crash \/ Restart \/ \E s \in Sessions : Reset(s)

Life == Run \/ StopContext \/ DrainPool \/ JoinWorkers \/ Release

Next ==
  \/ \E k \in Calls : Start(k) \/ Caller(k) \/ Handler(k)
  \/ \E s \in Sessions : CloseSession(s)
  \/ \E m \in requests : Execute(m)
  \/ Fault
  \/ Life

Spec == Init /\ [][Next]_vars

\* A thread that is not blocked goes on; a worker runs every handler that is
\* ready; a server that is up answers what it has read.  Nothing obliges the
\* program to make a call, to run, to stop or to release the client, nor the
\* server to come back.
Fairness ==
  /\ \A k \in Calls : WF_vars(Caller(k)) /\ WF_vars(Handler(k))
  /\ \A s \in Sessions : WF_vars(CloseSession(s))
  /\ WF_vars(\E m \in requests : Execute(m))

FairSpec == Spec /\ Fairness

-----------------------------------------------------------------------------
(* Properties *)

\* The variables keep their types.
TypeOK ==
  /\ pc \in [Calls -> Points]
  /\ try \in [Calls -> {1, 2}]
  /\ sess \in [Calls -> Sessions \cup {None}]
  /\ fresh \in [Calls -> Sessions \cup {None}]
  /\ result \in [Calls -> Calls \cup {None}]
  /\ pool \in Seq(Sessions)
  /\ closing \subseteq Sessions
  /\ sock \in [Sessions -> {"closed", "open", "broken"}]
  /\ requests \subseteq Message
  /\ responses \subseteq Response
  /\ execs \in [Calls -> Nat]
  /\ up \in BOOLEAN
  /\ resets \in Nat
  /\ crashes \in Nat
  /\ life \in {"off", "on", "draining", "assigning", "joining"}
  /\ ctxStopped \in BOOLEAN
  /\ owned \in BOOLEAN

\* A session is in one place: in the queue once, or held by one call.  Two
\* calls on one socket would interleave their writes and swap responses.
ExclusiveSession ==
  /\ \A i, j \in 1..Len(pool) : i # j => pool[i] # pool[j]
  /\ \A k \in Calls : sess[k] \notin Pooled /\ fresh[k] \notin Pooled
  /\ \A j, k \in Calls :
       /\ sess[j] # None => sess[j] # fresh[k]
       /\ (j # k /\ sess[j] # None) => sess[j] # sess[k]
       /\ (j # k /\ fresh[j] # None) => fresh[j] # fresh[k]

\* A session in the queue is idle on the wire: no request or response of an
\* earlier call is left on it, and no close is pending that would hit the next
\* call to use it.
PooledQuiet ==
  \A s \in Pooled :
    /\ s \notin closing
    /\ \A m \in requests : m.sess # s
    /\ \A r \in responses : r.sess # s

\* No socket is closed under a call that uses it: the handlers of send() would
\* see operation_aborted, return, and leave the caller waiting for ever.
NeverAborted == \A k \in Calls : pc[k] # "aborted"

\* A call that returns was run by the server, and what it returns is the
\* server's response to that call and to no other.
OwnResponse ==
  \A k \in Calls : pc[k] \in {"put", "done"} => result[k] = k /\ execs[k] > 0

\* The server runs a call at most once for each send: once if the first send
\* was not retried, twice at most.
OncePerTry == \A k \in Calls : execs[k] <= try[k]

\* A single dropped connection is never seen by the caller: it takes two, or a
\* crash of the server, or a response too large, to make a call fail.
OneResetIsMasked ==
  \A k \in Calls :
    pc[k] = "failed" => resets > 1 \/ crashes > 0 \/ k \in Oversized

\* A call that waits on a sound connection does not wait in vain: the server has
\* its request and is up, or its response is there.
NoVainWait ==
  \A k \in Calls :
    pc[k] \in {"write", "read"} /\ sock[sess[k]] = "open" =>
      \/ up /\ \E m \in requests : m.call = k /\ m.sess = sess[k]
      \/ \E r \in responses : r.call = k /\ r.sess = sess[k]

\* stop() is final: a call that waits for a handler by then waits for ever, and no
\* call returns but one that has its response already, whether run() is called
\* again or not.
StopIsFinal ==
  [][\A k \in Calls : ctxStopped =>
       /\ ctxStopped'
       /\ pc[k] \in {"connect", "write", "read"} => pc'[k] = pc[k]
       /\ pc'[k] \in {"put", "done"} => pc[k] \in {"put", "done"}]_vars

\* Calls that have taken a session, or will, because they found the queue empty.
Holders == {k \in Calls : pc[k] \in {"make", "connect", "send", "write", "read",
                                     "put", "aborted"}}

\* The queue has no limit of its own; it never holds more sessions than there
\* were concurrent calls.
PoolBound == Len(pool) + Cardinality(Holders) <= Threads

\* A client on which nobody calls stop() ends every call, by a result or an
\* exception, whatever connections or servers are lost.
EveryCallReturns == \A k \in Calls : k \in Active ~> pc[k] \in Ended

\* The client keeps the promise of RpcCalls.
CallStatus(k) ==
  CASE pc[k] = "idle" -> "idle"
    [] pc[k] = "done" -> "returned"
    [] pc[k] \in {"failed", "refused"} -> "raised"
    [] OTHER -> "open"

Abstract == INSTANCE RpcCalls WITH
  status <- [k \in Calls |-> CallStatus(k)],
  served <- execs,
  answer <- result

ImplementsRpcCalls == Abstract!Spec

=============================================================================
