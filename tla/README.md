# nanorpc in TLA+

nanorpc is a C++17 RPC framework: functions registered on a
server are called by name from a client, through an `executor`
(`buffer -> buffer`), which is usually an HTTP or HTTPS exchange. This directory
models the parts of it that run concurrently or can fail half-way, checks them
with TLC and proves their main properties with TLAPS. Paths below are relative
to the root of the repository.

    tlc -workers 2 -config PoolSafety.cfg MCClientPool     # a run
    tlapm ClientPoolProofs.tla                             # the proofs

## 1. The system

| component | state | operations | talks to |
|---|---|---|---|
| HTTP client (`src/nanorpc/http/client.cpp` 180-470) | queue of sessions, lock, io_context, workers, weak owner | executor, `get_session`, `put_session`, `run`, `stop`, destructor | the user's threads call the executor; sessions |
| client session (same file, 30-170; http 470-500, https 520-632) | socket, strand, one promise per call | `connect`, `send`, `close` and their handlers | server session over TCP; the waiting caller through the promise |
| server and listener (`src/nanorpc/http/server.cpp` 332-550) | listener, acceptor and its one socket, io_context, workers | `run`, `stop`, destructor, the accept chain | creates sessions |
| server session (same file, 41-330; http 568-606, https 662-714) | socket, strand, references held by handlers | handshake, read loop, `handle_request`, reply, close | peer over TCP; the user's function |
| core client and server (`include/nanorpc/core`) | registry of handlers; a result's cached value | `call`, `result::as`; `handle`, `execute` | the executor; the packer |
| plain text packer (`include/nanorpc/packer`) | a stream | `pack`, `unpack` | core client and server |
| posting, errors (`detail/utility.h`, `core/exception.h`) | none | `post`, `handle_error` | everything |

A call runs through them like this: a user thread packs the arguments, takes a
session out of the client's queue (or makes and connects one), starts a write and
blocks on a promise; worker threads run the write and read handlers; the server's
workers read the request, run the function on the session's strand, and write the
response; the read handler of the client fulfils the promise; the caller puts the
session back and unpacks the result.

What is hard about it:

- *Shared sessions.* Calls, handlers and posted closes of different workers meet on
  one session; a session given back too early mixes up two calls.
- *Retries.* The first failure of a send is retried on another session. The server
  may have run the request already, or may run it later.
- *Promises.* A handler that returns without fulfilling its promise leaves a caller
  blocked for ever; there is no timeout anywhere.
- *Lifetimes.* Objects live as long as a handler refers to them: the listener is
  referred to by raw pointer, the session by `shared_from_this()`, except in one
  handler; destructors run on several threads.
- *Stopping.* `stop()` interrupts all of it, from the user's thread or a destructor.
- *Limits.* Requests above 1 MB and responses above 8 MB are parser errors.

`PROJECT.json` lists the hazards with their lines and the properties that cover
them.

What would make each part correct: a session belongs to one call at a time, a call
returns its own response, is run at most once per send, and returns (client); one
accept chain, alive as long as the server runs, quiet after `stop()` (listener);
one answer per request, its own, and one run of the function, and an end when the
peer has gone (server session); a readable reply to any request, an exception for every
failure, the function's own result and no other (core); `unpack(pack(v)) = v` for every
value that a stream can hold, and nothing read beyond it (packer).

## 2. The modules

| module | what it is |
|---|---|
| `RpcCalls` | abstract: what an executor promises its caller |
| `RemoteCall` | abstract: what nanorpc promises whoever calls a remote function |
| `Connection` | abstract: what the server promises whoever holds the other end of a connection |
| `ClientPool`, `MCClientPool`, `ClientPoolProofs`, `ClientPoolLimits` | the http client with its sessions, implements `RpcCalls` |
| `TlsConnect`, `MCTlsConnect`, `TlsConnectProofs` | how the https client connects |
| `ServerLifecycle`, `MCServerLifecycle`, `ServerLifecycleProofs` | server object, listener, workers |
| `ServerSession`, `MCServerSession`, `ServerSessionProofs`, `ServerSessionRefinement` | one server connection, http or https; implements `Connection` |
| `CoreRpc`, `MCCoreRpc`, `CoreRpcProofs` | `call`, `handle`, `execute` and `result::as` over an executor (`RpcCalls`) and any packer; implements `RemoteCall` |
| `PlainStream`, `PlainStreamProofs` | the streams of the plain text packer: single values, and values one after another |
| `PlainText` | the plain text packer for nested types, as operators on top of `PlainStream`; `MCCoreRpc` gives it to `CoreRpc` |

They stack up as the library does. A user's call is `RemoteCall`; `CoreRpc` implements it
on top of `RpcCalls`; `ClientPool` implements that on top of sessions and a server seen
from the wire; `ServerSession` is that server seen from inside, and implements
`Connection`; `TlsConnect` and
`ServerLifecycle` are what makes the sessions of either side.

### ClientPool

A call of the executor is a process with a program counter `pc[k]`; the actions
`Start`, `GetSession`, `RefuseSession`, `MakeSession`, `Send`, `Retry`, `GiveUp`,
`PutSession` are its steps in program order (client.cpp 278-317, 410-438), where
`sess[k]` is the local variable `session`, kept across the retry as in the code.
`OnConnect`, `OnWrite`, `OnRead` and `CloseSession` are the handlers on the workers;
fulfilling a promise and waking its caller are one step. `closing` holds posted
closes: `CloseSession` closes the socket and aborts what is pending on it, and an
aborted handler returns *without* fulfilling the promise (`"aborted"`, 131, 152).
`Execute`, `Reset`, `Crash`, `Restart` are the server and the network.
`Run`, `StopContext`, `DrainPool` (twice, without the lock, as line 357 assigns),
`JoinWorkers`, `Release` are the life of the object; `Active` is who holds a strong
reference. Sessions are named by address, so a freed name is used again.
`SendFailed` is `set_exception` followed by `close()`.

Abstractions: requests stay below the server's limit (`ServerSession` has what
happens otherwise); a server that is up answers what it has read; the torn state a
data race on `session_queue_` could leave beyond the interleavings of the two
assignments is memory corruption and has no state here.

### TlsConnect

The handler of the TCP connect starts the handshake and waits for it inside the
handler (client.cpp 563-584): `held[w]` is the call worker `w` waits for. `Running(w)`
guards every handler. `Exchange` merges the handlers of `send()`, which wait for
nothing. When the waited-for promise holds an exception, `Exit` ends the process as
the worker does (337-342).

### ServerLifecycle

The accept chain is a task that moves through `"first"` (posted by `listener::run`),
`"pending"` (an `async_accept`), `"done"` or `"aborted"` (its handler), `"made"` (that
handler after its try block) and `"again"` (the task it posts); each carries the number
of its listener, `gen`. `tasks` holds queued ones, `at[w]` what worker `w` runs.
`Alive(g)` says who refers to listener `g`; when nobody does, `DestroyListener` aborts
the accept and closes the port. A handler that meets a destroyed listener either finds
the old memory or crashes the process. `Run`, `DropListener`, `StopContext`, `JoinWorkers`
are `run()` and `stop()`; `Destroy` is the end of `~impl`, before the destructor of
the base class stops the server. The context is never restarted, so `ctxStopped` stays
true across runs, as in the code. Sessions only occupy workers (`Serve`, `EndServe`).

### ServerSession

`HandleRequest` is one whole `on_read`: it runs the function (`Execute`), replies
(`Reply`) and goes on or closes (`GoOn`). `ReadFails` is `on_read` after an error other
than end_of_stream: the code handles the empty request it has, replies 404 and reads on.
How a connection ends matters here. After `"fin"` (the end of the stream, on TLS said with
close_notify) a read gives end_of_stream and the session closes (`EndOfStream`). A TLS
connection that ends without close_notify (`"cut"`), which `Endings` allows a peer because
the sessions dropped by `client::stop()` end so, gives `stream_truncated` at every read; it
is an error like any other to `on_read`. A `"reset"` is reported once, and what is read
after it is `"fin"` on a bare socket and `"cut"` on TLS. Replies to a peer that has gone
pass through `writing`, and `WriteEnds` drops them, with a close or without, as `on_write`
sees one error or another. `Unread` is the buffer made for each read, which takes what it holds beyond a request
with it. `writing` is an `async_write` in progress (only a response larger than the send
buffer takes several steps), `tasks` the posted tasks, `shut` the half-closed socket,
`stream` the TLS stream; `Alive` says that some handler still refers to the session.
The peer does not pipeline, as client.cpp and the benchmark of the README do not. A peer
that does could make two writes overlap; that is not modelled. For one that does not,
`OneUnderWay` shows that starting the next read before the write has ended is harmless.

`Connection` is what is left for the peer: it asks, its request is served at most once
while it waits, the answer is the one to that request and complete if the connection is
kept, and the server breaks off without an answer only at the first request with nothing
served (the failed handshake). All tasks, buffers and the strand are gone; requests,
answers and runs are mapped one to one (`Promise`).

### CoreRpc

This is a call from end to end. The executor in between is `Executor`, an instance of
`RpcCalls`: `CoreRpc` shares its variables, and `Call`, `Execute`, `Receive`, `Return`
and `Throw` each take one of its steps. So the request may reach the server twice, or
once more after the call has failed, and the reply is any of those given to it.

`Handle` is `server::handle` with its refusal of an id that is taken (two names may have
one hash). `Accepts` holds the checks of `execute` in their order, `Refuse` its outer
catch, `Execute` the wrapper, the function and the inner catch with the four outcomes the
code tells apart: the function returns a value, returns nothing, throws, or packing its
result throws after *good* and a part of the result were packed (`Partial`). `Call`,
`Throw`, `Return`, `As` are the client; `As` keeps the value, later calls find it kept.
Other programs send requests and replies that are cut off, or of other kinds and versions
(`ForeignCall`, `ForeignReply`). Functions are registered before any call, as
`make_server` does, because `execute` reads the registry without a lock.

A message is the numbers in front of it and the packed rest. `Pack` and `Unpack` are
parameters, as the packer is one of the templates `client` and `server`; `Clean` and
`Kept` say which values it keeps and as what. `PackerAssumption` is all that is assumed
of them: `Unpack(t, Pack(t, v)) = Kept(t, v)` for a clean `v`. `core_calls` gives them
their values from `PlainText`, and TLC evaluates the assumption for it. `ran[c]` remembers
each run with its arguments and its outcome; `RemoteCall` is stated in terms of it.

### PlainStream and PlainText

`PlainStream` has what needs no recursion over types: one value written (`PackScalar`) and
read (`UnpackScalar`), items written and read one after another (`PackIterable`,
`ReadEach`, `ReadItems`). `PlainText` puts them together.

`PackValue` and `UnpackValue` are `pack_value` and `unpack_value` with one case for each
overload: arithmetic types, enumerations, the three kinds of char, strings, tuples and
pairs, structs (`ToTuple`, `FromTuple` are `to_tuple` and `make_from_tuple`), sequences,
sets and maps. A buffer is a sequence of lexemes. A stream that has failed
stays failed, and what is read from it afterwards keeps what it had: `Item` says which
objects nobody had initialised (`Junk`). `Survives` and `Returned` are the reference: all
values come back but blank signed chars and doubles that are not finite, and doubles come
back with six digits.

Abstractions: numbers have one digit, so that their decimal, hexadecimal and floating forms
read alike; the blanks between lexemes are left out.

## 3. The runs

| run | bounds | shows |
|---|---|---|
| `pool_safety` | 3 calls, 2 threads, 4 sessions, 2 resets, one response too large, `stop()` | `ExclusiveSession`, `PooledQuiet`, `NeverAborted`, `OwnResponse`, `OneResetIsMasked`, `PoolBound`, `StopIsFinal`, types |
| `pool_faults` | 2 calls, 3 sessions, one crash with restart, one response too large | `ImplementsRpcCalls`, `OncePerTry`, `NoVainWait`, and every call of a client nobody stops ends (`EveryCallReturns`) |
| `tls_enough_workers` | 3 workers, 2 callers | `WorkerLeft`, `EveryCallEnds`, `StopReturns`, `StopInterrupted` |
| `tls_connect_fails` | smallest | violation: `FailureIsReported` |
| `server_runs` | 3 workers, 2 connections, 2 runs, 2 failures | `OneAccept`, `QuietWhenStopped`, `EveryConnectionServed`, `StopReturns`, `CrashOnlyInStop`, `StopIsFinal`, types |
| `server_stop_race` | 2 workers, 1 connection | violation: `NoDanglingListener` |
| `server_destroyed` | the same | violation: `NoPureCall` |
| `session_answers` | 3 requests of all seven kinds, with or without keep-alive, http and TLS | `OwnAnswer`, `RunOnce`, `OneUnderWay`, `KeptAnswerWhole`, `NeverBothWait`, `ImplementsConnection`, each request gets a response unless the peer resets or the TLS handshake fails (`EveryRequestAnswered`), the session ends once its peer has gone and it can tell (`SessionEnds`), types |
| `session_oversized` | 2 requests, one too large | violation: `NoSurplusAnswer` |
| `session_shutdown` | 1 request, TLS | violation: `ShutdownInTime` |
| `session_truncated` | 1 request, TLS | violation: `EverySessionEnds` |
| `core_calls` | 3 functions, two with one hash, arguments of nested types and of a wrong one, values that do not survive, 1 call | `ReplyReadable`, `FailureRaised`, `ArgumentsArrive`, `OwnResult`, `RegisteredStays`, `ImplementsRemoteCall`, types |

Why the bounds are enough. *Pool*: two concurrent calls contend for one session, a
third finds what they left behind; a call holds at most a failed session and a new
one, so four addresses let every call have both while a pooled one waits, and the
reuse of an address happens. Two resets hit both sends of a call. *TLS*: one worker more
than callers is the case the code needs (`OneWorkerStarves` has the least it accepts).
*Server*: a chain has one element per listener; two runs make two chains meet; three
workers let a session, a chain and a stop overlap. *Session*: the state between two requests
is that of the first one again; three requests show an answer before, at and after an
odd one. *Core*: calls share the registry only, which no call changes, so one call meets
every case; three names give every order of a collision. The three functions have each
kind of type in an argument or a result: a map from strings to structs of numbers,
enumerations and vectors of strings; a vector of doubles; a set of chars; a tuple with an
`int8_t`. Their values include empty containers, strings with blanks, a blank char, a double
beyond six digits and one that is not finite. The constants that bound a counter (`MaxResets`, `MaxCrashes`, `MaxRuns`,
`MaxFailures`, `MaxRequests`, `MaxJunk`) are guards and are named so. `MaxWrites` bounds the
replies a session has under way to a TLS peer that has gone: it would write them without end,
and its read waits in the model until one of them is over.

Symmetry (sessions, calls of one kind) is used in `pool_safety` only, which checks
invariants only. Deadlock checking is off everywhere because all these systems may
rest: when all calls have returned, when the process has exited or crashed, when the
peer has gone.

Fairness is what the program's threads justify: a caller that is not blocked goes on,
a worker runs what is ready, a handler that is running finishes (the user's function
included). `ServerLifecycle` assumes strong fairness for taking an accept handler, because
the queue of an io_context is first in, first out, and sessions may occupy the workers
again and again in between. The network is assumed to end a connect or a handshake, and
a server that is up to answer, because the code has no timeout that would. Nobody has to
call, run, stop or release anything, nor a crashed server to come back.

## 4. What the violations show

- `tls_connect_fails`: a refused connection or a failed handshake ends the process by
  `std::exit` instead of an exception in the caller.
- `server_stop_race`: `stop()` frees the listener before it stops the context; the aborted
  accept handler uses it. A server that is not being stopped or destroyed is safe from it
  (`CrashOnlyInStop`, proved).
- `server_destroyed`: a server that is not stopped before its destructor may call the
  pure virtual `make_session`. `make_server` of the easy interface and the examples
  always end this way.
- `session_oversized`: an oversized request is answered with 404, what is left of its
  body is parsed as further requests that are answered too, and the client's next calls
  on that session take those answers for theirs.
- `session_shutdown`: `async_shutdown` does not keep the session; its TLS stream is
  destroyed under it.
- `session_truncated`: `on_read` closes after end_of_stream only. A TLS peer that resets, or
  leaves without close_notify as the library's own https client does when it is stopped, is
  `stream_truncated` to it: the session answers an empty request with 404, ignores the failure
  of the write and reads again, for ever. It is never freed (`CutIsNeverFreed`, proved) and
  keeps a worker busy. `SessionEnds` of `session_answers` says that every other session ends.

Some more are in the models without a run of their own. Concurrent https connects occupy one
worker each while they wait for a handler that needs another (client.cpp 581); with one worker,
which the constructor accepts, no call ever gets a connection (`OneWorkerStarves`, proved for any
number of calls, which is more than a run with `Workers = {w1}` and its lasso for `EveryCallEnds`
would show). With more workers than calling threads it cannot happen (`WorkerLeft`, proved). A
`stop()` that meets such a wait never returns (`StopInterrupted`, proved). `get_session` asks `stopped()`
only when the queue is empty: a call in flight puts its session back after `stop()` has
emptied the queue, and a later call gets it from the stopped client and waits for ever (`StopIsFinal` of
`ClientPool`, proved: `run()` does not help). A
result that cannot be packed is answered with *good*, and the client takes what was packed
of it, and the number of the failure behind it, for the result. Arguments of the wrong
types run the function with what they happen to read as, or with default values. A name that
was refused because its hash is taken runs the function that has the hash. A blank `int8_t`
leaves nothing to read and shifts every value behind it; a double that is not finite fails
the stream, and numbers in containers read afterwards are uninitialised, as many as the
message announces (`ShortListFails`). A server that is stopped and run again never serves
(`StopIsFinal` of `ServerLifecycle`, proved), and a large response to a
request *without* keep-alive may be cut by the close that is posted right after
`async_write` began; `KeptAnswerWhole` shows that nothing else can cut one.

Two more were met while reading and have no model: `handle_error` turns every exception into
a plain `std::exception` (utility.h 116), so an error handler never learns what went wrong;
and the https client's `close()` (client.cpp 592) starts an `async_shutdown` that does not
keep its session, as `session_shutdown` shows for the server's.

## 5. The proofs

Everything below holds for all values of the constants that satisfy the named
assumptions (`PoolAssumption`, `WorkersAssumption`, `LifecycleAssumption`,
`SessionAssumption`, `CoreAssumption`, `PackerAssumption`).

*ClientPool.* `Safety` proves `SafetyInv`: types; which local variables are set at which
program point (`LocalsSet`); `ExclusiveSession`; a session with a posted close is used by
nobody (`ClosingUnused`); each message on a session that will be used again belongs to a
call waiting on it, and there is at most one (`WireOwned`, `WireSingle`); a response
is the trace of an execution. `ExclusiveSession` alone is not inductive: that a session
is quiet when it is put back needs the wire invariants, and those need that no close is
pending on it. `SessionsExclusive`, `PoolQuiet`, `NoCallAborted`, `ResponsesMatch` follow.
`AtMostOncePerTry` needs `CountInv`, which counts executions and pending requests per
send. `Refinement` shows that initial states and steps map to those of `RpcCalls`.
`ClientPoolLimits` adds the two bounds. `PoolIsBounded`: the running calls are finite and
at most `Threads`, and each that will put a session back has left room for it when it took
one out or found the queue empty. `ResetMasked` rests on `MaskInv`: after one reset at most one
session in use is broken, and none any more once a call has met it, so that the second send of that
call cannot fail. `NobodyWaitsInVain` needs `WaitInv`: a sound connection has a server that is
up, and each call that waits on one has its request with the server or its response on the
way. `ExclusiveSession` and `WireOwned` are what keeps the steps of one call from taking
either away from another. It is the safe part of `EveryCallReturns`: what fairness has to add
is that a server that is up answers and that a worker reads. `NothingAfterStop` is the
action property `StopIsFinal`, action by action from `SafetyInv`.

*TlsConnect.* `SomeWorkerLeft`: waiting handlers wait for distinct calls (`HeldInv`), so
the pigeonhole principle leaves a worker when there are fewer callers than workers.
`OneWorkerStarves` is the opposite: with a single worker the only call in a handshake is the
one that worker waits for (`Starved`), so no handshake ends. `InterruptedForEver` proves
`StopInterrupted`: while `stop()` joins a worker that waits, only the end of the process ends it.

*ServerLifecycle.* `LoopInv` = types, `OneAccept` and `QuietWhenStopped`, inductive
together: `TypeCorrect`, `AcceptLoopHolds`, `StoppedIsQuiet`. Each action replaces the
one element of a chain by one; a new chain has a new number. `ServingIsSafe` (`CrashOnlyInStop`)
and `NothingAfterStop` (`StopIsFinal`) add `RerunInv`: a server that is on has the newest
listener; a context that is not stopped has only had one; and with a stopped context no
worker of a server that is on has a handler. So a handler of an old listener, the only one
that can crash, needs a stop in progress.

*ServerSession.* Two invariants, proved one on the other, for any number and kinds of
requests. `WholeInv` is about the connection: how many answers the peer has (`Counted`), the
steps before the first read (`Started`), and that only the handling of a last request, or a
failed handshake, leads to a close while the peer is there (`Parting`). `TypeCorrect` and
`KeptAnswersWhole` follow. `FlowInv` follows the one request that is not answered: while the
peer waits it is in the inbox, or its response is being written or on its way, and nothing
else is; while the peer is ready everything is empty. This holds until a request exceeds the size
limit; what is then left of it may hold anything, but no request twice (`Unrun`), so that
no function ever runs twice. `AnswersMatch`, `FunctionRunsOnce` and `OneAtATime` follow.
`ServerSessionRefinement` adds `EndInv`, which ties what is under way to what the session
does: a waiting peer is owed something (`AnswerOwed`), a session that does not read has shut
down or is about to (`Closing`), one that reads has not (`OpenWhileRead`), and a connection
that ends under a request was never read from (`NoneEarly`, `Refused`, `NoneLate`).
`CutIsNeverFreed` is the substance of the violation `EverySessionEnds`: a session that reads
from a cut TLS connection reads for ever, because what could stop it, a last request or an end
of the stream, cannot come any more (`OnlyTlsCut`, `StaysCut`).
`NobodyWaitsForNothing` follows, and `Refinement`: every step of a session is one of
`Connection` or a stutter. Without `EndInv` the end of a connection could not be told from
a request dropped half-way.

*CoreRpc.* One invariant, `Each(c)`, says of a call what its request is, that every run for
it is one of the function it names on the arguments it carries, and that every reply reports one
of these runs, is a refusal, or is foreign. It needs nothing of the packer.
`TypeCorrect`, `RepliesReadable` and `FailuresRaised` follow. `ArgumentsAlwaysArrive` and
`ResultsMatch` follow with `PackerAssumption`: they hold with any packer that gives back
what it was given. `Refinement` shows that client, server and executor together implement
`RemoteCall`. `RegistryStays` needs no invariant.

*PlainStream.* What is written comes back: single values (`ScalarComesBack`); tuples and structs
of single values, of any length and mix of types (`RowComesBack`); lists of them of any
length (`ListComesBack`); and in each case what follows in the buffer is left for the next
reader. `ItemsComeBack` says the same of items of any type, for any reader that brings each of
them back, which is the step an induction over types would take. `ShortListFails` says what a
list gets that is cut short. The number of items is arbitrary, so these are inductions, and
the library's induction theorems, which have an operator as parameter, cannot be used.
`Least` (a set of numbers has a least element, from the well-foundedness of `<`) and `UpTo` do
without: they are about sets. `Flattens` unfolds `FlattenSeq` with them, `Remainders` gives what is
left to read after each item, `OnlyRun` shows that this determines what the reader returns.

Every safety property and every refinement the runs check is proved, so all that is only
model-checked is liveness (`EveryCallReturns`, `EveryCallEnds`, `EveryConnectionServed`, both
`StopReturns`, `EveryRequestAnswered`, `SessionEnds`), because TLAPS does not handle fairness, and
that `PlainText` satisfies `PackerAssumption` for nested types, because its operators are
recursive. TLC evaluates the assumption for the types and values of `core_calls`;
`PlainStreamProofs` proves its substance for single values, rows and lists.

## 6. Not modelled

- An end for the calls left waiting by `stop()`: `ClientPool` has these states, and no document
  promises that such calls end. `StopIsFinal` states that they stay waiting, and `EveryCallReturns`
  is about clients that nobody stops.
- The catch around `async_accept` (server.cpp 418-423): only a failed allocation reaches it.
- The operations that closing a *broken* socket would abort (`CloseSession` of `ClientPool`
  aborts those of a sound one): `ClosingUnused`, proved, says that there are none.
- Foreign replies with a well-formed head that says *good*: what another program puts behind it
  is its own affair.
- A request that is cut in the middle by the end of its connection: on http it is answered with
  404 like any parser error and followed by end_of_stream, which `ReadFails` and `EndOfStream`
  have for other reasons.
- The https client session's `close()` and destructor; the race of `async_shutdown`, which
  runs outside the strand, with reads and writes of the same SSL engine (no meaningful state).
- A user's function that calls `stop()` on its own server, or throws something that is not a
  `std::exception`.
- Packing by the user's own `operator<<` and `operator>>`; numbers that overflow.
- Name resolution in the client's constructor (no state after it).
- The overload selection of `packer/detail` and `core/detail`, which happens when the
  program is compiled; the texts of errors; build files and examples.

## 7. Plan

Done, in this order: `RpcCalls` and `ClientPool` (the heart of the library), `TlsConnect`,
`ServerLifecycle`, `ServerSession`, `CoreRpc` over `RpcCalls` with `RemoteCall` above it,
`PlainText`, `Connection`, and the proofs named above. Next:

1. The https client session's `close()` and the object lifetimes it depends on, in
   `TlsConnect`.
2. A peer that pipelines requests in `ServerSession`, with the overlap of two writes.
3. `Connection` under `ClientPool` instead of the server seen from the wire, so that the two
   refinements meet: `Execute` as `Serve` and `Answer` of the connection a call uses.
