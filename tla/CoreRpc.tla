------------------------------- MODULE CoreRpc -------------------------------
(***************************************************************************)
(* A remote call from end to end.  client::call() packs a request and hands *)
(* it to the executor, server::execute() checks it, runs the function and  *)
(* packs a reply, call() checks the reply, and result::as() unpacks the    *)
(* result once and keeps it (include/nanorpc/core).                        *)
(*                                                                         *)
(* The executor in between is RpcCalls, which ClientPool implements: it    *)
(* may hand the request to the server twice, and the reply it returns is   *)
(* one of those the server gave to this request.  The packer is a          *)
(* parameter, as it is of the templates client and server.                 *)
(***************************************************************************)
EXTENDS Naturals, Sequences

CONSTANTS
  Names,        \* names of functions
  Hash,         \* Hash[n]: std::hash of a name, its id
  Params,       \* Params[n]: the type of the tuple of its arguments
  Result,       \* Result[n]: the type it returns, or Void
  Void,
  OtherTypes,   \* types that callers use for arguments and results by mistake
  Values,       \* Values[t]: values of type t
  Word, Text,   \* the types of the protocol's numbers and of error messages
  Calls,        \* calls of client::call() or execute() (bound of the model)
  None,         \* no name, no answer, no value
  Pack(_, _),   \* Pack(t, v): the packer's text of v
  Unpack(_, _), \* Unpack(t, b): what the packer reads from b for a T{}
  Clean(_, _),  \* Clean(t, v): v can be packed without loss,
  Kept(_, _)    \*   apart from rounding it to Kept(t, v)

ASSUME CoreAssumption ==
  /\ Hash \in [Names -> Nat]
  /\ None \notin Names \cup Calls
  /\ DOMAIN Params = Names /\ DOMAIN Result = Names
  /\ \A n \in Names : Params[n] # Void

\* The packer gives back what it was given.
ASSUME PackerAssumption ==
  \A n \in Names : \A t \in {Params[n], Result[n]} \ {Void} : \A v \in Values[t] :
    Clean(t, v) => Unpack(t, Pack(t, v)) = Kept(t, v)

VARIABLES
  registry,     \* handlers_: the functions by their ids
  status, served, answer,               \* of the executor, see RpcCalls
  call,         \* call[c]: the function's name, the type and value of the arguments
  request,      \* request[c]: the message the executor was given
  ran,          \* ran[c]: the runs of functions for c
  replies,      \* replies[c]: the replies to its request
  reply,        \* reply[c]: the one that the executor returned
  got,          \* got[c]: how call() ended
  value         \* value[c]: what result::as() has kept

executor == <<status, served, answer>>
vars == <<registry, executor, call, request, ran, replies, reply, got, value>>

Executor == INSTANCE RpcCalls

-----------------------------------------------------------------------------
(* Messages: the numbers in front, and what follows them. *)

Message(head, body) == [head |-> head, body |-> body]

Version == 1
Request == 1
Response == 2
Fail == 0
Good == 1

\* The i-th number; one that is missing is read as zero.
Number(m, i) == IF i <= Len(m.head) THEN m.head[i] ELSE 0

\* A reply, the run it reports (0: none), and whether it comes from execute().
Replied(m, run, own) == [msg |-> m, run |-> run, own |-> own]
NoReply == Replied(Message(<<>>, <<>>), 0, FALSE)

Init ==
  /\ registry = <<>>
  /\ Executor!Init
  /\ call = [c \in Calls |-> [name |-> None, type |-> None, args |-> None]]
  /\ request = [c \in Calls |-> Message(<<>>, <<>>)]
  /\ ran = [c \in Calls |-> <<>>]
  /\ replies = [c \in Calls |-> {}]
  /\ reply = [c \in Calls |-> NoReply]
  /\ got = [c \in Calls |-> "none"]
  /\ value = [c \in Calls |-> <<>>]

-----------------------------------------------------------------------------
(* Likely slips; each breaks a property stated below. *)

\* handlers_[id] = wrapper.
HandleReplaces(n) ==
  /\ \A c \in Calls : status[c] = "idle"
  /\ registry' = [i \in DOMAIN registry \cup {Hash[n]} |->
                    IF i = Hash[n] THEN n ELSE registry[i]]
  /\ UNCHANGED <<executor, call, request, ran, replies, reply, got, value>>

\* A hash that is taken is replaced by the next one.
HandleProbes(n) ==
  /\ \A c \in Calls : status[c] = "idle"
  /\ registry' = [i \in DOMAIN registry \cup {Hash[n], Hash[n] + 1} |->
                    IF i \in DOMAIN registry THEN registry[i] ELSE n]
  /\ UNCHANGED <<executor, call, request, ran, replies, reply, got, value>>

\* The status is packed before the function has run.
GoodFirst(run, partial) ==
  Message(<<Version, Response, Good>>,
    IF run.how = "returns"
      THEN IF Result[run.of] = Void THEN <<>> ELSE Pack(Result[run.of], run.gave)
      ELSE partial \o Pack(Word, Fail) \o Pack(Text, run.how))

\* The id has not been unpacked before the arguments.
ArgumentsBehind(f, m) == Unpack(Params[f], Pack(Word, Number(m, 3)) \o m.body)

\* The outer catch forgets that `response' was lost with the try block.
BareRefusal == Message(<<Fail>>, Pack(Text, "refused"))

\* The value is returned and not kept.
AsUnkept(c, t) ==
  /\ got[c] = "result"
  /\ value' = [value EXCEPT ![c] = <<[type |-> t, val |-> Unpack(t, reply[c].msg.body)]>>]
  /\ reply' = [reply EXCEPT ![c].msg.body = <<>>]
  /\ UNCHANGED <<registry, executor, call, request, ran, replies, got>>

\* The status has not been unpacked before the result.
AsBehind(c, t) ==
  /\ got[c] = "result"
  /\ value[c] = <<>>
  /\ value' = [value EXCEPT ![c] =
       <<[type |-> t, val |-> Unpack(t, Pack(Word, Good) \o reply[c].msg.body)]>>]
  /\ UNCHANGED <<registry, executor, call, request, ran, replies, reply, got>>

-----------------------------------------------------------------------------
(* The server. *)

\* handle(): functions are registered before any call, as make_server() does;
\* execute() reads handlers_ without a lock.  An id that is taken throws.
Handle(n) ==
  /\ \A c \in Calls : status[c] = "idle"
  /\ Hash[n] \notin DOMAIN registry
  /\ registry' = [i \in DOMAIN registry \cup {Hash[n]} |->
                    IF i = Hash[n] THEN n ELSE registry[i]]
  /\ UNCHANGED <<executor, call, request, ran, replies, reply, got, value>>

\* What execute() runs: the function with the id, if the request is one.
Accepts(m) ==
  /\ Number(m, 1) = Version
  /\ Number(m, 2) = Request
  /\ Number(m, 3) \in DOMAIN registry

\* The outer catch: a reply of its own.
Refusal == Message(<<Version, Response, Fail>>, Pack(Text, "refused"))

\* The reply after a run.  If packing the result throws, "good" and a part of
\* the result have been packed, and the failure is appended.
Reply(run, partial) ==
  CASE run.how = "returns" ->
         Message(<<Version, Response, Good>>,
           IF Result[run.of] = Void THEN <<>> ELSE Pack(Result[run.of], run.gave))
    [] run.how = "throws" ->
         Message(<<Version, Response, Fail>>, Pack(Text, run.how))
    [] run.how = "unpackable" ->
         Message(<<Version, Response, Good>>,
           partial \o Pack(Word, Fail) \o Pack(Text, run.how))

Refuse(c) ==
  /\ Executor!Serve(c)
  /\ ~Accepts(request[c])
  /\ replies' = [replies EXCEPT ![c] = @ \cup {Replied(Refusal, 0, TRUE)}]
  /\ UNCHANGED <<registry, call, request, ran, reply, got, value>>

\* What the user's function f may do with its arguments.
Runs(f, args) ==
  LET Run(how, v) == [of |-> f, with |-> args, how |-> how, gave |-> v]
      Gives == IF Result[f] = Void THEN {None} ELSE Values[Result[f]] IN
    {Run("returns", v) : v \in Gives} \cup {Run("throws", None)} \cup
      {Run("unpackable", v) : v \in IF Result[f] = Void THEN {} ELSE Gives}

\* What of a result was packed before its packing threw.
Partial(run) ==
  IF run.how = "unpackable"
    THEN LET p == Pack(Result[run.of], run.gave) IN {SubSeq(p, 1, n) : n \in 0..Len(p)}
    ELSE {<<>>}

\* The wrapper unpacks the arguments; it cannot tell that they are of other types.
Arguments(f, m) == Unpack(Params[f], m.body)

\* The function with the id is applied to them.
Execute(c) ==
  /\ Executor!Serve(c)
  /\ Accepts(request[c])
  /\ LET f == registry[Number(request[c], 3)] IN
       \E run \in Runs(f, Arguments(f, request[c])) :
         /\ ran' = [ran EXCEPT ![c] = Append(@, run)]
         /\ \E partial \in Partial(run) :
              replies' = [replies EXCEPT ![c] =
                @ \cup {Replied(Reply(run, partial), Len(ran[c]) + 1, TRUE)}]
  /\ UNCHANGED <<registry, call, request, reply, got, value>>

-----------------------------------------------------------------------------
(* The client, and other programs. *)

\* client::call() with arguments of the function's types or of others.
Call(c) ==
  /\ Executor!Begin(c)
  /\ \E n \in Names : \E t \in {Params[n]} \cup OtherTypes : \E a \in Values[t] :
       /\ call' = [call EXCEPT ![c] = [name |-> n, type |-> t, args |-> a]]
       /\ request' = [request EXCEPT ![c] =
                        Message(<<Version, Request, Hash[n]>>, Pack(t, a))]
  /\ UNCHANGED <<registry, ran, replies, reply, got, value>>

\* Other programs send requests that are cut off or of another kind or version.
ForeignRequests ==
  LET Versions == 0..2
      Kinds == {Request, Response} IN
    {<<>>} \cup {<<v>> : v \in Versions} \cup (Versions \X Kinds)
           \cup (Versions \X Kinds \X {Hash[n] : n \in Names})

ForeignCall(c) ==
  /\ Executor!Begin(c)
  /\ \E head \in ForeignRequests :
       request' = [request EXCEPT ![c] = Message(head, <<>>)]
  /\ UNCHANGED <<registry, call, ran, replies, reply, got, value>>

\* Something else answers: an error page, another version, another protocol.
ForeignReplies ==
  {<<>>, <<2, Response, Good>>, <<Version, Request, Good>>, <<Version, Response>>}

ForeignReply(c) ==
  /\ Executor!Serve(c)
  /\ \E head \in ForeignReplies :
       replies' = [replies EXCEPT ![c] =
                     @ \cup {Replied(Message(head, <<>>), 0, FALSE)}]
  /\ UNCHANGED <<registry, call, request, ran, reply, got, value>>

\* A reply reaches the executor.
Receive(c) ==
  /\ Executor!Answer(c)
  /\ \E r \in replies[c] : reply' = [reply EXCEPT ![c] = r]
  /\ UNCHANGED <<registry, call, request, ran, replies, got, value>>

\* The executor throws.
Throw(c) ==
  /\ Executor!Raise(c)
  /\ got' = [got EXCEPT ![c] = "raised"]
  /\ UNCHANGED <<registry, call, request, ran, replies, reply, value>>

\* call() checks the reply and makes a result of it, or throws.
Return(c) ==
  /\ Executor!Return(c)
  /\ LET m == reply[c].msg IN
       got' = [got EXCEPT ![c] = IF /\ Number(m, 1) = Version
                                    /\ Number(m, 2) = Response
                                    /\ Number(m, 3) = Good
                                   THEN "result" ELSE "raised"]
  /\ UNCHANGED <<registry, call, request, ran, replies, reply, value>>

\* result::as(): the first time it unpacks the value and keeps it.  Later it
\* returns the value, or throws bad_any_cast for another type.
As(c, t) ==
  /\ got[c] = "result"
  /\ value[c] = <<>>
  /\ value' = [value EXCEPT ![c] =
                 <<[type |-> t, val |-> Unpack(t, reply[c].msg.body)]>>]
  /\ UNCHANGED <<registry, executor, call, request, ran, replies, reply, got>>

Types == ({Result[n] : n \in Names} \ {Void}) \cup OtherTypes

Next ==
  \/ \E n \in Names : Handle(n)
  \/ \E c \in Calls : \/ Call(c) \/ ForeignCall(c) \/ ForeignReply(c)
                      \/ Refuse(c) \/ Execute(c)
                      \/ Receive(c) \/ Throw(c) \/ Return(c)
                      \/ \E t \in Types : As(c, t)

Spec == Init /\ [][Next]_vars

-----------------------------------------------------------------------------
(* Properties *)

\* The variables keep their types.
TypeOK ==
  /\ \A i \in DOMAIN registry : registry[i] \in Names /\ Hash[registry[i]] = i
  /\ status \in [Calls -> {"idle", "open", "returned", "raised"}]
  /\ served \in [Calls -> 0..2]
  /\ answer \in [Calls -> Calls \cup {None}]
  /\ got \in [Calls -> {"none", "result", "raised"}]
  /\ \A c \in Calls :
       /\ call[c].name \in Names \cup {None}
       /\ Len(ran[c]) <= served[c]
       /\ \A i \in 1..Len(ran[c]) : ran[c][i].of \in Names
       /\ \A r \in replies[c] : r.run \in 0..Len(ran[c]) /\ r.own \in BOOLEAN
       /\ answer[c] # None => reply[c] \in replies[c]
       /\ value[c] # <<>> => got[c] = "result"

\* Whatever request it gets, execute() answers with a message that a client of
\* its version takes for a reply, and never for another protocol.
ReplyReadable ==
  \A c \in Calls : \A r \in replies[c] :
    r.own => /\ Number(r.msg, 1) = Version
             /\ Number(r.msg, 2) = Response
             /\ Len(r.msg.head) = 3

\* A reply that reports a function that is not registered, or that has thrown,
\* never gives a result; nor does a reply that is not from execute().
FailureRaised ==
  \A c \in Calls :
    got[c] = "result" =>
      /\ reply[c].own
      /\ reply[c].run # 0
      /\ ran[c][reply[c].run].how # "throws"

\* Call c names a function that is registered, with arguments of its types.
Fits(c) ==
  /\ call[c].name # None
  /\ Hash[call[c].name] \in DOMAIN registry
  /\ registry[Hash[call[c].name]] = call[c].name
  /\ call[c].type = Params[call[c].name]

\* What a function is run with are the arguments of the call, if they are of
\* its types and the packer does not lose them; and no other function is run.
ArgumentsArrive ==
  \A c \in Calls : Fits(c) =>
    \A i \in 1..Len(ran[c]) :
      /\ ran[c][i].of = call[c].name
      /\ Clean(call[c].type, call[c].args) =>
           ran[c][i].with = Kept(call[c].type, call[c].args)

\* The result of a call is what the run of its function that the reply reports
\* has returned, if it is asked for by its type and the packer does not lose it.
OwnResult ==
  \A c \in Calls :
    LET run == ran[c][reply[c].run]
        type == Result[call[c].name] IN
    /\ Fits(c) /\ got[c] = "result" /\ value[c] # <<>>
    /\ run.how = "returns" /\ type # Void
    /\ value[c][1].type = type /\ Clean(type, run.gave)
    => value[c][1].val = Kept(type, run.gave)

\* A function that handle() has accepted stays the one its id names.
RegisteredStays ==
  [][\A i \in DOMAIN registry : i \in DOMAIN registry' /\ registry'[i] = registry[i]]_vars

\* The abstract call: its stage is that of the executor until call() ends.
stage == [c \in Calls |-> IF got[c] # "none" THEN got[c]
                          ELSE IF status[c] = "idle" THEN "idle" ELSE "open"]
asked == [c \in Calls |-> IF status[c] = "idle" \/ request[c].head = <<>>
                          THEN None ELSE Number(request[c], 3)]
runs == [c \in Calls |-> [i \in 1..Len(ran[c]) |->
                            [of |-> ran[c][i].of, threw |-> ran[c][i].how = "throws"]]]

Abstract == INSTANCE RemoteCall
  WITH Id <- Hash, stage <- stage, asked <- asked, runs <- runs, kept <- value

\* A remote call keeps the promises of RemoteCall: the function asked for runs
\* at most twice, a result needs a run that did not throw, and it stays.
ImplementsRemoteCall == Abstract!Spec

=============================================================================
