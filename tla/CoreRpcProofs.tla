--------------------------- MODULE CoreRpcProofs ---------------------------
(***************************************************************************)
(* For any functions, hashes, calls and any packer that gives back what it *)
(* was given: replies are readable, failures are raised, arguments and     *)
(* results arrive, and a remote call implements RemoteCall.                *)
(*                                                                         *)
(* All of it follows from one invariant, Each(c): what the request of c    *)
(* is, that every run for c is one of its function on its arguments, and   *)
(* that every reply reports one of these runs, a refusal, or is foreign.   *)
(***************************************************************************)
EXTENDS CoreRpc, TLAPS

-----------------------------------------------------------------------------
(* The invariant. *)

\* The function that the request of c names, and what it may do.
Function(c) == registry[Number(request[c], 3)]
RunsFor(c) == Runs(Function(c), Arguments(Function(c), request[c]))

\* The request of a call of client::call().
Asked(c) ==
  /\ call[c].name \in Names
  /\ call[c].type \in {Params[call[c].name]} \cup OtherTypes
  /\ call[c].args \in Values[call[c].type]
  /\ request[c] = Message(<<Version, Request, Hash[call[c].name]>>,
                          Pack(call[c].type, call[c].args))

\* The request of another program, or none.
Foreign(c) ==
  /\ call[c].name = None
  /\ \E head \in ForeignRequests : request[c] = Message(head, <<>>)

\* What a reply to c may be.
Reports(c, r) ==
  \/ r = Replied(Refusal, 0, TRUE)
  \/ \E i \in 1..Len(ran[c]) : \E p : r = Replied(Reply(ran[c][i], p), i, TRUE)
  \/ \E head \in ForeignReplies : r = Replied(Message(head, <<>>), 0, FALSE)

Untouched(c) ==
  /\ ran[c] = <<>> /\ replies[c] = {} /\ value[c] = <<>>
  /\ got[c] = "none" /\ answer[c] = None /\ served[c] = 0
  /\ request[c] = Message(<<>>, <<>>) /\ call[c].name = None

Each(c) ==
  /\ status[c] = "idle" => Untouched(c)
  /\ Asked(c) \/ Foreign(c)
  /\ ran[c] \in Seq(RunsFor(c))
  /\ Len(ran[c]) <= served[c]
  /\ ran[c] # <<>> => Accepts(request[c])
  /\ \A r \in replies[c] : Reports(c, r)
  /\ answer[c] \in {c, None}
  /\ answer[c] # None => reply[c] \in replies[c]
  /\ got[c] = "none" <=> status[c] \in {"idle", "open"}
  /\ got[c] = "result" => /\ answer[c] # None
                          /\ Number(reply[c].msg, 1) = Version
                          /\ Number(reply[c].msg, 2) = Response
                          /\ Number(reply[c].msg, 3) = Good
  /\ value[c] # <<>> =>
       /\ got[c] = "result"
       /\ \E t : value[c] = <<[type |-> t, val |-> Unpack(t, reply[c].msg.body)]>>

Shape ==
  /\ \A i \in DOMAIN registry : registry[i] \in Names /\ Hash[registry[i]] = i
  /\ status \in [Calls -> {"idle", "open", "returned", "raised"}]
  /\ served \in [Calls -> 0..2]
  /\ answer \in [Calls -> Calls \cup {None}]
  /\ got \in [Calls -> {"none", "result", "raised"}]
  /\ DOMAIN call = Calls /\ DOMAIN request = Calls /\ DOMAIN ran = Calls
  /\ DOMAIN replies = Calls /\ DOMAIN reply = Calls /\ DOMAIN value = Calls

Inv == Shape /\ \A c \in Calls : Each(c)

-----------------------------------------------------------------------------
(* Messages. *)

LEMMA Heads ==
  ASSUME NEW x, NEW y, NEW z, NEW b
  PROVE  LET m == Message(<<x, y, z>>, b) IN
           /\ Number(m, 1) = x /\ Number(m, 2) = y /\ Number(m, 3) = z
           /\ Len(m.head) = 3 /\ m.body = b
BY DEF Message, Number

LEMMA ForeignRead ==
  ASSUME NEW head \in ForeignReplies
  PROVE  LET m == Message(head, <<>>) IN
           ~(Number(m, 1) = Version /\ Number(m, 2) = Response /\ Number(m, 3) = Good)
BY DEF ForeignReplies, Message, Number, Version, Request, Response, Good

\* A foreign request names no function but one that has its id, or zero.
LEMMA ForeignIds ==
  ASSUME NEW head \in ForeignRequests
  PROVE  /\ Number(Message(head, <<>>), 3) \in {Hash[n] : n \in Names} \cup {0}
         /\ Message(head, <<>>).body = <<>>
<1> DEFINE m == Message(head, <<>>)
<1>1. CASE head = <<>>
  BY <1>1 DEF Message, Number
<1>2. CASE \E v \in 0..2 : head = <<v>>
  BY <1>2 DEF Message, Number
<1>3. CASE head \in (0..2) \X {Request, Response}
  <2>1. Len(head) = 2
    BY <1>3
  <2>2. ~(3 <= Len(head))
    BY <2>1
  <2> QED
    BY <2>2 DEF Message, Number
<1>4. CASE head \in (0..2) \X {Request, Response} \X {Hash[n] : n \in Names}
  <2>1. Len(head) = 3 /\ head[3] \in {Hash[n] : n \in Names}
    BY <1>4
  <2> QED
    BY <2>1 DEF Message, Number
<1> QED
  BY <1>1, <1>2, <1>3, <1>4 DEF ForeignRequests

\* The reply to a run says whether it has thrown.
LEMMA ReplyReads ==
  ASSUME NEW f, NEW a, NEW run \in Runs(f, a), NEW p
  PROVE  LET m == Reply(run, p) IN
           /\ Number(m, 1) = Version /\ Number(m, 2) = Response
           /\ Number(m, 3) = IF run.how = "throws" THEN Fail ELSE Good
           /\ Len(m.head) = 3
           /\ run.how = "returns" /\ Result[run.of] # Void
                => m.body = Pack(Result[run.of], run.gave)
<1>1. run.how \in {"returns", "throws", "unpackable"}
  BY DEF Runs
<1>2. CASE run.how = "returns"
  BY <1>2, Heads DEF Reply
<1>3. CASE run.how = "throws"
  BY <1>3, Heads DEF Reply
<1>4. CASE run.how = "unpackable"
  BY <1>4, Heads DEF Reply
<1> QED
  BY <1>1, <1>2, <1>3, <1>4

LEMMA RefusalReads ==
  /\ Number(Refusal, 1) = Version /\ Number(Refusal, 2) = Response
  /\ Number(Refusal, 3) = Fail /\ Len(Refusal.head) = 3
BY Heads DEF Refusal

\* What a run is a run of.
LEMMA RunFields ==
  ASSUME NEW f, NEW a, NEW run \in Runs(f, a)
  PROVE  /\ run.of = f /\ run.with = a
         /\ run.how \in {"returns", "throws", "unpackable"}
         /\ run.how = "returns" /\ Result[f] # Void => run.gave \in Values[Result[f]]
BY DEF Runs

-----------------------------------------------------------------------------
(* The invariant is inductive. *)

\* Nothing of call c has changed.
Same(c) ==
  /\ registry' = registry
  /\ status'[c] = status[c] /\ served'[c] = served[c] /\ answer'[c] = answer[c]
  /\ call'[c] = call[c] /\ request'[c] = request[c] /\ ran'[c] = ran[c]
  /\ replies'[c] = replies[c] /\ reply'[c] = reply[c] /\ got'[c] = got[c]
  /\ value'[c] = value[c]

LEMMA SameKeeps ==
  ASSUME NEW c, Same(c), Each(c)
  PROVE  Each(c)'
<1>1. /\ Asked(c)' \/ Foreign(c)'
      /\ RunsFor(c)' = RunsFor(c) /\ Accepts(request[c])' = Accepts(request[c])
  BY DEF Same, Each, Asked, Foreign, RunsFor, Function, Arguments, Accepts
<1>2. \A r \in replies[c] : Reports(c, r)'
  BY DEF Same, Each, Reports
<1>3. Untouched(c)' <=> Untouched(c)
  BY DEF Same, Untouched
<1> QED
  BY <1>1, <1>2, <1>3 DEF Same, Each

\* A step of one call keeps the invariant if it keeps it for that call.
LEMMA StepOfOne ==
  ASSUME Inv, NEW b \in Calls, Shape',
         \A c \in Calls \ {b} : Same(c), Each(b)'
  PROVE  Inv'
BY SameKeeps DEF Inv

LEMMA InitInv == Init => Inv
<1>1. ASSUME Init, NEW c \in Calls
      PROVE  Each(c)
  <2>1. Foreign(c) /\ Untouched(c)
    <3>1. <<>> \in ForeignRequests
      BY DEF ForeignRequests
    <3> QED
      BY <1>1, <3>1 DEF Init, Executor!Init, Foreign, Untouched
  <2>2. ran[c] \in Seq(RunsFor(c))
    BY <2>1 DEF Untouched
  <2> QED
    BY <1>1, <2>1, <2>2 DEF Init, Executor!Init, Each, Untouched
<1>2. Init => Shape
  BY DEF Init, Executor!Init, Shape
<1> QED
  BY <1>1, <1>2 DEF Inv

LEMMA HandleInv ==
  ASSUME Inv, NEW n \in Names, Handle(n)
  PROVE  Inv'
<1>1. Shape'
  BY DEF Handle, Inv, Shape, executor
<1>2. ASSUME NEW c \in Calls
      PROVE  Each(c)'
  <2>1. status[c] = "idle" /\ Each(c)
    BY DEF Handle, Inv
  <2>2. /\ UNCHANGED <<executor, call, request, ran, replies, reply, got, value>>
        /\ Untouched(c)
    BY <2>1 DEF Handle, Each
  <2>3. Untouched(c)' /\ (Asked(c) \/ Foreign(c))'
    BY <2>1, <2>2 DEF Untouched, Asked, Foreign, Each, executor
  <2>4. ran'[c] \in Seq(RunsFor(c)')
    BY <2>3 DEF Untouched
  <2> QED
    BY <2>1, <2>2, <2>3, <2>4 DEF Each, Untouched, executor
<1> QED
  BY <1>1, <1>2 DEF Inv

LEMMA CallInv ==
  ASSUME Inv, NEW b \in Calls, Call(b) \/ ForeignCall(b)
  PROVE  Inv'
<1>1. /\ status[b] = "idle" /\ Each(b) /\ Untouched(b)
      /\ status' = [status EXCEPT ![b] = "open"]
      /\ UNCHANGED <<served, answer, registry, ran, replies, reply, got, value>>
  BY DEF Inv, Each, Call, ForeignCall, Executor!Begin
<1>2. Shape' /\ \A c \in Calls \ {b} : Same(c)
  BY <1>1 DEF Inv, Shape, Same, Call, ForeignCall
<1>3. Asked(b)' \/ Foreign(b)'
  <2>1. ASSUME Call(b)
        PROVE  Asked(b)'
    BY <2>1 DEF Call, Asked, Inv, Shape
  <2>2. ASSUME ForeignCall(b)
        PROVE  Foreign(b)'
    BY <2>2, <1>1 DEF ForeignCall, Foreign, Untouched, Inv, Shape
  <2> QED
    BY <2>1, <2>2
<1>4. ran'[b] = <<>> /\ ran'[b] \in Seq(RunsFor(b)')
  <2>1. ran'[b] = <<>>
    BY <1>1 DEF Untouched
  <2> QED
    BY <2>1
<1>5. Each(b)'
  BY <1>1, <1>3, <1>4 DEF Inv, Shape, Each, Untouched
<1> QED
  BY <1>2, <1>5, StepOfOne

\* A reply that is neither of a run nor a change to anything else.
LEMMA OtherReplyInv ==
  ASSUME Inv, NEW b \in Calls, Refuse(b) \/ ForeignReply(b)
  PROVE  Inv'
<1>1. /\ status[b] # "idle" /\ Each(b) /\ served[b] < 2
      /\ served' = [served EXCEPT ![b] = @ + 1]
      /\ UNCHANGED <<status, answer, registry, call, request, ran, reply, got, value>>
  BY DEF Inv, Refuse, ForeignReply, Executor!Serve
<1>2. PICK r : /\ replies' = [replies EXCEPT ![b] = @ \cup {r}]
               /\ Reports(b, r)
  BY DEF Refuse, ForeignReply, Reports
<1>3. Shape' /\ \A c \in Calls \ {b} : Same(c)
  BY <1>1, <1>2 DEF Inv, Shape, Same
<1>4. \A x \in replies'[b] : Reports(b, x)'
  <2>1. \A x : Reports(b, x) => Reports(b, x)'
    BY <1>1 DEF Reports
  <2> QED
    BY <1>1, <1>2, <2>1 DEF Inv, Shape, Each
<1>5. /\ Asked(b)' \/ Foreign(b)'
      /\ RunsFor(b)' = RunsFor(b) /\ Accepts(request[b])' = Accepts(request[b])
  BY <1>1 DEF Each, Asked, Foreign, RunsFor, Function, Arguments, Accepts
<1>6. served'[b] = served[b] + 1 /\ served'[b] \in 0..2 /\ Len(ran[b]) <= served'[b]
  <2>1. Len(ran[b]) \in Nat /\ Len(ran[b]) <= served[b]
    BY <1>1 DEF Each
  <2>2. served[b] \in 0..2 /\ served'[b] = served[b] + 1
    BY <1>1 DEF Inv, Shape
  <2> QED
    BY <2>1, <2>2, <1>1
<1>7. replies[b] \subseteq replies'[b]
  BY <1>2 DEF Inv, Shape
<1>8. Each(b)'
  BY <1>1, <1>4, <1>5, <1>6, <1>7 DEF Each
<1> QED
  BY <1>3, <1>8, StepOfOne

LEMMA ExecuteInv ==
  ASSUME Inv, NEW b \in Calls, Execute(b)
  PROVE  Inv'
<1>1. /\ status[b] # "idle" /\ Each(b) /\ served[b] < 2
      /\ served' = [served EXCEPT ![b] = @ + 1]
      /\ UNCHANGED <<status, answer, registry, call, request, reply, got, value>>
      /\ Accepts(request[b])
  BY DEF Inv, Execute, Executor!Serve
<1>0. PICK run \in RunsFor(b) : \E p :
        /\ ran' = [ran EXCEPT ![b] = Append(@, run)]
        /\ replies' = [replies EXCEPT ![b] =
             @ \cup {Replied(Reply(run, p), Len(ran[b]) + 1, TRUE)}]
  BY DEF Execute, RunsFor, Function
<1>2. PICK p :
        /\ ran' = [ran EXCEPT ![b] = Append(@, run)]
        /\ replies' = [replies EXCEPT ![b] =
             @ \cup {Replied(Reply(run, p), Len(ran[b]) + 1, TRUE)}]
  BY <1>0
<1>3. Shape' /\ \A c \in Calls \ {b} : Same(c)
  BY <1>1, <1>2 DEF Inv, Shape, Same
<1>4. /\ ran[b] \in Seq(RunsFor(b)) /\ ran'[b] = Append(ran[b], run)
      /\ ran'[b] \in Seq(RunsFor(b)) /\ Len(ran'[b]) = Len(ran[b]) + 1
      /\ Len(ran[b]) \in Nat
      /\ ran'[b][Len(ran[b]) + 1] = run
      /\ \A i \in 1..Len(ran[b]) : ran'[b][i] = ran[b][i]
  BY <1>1, <1>2 DEF Inv, Shape, Each
<1>5. ASSUME NEW x, Reports(b, x)
      PROVE  Reports(b, x)'
  <2>1. ASSUME NEW i \in 1..Len(ran[b]), NEW q, x = Replied(Reply(ran[b][i], q), i, TRUE)
        PROVE  Reports(b, x)'
    <3>1. i \in 1..Len(ran'[b])
      BY <1>4
    <3>2. x = Replied(Reply(ran'[b][i], q), i, TRUE)
      BY <2>1, <1>4
    <3> QED
      BY <3>1, <3>2 DEF Reports
  <2> QED
    BY <1>5, <2>1 DEF Reports
<1>6. ASSUME NEW x, x = Replied(Reply(run, p), Len(ran[b]) + 1, TRUE)
      PROVE  Reports(b, x)'
  <2>1. PICK n : n = Len(ran[b]) + 1
    OBVIOUS
  <2>2. n \in 1..Len(ran'[b])
    BY <1>4, <2>1
  <2>3. x = Replied(Reply(ran'[b][n], p), n, TRUE)
    BY <1>4, <1>6, <2>1
  <2> QED
    BY <2>2, <2>3 DEF Reports
<1>7. \A x \in replies'[b] : Reports(b, x)'
  BY <1>1, <1>2, <1>5, <1>6 DEF Inv, Shape, Each
<1>8. /\ Asked(b)' \/ Foreign(b)'
      /\ RunsFor(b)' = RunsFor(b) /\ Accepts(request[b])'
  BY <1>1 DEF Each, Asked, Foreign, RunsFor, Function, Arguments, Accepts
<1>9. served'[b] = served[b] + 1 /\ served'[b] \in 0..2 /\ Len(ran'[b]) <= served'[b]
  <2>1. Len(ran[b]) <= served[b]
    BY <1>1 DEF Each
  <2>2. served[b] \in 0..2 /\ served'[b] = served[b] + 1
    BY <1>1 DEF Inv, Shape
  <2> QED
    BY <2>1, <2>2, <1>1, <1>4
<1>10. replies[b] \subseteq replies'[b]
  BY <1>2 DEF Inv, Shape
<1>11. Each(b)'
  BY <1>1, <1>4, <1>7, <1>8, <1>9, <1>10 DEF Each
<1> QED
  BY <1>3, <1>11, StepOfOne

LEMMA ReceiveInv ==
  ASSUME Inv, NEW b \in Calls, Receive(b)
  PROVE  Inv'
<1>1. /\ status[b] = "open" /\ answer[b] = None /\ Each(b)
      /\ answer' = [answer EXCEPT ![b] = b]
      /\ UNCHANGED <<status, served, registry, call, request, ran, replies, got, value>>
      /\ \E r \in replies[b] : reply' = [reply EXCEPT ![b] = r]
  BY DEF Inv, Receive, Executor!Answer
<1>2. Shape' /\ \A c \in Calls \ {b} : Same(c)
  BY <1>1 DEF Inv, Shape, Same
<1>3. /\ Asked(b)' \/ Foreign(b)'
      /\ RunsFor(b)' = RunsFor(b) /\ Accepts(request[b])' = Accepts(request[b])
      /\ \A r \in replies[b] : Reports(b, r)'
  BY <1>1 DEF Each, Asked, Foreign, RunsFor, Function, Arguments, Accepts, Reports
<1>4. reply'[b] \in replies'[b] /\ got'[b] = "none" /\ value'[b] = <<>>
      /\ answer'[b] = b
  BY <1>1 DEF Inv, Shape, Each
<1>5. Each(b)'
  BY <1>1, <1>3, <1>4 DEF Each
<1> QED
  BY <1>2, <1>5, StepOfOne

\* call() ends.
LEMMA EndInv ==
  ASSUME Inv, NEW b \in Calls, Throw(b) \/ Return(b)
  PROVE  Inv'
<1>1. /\ status[b] \in {"idle", "open"} /\ Each(b)
      /\ \E s \in {"returned", "raised"} : status' = [status EXCEPT ![b] = s]
      /\ UNCHANGED <<served, answer, registry, call, request, ran, replies, reply, value>>
  BY DEF Inv, Throw, Return, Executor!Raise, Executor!Return
<1>2. \E g \in {"result", "raised"} :
        /\ got' = [got EXCEPT ![b] = g]
        /\ g = "result" => /\ answer[b] = b
                           /\ Number(reply[b].msg, 1) = Version
                           /\ Number(reply[b].msg, 2) = Response
                           /\ Number(reply[b].msg, 3) = Good
  BY DEF Throw, Return, Executor!Return
<1>3. Shape' /\ \A c \in Calls \ {b} : Same(c)
  BY <1>1, <1>2 DEF Inv, Shape, Same
<1>4. /\ Asked(b)' \/ Foreign(b)'
      /\ RunsFor(b)' = RunsFor(b) /\ Accepts(request[b])' = Accepts(request[b])
      /\ \A r \in replies[b] : Reports(b, r)'
  BY <1>1 DEF Each, Asked, Foreign, RunsFor, Function, Arguments, Accepts, Reports
<1>5. value'[b] = <<>>
  BY <1>1 DEF Each
<1>6. b # None
  BY CoreAssumption
<1>7. Each(b)'
  BY <1>1, <1>2, <1>4, <1>5, <1>6 DEF Inv, Shape, Each
<1> QED
  BY <1>3, <1>7, StepOfOne

LEMMA AsInv ==
  ASSUME Inv, NEW b \in Calls, NEW t, As(b, t)
  PROVE  Inv'
<1>1. /\ got[b] = "result" /\ Each(b)
      /\ value' = [value EXCEPT ![b] =
                     <<[type |-> t, val |-> Unpack(t, reply[b].msg.body)]>>]
      /\ UNCHANGED <<registry, status, served, answer, call, request, ran, replies,
                     reply, got>>
  BY DEF Inv, As, executor
<1>2. Shape' /\ \A c \in Calls \ {b} : Same(c)
  BY <1>1 DEF Inv, Shape, Same
<1>3. /\ Asked(b)' \/ Foreign(b)'
      /\ RunsFor(b)' = RunsFor(b) /\ Accepts(request[b])' = Accepts(request[b])
      /\ \A r \in replies[b] : Reports(b, r)'
  BY <1>1 DEF Each, Asked, Foreign, RunsFor, Function, Arguments, Accepts, Reports
<1>4. Each(b)'
  BY <1>1, <1>3 DEF Inv, Shape, Each
<1> QED
  BY <1>2, <1>4, StepOfOne

LEMMA NextInv ==
  ASSUME Inv, [Next]_vars
  PROVE  Inv'
<1>1. CASE UNCHANGED vars
  <2>1. \A c \in Calls : Same(c) /\ Each(c)
    BY <1>1 DEF vars, executor, Same, Inv
  <2>2. Shape'
    BY <1>1 DEF vars, executor, Inv, Shape
  <2> QED
    BY <2>1, <2>2, SameKeeps DEF Inv
<1> QED
  BY <1>1, HandleInv, CallInv, OtherReplyInv, ExecuteInv, ReceiveInv, EndInv, AsInv
  DEF Next

\* The facts about requests, runs and replies hold throughout.
THEOREM Invariance == Spec => []Inv
BY InitInv, NextInv, PTL DEF Spec

-----------------------------------------------------------------------------
(* What follows from it. *)

\* What a client can read from a reply r to c: that it is one, ...
Readable(r) ==
  /\ Number(r.msg, 1) = Version
  /\ Number(r.msg, 2) = Response
  /\ Len(r.msg.head) = 3

Success(r) ==
  /\ Number(r.msg, 1) = Version
  /\ Number(r.msg, 2) = Response
  /\ Number(r.msg, 3) = Good

\* ... and, if it says so, that a function has succeeded, and with what.
Succeeded(c, r) ==
  LET run == ran[c][r.run] IN
  /\ r.own
  /\ r.run # 0 /\ r.run \in 1..Len(ran[c])
  /\ run.how # "throws"
  /\ run.how = "returns" /\ Result[run.of] # Void
       => r.msg.body = Pack(Result[run.of], run.gave)

LEMMA ReportReads ==
  ASSUME NEW c, Each(c), NEW r \in replies[c]
  PROVE  /\ r.run \in 0..Len(ran[c])
         /\ r.own = TRUE \/ r.own = FALSE
         /\ r.own => Readable(r)
         /\ Success(r) => Succeeded(c, r)
<1>1. Len(ran[c]) \in Nat
  BY DEF Each
<1>2. CASE r = Replied(Refusal, 0, TRUE)
  <2>1. r.msg = Refusal /\ r.run = 0 /\ r.own = TRUE
    BY <1>2 DEF Replied
  <2>2. Readable(r) /\ ~Success(r)
    BY <2>1, RefusalReads DEF Readable, Success, Fail, Good
  <2> QED
    BY <1>1, <2>1, <2>2
<1>3. CASE \E head \in ForeignReplies : r = Replied(Message(head, <<>>), 0, FALSE)
  <2>1. PICK head \in ForeignReplies : r = Replied(Message(head, <<>>), 0, FALSE)
    BY <1>3
  <2>2. r.msg = Message(head, <<>>) /\ r.run = 0 /\ r.own = FALSE
    BY <2>1 DEF Replied
  <2>3. ~Success(r)
    BY <2>2, ForeignRead DEF Success
  <2> QED
    BY <1>1, <2>2, <2>3
<1>4. ASSUME NEW i \in 1..Len(ran[c]), NEW p, r = Replied(Reply(ran[c][i], p), i, TRUE)
      PROVE  /\ r.run \in 0..Len(ran[c]) /\ r.own = TRUE
             /\ Readable(r) /\ (Success(r) => Succeeded(c, r))
  <2>1. r.msg = Reply(ran[c][i], p) /\ r.run = i /\ r.own = TRUE
    BY <1>4 DEF Replied
  <2>2. ran[c][i] \in Runs(Function(c), Arguments(Function(c), request[c]))
    BY DEF Each, RunsFor
  <2>3. /\ Readable(r)
        /\ Number(r.msg, 3) = IF ran[c][i].how = "throws" THEN Fail ELSE Good
        /\ ran[c][i].how = "returns" /\ Result[ran[c][i].of] # Void
             => r.msg.body = Pack(Result[ran[c][i].of], ran[c][i].gave)
    BY <2>1, <2>2, ReplyReads DEF Readable
  <2>4. i # 0 /\ i \in 0..Len(ran[c])
    BY <1>1
  <2>5. Success(r) => ran[c][i].how # "throws"
    BY <2>3 DEF Success, Fail, Good
  <2> QED
    BY <2>1, <2>3, <2>4, <2>5 DEF Succeeded
<1> QED
  BY <1>2, <1>3, <1>4 DEF Each, Reports

\* Whatever request it gets, execute() gives a message that a client of its
\* version takes for a reply.
THEOREM RepliesReadable == Spec => []ReplyReadable
<1>1. Inv => ReplyReadable
  BY ReportReads DEF Inv, ReplyReadable, Readable
<1> QED
  BY <1>1, Invariance, PTL

\* A call whose function was not found or has thrown never gives a result.
THEOREM FailuresRaised == Spec => []FailureRaised
<1>1. Inv => FailureRaised
  <2>1. ASSUME Inv, NEW c \in Calls, got[c] = "result"
        PROVE  Succeeded(c, reply[c])
    <3>1. Each(c) /\ reply[c] \in replies[c] /\ Success(reply[c])
      BY <2>1 DEF Inv, Each, Success
    <3> QED
      BY <3>1, ReportReads
  <2> QED
    BY <2>1 DEF FailureRaised, Succeeded
<1> QED
  BY <1>1, Invariance, PTL

\* The variables keep their types.
THEOREM TypeCorrect == Spec => []TypeOK
<1>1. ASSUME Inv, NEW c \in Calls
      PROVE  /\ call[c].name \in Names \cup {None}
             /\ Len(ran[c]) <= served[c]
             /\ \A i \in 1..Len(ran[c]) : ran[c][i].of \in Names
             /\ \A r \in replies[c] : r.run \in 0..Len(ran[c]) /\ r.own \in BOOLEAN
             /\ answer[c] # None => reply[c] \in replies[c]
             /\ value[c] # <<>> => got[c] = "result"
  <2>1. Each(c)
    BY <1>1 DEF Inv
  <2>2. call[c].name \in Names \cup {None}
    BY <2>1 DEF Each, Asked, Foreign
  <2>3. ASSUME NEW i \in 1..Len(ran[c])
        PROVE  ran[c][i].of \in Names
    <3>1. /\ ran[c][i] \in Runs(Function(c), Arguments(Function(c), request[c]))
          /\ Accepts(request[c])
      BY <2>1 DEF Each, RunsFor
    <3>2. ran[c][i].of = Function(c)
      BY <3>1, RunFields
    <3> QED
      BY <1>1, <3>1, <3>2 DEF Inv, Shape, Function, Accepts
  <2>4. ASSUME NEW r \in replies[c]
        PROVE  r.run \in 0..Len(ran[c]) /\ r.own \in BOOLEAN
    <3>1. r.run \in 0..Len(ran[c]) /\ (r.own = TRUE \/ r.own = FALSE)
      BY <2>1, ReportReads
    <3>2. r.own \in BOOLEAN
      BY <3>1, Zenon
    <3> QED
      BY <3>1, <3>2
  <2>5. /\ Len(ran[c]) <= served[c]
        /\ answer[c] # None => reply[c] \in replies[c]
        /\ value[c] # <<>> => got[c] = "result"
    BY <2>1 DEF Each
  <2> QED
    BY <2>2, <2>3, <2>4, <2>5
<1>2. ASSUME Inv
      PROVE  /\ status \in [Calls -> {"idle", "open", "returned", "raised"}]
             /\ served \in [Calls -> 0..2]
             /\ answer \in [Calls -> Calls \cup {None}]
             /\ got \in [Calls -> {"none", "result", "raised"}]
             /\ \A i \in DOMAIN registry : registry[i] \in Names /\ Hash[registry[i]] = i
  BY <1>2 DEF Inv, Shape
<1>3. Inv => TypeOK
  BY <1>1, <1>2 DEF TypeOK
<1> QED
  BY <1>3, Invariance, PTL

\* The runs for a call whose arguments fit are those of its function.
LEMMA FittingRuns ==
  ASSUME Inv, NEW c \in Calls, Fits(c), NEW i \in 1..Len(ran[c])
  PROVE  LET run == ran[c][i] IN
           /\ run.of = call[c].name /\ run.of \in Names
           /\ run.with = Unpack(call[c].type, Pack(call[c].type, call[c].args))
           /\ run.how = "returns" /\ Result[run.of] # Void
                => run.gave \in Values[Result[run.of]]
<1>1. Each(c) /\ Asked(c)
  BY DEF Inv, Each, Fits, Foreign
<1>2. ran[c][i] \in Runs(Function(c), Arguments(Function(c), request[c]))
  BY <1>1 DEF Each, RunsFor
<1>3. /\ Number(request[c], 3) = Hash[call[c].name]
      /\ request[c].body = Pack(call[c].type, call[c].args)
  BY <1>1, Heads DEF Asked
<1>4. Function(c) = call[c].name
  BY <1>3 DEF Function, Fits
<1>5. Arguments(Function(c), request[c])
        = Unpack(call[c].type, Pack(call[c].type, call[c].args))
  BY <1>3, <1>4 DEF Arguments, Fits
<1> QED
  BY <1>1, <1>2, <1>4, <1>5, RunFields DEF Asked

\* The function of a call is run with the arguments of the call, if they are of
\* its types and the packer does not lose them.
THEOREM ArgumentsAlwaysArrive == Spec => []ArgumentsArrive
<1>1. ASSUME Inv, NEW c \in Calls, Fits(c), NEW i \in 1..Len(ran[c])
      PROVE  /\ ran[c][i].of = call[c].name
             /\ Clean(call[c].type, call[c].args) =>
                  ran[c][i].with = Kept(call[c].type, call[c].args)
  <2>1. Asked(c)
    BY <1>1 DEF Inv, Each, Fits, Foreign
  <2>2. call[c].type = Params[call[c].name] /\ call[c].type # Void
    BY <1>1, <2>1, CoreAssumption DEF Fits, Asked
  <2>3. /\ ran[c][i].of = call[c].name
        /\ ran[c][i].with = Unpack(call[c].type, Pack(call[c].type, call[c].args))
    BY <1>1, FittingRuns
  <2>4. \A v \in Values[call[c].type] : Clean(call[c].type, v)
          => Unpack(call[c].type, Pack(call[c].type, v)) = Kept(call[c].type, v)
    BY <2>1, <2>2, PackerAssumption DEF Asked
  <2>5. call[c].args \in Values[call[c].type]
    BY <2>1 DEF Asked
  <2> QED
    BY <2>3, <2>4, <2>5
<1>2. Inv => ArgumentsArrive
  BY <1>1 DEF ArgumentsArrive
<1> QED
  BY <1>2, Invariance, PTL

\* The result of a call is what the run its reply reports has returned.
THEOREM ResultsMatch == Spec => []OwnResult
<1>1. ASSUME Inv, NEW c \in Calls,
             Fits(c), got[c] = "result", value[c] # <<>>,
             ran[c][reply[c].run].how = "returns",
             Result[call[c].name] # Void,
             value[c][1].type = Result[call[c].name],
             Clean(Result[call[c].name], ran[c][reply[c].run].gave)
      PROVE  value[c][1].val = Kept(Result[call[c].name], ran[c][reply[c].run].gave)
  <2> DEFINE n == reply[c].run
             run == ran[c][n]
             type == Result[call[c].name]
  <2>1. Each(c) /\ reply[c] \in replies[c] /\ Success(reply[c])
    BY <1>1 DEF Inv, Each, Success
  <2>2. Succeeded(c, reply[c])
    BY <2>1, ReportReads
  <2>3. n \in 1..Len(ran[c])
    BY <2>2 DEF Succeeded
  <2>4. run.of = call[c].name /\ run.of \in Names
    BY <1>1, <2>3, FittingRuns
  <2>5. run.gave \in Values[type]
    BY <1>1, <2>3, <2>4, FittingRuns
  <2>6. reply[c].msg.body = Pack(type, run.gave)
    BY <1>1, <2>2, <2>4 DEF Succeeded
  <2>7. PICK t : value[c] = <<[type |-> t, val |-> Unpack(t, reply[c].msg.body)]>>
    BY <1>1, <2>1 DEF Each
  <2>8. value[c][1].type = t /\ value[c][1].val = Unpack(t, reply[c].msg.body)
    BY <2>7
  <2>9. value[c][1].val = Unpack(type, Pack(type, run.gave))
    BY <1>1, <2>6, <2>8
  <2>10. Unpack(type, Pack(type, run.gave)) = Kept(type, run.gave)
    BY <1>1, <2>4, <2>5, PackerAssumption
  <2> QED
    BY <2>9, <2>10
<1>2. Inv => OwnResult
  BY <1>1 DEF OwnResult
<1> QED
  BY <1>2, Invariance, PTL

\* No call of handle() takes an id away from a function that has it.
THEOREM RegistryStays == Spec => RegisteredStays
<1>1. ASSUME [Next]_vars
      PROVE  [\A i \in DOMAIN registry :
                i \in DOMAIN registry' /\ registry'[i] = registry[i]]_vars
  <2>1. ASSUME NEW n \in Names, Handle(n)
        PROVE  \A i \in DOMAIN registry :
                 i \in DOMAIN registry' /\ registry'[i] = registry[i]
    BY <2>1 DEF Handle
  <2>2. CASE UNCHANGED registry
    BY <2>2
  <2> QED
    BY <1>1, <2>1, <2>2 DEF Next, vars, Call, ForeignCall, ForeignReply, Refuse,
      Execute, Receive, Throw, Return, As
<1> QED
  BY <1>1, PTL DEF Spec, RegisteredStays

-----------------------------------------------------------------------------
(* A remote call implements RemoteCall. *)

LEMMA InitRefines == Init => Abstract!Init
BY DEF Init, Executor!Init, Abstract!Init, stage, asked, runs, Message

\* The step changes nothing that RemoteCall sees.
LEMMA Stutters ==
  ASSUME UNCHANGED <<got, value, request>>,
         \A c \in Calls : status'[c] = "idle" <=> status[c] = "idle",
         UNCHANGED ran
  PROVE  UNCHANGED Abstract!vars
<1>1. stage' = stage
  BY DEF stage
<1>2. asked' = asked
  BY DEF asked
<1>3. runs' = runs
  BY DEF runs
<1> QED
  BY <1>1, <1>2, <1>3 DEF Abstract!vars

LEMMA CallRefines ==
  ASSUME Inv, NEW b \in Calls, Call(b) \/ ForeignCall(b)
  PROVE  Abstract!Ask(b)
<1>1. /\ status[b] = "idle" /\ Untouched(b)
      /\ status' = [status EXCEPT ![b] = "open"]
      /\ UNCHANGED <<ran, got, value>>
      /\ \A c \in Calls \ {b} : request'[c] = request[c]
  BY DEF Inv, Shape, Each, Call, ForeignCall, Executor!Begin
<1>2. stage[b] = "idle" /\ stage' = [stage EXCEPT ![b] = "open"]
  BY <1>1 DEF stage, Untouched, Inv, Shape
<1>3. runs' = runs /\ value' = value
  BY <1>1 DEF runs
<1>4. Inv'
  BY CallInv
<1>5. asked'[b] \in {Hash[n] : n \in Names} \cup {0, None}
  <2>1. Asked(b)' \/ Foreign(b)'
    BY <1>4 DEF Inv, Each
  <2>2. CASE Asked(b)'
    BY <2>2, Heads DEF Asked, asked
  <2>3. CASE Foreign(b)'
    BY <2>3, ForeignIds DEF Foreign, asked
  <2> QED
    BY <2>1, <2>2, <2>3
<1>6. asked' = [asked EXCEPT ![b] = asked'[b]]
  BY <1>1 DEF asked, Inv, Shape
<1> QED
  BY <1>2, <1>3, <1>5, <1>6 DEF Abstract!Ask

LEMMA ExecuteRefines ==
  ASSUME Inv, NEW b \in Calls, Execute(b)
  PROVE  Abstract!Run(b)
<1>1. /\ status[b] # "idle" /\ Each(b) /\ served[b] < 2
      /\ UNCHANGED <<status, request, got, value, registry>>
      /\ Accepts(request[b])
  BY DEF Inv, Execute, Executor!Serve
<1>2. PICK run \in RunsFor(b) : ran' = [ran EXCEPT ![b] = Append(@, run)]
  BY DEF Execute, RunsFor, Function
<1>3. /\ ran[b] \in Seq(RunsFor(b)) /\ ran'[b] = Append(ran[b], run)
      /\ \A c \in Calls \ {b} : ran'[c] = ran[c]
  BY <1>1, <1>2 DEF Inv, Shape, Each
<1>4. run.of = Function(b) /\ Function(b) \in Names
      /\ Hash[Function(b)] = Number(request[b], 3)
  BY <1>1, RunFields DEF RunsFor, Function, Accepts, Inv, Shape
<1>5. asked[b] = Number(request[b], 3)
  <2>1. request[b].head # <<>>
    BY <1>1 DEF Accepts, Number, Version
  <2> QED
    BY <1>1, <2>1 DEF asked
<1>6. stage[b] # "idle"
  BY <1>1 DEF stage, Inv, Shape
<1>7. stage' = stage /\ asked' = asked
  BY <1>1 DEF stage, asked
<1> DEFINE one == [of |-> run.of, threw |-> run.how = "throws"]
           n == Len(ran[b])
<1>8. n \in Nat /\ n < 2
  BY <1>1, <1>3 DEF Inv, Shape, Each
<1>9. Len(runs[b]) = n
  BY <1>8 DEF runs
<1>10. runs' = [runs EXCEPT ![b] = Append(runs[b], one)]
  <2>1. runs'[b] = Append(runs[b], one)
    BY <1>3, <1>8 DEF runs
  <2> QED
    BY <1>3, <2>1 DEF runs
<1>11. one.threw \in BOOLEAN
  OBVIOUS
<1> QED
  BY <1>1, <1>4, <1>5, <1>6, <1>7, <1>8, <1>9, <1>10, <1>11 DEF Abstract!Run

LEMMA EndRefines ==
  ASSUME Inv, NEW b \in Calls, Throw(b) \/ Return(b)
  PROVE  Abstract!Raise(b) \/ Abstract!Finish(b)
<1>1. /\ status[b] \in {"idle", "open"} /\ Each(b) /\ got[b] = "none"
      /\ \E s \in {"returned", "raised"} : status' = [status EXCEPT ![b] = s]
      /\ UNCHANGED <<answer, request, ran, replies, reply, value>>
  BY DEF Inv, Each, Throw, Return, Executor!Raise, Executor!Return
<1>2. PICK g \in {"result", "raised"} : got' = [got EXCEPT ![b] = g]
  BY DEF Throw, Return
<1>3. stage[b] \in {"idle", "open"} /\ stage' = [stage EXCEPT ![b] = g]
  <2>1. stage[b] \in {"idle", "open"}
    BY <1>1 DEF stage
  <2>2. \A c \in Calls : got'[c] = IF c = b THEN g ELSE got[c]
    BY <1>2 DEF Inv, Shape
  <2>3. \A c \in Calls \ {b} : status'[c] = status[c]
    BY <1>1 DEF Inv, Shape
  <2>4. \A c \in Calls : stage'[c] = IF c = b THEN g ELSE stage[c]
    BY <2>2, <2>3 DEF stage
  <2> QED
    BY <2>1, <2>4 DEF stage
<1>4. runs' = runs
  BY <1>1 DEF runs
<1>5. asked' = asked
  <2>1. status[b] = "idle" => request[b].head = <<>>
    BY <1>1 DEF Each, Untouched, Message
  <2>2. status'[b] # "idle" /\ \A c \in Calls \ {b} : status'[c] = status[c]
    BY <1>1 DEF Inv, Shape
  <2> QED
    BY <1>1, <2>1, <2>2 DEF asked
<1>6. CASE g = "raised"
  BY <1>1, <1>3, <1>4, <1>5, <1>6 DEF Abstract!Raise
<1>7. CASE g = "result"
  <2>1. status[b] = "open" /\ stage[b] = "open"
    BY <1>1, <1>2, <1>7 DEF Inv, Shape, Throw, Return, Executor!Return, stage
  <2>2. Inv'
    BY EndInv
  <2>3. Each(b)' /\ got'[b] = "result"
    BY <1>2, <1>7, <2>2 DEF Inv, Shape
  <2>4. reply[b] \in replies[b] /\ Success(reply[b])
    BY <1>1, <2>3 DEF Each, Success
  <2>5. Succeeded(b, reply[b])
    BY <1>1, <2>4, ReportReads
  <2>6. \E i \in 1..Len(runs[b]) : ~runs[b][i].threw
    <3>1. Len(runs[b]) = Len(ran[b])
      BY <1>1 DEF runs, Each
    <3>2. runs[b][reply[b].run].threw = FALSE
      BY <2>5 DEF runs, Succeeded
    <3> QED
      BY <2>5, <3>1, <3>2 DEF Succeeded
  <2> QED
    BY <1>1, <1>3, <1>4, <1>5, <1>7, <2>1, <2>6 DEF Abstract!Finish
<1> QED
  BY <1>6, <1>7

LEMMA AsRefines ==
  ASSUME Inv, NEW b \in Calls, NEW t, As(b, t)
  PROVE  Abstract!Get(b)
<1>1. /\ got[b] = "result" /\ value[b] = <<>>
      /\ value' = [value EXCEPT ![b] =
                     <<[type |-> t, val |-> Unpack(t, reply[b].msg.body)]>>]
      /\ UNCHANGED <<status, request, ran, got>>
  BY DEF As, executor
<1>2. value' = [value EXCEPT ![b] = value'[b]]
  BY <1>1 DEF Inv, Shape
<1>3. stage[b] = "result"
  BY <1>1 DEF stage
<1>4. UNCHANGED <<stage, asked, runs>>
  BY <1>1 DEF stage, asked, runs
<1> QED
  BY <1>1, <1>2, <1>3, <1>4 DEF Abstract!Get

LEMMA NextRefines ==
  ASSUME Inv, [Next]_vars
  PROVE  [Abstract!Next]_(Abstract!vars)
<1>1. CASE UNCHANGED vars
  BY <1>1, Stutters DEF vars, executor
<1>2. ASSUME NEW n \in Names, Handle(n)
      PROVE  UNCHANGED Abstract!vars
  BY <1>2, Stutters DEF Handle, executor
<1>3. ASSUME NEW b \in Calls, Refuse(b) \/ ForeignReply(b) \/ Receive(b)
      PROVE  UNCHANGED Abstract!vars
  BY <1>3, Stutters DEF Refuse, ForeignReply, Receive, Executor!Serve, Executor!Answer
<1> QED
  BY <1>1, <1>2, <1>3, CallRefines, ExecuteRefines, EndRefines, AsRefines
  DEF Next, Abstract!Next

\* Whoever calls through core::client gets what RemoteCall promises: packing,
\* checking and the executor's retries add nothing to it.
THEOREM Refinement == Spec => ImplementsRemoteCall
<1>1. Inv /\ [Next]_vars => [Abstract!Next]_(Abstract!vars)
  BY NextRefines
<1> QED
  BY <1>1, InitRefines, Invariance, PTL DEF Spec, ImplementsRemoteCall, Abstract!Spec

=============================================================================
