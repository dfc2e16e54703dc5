----------------------- MODULE ServerSessionRefinement -----------------------
(***************************************************************************)
(* A session keeps the promise of Connection, and never leaves a waiting   *)
(* peer to wait for nothing, for any number of requests of any kinds.      *)
(*                                                                         *)
(* The invariant of ServerSessionProofs says what is under way; the one of *)
(* this module says in which state the session can be meanwhile.  That     *)
(* settles when the connection may end under a request: only if the TLS    *)
(* handshake fails, so that no request was ever read.                      *)
(***************************************************************************)
EXTENDS ServerSessionProofs

\* A peer that waits has something under way.
AnswerOwed ==
  peer = "waiting" => inbox # <<>> \/ writing # <<>> \/ outbox # <<>>

\* A session that reads no more has shut down or is about to ...
Closing == ~Starting /\ ~reading => shut \/ "close" \in tasks

\* ... and one that reads has not, as long as the peer is there.
OpenWhileRead ==
  Here /\ (Starting \/ reading) => ~shut /\ "close" \notin tasks

\* Nothing is answered before the first read.
NoneEarly == Starting => got = <<>>

\* A request that the session will not read is the first one.
Refused ==
  Here /\ Fits /\ ~Starting /\ ~reading /\ (peer = "ready" \/ inbox # <<>>)
    => got = <<>>

\* A request is not read after its peer has seen the end of the connection.
NoneLate == Fits /\ peer = "closed" /\ inbox # <<>> => ~Starting /\ ~reading

EndInv ==
  AnswerOwed /\ Closing /\ OpenWhileRead /\ NoneEarly /\ Refused /\ NoneLate

LEMMA InitEnd == Init => EndInv
BY DEF Init, EndInv, AnswerOwed, Closing, OpenWhileRead, NoneEarly, Refused,
       NoneLate, Starting

\* Steps that move no message.
LEMMA QuietEnd ==
  ASSUME SessionInv, EndInv,
         \/ Handshake \/ BeginHandshake \/ EndHandshake \/ FirstRead
         \/ EndOfStream \/ Close \/ ShutdownEnds \/ UNCHANGED vars
  PROVE  EndInv'
<1>1. UNCHANGED <<sent, got, peer, inbox, outbox, end, writing>>
  BY DEF Handshake, BeginHandshake, EndHandshake, FirstRead, EndOfStream, Close,
         ShutdownEnds, vars, peerVars, wireVars, sessionVars
<1>2. (Here' <=> Here) /\ (Fits' <=> Fits) /\ AnswerOwed'
  BY <1>1 DEF Here, Fits, FitUpTo, EndInv, AnswerOwed
<1>3. Started /\ (Starting => ~reading)
  BY DEF SessionInv, WholeInv, Started, Silent
<1>4. ASSUME Starting, shut' = shut, reading' = reading,
             "close" \in tasks' <=> "close" \in tasks, Starting'
      PROVE  EndInv'
  BY <1>1, <1>2, <1>4 DEF EndInv, Closing, OpenWhileRead, NoneEarly, Refused, NoneLate
<1>5. CASE Handshake \/ BeginHandshake
  BY <1>4, <1>5 DEF Handshake, BeginHandshake, TaskRuns, Starting
<1>6. CASE EndHandshake
  <2>1. /\ shaking /\ ~shaking' /\ UNCHANGED <<shut, reading>>
        /\ tasks' = tasks \cup {"read"} \/ tasks' = tasks \cup {"close"}
    BY <1>6 DEF EndHandshake
  <2>2. "handshake" \notin tasks /\ "read" \notin tasks /\ Starting /\ ~reading
    BY <1>3, <2>1 DEF Started, Starting
  <2>3. CASE tasks' = tasks \cup {"read"}
    BY <1>4, <2>1, <2>2, <2>3 DEF Starting
  <2>4. CASE tasks' = tasks \cup {"close"}
    <3>1. ~Starting' /\ ~reading' /\ "close" \in tasks'
      BY <2>1, <2>2, <2>4 DEF Starting
    <3>2. got' = <<>>
      BY <1>1, <2>2 DEF EndInv, NoneEarly
    <3> QED
      BY <1>2, <3>1, <3>2
      DEF EndInv, Closing, OpenWhileRead, NoneEarly, Refused, NoneLate
  <2> QED
    BY <2>1, <2>3, <2>4
<1>7. CASE FirstRead
  <2>1. /\ "read" \in tasks /\ tasks' = tasks \ {"read"} /\ reading'
        /\ UNCHANGED <<shaking, shut>>
    BY <1>7 DEF FirstRead, TaskRuns
  <2>2. Starting /\ ~Starting'
    BY <1>3, <2>1 DEF Started, Starting
  <2> QED
    BY <1>1, <1>2, <2>1, <2>2
    DEF EndInv, Closing, OpenWhileRead, NoneEarly, Refused, NoneLate
<1>8. CASE EndOfStream
  <2>1. /\ ~Here /\ reading /\ ~reading'
        /\ tasks' = tasks \cup {"close"} /\ UNCHANGED <<shaking, shut>>
    BY <1>8 DEF EndOfStream, SessionInv, WholeInv, Counted
  <2>2. ~Starting'
    BY <1>3, <2>1 DEF Starting
  <2> QED
    BY <1>2, <2>1, <2>2
    DEF EndInv, Closing, OpenWhileRead, NoneEarly, Refused, NoneLate
<1>9. CASE Close
  <2>1. /\ "close" \in tasks /\ tasks' = tasks \ {"close"} /\ shut'
        /\ UNCHANGED <<shaking, reading>>
    BY <1>9 DEF Close, TaskRuns
  <2>2. Starting' <=> Starting
    BY <2>1 DEF Starting
  <2> QED
    BY <1>1, <1>2, <2>1, <2>2
    DEF EndInv, Closing, OpenWhileRead, NoneEarly, Refused, NoneLate
<1>10. CASE ShutdownEnds \/ UNCHANGED vars
  <2>1. UNCHANGED <<tasks, shaking, reading, shut>>
    BY <1>10 DEF ShutdownEnds, vars, sessionVars
  <2>2. Starting' <=> Starting
    BY <2>1 DEF Starting
  <2> QED
    BY <1>1, <1>2, <2>1, <2>2
    DEF EndInv, Closing, OpenWhileRead, NoneEarly, Refused, NoneLate
<1> QED
  BY <1>5, <1>6, <1>7, <1>8, <1>9, <1>10

\* A reply leaves something under way.
LEMMA ReplyOwed ==
  ASSUME TypeOK, NEW p, p.re \in 0..MaxRequests, Reply(p)
  PROVE  writing' # <<>> \/ outbox' # <<>>
<1> DEFINE r == Response(p.re, p.kind, TRUE)
<1>1. r \in Answers
  BY StatusType DEF Response, Answers
<1>2. writing' = Append(writing, r) \/ outbox' = Append(outbox, r)
  BY DEF Reply
<1> HIDE DEF r
<1> QED
  BY <1>1, <1>2, AppendProperties DEF TypeOK

LEMMA HandleEnd ==
  ASSUME SessionInv, SessionInv', EndInv, HandleRequest PROVE EndInv'
<1> DEFINE p == Head(inbox)
<1>1. /\ reading /\ inbox # <<>> /\ Reply(p) /\ GoOn(p)
      /\ UNCHANGED <<sent, got, peer, end, shaking, shut>>
  BY DEF HandleRequest, peerVars
<1>2. p.re \in 0..MaxRequests
  <2>1. p \in Piece
    BY <1>1, Front DEF SessionInv, WholeInv, TypeOK
  <2> QED
    BY <2>1, SessionAssumption DEF Piece
<1>3. AnswerOwed'
  BY <1>1, <1>2, ReplyOwed DEF SessionInv, WholeInv, AnswerOwed
<1>4. ~Starting
  BY <1>1 DEF SessionInv, WholeInv, Started, Silent
<1>5. \/ reading' /\ tasks' = tasks
      \/ ~reading' /\ tasks' = tasks \cup {"close"}
  BY <1>1 DEF GoOn
<1>6. ~Starting'
  BY <1>1, <1>4, <1>5 DEF Starting
<1>7. (Here' <=> Here) /\ (Fits' <=> Fits)
  BY <1>1 DEF Here, Fits, FitUpTo
<1>8. Fits => inbox' = <<>> /\ peer # "ready" /\ peer # "closed"
  <2>1. ASSUME Fits PROVE Len(inbox') = 0
    <3>1. Len(inbox) = 1
      BY <1>1, <2>1, InboxHead DEF SessionInv
    <3>2. /\ inbox \in Seq(Piece) /\ inbox' \in Unread
      BY DEF HandleRequest, SessionInv, WholeInv, TypeOK
    <3>3. PICK d \in Nat \ {0} : \A i \in 1..Len(inbox') : i + d \in 1..Len(inbox)
      BY <1>1, <3>2, UnreadTyped
    <3>4. Len(inbox') \in Nat
      BY LenProperties DEF SessionInv, WholeInv, TypeOK
    <3>5. 1 \in 1..Len(inbox') => 1 + d \in 1..1
      BY <3>1, <3>3
    <3> QED
      BY <3>3, <3>4, <3>5
  <2>2. Len(inbox') = 0 => inbox' = <<>>
    BY EmptySeq DEF SessionInv, WholeInv, TypeOK
  <2>3. Fits => Len(inbox) = 1
    BY <1>1, InboxHead DEF SessionInv
  <2>4. Fits => peer # "ready"
    <3>1. Flow
      BY DEF SessionInv, FlowInv
    <3>2. Fits /\ peer = "ready" => Len(inbox) = 0
      BY <3>1 DEF Flow
    <3> QED
      BY <2>3, <3>2
  <2>5. Fits => peer # "closed"
    BY <1>1 DEF EndInv, NoneLate
  <2> QED
    BY <2>1, <2>2, <2>4, <2>5
<1>9. Closing' /\ OpenWhileRead'
  BY <1>1, <1>4, <1>5, <1>6, <1>7 DEF EndInv, Closing, OpenWhileRead
<1>10. Refused' /\ NoneLate' /\ NoneEarly'
  BY <1>1, <1>6, <1>7, <1>8 DEF Refused, NoneLate, NoneEarly
<1> QED
  BY <1>3, <1>9, <1>10 DEF EndInv

LEMMA FailEnd ==
  ASSUME SessionInv, SessionInv', EndInv, ReadFails PROVE EndInv'
<1>1. /\ reading
      /\ UNCHANGED <<sent, got, peer, tasks, shaking, reading, shut>>
  BY DEF ReadFails, peerVars
<1>2. PICK p : p.re \in 0..MaxRequests /\ Reply(p)
  <2>1. CASE inbox # <<>> /\ Reply(Head(inbox))
    <3>1. Head(inbox) \in Piece
      BY <2>1, Front DEF SessionInv, WholeInv, TypeOK
    <3> QED
      BY <2>1, <3>1, SessionAssumption DEF Piece
  <2>2. CASE Reply([re |-> 0, kind |-> "junk", keep |-> TRUE])
    BY <2>2, SessionAssumption
  <2> QED
    BY <2>1, <2>2 DEF ReadFails
<1>3. AnswerOwed'
  BY <1>2, ReplyOwed DEF SessionInv, WholeInv, AnswerOwed
<1>4. /\ Here' <=> Here
      /\ Fits' <=> Fits
      /\ Starting' <=> Starting
  BY <1>1 DEF Here, Fits, FitUpTo, Starting
<1>5. inbox = <<>> => inbox' = <<>>
  BY DEF ReadFails
<1> QED
  BY <1>1, <1>3, <1>4, <1>5
  DEF EndInv, Closing, OpenWhileRead, NoneEarly, Refused, NoneLate

LEMMA WriteEnd ==
  ASSUME SessionInv, EndInv, WriteEnds PROVE EndInv'
<1> DEFINE r == [Head(writing) EXCEPT !.whole = ~shut]
<1>1. /\ writing # <<>>
      /\ UNCHANGED <<sent, got, peer, inbox, end, shaking, reading, shut>>
      /\ tasks' \in {tasks, tasks \cup {"close"}}
      /\ Here => outbox' = Append(outbox, r) /\ (tasks' # tasks => shut)
  BY DEF WriteEnds, peerVars
<1>2. r \in Answers
  BY <1>1, Written DEF SessionInv, WholeInv, TypeOK
<1> HIDE DEF r
<1>3. AnswerOwed'
  BY <1>1, <1>2, AppendProperties
  DEF AnswerOwed, Here, SessionInv, WholeInv, TypeOK
<1>4. /\ Here' <=> Here
      /\ Fits' <=> Fits
      /\ Starting' <=> Starting
  BY <1>1 DEF Here, Fits, FitUpTo, Starting
<1> QED
  BY <1>1, <1>3, <1>4
  DEF EndInv, Closing, OpenWhileRead, NoneEarly, Refused, NoneLate

LEMMA AskEnd ==
  ASSUME SessionInv, EndInv, Ask PROVE EndInv'
<1>1. /\ peer = "ready" /\ peer' = "waiting"
      /\ UNCHANGED <<got, outbox, tasks, shaking, reading, writing, shut>>
  BY AskSends DEF SessionInv, WholeInv
<1>2. PICK p \in Piece : \E junk \in Seq(Piece) :
        sent' = Append(sent, p) /\ inbox' = Append(inbox, p) \o junk
  BY AskSends DEF SessionInv, WholeInv
<1>3. PICK junk \in Seq(Piece) : inbox' = Append(inbox, p) \o junk
  BY <1>2
<1>4. sent \in Seq(Piece) /\ inbox \in Seq(Piece)
  BY DEF SessionInv, WholeInv, TypeOK
<1>5. inbox' # <<>>
  <2>1. Append(inbox, p) \in Seq(Piece) /\ Len(Append(inbox, p)) = Len(inbox) + 1
    BY <1>4, AppendProperties
  <2>2. Len(inbox') = Len(Append(inbox, p)) + Len(junk)
    BY <1>3, <2>1, ConcatProperties
  <2>3. Len(inbox) \in Nat /\ Len(junk) \in Nat /\ Len(<<>>) = 0
    BY <1>4, LenProperties
  <2> QED
    BY <2>1, <2>2, <2>3
<1>6. Fits' => Fits
  <2>1. /\ Len(sent') = Len(sent) + 1 /\ Len(sent) \in Nat
        /\ \A i \in 1..Len(sent) : sent'[i] = sent[i]
    BY <1>2, <1>4, AppendProperties, LenProperties
  <2> QED
    BY <2>1 DEF Fits, FitUpTo
<1>7. Here /\ (Starting' <=> Starting)
  BY <1>1 DEF Here, Starting
<1> QED
  BY <1>1, <1>5, <1>6, <1>7
  DEF EndInv, AnswerOwed, Closing, OpenWhileRead, NoneEarly, Refused, NoneLate

LEMMA TakeEnd ==
  ASSUME SessionInv, EndInv, TakeAnswer PROVE EndInv'
<1>1. /\ peer = "waiting" /\ outbox # <<>>
      /\ peer' \in {"ready", "closed"}
      /\ peer' = "ready" => sent[Len(sent)].keep
      /\ UNCHANGED <<sent, inbox, tasks, shaking, reading, writing, shut>>
  BY DEF TakeAnswer, sessionVars
<1>2. Here /\ ~Starting
  BY <1>1 DEF Here, SessionInv, WholeInv, Started, Silent
<1>3. /\ Fits' <=> Fits
      /\ Starting' <=> Starting
  BY <1>1 DEF Fits, FitUpTo, Starting
<1>4. Fits => inbox = <<>>
  <2>1. /\ inbox \in Seq(Piece) /\ writing \in Seq(Answers)
        /\ outbox \in Seq(Answers)
    BY DEF SessionInv, WholeInv, TypeOK
  <2>2. /\ Len(inbox) \in Nat /\ Len(writing) \in Nat
        /\ Len(outbox) \in Nat \ {0}
    BY <1>1, <2>1, LenProperties, Front
  <2>3. Fits => Len(inbox) + Len(writing) + Len(outbox) = 1
    BY <1>1 DEF SessionInv, FlowInv, Flow
  <2>4. Fits => Len(inbox) = 0
    BY <2>2, <2>3
  <2> QED
    BY <2>1, <2>4, EmptySeq
<1>5. ~reading => peer' = "closed"
  <2>1. ~reading => shut \/ "close" \in tasks
    BY <1>2 DEF EndInv, Closing
  <2>2. ~reading => Leaving
    BY <1>1, <1>2, <2>1 DEF SessionInv, WholeInv, Parting, Silent
  <2> QED
    BY <1>1, <2>2 DEF Leaving
<1> QED
  BY <1>1, <1>2, <1>3, <1>4, <1>5
  DEF EndInv, AnswerOwed, Closing, OpenWhileRead, NoneEarly, Refused, NoneLate,
      Here

\* The session is not reading, and will not, when its end is seen.
LEMMA EndSeen ==
  ASSUME EndInv, SeeEnd PROVE ~Starting /\ ~reading /\ writing = <<>>
BY DEF SeeEnd, Alive, EndInv, OpenWhileRead, Here, Starting

LEMMA GoneEnd ==
  ASSUME SessionInv, EndInv, SeeEnd \/ Leave PROVE EndInv'
<1>1. /\ peer' \in {"closed", "reset"}
      /\ UNCHANGED <<sent, got, tasks, shaking, reading, writing, shut>>
  BY DEF SeeEnd, Leave, sessionVars
<1>2. /\ Fits' <=> Fits
      /\ Starting' <=> Starting
  BY <1>1 DEF Fits, FitUpTo, Starting
<1>3. NoneLate'
  <2>1. CASE SeeEnd
    BY <1>1, <1>2, <2>1, EndSeen DEF NoneLate
  <2>2. CASE Leave
    <3>1. peer' = "closed" => peer = "ready" /\ inbox' = inbox
      BY <2>2 DEF Leave
    <3>2. Fits /\ peer = "ready" => inbox = <<>>
      <4>1. inbox \in Seq(Piece)
        BY DEF SessionInv, WholeInv, TypeOK
      <4>2. Fits /\ peer = "ready" => Len(inbox) = 0
        BY DEF SessionInv, FlowInv, Flow
      <4> QED
        BY <4>1, <4>2, EmptySeq
    <3> QED
      BY <1>2, <3>1, <3>2 DEF NoneLate
  <2> QED
    BY <2>1, <2>2
<1> QED
  BY <1>1, <1>2, <1>3
  DEF EndInv, AnswerOwed, Closing, OpenWhileRead, NoneEarly, Refused, Here

LEMMA StepEnd == SessionInv /\ EndInv /\ [Next]_vars => EndInv'
<1> SUFFICES ASSUME SessionInv, EndInv, [Next]_vars PROVE EndInv'
  OBVIOUS
<1>1. SessionInv'
  BY StepSession
<1> QED
  BY <1>1, QuietEnd, HandleEnd, FailEnd, WriteEnd, AskEnd, TakeEnd, GoneEnd
  DEF Next, Run

\* A waiting peer and its session never wait for each other: what the liveness
\* of the answers rests on, under any scheduling.
THEOREM NobodyWaitsForNothing == Spec => []NeverBothWait
<1>1. EndInv => NeverBothWait
  BY DEF EndInv, AnswerOwed, Closing, Starting, NeverBothWait
<1>2. SessionInv /\ EndInv /\ [Next]_vars => SessionInv' /\ EndInv'
  BY StepSession, StepEnd
<1> QED
  BY <1>1, <1>2, InitSession, InitEnd, PTL DEF Spec

-----------------------------------------------------------------------------
(* The session implements Connection *)

\* What the parser takes for a request is a request that the peer has sent.
Genuine ==
  \A j \in 1..Len(inbox) : Sound(inbox[j]) => inbox[j] = sent[inbox[j].re]

LEMMA StepGenuine == SessionInv /\ Genuine /\ [Next]_vars => Genuine'
<1> SUFFICES ASSUME SessionInv, Genuine, [Next]_vars PROVE Genuine'
  OBVIOUS
<1>a. sent \in Seq(Piece) /\ inbox \in Seq(Piece)
  BY DEF SessionInv, WholeInv, TypeOK
<1>1. CASE Ask
  <2>1. PICK p \in Piece : \E junk \in Seq(Piece) :
          /\ sent' = Append(sent, p) /\ inbox' = Append(inbox, p) \o junk
          /\ p.re = Len(sent) + 1
          /\ \A i \in 1..Len(junk) : junk[i].kind = "junk"
    BY <1>1, AskSends DEF SessionInv, WholeInv
  <2>2. PICK junk \in Seq(Piece) :
          /\ inbox' = Append(inbox, p) \o junk
          /\ \A i \in 1..Len(junk) : junk[i].kind = "junk"
    BY <2>1
  <2> DEFINE a == Append(inbox, p)
  <2>3. /\ a \in Seq(Piece) /\ Len(a) = Len(inbox) + 1 /\ Len(inbox) \in Nat
        /\ \A j \in 1..Len(inbox) : a[j] = inbox[j]
        /\ a[Len(inbox) + 1] = p
    BY <1>a, AppendProperties, LenProperties
  <2> HIDE DEF a
  <2>4. /\ Len(inbox') = Len(a) + Len(junk) /\ Len(junk) \in Nat
        /\ \A j \in 1..(Len(a) + Len(junk)) :
             inbox'[j] = IF j <= Len(a) THEN a[j] ELSE junk[j - Len(a)]
    BY <2>2, <2>3, ConcatProperties, LenProperties DEF a
  <2>5. /\ Len(sent) \in Nat /\ sent'[Len(sent) + 1] = p
        /\ \A i \in 1..Len(sent) : sent'[i] = sent[i]
    BY <1>a, <2>1, AppendProperties, LenProperties
  <2> SUFFICES ASSUME NEW j \in 1..Len(inbox'), Sound(inbox'[j])
               PROVE  inbox'[j] = sent'[inbox'[j].re]
    BY DEF Genuine, Sound
  <2>6. CASE j \in 1..Len(inbox)
    <3>1. inbox'[j] = inbox[j]
      BY <2>3, <2>4, <2>6
    <3>2. inbox[j] \in Piece /\ Sound(inbox[j])
      BY <1>a, <2>6, <3>1, ElementOfSeq
    <3>3. inbox[j].re \in 1..MaxRequests /\ inbox[j].re <= Len(sent)
      BY <2>6, <3>2 DEF Piece, SessionInv, FlowInv, Unrun
    <3>4. inbox[j].re \in 1..Len(sent)
      BY <2>5, <3>3, SessionAssumption
    <3>5. inbox[j] = sent[inbox[j].re]
      BY <2>6, <3>2 DEF Genuine
    <3> QED
      BY <2>5, <3>1, <3>4, <3>5
  <2>7. CASE j = Len(inbox) + 1
    BY <2>1, <2>3, <2>4, <2>5, <2>7
  <2>8. CASE j > Len(inbox) + 1
    <3>1. j - Len(a) \in 1..Len(junk) /\ inbox'[j] = junk[j - Len(a)]
      BY <2>3, <2>4, <2>8
    <3> QED
      BY <2>2, <3>1 DEF Sound
  <2> QED
    BY <2>3, <2>4, <2>6, <2>7, <2>8
<1>2. CASE UNCHANGED sent /\ inbox # <<>> /\ inbox' \in Unread
  <2>1. PICK d \in Nat \ {0} :
          \A i \in 1..Len(inbox') : i + d \in 1..Len(inbox) /\ inbox'[i] = inbox[i + d]
    BY <1>2, <1>a, UnreadTyped
  <2> QED
    BY <1>2, <2>1 DEF Genuine, Sound
<1>3. CASE UNCHANGED sent /\ inbox' \in {inbox, <<>>}
  BY <1>3 DEF Genuine, Sound
<1> QED
  BY <1>1, <1>2, <1>3
  DEF Next, Run, Handshake, BeginHandshake, EndHandshake, FirstRead,
      HandleRequest, ReadFails, EndOfStream, WriteEnds, Close, ShutdownEnds,
      TakeAnswer, SeeEnd, Leave, vars, peerVars, wireVars, sessionVars

LEMMA SameTable ==
  /\ Promise!Last = Len(sent)
  /\ Promise!Fit <=> Fits
  /\ \A kind : Promise!Owed(kind) = Status(kind) /\ (Promise!Served(kind) <=> Runs(kind))
BY DEF Promise!Last, Promise!Fit, Fits, FitUpTo, Promise!Owed, Status,
       Promise!Served, Runs

\* Reading a request serves it, if a function is called for it at all.
LEMMA HandleRefines ==
  ASSUME SessionInv, EndInv, Genuine, HandleRequest
  PROVE  (\E i \in 1..MaxRequests : Promise!Serve(i)) \/ UNCHANGED Promise!vars
<1> DEFINE p == Head(inbox)
<1>1. /\ reading /\ inbox # <<>> /\ Sound(p) /\ Execute(p)
      /\ UNCHANGED <<sent, got, peer>>
  BY DEF HandleRequest, peerVars, Sound
<1>2. inbox \in Seq(Piece) /\ Len(inbox) \in Nat \ {0} /\ p = inbox[1] /\ p \in Piece
  BY <1>1, Front DEF SessionInv, WholeInv, TypeOK
<1>3. p.re \in 1..MaxRequests /\ p.re <= Len(sent) /\ ran[p.re] = 0
  <2>1. 1 \in 1..Len(inbox)
    BY <1>2
  <2> QED
    BY <1>1, <1>2, <2>1 DEF Piece, SessionInv, FlowInv, Unrun
<1>4. CASE ~Runs(p.kind)
  BY <1>1, <1>4 DEF Execute, Runs, Promise!vars
<1>5. CASE Runs(p.kind)
  <2>1. ran' = [ran EXCEPT ![p.re] = 1]
    <3>1. ran \in [1..MaxRequests -> Nat]
      BY DEF SessionInv, WholeInv, TypeOK
    <3> QED
      BY <1>1, <1>3, <1>5, <3>1 DEF Execute, Runs
  <2>2. p.re \in 1..Len(sent)
    BY <1>3, SessionAssumption DEF SessionInv, FlowInv, Numbered
  <2>3. sent[p.re].kind = p.kind
    <3>1. 1 \in 1..Len(inbox)
      BY <1>2
    <3> QED
      BY <1>1, <1>2, <3>1 DEF Genuine
  <2>4. Fits => p.re = Len(sent) /\ peer \in {"waiting", "reset"}
    <3> SUFFICES ASSUME Fits
                 PROVE  p.re = Len(sent) /\ peer \in {"waiting", "reset"}
      OBVIOUS
    <3>1. p.re = Len(sent) /\ Len(inbox) = 1
      BY <1>1, InboxHead DEF SessionInv
    <3>2. peer # "ready"
      BY <3>1 DEF SessionInv, FlowInv, Flow
    <3>3. peer # "closed"
      BY <1>1 DEF EndInv, NoneLate
    <3> QED
      BY <3>1, <3>2, <3>3 DEF SessionInv, WholeInv, TypeOK
  <2>5. Promise!Serve(p.re)
    BY <1>1, <1>3, <1>5, <2>1, <2>2, <2>3, <2>4, SameTable DEF Promise!Serve
  <2> QED
    BY <1>3, <2>5
<1> QED
  BY <1>4, <1>5

LEMMA AskRefines ==
  ASSUME SessionInv, Ask PROVE Promise!Ask
<1>1. PICK kind \in Kinds, keep \in Keeps :
        sent' = Append(sent, [re |-> Len(sent) + 1, kind |-> kind, keep |-> keep])
  BY DEF Ask
<1>2. /\ peer = "ready" /\ peer' = "waiting" /\ Len(sent) < MaxRequests
      /\ UNCHANGED <<got, ran>>
  BY DEF Ask, sessionVars
<1> QED
  BY <1>1, <1>2, SameTable DEF Promise!Ask

\* What the peer takes while every request fits is the answer to the last one.
LEMMA TakeRefines ==
  ASSUME SessionInv, SessionInv', TakeAnswer
  PROVE  \E re \in 0..MaxRequests, status \in {200, 400, 404, 500}, whole \in BOOLEAN :
           Promise!Answer([re |-> re, status |-> status, whole |-> whole])
<1> DEFINE a == Head(outbox)
<1>1. /\ peer = "waiting" /\ outbox # <<>> /\ got' = Append(got, a)
      /\ peer' = IF a.whole /\ sent[Len(sent)].keep THEN "ready" ELSE "closed"
      /\ UNCHANGED <<sent, ran>>
  BY DEF TakeAnswer, sessionVars
<1>2. a \in Answers /\ a = outbox[1] /\ Len(outbox) \in Nat \ {0}
  BY <1>1, Front DEF SessionInv, WholeInv, TypeOK
<1>3. ASSUME Fits PROVE Promise!IsAnswer(a)
  <2>1. IsAnswer(outbox[1])
    <3>1. Len(inbox) + Len(writing) + Len(outbox) = 1
      BY <1>1, <1>3 DEF SessionInv, FlowInv, Flow
    <3>2. Len(inbox) \in Nat /\ Len(writing) \in Nat /\ Len(outbox) \in Nat \ {0}
      BY <1>2, LenProperties DEF SessionInv, WholeInv, TypeOK
    <3>3. Len(outbox) = 1
      <4>1. \A x, y \in Nat, z \in Nat \ {0} : x + y + z = 1 => z = 1
        OBVIOUS
      <4> QED
        BY <3>1, <3>2, <4>1
    <3>4. Len(outbox) = 1 => IsAnswer(outbox[1])
      BY <1>1, <1>3 DEF SessionInv, FlowInv, Flow
    <3> QED
      BY <3>3, <3>4
  <2> QED
    BY <1>2, <2>1, SameTable DEF IsAnswer, Promise!IsAnswer
<1>4. sent[Len(sent)].keep => a.whole
  <2>1. ~a.whole => Leaving
    <3>1. 1 \in 1..Len(outbox)
      BY <1>2
    <3> QED
      BY <1>1, <1>2, <3>1 DEF SessionInv, WholeInv, Parting, Here
  <2> QED
    BY <2>1 DEF Leaving
<1>5. a.whole \in BOOLEAN /\ a.re \in 0..MaxRequests
      /\ a.status \in {200, 400, 404, 500}
      /\ a = [re |-> a.re, status |-> a.status, whole |-> a.whole]
  BY <1>2 DEF Answers
<1> HIDE DEF a
<1>6. Promise!Answer(a)
  BY <1>1, <1>3, <1>4, <1>5, SameTable DEF Promise!Answer
<1>7. Promise!Answer([re |-> a.re, status |-> a.status, whole |-> a.whole])
  BY <1>5, <1>6
<1> QED
  BY <1>5, <1>7

\* The end of the connection is seen by a peer that waits only if its first
\* request is never read, or one was too large.
LEMMA GoneRefines ==
  ASSUME SessionInv, EndInv, SeeEnd \/ Leave PROVE Promise!BreakOff \/ Promise!Leave
<1>1. UNCHANGED <<sent, got, ran>>
  BY DEF SeeEnd, Leave, sessionVars
<1>2. CASE Leave \/ peer = "ready"
  BY <1>1, <1>2 DEF SeeEnd, Leave, Here, Promise!Leave
<1>3. CASE SeeEnd /\ peer = "waiting"
  <2>1. ~Starting /\ ~reading /\ writing = <<>> /\ outbox = <<>> /\ peer' = "closed"
    BY <1>3, EndSeen DEF SeeEnd
  <2>2. inbox # <<>>
    BY <1>3, <2>1 DEF EndInv, AnswerOwed
  <2>3. Fits => got = <<>>
    BY <1>3, <2>1, <2>2 DEF EndInv, Refused, Here
  <2>4. ASSUME Fits, NEW i \in 1..Len(sent) PROVE ran[i] = 0
    <3>1. Len(sent) = 1
      BY <1>3, <2>3, <2>4 DEF SessionInv, WholeInv, Counted
    <3>2. /\ Head(inbox).re = 1 /\ Sound(Head(inbox))
          /\ Head(inbox) = inbox[1] /\ 1 \in 1..Len(inbox)
      <4>1. Head(inbox).re = 1 /\ Sound(Head(inbox))
        BY <2>2, <2>4, <3>1, InboxHead DEF SessionInv
      <4>2. Len(inbox) \in Nat \ {0} /\ Head(inbox) = inbox[1]
        BY <2>2, Front DEF SessionInv, WholeInv, TypeOK
      <4> QED
        BY <4>1, <4>2
    <3>3. ran[1] = 0
      BY <3>2 DEF SessionInv, FlowInv, Unrun
    <3> QED
      BY <2>4, <3>1, <3>3
  <2> QED
    BY <1>1, <1>3, <2>1, <2>3, <2>4, SameTable DEF Promise!BreakOff
<1> QED
  BY <1>2, <1>3 DEF SeeEnd, Here

LEMMA StepRefines ==
  SessionInv /\ EndInv /\ Genuine /\ [Next]_vars => [Promise!Next]_(Promise!vars)
<1> SUFFICES ASSUME SessionInv, EndInv, Genuine, [Next]_vars
             PROVE  Promise!Next \/ UNCHANGED Promise!vars
  OBVIOUS
<1>1. CASE Ask
  BY <1>1, AskRefines DEF Promise!Next
<1>2. CASE TakeAnswer
  BY <1>2, StepSession, TakeRefines DEF Promise!Next
<1>3. CASE SeeEnd \/ Leave
  BY <1>3, GoneRefines DEF Promise!Next
<1>4. CASE HandleRequest
  BY <1>4, HandleRefines DEF Promise!Next
<1>5. CASE UNCHANGED <<sent, got, peer, ran>>
  BY <1>5 DEF Promise!vars
<1> QED
  BY <1>1, <1>2, <1>3, <1>4, <1>5
  DEF Next, Run, Handshake, BeginHandshake, EndHandshake, FirstRead, ReadFails,
      EndOfStream, WriteEnds, Close, ShutdownEnds, vars, peerVars, sessionVars

\* Every behaviour of a session, seen through requests, answers and runs of the
\* user's function, is one Connection allows: the strand, the posted tasks, the
\* slow writes, the failed reads and the close add nothing to it.
THEOREM Refinement == Spec => ImplementsConnection
<1>1. Init => Promise!Init
  BY DEF Init, Promise!Init
<1>2. Init => Genuine
  BY DEF Init, Genuine
<1>3. SessionInv /\ EndInv /\ Genuine /\ [Next]_vars
        => SessionInv' /\ EndInv' /\ Genuine' /\ [Promise!Next]_(Promise!vars)
  BY StepSession, StepEnd, StepGenuine, StepRefines
<1> QED
  BY <1>1, <1>2, <1>3, InitSession, InitEnd, PTL
  DEF Spec, ImplementsConnection, Promise!Spec

=============================================================================
