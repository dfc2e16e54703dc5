------------------------ MODULE ServerSessionProofs ------------------------
(***************************************************************************)
(* What holds of a session for any number of requests of any kinds: its    *)
(* variables keep their types; a response to a request that keeps the      *)
(* connection is complete; and, as long as no request has exceeded the     *)
(* parser's limit, each is answered once, with its own answer, and the     *)
(* user's function runs once for it.  The last invariant follows the one   *)
(* request that is not answered: it is in the inbox, or its response is    *)
(* being written, or is on its way.                                        *)
(***************************************************************************)
EXTENDS ServerSession, SequenceTheorems, TLAPS

LEMMA StatusType == \A kind : Status(kind) \in {200, 400, 404, 500}
BY DEF Status

LEMMA Front ==
  ASSUME NEW S, NEW s \in Seq(S), s # <<>>
  PROVE  Len(s) \in Nat \ {0} /\ Head(s) = s[1] /\ s[1] \in S /\ Head(s) \in S
BY EmptySeq, ElementOfSeq

\* A response is appended to a sequence of responses.
LEMMA AppendAnswer ==
  ASSUME NEW s \in Seq(Answers), NEW r \in Answers
  PROVE  /\ Append(s, r) \in Seq(Answers)
         /\ Len(s) = 0 => Len(Append(s, r)) = 1 /\ Append(s, r)[1] = r
BY AppendProperties

-----------------------------------------------------------------------------
(* Types and complete responses, whatever the peer sends. *)

\* A reply is a response of the right type.
LEMMA ReplyTyped ==
  ASSUME writing \in Seq(Answers), outbox \in Seq(Answers), NEW p, Reply(p),
         p.re \in 0..MaxRequests
  PROVE  writing' \in Seq(Answers) /\ outbox' \in Seq(Answers)
<1> DEFINE r == Response(p.re, p.kind, TRUE)
<1>1. r \in Answers
  BY StatusType DEF Response, Answers
<1>2. \/ writing' = Append(writing, r) /\ outbox' = outbox
      \/ outbox' = Append(outbox, r) /\ writing' = writing
  BY DEF Reply
<1> HIDE DEF r
<1> QED
  BY <1>1, <1>2, AppendAnswer

\* What is left after a read.
LEMMA UnreadTyped ==
  ASSUME inbox \in Seq(Piece), inbox # <<>>, NEW rest \in Unread
  PROVE  /\ rest \in Seq(Piece)
         /\ \E d \in Nat \ {0} :
              \A i \in 1..Len(rest) : i + d \in 1..Len(inbox) /\ rest[i] = inbox[i + d]
<1>1. PICK j \in 2..(Len(inbox) + 1) : rest = SubSeq(inbox, j, Len(inbox))
  BY DEF Unread
<1>2. Len(inbox) \in Nat
  BY LenProperties
<1>3. /\ rest \in Seq(Piece)
      /\ Len(rest) = IF j <= Len(inbox) THEN Len(inbox) - j + 1 ELSE 0
      /\ \A i \in 1..(Len(inbox) - j + 1) : rest[i] = inbox[j + i - 1]
  BY <1>1, <1>2, SubSeqProperties
<1>4. ASSUME NEW i \in 1..Len(rest)
      PROVE  i + (j - 1) \in 1..Len(inbox) /\ rest[i] = inbox[i + (j - 1)]
  <2>1. /\ j + i - 1 \in 1..Len(inbox) /\ i \in 1..(Len(inbox) - j + 1)
        /\ j + i - 1 = i + (j - 1)
    BY <1>2, <1>3, <1>4
  <2> QED
    BY <1>3, <2>1
<1>5. j - 1 \in Nat \ {0}
  BY <1>2
<1> QED
  BY <1>3, <1>4, <1>5

LEMMA InitType == Init => TypeOK
<1> SUFFICES ASSUME Init PROVE TypeOK
  OBVIOUS
<1>1. /\ <<>> \in Seq(Piece) /\ <<>> \in Seq(Answers)
      /\ [i \in 1..MaxRequests |-> 0] \in [1..MaxRequests -> Nat]
  OBVIOUS
<1>2. stream \in {"none", "up", "shutting"}
  BY SessionAssumption DEF Init
<1> QED
  BY <1>1, <1>2 DEF Init, TypeOK

LEMMA HandleType == ASSUME TypeOK, HandleRequest PROVE TypeOK'
<1>1. /\ inbox # <<>> /\ inbox' \in Unread
      /\ Execute(Head(inbox)) /\ Reply(Head(inbox)) /\ GoOn(Head(inbox))
      /\ UNCHANGED <<sent, got, peer, end, shaking, shut, stream>>
  BY DEF HandleRequest, peerVars
<1>2. inbox \in Seq(Piece) /\ writing \in Seq(Answers) /\ outbox \in Seq(Answers)
  BY DEF TypeOK
<1>3. Head(inbox) \in Piece
  BY <1>1, <1>2, Front
<1>4. inbox' \in Seq(Piece)
  BY <1>1, <1>2, UnreadTyped
<1>5. Head(inbox).re \in 1..MaxRequests /\ Head(inbox).re \in 0..MaxRequests
  BY <1>3, SessionAssumption DEF Piece
<1>6. writing' \in Seq(Answers) /\ outbox' \in Seq(Answers)
  BY <1>1, <1>2, <1>5, ReplyTyped
<1>7. ran' \in [1..MaxRequests -> Nat]
  BY <1>1, <1>5 DEF TypeOK, Execute
<1>8. reading' \in BOOLEAN /\ tasks' \subseteq {"handshake", "read", "close"}
  BY <1>1 DEF TypeOK, GoOn
<1> QED
  BY <1>1, <1>4, <1>6, <1>7, <1>8 DEF TypeOK

LEMMA FailType == ASSUME TypeOK, ReadFails PROVE TypeOK'
<1>1. /\ UNCHANGED <<sent, got, peer, ran, tasks, shaking, reading, shut, stream>>
      /\ inbox' = inbox \/ (inbox # <<>> /\ inbox' \in Unread)
      /\ end' \in {end, "fin", "cut"}
  BY DEF ReadFails, peerVars
<1>2. inbox \in Seq(Piece) /\ writing \in Seq(Answers) /\ outbox \in Seq(Answers)
  BY DEF TypeOK
<1>3. inbox' \in Seq(Piece)
  BY <1>1, <1>2, UnreadTyped
<1>4. writing' \in Seq(Answers) /\ outbox' \in Seq(Answers)
  <2>1. CASE inbox # <<>> /\ Reply(Head(inbox))
    <3>1. Head(inbox).re \in 0..MaxRequests
      <4>1. Head(inbox) \in Piece
        BY <1>2, <2>1, Front
      <4> QED
        BY <4>1, SessionAssumption DEF Piece
    <3> QED
      BY <1>2, <2>1, <3>1, ReplyTyped
  <2>2. CASE Reply([re |-> 0, kind |-> "junk", keep |-> TRUE])
    BY <1>2, <2>2, ReplyTyped, SessionAssumption
  <2> QED
    BY <2>1, <2>2 DEF ReadFails
<1> QED
  BY <1>1, <1>3, <1>4 DEF TypeOK

\* The response that async_write has dealt with, complete or not.
LEMMA Written ==
  ASSUME writing \in Seq(Answers), writing # <<>>
  PROVE  /\ [Head(writing) EXCEPT !.whole = ~shut] \in Answers
         /\ [Head(writing) EXCEPT !.whole = ~shut].whole = ~shut
<1>1. Head(writing) \in Answers
  BY Front
<1>2. ASSUME NEW a \in Answers, NEW b \in BOOLEAN
      PROVE  [a EXCEPT !.whole = b] \in Answers /\ [a EXCEPT !.whole = b].whole = b
  BY DEF Answers
<1>3. (~shut) \in BOOLEAN
  BY Zenon
<1> QED
  BY <1>1, <1>2, <1>3, Zenon

LEMMA WriteType == ASSUME TypeOK, WriteEnds PROVE TypeOK'
<1> DEFINE r == [Head(writing) EXCEPT !.whole = ~shut]
<1>1. /\ writing # <<>> /\ writing' = Tail(writing)
      /\ tasks' \in {tasks, tasks \cup {"close"}}
      /\ outbox' = outbox \/ outbox' = Append(outbox, r)
      /\ UNCHANGED <<sent, got, peer, inbox, end, ran, shaking, reading, shut, stream>>
  BY DEF WriteEnds, peerVars
<1>2. writing \in Seq(Answers) /\ outbox \in Seq(Answers)
  BY DEF TypeOK
<1>3. r \in Answers
  BY <1>1, <1>2, Written
<1> HIDE DEF r
<1>4. writing' \in Seq(Answers) /\ outbox' \in Seq(Answers)
  BY <1>1, <1>2, <1>3, HeadTailProperties, AppendAnswer
<1> QED
  BY <1>1, <1>4 DEF TypeOK

\* What an Ask sends.
LEMMA AskSends ==
  ASSUME TypeOK, Ask
  PROVE  /\ peer = "ready" /\ peer' = "waiting"
         /\ UNCHANGED <<got, outbox, end, ran, tasks, shaking, reading, writing,
                        shut, stream>>
         /\ Len(sent) < MaxRequests
         /\ \E p \in Piece : \E junk \in Seq(Piece) :
              /\ sent' = Append(sent, p)
              /\ inbox' = Append(inbox, p) \o junk
              /\ p.re = Len(sent) + 1 /\ p.kind \in Kinds
              /\ p.kind # "big" => junk = <<>>
              /\ \A i \in 1..Len(junk) : junk[i].keep /\ junk[i].kind = "junk"
<1>1. PICK kind \in Kinds, keep \in Keeps :
        LET p == [re |-> Len(sent) + 1, kind |-> kind, keep |-> keep] IN
        /\ sent' = Append(sent, p)
        /\ IF kind = "big"
             THEN \E junk \in Junk(Len(sent) + 1) : inbox' = Append(inbox, p) \o junk
             ELSE inbox' = Append(inbox, p)
  BY DEF Ask
<1> DEFINE p == [re |-> Len(sent) + 1, kind |-> kind, keep |-> keep]
<1>2. p \in Piece /\ Len(sent) + 1 \in 1..MaxRequests
  <2>1. Len(sent) \in Nat /\ Len(sent) < MaxRequests
    BY LenProperties DEF Ask, TypeOK
  <2> QED
    BY <2>1, SessionAssumption DEF Piece
<1>3. inbox \in Seq(Piece)
  BY DEF TypeOK
<1>4. ASSUME NEW junk \in Junk(Len(sent) + 1)
      PROVE  /\ junk \in Seq(Piece)
             /\ \A i \in 1..Len(junk) : junk[i].keep /\ junk[i].kind = "junk"
  <2>1. PICK n \in 0..MaxJunk :
          junk = [j \in 1..n |-> [re |-> Len(sent) + 1, kind |-> "junk", keep |-> TRUE]]
    BY <1>4 DEF Junk
  <2>2. [re |-> Len(sent) + 1, kind |-> "junk", keep |-> TRUE] \in Piece
    BY <1>2 DEF Piece
  <2>3. n \in Nat
    BY <2>1, SessionAssumption
  <2>4. junk \in [1..n -> Piece]
    BY <2>1, <2>2
  <2>5. junk \in Seq(Piece) /\ Len(junk) = n
    BY <2>3, <2>4, IsASeq, LenProperties
  <2> QED
    BY <2>1, <2>5
<1>5. Append(inbox, p) = Append(inbox, p) \o <<>>
  BY <1>2, <1>3, ConcatEmptySeq, AppendProperties
<1>6. <<>> \in Seq(Piece) /\ 1..Len(<<>>) = {}
  OBVIOUS
<1>7. \E junk \in Seq(Piece) :
        /\ inbox' = Append(inbox, p) \o junk
        /\ kind # "big" => junk = <<>>
        /\ \A i \in 1..Len(junk) : junk[i].keep /\ junk[i].kind = "junk"
  <2>1. CASE kind = "big"
    BY <1>1, <1>4, <2>1
  <2>2. CASE kind # "big"
    BY <1>1, <1>5, <1>6, <2>2
  <2> QED
    BY <2>1, <2>2
<1>8. UNCHANGED <<got, outbox, end, ran, tasks, shaking, reading, writing, shut,
                  stream>>
  BY DEF Ask, sessionVars
<1>9. /\ sent' = Append(sent, p) /\ peer = "ready" /\ peer' = "waiting"
      /\ Len(sent) < MaxRequests /\ p.re = Len(sent) + 1 /\ p.kind = kind
  BY <1>1 DEF Ask
<1> HIDE DEF p
<1> QED
  BY <1>1, <1>2, <1>7, <1>8, <1>9

LEMMA StepType == TypeOK /\ [Next]_vars => TypeOK'
<1> SUFFICES ASSUME TypeOK, [Next]_vars PROVE TypeOK'
  OBVIOUS
<1>1. CASE Ask
  <2>1. PICK p \in Piece : \E junk \in Seq(Piece) :
          sent' = Append(sent, p) /\ inbox' = Append(inbox, p) \o junk
    BY <1>1, AskSends
  <2>2. PICK junk \in Seq(Piece) : inbox' = Append(inbox, p) \o junk
    BY <2>1
  <2>3. sent \in Seq(Piece) /\ inbox \in Seq(Piece)
    BY DEF TypeOK
  <2>4. sent' \in Seq(Piece) /\ inbox' \in Seq(Piece)
    BY <2>1, <2>2, <2>3, AppendProperties, ConcatProperties
  <2>5. /\ peer' = "waiting"
        /\ UNCHANGED <<got, outbox, end, ran, tasks, shaking, reading, writing,
                       shut, stream>>
    BY <1>1, AskSends
  <2> QED
    BY <2>4, <2>5 DEF TypeOK
<1>2. CASE TakeAnswer
  <2>1. /\ outbox # <<>> /\ got' = Append(got, Head(outbox)) /\ outbox' = Tail(outbox)
        /\ peer' \in {"ready", "closed"} /\ end' \in {end, "fin", "cut"}
        /\ UNCHANGED <<sent, inbox, ran, tasks, shaking, reading, writing, shut,
                       stream>>
    BY <1>2 DEF TakeAnswer, Endings, sessionVars
  <2>2. got \in Seq(Answers) /\ outbox \in Seq(Answers)
    BY DEF TypeOK
  <2>3. got' \in Seq(Answers) /\ outbox' \in Seq(Answers)
    BY <2>1, <2>2, HeadTailProperties, AppendProperties
  <2> QED
    BY <2>1, <2>3 DEF TypeOK
<1>3. CASE SeeEnd \/ Leave
  <2>1. /\ peer' \in {"closed", "reset"} /\ end' \in {"fin", "cut", "reset"}
        /\ inbox' \in {inbox, <<>>} /\ outbox' \in {outbox, <<>>}
        /\ UNCHANGED <<sent, got, ran, tasks, shaking, reading, writing, shut, stream>>
    BY <1>3 DEF SeeEnd, Leave, Endings, sessionVars
  <2>2. <<>> \in Seq(Piece) /\ <<>> \in Seq(Answers)
    OBVIOUS
  <2>3. inbox' \in Seq(Piece) /\ outbox' \in Seq(Answers)
    BY <2>1, <2>2 DEF TypeOK
  <2> QED
    BY <2>1, <2>3 DEF TypeOK
<1>4. CASE \/ Handshake \/ BeginHandshake \/ EndHandshake \/ FirstRead
           \/ EndOfStream \/ Close \/ ShutdownEnds \/ UNCHANGED vars
  <2>1. UNCHANGED <<sent, got, peer, inbox, outbox, end, ran, writing>>
    BY <1>4 DEF Handshake, BeginHandshake, EndHandshake, FirstRead, EndOfStream,
                Close, ShutdownEnds, vars, peerVars, wireVars, sessionVars
  <2>2. /\ tasks' \subseteq {"handshake", "read", "close"} /\ shaking' \in BOOLEAN
        /\ reading' \in BOOLEAN /\ shut' \in BOOLEAN
        /\ stream' \in {"none", "up", "shutting"}
    BY <1>4 DEF TypeOK, Handshake, BeginHandshake, EndHandshake, FirstRead,
                EndOfStream, Close, ShutdownEnds, TaskRuns, vars, sessionVars
  <2> QED
    BY <2>1, <2>2 DEF TypeOK
<1> QED
  BY <1>1, <1>2, <1>3, <1>4, HandleType, FailType, WriteType DEF Next, Run

\* The variables of a session and its peer keep their types.
THEOREM TypeCorrect == Spec => []TypeOK
BY InitType, StepType, PTL DEF Spec

-----------------------------------------------------------------------------
(* A complete response to every request that keeps the connection. *)

\* It waits for the response after which it goes.
Leaving == peer = "waiting" /\ ~sent[Len(sent)].keep

\* The first read has not started yet ...
Starting == "handshake" \in tasks \/ shaking \/ "read" \in tasks

\* ... or never will, or is over, and nothing is on its way.
Silent == ~reading /\ writing = <<>> /\ outbox = <<>>

\* How many answers the peer has.
Counted ==
  /\ Len(got) <= Len(sent)
  /\ peer = "ready" => Len(sent) = Len(got)
  /\ peer = "waiting" => Len(sent) = Len(got) + 1
  /\ Here => end = "none"

\* The steps before the first read come one after the other.
Started ==
  /\ Starting => Silent
  /\ "handshake" \in tasks => ~shaking /\ "read" \notin tasks
  /\ "read" \in tasks => ~shaking

\* Only the handling of the last request, when it does not keep the connection,
\* or a failed handshake leads to a close while the peer is there; only then may
\* a response be cut.
Parting ==
  Here =>
    /\ shut \/ "close" \in tasks => Leaving \/ (~Starting /\ Silent)
    /\ \A i \in 1..Len(inbox) : ~inbox[i].keep => Leaving
    /\ \A i \in 1..Len(outbox) : ~outbox[i].whole => Leaving

WholeInv == TypeOK /\ Counted /\ Started /\ Parting /\ KeptAnswerWhole

LEMMA InitWhole == Init => WholeInv
<1> SUFFICES ASSUME Init PROVE WholeInv
  OBVIOUS
<1>1. Counted /\ KeptAnswerWhole
  BY DEF Init, Counted, KeptAnswerWhole, Here
<1>2. Started /\ Parting
  BY DEF Init, Started, Parting, Silent, Starting
<1> QED
  BY <1>1, <1>2, InitType DEF WholeInv

\* Steps that move no message.
LEMMA QuietWhole ==
  ASSUME WholeInv, [Next]_vars,
         \/ Handshake \/ BeginHandshake \/ EndHandshake \/ FirstRead
         \/ EndOfStream \/ Close \/ ShutdownEnds \/ UNCHANGED vars
  PROVE  Counted' /\ Started' /\ Parting' /\ KeptAnswerWhole'
<1>1. UNCHANGED <<sent, got, peer, inbox, outbox, end, writing>>
  BY DEF Handshake, BeginHandshake, EndHandshake, FirstRead, EndOfStream, Close,
         ShutdownEnds, vars, peerVars, wireVars, sessionVars
<1>2. Counted' /\ KeptAnswerWhole'
  BY <1>1 DEF WholeInv, Counted, KeptAnswerWhole, Here
<1>3. (Here' <=> Here) /\ (Leaving' <=> Leaving)
  BY <1>1 DEF Here, Leaving
<1>4. ASSUME Started',
             Here /\ (shut' \/ "close" \in tasks') => Leaving \/ (~Starting' /\ Silent')
      PROVE  Counted' /\ Started' /\ Parting' /\ KeptAnswerWhole'
  BY <1>1, <1>2, <1>3, <1>4 DEF WholeInv, Parting
<1>5. CASE Handshake \/ BeginHandshake \/ EndHandshake \/ FirstRead
  <2>1. shut' = shut /\ ("handshake" \in tasks \/ shaking \/ "read" \in tasks)
    BY <1>5 DEF Handshake, BeginHandshake, EndHandshake, FirstRead, TaskRuns
  <2>2. Here /\ (shut \/ "close" \in tasks) => Leaving
    BY <2>1 DEF WholeInv, Parting, Starting
  <2>3. Silent
    BY <2>1 DEF WholeInv, Started, Starting
  <2>4. CASE Handshake \/ BeginHandshake \/ FirstRead
    <3>1. "close" \in tasks' <=> "close" \in tasks
      BY <2>4 DEF Handshake, BeginHandshake, FirstRead, TaskRuns
    <3>2. Started'
      BY <1>1, <2>3, <2>4 DEF Handshake, BeginHandshake, FirstRead, TaskRuns,
                              WholeInv, Started, Starting, Silent
    <3> QED
      BY <1>4, <2>1, <2>2, <3>1, <3>2
  <2>5. CASE EndHandshake
    <3>1. "handshake" \notin tasks /\ "read" \notin tasks /\ shaking
      BY <2>5 DEF EndHandshake, WholeInv, Started
    <3>2. /\ shaking' = FALSE /\ reading' = reading
          /\ tasks' = tasks \cup {"read"} \/ tasks' = tasks \cup {"close"}
      BY <2>5 DEF EndHandshake
    <3>3. Silent'
      BY <1>1, <2>3, <3>2 DEF Silent
    <3>4. Started'
      BY <3>1, <3>2, <3>3 DEF Started, Starting
    <3>5. CASE tasks' = tasks \cup {"read"}
      BY <1>4, <2>1, <2>2, <3>4, <3>5
    <3>6. CASE tasks' = tasks \cup {"close"}
      BY <1>4, <3>1, <3>2, <3>3, <3>4, <3>6 DEF Starting
    <3> QED
      BY <3>2, <3>5, <3>6
  <2> QED
    BY <1>5, <2>4, <2>5
<1>6. CASE EndOfStream
  <2>1. ~Here /\ reading
    BY <1>6 DEF EndOfStream, WholeInv, Counted
  <2>2. ~Starting /\ tasks' = tasks \cup {"close"} /\ shaking' = shaking
    BY <1>6, <2>1 DEF EndOfStream, WholeInv, Started, Silent
  <2>3. ~Starting'
    BY <2>2 DEF Starting
  <2>4. Started'
    BY <2>3 DEF Started, Starting
  <2> QED
    BY <1>4, <2>1, <2>4
<1>7. CASE Close
  <2>1. "close" \in tasks /\ tasks' = tasks \ {"close"} /\ UNCHANGED <<shaking, reading>>
    BY <1>7 DEF Close, TaskRuns
  <2>2. (Starting' <=> Starting) /\ (Silent' <=> Silent)
    BY <1>1, <2>1 DEF Starting, Silent
  <2>3. Started'
    BY <2>1, <2>2 DEF WholeInv, Started
  <2> QED
    BY <1>4, <2>1, <2>2, <2>3 DEF WholeInv, Parting
<1>8. CASE ShutdownEnds \/ UNCHANGED vars
  <2>1. UNCHANGED <<tasks, shaking, reading, shut>>
    BY <1>8 DEF ShutdownEnds, vars, sessionVars
  <2>2. (Starting' <=> Starting) /\ (Silent' <=> Silent)
    BY <1>1, <2>1 DEF Starting, Silent
  <2>3. Started'
    BY <2>1, <2>2 DEF WholeInv, Started
  <2> QED
    BY <1>4, <2>1, <2>2, <2>3 DEF WholeInv, Parting
<1> QED
  BY <1>5, <1>6, <1>7, <1>8

\* A reply adds a complete response, or starts to write one.
LEMMA ReplyWhole ==
  ASSUME TypeOK, NEW p, p.re \in 0..MaxRequests, Reply(p)
  PROVE  \A i \in 1..Len(outbox') :
           ~outbox'[i].whole => \E j \in 1..Len(outbox) : ~outbox[j].whole
<1> DEFINE r == Response(p.re, p.kind, TRUE)
<1>1. r \in Answers /\ r.whole
  BY StatusType DEF Response, Answers
<1>2. outbox' = outbox \/ outbox' = Append(outbox, r)
  BY DEF Reply
<1> HIDE DEF r
<1>3. outbox \in Seq(Answers)
  BY DEF TypeOK
<1>4. CASE outbox' = Append(outbox, r)
  <2>1. /\ Len(outbox') = Len(outbox) + 1 /\ Len(outbox) \in Nat
        /\ \A i \in 1..Len(outbox) : outbox'[i] = outbox[i]
        /\ outbox'[Len(outbox) + 1] = r
    BY <1>1, <1>3, <1>4, AppendProperties, LenProperties
  <2> QED
    BY <1>1, <2>1
<1> QED
  BY <1>2, <1>4

LEMMA HandleWhole ==
  ASSUME WholeInv, HandleRequest
  PROVE  Counted' /\ Started' /\ Parting' /\ KeptAnswerWhole'
<1> DEFINE p == Head(inbox)
<1>1. /\ reading /\ inbox # <<>> /\ inbox' \in Unread
      /\ Reply(p) /\ GoOn(p)
      /\ UNCHANGED <<sent, got, peer, end, shaking, shut, stream>>
  BY DEF HandleRequest, peerVars
<1>2. inbox \in Seq(Piece) /\ p \in Piece /\ p = inbox[1] /\ 1 \in 1..Len(inbox)
  <2>1. inbox \in Seq(Piece)
    BY DEF WholeInv, TypeOK
  <2>2. Len(inbox) \in Nat \ {0} /\ p = inbox[1] /\ p \in Piece
    BY <1>1, <2>1, Front
  <2> QED
    BY <2>1, <2>2
<1>3. Counted' /\ KeptAnswerWhole'
  BY <1>1 DEF WholeInv, Counted, KeptAnswerWhole, Here
<1>4. (Here' <=> Here) /\ (Leaving' <=> Leaving)
  BY <1>1 DEF Here, Leaving
<1>5. ~Starting
  BY <1>1 DEF WholeInv, Started, Silent
<1>6. \/ p.keep /\ tasks' = tasks
      \/ ~p.keep /\ tasks' = tasks \cup {"close"}
  BY <1>1 DEF GoOn
<1>7. ~Starting'
  BY <1>1, <1>5, <1>6 DEF Starting
<1>8. Started'
  BY <1>7 DEF Started, Starting
<1>9. p.re \in 0..MaxRequests
  BY <1>2, SessionAssumption DEF Piece
<1>10. ASSUME Here PROVE shut' \/ "close" \in tasks' => Leaving
  <2>1. ~p.keep => Leaving
    BY <1>2, <1>10 DEF WholeInv, Parting
  <2>2. shut \/ "close" \in tasks => Leaving
    BY <1>1, <1>10 DEF WholeInv, Parting, Silent
  <2> QED
    BY <1>1, <1>6, <2>1, <2>2
<1>11. ASSUME Here, NEW i \in 1..Len(inbox'), ~inbox'[i].keep PROVE Leaving
  <2>1. PICK j \in 1..Len(inbox) : inbox'[i] = inbox[j]
    BY <1>1, <1>2, UnreadTyped
  <2> QED
    BY <1>11, <2>1 DEF WholeInv, Parting
<1>12. ASSUME Here, NEW i \in 1..Len(outbox'), ~outbox'[i].whole PROVE Leaving
  <2>1. \E j \in 1..Len(outbox) : ~outbox[j].whole
    BY <1>1, <1>9, <1>12, ReplyWhole DEF WholeInv
  <2> QED
    BY <1>12, <2>1 DEF WholeInv, Parting
<1>13. Parting'
  BY <1>4, <1>10, <1>11, <1>12 DEF Parting
<1> QED
  BY <1>3, <1>8, <1>13

LEMMA FailWhole ==
  ASSUME WholeInv, ReadFails
  PROVE  Counted' /\ Started' /\ Parting' /\ KeptAnswerWhole'
<1>1. /\ reading
      /\ inbox' = inbox \/ (inbox # <<>> /\ inbox' \in Unread)
      /\ end' = end \/ end \in {"reset", "cut"}
      /\ UNCHANGED <<sent, got, peer, tasks, shaking, reading, shut>>
  BY DEF ReadFails, peerVars
<1>2. inbox \in Seq(Piece)
  BY DEF WholeInv, TypeOK
<1>3. PICK p : p.re \in 0..MaxRequests /\ Reply(p)
  <2>1. CASE inbox # <<>> /\ Reply(Head(inbox))
    <3>1. Head(inbox) \in Piece
      BY <1>2, <2>1, Front
    <3> QED
      BY <2>1, <3>1, SessionAssumption DEF Piece
  <2>2. CASE Reply([re |-> 0, kind |-> "junk", keep |-> TRUE])
    BY <2>2, SessionAssumption
  <2> QED
    BY <2>1, <2>2 DEF ReadFails
<1>4. Counted' /\ KeptAnswerWhole'
  BY <1>1 DEF WholeInv, Counted, KeptAnswerWhole, Here
<1>5. (Here' <=> Here) /\ (Leaving' <=> Leaving)
  BY <1>1 DEF Here, Leaving
<1>6. ~Starting /\ ~Starting'
  BY <1>1 DEF WholeInv, Started, Silent, Starting
<1>7. Started'
  BY <1>6 DEF Started, Starting
<1>8. ASSUME Here PROVE shut' \/ "close" \in tasks' => Leaving
  BY <1>1, <1>8 DEF WholeInv, Parting, Silent
<1>9. ASSUME Here, NEW i \in 1..Len(inbox'), ~inbox'[i].keep PROVE Leaving
  <2>1. PICK j \in 1..Len(inbox) : inbox'[i] = inbox[j]
    BY <1>1, <1>2, <1>9, UnreadTyped
  <2> QED
    BY <1>9, <2>1 DEF WholeInv, Parting
<1>10. ASSUME Here, NEW i \in 1..Len(outbox'), ~outbox'[i].whole PROVE Leaving
  <2>1. \E j \in 1..Len(outbox) : ~outbox[j].whole
    BY <1>3, <1>10, ReplyWhole DEF WholeInv
  <2> QED
    BY <1>10, <2>1 DEF WholeInv, Parting
<1>11. Parting'
  BY <1>5, <1>8, <1>9, <1>10 DEF Parting
<1> QED
  BY <1>4, <1>7, <1>11

\* A response is cut only if the sending side has been shut down.
LEMMA WriteWhole ==
  ASSUME WholeInv, WriteEnds
  PROVE  Counted' /\ Started' /\ Parting' /\ KeptAnswerWhole'
<1> DEFINE r == [Head(writing) EXCEPT !.whole = ~shut]
<1>1. /\ writing # <<>>
      /\ UNCHANGED <<sent, got, peer, inbox, end, shaking, reading, shut>>
      /\ tasks' \in {tasks, tasks \cup {"close"}}
      /\ Here => /\ outbox' = Append(outbox, r)
                 /\ tasks' # tasks => shut
  BY DEF WriteEnds, peerVars
<1>2. writing \in Seq(Answers) /\ outbox \in Seq(Answers)
  BY DEF WholeInv, TypeOK
<1>3. r \in Answers /\ r.whole = ~shut
  BY <1>1, <1>2, Written
<1> HIDE DEF r
<1>4. Counted' /\ KeptAnswerWhole'
  BY <1>1 DEF WholeInv, Counted, KeptAnswerWhole, Here
<1>5. (Here' <=> Here) /\ (Leaving' <=> Leaving)
  BY <1>1 DEF Here, Leaving
<1>6. ~Starting
  BY <1>1 DEF WholeInv, Started, Silent
<1>7. ~Starting'
  BY <1>1, <1>6 DEF Starting
<1>8. Started'
  BY <1>7 DEF Started, Starting
<1>9. ASSUME Here PROVE shut \/ "close" \in tasks => Leaving
  BY <1>1, <1>9 DEF WholeInv, Parting, Silent
<1>10. ASSUME Here PROVE shut' \/ "close" \in tasks' => Leaving
  BY <1>1, <1>5, <1>9, <1>10
<1>11. ASSUME Here, NEW i \in 1..Len(outbox'), ~outbox'[i].whole PROVE Leaving
  <2>1. outbox' = Append(outbox, r)
    BY <1>1, <1>5, <1>11
  <2>2. /\ Len(outbox') = Len(outbox) + 1 /\ Len(outbox) \in Nat
        /\ \A j \in 1..Len(outbox) : outbox'[j] = outbox[j]
        /\ outbox'[Len(outbox) + 1] = r
    BY <1>2, <1>3, <2>1, AppendProperties, LenProperties
  <2>3. CASE i \in 1..Len(outbox)
    BY <1>11, <2>2, <2>3 DEF WholeInv, Parting
  <2>4. CASE i = Len(outbox) + 1
    BY <1>3, <1>9, <1>11, <2>2, <2>4
  <2> QED
    BY <2>2, <2>3, <2>4
<1>12. Parting'
  BY <1>1, <1>5, <1>10, <1>11 DEF WholeInv, Parting
<1> QED
  BY <1>4, <1>8, <1>12

LEMMA AskWhole ==
  ASSUME WholeInv, Ask
  PROVE  Counted' /\ Started' /\ Parting' /\ KeptAnswerWhole'
<1>1. /\ peer = "ready" /\ peer' = "waiting"
      /\ UNCHANGED <<got, outbox, end, tasks, shaking, reading, writing, shut>>
  BY AskSends DEF WholeInv
<1>2. PICK p \in Piece : \E junk \in Seq(Piece) :
        /\ sent' = Append(sent, p)
        /\ inbox' = Append(inbox, p) \o junk
        /\ \A i \in 1..Len(junk) : junk[i].keep
  BY AskSends DEF WholeInv
<1>3. PICK junk \in Seq(Piece) : /\ inbox' = Append(inbox, p) \o junk
                                 /\ \A i \in 1..Len(junk) : junk[i].keep
  BY <1>2
<1>4. sent \in Seq(Piece) /\ inbox \in Seq(Piece)
  BY DEF WholeInv, TypeOK
<1>5. /\ Len(sent) \in Nat /\ Len(sent') = Len(sent) + 1 /\ sent'[Len(sent')] = p
      /\ \A i \in 1..Len(sent) : sent'[i] = sent[i]
  BY <1>2, <1>4, AppendProperties, LenProperties
<1>6. Len(got) = Len(sent) /\ Here /\ ~Leaving /\ end = "none"
  BY <1>1 DEF WholeInv, Counted, Here, Leaving
<1>7. Counted'
  BY <1>1, <1>5, <1>6 DEF Counted
<1>8. KeptAnswerWhole'
  BY <1>1, <1>5, <1>6 DEF WholeInv, KeptAnswerWhole
<1>9. (Starting' <=> Starting) /\ (Silent' <=> Silent)
  BY <1>1 DEF Starting, Silent
<1>10. Started'
  BY <1>1, <1>9 DEF WholeInv, Started
<1>11. ASSUME NEW i \in 1..Len(inbox'), ~inbox'[i].keep PROVE Leaving'
  <2> DEFINE a == Append(inbox, p)
  <2>1. /\ a \in Seq(Piece) /\ Len(a) = Len(inbox) + 1 /\ Len(inbox) \in Nat
        /\ \A j \in 1..Len(inbox) : a[j] = inbox[j]
        /\ a[Len(inbox) + 1] = p
    BY <1>4, AppendProperties, LenProperties
  <2> HIDE DEF a
  <2>2. /\ Len(inbox') = Len(a) + Len(junk) /\ Len(junk) \in Nat
        /\ \A j \in 1..(Len(a) + Len(junk)) :
             inbox'[j] = IF j <= Len(a) THEN a[j] ELSE junk[j - Len(a)]
    BY <1>3, <2>1, ConcatProperties, LenProperties DEF a
  <2>3. CASE i \in 1..Len(inbox)
    <3>1. inbox'[i] = inbox[i]
      BY <2>1, <2>2, <2>3
    <3> QED
      BY <1>6, <1>11, <2>3, <3>1 DEF WholeInv, Parting
  <2>4. CASE i = Len(inbox) + 1
    <3>1. inbox'[i] = p
      BY <2>1, <2>2, <2>4
    <3> QED
      BY <1>1, <1>5, <1>11, <3>1 DEF Leaving
  <2>5. CASE i > Len(inbox) + 1
    <3>1. i - Len(a) \in 1..Len(junk) /\ inbox'[i] = junk[i - Len(a)]
      BY <2>1, <2>2, <2>5
    <3> QED
      BY <1>3, <1>11, <3>1
  <2> QED
    BY <2>1, <2>2, <2>3, <2>4, <2>5
<1>12. \A i \in 1..Len(outbox) : outbox[i].whole
  BY <1>6 DEF WholeInv, Parting
<1>13. shut \/ "close" \in tasks => ~Starting /\ Silent
  BY <1>6 DEF WholeInv, Parting
<1>14. Parting'
  BY <1>1, <1>9, <1>11, <1>12, <1>13 DEF Parting
<1> QED
  BY <1>7, <1>8, <1>10, <1>14

\* The peer only stays after a complete response to a request that it kept.
LEMMA TakeWhole ==
  ASSUME WholeInv, TakeAnswer
  PROVE  Counted' /\ Started' /\ Parting' /\ KeptAnswerWhole'
<1> DEFINE r == Head(outbox)
<1>1. /\ peer = "waiting" /\ outbox # <<>>
      /\ got' = Append(got, r) /\ outbox' = Tail(outbox)
      /\ \/ peer' = "ready" /\ end' = end /\ r.whole /\ sent[Len(sent)].keep
         \/ peer' = "closed"
      /\ UNCHANGED <<sent, inbox, tasks, shaking, reading, writing, shut>>
  BY DEF TakeAnswer, sessionVars
<1>2. got \in Seq(Answers) /\ outbox \in Seq(Answers)
  BY DEF WholeInv, TypeOK
<1>3. /\ r \in Answers /\ r = outbox[1] /\ Len(outbox) \in Nat \ {0}
      /\ Len(outbox') = Len(outbox) - 1
      /\ \A i \in 1..Len(outbox') : outbox'[i] = outbox[i + 1]
  BY <1>1, <1>2, Front, HeadTailProperties
<1> HIDE DEF r
<1>4. /\ Len(got) \in Nat /\ Len(got') = Len(got) + 1 /\ got'[Len(got) + 1] = r
      /\ \A i \in 1..Len(got) : got'[i] = got[i]
  BY <1>1, <1>2, <1>3, AppendProperties, LenProperties
<1>5. Here /\ Len(sent) = Len(got) + 1 /\ end = "none"
  BY <1>1 DEF WholeInv, Counted, Here
<1>6. ~r.whole => ~sent[Len(sent)].keep
  BY <1>3, <1>5 DEF WholeInv, Parting, Leaving
<1>7. Counted'
  BY <1>1, <1>4, <1>5 DEF Counted, Here
<1>8. KeptAnswerWhole'
  BY <1>1, <1>4, <1>5, <1>6 DEF WholeInv, KeptAnswerWhole
<1>9. Started'
  <2>1. ~Starting /\ (Starting' <=> Starting)
    BY <1>1 DEF WholeInv, Started, Silent, Starting
  <2> QED
    BY <2>1 DEF Started, Starting
<1>10. Parting'
  <2>1. CASE peer' = "closed"
    BY <2>1 DEF Parting, Here
  <2>2. CASE sent[Len(sent)].keep
    <3>1. ~Leaving
      BY <2>2 DEF Leaving
    <3>2. ~(shut \/ "close" \in tasks)
      BY <1>1, <1>5, <3>1 DEF WholeInv, Parting, Silent
    <3>3. \A i \in 1..Len(outbox') : outbox'[i].whole
      <4>1. \A i \in 1..Len(outbox') : i + 1 \in 1..Len(outbox)
        BY <1>3
      <4> QED
        BY <1>3, <1>5, <3>1, <4>1 DEF WholeInv, Parting
    <3>4. \A i \in 1..Len(inbox) : inbox[i].keep
      BY <1>5, <3>1 DEF WholeInv, Parting
    <3> QED
      BY <1>1, <3>2, <3>3, <3>4 DEF Parting
  <2> QED
    BY <1>1, <2>1, <2>2
<1> QED
  BY <1>7, <1>8, <1>9, <1>10

LEMMA GoneWhole ==
  ASSUME WholeInv, SeeEnd \/ Leave
  PROVE  Counted' /\ Started' /\ Parting' /\ KeptAnswerWhole'
<1>1. /\ peer' \in {"closed", "reset"} /\ outbox' \in {outbox, <<>>}
      /\ UNCHANGED <<sent, got, tasks, shaking, reading, writing, shut>>
  BY DEF SeeEnd, Leave, sessionVars
<1>2. ~Here' /\ peer' # "ready" /\ peer' # "waiting"
  BY <1>1 DEF Here
<1>3. Counted' /\ KeptAnswerWhole' /\ Parting'
  BY <1>1, <1>2 DEF WholeInv, Counted, KeptAnswerWhole, Parting
<1>4. Started'
  <2>1. (Starting' <=> Starting) /\ (Silent => Silent')
    BY <1>1 DEF Starting, Silent
  <2> QED
    BY <1>1, <2>1 DEF WholeInv, Started
<1> QED
  BY <1>3, <1>4

LEMMA StepWhole == WholeInv /\ [Next]_vars => WholeInv'
<1> SUFFICES ASSUME WholeInv, [Next]_vars PROVE WholeInv'
  OBVIOUS
<1>1. TypeOK'
  BY StepType DEF WholeInv
<1>2. Counted' /\ Started' /\ Parting' /\ KeptAnswerWhole'
  BY QuietWhole, HandleWhole, FailWhole, WriteWhole, AskWhole, TakeWhole,
     GoneWhole DEF Next, Run
<1> QED
  BY <1>1, <1>2 DEF WholeInv

\* A close never cuts the response to a request that keeps its connection,
\* whatever else the peer has sent, too large requests included.
THEOREM KeptAnswersWhole == Spec => []KeptAnswerWhole
<1>1. WholeInv => KeptAnswerWhole
  BY DEF WholeInv
<1> QED
  BY <1>1, InitWhole, StepWhole, PTL DEF Spec

-----------------------------------------------------------------------------
(* One answer and one run for each request, until one is too large. *)

Runs(kind) == kind \in {"good", "large", "throws"}

\* No request so far has been too large.
Fits == FitUpTo(Len(sent))

Numbered ==
  /\ Len(sent) \in 0..MaxRequests
  /\ \A i \in 1..Len(sent) : sent[i].re = i /\ sent[i].kind \in Kinds

\* The answers the peer has taken, and the functions run for them.
Answered ==
  \A i \in 1..Len(got) :
    FitUpTo(i) => /\ got[i].re = i
                  /\ got[i].status = Status(sent[i].kind)
                  /\ Runs(sent[i].kind) => ran[i] = 1

\* A piece that the parser will take for a request.
Sound(p) == p.kind \notin {"big", "junk"}

\* No function is run twice, or for a request that is not yet sent or read.
Unrun ==
  /\ \A i \in 1..MaxRequests : ran[i] <= 1 /\ (i > Len(sent) => ran[i] = 0)
  /\ \A j \in 1..Len(inbox) :
       Sound(inbox[j]) => inbox[j].re <= Len(sent) /\ ran[inbox[j].re] = 0
  /\ \A j, k \in 1..Len(inbox) :
       j # k /\ Sound(inbox[j]) /\ Sound(inbox[k]) => inbox[j].re # inbox[k].re

\* A response that is the answer to the last request, which has been handled.
IsAnswer(r) ==
  /\ r.re = Len(sent)
  /\ r.status = Status(sent[Len(sent)].kind)
  /\ Runs(sent[Len(sent)].kind) => ran[Len(sent)] = 1

\* What is under way: at most the last request.
Flow ==
  Fits =>
    /\ Len(inbox) <= 1
    /\ Len(inbox) = 1 => Len(sent) > 0 /\ inbox[1] = sent[Len(sent)]
    /\ peer = "ready" => Len(inbox) = 0 /\ Len(writing) = 0 /\ Len(outbox) = 0
    /\ peer = "waiting" => /\ Len(inbox) + Len(writing) + Len(outbox) = 1
                           /\ Len(writing) = 1 => IsAnswer(writing[1])
                           /\ Len(outbox) = 1 => IsAnswer(outbox[1])

FlowInv == Numbered /\ Answered /\ Unrun /\ Flow

LEMMA InitFlow == Init => FlowInv
BY SessionAssumption
   DEF Init, FlowInv, Numbered, Answered, Unrun, Flow

\* Steps that move no message.
LEMMA QuietFlow ==
  ASSUME FlowInv, UNCHANGED <<peerVars, wireVars, ran, writing>>
  PROVE  FlowInv'
BY DEF FlowInv, Numbered, Answered, Unrun, Flow, Fits, FitUpTo, Sound, IsAnswer,
       Runs, peerVars, wireVars

\* What a read finds while every request fits.
LEMMA InboxHead ==
  ASSUME WholeInv, FlowInv, Fits, inbox # <<>>
  PROVE  /\ Len(inbox) = 1 /\ Len(sent) \in 1..MaxRequests
         /\ Head(inbox) = sent[Len(sent)] /\ Head(inbox).re = Len(sent)
         /\ Sound(Head(inbox))
<1>1. Len(inbox) \in Nat \ {0} /\ Head(inbox) = inbox[1]
  BY Front DEF WholeInv, TypeOK
<1>2. Len(inbox) = 1 /\ Len(sent) > 0 /\ inbox[1] = sent[Len(sent)]
  <2>1. /\ Len(inbox) <= 1
        /\ Len(inbox) = 1 => Len(sent) > 0 /\ inbox[1] = sent[Len(sent)]
    BY DEF FlowInv, Flow
  <2>2. Len(inbox) = 1
    BY <1>1, <2>1
  <2> QED
    BY <2>1, <2>2
<1>3. Len(sent) \in 1..MaxRequests /\ Len(sent) \in 1..Len(sent)
  BY <1>2, SessionAssumption DEF FlowInv, Numbered
<1>4. /\ sent[Len(sent)].re = Len(sent) /\ sent[Len(sent)].kind \in Kinds
      /\ sent[Len(sent)].kind # "big"
  BY <1>3 DEF FlowInv, Numbered, Fits, FitUpTo
<1>5. sent[Len(sent)].kind # "junk"
  BY <1>4, SessionAssumption DEF RequestKinds
<1> QED
  BY <1>1, <1>2, <1>3, <1>4, <1>5 DEF Sound

\* What is left in the inbox is as unrun as it was.
LEMMA RestUnrun ==
  ASSUME WholeInv, FlowInv, inbox # <<>>, inbox' \in Unread, sent' = sent,
         ran' \in [1..MaxRequests -> Nat],
         \A i \in 1..MaxRequests :
           \/ ran'[i] = ran[i]
           \/ Sound(inbox[1]) /\ i = inbox[1].re /\ ran'[i] <= 1
  PROVE  Unrun'
<1>1. inbox \in Seq(Piece) /\ Len(inbox) \in Nat \ {0} /\ inbox[1] \in Piece
  BY Front DEF WholeInv, TypeOK
<1>2. PICK d \in Nat \ {0} :
        \A i \in 1..Len(inbox') :
          i + d \in 1..Len(inbox) /\ inbox'[i] = inbox[i + d]
  BY <1>1, UnreadTyped
<1>3. ASSUME NEW j \in 1..Len(inbox) PROVE inbox[j].re \in 1..MaxRequests
  <2>1. inbox[j] \in Piece
    BY <1>1, <1>3, ElementOfSeq
  <2> QED
    BY <2>1 DEF Piece
<1>4. Len(sent) \in Nat /\ 1 \in 1..Len(inbox)
  BY <1>1, SessionAssumption DEF FlowInv, Numbered
<1>5. ASSUME NEW i \in 1..MaxRequests
      PROVE  ran'[i] <= 1 /\ (i > Len(sent') => ran'[i] = 0)
  <2>1. ran[i] <= 1 /\ (i > Len(sent) => ran[i] = 0)
    BY <1>5 DEF FlowInv, Unrun
  <2>2. Sound(inbox[1]) => inbox[1].re <= Len(sent)
    BY <1>4 DEF FlowInv, Unrun
  <2>3. i \in Nat /\ (Sound(inbox[1]) /\ i = inbox[1].re => ~(i > Len(sent)))
    BY <1>4, <1>5, <2>2, SessionAssumption
  <2> QED
    BY <1>5, <2>1, <2>3
<1>6. ASSUME NEW j \in 1..Len(inbox'), Sound(inbox'[j])
      PROVE  inbox'[j].re <= Len(sent') /\ ran'[inbox'[j].re] = 0
  <2>1. /\ j + d \in 1..Len(inbox) /\ j + d # 1
        /\ inbox'[j] = inbox[j + d] /\ Sound(inbox[j + d])
    <3>1. Len(inbox') \in Nat
      BY <1>1, UnreadTyped, LenProperties
    <3>2. j \in 1..Len(inbox') /\ d \in Nat \ {0} => j + d # 1
      BY <3>1
    <3> QED
      BY <1>2, <1>6, <3>2
  <2>2. inbox[j + d].re <= Len(sent) /\ ran[inbox[j + d].re] = 0
    BY <2>1 DEF FlowInv, Unrun
  <2>3. Sound(inbox[1]) => inbox[1].re # inbox[j + d].re
    BY <1>4, <2>1 DEF FlowInv, Unrun
  <2>4. inbox[j + d].re \in 1..MaxRequests
    BY <1>3, <2>1
  <2> QED
    BY <2>1, <2>2, <2>3, <2>4
<1>7. ASSUME NEW j \in 1..Len(inbox'), NEW k \in 1..Len(inbox'), j # k,
             Sound(inbox'[j]), Sound(inbox'[k])
      PROVE  inbox'[j].re # inbox'[k].re
  <2>1. /\ j + d \in 1..Len(inbox) /\ inbox'[j] = inbox[j + d]
        /\ k + d \in 1..Len(inbox) /\ inbox'[k] = inbox[k + d]
    BY <1>2
  <2>2. j + d # k + d
    <3>1. Len(inbox') \in Nat
      BY <1>1, UnreadTyped, LenProperties
    <3> QED
      BY <1>7, <3>1
  <2> QED
    BY <1>7, <2>1, <2>2 DEF FlowInv, Unrun
<1> QED
  BY <1>5, <1>6, <1>7 DEF Unrun, Sound

\* A request is read, run and replied to.
LEMMA HandleFlow ==
  ASSUME WholeInv, WholeInv', FlowInv, HandleRequest PROVE FlowInv'
<1> DEFINE p == Head(inbox)
           r == Response(p.re, p.kind, TRUE)
<1>1. /\ inbox # <<>> /\ inbox' \in Unread /\ Sound(p)
      /\ Execute(p) /\ Reply(p)
      /\ UNCHANGED <<sent, got, peer, end>>
  BY DEF HandleRequest, peerVars, Sound
<1>2. inbox \in Seq(Piece) /\ Len(inbox) \in Nat \ {0} /\ p = inbox[1] /\ p \in Piece
  BY <1>1, Front DEF WholeInv, TypeOK
<1>3. p.re \in 1..MaxRequests /\ p.re \in 0..MaxRequests
  BY <1>2, SessionAssumption DEF Piece
<1>4. ran[p.re] = 0
  BY <1>1, <1>2 DEF FlowInv, Unrun
<1>5. /\ ran' \in [1..MaxRequests -> Nat]
      /\ Runs(p.kind) => ran'[p.re] = 1
      /\ \A i \in 1..MaxRequests : i # p.re => ran'[i] = ran[i]
      /\ ran'[p.re] <= 1
  BY <1>1, <1>3, <1>4 DEF Execute, Runs, WholeInv, TypeOK
<1>6. Numbered'
  BY <1>1 DEF FlowInv, Numbered
<1>7. \A i \in 1..Len(got) : i \in 1..MaxRequests
  <2>1. Len(got) \in Nat /\ Len(got) <= Len(sent) /\ Len(sent) \in 0..MaxRequests
    BY LenProperties DEF WholeInv, TypeOK, Counted, FlowInv, Numbered
  <2> QED
    BY <2>1, SessionAssumption
<1>8. Answered'
  <2>1. ASSUME NEW i \in 1..Len(got), FitUpTo(i), Runs(sent[i].kind)
        PROVE  ran'[i] = 1
    <3>1. ran[i] = 1
      BY <2>1 DEF FlowInv, Answered
    <3> QED
      BY <1>4, <1>5, <1>7, <2>1, <3>1
  <2> QED
    BY <1>1, <2>1 DEF FlowInv, Answered, FitUpTo
<1>9. Unrun'
  BY <1>1, <1>2, <1>5, RestUnrun
<1>10. Flow'
  <2> SUFFICES ASSUME Fits
               PROVE  /\ Len(inbox') = 0
                      /\ peer # "ready"
                      /\ peer = "waiting" =>
                           /\ Len(inbox') + Len(writing') + Len(outbox') = 1
                           /\ Len(writing') = 1 => IsAnswer(writing[1])'
                           /\ Len(outbox') = 1 => IsAnswer(outbox[1])'
    BY <1>1 DEF Flow, Fits, FitUpTo
  <2>1. /\ Len(inbox) = 1 /\ Len(sent) \in 1..MaxRequests
        /\ p = sent[Len(sent)] /\ p.re = Len(sent)
    BY <1>1, InboxHead
  <2>2. Len(inbox') = 0
    <3>1. PICK d \in Nat \ {0} : \A i \in 1..Len(inbox') : i + d \in 1..Len(inbox)
      BY <1>1, <1>2, UnreadTyped
    <3>2. Len(inbox') \in Nat
      BY LenProperties DEF WholeInv, TypeOK
    <3>3. 1 \in 1..Len(inbox') => 1 + d \in 1..1
      BY <2>1, <3>1
    <3> QED
      BY <3>1, <3>2, <3>3
  <2>3. peer # "ready"
    BY <2>1 DEF FlowInv, Flow
  <2>4. ASSUME peer = "waiting"
        PROVE  /\ Len(inbox') + Len(writing') + Len(outbox') = 1
               /\ Len(writing') = 1 => IsAnswer(writing[1])'
               /\ Len(outbox') = 1 => IsAnswer(outbox[1])'
    <3>1. writing \in Seq(Answers) /\ outbox \in Seq(Answers)
      BY DEF WholeInv, TypeOK
    <3>2. Len(writing) = 0 /\ Len(outbox) = 0
      <4>1. Len(inbox) + Len(writing) + Len(outbox) = 1
        BY <2>4 DEF FlowInv, Flow
      <4>2. Len(writing) \in Nat /\ Len(outbox) \in Nat
        BY <3>1, LenProperties
      <4> QED
        BY <2>1, <4>1, <4>2
    <3>3. r \in Answers /\ r.re = Len(sent) /\ r.status = Status(p.kind)
      BY <1>3, <2>1, StatusType DEF Response, Answers
    <3>4. \/ writing' = Append(writing, r) /\ outbox' = outbox
          \/ outbox' = Append(outbox, r) /\ writing' = writing
      BY <1>1 DEF Reply
    <3> HIDE DEF r
    <3>5. \/ Len(writing') = 1 /\ writing'[1] = r /\ Len(outbox') = 0
          \/ Len(outbox') = 1 /\ outbox'[1] = r /\ Len(writing') = 0
      BY <3>1, <3>2, <3>3, <3>4, AppendAnswer
    <3>6. /\ r.re = Len(sent') /\ r.status = Status(sent'[Len(sent')].kind)
          /\ Runs(sent'[Len(sent')].kind) => ran'[Len(sent')] = 1
      BY <1>1, <1>5, <2>1, <3>3
    <3>7. \/ IsAnswer(writing[1])' /\ Len(outbox') = 0 /\ Len(writing') = 1
          \/ IsAnswer(outbox[1])' /\ Len(writing') = 0 /\ Len(outbox') = 1
      BY <3>5, <3>6 DEF IsAnswer
    <3> QED
      BY <2>2, <3>7
  <2> QED
    BY <2>2, <2>3, <2>4
<1> QED
  BY <1>6, <1>8, <1>9, <1>10 DEF FlowInv

\* A read only fails behind a request that is too large, or when the peer has gone.
LEMMA FailFlow ==
  ASSUME WholeInv, WholeInv', FlowInv, ReadFails PROVE FlowInv'
<1>1. UNCHANGED <<sent, got, peer, ran>>
  BY DEF ReadFails, peerVars
<1>2. Numbered' /\ Answered' /\ (Fits' <=> Fits)
  BY <1>1 DEF FlowInv, Numbered, Answered, Fits, FitUpTo
<1>3. CASE inbox # <<>> /\ inbox' \in Unread /\ ~Sound(Head(inbox))
  <2>1. ~Fits
    BY <1>3, InboxHead
  <2>2. Flow'
    BY <1>2, <2>1 DEF Flow
  <2>3. ran \in [1..MaxRequests -> Nat]
    BY DEF WholeInv, TypeOK
  <2>4. Unrun'
    BY <1>1, <1>3, <2>3, RestUnrun
  <2> QED
    BY <1>2, <2>2, <2>4 DEF FlowInv
<1>4. CASE inbox' = inbox /\ end \in {"reset", "cut"}
  <2>1. peer # "ready" /\ peer # "waiting"
    BY <1>4 DEF WholeInv, Counted, Here
  <2>2. Unrun' /\ Flow'
    BY <1>1, <1>2, <1>4, <2>1 DEF FlowInv, Unrun, Flow, Sound
  <2> QED
    BY <1>2, <2>2 DEF FlowInv
<1> QED
  BY <1>3, <1>4 DEF ReadFails, Sound

\* The response being written moves on to the peer.
LEMMA WriteFlow ==
  ASSUME WholeInv, WholeInv', FlowInv, WriteEnds PROVE FlowInv'
<1> DEFINE r == [Head(writing) EXCEPT !.whole = ~shut]
<1>1. UNCHANGED <<sent, got, peer, inbox, end, ran>>
  BY DEF WriteEnds, peerVars
<1>2. /\ writing # <<>> /\ writing' = Tail(writing)
      /\ Here => outbox' = Append(outbox, r)
  BY DEF WriteEnds
<1>3. writing \in Seq(Answers) /\ outbox \in Seq(Answers)
  BY DEF WholeInv, TypeOK
<1>4. /\ Head(writing) = writing[1] /\ Head(writing) \in Answers
      /\ Len(writing) \in Nat \ {0} /\ Len(writing') = Len(writing) - 1
  BY <1>2, <1>3, Front, HeadTailProperties
<1>5. r \in Answers /\ r.re = writing[1].re /\ r.status = writing[1].status
  <2>1. ASSUME NEW a \in Answers, NEW b
        PROVE  /\ [a EXCEPT !.whole = b].re = a.re
               /\ [a EXCEPT !.whole = b].status = a.status
    BY DEF Answers
  <2>2. r.re = Head(writing).re /\ r.status = Head(writing).status
    BY <1>4, <2>1
  <2> QED
    BY <1>2, <1>3, <1>4, <2>2, Written
<1> HIDE DEF r
<1>6. Numbered' /\ Answered' /\ Unrun'
  BY <1>1 DEF FlowInv, Numbered, Answered, Unrun, Runs, FitUpTo, Sound
<1>7. Flow'
  <2>1. Fits' <=> Fits
    BY <1>1 DEF Fits, FitUpTo
  <2>2. CASE Fits /\ peer = "waiting"
    <3>1. Len(writing) = 1 /\ Len(inbox) = 0 /\ Len(outbox) = 0
      <4>1. Len(inbox) + Len(writing) + Len(outbox) = 1
        BY <2>2 DEF FlowInv, Flow
      <4>2. Len(inbox) \in Nat /\ Len(outbox) \in Nat
        BY LenProperties DEF WholeInv, TypeOK
      <4> QED
        BY <1>4, <4>1, <4>2
    <3>2. Len(writing') = 0 /\ Len(outbox') = 1 /\ outbox'[1] = r
      BY <1>2, <1>3, <1>4, <1>5, <2>2, <3>1, AppendAnswer DEF Here
    <3>3. IsAnswer(writing[1])
      BY <2>2, <3>1 DEF FlowInv, Flow
    <3>4. IsAnswer(outbox[1])'
      BY <1>1, <1>5, <3>2, <3>3 DEF IsAnswer
    <3> QED
      BY <1>1, <2>1, <2>2, <3>1, <3>2, <3>4 DEF FlowInv, Flow
  <2>3. CASE Fits /\ peer = "ready"
    BY <1>4, <2>3 DEF FlowInv, Flow
  <2>4. CASE peer # "waiting" /\ peer # "ready"
    BY <1>1, <2>1, <2>4 DEF FlowInv, Flow
  <2> QED
    BY <2>1, <2>2, <2>3, <2>4 DEF Flow
<1> QED
  BY <1>6, <1>7 DEF FlowInv

\* A new request is unrun, and if it fits it is the only thing under way.
LEMMA AskFlow ==
  ASSUME WholeInv, WholeInv', FlowInv, Ask PROVE FlowInv'
<1> DEFINE n == Len(sent) + 1
           m == Len(inbox)
<1>1. /\ peer = "ready" /\ peer' = "waiting" /\ Len(sent) < MaxRequests
      /\ UNCHANGED <<got, outbox, end, ran, writing>>
  BY AskSends DEF WholeInv
<1>2. PICK p \in Piece : \E junk \in Seq(Piece) :
        /\ sent' = Append(sent, p)
        /\ inbox' = Append(inbox, p) \o junk
        /\ p.re = n /\ p.kind \in Kinds
        /\ p.kind # "big" => junk = <<>>
        /\ \A i \in 1..Len(junk) : junk[i].keep /\ junk[i].kind = "junk"
  BY AskSends DEF WholeInv
<1>3. PICK junk \in Seq(Piece) :
        /\ inbox' = Append(inbox, p) \o junk
        /\ p.kind # "big" => junk = <<>>
        /\ \A i \in 1..Len(junk) : junk[i].kind = "junk"
  BY <1>2
<1>4. /\ sent \in Seq(Piece) /\ inbox \in Seq(Piece)
      /\ Len(sent) \in Nat /\ m \in Nat /\ Len(junk) \in Nat
      /\ n \in 1..MaxRequests
  <2>1. sent \in Seq(Piece) /\ inbox \in Seq(Piece)
    BY DEF WholeInv, TypeOK
  <2> QED
    BY <1>1, <2>1, LenProperties, SessionAssumption
<1>5. /\ Len(sent') = n /\ sent'[n] = p
      /\ \A i \in 1..Len(sent) : sent'[i] = sent[i]
  BY <1>2, <1>4, AppendProperties
<1>6. /\ Len(inbox') = m + 1 + Len(junk)
      /\ \A i \in 1..m : inbox'[i] = inbox[i]
      /\ inbox'[m + 1] = p
      /\ \A i \in 1..Len(inbox') : i > m + 1 => inbox'[i].kind = "junk"
  <2> DEFINE a == Append(inbox, p)
  <2>1. /\ a \in Seq(Piece) /\ Len(a) = m + 1 /\ a[m + 1] = p
        /\ \A j \in 1..m : a[j] = inbox[j]
    BY <1>4, AppendProperties
  <2> HIDE DEF a
  <2>2. /\ Len(inbox') = Len(a) + Len(junk)
        /\ \A j \in 1..(Len(a) + Len(junk)) :
             inbox'[j] = IF j <= Len(a) THEN a[j] ELSE junk[j - Len(a)]
    BY <1>3, <2>1, ConcatProperties DEF a
  <2>3. ASSUME NEW i \in 1..Len(inbox'), i > m + 1
        PROVE  inbox'[i].kind = "junk"
    <3>1. i - Len(a) \in 1..Len(junk) /\ inbox'[i] = junk[i - Len(a)]
      BY <1>4, <2>1, <2>2, <2>3
    <3> QED
      BY <1>3, <3>1
  <2>4. ASSUME NEW i \in 1..m PROVE inbox'[i] = inbox[i]
    BY <1>4, <2>1, <2>2
  <2>5. inbox'[m + 1] = p
    BY <1>4, <2>1, <2>2
  <2> QED
    BY <2>1, <2>2, <2>3, <2>4, <2>5
<1> HIDE DEF m
<1>7. Len(got) = Len(sent)
  BY <1>1 DEF WholeInv, Counted
<1>8. Numbered'
  <2>1. \A i \in 1..Len(sent') : i = n \/ i \in 1..Len(sent)
    BY <1>4, <1>5
  <2> QED
    BY <1>2, <1>4, <1>5, <2>1, SessionAssumption DEF FlowInv, Numbered
<1>9. Answered'
  <2>1. ASSUME NEW i \in 1..Len(got), FitUpTo(i)' PROVE FitUpTo(i)
    BY <1>4, <1>5, <1>7, <2>1 DEF FitUpTo
  <2> QED
    BY <1>1, <1>5, <1>7, <2>1 DEF FlowInv, Answered
<1>10. Unrun'
  <2>1. ASSUME NEW j \in 1..Len(inbox'), Sound(inbox'[j])
        PROVE  \/ j = m + 1 /\ inbox'[j].re = n
               \/ j \in 1..m /\ inbox'[j] = inbox[j] /\ Sound(inbox[j])
    <3>1. ASSUME NEW a \in Nat, NEW b \in Nat, NEW i \in 1..(a + 1 + b)
          PROVE  i \in 1..a \/ i = a + 1 \/ i > a + 1
      OBVIOUS
    <3>2. m \in Nat /\ Len(junk) \in Nat /\ Len(inbox') = m + 1 + Len(junk)
      BY <1>4, <1>6
    <3>3. j \in 1..m \/ j = m + 1 \/ j > m + 1
      BY <3>1, <3>2
    <3> QED
      BY <1>2, <1>6, <2>1, <3>3 DEF Sound
  <2>2. ASSUME NEW j \in 1..m, Sound(inbox[j])
        PROVE  inbox[j].re \in Nat /\ inbox[j].re <= Len(sent) /\ ran[inbox[j].re] = 0
    <3>1. inbox[j] \in Piece
      BY <1>4, <2>2, ElementOfSeq DEF m
    <3> QED
      BY <2>2, <3>1, SessionAssumption DEF FlowInv, Unrun, Piece, m
  <2>3. \A i \in 1..MaxRequests : ran[i] <= 1 /\ (i > Len(sent) => ran[i] = 0)
    BY DEF FlowInv, Unrun
  <2>4. ran[n] = 0
    BY <1>4, <2>3
  <2>5. \A j \in 1..Len(inbox') :
          Sound(inbox'[j]) => inbox'[j].re <= Len(sent') /\ ran'[inbox'[j].re] = 0
    BY <1>1, <1>4, <1>5, <2>1, <2>2, <2>4
  <2>6. ASSUME NEW j \in 1..Len(inbox'), NEW k \in 1..Len(inbox'), j # k,
               Sound(inbox'[j]), Sound(inbox'[k])
        PROVE  inbox'[j].re # inbox'[k].re
    <3>1. CASE j \in 1..m /\ k \in 1..m
      BY <1>6, <2>6, <3>1 DEF FlowInv, Unrun, m
    <3>2. ASSUME NEW i \in 1..m, Sound(inbox'[i]) PROVE inbox'[i].re # n
      <4>1. inbox'[i] = inbox[i]
        BY <1>6
      <4>2. inbox[i].re \in Nat /\ inbox[i].re <= Len(sent)
        BY <2>2, <3>2, <4>1
      <4> QED
        BY <1>4, <4>1, <4>2
    <3>3. inbox'[m + 1].re = n
      BY <1>2, <1>6
    <3>4. CASE j = m + 1 /\ k \in 1..m
      BY <2>6, <3>2, <3>3, <3>4
    <3>5. CASE k = m + 1 /\ j \in 1..m
      BY <2>6, <3>2, <3>3, <3>5
    <3> QED
      BY <2>1, <2>6, <3>1, <3>4, <3>5
  <2>7. \A i \in 1..MaxRequests : ran'[i] <= 1 /\ (i > Len(sent') => ran'[i] = 0)
    BY <1>1, <1>4, <1>5, <2>3
  <2> QED
    BY <2>5, <2>6, <2>7 DEF Unrun, Sound
<1>11. Flow'
  <2> SUFFICES ASSUME Fits' PROVE Flow'
    BY DEF Flow
  <2>1. Fits /\ p.kind # "big"
    BY <1>4, <1>5 DEF Fits, FitUpTo
  <2>2. m = 0 /\ Len(writing) = 0 /\ Len(outbox) = 0
    BY <1>1, <2>1 DEF FlowInv, Flow, m
  <2>3. Len(junk) = 0
    BY <1>3, <2>1
  <2>4. Len(inbox') = 1 /\ inbox'[1] = sent'[Len(sent')] /\ Len(sent') > 0
    BY <1>4, <1>5, <1>6, <2>2, <2>3
  <2> QED
    BY <1>1, <2>2, <2>4 DEF Flow
<1> QED
  BY <1>8, <1>9, <1>10, <1>11 DEF FlowInv

\* The peer takes the response, which is the answer to its request.
LEMMA TakeFlow ==
  ASSUME WholeInv, WholeInv', FlowInv, TakeAnswer PROVE FlowInv'
<1>1. /\ peer = "waiting" /\ outbox # <<>>
      /\ got' = Append(got, Head(outbox)) /\ outbox' = Tail(outbox)
      /\ peer' \in {"ready", "closed"}
      /\ UNCHANGED <<sent, inbox, ran, writing>>
  BY DEF TakeAnswer, sessionVars
<1>2. got \in Seq(Answers) /\ outbox \in Seq(Answers)
  BY DEF WholeInv, TypeOK
<1>3. /\ Head(outbox) \in Answers /\ Head(outbox) = outbox[1]
      /\ Len(outbox) \in Nat \ {0} /\ Len(outbox') = Len(outbox) - 1
  BY <1>1, <1>2, Front, HeadTailProperties
<1>4. /\ Len(got) \in Nat /\ Len(got') = Len(got) + 1
      /\ got'[Len(got) + 1] = outbox[1]
      /\ \A i \in 1..Len(got) : got'[i] = got[i]
      /\ Len(sent) = Len(got) + 1
  <2>1. Len(sent) = Len(got) + 1
    BY <1>1 DEF WholeInv, Counted
  <2> QED
    BY <1>1, <1>2, <1>3, <2>1, AppendProperties, LenProperties
<1>5. Fits => /\ Len(outbox) = 1 /\ Len(inbox) = 0 /\ Len(writing) = 0
              /\ IsAnswer(outbox[1])
  <2> SUFFICES ASSUME Fits
               PROVE  /\ Len(outbox) = 1 /\ Len(inbox) = 0 /\ Len(writing) = 0
                      /\ IsAnswer(outbox[1])
    OBVIOUS
  <2>1. Len(inbox) + Len(writing) + Len(outbox) = 1
    BY <1>1 DEF FlowInv, Flow
  <2>2. Len(inbox) \in Nat /\ Len(writing) \in Nat
    BY LenProperties DEF WholeInv, TypeOK
  <2>3. Len(outbox) = 1 /\ Len(inbox) = 0 /\ Len(writing) = 0
    BY <1>3, <2>1, <2>2
  <2> QED
    BY <1>1, <2>3 DEF FlowInv, Flow
<1>6. Numbered' /\ Unrun' /\ (Fits' <=> Fits)
  BY <1>1 DEF FlowInv, Numbered, Unrun, Fits, FitUpTo, Sound
<1>7. Answered'
  <2>1. ASSUME NEW i \in 1..Len(got'), FitUpTo(i)
        PROVE  /\ got'[i].re = i /\ got'[i].status = Status(sent[i].kind)
               /\ Runs(sent[i].kind) => ran[i] = 1
    <3>1. CASE i \in 1..Len(got)
      BY <1>4, <2>1, <3>1 DEF FlowInv, Answered
    <3>2. CASE i = Len(got) + 1
      <4>1. IsAnswer(outbox[1])
        BY <1>4, <1>5, <2>1, <3>2 DEF Fits
      <4> QED
        BY <1>4, <3>2, <4>1 DEF IsAnswer
    <3> QED
      BY <1>4, <3>1, <3>2
  <2> QED
    BY <1>1, <2>1 DEF Answered, FitUpTo
<1>8. Flow'
  BY <1>1, <1>3, <1>5, <1>6 DEF FlowInv, Flow
<1> QED
  BY <1>6, <1>7, <1>8 DEF FlowInv

\* The peer goes.
LEMMA GoneFlow ==
  ASSUME WholeInv, WholeInv', FlowInv, SeeEnd \/ Leave PROVE FlowInv'
<1>1. /\ peer' \in {"closed", "reset"} /\ inbox' \in {inbox, <<>>}
      /\ UNCHANGED <<sent, got, ran, writing>>
  BY DEF SeeEnd, Leave, sessionVars
<1>2. Numbered' /\ Answered' /\ (Fits' <=> Fits)
  BY <1>1 DEF FlowInv, Numbered, Answered, Fits, FitUpTo
<1>3. CASE inbox' = inbox
  BY <1>1, <1>2, <1>3 DEF FlowInv, Unrun, Flow, Sound
<1>4. CASE inbox' = <<>>
  <2>1. Len(inbox') = 0 /\ 1..Len(inbox') = {}
    BY <1>4
  <2>2. Unrun'
    BY <1>1, <2>1 DEF FlowInv, Unrun
  <2>3. Flow'
    BY <1>1, <2>1 DEF Flow
  <2> QED
    BY <1>2, <2>2, <2>3 DEF FlowInv
<1> QED
  BY <1>1, <1>3, <1>4

SessionInv == WholeInv /\ FlowInv

LEMMA InitSession == Init => SessionInv
BY InitWhole, InitFlow DEF SessionInv

LEMMA StepSession == SessionInv /\ [Next]_vars => SessionInv'
<1> SUFFICES ASSUME WholeInv, FlowInv, [Next]_vars PROVE WholeInv' /\ FlowInv'
  BY DEF SessionInv
<1>1. WholeInv'
  BY StepWhole
<1>2. CASE \/ Handshake \/ BeginHandshake \/ EndHandshake \/ FirstRead
           \/ EndOfStream \/ Close \/ ShutdownEnds \/ UNCHANGED vars
  <2>1. UNCHANGED <<peerVars, wireVars, ran, writing>>
    BY <1>2 DEF Handshake, BeginHandshake, EndHandshake, FirstRead, EndOfStream,
                Close, ShutdownEnds, vars, sessionVars
  <2> QED
    BY <1>1, <2>1, QuietFlow
<1> QED
  BY <1>1, <1>2, HandleFlow, FailFlow, WriteFlow, AskFlow, TakeFlow, GoneFlow
     DEF Next, Run

\* The peer's answers are its requests' own, in order, up to the first request
\* that exceeds the parser's limit, whatever it asks, closes or resets.
THEOREM AnswersMatch == Spec => []OwnAnswer
<1>1. SessionInv => OwnAnswer
  BY DEF SessionInv, FlowInv, Answered, OwnAnswer
<1> QED
  BY <1>1, InitSession, StepSession, PTL DEF Spec

\* The user's function runs once for every request answered up to there, and
\* never twice for any.
THEOREM FunctionRunsOnce == Spec => []RunOnce
<1>1. SessionInv => RunOnce
  <2> SUFFICES ASSUME SessionInv, NEW i \in 1..Len(sent)
               PROVE  /\ ran[i] <= 1
                      /\ i <= Len(got) /\ FitUpTo(i) /\ Runs(sent[i].kind) => ran[i] = 1
    BY DEF RunOnce, Runs
  <2>1. i \in 1..MaxRequests /\ Len(got) \in Nat
    <3>1. Len(got) \in Nat /\ Len(sent) \in 0..MaxRequests
      BY LenProperties DEF SessionInv, WholeInv, TypeOK, FlowInv, Numbered
    <3> QED
      BY <3>1, SessionAssumption
  <2>2. ran[i] <= 1
    BY <2>1 DEF SessionInv, FlowInv, Unrun
  <2>3. i <= Len(got) => i \in 1..Len(got)
    BY <2>1
  <2>4. i \in 1..Len(got) /\ FitUpTo(i) => (Runs(sent[i].kind) => ran[i] = 1)
    BY DEF SessionInv, FlowInv, Answered
  <2> QED
    BY <2>2, <2>3, <2>4
<1> QED
  BY <1>1, InitSession, StepSession, PTL DEF Spec

\* While every request has been small enough, one message is under way when the
\* peer waits, and none when it may ask.
THEOREM OneAtATime == Spec => []OneUnderWay
<1>1. SessionInv => OneUnderWay
  <2> SUFFICES ASSUME SessionInv, Fits, peer = "ready"
               PROVE  inbox = <<>> /\ writing = <<>> /\ outbox = <<>>
    BY DEF SessionInv, FlowInv, Flow, Fits, OneUnderWay
  <2>1. Len(inbox) = 0 /\ Len(writing) = 0 /\ Len(outbox) = 0
    BY DEF SessionInv, FlowInv, Flow
  <2>2. /\ inbox \in Seq(Piece) /\ writing \in Seq(Answers)
        /\ outbox \in Seq(Answers)
    BY DEF SessionInv, WholeInv, TypeOK
  <2> QED
    BY <2>1, <2>2, EmptySeq
<1> QED
  BY <1>1, InitSession, StepSession, PTL DEF Spec

-----------------------------------------------------------------------------
(* The session that never ends *)

\* The session reads from a TLS connection that its peer has left without
\* close_notify.
CutRead == reading /\ inbox = <<>> /\ end = "cut"

OnlyTlsCut == end = "cut" => stream # "none"

LEMMA StaysCut ==
  WholeInv /\ OnlyTlsCut /\ [Next]_vars => OnlyTlsCut' /\ (CutRead => CutRead')
<1> SUFFICES ASSUME WholeInv, OnlyTlsCut, [Next]_vars
             PROVE  OnlyTlsCut' /\ (CutRead => CutRead')
  OBVIOUS
<1>1. stream' = "none" <=> stream = "none"
  BY DEF Next, Run, Handshake, BeginHandshake, EndHandshake, FirstRead,
         HandleRequest, ReadFails, EndOfStream, WriteEnds, Close, ShutdownEnds,
         Ask, TakeAnswer, SeeEnd, Leave, vars, sessionVars
<1>2. CASE ReadFails
  BY <1>1, <1>2 DEF ReadFails, OnlyTlsCut, CutRead
<1>3. CASE Ask \/ TakeAnswer \/ SeeEnd \/ Leave
  <2>1. Here /\ end = "none"
    BY <1>3 DEF WholeInv, Counted, Here, Ask, TakeAnswer, SeeEnd, Leave
  <2>2. end' = "cut" => stream # "none"
    BY <1>3, <2>1 DEF Ask, TakeAnswer, SeeEnd, Leave, Endings
  <2> QED
    BY <1>1, <2>1, <2>2 DEF OnlyTlsCut, CutRead
<1>4. CASE (Run /\ ~ReadFails) \/ UNCHANGED vars
  <2>1. UNCHANGED end /\ (CutRead => reading')
    BY <1>4
    DEF Run, Handshake, BeginHandshake, EndHandshake, FirstRead, HandleRequest,
        EndOfStream, WriteEnds, Close, ShutdownEnds, CutRead, vars, peerVars,
        wireVars, sessionVars
  <2>2. CutRead => UNCHANGED inbox
    BY <1>4
    DEF Run, Handshake, BeginHandshake, EndHandshake, FirstRead, HandleRequest,
        EndOfStream, WriteEnds, Close, ShutdownEnds, CutRead, vars, peerVars,
        wireVars, sessionVars
  <2> QED
    BY <1>1, <2>1, <2>2 DEF OnlyTlsCut, CutRead
<1> QED
  BY <1>2, <1>3, <1>4 DEF Next

\* A session that has read all that such a peer sent is never freed, whatever its
\* writes and closes do: each read fails, is answered, and is followed by another.
THEOREM CutIsNeverFreed == Spec => [](CutRead => []Alive)
<1>1. Init => OnlyTlsCut
  BY DEF Init, OnlyTlsCut
<1>2. CutRead => Alive
  BY DEF CutRead, Alive
<1> QED
  BY <1>1, <1>2, InitWhole, StepWhole, StaysCut, PTL DEF Spec

=============================================================================
