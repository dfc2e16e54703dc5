---------------------------- MODULE ServerSession ----------------------------
(***************************************************************************)
(* One connection of the server of src/nanorpc/http/server.cpp, http or    *)
(* https: handshake, the loop that reads a request, handles it and reads   *)
(* the next one, the replies, the posted close, and the end of the session,*)
(* which lives as long as a queued task or a pending read or write refers  *)
(* to it.  Handlers of reads and writes run on the session's strand; the   *)
(* posted tasks, among them the close, run outside it.                     *)
(*                                                                         *)
(* The peer is an HTTP client that sends its next request when it has the  *)
(* response to the last one, and that takes the next response on the       *)
(* connection for it, as the sessions of client.cpp do.                    *)
(***************************************************************************)
EXTENDS Naturals, Sequences

CONSTANTS
  MaxRequests,   \* requests the peer sends (bound of the model)
  Kinds,         \* the kinds of request it sends
  Keeps,         \* whether it asks to keep the connection: a set of BOOLEAN
  MaxJunk,       \* reads it takes to skip a body that is too large (bound)
  MaxWrites,     \* replies under way on a connection that was cut (bound)
  Streams        \* what the session reads from: "none", the bare socket of the
                 \* http server, or "up", the TLS stream of the https server

\* What the server makes of a request: "good" runs the user's function, and so
\* does "large", whose response does not fit the send buffer of the socket; in
\* "throws" the function throws; "unknown" has no executor at its target,
\* "null" an empty one, "empty" no content; "big" exceeds the parser's limit.
RequestKinds == {"good", "large", "throws", "unknown", "null", "empty", "big"}

ASSUME SessionAssumption ==
  /\ MaxRequests \in Nat
  /\ MaxJunk \in Nat
  /\ MaxWrites \in Nat \ {0}
  /\ Kinds \subseteq RequestKinds
  /\ Keeps \subseteq BOOLEAN
  /\ Streams \subseteq {"none", "up"}

VARIABLES
  sent,      \* the requests the peer has sent, in order
  got,       \* got[i]: the response the peer took for request i
  peer,      \* "ready", "waiting" for a response, "closed" or "reset"
  inbox,     \* what the server has not read yet, one piece per read
  outbox,    \* responses the peer has not read yet
  end,       \* what follows the inbox: "none"; "fin", the end of the stream, on
             \* TLS said with close_notify; "cut", the end of a TLS connection
             \* without it; or "reset"
  ran,       \* ran[i]: how often the user's function ran for request i
  tasks,     \* posted tasks of the session that have not run
  shaking,   \* whether async_handshake is pending
  reading,   \* whether async_read is pending
  writing,   \* the response async_write is in the middle of, in a sequence
  shut,      \* whether the sending side has been shut down
  stream     \* "none", "up", or "shutting" during async_shutdown

peerVars    == <<sent, got, peer>>
wireVars    == <<inbox, outbox, end>>
sessionVars == <<ran, tasks, shaking, reading, writing, shut, stream>>
vars == <<peerVars, wireVars, sessionVars>>

\* Something holds a shared_ptr to the session.
Alive == tasks # {} \/ shaking \/ reading \/ writing # <<>>

\* The peer is there.
Here == peer \in {"ready", "waiting"}

\* A likely slip, which breaks TypeOK: the server_error response gets no status.
StatusUnset(kind) ==
  CASE kind \in {"good", "large"} -> 200
    [] kind = "empty"             -> 400
    [] kind = "unknown"           -> 404
    [] OTHER                      -> 0

\* The status handle_request() replies to a request of this kind.
Status(kind) ==
  CASE kind \in {"good", "large"}   -> 200
    [] kind \in {"throws", "null"}  -> 500
    [] kind = "empty"               -> 400
    [] OTHER                        -> 404

\* A reply to request i; a reply to what is no request has the number 0.
Response(i, kind, whole) == [re |-> i, status |-> Status(kind), whole |-> whole]

Init ==
  /\ sent = <<>>
  /\ got = <<>>
  /\ peer = "ready"
  /\ inbox = <<>>
  /\ outbox = <<>>
  /\ end = "none"
  /\ ran = [i \in 1..MaxRequests |-> 0]
  /\ tasks = {"handshake"}
  /\ shaking = FALSE
  /\ reading = FALSE
  /\ writing = <<>>
  /\ shut = FALSE
  /\ stream \in Streams

-----------------------------------------------------------------------------
(* Likely slips; each breaks a property stated below. *)

\* A function that throws is called again.
ExecuteAgain(p) ==
  ran' = IF p.kind \in {"good", "large"} THEN [ran EXCEPT ![p.re] = @ + 1]
         ELSE IF p.kind = "throws"       THEN [ran EXCEPT ![p.re] = @ + 2]
         ELSE ran

\* The reply of the catch block comes on top of the one of the try block.
ReplyTwice(p) ==
  /\ outbox' = outbox \o
       IF p.kind = "throws"
         THEN <<Response(p.re, "good", TRUE), Response(p.re, p.kind, TRUE)>>
         ELSE <<Response(p.re, p.kind, TRUE)>>
  /\ UNCHANGED writing

\* A request that does not keep the connection is not replied to.
ReplyUnlessLast(p) ==
  /\ outbox' = IF p.keep THEN Append(outbox, Response(p.re, p.kind, TRUE)) ELSE outbox
  /\ UNCHANGED writing

\* One of the early returns comes without a reply.
ReplyUnlessEmpty(p) ==
  /\ outbox' = IF p.kind = "empty"
                 THEN outbox ELSE Append(outbox, Response(p.re, p.kind, TRUE))
  /\ UNCHANGED writing

\* The connection is closed after every request, whether it is kept or not.
GoOnAndClose(p) ==
  /\ reading' = p.keep
  /\ tasks' = tasks \cup {"close"}

\* The loop goes on after end_of_stream.
EndOfStreamUnnoticed ==
  /\ reading
  /\ inbox = <<>>
  /\ end = "fin"
  /\ UNCHANGED vars

\* on_handshake reports the error and closes, and posts the first read all the
\* same.
HandshakeUnnoticed ==
  /\ shaking
  /\ shaking' = FALSE
  /\ \/ tasks' = tasks \cup {"read"}
     \/ tasks' = tasks \cup {"read", "close"}
  /\ UNCHANGED <<peerVars, wireVars, ran, reading, writing, shut, stream>>

\* The buffer lives as long as the session, and a request that has been read is
\* not taken out of it.
UnreadKept == {inbox}

-----------------------------------------------------------------------------
(* The session. *)

\* A posted task is taken off the queue; `more' is what it posts.
TaskRuns(task, more) ==
  /\ task \in tasks
  /\ tasks' = (tasks \ {task}) \cup more

\* http: on_handshake is called at once.
Handshake ==
  /\ stream = "none"
  /\ TaskRuns("handshake", {"read"})
  /\ UNCHANGED <<peerVars, wireVars, ran, shaking, reading, writing, shut,
                 stream>>

BeginHandshake ==
  /\ stream # "none"
  /\ TaskRuns("handshake", {})
  /\ shaking' = TRUE
  /\ UNCHANGED <<peerVars, wireVars, ran, reading, writing, shut, stream>>

\* on_handshake posts the first read, or the close.
EndHandshake ==
  /\ shaking
  /\ shaking' = FALSE
  /\ \/ tasks' = tasks \cup {"read"}
     \/ tasks' = tasks \cup {"close"}
  /\ UNCHANGED <<peerVars, wireVars, ran, reading, writing, shut, stream>>

FirstRead ==
  /\ TaskRuns("read", {})
  /\ reading' = TRUE
  /\ UNCHANGED <<peerVars, wireVars, ran, shaking, writing, shut, stream>>

\* The end of on_read for a request without a read error: the loop goes on if
\* the request keeps the connection; http sockets are open until the session
\* ends.
GoOn(p) ==
  IF p.keep THEN reading' = TRUE /\ UNCHANGED tasks
            ELSE reading' = FALSE /\ tasks' = tasks \cup {"close"}

\* The user's function runs on the strand, inside handle_request().
Execute(p) ==
  ran' = IF p.kind \in {"good", "large", "throws"}
           THEN [ran EXCEPT ![p.re] = @ + 1] ELSE ran

\* reply(): async_write sends at once what the socket takes, all of a small
\* response; it is still under way for a large one, and for a peer that has gone,
\* where nobody will take it.
Reply(p) ==
  LET r == Response(p.re, p.kind, TRUE) IN
  IF p.kind = "large" \/ ~Here
    THEN writing' = Append(writing, r) /\ UNCHANGED outbox
    ELSE outbox' = Append(outbox, r)   /\ UNCHANGED writing

\* What is left after a read.  Each read has a buffer of its own, and what that
\* holds beyond the request is lost with it.
Unread == {SubSeq(inbox, j, Len(inbox)) : j \in 2..(Len(inbox) + 1)}

\* async_read has a request: on_read() and handle_request().
HandleRequest ==
  /\ reading
  /\ inbox # <<>>
  /\ Head(inbox).kind \notin {"big", "junk"}
  /\ inbox' \in Unread
  /\ Execute(Head(inbox))
  /\ Reply(Head(inbox))
  /\ GoOn(Head(inbox))
  /\ UNCHANGED <<peerVars, end, shaking, shut, stream>>

\* async_read fails, with the parser's limit, a line that is no request line or
\* a broken connection.  on_read() goes on with the request it has, which is
\* empty: its target is not found, and it keeps the connection.  The reset is
\* reported once; what is read after it is the end of the socket, which a TLS
\* stream reports as stream_truncated, and that is no end_of_stream.
ReadFails ==
  /\ reading
  /\ \/ /\ inbox # <<>>
        /\ Head(inbox).kind \in {"big", "junk"}
        /\ inbox' \in Unread
        /\ Reply(Head(inbox))
        /\ UNCHANGED end
     \/ /\ inbox = <<>>
        /\ \/ end = "reset"
           \/ end = "cut" /\ Len(writing) < MaxWrites
        /\ end' = IF stream = "none" THEN "fin" ELSE "cut"
        /\ Reply([re |-> 0, kind |-> "junk", keep |-> TRUE])
        /\ UNCHANGED inbox
  /\ UNCHANGED <<peerVars, ran, tasks, shaking, reading, shut, stream>>

\* async_read reports end_of_stream.
EndOfStream ==
  /\ reading
  /\ inbox = <<>>
  /\ end = "fin"
  /\ reading' = FALSE
  /\ tasks' = tasks \cup {"close"}
  /\ UNCHANGED <<peerVars, wireVars, ran, shaking, writing, shut, stream>>

\* async_write sends the rest of a large response, or fails, because the sending
\* side has been shut down or the peer has gone.  on_write() closes after an error
\* other than the broken pipe of a socket that is shut down: a TLS stream that is
\* shut down reports another, and so may a connection without its peer.
WriteEnds ==
  /\ writing # <<>>
  /\ writing' = Tail(writing)
  /\ outbox' = IF Here THEN Append(outbox, [Head(writing) EXCEPT !.whole = ~shut])
                       ELSE outbox
  /\ tasks' \in IF shut /\ stream # "none" THEN {tasks \cup {"close"}}
                ELSE IF Here THEN {tasks} ELSE {tasks, tasks \cup {"close"}}
  /\ UNCHANGED <<peerVars, inbox, end, ran, shaking, reading, shut, stream>>

\* The posted close: shutdown_send, or async_shutdown, whose handler does not
\* refer to the session.
Close ==
  /\ TaskRuns("close", {})
  /\ shut' = TRUE
  /\ stream' = IF stream = "none" THEN "none" ELSE "shutting"
  /\ UNCHANGED <<peerVars, wireVars, ran, shaking, reading, writing>>

\* async_shutdown is over: the peer has answered it or has gone.
ShutdownEnds ==
  /\ stream = "shutting"
  /\ stream' = "up"
  /\ UNCHANGED <<peerVars, wireVars, ran, tasks, shaking, reading, writing,
                 shut>>

-----------------------------------------------------------------------------
(* The peer. *)

\* What of a body that is too large reaches the parser as requests of its own.
Junk(i) == {[j \in 1..n |-> [re |-> i, kind |-> "junk", keep |-> TRUE]] :
              n \in 0..MaxJunk}

\* How a connection ends that its peer closes.  A TLS client need not say
\* close_notify first: the sessions that client::stop() drops do not.
Endings == IF stream = "none" THEN {"fin"} ELSE {"fin", "cut"}

Ask ==
  /\ peer = "ready"
  /\ Len(sent) < MaxRequests
  /\ peer' = "waiting"
  /\ \E kind \in Kinds, keep \in Keeps :
       LET i == Len(sent) + 1
           p == [re |-> i, kind |-> kind, keep |-> keep] IN
       /\ sent' = Append(sent, p)
       /\ IF kind = "big"
            THEN \E junk \in Junk(i) : inbox' = Append(inbox, p) \o junk
            ELSE inbox' = Append(inbox, p)
  /\ UNCHANGED <<got, outbox, end, sessionVars>>

\* The peer takes the next response for the answer.  It closes a connection it
\* has not asked to keep, and one on which a response breaks off.
TakeAnswer ==
  /\ peer = "waiting"
  /\ outbox # <<>>
  /\ got' = Append(got, Head(outbox))
  /\ outbox' = Tail(outbox)
  /\ IF Head(outbox).whole /\ sent[Len(sent)].keep
       THEN peer' = "ready" /\ UNCHANGED end
       ELSE peer' = "closed" /\ end' \in Endings
  /\ UNCHANGED <<sent, inbox, sessionVars>>

\* The session has ended or has shut down its sending side, without an answer.
SeeEnd ==
  /\ Here
  /\ outbox = <<>>
  /\ ~Alive \/ (shut /\ writing = <<>>)
  /\ peer' = "closed"
  /\ end' \in Endings
  /\ UNCHANGED <<sent, got, inbox, outbox, sessionVars>>

\* The peer has no more requests, or its connection breaks.
Leave ==
  \/ /\ peer = "ready"
     /\ peer' = "closed"
     /\ end' \in Endings
     /\ UNCHANGED <<sent, got, inbox, outbox, sessionVars>>
  \/ /\ Here
     /\ peer' = "reset"
     /\ end' = "reset"
     /\ inbox' \in {inbox, <<>>}
     /\ outbox' = <<>>
     /\ UNCHANGED <<sent, got, sessionVars>>

Run == \/ Handshake \/ BeginHandshake \/ EndHandshake \/ FirstRead
       \/ HandleRequest \/ ReadFails \/ EndOfStream \/ WriteEnds \/ Close
       \/ ShutdownEnds

Next == Run \/ Ask \/ TakeAnswer \/ SeeEnd \/ Leave

Spec == Init /\ [][Next]_vars

\* The workers run what is ready, in any order; the peer reads what has arrived
\* and sees the end of a connection, but need not ask or leave.
Fairness ==
  /\ WF_vars(Handshake \/ BeginHandshake)
  /\ WF_vars(EndHandshake)
  /\ WF_vars(FirstRead)
  /\ WF_vars(HandleRequest \/ ReadFails \/ EndOfStream)
  /\ WF_vars(WriteEnds)
  /\ WF_vars(Close)
  /\ WF_vars(TakeAnswer \/ SeeEnd)

FairSpec == Spec /\ Fairness

-----------------------------------------------------------------------------
(* Properties *)

Piece == [re : 1..MaxRequests, kind : RequestKinds \cup {"junk"}, keep : BOOLEAN]
Answers == [re : 0..MaxRequests, status : {200, 400, 404, 500}, whole : BOOLEAN]

\* The variables keep their types.
TypeOK ==
  /\ sent \in Seq(Piece)
  /\ got \in Seq(Answers)
  /\ peer \in {"ready", "waiting", "closed", "reset"}
  /\ inbox \in Seq(Piece)
  /\ outbox \in Seq(Answers)
  /\ end \in {"none", "fin", "cut", "reset"}
  /\ ran \in [1..MaxRequests -> Nat]
  /\ tasks \subseteq {"handshake", "read", "close"}
  /\ shaking \in BOOLEAN
  /\ reading \in BOOLEAN
  /\ writing \in Seq(Answers)
  /\ shut \in BOOLEAN
  /\ stream \in {"none", "up", "shutting"}

\* No request up to number i exceeded the parser's limit.
FitUpTo(i) == \A j \in 1..i : sent[j].kind # "big"

\* What the peer takes for the answer to a request is the answer to it: the
\* server replies once to each request, in order, until one is too large.
OwnAnswer ==
  \A i \in 1..Len(got) :
    FitUpTo(i) => got[i].re = i /\ got[i].status = Status(sent[i].kind)

\* The user's function never runs twice for a request, and it runs for every
\* request that is answered with its result or its failure.
RunOnce ==
  \A i \in 1..Len(sent) :
    /\ ran[i] <= 1
    /\ i <= Len(got) /\ FitUpTo(i) /\ sent[i].kind \in {"good", "large", "throws"}
         => ran[i] = 1

\* One thing is under way while the peer waits, its request or the response to
\* it, and nothing when it may ask again: though each read starts before the
\* last response is written, no two async_write overlap on the stream, and a
\* buffer that is thrown away holds no other request.
OneUnderWay ==
  FitUpTo(Len(sent)) =>
    /\ peer = "waiting" => Len(inbox) + Len(writing) + Len(outbox) = 1
    /\ peer = "ready"   => inbox = <<>> /\ writing = <<>> /\ outbox = <<>>

\* A response is complete if its request keeps the connection: nothing shuts the
\* socket down while the response is written.
KeptAnswerWhole == \A i \in 1..Len(got) : sent[i].keep => got[i].whole

\* When the peer has gone and the session can tell, because the connection is not
\* TLS or the peer has said close_notify, the session comes to its end, whatever
\* was under way: sessions do not pile up.
SessionEnds == ~Here /\ (stream = "none" \/ end = "fin") ~> ~Alive

\* The same of every peer, as the end of on_read() for end_of_stream means it:
\* a session whose peer has gone is closed and freed.
EverySessionEnds == ~Here ~> ~Alive

\* The TLS handshake has failed: the session has ended before its first read.
NeverRead == stream # "none" /\ got = <<>> /\ inbox # <<>> /\ Head(inbox) = sent[1]

\* A peer that has sent a request gets a response, also when the connection is
\* closed behind it.  Only two ends of the connection may come first: the peer
\* resets it, or the TLS handshake fails and the request is never read.
EveryRequestAnswered ==
  \A i \in 1..MaxRequests :
    peer = "waiting" /\ Len(sent) = i
      ~> Len(got) >= i \/ peer = "reset" \/ (peer = "closed" /\ NeverRead)

\* A peer that waits never waits for a server that waits for it: the answer is
\* on its way, or the request is there and the session reads or is about to, or
\* the end of the connection will show.
NeverBothWait ==
  peer = "waiting" =>
    \/ outbox # <<>> \/ writing # <<>>
    \/ inbox # <<>> /\ (reading \/ shaking \/ tasks \cap {"handshake", "read"} # {})
    \/ shut \/ "close" \in tasks

\* The session keeps the promise of Connection.
Promise == INSTANCE Connection WITH asked <- sent, answers <- got, served <- ran

ImplementsConnection == Promise!Spec

\* The answer to a call is the answer to that call, whatever was sent before.
NoSurplusAnswer == \A i \in 1..Len(got) : got[i].re = i

\* async_shutdown ends before its stream is destroyed.
ShutdownInTime == stream = "shutting" => Alive

=============================================================================
