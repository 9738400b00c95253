------------------------------ MODULE ChatLink ------------------------------
(***************************************************************************)
(* One ChatClient, the personInRoom that serves it, and a connection whose *)
(* buffers are bounded in both directions.  ChatClient assumes that sends  *)
(* go on because the server reads, ChatRoom that writes complete because   *)
(* the client reads; here neither is assumed, and each side can be held up *)
(* by the other.                                                           *)
(*                                                                         *)
(* The server does not see frames: it cuts the stream where its reads end. *)
(* A message the server sends is FrameParts parts, all alike.              *)
(***************************************************************************)
EXTENDS ChatClient

CONSTANTS Buffer,   \* parts a direction of the connection holds
          MaxOthers \* bound: messages of other participants

ASSUME LinkAssumption == Buffer \in Nat \ {0} /\ MaxOthers \in Nat

VARIABLES session,  \* the outstanding operation: "accept", "nick" or "msg", a
                    \* read, or "over"
          part,     \* parts that the read has so far
          heard,    \* history: what the reads returned, the nickname first
          inRoom,   \* participants_ holds this personInRoom
          others,   \* messages that others have had broadcast
          replies,  \* size of write_msgs_
          answer,   \* the async_write of write_msgs_.front()
          down,     \* parts on their way to the client
          inRead    \* parts that the client's async_read has so far

server == <<session, part, heard, inRoom, others, replies, answer>>
linkVars == <<vars, server, down, inRead>>

\* Parts of the stream that the server's reads have taken, cut and uncut.
Cut == IF heard = <<>> THEN 0
       ELSE Len(heard[1]) + FrameParts * (Len(heard) - 1)
Read == Cut + part

\* The sizes of nickname_ and of the buffer that the outstanding read is to fill.
FirstSize == HelloParts
Size == IF session = "nick" THEN FirstSize ELSE FrameParts

\* The server finds the end of the connection.
Ended == link = "lost" \/ (link = "up" /\ ~isOpen)

LinkTypeOK ==
  /\ TypeOK
  /\ session \in {"accept", "nick", "msg", "over"}
  /\ part \in 0 .. Size
  /\ Len(heard) \in 0 .. MaxLines + 1 /\ Read <= Len(wire)
  /\ inRoom \in BOOLEAN /\ (inRoom => session = "msg")
  /\ others \in 0 .. MaxOthers /\ replies \in 0 .. MaxOthers + MaxLines
  /\ answer \in Write(FrameParts) /\ (answer.state # "none" => replies > 0)
  /\ down \in 0 .. Buffer
  /\ inRead \in 0 .. FrameParts /\ (inRead = FrameParts => shown < arrived)

LinkInit == /\ Init
            /\ session = "accept" /\ part = 0 /\ heard = <<>> /\ inRoom = FALSE
            /\ others = 0 /\ replies = 0 /\ answer = Idle
            /\ down = 0 /\ inRead = 0
-----------------------------------------------------------------------------
(* Mutants *)

\* of MsgRead: no read while something is being written to the person.
MsgReadInTurn(ok) == ok /\ answer.state = "none"
\* of OnMessages: leaves the writing to a handler that never comes.
OnMessagesWaits(n) == replies' = replies + n /\ answer' = answer
-----------------------------------------------------------------------------
(* personInRoom *)

\* onMessage, n times.
OnMessages(n) ==
  /\ replies' = replies + n
  /\ answer' = IF replies = 0 /\ n > 0 THEN Started ELSE answer

\* onAccept and start
OnAccept == /\ session = "accept" /\ link # "none"
            /\ session' = "nick"
            /\ UNCHANGED <<vars, part, heard, inRoom, others, replies, answer,
                           down, inRead>>

Hear(n) == heard' = Append(heard, SubSeq(wire, Cut + 1, Cut + n))

\* nicknameHandler, and enter with what others have said: the error is ignored,
\* and what arrived before it is the name.
NicknameHandler ==
  /\ session = "nick"
  /\ part = Size \/ Ended
  /\ session' = "msg" /\ part' = 0 /\ inRoom' = TRUE
  /\ Hear(part)
  /\ OnMessages(others)
  /\ UNCHANGED <<vars, others, down, inRead>>

\* readHandler asks for the next message.
MsgRead(ok) == ok

MsgHandler ==
  /\ session = "msg"
  /\ \/ /\ part = Size
        /\ part' = 0 /\ Hear(Size)
        /\ OnMessages(IF inRoom THEN 1 ELSE 0)
        /\ session' = IF MsgRead(TRUE) THEN "msg" ELSE "over"
        /\ UNCHANGED inRoom
     \/ /\ part < Size /\ Ended
        /\ session' = IF MsgRead(FALSE) THEN "msg" ELSE "over"
        /\ inRoom' = FALSE
        /\ UNCHANGED <<part, heard, replies, answer>>
  /\ UNCHANGED <<vars, others, down, inRead>>

\* broadcast of another participant's message
OtherSays == /\ others < MaxOthers
             /\ others' = others + 1
             /\ OnMessages(IF inRoom THEN 1 ELSE 0)
             /\ UNCHANGED <<vars, session, part, heard, inRoom, down, inRead>>

AnswerHandler ==
  /\ \/ /\ answer.state = "done"
        /\ replies' = replies - 1
        /\ answer' = IF replies' > 0 THEN Started ELSE Idle
        /\ UNCHANGED inRoom
     \/ /\ answer.state = "failed"
        /\ answer' = Idle
        /\ inRoom' = FALSE
        /\ UNCHANGED replies
  /\ UNCHANGED <<vars, session, part, heard, others, down, inRead>>
-----------------------------------------------------------------------------
(* asio on both sides, and the connection *)

\* The server's read takes what has come, as much as it still wants.  After an
\* error there is nothing to take.
Take ==
  /\ session \in {"nick", "msg"}
  /\ ~(heard # <<>> /\ Len(heard[1]) < FirstSize)
  /\ \E n \in 1 .. Size - part : Read + n <= Len(wire) /\ part' = part + n
  /\ UNCHANGED <<vars, session, heard, inRoom, others, replies, answer, down,
                 inRead>>

Answer ==
  /\ answer.state = "busy" /\ link = "up" /\ isOpen
  /\ \E n \in 1 .. FrameParts - answer.parts :
       /\ down + n <= Buffer
       /\ down' = down + n
       /\ answer' = Sent(answer, FrameParts, n)
  /\ UNCHANGED <<vars, session, part, heard, inRoom, others, replies, inRead>>

AnswerFails ==
  /\ answer.state = "busy" /\ Ended
  /\ answer' = [answer EXCEPT !.state = "failed"]
  /\ UNCHANGED <<vars, session, part, heard, inRoom, others, replies, down,
                 inRead>>

\* The client's read takes what has come; with its last part a frame arrived.
Pull ==
  /\ reading /\ isOpen /\ link = "up"
  /\ \E n \in 1 .. FrameParts - inRead :
       /\ n <= down
       /\ down' = down - n
       /\ inRead' = inRead + n
  /\ IF inRead' = FrameParts THEN Arrive ELSE UNCHANGED vars
  /\ UNCHANGED server

\* The client sends as long as there is room.
SendIntoRoom == Send /\ Len(wire') - Read <= Buffer
                /\ UNCHANGED <<server, down, inRead>>

Show == ReadHandler /\ inRead' = (IF shown' # shown THEN 0 ELSE inRead)
        /\ UNCHANGED <<server, down>>

\* What the client's socket holds is lost to it; what the server's holds is
\* read before the error, unless that comes first.
Break == /\ Lose /\ arrived' = arrived
         /\ down' = 0 /\ UNCHANGED <<server, inRead>>

\* The client's other steps.
Client(A) == A /\ UNCHANGED <<server, down, inRead>>

LinkNext ==
  \/ Client(Type) \/ Client(OnConnect) \/ Client(WriteImpl)
  \/ Client(WriteHandler) \/ Client(HelloHandler) \/ Client(RunReturns)
  \/ Client(Handshake) \/ Client(SendFails)
  \/ SendIntoRoom \/ Show \/ Pull \/ Break
  \/ OnAccept \/ NicknameHandler \/ MsgHandler \/ OtherSays \/ AnswerHandler
  \/ Take \/ Answer \/ AnswerFails

LinkSpec == LinkInit /\ [][LinkNext]_linkVars

\* Both workers run; asio and TCP move what there is room for.
FairLinkSpec ==
  /\ LinkSpec
  /\ WF_linkVars(Client(OnConnect)) /\ WF_linkVars(Client(WriteImpl))
  /\ WF_linkVars(Client(WriteHandler)) /\ WF_linkVars(Client(HelloHandler))
  /\ WF_linkVars(Client(RunReturns)) /\ WF_linkVars(Client(Handshake))
  /\ WF_linkVars(Client(SendFails))
  /\ WF_linkVars(SendIntoRoom) /\ WF_linkVars(Show) /\ WF_linkVars(Pull)
  /\ WF_linkVars(OnAccept) /\ WF_linkVars(NicknameHandler)
  /\ WF_linkVars(MsgHandler) /\ WF_linkVars(AnswerHandler)
  /\ WF_linkVars(Take) /\ WF_linkVars(Answer) /\ WF_linkVars(AnswerFails)
-----------------------------------------------------------------------------
(* Properties *)

Frame(k) == [i \in 1 .. FrameParts |-> <<k, i>>]

\* The nickname was sent, all of it before the n-th part of the stream.
NicknameBefore(n) == <<0, HelloParts>> \in {wire[i] : i \in 1 .. n - 1}

\* What the server takes for the k-th message is the k-th line, once the
\* nickname has gone before it; a line typed too soon is cut with the nickname,
\* and the lines after them are right again (readHandler on both sides).
LinesHeard ==
  \A k \in 1 .. Len(heard) - 1 :
    NicknameBefore(HelloParts + (k - 1) * FrameParts + 1)
      => heard[k + 1] = Frame(k)

\* If no line was written before the nickname was, the person has its own name,
\* or what had come of it when the connection ended.
NamedRight ==
  ~early /\ heard # <<>> => \A i \in DOMAIN heard[1] : heard[1][i] = <<0, i>>

\* Whatever the user types when, the stream that the client makes and what the
\* server's reads cut from it are the nickname and the lines, as far as above.
HeardAsTyped == Framed /\ LinesIntact /\ LinesHeard /\ NamedRight

\* On either side what must be outstanding is: a write for what is queued, and
\* the client's read.
Outstanding == /\ LinkTypeOK /\ QueueServed /\ Listens
               /\ inRoom /\ replies > 0 => answer.state # "none"

\* Client and server keep each other going, however small the buffers: what is
\* typed is heard, unless the client has given up or the connection is lost.
HeardAtLast ==
  \A k \in 1 .. MaxLines :
    typed >= k ~> Len(heard) > k \/ ~isOpen \/ link = "lost"
                  \/ worker = "returned"

\* And shown: a person in the room sees its own lines come back, and everybody
\* else's.
Echoed ==
  \A k \in 1 .. MaxLines + MaxOthers :
    Len(heard) - 1 + others >= k /\ inRoom ~> shown >= k \/ link = "lost"
                                              \/ ~isOpen

\* A line goes all the way: sent, heard by the server, shown by the client.
EndToEnd == SentOrClosed /\ HeardAtLast /\ Echoed

\* What ChatClient assumes of the server and the network is so: the client in
\* this connection is one that its own specification allows, fairness included.
ClientIsFair == FairSpec
=============================================================================
