----------------------------- MODULE ChatClient -----------------------------
(***************************************************************************)
(* The chat client of example/chat_client.cpp.  Two threads: main reads    *)
(* lines and posts them to the io_service; the worker runs the completion  *)
(* handlers, each of which is one atomic action.  asio and TCP move the    *)
(* bytes: an async_write is a series of partial sends, so two outstanding  *)
(* ones may interleave on the wire.                                        *)
(*                                                                         *)
(* A frame is cut into a few parts.  Frame 0 is the nickname, frame k the  *)
(* k-th line the user typed.                                               *)
(***************************************************************************)
EXTENDS Naturals, Sequences

CONSTANTS HelloParts, \* bound: parts the nickname frame can be sent in
          FrameParts, \* bound: parts a message frame can be sent in
          MaxLines,   \* bound: lines the user types
          MaxFrames   \* bound: frames the server sends

ASSUME ClientAssumption == /\ HelloParts \in Nat \ {0}
                           /\ FrameParts \in Nat \ {0}
                           /\ MaxLines \in Nat
                           /\ MaxFrames \in Nat

VARIABLES typed,      \* lines main has posted with io_service::post
          taken,      \* posted lines for which writeImpl ran
          worker,     \* io_service::run: "running" or "returned"
          connecting, \* the async_connect: "trying", "ok", "failed", "none"
          isOpen,     \* socket_ was not closed
          hello,      \* the async_write of nickname_
          write,      \* the async_write of write_msgs_.front()
          reading,    \* an async_read is outstanding
          queue,      \* write_msgs_
          shown,      \* frames printed
          \* the network
          link,       \* "none" before the handshake, then "up", then "lost"
          wire,       \* parts sent, in order
          arrived,    \* frames the server has sent
          early       \* history: a line was written before the nickname was

client == <<typed, taken, worker, connecting, isOpen, hello, write, reading,
            queue, shown>>
vars == <<typed, taken, worker, connecting, isOpen, hello, write, reading,
          queue, shown, link, wire, arrived, early>>

\* An async_write: the parts of its frame sent so far, and how it stands.
Idle == [state |-> "none", parts |-> 0]
Started == [state |-> "busy", parts |-> 0]
Write(n) == [state : {"none", "busy", "done", "failed"}, parts : 0 .. n]

Part == {<<0, i>> : i \in 1 .. HelloParts}
          \cup {<<k, i>> : k \in 1 .. MaxLines, i \in 1 .. FrameParts}

TypeOK == /\ typed \in 0 .. MaxLines
          /\ taken \in 0 .. typed
          /\ worker \in {"running", "returned"}
          /\ connecting \in {"trying", "ok", "failed", "none"}
          /\ isOpen \in BOOLEAN
          /\ hello \in Write(HelloParts)
          /\ write \in Write(FrameParts)
          /\ reading \in BOOLEAN
          /\ queue \in Seq(1 .. MaxLines)
          /\ shown \in 0 .. arrived
          /\ link \in {"none", "up", "lost"}
          /\ wire \in Seq(Part)
          /\ arrived \in 0 .. MaxFrames
          /\ early \in BOOLEAN

\* The constructor started the connect, which opened the socket; the worker
\* thread is started next.
Init == /\ typed = 0 /\ taken = 0 /\ worker = "running"
        /\ connecting = "trying" /\ isOpen = TRUE
        /\ hello = Idle /\ write = Idle /\ reading = FALSE
        /\ queue = <<>> /\ shown = 0
        /\ link = "none" /\ wire = <<>> /\ arrived = 0 /\ early = FALSE
-----------------------------------------------------------------------------
(* Wrong variants of definitions below, for testing the properties only. *)

\* of StartsWrite: no look at write_msgs_ before the push_back.
StartsWriteAlways == TRUE
\* of Rearm: reads again whatever the error.
RearmAlways(ok) == TRUE
\* of CloseImpl: empty.
CloseImplNothing == UNCHANGED isOpen
-----------------------------------------------------------------------------
(* main *)

\* One turn of main's loop: getline, then write, which posts the line whatever
\* became of the connection.
Type == /\ typed < MaxLines
        /\ typed' = typed + 1
        /\ UNCHANGED <<taken, worker, connecting, isOpen, hello, write, reading,
                       queue, shown, link, wire, arrived, early>>
-----------------------------------------------------------------------------
(* The worker's handlers *)

CloseImpl == isOpen' = FALSE

\* onConnect: a failed connect is ignored.
OnConnect ==
  /\ connecting \in {"ok", "failed"}
  /\ connecting' = "none"
  /\ hello' = IF connecting = "ok" THEN Started ELSE hello
  /\ UNCHANGED <<typed, taken, worker, isOpen, write, reading, queue, shown,
                 link, wire, arrived, early>>

\* The test writeImpl makes before it queues the line.
StartsWrite == queue = <<>>

WriteImpl ==
  /\ worker = "running"
  /\ taken < typed
  /\ taken' = taken + 1
  /\ queue' = Append(queue, taken + 1)
  /\ IF StartsWrite
     THEN /\ write' = Started
          /\ early' = (early \/ connecting # "none" \/ hello.state = "busy")
     ELSE UNCHANGED <<write, early>>
  /\ UNCHANGED <<typed, worker, connecting, isOpen, hello, reading, shown,
                 link, wire, arrived>>

WriteHandler ==
  /\ \/ /\ write.state = "done"
        /\ queue' = Tail(queue)
        /\ write' = IF queue' # <<>> THEN Started ELSE Idle
        /\ UNCHANGED isOpen
     \/ /\ write.state = "failed"
        /\ write' = Idle
        /\ CloseImpl
        /\ UNCHANGED queue
  /\ UNCHANGED <<typed, taken, worker, connecting, hello, reading, shown,
                 link, wire, arrived, early>>

\* readHandler asks for another frame unless there was an error.
Rearm(ok) == ok

\* readHandler is also the handler of the nickname's write.
HelloHandler ==
  /\ hello.state \in {"done", "failed"}
  /\ hello' = Idle
  /\ LET ok == hello.state = "done"
     IN /\ reading' = Rearm(ok)
        /\ IF ok THEN UNCHANGED isOpen ELSE CloseImpl
  /\ UNCHANGED <<typed, taken, worker, connecting, write, queue, shown,
                 link, wire, arrived, early>>

ReadHandler ==
  /\ reading
  /\ \/ /\ shown < arrived /\ isOpen
        /\ shown' = shown + 1
        /\ reading' = Rearm(TRUE)
        /\ UNCHANGED isOpen
     \/ /\ ~isOpen \/ (link = "lost" /\ shown = arrived)
        /\ reading' = Rearm(FALSE)
        /\ CloseImpl
        /\ UNCHANGED shown
  /\ UNCHANGED <<typed, taken, worker, connecting, hello, write, queue,
                 link, wire, arrived, early>>

\* Nothing outstanding and nothing posted: run returns, and what main posts
\* from now on is never looked at.
RunReturns ==
  /\ worker = "running"
  /\ connecting = "none" /\ ~reading /\ taken = typed
  /\ hello.state = "none" /\ write.state = "none"
  /\ worker' = "returned"
  /\ UNCHANGED <<typed, taken, connecting, isOpen, hello, write, reading,
                 queue, shown, link, wire, arrived, early>>
-----------------------------------------------------------------------------
(* asio and the network *)

\* The handshake ends.  A write started in the meantime is queued behind it in
\* the reactor and can proceed before onConnect is called.
Handshake ==
  /\ connecting = "trying"
  /\ \/ isOpen /\ connecting' = "ok" /\ link' = "up"
     \/ connecting' = "failed" /\ UNCHANGED link
  /\ UNCHANGED <<typed, taken, worker, isOpen, hello, write, reading, queue,
                 shown, wire, arrived, early>>

\* async_write is over when the whole frame has been sent.
Completed(parts, size) == parts = size

\* The write w of frame k sends n more of its parts.
Sent(w, size, n) ==
  [state |-> IF Completed(w.parts + n, size) THEN "done" ELSE "busy",
   parts |-> w.parts + n]
Parts(k, w, n) == [i \in 1 .. n |-> <<k, w.parts + i>>]

Send == /\ isOpen /\ link = "up"
        /\ \/ /\ hello.state = "busy"
              /\ \E n \in 1 .. HelloParts - hello.parts :
                   /\ hello' = Sent(hello, HelloParts, n)
                   /\ wire' = wire \o Parts(0, hello, n)
              /\ UNCHANGED write
           \/ /\ write.state = "busy"
              /\ \E n \in 1 .. FrameParts - write.parts :
                   /\ write' = Sent(write, FrameParts, n)
                   /\ wire' = wire \o Parts(Head(queue), write, n)
              /\ UNCHANGED hello
        /\ UNCHANGED <<typed, taken, worker, connecting, isOpen, reading,
                       queue, shown, link, arrived, early>>

\* A write fails: the socket was closed, the connection lost or never made, or
\* one of the host's endpoints refused while the next is about to be tried.
SendFails ==
  /\ ~(isOpen /\ link = "up")
  /\ \/ /\ hello.state = "busy"
        /\ hello' = [hello EXCEPT !.state = "failed"]
        /\ UNCHANGED write
     \/ /\ write.state = "busy"
        /\ write' = [write EXCEPT !.state = "failed"]
        /\ UNCHANGED hello
  /\ UNCHANGED <<typed, taken, worker, connecting, isOpen, reading, queue,
                 shown, link, wire, arrived, early>>

Arrive == /\ link = "up" /\ arrived < MaxFrames
          /\ arrived' = arrived + 1
          /\ UNCHANGED <<client, link, wire, early>>

\* The connection breaks; what was on its way may be lost.
Lose == /\ link = "up"
        /\ link' = "lost"
        /\ \E k \in shown .. arrived : arrived' = k
        /\ UNCHANGED <<client, wire, early>>

Next == \/ Type
        \/ OnConnect \/ WriteImpl \/ WriteHandler
        \/ HelloHandler \/ ReadHandler \/ RunReturns
        \/ Handshake \/ Send \/ SendFails \/ Arrive \/ Lose

Spec == Init /\ [][Next]_vars

\* The worker runs what is ready; asio completes what it can; a handshake ends,
\* if only by a timeout; the server keeps reading, so sends go on.
FairSpec == /\ Spec
            /\ WF_vars(OnConnect) /\ WF_vars(WriteImpl)
            /\ WF_vars(WriteHandler) /\ WF_vars(HelloHandler)
            /\ WF_vars(ReadHandler) /\ WF_vars(RunReturns)
            /\ WF_vars(Handshake)
            /\ WF_vars(Send) /\ WF_vars(SendFails)
-----------------------------------------------------------------------------
(* Properties *)

\* The j-th part of the lines, one after the other.
LinePart(j) == <<((j - 1) \div FrameParts) + 1, ((j - 1) % FrameParts) + 1>>

\* If no line was written before the nickname was, the server, which cuts the
\* stream at fixed lengths, reads the nickname and then the lines as typed
\* (onConnect, writeImpl, writeHandler, lines 54-101).
Framed == ~early => \A n \in DOMAIN wire :
  wire[n] = IF n <= HelloParts THEN <<0, n>> ELSE LinePart(n - HelloParts)

\* Parts of the nickname, or of the lines; one of them is to be sent first.
Alike(p, q) == p[1] = 0 <=> q[1] = 0
Earlier(p, q) == p[1] < q[1] \/ (p[1] = q[1] /\ p[2] < q[2])

\* Whenever the lines are typed, they are in the stream whole, in order and one
\* after the other; only the nickname may fall in or between them, and its own
\* parts are in order too: of what is alike, a part has exactly the earlier
\* ones before it.
LinesIntact ==
  \A n \in DOMAIN wire :
    /\ wire[n][1] <= taken
    /\ \A p \in Part : Alike(p, wire[n]) =>
         ((\E m \in 1 .. n - 1 : wire[m] = p) <=> Earlier(p, wire[n]))

\* write_msgs_ is never left with nobody to send it while the socket is open,
\* and a write always has its line at the front (lines 80-101).
QueueServed == /\ write.state # "none" => queue # <<>>
               /\ queue # <<>> /\ write.state = "none" => ~isOpen

\* From the connection on, and until it closes the socket, the client has the
\* nickname's write or a read outstanding: it never stops listening, and this
\* is why the server's writes to a live client complete (lines 54-78).
Listens == link # "none" /\ connecting = "none" /\ isOpen
             => hello.state # "none" \/ reading

\* Every line is sent to its last part, or the client closes the socket, or the
\* connect failed and nothing was ever outstanding to notice it.
SentOrClosed ==
  \A k \in 1 .. MaxLines :
    typed >= k ~> \/ \E i \in DOMAIN wire : wire[i] = <<k, FrameParts>>
                  \/ ~isOpen
                  \/ worker = "returned" /\ link = "none"

\* A client whose connection is gone, or was refused, winds up: every operation
\* still outstanding fails, and the worker's run returns, once and for all.
WindsUp == (~isOpen \/ link = "lost" \/ connecting = "failed")
             ~> [](worker = "returned")
=============================================================================
