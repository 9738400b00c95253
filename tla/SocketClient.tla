---------------------------- MODULE SocketClient ----------------------------
(***************************************************************************)
(* chatSocket::chatClient as encryptedChatClient runs it: main writes the  *)
(* user's lines, a thread receives, SIGINT deletes the client from main's  *)
(* stack.  They share m_state and the descriptor without a lock.           *)
(*                                                                         *)
(* The other end is a chatServer that may be closing at the same time.     *)
(* A recv that waits is not woken by a close of its descriptor, and keeps  *)
(* the socket open: the peer is told of the end when that recv returns.    *)
(***************************************************************************)
EXTENDS Naturals, Sequences

CONSTANTS MaxLines, \* bound: lines the user types
          MaxNews,  \* bound: messages the server sends
          MaxSent,  \* bound: sends that are remembered
          MaxAsked  \* bound: times the user says Y to the signal handler

ASSUME ClientAssumption == {MaxLines, MaxNews, MaxSent, MaxAsked} \subseteq Nat

VARIABLES main,     \* where main is
          state,    \* m_state, which no constructor sets
          thread,   \* where the receiving thread is: about to call recv,
                    \* waiting in it, out of its loop
          joinable, \* m_thread has been assigned
          fd,       \* m_socketFd: "none", "open" or "closed"
          stdin,    \* "open", or "end" once getline has met the end of file
          message,  \* the line that getline returned, 0 for an empty string
          asked,    \* times that SIGINT was answered with Y
          killed,   \* the process was killed, by a signal or by terminate
          \* the connection and the server
          link,     \* "none", "up", "fin" or "reset"
          news,     \* messages of the server not yet received
          server,   \* "serves", "closing" or "gone"
          woken,    \* the closing server's thread is out of recv, or will be
          \* history
          typed, sent, \* lines typed, messages handed to send
          cut,      \* the last line typed was ended by the end of the file
          late,     \* lines read when m_state was CLOSED already
          twice,    \* Y was answered while the client was being deleted
          first     \* who closed its descriptor first

conn == <<link, news, server, woken>>
input == <<stdin, message, typed, cut, late>>
ends == <<twice, first>>
vars == <<main, state, thread, joinable, fd, input, asked, killed, conn,
          sent, ends>>

Over == main = "over" \/ killed

TypeOK ==
  /\ main \in {"create", "connect", "start", "assign", "test", "read", "send",
               "close", "join", "node", "over"}
  /\ state \in {"unset", "OPEN", "CLOSED"}
  /\ thread \in {"none", "call", "wait", "end", "over"}
  /\ fd \in {"none", "open", "closed"}
  /\ stdin \in {"open", "end"}
  /\ message \in 0 .. typed /\ typed \in 0 .. MaxLines
  /\ asked \in 0 .. MaxAsked /\ late \in Nat
  /\ link \in {"none", "up", "fin", "reset"}
  /\ news \in 0 .. MaxNews
  /\ server \in {"serves", "closing", "gone"}
  /\ first \in {"none", "client", "server"}
  /\ sent \in Seq(1 .. MaxLines) /\ Len(sent) <= MaxSent
  /\ {joinable, killed, woken, cut, twice} \subseteq BOOLEAN

Init == /\ main = "create" /\ state = "unset" /\ thread = "none"
        /\ joinable = FALSE /\ fd = "none" /\ stdin = "open" /\ message = 0
        /\ asked = 0 /\ killed = FALSE
        /\ link = "none" /\ news = 0 /\ server = "serves" /\ woken = FALSE
        /\ typed = 0 /\ sent = <<>> /\ cut = FALSE /\ late = 0
        /\ twice = FALSE /\ first = "none"
-----------------------------------------------------------------------------
(* main: connectServer *)

\* createSocket; when it throws, main returns and leaves the object as it is.
Create ==
  /\ main = "create"
  /\ \/ main' = "connect" /\ state' = "OPEN" /\ fd' = "open"
     \/ main' = "over" /\ UNCHANGED <<state, fd>>
  /\ UNCHANGED <<thread, joinable, input, asked, killed, conn, sent, ends>>

Connect ==
  /\ main = "connect"
  /\ \/ main' = "start" /\ link' = "up"
     \/ main' = "over" /\ UNCHANGED link
  /\ UNCHANGED <<state, thread, joinable, fd, input, asked, killed, news,
                 server, woken, sent, ends>>

\* receiveMessage: the thread runs before m_thread holds it.
Start ==
  /\ \/ /\ main = "start" /\ main' = "assign" /\ thread' = "call"
        /\ UNCHANGED joinable
     \/ /\ main = "assign" /\ main' = "test" /\ joinable' = TRUE
        /\ UNCHANGED thread
  /\ UNCHANGED <<state, fd, input, asked, killed, conn, sent, ends>>

\* Mutant: for ever.
TestNothing == /\ main = "test" /\ main' = "read"
               /\ UNCHANGED <<state, thread, joinable, fd, input, asked,
                              killed, conn, sent, ends>>

\* The condition of writeMessage's loop; after it main deletes the client.
Test ==
  /\ main = "test"
  /\ main' = IF state = "OPEN" THEN "read" ELSE "close"
  /\ UNCHANGED <<state, thread, joinable, fd, input, asked, killed, conn, sent,
                 ends>>

CountLate == late' = IF state = "CLOSED" THEN late + 1 ELSE late

\* getline gives the next line, or the last one, which the end of the file cuts,
\* or an empty one: the first is what is left of the port's line.
ReadLine ==
  /\ main = "read" /\ stdin = "open"
  /\ main' = "send"
  /\ \/ /\ typed < MaxLines /\ typed' = typed + 1 /\ message' = typed'
        /\ \/ UNCHANGED <<stdin, cut>>
           \/ stdin' = "end" /\ cut' = TRUE
     \/ message' = 0 /\ UNCHANGED <<stdin, typed, cut>>
  /\ CountLate
  /\ UNCHANGED <<state, thread, joinable, fd, asked, killed, conn, sent, ends>>

\* Mutant: the string keeps its last value.
ReadEndKeeps ==
  /\ main = "read" /\ main' = "send"
  /\ stdin' = "end" /\ UNCHANGED message
  /\ CountLate
  /\ UNCHANGED <<state, thread, joinable, fd, typed, cut, asked, killed, conn,
                 sent, ends>>

\* The end of the file: getline empties the string when it meets it, and does
\* nothing to it when the stream had met it before.
ReadEnd ==
  /\ main = "read" /\ main' = "send"
  /\ stdin' = "end"
  /\ message' = IF stdin = "open" THEN 0 ELSE message
  /\ CountLate
  /\ UNCHANGED <<state, thread, joinable, fd, typed, cut, asked, killed, conn,
                 sent, ends>>

\* send: whatever it does, the loop goes on.  The peer that has gone answers
\* the first bytes with a reset, and after a reset send may raise SIGPIPE.
Send ==
  /\ main = "send" /\ main' = "test"
  /\ sent' = IF message # 0 /\ Len(sent) < MaxSent THEN Append(sent, message)
                                                   ELSE sent
  /\ link' = IF message # 0 /\ link = "fin" THEN "reset" ELSE link
  /\ woken' = (woken \/ (message # 0 /\ server = "closing"))
  /\ killed' \in IF link = "reset" THEN BOOLEAN ELSE {FALSE}
  /\ UNCHANGED <<state, thread, joinable, fd, input, asked, news, server, ends>>
-----------------------------------------------------------------------------
(* The destructors *)

\* Mutant: m_state is not set.
CloseSocketForgets ==
  \/ state = "CLOSED" /\ UNCHANGED <<fd, state, killed>>
  \/ /\ state = "OPEN" /\ fd = "open" /\ fd' = "closed"
     /\ UNCHANGED <<state, killed>>
  \/ /\ state # "CLOSED" /\ fd # "open" /\ killed' = TRUE
     /\ UNCHANGED <<fd, state>>

\* closeSocket.  Before createSocket m_state is any value; a close that fails
\* throws, which a destructor must not do.
CloseSocket ==
  \/ state # "OPEN" /\ UNCHANGED <<fd, state, killed>>
  \/ /\ state = "OPEN" /\ fd = "open" /\ fd' = "closed" /\ state' = "CLOSED"
     /\ UNCHANGED killed
  \/ /\ state # "CLOSED" /\ fd # "open" /\ killed' = TRUE
     /\ UNCHANGED <<fd, state>>

Close == /\ \/ main = "close" /\ main' = "join"
            \/ main = "node" /\ main' = "over" \* ~chatNode
         /\ CloseSocket
         /\ first' = IF fd' # fd /\ first = "none" THEN "client" ELSE first
         /\ UNCHANGED <<thread, joinable, input, asked, conn, sent, twice>>

Join == /\ main = "join" /\ (joinable => thread = "over")
        /\ main' = "node"
        /\ UNCHANGED <<state, thread, joinable, fd, input, asked, killed, conn,
                       sent, ends>>

\* SIGINT, answered with Y: the handler deletes the client wherever main is.
\* If main is deleting it already, the thread is joined or the members are
\* destroyed twice, which ends in terminate or goes well by chance.
Interrupt ==
  /\ main # "over" /\ asked < MaxAsked
  /\ asked' = asked + 1 /\ main' = "close"
  /\ killed' \in IF main \in {"join", "node"} THEN BOOLEAN ELSE {FALSE}
  /\ twice' = (twice \/ main \in {"close", "join", "node"})
  /\ UNCHANGED <<state, thread, joinable, fd, input, conn, sent, first>>
-----------------------------------------------------------------------------
(* The receiving thread *)

\* Mutant: recv after recv, whatever it returns.
ReceiveAgain ==
  /\ \/ thread = "call" /\ thread' = "wait" /\ UNCHANGED <<news, state>>
     \/ /\ thread = "wait" /\ thread' = "call"
        /\ news > 0 /\ news' \in 0 .. news - 1
        /\ UNCHANGED state
  /\ UNCHANGED <<main, joinable, fd, input, asked, killed, link, server, woken,
                 sent, ends>>

\* recv fails on a closed descriptor, waits on an open one until there is
\* something (of which it takes any part) or the connection has ended.
Receive ==
  /\ \/ /\ thread = "call"
        /\ thread' = IF fd = "closed" THEN "end" ELSE "wait"
        /\ UNCHANGED <<news, state>>
     \/ /\ thread = "wait" /\ news > 0
        /\ thread' = "call" /\ news' \in 0 .. news - 1
        /\ UNCHANGED state
     \/ /\ thread = "wait" /\ (link = "reset" \/ (link = "fin" /\ news = 0))
        /\ thread' = "end"
        /\ UNCHANGED <<news, state>>
     \/ /\ thread = "end"
        /\ thread' = "over" /\ state' = "CLOSED"
        /\ UNCHANGED news
  /\ UNCHANGED <<main, joinable, fd, input, asked, killed, link, server, woken,
                 sent, ends>>
-----------------------------------------------------------------------------
(* The server *)

ServerSays == /\ server = "serves" /\ link = "up" /\ news < MaxNews
              /\ news' = news + 1
              /\ UNCHANGED <<link, server, woken, first>>

\* closeServer: the notice, then its descriptor is closed under its thread,
\* which waits in recv or happens not to.
ServerCloses == /\ server = "serves" /\ link = "up" /\ news < MaxNews
                /\ server' = "closing" /\ news' = news + 1
                /\ woken' \in BOOLEAN
                /\ first' = IF first = "none" THEN "server" ELSE first
                /\ UNCHANGED link

\* The server's last recv returns: a line came, or the client's socket ended.
ServerEnds == /\ server = "closing"
              /\ woken \/ Over \/ (fd = "closed" /\ thread # "wait")
              /\ server' = "gone" /\ link' \in {"fin", "reset"}
              /\ UNCHANGED <<news, woken, first>>

\* The connection ends otherwise: "Server is full.", a killed server.
Lose == /\ link = "up"
        /\ server' = "gone" /\ link' \in {"fin", "reset"}
        /\ UNCHANGED <<news, woken, first>>

Server == /\ ServerSays \/ ServerCloses \/ Lose
          /\ UNCHANGED <<main, state, thread, joinable, fd, input, asked,
                         killed, sent, twice>>
ServerFinishes == /\ ServerEnds
                  /\ UNCHANGED <<main, state, thread, joinable, fd, input,
                                 asked, killed, sent, twice>>

MainGoesOn == \/ Create \/ Connect \/ Start \/ Test \/ Send \/ Close \/ Join
              \/ (stdin = "end" /\ ReadEnd)

Next == \/ /\ ~Over
           /\ \/ MainGoesOn \/ ReadLine \/ ReadEnd \/ Interrupt
              \/ Receive \/ Server
        \/ ServerFinishes

Spec == Init /\ [][Next]_vars

\* The threads of both programs go on; the user types or not.
FairSpec == /\ Spec
            /\ WF_vars(~Over /\ MainGoesOn) /\ WF_vars(~Over /\ Receive)
            /\ WF_vars(ServerFinishes)
-----------------------------------------------------------------------------
(* Properties *)

\* The thread that sets m_state and the loop that tests it: after the
\* connection was found to have ended, main takes at most one more line.
OneLateLine == late <= 1

\* What is sent are the lines typed, in order and each once, except that a last
\* line without its newline is sent again and again.
SentAsTyped ==
  \A i \in DOMAIN sent : sent[i] = i \/ (cut /\ i > typed /\ sent[i] = typed)

\* The process dies only of a reset connection, of a second Y while the client
\* is being deleted, or of a Y before there was a socket: in particular no
\* descriptor is closed twice, by whichever thread m_state was set.
DiesOnlyOf == killed => link = "reset" \/ twice \/ state = "unset"

\* At the end of its input main runs round its loop; it stops when the
\* connection has ended.
EndsAtEnd == stdin = "end" /\ link \in {"fin", "reset"} ~> Over

\* A client that is closed while the server serves, and then the server: the
\* notice wakes the client's thread, and both end.
ClosesBeforeServer ==
  first = "client" /\ server = "closing" ~> Over /\ server = "gone"

\* When a client is sure to end, with the code's joins and without a wake-up.
Ends == EndsAtEnd /\ ClosesBeforeServer
=============================================================================
