---------------------------- MODULE ThreadServer ----------------------------
(***************************************************************************)
(* chatSocket::chatServer with chatNode's sockets, as encryptedChatServer  *)
(* runs it: main accepts, one thread per client receives and sends on to   *)
(* the others, and SIGINT closes the server from main's stack.             *)
(*                                                                         *)
(* v_client is shared without a lock.  Its memory is modelled: erase       *)
(* shifts the later elements and leaves the last one behind in its slot, a *)
(* loop keeps the end it started with, and a push_back may move everything *)
(* to new memory.  Where the code's behaviour is undefined, the process is *)
(* killed or goes on with any pointers that were ever stored.              *)
(*                                                                         *)
(* recv returns what has arrived, so it may join messages: heard[c] is the *)
(* last one, and stands for all since the recv before.                     *)
(***************************************************************************)
EXTENDS Naturals, Sequences, FiniteSetsExt, Functions

CONSTANTS Conn,           \* connections, and the chatNode of each
          Nobody,
          ConnectionSize, \* m_connectionSize
          MaxSay          \* bound: messages the clients send in all

ASSUME ServerAssumption == /\ IsFiniteSet(Conn)
                           /\ Nobody \notin Conn
                           /\ ConnectionSize \in Nat
                           /\ MaxSay \in Nat

VARIABLES main,     \* where main is
          new,      \* new_client in handleRequest
          nodeSize, \* m_nodeSize
          mutex,    \* m_mu: "free", or "held" by main in showMessage
          thread,   \* where each client's thread is
          slots,    \* the memory of v_client,
          size,     \* of which the first size elements are in it
          loop,     \* each thread's loop over v_client: next and last slot,
                    \* whether that memory was freed; (history) whether
                    \* something was erased meanwhile
          killed,   \* the process was killed
          \* the clients
          link,     \* "none", then "up", then "down"
          said,     \* messages sent
          heard,    \* the last message the server has received
          got,      \* what each was sent on, by sender
          \* history
          calm      \* v_client was never changed by two at once, nor by an
                    \* erase of what it does not hold

server == <<main, new, nodeSize, mutex>>
clients == <<slots, size, calm>>
peers == <<link, said, got>>
vars == <<server, clients, peers, thread, loop, heard, killed>>

Stored == {slots[i] : i \in 1 .. size}
Served == {c \in Conn : thread[c] \notin {"none", "refused"}}
LoopTo(n) == [at |-> 1, end |-> n, moved |-> FALSE, disturbed |-> FALSE]
NoLoop == LoopTo(0)

TypeOK ==
  /\ main \in {"accept", "announce", "show", "push", "pushing", "join", "exit"}
  /\ new \in Conn \cup {Nobody}
  /\ nodeSize \in Nat
  /\ mutex \in {"free", "held"}
  /\ thread \in [Conn -> {"none", "refused", "recv", "send", "erase", "erasing",
                          "say", "over"}]
  /\ slots \in Seq(Conn) /\ size \in 0 .. Len(slots)
  /\ loop \in [Conn -> [at : Nat, end : Nat, moved : BOOLEAN,
                    disturbed : BOOLEAN]]
  /\ killed \in BOOLEAN /\ calm \in BOOLEAN
  /\ link \in [Conn -> {"none", "up", "down"}]
  /\ said \in [Conn -> 0 .. MaxSay] /\ heard \in [Conn -> 0 .. MaxSay]
  /\ got \in [Conn -> [Conn -> Seq(1 .. MaxSay)]]

Init == /\ main = "accept" /\ new = Nobody /\ nodeSize = 0 /\ mutex = "free"
        /\ thread = [c \in Conn |-> "none"]
        /\ slots = <<>> /\ size = 0 /\ calm = TRUE
        /\ loop = [c \in Conn |-> NoLoop]
        /\ killed = FALSE
        /\ link = [c \in Conn |-> "none"]
        /\ said = [c \in Conn |-> 0] /\ heard = [c \in Conn |-> 0]
        /\ got = [c \in Conn |-> [d \in Conn |-> <<>>]]

Goes(c, from, to) == thread[c] = from /\ thread' = [thread EXCEPT ![c] = to]
-----------------------------------------------------------------------------
(* v_client *)

\* Somebody other than c (a thread, or main for Nobody) is changing v_client.
Changing(c) == \/ \E d \in Conn \ {c} : thread[d] = "erasing"
               \/ c # Nobody /\ main = "pushing"

Disturb(flag) == loop' = [d \in Conn |-> IF thread[d] = "send"
                                          THEN [loop[d] EXCEPT ![flag] = TRUE]
                                          ELSE loop[d]]

\* Undefined: killed, or one element more, one less or as many, and any of the
\* pointers that were ever stored in their places.
Undefined(c) ==
  /\ calm' = FALSE
  /\ Disturb("disturbed")
  /\ \/ killed' = TRUE /\ UNCHANGED <<slots, size>>
     \/ \E n \in {k \in 0 .. size + 1 : k + 1 >= size} :
          /\ size' = n
          /\ slots' \in [1 .. Max({n, Len(slots)}) -> Range(slots) \cup {c}]
          /\ UNCHANGED killed

\* Mutant of PushBack: at the front.
PushFront(c) == /\ size' = size + 1
                /\ slots' = <<c>> \o SubSeq(slots, 1, size)
                /\ UNCHANGED <<loop, calm, killed>>

\* push_back, in place or into new memory: what loops still read is then freed.
PushBack(c) ==
  /\ size' = size + 1
  /\ \/ /\ slots' = IF size < Len(slots) THEN [slots EXCEPT ![size + 1] = c]
                                         ELSE Append(slots, c)
        /\ UNCHANGED loop
     \/ /\ slots' = Append(SubSeq(slots, 1, size), c)
        /\ Disturb("moved")
  /\ UNCHANGED <<calm, killed>>

\* Mutant: remove, and no erase.
EraseLess(c) ==
  LET i == CHOOSE j \in 1 .. size : slots[j] = c
  IN /\ slots' = [k \in DOMAIN slots |-> IF k \in i .. size - 1
                                         THEN slots[k + 1] ELSE slots[k]]
     /\ Disturb("disturbed")
     /\ UNCHANGED <<size, calm, killed>>

\* erase(remove(...)) of a node that v_client holds.
Erase(c) ==
  LET i == CHOOSE j \in 1 .. size : slots[j] = c
  IN /\ slots' = [k \in DOMAIN slots |-> IF k \in i .. size - 1
                                         THEN slots[k + 1] ELSE slots[k]]
     /\ size' = size - 1
     /\ Disturb("disturbed")
     /\ UNCHANGED <<calm, killed>>
-----------------------------------------------------------------------------
(* main: handleRequest *)

\* send to a peer that is gone may raise SIGPIPE, which nobody handles.
MaySignal(c) == IF link[c] = "down" THEN BOOLEAN ELSE {FALSE}

\* Mutant: the client that comes is not counted.
FullLate == nodeSize > ConnectionSize

\* The test of the connection limit.
Full == nodeSize + 1 > ConnectionSize

\* accept, of a client that is still there or has left already (as after a
\* failed accept, which is not noticed).
Accept(c) ==
  /\ main = "accept"
  /\ \E state \in {"up", "down"} : link' = [link EXCEPT ![c] = state]
  /\ IF Full
     THEN /\ Goes(c, "none", "refused")
          /\ killed' \in MaySignal(c)'
          /\ UNCHANGED server
     ELSE /\ Goes(c, "none", "recv")
          /\ nodeSize' = nodeSize + 1 /\ new' = c /\ main' = "announce"
          /\ UNCHANGED <<mutex, killed>>
  /\ UNCHANGED <<clients, said, got, loop, heard>>

\* showMessage, which holds m_mu while it prints, then the push_back.
MainStep ==
  \/ /\ main = "announce" /\ main' = "show" /\ mutex' = "held"
     /\ UNCHANGED <<new, nodeSize, clients, loop, killed>>
  \/ /\ main = "show" /\ main' = "push" /\ mutex' = "free"
     /\ UNCHANGED <<new, nodeSize, clients, loop, killed>>
  \/ /\ main = "push" /\ main' = "pushing"
     /\ UNCHANGED <<new, nodeSize, mutex, clients, loop, killed>>
  \/ /\ main = "pushing" /\ main' = "accept" /\ new' = Nobody
     /\ IF Changing(Nobody) THEN Undefined(new) ELSE PushBack(new)
     /\ UNCHANGED <<nodeSize, mutex>>
Main == MainStep /\ UNCHANGED <<peers, thread, heard>>
-----------------------------------------------------------------------------
(* A client's thread *)

Recv(c) ==
  /\ heard[c] < said[c]
  /\ Goes(c, "recv", "send")
  /\ \E k \in heard[c] + 1 .. said[c] : heard' = [heard EXCEPT ![c] = k]
  /\ loop' = [loop EXCEPT ![c] = LoopTo(size)]
  /\ UNCHANGED <<server, clients, peers, killed>>

\* Mutant: an error or the end does not end the loop.
RecvEndsLess(c) ==
  /\ main = "join" /\ c # new
  /\ Goes(c, "recv", "erase")
  /\ UNCHANGED <<server, clients, peers, loop, heard, killed>>

\* recv returns 0 or an error: the peer has gone, or the thread had not called
\* it yet when the descriptor was closed.  (A recv that waits is not woken.)
RecvEnds(c) ==
  /\ \/ heard[c] = said[c] /\ link[c] = "down"
     \/ main = "join" /\ c # new
  /\ Goes(c, "recv", "erase")
  /\ UNCHANGED <<server, clients, peers, loop, heard, killed>>

\* One turn of sendMessageAll.  After a move the pointer is read from freed
\* memory; the nodes themselves are freed when the server is closed.
SendOn(c) ==
  /\ thread[c] = "send" /\ loop[c].at <= loop[c].end
  /\ loop' = [loop EXCEPT ![c].at = @ + 1]
  /\ \E d \in IF loop[c].moved THEN Served ELSE {slots[loop[c].at]} :
       /\ got' = IF d # c /\ link[d] = "up" /\ main # "join"
                 THEN [got EXCEPT ![d][c] = Append(@, heard[c])] ELSE got
       /\ killed' \in IF loop[c].moved \/ main = "join" THEN BOOLEAN
                      ELSE IF d # c THEN MaySignal(d) ELSE {FALSE}
  /\ UNCHANGED <<server, clients, link, said, thread, heard>>

\* Mutant: one message only.
SendEndsLoop(c) ==
  /\ loop[c].at > loop[c].end
  /\ Goes(c, "send", "erase")
  /\ loop' = [loop EXCEPT ![c] = NoLoop]
  /\ UNCHANGED <<server, clients, peers, heard, killed>>

\* Back to recv, which fails on the descriptor of a deleted node.
SendEnds(c) ==
  /\ loop[c].at > loop[c].end
  /\ \/ Goes(c, "send", "recv") /\ (main = "join" /\ c # new => ~calm)
     \/ Goes(c, "send", "erase") /\ main = "join" /\ c # new
  /\ loop' = [loop EXCEPT ![c] = NoLoop]
  /\ UNCHANGED <<server, clients, peers, heard, killed>>

\* The client erases itself, if it is there: the accept loop may not have put
\* it there yet.
EraseSelf(c) ==
  \/ /\ Goes(c, "erase", "erasing")
     /\ UNCHANGED <<server, clients, peers, loop, heard, killed>>
  \/ /\ Goes(c, "erasing", "say")
     /\ IF Changing(c) \/ Cardinality({i \in 1 .. size : slots[i] = c}) # 1
        THEN Undefined(c) ELSE Erase(c)
     /\ UNCHANGED <<server, peers, heard>>

SayGone(c) == /\ mutex = "free"
              /\ Goes(c, "say", "over")
              /\ UNCHANGED <<server, clients, peers, loop, heard, killed>>
-----------------------------------------------------------------------------
(* Closing *)

\* SIGINT, confirmed: wherever main is, the handler deletes the server.  It
\* tells the clients, deletes their nodes, closes the socket and joins.
Interrupt ==
  /\ main \notin {"join", "exit"}
  /\ main' = "join"
  /\ killed' \in IF \/ ~calm \/ Changing(Nobody) \/ main = "pushing"
                    \/ \E d \in Stored : link[d] = "down"
                 THEN BOOLEAN ELSE {FALSE}
  /\ UNCHANGED <<new, nodeSize, mutex, clients, peers, thread, loop, heard>>

Join == /\ main = "join"
        /\ \A c \in Served : thread[c] = "over"
        /\ main' = "exit" /\ size' = 0
        /\ UNCHANGED <<new, nodeSize, mutex, slots, calm, peers, thread, loop,
                       heard, killed>>
-----------------------------------------------------------------------------
(* The clients *)

Messages == {m \in Conn \X (1 .. MaxSay) : m[2] <= said[m[1]]}

ClientSay(c) == /\ c \in Served /\ link[c] = "up"
                /\ Cardinality(Messages) < MaxSay
                /\ said' = [said EXCEPT ![c] = @ + 1]
                /\ UNCHANGED <<server, clients, link, got, thread, loop, heard, killed>>

Drop(c) == /\ c \in Served /\ link[c] = "up"
           /\ link' = [link EXCEPT ![c] = "down"]
           /\ UNCHANGED <<server, clients, said, got, thread, loop, heard, killed>>

ThreadStep(c) == \/ Recv(c) \/ RecvEnds(c) \/ SendOn(c) \/ SendEnds(c)
                 \/ EraseSelf(c) \/ SayGone(c)

Next == /\ ~killed
        /\ \/ Main \/ Interrupt \/ Join
           \/ \E c \in Conn : \/ Accept(c) \/ ThreadStep(c)
                               \/ ClientSay(c) \/ Drop(c)

Spec == Init /\ [][Next]_vars

\* Every thread gets on, and so does main; clients do as they like.
FairSpec == /\ Spec
            /\ WF_vars(~killed /\ Main) /\ WF_vars(~killed /\ Join)
            /\ \A c \in Conn : WF_vars(~killed /\ ThreadStep(c))
-----------------------------------------------------------------------------
(* Properties *)

Elements(c) == Cardinality({i \in 1 .. size : slots[i] = c})

\* handleRequest's counter: no more clients are ever taken than the limit, and
\* each is counted once.
Limit == /\ nodeSize = Cardinality(Served)
         /\ nodeSize <= ConnectionSize

\* As long as no two have changed v_client at once and no thread has ended
\* before main got to its push_back, v_client holds exactly the clients whose
\* threads still serve them, each once.
Registered ==
  calm /\ main # "exit" =>
    \A c \in Conn : Elements(c) =
      IF \/ thread[c] \in {"none", "refused", "say", "over"} \/ new = c
      THEN 0 ELSE 1

\* A message that sendMessageAll has sent on with nothing erased and no memory
\* moved meanwhile has reached every other client that was in v_client when it
\* began and is still connected, and each only once.
ExactlyOnce ==
  \A c \in Conn :
    /\ thread[c] = "send" /\ loop[c].at > loop[c].end
    /\ ~loop[c].disturbed /\ ~loop[c].moved /\ main # "join" /\ calm
    => \A d \in {slots[i] : i \in 1 .. loop[c].end} \ {c} :
         link[d] = "up" =>
           Cardinality({k \in DOMAIN got[d][c] : got[d][c][k] = heard[c]}) = 1

\* While everybody who came is still connected and the server is not being
\* closed, v_client is intact, and the process dies only of a loop whose memory
\* push_back has freed.
SoundWhileAllStay ==
  (\A c \in Conn : link[c] # "down") /\ main \notin {"join", "exit"} =>
    calm /\ (killed => \E c \in Conn : loop[c].moved)

\* The types hold whatever damage is done, and damage needs somebody to leave.
Sound == TypeOK /\ SoundWhileAllStay

\* The end of a client's connection ends its thread, unless main, interrupted
\* with m_mu held, waits for that thread.
Notices == \A c \in Conn :
  c \in Served /\ link[c] = "down" ~>
    thread[c] = "over" \/ killed \/ (main = "join" /\ mutex = "held")

\* closeServer returns once every peer has gone, and waits for them.
Closes == main = "join" /\ mutex = "free" /\ (\A c \in Served : link[c] = "down")
           ~> main = "exit" \/ killed

\* Threads end, and the server: in every case but the deadlock above.
Exits == Notices /\ Closes
=============================================================================
