------------------------------ MODULE ChatRoom ------------------------------
(***************************************************************************)
(* The chat server of example/chat_server.cpp: server (the accept loop),   *)
(* personInRoom (one object per connection) and chatRoom.  All completion  *)
(* handlers are wrapped in one strand, so a handler is one atomic action;  *)
(* which outstanding operation completes next, and with which error code,  *)
(* is up to the network.                                                   *)
(*                                                                         *)
(* Frames have a fixed size, so a completed async_read is one frame.  The  *)
(* k-th message of p has the body k; the timestamp is left out.            *)
(***************************************************************************)
EXTENDS Naturals, Sequences

CONSTANTS Person,     \* personInRoom objects, one per connection
          Nickname,   \* what clients send as their first frame
          NoName,     \* the empty string
          Junk,       \* the text found in a nickname_ that was never filled
          NoEntry,    \* a key name_table_ does not hold
          MaxRecent,  \* max_recent_msgs
          MaxSay      \* bound: messages one client sends

ASSUME RoomAssumption == /\ MaxRecent \in Nat
                         /\ MaxSay \in Nat
                         /\ NoName \notin Nickname
                         /\ Junk \notin Nickname \cup {NoName}
                         /\ NoEntry \notin Nickname \cup {NoName, Junk}

VARIABLES phase,        \* which read is outstanding on p's socket
          participants, \* participants_
          names,        \* name_table_
          recent,       \* recent_msgs_
          wq,           \* write_msgs_ of each person
          writing,      \* async_writes outstanding on each socket
          \* the network and the clients
          link,         \* "up" or "down"
          hello,        \* the nickname frame sent, NoName before that
          said,         \* number of message frames sent
          nread,        \* number of message frames read from the socket
          \* history, read by properties only
          log,          \* every message broadcast
          base,         \* length of the log that precedes p's first message
          sent          \* messages completely written to p's socket

net == <<link, hello, said>>
room == <<participants, names, recent>>
vars == <<phase, participants, names, recent, wq, writing,
          link, hello, said, nread, log, base, sent>>

Phase == {"unborn", "accepting", "nick", "msg", "over", "void"}
Name == Nickname \cup {NoName, Junk}
Message == [from : Person, nick : Name, body : 1 .. MaxSay]

TypeOK == /\ phase \in [Person -> Phase]
          /\ participants \in SUBSET Person
          /\ names \in [Person -> Name \cup {NoEntry}]
          /\ recent \in Seq(Message)
          /\ wq \in [Person -> Seq(Message)]
          /\ writing \in [Person -> Nat]
          /\ link \in [Person -> {"up", "down"}]
          /\ hello \in [Person -> Nickname \cup {NoName}]
          /\ said \in [Person -> 0 .. MaxSay]
          /\ nread \in [Person -> 0 .. MaxSay]
          /\ log \in Seq(Message)
          /\ base \in [Person -> Nat]
          /\ sent \in [Person -> Seq(Message)]

\* The constructor of server calls run(): one personInRoom awaits a connection.
Init == /\ \E p \in Person :
             phase = [q \in Person |-> IF q = p THEN "accepting" ELSE "unborn"]
        /\ participants = {}
        /\ names = [p \in Person |-> NoEntry]
        /\ recent = <<>>
        /\ wq = [p \in Person |-> <<>>]
        /\ writing = [p \in Person |-> 0]
        /\ link = [p \in Person |-> "up"]
        /\ hello = [p \in Person |-> NoName]
        /\ said = [p \in Person |-> 0]
        /\ nread = [p \in Person |-> 0]
        /\ log = <<>>
        /\ base = [p \in Person |-> 0]
        /\ sent = [p \in Person |-> <<>>]
-----------------------------------------------------------------------------
(* Wrong variants of the definitions that follow, each a plausible slip; the *)
(* properties are tested against them and nothing else uses them.            *)

\* of OnMessage: starts a write whether or not one is in progress.
OnMessageAlwaysWrites(Q, ms) ==
  /\ wq' = [q \in Person |-> IF q \in Q THEN wq[q] \o ms ELSE wq[q]]
  /\ writing' = [q \in Person |-> IF q \in Q THEN writing[q] + 1 ELSE writing[q]]

\* of OnMessage: queues and leaves the writing to a handler that never comes.
OnMessageNeverWrites(Q, ms) ==
  /\ wq' = [q \in Person |-> IF q \in Q THEN wq[q] \o ms ELSE wq[q]]
  /\ UNCHANGED writing

\* of Leave: forgets one of the two tables.
LeaveKeepsName(p) == participants' = participants \ {p} /\ UNCHANGED <<names, recent>>
LeaveKeepsParticipant(p) ==
  names' = [names EXCEPT ![p] = NoEntry] /\ UNCHANGED <<participants, recent>>

\* of GetNickname: find instead of operator[], the miss not looked at.
GetNicknameFound(p) == names[p]

\* of Trim: pop_back, and one message too many.
TrimNewest(s) == SubSeq(s, 1, IF Len(s) > MaxRecent THEN MaxRecent ELSE Len(s))
TrimLate(s) == IF Len(s) > MaxRecent + 1 THEN Tail(s) ELSE s
-----------------------------------------------------------------------------
(* chatRoom and personInRoom::onMessage *)

\* onMessage, called with each message of ms in turn, on every q in Q.
OnMessage(Q, ms) ==
  /\ wq' = [q \in Person |-> IF q \in Q THEN wq[q] \o ms ELSE wq[q]]
  /\ writing' = [q \in Person |->
                   IF q \in Q /\ wq[q] = <<>> /\ ms # <<>>
                   THEN writing[q] + 1 ELSE writing[q]]

Enter(p, name) ==
  /\ participants' = participants \cup {p}
  /\ names' = [names EXCEPT ![p] = name]
  /\ OnMessage({p}, recent)
  /\ base' = [base EXCEPT ![p] = Len(log) - Len(recent)]
  /\ UNCHANGED <<recent, log>>

Leave(p) ==
  /\ participants' = participants \ {p}
  /\ names' = [names EXCEPT ![p] = NoEntry]
  /\ UNCHANGED recent

\* getNickname: operator[] of the map makes an empty entry for a missing key.
GetNickname(p) == IF names[p] = NoEntry THEN NoName ELSE names[p]

Trim(s) == IF Len(s) > MaxRecent
           THEN SubSeq(s, Len(s) - MaxRecent + 1, Len(s)) ELSE s

\* A wrong variant of Broadcast: the sender does not get its own message.
BroadcastToOthers(p, body) ==
  LET m == [from |-> p, nick |-> GetNickname(p), body |-> body]
  IN /\ names' = [names EXCEPT ![p] = GetNickname(p)]
     /\ recent' = Trim(Append(recent, m))
     /\ OnMessage(participants \ {p}, <<m>>)
     /\ log' = Append(log, m)
     /\ UNCHANGED <<participants, base>>

Broadcast(p, body) ==
  LET m == [from |-> p, nick |-> GetNickname(p), body |-> body]
  IN /\ names' = [names EXCEPT ![p] = GetNickname(p)]
     /\ recent' = Trim(Append(recent, m))
     /\ OnMessage(participants, <<m>>)
     /\ log' = Append(log, m)
     /\ UNCHANGED <<participants, base>>
-----------------------------------------------------------------------------
(* Completion handlers *)

\* server::onAccept, then run(): the next person, if the bound leaves one,
\* is made and awaits a connection.
OnAccept(p, ok) ==
  /\ phase[p] = "accepting"
  /\ LET next == [phase EXCEPT ![p] = IF ok THEN "nick" ELSE "void"]
         fresh == {q \in Person : phase[q] = "unborn"}
     IN IF fresh = {} THEN phase' = next
        ELSE \E q \in fresh : phase' = [next EXCEPT ![q] = "accepting"]
  /\ UNCHANGED <<participants, names, recent, wq, writing, net, nread,
                 log, base, sent>>

\* nicknameHandler ignores the error code: a connection that died before its
\* nickname arrived enters the room under whatever nickname_ holds.
NicknameHandler(p, ok) ==
  /\ phase[p] = "nick"
  /\ IF ok THEN hello[p] # NoName ELSE hello[p] = NoName /\ link[p] = "down"
  /\ \E name \in IF ok THEN {hello[p]} ELSE {Junk} \cup Nickname :
       Enter(p, name)
  /\ phase' = [phase EXCEPT ![p] = "msg"]
  /\ UNCHANGED <<net, nread, sent>>

ReadHandler(p, ok) ==
  /\ phase[p] = "msg"
  /\ \/ /\ ok
        /\ nread[p] < said[p]
        /\ nread' = [nread EXCEPT ![p] = @ + 1]
        /\ Broadcast(p, nread[p] + 1)
        /\ UNCHANGED phase
     \/ /\ ~ok
        /\ nread[p] = said[p] /\ link[p] = "down"
        /\ Leave(p)
        /\ phase' = [phase EXCEPT ![p] = "over"]
        /\ UNCHANGED <<wq, writing, nread, log, base>>
  /\ UNCHANGED <<net, sent>>

WriteHandler(p, ok) ==
  /\ writing[p] > 0
  /\ \/ /\ ok
        /\ wq' = [wq EXCEPT ![p] = Tail(@)]
        /\ writing' = [writing EXCEPT ![p] = IF Tail(wq[p]) # <<>>
                                             THEN @ ELSE @ - 1]
        /\ sent' = [sent EXCEPT ![p] = Append(@, Head(wq[p]))]
        /\ UNCHANGED room
     \/ /\ ~ok
        /\ link[p] = "down"
        /\ writing' = [writing EXCEPT ![p] = @ - 1]
        /\ Leave(p)
        /\ UNCHANGED <<wq, sent>>
  /\ UNCHANGED <<phase, net, nread, log, base>>
-----------------------------------------------------------------------------
(* The clients and the network *)

Connected(p) == phase[p] \in {"nick", "msg"} /\ link[p] = "up"

ClientHello(p) ==
  /\ Connected(p) /\ hello[p] = NoName
  /\ \E n \in Nickname : hello' = [hello EXCEPT ![p] = n]
  /\ UNCHANGED <<phase, room, wq, writing, link, said, nread, log, base, sent>>

ClientSay(p) ==
  /\ Connected(p) /\ hello[p] # NoName /\ said[p] < MaxSay
  /\ said' = [said EXCEPT ![p] = @ + 1]
  /\ UNCHANGED <<phase, room, wq, writing, link, hello, nread, log, base, sent>>

\* The client closes or dies, and TCP tells the server.  The frames in flight
\* that still arrive are a prefix of those sent; after them reads fail.  Writes
\* may fail from now on.  (A peer that vanishes silently stays "up".)
Drop(p) ==
  /\ Connected(p)
  /\ link' = [link EXCEPT ![p] = "down"]
  /\ \E k \in nread[p] .. said[p] : said' = [said EXCEPT ![p] = k]
  /\ \/ UNCHANGED hello
     \/ /\ phase[p] = "nick" /\ said'[p] = 0
        /\ hello' = [hello EXCEPT ![p] = NoName]
  /\ UNCHANGED <<phase, room, wq, writing, nread, log, base, sent>>

Next == \E p \in Person :
          \/ \E ok \in BOOLEAN : OnAccept(p, ok) \/ NicknameHandler(p, ok)
                                 \/ ReadHandler(p, ok) \/ WriteHandler(p, ok)
          \/ ClientHello(p) \/ ClientSay(p) \/ Drop(p)

Spec == Init /\ [][Next]_vars

\* The worker thread runs every completed handler; asio completes every read
\* that has a frame or a dead peer, and every write, because a client that is
\* alive keeps reading (chat_client.cpp always has an async_read outstanding).
FairSpec == /\ Spec
            /\ \A p \in Person :
                 /\ WF_vars(\E ok \in BOOLEAN : NicknameHandler(p, ok))
                 /\ WF_vars(\E ok \in BOOLEAN : ReadHandler(p, ok))
                 /\ WF_vars(\E ok \in BOOLEAN : WriteHandler(p, ok))
-----------------------------------------------------------------------------
(* Properties *)

\* onMessage and writeHandler (lines 134-142, 173-185) share the duty of
\* keeping one async_write going: never two on a socket, which asio forbids,
\* and always one while a participant has messages queued.
WriteDiscipline ==
  \A p \in Person : /\ writing[p] \in {0, 1}
                    /\ writing[p] = 1 => wq[p] # <<>>
                    /\ p \in participants /\ wq[p] # <<>> => writing[p] = 1

\* What was written to p and what is queued for p is a slice of the log with no
\* gap and no repetition, from its starting point, and for a participant it
\* goes up to the last broadcast (enter, broadcast, lines 75-105).
NoGap ==
  \A p \in Person :
    LET n == base[p] + Len(sent[p] \o wq[p])
    IN /\ sent[p] \o wq[p] = SubSeq(log, base[p] + 1, n)
       /\ p \in participants => n = Len(log)

\* Whoever the room still knows, as a participant or by an entry that
\* getNickname made again after leave, has a read outstanding, so that its
\* disconnection will be noticed and the entry removed (lines 161-171).
StillRead ==
  \A p \in Person : /\ p \in participants => names[p] # NoEntry
                    /\ names[p] # NoEntry => phase[p] = "msg"

\* A message is broadcast under the nickname its sender sent.  The exception is
\* an empty one, and then the sender had been removed by a failed write while
\* frames of it were still unread (broadcast, getNickname, lines 87-108).
HonestNames ==
  \A i \in DOMAIN log :
    \/ log[i].nick = hello[log[i].from]
    \/ /\ log[i].nick = NoName
       /\ log[i].from \notin participants /\ link[log[i].from] = "down"

\* recent_msgs_ is the newest end of the log (lines 97-100).
RecentIsWindow ==
  LET k == IF Len(log) > MaxRecent THEN MaxRecent ELSE Len(log)
  IN recent = SubSeq(log, Len(log) - k + 1, Len(log))

\* Nothing refers to the object any more: it is destroyed, its socket closed.
Released(p) == /\ phase[p] = "over" /\ writing[p] = 0
               /\ p \notin participants /\ names[p] = NoEntry

\* A dead connection is eventually removed everywhere, for good, whichever of
\* its read and its write fails first and whatever was still unread.
Reaped == \A p \in Person :
            (phase[p] \in {"nick", "msg"} /\ link[p] = "down") ~> []Released(p)

\* A message broadcast while q is in the room is eventually written to q,
\* unless q's connection dies.
Delivered ==
  \A q \in Person : \A i \in 1 .. MaxSay :
    (q \in participants /\ Len(log) >= base[q] + i)
      ~> (Len(sent[q]) >= i \/ link[q] = "down")

\* The room keeps the promise of RoomLog.
Promise == INSTANCE RoomLog WITH
  limit <- [p \in Person |-> base[p] + Len(sent[p]) + Len(wq[p])],
  seen <- sent,
  place <- [p \in Person |-> IF p \in participants THEN "in"
                             ELSE IF phase[p] \in {"msg", "over"} THEN "left"
                             ELSE "out"]
KeepsPromise == Promise!Spec
=============================================================================
