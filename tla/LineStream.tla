----------------------------- MODULE LineStream -----------------------------
(***************************************************************************)
(* Lines on their way from several chatClients through chatServer's        *)
(* threads to one other client.  A line is sent without its newline and    *)
(* TCP keeps no boundaries: recv returns what has come, up to the size of  *)
(* its buffer, and that is a message.  Nobody but TCP limits how many      *)
(* threads send on one socket at a time.                                   *)
(*                                                                         *)
(* A byte is <<c, k>>, the k-th that c's user typed, or <<c, 0>>, one of   *)
(* the prefix "ip:port> " that the server puts in front.                   *)
(***************************************************************************)
EXTENDS Naturals, Sequences, FiniteSetsExt

CONSTANTS Sender,
          Size,     \* getMessageSize
          Prefix,   \* length of "ip:port> "
          Room,     \* bytes that a direction of a connection holds
          MaxLine,  \* bound: length of a line
          MaxTyped  \* bound: bytes that a user types

ASSUME StreamAssumption == /\ {Size, Prefix, Room} \subseteq Nat \ {0}
                           /\ {MaxLine, MaxTyped} \subseteq Nat

VARIABLES bytes,   \* bytes typed by each sender's user
          line,    \* what the sender's send has left of the line
          begun,   \* some of the line was sent
          up,      \* on the way to the server
          relayed, \* what the sendMessage of the sender's thread has left
          down,    \* on the way to the receiver
          shown,   \* what the receiver's showMessage has printed
          \* history
          lost,    \* bytes of a line whose send was interrupted
          full     \* a message did not fit into the connection

sending == <<bytes, line, begun, lost>>
streamVars == <<sending, up, relayed, down, shown, full>>

Byte == Sender \X (0 .. MaxTyped)
Bytes(c, from, to) == [i \in 1 .. to - from + 1 |-> <<c, from + i - 1>>]

StreamTypeOK ==
  /\ bytes \in [Sender -> 0 .. MaxTyped]
  /\ line \in [Sender -> Seq(Byte)] /\ begun \in [Sender -> BOOLEAN]
  /\ up \in [Sender -> Seq(Byte)] /\ relayed \in [Sender -> Seq(Byte)]
  /\ \A c \in Sender : Len(up[c]) <= Room /\ Len(relayed[c]) <= Prefix + Size
  /\ down \in Seq(Byte) /\ Len(down) <= Room
  /\ shown \in Seq(Byte)
  /\ lost \subseteq Byte /\ full \in BOOLEAN

StreamInit ==
  /\ bytes = [c \in Sender |-> 0] /\ begun = [c \in Sender |-> FALSE]
  /\ line = [c \in Sender |-> <<>>] /\ up = [c \in Sender |-> <<>>]
  /\ relayed = [c \in Sender |-> <<>>]
  /\ down = <<>> /\ shown = <<>>
  /\ lost = {} /\ full = FALSE

\* The first n of s, and the others.
First(s, n) == SubSeq(s, 1, n)
After(s, n) == SubSeq(s, n + 1, Len(s))
-----------------------------------------------------------------------------
(* The sending client *)

\* getline and send.
Type(c) ==
  /\ line[c] = <<>>
  /\ \E n \in 1 .. MaxLine :
       /\ bytes[c] + n <= MaxTyped
       /\ bytes' = [bytes EXCEPT ![c] = @ + n]
       /\ line' = [line EXCEPT ![c] = Bytes(c, bytes[c] + 1, bytes[c] + n)]
  /\ begun' = [begun EXCEPT ![c] = FALSE]
  /\ UNCHANGED <<up, relayed, down, shown, lost, full>>

SendLine(c) ==
  LET n == Min({Len(line[c]), Room - Len(up[c])})
  IN /\ n > 0
     /\ up' = [up EXCEPT ![c] = @ \o First(line[c], n)]
     /\ line' = [line EXCEPT ![c] = After(@, n)]
     /\ begun' = [begun EXCEPT ![c] = TRUE]
     /\ UNCHANGED <<bytes, relayed, down, shown, lost, full>>

\* SIGINT, answered with N, while send waits for room: it returns if it has sent
\* something, nobody looks at how much, and otherwise it is restarted.
InterruptSend(c) ==
  /\ line[c] # <<>> /\ begun[c] /\ Len(up[c]) = Room
  /\ lost' = lost \cup {line[c][i] : i \in DOMAIN line[c]}
  /\ line' = [line EXCEPT ![c] = <<>>]
  /\ UNCHANGED <<bytes, begun, up, relayed, down, shown, full>>
-----------------------------------------------------------------------------
(* The server's thread of a sender *)

\* Mutant: the terminator is put over the last byte.
TextShort(c, n) == First(up[c], n - 1)

\* The text that recv left in message_buffer, with its terminator behind it.
Text(c, n) == First(up[c], n)

\* Mutant: recv waits for a buffer full.
RecvFull(c) ==
  /\ relayed[c] = <<>> /\ Len(up[c]) >= Size
  /\ relayed' = [relayed EXCEPT ![c] =
                   [i \in 1 .. Prefix |-> <<c, 0>>] \o Text(c, Size)]
  /\ up' = [up EXCEPT ![c] = After(@, Size)]
  /\ UNCHANGED <<sending, down, shown, full>>

Recv(c) ==
  /\ relayed[c] = <<>>
  /\ \E n \in 1 .. Min({Size, Len(up[c])}) :
       /\ relayed' = [relayed EXCEPT ![c] =
                        [i \in 1 .. Prefix |-> <<c, 0>>] \o Text(c, n)]
       /\ up' = [up EXCEPT ![c] = After(@, n)]
  /\ UNCHANGED <<sending, down, shown, full>>

\* What a send puts into the connection before it waits for more room, during
\* which others may send.
Chunk(s) == Min({Len(s), Room - Len(down)})

\* sendMessage, in sendMessageAll.
SendMessage(c) ==
  LET n == Chunk(relayed[c])
  IN /\ n > 0
     /\ down' = down \o First(relayed[c], n)
     /\ relayed' = [relayed EXCEPT ![c] = After(@, n)]
     /\ full' = (full \/ Len(relayed[c]) > Room - Len(down))
     /\ UNCHANGED <<sending, up, shown>>
-----------------------------------------------------------------------------
(* The receiving client's thread *)

Show ==
  /\ \E n \in 1 .. Min({Size, Len(down)}) :
       /\ shown' = shown \o First(down, n)
       /\ down' = After(down, n)
  /\ UNCHANGED <<sending, up, relayed, full>>

StreamNext ==
  \/ \E c \in Sender : \/ Type(c) \/ SendLine(c) \/ InterruptSend(c)
                       \/ Recv(c) \/ SendMessage(c)
  \/ Show

StreamSpec == StreamInit /\ [][StreamNext]_streamVars

\* All threads go on; users type or not.
FairStream ==
  /\ StreamSpec
  /\ \A c \in Sender :
       /\ WF_streamVars(SendLine(c)) /\ WF_streamVars(Recv(c))
       /\ SF_streamVars(SendMessage(c))
  /\ WF_streamVars(Show)
-----------------------------------------------------------------------------
(* Properties *)

Arriving == shown \o down

\* What the user of c typed, as far as it is in s, and that it is in order there.
TextOf(c, s) == {s[i] : i \in DOMAIN s} \cap ({c} \X (1 .. MaxTyped))
InOrder(c, s) ==
  \A i, j \in DOMAIN s :
    i < j /\ {s[i], s[j]} \subseteq TextOf(c, s) => s[i][2] < s[j][2]

\* However lines are cut, joined and mixed with others', what a user typed is
\* on its way or shown, each byte once and in order, but for what an interrupted
\* send has dropped.
Kept == \A c \in Sender :
  LET s == Arriving \o relayed[c] \o up[c] \o line[c]
  IN /\ TextOf(c, s) = ({c} \X (1 .. bytes[c])) \ lost
     /\ InOrder(c, s)

\* Text can be told by the prefix before it, as long as every message fitted into
\* the connection: sends of two threads mix only when one has to wait.
Attributed ==
  ~full => \A i \in DOMAIN Arriving :
    Arriving[i][2] # 0 =>
      \E j \in 1 .. i - 1 : /\ Arriving[j] = <<Arriving[i][1], 0>>
                            /\ \A k \in j .. i : Arriving[k][1] = Arriving[i][1]

\* All of the text, in order and each piece of it under its sender's prefix.
StreamRight == StreamTypeOK /\ Kept /\ Attributed

\* Everything typed is shown in the end, unless its send was interrupted.  (Users
\* type MaxTyped bytes at most, so that there is an end.)
AllShown == \A c \in Sender :
  <>[](\A k \in 1 .. bytes[c] : \/ \E i \in DOMAIN shown : shown[i] = <<c, k>>
                               \/ <<c, k>> \in lost)
=============================================================================
