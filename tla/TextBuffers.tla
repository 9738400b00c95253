---------------------------- MODULE TextBuffers ----------------------------
(***************************************************************************)
(* The char arrays that a nickname and a line go through, from the command *)
(* line of chat_client to the text that chat_server broadcasts.  A text is *)
(* its length: what matters is where its terminator is.                    *)
(*                                                                         *)
(* The client can type while its nickname is on the way; ChatClient has    *)
(* what that does to the stream, here the stream is in order.              *)
(***************************************************************************)
EXTENDS Naturals, Sequences

CONSTANTS MAX_IP_PACK_SIZE, MAX_NICKNAME, PADDING,
          KeyLen,   \* get_public_key's digits
          TimeLen,  \* getTimestamp's characters, 22
          Names,    \* lengths of argv[1]
          Lines,    \* lengths of the lines typed, sequences
          MaxTail,  \* bound: bytes of an uninitialized array before a zero
          MaxMsgs   \* bound: messages posted

\* main copies argv[1] into MAX_NICKNAME bytes.
ASSUME BuffersAssumption ==
  /\ {MAX_IP_PACK_SIZE, MAX_NICKNAME, PADDING, KeyLen, TimeLen, MaxTail, MaxMsgs}
       \subseteq Nat
  /\ MAX_NICKNAME > 2 /\ TimeLen + 2 <= PADDING /\ KeyLen < MAX_NICKNAME
  /\ PADDING + MAX_NICKNAME < MAX_IP_PACK_SIZE /\ MaxTail <= MAX_IP_PACK_SIZE
  /\ Names \subseteq 0 .. MAX_NICKNAME - 1 /\ Lines \subseteq Seq(Nat)

VARIABLES name,     \* strlen(argv[1])
          sent,     \* strlen of the client's nickname_; none before its constructor
          behind,   \* how far a string in the server's nickname_ goes on behind its
                    \* end: read_msg_ is not initialized
          nickname, \* length of the string in name_table_; none before it entered
          spilled,  \* a byte was written behind one of the two nickname_
          typed,    \* the lines
          rest,     \* what getline has not taken of the first, and the others
          posted,   \* history: messages posted
          formatted \* lengths of what was broadcast

room == <<nickname, formatted>>
vars == <<name, sent, behind, spilled, typed, rest, posted, room>>

None == MAX_NICKNAME + MAX_IP_PACK_SIZE + 1
Limit == MAX_IP_PACK_SIZE - PADDING - MAX_NICKNAME - 1
Line == Len(typed) - Len(rest) + 1
Total == KeyLen + 1 + name
\* A message of the client, and the line that it is of.
Piece == [line : Nat, length : 0 .. Limit]

TypeOK == /\ name \in Names /\ typed \in Lines /\ rest \in Seq(Nat)
          /\ Len(rest) <= Len(typed)
          /\ sent \in 0 .. 2 * MAX_NICKNAME \cup {None} /\ behind \in 0 .. MaxTail
          /\ nickname \in Nat /\ spilled \in BOOLEAN
          /\ posted \in Seq(Piece)
          /\ Len(formatted) <= Len(posted) /\ formatted \in Seq(Nat)

Init == /\ name \in Names /\ sent = None /\ behind \in 0 .. MaxTail
        /\ nickname = None /\ spilled = FALSE
        /\ typed \in Lines /\ rest = typed /\ posted = <<>> /\ formatted = <<>>

\* client::client: the key, a blank and the nickname.
Construct == /\ sent = None /\ sent' = Total
             /\ spilled' = (Total + 1 > MAX_NICKNAME)
             /\ UNCHANGED <<name, behind, typed, rest, posted, room>>

\* strlen(nickname_.data()): without a zero in nickname_ it goes on behind it.
Received == IF sent < MAX_NICKNAME THEN sent ELSE MAX_NICKNAME + behind

\* Mutant: the limit on what gets two characters more is one more.
HandlerCutsLate ==
  /\ sent # None /\ nickname = None
  /\ nickname' = IF Received <= MAX_NICKNAME - 1 THEN Received + 2
                                                 ELSE MAX_NICKNAME + behind
  /\ spilled' = (spilled \/ (Received <= MAX_NICKNAME - 1
                               /\ Received + 3 > MAX_NICKNAME))
  /\ UNCHANGED <<name, sent, behind, typed, rest, posted, formatted>>

\* A nickname of MAX_NICKNAME - 2 gets its terminator behind nickname_; with a
\* longer one ": " is put over the terminator, if it has one.
NicknameHandler ==
  /\ sent # None /\ nickname = None
  /\ nickname' = IF Received <= MAX_NICKNAME - 2 THEN Received + 2
                                                 ELSE MAX_NICKNAME + behind
  /\ spilled' = (spilled \/ (Received <= MAX_NICKNAME - 2
                               /\ Received + 3 > MAX_NICKNAME))
  /\ UNCHANGED <<name, sent, behind, typed, rest, posted, formatted>>

\* Mutants: a piece that filled the array is given up, and the array is filled
\* without regard to what the server puts in front.
GetlineGivesUp ==
  /\ sent # None /\ Len(posted) < MaxMsgs /\ rest # <<>>
  /\ posted' = Append(posted, [line |-> Line, length |-> IF Head(rest) > Limit
                                                         THEN Limit ELSE Head(rest)])
  /\ rest' = Tail(rest)
  /\ UNCHANGED <<name, sent, behind, spilled, typed, room>>
GetlineFills ==
  /\ sent # None /\ Len(posted) < MaxMsgs /\ rest # <<>>
  /\ posted' = Append(posted, [line |-> Line, length |-> Head(rest)])
  /\ rest' = Tail(rest)
  /\ UNCHANGED <<name, sent, behind, spilled, typed, room>>

\* What does not fit stays for the next getline.
Getline ==
  /\ sent # None /\ Len(posted) < MaxMsgs /\ rest # <<>>
  /\ LET length == IF Head(rest) > Limit THEN Limit ELSE Head(rest)
     IN /\ posted' = Append(posted, [line |-> Line, length |-> length])
        /\ rest' = IF Head(rest) > Limit THEN [rest EXCEPT ![1] = @ - Limit]
                                         ELSE Tail(rest)
  /\ UNCHANGED <<name, sent, behind, spilled, typed, room>>

\* At the end of the input getline fails every time.
GetlineAtEnd ==
  /\ sent # None /\ Len(posted) < MaxMsgs /\ rest = <<>>
  /\ posted' = Append(posted, [line |-> Line, length |-> 0])
  /\ UNCHANGED <<name, sent, behind, spilled, typed, rest, room>>

\* broadcast, from readHandler.
Broadcast ==
  /\ nickname # None /\ Len(formatted) < Len(posted)
  /\ formatted' = Append(formatted, TimeLen + nickname
                                      + posted[Len(formatted) + 1].length)
  /\ UNCHANGED <<name, sent, behind, spilled, typed, rest, posted, nickname>>

Next == Construct \/ NicknameHandler \/ Getline \/ GetlineAtEnd \/ Broadcast

Spec == Init /\ [][Next]_vars
-----------------------------------------------------------------------------
(* Properties *)

Fits(n) == KeyLen + 1 + n <= MAX_NICKNAME - 2

\* The three constants leave room: with a nickname that fits, broadcast never
\* writes more than MAX_IP_PACK_SIZE bytes, however long the lines.
FormattedFits ==
  Fits(name) => \A i \in DOMAIN formatted : formatted[i] + 1 <= MAX_IP_PACK_SIZE

\* A byte behind nickname_ is written for exactly those nicknames that do not
\* leave three bytes free, by the server or by the client (which writes ones of
\* MAX_NICKNAME - 1 completely: those alone do no damage).
SpillsOnly ==
  nickname # None => (spilled <=> Total = MAX_NICKNAME - 2 \/ Total >= MAX_NICKNAME)

\* Whoever reads a message can tell the name from the text: the nickname is whole
\* and ends in ": ".
NameWhole == nickname # None /\ Fits(name) => nickname = Total + 2

\* The k-th line is posted: its pieces are one after another, with nothing
\* between them, all of them full but the last.
Whole(k) ==
  \E first \in DOMAIN posted : \E last \in first .. Len(posted) :
    /\ \A i \in DOMAIN posted : posted[i].line = k <=> i \in first .. last
    /\ \A i \in first .. last - 1 : posted[i].length = Limit
    /\ (last - first) * Limit + posted[last].length = typed[k]
    /\ typed[k] > 0 => posted[last].length > 0

\* A line of any length arrives, in pieces and, unless it is empty, without
\* empty ones.
LinesWhole == \A k \in 1 .. Line - 1 : Whole(k)
=============================================================================
