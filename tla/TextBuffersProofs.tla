------------------------- MODULE TextBuffersProofs -------------------------
(* What holds of the buffers for every choice of their sizes. *)
EXTENDS TextBuffers, SequenceTheorems, TLAPS

\* The strengthening: what the two nickname_ hold follows from argv[1] alone,
\* and every broadcast is one nickname and one message long.
IInv ==
  /\ TypeOK
  /\ sent \in {None, Total}
  /\ nickname # None =>
       /\ sent = Total
       /\ nickname = IF Received <= MAX_NICKNAME - 2 THEN Received + 2
                                                    ELSE MAX_NICKNAME + behind
  /\ sent = None => nickname = None /\ ~spilled
  /\ sent # None /\ nickname = None => (spilled <=> Total + 1 > MAX_NICKNAME)
  /\ nickname # None => (spilled <=> Total + 1 > MAX_NICKNAME
                                       \/ (Received <= MAX_NICKNAME - 2
                                             /\ Received + 3 > MAX_NICKNAME))
  /\ nickname = None => formatted = <<>>
  /\ \A i \in DOMAIN formatted : formatted[i] <= TimeLen + nickname + Limit

\* The lengths are numbers, and None is none of them.
LEMMA Lengths ==
  ASSUME TypeOK
  PROVE  /\ name \in Nat /\ name < MAX_NICKNAME /\ behind \in Nat /\ behind <= MAX_IP_PACK_SIZE
         /\ MAX_NICKNAME \in Nat /\ MAX_IP_PACK_SIZE \in Nat /\ PADDING \in Nat
         /\ KeyLen \in Nat /\ TimeLen \in Nat /\ MaxTail \in Nat
         /\ KeyLen < MAX_NICKNAME /\ TimeLen + 2 <= PADDING /\ MAX_NICKNAME > 2
         /\ Limit \in Nat /\ None \in Nat /\ Total \in Nat /\ Total # None
         /\ Limit = MAX_IP_PACK_SIZE - PADDING - MAX_NICKNAME - 1
         /\ Total \in 0 .. 2 * MAX_NICKNAME
  <1>1. /\ MAX_NICKNAME \in Nat /\ MAX_IP_PACK_SIZE \in Nat /\ PADDING \in Nat
        /\ KeyLen \in Nat /\ TimeLen \in Nat /\ MaxTail \in Nat
        /\ KeyLen < MAX_NICKNAME /\ TimeLen + 2 <= PADDING /\ MAX_NICKNAME > 2
        /\ PADDING + MAX_NICKNAME < MAX_IP_PACK_SIZE /\ MaxTail <= MAX_IP_PACK_SIZE
    BY BuffersAssumption
  <1>2. name \in Nat /\ name < MAX_NICKNAME
    BY <1>1, BuffersAssumption DEF TypeOK
  <1>3. behind \in Nat /\ behind <= MAX_IP_PACK_SIZE
    BY <1>1 DEF TypeOK
  <1>4. Limit \in Nat
    BY <1>1 DEF Limit
  <1>5. None \in Nat /\ Total \in Nat
    BY <1>1, <1>2 DEF None, Total
  <1>6. Total # None
    BY <1>1, <1>2 DEF None, Total
  <1>7. Total \in 0 .. 2 * MAX_NICKNAME
    BY <1>1, <1>2 DEF Total
  <1> QED
    BY <1>1, <1>2, <1>3, <1>4, <1>5, <1>6, <1>7 DEF Limit

\* The lists of lines and what is known of them.
LEMMA Lists ==
  ASSUME TypeOK
  PROVE  /\ Line \in Nat /\ Len(posted) \in Nat /\ Len(formatted) \in Nat
         /\ rest # <<>> => Head(rest) \in Nat /\ Tail(rest) \in Seq(Nat)
                             /\ Len(Tail(rest)) <= Len(rest) /\ rest[1] = Head(rest)
  <1>1. typed \in Seq(Nat)
    BY BuffersAssumption DEF TypeOK
  <1>2. Len(typed) \in Nat /\ Len(rest) \in Nat /\ Len(rest) <= Len(typed)
    BY <1>1 DEF TypeOK
  <1>3. Line \in Nat
    BY <1>2 DEF Line
  <1>4. Len(posted) \in Nat /\ Len(formatted) \in Nat
    BY DEF TypeOK
  <1>5. rest \in Seq(Nat)
    BY DEF TypeOK
  <1> QED
    BY <1>3, <1>4, <1>5

\* TypeOK survives the steps of getline: what it leaves alone keeps its type.
LEMMA PostTyped ==
  ASSUME TypeOK, posted' \in Seq(Piece), Len(posted') = Len(posted) + 1,
         rest' \in Seq(Nat), Len(rest') <= Len(rest),
         UNCHANGED <<name, sent, behind, spilled, typed, nickname, formatted>>
  PROVE  TypeOK'
  <1>1. Len(formatted) <= Len(posted')
    BY Lists DEF TypeOK
  <1>2. Len(rest') <= Len(typed)
    <2>1. typed \in Seq(Nat)
      BY BuffersAssumption DEF TypeOK
    <2> QED
      BY <2>1 DEF TypeOK
  <1> QED
    BY <1>1, <1>2 DEF TypeOK

LEMMA Cut ==
  ASSUME NEW a \in Nat, NEW b \in Nat
  PROVE  /\ (IF a > b THEN b ELSE a) \in 0 .. b
         /\ a > b => a - b \in Nat
  OBVIOUS

LEMMA Initially == Init => IInv
  <1> SUFFICES ASSUME Init PROVE IInv
    OBVIOUS
  <1>1. None \in Nat
    BY BuffersAssumption DEF None
  <1>2. rest \in Seq(Nat) /\ Len(rest) <= Len(typed)
    BY BuffersAssumption DEF Init
  <1>3. posted \in Seq(Piece) /\ formatted \in Seq(Nat) /\ Len(formatted) <= Len(posted)
    BY DEF Init
  <1>4. TypeOK
    BY <1>1, <1>2, <1>3 DEF Init, TypeOK
  <1> QED
    BY <1>4 DEF Init, IInv

LEMMA Stepwise == IInv /\ [Next]_vars => IInv'
  <1> SUFFICES ASSUME IInv, [Next]_vars PROVE IInv'
    OBVIOUS
  <1>0. TypeOK
    BY DEF IInv
  <1>1. CASE Construct
    <2>1. TypeOK'
      BY <1>0, <1>1, Lengths DEF Construct, TypeOK, room
    <2> QED
      BY <1>0, <1>1, <2>1, Lengths DEF Construct, IInv, room, Total, Limit, Received
  <1>2. CASE NicknameHandler
    <2>1. sent = Total
      BY <1>2 DEF NicknameHandler, IInv
    <2>2. Received \in Nat /\ Received <= MAX_NICKNAME + behind
      BY <1>0, <2>1, Lengths DEF Received
    <2>3. nickname' \in Nat /\ nickname' <= MAX_NICKNAME + behind
      BY <1>0, <1>2, <2>2, Lengths DEF NicknameHandler
    <2>4. nickname' # None
      BY <1>0, <2>3, Lengths DEF None
    <2>5. TypeOK'
      BY <1>0, <1>2, <2>3 DEF NicknameHandler, TypeOK
    <2>6. formatted' = <<>>
      BY <1>2 DEF NicknameHandler, IInv
    <2>7. DOMAIN formatted' = {}
      BY <2>6
    <2>8. Total' = Total /\ Received' = Received /\ sent' = Total
      BY <1>2, <2>1 DEF NicknameHandler, Total, Received
    <2>9. spilled <=> Total + 1 > MAX_NICKNAME
      BY <1>2 DEF NicknameHandler, IInv
    <2> QED
      BY <1>0, <1>2, <2>4, <2>5, <2>6, <2>7, <2>8, <2>9, Lengths
      DEF NicknameHandler, IInv
  <1>3. CASE Getline
    <2> DEFINE length == IF Head(rest) > Limit THEN Limit ELSE Head(rest)
               piece == [line |-> Line, length |-> length]
    <2>1. Head(rest) \in Nat /\ Tail(rest) \in Seq(Nat) /\ Len(Tail(rest)) <= Len(rest)
          /\ rest[1] = Head(rest) /\ rest \in Seq(Nat) /\ rest # <<>>
      BY <1>0, <1>3, Lists DEF Getline, TypeOK
    <2>2. length \in 0 .. Limit
      <3>1. Head(rest) \in Nat /\ Limit \in Nat
        BY <1>0, <2>1, Lengths
      <3> QED
        BY <3>1, Cut
    <2>3. piece \in Piece
      BY <1>0, <2>2, Lists DEF Piece
    <2>4. posted' = Append(posted, piece)
      BY <1>3 DEF Getline
    <2> HIDE DEF piece
    <2>5. posted' \in Seq(Piece) /\ Len(posted') = Len(posted) + 1
      BY <1>0, <2>3, <2>4 DEF TypeOK
    <2>6. rest' \in Seq(Nat) /\ Len(rest') <= Len(rest)
      <3>1. CASE Head(rest) > Limit
        <4>1. Head(rest) - Limit \in Nat
          <5>1. Head(rest) \in Nat /\ Limit \in Nat
            BY <1>0, <2>1, Lengths
          <5> QED
            BY <3>1, <5>1, Cut
        <4>2. rest' = [rest EXCEPT ![1] = rest[1] - Limit]
          BY <1>3, <3>1 DEF Getline
        <4> QED
          BY <2>1, <4>1, <4>2
      <3>2. CASE ~(Head(rest) > Limit)
        BY <1>3, <2>1, <3>2 DEF Getline
      <3> QED
        BY <3>1, <3>2
    <2>7. UNCHANGED <<name, sent, behind, spilled, typed, nickname, formatted>>
      BY <1>3 DEF Getline, room
    <2>8. TypeOK'
      BY <1>0, <2>5, <2>6, <2>7, PostTyped
    <2> QED
      BY <2>7, <2>8 DEF IInv, Total, Received
  <1>4. CASE GetlineAtEnd
    <2> DEFINE piece == [line |-> Line, length |-> 0]
    <2>1. piece \in Piece
      BY <1>0, Lists, Lengths DEF Piece
    <2>2. posted' = Append(posted, piece)
      BY <1>4 DEF GetlineAtEnd
    <2> HIDE DEF piece
    <2>3. posted' \in Seq(Piece) /\ Len(posted') = Len(posted) + 1
      BY <1>0, <2>1, <2>2 DEF TypeOK
    <2>4. UNCHANGED <<name, sent, behind, spilled, typed, nickname, formatted>>
      BY <1>4 DEF GetlineAtEnd, room
    <2>5. rest' \in Seq(Nat) /\ Len(rest') <= Len(rest)
      BY <1>0, <1>4 DEF GetlineAtEnd, TypeOK
    <2>6. TypeOK'
      BY <1>0, <2>3, <2>4, <2>5, PostTyped
    <2> QED
      BY <2>4, <2>6 DEF IInv, Total, Received
  <1>5. CASE Broadcast
    <2> DEFINE length == posted[Len(formatted) + 1].length
               text == TimeLen + nickname + length
    <2>1. length \in 0 .. Limit
      <3>1. posted[Len(formatted) + 1] \in Piece
        BY <1>0, <1>5, Lists DEF Broadcast, TypeOK
      <3> QED
        BY <3>1 DEF Piece
    <2>2. formatted' = Append(formatted, text)
      BY <1>5 DEF Broadcast
    <2> HIDE DEF length
    <2>3. nickname \in Nat
      BY <1>0 DEF TypeOK
    <2>4. text \in Nat /\ text <= TimeLen + nickname + Limit
      BY <1>0, <2>1, <2>3, Lengths
    <2> HIDE DEF text
    <2>5. formatted \in Seq(Nat)
      BY <1>0 DEF TypeOK
    <2>6. formatted' \in Seq(Nat) /\ Len(formatted') = Len(formatted) + 1
      BY <2>2, <2>4, <2>5
    <2>7. UNCHANGED <<name, sent, behind, spilled, typed, rest, posted, nickname>>
      BY <1>5 DEF Broadcast
    <2>8. Len(formatted') <= Len(posted')
      BY <1>0, <1>5, <2>6, <2>7, Lists DEF Broadcast
    <2>9. TypeOK'
      BY <1>0, <2>6, <2>7, <2>8 DEF TypeOK
    <2>10. \A i \in DOMAIN formatted' : formatted'[i] <= TimeLen + nickname + Limit
      <3> SUFFICES ASSUME NEW i \in DOMAIN formatted'
                   PROVE formatted'[i] <= TimeLen + nickname + Limit
        OBVIOUS
      <3>1. CASE i \in DOMAIN formatted
        <4>1. formatted'[i] = formatted[i]
          BY <2>2, <2>5, <3>1
        <4> QED
          BY <3>1, <4>1 DEF IInv
      <3>2. CASE i \notin DOMAIN formatted
        <4>1. formatted'[i] = text
          BY <2>2, <2>5, <2>6, <3>2
        <4> QED
          BY <2>4, <4>1
      <3> QED
        BY <3>1, <3>2
    <2>11. nickname # None
      BY <1>5 DEF Broadcast
    <2> QED
      BY <2>7, <2>9, <2>10, <2>11 DEF IInv, Total, Received
  <1>6. CASE UNCHANGED vars
    BY <1>6 DEF IInv, TypeOK, vars, room, Total, Received, Limit
  <1> QED
    BY <1>1, <1>2, <1>3, <1>4, <1>5, <1>6 DEF Next

LEMMA Always == Spec => []IInv
  BY Initially, Stepwise, PTL DEF Spec

\* Lengths stay within what the arrays and the room can hold.
THEOREM TypeCorrect == Spec => []TypeOK
  <1>1. IInv => TypeOK
    BY DEF IInv
  <1> QED
    BY Always, <1>1, PTL

\* Whatever the sizes, as long as PADDING has room for the time and ": ": broadcast
\* stays within MAX_IP_PACK_SIZE for nicknames that fit.
THEOREM BroadcastFits == Spec => []FormattedFits
  <1>1. IInv => FormattedFits
    <2> SUFFICES ASSUME IInv, Fits(name), NEW i \in DOMAIN formatted
                 PROVE formatted[i] + 1 <= MAX_IP_PACK_SIZE
      BY DEF FormattedFits
    <2>1. TypeOK /\ nickname # None
      BY DEF IInv
    <2>2. Total <= MAX_NICKNAME - 2 /\ sent = Total
      BY <2>1 DEF IInv, Fits, Total
    <2>3. Received = Total
      BY <2>1, <2>2, Lengths DEF Received
    <2>4. nickname <= MAX_NICKNAME /\ nickname \in Nat
      BY <2>1, <2>2, <2>3, Lengths DEF IInv, TypeOK
    <2>5. formatted[i] <= TimeLen + nickname + Limit /\ formatted[i] \in Nat
      BY <2>1 DEF IInv, TypeOK
    <2> QED
      BY <2>1, <2>4, <2>5, Lengths
  <1> QED
    BY Always, <1>1, PTL

\* Whatever the sizes: exactly the nicknames that leave less than three bytes free
\* are written beyond the end, but for those that the handler cuts.
THEOREM SpillsExactly == Spec => []SpillsOnly
  <1>1. IInv => SpillsOnly
    <2> SUFFICES ASSUME IInv, nickname # None
                 PROVE spilled <=> Total = MAX_NICKNAME - 2 \/ Total >= MAX_NICKNAME
      BY DEF SpillsOnly
    <2>1. TypeOK /\ sent = Total
      BY DEF IInv
    <2>2. spilled <=> Total + 1 > MAX_NICKNAME
                        \/ (Received <= MAX_NICKNAME - 2 /\ Received + 3 > MAX_NICKNAME)
      BY DEF IInv
    <2>3. Received = IF Total < MAX_NICKNAME THEN Total ELSE MAX_NICKNAME + behind
      BY <2>1 DEF Received
    <2> QED
      BY <2>1, <2>2, <2>3, Lengths
  <1> QED
    BY Always, <1>1, PTL

\* Whatever the sizes: a nickname that fits is whole and ends in ": ".
THEOREM NamesWhole == Spec => []NameWhole
  <1>1. IInv => NameWhole
    <2> SUFFICES ASSUME IInv, nickname # None, Fits(name) PROVE nickname = Total + 2
      BY DEF NameWhole
    <2>1. TypeOK /\ sent = Total /\ Total <= MAX_NICKNAME - 2
      BY DEF IInv, Fits, Total
    <2>2. Received = Total
      BY <2>1, Lengths DEF Received
    <2> QED
      BY <2>1, <2>2, Lengths DEF IInv
  <1> QED
    BY Always, <1>1, PTL
-----------------------------------------------------------------------------
(* The pieces of the lines *)

\* The pieces posted from first on are those of the line that is being taken:
\* full ones, and with what is left of it they are the line.
Pieces(first) ==
  /\ \A i \in DOMAIN posted : posted[i].line = Line <=> i >= first
  /\ \A i \in DOMAIN posted : i >= first => posted[i].length = Limit
  /\ (Len(posted) + 1 - first) * Limit + Head(rest) = typed[Line]
  /\ first <= Len(posted) => Head(rest) > 0

\* LinesWhole is not inductive: the strengthening says of the lines not yet
\* complete what has been posted of them.
LinesInv ==
  /\ \A j \in 2 .. Len(rest) : rest[j] = typed[Line - 1 + j]
  /\ \A i \in DOMAIN posted : posted[i].line <= Line
  /\ rest # <<>> => \E first \in 1 .. Len(posted) + 1 : Pieces(first)
  /\ LinesWhole

\* A piece of another line behind the n there are.
LEMMA OneBehind ==
  ASSUME NEW n \in Nat, NEW p, NEW q, NEW k,
         NEW first \in 1 .. n, NEW last \in first .. n,
         \A i \in 1 .. n : q[i] = p[i],
         \A i \in 1 .. n : p[i].line = k <=> i \in first .. last,
         q[n + 1].line # k
  PROVE  \A i \in 1 .. n + 1 : q[i].line = k <=> i \in first .. last
  <1> SUFFICES ASSUME NEW i \in 1 .. n + 1
               PROVE  q[i].line = k <=> i \in first .. last
    OBVIOUS
  <1>1. CASE i \in 1 .. n
    <2>1. q[i] = p[i]
      BY <1>1
    <2> QED
      BY <1>1, <2>1
  <1>2. CASE i = n + 1
    <2>1. ~(i \in first .. last)
      BY <1>2
    <2> QED
      BY <1>2, <2>1
  <1> QED
    BY <1>1, <1>2

\* Two lines are different numbers.
LEMMA LineOver ==
  ASSUME NEW a \in Nat, NEW b \in Nat, a <= b
  PROVE  a # b + 1
  OBVIOUS

\* One more message, of the line that is being taken, leaves the others' pieces
\* as they were.
LEMMA OldLines ==
  ASSUME TypeOK, LinesInv, NEW m \in Piece, m.line = Line,
         posted' = Append(posted, m), UNCHANGED typed,
         NEW k \in 1 .. Line - 1
  PROVE  Whole(k)'
  <1> DEFINE n == Len(posted)
  <1>1. /\ n \in Nat /\ DOMAIN posted = 1 .. n /\ posted \in Seq(Piece)
        /\ DOMAIN posted' = 1 .. n + 1 /\ Len(posted') = n + 1
        /\ \A i \in 1 .. n : posted'[i] = posted[i]
        /\ posted'[n + 1] = m
    <2>1. posted \in Seq(Piece)
      BY DEF TypeOK
    <2> QED
      BY <2>1, AppendProperties, LenProperties
  <1> HIDE DEF n
  <1>2. PICK first \in 1 .. n : \E last \in first .. n :
           /\ \A i \in 1 .. n : posted[i].line = k <=> i \in first .. last
           /\ \A i \in first .. last - 1 : posted[i].length = Limit
           /\ (last - first) * Limit + posted[last].length = typed[k]
           /\ typed[k] > 0 => posted[last].length > 0
    BY <1>1 DEF LinesInv, LinesWhole, Whole, n
  <1>3. PICK last \in first .. n :
           /\ \A i \in 1 .. n : posted[i].line = k <=> i \in first .. last
           /\ \A i \in first .. last - 1 : posted[i].length = Limit
           /\ (last - first) * Limit + posted[last].length = typed[k]
           /\ typed[k] > 0 => posted[last].length > 0
    BY <1>2
  <1>4. /\ first \in DOMAIN posted' /\ last \in first .. Len(posted')
        /\ last \in 1 .. n /\ \A i \in first .. last - 1 : i \in 1 .. n
    BY <1>1
  <1>5. m.line # k
    BY Lists
  <1>6. \A i \in DOMAIN posted' : posted'[i].line = k <=> i \in first .. last
    <2>1. posted'[n + 1].line # k
      BY <1>1, <1>5
    <2>2. \A i \in 1 .. n + 1 : posted'[i].line = k <=> i \in first .. last
      BY <1>1, <1>3, <2>1, OneBehind
    <2> QED
      BY <1>1, <2>2
  <1>7. \A i \in first .. last - 1 : posted'[i].length = Limit
    BY <1>1, <1>3, <1>4
  <1>8. posted'[last] = posted[last]
    BY <1>1, <1>4
  <1> QED
    BY <1>3, <1>4, <1>6, <1>7, <1>8 DEF Whole

\* What Append and the lists' lengths come to in a step that posts m.
LEMMA Posting ==
  ASSUME TypeOK, NEW m \in Piece, posted' = Append(posted, m)
  PROVE  /\ Len(posted) \in Nat /\ DOMAIN posted = 1 .. Len(posted)
         /\ DOMAIN posted' = 1 .. Len(posted) + 1
         /\ Len(posted') = Len(posted) + 1
         /\ \A i \in 1 .. Len(posted) : posted'[i] = posted[i]
         /\ posted'[Len(posted) + 1] = m
         /\ \A i \in DOMAIN posted' : posted'[i].line \in Nat
  <1>1. posted \in Seq(Piece)
    BY DEF TypeOK
  <1>2. posted' \in Seq(Piece)
    BY <1>1, AppendProperties
  <1>3. \A i \in DOMAIN posted' : posted'[i] \in Piece
    BY <1>2, LenProperties
  <1>4. \A i \in DOMAIN posted' : posted'[i].line \in Nat
    BY <1>3 DEF Piece
  <1> QED
    BY <1>1, <1>4, AppendProperties, LenProperties

\* A piece that fills the array: the line goes on.
LEMMA FullPiece ==
  ASSUME TypeOK, LinesInv, rest # <<>>, Head(rest) > Limit,
         posted' = Append(posted, [line |-> Line, length |-> Limit]),
         rest' = [rest EXCEPT ![1] = @ - Limit], UNCHANGED typed
  PROVE  LinesInv'
  <1> DEFINE m == [line |-> Line, length |-> Limit]
             n == Len(posted)
  <1>0. m \in Piece /\ m.line = Line /\ m.length = Limit
    BY Lists, Lengths DEF Piece
  <1> HIDE DEF m
  <1>1. /\ n \in Nat /\ DOMAIN posted = 1 .. n /\ DOMAIN posted' = 1 .. n + 1
        /\ Len(posted') = n + 1 /\ \A i \in 1 .. n : posted'[i] = posted[i]
        /\ posted'[n + 1] = m
    BY <1>0, Posting DEF m
  <1> HIDE DEF n
  <1>2. /\ rest \in Seq(Nat) /\ rest[1] = Head(rest) /\ Head(rest) \in Nat
        /\ Limit \in Nat /\ Line \in Nat /\ Len(rest) \in Nat /\ Len(rest) # 0
    BY Lists, Lengths DEF TypeOK
  <1>3. /\ rest' \in Seq(Nat) /\ Len(rest') = Len(rest) /\ rest' # <<>>
        /\ Head(rest') = Head(rest) - Limit
        /\ \A j \in 2 .. Len(rest) : rest'[j] = rest[j]
    <2>1. 1 \in 1 .. Len(rest) /\ rest[1] - Limit \in Nat
      BY <1>2
    <2>2. /\ rest' \in Seq(Nat) /\ Len(rest') = Len(rest)
          /\ \A j \in 1 .. Len(rest) :
               rest'[j] = IF j = 1 THEN rest[1] - Limit ELSE rest[j]
      BY <1>2, <2>1, ExceptSeq
    <2>3. rest' # <<>>
      BY <1>2, <2>2
    <2>4. Head(rest') = rest'[1]
      BY <2>2, <2>3
    <2> QED
      BY <1>2, <2>1, <2>2, <2>3, <2>4
  <1>4. Line' = Line /\ Limit' = Limit
    BY <1>3 DEF Line, Limit
  <1>5. PICK first \in 1 .. n + 1 : Pieces(first)
    BY DEF LinesInv, n
  <1>6. Pieces(first)'
    <2>1. \A i \in DOMAIN posted' : posted'[i].line = Line <=> i >= first
      BY <1>0, <1>1, <1>5 DEF Pieces
    <2>2. \A i \in DOMAIN posted' : i >= first => posted'[i].length = Limit
      BY <1>0, <1>1, <1>5 DEF Pieces
    <2>3. (n + 1 + 1 - first) * Limit + (Head(rest) - Limit) = typed[Line]
      <3>1. (n + 1 - first) * Limit + Head(rest) = typed[Line]
        BY <1>5 DEF Pieces, n
      <3>2. (n + 1 + 1 - first) * Limit = (n + 1 - first) * Limit + Limit
        BY <1>1, <1>2
      <3>3. n + 1 - first \in Nat
        BY <1>1
      <3>4. (n + 1 - first) * Limit \in Nat
        BY <1>2, <3>3
      <3> QED
        BY <1>2, <3>1, <3>2, <3>4
    <2>4. Head(rest') > 0
      BY <1>2, <1>3
    <2> QED
      BY <1>1, <1>3, <1>4, <2>1, <2>2, <2>3, <2>4 DEF Pieces
  <1>7. first \in 1 .. Len(posted') + 1
    BY <1>1
  <1>8. \A i \in DOMAIN posted' : posted'[i].line <= Line
    BY <1>0, <1>1, <1>2 DEF LinesInv
  <1>9. \A j \in 2 .. Len(rest') : rest'[j] = typed'[Line' - 1 + j]
    BY <1>2, <1>3, <1>4 DEF LinesInv
  <1>10. LinesWhole'
    <2>1. \A k \in 1 .. Line - 1 : Whole(k)'
      BY <1>0, OldLines DEF m
    <2> QED
      BY <1>4, <2>1 DEF LinesWhole
  <1> QED
    BY <1>4, <1>6, <1>7, <1>8, <1>9, <1>10 DEF LinesInv

LEMMA FirstOfRest ==
  ASSUME NEW s \in Seq(Nat), s # <<>>
  PROVE  /\ Len(s) # 0 /\ 1 \in 1 .. Len(s)
         /\ Head(s) = s[1] /\ Head(s) \in Nat /\ 0 + Head(s) = Head(s)
  <1>1. Len(s) \in Nat \ {0}
    BY EmptySeq
  <1>2. 1 \in 1 .. Len(s)
    BY <1>1
  <1>3. s[1] \in Nat
    BY <1>2, ElementOfSeq
  <1> QED
    BY <1>1, <1>2, <1>3

\* A piece that does not: the line is complete, and the next one begins.
LEMMA LastPiece ==
  ASSUME TypeOK, LinesInv, rest # <<>>, ~(Head(rest) > Limit),
         posted' = Append(posted, [line |-> Line, length |-> Head(rest)]),
         rest' = Tail(rest), UNCHANGED typed
  PROVE  LinesInv'
  <1> DEFINE m == [line |-> Line, length |-> Head(rest)]
             n == Len(posted)
  <1>2. /\ rest \in Seq(Nat) /\ rest[1] = Head(rest) /\ Head(rest) \in Nat
        /\ Limit \in Nat /\ Line \in Nat /\ Len(rest) \in Nat /\ Len(rest) # 0
    BY Lists, Lengths DEF TypeOK
  <1>0. m \in Piece /\ m.line = Line /\ m.length = Head(rest)
    BY <1>2 DEF Piece
  <1> HIDE DEF m
  <1>1. /\ n \in Nat /\ DOMAIN posted = 1 .. n /\ DOMAIN posted' = 1 .. n + 1
        /\ Len(posted') = n + 1 /\ \A i \in 1 .. n : posted'[i] = posted[i]
        /\ posted'[n + 1] = m
    BY <1>0, Posting DEF m
  <1> HIDE DEF n
  <1>3. /\ rest' \in Seq(Nat) /\ Len(rest') = Len(rest) - 1
        /\ \A j \in 1 .. Len(rest) - 1 : rest'[j] = rest[j + 1]
    BY <1>2, HeadTailProperties
  <1>4. Line' = Line + 1 /\ Line = Len(typed) - Len(rest) + 1
    <2>1. typed \in Seq(Nat) /\ Len(typed) \in Nat
      <3>1. typed \in Lines /\ Lines \subseteq Seq(Nat)
        BY BuffersAssumption DEF TypeOK
      <3>2. typed \in Seq(Nat)
        BY <3>1
      <3> QED
        BY <3>2, LenProperties
    <2> QED
      BY <1>2, <1>3, <2>1 DEF Line
  <1>5. PICK first \in 1 .. n + 1 : Pieces(first)
    BY DEF LinesInv, n
  <1>6. ASSUME NEW k, k = Line PROVE Whole(k)'
    <2>1. first \in DOMAIN posted' /\ n + 1 \in first .. Len(posted')
      BY <1>1
    <2>2. \A i \in DOMAIN posted' : posted'[i].line = Line <=> i \in first .. n + 1
      BY <1>0, <1>1, <1>5 DEF Pieces
    <2>3. \A i \in first .. n : posted'[i].length = Limit
      BY <1>1, <1>5 DEF Pieces
    <2>4. (n + 1 - first) * Limit + posted'[n + 1].length = typed[Line]
      BY <1>0, <1>1, <1>5 DEF Pieces, n
    <2>5. typed[Line] > 0 => posted'[n + 1].length > 0
      <3>1. CASE first <= n
        BY <1>0, <1>1, <1>5, <3>1 DEF Pieces, n
      <3>2. CASE first = n + 1
        <4>1. (n + 1 - first) * Limit = 0
          BY <1>1, <1>2, <3>2
        <4> QED
          BY <1>0, <1>1, <1>2, <2>4, <4>1
      <3> QED
        BY <1>1, <3>1, <3>2
    <2>6. \A i \in first .. n + 1 - 1 : posted'[i].length = Limit
      BY <1>1, <2>3
    <2> DEFINE P(f, last) ==
                 /\ \A i \in DOMAIN posted' :
                      posted'[i].line = k <=> i \in f .. last
                 /\ \A i \in f .. last - 1 : posted'[i].length = Limit
                 /\ (last - f) * Limit + posted'[last].length = typed[k]
                 /\ typed[k] > 0 => posted'[last].length > 0
    <2> SUFFICES \E f \in DOMAIN posted' : \E last \in f .. Len(posted') : P(f, last)
      BY DEF Whole
    <2>7. \A i \in DOMAIN posted' : posted'[i].line = k <=> i \in first .. n + 1
      BY <1>6, <2>2
    <2>8. (n + 1 - first) * Limit + posted'[n + 1].length = typed[k]
      BY <1>6, <2>4
    <2>9. typed[k] > 0 => posted'[n + 1].length > 0
      BY <1>6, <2>5
    <2>10. P(first, n + 1)
      <3>1. \A i \in DOMAIN posted' : posted'[i].line = k <=> i \in first .. n + 1
        BY <2>7
      <3>0. (n + 1) - 1 = n + 1 - 1 /\ (n + 1) - first = n + 1 - first
        BY <1>1
      <3>2. \A i \in first .. (n + 1) - 1 : posted'[i].length = Limit
        BY <2>6, <3>0, Zenon
      <3>3. ((n + 1) - first) * Limit + posted'[n + 1].length = typed[k]
        BY <2>8, <3>0, Zenon
      <3>4. typed[k] > 0 => posted'[n + 1].length > 0
        BY <2>9
      <3> QED
        BY <3>1, <3>2, <3>3, <3>4, Zenon
    <2> HIDE DEF P
    <2> QED
      BY <2>1, <2>10
  <1>7. \A i \in DOMAIN posted' : posted'[i].line <= Line
    BY <1>0, <1>1, <1>2 DEF LinesInv
  <1>8. \A j \in 1 .. Len(rest') : rest'[j] = typed'[Line' - 1 + j]
    <2> SUFFICES ASSUME NEW j \in 1 .. Len(rest') PROVE rest'[j] = typed[Line + j]
      <3>1. \A j \in 1 .. Len(rest') : Line' - 1 + j = Line + j
        BY <1>2, <1>4
      <3> QED
        BY <3>1
    <2>1. j \in 1 .. Len(rest) - 1 /\ j + 1 \in 2 .. Len(rest)
      BY <1>2, <1>3
    <2>2. rest[j + 1] = typed[Line - 1 + (j + 1)]
      BY <2>1 DEF LinesInv
    <2>3. Line - 1 + (j + 1) = Line + j
      BY <1>2, <2>1
    <2> QED
      BY <1>3, <2>1, <2>2, <2>3
  <1>9. ASSUME rest' # <<>>, NEW next, next = n + 2
        PROVE  Pieces(next)'
    <2>1. Len(rest') # 0 /\ Head(rest') = rest'[1] /\ Head(rest') \in Nat
      <3>1. rest' \in Seq(Nat)
        BY <1>3
      <3> QED
        BY <1>9, <3>1, FirstOfRest
    <2>2. Head(rest') = typed'[Line']
      <3>1. 1 \in 1 .. Len(rest') /\ Line' - 1 + 1 = Line'
        BY <1>2, <1>3, <1>4, <2>1
      <3> QED
        BY <1>8, <2>1, <3>1
    <2>3. ASSUME NEW i \in DOMAIN posted' PROVE posted'[i].line # Line' /\ ~(i >= next)
      <3>1. posted'[i].line <= Line
        BY <1>7
      <3>2. posted'[i].line \in Nat
        BY <1>0, Posting DEF m
      <3>3. posted'[i].line # Line'
        BY <1>2, <1>4, <3>1, <3>2, LineOver
      <3>4. ~(i >= next)
        BY <1>1, <1>9
      <3> QED
        BY <3>3, <3>4
    <2>4. (Len(posted') + 1 - next) * Limit = 0
      <3>1. Len(posted') + 1 - next = 0
        BY <1>1, <1>9
      <3> QED
        BY <1>2, <3>1
    <2>5. ~(next <= Len(posted'))
      BY <1>1, <1>9
    <2>6. (Len(posted') + 1 - next) * Limit + Head(rest') = typed'[Line']
      <3>1. 0 + Head(rest') = Head(rest')
        BY <1>3, <1>9, FirstOfRest
      <3> QED
        BY <2>2, <2>4, <3>1
    <2> QED
      BY <2>3, <2>5, <2>6 DEF Pieces
  <1>10. LinesWhole'
    <2>1. \A k \in 1 .. Line - 1 : Whole(k)'
      BY <1>0, OldLines DEF m
    <2>2. \A k \in 1 .. Line' - 1 : k \in 1 .. Line - 1 \/ k = Line
      <3>1. Line' - 1 = Line
        BY <1>2, <1>4
      <3> QED
        BY <1>2, <3>1
    <2> QED
      BY <1>6, <2>1, <2>2 DEF LinesWhole
  <1> QED
    <2>1. \A j \in 2 .. Len(rest') : rest'[j] = typed'[Line' - 1 + j]
      <3>1. Len(rest') \in Nat
        BY <1>2, <1>3
      <3>2. \A j \in 2 .. Len(rest') : j \in 1 .. Len(rest')
        BY <3>1
      <3> QED
        BY <1>8, <3>2
    <2>2. \A i \in DOMAIN posted' : posted'[i].line <= Line'
      <3> SUFFICES ASSUME NEW i \in DOMAIN posted' PROVE posted'[i].line <= Line'
        OBVIOUS
      <3>1. posted'[i].line \in Nat
        BY <1>0, Posting DEF m
      <3> QED
        BY <1>2, <1>4, <1>7, <3>1
    <2>3. n + 2 \in 1 .. Len(posted') + 1
      BY <1>1
    <2>4. rest' # <<>> => \E next \in 1 .. Len(posted') + 1 : Pieces(next)'
      BY <1>9, <2>3
    <2> QED
      BY <1>10, <2>1, <2>2, <2>4 DEF LinesInv

\* At the end of the input every line is complete, and stays so.
LEMMA EndPiece ==
  ASSUME TypeOK, LinesInv, rest = <<>>,
         posted' = Append(posted, [line |-> Line, length |-> 0]),
         UNCHANGED <<typed, rest>>
  PROVE  LinesInv'
  <1> DEFINE m == [line |-> Line, length |-> 0]
  <1>0. m \in Piece /\ m.line = Line
    BY Lists, Lengths DEF Piece
  <1> HIDE DEF m
  <1>1. /\ Len(posted) \in Nat /\ DOMAIN posted = 1 .. Len(posted)
        /\ DOMAIN posted' = 1 .. Len(posted) + 1
        /\ \A i \in 1 .. Len(posted) : posted'[i] = posted[i]
        /\ posted'[Len(posted) + 1] = m
    BY <1>0, Posting DEF m
  <1>2. Line' = Line /\ Line \in Nat
    BY Lists DEF Line
  <1>3. \A i \in DOMAIN posted' : posted'[i].line <= Line
    BY <1>0, <1>1, <1>2 DEF LinesInv
  <1>4. LinesWhole'
    <2>1. \A k \in 1 .. Line - 1 : Whole(k)'
      BY <1>0, OldLines DEF m
    <2> QED
      BY <1>2, <2>1 DEF LinesWhole
  <1> QED
    BY <1>2, <1>3, <1>4 DEF LinesInv

LEMMA LinesFirst == Init => LinesInv
  <1> SUFFICES ASSUME Init PROVE LinesInv
    OBVIOUS
  <1>1. typed \in Seq(Nat) /\ rest = typed /\ posted = <<>>
    BY BuffersAssumption DEF Init
  <1>2. Line = 1 /\ Limit \in Nat
    BY <1>1, BuffersAssumption DEF Line, Limit
  <1>3. rest # <<>> => Pieces(1)
    <2> SUFFICES ASSUME rest # <<>> PROVE Pieces(1)
      OBVIOUS
    <2>1. Head(rest) = typed[1] /\ 0 + Head(rest) = Head(rest)
      BY <1>1, FirstOfRest
    <2>2. (Len(posted) + 1 - 1) * Limit = 0
      BY <1>1, <1>2
    <2> QED
      BY <1>1, <1>2, <2>1, <2>2 DEF Pieces
  <1>4. \A j \in 2 .. Len(rest) : rest[j] = typed[Line - 1 + j]
    BY <1>1, <1>2
  <1> QED
    BY <1>1, <1>2, <1>3, <1>4 DEF LinesInv, LinesWhole

LEMMA LinesStep == IInv /\ LinesInv /\ [Next]_vars => LinesInv'
  <1> SUFFICES ASSUME IInv, LinesInv, [Next]_vars PROVE LinesInv'
    OBVIOUS
  <1>0. TypeOK
    BY DEF IInv
  <1>1. CASE UNCHANGED <<typed, rest, posted>>
    <2>1. Line' = Line
      BY <1>1 DEF Line
    <2>2. \A k : Whole(k)' = Whole(k)
      BY <1>1 DEF Whole
    <2>3. \A k : Pieces(k)' = Pieces(k)
      BY <1>1, <2>1 DEF Pieces
    <2> QED
      BY <1>1, <2>1, <2>2, <2>3 DEF LinesInv, LinesWhole
  <1>2. CASE Getline
    <2>1. CASE Head(rest) > Limit
      BY <1>0, <1>2, <2>1, FullPiece DEF Getline
    <2>2. CASE ~(Head(rest) > Limit)
      BY <1>0, <1>2, <2>2, LastPiece DEF Getline
    <2> QED
      BY <2>1, <2>2
  <1>3. CASE GetlineAtEnd
    BY <1>0, <1>3, EndPiece DEF GetlineAtEnd
  <1> QED
    BY <1>1, <1>2, <1>3
    DEF Next, vars, Construct, NicknameHandler, Broadcast

\* Whatever the sizes and the lines, getline and the loop around it give a line
\* that is longer than the array in pieces that are the line together, one after
\* another, and lose nothing of it.
THEOREM LinesGoWhole == Spec => []LinesWhole
  <1>1. LinesInv => LinesWhole
    BY DEF LinesInv
  <1>2. Spec => []LinesInv
    BY Always, LinesFirst, LinesStep, PTL DEF Spec
  <1> QED
    BY <1>1, <1>2, PTL
=============================================================================
