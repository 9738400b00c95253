------------------------- MODULE SocketClientProofs -------------------------
(***************************************************************************)
(* Safety of the blocking client, for any number of lines, messages and    *)
(* interruptions; and of the stream between clients and server: every byte *)
(* typed stays in it, in its place, and every piece of text under its      *)
(* sender's prefix.  A sequence is looked at through what it has of a      *)
(* sender's text and whether that is in order: both go over to             *)
(* concatenations, so no proof counts places in the stream.                *)
(***************************************************************************)
EXTENDS SocketClient, LineStream, Integers, SequenceTheorems, TLAPS

(* SocketClient *)

\* Main has not come to its loop.
Early == {"create", "connect", "start", "assign"}
\* Main is in its loop, and can send.
Looping == {"test", "read", "send"}

\* A line read late is the last that main reads.
LateInv == \/ late = 0
           \/ late = 1 /\ state = "CLOSED" /\ main \notin Early \cup {"read"}

\* An open state is an open descriptor; the connection's end and the server's go
\* together; and what killed the process stays.
OwnedInv == /\ state = "OPEN" => fd = "open"
            /\ server = "closing" => link = "up"
            /\ link \in {"none", "up"} \/ server = "gone"
            /\ DiesOnlyOf

\* How far the lines sent are behind the lines typed, as long as they are
\* remembered: none, or the one in message.
SendsInv ==
  /\ main \in Early => typed = 0 /\ sent = <<>> /\ stdin = "open" /\ ~cut
  /\ cut => stdin = "end" /\ message = typed /\ typed > 0
  /\ stdin = "end" /\ ~cut /\ main \in Looping => message = 0
  /\ main \in {"test", "read"} /\ ~cut /\ Len(sent) < MaxSent => Len(sent) = typed
  /\ main = "send" /\ ~cut /\ Len(sent) < MaxSent =>
       \/ message = 0 /\ Len(sent) = typed
       \/ message = typed /\ Len(sent) = typed - 1
  /\ main \in Looping /\ cut /\ Len(sent) < MaxSent => Len(sent) + 1 >= typed
  /\ SentAsTyped

\* The actions by name.
LEMMA Actions ==
  ASSUME [Next]_vars
  PROVE  \/ ~Over /\ (Create \/ Connect \/ Start \/ Test \/ Send \/ Close \/ Join
                       \/ ReadLine \/ ReadEnd \/ Interrupt \/ Receive \/ Server)
         \/ ServerFinishes \/ UNCHANGED vars
  BY DEF Next, MainGoesOn

LEMMA TypeStep == TypeOK /\ [Next]_vars => TypeOK'
  <1> SUFFICES ASSUME TypeOK, [Next]_vars PROVE TypeOK'
    OBVIOUS
  <1> USE DEF TypeOK, conn, input, ends
  <1>1. CASE Create
    BY <1>1 DEF Create
  <1>2. CASE Connect
    BY <1>2 DEF Connect
  <1>3. CASE Start
    BY <1>3 DEF Start
  <1>4. CASE Test
    BY <1>4 DEF Test
  <1>5. CASE Send
    <2>1. sent' \in Seq(1 .. MaxLines) /\ Len(sent') <= MaxSent
      <3>1. CASE message # 0 /\ Len(sent) < MaxSent
        <4>1. message \in 1 .. MaxLines
          BY <3>1, ClientAssumption
        <4>2. sent' = Append(sent, message)
          BY <1>5, <3>1 DEF Send
        <4> QED
          BY <3>1, <4>1, <4>2, ClientAssumption
      <3>2. CASE ~(message # 0 /\ Len(sent) < MaxSent)
        BY <1>5, <3>2 DEF Send
      <3> QED
        BY <3>1, <3>2
    <2> QED
      BY <1>5, <2>1 DEF Send
  <1>6. CASE Close
    BY <1>6 DEF Close, CloseSocket
  <1>7. CASE Join
    BY <1>7 DEF Join
  <1>8. CASE ReadLine
    <2>1. late' \in Nat
      BY <1>8 DEF ReadLine, CountLate
    <2>2. typed' \in 0 .. MaxLines /\ message' \in 0 .. typed'
      BY <1>8, ClientAssumption DEF ReadLine
    <2>3. stdin' \in {"open", "end"} /\ cut' \in BOOLEAN /\ main' = "send"
      BY <1>8 DEF ReadLine
    <2>4. UNCHANGED <<state, thread, joinable, fd, asked, killed, conn, sent, ends>>
      BY <1>8 DEF ReadLine
    <2> QED
      BY <2>1, <2>2, <2>3, <2>4
  <1>9. CASE ReadEnd
    <2>1. late' \in Nat
      BY <1>9 DEF ReadEnd, CountLate
    <2>2. message' \in 0 .. typed
      BY <1>9, ClientAssumption DEF ReadEnd
    <2> QED
      BY <1>9, <2>1, <2>2 DEF ReadEnd
  <1>10. CASE Interrupt
    <2>1. asked' \in 0 .. MaxAsked
      BY <1>10, ClientAssumption DEF Interrupt
    <2>2. killed' \in BOOLEAN /\ twice' \in BOOLEAN /\ main' = "close"
      BY <1>10 DEF Interrupt
    <2>3. UNCHANGED <<state, thread, joinable, fd, input, conn, sent, first>>
      BY <1>10 DEF Interrupt
    <2> QED
      BY <2>1, <2>2, <2>3
  <1>11. CASE Receive
    <2>1. news' \in 0 .. MaxNews
      BY <1>11, ClientAssumption DEF Receive
    <2> QED
      BY <1>11, <2>1 DEF Receive
  <1>12. CASE Server
    <2>1. news' \in 0 .. MaxNews
      BY <1>12, ClientAssumption DEF Server, ServerSays, ServerCloses, Lose
    <2>2. link' \in {"none", "up", "fin", "reset"} /\ server' \in {"serves", "closing", "gone"}
          /\ woken' \in BOOLEAN /\ first' \in {"none", "client", "server"}
      BY <1>12 DEF Server, ServerSays, ServerCloses, Lose
    <2> QED
      BY <1>12, <2>1, <2>2 DEF Server
  <1>13. CASE ServerFinishes
    BY <1>13 DEF ServerFinishes, ServerEnds
  <1>14. CASE UNCHANGED vars
    BY <1>14 DEF vars
  <1> QED
    BY <1>1, <1>2, <1>3, <1>4, <1>5, <1>6, <1>7, <1>8, <1>9, <1>10, <1>11, <1>12,
       <1>13, <1>14, Actions

LEMMA LateStep == TypeOK /\ LateInv /\ [Next]_vars => LateInv'
  <1> SUFFICES ASSUME TypeOK, LateInv, [Next]_vars PROVE LateInv'
    OBVIOUS
  <1> USE DEF LateInv, Early, conn, input, ends
  <1>1. CASE Create \/ Connect \/ Start \/ Join
    BY <1>1 DEF Create, Connect, Start, Join
  <1>2. CASE Test \/ Send
    BY <1>2 DEF Test, Send
  <1>3. CASE ReadLine \/ ReadEnd
    BY <1>3 DEF ReadLine, ReadEnd, CountLate
  <1>4. CASE Close
    BY <1>4 DEF Close, CloseSocket
  <1>5. CASE Interrupt \/ Receive
    BY <1>5 DEF Interrupt, Receive
  <1>6. CASE Server
    BY <1>6 DEF Server
  <1>7. CASE ServerFinishes
    BY <1>7 DEF ServerFinishes
  <1>8. CASE UNCHANGED vars
    BY <1>8 DEF vars
  <1> QED
    BY <1>1, <1>2, <1>3, <1>4, <1>5, <1>6, <1>7, <1>8, Actions

LEMMA OwnedStep == TypeOK /\ OwnedInv /\ [Next]_vars => OwnedInv'
  <1> SUFFICES ASSUME TypeOK, OwnedInv, [Next]_vars PROVE OwnedInv'
    OBVIOUS
  <1> USE DEF OwnedInv, DiesOnlyOf, conn, input, ends
  <1>1. CASE ~Over /\ (Create \/ Connect \/ Start \/ Test \/ Join)
    BY <1>1 DEF Create, Connect, Start, Test, Join, Over, TypeOK
  <1>2. CASE ~Over /\ Send
    BY <1>2 DEF Send, Over
  <1>3. CASE ~Over /\ (ReadLine \/ ReadEnd)
    BY <1>3 DEF ReadLine, ReadEnd, Over
  <1>4. CASE ~Over /\ Close
    BY <1>4 DEF Close, CloseSocket, Over, TypeOK
  <1>5. CASE ~Over /\ Receive
    BY <1>5 DEF Receive, Over
  <1>9. CASE ~Over /\ Interrupt
    <2>1. killed' => twice'
      BY <1>9 DEF Interrupt
    <2>2. UNCHANGED <<state, fd, link, server>>
      BY <1>9 DEF Interrupt
    <2> QED
      BY <2>1, <2>2
  <1>6. CASE ~Over /\ Server
    BY <1>6 DEF Server, ServerSays, ServerCloses, Lose, Over
  <1>7. CASE ServerFinishes
    BY <1>7 DEF ServerFinishes, ServerEnds
  <1>8. CASE UNCHANGED vars
    BY <1>8 DEF vars
  <1> QED
    BY <1>1, <1>2, <1>3, <1>4, <1>5, <1>6, <1>7, <1>8, <1>9, Actions

LEMMA SendsStep == TypeOK /\ SendsInv /\ [Next]_vars => SendsInv'
  <1> SUFFICES ASSUME TypeOK, SendsInv, [Next]_vars PROVE SendsInv'
    OBVIOUS
  <1>0. Len(sent) \in Nat /\ typed \in Nat /\ MaxSent \in Nat /\ message \in 0 .. typed
        /\ sent \in Seq(1 .. MaxLines)
    BY ClientAssumption DEF TypeOK
  <1> USE DEF SendsInv, Early, Looping, conn, input, ends
  <1>1. CASE Create \/ Connect \/ Start
    BY <1>0, <1>1 DEF Create, Connect, Start, SentAsTyped
  <1>2. CASE Test \/ Join
    BY <1>0, <1>2 DEF Test, Join, SentAsTyped
  <1>3. CASE Send
    <2>1. CASE message # 0 /\ Len(sent) < MaxSent
      <3>1. sent' = Append(sent, message) /\ Len(sent') = Len(sent) + 1
        BY <1>0, <1>3, <2>1 DEF Send
      <3>2. UNCHANGED <<typed, cut, stdin, message>> /\ main = "send" /\ main' = "test"
        BY <1>3 DEF Send
      <3>3. message = typed /\ Len(sent) + 1 >= typed
            /\ (~cut => Len(sent) + 1 = typed)
        BY <1>0, <2>1, <3>2
      <3>4. SentAsTyped'
        <4> SUFFICES ASSUME NEW i \in DOMAIN sent'
                     PROVE sent'[i] = i \/ (cut /\ i > typed /\ sent'[i] = typed)
          BY <3>2 DEF SentAsTyped
        <4>1. CASE i \in DOMAIN sent
          <5>1. sent'[i] = sent[i]
            BY <1>0, <3>1, <4>1
          <5> QED
            BY <4>1, <5>1 DEF SentAsTyped
        <4>2. CASE i \notin DOMAIN sent
          <5>1. i = Len(sent) + 1 /\ sent'[i] = typed
            BY <1>0, <3>1, <3>3, <4>2
          <5> QED
            BY <1>0, <3>3, <5>1
        <4> QED
          BY <4>1, <4>2
      <3> QED
        BY <1>0, <2>1, <3>1, <3>2, <3>3, <3>4
    <2>2. CASE ~(message # 0 /\ Len(sent) < MaxSent)
      BY <1>0, <1>3, <2>2 DEF Send, SentAsTyped
    <2> QED
      BY <2>1, <2>2
  <1>4. CASE Close
    BY <1>4 DEF Close, SentAsTyped
  <1>5. CASE ReadLine
    <2>1. SentAsTyped'
      BY <1>0, <1>5 DEF ReadLine, SentAsTyped
    <2>2. UNCHANGED sent /\ main = "read" /\ main' = "send" /\ ~cut
      BY <1>5 DEF ReadLine
    <2> QED
      BY <1>0, <1>5, <2>1, <2>2 DEF ReadLine
  <1>6. CASE ReadEnd
    <2>1. SentAsTyped'
      BY <1>6 DEF ReadEnd, SentAsTyped
    <2>2. UNCHANGED <<sent, typed, cut>> /\ main = "read" /\ main' = "send" /\ stdin' = "end"
      BY <1>6 DEF ReadEnd
    <2>3. CASE cut
      <3>1. message' = message
        BY <1>6, <2>3 DEF ReadEnd
      <3> QED
        BY <1>0, <2>1, <2>2, <2>3, <3>1
    <2>4. CASE ~cut
      <3>1. message' = 0
        BY <1>6, <2>2, <2>4 DEF ReadEnd, TypeOK
      <3> QED
        BY <1>0, <2>1, <2>2, <2>4, <3>1
    <2> QED
      BY <2>3, <2>4
  <1>7. CASE Interrupt
    <2>1. UNCHANGED <<sent, typed, cut, stdin, message>> /\ main' = "close"
      BY <1>7 DEF Interrupt
    <2> QED
      BY <2>1 DEF SentAsTyped
  <1>11. CASE Receive
    <2>1. UNCHANGED <<sent, typed, cut, stdin, message, main>>
      BY <1>11 DEF Receive
    <2> QED
      BY <2>1 DEF SentAsTyped
  <1>8. CASE Server
    BY <1>8 DEF Server, SentAsTyped
  <1>9. CASE ServerFinishes
    BY <1>9 DEF ServerFinishes, SentAsTyped
  <1>10. CASE UNCHANGED vars
    BY <1>10 DEF vars, SentAsTyped
  <1> QED
    BY <1>1, <1>2, <1>3, <1>4, <1>5, <1>6, <1>7, <1>8, <1>9, <1>10, <1>11,
       Actions

LEMMA Initially == Init => TypeOK /\ LateInv /\ OwnedInv /\ SendsInv
  <1> SUFFICES ASSUME Init PROVE TypeOK /\ LateInv /\ OwnedInv /\ SendsInv
    OBVIOUS
  <1>1. TypeOK
    <2>1. sent \in Seq(1 .. MaxLines) /\ Len(sent) <= MaxSent
      BY ClientAssumption DEF Init
    <2>2. message \in 0 .. typed /\ typed \in 0 .. MaxLines /\ asked \in 0 .. MaxAsked
          /\ news \in 0 .. MaxNews /\ late \in Nat
      BY ClientAssumption DEF Init
    <2>3. {joinable, killed, woken, cut, twice} \subseteq BOOLEAN
      BY DEF Init
    <2> QED
      BY <2>1, <2>2, <2>3 DEF Init, TypeOK
  <1>2. LateInv /\ OwnedInv
    BY DEF Init, LateInv, OwnedInv, DiesOnlyOf
  <1>3. SendsInv
    BY ClientAssumption DEF Init, SendsInv, SentAsTyped, Early, Looping
  <1> QED
    BY <1>1, <1>2, <1>3

\* The types of all variables.
THEOREM TypeCorrect == Spec => []TypeOK
  BY Initially, TypeStep, PTL DEF Spec

\* main reads at most one more line after the connection was found to have ended,
\* whichever thread found it, and however long the user goes on typing.
THEOREM AtMostOneLate == Spec => []OneLateLine
  <1>1. LateInv => OneLateLine
    BY DEF LateInv, OneLateLine
  <1> QED
    BY Initially, TypeStep, LateStep, <1>1, PTL DEF Spec

\* No other end of the process than the three that DiesOnlyOf names.
THEOREM DeathsKnown == Spec => []DiesOnlyOf
  <1>1. OwnedInv => DiesOnlyOf
    BY DEF OwnedInv
  <1> QED
    BY Initially, TypeStep, OwnedStep, <1>1, PTL DEF Spec

\* Lines are sent in order and once, but for a last one without a newline.
THEOREM LinesInOrder == Spec => []SentAsTyped
  <1>1. SendsInv => SentAsTyped
    BY DEF SendsInv
  <1> QED
    BY Initially, TypeStep, SendsStep, <1>1, PTL DEF Spec
-----------------------------------------------------------------------------
(* LineStream *)

(* Sequences of bytes *)

LEMMA SmallerOf ==
  ASSUME NEW a \in Nat, NEW b \in Nat
  PROVE  /\ Min({a, b}) \in Nat /\ Min({a, b}) <= a /\ Min({a, b}) <= b
         /\ Min({a, b}) = a \/ Min({a, b}) = b
  <1>1. \E x \in {a, b} : \A y \in {a, b} : x =< y
    BY a <= b \/ b <= a
  <1>2. Min({a, b}) \in {a, b} /\ \A y \in {a, b} : Min({a, b}) =< y
    BY <1>1 DEF Min
  <1> QED
    BY <1>2

\* A sequence that is cut in two.
LEMMA CutInTwo ==
  ASSUME NEW S, NEW s \in Seq(S), NEW n \in 0 .. Len(s)
  PROVE  /\ First(s, n) \in Seq(S) /\ After(s, n) \in Seq(S)
         /\ Len(First(s, n)) = n /\ Len(After(s, n)) = Len(s) - n
         /\ First(s, n) \o After(s, n) = s
         /\ \A i \in 1 .. n : First(s, n)[i] = s[i]
         /\ \A i \in 1 .. Len(s) - n : After(s, n)[i] = s[n + i]
  <1>1. Len(s) \in Nat /\ n \in Nat /\ n <= Len(s)
    BY LenProperties
  <1>2. \A i \in 1 .. Len(s) : s[i] \in S
    BY ElementOfSeq
  <1>3. /\ SubSeq(s, 1, n) \in Seq(S) /\ Len(SubSeq(s, 1, n)) = n
        /\ \A i \in 1 .. n : SubSeq(s, 1, n)[i] = s[i]
    <2>1. \A i \in 1 .. n : s[i] \in S
      BY <1>1, <1>2
    <2>2. /\ SubSeq(s, 1, n) \in Seq(S)
          /\ Len(SubSeq(s, 1, n)) = IF 1 <= n THEN n - 1 + 1 ELSE 0
          /\ \A i \in 1 .. n - 1 + 1 : SubSeq(s, 1, n)[i] = s[1 + i - 1]
      BY <1>1, <2>1, SubSeqProperties
    <2>3. n - 1 + 1 = n /\ \A i \in 1 .. n : 1 + i - 1 = i
      BY <1>1
    <2> QED
      BY <1>1, <2>2, <2>3
  <1>4. PICK L \in Nat : L = Len(s)
    BY <1>1
  <1>5. /\ SubSeq(s, n + 1, L) \in Seq(S) /\ Len(SubSeq(s, n + 1, L)) = L - n
        /\ \A i \in 1 .. L - n : SubSeq(s, n + 1, L)[i] = s[n + i]
    <2>1. \A i \in n + 1 .. L : s[i] \in S
      BY <1>1, <1>2, <1>4
    <2>2. /\ SubSeq(s, n + 1, L) \in Seq(S)
          /\ Len(SubSeq(s, n + 1, L)) = IF n + 1 <= L THEN L - (n + 1) + 1 ELSE 0
          /\ \A i \in 1 .. L - (n + 1) + 1 : SubSeq(s, n + 1, L)[i] = s[n + 1 + i - 1]
      BY <1>1, <2>1, SubSeqProperties
    <2>3. /\ L - (n + 1) + 1 = L - n
          /\ \A i \in 1 .. L - n : n + 1 + i - 1 = n + i
      BY <1>1
    <2>4. (IF n + 1 <= L THEN L - (n + 1) + 1 ELSE 0) = L - n
      BY <1>1, <1>4
    <2>5. Len(SubSeq(s, n + 1, L)) = L - n
      BY <2>2, <2>4
    <2>6. \A i \in 1 .. L - n : SubSeq(s, n + 1, L)[i] = s[n + i]
      BY <2>2, <2>3
    <2> QED
      BY <2>2, <2>5, <2>6
  <1>6. SubSeq(s, 1, n) \o SubSeq(s, n + 1, L) = s
    <2>1. /\ 1 \in 1 .. Len(s) + 1 /\ n \in 1 - 1 .. Len(s)
          /\ Len(s) \in n .. Len(s)
      BY <1>1
    <2>2. SubSeq(s, 1, n) \o SubSeq(s, n + 1, Len(s)) = SubSeq(s, 1, Len(s))
      BY <2>1, ConcatAdjacentSubSeq
    <2> QED
      BY <1>4, <2>2, SubSeqFull
  <1> QED
    BY <1>3, <1>4, <1>5, <1>6 DEF First, After

\* w is s with t behind it.
Joins(S, s, t, w) ==
  /\ w = s \o t /\ w \in Seq(S) /\ Len(s) \in Nat /\ Len(t) \in Nat
  /\ Len(w) = Len(s) + Len(t)
  /\ DOMAIN s = 1 .. Len(s) /\ DOMAIN t = 1 .. Len(t)
  /\ DOMAIN w = 1 .. Len(s) + Len(t)
  /\ \A i \in 1 .. Len(s) : w[i] = s[i]
  /\ \A i \in 1 .. Len(t) : w[Len(s) + i] = t[i]
  /\ \A k \in 1 .. Len(s) + Len(t) :
       k \in 1 .. Len(s) \/ \E i \in 1 .. Len(t) : k = Len(s) + i

LEMMA Joined ==
  ASSUME NEW S, NEW s \in Seq(S), NEW t \in Seq(S)
  PROVE  Joins(S, s, t, s \o t)
  <1>1. /\ Len(s) \in Nat /\ Len(t) \in Nat
        /\ DOMAIN s = 1 .. Len(s) /\ DOMAIN t = 1 .. Len(t)
    BY LenProperties
  <1>2. PICK u : u = s \o t
    OBVIOUS
  <1>3. /\ u \in Seq(S) /\ Len(u) = Len(s) + Len(t)
        /\ \A i \in 1 .. Len(s) + Len(t) :
             u[i] = IF i <= Len(s) THEN s[i] ELSE t[i - Len(s)]
    BY <1>2, ConcatProperties
  <1>4. DOMAIN u = 1 .. Len(s) + Len(t)
    BY <1>3, LenProperties
  <1>5. \A i \in 1 .. Len(t) : /\ Len(s) + i \in 1 .. Len(s) + Len(t)
                               /\ ~(Len(s) + i <= Len(s))
                               /\ (Len(s) + i) - Len(s) = i
    BY <1>1
  <1>6. \A i \in 1 .. Len(s) : i \in 1 .. Len(s) + Len(t) /\ i <= Len(s)
    BY <1>1
  <1>7. ASSUME NEW k \in 1 .. Len(s) + Len(t), k \notin 1 .. Len(s)
        PROVE  \E i \in 1 .. Len(t) : k = Len(s) + i
    <2>1. k - Len(s) \in 1 .. Len(t) /\ k = Len(s) + (k - Len(s))
      BY <1>1, <1>7
    <2> QED
      BY <2>1
  <1>8. /\ \A i \in 1 .. Len(s) : u[i] = s[i]
        /\ \A i \in 1 .. Len(t) : u[Len(s) + i] = t[i]
    BY <1>3, <1>5, <1>6
  <1>9. Joins(S, s, t, u)
    BY <1>1, <1>2, <1>3, <1>4, <1>7, <1>8 DEF Joins
  <1> QED
    BY <1>2, <1>9

LEMMA JoinedIn ==
  ASSUME NEW S, NEW s \in Seq(S), NEW t \in Seq(S)
  PROVE  s \o t \in Seq(S)
  BY Joined DEF Joins

\* Where the cuts are does not matter.
Grouped(S, x, f, r) == (x \o f) \o r = x \o (f \o r)
Regrouped(S, x, u, f, r) == (x \o (u \o f)) \o r = (x \o u) \o (f \o r)

LEMMA Group ==
  ASSUME NEW S, NEW x \in Seq(S), NEW f \in Seq(S), NEW r \in Seq(S)
  PROVE  Grouped(S, x, f, r)
  BY ConcatAssociative DEF Grouped

LEMMA Regroup ==
  ASSUME NEW S, NEW x \in Seq(S), NEW u \in Seq(S), NEW f \in Seq(S),
         NEW r \in Seq(S)
  PROVE  Regrouped(S, x, u, f, r)
  <1>1. x \o u \in Seq(S)
    BY JoinedIn
  <1>2. (x \o u) \o f = x \o (u \o f)
    BY ConcatAssociative
  <1>3. ((x \o u) \o f) \o r = (x \o u) \o (f \o r)
    BY <1>1, ConcatAssociative
  <1> QED
    BY <1>2, <1>3 DEF Regrouped

\* The text of c in one sequence is below, that is before, that in another.
Below(c, s, t) == \A x \in TextOf(c, s), y \in TextOf(c, t) : x[2] < y[2]

LEMMA TextJoined ==
  ASSUME NEW c, NEW S, NEW s \in Seq(S), NEW t \in Seq(S)
  PROVE  /\ TextOf(c, s \o t) = TextOf(c, s) \cup TextOf(c, t)
         /\ InOrder(c, s \o t) <=> InOrder(c, s) /\ InOrder(c, t) /\ Below(c, s, t)
  <1>1. PICK u, m, n : u = s \o t /\ m = Len(s) /\ n = Len(t)
    OBVIOUS
  <1>2. /\ m \in Nat /\ n \in Nat
        /\ DOMAIN s = 1 .. m /\ DOMAIN t = 1 .. n /\ DOMAIN u = 1 .. m + n
        /\ \A i \in 1 .. m : u[i] = s[i]
        /\ \A i \in 1 .. n : u[m + i] = t[i]
        /\ \A k \in 1 .. m + n : k \in 1 .. m \/ \E i \in 1 .. n : k = m + i
    <2>1. Joins(S, s, t, u)
      BY <1>1, Joined
    <2> QED
      BY <1>1, <2>1 DEF Joins
  <1>3. /\ \A i \in 1 .. m : i \in 1 .. m + n
        /\ \A i \in 1 .. n : m + i \in 1 .. m + n
    BY <1>2
  <1> DEFINE C == {c} \X (1 .. MaxTyped)
  <1>4. \A q : TextOf(c, q) = {q[i] : i \in DOMAIN q} \cap C
    BY DEF TextOf
  <1>5. \A q : InOrder(c, q) <=>
                 \A i, j \in DOMAIN q :
                   i < j /\ q[i] \in C /\ q[j] \in C => q[i][2] < q[j][2]
    BY <1>4 DEF InOrder
  <1> HIDE DEF C
  <1>6. TextOf(c, u) = TextOf(c, s) \cup TextOf(c, t)
    <2>1. {u[i] : i \in 1 .. m + n} = {s[i] : i \in 1 .. m} \cup {t[i] : i \in 1 .. n}
      <3>1. ASSUME NEW k \in 1 .. m + n
            PROVE  u[k] \in {s[i] : i \in 1 .. m} \cup {t[i] : i \in 1 .. n}
        <4>1. CASE k \in 1 .. m
          BY <1>2, <4>1
        <4>2. CASE \E i \in 1 .. n : k = m + i
          BY <1>2, <4>2
        <4> QED
          BY <1>2, <4>1, <4>2
      <3>2. ASSUME NEW i \in 1 .. m PROVE s[i] \in {u[k] : k \in 1 .. m + n}
        BY <1>2, <1>3
      <3>3. ASSUME NEW i \in 1 .. n PROVE t[i] \in {u[k] : k \in 1 .. m + n}
        <4>1. PICK k \in 1 .. m + n : k = m + i
          BY <1>3
        <4>2. u[k] = t[i]
          BY <1>2, <4>1
        <4> QED
          BY <4>2
      <3> QED
        BY <3>1, <3>2, <3>3
    <2> QED
      BY <1>2, <1>4, <2>1
  <1>7. ASSUME InOrder(c, u)
        PROVE  InOrder(c, s) /\ InOrder(c, t) /\ Below(c, s, t)
    <2>1. \A i, j \in 1 .. m + n :
            i < j /\ u[i] \in C /\ u[j] \in C => u[i][2] < u[j][2]
      BY <1>2, <1>5, <1>7
    <2>2. InOrder(c, s)
      <3>1. \A i, j \in 1 .. m :
              i < j /\ s[i] \in C /\ s[j] \in C => s[i][2] < s[j][2]
        BY <1>2, <1>3, <2>1
      <3> QED
        BY <1>2, <1>5, <3>1
    <2>3. InOrder(c, t)
      <3>1. ASSUME NEW i \in 1 .. n, NEW j \in 1 .. n, i < j, t[i] \in C, t[j] \in C
            PROVE  t[i][2] < t[j][2]
        <4>1. m + i < m + j
          BY <1>2, <3>1
        <4> QED
          BY <1>2, <1>3, <2>1, <3>1, <4>1
      <3> QED
        BY <1>2, <1>5, <3>1
    <2>4. Below(c, s, t)
      <3>1. ASSUME NEW i \in 1 .. m, NEW j \in 1 .. n, s[i] \in C, t[j] \in C
            PROVE  s[i][2] < t[j][2]
        <4>1. i < m + j
          BY <1>2
        <4> QED
          BY <1>2, <1>3, <2>1, <3>1, <4>1
      <3>2. ASSUME NEW x \in TextOf(c, s), NEW y \in TextOf(c, t)
            PROVE  x[2] < y[2]
        <4>1. PICK i \in 1 .. m : x = s[i] /\ s[i] \in C
          BY <1>2, <1>4
        <4>2. PICK j \in 1 .. n : y = t[j] /\ t[j] \in C
          BY <1>2, <1>4
        <4> QED
          BY <3>1, <4>1, <4>2
      <3> QED
        BY <3>2 DEF Below
    <2> QED
      BY <2>2, <2>3, <2>4
  <1>8. ASSUME InOrder(c, s), InOrder(c, t), Below(c, s, t)
        PROVE  InOrder(c, u)
    <2>1. ASSUME NEW i \in 1 .. m + n, NEW j \in 1 .. m + n, i < j,
                 u[i] \in C, u[j] \in C
          PROVE  u[i][2] < u[j][2]
      <3>1. CASE i \in 1 .. m /\ j \in 1 .. m
        BY <1>2, <1>5, <1>8, <2>1, <3>1
      <3>2. CASE i \in 1 .. m /\ \E k \in 1 .. n : j = m + k
        <4>1. PICK k \in 1 .. n : j = m + k
          BY <3>2
        <4>2. u[i] = s[i] /\ u[j] = t[k]
          BY <1>2, <3>2, <4>1
        <4>3. u[i] \in TextOf(c, s) /\ u[j] \in TextOf(c, t)
          BY <1>2, <1>4, <2>1, <3>2, <4>2
        <4> QED
          BY <1>8, <4>3 DEF Below
      <3>3. CASE /\ \E k \in 1 .. n : i = m + k
                 /\ \E k \in 1 .. n : j = m + k
        <4>1. PICK k \in 1 .. n, l \in 1 .. n : i = m + k /\ j = m + l
          BY <3>3
        <4>2. k < l
          BY <1>2, <2>1, <4>1
        <4>3. u[i] = t[k] /\ u[j] = t[l]
          BY <1>2, <4>1
        <4>4. t[k][2] < t[l][2]
          BY <1>2, <1>5, <1>8, <2>1, <4>2, <4>3
        <4> QED
          BY <4>3, <4>4
      <3>4. ~(j \in 1 .. m /\ \E k \in 1 .. n : i = m + k)
        BY <1>2, <2>1
      <3> QED
        BY <1>2, <3>1, <3>2, <3>3, <3>4
    <2> QED
      BY <1>2, <1>5, <2>1
  <1> QED
    BY <1>1, <1>6, <1>7, <1>8

\* As far as c's text goes the two are the same.
SameText(c, s, t) == /\ TextOf(c, s) = TextOf(c, t)
                     /\ InOrder(c, s) <=> InOrder(c, t)

LEMMA SameInPlace ==
  ASSUME NEW c, NEW S, NEW s \in Seq(S), NEW t \in Seq(S), NEW u \in Seq(S),
         SameText(c, s, t)
  PROVE  SameText(c, s \o u, t \o u) /\ SameText(c, u \o s, u \o t)
  <1>1. TextOf(c, s) = TextOf(c, t) /\ (InOrder(c, s) <=> InOrder(c, t))
    BY DEF SameText
  <1>2. SameText(c, s \o u, t \o u)
    <2>1. /\ TextOf(c, s \o u) = TextOf(c, s) \cup TextOf(c, u)
          /\ InOrder(c, s \o u) <=> InOrder(c, s) /\ InOrder(c, u) /\ Below(c, s, u)
      BY TextJoined
    <2>2. /\ TextOf(c, t \o u) = TextOf(c, t) \cup TextOf(c, u)
          /\ InOrder(c, t \o u) <=> InOrder(c, t) /\ InOrder(c, u) /\ Below(c, t, u)
      BY TextJoined
    <2>3. Below(c, s, u) <=> Below(c, t, u)
      BY <1>1 DEF Below
    <2> QED
      BY <1>1, <2>1, <2>2, <2>3 DEF SameText
  <1>3. SameText(c, u \o s, u \o t)
    <2>1. /\ TextOf(c, u \o s) = TextOf(c, u) \cup TextOf(c, s)
          /\ InOrder(c, u \o s) <=> InOrder(c, u) /\ InOrder(c, s) /\ Below(c, u, s)
      BY TextJoined
    <2>2. /\ TextOf(c, u \o t) = TextOf(c, u) \cup TextOf(c, t)
          /\ InOrder(c, u \o t) <=> InOrder(c, u) /\ InOrder(c, t) /\ Below(c, u, t)
      BY TextJoined
    <2>3. Below(c, u, s) <=> Below(c, u, t)
      BY <1>1 DEF Below
    <2> QED
      BY <1>1, <2>1, <2>2, <2>3 DEF SameText
  <1> QED
    BY <1>2, <1>3

\* What holds no text of c can be left out.
LEMMA NoText ==
  ASSUME NEW c, NEW S, NEW s \in Seq(S), NEW p \in Seq(S),
         \A i \in 1 .. Len(p) : p[i] \notin {c} \X (1 .. MaxTyped)
  PROVE  /\ TextOf(c, p) = {} /\ InOrder(c, p)
         /\ SameText(c, s \o p, s) /\ SameText(c, p \o s, s)
  <1>1. TextOf(c, p) = {}
    BY LenProperties DEF TextOf
  <1>2. InOrder(c, p)
    <2>1. \A i \in DOMAIN p : p[i] \notin TextOf(c, p)
      BY <1>1
    <2> QED
      BY <2>1 DEF InOrder
  <1>3. Below(c, s, p) /\ Below(c, p, s)
    BY <1>1 DEF Below
  <1>4. /\ TextOf(c, s \o p) = TextOf(c, s) \cup TextOf(c, p)
        /\ InOrder(c, s \o p) <=> InOrder(c, s) /\ InOrder(c, p) /\ Below(c, s, p)
    BY TextJoined
  <1>5. /\ TextOf(c, p \o s) = TextOf(c, p) \cup TextOf(c, s)
        /\ InOrder(c, p \o s) <=> InOrder(c, p) /\ InOrder(c, s) /\ Below(c, p, s)
    BY TextJoined
  <1> QED
    BY <1>1, <1>2, <1>3, <1>4, <1>5 DEF SameText

-----------------------------------------------------------------------------
(* The invariant *)

\* All of c's bytes, from those shown to those not yet sent.
Flow(c) == Arriving \o relayed[c] \o up[c] \o line[c]

\* On the way to the server there is text only, and all of it the sender's own;
\* its prefix is added by the thread.
Own ==
  \A c \in Sender :
    /\ \A i \in 1 .. Len(relayed[c]) : relayed[c][i][1] = c
    /\ \A i \in 1 .. Len(up[c]) : up[c][i] \in {c} \X (1 .. MaxTyped)
    /\ \A i \in 1 .. Len(line[c]) : line[c][i] \in {c} \X (1 .. MaxTyped)

\* A message not yet sent is whole, unless one did not fit.
Named == ~full => \A c \in Sender :
                    relayed[c] # <<>> => relayed[c][1] = <<c, 0>>

\* Nothing is lost that was not typed.
LostTyped == \A c \in Sender, k \in 1 .. MaxTyped : <<c, k>> \in lost => k <= bytes[c]

StreamInv == StreamRight /\ Own /\ Named /\ LostTyped

LEMMA Positive ==
  /\ Size \in Nat \ {0} /\ Prefix \in Nat \ {0} /\ Room \in Nat \ {0}
  /\ MaxLine \in Nat /\ MaxTyped \in Nat
  BY StreamAssumption

LEMMA Types ==
  ASSUME StreamTypeOK
  PROVE  /\ shown \in Seq(Byte) /\ down \in Seq(Byte) /\ Arriving \in Seq(Byte)
         /\ Len(down) \in Nat /\ Len(down) <= Room
         /\ \A c \in Sender :
              /\ bytes[c] \in Nat /\ bytes[c] <= MaxTyped
              /\ line[c] \in Seq(Byte) /\ up[c] \in Seq(Byte)
              /\ relayed[c] \in Seq(Byte)
              /\ Len(line[c]) \in Nat /\ Len(up[c]) \in Nat
              /\ Len(relayed[c]) \in Nat
              /\ Len(up[c]) <= Room /\ Len(relayed[c]) <= Prefix + Size
              /\ Arriving \o relayed[c] \in Seq(Byte)
              /\ Arriving \o relayed[c] \o up[c] \in Seq(Byte)
              /\ Flow(c) \in Seq(Byte)
  <1>1. /\ shown \in Seq(Byte) /\ down \in Seq(Byte)
        /\ Len(down) \in Nat /\ Len(down) <= Room
    BY LenProperties DEF StreamTypeOK
  <1>2. Arriving \in Seq(Byte)
    BY <1>1, JoinedIn DEF Arriving
  <1>3. ASSUME NEW c \in Sender
        PROVE  /\ bytes[c] \in Nat /\ bytes[c] <= MaxTyped
               /\ line[c] \in Seq(Byte) /\ up[c] \in Seq(Byte)
               /\ relayed[c] \in Seq(Byte)
               /\ Len(up[c]) <= Room /\ Len(relayed[c]) <= Prefix + Size
    BY Positive DEF StreamTypeOK
  <1>4. ASSUME NEW c \in Sender
        PROVE  /\ Len(line[c]) \in Nat /\ Len(up[c]) \in Nat
               /\ Len(relayed[c]) \in Nat
               /\ Arriving \o relayed[c] \in Seq(Byte)
               /\ Arriving \o relayed[c] \o up[c] \in Seq(Byte)
               /\ Flow(c) \in Seq(Byte)
    <2>1. PICK m, u, l : m = relayed[c] /\ u = up[c] /\ l = line[c]
      OBVIOUS
    <2>2. m \in Seq(Byte) /\ u \in Seq(Byte) /\ l \in Seq(Byte)
      BY <1>3, <2>1
    <2>3. Len(m) \in Nat /\ Len(u) \in Nat /\ Len(l) \in Nat
      BY <2>2, LenProperties
    <2>4. Arriving \o m \in Seq(Byte)
      BY <1>2, <2>2, JoinedIn
    <2>5. (Arriving \o m) \o u \in Seq(Byte)
      BY <2>2, <2>4, JoinedIn
    <2>6. ((Arriving \o m) \o u) \o l \in Seq(Byte)
      BY <2>2, <2>5, JoinedIn
    <2> QED
      BY <2>1, <2>3, <2>4, <2>5, <2>6 DEF Flow
  <1> QED
    BY <1>1, <1>2, <1>3, <1>4

\* What is between the user and the receiver stays the same as far as the text
\* goes: nothing is missed.
LEMMA StaysKept ==
  ASSUME Kept, UNCHANGED <<bytes, lost>>,
         \A c \in Sender : SameText(c, Flow(c)', Flow(c))
  PROVE  Kept'
  <1>1. ASSUME NEW c \in Sender
        PROVE  /\ TextOf(c, Flow(c)') = ({c} \X (1 .. bytes'[c])) \ lost'
               /\ InOrder(c, Flow(c)')
    <2>1. /\ TextOf(c, Flow(c)) = ({c} \X (1 .. bytes[c])) \ lost
          /\ InOrder(c, Flow(c))
      BY DEF Kept, Flow
    <2> QED
      BY <2>1 DEF SameText
  <1>2. ASSUME NEW c \in Sender, NEW f, f = Flow(c)'
        PROVE  f = Arriving' \o relayed'[c] \o up'[c] \o line'[c]
    BY <1>2 DEF Flow
  <1> QED
    BY <1>1 DEF Kept, Flow

LEMMA InitStream ==
  ASSUME StreamInit
  PROVE  StreamInv
  <1>1. /\ <<>> \in Seq(Byte) /\ Len(<<>>) = 0
        /\ <<>> \o <<>> = <<>>
    BY EmptySeq, ConcatEmptySeq
  <1>2. /\ down = <<>> /\ shown = <<>> /\ lost = {} /\ full = FALSE
        /\ \A c \in Sender : /\ bytes[c] = 0 /\ begun[c] = FALSE /\ line[c] = <<>>
                             /\ up[c] = <<>> /\ relayed[c] = <<>>
    BY DEF StreamInit
  <1>3. StreamTypeOK
    <2>1. /\ bytes \in [Sender -> 0 .. MaxTyped] /\ begun \in [Sender -> BOOLEAN]
      BY Positive DEF StreamInit
    <2>2. PICK e : e = <<>>
      OBVIOUS
    <2>3. /\ line = [c \in Sender |-> e] /\ up = [c \in Sender |-> e]
          /\ relayed = [c \in Sender |-> e] /\ e \in Seq(Byte) /\ Len(e) = 0
      BY <1>1, <2>2 DEF StreamInit
    <2>4. /\ line \in [Sender -> Seq(Byte)] /\ up \in [Sender -> Seq(Byte)]
          /\ relayed \in [Sender -> Seq(Byte)]
          /\ \A c \in Sender : Len(up[c]) = 0 /\ Len(relayed[c]) = 0
      BY <2>3
    <2>5. 0 <= Room /\ 0 <= Prefix + Size
      BY Positive
    <2> QED
      BY <1>1, <1>2, <2>1, <2>4, <2>5 DEF StreamTypeOK
  <1>4. Arriving = <<>> /\ \A c \in Sender : Flow(c) = <<>>
    BY <1>1, <1>2 DEF Arriving, Flow
  <1>5. Kept
    <2>1. ASSUME NEW c \in Sender
          PROVE  TextOf(c, <<>>) = ({c} \X (1 .. bytes[c])) \ lost /\ InOrder(c, <<>>)
      <3>1. DOMAIN <<>> = 1 .. 0
        BY <1>1, LenProperties
      <3>2. TextOf(c, <<>>) = {} /\ InOrder(c, <<>>)
        BY <3>1 DEF TextOf, InOrder
      <3> QED
        BY <1>2, <3>2
    <2> QED
      BY <1>4, <2>1 DEF Kept, Flow
  <1>6. Attributed
    <2>1. DOMAIN Arriving = 1 .. 0
      BY <1>1, <1>4, LenProperties
    <2> QED
      BY <2>1 DEF Attributed
  <1>7. Own
    BY <1>1, <1>2 DEF Own
  <1>8. Named /\ LostTyped
    BY <1>2 DEF Named, LostTyped
  <1> QED
    BY <1>3, <1>5, <1>6, <1>7, <1>8 DEF StreamInv, StreamRight

-----------------------------------------------------------------------------
(* Every step *)

\* A line is typed.
Typed(c, a, n, b) ==
  /\ b \in Seq(Byte) /\ Len(b) = n
  /\ \A i \in 1 .. n : b[i] = <<c, a + i>>
  /\ TextOf(c, b) = {c} \X (a + 1 .. a + n)
  /\ InOrder(c, b)

LEMMA Typing ==
  ASSUME NEW c \in Sender, NEW a \in Nat, NEW n \in Nat \ {0},
         a + n <= MaxTyped, NEW b, b = Bytes(c, a + 1, a + n)
  PROVE  Typed(c, a, n, b)
  <1>1. MaxTyped \in Nat
    BY Positive
  <1>3. b = [i \in 1 .. n |-> <<c, a + i>>]
    <2>1. (a + n) - (a + 1) + 1 = n
      OBVIOUS
    <2>2. \A i \in 1 .. n : (a + 1) + i - 1 = a + i
      OBVIOUS
    <2> QED
      BY <2>1, <2>2 DEF Bytes
  <1>4. \A i \in 1 .. n : /\ b[i] = <<c, a + i>> /\ a + i \in 0 .. MaxTyped
                          /\ a + i \in 1 .. MaxTyped /\ b[i] \in Byte
    BY <1>1, <1>3 DEF Byte
  <1>5. DOMAIN b = 1 .. n /\ b \in Seq(Byte)
    <2>1. b \in [1 .. n -> Byte]
      BY <1>3, <1>4
    <2> QED
      BY <2>1
  <1>6. Len(b) = n
    BY <1>5, LenProperties
  <1>7. TextOf(c, b) = {c} \X (a + 1 .. a + n)
    <2>1. ASSUME NEW x \in {c} \X (a + 1 .. a + n)
          PROVE  x \in TextOf(c, b)
      <3>1. PICK k \in a + 1 .. a + n : x = <<c, k>>
        OBVIOUS
      <3>2. k - a \in 1 .. n /\ a + (k - a) = k
        BY <3>1
      <3>3. b[k - a] = x /\ k \in 1 .. MaxTyped
        BY <1>1, <1>4, <3>1, <3>2
      <3>4. k - a \in DOMAIN b
        BY <1>5, <3>2
      <3>5. x \in {b[i] : i \in DOMAIN b}
        BY <3>3, <3>4
      <3>6. x \in {c} \X (1 .. MaxTyped)
        BY <3>1, <3>3
      <3> QED
        BY <3>5, <3>6 DEF TextOf
    <2>2. ASSUME NEW x \in TextOf(c, b)
          PROVE  x \in {c} \X (a + 1 .. a + n)
      <3>1. PICK i \in 1 .. n : x = b[i]
        BY <1>5 DEF TextOf
      <3>2. a + i \in a + 1 .. a + n
        BY <3>1
      <3>3. x = <<c, a + i>>
        BY <1>4, <3>1
      <3> QED
        BY <3>2, <3>3
    <2> QED
      BY <2>1, <2>2
  <1>8. InOrder(c, b)
    <2>1. ASSUME NEW i \in 1 .. n, NEW j \in 1 .. n, i < j
          PROVE  b[i][2] < b[j][2]
      <3>1. b[i][2] = a + i /\ b[j][2] = a + j
        BY <1>4
      <3> QED
        BY <2>1, <3>1
    <2> QED
      BY <1>5, <2>1 DEF InOrder
  <1> QED
    BY <1>4, <1>5, <1>6, <1>7, <1>8 DEF Typed

LEMMA TypeKeeps ==
  ASSUME StreamInv, NEW c \in Sender, Type(c)
  PROVE  StreamInv'
  <1> USE DEF StreamInv, StreamRight
  <1>1. /\ line[c] = <<>> /\ UNCHANGED <<up, relayed, down, shown, lost, full>>
        /\ begun' = [begun EXCEPT ![c] = FALSE]
    BY DEF Type
  <1>2. PICK n \in 1 .. MaxLine :
          /\ bytes[c] + n <= MaxTyped
          /\ bytes' = [bytes EXCEPT ![c] = @ + n]
          /\ line' = [line EXCEPT ![c] = Bytes(c, bytes[c] + 1, bytes[c] + n)]
    BY DEF Type
  <1>3. PICK a \in Nat : a = bytes[c]
    BY Types
  <1>4. PICK b : b = Bytes(c, a + 1, a + n)
    OBVIOUS
  <1>5. n \in Nat \ {0} /\ a + n <= MaxTyped
    BY <1>2, <1>3, Positive
  <1>6. /\ b \in Seq(Byte) /\ Len(b) = n
        /\ \A i \in 1 .. n : b[i] = <<c, a + i>>
        /\ TextOf(c, b) = {c} \X (a + 1 .. a + n) /\ InOrder(c, b)
    <2>1. Typed(c, a, n, b)
      BY <1>4, <1>5, Typing
    <2> QED
      BY <2>1 DEF Typed
  <1>7. /\ bytes' = [bytes EXCEPT ![c] = a + n] /\ line' = [line EXCEPT ![c] = b]
        /\ bytes \in [Sender -> 0 .. MaxTyped] /\ line \in [Sender -> Seq(Byte)]
        /\ begun \in [Sender -> BOOLEAN]
    BY <1>2, <1>3, <1>4 DEF StreamTypeOK
  <1>8. /\ bytes'[c] = a + n /\ line'[c] = b
        /\ \A d \in Sender : d # c => bytes'[d] = bytes[d] /\ line'[d] = line[d]
    BY <1>7
  <1>9. StreamTypeOK'
    <2>1. bytes' \in [Sender -> 0 .. MaxTyped]
      BY <1>5, <1>7, Positive
    <2>2. line' \in [Sender -> Seq(Byte)]
      BY <1>6, <1>7
    <2>3. begun' \in [Sender -> BOOLEAN]
      BY <1>1, <1>7
    <2> QED
      BY <1>1, <2>1, <2>2, <2>3 DEF StreamTypeOK
  <1>10. Kept'
    <2>1. ASSUME NEW d \in Sender
          PROVE  /\ TextOf(d, Flow(d)') = ({d} \X (1 .. bytes'[d])) \ lost'
                 /\ InOrder(d, Flow(d)')
      <3>1. /\ TextOf(d, Flow(d)) = ({d} \X (1 .. bytes[d])) \ lost
            /\ InOrder(d, Flow(d))
        BY DEF Kept, Flow
      <3>2. CASE d # c
        <4>1. Flow(d)' = Flow(d)
          BY <1>1, <1>8, <3>2 DEF Flow, Arriving
        <4> QED
          BY <1>1, <1>8, <3>1, <3>2, <4>1
      <3>3. CASE d = c
        <4>1. PICK x : x = Arriving \o relayed[c] \o up[c]
          OBVIOUS
        <4>2. x \in Seq(Byte)
          BY <4>1, Types
        <4>3. Flow(c) = x
          BY <1>1, <4>1, <4>2, ConcatEmptySeq DEF Flow
        <4>4. Flow(c)' = x \o b
          BY <1>1, <1>8, <4>1 DEF Flow, Arriving
        <4>5. /\ TextOf(c, x \o b) = TextOf(c, x) \cup TextOf(c, b)
              /\ InOrder(c, x \o b)
                   <=> InOrder(c, x) /\ InOrder(c, b) /\ Below(c, x, b)
          BY <1>6, <4>2, TextJoined
        <4>6. TextOf(c, x) = ({c} \X (1 .. a)) \ lost /\ InOrder(c, x)
          BY <1>3, <3>1, <3>3, <4>3
        <4>7. Below(c, x, b)
          <5>1. ASSUME NEW p \in {c} \X (1 .. a), NEW q \in {c} \X (a + 1 .. a + n)
                PROVE  p[2] < q[2]
            OBVIOUS
          <5> QED
            BY <1>6, <4>6, <5>1 DEF Below
        <4>8. TextOf(c, x) \cup TextOf(c, b) = ({c} \X (1 .. a + n)) \ lost
          <5>1. \A k \in a + 1 .. a + n : <<c, k>> \notin lost
            BY <1>3, <1>5, Positive DEF LostTyped
          <5>2. {c} \X (1 .. a + n) = ({c} \X (1 .. a)) \cup ({c} \X (a + 1 .. a + n))
            <6>1. 1 .. a + n = (1 .. a) \cup (a + 1 .. a + n)
              BY <1>5
            <6> QED
              BY <6>1
          <5>3. ({c} \X (a + 1 .. a + n)) \cap lost = {}
            BY <5>1
          <5> QED
            BY <1>6, <4>6, <5>2, <5>3
        <4> QED
          BY <1>1, <1>6, <1>8, <3>3, <4>4, <4>5, <4>6, <4>7, <4>8
      <3> QED
        BY <3>2, <3>3
    <2> QED
      BY <2>1 DEF Kept, Flow
  <1>11. Attributed'
    BY <1>1 DEF Attributed, Arriving
  <1>12. Own'
    <2>1. \A i \in 1 .. Len(b) : b[i] \in {c} \X (1 .. MaxTyped)
      <3>1. \A i \in 1 .. n : a + i \in 1 .. MaxTyped
        BY <1>5, Positive
      <3> SUFFICES ASSUME NEW i \in 1 .. n PROVE b[i] \in {c} \X (1 .. MaxTyped)
        BY <1>6
      <3>2. <<c, a + i>> \in {c} \X (1 .. MaxTyped)
        BY <3>1
      <3> QED
        BY <1>6, <3>2
    <2> QED
      BY <1>1, <1>8, <2>1 DEF Own
  <1>13. Named'
    BY <1>1 DEF Named
  <1>14. LostTyped'
    <2>1. ASSUME NEW d \in Sender, NEW k \in 1 .. MaxTyped, <<d, k>> \in lost'
          PROVE  k <= bytes'[d]
      <3>1. k <= bytes[d] /\ bytes[d] \in Nat
        BY <1>1, <2>1, Types DEF LostTyped
      <3> QED
        BY <1>3, <1>5, <1>8, <3>1, Positive
    <2> QED
      BY <2>1 DEF LostTyped
  <1> QED
    BY <1>9, <1>10, <1>11, <1>12, <1>13, <1>14

\* The client sends.
LEMMA SendKeeps ==
  ASSUME StreamInv, NEW c \in Sender, SendLine(c)
  PROVE  StreamInv'
  <1> USE DEF StreamInv, StreamRight
  <1>1. PICK n : n = Min({Len(line[c]), Room - Len(up[c])})
    OBVIOUS
  <1>2. /\ n > 0 /\ up' = [up EXCEPT ![c] = @ \o First(line[c], n)]
        /\ line' = [line EXCEPT ![c] = After(@, n)]
        /\ begun' = [begun EXCEPT ![c] = TRUE]
        /\ UNCHANGED <<bytes, relayed, down, shown, lost, full>>
    BY <1>1 DEF SendLine
  <1>3. PICK l, u : l = line[c] /\ u = up[c]
    OBVIOUS
  <1>4. /\ l \in Seq(Byte) /\ u \in Seq(Byte) /\ Len(l) \in Nat /\ Len(u) \in Nat
        /\ Len(u) <= Room /\ Room \in Nat
    BY <1>3, Types, Positive
  <1>5. n \in 0 .. Len(l) /\ n <= Room - Len(u)
    <2>1. PICK r \in Nat : r = Room - Len(u)
      BY <1>4
    <2> QED
      BY <1>1, <1>3, <1>4, <2>1, SmallerOf
  <1>6. PICK f, r : f = First(l, n) /\ r = After(l, n)
    OBVIOUS
  <1>7. /\ f \in Seq(Byte) /\ r \in Seq(Byte) /\ Len(f) = n /\ Len(r) = Len(l) - n
        /\ f \o r = l
        /\ \A i \in 1 .. n : f[i] = l[i]
        /\ \A i \in 1 .. Len(l) - n : r[i] = l[n + i]
    BY <1>4, <1>5, <1>6, CutInTwo
  <1>8. PICK w : w = u \o f
    OBVIOUS
  <1>17. /\ w \in Seq(Byte) /\ Len(w) = Len(u) + n
         /\ \A i \in 1 .. Len(u) : w[i] = u[i]
         /\ \A i \in 1 .. n : w[Len(u) + i] = f[i]
         /\ \A k \in 1 .. Len(u) + n :
              k \in 1 .. Len(u) \/ \E i \in 1 .. n : k = Len(u) + i
    <2>1. Joins(Byte, u, f, w)
      BY <1>4, <1>7, <1>8, Joined
    <2> QED
      BY <1>7, <2>1 DEF Joins
  <1>9. /\ up' = [up EXCEPT ![c] = w] /\ line' = [line EXCEPT ![c] = r]
        /\ up \in [Sender -> Seq(Byte)] /\ line \in [Sender -> Seq(Byte)]
        /\ begun \in [Sender -> BOOLEAN]
    BY <1>2, <1>3, <1>6, <1>8 DEF StreamTypeOK
  <1>10. /\ up'[c] = w /\ line'[c] = r
         /\ \A d \in Sender : d # c => up'[d] = up[d] /\ line'[d] = line[d]
    BY <1>9
  <1>11. StreamTypeOK'
    <2>1. up' \in [Sender -> Seq(Byte)] /\ line' \in [Sender -> Seq(Byte)]
      BY <1>7, <1>17, <1>9
    <2>2. begun' \in [Sender -> BOOLEAN]
      BY <1>2, <1>9
    <2>3. Len(w) <= Room
      BY <1>4, <1>5, <1>17
    <2> QED
      BY <1>2, <1>10, <2>1, <2>2, <2>3 DEF StreamTypeOK
  <1>12. Kept'
    <2>1. ASSUME NEW d \in Sender PROVE Flow(d)' = Flow(d)
      <3>1. CASE d # c
        BY <1>2, <1>10, <3>1 DEF Flow, Arriving
      <3>2. CASE d = c
        <4>1. PICK x : x = Arriving \o relayed[c]
          OBVIOUS
        <4>2. x \in Seq(Byte) /\ x \o u \in Seq(Byte)
          BY <1>3, <4>1, Types
        <4>3. Flow(c) = (x \o u) \o l
          BY <1>3, <4>1 DEF Flow
        <4>4. Flow(c)' = (x \o w) \o r
          BY <1>2, <1>10, <4>1 DEF Flow, Arriving
        <4>5. (x \o (u \o f)) \o r = (x \o u) \o (f \o r)
          <5>1. Regrouped(Byte, x, u, f, r)
            BY <1>4, <1>7, <4>2, Regroup
          <5> QED
            BY <5>1 DEF Regrouped
        <4> QED
          BY <1>7, <1>8, <3>2, <4>3, <4>4, <4>5
      <3> QED
        BY <3>1, <3>2
    <2>2. \A d \in Sender : SameText(d, Flow(d)', Flow(d))
      BY <2>1 DEF SameText
    <2> QED
      BY <1>2, <2>2, StaysKept
  <1>13. Attributed'
    BY <1>2 DEF Attributed, Arriving
  <1>14. Own'
    <2>1. /\ \A i \in 1 .. Len(l) : l[i] \in {c} \X (1 .. MaxTyped)
          /\ \A i \in 1 .. Len(u) : u[i] \in {c} \X (1 .. MaxTyped)
      BY <1>3 DEF Own
    <2>2. /\ \A i \in 1 .. n : i \in 1 .. Len(l)
          /\ \A i \in 1 .. Len(l) - n : n + i \in 1 .. Len(l)
      BY <1>4, <1>5
    <2>3. \A i \in 1 .. Len(r) : r[i] \in {c} \X (1 .. MaxTyped)
      BY <1>7, <2>1, <2>2
    <2>4. \A i \in 1 .. Len(w) : w[i] \in {c} \X (1 .. MaxTyped)
      <3> SUFFICES ASSUME NEW k \in 1 .. Len(w) PROVE w[k] \in {c} \X (1 .. MaxTyped)
        OBVIOUS
      <3>1. CASE k \in 1 .. Len(u)
        BY <1>17, <2>1, <3>1
      <3>2. CASE \E i \in 1 .. n : k = Len(u) + i
        <4>1. PICK i \in 1 .. n : k = Len(u) + i
          BY <3>2
        <4>2. w[k] = f[i] /\ f[i] = l[i] /\ i \in 1 .. Len(l)
          BY <1>7, <1>17, <2>2, <4>1
        <4> QED
          BY <2>1, <4>2
      <3>3. k \in 1 .. Len(u) + n
        BY <1>17
      <3> QED
        BY <1>17, <3>1, <3>2, <3>3
    <2>5. ASSUME NEW d \in Sender, d # c
          PROVE  /\ relayed'[d] = relayed[d] /\ up'[d] = up[d] /\ line'[d] = line[d]
      BY <1>2, <1>10, <2>5
    <2> QED
      BY <1>2, <1>10, <2>3, <2>4, <2>5 DEF Own
  <1>15. Named'
    BY <1>2 DEF Named
  <1>16. LostTyped'
    BY <1>2 DEF LostTyped
  <1> QED
    BY <1>11, <1>12, <1>13, <1>14, <1>15, <1>16

\* A signal makes send return: what it had left is lost, the end of what c typed.
LEMMA InterruptKeeps ==
  ASSUME StreamInv, NEW c \in Sender, InterruptSend(c)
  PROVE  StreamInv'
  <1> USE DEF StreamInv, StreamRight
  <1>1. PICK l, x : l = line[c] /\ x = Arriving \o relayed[c] \o up[c]
    OBVIOUS
  <1>2. PICK R : R = {l[i] : i \in DOMAIN l}
    OBVIOUS
  <1>3. /\ lost' = lost \cup R /\ line' = [line EXCEPT ![c] = <<>>]
        /\ UNCHANGED <<bytes, begun, up, relayed, down, shown, full>>
    BY <1>1, <1>2 DEF InterruptSend
  <1>4. /\ l \in Seq(Byte) /\ x \in Seq(Byte) /\ DOMAIN l = 1 .. Len(l)
        /\ line \in [Sender -> Seq(Byte)] /\ <<>> \in Seq(Byte) /\ Len(<<>>) = 0
    BY <1>1, Types, LenProperties, EmptySeq DEF StreamTypeOK
  <1>5. /\ line'[c] = <<>>
        /\ \A d \in Sender : d # c => line'[d] = line[d]
    BY <1>3, <1>4
  <1>6. R = TextOf(c, l) /\ R \subseteq {c} \X (1 .. MaxTyped)
    <2>1. \A i \in 1 .. Len(l) : l[i] \in {c} \X (1 .. MaxTyped)
      BY <1>1 DEF Own
    <2> QED
      BY <1>2, <1>4, <2>1 DEF TextOf
  <1>7. PICK a \in Nat : a = bytes[c]
    BY Types
  <1>8. /\ TextOf(c, x) \cup R = ({c} \X (1 .. a)) \ lost
        /\ InOrder(c, x) /\ Below(c, x, l)
    <2>1. /\ TextOf(c, Flow(c)) = ({c} \X (1 .. a)) \ lost
          /\ InOrder(c, Flow(c))
      BY <1>7 DEF Kept, Flow
    <2>2. Flow(c) = x \o l
      BY <1>1 DEF Flow
    <2>3. /\ TextOf(c, x \o l) = TextOf(c, x) \cup TextOf(c, l)
          /\ InOrder(c, x \o l)
               <=> InOrder(c, x) /\ InOrder(c, l) /\ Below(c, x, l)
      BY <1>4, TextJoined
    <2> QED
      BY <1>6, <2>1, <2>2, <2>3
  <1>9. StreamTypeOK'
    <2>1. line' \in [Sender -> Seq(Byte)]
      BY <1>3, <1>4
    <2>2. R \subseteq Byte
      <3>1. \A i \in 1 .. Len(l) : l[i] \in Byte
        BY <1>4, ElementOfSeq
      <3> QED
        BY <1>2, <1>4, <3>1
    <2> QED
      BY <1>3, <2>1, <2>2 DEF StreamTypeOK
  <1>10. Kept'
    <2>1. ASSUME NEW d \in Sender
          PROVE  /\ TextOf(d, Flow(d)') = ({d} \X (1 .. bytes'[d])) \ lost'
                 /\ InOrder(d, Flow(d)')
      <3>1. CASE d # c
        <4>1. /\ TextOf(d, Flow(d)) = ({d} \X (1 .. bytes[d])) \ lost
              /\ InOrder(d, Flow(d))
          BY DEF Kept, Flow
        <4>2. Flow(d)' = Flow(d)
          BY <1>3, <1>5, <3>1 DEF Flow, Arriving
        <4>3. R \cap ({d} \X (1 .. bytes[d])) = {}
          BY <1>6, <3>1
        <4> QED
          BY <1>3, <4>1, <4>2, <4>3
      <3>2. CASE d = c
        <4>1. Flow(c)' = x
          <5>1. Flow(c)' = x \o <<>>
            BY <1>1, <1>3, <1>5 DEF Flow, Arriving
          <5> QED
            BY <1>4, <5>1, ConcatEmptySeq
        <4>2. TextOf(c, x) \cap R = {}
          <5>1. \A y \in TextOf(c, x) : y[2] \in Nat
            BY Positive DEF TextOf
          <5> SUFFICES ASSUME NEW y \in TextOf(c, x), y \in R PROVE FALSE
            OBVIOUS
          <5>2. y[2] < y[2]
            BY <1>6, <1>8 DEF Below
          <5> QED
            BY <5>1, <5>2
        <4>3. TextOf(c, x) = ({c} \X (1 .. a)) \ (lost \cup R)
          BY <1>8, <4>2
        <4> QED
          BY <1>3, <1>7, <1>8, <3>2, <4>1, <4>3
      <3> QED
        BY <3>1, <3>2
    <2> QED
      BY <2>1 DEF Kept, Flow
  <1>11. Attributed'
    BY <1>3 DEF Attributed, Arriving
  <1>12. Own'
    BY <1>3, <1>4, <1>5 DEF Own
  <1>13. Named'
    BY <1>3 DEF Named
  <1>14. LostTyped'
    <2>1. ASSUME NEW d \in Sender, NEW k \in 1 .. MaxTyped, <<d, k>> \in lost'
          PROVE  k <= bytes'[d]
      <3>1. CASE <<d, k>> \in lost
        BY <1>3, <3>1 DEF LostTyped
      <3>2. CASE <<d, k>> \in R
        <4>1. <<d, k>> \in {c} \X (1 .. a)
          BY <1>8, <3>2
        <4> QED
          BY <1>3, <1>7, <4>1
      <3> QED
        BY <1>3, <2>1, <3>1, <3>2
    <2> QED
      BY <2>1 DEF LostTyped
  <1> QED
    BY <1>9, <1>10, <1>11, <1>12, <1>13, <1>14

\* The other parts of c's stream do not tell apart what is the same text.
LEMMA FlowOf ==
  ASSUME NEW c, NEW S, NEW s \in Seq(S), NEW t \in Seq(S), NEW m \in Seq(S),
         NEW u \in Seq(S), SameText(c, s, t)
  PROVE  SameText(c, (s \o m) \o u, (t \o m) \o u)
  <1>1. SameText(c, s \o m, t \o m)
    BY SameInPlace
  <1>2. s \o m \in Seq(S) /\ t \o m \in Seq(S)
    BY JoinedIn
  <1> QED
    BY <1>1, <1>2, SameInPlace

\* recv: some of what has come, and the prefix put in front of it.
LEMMA RecvKeeps ==
  ASSUME StreamInv, NEW c \in Sender, Recv(c)
  PROVE  StreamInv'
  <1> USE DEF StreamInv, StreamRight
  <1>1. PICK u, p : u = up[c] /\ p = [i \in 1 .. Prefix |-> <<c, 0>>]
    OBVIOUS
  <1>2. PICK n \in 1 .. Min({Size, Len(u)}) :
          /\ relayed' = [relayed EXCEPT ![c] = p \o First(u, n)]
          /\ up' = [up EXCEPT ![c] = After(u, n)]
    BY <1>1 DEF Recv, Text
  <1>3. relayed[c] = <<>> /\ UNCHANGED <<sending, down, shown, full>>
    BY DEF Recv
  <1>4. /\ u \in Seq(Byte) /\ Len(u) \in Nat /\ Len(u) <= Room
        /\ Size \in Nat \ {0} /\ Prefix \in Nat \ {0} /\ MaxTyped \in Nat
        /\ Room \in Nat
    BY <1>1, Types, Positive
  <1>5. n \in 0 .. Len(u) /\ n <= Size /\ n \in Nat \ {0}
    BY <1>4, SmallerOf
  <1>6. PICK f, r : f = First(u, n) /\ r = After(u, n)
    OBVIOUS
  <1>7. /\ f \in Seq(Byte) /\ r \in Seq(Byte) /\ Len(f) = n /\ Len(r) = Len(u) - n
        /\ f \o r = u
        /\ \A i \in 1 .. n : f[i] = u[i]
        /\ \A i \in 1 .. Len(u) - n : r[i] = u[n + i]
    BY <1>4, <1>5, <1>6, CutInTwo
  <1>8. /\ p \in Seq(Byte) /\ Len(p) = Prefix
        /\ \A i \in 1 .. Prefix : p[i] = <<c, 0>>
    <2>1. <<c, 0>> \in Byte
      BY <1>4 DEF Byte
    <2>2. p \in [1 .. Prefix -> Byte] /\ DOMAIN p = 1 .. Prefix
      BY <1>1, <2>1
    <2>3. p \in Seq(Byte)
      BY <1>4, <2>2
    <2>4. Len(p) = Prefix
      BY <1>4, <2>2, <2>3, LenProperties
    <2>5. \A i \in 1 .. Prefix : p[i] = <<c, 0>>
      BY <1>1
    <2> QED
      BY <2>3, <2>4, <2>5
  <1>9. PICK w : w = p \o f
    OBVIOUS
  <1>10. /\ w \in Seq(Byte) /\ Len(w) = Prefix + n
         /\ \A i \in 1 .. Prefix : w[i] = p[i]
         /\ \A i \in 1 .. n : w[Prefix + i] = f[i]
         /\ \A k \in 1 .. Prefix + n :
              k \in 1 .. Prefix \/ \E i \in 1 .. n : k = Prefix + i
    <2>1. Joins(Byte, p, f, w)
      BY <1>7, <1>8, <1>9, Joined
    <2> QED
      BY <1>7, <1>8, <2>1 DEF Joins
  <1>11. /\ relayed' = [relayed EXCEPT ![c] = w] /\ up' = [up EXCEPT ![c] = r]
         /\ up \in [Sender -> Seq(Byte)] /\ relayed \in [Sender -> Seq(Byte)]
    BY <1>2, <1>6, <1>9 DEF StreamTypeOK
  <1>12. /\ relayed'[c] = w /\ up'[c] = r
         /\ \A d \in Sender : d # c => up'[d] = up[d] /\ relayed'[d] = relayed[d]
    BY <1>11
  <1>13. /\ bytes' = bytes /\ line' = line /\ begun' = begun /\ lost' = lost
         /\ down' = down /\ shown' = shown /\ full' = full /\ Arriving' = Arriving
    BY <1>3 DEF sending, Arriving
  <1>14. StreamTypeOK'
    <2>1. up' \in [Sender -> Seq(Byte)] /\ relayed' \in [Sender -> Seq(Byte)]
      BY <1>7, <1>10, <1>11
    <2>2. Len(r) <= Room /\ Len(w) <= Prefix + Size
      BY <1>4, <1>5, <1>7, <1>10
    <2> QED
      BY <1>12, <1>13, <2>1, <2>2 DEF StreamTypeOK
  <1>15. Kept'
    <2>1. ASSUME NEW d \in Sender PROVE SameText(d, Flow(d)', Flow(d))
      <3>1. CASE d # c
        <4>1. Flow(d)' = Flow(d)
          BY <1>12, <1>13, <3>1 DEF Flow
        <4> QED
          BY <4>1 DEF SameText
      <3>2. CASE d = c
        <4>1. PICK A, l : A = Arriving /\ l = line[c]
          OBVIOUS
        <4>2. A \in Seq(Byte) /\ l \in Seq(Byte)
          BY <4>1, Types
        <4>3. Flow(c) = (A \o u) \o l
          BY <1>1, <1>3, <4>1, <4>2, ConcatEmptySeq DEF Flow
        <4>4. Flow(c)' = ((A \o w) \o r) \o l
          BY <1>12, <1>13, <4>1 DEF Flow
        <4>5. SameText(c, w, f)
          <5>1. \A i \in 1 .. Len(p) : p[i] \notin {c} \X (1 .. MaxTyped)
            BY <1>4, <1>8
          <5>2. SameText(c, p \o f, f)
            BY <1>7, <1>8, <5>1, NoText
          <5> QED
            BY <1>9, <5>2
        <4>6. SameText(c, A \o w, A \o f)
          BY <1>7, <1>10, <4>2, <4>5, SameInPlace
        <4>7. A \o w \in Seq(Byte) /\ A \o f \in Seq(Byte)
          BY <1>7, <1>10, <4>2, JoinedIn
        <4>8. SameText(c, ((A \o w) \o r) \o l, ((A \o f) \o r) \o l)
          BY <1>7, <4>2, <4>6, <4>7, FlowOf
        <4>9. (A \o f) \o r = A \o (f \o r)
          <5>1. Grouped(Byte, A, f, r)
            BY <1>7, <4>2, Group
          <5> QED
            BY <5>1 DEF Grouped
        <4> QED
          BY <1>7, <3>2, <4>3, <4>4, <4>8, <4>9
      <3> QED
        BY <3>1, <3>2
    <2> QED
      BY <1>13, <2>1, StaysKept
  <1>16. Attributed'
    BY <1>13 DEF Attributed
  <1>17. Own'
    <2>1. /\ \A i \in 1 .. Len(u) : u[i] \in {c} \X (1 .. MaxTyped)
      BY <1>1 DEF Own
    <2>2. \A i \in 1 .. Len(r) : r[i] \in {c} \X (1 .. MaxTyped)
      <3>1. \A i \in 1 .. Len(u) - n : n + i \in 1 .. Len(u)
        BY <1>4, <1>5
      <3>2. ASSUME NEW i \in 1 .. Len(u) - n
            PROVE  r[i] \in {c} \X (1 .. MaxTyped)
        <4>1. r[i] = u[n + i] /\ n + i \in 1 .. Len(u)
          BY <1>7, <3>1
        <4> QED
          BY <2>1, <4>1
      <3> QED
        BY <1>7, <3>2
    <2>3. ASSUME NEW k \in 1 .. Len(w) PROVE w[k][1] = c
      <3>1. CASE k \in 1 .. Prefix
        BY <1>8, <1>10, <3>1
      <3>2. CASE \E i \in 1 .. n : k = Prefix + i
        <4>1. PICK i \in 1 .. n : k = Prefix + i
          BY <3>2
        <4>2. i \in 1 .. Len(u)
          BY <1>4, <1>5
        <4>3. w[k] = u[i]
          BY <1>7, <1>10, <4>1
        <4> QED
          BY <2>1, <4>2, <4>3
      <3>3. k \in 1 .. Prefix + n
        BY <1>10
      <3> QED
        BY <1>10, <3>1, <3>2, <3>3
    <2>4. ASSUME NEW d \in Sender, d # c
          PROVE  relayed'[d] = relayed[d] /\ up'[d] = up[d]
      BY <1>12, <2>4
    <2> QED
      BY <1>12, <1>13, <2>2, <2>3, <2>4 DEF Own
  <1>18. Named'
    <2>1. w[1] = <<c, 0>>
      BY <1>4, <1>8, <1>10
    <2> QED
      BY <1>12, <1>13, <2>1 DEF Named
  <1>19. LostTyped'
    BY <1>13 DEF LostTyped
  <1> QED
    BY <1>14, <1>15, <1>16, <1>17, <1>18, <1>19

\* Every piece of text in A is behind its sender's prefix.
Behind(A) ==
  \A i \in 1 .. Len(A) :
    A[i][2] # 0 =>
      \E j \in 1 .. i - 1 : /\ A[j] = <<A[i][1], 0>>
                            /\ \A k \in j .. i : A[k][1] = A[i][1]

\* A message that arrives whole brings its prefix.
LEMMA WholeMessage ==
  ASSUME NEW S, NEW A \in Seq(S), NEW m \in Seq(S), NEW c, Behind(A),
         m[1] = <<c, 0>>, \A i \in 1 .. Len(m) : m[i][1] = c
  PROVE  Behind(A \o m)
  <1>1. PICK w, a, n : w = A \o m /\ a = Len(A) /\ n = Len(m)
    OBVIOUS
  <1>2. /\ Len(w) = a + n /\ a \in Nat /\ n \in Nat
        /\ \A i \in 1 .. a : w[i] = A[i]
        /\ \A i \in 1 .. n : w[a + i] = m[i]
        /\ \A k \in 1 .. a + n : k \in 1 .. a \/ \E i \in 1 .. n : k = a + i
    <2>1. Joins(S, A, m, w)
      BY <1>1, Joined
    <2> QED
      BY <1>1, <2>1 DEF Joins
  <1>3. ASSUME NEW k \in 1 .. a, w[k][2] # 0
        PROVE  \E j \in 1 .. k - 1 : /\ w[j] = <<w[k][1], 0>>
                                     /\ \A q \in j .. k : w[q][1] = w[k][1]
    <2>1. w[k] = A[k]
      BY <1>2
    <2>2. PICK j \in 1 .. k - 1 : /\ A[j] = <<A[k][1], 0>>
                                  /\ \A q \in j .. k : A[q][1] = A[k][1]
      BY <1>1, <1>3, <2>1 DEF Behind
    <2>3. j \in 1 .. a /\ \A q \in j .. k : q \in 1 .. a
      BY <1>2, <2>2
    <2>4. w[j] = A[j] /\ \A q \in j .. k : w[q] = A[q]
      BY <1>2, <2>3
    <2> QED
      BY <2>1, <2>2, <2>4
  <1>4. ASSUME NEW i \in 1 .. n, w[a + i][2] # 0
        PROVE  \E j \in 1 .. (a + i) - 1 :
                 /\ w[j] = <<w[a + i][1], 0>>
                 /\ \A q \in j .. a + i : w[q][1] = w[a + i][1]
    <2>1. w[a + i] = m[i] /\ w[a + i][1] = c
      BY <1>1, <1>2
    <2>2. i # 1
      BY <1>4, <2>1
    <2>3. a + 1 \in 1 .. (a + i) - 1 /\ 1 \in 1 .. n
      BY <1>2, <2>2
    <2>4. w[a + 1] = <<c, 0>>
      BY <1>2, <2>3
    <2>5. ASSUME NEW q \in a + 1 .. a + i PROVE w[q][1] = c
      <3>1. q - a \in 1 .. n /\ a + (q - a) = q
        BY <1>2
      <3>2. w[q] = m[q - a]
        BY <1>2, <3>1
      <3> QED
        BY <1>1, <3>1, <3>2
    <2> QED
      BY <2>1, <2>3, <2>4, <2>5
  <1>5. ASSUME NEW k \in 1 .. a + n, w[k][2] # 0
        PROVE  \E j \in 1 .. k - 1 : /\ w[j] = <<w[k][1], 0>>
                                     /\ \A q \in j .. k : w[q][1] = w[k][1]
    <2>1. CASE k \in 1 .. a
      BY <1>3, <1>5, <2>1
    <2>2. CASE \E i \in 1 .. n : k = a + i
      BY <1>4, <1>5, <2>2
    <2> QED
      BY <1>2, <2>1, <2>2
  <1> QED
    BY <1>1, <1>2, <1>5 DEF Behind

\* sendMessage: as much of the message as there is room for.
LEMMA SendMessageKeeps ==
  ASSUME StreamInv, NEW c \in Sender, SendMessage(c)
  PROVE  StreamInv'
  <1> USE DEF StreamInv, StreamRight
  <1>1. PICK n, m : m = relayed[c] /\ n = Min({Len(m), Room - Len(down)})
    OBVIOUS
  <1>2. /\ n > 0 /\ down' = down \o First(m, n)
        /\ relayed' = [relayed EXCEPT ![c] = After(m, n)]
        /\ full' = (full \/ Len(m) > Room - Len(down))
        /\ UNCHANGED <<sending, up, shown>>
    BY <1>1 DEF SendMessage, Chunk
  <1>3. /\ m \in Seq(Byte) /\ Len(m) \in Nat /\ Len(down) \in Nat
        /\ Len(down) <= Room /\ Room \in Nat /\ Len(m) <= Prefix + Size
        /\ down \in Seq(Byte) /\ shown \in Seq(Byte) /\ Arriving \in Seq(Byte)
        /\ Prefix + Size \in Nat
    BY <1>1, Types, Positive
  <1>4. /\ n \in 0 .. Len(m) /\ n <= Room - Len(down) /\ n \in Nat
        /\ Len(m) <= Room - Len(down) => n = Len(m)
    <2>1. PICK k \in Nat : k = Len(down)
      BY <1>3
    <2>2. k <= Room /\ Room \in Nat
      BY <1>3, <2>1
    <2>3. Room - k \in Nat
      BY <2>2
    <2>4. PICK r \in Nat : r = Room - Len(down)
      BY <2>1, <2>3
    <2>5. /\ n \in Nat /\ n <= Len(m) /\ n <= r /\ (n = Len(m) \/ n = r)
      BY <1>1, <1>3, <2>4, SmallerOf
    <2> QED
      BY <1>3, <2>4, <2>5
  <1>5. PICK f, r : f = First(m, n) /\ r = After(m, n)
    OBVIOUS
  <1>6. /\ f \in Seq(Byte) /\ r \in Seq(Byte) /\ Len(f) = n /\ Len(r) = Len(m) - n
        /\ f \o r = m
        /\ \A i \in 1 .. n : f[i] = m[i]
        /\ \A i \in 1 .. Len(m) - n : r[i] = m[n + i]
    BY <1>3, <1>4, <1>5, CutInTwo
  <1>7. PICK w : w = down \o f
    OBVIOUS
  <1>8. w \in Seq(Byte) /\ Len(w) = Len(down) + n
    <2>1. Joins(Byte, down, f, w)
      BY <1>3, <1>6, <1>7, Joined
    <2> QED
      BY <1>6, <2>1 DEF Joins
  <1>9. /\ relayed' = [relayed EXCEPT ![c] = r] /\ down' = w
        /\ relayed \in [Sender -> Seq(Byte)] /\ full \in BOOLEAN
    BY <1>2, <1>5, <1>7 DEF StreamTypeOK
  <1>10. /\ relayed'[c] = r
         /\ \A d \in Sender : d # c => relayed'[d] = relayed[d]
    BY <1>9
  <1>11. /\ bytes' = bytes /\ line' = line /\ begun' = begun /\ lost' = lost
         /\ up' = up /\ shown' = shown
    BY <1>2 DEF sending
  <1>12. Arriving' = Arriving \o f
    <2>1. Grouped(Byte, shown, down, f)
      BY <1>3, <1>6, Group
    <2> QED
      BY <1>7, <1>9, <1>11, <2>1 DEF Arriving, Grouped
  <1>13. StreamTypeOK'
    <2>1. relayed' \in [Sender -> Seq(Byte)] /\ full' \in BOOLEAN
      BY <1>2, <1>6, <1>9
    <2>2. Len(w) <= Room /\ Len(r) <= Prefix + Size
      BY <1>3, <1>4, <1>6, <1>8
    <2> QED
      BY <1>8, <1>9, <1>10, <1>11, <2>1, <2>2 DEF StreamTypeOK
  <1>14. \A i \in 1 .. Len(m) : m[i][1] = c
    BY <1>1 DEF Own
  <1>15. Kept'
    <2>1. ASSUME NEW d \in Sender PROVE SameText(d, Flow(d)', Flow(d))
      <3>1. PICK A, u, l : A = Arriving /\ u = up[d] /\ l = line[d]
        OBVIOUS
      <3>2. A \in Seq(Byte) /\ u \in Seq(Byte) /\ l \in Seq(Byte)
        BY <3>1, Types
      <3>3. CASE d # c
        <4>1. PICK x : x = relayed[d]
          OBVIOUS
        <4>2. x \in Seq(Byte)
          BY <4>1, Types
        <4>3. Flow(d) = ((A \o x) \o u) \o l
          BY <3>1, <4>1 DEF Flow
        <4>4. Flow(d)' = (((A \o f) \o x) \o u) \o l
          BY <1>10, <1>11, <1>12, <3>1, <3>3, <4>1 DEF Flow
        <4>5. SameText(d, A \o f, A)
          <5>1. ASSUME NEW i \in 1 .. Len(f) PROVE f[i] \notin {d} \X (1 .. MaxTyped)
            <6>1. f[i] = m[i] /\ i \in 1 .. Len(m)
              BY <1>3, <1>4, <1>6
            <6>2. f[i][1] # d
              BY <1>14, <3>3, <6>1
            <6> QED
              BY <6>2
          <5> QED
            BY <1>6, <3>2, <5>1, NoText
        <4>6. A \o f \in Seq(Byte) /\ (A \o f) \o x \in Seq(Byte) /\ A \o x \in Seq(Byte)
          BY <1>6, <3>2, <4>2, JoinedIn
        <4>7. SameText(d, (A \o f) \o x, A \o x)
          BY <3>2, <4>2, <4>5, <4>6, SameInPlace
        <4>8. SameText(d, (((A \o f) \o x) \o u) \o l, ((A \o x) \o u) \o l)
          BY <3>2, <4>6, <4>7, FlowOf
        <4> QED
          BY <4>3, <4>4, <4>8
      <3>4. CASE d = c
        <4>1. Flow(c) = ((A \o m) \o u) \o l
          BY <1>1, <3>1, <3>4 DEF Flow
        <4>2. Flow(c)' = (((A \o f) \o r) \o u) \o l
          BY <1>10, <1>11, <1>12, <3>1, <3>4 DEF Flow
        <4>3. (A \o f) \o r = A \o m
          <5>1. Grouped(Byte, A, f, r)
            BY <1>6, <3>2, Group
          <5> QED
            BY <1>6, <5>1 DEF Grouped
        <4> QED
          BY <3>4, <4>1, <4>2, <4>3 DEF SameText
      <3> QED
        BY <3>3, <3>4
    <2> QED
      BY <1>11, <2>1, StaysKept
  <1>16. ~full' => ~full /\ f = m /\ r = <<>> /\ m[1] = <<c, 0>>
    <2> SUFFICES ASSUME ~full'
                 PROVE  ~full /\ f = m /\ r = <<>> /\ m[1] = <<c, 0>>
      OBVIOUS
    <2>1. ~full /\ ~(Len(m) > Room - Len(down))
      BY <1>2
    <2>2. n = Len(m)
      <3>1. Len(m) <= Room - Len(down)
        <4>1. PICK k, l \in Nat : k = Len(down) /\ l = Len(m)
          BY <1>3
        <4>2. k <= Room /\ Room \in Nat /\ ~(l > Room - k)
          BY <1>3, <2>1, <4>1
        <4>3. l <= Room - k
          BY <4>2
        <4> QED
          BY <4>1, <4>3
      <3> QED
        BY <1>4, <3>1
    <2>3. f = m
      <3>1. Len(f) = Len(m) /\ \A i \in 1 .. Len(f) : f[i] = m[i]
        BY <1>6, <2>2
      <3> QED
        BY <1>3, <1>6, <3>1, SeqEqual
    <2>4. r = <<>>
      <3>1. Len(r) = 0
        BY <1>3, <1>6, <2>2
      <3> QED
        BY <1>6, <3>1, EmptySeq
    <2>5. m # <<>>
      <3>1. Len(m) # 0
        BY <1>2, <2>2
      <3> QED
        BY <3>1, EmptySeq
    <2> QED
      BY <1>1, <2>1, <2>3, <2>4, <2>5 DEF Named
  <1>17. Attributed'
    <2>1. ASSUME ~full'
          PROVE  Behind(Arriving')
      <3>1. DOMAIN Arriving = 1 .. Len(Arriving)
        BY <1>3, LenProperties
      <3>2. Behind(Arriving)
        BY <1>16, <2>1, <3>1 DEF Attributed, Behind
      <3>3. Behind(Arriving \o m)
        BY <1>3, <1>14, <1>16, <2>1, <3>2, WholeMessage
      <3> QED
        BY <1>12, <1>16, <2>1, <3>3
    <2>2. PICK A : A = Arriving'
      OBVIOUS
    <2>3. DOMAIN A = 1 .. Len(A)
      BY <1>3, <1>6, <1>12, <2>2, JoinedIn, LenProperties
    <2> QED
      BY <2>1, <2>2, <2>3 DEF Attributed, Behind
  <1>18. Own'
    <2>1. ASSUME NEW i \in 1 .. Len(r) PROVE r[i][1] = c
      <3>1. r[i] = m[n + i] /\ n + i \in 1 .. Len(m)
        <4>1. PICK l \in Nat : l = Len(m)
          BY <1>3
        <4>2. i \in 1 .. l - n /\ n \in Nat
          BY <1>4, <1>6, <4>1
        <4>3. n + i \in 1 .. l
          BY <4>1, <4>2
        <4>4. r[i] = m[n + i]
          BY <1>6, <4>1, <4>2
        <4> QED
          BY <4>1, <4>3, <4>4
      <3> QED
        BY <1>14, <3>1
    <2>2. ASSUME NEW d \in Sender, d # c PROVE relayed'[d] = relayed[d]
      BY <1>10, <2>2
    <2> QED
      BY <1>10, <1>11, <2>1, <2>2 DEF Own
  <1>19. Named'
    <2>1. ASSUME NEW d \in Sender, ~full', relayed'[d] # <<>>
          PROVE  relayed'[d][1] = <<d, 0>>
      <3>1. d # c
        BY <1>10, <1>16, <2>1
      <3>2. relayed'[d] = relayed[d] /\ ~full
        BY <1>10, <1>16, <2>1, <3>1
      <3> QED
        BY <2>1, <3>2 DEF Named
    <2> QED
      BY <2>1 DEF Named
  <1>20. LostTyped'
    BY <1>11 DEF LostTyped
  <1> QED
    BY <1>13, <1>15, <1>17, <1>18, <1>19, <1>20

\* The receiver's recv and showMessage.
LEMMA ShowKeeps ==
  ASSUME StreamInv, Show
  PROVE  StreamInv'
  <1> USE DEF StreamInv, StreamRight
  <1>1. PICK n \in 1 .. Min({Size, Len(down)}) :
          shown' = shown \o First(down, n) /\ down' = After(down, n)
    BY DEF Show
  <1>2. /\ bytes' = bytes /\ line' = line /\ begun' = begun /\ lost' = lost
        /\ up' = up /\ relayed' = relayed /\ full' = full
    BY DEF Show, sending
  <1>3. /\ down \in Seq(Byte) /\ shown \in Seq(Byte) /\ Len(down) \in Nat
        /\ Len(down) <= Room /\ Room \in Nat /\ Size \in Nat
    BY Types, Positive
  <1>4. n \in 0 .. Len(down)
    BY <1>3, SmallerOf
  <1>5. PICK f, r : f = First(down, n) /\ r = After(down, n)
    OBVIOUS
  <1>6. /\ f \in Seq(Byte) /\ r \in Seq(Byte) /\ Len(r) = Len(down) - n
        /\ f \o r = down
    BY <1>3, <1>4, <1>5, CutInTwo
  <1>7. shown' = shown \o f /\ down' = r
    BY <1>1, <1>5
  <1>8. Arriving' = Arriving
    <2>1. Grouped(Byte, shown, f, r)
      BY <1>3, <1>6, Group
    <2> QED
      BY <1>6, <1>7, <2>1 DEF Arriving, Grouped
  <1>9. StreamTypeOK'
    <2>1. shown \o f \in Seq(Byte) /\ Len(r) <= Room
      <3>1. shown \o f \in Seq(Byte)
        BY <1>3, <1>6, JoinedIn
      <3> QED
        BY <1>3, <1>4, <1>6, <3>1
    <2> QED
      BY <1>2, <1>6, <1>7, <2>1 DEF StreamTypeOK
  <1>10. Kept'
    <2>1. \A d \in Sender : Flow(d)' = Flow(d)
      BY <1>2, <1>8 DEF Flow
    <2>2. \A d \in Sender : SameText(d, Flow(d)', Flow(d))
      BY <2>1 DEF SameText
    <2> QED
      BY <1>2, <2>2, StaysKept
  <1>11. Attributed'
    BY <1>2, <1>8 DEF Attributed
  <1>12. Own' /\ Named' /\ LostTyped'
    BY <1>2 DEF Own, Named, LostTyped
  <1> QED
    BY <1>9, <1>10, <1>11, <1>12

\* However the sends and receives of several clients and threads are interleaved
\* and cut, and whenever a signal interrupts one: nothing typed is doubled,
\* displaced or missing but what an interrupted send had left, and while every
\* message fits into the connection each piece of text is behind the prefix of
\* its sender (chatNode::sendMessage, chatServer's threads, chatClient's thread).
THEOREM StreamRightHolds == StreamSpec => []StreamRight
  <1>1. StreamInit => StreamInv
    BY InitStream
  <1>2. StreamInv /\ [StreamNext]_streamVars => StreamInv'
    <2> SUFFICES ASSUME StreamInv, [StreamNext]_streamVars PROVE StreamInv'
      OBVIOUS
    <2>1. CASE StreamNext
      BY <2>1, TypeKeeps, SendKeeps, InterruptKeeps, RecvKeeps, SendMessageKeeps,
         ShowKeeps DEF StreamNext
    <2>2. CASE UNCHANGED streamVars
      <3> USE DEF StreamInv, StreamRight
      <3>1. UNCHANGED <<bytes, line, begun, lost, up, relayed, down, shown, full>>
        BY <2>2 DEF streamVars, sending
      <3>2. StreamTypeOK' /\ Own' /\ Named' /\ LostTyped'
        BY <3>1 DEF StreamTypeOK, Own, Named, LostTyped
      <3>3. Arriving' = Arriving
        BY <3>1 DEF Arriving
      <3>4. Kept'
        <4>1. \A d \in Sender : Flow(d)' = Flow(d)
          BY <3>1, <3>3 DEF Flow
        <4>2. \A d \in Sender : SameText(d, Flow(d)', Flow(d))
          BY <4>1 DEF SameText
        <4> QED
          BY <3>1, <4>2, StaysKept DEF sending
      <3>5. Attributed'
        BY <3>1, <3>3 DEF Attributed
      <3> QED
        BY <3>2, <3>4, <3>5
    <2> QED
      BY <2>1, <2>2
  <1>3. StreamInv => StreamRight
    BY DEF StreamInv
  <1> QED
    BY <1>1, <1>2, <1>3, PTL DEF StreamSpec
=============================================================================
