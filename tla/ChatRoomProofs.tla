--------------------------- MODULE ChatRoomProofs ---------------------------
(* Theorems about ChatRoom: its invariants hold for every set of persons,   *)
(* every number of messages and every size of the recent window.            *)
EXTENDS ChatRoom, Integers, SequenceTheorems, TLAPS

-----------------------------------------------------------------------------
(* The invariants in the form that is inductive *)

\* A person that has not entered the room has left no trace in it.
Untouched ==
  \A p \in Person :
    phase[p] \in {"unborn", "accepting", "nick", "void"} =>
      /\ wq[p] = <<>> /\ sent[p] = <<>> /\ writing[p] = 0 /\ nread[p] = 0

\* RecentIsWindow, element by element.
Window ==
  /\ Len(recent) = IF Len(log) > MaxRecent THEN MaxRecent ELSE Len(log)
  /\ \A i \in 1 .. Len(recent) : recent[i] = log[Len(log) - Len(recent) + i]

\* NoGap, element by element.
Slices ==
  \A p \in Person :
    /\ \A i \in 1 .. Len(sent[p]) : sent[p][i] = log[base[p] + i]
    /\ \A i \in 1 .. Len(wq[p]) : wq[p][i] = log[base[p] + Len(sent[p]) + i]
    /\ base[p] + Len(sent[p]) + Len(wq[p]) <= Len(log)
    /\ p \in participants => base[p] + Len(sent[p]) + Len(wq[p]) = Len(log)

RoomInv == /\ TypeOK
           /\ WriteDiscipline
           /\ StillRead
           /\ Untouched
           /\ Window
           /\ Slices
-----------------------------------------------------------------------------
\* Arithmetic of positions in the log: b messages before a person's first,
\* s sent and w queued.
LEMMA AddOne == \A b, s, w \in Nat : b + s + (w + 1) = (b + s + w) + 1
  OBVIOUS

LEMMA MoveOne == \A b, s \in Nat, w \in Nat \ {0} :
                   b + (s + 1) + (w - 1) = b + s + w
  OBVIOUS

LEMMA ShiftOne == \A b, s, i \in Nat : b + s + (i + 1) = b + (s + 1) + i
  OBVIOUS

LEMMA InLog == \A b, s, w, n \in Nat : b + s + w <= n =>
                 /\ \A i \in 1 .. s : b + i \in 1 .. n
                 /\ \A i \in 1 .. w : b + s + i \in 1 .. n
  OBVIOUS

\* Trim returns the newest end of its argument, at most MaxRecent long.
LEMMA TrimWindow ==
  ASSUME NEW S, NEW s \in Seq(S)
  PROVE  /\ Trim(s) \in Seq(S)
         /\ Len(Trim(s)) = IF Len(s) > MaxRecent THEN MaxRecent ELSE Len(s)
         /\ \A i \in 1 .. Len(Trim(s)) : Trim(s)[i] = s[Len(s) - Len(Trim(s)) + i]
<1>1. MaxRecent \in Nat /\ Len(s) \in Nat
  BY RoomAssumption
<1>2. CASE Len(s) > MaxRecent
  BY <1>1, <1>2 DEF Trim
<1>3. CASE ~(Len(s) > MaxRecent)
  BY <1>1, <1>3 DEF Trim
<1> QED
  BY <1>1, <1>2, <1>3

\* The initial state satisfies the inductive invariant.
LEMMA InitRoom == Init => RoomInv
<1> SUFFICES ASSUME Init PROVE RoomInv
  OBVIOUS
<1>1. PICK a \in Person :
        phase = [q \in Person |-> IF q = a THEN "accepting" ELSE "unborn"]
  BY DEF Init
<1>2. TypeOK
  BY <1>1, RoomAssumption DEF Init, TypeOK, Phase, Name
<1>3. WriteDiscipline /\ StillRead /\ Untouched
  BY <1>1 DEF Init, WriteDiscipline, StillRead, Untouched
<1>4. Window /\ Slices
  BY RoomAssumption DEF Init, Window, Slices
<1> QED
  BY <1>2, <1>3, <1>4 DEF RoomInv
-----------------------------------------------------------------------------
(* Each action preserves the inductive invariant *)

\* onAccept only gives persons that have not entered another waiting phase.
LEMMA AcceptWaits ==
  ASSUME RoomInv, NEW p \in Person, NEW ok \in BOOLEAN, OnAccept(p, ok)
  PROVE  /\ phase' \in [Person -> Phase]
         /\ \A q \in Person : phase'[q] # phase[q] =>
              /\ phase[q] \in {"unborn", "accepting", "nick", "void"}
              /\ phase'[q] \in {"unborn", "accepting", "nick", "void"}
         /\ UNCHANGED <<participants, names, recent, wq, writing, link, hello, said,
                        nread, log, base, sent>>
BY DEF RoomInv, TypeOK, OnAccept, Phase, net

LEMMA AcceptKeeps ==
  ASSUME RoomInv, NEW p \in Person, NEW ok \in BOOLEAN, OnAccept(p, ok)
  PROVE  RoomInv'
<1>1. /\ phase' \in [Person -> Phase]
      /\ \A q \in Person : phase'[q] # phase[q] =>
           /\ phase[q] \in {"unborn", "accepting", "nick", "void"}
           /\ phase'[q] \in {"unborn", "accepting", "nick", "void"}
  BY AcceptWaits
<1>2. UNCHANGED <<participants, names, recent, wq, writing, link, hello, said,
                  nread, log, base, sent>>
  BY AcceptWaits
<1>3. TypeOK'
  BY <1>1, <1>2 DEF RoomInv, TypeOK
<1>4. WriteDiscipline' /\ Window' /\ Slices'
  BY <1>2 DEF RoomInv, WriteDiscipline, Window, Slices
<1>5. StillRead' /\ Untouched'
  BY <1>1, <1>2 DEF RoomInv, StillRead, Untouched
<1> QED
  BY <1>3, <1>4, <1>5 DEF RoomInv

\* The environment's actions touch nothing the room reads but said, link, hello.
LEMMA EnvironmentKeeps ==
  ASSUME RoomInv, NEW p \in Person, ClientHello(p) \/ ClientSay(p) \/ Drop(p)
  PROVE  RoomInv'
<1>1. UNCHANGED <<phase, participants, names, recent, wq, writing, nread, log,
                  base, sent>>
  BY DEF ClientHello, ClientSay, Drop, room
<1>2. /\ link' \in [Person -> {"up", "down"}]
      /\ hello' \in [Person -> Nickname \cup {NoName}]
      /\ said' \in [Person -> 0 .. MaxSay]
  <2>1. CASE ClientHello(p)
    BY <2>1 DEF RoomInv, TypeOK, ClientHello
  <2>2. CASE ClientSay(p)
    BY <2>2, RoomAssumption DEF RoomInv, TypeOK, ClientSay
  <2>3. CASE Drop(p)
    <3>1. PICK k \in nread[p] .. said[p] : said' = [said EXCEPT ![p] = k]
      BY <2>3 DEF Drop
    <3>2. k \in 0 .. MaxSay
      BY <3>1, RoomAssumption DEF RoomInv, TypeOK
    <3> QED
      BY <2>3, <3>1, <3>2 DEF RoomInv, TypeOK, Drop
  <2> QED
    BY <2>1, <2>2, <2>3
<1>3. TypeOK'
  BY <1>1, <1>2 DEF RoomInv, TypeOK
<1>4. WriteDiscipline' /\ StillRead' /\ Untouched' /\ Window' /\ Slices'
  BY <1>1 DEF RoomInv, WriteDiscipline, StillRead, Untouched, Window, Slices
<1> QED
  BY <1>3, <1>4 DEF RoomInv

\* enter: the newcomer is queued the recent window, which is the end of the log.
LEMMA NicknameKeeps ==
  ASSUME RoomInv, NEW p \in Person, NEW ok \in BOOLEAN, NicknameHandler(p, ok)
  PROVE  RoomInv'
<1>1. PICK name \in Name : Enter(p, name)
  BY RoomAssumption DEF RoomInv, TypeOK, NicknameHandler, Name
<1>2. /\ phase[p] = "nick"
      /\ phase' = [phase EXCEPT ![p] = "msg"]
      /\ UNCHANGED <<link, hello, said, nread, sent, recent, log>>
      /\ participants' = participants \cup {p}
      /\ names' = [names EXCEPT ![p] = name]
      /\ base' = [base EXCEPT ![p] = Len(log) - Len(recent)]
  BY <1>1 DEF NicknameHandler, Enter, net
<1>3. wq[p] = <<>> /\ sent[p] = <<>> /\ writing[p] = 0
  BY <1>2 DEF RoomInv, Untouched
<1>4. wq[p] \o recent = recent
  BY <1>3 DEF RoomInv, TypeOK
<1>5. wq' = [wq EXCEPT ![p] = recent]
  BY <1>1, <1>4 DEF RoomInv, TypeOK, Enter, OnMessage
<1>6. writing' = [writing EXCEPT ![p] = IF recent = <<>> THEN 0 ELSE 1]
  <2>1. writing' = [q \in Person |-> IF q = p /\ recent # <<>>
                                     THEN writing[q] + 1 ELSE writing[q]]
    BY <1>1, <1>3 DEF Enter, OnMessage
  <2>2. writing' = [q \in Person |-> IF q = p THEN IF recent = <<>> THEN 0 ELSE 1
                                              ELSE writing[q]]
    BY <1>3, <2>1
  <2> QED
    BY <2>2 DEF RoomInv, TypeOK
<1>7. /\ Len(log) \in Nat /\ Len(recent) \in Nat
      /\ Len(log) - Len(recent) \in Nat
      /\ recent = <<>> <=> Len(recent) = 0
  BY RoomAssumption DEF RoomInv, TypeOK, Window
<1>8. TypeOK'
  BY <1>2, <1>5, <1>6, <1>7 DEF RoomInv, TypeOK, Phase
<1>9. WriteDiscipline'
  BY <1>2, <1>5, <1>6 DEF RoomInv, TypeOK, WriteDiscipline
<1>10. StillRead'
  BY <1>2, RoomAssumption DEF RoomInv, TypeOK, StillRead, Name
<1>11. Untouched'
  BY <1>2, <1>5, <1>6 DEF RoomInv, TypeOK, Untouched
<1>12. Window'
  BY <1>2 DEF RoomInv, Window
<1>13. Slices'
  <2> SUFFICES ASSUME NEW q \in Person
      PROVE /\ \A i \in 1 .. Len(sent[q]) : sent[q][i] = log[base'[q] + i]
            /\ \A i \in 1 .. Len(wq'[q]) :
                 wq'[q][i] = log[base'[q] + Len(sent[q]) + i]
            /\ base'[q] + Len(sent[q]) + Len(wq'[q]) <= Len(log)
            /\ q \in participants' =>
                 base'[q] + Len(sent[q]) + Len(wq'[q]) = Len(log)
    BY <1>2 DEF Slices
  <2>1. CASE q = p
    <3>1. base'[q] = Len(log) - Len(recent) /\ wq'[q] = recent /\ Len(sent[q]) = 0
      BY <1>2, <1>3, <1>5, <2>1 DEF RoomInv, TypeOK
    <3> QED
      BY <3>1, <1>7 DEF RoomInv, Window
  <2>2. CASE q # p
    BY <1>2, <1>5, <2>2 DEF RoomInv, TypeOK, Slices
  <2> QED
    BY <2>1, <2>2
<1> QED
  BY <1>8, <1>9, <1>10, <1>11, <1>12, <1>13 DEF RoomInv
\* broadcast: the log, the window and every participant's queue grow by the
\* same message.
LEMMA BroadcastKeeps ==
  ASSUME RoomInv, NEW p \in Person, ReadHandler(p, TRUE)
  PROVE  RoomInv'
<1>. DEFINE m == [from |-> p, nick |-> GetNickname(p), body |-> nread[p] + 1]
<1>1. /\ phase[p] = "msg"
      /\ nread[p] < said[p]
      /\ nread' = [nread EXCEPT ![p] = @ + 1]
      /\ UNCHANGED <<phase, link, hello, said, sent, participants, base>>
      /\ names' = [names EXCEPT ![p] = GetNickname(p)]
      /\ recent' = Trim(Append(recent, m))
      /\ OnMessage(participants, <<m>>)
      /\ log' = Append(log, m)
  BY DEF ReadHandler, Broadcast, net
<1>2. GetNickname(p) \in Name
  BY RoomAssumption DEF RoomInv, TypeOK, GetNickname, Name
<1>3. m \in Message
  BY <1>1, <1>2, RoomAssumption DEF RoomInv, TypeOK, Message
<1>. HIDE DEF m
<1>4. \A q \in Person :
        /\ wq'[q] = IF q \in participants THEN Append(wq[q], m) ELSE wq[q]
        /\ writing'[q] = IF q \in participants /\ wq[q] = <<>>
                         THEN writing[q] + 1 ELSE writing[q]
  <2>1. \A w \in Seq(Message) : w \o <<m>> = Append(w, m)
    BY <1>3
  <2>2. <<m>> # <<>>
    OBVIOUS
  <2> QED
    BY <1>1, <2>1, <2>2 DEF RoomInv, TypeOK, OnMessage
<1>5. wq' \in [Person -> Seq(Message)]
  <2>1. ASSUME NEW q \in Person PROVE wq'[q] \in Seq(Message)
    <3>1. wq[q] \in Seq(Message) /\ Append(wq[q], m) \in Seq(Message)
      BY <1>3 DEF RoomInv, TypeOK
    <3> QED
      BY <1>4, <3>1
  <2>2. wq' = [q \in Person |-> wq'[q]]
    BY <1>1 DEF OnMessage
  <2> QED
    BY <2>1, <2>2
<1>6. writing' \in [Person -> Nat]
  <2>1. ASSUME NEW q \in Person PROVE writing'[q] \in Nat
    <3>1. writing[q] \in Nat /\ writing[q] + 1 \in Nat
      BY DEF RoomInv, TypeOK
    <3> QED
      BY <1>4, <3>1
  <2>2. writing' = [q \in Person |-> writing'[q]]
    BY <1>1 DEF OnMessage
  <2> QED
    BY <2>1, <2>2
<1>7. /\ log' \in Seq(Message) /\ Len(log') = Len(log) + 1 /\ Len(log) \in Nat
      /\ log'[Len(log) + 1] = m
      /\ \A i \in 1 .. Len(log) : log'[i] = log[i]
  BY <1>1, <1>3 DEF RoomInv, TypeOK
<1>8. /\ recent' \in Seq(Message)
      /\ Len(recent') = IF Len(recent) + 1 > MaxRecent THEN MaxRecent
                                                      ELSE Len(recent) + 1
      /\ \A i \in 1 .. Len(recent') :
           recent'[i] = Append(recent, m)[Len(recent) + 1 - Len(recent') + i]
  <2>1. Append(recent, m) \in Seq(Message) /\ Len(Append(recent, m)) = Len(recent) + 1
    BY <1>3 DEF RoomInv, TypeOK
  <2> QED
    <3>. DEFINE s == Append(recent, m)
    <3>1. s \in Seq(Message) /\ Len(s) = Len(recent) + 1 /\ recent' = Trim(s)
      BY <1>1, <2>1
    <3>. HIDE DEF s
    <3>2. /\ Trim(s) \in Seq(Message)
          /\ Len(Trim(s)) = IF Len(s) > MaxRecent THEN MaxRecent ELSE Len(s)
          /\ \A i \in 1 .. Len(Trim(s)) : Trim(s)[i] = s[Len(s) - Len(Trim(s)) + i]
      BY <3>1, TrimWindow
    <3>3. recent' \in Seq(Message)
      BY <3>1, <3>2
    <3>4. Len(recent') = IF Len(recent) + 1 > MaxRecent THEN MaxRecent
                                                        ELSE Len(recent) + 1
      BY <3>1, <3>2, Zenon
    <3>5. \A i \in 1 .. Len(recent') :
            recent'[i] = s[Len(recent) + 1 - Len(recent') + i]
      <4> SUFFICES ASSUME NEW i \in 1 .. Len(recent')
                   PROVE  recent'[i] = s[Len(recent) + 1 - Len(recent') + i]
        OBVIOUS
      <4>1. Trim(s)[i] = s[Len(s) - Len(Trim(s)) + i]
        BY <3>1, <3>2
      <4>2. Trim(s) = recent' /\ Len(s) = Len(recent) + 1
        BY <3>1
      <4>3. recent'[i] = s[Len(s) - Len(recent') + i]
        BY <4>1, <4>2
      <4> QED
        BY <4>2, <4>3
    <3> QED
      BY <3>3, <3>4, <3>5 DEF s
<1>9. TypeOK'
  <2>1. names' \in [Person -> Name \cup {NoEntry}]
    BY <1>1, <1>2 DEF RoomInv, TypeOK
  <2>2. nread' \in [Person -> 0 .. MaxSay]
    BY <1>1, RoomAssumption DEF RoomInv, TypeOK
  <2> QED
    BY <1>1, <1>5, <1>6, <1>7, <1>8, <2>1, <2>2 DEF RoomInv, TypeOK
<1>10. WriteDiscipline'
  <2> SUFFICES ASSUME NEW q \in Person
      PROVE /\ writing'[q] \in {0, 1}
            /\ writing'[q] = 1 => wq'[q] # <<>>
            /\ q \in participants /\ wq'[q] # <<>> => writing'[q] = 1
    BY <1>1 DEF WriteDiscipline
  <2>1. CASE q \in participants
    <3>1. wq'[q] # <<>>
      <4>1. wq[q] \in Seq(Message) /\ wq'[q] = Append(wq[q], m)
        BY <1>4, <2>1 DEF RoomInv, TypeOK
      <4> QED
        BY <1>3, <4>1
    <3> QED
      BY <1>4, <2>1, <3>1 DEF RoomInv, TypeOK, WriteDiscipline
  <2>2. CASE q \notin participants
    BY <1>4, <2>2 DEF RoomInv, WriteDiscipline
  <2> QED
    BY <2>1, <2>2
<1>11. StillRead'
  BY <1>1, <1>2, RoomAssumption DEF RoomInv, TypeOK, StillRead, Name
<1>12. Untouched'
  <2> SUFFICES ASSUME NEW q \in Person,
                      phase[q] \in {"unborn", "accepting", "nick", "void"}
      PROVE wq'[q] = <<>> /\ sent[q] = <<>> /\ writing'[q] = 0 /\ nread'[q] = 0
    BY <1>1 DEF Untouched
  <2>1. q \notin participants /\ q # p
    BY <1>1 DEF RoomInv, StillRead
  <2> QED
    BY <1>1, <1>4, <2>1 DEF RoomInv, TypeOK, Untouched
<1>13. Window'
  <2>1. /\ MaxRecent \in Nat /\ Len(recent) \in Nat
        /\ \A i \in 1 .. Len(recent) : Append(recent, m)[i] = recent[i]
        /\ Append(recent, m)[Len(recent) + 1] = m
    BY <1>3, RoomAssumption DEF RoomInv, TypeOK
  <2>2. Len(recent') = IF Len(log') > MaxRecent THEN MaxRecent ELSE Len(log')
    BY <1>7, <1>8, <2>1 DEF RoomInv, Window
  <2>3. ASSUME NEW i \in 1 .. Len(recent')
        PROVE  recent'[i] = log'[Len(log') - Len(recent') + i]
    <3>. DEFINE j == Len(recent) + 1 - Len(recent') + i
    <3>1. /\ recent'[i] = Append(recent, m)[j] /\ j \in 1 .. Len(recent) + 1
          /\ Len(log') - Len(recent') + i = Len(log) - Len(recent) + j
          /\ Len(recent) <= Len(log)
      <4>1. /\ Len(recent') \in Nat /\ Len(recent') <= Len(recent) + 1
            /\ Len(recent) <= Len(log)
        BY <1>7, <1>8, <2>1, <2>2 DEF RoomInv, Window
      <4>2. i \in Int /\ 1 <= i /\ i <= Len(recent')
        BY <4>1
      <4>3. recent'[i] = Append(recent, m)[j]
        BY <1>8
      <4> QED
        BY <1>7, <2>1, <4>1, <4>2, <4>3
    <3>2. CASE j = Len(recent) + 1
      BY <1>7, <2>1, <3>1, <3>2
    <3>3. CASE j # Len(recent) + 1
      <4>1. /\ j \in 1 .. Len(recent)
            /\ Len(log) - Len(recent) + j \in 1 .. Len(log)
        BY <1>7, <2>1, <3>1, <3>3
      <4>2. recent[j] = log[Len(log) - Len(recent) + j]
        BY <4>1 DEF RoomInv, Window
      <4> QED
        BY <1>7, <2>1, <3>1, <4>1, <4>2
    <3> QED
      BY <3>2, <3>3
  <2> QED
    BY <2>2, <2>3 DEF Window
<1>14. Slices'
  <2> SUFFICES ASSUME NEW q \in Person
      PROVE /\ \A i \in 1 .. Len(sent[q]) : sent[q][i] = log'[base[q] + i]
            /\ \A i \in 1 .. Len(wq'[q]) :
                 wq'[q][i] = log'[base[q] + Len(sent[q]) + i]
            /\ base[q] + Len(sent[q]) + Len(wq'[q]) <= Len(log')
            /\ q \in participants =>
                 base[q] + Len(sent[q]) + Len(wq'[q]) = Len(log')
    BY <1>1 DEF Slices
  <2>0. /\ \A i \in 1 .. Len(sent[q]) : sent[q][i] = log[base[q] + i]
        /\ \A i \in 1 .. Len(wq[q]) : wq[q][i] = log[base[q] + Len(sent[q]) + i]
        /\ base[q] + Len(sent[q]) + Len(wq[q]) <= Len(log)
        /\ q \in participants => base[q] + Len(sent[q]) + Len(wq[q]) = Len(log)
    BY DEF RoomInv, Slices
  <2>1. /\ base[q] \in Nat /\ Len(sent[q]) \in Nat /\ Len(wq[q]) \in Nat
        /\ wq[q] \in Seq(Message)
    BY DEF RoomInv, TypeOK
  <2>2. \A i \in 1 .. Len(sent[q]) : sent[q][i] = log'[base[q] + i]
    <3> SUFFICES ASSUME NEW i \in 1 .. Len(sent[q])
                 PROVE  sent[q][i] = log'[base[q] + i]
      OBVIOUS
    <3>1. sent[q][i] = log[base[q] + i] /\ base[q] + i \in 1 .. Len(log)
      BY <1>7, <2>0, <2>1, InLog
    <3> QED
      BY <1>7, <3>1
  <2>3. \A i \in 1 .. Len(wq[q]) : wq[q][i] = log'[base[q] + Len(sent[q]) + i]
    <3> SUFFICES ASSUME NEW i \in 1 .. Len(wq[q])
                 PROVE  wq[q][i] = log'[base[q] + Len(sent[q]) + i]
      OBVIOUS
    <3>1. /\ wq[q][i] = log[base[q] + Len(sent[q]) + i]
          /\ base[q] + Len(sent[q]) + i \in 1 .. Len(log)
      BY <1>7, <2>0, <2>1, InLog
    <3> QED
      BY <1>7, <3>1
  <2>4. CASE q \in participants
    <3>1. wq'[q] = Append(wq[q], m)
      BY <1>4, <2>4
    <3>2. /\ Len(wq'[q]) = Len(wq[q]) + 1
          /\ wq'[q][Len(wq[q]) + 1] = m
          /\ \A i \in 1 .. Len(wq[q]) : wq'[q][i] = wq[q][i]
      BY <1>3, <2>1, <3>1
    <3>3. \A i \in 1 .. Len(wq'[q]) :
            wq'[q][i] = log'[base[q] + Len(sent[q]) + i]
      <4> SUFFICES ASSUME NEW i \in 1 .. Len(wq[q]) + 1
          PROVE wq'[q][i] = log'[base[q] + Len(sent[q]) + i]
        BY <3>2
      <4>1. CASE i \in 1 .. Len(wq[q])
        BY <2>3, <3>2, <4>1
      <4>2. CASE i = Len(wq[q]) + 1
        <5>1. base[q] + Len(sent[q]) + i = Len(log) + 1
          <6>1. base[q] + Len(sent[q]) + (Len(wq[q]) + 1)
                  = (base[q] + Len(sent[q]) + Len(wq[q])) + 1
            BY <2>1, AddOne
          <6> QED
            BY <2>0, <2>4, <4>2, <6>1, Zenon
        <5> QED
          BY <1>7, <3>2, <4>2, <5>1
      <4> QED
        BY <2>1, <4>1, <4>2
    <3>4. base[q] + Len(sent[q]) + Len(wq'[q]) = Len(log')
      <4>1. Len(wq'[q]) = Len(wq[q]) + 1 /\ Len(log') = Len(log) + 1
        BY <1>7, <3>2
      <4>2. base[q] + Len(sent[q]) + Len(wq[q]) = Len(log)
        BY <2>0, <2>4
      <4>3. /\ base[q] \in Nat /\ Len(sent[q]) \in Nat /\ Len(wq[q]) \in Nat
            /\ Len(log) \in Nat
        BY <1>7, <2>1
      <4>4. base[q] + Len(sent[q]) + (Len(wq[q]) + 1)
              = (base[q] + Len(sent[q]) + Len(wq[q])) + 1
        BY <4>3, AddOne
      <4> QED
        BY <4>1, <4>2, <4>4, Zenon
    <3> QED
      BY <1>7, <2>2, <3>3, <3>4
  <2>5. CASE q \notin participants
    <3>1. wq'[q] = wq[q] /\ Len(log) <= Len(log')
      BY <1>4, <1>7, <2>5
    <3>2. base[q] + Len(sent[q]) + Len(wq[q]) <= Len(log')
      BY <1>7, <2>0, <2>1
    <3> QED
      BY <2>2, <2>3, <2>5, <3>1, <3>2
  <2> QED
    BY <2>4, <2>5
<1> QED
  BY <1>9, <1>10, <1>11, <1>12, <1>13, <1>14 DEF RoomInv

\* leave, called by either handler: the person's queue is left as it is.
LEMMA LeaveKeeps ==
  ASSUME RoomInv, NEW p \in Person, Leave(p),
         UNCHANGED <<wq, link, hello, said, nread, log, base, sent>>,
         phase[p] # "nick", phase'[p] \in {phase[p], "over"},
         phase' = [phase EXCEPT ![p] = phase'[p]],
         \/ UNCHANGED writing
         \/ writing[p] > 0 /\ writing' = [writing EXCEPT ![p] = @ - 1]
  PROVE  RoomInv'
<1>1. /\ participants' = participants \ {p}
      /\ names' = [names EXCEPT ![p] = NoEntry]
      /\ recent' = recent
  BY DEF Leave
<1>2. TypeOK'
  <2>1. phase' \in [Person -> Phase]
    BY DEF RoomInv, TypeOK, Phase
  <2>2. writing' \in [Person -> Nat]
    <3>1. writing \in [Person -> Nat]
      BY DEF RoomInv, TypeOK
    <3>2. writing[p] > 0 => writing[p] - 1 \in Nat
      BY <3>1
    <3> QED
      BY <3>1, <3>2
  <2> QED
    BY <1>1, <2>1, <2>2 DEF RoomInv, TypeOK
<1>3. WriteDiscipline'
  BY <1>1 DEF RoomInv, TypeOK, WriteDiscipline
<1>4. StillRead'
  BY <1>1 DEF RoomInv, TypeOK, StillRead
<1>5. Untouched'
  BY DEF RoomInv, TypeOK, Untouched
<1>6. Window' /\ Slices'
  BY <1>1 DEF RoomInv, Window, Slices
<1> QED
  BY <1>2, <1>3, <1>4, <1>5, <1>6 DEF RoomInv

\* A completed write moves the first queued message to those sent.
LEMMA WriteKeeps ==
  ASSUME RoomInv, NEW p \in Person, WriteHandler(p, TRUE)
  PROVE  RoomInv'
<1>1. /\ writing[p] > 0
      /\ wq' = [wq EXCEPT ![p] = Tail(wq[p])]
      /\ writing' = [writing EXCEPT ![p] = IF Tail(wq[p]) # <<>>
                                           THEN @ ELSE @ - 1]
      /\ sent' = [sent EXCEPT ![p] = Append(sent[p], Head(wq[p]))]
      /\ UNCHANGED <<participants, names, recent, phase, link, hello, said,
                     nread, log, base>>
  BY DEF WriteHandler, room, net
<1>2. writing[p] = 1 /\ wq[p] # <<>> /\ wq[p] \in Seq(Message)
  BY <1>1 DEF RoomInv, TypeOK, WriteDiscipline
<1>3. /\ Head(wq[p]) \in Message /\ Tail(wq[p]) \in Seq(Message)
      /\ Head(wq[p]) = wq[p][1] /\ Len(wq[p]) \in Nat \ {0}
      /\ Len(Tail(wq[p])) = Len(wq[p]) - 1
      /\ \A i \in 1 .. Len(wq[p]) - 1 : Tail(wq[p])[i] = wq[p][i + 1]
  BY <1>2
<1>4. TypeOK'
  <2>1. writing' \in [Person -> Nat] /\ wq' \in [Person -> Seq(Message)]
    BY <1>1, <1>2, <1>3 DEF RoomInv, TypeOK
  <2>2. sent' \in [Person -> Seq(Message)]
    BY <1>1, <1>2, <1>3 DEF RoomInv, TypeOK
  <2> QED
    BY <1>1, <2>1, <2>2 DEF RoomInv, TypeOK
<1>5. WriteDiscipline'
  <2>1. writing'[p] = IF Tail(wq[p]) # <<>> THEN 1 ELSE 0
    BY <1>1, <1>2 DEF RoomInv, TypeOK
  <2>2. wq'[p] = Tail(wq[p])
    BY <1>1 DEF RoomInv, TypeOK
  <2>3. \A q \in Person \ {p} : wq'[q] = wq[q] /\ writing'[q] = writing[q]
    BY <1>1 DEF RoomInv, TypeOK
  <2>4. SUFFICES ASSUME NEW q \in Person
        PROVE /\ writing'[q] \in {0, 1}
              /\ writing'[q] = 1 => wq'[q] # <<>>
              /\ q \in participants' /\ wq'[q] # <<>> => writing'[q] = 1
    BY DEF WriteDiscipline
  <2>5. CASE q = p
    <3>1. CASE Tail(wq[p]) # <<>>
      BY <2>1, <2>2, <2>5, <3>1
    <3>2. CASE Tail(wq[p]) = <<>>
      <4>1. writing'[q] = 0 /\ wq'[q] = <<>>
        BY <2>1, <2>2, <2>5, <3>2, Zenon
      <4> QED
        BY <4>1
    <3> QED
      BY <3>1, <3>2
  <2>6. CASE q # p
    <3>1. wq'[q] = wq[q] /\ writing'[q] = writing[q] /\ participants' = participants
      BY <1>1, <2>3, <2>6
    <3> QED
      BY <3>1 DEF RoomInv, WriteDiscipline
  <2> QED
    BY <2>5, <2>6
<1>6. StillRead' /\ Window'
  BY <1>1 DEF RoomInv, StillRead, Window
<1>7. Untouched'
  BY <1>1 DEF RoomInv, TypeOK, Untouched
<1>8. Slices'
  <2> SUFFICES ASSUME NEW q \in Person
      PROVE /\ \A i \in 1 .. Len(sent'[q]) : sent'[q][i] = log[base[q] + i]
            /\ \A i \in 1 .. Len(wq'[q]) :
                 wq'[q][i] = log[base[q] + Len(sent'[q]) + i]
            /\ base[q] + Len(sent'[q]) + Len(wq'[q]) <= Len(log)
            /\ q \in participants =>
                 base[q] + Len(sent'[q]) + Len(wq'[q]) = Len(log)
    BY <1>1 DEF Slices
  <2>1. CASE q = p
    <3>1. /\ base[p] \in Nat /\ Len(sent[p]) \in Nat /\ sent[p] \in Seq(Message)
          /\ sent'[p] = Append(sent[p], wq[p][1]) /\ wq'[p] = Tail(wq[p])
      <4>1. base[p] \in Nat /\ sent[p] \in Seq(Message) /\ Len(sent[p]) \in Nat
        BY DEF RoomInv, TypeOK
      <4>2. sent \in [Person -> Seq(Message)] /\ wq \in [Person -> Seq(Message)]
        BY DEF RoomInv, TypeOK
      <4>3. sent'[p] = Append(sent[p], Head(wq[p])) /\ wq'[p] = Tail(wq[p])
        BY <1>1, <4>2
      <4> QED
        BY <1>3, <4>1, <4>3
    <3>2. /\ Len(sent'[p]) = Len(sent[p]) + 1
          /\ sent'[p][Len(sent[p]) + 1] = wq[p][1]
          /\ \A i \in 1 .. Len(sent[p]) : sent'[p][i] = sent[p][i]
      BY <1>3, <3>1
    <3>3. /\ \A i \in 1 .. Len(sent[p]) : sent[p][i] = log[base[p] + i]
          /\ \A i \in 1 .. Len(wq[p]) :
               wq[p][i] = log[base[p] + Len(sent[p]) + i]
          /\ base[p] + Len(sent[p]) + Len(wq[p]) <= Len(log)
          /\ p \in participants =>
               base[p] + Len(sent[p]) + Len(wq[p]) = Len(log)
      BY DEF RoomInv, Slices
    <3>4. \A i \in 1 .. Len(sent'[p]) : sent'[p][i] = log[base[p] + i]
      <4> SUFFICES ASSUME NEW i \in 1 .. Len(sent[p]) + 1
                   PROVE  sent'[p][i] = log[base[p] + i]
        BY <3>2
      <4>1. CASE i \in 1 .. Len(sent[p])
        BY <3>2, <3>3, <4>1
      <4>2. CASE i = Len(sent[p]) + 1
        <5>1. /\ 1 \in 1 .. Len(wq[p])
              /\ base[p] + Len(sent[p]) + 1 = base[p] + (Len(sent[p]) + 1)
          BY <1>3, <3>1
        <5> QED
          BY <3>2, <3>3, <4>2, <5>1
      <4> QED
        BY <3>1, <4>1, <4>2
    <3>5. \A i \in 1 .. Len(wq'[p]) : wq'[p][i] = log[base[p] + Len(sent'[p]) + i]
      <4> SUFFICES ASSUME NEW i \in 1 .. Len(wq[p]) - 1
          PROVE Tail(wq[p])[i] = log[base[p] + (Len(sent[p]) + 1) + i]
        BY <1>3, <3>1, <3>2
      <4>1. i + 1 \in 1 .. Len(wq[p]) /\ Tail(wq[p])[i] = wq[p][i + 1]
        BY <1>3
      <4>2. wq[p][i + 1] = log[base[p] + Len(sent[p]) + (i + 1)]
        BY <3>3, <4>1
      <4>3. base[p] + Len(sent[p]) + (i + 1) = base[p] + (Len(sent[p]) + 1) + i
        <5>1. i \in Nat
          BY <1>3
        <5> QED
          BY <3>1, <5>1, ShiftOne
      <4> QED
        BY <4>1, <4>2, <4>3
    <3>6. base[p] + Len(sent'[p]) + Len(wq'[p]) = base[p] + Len(sent[p]) + Len(wq[p])
      <4>1. base[p] + (Len(sent[p]) + 1) + (Len(wq[p]) - 1)
              = base[p] + Len(sent[p]) + Len(wq[p])
        BY <1>3, <3>1, MoveOne
      <4>2. Len(sent'[p]) = Len(sent[p]) + 1 /\ Len(wq'[p]) = Len(wq[p]) - 1
        BY <1>3, <3>1, <3>2
      <4> QED
        BY <4>1, <4>2, Zenon
    <3> QED
      BY <2>1, <3>3, <3>4, <3>5, <3>6
  <2>2. CASE q # p
    BY <1>1, <2>2 DEF RoomInv, TypeOK, Slices
  <2> QED
    BY <2>1, <2>2
<1> QED
  BY <1>4, <1>5, <1>6, <1>7, <1>8 DEF RoomInv-----------------------------------------------------------------------------
(* The theorems *)

\* Every step preserves the inductive invariant.
LEMMA StepRoom == RoomInv /\ [Next]_vars => RoomInv'
<1> SUFFICES ASSUME RoomInv, [Next]_vars PROVE RoomInv'
  OBVIOUS
<1>1. ASSUME NEW p \in Person, NEW ok \in BOOLEAN, OnAccept(p, ok)
      PROVE  RoomInv'
  BY <1>1, AcceptKeeps
<1>2. ASSUME NEW p \in Person, NEW ok \in BOOLEAN, NicknameHandler(p, ok)
      PROVE  RoomInv'
  BY <1>2, NicknameKeeps
<1>3. ASSUME NEW p \in Person, ReadHandler(p, TRUE) PROVE RoomInv'
  BY <1>3, BroadcastKeeps
<1>4. ASSUME NEW p \in Person, ReadHandler(p, FALSE) PROVE RoomInv'
  <2>1. /\ Leave(p) /\ phase[p] = "msg" /\ phase' = [phase EXCEPT ![p] = "over"]
        /\ UNCHANGED <<wq, writing, link, hello, said, nread, log, base, sent>>
    BY <1>4 DEF ReadHandler, net
  <2>2. phase'[p] = "over"
    BY <2>1 DEF RoomInv, TypeOK
  <2> QED
    BY <2>1, <2>2, LeaveKeeps
<1>5. ASSUME NEW p \in Person, WriteHandler(p, TRUE) PROVE RoomInv'
  BY <1>5, WriteKeeps
<1>6. ASSUME NEW p \in Person, WriteHandler(p, FALSE) PROVE RoomInv'
  <2>1. /\ Leave(p) /\ writing[p] > 0 /\ writing' = [writing EXCEPT ![p] = @ - 1]
        /\ UNCHANGED <<phase, wq, link, hello, said, nread, log, base, sent>>
    BY <1>6 DEF WriteHandler, net
  <2>2. phase[p] # "nick"
    BY <2>1 DEF RoomInv, TypeOK, Untouched
  <2>3. phase' = [phase EXCEPT ![p] = phase'[p]]
    BY <2>1 DEF RoomInv, TypeOK
  <2> QED
    BY <2>1, <2>2, <2>3, LeaveKeeps
<1>7. ASSUME NEW p \in Person, ClientHello(p) \/ ClientSay(p) \/ Drop(p)
      PROVE  RoomInv'
  BY <1>7, EnvironmentKeeps
<1>8. CASE UNCHANGED vars
  BY <1>8 DEF vars, net, RoomInv, TypeOK, WriteDiscipline, StillRead, Untouched,
              Window, Slices
<1> QED
  BY <1>1, <1>2, <1>3, <1>4, <1>5, <1>6, <1>7, <1>8 DEF Next

\* The inductive invariant holds in every reachable state.
THEOREM RoomInvariant == Spec => []RoomInv
  BY InitRoom, StepRoom, PTL DEF Spec

\* Type correctness of the room, its queues and its tables.
THEOREM TypeCorrect == Spec => []TypeOK
<1>1. RoomInv => TypeOK
  BY DEF RoomInv
<1> QED
  BY <1>1, RoomInvariant, PTL

\* Never two writes on one socket, and no participant's queue is left without
\* a write to empty it, however the handlers interleave.
THEOREM WritesDisciplined == Spec => []WriteDiscipline
<1>1. RoomInv => WriteDiscipline
  BY DEF RoomInv
<1> QED
  BY <1>1, RoomInvariant, PTL

\* Nobody is known to the room without a read that will notice its departure.
THEOREM KnownAreRead == Spec => []StillRead
<1>1. RoomInv => StillRead
  BY DEF RoomInv
<1> QED
  BY <1>1, RoomInvariant, PTL

\* recent_msgs_ is the newest end of everything broadcast.
THEOREM RecentCorrect == Spec => []RecentIsWindow
<1>1. RoomInv => RecentIsWindow
  <2> SUFFICES ASSUME RoomInv PROVE RecentIsWindow
    OBVIOUS
  <2>. DEFINE k == IF Len(log) > MaxRecent THEN MaxRecent ELSE Len(log)
              w == SubSeq(log, Len(log) - k + 1, Len(log))
  <2>1. /\ Len(log) \in Nat /\ k \in 0 .. Len(log) /\ Len(recent) = k
        /\ log \in Seq(Message) /\ recent \in Seq(Message)
    BY RoomAssumption DEF RoomInv, TypeOK, Window
  <2>2. \A i \in 1 .. k : recent[i] = log[Len(log) - k + i]
    BY <2>1 DEF RoomInv, Window
  <2>. HIDE DEF k
  <2>3. /\ w \in Seq(Message) /\ Len(w) = k
        /\ \A i \in 1 .. k : w[i] = log[Len(log) - k + i]
    BY <2>1
  <2>4. recent = w
    BY <2>1, <2>2, <2>3, SeqEqual
  <2> QED
    BY <2>4 DEF RecentIsWindow, k
<1> QED
  BY <1>1, RoomInvariant, PTL

\* What a person is sent is a gapless slice of the log, in order, and a
\* participant's queue reaches to the log's end.
THEOREM QueueCorrect == Spec => []NoGap
<1>1. RoomInv => NoGap
  <2> SUFFICES ASSUME RoomInv, NEW p \in Person
      PROVE LET n == base[p] + Len(sent[p] \o wq[p])
            IN /\ sent[p] \o wq[p] = SubSeq(log, base[p] + 1, n)
               /\ p \in participants => n = Len(log)
    BY DEF NoGap
  <2>. DEFINE s == sent[p]
              w == wq[p]
              b == base[p]
              n == b + Len(s \o w)
              t == SubSeq(log, b + 1, n)
  <2>1. /\ s \in Seq(Message) /\ w \in Seq(Message) /\ b \in Nat
        /\ log \in Seq(Message)
        /\ \A i \in 1 .. Len(s) : s[i] = log[b + i]
        /\ \A i \in 1 .. Len(w) : w[i] = log[b + Len(s) + i]
        /\ b + Len(s) + Len(w) <= Len(log)
        /\ p \in participants => b + Len(s) + Len(w) = Len(log)
    BY DEF RoomInv, TypeOK, Slices
  <2>. HIDE DEF s, w, b
  <2>2. /\ s \o w \in Seq(Message) /\ Len(s \o w) = Len(s) + Len(w)
        /\ Len(s) \in Nat /\ Len(w) \in Nat /\ Len(log) \in Nat
        /\ n = b + Len(s) + Len(w)
    BY <2>1
  <2>3. \A i \in 1 .. Len(s) + Len(w) : (s \o w)[i] = log[b + i]
    <3> SUFFICES ASSUME NEW i \in 1 .. Len(s) + Len(w) PROVE (s \o w)[i] = log[b + i]
      OBVIOUS
    <3>1. CASE i <= Len(s)
      BY <2>1, <2>2, <3>1
    <3>2. CASE i > Len(s)
      <4>1. i - Len(s) \in 1 .. Len(w) /\ (s \o w)[i] = w[i - Len(s)]
        BY <2>1, <2>2, <3>2
      <4>2. w[i - Len(s)] = log[b + Len(s) + (i - Len(s))]
        BY <2>1, <4>1
      <4>3. b + Len(s) + (i - Len(s)) = b + i
        BY <2>1, <2>2
      <4> QED
        BY <4>1, <4>2, <4>3
    <3> QED
      BY <2>2, <3>1, <3>2
  <2>4. /\ t \in Seq(Message) /\ Len(t) = Len(s) + Len(w)
        /\ \A i \in 1 .. Len(s) + Len(w) : t[i] = log[b + i]
    BY <2>1, <2>2
  <2>5. s \o w = t
    BY <2>2, <2>3, <2>4, SeqEqual
  <2> QED
    BY <2>1, <2>2, <2>5 DEF s, w, b
<1> QED
  BY <1>1, RoomInvariant, PTL
-----------------------------------------------------------------------------
(* Names: who a message says it is from, although an error of the nickname   *)
(* read is ignored and a removed sender may still be read.                   *)

\* Why a name in name_table_ is what it is: it was sent, or it is the empty one
\* getNickname made for a removed person, or its owner has nothing to say.
NameOrigin ==
  \A p \in Person :
    names[p] # NoEntry =>
      \/ names[p] = hello[p] /\ hello[p] # NoName
      \/ names[p] = NoName /\ p \notin participants /\ link[p] = "down"
      \/ said[p] = 0 /\ link[p] = "down"

\* Only a dead connection can be in its message phase without a name in the
\* table, or without having sent a nickname.
NamelessIsDead ==
  \A p \in Person :
    /\ phase[p] = "msg" /\ names[p] = NoEntry => link[p] = "down"
    /\ phase[p] \in {"msg", "over"} /\ hello[p] = NoName => link[p] = "down"

\* A client says nothing before its nickname.
Greeted == \A p \in Person : hello[p] = NoName => said[p] = 0

Senders == \A i \in 1 .. Len(log) : phase[log[i].from] \in {"msg", "over"}

NameInv == /\ RoomInv
           /\ NameOrigin /\ NamelessIsDead /\ Greeted
           /\ Senders /\ HonestNames

\* The initial state satisfies the invariant.
LEMMA InitNames == Init => NameInv
<1> SUFFICES ASSUME Init PROVE NameInv
  OBVIOUS
<1>1. PICK a \in Person :
        phase = [q \in Person |-> IF q = a THEN "accepting" ELSE "unborn"]
  BY DEF Init
<1>2. RoomInv
  BY InitRoom
<1>3. NameOrigin /\ NamelessIsDead /\ Greeted
  BY <1>1 DEF Init, NameOrigin, NamelessIsDead, Greeted
<1>4. Senders /\ HonestNames
  BY DEF Init, Senders, HonestNames
<1> QED
  BY <1>2, <1>3, <1>4 DEF NameInv

\* The log's entries stay honest while the log, and what an entry is judged by,
\* do not change for the worse.
LEMMA LogStaysHonest ==
  ASSUME NameInv, TypeOK', UNCHANGED log,
         \A q \in Person :
           phase[q] \in {"msg", "over"} =>
             /\ phase'[q] \in {"msg", "over"}
             /\ hello'[q] = hello[q]
             /\ link[q] = "down" => link'[q] = "down"
             /\ q \notin participants => q \notin participants'
  PROVE  Senders' /\ HonestNames'
<1>1. log \in Seq(Message) /\ DOMAIN log = 1 .. Len(log)
  BY DEF NameInv, RoomInv, TypeOK
<1>2. \A i \in 1 .. Len(log) : log[i].from \in Person
  <2>1. \A i \in 1 .. Len(log) : log[i] \in Message
    BY <1>1
  <2> QED
    BY <2>1 DEF Message
<1>3. ASSUME NEW i \in 1 .. Len(log)
      PROVE  /\ phase'[log[i].from] \in {"msg", "over"}
             /\ \/ log[i].nick = hello'[log[i].from]
                \/ /\ log[i].nick = NoName
                   /\ log[i].from \notin participants'
                   /\ link'[log[i].from] = "down"
  <2>1. phase[log[i].from] \in {"msg", "over"}
    BY <1>3 DEF NameInv, Senders
  <2>2. \/ log[i].nick = hello[log[i].from]
        \/ /\ log[i].nick = NoName
           /\ log[i].from \notin participants /\ link[log[i].from] = "down"
    BY <1>1, <1>3 DEF NameInv, HonestNames
  <2> QED
    BY <1>2, <1>3, <2>1, <2>2
<1> QED
  BY <1>1, <1>3 DEF Senders, HonestNames

\* Every step preserves the invariant.
LEMMA StepNames == NameInv /\ [Next]_vars => NameInv'
<1> SUFFICES ASSUME NameInv, [Next]_vars PROVE NameInv'
  OBVIOUS
<1>1. RoomInv' /\ TypeOK' /\ TypeOK
  BY StepRoom DEF NameInv, RoomInv
<1>2. ASSUME NEW p \in Person, NEW ok \in BOOLEAN, OnAccept(p, ok)
      PROVE  NameInv'
  <2>. DEFINE Waiting == {"unborn", "accepting", "nick", "void"}
  <2>1. /\ \A q \in Person : phase'[q] # phase[q] =>
                               phase[q] \in Waiting /\ phase'[q] \in Waiting
        /\ UNCHANGED <<participants, names, link, hello, said, log>>
    BY <1>2, AcceptWaits DEF NameInv
  <2>2. NameOrigin' /\ NamelessIsDead' /\ Greeted'
    BY <2>1 DEF NameInv, NameOrigin, NamelessIsDead, Greeted
  <2>3. Senders' /\ HonestNames'
    BY <1>1, <2>1, LogStaysHonest
  <2> QED
    BY <1>1, <2>2, <2>3 DEF NameInv
<1>3. ASSUME NEW p \in Person, NEW ok \in BOOLEAN, NicknameHandler(p, ok)
      PROVE  NameInv'
  <2>1. /\ phase[p] = "nick"
        /\ phase' = [phase EXCEPT ![p] = "msg"]
        /\ UNCHANGED <<link, hello, said, nread, log>>
        /\ IF ok THEN hello[p] # NoName ELSE hello[p] = NoName /\ link[p] = "down"
    BY <1>3 DEF NicknameHandler, Enter, net
  <2>2. PICK name \in IF ok THEN {hello[p]} ELSE {Junk} \cup Nickname :
          /\ participants' = participants \cup {p}
          /\ names' = [names EXCEPT ![p] = name]
    BY <1>3 DEF NicknameHandler, Enter
  <2>3. name # NoEntry
    BY <1>1, <2>2, RoomAssumption DEF TypeOK
  <2>4. CASE ok
    <3>1. NameOrigin' /\ NamelessIsDead' /\ Greeted'
      BY <1>1, <2>1, <2>2, <2>3, <2>4
      DEF TypeOK, NameInv, NameOrigin, NamelessIsDead, Greeted
    <3> QED
      BY <1>1, <2>1, <2>2, <3>1, LogStaysHonest DEF TypeOK, NameInv
  <2>5. CASE ~ok
    <3>1. said[p] = 0
      BY <2>1, <2>5 DEF NameInv, Greeted
    <3>2. NameOrigin' /\ NamelessIsDead' /\ Greeted'
      BY <1>1, <2>1, <2>2, <2>3, <2>5, <3>1
      DEF TypeOK, NameInv, NameOrigin, NamelessIsDead, Greeted
    <3> QED
      BY <1>1, <2>1, <2>2, <3>2, LogStaysHonest DEF TypeOK, NameInv
  <2> QED
    BY <2>4, <2>5
<1>4. ASSUME NEW p \in Person, ReadHandler(p, TRUE) PROVE NameInv'
  <2>. DEFINE m == [from |-> p, nick |-> GetNickname(p), body |-> nread[p] + 1]
  <2>1. /\ phase[p] = "msg" /\ nread[p] < said[p]
        /\ UNCHANGED <<phase, link, hello, said, participants>>
        /\ names' = [names EXCEPT ![p] = GetNickname(p)]
        /\ log' = Append(log, m)
    BY <1>4 DEF ReadHandler, Broadcast, net
  <2>2. said[p] # 0
    BY <1>1, <2>1 DEF TypeOK
  <2>3. \/ GetNickname(p) = hello[p] /\ hello[p] # NoName
        \/ /\ GetNickname(p) = NoName
           /\ p \notin participants /\ link[p] = "down"
    <3>1. CASE names[p] = NoEntry
      BY <2>1, <3>1 DEF NameInv, NamelessIsDead, RoomInv, StillRead, GetNickname
    <3>2. CASE names[p] # NoEntry
      BY <2>2, <3>2 DEF NameInv, NameOrigin, GetNickname
    <3> QED
      BY <3>1, <3>2
  <2>4. NameOrigin' /\ NamelessIsDead' /\ Greeted'
    <3>1. NameOrigin'
      BY <1>1, <2>1, <2>3 DEF TypeOK, NameInv, NameOrigin
    <3>2. GetNickname(p) # NoEntry
      BY <1>1, <2>3, RoomAssumption DEF TypeOK
    <3>3. NamelessIsDead'
      BY <1>1, <2>1, <3>2 DEF TypeOK, NameInv, NamelessIsDead
    <3> QED
      BY <2>1, <3>1, <3>3 DEF NameInv, Greeted
  <2>5. Senders' /\ HonestNames'
    <3>1. /\ log \in Seq(Message) /\ Len(log) \in Nat /\ DOMAIN log = 1 .. Len(log)
          /\ log' \in Seq(Message) /\ Len(log') = Len(log) + 1
          /\ DOMAIN log' = 1 .. Len(log')
      BY <1>1, <2>1 DEF TypeOK
    <3>2. /\ log'[Len(log) + 1] = m
          /\ \A i \in 1 .. Len(log) : log'[i] = log[i]
      BY <2>1, <3>1
    <3>3. ASSUME NEW i \in 1 .. Len(log')
          PROVE  /\ phase[log'[i].from] \in {"msg", "over"}
                 /\ \/ log'[i].nick = hello[log'[i].from]
                    \/ /\ log'[i].nick = NoName
                       /\ log'[i].from \notin participants
                       /\ link[log'[i].from] = "down"
      <4>1. CASE i = Len(log) + 1
        <5>1. log'[i].from = p /\ log'[i].nick = GetNickname(p)
          BY <3>2, <4>1
        <5> QED
          BY <2>1, <2>3, <5>1
      <4>2. CASE i \in 1 .. Len(log)
        BY <3>1, <3>2, <4>2 DEF NameInv, Senders, HonestNames
      <4> QED
        BY <3>1, <3>3, <4>1, <4>2
    <3> QED
      BY <2>1, <3>1, <3>3 DEF Senders, HonestNames
  <2> QED
    BY <1>1, <2>4, <2>5 DEF NameInv
<1>5. ASSUME NEW p \in Person, Leave(p), phase[p] = "msg", link[p] = "down",
             UNCHANGED <<link, hello, said, log>>,
             UNCHANGED phase \/ phase' = [phase EXCEPT ![p] = "over"]
      PROVE  NameInv'
  <2>1. /\ participants' = participants \ {p}
        /\ names' = [names EXCEPT ![p] = NoEntry]
    BY <1>5 DEF Leave
  <2>2. \A q \in Person \ {p} : phase'[q] = phase[q] /\ names'[q] = names[q]
    BY <1>1, <1>5, <2>1 DEF TypeOK
  <2>3. names'[p] = NoEntry /\ phase'[p] \in {"msg", "over"}
    BY <1>1, <1>5, <2>1 DEF TypeOK
  <2>4. NameOrigin' /\ Greeted'
    BY <1>5, <2>1, <2>2, <2>3 DEF NameInv, NameOrigin, Greeted
  <2>5. NamelessIsDead'
    <3> SUFFICES ASSUME NEW q \in Person
        PROVE /\ phase'[q] = "msg" /\ names'[q] = NoEntry => link[q] = "down"
              /\ phase'[q] \in {"msg", "over"} /\ hello[q] = NoName => link[q] = "down"
      BY <1>5 DEF NamelessIsDead
    <3>1. CASE q = p
      BY <1>5, <3>1
    <3>2. CASE q # p
      BY <2>2, <3>2 DEF NameInv, NamelessIsDead
    <3> QED
      BY <3>1, <3>2
  <2>6. Senders' /\ HonestNames'
    <3>1. \A q \in Person :
            phase[q] \in {"msg", "over"} =>
              /\ phase'[q] \in {"msg", "over"}
              /\ q \notin participants => q \notin participants'
      <4> SUFFICES ASSUME NEW q \in Person, phase[q] \in {"msg", "over"}
          PROVE /\ phase'[q] \in {"msg", "over"}
                /\ q \notin participants => q \notin participants'
        OBVIOUS
      <4>1. CASE q = p
        BY <2>1, <2>3, <4>1
      <4>2. CASE q # p
        BY <2>1, <2>2, <4>2
      <4> QED
        BY <4>1, <4>2
    <3> QED
      BY <1>1, <1>5, <3>1, LogStaysHonest
  <2> QED
    BY <1>1, <2>4, <2>5, <2>6 DEF NameInv
<1>6. ASSUME NEW p \in Person, ReadHandler(p, FALSE) PROVE NameInv'
  <2>1. /\ Leave(p) /\ phase[p] = "msg" /\ link[p] = "down"
        /\ phase' = [phase EXCEPT ![p] = "over"]
        /\ UNCHANGED <<link, hello, said, log>>
    BY <1>6 DEF ReadHandler, net
  <2> QED
    BY <2>1, <1>5
<1>7. ASSUME NEW p \in Person, WriteHandler(p, TRUE) PROVE NameInv'
  <2>1. UNCHANGED <<phase, participants, names, link, hello, said, log>>
    BY <1>7 DEF WriteHandler, net, room
  <2>2. NameOrigin' /\ NamelessIsDead' /\ Greeted'
    BY <2>1 DEF NameInv, NameOrigin, NamelessIsDead, Greeted
  <2> QED
    BY <1>1, <2>1, <2>2, LogStaysHonest DEF NameInv
<1>8. ASSUME NEW p \in Person, WriteHandler(p, FALSE) PROVE NameInv'
  <2>1. /\ Leave(p) /\ writing[p] > 0 /\ link[p] = "down"
        /\ UNCHANGED <<phase, link, hello, said, log>>
    BY <1>8 DEF WriteHandler, net
  <2>2. CASE phase[p] = "msg"
    BY <2>1, <2>2, <1>5
  <2>3. CASE phase[p] # "msg"
    <3>1. p \notin participants /\ names[p] = NoEntry
      BY <2>3 DEF NameInv, RoomInv, StillRead
    <3>2. UNCHANGED <<participants, names>>
      BY <1>1, <2>1, <3>1 DEF Leave, TypeOK
    <3>3. NameOrigin' /\ NamelessIsDead' /\ Greeted'
      BY <2>1, <3>2 DEF NameInv, NameOrigin, NamelessIsDead, Greeted
    <3> QED
      BY <1>1, <2>1, <3>2, <3>3, LogStaysHonest DEF NameInv
  <2> QED
    BY <2>2, <2>3
<1>9. ASSUME NEW p \in Person, ClientHello(p) PROVE NameInv'
  <2>1. PICK n \in Nickname :
          /\ hello[p] = NoName /\ phase[p] \in {"nick", "msg"} /\ link[p] = "up"
          /\ hello' = [hello EXCEPT ![p] = n]
          /\ UNCHANGED <<phase, participants, names, link, said, log>>
    BY <1>9 DEF ClientHello, Connected, room
  <2>2. phase[p] = "nick"
    BY <2>1 DEF NameInv, NamelessIsDead
  <2>3. names[p] = NoEntry
    BY <2>2 DEF NameInv, RoomInv, StillRead
  <2>4. NameOrigin' /\ NamelessIsDead' /\ Greeted'
    BY <1>1, <2>1, <2>2, <2>3, RoomAssumption
    DEF TypeOK, NameInv, NameOrigin, NamelessIsDead, Greeted
  <2>5. Senders' /\ HonestNames'
    BY <1>1, <2>1, <2>2, LogStaysHonest DEF TypeOK
  <2> QED
    BY <1>1, <2>4, <2>5 DEF NameInv
<1>10. ASSUME NEW p \in Person, ClientSay(p) PROVE NameInv'
  <2>1. /\ hello[p] # NoName /\ link[p] = "up"
        /\ said' = [said EXCEPT ![p] = @ + 1]
        /\ UNCHANGED <<phase, participants, names, link, hello, log>>
    BY <1>10 DEF ClientSay, Connected, room
  <2>2. NameOrigin' /\ NamelessIsDead' /\ Greeted'
    BY <1>1, <2>1 DEF TypeOK, NameInv, NameOrigin, NamelessIsDead, Greeted
  <2> QED
    BY <1>1, <2>1, <2>2, LogStaysHonest DEF NameInv
<1>11. ASSUME NEW p \in Person, Drop(p) PROVE NameInv'
  <2>1. PICK k \in nread[p] .. said[p] : said' = [said EXCEPT ![p] = k]
    BY <1>11 DEF Drop
  <2>2. /\ link[p] = "up" /\ link' = [link EXCEPT ![p] = "down"]
        /\ UNCHANGED <<phase, participants, names, log>>
        /\ \/ UNCHANGED hello
           \/ /\ phase[p] = "nick" /\ said'[p] = 0
              /\ hello' = [hello EXCEPT ![p] = NoName]
    BY <1>11 DEF Drop, Connected, room
  <2>3. said[p] = 0 => k = 0
    BY <1>1, <2>1 DEF TypeOK
  <2>4. \A q \in Person \ {p} :
          link'[q] = link[q] /\ said'[q] = said[q] /\ hello'[q] = hello[q]
    <3>1. /\ link \in [Person -> {"up", "down"}] /\ said \in [Person -> 0 .. MaxSay]
          /\ hello \in [Person -> Nickname \cup {NoName}]
      BY <1>1 DEF TypeOK
    <3>2. \A q \in Person \ {p} : hello'[q] = hello[q]
      BY <2>2, <3>1
    <3> QED
      BY <2>1, <2>2, <3>1, <3>2
  <2>5. /\ link'[p] = "down" /\ said'[p] = k
        /\ phase[p] # "nick" => hello'[p] = hello[p]
        /\ hello'[p] # hello[p] => k = 0
    <3>1. link \in [Person -> {"up", "down"}] /\ said \in [Person -> 0 .. MaxSay]
      BY <1>1 DEF TypeOK
    <3>2. link'[p] = "down" /\ said'[p] = k
      BY <2>1, <2>2, <3>1
    <3> QED
      BY <2>2, <3>2
  <2>6. NameOrigin'
    <3> SUFFICES ASSUME NEW q \in Person, names[q] # NoEntry
        PROVE \/ names[q] = hello'[q] /\ hello'[q] # NoName
              \/ names[q] = NoName /\ q \notin participants /\ link'[q] = "down"
              \/ said'[q] = 0 /\ link'[q] = "down"
      BY <2>2 DEF NameOrigin
    <3>1. phase[q] # "nick"
      BY DEF NameInv, RoomInv, StillRead
    <3>2. CASE q = p
      BY <2>3, <2>5, <3>1, <3>2 DEF NameInv, NameOrigin
    <3>3. CASE q # p
      BY <2>4, <3>3 DEF NameInv, NameOrigin
    <3> QED
      BY <3>2, <3>3
  <2>7. NamelessIsDead'
    <3> SUFFICES ASSUME NEW q \in Person
        PROVE /\ phase[q] = "msg" /\ names[q] = NoEntry => link'[q] = "down"
              /\ phase[q] \in {"msg", "over"} /\ hello'[q] = NoName
                   => link'[q] = "down"
      BY <2>2 DEF NamelessIsDead
    <3>1. CASE q = p
      BY <2>5, <3>1
    <3>2. CASE q # p
      BY <2>4, <3>2 DEF NameInv, NamelessIsDead
    <3> QED
      BY <3>1, <3>2
  <2>8. Greeted'
    <3> SUFFICES ASSUME NEW q \in Person, hello'[q] = NoName PROVE said'[q] = 0
      BY DEF Greeted
    <3>1. CASE q = p
      BY <2>3, <2>5, <3>1 DEF NameInv, Greeted
    <3>2. CASE q # p
      BY <2>4, <3>2 DEF NameInv, Greeted
    <3> QED
      BY <3>1, <3>2
  <2>9. Senders' /\ HonestNames'
    <3>1. ASSUME NEW q \in Person, phase[q] \in {"msg", "over"}
          PROVE  hello'[q] = hello[q] /\ (link[q] = "down" => link'[q] = "down")
      <4>1. CASE q = p
        BY <2>5, <3>1, <4>1
      <4>2. CASE q # p
        BY <2>4, <4>2
      <4> QED
        BY <4>1, <4>2
    <3> QED
      BY <1>1, <2>2, <3>1, LogStaysHonest
  <2> QED
    BY <1>1, <2>6, <2>7, <2>8, <2>9 DEF NameInv
<1>12. CASE UNCHANGED vars
  <2>1. UNCHANGED <<phase, participants, names, link, hello, said, log>>
    BY <1>12 DEF vars, net
  <2>2. NameOrigin' /\ NamelessIsDead' /\ Greeted'
    BY <2>1 DEF NameInv, NameOrigin, NamelessIsDead, Greeted
  <2> QED
    BY <1>1, <2>1, <2>2, LogStaysHonest DEF NameInv
<1> QED
  BY <1>2, <1>3, <1>4, <1>6, <1>7, <1>8, <1>9, <1>10, <1>11, <1>12 DEF Next

\* A message is never broadcast under a nickname its sender did not send; the
\* one exception, an empty nickname, is that of a sender already removed.
THEOREM NamesHonest == Spec => []HonestNames
<1>1. NameInv => HonestNames
  BY DEF NameInv
<1> QED
  BY <1>1, InitNames, StepNames, PTL DEF Spec
-----------------------------------------------------------------------------
(* Refinement: the chat server keeps the promise of RoomLog.  Every handler  *)
(* maps to one abstract step, or to none.                                    *)

\* The refinement mapping of Promise, by name.
Limit == [p \in Person |-> base[p] + Len(sent[p]) + Len(wq[p])]
Place == [p \in Person |-> IF p \in participants THEN "in"
                           ELSE IF phase[p] \in {"msg", "over"} THEN "left"
                           ELSE "out"]

\* Initially nobody is in the room and the log is empty.
LEMMA InitRefines == Init => Promise!Init
<1> SUFFICES ASSUME Init PROVE Promise!Init
  OBVIOUS
<1>1. PICK a \in Person :
        phase = [q \in Person |-> IF q = a THEN "accepting" ELSE "unborn"]
  BY DEF Init
<1>2. Limit = [p \in Person |-> 0]
  BY DEF Init, Limit
<1>3. Place = [p \in Person |-> "out"]
  BY <1>1 DEF Init, Place
<1> QED
  BY <1>2, <1>3 DEF Init, Promise!Init, Limit, Place

\* A step that changes neither the log, nor a queue's slice, nor who is in the
\* room is invisible.
LEMMA StutterRefines ==
  ASSUME UNCHANGED <<log, base, sent>>, Limit' = Limit, Place' = Place
  PROVE  UNCHANGED Promise!vars
BY DEF Promise!vars, Limit, Place

\* NicknameHandler is Join: the recent window starts where Join says.
LEMMA NicknameRefines ==
  ASSUME RoomInv, NEW p \in Person, NEW ok \in BOOLEAN, NicknameHandler(p, ok)
  PROVE  Promise!Join(p)
<1>1. PICK name : Enter(p, name)
  BY DEF NicknameHandler
<1>2. /\ phase[p] = "nick"
      /\ phase' = [phase EXCEPT ![p] = "msg"]
      /\ participants' = participants \cup {p}
      /\ base' = [base EXCEPT ![p] = Len(log) - Len(recent)]
      /\ UNCHANGED <<log, sent>>
  BY <1>1 DEF NicknameHandler, Enter
<1>3. /\ wq' = [q \in Person |-> IF q = p THEN wq[q] \o recent ELSE wq[q]]
      /\ wq[p] = <<>> /\ sent[p] = <<>>
      /\ p \notin participants
  BY <1>1, <1>2 DEF Enter, OnMessage, RoomInv, Untouched, StillRead
<1>4. /\ Len(log) \in Nat /\ Len(recent) \in Nat /\ recent \in Seq(Message)
      /\ Len(log) - Len(recent) = IF Len(log) > MaxRecent
                                  THEN Len(log) - MaxRecent ELSE 0
  BY RoomAssumption DEF RoomInv, TypeOK, Window
<1>5. Place[p] = "out"
  BY <1>2, <1>3 DEF Place
<1>6. Place' = [Place EXCEPT ![p] = "in"]
  <2>1. \A q \in Person : Place'[q] = IF q = p THEN "in" ELSE Place[q]
    BY <1>2 DEF Place, RoomInv, TypeOK
  <2> QED
    BY <2>1 DEF Place
<1>7. Limit' = [Limit EXCEPT ![p] = Len(log)]
  <2>1. Limit'[p] = Len(log)
    <3>1. /\ base'[p] = Len(log) - Len(recent) /\ Len(sent'[p]) = 0
          /\ wq'[p] = recent
      BY <1>2, <1>3, <1>4 DEF RoomInv, TypeOK
    <3>2. Limit'[p] = base'[p] + Len(sent'[p]) + Len(wq'[p])
      BY DEF Limit
    <3>3. Len(log) - Len(recent) + 0 + Len(recent) = Len(log)
      BY <1>4
    <3> QED
      BY <3>1, <3>2, <3>3
  <2>2. \A q \in Person \ {p} : Limit'[q] = Limit[q]
    BY <1>2, <1>3 DEF Limit, RoomInv, TypeOK
  <2> QED
    BY <2>1, <2>2 DEF Limit
<1> QED
  BY <1>2, <1>4, <1>5, <1>6, <1>7 DEF Promise!Join, Limit, Place

\* A message read is Post.
LEMMA BroadcastRefines ==
  ASSUME RoomInv, NEW p \in Person, ReadHandler(p, TRUE)
  PROVE  Promise!Post
<1>. DEFINE m == [from |-> p, nick |-> GetNickname(p), body |-> nread[p] + 1]
<1>1. /\ phase[p] = "msg" /\ nread[p] < said[p]
      /\ UNCHANGED <<phase, sent, participants, base>>
      /\ OnMessage(participants, <<m>>)
      /\ log' = Append(log, m)
  BY DEF ReadHandler, Broadcast, net
<1>2. m \in Message
  <2>1. GetNickname(p) \in Name
    BY RoomAssumption DEF RoomInv, TypeOK, GetNickname, Name
  <2> QED
    BY <1>1, <2>1, RoomAssumption DEF RoomInv, TypeOK, Message
<1>. HIDE DEF m
<1>3. Place' = Place
  BY <1>1 DEF Place
<1>4. Limit' = [q \in Person |-> IF Place[q] = "in" THEN Len(log) + 1 ELSE Limit[q]]
  <2>1. ASSUME NEW q \in Person
        PROVE  Limit'[q] = IF Place[q] = "in" THEN Len(log) + 1 ELSE Limit[q]
    <3>1. Place[q] = "in" <=> q \in participants
      BY DEF Place
    <3>2. Limit'[q] = base[q] + Len(sent[q]) + Len(wq'[q])
      BY <1>1 DEF Limit
    <3>3. CASE q \in participants
      <4>1. wq'[q] = wq[q] \o <<m>>
        BY <1>1, <3>3 DEF OnMessage
      <4>2. /\ wq[q] \in Seq(Message) /\ base[q] \in Nat
            /\ Len(sent[q]) \in Nat /\ Len(wq[q]) \in Nat
        BY DEF RoomInv, TypeOK
      <4>3. base[q] + Len(sent[q]) + Len(wq[q]) = Len(log)
        BY <3>3 DEF RoomInv, Slices
      <4>4. Len(wq'[q]) = Len(wq[q]) + 1
        BY <1>2, <4>1, <4>2
      <4>5. base[q] + Len(sent[q]) + (Len(wq[q]) + 1)
              = (base[q] + Len(sent[q]) + Len(wq[q])) + 1
        BY <4>2, AddOne
      <4> QED
        BY <3>1, <3>2, <3>3, <4>4, <4>5, <4>3, Zenon
    <3>4. CASE q \notin participants
      BY <1>1, <3>1, <3>2, <3>4 DEF Limit, OnMessage
    <3> QED
      BY <3>3, <3>4
  <2> QED
    BY <2>1 DEF Limit
<1> QED
  BY <1>1, <1>2, <1>3, <1>4 DEF Promise!Post, Limit, Place

\* A completed write is Deliver.
LEMMA WriteRefines ==
  ASSUME RoomInv, NEW p \in Person, WriteHandler(p, TRUE)
  PROVE  Promise!Deliver(p)
<1>1. /\ writing[p] > 0
      /\ wq' = [wq EXCEPT ![p] = Tail(wq[p])]
      /\ sent' = [sent EXCEPT ![p] = Append(sent[p], Head(wq[p]))]
      /\ UNCHANGED <<participants, phase, log, base>>
  BY DEF WriteHandler, room, net
<1>2. wq[p] # <<>> /\ wq[p] \in Seq(Message) /\ sent[p] \in Seq(Message)
  BY <1>1 DEF RoomInv, TypeOK, WriteDiscipline
<1>3. /\ Head(wq[p]) = wq[p][1] /\ Len(wq[p]) \in Nat \ {0} /\ wq[p][1] \in Message
      /\ Len(Tail(wq[p])) = Len(wq[p]) - 1
  BY <1>2
<1>4. base[p] \in Nat /\ Len(sent[p]) \in Nat /\ Len(log) \in Nat
  BY <1>2 DEF RoomInv, TypeOK
<1>5. Head(wq[p]) = log[base[p] + Len(sent[p]) + 1]
  BY <1>3 DEF RoomInv, Slices
<1>6. base[p] + Len(sent[p]) < Limit[p]
  <2>1. Limit[p] = base[p] + Len(sent[p]) + Len(wq[p])
    BY DEF Limit
  <2>2. \A a, b \in Nat, c \in Nat \ {0} : a + b < a + b + c
    OBVIOUS
  <2> QED
    BY <1>3, <1>4, <2>1, <2>2
<1>7. Limit' = Limit
  <2>1. ASSUME NEW q \in Person
        PROVE  base'[q] + Len(sent'[q]) + Len(wq'[q])
                 = base[q] + Len(sent[q]) + Len(wq[q])
    <3>1. CASE q = p
      <4>1. /\ base'[q] = base[p] /\ Len(sent'[q]) = Len(sent[p]) + 1
            /\ Len(wq'[q]) = Len(wq[p]) - 1
        BY <1>1, <1>2, <1>3, <3>1 DEF RoomInv, TypeOK
      <4>2. base[p] \in Nat /\ Len(sent[p]) \in Nat /\ Len(wq[p]) \in Nat \ {0}
        BY <1>3, <1>4
      <4>3. base[p] + (Len(sent[p]) + 1) + (Len(wq[p]) - 1)
              = base[p] + Len(sent[p]) + Len(wq[p])
        BY <4>2, MoveOne
      <4> QED
        BY <3>1, <4>1, <4>3, Zenon
    <3>2. CASE q # p
      BY <1>1, <3>2 DEF RoomInv, TypeOK
    <3> QED
      BY <3>1, <3>2
  <2> QED
    BY <2>1 DEF Limit
<1>8. Place' = Place
  BY <1>1 DEF Place
<1> QED
  BY <1>1, <1>5, <1>6, <1>7, <1>8 DEF Promise!Deliver, Limit, Place

\* leave is Leave for a participant.
LEMMA LeaveRefines ==
  ASSUME RoomInv, NEW p \in participants, participants' = participants \ {p},
         UNCHANGED <<wq, log, base, sent>>,
         phase' = phase \/ phase' = [phase EXCEPT ![p] = "over"]
  PROVE  Promise!Leave(p)
<1>1. p \in Person
  BY DEF RoomInv, TypeOK
<1>2. Limit' = Limit
  BY DEF Limit
<1>3. \A q \in Person \ {p} : Place'[q] = Place[q]
  BY DEF Place, RoomInv, TypeOK
<1>4. phase[p] = "msg"
  BY <1>1 DEF RoomInv, StillRead
<1>5. Place[p] = "in" /\ Place'[p] = "left"
  BY <1>1, <1>4 DEF Place, RoomInv, TypeOK
<1>6. Place' = [Place EXCEPT ![p] = "left"]
  BY <1>3, <1>5 DEF Place
<1> QED
  BY <1>2, <1>5, <1>6 DEF Promise!Leave, Limit, Place

\* Every step of the server is a step of RoomLog or changes nothing there.
LEMMA StepRefines == RoomInv /\ [Next]_vars => [Promise!Next]_(Promise!vars)
<1> SUFFICES ASSUME RoomInv, [Next]_vars
    PROVE Promise!Next \/ UNCHANGED Promise!vars
  OBVIOUS
<1>1. ASSUME NEW p \in Person, NEW ok \in BOOLEAN, OnAccept(p, ok)
      PROVE  UNCHANGED Promise!vars
  <2>. DEFINE Waiting == {"unborn", "accepting", "nick", "void"}
  <2>1. /\ \A q \in Person : phase'[q] # phase[q] =>
                               phase[q] \in Waiting /\ phase'[q] \in Waiting
        /\ UNCHANGED <<participants, wq, log, base, sent>>
    BY <1>1 DEF OnAccept, RoomInv, TypeOK, Phase
  <2>2. Limit' = Limit
    BY <2>1 DEF Limit
  <2>3. Place' = Place
    BY <2>1 DEF Place
  <2> QED
    BY <2>1, <2>2, <2>3, StutterRefines
<1>2. ASSUME NEW p \in Person, NEW ok \in BOOLEAN, NicknameHandler(p, ok)
      PROVE  Promise!Next
  BY <1>2, NicknameRefines DEF Promise!Next
<1>3. ASSUME NEW p \in Person, ReadHandler(p, TRUE) PROVE Promise!Next
  BY <1>3, BroadcastRefines DEF Promise!Next
<1>4. ASSUME NEW p \in Person, WriteHandler(p, TRUE) PROVE Promise!Next
  BY <1>4, WriteRefines DEF Promise!Next
<1>5. ASSUME NEW p \in Person, ReadHandler(p, FALSE) \/ WriteHandler(p, FALSE)
      PROVE  Promise!Next \/ UNCHANGED Promise!vars
  <2>1. /\ participants' = participants \ {p}
        /\ UNCHANGED <<wq, log, base, sent>>
        /\ \/ phase' = phase
           \/ phase[p] = "msg" /\ phase' = [phase EXCEPT ![p] = "over"]
    BY <1>5 DEF ReadHandler, WriteHandler, Leave
  <2>2. CASE p \in participants
    <3>1. Promise!Leave(p)
      BY <2>1, <2>2, LeaveRefines
    <3> QED
      BY <1>5, <3>1 DEF Promise!Next
  <2>3. CASE p \notin participants
    <3>1. Limit' = Limit
      BY <2>1 DEF Limit
    <3>2. \A q \in Person : Place'[q] = Place[q]
      BY <1>5, <2>1, <2>3 DEF Place, RoomInv, TypeOK
    <3>3. Place' = Place
      BY <3>2 DEF Place
    <3> QED
      BY <2>1, <3>1, <3>3, StutterRefines
  <2> QED
    BY <2>2, <2>3
<1>6. ASSUME NEW p \in Person, ClientHello(p) \/ ClientSay(p) \/ Drop(p)
      PROVE  UNCHANGED Promise!vars
  <2>1. UNCHANGED <<phase, participants, wq, log, base, sent>>
    BY <1>6 DEF ClientHello, ClientSay, Drop, room
  <2> QED
    BY <2>1, StutterRefines DEF Limit, Place
<1>7. CASE UNCHANGED vars
  BY <1>7, StutterRefines DEF vars, Limit, Place
<1> QED
  BY <1>1, <1>2, <1>3, <1>4, <1>5, <1>6, <1>7 DEF Next

\* The chat server implements the room log: nobody in the room misses, repeats
\* or reorders a message, whichever connections die at whichever moment.
THEOREM ServerKeepsPromise == Spec => KeepsPromise
  BY InitRefines, StepRefines, RoomInvariant, PTL
  DEF Spec, KeepsPromise, Promise!Spec
=============================================================================
