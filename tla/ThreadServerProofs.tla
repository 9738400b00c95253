------------------------- MODULE ThreadServerProofs -------------------------
(* Theorems about ThreadServer, for any number of connections: the limit of *)
(* connections, the types and what keeps v_client intact, who is in it, and *)
(* that a message reaches everybody in it once.                             *)
EXTENDS ThreadServer, FiniteSetTheorems, SequenceTheorems, TLAPS

\* Limit is inductive once threads are known to be functions of the clients.
LimitInv == /\ thread \in [Conn -> {"none", "refused", "recv", "send", "erase",
                                    "erasing", "say", "over"}]
            /\ nodeSize \in Nat
            /\ Limit

\* What every step but Accept does: a client's thread goes on, or none does,
\* and nobody is counted.
Continues == /\ \/ UNCHANGED thread
                \/ \E c \in Conn : \E to \in {"recv", "send", "erase", "erasing",
                                              "say", "over"} :
                     /\ thread[c] \notin {"none", "refused"}
                     /\ thread' = [thread EXCEPT ![c] = to]
             /\ UNCHANGED nodeSize

LEMMA StepContinues ==
  ASSUME NEW c \in Conn, ThreadStep(c)
  PROVE  Continues
<1>1. UNCHANGED nodeSize
  BY DEF ThreadStep, Recv, RecvEnds, SendOn, SendEnds, EraseSelf, SayGone, server
<1>2. CASE SendOn(c)
  BY <1>1, <1>2 DEF SendOn, Continues
<1>3. CASE Recv(c) \/ RecvEnds(c)
  <2>1. Goes(c, "recv", "send") \/ Goes(c, "recv", "erase")
    BY <1>3 DEF Recv, RecvEnds
  <2> QED  BY <2>1, <1>1 DEF Goes, Continues
<1>4. CASE SendEnds(c)
  <2>1. Goes(c, "send", "recv") \/ Goes(c, "send", "erase")
    BY <1>4 DEF SendEnds
  <2> QED  BY <2>1, <1>1 DEF Goes, Continues
<1>5. CASE EraseSelf(c) \/ SayGone(c)
  <2>1. \/ Goes(c, "erase", "erasing") \/ Goes(c, "erasing", "say")
        \/ Goes(c, "say", "over")
    BY <1>5 DEF EraseSelf, SayGone
  <2> QED  BY <2>1, <1>1 DEF Goes, Continues
<1> QED  BY <1>2, <1>3, <1>4, <1>5 DEF ThreadStep

\* The served clients stay the same, and so does their number.
LEMMA ContinuesKeepsLimit == LimitInv /\ Continues => LimitInv'
<1> SUFFICES ASSUME LimitInv, Continues PROVE LimitInv'
  OBVIOUS
<1>1. CASE UNCHANGED thread
  BY <1>1 DEF LimitInv, Continues, Limit, Served
<1>2. ASSUME NEW c \in Conn,
             NEW to \in {"recv", "send", "erase", "erasing", "say", "over"},
             thread[c] \notin {"none", "refused"},
             thread' = [thread EXCEPT ![c] = to]
      PROVE  LimitInv'
  <2>1. Served' = Served
    BY <1>2 DEF LimitInv, Served
  <2> QED  BY <2>1, <1>2 DEF LimitInv, Continues, Limit
<1> QED  BY <1>1, <1>2 DEF Continues

\* Taking a client in adds it to those served and counts it; refusing it does
\* neither.
LEMMA AcceptKeepsLimit ==
  ASSUME LimitInv, NEW c \in Conn, Accept(c)
  PROVE  LimitInv'
<1>1. CASE Full
  <2>1. Goes(c, "none", "refused") /\ UNCHANGED nodeSize
    BY <1>1 DEF Accept, server
  <2>2. Served' = Served
    BY <2>1 DEF Goes, LimitInv, Served
  <2> QED  BY <2>1, <2>2 DEF Goes, LimitInv, Limit
<1>2. CASE ~Full
  <2>1. Goes(c, "none", "recv") /\ nodeSize' = nodeSize + 1
    BY <1>2 DEF Accept
  <2>2. Served' = Served \cup {c} /\ c \notin Served
    BY <2>1 DEF Goes, LimitInv, Served
  <2>3. IsFiniteSet(Served)
    BY FS_Subset, ServerAssumption DEF Served
  <2>4. Cardinality(Served') = Cardinality(Served) + 1
    BY <2>2, <2>3, FS_AddElement
  <2>5. nodeSize' <= ConnectionSize
    BY <1>2, <2>1, ServerAssumption DEF Full, LimitInv
  <2> QED  BY <2>1, <2>4, <2>5 DEF Goes, LimitInv, Limit
<1> QED  BY <1>1, <1>2

\* However many clients come and go, no more than m_connectionSize are ever
\* taken, and m_nodeSize counts them.
THEOREM LimitHolds == Spec => []Limit
<1>1. Init => LimitInv
  <2> SUFFICES ASSUME Init PROVE LimitInv
    OBVIOUS
  <2>1. Served = {}
    BY DEF Init, Served
  <2> QED  BY <2>1, FS_EmptySet, ServerAssumption DEF Init, LimitInv, Limit
<1>2. LimitInv /\ [Next]_vars => LimitInv'
  <2> SUFFICES ASSUME LimitInv, [Next]_vars PROVE LimitInv'
    OBVIOUS
  <2>1. CASE Main \/ Interrupt \/ Join
    <3>1. UNCHANGED <<thread, nodeSize>>
      BY <2>1 DEF Main, MainStep, Interrupt, Join
    <3> QED  BY <3>1, ContinuesKeepsLimit DEF Continues
  <2>2. ASSUME NEW c \in Conn, ClientSay(c) \/ Drop(c) PROVE LimitInv'
    <3>1. UNCHANGED <<thread, nodeSize>>
      BY <2>2 DEF ClientSay, Drop, server
    <3> QED  BY <3>1, ContinuesKeepsLimit DEF Continues
  <2>3. ASSUME NEW c \in Conn, ThreadStep(c) PROVE LimitInv'
    BY <2>3, StepContinues, ContinuesKeepsLimit
  <2>4. ASSUME NEW c \in Conn, Accept(c) PROVE LimitInv'
    BY <2>4, AcceptKeepsLimit
  <2>5. CASE UNCHANGED vars
    <3>1. UNCHANGED <<thread, nodeSize>>
      BY <2>5 DEF vars, server
    <3> QED  BY <3>1, ContinuesKeepsLimit DEF Continues
  <2> QED  BY <2>1, <2>2, <2>3, <2>4, <2>5 DEF Next
<1>3. LimitInv => Limit
  BY DEF LimitInv
<1> QED  BY <1>1, <1>2, <1>3, PTL DEF Spec
-----------------------------------------------------------------------------
(* v_client's memory *)

Loops == [Conn -> [at : Nat, end : Nat, moved : BOOLEAN, disturbed : BOOLEAN]]

\* What an effect on the loops leaves of them.
LEMMA Disturbs ==
  ASSUME loop \in Loops, NEW flag \in {"moved", "disturbed"}, Disturb(flag)
  PROVE  /\ loop' \in Loops
         /\ \A d \in Conn :
              /\ loop'[d].at = loop[d].at /\ loop'[d].end = loop[d].end
              /\ loop[d].moved => loop'[d].moved
              /\ loop[d].disturbed => loop'[d].disturbed
              /\ flag = "disturbed" => loop'[d].moved = loop[d].moved
              /\ flag = "moved" => loop'[d].disturbed = loop[d].disturbed
              /\ thread[d] = "send" => loop'[d][flag]
<1>1. CASE flag = "moved"
  BY <1>1 DEF Disturb, Loops
<1>2. CASE flag = "disturbed"
  BY <1>2 DEF Disturb, Loops
<1> QED  BY <1>1, <1>2

LEMMA MaxOfTwo == \A m, n \in Nat : /\ Max({m, n}) \in Nat
                                    /\ Max({m, n}) >= m /\ Max({m, n}) >= n
<1> TAKE m, n \in Nat
<1>1. \E x \in {m, n} : \A y \in {m, n} : x >= y
  OBVIOUS
<1>2. /\ Max({m, n}) \in {m, n}
      /\ \A y \in {m, n} : Max({m, n}) >= y
  BY <1>1 DEF Max
<1> QED  BY <1>2

LEMMA InSlots ==
  ASSUME TypeOK, NEW i \in 1 .. size
  PROVE  slots[i] \in Conn
<1>1. slots \in Seq(Conn) /\ size \in Nat /\ size <= Len(slots) /\ Len(slots) \in Nat
  BY DEF TypeOK
<1>2. i \in 1 .. Len(slots)
  BY <1>1
<1> QED  BY <1>1, <1>2, ElementOfSeq

\* Where the behaviour is undefined, v_client still holds pointers to nodes,
\* and no memory is given back.
LEMMA UndefinedMemory ==
  ASSUME TypeOK, NEW c \in Conn, Undefined(c)
  PROVE  /\ slots' \in Seq(Conn) /\ size' \in 0 .. Len(slots')
         /\ Len(slots) <= Len(slots')
         /\ killed' \in BOOLEAN
<1>0. slots \in Seq(Conn) /\ size \in 0 .. Len(slots) /\ killed \in BOOLEAN
  BY DEF TypeOK
<1>1. CASE killed' = TRUE /\ UNCHANGED <<slots, size>>
  BY <1>0, <1>1
<1>2. ASSUME NEW n \in {k \in 0 .. size + 1 : k + 1 >= size},
             size' = n,
             slots' \in [1 .. Max({n, Len(slots)}) -> Range(slots) \cup {c}],
             UNCHANGED killed
      PROVE  /\ slots' \in Seq(Conn) /\ size' \in 0 .. Len(slots')
             /\ Len(slots) <= Len(slots')
  <2> DEFINE m == Max({n, Len(slots)})
  <2>1. n \in Nat /\ Len(slots) \in Nat
    BY <1>0
  <2>2. m \in Nat /\ m >= n /\ m >= Len(slots)
    BY <2>1, MaxOfTwo
  <2>3. Range(slots) \cup {c} \subseteq Conn
    BY <1>0, LenProperties, ElementOfSeq DEF Range
  <2> HIDE DEF m
  <2>4. slots' \in [1 .. m -> Range(slots) \cup {c}]
    BY <1>2 DEF m
  <2>5. slots' \in [1 .. m -> Conn]
    BY <2>3, <2>4
  <2>6. slots' \in Seq(Conn) /\ Len(slots') = m
    BY <2>2, <2>5
  <2> QED  BY <2>1, <2>2, <2>6, <1>2
<1> QED  BY <1>0, <1>1, <1>2 DEF Undefined

\* push_back puts the node behind the others; memory is given back only with
\* what the loops hold of it marked.
LEMMA PushBackMemory ==
  ASSUME TypeOK, NEW c \in Conn, PushBack(c)
  PROVE  /\ slots' \in Seq(Conn) /\ size' = size + 1 /\ size' <= Len(slots')
         /\ \A i \in 1 .. size : slots'[i] = slots[i]
         /\ slots'[size + 1] = c
         /\ \/ UNCHANGED loop /\ Len(slots) <= Len(slots')
            \/ Disturb("moved")
<1>0. slots \in Seq(Conn) /\ size \in 0 .. Len(slots)
  BY DEF TypeOK
<1>1. CASE slots' = [slots EXCEPT ![size + 1] = c] /\ size < Len(slots)
  <2>1. size + 1 \in 1 .. Len(slots)
    BY <1>0, <1>1
  <2> QED  BY <1>0, <1>1, <2>1, ExceptSeq DEF PushBack
<1>2. CASE slots' = Append(slots, c) /\ ~(size < Len(slots))
  BY <1>0, <1>2, AppendProperties DEF PushBack
<1>3. CASE slots' = Append(SubSeq(slots, 1, size), c)
  <2>1. \A i \in 1 .. size : slots[i] \in Conn
    BY <1>0, ElementOfSeq
  <2>2. /\ SubSeq(slots, 1, size) \in Seq(Conn)
        /\ Len(SubSeq(slots, 1, size)) = size
        /\ \A i \in 1 .. size : SubSeq(slots, 1, size)[i] = slots[i]
    BY <1>0, <2>1, SubSeqProperties
  <2>3. \/ UNCHANGED loop /\ Len(slots) <= Len(slots')
        \/ Disturb("moved")
    <3>1. CASE Disturb("moved")
      BY <3>1
    <3>2. CASE UNCHANGED loop /\ slots' = IF size < Len(slots)
                     THEN [slots EXCEPT ![size + 1] = c] ELSE Append(slots, c)
      BY <3>2, <1>0, AppendProperties, ExceptSeq
    <3> QED  BY <3>1, <3>2 DEF PushBack
  <2> QED  BY <1>0, <1>3, <2>2, <2>3, AppendProperties DEF PushBack
<1> QED  BY <1>1, <1>2, <1>3 DEF PushBack

\* erase(remove(...)): the later elements close up over the node's slot i.
LEMMA EraseMemory ==
  ASSUME TypeOK, NEW c \in Conn, NEW i \in 1 .. size, slots[i] = c,
         \A j \in 1 .. size : slots[j] = c => j = i,
         Erase(c)
  PROVE  /\ slots' \in Seq(Conn) /\ size' = size - 1 /\ Len(slots') = Len(slots)
         /\ \A k \in 1 .. size - 1 :
              slots'[k] = IF k < i THEN slots[k] ELSE slots[k + 1]
<1>0. slots \in Seq(Conn) /\ size \in 0 .. Len(slots)
  BY DEF TypeOK
<1>1. i = CHOOSE j \in 1 .. size : slots[j] = c
  OBVIOUS
<1>2. /\ slots' = [k \in DOMAIN slots |-> IF k \in i .. size - 1
                                          THEN slots[k + 1] ELSE slots[k]]
      /\ size' = size - 1
  BY <1>1 DEF Erase
<1>3. DOMAIN slots = 1 .. Len(slots) /\ \A k \in 1 .. Len(slots) : slots[k] \in Conn
  BY <1>0
<1>4. slots' \in [1 .. Len(slots) -> Conn]
  BY <1>0, <1>2, <1>3
<1>5. slots' \in Seq(Conn) /\ Len(slots') = Len(slots)
  BY <1>0, <1>4
<1> QED  BY <1>0, <1>2, <1>3, <1>5

\* The node of c is in v_client not at all, or once.
LEMMA NoElement ==
  ASSUME TypeOK, NEW c
  PROVE  Elements(c) = 0 <=> \A i \in 1 .. size : slots[i] # c
<1>1. size \in Int /\ IsFiniteSet(1 .. size)
  BY FS_Interval DEF TypeOK
<1>2. IsFiniteSet({i \in 1 .. size : slots[i] = c})
  BY <1>1, FS_Subset
<1> QED  BY <1>2, FS_EmptySet DEF Elements

LEMMA OneElement ==
  ASSUME TypeOK, NEW c
  PROVE  Elements(c) = 1 <=>
           \E i \in 1 .. size : /\ slots[i] = c
                                /\ \A j \in 1 .. size : slots[j] = c => j = i
<1>1. size \in Int /\ IsFiniteSet(1 .. size)
  BY FS_Interval DEF TypeOK
<1> DEFINE S == {i \in 1 .. size : slots[i] = c}
<1>2. IsFiniteSet(S)
  BY <1>1, FS_Subset
<1>3. Cardinality(S) = 1 <=> \E i : S = {i}
  BY <1>2, FS_Singleton
<1>4. (\E i : S = {i}) <=> \E i \in 1 .. size :
           /\ slots[i] = c
           /\ \A j \in 1 .. size : slots[j] = c => j = i
  <2>1. ASSUME NEW i, S = {i}
        PROVE  /\ i \in 1 .. size /\ slots[i] = c
               /\ \A j \in 1 .. size : slots[j] = c => j = i
    <3>1. \A j : j \in S <=> j = i
      BY <2>1
    <3> QED  BY <3>1
  <2>2. ASSUME NEW i \in 1 .. size, slots[i] = c,
               \A j \in 1 .. size : slots[j] = c => j = i
        PROVE  S = {i}
    BY <2>2
  <2> QED  BY <2>1, <2>2
<1> QED  BY <1>3, <1>4 DEF Elements
-----------------------------------------------------------------------------
(* The types *)

\* From accept to push_back main has a client in hand.
InHand == /\ main = "accept" => new = Nobody
          /\ main \in {"announce", "show", "push", "pushing"} => new \in Conn

\* A loop reads memory that v_client has had, or memory that was freed, and
\* sends a message on that was sent.
InMemory == \A c \in Conn : thread[c] = "send" =>
                /\ heard[c] # 0 /\ loop[c].at # 0
                /\ loop[c].moved \/ loop[c].end <= Len(slots)

TypeInv == TypeOK /\ InHand /\ InMemory

LEMMA MaySignalType == \A c : MaySignal(c) \subseteq BOOLEAN
BY DEF MaySignal

\* The bound on all messages bounds those of each client.
LEMMA SayBounded ==
  ASSUME TypeOK, NEW c \in Conn, Cardinality(Messages) < MaxSay
  PROVE  said[c] + 1 \in 0 .. MaxSay
<1>0. said[c] \in 0 .. MaxSay
  BY DEF TypeOK
<1> SUFFICES ASSUME said[c] = MaxSay PROVE FALSE
  BY <1>0, ServerAssumption
<1>1. ({c} \X (1 .. MaxSay)) \subseteq Messages
  BY DEF Messages
<1>2. IsFiniteSet(1 .. MaxSay) /\ Cardinality(1 .. MaxSay) = MaxSay
  BY FS_Interval, ServerAssumption
<1>3. IsFiniteSet({c}) /\ Cardinality({c}) = 1
  BY FS_Singleton
<1>4. Cardinality({c} \X (1 .. MaxSay)) = 1 * MaxSay
  BY <1>2, <1>3, FS_Product
<1>5. IsFiniteSet(Conn \X (1 .. MaxSay))
  BY <1>2, FS_Product, ServerAssumption
<1>6. IsFiniteSet(Messages)
  BY <1>5, FS_Subset DEF Messages
<1>7. Cardinality({c} \X (1 .. MaxSay)) <= Cardinality(Messages)
  BY <1>1, <1>6, FS_Subset
<1>8. Cardinality(Messages) \in Nat
  BY <1>6, FS_CardinalityType
<1> QED  BY <1>4, <1>7, <1>8, ServerAssumption

\* What an undefined step on v_client leaves of the types.
LEMMA UndefinedTypes ==
  ASSUME TypeInv, NEW c \in Conn, Undefined(c)
  PROVE  /\ slots' \in Seq(Conn) /\ size' \in 0 .. Len(slots')
         /\ loop' \in Loops /\ killed' \in BOOLEAN /\ calm' \in BOOLEAN
         /\ \A d \in Conn : thread[d] = "send" =>
              /\ loop'[d].at # 0
              /\ loop'[d].moved \/ loop'[d].end <= Len(slots')
<1>1. loop \in Loops
  BY DEF TypeInv, TypeOK, Loops
<1>2. /\ slots' \in Seq(Conn) /\ size' \in 0 .. Len(slots')
      /\ Len(slots) <= Len(slots') /\ killed' \in BOOLEAN
  BY UndefinedMemory DEF TypeInv
<1>3. Disturb("disturbed") /\ calm' = FALSE
  BY DEF Undefined
<1>4. \A d \in Conn : loop[d].end \in Nat
  BY <1>1 DEF Loops
<1>5. Len(slots) \in Nat /\ Len(slots') \in Nat
  BY <1>2 DEF TypeInv, TypeOK
<1>6. /\ loop' \in Loops
      /\ \A e \in Conn : /\ loop'[e].at = loop[e].at
                         /\ loop'[e].end = loop[e].end
                         /\ loop[e].moved => loop'[e].moved
  BY <1>1, <1>3, Disturbs
<1>7. ASSUME NEW d \in Conn, thread[d] = "send"
      PROVE  /\ loop'[d].at # 0
             /\ loop'[d].moved \/ loop'[d].end <= Len(slots')
  <2>1. loop[d].at # 0 /\ (loop[d].moved \/ loop[d].end <= Len(slots))
    BY <1>7 DEF TypeInv, InMemory
  <2>2. /\ loop'[d].at = loop[d].at /\ loop'[d].end = loop[d].end
        /\ loop[d].moved => loop'[d].moved
    BY <1>6
  <2>3. loop[d].end <= Len(slots) => loop'[d].end <= Len(slots')
    BY <2>2, <1>2, <1>4, <1>5
  <2> QED  BY <2>1, <2>2, <2>3
<1> QED  BY <1>2, <1>3, <1>6, <1>7

LEMMA MainTypes == TypeInv /\ Main => TypeInv'
<1> SUFFICES ASSUME TypeInv, Main PROVE TypeInv'
  OBVIOUS
<1>0. TypeOK /\ InHand /\ InMemory /\ loop \in Loops
  BY DEF TypeInv, TypeOK, Loops
<1>1. CASE UNCHANGED <<new, nodeSize, clients, loop, killed>>
           /\ \/ main = "announce" /\ main' = "show" /\ mutex' = "held"
              \/ main = "show" /\ main' = "push" /\ mutex' = "free"
              \/ main = "push" /\ main' = "pushing" /\ UNCHANGED mutex
  BY <1>0, <1>1 DEF Main, TypeOK, InHand, InMemory, TypeInv, clients, peers
<1>2. CASE main = "pushing" /\ main' = "accept" /\ new' = Nobody
           /\ UNCHANGED <<nodeSize, mutex>>
           /\ IF Changing(Nobody) THEN Undefined(new) ELSE PushBack(new)
  <2>1. CASE new \in Conn /\ Undefined(new)
    BY <1>0, <1>2, <2>1, UndefinedTypes
    DEF Main, TypeOK, InHand, InMemory, TypeInv, peers, Loops
  <2>2. CASE new \in Conn /\ PushBack(new)
    <3>1. /\ slots' \in Seq(Conn) /\ size' = size + 1 /\ size' <= Len(slots')
          /\ \/ UNCHANGED loop /\ Len(slots) <= Len(slots')
             \/ Disturb("moved")
      BY <1>0, <2>2, PushBackMemory
    <3>2. size' \in 0 .. Len(slots')
      BY <3>1, <1>0 DEF TypeOK
    <3>3. UNCHANGED <<calm, killed>>
      BY <2>2 DEF PushBack
    <3>4. loop' \in Loops /\ InMemory'
      <4>1. CASE UNCHANGED loop /\ Len(slots) <= Len(slots')
        <5>1. \A d \in Conn : loop[d].end \in Nat
          BY <1>0 DEF Loops
        <5>2. Len(slots) \in Nat /\ Len(slots') \in Nat
          BY <1>0, <3>1 DEF TypeOK
        <5> QED  BY <1>0, <4>1, <5>1, <5>2 DEF Main, peers, InMemory
      <4>2. CASE Disturb("moved")
        <5>1. \A d \in Conn : thread[d] = "send" => loop'[d].moved
          BY <1>0, <4>2, Disturbs
        <5> QED  BY <1>0, <4>2, <5>1, Disturbs DEF Main, peers, InMemory
      <4> QED  BY <3>1, <4>1, <4>2
    <3> QED  BY <1>0, <1>2, <3>1, <3>2, <3>3, <3>4
             DEF Main, TypeOK, InHand, TypeInv, peers, Loops
  <2>3. new \in Conn
    BY <1>0, <1>2 DEF InHand
  <2> QED  BY <1>2, <2>1, <2>2, <2>3
<1> QED  BY <1>1, <1>2 DEF Main, MainStep

\* Accept, Interrupt and Join.
LEMMA ServerTypes ==
  ASSUME TypeInv, Interrupt \/ Join \/ \E c \in Conn : Accept(c)
  PROVE  TypeInv'
<1>0. TypeOK /\ InHand /\ InMemory
  BY DEF TypeInv
<1>1. CASE Interrupt
  BY <1>0, <1>1 DEF Interrupt, TypeOK, InHand, InMemory, TypeInv, clients, peers
<1>2. CASE Join
  <2>1. size' \in 0 .. Len(slots')
    BY <1>0, <1>2 DEF Join, TypeOK
  <2> QED  BY <1>0, <1>2, <2>1 DEF Join, TypeOK, InHand, InMemory, TypeInv, peers
<1>3. ASSUME NEW c \in Conn, Accept(c) PROVE TypeInv'
  <2>1. link' \in [Conn -> {"none", "up", "down"}]
    BY <1>0, <1>3 DEF Accept, TypeOK
  <2>2. /\ killed' \in BOOLEAN
        /\ main' \in {"accept", "announce"} /\ UNCHANGED mutex
        /\ main' = "accept" => new' = Nobody
        /\ main' = "announce" => new' = c
        /\ nodeSize' \in Nat
        /\ \E to \in {"refused", "recv"} : thread' = [thread EXCEPT ![c] = to]
    <3>1. MaySignal(c)' \subseteq BOOLEAN
      BY DEF MaySignal
    <3> QED  BY <1>0, <1>3, <3>1 DEF Accept, TypeOK, InHand, Goes, server
  <2>3. UNCHANGED <<slots, size, calm, said, got, loop, heard>>
    BY <1>3 DEF Accept, clients
  <2>4. TypeOK'
    BY <1>0, <2>1, <2>2, <2>3 DEF TypeOK
  <2>5. InMemory'
    BY <1>0, <2>2, <2>3 DEF InMemory, TypeOK
  <2> QED  BY <2>2, <2>4, <2>5, <1>3 DEF InHand, TypeInv
<1> QED  BY <1>1, <1>2, <1>3

\* The clients' threads.
LEMMA ThreadTypes ==
  ASSUME TypeInv, NEW c \in Conn, ThreadStep(c)
  PROVE  TypeInv'
<1>0. TypeOK /\ InHand /\ InMemory /\ loop \in Loops /\ NoLoop \in
        [at : Nat, end : Nat, moved : BOOLEAN, disturbed : BOOLEAN]
  BY DEF TypeInv, TypeOK, Loops, NoLoop, LoopTo
<1>1. CASE Recv(c)
  <2>1. PICK k \in heard[c] + 1 .. said[c] : heard' = [heard EXCEPT ![c] = k]
    BY <1>1 DEF Recv
  <2>2. k \in 0 .. MaxSay /\ k # 0
    BY <1>0, ServerAssumption DEF TypeOK
  <2> size \in Nat /\ Len(slots) \in Nat /\ size <= Len(slots)
    BY <1>0 DEF TypeOK
  <2>3. /\ loop' \in Loops
        /\ loop'[c].at = 1 /\ loop'[c].end = size
        /\ \A d \in Conn \ {c} : loop'[d] = loop[d]
    <3>1. loop' = [loop EXCEPT ![c] = [at |-> 1, end |-> size, moved |-> FALSE,
                                       disturbed |-> FALSE]]
      BY <1>1 DEF Recv, LoopTo
    <3> QED  BY <1>0, <3>1 DEF Loops
  <2>4. thread' = [thread EXCEPT ![c] = "send"]
    BY <1>1 DEF Recv, Goes
  <2>5. UNCHANGED <<server, clients, peers, killed>>
    BY <1>1 DEF Recv
  <2>6. TypeOK'
    BY <1>0, <2>1, <2>2, <2>3, <2>4, <2>5
    DEF TypeOK, Loops, server, clients, peers
  <2>7. InMemory'
    <3>1. heard'[c] # 0 /\ UNCHANGED slots
      BY <1>0, <2>1, <2>2, <2>5 DEF TypeOK, clients
    <3>2. \A d \in Conn \ {c} : heard'[d] = heard[d] /\ thread'[d] = thread[d]
      BY <1>0, <2>1, <2>4 DEF TypeOK
    <3> QED  BY <1>0, <2>3, <3>1, <3>2 DEF InMemory
  <2> QED  BY <1>0, <2>5, <2>6, <2>7 DEF InHand, TypeInv, server
<1>2. CASE SendOn(c)
  <2>1. /\ loop' \in Loops
        /\ loop'[c].at # 0 /\ loop'[c].end = loop[c].end
        /\ loop'[c].moved = loop[c].moved
        /\ \A d \in Conn \ {c} : loop'[d] = loop[d]
    BY <1>0, <1>2 DEF SendOn, Loops
  <2>2. PICK d \in IF loop[c].moved THEN Served ELSE {slots[loop[c].at]} :
          /\ got' = IF d # c /\ link[d] = "up" /\ main # "join"
                    THEN [got EXCEPT ![d][c] = Append(@, heard[c])] ELSE got
          /\ killed' \in IF loop[c].moved \/ main = "join" THEN BOOLEAN
                         ELSE IF d # c THEN MaySignal(d) ELSE {FALSE}
    BY <1>2 DEF SendOn
  <2>3. d \in Conn
    <3>1. CASE loop[c].moved
      BY <2>2, <3>1 DEF Served
    <3>2. CASE ~loop[c].moved
      <4>1. /\ loop[c].at \in Nat /\ loop[c].end \in Nat
            /\ slots \in Seq(Conn) /\ Len(slots) \in Nat
        BY <1>0 DEF Loops, TypeOK
      <4>2. /\ loop[c].at <= loop[c].end /\ loop[c].at # 0
            /\ loop[c].end <= Len(slots)
        BY <1>0, <1>2, <3>2 DEF SendOn, InMemory
      <4>3. loop[c].at \in 1 .. Len(slots)
        BY <4>1, <4>2
      <4>4. slots[loop[c].at] \in Conn
        BY <4>1, <4>3, ElementOfSeq
      <4> QED  BY <2>2, <3>2, <4>4
    <3> QED  BY <3>1, <3>2
  <2>4. killed' \in BOOLEAN
    BY <2>2, MaySignalType
  <2>5. got' \in [Conn -> [Conn -> Seq(1 .. MaxSay)]]
    <3>1. heard[c] \in 1 .. MaxSay
      BY <1>0, <1>2 DEF SendOn, InMemory, TypeOK
    <3>2. got[d][c] \in Seq(1 .. MaxSay)
      BY <1>0, <2>3 DEF TypeOK
    <3>3. Append(got[d][c], heard[c]) \in Seq(1 .. MaxSay)
      BY <3>1, <3>2, AppendProperties
    <3> QED  BY <1>0, <2>2, <2>3, <3>3 DEF TypeOK
  <2>6. UNCHANGED <<server, clients, link, said, thread, heard>>
    BY <1>2 DEF SendOn
  <2>7. TypeOK'
    BY <1>0, <2>1, <2>4, <2>5, <2>6 DEF TypeOK, Loops, server, clients
  <2>8. InMemory'
    BY <1>0, <2>1, <2>6 DEF InMemory, clients
  <2> QED  BY <1>0, <2>6, <2>7, <2>8 DEF InHand, TypeInv, server
<1>3. CASE SendEnds(c)
  <2>1. /\ loop' \in Loops
        /\ \A d \in Conn \ {c} : loop'[d] = loop[d]
    BY <1>0, <1>3 DEF SendEnds, Loops
  <2>2. \E to \in {"recv", "erase"} : thread' = [thread EXCEPT ![c] = to]
    BY <1>3 DEF SendEnds, Goes
  <2>3. UNCHANGED <<server, clients, peers, heard, killed>>
    BY <1>3 DEF SendEnds
  <2> QED  BY <1>0, <2>1, <2>2, <2>3
           DEF TypeOK, Loops, InHand, InMemory, TypeInv, server, clients, peers
<1>4. CASE \/ RecvEnds(c) \/ SayGone(c)
           \/ /\ Goes(c, "erase", "erasing")
              /\ UNCHANGED <<server, clients, peers, loop, heard, killed>>
  <2>1. \E to \in {"erase", "erasing", "over"} :
           thread' = [thread EXCEPT ![c] = to]
    BY <1>4 DEF RecvEnds, SayGone, Goes
  <2>2. UNCHANGED <<server, clients, peers, loop, heard, killed>>
    BY <1>4 DEF RecvEnds, SayGone
  <2> QED  BY <1>0, <2>1, <2>2
           DEF TypeOK, InHand, InMemory, TypeInv, server, clients, peers
<1>5. ASSUME Goes(c, "erasing", "say"), UNCHANGED <<server, peers, heard>>,
             Undefined(c) \/ (Elements(c) = 1 /\ Erase(c))
      PROVE  TypeInv'
  <2>1. /\ thread' = [thread EXCEPT ![c] = "say"]
        /\ \A d \in Conn : thread'[d] = "send" => thread[d] = "send"
    BY <1>0, <1>5 DEF Goes, TypeOK
  <2>2. /\ slots' \in Seq(Conn) /\ size' \in 0 .. Len(slots')
        /\ loop' \in Loops /\ killed' \in BOOLEAN /\ calm' \in BOOLEAN
        /\ \A d \in Conn : thread[d] = "send" =>
             /\ loop'[d].at # 0
             /\ loop'[d].moved \/ loop'[d].end <= Len(slots')
    <3>1. CASE Undefined(c)
      BY <3>1, UndefinedTypes
    <3>2. CASE Elements(c) = 1 /\ Erase(c)
      <4>1. PICK i \in 1 .. size : /\ slots[i] = c
                                   /\ \A j \in 1 .. size : slots[j] = c => j = i
        BY <1>0, <3>2, OneElement
      <4>2. /\ slots' \in Seq(Conn) /\ size' = size - 1
            /\ Len(slots') = Len(slots)
        BY <1>0, <3>2, <4>1, EraseMemory
      <4>3. size' \in 0 .. Len(slots')
        BY <1>0, <4>1, <4>2 DEF TypeOK
      <4>4. Disturb("disturbed") /\ UNCHANGED <<calm, killed>>
        BY <3>2 DEF Erase
      <4>5. /\ loop' \in Loops
            /\ \A d \in Conn : /\ loop'[d].at = loop[d].at
                               /\ loop'[d].end = loop[d].end
                               /\ loop[d].moved => loop'[d].moved
        BY <1>0, <4>4, Disturbs
      <4> QED  BY <1>0, <4>2, <4>3, <4>4, <4>5 DEF InMemory, TypeOK
    <3> QED  BY <1>5, <3>1, <3>2
  <2> QED  BY <1>0, <1>5, <2>1, <2>2
           DEF TypeOK, InHand, InMemory, TypeInv, server, peers, Loops
<1>6. CASE EraseSelf(c)
  <2>1. CASE Goes(c, "erase", "erasing")
             /\ UNCHANGED <<server, clients, peers, loop, heard, killed>>
    BY <2>1, <1>4
  <2>2. CASE Goes(c, "erasing", "say") /\ UNCHANGED <<server, peers, heard>>
             /\ IF Changing(c) \/ Elements(c) # 1 THEN Undefined(c) ELSE Erase(c)
    <3>1. CASE Changing(c) \/ Elements(c) # 1
      BY <2>2, <3>1, <1>5
    <3>2. CASE ~(Changing(c) \/ Elements(c) # 1)
      BY <2>2, <3>2, <1>5
    <3> QED  BY <3>1, <3>2
  <2> QED  BY <1>6, <2>1, <2>2 DEF EraseSelf, Elements
<1> QED  BY <1>1, <1>2, <1>3, <1>4, <1>6 DEF ThreadStep

LEMMA TypesKept == TypeInv /\ [Next]_vars => TypeInv'
<1> SUFFICES ASSUME TypeInv, [Next]_vars PROVE TypeInv'
  OBVIOUS
<1>1. ASSUME NEW c \in Conn, ClientSay(c) PROVE TypeInv'
  <2>1. said[c] + 1 \in 0 .. MaxSay
    BY <1>1, SayBounded DEF ClientSay, TypeInv
  <2>2. said' \in [Conn -> 0 .. MaxSay]
    BY <1>1, <2>1 DEF ClientSay, TypeInv, TypeOK
  <2>3. UNCHANGED <<server, clients, link, got, thread, loop, heard, killed>>
    BY <1>1 DEF ClientSay
  <2> QED  BY <2>2, <2>3 DEF TypeInv, TypeOK, InHand, InMemory, server, clients
<1>2. ASSUME NEW c \in Conn, Drop(c) PROVE TypeInv'
  BY <1>2 DEF Drop, TypeInv, TypeOK, InHand, InMemory, server, clients
<1>3. CASE UNCHANGED vars
  BY <1>3 DEF vars, TypeInv, TypeOK, InHand, InMemory, server, clients, peers
<1> QED  BY <1>1, <1>2, <1>3, MainTypes, ServerTypes, ThreadTypes DEF Next

LEMMA TypesFirst == Init => TypeInv
<1> SUFFICES ASSUME Init PROVE TypeInv
  OBVIOUS
<1>1. slots \in Seq(Conn) /\ size \in 0 .. Len(slots)
  BY DEF Init
<1>2. loop \in Loops
  BY DEF Init, NoLoop, LoopTo, Loops
<1>3. got \in [Conn -> [Conn -> Seq(1 .. MaxSay)]]
  BY DEF Init
<1>4. said \in [Conn -> 0 .. MaxSay] /\ heard \in [Conn -> 0 .. MaxSay]
  BY ServerAssumption DEF Init
<1>5. TypeOK
  BY <1>1, <1>2, <1>3, <1>4 DEF Init, TypeOK, Loops
<1> QED  BY <1>5 DEF Init, TypeInv, InHand, InMemory
-----------------------------------------------------------------------------
(* Damage needs somebody to leave *)

AllStay == (\A c \in Conn : link[c] # "down") /\ main \notin {"join", "exit"}

\* Who has not come has no connection yet.  While all stay, no thread ends,
\* v_client is intact, and only a loop over freed memory kills.
StayInv ==
  /\ \A c \in Conn : thread[c] = "none" => link[c] = "none"
  /\ AllStay => /\ \A c \in Conn :
                     thread[c] \notin {"erase", "erasing", "say", "over"}
                /\ calm
                /\ killed => \E c \in Conn : loop[c].moved

LEMMA StayKept ==
  ASSUME TypeInv, TypeInv', StayInv, [Next]_vars
  PROVE  StayInv'
<1>0. TypeOK /\ loop \in Loops
  BY DEF TypeInv, TypeOK, Loops
<1>1. CASE Main
  <2>1. UNCHANGED <<thread, link>>
    BY <1>1 DEF Main, peers
  <2>2. ASSUME AllStay' PROVE AllStay
    BY <1>1, <2>1, <2>2 DEF AllStay, Main, MainStep
  <2>3. ASSUME AllStay', UNCHANGED <<calm, killed, loop>> PROVE StayInv'
    BY <2>1, <2>2, <2>3 DEF StayInv
  <2>4. ASSUME AllStay', main = "pushing",
               IF Changing(Nobody) THEN Undefined(new) ELSE PushBack(new)
        PROVE  StayInv'
    <3>1. ~Changing(Nobody)
      BY <2>2, <2>4 DEF Changing, StayInv
    <3>2. PushBack(new) /\ UNCHANGED <<calm, killed>>
      BY <2>4, <3>1 DEF PushBack
    <3>3. UNCHANGED loop \/ Disturb("moved")
      BY <3>2 DEF PushBack
    <3>4. ASSUME NEW c \in Conn, loop[c].moved PROVE loop'[c].moved
      BY <1>0, <3>3, <3>4, Disturbs
    <3> QED  BY <2>1, <2>2, <2>4, <3>2, <3>4 DEF StayInv
  <2>5. ~AllStay' => StayInv'
    BY <2>1 DEF StayInv
  <2> QED  BY <1>1, <2>3, <2>4, <2>5 DEF Main, MainStep, clients
<1>2. CASE Interrupt \/ Join
  BY <1>2 DEF Interrupt, Join, StayInv, AllStay, peers
<1>3. ASSUME NEW c \in Conn, Accept(c), ~killed PROVE StayInv'
  <2>1. PICK state \in {"up", "down"} : link' = [link EXCEPT ![c] = state]
    BY <1>3 DEF Accept
  <2>2. PICK to \in {"refused", "recv"} : /\ thread[c] = "none"
                                          /\ thread' = [thread EXCEPT ![c] = to]
    BY <1>3 DEF Accept, Goes
  <2>3. UNCHANGED <<calm, loop>>
    BY <1>3 DEF Accept, clients
  <2>4. \A d \in Conn : thread'[d] = "none" => link'[d] = "none"
    BY <1>0, <2>1, <2>2 DEF StayInv, TypeOK
  <2>5. ASSUME AllStay' PROVE AllStay /\ UNCHANGED killed
    <3>1. AllStay
      BY <1>0, <1>3, <2>1, <2>2, <2>5 DEF AllStay, Accept, StayInv, TypeOK
    <3>2. link'[c] # "down"
      BY <2>5 DEF AllStay
    <3>3. MaySignal(c)' = {FALSE}
      BY <3>2 DEF MaySignal
    <3>4. killed' = FALSE
      <4>1. killed = FALSE
        BY <1>0, <1>3 DEF TypeOK
      <4>2. killed' \in MaySignal(c)' \/ killed' = killed
        BY <1>3 DEF Accept
      <4> QED  BY <3>3, <4>1, <4>2
    <3> QED  BY <1>0, <1>3, <3>1, <3>4 DEF TypeOK
  <2> QED  BY <1>0, <2>2, <2>3, <2>4, <2>5 DEF StayInv, TypeOK
<1>4. ASSUME NEW c \in Conn, ThreadStep(c), ~killed PROVE StayInv'
  <2>1. UNCHANGED <<main, link>>
    BY <1>4 DEF ThreadStep, Recv, RecvEnds, SendOn, SendEnds, EraseSelf, SayGone,
                server, peers
  <2>2. AllStay' => AllStay
    BY <2>1 DEF AllStay
  <2>3. ASSUME AllStay PROVE Recv(c) \/ SendOn(c) \/ SendEnds(c)
    BY <1>4, <2>3 DEF StayInv, AllStay, ThreadStep, RecvEnds, EraseSelf, SayGone,
                      Goes
  <2>4. ASSUME AllStay
        PROVE  /\ \A d \in Conn :
                    thread'[d] \notin {"erase", "erasing", "say", "over"}
               /\ calm' /\ (killed' => \E d \in Conn : loop'[d].moved)
    <3>1. UNCHANGED calm
      BY <2>3, <2>4 DEF Recv, SendOn, SendEnds, clients
    <3>2. \A d \in Conn : thread'[d] \notin {"erase", "erasing", "say", "over"}
      BY <1>0, <2>3, <2>4
      DEF StayInv, AllStay, TypeOK, Recv, SendOn, SendEnds, Goes
    <3>3. ASSUME killed' PROVE \E d \in Conn : loop'[d].moved
      <4>1. SendOn(c)
        BY <1>4, <2>3, <2>4, <3>3 DEF Recv, SendEnds
      <4>2. PICK d \in IF loop[c].moved THEN Served ELSE {slots[loop[c].at]} :
              killed' \in IF loop[c].moved \/ main = "join" THEN BOOLEAN
                          ELSE IF d # c THEN MaySignal(d) ELSE {FALSE}
        BY <4>1 DEF SendOn
      <4>3. CASE loop[c].moved
        <5>1. loop'[c].moved = loop[c].moved
          BY <1>0, <4>1 DEF SendOn, Loops
        <5> QED  BY <4>3, <5>1
      <4>4. CASE ~loop[c].moved
        <5>1. d \in Conn
          <6>1. /\ loop[c].at \in Nat /\ loop[c].end \in Nat
                /\ slots \in Seq(Conn) /\ Len(slots) \in Nat
            BY <1>0 DEF Loops, TypeOK
          <6>2. /\ loop[c].at <= loop[c].end /\ loop[c].at # 0
                /\ loop[c].end <= Len(slots)
            BY <4>1, <4>4 DEF SendOn, InMemory, TypeInv
          <6>3. loop[c].at \in 1 .. Len(slots)
            BY <6>1, <6>2
          <6>4. slots[loop[c].at] \in Conn
            BY <6>1, <6>3, ElementOfSeq
          <6> QED  BY <4>2, <4>4, <6>4
        <5>2. link[d] # "down" /\ main # "join"
          BY <2>4, <5>1 DEF AllStay
        <5>3. killed' = FALSE
          BY <4>2, <4>4, <5>2 DEF MaySignal
        <5> QED  BY <3>3, <5>3
      <4> QED  BY <4>3, <4>4
    <3> QED  BY <2>4, <3>1, <3>2, <3>3 DEF StayInv
  <2>5. \A d \in Conn : thread'[d] = "none" => thread[d] = "none"
    BY <1>0, <1>4 DEF TypeOK, ThreadStep, Recv, RecvEnds, SendOn, SendEnds,
                      EraseSelf, SayGone, Goes
  <2> QED  BY <2>1, <2>2, <2>4, <2>5 DEF StayInv
<1>5. ASSUME NEW c \in Conn, ClientSay(c) \/ Drop(c) PROVE StayInv'
  <2>1. CASE ClientSay(c)
    BY <2>1 DEF ClientSay, StayInv, AllStay, server, clients
  <2>2. CASE Drop(c)
    <3>1. link' = [link EXCEPT ![c] = "down"] /\ c \in Served
      BY <2>2 DEF Drop
    <3>2. ~AllStay'
      BY <1>0, <3>1 DEF AllStay, TypeOK
    <3>3. \A d \in Conn : thread'[d] = "none" => link'[d] = "none"
      BY <1>0, <2>2, <3>1 DEF Drop, StayInv, Served, TypeOK
    <3> QED  BY <3>2, <3>3 DEF StayInv
  <2> QED  BY <1>5, <2>1, <2>2
<1>6. CASE UNCHANGED vars
  BY <1>6 DEF StayInv, AllStay, vars, server, clients, peers
<1> QED  BY <1>1, <1>2, <1>3, <1>4, <1>5, <1>6 DEF Next

\* Whatever the damage, v_client holds pointers to nodes and every other
\* variable its type; and while every client that came stays and the server is
\* not being closed there is none: v_client is intact, and the process dies only
\* of a loop whose memory push_back has freed.
THEOREM SoundHolds == Spec => []Sound
<1>1. Init => TypeInv /\ StayInv
  <2>1. Init => StayInv
    BY DEF Init, StayInv
  <2> QED  BY <2>1, TypesFirst
<1>2. TypeInv /\ StayInv /\ [Next]_vars => (TypeInv /\ StayInv)'
  BY TypesKept, StayKept
<1>3. TypeInv /\ StayInv => Sound
  BY DEF TypeInv, StayInv, AllStay, Sound, SoundWhileAllStay
<1> QED  BY <1>1, <1>2, <1>3, PTL DEF Spec
-----------------------------------------------------------------------------
(* Who is in v_client *)

Serving(c) == thread[c] \in {"recv", "send", "erase", "erasing"}
Held(c) == \E i \in 1 .. size : slots[i] = c

\* As long as v_client is intact, nobody is in it twice, and in it are those
\* whose threads have not erased them, but for the client main has in hand.
RegInv == calm /\ main # "exit" =>
  /\ \A i, j \in 1 .. size : slots[i] = slots[j] => i = j
  /\ \A c \in Conn : Held(c) <=> Serving(c) /\ new # c
  /\ new \in Conn => Serving(new)

\* Nothing repairs v_client, and nothing follows the end of main.
LEMMA Damaged == [Next]_vars /\ TypeOK /\ calm' /\ main' # "exit" => calm /\ main # "exit"
<1> SUFFICES ASSUME [Next]_vars, TypeOK, calm', main' # "exit"
             PROVE  calm /\ main # "exit"
  OBVIOUS
<1> USE DEF server, clients, peers
<1>1. CASE Main
  BY <1>1 DEF Main, MainStep, Undefined, PushBack
<1>2. CASE Interrupt \/ Join
  BY <1>2 DEF Interrupt, Join
<1>3. ASSUME NEW c \in Conn, Accept(c) \/ ClientSay(c) \/ Drop(c)
      PROVE  calm /\ main # "exit"
  BY <1>3 DEF Accept, ClientSay, Drop
<1>4. ASSUME NEW c \in Conn, ThreadStep(c) PROVE calm /\ main # "exit"
  BY <1>4 DEF ThreadStep, Recv, RecvEnds, SendOn, SendEnds, EraseSelf, SayGone,
              Undefined, Erase
<1>5. CASE UNCHANGED vars
  BY <1>5 DEF vars
<1> QED  BY <1>1, <1>2, <1>3, <1>4, <1>5 DEF Next

LEMMA RegKept ==
  ASSUME TypeInv, RegInv, [Next]_vars
  PROVE  RegInv'
<1> SUFFICES ASSUME calm', main' # "exit" PROVE RegInv'
  BY DEF RegInv
<1>0. TypeOK /\ InHand
  BY DEF TypeInv
<1>1. /\ \A i, j \in 1 .. size : slots[i] = slots[j] => i = j
      /\ \A c \in Conn : Held(c) <=> Serving(c) /\ new # c
      /\ new \in Conn => Serving(new)
  BY <1>0, Damaged DEF RegInv
<1>2. CASE Main
  <2>1. UNCHANGED thread
    BY <1>2 DEF Main
  <2>2. CASE UNCHANGED <<new, slots, size>>
    BY <1>1, <2>1, <2>2 DEF RegInv, Held, Serving
  <2>3. CASE main = "pushing" /\ new' = Nobody /\ PushBack(new) /\ ~Changing(Nobody)
    <3>1. new \in Conn
      BY <1>0, <2>3 DEF InHand
    <3>2. /\ size' = size + 1 /\ slots'[size + 1] = new
          /\ \A i \in 1 .. size : slots'[i] = slots[i]
      BY <1>0, <2>3, <3>1, PushBackMemory
    <3>3. size \in Nat
      BY <1>0 DEF TypeOK
    <3>4. \A i, j \in 1 .. size' : slots'[i] = slots'[j] => i = j
      BY <1>1, <3>1, <3>2, <3>3 DEF Held
    <3>5. \A c : Held(c)' <=> Held(c) \/ c = new
      BY <3>2, <3>3 DEF Held
    <3>6. \A c \in Conn : Held(c)' <=> Serving(c)' /\ new' # c
      BY <1>1, <2>1, <2>3, <3>1, <3>5, ServerAssumption DEF Serving
    <3> QED  BY <2>3, <3>4, <3>6, ServerAssumption DEF RegInv
  <2> QED  BY <1>2, <2>2, <2>3 DEF Main, MainStep, clients, Undefined
<1>3. CASE Interrupt \/ Join
  <2>1. UNCHANGED <<thread, new, slots, size>>
    BY <1>3 DEF Interrupt, Join, clients
  <2> QED  BY <1>1, <2>1 DEF RegInv, Held, Serving
<1>4. ASSUME NEW c \in Conn, Accept(c) PROVE RegInv'
  <2>1. UNCHANGED <<slots, size>> /\ new = Nobody /\ thread[c] = "none"
    BY <1>0, <1>4 DEF Accept, Goes, clients, InHand
  <2>2. \/ thread' = [thread EXCEPT ![c] = "refused"] /\ new' = Nobody
        \/ thread' = [thread EXCEPT ![c] = "recv"] /\ new' = c
    BY <1>4, <2>1 DEF Accept, Goes, server
  <2>3. ~Held(c)
    BY <1>1, <2>1 DEF Serving
  <2>4. \A d \in Conn : Held(d)' <=> Held(d)
    BY <2>1 DEF Held
  <2>5. \A d \in Conn \ {c} : Serving(d)' <=> Serving(d)
    BY <1>0, <2>2 DEF Serving, TypeOK
  <2>6. Serving(c)' <=> new' = c
    BY <1>0, <2>2, ServerAssumption DEF Serving, TypeOK
  <2>7. \A d \in Conn \ {c} : new # d /\ new' # d
    BY <2>1, <2>2, ServerAssumption
  <2>8. \A d \in Conn : Held(d)' <=> Serving(d)' /\ new' # d
    BY <1>1, <2>3, <2>4, <2>5, <2>6, <2>7
  <2> QED  BY <1>1, <2>1, <2>2, <2>6, <2>8, ServerAssumption DEF RegInv
<1>5. ASSUME NEW c \in Conn, ThreadStep(c) PROVE RegInv'
  <2>1. UNCHANGED new
    BY <1>5 DEF ThreadStep, Recv, RecvEnds, SendOn, SendEnds, EraseSelf, SayGone,
                server
  <2>2. CASE ~Goes(c, "erasing", "say")
    <3>1. UNCHANGED <<slots, size>>
      BY <1>5, <2>2 DEF ThreadStep, Recv, RecvEnds, SendOn, SendEnds, EraseSelf,
                        SayGone, clients
    <3>2. \A d \in Conn : Serving(d)' <=> Serving(d)
      <4>1. UNCHANGED thread \/ Goes(c, "recv", "send") \/ Goes(c, "recv", "erase")
               \/ Goes(c, "send", "recv") \/ Goes(c, "send", "erase")
               \/ Goes(c, "erase", "erasing") \/ Goes(c, "say", "over")
        BY <1>5, <2>2 DEF ThreadStep, Recv, RecvEnds, SendOn, SendEnds, EraseSelf,
                          SayGone
      <4> QED  BY <1>0, <4>1 DEF Goes, Serving, TypeOK
    <3> QED  BY <1>1, <2>1, <3>1, <3>2 DEF RegInv, Held
  <2>3. CASE Goes(c, "erasing", "say")
    <3>1. Elements(c) = 1 /\ Erase(c)
      BY <1>5, <2>3 DEF ThreadStep, Recv, RecvEnds, SendOn, SendEnds, EraseSelf,
                        SayGone, Goes, Undefined, Elements
    <3>2. PICK i \in 1 .. size : /\ slots[i] = c
                                 /\ \A j \in 1 .. size : slots[j] = c => j = i
      BY <1>0, <3>1, OneElement
    <3>3. /\ size' = size - 1
          /\ \A k \in 1 .. size - 1 :
               slots'[k] = IF k < i THEN slots[k] ELSE slots[k + 1]
      BY <1>0, <3>1, <3>2, EraseMemory
    <3>4. size \in Nat
      BY <1>0 DEF TypeOK
    <3>5. ASSUME NEW k \in 1 .. size'
          PROVE  \E j \in 1 .. size : /\ j # i /\ slots'[k] = slots[j]
                                      /\ j = IF k < i THEN k ELSE k + 1
      BY <3>3, <3>4
    <3>6. \A k, l \in 1 .. size' : slots'[k] = slots'[l] => k = l
      <4> TAKE k, l \in 1 .. size'
      <4>1. PICK j \in 1 .. size : /\ j # i /\ slots'[k] = slots[j]
                                   /\ j = IF k < i THEN k ELSE k + 1
        BY <3>5
      <4>2. PICK m \in 1 .. size : /\ m # i /\ slots'[l] = slots[m]
                                   /\ m = IF l < i THEN l ELSE l + 1
        BY <3>5
      <4>3. slots'[k] = slots'[l] => j = m
        BY <1>1, <4>1, <4>2
      <4> QED  BY <3>3, <3>4, <4>1, <4>2, <4>3
    <3>7. ASSUME NEW d PROVE Held(d)' <=> Held(d) /\ d # c
      <4>1. Held(d)' => Held(d) /\ d # c
        BY <3>2, <3>5 DEF Held
      <4>2. ASSUME Held(d), d # c PROVE Held(d)'
        <5>1. PICK j \in 1 .. size : slots[j] = d
          BY <4>2 DEF Held
        <5>2. j # i
          BY <3>2, <4>2, <5>1
        <5>3. CASE j < i
          BY <3>2, <3>3, <3>4, <5>1, <5>3 DEF Held
        <5>4. CASE j > i
          <6>1. j - 1 \in 1 .. size' /\ ~(j - 1 < i) /\ (j - 1) + 1 = j
            BY <3>2, <3>3, <3>4, <5>4
          <6>2. slots'[j - 1] = slots[j]
            BY <3>3, <6>1
          <6> QED  BY <5>1, <6>1, <6>2 DEF Held
        <5> QED  BY <3>2, <3>4, <5>2, <5>3, <5>4
      <4> QED  BY <4>1, <4>2
    <3>8. \A d \in Conn : Serving(d)' <=> Serving(d) /\ d # c
      BY <1>0, <2>3 DEF Goes, Serving, TypeOK
    <3>9. new # c
      BY <1>1, <3>2 DEF Held
    <3> QED  BY <1>1, <2>1, <3>6, <3>7, <3>8, <3>9 DEF RegInv
  <2> QED  BY <2>2, <2>3
<1>6. ASSUME NEW c \in Conn, ClientSay(c) \/ Drop(c) PROVE RegInv'
  <2>1. UNCHANGED <<thread, new, slots, size>>
    BY <1>6 DEF ClientSay, Drop, server, clients
  <2> QED  BY <1>1, <2>1 DEF RegInv, Held, Serving
<1>7. CASE UNCHANGED vars
  BY <1>1, <1>7 DEF vars, RegInv, Held, Serving, server, clients
<1> QED  BY <1>2, <1>3, <1>4, <1>5, <1>6, <1>7 DEF Next

\* As long as no two have changed v_client at once and no thread has ended
\* before main got to its push_back, v_client holds exactly the clients whose
\* threads still serve them, each once.
THEOREM RegisteredHolds == Spec => []Registered
<1>1. Init => RegInv
  BY ServerAssumption DEF Init, RegInv, Held, Serving
<1>2. ASSUME TypeInv, RegInv PROVE Registered
  <2> SUFFICES ASSUME calm, main # "exit", NEW c \in Conn
               PROVE  Elements(c) =
                        IF \/ thread[c] \in {"none", "refused", "say", "over"}
                           \/ new = c
                        THEN 0 ELSE 1
    BY DEF Registered
  <2>1. TypeOK
    BY <1>2 DEF TypeInv
  <2>2. Serving(c) <=> thread[c] \notin {"none", "refused", "say", "over"}
    BY <2>1 DEF Serving, TypeOK
  <2>3. CASE Held(c)
    <3>1. Elements(c) = 1
      BY <1>2, <2>1, <2>3, OneElement DEF RegInv, Held
    <3> QED  BY <1>2, <2>2, <2>3, <3>1 DEF RegInv
  <2>4. CASE ~Held(c)
    <3>1. Elements(c) = 0
      BY <2>1, <2>4, NoElement DEF Held
    <3> QED  BY <1>2, <2>2, <2>4, <3>1 DEF RegInv
  <2> QED  BY <2>3, <2>4
<1> QED  BY <1>1, <1>2, TypesFirst, TypesKept, RegKept, PTL DEF Spec
-----------------------------------------------------------------------------
(* A message reaches everybody once *)

\* Where message m is, in what a client was sent on of another's.
Copies(s, m) == {k \in DOMAIN s : s[k] = m}

\* Nothing is sent on before it is received.
NotBefore == \A c, d \in Conn :
               \A k \in DOMAIN got[d][c] : got[d][c][k] <= heard[c]

\* The server is gone once every thread is over.
AllOver == main = "exit" => \A c \in Conn : ~Serving(c) /\ thread[c] # "say"

\* A loop whose memory has not moved, over v_client from which nobody was
\* erased.
Steady(c) == /\ thread[c] = "send" /\ calm /\ main \notin {"join", "exit"}
             /\ ~loop[c].disturbed /\ ~loop[c].moved

\* What such a loop has passed has got the message once, and the rest not yet.
PassedOnce(c) == Steady(c) =>
  /\ loop[c].end <= size
  /\ \A i \in 1 .. loop[c].end :
       slots[i] # c /\ link[slots[i]] = "up" =>
         IF i < loop[c].at THEN \E k : Copies(got[slots[i]][c], heard[c]) = {k}
                           ELSE Copies(got[slots[i]][c], heard[c]) = {}

OnceInv == NotBefore /\ AllOver /\ \A c \in Conn : PassedOnce(c)

\* A step that leaves c's loop, its message and its copies alone, and of
\* v_client what the loop reads, and connects nobody who is in it.
LEMMA PassedOnceFrame ==
  ASSUME TypeOK, NEW c \in Conn, PassedOnce(c),
         Steady(c)' => /\ Steady(c) /\ size' >= size /\ UNCHANGED <<loop[c], heard[c]>>
                       /\ size' \in Nat
                       /\ \A i \in 1 .. size : slots'[i] = slots[i]
                       /\ \A i \in 1 .. size : /\ got'[slots[i]][c] = got[slots[i]][c]
                                               /\ link'[slots[i]] = "up" => link[slots[i]] = "up"
  PROVE  PassedOnce(c)'
<1> SUFFICES ASSUME Steady(c)' PROVE PassedOnce(c)'
  BY DEF PassedOnce
<1>1. /\ loop[c].end <= size /\ loop[c].end \in Nat /\ size \in Nat
      /\ loop'[c] = loop[c] /\ heard'[c] = heard[c]
  BY DEF PassedOnce, TypeOK
<1>2. loop'[c].end <= size'
  BY <1>1
<1>3. ASSUME NEW i \in 1 .. loop'[c].end, slots'[i] # c, link'[slots'[i]] = "up"
      PROVE  IF i < loop'[c].at
             THEN \E k : Copies(got'[slots'[i]][c], heard'[c]) = {k}
             ELSE Copies(got'[slots'[i]][c], heard'[c]) = {}
  <2>1. i \in 1 .. size /\ i \in 1 .. loop[c].end
    BY <1>1
  <2>2. /\ slots'[i] = slots[i] /\ got'[slots[i]][c] = got[slots[i]][c]
        /\ link[slots[i]] = "up"
    BY <1>3, <2>1
  <2>3. Steady(c) /\ slots[i] # c
    BY <1>3, <2>2
  <2>4. IF i < loop[c].at THEN \E k : Copies(got[slots[i]][c], heard[c]) = {k}
                          ELSE Copies(got[slots[i]][c], heard[c]) = {}
    BY <2>1, <2>2, <2>3 DEF PassedOnce
  <2> QED  BY <1>1, <2>2, <2>4
<1> QED  BY <1>2, <1>3 DEF PassedOnce

\* The thread's own steps.
LEMMA RecvStarts ==
  ASSUME TypeOK, NotBefore, NEW c \in Conn, Recv(c)
  PROVE  PassedOnce(c)'
<1>1. PICK k \in heard[c] + 1 .. said[c] : heard' = [heard EXCEPT ![c] = k]
  BY DEF Recv
<1>2. heard'[c] = k /\ k > heard[c] /\ heard[c] \in Nat /\ k \in Nat
  BY <1>1 DEF TypeOK
<1>3. /\ loop'[c] = LoopTo(size) /\ loop'[c].end = size /\ loop'[c].at = 1
      /\ UNCHANGED <<slots, size, got>> /\ size \in Nat
  BY DEF Recv, LoopTo, TypeOK, clients, peers
<1>5. ASSUME NEW i \in 1 .. size PROVE Copies(got[slots[i]][c], k) = {}
  <2>1. slots[i] \in Conn
    BY InSlots
  <2>2. /\ got[slots[i]][c] \in Seq(1 .. MaxSay)
        /\ \A j \in DOMAIN got[slots[i]][c] : got[slots[i]][c][j] <= heard[c]
    BY <2>1 DEF TypeOK, NotBefore
  <2>3. \A j \in DOMAIN got[slots[i]][c] : got[slots[i]][c][j] \in 1 .. MaxSay
    BY <2>2, LenProperties
  <2>4. ASSUME NEW j \in DOMAIN got[slots[i]][c] PROVE got[slots[i]][c][j] # k
    BY <1>2, <2>2, <2>3
  <2> QED  BY <2>4 DEF Copies
<1> QED  BY <1>2, <1>3, <1>5 DEF PassedOnce

LEMMA OneMore ==
  ASSUME NEW S, NEW s \in Seq(S), NEW m \in S, Copies(s, m) = {}
  PROVE  Copies(Append(s, m), m) = {Len(s) + 1}
<1> DEFINE t == Append(s, m)
<1>1. /\ t \in Seq(S) /\ Len(t) = Len(s) + 1 /\ Len(s) \in Nat
      /\ \A j \in 1 .. Len(s) : t[j] = s[j]
      /\ t[Len(s) + 1] = m
  BY AppendProperties
<1>2. DOMAIN t = 1 .. Len(s) + 1 /\ DOMAIN s = 1 .. Len(s)
  BY <1>1, LenProperties
<1> HIDE DEF t
<1>3. \A j \in 1 .. Len(s) : t[j] # m
  BY <1>1, <1>2 DEF Copies
<1>4. \A j \in DOMAIN t : t[j] = m <=> j = Len(s) + 1
  BY <1>1, <1>2, <1>3
<1>5. Len(s) + 1 \in DOMAIN t
  BY <1>1, <1>2
<1>6. Copies(t, m) = {Len(s) + 1}
  BY <1>4, <1>5 DEF Copies
<1> QED  BY <1>6 DEF t

LEMMA SendOnPasses ==
  ASSUME TypeInv, RegInv, OnceInv, NEW c \in Conn, SendOn(c)
  PROVE  PassedOnce(c)'
<1>0. TypeOK /\ loop \in Loops
  BY DEF TypeInv, TypeOK, Loops
<1> SUFFICES ASSUME Steady(c)' PROVE PassedOnce(c)'
  BY DEF PassedOnce
<1> DEFINE at == loop[c].at  d == slots[at]
<1>1. /\ UNCHANGED <<thread, main, calm, slots, size, link, heard>>
      /\ loop'[c].at = at + 1 /\ loop'[c].end = loop[c].end
      /\ loop'[c].moved = loop[c].moved
      /\ loop'[c].disturbed = loop[c].disturbed
  BY <1>0 DEF SendOn, server, clients, Loops
<1>2. Steady(c)
  BY <1>1 DEF Steady
<1>3. /\ at \in Nat /\ at # 0 /\ at <= loop[c].end /\ loop[c].end \in Nat
      /\ loop[c].end <= size /\ size \in Nat
  BY <1>0, <1>2 DEF SendOn, TypeInv, InMemory, Loops, TypeOK, OnceInv, PassedOnce,
                    Steady
<1>4. d \in Conn /\ heard[c] \in 1 .. MaxSay
  <2>1. at \in 1 .. size
    BY <1>3
  <2>2. heard[c] # 0 /\ heard[c] \in 0 .. MaxSay
    BY <1>0, <1>2 DEF TypeInv, InMemory, TypeOK, Steady
  <2> QED  BY <1>0, <2>1, <2>2, InSlots, ServerAssumption
<1>5. got' = IF d # c /\ link[d] = "up"
             THEN [got EXCEPT ![d][c] = Append(@, heard[c])] ELSE got
  BY <1>2 DEF SendOn, Steady
<1>6. got[d][c] \in Seq(1 .. MaxSay)
  BY <1>0, <1>4 DEF TypeOK
<1>7. ASSUME NEW i \in 1 .. loop[c].end, slots[i] # c, link[slots[i]] = "up"
      PROVE  IF i < at + 1
             THEN \E k : Copies(got'[slots[i]][c], heard[c]) = {k}
             ELSE Copies(got'[slots[i]][c], heard[c]) = {}
  <2>1. IF i < at THEN \E k : Copies(got[slots[i]][c], heard[c]) = {k}
                  ELSE Copies(got[slots[i]][c], heard[c]) = {}
    BY <1>2, <1>7 DEF OnceInv, PassedOnce
  <2>2. CASE i = at
    <3>1. got'[d][c] = Append(got[d][c], heard[c])
      BY <1>0, <1>4, <1>5, <1>7, <2>2 DEF TypeOK
    <3>2. Copies(got[d][c], heard[c]) = {}
      BY <1>3, <2>1, <2>2
    <3> DEFINE n == Len(got[d][c])
    <3>3. Copies(got'[d][c], heard[c]) = {Len(got[d][c]) + 1}
      <4>1. Copies(Append(got[d][c], heard[c]), heard[c]) = {Len(got[d][c]) + 1}
        BY <1>4, <1>6, <3>2, OneMore
      <4> QED  BY <3>1, <4>1
    <3>4. slots[i] = d /\ i < at + 1
      BY <1>3, <2>2
    <3> QED  BY <3>3, <3>4
  <2>3. CASE i # at
    <3>1. i \in 1 .. size /\ at \in 1 .. size
      BY <1>3
    <3>2. slots[i] # d
      BY <1>2, <2>3, <3>1 DEF RegInv, Steady
    <3>4. slots[i] \in Conn
      BY <1>0, <3>1, InSlots
    <3>5. got'[slots[i]][c] = got[slots[i]][c]
      BY <1>0, <1>4, <1>5, <3>2, <3>4 DEF TypeOK
    <3>6. i < at + 1 <=> i < at
      BY <1>3, <2>3
    <3> QED  BY <2>1, <3>5, <3>6
  <2> QED  BY <2>2, <2>3
<1> HIDE DEF d
<1> QED  BY <1>1, <1>3, <1>7 DEF PassedOnce

\* Sending on adds to what one client was sent of the sender's, if at all.
LEMMA SendOnAdds ==
  ASSUME TypeOK, NEW c \in Conn, SendOn(c), NEW d \in Conn, NEW e \in Conn
  PROVE  \/ got'[e][d] = got[e][d]
         \/ d = c /\ got'[e][d] = Append(got[e][d], heard[d])
<1>1. PICK f : \/ got' = [got EXCEPT ![f][c] = Append(@, heard[c])]
               \/ got' = got
  BY DEF SendOn
<1>2. got \in [Conn -> [Conn -> Seq(1 .. MaxSay)]]
  BY DEF TypeOK
<1>3. CASE e = f /\ d = c
  BY <1>1, <1>2, <1>3
<1>4. CASE e = f /\ d # c
  BY <1>1, <1>2, <1>4
<1>5. CASE e # f
  BY <1>1, <1>2, <1>5
<1> QED  BY <1>3, <1>4, <1>5

\* Every other step leaves c's loop as it was, or ends it, or breaks it off.
LEMMA OthersPass ==
  ASSUME TypeInv, RegInv, OnceInv, NEW c \in Conn, [Next]_vars,
         ~Recv(c), ~SendOn(c)
  PROVE  PassedOnce(c)'
<1>0. TypeOK /\ loop \in Loops /\ PassedOnce(c)
  BY DEF TypeInv, TypeOK, Loops, OnceInv
<1>a. size \in Nat
  BY <1>0 DEF TypeOK
<1> SUFFICES ASSUME Steady(c)' PROVE PassedOnce(c)'
  BY DEF PassedOnce
<1>b. /\ calm' /\ thread'[c] = "send" /\ main' \notin {"join", "exit"}
      /\ ~loop'[c].disturbed /\ ~loop'[c].moved
  BY DEF Steady
<1>1. CASE UNCHANGED <<slots, size, got, link, loop, heard>>
           /\ (Steady(c)' => Steady(c))
  BY <1>0, <1>a, <1>1, PassedOnceFrame
<1>2. CASE Main
  <2>1. UNCHANGED <<thread, link, got, heard>> /\ main \notin {"join", "exit"}
    BY <1>2 DEF Main, MainStep, peers
  <2>2. CASE UNCHANGED <<slots, size, calm, loop>>
    BY <1>1, <2>1, <2>2 DEF Steady
  <2>3. CASE PushBack(new) /\ main = "pushing"
    <3>1. new \in Conn
      BY <2>3 DEF TypeInv, InHand
    <3>2. /\ size' = size + 1 /\ \A i \in 1 .. size : slots'[i] = slots[i]
          /\ UNCHANGED loop \/ Disturb("moved")
      BY <1>0, <2>3, <3>1, PushBackMemory
    <3>3. UNCHANGED loop
      <4>1. thread[c] = "send"
        BY <1>b, <2>1
      <4>2. ~Disturb("moved")
        BY <1>0, <1>b, <4>1, Disturbs
      <4> QED  BY <3>2, <4>2
    <3>4. Steady(c)
      BY <1>b, <2>1, <2>3, <3>3 DEF PushBack, Steady
    <3> QED  BY <1>0, <1>a, <2>1, <3>2, <3>3, <3>4, PassedOnceFrame
  <2> QED  BY <1>2, <1>b, <2>2, <2>3 DEF Main, MainStep, Undefined, clients
<1>3. CASE Interrupt \/ Join
  BY <1>3, <1>b DEF Interrupt, Join
<1>4. ASSUME NEW e \in Conn, Accept(e) PROVE PassedOnce(c)'
  <2>1. UNCHANGED <<slots, size, calm, got, loop, heard>>
    BY <1>4 DEF Accept, clients
  <2>2. /\ thread[e] = "none" /\ main = "accept"
        /\ \E to \in {"refused", "recv"} : thread' = [thread EXCEPT ![e] = to]
        /\ \A d \in Conn \ {e} : link'[d] = link[d]
    BY <1>0, <1>4 DEF Accept, Goes, TypeOK
  <2>3. Steady(c)
    BY <1>0, <1>b, <2>1, <2>2 DEF Steady, TypeOK
  <2>4. \A i \in 1 .. size : slots[i] \in Conn /\ slots[i] # e
    BY <1>0, <2>2, <2>3, InSlots DEF RegInv, Held, Serving, Steady
  <2> QED  BY <1>0, <1>a, <2>1, <2>2, <2>3, <2>4, PassedOnceFrame
<1>5. ASSUME NEW e \in Conn, ThreadStep(e) PROVE PassedOnce(c)'
  <2>1. CASE e = c
    <3>1. thread'[c] # "send"
      BY <1>0, <1>5, <2>1 DEF ThreadStep, RecvEnds, SendEnds, EraseSelf, SayGone,
                              Goes, TypeOK
    <3> QED  BY <1>b, <3>1
  <2>2. CASE e # c
    <3>1. UNCHANGED main /\ UNCHANGED link
      BY <1>5 DEF ThreadStep, Recv, RecvEnds, SendOn, SendEnds, EraseSelf, SayGone,
                  server, peers
    <3>2. thread'[c] = thread[c]
      BY <1>0, <1>5, <2>2 DEF ThreadStep, Recv, RecvEnds, SendOn, SendEnds,
                              EraseSelf, SayGone, Goes, TypeOK
    <3>3. CASE EraseSelf(e) /\ ~UNCHANGED <<slots, size>>
      <4>1. Disturb("disturbed")
        BY <3>3 DEF EraseSelf, Undefined, Erase, clients
      <4>2. loop'[c].disturbed
        BY <1>0, <1>b, <3>2, <4>1, Disturbs
      <4> QED  BY <1>b, <4>2
    <3>4. CASE EraseSelf(e) /\ UNCHANGED <<slots, size>>
      <4>1. UNCHANGED <<got, heard>>
        BY <3>4 DEF EraseSelf, peers
      <4>2. /\ UNCHANGED loop \/ Disturb("disturbed")
            /\ calm' => calm
        BY <3>4 DEF EraseSelf, Undefined, Erase, clients
      <4>3. UNCHANGED loop
        <5>1. Disturb("disturbed") => loop'[c].disturbed
          BY <1>0, <1>b, <3>2, Disturbs
        <5> QED  BY <1>b, <4>2, <5>1
      <4> QED  BY <1>1, <1>b, <3>1, <3>2, <3>4, <4>1, <4>2, <4>3 DEF Steady
    <3>5. CASE ~EraseSelf(e)
      <4>1. UNCHANGED <<slots, size, calm>>
        BY <1>5, <3>5 DEF ThreadStep, Recv, RecvEnds, SendOn, SendEnds, SayGone,
                          clients
      <4>2. loop'[c] = loop[c] /\ heard'[c] = heard[c]
        BY <1>0, <1>5, <2>2, <3>5
        DEF ThreadStep, Recv, RecvEnds, SendOn, SendEnds, SayGone, TypeOK
      <4>3. \A d \in Conn : got'[d][c] = got[d][c]
        <5>1. CASE SendOn(e)
          BY <1>0, <2>2, <5>1, SendOnAdds
        <5>2. CASE ~SendOn(e)
          BY <1>5, <3>5, <5>2
          DEF ThreadStep, Recv, RecvEnds, SendEnds, SayGone, peers
        <5> QED  BY <5>1, <5>2
      <4>4. Steady(c)
        BY <1>b, <3>1, <3>2, <4>1, <4>2 DEF Steady
      <4>5. \A i \in 1 .. size : slots[i] \in Conn
        BY <1>0, InSlots
      <4> QED  BY <1>0, <1>a, <3>1, <4>1, <4>2, <4>3, <4>4, <4>5, PassedOnceFrame
    <3> QED  BY <3>3, <3>4, <3>5
  <2> QED  BY <2>1, <2>2
<1>6. ASSUME NEW e \in Conn, ClientSay(e) \/ Drop(e) PROVE PassedOnce(c)'
  <2>1. UNCHANGED <<slots, size, calm, got, loop, heard, thread, main>>
    BY <1>6 DEF ClientSay, Drop, server, clients
  <2>2. \A d \in Conn : link'[d] = "up" => link[d] = "up"
    BY <1>0, <1>6 DEF ClientSay, Drop, TypeOK
  <2>3. Steady(c)
    BY <1>b, <2>1 DEF Steady
  <2>4. \A i \in 1 .. size : slots[i] \in Conn
    BY <1>0, InSlots
  <2> QED  BY <1>0, <1>a, <2>1, <2>2, <2>3, <2>4, PassedOnceFrame
<1>7. CASE UNCHANGED vars
  BY <1>1, <1>7 DEF vars, server, clients, peers, Steady
<1> QED  BY <1>2, <1>3, <1>4, <1>5, <1>6, <1>7 DEF Next

LEMMA NotBeforeKept ==
  ASSUME TypeInv, TypeOK', NotBefore, [Next]_vars
  PROVE  NotBefore'
<1>0. TypeOK
  BY DEF TypeInv
<1>1. CASE UNCHANGED <<got, heard>>
  BY <1>1 DEF NotBefore
<1>2. ASSUME NEW c \in Conn, Recv(c) PROVE NotBefore'
  <2>1. UNCHANGED got
    BY <1>2 DEF Recv, peers
  <2>2. \A d \in Conn : heard[d] \in Nat /\ heard'[d] \in Nat /\ heard[d] <= heard'[d]
    <3>1. PICK k \in heard[c] + 1 .. said[c] : heard' = [heard EXCEPT ![c] = k]
      BY <1>2 DEF Recv
    <3>2. \A d \in Conn : heard[d] \in 0 .. MaxSay
      BY <1>0 DEF TypeOK
    <3>3. said[c] \in Nat
      BY <1>0 DEF TypeOK
    <3>4. k \in Nat /\ heard[c] <= k
      BY <3>2, <3>3
    <3>5. \A d \in Conn : heard'[d] = IF d = c THEN k ELSE heard[d]
      BY <1>0, <3>1 DEF TypeOK
    <3> QED  BY <3>2, <3>4, <3>5
  <2>3. ASSUME NEW d \in Conn, NEW e \in Conn, NEW k \in DOMAIN got[e][d]
        PROVE  got[e][d][k] <= heard'[d]
    <3>1. got[e][d] \in Seq(1 .. MaxSay)
      BY <1>0 DEF TypeOK
    <3>2. got[e][d][k] \in 1 .. MaxSay
      BY <3>1, LenProperties
    <3>3. got[e][d][k] <= heard[d]
      BY DEF NotBefore
    <3> QED  BY <2>2, <3>2, <3>3
  <2> QED  BY <2>1, <2>3 DEF NotBefore
<1>3. ASSUME NEW c \in Conn, SendOn(c) PROVE NotBefore'
  <2>1. UNCHANGED heard
    BY <1>3 DEF SendOn
  <2>3. ASSUME NEW d \in Conn, NEW e \in Conn, NEW k \in DOMAIN got'[e][d]
        PROVE  got'[e][d][k] <= heard[d]
    <3>1. CASE got'[e][d] = got[e][d]
      BY <2>3, <3>1 DEF NotBefore
    <3>2. CASE d = c /\ got'[e][d] = Append(got[e][d], heard[d])
      <4>1. got[e][d] \in Seq(1 .. MaxSay) /\ heard[d] \in 1 .. MaxSay
        <5>1. heard[d] # 0 /\ heard[d] \in 0 .. MaxSay
          BY <1>0, <1>3, <3>2 DEF TypeInv, InMemory, SendOn, TypeOK
        <5>2. heard[d] \in 1 .. MaxSay
          BY <5>1, ServerAssumption
        <5>3. got[e][d] \in Seq(1 .. MaxSay)
          BY <1>0 DEF TypeOK
        <5> QED  BY <5>2, <5>3
      <4>2. \/ k \in DOMAIN got[e][d] /\ got'[e][d][k] = got[e][d][k]
            \/ got'[e][d][k] = heard[d]
        BY <3>2, <4>1, AppendProperties, LenProperties
      <4> QED  BY <4>1, <4>2 DEF NotBefore
    <3> QED  BY <1>0, <1>3, <3>1, <3>2, SendOnAdds
  <2> QED  BY <2>1, <2>3 DEF NotBefore
<1>4. ASSUME NEW c \in Conn, ~Recv(c), ~SendOn(c), ThreadStep(c)
      PROVE  UNCHANGED <<got, heard>>
  BY <1>4 DEF ThreadStep, RecvEnds, SendEnds, EraseSelf, SayGone, peers
<1> QED  BY <1>1, <1>2, <1>3, <1>4
         DEF Next, Main, Interrupt, Join, Accept, ClientSay, Drop, vars, peers

LEMMA OverKept ==
  ASSUME TypeOK, AllOver, [Next]_vars
  PROVE  AllOver'
<1> SUFFICES ASSUME main' = "exit", NEW c \in Conn
             PROVE  ~Serving(c)' /\ thread'[c] # "say"
  BY DEF AllOver
<1>1. CASE Join
  BY <1>1 DEF Join, Served, Serving
<1>2. CASE UNCHANGED <<main, thread>>
  BY <1>2 DEF AllOver, Serving
<1>3. ASSUME NEW d \in Conn, ThreadStep(d)
      PROVE  ~Serving(c)' /\ thread'[c] # "say"
  <2>1. main = "exit" /\ ~Serving(d) /\ thread[d] # "say"
    BY <1>3 DEF AllOver, ThreadStep, Recv, RecvEnds, SendOn, SendEnds, EraseSelf,
                SayGone, server
  <2> QED  BY <1>3, <2>1 DEF ThreadStep, Recv, RecvEnds, SendOn, SendEnds,
                             EraseSelf, SayGone, Goes, Serving
<1>4. ASSUME NEW d \in Conn, Accept(d) PROVE FALSE
  BY <1>4 DEF Accept, server
<1> QED  BY <1>1, <1>2, <1>3, <1>4
         DEF Next, Main, MainStep, Interrupt, ClientSay, Drop, vars, server

\* A message that sendMessageAll has sent on with nothing erased and no memory
\* moved meanwhile has reached every other client that was in v_client when it
\* began and is still connected, and each only once.
THEOREM ExactlyOnceHolds == Spec => []ExactlyOnce
<1> DEFINE IInv == TypeInv /\ RegInv /\ OnceInv
<1>1. Init => IInv
  <2> SUFFICES ASSUME Init PROVE IInv
    OBVIOUS
  <2>1. RegInv
    BY ServerAssumption DEF Init, RegInv, Held, Serving
  <2>2. OnceInv
    BY DEF Init, OnceInv, NotBefore, AllOver, PassedOnce, Steady
  <2> QED  BY <2>1, <2>2, TypesFirst
<1>2. IInv /\ [Next]_vars => IInv'
  <2> SUFFICES ASSUME IInv, [Next]_vars PROVE IInv'
    OBVIOUS
  <2>1. TypeInv' /\ RegInv'
    BY TypesKept, RegKept
  <2>2. NotBefore' /\ AllOver'
    BY <2>1, NotBeforeKept, OverKept DEF TypeInv, OnceInv
  <2>3. ASSUME NEW c \in Conn PROVE PassedOnce(c)'
    BY RecvStarts, SendOnPasses, OthersPass DEF TypeInv, OnceInv
  <2> QED  BY <2>1, <2>2, <2>3 DEF OnceInv
<1>3. ASSUME IInv PROVE ExactlyOnce
  <2> SUFFICES ASSUME NEW c \in Conn, thread[c] = "send",
                      loop[c].at > loop[c].end,
                      ~loop[c].disturbed, ~loop[c].moved, main # "join", calm,
                      NEW d \in {slots[i] : i \in 1 .. loop[c].end} \ {c},
                      link[d] = "up"
               PROVE  Cardinality({k \in DOMAIN got[d][c] :
                                     got[d][c][k] = heard[c]}) = 1
    BY DEF ExactlyOnce
  <2>1. Steady(c)
    BY <1>3 DEF OnceInv, AllOver, Serving, Steady
  <2>2. PICK i \in 1 .. loop[c].end : d = slots[i]
    OBVIOUS
  <2>3. i < loop[c].at
    BY <1>3 DEF TypeInv, TypeOK
  <2>4. PICK k : Copies(got[d][c], heard[c]) = {k}
    BY <1>3, <2>1, <2>2, <2>3 DEF OnceInv, PassedOnce
  <2> QED  BY <2>4, FS_Singleton DEF Copies
<1> QED  BY <1>1, <1>2, <1>3, PTL DEF Spec
=============================================================================
