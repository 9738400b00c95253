---------------------------- MODULE BignumProofs ----------------------------
(***************************************************************************)
(* The arithmetic of Bignum is that of natural numbers, for every BASE and *)
(* numbers of any length, and BignumCalc, RsaWrapper and BignumTool have   *)
(* their properties.                                                       *)
(*                                                                         *)
(* First come induction and functions defined by recursion, powers of      *)
(* BASE, and what a number stands for; then each operator in the order of  *)
(* Bignum, with a lemma that gives the function its loop computes          *)
(* (...Unfold), one that there is such a function (...Exists), and the     *)
(* theorem that its result is right (...Right); then the steps of          *)
(* BignumCalc.  The conversions of RsaText follow, by the digits that      *)
(* strings and numbers have at each place, the steps of RsaWrapper, and    *)
(* those of BignumTool.                                                    *)
(***************************************************************************)
EXTENDS BignumCalc, RsaWrapper, BignumTool, SequenceTheorems, WellFoundedInduction, TLAPS

(* Induction.  What is proved of all numbers is written as a set of numbers. *)

\* A set of natural numbers has a smallest one, if any.
LEMMA SmallestOf ==
  ASSUME NEW T, T \subseteq Nat, T # {}
  PROVE  \E u0 \in T : \A w0 \in T : u0 <= w0
  <1>1. PICK R : R = OpToRel(<, Nat) /\ IsWellFoundedOn(R, Nat)
    BY NatLessThanWellFounded
  <1>2. PICK u0 \in T : \A w0 \in T : ~(<<w0, u0>> \in R)
    BY <1>1, WFMin
  <1>3. R = {ss \in Nat \X Nat : ss[1] < ss[2]}
    BY <1>1 DEF OpToRel
  <1>4. ASSUME NEW w0 \in Nat, NEW v0 \in Nat, w0 < v0 PROVE <<w0, v0>> \in R
    <2>1. <<w0, v0>> \in Nat \X Nat /\ <<w0, v0>>[1] < <<w0, v0>>[2]
      BY <1>4
    <2> QED
      BY <1>3, <2>1
  <1>5. ASSUME NEW w0 \in T PROVE u0 <= w0
    <2>1. u0 \in Nat /\ w0 \in Nat /\ ~(w0 < u0)
      BY <1>2, <1>4
    <2> QED
      BY <2>1
  <1> QED
    BY <1>5

\* A set with 0 and with every successor holds all natural numbers.
LEMMA Induction ==
  ASSUME NEW S, 0 \in S, \A n \in Nat : n \in S => n + 1 \in S
  PROVE  \A n \in Nat : n \in S
  <1> SUFFICES ASSUME NEW n \in Nat \ S PROVE FALSE
    OBVIOUS
  <1>1. PICK m \in Nat \ S : \A k \in Nat \ S : m <= k
    <2>1. Nat \ S \subseteq Nat /\ Nat \ S # {}
      OBVIOUS
    <2> QED
      BY <2>1, SmallestOf
  <1>2. m \in Nat /\ m # 0
    BY <1>1
  <1>3. m - 1 \in Nat /\ (m - 1) + 1 = m /\ ~(m <= m - 1)
    BY <1>2
  <1>4. m - 1 \in S
    BY <1>1, <1>3
  <1> QED
    BY <1>1, <1>3, <1>4

\* f is defined up to n by its first value and by what it makes of the one before.
UpTo(f, n, S, first, next) ==
  /\ f \in [0 .. n -> S] /\ f[0] = first
  /\ \A k \in 1 .. n : f[k] = next[k][f[k - 1]]

\* A function defined up to n goes on to n + 1.
LEMMA OneMore ==
  ASSUME NEW n \in Nat, NEW S, NEW first \in S, NEW next,
         next[n + 1] \in [S -> S], NEW f, UpTo(f, n, S, first, next)
  PROVE  \E g : UpTo(g, n + 1, S, first, next)
  <1>1. PICK v \in S : v = next[n + 1][f[n]]
    BY DEF UpTo
  <1>2. PICK g : g = [k \in 0 .. n + 1 |-> IF k = n + 1 THEN v ELSE f[k]]
    OBVIOUS
  <1>3. \A k \in 0 .. n + 1 : k # n + 1 => k \in 0 .. n /\ g[k] = f[k]
    BY <1>2
  <1>4. g \in [0 .. n + 1 -> S] /\ g[0] = first
    BY <1>2, <1>3 DEF UpTo
  <1>5. \A k \in 1 .. n + 1 : g[k] = next[k][g[k - 1]]
    <2>1. ASSUME NEW k \in 1 .. n + 1, k # n + 1
          PROVE  g[k] = next[k][g[k - 1]]
      <3>1. k \in 1 .. n /\ k - 1 \in 0 .. n /\ k - 1 # n + 1
        BY <2>1
      <3>2. g[k] = f[k] /\ g[k - 1] = f[k - 1]
        BY <1>3, <3>1
      <3> QED
        BY <3>1, <3>2 DEF UpTo
    <2>2. g[n + 1] = next[n + 1][g[n]]
      <3>1. n \in 0 .. n + 1 /\ n # n + 1 /\ n + 1 \in 0 .. n + 1
        OBVIOUS
      <3>2. g[n + 1] = v /\ g[n] = f[n]
        BY <1>2, <1>3, <3>1
      <3> QED
        BY <1>1, <3>2
    <2>3. (n + 1) - 1 = n
      OBVIOUS
    <2> QED
      BY <2>1, <2>2, <2>3
  <1> QED
    BY <1>4, <1>5 DEF UpTo

\* Such functions exist; this is what makes recursive definitions mean something.
LEMMA Defined ==
  ASSUME NEW n \in Nat, NEW S, NEW first \in S,
         NEW next, \A k \in 1 .. n : next[k] \in [S -> S]
  PROVE  \E f : UpTo(f, n, S, first, next)
  <1> DEFINE T == {m \in Nat : m <= n => \E f : UpTo(f, m, S, first, next)}
  <1>1. 0 \in T
    <2>1. PICK f : f = [k \in 0 .. 0 |-> first]
      OBVIOUS
    <2>2. UpTo(f, 0, S, first, next)
      BY <2>1 DEF UpTo
    <2> QED
      BY <2>2
  <1>2. ASSUME NEW m \in Nat, m \in T PROVE m + 1 \in T
    <2> SUFFICES ASSUME m + 1 <= n
                 PROVE  \E f : UpTo(f, m + 1, S, first, next)
      OBVIOUS
    <2>1. m <= n /\ m + 1 \in 1 .. n
      OBVIOUS
    <2>2. PICK f : UpTo(f, m, S, first, next)
      BY <1>2, <2>1
    <2> QED
      BY <2>1, <2>2, OneMore
  <1> HIDE DEF T
  <1>3. n \in T
    BY <1>1, <1>2, Induction
  <1> QED
    BY <1>3 DEF T

\* Two of them are the same.
LEMMA Unique ==
  ASSUME NEW m \in Nat, NEW n \in Nat, NEW S, NEW first \in S, NEW next,
         NEW f, UpTo(f, m, S, first, next), NEW g, UpTo(g, n, S, first, next)
  PROVE  \A k \in Nat : k <= m /\ k <= n => f[k] = g[k]
  <1> DEFINE T == {k \in Nat : k <= m /\ k <= n => f[k] = g[k]}
  <1>1. 0 \in T
    BY DEF UpTo
  <1>2. ASSUME NEW k \in Nat, k \in T PROVE k + 1 \in T
    <2> SUFFICES ASSUME k + 1 <= m, k + 1 <= n PROVE f[k + 1] = g[k + 1]
      OBVIOUS
    <2>1. k <= m /\ k <= n /\ k + 1 \in 1 .. m /\ k + 1 \in 1 .. n /\ (k + 1) - 1 = k
      OBVIOUS
    <2>2. f[k] = g[k]
      BY <1>2, <2>1
    <2> QED
      BY <2>1, <2>2 DEF UpTo
  <1> HIDE DEF T
  <1>3. \A k \in Nat : k \in T
    BY <1>1, <1>2, Induction
  <1> QED
    BY <1>3 DEF T

\* And there is one for all natural numbers.
OnAll(f, S, first, next) == /\ f \in [Nat -> S] /\ f[0] = first
                            /\ \A k \in Nat : f[k + 1] = next[k + 1][f[k]]

LEMMA DefinedForAll ==
  ASSUME NEW S, NEW first \in S, NEW next, \A k \in Nat : next[k] \in [S -> S]
  PROVE  \E f : OnAll(f, S, first, next)
  <1> DEFINE Up(n) == CHOOSE f : UpTo(f, n, S, first, next)
  <1>1. ASSUME NEW n \in Nat PROVE UpTo(Up(n), n, S, first, next)
    <2>1. \E f : UpTo(f, n, S, first, next)
      BY Defined
    <2> QED
      BY <2>1
  <1> HIDE DEF Up
  <1>2. PICK f : f = [n \in Nat |-> Up(n)[n]]
    OBVIOUS
  <1>3. f \in [Nat -> S] /\ f[0] = first
    <2>1. \A n \in Nat : Up(n)[n] \in S
      BY <1>1 DEF UpTo
    <2>2. Up(0)[0] = first
      BY <1>1 DEF UpTo
    <2> QED
      BY <1>2, <2>1, <2>2
  <1>4. ASSUME NEW k \in Nat PROVE f[k + 1] = next[k + 1][f[k]]
    <2>1. /\ UpTo(Up(k), k, S, first, next)
          /\ UpTo(Up(k + 1), k + 1, S, first, next)
      BY <1>1
    <2>2. Up(k)[k] = Up(k + 1)[k]
      <3>1. k <= k /\ k <= k + 1 /\ k + 1 \in Nat
        OBVIOUS
      <3> QED
        BY <2>1, <3>1, Unique
    <2>3. Up(k + 1)[k + 1] = next[k + 1][Up(k + 1)[k]]
      <3>1. k + 1 \in 1 .. k + 1 /\ (k + 1) - 1 = k
        OBVIOUS
      <3> QED
        BY <2>1, <3>1 DEF UpTo
    <2> QED
      BY <1>2, <2>2, <2>3
  <1> QED
    BY <1>3, <1>4 DEF OnAll
-----------------------------------------------------------------------------
(* Powers of BASE *)

IsPow(p) == /\ p \in [Nat -> Nat] /\ p[0] = 1
            /\ \A k \in Nat : p[k + 1] = p[k] * BASE
Pow == CHOOSE p : IsPow(p)

LEMMA Base == BASE \in Nat /\ BASE >= 2
  BY BaseAssumption

\* Each power is BASE times the one before.
LEMMA Powers == /\ \A k \in Nat : Pow[k] \in Nat /\ Pow[k + 1] = Pow[k] * BASE
                /\ Pow[0] = 1
  <1>1. \E p : IsPow(p)
    <2>1. PICK next : next = [k \in Nat |-> [v \in Nat |-> v * BASE]]
      OBVIOUS
    <2>2. \A k \in Nat : next[k] \in [Nat -> Nat]
      BY <2>1, Base
    <2>3. PICK p : OnAll(p, Nat, 1, next)
      BY <2>2, DefinedForAll
    <2>4. p \in [Nat -> Nat] /\ p[0] = 1 /\ \A k \in Nat : p[k + 1] = next[k + 1][p[k]]
      BY <2>3 DEF OnAll
    <2>5. \A k \in Nat : p[k + 1] = p[k] * BASE
      <3>1. \A k \in Nat : k + 1 \in Nat /\ p[k] \in Nat
        BY <2>4
      <3> QED
        BY <2>1, <2>4, <3>1
    <2> QED
      BY <2>4, <2>5 DEF IsPow
  <1>2. IsPow(Pow)
    BY <1>1 DEF Pow
  <1> QED
    BY <1>2 DEF IsPow

\* No power is zero.
LEMMA PowPositive == \A k \in Nat : Pow[k] \in Nat /\ Pow[k] >= 1
  <1> DEFINE T == {k \in Nat : Pow[k] >= 1}
  <1>1. 0 \in T
    BY Powers
  <1>2. ASSUME NEW k \in Nat, k \in T PROVE k + 1 \in T
    <2>1. PICK p \in Nat : p = Pow[k]
      BY Powers
    <2>2. p >= 1 /\ Pow[k + 1] = p * BASE
      BY <1>2, <2>1, Powers
    <2>3. p * BASE >= 1
      BY <2>2, Base
    <2> QED
      BY <2>2, <2>3
  <1> HIDE DEF T
  <1>3. \A k \in Nat : k \in T
    BY <1>1, <1>2, Induction
  <1> QED
    BY <1>3, Powers DEF T

\* The power of a sum is the product of the powers.
LEMMA PowSum ==
  ASSUME NEW m \in Nat, NEW n \in Nat
  PROVE  Pow[m + n] = Pow[m] * Pow[n]
  <1> DEFINE T == {k \in Nat : Pow[m + k] = Pow[m] * Pow[k]}
  <1>1. 0 \in T
    <2>1. m + 0 = m /\ Pow[m] * 1 = Pow[m]
      BY Powers
    <2> QED
      BY <2>1, Powers
  <1>2. ASSUME NEW k \in Nat, k \in T PROVE k + 1 \in T
    <2>1. PICK p \in Nat, q \in Nat : p = Pow[m] /\ q = Pow[k]
      BY Powers
    <2>2. m + (k + 1) = (m + k) + 1 /\ m + k \in Nat
      OBVIOUS
    <2>3. Pow[m + (k + 1)] = (p * q) * BASE
      BY <1>2, <2>1, <2>2, Powers
    <2>4. Pow[k + 1] = q * BASE
      BY <2>1, Powers
    <2>5. (p * q) * BASE = p * (q * BASE)
      BY Base
    <2> QED
      BY <2>1, <2>3, <2>4, <2>5
  <1> HIDE DEF T
  <1>3. n \in T
    BY <1>1, <1>2, Induction
  <1> QED
    BY <1>3 DEF T

\* The powers do not decrease.
LEMMA PowGrows ==
  ASSUME NEW m \in Nat, NEW n \in Nat, m <= n
  PROVE  Pow[m] <= Pow[n]
  <1>1. PICK d \in Nat : n = m + d
    <2>1. n - m \in Nat /\ n = m + (n - m)
      OBVIOUS
    <2> QED
      BY <2>1
  <1>2. PICK p \in Nat, q \in Nat : p = Pow[m] /\ q = Pow[d] /\ q >= 1
    BY PowPositive
  <1>3. Pow[n] = p * q
    BY <1>1, <1>2, PowSum
  <1>4. p <= p * q
    BY <1>2
  <1> QED
    BY <1>2, <1>3, <1>4
-----------------------------------------------------------------------------
(* What the lowest limbs stand for *)

IsLow(l, a) == /\ l \in [Nat -> Nat] /\ l[0] = 0
               /\ \A k \in Nat : l[k + 1] = l[k] + At(a, k + 1) * Pow[k]
Low(a) == CHOOSE l : IsLow(l, a)

\* A limb is a number, within the sequence and beyond.
LEMMA Limbs ==
  ASSUME NEW a \in Seq(Nat)
  PROVE  \A k : At(a, k) \in Nat
  BY ElementOfSeq DEF At

\* What Low is: each limb counts for its power of BASE.
LEMMA Lows ==
  ASSUME NEW a \in Seq(Nat)
  PROVE  /\ \A k \in Nat : /\ Low(a)[k] \in Nat
                           /\ Low(a)[k + 1] = Low(a)[k] + At(a, k + 1) * Pow[k]
         /\ Low(a)[0] = 0
  <1>1. \E l : IsLow(l, a)
    <2>2. PICK more : more = [k \in Nat |-> IF k = 0 THEN [v \in Nat |-> 0]
                               ELSE [v \in Nat |-> v + At(a, k) * Pow[k - 1]]]
      OBVIOUS
    <2>3. ASSUME NEW k \in Nat PROVE more[k] \in [Nat -> Nat]
      <3>1. CASE k = 0
        BY <2>2, <3>1
      <3>2. CASE k # 0
        <4>1. k - 1 \in Nat
          BY <3>2
        <4>2. PICK p \in Nat, d \in Nat : p = Pow[k - 1] /\ d = At(a, k)
          BY <4>1, Powers, Limbs
        <4>3. d * p \in Nat
          OBVIOUS
        <4>4. \A v \in Nat : v + d * p \in Nat
          BY <4>3
        <4>5. more[k] = [v \in Nat |-> v + d * p]
          BY <2>2, <3>2, <4>2
        <4> QED
          BY <4>4, <4>5
      <3> QED
        BY <3>1, <3>2
    <2>4. PICK l : OnAll(l, Nat, 0, more)
      BY <2>3, DefinedForAll
    <2>5. l \in [Nat -> Nat] /\ l[0] = 0 /\ \A k \in Nat : l[k + 1] = more[k + 1][l[k]]
      BY <2>4 DEF OnAll
    <2>6. ASSUME NEW k \in Nat PROVE l[k + 1] = l[k] + At(a, k + 1) * Pow[k]
      <3>0. l[k] \in Nat
        BY <2>5
      <3>1. k + 1 \in Nat /\ k + 1 # 0 /\ (k + 1) - 1 = k
        OBVIOUS
      <3>2. more[k + 1] = [v \in Nat |-> v + At(a, k + 1) * Pow[(k + 1) - 1]]
        BY <2>2, <3>1
      <3> QED
        BY <2>5, <3>0, <3>1, <3>2
    <2> QED
      BY <2>5, <2>6 DEF IsLow
  <1>2. IsLow(Low(a), a)
    BY <1>1 DEF Low
  <1> QED
    BY <1>2 DEF IsLow

\* Numbers with the same lowest limbs.
LEMMA SameLow ==
  ASSUME NEW a \in Seq(Nat), NEW b \in Seq(Nat), NEW n \in Nat,
         \A k \in 1 .. n : At(a, k) = At(b, k)
  PROVE  \A k \in 0 .. n : Low(a)[k] = Low(b)[k]
  <1> DEFINE T == {k \in Nat : k <= n => Low(a)[k] = Low(b)[k]}
  <1>1. 0 \in T
    BY Lows
  <1>2. ASSUME NEW k \in Nat, k \in T PROVE k + 1 \in T
    <2> SUFFICES ASSUME k + 1 <= n PROVE Low(a)[k + 1] = Low(b)[k + 1]
      OBVIOUS
    <2>1. k <= n /\ k + 1 \in 1 .. n
      OBVIOUS
    <2>2. Low(a)[k] = Low(b)[k] /\ At(a, k + 1) = At(b, k + 1)
      BY <1>2, <2>1
    <2> QED
      BY <2>2, Lows
  <1> HIDE DEF T
  <1>3. \A k \in Nat : k \in T
    BY <1>1, <1>2, Induction
  <1>4. \A k \in 0 .. n : k \in Nat /\ k <= n
    OBVIOUS
  <1> QED
    BY <1>3, <1>4 DEF T

\* Behind the end nothing is added.
LEMMA Beyond ==
  ASSUME NEW a \in Seq(Nat), NEW n \in Nat, n >= Len(a)
  PROVE  Low(a)[n] = Low(a)[Len(a)]
  <1>0. Len(a) \in Nat /\ DOMAIN a = 1 .. Len(a)
    BY LenProperties
  <1> DEFINE T == {k \in Nat : k >= Len(a) => Low(a)[k] = Low(a)[Len(a)]}
  <1>1. 0 \in T
    BY <1>0
  <1>2. ASSUME NEW k \in Nat, k \in T PROVE k + 1 \in T
    <2> SUFFICES ASSUME k + 1 >= Len(a) PROVE Low(a)[k + 1] = Low(a)[Len(a)]
      OBVIOUS
    <2>1. CASE k + 1 = Len(a)
      BY <2>1
    <2>2. CASE k >= Len(a)
      <3>1. k + 1 \notin DOMAIN a
        BY <1>0, <2>2
      <3>2. At(a, k + 1) = 0
        BY <3>1 DEF At
      <3>3. PICK p \in Nat, l \in Nat : p = Pow[k] /\ l = Low(a)[k]
        BY Powers, Lows
      <3>4. Low(a)[k + 1] = l + 0 * p
        BY <3>2, <3>3, Lows
      <3>5. l + 0 * p = l
        OBVIOUS
      <3> QED
        BY <1>2, <2>2, <3>3, <3>4, <3>5
    <2>3. k + 1 = Len(a) \/ k >= Len(a)
      <3>1. PICK n1 \in Nat : n1 = Len(a)
        BY <1>0
      <3>2. k + 1 >= n1
        BY <3>1
      <3>3. k + 1 = n1 \/ k >= n1
        BY <3>2
      <3> QED
        BY <3>1, <3>3
    <2> QED
      BY <2>1, <2>2, <2>3
  <1> HIDE DEF T
  <1>3. n \in T
    BY <1>1, <1>2, Induction
  <1> QED
    BY <1>3 DEF T
-----------------------------------------------------------------------------
(* What a number stands for *)

\* The limbs of a number are natural numbers.
LEMMA Digits ==
  ASSUME NEW a \in Seq(Limb)
  PROVE  /\ a \in Seq(Nat) /\ Len(a) \in Nat /\ DOMAIN a = 1 .. Len(a)
         /\ \A k : At(a, k) \in Limb /\ At(a, k) \in Nat
  <1>1. Limb \subseteq Nat /\ 0 \in Limb
    BY Base DEF Limb
  <1>2. Len(a) \in Nat /\ DOMAIN a = 1 .. Len(a) /\ a \in [1 .. Len(a) -> Limb]
    BY LenProperties
  <1>3. a \in Seq(Nat)
    <2>1. \A k \in 1 .. Len(a) : a[k] \in Nat
      BY <1>1, <1>2
    <2> QED
      BY <1>2, <2>1, SeqDef
  <1>4. \A k : At(a, k) \in Limb
    BY <1>1, <1>2 DEF At
  <1> QED
    BY <1>1, <1>2, <1>3, <1>4

\* The function val of Value.
IsTop(v, a) == v = [k \in 0 .. Len(a) |-> IF k = 0 THEN 0
                      ELSE v[k - 1] * BASE + a[Len(a) - k + 1]]

\* Value is the last value of such a function,
LEMMA ValueIs ==
  ASSUME NEW a, NEW w, IsTop(w, a)
  PROVE  \E v : IsTop(v, a) /\ Value(a) = v[Len(a)]
  <1> DEFINE v == CHOOSE v : IsTop(v, a)
  <1>1. IsTop(v, a)
    OBVIOUS
  <1>2. Value(a) = v[Len(a)]
    BY DEF Value, IsTop
  <1> QED
    BY <1>1, <1>2

\* and there is one.
LEMMA TopExists ==
  ASSUME NEW a \in Seq(Nat)
  PROVE  \E w : IsTop(w, a)
  <1>1. PICK n \in Nat : n = Len(a)
    BY LenProperties
  <1>2. PICK next : next = [k \in 1 .. n |-> [v \in Nat |-> v * BASE + a[n - k + 1]]]
    OBVIOUS
  <1>3. ASSUME NEW k \in 1 .. n PROVE next[k] \in [Nat -> Nat]
    <2>1. n - k + 1 \in 1 .. Len(a)
      BY <1>1
    <2>2. PICK d \in Nat : d = a[n - k + 1]
      BY <2>1, ElementOfSeq
    <2>3. \A v \in Nat : v * BASE + d \in Nat
      BY Base
    <2>4. next[k] = [v \in Nat |-> v * BASE + d]
      BY <1>2, <2>2
    <2> QED
      BY <2>3, <2>4
  <1>4. PICK w : UpTo(w, n, Nat, 0, next)
    BY <1>3, Defined
  <1>5. w = [k \in 0 .. n |-> IF k = 0 THEN 0 ELSE w[k - 1] * BASE + a[n - k + 1]]
    <2>1. w = [k \in 0 .. n |-> w[k]] /\ w[0] = 0
      BY <1>4 DEF UpTo
    <2>2. ASSUME NEW k \in 0 .. n, k # 0
          PROVE  w[k] = w[k - 1] * BASE + a[n - k + 1]
      <3>1. k \in 1 .. n /\ k - 1 \in 0 .. n
        BY <2>2
      <3>2. w[k] = next[k][w[k - 1]] /\ w[k - 1] \in Nat
        BY <1>4, <3>1 DEF UpTo
      <3> QED
        BY <1>2, <3>1, <3>2
    <2> QED
      BY <2>1, <2>2
  <1>6. [k \in 0 .. n |-> IF k = 0 THEN 0 ELSE w[k - 1] * BASE + a[n - k + 1]]
          = [k \in 0 .. Len(a) |-> IF k = 0 THEN 0
                                  ELSE w[k - 1] * BASE + a[Len(a) - k + 1]]
    BY <1>1
  <1>7. IsTop(w, a)
    BY <1>5, <1>6 DEF IsTop
  <1> QED
    BY <1>7

\* From the top or from the bottom, it is the same.
LEMMA ValueLow ==
  ASSUME NEW a \in Seq(Nat)
  PROVE  Value(a) \in Nat /\ Value(a) = Low(a)[Len(a)]
  <1>1. PICK n \in Nat : n = Len(a) /\ DOMAIN a = 1 .. n
    BY LenProperties
  <1>2. PICK v : IsTop(v, a) /\ Value(a) = v[n]
    BY <1>1, TopExists, ValueIs
  <1>3. /\ v[0] = 0
        /\ \A k \in 1 .. n : v[k] = v[k - 1] * BASE + a[n - k + 1]
    <2>1. v = [k \in 0 .. n |-> IF k = 0 THEN 0
                 ELSE v[k - 1] * BASE + a[n - k + 1]]
      BY <1>1, <1>2 DEF IsTop
    <2>2. 0 \in 0 .. n /\ \A k \in 1 .. n : k \in 0 .. n /\ k # 0
      OBVIOUS
    <2> QED
      BY <2>1, <2>2
  <1> DEFINE T == {k \in Nat : k <= n => /\ v[k] \in Nat
                                         /\ v[k] * Pow[n - k] + Low(a)[n - k] = Low(a)[n]}
  <1>4. 0 \in T
    <2>1. n - 0 = n
      OBVIOUS
    <2>2. PICK p \in Nat, l \in Nat : p = Pow[n] /\ l = Low(a)[n]
      BY Powers, Lows
    <2>3. 0 * p + l = l
      OBVIOUS
    <2> QED
      BY <1>3, <2>1, <2>2, <2>3
  <1>5. ASSUME NEW k \in Nat, k \in T PROVE k + 1 \in T
    <2> SUFFICES ASSUME k + 1 <= n
                 PROVE  /\ v[k + 1] \in Nat
                        /\ v[k + 1] * Pow[n - (k + 1)] + Low(a)[n - (k + 1)] = Low(a)[n]
      OBVIOUS
    <2>1. PICK m \in Nat : m = n - (k + 1)
      OBVIOUS
    <2>2. n - k = m + 1 /\ k <= n /\ k + 1 \in 1 .. n /\ (k + 1) - 1 = k
          /\ n - (k + 1) + 1 = m + 1 /\ m + 1 \in 1 .. n
      BY <2>1
    <2>3. PICK d \in Nat : d = At(a, m + 1) /\ d = a[m + 1]
      <3>1. At(a, m + 1) = a[m + 1]
        BY <1>1, <2>2 DEF At
      <3> QED
        BY <3>1, Limbs
    <2>4. PICK p \in Nat, l \in Nat, u \in Nat : p = Pow[m] /\ l = Low(a)[m] /\ u = v[k]
      <3>1. v[k] \in Nat
        BY <1>5, <2>2
      <3>2. Pow[m] \in Nat /\ Low(a)[m] \in Nat
        BY <2>1, Powers, Lows
      <3> QED
        BY <3>1, <3>2
    <2>5. Pow[m + 1] = p * BASE /\ Low(a)[m + 1] = l + d * p
      <3>1. Pow[m + 1] = p * BASE
        BY <2>4, Powers
      <3>2. Low(a)[m + 1] = Low(a)[m] + At(a, m + 1) * Pow[m]
        BY Lows
      <3> QED
        BY <2>3, <2>4, <3>1, <3>2
    <2>6. v[k + 1] = u * BASE + d
      BY <1>3, <2>2, <2>3, <2>4
    <2>7. u * (p * BASE) + (l + d * p) = Low(a)[n]
      BY <1>5, <2>2, <2>4, <2>5
    <2>8. (u * BASE + d) * p + l = u * (p * BASE) + (l + d * p)
      BY Base
    <2>9. u * BASE + d \in Nat
      BY Base
    <2>10. v[k + 1] * Pow[m] + Low(a)[m] = Low(a)[n]
      BY <2>4, <2>6, <2>7, <2>8
    <2> QED
      BY <2>1, <2>6, <2>9, <2>10
  <1> HIDE DEF T
  <1>6. n \in T
    BY <1>4, <1>5, Induction
  <1>7. v[n] \in Nat /\ v[n] * Pow[0] + Low(a)[0] = Low(a)[n]
    <2>1. n - n = 0 /\ n <= n
      OBVIOUS
    <2> QED
      BY <1>6, <2>1 DEF T
  <1>8. v[n] * 1 + 0 = Low(a)[n]
    BY <1>7, Powers, Lows
  <1>9. v[n] = Low(a)[n]
    BY <1>7, <1>8
  <1> QED
    BY <1>1, <1>2, <1>7, <1>9

\* The lowest limbs are below the power.
LEMMA Bounded ==
  ASSUME NEW a \in Seq(Limb)
  PROVE  \A k \in Nat : Low(a)[k] < Pow[k]
  <1>0. a \in Seq(Nat)
    BY Digits
  <1> DEFINE T == {k \in Nat : Low(a)[k] < Pow[k]}
  <1>1. 0 \in T
    BY <1>0, Powers, Lows
  <1>2. ASSUME NEW k \in Nat, k \in T PROVE k + 1 \in T
    <2>1. PICK p \in Nat, l \in Nat, d \in Nat :
            p = Pow[k] /\ l = Low(a)[k] /\ d = At(a, k + 1) /\ d + 1 <= BASE
      <3>1. At(a, k + 1) \in Limb
        BY Digits
      <3>2. At(a, k + 1) \in Nat /\ At(a, k + 1) + 1 <= BASE
        BY <3>1, Base DEF Limb
      <3> QED
        BY <1>0, <3>2, Powers, Lows
    <2>2. l < p
      BY <1>2, <2>1
    <2>3. Pow[k + 1] = p * BASE /\ Low(a)[k + 1] = l + d * p
      BY <1>0, <2>1, Powers, Lows
    <2>4. PICK e \in Nat : BASE = d + 1 + e
      <3>1. BASE - (d + 1) \in Nat /\ BASE = d + 1 + (BASE - (d + 1))
        BY <2>1, Base
      <3> QED
        BY <3>1
    <2>5. p * BASE = p * d + p + p * e /\ p * e \in Nat /\ d * p = p * d
      BY <2>4
    <2>6. l + d * p < p * BASE
      BY <2>2, <2>5
    <2> QED
      BY <2>3, <2>6
  <1> HIDE DEF T
  <1>3. \A k \in Nat : k \in T
    BY <1>1, <1>2, Induction
  <1> QED
    BY <1>3 DEF T

\* More limbs never stand for less.
LEMMA LowRises ==
  ASSUME NEW a \in Seq(Nat), NEW m \in Nat, NEW n \in Nat, m <= n
  PROVE  Low(a)[m] <= Low(a)[n]
  <1> DEFINE T == {k \in Nat : Low(a)[m] <= Low(a)[m + k]}
  <1>1. 0 \in T
    <2>1. m + 0 = m
      OBVIOUS
    <2>2. PICK l \in Nat : l = Low(a)[m]
      BY Lows
    <2> QED
      BY <2>1, <2>2
  <1>2. ASSUME NEW k \in Nat, k \in T PROVE k + 1 \in T
    <2>1. m + (k + 1) = (m + k) + 1 /\ m + k \in Nat
      OBVIOUS
    <2>2. PICK p \in Nat, l \in Nat, d \in Nat, j \in Nat :
            p = Pow[m + k] /\ l = Low(a)[m + k] /\ d = At(a, m + k + 1) /\ j = Low(a)[m]
      BY <2>1, Powers, Lows, Limbs
    <2>3. j <= l /\ Low(a)[m + (k + 1)] = l + d * p
      BY <1>2, <2>1, <2>2, Lows
    <2>4. d * p \in Nat
      OBVIOUS
    <2>5. j <= l + d * p
      BY <2>3, <2>4
    <2> QED
      BY <2>2, <2>3, <2>5
  <1> HIDE DEF T
  <1>3. n - m \in Nat /\ m + (n - m) = n
    OBVIOUS
  <1>4. n - m \in T
    BY <1>1, <1>2, <1>3, Induction
  <1> QED
    BY <1>3, <1>4 DEF T

\* A limb that is not zero makes the number no smaller than its place.
LEMMA TopLimb ==
  ASSUME NEW a \in Seq(Nat), NEW k \in Nat, At(a, k + 1) # 0
  PROVE  Pow[k] <= Value(a)
  <1>1. PICK n \in Nat : n = Len(a) /\ DOMAIN a = 1 .. n
    BY LenProperties
  <1>2. k + 1 <= n
    BY <1>1 DEF At
  <1>3. PICK p \in Nat, l \in Nat, d \in Nat : p = Pow[k] /\ l = Low(a)[k] /\ d = At(a, k + 1)
    BY Powers, Lows, Limbs
  <1>4. Low(a)[k + 1] = l + d * p /\ d # 0
    BY <1>3, Lows
  <1>5. p <= l + d * p
    BY <1>4
  <1>6. Low(a)[k + 1] <= Low(a)[n]
    BY <1>2, LowRises
  <1>7. PICK w \in Nat : w = Low(a)[n] /\ w = Value(a)
    BY <1>1, ValueLow
  <1> QED
    BY <1>3, <1>4, <1>5, <1>6, <1>7
-----------------------------------------------------------------------------
(* operator< *)

\* A set of numbers up to n has a largest one.
LEMMA LargestOf ==
  ASSUME NEW n \in Nat, NEW T, T \subseteq 1 .. n, T # {}
  PROVE  \E u0 \in T : \A w0 \in T : w0 <= u0
  <1>1. PICK U : U = {n - u0 : u0 \in T}
    OBVIOUS
  <1>2. \A u0 \in T : u0 \in 1 .. n /\ n - u0 \in U /\ n - u0 \in Nat
    BY <1>1
  <1>3. U \subseteq Nat /\ U # {}
    BY <1>1, <1>2
  <1>4. PICK u \in U : \A w \in U : u <= w
    BY <1>3, SmallestOf
  <1>5. PICK u0 \in T : u = n - u0
    BY <1>1
  <1>6. ASSUME NEW w0 \in T PROVE w0 <= u0
    <2>1. n - u0 <= n - w0
      BY <1>2, <1>4, <1>5
    <2> QED
      BY <1>2, <2>1
  <1> QED
    BY <1>6

\* The highest limb that differs decides.
LEMMA HighestLimb ==
  ASSUME NEW a \in Seq(Limb), NEW b \in Seq(Limb), NEW n \in Nat, NEW k \in Nat, k < n,
         At(a, k + 1) < At(b, k + 1), \A j \in k + 2 .. n : At(a, j) = At(b, j)
  PROVE  Low(a)[n] < Low(b)[n]
  <1>0. a \in Seq(Nat) /\ b \in Seq(Nat)
    BY Digits
  <1>1. Low(a)[k + 1] < Low(b)[k + 1]
    <2>1. PICK p \in Nat, l \in Nat, m \in Nat, c \in Nat, d \in Nat :
            /\ p = Pow[k] /\ l = Low(a)[k] /\ m = Low(b)[k]
            /\ c = At(a, k + 1) /\ d = At(b, k + 1)
      BY <1>0, Powers, Lows, Limbs
    <2>2. l < p /\ c < d
      BY <2>1, Bounded
    <2>3. Low(a)[k + 1] = l + c * p /\ Low(b)[k + 1] = m + d * p
      <3>1. Low(a)[k + 1] = Low(a)[k] + At(a, k + 1) * Pow[k]
        BY <1>0, Lows
      <3>2. Low(b)[k + 1] = Low(b)[k] + At(b, k + 1) * Pow[k]
        BY <1>0, Lows
      <3> QED
        BY <2>1, <3>1, <3>2
    <2>4. PICK e \in Nat : d = c + 1 + e
      <3>1. d - (c + 1) \in Nat /\ d = c + 1 + (d - (c + 1))
        BY <2>2
      <3> QED
        BY <3>1
    <2>5. (c + 1 + e) * p = c * p + p + e * p /\ c * p \in Nat /\ e * p \in Nat
      OBVIOUS
    <2>6. d * p = c * p + p + e * p
      BY <2>4, <2>5
    <2>7. l + c * p < m + d * p
      BY <2>2, <2>5, <2>6
    <2> QED
      BY <2>3, <2>7
  <1> DEFINE T == {i \in Nat : k + 1 + i <= n => Low(a)[k + 1 + i] < Low(b)[k + 1 + i]}
  <1>2. 0 \in T
    <2>1. k + 1 + 0 = k + 1
      OBVIOUS
    <2> QED
      BY <1>1, <2>1
  <1>3. ASSUME NEW i \in Nat, i \in T PROVE i + 1 \in T
    <2> SUFFICES ASSUME k + 1 + (i + 1) <= n
                 PROVE  Low(a)[k + 1 + (i + 1)] < Low(b)[k + 1 + (i + 1)]
      OBVIOUS
    <2>1. PICK j \in Nat : j = k + 1 + i /\ k + 1 + (i + 1) = j + 1
      OBVIOUS
    <2>2. j + 1 \in k + 2 .. n /\ k + 1 + i <= n
      BY <2>1
    <2>3. PICK e \in Nat, l \in Nat, m \in Nat :
            e = At(a, j + 1) * Pow[j] /\ l = Low(a)[j] /\ m = Low(b)[j]
      <3>1. PICK d \in Nat, p \in Nat : d = At(a, j + 1) /\ p = Pow[j]
        BY <1>0, Powers, Limbs
      <3>2. d * p \in Nat
        OBVIOUS
      <3> QED
        BY <1>0, <3>1, <3>2, Lows
    <2>4. Low(a)[j + 1] = l + e
      BY <1>0, <2>3, Lows
    <2>5. Low(b)[j + 1] = m + e
      <3>1. Low(b)[j + 1] = Low(b)[j] + At(b, j + 1) * Pow[j]
        BY <1>0, Lows
      <3>2. At(b, j + 1) = At(a, j + 1)
        BY <2>2
      <3> QED
        BY <2>3, <3>1, <3>2
    <2>6. l < m
      BY <1>3, <2>1, <2>2, <2>3
    <2>7. l + e < m + e
      BY <2>6
    <2> QED
      BY <2>1, <2>4, <2>5, <2>7
  <1> HIDE DEF T
  <1>4. n - (k + 1) \in Nat /\ k + 1 + (n - (k + 1)) = n /\ n <= n
    OBVIOUS
  <1>5. n - (k + 1) \in T
    BY <1>2, <1>3, <1>4, Induction
  <1> QED
    BY <1>4, <1>5 DEF T

\* The highest limb of a is not zero (if it has any).
Trimmed(a) == a # <<>> => At(a, Len(a)) # 0

\* A number with fewer limbs is less, if the other has no leading zero.
LEMMA ShorterIsLess ==
  ASSUME NEW a \in Seq(Limb), NEW b \in Seq(Limb), Len(a) < Len(b), At(b, Len(b)) # 0
  PROVE  Value(a) < Value(b)
  <1>1. a \in Seq(Nat) /\ b \in Seq(Nat)
    BY Digits
  <1>2. PICK m \in Nat, n \in Nat : m = Len(a) /\ n = Len(b) /\ m < n
    BY Digits
  <1>3. PICK k \in Nat : n = k + 1 /\ m <= k
    <2>1. n - 1 \in Nat /\ n = (n - 1) + 1 /\ m <= n - 1
      BY <1>2
    <2> QED
      BY <2>1
  <1>4. Value(a) \in Nat /\ Value(a) < Pow[m]
    BY <1>1, <1>2, ValueLow, Bounded
  <1>5. Pow[m] <= Pow[k]
    BY <1>3, PowGrows
  <1>6. Pow[k] <= Value(b)
    BY <1>1, <1>2, <1>3, TopLimb
  <1>7. Value(b) \in Nat /\ Pow[m] \in Nat /\ Pow[k] \in Nat
    BY <1>1, ValueLow, Powers
  <1> QED
    BY <1>4, <1>5, <1>6, <1>7

\* Two numbers with as many limbs.
LEMMA SameLength ==
  ASSUME NEW a \in Seq(Limb), NEW b \in Seq(Limb), Len(a) = Len(b)
  PROVE  /\ Less(a, b) => Value(a) < Value(b)
         /\ ~Less(a, b) /\ ~Less(b, a) => a = b
  <1>0. a \in Seq(Nat) /\ b \in Seq(Nat)
    BY Digits
  <1>1. PICK n \in Nat : /\ n = Len(a) /\ n = Len(b)
                         /\ DOMAIN a = 1 .. n /\ DOMAIN b = 1 .. n
    BY Digits
  <1>2. \A k \in 1 .. n : At(a, k) = a[k] /\ At(b, k) = b[k]
    BY <1>1 DEF At
  <1>3. ASSUME Less(a, b) PROVE Value(a) < Value(b)
    <2>1. PICK k \in 1 .. n : a[k] < b[k] /\ \A j \in k + 1 .. n : a[j] = b[j]
      BY <1>1, <1>3 DEF Less
    <2>2. PICK i \in Nat : k = i + 1 /\ i < n
      <3>1. k - 1 \in Nat /\ k = (k - 1) + 1 /\ k - 1 < n
        OBVIOUS
      <3> QED
        BY <3>1
    <2>3. At(a, i + 1) < At(b, i + 1)
      BY <1>2, <2>1, <2>2
    <2>4. ASSUME NEW j \in i + 2 .. n PROVE At(a, j) = At(b, j)
      <3>1. j \in k + 1 .. n /\ j \in 1 .. n
        BY <2>2
      <3> QED
        BY <1>2, <2>1, <3>1
    <2>5. Low(a)[n] < Low(b)[n]
      BY <2>2, <2>3, <2>4, HighestLimb
    <2> QED
      BY <1>0, <1>1, <2>5, ValueLow
  <1>4. ASSUME ~Less(a, b), ~Less(b, a) PROVE a = b
    <2> SUFFICES ASSUME a # b PROVE FALSE
      OBVIOUS
    <2> DEFINE D == {k \in 1 .. n : a[k] # b[k]}
    <2>1. D # {}
      <3>1. a \in [1 .. n -> Limb] /\ b \in [1 .. n -> Limb]
        BY <1>1, LenProperties
      <3> QED
        BY <3>1
    <2>2. PICK k \in D : \A j \in D : j <= k
      <3>1. D \subseteq 1 .. n
        OBVIOUS
      <3> HIDE DEF D
      <3> QED
        BY <2>1, <3>1, LargestOf
    <2>3. k \in 1 .. n /\ a[k] # b[k]
      BY <2>2
    <2>4. ASSUME NEW j \in k + 1 .. n PROVE a[j] = b[j]
      <3>1. j \in 1 .. n /\ ~(j <= k)
        BY <2>3
      <3> QED
        BY <2>2, <3>1
    <2>5. a[k] \in Int /\ b[k] \in Int
      <3>1. a[k] \in Limb /\ b[k] \in Limb
        BY <1>1, <2>3, ElementOfSeq
      <3> QED
        BY <3>1, Base DEF Limb
    <2>6. a[k] < b[k] \/ b[k] < a[k]
      BY <2>3, <2>5
    <2>7. Less(a, b) \/ Less(b, a)
      BY <1>1, <2>3, <2>4, <2>6 DEF Less
    <2> QED
      BY <1>4, <2>7
  <1> QED
    BY <1>3, <1>4

\* operator< looks at the sizes first.
LEMMA LessIsShorter ==
  ASSUME NEW a \in Seq(Limb), NEW b \in Seq(Limb), Len(a) < Len(b)
  PROVE  Less(a, b) /\ ~Less(b, a)
  <1>1. PICK m \in Nat, n \in Nat : m = Len(a) /\ n = Len(b) /\ m < n
    BY Digits
  <1>2. ~(n < m) /\ n # m
    BY <1>1
  <1> QED
    BY <1>1, <1>2 DEF Less

\* Numbers compare as what they stand for, if the longer one has no leading zero.
LEMMA LessIs ==
  ASSUME NEW a \in Seq(Limb), NEW b \in Seq(Limb),
         Len(a) < Len(b) => At(b, Len(b)) # 0, Len(b) < Len(a) => At(a, Len(a)) # 0
  PROVE  /\ Less(a, b) <=> Value(a) < Value(b)
         /\ ~Less(a, b) /\ ~Less(b, a) => a = b
         /\ Value(a) \in Nat /\ Value(b) \in Nat
  <1>1. a \in Seq(Nat) /\ b \in Seq(Nat) /\ Len(a) \in Nat /\ Len(b) \in Nat
    BY Digits
  <1>2. PICK u \in Nat, v \in Nat : u = Value(a) /\ v = Value(b)
    BY <1>1, ValueLow
  <1>3. CASE Len(a) < Len(b)
    <2>1. u < v
      BY <1>2, <1>3, ShorterIsLess
    <2> QED
      BY <1>2, <1>3, <2>1, LessIsShorter
  <1>4. CASE Len(b) < Len(a)
    <2>1. v < u
      BY <1>2, <1>4, ShorterIsLess
    <2>2. ~(u < v)
      BY <2>1
    <2> QED
      BY <1>2, <1>4, <2>2, LessIsShorter
  <1>5. CASE Len(a) = Len(b)
    <2>1. Less(a, b) => u < v
      BY <1>2, <1>5, SameLength
    <2>2. Less(b, a) => v < u
      BY <1>2, <1>5, SameLength
    <2>3. ~Less(a, b) /\ ~Less(b, a) => a = b
      BY <1>5, SameLength
    <2>4. u < v => u # v /\ ~(v < u)
      OBVIOUS
    <2> QED
      BY <1>2, <2>1, <2>2, <2>3, <2>4
  <1>6. Len(a) < Len(b) \/ Len(b) < Len(a) \/ Len(a) = Len(b)
    BY <1>1
  <1> QED
    BY <1>3, <1>4, <1>5, <1>6
-----------------------------------------------------------------------------
(* Digits and carries *)

\* What \div and % are.
LEMMA Division ==
  ASSUME NEW s \in Nat, NEW d \in Nat, d > 0
  PROVE  /\ s \div d \in Nat /\ s % d \in Nat /\ s % d < d
         /\ s = (s \div d) * d + (s % d)
  OBVIOUS

\* A number below the divisor is its own remainder.
LEMMA OwnRemainder ==
  ASSUME NEW u \in Nat, NEW m \in Nat, u < m
  PROVE  u % m = u
  OBVIOUS

\* A number is a carry and a limb.
LEMMA InBase ==
  ASSUME NEW s \in Nat
  PROVE  /\ s \div BASE \in Nat /\ s % BASE \in Limb
         /\ s = (s \div BASE) * BASE + (s % BASE)
  <1>1. PICK d \in Nat : d = BASE /\ d > 0
    BY Base
  <1>2. /\ s \div d \in Nat /\ s % d \in Nat /\ s % d < d
        /\ s = (s \div d) * d + (s % d)
    BY <1>1, Division
  <1>3. s % d \in 0 .. d - 1
    BY <1>1, <1>2
  <1> QED
    BY <1>1, <1>2, <1>3 DEF Limb

\* What is less than the product gives a quotient that is less.
LEMMA QuotientBelow ==
  ASSUME NEW s \in Nat, NEW d \in Nat, d > 0, NEW q \in Nat, s < q * d
  PROVE  s \div d < q
  <1>1. PICK u \in Nat, r \in Nat : u = s \div d /\ s = u * d + r
    BY Division
  <1> SUFFICES ASSUME ~(u < q) PROVE FALSE
    BY <1>1
  <1>2. PICK e \in Nat : u = q + e
    <2>1. u - q \in Nat /\ u = q + (u - q)
      OBVIOUS
    <2> QED
      BY <2>1
  <1>3. u * d = q * d + e * d
    BY <1>2
  <1>4. q * d \in Nat /\ e * d \in Nat
    OBVIOUS
  <1> QED
    BY <1>1, <1>3, <1>4

\* c are the carries, and r the digits, of p plus d times b.
IsCarry(c, n, p, d, b) ==
  /\ c[0] = 0
  /\ \A k \in 1 .. n : c[k] = (At(p, k) + d * At(b, k) + c[k - 1]) \div BASE
IsDigits(r, c, n, p, d, b) ==
  \A k \in 1 .. n : At(r, k) = (At(p, k) + d * At(b, k) + c[k - 1]) % BASE

\* A carry is at most the factor.
LEMMA CarrySmall ==
  ASSUME NEW n \in Nat, NEW p \in Seq(Limb), NEW d \in Nat, NEW b \in Seq(Limb),
         NEW c, IsCarry(c, n, p, d, b)
  PROVE  \A k \in 0 .. n : c[k] \in Nat /\ c[k] <= d
  <1> DEFINE T == {k \in Nat : k <= n => c[k] \in Nat /\ c[k] <= d}
  <1>1. 0 \in T
    BY DEF IsCarry
  <1>2. ASSUME NEW k \in Nat, k \in T PROVE k + 1 \in T
    <2> SUFFICES ASSUME k + 1 <= n PROVE c[k + 1] \in Nat /\ c[k + 1] <= d
      OBVIOUS
    <2>1. k <= n /\ k + 1 \in 1 .. n /\ (k + 1) - 1 = k
      OBVIOUS
    <2>2. PICK u \in Nat : u = c[k] /\ u <= d
      BY <1>2, <2>1
    <2>3. PICK v \in Nat, w \in Nat :
            v = At(p, k + 1) /\ w = At(b, k + 1) /\ v + 1 <= BASE /\ w + 1 <= BASE
      <3>1. /\ At(p, k + 1) \in Limb /\ At(b, k + 1) \in Limb
            /\ At(p, k + 1) \in Nat /\ At(b, k + 1) \in Nat
        BY Digits
      <3>2. At(p, k + 1) + 1 <= BASE /\ At(b, k + 1) + 1 <= BASE
        BY <3>1, Base DEF Limb
      <3> QED
        BY <3>1, <3>2
    <2>4. c[k + 1] = (v + d * w + u) \div BASE
      BY <2>1, <2>2, <2>3 DEF IsCarry
    <2>5. v + d * w + u \in Nat
      OBVIOUS
    <2>6. v + d * w + u < (d + 1) * BASE
      <3>1. PICK e \in Nat : BASE = w + 1 + e
        <4>1. BASE - (w + 1) \in Nat /\ BASE = w + 1 + (BASE - (w + 1))
          BY <2>3, Base
        <4> QED
          BY <4>1
      <3>2. (d + 1) * BASE = d * w + d + d * e + BASE
        <4>1. (d + 1) * BASE = d * BASE + BASE
          BY Base
        <4>2. d * (w + 1 + e) = d * w + d + d * e
          OBVIOUS
        <4>3. d * BASE = d * w + d + d * e
          BY <3>1, <4>2
        <4> QED
          BY <4>1, <4>3
      <3>3. PICK f \in Nat, g \in Nat : f = d * e /\ g = d * w
        OBVIOUS
      <3>4. v + g + u < g + d + f + BASE
        <4>1. u <= d
          BY <2>2
        <4>2. v + 1 <= BASE
          BY <2>3
        <4>3. BASE \in Nat
          BY Base
        <4> QED
          BY <4>1, <4>2, <4>3
      <3> QED
        BY <3>2, <3>3, <3>4
    <2>7. (v + d * w + u) \div BASE \in Nat
      BY <2>5, Division, Base
    <2>8. (v + d * w + u) \div BASE < d + 1
      BY <2>5, <2>6, QuotientBelow, Base
    <2> QED
      BY <2>4, <2>7, <2>8
  <1> HIDE DEF T
  <1>3. \A k \in Nat : k \in T
    BY <1>1, <1>2, Induction
  <1>4. \A k \in 0 .. n : k \in Nat /\ k <= n
    OBVIOUS
  <1> QED
    BY <1>3, <1>4 DEF T

\* The digits and the last carry make up the sum.
LEMMA CarrySum ==
  ASSUME NEW n \in Nat, NEW p \in Seq(Limb), NEW d \in Nat, NEW b \in Seq(Limb),
         NEW c, IsCarry(c, n, p, d, b), NEW r \in Seq(Nat), IsDigits(r, c, n, p, d, b)
  PROVE  \A k \in 0 .. n : Low(p)[k] + d * Low(b)[k] = Low(r)[k] + c[k] * Pow[k]
  <1>0. p \in Seq(Nat) /\ b \in Seq(Nat)
    BY Digits
  <1> DEFINE T == {k \in Nat : k <= n =>
                     Low(p)[k] + d * Low(b)[k] = Low(r)[k] + c[k] * Pow[k]}
  <1>1. 0 \in T
    <2>1. 0 + d * 0 = 0 + 0 * 1
      OBVIOUS
    <2> QED
      BY <1>0, <2>1, Lows, Powers DEF IsCarry
  <1>2. ASSUME NEW k \in Nat, k \in T PROVE k + 1 \in T
    <2> SUFFICES ASSUME k + 1 <= n
                 PROVE  Low(p)[k + 1] + d * Low(b)[k + 1]
                          = Low(r)[k + 1] + c[k + 1] * Pow[k + 1]
      OBVIOUS
    <2>1. k <= n /\ k + 1 \in 1 .. n /\ (k + 1) - 1 = k /\ k \in 0 .. n
      OBVIOUS
    <2>2. PICK u \in Nat : u = c[k]
      BY <2>1, CarrySmall
    <2>3. PICK v \in Nat, w \in Nat : v = At(p, k + 1) /\ w = At(b, k + 1)
      BY Digits
    <2>4. c[k + 1] = (v + d * w + u) \div BASE /\ At(r, k + 1) = (v + d * w + u) % BASE
      BY <2>1, <2>2, <2>3 DEF IsCarry, IsDigits
    <2>5. PICK s \in Nat : s = v + d * w + u
      OBVIOUS
    <2>6. PICK q \in Nat, m \in Nat :
            q = c[k + 1] /\ m = At(r, k + 1) /\ s = q * BASE + m
      <3>1. /\ s \div BASE \in Nat /\ s % BASE \in Limb
            /\ s = (s \div BASE) * BASE + (s % BASE)
        BY InBase
      <3>2. c[k + 1] = s \div BASE /\ At(r, k + 1) = s % BASE
        BY <2>4, <2>5
      <3>3. Limb \subseteq Nat
        BY Base DEF Limb
      <3> QED
        BY <3>1, <3>2, <3>3
    <2>7. PICK t \in Nat : t = Pow[k]
      BY Powers
    <2>8. PICK lp \in Nat, lb \in Nat, lr \in Nat :
            lp = Low(p)[k] /\ lb = Low(b)[k] /\ lr = Low(r)[k]
      BY <1>0, Lows
    <2>9. lp + d * lb = lr + u * t
      BY <1>2, <2>1, <2>2, <2>7, <2>8
    <2>10. /\ Low(p)[k + 1] = lp + v * t /\ Low(b)[k + 1] = lb + w * t
           /\ Low(r)[k + 1] = lr + m * t /\ Pow[k + 1] = t * BASE
      <3>1. Low(p)[k + 1] = lp + v * t
        BY <1>0, <2>3, <2>7, <2>8, Lows
      <3>2. Low(b)[k + 1] = lb + w * t
        BY <1>0, <2>3, <2>7, <2>8, Lows
      <3>3. Low(r)[k + 1] = lr + m * t
        BY <2>6, <2>7, <2>8, Lows
      <3>4. Pow[k + 1] = t * BASE
        BY <2>7, Powers
      <3> QED
        BY <3>1, <3>2, <3>3, <3>4
    <2>11. (v + d * w + u) * t = (q * BASE + m) * t
      BY <2>5, <2>6
    <2>12. v * t + d * (w * t) + u * t = q * (t * BASE) + m * t
      <3>1. (v + d * w + u) * t = v * t + d * (w * t) + u * t
        OBVIOUS
      <3>2. (q * BASE + m) * t = q * (t * BASE) + m * t
        BY Base
      <3> QED
        BY <2>11, <3>1, <3>2
    <2>13. d * (lb + w * t) = d * lb + d * (w * t)
      OBVIOUS
    <2>14. (lp + v * t) + d * (lb + w * t) = (lr + m * t) + q * (t * BASE)
      <3>1. PICK x1 \in Nat, x2 \in Nat, x3 \in Nat, x4 \in Nat, x5 \in Nat, x6 \in Nat :
              /\ x1 = v * t /\ x2 = d * (w * t) /\ x3 = u * t
              /\ x4 = q * (t * BASE) /\ x5 = m * t /\ x6 = d * lb
        BY Base
      <3>2. x1 + x2 + x3 = x4 + x5 /\ lp + x6 = lr + x3
        BY <2>9, <2>12, <3>1
      <3>3. (lp + x1) + (x6 + x2) = (lr + x5) + x4
        BY <3>2
      <3> QED
        BY <2>13, <3>1, <3>3
    <2> QED
      BY <2>6, <2>10, <2>14
  <1> HIDE DEF T
  <1>3. \A k \in Nat : k \in T
    BY <1>1, <1>2, Induction
  <1>4. \A k \in 0 .. n : k \in Nat /\ k <= n
    OBVIOUS
  <1> QED
    BY <1>3, <1>4 DEF T

\* There are carries.
LEMMA CarryExists ==
  ASSUME NEW n \in Nat, NEW p \in Seq(Limb), NEW d \in Nat, NEW b \in Seq(Limb)
  PROVE  \E c : c \in [0 .. n -> Nat] /\ IsCarry(c, n, p, d, b)
  <1>1. PICK next : next = [k \in 1 .. n |->
                      [v \in Nat |-> (At(p, k) + d * At(b, k) + v) \div BASE]]
    OBVIOUS
  <1>2. ASSUME NEW k \in 1 .. n PROVE next[k] \in [Nat -> Nat]
    <2>1. PICK e \in Nat : e = At(p, k) + d * At(b, k)
      <3>1. PICK v \in Nat, w \in Nat : v = At(p, k) /\ w = At(b, k)
        BY Digits
      <3>2. v + d * w \in Nat
        OBVIOUS
      <3> QED
        BY <3>1, <3>2
    <2>2. \A v \in Nat : (e + v) \div BASE \in Nat
      <3>1. \A v \in Nat : e + v \in Nat
        OBVIOUS
      <3> QED
        BY <3>1, Division, Base
    <2>3. next[k] = [v \in Nat |-> (e + v) \div BASE]
      BY <1>1, <2>1
    <2> QED
      BY <2>2, <2>3
  <1>3. PICK c : UpTo(c, n, Nat, 0, next)
    BY <1>2, Defined
  <1>4. c \in [0 .. n -> Nat] /\ c[0] = 0 /\ \A k \in 1 .. n : c[k] = next[k][c[k - 1]]
    BY <1>3 DEF UpTo
  <1>5. ASSUME NEW k \in 1 .. n
        PROVE  c[k] = (At(p, k) + d * At(b, k) + c[k - 1]) \div BASE
    <2>1. k - 1 \in 0 .. n
      OBVIOUS
    <2>2. c[k - 1] \in Nat
      BY <1>4, <2>1
    <2> QED
      BY <1>1, <1>4, <2>2
  <1> QED
    BY <1>4, <1>5 DEF IsCarry

\* The sum r of p and d times b is exact when the last carry is put on top.
LEMMA Exact ==
  ASSUME NEW n \in Nat, NEW p \in Seq(Limb), NEW d \in Nat, NEW b \in Seq(Limb),
         Len(p) <= n, Len(b) <= n,
         NEW c, IsCarry(c, n, p, d, b), NEW r \in Seq(Nat), IsDigits(r, c, n, p, d, b)
  PROVE  Value(p) + d * Value(b) = Low(r)[n] + c[n] * Pow[n]
  <1>1. p \in Seq(Nat) /\ b \in Seq(Nat)
    BY Digits
  <1>2. Value(p) = Low(p)[n] /\ Value(b) = Low(b)[n]
    BY <1>1, ValueLow, Beyond
  <1>3. n \in 0 .. n
    OBVIOUS
  <1> QED
    BY <1>2, <1>3, CarrySum

\* The limbs of a function, and with one more on top.
LEMMA Row ==
  ASSUME NEW n \in Nat, NEW s \in [1 .. n -> Limb]
  PROVE  s \in Seq(Limb) /\ Len(s) = n /\ \A k \in 1 .. n : At(s, k) = s[k]
  <1>1. s \in Seq(Limb)
    BY SeqDef
  <1>2. DOMAIN s = 1 .. n /\ Len(s) \in Nat /\ DOMAIN s = 1 .. Len(s)
    BY <1>1, LenProperties
  <1>3. Len(s) = n
    BY <1>2
  <1> QED
    BY <1>1, <1>2, <1>3 DEF At

\* A limb behind the last one.
LEMMA OnTop ==
  ASSUME NEW s \in Seq(Limb), NEW e \in Limb
  PROVE  /\ s \o <<e>> \in Seq(Limb) /\ Len(s \o <<e>>) = Len(s) + 1
         /\ \A k \in 1 .. Len(s) : At(s \o <<e>>, k) = At(s, k)
         /\ At(s \o <<e>>, Len(s) + 1) = e
  <1>1. PICK n \in Nat : n = Len(s) /\ DOMAIN s = 1 .. n
    BY LenProperties
  <1>2. <<e>> \in Seq(Limb) /\ Len(<<e>>) = 1 /\ <<e>>[1] = e
    OBVIOUS
  <1>3. PICK r \in Seq(Limb) : r = s \o <<e>> /\ Len(r) = n + 1
    <2>1. s \o <<e>> \in Seq(Limb)
      BY <1>2, ConcatProperties
    <2>2. Len(s \o <<e>>) = Len(s) + 1
      BY <1>2, ConcatProperties
    <2> QED
      BY <1>1, <2>1, <2>2
  <1>4. DOMAIN r = 1 .. n + 1
    BY <1>3, LenProperties
  <1>5. ASSUME NEW k \in 1 .. n PROVE At(r, k) = At(s, k)
    <2>1. k \in 1 .. n + 1 /\ k <= n
      OBVIOUS
    <2>2. r[k] = s[k]
      BY <1>1, <1>2, <1>3, <2>1, ConcatProperties
    <2> QED
      BY <1>1, <1>4, <2>1, <2>2 DEF At
  <1>6. At(r, n + 1) = e
    <2>1. n + 1 \in 1 .. n + 1 /\ ~(n + 1 <= n) /\ (n + 1) - n = 1
      OBVIOUS
    <2>2. r[n + 1] = <<e>>[1]
      BY <1>1, <1>2, <1>3, <2>1, ConcatProperties
    <2> QED
      BY <1>2, <1>4, <2>1, <2>2 DEF At
  <1> QED
    BY <1>1, <1>3, <1>5, <1>6

\* Limb e put on top of the n limbs of s adds e times the power.
LEMMA ValueOnTop ==
  ASSUME NEW s \in Seq(Limb), NEW e \in Limb
  PROVE  Value(s \o <<e>>) = Value(s) + e * Pow[Len(s)]
  <1>1. PICK n \in Nat : n = Len(s)
    BY LenProperties
  <1>2. PICK r \in Seq(Limb) :
          /\ r = s \o <<e>> /\ Len(r) = n + 1 /\ At(r, n + 1) = e
          /\ \A k \in 1 .. n : At(r, k) = At(s, k)
    BY <1>1, OnTop
  <1>3. r \in Seq(Nat) /\ s \in Seq(Nat)
    BY Digits
  <1>4. Low(r)[n] = Low(s)[n]
    <2>1. n \in 0 .. n
      OBVIOUS
    <2> QED
      BY <1>2, <1>3, <2>1, SameLow
  <1>5. Low(r)[n + 1] = Low(r)[n] + At(r, n + 1) * Pow[n]
    BY <1>3, Lows
  <1>6. Value(r) = Low(r)[n + 1] /\ Value(s) = Low(s)[n]
    BY <1>1, <1>2, <1>3, ValueLow
  <1> QED
    BY <1>1, <1>2, <1>4, <1>5, <1>6
-----------------------------------------------------------------------------
(* operator+ *)

Size(a, b) == IF Len(a) > Len(b) THEN Len(a) ELSE Len(b)
IsPlusCarry(c, a, b) ==
  c = [k \in 0 .. Size(a, b) |->
         IF k = 0 THEN 0 ELSE (At(a, k) + At(b, k) + c[k - 1]) \div BASE]
PlusOf(c, a, b) ==
  [k \in 1 .. Size(a, b) |-> (At(a, k) + At(b, k) + c[k - 1]) % BASE]
    \o IF c[Size(a, b)] = 1 THEN <<1>> ELSE <<>>

\* The carries of Plus.
LEMMA PlusUnfold ==
  ASSUME NEW a, NEW b, NEW d, IsPlusCarry(d, a, b)
  PROVE  \E c : IsPlusCarry(c, a, b) /\ Plus(a, b) = PlusOf(c, a, b)
  <1> DEFINE c == CHOOSE c : IsPlusCarry(c, a, b)
  <1>1. IsPlusCarry(c, a, b)
    OBVIOUS
  <1>2. Plus(a, b) = PlusOf(c, a, b)
    BY DEF Plus, PlusOf, IsPlusCarry, Size
  <1> QED
    BY <1>1, <1>2

\* operator+: the sum, whatever the lengths and leading zeros of the two and the
\* carry at the end (bignum.cpp, 86-120).
THEOREM PlusRight ==
  ASSUME NEW a \in Seq(Limb), NEW b \in Seq(Limb)
  PROVE  Plus(a, b) \in Seq(Limb) /\ Value(Plus(a, b)) = Value(a) + Value(b)
  <1>1. PICK n \in Nat : n = Size(a, b) /\ Len(a) <= n /\ Len(b) <= n
    BY Digits DEF Size
  <1>2. \A k : At(a, k) \in Nat /\ At(b, k) \in Nat /\ 1 * At(b, k) = At(b, k)
    BY Digits
  <1>3. PICK c : IsPlusCarry(c, a, b) /\ Plus(a, b) = PlusOf(c, a, b)
    <2>1. PICK d : d \in [0 .. n -> Nat] /\ IsCarry(d, n, a, 1, b)
      BY CarryExists
    <2>2. d = [k \in 0 .. n |->
                 IF k = 0 THEN 0 ELSE (At(a, k) + At(b, k) + d[k - 1]) \div BASE]
      <3>1. \A k \in 0 .. n : k # 0 => k \in 1 .. n
        OBVIOUS
      <3>2. d = [k \in 0 .. n |-> d[k]] /\ d[0] = 0
        BY <2>1 DEF IsCarry
      <3>3. \A k \in 1 .. n : d[k] = (At(a, k) + At(b, k) + d[k - 1]) \div BASE
        BY <1>2, <2>1 DEF IsCarry
      <3> QED
        BY <3>1, <3>2, <3>3
    <2>3. IsPlusCarry(d, a, b)
      BY <1>1, <2>2 DEF IsPlusCarry
    <2> QED
      BY <2>3, PlusUnfold
  <1>4. IsCarry(c, n, a, 1, b)
    <2>1. c = [k \in 0 .. n |->
                 IF k = 0 THEN 0 ELSE (At(a, k) + At(b, k) + c[k - 1]) \div BASE]
      BY <1>1, <1>3 DEF IsPlusCarry
    <2>2. 0 \in 0 .. n /\ \A k \in 1 .. n : k \in 0 .. n /\ k # 0
      OBVIOUS
    <2>3. c[0] = 0 /\ \A k \in 1 .. n : c[k] = (At(a, k) + At(b, k) + c[k - 1]) \div BASE
      BY <2>1, <2>2
    <2> QED
      BY <1>2, <2>3 DEF IsCarry
  <1>5. \A k \in 0 .. n : c[k] \in Nat /\ c[k] <= 1
    BY <1>4, CarrySmall
  <1>6. PICK s : s = [k \in 1 .. n |-> (At(a, k) + At(b, k) + c[k - 1]) % BASE]
    OBVIOUS
  <1>7. s \in [1 .. n -> Limb]
    <2>1. ASSUME NEW k \in 1 .. n PROVE s[k] \in Limb
      <3>1. c[k - 1] \in Nat
        BY <1>5
      <3>2. At(a, k) + At(b, k) + c[k - 1] \in Nat
        BY <1>2, <3>1
      <3> QED
        BY <1>6, <3>2, InBase
    <2> QED
      BY <1>6, <2>1
  <1>8. s \in Seq(Limb) /\ Len(s) = n /\ \A k \in 1 .. n : At(s, k) = s[k]
    BY <1>7, Row
  <1>9. IsDigits(s, c, n, a, 1, b)
    BY <1>2, <1>6, <1>8 DEF IsDigits
  <1>10. s \in Seq(Nat)
    BY <1>8, Digits
  <1>11. PICK u \in Nat, v \in Nat, w \in Nat, p \in Nat :
           u = Value(a) /\ v = Value(b) /\ w = Value(s) /\ p = Pow[n]
    BY <1>10, Digits, ValueLow, Powers
  <1>12. Value(s) = Low(s)[n]
    BY <1>8, <1>10, ValueLow
  <1>13. u + 1 * v = w + c[n] * p
    BY <1>1, <1>4, <1>9, <1>10, <1>11, <1>12, Exact
  <1>14. Plus(a, b) = s \o IF c[n] = 1 THEN <<1>> ELSE <<>>
    BY <1>1, <1>3, <1>6 DEF PlusOf
  <1>15. c[n] = 1 \/ c[n] = 0
    BY <1>5
  <1>16. CASE c[n] = 1
    <2>1. Plus(a, b) = s \o <<1>>
      BY <1>14, <1>16
    <2>2. 1 \in Limb
      BY Base DEF Limb
    <2>3. s \o <<1>> \in Seq(Limb) /\ Value(s \o <<1>>) = w + 1 * p
      BY <1>8, <1>11, <2>2, OnTop, ValueOnTop
    <2>4. u + 1 * v = w + 1 * p
      BY <1>13, <1>16
    <2>5. u + v = w + 1 * p
      BY <2>4
    <2> QED
      BY <1>11, <2>1, <2>3, <2>5
  <1>17. CASE c[n] = 0
    <2>1. Plus(a, b) = s
      BY <1>8, <1>14, <1>17, ConcatEmptySeq
    <2>2. u + 1 * v = w + 0 * p
      BY <1>13, <1>17
    <2>3. u + v = w
      BY <2>2
    <2> QED
      BY <1>8, <1>11, <2>1, <2>3
  <1> QED
    BY <1>15, <1>16, <1>17
-----------------------------------------------------------------------------
(* purge *)

\* The same limbs, zeros added or not, stand for the same.
LEMMA SameValue ==
  ASSUME NEW a \in Seq(Limb), NEW b \in Seq(Limb), NEW n \in Nat,
         Len(a) <= n, Len(b) <= n, \A k \in 1 .. n : At(a, k) = At(b, k)
  PROVE  Value(a) = Value(b)
  <1>1. a \in Seq(Nat) /\ b \in Seq(Nat)
    BY Digits
  <1>2. Value(a) = Low(a)[n] /\ Value(b) = Low(b)[n]
    BY <1>1, ValueLow, Beyond
  <1>3. n \in 0 .. n
    OBVIOUS
  <1> QED
    BY <1>1, <1>2, <1>3, SameLow

\* Of the two zeros, that without a limb,
LEMMA Empty == <<>> \in Seq(Limb) /\ Len(<<>>) = 0 /\ (\A k : At(<<>>, k) = 0)
               /\ Value(<<>>) = 0
  <1>1. <<>> \in Seq(Limb) /\ Len(<<>>) = 0
    OBVIOUS
  <1>2. \A k : At(<<>>, k) = 0
    BY DEF At
  <1>3. <<>> \in Seq(Nat)
    OBVIOUS
  <1> QED
    BY <1>1, <1>2, <1>3, ValueLow, Lows

\* and that with one.
LEMMA Zero == /\ BZero \in Seq(Limb) /\ Len(BZero) = 1 /\ BZero # <<>>
              /\ Value(BZero) = 0 /\ At(BZero, 1) = 0
  <1>1. 0 \in Limb
    BY Base DEF Limb
  <1>2. /\ <<0>> \in Seq(Limb) /\ Len(<<0>>) = 1 /\ <<0>>[1] = 0 /\ <<0>> # <<>>
        /\ DOMAIN <<0>> = 1 .. 1
    BY <1>1
  <1>3. At(<<0>>, 1) = 0
    BY <1>2 DEF At
  <1>4. Value(<<0>>) = Value(<<>>)
    <2>1. \A k \in 1 .. 1 : At(<<0>>, k) = At(<<>>, k)
      BY <1>3, Empty
    <2>2. Len(<<0>>) <= 1 /\ Len(<<>>) <= 1
      BY <1>2, Empty
    <2> QED
      BY <1>2, <2>1, <2>2, Empty, SameValue
  <1> QED
    BY <1>2, <1>3, <1>4, Empty DEF BZero

\* The lowest m limbs.
LEMMA Lowest ==
  ASSUME NEW s \in Seq(Limb), NEW m \in 0 .. Len(s)
  PROVE  /\ SubSeq(s, 1, m) \in Seq(Limb) /\ Len(SubSeq(s, 1, m)) = m
         /\ \A k \in 1 .. m : At(SubSeq(s, 1, m), k) = At(s, k)
         /\ \A k \in Nat : k > m => At(SubSeq(s, 1, m), k) = 0
  <1>1. PICK n \in Nat : n = Len(s) /\ DOMAIN s = 1 .. n
    BY LenProperties
  <1>2. m \in 0 .. n
    BY <1>1
  <1>3. \A k \in 1 .. m : k \in 1 .. n
    BY <1>2
  <1>4. SubSeq(s, 1, m) = [k \in 1 .. m |-> s[k]]
    <2>1. SubSeq(s, 1, m) = [k \in 1 .. ((m - 1) + 1) |-> s[(1 + k) - 1]]
      OBVIOUS
    <2>2. (m - 1) + 1 = m /\ \A k \in 1 .. m : (1 + k) - 1 = k
      BY <1>2
    <2> QED
      BY <2>1, <2>2
  <1>5. PICK t : t = SubSeq(s, 1, m)
    OBVIOUS
  <1>6. t \in [1 .. m -> Limb]
    <2>1. \A k \in 1 .. m : s[k] \in Limb
      BY <1>1, <1>3, ElementOfSeq
    <2> QED
      BY <1>4, <1>5, <2>1
  <1>7. m \in Nat
    BY <1>2
  <1>8. t \in Seq(Limb) /\ Len(t) = m /\ \A k \in 1 .. m : At(t, k) = t[k]
    BY <1>6, <1>7, Row
  <1>9. \A k \in 1 .. m : t[k] = s[k] /\ At(s, k) = s[k]
    BY <1>1, <1>3, <1>4, <1>5 DEF At
  <1>10. \A k \in Nat : k > m => At(t, k) = 0
    <2>1. DOMAIN t = 1 .. m
      BY <1>6
    <2>2. \A k \in Nat : k > m => k \notin 1 .. m
      BY <1>7
    <2> QED
      BY <2>1, <2>2 DEF At
  <1> QED
    BY <1>5, <1>8, <1>9, <1>10

\* purge keeps what the number stands for and leaves no leading zero.
LEMMA PurgeRight ==
  ASSUME NEW s \in Seq(Limb)
  PROVE  /\ Purge(s) \in Seq(Limb) /\ Len(Purge(s)) <= Len(s)
         /\ Value(Purge(s)) = Value(s) /\ Trimmed(Purge(s))
  <1>1. PICK n \in Nat : n = Len(s) /\ DOMAIN s = 1 .. n
    BY LenProperties
  <1>2. PICK used : used = {k \in 1 .. n : s[k] # 0}
    OBVIOUS
  <1>3. Purge(s) = IF used = {} THEN <<>>
                   ELSE SubSeq(s, 1, CHOOSE k \in used : \A j \in used : j <= k)
    BY <1>1, <1>2 DEF Purge
  <1>4. \A k \in 1 .. n : k \notin used => At(s, k) = 0
    BY <1>1, <1>2 DEF At
  <1>5. CASE used = {}
    <2>1. Purge(s) = <<>>
      BY <1>3, <1>5
    <2>2. \A k \in 1 .. n : At(s, k) = At(<<>>, k)
      BY <1>4, <1>5, Empty
    <2>3. Value(s) = Value(<<>>)
      <3>1. Len(s) <= n /\ Len(<<>>) <= n
        BY <1>1, Empty
      <3> QED
        BY <2>2, <3>1, Empty, SameValue
    <2> QED
      BY <1>1, <2>1, <2>3, Empty DEF Trimmed
  <1>6. CASE used # {}
    <2>1. PICK m \in used : /\ m = (CHOOSE k \in used : \A j \in used : j <= k)
                            /\ \A j \in used : j <= m
      <3>1. used \subseteq 1 .. n
        BY <1>2
      <3>2. \E k \in used : \A j \in used : j <= k
        BY <1>6, <3>1, LargestOf
      <3> QED
        BY <3>2
    <2>2. PICK t : t = SubSeq(s, 1, m) /\ t = Purge(s)
      BY <1>3, <1>6, <2>1
    <2>3. m \in 1 .. n /\ s[m] # 0
      BY <1>2
    <2>4. m \in 0 .. Len(s) /\ m \in Nat
      BY <1>1, <2>3
    <2>5. /\ t \in Seq(Limb) /\ Len(t) = m
          /\ \A k \in 1 .. m : At(t, k) = At(s, k)
          /\ \A k \in Nat : k > m => At(t, k) = 0
      BY <2>2, <2>4, Lowest
    <2>6. ASSUME NEW k \in 1 .. n PROVE At(t, k) = At(s, k)
      <3>1. CASE k \in 1 .. m
        BY <2>5, <3>1
      <3>2. CASE k > m
        <4>1. k \in Nat /\ ~(k <= m)
          BY <2>4, <3>2
        <4>2. k \notin used
          BY <2>1, <4>1
        <4> QED
          BY <1>4, <2>5, <3>2, <4>1, <4>2
      <3> QED
        BY <2>4, <3>1, <3>2
    <2>7. Value(t) = Value(s)
      <3>1. Len(t) <= n /\ Len(s) <= n
        BY <1>1, <2>3, <2>5
      <3> QED
        BY <2>5, <2>6, <3>1, SameValue
    <2>8. At(t, m) # 0
      <3>1. At(s, m) = s[m]
        BY <1>1, <2>3 DEF At
      <3> QED
        BY <2>3, <2>6, <3>1
    <2>9. Trimmed(t)
      BY <2>5, <2>8 DEF Trimmed
    <2>10. Len(t) <= n
      BY <2>3, <2>5
    <2> QED
      BY <1>1, <2>2, <2>5, <2>7, <2>9, <2>10
  <1> QED
    BY <1>5, <1>6
-----------------------------------------------------------------------------
(* operator- *)

IsBorrow(c, a, b) ==
  c = [k \in 0 .. Len(a) |-> IF k > 0 /\ a[k] < At(b, k) + c[k - 1] THEN 1 ELSE 0]
LimbsLeft(c, a, b) ==
  [k \in 1 .. Len(a) |-> (BASE + a[k] - At(b, k) - c[k - 1]) % BASE]

\* The borrows of Difference,
LEMMA DifferenceUnfold ==
  ASSUME NEW a, NEW b, NEW d, IsBorrow(d, a, b)
  PROVE  \E c : IsBorrow(c, a, b) /\ Difference(a, b) = Purge(LimbsLeft(c, a, b))
  <1> DEFINE c == CHOOSE c : IsBorrow(c, a, b)
  <1>1. IsBorrow(c, a, b)
    OBVIOUS
  <1>2. Difference(a, b) = Purge(LimbsLeft(c, a, b))
    BY DEF Difference, LimbsLeft, IsBorrow
  <1> QED
    BY <1>1, <1>2

\* which exist.
LEMMA BorrowExists ==
  ASSUME NEW a \in Seq(Limb), NEW b \in Seq(Limb)
  PROVE  \E c : IsBorrow(c, a, b)
  <1>1. PICK n \in Nat : n = Len(a)
    BY LenProperties
  <1>2. PICK next : next = [k \in 1 .. n |-> [v \in {0, 1} |->
                              IF a[k] < At(b, k) + v THEN 1 ELSE 0]]
    OBVIOUS
  <1>3. \A k \in 1 .. n : next[k] \in [{0, 1} -> {0, 1}]
    BY <1>2
  <1>4. PICK c : UpTo(c, n, {0, 1}, 0, next)
    BY <1>3, Defined
  <1>5. c \in [0 .. n -> {0, 1}] /\ c[0] = 0 /\ \A k \in 1 .. n : c[k] = next[k][c[k - 1]]
    BY <1>4 DEF UpTo
  <1>6. ASSUME NEW k \in 0 .. n
        PROVE  c[k] = IF k > 0 /\ a[k] < At(b, k) + c[k - 1] THEN 1 ELSE 0
    <2>1. CASE k = 0
      BY <1>5, <2>1
    <2>2. CASE k # 0
      <3>1. k \in 1 .. n /\ k > 0 /\ k - 1 \in 0 .. n
        BY <2>2
      <3>2. c[k - 1] \in {0, 1}
        BY <1>5, <3>1
      <3> QED
        BY <1>2, <1>5, <3>1, <3>2
    <2> QED
      BY <2>1, <2>2
  <1>7. c = [k \in 0 .. n |-> IF k > 0 /\ a[k] < At(b, k) + c[k - 1] THEN 1 ELSE 0]
    BY <1>5, <1>6
  <1> QED
    BY <1>1, <1>7 DEF IsBorrow

\* One limb, with and without borrowing.
LEMMA OneBorrow ==
  ASSUME NEW v \in Limb, NEW w \in Limb, NEW u \in {0, 1}
  PROVE  /\ (BASE + v - w - u) % BASE \in Limb
         /\ v + (IF v < w + u THEN 1 ELSE 0) * BASE
              = w + u + ((BASE + v - w - u) % BASE)
  <1>1. v \in Nat /\ w \in Nat /\ v < BASE /\ w < BASE /\ BASE + v - w - u \in Nat
    BY Base DEF Limb
  <1>2. PICK s \in Nat : s = BASE + v - w - u
    BY <1>1
  <1>3. PICK q \in Nat, m \in Nat : /\ m = s % BASE /\ m \in Limb /\ s = q * BASE + m
                                    /\ m < BASE
    <2>1. \A m \in Limb : m \in Nat /\ m < BASE
      BY Base DEF Limb
    <2> QED
      BY <2>1, InBase
  <1>4. s < 2 * BASE
    BY <1>1, <1>2, Base
  <1>5. q = 0 \/ q = 1
    <2> SUFFICES ASSUME q >= 2 PROVE FALSE
      OBVIOUS
    <2>1. PICK e \in Nat : q = 2 + e
      <3>1. q - 2 \in Nat /\ q = 2 + (q - 2)
        OBVIOUS
      <3> QED
        BY <3>1
    <2>2. q * BASE = 2 * BASE + e * BASE /\ e * BASE \in Nat
      BY <2>1, Base
    <2> QED
      BY <1>3, <1>4, <2>2, Base
  <1>6. CASE q = 0
    <2>1. s = m
      BY <1>3, <1>6, Base
    <2>2. v < w + u
      BY <1>1, <1>2, <1>3, <2>1, Base
    <2>3. v + 1 * BASE = w + u + m
      BY <1>1, <1>2, <2>1, Base
    <2> QED
      BY <1>2, <1>3, <2>2, <2>3
  <1>7. CASE q = 1
    <2>1. s = BASE + m
      BY <1>3, <1>7, Base
    <2>2. ~(v < w + u)
      BY <1>1, <1>2, <1>3, <2>1, Base
    <2>3. v + 0 * BASE = w + u + m
      BY <1>1, <1>2, <2>1, Base
    <2> QED
      BY <1>2, <1>3, <2>2, <2>3
  <1> QED
    BY <1>5, <1>6, <1>7

\* The limbs of r are those the borrows c leave.
AreLeft(r, c, n, a, b) ==
  \A k \in 1 .. n : At(r, k) = (BASE + a[k] - At(b, k) - c[k - 1]) % BASE

\* Up to each limb, what is left and what was borrowed.
LEMMA BorrowSum ==
  ASSUME NEW a \in Seq(Limb), NEW b \in Seq(Limb), NEW n \in Nat, n = Len(a),
         NEW c, IsBorrow(c, a, b), NEW r \in Seq(Nat), AreLeft(r, c, n, a, b)
  PROVE  \A k \in 0 .. n : /\ c[k] \in {0, 1}
                           /\ Low(a)[k] + c[k] * Pow[k] = Low(b)[k] + Low(r)[k]
  <1>0. a \in Seq(Nat) /\ b \in Seq(Nat) /\ DOMAIN a = 1 .. n
    BY Digits
  <1>1. \A k \in 0 .. n :
          c[k] = IF k > 0 /\ a[k] < At(b, k) + c[k - 1] THEN 1 ELSE 0
    BY DEF IsBorrow
  <1> DEFINE T == {k \in Nat : k <= n =>
                     /\ c[k] \in {0, 1}
                     /\ Low(a)[k] + c[k] * Pow[k] = Low(b)[k] + Low(r)[k]}
  <1>2. 0 \in T
    <2>1. c[0] = 0
      BY <1>1
    <2>2. 0 + 0 * 1 = 0 + 0
      OBVIOUS
    <2> QED
      BY <1>0, <2>1, <2>2, Lows, Powers
  <1>3. ASSUME NEW k \in Nat, k \in T PROVE k + 1 \in T
    <2> SUFFICES ASSUME k + 1 <= n
                 PROVE  /\ c[k + 1] \in {0, 1}
                        /\ Low(a)[k + 1] + c[k + 1] * Pow[k + 1]
                             = Low(b)[k + 1] + Low(r)[k + 1]
      OBVIOUS
    <2>1. k <= n /\ k + 1 \in 1 .. n /\ (k + 1) - 1 = k /\ k + 1 \in 0 .. n /\ k + 1 > 0
      OBVIOUS
    <2>2. PICK u \in {0, 1} : u = c[k]
      BY <1>3, <2>1
    <2>3. PICK v \in Limb, w \in Limb : v = At(a, k + 1) /\ w = At(b, k + 1) /\ v = a[k + 1]
      <3>1. At(a, k + 1) = a[k + 1]
        BY <1>0, <2>1 DEF At
      <3> QED
        BY <3>1, Digits
    <2>4. PICK e \in {0, 1} : e = c[k + 1] /\ e = IF v < w + u THEN 1 ELSE 0
      <3>1. c[k + 1] = IF v < w + u THEN 1 ELSE 0
        BY <1>1, <2>1, <2>2, <2>3
      <3> QED
        BY <3>1
    <2>5. PICK m \in Limb : m = At(r, k + 1) /\ v + e * BASE = w + u + m
      <3>1. At(r, k + 1) = (BASE + v - w - u) % BASE
        BY <2>1, <2>2, <2>3 DEF AreLeft
      <3>2. /\ (BASE + v - w - u) % BASE \in Limb
            /\ v + e * BASE = w + u + ((BASE + v - w - u) % BASE)
        <4>1. /\ (BASE + v - w - u) % BASE \in Limb
              /\ v + (IF v < w + u THEN 1 ELSE 0) * BASE
                   = w + u + ((BASE + v - w - u) % BASE)
          BY OneBorrow
        <4>2. CASE v < w + u
          <5>1. e = 1 /\ (IF v < w + u THEN 1 ELSE 0) = 1
            BY <2>4, <4>2
          <5> QED
            BY <4>1, <5>1
        <4>3. CASE ~(v < w + u)
          <5>1. e = 0 /\ (IF v < w + u THEN 1 ELSE 0) = 0
            BY <2>4, <4>3
          <5> QED
            BY <4>1, <5>1
        <4> QED
          BY <4>2, <4>3
      <3> QED
        BY <3>1, <3>2
    <2>6. v \in Nat /\ w \in Nat /\ m \in Nat /\ u \in Nat /\ e \in Nat
      BY Base DEF Limb
    <2>7. PICK t \in Nat : t = Pow[k] /\ Pow[k + 1] = t * BASE
      BY Powers
    <2>8. PICK la \in Nat, lb \in Nat, lr \in Nat :
            la = Low(a)[k] /\ lb = Low(b)[k] /\ lr = Low(r)[k]
      BY <1>0, Lows
    <2>9. /\ Low(a)[k + 1] = la + v * t /\ Low(b)[k + 1] = lb + w * t
          /\ Low(r)[k + 1] = lr + m * t
      <3>1. Low(a)[k + 1] = la + v * t
        BY <1>0, <2>3, <2>7, <2>8, Lows
      <3>2. Low(b)[k + 1] = lb + w * t
        BY <1>0, <2>3, <2>7, <2>8, Lows
      <3>3. Low(r)[k + 1] = lr + m * t
        BY <2>5, <2>7, <2>8, Lows
      <3> QED
        BY <3>1, <3>2, <3>3
    <2>10. la + u * t = lb + lr
      BY <1>3, <2>1, <2>2, <2>7, <2>8
    <2>11. v * t + e * (t * BASE) = w * t + u * t + m * t
      <3>1. (v + e * BASE) * t = (w + u + m) * t
        BY <2>5
      <3>2. (v + e * BASE) * t = v * t + e * (t * BASE)
        BY <2>6, Base
      <3>3. (w + u + m) * t = w * t + u * t + m * t
        BY <2>6
      <3> QED
        BY <3>1, <3>2, <3>3
    <2>12. (la + v * t) + e * (t * BASE) = (lb + w * t) + (lr + m * t)
      <3>1. PICK x1 \in Nat, x2 \in Nat, x3 \in Nat, x4 \in Nat, x5 \in Nat :
              /\ x1 = v * t /\ x2 = e * (t * BASE) /\ x3 = w * t
              /\ x4 = u * t /\ x5 = m * t
        BY <2>6, Base
      <3>2. x1 + x2 = x3 + x4 + x5 /\ la + x4 = lb + lr
        BY <2>10, <2>11, <3>1
      <3>3. (la + x1) + x2 = (lb + x3) + (lr + x5)
        BY <3>2
      <3> QED
        BY <3>1, <3>3
    <2> QED
      BY <2>4, <2>7, <2>9, <2>12
  <1> HIDE DEF T
  <1>4. \A k \in Nat : k \in T
    BY <1>2, <1>3, Induction
  <1>5. \A k \in 0 .. n : k \in Nat /\ k <= n
    OBVIOUS
  <1> QED
    BY <1>4, <1>5 DEF T

\* What is left are limbs, whatever is taken away from what.
LEMMA LimbsLeftIn ==
  ASSUME NEW a \in Seq(Limb), NEW b \in Seq(Limb), NEW c, IsBorrow(c, a, b)
  PROVE  LimbsLeft(c, a, b) \in [1 .. Len(a) -> Limb]
  <1>1. PICK n \in Nat : n = Len(a) /\ DOMAIN a = 1 .. n
    BY Digits
  <1>2. ASSUME NEW k \in 1 .. n PROVE (BASE + a[k] - At(b, k) - c[k - 1]) % BASE \in Limb
    <2>1. k - 1 \in 0 .. n
      OBVIOUS
    <2>2. c[k - 1] \in {0, 1}
      BY <1>1, <2>1 DEF IsBorrow
    <2>3. a[k] \in Limb /\ At(b, k) \in Limb
      BY <1>1, Digits, ElementOfSeq
    <2> QED
      BY <2>2, <2>3, OneBorrow
  <1> QED
    BY <1>1, <1>2 DEF LimbsLeft

LEMMA DifferenceIn ==
  ASSUME NEW a \in Seq(Limb), NEW b \in Seq(Limb)
  PROVE  Difference(a, b) \in Seq(Limb)
  <1>1. PICK c : IsBorrow(c, a, b) /\ Difference(a, b) = Purge(LimbsLeft(c, a, b))
    BY BorrowExists, DifferenceUnfold
  <1>2. PICK n \in Nat : n = Len(a)
    BY Digits
  <1>3. LimbsLeft(c, a, b) \in Seq(Limb)
    BY <1>1, <1>2, LimbsLeftIn, Row
  <1> QED
    BY <1>1, <1>3, PurgeRight

\* The loop of both operator-: the difference, without leading zeros, if it is not
\* negative.  Nothing is borrowed at the end.
THEOREM DifferenceRight ==
  ASSUME NEW a \in Seq(Limb), NEW b \in Seq(Limb),
         Len(b) <= Len(a), Value(b) <= Value(a)
  PROVE  /\ Difference(a, b) \in Seq(Limb) /\ Len(Difference(a, b)) <= Len(a)
         /\ Value(Difference(a, b)) = Value(a) - Value(b) /\ Trimmed(Difference(a, b))
  <1>1. PICK n \in Nat : n = Len(a) /\ DOMAIN a = 1 .. n /\ Len(b) <= n
    BY Digits
  <1>2. PICK c : IsBorrow(c, a, b) /\ Difference(a, b) = Purge(LimbsLeft(c, a, b))
    BY BorrowExists, DifferenceUnfold
  <1>3. PICK s : s = LimbsLeft(c, a, b)
    OBVIOUS
  <1>4. s = [k \in 1 .. n |-> (BASE + a[k] - At(b, k) - c[k - 1]) % BASE]
    BY <1>1, <1>3 DEF LimbsLeft
  <1>5. s \in [1 .. n -> Limb]
    BY <1>1, <1>2, <1>3, LimbsLeftIn
  <1>6. s \in Seq(Limb) /\ Len(s) = n /\ \A k \in 1 .. n : At(s, k) = s[k]
    BY <1>5, Row
  <1>7. a \in Seq(Nat) /\ b \in Seq(Nat) /\ s \in Seq(Nat)
    BY <1>6, Digits
  <1>8. AreLeft(s, c, n, a, b)
    BY <1>4, <1>6 DEF AreLeft
  <1>9. n \in 0 .. n
    OBVIOUS
  <1>10. c[n] \in {0, 1} /\ Low(a)[n] + c[n] * Pow[n] = Low(b)[n] + Low(s)[n]
    <2>1. \A k \in 0 .. n : /\ c[k] \in {0, 1}
                             /\ Low(a)[k] + c[k] * Pow[k] = Low(b)[k] + Low(s)[k]
      BY <1>1, <1>2, <1>7, <1>8, BorrowSum
    <2> QED
      BY <1>9, <2>1
  <1>11. PICK u \in Nat, v \in Nat, w \in Nat, p \in Nat :
           /\ u = Value(a) /\ u = Low(a)[n] /\ v = Value(b) /\ v = Low(b)[n]
           /\ w = Value(s) /\ w = Low(s)[n] /\ p = Pow[n] /\ w < p
    <2>1. Value(a) \in Nat /\ Value(a) = Low(a)[n]
      BY <1>1, <1>7, ValueLow
    <2>2. Value(b) \in Nat /\ Value(b) = Low(b)[n]
      BY <1>1, <1>7, ValueLow, Beyond
    <2>3. Value(s) \in Nat /\ Value(s) = Low(s)[n]
      BY <1>6, <1>7, ValueLow
    <2>4. Pow[n] \in Nat /\ Low(s)[n] < Pow[n]
      BY <1>6, Powers, Bounded
    <2> QED
      BY <2>1, <2>2, <2>3, <2>4
  <1>12. v <= u
    BY <1>11
  <1>13. c[n] = 0
    <2> SUFFICES ASSUME c[n] = 1 PROVE FALSE
      BY <1>10
    <2>1. u + 1 * p = v + w
      BY <1>10, <1>11
    <2>2. w < p
      BY <1>11
    <2> QED
      BY <1>12, <2>1, <2>2
  <1>14. u + 0 * p = v + w
    BY <1>10, <1>11, <1>13
  <1>15. w = u - v
    BY <1>14
  <1> QED
    BY <1>1, <1>2, <1>3, <1>6, <1>11, <1>15, PurgeRight
-----------------------------------------------------------------------------
(* operator* of reverse::Bignum *)

\* The value of limbs put behind others.
LEMMA Joined ==
  ASSUME NEW s \in Seq(Limb), NEW t \in Seq(Limb)
  PROVE  /\ s \o t \in Seq(Limb) /\ Len(s \o t) = Len(s) + Len(t)
         /\ \A k \in 1 .. Len(s) : At(s \o t, k) = At(s, k)
         /\ \A k \in 1 .. Len(t) : At(s \o t, Len(s) + k) = At(t, k)
  <1>1. PICK m \in Nat, n \in Nat : /\ m = Len(s) /\ DOMAIN s = 1 .. m
                                    /\ n = Len(t) /\ DOMAIN t = 1 .. n
    BY LenProperties
  <1>2. PICK r : r = s \o t
    OBVIOUS
  <1>3. r \in Seq(Limb)
    BY <1>2, ConcatProperties
  <1>4. Len(r) = m + n
    BY <1>1, <1>2, ConcatProperties
  <1>5. DOMAIN r = 1 .. m + n
    BY <1>3, <1>4, LenProperties
  <1>6. ASSUME NEW k \in 1 .. m PROVE At(r, k) = At(s, k)
    <2>1. k \in 1 .. m + n /\ k <= m
      OBVIOUS
    <2>2. r[k] = s[k]
      BY <1>1, <1>2, <2>1, ConcatProperties
    <2> QED
      BY <1>1, <1>5, <2>1, <2>2 DEF At
  <1>7. ASSUME NEW k \in 1 .. n PROVE At(r, m + k) = At(t, k)
    <2>1. m + k \in 1 .. m + n /\ ~(m + k <= m) /\ (m + k) - m = k
      OBVIOUS
    <2>2. r[m + k] = t[k]
      BY <1>1, <1>2, <2>1, ConcatProperties
    <2> QED
      BY <1>1, <1>5, <2>1, <2>2 DEF At
  <1> QED
    BY <1>1, <1>2, <1>3, <1>4, <1>6, <1>7

\* p are the limbs of a above the lowest i.
LEMMA Shifted ==
  ASSUME NEW a \in Seq(Nat), NEW p \in Seq(Nat), NEW i \in Nat, NEW n \in Nat,
         \A k \in 1 .. n : At(p, k) = At(a, i + k)
  PROVE  Low(a)[i + n] = Low(a)[i] + Pow[i] * Low(p)[n]
  <1> DEFINE T == {k \in Nat : k <= n => Low(a)[i + k] = Low(a)[i] + Pow[i] * Low(p)[k]}
  <1>1. 0 \in T
    <2>1. PICK q \in Nat, l \in Nat : q = Pow[i] /\ l = Low(a)[i]
      BY Powers, Lows
    <2>2. i + 0 = i /\ l + q * 0 = l
      OBVIOUS
    <2> QED
      BY <2>1, <2>2, Lows
  <1>2. ASSUME NEW k \in Nat, k \in T PROVE k + 1 \in T
    <2> SUFFICES ASSUME k + 1 <= n
                 PROVE  Low(a)[i + (k + 1)] = Low(a)[i] + Pow[i] * Low(p)[k + 1]
      OBVIOUS
    <2>1. k <= n /\ k + 1 \in 1 .. n /\ i + (k + 1) = (i + k) + 1 /\ i + k \in Nat
      OBVIOUS
    <2>2. PICK q \in Nat, t \in Nat : q = Pow[i] /\ t = Pow[k] /\ Pow[i + k] = q * t
      BY Powers, PowSum
    <2>3. PICK l \in Nat, m \in Nat, d \in Nat :
            l = Low(a)[i] /\ m = Low(p)[k] /\ d = At(p, k + 1)
      BY Lows, Limbs
    <2>4. At(a, (i + k) + 1) = d
      BY <2>1, <2>3
    <2>5. Low(a)[(i + k) + 1] = Low(a)[i + k] + d * (q * t)
      BY <2>1, <2>2, <2>4, Lows
    <2>6. Low(a)[i + k] = l + q * m
      BY <1>2, <2>1, <2>2, <2>3
    <2>7. Low(p)[k + 1] = m + d * t
      BY <2>2, <2>3, Lows
    <2>8. (l + q * m) + d * (q * t) = l + q * (m + d * t)
      OBVIOUS
    <2> QED
      BY <2>1, <2>2, <2>3, <2>5, <2>6, <2>7, <2>8
  <1> HIDE DEF T
  <1>3. n \in T
    BY <1>1, <1>2, Induction
  <1>4. n <= n
    OBVIOUS
  <1> QED
    BY <1>3, <1>4 DEF T

\* The limbs above the lowest i.
LEMMA Highest ==
  ASSUME NEW s \in Seq(Limb), NEW i \in 0 .. Len(s)
  PROVE  /\ SubSeq(s, i + 1, Len(s)) \in Seq(Limb)
         /\ Len(SubSeq(s, i + 1, Len(s))) = Len(s) - i
         /\ \A k \in 1 .. Len(s) - i :
              At(SubSeq(s, i + 1, Len(s)), k) = At(s, i + k) /\ At(s, i + k) = s[i + k]
  <1>1. PICK n \in Nat : n = Len(s) /\ DOMAIN s = 1 .. n
    BY LenProperties
  <1>2. PICK m \in Nat : m = n - i /\ i \in Nat
    <2>1. i \in 0 .. n
      BY <1>1
    <2>2. n - i \in Nat /\ i + (n - i) = n /\ i \in Nat
      BY <2>1
    <2> QED
      BY <2>2
  <1>3. \A k \in 1 .. m : i + k \in 1 .. n
    BY <1>1, <1>2
  <1>4. PICK t : t = SubSeq(s, i + 1, n) /\ t = [k \in 1 .. m |-> s[i + k]]
    <2>1. SubSeq(s, i + 1, n) = [k \in 1 .. ((n - (i + 1)) + 1) |-> s[((i + 1) + k) - 1]]
      OBVIOUS
    <2>2. (n - (i + 1)) + 1 = m /\ \A k \in 1 .. m : ((i + 1) + k) - 1 = i + k
      BY <1>2
    <2> QED
      BY <2>1, <2>2
  <1>5. t \in [1 .. m -> Limb]
    <2>1. \A k \in 1 .. m : s[i + k] \in Limb
      BY <1>1, <1>3, ElementOfSeq
    <2> QED
      BY <1>4, <2>1
  <1>6. t \in Seq(Limb) /\ Len(t) = m /\ \A k \in 1 .. m : At(t, k) = t[k]
    BY <1>5, Row
  <1>7. \A k \in 1 .. m : At(s, i + k) = s[i + k] /\ t[k] = s[i + k]
    BY <1>1, <1>3, <1>4 DEF At
  <1> QED
    BY <1>1, <1>2, <1>4, <1>6, <1>7

\* A number is its lowest limbs and what the others stand for, shifted.
LEMMA Apart ==
  ASSUME NEW s \in Seq(Limb), NEW i \in 0 .. Len(s)
  PROVE  Value(s) = Low(s)[i] + Pow[i] * Value(SubSeq(s, i + 1, Len(s)))
  <1>1. PICK n \in Nat : n = Len(s)
    BY LenProperties
  <1>2. PICK m \in Nat : m = n - i /\ i + m = n /\ i \in Nat
    <2>1. i \in 0 .. n
      BY <1>1
    <2>2. n - i \in Nat /\ i + (n - i) = n /\ i \in Nat
      BY <2>1
    <2> QED
      BY <2>2
  <1>3. PICK t \in Seq(Limb) : /\ t = SubSeq(s, i + 1, Len(s)) /\ Len(t) = m
                               /\ \A k \in 1 .. m : At(t, k) = At(s, i + k)
    BY <1>1, <1>2, Highest
  <1>4. s \in Seq(Nat) /\ t \in Seq(Nat)
    BY Digits
  <1>5. Low(s)[i + m] = Low(s)[i] + Pow[i] * Low(t)[m]
    BY <1>2, <1>3, <1>4, Shifted
  <1> QED
    BY <1>1, <1>2, <1>3, <1>4, <1>5, ValueLow

IsRowCarry(c, prod, i, d, b) ==
  c = [k \in 0 .. Len(prod) - i |->
         IF k = 0 THEN 0 ELSE (prod[i + k] + d * At(b, k) + c[k - 1]) \div BASE]
RowOf(c, prod, i, d, b) ==
  SubSeq(prod, 1, i)
    \o [k \in 1 .. Len(prod) - i |-> (prod[i + k] + d * At(b, k) + c[k - 1]) % BASE]

\* The carries of AddRow.
LEMMA AddRowUnfold ==
  ASSUME NEW prod, NEW i, NEW d, NEW b, NEW e, IsRowCarry(e, prod, i, d, b)
  PROVE  \E c : IsRowCarry(c, prod, i, d, b) /\ AddRow(prod, i, d, b) = RowOf(c, prod, i, d, b)
  <1> DEFINE c == CHOOSE c : IsRowCarry(c, prod, i, d, b)
  <1>1. IsRowCarry(c, prod, i, d, b)
    OBVIOUS
  <1>2. AddRow(prod, i, d, b) = RowOf(c, prod, i, d, b)
    BY DEF AddRow, RowOf, IsRowCarry
  <1> QED
    BY <1>1, <1>2

\* prod keeps its length, and the sum is right if it fits.
LEMMA AddRowRight ==
  ASSUME NEW prod \in Seq(Limb), NEW i \in 0 .. Len(prod), NEW d \in Nat,
         NEW b \in Seq(Limb)
  PROVE  /\ AddRow(prod, i, d, b) \in Seq(Limb)
         /\ Len(AddRow(prod, i, d, b)) = Len(prod)
         /\ Len(b) <= Len(prod) - i
            /\ Value(prod) + Pow[i] * (d * Value(b)) < Pow[Len(prod)]
              => Value(AddRow(prod, i, d, b)) = Value(prod) + Pow[i] * (d * Value(b))
  <1>1. PICK m \in Nat : m = Len(prod) /\ DOMAIN prod = 1 .. m
    BY LenProperties
  <1>2. PICK n \in Nat : n = m - i /\ i + n = m /\ i \in Nat /\ i \in 0 .. m
    <2>1. i \in 0 .. m
      BY <1>1
    <2>2. m - i \in Nat /\ i + (m - i) = m /\ i \in Nat
      BY <2>1
    <2> QED
      BY <2>1, <2>2
  <1>3. PICK p \in Seq(Limb) : /\ p = SubSeq(prod, i + 1, m) /\ Len(p) = n
                               /\ \A k \in 1 .. n : At(p, k) = prod[i + k]
    <2>1. /\ SubSeq(prod, i + 1, Len(prod)) \in Seq(Limb)
          /\ Len(SubSeq(prod, i + 1, Len(prod))) = Len(prod) - i
          /\ \A k \in 1 .. Len(prod) - i :
               /\ At(SubSeq(prod, i + 1, Len(prod)), k) = At(prod, i + k)
               /\ At(prod, i + k) = prod[i + k]
      BY Highest
    <2>2. Len(prod) - i = n
      BY <1>1, <1>2
    <2> QED
      BY <1>1, <2>1, <2>2
  <1>4. PICK c : IsRowCarry(c, prod, i, d, b) /\ AddRow(prod, i, d, b) = RowOf(c, prod, i, d, b)
    <2>1. PICK e : e \in [0 .. n -> Nat] /\ IsCarry(e, n, p, d, b)
      BY CarryExists
    <2>2. e = [k \in 0 .. n |->
                 IF k = 0 THEN 0 ELSE (prod[i + k] + d * At(b, k) + e[k - 1]) \div BASE]
      <3>1. \A k \in 0 .. n : k # 0 => k \in 1 .. n
        OBVIOUS
      <3>2. e = [k \in 0 .. n |-> e[k]] /\ e[0] = 0
        BY <2>1 DEF IsCarry
      <3>3. \A k \in 1 .. n : e[k] = (prod[i + k] + d * At(b, k) + e[k - 1]) \div BASE
        BY <1>3, <2>1 DEF IsCarry
      <3> QED
        BY <3>1, <3>2, <3>3
    <2>3. IsRowCarry(e, prod, i, d, b)
      BY <1>1, <1>2, <2>2 DEF IsRowCarry
    <2> QED
      BY <2>3, AddRowUnfold
  <1>5. IsCarry(c, n, p, d, b)
    <2>1. c = [k \in 0 .. n |->
                 IF k = 0 THEN 0 ELSE (prod[i + k] + d * At(b, k) + c[k - 1]) \div BASE]
      BY <1>1, <1>2, <1>4 DEF IsRowCarry
    <2>2. 0 \in 0 .. n /\ \A k \in 1 .. n : k \in 0 .. n /\ k # 0
      OBVIOUS
    <2>3. c[0] = 0
      BY <2>1, <2>2
    <2>4. \A k \in 1 .. n : c[k] = (prod[i + k] + d * At(b, k) + c[k - 1]) \div BASE
      BY <2>1, <2>2
    <2> QED
      BY <1>3, <2>3, <2>4 DEF IsCarry
  <1>6. \A k \in 0 .. n : c[k] \in Nat /\ c[k] <= d
    BY <1>5, CarrySmall
  <1>7. PICK s : s = [k \in 1 .. n |-> (At(p, k) + d * At(b, k) + c[k - 1]) % BASE]
    OBVIOUS
  <1>8. s \in [1 .. n -> Limb]
    <2>1. ASSUME NEW k \in 1 .. n PROVE s[k] \in Limb
      <3>1. PICK u \in Nat, v \in Nat, w \in Nat :
              u = c[k - 1] /\ v = At(p, k) /\ w = At(b, k)
        <4>1. k - 1 \in 0 .. n
          OBVIOUS
        <4> QED
          BY <1>6, <4>1, Digits
      <3>2. v + d * w + u \in Nat
        OBVIOUS
      <3> QED
        BY <1>7, <3>1, <3>2, InBase
    <2> QED
      BY <1>7, <2>1
  <1>9. s \in Seq(Limb) /\ Len(s) = n /\ \A k \in 1 .. n : At(s, k) = s[k]
    BY <1>8, Row
  <1>10. IsDigits(s, c, n, p, d, b)
    BY <1>7, <1>9 DEF IsDigits
  <1>11. PICK low \in Seq(Limb) : /\ low = SubSeq(prod, 1, i) /\ Len(low) = i
                                  /\ \A k \in 1 .. i : At(low, k) = At(prod, k)
    <2>1. /\ SubSeq(prod, 1, i) \in Seq(Limb) /\ Len(SubSeq(prod, 1, i)) = i
          /\ \A k \in 1 .. i : At(SubSeq(prod, 1, i), k) = At(prod, k)
      BY Lowest
    <2> QED
      BY <2>1
  <1>12. PICK r : r = low \o s
    OBVIOUS
  <1>13. r = AddRow(prod, i, d, b)
    <2>1. [k \in 1 .. n |-> (prod[i + k] + d * At(b, k) + c[k - 1]) % BASE] = s
      BY <1>3, <1>7
    <2> QED
      BY <1>1, <1>2, <1>4, <1>11, <1>12, <2>1 DEF RowOf
  <1>14. /\ r \in Seq(Limb) /\ Len(r) = i + n
         /\ \A k \in 1 .. i : At(r, k) = At(low, k)
         /\ \A k \in 1 .. n : At(r, i + k) = At(s, k)
    <2>1. /\ low \o s \in Seq(Limb) /\ Len(low \o s) = Len(low) + Len(s)
          /\ \A k \in 1 .. Len(low) : At(low \o s, k) = At(low, k)
          /\ \A k \in 1 .. Len(s) : At(low \o s, Len(low) + k) = At(s, k)
      BY <1>9, Joined
    <2> QED
      BY <1>9, <1>11, <1>12, <2>1
  <1>15. ASSUME Len(b) <= n, Value(prod) + Pow[i] * (d * Value(b)) < Pow[m]
         PROVE  Value(r) = Value(prod) + Pow[i] * (d * Value(b))
    <2>1. prod \in Seq(Nat) /\ p \in Seq(Nat) /\ s \in Seq(Nat) /\ r \in Seq(Nat) /\ b \in Seq(Nat)
      BY <1>9, <1>14, Digits
    <2>2. PICK vr \in Nat, vp \in Nat, vb \in Nat, vs \in Nat, v \in Nat :
            /\ vr = Value(r) /\ vp = Value(prod) /\ vb = Value(b)
            /\ vs = Value(s) /\ v = Value(p)
      BY <2>1, ValueLow
    <2>3. PICK q \in Nat, t \in Nat, l \in Nat : q = Pow[i] /\ t = Pow[n] /\ l = Low(prod)[i]
      BY <1>2, <2>1, Powers, Lows
    <2>4. vp = l + q * v
      <3>1. Value(prod) = Low(prod)[i] + Pow[i] * Value(SubSeq(prod, i + 1, Len(prod)))
        BY Apart
      <3> QED
        BY <1>1, <1>3, <2>2, <2>3, <3>1
    <2>5. Low(r)[i] = l
      <3>1. \A k \in 1 .. i : At(r, k) = At(prod, k)
        BY <1>11, <1>14
      <3>2. \A k \in 0 .. i : Low(r)[k] = Low(prod)[k]
        <4>1. i \in Nat /\ r \in Seq(Nat) /\ prod \in Seq(Nat)
          BY <1>2, <2>1
        <4> QED
          BY <3>1, <4>1, SameLow
      <3>3. i \in 0 .. i
        BY <1>2
      <3> QED
        BY <2>3, <3>2, <3>3
    <2>6. vr = l + q * vs
      <3>1. Low(r)[i + n] = Low(r)[i] + Pow[i] * Low(s)[n]
        <4>1. \A k \in 1 .. n : At(s, k) = At(r, i + k)
          BY <1>14
        <4> QED
          BY <1>2, <2>1, <4>1, Shifted
      <3>2. Value(r) = Low(r)[i + n] /\ Value(s) = Low(s)[n]
        BY <1>9, <1>14, <2>1, ValueLow
      <3> QED
        BY <2>2, <2>3, <2>5, <3>1, <3>2
    <2>7. PICK cn \in Nat : cn = c[n] /\ v + d * vb = vs + cn * t
      <3>1. c[n] \in Nat
        BY <1>6
      <3>2. Value(p) + d * Value(b) = Low(s)[n] + c[n] * Pow[n]
        <4>1. Len(p) <= n
          BY <1>3
        <4> QED
          BY <1>5, <1>10, <1>15, <2>1, <4>1, Exact
      <3>3. Value(s) = Low(s)[n]
        BY <1>9, <2>1, ValueLow
      <3> QED
        BY <2>2, <2>3, <3>1, <3>2, <3>3
    <2>8. q * v + q * (d * vb) = q * vs + cn * (q * t)
      <3>1. q * (v + d * vb) = q * (vs + cn * t)
        BY <2>7
      <3>2. q * (v + d * vb) = q * v + q * (d * vb)
        OBVIOUS
      <3>3. q * (vs + cn * t) = q * vs + cn * (q * t)
        OBVIOUS
      <3> QED
        BY <3>1, <3>2, <3>3
    <2>9. q * t = Pow[m]
      BY <1>2, <2>3, PowSum
    <2>10. PICK x1 \in Nat, x2 \in Nat, x3 \in Nat, x4 \in Nat :
             x1 = q * v /\ x2 = q * (d * vb) /\ x3 = q * vs /\ x4 = q * t
      OBVIOUS
    <2>11. x1 + x2 = x3 + cn * x4 /\ vp = l + x1 /\ vr = l + x3
      BY <2>4, <2>6, <2>8, <2>10
    <2>12. vp + x2 < x4
      BY <1>15, <2>2, <2>3, <2>9, <2>10
    <2>13. cn = 0
      <3> SUFFICES ASSUME cn >= 1 PROVE FALSE
        OBVIOUS
      <3>1. PICK e \in Nat : cn = 1 + e
        <4>1. cn - 1 \in Nat /\ cn = 1 + (cn - 1)
          OBVIOUS
        <4> QED
          BY <4>1
      <3>2. cn * x4 = x4 + e * x4 /\ e * x4 \in Nat
        BY <3>1
      <3> QED
        BY <2>11, <2>12, <3>2
    <2>14. cn * x4 = 0
      BY <2>13
    <2>15. vr = vp + x2
      BY <2>11, <2>14
    <2> QED
      BY <2>2, <2>3, <2>10, <2>15
  <1> QED
    BY <1>1, <1>2, <1>13, <1>14, <1>15

IsRows(row, a, b, smaller, larger) ==
  row = [i \in 0 .. Len(smaller) |->
           IF i = 0 THEN [k \in 1 .. Len(a) + Len(b) |-> 0]
           ELSE AddRow(row[i - 1], i - 1, smaller[i], larger)]

\* The rows of Times,
LEMMA TimesUnfold ==
  ASSUME NEW a, NEW b, NEW s, NEW l, NEW rows, IsRows(rows, a, b, s, l),
         s = IF Less(a, b) THEN a ELSE b, l = IF Less(a, b) THEN b ELSE a
  PROVE  \E row : IsRows(row, a, b, s, l) /\ Times(a, b) = Purge(row[Len(s)])
  <1> DEFINE row == CHOOSE row : IsRows(row, a, b, s, l)
  <1>1. IsRows(row, a, b, s, l)
    OBVIOUS
  <1>2. Times(a, b) = Purge(row[Len(s)])
    BY DEF Times, IsRows
  <1> QED
    BY <1>1, <1>2

\* which exist.
LEMMA RowsExist ==
  ASSUME NEW a \in Seq(Limb), NEW b \in Seq(Limb),
         NEW s \in Seq(Limb), NEW l \in Seq(Limb), Len(s) <= Len(a) + Len(b)
  PROVE  \E row : IsRows(row, a, b, s, l)
  <1>1. PICK n \in Nat, m \in Nat : n = Len(s) /\ m = Len(a) + Len(b) /\ n <= m
    BY Digits
  <1>2. PICK S : S = {r \in Seq(Limb) : Len(r) = m}
    OBVIOUS
  <1>3. PICK zeros : zeros = [k \in 1 .. m |-> 0]
    OBVIOUS
  <1>4. zeros \in S
    <2>1. zeros \in [1 .. m -> Limb]
      BY <1>3, Base DEF Limb
    <2> QED
      BY <1>2, <2>1, Row
  <1>5. PICK next : next = [i \in 1 .. n |-> [r \in S |-> AddRow(r, i - 1, s[i], l)]]
    OBVIOUS
  <1>6. ASSUME NEW i \in 1 .. n PROVE next[i] \in [S -> S]
    <2>1. s[i] \in Nat
      <3>1. s[i] \in Limb
        BY <1>1, ElementOfSeq
      <3> QED
        BY <3>1, Base DEF Limb
    <2>2. i - 1 \in 0 .. m
      BY <1>1
    <2>3. ASSUME NEW r \in S PROVE AddRow(r, i - 1, s[i], l) \in S
      <3>1. r \in Seq(Limb) /\ Len(r) = m
        BY <1>2
      <3>2. i - 1 \in 0 .. Len(r)
        BY <2>2, <3>1
      <3>3. /\ AddRow(r, i - 1, s[i], l) \in Seq(Limb)
            /\ Len(AddRow(r, i - 1, s[i], l)) = Len(r)
        BY <2>1, <3>1, <3>2, AddRowRight
      <3> QED
        BY <1>2, <3>1, <3>3
    <2> QED
      BY <1>5, <2>3
  <1>7. PICK row : UpTo(row, n, S, zeros, next)
    BY <1>4, <1>6, Defined
  <1>8. row \in [0 .. n -> S] /\ row[0] = zeros /\ \A i \in 1 .. n : row[i] = next[i][row[i - 1]]
    BY <1>7 DEF UpTo
  <1>9. ASSUME NEW i \in 1 .. n PROVE row[i] = AddRow(row[i - 1], i - 1, s[i], l)
    <2>1. i - 1 \in 0 .. n
      OBVIOUS
    <2>2. row[i - 1] \in S
      BY <1>8, <2>1
    <2> QED
      BY <1>5, <1>8, <2>2
  <1>10. row = [i \in 0 .. n |-> IF i = 0 THEN [k \in 1 .. m |-> 0]
                  ELSE AddRow(row[i - 1], i - 1, s[i], l)]
    <2>1. \A i \in 0 .. n : i # 0 => i \in 1 .. n
      OBVIOUS
    <2>2. row = [i \in 0 .. n |-> row[i]]
      BY <1>8
    <2> QED
      BY <1>3, <1>8, <1>9, <2>1, <2>2
  <1> QED
    BY <1>1, <1>10 DEF IsRows

\* After i rows, prod is the product of the i lowest limbs of s with l.
LEMMA RowsRight ==
  ASSUME NEW a \in Seq(Limb), NEW b \in Seq(Limb), NEW s \in Seq(Limb), NEW l \in Seq(Limb),
         Len(s) + Len(l) = Len(a) + Len(b), NEW row, IsRows(row, a, b, s, l)
  PROVE  /\ row[Len(s)] \in Seq(Limb)
         /\ Len(row[Len(s)]) = Len(a) + Len(b)
         /\ Value(row[Len(s)]) = Value(s) * Value(l)
  <1>1. PICK n \in Nat, o \in Nat, m \in Nat :
          n = Len(s) /\ o = Len(l) /\ m = Len(a) + Len(b) /\ n + o = m /\ DOMAIN s = 1 .. n
    BY Digits
  <1>2. s \in Seq(Nat) /\ l \in Seq(Nat)
    BY Digits
  <1>3. PICK v \in Nat : v = Value(l)
    BY <1>2, ValueLow
  <1>4. /\ row[0] = [k \in 1 .. m |-> 0]
        /\ \A i \in 1 .. n : row[i] = AddRow(row[i - 1], i - 1, s[i], l)
    <2>1. row = [i \in 0 .. n |-> IF i = 0 THEN [k \in 1 .. m |-> 0]
                   ELSE AddRow(row[i - 1], i - 1, s[i], l)]
      BY <1>1 DEF IsRows
    <2>2. 0 \in 0 .. n /\ \A i \in 1 .. n : i \in 0 .. n /\ i # 0
      OBVIOUS
    <2> QED
      BY <2>1, <2>2
  <1> DEFINE T == {i \in Nat : i <= n =>
                     /\ row[i] \in Seq(Limb) /\ Len(row[i]) = m
                     /\ Value(row[i]) = Low(s)[i] * v}
  <1>5. 0 \in T
    <2>1. row[0] \in [1 .. m -> Limb]
      BY <1>4, Base DEF Limb
    <2>2. row[0] \in Seq(Limb) /\ Len(row[0]) = m /\ \A k \in 1 .. m : At(row[0], k) = 0
      <3>1. /\ row[0] \in Seq(Limb) /\ Len(row[0]) = m
            /\ \A k \in 1 .. m : At(row[0], k) = row[0][k]
        BY <2>1, Row
      <3> QED
        BY <1>4, <3>1
    <2>3. Value(row[0]) = Value(<<>>)
      <3>1. \A k \in 1 .. m : At(row[0], k) = At(<<>>, k)
        BY <2>2, Empty
      <3>2. Len(row[0]) <= m /\ Len(<<>>) <= m
        BY <2>2, Empty
      <3> QED
        BY <2>2, <3>1, <3>2, Empty, SameValue
    <2>4. Value(row[0]) = 0 * v
      BY <2>3, Empty
    <2> QED
      BY <1>2, <2>2, <2>4, Lows
  <1>6. ASSUME NEW i \in Nat, i \in T PROVE i + 1 \in T
    <2> SUFFICES ASSUME i + 1 <= n
                 PROVE  /\ row[i + 1] \in Seq(Limb) /\ Len(row[i + 1]) = m
                        /\ Value(row[i + 1]) = Low(s)[i + 1] * v
      OBVIOUS
    <2>1. i <= n /\ i + 1 \in 1 .. n /\ (i + 1) - 1 = i /\ i \in 0 .. m /\ o <= m - i
      BY <1>1
    <2>2. PICK r \in Seq(Limb) : r = row[i] /\ Len(r) = m /\ Value(r) = Low(s)[i] * v
      BY <1>6, <2>1
    <2>3. PICK d \in Nat : d = s[i + 1] /\ d = At(s, i + 1)
      <3>1. At(s, i + 1) = s[i + 1]
        BY <1>1, <2>1 DEF At
      <3> QED
        BY <1>2, <3>1, Limbs
    <2>4. row[i + 1] = AddRow(r, i, d, l)
      BY <1>4, <2>1, <2>2, <2>3
    <2>5. PICK p \in Nat, u \in Nat : p = Pow[i] /\ u = Low(s)[i]
      BY <1>2, Powers, Lows
    <2>6. Low(s)[i + 1] = u + d * p
      BY <1>2, <2>3, <2>5, Lows
    <2>7. u * v + p * (d * v) = (u + d * p) * v
      OBVIOUS
    <2>8. Low(s)[i + 1] * v < Pow[m]
      <3>1. PICK u0 \in Nat, w \in Nat : u0 = Low(s)[i + 1] /\ w = Low(s)[n]
        <4>1. i + 1 \in Nat
          OBVIOUS
        <4>2. Low(s)[i + 1] \in Nat /\ Low(s)[n] \in Nat
          BY <1>2, <4>1, Lows
        <4> QED
          BY <4>2
      <3>2. u0 <= w
        BY <1>2, <2>1, <3>1, LowRises
      <3>3. PICK q \in Nat, t \in Nat : q = Pow[n] /\ t = Pow[o] /\ q * t = Pow[m]
        <4>1. Pow[n] \in Nat /\ Pow[o] \in Nat
          BY Powers
        <4>2. Pow[n + o] = Pow[n] * Pow[o]
          BY PowSum
        <4> QED
          BY <1>1, <4>1, <4>2
      <3>4. w < q
        BY <3>1, <3>3, Bounded
      <3>5. v < t
        BY <1>1, <1>2, <1>3, <3>3, ValueLow, Bounded
      <3>6. PICK e \in Nat, f \in Nat : q = u0 + 1 + e /\ t = v + 1 + f
        <4>1. q - (u0 + 1) \in Nat /\ q = u0 + 1 + (q - (u0 + 1))
          BY <3>2, <3>4
        <4>2. t - (v + 1) \in Nat /\ t = v + 1 + (t - (v + 1))
          BY <3>5
        <4> QED
          BY <4>1, <4>2
      <3>7. q * t = u0 * v + u0 * (1 + f) + (1 + e) * v + (1 + e) * (1 + f)
        BY <3>6
      <3>8. u0 * (1 + f) \in Nat /\ (1 + e) * v \in Nat /\ (1 + e) * (1 + f) >= 1
        <4>1. (1 + e) * (1 + f) = 1 + e + f + e * f /\ e * f \in Nat
          OBVIOUS
        <4>2. u0 * (1 + f) \in Nat /\ (1 + e) * v \in Nat
          OBVIOUS
        <4>3. \A g \in Nat : 1 + e + f + g >= 1
          OBVIOUS
        <4>4. 1 + e + f + e * f >= 1
          BY <4>1, <4>3
        <4>5. (1 + e) * (1 + f) >= 1
          BY <4>1, <4>4
        <4> QED
          BY <4>2, <4>5
      <3>9. PICK y1 \in Nat, y2 \in Nat, y3 \in Nat, y4 \in Nat :
              /\ y1 = u0 * v /\ y2 = u0 * (1 + f) /\ y3 = (1 + e) * v
              /\ y4 = (1 + e) * (1 + f) /\ y4 >= 1
        BY <3>8
      <3>10. \A z1, z2, z3, z4 \in Nat : z4 >= 1 => z1 < z1 + z2 + z3 + z4
        OBVIOUS
      <3>11. y1 < y1 + y2 + y3 + y4
        BY <3>9, <3>10
      <3> QED
        BY <3>1, <3>3, <3>7, <3>9, <3>11
    <2>9. u * v + p * (d * v) < Pow[m]
      BY <2>6, <2>7, <2>8
    <2>10. i \in 0 .. Len(r) /\ Len(l) <= Len(r) - i
      BY <1>1, <2>1, <2>2
    <2>11. Value(r) + Pow[i] * (d * Value(l)) < Pow[Len(r)]
      BY <1>3, <2>2, <2>5, <2>9
    <2>12. /\ AddRow(r, i, d, l) \in Seq(Limb)
           /\ Len(AddRow(r, i, d, l)) = Len(r)
           /\ Value(AddRow(r, i, d, l)) = Value(r) + Pow[i] * (d * Value(l))
      BY <2>10, <2>11, AddRowRight
    <2>13. Value(r) + Pow[i] * (d * Value(l)) = (u + d * p) * v
      BY <1>3, <2>2, <2>5, <2>7
    <2> QED
      BY <2>2, <2>4, <2>6, <2>12, <2>13
  <1> HIDE DEF T
  <1>7. n \in T
    BY <1>5, <1>6, Induction
  <1>8. /\ row[n] \in Seq(Limb) /\ Len(row[n]) = m
        /\ Value(row[n]) = Low(s)[n] * v
    <2>1. n <= n
      OBVIOUS
    <2> QED
      BY <1>7, <2>1 DEF T
  <1> QED
    BY <1>1, <1>2, <1>3, <1>8, ValueLow

\* operator*: the product, without leading zeros, whichever of the two is smaller;
\* no carry is left at the end of a row (bignum.cpp, 152-177).
THEOREM TimesRight ==
  ASSUME NEW a \in Seq(Limb), NEW b \in Seq(Limb)
  PROVE  /\ Times(a, b) \in Seq(Limb) /\ Trimmed(Times(a, b))
         /\ Len(Times(a, b)) <= Len(a) + Len(b)
         /\ Value(Times(a, b)) = Value(a) * Value(b)
  <1>1. PICK s, l : s = (IF Less(a, b) THEN a ELSE b) /\ l = (IF Less(a, b) THEN b ELSE a)
    OBVIOUS
  <1>2. PICK u \in Nat, v \in Nat : u = Value(a) /\ v = Value(b)
    BY Digits, ValueLow
  <1>3. PICK n \in Nat, o \in Nat : n = Len(a) /\ o = Len(b)
    BY Digits
  <1>4. /\ s \in Seq(Limb) /\ l \in Seq(Limb) /\ Len(s) + Len(l) = Len(a) + Len(b)
        /\ Len(s) <= Len(a) + Len(b) /\ Value(s) * Value(l) = u * v
    <2>1. CASE Less(a, b)
      <3>1. s = a /\ l = b
        BY <1>1, <2>1
      <3>2. n <= n + o
        OBVIOUS
      <3> QED
        BY <1>2, <1>3, <3>1, <3>2
    <2>2. CASE ~Less(a, b)
      <3>1. s = b /\ l = a
        BY <1>1, <2>2
      <3>2. o <= n + o /\ o + n = n + o /\ v * u = u * v
        OBVIOUS
      <3> QED
        BY <1>2, <1>3, <3>1, <3>2
    <2> QED
      BY <2>1, <2>2
  <1>5. PICK row : IsRows(row, a, b, s, l) /\ Times(a, b) = Purge(row[Len(s)])
    <2>1. \E rows : IsRows(rows, a, b, s, l)
      BY <1>4, RowsExist
    <2> QED
      BY <1>1, <2>1, TimesUnfold
  <1>6. PICK r : r = row[Len(s)]
    OBVIOUS
  <1>7. r \in Seq(Limb) /\ Len(r) = Len(a) + Len(b) /\ Value(r) = Value(s) * Value(l)
    BY <1>4, <1>5, <1>6, RowsRight
  <1>8. /\ Purge(r) \in Seq(Limb) /\ Len(Purge(r)) <= Len(r)
        /\ Value(Purge(r)) = Value(r) /\ Trimmed(Purge(r))
    BY <1>7, PurgeRight
  <1> QED
    BY <1>2, <1>4, <1>5, <1>6, <1>7, <1>8
-----------------------------------------------------------------------------
(* Division by one limb *)

IsRest(c, a, d) ==
  c = [k \in 0 .. Len(a) |->
         IF k = 0 THEN 0 ELSE (a[Len(a) - k + 1] + c[k - 1] * BASE) % d]
Quotients(c, a, d) ==
  [k \in 1 .. Len(a) |-> (a[k] + c[Len(a) - k] * BASE) \div d]

\* What is left, limb by limb, in the division by one limb,
LEMMA DivideUnfold ==
  ASSUME NEW a, NEW d, NEW e, IsRest(e, a, d)
  PROVE  \E c : /\ IsRest(c, a, d)
                /\ DivideByLimb(a, d) = IF Purge(Quotients(c, a, d)) = <<>> /\ a # <<>>
                                        THEN BZero ELSE Purge(Quotients(c, a, d))
  <1> DEFINE c == CHOOSE c : IsRest(c, a, d)
  <1>1. IsRest(c, a, d)
    OBVIOUS
  <1>2. DivideByLimb(a, d) = IF Purge(Quotients(c, a, d)) = <<>> /\ a # <<>>
                             THEN BZero ELSE Purge(Quotients(c, a, d))
    BY DEF DivideByLimb, Quotients, IsRest
  <1> QED
    BY <1>1, <1>2

\* which exists and is less than the divisor.
LEMMA RestExists ==
  ASSUME NEW a \in Seq(Limb), NEW d \in Nat, d > 0
  PROVE  \E c : IsRest(c, a, d)
  <1>1. PICK n \in Nat : n = Len(a) /\ DOMAIN a = 1 .. n
    BY LenProperties
  <1>2. PICK next : next = [k \in 1 .. n |-> [v \in Nat |-> (a[n - k + 1] + v * BASE) % d]]
    OBVIOUS
  <1>3. ASSUME NEW k \in 1 .. n PROVE next[k] \in [Nat -> Nat]
    <2>1. n - k + 1 \in 1 .. n
      OBVIOUS
    <2>2. PICK e \in Nat : e = a[n - k + 1]
      <3>1. a[n - k + 1] \in Limb
        BY <1>1, <2>1, ElementOfSeq
      <3> QED
        BY <3>1, Base DEF Limb
    <2>3. ASSUME NEW v \in Nat PROVE (e + v * BASE) % d \in Nat
      <3>1. e + v * BASE \in Nat
        BY Base
      <3> QED
        BY <3>1, Division
    <2>4. next[k] = [v \in Nat |-> (e + v * BASE) % d]
      BY <1>2, <2>2
    <2> QED
      BY <2>3, <2>4
  <1>4. PICK c : UpTo(c, n, Nat, 0, next)
    BY <1>3, Defined
  <1>5. c \in [0 .. n -> Nat] /\ c[0] = 0 /\ \A k \in 1 .. n : c[k] = next[k][c[k - 1]]
    BY <1>4 DEF UpTo
  <1>6. ASSUME NEW k \in 1 .. n PROVE c[k] = (a[n - k + 1] + c[k - 1] * BASE) % d
    <2>1. k - 1 \in 0 .. n
      OBVIOUS
    <2>2. c[k - 1] \in Nat
      BY <1>5, <2>1
    <2> QED
      BY <1>2, <1>5, <2>2
  <1>7. c = [k \in 0 .. n |-> IF k = 0 THEN 0 ELSE (a[n - k + 1] + c[k - 1] * BASE) % d]
    <2>1. \A k \in 0 .. n : k # 0 => k \in 1 .. n
      OBVIOUS
    <2>2. c = [k \in 0 .. n |-> c[k]]
      BY <1>5
    <2> QED
      BY <1>5, <1>6, <2>1, <2>2
  <1> QED
    BY <1>1, <1>7 DEF IsRest

\* Quotient and remainder are unique.
LEMMA QuotientIs ==
  ASSUME NEW s \in Nat, NEW d \in Nat, NEW q \in Nat, NEW r \in Nat, r < d, s = q * d + r
  PROVE  s \div d = q /\ s % d = r
  <1>1. d > 0
    OBVIOUS
  <1>2. PICK u \in Nat, t \in Nat : u = s \div d /\ t = s % d /\ t < d /\ s = u * d + t
    BY <1>1, Division
  <1>3. ~(u < q)
    <2> SUFFICES ASSUME u < q PROVE FALSE
      OBVIOUS
    <2>1. PICK e \in Nat : q = u + 1 + e
      <3>1. q - (u + 1) \in Nat /\ q = u + 1 + (q - (u + 1))
        OBVIOUS
      <3> QED
        BY <3>1
    <2>2. q * d = u * d + d + e * d /\ e * d \in Nat /\ u * d \in Nat
      BY <2>1
    <2> QED
      BY <1>2, <2>2
  <1>4. ~(q < u)
    <2> SUFFICES ASSUME q < u PROVE FALSE
      OBVIOUS
    <2>1. PICK e \in Nat : u = q + 1 + e
      <3>1. u - (q + 1) \in Nat /\ u = q + 1 + (u - (q + 1))
        OBVIOUS
      <3> QED
        BY <3>1
    <2>2. u * d = q * d + d + e * d /\ e * d \in Nat /\ q * d \in Nat
      BY <2>1
    <2> QED
      BY <1>2, <2>2
  <1>5. u = q
    BY <1>3, <1>4
  <1>6. t = r
    <2>1. PICK u0 \in Nat : u0 = q * d
      OBVIOUS
    <2>2. u0 + t = u0 + r
      BY <1>2, <1>5, <2>1
    <2> QED
      BY <2>2
  <1> QED
    BY <1>2, <1>5, <1>6

\* The value counted from the top.
LEMMA FromTop ==
  ASSUME NEW a \in Seq(Nat), NEW n \in Nat, n = Len(a)
  PROVE  \E v \in [0 .. n -> Nat] :
           /\ Value(a) = v[n] /\ v[0] = 0
           /\ \A k \in 1 .. n : v[k] = v[k - 1] * BASE + a[n - k + 1]
  <1>1. PICK v : IsTop(v, a) /\ Value(a) = v[n]
    BY TopExists, ValueIs
  <1>2. v = [k \in 0 .. n |-> IF k = 0 THEN 0 ELSE v[k - 1] * BASE + a[n - k + 1]]
    BY <1>1 DEF IsTop
  <1>3. v[0] = 0 /\ \A k \in 1 .. n : v[k] = v[k - 1] * BASE + a[n - k + 1]
    <2>1. 0 \in 0 .. n /\ \A k \in 1 .. n : k \in 0 .. n /\ k # 0
      OBVIOUS
    <2> QED
      BY <1>2, <2>1
  <1> DEFINE T == {k \in Nat : k <= n => v[k] \in Nat}
  <1>4. 0 \in T
    BY <1>3
  <1>5. ASSUME NEW k \in Nat, k \in T PROVE k + 1 \in T
    <2> SUFFICES ASSUME k + 1 <= n PROVE v[k + 1] \in Nat
      OBVIOUS
    <2>1. k <= n /\ k + 1 \in 1 .. n /\ (k + 1) - 1 = k /\ n - (k + 1) + 1 \in 1 .. n
      OBVIOUS
    <2>2. PICK u \in Nat, d \in Nat : u = v[k] /\ d = a[n - (k + 1) + 1]
      <3>1. v[k] \in Nat
        BY <1>5, <2>1
      <3>2. a[n - (k + 1) + 1] \in Nat
        BY <2>1, ElementOfSeq
      <3> QED
        BY <3>1, <3>2
    <2>3. v[k + 1] = u * BASE + d
      BY <1>3, <2>1, <2>2
    <2>4. u * BASE + d \in Nat
      BY Base
    <2> QED
      BY <2>3, <2>4
  <1> HIDE DEF T
  <1>6. \A k \in Nat : k \in T
    BY <1>4, <1>5, Induction
  <1>7. \A k \in 0 .. n : v[k] \in Nat
    <2>1. \A k \in 0 .. n : k \in Nat /\ k <= n
      OBVIOUS
    <2> QED
      BY <1>6, <2>1 DEF T
  <1>8. v \in [0 .. n -> Nat]
    <2>1. v = [k \in 0 .. n |-> v[k]]
      BY <1>2
    <2> QED
      BY <1>7, <2>1
  <1> QED
    BY <1>1, <1>3, <1>8

\* operator/(unsigned): the quotient, which keeps a limb and has a leading zero only
\* if it is zero, for every divisor that is not.
THEOREM DivideRight ==
  ASSUME NEW a \in Seq(Limb), NEW d \in Nat, d > 0
  PROVE  /\ DivideByLimb(a, d) \in Seq(Limb)
         /\ Value(DivideByLimb(a, d)) = Value(a) \div d
         /\ Len(DivideByLimb(a, d)) <= Len(a)
         /\ Trimmed(DivideByLimb(a, d)) \/ DivideByLimb(a, d) = BZero
         /\ a # <<>> => DivideByLimb(a, d) # <<>>
  <1>1. PICK n \in Nat : n = Len(a) /\ DOMAIN a = 1 .. n
    BY LenProperties
  <1>2. PICK c : /\ IsRest(c, a, d)
                 /\ DivideByLimb(a, d) = IF Purge(Quotients(c, a, d)) = <<>> /\ a # <<>>
                                         THEN BZero ELSE Purge(Quotients(c, a, d))
    BY RestExists, DivideUnfold
  <1>3. /\ c[0] = 0
        /\ \A k \in 1 .. n : c[k] = (a[n - k + 1] + c[k - 1] * BASE) % d
    <2>1. c = [k \in 0 .. n |-> IF k = 0 THEN 0 ELSE (a[n - k + 1] + c[k - 1] * BASE) % d]
      BY <1>1, <1>2 DEF IsRest
    <2>2. 0 \in 0 .. n /\ \A k \in 1 .. n : k \in 0 .. n /\ k # 0
      OBVIOUS
    <2> QED
      BY <2>1, <2>2
  <1>4. \A k \in 1 .. n : a[k] \in Limb /\ a[k] \in Nat /\ a[k] < BASE
    <2>1. \A k \in 1 .. n : a[k] \in Limb
      BY <1>1, ElementOfSeq
    <2> QED
      BY <2>1, Base DEF Limb
  <1> DEFINE T == {k \in Nat : k <= n => c[k] \in Nat /\ c[k] < d}
  <1>5. 0 \in T
    BY <1>3
  <1>6. ASSUME NEW k \in Nat, k \in T PROVE k + 1 \in T
    <2> SUFFICES ASSUME k + 1 <= n PROVE c[k + 1] \in Nat /\ c[k + 1] < d
      OBVIOUS
    <2>1. k <= n /\ k + 1 \in 1 .. n /\ (k + 1) - 1 = k /\ n - (k + 1) + 1 \in 1 .. n
      OBVIOUS
    <2>2. PICK u \in Nat, e \in Nat : u = c[k] /\ e = a[n - (k + 1) + 1]
      BY <1>4, <1>6, <2>1
    <2>3. c[k + 1] = (e + u * BASE) % d
      BY <1>3, <2>1, <2>2
    <2>4. e + u * BASE \in Nat
      BY Base
    <2> QED
      BY <2>3, <2>4, Division
  <1> HIDE DEF T
  <1>7. \A k \in 0 .. n : c[k] \in Nat /\ c[k] < d
    <2>1. \A k \in Nat : k \in T
      BY <1>5, <1>6, Induction
    <2>2. \A k \in 0 .. n : k \in Nat /\ k <= n
      OBVIOUS
    <2> QED
      BY <2>1, <2>2 DEF T
  <1>8. PICK q : q = [k \in 1 .. n |-> (a[k] + c[n - k] * BASE) \div d]
    OBVIOUS
  <1>9. ASSUME NEW k \in 1 .. n
        PROVE  /\ q[k] \in Limb /\ q[k] \in Nat /\ c[n - k] \in Nat /\ c[n - k + 1] \in Nat
               /\ a[k] + c[n - k] * BASE = q[k] * d + c[n - k + 1]
    <2>1. n - k \in 0 .. n /\ n - k + 1 \in 1 .. n /\ (n - k + 1) - 1 = n - k
          /\ n - (n - k + 1) + 1 = k /\ n - k + 1 \in 0 .. n
      OBVIOUS
    <2>2. PICK u \in Nat, e \in Nat, w \in Nat :
            u = c[n - k] /\ u < d /\ e = a[k] /\ e < BASE /\ w = c[n - k + 1]
      BY <1>4, <1>7, <2>1
    <2>3. w = (e + u * BASE) % d
      BY <1>3, <2>1, <2>2
    <2>4. q[k] = (e + u * BASE) \div d
      BY <1>8, <2>2
    <2>5. PICK s \in Nat : s = e + u * BASE
      BY Base
    <2>6. s \div d \in Nat /\ s = (s \div d) * d + (s % d)
      BY <2>5, Division
    <2>7. s < BASE * d
      <3>1. PICK f \in Nat : d = u + 1 + f
        <4>1. d - (u + 1) \in Nat /\ d = u + 1 + (d - (u + 1))
          BY <2>2
        <4> QED
          BY <4>1
      <3>2. BASE * d = u * BASE + BASE + f * BASE /\ f * BASE \in Nat
        BY <3>1, Base
      <3>3. PICK x1 \in Nat, x2 \in Nat : x1 = u * BASE /\ x2 = f * BASE
        BY Base
      <3>4. e + x1 < x1 + BASE + x2
        BY <2>2, Base
      <3> QED
        BY <2>5, <3>2, <3>3, <3>4
    <2>8. s \div d < BASE
      BY <2>7, QuotientBelow, Base
    <2>9. s \div d \in Limb
      BY <2>6, <2>8, Base DEF Limb
    <2> QED
      BY <2>2, <2>3, <2>4, <2>5, <2>6, <2>9
  <1>10. q \in [1 .. n -> Limb]
    BY <1>8, <1>9
  <1>11. q \in Seq(Limb) /\ Len(q) = n
    BY <1>10, Row
  <1>12. a \in Seq(Nat) /\ q \in Seq(Nat)
    BY <1>11, Digits
  <1>13. PICK v \in [0 .. n -> Nat] :
           /\ Value(a) = v[n] /\ v[0] = 0
           /\ \A k \in 1 .. n : v[k] = v[k - 1] * BASE + a[n - k + 1]
    BY <1>1, <1>12, FromTop
  <1>14. PICK w \in [0 .. n -> Nat] :
           /\ Value(q) = w[n] /\ w[0] = 0
           /\ \A k \in 1 .. n : w[k] = w[k - 1] * BASE + q[n - k + 1]
    BY <1>11, <1>12, FromTop
  <1> DEFINE U == {k \in Nat : k <= n => v[k] = w[k] * d + c[k]}
  <1>15. 0 \in U
    <2>1. 0 = 0 * d + 0
      OBVIOUS
    <2> QED
      BY <1>3, <1>13, <1>14, <2>1
  <1>16. ASSUME NEW k \in Nat, k \in U PROVE k + 1 \in U
    <2> SUFFICES ASSUME k + 1 <= n PROVE v[k + 1] = w[k + 1] * d + c[k + 1]
      OBVIOUS
    <2>1. PICK j \in 1 .. n : j = n - (k + 1) + 1 /\ n - j = k /\ n - j + 1 = k + 1
      OBVIOUS
    <2>2. k <= n /\ k + 1 \in 1 .. n /\ (k + 1) - 1 = k /\ k \in 0 .. n
      OBVIOUS
    <2>3. PICK e \in Nat, f \in Nat, g \in Nat, h \in Nat :
            /\ e = a[j] /\ f = q[j] /\ g = c[k] /\ h = c[k + 1]
            /\ e + g * BASE = f * d + h
      <3>1. /\ q[j] \in Nat /\ c[n - j] \in Nat /\ c[n - j + 1] \in Nat
            /\ a[j] + c[n - j] * BASE = q[j] * d + c[n - j + 1]
        BY <1>9
      <3>2. a[j] \in Nat
        BY <1>4
      <3>3. c[n - j] = c[k] /\ c[n - j + 1] = c[k + 1]
        BY <2>1
      <3>4. PICK e \in Nat, f \in Nat, g \in Nat, h \in Nat :
              e = a[j] /\ f = q[j] /\ g = c[k] /\ h = c[k + 1]
        BY <3>1, <3>2, <3>3
      <3>5. e + g * BASE = f * d + h
        BY <3>1, <3>3, <3>4
      <3> QED
        BY <3>4, <3>5
    <2>4. PICK u0 \in Nat, w0 \in Nat : u0 = v[k] /\ w0 = w[k] /\ u0 = w0 * d + g
      BY <1>16, <2>2, <2>3
    <2>5. v[k + 1] = u0 * BASE + e
      BY <1>13, <2>1, <2>2, <2>3, <2>4
    <2>6. w[k + 1] = w0 * BASE + f
      BY <1>14, <2>1, <2>2, <2>3, <2>4
    <2>7. u0 * BASE + e = (w0 * BASE + f) * d + h
      <3>1. u0 * BASE = (w0 * BASE) * d + g * BASE
        <4>1. (w0 * d + g) * BASE = (w0 * BASE) * d + g * BASE
          BY Base
        <4> QED
          BY <2>4, <4>1
      <3>2. (w0 * BASE + f) * d = (w0 * BASE) * d + f * d
        BY Base
      <3>3. PICK x1 \in Nat, x2 \in Nat, x3 \in Nat, x4 \in Nat :
              x1 = u0 * BASE /\ x2 = (w0 * BASE) * d /\ x3 = g * BASE /\ x4 = f * d
        BY Base
      <3>4. x1 = x2 + x3 /\ e + x3 = x4 + h
        BY <2>3, <3>1, <3>3
      <3>5. x1 + e = (x2 + x4) + h
        BY <3>4
      <3> QED
        BY <3>2, <3>3, <3>5
    <2> QED
      BY <2>3, <2>5, <2>6, <2>7
  <1> HIDE DEF U
  <1>17. v[n] = w[n] * d + c[n]
    <2>1. n \in U
      BY <1>15, <1>16, Induction
    <2>2. n <= n
      OBVIOUS
    <2> QED
      BY <2>1, <2>2 DEF U
  <1>18. Value(q) = Value(a) \div d
    <2>1. PICK u0 \in Nat, w0 \in Nat, g \in Nat :
            u0 = v[n] /\ w0 = w[n] /\ g = c[n] /\ g < d /\ u0 = w0 * d + g
      <3>1. n \in 0 .. n
        OBVIOUS
      <3> QED
        BY <1>7, <1>17, <3>1
    <2>2. u0 \div d = w0
      BY <2>1, QuotientIs
    <2> QED
      BY <1>13, <1>14, <2>1, <2>2
  <1>19. PICK p : p = Purge(q)
    OBVIOUS
  <1>20. p \in Seq(Limb) /\ Len(p) <= n /\ Value(p) = Value(q) /\ Trimmed(p)
    BY <1>11, <1>19, PurgeRight
  <1>21. DivideByLimb(a, d) = IF p = <<>> /\ a # <<>> THEN BZero ELSE p
    <2>1. q = Quotients(c, a, d)
      BY <1>1, <1>8 DEF Quotients
    <2> QED
      BY <1>2, <1>19, <2>1
  <1>22. CASE p = <<>> /\ a # <<>>
    <2>1. BZero \in Seq(Limb) /\ Len(BZero) = 1 /\ Value(BZero) = 0 /\ BZero # <<>>
      BY Zero
    <2>2. 1 <= n
      <3>1. Len(a) # 0
        BY <1>22, EmptySeq
      <3> QED
        BY <1>1, <3>1
    <2>3. Value(p) = 0
      BY <1>22, Empty
    <2> QED
      BY <1>1, <1>18, <1>20, <1>21, <1>22, <2>1, <2>2, <2>3
  <1>23. CASE ~(p = <<>> /\ a # <<>>)
    BY <1>1, <1>18, <1>20, <1>21, <1>23
  <1> QED
    BY <1>22, <1>23
-----------------------------------------------------------------------------
(* operator* (unsigned) of normal::Bignum *)

\* A number that needs all its limbs has no leading zero,
LEMMA TrimmedIf ==
  ASSUME NEW s \in Seq(Limb), NEW n \in Nat, Len(s) = n + 1, Pow[n] <= Value(s)
  PROVE  Trimmed(s)
  <1>1. s \in Seq(Nat)
    BY Digits
  <1> SUFFICES ASSUME At(s, n + 1) = 0 PROVE FALSE
    BY DEF Trimmed
  <1>2. PICK p \in Nat, l \in Nat : p = Pow[n] /\ l = Low(s)[n] /\ l < p
    BY <1>1, Powers, Lows, Bounded
  <1>3. Low(s)[n + 1] = l + 0 * p
    BY <1>1, <1>2, Lows
  <1>4. Value(s) = l + 0 * p
    BY <1>1, <1>3, ValueLow
  <1>5. l + 0 * p = l
    OBVIOUS
  <1> QED
    BY <1>2, <1>4, <1>5

\* and the other way round.
LEMMA IfTrimmed ==
  ASSUME NEW s \in Seq(Limb), NEW n \in Nat, Len(s) = n + 1, Trimmed(s)
  PROVE  Pow[n] <= Value(s)
  <1>1. s # <<>>
    BY Empty
  <1>2. At(s, n + 1) # 0
    BY <1>1 DEF Trimmed
  <1> QED
    BY <1>2, Digits, TopLimb

\* The carries of a multiplication by at most BASE are less than the factor.
LEMMA CarryBelow ==
  ASSUME NEW n \in Nat, NEW d \in Nat, d > 0, NEW b \in Seq(Limb),
         NEW c, IsCarry(c, n, <<>>, d, b)
  PROVE  \A k \in 0 .. n : c[k] \in Nat /\ c[k] < d
  <1> DEFINE T == {k \in Nat : k <= n => c[k] \in Nat /\ c[k] < d}
  <1>1. 0 \in T
    BY DEF IsCarry
  <1>2. ASSUME NEW k \in Nat, k \in T PROVE k + 1 \in T
    <2> SUFFICES ASSUME k + 1 <= n PROVE c[k + 1] \in Nat /\ c[k + 1] < d
      OBVIOUS
    <2>1. k <= n /\ k + 1 \in 1 .. n /\ (k + 1) - 1 = k
      OBVIOUS
    <2>2. PICK u \in Nat : u = c[k] /\ u + 1 <= d
      BY <1>2, <2>1
    <2>3. PICK w \in Nat : w = At(b, k + 1) /\ w + 1 <= BASE
      <3>1. At(b, k + 1) \in Limb
        BY Digits
      <3>2. At(b, k + 1) \in Nat /\ At(b, k + 1) + 1 <= BASE
        BY <3>1, Base DEF Limb
      <3> QED
        BY <3>2
    <2>4. c[k + 1] = (0 + d * w + u) \div BASE
      BY <2>1, <2>2, <2>3, Empty DEF IsCarry
    <2>5. PICK s \in Nat : s = d * w + u
      OBVIOUS
    <2>6. s < d * BASE
      <3>1. PICK e \in Nat : BASE = w + 1 + e
        <4>1. BASE - (w + 1) \in Nat /\ BASE = w + 1 + (BASE - (w + 1))
          BY <2>3, Base
        <4> QED
          BY <4>1
      <3>2. d * BASE = d * w + d + d * e
        BY <3>1
      <3>3. PICK x1 \in Nat, x2 \in Nat : x1 = d * w /\ x2 = d * e
        OBVIOUS
      <3>4. x1 + u < x1 + d + x2
        BY <2>2
      <3> QED
        BY <2>5, <3>2, <3>3, <3>4
    <2>7. c[k + 1] = s \div BASE
      BY <2>4, <2>5
    <2>8. s \div BASE \in Nat
      BY InBase
    <2>9. s \div BASE < d
      BY <2>6, QuotientBelow, Base
    <2> QED
      BY <2>7, <2>8, <2>9
  <1> HIDE DEF T
  <1>3. \A k \in Nat : k \in T
    BY <1>1, <1>2, Induction
  <1>4. \A k \in 0 .. n : k \in Nat /\ k <= n
    OBVIOUS
  <1> QED
    BY <1>3, <1>4 DEF T

IsLimbCarry(c, b, d) ==
  c = [k \in 0 .. Len(b) |-> IF k = 0 THEN 0 ELSE (c[k - 1] + b[k] * d) \div BASE]
LimbTimes(c, b, d) ==
  [k \in DOMAIN b |-> (c[k - 1] + b[k] * d) % BASE]
    \o IF c[Len(b)] > 0 THEN <<c[Len(b)]>> ELSE <<>>

\* The carries of TimesLimb.
LEMMA TimesLimbUnfold ==
  ASSUME NEW b, NEW d, NEW e, IsLimbCarry(e, b, d)
  PROVE  \E c : /\ IsLimbCarry(c, b, d)
                /\ TimesLimb(b, d) = IF d = 0 THEN NormalZero
                                     ELSE IF d = 1 THEN b ELSE LimbTimes(c, b, d)
  <1> DEFINE c == CHOOSE c : IsLimbCarry(c, b, d)
  <1>1. IsLimbCarry(c, b, d)
    OBVIOUS
  <1>2. TimesLimb(b, d) = IF d = 0 THEN NormalZero
                          ELSE IF d = 1 THEN b ELSE LimbTimes(c, b, d)
    BY DEF TimesLimb, LimbTimes, IsLimbCarry
  <1> QED
    BY <1>1, <1>2

\* b times d, and no leading zero if b has none.
THEOREM TimesLimbRight ==
  ASSUME NEW b \in Seq(Limb), NEW d \in 0 .. BASE
  PROVE  /\ TimesLimb(b, d) \in Seq(Limb)
         /\ Trimmed(b) => Trimmed(TimesLimb(b, d))
         /\ Value(TimesLimb(b, d)) = d * Value(b)
  <1>1. PICK n \in Nat : n = Len(b) /\ DOMAIN b = 1 .. n
    BY LenProperties
  <1>2. d \in Nat /\ d <= BASE
    BY Base
  <1>3. PICK v \in Nat : v = Value(b)
    BY Digits, ValueLow
  <1>4. \A k \in 1 .. n : /\ b[k] \in Nat /\ At(b, k) = b[k]
                          /\ d * b[k] \in Nat /\ b[k] * d = d * b[k]
    <2>1. ASSUME NEW k \in 1 .. n PROVE b[k] \in Nat /\ At(b, k) = b[k]
      <3>1. At(b, k) = b[k]
        BY <1>1 DEF At
      <3> QED
        BY <3>1, Digits
    <2>2. \A u0 \in Nat : d * u0 \in Nat /\ u0 * d = d * u0
      BY <1>2
    <2> QED
      BY <2>1, <2>2
  <1>5. PICK c : /\ IsLimbCarry(c, b, d)
                 /\ TimesLimb(b, d) = IF d = 0 THEN NormalZero
                                      ELSE IF d = 1 THEN b ELSE LimbTimes(c, b, d)
    <2>1. PICK e : e \in [0 .. n -> Nat] /\ IsCarry(e, n, <<>>, d, b)
      BY <1>2, CarryExists, Empty
    <2>2. ASSUME NEW k \in 1 .. n PROVE e[k] = (e[k - 1] + b[k] * d) \div BASE
      <3>1. k - 1 \in 0 .. n
        OBVIOUS
      <3>2. PICK u0 \in Nat, w0 \in Nat : u0 = e[k - 1] /\ w0 = d * b[k]
        BY <1>4, <2>1, <3>1
      <3>3. e[k] = (0 + d * At(b, k) + e[k - 1]) \div BASE
        BY <2>1, Empty DEF IsCarry
      <3>4. 0 + w0 + u0 = u0 + w0
        OBVIOUS
      <3> QED
        BY <1>4, <3>2, <3>3, <3>4
    <2>3. e = [k \in 0 .. n |-> IF k = 0 THEN 0 ELSE (e[k - 1] + b[k] * d) \div BASE]
      <3>1. \A k \in 0 .. n : k # 0 => k \in 1 .. n
        OBVIOUS
      <3>2. e = [k \in 0 .. n |-> e[k]] /\ e[0] = 0
        BY <2>1 DEF IsCarry
      <3> QED
        BY <2>2, <3>1, <3>2
    <2>4. IsLimbCarry(e, b, d)
      BY <1>1, <2>3 DEF IsLimbCarry
    <2> QED
      BY <2>4, TimesLimbUnfold
  <1>6. CASE d = 0
    <2>1. TimesLimb(b, d) = <<>>
      BY <1>5, <1>6 DEF NormalZero
    <2>2. d * v = 0
      BY <1>6
    <2> QED
      BY <1>3, <2>1, <2>2, Empty DEF Trimmed
  <1>7. CASE d = 1
    <2>1. TimesLimb(b, d) = b
      BY <1>5, <1>7
    <2>2. d * v = v
      BY <1>7
    <2> QED
      BY <1>3, <2>1, <2>2
  <1>8. CASE d > 1
    <2>1. TimesLimb(b, d) = LimbTimes(c, b, d)
      BY <1>5, <1>8
    <2>2. c[0] = 0 /\ \A k \in 1 .. n : c[k] = (c[k - 1] + b[k] * d) \div BASE
      <3>1. c = [k \in 0 .. n |-> IF k = 0 THEN 0 ELSE (c[k - 1] + b[k] * d) \div BASE]
        BY <1>1, <1>5 DEF IsLimbCarry
      <3>2. 0 \in 0 .. n /\ \A k \in 1 .. n : k \in 0 .. n /\ k # 0
        OBVIOUS
      <3> QED
        BY <3>1, <3>2
    <2>3. \A k \in 0 .. n : c[k] \in Nat
      <3> DEFINE T == {k \in Nat : k <= n => c[k] \in Nat}
      <3>1. 0 \in T
        BY <2>2
      <3>2. ASSUME NEW k \in Nat, k \in T PROVE k + 1 \in T
        <4> SUFFICES ASSUME k + 1 <= n PROVE c[k + 1] \in Nat
          OBVIOUS
        <4>1. k <= n /\ k + 1 \in 1 .. n /\ (k + 1) - 1 = k
          OBVIOUS
        <4>2. PICK u0 \in Nat, w0 \in Nat : u0 = c[k] /\ w0 = b[k + 1] * d
          BY <1>4, <3>2, <4>1
        <4>3. c[k + 1] = (u0 + w0) \div BASE
          BY <2>2, <4>1, <4>2
        <4>4. u0 + w0 \in Nat
          OBVIOUS
        <4> QED
          BY <4>3, <4>4, InBase
      <3> HIDE DEF T
      <3>3. \A k \in Nat : k \in T
        BY <3>1, <3>2, Induction
      <3>4. \A k \in 0 .. n : k \in Nat /\ k <= n
        OBVIOUS
      <3> QED
        BY <3>3, <3>4 DEF T
    <2>4. ASSUME NEW k \in 1 .. n
          PROVE  0 + d * At(b, k) + c[k - 1] = c[k - 1] + b[k] * d
      <3>1. k - 1 \in 0 .. n
        OBVIOUS
      <3>2. PICK u0 \in Nat, w0 \in Nat : u0 = c[k - 1] /\ w0 = d * b[k]
        BY <1>4, <2>3, <3>1
      <3>3. 0 + w0 + u0 = u0 + w0
        OBVIOUS
      <3> QED
        BY <1>4, <3>2, <3>3
    <2>5. IsCarry(c, n, <<>>, d, b)
      BY <2>2, <2>4, Empty DEF IsCarry
    <2>6. c[n] \in Nat /\ c[n] < d
      <3>1. n \in 0 .. n
        OBVIOUS
      <3>2. \A k \in 0 .. n : c[k] \in Nat /\ c[k] < d
        BY <1>2, <1>8, <2>5, CarryBelow
      <3> QED
        BY <3>1, <3>2
    <2>7. PICK s : s = [k \in 1 .. n |-> (c[k - 1] + b[k] * d) % BASE]
      OBVIOUS
    <2>8. s \in [1 .. n -> Limb]
      <3>1. ASSUME NEW k \in 1 .. n PROVE s[k] \in Limb
        <4>1. k - 1 \in 0 .. n
          OBVIOUS
        <4>2. PICK u0 \in Nat, w0 \in Nat : u0 = c[k - 1] /\ w0 = b[k] * d
          BY <1>4, <2>3, <4>1
        <4>3. u0 + w0 \in Nat
          OBVIOUS
        <4> QED
          BY <2>7, <4>2, <4>3, InBase
      <3> QED
        BY <2>7, <3>1
    <2>9. s \in Seq(Limb) /\ Len(s) = n /\ \A k \in 1 .. n : At(s, k) = s[k]
      BY <2>8, Row
    <2>10. IsDigits(s, c, n, <<>>, d, b)
      BY <2>4, <2>7, <2>9, Empty DEF IsDigits
    <2>11. s \in Seq(Nat) /\ b \in Seq(Nat)
      BY <2>9, Digits
    <2>12. PICK w \in Nat, p \in Nat, e \in Nat :
             w = Value(s) /\ w = Low(s)[n] /\ p = Pow[n] /\ e = c[n]
      BY <2>6, <2>9, <2>11, ValueLow, Powers
    <2>13. 0 + d * v = w + e * p
      <3>1. Len(<<>>) <= n /\ Len(b) <= n
        BY <1>1, Empty
      <3>2. Value(<<>>) + d * Value(b) = Low(s)[n] + c[n] * Pow[n]
        <4>1. PICK none \in Seq(Limb) : none = <<>>
          BY Empty
        <4>2. /\ IsCarry(c, n, none, d, b) /\ IsDigits(s, c, n, none, d, b)
              /\ Len(none) <= n
          BY <2>5, <2>10, <3>1, <4>1
        <4>3. d \in Nat /\ s \in Seq(Nat) /\ Len(b) <= n
          BY <1>2, <2>11, <3>1
        <4>4. Value(none) + d * Value(b) = Low(s)[n] + c[n] * Pow[n]
          BY <4>2, <4>3, Exact
        <4> QED
          BY <4>1, <4>4
      <3> QED
        BY <1>3, <2>12, <3>2, Empty
    <2>14. TimesLimb(b, d) = s \o IF e > 0 THEN <<e>> ELSE <<>>
      BY <1>1, <2>1, <2>7, <2>12 DEF LimbTimes
    <2>15. CASE e > 0
      <3>1. e \in Limb
        BY <1>2, <2>6, <2>12, Base DEF Limb
      <3>2. TimesLimb(b, d) = s \o <<e>>
        BY <2>14, <2>15
      <3>3. /\ s \o <<e>> \in Seq(Limb) /\ Len(s \o <<e>>) = n + 1
            /\ At(s \o <<e>>, n + 1) = e
        BY <2>9, <3>1, OnTop
      <3>4. Value(s \o <<e>>) = w + e * p
        BY <2>9, <2>12, <3>1, ValueOnTop
      <3>5. Trimmed(s \o <<e>>)
        BY <2>15, <3>3 DEF Trimmed
      <3>6. d * v = w + e * p
        BY <1>2, <2>13
      <3> QED
        BY <1>3, <3>2, <3>3, <3>4, <3>5, <3>6
    <2>16. CASE e = 0
      <3>1. TimesLimb(b, d) = s
        <4>1. ~(e > 0)
          BY <2>16
        <4> QED
          BY <2>9, <2>14, <4>1, ConcatEmptySeq
      <3>2. d * v = w
        BY <1>2, <2>13, <2>16
      <3>3. ASSUME Trimmed(b) PROVE Trimmed(s)
        <4>1. CASE n = 0
          BY <2>9, <4>1, EmptySeq DEF Trimmed
        <4>2. CASE n # 0
          <5>1. PICK m \in Nat : n = m + 1
            <6>1. n - 1 \in Nat /\ n = (n - 1) + 1
              BY <4>2
            <6> QED
              BY <6>1
          <5>2. Pow[m] \in Nat /\ Pow[m] <= v
            BY <1>1, <1>3, <3>3, <5>1, IfTrimmed, Powers
          <5>3. v <= d * v
            <6>1. PICK f \in Nat : d = 1 + f
              <7>1. d - 1 \in Nat /\ d = 1 + (d - 1)
                BY <1>2, <1>8
              <7> QED
                BY <7>1
            <6>2. d * v = v + f * v /\ f * v \in Nat
              BY <6>1
            <6> QED
              BY <6>2
          <5>4. Pow[m] <= w
            BY <3>2, <5>2, <5>3
          <5> QED
            BY <2>9, <2>12, <5>1, <5>4, TrimmedIf
        <4> QED
          BY <4>1, <4>2
      <3> QED
        BY <1>3, <2>9, <2>12, <3>1, <3>2, <3>3
    <2> QED
      BY <2>15, <2>16
  <1> QED
    BY <1>2, <1>6, <1>7, <1>8
-----------------------------------------------------------------------------
(* bin_search *)

Lefts == 0 .. BASE
Rights == -1 .. BASE - 1
Outcome == [digit : Lefts, rest : Seq(Limb)]

SearchFrom(f, b, target, left, right) ==
  LET mid == (left + right) \div 2
      low == TimesLimb(b, mid)
      high == TimesLimb(b, mid + 1)
  IN IF left > right THEN [digit |-> left, rest |-> target]
     ELSE IF Less(high, target) THEN f[<<mid + 1, right>>]
     ELSE IF Less(target, low) THEN f[<<left, mid - 1>>]
     ELSE IF target = high
       THEN [digit |-> mid + 1, rest |-> NormalMinus(target, high)]
     ELSE [digit |-> mid, rest |-> NormalMinus(target, low)]
IsSearch(f, b, target) ==
  f = [bounds \in (0 .. BASE) \X (-1 .. BASE - 1) |->
         SearchFrom(f, b, target, bounds[1], bounds[2])]

\* The calls of bin_search.
LEMMA SearchUnfold ==
  ASSUME NEW b, NEW target, NEW e, IsSearch(e, b, target)
  PROVE  \E f : IsSearch(f, b, target) /\ BinSearch(b, target) = f[<<0, BASE - 1>>]
  <1> DEFINE f == CHOOSE f : IsSearch(f, b, target)
  <1>1. IsSearch(f, b, target)
    OBVIOUS
  <1>2. BinSearch(b, target) = f[<<0, BASE - 1>>]
    BY DEF BinSearch, IsSearch, SearchFrom
  <1> QED
    BY <1>1, <1>2

\* The middle lies between, and the search goes on in less than there was.
LEMMA Middle ==
  ASSUME NEW left \in Lefts, NEW right \in Rights, left <= right
  PROVE  \E mid \in 0 .. BASE - 1 :
           /\ mid = (left + right) \div 2 /\ left <= mid /\ mid <= right
           /\ mid + 1 \in Lefts /\ mid - 1 \in Rights
           /\ right - (mid + 1) + 1 <= right - left
           /\ (mid - 1) - left + 1 <= right - left
  <1>1. left \in Nat /\ right \in Nat /\ right <= BASE - 1 /\ left <= BASE
    BY Base DEF Lefts, Rights
  <1>2. PICK mid \in Int : mid = (left + right) \div 2
    BY <1>1
  <1>3. left <= mid /\ mid <= right
    BY <1>1, <1>2
  <1> QED
    BY <1>1, <1>2, <1>3, Base DEF Lefts, Rights

\* Without leading zeros, numbers compare as what they stand for.
LEMMA LessTrimmed ==
  ASSUME NEW a \in Seq(Limb), Trimmed(a), NEW b \in Seq(Limb), Trimmed(b)
  PROVE  /\ Less(a, b) <=> Value(a) < Value(b)
         /\ ~Less(a, b) /\ ~Less(b, a) => a = b
         /\ Value(a) \in Nat /\ Value(b) \in Nat
  <1>1. Len(a) \in Nat /\ Len(b) \in Nat
    BY Digits
  <1>2. /\ Len(a) < Len(b) => At(b, Len(b)) # 0
        /\ Len(b) < Len(a) => At(a, Len(a)) # 0
    <2>1. Len(a) < Len(b) => b # <<>>
      BY <1>1, Empty
    <2>2. Len(b) < Len(a) => a # <<>>
      BY <1>1, Empty
    <2> QED
      BY <2>1, <2>2 DEF Trimmed
  <1> QED
    BY <1>2, LessIs

\* The difference of what bin_search compares.
LEMMA NormalMinusRight ==
  ASSUME NEW a \in Seq(Limb), Trimmed(a), NEW b \in Seq(Limb), Trimmed(b), ~Less(a, b)
  PROVE  /\ NormalMinus(a, b) \in Seq(Limb) /\ Trimmed(NormalMinus(a, b))
         /\ Value(NormalMinus(a, b)) = Value(a) - Value(b)
  <1>1. Len(a) \in Nat /\ Len(b) \in Nat
    BY Digits
  <1>3. /\ Less(a, b) <=> Value(a) < Value(b)
        /\ Value(a) \in Nat /\ Value(b) \in Nat
    BY LessTrimmed
  <1>4. Value(b) <= Value(a)
    BY <1>3
  <1>5. Len(b) <= Len(a)
    BY <1>1, LessIsShorter
  <1>6. NormalMinus(a, b) = Difference(a, b)
    BY DEF NormalMinus
  <1> QED
    BY <1>4, <1>5, <1>6, DifferenceRight

\* Pairs whose limits are at most m apart.
Within(m, left, right) == left \in Lefts /\ right \in Rights /\ right - left + 1 <= m

Agree(f, g, m) ==
  \A left \in Lefts, right \in Rights :
    Within(m, left, right) => f[<<left, right>>] = g[<<left, right>>]

\* A call depends only on those between bounds that are closer together.
LEMMA SearchAgrees ==
  ASSUME NEW b, NEW target, NEW f, NEW g, NEW m \in Nat, Agree(f, g, m),
         NEW left \in Lefts, NEW right \in Rights, Within(m + 1, left, right)
  PROVE  SearchFrom(f, b, target, left, right) = SearchFrom(g, b, target, left, right)
  <1>1. CASE left > right
    BY <1>1 DEF SearchFrom
  <1>2. CASE left <= right
    <2>1. left \in Int /\ right \in Int
      BY Base DEF Lefts, Rights
    <2>2. PICK mid \in 0 .. BASE - 1 :
            /\ mid = (left + right) \div 2 /\ mid + 1 \in Lefts /\ mid - 1 \in Rights
            /\ right - (mid + 1) + 1 <= right - left
            /\ (mid - 1) - left + 1 <= right - left
      BY <1>2, Middle
    <2>3. mid \in Int
      OBVIOUS
    <2>4. right - left <= m
      BY <2>1 DEF Within
    <2>5. Within(m, mid + 1, right) /\ Within(m, left, mid - 1)
      BY <2>1, <2>2, <2>3, <2>4 DEF Within
    <2>6. f[<<mid + 1, right>>] = g[<<mid + 1, right>>] /\ f[<<left, mid - 1>>] = g[<<left, mid - 1>>]
      BY <2>2, <2>5 DEF Agree
    <2> QED
      BY <2>2, <2>6 DEF SearchFrom
  <1> QED
    BY <1>1, <1>2, Base DEF Lefts, Rights

\* One call returns a digit and a number, if those it makes do.
LEMMA SearchOutcome ==
  ASSUME NEW b \in Seq(Limb), NEW target \in Seq(Limb),
         NEW f \in [Lefts \X Rights -> Outcome], NEW left \in Lefts, NEW right \in Rights
  PROVE  SearchFrom(f, b, target, left, right) \in Outcome
  <1>1. CASE left > right
    <2>1. SearchFrom(f, b, target, left, right) = [digit |-> left, rest |-> target]
      BY <1>1 DEF SearchFrom
    <2> QED
      BY <2>1 DEF Outcome
  <1>2. CASE left <= right
    <2>1. PICK mid \in 0 .. BASE - 1 :
            mid = (left + right) \div 2 /\ mid + 1 \in Lefts /\ mid - 1 \in Rights
      BY <1>2, Middle
    <2>2. mid \in 0 .. BASE /\ mid + 1 \in 0 .. BASE /\ mid \in Lefts
      BY <2>1, Base DEF Lefts
    <2>3. PICK low, high : low = TimesLimb(b, mid) /\ high = TimesLimb(b, mid + 1)
      OBVIOUS
    <2>4. low \in Seq(Limb) /\ high \in Seq(Limb)
      BY <2>2, <2>3, TimesLimbRight
    <2>5. ~(left > right)
      BY <1>2, Base DEF Lefts, Rights
    <2>6. SearchFrom(f, b, target, left, right) =
            IF Less(high, target) THEN f[<<mid + 1, right>>]
            ELSE IF Less(target, low) THEN f[<<left, mid - 1>>]
            ELSE IF target = high
              THEN [digit |-> mid + 1, rest |-> NormalMinus(target, high)]
            ELSE [digit |-> mid, rest |-> NormalMinus(target, low)]
      BY <2>1, <2>3, <2>5 DEF SearchFrom
    <2>7. f[<<mid + 1, right>>] \in Outcome /\ f[<<left, mid - 1>>] \in Outcome
      BY <2>1
    <2>8. \A s \in Seq(Limb) : NormalMinus(target, s) \in Seq(Limb)
      BY DifferenceIn, Empty DEF NormalMinus, NormalZero
    <2>9. /\ [digit |-> mid, rest |-> NormalMinus(target, low)] \in Outcome
          /\ [digit |-> mid + 1, rest |-> NormalMinus(target, high)] \in Outcome
      BY <2>1, <2>2, <2>4, <2>8 DEF Outcome
    <2> QED
      BY <2>6, <2>7, <2>9
  <1> QED
    BY <1>1, <1>2, Base DEF Lefts, Rights

\* The search is defined: it goes on within less and less.
LEMMA SearchExists ==
  ASSUME NEW b \in Seq(Limb), NEW target \in Seq(Limb)
  PROVE  \E f : IsSearch(f, b, target) /\ f \in [Lefts \X Rights -> Outcome]
  <1>1. PICK S : S = [Lefts \X Rights -> Outcome]
    OBVIOUS
  <1>2. PICK start : start = [bounds \in Lefts \X Rights |->
                                [digit |-> BASE, rest |-> target]]
    OBVIOUS
  <1>3. start \in S
    <2>1. BASE \in Lefts
      BY Base DEF Lefts
    <2>2. [digit |-> BASE, rest |-> target] \in Outcome
      BY <2>1 DEF Outcome
    <2> QED
      BY <1>1, <1>2, <2>2
  <1>4. PICK next : next = [k \in 1 .. BASE + 2 |-> [f \in S |->
                     [bounds \in Lefts \X Rights |->
                        SearchFrom(f, b, target, bounds[1], bounds[2])]]]
    OBVIOUS
  <1>5. ASSUME NEW k \in 1 .. BASE + 2 PROVE next[k] \in [S -> S]
    <2>1. ASSUME NEW f \in S
          PROVE  [bounds \in Lefts \X Rights |->
                    SearchFrom(f, b, target, bounds[1], bounds[2])] \in S
      <3>1. \A left \in Lefts, right \in Rights :
              SearchFrom(f, b, target, left, right) \in Outcome
        BY <1>1, SearchOutcome
      <3> QED
        BY <1>1, <3>1
    <2> QED
      BY <1>4, <2>1
  <1>6. BASE + 2 \in Nat
    BY Base
  <1>7. PICK F : UpTo(F, BASE + 2, S, start, next)
    BY <1>3, <1>5, <1>6, Defined
  <1>8. /\ \A k \in 0 .. BASE + 2 : F[k] \in S
        /\ \A k \in 1 .. BASE + 2 : F[k] = [bounds \in Lefts \X Rights |->
                                              SearchFrom(F[k - 1], b, target, bounds[1], bounds[2])]
    <2>1. /\ F \in [0 .. BASE + 2 -> S]
          /\ \A k \in 1 .. BASE + 2 : F[k] = next[k][F[k - 1]]
      BY <1>7 DEF UpTo
    <2>2. \A k \in 1 .. BASE + 2 : k - 1 \in 0 .. BASE + 2
      BY Base
    <2>3. \A k \in 1 .. BASE + 2 : F[k - 1] \in S
      BY <2>1, <2>2
    <2> QED
      BY <1>4, <2>1, <2>3
  <1> DEFINE T == {m \in Nat : m <= BASE => Agree(F[m + 1], F[m + 2], m)}
  <1>9. 0 \in T
    <2> SUFFICES ASSUME NEW left \in Lefts, NEW right \in Rights, Within(0, left, right)
                 PROVE  F[1][<<left, right>>] = F[2][<<left, right>>]
      BY DEF Agree
    <2>1. left > right
      BY Base DEF Within, Lefts, Rights
    <2>2. 1 \in 1 .. BASE + 2 /\ 2 \in 1 .. BASE + 2 /\ 0 + 1 = 1 /\ 0 + 2 = 2
      BY Base
    <2>3. \A k \in 1 .. BASE + 2 :
            F[k][<<left, right>>] = SearchFrom(F[k - 1], b, target, left, right)
      BY <1>8
    <2>4. \A f : SearchFrom(f, b, target, left, right) = [digit |-> left, rest |-> target]
      BY <2>1 DEF SearchFrom
    <2>5. F[1][<<left, right>>] = [digit |-> left, rest |-> target]
      BY <2>2, <2>3, <2>4
    <2>6. F[2][<<left, right>>] = [digit |-> left, rest |-> target]
      BY <2>2, <2>3, <2>4
    <2> QED
      BY <2>5, <2>6
  <1>10. ASSUME NEW m \in Nat, m \in T PROVE m + 1 \in T
    <2> SUFFICES ASSUME m + 1 <= BASE, NEW left \in Lefts, NEW right \in Rights,
                        Within(m + 1, left, right)
                 PROVE  F[(m + 1) + 1][<<left, right>>] = F[(m + 1) + 2][<<left, right>>]
      BY DEF Agree
    <2>1. /\ m <= BASE /\ m + 2 \in 1 .. BASE + 2 /\ (m + 2) - 1 = m + 1
          /\ m + 3 \in 1 .. BASE + 2 /\ (m + 3) - 1 = m + 2
          /\ (m + 1) + 1 = m + 2 /\ (m + 1) + 2 = m + 3
      BY Base
    <2>2. Agree(F[m + 1], F[m + 2], m)
      BY <1>10, <2>1
    <2>3. SearchFrom(F[m + 1], b, target, left, right)
            = SearchFrom(F[m + 2], b, target, left, right)
      BY <2>2, SearchAgrees
    <2>4. \A k \in 1 .. BASE + 2 :
            F[k][<<left, right>>] = SearchFrom(F[k - 1], b, target, left, right)
      BY <1>8
    <2> QED
      BY <2>1, <2>3, <2>4
  <1> HIDE DEF T
  <1>11. Agree(F[BASE + 1], F[BASE + 2], BASE)
    <2>1. BASE \in T
      BY <1>9, <1>10, Base, Induction
    <2>2. BASE <= BASE
      BY Base
    <2> QED
      BY <2>1, <2>2 DEF T
  <1>12. \A left \in Lefts, right \in Rights :
           F[BASE + 1][<<left, right>>] = SearchFrom(F[BASE + 1], b, target, left, right)
    <2> SUFFICES ASSUME NEW left \in Lefts, NEW right \in Rights
                 PROVE  F[BASE + 1][<<left, right>>]
                          = SearchFrom(F[BASE + 1], b, target, left, right)
      OBVIOUS
    <2>1. Within(BASE, left, right)
      BY Base DEF Within, Lefts, Rights
    <2>2. F[BASE + 1][<<left, right>>] = F[BASE + 2][<<left, right>>]
      BY <1>11, <2>1 DEF Agree
    <2>3. BASE + 2 \in 1 .. BASE + 2 /\ (BASE + 2) - 1 = BASE + 1
      BY Base
    <2>4. F[BASE + 2][<<left, right>>] = SearchFrom(F[BASE + 1], b, target, left, right)
      <3>1. \A k \in 1 .. BASE + 2 :
              F[k][<<left, right>>] = SearchFrom(F[k - 1], b, target, left, right)
        BY <1>8
      <3> QED
        BY <2>3, <3>1
    <2> QED
      BY <2>2, <2>4
  <1>13. F[BASE + 1] \in [Lefts \X Rights -> Outcome]
    <2>1. BASE + 1 \in 0 .. BASE + 2
      BY Base
    <2> QED
      BY <1>1, <1>8, <2>1
  <1>14. F[BASE + 1] = [bounds \in Lefts \X Rights |->
                          SearchFrom(F[BASE + 1], b, target, bounds[1], bounds[2])]
    BY <1>12, <1>13
  <1> QED
    BY <1>13, <1>14 DEF IsSearch, Lefts, Rights

\* What bin_search returns is of that form, in any case.
LEMMA SearchIn ==
  ASSUME NEW b \in Seq(Limb), NEW target \in Seq(Limb)
  PROVE  BinSearch(b, target) \in Outcome
  <1>1. PICK e : IsSearch(e, b, target) /\ e \in [Lefts \X Rights -> Outcome]
    BY SearchExists
  <1>2. PICK f : IsSearch(f, b, target) /\ BinSearch(b, target) = f[<<0, BASE - 1>>]
    BY <1>1, SearchUnfold
  <1>3. ASSUME NEW left \in Lefts, NEW right \in Rights
        PROVE  /\ e[<<left, right>>] = SearchFrom(e, b, target, left, right)
               /\ f[<<left, right>>] = SearchFrom(f, b, target, left, right)
    BY <1>1, <1>2 DEF IsSearch, Lefts, Rights
  <1> DEFINE T == {m \in Nat : Agree(e, f, m)}
  <1>4. 0 \in T
    <2> SUFFICES ASSUME NEW left \in Lefts, NEW right \in Rights, Within(0, left, right)
                 PROVE  e[<<left, right>>] = f[<<left, right>>]
      BY DEF Agree
    <2>1. left > right
      BY Base DEF Within, Lefts, Rights
    <2> QED
      BY <1>3, <2>1 DEF SearchFrom
  <1>5. ASSUME NEW m \in Nat, m \in T PROVE m + 1 \in T
    <2> SUFFICES ASSUME NEW left \in Lefts, NEW right \in Rights, Within(m + 1, left, right)
                 PROVE  e[<<left, right>>] = f[<<left, right>>]
      BY DEF Agree
    <2>1. SearchFrom(e, b, target, left, right) = SearchFrom(f, b, target, left, right)
      BY <1>5, SearchAgrees
    <2> QED
      BY <1>3, <2>1
  <1> HIDE DEF T
  <1>6. Agree(e, f, BASE)
    <2>1. BASE \in T
      BY <1>4, <1>5, Base, Induction
    <2> QED
      BY <2>1 DEF T
  <1>7. 0 \in Lefts /\ BASE - 1 \in Rights /\ Within(BASE, 0, BASE - 1)
    BY Base DEF Lefts, Rights, Within
  <1>8. e[<<0, BASE - 1>>] = f[<<0, BASE - 1>>]
    BY <1>6, <1>7 DEF Agree
  <1>9. e[<<0, BASE - 1>>] \in Outcome
    BY <1>1, <1>7
  <1> QED
    BY <1>2, <1>8, <1>9

\* What bin_search is to find.
Found(o, b, target) ==
  /\ o.digit \in Limb /\ o.rest \in Seq(Limb) /\ Trimmed(o.rest)
  /\ Value(target) = o.digit * Value(b) + Value(o.rest)
  /\ Value(o.rest) < Value(b)

\* The answer lies within the limits, for as long as it is sought.
FindsWithin(f, b, target, m) ==
  \A left \in Lefts, right \in Rights :
    /\ Within(m, left, right)
    /\ left * Value(b) <= Value(target) /\ Value(target) < (right + 1) * Value(b)
    => Found(f[<<left, right>>], b, target)

\* The digit is found between bounds that are further apart.
LEMMA SearchStep ==
  ASSUME NEW b \in Seq(Limb), Trimmed(b), NEW target \in Seq(Limb), Trimmed(target),
         NEW f, IsSearch(f, b, target), NEW m \in Nat, FindsWithin(f, b, target, m)
  PROVE  FindsWithin(f, b, target, m + 1)
  <1> SUFFICES ASSUME NEW left \in Lefts, NEW right \in Rights, Within(m + 1, left, right),
                      left * Value(b) <= Value(target),
                      Value(target) < (right + 1) * Value(b)
               PROVE  Found(f[<<left, right>>], b, target)
    BY DEF FindsWithin
  <1>1. PICK v \in Nat, t \in Nat : v = Value(b) /\ t = Value(target)
    BY Digits, ValueLow
  <1>2. left \in Nat /\ right \in Int /\ right + 1 \in Nat /\ right - left <= m
    BY Base DEF Lefts, Rights, Within
  <1>3. left <= right
    <2> SUFFICES ASSUME right + 1 <= left PROVE FALSE
      BY <1>2
    <2>1. PICK r \in Nat, e \in Nat : r = right + 1 /\ left = r + e
      <3>1. left - (right + 1) \in Nat /\ left = (right + 1) + (left - (right + 1))
        BY <1>2
      <3> QED
        BY <1>2, <3>1
    <2>2. left * v = r * v + e * v /\ e * v \in Nat /\ r * v \in Nat
      BY <2>1
    <2>3. left * v <= t /\ t < r * v
      BY <1>1, <2>1
    <2> QED
      BY <2>2, <2>3
  <1>4. PICK mid \in 0 .. BASE - 1 :
          /\ mid = (left + right) \div 2 /\ left <= mid /\ mid <= right
          /\ mid + 1 \in Lefts /\ mid - 1 \in Rights
          /\ right - (mid + 1) + 1 <= right - left
          /\ (mid - 1) - left + 1 <= right - left
    BY <1>3, Middle
  <1>5. mid \in Nat /\ mid \in 0 .. BASE /\ mid + 1 \in 0 .. BASE /\ mid \in Limb
    BY <1>4, Base DEF Lefts, Limb
  <1>6. PICK low, high : low = TimesLimb(b, mid) /\ high = TimesLimb(b, mid + 1)
    OBVIOUS
  <1>7. /\ low \in Seq(Limb) /\ Trimmed(low) /\ Value(low) = mid * v
        /\ high \in Seq(Limb) /\ Trimmed(high) /\ Value(high) = (mid + 1) * v
    BY <1>1, <1>5, <1>6, TimesLimbRight
  <1>8. /\ Less(high, target) <=> (mid + 1) * v < t
        /\ Less(target, high) <=> t < (mid + 1) * v
        /\ Less(target, low) <=> t < mid * v
        /\ ~Less(target, high) /\ ~Less(high, target) => target = high
    BY <1>1, <1>7, LessTrimmed
  <1>9. f[<<left, right>>] =
          IF Less(high, target) THEN f[<<mid + 1, right>>]
          ELSE IF Less(target, low) THEN f[<<left, mid - 1>>]
          ELSE IF target = high
            THEN [digit |-> mid + 1, rest |-> NormalMinus(target, high)]
          ELSE [digit |-> mid, rest |-> NormalMinus(target, low)]
    <2>1. f[<<left, right>>] = SearchFrom(f, b, target, left, right)
      <3>1. f = [bounds \in Lefts \X Rights |->
                   SearchFrom(f, b, target, bounds[1], bounds[2])]
        BY DEF IsSearch, Lefts, Rights
      <3>2. <<left, right>> \in Lefts \X Rights /\ <<left, right>>[1] = left
            /\ <<left, right>>[2] = right
        OBVIOUS
      <3> QED
        BY <3>1, <3>2
    <2>2. ~(left > right)
      BY <1>2, <1>3
    <2> QED
      BY <1>4, <1>6, <2>1, <2>2 DEF SearchFrom
  <1>10. mid * v \in Nat /\ (mid + 1) * v \in Nat /\ (mid + 1) * v = mid * v + v
    BY <1>5
  <1>11. CASE Less(high, target)
    <2>1. Within(m, mid + 1, right)
      BY <1>2, <1>4, <1>5 DEF Within
    <2>2. (mid + 1) * Value(b) <= Value(target)
      BY <1>1, <1>8, <1>10, <1>11
    <2>3. Found(f[<<mid + 1, right>>], b, target)
      BY <1>4, <2>1, <2>2 DEF FindsWithin
    <2> QED
      BY <1>9, <1>11, <2>3
  <1>12. CASE ~Less(high, target) /\ Less(target, low)
    <2>1. Within(m, left, mid - 1)
      BY <1>2, <1>4, <1>5 DEF Within
    <2>2. (mid - 1) + 1 = mid
      BY <1>5
    <2>3. Value(target) < ((mid - 1) + 1) * Value(b)
      BY <1>1, <1>8, <1>12, <2>2
    <2>4. Found(f[<<left, mid - 1>>], b, target)
      BY <1>4, <2>1, <2>3 DEF FindsWithin
    <2> QED
      BY <1>9, <1>12, <2>4
  <1>13. CASE ~Less(high, target) /\ ~Less(target, low) /\ target = high
    <2>1. f[<<left, right>>] = [digit |-> mid + 1, rest |-> NormalMinus(target, high)]
      BY <1>9, <1>13
    <2>2. t = (mid + 1) * v
      BY <1>1, <1>7, <1>13
    <2>3. ~Less(target, high)
      BY <1>8, <1>10, <2>2
    <2>4. PICK rest : rest = NormalMinus(target, high)
      OBVIOUS
    <2>5. rest \in Seq(Limb) /\ Trimmed(rest) /\ Value(rest) = t - (mid + 1) * v
      BY <1>1, <1>7, <2>3, <2>4, NormalMinusRight
    <2>6. Value(rest) = 0
      BY <1>10, <2>2, <2>5
    <2>7. mid + 1 \in Limb
      <3> SUFFICES ASSUME mid + 1 > right PROVE FALSE
        BY <1>2, <1>5, Base DEF Limb, Rights
      <3>1. mid = right
        BY <1>2, <1>4, <1>5
      <3>2. t < (mid + 1) * v
        BY <1>1, <3>1
      <3> QED
        BY <1>10, <2>2, <3>2
    <2>8. 0 < v
      <3> SUFFICES ASSUME v = 0 PROVE FALSE
        OBVIOUS
      <3>1. (right + 1) * v = 0
        BY <1>2
      <3> QED
        BY <1>1, <3>1
    <2>9. t = (mid + 1) * v + 0
      BY <1>10, <2>2
    <2> QED
      BY <1>1, <2>1, <2>4, <2>5, <2>6, <2>7, <2>8, <2>9 DEF Found
  <1>14. CASE ~Less(high, target) /\ ~Less(target, low) /\ target # high
    <2>1. f[<<left, right>>] = [digit |-> mid, rest |-> NormalMinus(target, low)]
      BY <1>9, <1>14
    <2>2. t < (mid + 1) * v /\ mid * v <= t
      BY <1>8, <1>10, <1>14
    <2>3. PICK rest : rest = NormalMinus(target, low)
      OBVIOUS
    <2>4. rest \in Seq(Limb) /\ Trimmed(rest) /\ Value(rest) = t - mid * v
      BY <1>1, <1>7, <1>14, <2>3, NormalMinusRight
    <2>5. t = mid * v + (t - mid * v) /\ t - mid * v < v
      BY <1>10, <2>2
    <2> QED
      BY <1>1, <1>5, <2>1, <2>3, <2>4, <2>5 DEF Found
  <1> QED
    BY <1>11, <1>12, <1>13, <1>14

\* bin_search finds the digit, and leaves less than b.
THEOREM SearchRight ==
  ASSUME NEW b \in Seq(Limb), Trimmed(b), NEW target \in Seq(Limb), Trimmed(target),
         Value(target) < BASE * Value(b)
  PROVE  Found(BinSearch(b, target), b, target)
  <1>1. PICK f : IsSearch(f, b, target) /\ BinSearch(b, target) = f[<<0, BASE - 1>>]
    BY SearchExists, SearchUnfold
  <1> DEFINE T == {m \in Nat : FindsWithin(f, b, target, m)}
  <1>2. PICK v \in Nat, t \in Nat : v = Value(b) /\ t = Value(target)
    BY Digits, ValueLow
  <1>3. 0 \in T
    <2> SUFFICES ASSUME NEW left \in Lefts, NEW right \in Rights, Within(0, left, right),
                        left * Value(b) <= Value(target),
                        Value(target) < (right + 1) * Value(b)
                 PROVE  FALSE
      BY DEF FindsWithin
    <2>1. left \in Nat /\ right + 1 \in Nat /\ right + 1 <= left
      BY Base DEF Lefts, Rights, Within
    <2>2. PICK r \in Nat, e \in Nat : r = right + 1 /\ left = r + e
      <3>1. left - (right + 1) \in Nat /\ left = (right + 1) + (left - (right + 1))
        BY <2>1
      <3> QED
        BY <2>1, <3>1
    <2>3. left * v = r * v + e * v /\ e * v \in Nat /\ r * v \in Nat
      BY <2>2
    <2>4. left * v <= t /\ t < r * v
      BY <1>2, <2>2
    <2> QED
      BY <2>3, <2>4
  <1>4. ASSUME NEW m \in Nat, m \in T PROVE m + 1 \in T
    <2>1. FindsWithin(f, b, target, m)
      BY <1>4
    <2>2. FindsWithin(f, b, target, m + 1)
      BY <1>1, <2>1, SearchStep
    <2> QED
      BY <2>2
  <1> HIDE DEF T
  <1>5. FindsWithin(f, b, target, BASE)
    <2>1. BASE \in T
      BY <1>3, <1>4, Base, Induction
    <2> QED
      BY <2>1 DEF T
  <1>6. /\ 0 \in Lefts /\ BASE - 1 \in Rights /\ Within(BASE, 0, BASE - 1)
        /\ (BASE - 1) + 1 = BASE
    BY Base DEF Lefts, Rights, Within
  <1>7. 0 * Value(b) <= Value(target) /\ Value(target) < ((BASE - 1) + 1) * Value(b)
    <2>1. 0 * v <= t
      OBVIOUS
    <2> QED
      BY <1>2, <1>6, <2>1
  <1>8. Found(f[<<0, BASE - 1>>], b, target)
    BY <1>5, <1>6, <1>7 DEF FindsWithin
  <1> QED
    BY <1>1, <1>8
-----------------------------------------------------------------------------
(* operator/ and operator% of normal::Bignum *)

\* A limb below the others.
LEMMA Below ==
  ASSUME NEW d \in Limb, NEW s \in Seq(Limb)
  PROVE  /\ <<d>> \o s \in Seq(Limb) /\ Len(<<d>> \o s) = Len(s) + 1
         /\ Value(<<d>> \o s) = d + BASE * Value(s)
         /\ Trimmed(s) /\ (s # <<>> \/ d # 0) => Trimmed(<<d>> \o s)
  <1>1. PICK one \in Seq(Limb) : one = <<d>> /\ Len(one) = 1 /\ one[1] = d /\ DOMAIN one = 1 .. 1
    <2>1. /\ <<d>> \in Seq(Limb) /\ Len(<<d>>) = 1 /\ <<d>>[1] = d
          /\ DOMAIN <<d>> = 1 .. 1
      OBVIOUS
    <2> QED
      BY <2>1
  <1>2. PICK n \in Nat : n = Len(s)
    BY Digits
  <1>3. PICK r : r = one \o s
    OBVIOUS
  <1>4. /\ r \in Seq(Limb) /\ Len(r) = 1 + n
        /\ \A k \in 1 .. 1 : At(r, k) = At(one, k)
        /\ \A k \in 1 .. n : At(r, 1 + k) = At(s, k)
    <2>1. /\ one \o s \in Seq(Limb) /\ Len(one \o s) = Len(one) + Len(s)
          /\ \A k \in 1 .. Len(one) : At(one \o s, k) = At(one, k)
          /\ \A k \in 1 .. Len(s) : At(one \o s, Len(one) + k) = At(s, k)
      BY Joined
    <2> QED
      BY <1>1, <1>2, <1>3, <2>1
  <1>5. r \in Seq(Nat) /\ s \in Seq(Nat)
    BY <1>4, Digits
  <1>6. d \in Nat
    BY Base DEF Limb
  <1>7. At(r, 1) = d
    <2>1. At(one, 1) = d
      BY <1>1 DEF At
    <2> QED
      BY <1>4, <2>1
  <1>8. PICK v \in Nat : v = Value(s)
    BY <1>5, ValueLow
  <1>9. Pow[1] = BASE /\ Low(r)[1] = d
    <2>1. 0 + 1 = 1 /\ 1 * BASE = BASE /\ 0 + d * 1 = d
      BY <1>6, Base
    <2>2. Pow[0 + 1] = Pow[0] * BASE
      BY Powers
    <2>3. Low(r)[0 + 1] = Low(r)[0] + At(r, 0 + 1) * Pow[0]
      BY <1>5, Lows
    <2>4. Low(r)[0] = 0 /\ Pow[0] = 1
      BY <1>5, Lows, Powers
    <2> QED
      BY <1>7, <2>1, <2>2, <2>3, <2>4
  <1>10. Value(r) = d + BASE * v
    <2>1. Low(r)[1 + n] = Low(r)[1] + Pow[1] * Low(s)[n]
      <3>1. \A k \in 1 .. n : At(s, k) = At(r, 1 + k)
        BY <1>4
      <3> QED
        BY <1>5, <3>1, Shifted
    <2>2. Value(r) = Low(r)[1 + n] /\ v = Low(s)[n]
      BY <1>2, <1>4, <1>5, <1>8, ValueLow
    <2> QED
      BY <1>9, <2>1, <2>2
  <1>11. ASSUME Trimmed(s), s # <<>> \/ d # 0 PROVE Trimmed(r)
    <2>1. CASE n = 0
      <3>1. s = <<>>
        BY <1>2, <2>1, EmptySeq
      <3>2. Len(r) = 1 /\ At(r, 1) # 0
        BY <1>4, <1>7, <1>11, <2>1, <3>1
      <3> QED
        BY <3>2 DEF Trimmed
    <2>2. CASE n # 0
      <3>1. n \in 1 .. n
        BY <2>2
      <3>2. At(r, 1 + n) = At(s, n)
        BY <1>4, <3>1
      <3>3. s # <<>>
        BY <1>2, <2>2, Empty
      <3>4. At(s, n) # 0
        BY <1>2, <1>11, <3>3 DEF Trimmed
      <3> QED
        BY <1>4, <3>2, <3>4 DEF Trimmed
    <2> QED
      BY <2>1, <2>2
  <1> QED
    BY <1>1, <1>2, <1>3, <1>4, <1>8, <1>10, <1>11

\* The limbs above the lowest i, as a number.
Lead(a, i) == Value(SubSeq(a, i + 1, Len(a)))

\* Bringing down a limb.
LEMMA LeadStep ==
  ASSUME NEW a \in Seq(Limb), NEW i \in Nat, i < Len(a)
  PROVE  /\ Lead(a, i) = a[i + 1] + BASE * Lead(a, i + 1)
         /\ Lead(a, i) \in Nat /\ Lead(a, i + 1) \in Nat /\ a[i + 1] \in Limb
  <1>1. PICK n \in Nat : n = Len(a) /\ DOMAIN a = 1 .. n /\ i < n
    BY LenProperties
  <1>2. i + 1 \in 0 .. Len(a) /\ i + 1 \in 1 .. Len(a) /\ n \in i + 1 .. Len(a)
    BY <1>1
  <1>3. a[i + 1] \in Limb
    BY <1>1, <1>2, ElementOfSeq
  <1>4. PICK t \in Seq(Limb) : t = SubSeq(a, (i + 1) + 1, n)
    BY <1>1, <1>2, Highest
  <1>5. SubSeq(a, i + 1, n) = <<a[i + 1]>> \o t
    BY <1>2, <1>4, SubSeqRecursiveFirst
  <1>6. /\ <<a[i + 1]>> \o t \in Seq(Limb)
        /\ Value(<<a[i + 1]>> \o t) = a[i + 1] + BASE * Value(t)
    BY <1>3, Below
  <1>7. Value(t) \in Nat /\ Value(<<a[i + 1]>> \o t) \in Nat
    BY <1>6, Digits, ValueLow
  <1> QED
    BY <1>1, <1>3, <1>4, <1>5, <1>6, <1>7 DEF Lead

\* A number without leading zeros has no leading part that is zero.
LEMMA LeadPositive ==
  ASSUME NEW a \in Seq(Limb), Trimmed(a), NEW i \in Nat, i < Len(a)
  PROVE  Lead(a, i) > 0
  <1>1. PICK n \in Nat : n = Len(a) /\ i < n
    BY LenProperties
  <1>2. PICK m \in Nat : n - i = m + 1 /\ i + (m + 1) = n
    <2>1. n - (i + 1) \in Nat /\ n - i = (n - (i + 1)) + 1
          /\ i + ((n - (i + 1)) + 1) = n
      BY <1>1
    <2> QED
      BY <2>1
  <1>3. i \in 0 .. Len(a) /\ m + 1 \in 1 .. m + 1
    BY <1>1
  <1>4. PICK s \in Seq(Limb) : /\ s = SubSeq(a, i + 1, Len(a))
                               /\ \A k \in 1 .. m + 1 : At(s, k) = At(a, i + k)
    <2>1. /\ SubSeq(a, i + 1, Len(a)) \in Seq(Limb)
          /\ \A k \in 1 .. Len(a) - i :
               At(SubSeq(a, i + 1, Len(a)), k) = At(a, i + k) /\ At(a, i + k) = a[i + k]
      BY <1>3, Highest
    <2> QED
      BY <1>1, <1>2, <2>1
  <1>5. At(s, m + 1) # 0
    <2>1. a # <<>>
      BY <1>1, Empty
    <2>2. At(a, n) # 0
      BY <1>1, <2>1 DEF Trimmed
    <2> QED
      BY <1>2, <1>3, <1>4, <2>2
  <1>6. Pow[m] <= Value(s)
    BY <1>5, Digits, TopLimb
  <1>7. Pow[m] \in Nat /\ Pow[m] >= 1 /\ Value(s) \in Nat
    BY PowPositive, Digits, ValueLow
  <1>8. Value(s) > 0
    BY <1>6, <1>7
  <1> QED
    BY <1>4, <1>8 DEF Lead

\* A round of the loop.
RoundOf(b, quot, part) ==
  LET found == BinSearch(b, part)
  IN [quot |-> IF quot = <<>> /\ found.digit = 0 THEN <<>> ELSE <<found.digit>> \o quot,
      tmp |-> found.rest]
HeadOf(a, b) == Purge(SubSeq(a, Len(a) - Len(b) + 1, Len(a)))
IsDivision(f, a, b) ==
  f = [k \in Len(b) .. Len(a) |->
         IF k > Len(b)
         THEN RoundOf(b, f[k - 1].quot, BringDown(f[k - 1].tmp, a[Len(a) - k + 1]))
         ELSE IF Less(HeadOf(a, b), b) /\ k < Len(a)
         THEN [quot |-> <<>>, tmp |-> HeadOf(a, b)]
         ELSE RoundOf(b, <<>>, HeadOf(a, b))]

\* The rounds of LongDivision.
LEMMA DivisionUnfold ==
  ASSUME NEW a, NEW b, NEW e, IsDivision(e, a, b)
  PROVE  \E f : IsDivision(f, a, b) /\ LongDivision(a, b) = f[Len(a)]
  <1> DEFINE f == CHOOSE f : IsDivision(f, a, b)
  <1>1. IsDivision(f, a, b)
    OBVIOUS
  <1>2. LongDivision(a, b) = f[Len(a)]
    BY DEF LongDivision, IsDivision, RoundOf, HeadOf
  <1> QED
    BY <1>1, <1>2

\* Between two rounds: what is left is below the divisor.
Partial(b) == [quot : {s \in Seq(Limb) : Trimmed(s)},
               tmp : {s \in Seq(Limb) : Trimmed(s) /\ Value(s) < Value(b)}]

\* A round divides what is left by b.
LEMMA RoundRight ==
  ASSUME NEW b \in Seq(Limb), Trimmed(b), NEW quot \in Seq(Limb), Trimmed(quot),
         NEW part \in Seq(Limb), Trimmed(part), Value(part) < BASE * Value(b)
  PROVE  /\ RoundOf(b, quot, part) \in Partial(b)
         /\ BASE * (Value(quot) * Value(b)) + Value(part)
              = Value(RoundOf(b, quot, part).quot) * Value(b)
                  + Value(RoundOf(b, quot, part).tmp)
  <1>1. PICK o : o = BinSearch(b, part) /\ Found(o, b, part)
    BY SearchRight
  <1>2. PICK d \in Limb, rest \in Seq(Limb) :
          /\ d = o.digit /\ rest = o.rest /\ Trimmed(rest)
          /\ Value(part) = d * Value(b) + Value(rest) /\ Value(rest) < Value(b)
    BY <1>1 DEF Found
  <1>3. d \in Nat
    BY Base DEF Limb
  <1>4. PICK v \in Nat, q \in Nat, t \in Nat, r \in Nat :
          v = Value(b) /\ q = Value(quot) /\ t = Value(part) /\ r = Value(rest)
    BY Digits, ValueLow
  <1>5. t = d * v + r
    BY <1>2, <1>4
  <1>6. PICK new : new = IF quot = <<>> /\ d = 0 THEN <<>> ELSE <<d>> \o quot
    OBVIOUS
  <1>7. RoundOf(b, quot, part) = [quot |-> new, tmp |-> rest]
    BY <1>1, <1>2, <1>6 DEF RoundOf
  <1>8. new \in Seq(Limb) /\ Trimmed(new) /\ Value(new) = d + BASE * q
    <2>1. CASE quot = <<>> /\ d = 0
      <3>1. new = <<>> /\ q = 0
        BY <1>4, <1>6, <2>1, Empty
      <3>2. d + BASE * q = 0
        BY <2>1, <3>1, Base
      <3>3. Trimmed(<<>>)
        BY DEF Trimmed
      <3> QED
        BY <3>1, <3>2, <3>3, Empty
    <2>2. CASE ~(quot = <<>> /\ d = 0)
      <3>1. new = <<d>> \o quot
        BY <1>6, <2>2
      <3> QED
        BY <1>4, <2>2, <3>1, Below
    <2> QED
      BY <2>1, <2>2
  <1>9. [quot |-> new, tmp |-> rest] \in Partial(b)
    BY <1>2, <1>8 DEF Partial
  <1>10. BASE * (q * v) + t = (d + BASE * q) * v + r
    <2>1. (d + BASE * q) * v = d * v + BASE * (q * v)
      BY <1>3, Base
    <2>2. PICK x1 \in Nat, x2 \in Nat : x1 = BASE * (q * v) /\ x2 = d * v
      BY <1>3, Base
    <2>3. t = x2 + r
      BY <1>5, <2>2
    <2>4. x1 + t = (x2 + x1) + r
      BY <2>3
    <2> QED
      BY <2>1, <2>2, <2>4
  <1>11. /\ RoundOf(b, quot, part).quot = new /\ RoundOf(b, quot, part).tmp = rest
    BY <1>7
  <1> QED
    BY <1>4, <1>7, <1>8, <1>9, <1>10, <1>11

\* The value with the next limb, which BringDown only keeps if something is left.
LEMMA BringDownRight ==
  ASSUME NEW b \in Seq(Limb), NEW part \in Seq(Limb), Trimmed(part), Value(part) < Value(b),
         NEW d \in Limb
  PROVE  /\ BringDown(part, d) \in Seq(Limb) /\ Trimmed(BringDown(part, d))
         /\ Value(BringDown(part, d)) < BASE * Value(b)
         /\ part # <<>> \/ d = 0 => Value(BringDown(part, d)) = d + BASE * Value(part)
  <1>1. PICK v \in Nat, t \in Nat : v = Value(b) /\ t = Value(part) /\ t < v
    BY Digits, ValueLow
  <1>2. d \in Nat /\ d < BASE
    BY Base DEF Limb
  <1>3. d + BASE * t < BASE * v
    <2>1. PICK e \in Nat : v = t + 1 + e
      <3>1. v - (t + 1) \in Nat /\ v = t + 1 + (v - (t + 1))
        BY <1>1
      <3> QED
        BY <3>1
    <2>2. BASE * v = BASE * t + BASE + BASE * e
      BY <2>1, Base
    <2>3. PICK x1 \in Nat, x2 \in Nat : x1 = BASE * t /\ x2 = BASE * e
      BY Base
    <2>4. d + x1 < x1 + BASE + x2
      BY <1>2, Base
    <2> QED
      BY <2>2, <2>3, <2>4
  <1>4. CASE part # <<>>
    <2>1. BringDown(part, d) = <<d>> \o part
      BY <1>4 DEF BringDown, NormalZero
    <2>2. /\ <<d>> \o part \in Seq(Limb) /\ Trimmed(<<d>> \o part)
          /\ Value(<<d>> \o part) = d + BASE * t
      BY <1>1, <1>4, Below
    <2> QED
      BY <1>1, <1>3, <2>1, <2>2
  <1>5. CASE part = <<>>
    <2>1. BringDown(part, d) = <<>>
      BY <1>5 DEF BringDown, NormalZero
    <2>2. t = 0
      BY <1>1, <1>5, Empty
    <2>3. d + BASE * t = d
      BY <1>2, <2>2, Base
    <2>4. 0 < BASE * v
      BY <1>2, <1>3, <2>3, Base
    <2> QED
      BY <1>1, <1>5, <2>1, <2>3, <2>4, Empty DEF Trimmed
  <1> QED
    BY <1>4, <1>5

\* The dividend has at least as many limbs as the divisor, which is not zero.
Divides(a, b) == /\ a \in Seq(Limb) /\ Trimmed(a) /\ b \in Seq(Limb) /\ Trimmed(b)
                 /\ b # <<>> /\ Len(b) <= Len(a)

\* The leading limbs of a, as many as b has.
LEMMA HeadRight ==
  ASSUME NEW a, NEW b, Divides(a, b)
  PROVE  /\ HeadOf(a, b) \in Seq(Limb) /\ Trimmed(HeadOf(a, b))
         /\ Value(HeadOf(a, b)) = Lead(a, Len(a) - Len(b))
         /\ Value(HeadOf(a, b)) < BASE * Value(b)
  <1>0. a \in Seq(Limb) /\ b \in Seq(Limb) /\ Trimmed(b) /\ b # <<>>
    BY DEF Divides
  <1>1. PICK n \in Nat, m \in Nat : n = Len(a) /\ m = Len(b) /\ m <= n
    BY <1>0, Digits DEF Divides
  <1>2. PICK i \in Nat : i = n - m /\ n - i = m
    <2>1. n - m \in Nat /\ n - (n - m) = m
      BY <1>1
    <2> QED
      BY <2>1
  <1>3. PICK l \in Nat : m = l + 1
    <2>1. m # 0
      BY <1>0, <1>1, EmptySeq
    <2>2. m - 1 \in Nat /\ m = (m - 1) + 1
      BY <2>1
    <2> QED
      BY <2>2
  <1>4. PICK s \in Seq(Limb) : s = SubSeq(a, i + 1, Len(a)) /\ Len(s) = m
    <2>1. i \in 0 .. Len(a)
      BY <1>1, <1>2
    <2>2. /\ SubSeq(a, i + 1, Len(a)) \in Seq(Limb)
          /\ Len(SubSeq(a, i + 1, Len(a))) = Len(a) - i
      BY <1>0, <2>1, Highest
    <2> QED
      BY <1>1, <1>2, <2>2
  <1>5. HeadOf(a, b) = Purge(s)
    BY <1>1, <1>2, <1>4 DEF HeadOf
  <1>6. Purge(s) \in Seq(Limb) /\ Trimmed(Purge(s)) /\ Value(Purge(s)) = Value(s)
    BY PurgeRight
  <1>7. Value(s) = Lead(a, Len(a) - Len(b))
    BY <1>1, <1>2, <1>4 DEF Lead
  <1>8. Value(s) < BASE * Value(b)
    <2>1. PICK p \in Nat, v \in Nat, w \in Nat : p = Pow[l] /\ v = Value(b) /\ w = Value(s)
      BY <1>0, Powers, Digits, ValueLow
    <2>2. p <= v
      BY <1>0, <1>1, <1>3, <2>1, IfTrimmed
    <2>3. w < p * BASE
      <3>1. Value(s) = Low(s)[m] /\ Low(s)[m] < Pow[m]
        BY <1>4, Digits, ValueLow, Bounded
      <3>2. Pow[l + 1] = p * BASE
        BY <2>1, Powers
      <3> QED
        BY <1>3, <2>1, <3>1, <3>2
    <2>4. p * BASE <= BASE * v
      <3>1. PICK e \in Nat : v = p + e
        <4>1. v - p \in Nat /\ v = p + (v - p)
          BY <2>2
        <4> QED
          BY <4>1
      <3>2. BASE * v = p * BASE + BASE * e /\ BASE * e \in Nat /\ p * BASE \in Nat
        BY <3>1, Base
      <3> QED
        BY <3>2
    <2>5. p * BASE \in Nat /\ BASE * v \in Nat
      BY Base
    <2> QED
      BY <2>1, <2>3, <2>4, <2>5
  <1> QED
    BY <1>5, <1>6, <1>7, <1>8

FirstOf(a, b) ==
  IF Less(HeadOf(a, b), b) /\ Len(b) < Len(a) THEN [quot |-> <<>>, tmp |-> HeadOf(a, b)]
  ELSE RoundOf(b, <<>>, HeadOf(a, b))

\* The first round.
LEMMA FirstRight ==
  ASSUME NEW a, NEW b, Divides(a, b)
  PROVE  /\ FirstOf(a, b) \in Partial(b)
         /\ Lead(a, Len(a) - Len(b))
              = Value(FirstOf(a, b).quot) * Value(b) + Value(FirstOf(a, b).tmp)
  <1>0. b \in Seq(Limb) /\ Trimmed(b)
    BY DEF Divides
  <1>1. PICK h \in Seq(Limb) : /\ h = HeadOf(a, b) /\ Trimmed(h)
                               /\ Value(h) = Lead(a, Len(a) - Len(b))
                               /\ Value(h) < BASE * Value(b)
    BY HeadRight
  <1>2. PICK v \in Nat, w \in Nat : v = Value(b) /\ w = Value(h)
    BY <1>0, Digits, ValueLow
  <1>3. <<>> \in Seq(Limb) /\ Trimmed(<<>>) /\ Value(<<>>) = 0
    BY Empty DEF Trimmed
  <1>4. CASE Less(h, b) /\ Len(b) < Len(a)
    <2>1. FirstOf(a, b) = [quot |-> <<>>, tmp |-> h]
      BY <1>1, <1>4 DEF FirstOf
    <2>2. Value(h) < Value(b)
      BY <1>0, <1>1, <1>4, LessTrimmed
    <2>3. [quot |-> <<>>, tmp |-> h] \in Partial(b)
      BY <1>1, <1>3, <2>2 DEF Partial
    <2>4. w = 0 * v + w
      OBVIOUS
    <2>5. FirstOf(a, b).quot = <<>> /\ FirstOf(a, b).tmp = h
      BY <2>1
    <2> QED
      BY <1>1, <1>2, <1>3, <2>1, <2>3, <2>4, <2>5
  <1>5. CASE ~(Less(h, b) /\ Len(b) < Len(a))
    <2>1. FirstOf(a, b) = RoundOf(b, <<>>, h)
      BY <1>1, <1>5 DEF FirstOf
    <2>2. PICK o : o = RoundOf(b, <<>>, h)
      OBVIOUS
    <2>3. PICK none \in Seq(Limb) : none = <<>> /\ Trimmed(none) /\ Value(none) = 0
      BY <1>3
    <2>4. /\ o \in Partial(b)
          /\ BASE * (Value(none) * Value(b)) + Value(h)
               = Value(o.quot) * Value(b) + Value(o.tmp)
      BY <1>0, <1>1, <2>2, <2>3, RoundRight
    <2>5. BASE * (0 * v) + w = w
      BY Base
    <2>6. BASE * (Value(none) * Value(b)) + Value(h) = w
      BY <1>2, <2>3, <2>5
    <2> QED
      BY <1>1, <1>2, <2>1, <2>2, <2>4, <2>6
  <1> QED
    BY <1>4, <1>5

\* The next state, when limb d follows.
Bring(b, o, d) == RoundOf(b, o.quot, BringDown(o.tmp, d))

\* The other rounds: without a lost limb, dividend and divisor keep step.
LEMMA BringRight ==
  ASSUME NEW b \in Seq(Limb), Trimmed(b), NEW o \in Partial(b), NEW d \in Limb
  PROVE  /\ Bring(b, o, d) \in Partial(b)
         /\ o.tmp # <<>> \/ d = 0 =>
              Value(Bring(b, o, d).quot) * Value(b) + Value(Bring(b, o, d).tmp)
                = d + BASE * (Value(o.quot) * Value(b) + Value(o.tmp))
  <1>1. PICK quot \in Seq(Limb), part \in Seq(Limb) :
          /\ quot = o.quot /\ part = o.tmp /\ Trimmed(quot) /\ Trimmed(part)
          /\ Value(part) < Value(b)
    BY DEF Partial
  <1>2. PICK t \in Seq(Limb) : /\ t = BringDown(part, d) /\ Trimmed(t)
                               /\ Value(t) < BASE * Value(b)
                               /\ part # <<>> \/ d = 0 => Value(t) = d + BASE * Value(part)
    BY <1>1, BringDownRight
  <1>3. PICK p : p = RoundOf(b, quot, t) /\ p = Bring(b, o, d)
    BY <1>1, <1>2 DEF Bring
  <1>4. /\ p \in Partial(b)
        /\ BASE * (Value(quot) * Value(b)) + Value(t) = Value(p.quot) * Value(b) + Value(p.tmp)
    <2>1. /\ RoundOf(b, quot, t) \in Partial(b)
          /\ BASE * (Value(quot) * Value(b)) + Value(t)
               = Value(RoundOf(b, quot, t).quot) * Value(b)
                   + Value(RoundOf(b, quot, t).tmp)
      <3>1. Trimmed(quot) /\ Trimmed(t) /\ Value(t) < BASE * Value(b)
        BY <1>1, <1>2
      <3> QED
        BY <3>1, RoundRight
    <2> QED
      BY <1>3, <2>1
  <1>5. ASSUME part # <<>> \/ d = 0
        PROVE  Value(p.quot) * Value(b) + Value(p.tmp)
                 = d + BASE * (Value(quot) * Value(b) + Value(part))
    <2>1. PICK v \in Nat, q \in Nat, w \in Nat :
            v = Value(b) /\ q = Value(quot) /\ w = Value(part)
      BY Digits, ValueLow
    <2>2. BASE * (q * v) + (d + BASE * w) = d + BASE * (q * v + w)
      BY Base DEF Limb
    <2> QED
      BY <1>2, <1>4, <1>5, <2>1, <2>2
  <1> QED
    BY <1>1, <1>3, <1>4, <1>5

\* Between two rounds, of any division: as many digits as rounds have found, and a
\* number.
Whole == [quot : Seq(Lefts), tmp : Seq(Limb)]

LEMMA RoundIn ==
  ASSUME NEW b \in Seq(Limb), NEW quot \in Seq(Lefts), NEW part \in Seq(Limb)
  PROVE  RoundOf(b, quot, part) \in Whole
  <1>1. PICK d \in Lefts, rest \in Seq(Limb) : BinSearch(b, part) = [digit |-> d, rest |-> rest]
    BY SearchIn DEF Outcome
  <1>2. PICK new : new = IF quot = <<>> /\ d = 0 THEN <<>> ELSE <<d>> \o quot
    OBVIOUS
  <1>3. new \in Seq(Lefts)
    BY <1>2
  <1>4. RoundOf(b, quot, part) = [quot |-> new, tmp |-> rest]
    BY <1>1, <1>2 DEF RoundOf
  <1> QED
    BY <1>3, <1>4 DEF Whole

LEMMA FirstIn ==
  ASSUME NEW a \in Seq(Limb), NEW b \in Seq(Limb), Len(b) <= Len(a)
  PROVE  FirstOf(a, b) \in Whole
  <1>1. PICK n \in Nat, m \in Nat, i \in Nat :
          n = Len(a) /\ m = Len(b) /\ m <= n /\ i = n - m
    <2>1. Len(a) \in Nat /\ Len(b) \in Nat
      BY Digits
    <2>2. Len(a) - Len(b) \in Nat
      BY <2>1
    <2> QED
      BY <2>1, <2>2
  <1>2. i \in 0 .. Len(a)
    BY <1>1
  <1>3. SubSeq(a, i + 1, Len(a)) \in Seq(Limb)
    BY <1>2, Highest
  <1>4. PICK h \in Seq(Limb) : h = HeadOf(a, b)
    BY <1>1, <1>3, PurgeRight DEF HeadOf
  <1>5. PICK none \in Seq(Lefts) : none = <<>>
    BY EmptySeq
  <1>6. [quot |-> none, tmp |-> h] \in Whole /\ RoundOf(b, none, h) \in Whole
    BY RoundIn DEF Whole
  <1> QED
    BY <1>4, <1>5, <1>6 DEF FirstOf

LEMMA BringIn ==
  ASSUME NEW b \in Seq(Limb), NEW o \in Whole, NEW d \in Limb
  PROVE  Bring(b, o, d) \in Whole
  <1>1. o.quot \in Seq(Lefts) /\ o.tmp \in Seq(Limb)
    BY DEF Whole
  <1>2. BringDown(o.tmp, d) \in Seq(Limb)
    BY <1>1 DEF BringDown, NormalZero
  <1> QED
    BY <1>1, <1>2, RoundIn DEF Bring

\* There is such a function.
LEMMA DivisionExists ==
  ASSUME NEW a \in Seq(Limb), NEW b \in Seq(Limb), Len(b) <= Len(a)
  PROVE  \E f : IsDivision(f, a, b)
  <1>1. PICK n \in Nat, m \in Nat : n = Len(a) /\ m = Len(b) /\ m <= n /\ DOMAIN a = 1 .. n
    BY Digits
  <1>2. PICK i \in Nat : i = n - m
    <2>1. n - m \in Nat
      BY <1>1
    <2> QED
      BY <2>1
  <1>3. PICK first \in Whole : first = FirstOf(a, b)
    BY FirstIn
  <1>4. PICK next : next = [j \in 1 .. i |-> [o \in Whole |-> Bring(b, o, a[i - j + 1])]]
    OBVIOUS
  <1>5. ASSUME NEW j \in 1 .. i PROVE next[j] \in [Whole -> Whole]
    <2>1. i - j + 1 \in 1 .. n
      BY <1>1, <1>2
    <2>2. a[i - j + 1] \in Limb
      BY <1>1, <2>1, ElementOfSeq
    <2>3. \A o \in Whole : Bring(b, o, a[i - j + 1]) \in Whole
      BY <2>2, BringIn
    <2> QED
      BY <1>4, <2>3
  <1>6. PICK g : UpTo(g, i, Whole, first, next)
    BY <1>5, Defined
  <1>7. /\ g[0] = first
        /\ \A j \in 1 .. i : g[j] = Bring(b, g[j - 1], a[i - j + 1])
    <2>1. /\ g \in [0 .. i -> Whole] /\ g[0] = first
          /\ \A j \in 1 .. i : g[j] = next[j][g[j - 1]]
      BY <1>6 DEF UpTo
    <2>2. ASSUME NEW j \in 1 .. i PROVE g[j] = Bring(b, g[j - 1], a[i - j + 1])
      <3>1. j - 1 \in 0 .. i
        OBVIOUS
      <3>2. g[j - 1] \in Whole
        BY <2>1, <3>1
      <3> QED
        BY <1>4, <2>1, <3>2
    <2> QED
      BY <2>1, <2>2
  <1>8. PICK f : f = [k \in m .. n |-> g[k - m]]
    OBVIOUS
  <1>9. ASSUME NEW k \in m .. n
        PROVE  f[k] = IF k > m THEN Bring(b, f[k - 1], a[n - k + 1]) ELSE FirstOf(a, b)
    <2>1. CASE k = m
      <3>1. k - m = 0 /\ ~(k > m)
        BY <2>1
      <3> QED
        BY <1>3, <1>7, <1>8, <3>1
    <2>2. CASE k # m
      <3>1. PICK j \in 1 .. i : j = k - m
        BY <1>2, <2>2
      <3>2. /\ k > m /\ k - 1 \in m .. n /\ (k - 1) - m = j - 1
            /\ i - j + 1 = n - k + 1
        BY <1>2, <2>2, <3>1
      <3>3. f[k] = g[j] /\ f[k - 1] = g[j - 1]
        BY <1>8, <3>1, <3>2
      <3>4. g[j] = Bring(b, g[j - 1], a[i - j + 1])
        BY <1>7
      <3> QED
        BY <3>2, <3>3, <3>4
    <2> QED
      BY <2>1, <2>2
  <1>10. f = [k \in m .. n |-> IF k > m THEN Bring(b, f[k - 1], a[n - k + 1])
                               ELSE FirstOf(a, b)]
    BY <1>8, <1>9
  <1>11. ASSUME NEW k \in m .. n
         PROVE  f[k] = IF k > m
                       THEN RoundOf(b, f[k - 1].quot, BringDown(f[k - 1].tmp, a[n - k + 1]))
                       ELSE IF Less(HeadOf(a, b), b) /\ k < n
                       THEN [quot |-> <<>>, tmp |-> HeadOf(a, b)]
                       ELSE RoundOf(b, <<>>, HeadOf(a, b))
    <2>1. CASE k > m
      BY <1>9, <2>1 DEF Bring
    <2>2. CASE ~(k > m)
      <3>1. k = m
        BY <2>2
      <3> QED
        BY <1>1, <1>9, <2>2, <3>1 DEF FirstOf
    <2> QED
      BY <2>1, <2>2
  <1>12. f = [k \in m .. n |->
                IF k > m
                THEN RoundOf(b, f[k - 1].quot, BringDown(f[k - 1].tmp, a[n - k + 1]))
                ELSE IF Less(HeadOf(a, b), b) /\ k < n
                THEN [quot |-> <<>>, tmp |-> HeadOf(a, b)]
                ELSE RoundOf(b, <<>>, HeadOf(a, b))]
    BY <1>8, <1>11
  <1> QED
    BY <1>1, <1>12 DEF IsDivision

\* The rounds of any division by no more limbs than the dividend has.
LEMMA LongDivisionIn ==
  ASSUME NEW a \in Seq(Limb), NEW b \in Seq(Limb), Len(b) <= Len(a)
  PROVE  LongDivision(a, b) \in Whole
  <1>1. PICK n \in Nat, m \in Nat : n = Len(a) /\ m = Len(b) /\ m <= n /\ DOMAIN a = 1 .. n
    BY Digits
  <1>2. PICK f : IsDivision(f, a, b) /\ LongDivision(a, b) = f[n]
    BY <1>1, DivisionExists, DivisionUnfold
  <1>3. \A k \in m .. n : f[k] = IF k > m THEN Bring(b, f[k - 1], a[n - k + 1])
                                 ELSE FirstOf(a, b)
    <2> SUFFICES ASSUME NEW k \in m .. n
                 PROVE  f[k] = IF k > m THEN Bring(b, f[k - 1], a[n - k + 1])
                               ELSE FirstOf(a, b)
      OBVIOUS
    <2>1. f[k] = IF k > m
                 THEN RoundOf(b, f[k - 1].quot, BringDown(f[k - 1].tmp, a[n - k + 1]))
                 ELSE IF Less(HeadOf(a, b), b) /\ k < n
                 THEN [quot |-> <<>>, tmp |-> HeadOf(a, b)]
                 ELSE RoundOf(b, <<>>, HeadOf(a, b))
      BY <1>1, <1>2 DEF IsDivision
    <2>2. CASE k > m
      BY <2>1, <2>2 DEF Bring
    <2>3. CASE ~(k > m)
      <3>1. k = m
        BY <2>3
      <3> QED
        BY <1>1, <2>1, <2>3, <3>1 DEF FirstOf
    <2> QED
      BY <2>2, <2>3
  <1> DEFINE T == {j \in Nat : m + j <= n => f[m + j] \in Whole}
  <1>4. 0 \in T
    <2>1. m + 0 \in m .. n /\ ~(m + 0 > m)
      BY <1>1
    <2> QED
      BY <1>3, <2>1, FirstIn
  <1>5. ASSUME NEW j \in Nat, j \in T PROVE j + 1 \in T
    <2> SUFFICES ASSUME m + (j + 1) <= n PROVE f[m + (j + 1)] \in Whole
      OBVIOUS
    <2>1. PICK k \in m .. n : /\ k = m + (j + 1) /\ k > m /\ k - 1 = m + j
                              /\ n - k + 1 \in 1 .. n
      BY <1>1
    <2>2. f[k - 1] \in Whole
      <3>1. m + j <= n
        BY <1>1
      <3> QED
        BY <1>5, <2>1, <3>1
    <2>3. a[n - k + 1] \in Limb
      BY <1>1, <2>1, ElementOfSeq
    <2> QED
      BY <1>3, <2>1, <2>2, <2>3, BringIn
  <1> HIDE DEF T
  <1>6. f[n] \in Whole
    <2>1. PICK i \in Nat : i = n - m /\ m + i = n
      <3>1. n - m \in Nat /\ m + (n - m) = n
        BY <1>1
      <3> QED
        BY <3>1
    <2>2. i \in T
      BY <1>4, <1>5, Induction
    <2> QED
      BY <2>1, <2>2 DEF T
  <1> QED
    BY <1>2, <1>6

\* Quotient and remainder are right unless a limb is lost; the remainder is
\* below the divisor, and neither has a leading zero, in any case.
THEOREM LongDivisionRight ==
  ASSUME NEW a, NEW b, Divides(a, b)
  PROVE  /\ LongDivision(a, b) \in Partial(b)
         /\ ~LosesLimb(a, b) =>
              Value(a) = Value(LongDivision(a, b).quot) * Value(b)
                           + Value(LongDivision(a, b).tmp)
  <1>0. a \in Seq(Limb) /\ Trimmed(a) /\ b \in Seq(Limb) /\ Trimmed(b) /\ b # <<>>
    BY DEF Divides
  <1>1. PICK n \in Nat, m \in Nat : n = Len(a) /\ m = Len(b) /\ m <= n /\ DOMAIN a = 1 .. n
    BY <1>0, Digits DEF Divides
  <1>2. PICK i \in Nat : i = n - m /\ m + i = n
    <2>1. n - m \in Nat /\ m + (n - m) = n
      BY <1>1
    <2> QED
      BY <2>1
  <1>3. m >= 1
    <2>1. m # 0
      BY <1>0, <1>1, EmptySeq
    <2> QED
      BY <2>1
  <1>4. PICK f : IsDivision(f, a, b) /\ LongDivision(a, b) = f[n]
    BY <1>0, <1>1, DivisionExists, DivisionUnfold
  <1>5. /\ f[m] = FirstOf(a, b)
        /\ \A k \in m + 1 .. n : f[k] = Bring(b, f[k - 1], a[n - k + 1])
    <2>1. f = [k \in m .. n |->
                 IF k > m
                 THEN RoundOf(b, f[k - 1].quot, BringDown(f[k - 1].tmp, a[n - k + 1]))
                 ELSE IF Less(HeadOf(a, b), b) /\ k < n
                 THEN [quot |-> <<>>, tmp |-> HeadOf(a, b)]
                 ELSE RoundOf(b, <<>>, HeadOf(a, b))]
      BY <1>1, <1>4 DEF IsDivision
    <2>2. m \in m .. n /\ ~(m > m) /\ \A k \in m + 1 .. n : k \in m .. n /\ k > m
      BY <1>1
    <2>3. f[m] = IF Less(HeadOf(a, b), b) /\ m < n
                 THEN [quot |-> <<>>, tmp |-> HeadOf(a, b)]
                 ELSE RoundOf(b, <<>>, HeadOf(a, b))
      BY <2>1, <2>2
    <2>4. \A k \in m + 1 .. n :
            f[k] = RoundOf(b, f[k - 1].quot, BringDown(f[k - 1].tmp, a[n - k + 1]))
      BY <2>1, <2>2
    <2> QED
      BY <1>1, <2>3, <2>4 DEF Bring, FirstOf
  <1> DEFINE T == {j \in Nat : j <= i =>
                     /\ f[m + j] \in Partial(b)
                     /\ ~LosesLimb(a, b) =>
                          Lead(a, i - j) = Value(f[m + j].quot) * Value(b)
                                             + Value(f[m + j].tmp)}
  <1>6. 0 \in T
    <2>1. m + 0 = m /\ i - 0 = i /\ Len(a) - Len(b) = i
      BY <1>1, <1>2
    <2> QED
      BY <1>5, <2>1, FirstRight
  <1>7. ASSUME NEW j \in Nat, j \in T PROVE j + 1 \in T
    <2> SUFFICES ASSUME j + 1 <= i
                 PROVE  /\ f[m + (j + 1)] \in Partial(b)
                        /\ ~LosesLimb(a, b) =>
                             Lead(a, i - (j + 1)) = Value(f[m + (j + 1)].quot) * Value(b)
                                                      + Value(f[m + (j + 1)].tmp)
      OBVIOUS
    <2>1. PICK l \in Nat : /\ l = i - (j + 1) /\ i - j = l + 1 /\ l < n /\ j <= i
                           /\ m + (j + 1) \in m + 1 .. n /\ (m + (j + 1)) - 1 = m + j
                           /\ n - (m + (j + 1)) + 1 = l + 1 /\ l + 1 \in 1 .. n - 1
      <3>1. i - (j + 1) \in Nat
        OBVIOUS
      <3> QED
        BY <1>2, <1>3, <3>1
    <2>2. PICK d \in Limb, u0 \in Nat, w0 \in Nat :
            d = a[l + 1] /\ u0 = Lead(a, l) /\ w0 = Lead(a, l + 1) /\ u0 = d + BASE * w0
      BY <1>0, <1>1, <2>1, LeadStep
    <2>3. PICK o \in Partial(b) : o = f[m + j]
      BY <1>7, <2>1
    <2>4. f[m + (j + 1)] = Bring(b, o, d)
      BY <1>5, <2>1, <2>2, <2>3
    <2>5. /\ Bring(b, o, d) \in Partial(b)
          /\ o.tmp # <<>> \/ d = 0 =>
               Value(Bring(b, o, d).quot) * Value(b) + Value(Bring(b, o, d).tmp)
                 = d + BASE * (Value(o.quot) * Value(b) + Value(o.tmp))
      BY <1>0, BringRight
    <2>6. ASSUME ~LosesLimb(a, b)
          PROVE  u0 = Value(Bring(b, o, d).quot) * Value(b) + Value(Bring(b, o, d).tmp)
      <3>1. w0 = Value(o.quot) * Value(b) + Value(o.tmp)
        BY <1>7, <2>1, <2>2, <2>3, <2>6
      <3>2. o.tmp # <<>> \/ d = 0
        <4> SUFFICES ASSUME o.tmp = <<>>, d # 0 PROVE FALSE
          OBVIOUS
        <4>1. PICK v \in Nat, q \in Nat : v = Value(b) /\ q = Value(o.quot)
          BY <1>0, Digits, ValueLow DEF Partial
        <4>2. v > 0
          <5>1. Value(o.tmp) < v /\ Value(o.tmp) = 0
            BY <4>1, Empty DEF Partial
          <5> QED
            BY <5>1
        <4>3. w0 = q * v + 0
          BY <3>1, <4>1, Empty
        <4>4. w0 % v = 0
          BY <4>2, <4>3, QuotientIs
        <4>5. w0 > 0
          BY <1>0, <1>1, <2>1, <2>2, LeadPositive
        <4>6. LosesLimb(a, b)
          <5>1. Value(SubSeq(a, (l + 1) + 1, Len(a))) = w0
            BY <2>2 DEF Lead
          <5> QED
            BY <1>1, <2>1, <2>2, <4>1, <4>2, <4>4, <4>5, <5>1 DEF LosesLimb
        <4> QED
          BY <2>6, <4>6
      <3> QED
        BY <2>2, <2>5, <3>1, <3>2
    <2> QED
      BY <2>1, <2>2, <2>4, <2>5, <2>6
  <1> HIDE DEF T
  <1>8. /\ f[m + i] \in Partial(b)
        /\ ~LosesLimb(a, b) =>
             Lead(a, i - i) = Value(f[m + i].quot) * Value(b) + Value(f[m + i].tmp)
    <2>1. i \in T
      BY <1>6, <1>7, Induction
    <2>2. i <= i
      OBVIOUS
    <2> QED
      BY <2>1, <2>2 DEF T
  <1>9. Lead(a, 0) = Value(a)
    <2>1. SubSeq(a, 0 + 1, Len(a)) = a
      BY <1>0, SubSeqFull
    <2> QED
      BY <2>1 DEF Lead
  <1>10. i - i = 0
    OBVIOUS
  <1> QED
    BY <1>2, <1>4, <1>8, <1>9, <1>10
-----------------------------------------------------------------------------
(* The operators of BignumCalc *)

\* What they compute with: no leading zero, except that zero may be <<0>>.
IsNumber(a) == a \in Seq(Limb) /\ (Trimmed(a) \/ a = BZero)

\* Numbers of BignumCalc are these, unless they have no limbs or too many.
LEMMA IsInNumbers ==
  ASSUME NEW n \in Nat, n > 0, NEW a
  PROVE  a \in Numbers(n) <=> IsNumber(a) /\ a # <<>> /\ Len(a) <= n
  <1>1. ASSUME a \in Numbers(n) PROVE IsNumber(a) /\ a # <<>> /\ Len(a) <= n
    <2>1. CASE a = BZero
      BY <2>1, Zero DEF IsNumber
    <2>2. CASE a # BZero
      <3>1. PICK l \in 1 .. n : a \in [1 .. l -> Limb] /\ a[l] # 0
        BY <1>1, <2>2 DEF Numbers, Limb
      <3>2. l \in Nat /\ l >= 1 /\ l <= n /\ l \in 1 .. l
        BY <3>1
      <3>3. a \in Seq(Limb) /\ Len(a) = l /\ At(a, l) = a[l]
        BY <3>1, <3>2, Row
      <3>4. a # <<>>
        BY <3>2, <3>3, Empty
      <3> QED
        BY <3>1, <3>2, <3>3, <3>4 DEF IsNumber, Trimmed
    <2> QED
      BY <2>1, <2>2
  <1>2. ASSUME IsNumber(a), a # <<>>, Len(a) <= n PROVE a \in Numbers(n)
    <2>1. a \in Seq(Limb) /\ (a = BZero \/ At(a, Len(a)) # 0)
      BY <1>2 DEF IsNumber, Trimmed
    <2>2. PICK l \in Nat : l = Len(a) /\ a \in [1 .. l -> Limb] /\ DOMAIN a = 1 .. l
      BY <2>1, LenProperties
    <2>3. l # 0
      BY <1>2, <2>1, <2>2, EmptySeq
    <2>4. l \in 1 .. n /\ l \in 1 .. l
      BY <1>2, <2>2, <2>3
    <2>5. CASE a = BZero
      BY <2>5 DEF Numbers
    <2>6. CASE At(a, Len(a)) # 0
      <3>1. a[l] # 0
        BY <2>2, <2>4, <2>6 DEF At
      <3>2. PICK S : S = {s \in [1 .. l -> 0 .. BASE - 1] : s[l] # 0}
        OBVIOUS
      <3>3. a \in S
        BY <2>2, <3>1, <3>2 DEF Limb
      <3>4. S \in {{s \in [1 .. i -> 0 .. BASE - 1] : s[i] # 0} : i \in 1 .. n}
        BY <2>4, <3>2
      <3> QED
        BY <3>3, <3>4 DEF Numbers
    <2> QED
      BY <2>1, <2>5, <2>6
  <1> QED
    BY <1>1, <1>2

\* Numbers compare as what they stand for, but for the two zeros.
LEMMA LessNumber ==
  ASSUME NEW a, IsNumber(a), NEW b, IsNumber(b),
         a # <<>> \/ b # BZero, b # <<>> \/ a # BZero
  PROVE  /\ Less(a, b) <=> Value(a) < Value(b)
         /\ ~Less(a, b) /\ ~Less(b, a) => a = b
         /\ Value(a) \in Nat /\ Value(b) \in Nat
  <1>1. a \in Seq(Limb) /\ b \in Seq(Limb)
    BY DEF IsNumber
  <1>2. Len(a) \in Nat /\ Len(b) \in Nat
    BY <1>1, Digits
  <1>3. ASSUME Len(a) < Len(b) PROVE At(b, Len(b)) # 0
    <2>1. b # <<>>
      BY <1>2, <1>3, Empty
    <2>2. b # BZero
      <3> SUFFICES ASSUME b = BZero PROVE FALSE
        OBVIOUS
      <3>1. Len(a) = 0
        BY <1>2, <1>3, Zero
      <3>2. a = <<>>
        BY <1>1, <3>1, EmptySeq
      <3> QED
        BY <3>2
    <2> QED
      BY <2>1, <2>2 DEF IsNumber, Trimmed
  <1>4. ASSUME Len(b) < Len(a) PROVE At(a, Len(a)) # 0
    <2>1. a # <<>>
      BY <1>2, <1>4, Empty
    <2>2. a # BZero
      <3> SUFFICES ASSUME a = BZero PROVE FALSE
        OBVIOUS
      <3>1. Len(b) = 0
        BY <1>2, <1>4, Zero
      <3>2. b = <<>>
        BY <1>1, <3>1, EmptySeq
      <3> QED
        BY <3>2
    <2> QED
      BY <2>1, <2>2 DEF IsNumber, Trimmed
  <1> QED
    BY <1>1, <1>3, <1>4, LessIs

\* Zero has no other names.
LEMMA ValueZero ==
  ASSUME NEW a, IsNumber(a)
  PROVE  Value(a) \in Nat /\ (Value(a) = 0 <=> a \in {<<>>, BZero})
  <1>1. a \in Seq(Limb)
    BY DEF IsNumber
  <1>2. Value(a) \in Nat
    BY <1>1, Digits, ValueLow
  <1>3. CASE a \in {<<>>, BZero}
    BY <1>2, <1>3, Empty, Zero
  <1>4. CASE a \notin {<<>>, BZero}
    <2>1. IsNumber(<<>>)
      BY Empty DEF IsNumber, Trimmed
    <2>2. PICK e : e = <<>>
      OBVIOUS
    <2>3. /\ Less(e, a) <=> Value(e) < Value(a)
          /\ ~Less(e, a) /\ ~Less(a, e) => e = a
          /\ Less(a, e) <=> Value(a) < Value(e)
      BY <1>4, <2>1, <2>2, LessNumber
    <2>4. Value(e) = 0
      BY <2>2, Empty
    <2>5. ~(Value(a) < 0)
      BY <1>2
    <2> QED
      BY <1>2, <1>4, <2>2, <2>3, <2>4, <2>5
  <1> QED
    BY <1>2, <1>3, <1>4

\* What one limb stands for.
LEMMA OneLimb ==
  ASSUME NEW a \in Seq(Limb), Len(a) = 1
  PROVE  Value(a) = a[1] /\ a[1] \in Nat
  <1>1. a \in Seq(Nat) /\ 1 \in DOMAIN a
    BY Digits
  <1>2. a[1] \in Nat /\ At(a, 1) = a[1]
    BY <1>1, ElementOfSeq DEF At
  <1>3. Low(a)[0 + 1] = Low(a)[0] + At(a, 0 + 1) * Pow[0] /\ Low(a)[0] = 0
    BY <1>1, Lows
  <1>4. Pow[0] = 1
    BY Powers
  <1>5. Low(a)[1] = a[1]
    BY <1>2, <1>3, <1>4
  <1> QED
    BY <1>1, <1>2, <1>5, ValueLow
\* The operands of a long division.
LEMMA DividesNumber ==
  ASSUME NEW a, IsNumber(a), NEW b, IsNumber(b), b # <<>>, b # BZero, ~Less(a, b)
  PROVE  Divides(a, b) /\ Value(b) > 0
  <1>1. a \in Seq(Limb) /\ b \in Seq(Limb) /\ Trimmed(b)
    BY DEF IsNumber
  <1>2. Len(a) \in Nat /\ Len(b) \in Nat
    BY <1>1, Digits
  <1>3. Len(b) <= Len(a)
    BY <1>1, <1>2, LessIsShorter
  <1>4. Value(b) \in Nat /\ Value(b) > 0
    BY ValueZero
  <1>5. a # BZero
    BY <1>4, LessNumber, Zero
  <1> QED
    BY <1>1, <1>3, <1>4, <1>5 DEF Divides, IsNumber

\* A number that is less has no more limbs.
LEMMA LessLimbs ==
  ASSUME NEW a, NEW b, Less(a, b), Len(a) \in Nat, Len(b) \in Nat
  PROVE  Len(a) <= Len(b)
  BY DEF Less

\* operator%: below the divisor without exception, and right unless a limb is lost.
THEOREM RemainderRight ==
  ASSUME NEW a, IsNumber(a), NEW b, IsNumber(b), b # BZero, b = <<>> => a = <<>>
  PROVE  /\ IsNumber(Remainder(a, b))
         /\ Len(Remainder(a, b)) <= Len(b) \/ Remainder(a, b) = BZero
         /\ b # <<>> => Value(Remainder(a, b)) < Value(b)
         /\ b # <<>> /\ ~LosesLimb(a, b) => Value(Remainder(a, b)) = Value(a) % Value(b)
  <1>1. a \in Seq(Limb) /\ b \in Seq(Limb) /\ Len(a) \in Nat /\ Len(b) \in Nat
    BY Digits DEF IsNumber
  <1>2. /\ Value(a) \in Nat /\ Value(b) \in Nat
        /\ b # <<>> => Value(b) > 0 /\ (Less(a, b) <=> Value(a) < Value(b))
    BY ValueZero, LessNumber
  <1>3. CASE Less(a, b)
    <2>1. Remainder(a, b) = a
      BY <1>3 DEF Remainder
    <2>2. Len(a) <= Len(b)
      BY <1>1, <1>3, LessLimbs
    <2>3. b # <<>> => Value(a) = Value(a) % Value(b)
      BY <1>2, <1>3
    <2> QED
      BY <1>2, <1>3, <2>1, <2>2, <2>3
  <1>4. CASE ~Less(a, b) /\ a = b
    <2>1. Remainder(a, b) = BZero
      BY <1>4 DEF Remainder
    <2>2. b # <<>> => Value(a) % Value(b) = 0
      BY <1>2, <1>4
    <2> QED
      BY <1>2, <2>1, <2>2, Zero DEF IsNumber
  <1>5. CASE ~Less(a, b) /\ a # b
    <2>1. b # <<>>
      BY <1>5
    <2>2. Divides(a, b)
      BY <1>5, <2>1, DividesNumber
    <2>3. PICK o : o = LongDivision(a, b)
      OBVIOUS
    <2>4. Remainder(a, b) = o.tmp
      BY <1>5, <2>3 DEF Remainder
    <2>5. /\ o \in Partial(b)
          /\ ~LosesLimb(a, b) => Value(a) = Value(o.quot) * Value(b) + Value(o.tmp)
      BY <2>2, <2>3, LongDivisionRight
    <2>6. /\ o.quot \in Seq(Limb) /\ o.tmp \in Seq(Limb) /\ Trimmed(o.tmp)
          /\ Value(o.tmp) < Value(b)
      BY <2>5 DEF Partial
    <2>7. PICK q \in Nat, r \in Nat, v \in Nat, w \in Nat :
            q = Value(o.quot) /\ r = Value(o.tmp) /\ v = Value(b) /\ w = Value(a)
      BY <1>2, <2>6, Digits, ValueLow
    <2>8. ~LosesLimb(a, b) => w % v = r
      BY <2>5, <2>6, <2>7, QuotientIs
    <2>9. IsNumber(o.tmp)
      BY <2>6 DEF IsNumber
    <2>10. Less(o.tmp, b)
      BY <2>1, <2>6, <2>9, LessNumber
    <2>11. Len(o.tmp) <= Len(b)
      BY <1>1, <2>6, <2>10, Digits, LessLimbs
    <2> QED
      BY <2>4, <2>6, <2>7, <2>8, <2>9, <2>11
  <1> QED
    BY <1>3, <1>4, <1>5

\* operator% returns a number or ends the program, which it does for one divisor.
LEMMA RemainderIn ==
  ASSUME NEW a \in Seq(Limb), NEW b \in Seq(Limb), ~Loops(a, b)
  PROVE  \/ Remainder(a, b) \in Seq(Limb)
         \/ Remainder(a, b) = Exit /\ b = BZero
  <1>1. CASE Less(a, b) \/ a = b \/ b = BZero
    BY <1>1, Zero DEF Remainder
  <1>2. CASE ~(Less(a, b) \/ a = b \/ b = BZero)
    <2>1. Len(b) <= Len(a)
      BY <1>2, Digits, LessIsShorter
    <2>2. LongDivision(a, b) \in Whole
      BY <2>1, LongDivisionIn
    <2> QED
      BY <1>2, <2>2 DEF Remainder, Whole
  <1> QED
    BY <1>1, <1>2

\* operator/: the division by one limb is right, the long one unless it loses a
\* limb; a division by zero does not come back.
THEOREM QuotientRight ==
  ASSUME NEW a, IsNumber(a), NEW b, IsNumber(b), a # <<>>, b # <<>>
  PROVE  /\ Quotient(a, b) = Exit \/ IsNumber(Quotient(a, b))
         /\ b # BZero /\ (Less(b, <<0, 1>>) \/ ~LosesLimb(a, b))
              => Value(Quotient(a, b)) = Value(a) \div Value(b)
  <1>1. a \in Seq(Limb) /\ b \in Seq(Limb) /\ Len(a) \in Nat /\ Len(b) \in Nat
    BY Digits DEF IsNumber
  <1>2. /\ Value(a) \in Nat /\ Value(b) \in Nat
        /\ b # BZero => Value(b) > 0
        /\ Less(a, b) <=> Value(a) < Value(b)
    BY ValueZero, LessNumber
  <1>3. CASE Less(a, b)
    <2>1. Quotient(a, b) = BZero
      BY <1>3 DEF Quotient
    <2>2. b # BZero => Value(a) \div Value(b) = 0
      BY <1>2, <1>3
    <2> QED
      BY <2>1, <2>2, Zero DEF IsNumber
  <1>4. CASE ~Less(a, b) /\ a = b
    <2>1. Quotient(a, b) = BOne
      BY <1>4 DEF Quotient
    <2>2. BOne \in Seq(Limb) /\ Len(BOne) = 1 /\ BOne[1] = 1 /\ DOMAIN BOne = 1 .. 1
      <3>1. 1 \in Limb
        BY Base DEF Limb
      <3> QED
        BY <3>1 DEF BOne
    <2>3. Value(BOne) = 1
      BY <2>2, OneLimb
    <2>4. At(BOne, Len(BOne)) # 0
      BY <2>2 DEF At
    <2>5. b # BZero => Value(a) \div Value(b) = 1
      BY <1>2, <1>4
    <2> QED
      BY <2>1, <2>2, <2>3, <2>4, <2>5 DEF IsNumber, Trimmed
  <1>5. CASE ~Less(a, b) /\ a # b /\ b = BZero
    BY <1>5 DEF Quotient
  <1>6. CASE ~Less(a, b) /\ a # b /\ b # BZero /\ Less(b, <<0, 1>>)
    <2>1. Quotient(a, b) = DivideByLimb(a, b[1])
      BY <1>6 DEF Quotient
    <2>2. Len(b) = 1
      <3>1. PICK t : t = <<0, 1>>
        OBVIOUS
      <3>2. t \in Seq(Limb) /\ Len(t) = 2 /\ t[2] = 1 /\ t[1] = 0
        <4>1. 0 \in Limb /\ 1 \in Limb
          BY Base DEF Limb
        <4> QED
          BY <3>1, <4>1
      <3>3. Len(b) # 0
        BY <1>1, EmptySeq
      <3>4. CASE Len(b) < 2
        <4>1. PICK l \in Nat : l = Len(b)
          BY <1>1
        <4>2. l # 0 /\ l < 2 => l = 1
          OBVIOUS
        <4> QED
          BY <3>3, <3>4, <4>1, <4>2
      <3>5. CASE Len(b) = 2
        <4>1. DOMAIN b = 1 .. 2 /\ b[1] \in Nat /\ b[2] \in Nat
          <5>1. DOMAIN b = 1 .. 2 /\ b \in Seq(Nat)
            BY <1>1, <3>5, Digits
          <5> QED
            BY <5>1, ElementOfSeq
        <4>2. b[2] # 0
          BY <1>6, <3>5, <4>1 DEF IsNumber, Trimmed, At
        <4>3. PICK k \in DOMAIN b : b[k] < t[k] /\ \A j \in k + 1 .. Len(b) : b[j] = t[j]
          BY <1>6, <3>1, <3>2, <3>5 DEF Less
        <4> QED
          BY <3>2, <4>1, <4>2, <4>3
      <3>6. Len(b) < 2 \/ Len(b) = 2
        BY <1>1, <1>6, <3>1, <3>2, LessLimbs
      <3> QED
        BY <3>4, <3>5, <3>6
    <2>3. Value(b) = b[1] /\ b[1] \in Nat /\ b[1] > 0
      BY <1>1, <1>2, <1>6, <2>2, OneLimb
    <2> QED
      BY <1>1, <2>1, <2>3, DivideRight DEF IsNumber
  <1>7. CASE ~Less(a, b) /\ a # b /\ b # BZero /\ ~Less(b, <<0, 1>>)
    <2>1. Divides(a, b)
      BY <1>7, DividesNumber
    <2>2. PICK o : o = LongDivision(a, b)
      OBVIOUS
    <2>3. Quotient(a, b) = o.quot
      BY <1>7, <2>2 DEF Quotient
    <2>4. /\ o \in Partial(b)
          /\ ~LosesLimb(a, b) => Value(a) = Value(o.quot) * Value(b) + Value(o.tmp)
      BY <2>1, <2>2, LongDivisionRight
    <2>5. /\ o.quot \in Seq(Limb) /\ Trimmed(o.quot) /\ o.tmp \in Seq(Limb)
          /\ Value(o.tmp) < Value(b)
      BY <2>4 DEF Partial
    <2>6. PICK q \in Nat, r \in Nat, v \in Nat, w \in Nat :
            q = Value(o.quot) /\ r = Value(o.tmp) /\ v = Value(b) /\ w = Value(a)
      BY <1>2, <2>5, Digits, ValueLow
    <2>7. ~LosesLimb(a, b) => w \div v = q
      BY <2>4, <2>5, <2>6, QuotientIs
    <2> QED
      BY <1>7, <2>3, <2>5, <2>6, <2>7 DEF IsNumber
  <1> QED
    BY <1>3, <1>4, <1>5, <1>6, <1>7

\* operator-: a difference that would be negative is zero.
THEOREM MinusRight ==
  ASSUME NEW a, IsNumber(a), NEW b, IsNumber(b), a # <<>>, b # <<>>
  PROVE  /\ IsNumber(Minus(a, b))
         /\ Value(Minus(a, b)) = IF Value(a) < Value(b) THEN 0 ELSE Value(a) - Value(b)
  <1>1. a \in Seq(Limb) /\ b \in Seq(Limb) /\ Len(a) \in Nat /\ Len(b) \in Nat
    BY Digits DEF IsNumber
  <1>2. /\ Value(a) \in Nat /\ Value(b) \in Nat
        /\ Less(a, b) <=> Value(a) < Value(b)
    BY ValueZero, LessNumber
  <1>3. CASE Less(a, b)
    BY <1>2, <1>3, Zero DEF IsNumber, Minus
  <1>4. CASE ~Less(a, b)
    <2>1. Len(b) <= Len(a) /\ Value(b) <= Value(a)
      BY <1>1, <1>2, <1>4, LessIsShorter
    <2>2. Minus(a, b) = Difference(a, b)
      BY <1>4 DEF Minus
    <2>3. /\ Difference(a, b) \in Seq(Limb) /\ Trimmed(Difference(a, b))
          /\ Value(Difference(a, b)) = Value(a) - Value(b)
      BY <1>1, <2>1, DifferenceRight
    <2> QED
      BY <1>2, <1>4, <2>2, <2>3 DEF IsNumber
  <1> QED
    BY <1>3, <1>4
-----------------------------------------------------------------------------
(* The specification of BignumCalc *)

\* The operands are numbers, and res one that expmod can go on with.
CalcInv == /\ CalcRight
           /\ op = "h" => y = <<2>>
           /\ op = "^" => z # BZero /\ res \in Seq(Limb)

\* What is assumed of the bounds.
LEMMA Bounds == /\ ExpLimbs \in Nat /\ OtherLimbs \in Nat /\ MaxLimbs \in Nat
                /\ ExpLimbs > 0 /\ OtherLimbs > 0 /\ MaxLimbs > 0
                /\ ExpLimbs <= MaxLimbs /\ OtherLimbs <= MaxLimbs
  BY CalcAssumption

\* BZero, BOne and 2, as numbers.
LEMMA Small == /\ BZero \in Seq(Limb) /\ BOne \in Seq(Limb) /\ <<2>> \in Numbers(MaxLimbs)
               /\ Exit \notin Seq(Limb)
  <1>1. 0 \in Limb /\ 1 \in Limb /\ 2 \in Limb /\ -1 \notin Limb
    BY CalcAssumption, Base DEF Limb
  <1>2. BZero \in Seq(Limb) /\ BOne \in Seq(Limb) /\ <<2>> \in Seq(Limb)
    BY <1>1 DEF BZero, BOne
  <1>3. Exit \notin Seq(Limb)
    <2> SUFFICES ASSUME Exit \in Seq(Limb) PROVE FALSE
      OBVIOUS
    <2>1. 1 \in DOMAIN Exit /\ Exit[1] = -1
      BY DEF Exit
    <2> QED
      BY <1>1, <2>1, ElementOfSeq
  <1>4. IsNumber(<<2>>) /\ <<2>> # <<>> /\ Len(<<2>>) = 1
    <2>1. Len(<<2>>) = 1 /\ <<2>>[1] = 2 /\ DOMAIN <<2>> = 1 .. 1
      OBVIOUS
    <2>2. At(<<2>>, Len(<<2>>)) # 0
      BY <2>1 DEF At
    <2> QED
      BY <1>2, <2>1, <2>2 DEF IsNumber, Trimmed
  <1>5. <<2>> \in Numbers(MaxLimbs)
    <2>1. PICK t : t = <<2>>
      OBVIOUS
    <2>2. IsNumber(t) /\ t # <<>> /\ Len(t) <= MaxLimbs
      BY <1>4, <2>1, Bounds
    <2>3. t \in Numbers(MaxLimbs)
      BY <2>2, Bounds, IsInNumbers
    <2> QED
      BY <2>1, <2>3
  <1> QED
    BY <1>2, <1>3, <1>5

\* Fewer limbs are allowed where more are.
LEMMA MoreNumbers ==
  ASSUME NEW n \in Nat, n > 0, NEW m \in Nat, n <= m, NEW a \in Numbers(n)
  PROVE  a \in Numbers(m)
  <1>1. IsNumber(a) /\ a # <<>> /\ Len(a) <= n
    BY IsInNumbers
  <1>2. Len(a) \in Nat
    BY <1>1, Digits DEF IsNumber
  <1>3. Len(a) <= m /\ m > 0
    BY <1>1, <1>2
  <1> QED
    BY <1>1, <1>3, IsInNumbers

\* x, y and z are numbers with a limb, and compare as what they stand for.
LEMMA Operands ==
  ASSUME NEW a \in Numbers(MaxLimbs), NEW b \in Numbers(MaxLimbs)
  PROVE  /\ IsNumber(a) /\ IsNumber(b) /\ a # <<>> /\ b # <<>>
         /\ Len(a) <= MaxLimbs /\ Len(b) <= MaxLimbs
         /\ Less(a, b) <=> Value(a) < Value(b)
  <1>1. /\ IsNumber(a) /\ IsNumber(b) /\ a # <<>> /\ b # <<>>
        /\ Len(a) <= MaxLimbs /\ Len(b) <= MaxLimbs
    BY Bounds, IsInNumbers
  <1> QED
    BY <1>1, LessNumber

\* What tmp and exp can be.
LEMMA Parts ==
  ASSUME NEW a
  PROVE  a \in Numbers(MaxLimbs) \cup {NormalZero}
           <=> IsNumber(a) /\ Len(a) <= MaxLimbs
  <1>1. IsNumber(<<>>) /\ Len(<<>>) <= MaxLimbs
    BY Empty, Bounds DEF IsNumber, Trimmed
  <1>2. CASE a = <<>>
    BY <1>1, <1>2 DEF NormalZero
  <1>3. CASE a # <<>>
    <2>1. a \in Numbers(MaxLimbs) <=> IsNumber(a) /\ Len(a) <= MaxLimbs
      BY <1>3, Bounds, IsInNumbers
    <2> QED
      BY <1>3, <2>1 DEF NormalZero
  <1> QED
    BY <1>2, <1>3

\* The operands at the start.
LEMMA CalcInit ==
  ASSUME Init PROVE CalcInv
  <1>1. x \in Numbers(MaxLimbs) /\ y \in Numbers(MaxLimbs)
    <2>1. CASE op = "^"
      BY <2>1, Bounds, MoreNumbers DEF Init
    <2>2. CASE op = "h"
      BY <2>2, Small DEF Init
    <2>3. CASE op # "^" /\ op # "h"
      BY <2>3, Bounds, MoreNumbers DEF Init
    <2> QED
      BY <2>1, <2>2, <2>3
  <1>2. z \in Numbers(MaxLimbs) /\ (op = "^" => z # BZero)
    <2>1. BZero \in Numbers(MaxLimbs)
      BY DEF Numbers
    <2>2. CASE op = "^"
      BY <2>2, Bounds, MoreNumbers DEF Init
    <2>3. CASE op # "^"
      BY <2>1, <2>3 DEF Init
    <2> QED
      BY <2>2, <2>3
  <1>3. res = BOne /\ res \in Seq(Limb)
    BY Small DEF Init
  <1>4. pc = "run" /\ op \in Op /\ lost \in BOOLEAN /\ tmp = x /\ exp = y
        /\ (op = "h" => y = <<2>>)
    BY DEF Init
  <1>5. TypeOK
    BY <1>1, <1>2, <1>3, <1>4 DEF TypeOK, Limb
  <1>6. LessRight
    BY <1>1, Operands DEF LessRight
  <1>7. ArithmeticRight /\ DivisionRight /\ NoLeadingZero
    BY <1>4 DEF ArithmeticRight, DivisionRight, NoLeadingZero, Done
  <1> QED
    BY <1>2, <1>3, <1>4, <1>5, <1>6, <1>7 DEF CalcInv, CalcRight

\* What every step needs to know of the state.
LEMMA CalcTypes ==
  ASSUME CalcInv
  PROVE  /\ x \in Numbers(MaxLimbs) /\ y \in Numbers(MaxLimbs) /\ z \in Numbers(MaxLimbs)
         /\ IsNumber(tmp) /\ Len(tmp) <= MaxLimbs /\ tmp \in Seq(Limb)
         /\ IsNumber(exp) /\ Len(exp) <= MaxLimbs /\ exp \in Seq(Limb)
         /\ IsNumber(z) /\ z # <<>> /\ Len(z) <= MaxLimbs
  <1>1. /\ x \in Numbers(MaxLimbs) /\ y \in Numbers(MaxLimbs) /\ z \in Numbers(MaxLimbs)
        /\ tmp \in Numbers(MaxLimbs) \cup {NormalZero}
        /\ exp \in Numbers(MaxLimbs) \cup {NormalZero}
    BY DEF CalcInv, CalcRight, TypeOK
  <1> QED
    BY <1>1, Parts, Operands DEF IsNumber

\* A step that computes no result keeps what is said of the operands.
LEMMA CalcKeeps ==
  ASSUME CalcInv, UNCHANGED <<op, x, y, z>>, pc' \in {"run", "done"}, lost' \in BOOLEAN,
         IsNumber(tmp'), Len(tmp') <= MaxLimbs, IsNumber(exp'), Len(exp') <= MaxLimbs,
         res' = Exit \/ res' \in Seq(Limb), op = "^" => res' \in Seq(Limb),
         pc' = "done" => ArithmeticRight' /\ DivisionRight' /\ NoLeadingZero'
  PROVE  CalcInv'
  <1>1. TypeOK'
    <2>1. tmp' \in Numbers(MaxLimbs) \cup {NormalZero}
      BY Parts
    <2>2. exp' \in Numbers(MaxLimbs) \cup {NormalZero}
      BY Parts
    <2> QED
      BY <2>1, <2>2 DEF CalcInv, CalcRight, TypeOK, Limb
  <1>2. LessRight'
    BY DEF CalcInv, CalcRight, LessRight
  <1>3. CASE pc' # "done"
    <2>1. ArithmeticRight' /\ DivisionRight' /\ NoLeadingZero'
      BY <1>3 DEF ArithmeticRight, DivisionRight, NoLeadingZero, Done
    <2> QED
      BY <1>1, <1>2, <2>1 DEF CalcInv, CalcRight
  <1>4. CASE pc' = "done"
    BY <1>1, <1>2, <1>4 DEF CalcInv, CalcRight
  <1> QED
    BY <1>3, <1>4

\* Each operator is right in its one step.
LEMMA ComputeStep ==
  ASSUME CalcInv, Compute PROVE CalcInv'
  <1>1. /\ IsNumber(x) /\ IsNumber(y) /\ x # <<>> /\ y # <<>>
        /\ x \in Seq(Limb) /\ y \in Seq(Limb)
    BY CalcTypes, Operands DEF IsNumber
  <1>2. /\ UNCHANGED <<op, x, y, z, tmp, exp, lost>> /\ pc' = "done"
        /\ op \in {"+", "-", "*", "/", "%", "h"}
    BY DEF Compute, CalcInv, CalcRight, TypeOK, Op
  <1>3. /\ IsNumber(tmp') /\ Len(tmp') <= MaxLimbs /\ IsNumber(exp') /\ Len(exp') <= MaxLimbs
        /\ lost' \in BOOLEAN
    BY <1>2, CalcTypes DEF CalcInv, CalcRight, TypeOK
  <1> SUFFICES /\ res' = Exit \/ res' \in Seq(Limb)
               /\ ArithmeticRight' /\ DivisionRight' /\ NoLeadingZero'
    BY <1>2, <1>3, CalcKeeps
  <1>4. CASE op = "+"
    <2>1. res' = Plus(x, y)
      BY <1>4 DEF Compute
    <2>2. res' \in Seq(Limb) /\ Value(res') = Value(x) + Value(y)
      BY <1>1, <2>1, PlusRight
    <2> QED
      BY <1>2, <1>4, <2>2 DEF ArithmeticRight, DivisionRight, NoLeadingZero, Done
  <1>5. CASE op = "-"
    <2>1. res' = Minus(x, y)
      BY <1>5 DEF Compute
    <2>2. /\ res' \in Seq(Limb)
          /\ Value(res') = IF Value(x) < Value(y) THEN 0 ELSE Value(x) - Value(y)
      BY <1>1, <2>1, MinusRight DEF IsNumber
    <2> QED
      BY <1>2, <1>5, <2>2 DEF ArithmeticRight, DivisionRight, NoLeadingZero, Done
  <1>6. CASE op = "*"
    <2>1. res' = Times(x, y)
      BY <1>6 DEF Compute
    <2>2. res' \in Seq(Limb) /\ Value(res') = Value(x) * Value(y)
      BY <1>1, <2>1, TimesRight
    <2> QED
      BY <1>2, <1>6, <2>2 DEF ArithmeticRight, DivisionRight, NoLeadingZero, Done
  <1>7. CASE op = "h"
    <2>1. res' = DivideByLimb(x, 2)
      <3>1. y[1] = 2
        BY <1>7 DEF CalcInv
      <3> QED
        BY <1>7, <3>1 DEF Compute
    <2>2. res' \in Seq(Limb) /\ Value(res') = Value(x) \div 2
      BY <1>1, <2>1, DivideRight
    <2> QED
      BY <1>2, <1>7, <2>2 DEF ArithmeticRight, DivisionRight, NoLeadingZero, Done
  <1>8. ASSUME IsNumber(res') \/ res' = Exit
        PROVE  NoLeadingZero' /\ (res' = Exit \/ res' \in Seq(Limb))
    <2>1. CASE res' \in {BZero, NormalZero, Exit}
      BY <1>8, <2>1 DEF NoLeadingZero, IsNumber
    <2>2. CASE res' \notin {BZero, NormalZero, Exit}
      <3>1. res' \in Seq(Limb) /\ At(res', Len(res')) # 0
        BY <1>8, <2>2 DEF IsNumber, Trimmed, NormalZero
      <3>2. res'[Len(res')] # 0
        BY <3>1 DEF At
      <3> QED
        BY <3>1, <3>2 DEF NoLeadingZero
    <2> QED
      BY <2>1, <2>2
  <1>9. Value(y) > 0 => y # BZero
    BY Zero
  <1>10. CASE op = "/"
    <2>1. res' = Quotient(x, y)
      BY <1>10 DEF Compute
    <2>2. /\ res' = Exit \/ IsNumber(res')
          /\ Value(y) > 0 /\ (Less(y, <<0, 1>>) \/ ~LosesLimb(x, y))
               => Value(res') = Value(x) \div Value(y)
      BY <1>1, <1>9, <2>1, QuotientRight
    <2> QED
      BY <1>2, <1>8, <1>10, <2>2 DEF ArithmeticRight, DivisionRight, Done
  <1>11. CASE op = "%"
    <2>1. res' = Remainder(x, y)
      BY <1>11 DEF Compute
    <2>2. CASE y # BZero
      <3>1. /\ IsNumber(res')
            /\ ~LosesLimb(x, y) => Value(res') = Value(x) % Value(y)
        BY <1>1, <2>1, <2>2, RemainderRight
      <3> QED
        BY <1>2, <1>8, <1>11, <3>1 DEF ArithmeticRight, DivisionRight, Done
    <2>3. CASE y = BZero
      <3>1. res' = Exit \/ IsNumber(res')
        <4>1. Remainder(x, y) \in {x, BZero, Exit}
          BY <2>3 DEF Remainder
        <4> QED
          BY <1>1, <2>1, <4>1, Zero DEF IsNumber
      <3> QED
        BY <1>2, <1>8, <1>9, <1>11, <2>3, <3>1 DEF ArithmeticRight, DivisionRight, Done
    <2> QED
      BY <2>2, <2>3
  <1> QED
    BY <1>2, <1>4, <1>5, <1>6, <1>7, <1>10, <1>11

\* What a % leaves of a number can be computed with.
LEMMA Reduced ==
  ASSUME NEW a, IsNumber(a), NEW b, IsNumber(b), b # BZero, Len(b) <= MaxLimbs,
         b = <<>> => a = <<>>
  PROVE  IsNumber(Remainder(a, b)) /\ Len(Remainder(a, b)) <= MaxLimbs
  <1>1. IsNumber(Remainder(a, b)) /\ (Len(Remainder(a, b)) <= Len(b) \/ Remainder(a, b) = BZero)
    BY RemainderRight
  <1>2. Len(Remainder(a, b)) \in Nat /\ Len(b) \in Nat
    BY <1>1, Digits DEF IsNumber
  <1>3. Len(BZero) <= MaxLimbs
    BY Zero, Bounds
  <1>4. PICK k \in Nat, l \in Nat : k = Len(Remainder(a, b)) /\ l = Len(b)
    BY <1>2
  <1>5. CASE k <= l
    BY <1>1, <1>4, <1>5, Bounds
  <1>6. CASE ~(k <= l)
    BY <1>1, <1>3, <1>4, <1>6
  <1> QED
    BY <1>5, <1>6

\* A turn of expmod leaves numbers.
LEMMA ExpStepStep ==
  ASSUME CalcInv, ExpStep PROVE CalcInv'
  <1>1. /\ res \in Seq(Limb) /\ z # BZero /\ op = "^" /\ pc' = "run"
        /\ UNCHANGED <<op, x, y, z>>
    BY DEF CalcInv, ExpStep
  <1>2. PICK product, square : product = Times(res, tmp) /\ square = Times(tmp, tmp)
    OBVIOUS
  <1>3. IsNumber(product) /\ IsNumber(square)
    BY <1>1, <1>2, CalcTypes, TimesRight DEF IsNumber
  <1>4. /\ res' = res \/ res' = Remainder(product, z)
        /\ tmp' = Remainder(square, z) /\ exp' = DivideByLimb(exp, 2)
        /\ lost' \in BOOLEAN
    BY <1>2 DEF ExpStep
  <1>5. IsNumber(tmp') /\ Len(tmp') <= MaxLimbs
    BY <1>1, <1>3, <1>4, CalcTypes, Reduced
  <1>6. res' \in Seq(Limb)
    BY <1>1, <1>3, <1>4, CalcTypes, Reduced DEF IsNumber
  <1>7. IsNumber(exp') /\ Len(exp') <= MaxLimbs
    <2>1. /\ exp' \in Seq(Limb) /\ Len(exp') <= Len(exp)
          /\ Trimmed(exp') \/ exp' = BZero
      BY <1>4, CalcTypes, DivideRight
    <2>2. Len(exp') \in Nat /\ Len(exp) \in Nat /\ Len(exp) <= MaxLimbs
      BY <2>1, CalcTypes, Digits
    <2> QED
      BY <2>1, <2>2, Bounds DEF IsNumber
  <1> QED
    BY <1>1, <1>4, <1>5, <1>6, <1>7, CalcKeeps

\* expmod and gcd: nothing is said of their results here.
LEMMA OtherOperator ==
  ASSUME op' \in {"^", "g"}
  PROVE  ArithmeticRight' /\ DivisionRight' /\ NoLeadingZero'
  BY DEF ArithmeticRight, DivisionRight, NoLeadingZero, Done

\* So does its return,
LEMMA ExpReturnStep ==
  ASSUME CalcInv, ExpReturn PROVE CalcInv'
  <1>1. /\ op = "^" /\ pc' = "done" /\ UNCHANGED <<op, x, y, z, res, tmp, exp, lost>>
        /\ res \in Seq(Limb) /\ lost \in BOOLEAN
    BY DEF ExpReturn, CalcInv, CalcRight, TypeOK
  <1>2. ArithmeticRight' /\ DivisionRight' /\ NoLeadingZero'
    BY <1>1, OtherOperator
  <1> QED
    BY <1>1, <1>2, CalcTypes, CalcKeeps

\* and a call of gcd,
LEMMA GcdStepStep ==
  ASSUME CalcInv, GcdStep PROVE CalcInv'
  <1>1. /\ op = "g" /\ pc' = "run" /\ UNCHANGED <<op, x, y, z, res>>
        /\ tmp' = exp /\ exp' = Remainder(tmp, exp) /\ exp # BZero
        /\ exp = <<>> => tmp = <<>>
        /\ lost' \in BOOLEAN /\ (res = Exit \/ res \in Seq(Limb))
    BY DEF GcdStep, CalcInv, CalcRight, TypeOK, Limb, Loops
  <1>2. IsNumber(exp') /\ Len(exp') <= MaxLimbs
    BY <1>1, CalcTypes, Reduced
  <1> QED
    BY <1>1, <1>2, CalcTypes, CalcKeeps

\* and its return.
LEMMA GcdReturnStep ==
  ASSUME CalcInv, GcdReturn PROVE CalcInv'
  <1>1. /\ op = "g" /\ pc' = "done" /\ UNCHANGED <<op, x, y, z, tmp, exp, lost>>
        /\ res' = tmp /\ lost \in BOOLEAN
    BY DEF GcdReturn, CalcInv, CalcRight, TypeOK
  <1>2. ArithmeticRight' /\ DivisionRight' /\ NoLeadingZero'
    BY <1>1, OtherOperator
  <1> QED
    BY <1>1, <1>2, CalcTypes, CalcKeeps

\* Nothing changes where no variable does.
LEMMA CalcStutters ==
  ASSUME CalcInv, UNCHANGED vars PROVE CalcInv'
  <1>1. /\ pc' = pc /\ op' = op /\ x' = x /\ y' = y /\ z' = z /\ res' = res
        /\ tmp' = tmp /\ exp' = exp /\ lost' = lost
    BY DEF vars
  <1>2. TypeOK' /\ LessRight' /\ NoLeadingZero'
    BY <1>1 DEF CalcInv, CalcRight, TypeOK, LessRight, NoLeadingZero, Done
  <1>3. ArithmeticRight' /\ DivisionRight'
    BY <1>1 DEF CalcInv, CalcRight, ArithmeticRight, DivisionRight, Done
  <1> QED
    BY <1>1, <1>2, <1>3 DEF CalcInv, CalcRight

\* In every state of a calculation.
LEMMA CalcAlways == Spec => []CalcInv
  <1>1. ASSUME CalcInv, [Next]_vars PROVE CalcInv'
    BY <1>1, ComputeStep, ExpStepStep, ExpReturnStep, GcdStepStep, GcdReturnStep,
       CalcStutters DEF Next
  <1> QED
    BY CalcInit, <1>1, PTL DEF Spec

\* The operators of lib/RSA compute what they would on natural numbers, for every
\* even BASE and operands of any number of limbs: all but the long division, and
\* that one too unless it loses a limb (bignum.cpp, normal_bignum.cpp).
THEOREM CalcHolds == Spec => []CalcRight
  <1>1. CalcInv => CalcRight
    BY DEF CalcInv
  <1> QED
    BY <1>1, CalcAlways, PTL
-----------------------------------------------------------------------------
(* Powers to a modulus *)

\* A factor can be reduced first.
LEMMA ReduceFirst ==
  ASSUME NEW u \in Nat, NEW v \in Nat, NEW m \in Nat, m > 0
  PROVE  ((u % m) * v) % m = (u * v) % m
  <1>1. PICK q \in Nat, r \in Nat : r = u % m /\ u = q * m + r
    <2>1. u \div m \in Nat /\ u % m \in Nat /\ u = (u \div m) * m + (u % m)
      BY Division
    <2> QED
      BY <2>1
  <1>2. r * v \in Nat
    OBVIOUS
  <1>3. PICK w \in Nat : w = r * v
    BY <1>2
  <1>4. PICK p \in Nat, s \in Nat : s = w % m /\ s < m /\ w = p * m + s
    <2>1. w \div m \in Nat /\ w % m \in Nat /\ w % m < m /\ w = (w \div m) * m + (w % m)
      BY Division
    <2> QED
      BY <2>1
  <1>5. u * v = (q * v + p) * m + s
    <2>1. u * v = (q * m) * v + r * v
      BY <1>1
    <2>2. (q * m) * v = (q * v) * m
      OBVIOUS
    <2>3. (q * v + p) * m = (q * v) * m + p * m
      OBVIOUS
    <2>4. PICK g \in Nat, h \in Nat, k \in Nat : g = u * v /\ h = (q * v) * m /\ k = p * m
      OBVIOUS
    <2> QED
      BY <1>3, <1>4, <2>1, <2>2, <2>3, <2>4
  <1>6. q * v + p \in Nat /\ u * v \in Nat
    OBVIOUS
  <1>7. (u * v) % m = s
    BY <1>4, <1>5, <1>6, QuotientIs
  <1> QED
    BY <1>1, <1>3, <1>4, <1>7

\* The powers of b to the modulus m.
ArePowers(p, b, m) == /\ p \in [Nat -> Nat] /\ p[0] = 1
                      /\ \A k \in Nat : p[k + 1] = (p[k] * b) % m
PowersOf(b, m) == CHOOSE p : ArePowers(p, b, m)

\* There are such powers,
LEMMA PowersOfAre ==
  ASSUME NEW b \in Nat, NEW m \in Nat, m > 0
  PROVE  ArePowers(PowersOf(b, m), b, m)
  <1>1. PICK next : next = [k \in Nat |-> [v \in Nat |-> (v * b) % m]]
    OBVIOUS
  <1>2. \A v \in Nat : (v * b) % m \in Nat
    <2>1. \A v \in Nat : v * b \in Nat
      OBVIOUS
    <2> QED
      BY <2>1, Division
  <1>3. \A k \in Nat : next[k] \in [Nat -> Nat]
    BY <1>1, <1>2
  <1>4. PICK p : OnAll(p, Nat, 1, next)
    BY <1>3, DefinedForAll
  <1>5. p \in [Nat -> Nat] /\ p[0] = 1 /\ \A k \in Nat : p[k + 1] = next[k + 1][p[k]]
    BY <1>4 DEF OnAll
  <1>6. \A k \in Nat : p[k + 1] = (p[k] * b) % m
    <2>1. \A k \in Nat : k + 1 \in Nat /\ p[k] \in Nat
      BY <1>5
    <2> QED
      BY <1>1, <1>5, <2>1
  <1>7. ArePowers(p, b, m)
    BY <1>5, <1>6 DEF ArePowers
  <1> QED
    BY <1>7 DEF PowersOf

\* and they are less than the modulus.
LEMMA PowerBelow ==
  ASSUME NEW b \in Nat, NEW m \in Nat, m > 1, NEW k \in Nat
  PROVE  PowersOf(b, m)[k] \in Nat /\ PowersOf(b, m)[k] < m
  <1>1. PICK p : p = PowersOf(b, m) /\ ArePowers(p, b, m)
    BY PowersOfAre
  <1>2. p[k] \in Nat
    BY <1>1 DEF ArePowers
  <1>3. CASE k = 0
    BY <1>1, <1>3 DEF ArePowers
  <1>4. CASE k # 0
    <2>1. PICK j \in Nat : k = j + 1
      <3>1. k - 1 \in Nat /\ k = (k - 1) + 1
        BY <1>4
      <3> QED
        BY <3>1
    <2>2. p[k] = (p[j] * b) % m /\ p[j] \in Nat
      BY <1>1, <2>1 DEF ArePowers
    <2>3. p[j] * b \in Nat
      BY <2>2
    <2>4. (p[j] * b) % m < m
      BY <2>3, Division
    <2> QED
      BY <1>1, <1>2, <2>2, <2>4
  <1> QED
    BY <1>1, <1>3, <1>4

\* One factor at a time, wherever it is reduced.
AddsFactor(b, m, k, u) ==
  (u * PowersOf(b, m)[k + 1]) % m = ((u * b) * PowersOf(b, m)[k]) % m
LEMMA PowerStep ==
  ASSUME NEW b \in Nat, NEW m \in Nat, m > 0, NEW k \in Nat, NEW u \in Nat
  PROVE  AddsFactor(b, m, k, u)
  <1>1. PICK p \in [Nat -> Nat] : p = PowersOf(b, m) /\ p[k + 1] = (p[k] * b) % m
    BY PowersOfAre DEF ArePowers
  <1>2. PICK v \in Nat, w \in Nat : v = p[k] /\ w = v * b
    OBVIOUS
  <1>3. p[k + 1] = w % m /\ w % m \in Nat
    BY <1>1, <1>2, Division
  <1>4. ((w % m) * u) % m = (w * u) % m
    BY ReduceFirst
  <1>5. u * (w % m) = (w % m) * u
    BY <1>3
  <1>6. w * u = (u * b) * v
    BY <1>2
  <1> QED
    BY <1>1, <1>2, <1>3, <1>4, <1>5, <1>6 DEF AddsFactor

\* Every second power is a power of the square.
LEMMA SquarePowers ==
  ASSUME NEW b \in Nat, NEW m \in Nat, m > 0
  PROVE  \A k \in Nat : PowersOf((b * b) % m, m)[k] = PowersOf(b, m)[2 * k]
  <1>1. b * b \in Nat
    OBVIOUS
  <1>2. PICK c \in Nat : c = (b * b) % m
    BY <1>1, Division
  <1>3. PICK p, q : /\ p = PowersOf(b, m) /\ ArePowers(p, b, m)
                    /\ q = PowersOf(c, m) /\ ArePowers(q, c, m)
    BY PowersOfAre
  <1> DEFINE T == {k \in Nat : q[k] = p[2 * k]}
  <1>4. 0 \in T
    BY <1>3 DEF ArePowers
  <1>5. ASSUME NEW k \in Nat, k \in T PROVE k + 1 \in T
    <2>1. 2 * k \in Nat /\ 2 * k + 1 \in Nat /\ 2 * (k + 1) = (2 * k + 1) + 1
      OBVIOUS
    <2>2. /\ p[(2 * k + 1) + 1] = (p[2 * k + 1] * b) % m
          /\ p[2 * k + 1] = (p[2 * k] * b) % m
          /\ p[2 * k] \in Nat /\ q[k + 1] = (q[k] * c) % m /\ q[k] = p[2 * k]
      BY <1>3, <1>5, <2>1 DEF ArePowers
    <2>3. PICK u \in Nat : u = p[2 * k]
      BY <2>2
    <2>4. u * b \in Nat
      OBVIOUS
    <2>5. (((u * b) % m) * b) % m = ((u * b) * b) % m
      BY <2>4, ReduceFirst
    <2>6. (((b * b) % m) * u) % m = ((b * b) * u) % m
      BY <1>1, ReduceFirst
    <2>7. u * c = c * u /\ (b * b) * u = (u * b) * b
      OBVIOUS
    <2>8. q[k + 1] = p[2 * (k + 1)]
      <3>1. q[k + 1] = (c * u) % m
        BY <2>2, <2>3, <2>7
      <3>2. q[k + 1] = ((u * b) * b) % m
        BY <1>2, <2>6, <2>7, <3>1
      <3>3. p[2 * (k + 1)] = ((u * b) * b) % m
        BY <2>1, <2>2, <2>3, <2>5
      <3> QED
        BY <3>2, <3>3
    <2> QED
      BY <2>8
  <1> HIDE DEF T
  <1>6. \A k \in Nat : k \in T
    BY <1>4, <1>5, Induction
  <1> QED
    BY <1>2, <1>3, <1>6 DEF T

\* The function power of ExpmodRight.
ArePowersTo(f, e, b, m) == f = [k \in 0 .. e |-> IF k = 0 THEN 1 ELSE (f[k - 1] * b) % m]
Power(b, e, m) ==
  LET power[k \in 0 .. e] == IF k = 0 THEN 1 ELSE (power[k - 1] * b) % m
  IN power[e]

\* Power is a value of such a function,
LEMMA PowerUnfold ==
  ASSUME NEW b, NEW e, NEW m, NEW g, ArePowersTo(g, e, b, m)
  PROVE  \E f : ArePowersTo(f, e, b, m) /\ Power(b, e, m) = f[e]
  <1> DEFINE f == CHOOSE f : ArePowersTo(f, e, b, m)
  <1>1. ArePowersTo(f, e, b, m)
    OBVIOUS
  <1>2. Power(b, e, m) = f[e]
    BY DEF Power, ArePowersTo
  <1> QED
    BY <1>1, <1>2

\* and that is a power.
LEMMA PowerIs ==
  ASSUME NEW b \in Nat, NEW e \in Nat, NEW m \in Nat, m > 0
  PROVE  Power(b, e, m) = PowersOf(b, m)[e]
  <1>1. PICK p : p = PowersOf(b, m) /\ ArePowers(p, b, m)
    BY PowersOfAre
  <1>2. \E g : ArePowersTo(g, e, b, m)
    <2>1. PICK g : g = [k \in 0 .. e |-> p[k]]
      OBVIOUS
    <2>2. g = [k \in 0 .. e |-> IF k = 0 THEN 1 ELSE (g[k - 1] * b) % m]
      <3>1. \A k \in 0 .. e : k # 0 => k - 1 \in 0 .. e /\ k - 1 \in Nat /\ (k - 1) + 1 = k
        OBVIOUS
      <3>2. \A k \in 0 .. e : p[k] = IF k = 0 THEN 1 ELSE (g[k - 1] * b) % m
        BY <1>1, <2>1, <3>1 DEF ArePowers
      <3> QED
        BY <2>1, <3>2
    <2> QED
      BY <2>2 DEF ArePowersTo
  <1>3. PICK f : ArePowersTo(f, e, b, m) /\ Power(b, e, m) = f[e]
    BY <1>2, PowerUnfold
  <1> DEFINE T == {k \in Nat : k <= e => f[k] = p[k]}
  <1>4. 0 \in T
    BY <1>1, <1>3 DEF ArePowersTo, ArePowers
  <1>5. ASSUME NEW k \in Nat, k \in T PROVE k + 1 \in T
    <2> SUFFICES ASSUME k + 1 <= e PROVE f[k + 1] = p[k + 1]
      OBVIOUS
    <2>1. k <= e /\ k + 1 \in 0 .. e /\ k + 1 # 0 /\ (k + 1) - 1 = k
      OBVIOUS
    <2>2. f[k] = p[k]
      BY <1>5, <2>1
    <2>3. f[k + 1] = (f[k] * b) % m
      BY <1>3, <2>1 DEF ArePowersTo
    <2> QED
      BY <1>1, <2>2, <2>3 DEF ArePowers
  <1> HIDE DEF T
  <1>6. e \in T
    BY <1>4, <1>5, Induction
  <1> QED
    BY <1>1, <1>3, <1>6 DEF T

\* The lowest limb tells whether a number is odd, since BASE is even.
LEMMA LowestParity ==
  ASSUME NEW a \in Seq(Limb), a # <<>>
  PROVE  /\ a[1] \in Nat /\ a[1] % 2 = Value(a) % 2
         /\ Value(a) \in Nat
         /\ a[1] % 2 = 1 => Value(a) = 2 * (Value(a) \div 2) + 1
         /\ a[1] % 2 # 1 => Value(a) = 2 * (Value(a) \div 2)
  <1>1. PICK n \in Nat : n = Len(a) /\ n # 0
    BY Digits, EmptySeq
  <1>2. PICK d \in Nat, u \in Nat : d = a[1] /\ Value(a) = d + BASE * u
    <2>1. 0 < Len(a) /\ 0 + 1 = 1
      BY <1>1
    <2>2. /\ Lead(a, 0) = a[1] + BASE * Lead(a, 1)
          /\ Lead(a, 1) \in Nat /\ a[1] \in Limb
      BY <2>1, LeadStep
    <2>3. a[1] \in Nat
      BY <2>2, Base DEF Limb
    <2>4. Lead(a, 0) = Value(a)
      <3>1. SubSeq(a, 0 + 1, Len(a)) = a
        <4>1. SubSeq(a, 1, Len(a)) = a
          BY <1>1, SubSeqFull
        <4> QED
          BY <2>1, <4>1
      <3> QED
        BY <3>1 DEF Lead
    <2> QED
      BY <2>2, <2>3, <2>4
  <1>3. PICK h \in Nat : BASE = 2 * h
    <2>1. BASE = 2 * (BASE \div 2) /\ BASE \div 2 \in Nat
      BY CalcAssumption, Base
    <2> QED
      BY <2>1
  <1>4. PICK v \in Nat : v = h * u
    OBVIOUS
  <1>5. Value(a) = d + 2 * v
    BY <1>2, <1>3, <1>4
  <1>6. (d + 2 * v) % 2 = d % 2
    OBVIOUS
  <1>7. PICK w \in Nat : w = Value(a)
    BY <1>5
  <1>8. /\ w % 2 = 1 => w = 2 * (w \div 2) + 1
        /\ w % 2 # 1 => w = 2 * (w \div 2)
    OBVIOUS
  <1> QED
    BY <1>2, <1>5, <1>6, <1>7, <1>8
-----------------------------------------------------------------------------
(* expmod *)

\* res times tmp to the power of exp is the power that was asked for, until a limb
\* is lost.
ExpRight ==
  LET m == Value(z)
  IN (Value(res) * PowersOf(Value(tmp), m)[Value(exp)]) % m
       = PowersOf(Value(x), m)[Value(y)]
ExpInv == op = "^" => /\ Value(z) > 1
                      /\ ~lost => ExpRight /\ Value(res) < Value(z)
                      /\ pc = "done" => Value(exp) = 0

\* res at the start of expmod.
LEMMA One == BOne \in Seq(Limb) /\ IsNumber(BOne) /\ Value(BOne) = 1 /\ BOne # <<>>
  <1>1. BOne \in Seq(Limb)
    BY Small
  <1>2. Len(BOne) = 1 /\ BOne[1] = 1 /\ DOMAIN BOne = 1 .. 1 /\ BOne # <<>>
    BY DEF BOne
  <1>3. Value(BOne) = 1
    BY <1>1, <1>2, OneLimb
  <1>4. At(BOne, Len(BOne)) # 0
    BY <1>2 DEF At
  <1> QED
    BY <1>1, <1>2, <1>3, <1>4 DEF IsNumber, Trimmed

\* The values a step computes with.
LEMMA CalcValues ==
  ASSUME CalcInv
  PROVE  /\ Value(x) \in Nat /\ Value(y) \in Nat /\ Value(z) \in Nat
         /\ Value(tmp) \in Nat /\ Value(exp) \in Nat
  <1>1. IsNumber(x) /\ IsNumber(y)
    BY CalcTypes, Operands
  <1> QED
    BY <1>1, CalcTypes, ValueZero

\* At the start res is 1.
LEMMA ExpInit ==
  ASSUME Init, CalcInv PROVE ExpInv
  <1> SUFFICES ASSUME op = "^" PROVE /\ Value(z) > 1 /\ ExpRight /\ Value(res) < Value(z)
                                     /\ pc # "done"
    BY DEF ExpInv
  <1>1. /\ z # BZero /\ z # BOne /\ z # <<>> /\ IsNumber(z)
        /\ res = BOne /\ tmp = x /\ exp = y /\ pc = "run"
    BY CalcTypes DEF Init
  <1>2. PICK m \in Nat, b \in Nat, e \in Nat : m = Value(z) /\ b = Value(x) /\ e = Value(y)
    BY CalcValues
  <1>3. m > 1
    <2>1. m # 0
      BY <1>1, <1>2, ValueZero
    <2>2. m # 1
      <3>1. Less(z, BOne) <=> Value(z) < Value(BOne)
        BY <1>1, One, LessNumber
      <3>2. Less(BOne, z) <=> Value(BOne) < Value(z)
        BY <1>1, One, LessNumber
      <3>3. ~Less(z, BOne) /\ ~Less(BOne, z) => z = BOne
        BY <1>1, One, LessNumber
      <3> QED
        BY <1>1, <1>2, <3>1, <3>2, <3>3, One
    <2> QED
      BY <2>1, <2>2
  <1>4. PICK u \in Nat : u = PowersOf(b, m)[e] /\ u < m
    BY <1>3, PowerBelow
  <1>5. (1 * u) % m = u
    BY <1>3, <1>4
  <1> QED
    BY <1>1, <1>2, <1>3, <1>4, <1>5, One DEF ExpRight

\* A turn, on natural numbers.
TurnIs(m, r, t, h) ==
         /\ (r * PowersOf((t * t) % m, m)[h]) % m = (r * PowersOf(t, m)[2 * h]) % m
         /\ (((r * t) % m) * PowersOf((t * t) % m, m)[h]) % m
              = (r * PowersOf(t, m)[2 * h + 1]) % m
LEMMA ExpTurnRight ==
  ASSUME NEW m \in Nat, m > 0, NEW r \in Nat, NEW t \in Nat, NEW h \in Nat
  PROVE  TurnIs(m, r, t, h)
  <1>1. PICK u : u = PowersOf((t * t) % m, m)[h] /\ u = PowersOf(t, m)[2 * h]
    BY SquarePowers
  <1>2. 2 * h \in Nat
    OBVIOUS
  <1>3. u \in Nat
    BY <1>1, <1>2, PowersOfAre DEF ArePowers
  <1>4. (r * PowersOf(t, m)[2 * h + 1]) % m = ((r * t) * u) % m
    <2>1. PICK k \in Nat : k = 2 * h
      BY <1>2
    <2>2. (r * PowersOf(t, m)[k + 1]) % m = ((r * t) * PowersOf(t, m)[k]) % m
      <3>1. AddsFactor(t, m, k, r)
        BY PowerStep
      <3> QED
        BY <3>1 DEF AddsFactor
    <2> QED
      BY <1>1, <2>1, <2>2
  <1>5. r * t \in Nat
    OBVIOUS
  <1>6. (((r * t) % m) * u) % m = ((r * t) * u) % m
    BY <1>3, <1>5, ReduceFirst
  <1> QED
    BY <1>1, <1>4, <1>6 DEF TurnIs

\* exp is not zero in a turn, and half of it afterwards.
LEMMA ExpHalf ==
  ASSUME CalcInv, ExpStep
  PROVE  /\ exp # <<>> /\ Value(exp) > 0 /\ Value(exp') = Value(exp) \div 2
  <1>1. Less(BZero, exp) /\ exp' = DivideByLimb(exp, 2)
    BY DEF ExpStep
  <1>2. exp # <<>>
    <2> SUFFICES ASSUME exp = <<>> PROVE FALSE
      OBVIOUS
    <2>1. Len(exp) < Len(BZero)
      BY Empty, Zero
    <2>2. ~Less(BZero, exp)
      BY <2>1, CalcTypes, Zero, LessIsShorter
    <2> QED
      BY <1>1, <2>2
  <1>3. IsNumber(BZero) /\ IsNumber(exp)
    BY CalcTypes, Zero DEF IsNumber
  <1>4. Value(BZero) < Value(exp)
    BY <1>1, <1>2, <1>3, Zero, LessNumber
  <1>5. Value(exp') = Value(exp) \div 2
    BY <1>1, CalcTypes, DivideRight
  <1> QED
    BY <1>2, <1>4, <1>5, Zero

\* A turn keeps the power.
LEMMA ExpStepRight ==
  ASSUME CalcInv, ExpInv, ExpStep PROVE ExpInv'
  <1>1. /\ op = "^" /\ pc' = "run" /\ UNCHANGED <<op, x, y, z>>
        /\ res \in Seq(Limb) /\ z # BZero /\ z # <<>> /\ IsNumber(z) /\ tmp \in Seq(Limb)
    BY CalcTypes DEF CalcInv, ExpStep
  <1>2. Value(z) > 1
    BY <1>1 DEF ExpInv
  <1> SUFFICES ASSUME ~lost' PROVE ExpRight' /\ Value(res') < Value(z)
    BY <1>1, <1>2 DEF ExpInv
  <1>3. PICK product, square : product = Times(res, tmp) /\ square = Times(tmp, tmp)
    OBVIOUS
  <1>4. /\ lost' = (lost \/ (exp[1] % 2 = 1 /\ LosesLimb(product, z)) \/ LosesLimb(square, z))
        /\ res' = IF exp[1] % 2 = 1 THEN Remainder(product, z) ELSE res
        /\ tmp' = Remainder(square, z)
    BY <1>3 DEF ExpStep
  <1>5. ~lost /\ ~LosesLimb(square, z) /\ (exp[1] % 2 = 1 => ~LosesLimb(product, z))
    BY <1>4
  <1>6. /\ IsNumber(product) /\ Value(product) = Value(res) * Value(tmp)
        /\ IsNumber(square) /\ Value(square) = Value(tmp) * Value(tmp)
    BY <1>1, <1>3, TimesRight DEF IsNumber
  <1>7. ExpRight /\ Value(res) < Value(z)
    BY <1>1, <1>5 DEF ExpInv
  <1>8. PICK m \in Nat, r \in Nat, t \in Nat, e \in Nat, g \in Nat, b \in Nat :
          /\ m = Value(z) /\ r = Value(res) /\ t = Value(tmp) /\ e = Value(exp)
          /\ g = Value(y) /\ b = Value(x)
    <2>1. Value(res) \in Nat
      BY <1>1, Digits, ValueLow
    <2> QED
      BY <2>1, CalcValues
  <1>9. Value(tmp') = (t * t) % m
    BY <1>1, <1>4, <1>5, <1>6, <1>8, RemainderRight
  <1>10. PICK h \in Nat : /\ Value(exp') = h
                          /\ exp[1] % 2 = 1 => e = 2 * h + 1
                          /\ exp[1] % 2 # 1 => e = 2 * h
    <2>1. e \div 2 \in Nat
      OBVIOUS
    <2>2. exp # <<>> /\ exp \in Seq(Limb) /\ Value(exp') = e \div 2
      BY <1>8, CalcTypes, ExpHalf
    <2>3. /\ exp[1] % 2 = 1 => e = 2 * (e \div 2) + 1
          /\ exp[1] % 2 # 1 => e = 2 * (e \div 2)
      BY <1>8, <2>2, LowestParity
    <2> QED
      BY <2>1, <2>2, <2>3
  <1>11. (r * PowersOf(t, m)[e]) % m = PowersOf(b, m)[g]
    BY <1>7, <1>8 DEF ExpRight
  <1>12. /\ (r * PowersOf((t * t) % m, m)[h]) % m = (r * PowersOf(t, m)[2 * h]) % m
         /\ (((r * t) % m) * PowersOf((t * t) % m, m)[h]) % m
              = (r * PowersOf(t, m)[2 * h + 1]) % m
    <2>1. m > 0
      BY <1>2, <1>8
    <2>2. TurnIs(m, r, t, h)
      BY <2>1, ExpTurnRight
    <2> QED
      BY <2>2 DEF TurnIs
  <1>13. ExpRight' <=> (Value(res') * PowersOf((t * t) % m, m)[h]) % m = PowersOf(b, m)[g]
    BY <1>1, <1>8, <1>9, <1>10 DEF ExpRight
  <1>14. CASE exp[1] % 2 = 1
    <2>1. res' = Remainder(product, z) /\ ~LosesLimb(product, z)
      BY <1>4, <1>5, <1>14
    <2>2. Value(res') = (r * t) % m /\ Value(res') < Value(z)
      BY <1>1, <1>6, <1>8, <2>1, RemainderRight
    <2> QED
      BY <1>10, <1>11, <1>12, <1>13, <1>14, <2>2
  <1>15. CASE exp[1] % 2 # 1
    <2>1. Value(res') = r
      BY <1>4, <1>8, <1>15
    <2> QED
      BY <1>7, <1>8, <1>10, <1>11, <1>12, <1>13, <1>15, <2>1
  <1> QED
    BY <1>14, <1>15

\* expmod returns when exp is zero.
LEMMA ExpReturnRight ==
  ASSUME CalcInv, ExpInv, ExpReturn PROVE ExpInv'
  <1>1. /\ op = "^" /\ pc = "run" /\ UNCHANGED <<op, x, y, z, res, tmp, exp, lost>>
        /\ ~Less(BZero, exp)
    BY DEF ExpReturn
  <1>2. Value(exp) = 0
    <2>1. CASE exp = <<>>
      BY <2>1, Empty
    <2>2. CASE exp # <<>>
      <3>1. IsNumber(BZero) /\ IsNumber(exp)
        BY CalcTypes, Zero DEF IsNumber
      <3>2. ~(Value(BZero) < Value(exp))
        BY <1>1, <2>2, <3>1, Zero, LessNumber
      <3> QED
        BY <3>2, Zero, CalcValues
    <2> QED
      BY <2>1, <2>2
  <1> QED
    BY <1>1, <1>2 DEF ExpInv, ExpRight

\* After the loop res is the power itself.
LEMMA ExpAtEnd ==
  ASSUME CalcInv, ExpInv PROVE ExpmodRight
  <1>1. ExpmodRight <=> (Done("^") /\ ~lost => Value(res) = Power(Value(x), Value(y), Value(z)))
    BY DEF ExpmodRight, Power
  <1> SUFFICES ASSUME Done("^"), ~lost
               PROVE  Value(res) = Power(Value(x), Value(y), Value(z))
    BY <1>1
  <1>2. op = "^" /\ ExpRight /\ Value(res) < Value(z) /\ Value(exp) = 0 /\ Value(z) > 1
    BY DEF ExpInv, Done
  <1>3. PICK m \in Nat, r \in Nat, t \in Nat, g \in Nat, b \in Nat :
          /\ m = Value(z) /\ r = Value(res) /\ t = Value(tmp)
          /\ g = Value(y) /\ b = Value(x)
    <2>1. Value(res) \in Nat
      BY <1>2, Digits, ValueLow DEF CalcInv
    <2> QED
      BY <2>1, CalcValues
  <1>4. (r * 1) % m = PowersOf(b, m)[g]
    <2>1. PowersOf(t, m)[0] = 1
      BY <1>2, <1>3, PowersOfAre DEF ArePowers
    <2> QED
      BY <1>2, <1>3, <2>1 DEF ExpRight
  <1>5. (r * 1) % m = r
    BY <1>2, <1>3
  <1>6. Power(b, g, m) = PowersOf(b, m)[g]
    BY <1>2, <1>3, PowerIs
  <1> QED
    BY <1>3, <1>4, <1>5, <1>6
-----------------------------------------------------------------------------
(* gcd *)

Divisors(u, v) == {d \in Nat : d > 0 /\ u % d = 0 /\ v % d = 0}

\* gcd's numbers: the operands, then decreasing; a zero with a limb only where
\* that is the answer; and with the divisors of the operands.
GcdInv ==
  op = "g" /\ pc = "run" =>
    /\ (tmp = x /\ exp = y) \/ exp = BZero \/ Value(exp) < Value(tmp)
    /\ exp = BZero => \/ x = y /\ tmp = x
                      \/ BZero \in {x, y} /\ Value(tmp) = Value(x) + Value(y)
    /\ BZero \in {x, y} => (tmp = x /\ exp = y) \/ exp = BZero
    /\ ~lost => Divisors(Value(tmp), Value(exp)) = Divisors(Value(x), Value(y))
GcdEnd ==
  op = "g" /\ pc = "done" => \/ x = y /\ res = x
                             \/ BZero \in {x, y} /\ Value(res) = Value(x) + Value(y)

\* What divides the divisor divides the dividend if it divides the remainder.
LEMMA SameDivisors ==
  ASSUME NEW u \in Nat, NEW v \in Nat, v > 0
  PROVE  Divisors(v, u % v) = Divisors(u, v)
  <1>1. PICK q \in Nat, r \in Nat : r = u % v /\ u = q * v + r
    <2>1. u \div v \in Nat /\ u % v \in Nat /\ u = (u \div v) * v + (u % v)
      BY Division
    <2> QED
      BY <2>1
  <1>2. ASSUME NEW d \in Nat, d > 0, v % d = 0 PROVE u % d = r % d
    <2>1. PICK k \in Nat : v = k * d
      <3>1. v \div d \in Nat /\ v = (v \div d) * d + (v % d)
        BY <1>2, Division
      <3> QED
        BY <1>2, <3>1
    <2>2. PICK l \in Nat, s \in Nat : s = r % d /\ s < d /\ r = l * d + s
      <3>1. r \div d \in Nat /\ r % d \in Nat /\ r % d < d /\ r = (r \div d) * d + (r % d)
        BY <1>2, Division
      <3> QED
        BY <3>1
    <2>3. u = (q * k + l) * d + s
      <3>1. q * v = (q * k) * d
        BY <2>1
      <3>2. (q * k + l) * d = (q * k) * d + l * d
        OBVIOUS
      <3>3. PICK g \in Nat, h \in Nat : g = (q * k) * d /\ h = l * d
        OBVIOUS
      <3>4. u = g + (h + s)
        BY <1>1, <2>2, <3>1, <3>3
      <3> QED
        BY <3>2, <3>3, <3>4
    <2>4. q * k + l \in Nat
      OBVIOUS
    <2> QED
      BY <2>2, <2>3, <2>4, QuotientIs
  <1>3. \A d \in Nat : d > 0 /\ v % d = 0 => u % d = r % d
    BY <1>2
  <1> QED
    BY <1>1, <1>3 DEF Divisors

\* At the start gcd has the operands.
LEMMA GcdInit ==
  ASSUME Init, CalcInv PROVE GcdInv /\ GcdEnd
  <1>1. pc = "run" /\ tmp = x /\ exp = y
    BY DEF Init
  <1>2. Value(x) \in Nat /\ Value(y) \in Nat
    BY CalcValues
  <1>3. exp = BZero => Value(tmp) = Value(x) + Value(y)
    BY <1>1, <1>2, Zero
  <1> QED
    BY <1>1, <1>3 DEF GcdInv, GcdEnd

\* A turn whose operands have limbs: what is left is less than the divisor, and
\* has a limb only if it is not zero, or the operands were in the wrong order, or
\* equal.
LEMMA GcdTurn ==
  ASSUME NEW a, IsNumber(a), NEW b, IsNumber(b), b # BZero, b # <<>>
  PROVE  /\ Value(Remainder(a, b)) < Value(b) /\ Value(Remainder(a, b)) \in Nat
         /\ Remainder(a, b) = BZero => a = BZero \/ a = b
         /\ ~LosesLimb(a, b) => Value(Remainder(a, b)) = Value(a) % Value(b)
  <1>1. /\ Value(Remainder(a, b)) < Value(b) /\ IsNumber(Remainder(a, b))
        /\ ~LosesLimb(a, b) => Value(Remainder(a, b)) = Value(a) % Value(b)
    BY RemainderRight
  <1>2. ASSUME Remainder(a, b) = BZero, a # BZero, a # b PROVE FALSE
    <2>1. ~Less(a, b) /\ BZero = LongDivision(a, b).tmp
      BY <1>2 DEF Remainder
    <2>2. Divides(a, b)
      BY <2>1, DividesNumber
    <2>3. Trimmed(LongDivision(a, b).tmp)
      BY <2>2, LongDivisionRight DEF Partial
    <2> QED
      BY <2>1, <2>3, Zero DEF Trimmed
  <1> QED
    BY <1>1, <1>2, ValueZero

\* A call of gcd goes on with what is left.
LEMMA GcdStepRight ==
  ASSUME CalcInv, GcdInv, GcdStep PROVE GcdInv' /\ GcdEnd'
  <1>1. /\ op = "g" /\ pc = "run" /\ UNCHANGED <<pc, op, x, y, z, res>>
        /\ tmp' = exp /\ exp' = Remainder(tmp, exp) /\ exp # BZero
        /\ exp = <<>> => tmp = <<>>
        /\ lost' = (lost \/ LosesLimb(tmp, exp))
    BY DEF GcdStep, Loops
  <1>2. GcdEnd'
    BY <1>1 DEF GcdEnd
  <1>3. /\ (tmp = x /\ exp = y) \/ Value(exp) < Value(tmp)
        /\ BZero \in {x, y} => tmp = x /\ exp = y
        /\ ~lost => Divisors(Value(tmp), Value(exp)) = Divisors(Value(x), Value(y))
    BY <1>1 DEF GcdInv
  <1>4. /\ IsNumber(tmp) /\ IsNumber(exp) /\ x # <<>> /\ y # <<>>
        /\ Value(x) \in Nat /\ Value(y) \in Nat /\ Value(tmp) \in Nat /\ Value(exp) \in Nat
    BY CalcTypes, CalcValues, Operands
  <1>5. exp # <<>>
    <2> SUFFICES ASSUME exp = <<>> PROVE FALSE
      OBVIOUS
    <2>1. Value(tmp) = 0 /\ Value(exp) = 0
      BY <1>1, Empty
    <2> QED
      BY <1>3, <1>4, <2>1
  <1>6. /\ Value(exp') < Value(exp) /\ Value(exp') \in Nat
        /\ exp' = BZero => tmp = BZero \/ tmp = exp
        /\ ~LosesLimb(tmp, exp) => Value(exp') = Value(tmp) % Value(exp)
    BY <1>1, <1>4, <1>5, GcdTurn
  <1>7. exp' = BZero => \/ x = y /\ tmp' = x
                        \/ BZero \in {x, y} /\ Value(tmp') = Value(x) + Value(y)
    <2> SUFFICES ASSUME exp' = BZero
                 PROVE  \/ x = y /\ exp = x
                        \/ BZero \in {x, y} /\ Value(exp) = Value(x) + Value(y)
      BY <1>1
    <2>1. tmp = x /\ exp = y
      <3> SUFFICES ASSUME Value(exp) < Value(tmp) PROVE FALSE
        BY <1>3
      <3>1. tmp = BZero
        BY <1>4, <1>6
      <3> QED
        BY <1>4, <3>1, Zero
    <2>2. CASE x = BZero
      BY <1>4, <2>1, <2>2, Zero
    <2>3. CASE x # BZero
      BY <1>6, <2>1, <2>3
    <2> QED
      BY <2>2, <2>3
  <1>8. BZero \in {x, y} => exp' = BZero
    <2> SUFFICES ASSUME BZero \in {x, y} PROVE exp' = BZero
      OBVIOUS
    <2>1. tmp = BZero
      BY <1>1, <1>3
    <2>2. Less(tmp, exp)
      <3>1. Value(exp) > 0
        BY <1>1, <1>4, <1>5, ValueZero
      <3>2. Value(tmp) < Value(exp)
        BY <2>1, <3>1, Zero
      <3> QED
        BY <1>4, <1>5, <2>1, <3>2, Zero, LessNumber
    <2> QED
      BY <1>1, <2>1, <2>2 DEF Remainder
  <1>9. ~lost' => Divisors(Value(tmp'), Value(exp')) = Divisors(Value(x), Value(y))
    <2> SUFFICES ASSUME ~lost'
                 PROVE  Divisors(Value(exp), Value(exp')) = Divisors(Value(x), Value(y))
      BY <1>1
    <2>1. ~lost /\ ~LosesLimb(tmp, exp)
      BY <1>1
    <2>2. PICK u \in Nat, v \in Nat : u = Value(tmp) /\ v = Value(exp)
      BY <1>4
    <2>3. v > 0
      BY <1>1, <1>4, <1>5, <2>2, ValueZero
    <2>4. Divisors(v, u % v) = Divisors(u, v)
      BY <2>3, SameDivisors
    <2> QED
      BY <1>3, <1>6, <2>1, <2>2, <2>4
  <1>10. Value(exp') < Value(tmp')
    BY <1>1, <1>6
  <1> QED
    BY <1>1, <1>2, <1>7, <1>8, <1>9, <1>10 DEF GcdInv

\* In every state gcd is right.
LEMMA GcdIsRight ==
  ASSUME CalcInv, GcdInv, GcdEnd PROVE GcdRight
  <1> SUFFICES ASSUME op = "g", pc = "run", exp = NormalZero, ~lost
               PROVE  /\ BZero \notin {x, y} /\ Loops(tmp, exp)
                      /\ Value(tmp) \in CommonDivisors
                      /\ \A d \in CommonDivisors : d <= Value(tmp)
    BY DEF GcdRight, GcdEnd
  <1>1. /\ exp = <<>> /\ exp # BZero /\ x # <<>> /\ y # <<>>
        /\ IsNumber(tmp) /\ IsNumber(x) /\ IsNumber(y)
    BY Zero, CalcTypes, Operands DEF NormalZero
  <1>2. /\ Value(exp) < Value(tmp) /\ BZero \notin {x, y}
        /\ Divisors(Value(tmp), Value(exp)) = Divisors(Value(x), Value(y))
    BY <1>1 DEF GcdInv
  <1>3. Value(exp) = 0
    BY <1>1, Empty
  <1>4. PICK t \in Nat, u \in Nat, v \in Nat :
          t = Value(tmp) /\ u = Value(x) /\ v = Value(y) /\ t > 0 /\ u > 0
    <2>1. Value(x) > 0
      BY <1>1, <1>2, ValueZero
    <2> QED
      BY <1>2, <1>3, <2>1, CalcValues
  <1>5. Loops(tmp, exp)
    BY <1>1, <1>2, <1>3, Empty DEF Loops
  <1>6. Divisors(t, 0) = Divisors(u, v)
    BY <1>2, <1>3, <1>4
  <1>7. ASSUME NEW w \in Nat, w > 0, NEW d \in Nat, d > 0, w % d = 0 PROVE d <= w
    <2> SUFFICES ASSUME w < d PROVE FALSE
      BY <1>7
    <2>1. w % d = w
      OBVIOUS
    <2> QED
      BY <1>7, <2>1
  <1>8. t % t = 0 /\ 0 % t = 0
    BY <1>4
  <1>9. t \in Divisors(u, v)
    <2>1. t \in Divisors(t, 0)
      BY <1>4, <1>8 DEF Divisors
    <2> QED
      BY <1>6, <2>1
  <1>10. t \in CommonDivisors
    <2>1. t > 0 /\ u % t = 0 /\ v % t = 0
      BY <1>9 DEF Divisors
    <2>2. t <= u
      BY <1>4, <1>7, <2>1
    <2>3. t \in 1 .. u
      BY <2>1, <2>2
    <2> QED
      BY <1>4, <2>1, <2>3 DEF CommonDivisors
  <1>11. ASSUME NEW d \in CommonDivisors PROVE d <= t
    <2>1. d \in Nat /\ d > 0 /\ u % d = 0 /\ v % d = 0
      BY <1>4, <1>11 DEF CommonDivisors
    <2>2. d \in Divisors(t, 0)
      BY <1>6, <2>1 DEF Divisors
    <2>3. t % d = 0
      BY <2>2 DEF Divisors
    <2> QED
      BY <1>4, <1>7, <2>1, <2>3
  <1> QED
    BY <1>2, <1>4, <1>5, <1>10, <1>11
-----------------------------------------------------------------------------
(* The specification, with expmod and gcd *)

PowersInv == CalcInv /\ ExpInv /\ GcdInv /\ GcdEnd

\* The invariant holds at the start,
LEMMA PowersInit ==
  ASSUME Init PROVE PowersInv
  BY CalcInit, ExpInit, GcdInit DEF PowersInv

\* and in each step.
LEMMA PowersStep ==
  ASSUME PowersInv, [Next]_vars PROVE PowersInv'
  <1>1. CalcInv /\ ExpInv /\ GcdInv /\ GcdEnd
    BY DEF PowersInv
  <1>2. CASE Compute
    <2>1. op \notin {"^", "g"} /\ op' = op /\ CalcInv'
      BY <1>1, <1>2, ComputeStep DEF Compute
    <2> QED
      BY <2>1 DEF PowersInv, ExpInv, GcdInv, GcdEnd
  <1>3. CASE ExpStep
    <2>1. op = "^" /\ op' = op /\ CalcInv' /\ ExpInv'
      BY <1>1, <1>3, ExpStepStep, ExpStepRight DEF ExpStep
    <2> QED
      BY <2>1 DEF PowersInv, GcdInv, GcdEnd
  <1>4. CASE ExpReturn
    <2>1. op = "^" /\ op' = op /\ CalcInv' /\ ExpInv'
      BY <1>1, <1>4, ExpReturnStep, ExpReturnRight DEF ExpReturn
    <2> QED
      BY <2>1 DEF PowersInv, GcdInv, GcdEnd
  <1>5. CASE GcdStep
    <2>1. op = "g" /\ op' = op /\ CalcInv' /\ GcdInv' /\ GcdEnd'
      BY <1>1, <1>5, GcdStepStep, GcdStepRight DEF GcdStep
    <2> QED
      BY <2>1 DEF PowersInv, ExpInv
  <1>6. CASE GcdReturn
    <2>1. /\ op = "g" /\ pc = "run" /\ exp = BZero /\ res' = tmp /\ pc' = "done"
          /\ UNCHANGED <<op, x, y>> /\ CalcInv'
      BY <1>1, <1>6, GcdReturnStep DEF GcdReturn
    <2>2. \/ x = y /\ tmp = x
          \/ BZero \in {x, y} /\ Value(tmp) = Value(x) + Value(y)
      BY <1>1, <2>1 DEF GcdInv
    <2>3. GcdEnd'
      BY <2>1, <2>2 DEF GcdEnd
    <2>4. ExpInv' /\ GcdInv'
      BY <2>1 DEF ExpInv, GcdInv
    <2> QED
      BY <2>1, <2>3, <2>4 DEF PowersInv
  <1>7. CASE UNCHANGED vars
    <2>1. /\ pc' = pc /\ op' = op /\ x' = x /\ y' = y /\ z' = z /\ res' = res
          /\ tmp' = tmp /\ exp' = exp /\ lost' = lost /\ CalcInv'
      BY <1>1, <1>7, CalcStutters DEF vars
    <2>2. ExpInv'
      BY <1>1, <2>1 DEF ExpInv, ExpRight
    <2>3. GcdInv' /\ GcdEnd'
      BY <1>1, <2>1 DEF GcdInv, GcdEnd
    <2> QED
      BY <2>1, <2>2, <2>3 DEF PowersInv
  <1> QED
    BY <1>2, <1>3, <1>4, <1>5, <1>6, <1>7 DEF Next

\* A turn of expmod makes exp smaller.
LEMMA ExpCloser ==
  ASSUME CalcInv, [Next]_vars PROVE [ExpmodCloser]_vars
  <1>1. CASE ExpStep
    <2>1. Value(exp) \in Nat /\ Value(exp) > 0 /\ Value(exp') = Value(exp) \div 2
      BY <1>1, CalcValues, ExpHalf
    <2>2. PICK e \in Nat : e = Value(exp)
      BY <2>1
    <2>3. e > 0 => e \div 2 < e
      OBVIOUS
    <2> QED
      BY <2>1, <2>2, <2>3 DEF ExpmodCloser
  <1>2. CASE Compute \/ ExpReturn \/ GcdStep \/ GcdReturn
    BY <1>2 DEF Compute, ExpReturn, GcdStep, GcdReturn, ExpmodCloser
  <1> QED
    BY <1>1, <1>2 DEF Next

\* expmod is the power to the modulus unless one of its % loses a limb, each of its
\* turns makes the exponent smaller, and gcd returns a right answer if it returns,
\* which is when the numbers are equal or one is zero (bignum.cpp, 220-237).
THEOREM PowersHold == Spec => PowersRight
  <1>1. PowersInv => CalcInv /\ ExpmodRight /\ GcdRight
    BY ExpAtEnd, GcdIsRight DEF PowersInv
  <1>2. PowersInv /\ [Next]_vars => [ExpmodCloser]_vars
    BY ExpCloser DEF PowersInv
  <1>3. Spec => []PowersInv
    BY PowersInit, PowersStep, PTL DEF Spec
  <1>4. Spec => [](ExpmodRight /\ GcdRight)
    BY <1>1, <1>3, PTL
  <1>5. Spec => [][ExpmodCloser]_vars
    BY <1>2, <1>3, PTL DEF Spec
  <1> QED
    BY <1>4, <1>5 DEF PowersRight
-----------------------------------------------------------------------------
(* Decimal digits *)

IsTen(f) == f = [n \in Nat |-> IF n = 0 THEN 1 ELSE 10 * f[n - 1]]

\* The powers of ten.
LEMMA Tens ==
  /\ Ten[0] = 1
  /\ \A n \in Nat : Ten[n] \in Nat /\ Ten[n] > 0 /\ Ten[n + 1] = 10 * Ten[n]
  <1>1. PICK next : next = [k \in Nat |-> [u0 \in Nat |-> 10 * u0]]
    OBVIOUS
  <1>2. PICK f : OnAll(f, Nat, 1, next)
    <2>1. \A k \in Nat : next[k] \in [Nat -> Nat]
      BY <1>1
    <2> QED
      BY <2>1, DefinedForAll
  <1>3. f \in [Nat -> Nat] /\ f[0] = 1 /\ \A n \in Nat : f[n + 1] = 10 * f[n]
    <2>1. /\ f \in [Nat -> Nat] /\ f[0] = 1
          /\ \A n \in Nat : f[n + 1] = next[n + 1][f[n]]
      BY <1>2 DEF OnAll
    <2>2. ASSUME NEW n \in Nat PROVE f[n + 1] = 10 * f[n]
      <3>1. n + 1 \in Nat /\ f[n] \in Nat
        BY <2>1
      <3> QED
        BY <1>1, <2>1, <3>1
    <2> QED
      BY <2>1, <2>2
  <1>4. IsTen(f)
    <2>1. ASSUME NEW n \in Nat, n # 0 PROVE f[n] = 10 * f[n - 1]
      <3>1. n - 1 \in Nat /\ (n - 1) + 1 = n
        BY <2>1
      <3> QED
        BY <1>3, <3>1
    <2>2. f = [n \in Nat |-> f[n]]
      BY <1>3
    <2> QED
      BY <1>3, <2>1, <2>2 DEF IsTen
  <1>5. IsTen(Ten)
    <2>1. Ten = CHOOSE g : IsTen(g)
      BY DEF Ten, IsTen
    <2> QED
      BY <1>4, <2>1
  <1>6. \A n \in Nat : Ten[n] = IF n = 0 THEN 1 ELSE 10 * Ten[n - 1]
    BY <1>5 DEF IsTen
  <1>7. \A n \in Nat : n + 1 \in Nat /\ n + 1 # 0 /\ (n + 1) - 1 = n
    OBVIOUS
  <1>8. Ten[0] = 1 /\ \A n \in Nat : Ten[n + 1] = 10 * Ten[n]
    BY <1>6, <1>7
  <1> DEFINE T == {n \in Nat : Ten[n] \in Nat /\ Ten[n] > 0}
  <1>9. 0 \in T
    BY <1>8
  <1>10. \A n \in Nat : n \in T => n + 1 \in T
    BY <1>8
  <1> HIDE DEF T
  <1>11. \A n \in Nat : n \in T
    BY <1>9, <1>10, Induction
  <1> QED
    BY <1>8, <1>11 DEF T

\* They grow.
LEMMA TenGrows ==
  ASSUME NEW j \in Nat, NEW n \in Nat, j <= n
  PROVE  Ten[j] <= Ten[n]
  <1> DEFINE T == {i \in Nat : Ten[j] <= Ten[j + i]}
  <1>1. 0 \in T
    BY Tens
  <1>2. ASSUME NEW i \in Nat, i \in T PROVE i + 1 \in T
    <2>1. j + i \in Nat /\ j + (i + 1) = (j + i) + 1
      OBVIOUS
    <2>2. Ten[j + (i + 1)] = 10 * Ten[j + i] /\ Ten[j + i] \in Nat /\ Ten[j] \in Nat
      BY <2>1, Tens
    <2>3. Ten[j] <= Ten[j + i]
      BY <1>2
    <2> QED
      BY <2>2, <2>3
  <1> HIDE DEF T
  <1>3. n - j \in Nat /\ j + (n - j) = n
    OBVIOUS
  <1>4. n - j \in T
    BY <1>1, <1>2, <1>3, Induction
  <1> QED
    BY <1>3, <1>4 DEF T

\* The lowest digit, and how the others go down when it is dropped.
LEMMA DigitDown ==
  ASSUME NEW v \in Nat
  PROVE  /\ Digit(v, 0) = v % 10
         /\ \A p \in Nat : /\ Digit(v, p) \in 0 .. 9
                           /\ Digit(v, p + 1) = Digit(v \div 10, p)
  <1>1. Digit(v, 0) = v % 10
    <2>1. v \div 1 = v
      OBVIOUS
    <2> QED
      BY <2>1, Tens DEF Digit
  <1>2. ASSUME NEW p \in Nat
        PROVE  Digit(v, p) \in 0 .. 9 /\ Digit(v, p + 1) = Digit(v \div 10, p)
    <2>1. PICK t \in Nat : t = Ten[p] /\ t > 0 /\ Ten[p + 1] = 10 * t
      BY Tens
    <2>2. PICK w \in Nat, d \in Nat : w = v \div 10 /\ d < 10 /\ v = w * 10 + d
      <3>1. v \div 10 \in Nat /\ v % 10 \in Nat /\ v % 10 < 10 /\ v = (v \div 10) * 10 + (v % 10)
        BY Division
      <3> QED
        BY <3>1
    <2>3. PICK q \in Nat, r \in Nat : q = w \div t /\ r < t /\ w = q * t + r
      <3>1. w \div t \in Nat /\ w % t \in Nat /\ w % t < t /\ w = (w \div t) * t + (w % t)
        BY <2>1, Division
      <3> QED
        BY <3>1
    <2>4. PICK e \in Nat : e = 10 * t /\ 10 * r + d \in Nat /\ 10 * r + d < e
      BY <2>1, <2>2, <2>3
    <2>5. v = q * e + (10 * r + d)
      <3>1. q * e = 10 * (q * t) /\ q * t \in Nat
        BY <2>4
      <3> QED
        BY <2>2, <2>3, <3>1
    <2>6. v \div e = q
      BY <2>4, <2>5, QuotientIs
    <2>7. v \div t \in Nat
      BY <2>1, Division
    <2>8. Digit(v, p + 1) = q % 10
      BY <2>1, <2>4, <2>6 DEF Digit
    <2>9. Digit(v \div 10, p) = q % 10
      BY <2>1, <2>2, <2>3 DEF Digit
    <2>10. Digit(v, p) \in 0 .. 9
      BY <2>1, <2>7 DEF Digit
    <2> QED
      BY <2>8, <2>9, <2>10
  <1> QED
    BY <1>1, <1>2

\* Numbers with as many digits, all the same, are the same.
LEMMA SameDigits ==
  ASSUME NEW n \in Nat, NEW v \in Nat, NEW u \in Nat, v < Ten[n], u < Ten[n],
         \A p \in Nat : p < n => Digit(v, p) = Digit(u, p)
  PROVE  v = u
  <1> DEFINE Same(i) == \A v1 \in Nat, u1 \in Nat :
                          /\ v1 < Ten[i] /\ u1 < Ten[i]
                          /\ \A p \in Nat : p < i => Digit(v1, p) = Digit(u1, p)
                          => v1 = u1
         T == {i \in Nat : Same(i)}
  <1>1. 0 \in T
    BY Tens
  <1>2. ASSUME NEW i \in Nat, i \in T PROVE i + 1 \in T
    <2> SUFFICES ASSUME NEW v1 \in Nat, NEW u1 \in Nat, v1 < Ten[i + 1], u1 < Ten[i + 1],
                        \A p \in Nat : p < i + 1 => Digit(v1, p) = Digit(u1, p)
                 PROVE  v1 = u1
      OBVIOUS
    <2>1. PICK v2 \in Nat, u2 \in Nat :
            /\ v2 = v1 \div 10 /\ v1 = v2 * 10 + (v1 % 10) /\ v1 % 10 \in Nat
            /\ u2 = u1 \div 10 /\ u1 = u2 * 10 + (u1 % 10) /\ u1 % 10 \in Nat
      OBVIOUS
    <2>2. Ten[i + 1] = 10 * Ten[i] /\ Ten[i] \in Nat
      BY Tens
    <2>3. v2 < Ten[i] /\ u2 < Ten[i]
      BY <2>1, <2>2
    <2>4. ASSUME NEW p \in Nat, p < i PROVE Digit(v2, p) = Digit(u2, p)
      <3>1. p + 1 \in Nat /\ p + 1 < i + 1
        BY <2>4
      <3>2. Digit(v1, p + 1) = Digit(u1, p + 1)
        BY <3>1
      <3>3. Digit(v1, p + 1) = Digit(v2, p) /\ Digit(u1, p + 1) = Digit(u2, p)
        BY <2>1, DigitDown
      <3> QED
        BY <3>2, <3>3
    <2>5. v2 = u2
      BY <1>2, <2>3, <2>4
    <2>6. v1 % 10 = u1 % 10
      <3>1. 0 \in Nat /\ 0 < i + 1
        OBVIOUS
      <3> QED
        BY <3>1, DigitDown
    <2> QED
      BY <2>1, <2>5, <2>6
  <1> HIDE DEF T
  <1>3. n \in T
    BY <1>1, <1>2, Induction
  <1> QED
    BY <1>3 DEF T

\* A number has only zeros above its digits.
LEMMA DigitsAbove ==
  ASSUME NEW n \in Nat, NEW v \in Nat, v < Ten[n], NEW p \in Nat, p >= n
  PROVE  Digit(v, p) = 0
  <1>1. PICK t \in Nat : t = Ten[p] /\ v < t
    BY Tens, TenGrows
  <1>2. v = 0 * t + v
    OBVIOUS
  <1>3. v \div t = 0
    BY <1>1, <1>2, QuotientIs
  <1> QED
    BY <1>1, <1>3 DEF Digit

ArePartial(f, s) == f = [k \in 0 .. Len(s) |-> IF k = 0 THEN 0 ELSE 10 * f[k - 1] + s[k]]

\* Number, digit by digit.
LEMMA NumberUnfold ==
  ASSUME NEW s, NEW e, ArePartial(e, s)
  PROVE  \E f : ArePartial(f, s) /\ Number(s) = f[Len(s)]
  <1> DEFINE f == CHOOSE f : ArePartial(f, s)
  <1>1. ArePartial(f, s)
    OBVIOUS
  <1>2. Number(s) = f[Len(s)]
    BY DEF Number, ArePartial
  <1> QED
    BY <1>1, <1>2

LEMMA NumberIs ==
  ASSUME NEW s \in Seq(Nat)
  PROVE  \E f : /\ f[0] = 0 /\ \A k \in 1 .. Len(s) : f[k] = 10 * f[k - 1] + s[k]
                /\ Number(s) = f[Len(s)]
  <1>1. PICK n \in Nat : n = Len(s) /\ DOMAIN s = 1 .. n
    BY LenProperties
  <1>2. PICK next : next = [k \in 1 .. n |-> [u0 \in Nat |-> 10 * u0 + s[k]]]
    OBVIOUS
  <1>3. PICK e : UpTo(e, n, Nat, 0, next)
    <2>1. ASSUME NEW k \in 1 .. n PROVE next[k] \in [Nat -> Nat]
      <3>1. PICK d \in Nat : d = s[k]
        BY <1>1, ElementOfSeq
      <3>2. next[k] = [u0 \in Nat |-> 10 * u0 + d]
        BY <1>2, <3>1
      <3>3. \A u0 \in Nat : 10 * u0 + d \in Nat
        OBVIOUS
      <3> QED
        BY <3>2, <3>3
    <2> QED
      BY <2>1, Defined
  <1>4. e \in [0 .. n -> Nat] /\ e[0] = 0 /\ \A k \in 1 .. n : e[k] = next[k][e[k - 1]]
    BY <1>3 DEF UpTo
  <1>5. ASSUME NEW k \in 1 .. n PROVE e[k] = 10 * e[k - 1] + s[k]
    <2>1. k - 1 \in 0 .. n
      OBVIOUS
    <2>2. e[k - 1] \in Nat
      BY <1>4, <2>1
    <2> QED
      BY <1>2, <1>4, <2>2
  <1>6. e = [k \in 0 .. n |-> IF k = 0 THEN 0 ELSE 10 * e[k - 1] + s[k]]
    <2>1. \A k \in 0 .. n : k # 0 => k \in 1 .. n
      OBVIOUS
    <2>2. e = [k \in 0 .. n |-> e[k]]
      BY <1>4
    <2> QED
      BY <1>4, <1>5, <2>1, <2>2
  <1>7. ArePartial(e, s)
    BY <1>1, <1>6 DEF ArePartial
  <1>8. PICK f : ArePartial(f, s) /\ Number(s) = f[n]
    BY <1>1, <1>7, NumberUnfold
  <1>9. f = [k \in 0 .. n |-> IF k = 0 THEN 0 ELSE 10 * f[k - 1] + s[k]]
    BY <1>1, <1>8 DEF ArePartial
  <1>10. 0 \in 0 .. n /\ \A k \in 1 .. n : k \in 0 .. n /\ k # 0
    OBVIOUS
  <1>11. f[0] = 0 /\ \A k \in 1 .. n : f[k] = 10 * f[k - 1] + s[k]
    BY <1>9, <1>10
  <1> QED
    BY <1>1, <1>8, <1>11

Decimals == Seq(0 .. 9)

\* A decimal string makes the number of its digits.
LEMMA NumberDigits ==
  ASSUME NEW s \in Decimals
  PROVE  /\ Number(s) \in Nat /\ Number(s) < Ten[Len(s)]
         /\ \A p \in Nat : p < Len(s) => Digit(Number(s), p) = s[Len(s) - p]
  <1>1. PICK n \in Nat : n = Len(s) /\ DOMAIN s = 1 .. n
    BY LenProperties DEF Decimals
  <1>2. \A k \in 1 .. n : s[k] \in 0 .. 9
    BY <1>1, ElementOfSeq DEF Decimals
  <1>3. s \in Seq(Nat)
    <2>1. s \in [1 .. n -> Nat]
      BY <1>1, <1>2, LenProperties DEF Decimals
    <2> QED
      BY <2>1
  <1>4. PICK f : /\ f[0] = 0 /\ \A k \in 1 .. n : f[k] = 10 * f[k - 1] + s[k]
                 /\ Number(s) = f[n]
    BY <1>1, <1>3, NumberIs
  <1> DEFINE Right(k) == /\ f[k] \in Nat /\ f[k] < Ten[k]
                         /\ \A p \in Nat : p < k => Digit(f[k], p) = s[k - p]
             T == {k \in Nat : k <= n => Right(k)}
  <1>5. 0 \in T
    BY <1>4, Tens
  <1>6. ASSUME NEW k \in Nat, k \in T PROVE k + 1 \in T
    <2> SUFFICES ASSUME k + 1 <= n PROVE Right(k + 1)
      OBVIOUS
    <2>1. k <= n /\ k + 1 \in 1 .. n /\ (k + 1) - 1 = k
      OBVIOUS
    <2>2. PICK w \in Nat : /\ w = f[k] /\ w < Ten[k]
                           /\ \A p \in Nat : p < k => Digit(w, p) = s[k - p]
      BY <1>6, <2>1
    <2>3. PICK d \in 0 .. 9 : d = s[k + 1]
      BY <1>2, <2>1
    <2>4. PICK v \in Nat : v = 10 * w + d /\ v = f[k + 1]
      BY <1>4, <2>1, <2>2, <2>3
    <2>5. v < Ten[k + 1]
      BY <2>2, <2>4, Tens
    <2>6. v \div 10 = w /\ v % 10 = d
      BY <2>4
    <2>7. ASSUME NEW p \in Nat, p < k + 1 PROVE Digit(v, p) = s[(k + 1) - p]
      <3>1. CASE p = 0
        BY <2>3, <2>6, <3>1, DigitDown
      <3>2. CASE p # 0
        <4>1. PICK q \in Nat : p = q + 1 /\ q < k /\ (k + 1) - p = k - q
          <5>1. p - 1 \in Nat /\ p = (p - 1) + 1 /\ p - 1 < k /\ (k + 1) - p = k - (p - 1)
            BY <2>7, <3>2
          <5> QED
            BY <5>1
        <4>2. Digit(v, q + 1) = Digit(w, q)
          BY <2>6, <4>1, DigitDown
        <4> QED
          BY <2>2, <4>1, <4>2
      <3> QED
        BY <3>1, <3>2
    <2> QED
      BY <2>4, <2>5, <2>7
  <1> HIDE DEF T
  <1>7. n \in T
    BY <1>5, <1>6, Induction
  <1>8. Right(n)
    BY <1>7 DEF T
  <1> QED
    BY <1>1, <1>4, <1>8
-----------------------------------------------------------------------------
(* Strings and limbs, by the places of their digits *)

\* The element of s with p others to its right.
Place(s, p) == IF p < Len(s) THEN s[Len(s) - p] ELSE 0

\* The decimal digit of a with p others to its right.
LimbPlace(a, p) == Digit(At(a, 1 + (p \div LimbDigits)), p % LimbDigits)

LEMMA ZeroDigits ==
  \A p \in Nat : Digit(0, p) = 0
  <1> SUFFICES ASSUME NEW p \in Nat PROVE Digit(0, p) = 0
    OBVIOUS
  <1>1. 0 < Ten[0] /\ p >= 0
    BY Tens
  <1> QED
    BY <1>1, DigitsAbove

LEMMA PlaceIn ==
  ASSUME NEW s \in Decimals
  PROVE  \A p \in Nat : Place(s, p) \in 0 .. 9
  <1>1. PICK n \in Nat : n = Len(s)
    BY LenProperties DEF Decimals
  <1>2. ASSUME NEW p \in Nat PROVE Place(s, p) \in 0 .. 9
    <2>1. CASE p < n
      <3>1. n - p \in 1 .. n
        BY <2>1
      <3>2. s[n - p] \in 0 .. 9
        BY <1>1, <3>1, ElementOfSeq DEF Decimals
      <3> QED
        BY <1>1, <2>1, <3>2 DEF Place
    <2>2. CASE ~(p < n)
      BY <1>1, <2>2 DEF Place
    <2> QED
      BY <2>1, <2>2
  <1> QED
    BY <1>2

\* The digits of the number a string makes, all of them.
LEMMA NumberPlaces ==
  ASSUME NEW s \in Decimals
  PROVE  /\ Number(s) \in Nat /\ Number(s) < Ten[Len(s)]
         /\ \A p \in Nat : Digit(Number(s), p) = Place(s, p)
  <1>1. PICK n \in Nat : n = Len(s)
    BY LenProperties DEF Decimals
  <1>2. PICK v \in Nat : /\ v = Number(s) /\ v < Ten[n]
                         /\ \A p \in Nat : p < n => Digit(v, p) = s[n - p]
    BY <1>1, NumberDigits
  <1>3. ASSUME NEW p \in Nat PROVE Digit(v, p) = Place(s, p)
    <2>1. CASE p < n
      BY <1>1, <1>2, <2>1 DEF Place
    <2>2. CASE ~(p < n)
      <3>1. p >= n
        BY <2>2
      <3> QED
        BY <1>1, <1>2, <2>2, <3>1, DigitsAbove DEF Place
    <2> QED
      BY <2>1, <2>2
  <1> QED
    BY <1>1, <1>2, <1>3

\* The places of a part of a string.
LEMMA SubPlaces ==
  ASSUME NEW t \in Decimals, NEW lo \in Nat, NEW hi \in Nat,
         1 <= lo, lo <= hi, hi <= Len(t)
  PROVE  /\ SubSeq(t, lo, hi) \in Decimals /\ Len(SubSeq(t, lo, hi)) = (hi - lo) + 1
         /\ \A q \in Nat : Place(SubSeq(t, lo, hi), q) =
                             IF q <= hi - lo THEN Place(t, (Len(t) - hi) + q) ELSE 0
  <1>1. PICK n \in Nat : n = Len(t) /\ \A i \in 1 .. n : t[i] \in 0 .. 9
    BY LenProperties, ElementOfSeq DEF Decimals
  <1>2. \A i \in lo .. hi : t[i] \in 0 .. 9
    BY <1>1
  <1>3. PICK sub : sub = SubSeq(t, lo, hi)
    OBVIOUS
  <1>4. /\ sub \in Decimals /\ Len(sub) = (hi - lo) + 1
        /\ \A i \in 1 .. (hi - lo) + 1 : sub[i] = t[(lo + i) - 1]
    <2>1. /\ SubSeq(t, lo, hi) \in Seq(0 .. 9)
          /\ Len(SubSeq(t, lo, hi)) = IF lo <= hi THEN hi-lo+1 ELSE 0
          /\ \A i \in 1 .. hi-lo+1 : SubSeq(t, lo, hi)[i] = t[lo+i-1]
      BY <1>2, SubSeqProperties
    <2> QED
      BY <1>3, <2>1 DEF Decimals
  <1>5. ASSUME NEW q \in Nat
        PROVE  Place(sub, q) = IF q <= hi - lo THEN Place(t, (n - hi) + q) ELSE 0
    <2>1. CASE q <= hi - lo
      <3>1. PICK i \in 1 .. (hi - lo) + 1 : i = ((hi - lo) + 1) - q
        BY <2>1
      <3>2. (lo + i) - 1 = hi - q /\ q < (hi - lo) + 1
        BY <2>1, <3>1
      <3>3. Place(sub, q) = t[hi - q]
        BY <1>4, <3>1, <3>2 DEF Place
      <3>4. (n - hi) + q < n /\ n - ((n - hi) + q) = hi - q
        BY <1>1, <2>1
      <3>5. Place(t, (n - hi) + q) = t[hi - q]
        BY <1>1, <3>4 DEF Place
      <3> QED
        BY <2>1, <3>3, <3>5
    <2>2. CASE ~(q <= hi - lo)
      <3>1. ~(q < (hi - lo) + 1)
        BY <2>2
      <3> QED
        BY <1>4, <2>2, <3>1 DEF Place
    <2> QED
      BY <2>1, <2>2
  <1> QED
    BY <1>1, <1>3, <1>4, <1>5

\* Sequences of one length that have the same at every place are the same.
LEMMA SamePlaces ==
  ASSUME NEW S, NEW s \in Seq(S), NEW t \in Seq(S), Len(s) = Len(t),
         \A p \in Nat : p < Len(s) => Place(s, p) = Place(t, p)
  PROVE  s = t
  <1>1. PICK n \in Nat : n = Len(s) /\ n = Len(t)
    BY LenProperties
  <1>2. ASSUME NEW i \in 1 .. n PROVE s[i] = t[i]
    <2>1. PICK p \in Nat : p = n - i /\ p < n /\ n - p = i
      <3>1. n - i \in Nat /\ n - i < n /\ n - (n - i) = i
        OBVIOUS
      <3> QED
        BY <3>1
    <2>2. Place(s, p) = s[i] /\ Place(t, p) = t[i]
      BY <1>1, <2>1 DEF Place
    <2>3. Place(s, p) = Place(t, p)
      BY <1>1, <2>1
    <2> QED
      BY <2>2, <2>3
  <1> QED
    BY <1>1, <1>2, SeqEqual

LEMMA LimbSize ==
  ASSUME TextAssumption
  PROVE  /\ LimbDigits \in Nat /\ LimbDigits > 0
         /\ BASE = Ten[LimbDigits] /\ \A v : v \in Limb <=> v \in Nat /\ v < Ten[LimbDigits]
  <1>1. BASE \in Nat /\ BASE = Ten[LimbDigits]
    BY Base DEF TextAssumption
  <1>2. \A v : v \in 0 .. BASE - 1 <=> v \in Nat /\ v < BASE
    BY <1>1
  <1> QED
    BY <1>1, <1>2 DEF TextAssumption, Limb

\* Place p of a number is place p % LimbDigits of a limb.
LEMMA PlaceParts ==
  ASSUME TextAssumption, NEW p \in Nat
  PROVE  \E j \in Nat, q \in Nat, m \in Nat :
            /\ j = p \div LimbDigits /\ q = p % LimbDigits /\ q < LimbDigits
            /\ m = j * LimbDigits /\ p = m + q
  <1>1. PICK l \in Nat : l = LimbDigits /\ l > 0
    BY LimbSize
  <1>2. p \div l \in Nat /\ p % l \in Nat /\ p % l < l /\ p = (p \div l) * l + (p % l)
    BY <1>1, Division
  <1>3. (p \div l) * l \in Nat
    BY <1>2
  <1> QED
    BY <1>1, <1>2, <1>3

CutFrom(s, k) == IF k * LimbDigits > Len(s) THEN 1 ELSE Len(s) - k * LimbDigits + 1
CutTo(s, k) == Len(s) - (k - 1) * LimbDigits

\* The digits of a limb that FromString cuts off.
LEMMA CutRight ==
  ASSUME TextAssumption, NEW s \in Decimals, NEW k \in Nat, k >= 1,
         (k - 1) * LimbDigits < Len(s)
  PROVE  LET v == Number(SubSeq(s, CutFrom(s, k), CutTo(s, k)))
         IN v \in Limb /\ \A q \in Nat : q < LimbDigits =>
                             Digit(v, q) = Place(s, (k - 1) * LimbDigits + q)
  <1>1. PICK l \in Nat : /\ l = LimbDigits /\ l > 0
                         /\ \A v : v \in Limb <=> v \in Nat /\ v < Ten[l]
    BY LimbSize
  <1>2. PICK n \in Nat : n = Len(s)
    BY LenProperties DEF Decimals
  <1>3. PICK m \in Nat : m = (k - 1) * LimbDigits /\ k * LimbDigits = m + l /\ m < n
    <2>1. (k - 1) * l \in Nat /\ k * l = (k - 1) * l + l
      BY <1>1
    <2> QED
      BY <1>1, <1>2, <2>1
  <1>4. PICK lo \in Nat : lo = CutFrom(s, k) /\ lo = IF m + l > n THEN 1 ELSE (n - (m + l)) + 1
    <2>1. CutFrom(s, k) = IF m + l > n THEN 1 ELSE n - (m + l) + 1
      BY <1>2, <1>3 DEF CutFrom
    <2>2. (IF m + l > n THEN 1 ELSE n - (m + l) + 1) \in Nat
      BY <1>2
    <2> QED
      BY <2>1, <2>2
  <1>5. PICK hi \in Nat : hi = CutTo(s, k) /\ hi = n - m
    BY <1>2, <1>3 DEF CutTo
  <1>6. 1 <= lo /\ lo <= hi /\ hi <= n /\ n - hi = m
    BY <1>1, <1>3, <1>4, <1>5
  <1>7. PICK sub : /\ sub = SubSeq(s, lo, hi) /\ sub \in Decimals /\ Len(sub) = (hi - lo) + 1
                   /\ \A q \in Nat : Place(sub, q) = IF q <= hi - lo THEN Place(s, m + q) ELSE 0
    <2>1. PICK sub : sub = SubSeq(s, lo, hi)
      OBVIOUS
    <2>2. /\ sub \in Decimals /\ Len(sub) = (hi - lo) + 1
          /\ \A q \in Nat : Place(sub, q) = IF q <= hi - lo THEN Place(s, (Len(s) - hi) + q) ELSE 0
      <3>1. hi <= Len(s)
        BY <1>2, <1>6
      <3> QED
        BY <1>6, <2>1, <3>1, SubPlaces
    <2> QED
      BY <1>2, <1>6, <2>1, <2>2
  <1>8. PICK v \in Nat : /\ v = Number(sub) /\ v < Ten[Len(sub)]
                         /\ \A q \in Nat : Digit(v, q) = Place(sub, q)
    BY <1>7, NumberPlaces
  <1>9. v < Ten[l]
    <2>1. PICK i \in Nat : i = Len(sub) /\ i <= l
      <3>1. (hi - lo) + 1 \in Nat /\ (hi - lo) + 1 <= l
        BY <1>1, <1>3, <1>4, <1>5, <1>6
      <3> QED
        BY <1>7, <3>1
    <2>2. Ten[i] <= Ten[l]
      BY <1>1, <2>1, TenGrows
    <2>3. Ten[i] \in Nat /\ Ten[l] \in Nat /\ v < Ten[i]
      BY <1>1, <1>8, <2>1, Tens
    <2> QED
      BY <2>2, <2>3
  <1>10. ASSUME NEW q \in Nat, q < l PROVE Digit(v, q) = Place(s, m + q)
    <2>1. CASE q <= hi - lo
      BY <1>7, <1>8, <2>1
    <2>2. CASE ~(q <= hi - lo)
      <3>1. ~(m + q < n)
        BY <1>4, <1>5, <1>10, <2>2
      <3>2. Place(s, m + q) = 0
        BY <1>2, <3>1 DEF Place
      <3> QED
        BY <1>7, <1>8, <2>2, <3>2
    <2> QED
      BY <2>1, <2>2
  <1> QED
    BY <1>1, <1>3, <1>4, <1>5, <1>7, <1>8, <1>9, <1>10

\* The constructor makes a number of the string's digits.
LEMMA FromStringIs ==
  ASSUME TextAssumption, NEW s \in Decimals
  PROVE  /\ FromString(s) \in Seq(Limb)
         /\ Len(FromString(s)) = (Len(s) + LimbDigits - 1) \div LimbDigits
         /\ \A p \in Nat : LimbPlace(FromString(s), p) = Place(s, p)
         /\ FromString(s) = <<>> <=> s = <<>>
  <1>1. PICK l \in Nat : /\ l = LimbDigits /\ l > 0
                         /\ \A v : v \in Limb <=> v \in Nat /\ v < Ten[l]
    BY LimbSize
  <1>2. PICK n \in Nat : n = Len(s)
    BY LenProperties DEF Decimals
  <1>3. PICK c \in Nat, r \in Nat : /\ c = (n + l - 1) \div l /\ r < l
                                    /\ (n + l) - 1 = c * l + r
    <2>1. (n + l) - 1 \in Nat /\ n + l - 1 = (n + l) - 1
      BY <1>1
    <2>2. ((n + l) - 1) \div l \in Nat /\ ((n + l) - 1) % l \in Nat /\ ((n + l) - 1) % l < l
          /\ (n + l) - 1 = (((n + l) - 1) \div l) * l + (((n + l) - 1) % l)
      BY <1>1, <2>1, Division
    <2> QED
      BY <2>1, <2>2
  <1> DEFINE limb(k) == Number(SubSeq(s, CutFrom(s, k), CutTo(s, k)))
  <1>4. PICK a : a = FromString(s) /\ a = [k \in 1 .. c |-> limb(k)]
    BY <1>1, <1>2, <1>3 DEF FromString, CutFrom, CutTo
  <1>5. ASSUME NEW k \in 1 .. c PROVE k \in Nat /\ k >= 1 /\ (k - 1) * l < n
    <2>1. PICK j \in Nat : k = j + 1 /\ j = k - 1
      <3>1. k - 1 \in Nat
        OBVIOUS
      <3> QED
        BY <3>1
    <2>2. PICK i \in Nat : c = (j + 1) + i
      <3>1. c - (j + 1) \in Nat
        BY <2>1
      <3> QED
        BY <3>1
    <2>3. c * l = ((j * l) + l) + (i * l) /\ j * l \in Nat /\ i * l \in Nat
      BY <2>2
    <2>4. j * l < n
      BY <1>3, <2>3
    <2> QED
      BY <2>1, <2>4
  <1>6. ASSUME NEW k \in 1 .. c
        PROVE  /\ limb(k) \in Limb
               /\ \A q \in Nat : q < l => Digit(limb(k), q) = Place(s, (k - 1) * l + q)
    <2>1. k \in Nat /\ k >= 1 /\ (k - 1) * LimbDigits < Len(s)
      BY <1>1, <1>2, <1>5
    <2> QED
      BY <1>1, <2>1, CutRight
  <1> HIDE DEF limb
  <1>7. a \in Seq(Limb) /\ Len(a) = c /\ DOMAIN a = 1 .. c
    <2>1. a \in [1 .. c -> Limb]
      BY <1>4, <1>6
    <2> QED
      BY <2>1
  <1>8. ASSUME NEW p \in Nat PROVE LimbPlace(a, p) = Place(s, p)
    <2>1. PICK j \in Nat, q \in Nat, m \in Nat :
            /\ j = p \div LimbDigits /\ q = p % LimbDigits /\ q < LimbDigits
            /\ m = j * LimbDigits /\ p = m + q
      BY PlaceParts
    <2>2. CASE j < c
      <3>1. PICK k \in 1 .. c : k = 1 + j /\ k - 1 = j
        BY <2>2
      <3>2. At(a, k) = limb(k)
        BY <1>4, <1>7 DEF At
      <3>3. LimbPlace(a, p) = Digit(limb(k), q)
        BY <2>1, <3>1, <3>2 DEF LimbPlace
      <3>4. Digit(limb(k), q) = Place(s, m + q)
        BY <1>1, <1>6, <2>1, <3>1
      <3> QED
        BY <2>1, <3>3, <3>4
    <2>3. CASE ~(j < c)
      <3>1. ~(1 + j \in 1 .. c)
        BY <2>3
      <3>2. LimbPlace(a, p) = 0
        <4>1. At(a, 1 + j) = 0
          BY <1>7, <3>1 DEF At
        <4> QED
          BY <2>1, <4>1, ZeroDigits DEF LimbPlace
      <3>3. PICK i \in Nat : j = c + i
        <4>1. j - c \in Nat
          BY <2>3
        <4> QED
          BY <4>1
      <3>4. m = c * l + i * l /\ i * l \in Nat /\ c * l \in Nat
        BY <1>1, <2>1, <3>3
      <3>5. ~(p < n)
        BY <1>1, <1>3, <2>1, <3>4
      <3> QED
        BY <1>2, <3>2, <3>5 DEF Place
    <2> QED
      BY <2>2, <2>3
  <1>9. a = <<>> <=> s = <<>>
    <2>1. a = <<>> <=> c = 0
      BY <1>7, EmptySeq
    <2>2. s = <<>> <=> n = 0
      BY <1>2, EmptySeq DEF Decimals
    <2>3. c = 0 <=> n = 0
      <3>1. CASE c = 0
        <4>1. c * l = 0
          BY <3>1
        <4> QED
          BY <1>3, <3>1, <4>1
      <3>2. CASE n = 0
        <4>1. c * l < l
          BY <1>1, <1>3, <3>2
        <4>2. c = 0
          <5>1. ASSUME c # 0 PROVE FALSE
            <6>1. PICK i \in Nat : c = i + 1
              <7>1. c - 1 \in Nat
                BY <5>1
              <7> QED
                BY <7>1
            <6>2. c * l = i * l + l /\ i * l \in Nat
              BY <6>1
            <6> QED
              BY <4>1, <6>2
          <5> QED
            BY <5>1
        <4> QED
          BY <3>2, <4>2
      <3> QED
        BY <3>1, <3>2
    <2> QED
      BY <2>1, <2>2, <2>3
  <1> QED
    BY <1>1, <1>2, <1>3, <1>4, <1>7, <1>8, <1>9

\* As many digits as the highest limb needs, one for zero.
LEMMA LengthIs ==
  ASSUME TextAssumption, NEW v \in Limb
  PROVE  Length(v) \in 1 .. LimbDigits /\ v < Ten[Length(v)]
  <1>1. PICK l \in Nat : l = LimbDigits /\ l > 0 /\ v \in Nat /\ v < Ten[l]
    BY LimbSize
  <1> DEFINE T == {n \in 1 .. l : v < Ten[n]}
  <1>2. T \subseteq Nat /\ l \in T
    BY <1>1
  <1>3. PICK n \in T : \A w \in T : n <= w
    BY <1>2, SmallestOf
  <1>4. n = 1 \/ v >= Ten[n - 1]
    <2>1. CASE n # 1
      <3>1. n - 1 \in 1 .. l /\ ~(n <= n - 1)
        BY <1>1, <1>3, <2>1
      <3>2. ~(v < Ten[n - 1])
        BY <1>3, <3>1
      <3>3. Ten[n - 1] \in Nat
        BY <3>1, Tens
      <3> QED
        BY <1>1, <3>2, <3>3
    <2> QED
      BY <2>1
  <1>5. n \in 1 .. l /\ v < Ten[n] /\ (n = 1 \/ v >= Ten[n - 1])
    BY <1>3, <1>4
  <1> HIDE DEF T
  <1>6. \E i \in 1 .. LimbDigits : v < Ten[i] /\ (i = 1 \/ v >= Ten[i - 1])
    BY <1>1, <1>5
  <1> QED
    BY <1>6 DEF Length

\* to_string and the operator<< write a number with limbs by its digits.
LEMMA ToStringIs ==
  ASSUME TextAssumption, NEW a \in Seq(Limb), a # <<>>
  PROVE  /\ to_string(a) \in Decimals
         /\ \E m \in Nat, d \in 1 .. LimbDigits :
              m = (Len(a) - 1) * LimbDigits /\ Len(to_string(a)) = m + d
         /\ \A p \in Nat : Place(to_string(a), p) = LimbPlace(a, p)
  <1>1. PICK l \in Nat : /\ l = LimbDigits /\ l > 0
                         /\ \A v : v \in Limb <=> v \in Nat /\ v < Ten[l]
    BY LimbSize
  <1>2. PICK c \in Nat : c = Len(a) /\ c > 0 /\ DOMAIN a = 1 .. c
    BY EmptySeq, LenProperties
  <1>3. \A k \in 1 .. c : a[k] \in Limb /\ a[k] \in Nat /\ a[k] < Ten[l]
    BY <1>1, <1>2, ElementOfSeq
  <1>4. c \in 1 .. c
    BY <1>2
  <1>5. PICK d \in 1 .. l : d = Length(a[c]) /\ a[c] < Ten[d]
    BY <1>1, <1>3, <1>4, LengthIs
  <1>6. PICK m \in Nat : m = (c - 1) * l
    BY <1>2
  <1>7. l * (c - 1) = m
    BY <1>2, <1>6
  <1>8. PICK size \in Nat : size = m + d
    OBVIOUS
  <1>9. PICK t : t = to_string(a) /\ t = [k \in 1 .. size |-> LimbDigit(a, size - k)]
    <2>1. LimbDigits * (Len(a) - 1) + Length(a[Len(a)]) = size
      BY <1>1, <1>2, <1>5, <1>7, <1>8
    <2> QED
      BY <2>1 DEF to_string
  <1>10. ASSUME NEW p \in Nat, p < size PROVE LimbDigit(a, p) = LimbPlace(a, p) /\ LimbDigit(a, p) \in 0 .. 9
    <2>1. PICK j \in Nat, q \in Nat, i \in Nat :
            /\ j = p \div LimbDigits /\ q = p % LimbDigits /\ q < LimbDigits
            /\ i = j * LimbDigits /\ p = i + q
      BY PlaceParts
    <2>2. j < c
      <3>1. ASSUME ~(j < c) PROVE FALSE
        <4>1. PICK h \in Nat : j = c + h
          <5>1. j - c \in Nat
            BY <3>1
          <5> QED
            BY <5>1
        <4>2. PICK g \in Nat : i = (m + l) + g
          <5>1. h * l \in Nat /\ i = (m + l) + h * l
            BY <1>1, <1>6, <2>1, <4>1
          <5> QED
            BY <5>1
        <4>3. d \in Nat /\ d <= l
          BY <1>1, <1>5
        <4>4. p < m + d /\ p = ((m + l) + g) + q
          BY <1>8, <1>10, <2>1, <4>2
        <4> QED
          BY <1>1, <4>3, <4>4
      <3> QED
        BY <3>1
    <2>3. PICK k \in 1 .. c : k = 1 + j
      BY <2>2
    <2>4. At(a, k) = a[k] /\ a[k] \in Nat
      BY <1>2, <1>3 DEF At
    <2>5. LimbDigit(a, p) = Digit(a[k], q) /\ LimbPlace(a, p) = Digit(a[k], q)
      BY <2>1, <2>3, <2>4 DEF LimbDigit, LimbPlace
    <2> QED
      BY <2>4, <2>5, DigitDown
  <1>11. ASSUME NEW p \in Nat, p >= size PROVE LimbPlace(a, p) = 0
    <2>1. PICK j \in Nat, q \in Nat, i \in Nat :
            /\ j = p \div LimbDigits /\ q = p % LimbDigits /\ q < LimbDigits
            /\ i = j * LimbDigits /\ p = i + q
      BY PlaceParts
    <2>2. CASE j < c
      <3>1. j = c - 1
        <4>1. ASSUME j # c - 1 PROVE FALSE
          <5>1. PICK h \in Nat : c - 1 = (j + 1) + h
            <6>1. c - 1 - (j + 1) \in Nat
              BY <2>2, <4>1
            <6> QED
              BY <6>1
          <5>2. PICK g \in Nat : m = (i + l) + g
            <6>1. h * l \in Nat /\ m = (i + l) + h * l
              BY <1>1, <1>6, <2>1, <5>1
            <6> QED
              BY <6>1
          <5>3. p >= ((i + l) + g) + d /\ p = i + q /\ q < l /\ d \in Nat
            BY <1>1, <1>8, <1>11, <2>1, <5>2
          <5> QED
            BY <1>1, <5>3
        <4> QED
          BY <4>1
      <3>2. 1 + j = c /\ i = m
        BY <1>1, <1>6, <2>1, <3>1
      <3>3. q >= d
        BY <1>8, <1>11, <2>1, <3>2
      <3>4. a[c] \in Nat
        BY <1>3, <1>4
      <3>5. Digit(a[c], q) = 0
        BY <1>5, <3>3, <3>4, DigitsAbove
      <3>6. At(a, 1 + j) = a[c]
        BY <1>2, <1>4, <3>2 DEF At
      <3> QED
        BY <2>1, <3>5, <3>6 DEF LimbPlace
    <2>3. CASE ~(j < c)
      <3>1. ~(1 + j \in 1 .. c)
        BY <2>3
      <3>2. At(a, 1 + j) = 0
        BY <1>2, <3>1 DEF At
      <3> QED
        BY <2>1, <3>2, ZeroDigits DEF LimbPlace
    <2> QED
      BY <2>2, <2>3
  <1>12. t \in Decimals /\ Len(t) = size
    <2>1. \A k \in 1 .. size : size - k \in Nat /\ size - k < size
      BY <1>8
    <2>2. t \in [1 .. size -> 0 .. 9]
      BY <1>9, <1>10, <2>1
    <2> QED
      BY <2>2 DEF Decimals
  <1>13. ASSUME NEW p \in Nat PROVE Place(t, p) = LimbPlace(a, p)
    <2>1. CASE p < size
      <3>1. size - p \in 1 .. size /\ size - (size - p) = p
        BY <2>1
      <3> QED
        BY <1>9, <1>10, <1>12, <2>1, <3>1 DEF Place
    <2>2. CASE ~(p < size)
      <3>1. p >= size
        BY <2>2
      <3> QED
        BY <1>11, <1>12, <2>2, <3>1 DEF Place
    <2> QED
      BY <2>1, <2>2
  <1> QED
    BY <1>1, <1>2, <1>5, <1>6, <1>8, <1>9, <1>12, <1>13

\* The limbs follow from the digits.
LEMMA LimbsFromPlaces ==
  ASSUME TextAssumption, NEW a \in Seq(Limb), NEW b \in Seq(Limb), Len(a) = Len(b),
         \A p \in Nat : LimbPlace(a, p) = LimbPlace(b, p)
  PROVE  a = b
  <1>1. PICK l \in Nat : /\ l = LimbDigits /\ l > 0
                         /\ \A v : v \in Limb <=> v \in Nat /\ v < Ten[l]
    BY LimbSize
  <1>2. PICK c \in Nat : c = Len(a) /\ c = Len(b) /\ DOMAIN a = 1 .. c /\ DOMAIN b = 1 .. c
    BY LenProperties
  <1>3. ASSUME NEW k \in 1 .. c PROVE a[k] = b[k]
    <2>1. PICK v \in Nat, u \in Nat : v = a[k] /\ u = b[k] /\ v < Ten[l] /\ u < Ten[l]
      <3>1. a[k] \in Limb /\ b[k] \in Limb
        BY <1>2, ElementOfSeq
      <3> QED
        BY <1>1, <3>1
    <2>2. ASSUME NEW q \in Nat, q < l PROVE Digit(v, q) = Digit(u, q)
      <3>1. PICK p \in Nat : p = (k - 1) * l + q
        <4>1. k - 1 \in Nat
          OBVIOUS
        <4>2. (k - 1) * l \in Nat
          BY <4>1
        <4> QED
          BY <4>2
      <3>2. p \div l = k - 1 /\ p % l = q
        <4>1. k - 1 \in Nat
          OBVIOUS
        <4> QED
          BY <1>1, <2>2, <3>1, <4>1, QuotientIs
      <3>3. 1 + (p \div l) = k
        BY <3>2
      <3>4. At(a, k) = v /\ At(b, k) = u
        BY <1>2, <2>1 DEF At
      <3>5. LimbPlace(a, p) = Digit(v, q) /\ LimbPlace(b, p) = Digit(u, q)
        BY <1>1, <3>2, <3>3, <3>4 DEF LimbPlace
      <3> QED
        BY <3>5
    <2>3. v = u
      BY <1>1, <2>1, <2>2, SameDigits
    <2> QED
      BY <2>1, <2>3
  <1> QED
    BY <1>2, <1>3, SeqEqual

\* A number that is written and read again is the same, except that one without
\* limbs gets one.
LEMMA BackAgain ==
  ASSUME TextAssumption, NEW a \in Seq(Limb)
  PROVE  FromString(to_string(a)) = IF a = <<>> THEN BZero ELSE a
  <1>1. PICK l \in Nat : l = LimbDigits /\ l > 0
    BY LimbSize
  <1>2. CASE a # <<>>
    <2>1. PICK t : /\ t = to_string(a) /\ t \in Decimals
                   /\ \E m \in Nat, d \in 1 .. l : m = (Len(a) - 1) * l /\ Len(t) = m + d
                   /\ \A p \in Nat : Place(t, p) = LimbPlace(a, p)
      BY <1>1, <1>2, ToStringIs
    <2>2. PICK c \in Nat : c = Len(a) /\ c > 0
      BY <1>2, EmptySeq, LenProperties
    <2>3. PICK m \in Nat, d \in 1 .. l : m = (c - 1) * l /\ Len(t) = m + d
      BY <2>1, <2>2
    <2>4. PICK b : /\ b = FromString(t) /\ b \in Seq(Limb)
                   /\ Len(b) = (Len(t) + l - 1) \div l
                   /\ \A p \in Nat : LimbPlace(b, p) = Place(t, p)
      BY <1>1, <2>1, FromStringIs
    <2>5. (Len(t) + l - 1) \div l = c
      <3>1. Len(t) + l - 1 \in Nat /\ d - 1 \in Nat /\ d - 1 < l
        BY <1>1, <2>3
      <3>2. Len(t) + l - 1 = c * l + (d - 1)
        <4>1. c * l = m + l
          BY <2>2, <2>3
        <4> QED
          BY <2>3, <4>1
      <3> QED
        BY <1>1, <3>1, <3>2, QuotientIs
    <2>6. b = a
      BY <2>1, <2>2, <2>4, <2>5, LimbsFromPlaces
    <2> QED
      BY <1>2, <2>1, <2>4, <2>6
  <1>3. CASE a = <<>>
    <2>1. to_string(a) = <<0>>
      BY <1>3 DEF to_string
    <2>2. <<0>> \in Decimals /\ Len(<<0>>) = 1 /\ <<0>>[1] = 0
      BY DEF Decimals
    <2>3. PICK b : /\ b = FromString(<<0>>) /\ b \in Seq(Limb)
                   /\ Len(b) = (1 + l - 1) \div l
                   /\ \A p \in Nat : LimbPlace(b, p) = Place(<<0>>, p)
      BY <1>1, <2>2, FromStringIs
    <2>4. (1 + l - 1) \div l = 1
      <3>1. l = 1 * l + 0 /\ 1 + l - 1 = l
        BY <1>1
      <3> QED
        BY <1>1, <3>1, QuotientIs
    <2>5. Len(b) = Len(BZero) /\ BZero \in Seq(Limb)
      BY <2>3, <2>4, Zero
    <2>6. ASSUME NEW p \in Nat PROVE LimbPlace(b, p) = LimbPlace(BZero, p)
      <3>1. \A k : At(BZero, k) = 0
        BY DEF At, BZero
      <3>2. p % LimbDigits \in Nat
        BY <1>1, Division
      <3>3. LimbPlace(BZero, p) = 0
        BY <3>1, <3>2, ZeroDigits DEF LimbPlace
      <3>4. Place(<<0>>, p) = 0
        <4>1. CASE p = 0
          BY <2>2, <4>1 DEF Place
        <4>2. CASE p # 0
          BY <2>2, <4>2 DEF Place
        <4> QED
          BY <4>1, <4>2
      <3> QED
        BY <2>3, <3>3, <3>4
    <2>7. b = BZero
      BY <2>3, <2>5, <2>6, LimbsFromPlaces
    <2> QED
      BY <1>3, <2>1, <2>3, <2>7
  <1> QED
    BY <1>2, <1>3
-----------------------------------------------------------------------------
(* Texts *)

LEMMA IsSeq ==
  ASSUME NEW S, NEW n \in Nat, NEW s \in [1 .. n -> S]
  PROVE  s \in Seq(S) /\ Len(s) = n
  <1>1. s \in Seq(S)
    BY SeqDef
  <1> QED
    BY <1>1

Bytes == Seq(0 .. 255)

LEMMA Thousand == Ten[1] = 10 /\ Ten[3] = 1000
  <1>1. Ten[1] = 10 /\ Ten[2] = 100
    <2>1. Ten[0 + 1] = 10 * Ten[0] /\ Ten[1 + 1] = 10 * Ten[1]
      BY Tens
    <2> QED
      BY <2>1, Tens
  <1>2. Ten[2 + 1] = 10 * Ten[2]
    BY Tens
  <1> QED
    BY <1>1, <1>2

\* Each byte gets the digits of three places.
LEMMA NumericIs ==
  ASSUME NEW text \in Bytes
  PROVE  /\ to_numeric(text) \in Decimals /\ Len(to_numeric(text)) = 3 * Len(text)
         /\ \A p \in Nat : Place(to_numeric(text), p) = Digit(Place(text, p \div 3), p % 3)
  <1>1. PICK n \in Nat : n = Len(text) /\ \A i \in 1 .. n : text[i] \in Nat
    <2>1. PICK n \in Nat : n = Len(text)
      BY LenProperties DEF Bytes
    <2>2. \A i \in 1 .. n : text[i] \in 0 .. 255
      BY <2>1, ElementOfSeq DEF Bytes
    <2>3. \A i \in 1 .. n : text[i] \in Nat
      BY <2>2
    <2> QED
      BY <2>1, <2>3
  <1>2. PICK t : /\ t = to_numeric(text)
                 /\ t = [k \in 1 .. 3 * n |-> Digit(text[1 + ((k - 1) \div 3)], 2 - ((k - 1) % 3))]
    BY <1>1 DEF to_numeric
  <1>3. ASSUME NEW k \in 1 .. 3 * n
        PROVE  /\ 1 + ((k - 1) \div 3) \in 1 .. n /\ 2 - ((k - 1) % 3) \in Nat
               /\ t[k] \in 0 .. 9
    <2>1. 1 + ((k - 1) \div 3) \in 1 .. n /\ 2 - ((k - 1) % 3) \in Nat
      BY <1>1
    <2>2. Digit(text[1 + ((k - 1) \div 3)], 2 - ((k - 1) % 3)) \in 0 .. 9
      BY <1>1, <2>1, DigitDown
    <2> QED
      BY <1>2, <2>1, <2>2
  <1>4. t \in Decimals /\ Len(t) = 3 * n
    <2>1. t \in [1 .. 3 * n -> 0 .. 9] /\ 3 * n \in Nat
      BY <1>2, <1>3
    <2> QED
      BY <2>1 DEF Decimals
  <1>5. ASSUME NEW p \in Nat PROVE Place(t, p) = Digit(Place(text, p \div 3), p % 3)
    <2>1. PICK j \in Nat, q \in 0 .. 2 : j = p \div 3 /\ q = p % 3 /\ p = (3 * j) + q
      OBVIOUS
    <2>2. CASE p < 3 * n
      <3>1. PICK k \in 1 .. 3 * n : k = (3 * n) - p
        BY <2>2
      <3>2. k - 1 = (3 * ((n - j) - 1)) + (2 - q)
        BY <2>1, <3>1
      <3>3. 1 + ((k - 1) \div 3) = n - j /\ 2 - ((k - 1) % 3) = q
        BY <2>1, <3>2
      <3>4. j < n
        BY <2>1, <2>2
      <3>5. Place(t, p) = t[k] /\ Place(text, j) = text[n - j]
        BY <1>1, <1>4, <2>2, <3>1, <3>4 DEF Place
      <3> QED
        BY <1>2, <2>1, <3>3, <3>5
    <2>3. CASE ~(p < 3 * n)
      <3>1. ~(j < n)
        BY <2>1, <2>3
      <3>2. Place(t, p) = 0 /\ Place(text, j) = 0
        BY <1>1, <1>4, <2>3, <3>1 DEF Place
      <3> QED
        BY <2>1, <3>2, ZeroDigits
    <2> QED
      BY <2>2, <2>3
  <1> QED
    BY <1>1, <1>2, <1>4, <1>5

\* The zeros in front change no place.
LEMMA Base10Is ==
  ASSUME TextAssumption, NEW a \in Seq(Limb), a # <<>>
  PROVE  /\ changeToBase10(a) \in Decimals /\ Len(changeToBase10(a)) > LimbDigits * Len(a)
         /\ \A p \in Nat : Place(changeToBase10(a), p) = LimbPlace(a, p)
  <1>1. PICK s : /\ s = to_string(a) /\ s \in Decimals /\ Len(s) \in Nat /\ Len(s) > 0
                 /\ \A p \in Nat : Place(s, p) = LimbPlace(a, p)
    <2>1. PICK m \in Nat, d \in 1 .. LimbDigits : Len(to_string(a)) = m + d
      BY ToStringIs
    <2>2. Len(to_string(a)) > 0 /\ Len(to_string(a)) \in Nat
      BY <2>1, LimbSize
    <2> QED
      BY <2>2, ToStringIs
  <1>2. PICK n \in Nat, front \in Nat : n = Len(s) /\ front = LimbDigits * Len(a)
    <2>1. LimbDigits \in Nat /\ Len(a) \in Nat
      BY LimbSize, LenProperties
    <2> QED
      BY <1>1, <2>1
  <1>3. PICK zeros : zeros = [k \in 1 .. front |-> 0]
    OBVIOUS
  <1>4. zeros \in Decimals /\ Len(zeros) = front
    <2>1. zeros \in [1 .. front -> 0 .. 9]
      BY <1>3
    <2> QED
      BY <1>3, <2>1 DEF Decimals
  <1>5. PICK t : t = changeToBase10(a) /\ t = zeros \o s
    BY <1>1, <1>2, <1>3 DEF changeToBase10
  <1>6. /\ t \in Decimals /\ Len(t) = front + n
        /\ \A i \in 1 .. front + n : t[i] = IF i <= front THEN zeros[i] ELSE s[i - front]
    <2>1. s \in Seq(0 .. 9) /\ zeros \in Seq(0 .. 9)
      BY <1>1, <1>4 DEF Decimals
    <2>2. /\ zeros \o s \in Seq(0 .. 9)
          /\ Len(zeros \o s) = Len(zeros) + Len(s)
          /\ \A i \in 1 .. Len(zeros) + Len(s) : (zeros \o s)[i] =
                     IF i <= Len(zeros) THEN zeros[i] ELSE s[i - Len(zeros)]
      BY <2>1, ConcatProperties
    <2> QED
      BY <1>2, <1>4, <1>5, <2>2 DEF Decimals
  <1>7. ASSUME NEW p \in Nat PROVE Place(t, p) = Place(s, p)
    <2>1. CASE p < n
      <3>1. (front + n) - p \in 1 .. front + n /\ ~((front + n) - p <= front) /\ ((front + n) - p) - front = n - p /\ p < front + n
        BY <2>1
      <3> QED
        BY <1>2, <1>6, <2>1, <3>1 DEF Place
    <2>2. CASE p >= n /\ p < front + n
      <3>1. (front + n) - p \in 1 .. front /\ (front + n) - p \in 1 .. front + n /\ (front + n) - p <= front /\ ~(p < n)
        BY <2>2
      <3> QED
        BY <1>2, <1>3, <1>6, <2>2, <3>1 DEF Place
    <2>3. CASE p >= front + n
      <3>1. ~(p < n) /\ ~(p < front + n)
        BY <2>3
      <3> QED
        BY <1>2, <1>6, <3>1 DEF Place
    <2> QED
      BY <2>1, <2>2, <2>3
  <1>8. front + n > front
    BY <1>1, <1>2
  <1> QED
    BY <1>1, <1>2, <1>5, <1>6, <1>7, <1>8

CharFrom(t, w, n) == IF n = 1 THEN 1 ELSE (Len(t) - 3 * (w - n)) - 2
CharTo(t, w, n) == Len(t) - 3 * (w - n)

\* How groups of three from the right lie in n digits,
LEMMA GroupBounds ==
  ASSUME NEW n \in Nat, NEW w \in Nat, NEW r \in Nat, r < w,
         3 * w <= n + 2, n <= 3 * w
  PROVE  /\ w - (w - r) = r
         /\ n - 3 * r \in Nat /\ 1 <= n - 3 * r
         /\ w - r = 1 => n - 3 * r <= 3
         /\ w - r # 1 => (n - 3 * r) - 2 \in Nat /\ 1 <= (n - 3 * r) - 2
  OBVIOUS

\* and that a shorter group is the first one.
LEMMA GroupShort ==
  ASSUME NEW n \in Nat, NEW r \in Nat, NEW hi \in Nat, NEW lo \in Nat, NEW q \in Nat,
         hi = n - 3 * r, hi - lo < 2 => lo = 1, q < 3, ~(q <= hi - lo)
  PROVE  ~((3 * r) + q < n)
  OBVIOUS

\* The digits of the group that makes one character.
LEMMA GroupRight ==
  ASSUME NEW t \in Decimals, NEW w \in Nat, w = (Len(t) + 2) \div 3, NEW r \in Nat, r < w
  PROVE  LET v == Number(SubSeq(t, CharFrom(t, w, w - r), CharTo(t, w, w - r)))
         IN /\ v \in Nat /\ v < Ten[3]
            /\ \A q \in Nat : q < 3 => Digit(v, q) = Place(t, (3 * r) + q)
  <1>1. PICK n \in Nat : n = Len(t) /\ w = (n + 2) \div 3
    BY LenProperties DEF Decimals
  <1>2. 3 * w <= n + 2 /\ n <= 3 * w
    BY <1>1
  <1>3. PICK hi \in Nat : hi = CharTo(t, w, w - r) /\ hi = n - (3 * r) /\ 1 <= hi
    <2>1. CharTo(t, w, w - r) = n - (3 * r)
      BY <1>1, <1>2, GroupBounds DEF CharTo
    <2>2. n - (3 * r) \in Nat /\ 1 <= n - (3 * r)
      BY <1>2, GroupBounds
    <2> QED
      BY <2>1, <2>2
  <1>4. PICK lo \in Nat : /\ lo = CharFrom(t, w, w - r) /\ 1 <= lo /\ lo <= hi
                          /\ hi - lo <= 2 /\ (hi - lo < 2 => lo = 1)
    <2>1. CASE w - r = 1
      <3>1. CharFrom(t, w, w - r) = 1 /\ hi <= 3
        BY <1>2, <1>3, <2>1, GroupBounds DEF CharFrom
      <3> QED
        BY <1>3, <3>1
    <2>2. CASE w - r # 1
      <3>1. CharFrom(t, w, w - r) = hi - 2
        BY <1>3, <2>2 DEF CharFrom, CharTo
      <3>2. hi - 2 \in Nat /\ 1 <= hi - 2
        BY <1>2, <1>3, <2>2, GroupBounds
      <3> QED
        BY <3>1, <3>2
    <2> QED
      BY <2>1, <2>2
  <1>5. PICK sub : sub = SubSeq(t, lo, hi)
    OBVIOUS
  <1>6. /\ sub \in Decimals /\ Len(sub) = (hi - lo) + 1
        /\ \A q \in Nat : Place(sub, q) = IF q <= hi - lo THEN Place(t, (3 * r) + q) ELSE 0
    <2>1. hi <= Len(t) /\ Len(t) - hi = 3 * r
      BY <1>1, <1>3
    <2>2. /\ sub \in Decimals /\ Len(sub) = (hi - lo) + 1
          /\ \A q \in Nat : Place(sub, q) =
                             IF q <= hi - lo THEN Place(t, (Len(t) - hi) + q) ELSE 0
      <3>1. 1 <= lo /\ lo <= hi
        BY <1>4
      <3> QED
        BY <1>5, <2>1, <3>1, SubPlaces
    <2> QED
      BY <2>1, <2>2
  <1>7. PICK v \in Nat : /\ v = Number(sub) /\ v < Ten[Len(sub)]
                         /\ \A q \in Nat : Digit(v, q) = Place(sub, q)
    BY <1>6, NumberPlaces
  <1>8. v < Ten[3]
    <2>1. PICK i \in Nat : i = Len(sub) /\ i <= 3
      <3>1. (hi - lo) + 1 \in Nat /\ (hi - lo) + 1 <= 3
        BY <1>4
      <3> QED
        BY <1>6, <3>1
    <2>2. Ten[i] <= Ten[3]
      BY <2>1, TenGrows
    <2>3. Ten[i] \in Nat /\ Ten[3] \in Nat /\ v < Ten[i]
      BY <1>7, <2>1, Tens
    <2> QED
      BY <2>2, <2>3
  <1>9. ASSUME NEW q \in Nat, q < 3 PROVE Digit(v, q) = Place(t, (3 * r) + q)
    <2>1. CASE q <= hi - lo
      BY <1>6, <1>7, <2>1
    <2>2. CASE ~(q <= hi - lo)
      <3>1. ~((3 * r) + q < n)
        BY <1>3, <1>4, <1>9, <2>2, GroupShort
      <3>2. Place(t, (3 * r) + q) = 0
        BY <1>1, <3>1 DEF Place
      <3> QED
        BY <1>6, <1>7, <2>2, <3>2
    <2> QED
      BY <2>1, <2>2
  <1> QED
    BY <1>3, <1>4, <1>5, <1>7, <1>8, <1>9

\* c has a character for each three digits of a.
HasGroups(c, a) ==
  \A r \in Nat, u \in Nat :
    /\ r < Len(c) /\ u < Ten[3]
    /\ \A q \in Nat : q < 3 => Digit(u, q) = LimbPlace(a, (3 * r) + q)
    => Place(c, r) = u % 256

\* to_chars makes them, for all limbs of the number.
LEMMA CharsIs ==
  ASSUME TextAssumption, NEW a \in Seq(Limb), a # <<>>
  PROVE  /\ to_chars(a) \in Bytes /\ 3 * Len(to_chars(a)) > LimbDigits * Len(a)
         /\ HasGroups(to_chars(a), a)
  <1>1. PICK t : /\ t = changeToBase10(a) /\ t \in Decimals /\ Len(t) > LimbDigits * Len(a)
                 /\ \A p \in Nat : Place(t, p) = LimbPlace(a, p)
    BY Base10Is
  <1>2. PICK n \in Nat, w \in Nat : n = Len(t) /\ w = (n + 2) \div 3 /\ n <= 3 * w
    <2>1. Len(t) \in Nat
      BY <1>1, LenProperties DEF Decimals
    <2>2. (Len(t) + 2) \div 3 \in Nat /\ Len(t) <= 3 * ((Len(t) + 2) \div 3)
      BY <2>1
    <2> QED
      BY <2>1, <2>2
  <1> DEFINE char(i) == Number(SubSeq(t, CharFrom(t, w, i), CharTo(t, w, i)))
  <1>3. PICK c : c = to_chars(a) /\ c = [i \in 1 .. w |-> char(i) % 256]
    BY <1>1, <1>2 DEF to_chars, CharFrom, CharTo
  <1>4. ASSUME NEW r \in Nat, r < w
        PROVE  /\ char(w - r) \in Nat /\ char(w - r) < Ten[3]
               /\ \A q \in Nat : q < 3 => Digit(char(w - r), q) = Place(t, (3 * r) + q)
    <2>1. w = (Len(t) + 2) \div 3
      BY <1>2
    <2> QED
      BY <1>1, <1>4, <2>1, GroupRight
  <1> HIDE DEF char
  <1>5. ASSUME NEW i \in 1 .. w PROVE char(i) \in Nat
    <2>1. w - i \in Nat /\ w - i < w /\ w - (w - i) = i
      OBVIOUS
    <2> QED
      BY <1>4, <2>1
  <1>6. c \in Bytes /\ Len(c) = w
    <2>1. ASSUME NEW i \in 1 .. w PROVE char(i) % 256 \in 0 .. 255
      <3>1. PICK v \in Nat : v = char(i)
        BY <1>5
      <3>2. v % 256 \in 0 .. 255
        OBVIOUS
      <3> QED
        BY <3>1, <3>2
    <2>2. c \in [1 .. w -> 0 .. 255]
      BY <1>3, <2>1
    <2>3. PICK S : S = 0 .. 255
      OBVIOUS
    <2>4. c \in Seq(S) /\ Len(c) = w
      <3>1. c \in [1 .. w -> S]
        BY <2>2, <2>3
      <3> HIDE <2>3
      <3> QED
        BY <3>1, IsSeq
    <2> QED
      BY <2>3, <2>4 DEF Bytes
  <1>7. ASSUME NEW r \in Nat, NEW u \in Nat, r < w, u < Ten[3],
               \A q \in Nat : q < 3 => Digit(u, q) = LimbPlace(a, (3 * r) + q)
        PROVE  Place(c, r) = u % 256
    <2>1. PICK v \in Nat : /\ v = char(w - r) /\ v < Ten[3]
                           /\ \A q \in Nat : q < 3 => Digit(v, q) = Place(t, (3 * r) + q)
      BY <1>4, <1>7
    <2>2. ASSUME NEW q \in Nat, q < 3 PROVE Digit(u, q) = Digit(v, q)
      BY <1>1, <1>7, <2>1, <2>2
    <2>3. u = v
      BY <1>7, <2>1, <2>2, SameDigits
    <2>4. w - r \in 1 .. w
      BY <1>7
    <2> QED
      BY <1>3, <1>6, <1>7, <2>1, <2>3, <2>4 DEF Place
  <1>8. 3 * w > LimbDigits * Len(a)
    <2>1. LimbDigits * Len(a) \in Nat
      <3>1. LimbDigits \in Nat /\ Len(a) \in Nat
        BY LimbSize, LenProperties
      <3> QED
        BY <3>1
    <2> QED
      BY <1>1, <1>2, <2>1
  <1>9. HasGroups(c, a)
    BY <1>6, <1>7 DEF HasGroups
  <1> QED
    BY <1>3, <1>6, <1>8, <1>9

\* The digits that FromString has limbs for.
LEMMA EnoughLimbs ==
  ASSUME TextAssumption, NEW s \in Decimals
  PROVE  LimbDigits * Len(FromString(s)) >= Len(s)
  <1>1. PICK l \in Nat : l = LimbDigits /\ l > 0
    BY LimbSize
  <1>2. PICK n \in Nat, k \in Nat : n = Len(s) /\ k = (n + l) - 1
    <2>1. Len(s) \in Nat
      BY LenProperties DEF Decimals
    <2>2. (Len(s) + l) - 1 \in Nat
      BY <1>1, <2>1
    <2> QED
      BY <2>1, <2>2
  <1>3. Len(FromString(s)) = k \div l
    <2>1. Len(FromString(s)) = (Len(s) + LimbDigits - 1) \div LimbDigits
      BY FromStringIs
    <2> QED
      BY <1>1, <1>2, <2>1
  <1>4. PICK c \in Nat, r \in Nat : c = k \div l /\ r < l /\ k = c * l + r
    <2>1. k \div l \in Nat /\ k % l \in Nat /\ k % l < l /\ k = (k \div l) * l + (k % l)
      BY <1>1, Division
    <2> QED
      BY <2>1
  <1>5. PICK e \in Nat : e = c * l /\ e = l * c
    OBVIOUS
  <1>6. e >= n
    BY <1>1, <1>2, <1>4, <1>5
  <1> QED
    BY <1>1, <1>2, <1>3, <1>4, <1>5, <1>6

\* A text that is made a number and then a text again.
LEMMA TextBack ==
  ASSUME TextAssumption, NEW m \in Bytes, m # <<>>
  PROVE  LET text == to_chars(FromString(to_numeric(m)))
             n == Len(text) - Len(m)
         IN n > 0 /\ \A i \in DOMAIN text : text[i] = IF i <= n THEN 0 ELSE m[i - n]
  <1>1. PICK j \in Nat : j = Len(m) /\ j > 0
    BY EmptySeq DEF Bytes
  <1>2. PICK s : /\ s = to_numeric(m) /\ s \in Decimals /\ Len(s) = 3 * j
                 /\ \A p \in Nat : Place(s, p) = Digit(Place(m, p \div 3), p % 3)
    BY <1>1, NumericIs
  <1>3. s # <<>>
    BY <1>1, <1>2
  <1>4. PICK a : /\ a = FromString(s) /\ a \in Seq(Limb) /\ a # <<>>
                 /\ \A p \in Nat : LimbPlace(a, p) = Place(s, p)
    BY <1>2, <1>3, FromStringIs
  <1>5. PICK c : /\ c = to_chars(a) /\ c \in Bytes
                 /\ 3 * Len(c) > LimbDigits * Len(a) /\ HasGroups(c, a)
    BY <1>4, CharsIs
  <1>6. PICK w \in Nat : w = Len(c) /\ DOMAIN c = 1 .. w
    BY <1>5, LenProperties DEF Bytes
  <1>7. w > j
    <2>1. PICK e \in Nat : e = LimbDigits * Len(a) /\ e >= 3 * j
      <3>1. LimbDigits * Len(a) >= 3 * j
        BY <1>2, <1>4, EnoughLimbs
      <3>2. LimbDigits \in Nat /\ Len(a) \in Nat
        BY <1>4, LimbSize, LenProperties
      <3> QED
        BY <3>1, <3>2
    <2> QED
      BY <1>5, <1>6, <2>1
  <1>8. ASSUME NEW r \in Nat, r < w PROVE Place(c, r) = Place(m, r)
    <2>1. PICK u \in 0 .. 255 : u = Place(m, r)
      <3>1. CASE r < j
        <4>1. j - r \in 1 .. j
          BY <3>1
        <4>2. m[j - r] \in 0 .. 255
          BY <1>1, <4>1, ElementOfSeq DEF Bytes
        <4> QED
          BY <1>1, <3>1, <4>2 DEF Place
      <3>2. CASE ~(r < j)
        BY <1>1, <3>2 DEF Place
      <3> QED
        BY <3>1, <3>2
    <2>2. ASSUME NEW q \in Nat, q < 3 PROVE Digit(u, q) = LimbPlace(a, (3 * r) + q)
      <3>1. ((3 * r) + q) \div 3 = r /\ ((3 * r) + q) % 3 = q /\ (3 * r) + q \in Nat
        BY <2>2
      <3> QED
        BY <1>2, <1>4, <2>1, <3>1
    <2>3. u \in Nat /\ u < Ten[3] /\ u % 256 = u
      BY Thousand
    <2> QED
      BY <1>5, <1>6, <1>8, <2>1, <2>2, <2>3 DEF HasGroups
  <1>9. ASSUME NEW i \in 1 .. w
        PROVE  c[i] = IF i <= w - j THEN 0 ELSE m[i - (w - j)]
    <2>1. PICK r \in Nat : r = w - i /\ r < w /\ w - r = i
      <3>1. w - i \in Nat /\ w - i < w /\ w - (w - i) = i
        OBVIOUS
      <3> QED
        BY <3>1
    <2>2. c[i] = Place(m, r)
      <3>1. Place(c, r) = c[i]
        BY <1>6, <2>1 DEF Place
      <3> QED
        BY <1>8, <2>1, <3>1
    <2>3. CASE r < j
      <3>1. ~(i <= w - j) /\ j - r = i - (w - j)
        BY <1>7, <2>1, <2>3
      <3> QED
        BY <1>1, <2>2, <2>3, <3>1 DEF Place
    <2>4. CASE ~(r < j)
      <3>1. i <= w - j
        BY <1>7, <2>1, <2>4
      <3> QED
        BY <1>1, <2>2, <2>4, <3>1 DEF Place
    <2> QED
      BY <2>3, <2>4
  <1>10. w - j > 0 /\ \A i \in DOMAIN c : c[i] = IF i <= w - j THEN 0 ELSE m[i - (w - j)]
    BY <1>6, <1>7, <1>9
  <1>11. c = to_chars(FromString(to_numeric(m))) /\ w - j = Len(c) - Len(m)
    BY <1>1, <1>2, <1>4, <1>5, <1>6
  <1> QED
    BY <1>10, <1>11

Starts(file) == {i \in DOMAIN file : file[i] = Begin}
FirstLine(file) == CHOOSE i \in Starts(file) : \A j \in Starts(file) : i <= j
Ends(file, first) == {i \in DOMAIN file : i > first /\ file[i] = End} \cup {Len(file) + 1}
LastLine(file, first) == CHOOSE i \in Ends(file, first) : \A j \in Ends(file, first) : i <= j
IsBody(g, file, first, last) ==
  g = [i \in first .. last - 1 |-> IF i = first THEN <<>> ELSE g[i - 1] \o file[i]]

\* readPemFile, line by line.
LEMMA PemUnfold ==
  ASSUME NEW file, Starts(file) # {}, NEW first, first = FirstLine(file),
         NEW last, last = LastLine(file, first), NEW e, IsBody(e, file, first, last)
  PROVE  \E g : IsBody(g, file, first, last) /\ readPemFile(file) = to_numeric(g[last - 1])
  <1> DEFINE g == CHOOSE g : IsBody(g, file, first, last)
  <1>1. IsBody(g, file, first, last)
    OBVIOUS
  <1>2. readPemFile(file) = to_numeric(g[last - 1])
    BY DEF readPemFile, IsBody, Starts, FirstLine, Ends, LastLine
  <1> QED
    BY <1>1, <1>2

\* What readPemFile returns is a decimal string, whatever is in the file.
LEMMA PemIs ==
  ASSUME NEW file \in Seq(Bytes)
  PROVE  readPemFile(file) \in Decimals
  <1>1. PICK n \in Nat : n = Len(file) /\ DOMAIN file = 1 .. n
    BY LenProperties
  <1>2. CASE Starts(file) = {}
    <2>1. readPemFile(file) = <<>>
      BY <1>2 DEF readPemFile, Starts
    <2> QED
      BY <2>1, EmptySeq DEF Decimals
  <1>3. CASE Starts(file) # {}
    <2>1. PICK first \in 1 .. n : first = FirstLine(file)
      <3>1. Starts(file) \subseteq Nat /\ Starts(file) \subseteq 1 .. n
        BY <1>1 DEF Starts
      <3>2. \E i \in Starts(file) : \A j \in Starts(file) : i <= j
        BY <1>3, <3>1, SmallestOf
      <3>3. FirstLine(file) \in Starts(file)
        BY <3>2 DEF FirstLine
      <3> QED
        BY <3>1, <3>3
    <2>2. PICK last \in first + 1 .. n + 1 : last = LastLine(file, first)
      <3>1. Ends(file, first) \subseteq first + 1 .. n + 1 /\ Ends(file, first) # {}
        BY <1>1 DEF Ends
      <3>2. \E i \in Ends(file, first) : \A j \in Ends(file, first) : i <= j
        <4>1. Ends(file, first) \subseteq Nat
          BY <3>1
        <4> QED
          BY <3>1, <4>1, SmallestOf
      <3>3. LastLine(file, first) \in Ends(file, first)
        BY <3>2 DEF LastLine
      <3> QED
        BY <3>1, <3>3
    <2>3. PICK h \in Nat : h = (last - 1) - first
      <3>1. (last - 1) - first \in Nat
        OBVIOUS
      <3> QED
        BY <3>1
    <2>4. ASSUME NEW i \in first + 1 .. last - 1 PROVE file[i] \in Bytes
      <3>1. i \in 1 .. n
        OBVIOUS
      <3> QED
        BY <1>1, <3>1, ElementOfSeq
    <2>5. <<>> \in Bytes
      BY EmptySeq DEF Bytes
    <2>6. PICK next : next = [k \in 1 .. h |-> [u0 \in Bytes |-> u0 \o file[first + k]]]
      OBVIOUS
    <2>7. PICK f : UpTo(f, h, Bytes, <<>>, next)
      <3>1. ASSUME NEW k \in 1 .. h PROVE next[k] \in [Bytes -> Bytes]
        <4>1. PICK b \in Bytes : b = file[first + k]
          <5>1. first + k \in first + 1 .. last - 1
            BY <2>3
          <5> QED
            BY <2>4, <5>1
        <4>2. \A u0 \in Bytes : u0 \o b \in Bytes
          BY ConcatProperties DEF Bytes
        <4>3. next[k] = [u0 \in Bytes |-> u0 \o b]
          BY <2>6, <4>1
        <4> QED
          BY <4>2, <4>3
      <3> QED
        BY <2>5, <3>1, Defined
    <2>8. f \in [0 .. h -> Bytes] /\ f[0] = <<>> /\ \A k \in 1 .. h : f[k] = next[k][f[k - 1]]
      BY <2>7 DEF UpTo
    <2>9. PICK e : e = [i \in first .. last - 1 |-> f[i - first]]
      OBVIOUS
    <2>10. IsBody(e, file, first, last)
      <3>1. ASSUME NEW i \in first .. last - 1, i # first
            PROVE  e[i] = e[i - 1] \o file[i]
        <4>1. PICK k \in 1 .. h : k = i - first /\ first + k = i /\ (i - 1) - first = k - 1
          <5>1. i - first \in 1 .. h /\ first + (i - first) = i /\ (i - 1) - first = (i - first) - 1
            BY <2>3, <3>1
          <5> QED
            BY <5>1
        <4>2. i - 1 \in first .. last - 1 /\ k - 1 \in 0 .. h
          BY <3>1
        <4>3. e[i] = f[k] /\ e[i - 1] = f[k - 1]
          BY <2>9, <4>1, <4>2
        <4>4. f[k] = f[k - 1] \o file[first + k]
          BY <2>6, <2>8, <4>2
        <4> QED
          BY <4>1, <4>3, <4>4
      <3>2. e[first] = <<>>
        <4>1. first - first = 0 /\ first \in first .. last - 1
          OBVIOUS
        <4> QED
          BY <2>8, <2>9, <4>1
      <3>3. e = [i \in first .. last - 1 |-> e[i]]
        BY <2>9
      <3>4. e = [i \in first .. last - 1 |-> IF i = first THEN <<>> ELSE e[i - 1] \o file[i]]
        BY <3>1, <3>2, <3>3
      <3> QED
        BY <3>4 DEF IsBody
    <2>11. PICK g : IsBody(g, file, first, last) /\ readPemFile(file) = to_numeric(g[last - 1])
      BY <1>3, <2>1, <2>2, <2>10, PemUnfold
    <2>12. /\ \A i \in first .. last - 1 : g[i] = IF i = first THEN <<>> ELSE g[i - 1] \o file[i]
      <3>1. g = [i \in first .. last - 1 |-> IF i = first THEN <<>> ELSE g[i - 1] \o file[i]]
        BY <2>11 DEF IsBody
      <3> QED
        BY <3>1
    <2> DEFINE T == {k \in Nat : k <= h => g[first + k] \in Bytes}
    <2>13. 0 \in T
      <3>1. first + 0 = first /\ first \in first .. last - 1
        OBVIOUS
      <3> QED
        BY <2>5, <2>12, <3>1
    <2>14. ASSUME NEW k \in Nat, k \in T PROVE k + 1 \in T
      <3> SUFFICES ASSUME k + 1 <= h PROVE g[first + (k + 1)] \in Bytes
        OBVIOUS
      <3>1. PICK i \in first + 1 .. last - 1 : i = first + (k + 1) /\ i # first /\ i - 1 = first + k
        <4>1. /\ first + (k + 1) \in first + 1 .. last - 1 /\ first + (k + 1) # first
              /\ (first + (k + 1)) - 1 = first + k
          BY <2>3
        <4> QED
          BY <4>1
      <3>2. g[i] = g[i - 1] \o file[i]
        <4>1. i \in first .. last - 1
          OBVIOUS
        <4> QED
          BY <2>12, <3>1, <4>1
      <3>3. g[i - 1] \in Bytes
        BY <2>14, <3>1
      <3>4. file[i] \in Bytes
        BY <2>4
      <3>5. g[i - 1] \o file[i] \in Bytes
        BY <3>3, <3>4, ConcatProperties DEF Bytes
      <3> QED
        BY <3>1, <3>2, <3>5
    <2> HIDE DEF T
    <2>15. h \in T
      BY <2>13, <2>14, Induction
    <2>16. g[last - 1] \in Bytes
      <3>1. first + h = last - 1
        BY <2>3
      <3> QED
        BY <2>15, <3>1 DEF T
    <2> QED
      BY <2>11, <2>16, NumericIs
  <1> QED
    BY <1>2, <1>3
-----------------------------------------------------------------------------
(* The steps of RsaWrapper *)

LEMMA NumericIn ==
  ASSUME NEW s \in Seq(Nat), Numeric(s)
  PROVE  s \in Decimals
  <1>1. PICK n \in Nat : n = Len(s) /\ DOMAIN s = 1 .. n
    BY LenProperties
  <1>2. s \in [1 .. n -> 0 .. 9]
    <2>1. \A i \in 1 .. n : s[i] \in 0 .. 9
      BY <1>1 DEF Numeric
    <2>2. s = [i \in 1 .. n |-> s[i]]
      BY <1>1, LenProperties
    <2> QED
      BY <2>1, <2>2
  <1> QED
    BY <1>2, IsSeq DEF Decimals

LEMMA DecimalIs ==
  ASSUME NEW s \in Decimals
  PROVE  s \in Bytes /\ Numeric(s) /\ s \in Seq(Nat)
  <1>1. PICK n \in Nat : n = Len(s) /\ DOMAIN s = 1 .. n /\ s \in [1 .. n -> 0 .. 9]
    BY LenProperties DEF Decimals
  <1>2. PICK S : S = 0 .. 255 /\ 0 .. 9 \subseteq S
    <2>1. 0 .. 9 \subseteq 0 .. 255
      OBVIOUS
    <2> QED
      BY <2>1, Zenon
  <1>3. s \in Seq(S)
    BY <1>2, SeqMonotonic DEF Decimals
  <1>4. 0 .. 9 \subseteq Nat
    OBVIOUS
  <1>5. s \in Seq(Nat)
    BY <1>4, SeqMonotonic DEF Decimals
  <1> QED
    BY <1>1, <1>2, <1>3, <1>5 DEF Bytes, Numeric

LEMMA NothingRead ==
  ASSUME TextAssumption
  PROVE  <<>> \in Decimals /\ FromString(<<>>) = <<>>
  <1>1. <<>> \in Decimals
    BY EmptySeq DEF Decimals
  <1> QED
    BY <1>1, FromStringIs

LEMMA FirstPlace ==
  ASSUME TextAssumption, NEW a \in Seq(Limb)
  PROVE  LimbPlace(a, 0) = At(a, 1) % 10
  <1>1. PICK l \in Nat : l = LimbDigits /\ l > 0
    BY LimbSize
  <1>2. 0 = 0 * l + 0
    OBVIOUS
  <1>3. 0 \div l = 0 /\ 0 % l = 0
    BY <1>1, <1>2, QuotientIs
  <1>4. At(a, 1) \in Nat
    BY Digits
  <1>5. LimbPlace(a, 0) = Digit(At(a, 1), 0)
    BY <1>1, <1>3 DEF LimbPlace
  <1> QED
    BY <1>4, <1>5, DigitDown

\* Encryption begins with a turn.
LEMMA ExponentRuns ==
  ASSUME TextAssumption
  PROVE  /\ rsa_e \in Decimals /\ FromString(rsa_e) \in Seq(Limb)
         /\ \A c : c.exp = FromString(rsa_e) => Running(c)
  <1>1. rsa_e \in Decimals /\ Len(rsa_e) = 5 /\ rsa_e[5] = 7 /\ rsa_e # <<>>
    BY DEF rsa_e, Decimals
  <1>2. PICK a \in Seq(Limb) : /\ a = FromString(rsa_e) /\ a # <<>>
                               /\ LimbPlace(a, 0) = Place(rsa_e, 0)
    BY <1>1, FromStringIs
  <1>3. Place(rsa_e, 0) = 7
    BY <1>1 DEF Place
  <1>4. At(a, 1) \in Nat /\ At(a, 1) # 0
    BY <1>2, <1>3, Digits, FirstPlace
  <1>5. Len(a) \in Nat /\ Len(a) > 0 /\ DOMAIN a = 1 .. Len(a)
    BY <1>2, EmptySeq, LenProperties
  <1>6. a[1] \in Nat /\ 0 < a[1]
    BY <1>4, <1>5 DEF At
  <1>7. Less(BZero, a)
    <2>1. CASE Len(a) = 1
      BY <1>6, <2>1 DEF Less, BZero
    <2>2. CASE Len(a) # 1
      BY <1>5, <2>2 DEF Less, BZero
    <2> QED
      BY <2>1, <2>2
  <1> QED
    BY <1>1, <1>2, <1>7 DEF Running

LEMMA ZeroPlaces ==
  ASSUME TextAssumption, NEW a \in Seq(Limb), \A k \in Nat : At(a, k) = 0, NEW p \in Nat
  PROVE  LimbPlace(a, p) = 0
  <1>1. PICK j \in Nat, q \in Nat : j = p \div LimbDigits /\ q = p % LimbDigits
    BY PlaceParts
  <1>2. At(a, 1 + j) = 0
    OBVIOUS
  <1> QED
    BY <1>1, <1>2, ZeroDigits DEF LimbPlace

\* Only zeros are read as BZero.
LEMMA ZeroString ==
  ASSUME TextAssumption, NEW s \in Decimals, FromString(s) = BZero
  PROVE  \A i \in DOMAIN s : s[i] = 0
  <1>1. PICK n \in Nat : n = Len(s) /\ DOMAIN s = 1 .. n
    BY LenProperties DEF Decimals
  <1>2. ASSUME NEW p \in Nat PROVE Place(s, p) = 0
    <2>1. \A k \in Nat : At(BZero, k) = 0
      BY DEF At, BZero
    <2>2. LimbPlace(BZero, p) = 0
      BY <2>1, Zero, ZeroPlaces
    <2> QED
      BY <2>2, FromStringIs
  <1>3. ASSUME NEW i \in 1 .. n PROVE s[i] = 0
    <2>1. n - i \in Nat /\ n - i < n /\ n - (n - i) = i
      OBVIOUS
    <2>2. Place(s, n - i) = s[i]
      BY <1>1, <2>1 DEF Place
    <2> QED
      BY <1>2, <2>1, <2>2
  <1> QED
    BY <1>1, <1>3

\* Only null bytes make a number whose square is nothing.
LEMMA ZeroText ==
  ASSUME TextAssumption, NEW m \in Bytes,
         NEW a, a = FromString(to_numeric(m)), Times(a, a) = <<>>
  PROVE  \A i \in DOMAIN m : m[i] = 0
  <1>1. PICK n \in Nat : n = Len(m) /\ DOMAIN m = 1 .. n /\ \A i \in 1 .. n : m[i] \in 0 .. 255
    BY LenProperties, ElementOfSeq DEF Bytes
  <1>2. PICK s \in Decimals : /\ s = to_numeric(m)
                              /\ \A p \in Nat : Place(s, p) = Digit(Place(m, p \div 3), p % 3)
    BY NumericIs
  <1>3. a \in Seq(Limb) /\ \A p \in Nat : LimbPlace(a, p) = Place(s, p)
    BY <1>2, FromStringIs
  <1>4. Value(a) \in Nat /\ Value(a) * Value(a) = 0
    <2>1. Value(a) \in Nat
      <3>1. ~(Len(a) < Len(a))
        BY <1>3, LenProperties
      <3> QED
        BY <1>3, <3>1, LessIs
    <2>2. Value(Times(a, a)) = Value(a) * Value(a)
      BY <1>3, TimesRight
    <2> QED
      BY <2>1, <2>2, Empty
  <1>5. Value(a) = 0
    BY <1>4
  <1>6. ASSUME NEW k \in Nat PROVE At(a, k) = 0
    <2>1. CASE k = 0
      <3>1. DOMAIN a = 1 .. Len(a) /\ Len(a) \in Nat
        BY <1>3, LenProperties
      <3> QED
        BY <2>1, <3>1 DEF At
    <2>2. CASE k # 0
      <3>1. PICK j \in Nat : k = j + 1
        <4>1. k - 1 \in Nat /\ k = (k - 1) + 1
          BY <2>2
        <4> QED
          BY <4>1
      <3>2. ~(Pow[j] <= Value(a))
        BY <1>5, PowPositive
      <3> QED
        BY <1>3, <3>1, <3>2, Digits, TopLimb
    <2> QED
      BY <2>1, <2>2
  <1>7. ASSUME NEW i \in 1 .. n PROVE m[i] = 0
    <2>1. PICK r \in Nat : r = n - i /\ r < n /\ n - r = i
      <3>1. n - i \in Nat /\ n - i < n /\ n - (n - i) = i
        OBVIOUS
      <3> QED
        BY <3>1
    <2>2. PICK u \in 0 .. 255 : u = m[i]
      BY <1>1
    <2>3. Place(m, r) = u
      BY <1>1, <2>1, <2>2 DEF Place
    <2>4. ASSUME NEW q \in Nat, q < 3 PROVE Digit(u, q) = Digit(0, q)
      <3>1. ((3 * r) + q) \div 3 = r /\ ((3 * r) + q) % 3 = q /\ (3 * r) + q \in Nat
        BY <2>4
      <3>2. LimbPlace(a, (3 * r) + q) = 0
        BY <1>3, <1>6, <3>1, ZeroPlaces
      <3>3. LimbPlace(a, (3 * r) + q) = Digit(u, q)
        BY <1>2, <1>3, <2>3, <3>1
      <3> QED
        BY <3>2, <3>3, ZeroDigits
    <2>5. u \in Nat /\ u < Ten[3] /\ 0 < Ten[3]
      BY Thousand
    <2>6. u = 0
      BY <2>4, <2>5, SameDigits
    <2> QED
      BY <2>2, <2>6
  <1> QED
    BY <1>1, <1>7

\* decrypt's two answers are a text of 1 and one of null bytes.
LEMMA OneOrNothing ==
  ASSUME TextAssumption, NEW a, a \in {BOne, <<>>},
         NEW c, c = to_chars(FromString(to_string(a)))
  PROVE  c \in Bytes /\ \A i \in DOMAIN c : c[i] = 0 \/ (i = Len(c) /\ c[i] = 1)
  <1>1. PICK b \in Seq(Limb) : /\ b = FromString(to_string(a)) /\ b # <<>> /\ b \in {BOne, BZero}
    <2>1. a \in Seq(Limb)
      BY One, Empty
    <2>2. FromString(to_string(a)) = IF a = <<>> THEN BZero ELSE a
      BY <2>1, BackAgain
    <2> QED
      BY <2>2, One, Zero
  <1>2. c \in Bytes /\ HasGroups(c, b)
    BY <1>1, CharsIs
  <1>3. PICK n \in Nat : n = Len(c) /\ DOMAIN c = 1 .. n
    BY <1>2, LenProperties DEF Bytes
  <1>4. PICK d \in {0, 1} : \A k \in Nat : At(b, k) = IF k = 1 THEN d ELSE 0
    <2>1. CASE b = BZero
      <3>1. \A k \in Nat : At(b, k) = 0
        BY <2>1 DEF At, BZero
      <3> QED
        BY <3>1
    <2>2. CASE b = BOne
      <3>1. \A k \in Nat : At(b, k) = IF k = 1 THEN 1 ELSE 0
        BY <2>2 DEF At, BOne
      <3> QED
        BY <3>1
    <2> QED
      BY <1>1, <2>1, <2>2
  <1>5. ASSUME NEW p \in Nat, p # 0 PROVE LimbPlace(b, p) = 0
    <2>1. PICK j \in Nat, q \in Nat, m \in Nat :
            /\ j = p \div LimbDigits /\ q = p % LimbDigits /\ q < LimbDigits
            /\ m = j * LimbDigits /\ p = m + q
      BY PlaceParts
    <2>2. CASE j = 0
      <3>1. q # 0
        <4>1. m = 0
          BY <2>1, <2>2, LimbSize
        <4> QED
          BY <1>5, <2>1, <4>1
      <3>2. d \in Nat /\ d < Ten[1] /\ q >= 1
        BY <3>1, Thousand
      <3>3. Digit(d, q) = 0
        BY <3>2, DigitsAbove
      <3> QED
        BY <1>4, <2>1, <2>2, <3>3 DEF LimbPlace
    <2>3. CASE j # 0
      <3>1. 1 + j \in Nat /\ 1 + j # 1
        BY <2>3
      <3> QED
        BY <1>4, <2>1, <3>1, ZeroDigits DEF LimbPlace
    <2> QED
      BY <2>2, <2>3
  <1>6. LimbPlace(b, 0) = d
    <2>1. LimbPlace(b, 0) = d % 10
      BY <1>4, FirstPlace
    <2> QED
      BY <2>1
  <1>7. ASSUME NEW i \in 1 .. n PROVE c[i] = 0 \/ (i = n /\ c[i] = 1)
    <2>1. PICK r \in Nat : r = n - i /\ r < n /\ n - r = i
      <3>1. n - i \in Nat /\ n - i < n /\ n - (n - i) = i
        OBVIOUS
      <3> QED
        BY <3>1
    <2>2. Place(c, r) = c[i]
      BY <1>3, <2>1 DEF Place
    <2>3. CASE r = 0
      <3>1. d \in Nat /\ d < Ten[3] /\ d % 256 = d
        BY Thousand
      <3>2. ASSUME NEW q \in Nat, q < 3 PROVE Digit(d, q) = LimbPlace(b, (3 * r) + q)
        <4>1. (3 * r) + q = q
          BY <2>3
        <4>2. CASE q = 0
          <5>1. Digit(d, 0) = d % 10 /\ d % 10 = d
            <6>1. d % 10 = d
              OBVIOUS
            <6>2. Digit(d, 0) = d % 10
              BY <3>1, DigitDown
            <6> QED
              BY <6>1, <6>2
          <5> QED
            BY <1>6, <4>1, <4>2, <5>1
        <4>3. CASE q # 0
          <5>1. d < Ten[1] /\ q >= 1
            BY <4>3, Thousand
          <5> QED
            BY <1>5, <3>1, <4>1, <4>3, <5>1, DigitsAbove
        <4> QED
          BY <4>2, <4>3
      <3>3. Place(c, r) = d % 256
        <4>1. r < Len(c)
          BY <1>3, <2>1
        <4>2. HasGroups(c, b)
          BY <1>2
        <4> QED
          BY <3>1, <3>2, <4>1, <4>2 DEF HasGroups
      <3> QED
        BY <2>1, <2>2, <2>3, <3>1, <3>3
    <2>4. CASE r # 0
      <3>1. 0 \in Nat /\ 0 < Ten[3] /\ 0 % 256 = 0
        BY Thousand
      <3>2. ASSUME NEW q \in Nat, q < 3 PROVE Digit(0, q) = LimbPlace(b, (3 * r) + q)
        <4>1. (3 * r) + q \in Nat /\ (3 * r) + q # 0
          BY <2>4
        <4> QED
          BY <1>5, <4>1, ZeroDigits
      <3>3. Place(c, r) = 0 % 256
        BY <1>2, <1>3, <2>1, <3>1, <3>2 DEF HasGroups
      <3> QED
        BY <2>2, <3>1, <3>3
    <2> QED
      BY <2>3, <2>4
  <1> QED
    BY <1>2, <1>3, <1>7

\* What encryption returns: the digits of res.
LEMMA Written ==
  ASSUME TextAssumption, NEW a \in Seq(Limb), NEW t, t = to_string(FromString(to_string(a)))
  PROVE  t \in Decimals /\ FromString(t) = IF a = <<>> THEN BZero ELSE a
  <1>1. PICK b \in Seq(Limb) : /\ b = FromString(to_string(a)) /\ b # <<>>
                               /\ b = IF a = <<>> THEN BZero ELSE a
    <2>1. FromString(to_string(a)) = IF a = <<>> THEN BZero ELSE a
      BY BackAgain
    <2> QED
      BY <2>1, Zero
  <1>2. t \in Decimals
    BY <1>1, ToStringIs
  <1>3. FromString(t) = b
    BY <1>1, BackAgain
  <1> QED
    BY <1>1, <1>2, <1>3

ExpParts == [res : Seq(Limb), tmp : Seq(Limb), exp : Seq(Limb)]

LEMMA NoExit == Exit \notin Seq(Limb)
  <1>1. Len(Exit) = 1 /\ Exit[1] = -1
    BY DEF Exit
  <1>2. -1 \notin Limb
    BY Base DEF Limb
  <1>3. ASSUME Exit \in Seq(Limb) PROVE FALSE
    <2>1. 1 \in 1 .. Len(Exit)
      BY <1>1
    <2>2. Exit[1] \in Limb
      BY <1>3, <2>1, ElementOfSeq
    <2> QED
      BY <1>1, <1>2, <2>2
  <1> QED
    BY <1>3

\* A turn leaves numbers, unless the program exits because the modulus is 0.
LEMMA TurnIn ==
  ASSUME NEW c \in ExpParts, NEW n \in Seq(Limb), ~Stuck(c, n)
  PROVE  IF Exit \in {ExpTurn(c, n).res, ExpTurn(c, n).tmp} THEN n = BZero
         ELSE ExpTurn(c, n) \in ExpParts
  <1>1. c.res \in Seq(Limb) /\ c.tmp \in Seq(Limb) /\ c.exp \in Seq(Limb)
    BY DEF ExpParts
  <1>2. Times(c.res, c.tmp) \in Seq(Limb) /\ Times(c.tmp, c.tmp) \in Seq(Limb)
    BY <1>1, TimesRight
  <1>3. DivideByLimb(c.exp, 2) \in Seq(Limb)
    <2>1. 2 \in Nat /\ 2 > 0
      OBVIOUS
    <2> QED
      BY <1>1, <2>1, DivideRight
  <1>4. LET r == Remainder(Times(c.tmp, c.tmp), n)
        IN r \in Seq(Limb) \/ (r = Exit /\ n = BZero)
    <2>1. ~Loops(Times(c.tmp, c.tmp), n)
      BY DEF Stuck
    <2> QED
      BY <1>2, <2>1, RemainderIn
  <1>5. c.exp[1] % 2 = 1 => LET r == Remainder(Times(c.res, c.tmp), n)
                            IN r \in Seq(Limb) \/ (r = Exit /\ n = BZero)
    <2>1. c.exp[1] % 2 = 1 => ~Loops(Times(c.res, c.tmp), n)
      BY DEF Stuck
    <2> QED
      BY <1>2, <2>1, RemainderIn
  <1> QED
    BY <1>1, <1>3, <1>4, <1>5, NoExit DEF ExpTurn, ExpParts

\* A modulus of two and more, without a limb of zeros in front.
Modulus(n) == Less(BOne, n) /\ n[Len(n)] # 0

LEMMA ModulusIs ==
  ASSUME NEW n \in Seq(Limb), Modulus(n)
  PROVE  IsNumber(n) /\ n # BZero /\ n # <<>> /\ Less(BZero, n)
  <1>1. n # <<>> /\ Len(n) \in Nat /\ Len(n) > 0 /\ DOMAIN n = 1 .. Len(n)
    <2>1. n # <<>>
      BY DEF Modulus, Less, BOne
    <2> QED
      BY <2>1, EmptySeq, LenProperties
  <1>2. At(n, Len(n)) = n[Len(n)] /\ n[Len(n)] # 0 /\ n[Len(n)] \in Limb
    BY <1>1, ElementOfSeq DEF Modulus, At
  <1>3. IsNumber(n)
    BY <1>2 DEF IsNumber, Trimmed
  <1>4. n # BZero
    <2>1. Len(BZero) = 1 /\ BZero[1] = 0
      BY DEF BZero
    <2> QED
      BY <1>2, <2>1
  <1>5. Less(BZero, n)
    <2>1. CASE Len(n) = 1
      <3>1. 0 < n[1]
        BY <1>2, <2>1, Base DEF Limb
      <3> QED
        BY <2>1, <3>1 DEF Less, BZero
    <2>2. CASE Len(n) # 1
      BY <1>1, <2>2 DEF Less, BZero
    <2> QED
      BY <2>1, <2>2
  <1> QED
    BY <1>1, <1>3, <1>4, <1>5

\* A turn keeps res below the modulus.
LEMMA TurnBelow ==
  ASSUME NEW c \in ExpParts, NEW n \in Seq(Limb), Modulus(n), IsNumber(c.res), Less(c.res, n)
  PROVE  IsNumber(ExpTurn(c, n).res) /\ Less(ExpTurn(c, n).res, n)
  <1>1. CASE c.exp[1] % 2 = 1
    <2>1. PICK p : p = Times(c.res, c.tmp) /\ IsNumber(p)
      <3>1. c.res \in Seq(Limb) /\ c.tmp \in Seq(Limb)
        BY DEF ExpParts
      <3>2. Times(c.res, c.tmp) \in Seq(Limb) /\ Trimmed(Times(c.res, c.tmp))
        BY <3>1, TimesRight
      <3> QED
        BY <3>2 DEF IsNumber
    <2>2. IsNumber(n) /\ n # BZero /\ n # <<>>
      BY ModulusIs
    <2>3. IsNumber(Remainder(p, n)) /\ Value(Remainder(p, n)) < Value(n)
      BY <2>1, <2>2, RemainderRight
    <2>4. Less(Remainder(p, n), n)
      BY <2>2, <2>3, LessNumber
    <2>5. ExpTurn(c, n).res = Remainder(p, n)
      BY <1>1, <2>1 DEF ExpTurn
    <2> QED
      BY <2>3, <2>4, <2>5
  <1>2. CASE c.exp[1] % 2 # 1
    BY <1>2 DEF ExpTurn
  <1> QED
    BY <1>1, <1>2
-----------------------------------------------------------------------------
(* The invariant of RsaWrapper *)

WrapTypes ==
  /\ rsaPc \in {"new", "idle", "run", "error", "exit", "hangs", "killed"}
  /\ pair \in KeyPairs /\ rsaOp \in {"none", "e", "d"} /\ calls \in 0 .. MaxCalls
  /\ {rsa_n, rsa_d, exponent} \subseteq Decimals
  /\ key \in Seq(Nat) /\ result \in Bytes
  /\ rsaPc # "exit" => calc \in ExpParts
  /\ rsaPc = "run" \/ result # <<>> => Numeric(key)

\* What a call has been given, and what decrypt has to do with it: nothing.
CallIs ==
  /\ rsaOp = "e" => message \in Messages /\ exponent = rsa_e
  /\ rsaPc = "run" => rsaOp # "none"
  /\ rsaPc = "new" => rsaOp = "none"
  /\ rsaOp = "d" /\ rsaPc = "run" => calc.res \in {BOne, <<>>} /\ ~Running(calc)

\* With an empty modulus the first turn ends for null bytes only.
EmptyKey ==
  rsaOp = "e" /\ key = <<>> /\ rsaPc = "run" =>
    \/ \A i \in DOMAIN message : message[i] = 0
    \/ calc = Expmod(FromString(to_numeric(message)), FromString(rsa_e))

\* res stays below a modulus of two and more, and is what is returned.
BelowModulus ==
  rsaOp = "e" /\ Modulus(FromString(key)) =>
    /\ rsaPc = "run" => IsNumber(calc.res) /\ Less(calc.res, FromString(key))
    /\ result # <<>> => Less(FromString(result), FromString(key))

RsaInv == WrapTypes /\ CallIs /\ BadKeys /\ EmptyKey /\ BelowModulus

LEMMA RsaAssumed ==
  ASSUME WrapperAssumption
  PROVE  /\ MaxCalls \in Nat /\ Messages \subseteq Bytes
         /\ OtherKeys \subseteq Seq(Nat) /\ Ciphers \subseteq Seq(Nat)
         /\ \A p \in KeyPairs : p.public \in Seq(Bytes) /\ p.private \in Seq(Bytes)
  BY DEF WrapperAssumption, Bytes

\* The key of a call under way is a decimal string, and makes a number.
LEMMA KeyIs ==
  ASSUME TextAssumption, NEW k \in Seq(Nat), Numeric(k)
  PROVE  k \in Decimals /\ FromString(k) \in Seq(Limb) /\ (FromString(k) = <<>> => k = <<>>)
  <1>1. k \in Decimals
    BY NumericIn
  <1> QED
    BY <1>1, FromStringIs

LEMMA RsaBegins ==
  ASSUME TextAssumption, WrapperAssumption, RsaInit
  PROVE  RsaInv
  <1>1. WrapTypes
    <2>1. MaxCalls \in Nat /\ 0 \in 0 .. MaxCalls
      BY RsaAssumed
    <2>2. <<>> \in Decimals /\ <<>> \in Seq(Nat) /\ <<>> \in Bytes
      BY NothingRead, EmptySeq DEF Bytes
    <2>3. Nothing \in ExpParts
      BY Empty, Zero DEF Nothing, ExpParts
    <2> QED
      BY <2>1, <2>2, <2>3 DEF RsaInit, WrapTypes
  <1>2. CallIs /\ BadKeys /\ EmptyKey /\ BelowModulus
    BY DEF RsaInit, CallIs, BadKeys, EmptyKey, BelowModulus
  <1> QED
    BY <1>1, <1>2 DEF RsaInv

LEMMA GenerateKeysStep ==
  ASSUME TextAssumption, WrapperAssumption, RsaInv, GenerateKeys
  PROVE  RsaInv'
  <1>1. readPemFile(pair.public) \in Decimals /\ readPemFile(pair.private) \in Decimals
    BY RsaAssumed, PemIs DEF RsaInv, WrapTypes
  <1>2. /\ rsaPc = "new" /\ rsaPc' = "idle" /\ rsaOp = "none" /\ rsaOp' = "none"
        /\ pair' = pair /\ key' = key /\ message' = message /\ exponent' = exponent
        /\ calc' = calc /\ result' = result /\ calls' = calls
        /\ rsa_n' = readPemFile(pair.public) /\ rsa_d' = readPemFile(pair.private)
    BY DEF GenerateKeys, RsaInv, CallIs, call
  <1>3. WrapTypes'
    BY <1>1, <1>2 DEF RsaInv, WrapTypes
  <1>4. (CallIs /\ BadKeys /\ EmptyKey /\ BelowModulus)'
    BY <1>2 DEF CallIs, BadKeys, EmptyKey, BelowModulus
  <1> QED
    BY <1>3, <1>4 DEF RsaInv

LEMMA EncryptStep ==
  ASSUME TextAssumption, WrapperAssumption, RsaInv, Encrypt
  PROVE  RsaInv'
  <1>1. /\ rsaPc \in {"idle", "error"} /\ calls < MaxCalls /\ calls' = calls + 1
        /\ rsaOp' = "e" /\ message' \in Messages /\ exponent' = rsa_e /\ result' = <<>>
        /\ pair' = pair /\ rsa_n' = rsa_n /\ rsa_d' = rsa_d
    BY DEF Encrypt, members
  <1>2. key' \in Seq(Nat)
    <2>1. rsa_n \in Seq(Nat)
      BY DecimalIs DEF RsaInv, WrapTypes
    <2> QED
      BY <2>1, RsaAssumed DEF Encrypt
  <1>3. \/ rsaPc' = "run" /\ Numeric(key')
           /\ calc' = Expmod(FromString(to_numeric(message')), FromString(rsa_e))
        \/ rsaPc' = "error" /\ calc' = calc
    BY <1>1 DEF Encrypt
  <1>4. calc' \in ExpParts
    <2>1. CASE rsaPc' = "run"
      <3>1. to_numeric(message') \in Decimals
        BY <1>1, RsaAssumed, NumericIs
      <3>2. FromString(to_numeric(message')) \in Seq(Limb) /\ FromString(rsa_e) \in Seq(Limb)
        BY <3>1, FromStringIs, ExponentRuns
      <3>3. calc' = Expmod(FromString(to_numeric(message')), FromString(rsa_e))
        BY <1>3, <2>1
      <3> QED
        BY <3>2, <3>3, One DEF Expmod, ExpParts
    <2>2. CASE rsaPc' # "run"
      BY <1>1, <1>3, <2>2 DEF RsaInv, WrapTypes
    <2> QED
      BY <2>1, <2>2
  <1>5. WrapTypes'
    <2>1. calls' \in 0 .. MaxCalls
      BY <1>1, RsaAssumed DEF RsaInv, WrapTypes
    <2>2. rsa_e \in Decimals /\ <<>> \in Bytes
      BY ExponentRuns, EmptySeq DEF Bytes
    <2> QED
      BY <1>1, <1>2, <1>3, <1>4, <2>1, <2>2 DEF RsaInv, WrapTypes
  <1>6. CallIs'
    BY <1>1, <1>3 DEF CallIs
  <1>7. BadKeys'
    BY <1>1, <1>3 DEF BadKeys
  <1>8. EmptyKey'
    BY <1>3 DEF EmptyKey
  <1>9. BelowModulus'
    <2>1. ASSUME rsaPc' = "run", Modulus(FromString(key'))
          PROVE  IsNumber(calc'.res) /\ Less(calc'.res, FromString(key'))
      <3>1. calc'.res = BOne
        BY <1>3, <2>1 DEF Expmod
      <3> QED
        BY <2>1, <3>1, One DEF Modulus
    <2> QED
      BY <1>1, <2>1 DEF BelowModulus
  <1> QED
    BY <1>5, <1>6, <1>7, <1>8, <1>9 DEF RsaInv

LEMMA DecryptStep ==
  ASSUME TextAssumption, WrapperAssumption, RsaInv, DecryptCall
  PROVE  RsaInv'
  <1>1. /\ rsaPc \in {"idle", "error"} /\ calls < MaxCalls /\ calls' = calls + 1
        /\ rsaOp' = "d" /\ key' = rsa_n /\ message' \in Ciphers /\ exponent' = <<>>
        /\ result' = <<>> /\ pair' = pair /\ rsa_n' = rsa_n /\ rsa_d' = rsa_d
    BY DEF DecryptCall, members
  <1>2. key' \in Seq(Nat) /\ Numeric(key')
    BY <1>1, DecimalIs DEF RsaInv, WrapTypes
  <1>3. \/ /\ rsaPc' = "run" /\ Numeric(message')
           /\ calc' = Decrypt(FromString(message'), FromString(<<>>))
        \/ rsaPc' = "killed" /\ calc' = calc
    BY <1>1 DEF DecryptCall
  <1>4. ASSUME rsaPc' = "run"
        PROVE  calc' \in ExpParts /\ calc'.res \in {BOne, <<>>} /\ ~Running(calc')
    <2>1. PICK a \in Seq(Limb) : a = FromString(message')
      <3>1. message' \in Seq(Nat) /\ Numeric(message')
        BY <1>1, <1>3, <1>4, RsaAssumed
      <3> QED
        BY <3>1, KeyIs
    <2>2. calc' = Decrypt(a, <<>>)
      BY <1>3, <1>4, <2>1, NothingRead
    <2>3. ~Less(BZero, BZero) /\ ~Less(BZero, <<>>)
      <3>1. ~Less(BZero, <<>>)
        BY DEF Less, BZero
      <3>2. ~Less(BZero, BZero)
        <4>1. Len(BZero) = 1 /\ DOMAIN BZero = {1} /\ BZero[1] = 0
          BY DEF BZero
        <4> QED
          BY <4>1 DEF Less
      <3> QED
        BY <3>1, <3>2
    <2>4. CASE Refused(a)
      <3>1. calc' = [res |-> <<>>, tmp |-> <<>>, exp |-> BZero]
        BY <2>2, <2>4 DEF Decrypt, Nothing
      <3> QED
        BY <2>3, <3>1, Empty, Zero DEF ExpParts, Running
    <2>5. CASE ~Refused(a)
      <3>1. calc' = [res |-> BOne, tmp |-> a, exp |-> <<>>]
        BY <2>2, <2>5 DEF Decrypt, Expmod
      <3> QED
        BY <2>1, <2>3, <3>1, Empty, One DEF ExpParts, Running
    <2> QED
      BY <2>4, <2>5
  <1>5. WrapTypes'
    <2>1. calls' \in 0 .. MaxCalls
      BY <1>1, RsaAssumed DEF RsaInv, WrapTypes
    <2>2. <<>> \in Decimals /\ <<>> \in Bytes
      BY NothingRead, EmptySeq DEF Bytes
    <2>3. calc' \in ExpParts
      BY <1>1, <1>3, <1>4 DEF RsaInv, WrapTypes
    <2> QED
      BY <1>1, <1>2, <1>3, <2>1, <2>2, <2>3 DEF RsaInv, WrapTypes
  <1>6. CallIs'
    BY <1>1, <1>3, <1>4 DEF CallIs
  <1>7. BadKeys'
    BY <1>1, <1>3 DEF BadKeys
  <1>8. EmptyKey' /\ BelowModulus'
    BY <1>1 DEF EmptyKey, BelowModulus
  <1> QED
    BY <1>5, <1>6, <1>7, <1>8 DEF RsaInv

LEMMA TurnStep ==
  ASSUME TextAssumption, WrapperAssumption, RsaInv, Turn
  PROVE  RsaInv'
  <1>1. /\ rsaPc = "run" /\ Running(calc) /\ pair' = pair /\ rsa_n' = rsa_n /\ rsa_d' = rsa_d
        /\ rsaOp' = rsaOp /\ key' = key /\ message' = message /\ exponent' = exponent
        /\ result' = result /\ calls' = calls
    BY DEF Turn, members, call
  <1>2. PICK n \in Seq(Limb) : n = FromString(key) /\ key \in Decimals /\ (n = <<>> => key = <<>>)
    BY <1>1, KeyIs DEF RsaInv, WrapTypes
  <1>3. calc \in ExpParts
    BY <1>1 DEF RsaInv, WrapTypes
  <1>4. rsaOp = "e"
    BY <1>1 DEF RsaInv, CallIs, WrapTypes
  <1>5. CASE Stuck(calc, n)
    <2>1. rsaPc' = "hangs" /\ calc' = calc
      BY <1>2, <1>5 DEF Turn
    <2>2. key = <<>>
      BY <1>2, <1>5 DEF Stuck, Loops
    <2>3. WrapTypes'
      BY <1>1, <1>3, <2>1 DEF RsaInv, WrapTypes
    <2>4. CallIs' /\ EmptyKey'
      BY <1>1, <1>4, <2>1 DEF RsaInv, CallIs, EmptyKey
    <2>5. BadKeys'
      BY <1>1, <1>4, <2>1, <2>2 DEF BadKeys
    <2>6. BelowModulus'
      BY <1>1, <2>1 DEF RsaInv, BelowModulus
    <2> QED
      BY <2>3, <2>4, <2>5, <2>6 DEF RsaInv
  <1>6. CASE ~Stuck(calc, n)
    <2>1. /\ calc' = ExpTurn(calc, n)
          /\ rsaPc' = IF Exit \in {ExpTurn(calc, n).res, ExpTurn(calc, n).tmp}
                      THEN "exit" ELSE "run"
      BY <1>2, <1>6 DEF Turn
    <2>2. IF rsaPc' = "exit" THEN n = BZero ELSE calc' \in ExpParts
      BY <1>3, <1>6, <2>1, TurnIn
    <2>3. rsaPc' # "exit" => calc' \in ExpParts
      BY <2>2
    <2>4. WrapTypes'
      BY <1>1, <1>3, <2>1, <2>3 DEF RsaInv, WrapTypes
    <2>5. CallIs'
      BY <1>1, <1>4, <2>1 DEF RsaInv, CallIs
    <2>6. BadKeys'
      <3>1. ASSUME rsaPc' = "exit" PROVE \A i \in DOMAIN key : key[i] = 0
        <4>1. n = BZero
          BY <2>2, <3>1
        <4> QED
          BY <1>2, <4>1, ZeroString
      <3> QED
        BY <1>1, <1>4, <2>1, <3>1 DEF BadKeys
    <2>7. EmptyKey'
      <3>1. ASSUME key = <<>>, calc = Expmod(FromString(to_numeric(message)), FromString(rsa_e))
            PROVE  \A i \in DOMAIN message : message[i] = 0
        <4>1. n = <<>>
          BY <1>2, <3>1, NothingRead
        <4>2. Times(calc.tmp, calc.tmp) = <<>>
          BY <1>6, <4>1 DEF Stuck, Loops
        <4>3. calc.tmp = FromString(to_numeric(message))
          BY <3>1 DEF Expmod
        <4>4. message \in Bytes
          BY <1>4, RsaAssumed DEF RsaInv, CallIs
        <4> QED
          BY <4>2, <4>3, <4>4, ZeroText
      <3> QED
        BY <1>1, <1>4, <3>1 DEF RsaInv, EmptyKey
    <2>8. BelowModulus'
      <3>1. ASSUME Modulus(n), rsaPc' = "run" PROVE IsNumber(calc'.res) /\ Less(calc'.res, n)
        <4>1. IsNumber(calc.res) /\ Less(calc.res, n)
          BY <1>1, <1>2, <1>4, <3>1 DEF RsaInv, BelowModulus
        <4> QED
          BY <1>3, <2>1, <3>1, <4>1, TurnBelow
      <3> QED
        BY <1>1, <1>2, <1>4, <3>1 DEF RsaInv, BelowModulus
    <2> QED
      BY <2>4, <2>5, <2>6, <2>7, <2>8 DEF RsaInv
  <1> QED
    BY <1>5, <1>6

LEMMA ReturnStep ==
  ASSUME TextAssumption, WrapperAssumption, RsaInv, Return
  PROVE  RsaInv'
  <1>1. /\ rsaPc = "run" /\ ~Running(calc) /\ rsaPc' = "idle" /\ pair' = pair
        /\ rsa_n' = rsa_n /\ rsa_d' = rsa_d
        /\ rsaOp' = rsaOp /\ key' = key /\ message' = message /\ exponent' = exponent
        /\ calc' = calc /\ calls' = calls
    BY DEF Return, members, call
  <1>2. PICK n \in Seq(Limb) : n = FromString(key)
    BY <1>1, KeyIs DEF RsaInv, WrapTypes
  <1>3. calc \in ExpParts /\ calc.res \in Seq(Limb) /\ Numeric(key)
    BY <1>1 DEF RsaInv, WrapTypes, ExpParts
  <1>4. CASE rsaOp = "e"
    <2>1. result' = to_string(FromString(to_string(calc.res)))
      BY <1>4 DEF Return
    <2>2. /\ result' \in Decimals
          /\ FromString(result') = IF calc.res = <<>> THEN BZero ELSE calc.res
      BY <1>3, <2>1, Written
    <2>3. WrapTypes'
      BY <1>1, <1>3, <2>2, DecimalIs DEF RsaInv, WrapTypes
    <2>4. CallIs' /\ EmptyKey'
      BY <1>1, <1>4 DEF RsaInv, CallIs, EmptyKey
    <2>5. BadKeys'
      <3>1. ASSUME key = <<>> PROVE \A i \in DOMAIN message : message[i] = 0
        <4>1. calc # Expmod(FromString(to_numeric(message)), FromString(rsa_e))
          <5>1. Expmod(FromString(to_numeric(message)), FromString(rsa_e)).exp = FromString(rsa_e)
            BY DEF Expmod
          <5> QED
            BY <1>1, <5>1, ExponentRuns
        <4> QED
          BY <1>1, <1>4, <3>1, <4>1 DEF RsaInv, EmptyKey
      <3> QED
        BY <1>1, <1>4, <3>1 DEF BadKeys
    <2>6. BelowModulus'
      <3>1. ASSUME Modulus(n) PROVE Less(FromString(result'), n)
        <4>1. Less(calc.res, n)
          BY <1>1, <1>2, <1>4, <3>1 DEF RsaInv, BelowModulus
        <4>2. Less(BZero, n)
          BY <3>1, ModulusIs
        <4> QED
          BY <2>2, <4>1, <4>2
      <3> QED
        BY <1>1, <1>2, <3>1 DEF BelowModulus
    <2> QED
      BY <2>3, <2>4, <2>5, <2>6 DEF RsaInv
  <1>5. CASE rsaOp = "d"
    <2>1. result' = to_chars(FromString(to_string(calc.res)))
      BY <1>5 DEF Return
    <2>2. calc.res \in {BOne, <<>>}
      BY <1>1, <1>5 DEF RsaInv, CallIs
    <2>3. /\ result' \in Bytes
          /\ \A i \in DOMAIN result' : result'[i] = 0 \/ (i = Len(result') /\ result'[i] = 1)
      BY <2>1, <2>2, OneOrNothing
    <2>4. WrapTypes'
      BY <1>1, <1>3, <2>3 DEF RsaInv, WrapTypes
    <2>5. CallIs' /\ EmptyKey' /\ BelowModulus'
      BY <1>1, <1>5 DEF RsaInv, CallIs, EmptyKey, BelowModulus
    <2>6. BadKeys'
      BY <1>1, <1>5, <2>3 DEF BadKeys
    <2> QED
      BY <2>4, <2>5, <2>6 DEF RsaInv
  <1> QED
    BY <1>1, <1>4, <1>5 DEF RsaInv, CallIs, WrapTypes

LEMMA RsaAlways ==
  ASSUME TextAssumption, WrapperAssumption
  PROVE  RsaSpec => []RsaInv
  <1>1. RsaInit => RsaInv
    BY RsaBegins
  <1>2. ASSUME RsaInv, [RsaNext]_rsaVars PROVE RsaInv'
    <2>1. ASSUME UNCHANGED rsaVars PROVE RsaInv'
      <3>1. /\ rsaPc' = rsaPc /\ pair' = pair /\ rsa_n' = rsa_n /\ rsa_d' = rsa_d
            /\ rsaOp' = rsaOp /\ key' = key /\ message' = message /\ exponent' = exponent
            /\ calc' = calc /\ result' = result /\ calls' = calls
        BY <2>1 DEF rsaVars, members, call
      <3> QED
        BY <1>2, <3>1 DEF RsaInv, WrapTypes, CallIs, BadKeys, EmptyKey, BelowModulus
    <2> QED
      BY <1>2, <2>1, GenerateKeysStep, EncryptStep, DecryptStep, TurnStep, ReturnStep DEF RsaNext
  <1> QED
    BY <1>1, <1>2, PTL DEF RsaSpec

\* A text comes back from the number that is made of it, and what encryption
\* returns is below the modulus, for all texts, keys and key files.
THEOREM TextHolds ==
  ASSUME TextAssumption, WrapperAssumption
  PROVE  RsaSpec => []TextRight
  <1>1. ASSUME RsaInv PROVE TextRight
    <2>1. RsaTypeOK
      <3>1. Numeric(rsa_n) /\ Numeric(rsa_d) /\ Numeric(exponent)
        BY <1>1, DecimalIs DEF RsaInv, WrapTypes
      <3>2. {calc.res, calc.tmp, calc.exp} \subseteq Seq(0 .. BASE - 1) \/ rsaPc = "exit"
        BY <1>1 DEF RsaInv, WrapTypes, ExpParts, Limb
      <3> QED
        BY <1>1, <3>1, <3>2 DEF RsaInv, WrapTypes, RsaTypeOK, Bytes
    <2>2. TextComesBack
      <3>1. ASSUME rsaOp = "e" PROVE message \in Bytes
        BY <1>1, <3>1, RsaAssumed DEF RsaInv, CallIs
      <3> QED
        BY <3>1, TextBack DEF TextComesBack
    <2>3. CipherBelow
      BY <1>1 DEF RsaInv, BelowModulus, CipherBelow, Modulus
    <2> QED
      BY <2>1, <2>2, <2>3 DEF TextRight
  <1> QED
    BY <1>1, RsaAlways, PTL

\* Bad keys end as they do, and decrypt has nothing to do with the private key,
\* whatever the keys are.
THEOREM BadKeysHold ==
  ASSUME TextAssumption, WrapperAssumption
  PROVE  RsaSpec => []BadKeys
  <1>1. RsaInv => BadKeys
    BY DEF RsaInv
  <1> QED
    BY <1>1, RsaAlways, PTL
-----------------------------------------------------------------------------
(* BignumTool.  First what it needs of numbers. *)

\* A string without a zero in front makes a number without one.
LEMMA FirstLimb ==
  ASSUME TextAssumption, NEW s \in Decimals, s # <<>>, s[1] # 0
  PROVE  /\ FromString(s) \in Seq(Limb) /\ FromString(s) # <<>>
         /\ IsNumber(FromString(s)) /\ Trimmed(FromString(s))
  <1>1. PICK n \in Nat, p \in Nat : n = Len(s) /\ p + 1 = n /\ s[n - p] # 0
    <2>1. Len(s) \in Nat /\ Len(s) # 0
      BY EmptySeq DEF Decimals
    <2>2. Len(s) - 1 \in Nat /\ (Len(s) - 1) + 1 = Len(s) /\ Len(s) - (Len(s) - 1) = 1
      BY <2>1
    <2> QED
      BY <2>1, <2>2
  <1>2. PICK a : /\ a = FromString(s) /\ a \in Seq(Limb) /\ a # <<>>
                 /\ Len(a) = (Len(s) + LimbDigits - 1) \div LimbDigits
                 /\ \A q \in Nat : LimbPlace(a, q) = Place(s, q)
    BY FromStringIs
  <1>3. PICK l \in Nat, j \in Nat, q \in Nat, m \in Nat :
          /\ l = LimbDigits /\ l > 0 /\ j = p \div l /\ q = p % l /\ q < l
          /\ m = j * l /\ p = m + q
    <2>1. PICK l \in Nat : l = LimbDigits /\ l > 0
      BY LimbSize
    <2>2. PICK j \in Nat, q \in Nat, m \in Nat :
            /\ j = p \div LimbDigits /\ q = p % LimbDigits /\ q < LimbDigits
            /\ m = j * LimbDigits /\ p = m + q
      BY PlaceParts
    <2> QED
      BY <2>1, <2>2
  <1>4. Len(a) = j + 1
    <2>1. PICK k \in Nat : k = (n + l) - 1 /\ k = p + l
      BY <1>1, <1>3
    <2>2. k = (j + 1) * l + q
      <3>1. (j + 1) * l = j * l + l
        BY <1>3
      <3> QED
        BY <1>3, <2>1, <3>1
    <2>3. k \div l = j + 1
      BY <1>3, <2>1, <2>2, QuotientIs
    <2> QED
      BY <1>1, <1>2, <1>3, <2>1, <2>3
  <1>5. At(a, Len(a)) # 0
    <2> SUFFICES ASSUME At(a, Len(a)) = 0 PROVE FALSE
      OBVIOUS
    <2>1. LimbPlace(a, p) = Digit(At(a, 1 + j), q)
      BY <1>3 DEF LimbPlace
    <2>2. LimbPlace(a, p) = 0
      BY <1>3, <1>4, <2>1, ZeroDigits
    <2>3. Place(s, p) = s[n - p]
      BY <1>1 DEF Place
    <2> QED
      BY <1>1, <1>2, <2>2, <2>3
  <1> QED
    BY <1>2, <1>5 DEF Trimmed, IsNumber

\* Bignum(counter) is zero.
LEMMA ZerosAre ==
  ASSUME NEW c \in Nat, NEW a, a = [k \in 1 .. c |-> 0]
  PROVE  a \in Seq(Limb) /\ Value(a) = 0
  <1>1. a \in Seq(Limb)
    <2>1. 0 \in Limb
      BY Base DEF Limb
    <2>2. a \in [1 .. c -> Limb]
      BY <2>1
    <2> QED
      BY <2>2, IsSeq
  <1>2. Purge(a) = <<>>
    BY DEF Purge
  <1> QED
    BY <1>1, <1>2, Empty, PurgeRight

\* The leading limbs of a number, from the k-th on.
LEMMA TopOf ==
  ASSUME NEW a \in Seq(Limb), Trimmed(a), NEW k \in Nat, k < Len(a)
  PROVE  \E b \in Seq(Limb) :
           /\ b = SubSeq(a, k + 1, Len(a)) /\ Trimmed(b) /\ b # <<>>
           /\ Len(b) = Len(a) - k /\ \A i \in 1 .. Len(b) : b[i] = a[k + i]
  <1>0. PICK b : b = SubSeq(a, k + 1, Len(a))
    OBVIOUS
  <1>1. PICK n \in Nat : n = Len(a) /\ DOMAIN a = 1 .. n /\ \A i \in 1 .. n : a[i] \in Limb
    BY LenProperties, ElementOfSeq
  <1>2. PICK m \in Nat : m = n - k /\ m > 0 /\ k + m = n
    <2>1. n - k \in Nat /\ n - k > 0 /\ k + (n - k) = n
      BY <1>1
    <2> QED
      BY <2>1
  <1>3. /\ b \in Seq(Limb) /\ Len(b) = m /\ \A i \in 1 .. m : b[i] = a[k + i]
    <2>1. \A i \in k + 1 .. n : a[i] \in Limb
      BY <1>1
    <2>2. k + 1 \in Int /\ n \in Int /\ k + 1 <= n /\ (n - (k + 1)) + 1 = m
      BY <1>1, <1>2
    <2>3. /\ SubSeq(a, k + 1, n) \in Seq(Limb)
          /\ Len(SubSeq(a, k + 1, n)) = IF k + 1 <= n THEN n - (k + 1) + 1 ELSE 0
          /\ \A i \in 1 .. n - (k + 1) + 1 : SubSeq(a, k + 1, n)[i] = a[k + 1 + i - 1]
      BY <2>1, <2>2, SubSeqProperties
    <2>4. \A i \in 1 .. m : k + 1 + i - 1 = k + i
      OBVIOUS
    <2> QED
      BY <1>0, <1>1, <2>2, <2>3, <2>4
  <1>4. At(b, m) # 0
    <2>1. m \in 1 .. m /\ DOMAIN b = 1 .. m
      BY <1>2, <1>3, LenProperties
    <2>2. At(a, n) # 0 /\ n \in 1 .. n
      BY <1>1, <1>2, Empty DEF Trimmed
    <2>3. At(a, n) = a[n] /\ At(b, m) = b[m]
      BY <1>1, <2>1, <2>2 DEF At
    <2> QED
      BY <1>2, <1>3, <2>1, <2>2, <2>3
  <1> QED
    BY <1>0, <1>1, <1>2, <1>3, <1>4, Empty DEF Trimmed

\* What % loses shows in the division of the limbs before it.
LEMMA LostShows ==
  ASSUME NEW a, NEW n, Divides(a, n), ~Less(a, n), a # n, ~LimbLost(a, n)
  PROVE  ~LosesLimb(a, n)
  <1> SUFFICES ASSUME LosesLimb(a, n) PROVE FALSE
    OBVIOUS
  <1>1. a \in Seq(Limb) /\ Trimmed(a) /\ n \in Seq(Limb) /\ Trimmed(n) /\ n # <<>>
    BY DEF Divides
  <1>2. PICK l \in Nat, w \in Nat : l = Len(a) /\ w = Len(n) /\ DOMAIN a = 1 .. l
    BY <1>1, LenProperties
  <1>3. PICK v \in Nat : v = Value(n) /\ v > 0
    BY <1>1, ValueLow, Digits DEF LosesLimb
  <1> DEFINE Lost(k) == a[k] # 0 /\ Lead(a, k) > 0 /\ Lead(a, k) % v = 0
             T == {k \in 1 .. l - 1 : Lost(k)}
  <1>4. T \subseteq 1 .. l /\ T # {}
    BY <1>2, <1>3 DEF LosesLimb, Lead
  <1>5. PICK k \in Nat : k > 0 /\ k < l /\ Lost(k)
                         /\ \A j \in 1 .. l - 1 : Lost(j) => j <= k
    <2>1. PICK k \in T : \A j \in T : j <= k
      BY <1>4, LargestOf
    <2>2. k \in 1 .. l - 1 /\ Lost(k) /\ \A j \in 1 .. l - 1 : Lost(j) => j <= k
      BY <2>1
    <2> QED
      BY <2>2
  <1> HIDE DEF Lost, T
  <1>6. k \in Nat /\ k > 0 /\ k < l
    BY <1>5
  <1>7. PICK b : /\ b = SubSeq(a, k + 1, l) /\ b \in Seq(Limb) /\ Trimmed(b) /\ b # <<>>
                 /\ Len(b) = l - k /\ \A i \in 1 .. l - k : b[i] = a[k + i]
    <2>1. k < Len(a)
      BY <1>2, <1>6
    <2>2. PICK b \in Seq(Limb) :
            /\ b = SubSeq(a, k + 1, Len(a)) /\ Trimmed(b) /\ b # <<>>
            /\ Len(b) = Len(a) - k /\ \A i \in 1 .. Len(b) : b[i] = a[k + i]
      BY <1>1, <1>6, <2>1, TopOf
    <2> QED
      BY <1>2, <2>2
  <1>8. PICK u \in Nat : u = Value(b) /\ u > 0 /\ u % v = 0 /\ a[k] # 0
    <2>1. Value(b) \in Nat
      BY <1>7, ValueLow, Digits
    <2> QED
      BY <1>2, <1>5, <1>7, <2>1 DEF Lead, Lost
  <1>9. v <= u
    <2> SUFFICES ASSUME u < v PROVE FALSE
      OBVIOUS
    <2>1. u % v = u
      BY <1>3, <1>8
    <2> QED
      BY <1>8, <2>1
  <1>10. w <= l - k
    <2> SUFFICES ASSUME l - k < w PROVE FALSE
      BY <1>2, <1>6
    <2>1. At(n, Len(n)) # 0
      BY <1>1 DEF Trimmed
    <2>2. u < v
      BY <1>1, <1>2, <1>3, <1>7, <1>8, <2>1, ShorterIsLess
    <2> QED
      BY <1>9, <2>2
  <1>11. Divides(b, n)
    BY <1>1, <1>2, <1>7, <1>10 DEF Divides
  <1>12. ~LosesLimb(b, n)
    <2> SUFFICES ASSUME NEW i \in 1 .. Len(b) - 1, b[i] # 0,
                        Value(SubSeq(b, i + 1, Len(b))) > 0,
                        Value(SubSeq(b, i + 1, Len(b))) % v = 0
                 PROVE  FALSE
      BY <1>3 DEF LosesLimb
    <2>1. i \in Nat /\ i > 0 /\ i < l - k /\ k + i \in 1 .. l - 1
      BY <1>2, <1>6, <1>7
    <2>2. b[i] = a[k + i]
      BY <1>7, <2>1
    <2>3. SubSeq(b, i + 1, l - k) = SubSeq(a, k + i + 1, l)
      <3>1. /\ k + 1 \in 1 .. Len(a) /\ l \in 1 .. Len(a)
            /\ i + 1 \in 1 .. l - (k + 1) + 1 /\ l - k \in 1 .. l - (k + 1) + 1
        BY <1>2, <1>6, <2>1
      <3>2. SubSeq(SubSeq(a, k + 1, l), i + 1, l - k)
              = SubSeq(a, k + 1 + (i + 1) - 1, k + 1 + (l - k) - 1)
        BY <1>1, <3>1, SubSeqOfSubSeq
      <3>3. k + 1 + (i + 1) - 1 = k + i + 1 /\ k + 1 + (l - k) - 1 = l
        BY <1>6, <2>1
      <3> QED
        BY <1>7, <3>2, <3>3
    <2>4. Lost(k + i)
      BY <1>2, <1>7, <2>2, <2>3 DEF Lead, Lost
    <2>5. k + i <= k
      BY <1>5, <2>1, <2>4
    <2> QED
      BY <1>6, <2>1, <2>5
  <1>13. PICK q \in Nat, r \in Nat :
           /\ r = Value(LongDivision(b, n).tmp) /\ r < v /\ u = q * v + r
           /\ LongDivision(b, n).tmp \in Seq(Limb) /\ Trimmed(LongDivision(b, n).tmp)
    <2>1. LongDivision(b, n) \in Partial(n)
      BY <1>11, LongDivisionRight
    <2>2. /\ LongDivision(b, n).quot \in Seq(Limb) /\ LongDivision(b, n).tmp \in Seq(Limb)
          /\ Trimmed(LongDivision(b, n).tmp) /\ Value(LongDivision(b, n).tmp) < v
      BY <1>3, <2>1 DEF Partial
    <2>3. Value(b) = Value(LongDivision(b, n).quot) * Value(n) + Value(LongDivision(b, n).tmp)
      BY <1>11, <1>12, LongDivisionRight
    <2>4. Value(LongDivision(b, n).quot) \in Nat /\ Value(LongDivision(b, n).tmp) \in Nat
      BY <2>2, ValueLow, Digits
    <2> QED
      BY <1>3, <1>8, <2>2, <2>3, <2>4
  <1>14. r = 0
    <2>1. u % v = r
      BY <1>13, QuotientIs
    <2> QED
      BY <1>8, <2>1
  <1>15. LongDivision(b, n).tmp = NormalZero
    <2>1. IsNumber(LongDivision(b, n).tmp)
      BY <1>13 DEF IsNumber
    <2>2. LongDivision(b, n).tmp \in {<<>>, BZero}
      BY <1>13, <1>14, <2>1, ValueZero
    <2>3. LongDivision(b, n).tmp # BZero
      BY <1>13, Zero DEF Trimmed
    <2> QED
      BY <2>2, <2>3 DEF NormalZero
  <1>16. k \in 1 .. Len(a) - Len(n)
    BY <1>2, <1>6, <1>10
  <1> QED
    BY <1>2, <1>7, <1>8, <1>15, <1>16 DEF LimbLost

\* What % returns when it loses nothing.
LEMMA RemainderKept ==
  ASSUME NEW a \in Seq(Limb), Trimmed(a), NEW n \in Seq(Limb), Modulus(n), ~LimbLost(a, n)
  PROVE  /\ IsNumber(Remainder(a, n)) /\ Value(Remainder(a, n)) < Value(n)
         /\ Value(Remainder(a, n)) = Value(a) % Value(n)
  <1>1. IsNumber(a) /\ IsNumber(n) /\ n # BZero /\ n # <<>>
    BY ModulusIs DEF IsNumber
  <1>2. IsNumber(Remainder(a, n)) /\ Value(Remainder(a, n)) < Value(n)
    BY <1>1, RemainderRight
  <1>3. PICK u \in Nat, v \in Nat : u = Value(a) /\ v = Value(n) /\ v > 0
    BY <1>1, ValueZero
  <1>4. CASE Less(a, n)
    <2>1. u < v /\ Remainder(a, n) = a
      BY <1>1, <1>3, <1>4, LessNumber DEF Remainder
    <2> QED
      BY <1>2, <1>3, <2>1
  <1>5. CASE a = n
    <2>1. Remainder(a, n) = BZero
      <3>1. ~Less(a, n)
        BY <1>1, <1>3, <1>5, LessNumber
      <3> QED
        BY <1>5, <3>1 DEF Remainder
    <2>2. u % v = 0
      BY <1>3, <1>5
    <2> QED
      BY <1>2, <1>3, <2>1, <2>2, Zero
  <1>6. CASE ~Less(a, n) /\ a # n
    <2>1. Trimmed(n)
      BY <1>1 DEF IsNumber
    <2>2. Len(n) <= Len(a)
      BY <1>6, Digits, LessIsShorter
    <2>3. Divides(a, n)
      BY <1>1, <2>1, <2>2 DEF Divides
    <2>4. ~LosesLimb(a, n)
      BY <1>6, <2>3, LostShows
    <2> QED
      BY <1>1, <1>2, <2>4, RemainderRight
  <1> QED
    BY <1>4, <1>5, <1>6

KeyValue == Value(FromString(num1))
Enciphered(b) == PowersOf(b, KeyValue)[Value(FromString(num2))]
Deciphered(b) == PowersOf(b, KeyValue)[Value(FromString(num3))]

\* The two exponents belong together: for each number below the modulus, what the
\* one makes of it the other makes undone.
KeyWorks == \A b \in 0 .. KeyValue - 1 : Deciphered(Enciphered(b)) = b

LEMMA KeyAssumed ==
  ASSUME TextAssumption, ToolAssumption
  PROVE  /\ Modulus(FromString(num1)) /\ IsNumber(FromString(num1))
         /\ FromString(num1) # BZero /\ FromString(num1) # <<>>
         /\ {FromString(num1), FromString(num2), FromString(num3)} \subseteq Seq(Limb)
         /\ KeyValue \in Nat /\ KeyValue > 1 /\ Len(num1) \in Nat /\ Part \in Nat
         /\ Value(FromString(num2)) \in Nat /\ Value(FromString(num3)) \in Nat
  <1>1. {num1, num2, num3} \subseteq Decimals /\ num1 # <<>> /\ num1[1] # 0
    BY DEF ToolAssumption, Decimals
  <1>2. PICK n : /\ n = FromString(num1) /\ n \in Seq(Limb) /\ n # <<>>
                 /\ IsNumber(n) /\ Trimmed(n) /\ Less(BOne, n)
    BY <1>1, FirstLimb DEF ToolAssumption
  <1>3. Len(n) \in 1 .. Len(n) /\ DOMAIN n = 1 .. Len(n)
    BY <1>2, LenProperties, EmptySeq
  <1>4. Modulus(n)
    BY <1>2, <1>3 DEF Modulus, Trimmed, At
  <1>5. n # BZero
    BY <1>2, <1>4, ModulusIs
  <1>6. FromString(num2) \in Seq(Limb) /\ FromString(num3) \in Seq(Limb)
    BY <1>1, FromStringIs
  <1>7. Value(n) \in Nat /\ 1 < Value(n)
    BY <1>2, One, LessNumber, ValueZero
  <1>8. Value(FromString(num2)) \in Nat /\ Value(FromString(num3)) \in Nat
    BY <1>6, ValueLow, Digits
  <1>9. PICK k \in Nat : k = Len(num1) /\ k \div 3 \in Nat
    <2>1. PICK k \in Nat : k = Len(num1)
      BY <1>1, LenProperties DEF Decimals
    <2> QED
      BY <2>1
  <1> QED
    BY <1>2, <1>4, <1>5, <1>6, <1>7, <1>8, <1>9 DEF KeyValue, Part

(* An expmod under way, and the number it will return. *)

Computes(c, v) ==
  /\ IsNumber(c.res) /\ Value(c.res) < KeyValue
  /\ (Value(c.res) * PowersOf(Value(c.tmp), KeyValue)[Value(c.exp)]) % KeyValue = v

LEMMA JobBegins ==
  ASSUME TextAssumption, ToolAssumption, NEW a \in Seq(Limb), NEW e \in Seq(Limb)
  PROVE  /\ Expmod(a, e) \in ExpParts
         /\ Computes(Expmod(a, e), PowersOf(Value(a), KeyValue)[Value(e)])
  <1>1. Expmod(a, e) = [res |-> BOne, tmp |-> a, exp |-> e]
    BY DEF Expmod
  <1>2. PICK b \in Nat, k \in Nat, m \in Nat : b = Value(a) /\ k = Value(e) /\ m = KeyValue /\ m > 1
    BY KeyAssumed, ValueLow, Digits
  <1>3. PICK u \in Nat : u = PowersOf(b, m)[k] /\ u < m
    BY <1>2, PowerBelow
  <1>4. (1 * u) % m = u
    <2>1. 1 * u = u
      OBVIOUS
    <2>2. u % m = u
      BY <1>2, <1>3, OwnRemainder
    <2> QED
      BY <2>1, <2>2
  <1> QED
    BY <1>1, <1>2, <1>3, <1>4, One DEF ExpParts, Computes

\* For a number that decrypt refuses.
LEMMA NothingComputes ==
  ASSUME TextAssumption, ToolAssumption
  PROVE  Nothing \in ExpParts /\ Computes(Nothing, 0)
  <1>1. PICK m \in Nat : m = KeyValue /\ m > 1
    BY KeyAssumed
  <1>2. PowersOf(0, m)[0] = 1
    BY <1>1, PowersOfAre DEF ArePowers
  <1>3. (0 * 1) % m = 0
    BY <1>1
  <1>4. IsNumber(<<>>)
    BY Empty DEF IsNumber, Trimmed
  <1> QED
    BY <1>1, <1>2, <1>3, <1>4, Empty, Zero DEF Nothing, ExpParts, Computes

\* The end of the loop is found when exp is zero.
LEMMA JobEnds ==
  ASSUME TextAssumption, ToolAssumption, NEW c \in ExpParts, ~Running(c), NEW v, Computes(c, v)
  PROVE  IsNumber(c.res) /\ Value(c.res) = v
  <1>1. c.res \in Seq(Limb) /\ c.tmp \in Seq(Limb) /\ c.exp \in Seq(Limb)
    BY DEF ExpParts
  <1>2. Value(c.exp) = 0
    <2>1. CASE Len(c.exp) > 1
      <3>1. Less(BZero, c.exp)
        BY <1>1, <2>1, Zero, LessIsShorter
      <3> QED
        BY <3>1 DEF Running
    <2>2. CASE ~(Len(c.exp) > 1)
      <3>1. Len(c.exp) < 1 => c.exp = <<>>
        <4>1. PICK k \in Nat : k = Len(c.exp)
          BY <1>1, LenProperties
        <4>2. k < 1 => k = 0
          OBVIOUS
        <4> QED
          BY <1>1, <4>1, <4>2, EmptySeq
      <3>2. CASE c.exp = <<>>
        BY <3>2, Empty
      <3>3. CASE c.exp # <<>>
        <4>1. Len(c.exp) = 1
          <5>1. PICK k \in Nat : k = Len(c.exp)
            BY <1>1, LenProperties
          <5>2. ~(k < 1) /\ ~(k > 1)
            BY <2>2, <3>1, <3>3, <5>1
          <5>3. k = 1
            BY <5>2
          <5> QED
            BY <5>1, <5>3
        <4>2. ~(Value(BZero) < Value(c.exp)) /\ Value(c.exp) \in Nat
          BY <1>1, <4>1, Zero, LessIs DEF Running
        <4> QED
          BY <4>2, Zero
      <3> QED
        BY <3>2, <3>3
    <2> QED
      BY <2>1, <2>2
  <1>3. PICK m \in Nat, r \in Nat, t \in Nat :
          m = KeyValue /\ m > 1 /\ r = Value(c.res) /\ r < m /\ t = Value(c.tmp)
    BY <1>1, KeyAssumed, ValueLow, Digits DEF Computes
  <1>4. PowersOf(t, m)[0] = 1
    BY <1>3, PowersOfAre DEF ArePowers
  <1>5. (r * 1) % m = r
    BY <1>3
  <1> QED
    BY <1>2, <1>3, <1>4, <1>5 DEF Computes

\* A turn of the loop.
LEMMA JobTypes ==
  ASSUME TextAssumption, ToolAssumption, NEW c \in ExpParts
  PROVE  ExpTurn(c, FromString(num1)) \in ExpParts
  <1>1. PICK n \in Seq(Limb) : n = FromString(num1) /\ n # BZero /\ n # <<>>
    BY KeyAssumed
  <1>2. ~Stuck(c, n)
    BY <1>1 DEF Stuck, Loops
  <1> QED
    BY <1>1, <1>2, TurnIn

LEMMA JobTurn ==
  ASSUME TextAssumption, ToolAssumption, NEW c \in ExpParts, Running(c),
         NEW v, Computes(c, v), ~Drops(c, FromString(num1))
  PROVE  Computes(ExpTurn(c, FromString(num1)), v)
  <1>1. PICK n \in Seq(Limb) : n = FromString(num1) /\ Modulus(n) /\ Value(n) = KeyValue
    BY KeyAssumed DEF KeyValue
  <1>2. c.res \in Seq(Limb) /\ c.tmp \in Seq(Limb) /\ c.exp \in Seq(Limb)
    BY DEF ExpParts
  <1>3. PICK d : d = ExpTurn(c, n)
    OBVIOUS
  <1>4. PICK product, square : product = Times(c.res, c.tmp) /\ square = Times(c.tmp, c.tmp)
    OBVIOUS
  <1>5. /\ product \in Seq(Limb) /\ Trimmed(product) /\ Value(product) = Value(c.res) * Value(c.tmp)
        /\ square \in Seq(Limb) /\ Trimmed(square) /\ Value(square) = Value(c.tmp) * Value(c.tmp)
    BY <1>2, <1>4, TimesRight
  <1>6. ~LimbLost(square, n) /\ (c.exp[1] % 2 = 1 => ~LimbLost(product, n))
    BY <1>1, <1>4 DEF Drops
  <1>7. PICK m \in Nat, r \in Nat, t \in Nat, e \in Nat :
          /\ m = KeyValue /\ m > 1 /\ r = Value(c.res) /\ t = Value(c.tmp) /\ e = Value(c.exp)
    BY <1>2, KeyAssumed, ValueLow, Digits
  <1>8. Value(d.tmp) = (t * t) % m
    <2>1. d.tmp = Remainder(square, n)
      BY <1>3, <1>4 DEF ExpTurn
    <2> QED
      BY <1>1, <1>5, <1>6, <1>7, <2>1, RemainderKept
  <1>9. PICK h \in Nat : /\ Value(d.exp) = h
                         /\ c.exp[1] % 2 = 1 => e = 2 * h + 1
                         /\ c.exp[1] % 2 # 1 => e = 2 * h
    <2>1. e \div 2 \in Nat /\ 2 \in Nat /\ 2 > 0
      OBVIOUS
    <2>2. d.exp = DivideByLimb(c.exp, 2)
      BY <1>3 DEF ExpTurn
    <2>3. Value(d.exp) = e \div 2
      BY <1>2, <1>7, <2>1, <2>2, DivideRight
    <2>4. c.exp # <<>>
      <3> SUFFICES ASSUME c.exp = <<>> PROVE FALSE
        OBVIOUS
      <3>1. ~Less(BZero, c.exp)
        <4>1. Len(c.exp) < Len(BZero)
          BY Empty, Zero
        <4> QED
          BY <1>2, <4>1, Zero, LessIsShorter
      <3> QED
        BY <3>1 DEF Running
    <2>5. /\ c.exp[1] % 2 = 1 => e = 2 * (e \div 2) + 1
          /\ c.exp[1] % 2 # 1 => e = 2 * (e \div 2)
      BY <1>2, <1>7, <2>4, LowestParity
    <2> QED
      BY <2>1, <2>3, <2>5
  <1>10. (r * PowersOf(t, m)[e]) % m = v
    BY <1>7 DEF Computes
  <1>11. /\ (r * PowersOf((t * t) % m, m)[h]) % m = (r * PowersOf(t, m)[2 * h]) % m
         /\ (((r * t) % m) * PowersOf((t * t) % m, m)[h]) % m
              = (r * PowersOf(t, m)[2 * h + 1]) % m
    <2>1. m > 0
      BY <1>7
    <2>2. TurnIs(m, r, t, h)
      BY <2>1, ExpTurnRight
    <2> QED
      BY <2>2 DEF TurnIs
  <1>12. CASE c.exp[1] % 2 = 1
    <2>1. d.res = Remainder(product, n)
      BY <1>3, <1>4, <1>12 DEF ExpTurn
    <2>2. IsNumber(d.res) /\ Value(d.res) < m /\ Value(d.res) = (r * t) % m
      BY <1>1, <1>5, <1>6, <1>7, <1>12, <2>1, RemainderKept
    <2>3. (Value(d.res) * PowersOf(Value(d.tmp), m)[Value(d.exp)]) % m = v
      BY <1>8, <1>9, <1>10, <1>11, <1>12, <2>2
    <2> QED
      BY <1>1, <1>3, <1>7, <2>2, <2>3 DEF Computes
  <1>13. CASE c.exp[1] % 2 # 1
    <2>1. d.res = c.res
      BY <1>3, <1>13 DEF ExpTurn
    <2>2. IsNumber(d.res) /\ Value(d.res) < m /\ Value(d.res) = r
      BY <1>7, <2>1 DEF Computes
    <2>3. (Value(d.res) * PowersOf(Value(d.tmp), m)[Value(d.exp)]) % m = v
      BY <1>8, <1>9, <1>10, <1>11, <1>13, <2>2
    <2> QED
      BY <1>1, <1>3, <1>7, <2>2, <2>3 DEF Computes
  <1> QED
    BY <1>12, <1>13

(* Texts that differ in null bytes in front *)

\* What stands for the same has the same limbs, within the sequences and beyond.
LEMMA EqualLimbs ==
  ASSUME NEW a \in Seq(Limb), NEW b \in Seq(Limb), Value(a) = Value(b)
  PROVE  \A k \in Nat : At(a, k) = At(b, k)
  <1>0. a \in Seq(Nat) /\ b \in Seq(Nat)
    BY Digits
  <1>1. PICK i \in Nat, j \in Nat : /\ i = Len(a) /\ DOMAIN a = 1 .. i
                                    /\ j = Len(b) /\ DOMAIN b = 1 .. j
    BY Digits
  <1>2. PICK n \in Nat : n >= i /\ n >= j
    <2>1. i + j \in Nat /\ i + j >= i /\ i + j >= j
      OBVIOUS
    <2> QED
      BY <2>1
  <1>3. Low(a)[n] = Low(b)[n] /\ Low(a)[n] \in Nat /\ Low(b)[n] \in Nat
    <2>1. Low(a)[n] = Low(a)[Len(a)] /\ Low(b)[n] = Low(b)[Len(b)]
      BY <1>0, <1>1, <1>2, Beyond
    <2> QED
      BY <1>0, <2>1, Lows, ValueLow
  <1>4. ASSUME NEW k \in 1 .. n PROVE At(a, k) = At(b, k)
    <2> SUFFICES ASSUME At(a, k) # At(b, k) PROVE FALSE
      OBVIOUS
    <2> DEFINE D == {l \in 1 .. n : At(a, l) # At(b, l)}
    <2>1. D # {} /\ D \subseteq 1 .. n
      OBVIOUS
    <2>2. PICK h \in D : \A l \in D : l <= h
      <3> HIDE DEF D
      <3> QED
        BY <2>1, LargestOf
    <2>3. h \in 1 .. n /\ At(a, h) # At(b, h)
      BY <2>2
    <2>4. PICK g \in Nat : h = g + 1 /\ g < n
      <3>1. h - 1 \in Nat /\ h = (h - 1) + 1 /\ h - 1 < n
        BY <2>3
      <3> QED
        BY <3>1
    <2>5. \A l \in g + 2 .. n : At(a, l) = At(b, l)
      <3> SUFFICES ASSUME NEW l \in g + 2 .. n PROVE At(a, l) = At(b, l)
        OBVIOUS
      <3>1. l \in 1 .. n /\ ~(l <= h)
        BY <2>4
      <3> QED
        BY <2>2, <3>1
    <2>6. PICK u \in Nat, v \in Nat : u = At(a, g + 1) /\ v = At(b, g + 1) /\ u # v
      BY <2>3, <2>4, Digits
    <2>7. CASE u < v
      <3>1. Low(a)[n] < Low(b)[n]
        BY <2>4, <2>5, <2>6, <2>7, HighestLimb
      <3> QED
        BY <1>3, <3>1
    <2>8. CASE v < u
      <3>1. Low(b)[n] < Low(a)[n]
        BY <2>4, <2>5, <2>6, <2>8, HighestLimb
      <3> QED
        BY <1>3, <3>1
    <2> QED
      BY <2>6, <2>7, <2>8
  <1>5. ASSUME NEW k \in Nat, k \notin 1 .. n PROVE At(a, k) = At(b, k)
    <2>1. k \notin 1 .. i /\ k \notin 1 .. j
      BY <1>2, <1>5
    <2> QED
      BY <1>1, <2>1 DEF At
  <1> QED
    BY <1>4, <1>5

\* And the same decimal digits.
LEMMA EqualPlaces ==
  ASSUME TextAssumption, NEW a \in Seq(Limb), NEW b \in Seq(Limb), Value(a) = Value(b),
         NEW p \in Nat
  PROVE  LimbPlace(a, p) = LimbPlace(b, p)
  <1>1. PICK j \in Nat : j = p \div LimbDigits
    BY PlaceParts
  <1>2. 1 + j \in Nat
    OBVIOUS
  <1>3. At(a, 1 + j) = At(b, 1 + j)
    BY <1>2, EqualLimbs
  <1> QED
    BY <1>1, <1>3 DEF LimbPlace

\* There are none where there are no limbs.
LEMMA NoPlace ==
  ASSUME TextAssumption, NEW a \in Seq(Limb), NEW p \in Nat, p >= LimbDigits * Len(a)
  PROVE  LimbPlace(a, p) = 0
  <1>1. PICK l \in Nat, j \in Nat, q \in Nat, m \in Nat :
          /\ l = LimbDigits /\ l > 0 /\ j = p \div LimbDigits /\ q = p % LimbDigits
          /\ q < l /\ m = j * l /\ p = m + q
    <2>1. PICK l \in Nat : l = LimbDigits /\ l > 0
      BY LimbSize
    <2> QED
      BY <2>1, PlaceParts
  <1>2. PICK n \in Nat : n = Len(a) /\ DOMAIN a = 1 .. n
    BY LenProperties
  <1>3. ~(j < n)
    <2> SUFFICES ASSUME j < n PROVE FALSE
      OBVIOUS
    <2>1. PICK d \in Nat : n = (j + 1) + d
      <3>1. n - (j + 1) \in Nat /\ n = (j + 1) + (n - (j + 1))
        BY <1>1, <1>2
      <3> QED
        BY <3>1
    <2>2. PICK f \in Nat : f = d * l
      OBVIOUS
    <2>3. l * n = (m + l) + f
      <3>1. l * n = ((j * l) + l) + d * l
        BY <1>1, <1>2, <2>1
      <3> QED
        BY <1>1, <2>2, <3>1
    <2>4. p >= (m + l) + f
      BY <1>1, <1>2, <2>3
    <2> QED
      BY <1>1, <2>2, <2>4
  <1>4. 1 + j \notin DOMAIN a
    BY <1>1, <1>2, <1>3
  <1>5. LimbPlace(a, p) = Digit(0, q)
    BY <1>1, <1>4 DEF LimbPlace, At
  <1> QED
    BY <1>1, <1>5, ZeroDigits

\* FromRight is Place.
LEMMA RightPlace ==
  ASSUME NEW s, NEW p
  PROVE  FromRight(s, p) = Place(s, p)
  BY DEF FromRight, Place

\* The bytes of a text.
LEMMA BytePlace ==
  ASSUME NEW m \in Bytes, NEW r \in Nat
  PROVE  Place(m, r) \in 0 .. 255
  <1>1. PICK j \in Nat : j = Len(m) /\ DOMAIN m = 1 .. j
    BY LenProperties DEF Bytes
  <1>2. CASE r < j
    <2>1. j - r \in 1 .. j
      BY <1>1, <1>2
    <2>2. m[j - r] \in 0 .. 255
      BY <1>1, <2>1, ElementOfSeq DEF Bytes
    <2> QED
      BY <1>1, <1>2, <2>2 DEF Place
  <1>3. CASE ~(r < j)
    BY <1>1, <1>3 DEF Place
  <1> QED
    BY <1>2, <1>3

\* A number that stands for a text's is made that text, with or without null
\* bytes in front.
LEMMA CharsBack ==
  ASSUME TextAssumption, NEW text \in Bytes, NEW b \in Seq(Limb), b # <<>>,
         Value(b) = Value(Numeral(text))
  PROVE  to_chars(b) \in Bytes /\ SameText(to_chars(b), text)
  <1>1. PICK s : /\ s = to_numeric(text) /\ s \in Decimals
                 /\ \A p \in Nat : Place(s, p) = Digit(Place(text, p \div 3), p % 3)
    BY NumericIs
  <1>2. PICK a : /\ a = Numeral(text) /\ a \in Seq(Limb)
                 /\ \A p \in Nat : LimbPlace(a, p) = Place(s, p)
    BY <1>1, FromStringIs DEF Numeral
  <1>3. PICK c : /\ c = to_chars(b) /\ c \in Bytes
                 /\ 3 * Len(c) > LimbDigits * Len(b) /\ HasGroups(c, b)
    BY CharsIs
  <1>4. PICK w \in Nat : w = Len(c)
    BY <1>3, LenProperties DEF Bytes
  <1>5. ASSUME NEW r \in Nat PROVE Place(c, r) = Place(text, r)
    <2>1. PICK u \in 0 .. 255 : u = Place(text, r)
      BY BytePlace
    <2>2. ASSUME NEW q \in Nat, q < 3 PROVE Digit(u, q) = LimbPlace(b, (3 * r) + q)
      <3>1. ((3 * r) + q) \div 3 = r /\ ((3 * r) + q) % 3 = q /\ (3 * r) + q \in Nat
        BY <2>2
      <3>2. LimbPlace(a, (3 * r) + q) = Digit(u, q)
        BY <1>1, <1>2, <2>1, <3>1
      <3> QED
        BY <1>2, <3>1, <3>2, EqualPlaces
    <2>3. u \in Nat /\ u < Ten[3] /\ u % 256 = u
      BY Thousand
    <2>4. CASE r < w
      BY <1>3, <1>4, <2>1, <2>2, <2>3, <2>4 DEF HasGroups
    <2>5. CASE ~(r < w)
      <3>1. ASSUME NEW q \in Nat, q < 3 PROVE Digit(u, q) = 0
        <4>1. PICK e \in Nat : e = LimbDigits * Len(b)
          <5>1. LimbDigits \in Nat /\ Len(b) \in Nat
            BY LimbSize, LenProperties
          <5> QED
            BY <5>1
        <4>2. (3 * r) + q >= e /\ (3 * r) + q \in Nat
          BY <1>3, <1>4, <2>5, <4>1
        <4>3. LimbPlace(b, (3 * r) + q) = 0
          BY <4>1, <4>2, NoPlace
        <4> QED
          BY <2>2, <3>1, <4>3
      <3>2. \A p \in Nat : p < 3 => Digit(u, p) = Digit(0, p)
        BY <3>1, ZeroDigits
      <3>3. 0 < Ten[3]
        BY Thousand
      <3>4. u = 0
        BY <2>3, <3>2, <3>3, SameDigits
      <3>5. Place(c, r) = 0
        BY <1>4, <2>5 DEF Place
      <3> QED
        BY <2>1, <3>4, <3>5
    <2> QED
      BY <2>4, <2>5
  <1>6. \A p \in 0 .. Len(c) + Len(text) : FromRight(c, p) = FromRight(text, p)
    <2>1. Len(c) \in Nat /\ Len(text) \in Nat
      BY <1>3, LenProperties DEF Bytes
    <2>2. \A p \in 0 .. Len(c) + Len(text) : p \in Nat
      BY <2>1
    <2> QED
      BY <1>5, <2>2, RightPlace
  <1> QED
    BY <1>3, <1>6 DEF SameText

\* A text and the number that is made of it.
LEMMA NumeralIs ==
  ASSUME TextAssumption, NEW text \in Bytes
  PROVE  Numeral(text) \in Seq(Limb) /\ Value(Numeral(text)) \in Nat
  <1>1. Numeral(text) \in Seq(Limb)
    BY NumericIs, FromStringIs DEF Numeral
  <1> QED
    BY <1>1, ValueLow, Digits

LEMMA NoNumeral ==
  ASSUME TextAssumption
  PROVE  <<>> \in Bytes /\ Value(Numeral(<<>>)) = 0
  <1>1. <<>> \in Bytes /\ Len(<<>>) = 0
    BY DEF Bytes
  <1>2. to_numeric(<<>>) \in Decimals /\ Len(to_numeric(<<>>)) = 0
    <2>1. PICK n \in Nat : n = 3 * Len(<<>>) /\ n = 0
      BY <1>1
    <2> QED
      BY <1>1, <2>1, NumericIs
  <1>3. to_numeric(<<>>) = <<>>
    BY <1>2, EmptySeq DEF Decimals
  <1> QED
    BY <1>1, <1>3, NothingRead, Empty DEF Numeral

\* The bound that tells a second part from a missing one.
LEMMA BbigIs ==
  ASSUME TextAssumption
  PROVE  IsNumber(Bbig) /\ Bbig # <<>> /\ Bbig # BZero
  <1>1. PICK s : s = <<1, 0, 0, 0, 0, 0>>
    OBVIOUS
  <1>2. s \in Decimals /\ s # <<>> /\ s[1] = 1
    BY <1>1 DEF Decimals
  <1>3. /\ Bbig = FromString(s) /\ FromString(s) # <<>>
        /\ IsNumber(FromString(s)) /\ Trimmed(FromString(s))
    BY <1>1, <1>2, FirstLimb DEF Bbig
  <1>4. FromString(s) # BZero
    BY <1>3, Zero DEF Trimmed
  <1> QED
    BY <1>3, <1>4

\* What FromString(to_string(.)) makes of a number stands for the same.
LEMMA Reread ==
  ASSUME TextAssumption, NEW a \in Seq(Limb)
  PROVE  LET b == FromString(to_string(a))
         IN b \in Seq(Limb) /\ b # <<>> /\ Value(b) = Value(a)
  <1>1. FromString(to_string(a)) = IF a = <<>> THEN BZero ELSE a
    BY BackAgain
  <1> QED
    BY <1>1, Zero, Empty

\* A text of two, cut where they meet.
LEMMA Halves ==
  ASSUME NEW s \in Bytes, NEW t \in Bytes
  PROVE  /\ s \o t \in Bytes /\ Len(s) \in 0 .. Len(s \o t)
         /\ SubSeq(s \o t, 1, Len(s)) = s
         /\ SubSeq(s \o t, Len(s) + 1, Len(s \o t)) = t
  <1>1. PICK m \in Nat, n \in Nat : m = Len(s) /\ n = Len(t)
    BY LenProperties DEF Bytes
  <1>2. s \o t \in Bytes /\ Len(s \o t) = m + n
    BY <1>1, ConcatProperties DEF Bytes
  <1>3. SubSeq(s \o t, 1, m) = s
    <2>1. CASE m = 0
      <3>1. SubSeq(s \o t, 1, 0) = <<>> /\ s = <<>>
        BY <1>1, <1>2, <2>1, SubSeqEmpty, EmptySeq DEF Bytes
      <3> QED
        BY <2>1, <3>1
    <2>2. CASE m > 0
      <3>1. 1 \in 1 .. m /\ m \in 1 .. m
        BY <2>2
      <3>2. SubSeq(s \o t, 1, m) = SubSeq(s, 1, m)
        BY <1>1, <3>1, SubSeqOfConcat1 DEF Bytes
      <3> QED
        BY <1>1, <3>2, SubSeqFull DEF Bytes
    <2>3. m = 0 \/ m > 0
      OBVIOUS
    <2> QED
      BY <2>1, <2>2, <2>3
  <1>4. SubSeq(s \o t, m + 1, m + n) = t
    <2>1. CASE n = 0
      <3>1. SubSeq(s \o t, m + 1, m + n) = <<>> /\ t = <<>>
        <4>1. m + n < m + 1
          BY <2>1
        <4> QED
          BY <1>1, <1>2, <2>1, <4>1, SubSeqEmpty, EmptySeq DEF Bytes
      <3> QED
        BY <3>1
    <2>2. CASE n > 0
      <3>1. m + 1 \in m + 1 .. m + n /\ m + n \in m + 1 .. m + n
        BY <2>2
      <3>2. SubSeq(s \o t, m + 1, m + n) = SubSeq(t, (m + 1) - m, (m + n) - m)
        BY <1>1, <3>1, SubSeqOfConcat2 DEF Bytes
      <3>3. (m + 1) - m = 1 /\ (m + n) - m = n
        OBVIOUS
      <3> QED
        BY <1>1, <3>2, <3>3, SubSeqFull DEF Bytes
    <2>3. n = 0 \/ n > 0
      OBVIOUS
    <2> QED
      BY <2>1, <2>2, <2>3
  <1>5. m \in 0 .. m + n
    OBVIOUS
  <1> QED
    BY <1>1, <1>2, <1>3, <1>4, <1>5

\* What d prints for two numbers is text,
LEMMA PrintedIs ==
  ASSUME TextAssumption, NEW a \in Seq(Limb), NEW b \in Seq(Limb)
  PROVE  /\ to_chars(FromString(to_string(a))) \in Bytes
         /\ to_chars(FromString(to_string(a)))
              \o (IF Less(Bbig, b) THEN to_chars(FromString(to_string(b))) ELSE <<>>) \in Bytes
  <1>1. to_chars(FromString(to_string(a))) \in Bytes
        /\ to_chars(FromString(to_string(b))) \in Bytes
    BY Reread, CharsIs
  <1>2. <<>> \in Bytes
    BY NoNumeral
  <1> QED
    BY <1>1, <1>2, ConcatProperties DEF Bytes

\* and the line, if they are the numbers of its parts and the second part is
\* none or is above Bbig.
LEMMA LineBack ==
  ASSUME TextAssumption, NEW first \in Bytes, NEW second \in Bytes,
         NEW a, IsNumber(a), Value(a) = Value(Numeral(first)),
         NEW b, IsNumber(b), Value(b) = Value(Numeral(second)),
         Less(Bbig, Purge(Numeral(second))) \/ second = <<>>,
         NEW out, out = to_chars(FromString(to_string(a)))
                          \o IF Less(Bbig, b) THEN to_chars(FromString(to_string(b)))
                                              ELSE <<>>
  PROVE  \E m \in 0 .. Len(out) : /\ SameText(SubSeq(out, 1, m), first)
                                  /\ SameText(SubSeq(out, m + 1, Len(out)), second)
  <1>1. a \in Seq(Limb) /\ b \in Seq(Limb)
    BY DEF IsNumber
  <1>2. PICK s : /\ s = to_chars(FromString(to_string(a))) /\ s \in Bytes
                 /\ SameText(s, first)
    <2>1. PICK c : /\ c = FromString(to_string(a)) /\ c \in Seq(Limb) /\ c # <<>>
                   /\ Value(c) = Value(Numeral(first))
      BY <1>1, Reread
    <2> QED
      BY <2>1, CharsBack
  <1>3. Less(Bbig, b) <=> Value(Bbig) < Value(b)
    BY BbigIs, LessNumber
  <1>4. PICK t : /\ t = IF Less(Bbig, b) THEN to_chars(FromString(to_string(b))) ELSE <<>>
                 /\ t \in Bytes /\ SameText(t, second)
    <2>1. CASE Less(Bbig, b)
      <3>1. PICK c : /\ c = FromString(to_string(b)) /\ c \in Seq(Limb) /\ c # <<>>
                     /\ Value(c) = Value(Numeral(second))
        BY <1>1, Reread
      <3> QED
        BY <2>1, <3>1, CharsBack
    <2>2. CASE ~Less(Bbig, b)
      <3>1. second = <<>>
        <4> SUFFICES ASSUME Less(Bbig, Purge(Numeral(second))) PROVE FALSE
          OBVIOUS
        <4>1. PICK c : /\ c = Purge(Numeral(second)) /\ IsNumber(c)
                       /\ Value(c) = Value(Numeral(second))
          <5>1. Numeral(second) \in Seq(Limb)
            BY NumeralIs
          <5> QED
            BY <5>1, PurgeRight DEF IsNumber
        <4>2. Value(Bbig) < Value(c)
          BY <4>1, BbigIs, LessNumber
        <4> QED
          BY <1>3, <2>2, <4>1, <4>2
      <3>2. SameText(<<>>, <<>>)
        BY DEF SameText
      <3> QED
        BY <2>2, <3>1, <3>2, NoNumeral
    <2> QED
      BY <2>1, <2>2
  <1>5. out = s \o t
    BY <1>2, <1>4
  <1>6. /\ Len(s) \in 0 .. Len(out) /\ SubSeq(out, 1, Len(s)) = s
        /\ SubSeq(out, Len(s) + 1, Len(out)) = t
    <2>1. /\ Len(s) \in 0 .. Len(s \o t) /\ SubSeq(s \o t, 1, Len(s)) = s
          /\ SubSeq(s \o t, Len(s) + 1, Len(s \o t)) = t
      BY <1>2, <1>4, Halves
    <2> QED
      BY <1>5, <2>1
  <1> QED
    BY <1>2, <1>4, <1>6

\* The parts of a line, and where e cuts it.
Long(line) == Len(line) * 3 > Len(num1)
CutFirst(line) == SubSeq(line, 1, IF Long(line) THEN Part ELSE Len(line))
CutSecond(line) ==
  SubSeq(line, Part + 1, IF Len(line) < 2 * Part THEN Len(line) ELSE 2 * Part)

LEMMA PartsAre ==
  ASSUME TextAssumption, ToolAssumption, NEW line \in Bytes
  PROVE  /\ FirstPart(line) \in Bytes /\ SecondPart(line) \in Bytes
         /\ CutFirst(line) = FirstPart(line)
         /\ Long(line) => CutSecond(line) \in Bytes
         /\ Long(line) /\ Len(line) <= 2 * Part => CutSecond(line) = SecondPart(line)
         /\ ~Long(line) => SecondPart(line) = <<>>
  <1>1. PICK n \in Nat, l \in Nat, h \in Nat :
          /\ n = Len(num1) /\ l = Len(line) /\ h = Part /\ h = n \div 3
          /\ DOMAIN line = 1 .. l /\ \A i \in 1 .. l : line[i] \in 0 .. 255
    <2>1. Len(num1) \in Nat /\ Part \in Nat /\ Part = Len(num1) \div 3
      BY KeyAssumed DEF Part
    <2>2. Len(line) \in Nat /\ DOMAIN line = 1 .. Len(line)
          /\ \A i \in 1 .. Len(line) : line[i] \in 0 .. 255
      BY LenProperties, ElementOfSeq DEF Bytes
    <2> QED
      BY <2>1, <2>2
  <1>2. SubSeq(line, 1, l) = line
    BY <1>1, SubSeqFull DEF Bytes
  <1>3. ASSUME Long(line) PROVE h < l
    <2>1. l * 3 > n
      BY <1>1, <1>3 DEF Long
    <2> QED
      BY <1>1, <2>1
  <1>4. ASSUME NEW u \in Nat, NEW v \in Nat, 1 <= u, v <= l PROVE SubSeq(line, u, v) \in Bytes
    <2>0. \A i \in u .. v : i \in 1 .. l
      BY <1>4
    <2>1. \A i \in u .. v : line[i] \in 0 .. 255
      BY <1>1, <2>0
    <2> QED
      BY <1>4, <2>1, SubSeqProperties DEF Bytes
  <1>5. CASE Long(line)
    <2>1. SubSeq(line, 1, h) \in Bytes /\ SubSeq(line, h + 1, l) \in Bytes
      BY <1>3, <1>4, <1>5
    <2>2. CASE l < 2 * h
      <3>1. CutSecond(line) = SubSeq(line, h + 1, l)
        BY <1>1, <2>2 DEF CutSecond
      <3> QED
        BY <1>1, <1>5, <2>1, <3>1 DEF FirstPart, SecondPart, CutFirst, Long
    <2>3. CASE ~(l < 2 * h)
      <3>1. CutSecond(line) = SubSeq(line, h + 1, 2 * h)
        BY <1>1, <2>3 DEF CutSecond
      <3>2. SubSeq(line, h + 1, 2 * h) \in Bytes
        BY <1>4, <2>3
      <3>3. l <= 2 * h => 2 * h = l
        BY <2>3
      <3> QED
        BY <1>1, <1>5, <2>1, <3>1, <3>2, <3>3 DEF FirstPart, SecondPart, CutFirst, Long
    <2> QED
      BY <2>2, <2>3
  <1>6. CASE ~Long(line)
    BY <1>1, <1>2, <1>6, NoNumeral DEF FirstPart, SecondPart, CutFirst, Long
  <1> QED
    BY <1>5, <1>6

\* What e prints for two numbers is decimal strings for them.
LEMMA CipherPrinted ==
  ASSUME TextAssumption, NEW a \in Seq(Limb)
  PROVE  LET s == to_string(FromString(to_string(a)))
         IN s \in Decimals /\ s \in Bytes /\ Value(FromString(s)) = Value(a)
  <1>1. PICK s : s = to_string(FromString(to_string(a)))
    OBVIOUS
  <1>2. s \in Decimals /\ FromString(s) = IF a = <<>> THEN BZero ELSE a
    BY <1>1, Written
  <1>3. Value(FromString(s)) = Value(a)
    BY <1>2, Zero, Empty
  <1> QED
    BY <1>1, <1>2, <1>3, DecimalIs

\* decrypt, of what the public exponent makes of a number below the modulus:
\* what it does not compute with is zero, and so is the number.
LEMMA DecryptBegins ==
  ASSUME TextAssumption, ToolAssumption, NEW c \in Seq(Limb)
  PROVE  /\ Decrypt(c, FromString(num3)) \in ExpParts
         /\ \A v \in 0 .. KeyValue - 1 :
              KeyWorks /\ Value(c) = Enciphered(v) /\ (c = BZero \/ ~Refused(c))
                => Computes(Decrypt(c, FromString(num3)), v)
  <1>1. PICK d : d = FromString(num3) /\ d \in Seq(Limb)
    BY KeyAssumed
  <1>2. Expmod(c, d) \in ExpParts
        /\ Computes(Expmod(c, d), PowersOf(Value(c), KeyValue)[Value(d)])
    BY <1>1, JobBegins
  <1>3. Decrypt(c, d) \in ExpParts
    BY <1>2, NothingComputes DEF Decrypt
  <1>4. ASSUME NEW v \in 0 .. KeyValue - 1, KeyWorks, Value(c) = Enciphered(v),
               c = BZero \/ ~Refused(c)
        PROVE  Computes(Decrypt(c, d), v)
    <2>1. Deciphered(Enciphered(v)) = v
      BY <1>4 DEF KeyWorks
    <2>2. CASE ~Refused(c)
      BY <1>1, <1>2, <1>4, <2>1, <2>2 DEF Decrypt, Deciphered
    <2>3. CASE Refused(c)
      <3>1. PICK m \in Nat, k \in Nat : m = KeyValue /\ m > 1 /\ k = Value(d)
        BY <1>1, KeyAssumed
      <3>2. PICK p : p = PowersOf(0, m) /\ ArePowers(p, 0, m)
        BY <3>1, PowersOfAre
      <3>3. \A u : Deciphered(u) = PowersOf(u, m)[k]
        BY <1>1, <3>1 DEF Deciphered
      <3>4. v = p[k]
        <4>1. Value(c) = 0
          BY <1>4, <2>3, Zero
        <4> QED
          BY <1>4, <2>1, <3>2, <3>3, <4>1
      <3>5. CASE k = 0
        <4>1. 0 \in 0 .. KeyValue - 1
          BY <3>1
        <4>2. Enciphered(0) \in Nat
          <5>1. PICK e \in Nat : e = Value(FromString(num2))
            BY KeyAssumed
          <5> QED
            BY <3>1, <5>1, PowerBelow DEF Enciphered
        <4>3. Deciphered(Enciphered(0)) = 1
          <5>1. PICK u \in Nat : u = Enciphered(0)
            BY <4>2
          <5>2. PowersOf(u, m)[0] = 1
            BY <3>1, <5>1, PowersOfAre DEF ArePowers
          <5> QED
            BY <3>3, <3>5, <5>1, <5>2
        <4> QED
          BY <1>4, <4>1, <4>3 DEF KeyWorks
      <3>6. CASE k # 0
        <4>1. PICK h \in Nat : k = h + 1
          <5>1. k - 1 \in Nat /\ k = (k - 1) + 1
            BY <3>6
          <5> QED
            BY <5>1
        <4>2. PICK w \in Nat : w = p[h]
          BY <3>2, <4>1 DEF ArePowers
        <4>3. p[k] = (w * 0) % m
          BY <3>2, <4>1, <4>2 DEF ArePowers
        <4>4. (w * 0) % m = 0
          BY <3>1
        <4>5. v = 0
          BY <3>4, <4>3, <4>4
        <4> QED
          BY <1>1, <2>3, <4>5, NothingComputes DEF Decrypt
      <3> QED
        BY <3>5, <3>6
    <2> QED
      BY <2>2, <2>3
  <1> QED
    BY <1>1, <1>3, <1>4

\* BelowKey.
LEMMA BelowKeyIs ==
  ASSUME TextAssumption, ToolAssumption, NEW text \in Bytes, BelowKey(text)
  PROVE  Value(Numeral(text)) \in 0 .. KeyValue - 1
  <1>1. PICK a : a = Numeral(text) /\ a \in Seq(Limb)
    BY NumeralIs
  <1>2. PICK n : /\ n = FromString(num1) /\ n \in Seq(Limb) /\ IsNumber(n)
                 /\ n # <<>> /\ n # BZero /\ Value(n) = KeyValue
    BY KeyAssumed DEF KeyValue
  <1>3. Less(a, n)
    BY <1>1, <1>2 DEF BelowKey
  <1>4. PICK i \in Nat, j \in Nat : i = Len(a) /\ j = Len(n) /\ i <= j
    <2>1. Len(a) \in Nat /\ Len(n) \in Nat
      BY <1>1, <1>2, LenProperties
    <2> QED
      BY <1>3, <2>1, LessLimbs
  <1>5. At(n, Len(n)) # 0
    BY <1>2 DEF IsNumber, Trimmed
  <1>6. Value(a) < Value(n) /\ Value(a) \in Nat /\ Value(n) \in Nat
    <2>1. ~(j < i)
      BY <1>4
    <2> QED
      BY <1>1, <1>2, <1>3, <1>4, <1>5, <2>1, LessIs
  <1> QED
    BY <1>1, <1>2, <1>6

(* The invariant of the pipe. *)

FirstNumber(line) == Value(Numeral(FirstPart(line)))
SecondNumber(line) == Value(Numeral(SecondPart(line)))

\* Two lines of e's output stand for the two numbers of a line; and the jobs will
\* return two numbers.
CipherOf(line, s, t) == /\ Value(FromString(s)) = Enciphered(FirstNumber(line))
                        /\ Value(FromString(t)) = Enciphered(SecondNumber(line))
Compute2(u, v) == Computes(jobs[1], u) /\ Computes(jobs[2], v)

\* Lines that LinesSurvive makes no exception for, first in e and then in d too.
Kept(k) == Len(input[k]) <= 2 * Part /\ k \notin dropped
Readable(k) ==
  BelowKey(FirstPart(input[k])) /\ BelowKey(SecondPart(input[k])) /\ k \notin refused

Busy == IF jobs = <<>> THEN 0 ELSE 1

ToolTypes ==
  /\ prog \in {"e", "d", "over"} /\ input \in Inputs
  /\ unread \in Seq(Bytes) /\ output \in Seq(Bytes) /\ (eof <=> unread = <<>>)
  /\ jobs \in Seq(ExpParts) /\ Len(jobs) \in {0, 2}
  /\ counter \in 3 .. 3 + Len(input)
  /\ refused \subseteq DOMAIN input /\ dropped \subseteq 1 .. Len(input) + 1

\* e has read i lines and printed two for each that it is not busy with.
EncryptPlace ==
  prog = "e" =>
    /\ output \in Seq(Decimals)
    /\ \E i \in Nat : /\ Busy <= i /\ counter <= 3 + i
                      /\ Len(unread) + i = Len(input) /\ Len(output) + 2 * Busy = 2 * i
                      /\ \A q \in DOMAIN unread : unread[q] = input[i + q]

EncryptContent ==
  prog = "e" =>
    \A k \in DOMAIN input :
      Kept(k) =>
        /\ 2 * k <= Len(output) => CipherOf(input[k], output[2 * k - 1], output[2 * k])
        /\ jobs # <<>> /\ 2 * k = Len(output) + 2 =>
             Compute2(Enciphered(FirstNumber(input[k])), Enciphered(SecondNumber(input[k])))

\* d has read r times two lines and printed one for each that it is not busy with.
DecryptPlace ==
  prog = "d" =>
    /\ unread \in Seq(Decimals)
    /\ \E r \in Nat : /\ r = Len(output) + Busy /\ r <= Len(input) + 1
                      /\ r <= Len(input) => Len(unread) + 2 * r = 2 * Len(input) + 1
                      /\ r > Len(input) => unread = <<>>

DecryptContent ==
  prog = "d" =>
    \A k \in DOMAIN input :
      Kept(k) =>
        /\ \A q \in Nat : q > 0 /\ (Len(output) + Busy) + q = k
                            => CipherOf(input[k], unread[2 * q - 1], unread[2 * q])
        /\ jobs # <<>> /\ k = Len(output) + 1 /\ Readable(k) =>
             Compute2(FirstNumber(input[k]), SecondNumber(input[k]))

OverPlace == prog = "over" => jobs = <<>> /\ Len(output) = Len(input) + 1

ToolInv == /\ ToolTypes /\ EncryptPlace /\ EncryptContent /\ DecryptPlace
           /\ DecryptContent /\ OverPlace /\ LinesSurvive

\* The input is lines of bytes, at least one.
LEMMA InputIs ==
  ASSUME ToolAssumption, input \in Inputs
  PROVE  /\ input \in Seq(Bytes) /\ input # <<>> /\ Len(input) \in Nat
         /\ DOMAIN input = 1 .. Len(input) /\ \A k \in DOMAIN input : input[k] \in Bytes
  <1>1. input \in Seq(Bytes) /\ input # <<>>
    BY DEF ToolAssumption, Bytes
  <1>2. Len(input) \in Nat /\ DOMAIN input = 1 .. Len(input)
    BY <1>1, LenProperties
  <1> QED
    BY <1>1, <1>2, ElementOfSeq

\* The two jobs of a line.
LEMMA JobsAre ==
  ASSUME NEW c \in ExpParts, NEW d \in ExpParts
  PROVE  /\ <<c, d>> \in Seq(ExpParts) /\ Len(<<c, d>>) = 2 /\ <<c, d>> # <<>>
         /\ <<c, d>>[1] = c /\ <<c, d>>[2] = d
  <1>1. <<c, d>> \in Seq(ExpParts) /\ Len(<<c, d>>) = 2
    OBVIOUS
  <1>2. <<c, d>> # <<>>
    BY <1>1, EmptySeq
  <1> QED
    BY <1>1, <1>2

LEMMA BusyIs ==
  ASSUME jobs \in Seq(ExpParts), Len(jobs) \in {0, 2}
  PROVE  /\ jobs = <<>> \/ (/\ jobs # <<>> /\ Len(jobs) = 2 /\ DOMAIN jobs = {1, 2}
                            /\ jobs[1] \in ExpParts /\ jobs[2] \in ExpParts)
         /\ Busy \in {0, 1}
  <1>1. jobs # <<>> => Len(jobs) = 2 /\ 1 \in 1 .. Len(jobs) /\ 2 \in 1 .. Len(jobs)
    BY EmptySeq
  <1>2. jobs # <<>> => jobs[1] \in ExpParts /\ jobs[2] \in ExpParts
    BY <1>1, ElementOfSeq
  <1>3. jobs # <<>> => DOMAIN jobs = {1, 2}
    <2>1. DOMAIN jobs = 1 .. Len(jobs)
      BY LenProperties
    <2>2. 1 .. 2 = {1, 2}
      OBVIOUS
    <2> QED
      BY <1>1, <2>1, <2>2
  <1> QED
    BY <1>1, <1>2, <1>3 DEF Busy

\* At the start.
LEMMA ToolBegins ==
  ASSUME TextAssumption, ToolAssumption, ToolInit
  PROVE  ToolInv
  <1>1. /\ prog = "e" /\ input \in Inputs /\ unread = input /\ eof = FALSE
        /\ counter = 3 /\ jobs = <<>> /\ output = <<>> /\ refused = {} /\ dropped = {}
    BY DEF ToolInit
  <1>2. /\ input \in Seq(Bytes) /\ input # <<>> /\ Len(input) \in Nat
        /\ DOMAIN input = 1 .. Len(input)
    BY <1>1, InputIs
  <1>3. ToolTypes
    <2>1. jobs \in Seq(ExpParts) /\ Len(jobs) = 0 /\ output \in Seq(Bytes)
      BY <1>1
    <2>2. counter \in 3 .. 3 + Len(input)
      BY <1>1, <1>2
    <2> QED
      BY <1>1, <1>2, <2>1, <2>2 DEF ToolTypes
  <1>4. EncryptPlace
    <2>1. output \in Seq(Decimals) /\ Len(output) = 0 /\ Busy = 0
      BY <1>1 DEF Busy
    <2>2. /\ Busy <= 0 /\ counter <= 3 + 0 /\ Len(unread) + 0 = Len(input)
          /\ Len(output) + 2 * Busy = 2 * 0
          /\ \A q \in DOMAIN unread : unread[q] = input[0 + q]
      BY <1>1, <1>2, <2>1
    <2> QED
      BY <2>1, <2>2 DEF EncryptPlace
  <1>5. EncryptContent
    <2> SUFFICES ASSUME NEW k \in DOMAIN input PROVE ~(2 * k <= Len(output))
      BY <1>1 DEF EncryptContent
    <2>1. Len(output) = 0
      BY <1>1
    <2>2. k \in Nat /\ k > 0
      BY <1>2
    <2> QED
      BY <2>1, <2>2
  <1>6. DecryptPlace /\ DecryptContent /\ OverPlace /\ LinesSurvive
    BY <1>1 DEF DecryptPlace, DecryptContent, OverPlace, LinesSurvive
  <1> QED
    BY <1>3, <1>4, <1>5, <1>6 DEF ToolInv

\* A line is read and its two expmods begin,
LEMMA EncryptLineStep ==
  ASSUME TextAssumption, ToolAssumption, ToolInv, EncryptLine
  PROVE  ToolInv'
  <1>1. PICK line : /\ prog = "e" /\ jobs = <<>> /\ ~eof /\ line = Head(unread)
                    /\ unread' = Tail(unread) /\ eof' = (Len(unread) = 1)
                    /\ counter' = IF Long(line) THEN counter ELSE counter + 1
                    /\ jobs' = <<Expmod(FromString(to_numeric(CutFirst(line))),
                                        FromString(num2)),
                                 Expmod(IF Long(line)
                                        THEN FromString(to_numeric(CutSecond(line)))
                                        ELSE [k \in 1 .. counter' |-> 0],
                                        FromString(num2))>>
                    /\ prog' = prog /\ input' = input /\ output' = output
                    /\ refused' = refused /\ dropped' = dropped
    BY DEF EncryptLine, Long, CutFirst, CutSecond
  <1>2. ToolTypes /\ EncryptPlace /\ EncryptContent
    BY DEF ToolInv
  <1>3. /\ input \in Inputs /\ input \in Seq(Bytes) /\ DOMAIN input = 1 .. Len(input)
        /\ Len(input) \in Nat /\ \A k \in DOMAIN input : input[k] \in Bytes
    BY <1>2, InputIs DEF ToolTypes
  <1>4. PICK i \in Nat : /\ counter <= 3 + i /\ Len(unread) + i = Len(input)
                         /\ Len(output) + 0 = 2 * i
                         /\ \A q \in DOMAIN unread : unread[q] = input[i + q]
    BY <1>1, <1>2 DEF EncryptPlace, Busy
  <1>5. PICK n \in Nat, l \in Nat : n = Len(input) /\ l = Len(unread) /\ l > 0 /\ l + i = n
                                    /\ DOMAIN unread = 1 .. l
    <2>1. unread \in Seq(Bytes) /\ unread # <<>>
      BY <1>1, <1>2 DEF ToolTypes
    <2>2. Len(unread) \in Nat /\ DOMAIN unread = 1 .. Len(unread) /\ Len(unread) # 0
      BY <2>1, LenProperties, EmptySeq
    <2> QED
      BY <1>3, <1>4, <2>2
  <1>6. i + 1 \in DOMAIN input /\ line = input[i + 1] /\ line \in Bytes
    <2>1. i + 1 \in 1 .. n /\ 1 \in 1 .. l
      BY <1>5
    <2>2. line = unread[1]
      BY <1>1, <1>2, <1>5, HeadTailProperties, EmptySeq DEF ToolTypes
    <2> QED
      BY <1>3, <1>4, <1>5, <2>1, <2>2
  <1>7. /\ unread' \in Seq(Bytes) /\ Len(unread') = l - 1
        /\ \A q \in DOMAIN unread' : unread'[q] = input[(i + 1) + q]
        /\ (eof' <=> unread' = <<>>)
    <2>1. unread \in Seq(Bytes) /\ unread # <<>>
      BY <1>1, <1>2 DEF ToolTypes
    <2>2. /\ unread' \in Seq(Bytes) /\ Len(unread') = l - 1
          /\ \A q \in 1 .. l - 1 : unread'[q] = unread[q + 1]
      BY <1>1, <1>5, <2>1, HeadTailProperties
    <2>3. DOMAIN unread' = 1 .. l - 1
      BY <2>2, LenProperties
    <2>4. ASSUME NEW q \in 1 .. l - 1 PROVE unread'[q] = input[(i + 1) + q]
      <3>1. q + 1 \in 1 .. l /\ i + (q + 1) = (i + 1) + q
        BY <1>5
      <3> QED
        BY <1>4, <1>5, <2>2, <3>1
    <2>5. unread' = <<>> <=> l = 1
      <3>1. l - 1 = 0 <=> l = 1
        BY <1>5
      <3> QED
        BY <2>2, <3>1, EmptySeq
    <2> QED
      BY <1>1, <1>5, <2>2, <2>3, <2>4, <2>5
  <1>8. counter' \in Nat /\ counter' \in 3 .. 3 + n /\ counter' <= 3 + (i + 1)
    <2>1. counter \in Nat /\ counter >= 3
      BY <1>2, <1>5 DEF ToolTypes
    <2>2. counter' = counter \/ counter' = counter + 1
      BY <1>1
    <2> QED
      BY <1>4, <1>5, <2>1, <2>2
  <1>9. PICK a \in Seq(Limb), b \in Seq(Limb), e \in Seq(Limb) :
          /\ e = FromString(num2) /\ jobs' = <<Expmod(a, e), Expmod(b, e)>>
          /\ a = Numeral(FirstPart(line))
          /\ Len(line) <= 2 * Part => Value(b) = SecondNumber(line)
    <2>1. /\ CutFirst(line) = FirstPart(line) /\ FirstPart(line) \in Bytes
          /\ Long(line) => CutSecond(line) \in Bytes
          /\ Long(line) /\ Len(line) <= 2 * Part => CutSecond(line) = SecondPart(line)
          /\ ~Long(line) => SecondPart(line) = <<>>
      BY <1>6, PartsAre
    <2>2. PICK a : /\ a = FromString(to_numeric(CutFirst(line))) /\ a \in Seq(Limb)
                   /\ a = Numeral(FirstPart(line))
      BY <2>1, NumeralIs DEF Numeral
    <2>3. PICK b : b = IF Long(line) THEN FromString(to_numeric(CutSecond(line)))
                                     ELSE [k \in 1 .. counter' |-> 0]
      OBVIOUS
    <2>4. b \in Seq(Limb) /\ (Len(line) <= 2 * Part => Value(b) = SecondNumber(line))
      <3>1. CASE Long(line)
        BY <2>1, <2>3, <3>1, NumeralIs DEF Numeral, SecondNumber
      <3>2. CASE ~Long(line)
        <4>1. b \in Seq(Limb) /\ Value(b) = 0
          BY <1>8, <2>3, <3>2, ZerosAre
        <4> QED
          BY <2>1, <3>2, <4>1, NoNumeral DEF SecondNumber
      <3> QED
        BY <3>1, <3>2
    <2>5. FromString(num2) \in Seq(Limb)
      BY KeyAssumed
    <2> QED
      BY <1>1, <2>2, <2>3, <2>4, <2>5
  <1>10. /\ Expmod(a, e) \in ExpParts /\ Expmod(b, e) \in ExpParts
         /\ Computes(Expmod(a, e), Enciphered(Value(a)))
         /\ Computes(Expmod(b, e), Enciphered(Value(b)))
    BY <1>9, JobBegins DEF Enciphered
  <1>11. /\ jobs' \in Seq(ExpParts) /\ Len(jobs') = 2 /\ jobs' # <<>>
         /\ jobs'[1] = Expmod(a, e) /\ jobs'[2] = Expmod(b, e) /\ Busy' = 1
    BY <1>9, <1>10, JobsAre DEF Busy
  <1>12. ToolTypes'
    BY <1>1, <1>2, <1>3, <1>5, <1>7, <1>8, <1>11 DEF ToolTypes
  <1>13. EncryptPlace'
    <2>1. output \in Seq(Decimals)
      BY <1>1, <1>2 DEF EncryptPlace
    <2>2. /\ i + 1 \in Nat /\ 1 <= i + 1 /\ (l - 1) + (i + 1) = n
          /\ Len(output) + 2 * 1 = 2 * (i + 1)
      <3>1. PICK o \in Nat : o = Len(output)
        BY <2>1, LenProperties
      <3>2. o = 2 * i
        <4>1. o + 0 = 2 * i
          BY <1>4, <3>1
        <4> QED
          BY <4>1
      <3>3. o + 2 * 1 = 2 * (i + 1)
        BY <3>2
      <3>4. (l - 1) + (i + 1) = n
        BY <1>5
      <3> QED
        BY <3>1, <3>3, <3>4
    <2>3. /\ Busy' <= i + 1 /\ counter' <= 3 + (i + 1) /\ Len(unread') + (i + 1) = Len(input')
          /\ Len(output') + 2 * Busy' = 2 * (i + 1)
          /\ \A q \in DOMAIN unread' : unread'[q] = input'[(i + 1) + q]
      BY <1>1, <1>5, <1>7, <1>8, <1>11, <2>2
    <2> QED
      BY <1>1, <2>1, <2>2, <2>3 DEF EncryptPlace
  <1>14. EncryptContent'
    <2> SUFFICES ASSUME NEW k \in DOMAIN input, Kept(k)
                 PROVE  /\ 2 * k <= Len(output) =>
                             CipherOf(input[k], output[2 * k - 1], output[2 * k])
                        /\ 2 * k = Len(output) + 2 =>
                             /\ Computes(jobs'[1], Enciphered(FirstNumber(input[k])))
                             /\ Computes(jobs'[2], Enciphered(SecondNumber(input[k])))
      BY <1>1 DEF EncryptContent, Kept, Compute2
    <2>1. 2 * k <= Len(output) => CipherOf(input[k], output[2 * k - 1], output[2 * k])
      BY <1>1, <1>2 DEF EncryptContent
    <2>2. ASSUME 2 * k = Len(output) + 2
          PROVE  /\ Computes(jobs'[1], Enciphered(FirstNumber(input[k])))
                 /\ Computes(jobs'[2], Enciphered(SecondNumber(input[k])))
      <3>1. k = i + 1
        BY <1>3, <1>4, <2>2
      <3>2. input[k] = line /\ Len(line) <= 2 * Part
        BY <1>6, <3>1 DEF Kept
      <3> QED
        BY <1>9, <1>10, <1>11, <3>2 DEF FirstNumber
    <2> QED
      BY <2>1, <2>2
  <1>15. DecryptPlace' /\ DecryptContent' /\ OverPlace' /\ LinesSurvive'
    BY <1>1 DEF DecryptPlace, DecryptContent, OverPlace, LinesSurvive
  <1> QED
    BY <1>12, <1>13, <1>14, <1>15 DEF ToolInv

LEMMA JobSet ==
  ASSUME NEW s \in Seq(ExpParts), Len(s) = 2, NEW j \in {1, 2}, NEW d \in ExpParts,
         NEW t, t = [s EXCEPT ![j] = d]
  PROVE  /\ t \in Seq(ExpParts) /\ Len(t) = 2 /\ t # <<>>
         /\ t[1] = IF j = 1 THEN d ELSE s[1]
         /\ t[2] = IF j = 2 THEN d ELSE s[2]
  <1>1. j \in 1 .. Len(s) /\ 1 \in 1 .. Len(s) /\ 2 \in 1 .. Len(s)
    OBVIOUS
  <1>2. [s EXCEPT ![j] = d] \in Seq(ExpParts) /\ Len([s EXCEPT ![j] = d]) = Len(s)
    BY <1>1, ExceptSeq
  <1>3. \A h \in 1 .. Len(s) : [s EXCEPT ![j] = d][h] = IF h = j THEN d ELSE s[h]
    BY <1>1, ExceptSeq
  <1>4. t # <<>>
    BY <1>1, <1>2, EmptySeq
  <1> QED
    BY <1>1, <1>2, <1>3, <1>4

\* one of them makes a turn,
LEMMA TurnKeeps ==
  ASSUME TextAssumption, ToolAssumption, ToolInv, ToolTurn
  PROVE  /\ jobs # <<>> /\ jobs' \in Seq(ExpParts) /\ Len(jobs') = 2 /\ jobs' # <<>>
         /\ dropped \subseteq dropped' /\ dropped' \subseteq dropped \cup {Current}
         /\ \A u, v : Current \notin dropped' /\ Compute2(u, v)
                        => Computes(jobs'[1], u) /\ Computes(jobs'[2], v)
  <1>1. PICK j \in DOMAIN jobs :
          /\ Running(jobs[j]) /\ jobs' = [jobs EXCEPT ![j] = ExpTurn(@, FromString(num1))]
          /\ dropped' = IF Drops(jobs[j], FromString(num1)) THEN dropped \cup {Current}
                        ELSE dropped
    BY DEF ToolTurn
  <1>2. jobs \in Seq(ExpParts) /\ Len(jobs) \in {0, 2}
    BY DEF ToolInv, ToolTypes
  <1>3. jobs # <<>>
    BY <1>1
  <1>4. /\ Len(jobs) = 2 /\ DOMAIN jobs = {1, 2}
        /\ jobs[1] \in ExpParts /\ jobs[2] \in ExpParts
    BY <1>2, <1>3, BusyIs
  <1>5. PICK d : d = ExpTurn(jobs[j], FromString(num1)) /\ d \in ExpParts
    BY <1>1, <1>4, JobTypes
  <1>6. /\ jobs' \in Seq(ExpParts) /\ Len(jobs') = 2 /\ jobs' # <<>>
        /\ jobs'[1] = IF j = 1 THEN d ELSE jobs[1]
        /\ jobs'[2] = IF j = 2 THEN d ELSE jobs[2]
    <2>1. j \in {1, 2} /\ jobs' = [jobs EXCEPT ![j] = d]
      BY <1>1, <1>4, <1>5
    <2> QED
      BY <1>2, <1>4, <1>5, <2>1, JobSet
  <1>7. ASSUME NEW u, NEW v, Current \notin dropped', Compute2(u, v)
        PROVE  Computes(jobs'[1], u) /\ Computes(jobs'[2], v)
    <2>1. ~Drops(jobs[j], FromString(num1))
      BY <1>1, <1>7
    <2>2. Computes(jobs[1], u) /\ Computes(jobs[2], v)
      BY <1>7 DEF Compute2
    <2>3. CASE j = 1
      <3>1. Computes(d, u)
        BY <1>1, <1>4, <1>5, <2>1, <2>2, <2>3, JobTurn
      <3> QED
        BY <1>6, <2>2, <2>3, <3>1
    <2>4. CASE j = 2
      <3>1. Computes(d, v)
        BY <1>1, <1>4, <1>5, <2>1, <2>2, <2>4, JobTurn
      <3> QED
        BY <1>6, <2>2, <2>4, <3>1
    <2> QED
      BY <1>4, <2>3, <2>4
  <1> QED
    BY <1>1, <1>3, <1>6, <1>7

\* A line that was printed stays so.
LEMMA SurviveKeeps ==
  ASSUME LinesSurvive, input' = input, output' = output, prog \in {"d", "over"},
         refused \subseteq refused', dropped \subseteq dropped'
  PROVE  LinesSurvive'
  <1> SUFFICES ASSUME NEW k \in DOMAIN output \cap DOMAIN input,
                      NEW first, first = FirstPart(input[k]),
                      NEW second, second = SecondPart(input[k])
               PROVE  \/ Len(input[k]) > 2 * Part
                      \/ ~BelowKey(first) \/ ~BelowKey(second)
                      \/ ~Less(Bbig, Purge(Numeral(second))) /\ second # <<>>
                      \/ k \in refused' \cup dropped'
                      \/ \E m \in 0 .. Len(output[k]) :
                           /\ SameText(SubSeq(output[k], 1, m), first)
                           /\ SameText(SubSeq(output[k], m + 1, Len(output[k])), second)
    BY DEF LinesSurvive
  <1> QED
    BY DEF LinesSurvive

LEMMA ToolTurnStep ==
  ASSUME TextAssumption, ToolAssumption, ToolInv, ToolTurn
  PROVE  ToolInv'
  <1>1. /\ prog' = prog /\ input' = input /\ unread' = unread /\ eof' = eof
        /\ counter' = counter /\ output' = output /\ refused' = refused
    BY DEF ToolTurn
  <1>2. /\ jobs # <<>> /\ jobs' \in Seq(ExpParts) /\ Len(jobs') = 2 /\ jobs' # <<>>
        /\ dropped \subseteq dropped' /\ dropped' \subseteq dropped \cup {Current}
        /\ Busy = 1 /\ Busy' = 1
    BY TurnKeeps DEF Busy
  <1>3. /\ ToolTypes /\ EncryptPlace /\ EncryptContent /\ DecryptPlace /\ DecryptContent
        /\ OverPlace /\ LinesSurvive
    BY DEF ToolInv
  <1>4. PICK n \in Nat : n = Len(input) /\ DOMAIN input = 1 .. n
    BY <1>3, InputIs DEF ToolTypes
  <1>5. prog \in {"e", "d"}
    BY <1>2, <1>3 DEF ToolTypes, OverPlace
  <1>6. PICK g \in Nat : g = Len(output)
    BY <1>3, LenProperties DEF ToolTypes
  <1>7. CASE prog = "e"
    <2>1. PICK i \in Nat, l \in Nat : /\ 1 <= i /\ l = Len(unread) /\ l + i = n
                                      /\ g + 2 = 2 * i
      <3>1. PICK i \in Nat : Busy <= i /\ Len(unread) + i = n /\ g + 2 * Busy = 2 * i
        BY <1>3, <1>4, <1>6, <1>7 DEF EncryptPlace
      <3>2. Len(unread) \in Nat
        BY <1>3, LenProperties DEF ToolTypes
      <3> QED
        BY <1>2, <3>1, <3>2
    <2>2. Current = i
      BY <1>4, <1>7, <2>1 DEF Current
    <2>3. ToolTypes'
      <3>1. i \in 1 .. n + 1
        BY <2>1
      <3>2. dropped' \subseteq 1 .. n + 1
        BY <1>2, <1>3, <1>4, <2>2, <3>1 DEF ToolTypes
      <3> QED
        BY <1>1, <1>2, <1>3, <1>4, <3>2 DEF ToolTypes
    <2>4. EncryptPlace'
      BY <1>1, <1>2, <1>3 DEF EncryptPlace
    <2>5. EncryptContent'
      <3> SUFFICES ASSUME NEW k \in DOMAIN input, Len(input[k]) <= 2 * Part, k \notin dropped'
                   PROVE  /\ 2 * k <= Len(output) =>
                               CipherOf(input[k], output[2 * k - 1], output[2 * k])
                          /\ 2 * k = Len(output) + 2 =>
                               /\ Computes(jobs'[1], Enciphered(FirstNumber(input[k])))
                               /\ Computes(jobs'[2], Enciphered(SecondNumber(input[k])))
        BY <1>1 DEF EncryptContent, Kept, Compute2
      <3>1. Kept(k)
        BY <1>2 DEF Kept
      <3>2. 2 * k <= Len(output) => CipherOf(input[k], output[2 * k - 1], output[2 * k])
        BY <1>3, <1>7, <3>1 DEF EncryptContent
      <3>3. ASSUME 2 * k = Len(output) + 2
            PROVE  /\ Computes(jobs'[1], Enciphered(FirstNumber(input[k])))
                   /\ Computes(jobs'[2], Enciphered(SecondNumber(input[k])))
        <4>1. k = i
          BY <1>4, <1>6, <2>1, <3>3
        <4>2. Compute2(Enciphered(FirstNumber(input[k])), Enciphered(SecondNumber(input[k])))
          BY <1>2, <1>3, <1>7, <3>1, <3>3 DEF EncryptContent
        <4> QED
          BY <2>2, <4>1, <4>2, TurnKeeps
      <3> QED
        BY <3>2, <3>3
    <2>6. DecryptPlace' /\ DecryptContent' /\ OverPlace' /\ LinesSurvive'
      BY <1>1, <1>7 DEF DecryptPlace, DecryptContent, OverPlace, LinesSurvive
    <2> QED
      BY <2>3, <2>4, <2>5, <2>6 DEF ToolInv
  <1>8. CASE prog = "d"
    <2>1. g + 1 <= n + 1
      BY <1>2, <1>3, <1>4, <1>6, <1>8 DEF DecryptPlace
    <2>2. Current = g + 1
      BY <1>6, <1>8 DEF Current
    <2>3. ToolTypes'
      <3>1. g + 1 \in 1 .. n + 1
        BY <2>1
      <3>2. dropped' \subseteq 1 .. n + 1
        BY <1>2, <1>3, <1>4, <2>2, <3>1 DEF ToolTypes
      <3> QED
        BY <1>1, <1>2, <1>3, <1>4, <3>2 DEF ToolTypes
    <2>4. DecryptPlace'
      BY <1>1, <1>2, <1>3 DEF DecryptPlace
    <2>5. DecryptContent'
      <3> SUFFICES ASSUME NEW k \in DOMAIN input, Len(input[k]) <= 2 * Part, k \notin dropped'
                   PROVE  /\ \A q \in Nat : q > 0 /\ (Len(output) + 1) + q = k =>
                               CipherOf(input[k], unread[2 * q - 1], unread[2 * q])
                          /\ k = Len(output) + 1 /\ Readable(k) =>
                               /\ Computes(jobs'[1], FirstNumber(input[k]))
                               /\ Computes(jobs'[2], SecondNumber(input[k]))
        BY <1>1, <1>2 DEF DecryptContent, Kept, Readable, Compute2
      <3>1. Kept(k)
        BY <1>2 DEF Kept
      <3>2. \A q \in Nat : q > 0 /\ (Len(output) + 1) + q = k =>
                             CipherOf(input[k], unread[2 * q - 1], unread[2 * q])
        BY <1>2, <1>3, <1>8, <3>1 DEF DecryptContent
      <3>3. ASSUME k = Len(output) + 1, Readable(k)
            PROVE  /\ Computes(jobs'[1], FirstNumber(input[k]))
                   /\ Computes(jobs'[2], SecondNumber(input[k]))
        <4>1. Compute2(FirstNumber(input[k]), SecondNumber(input[k]))
          BY <1>2, <1>3, <1>8, <3>1, <3>3 DEF DecryptContent
        <4> QED
          BY <1>6, <2>2, <3>3, <4>1, TurnKeeps
      <3> QED
        BY <3>2, <3>3
    <2>6. EncryptPlace' /\ EncryptContent' /\ OverPlace'
      BY <1>1, <1>8 DEF EncryptPlace, EncryptContent, OverPlace
    <2>7. LinesSurvive'
      BY <1>1, <1>2, <1>3, <1>8, SurviveKeeps
    <2> QED
      BY <2>3, <2>4, <2>5, <2>6, <2>7 DEF ToolInv
  <1> QED
    BY <1>5, <1>7, <1>8

\* or what was computed is printed, by e
LEMMA PrintCipher ==
  ASSUME TextAssumption, ToolAssumption, ToolInv, PrintLine, prog = "e"
  PROVE  ToolInv'
  <1>1. /\ jobs # <<>> /\ \A j \in DOMAIN jobs : ~Running(jobs[j])
        /\ output' = output \o <<to_string(FromString(to_string(jobs[1].res))),
                                 to_string(FromString(to_string(jobs[2].res)))>>
        /\ jobs' = <<>> /\ prog' = prog /\ input' = input /\ unread' = unread
        /\ eof' = eof /\ counter' = counter /\ refused' = refused /\ dropped' = dropped
    BY DEF PrintLine
  <1>2. ToolTypes /\ EncryptPlace /\ EncryptContent
    BY DEF ToolInv
  <1>3. PICK n \in Nat : n = Len(input) /\ DOMAIN input = 1 .. n
    BY <1>2, InputIs DEF ToolTypes
  <1>4. /\ DOMAIN jobs = {1, 2} /\ jobs[1] \in ExpParts /\ jobs[2] \in ExpParts
        /\ Busy = 1 /\ Busy' = 0
    BY <1>1, <1>2, BusyIs DEF ToolTypes, Busy
  <1>5. jobs[1].res \in Seq(Limb) /\ jobs[2].res \in Seq(Limb)
    BY <1>4 DEF ExpParts
  <1>6. PICK s, t : /\ s = to_string(FromString(to_string(jobs[1].res)))
                    /\ t = to_string(FromString(to_string(jobs[2].res)))
    OBVIOUS
  <1>7. /\ s \in Decimals /\ s \in Bytes /\ Value(FromString(s)) = Value(jobs[1].res)
        /\ t \in Decimals /\ t \in Bytes /\ Value(FromString(t)) = Value(jobs[2].res)
    BY <1>5, <1>6, CipherPrinted
  <1>8. PICK i \in Nat, g \in Nat :
          /\ 1 <= i /\ counter <= 3 + i /\ Len(unread) + i = n /\ g + 2 = 2 * i
          /\ g = Len(output) /\ DOMAIN output = 1 .. g
          /\ \A q \in DOMAIN unread : unread[q] = input[i + q]
    <2>1. Len(output) \in Nat /\ DOMAIN output = 1 .. Len(output)
      BY <1>2, LenProperties DEF ToolTypes
    <2>2. PICK i \in Nat :
            /\ 1 <= i /\ counter <= 3 + i /\ Len(unread) + i = Len(input)
            /\ Len(output) + 2 * 1 = 2 * i
            /\ \A q \in DOMAIN unread : unread[q] = input[i + q]
      BY <1>2, <1>4 DEF EncryptPlace
    <2>3. Len(output) + 2 = 2 * i
      BY <2>1, <2>2
    <2> QED
      BY <1>3, <2>1, <2>2, <2>3
  <1>9. /\ output' \in Seq(Bytes) /\ output' \in Seq(Decimals) /\ Len(output') = g + 2
        /\ \A h \in 1 .. g : output'[h] = output[h]
        /\ output'[g + 1] = s /\ output'[g + 2] = t
    <2>1. /\ output \in Seq(Bytes) /\ output \in Seq(Decimals)
          /\ <<s, t>> \in Seq(Bytes) /\ <<s, t>> \in Seq(Decimals)
          /\ Len(<<s, t>>) = 2 /\ <<s, t>>[1] = s /\ <<s, t>>[2] = t
          /\ output' = output \o <<s, t>>
      BY <1>1, <1>2, <1>6, <1>7 DEF ToolTypes, EncryptPlace
    <2>2. output' \in Seq(Bytes) /\ output' \in Seq(Decimals)
      BY <2>1, ConcatProperties
    <2>3. /\ Len(output') = g + 2
          /\ \A h \in 1 .. g + 2 : output'[h] = IF h <= g THEN output[h] ELSE <<s, t>>[h - g]
      BY <1>8, <2>1, ConcatProperties
    <2>4. /\ g + 1 \in 1 .. g + 2 /\ ~(g + 1 <= g) /\ (g + 1) - g = 1
          /\ g + 2 \in 1 .. g + 2 /\ ~(g + 2 <= g) /\ (g + 2) - g = 2
          /\ \A h \in 1 .. g : h \in 1 .. g + 2 /\ h <= g
      OBVIOUS
    <2> QED
      BY <2>1, <2>2, <2>3, <2>4
  <1>10. ToolTypes'
    <2>1. <<>> \in Seq(ExpParts) /\ Len(<<>>) = 0
      OBVIOUS
    <2> QED
      BY <1>1, <1>2, <1>9, <2>1 DEF ToolTypes
  <1>11. EncryptPlace'
    <2>1. /\ Busy' <= i /\ counter' <= 3 + i /\ Len(unread') + i = Len(input')
          /\ Len(output') + 2 * Busy' = 2 * i
          /\ \A q \in DOMAIN unread' : unread'[q] = input'[i + q]
      <3>1. (g + 2) + 2 * 0 = 2 * i /\ 0 <= i
        BY <1>8
      <3> QED
        BY <1>1, <1>3, <1>4, <1>8, <1>9, <3>1
    <2> QED
      BY <1>9, <2>1 DEF EncryptPlace
  <1>12. EncryptContent'
    <2> SUFFICES ASSUME NEW k \in DOMAIN input, Kept(k), 2 * k <= g + 2
                 PROVE  CipherOf(input[k], output'[2 * k - 1], output'[2 * k])
      BY <1>1, <1>9 DEF EncryptContent, Kept
    <2>1. k \in Nat /\ k > 0
      BY <1>3
    <2>2. CASE 2 * k <= g
      <3>1. 2 * k - 1 \in 1 .. g /\ 2 * k \in 1 .. g
        BY <2>1, <2>2
      <3>2. CipherOf(input[k], output[2 * k - 1], output[2 * k])
        BY <1>2, <1>8, <2>2 DEF EncryptContent
      <3> QED
        BY <1>9, <3>1, <3>2
    <2>3. CASE ~(2 * k <= g)
      <3>1. k = i /\ 2 * k = g + 2 /\ 2 * k - 1 = g + 1
        BY <1>8, <2>1, <2>3
      <3>2. /\ Computes(jobs[1], Enciphered(FirstNumber(input[k])))
            /\ Computes(jobs[2], Enciphered(SecondNumber(input[k])))
        BY <1>1, <1>2, <1>8, <3>1 DEF EncryptContent, Compute2
      <3>3. /\ Value(jobs[1].res) = Enciphered(FirstNumber(input[k]))
            /\ Value(jobs[2].res) = Enciphered(SecondNumber(input[k]))
        BY <1>1, <1>4, <3>2, JobEnds
      <3> QED
        BY <1>7, <1>9, <3>1, <3>3 DEF CipherOf
    <2> QED
      BY <2>2, <2>3
  <1>13. DecryptPlace' /\ DecryptContent' /\ OverPlace' /\ LinesSurvive'
    BY <1>1 DEF DecryptPlace, DecryptContent, OverPlace, LinesSurvive
  <1> QED
    BY <1>10, <1>11, <1>12, <1>13 DEF ToolInv

\* or by d,
LEMMA PrintText ==
  ASSUME TextAssumption, ToolAssumption, ToolInv, PrintLine, prog = "d"
  PROVE  ToolInv'
  <1>1. PICK out :
          /\ jobs # <<>> /\ \A j \in DOMAIN jobs : ~Running(jobs[j])
          /\ out = to_chars(FromString(to_string(jobs[1].res)))
                     \o IF Less(Bbig, jobs[2].res)
                        THEN to_chars(FromString(to_string(jobs[2].res))) ELSE <<>>
          /\ output' = output \o <<out>>
          /\ jobs' = <<>> /\ prog' = prog /\ input' = input /\ unread' = unread
          /\ eof' = eof /\ counter' = counter /\ refused' = refused /\ dropped' = dropped
    BY DEF PrintLine
  <1>2. ToolTypes /\ DecryptPlace /\ DecryptContent /\ LinesSurvive
    BY DEF ToolInv
  <1>3. /\ DOMAIN input = 1 .. Len(input) /\ Len(input) \in Nat
        /\ \A k \in DOMAIN input : input[k] \in Bytes
    BY <1>2, InputIs DEF ToolTypes
  <1>4. /\ DOMAIN jobs = {1, 2} /\ jobs[1] \in ExpParts /\ jobs[2] \in ExpParts
        /\ Busy = 1 /\ Busy' = 0
    BY <1>1, <1>2, BusyIs DEF ToolTypes, Busy
  <1>5. jobs[1].res \in Seq(Limb) /\ jobs[2].res \in Seq(Limb)
    BY <1>4 DEF ExpParts
  <1>6. out \in Bytes
    BY <1>1, <1>5, PrintedIs
  <1>7. PICK g \in Nat : g = Len(output) /\ DOMAIN output = 1 .. g
    BY <1>2, LenProperties DEF ToolTypes
  <1>8. /\ output' \in Seq(Bytes) /\ Len(output') = g + 1 /\ DOMAIN output' = 1 .. g + 1
        /\ \A h \in 1 .. g : output'[h] = output[h]
        /\ output'[g + 1] = out
    <2>1. /\ output \in Seq(Bytes) /\ <<out>> \in Seq(Bytes)
          /\ Len(<<out>>) = 1 /\ <<out>>[1] = out
      BY <1>2, <1>6 DEF ToolTypes
    <2>2. output' \in Seq(Bytes)
      BY <1>1, <2>1, ConcatProperties
    <2>3. /\ Len(output') = g + 1
          /\ \A h \in 1 .. g + 1 : output'[h] = IF h <= g THEN output[h] ELSE <<out>>[h - g]
      BY <1>1, <1>7, <2>1, ConcatProperties
    <2>4. /\ g + 1 \in 1 .. g + 1 /\ ~(g + 1 <= g) /\ (g + 1) - g = 1
          /\ \A h \in 1 .. g : h \in 1 .. g + 1 /\ h <= g
      OBVIOUS
    <2>5. DOMAIN output' = 1 .. g + 1
      BY <2>2, <2>3, LenProperties
    <2> QED
      BY <2>1, <2>2, <2>3, <2>4, <2>5
  <1>9. ToolTypes'
    <2>1. <<>> \in Seq(ExpParts) /\ Len(<<>>) = 0
      OBVIOUS
    <2> QED
      BY <1>1, <1>2, <1>8, <2>1 DEF ToolTypes
  <1>10. DecryptPlace'
    <2>1. PICK r \in Nat : /\ r = g + 1 /\ r <= Len(input) + 1
                           /\ r <= Len(input) => Len(unread) + 2 * r = 2 * Len(input) + 1
                           /\ r > Len(input) => unread = <<>>
      BY <1>2, <1>4, <1>7 DEF DecryptPlace
    <2>2. r = Len(output') + Busy'
      BY <1>4, <1>8, <2>1
    <2>3. unread \in Seq(Decimals)
      BY <1>2 DEF DecryptPlace
    <2> QED
      BY <1>1, <2>1, <2>2, <2>3 DEF DecryptPlace
  <1>11. DecryptContent'
    <2> SUFFICES ASSUME NEW k \in DOMAIN input, Kept(k),
                        NEW q \in Nat, q > 0, (Len(output') + Busy') + q = k
                 PROVE  CipherOf(input[k], unread[2 * q - 1], unread[2 * q])
      BY <1>1 DEF DecryptContent, Kept
    <2>1. (g + 1) + q = k
      <3>1. (g + 1) + 0 = g + 1
        OBVIOUS
      <3> QED
        BY <1>4, <1>8, <3>1
    <2> QED
      BY <1>2, <1>4, <1>7, <2>1 DEF DecryptContent
  <1>12. LinesSurvive'
    <2>1. input' = input /\ refused' = refused /\ dropped' = dropped
      BY <1>1
    <2> SUFFICES ASSUME NEW k \in DOMAIN output' \cap DOMAIN input,
                        NEW first, first = FirstPart(input[k]),
                        NEW second, second = SecondPart(input[k])
                 PROVE  \/ Len(input[k]) > 2 * Part
                        \/ ~BelowKey(first) \/ ~BelowKey(second)
                        \/ ~Less(Bbig, Purge(Numeral(second))) /\ second # <<>>
                        \/ k \in refused \cup dropped
                        \/ \E m \in 0 .. Len(output'[k]) :
                             /\ SameText(SubSeq(output'[k], 1, m), first)
                             /\ SameText(SubSeq(output'[k], m + 1, Len(output'[k])), second)
      BY <2>1 DEF LinesSurvive
    <2>2. Len(input[k]) <= 2 * Part \/ Len(input[k]) > 2 * Part
      <3>1. Len(input[k]) \in Nat /\ Part \in Nat
        BY <1>3, KeyAssumed, LenProperties DEF Bytes
      <3> QED
        BY <3>1
    <2> SUFFICES ASSUME Kept(k), BelowKey(first), BelowKey(second), k \notin refused,
                        Less(Bbig, Purge(Numeral(second))) \/ second = <<>>
                 PROVE  \E m \in 0 .. Len(output'[k]) :
                          /\ SameText(SubSeq(output'[k], 1, m), first)
                          /\ SameText(SubSeq(output'[k], m + 1, Len(output'[k])), second)
      BY <2>2 DEF Kept
    <2>3. CASE k \in 1 .. g
      <3>1. k \in DOMAIN output \cap DOMAIN input
        BY <1>7, <2>3
      <3>2. ~(Len(input[k]) > 2 * Part) /\ k \notin refused \cup dropped
        <4>1. Len(input[k]) \in Nat /\ Part \in Nat
          BY <1>3, KeyAssumed, LenProperties DEF Bytes
        <4> QED
          BY <4>1 DEF Kept
      <3>3. \E m \in 0 .. Len(output[k]) :
              /\ SameText(SubSeq(output[k], 1, m), first)
              /\ SameText(SubSeq(output[k], m + 1, Len(output[k])), second)
        BY <1>2, <3>1, <3>2 DEF LinesSurvive
      <3> QED
        BY <1>8, <2>3, <3>3
    <2>4. CASE k = g + 1
      <3>1. Readable(k)
        BY DEF Readable
      <3>2. /\ Computes(jobs[1], FirstNumber(input[k]))
            /\ Computes(jobs[2], SecondNumber(input[k]))
        BY <1>1, <1>2, <1>7, <2>4, <3>1 DEF DecryptContent, Compute2
      <3>3. /\ IsNumber(jobs[1].res) /\ Value(jobs[1].res) = Value(Numeral(first))
            /\ IsNumber(jobs[2].res) /\ Value(jobs[2].res) = Value(Numeral(second))
        BY <1>1, <1>4, <3>2, JobEnds DEF FirstNumber, SecondNumber
      <3>4. first \in Bytes /\ second \in Bytes
        BY <1>3, PartsAre
      <3>5. \E m \in 0 .. Len(out) : /\ SameText(SubSeq(out, 1, m), first)
                                     /\ SameText(SubSeq(out, m + 1, Len(out)), second)
        BY <1>1, <3>3, <3>4, LineBack
      <3> QED
        BY <1>8, <2>4, <3>5
    <2>5. k \in 1 .. g \/ k = g + 1
      BY <1>8
    <2> QED
      BY <2>3, <2>4, <2>5
  <1>13. EncryptPlace' /\ EncryptContent' /\ OverPlace'
    BY <1>1 DEF EncryptPlace, EncryptContent, OverPlace
  <1> QED
    BY <1>9, <1>10, <1>11, <1>12, <1>13 DEF ToolInv

\* two lines of digits are read,
LEMMA DecryptLineStep ==
  ASSUME TextAssumption, ToolAssumption, KeyWorks, ToolInv, DecryptLine
  PROVE  ToolInv'
  <1>1. PICK a, b :
          /\ prog = "d" /\ jobs = <<>> /\ ~eof
          /\ unread' = SubSeq(unread, 3, Len(unread)) /\ eof' = (Len(unread) <= 2)
          /\ a = FromString(unread[1])
          /\ b = IF Len(unread) = 1 THEN <<>> ELSE FromString(unread[2])
          /\ jobs' = <<Decrypt(a, FromString(num3)), Decrypt(b, FromString(num3))>>
          /\ refused' = IF /\ Current \in DOMAIN input
                           /\ \E p \in {a, b} : p # BZero /\ Refused(p)
                        THEN refused \cup {Current} ELSE refused
          /\ prog' = prog /\ input' = input /\ counter' = counter
          /\ output' = output /\ dropped' = dropped
    BY DEF DecryptLine
  <1>2. ToolTypes /\ DecryptPlace /\ DecryptContent /\ LinesSurvive
    BY DEF ToolInv
  <1>3. PICK n \in Nat : /\ n = Len(input) /\ DOMAIN input = 1 .. n
                         /\ \A k \in DOMAIN input : input[k] \in Bytes
    BY <1>2, InputIs DEF ToolTypes
  <1>4. PICK g \in Nat : g = Len(output)
    BY <1>2, LenProperties DEF ToolTypes
  <1>5. PICK l \in Nat : /\ l = Len(unread) /\ l > 0 /\ DOMAIN unread = 1 .. l
                         /\ \A q \in 1 .. l : unread[q] \in Decimals
                         /\ unread \in Seq(Decimals) /\ unread \in Seq(Bytes)
    <2>1. unread \in Seq(Decimals) /\ unread \in Seq(Bytes) /\ unread # <<>>
      BY <1>1, <1>2 DEF ToolTypes, DecryptPlace
    <2>2. Len(unread) \in Nat /\ DOMAIN unread = 1 .. Len(unread) /\ Len(unread) # 0
      BY <2>1, LenProperties, EmptySeq
    <2>3. \A q \in 1 .. Len(unread) : unread[q] \in Decimals
      BY <2>1, ElementOfSeq
    <2>4. Len(unread) > 0
      BY <2>2
    <2> QED
      BY <2>1, <2>2, <2>3, <2>4
  <1>6. g <= n /\ l + 2 * g = 2 * n + 1
    <2>1. PICK r \in Nat : /\ r = g + 0 /\ r <= n + 1
                           /\ r <= n => l + 2 * r = 2 * n + 1
                           /\ r > n => unread = <<>>
      BY <1>1, <1>2, <1>3, <1>4, <1>5 DEF DecryptPlace, Busy
    <2>2. unread # <<>>
      BY <1>5
    <2> QED
      BY <2>1, <2>2
  <1>7. /\ unread' \in Seq(Bytes) /\ unread' \in Seq(Decimals)
        /\ Len(unread') = IF 3 <= l THEN (l - 3) + 1 ELSE 0
        /\ \A q \in Nat : q > 0 /\ q + 2 <= l => unread'[q] = unread[q + 2]
        /\ (unread' = <<>> <=> l <= 2)
    <2>1. \A q \in 3 .. l : q \in 1 .. l
      OBVIOUS
    <2>2. \A q \in 3 .. l : unread[q] \in Bytes /\ unread[q] \in Decimals
      BY <1>5, <2>1, ElementOfSeq
    <2>3. unread' \in Seq(Bytes) /\ unread' \in Seq(Decimals)
      BY <1>1, <1>5, <2>2, SubSeqProperties
    <2>4. /\ Len(unread') = IF 3 <= l THEN (l - 3) + 1 ELSE 0
          /\ \A q \in 1 .. (l - 3) + 1 : unread'[q] = unread[(3 + q) - 1]
      BY <1>1, <1>5, <2>2, SubSeqProperties
    <2>5. ASSUME NEW q \in Nat, q > 0, q + 2 <= l PROVE unread'[q] = unread[q + 2]
      <3>1. q \in 1 .. (l - 3) + 1 /\ (3 + q) - 1 = q + 2
        BY <2>5
      <3> QED
        BY <2>4, <3>1
    <2>6. Len(unread') = 0 <=> l <= 2
      BY <2>4
    <2>7. unread' = <<>> <=> Len(unread') = 0
      BY <2>3, EmptySeq
    <2> QED
      BY <2>3, <2>4, <2>5, <2>6, <2>7
  <1>8. a \in Seq(Limb) /\ b \in Seq(Limb)
    <2>1. 1 \in 1 .. l /\ (l # 1 => 2 \in 1 .. l)
      BY <1>5
    <2> QED
      BY <1>1, <1>5, <2>1, FromStringIs, Empty
  <1>9. PICK c, d : /\ c = Decrypt(a, FromString(num3)) /\ c \in ExpParts
                    /\ d = Decrypt(b, FromString(num3)) /\ d \in ExpParts
    BY <1>8, DecryptBegins
  <1>10. /\ jobs' \in Seq(ExpParts) /\ Len(jobs') = 2 /\ jobs' # <<>>
         /\ jobs'[1] = c /\ jobs'[2] = d /\ Busy' = 1 /\ Busy = 0
    BY <1>1, <1>9, JobsAre DEF Busy
  <1>11. refused \subseteq refused' /\ refused' \subseteq DOMAIN input
    BY <1>1, <1>2 DEF ToolTypes
  <1>12. ToolTypes'
    <2>1. eof' <=> unread' = <<>>
      BY <1>1, <1>5, <1>7
    <2> QED
      BY <1>1, <1>2, <1>7, <1>10, <1>11, <2>1 DEF ToolTypes
  <1>13. DecryptPlace'
    <2>1. /\ g + 1 \in Nat /\ g + 1 <= n + 1
          /\ g + 1 <= n => Len(unread') + 2 * (g + 1) = 2 * n + 1
          /\ g + 1 > n => unread' = <<>>
      BY <1>6, <1>7
    <2>2. g + 1 = Len(output') + Busy'
      BY <1>1, <1>4, <1>10
    <2> QED
      BY <1>1, <1>3, <1>7, <2>1, <2>2 DEF DecryptPlace
  <1>14. DecryptContent'
    <2> SUFFICES ASSUME NEW k \in DOMAIN input, Kept(k)
                 PROVE  /\ \A q \in Nat : q > 0 /\ (g + 1) + q = k =>
                             CipherOf(input[k], unread'[2 * q - 1], unread'[2 * q])
                        /\ k = g + 1 /\ BelowKey(FirstPart(input[k]))
                             /\ BelowKey(SecondPart(input[k])) /\ k \notin refused' =>
                             /\ Computes(c, FirstNumber(input[k]))
                             /\ Computes(d, SecondNumber(input[k]))
      BY <1>1, <1>4, <1>10 DEF DecryptContent, Kept, Readable, Compute2
    <2>1. ASSUME NEW q \in Nat, q > 0, g + q = k
          PROVE  CipherOf(input[k], unread[2 * q - 1], unread[2 * q])
      <3>1. (Len(output) + Busy) + q = k
        BY <1>4, <1>10, <2>1
      <3> QED
        BY <1>1, <1>2, <2>1, <3>1 DEF DecryptContent
    <2>2. ASSUME NEW q \in Nat, q > 0, (g + 1) + q = k
          PROVE  CipherOf(input[k], unread'[2 * q - 1], unread'[2 * q])
      <3>1. CipherOf(input[k], unread[2 * (q + 1) - 1], unread[2 * (q + 1)])
        <4>1. q + 1 \in Nat /\ q + 1 > 0 /\ g + (q + 1) = k
          BY <2>2
        <4> QED
          BY <2>1, <4>1
      <3>2. /\ 2 * (q + 1) - 1 = (2 * q - 1) + 2 /\ 2 * (q + 1) = 2 * q + 2
            /\ 2 * q - 1 \in Nat /\ 2 * q - 1 > 0 /\ 2 * q \in Nat /\ 2 * q > 0
        BY <2>2
      <3>3. (2 * q - 1) + 2 <= l /\ 2 * q + 2 <= l
        BY <1>3, <1>6, <2>2
      <3> QED
        BY <1>7, <3>1, <3>2, <3>3
    <2>3. ASSUME k = g + 1, BelowKey(FirstPart(input[k])), BelowKey(SecondPart(input[k])),
                 k \notin refused'
          PROVE  Computes(c, FirstNumber(input[k])) /\ Computes(d, SecondNumber(input[k]))
      <3>1. CipherOf(input[k], unread[1], unread[2])
        <4>1. 2 * 1 - 1 = 1 /\ 2 * 1 = 2 /\ 1 > 0
          OBVIOUS
        <4> QED
          BY <2>1, <2>3, <4>1
      <3>2. l # 1
        BY <1>3, <1>6, <2>3
      <3>3. /\ Value(a) = Enciphered(FirstNumber(input[k]))
            /\ Value(b) = Enciphered(SecondNumber(input[k]))
        BY <1>1, <1>5, <3>1, <3>2 DEF CipherOf
      <3>4. /\ FirstNumber(input[k]) \in 0 .. KeyValue - 1
            /\ SecondNumber(input[k]) \in 0 .. KeyValue - 1
        BY <1>3, <2>3, PartsAre, BelowKeyIs DEF FirstNumber, SecondNumber
      <3>5. Current = k
        BY <1>1, <1>4, <2>3 DEF Current
      <3>6. (a = BZero \/ ~Refused(a)) /\ (b = BZero \/ ~Refused(b))
        BY <1>1, <2>3, <3>5
      <3> QED
        BY <1>8, <1>9, <3>3, <3>4, <3>6, DecryptBegins
    <2> QED
      BY <2>2, <2>3
  <1>15. EncryptPlace' /\ EncryptContent' /\ OverPlace'
    BY <1>1 DEF EncryptPlace, EncryptContent, OverPlace
  <1>16. LinesSurvive'
    BY <1>1, <1>2, <1>11, SurviveKeeps
  <1> QED
    BY <1>12, <1>13, <1>14, <1>15, <1>16 DEF ToolInv

\* or a program ends: d reads what e printed, and then nothing is left.
LEMMA ReturnOfE ==
  ASSUME TextAssumption, ToolAssumption, ToolInv, ToolReturn, prog = "e"
  PROVE  ToolInv'
  <1>1. /\ eof /\ jobs = <<>> /\ prog' = "d" /\ unread' = Append(output, <<>>)
        /\ eof' = FALSE /\ output' = <<>> /\ input' = input /\ counter' = counter
        /\ jobs' = jobs /\ refused' = refused /\ dropped' = dropped
    BY DEF ToolReturn
  <1>2. ToolTypes /\ EncryptPlace /\ EncryptContent
    BY DEF ToolInv
  <1>3. PICK n \in Nat : n = Len(input) /\ DOMAIN input = 1 .. n
    BY <1>2, InputIs DEF ToolTypes
  <1>4. output \in Seq(Bytes) /\ output \in Seq(Decimals) /\ Len(output) = 2 * n
    <2>1. Len(unread) = 0
      BY <1>1, <1>2 DEF ToolTypes
    <2>2. PICK i \in Nat : 0 + i = n /\ Len(output) + 2 * 0 = 2 * i
      BY <1>1, <1>2, <1>3, <2>1 DEF EncryptPlace, Busy
    <2>3. output \in Seq(Bytes) /\ output \in Seq(Decimals) /\ Len(output) \in Nat
      BY <1>1, <1>2, LenProperties DEF ToolTypes, EncryptPlace
    <2> QED
      BY <2>2, <2>3
  <1>5. /\ unread' \in Seq(Bytes) /\ unread' \in Seq(Decimals) /\ unread' # <<>>
        /\ Len(unread') = 2 * n + 1
        /\ \A h \in 1 .. 2 * n : unread'[h] = output[h]
    <2>1. <<>> \in Bytes /\ <<>> \in Decimals
      BY NoNumeral, NothingRead
    <2> QED
      BY <1>1, <1>4, <2>1, AppendProperties
  <1>6. ToolTypes'
    <2>1. <<>> \in Seq(Bytes)
      OBVIOUS
    <2> QED
      BY <1>1, <1>2, <1>5, <2>1 DEF ToolTypes
  <1>7. DecryptPlace'
    <2>1. Len(output') = 0 /\ Busy' = 0
      BY <1>1 DEF Busy
    <2>2. /\ 0 = Len(output') + Busy' /\ 0 <= n + 1
          /\ Len(unread') + 2 * 0 = 2 * n + 1 /\ ~(0 > n)
      BY <1>5, <2>1
    <2> QED
      BY <1>1, <1>3, <1>5, <2>2 DEF DecryptPlace
  <1>8. DecryptContent'
    <2> SUFFICES ASSUME NEW k \in DOMAIN input, Kept(k),
                        NEW q \in Nat, q > 0, (Len(output') + Busy') + q = k
                 PROVE  CipherOf(input[k], unread'[2 * q - 1], unread'[2 * q])
      BY <1>1 DEF DecryptContent, Kept
    <2>1. q = k
      <3>1. Len(output') = 0 /\ Busy' = 0
        BY <1>1 DEF Busy
      <3> QED
        BY <3>1
    <2>2. 2 * k <= 2 * n /\ 2 * k - 1 \in 1 .. 2 * n /\ 2 * k \in 1 .. 2 * n
      BY <1>3
    <2>3. CipherOf(input[k], output[2 * k - 1], output[2 * k])
      BY <1>2, <1>4, <2>2 DEF EncryptContent
    <2> QED
      BY <1>5, <2>1, <2>2, <2>3
  <1>9. LinesSurvive'
    BY <1>1 DEF LinesSurvive
  <1>10. EncryptPlace' /\ EncryptContent' /\ OverPlace'
    BY <1>1 DEF EncryptPlace, EncryptContent, OverPlace
  <1> QED
    BY <1>6, <1>7, <1>8, <1>9, <1>10 DEF ToolInv

LEMMA ReturnOfD ==
  ASSUME ToolAssumption, ToolInv, ToolReturn, prog = "d"
  PROVE  ToolInv'
  <1>1. /\ eof /\ jobs = <<>> /\ prog' = "over" /\ unread' = unread
        /\ eof' = TRUE /\ output' = output /\ input' = input /\ counter' = counter
        /\ jobs' = jobs /\ refused' = refused /\ dropped' = dropped
    BY DEF ToolReturn
  <1>2. ToolTypes /\ DecryptPlace /\ LinesSurvive
    BY DEF ToolInv
  <1>3. ToolTypes'
    BY <1>1, <1>2 DEF ToolTypes
  <1>4. Len(output) = Len(input) + 1
    <2>1. PICK n \in Nat, z0 \in Nat : n = Len(input) /\ z0 = Len(output)
      BY <1>2, InputIs, LenProperties DEF ToolTypes
    <2>2. PICK r \in Nat : /\ r = z0 + 0 /\ r <= n + 1
                           /\ r <= n => Len(unread) + 2 * r = 2 * n + 1
      BY <1>1, <1>2, <2>1 DEF DecryptPlace, Busy
    <2>3. Len(unread) = 0
      BY <1>1, <1>2 DEF ToolTypes
    <2> QED
      BY <2>1, <2>2, <2>3
  <1>5. OverPlace'
    BY <1>1, <1>4 DEF OverPlace
  <1>6. LinesSurvive'
    BY <1>1, <1>2, SurviveKeeps
  <1>7. EncryptPlace' /\ EncryptContent' /\ DecryptPlace' /\ DecryptContent'
    BY <1>1 DEF EncryptPlace, EncryptContent, DecryptPlace, DecryptContent
  <1> QED
    BY <1>3, <1>5, <1>6, <1>7 DEF ToolInv

LEMMA ToolStutters ==
  ASSUME ToolInv, UNCHANGED toolVars PROVE ToolInv'
  <1>1. /\ prog' = prog /\ input' = input /\ unread' = unread /\ eof' = eof
        /\ counter' = counter /\ jobs' = jobs /\ output' = output
        /\ refused' = refused /\ dropped' = dropped
    BY DEF toolVars
  <1> QED
    BY <1>1 DEF ToolInv, ToolTypes, EncryptPlace, EncryptContent, DecryptPlace,
                DecryptContent, OverPlace, LinesSurvive, Kept, Readable, Compute2, Busy

LEMMA ToolAlways ==
  ASSUME TextAssumption, ToolAssumption, KeyWorks
  PROVE  ToolSpec => []ToolInv
  <1>1. ToolInit => ToolInv
    BY ToolBegins
  <1>2. ToolInv /\ [ToolNext]_toolVars => ToolInv'
    <2> SUFFICES ASSUME ToolInv, [ToolNext]_toolVars PROVE ToolInv'
      OBVIOUS
    <2>1. CASE EncryptLine
      BY <2>1, EncryptLineStep
    <2>2. CASE DecryptLine
      BY <2>2, DecryptLineStep
    <2>3. CASE ToolTurn
      BY <2>3, ToolTurnStep
    <2>4. CASE PrintLine
      <3>1. prog \in {"e", "d"}
        BY <2>4 DEF PrintLine, ToolInv, ToolTypes, OverPlace
      <3> QED
        BY <2>4, <3>1, PrintCipher, PrintText
    <2>5. CASE ToolReturn
      <3>1. prog \in {"e", "d"}
        BY <2>5 DEF ToolReturn, ToolInv, ToolTypes
      <3> QED
        BY <2>5, <3>1, ReturnOfE, ReturnOfD
    <2>6. CASE UNCHANGED toolVars
      BY <2>6, ToolStutters
    <2> QED
      BY <2>1, <2>2, <2>3, <2>4, <2>5, <2>6 DEF ToolNext
  <1> QED
    BY <1>1, <1>2, PTL DEF ToolSpec

\* What a line's parts are at the other end of "bignum e | bignum d" (main.cpp):
\* themselves, but for null bytes in front and the exceptions of LinesSurvive, for
\* every input and every three arguments of which the two exponents belong together.
\* Every line is answered.
THEOREM ToolHolds ==
  ASSUME TextAssumption, ToolAssumption, KeyWorks
  PROVE  ToolSpec => []ToolRight
  <1>1. ASSUME ToolInv PROVE ToolRight
    <2>1. ToolTypeOK
      <3>1. jobs = <<>> \/ (Len(jobs) = 2 /\ prog # "over")
        <4>1. jobs # <<>> => Len(jobs) = 2
          BY <1>1, BusyIs DEF ToolInv, ToolTypes
        <4> QED
          BY <1>1, <4>1 DEF ToolInv, OverPlace
      <3>2. ASSUME NEW j \in DOMAIN jobs
            PROVE  {jobs[j].res, jobs[j].tmp, jobs[j].exp} \subseteq Seq(0 .. BASE - 1)
        <4>1. jobs[j] \in ExpParts
          <5>1. jobs \in Seq(ExpParts)
            BY <1>1 DEF ToolInv, ToolTypes
          <5> QED
            BY <5>1, LenProperties, ElementOfSeq
        <4> QED
          BY <4>1 DEF ExpParts, Limb
      <3> QED
        BY <1>1, <3>1, <3>2 DEF ToolInv, ToolTypes, ToolTypeOK, Bytes
    <2>2. LinesSurvive /\ InStep
      BY <1>1 DEF ToolInv, OverPlace, InStep
    <2> QED
      BY <2>1, <2>2 DEF ToolRight
  <1> QED
    BY <1>1, ToolAlways, PTL
=============================================================================
