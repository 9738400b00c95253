------------------------------- MODULE Bignum -------------------------------
(***************************************************************************)
(* The arithmetic of lib/RSA: reverse::Bignum (bignum.cpp) and             *)
(* normal::Bignum (normal_bignum.cpp), for any BASE.  (The code under      *)
(* Bignum/ is the same.)  A number is the sequence of its limbs, the least *)
(* significant one first; normal::Bignum stores the same limbs the other   *)
(* way round, which is abstracted.  What is kept is the number of limbs:   *)
(* zero is <<0>> in one class and <<>> in the other, and purge makes it    *)
(* <<>> too.                                                               *)
(***************************************************************************)
EXTENDS Integers, Sequences

CONSTANT BASE

ASSUME BaseAssumption == BASE \in Nat /\ BASE >= 2

BZero == <<0>>       \* of reverse::Bignum
BOne == <<1>>
NormalZero == <<>>   \* BZero of normal::Bignum

Limb == 0 .. BASE - 1

\* The limb at position k, zero beyond the end.
At(a, k) == IF k \in DOMAIN a THEN a[k] ELSE 0

\* What a number stands for.
Value(a) ==
  LET val[k \in 0 .. Len(a)] == IF k = 0 THEN 0
        ELSE val[k - 1] * BASE + a[Len(a) - k + 1]
  IN val[Len(a)]
-----------------------------------------------------------------------------
(* Wrong variants of definitions below, for testing the properties only. *)

\* of BringDown: appends, as if nothing were special about zero.
BringDownAtEnd(tmp, d) == tmp \o <<d>>

\* of DivideByLimb: the limbs that became zero stay.
DivideKeepsLimbs(a, d) == [k \in DOMAIN a |-> (Value(SubSeq(a, k, Len(a))) \div d) % BASE]
-----------------------------------------------------------------------------
(* reverse::Bignum *)

\* operator<: sizes first, then limbs from the most significant one.
Less(a, b) ==
  \/ Len(a) < Len(b)
  \/ /\ Len(a) = Len(b)
     /\ \E k \in DOMAIN a : a[k] < b[k] /\ \A j \in k + 1 .. Len(a) : a[j] = b[j]

Purge(s) ==
  LET used == {k \in DOMAIN s : s[k] # 0}
  IN IF used = {} THEN <<>>
     ELSE SubSeq(s, 1, CHOOSE k \in used : \A j \in used : j <= k)

Plus(a, b) ==
  LET n == IF Len(a) > Len(b) THEN Len(a) ELSE Len(b)
      carry[k \in 0 .. n] ==
        IF k = 0 THEN 0 ELSE (At(a, k) + At(b, k) + carry[k - 1]) \div BASE
  IN [k \in 1 .. n |-> (At(a, k) + At(b, k) + carry[k - 1]) % BASE]
       \o IF carry[n] = 1 THEN <<1>> ELSE <<>>

\* The loop of both operator-, for a not less than b.
Difference(a, b) ==
  LET borrow[k \in 0 .. Len(a)] ==
        IF k > 0 /\ a[k] < At(b, k) + borrow[k - 1] THEN 1 ELSE 0
  IN Purge([k \in 1 .. Len(a) |->
              (BASE + a[k] - At(b, k) - borrow[k - 1]) % BASE])

Minus(a, b) == IF Less(a, b) THEN BZero ELSE Difference(a, b)

\* prod with d times the number b added above its i lowest limbs.
AddRow(prod, i, d, b) ==
  LET n == Len(prod) - i
      carry[k \in 0 .. n] ==
        IF k = 0 THEN 0
        ELSE (prod[i + k] + d * At(b, k) + carry[k - 1]) \div BASE
  IN SubSeq(prod, 1, i)
       \o [k \in 1 .. n |-> (prod[i + k] + d * At(b, k) + carry[k - 1]) % BASE]

Times(a, b) ==
  LET smaller == IF Less(a, b) THEN a ELSE b
      larger == IF Less(a, b) THEN b ELSE a
      row[i \in 0 .. Len(smaller)] ==
        IF i = 0 THEN [k \in 1 .. Len(a) + Len(b) |-> 0]
        ELSE AddRow(row[i - 1], i - 1, smaller[i], larger)
  IN Purge(row[Len(smaller)])

\* operator/(unsigned): division by one limb, which leaves at least one.
DivideByLimb(a, d) ==
  LET n == Len(a)
      rest[k \in 0 .. n] == \* after the k most significant limbs
        IF k = 0 THEN 0 ELSE (a[n - k + 1] + rest[k - 1] * BASE) % d
      q == Purge([k \in 1 .. n |-> (a[k] + rest[n - k] * BASE) \div d])
  IN IF q = <<>> /\ a # <<>> THEN BZero ELSE q
-----------------------------------------------------------------------------
(* normal::Bignum *)

NormalMinus(a, b) == IF Less(a, b) THEN NormalZero ELSE Difference(a, b)

\* operator*(unsigned), and each half of mult: d is at most BASE, so there is
\* one carry at the end and it fits a limb.
TimesLimb(b, d) ==
  LET carry[k \in 0 .. Len(b)] ==
        IF k = 0 THEN 0 ELSE (carry[k - 1] + b[k] * d) \div BASE
  IN IF d = 0 THEN NormalZero
     ELSE IF d = 1 THEN b
     ELSE [k \in DOMAIN b |-> (carry[k - 1] + b[k] * d) % BASE]
            \o IF carry[Len(b)] > 0 THEN <<carry[Len(b)]>> ELSE <<>>

\* bin_search: how often b goes into target, and what is left of it.
BinSearch(b, target) ==
  LET search[bounds \in (0 .. BASE) \X (-1 .. BASE - 1)] ==
        LET left == bounds[1]
            right == bounds[2]
            mid == (left + right) \div 2
            low == TimesLimb(b, mid)
            high == TimesLimb(b, mid + 1)
        IN IF left > right THEN [digit |-> left, rest |-> target]
           ELSE IF Less(high, target) THEN search[<<mid + 1, right>>]
           ELSE IF Less(target, low) THEN search[<<left, mid - 1>>]
           ELSE IF target = high
             THEN [digit |-> mid + 1, rest |-> NormalMinus(target, high)]
           ELSE [digit |-> mid, rest |-> NormalMinus(target, low)]
  IN search[<<0, BASE - 1>>]

\* Bringing down the limb d.  When nothing is left of tmp the code assigns
\* tmp[0] in a vector that stays empty: the limb is lost.
BringDown(tmp, d) == IF tmp # NormalZero THEN <<d>> \o tmp ELSE tmp

\* The loop of operator/ and of operator%, which differ in what they keep.
\* The first round brings no limb down if the leading limbs of a hold b.
LongDivision(a, b) ==
  LET n == Len(a)
      head == Purge(SubSeq(a, n - Len(b) + 1, n))
      Round(quot, tmp) ==
        LET found == BinSearch(b, tmp)
        IN [quot |-> IF quot = <<>> /\ found.digit = 0 THEN <<>>
                     ELSE <<found.digit>> \o quot,
            tmp |-> found.rest]
      after[k \in Len(b) .. n] ==
        IF k > Len(b)
        THEN Round(after[k - 1].quot, BringDown(after[k - 1].tmp, a[n - k + 1]))
        ELSE IF Less(head, b) /\ k < n THEN [quot |-> <<>>, tmp |-> head]
        ELSE Round(<<>>, head)
  IN after[n]
-----------------------------------------------------------------------------
(* Division of reverse::Bignum *)

Exit == <<-1>>       \* the program prints an error and exits

Quotient(a, b) ==
  IF Less(a, b) THEN BZero
  ELSE IF a = b THEN BOne
  ELSE IF b = BZero THEN Exit
  ELSE IF Less(b, <<0, 1>>) THEN DivideByLimb(a, b[1])
  ELSE LongDivision(a, b).quot

\* For b = <<>> and another a, normal::Bignum's loop never ends.
Loops(a, b) == b = <<>> /\ a # <<>>
Remainder(a, b) ==
  IF Less(a, b) THEN a
  ELSE IF a = b THEN BZero
  ELSE IF b = BZero THEN Exit
  ELSE LongDivision(a, b).tmp

\* A limb is lost in the long division: what is left becomes zero before the
\* last limb is brought down, and a limb that is not zero follows.
LosesLimb(a, b) ==
  /\ Value(b) > 0
  /\ \E k \in 1 .. Len(a) - 1 :
       /\ LET lead == Value(SubSeq(a, k + 1, Len(a)))
          IN lead > 0 /\ lead % Value(b) = 0
       /\ a[k] # 0
=============================================================================
