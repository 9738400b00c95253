----------------------------- MODULE BignumCalc -----------------------------
(***************************************************************************)
(* RSA::handle_bignum (RSA.cpp): one operation on numbers of lib/RSA.  An  *)
(* operation of Bignum is one step; expmod and gcd take one step for each  *)
(* turn of their loop.  op "h" stands for expmod's exp / 2 on its own.     *)
(***************************************************************************)
EXTENDS Bignum

CONSTANTS MaxLimbs,   \* bound: limbs of the first operand
          OtherLimbs, \* bound: limbs of the others
          ExpLimbs    \* bound: limbs of expmod's base and exponent

\* BASE is even, since expmod takes the parity of exp from its lowest limb, and
\* 2 is a limb.
ASSUME CalcAssumption ==
  /\ BASE % 2 = 0 /\ BASE > 2
  /\ {ExpLimbs, OtherLimbs, MaxLimbs} \subseteq Nat \ {0}
  /\ ExpLimbs <= OtherLimbs /\ OtherLimbs <= MaxLimbs

VARIABLES pc,       \* "run" or "done"
          op,       \* the operator asked for
          x, y, z,  \* its operands: num1, num2, num3
          res,      \* expmod's res, and the result
          tmp, exp, \* of expmod; the two numbers of gcd
          lost      \* history: a limb was lost in a %

vars == <<pc, op, x, y, z, res, tmp, exp, lost>>

\* The numbers of at most n limbs that have no leading zero.
Numbers(n) ==
  {BZero} \cup UNION {{a \in [1 .. l -> 0 .. BASE - 1] : a[l] # 0} : l \in 1 .. n}

Op == {"+", "-", "*", "/", "%", "h", "^", "g"}

TypeOK == /\ pc \in {"run", "done"}
          /\ op \in Op
          /\ {x, y, z} \subseteq Numbers(MaxLimbs)
          /\ {tmp, exp} \subseteq Numbers(MaxLimbs) \cup {NormalZero}
          /\ res = Exit \/ res \in Seq(0 .. BASE - 1)
          /\ lost \in BOOLEAN

Init == /\ pc = "run"
        /\ op \in Op
        /\ x \in Numbers(IF op = "^" THEN ExpLimbs ELSE MaxLimbs)
        /\ y \in IF op = "h" THEN {<<2>>}
                 ELSE Numbers(IF op = "^" THEN ExpLimbs ELSE OtherLimbs)
        /\ z \in IF op = "^" THEN Numbers(OtherLimbs) \ {BZero, BOne} ELSE {BZero}
        /\ res = BOne
        /\ tmp = x /\ exp = y
        /\ lost = FALSE
-----------------------------------------------------------------------------
Compute ==
  /\ pc = "run" /\ op \notin {"^", "g"}
  /\ res' = CASE op = "+" -> Plus(x, y)
              [] op = "-" -> Minus(x, y)
              [] op = "*" -> Times(x, y)
              [] op = "/" -> Quotient(x, y)
              [] op = "%" -> Remainder(x, y)
              [] op = "h" -> DivideByLimb(x, y[1])
  /\ pc' = "done"
  /\ UNCHANGED <<op, x, y, z, tmp, exp, lost>>

\* A turn of expmod's loop, with what its % lose.
ExpStep ==
  /\ pc = "run" /\ op = "^" /\ Less(BZero, exp)
  /\ LET odd == exp[1] % 2 = 1
         product == Times(res, tmp)
         square == Times(tmp, tmp)
     IN /\ res' = IF odd THEN Remainder(product, z) ELSE res
        /\ tmp' = Remainder(square, z)
        /\ lost' = (lost \/ (odd /\ LosesLimb(product, z)) \/ LosesLimb(square, z))
  /\ exp' = DivideByLimb(exp, 2)
  /\ UNCHANGED <<pc, op, x, y, z>>

ExpReturn == /\ pc = "run" /\ op = "^" /\ ~Less(BZero, exp)
             /\ pc' = "done"
             /\ UNCHANGED <<op, x, y, z, res, tmp, exp, lost>>

\* A call of gcd: this is tmp and b is exp.  It calls itself with b and this % b.
GcdStep ==
  /\ pc = "run" /\ op = "g" /\ exp # BZero /\ ~Loops(tmp, exp)
  /\ tmp' = exp
  /\ exp' = Remainder(tmp, exp)
  /\ lost' = (lost \/ LosesLimb(tmp, exp))
  /\ UNCHANGED <<pc, op, x, y, z, res>>

GcdReturn == /\ pc = "run" /\ op = "g" /\ exp = BZero
             /\ res' = tmp
             /\ pc' = "done"
             /\ UNCHANGED <<op, x, y, z, tmp, exp, lost>>

Next == Compute \/ ExpStep \/ ExpReturn \/ GcdStep \/ GcdReturn

Spec == Init /\ [][Next]_vars
-----------------------------------------------------------------------------
(* Properties.  The reference is arithmetic on natural numbers. *)

Done(o) == pc = "done" /\ op = o

\* The numbers compare as what they stand for (operator<, lines 59-64).
LessRight == Less(x, y) <=> Value(x) < Value(y)

\* Sum, difference, product and half are right for operands of every length,
\* and a difference that would be negative is zero (lines 86-191).
ArithmeticRight ==
  /\ Done("+") => Value(res) = Value(x) + Value(y)
  /\ Done("-") => Value(res) = IF Value(x) < Value(y) THEN 0
                               ELSE Value(x) - Value(y)
  /\ Done("*") => Value(res) = Value(x) * Value(y)
  /\ Done("h") => Value(res) = Value(x) \div 2

\* Quotient and remainder are right as long as no limb is lost, which can only
\* happen when a proper leading part of the dividend is a multiple of the
\* divisor (lines 188-257 of normal_bignum.cpp).
DivisionRight ==
  /\ Done("/") /\ Value(y) > 0 /\ (Less(y, <<0, 1>>) \/ ~LosesLimb(x, y))
       => Value(res) = Value(x) \div Value(y)
  /\ Done("%") /\ Value(y) > 0 /\ ~LosesLimb(x, y)
       => Value(res) = Value(x) % Value(y)

\* What long division leaves has no leading zero limb, so that the comparisons
\* that follow, which look at the sizes first, see its true value.
NoLeadingZero ==
  Done("/") \/ Done("%") => res \in {BZero, NormalZero, Exit} \/ res[Len(res)] # 0

\* expmod is the power to that modulus, unless one of its % lost a limb
\* (lines 220-233).
ExpmodRight ==
  LET power[k \in 0 .. Value(y)] ==
        IF k = 0 THEN 1 ELSE (power[k - 1] * Value(x)) % Value(z)
  IN Done("^") /\ ~lost => Value(res) = power[Value(y)]

\* Every turn of expmod's loop makes exp smaller, until the test finds it zero:
\* exp / 2 drops the limbs that became zero, or the sizes would hide it.
ExpmodCloser == op = "^" /\ pc' = "run" => Value(exp') < Value(exp)

\* The operators compute what they would on natural numbers, on operands of any
\* length, but for the limbs that long division loses.
CalcRight == /\ TypeOK /\ LessRight /\ ArithmeticRight
             /\ DivisionRight /\ NoLeadingZero

\* "number1 and number2 are positive integers of arbitrary length": the
\* remainder is right for all of them (usage text of handle_bignum).
ModRight == Done("%") /\ Value(y) > 0 => Value(res) = Value(x) % Value(y)

\* gcd comes back, and with the right answer, only for equal numbers or if one
\* is zero.  Between two others it comes to the right answer and a remainder
\* without limbs, which is not the BZero it stops at (lines 235-237).
CommonDivisors == {d \in 1 .. Value(x) : Value(x) % d = 0 /\ Value(y) % d = 0}
GcdRight ==
  op = "g" =>
    /\ pc = "done" => \/ x = y /\ res = x
                      \/ BZero \in {x, y} /\ Value(res) = Value(x) + Value(y)
    /\ pc = "run" /\ exp = NormalZero /\ ~lost =>
         /\ BZero \notin {x, y} /\ Loops(tmp, exp)
         /\ Value(tmp) \in CommonDivisors
         /\ \A d \in CommonDivisors : d <= Value(tmp)

\* expmod is the power and its loop ends, gcd is right where it returns.
PowersRight == /\ [](ExpmodRight /\ GcdRight)
               /\ [][ExpmodCloser]_vars
=============================================================================
