------------------------------ MODULE RsaText ------------------------------
(***************************************************************************)
(* Between text and numbers: the conversions of RSA.cpp and bignum.cpp,    *)
(* and expmod turn by turn.  (Bignum/main.cpp and Bignum/bignum.cpp have   *)
(* the same.)  A text is a sequence of bytes, a decimal string one of      *)
(* digits, a number one of limbs, as in Bignum.                            *)
(***************************************************************************)
EXTENDS Bignum

CONSTANT LimbDigits \* decimal digits of a limb, 9 in the code

Ten[n \in Nat] == IF n = 0 THEN 1 ELSE 10 * Ten[n - 1]

\* What is assumed of the constants; the modules that instantiate this one do.
TextAssumption == LimbDigits \in Nat \ {0} /\ BASE = Ten[LimbDigits]

\* The decimal digit of v with p others to its right, and how many v has.
Digit(v, p) == (v \div Ten[p]) % 10
Length(v) == CHOOSE n \in 1 .. LimbDigits :
               v < Ten[n] /\ (n = 1 \/ v >= Ten[n - 1])

\* What the digits stand for; few enough for an integer.
Number(digits) ==
  LET val[k \in 0 .. Len(digits)] ==
        IF k = 0 THEN 0 ELSE 10 * val[k - 1] + digits[k]
  IN val[Len(digits)]

\* Three digits for each byte.
to_numeric(text) ==
  [k \in 1 .. 3 * Len(text) |-> Digit(text[1 + (k - 1) \div 3], 2 - ((k - 1) % 3))]

\* Mutant: the last limb is left out unless it is complete.
FromStringWhole(s) ==
  LET n == Len(s)
  IN [k \in 1 .. n \div LimbDigits |->
        Number(SubSeq(s, n - k * LimbDigits + 1, n - (k - 1) * LimbDigits))]

\* Bignum(const std::string&): limbs are cut off from the right.
FromString(s) ==
  LET n == Len(s)
  IN [k \in 1 .. (n + LimbDigits - 1) \div LimbDigits |->
        Number(SubSeq(s, IF k * LimbDigits > n THEN 1 ELSE n - k * LimbDigits + 1,
                      n - (k - 1) * LimbDigits))]

\* The highest limb without leading zeros, and all digits of the others.
LimbDigit(a, p) == Digit(a[1 + p \div LimbDigits], p % LimbDigits)
to_string(a) ==
  IF a = <<>> THEN <<0>>
  ELSE LET size == LimbDigits * (Len(a) - 1) + Length(a[Len(a)])
       IN [k \in 1 .. size |-> LimbDigit(a, size - k)]

\* As many zeros as the limbs have digits, and then the digits.
changeToBase10(a) == [k \in 1 .. LimbDigits * Len(a) |-> 0] \o to_string(a)

\* Mutant: the groups are counted from the left.
to_chars_left(a) ==
  LET t == changeToBase10(a)
  IN [n \in 1 .. (Len(t) + 2) \div 3 |->
        Number(SubSeq(t, 3 * n - 2, IF 3 * n > Len(t) THEN Len(t) ELSE 3 * n)) % 256]

\* A byte for each three digits, counted from the right.
to_chars(a) ==
  LET t == changeToBase10(a)
      size == (Len(t) + 2) \div 3
      last(n) == Len(t) - 3 * (size - n)
  IN [n \in 1 .. size |->
        Number(SubSeq(t, IF n = 1 THEN 1 ELSE last(n) - 2, last(n))) % 256]
-----------------------------------------------------------------------------
(* expmod, encrypt and decrypt *)

\* The variables of expmod at its start.  With exp = BZero res is at once what
\* it returns.
Expmod(a, e) == [res |-> BOne, tmp |-> a, exp |-> e]
Running(c) == Less(BZero, c.exp)

ExpTurn(c, n) ==
  [res |-> IF c.exp[1] % 2 = 1 THEN Remainder(Times(c.res, c.tmp), n) ELSE c.res,
   tmp |-> Remainder(Times(c.tmp, c.tmp), n),
   exp |-> DivideByLimb(c.exp, 2)]

\* The turn does not end.
Stuck(c, n) == \/ c.exp[1] % 2 = 1 /\ Loops(Times(c.res, c.tmp), n)
               \/ Loops(Times(c.tmp, c.tmp), n)

\* In the turn's % the leading limbs of a leave nothing, and the next limb, which
\* is lost then, is not zero.
LimbLost(a, n) ==
  /\ ~Less(a, n) /\ a # n
  /\ \E k \in 1 .. Len(a) - Len(n) :
       a[k] # 0 /\ LongDivision(SubSeq(a, k + 1, Len(a)), n).tmp = NormalZero
Drops(c, n) == \/ c.exp[1] % 2 = 1 /\ LimbLost(Times(c.res, c.tmp), n)
               \/ LimbLost(Times(c.tmp, c.tmp), n)

\* decrypt does not compute with these, and returns a number without limbs.
Refused(c) == Len(c) <= 3 \/ (c[1] = 0 /\ c[2] = 0 /\ c[3] = 0)
Nothing == [res |-> <<>>, tmp |-> <<>>, exp |-> BZero]
Decrypt(c, d) == IF Refused(c) THEN Nothing ELSE Expmod(c, d)
=============================================================================
