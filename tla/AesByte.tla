------------------------------ MODULE AesByte ------------------------------
(***************************************************************************)
(* The bytes of AES: mul_bytes turn by turn, the tables and the mixing of  *)
(* a column, against arithmetic in GF(2^8).                                *)
(***************************************************************************)
EXTENDS AesCipher
LOCAL INSTANCE Bitwise
LOCAL INSTANCE SequencesExt

CONSTANT Factors \* the first operands of mul_bytes, bytes

VARIABLES x, y, \* mul_bytes' arguments
          m, i  \* its p, a and b, and its loop's counter

vars == <<x, y, m, i>>

\* b is 0 after eight turns, and a and p never leave unsigned char.
TypeOK == /\ x \in Factors /\ y \in Octet
          /\ m.p \in Octet /\ m.a \in Octet
          /\ i \in 0 .. 8 /\ m.b \in 0 .. 2 ^ (8 - i) - 1

Init == /\ x \in Factors /\ y \in Octet
        /\ m = [p |-> 0, a |-> x, b |-> y] /\ i = 0

Turn == /\ i < 8
        /\ m' = MulStep(m) /\ i' = i + 1
        /\ UNCHANGED <<x, y>>

Spec == Init /\ [][Turn]_vars
-----------------------------------------------------------------------------
(* The field *)

Sum(s) == FoldLeft(LAMBDA a, b : a ^^ b, 0, s)
Bit(n, k) == (n \div 2 ^ k) % 2

\* The product of the polynomials, and its remainder modulo
\* x^8 + x^4 + x^3 + x + 1.
Product(a, b) == Sum([k \in 1 .. 8 |-> a * 2 ^ (k - 1) * Bit(b, k - 1)])
Reduce(n) == FoldLeft(LAMBDA r, k : r ^^ (283 * 2 ^ (8 - k) * Bit(r, 16 - k)), n,
                      [k \in 1 .. 8 |-> k])
Mul(a, b) == Reduce(Product(a, b))

\* The inverse of the standard's affine map.
Unaffine(s) == Sum([k \in 1 .. 8 |->
  2 ^ (k - 1) * ((Bit(s, (k + 1) % 8) + Bit(s, (k + 4) % 8) + Bit(s, (k + 6) % 8)
                  + Bit(5, k - 1)) % 2)])
-----------------------------------------------------------------------------
(* Properties *)

\* mul_bytes: what is summed up and what is left make the product, at every
\* turn, so that the end result is the product.
MulRight == Reduce(Product(m.a, m.b)) ++ m.p = Mul(x, y)

\* The substitution table is the inverse in the field under the affine map, 0
\* for 0, and inv_sbox undoes it.
TablesRight ==
  i = 0 => LET inverse == Unaffine(Sbox[y + 1])
           IN /\ IF y = 0 THEN inverse = 0 ELSE Mul(y, inverse) = 1
              /\ InvSbox[Sbox[y + 1] + 1] = y

\* A mixed column is the product by 3 z^3 + z^2 + z + 2, and InvMixColumns gives
\* the column back.
ColumnsRight == i < 4 =>
  LET c == [k \in 1 .. 4 |-> IF k = i + 1 THEN y ELSE ((x + k) * y + x) % 256]
      mixed == MixSingleColumn(c)
  IN /\ \A k \in 1 .. 4 :
          mixed[k] = Sum([d \in 1 .. 4 |-> Mul(<<2, 3, 1, 1>>[d],
                                               c[1 + ((k + d - 2) % 4)])])
     /\ [k \in 1 .. 4 |-> InvSingleColumn(mixed)[k]] = c

\* The arithmetic of bytes is that of GF(2^8), wherever the code has it.
FieldRight == TypeOK /\ MulRight /\ TablesRight /\ ColumnsRight
=============================================================================
