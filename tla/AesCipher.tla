----------------------------- MODULE AesCipher -----------------------------
(***************************************************************************)
(* The parts of AES's EncryptBlock and DecryptBlock.  A block is a         *)
(* sequence of 16 bytes in the order of the input: byte i + 4 * j of it is *)
(* state[i][j] of the code.  Bytes are unsigned char: 0 .. 255.            *)
(***************************************************************************)
EXTENDS Naturals, Sequences

Octet == 0 .. 255

\* Exclusive or: in each binary place 1 if one of the two has a 1 there.
XorOf ==
  [a \in Octet |-> [b \in Octet |->
     LET place(p) == p * ((a \div p + b \div p) % 2)
     IN place(1) + place(2) + place(4) + place(8)
        + place(16) + place(32) + place(64) + place(128)]]
a ++ b == XorOf[a][b]

\* AES.h's tables, row after row.
Sbox == <<
  99, 124, 119, 123, 242, 107, 111, 197, 48, 1, 103, 43, 254, 215, 171, 118,
  202, 130, 201, 125, 250, 89, 71, 240, 173, 212, 162, 175, 156, 164, 114, 192,
  183, 253, 147, 38, 54, 63, 247, 204, 52, 165, 229, 241, 113, 216, 49, 21,
  4, 199, 35, 195, 24, 150, 5, 154, 7, 18, 128, 226, 235, 39, 178, 117,
  9, 131, 44, 26, 27, 110, 90, 160, 82, 59, 214, 179, 41, 227, 47, 132,
  83, 209, 0, 237, 32, 252, 177, 91, 106, 203, 190, 57, 74, 76, 88, 207,
  208, 239, 170, 251, 67, 77, 51, 133, 69, 249, 2, 127, 80, 60, 159, 168,
  81, 163, 64, 143, 146, 157, 56, 245, 188, 182, 218, 33, 16, 255, 243, 210,
  205, 12, 19, 236, 95, 151, 68, 23, 196, 167, 126, 61, 100, 93, 25, 115,
  96, 129, 79, 220, 34, 42, 144, 136, 70, 238, 184, 20, 222, 94, 11, 219,
  224, 50, 58, 10, 73, 6, 36, 92, 194, 211, 172, 98, 145, 149, 228, 121,
  231, 200, 55, 109, 141, 213, 78, 169, 108, 86, 244, 234, 101, 122, 174, 8,
  186, 120, 37, 46, 28, 166, 180, 198, 232, 221, 116, 31, 75, 189, 139, 138,
  112, 62, 181, 102, 72, 3, 246, 14, 97, 53, 87, 185, 134, 193, 29, 158,
  225, 248, 152, 17, 105, 217, 142, 148, 155, 30, 135, 233, 206, 85, 40, 223,
  140, 161, 137, 13, 191, 230, 66, 104, 65, 153, 45, 15, 176, 84, 187, 22 >>

InvSbox == <<
  82, 9, 106, 213, 48, 54, 165, 56, 191, 64, 163, 158, 129, 243, 215, 251,
  124, 227, 57, 130, 155, 47, 255, 135, 52, 142, 67, 68, 196, 222, 233, 203,
  84, 123, 148, 50, 166, 194, 35, 61, 238, 76, 149, 11, 66, 250, 195, 78,
  8, 46, 161, 102, 40, 217, 36, 178, 118, 91, 162, 73, 109, 139, 209, 37,
  114, 248, 246, 100, 134, 104, 152, 22, 212, 164, 92, 204, 93, 101, 182, 146,
  108, 112, 72, 80, 253, 237, 185, 218, 94, 21, 70, 87, 167, 141, 157, 132,
  144, 216, 171, 0, 140, 188, 211, 10, 247, 228, 88, 5, 184, 179, 69, 6,
  208, 44, 30, 143, 202, 63, 15, 2, 193, 175, 189, 3, 1, 19, 138, 107,
  58, 145, 17, 65, 79, 103, 220, 234, 151, 242, 207, 206, 240, 180, 230, 115,
  150, 172, 116, 34, 231, 173, 53, 133, 226, 249, 55, 232, 28, 117, 223, 110,
  71, 241, 26, 113, 29, 41, 197, 137, 111, 183, 98, 14, 170, 24, 190, 27,
  252, 86, 62, 75, 198, 210, 121, 32, 154, 219, 192, 254, 120, 205, 90, 244,
  31, 221, 168, 51, 136, 7, 199, 49, 177, 18, 16, 89, 39, 128, 236, 95,
  96, 81, 127, 169, 25, 181, 74, 13, 45, 229, 122, 159, 147, 201, 156, 239,
  160, 224, 59, 77, 174, 42, 245, 176, 200, 235, 187, 60, 131, 83, 153, 97,
  23, 43, 4, 126, 186, 119, 214, 38, 225, 105, 20, 99, 85, 33, 12, 125 >>
-----------------------------------------------------------------------------
(* Bytes *)

\* A shift to the left in eight bits, and the modulus if a bit fell out.
xtime(b) == ((2 * b) % 256) ++ (IF b >= 128 THEN 27 ELSE 0)

\* Mutant of MulStep: a bit that falls out is tested in the wrong operand.
MulStepWrongBit(m) ==
  [p |-> IF m.b % 2 = 1 THEN m.p ++ m.a ELSE m.p,
   a |-> ((2 * m.a) % 256) ++ (IF m.b >= 128 THEN 27 ELSE 0),
   b |-> m.b \div 2]
\* A turn of mul_bytes' loop, which takes one bit of b.
MulStep(m) == [p |-> IF m.b % 2 = 1 THEN m.p ++ m.a ELSE m.p,
               a |-> xtime(m.a),
               b |-> m.b \div 2]

mul_bytes(a, b) ==
  LET m[i \in 0 .. 8] ==
        IF i = 0 THEN [p |-> 0, a |-> a, b |-> b] ELSE MulStep(m[i - 1])
  IN m[8].p

\* The products with the four factors that InvMixColumns uses.
Times == [f \in {9, 11, 13, 14} |-> [x \in Octet |-> mul_bytes(f, x)]]
-----------------------------------------------------------------------------
(* Blocks *)

Row(k) == (k - 1) % 4
Column(k) == (k - 1) \div 4
At(i, j) == 1 + i + (4 * (j % 4))

SubBytes(s) == [k \in 1 .. 16 |-> Sbox[s[k] + 1]]
InvSubBytes(s) == [k \in 1 .. 16 |-> InvSbox[s[k] + 1]]

\* Row i is shifted by n[i + 1] positions.
ShiftRow(s, n) ==
  [k \in 1 .. 16 |-> s[At(Row(k), Column(k) + n[Row(k) + 1])]]
ShiftRows(s) == ShiftRow(s, <<0, 1, 2, 3>>)

InvShiftRows(s) == ShiftRow(s, <<0, 3, 2, 1>>)

MixSingleColumn(a) ==
  LET b == [c \in 1 .. 4 |-> xtime(a[c])]
  IN <<b[1] ++ a[4] ++ a[3] ++ b[2] ++ a[2],
       b[2] ++ a[1] ++ a[4] ++ b[3] ++ a[3],
       b[3] ++ a[2] ++ a[1] ++ b[4] ++ a[4],
       b[4] ++ a[3] ++ a[2] ++ b[1] ++ a[1]>>

\* InvMixColumns on one column.
InvSingleColumn(s) ==
  [i \in 1 .. 4 |->
     LET f(k) == <<14, 11, 13, 9>>[1 + ((k + 4 - i) % 4)]
     IN Times[f(1)][s[1]] ++ Times[f(2)][s[2]]
        ++ Times[f(3)][s[3]] ++ Times[f(4)][s[4]]]

ColumnOf(s, j) == [i \in 1 .. 4 |-> s[At(i - 1, j)]]
MixColumns(s) ==
  [k \in 1 .. 16 |-> MixSingleColumn(ColumnOf(s, Column(k)))[Row(k) + 1]]
InvMixColumns(s) ==
  [k \in 1 .. 16 |-> InvSingleColumn(ColumnOf(s, Column(k)))[Row(k) + 1]]

\* AddRoundKey with the round keys w, from byte 16 * round on.
AddRoundKey(s, w, round) == [k \in 1 .. 16 |-> s[k] ++ w[16 * round + k]]
-----------------------------------------------------------------------------
(* Words of the key *)

SubWord(a) == [i \in 1 .. 4 |-> Sbox[a[i] + 1]]
RotWord(a) == <<a[2], a[3], a[4], a[1]>>
XorWords(a, b) == [i \in 1 .. 4 |-> a[i] ++ b[i]]
Rcon(n) ==
  LET c[i \in 1 .. n] == IF i = 1 THEN 1 ELSE xtime(c[i - 1])
  IN <<c[n], 0, 0, 0>>

\* A turn of KeyExpansion's second loop: one word more.
Expand(w, Nk) ==
  LET i == Len(w)
      last == SubSeq(w, i - 3, i)
      temp == IF (i \div 4) % Nk = 0
              THEN XorWords(SubWord(RotWord(last)), Rcon(i \div (4 * Nk)))
              ELSE IF Nk > 6 /\ (i \div 4) % Nk = 4 THEN SubWord(last) ELSE last
  IN w \o XorWords(SubSeq(w, i - 4 * Nk + 1, i - 4 * Nk + 4), temp)
=============================================================================
