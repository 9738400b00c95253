-------------------------------- MODULE MCAes --------------------------------
(***************************************************************************)
(* Instances of AesModes, AesByte and AesBlock for TLC: the modes over     *)
(* bytes of one bit and blocks of two, the bytes, and blocks with the      *)
(* example vectors of FIPS 197, appendix C.  They are three calculations,  *)
(* "which" says which of them goes on; the others stay as they begin.      *)
(***************************************************************************)
EXTENDS AesModes, AesBlock, SequencesExt

VARIABLES which, x, y, m, turn
-----------------------------------------------------------------------------
(* AesModes *)

MCByte == {0, 1}
MCxor == [a \in MCByte |-> [b \in MCByte |-> (a + b) % 2]]
\* Two permutations of the four blocks, and their inverses.
Number(b) == 2 * b[1] + b[2]
AsBlock(n) == <<n \div 2, n % 2>>
MCEnc == [k \in {"k1", "k2"} |-> [b \in [1 .. 2 -> MCByte] |->
           AsBlock(IF k = "k1" THEN (Number(b) + 1) % 4
                   ELSE <<0, 2, 3, 1>>[Number(b) + 1])]]
MCDec == [k \in {"k1", "k2"} |-> [c \in [1 .. 2 -> MCByte] |->
           CHOOSE b \in [1 .. 2 -> MCByte] : MCEnc[k][b] = c]]
MCMessages == BoundedSeq({0, 1}, 3)
                \cup {<<1, 0, 1, 1>>, <<0, 1, 1, 0, 1>>, <<1, 1, 1, 1, 0, 1>>,
                      <<0, 1, 1, 0, 0, 0>>, <<1, 0, 0, 1, 0, 1, 1>>}
-----------------------------------------------------------------------------
(* AesByte, with the factors of InvMixColumns; AesBlock *)

Bytes == INSTANCE AesByte WITH Factors <- {9, 11, 13, 14}, i <- turn

FipsKey == [k \in 1 .. 32 |-> k - 1]
FipsBlock == [k \in 1 .. 16 |-> 17 * (k - 1)]
MCKeys == {FipsKey, [k \in 1 .. 32 |-> 262 - 7 * k],
           [k \in 1 .. 32 |-> (37 * k * k + 11) % 256]}
MCPlaintexts == {FipsBlock, [k \in 1 .. 16 |-> 0],
             [k \in 1 .. 16 |-> (91 * k * k + 200) % 256]}
MCAnswers ==
  {[keyLen |-> 128, key |-> FipsKey, in |-> FipsBlock,
    out |-> <<105, 196, 224, 216, 106, 123, 4, 48,
              216, 205, 183, 128, 112, 180, 197, 90>>],
   [keyLen |-> 192, key |-> FipsKey, in |-> FipsBlock,
    out |-> <<221, 169, 124, 164, 134, 76, 223, 224,
              110, 175, 112, 160, 236, 13, 113, 145>>],
   [keyLen |-> 256, key |-> FipsKey, in |-> FipsBlock,
    out |-> <<142, 162, 183, 202, 81, 103, 69, 191,
              234, 252, 73, 144, 75, 73, 96, 137>>]}
-----------------------------------------------------------------------------
byteVars == <<x, y, m, turn>>

\* How each begins when it is not the one that goes on.
ModesIdle == mode = "ECB" /\ key = "k1" /\ msg = <<>> /\ iv = <<0, 0>> /\ Init
BytesIdle == x = 9 /\ y = 0 /\ Bytes!Init
BlockIdle == /\ keyLen = 128 /\ cipherKey = FipsKey /\ plain = FipsBlock
              /\ BlockInit

AesInit ==
  \/ which = "modes" /\ Init /\ BytesIdle /\ BlockIdle
  \/ which = "bytes" /\ ModesIdle /\ Bytes!Init /\ BlockIdle
  \/ which = "cipher" /\ ModesIdle /\ BytesIdle /\ BlockInit

AesNext ==
  /\ UNCHANGED which
  /\ \/ which = "modes" /\ Next /\ UNCHANGED <<byteVars, blockVars>>
     \/ which = "bytes" /\ Bytes!Turn /\ UNCHANGED <<vars, blockVars>>
     \/ which = "cipher" /\ BlockNext /\ UNCHANGED <<vars, byteVars>>

AesSpec == AesInit /\ [][AesNext]_<<which, vars, byteVars, blockVars>>
-----------------------------------------------------------------------------
(* The properties of AesByte and AesBlock *)

\* mul_bytes, the tables and the mixing of columns are those of the field, and
\* EncryptBlock gives the standard's answers.
StandardRight == /\ which = "bytes" => Bytes!FieldRight
                 /\ which = "cipher" => KnownAnswer
=============================================================================
