------------------------------ MODULE AesModes ------------------------------
(***************************************************************************)
(* AES's ECB, CBC and CFB: padding, the loop of the encrypting function,   *)
(* the way of its result to the decrypting one, and the loop of that.  A   *)
(* step is a turn of a loop.  What a key makes of a block is a constant.   *)
(***************************************************************************)
EXTENDS Integers, FiniteSets, Sequences

CONSTANTS Byte, Null,  \* unsigned char, and 0x00
          xor,         \* of two bytes
          BlockLen,    \* blockBytesLen
          UintSize,    \* an unsigned int is less
          Key, Enc, Dec, \* EncryptBlock and DecryptBlock under each key
          Messages,    \* inputs that are tried
          MaxHits      \* bound: blocks that are changed on the way

Block == [1 .. BlockLen -> Byte]

ASSUME ModesAssumption ==
  /\ IsFiniteSet(Byte) /\ Null \in Byte
  /\ xor \in [Byte -> [Byte -> Byte]]
  /\ \A a, b \in Byte : xor[a][xor[a][b]] = b /\ xor[xor[a][b]][b] = a
  /\ BlockLen \in Nat \ {0} /\ UintSize \in Nat /\ MaxHits \in Nat
  /\ BlockLen <= UintSize
  /\ Enc \in [Key -> [Block -> Block]] /\ Dec \in [Key -> [Block -> Block]]
  /\ \A k \in Key : \A b \in Block : Dec[k][Enc[k][b]] = b
  /\ Messages \subseteq Seq(Byte)
  /\ \A s \in Messages : Len(s) < UintSize

VARIABLES mode, key, msg, iv, \* the arguments
          pc,    \* "encrypt", "sent", "decrypt", "done"; "undefined" if outLen
                 \* is too small for the message
          i,     \* the loop's block, from 1
          block, \* as in the code
          out,   \* the encrypted blocks
          in, start, \* the blocks and the iv that the decrypting function gets
          hit,   \* blocks of in that are not those of out, 0 for the iv
          back   \* the decrypted blocks

arguments == <<mode, key, msg, iv>>
vars == <<arguments, pc, i, block, out, in, start, hit, back>>
-----------------------------------------------------------------------------
(* Padding *)

\* Mutant: a block more even if the message fills its blocks.
GetPaddingLengthMore(len) == ((len \div BlockLen + 1) * BlockLen) % UintSize

GetPaddingLength(len) ==
  ((len \div BlockLen + (IF len % BlockLen = 0 THEN 0 ELSE 1)) * BlockLen)
    % UintSize

outLen == GetPaddingLength(Len(msg))
Blocks == outLen \div BlockLen

\* The k-th block of what PaddingNulls returns.
Aligned(k) ==
  [b \in 1 .. BlockLen |-> LET n == (k - 1) * BlockLen + b
                            IN IF n \in 1 .. Len(msg) THEN msg[n] ELSE Null]

XorBlocks(a, b) == [k \in 1 .. BlockLen |-> xor[a[k]][b[k]]]
-----------------------------------------------------------------------------
TypeOK == /\ mode \in {"ECB", "CBC", "CFB"} /\ key \in Key
          /\ msg \in Messages /\ {iv, start, block} \subseteq Block
          /\ pc \in {"encrypt", "sent", "decrypt", "done", "undefined"}
          /\ i \in Nat \ {0}
          /\ {out, in, back} \subseteq Seq(Block)
          /\ hit \subseteq 0 .. Blocks

\* outLen is less than the message only if it has overflowed.
Init == /\ mode \in {"ECB", "CBC", "CFB"} /\ key \in Key
        /\ msg \in Messages /\ iv \in Block
        /\ pc = IF outLen < Len(msg) THEN "undefined"
                ELSE IF Blocks = 0 THEN "sent" ELSE "encrypt"
        /\ i = 1 /\ block = iv /\ start = iv
        /\ out = <<>> /\ in = <<>> /\ back = <<>> /\ hit = {}

\* A turn of a loop that ends as "next".
Turn(m, phase, next) ==
  /\ mode = m /\ pc = phase
  /\ i' = i + 1
  /\ pc' = IF i = Blocks THEN next ELSE phase
  /\ UNCHANGED <<arguments, start, hit>>
Encrypts(m) == Turn(m, "encrypt", "sent") /\ UNCHANGED <<in, back>>
Decrypts(m) == Turn(m, "decrypt", "done") /\ UNCHANGED <<in, out>>

EncryptECB == /\ Encrypts("ECB")
              /\ out' = Append(out, Enc[key][Aligned(i)])
              /\ UNCHANGED block

EncryptCBC == /\ Encrypts("CBC")
              /\ block' = Enc[key][XorBlocks(block, Aligned(i))]
              /\ out' = Append(out, block')

\* Mutant: the block that was encrypted is kept, not the one that came out.
EncryptCFBOutput == /\ Encrypts("CFB")
                    /\ block' = Enc[key][block]
                    /\ out' = Append(out, XorBlocks(Aligned(i), block'))

EncryptCFB == /\ Encrypts("CFB")
              /\ block' = XorBlocks(Aligned(i), Enc[key][block])
              /\ out' = Append(out, block')

\* The caller hands over the blocks and the iv, some of them changed.
Deliver ==
  /\ pc = "sent"
  /\ hit' \in {h \in SUBSET (0 .. Blocks) : Cardinality(h) <= MaxHits}
  /\ start' \in IF 0 \in hit' THEN Block \ {iv} ELSE {iv}
  /\ \E new \in [hit' \ {0} -> Block] :
       /\ \A k \in hit' \ {0} : new[k] # out[k]
       /\ in' = [k \in 1 .. Len(out) |-> IF k \in hit' THEN new[k] ELSE out[k]]
  /\ block' = start' /\ i' = 1
  /\ pc' = IF Blocks = 0 THEN "done" ELSE "decrypt"
  /\ UNCHANGED <<arguments, out, back>>

DecryptECB == /\ Decrypts("ECB")
              /\ back' = Append(back, Dec[key][in[i]])
              /\ UNCHANGED block

DecryptCBC == /\ Decrypts("CBC")
              /\ back' = Append(back, XorBlocks(block, Dec[key][in[i]]))
              /\ block' = in[i]

DecryptCFB == /\ Decrypts("CFB")
              /\ back' = Append(back, XorBlocks(in[i], Enc[key][block]))
              /\ block' = in[i]

Next == \/ EncryptECB \/ EncryptCBC \/ EncryptCFB \/ Deliver
        \/ DecryptECB \/ DecryptCBC \/ DecryptCFB

Spec == Init /\ [][Next]_vars
-----------------------------------------------------------------------------
(* Properties *)

\* The blocks that a change on the way can spoil: itself, and with chaining the
\* one after it.
Spoilt(k) == k \in hit \/ (mode # "ECB" /\ k - 1 \in hit)

\* Every other block that has been decrypted is the block of the padded message.
RoundTrip == \A k \in 1 .. Len(back) : Spoilt(k) \/ back[k] = Aligned(k)

\* A changed block does spoil its own place, in every mode, and the iv the first.
\* (With chaining a change may be undone by another one before it.)
ChangeShows ==
  \A k \in (hit \ {0}) \cap 1 .. Len(back) :
    (mode # "ECB" /\ k - 1 \in hit) \/ back[k] # Aligned(k)

\* The padded length is the message's or exceeds it by less than a block, in
\* whole blocks; it is too small for the last lengths below UintSize only.
PaddingRight ==
  IF pc = "undefined" THEN Len(msg) > UintSize - BlockLen
  ELSE outLen \in Len(msg) .. Len(msg) + BlockLen - 1 /\ outLen % BlockLen = 0

\* The blocks a change spoils and those it does not, and the length of it all.
ModesRight == TypeOK /\ ChangeShows /\ PaddingRight
=============================================================================
