----------------------------- MODULE AesProofs -----------------------------
(***************************************************************************)
(* What the decrypting functions give back, for every block length, every  *)
(* cipher, message and set of blocks changed on the way (AesModes); and    *)
(* that DecryptBlock undoes EncryptBlock round by round, for every key and *)
(* every block (AesBlock), from the bits of a byte upwards.                *)
(***************************************************************************)
EXTENDS AesModes, AesBlock, TLAPS, SequenceTheorems, FiniteSetTheorems
-----------------------------------------------------------------------------
(* AesModes *)

\* The parts of the assumption.
LEMMA XorLaws == \A a, b \in Byte : /\ xor[a][b] \in Byte
                                   /\ xor[a][xor[a][b]] = b
                                   /\ xor[xor[a][b]][b] = a
  BY ModesAssumption
LEMMA CipherLaws ==
  \A k \in Key : \A b \in Block : /\ Enc[k][b] \in Block
                                 /\ Dec[k][b] \in Block
                                 /\ Dec[k][Enc[k][b]] = b
  BY ModesAssumption
LEMMA Sizes == /\ Null \in Byte /\ BlockLen \in Nat \ {0}
               /\ UintSize \in Nat /\ MaxHits \in Nat /\ BlockLen <= UintSize
               /\ \A s \in Messages : s \in Seq(Byte) /\ Len(s) < UintSize
  BY ModesAssumption

\* Exclusive or of blocks undoes itself, from either side.
LEMMA XorUndoes ==
  ASSUME NEW a \in Block, NEW b \in Block
  PROVE  /\ XorBlocks(a, b) \in Block
         /\ XorBlocks(a, XorBlocks(a, b)) = b
         /\ XorBlocks(XorBlocks(a, b), b) = a
<1>1. \A k \in 1 .. BlockLen : a[k] \in Byte /\ b[k] \in Byte
  BY DEF Block
<1>2. XorBlocks(a, b) \in Block
  BY <1>1, XorLaws DEF XorBlocks, Block
<1>3. \A k \in 1 .. BlockLen : XorBlocks(a, b)[k] = xor[a[k]][b[k]]
  BY DEF XorBlocks
<1>4. XorBlocks(a, XorBlocks(a, b)) = b
  <2>1. \A k \in 1 .. BlockLen : xor[a[k]][XorBlocks(a, b)[k]] = b[k]
    BY <1>1, <1>3, XorLaws
  <2>2. XorBlocks(a, XorBlocks(a, b)) = [k \in 1 .. BlockLen |-> b[k]]
    BY <2>1 DEF XorBlocks
  <2> QED
    BY <2>2 DEF Block
<1>5. XorBlocks(XorBlocks(a, b), b) = a
  <2>1. \A k \in 1 .. BlockLen : xor[XorBlocks(a, b)[k]][b[k]] = a[k]
    BY <1>1, <1>3, XorLaws
  <2>2. XorBlocks(XorBlocks(a, b), b) = [k \in 1 .. BlockLen |-> a[k]]
    BY <2>1 DEF XorBlocks
  <2> QED
    BY <2>2 DEF Block
<1> QED
  BY <1>2, <1>4, <1>5

\* The blocks of the padded message are blocks, and there are so many.
LEMMA MessageBlocks ==
  ASSUME msg \in Messages
  PROVE  Blocks \in Nat /\ \A k \in Nat : Aligned(k) \in Block
<1>1. msg \in Seq(Byte) /\ Len(msg) \in Nat /\ UintSize \in Nat \ {0}
  BY Sizes
<1>2. \A n \in 1 .. Len(msg) : msg[n] \in Byte
  BY <1>1
<1>3. \A k \in Nat : Aligned(k) \in Block
  BY <1>2, Sizes DEF Aligned, Block
<1>4. outLen \in Nat
  <2>1. Len(msg) \div BlockLen \in Nat
    BY <1>1, Sizes
  <2> DEFINE more == IF Len(msg) % BlockLen = 0 THEN 0 ELSE 1
  <2>2. (Len(msg) \div BlockLen + more) * BlockLen \in Nat
    BY <2>1, Sizes
  <2> QED
    BY <1>1, <2>2 DEF outLen, GetPaddingLength
<1>5. Blocks \in Nat
  BY <1>4, Sizes DEF Blocks
<1> QED
  BY <1>3, <1>5

\* There are finitely many blocks.
LEMMA BlocksFinite == IsFiniteSet(Block)
<1> DEFINE Pairs == (1 .. BlockLen) \X Byte
           graph == [b \in Block |-> {<<k, b[k]>> : k \in 1 .. BlockLen}]
<1>1. IsFiniteSet(SUBSET Pairs)
  <2>1. IsFiniteSet(1 .. BlockLen) /\ IsFiniteSet(Byte)
    BY FS_Interval, ModesAssumption
  <2>2. IsFiniteSet(Pairs)
    BY <2>1, FS_Product
  <2> QED  BY <2>2, FS_SUBSET
<1>2. graph \in [Block -> SUBSET Pairs]
  <2>1. \A b \in Block : \A k \in 1 .. BlockLen : b[k] \in Byte
    BY DEF Block
  <2>2. \A b \in Block : {<<k, b[k]>> : k \in 1 .. BlockLen} \in SUBSET Pairs
    BY <2>1
  <2> QED  BY <2>2
<1>3. ASSUME NEW a \in Block, NEW b \in Block, graph[a] = graph[b]
      PROVE  a = b
  <2>1. {<<k, a[k]>> : k \in 1 .. BlockLen} = {<<k, b[k]>> : k \in 1 .. BlockLen}
    BY <1>3
  <2>2. ASSUME NEW k \in 1 .. BlockLen PROVE a[k] = b[k]
    <3>1. <<k, a[k]>> \in {<<j, b[j]>> : j \in 1 .. BlockLen}
      BY <2>1
    <3> QED  BY <3>1
  <2>3. a = [k \in 1 .. BlockLen |-> a[k]] /\ b = [k \in 1 .. BlockLen |-> b[k]]
    BY DEF Block
  <2>4. [k \in 1 .. BlockLen |-> a[k]] = [k \in 1 .. BlockLen |-> b[k]]
    BY <2>2
  <2> QED  BY <2>3, <2>4
<1> HIDE DEF graph, Pairs
<1>4. graph \in Injection(Block, SUBSET Pairs)
  BY <1>2, <1>3 DEF Injection, IsInjective
<1> QED  BY <1>1, <1>4, FS_Injection

\* So EncryptBlock, undone by DecryptBlock, undoes it.
LEMMA EncUndoes ==
  ASSUME NEW k \in Key, NEW b \in Block
  PROVE  Enc[k][Dec[k][b]] = b
<1>1. Enc[k] \in [Block -> Block]
  BY ModesAssumption
<1>2. Enc[k] \in Injection(Block, Block)
  BY <1>1, CipherLaws DEF Injection, IsInjective
<1>3. Enc[k] \in Surjection(Block, Block)
  BY <1>2, BlocksFinite, FS_Injection
<1>4. PICK a \in Block : Enc[k][a] = b
  BY <1>3 DEF Surjection
<1> QED  BY <1>4, CipherLaws
-----------------------------------------------------------------------------
(* Padding *)

LEMMA Division ==
  ASSUME NEW n \in Nat, NEW d \in Nat \ {0}
  PROVE  /\ n \div d \in Nat /\ n % d \in 0 .. d - 1
         /\ n = (n \div d) * d + (n % d)
OBVIOUS

LEMMA NoRemainder ==
  ASSUME NEW m \in Nat, NEW d \in Nat \ {0}
  PROVE  (m * d) % d = 0
<1> DEFINE q == (m * d) \div d  r == (m * d) % d
<1>1. m * d \in Nat
  OBVIOUS
<1>2. q \in Nat /\ r \in 0 .. d - 1 /\ m * d = q * d + r
  BY <1>1, Division
<1> HIDE DEF q, r
<1>3. r = (m - q) * d
  BY <1>2
<1>4. ~(m - q >= 1)
  <2> SUFFICES ASSUME m - q >= 1 PROVE FALSE
    OBVIOUS
  <2>1. (m - q) * d >= d
    BY <1>2
  <2> QED  BY <1>2, <1>3, <2>1
<1>5. ~(m - q <= -1)
  <2> SUFFICES ASSUME m - q <= -1 PROVE FALSE
    OBVIOUS
  <2>1. (m - q) * d <= -d
    BY <1>2
  <2> QED  BY <1>2, <1>3, <2>1
<1>6. m - q = 0
  BY <1>2, <1>4, <1>5
<1>7. r = 0
  BY <1>3, <1>6
<1> QED  BY <1>7 DEF r

\* A number below twice the modulus.
LEMMA OnceOver ==
  ASSUME NEW n \in Nat, NEW d \in Nat \ {0}, n < d + d
  PROVE  n % d = IF n < d THEN n ELSE n - d
<1>1. n \div d \in Nat /\ n % d \in 0 .. d - 1 /\ n = (n \div d) * d + (n % d)
  BY Division
<1> DEFINE q == n \div d
<1>2. q \in {0, 1}
  <2> SUFFICES ASSUME q >= 2 PROVE FALSE
    BY <1>1
  <2> HIDE DEF q
  <2>1. q \in Nat /\ n >= q * d
    BY <1>1 DEF q
  <2>2. q * d >= 2 * d
    BY <2>1
  <2> QED  BY <2>1, <2>2
<1>3. CASE q = 0
  BY <1>1, <1>3
<1>4. CASE q = 1
  BY <1>1, <1>4
<1> QED  BY <1>2, <1>3, <1>4

\* getPaddingLength: whole blocks, less than a block more than the length, unless
\* that is beyond an unsigned int.
LEMMA PaddedLength ==
  ASSUME NEW len \in Nat, len < UintSize
  PROVE  LET n == GetPaddingLength(len)
         IN  /\ n \in Nat
             /\ n < len => len > UintSize - BlockLen
             /\ n >= len => n \in len .. len + BlockLen - 1 /\ n % BlockLen = 0
<1> DEFINE q == len \div BlockLen  r == len % BlockLen
           m == q + (IF r = 0 THEN 0 ELSE 1)
<1>1. q \in Nat /\ r \in 0 .. BlockLen - 1 /\ len = q * BlockLen + r
  BY Sizes, Division
<1>2. GetPaddingLength(len) = (m * BlockLen) % UintSize
  BY DEF GetPaddingLength
<1> HIDE DEF q, r
<1>3. m \in Nat /\ m * BlockLen \in len .. len + BlockLen - 1
  <2>1. CASE r = 0
    BY <1>1, <2>1, Sizes
  <2>2. CASE r # 0
    <3>1. (q + 1) * BlockLen = q * BlockLen + BlockLen
      BY <1>1, Sizes
    <3> QED  BY <1>1, <2>2, <3>1, Sizes
  <2> QED  BY <2>1, <2>2
<1> DEFINE n == m * BlockLen
<1>4. n % BlockLen = 0
  BY <1>3, NoRemainder, Sizes
<1> HIDE DEF n, m
<1>5. n \in Nat /\ n >= len /\ n <= len + BlockLen - 1
  BY <1>3, Sizes DEF n
<1>6. n % UintSize = IF n < UintSize THEN n ELSE n - UintSize
  <2>1. UintSize \in Nat \ {0} /\ n < UintSize + UintSize
    BY <1>5, Sizes
  <2> QED  BY <1>5, <2>1, OnceOver
<1> QED  BY <1>2, <1>4, <1>5, <1>6, Sizes DEF n
-----------------------------------------------------------------------------
(* The invariant: what each block of out is, and what the chain holds *)

Before(k) == IF k = 1 THEN iv ELSE out[k - 1]
Received(k) == IF k = 1 THEN start ELSE in[k - 1]
Ciphertext(k) ==
  IF mode = "ECB" THEN Enc[key][Aligned(k)]
  ELSE IF mode = "CBC" THEN Enc[key][XorBlocks(Before(k), Aligned(k))]
  ELSE XorBlocks(Aligned(k), Enc[key][Before(k)])

Encrypting ==
  /\ \A k \in 1 .. Len(out) : out[k] = Ciphertext(k)
  /\ pc = "encrypt" => /\ Len(out) = i - 1 /\ i <= Blocks
                       /\ mode # "ECB" => block = Before(i)
  /\ pc \in {"sent", "decrypt", "done"} => Len(out) = Blocks

Decrypting ==
  /\ pc \notin {"decrypt", "done"} => back = <<>>
  /\ pc = "decrypt" => /\ Len(back) = i - 1 /\ i <= Blocks
                       /\ mode # "ECB" => block = Received(i)
  /\ pc \in {"decrypt", "done"} => /\ Len(in) = Blocks
                                   /\ Len(back) <= Blocks
                                   /\ 0 \notin hit => start = iv
                                   /\ \A k \in 1 .. Blocks :
                                        in[k] = out[k] <=> k \notin hit

ModesInv == TypeOK /\ Encrypting /\ Decrypting /\ RoundTrip /\ ModesRight

\* If what a block is chained to came through, the loop holds it.
LEMMA Chained ==
  ASSUME TypeOK, Encrypting, Decrypting, pc = "decrypt",
         mode # "ECB", i - 1 \notin hit
  PROVE  block = Before(i) /\ Before(i) \in Block
<1>1. i \in 1 .. Blocks /\ Blocks \in Nat
  BY MessageBlocks DEF TypeOK, Decrypting
<1>2. block = Received(i) /\ block \in Block
  BY DEF Decrypting, TypeOK
<1>3. CASE i = 1
  BY <1>2, <1>3 DEF Received, Before, Decrypting
<1>4. CASE i # 1
  <2>1. i - 1 \in 1 .. Blocks
    BY <1>1, <1>4
  <2> QED
    BY <1>2, <1>4, <2>1 DEF Received, Before, Decrypting
<1> QED
  BY <1>3, <1>4

\* A block that is not spoilt is decrypted to what was encrypted.
LEMMA Undone ==
  ASSUME TypeOK, Encrypting, Decrypting, pc = "decrypt",
         ~Spoilt(i)
  PROVE  Aligned(i) =
           IF mode = "ECB" THEN Dec[key][in[i]]
           ELSE IF mode = "CBC" THEN XorBlocks(block, Dec[key][in[i]])
           ELSE XorBlocks(in[i], Enc[key][block])
<1>1. i \in 1 .. Blocks /\ Blocks \in Nat /\ Aligned(i) \in Block
  BY MessageBlocks DEF TypeOK, Decrypting
<1>2. in[i] = Ciphertext(i)
  BY <1>1 DEF Encrypting, Decrypting, Spoilt
<1>3. mode # "ECB" => block = Before(i) /\ Before(i) \in Block
  BY Chained DEF Spoilt
<1>4. CASE mode = "ECB"
  BY <1>1, <1>2, <1>4, CipherLaws DEF Ciphertext, TypeOK
<1>5. CASE mode = "CBC"
  <2>1. XorBlocks(block, Aligned(i)) \in Block
    BY <1>1, <1>3, <1>5, XorUndoes
  <2>2. in[i] = Enc[key][XorBlocks(block, Aligned(i))]
    BY <1>2, <1>3, <1>5 DEF Ciphertext
  <2>3. Dec[key][in[i]] = XorBlocks(block, Aligned(i))
    BY <2>1, <2>2, CipherLaws DEF TypeOK
  <2> QED
    BY <1>1, <1>3, <1>5, <2>3, XorUndoes
<1>6. CASE mode = "CFB"
  <2>1. Enc[key][block] \in Block
    BY <1>3, <1>6, CipherLaws DEF TypeOK
  <2>2. in[i] = XorBlocks(Aligned(i), Enc[key][block])
    BY <1>2, <1>3, <1>6 DEF Ciphertext
  <2> QED
    BY <1>1, <1>6, <2>1, <2>2, XorUndoes
<1> QED
  BY <1>4, <1>5, <1>6 DEF TypeOK

\* A changed block is decrypted to something else, unless what it is chained to
\* was changed as well.
LEMMA Shown ==
  ASSUME TypeOK, Encrypting, Decrypting, pc = "decrypt",
         i \in hit, mode = "ECB" \/ i - 1 \notin hit
  PROVE  Aligned(i) #
           IF mode = "ECB" THEN Dec[key][in[i]]
           ELSE IF mode = "CBC" THEN XorBlocks(block, Dec[key][in[i]])
           ELSE XorBlocks(in[i], Enc[key][block])
<1>1. i \in 1 .. Blocks /\ Blocks \in Nat /\ Aligned(i) \in Block
  BY MessageBlocks DEF TypeOK, Decrypting
<1>2. in[i] # Ciphertext(i) /\ in[i] \in Block
  <2>1. in \in Seq(Block) /\ Len(in) = Blocks
    BY DEF TypeOK, Decrypting
  <2>2. Len(out) = Blocks /\ \A k \in 1 .. Blocks : out[k] = Ciphertext(k)
    BY DEF Encrypting
  <2> QED
    BY <1>1, <2>1, <2>2, ElementOfSeq DEF Decrypting
<1>3. mode # "ECB" => block = Before(i) /\ Before(i) \in Block
  BY Chained
<1>4. CASE mode = "ECB"
  BY <1>1, <1>2, <1>4, EncUndoes DEF Ciphertext, TypeOK
<1>5. CASE mode = "CBC"
  <2> SUFFICES ASSUME Aligned(i) = XorBlocks(block, Dec[key][in[i]]) PROVE FALSE
    BY <1>5
  <2>1. Dec[key][in[i]] \in Block
    BY <1>2, CipherLaws DEF TypeOK
  <2>2. XorBlocks(block, Aligned(i)) = Dec[key][in[i]]
    BY <1>3, <1>5, <2>1, XorUndoes
  <2>3. Enc[key][XorBlocks(block, Aligned(i))] = in[i]
    BY <1>2, <2>2, EncUndoes DEF TypeOK
  <2> QED
    BY <1>2, <1>3, <1>5, <2>3 DEF Ciphertext
<1>6. CASE mode = "CFB"
  <2> SUFFICES ASSUME Aligned(i) = XorBlocks(in[i], Enc[key][block]) PROVE FALSE
    BY <1>6
  <2>1. Enc[key][block] \in Block
    BY <1>3, <1>6, CipherLaws DEF TypeOK
  <2>2. XorBlocks(Aligned(i), Enc[key][block]) = in[i]
    BY <1>2, <2>1, XorUndoes
  <2> QED
    BY <1>2, <1>3, <1>6, <2>2 DEF Ciphertext
<1> QED
  BY <1>4, <1>5, <1>6 DEF TypeOK

\* The padding is as right before a step as after it.
LEMMA PaddingKept ==
  ASSUME PaddingRight, UNCHANGED msg, pc' = "undefined" <=> pc = "undefined"
  PROVE  PaddingRight'
BY DEF PaddingRight, outLen

LEMMA ModesInit == Init => ModesInv
<1> SUFFICES ASSUME Init PROVE ModesInv
  OBVIOUS
<1>1. Blocks \in Nat
  BY MessageBlocks DEF Init
<1>2. TypeOK
  BY <1>1 DEF Init, TypeOK
<1>3. Encrypting
  BY <1>1 DEF Init, Encrypting, Before
<1>4. Decrypting /\ RoundTrip /\ ChangeShows
  BY <1>1 DEF Init, Decrypting, RoundTrip, ChangeShows
<1>5. PaddingRight
  <2>1. Len(msg) \in Nat /\ Len(msg) < UintSize
    BY Sizes DEF Init
  <2>2. /\ outLen \in Nat
        /\ outLen < Len(msg) => Len(msg) > UintSize - BlockLen
        /\ outLen >= Len(msg) => /\ outLen \in Len(msg) .. Len(msg) + BlockLen - 1
                                 /\ outLen % BlockLen = 0
    BY <2>1, PaddedLength DEF outLen
  <2>3. pc = "undefined" <=> outLen < Len(msg)
    BY DEF Init
  <2> QED
    BY <2>1, <2>2, <2>3 DEF PaddingRight
<1> QED
  BY <1>2, <1>3, <1>4, <1>5 DEF ModesInv, ModesRight

\* A turn of an encrypting loop: what it appends is the block's ciphertext.
LEMMA EncryptStep ==
  ASSUME ModesInv,
         \/ EncryptECB \/ EncryptCBC \/ EncryptCFB
  PROVE  ModesInv'
<1>1. PICK m \in {"ECB", "CBC", "CFB"} : Encrypts(m)
  BY DEF EncryptECB, EncryptCBC, EncryptCFB
<1>2. /\ mode = m /\ pc = "encrypt" /\ i' = i + 1
      /\ pc' = IF i = Blocks THEN "sent" ELSE "encrypt"
      /\ UNCHANGED <<mode, key, msg, iv, start, hit, in, back>>
  BY <1>1 DEF Encrypts, Turn, arguments
<1>3. /\ Len(out) = i - 1 /\ i \in 1 .. Blocks /\ Blocks \in Nat
      /\ Aligned(i) \in Block /\ block \in Block /\ out \in Seq(Block)
      /\ mode # "ECB" => block = Before(i)
      /\ key \in Key
  BY <1>2, MessageBlocks DEF ModesInv, TypeOK, Encrypting
<1>4. /\ block' \in Block /\ Ciphertext(i) \in Block
      /\ out' = Append(out, Ciphertext(i))
      /\ mode # "ECB" => block' = Ciphertext(i)
  <2>1. CASE EncryptECB
    BY <1>3, <2>1, CipherLaws DEF EncryptECB, Encrypts, Turn, Ciphertext
  <2>2. CASE EncryptCBC
    <3>1. mode = "CBC"
      BY <2>2 DEF EncryptCBC, Encrypts, Turn
    <3>2. XorBlocks(block, Aligned(i)) \in Block
      BY <1>3, XorUndoes
    <3>3. Ciphertext(i) = Enc[key][XorBlocks(block, Aligned(i))]
      BY <1>3, <3>1 DEF Ciphertext
    <3> QED
      BY <1>3, <2>2, <3>2, <3>3, CipherLaws DEF EncryptCBC
  <2>3. CASE EncryptCFB
    <3>1. mode = "CFB"
      BY <2>3 DEF EncryptCFB, Encrypts, Turn
    <3>2. Enc[key][block] \in Block
      BY <1>3, CipherLaws
    <3>3. Ciphertext(i) = XorBlocks(Aligned(i), Enc[key][block])
      BY <1>3, <3>1 DEF Ciphertext
    <3> QED
      BY <1>3, <2>3, <3>2, <3>3, XorUndoes DEF EncryptCFB
  <2> QED
    BY <2>1, <2>2, <2>3
<1>5. /\ Blocks' = Blocks /\ \A k \in Nat : Aligned(k)' = Aligned(k)
      /\ \A k : Spoilt(k)' = Spoilt(k)
  BY <1>2 DEF Blocks, outLen, Aligned, Spoilt
<1>6. /\ out' \in Seq(Block) /\ Len(out') = i
      /\ \A k \in 1 .. i - 1 : out'[k] = out[k]
      /\ out'[i] = Ciphertext(i)
  BY <1>3, <1>4
<1>7. \A k \in 1 .. i : Ciphertext(k)' = Ciphertext(k)
  <2> TAKE k \in 1 .. i
  <2>1. Before(k)' = Before(k)
    BY <1>2, <1>3, <1>6 DEF Before
  <2>2. Aligned(k)' = Aligned(k)
    BY <1>3, <1>5
  <2> QED
    BY <1>2, <2>1, <2>2 DEF Ciphertext, XorBlocks
<1>8. TypeOK'
  BY <1>2, <1>4, <1>5, <1>6 DEF ModesInv, TypeOK
<1>9. Encrypting'
  <2>1. \A k \in 1 .. Len(out') : out'[k] = Ciphertext(k)'
    BY <1>3, <1>6, <1>7 DEF ModesInv, Encrypting
  <2>2. Before(i)' = out'[i]
    <3>1. i' # 1 /\ i' - 1 = i
      BY <1>2, <1>3
    <3>2. Before(i)' = IF i' = 1 THEN iv' ELSE out'[i' - 1]
      BY DEF Before
    <3> QED
      BY <3>1, <3>2
  <2>3. mode' # "ECB" => block' = Before(i)'
    BY <1>2, <1>4, <1>6, <2>2
  <2>4. pc' = "encrypt" => i' <= Blocks'
    BY <1>2, <1>3, <1>5
  <2>5. pc' \in {"sent", "decrypt", "done"} => Len(out') = Blocks'
    BY <1>2, <1>5, <1>6
  <2>6. Len(out') = i' - 1
    BY <1>2, <1>3, <1>6
  <2> QED
    BY <2>1, <2>3, <2>4, <2>5, <2>6 DEF Encrypting
<1>10. Decrypting' /\ RoundTrip' /\ ChangeShows'
  <2>1. back' = <<>> /\ pc' \in {"encrypt", "sent"}
    BY <1>2 DEF ModesInv, Decrypting
  <2> QED
    BY <2>1 DEF Decrypting, RoundTrip, ChangeShows
<1>11. PaddingRight'
  BY <1>2, PaddingKept DEF ModesInv, ModesRight
<1> QED
  BY <1>8, <1>9, <1>10, <1>11 DEF ModesInv, ModesRight

\* What is handed over agrees with out except at hit.
LEMMA DeliverStep == ASSUME ModesInv, Deliver PROVE ModesInv'
<1>1. /\ pc = "sent" /\ back = <<>> /\ Len(out) = Blocks /\ Blocks \in Nat
      /\ out \in Seq(Block) /\ iv \in Block
  BY MessageBlocks DEF Deliver, ModesInv, TypeOK, Encrypting, Decrypting
<1>2. /\ UNCHANGED <<mode, key, msg, iv, out, back>>
      /\ hit' \subseteq 0 .. Blocks
      /\ start' \in Block /\ (0 \notin hit' => start' = iv)
      /\ block' = start' /\ i' = 1
      /\ pc' = IF Blocks = 0 THEN "done" ELSE "decrypt"
  BY <1>1 DEF Deliver, arguments
<1>3. PICK new \in [hit' \ {0} -> Block] :
        /\ \A k \in hit' \ {0} : new[k] # out[k]
        /\ in' = [k \in 1 .. Len(out) |-> IF k \in hit' THEN new[k] ELSE out[k]]
  BY DEF Deliver
<1>4. \A k \in 1 .. Len(out) : (IF k \in hit' THEN new[k] ELSE out[k]) \in Block
  <2> TAKE k \in 1 .. Len(out)
  <2>1. out[k] \in Block
    BY <1>1
  <2>2. k \in hit' => new[k] \in Block
    BY <1>1
  <2> QED
    BY <2>1, <2>2
<1>5. in' \in Seq(Block) /\ Len(in') = Blocks
      /\ \A k \in 1 .. Blocks : in'[k] = out[k] <=> k \notin hit'
  BY <1>1, <1>3, <1>4
<1>6. Blocks' = Blocks /\ \A k \in Nat : Aligned(k)' = Aligned(k)
  BY <1>2 DEF Blocks, outLen, Aligned
<1>7. TypeOK'
  BY <1>1, <1>2, <1>5, <1>6 DEF ModesInv, TypeOK
<1>8. Encrypting'
  <2>1. \A k \in 1 .. Len(out) : Ciphertext(k)' = Ciphertext(k)
    BY <1>2 DEF Ciphertext, Before, Aligned, XorBlocks
  <2> QED
    BY <1>1, <1>2, <1>6, <2>1 DEF ModesInv, Encrypting
<1>9. Decrypting' /\ RoundTrip' /\ ChangeShows'
  BY <1>1, <1>2, <1>5, <1>6
  DEF Decrypting, RoundTrip, ChangeShows, Received
<1>10. PaddingRight'
  BY <1>1, <1>2, PaddingKept DEF ModesInv, ModesRight
<1> QED
  BY <1>7, <1>8, <1>9, <1>10 DEF ModesInv, ModesRight

\* A turn of a decrypting loop: what it appends is the message's block.
LEMMA DecryptStep ==
  ASSUME ModesInv,
         \/ DecryptECB \/ DecryptCBC \/ DecryptCFB
  PROVE  ModesInv'
<1>1. PICK m \in {"ECB", "CBC", "CFB"} : Decrypts(m)
  BY DEF DecryptECB, DecryptCBC, DecryptCFB
<1>2. /\ mode = m /\ pc = "decrypt" /\ i' = i + 1
      /\ pc' = IF i = Blocks THEN "done" ELSE "decrypt"
      /\ UNCHANGED <<mode, key, msg, iv, start, hit, in, out>>
  BY <1>1 DEF Decrypts, Turn, arguments
<1>3. /\ Len(back) = i - 1 /\ i \in 1 .. Blocks /\ Blocks \in Nat
      /\ in[i] \in Block /\ block \in Block /\ back \in Seq(Block)
      /\ key \in Key
  BY <1>2, MessageBlocks DEF ModesInv, TypeOK, Decrypting
<1> DEFINE new == IF mode = "ECB" THEN Dec[key][in[i]]
                  ELSE IF mode = "CBC" THEN XorBlocks(block, Dec[key][in[i]])
                  ELSE XorBlocks(in[i], Enc[key][block])
<1>4. /\ new \in Block /\ back' = Append(back, new)
      /\ block' \in Block /\ (mode # "ECB" => block' = in[i])
  <2>1. CASE DecryptECB
    BY <1>3, <2>1, CipherLaws DEF DecryptECB, Decrypts, Turn
  <2>2. CASE DecryptCBC
    <3>1. mode = "CBC"
      BY <2>2 DEF DecryptCBC, Decrypts, Turn
    <3>2. Dec[key][in[i]] \in Block
      BY <1>3, CipherLaws
    <3> QED
      BY <1>3, <2>2, <3>1, <3>2, XorUndoes DEF DecryptCBC
  <2>3. CASE DecryptCFB
    <3>1. mode = "CFB"
      BY <2>3 DEF DecryptCFB, Decrypts, Turn
    <3>2. Enc[key][block] \in Block
      BY <1>3, CipherLaws
    <3> QED
      BY <1>3, <2>3, <3>1, <3>2, XorUndoes DEF DecryptCFB
  <2> QED
    BY <2>1, <2>2, <2>3
<1>5. /\ Spoilt(i) \/ new = Aligned(i)
      /\ i \in hit /\ (mode = "ECB" \/ i - 1 \notin hit) => new # Aligned(i)
  BY <1>2, Undone, Shown DEF ModesInv
<1> HIDE DEF new
<1>6. /\ Blocks' = Blocks /\ \A k \in Nat : Aligned(k)' = Aligned(k)
      /\ \A k : Spoilt(k)' = Spoilt(k)
  BY <1>2 DEF Blocks, outLen, Aligned, Spoilt
<1>7. /\ back' \in Seq(Block) /\ Len(back') = i
      /\ \A k \in 1 .. i - 1 : back'[k] = back[k]
      /\ back'[i] = new
  BY <1>3, <1>4
<1>8. TypeOK'
  BY <1>2, <1>4, <1>6, <1>7 DEF ModesInv, TypeOK
<1>9. Encrypting'
  <2>1. \A k \in 1 .. Len(out) : Ciphertext(k)' = Ciphertext(k)
    BY <1>2 DEF Ciphertext, Before, Aligned, XorBlocks
  <2> QED
    BY <1>2, <1>6, <2>1 DEF ModesInv, Encrypting
<1>10. Decrypting'
  BY <1>2, <1>3, <1>4, <1>6, <1>7 DEF ModesInv, Decrypting, Received
<1>11. RoundTrip'
  BY <1>3, <1>5, <1>6, <1>7 DEF ModesInv, RoundTrip
<1>12. ChangeShows'
  BY <1>2, <1>3, <1>5, <1>6, <1>7 DEF ModesInv, ModesRight, ChangeShows
<1>13. PaddingRight'
  BY <1>2, PaddingKept DEF ModesInv, ModesRight
<1> QED
  BY <1>8, <1>9, <1>10, <1>11, <1>12, <1>13 DEF ModesInv, ModesRight

LEMMA ModesStep == ModesInv /\ [Next]_vars => ModesInv'
<1> SUFFICES ASSUME ModesInv, [Next]_vars PROVE ModesInv'
  OBVIOUS
<1>1. CASE UNCHANGED vars
  <2>1. /\ UNCHANGED <<mode, key, msg, iv, pc, i, block, out, in, start, hit>>
        /\ back' = back
    BY <1>1 DEF vars, arguments
  <2>2. /\ Blocks' = Blocks /\ \A k : Aligned(k)' = Aligned(k)
        /\ \A k : Spoilt(k)' = Spoilt(k)
        /\ \A k : Before(k)' = Before(k)
        /\ \A k : Received(k)' = Received(k)
    BY <2>1 DEF Blocks, outLen, Aligned, Spoilt, Before, Received
  <2>3. \A k : Ciphertext(k)' = Ciphertext(k)
    BY <2>1, <2>2 DEF Ciphertext, XorBlocks
  <2>4. TypeOK'
    BY <2>1, <2>2 DEF ModesInv, TypeOK
  <2>5. Encrypting'
    <3>1. \A k \in 1 .. Len(out') : out'[k] = Ciphertext(k)'
      BY <2>1, <2>3 DEF ModesInv, Encrypting
    <3>2. Before(i)' = Before(i)
      BY <2>1 DEF Before
    <3> QED
      BY <2>1, <2>2, <3>1, <3>2 DEF ModesInv, Encrypting
  <2>6. Decrypting'
    <3>1. Received(i)' = Received(i)
      BY <2>1 DEF Received
    <3> QED
      BY <2>1, <2>2, <3>1 DEF ModesInv, Decrypting
  <2>7. RoundTrip' /\ ChangeShows'
    BY <2>1, <2>2 DEF ModesInv, ModesRight, RoundTrip, ChangeShows
  <2>8. PaddingRight'
    BY <2>1, PaddingKept DEF ModesInv, ModesRight
  <2> QED
    BY <2>4, <2>5, <2>6, <2>7, <2>8 DEF ModesInv, ModesRight
<1>2. CASE Next
  BY <1>2, EncryptStep, DeliverStep, DecryptStep DEF Next
<1> QED
  BY <1>1, <1>2

\* EncryptECB, EncryptCBC, EncryptCFB and the functions that decrypt, with any
\* cipher whose DecryptBlock undoes its EncryptBlock: every block that comes
\* through unchanged is decrypted to the message's, with chaining if the one
\* before it came through as well.
THEOREM RoundTripHolds == Spec => []RoundTrip
<1>1. ModesInv => RoundTrip
  BY DEF ModesInv
<1> QED
  BY <1>1, ModesInit, ModesStep, PTL DEF Spec

\* A block that is changed on the way is decrypted to something else than the
\* message's, in every mode, unless chaining and another change undo it; the
\* loops keep to blocks and their number; and the padded length is right, but
\* for the last lengths below UintSize, where getPaddingLength overflows.
THEOREM ModesRightHolds == Spec => []ModesRight
<1>1. ModesInv => ModesRight
  BY DEF ModesInv
<1> QED
  BY <1>1, ModesInit, ModesStep, PTL DEF Spec

\* The loops keep to blocks, bytes and the number of blocks.
THEOREM ModesTyped == Spec => []TypeOK
<1>1. ModesRight => TypeOK
  BY DEF ModesRight
<1> QED
  BY <1>1, ModesRightHolds, PTL
-----------------------------------------------------------------------------
(* AesCipher: bytes, words and blocks *)

\* The binary places of a byte, by their weights.
Place(a, p) == (a \div p) % 2
Weights == {1, 2, 4, 8, 16, 32, 64, 128}

\* A byte is the sum of its places, each of them 0 or 1.
LEMMA PlacesAre ==
  ASSUME NEW a \in Octet
  PROVE  /\ \A p \in Weights : Place(a, p) \in {0, 1}
         /\ a = Place(a, 1) + 2 * Place(a, 2) + 4 * Place(a, 4) + 8 * Place(a, 8)
                + 16 * Place(a, 16) + 32 * Place(a, 32) + 64 * Place(a, 64)
                + 128 * Place(a, 128)
  BY DEF Octet, Place, Weights

\* A sum of places has these places.
LEMMA FromPlaces ==
  ASSUME NEW b0 \in {0, 1}, NEW b1 \in {0, 1}, NEW b2 \in {0, 1}, NEW b3 \in {0, 1},
         NEW b4 \in {0, 1}, NEW b5 \in {0, 1}, NEW b6 \in {0, 1}, NEW b7 \in {0, 1},
         NEW n, n = b0 + 2 * b1 + 4 * b2 + 8 * b3 + 16 * b4 + 32 * b5 + 64 * b6 + 128 * b7
  PROVE  /\ n \in Octet
         /\ Place(n, 1) = b0 /\ Place(n, 2) = b1 /\ Place(n, 4) = b2 /\ Place(n, 8) = b3
         /\ Place(n, 16) = b4 /\ Place(n, 32) = b5 /\ Place(n, 64) = b6 /\ Place(n, 128) = b7
  BY DEF Octet, Place

\* Exclusive or adds the places without carry.
LEMMA XorPlaces ==
  ASSUME NEW a \in Octet, NEW b \in Octet
  PROVE  /\ a ++ b \in Octet
         /\ \A p \in Weights : Place(a ++ b, p) = (Place(a, p) + Place(b, p)) % 2
<1> DEFINE c(p) == (Place(a, p) + Place(b, p)) % 2
<1>1. \A p \in Weights : p * ((a \div p + b \div p) % 2) = p * c(p)
  BY DEF Octet, Place, Weights
<1>2. \A p \in Weights : c(p) \in {0, 1}
  BY PlacesAre DEF Weights
<1>3. a ++ b = c(1) + 2 * c(2) + 4 * c(4) + 8 * c(8) + 16 * c(16) + 32 * c(32)
               + 64 * c(64) + 128 * c(128)
  BY <1>1, <1>2 DEF ++, XorOf, Weights
<1> HIDE DEF c
<1> QED
  BY <1>2, <1>3, FromPlaces DEF Weights, c

\* Whether a byte has the bit of weight p, and exclusive or of truth values.
On(a, p) == Place(a, p) = 1
Odd(u, v) == ~(u <=> v)

LEMMA XorOn ==
  ASSUME NEW a \in Octet, NEW b \in Octet
  PROVE  /\ a ++ b \in Octet
         /\ \A p \in Weights : On(a ++ b, p) <=> Odd(On(a, p), On(b, p))
<1>1. a ++ b \in Octet /\ \A p \in Weights : Place(a ++ b, p) = (Place(a, p) + Place(b, p)) % 2
  BY XorPlaces
<1>2. \A p \in Weights : Place(a, p) \in {0, 1} /\ Place(b, p) \in {0, 1}
  BY PlacesAre
<1> QED
  BY <1>1, <1>2 DEF On, Odd

\* Bytes with the same bits are equal.
LEMMA SameOn ==
  ASSUME NEW a \in Octet, NEW b \in Octet, \A p \in Weights : On(a, p) <=> On(b, p)
  PROVE  a = b
<1>1. \A p \in Weights : Place(a, p) \in {0, 1} /\ Place(b, p) \in {0, 1}
  BY PlacesAre
<1>2. \A p \in Weights : Place(a, p) = Place(b, p)
  BY <1>1 DEF On
<1> QED
  BY <1>2, PlacesAre DEF Weights

\* A byte that is added twice leaves the other.
LEMMA XorUndone ==
  ASSUME NEW a \in Octet, NEW b \in Octet
  PROVE  (a ++ b) ++ b = a
<1>1. a ++ b \in Octet /\ (a ++ b) ++ b \in Octet
  BY XorOn
<1>2. \A p \in Weights : On((a ++ b) ++ b, p) <=> On(a, p)
  BY <1>1, XorOn DEF Odd
<1> QED
  BY <1>1, <1>2, SameOn

\* xtime moves each bit up and adds the modulus for the one that falls out.
LEMMA XtimeOn ==
  ASSUME NEW a \in Octet
  PROVE  /\ xtime(a) \in Octet
         /\ On(xtime(a), 1) <=> On(a, 128)
         /\ On(xtime(a), 2) <=> Odd(On(a, 1), On(a, 128))
         /\ On(xtime(a), 4) <=> On(a, 2)
         /\ On(xtime(a), 8) <=> Odd(On(a, 4), On(a, 128))
         /\ On(xtime(a), 16) <=> Odd(On(a, 8), On(a, 128))
         /\ On(xtime(a), 32) <=> On(a, 16)
         /\ On(xtime(a), 64) <=> On(a, 32)
         /\ On(xtime(a), 128) <=> On(a, 64)
<1> DEFINE s == (2 * a) % 256
           q == IF a >= 128 THEN 27 ELSE 0
<1>1. s \in Octet /\ q \in Octet
  BY DEF Octet
<1>2. /\ Place(s, 1) = 0 /\ Place(s, 2) = Place(a, 1) /\ Place(s, 4) = Place(a, 2)
      /\ Place(s, 8) = Place(a, 4) /\ Place(s, 16) = Place(a, 8)
      /\ Place(s, 32) = Place(a, 16) /\ Place(s, 64) = Place(a, 32)
      /\ Place(s, 128) = Place(a, 64)
  BY DEF Octet, Place
<1>3. a >= 128 <=> Place(a, 128) = 1
  BY DEF Octet, Place
<1>4. /\ \A p \in {1, 2, 8, 16} : On(q, p) <=> On(a, 128)
      /\ \A p \in {4, 32, 64, 128} : ~On(q, p)
  BY <1>3 DEF Octet, Place, On
<1>5. xtime(a) = s ++ q
  BY DEF xtime
<1> HIDE DEF s, q
<1>6. /\ xtime(a) \in Octet
      /\ \A p \in Weights : On(xtime(a), p) <=> Odd(On(s, p), On(q, p))
  BY <1>1, <1>5, XorOn
<1> QED
  BY <1>2, <1>4, <1>6 DEF Weights, On, Odd

\* xtime of a sum is the sum of the two xtime.
LEMMA XtimeAdds ==
  ASSUME NEW a \in Octet, NEW b \in Octet
  PROVE  xtime(a ++ b) = xtime(a) ++ xtime(b)
<1>1. a ++ b \in Octet /\ xtime(a) \in Octet /\ xtime(b) \in Octet
      /\ xtime(a ++ b) \in Octet /\ xtime(a) ++ xtime(b) \in Octet
  BY XorOn, XtimeOn
<1>2. /\ \A p \in Weights : On(a ++ b, p) <=> Odd(On(a, p), On(b, p))
      /\ \A p \in Weights : On(xtime(a) ++ xtime(b), p)
                              <=> Odd(On(xtime(a), p), On(xtime(b), p))
  BY <1>1, XorOn
<1>3. ASSUME NEW p \in Weights
      PROVE  On(xtime(a ++ b), p) <=> On(xtime(a) ++ xtime(b), p)
  BY <1>1, <1>2, XtimeOn DEF Weights, Odd
<1> QED
  BY <1>1, <1>3, SameOn

\* mul_bytes goes through a sequence of turns.
LEMMA MulTurns ==
  ASSUME NEW a, NEW b
  PROVE  \E m : /\ m[0] = [p |-> 0, a |-> a, b |-> b]
                /\ \A k \in 1 .. 8 : m[k] = MulStep(m[k - 1])
                /\ mul_bytes(a, b) = m[8].p
<1> DEFINE m0 == [p |-> 0, a |-> a, b |-> b]
           m1 == MulStep(m0)
           m2 == MulStep(m1)
           m3 == MulStep(m2)
           m4 == MulStep(m3)
           m5 == MulStep(m4)
           m6 == MulStep(m5)
           m7 == MulStep(m6)
           m8 == MulStep(m7)
           Is(m) == m = [k \in 0 .. 8 |-> IF k = 0 THEN m0 ELSE MulStep(m[k - 1])]
           all == <<m0, m1, m2, m3, m4, m5, m6, m7, m8>>
           g == [k \in 0 .. 8 |-> all[k + 1]]
<1> HIDE DEF m0
<1>1. Is(g)
  <2>1. ASSUME NEW k \in 1 .. 8 PROVE g[k] = MulStep(g[k - 1])
    <3>1. g[k] = all[k + 1] /\ g[k - 1] = all[k]
      OBVIOUS
    <3> HIDE DEF g
    <3>2. k \in {1, 2, 3, 4, 5, 6, 7, 8}
      OBVIOUS
    <3> QED
      BY <3>1, <3>2
  <2>2. g[0] = m0
    OBVIOUS
  <2> HIDE DEF all, m1
  <2>3. \A k \in 0 .. 8 : g[k] = IF k = 0 THEN m0 ELSE MulStep(g[k - 1])
    BY <2>1, <2>2
  <2> QED
    BY <2>3
<1>2. PICK m : Is(m) /\ mul_bytes(a, b) = m[8].p
  <2>1. mul_bytes(a, b) = (CHOOSE m : Is(m))[8].p
    BY DEF mul_bytes, m0
  <2> HIDE DEF Is
  <2> QED
    BY <1>1, <2>1
<1>3. m[0] = m0 /\ \A k \in 1 .. 8 : m[k] = MulStep(m[k - 1])
  BY <1>2
<1> QED
  BY <1>2, <1>3 DEF m0

\* What a turn adds is one bit of b times a.
LEMMA OneTurn ==
  ASSUME NEW r, NEW p \in Octet, NEW a \in Octet, NEW b \in Octet,
         r = [p |-> p, a |-> a, b |-> b]
  PROVE  /\ MulStep(r).p \in Octet
         /\ MulStep(r) = [p |-> MulStep(r).p, a |-> xtime(a), b |-> b \div 2]
         /\ \A q \in Weights : On(MulStep(r).p, q)
                                <=> Odd(On(p, q), b % 2 = 1 /\ On(a, q))
<1>1. MulStep(r) = [p |-> IF b % 2 = 1 THEN p ++ a ELSE p, a |-> xtime(a), b |-> b \div 2]
  BY DEF MulStep
<1>2. p ++ a \in Octet /\ \A q \in Weights : On(p ++ a, q) <=> Odd(On(p, q), On(a, q))
  BY XorOn
<1>3. MulStep(r).p = IF b % 2 = 1 THEN p ++ a ELSE p
  BY <1>1
<1> QED
  BY <1>1, <1>2, <1>3 DEF Odd

\* Halving again and again comes to every place.
LEMMA Halves ==
  ASSUME NEW x \in Octet
  PROVE  /\ (x \div 2) \div 2 = x \div 4 /\ (x \div 4) \div 2 = x \div 8
         /\ (x \div 8) \div 2 = x \div 16 /\ (x \div 16) \div 2 = x \div 32
         /\ (x \div 32) \div 2 = x \div 64 /\ (x \div 64) \div 2 = x \div 128
         /\ \A p \in Weights : x \div p \in Octet /\ ((x \div p) % 2 = 1 <=> On(x, p))
         /\ (x % 2 = 1 <=> On(x, 1))
<1>1. (x \div 2) \div 2 = x \div 4 /\ (x \div 4) \div 2 = x \div 8
  BY DEF Octet
<1>2. (x \div 8) \div 2 = x \div 16 /\ (x \div 16) \div 2 = x \div 32
  BY DEF Octet
<1>3. (x \div 32) \div 2 = x \div 64 /\ (x \div 64) \div 2 = x \div 128
  BY DEF Octet
<1>4. \A p \in Weights : x \div p \in Octet
  BY DEF Octet, Weights
<1>5. x % 2 = 1 <=> On(x, 1)
  BY DEF Octet, Place, On
<1> QED
  BY <1>1, <1>2, <1>3, <1>4, <1>5 DEF Place, On

\* The bits of a product are those of the other factor's doubles, one for each
\* bit of x.
LEMMA ProductOn ==
  ASSUME NEW c0 \in Octet, NEW x \in Octet,
         NEW c1, c1 = xtime(c0), NEW c2, c2 = xtime(c1), NEW c3, c3 = xtime(c2),
         NEW c4, c4 = xtime(c3), NEW c5, c5 = xtime(c4), NEW c6, c6 = xtime(c5),
         NEW c7, c7 = xtime(c6)
  PROVE  /\ mul_bytes(c0, x) \in Octet
         /\ \A q \in Weights :
              On(mul_bytes(c0, x), q)
                <=> Odd(Odd(Odd(Odd(Odd(Odd(Odd(On(x, 1) /\ On(c0, q), On(x, 2) /\ On(c1, q)),
                                              On(x, 4) /\ On(c2, q)),
                                          On(x, 8) /\ On(c3, q)),
                                      On(x, 16) /\ On(c4, q)),
                                  On(x, 32) /\ On(c5, q)),
                              On(x, 64) /\ On(c6, q)),
                          On(x, 128) /\ On(c7, q))
<1>1. PICK m : /\ m[0] = [p |-> 0, a |-> c0, b |-> x]
               /\ \A k \in 1 .. 8 : m[k] = MulStep(m[k - 1])
               /\ mul_bytes(c0, x) = m[8].p
  BY MulTurns
<1>2. 0 \in Octet /\ \A q \in Weights : ~On(0, q)
  BY DEF Octet, Place, Weights, On
<1>3. {c0, c1, c2, c3, c4, c5, c6, c7} \subseteq Octet
  BY XtimeOn
<1> DEFINE Turned(k, c, b) == m[k].p \in Octet /\ m[k] = [p |-> m[k].p, a |-> c, b |-> b]
           Adds(j, k, weight, c) == \A q \in Weights :
             On(m[k].p, q) <=> Odd(On(m[j].p, q), On(x, weight) /\ On(c, q))
<1>4. ASSUME NEW j, NEW k \in 1 .. 8, j = k - 1, NEW c \in Octet, NEW b \in Octet,
             Turned(j, c, b), NEW weight, b % 2 = 1 <=> On(x, weight),
             NEW d, d = xtime(c), NEW h, h = b \div 2
      PROVE  Turned(k, d, h) /\ Adds(j, k, weight, c)
  <2>1. m[k] = MulStep(m[j])
    BY <1>1, <1>4
  <2> QED
    BY <1>4, <2>1, OneTurn
<1>5. Turned(0, c0, x) /\ m[0].p = 0
  BY <1>1, <1>2
<1> HIDE DEF Turned, Adds
<1>6. Turned(1, c1, x \div 2) /\ Adds(0, 1, 1, c0)
  <2>1. 1 \in 1 .. 8 /\ 0 = 1 - 1 /\ c0 \in Octet
    BY <1>3
  <2>2. x \in Octet /\ (x % 2 = 1 <=> On(x, 1))
    BY Halves DEF Weights
  <2>3. x \div 2 = x \div 2
    BY Halves
  <2>4. Turned(0, c0, x)
    BY <1>5
  <2> QED
    BY <1>4, <2>1, <2>2, <2>3, <2>4
<1>7. Turned(2, c2, x \div 4) /\ Adds(1, 2, 2, c1)
  <2>1. 2 \in 1 .. 8 /\ 1 = 2 - 1 /\ c1 \in Octet
    BY <1>3
  <2>2. x \div 2 \in Octet /\ ((x \div 2) % 2 = 1 <=> On(x, 2))
    BY Halves DEF Weights
  <2>3. x \div 4 = (x \div 2) \div 2
    BY Halves
  <2>4. Turned(1, c1, x \div 2)
    BY <1>6
  <2> QED
    BY <1>4, <2>1, <2>2, <2>3, <2>4
<1>8. Turned(3, c3, x \div 8) /\ Adds(2, 3, 4, c2)
  <2>1. 3 \in 1 .. 8 /\ 2 = 3 - 1 /\ c2 \in Octet
    BY <1>3
  <2>2. x \div 4 \in Octet /\ ((x \div 4) % 2 = 1 <=> On(x, 4))
    BY Halves DEF Weights
  <2>3. x \div 8 = (x \div 4) \div 2
    BY Halves
  <2>4. Turned(2, c2, x \div 4)
    BY <1>7
  <2> QED
    BY <1>4, <2>1, <2>2, <2>3, <2>4
<1>9. Turned(4, c4, x \div 16) /\ Adds(3, 4, 8, c3)
  <2>1. 4 \in 1 .. 8 /\ 3 = 4 - 1 /\ c3 \in Octet
    BY <1>3
  <2>2. x \div 8 \in Octet /\ ((x \div 8) % 2 = 1 <=> On(x, 8))
    BY Halves DEF Weights
  <2>3. x \div 16 = (x \div 8) \div 2
    BY Halves
  <2>4. Turned(3, c3, x \div 8)
    BY <1>8
  <2> QED
    BY <1>4, <2>1, <2>2, <2>3, <2>4
<1>10. Turned(5, c5, x \div 32) /\ Adds(4, 5, 16, c4)
  <2>1. 5 \in 1 .. 8 /\ 4 = 5 - 1 /\ c4 \in Octet
    BY <1>3
  <2>2. x \div 16 \in Octet /\ ((x \div 16) % 2 = 1 <=> On(x, 16))
    BY Halves DEF Weights
  <2>3. x \div 32 = (x \div 16) \div 2
    BY Halves
  <2>4. Turned(4, c4, x \div 16)
    BY <1>9
  <2> QED
    BY <1>4, <2>1, <2>2, <2>3, <2>4
<1>11. Turned(6, c6, x \div 64) /\ Adds(5, 6, 32, c5)
  <2>1. 6 \in 1 .. 8 /\ 5 = 6 - 1 /\ c5 \in Octet
    BY <1>3
  <2>2. x \div 32 \in Octet /\ ((x \div 32) % 2 = 1 <=> On(x, 32))
    BY Halves DEF Weights
  <2>3. x \div 64 = (x \div 32) \div 2
    BY Halves
  <2>4. Turned(5, c5, x \div 32)
    BY <1>10
  <2> QED
    BY <1>4, <2>1, <2>2, <2>3, <2>4
<1>12. Turned(7, c7, x \div 128) /\ Adds(6, 7, 64, c6)
  <2>1. 7 \in 1 .. 8 /\ 6 = 7 - 1 /\ c6 \in Octet
    BY <1>3
  <2>2. x \div 64 \in Octet /\ ((x \div 64) % 2 = 1 <=> On(x, 64))
    BY Halves DEF Weights
  <2>3. x \div 128 = (x \div 64) \div 2
    BY Halves
  <2>4. Turned(6, c6, x \div 64)
    BY <1>11
  <2> QED
    BY <1>4, <2>1, <2>2, <2>3, <2>4
<1>13. Turned(8, xtime(c7), (x \div 128) \div 2) /\ Adds(7, 8, 128, c7)
  <2>1. 8 \in 1 .. 8 /\ 7 = 8 - 1 /\ c7 \in Octet
    BY <1>3
  <2>2. x \div 128 \in Octet /\ ((x \div 128) % 2 = 1 <=> On(x, 128))
    BY Halves DEF Weights
  <2>3. (x \div 128) \div 2 = (x \div 128) \div 2
    BY Halves
  <2>4. Turned(7, c7, x \div 128)
    BY <1>12
  <2> QED
    BY <1>4, <2>1, <2>2, <2>3, <2>4
<1>14. mul_bytes(c0, x) \in Octet
  BY <1>1, <1>13 DEF Turned
<1> QED
  BY <1>1, <1>2, <1>5, <1>6, <1>7, <1>8, <1>9, <1>10, <1>11, <1>12, <1>13, <1>14 DEF Adds, Odd

\* The bytes that mul_bytes' first operand goes through when it is 9.
LEMMA Doubles9 ==
  /\ 18 = xtime(9) /\ 36 = xtime(18) /\ 72 = xtime(36) /\ 144 = xtime(72)
  /\ 59 = xtime(144) /\ 118 = xtime(59) /\ 236 = xtime(118)
  BY DEF xtime, ++, XorOf, Octet

\* InvMixColumns' four factors: 9 x is x doubled three times, and x; and so on.
LEMMA Product9 ==
  ASSUME NEW x \in Octet, NEW X, X = xtime(x), NEW X2, X2 = xtime(X), NEW X3, X3 = xtime(X2)
  PROVE  /\ mul_bytes(9, x) \in Octet
         /\ \A q \in Weights : On(mul_bytes(9, x), q) <=> Odd(On(X3, q), On(x, q))
<1>1. /\ mul_bytes(9, x) \in Octet
      /\ \A q \in Weights :
           On(mul_bytes(9, x), q)
             <=> Odd(Odd(Odd(Odd(Odd(Odd(Odd(On(x, 1) /\ On(9, q), On(x, 2) /\ On(18, q)),
                                           On(x, 4) /\ On(36, q)),
                                       On(x, 8) /\ On(72, q)),
                                   On(x, 16) /\ On(144, q)),
                               On(x, 32) /\ On(59, q)),
                           On(x, 64) /\ On(118, q)),
                       On(x, 128) /\ On(236, q))
  <2>1. 9 \in Octet
    BY DEF Octet
  <2> QED
    BY <2>1, Doubles9, ProductOn
<1>2. \A q \in Weights : /\ (On(9, q) <=> q \in {1, 8})
                          /\ (On(18, q) <=> q \in {2, 16})
                          /\ (On(36, q) <=> q \in {4, 32})
                          /\ (On(72, q) <=> q \in {8, 64})
                          /\ (On(144, q) <=> q \in {16, 128})
                          /\ (On(59, q) <=> q \in {1, 2, 8, 16, 32})
                          /\ (On(118, q) <=> q \in {2, 4, 16, 32, 64})
                          /\ (On(236, q) <=> q \in {4, 8, 32, 64, 128})
  BY DEF On, Place, Weights
<1>3. X \in Octet /\ X2 \in Octet /\ X3 \in Octet
  BY XtimeOn
<1>4. \A q \in Weights : On(mul_bytes(9, x), q) <=> Odd(On(X3, q), On(x, q))
  BY <1>1, <1>2, <1>3, XtimeOn DEF Weights, Odd
<1> QED
  BY <1>1, <1>4

\* The same for 11, 13 and 14.
LEMMA Doubles11 ==
  /\ 22 = xtime(11) /\ 44 = xtime(22) /\ 88 = xtime(44) /\ 176 = xtime(88)
  /\ 123 = xtime(176) /\ 246 = xtime(123) /\ 247 = xtime(246)
  BY DEF xtime, ++, XorOf, Octet

LEMMA Product11 ==
  ASSUME NEW x \in Octet, NEW X, X = xtime(x), NEW X2, X2 = xtime(X), NEW X3, X3 = xtime(X2)
  PROVE  /\ mul_bytes(11, x) \in Octet
         /\ \A q \in Weights : On(mul_bytes(11, x), q) <=> Odd(Odd(On(X3, q), On(X, q)), On(x, q))
<1>1. /\ mul_bytes(11, x) \in Octet
      /\ \A q \in Weights :
           On(mul_bytes(11, x), q)
             <=> Odd(Odd(Odd(Odd(Odd(Odd(Odd(On(x, 1) /\ On(11, q), On(x, 2) /\ On(22, q)),
                                           On(x, 4) /\ On(44, q)),
                                       On(x, 8) /\ On(88, q)),
                                   On(x, 16) /\ On(176, q)),
                               On(x, 32) /\ On(123, q)),
                           On(x, 64) /\ On(246, q)),
                       On(x, 128) /\ On(247, q))
  <2>1. 11 \in Octet
    BY DEF Octet
  <2> QED
    BY <2>1, Doubles11, ProductOn
<1>2. \A q \in Weights : /\ (On(11, q) <=> q \in {1, 2, 8})
                          /\ (On(22, q) <=> q \in {2, 4, 16})
                          /\ (On(44, q) <=> q \in {4, 8, 32})
                          /\ (On(88, q) <=> q \in {8, 16, 64})
                          /\ (On(176, q) <=> q \in {16, 32, 128})
                          /\ (On(123, q) <=> q \in {1, 2, 8, 16, 32, 64})
                          /\ (On(246, q) <=> q \in {2, 4, 16, 32, 64, 128})
                          /\ (On(247, q) <=> q \in {1, 2, 4, 16, 32, 64, 128})
  BY DEF On, Place, Weights
<1>3. X \in Octet /\ X2 \in Octet /\ X3 \in Octet
  BY XtimeOn
<1>4. \A q \in Weights : On(mul_bytes(11, x), q) <=> Odd(Odd(On(X3, q), On(X, q)), On(x, q))
  BY <1>1, <1>2, <1>3, XtimeOn DEF Weights, Odd
<1> QED
  BY <1>1, <1>4

LEMMA Doubles13 ==
  /\ 26 = xtime(13) /\ 52 = xtime(26) /\ 104 = xtime(52) /\ 208 = xtime(104)
  /\ 187 = xtime(208) /\ 109 = xtime(187) /\ 218 = xtime(109)
  BY DEF xtime, ++, XorOf, Octet

LEMMA Product13 ==
  ASSUME NEW x \in Octet, NEW X, X = xtime(x), NEW X2, X2 = xtime(X), NEW X3, X3 = xtime(X2)
  PROVE  /\ mul_bytes(13, x) \in Octet
         /\ \A q \in Weights : On(mul_bytes(13, x), q) <=> Odd(Odd(On(X3, q), On(X2, q)), On(x, q))
<1>1. /\ mul_bytes(13, x) \in Octet
      /\ \A q \in Weights :
           On(mul_bytes(13, x), q)
             <=> Odd(Odd(Odd(Odd(Odd(Odd(Odd(On(x, 1) /\ On(13, q), On(x, 2) /\ On(26, q)),
                                           On(x, 4) /\ On(52, q)),
                                       On(x, 8) /\ On(104, q)),
                                   On(x, 16) /\ On(208, q)),
                               On(x, 32) /\ On(187, q)),
                           On(x, 64) /\ On(109, q)),
                       On(x, 128) /\ On(218, q))
  <2>1. 13 \in Octet
    BY DEF Octet
  <2> QED
    BY <2>1, Doubles13, ProductOn
<1>2. \A q \in Weights : /\ (On(13, q) <=> q \in {1, 4, 8})
                          /\ (On(26, q) <=> q \in {2, 8, 16})
                          /\ (On(52, q) <=> q \in {4, 16, 32})
                          /\ (On(104, q) <=> q \in {8, 32, 64})
                          /\ (On(208, q) <=> q \in {16, 64, 128})
                          /\ (On(187, q) <=> q \in {1, 2, 8, 16, 32, 128})
                          /\ (On(109, q) <=> q \in {1, 4, 8, 32, 64})
                          /\ (On(218, q) <=> q \in {2, 8, 16, 64, 128})
  BY DEF On, Place, Weights
<1>3. X \in Octet /\ X2 \in Octet /\ X3 \in Octet
  BY XtimeOn
<1>4. \A q \in Weights : On(mul_bytes(13, x), q) <=> Odd(Odd(On(X3, q), On(X2, q)), On(x, q))
  BY <1>1, <1>2, <1>3, XtimeOn DEF Weights, Odd
<1> QED
  BY <1>1, <1>4

LEMMA Doubles14 ==
  /\ 28 = xtime(14) /\ 56 = xtime(28) /\ 112 = xtime(56) /\ 224 = xtime(112)
  /\ 219 = xtime(224) /\ 173 = xtime(219) /\ 65 = xtime(173)
  BY DEF xtime, ++, XorOf, Octet

LEMMA Product14 ==
  ASSUME NEW x \in Octet, NEW X, X = xtime(x), NEW X2, X2 = xtime(X), NEW X3, X3 = xtime(X2)
  PROVE  /\ mul_bytes(14, x) \in Octet
         /\ \A q \in Weights : On(mul_bytes(14, x), q) <=> Odd(Odd(On(X3, q), On(X2, q)), On(X, q))
<1>1. /\ mul_bytes(14, x) \in Octet
      /\ \A q \in Weights :
           On(mul_bytes(14, x), q)
             <=> Odd(Odd(Odd(Odd(Odd(Odd(Odd(On(x, 1) /\ On(14, q), On(x, 2) /\ On(28, q)),
                                           On(x, 4) /\ On(56, q)),
                                       On(x, 8) /\ On(112, q)),
                                   On(x, 16) /\ On(224, q)),
                               On(x, 32) /\ On(219, q)),
                           On(x, 64) /\ On(173, q)),
                       On(x, 128) /\ On(65, q))
  <2>1. 14 \in Octet
    BY DEF Octet
  <2> QED
    BY <2>1, Doubles14, ProductOn
<1>2. \A q \in Weights : /\ (On(14, q) <=> q \in {2, 4, 8})
                          /\ (On(28, q) <=> q \in {4, 8, 16})
                          /\ (On(56, q) <=> q \in {8, 16, 32})
                          /\ (On(112, q) <=> q \in {16, 32, 64})
                          /\ (On(224, q) <=> q \in {32, 64, 128})
                          /\ (On(219, q) <=> q \in {1, 2, 8, 16, 64, 128})
                          /\ (On(173, q) <=> q \in {1, 4, 8, 32, 128})
                          /\ (On(65, q) <=> q \in {1, 64})
  BY DEF On, Place, Weights
<1>3. X \in Octet /\ X2 \in Octet /\ X3 \in Octet
  BY XtimeOn
<1>4. \A q \in Weights : On(mul_bytes(14, x), q) <=> Odd(Odd(On(X3, q), On(X2, q)), On(X, q))
  BY <1>1, <1>2, <1>3, XtimeOn DEF Weights, Odd
<1> QED
  BY <1>1, <1>4

\* A byte of a mixed column.
Mixed(a1, a2, a3, a4) == xtime(a1) ++ a4 ++ a3 ++ xtime(a2) ++ a2

\* Four doublings of a byte, and the bits of a mixed byte after k of them.
Doubled(x) == <<x, xtime(x), xtime(xtime(x)), xtime(xtime(xtime(x))),
                xtime(xtime(xtime(xtime(x))))>>
Sum5(u, v, x, y, z) == Odd(Odd(Odd(Odd(u, v), x), y), z)

\* The doubles of a byte are bytes.
LEMMA DoubledIn ==
  ASSUME NEW x \in Octet
  PROVE  \A k \in 1 .. 5 : Doubled(x)[k] \in Octet
<1>1. xtime(x) \in Octet
  BY XtimeOn
<1>2. xtime(xtime(x)) \in Octet
  BY <1>1, XtimeOn
<1>3. xtime(xtime(xtime(x))) \in Octet
  BY <1>2, XtimeOn
<1>4. xtime(xtime(xtime(xtime(x)))) \in Octet
  BY <1>3, XtimeOn
<1> QED
  BY <1>1, <1>2, <1>3, <1>4 DEF Doubled

\* The bits of a mixed byte.
LEMMA MixedOn ==
  ASSUME NEW a1 \in Octet, NEW a2 \in Octet, NEW a3 \in Octet, NEW a4 \in Octet
  PROVE  /\ Mixed(a1, a2, a3, a4) \in Octet
         /\ \A q \in Weights :
              On(Mixed(a1, a2, a3, a4), q)
                <=> Sum5(On(xtime(a1), q), On(a4, q), On(a3, q), On(xtime(a2), q), On(a2, q))
<1> DEFINE x1 == xtime(a1)
           x2 == xtime(a2)
           Sum(n, c, d) == /\ n \in Octet
                           /\ \A q \in Weights : On(n, q) <=> Odd(On(c, q), On(d, q))
<1>1. x1 \in Octet /\ x2 \in Octet
  BY XtimeOn
<1>2. \A c, d \in Octet : Sum(c ++ d, c, d)
  BY XorOn
<1>3. Mixed(a1, a2, a3, a4) = x1 ++ a4 ++ a3 ++ x2 ++ a2
  BY DEF Mixed
<1> HIDE DEF x1, x2
<1>4. Sum(x1 ++ a4, x1, a4)
  BY <1>1, <1>2
<1>5. Sum(x1 ++ a4 ++ a3, x1 ++ a4, a3)
  BY <1>2, <1>4
<1>6. Sum(x1 ++ a4 ++ a3 ++ x2, x1 ++ a4 ++ a3, x2)
  BY <1>1, <1>2, <1>5
<1>7. Sum(x1 ++ a4 ++ a3 ++ x2 ++ a2, x1 ++ a4 ++ a3 ++ x2, a2)
  BY <1>2, <1>6
<1> QED
  BY <1>3, <1>4, <1>5, <1>6, <1>7 DEF Sum5, Odd, x1, x2

\* Doubling a mixed byte is mixing the doubles.
LEMMA XtimeMixed ==
  ASSUME NEW a1 \in Octet, NEW a2 \in Octet, NEW a3 \in Octet, NEW a4 \in Octet
  PROVE  xtime(Mixed(a1, a2, a3, a4)) = Mixed(xtime(a1), xtime(a2), xtime(a3), xtime(a4))
<1>1. xtime(a1) \in Octet /\ xtime(a2) \in Octet
  BY XtimeOn
<1>2. xtime(a1) ++ a4 \in Octet
  BY <1>1, XorOn
<1>3. xtime(a1) ++ a4 ++ a3 \in Octet
  BY <1>2, XorOn
<1>4. xtime(a1) ++ a4 ++ a3 ++ xtime(a2) \in Octet
  BY <1>1, <1>3, XorOn
<1> QED
  BY <1>1, <1>2, <1>3, <1>4, XtimeAdds DEF Mixed

\* The bits of a mixed byte's three doubles, and with them those of its products.
LEMMA MixedDoubles ==
  ASSUME NEW a1 \in Octet, NEW a2 \in Octet, NEW a3 \in Octet, NEW a4 \in Octet
  PROVE  \A k \in 1 .. 4 : \A q \in Weights :
           On(Doubled(Mixed(a1, a2, a3, a4))[k], q)
             <=> Sum5(On(Doubled(a1)[k + 1], q), On(Doubled(a4)[k], q), On(Doubled(a3)[k], q),
                      On(Doubled(a2)[k + 1], q), On(Doubled(a2)[k], q))
<1> DEFINE m(k) == Mixed(Doubled(a1)[k], Doubled(a2)[k], Doubled(a3)[k], Doubled(a4)[k])
           In(k) == /\ Doubled(a1)[k] \in Octet /\ Doubled(a2)[k] \in Octet
                    /\ Doubled(a3)[k] \in Octet /\ Doubled(a4)[k] \in Octet
<1>1. \A x : \A k \in 1 .. 4 : Doubled(x)[k + 1] = xtime(Doubled(x)[k])
  <2>1. \A x : Doubled(x)[1] = x /\ Doubled(x)[2] = xtime(x) /\ Doubled(x)[3] = xtime(xtime(x))
               /\ Doubled(x)[4] = xtime(xtime(xtime(x)))
               /\ Doubled(x)[5] = xtime(xtime(xtime(xtime(x))))
    BY DEF Doubled
  <2> QED
    BY <2>1
<1>2. \A k \in 1 .. 5 : In(k)
  BY DoubledIn
<1>3. \A k \in 1 .. 4 : m(k + 1) = xtime(m(k))
  <2>1. ASSUME NEW k \in 1 .. 4 PROVE m(k + 1) = xtime(m(k))
    <3>1. In(k)
      BY <1>2
    <3>2. \A b1, b2, b3, b4 \in Octet :
            xtime(Mixed(b1, b2, b3, b4)) = Mixed(xtime(b1), xtime(b2), xtime(b3), xtime(b4))
      BY XtimeMixed
    <3>3. /\ Doubled(a1)[k + 1] = xtime(Doubled(a1)[k])
          /\ Doubled(a2)[k + 1] = xtime(Doubled(a2)[k])
          /\ Doubled(a3)[k + 1] = xtime(Doubled(a3)[k])
          /\ Doubled(a4)[k + 1] = xtime(Doubled(a4)[k])
      BY <1>1
    <3> DEFINE d1 == Doubled(a1)[k]
               d2 == Doubled(a2)[k]
               d3 == Doubled(a3)[k]
               d4 == Doubled(a4)[k]
    <3> HIDE DEF d1, d2, d3, d4
    <3>4. d1 \in Octet /\ d2 \in Octet /\ d3 \in Octet /\ d4 \in Octet
      BY <3>1 DEF d1, d2, d3, d4
    <3>5. xtime(Mixed(d1, d2, d3, d4)) = Mixed(xtime(d1), xtime(d2), xtime(d3), xtime(d4))
      BY <3>2, <3>4
    <3> QED
      BY <3>3, <3>5 DEF d1, d2, d3, d4
  <2> QED
    BY <2>1
<1>4. \A k \in 1 .. 4 : Doubled(Mixed(a1, a2, a3, a4))[k] = m(k)
  <2>1. m(1) = Mixed(a1, a2, a3, a4)
    BY DEF Doubled
  <2>2. m(2) = xtime(m(1)) /\ m(3) = xtime(m(2)) /\ m(4) = xtime(m(3))
    BY <1>3
  <2> HIDE DEF m
  <2>3. /\ Doubled(m(1))[1] = m(1) /\ Doubled(m(1))[2] = xtime(m(1))
        /\ Doubled(m(1))[3] = xtime(xtime(m(1)))
        /\ Doubled(m(1))[4] = xtime(xtime(xtime(m(1))))
    BY DEF Doubled
  <2> QED
    BY <2>1, <2>2, <2>3
<1>5. ASSUME NEW k \in 1 .. 4, NEW q \in Weights
      PROVE  On(m(k), q)
               <=> Sum5(On(Doubled(a1)[k + 1], q), On(Doubled(a4)[k], q), On(Doubled(a3)[k], q),
                        On(Doubled(a2)[k + 1], q), On(Doubled(a2)[k], q))
  <2>1. In(k)
    BY <1>2
  <2> QED
    BY <1>1, <2>1, MixedOn
<1> QED
  BY <1>4, <1>5

\* The bits of the four products, in those of the doubles.
LEMMA ProductsOn ==
  ASSUME NEW x \in Octet, NEW q \in Weights
  PROVE  /\ On(mul_bytes(9, x), q) <=> Odd(On(Doubled(x)[4], q), On(Doubled(x)[1], q))
         /\ On(mul_bytes(11, x), q)
              <=> Odd(Odd(On(Doubled(x)[4], q), On(Doubled(x)[2], q)), On(Doubled(x)[1], q))
         /\ On(mul_bytes(13, x), q)
              <=> Odd(Odd(On(Doubled(x)[4], q), On(Doubled(x)[3], q)), On(Doubled(x)[1], q))
         /\ On(mul_bytes(14, x), q)
              <=> Odd(Odd(On(Doubled(x)[4], q), On(Doubled(x)[3], q)), On(Doubled(x)[2], q))
<1>1. /\ Doubled(x)[1] = x /\ Doubled(x)[2] = xtime(x) /\ Doubled(x)[3] = xtime(xtime(x))
      /\ Doubled(x)[4] = xtime(xtime(xtime(x)))
  BY DEF Doubled
<1> QED
  BY <1>1, Product9, Product11, Product13, Product14

\* The products of four mixed bytes add up to the first byte they were made of.
LEMMA ByteBack ==
  ASSUME NEW a1 \in Octet, NEW a2 \in Octet, NEW a3 \in Octet, NEW a4 \in Octet,
         NEW m1, m1 = Mixed(a1, a2, a3, a4), NEW m2, m2 = Mixed(a2, a3, a4, a1),
         NEW m3, m3 = Mixed(a3, a4, a1, a2), NEW m4, m4 = Mixed(a4, a1, a2, a3)
  PROVE  \A q \in Weights :
           On(a1, q) <=> Odd(Odd(Odd(On(mul_bytes(14, m1), q), On(mul_bytes(11, m2), q)),
                                 On(mul_bytes(13, m3), q)), On(mul_bytes(9, m4), q))
<1> SUFFICES ASSUME NEW q \in Weights
             PROVE  On(a1, q)
                      <=> Odd(Odd(Odd(On(mul_bytes(14, m1), q), On(mul_bytes(11, m2), q)),
                                  On(mul_bytes(13, m3), q)), On(mul_bytes(9, m4), q))
  OBVIOUS
<1> DEFINE b1(k) == On(Doubled(a1)[k], q)
           b2(k) == On(Doubled(a2)[k], q)
           b3(k) == On(Doubled(a3)[k], q)
           b4(k) == On(Doubled(a4)[k], q)
           n1(k) == On(Doubled(m1)[k], q)
           n2(k) == On(Doubled(m2)[k], q)
           n3(k) == On(Doubled(m3)[k], q)
           n4(k) == On(Doubled(m4)[k], q)
<1>1. m1 \in Octet /\ m2 \in Octet /\ m3 \in Octet /\ m4 \in Octet
  BY MixedOn
<1>2. /\ On(mul_bytes(14, m1), q) <=> Odd(Odd(n1(4), n1(3)), n1(2))
      /\ On(mul_bytes(11, m2), q) <=> Odd(Odd(n2(4), n2(2)), n2(1))
      /\ On(mul_bytes(13, m3), q) <=> Odd(Odd(n3(4), n3(3)), n3(1))
      /\ On(mul_bytes(9, m4), q) <=> Odd(n4(4), n4(1))
  BY <1>1, ProductsOn
<1>3. \A k \in 1 .. 4 :
        /\ n1(k) <=> Sum5(b1(k + 1), b4(k), b3(k), b2(k + 1), b2(k))
        /\ n2(k) <=> Sum5(b2(k + 1), b1(k), b4(k), b3(k + 1), b3(k))
        /\ n3(k) <=> Sum5(b3(k + 1), b2(k), b1(k), b4(k + 1), b4(k))
        /\ n4(k) <=> Sum5(b4(k + 1), b3(k), b2(k), b1(k + 1), b1(k))
  BY MixedDoubles
<1>4. b1(1) <=> On(a1, q)
  BY DEF Doubled
<1> HIDE DEF b1, b2, b3, b4, n1, n2, n3, n4
<1>5. /\ n1(4) <=> Sum5(b1(5), b4(4), b3(4), b2(5), b2(4))
      /\ n1(3) <=> Sum5(b1(4), b4(3), b3(3), b2(4), b2(3))
      /\ n1(2) <=> Sum5(b1(3), b4(2), b3(2), b2(3), b2(2))
  BY <1>3
<1>6. /\ n2(4) <=> Sum5(b2(5), b1(4), b4(4), b3(5), b3(4))
      /\ n2(2) <=> Sum5(b2(3), b1(2), b4(2), b3(3), b3(2))
      /\ n2(1) <=> Sum5(b2(2), b1(1), b4(1), b3(2), b3(1))
  BY <1>3
<1>7. /\ n3(4) <=> Sum5(b3(5), b2(4), b1(4), b4(5), b4(4))
      /\ n3(3) <=> Sum5(b3(4), b2(3), b1(3), b4(4), b4(3))
      /\ n3(1) <=> Sum5(b3(2), b2(1), b1(1), b4(2), b4(1))
  BY <1>3
<1>8. /\ n4(4) <=> Sum5(b4(5), b3(4), b2(4), b1(5), b1(4))
      /\ n4(1) <=> Sum5(b4(2), b3(1), b2(1), b1(2), b1(1))
  BY <1>3
<1> QED
  BY <1>2, <1>4, <1>5, <1>6, <1>7, <1>8 DEF Odd, Sum5

\* The table of the products holds what mul_bytes gives, and that is a byte.
LEMMA TimesAre ==
  ASSUME NEW x \in Octet
  PROVE  /\ Times[9][x] = mul_bytes(9, x) /\ Times[11][x] = mul_bytes(11, x)
         /\ Times[13][x] = mul_bytes(13, x) /\ Times[14][x] = mul_bytes(14, x)
         /\ mul_bytes(9, x) \in Octet /\ mul_bytes(11, x) \in Octet
         /\ mul_bytes(13, x) \in Octet /\ mul_bytes(14, x) \in Octet
  BY Product9, Product11, Product13, Product14 DEF Times

\* Four bytes that are added give the bits' sum.
LEMMA FourOn ==
  ASSUME NEW a \in Octet, NEW b \in Octet, NEW c \in Octet, NEW d \in Octet
  PROVE  /\ a ++ b ++ c ++ d \in Octet
         /\ \A q \in Weights : On(a ++ b ++ c ++ d, q)
                                 <=> Odd(Odd(Odd(On(a, q), On(b, q)), On(c, q)), On(d, q))
<1> DEFINE Sum(n, u, v) == /\ n \in Octet
                           /\ \A q \in Weights : On(n, q) <=> Odd(On(u, q), On(v, q))
<1>1. Sum(a ++ b, a, b)
  BY XorOn
<1>2. Sum(a ++ b ++ c, a ++ b, c)
  BY <1>1, XorOn
<1>3. Sum(a ++ b ++ c ++ d, a ++ b ++ c, d)
  BY <1>2, XorOn
<1> QED
  BY <1>1, <1>2, <1>3 DEF Odd

\* InvMixColumns undoes MixSingleColumn.
LEMMA ColumnUndone ==
  ASSUME NEW a \in [1 .. 4 -> Octet]
  PROVE  /\ MixSingleColumn(a) \in [1 .. 4 -> Octet]
         /\ \A r \in 1 .. 4 : InvSingleColumn(MixSingleColumn(a))[r] = a[r]
<1> DEFINE a1 == a[1]
           a2 == a[2]
           a3 == a[3]
           a4 == a[4]
           s == MixSingleColumn(a)
           m1 == Mixed(a1, a2, a3, a4)
           m2 == Mixed(a2, a3, a4, a1)
           m3 == Mixed(a3, a4, a1, a2)
           m4 == Mixed(a4, a1, a2, a3)
<1>1. a1 \in Octet /\ a2 \in Octet /\ a3 \in Octet /\ a4 \in Octet
  OBVIOUS
<1>2. s = <<m1, m2, m3, m4>>
  BY DEF MixSingleColumn, Mixed
<1>3. m1 \in Octet /\ m2 \in Octet /\ m3 \in Octet /\ m4 \in Octet
  BY <1>1, MixedOn
<1>4. s \in [1 .. 4 -> Octet] /\ s[1] = m1 /\ s[2] = m2 /\ s[3] = m3 /\ s[4] = m4
  <2> HIDE DEF m1, m2, m3, m4, s
  <2> QED
    BY <1>2, <1>3
<1> DEFINE Row1 == Times[14][m1] ++ Times[11][m2] ++ Times[13][m3] ++ Times[9][m4]
           Row2 == Times[9][m1] ++ Times[14][m2] ++ Times[11][m3] ++ Times[13][m4]
           Row3 == Times[13][m1] ++ Times[9][m2] ++ Times[14][m3] ++ Times[11][m4]
           Row4 == Times[11][m1] ++ Times[13][m2] ++ Times[9][m3] ++ Times[14][m4]
<1>5. /\ InvSingleColumn(s)[1] = Row1 /\ InvSingleColumn(s)[2] = Row2
      /\ InvSingleColumn(s)[3] = Row3 /\ InvSingleColumn(s)[4] = Row4
  <2> HIDE DEF m1, m2, m3, m4, s
  <2> QED
    BY <1>4 DEF InvSingleColumn
<1>6. /\ \A q \in Weights :
           On(a1, q) <=> Odd(Odd(Odd(On(mul_bytes(14, m1), q), On(mul_bytes(11, m2), q)),
                                 On(mul_bytes(13, m3), q)), On(mul_bytes(9, m4), q))
      /\ \A q \in Weights :
           On(a2, q) <=> Odd(Odd(Odd(On(mul_bytes(14, m2), q), On(mul_bytes(11, m3), q)),
                                 On(mul_bytes(13, m4), q)), On(mul_bytes(9, m1), q))
      /\ \A q \in Weights :
           On(a3, q) <=> Odd(Odd(Odd(On(mul_bytes(14, m3), q), On(mul_bytes(11, m4), q)),
                                 On(mul_bytes(13, m1), q)), On(mul_bytes(9, m2), q))
      /\ \A q \in Weights :
           On(a4, q) <=> Odd(Odd(Odd(On(mul_bytes(14, m4), q), On(mul_bytes(11, m1), q)),
                                 On(mul_bytes(13, m2), q)), On(mul_bytes(9, m3), q))
  <2> HIDE DEF a1, a2, a3, a4
  <2> QED
    BY <1>1, ByteBack
<1> HIDE DEF a1, a2, a3, a4, m1, m2, m3, m4, s
<1>7. \A x \in {m1, m2, m3, m4} :
         /\ Times[9][x] = mul_bytes(9, x) /\ Times[11][x] = mul_bytes(11, x)
         /\ Times[13][x] = mul_bytes(13, x) /\ Times[14][x] = mul_bytes(14, x)
         /\ mul_bytes(9, x) \in Octet /\ mul_bytes(11, x) \in Octet
         /\ mul_bytes(13, x) \in Octet /\ mul_bytes(14, x) \in Octet
  BY <1>3, TimesAre
<1>8. Row1 = a1
  <2>0. Row1 = mul_bytes(14, m1) ++ mul_bytes(11, m2) ++ mul_bytes(13, m3) ++ mul_bytes(9, m4)
    BY <1>7
  <2>1. /\ Row1 \in Octet
        /\ \A q \in Weights :
             On(Row1, q) <=> Odd(Odd(Odd(On(mul_bytes(14, m1), q), On(mul_bytes(11, m2), q)),
                                     On(mul_bytes(13, m3), q)), On(mul_bytes(9, m4), q))
    BY <1>7, <2>0, FourOn
  <2> HIDE DEF Row1
  <2> QED
    BY <1>1, <1>6, <2>1, SameOn
<1>9. Row2 = a2
  <2>0. Row2 = mul_bytes(9, m1) ++ mul_bytes(14, m2) ++ mul_bytes(11, m3) ++ mul_bytes(13, m4)
    BY <1>7
  <2>1. /\ Row2 \in Octet
        /\ \A q \in Weights :
             On(Row2, q) <=> Odd(Odd(Odd(On(mul_bytes(9, m1), q), On(mul_bytes(14, m2), q)),
                                     On(mul_bytes(11, m3), q)), On(mul_bytes(13, m4), q))
    BY <1>7, <2>0, FourOn
  <2> HIDE DEF Row2
  <2>2. \A q \in Weights : On(Row2, q) <=> On(a2, q)
    BY <1>6, <2>1 DEF Odd
  <2> QED
    BY <1>1, <2>1, <2>2, SameOn
<1>10. Row3 = a3
  <2>0. Row3 = mul_bytes(13, m1) ++ mul_bytes(9, m2) ++ mul_bytes(14, m3) ++ mul_bytes(11, m4)
    BY <1>7
  <2>1. /\ Row3 \in Octet
        /\ \A q \in Weights :
             On(Row3, q) <=> Odd(Odd(Odd(On(mul_bytes(13, m1), q), On(mul_bytes(9, m2), q)),
                                     On(mul_bytes(14, m3), q)), On(mul_bytes(11, m4), q))
    BY <1>7, <2>0, FourOn
  <2> HIDE DEF Row3
  <2>2. \A q \in Weights : On(Row3, q) <=> On(a3, q)
    BY <1>6, <2>1 DEF Odd
  <2> QED
    BY <1>1, <2>1, <2>2, SameOn
<1>11. Row4 = a4
  <2>0. Row4 = mul_bytes(11, m1) ++ mul_bytes(13, m2) ++ mul_bytes(9, m3) ++ mul_bytes(14, m4)
    BY <1>7
  <2>1. /\ Row4 \in Octet
        /\ \A q \in Weights :
             On(Row4, q) <=> Odd(Odd(Odd(On(mul_bytes(11, m1), q), On(mul_bytes(13, m2), q)),
                                     On(mul_bytes(9, m3), q)), On(mul_bytes(14, m4), q))
    BY <1>7, <2>0, FourOn
  <2> HIDE DEF Row4
  <2>2. \A q \in Weights : On(Row4, q) <=> On(a4, q)
    BY <1>6, <2>1 DEF Odd
  <2> QED
    BY <1>1, <2>1, <2>2, SameOn
<1> QED
  BY <1>4, <1>5, <1>8, <1>9, <1>10, <1>11 DEF a1, a2, a3, a4, s

\* The 16 bytes of EncryptBlock's state.
StateArray == [1 .. 16 -> Octet]

\* AES.h's two tables are each other's inverses, entry by entry.
LEMMA Tables ==
  \A b \in Octet : /\ Sbox[b + 1] \in Octet /\ InvSbox[b + 1] \in Octet
                   /\ InvSbox[Sbox[b + 1] + 1] = b
<1>1. \A b \in 0 .. 255 : Sbox[b + 1] \in 0 .. 255
  BY SMT DEF Sbox
<1>2. \A b \in 0 .. 255 : InvSbox[b + 1] \in 0 .. 255
  BY SMT DEF InvSbox
<1>3. \A b \in 0 .. 255 : InvSbox[Sbox[b + 1] + 1] = b
  BY SMT DEF Sbox, InvSbox
<1> QED
  BY <1>1, <1>2, <1>3 DEF Octet

\* Where the two shifts take a byte from.
Left(k) == At(Row(k), Column(k) + <<0, 1, 2, 3>>[Row(k) + 1])
Right(k) == At(Row(k), Column(k) + <<0, 3, 2, 1>>[Row(k) + 1])

\* A shift to the right takes what the shift to the left had brought, in every row.
LEMMA Places ==
  \A k \in 1 .. 16 : /\ Row(k) \in 0 .. 3 /\ Column(k) \in 0 .. 3
                     /\ At(Row(k), Column(k)) = k
                     /\ Left(k) \in 1 .. 16 /\ Right(k) \in 1 .. 16 /\ Left(Right(k)) = k
<1>1. \A k \in 1 .. 16 : /\ Row(k) \in 0 .. 3 /\ Column(k) \in 0 .. 3
                         /\ At(Row(k), Column(k)) = k
  BY DEF Row, Column, At
<1>2. \A r \in 0 .. 3, c \in 0 .. 6 : /\ At(r, c) \in 1 .. 16 /\ Row(At(r, c)) = r
                                      /\ Column(At(r, c)) = c % 4
  BY DEF Row, Column, At
<1>3. \A r \in 0 .. 3 : /\ <<0, 1, 2, 3>>[r + 1] = r
                        /\ <<0, 3, 2, 1>>[r + 1] = (4 - r) % 4
  OBVIOUS
<1>4. ASSUME NEW k \in 1 .. 16
      PROVE  Left(k) \in 1 .. 16 /\ Right(k) \in 1 .. 16 /\ Left(Right(k)) = k
  <2> DEFINE r == Row(k)
             c == Column(k)
  <2>1. r \in 0 .. 3 /\ c \in 0 .. 3 /\ At(r, c) = k
    BY <1>1
  <2>2. Left(k) = At(r, c + r) /\ Right(k) = At(r, c + ((4 - r) % 4))
    BY <1>3, <2>1 DEF Left, Right
  <2> HIDE DEF r, c
  <2>3. c + r \in 0 .. 6 /\ c + ((4 - r) % 4) \in 0 .. 6
    BY <2>1
  <2>4. Left(k) \in 1 .. 16 /\ Right(k) \in 1 .. 16
    BY <1>2, <2>1, <2>2, <2>3
  <2>5. Row(Right(k)) = r /\ Column(Right(k)) = (c + ((4 - r) % 4)) % 4
    BY <1>2, <2>1, <2>2, <2>3
  <2>6. Left(Right(k)) = At(r, ((c + ((4 - r) % 4)) % 4) + r)
    BY <1>3, <2>1, <2>5 DEF Left
  <2>7. At(r, ((c + ((4 - r) % 4)) % 4) + r) = At(r, c)
    BY <2>1 DEF At
  <2> QED
    BY <2>1, <2>4, <2>6, <2>7
<1> QED
  BY <1>1, <1>4

\* InvSubBytes and InvShiftRows undo SubBytes and ShiftRows.
LEMMA SubShift ==
  ASSUME NEW t \in StateArray
  PROVE  /\ ShiftRows(SubBytes(t)) \in StateArray /\ InvShiftRows(InvSubBytes(t)) \in StateArray
         /\ InvShiftRows(InvSubBytes(ShiftRows(SubBytes(t)))) = t
<1> DEFINE s == SubBytes(t)
           u == ShiftRows(s)
           v == InvSubBytes(u)
           x == InvShiftRows(v)
<1>1. s \in StateArray /\ \A k \in 1 .. 16 : s[k] = Sbox[t[k] + 1]
  BY Tables DEF SubBytes, StateArray
<1>2. u = [k \in 1 .. 16 |-> s[Left(k)]]
  BY DEF ShiftRows, ShiftRow, Left
<1>3. x = [k \in 1 .. 16 |-> v[Right(k)]]
  BY DEF InvShiftRows, ShiftRow, Right
<1>4. v = [k \in 1 .. 16 |-> InvSbox[u[k] + 1]]
  BY DEF InvSubBytes
<1>5. InvShiftRows(InvSubBytes(t)) \in StateArray
  <2>1. InvSubBytes(t) \in StateArray
    BY Tables DEF InvSubBytes, StateArray
  <2>2. \A z : InvShiftRows(z) = [k \in 1 .. 16 |-> z[Right(k)]]
    BY DEF InvShiftRows, ShiftRow, Right
  <2> QED
    BY <2>1, <2>2, Places DEF StateArray
<1> HIDE DEF s, u, v, x
<1>6. u \in StateArray
  BY <1>1, <1>2, Places DEF StateArray
<1>7. ASSUME NEW k \in 1 .. 16
      PROVE  x[k] = t[k]
  <2>1. Right(k) \in 1 .. 16 /\ Left(Right(k)) = k
    BY Places
  <2>2. u[Right(k)] = s[k]
    BY <1>2, <2>1
  <2>3. v[Right(k)] = InvSbox[Sbox[t[k] + 1] + 1]
    BY <1>1, <1>4, <2>1, <2>2
  <2>4. t[k] \in Octet
    BY DEF StateArray
  <2> QED
    BY <1>3, <2>3, <2>4, Tables
<1>8. x = t
  BY <1>3, <1>7 DEF StateArray
<1> QED
  BY <1>5, <1>6, <1>8 DEF s, u, v, x

\* InvMixColumns undoes MixColumns, column by column.
LEMMA MixUndone ==
  ASSUME NEW t \in StateArray
  PROVE  /\ MixColumns(t) \in StateArray
         /\ InvMixColumns(MixColumns(t)) = t
<1> DEFINE s == MixColumns(t)
           x == InvMixColumns(s)
           col(c) == ColumnOf(t, c)
<1>1. ASSUME NEW c \in 0 .. 3, NEW r \in 0 .. 3
      PROVE  At(r, c) \in 1 .. 16 /\ Row(At(r, c)) = r /\ Column(At(r, c)) = c
  BY DEF At, Row, Column
<1>2. \A c \in 0 .. 3 : col(c) \in [1 .. 4 -> Octet]
  BY <1>1 DEF ColumnOf, StateArray
<1>3. s = [k \in 1 .. 16 |-> MixSingleColumn(col(Column(k)))[Row(k) + 1]]
  BY DEF MixColumns
<1>4. x = [k \in 1 .. 16 |-> InvSingleColumn(ColumnOf(s, Column(k)))[Row(k) + 1]]
  BY DEF InvMixColumns
<1>5. \A c \in 0 .. 3 : \A r \in 1 .. 4 : col(c)[r] = t[At(r - 1, c)]
  BY DEF ColumnOf
<1> HIDE DEF s, x, col
<1>6. \A c \in 0 .. 3 : /\ MixSingleColumn(col(c)) \in [1 .. 4 -> Octet]
                        /\ \A r \in 1 .. 4 :
                             InvSingleColumn(MixSingleColumn(col(c)))[r] = col(c)[r]
  BY <1>2, ColumnUndone
<1>7. s \in StateArray
  <2>1. \A k \in 1 .. 16 : MixSingleColumn(col(Column(k)))[Row(k) + 1] \in Octet
    BY <1>6, Places
  <2> QED
    BY <1>3, <2>1 DEF StateArray
<1>8. ASSUME NEW c \in 0 .. 3
      PROVE  ColumnOf(s, c) = MixSingleColumn(col(c))
  <2>1. ASSUME NEW r \in 1 .. 4 PROVE s[At(r - 1, c)] = MixSingleColumn(col(c))[r]
    <3>1. /\ r - 1 \in 0 .. 3 /\ (r - 1) + 1 = r
          /\ At(r - 1, c) \in 1 .. 16 /\ Row(At(r - 1, c)) = r - 1 /\ Column(At(r - 1, c)) = c
      BY <1>1
    <3> QED
      BY <1>3, <3>1
  <2> QED
    BY <1>6, <2>1 DEF ColumnOf
<1>9. ASSUME NEW k \in 1 .. 16
      PROVE  x[k] = t[k]
  <2> DEFINE c == Column(k)
             r == Row(k) + 1
  <2>1. c \in 0 .. 3 /\ r \in 1 .. 4 /\ At(r - 1, c) = k
    BY Places
  <2>2. x[k] = InvSingleColumn(MixSingleColumn(col(c)))[r]
    BY <1>4, <1>8, <2>1
  <2> HIDE DEF c, r
  <2> QED
    BY <1>5, <1>6, <2>1, <2>2
<1>10. x = t
  BY <1>4, <1>9 DEF StateArray
<1> QED
  BY <1>7, <1>10 DEF s, x

\* The bytes of a round's key.
LEMMA KeyUndone ==
  ASSUME NEW s \in StateArray, NEW v, NEW n \in Nat, v \in Seq(Octet), Len(v) >= 16 * (n + 1)
  PROVE  /\ AddRoundKey(s, v, n) \in StateArray
         /\ AddRoundKey(AddRoundKey(s, v, n), v, n) = s
<1>1. \A k \in 1 .. 16 : v[16 * n + k] \in Octet
  <2>1. \A k \in 1 .. 16 : 16 * n + k \in 1 .. Len(v)
    OBVIOUS
  <2> QED
    BY <2>1
<1>2. \A k \in 1 .. 16 : s[k] \in Octet
  BY DEF StateArray
<1>3. \A k \in 1 .. 16 : /\ s[k] ++ v[16 * n + k] \in Octet
                         /\ (s[k] ++ v[16 * n + k]) ++ v[16 * n + k] = s[k]
  BY <1>1, <1>2, XorOn, XorUndone
<1>4. AddRoundKey(s, v, n) = [k \in 1 .. 16 |-> s[k] ++ v[16 * n + k]]
  BY DEF AddRoundKey
<1>5. AddRoundKey(AddRoundKey(s, v, n), v, n)
        = [k \in 1 .. 16 |-> (s[k] ++ v[16 * n + k]) ++ v[16 * n + k]]
  BY <1>4 DEF AddRoundKey
<1> QED
  BY <1>3, <1>4, <1>5 DEF StateArray

\* A word of the key schedule.
Word == [1 .. 4 -> Octet]

\* The round constants the key schedule uses are bytes.
LEMMA RconIn ==
  ASSUME NEW n \in 1 .. 10
  PROVE  Rcon(n) \in Word
<1> DEFINE c1 == 1
           c2 == xtime(c1)
           c3 == xtime(c2)
           c4 == xtime(c3)
           c5 == xtime(c4)
           c6 == xtime(c5)
           c7 == xtime(c6)
           c8 == xtime(c7)
           c9 == xtime(c8)
           c10 == xtime(c9)
           all == <<c1, c2, c3, c4, c5, c6, c7, c8, c9, c10>>
           Is(c) == c = [k \in 1 .. n |-> IF k = 1 THEN 1 ELSE xtime(c[k - 1])]
           g == [k \in 1 .. n |-> all[k]]
<1>1. Rcon(n) = <<(CHOOSE c : Is(c))[n], 0, 0, 0>>
  BY DEF Rcon
<1>2. /\ all[1] = 1 /\ all[2] = xtime(all[1]) /\ all[3] = xtime(all[2])
      /\ all[4] = xtime(all[3]) /\ all[5] = xtime(all[4]) /\ all[6] = xtime(all[5])
      /\ all[7] = xtime(all[6]) /\ all[8] = xtime(all[7]) /\ all[9] = xtime(all[8])
      /\ all[10] = xtime(all[9])
  OBVIOUS
<1> HIDE DEF all
<1>3. 1 \in Octet /\ 0 \in Octet
  BY DEF Octet
<1>4. \A k \in 1 .. 10 : /\ all[k] = (IF k = 1 THEN 1 ELSE xtime(all[k - 1]))
  BY <1>2
<1>5. \A k \in 1 .. 10 : all[k] \in Octet
  <2>1. all[1] \in Octet /\ all[2] \in Octet /\ all[3] \in Octet
    BY <1>2, <1>3, XtimeOn
  <2>2. all[4] \in Octet /\ all[5] \in Octet /\ all[6] \in Octet
    BY <1>2, <2>1, XtimeOn
  <2>3. all[7] \in Octet /\ all[8] \in Octet /\ all[9] \in Octet /\ all[10] \in Octet
    BY <1>2, <2>2, XtimeOn
  <2> QED
    BY <2>1, <2>2, <2>3
<1>6. Is(g)
  <2>1. ASSUME NEW k \in 1 .. n
        PROVE  all[k] = IF k = 1 THEN 1 ELSE xtime(g[k - 1])
    <3>1. k \in 1 .. 10 /\ (k # 1 => k - 1 \in 1 .. n)
      OBVIOUS
    <3> QED
      BY <1>4, <3>1
  <2> QED
    BY <2>1
<1> HIDE DEF Is, g
<1>7. PICK c : Is(c) /\ Rcon(n) = <<c[n], 0, 0, 0>>
  BY <1>1, <1>6
<1>8. \A k \in 1 .. n : c[k] = IF k = 1 THEN 1 ELSE xtime(c[k - 1])
  BY <1>7 DEF Is
<1> DEFINE Same(k) == k \in 1 .. n => c[k] = all[k]
<1>10. Same(1)
  BY <1>8, <1>2
<1>11. ASSUME NEW k \in 1 .. 9, Same(k) PROVE Same(k + 1)
  <2>1. ASSUME k + 1 \in 1 .. n PROVE c[k + 1] = all[k + 1]
    <3>1. k \in 1 .. n /\ k + 1 \in 1 .. 10 /\ k + 1 # 1 /\ (k + 1) - 1 = k
      BY <2>1
    <3> QED
      BY <1>4, <1>8, <1>11, <2>1, <3>1
  <2> QED
    BY <2>1
<1> HIDE DEF Same
<1>12. Same(2) /\ Same(3) /\ Same(4) /\ Same(5) /\ Same(6)
  BY <1>10, <1>11
<1>13. Same(7) /\ Same(8) /\ Same(9) /\ Same(10)
  BY <1>11, <1>12
<1>14. Same(n)
  BY <1>10, <1>12, <1>13
<1>15. c[n] \in Octet
  BY <1>5, <1>14 DEF Same
<1> QED
  BY <1>3, <1>7, <1>15 DEF Word

\* The key schedule needs ten round constants at most.
LEMMA ScheduleLasts ==
  ASSUME NEW n \in {4, 6, 8}, NEW m \in Nat, m >= 4 * n, m < 16 * (n + 7)
  PROVE  m \div (4 * n) \in 1 .. 10
<1>1. CASE n = 4
  <2>1. m \in 16 .. 175 /\ 4 * n = 16
    BY <1>1
  <2> QED
    BY <2>1
<1>2. CASE n = 6
  <2>1. m \in 24 .. 207 /\ 4 * n = 24
    BY <1>2
  <2> QED
    BY <2>1
<1>3. CASE n = 8
  <2>1. m \in 32 .. 239 /\ 4 * n = 32
    BY <1>3
  <2> QED
    BY <2>1
<1> QED
  BY <1>1, <1>2, <1>3

\* A word is a sequence of four bytes.
LEMMA WordIs ==
  ASSUME NEW a \in Word
  PROVE  a \in Seq(Octet) /\ Len(a) = 4 /\ \A k \in 1 .. 4 : a[k] \in Octet
<1>1. a \in Seq(Octet)
  BY SeqDef DEF Word
<1>2. DOMAIN a = 1 .. 4
  BY DEF Word
<1> QED
  BY <1>1, <1>2, LenProperties DEF Word

\* A turn of KeyExpansion adds one word of bytes.
LEMMA ExpandIs ==
  ASSUME NEW v \in Seq(Octet), NEW n \in {4, 6, 8},
         Len(v) >= 4 * n, Len(v) < 16 * (n + 7)
  PROVE  Expand(v, n) \in Seq(Octet) /\ Len(Expand(v, n)) = Len(v) + 4
<1> DEFINE len == Len(v)
           last == SubSeq(v, len - 3, len)
           first == SubSeq(v, len - 4 * n + 1, len - 4 * n + 4)
           temp == IF (len \div 4) % n = 0
                   THEN XorWords(SubWord(RotWord(last)), Rcon(len \div (4 * n)))
                   ELSE IF n > 6 /\ (len \div 4) % n = 4 THEN SubWord(last) ELSE last
<1>1. len \in Nat /\ \A k \in 1 .. len : v[k] \in Octet
  OBVIOUS
<1>2. last \in Word /\ first \in Word
  <2>1. \A a, b \in 1 .. len : b = a + 3 => SubSeq(v, a, b) \in Word
    <3>1. ASSUME NEW a \in 1 .. len, NEW b \in 1 .. len, b = a + 3
          PROVE  SubSeq(v, a, b) \in Word
      <4>1. SubSeq(v, a, b) = [k \in 1 .. 4 |-> v[a + k - 1]]
        BY <1>1, <3>1
      <4>2. \A k \in 1 .. 4 : a + k - 1 \in 1 .. len
        BY <1>1, <3>1
      <4> QED
        BY <1>1, <4>1, <4>2 DEF Word
    <3> QED
      BY <3>1
  <2>2. /\ len - 3 \in 1 .. len /\ len \in 1 .. len /\ len = (len - 3) + 3
        /\ len - 4 * n + 1 \in 1 .. len /\ len - 4 * n + 4 \in 1 .. len
        /\ len - 4 * n + 4 = (len - 4 * n + 1) + 3
    BY <1>1
  <2> QED
    BY <2>1, <2>2
<1>3. \A a \in Word : SubWord(a) \in Word /\ RotWord(a) \in Word
  <2>1. ASSUME NEW a \in Word PROVE SubWord(a) \in Word
    BY Tables DEF SubWord, Word
  <2>2. ASSUME NEW a \in Word PROVE RotWord(a) \in Word
    BY DEF RotWord, Word
  <2> QED
    BY <2>1, <2>2
<1>4. \A a, b \in Word : XorWords(a, b) \in Word
  <2>1. ASSUME NEW a \in Word, NEW b \in Word PROVE XorWords(a, b) \in Word
    <3>1. \A k \in 1 .. 4 : a[k] ++ b[k] \in Octet
      BY XorOn DEF Word
    <3> QED
      BY <3>1 DEF XorWords, Word
  <2> QED
    BY <2>1
<1>5. temp \in Word
  <2>1. len \div (4 * n) \in 1 .. 10
    BY <1>1, ScheduleLasts
  <2>2. Rcon(len \div (4 * n)) \in Word
    BY <2>1, RconIn
  <2> HIDE DEF len, last
  <2> QED
    BY <1>2, <1>3, <1>4, <2>2
<1>6. XorWords(first, temp) \in Seq(Octet) /\ Len(XorWords(first, temp)) = 4
  <2>1. XorWords(first, temp) \in Word
    BY <1>2, <1>4, <1>5
  <2> HIDE DEF first, temp
  <2> QED
    BY <2>1, WordIs
<1>7. Expand(v, n) = v \o XorWords(first, temp)
  BY DEF Expand
<1> DEFINE x == XorWords(first, temp)
<1> HIDE DEF x
<1>8. x \in Seq(Octet) /\ Len(x) = 4 /\ Expand(v, n) = v \o x
  BY <1>6, <1>7 DEF x
<1>9. v \o x \in Seq(Octet) /\ Len(v \o x) = Len(v) + Len(x)
  BY <1>8, ConcatProperties
<1> QED
  BY <1>8, <1>9

\* What a round does before it mixes.
SubShifted(t) == ShiftRows(SubBytes(t))

\* What the phases keep: the key's length and that of its schedule; what
\* EncryptBlock did round by round, and where DecryptBlock is on its way back.
BlockIInv ==
  /\ BlockTypeOK
  /\ keyLen \in Nat
  /\ phase # "thrown" => Nk \in {4, 6, 8}
  /\ phase = "expand" => Len(w) >= 4 * Nk /\ Len(w) % 4 = 0 /\ Len(w) < 16 * (Nr + 1)
  /\ phase \in {"encrypt", "decrypt", "done"} => Len(w) = 16 * (Nr + 1)
  /\ phase \in {"expand", "thrown"} => trace = <<>> /\ round = 0 /\ state = plain
  /\ trace \in Seq(StateArray)
  /\ phase = "encrypt" => /\ Len(trace) = round
                          /\ state = IF round = 0 THEN plain ELSE trace[round]
  /\ Len(trace) > 0 => trace[1] = AddRoundKey(plain, w, 0)
  /\ \A r \in 1 .. Len(trace) - 1 :
       trace[r + 1] = AddRoundKey(MixColumns(SubShifted(trace[r])), w, r)
  /\ phase \in {"decrypt", "done"} =>
       /\ Len(trace) = Nr
       /\ cipher = AddRoundKey(SubShifted(trace[Nr]), w, Nr)
  /\ phase = "decrypt" => state = IF round = Nr THEN cipher ELSE SubShifted(trace[round + 1])
  /\ phase = "done" => state = plain

\* BlockIInv holds when the object has been made, and every step keeps it.
LEMMA BlockInits == BlockInit => BlockIInv
<1> SUFFICES ASSUME BlockInit PROVE BlockIInv
  OBVIOUS
<1>1. keyLen \in Nat /\ cipherKey \in [1 .. 32 -> Octet] /\ plain \in [1 .. 16 -> Octet]
  BY BlockAssumption DEF BlockInit
<1>2. Nk \in Nat /\ Nr = Nk + 6 /\ Nr \in Nat
  BY <1>1 DEF Nk, Nr
<1>3. trace = <<>> /\ cipher = <<>> /\ state = plain /\ round = 0
  BY DEF BlockInit
<1>4. trace \in Seq(StateArray) /\ Len(trace) = 0
  BY <1>3
<1>5. CASE keyLen \in {128, 192, 256}
  <2>1. phase = "expand" /\ w = SubSeq(cipherKey, 1, 4 * Nk)
    BY <1>5 DEF BlockInit
  <2>2. Nk \in {4, 6, 8}
    BY <1>5 DEF Nk
  <2>3. cipherKey \in Seq(Octet) /\ Len(cipherKey) = 32
    <3>1. cipherKey \in Seq(Octet)
      BY <1>1, SeqDef
    <3>2. DOMAIN cipherKey = 1 .. 32
      BY <1>1
    <3> QED
      BY <3>1, <3>2, LenProperties
  <2>4. 4 * Nk \in 1 .. 32 /\ 4 * Nk < 16 * (Nr + 1) /\ (4 * Nk) % 4 = 0
    BY <1>2, <2>2
  <2> DEFINE n == 4 * Nk
  <2> HIDE DEF n
  <2>5. w \in Seq(Octet) /\ Len(w) = n
    <3>1. w = SubSeq(cipherKey, 1, n) /\ n \in 1 .. 32
      BY <2>1, <2>4 DEF n
    <3>2. n \in 1 .. 32 /\ cipherKey \in [1 .. 32 -> Octet]
      BY <1>1, <3>1
    <3>3. n \in Int /\ 1 \in Int /\ \A k \in 1 .. n : cipherKey[k] \in Octet
      BY <3>2
    <3>4. w \in Seq(Octet) /\ Len(w) = IF 1 <= n THEN n - 1 + 1 ELSE 0
      BY <3>1, <3>3, SubSeqProperties
    <3> QED
      BY <3>1, <3>4
  <2>6. BlockTypeOK
    <3>1. Len(w) <= 16 * (Nr + 1)
      BY <1>2, <2>4, <2>5 DEF n
    <3>2. round \in 0 .. Nr /\ Len(trace) <= Nr
      BY <1>2, <1>3, <1>4
    <3> QED
      BY <1>1, <1>3, <2>1, <2>5, <3>1, <3>2 DEF BlockTypeOK
  <2>7. Len(w) >= 4 * Nk /\ Len(w) % 4 = 0 /\ Len(w) < 16 * (Nr + 1)
    BY <1>2, <2>4, <2>5 DEF n
  <2> QED
    BY <1>1, <1>3, <1>4, <2>1, <2>2, <2>6, <2>7 DEF BlockIInv
<1>6. CASE keyLen \notin {128, 192, 256}
  <2>1. phase = "thrown" /\ w = <<>>
    BY <1>6 DEF BlockInit
  <2>2. w \in Seq(Octet) /\ Len(w) = 0
    BY <2>1
  <2>3. BlockTypeOK
    BY <1>1, <1>2, <1>3, <1>4, <2>1, <2>2 DEF BlockTypeOK
  <2> QED
    BY <1>1, <1>2, <1>3, <1>4, <2>1, <2>2, <2>3 DEF BlockIInv
<1> QED
  BY <1>5, <1>6

LEMMA ExpandKeyKeeps == BlockIInv /\ ExpandKey => BlockIInv'
<1> SUFFICES ASSUME BlockIInv, ExpandKey PROVE BlockIInv'
  OBVIOUS
<1>1. Nk \in {4, 6, 8} /\ Nr = Nk + 6 /\ Nk' = Nk /\ Nr' = Nr /\ keyLen \in Nat
  BY DEF BlockIInv, ExpandKey, Nk, Nr
<1>2. w \in Seq(Octet) /\ Len(w) \in Nat /\ Len(w) >= 4 * Nk /\ Len(w) % 4 = 0
      /\ Len(w) < 16 * (Nr + 1)
  BY DEF BlockIInv, BlockTypeOK, ExpandKey
<1>3. w' = Expand(w, Nk) /\ w' \in Seq(Octet) /\ Len(w') = Len(w) + 4
  BY <1>1, <1>2, ExpandIs DEF ExpandKey
<1>4. Len(w') % 4 = 0 /\ Len(w') <= 16 * (Nr + 1) /\ Len(w') >= 4 * Nk
  BY <1>1, <1>2, <1>3
<1>5. /\ keyLen' = keyLen /\ plain' = plain /\ trace' = <<>> /\ round' = 0 /\ state' = plain
      /\ cipher' = cipher /\ cipher \in {<<>>} \cup [1 .. 16 -> Octet]
      /\ plain \in [1 .. 16 -> Octet]
  BY DEF BlockIInv, BlockTypeOK, ExpandKey
<1>6. trace' \in Seq(StateArray) /\ Len(trace') = 0
  BY <1>5
<1>7. \/ phase' = "encrypt" /\ Len(w') = 16 * (Nr + 1)
      \/ phase' = "expand" /\ Len(w') < 16 * (Nr + 1)
  BY <1>1, <1>3, <1>4 DEF ExpandKey
<1>8. BlockTypeOK'
  BY <1>1, <1>3, <1>4, <1>5, <1>6, <1>7 DEF BlockTypeOK
<1>9. CASE phase' = "encrypt"
  BY <1>1, <1>3, <1>5, <1>6, <1>7, <1>8, <1>9 DEF BlockIInv
<1>10. CASE phase' = "expand"
  BY <1>1, <1>3, <1>4, <1>5, <1>6, <1>7, <1>8, <1>10 DEF BlockIInv
<1> QED
  BY <1>7, <1>9, <1>10

\* The facts of the phases in which EncryptBlock and DecryptBlock work.
LEMMA AtWork ==
  ASSUME BlockIInv, phase \in {"encrypt", "decrypt"}
  PROVE  /\ Nr \in {10, 12, 14} /\ keyLen \in Nat /\ round \in 0 .. Nr
         /\ w \in Seq(Octet) /\ Len(w) = 16 * (Nr + 1)
         /\ state \in StateArray /\ plain \in StateArray /\ trace \in Seq(StateArray)
         /\ Len(trace) \in Nat /\ Len(trace) <= Nr
         /\ \A r \in 1 .. Len(trace) : trace[r] \in StateArray
         /\ cipher \in {<<>>} \cup StateArray
<1>1. Nr \in {10, 12, 14}
  BY DEF BlockIInv, Nr
<1>2. trace \in Seq(StateArray)
  BY DEF BlockIInv
<1>3. Len(trace) \in Nat /\ \A r \in 1 .. Len(trace) : trace[r] \in StateArray
  BY <1>2
<1> QED
  BY <1>1, <1>2, <1>3 DEF BlockIInv, BlockTypeOK, StateArray

LEMMA EncryptKeeps == BlockIInv /\ EncryptBlock => BlockIInv'
<1> SUFFICES ASSUME BlockIInv, EncryptBlock PROVE BlockIInv'
  OBVIOUS
<1>1. phase = "encrypt" /\ state' = EncryptRound
  BY DEF EncryptBlock
<1>2. /\ Nr \in {10, 12, 14} /\ keyLen \in Nat /\ round \in 0 .. Nr
      /\ w \in Seq(Octet) /\ Len(w) = 16 * (Nr + 1)
      /\ state \in StateArray /\ plain \in StateArray /\ trace \in Seq(StateArray)
      /\ \A r \in 1 .. Len(trace) : trace[r] \in StateArray
      /\ cipher \in {<<>>} \cup StateArray
  BY <1>1, AtWork
<1>3. /\ keyLen' = keyLen /\ plain' = plain /\ w' = w /\ Nk' = Nk /\ Nr' = Nr
      /\ Nk \in {4, 6, 8}
  BY <1>1 DEF EncryptBlock, BlockIInv, Nk, Nr
<1>4. /\ Len(trace) = round /\ state = IF round = 0 THEN plain ELSE trace[round]
      /\ Len(trace) > 0 => trace[1] = AddRoundKey(plain, w, 0)
      /\ \A r \in 1 .. Len(trace) - 1 :
           trace[r + 1] = AddRoundKey(MixColumns(SubShifted(trace[r])), w, r)
  BY <1>1 DEF BlockIInv
<1>5. \A s \in StateArray, r \in 0 .. Nr : AddRoundKey(s, w, r) \in StateArray
  <2>1. ASSUME NEW s \in StateArray, NEW r \in 0 .. Nr PROVE AddRoundKey(s, w, r) \in StateArray
    <3>1. r \in Nat /\ Len(w) >= 16 * (r + 1)
      BY <1>2
    <3> QED
      BY <1>2, <3>1, KeyUndone
  <2> QED
    BY <2>1
<1>6. /\ round = 0 => state' = AddRoundKey(state, w, 0)
      /\ round = Nr => state' = AddRoundKey(SubShifted(state), w, Nr)
      /\ round # 0 /\ round # Nr => state' = AddRoundKey(MixColumns(SubShifted(state)), w, round)
  BY <1>1, <1>2 DEF EncryptRound, SubShifted
<1>7. SubShifted(state) \in StateArray /\ MixColumns(SubShifted(state)) \in StateArray
  BY <1>2, SubShift, MixUndone DEF SubShifted
<1>8. state' \in StateArray
  BY <1>2, <1>5, <1>6, <1>7
<1>9. CASE round = Nr
  <2>1. /\ cipher' = state' /\ phase' = "decrypt" /\ round' = round /\ trace' = trace
    BY <1>9 DEF EncryptBlock
  <2>2. state = trace[Nr]
    BY <1>2, <1>4, <1>9
  <2>3. BlockTypeOK'
    BY <1>2, <1>3, <1>4, <1>8, <1>9, <2>1 DEF BlockTypeOK, StateArray
  <2> QED
    BY <1>2, <1>3, <1>4, <1>6, <1>9, <2>1, <2>2, <2>3 DEF BlockIInv
<1>10. CASE round # Nr
  <2>1. /\ round' = round + 1 /\ trace' = Append(trace, state') /\ phase' = "encrypt"
        /\ cipher' = cipher
    BY <1>1, <1>10 DEF EncryptBlock
  <2>2. round + 1 \in 1 .. Nr
    BY <1>2, <1>10
  <2>3. /\ trace' \in Seq(StateArray) /\ Len(trace') = round + 1 /\ trace'[round + 1] = state'
        /\ \A r \in 1 .. round : trace'[r] = trace[r]
    BY <1>2, <1>4, <1>8, <2>1
  <2>4. BlockTypeOK'
    BY <1>2, <1>3, <1>8, <2>1, <2>2, <2>3 DEF BlockTypeOK, StateArray
  <2>5. trace'[1] = AddRoundKey(plain, w, 0)
    BY <1>2, <1>4, <1>6, <2>3
  <2>6. ASSUME NEW r \in 1 .. Len(trace') - 1
        PROVE  trace'[r + 1] = AddRoundKey(MixColumns(SubShifted(trace'[r])), w, r)
    <3>1. r \in 1 .. round /\ trace'[r] = trace[r]
      BY <1>2, <2>3
    <3>2. CASE r = round
      BY <1>2, <1>4, <1>6, <1>10, <2>3, <3>1, <3>2
    <3>3. CASE r # round
      <4>1. r \in 1 .. Len(trace) - 1 /\ r + 1 \in 1 .. round
        BY <1>2, <1>4, <3>1, <3>3
      <4> QED
        BY <1>4, <2>3, <3>1, <4>1
    <3> QED
      BY <3>2, <3>3
  <2> QED
    BY <1>2, <1>3, <2>1, <2>2, <2>3, <2>4, <2>5, <2>6 DEF BlockIInv
<1> QED
  BY <1>9, <1>10

LEMMA DecryptKeeps == BlockIInv /\ DecryptBlock => BlockIInv'
<1> SUFFICES ASSUME BlockIInv, DecryptBlock PROVE BlockIInv'
  OBVIOUS
<1>1. phase = "decrypt" /\ state' = DecryptRound
  BY DEF DecryptBlock
<1>2. /\ Nr \in {10, 12, 14} /\ keyLen \in Nat /\ round \in 0 .. Nr
      /\ w \in Seq(Octet) /\ Len(w) = 16 * (Nr + 1)
      /\ state \in StateArray /\ plain \in StateArray /\ trace \in Seq(StateArray)
      /\ \A r \in 1 .. Len(trace) : trace[r] \in StateArray
      /\ cipher \in {<<>>} \cup StateArray
  BY <1>1, AtWork
<1>3. /\ keyLen' = keyLen /\ plain' = plain /\ w' = w /\ Nk' = Nk /\ Nr' = Nr
      /\ cipher' = cipher /\ trace' = trace /\ Nk \in {4, 6, 8}
  BY <1>1 DEF DecryptBlock, BlockIInv, Nk, Nr
<1>4. /\ trace[1] = AddRoundKey(plain, w, 0)
      /\ \A r \in 1 .. Nr - 1 :
           trace[r + 1] = AddRoundKey(MixColumns(SubShifted(trace[r])), w, r)
      /\ Len(trace) = Nr /\ cipher = AddRoundKey(SubShifted(trace[Nr]), w, Nr)
      /\ state = IF round = Nr THEN cipher ELSE SubShifted(trace[round + 1])
  BY <1>1, <1>2 DEF BlockIInv
<1>5. \A s \in StateArray, r \in 0 .. Nr : AddRoundKey(AddRoundKey(s, w, r), w, r) = s
  <2>1. ASSUME NEW s \in StateArray, NEW r \in 0 .. Nr
        PROVE  AddRoundKey(AddRoundKey(s, w, r), w, r) = s
    <3>1. r \in Nat /\ Len(w) >= 16 * (r + 1)
      BY <1>2
    <3> QED
      BY <1>2, <3>1, KeyUndone
  <2> QED
    BY <2>1
<1>6. \A t \in StateArray : /\ SubShifted(t) \in StateArray
                       /\ InvShiftRows(InvSubBytes(SubShifted(t))) = t
                       /\ MixColumns(SubShifted(t)) \in StateArray
                       /\ InvMixColumns(MixColumns(SubShifted(t))) = SubShifted(t)
  BY SubShift, MixUndone DEF SubShifted
<1>7. CASE round = Nr
  <2>1. round' = round - 1 /\ phase' = "decrypt"
    BY <1>1, <1>2, <1>7 DEF DecryptBlock
  <2>2. trace[Nr] \in StateArray
    BY <1>2, <1>4
  <2>3. state' = AddRoundKey(cipher, w, Nr)
    BY <1>1, <1>2, <1>4, <1>7 DEF DecryptRound
  <2>4. state' = SubShifted(trace[Nr]) /\ state' \in StateArray
    BY <1>2, <1>4, <1>5, <1>6, <2>2, <2>3
  <2>5. round' \in 0 .. Nr /\ round' # Nr /\ round' + 1 = Nr
    BY <1>2, <1>7, <2>1
  <2>6. BlockTypeOK'
    BY <1>2, <1>3, <1>4, <2>1, <2>4, <2>5 DEF BlockTypeOK, StateArray
  <2> QED
    BY <1>2, <1>3, <1>4, <2>1, <2>4, <2>5, <2>6 DEF BlockIInv
<1>8. CASE round \in 1 .. Nr - 1
  <2>1. round' = round - 1 /\ phase' = "decrypt"
    BY <1>1, <1>2, <1>8 DEF DecryptBlock
  <2>2. trace[round + 1] \in StateArray /\ trace[round] \in StateArray
    BY <1>2, <1>4, <1>8
  <2>3. state = SubShifted(trace[round + 1])
    BY <1>2, <1>4, <1>8
  <2>4. state' = InvMixColumns(AddRoundKey(InvShiftRows(InvSubBytes(state)), w, round))
    BY <1>1, <1>2, <1>8 DEF DecryptRound
  <2>5. state' = InvMixColumns(AddRoundKey(trace[round + 1], w, round))
    BY <1>6, <2>2, <2>3, <2>4
  <2>6. AddRoundKey(trace[round + 1], w, round) = MixColumns(SubShifted(trace[round]))
    BY <1>2, <1>4, <1>5, <1>6, <1>8, <2>2
  <2>7. state' = SubShifted(trace[round]) /\ state' \in StateArray
    BY <1>6, <2>2, <2>5, <2>6
  <2>8. round' \in 0 .. Nr /\ round' # Nr /\ round' + 1 = round
    BY <1>2, <1>8, <2>1
  <2>9. BlockTypeOK'
    BY <1>2, <1>3, <1>4, <2>1, <2>7, <2>8 DEF BlockTypeOK, StateArray
  <2> QED
    BY <1>2, <1>3, <1>4, <2>1, <2>7, <2>8, <2>9 DEF BlockIInv
<1>9. CASE round = 0
  <2>1. round' = 0 /\ phase' = "done"
    BY <1>9 DEF DecryptBlock
  <2>2. trace[1] \in StateArray /\ state = SubShifted(trace[1])
    BY <1>2, <1>4, <1>9
  <2>3. state' = AddRoundKey(InvShiftRows(InvSubBytes(state)), w, 0)
    BY <1>1, <1>2, <1>9 DEF DecryptRound
  <2>4. state' = plain
    BY <1>2, <1>4, <1>5, <1>6, <2>2, <2>3
  <2>5. BlockTypeOK'
    BY <1>2, <1>3, <1>4, <2>1, <2>4 DEF BlockTypeOK, StateArray
  <2> QED
    BY <1>2, <1>3, <1>4, <2>1, <2>4, <2>5 DEF BlockIInv
<1> QED
  BY <1>2, <1>7, <1>8, <1>9

LEMMA BlockStutters == BlockIInv /\ UNCHANGED blockVars => BlockIInv'
  BY DEF BlockIInv, BlockTypeOK, blockVars, Nk, Nr

\* For every key of 128, 192 or 256 bits and every block, each round of
\* DecryptBlock gives the state of one of EncryptBlock's rounds, and the last one the
\* block that was encrypted.
THEOREM BlocksRightHolds == BlockSpec => []BlocksRight
<1>1. BlockInit => BlockIInv
  BY BlockInits
<1>2. BlockIInv /\ [BlockNext]_blockVars => BlockIInv'
  BY ExpandKeyKeeps, EncryptKeeps, DecryptKeeps, BlockStutters DEF BlockNext
<1>3. BlockIInv => BlocksRight
  BY DEF BlockIInv, BlocksRight, RoundsUndo, SubShifted
<1> QED
  BY <1>1, <1>2, <1>3, PTL DEF BlockSpec
=============================================================================
