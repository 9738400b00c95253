------------------------------ MODULE AesBlock ------------------------------
(***************************************************************************)
(* AES on one block: the constructor, KeyExpansion, EncryptBlock and       *)
(* DecryptBlock of what EncryptBlock gave, one step per round and one per  *)
(* word of the key.                                                        *)
(***************************************************************************)
EXTENDS AesCipher

CONSTANTS KeyLens,    \* lengths of keys that are tried, in bits
          Keys,       \* 32 bytes each, of which a key takes the first ones
          Plaintexts, \* blocks that are encrypted
          Answers     \* what the standard says of some of them: [keyLen, key, in,
                      \* out], with key of Keys and in of Plaintexts

ASSUME BlockAssumption == /\ KeyLens \subseteq Nat
                          /\ Keys \subseteq [1 .. 32 -> Octet]
                          /\ Plaintexts \subseteq [1 .. 16 -> Octet]

VARIABLES keyLen, cipherKey, plain, \* the arguments
          phase,        \* "expand", "encrypt", "decrypt", "done", "thrown"
          w,            \* roundKeys
          round, state, \* as in the code
          cipher,       \* the encrypted block
          trace         \* history: EncryptBlock's state after each round

blockVars == <<keyLen, cipherKey, plain, phase, w, round, state, cipher, trace>>

Nk == keyLen \div 32
Nr == Nk + 6

BlockTypeOK ==
  /\ phase \in {"expand", "encrypt", "decrypt", "done", "thrown"}
  /\ w \in Seq(Octet) /\ Len(w) <= 16 * (Nr + 1)
  /\ round \in 0 .. Nr
  /\ {state, plain} \subseteq [1 .. 16 -> Octet]
  /\ cipher \in {<<>>} \cup [1 .. 16 -> Octet]
  /\ Len(trace) <= Nr

\* The constructor throws at other lengths.
BlockInit ==
  /\ keyLen \in KeyLens /\ cipherKey \in Keys /\ plain \in Plaintexts
  /\ phase = IF keyLen \in {128, 192, 256} THEN "expand" ELSE "thrown"
  /\ w = IF phase = "thrown" THEN <<>> ELSE SubSeq(cipherKey, 1, 4 * Nk)
  /\ round = 0 /\ state = plain /\ cipher = <<>> /\ trace = <<>>

ExpandKey == /\ phase = "expand"
             /\ w' = Expand(w, Nk)
             /\ phase' = IF Len(w') = 16 * (Nr + 1) THEN "encrypt" ELSE "expand"
             /\ UNCHANGED <<keyLen, cipherKey, plain, round, state, cipher, trace>>

\* Round 0 only adds a key, the last one does not mix the columns.
EncryptRound ==
  AddRoundKey(CASE round = 0 -> state
                [] round = Nr -> ShiftRows(SubBytes(state))
                [] OTHER -> MixColumns(ShiftRows(SubBytes(state))),
              w, round)

EncryptBlock ==
  /\ phase = "encrypt"
  /\ state' = EncryptRound
  /\ IF round = Nr
     THEN /\ cipher' = state' /\ phase' = "decrypt"
          /\ UNCHANGED <<round, trace>>
     ELSE /\ round' = round + 1 /\ trace' = Append(trace, state')
          /\ UNCHANGED <<cipher, phase>>
  /\ UNCHANGED <<keyLen, cipherKey, plain, w>>

\* Mutant: the key of the next round.
DecryptRoundLate ==
  CASE round = Nr -> AddRoundKey(state, w, round)
    [] round = 0 -> AddRoundKey(InvShiftRows(InvSubBytes(state)), w, 0)
    [] OTHER -> InvMixColumns(AddRoundKey(InvShiftRows(InvSubBytes(state)), w,
                                          round + 1))

DecryptRound ==
  CASE round = Nr -> AddRoundKey(state, w, round)
    [] round = 0 -> AddRoundKey(InvShiftRows(InvSubBytes(state)), w, 0)
    [] OTHER -> InvMixColumns(AddRoundKey(InvShiftRows(InvSubBytes(state)), w,
                                          round))

DecryptBlock ==
  /\ phase = "decrypt"
  /\ state' = DecryptRound
  /\ IF round = 0 THEN phase' = "done" /\ UNCHANGED round
                  ELSE round' = round - 1 /\ UNCHANGED phase
  /\ UNCHANGED <<keyLen, cipherKey, plain, w, cipher, trace>>

BlockNext == ExpandKey \/ EncryptBlock \/ DecryptBlock

BlockSpec == BlockInit /\ [][BlockNext]_blockVars
-----------------------------------------------------------------------------
(* Properties *)

\* Each round of DecryptBlock undoes one of EncryptBlock: before it the state is
\* what that round had made, after its substitution and shift.  In the end the
\* block is the one that was encrypted.
RoundsUndo ==
  /\ phase = "decrypt" /\ round < Nr => state = ShiftRows(SubBytes(trace[round + 1]))
  /\ phase = "done" => state = plain

\* EncryptBlock gives the standard's answers, for each length of the key.
KnownAnswer == cipher # <<>> =>
  \A a \in Answers :
    a.keyLen = keyLen /\ a.key = cipherKey /\ a.in = plain => a.out = cipher

\* The rounds are each other's inverses.
BlocksRight == BlockTypeOK /\ RoundsUndo
=============================================================================
