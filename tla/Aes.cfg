SPECIFICATION AesSpec
CONSTANTS
  Byte <- MCByte
  Null = 0
  xor <- MCxor
  BlockLen = 2
  UintSize = 8
  Key = {"k1", "k2"}
  Enc <- MCEnc
  Dec <- MCDec
  Messages <- MCMessages
  MaxHits = 2
  KeyLens = {64, 128, 192, 256}
  Keys <- MCKeys
  Plaintexts <- MCPlaintexts
  Answers <- MCAnswers
INVARIANTS RoundTrip ModesRight StandardRight BlocksRight
CHECK_DEADLOCK FALSE
