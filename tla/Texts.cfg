SPECIFICATION TextsSpec
CONSTANTS
  MAX_IP_PACK_SIZE = 4096
  MAX_NICKNAME = 2066
  PADDING = 24
  KeyLen = 1080
  TimeLen = 22
  Names <- MCNames
  Lines <- MCLines
  MaxTail = 3
  MaxMsgs = 5
  BASE = 1000
  LimbDigits = 3
  Begin <- MCBegin
  End <- MCEnd
  KeyPairs <- MCKeyPairs
  OtherKeys <- MCOtherKeys
  Messages <- MCMessages
  Ciphers <- MCCiphers
  MaxCalls = 2
  num1 <- Good
  num2 <- MCPublic
  num3 <- MCPrivate
  Inputs <- MCInputs
INVARIANTS FormattedFits SpillsOnly LinesWhole TextRight BadKeys ToolRight
CHECK_DEADLOCK FALSE
