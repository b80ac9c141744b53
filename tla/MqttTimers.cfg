SPECIFICATION KSpec
CONSTANTS
  ssl1 = ssl1
  Sessions <- OneSession
  NULL = NULL
  NoDigits = NoDigits
  TooLong = TooLong
  NotForUs = NotForUs
  CmdPayloads <- JustCount
  ULONG_MAX = 1
  BLINK_MAX = 1
  BLINK_MS = 0
  PktLen = 1
  TickMod = 5
  RECONNECT_BACKOFF_MS = 1
  KEEPALIVE_HALF = 1
  MaxGap = 1
  MaxIn = 1
  MaxOut = 0
  MaxFaults = 1
  MaxSilence = 6
PROPERTIES
  BackoffRespected
INVARIANTS
  SilenceBounded
