SPECIFICATION FairSpec
CONSTANTS
  ssl1 = ssl1
  ssl2 = ssl2
  ssl3 = ssl3
  Sessions <- TwoSessions
  NULL = NULL
  NoDigits = NoDigits
  TooLong = TooLong
  NotForUs = NotForUs
  CmdPayloads <- JustCount
  ULONG_MAX = 1
  BLINK_MAX = 1
  BLINK_MS = 0
  PktLen = 1
  TickMod = 3
  RECONNECT_BACKOFF_MS = 0
  KEEPALIVE_HALF = 0
  MaxGap = 1
  MaxIn = 1
  MaxOut = 0
  MaxFaults = 2
PROPERTIES
  Recovers
  VanishNoticed
