SPECIFICATION KSpec
CONSTANTS
  ssl1 = ssl1
  Sessions <- OneSession
  NULL = NULL
  NoDigits = NoDigits
  TooLong = TooLong
  NotForUs = NotForUs
  CmdPayloads <- JustBlink
  ULONG_MAX = 1
  BLINK_MAX = 1
  BLINK_MS = 20
  PktLen = 1
  TickMod = 43
  RECONNECT_BACKOFF_MS = 0
  KEEPALIVE_HALF = 2
  MaxGap = 1
  MaxIn = 1
  MaxOut = 0
  MaxFaults = 0
  MaxSilence = 9
INVARIANTS
  KeepaliveHonoured
