CONSTANTS
  ULONG_MAX = 2
  BLINK_MAX = 1
  BLINK_MS = 1
  NoDigits = NoDigits
  None = None
  Forged = Forged
  ClientCommands <- ChannelCommands
  RxUnits = 3
  MaxUnits = 2
  PageUnits = 2
SPECIFICATION BoardFairSpec
INVARIANTS TypeOK RepliesEarned ForgedRefused ButtonsHonoured
PROPERTIES ChannelImplemented PageImplemented OnlyButtonsLight ListensAgain PageListensAgain
