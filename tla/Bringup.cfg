CONSTANTS
  Millisecond = 27
  Transfers = {4, 27, 28, 55}
SPECIFICATION FairSpec
INVARIANTS TypeOK AccessWhole ResetTimed TicksMissed ClockSafe ConsoleTimed
PROPERTIES ComesUp TickServed
