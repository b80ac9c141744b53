CONSTANTS
  Addrs = {a1, static}
  Static = static
  Zero = zero
  BootTimeout = 3
  Wait = 1
  MaxRetry = 1
  HalfLease = 1
  ArpTime = 1
  MaxGap = 1
  TickMax = 2
SPECIFICATION FairSpec
INVARIANTS BootBounded LeaseApplied TakenVacated AnnouncesAddress
PROPERTIES GetsLease
