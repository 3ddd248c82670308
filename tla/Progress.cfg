CONSTANTS
  c1 = c1  c2 = c2  o1 = o1  o2 = o2  x = x  y = y  alice = alice  guest = guest
  r1 = r1  r2 = r2  h1 = h1  h2 = h2  f1 = f1  f2 = f2  k1 = k1  Producer = Producer  Nothing = Nothing
  Caller <- MCCaller
  OpId   <- MCOpId
  Data   <- MCData
  Actor  <- MCActor
  Batch  <- MCBatch
  Accept <- MCAccept
  Null = Null
  Nobody = Nobody
  Preemptive = FALSE
  Interruptible = TRUE
  Resettable = TRUE
  QueueSize = 1
SPECIFICATION ProgressSpec
INVARIANT ReadersAreServed
PROPERTY CommittedIsSeen
PROPERTY OutboxDrains
