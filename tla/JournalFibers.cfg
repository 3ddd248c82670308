CONSTANTS
  c1 = c1  c2 = c2  o1 = o1  o2 = o2  x = x  y = y  alice = alice  guest = guest
  Caller <- MCCaller
  OpId   <- MCOpId
  Data   <- MCData
  Actor  <- MCActor
  Batch  <- FewBatches
  Accept <- MCAccept
  Null = Null
  Nobody = Nobody
  Preemptive = TRUE
  Interruptible = TRUE
  Resettable = TRUE
  QueueSize = 1
SPECIFICATION Spec
INVARIANT TypeOK
INVARIANT Consistent
INVARIANT AnswersHold
INVARIANT TransactionOK
PROPERTY HistoryIsStable
