CONSTANTS
  c1 = c1  c2 = c2  c3 = c3
  Caller = {c1, c2}
  MaxOp = 2
  MaxRuns = 2
  Nobody = Nobody
  Crashes = TRUE
  Interrupts = TRUE
  Compaction = "settled"
SPECIFICATION Spec
SYMMETRY CallerSymmetry
INVARIANT ReservationsHold
INVARIANT OneSuccessPerRecord
INVARIANT AnswersAreRecorded
INVARIANT SettledBeforeTheAck
