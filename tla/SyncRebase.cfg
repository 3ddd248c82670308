CONSTANTS
  r1 = r1  r2 = r2  h1 = h1  h2 = h2  f1 = f1  f2 = f2  k1 = k1  k2 = k2  x = x  y = y
  Replica = {r1}
  Reader = {}
  Handle = {h1}
  Home <- Alone
  Fiber = {f1}
  Tab <- OneFiber
  Slot = {k1}
  Data = {x, y}
  Accept <- OnlyFirst
  OpId <- MCOpId
  Actor <- MCActor
  Producer = Producer
  Null = Null
  Nothing = Nothing
  Window = 1
  MaxLocal = 1
  MaxServer = 1
  Faulty = FALSE
  Evictable = FALSE
SPECIFICATION RebaseSpec
INVARIANT OutboxReplays
