CONSTANTS
  u1 = u1  u2 = u2  u3 = u3  s2 = s2  c1 = c1  c2 = c2  c3 = c3
  Call = {a1, a2}
  Capability = {find, book, save}
  Completes = {find, book}
  Correlated = {book}
  Suspends = {find}
  Gated = {find}
  Capacity = 1
  Task = {t1, t2, t3}
  TaskCapacity = 2
  Tool = {u1, u2, u3}
  Priority <- Priorities
  MaxToolChanges = 2
  MaxRefusals = 1
  Session = {s1, s2}
  Conn = {c1, c2, c3}
  Request = {k1}
  ReplayBuffer = 1
  Ttl = 0
  MaxClock = 1
  MaxChanges = 2
  MaxLists = 2
  Declaration <- Declarations
  ResourceName = {"context", "list"}
  Lower <- Lowered
  Valid = {"a", "b", "c", "A", "_"}
  Shape <- Shapes
  Nothing = Nothing
SPECIFICATION AgentsSpec
CHECK_DEADLOCK FALSE
INVARIANT ToolsAreCurrent
INVARIANT SessionsDeliver
INVARIANT ContractIsTrue
PROPERTY DispatchIsAccountable
PROPERTY TasksStayTrue
PROPERTY EveryRequestEnds
