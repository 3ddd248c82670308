CONSTANTS
  e1 = e1  e2 = e2  a = a  b = b  list = list  page = page  board = board
  Entity = {e1, e2}
  Field = {a}
  Surface = {list, board}
  Needs <- MCNeeds
  Refreshing = {board}
  Order <- MCOrder
  Run = {r1, r2}
  Source = "log"
  Deleted = Deleted
  Nothing = Nothing
  MaxFacts = 3
  MaxShows = 1
  Faulty = TRUE
  Deletes = TRUE
SYMMETRY Runs
SPECIFICATION Spec
INVARIANT ReadsAreOwned
INVARIANT IdleIsComplete
PROPERTY NoFactSkipped
