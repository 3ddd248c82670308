CONSTANTS
  e1 = e1  e2 = e2  a = a  b = b  list = list  page = page  board = board
  Entity = {e1, e2}
  Field = {a}
  Surface = {board}
  Needs <- MCNeeds
  Refreshing = {}
  Order <- MCOrder
  Run = {r1}
  Source = "hub"
  Deleted = Deleted
  Nothing = Nothing
  MaxFacts = 3
  MaxShows = 1
  Faulty = FALSE
  Deletes = FALSE
SPECIFICATION Spec
CHECK_DEADLOCK FALSE
PROPERTY NoFactSkipped
