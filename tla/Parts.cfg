CONSTANTS
  Replica = {1, 2}
  Clock = {k1, k2, k3}
  HomeOf <- Homes
  Request = {n1, n2}
  MaxCounter = 2
  MaxFrames = 3  MaxQueue = 2  MaxRetries = 1
  Edit = {e1, e2}  Remote = {x1}
  Peer = {p1, p2}  Watching = {p1}  Ttl = 0  MaxUpdates = 1
  Update <- Updates  Fragment <- Fragments  Owner = {"app", "other"}
  Nothing = Nothing  k1 = k1  k2 = k2  k3 = k3
SPECIFICATION PartsSpec
CHECK_DEADLOCK FALSE
INVARIANT SocketCarries
INVARIANT StampsMerge
INVARIANT MountAgrees
INVARIANT PresenceIsTrue
INVARIANT AuthoringIsSound
PROPERTY EveryoneIsAnswered
