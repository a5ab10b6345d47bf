SPECIFICATION FairSpec

CONSTANTS
  Sess = {x1, x2}
  NServers = 2
  Broken = {1}
  Brief = {0}
  Post = {p1}
  NoSess = NoSess
  Home <- HomeOf
  x1 = x1
  x2 = x2
  p1 = p1

CHECK_DEADLOCK FALSE

INVARIANTS
  SInv
  TypeOK
  OpenSessionIsServed
  PostsReachHome
  NothingIsLeft
PROPERTIES
  ClosedIsCleanedUp
