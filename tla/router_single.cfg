SPECIFICATION Spec

CONSTANTS
  NServers = 1
  Req = {r1, r2, r3}
  Frames <- SingleFrames
  Bare = {b}
  Name = {b, nx}
  Namespaced <- BareNames
  NoPrefix = TRUE
  Listings <- SingleListings
  Checked = TRUE
  Concurrent = TRUE
  Mortal = {0}
  MaxId = 3
  NoReq = NoReq
  NoName = NoName
  NoSchema = NoSchema
  Invalid = Invalid
  r1 = r1
  r2 = r2
  r3 = r3
  b = b
  c = c
  nb0 = nb0
  nb1 = nb1
  nc0 = nc0
  nc1 = nc1
  nx = nx
  x = x
  y = y
  wide = wide
  narrow = narrow
  Args = {x, y}
  Schema = {wide, narrow}
  Rehydrate <- Validate

SYMMETRY Sym
CHECK_DEADLOCK FALSE

INVARIANTS
  LedgerInv
  LastListedIsInForce
