SPECIFICATION Spec

CONSTANTS
  NServers = 2
  Req = {r1, r2}
  Frames <- ListFrames
  Bare = {b}
  Name = {nb0, nb1, nc0, nc1, nx}
  Namespaced <- OwnNames
  NoPrefix = FALSE
  Listings <- StaleListings
  Checked = TRUE
  Concurrent = FALSE
  Mortal = {}
  MaxId = 2
  NoReq = NoReq
  NoName = NoName
  NoSchema = NoSchema
  Invalid = Invalid
  r1 = r1
  r2 = r2
  r3 = r3
  b = b
  c = c
  nb0 = nb0
  nb1 = nb1
  nc0 = nc0
  nc1 = nc1
  nx = nx
  x = x
  y = y
  wide = wide
  narrow = narrow
  Args = {x, y}
  Schema = {wide, narrow}
  Rehydrate <- Validate

CHECK_DEADLOCK FALSE

INVARIANTS
  LastListedIsInForce
