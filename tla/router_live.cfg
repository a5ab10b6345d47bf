SPECIFICATION MeterSpec

CONSTANTS
  NServers = 2
  Req = {r1, r2}
  Frames <- LiveFrames
  Bare = {b}
  Name = {nb0, nb1, nc0, nc1, nx}
  Namespaced <- OwnNames
  NoPrefix = FALSE
  Listings <- LiveListings
  Checked = TRUE
  Concurrent = TRUE
  Mortal = {0, 1}
  MaxId = 2
  NoReq = NoReq
  NoName = NoName
  NoSchema = NoSchema
  Invalid = Invalid
  r1 = r1
  r2 = r2
  r3 = r3
  b = b
  c = c
  nb0 = nb0
  nb1 = nb1
  nc0 = nc0
  nc1 = nc1
  nx = nx
  x = x
  y = y
  wide = wide
  narrow = narrow
  Args = {x, y}
  Schema = {wide, narrow}
  Rehydrate <- Validate
  Full = 3
  Short = 1
  Envelope = 1

CHECK_DEADLOCK FALSE

INVARIANTS
  MeterInvariant
  CountsAreTrue
  ScrapeIsCurrent
PROPERTIES
  EveryRequestAnswered
  EveryCallIsCounted
