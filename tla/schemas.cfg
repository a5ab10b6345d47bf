SPECIFICATION Spec

CONSTANTS
  Schemas <- PlainSchemas
  Values <- Arguments
  Json <- PlainJson
  Depth <- Nesting
  MaxDepth = 128
  Tiers = {"none", "safe", "balanced", "high"}

CHECK_DEADLOCK FALSE

INVARIANTS
  HostAgrees
  NullsAreForgiven
  ForwardedFits
  SignatureCovers
