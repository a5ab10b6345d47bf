SPECIFICATION Spec

CONSTANTS
  Schemas <- TitleSchemas
  Values <- TitleArguments
  Json <- TitleJson
  Depth <- Nesting
  MaxDepth = 128
  Tiers = {"safe"}

CHECK_DEADLOCK FALSE

INVARIANTS
  HostAgrees
