SPECIFICATION Spec

CONSTANTS
  m = m
  all = all
  one = one
  overlong = overlong
  Torn = Torn
  NoFile = NoFile
  NotGiven = NotGiven
  Sess = {m}
  NServers = 2
  Broken = {1}
  Brief = {0}
  CommandLines <- Lines
  Disk <- Files
  Words = {"gw.toml", "addr", "cmd", "x", "hi"}
  Letters = {"a", "b"}
  Digits = {"1"}
  OtherChars = {"-"}
  Tools <- AllTools
  Scripts <- Said
  Line = {all, one, overlong}
  To <- LinesTo
  Answers <- AnswersTo
  Overlong = {overlong}
  Pipe = 1
  CanHang = {0}

CHECK_DEADLOCK FALSE

INVARIANTS
  StdioInvariant
  CommandIsVerbatim
  PrefixesAreApart
  UpstreamHearsInOrder
  ClientHearsInOrder
  NothingIsLeftBehind
PROPERTIES
  ImplementsRelay
  LinesGetThrough
  ClosingEndsAll
