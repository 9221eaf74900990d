SPECIFICATION ParserSpec
CONSTANTS
  Words = {}
  TopLevelBound = 0
  BodyBound = 0
  PhraseBound = 0
  Gaps = {1}
  Streams <- FunctionStreams
INVARIANTS
  ConstructsAreVisible
