SPECIFICATION ParserSpec
CONSTANTS
  Words = {"return", "fail", "fails", "try", "auto", "=", "(", ")", "{", "}", ";"}
  TopLevelBound = 3
  BodyBound = 3
  PhraseBound = 3
  Gaps = {0, 1}
  Streams <- MCStreams
INVARIANTS
  ParserTypeOK
  BodyTokensOwnedOnce
  UnitTokensOwnedOnce
  BodiesInSourceOrder
  IncompleteConstructsReported
PROPERTIES
  Progress
