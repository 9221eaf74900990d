SPECIFICATION Spec
CONSTANTS
  Commands <- MCCommands
  UnknownOptions <- Unknown
  Inputs <- MCInputs
  MaxDiagnostics <- MCMaxDiagnostics
  SourceBound = 4
INVARIANTS
  TypeOK
  LineIndexExact
  PositionsAreOfTheRange
  RowsAreLines
  CaretsMarkTheRange
  ArgumentsAreUnderstood
  StatusTellsTheOutcome
PROPERTIES
  WritesOnlyAcceptedOutput
  Exits
