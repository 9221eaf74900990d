SPECIFICATION Spec
CONSTANTS
  Commands <- MCCommands
  UnknownOptions <- Unknown
  Inputs <- MCInputs
  MaxDiagnostics <- MCMaxDiagnostics
  SourceBound = 4
INVARIANT
  NothingIsLostUnseen
