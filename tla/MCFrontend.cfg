SPECIFICATION Spec
CONSTANTS
  Streams <- AllStreams
  Requests <- AllRequests
  MentionedIds <- MCMentionedIds
  Statements <- AllStatements
  BodyBound = 2
INVARIANTS
  TypeOK
  ConstructsAreInFunctions
  TriesResolveToTheirFunction
  PropagationsKnowTheirCallee
  SyntheticNamesAreFresh
  TokensAreCopiedOnce
  GeneratedIsCxx
  ExitsMatchTheirFunction
  ResultAnswersTheRequest
PROPERTIES
  KeepsContract
