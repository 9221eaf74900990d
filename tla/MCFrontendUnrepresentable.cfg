SPECIFICATION Spec
CONSTANTS
  Streams <- CalleeStreams
  Requests <- EmitRequests
  MentionedIds <- MCMentionedIds
  Statements <- FailTry
  BodyBound = 1
INVARIANTS
  AcceptedIsRepresentable
