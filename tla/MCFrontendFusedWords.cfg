SPECIFICATION Spec
CONSTANTS
  Streams <- CalleeStreams
  Requests <- EmitRequests
  MentionedIds <- MCMentionedIds
  Statements <- ConstTry
  BodyBound = 1
INVARIANTS
  WordsStaySeparate
