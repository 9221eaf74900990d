SPECIFICATION Spec
CONSTANTS
  Streams <- MCStreams
  Requests <- EmitRequests
  MentionedIds <- MCMentionedIds
  Statements <- NestedContract
  BodyBound = 1
INVARIANTS
  PropagatedTypesAgree
