SPECIFICATION Spec
CONSTANTS
  Streams <- EndingStreams
  Requests <- AllRequests
  MentionedIds <- MCMentionedIds
  Statements <- AllStatements
  BodyBound = 1
PROPERTIES
  Answers
