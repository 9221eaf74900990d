SPECIFICATION Spec
CONSTANTS
  Sources <- MCSources
  CommentBound = 6
  LiteralBound = 5
  NumberBound = 5
  NumberBytes = {"0", "x", "e", "p", ".", "+", "'"}
INVARIANTS
  TypeOK
  DeliversTokenStream
  GapsAreTrivia
  TokensAreLexemes
  ErrorsAreTheUnterminated
PROPERTIES
  Terminates
