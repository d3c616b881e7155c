SPECIFICATION FairSpec
CONSTANTS
  a = a
  b = b
  Byte <- Bytes
  Piece <- Pieces
  Stop <- Stops
  MaxTokens = 3
  MaxRestarts = 1
INVARIANTS TypeOK NeverIntoStop AttemptIsResponse TerminalLast
PROPERTY StreamEnds
