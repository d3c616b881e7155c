SPECIFICATION Spec
CONSTANTS
  a = a
  b = b
  Byte <- Bytes
  Piece <- Pieces
  Stop <- Stops
  MaxTokens = 3
  MaxRestarts = 1
INVARIANT StreamedIsBuffered
