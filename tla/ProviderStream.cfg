SPECIFICATION StreamSpec
CONSTANTS
  Replies <- ShortReplies
  MaxPiece = 3
INVARIANTS StreamIsTheSame
CHECK_DEADLOCK FALSE
