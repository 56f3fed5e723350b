SPECIFICATION Spec
CONSTANTS
  MAX_NESTING = 10
  MAX_TOKENS = 110
  Word = 256
  Nodes <- MCNodes
  MaxNodes = 4
  Bytes = {0, 1, 3, 5, 69, 130, 195}
  MaxBytes = 6
CHECK_DEADLOCK FALSE
INVARIANTS RoundTrip Reread SyncUnderstood OthersUnderstood
