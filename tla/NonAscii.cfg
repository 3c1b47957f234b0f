CONSTANTS
  Chars = {48, 49, 57, 65, 122, 127, 233}
  MaxLength = 4
SPECIFICATION HashSpec
INVARIANTS ClientsHashAlike
CHECK_DEADLOCK FALSE
