CONSTANTS
  Chars = {48, 49, 57, 65, 122, 127, 233}
  MaxLength = 4
SPECIFICATION HashSpec
INVARIANTS AsciiHashAlike MixIsFNV
CHECK_DEADLOCK FALSE
