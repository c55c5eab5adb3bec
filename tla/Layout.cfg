\* Five lines of code, up to three blocks deep, with what may stand between them.
SPECIFICATION Spec
CONSTANTS
  Programs <- Good
  TAB_WIDTH = 4
  Lines = 5
  Depths = {0, 1, 2, 3}
INVARIANTS TokensAreLayout BlocksNest
