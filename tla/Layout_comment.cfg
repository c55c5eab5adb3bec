\* A line comment behind any of three lines.
SPECIFICATION Spec
CONSTANTS
  Programs <- Commented
  TAB_WIDTH = 4
  Lines = 3
  Depths = {0, 1, 2, 3}
INVARIANT TokensAreLayout
