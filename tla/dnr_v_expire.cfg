CONSTANTS
  h1 = h1
  Accounts = {h1}
  Names = {1, 2}
  Masks = {5}
  MaxTime = 2
SPECIFICATION Spec
PROPERTIES
  DnrsKept
CHECK_DEADLOCK FALSE
