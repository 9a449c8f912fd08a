SPECIFICATION Spec
CONSTANTS
  Alphabet = {"x", ".", ",", " ", "nl"}
  MaxText = 7
  MaxDelta = 2
  MaxChars = 3
  MinChars = 2
CHECK_DEADLOCK FALSE
INVARIANT NothingLost
 
