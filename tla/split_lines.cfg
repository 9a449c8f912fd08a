SPECIFICATION Spec
CONSTANTS
  Alphabet = {"x", ".", "nl"}
  MaxText = 5
  MaxDelta = 2
  MaxChars = 4
  MinChars = 0
CHECK_DEADLOCK FALSE
INVARIANT SentencesApart
