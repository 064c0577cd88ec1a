SPECIFICATION TranslateSpec
CONSTANTS
  Faces = {0, 1, 2, 3, 4, 5}
  Notations = {"", "1", "+", "2", "'", "3", "-", "low", "low2", "x"}
  MaxTokens = 3
  MaxSpaces = 1
CHECK_DEADLOCK FALSE
INVARIANTS
  SameEffect
  CommandsCharged
