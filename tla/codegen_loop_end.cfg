SPECIFICATION Spec
CONSTANTS
  MaxTokens = 4
  Statements <- Loops
  Extra = {"jumpEndsLoop"}
INVARIANT Faithful
CHECK_DEADLOCK FALSE
