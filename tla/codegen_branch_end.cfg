SPECIFICATION Spec
CONSTANTS
  MaxTokens = 4
  Statements <- Conditions
  Extra = {"openBranchEnd"}
INVARIANT Terminated
CHECK_DEADLOCK FALSE
