SPECIFICATION Spec
CONSTANTS
  MaxTokens = 5
  Statements <- AllStatements
  Extra = {}
INVARIANTS TypeOK InnermostLoop Terminated OwnTargets RetMatches NoPanic Faithful
CHECK_DEADLOCK FALSE
