SPECIFICATION Spec
CONSTANTS
  MaxTokens = 5
  Statements <- AllStatements
  Extra <- ExtraForms
INVARIANTS Balanced OwnEntries ContextInFunction
CHECK_DEADLOCK FALSE
