SPECIFICATION Spec
CHECK_DEADLOCK FALSE
CONSTANTS
  Texts = {}
  Spelled = {}
  Expressions = {}
  Bodies = {}
  Declarations = {}
  Groups = {}
  Names = {}
  IntegerPrograms = {}
  Storage = {}
  Calls = {}
  Assertions = {}
  Strings <- JoinCases
  Bits <- MCBits
INVARIANTS
  JoinsAsTested
