SPECIFICATION Spec
CHECK_DEADLOCK FALSE
CONSTANTS
  Texts <- MCTexts
  Spelled <- MCSpelled
  Expressions <- MCExpressions
  Bodies <- MCBodies
  Declarations <- MCDeclarations
  Groups <- MCGroups
  Names <- MCNames
  IntegerPrograms <- MCIntegers
  Storage <- MCStorage
  Calls <- MCCalls
  Assertions <- MCAssertions
  Strings <- MCStrings
  Bits <- MCBits
INVARIANTS
  TypeOK
  LexesAsGo
  GroupsAsGo
  StatementsAsWritten
  IotaAsGo
  NamesAsGo
  IntegersAsGo
  StorageAsGo
  CallsAsGo
  AssertionsAsGo
  StringsAsGo
