SPECIFICATION Spec
CHECK_DEADLOCK FALSE
CONSTANTS
  app = app
  vendored = vendored
  a = a
  b = b
  own = own
  Dirs = {app, vendored, a, b}
  Root = app
  Paths <- MCPaths
  Main = "main"
  External = "external"
  Found <- MCFound
  Layouts <- MCLayouts
  Idents = {"P", "q", "r", "B_P", "init", "main"}
  Private = {"q", "r", "init", "main"}
  InitName = "init"
  ExternalVars = {"P"}
  Own = own
  Decls <- MCDecls
  MaxDecls = 3
  MaxDepth = 4
INVARIANTS
  TypeOK
  ImportsFirst
  OneSymbolEach
  RightBinding
  OnlyEarlyReturnsLeak
  InitBeforeUse
PROPERTIES
  AcyclicEnds
