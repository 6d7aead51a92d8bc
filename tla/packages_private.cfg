SPECIFICATION Spec
CHECK_DEADLOCK FALSE
CONSTANTS
  app = app
  vendored = vendored
  a = a
  b = b
  own = own
  Dirs = {app, vendored, a, b}
  Root = app
  Paths <- MCPaths
  Main = "main"
  External = "external"
  Found <- MCFound
  Layouts <- OneImport
  Idents = {"P", "q", "r", "B_P", "init", "main"}
  Private = {"q", "r", "init", "main"}
  InitName = "init"
  ExternalVars = {"P"}
  Own = own
  Decls <- MCDecls
  MaxDecls = 2
  MaxDepth = 4
INVARIANTS
  PrivateStaysPrivate
