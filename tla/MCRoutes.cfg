SPECIFICATION Spec
CONSTANTS
    Paths <- MCPaths
    Methods <- MCMethods
    Pages <- MCPages
    OwnRouter <- MCOwnRouter
    Builtin <- MCBuiltin
    Decls <- MCDecls
    MaxChanged = 2
    MaxEdits = 2
INVARIANTS TypeOK FirstIsMostSpecific HandlerAccepts OnDemandAgrees
CHECK_DEADLOCK FALSE
