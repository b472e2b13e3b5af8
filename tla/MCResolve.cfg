SPECIFICATION ScopingSpec
CONSTANTS
  Sources <- MCSources
  Decls <- MCDecls
  Stmts <- MCStmts
  Names <- MCNames
  DeclText <- MCDeclText
  StmtText <- MCStmtText
INVARIANT TypeOK
INVARIANT SlotsDisjoint
INVARIANT FrameFits
INVARIANT LookupSound
INVARIANT ErrorsExact
INVARIANT CrashExact
