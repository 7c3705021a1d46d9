\* Statements that combine a supported sub-operation with RENAME COLUMN,
\* which convert_alter_query does not implement.
CONSTANTS
  Raised = Raised
  TypesMapping <- MCTypesMapping
  Names <- MCNames
  Decls <- MCDecls
  InitTable <- MCInitTable
  OpKinds <- MCOpKindsRename
  MaxColumns = 3
  MaxSubOps = 2
SPECIFICATION Spec
PROPERTY FailedAlterLeavesMirrors
