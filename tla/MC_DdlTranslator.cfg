\* Supported ALTER sub-operations on signed and string columns: the
\* incrementally maintained schema pair tracks the MySQL table, and the
\* translator implements the SchemaMirror promise.
CONSTANTS
  Raised = Raised
  TypesMapping <- MCTypesMapping
  Names <- MCNames
  Decls <- MCDecls
  InitTable <- MCInitTable
  OpKinds <- MCOpKinds
  MaxColumns = 3
  MaxSubOps = 2
SPECIFICATION Spec
INVARIANTS
  TypeOK
  MirrorsInLockstep
PROPERTY
  MirrorRefined
