\* ALTERs that add or modify UNSIGNED integer columns: the ClickHouse
\* type the translator derives is compared with a fresh snapshot's.
CONSTANTS
  Raised = Raised
  TypesMapping <- MCTypesMapping
  Names <- MCNames
  Decls <- MCDeclsUnsigned
  InitTable <- MCInitTable
  OpKinds <- MCOpKinds
  MaxColumns = 3
  MaxSubOps = 1
SPECIFICATION Spec
INVARIANT IncrementalMatchesSnapshot
