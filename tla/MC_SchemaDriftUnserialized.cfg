\* Rows and ALTERs of one table, with a row read before an ALTER and
\* converted after it.
CONSTANTS
  Raised = Raised
  Null = Null
  NoRow = NoRow
  TypesMapping <- MCTypesMapping
  Names <- MCNames
  Decls <- MCDecls
  InitTable <- MCInitTable
  OpKinds <- MCOpKinds
  WidthBits <- MCWidthBits
  MaxColumns = 2
  MaxSubOps = 1
  Serialized = FALSE
SPECIFICATION Spec
INVARIANT ValuesLandInOwnColumns
