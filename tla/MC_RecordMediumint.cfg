\* A signed MEDIUMINT column holding negative values.
CONSTANTS
  Raised = Raised
  Null = Null
  TypesMapping <- MCTypesMapping
  WidthBits <- MCWidthBits
  Columns <- MCColumnsSignedMediumint
  PrimaryKeyIds = {1}
  ArityDrift = {0}
SPECIFICATION Spec
CHECK_DEADLOCK FALSE
INVARIANT RowRecovered
