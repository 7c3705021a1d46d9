\* Rows of every unsigned width, a signed key and a SET, in both driver
\* renderings and of a neighbouring arity, converted fully and with
\* only_primary.
CONSTANTS
  Raised = Raised
  Null = Null
  TypesMapping <- MCTypesMapping
  WidthBits <- MCWidthBits
  Columns <- MCColumns
  PrimaryKeyIds = {1}
  ArityDrift <- MCArityDrift
SPECIFICATION Spec
CHECK_DEADLOCK FALSE
INVARIANTS
  RowRecovered
