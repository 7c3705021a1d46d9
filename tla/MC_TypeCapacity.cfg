\* Integer, NUMERIC and ENUM declarations around every width and
\* precision threshold of convert_type.
CONSTANTS
  Raised = Raised
  TypesMapping <- MCTypesMapping
  IntBases <- MCIntBases
  DisplayWidths <- MCDisplayWidths
  IntParams <- MCIntParams
  Precisions <- MCPrecisions
  Scales <- MCScales
  EnumSizes <- MCEnumSizes
SPECIFICATION Spec
CHECK_DEADLOCK FALSE
INVARIANT NoNarrowing
