\* Text columns of tables in MySQL's big-endian Unicode charsets (utf16,
\* ucs2, utf32), their values yielded as the bytes MySQL stores.
CONSTANTS
  Raised = Raised
  NullPoint = NullPoint
  Coordinates <- MCCoordinates
  GeometryTypes <- MCGeometryTypes
  Srids <- MCSrids
  Documents <- MCDocuments
  NoCharset = NoCharset
  TypesMapping <- MCTypesMapping
  Texts <- MCTexts
  TextTypes <- MCTextTypes
  TableCharsets <- MCCharsetsBigEndian
SPECIFICATION Spec
CHECK_DEADLOCK FALSE
INVARIANT TextRecovered
