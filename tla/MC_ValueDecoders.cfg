\* A point column: plain and SRID-prefixed points in both byte orders,
\* malformed flags, types and lengths, and NULL.  A json column: documents
\* of depth two in every form the driver may yield them.  A text column of
\* a table in utf8mb4, utf8mb3, utf16le or an unknown charset, as bytes or
\* decoded.
CONSTANTS
  Raised = Raised
  NullPoint = NullPoint
  Coordinates <- MCCoordinates
  GeometryTypes <- MCGeometryTypes
  Srids <- MCSrids
  Documents <- MCDocuments
  NoCharset = NoCharset
  TypesMapping <- MCTypesMapping
  Texts <- MCTexts
  TextTypes <- MCTextTypes
  TableCharsets <- MCCharsetsMatching
SPECIFICATION Spec
CHECK_DEADLOCK FALSE
INVARIANTS
  DecodesEncodedPoint
  DocumentRecovered
  TextRecovered
