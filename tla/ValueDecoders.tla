---------------------------- MODULE ValueDecoders ----------------------------
(***************************************************************************)
(* The three decoding branches of convert_record (converter.py 399-401,   *)
(* 421-426 and 443-444), chosen by the MySQL type of the column: a json    *)
(* column mapped to String goes through convert_bytes and json.dumps      *)
(* (ByteDecoding), a text or char column through the table's charset      *)
(* (CharsetDecoding), a point column through parse_mysql_point            *)
(* (GeometryDecoder).  One column's value is converted per behaviour.     *)
(***************************************************************************)
EXTENDS Integers

CONSTANTS
  Coordinates, GeometryTypes, Srids,  \* as in GeometryDecoder
  NullPoint,    \* model value: a NULL POINT (GeometryDecoder's None)
  Documents,    \* as in ByteDecoding
  TableCharsets, NoCharset, Texts, TextTypes, TypesMapping,  \* as in CharsetDecoding
  Raised

VARIABLES
  binary, point, result,  \* as in GeometryDecoder
  doc, value, out,        \* as in ByteDecoding
  charset, colType, text, raw, decoded  \* as in CharsetDecoding

Geometry == INSTANCE GeometryDecoder WITH None <- NullPoint
Json == INSTANCE ByteDecoding
Text == INSTANCE CharsetDecoding

pointVars == <<binary, point, result>>
jsonVars == <<doc, value, out>>
textVars == <<charset, colType, text, raw, decoded>>

Init == Geometry!Init /\ Json!Init /\ Text!Init

Idle == binary = <<>> /\ out = Json!None /\ decoded = Text!NotYet

\* convert_record on a column whose type starts with 'point'.
PointColumn == Idle /\ Geometry!Next /\ UNCHANGED <<jsonVars, textVars>>

\* convert_record on a json column mapped to String.
JsonColumn == Idle /\ Json!Next /\ UNCHANGED <<pointVars, textVars>>

\* convert_record on a text or char column.
TextColumn == Idle /\ Text!Next /\ UNCHANGED <<pointVars, jsonVars>>

Next == PointColumn \/ JsonColumn \/ TextColumn

Spec == Init /\ [][Next]_<<pointVars, jsonVars, textVars>>

\* The properties of the decoders, as stated in their modules.
DecodesEncodedPoint == Geometry!DecodesEncodedPoint
DocumentRecovered == Json!DocumentRecovered
TextRecovered == Text!TextRecovered
=============================================================================
