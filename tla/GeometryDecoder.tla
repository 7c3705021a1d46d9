--------------------------- MODULE GeometryDecoder ---------------------------
(***************************************************************************)
(* parse_mysql_point of converter.py: a POINT value as the binlog carries  *)
(* it, either plain WKB (21 bytes: byte order, geometry type, x, y) or     *)
(* MySQL's internal form (25 bytes: a 4-byte SRID, then the WKB).          *)
(*                                                                         *)
(* A byte is an integer.  struct.unpack('I') is modelled by what it does,  *)
(* the base-256 value of the bytes in the given byte order; an 8-byte     *)
(* double by its bytes in order of significance (most significant first), *)
(* which is the value's bit pattern: the decoder only reorders bytes, it   *)
(* never does arithmetic on the coordinates.  Each step decodes one value. *)
(***************************************************************************)
EXTENDS Integers, Sequences, SequencesExt

CONSTANTS
  Coordinates,  \* 8-byte bit patterns of doubles, most significant byte first
  GeometryTypes, \* WKB geometry type codes written into the samples
  Srids,        \* spatial reference ids
  Raised,       \* model value: the ValueError raised
  None          \* model value: a NULL POINT (binary is None)

VARIABLES
  binary,       \* the value handed to parse_mysql_point
  point,        \* the point it was encoded from, or Raised if it is not a point
  result        \* what parse_mysql_point returned, or Raised

vars == <<binary, point, result>>

-----------------------------------------------------------------------------
(* parse_mysql_point                                                       *)

\* The byte order flag: 0 big-endian ('>'), 1 little-endian ('<').
Endian(flag) == CASE flag = 0 -> ">" [] flag = 1 -> "<" [] flag \notin {0, 1} -> Raised

\* The bytes of bs with the most significant first.
MostSignificantFirst(bs, endian) == IF endian = ">" THEN bs ELSE Reverse(bs)

\* struct.unpack(endian + 'I', bs)[0]
UnpackUInt32(bs, endian) ==
  LET m == MostSignificantFirst(bs, endian)
  IN ((m[1] * 256 + m[2]) * 256 + m[3]) * 256 + m[4]

\* struct.unpack(endian + 'd', bs)[0]
UnpackDouble(bs, endian) == MostSignificantFirst(bs, endian)

\* The WKB point starting at byte off + 1 (off = 0 plain, 4 after an SRID):
\* byte order, type 1, then x and y.
ReadWkbPoint(b, off, endian) ==
  IF endian = Raised THEN Raised
  ELSE IF UnpackUInt32(SubSeq(b, off + 2, off + 5), endian) # 1 THEN Raised
  ELSE <<UnpackDouble(SubSeq(b, off + 6, off + 13), endian),
         UnpackDouble(SubSeq(b, off + 14, off + 21), endian)>>

\* Mutation of ParseMysqlPoint: the SRID of the 25-byte form is not skipped.
ParseMysqlPointSridUnskipped(b) ==
  CASE b = None -> <<0, 0>>
    [] b # None /\ Len(b) \in {21, 25} -> ReadWkbPoint(b, 0, Endian(b[1]))
    [] b # None /\ Len(b) \notin {21, 25} -> Raised

\* parse_mysql_point(binary): None gives (0, 0); 21 bytes are read as WKB;
\* 25 bytes as an SRID (read, then unused) followed by WKB; any other length
\* raises.
ParseMysqlPoint(b) ==
  CASE b = None -> <<0, 0>>
    [] b # None /\ Len(b) = 21 -> ReadWkbPoint(b, 0, Endian(b[1]))
    [] b # None /\ Len(b) = 25 -> ReadWkbPoint(b, 4, Endian(b[5]))
    [] b # None /\ Len(b) \notin {21, 25} -> Raised

-----------------------------------------------------------------------------
(* The reference: how MySQL and the OGC WKB format encode a point.          *)

\* The 4 bytes of n in the byte order flag (0 big-endian, 1 little-endian).
UInt32Bytes(n, flag) ==
  LET big == <<(n \div 2^24) % 256, (n \div 2^16) % 256, (n \div 2^8) % 256, n % 256>>
  IN IF flag = 0 THEN big ELSE Reverse(big)

\* A WKB geometry: byte order flag, type, x, y; the coordinates in the
\* flag's byte order (a flag other than 0 and 1 is written as 1 would be).
Wkb(flag, type, x, y) ==
  <<flag>> \o UInt32Bytes(type, flag)
    \o (IF flag = 0 THEN x ELSE Reverse(x)) \o (IF flag = 0 THEN y ELSE Reverse(y))

\* MySQL's internal geometry value: the SRID, little-endian, then the WKB.
Internal(srid, flag, type, x, y) == UInt32Bytes(srid, 1) \o Wkb(flag, type, x, y)

\* The sample values, each with the point it encodes (or Raised): plain
\* and internal forms of every flag and type, the same cut short by a
\* byte or extended by one, and NULL.
Samples ==
  LET wkb == {<<Wkb(f, t, x, y), IF f \in {0, 1} /\ t = 1 THEN <<x, y>> ELSE Raised>> :
                 f \in {0, 1, 2}, t \in GeometryTypes, x \in Coordinates, y \in Coordinates}
      internal == {<<Internal(s, f, t, x, y), IF f \in {0, 1} /\ t = 1 THEN <<x, y>> ELSE Raised>> :
                 s \in Srids, f \in {0, 1, 2}, t \in GeometryTypes, x \in Coordinates, y \in Coordinates}
      ok == {e \in wkb \cup internal : e[2] # Raised}
  IN wkb \cup internal \cup {<<None, <<0, 0>>>>}
     \cup {<<SubSeq(e[1], 1, Len(e[1]) - 1), Raised>> : e \in ok}
     \cup {<<Append(e[1], 0), Raised>> : e \in ok}

-----------------------------------------------------------------------------
(* The specification.                                                      *)

Init == binary = <<>> /\ point = <<>> /\ result = <<>>

\* convert_record hands a POINT column's value to parse_mysql_point.
Decode(sample) ==
  /\ binary' = sample[1]
  /\ point' = sample[2]
  /\ result' = ParseMysqlPoint(sample[1])

Next == binary = <<>> /\ \E sample \in Samples : Decode(sample)

Spec == Init /\ [][Next]_vars

\* parse_mysql_point inverts the encoding: for plain WKB and for MySQL's
\* SRID-prefixed form, in either byte order, it returns the encoded x and
\* y in their order, and it raises for every value that is not a point
\* (a wrong byte order flag, another geometry type, a point written in
\* one byte order but flagged with the other, a length other than 21 or
\* 25).  A NULL decodes to (0, 0).
DecodesEncodedPoint == binary # <<>> => result = point
=============================================================================
