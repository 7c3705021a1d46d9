--------------------------- MODULE CharsetDecoding ---------------------------
(***************************************************************************)
(* The charset branch of convert_record (converter.py 421-426) and the     *)
(* table it reads the codec from, CHARSET_MYSQL_TO_PYTHON (16-59): a text *)
(* or char column mapped to a String type whose value the binlog driver    *)
(* yields as bytes is decoded with the table's charset_python, or utf-8   *)
(* when that is None.                                                      *)
(*                                                                         *)
(* A text is a sequence of Unicode code points, bytes a sequence of        *)
(* integers in 0..255.  MySQL stores a text in the encoding of its charset *)
(* (utf16, ucs2 and utf32 big-endian, utf16le little-endian); Python's     *)
(* codecs are modelled by what they do to the bytes, utf_16 and utf_32    *)
(* reading a byte order mark and otherwise taking the byte order of the   *)
(* build platform, which is little-endian (x86-64, arm64).                *)
(***************************************************************************)
EXTENDS TypeMapper, SequencesExt

CONSTANTS
  TableCharsets,  \* MySQL charsets of the table (DEFAULT CHARSET), or NoCharset
  NoCharset,      \* model value: a table whose charset is not known
  Texts,          \* the texts a column may hold: sequences of code points
  TextTypes       \* MySQL types of the columns

VARIABLES
  charset,   \* the table's MySQL charset
  colType,   \* the column's MySQL type
  text,      \* the text MySQL holds (ghost)
  raw,       \* what the driver yields: [str |-> text] or [bytes |-> bytes]
  decoded    \* what convert_record passes on, or Raised

vars == <<charset, colType, text, raw, decoded>>

NotYet == [none |-> "text"]
NoCodec == ""        \* None, as a codec name no codec has

-----------------------------------------------------------------------------
(* The code                                                                *)

\* CHARSET_MYSQL_TO_PYTHON; None is NoCodec.
CHARSET_MYSQL_TO_PYTHON ==
  [armscii8 |-> NoCodec, ascii |-> "ascii", big5 |-> "big5", binary |-> "latin1",
   cp1250 |-> "cp1250", cp1251 |-> "cp1251", cp1256 |-> "cp1256", cp1257 |-> "cp1257",
   cp850 |-> "cp850", cp852 |-> "cp852", cp866 |-> "cp866", cp932 |-> "cp932",
   dec8 |-> "latin1", eucjpms |-> "euc_jp", euckr |-> "euc_kr", gb18030 |-> "gb18030",
   gb2312 |-> "gb2312", gbk |-> "gbk", geostd8 |-> NoCodec, greek |-> "iso8859_7",
   hebrew |-> "iso8859_8", hp8 |-> NoCodec, keybcs2 |-> NoCodec, koi8r |-> "koi8_r",
   koi8u |-> "koi8_u", latin1 |-> "cp1252", latin2 |-> "iso8859_2", latin5 |-> "iso8859_9",
   latin7 |-> "iso8859_13", macce |-> "mac_latin2", macroman |-> "mac_roman",
   sjis |-> "shift_jis", swe7 |-> NoCodec, tis620 |-> "tis_620", ucs2 |-> "utf_16",
   ujis |-> "euc_jp", utf16 |-> "utf_16", utf16le |-> "utf_16_le", utf32 |-> "utf_32",
   utf8mb3 |-> "utf_8", utf8mb4 |-> "utf_8", utf8 |-> "utf_8"]

\* TableStructure.charset_python: the table's charset looked up in
\* CHARSET_MYSQL_TO_PYTHON, None when the charset is unknown.
CharsetPython(cs) == IF cs = NoCharset THEN NoCodec ELSE CHARSET_MYSQL_TO_PYTHON[cs]

\* The code units of bytes b of n bytes each, in either byte order.
Unit(b, i, n, big) ==
  FoldLeft(LAMBDA acc, k : 256 * acc + b[IF big THEN (i - 1) * n + k ELSE i * n + 1 - k],
           0, [k \in 1 .. n |-> k])
Units(b, n, big) == [i \in 1 .. Len(b) \div n |-> Unit(b, i, n, big)]

IsSurrogate(u) == u \in 55296 .. 57343

\* Fixed-width decoding of b: Raised for a length that is not a multiple of
\* n or a unit that is not a code point (surrogate pairs are not in the
\* model's alphabet; a lone surrogate raises).
FixedDecode(b, n, big) ==
  IF Len(b) % n # 0 \/ \E i \in 1 .. Len(b) \div n : Units(b, n, big)[i] > 1114111
                                                    \/ IsSurrogate(Units(b, n, big)[i])
  THEN Raised ELSE [str |-> Units(b, n, big)]

\* utf_16 and utf_32: a leading byte order mark is read and dropped,
\* otherwise the platform's (little-endian) order is taken.
BomDecode(b, n) ==
  LET bomBE == [i \in 1 .. n |-> IF i > n - 2 THEN 255 + i - n ELSE 0]
      bomLE == Reverse(bomBE)
  IN CASE Len(b) >= n /\ SubSeq(b, 1, n) = bomLE -> FixedDecode(SubSeq(b, n + 1, Len(b)), n, FALSE)
       [] Len(b) >= n /\ SubSeq(b, 1, n) = bomBE -> FixedDecode(SubSeq(b, n + 1, Len(b)), n, TRUE)
       [] OTHER -> FixedDecode(b, n, FALSE)

IsCont(x) == x \in 128 .. 191

\* utf_8: one to four bytes per code point (overlong three- and four-byte
\* forms are not produced by MySQL and not told apart here).
RECURSIVE Utf8Decode(_)
Utf8Decode(b) ==
  LET n == CASE b # <<>> /\ b[1] < 128 -> 1
             [] b # <<>> /\ b[1] \in 194 .. 223 -> 2
             [] b # <<>> /\ b[1] \in 224 .. 239 -> 3
             [] b # <<>> /\ b[1] \in 240 .. 244 -> 4
             [] OTHER -> 0
      lead == <<128, 32, 16, 8>>
      cp == FoldLeft(LAMBDA acc, k : 64 * acc + (b[k] % 64), b[1] % lead[n], [j \in 1 .. n - 1 |-> j + 1])
  IN CASE b = <<>> -> [str |-> <<>>]
       [] b # <<>> /\ (n = 0 \/ Len(b) < n) -> Raised
       [] b # <<>> /\ n > 0 /\ Len(b) >= n /\ \E k \in 2 .. n : ~IsCont(b[k]) -> Raised
       [] b # <<>> /\ n > 0 /\ Len(b) >= n /\ \A k \in 2 .. n : IsCont(b[k]) ->
            LET rest == Utf8Decode(SubSeq(b, n + 1, Len(b)))
            IN IF rest = Raised \/ cp > 1114111 \/ IsSurrogate(cp) THEN Raised
               ELSE [str |-> <<cp>> \o rest.str]

\* bytes.decode(codec) for the codecs the table names for Unicode charsets;
\* a codec of None raises TypeError.
PyDecode(b, codec) ==
  CASE codec = "utf_8" -> Utf8Decode(b)
    [] codec = "utf_16" -> BomDecode(b, 2)
    [] codec = "utf_16_le" -> FixedDecode(b, 2, FALSE)
    [] codec = "utf_32" -> BomDecode(b, 4)
    [] codec = NoCodec -> Raised

\* Mutation of DecodeCharset: charset_python used without the utf-8 default.
DecodeCharsetNoDefault(v, cs) == IF "bytes" \in DOMAIN v THEN PyDecode(v.bytes, CharsetPython(cs)) ELSE v

\* charset = mysql_structure.charset_python or 'utf-8'; value.decode(charset)
\* for a bytes value; any other value is left as it is.
DecodeCharset(v, cs) ==
  IF "bytes" \in DOMAIN v
  THEN PyDecode(v.bytes, IF CharsetPython(cs) = NoCodec THEN "utf_8" ELSE CharsetPython(cs))
  ELSE v

\* The branch of convert_record: a String column of a text or char type.
ConvertText(v, mt, cs) ==
  IF HasSub(ConvertFieldType(mt, ""), "String") /\ (HasSub(mt, "text") \/ HasSub(mt, "char"))
  THEN DecodeCharset(v, cs) ELSE v

-----------------------------------------------------------------------------
(* MySQL and the driver                                                    *)

\* The encoding MySQL stores a text of each Unicode charset in; a table of
\* unknown charset holds MySQL's default, utf8mb4.
MysqlEncoding(cs) ==
  CASE cs \in {"utf8mb4", "utf8mb3", "utf8", NoCharset} -> "utf8"
    [] cs \in {"utf16", "ucs2"} -> "utf16be"
    [] cs = "utf16le" -> "utf16le"
    [] cs = "utf32" -> "utf32be"

\* The n bytes of the code unit u, most significant first.
BigEndian(u, n) == [k \in 1 .. n |-> (u \div 256 ^ (n - k)) % 256]

Utf8Encode(cp) ==
  CASE cp < 128 -> <<cp>>
    [] cp \in 128 .. 2047 -> <<192 + cp \div 64, 128 + (cp % 64)>>
    [] cp \in 2048 .. 65535 -> <<224 + cp \div 4096, 128 + ((cp \div 64) % 64), 128 + (cp % 64)>>

EncodeChar(cp, enc) ==
  CASE enc = "utf8" -> Utf8Encode(cp)
    [] enc = "utf16be" -> BigEndian(cp, 2)
    [] enc = "utf16le" -> Reverse(BigEndian(cp, 2))
    [] enc = "utf32be" -> BigEndian(cp, 4)

Encode(t, cs) == FlattenSeq([i \in DOMAIN t |-> EncodeChar(t[i], MysqlEncoding(cs))])

\* A text column's value as the driver yields it: decoded, or the bytes
\* MySQL stores.
Driver(t, cs) == {[str |-> t], [bytes |-> Encode(t, cs)]}

-----------------------------------------------------------------------------
(* The specification: one value per behaviour.                            *)

Init ==
  /\ charset = NoCharset
  /\ colType = ""
  /\ text = <<>>
  /\ raw = NotYet
  /\ decoded = NotYet

Convert(cs, mt, t, v) ==
  /\ charset' = cs
  /\ colType' = mt
  /\ text' = t
  /\ raw' = v
  /\ decoded' = ConvertText(v, mt, cs)

Next ==
  decoded = NotYet /\ \E cs \in TableCharsets, mt \in TextTypes, t \in Texts : \E v \in Driver(t, cs) : Convert(cs, mt, t, v)

Spec == Init /\ [][Next]_vars

\* Whatever the table's charset, a text column's value reaches ClickHouse
\* as the text MySQL holds, whether the driver yielded it decoded or as
\* the bytes of the charset's encoding (CHARSET_MYSQL_TO_PYTHON and the
\* charset branch of convert_record; spec sections 2 and 4.2).
TextRecovered == decoded # NotYet => decoded = [str |-> text]
=============================================================================
