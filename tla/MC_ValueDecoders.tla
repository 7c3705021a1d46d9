--------------------------- MODULE MC_ValueDecoders ---------------------------
(* Model values and bounds for checking ValueDecoders with TLC.            *)
EXTENDS ValueDecoders

\* Two bit patterns that differ from their own byte reversal and from
\* each other, so a swapped byte order or a swapped x and y shows.
MCCoordinates == {<<64, 9, 33, 251, 84, 68, 45, 24>>, <<191, 240, 0, 0, 0, 0, 0, 1>>}

\* POINT, LINESTRING, and the code of POINT read in the wrong byte order.
MCGeometryTypes == {1, 2, 16777216}

\* SRID 0 and 4326 (WGS 84).
MCSrids == {0, 4326}

\* JSON documents of nesting depth two: arrays of up to two items, objects
\* of up to two keys.
Scalars == {[int |-> 1], [str |-> "a"]}
Keys == {[str |-> "k"], [str |-> "m"]}

\* Arrays of at most two items and objects of at most two distinct keys
\* over the values V.
Arrays(V) == {[list |-> <<>>]} \cup {[list |-> <<x>>] : x \in V} \cup {[list |-> <<x, y>>] : x, y \in V}
Objects(V) ==
  {[dict |-> <<>>]} \cup {[dict |-> <<<<k, x>>>>] : k \in Keys, x \in V}
  \cup {[dict |-> <<<<k, x>>, <<j, y>>>>] : <<k, j>> \in {kj \in Keys \X Keys : kj[1] # kj[2]}, x, y \in V}

Depth1 == Scalars \cup Arrays(Scalars) \cup Objects(Scalars)

\* Top-level documents: a json column holding a bare string is passed on
\* as it is by the code (not isinstance str), so it is left out.
MCDocuments ==
  {[int |-> 1]} \cup Arrays(Depth1) \cup Objects(Depth1)

\* No user type overrides (config.types_mapping empty).
MCTypesMapping == [t \in {} |-> ""]

\* Code points of one, two and three UTF-8 bytes: 'A', 'e' acute, a CJK
\* ideograph, and U+FEFF, which reads as a byte order mark at the start of
\* UTF-16 or UTF-32 text.
Alphabet == {65, 233, 20013, 65279}
MCTexts == {<<>>} \cup {<<c>> : c \in Alphabet} \cup {<<c, d>> : c, d \in Alphabet}
MCTextTypes == {"text", "varchar(255)"}

\* Tables in charsets whose codec is the one MySQL writes, and of unknown
\* charset (charset_python None).
MCCharsetsMatching == {"utf8mb4", "utf8mb3", "utf16le", NoCharset}
\* Tables in MySQL's big-endian Unicode charsets.
MCCharsetsBigEndian == {"utf16", "ucs2", "utf32"}
=============================================================================
