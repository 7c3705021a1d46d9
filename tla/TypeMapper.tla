----------------------------- MODULE TypeMapper -----------------------------
(***************************************************************************)
(* The MySQL -> ClickHouse type-mapping engine of converter.py:            *)
(* convert_type, convert_field_type, convert_timestamp_to_datetime64 and   *)
(* convert_table_structure.  Type strings are real TLA+ strings and every  *)
(* substring, prefix and equality test of the code is made on them, so the *)
(* priority order of the code's if-chain is kept exactly.                  *)
(***************************************************************************)
EXTENDS SqlText

CONSTANTS
  TypesMapping,   \* config.types_mapping: a function from type strings
  Raised          \* model value: the result of a call that raised

-----------------------------------------------------------------------------
(* The type mapping.                                                       *)

Signed(unsigned, width) == IF unsigned THEN "UInt" \o width ELSE "Int" \o width

Decimal(p, s) == "Decimal(" \o ToString(p) \o ", " \o ToString(s) \o ")"

\* Whether d is a non-empty run of decimal digits, or a run of spaces.
IsDigits(d) == d # "" /\ \A i \in 1 .. Len(d) : IsDigit(Char(d, i))
IsSpaces(d) == \A i \in 1 .. Len(d) : Char(d, i) = " "

\* The regex numeric\((\d+)\s*,\s*(\d+)\) matches t right after its
\* "numeric(" prefix, the first number ending at e1, the comma at c and
\* the second number spanning b2 .. e2.
NumericAt(t, e1, c, b2, e2) ==
  /\ IsDigits(SubSeq(t, 9, e1)) /\ IsSpaces(SubSeq(t, e1 + 1, c - 1))
  /\ Char(t, c) = "," /\ IsSpaces(SubSeq(t, c + 1, b2 - 1))
  /\ IsDigits(SubSeq(t, b2, e2)) /\ Char(t, e2 + 1) = ")"

\* The precision and scale the regex captures at match m.
NumericValues(t, m) == <<ToNat(SubSeq(t, 9, m[1])), ToNat(SubSeq(t, m[3], m[4]))>>

\* re.search(r"numeric\((\d+)\s*,\s*(\d+)\)", t) where t starts with
\* "numeric(": the precision and scale, or Raised on no match.
NumericArgs(t) ==
  LET P == 9 .. Len(t)
  IN IF \E m \in P \X P \X P \X P : NumericAt(t, m[1], m[2], m[3], m[4])
     THEN NumericValues(t, CHOOSE m \in P \X P \X P \X P : NumericAt(t, m[1], m[2], m[3], m[4]))
     ELSE Raised

\* Mutation of NumericWidth: a precision of 10 still maps to 32 bits.
NumericWidthOffByOne(p, s, unsigned) ==
  IF s = 0 /\ p <= 10 THEN Signed(unsigned, "32")
  ELSE IF s = 0 /\ p <= 18 THEN Signed(unsigned, "64")
  ELSE Decimal(p, s)

\* The integer width or decimal type for precision p and scale s.
NumericWidth(p, s, unsigned) ==
  IF s = 0 /\ p <= 9 THEN Signed(unsigned, "32")
  ELSE IF s = 0 /\ p <= 18 THEN Signed(unsigned, "64")
  ELSE Decimal(p, s)

\* The numeric branch of convert_type on the (precision, scale) pair ps.
NumericOf(ps, unsigned) == IF ps = Raised THEN Raised ELSE NumericWidth(ps[1], ps[2], unsigned)

NumericType(t, unsigned) ==
  NumericOf(IF HasSub(t, "(") /\ HasSub(t, ")") THEN NumericArgs(t) ELSE <<10, 0>>, unsigned)

\* convert_timestamp_to_datetime64 on the lower-cased string s:
\* ^timestamp(?:\((\d+)\))?$
TimestampOf(s) ==
  IF s = "timestamp" THEN "DateTime64"
  ELSE IF /\ StartsWith(s, "timestamp(") /\ Len(s) > 11 /\ Char(s, Len(s)) = ")"
          /\ IsDigits(SubSeq(s, 11, Len(s) - 1))
       THEN "DateTime64(" \o SubSeq(s, 11, Len(s) - 1) \o ")"
       ELSE Raised

\* re.IGNORECASE is lower-casing before the match.
ConvertTimestampToDatetime64(t) == TimestampOf(Lower(t))

\* The Enum8/Enum16 choice on the label count n of parse_mysql_enum.
EnumOf(n) == IF n <= 127 THEN "Enum8(" \o ToString(n) \o ")" ELSE "Enum16(" \o ToString(n) \o ")"

\* Labels are single-quoted, so their count is half the number of quotes.
EnumType(t) == EnumOf(Cardinality({i \in 1 .. Len(t) : Char(t, i) = "'"}) \div 2)

\* The if-chain of convert_type after the types_mapping lookup, as rows in
\* the order the code tests them.  A row's test is equality with, prefix
\* of, or substring of one of its patterns; its result is a fixed type, a
\* signed/unsigned pair chosen by is_unsigned, or one of the computed
\* results: the numeric branch, datetime replace, enum and timestamp.
Row(test, pats, kind, val) == [test |-> test, pats |-> pats, kind |-> kind, val |-> val]

TypeRules ==
  << Row("eq", {"point"}, "fixed", "Tuple(x Float32, y Float32)"),
     Row("prefix", {"numeric"}, "numeric", ""),
     Row("eq", {"int", "integer"}, "width", "32"),
     Row("eq", {"bigint"}, "width", "64"),
     Row("eq", {"double", "real"}, "fixed", "Float64"),
     Row("eq", {"float"}, "fixed", "Float32"),
     Row("eq", {"date"}, "fixed", "Date32"),
     Row("eq", {"tinyint(1)", "bit(1)", "bool"}, "fixed", "Bool"),
     Row("in", {"smallint"}, "width", "16"),
     Row("in", {"tinyint"}, "width", "8"),
     Row("in", {"mediumint"}, "width", "32"),
     Row("in", {"datetime"}, "datetime", ""),
     Row("in", {"longtext", "varchar"}, "fixed", "String"),
     Row("prefix", {"enum"}, "enum", ""),
     Row("in", {"text", "blob", "char", "json"}, "fixed", "String"),
     Row("in", {"decimal"}, "fixed", "Float64"),
     Row("in", {"float"}, "fixed", "Float32"),
     Row("in", {"double"}, "fixed", "Float64"),
     Row("in", {"bigint"}, "width", "64"),
     Row("in", {"integer", "int("}, "width", "32"),
     Row("in", {"real"}, "fixed", "Float64"),
     Row("prefix", {"timestamp"}, "timestamp", ""),
     Row("prefix", {"time"}, "fixed", "String"),
     Row("in", {"varbinary", "binary", "set("}, "fixed", "String") >>

\* The test of a row on the (lower-cased) MySQL type t.
RuleHolds(r, t) ==
  \E p \in r.pats : CASE r.test = "eq"     -> t = p
                      [] r.test = "prefix" -> StartsWith(t, p)
                      [] r.test = "in"     -> HasSub(t, p)

\* The result of a row for type t; u is is_unsigned.
RuleResult(r, t, u) ==
  CASE r.kind = "fixed"     -> r.val
    [] r.kind = "width"     -> Signed(u, r.val)
    [] r.kind = "numeric"   -> NumericType(t, u)
    [] r.kind = "datetime"  -> Replace(t, "datetime", "DateTime64")
    [] r.kind = "enum"      -> EnumType(t)
    [] r.kind = "timestamp" -> ConvertTimestampToDatetime64(t)

\* The result of the first row among hits, the rows whose test holds.
FirstRule(mysql_type, parameters, hits) ==
  IF hits = {} THEN Raised
  ELSE RuleResult(TypeRules[Min(hits)], mysql_type, HasSub(Lower(parameters), "unsigned"))

\* convert_type: types_mapping first, then the first row whose test holds;
\* no row holding is the final raise.
ConvertType(mysql_type, parameters) ==
  IF mysql_type \in DOMAIN TypesMapping THEN TypesMapping[mysql_type]
  ELSE FirstRule(mysql_type, parameters,
                 {i \in DOMAIN TypeRules : RuleHolds(TypeRules[i], mysql_type)})

\* The Nullable wrapping of convert_field_type on the lower-cased
\* parameters and the ClickHouse type ch.
Nullability(params, ch) ==
  IF ch = Raised THEN Raised
  ELSE IF HasSub(params, "not null") \/ HasSub(ch, "Tuple") THEN ch
  ELSE "Nullable(" \o ch \o ")"

\* convert_field_type: lower-case both strings, map, and wrap in Nullable
\* unless NOT NULL is given or the type is the (never nullable) Tuple.
ConvertFieldType(mysql_type, mysql_parameters) ==
  Nullability(Lower(mysql_parameters), ConvertType(Lower(mysql_type), Lower(mysql_parameters)))

\* The ClickHouse fields, or Raised when one of their types is.
AllConverted(ch) == IF \E i \in DOMAIN ch : ch[i].type = Raised THEN Raised ELSE ch

\* convert_table_structure over the fields of a MySQL TableStructure
\* (records with name, type and params); Raised if any field fails.
ConvertTableStructure(fields) ==
  AllConverted([i \in DOMAIN fields |->
                  [name |-> fields[i].name,
                   type |-> ConvertFieldType(fields[i].type, fields[i].params)]])

=============================================================================
