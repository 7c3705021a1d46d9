--------------------------- MODULE RecordTranscoder ---------------------------
(***************************************************************************)
(* convert_records / convert_record of converter.py: one MySQL row, as the *)
(* binlog driver yields it, transcoded column by column against the       *)
(* MySQL-side field types and the ClickHouse-side types that              *)
(* convert_table_structure derived from them.                              *)
(*                                                                         *)
(* The environment is MySQL and its driver: truth is the row MySQL holds,  *)
(* record is what the driver yields for it.  For an unsigned integer the   *)
(* driver may yield the two's-complement negative of a value in the upper  *)
(* half of the column's range; a SET value arrives as a bit mask or as the *)
(* set of its labels, told apart by the code with isinstance and by the    *)
(* model by a tag: [int |-> mask] or [set |-> labels]; a NULL as Null.     *)
(*                                                                         *)
(* Integer widths are scaled: WidthBits maps each width the code names     *)
(* (8, 16, 24, 32, 64) to the number of bits the model gives it.  The code *)
(* only compares values with 0 and adds a width's modulus, so the scaled   *)
(* moduli, ordered as the real ones, keep every branch it takes.           *)
(***************************************************************************)
EXTENDS TypeMapper, Bitwise

CONSTANTS
  Columns,      \* the MySQL fields: [type, params, labels] (labels: SET members)
  PrimaryKeyIds, \* mysql_structure.primary_key_ids (1-based here)
  WidthBits,    \* [{8, 16, 24, 32, 64} -> bits of the model]
  ArityDrift,   \* row arity minus schema arity the driver may deliver
  Null          \* model value: SQL NULL (None)

VARIABLES
  truth,        \* the row as MySQL holds it
  record,       \* the row as the driver yields it (mysql_record)
  onlyPrimary,  \* the only_primary argument
  out           \* the ClickHouse row convert_record returned, or Raised

vars == <<truth, record, onlyPrimary, out>>

Modulus(w) == 2 ^ WidthBits[w]

-----------------------------------------------------------------------------
(* The source: values MySQL holds and how the driver yields them.          *)

\* The storage width of a MySQL integer type.
StorageWidth(t) ==
  CASE HasSub(t, "tinyint") -> 8 [] HasSub(t, "smallint") -> 16
    [] HasSub(t, "mediumint") -> 24 [] HasSub(t, "bigint") -> 64
    [] ~HasSub(t, "tinyint") /\ ~HasSub(t, "smallint") /\ ~HasSub(t, "mediumint")
       /\ ~HasSub(t, "bigint") -> 32

IsSetColumn(c) == StartsWith(c.type, "set(")
IsUnsigned(c) == HasSub(Lower(c.params), "unsigned")
IsNullable(c) == ~HasSub(Lower(c.params), "not null")

\* The boundary values of an integer column: zero, the largest and
\* smallest of its range, and the first value past the signed half.
IntValues(c) ==
  LET M == Modulus(StorageWidth(c.type))
  IN IF IsUnsigned(c) THEN {0, M \div 2, M - 1} ELSE {-(M \div 2), -1, 0, M \div 2 - 1}

Values(c) ==
  (IF IsSetColumn(c) THEN SUBSET {c.labels[k] : k \in DOMAIN c.labels} ELSE IntValues(c))
  \cup (IF IsNullable(c) THEN {Null} ELSE {})

\* The bit mask of a set of labels, bit k - 1 for the k-th label.
Mask(labels, v) == FoldFunctionOnSet(+, 0, [k \in DOMAIN labels |-> 2 ^ (k - 1)],
                                     {k \in DOMAIN labels : labels[k] \in v})

\* What the driver may yield for the value v of column c.
Driver(c, v) ==
  CASE v = Null -> {Null}
    [] v # Null /\ IsSetColumn(c) -> {[int |-> Mask(c.labels, v)], [set |-> v]}
    [] v # Null /\ ~IsSetColumn(c) ->
         IF IsUnsigned(c) /\ v >= Modulus(StorageWidth(c.type)) \div 2
         THEN {v, v - Modulus(StorageWidth(c.type))} ELSE {v}

\* The rows the driver may deliver: per column a pair <<truth, yielded>>.
RECURSIVE Product(_)
Product(ss) == IF ss = <<>> THEN {<<>>} ELSE {<<x>> \o r : x \in Head(ss), r \in Product(Tail(ss))}

Pairs(c) == UNION {{<<v, y>> : y \in Driver(c, v)} : v \in Values(c)}

Rows == Product([i \in DOMAIN Columns |-> Pairs(Columns[i])])

-----------------------------------------------------------------------------
(* convert_record                                                          *)

\* convert_records' snapshot of the two type lists.
MysqlFieldTypes == [i \in DOMAIN Columns |-> Columns[i].type]
ClickhouseFieldTypes == [i \in DOMAIN Columns |-> ConvertFieldType(Columns[i].type, Columns[i].params)]

\* The unsigned-width corrections, in the order the code applies them: a
\* test on the ClickHouse type (or, for mediumint, the MySQL type) and the
\* width whose modulus a negative value gets.
Corrections ==
  << [onMysql |-> FALSE, pat |-> "UInt16", w |-> 16],
     [onMysql |-> FALSE, pat |-> "UInt8", w |-> 8],
     [onMysql |-> TRUE, pat |-> "mediumint", w |-> 24],
     [onMysql |-> FALSE, pat |-> "UInt32", w |-> 32],
     [onMysql |-> FALSE, pat |-> "UInt64", w |-> 64] >>

\* Mutation of Correct: zero counts as negative.
CorrectNonPositive(v, fix, mt, ct) ==
  IF HasSub(IF fix.onMysql THEN Lower(mt) ELSE ct, fix.pat) /\ v <= 0
  THEN Modulus(fix.w) + v ELSE v

\* One correction of the chain on the value v.
Correct(v, fix, mt, ct) ==
  IF HasSub(IF fix.onMysql THEN Lower(mt) ELSE ct, fix.pat) /\ v < 0
  THEN Modulus(fix.w) + v ELSE v

UnsignedCorrection(v, mt, ct) ==
  FoldLeft(LAMBDA x, fix : Correct(x, fix, mt, ct), v, Corrections)

\* The set expansion: the declared labels whose bit is set in an integer
\* mask, or that are members of a set value, joined with commas.
SetExpansion(v, labels) ==
  IF "int" \in DOMAIN v
  THEN Join(SelectSeq(labels, LAMBDA l : \E k \in DOMAIN labels :
                                labels[k] = l /\ (v.int & 2 ^ (k - 1)) # 0), ",")
  ELSE Join(SelectSeq(labels, LAMBDA l : l \in v.set), ",")

\* The conversions of a non-null value of MySQL type mt, ClickHouse type ct
\* and labels (additional_data): the unsigned corrections, then the set
\* expansion.
ConvertNonNull(v, mt, ct, labels) ==
  IF HasSub(mt, "set(") THEN SetExpansion(UnsignedCorrection(v, mt, ct), labels)
  ELSE UnsignedCorrection(v, mt, ct)

\* The arguments convert_records hands on: the two type lists, the SET
\* labels of the MySQL fields (additional_data) and primary_key_ids.
Structure(mtypes, ctypes, labels, pk) ==
  [mysql |-> mtypes, ch |-> ctypes, labels |-> labels, pk |-> pk]

\* One column of convert_record against the structure sch.
ConvertField(sch, idx, v, only) ==
  IF only /\ idx \notin sch.pk THEN v
  ELSE IF v = Null THEN v
  ELSE ConvertNonNull(v, sch.mysql[idx], sch.ch[idx], sch.labels[idx])

\* convert_record: IndexError on the first converted column past either
\* type list (the MySQL one checked, the ClickHouse one indexed
\* unchecked); otherwise every column converted.
ConvertRecord(sch, rec, only) ==
  IF \E idx \in DOMAIN rec :
       ~(only /\ idx \notin sch.pk) /\ (idx > Len(sch.mysql) \/ idx > Len(sch.ch))
  THEN Raised
  ELSE [idx \in DOMAIN rec |-> ConvertField(sch, idx, rec[idx], only)]

\* The structure of the Columns.
ColumnsStructure ==
  Structure(MysqlFieldTypes, ClickhouseFieldTypes,
            [i \in DOMAIN Columns |-> Columns[i].labels], PrimaryKeyIds)

-----------------------------------------------------------------------------
(* The specification.                                                      *)

Init ==
  /\ truth = <<>>
  /\ record = <<>>
  /\ onlyPrimary = FALSE
  /\ out = <<>>

\* The row as delivered when its arity is the schema's plus d: a row of a
\* schema version with a last column fewer, or one more.
Delivered(rec, d) ==
  CASE d = 0  -> rec
    [] d = -1 -> SubSeq(rec, 1, Len(rec) - 1)
    [] d = 1  -> Append(rec, 0)

\* The driver yields a row and the replicator converts it.
ConvertRecords(row, d, only) ==
  /\ truth' = [i \in DOMAIN row |-> row[i][1]]
  /\ record' = Delivered([i \in DOMAIN row |-> row[i][2]], d)
  /\ onlyPrimary' = only
  /\ out' = ConvertRecord(ColumnsStructure, Delivered([i \in DOMAIN row |-> row[i][2]], d), only)

\* One call of convert_records per behaviour: calls share no state, so
\* a behaviour stops once its row is converted.
Next == out = <<>> /\ \E row \in Rows, d \in ArityDrift, only \in BOOLEAN : ConvertRecords(row, d, only)

Spec == Init /\ [][Next]_vars

-----------------------------------------------------------------------------
(* Properties.                                                             *)

\* The ClickHouse value of the MySQL value v of column c.
Expected(c, v) ==
  IF v = Null \/ ~IsSetColumn(c) THEN v
  ELSE Join(SelectSeq(c.labels, LAMBDA l : l \in v), ",")

\* Every column convert_record converts holds the ClickHouse rendering of
\* the value MySQL holds, whichever form the driver yielded it in (the
\* unsigned corrections undo the driver's wrap-around, the set expansion
\* lists the labels in declaration order), and a column only_primary
\* passes through is exactly what the driver yielded.
RowRecovered ==
  out # Raised /\ Len(record) = Len(Columns) =>
    \A i \in DOMAIN out :
      IF onlyPrimary /\ i \notin PrimaryKeyIds THEN out[i] = record[i]
      ELSE out[i] = Expected(Columns[i], truth[i])

=============================================================================
