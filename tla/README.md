# TLA+ models of the mysql_ch_replicator converter

These modules model `src/mysql_ch_replicator/converter.py`, the translation
core of the replicator:

- the MySQL to ClickHouse type mapping;
- the ALTER TABLE translator, which keeps the paired MySQL and ClickHouse
  table structures up to date;
- the per-value record transcoder;
- the front of the ALTER path (validation, table resolution, dispatch) and
  the JSON byte decoding and the charset decoding of text columns.

`spec.md` describes the same core. TLC checks the models against properties
of the whole system. A property relates what the code computes incrementally
to what MySQL really holds. It is not a restatement of one line.

## 1. The system

### Parts

| Part | Code (converter.py) | What it does |
|---|---|---|
| TypeMapper | `convert_type` 193-331, `convert_field_type` 333-342, `convert_timestamp_to_datetime64` 167-183, `convert_table_structure` 344-356 | A pure function from (MySQL type, parameters) to a ClickHouse type. It is an ordered if-chain of equality, prefix and substring tests. The first test that holds decides the type. |
| Sub-operation splitter | `split_high_level` 144-160 | Cuts the text after `ALTER TABLE t` at commas at parenthesis depth 0. |
| DdlTranslator | `convert_alter_query` 485-539, `_tokenize_alter_query` 541-599, `__convert_alter_table_add_column` 601-650 | Parses one ALTER statement. For each sub-operation, it mutates the MySQL-side structure and then the ClickHouse-side structure, both held by the host in `tables_structure[table]`. |
| RecordTranscoder | `convert_records` 358-371, `convert_record` 373-457 | Converts each value of a row using the two structures' type lists. Conversions: unsigned width correction, set and enum expansion, point decoding, json/time/uuid conversion and charset decoding. |
| GeometryDecoder | `parse_mysql_point` 83-132 | Decodes a 21- or 25-byte WKB point. |
| Query front | `__basic_validate_query` 459-465, `get_db_and_table_name` 467-483, `strip_sql_name` 135-141, the head and dispatch loop of `convert_alter_query` 485-540 | Rejects multi-statement text, finds the table the ALTER names (aliasing the source database, applying the inclusion filters), and dispatches each sub-operation to its handler. |
| Charset table | `CHARSET_MYSQL_TO_PYTHON` 16-59, read by the charset branch of `convert_record` 421-426 | Names the Python codec a text or char column's bytes are decoded with; utf-8 when the table's `charset_python` is None. |
| Byte decoding | `convert_bytes` 62-80, called by the json branch of `convert_record` 399-401 | Decodes the bytes keys and strings of a JSON value so that `json.dumps` accepts it. |
| Helpers | `strip_sql_comments` 163-164 | A call of `sqlparse.format`. |

Some code is not in `src/`:

- `TableStructure` (with its `add_field_first`, `add_field_after`,
  `remove_field`, `update_field` and `preprocess`);
- `parse_mysql_enum`;
- the drop, modify and change handlers of the DDL translator. The file in
  `src/` ends inside the add-column handler.

These are modelled from `spec.md` and marked `spec_modelled` in the map.

### How the parts interact

1. The host builds a MySQL structure from a snapshot. `convert_table_structure`
   turns it into the ClickHouse structure.
2. For each binlog ALTER, `convert_alter_query` mutates both structures in
   place, one sub-operation at a time. The ClickHouse-side type comes from
   TypeMapper, applied to the tokenized ALTER text.
3. Rows are then transcoded by position against both structures.

Correctness therefore depends on one condition: the two structures built
incrementally from ALTER text must stay in step with each other and with what
a fresh snapshot would give.

### Hard behaviours

- **Long sequences of DDL.** Columns are added, dropped, retyped and renamed
  in any order. Each ADD positions its column relative to the MySQL-side
  structure (FIRST, AFTER x, or after the last column).
- **Two different text paths to a type.** The snapshot passes the type and
  its parameters separately. The ALTER tokenizer merges multi-word types
  (`INT(11) UNSIGNED`) into the type string.
- **Multi-sub-operation statements.** These fail part-way, after earlier
  sub-operations already mutated the shared structures. Nothing rolls the
  structures back.
- **Split before tokenizing.** The splitter cuts at top-level commas before
  tokenizing. It knows parentheses but not quotes.
- **Numeric boundaries.** Value conversion has edges at width boundaries:
  2^8, 2^16, 2^24, 2^32 and 2^64. Its corrections are applied in a fixed
  order and chosen by substring tests on the type names.

This core is synchronous and single-threaded (spec section 5). No
interleaving happens inside it. The model's nondeterminism is the input:
which statement MySQL commits next, and from what sub-operations.

## 2. Modules

| Module | Models | State | Actions |
|---|---|---|---|
| `SqlText` | Python string operations used by the code: `in`, `startswith`, `lower`/`upper`, `replace`, `join`, `strip`, `\d+` | none | operators only |
| `TypeMapper` | TypeMapper | none | `ConvertType` (the if-chain as an ordered sequence of rules, first hit wins), `ConvertFieldType`, `ConvertTableStructure`, `NumericType`, `EnumType`, `ConvertTimestampToDatetime64` |
| `SplitHighLevel` | `split_high_level` | none | operators only; `QueryFront` applies it |
| `DdlTranslator` | ALTER translation against a MySQL table | `table` (MySQL's own column list, ghost), `mysqlFields`, `chFields` (the host's structure pair), `status` (`"failed"` once a statement raised) | `AlterTable(stmt)` runs the whole of `convert_alter_query` on one statement |
| `RecordTranscoder` | `convert_records` / `convert_record` | `truth` (the row MySQL holds, ghost), `record` (what the driver yields), `onlyPrimary`, `out` (the converted row or `Raised`) | `ConvertRecords(row, d, only)` converts one row |
| `SchemaMirror` | the promise of the DDL side (spec sections 3, 5 and 7), no code | `source` (MySQL's table), `target` (the ClickHouse table), `stopped` | `Follow` (a statement mirrored whole), `Stop` (replication stops, target untouched) |
| `TypeCapacity` | `convert_type` against MySQL's documented type ranges | `decl` (a declaration with what its values need), `chType` | `Convert(d)` maps one declaration |
| `GeometryDecoder` | `parse_mysql_point` 83-132 | `binary`, `point` (what it encodes, ghost), `result` | `Decode(sample)` decodes one value |
| `QueryFront` | `__basic_validate_query`, `get_db_and_table_name`, the front of `convert_alter_query` | `stmt` (the statement as MySQL parses it, ghost), `query` (its text), `dbArg`, `replicator`, `result` (handler calls, skip, or the exception) | `Translate(st, d, repl)`: one call |
| `ByteDecoding` | `convert_bytes` and the json branch of `convert_record` | `doc` (the JSON document, ghost), `value` (what the driver yields), `out` | `Convert(d, v)`: one value |
| `CharsetDecoding` | `CHARSET_MYSQL_TO_PYTHON` and the charset branch of `convert_record` | `charset` (the table's), `colType`, `text` (what MySQL holds, ghost), `raw` (what the driver yields), `decoded` | `Convert(cs, mt, t, v)`: one value |
| `ValueDecoders` | the point, json and charset branches of `convert_record` together | those of `GeometryDecoder`, `ByteDecoding` and `CharsetDecoding` | `PointColumn`, `JsonColumn`, `TextColumn`: one value of one column |
| `SchemaDrift` | `DdlTranslator` and `RecordTranscoder` on one table | those of `DdlTranslator`, `inflight` (a row read from the binlog, or `NoRow`), `landed` (each value with the ClickHouse column it is written to) | `Alter` (an ALTER translated), `Capture` (MySQL writes a row), `Transcode` (`convert_records` on it) |

### Type strings

Type strings are real TLA+ strings in all of these modules. The substring,
prefix and equality tests of `convert_type` therefore behave exactly as in
Python, including the priority order of the if-chain. For example,
`"int(11) unsigned"` is tested against `int`, `integer`, ..., `int(`, in the
code's order.

### The DdlTranslator model

- **MySQL's side.** The environment is MySQL. `Statements(table, MaxSubOps)`
  enumerates every statement of up to `MaxSubOps` sub-operations that MySQL
  would accept on the current table. `MySQLApply` is what MySQL does with it.
  `Words` is the text of each sub-operation in the binlog.
- **The code's side.** `AlterTable` applies `ConvertAlterQuery` to the
  structure pair. It performs the same steps, in the same order, as the code:
  - `ConvertSubquery` dispatches on the operation name, skips index and
    constraint sub-operations, and raises on anything unsupported.
  - `TokenizeAlterQuery` does the type-merging of `_tokenize_alter_query`.
  - `ConvertAlterTableAddColumn` handles AFTER, FIRST and the default anchor,
    then mutates the MySQL side and then the ClickHouse side (`Mutate`).
  - A raise stops the statement and leaves the mutations already made in
    place, as Python's exception propagation does.
- **Backquotes.** A backquote cannot appear in a TLA+ string. The identifier
  quote of the binlog text is therefore modelled by `BackQuote`, a double
  quote character. `StripSqlName` strips it exactly as `strip_sql_name`
  strips a backquote.

### The RecordTranscoder model

- **The driver's side.** `Rows` enumerates, per column, a value MySQL holds
  and a form the driver may yield it in (`Driver`):
  - a value in the upper half of an unsigned range may arrive as its
    two's-complement negative;
  - a SET arrives as a bit mask or as a set of labels. The code tells these
    apart with `isinstance`. The model tags them `[int |-> mask]` and
    `[set |-> labels]`, because TLC cannot compare an integer with a set.
  - `Delivered` gives the row the schema's arity, or one column fewer or more
    (a row of a neighbouring schema version).
- **The code's side.** `ConvertRecord` is `convert_record`:
  - it raises on the first converted column past the schema's type list;
  - it applies the five corrections in the code's order (`Corrections`,
    folded by `UnsignedCorrection`), then the SET expansion;
  - it passes non-key columns through under `only_primary`.
- **Widths.** Widths are scaled: `WidthBits` gives 8, 16, 24, 32 and 64 the
  bits 2, 4, 6, 8 and 16. The code only tests `< 0` and adds a modulus, so
  scaled moduli in the same order take the same branches.
- **One call per behaviour.** Calls of `convert_records` share no state. A
  behaviour is therefore a single conversion and then stops, and the cfgs say
  `CHECK_DEADLOCK FALSE`.

### The refinement

`SchemaMirror` states what the DDL side promises, without reference to ALTER
text:

- the ClickHouse table is the conversion of the MySQL table;
- each statement MySQL commits is mirrored as a whole (`Follow`), or
  replication stops with the ClickHouse table untouched (`Stop`);
- which statements MySQL commits is left open, so `source` may change in any
  way.

`DdlTranslator` defines `Mirror == INSTANCE SchemaMirror WITH source <- table,
target <- chFields, stopped <- status = "failed", Convert <-
ConvertTableStructure`. Its runs check `MirrorRefined == Mirror!Spec` as a
PROPERTY. The MySQL-side structure `mysqlFields` is the code's own bookkeeping
and has no abstract counterpart. `MirrorsInLockstep` relates it to the
ClickHouse side instead.

### The GeometryDecoder model

- **Bytes and doubles.** A byte is an integer. `struct.unpack('I')` is
  modelled by what it does: the base-256 value of the bytes in the flagged
  order. An 8-byte double is modelled by its bytes, most significant first.
  The decoder only reorders bytes, so two coordinates are equal exactly when
  their bit patterns are.
- **The reference.** `Wkb` is the OGC WKB encoding of a geometry. `Internal`
  is MySQL's SRID-prefixed form. `Samples` pairs each encoded value with the
  point it encodes, or with `Raised` when it is not a point.

### The SchemaDrift composition

`SchemaDrift` instantiates `DdlTranslator` (the ALTER side) and
`RecordTranscoder` (the row side, with `ConvertRecord` given the structure
as an argument).

- **Where a value lands.** A row is read when MySQL writes it (`Capture`) and
  converted later (`Transcode`). `convert_records` takes the type lists from
  the schema pair as it is at that later time (lines 362-363), and the
  returned tuple is written to the ClickHouse columns by position.
- **Tags.** Each value of a row is its MySQL column's name. The declarations
  are signed and the names are strings, so `convert_record` leaves a tag as it
  is, and `landed` shows which column received which value.
- **Renames.** CHANGE is left out of this model's sub-operations: a renamed
  column no longer matches its tag.
- **`Serialized`.** When it is TRUE, an ALTER waits until no row is in
  flight. That is the caller's duty under spec section 5. The one run sets
  it FALSE. With it TRUE a row is converted against the pair it was read
  under. The property then says only that the ClickHouse names follow
  MySQL's by position, which `MirrorRefined` already checks over a larger
  space of statements, so no run asks it.
- **One row per behaviour.** Rows share no state in `convert_records`. The
  DDL bounds are two columns and one sub-operation per statement: a row of
  one column and one ADD ... FIRST already show the misplaced value.
- **ClickHouse index.** `ConvertRecord` raises when a column lies past
  either type list. The MySQL list is checked at line 386, and the
  ClickHouse list is indexed unchecked at line 396.

### The QueryFront model

- **Text.** A statement is built from its structure: the keyword case, an
  optional database, the table, each identifier bare or backquoted, the
  sub-operations and a terminator. Each sub-operation carries its text and
  the handler call it asks for (none for ADD INDEX or ALTER COLUMN).
  `Render` writes the text the code receives. The backquote is written as
  `"` (see `SqlText`).
- **Python's `split`.** `SplitChar` cuts at every occurrence of one
  character. `SplitWords` is `str.split()` on a text whose only whitespace
  is the space.
- **The code.** `DropTerminator` and the `;` test are
  `__basic_validate_query`. `GetDbAndTableName` unpacks `token.split('.')`
  (a `ValueError` for three parts) and `Resolve` aliases and filters.
  `Route` cuts the rest with `SplitHighLevel` (an instance of that module).
  `SubOpTokens` and `SubOpWords` are the loop body, with `tokens[0]` read
  before the dispatch.
- **The config.** Its class is not in this repository. `is_database_matches`
  and `is_table_matches` are modelled as membership in two sets of names.
- **Outcome.** The result is the list of handler calls, the skip, or the
  exception, as records told apart by their fields.

### The ByteDecoding model

Python values are records tagged with their type (`int`, `str`, `bytes`,
`list`, `tuple`, `dict`). A dict is its items in insertion order.

- **Driver.** `Driver(d)` is every form the binlog driver may yield a
  document in: each key or string as bytes or str, each array as a list or a
  tuple.
- **`json.dumps`.** `Dumps` gives the structure of the text it writes, or
  `Raised` for bytes or a key of another type.
- **Bare strings.** A bare JSON string is left out, because the code passes a
  `str` value through unchanged (spec section 4.2 allows it).

### The CharsetDecoding model

- **Text and bytes.** A text is a sequence of code points. Bytes are a
  sequence of integers in 0..255.
- **MySQL.** `Encode` writes a text in the encoding of the table's charset:
  UTF-8 for utf8mb4, utf8mb3 and utf8; UTF-16 big-endian for utf16 and ucs2;
  UTF-16 little-endian for utf16le; UTF-32 big-endian for utf32. A table of
  unknown charset holds MySQL's default, utf8mb4.
- **Python's codecs.** `PyDecode` models each codec by what it does:
  - `Utf8Decode` is recursive, one to four bytes per code point, and raises
    on a bad lead or continuation byte;
  - `FixedDecode` handles 2- and 4-byte units;
  - `BomDecode` (for `utf_16` and `utf_32`) reads and drops a byte order
    mark, and otherwise uses the platform's little-endian order.
- **The code.** `CHARSET_MYSQL_TO_PYTHON` is the whole table. `CharsetPython`
  is `TableStructure.charset_python` (from the spec, spec.md:29).
  `DecodeCharset` applies the `or 'utf-8'` default. `ConvertText` is the
  branch's guard on the two type strings.

## 3. Runs

| Run | Cfg | Expect | Checks |
|---|---|---|---|
| `ddl_mirror` | `MC_DdlTranslator.cfg` | pass | `TypeOK`, `MirrorsInLockstep`, `MirrorRefined` |
| `ddl_unsigned` | `MC_DdlUnsigned.cfg` | violation | `IncrementalMatchesSnapshot` |
| `ddl_partial_failure` | `MC_DdlRename.cfg` | violation | `FailedAlterLeavesMirrors` |
| `record_roundtrip` | `MC_RecordTranscoder.cfg` | pass | `RowRecovered` |
| `record_signed_mediumint` | `MC_RecordMediumint.cfg` | violation | `RowRecovered` |
| `type_capacity` | `MC_TypeCapacity.cfg` | pass | `NoNarrowing` |
| `value_decoders` | `MC_ValueDecoders.cfg` | pass | `DecodesEncodedPoint`, `DocumentRecovered`, `TextRecovered` |
| `value_charsets` | `MC_ValueCharsets.cfg` | violation | `TextRecovered` |
| `query_front` | `MC_QueryFront.cfg` | pass | `TranslatesStatement` |
| `query_names` | `MC_QueryNames.cfg` | violation | `TranslatesStatement` |
| `drift_unserialized` | `MC_SchemaDriftUnserialized.cfg` | violation | `ValuesLandInOwnColumns` |

### ddl_mirror (pass)

- **Bounds:** columns named a, b, c; at most 3 columns; statements of up to 2
  sub-operations. The sub-operations are ADD (FIRST, AFTER x or last), DROP,
  MODIFY, CHANGE (including renames), ADD/DROP INDEX and ALTER COLUMN ... SET
  DEFAULT.
- **Declarations:** `INT(11) NOT NULL`, `VARCHAR(10)` and `DATETIME(3)`, all
  signed.
- **Result:** in every reachable state the two structures have the same
  column names in the same order. Every step refines `SchemaMirror`: while no
  statement has failed, the ClickHouse structure equals
  `convert_table_structure` of the table MySQL holds. This implies the
  invariant `IncrementalMatchesSnapshot`, which the `ddl_unsigned` run
  checks.
- **Why these bounds suffice:** two sub-operations per statement and three
  columns already reach the following:
  - an add after a column that a drop in the same statement removes;
  - a rename followed by an add after the new name;
  - a position FIRST into an empty or a full table.
  - The bound of 3 columns makes the default "after the last column" differ
    from FIRST and from AFTER the first column.

### ddl_unsigned (violation)

- **Setup:** the same model, with `INT(11) UNSIGNED NOT NULL` and `BIGINT
  UNSIGNED` added to the declarations.
- **What TLC finds:** MODIFY a to `INT(11) UNSIGNED NOT NULL` leaves the
  ClickHouse column `Int32`. The snapshot path gives `UInt32`.
- **Why:**
  - `_tokenize_alter_query` merges `UNSIGNED` into the type string.
  - `convert_type` reads `unsigned` only from the parameters (line 194).
  - `BIGINT UNSIGNED` reaches the `bigint` rule (line 311) with no
    `unsigned` in its parameters and becomes a signed `Int64`.
  - A bare `INT UNSIGNED`, with no display width, matches no rule at all
    and raises `unknown mysql type` (line 331).

### ddl_partial_failure (violation)

- **Setup:** RENAME COLUMN is added to the sub-operations MySQL may send.
- **What TLC finds:** `MODIFY ..., RENAME COLUMN ...` raises at line 539. By
  then the MODIFY has already rewritten the MySQL-side field (type `INT(11)`,
  empty parameters). The ClickHouse side keeps the same type, `Int32`, so
  only the MySQL side differs in value from the statement before.
- **What it contradicts:** spec sections 5 and 7 promise no partial-statement
  success.

### record_roundtrip (pass)

- **Bounds:** a signed INT key, unsigned NOT NULL TINYINT, SMALLINT,
  MEDIUMINT and BIGINT, and a nullable `set('a','b')`.
  - Integer values are 0, half the modulus and the modulus minus one (for
    signed columns also the minimum and -1), in every form the driver yields.
  - SET values are every subset and NULL.
  - Rows have arity drift -1, 0 or +1, and `only_primary` is true or false.
- **Result:** for every row of the schema's arity, every converted column
  holds MySQL's value: unsigned wrap-around is undone at every width, and a
  SET becomes its labels in declaration order. Every pass-through column is
  exactly what the driver yielded.
- **Why these bounds suffice:** the first and last values of the upper half
  are the only places where a correction starts to matter. Every correction
  is reached. Each corrected value then passes through the later tests of the
  chain.

### record_signed_mediumint (violation)

- **What TLC finds:** a signed MEDIUMINT holding -32 (scaled) reaches
  ClickHouse as 32.
- **Why:** line 414 adds 2^24 to every negative value of a type containing
  `mediumint`, whatever its signedness. `convert_type` maps the column to
  `Int32`, so -1 becomes 16777215.
- **What it contradicts:** spec.md:40 maps a signed MEDIUMINT to a signed
  32-bit type. The spec's own section 4.2 (spec.md:60) repeats the
  unconditional correction.

### type_capacity (pass)

- **Declarations:**
  - every integer type name, with no display width, `(4)` or `(11)`, and the
    parameters `unsigned`, `unsigned zerofill` and `not null`;
  - `NUMERIC(p,s)` for p in 1..20 and s in 0..2 (s <= p), with and without a
    space after the comma, and bare `NUMERIC`, signed and unsigned;
  - `ENUM` with 1, 126, 127, 128 and 129 labels.
- **Result:** each declaration maps to a ClickHouse type that holds the
  column's whole range:
  - for integers, the bits and the signedness;
  - for NUMERIC, the integer and fractional digits (9 for 32 bits, 18 or 19
    for 64);
  - for ENUM, the number of ordinals (127 for Enum8).
- **Why these bounds suffice:** the precision thresholds 9 and 18 and the
  label bound 127 each have a value on both sides.
- **Left out on purpose:** `tinyint(1)` maps to Bool and bare `decimal` to
  Float64. Both are narrowing choices that spec section 4.1 makes on purpose.

### value_decoders (pass)

- **Samples:** plain and SRID-prefixed point encodings with byte order flags
  0, 1 and 2; geometry types 1 (POINT), 2 and 2^24 (POINT in the other byte
  order); two asymmetric coordinates; each point encoding also cut short by
  one byte or extended by one; and NULL. JSON documents up to depth two
  (arrays of up to two items, objects of up to two keys), in every form the
  driver may yield. Text and varchar columns of tables in utf8mb4, utf8mb3,
  utf16le or an unknown charset, holding every text of up to two characters
  from `A`, `é`, `中` and U+FEFF, yielded decoded or as MySQL's bytes.
- **Result:** every point decodes to its own x and y, in order; every other
  value raises, and NULL gives (0, 0). The JSON text written is always the
  `json.dumps` text of the document. Every text reaches ClickHouse as MySQL
  holds it (131142 states).
- **Why these bounds suffice:** the four characters take one, two and three
  UTF-8 bytes, and U+FEFF is the one a codec may read as a byte order mark.

### value_charsets (violation)

- **Setup:** the same texts in tables of charset utf16, ucs2 or utf32.
- **What TLC finds:** the text `A` of a utf16 table is yielded as the bytes
  `00 41`. `utf_16` finds no byte order mark and decodes them little-endian,
  to U+4100, and nothing raises. Checked on its own, ucs2 gives the same
  result and utf32 raises (`00 00 00 41` is not a little-endian code point).
  A text that starts with U+FEFF loses that character, read as a byte order
  mark.
- **What it shows:** a code bug in `CHARSET_MYSQL_TO_PYTHON` (lines 51-55).
  MySQL stores these charsets big-endian. Their codecs should be
  `utf_16_be` and `utf_32_be`. Spec section 4.2 (spec.md:61) asks for the
  bytes decoded with the table's charset.
- **Assumption:** the driver yields a TEXT value as the bytes MySQL stores,
  which is why the code decodes bytes at all. The build platform is
  little-endian.

### drift_unserialized (violation)

- **Setup:** rows and ALTERs (ADD with FIRST/AFTER, DROP, MODIFY, index and
  ALTER COLUMN sub-operations) of a table of at most two columns. A row may
  be read before an ALTER and converted after it.
- **Trace:** the row `(a)` is read. Then `ADD COLUMN b INT FIRST` is
  applied, and the row is converted against `(b, a)`. It has one field and
  the schema has two, so nothing raises, and the value of `a` is written to
  `b`.
- **What it shows:** spec section 3 promises a loud failure when the
  structures desynchronize. The code only fails when a row is longer than
  its schema, although spec section 4.2 (spec.md:55) requires a row with
  fewer fields than the schema to fail with a mismatch error. Only the
  caller's serialisation rules this case out.

### query_front (pass)

- **Setup:** tables `t`, `` `t` `` and `u` (not replicated), unqualified or
  qualified by `src`, `db` or `` `src` ``. Three keyword spellings, three
  terminators, six sub-operation lists (with ADD INDEX and ALTER COLUMN,
  which are skipped, and `MODIFY c decimal(10,2)`, whose comma is nested),
  two session databases, with and without a replicator.
- **Result:** every call reaches exactly the handler calls of the table it
  names, or is skipped when that table is not replicated; none raises (2593
  states).

### query_names (violation)

- **Setup:** tables whose backquoted names hold a `.`, a space or a `;`.
  Sub-operations whose string literals hold a `;` (`COMMENT 'a;b'`), a `,`
  (`DEFAULT 'a,b'`) or a `(` (`COMMENT 'see (1'`, followed by a DROP).
- **What TLC finds:** one of five failures of `TranslatesStatement`, each
  checked on its own while the model was built:
  - `` ALTER TABLE `a.b` ADD COLUMN c int; `` is resolved as table `b` of
    database `a` (line 468);
  - `` ALTER TABLE `a b` ... `` is resolved as table `a`, and is skipped
    silently when `a` is not replicated (line 488);
  - `ALTER TABLE t MODIFY c int COMMENT 'a;b'` and `` `a;b` `` raise
    `multi-query statement not supported` (line 462);
  - `DEFAULT 'a,b'` is cut inside the literal by `split_high_level` (line
    153), and the piece `b'` raises `IndexError`;
  - after `COMMENT 'see (1'` the parenthesis depth never returns to 0, so
    `, drop c` is never cut off. The DROP is passed to the add handler as part
    of the column definition.
- **What it shows:** a code bug. The four cuts ignore quoting. Spec
  section 4.3 steps 1-2 reject only text with more than one statement and
  extract the table reference.

### Mutants

Each property of a passing run has a mutant of the code that TLC must catch:

- `StripSqlName` keeps the quotes, which breaks `TypeOK`.
- `Mutate` never updates the ClickHouse side, which breaks
  `MirrorsInLockstep`.
- `AddFieldAfter` inserts before the anchor, which breaks the refinement
  `MirrorRefined`.
- `DecodeCharset` without the utf-8 default raises on a table of unknown
  charset, which breaks `TextRecovered`.
- `SplitHighLevel` cuts at every comma, which breaks
  `TranslatesStatement`: `MODIFY c decimal(10,2)` is cut in two and raises.
- `Correct` also treats zero as negative, which breaks `RowRecovered`.
- `NumericWidth` still maps precision 10 to 32 bits, which breaks
  `NoNarrowing`.
- `ParseMysqlPoint` reads the 25-byte form without skipping the SRID, which
  breaks `DecodesEncodedPoint`.
- `Resolve` without the aliasing breaks `TranslatesStatement`.
- `DecodeKey` keeping a bytes key breaks `DocumentRecovered`.

### Fairness

No liveness is checked. The code is a synchronous function of its input and
nothing in it waits or is retried. The specifications are therefore pure
safety specifications without fairness.

## 4. Not modelled, and why

- **`strip_sql_comments`:** a call of `sqlparse.format`, a library outside
  this repository.
- **The order of aliasing and filtering (line 478):** the filter runs on the
  database name after it has been rewritten to `target_database`.
  `QueryFront` follows that order, as spec section 4.3 step 2 prescribes.
  Whether the configured patterns name the source or the target database
  depends on the config class, which is not in this repository. The hazard
  stays without a property.
- **Key collisions in `convert_bytes`:** a bytes key and a str key with the
  same text would collapse into one. A JSON object has unique keys, so the
  driver cannot yield both.
- **Primary keys (`preprocess`, `primary_key_ids`):** they are maintained
  by `TableStructure`, which is not in this repository.
  - Spec section 3 says only that the ids are recomputed on every structural
    change.
  - It says nothing of `primary_keys` when a key column is dropped or
    renamed.
  - A model would have to invent that code, so no hazard is listed for it.
- **The enum label text:** only the Enum8/Enum16 choice on the label count
  is kept.
- **Single-byte and East Asian charsets:** Python's codec tables for them
  (cp1252, koi8_r, shift_jis, ...) and MySQL's are outside this repository.
  Only the Unicode charsets are modelled. For the charsets the table maps to
  None (armscii8, geostd8, hp8, keybcs2, swe7), the code decodes with
  utf-8. Spec section 1 (spec.md:14) says decoding should then fail
  explicitly. Showing the difference would need those charsets' byte tables.
- **A column charset other than the table's:** the code decodes with the
  table's `charset_python`. The column charset is not in the structures the
  code receives.
- **The enum, time and uuid branches of `convert_record`:** each one formats
  one value, and `EnumConverter` is not in this repository. The point, json
  and charset branches are modelled on their own (`GeometryDecoder`,
  `ByteDecoding`, `CharsetDecoding`) and composed as the column kinds of one
  call in `ValueDecoders`.
- **A SET value yielded as text:** `','.join` of a string would join its
  characters. Which Python type the driver yields is outside this
  repository, so this stays a hazard without a run.

## 5. Plan

Done so far:

1. `SqlText`, `TypeMapper` (pure operators).
2. `SplitHighLevel`, now an operator applied and checked through `QueryFront`.
3. `DdlTranslator` (composing `TypeMapper`) and its three runs.
4. `RecordTranscoder` and its three runs.
5. `SchemaMirror`, with `DdlTranslator` checked to refine it.
6. `TypeCapacity`, for the precision and label-count boundaries.
7. `GeometryDecoder`.
8. `SchemaDrift`, composing `DdlTranslator` with `RecordTranscoder`.
9. `QueryFront` (validation, table resolution, dispatch), `ByteDecoding`, and
   their composition with `GeometryDecoder` in `ValueDecoders`.
10. `CharsetDecoding` (the charset table and branch), composed into
    `ValueDecoders`.

Remaining, and why:

11. Liveness has nothing to stand on: the code neither waits nor retries.
12. `SchemaDrift` has only its violation run. Under serialisation its
    property adds nothing to `MirrorRefined`.
