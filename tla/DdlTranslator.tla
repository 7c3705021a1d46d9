---------------------------- MODULE DdlTranslator ----------------------------
(***************************************************************************)
(* The ALTER TABLE translator of converter.py (convert_alter_query and the *)
(* column handlers it calls) applied to the live schema pair of one        *)
(* replicated table: the MySQL-side TableStructure mysqlFields and the     *)
(* ClickHouse-side TableStructure chFields.                                *)
(*                                                                         *)
(* The environment is MySQL itself: table is the table as MySQL holds it,  *)
(* in the form a fresh CREATE TABLE snapshot parser would produce (type,   *)
(* then the modifiers such as "unsigned NOT NULL" as parameters).  Each    *)
(* step MySQL commits a valid ALTER TABLE of one or more sub-operations,   *)
(* and the replicator translates the statement's text.  A statement is a   *)
(* sequence of sub-operations; each sub-operation reaches the code as the  *)
(* whitespace-separated words of its text (the split_high_level step that  *)
(* produces them is modelled in SplitHighLevel).                           *)
(***************************************************************************)
EXTENDS TypeMapper

CONSTANTS
  Names,        \* column names MySQL may use
  Decls,        \* column definitions: [type |-> "INT(11)", unsigned, notNull |-> BOOLEAN]
  InitTable,    \* the table when replication starts, snapshot form
  MaxColumns,   \* bound on the number of columns of the table
  MaxSubOps,    \* bound on the number of sub-operations of one statement
  OpKinds       \* the kinds of sub-operation MySQL sends

ASSUME MaxColumns \in Nat /\ MaxSubOps \in Nat \ {0}
ASSUME OpKinds \subseteq {"add", "drop", "modify", "change", "add_index", "alter_column", "rename"}

VARIABLES
  table,        \* the table in MySQL (ground truth of the source)
  mysqlFields,  \* tables_structure[table][0].fields: [name, type, params]
  chFields,     \* tables_structure[table][1].fields: [name, type]
  status        \* "idle", or "failed" once a translation has raised

vars == <<table, mysqlFields, chFields, status>>

ColNames(fs) == {fs[i].name : i \in DOMAIN fs}
FieldNames(fs) == [i \in DOMAIN fs |-> fs[i].name]
IndexOf(fs, n) == CHOOSE i \in DOMAIN fs : fs[i].name = n

-----------------------------------------------------------------------------
(* MySQL: the sub-operations it accepts on a table and what they do.       *)

\* The modifiers a CREATE TABLE snapshot records as the column parameters.
SnapshotParams(d) ==
  Join((IF d.unsigned THEN <<"unsigned">> ELSE <<>>)
         \o (IF d.notNull THEN <<"NOT", "NULL">> ELSE <<>>), " ")

Column(n, d) == [name |-> n, type |-> d.type, params |-> SnapshotParams(d)]

OpsOfKind(t, k) ==
  LET cols == ColNames(t) IN
  CASE k = "add" ->
         IF Len(t) < MaxColumns
         THEN [kind : {k}, name : Names \ cols, decl : Decls,
               pos : {"FIRST", "LAST"} \cup cols]
         ELSE {}
    [] k = "drop"   -> IF Len(t) > 1 THEN [kind : {k}, name : cols] ELSE {}
    [] k = "modify" -> [kind : {k}, name : cols, decl : Decls]
    [] k = "change" ->
         UNION {[kind : {k}, name : {o}, new : (Names \ cols) \cup {o}, decl : Decls] : o \in cols}
    [] k = "rename" -> UNION {[kind : {k}, name : {o}, new : Names \ cols] : o \in cols}
    [] OTHER        -> [kind : {k}, name : cols]    \* add_index, alter_column

ValidOps(t) == UNION {OpsOfKind(t, k) : k \in OpKinds}

MySQLApply(t, op) ==
  CASE op.kind = "add" ->
         LET at == CASE op.pos = "FIRST" -> 1
                     [] op.pos = "LAST"  -> Len(t) + 1
                     [] OTHER            -> IndexOf(t, op.pos) + 1
         IN InsertAt(t, at, Column(op.name, op.decl))
    [] op.kind = "drop"   -> RemoveAt(t, IndexOf(t, op.name))
    [] op.kind = "modify" -> [t EXCEPT ![IndexOf(t, op.name)] = Column(op.name, op.decl)]
    [] op.kind = "change" -> [t EXCEPT ![IndexOf(t, op.name)] = Column(op.new, op.decl)]
    [] op.kind = "rename" -> [t EXCEPT ![IndexOf(t, op.name)].name = op.new]
    [] OTHER              -> t

\* The statements MySQL commits on t: 1 .. k sub-operations, each valid on
\* the table left by the ones before it.
RECURSIVE Statements(_, _)
Statements(t, k) ==
  IF k = 0 THEN {}
  ELSE {<<op>> : op \in ValidOps(t)}
       \cup UNION {{<<op>> \o s : s \in Statements(MySQLApply(t, op), k - 1)} : op \in ValidOps(t)}

RECURSIVE MySQLApplyAll(_, _)
MySQLApplyAll(t, stmt) ==
  IF stmt = <<>> THEN t ELSE MySQLApplyAll(MySQLApply(t, Head(stmt)), Tail(stmt))

\* The words of a sub-operation's text as the binlog carries it.
TypeWords(d) == <<d.type>> \o (IF d.unsigned THEN <<"UNSIGNED">> ELSE <<>>)
DefWords(d) == TypeWords(d) \o (IF d.notNull THEN <<"NOT", "NULL">> ELSE <<>>)

Words(op) ==
  CASE op.kind = "add" ->
         <<"ADD", "COLUMN", BackQuote \o op.name \o BackQuote>> \o DefWords(op.decl)
           \o (CASE op.pos = "FIRST" -> <<"FIRST">>
                 [] op.pos = "LAST"  -> <<>>
                 [] OTHER            -> <<"AFTER", op.pos>>)
    [] op.kind = "drop"   -> <<"DROP", "COLUMN", op.name>>
    [] op.kind = "modify" ->
         <<"MODIFY", "COLUMN", op.name>> \o DefWords(op.decl)
    [] op.kind = "change" ->
         <<"CHANGE", "COLUMN", op.name, op.new>> \o DefWords(op.decl)
    [] op.kind = "add_index" -> <<"ADD", "INDEX", "idx_" \o op.name, "(" \o op.name \o ")">>
    [] op.kind = "alter_column" -> <<"ALTER", "COLUMN", op.name, "SET", "DEFAULT", "0">>
    [] op.kind = "rename" -> <<"RENAME", "COLUMN", op.name, "TO", op.new>>

-----------------------------------------------------------------------------
(* The replicator: converter.py and the TableStructure methods it calls.   *)

\* convert_field_type on the (type, parameters) strings the handlers below
\* can pass it, tabulated once: TLC evaluates a constant definition once,
\* and the table is ConvertFieldType itself on that domain.  A handler
\* passing a pair outside it is an error TLC reports.
HandlerTypes == UNION {{d.type, Join(TypeWords(d), " ")} : d \in Decls}
HandlerParams == {"", "NOT NULL", "FIRST", "NOT NULL FIRST"}
FieldTypeTable == [x \in HandlerTypes \X HandlerParams |-> ConvertFieldType(x[1], x[2])]
FieldType(t, p) == FieldTypeTable[<<t, p>>]

\* str.lower() and str.upper() of the words the binlog text can contain,
\* tabulated in the same way.
AnyOp == [kind : OpKinds, name : Names, new : Names, decl : Decls,
          pos : {"FIRST", "LAST"} \cup Names]
Vocabulary == HandlerTypes \cup UNION {{w[i] : i \in DOMAIN w} : w \in {Words(op) : op \in AnyOp}}
LowerTable == [w \in Vocabulary |-> Lower(w)]
UpperTable == [w \in Vocabulary |-> UpperCase(w)]
LowerWord(w) == LowerTable[w]
UpperWord(w) == UpperTable[w]

ConstraintKeywords ==
  {"DEFAULT", "NOT", "NULL", "AUTO_INCREMENT", "PRIMARY", "UNIQUE",
   "COMMENT", "COLLATE", "REFERENCES", "ON", "CHECK", "CONSTRAINT",
   "AFTER", "BEFORE", "GENERATED", "VIRTUAL", "STORED", "FIRST",
   "ALWAYS", "AS", "IDENTITY", "INVISIBLE", "PERSISTED"}

\* The result of _tokenize_alter_query when the first constraint keyword
\* is at i (Len(tokens) + 1 when there is none).
MergeType(tokens, i) ==
  IF i > 2 THEN <<tokens[1], Join(SubSeq(tokens, 2, i - 1), " ")>> \o SubSeq(tokens, i, Len(tokens))
  ELSE <<tokens[1]>> \o SubSeq(tokens, i, Len(tokens))

\* _tokenize_alter_query.  The words are the tokens its pattern finds; the
\* words after the column name up to the first constraint keyword are
\* merged, with single spaces, into the type.
TokenizeAlterQuery(tokens) ==
  IF tokens = <<>> THEN tokens
  ELSE MergeType(tokens, Min({k \in 2 .. Len(tokens) : UpperWord(tokens[k]) \in ConstraintKeywords}
                             \cup {Len(tokens) + 1}))

\* TableStructure.add_field_first, add_field_after, remove_field and
\* update_field; Raised when the named field is missing.
AddFieldFirst(fs, f) == <<f>> \o fs
\* Mutation of AddFieldAfter: inserted before the anchor (off by one).
AddFieldAfterBeforeAnchor(fs, f, after) ==
  IF after \in ColNames(fs) THEN InsertAt(fs, IndexOf(fs, after), f) ELSE Raised
AddFieldAfter(fs, f, after) ==
  IF after \in ColNames(fs) THEN InsertAt(fs, IndexOf(fs, after) + 1, f) ELSE Raised
RemoveField(fs, n) == IF n \in ColNames(fs) THEN RemoveAt(fs, IndexOf(fs, n)) ELSE Raised
UpdateField(fs, n, f) == IF n \in ColNames(fs) THEN [fs EXCEPT ![IndexOf(fs, n)] = f] ELSE Raised

\* The translation state of one statement: the schema pair, mutated in
\* place, and whether an exception has been raised.  A handler mutates
\* the MySQL side, then the ClickHouse side; a raise on either side ends
\* the handler with what was already mutated left in place.
\* Mutation of Mutate: the ClickHouse-side structure is never updated.
MutateMySQLOnly(s, m2, c2) ==
  IF m2 = Raised THEN [s EXCEPT !.raised = TRUE] ELSE [s EXCEPT !.m = m2]

Mutate(s, m2, c2) ==
  CASE m2 = Raised -> [s EXCEPT !.raised = TRUE]
    [] m2 # Raised /\ c2 = Raised -> [s EXCEPT !.m = m2, !.raised = TRUE]
    [] m2 # Raised /\ c2 # Raised -> [s EXCEPT !.m = m2, !.c = c2]

Raise(s) == [s EXCEPT !.raised = TRUE]

\* The end of __convert_alter_table_add_column once the ClickHouse type
\* chType of the new field mf is known: insert it FIRST or after anchor,
\* MySQL side then ClickHouse side.
AddField(s, mf, chType, first, anchor) ==
  IF chType = Raised THEN Raise(s)
  ELSE IF first
       THEN Mutate(s, AddFieldFirst(s.m, mf), AddFieldFirst(s.c, [name |-> mf.name, type |-> chType]))
       ELSE Mutate(s, AddFieldAfter(s.m, mf, anchor),
                      AddFieldAfter(s.c, [name |-> mf.name, type |-> chType], anchor))

\* The column definition def (name, type, parameters) is added.
AddColumnDef(s, def, first, anchor) ==
  IF Len(def) < 2 THEN Raise(s)
  ELSE AddField(s, [name |-> StripSqlName(def[1]), type |-> def[2], params |-> ""],
                FieldType(def[2], Join(SubSeq(def, 3, Len(def)), " ")), first, anchor)

\* __convert_alter_table_add_column on the tokenized sub-operation: a
\* trailing AFTER x names the anchor and is cut off; otherwise a trailing
\* FIRST (left among the parameters) or, by default, the last MySQL-side
\* field is the anchor.
AddColumnTokens(s, tokens) ==
  CASE Len(tokens) < 2 -> Raise(s)
    [] LowerWord(tokens[Len(tokens) - 1]) = "after" ->
         AddColumnDef(s, SubSeq(tokens, 1, Len(tokens) - 2), FALSE, StripSqlName(tokens[Len(tokens)]))
    [] LowerWord(tokens[Len(tokens) - 1]) # "after" ->
         AddColumnDef(s, tokens, LowerWord(tokens[Len(tokens)]) = "first",
                      StripSqlName(s.m[Len(s.m)].name))

ConvertAlterTableAddColumn(s, words) == AddColumnTokens(s, TokenizeAlterQuery(words))

\* __convert_alter_table_drop_column
ConvertAlterTableDropColumn(s, words) ==
  LET name == StripSqlName(words[1])
  IN Mutate(s, RemoveField(s.m, name), RemoveField(s.c, name))

\* The field old becomes the field mf, chType on the ClickHouse side.
RetypeField(s, old, mf, chType) ==
  IF chType = Raised THEN Raise(s)
  ELSE Mutate(s, UpdateField(s.m, old, mf), UpdateField(s.c, old, [name |-> mf.name, type |-> chType]))

\* Replace the column old by the tokenized definition (name, type, rest).
RetypeTokens(s, old, tokens) ==
  IF Len(tokens) < 2 THEN Raise(s)
  ELSE RetypeField(s, old, [name |-> StripSqlName(tokens[1]), type |-> tokens[2], params |-> ""],
                   FieldType(tokens[2], Join(SubSeq(tokens, 3, Len(tokens)), " ")))

RetypeColumn(s, old, words) == RetypeTokens(s, old, TokenizeAlterQuery(words))

\* __convert_alter_table_modify_column and __convert_alter_table_change_column
ConvertAlterTableModifyColumn(s, words) == RetypeColumn(s, StripSqlName(words[1]), words)
ConvertAlterTableChangeColumn(s, words) == RetypeColumn(s, StripSqlName(words[1]), Tail(words))

SkippedTargets == {"constraint", "index", "foreign", "unique"}

\* The dispatch on the lower-cased operation name op, rest being the
\* words after it and after an optional COLUMN.
DispatchSubquery(s, op, rest) ==
  CASE op = "add" /\ LowerWord(rest[1]) \notin SkippedTargets  -> ConvertAlterTableAddColumn(s, rest)
    [] op = "drop" /\ LowerWord(rest[1]) \notin SkippedTargets -> ConvertAlterTableDropColumn(s, rest)
    [] op = "modify" -> ConvertAlterTableModifyColumn(s, rest)
    [] op = "change" -> ConvertAlterTableChangeColumn(s, rest)
    [] op \in {"add", "drop"} /\ LowerWord(rest[1]) \in SkippedTargets -> s
    [] op \in {"alter", "auto_increment"} -> s
    [] op \notin {"add", "drop", "modify", "change", "alter", "auto_increment"} -> Raise(s)

\* One iteration of the loop over the sub-operations in convert_alter_query.
ConvertSubquery(s, words) ==
  DispatchSubquery(s, LowerWord(words[1]),
                   IF LowerWord(words[2]) = "column" THEN SubSeq(words, 3, Len(words)) ELSE Tail(words))

\* convert_alter_query: the sub-operations in order, stopping at a raise.
RECURSIVE ConvertAlterQuery(_, _)
ConvertAlterQuery(s, subqueries) ==
  IF subqueries = <<>> \/ s.raised THEN s
  ELSE ConvertAlterQuery(ConvertSubquery(s, Head(subqueries)), Tail(subqueries))

-----------------------------------------------------------------------------
(* The specification.                                                      *)

\* The snapshot: the MySQL structure as parsed, and its conversion.
Init ==
  /\ table = InitTable
  /\ mysqlFields = InitTable
  /\ chFields = ConvertTableStructure(InitTable)
  /\ status = "idle"

\* The translation of stmt ended in the state r.
Translated(stmt, r) ==
  /\ table' = MySQLApplyAll(table, stmt)
  /\ mysqlFields' = r.m
  /\ chFields' = r.c
  /\ status' = IF r.raised THEN "failed" ELSE "idle"

\* MySQL commits stmt and its binlog event reaches convert_alter_query.
AlterTable(stmt) ==
  /\ status = "idle"
  /\ Translated(stmt, ConvertAlterQuery([m |-> mysqlFields, c |-> chFields, raised |-> FALSE],
                                        [i \in DOMAIN stmt |-> Words(stmt[i])]))

Next == \E stmt \in Statements(table, MaxSubOps) : AlterTable(stmt)

Spec == Init /\ [][Next]_vars

-----------------------------------------------------------------------------
(* Properties.                                                             *)

Field == [name : Names, type : STRING, params : STRING]

TypeOK ==
  /\ table \in Seq(Field)
  /\ mysqlFields \in Seq(Field)
  /\ chFields \in Seq([name : Names, type : STRING])
  /\ status \in {"idle", "failed"}

\* Order parity (spec section 3): after every ALTER the add, drop, modify
\* and change handlers have left the MySQL-side and ClickHouse-side
\* structures with the same column names in the same order, which
\* convert_record relies on when it indexes both by position.
MirrorsInLockstep == FieldNames(mysqlFields) = FieldNames(chFields)

\* The ClickHouse structure built incrementally by convert_alter_query
\* from the ALTER text equals what convert_table_structure gives for a
\* fresh snapshot of the table as MySQL now holds it: same columns, same
\* order, same ClickHouse types.
IncrementalMatchesSnapshot ==
  status = "idle" => chFields = ConvertTableStructure(table)

\* The abstract promise: every statement MySQL commits is mirrored into
\* the ClickHouse structure as a whole (it then equals the conversion of
\* the new table), or the translator fails leaving the ClickHouse
\* structure as it was.  The MySQL-side structure mysqlFields is the
\* code's own bookkeeping and has no abstract counterpart.
Mirror == INSTANCE SchemaMirror WITH
  source <- table,
  target <- chFields,
  stopped <- status = "failed",
  Convert <- ConvertTableStructure

\* DdlTranslator implements SchemaMirror under that mapping.
MirrorRefined == Mirror!Spec

\* A statement whose translation raises leaves both structures as they
\* were (spec sections 5 and 7: no partial-statement success).
FailedAlterLeavesMirrors ==
  [][status' = "failed" => UNCHANGED <<mysqlFields, chFields>>]_vars
=============================================================================
