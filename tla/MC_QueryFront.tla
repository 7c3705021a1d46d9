---------------------------- MODULE MC_QueryFront ----------------------------
(* Model values and bounds for checking QueryFront with TLC.               *)
EXTENDS QueryFront

MCDatabase == "src"
MCTargetDatabase == "dst"
MCIncludedDatabases == {"dst", "db"}
MCDbArgs == {"src", "db"}

\* Identifiers, bare or backquoted.
Bare(n) == [name |-> n, quoted |-> FALSE]
Quoted(n) == [name |-> n, quoted |-> TRUE]
MCDbIdents == {NoDb, Bare("src"), Bare("db"), Quoted("src")}
MCTableIdents == {Bare("t"), Quoted("t"), Bare("u")}
MCIncludedTables == {"t"}

\* Sub-operations with their meaning: the handler call, or none.
AddC == [text |-> "ADD COLUMN c int", call |-> <<[op |-> "add", args |-> "c int"]>>]
DropC == [text |-> "drop c", call |-> <<[op |-> "drop", args |-> "c"]>>]
ModifyC == [text |-> "MODIFY c varchar(5) DEFAULT 'x'", call |-> <<[op |-> "modify", args |-> "c varchar(5) DEFAULT 'x'"]>>]
AddIndex == [text |-> "ADD INDEX i (c)", call |-> <<>>]
AlterC == [text |-> "ALTER COLUMN c SET DEFAULT 1", call |-> <<>>]
\* A comma inside a type's parentheses is not a cut (split_high_level).
DecimalC == [text |-> "MODIFY c decimal(10,2)", call |-> <<[op |-> "modify", args |-> "c decimal(10,2)"]>>]
MCOps == {<<AddC>>, <<DropC>>, <<ModifyC>>, <<AddIndex, DropC>>, <<AlterC, AddC>>, <<DecimalC, DropC>>}

MCKeywords == {"ALTER TABLE", "alter table", " Alter  Table"}
MCTerminators == {"", ";", " ; "}

MCStatements ==
  [kw : MCKeywords, db : MCDbIdents, table : MCTableIdents, ops : MCOps, term : MCTerminators]

\* Backquoted names holding a '.', a space or a ';' (all legal inside
\* backquotes), and string literals holding a ';', a ',' or a '('.  "b" is a replicated
\* table too, "a" is not.
MCTableIdentsSpecial == {Bare("t"), Quoted("a.b"), Quoted("a b"), Quoted("a;b")}
MCIncludedTablesSpecial == {"t", "a.b", "a b", "a;b", "b"}
CommentC == [text |-> "MODIFY c int COMMENT 'a;b'", call |-> <<[op |-> "modify", args |-> "c int COMMENT 'a;b'"]>>]
\* String literals holding a comma or an opening parenthesis, as DEFAULT
\* and COMMENT clauses may.
DefaultC == [text |-> "ADD COLUMN g varchar(5) DEFAULT 'a,b'", call |-> <<[op |-> "add", args |-> "g varchar(5) DEFAULT 'a,b'"]>>]
ParenC == [text |-> "ADD COLUMN h text COMMENT 'see (1'", call |-> <<[op |-> "add", args |-> "h text COMMENT 'see (1'"]>>]
MCStatementsSpecial ==
  [kw : {"ALTER TABLE"}, db : {NoDb}, table : MCTableIdentsSpecial, term : {";"},
   ops : {<<AddC>>, <<CommentC>>, <<DefaultC>>, <<ParenC, DropC>>}]
=============================================================================
