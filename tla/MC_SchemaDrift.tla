--------------------------- MODULE MC_SchemaDrift ---------------------------
(* Model values and bounds for checking SchemaDrift with TLC; the DDL       *)
(* bounds are those of MC_DdlTranslator.                                   *)
EXTENDS SchemaDrift

MCTypesMapping == [t \in {} |-> ""]
MCNames == {"a", "b", "c"}
MCDecls ==
  { [type |-> "INT(11)", unsigned |-> FALSE, notNull |-> TRUE],
    [type |-> "VARCHAR(10)", unsigned |-> FALSE, notNull |-> FALSE],
    [type |-> "DATETIME(3)", unsigned |-> FALSE, notNull |-> FALSE] }
MCInitTable == << [name |-> "a", type |-> "int", params |-> "NOT NULL"] >>
\* The sub-operations of MC_DdlTranslator but CHANGE: a value's tag is its
\* column's name, which a rename would no longer match.
MCOpKinds == {"add", "drop", "modify", "add_index", "alter_column"}
MCWidthBits == [w \in {8, 16, 24, 32, 64} |-> w \div 4]
=============================================================================
