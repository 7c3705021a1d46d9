-------------------------- MODULE MC_DdlTranslator --------------------------
(* Model values and bounds for checking DdlTranslator with TLC.            *)
EXTENDS DdlTranslator

\* No user type overrides (config.types_mapping empty).
MCTypesMapping == [t \in {} |-> ""]

MCNames == {"a", "b", "c"}

\* Column definitions the translator handles: a signed NOT NULL integer
\* with a display width, a nullable string and a nullable datetime with
\* a precision.
MCDecls ==
  { [type |-> "INT(11)", unsigned |-> FALSE, notNull |-> TRUE],
    [type |-> "VARCHAR(10)", unsigned |-> FALSE, notNull |-> FALSE],
    [type |-> "DATETIME(3)", unsigned |-> FALSE, notNull |-> FALSE] }

\* The same, plus unsigned integers written as MySQL writes them.
MCDeclsUnsigned ==
  MCDecls \cup { [type |-> "INT(11)", unsigned |-> TRUE, notNull |-> TRUE],
                 [type |-> "BIGINT", unsigned |-> TRUE, notNull |-> FALSE] }

\* The snapshot: one primary-key column.
MCInitTable == << [name |-> "a", type |-> "int", params |-> "NOT NULL"] >>

MCOpKinds == {"add", "drop", "modify", "change", "add_index", "alter_column"}
MCOpKindsRename == MCOpKinds \cup {"rename"}
=============================================================================
