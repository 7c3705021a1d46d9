------------------------- MODULE MC_RecordTranscoder -------------------------
(* Model values and bounds for checking RecordTranscoder with TLC.         *)
EXTENDS RecordTranscoder

\* No user type overrides (config.types_mapping empty).
MCTypesMapping == [t \in {} |-> ""]

\* Each width scaled down by four: 2, 4, 6, 8 and 16 bits keep the moduli
\* in the order of the real ones and every value within TLC's integers.
MCWidthBits == [w \in {8, 16, 24, 32, 64} |-> w \div 4]

Col(type, params, labels) == [type |-> type, params |-> params, labels |-> labels]

\* One column of each unsigned width the corrections name, a signed key
\* and a nullable SET.
MCColumns ==
  << Col("int", "NOT NULL", <<>>),
     Col("tinyint", "unsigned NOT NULL", <<>>),
     Col("smallint", "unsigned NOT NULL", <<>>),
     Col("mediumint", "unsigned NOT NULL", <<>>),
     Col("bigint", "unsigned NOT NULL", <<>>),
     Col("set('a','b')", "", <<"a", "b">>) >>

\* A signed key and a signed MEDIUMINT.
MCColumnsSignedMediumint ==
  << Col("int", "NOT NULL", <<>>),
     Col("mediumint", "NOT NULL", <<>>) >>

\* A key and two nullable columns, for rows of a neighbouring schema version.
MCColumnsDrift ==
  << Col("int", "NOT NULL", <<>>),
     Col("smallint", "unsigned", <<>>),
     Col("set('a','b')", "", <<"a", "b">>) >>
\* A row of a schema version with a last column fewer, the same, or one more.
MCArityDrift == {-1, 0, 1}
=============================================================================
