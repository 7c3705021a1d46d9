--------------------------- MODULE MC_TypeCapacity ---------------------------
(* Model values and bounds for checking TypeCapacity with TLC.             *)
EXTENDS TypeCapacity

MCTypesMapping == [t \in {} |-> ""]

\* Every integer type name; tinyint(1) is left out, since spec section 4.1
\* maps it to Bool on purpose.
MCIntBases == {"tinyint", "smallint", "mediumint", "int", "integer", "bigint"}
MCDisplayWidths == {"", "(4)", "(11)"}
MCIntParams == {"", "unsigned", "unsigned zerofill", "not null", "unsigned not null"}

\* Every precision across both thresholds, scales 0 to 2.
MCPrecisions == 1 .. 20
MCScales == 0 .. 2

\* The label counts around the Enum8 bound.
MCEnumSizes == {1, 126, 127, 128, 129}
=============================================================================
