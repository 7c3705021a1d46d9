----------------------------- MODULE SchemaDrift -----------------------------
(***************************************************************************)
(* DdlTranslator composed with RecordTranscoder: binlog row events and      *)
(* ALTER statements of one table, processed by the replicator against the   *)
(* schema pair that convert_alter_query maintains.  convert_records takes   *)
(* the two type lists from the pair as it is when the row is converted      *)
(* (lines 362-363), and the converted tuple is written to the ClickHouse    *)
(* columns by position.                                                     *)
(*                                                                          *)
(* A row's values are tagged with the column MySQL holds them in (each      *)
(* value is its column's name), which shows where each value lands.  The    *)
(* declarations are signed and NOT NULL or strings, on which convert_record *)
(* leaves a value as it is, so a tag survives conversion.                  *)
(*                                                                          *)
(* Spec section 5 makes serialisation the caller's duty: row processing of  *)
(* a table pauses while its ALTER is applied.  Serialized says whether the  *)
(* caller keeps to it.                                                      *)
(***************************************************************************)
EXTENDS Integers, Sequences

CONSTANTS
  Names, Decls, InitTable, MaxColumns, MaxSubOps, OpKinds, TypesMapping, Raised,
  WidthBits,    \* as in RecordTranscoder
  Null,         \* as in RecordTranscoder
  NoRow,        \* model value: no row event in flight
  Serialized    \* the caller pauses rows while an ALTER is applied

VARIABLES
  table, mysqlFields, chFields, status,  \* as in DdlTranslator
  inflight,     \* the values of a row event read from the binlog, or NoRow
  landed        \* the row written: <<ClickHouse column, value>> per position, or Raised

D == INSTANCE DdlTranslator

R == INSTANCE RecordTranscoder WITH
  Columns <- <<>>, PrimaryKeyIds <- {}, ArityDrift <- {0},
  truth <- <<>>, record <- <<>>, onlyPrimary <- FALSE, out <- <<>>

ddlVars == <<table, mysqlFields, chFields, status>>
vars == <<table, mysqlFields, chFields, status, inflight, landed>>

\* The arguments convert_records takes from the live schema pair.
CurrentStructure ==
  R!Structure([i \in DOMAIN mysqlFields |-> mysqlFields[i].type],
              [i \in DOMAIN chFields |-> chFields[i].type],
              [i \in DOMAIN mysqlFields |-> <<>>], {})

\* The converted tuple written to the ClickHouse columns by position.
Land(out) ==
  IF out = Raised THEN Raised
  ELSE [i \in DOMAIN out |-> <<IF i <= Len(chFields) THEN chFields[i].name ELSE "none", out[i]>>]

Init ==
  /\ D!Init
  /\ inflight = NoRow
  /\ landed = <<>>

\* MySQL commits an ALTER and the replicator translates it.
Alter ==
  /\ Serialized => inflight = NoRow
  /\ D!Next
  /\ UNCHANGED <<inflight, landed>>

\* MySQL writes a row of the table as it now holds it to the binlog.  One
\* row is followed per behaviour: rows share no state in convert_records.
Capture ==
  /\ inflight = NoRow
  /\ landed = <<>>
  /\ inflight' = [i \in DOMAIN table |-> table[i].name]
  /\ UNCHANGED <<ddlVars, landed>>

\* convert_records on the row with the schema pair as it is now.
Transcode ==
  /\ inflight # NoRow
  /\ landed' = Land(R!ConvertRecord(CurrentStructure, inflight, FALSE))
  /\ inflight' = NoRow
  /\ UNCHANGED ddlVars

Next == Alter \/ Capture \/ Transcode

Spec == Init /\ [][Next]_vars

\* Every value convert_records passes on lands in the ClickHouse column
\* of the MySQL column it was read from, or the conversion fails loudly
\* (spec section 3: the transcoder indexes both structures by position
\* and fails rather than silently misplace data).  This takes the DDL
\* translator's column positioning and the transcoder's positional
\* indexing together.
ValuesLandInOwnColumns ==
  landed # Raised => \A i \in DOMAIN landed : landed[i][1] = landed[i][2]
=============================================================================
