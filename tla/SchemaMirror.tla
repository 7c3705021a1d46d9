---------------------------- MODULE SchemaMirror ----------------------------
(***************************************************************************)
(* What the DDL side of the replicator promises (spec sections 3, 5 and    *)
(* 7), independent of how ALTER text is translated: the ClickHouse table   *)
(* is at every moment the conversion of the MySQL table, and each ALTER    *)
(* statement MySQL commits is either mirrored as a whole or stops          *)
(* replication with the ClickHouse table untouched.  Which statements     *)
(* MySQL commits is the environment's choice: source may change in any     *)
(* way.                                                                    *)
(***************************************************************************)
CONSTANT Convert(_)  \* the ClickHouse table of a MySQL table

VARIABLES
  source,         \* the table MySQL holds
  target,         \* the ClickHouse table the replicator maintains
  stopped         \* replication has stopped on a failed statement

Init ==
  /\ target = Convert(source)
  /\ stopped = FALSE

\* A committed statement is mirrored as a whole.
Follow ==
  /\ ~stopped
  /\ target' = Convert(source')
  /\ UNCHANGED stopped

\* A committed statement cannot be mirrored: replication stops, and
\* nothing of the statement has been applied to the ClickHouse table.
Stop ==
  /\ ~stopped
  /\ stopped' = TRUE
  /\ UNCHANGED target

Next == Follow \/ Stop

Spec == Init /\ [][Next]_<<source, target, stopped>>
=============================================================================
