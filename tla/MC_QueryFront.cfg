\* ALTER statements on bare and backquoted table names, qualified or not,
\* with terminators, keyword case, skipped sub-operations and a comma inside
\* parentheses.
CONSTANTS
  Database <- MCDatabase
  TargetDatabase <- MCTargetDatabase
  IncludedDatabases <- MCIncludedDatabases
  IncludedTables <- MCIncludedTables
  Statements <- MCStatements
  DbArgs <- MCDbArgs
SPECIFICATION Spec
CHECK_DEADLOCK FALSE
INVARIANT TranslatesStatement
