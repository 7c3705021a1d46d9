\* ALTERs on tables whose backquoted names hold a '.', a space or a ';',
\* and ones whose string literals hold a ';', a ',' or a '('.
CONSTANTS
  Database <- MCDatabase
  TargetDatabase <- MCTargetDatabase
  IncludedDatabases <- MCIncludedDatabases
  IncludedTables <- MCIncludedTablesSpecial
  Statements <- MCStatementsSpecial
  DbArgs <- MCDbArgs
SPECIFICATION Spec
CHECK_DEADLOCK FALSE
INVARIANT TranslatesStatement
