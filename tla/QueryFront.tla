------------------------------ MODULE QueryFront ------------------------------
(***************************************************************************)
(* The front of convert_alter_query (converter.py 459-540): the statement  *)
(* text is validated (__basic_validate_query), split into words, its      *)
(* table reference resolved (get_db_and_table_name: database aliasing and *)
(* the inclusion filters of the config), its remainder cut into           *)
(* sub-operations (split_high_level) and each sub-operation dispatched on *)
(* its first word.  What a handler then does to the schema pair is        *)
(* DdlTranslator's; here the outcome of a call is the list of handler     *)
(* calls it makes, or the skip, or the exception it raises.               *)
(*                                                                         *)
(* The environment is MySQL: stmt is the statement as MySQL parses it     *)
(* (its table reference and sub-operations), query the text of it that    *)
(* reaches the code.  The reference outcome is read off stmt.             *)
(***************************************************************************)
EXTENDS SqlText

CONSTANTS
  Database,          \* db_replicator.database, the source database
  TargetDatabase,    \* db_replicator.target_database
  IncludedDatabases, \* the names config.is_database_matches accepts
  IncludedTables,    \* the names config.is_table_matches accepts
  Statements,        \* the statements MySQL may log, as structures
  DbArgs             \* the db_name argument: the session's current database

VARIABLES
  stmt,     \* the statement MySQL executed (ghost)
  query,    \* its text, the mysql_query argument
  dbArg,    \* the db_name argument
  replicator, \* whether the converter has a db_replicator
  result    \* the outcome of the call, or None before it

vars == <<stmt, query, dbArg, replicator, result>>

Split == INSTANCE SplitHighLevel

\* The outcomes of a call, told apart by their fields.
Err(kind) == [raised |-> kind]
Skip == [skipped |-> TRUE]
Calls(db, table, ops) == [db |-> db, table |-> table, ops |-> ops]
IsErr(r) == "raised" \in DOMAIN r

-----------------------------------------------------------------------------
(* Python's str.split                                                      *)

\* The positions of c in s, with 0 and Len(s) + 1 around them.
Cuts(s, c) == {0, Len(s) + 1} \cup {i \in 1 .. Len(s) : Char(s, i) = c}

\* The k-th smallest element of the finite set of integers S.
Kth(S, k) == CHOOSE i \in S : Cardinality({j \in S : j < i}) = k - 1

Pieces(s, cuts) ==
  [k \in 1 .. Cardinality(cuts) - 1 |-> SubSeq(s, Kth(cuts, k) + 1, Kth(cuts, k + 1) - 1)]

\* s.split(c) for a one-character separator c
SplitChar(s, c) == Pieces(s, Cuts(s, c))

\* s.split() on a text whose only whitespace is the space
SplitWords(s) == SelectSeq(SplitChar(s, " "), LAMBDA w : w # "")

-----------------------------------------------------------------------------
(* The code                                                                *)

\* __basic_validate_query after the strip: one trailing ';' removed.
DropTerminator(q) == IF q # "" /\ Char(q, Len(q)) = ";" THEN SubSeq(q, 1, Len(q) - 1) ELSE q

\* Mutation of Resolve: the source database name is not aliased.
ResolveNoAlias(db, table, repl) ==
  [db |-> db, table |-> table,
   matches |-> ~repl \/ (db \in IncludedDatabases /\ table \in IncludedTables)]

\* The db_replicator part of get_db_and_table_name: aliasing, then the
\* inclusion filters on the aliased name; without a replicator all match.
Resolve(db, table, repl) ==
  LET d == IF repl /\ db = Database THEN TargetDatabase ELSE db
  IN [db |-> d, table |-> table,
      matches |-> ~repl \/ (d \in IncludedDatabases /\ table \in IncludedTables)]

\* get_db_and_table_name: 'db.table' unpacked from token.split('.'),
\* a ValueError when the split gives more than two parts.
GetDbAndTableName(token, dbName, repl) ==
  LET parts == SplitChar(token, ".")
  IN CASE Len(parts) = 1 -> Resolve(StripSqlName(dbName), StripSqlName(token), repl)
       [] Len(parts) = 2 -> Resolve(StripSqlName(parts[1]), StripSqlName(parts[2]), repl)
       [] Len(parts) > 2 -> Err("ValueError")

IndexWords == {"constraint", "index", "foreign", "unique"}
SkippedOps == {"alter", "auto_increment"}
HandledOps == {"add", "drop", "modify", "change"}

\* The dispatch of one sub-operation (the loop body, 504-540) on its
\* operation word and the words after it: the handler call (none for a
\* skipped one), or the error.
IsIndexForm(op, tokens) == op \in {"add", "drop"} /\ tokens # <<>> /\ Lower(tokens[1]) \in IndexWords

SubOpWords(op, tokens) ==
  CASE op \in {"add", "drop"} /\ tokens = <<>> -> Err("IndexError")
    [] IsIndexForm(op, tokens) \/ op \in SkippedOps -> [calls |-> <<>>]
    [] op \in HandledOps /\ ~(op \in {"add", "drop"} /\ tokens = <<>>) /\ ~IsIndexForm(op, tokens) ->
         [calls |-> <<[op |-> op, args |-> Join(tokens, " ")]>>]
    [] op \notin HandledOps \cup SkippedOps -> Err("not implement")

\* tokens[0] is read before the dispatch, so a sub-operation of one word
\* raises; 'column' after the operation word is dropped.
SubOpTokens(words) ==
  IF Len(words) < 2 THEN Err("IndexError")
  ELSE SubOpWords(Lower(words[1]),
                  IF Lower(words[2]) = "column" THEN SubSeq(words, 3, Len(words)) ELSE Tail(words))

SubOp(subquery) == SubOpTokens(SplitWords(Strip(subquery)))

\* The loop over the sub-operations: the first error ends it.
Dispatch(r, outs) ==
  IF \E i \in DOMAIN outs : IsErr(outs[i])
  THEN outs[Min({i \in DOMAIN outs : IsErr(outs[i])})]
  ELSE Calls(r.db, r.table, FoldLeft(LAMBDA acc, o : acc \o o.calls, <<>>, outs))

Route(r, rest) ==
  CASE IsErr(r) -> r
    [] ~IsErr(r) /\ ~r.matches -> Skip
    [] ~IsErr(r) /\ r.matches ->
         Dispatch(r, LET subs == Split!SplitHighLevel(Join(rest, " "), ",")
                     IN [i \in DOMAIN subs |-> SubOp(subs[i])])

\* convert_alter_query up to the handlers, on the words of the statement.
AlterTokens(tokens, dbName, repl) ==
  CASE Len(tokens) < 1 -> Err("IndexError")
    [] Len(tokens) >= 1 /\ Lower(tokens[1]) # "alter" -> Err("wrong query")
    [] Len(tokens) >= 1 /\ Lower(tokens[1]) = "alter" /\ Len(tokens) < 2 -> Err("IndexError")
    [] Len(tokens) >= 2 /\ Lower(tokens[1]) = "alter" /\ Lower(tokens[2]) # "table" -> Err("wrong query")
    [] Len(tokens) = 2 /\ Lower(tokens[1]) = "alter" /\ Lower(tokens[2]) = "table" -> Err("IndexError")
    [] Len(tokens) >= 3 /\ Lower(tokens[1]) = "alter" /\ Lower(tokens[2]) = "table" ->
         Route(GetDbAndTableName(tokens[3], dbName, repl), SubSeq(tokens, 4, Len(tokens)))

\* convert_alter_query from __basic_validate_query to the handlers.
ConvertAlterQuery(q, dbName, repl) ==
  IF HasSub(DropTerminator(Strip(q)), ";") THEN Err("multi-query statement not supported")
  ELSE AlterTokens(SplitWords(DropTerminator(Strip(q))), dbName, repl)

-----------------------------------------------------------------------------
(* MySQL: the statement and what it means                                  *)

NoDb == [none |-> "db"]
None == [none |-> "call"]

\* An identifier as written: backquoted, or bare when it may be.
IdentText(id) == IF id.quoted THEN BackQuote \o id.name \o BackQuote ELSE id.name

RefText(st) == IF st.db = NoDb THEN IdentText(st.table) ELSE IdentText(st.db) \o "." \o IdentText(st.table)

\* The text of a statement: each sub-operation carries its text and its
\* meaning (the handler call it asks for, <<>> when it changes no column).
Render(st) ==
  st.kw \o " " \o RefText(st) \o " " \o Join([i \in DOMAIN st.ops |-> st.ops[i].text], ", ") \o st.term

\* The outcome the statement asks for (spec section 4.3, steps 1-4): the
\* table it names, in the session's database when unqualified, with the
\* source database aliased to the target and the filters applied.
Expected(st, dflt, repl) ==
  LET db == IF st.db = NoDb THEN dflt ELSE st.db.name
      d  == IF repl /\ db = Database THEN TargetDatabase ELSE db
  IN IF repl /\ ~(d \in IncludedDatabases /\ st.table.name \in IncludedTables) THEN Skip
     ELSE Calls(d, st.table.name, FoldLeft(LAMBDA acc, o : acc \o o.call, <<>>, st.ops))

-----------------------------------------------------------------------------
(* The specification: one call per behaviour, as calls share no state.     *)

Init ==
  /\ stmt = NoDb
  /\ query = ""
  /\ dbArg = ""
  /\ replicator = FALSE
  /\ result = None

Translate(st, d, repl) ==
  /\ stmt' = st
  /\ query' = Render(st)
  /\ dbArg' = d
  /\ replicator' = repl
  /\ result' = ConvertAlterQuery(Render(st), d, repl)

Next == result = None /\ \E st \in Statements, d \in DbArgs, repl \in BOOLEAN : Translate(st, d, repl)

Spec == Init /\ [][Next]_vars

-----------------------------------------------------------------------------
(* Properties                                                              *)

\* A single, valid ALTER reaches exactly the handler calls of the table
\* it names (resolved in the session database, aliased and filtered), with
\* the sub-operations it holds, cut at the top-level commas only.  A skip,
\* a call on another table or an exception would lose, misplace or reject
\* the ALTER (__basic_validate_query, get_db_and_table_name and the
\* dispatch loop of convert_alter_query).
TranslatesStatement == result # None => result = Expected(stmt, dbArg, replicator)
=============================================================================
