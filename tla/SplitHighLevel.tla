---------------------------- MODULE SplitHighLevel ----------------------------
(***************************************************************************)
(* split_high_level of converter.py, which cuts the text after            *)
(* "ALTER TABLE <name>" into its sub-operations at the commas outside     *)
(* parentheses.  The splitter is a pure function; QueryFront applies it  *)
(* to the ALTER texts it renders and checks that the handler calls that   *)
(* result are the ones the statement's sub-operations ask for.            *)
(***************************************************************************)
EXTENDS SqlText

\* Mutation of SplitHighLevel: every token cuts, whatever the depth.
SplitHighLevelAnyDepth(data, token) ==
  LET cuts   == SetToSortSeq({i \in 1 .. Len(data) : Char(data, i) = token}, <)
      from   == <<0>> \o cuts
      pieces == [k \in 1 .. Len(cuts) |-> Strip(SubSeq(data, from[k] + 1, cuts[k] - 1))]
      rest   == SubSeq(data, from[Len(from)] + 1, Len(data))
  IN IF rest # "" THEN Append(pieces, Strip(rest)) ELSE pieces

\* split_high_level.  Its loop keeps level, the parenthesis depth, which
\* nothing resets: at position i it is the number of "(" before i minus
\* the number of ")" before i.  The loop cuts at every token met at level
\* 0, stripping the piece collected since the previous cut, and appends
\* the text after the last cut, stripped, when it is not empty.
SplitHighLevel(data, token) ==
  LET count(c, i) == Cardinality({j \in 1 .. i - 1 : Char(data, j) = c})
      level(i)    == count("(", i) - count(")", i)
      cuts        == SetToSortSeq({i \in 1 .. Len(data) :
                                     Char(data, i) = token /\ level(i) = 0}, <)
      from        == <<0>> \o cuts
      pieces      == [k \in 1 .. Len(cuts) |-> Strip(SubSeq(data, from[k] + 1, cuts[k] - 1))]
      rest        == SubSeq(data, from[Len(from)] + 1, Len(data))
  IN IF rest # "" THEN Append(pieces, Strip(rest)) ELSE pieces


=============================================================================
