------------------------------- MODULE SqlText -------------------------------
(***************************************************************************)
(* The Python str operations converter.py applies to SQL text, on TLA+    *)
(* strings (TLC treats a string as a sequence of 1-character strings).     *)
(***************************************************************************)
EXTENDS Integers, SequencesExt


Char(s, i) == SubSeq(s, i, i)

HasSub(s, t) == \E i \in 0 .. (Len(s) - Len(t)) : SubSeq(s, i + 1, i + Len(t)) = t

StartsWith(s, p) == IsPrefix(p, s)

Upper == "ABCDEFGHIJKLMNOPQRSTUVWXYZ"
LowerLetters == "abcdefghijklmnopqrstuvwxyz"

\* The function from each character of the string "from" to the character
\* at the same position of the string "to".
CharMap(from, to) ==
  [c \in {Char(from, i) : i \in 1 .. Len(from)} |->
     Char(to, CHOOSE i \in 1 .. Len(from) : Char(from, i) = c)]

ToLowerMap == CharMap(Upper, LowerLetters)
ToUpperMap == CharMap(LowerLetters, Upper)

\* s with every character in the domain of map replaced by its image
MapChars(s, map) ==
  LET mapped(c) == IF c \in DOMAIN map THEN map[c] ELSE c
      acc[i \in 0 .. Len(s)] == IF i = 0 THEN "" ELSE acc[i - 1] \o mapped(Char(s, i))
  IN acc[Len(s)]

\* str.lower() and str.upper()
Lower(s) == MapChars(s, ToLowerMap)
UpperCase(s) == MapChars(s, ToUpperMap)

\* str.replace(old, new): every non-overlapping occurrence, left to right
RECURSIVE Replace(_, _, _)
Replace(s, old, new) ==
  IF Len(s) < Len(old) THEN s
  ELSE IF StartsWith(s, old)
       THEN new \o Replace(SubSeq(s, Len(old) + 1, Len(s)), old, new)
       ELSE Char(s, 1) \o Replace(SubSeq(s, 2, Len(s)), old, new)

\* sep.join(words)
Join(words, sep) ==
  LET acc[i \in 0 .. Len(words)] ==
        IF i = 0 THEN "" ELSE IF i = 1 THEN words[1] ELSE acc[i - 1] \o sep \o words[i]
  IN acc[Len(words)]

Digits == "0123456789"
IsDigit(c) == HasSub(Digits, c) /\ Len(c) = 1

\* Length of the longest prefix of s whose characters satisfy P.
SpanLen(s, P(_)) ==
  CHOOSE k \in 0 .. Len(s) : /\ \A i \in 1 .. k : P(Char(s, i))
                             /\ k < Len(s) => ~P(Char(s, k + 1))

\* int() of a non-empty string of decimal digits
ToNat(d) ==
  LET val[i \in 0 .. Len(d)] ==
        IF i = 0 THEN 0
        ELSE 10 * val[i - 1] + (CHOOSE v \in 0 .. 9 : Char(Digits, v + 1) = Char(d, i))
  IN val[Len(d)]

\* The number of spaces ending r.
TrailingSpaces(r) ==
  CHOOSE k \in 0 .. Len(r) : /\ \A i \in Len(r) - k + 1 .. Len(r) : Char(r, i) = " "
                             /\ k < Len(r) => Char(r, Len(r) - k) # " "

\* str.strip() of r when r has no leading spaces
StripTrailing(r) == SubSeq(r, 1, Len(r) - TrailingSpaces(r))

\* str.strip() for the space character
Strip(s) == StripTrailing(SubSeq(s, SpanLen(s, LAMBDA c : c = " ") + 1, Len(s)))

\* SQL quotes identifiers with the backquote, a character TLA+ strings
\* cannot hold; the double quote, which no identifier of the models
\* contains, stands
\* for it.
BackQuote == "\""

\* Mutation of StripSqlName: the backquotes are left on the name.
StripSqlNameKeepQuotes(name) == name

\* strip_sql_name (the words carry no surrounding whitespace)
StripSqlName(name) ==
  LET a == IF StartsWith(name, BackQuote) THEN SubSeq(name, 2, Len(name)) ELSE name
  IN IF a # "" /\ Char(a, Len(a)) = BackQuote THEN SubSeq(a, 1, Len(a) - 1) ELSE a

=============================================================================
