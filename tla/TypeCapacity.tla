---------------------------- MODULE TypeCapacity ----------------------------
(***************************************************************************)
(* convert_type against the ranges of the MySQL types it maps: a column's  *)
(* ClickHouse type must hold every value the MySQL column can hold.  The   *)
(* MySQL side is MySQL's documented range of each type; the ClickHouse     *)
(* side is read off the type convert_type returns.  Each step maps one     *)
(* declaration.                                                            *)
(***************************************************************************)
EXTENDS TypeMapper

CONSTANTS
  IntBases,     \* MySQL integer type names
  DisplayWidths, \* display widths written after them, "" for none
  IntParams,    \* column parameters (the modifiers after the type)
  Precisions,   \* NUMERIC precisions
  Scales,       \* NUMERIC scales
  EnumSizes     \* numbers of ENUM labels

VARIABLES
  decl,         \* the declaration being converted: [type, params, need]
  chType        \* what convert_type returned for it

vars == <<decl, chType>>

-----------------------------------------------------------------------------
(* MySQL: the declarations and the values they hold.                       *)

\* The storage bits of MySQL's integer types.
MySQLIntBits == [tinyint |-> 8, smallint |-> 16, mediumint |-> 24,
                 int |-> 32, integer |-> 32, bigint |-> 64]

\* What a column must be able to store: an integer range (bits, and
\* whether negatives occur), a number of integer and fractional decimal
\* digits, or a number of enum ordinals.
IntNeed(bits, unsigned) == [kind |-> "int", bits |-> bits, unsigned |-> unsigned]
DecNeed(p, s, unsigned) == [kind |-> "dec", int |-> p - s, frac |-> s, unsigned |-> unsigned]
EnumNeed(n) == [kind |-> "enum", labels |-> n]

Decl(type, params, need) == [type |-> type, params |-> params, need |-> need]

IntDecls ==
  {Decl(b \o w, p, IntNeed(MySQLIntBits[b], HasSub(p, "unsigned"))) :
     b \in IntBases, w \in DisplayWidths, p \in IntParams}

\* NUMERIC(p,s) with s <= p (MySQL rejects a larger scale), with and
\* without a space after the comma, and bare NUMERIC, which MySQL reads
\* as NUMERIC(10,0).
NumericDecls ==
  {Decl("numeric(" \o ToString(p) \o sep \o ToString(s) \o ")", u, DecNeed(p, s, u = "unsigned")) :
     <<p, s>> \in {ps \in Precisions \X Scales : ps[2] <= ps[1]}, sep \in {",", ", "}, u \in {"", "unsigned"}}
  \cup {Decl("numeric", u, DecNeed(10, 0, u = "unsigned")) : u \in {"", "unsigned"}}

\* The text s repeated n times, built by halving n.
RECURSIVE Repeat(_, _)
Repeat(s, n) ==
  IF n = 0 THEN ""
  ELSE LET half == Repeat(s, n \div 2)
       IN half \o half \o (IF n % 2 = 1 THEN s ELSE "")

\* n quoted labels separated by commas.
Labels(n) == Repeat("'x',", n - 1) \o "'x'"

EnumDecls == {Decl("enum(" \o Labels(n) \o ")", "", EnumNeed(n)) : n \in EnumSizes}

Declarations == IntDecls \cup NumericDecls \cup EnumDecls

-----------------------------------------------------------------------------
(* ClickHouse: what a type holds.                                          *)

\* ClickHouse integer types: bits and signedness; and the decimal digits
\* every value of the type's range has room for (floor(log10(2^bits))
\* for unsigned, of 2^(bits-1) for signed).
CHInts == [Int8 |-> [bits |-> 8, signed |-> TRUE, digits |-> 2],
           Int16 |-> [bits |-> 16, signed |-> TRUE, digits |-> 4],
           Int32 |-> [bits |-> 32, signed |-> TRUE, digits |-> 9],
           Int64 |-> [bits |-> 64, signed |-> TRUE, digits |-> 18],
           UInt8 |-> [bits |-> 8, signed |-> FALSE, digits |-> 2],
           UInt16 |-> [bits |-> 16, signed |-> FALSE, digits |-> 4],
           UInt32 |-> [bits |-> 32, signed |-> FALSE, digits |-> 9],
           UInt64 |-> [bits |-> 64, signed |-> FALSE, digits |-> 19]]

\* Enum8 numbers its values in -128..127, Enum16 in -32768..32767.
CHEnumMax == [Enum8 |-> 127, Enum16 |-> 32767]

IsCHInt(t) == t \in DOMAIN CHInts

\* An integer type holds a MySQL integer range.
IntHolds(c, need) ==
  IF need.unsigned THEN (~c.signed /\ c.bits >= need.bits) \/ (c.signed /\ c.bits > need.bits)
  ELSE c.signed /\ c.bits >= need.bits

\* The decimal type text convert_type builds.
DecimalText(p, s) == "Decimal(" \o ToString(p) \o ", " \o ToString(s) \o ")"

\* The type t holds every value of the column that needs need.
Holds(t, need) ==
  CASE need.kind = "int" -> IsCHInt(t) /\ IntHolds(CHInts[t], need)
    [] need.kind = "dec" /\ IsCHInt(t) ->
         need.frac = 0 /\ CHInts[t].digits >= need.int /\ (CHInts[t].signed \/ need.unsigned)
    [] need.kind = "dec" /\ ~IsCHInt(t) ->
         \E p \in need.int + need.frac .. 65, s \in need.frac .. 30 :
            p - s >= need.int /\ t = DecimalText(p, s)
    [] need.kind = "enum" ->
         \E e \in DOMAIN CHEnumMax : StartsWith(t, e \o "(") /\ need.labels <= CHEnumMax[e]

-----------------------------------------------------------------------------
(* The specification.                                                      *)

None == Decl("", "", EnumNeed(0))

Init == decl = None /\ chType = ""

\* convert_type maps one declaration.
Convert(d) == decl' = d /\ chType' = ConvertType(d.type, d.params)

Next == decl = None /\ \E d \in Declarations : Convert(d)

Spec == Init /\ [][Next]_vars

\* Every integer, NUMERIC and ENUM type MySQL accepts is mapped, and to a
\* ClickHouse type that holds every value of the column: the rules of
\* convert_type for the integer widths, the NUMERIC precision thresholds
\* 9 and 18 (lines 220-232) and the Enum8/Enum16 label bound 127 (line 291)
\* never narrow a column.
NoNarrowing == decl # None => chType # Raised /\ Holds(chType, decl.need)
=============================================================================
