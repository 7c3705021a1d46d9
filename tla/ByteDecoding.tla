----------------------------- MODULE ByteDecoding -----------------------------
(***************************************************************************)
(* convert_bytes (converter.py 62-80) and the json branch of              *)
(* convert_record that calls it (399-401): a MySQL JSON column reaches    *)
(* ClickHouse as the json.dumps text of the document.  The binlog driver  *)
(* may yield the keys and strings of the document as bytes and its arrays *)
(* as lists or tuples; convert_bytes decodes the bytes so that json.dumps *)
(* accepts the value.                                                     *)
(*                                                                         *)
(* Python values are records tagged with their type: [int |-> n],        *)
(* [str |-> s], [bytes |-> s] (s the utf-8 text the bytes encode),        *)
(* [list |-> seq], [tuple |-> seq] and [dict |-> seq] (the items, in      *)
(* insertion order, as <<key, value>> pairs).                             *)
(***************************************************************************)
EXTENDS Integers, SequencesExt

CONSTANTS
  Documents,    \* JSON documents as json.loads gives them (str keys and strings, lists)
  Raised        \* model value: an exception

VARIABLES
  doc,          \* the document MySQL holds (ghost)
  value,        \* what the driver yields for it (mysql_field_value)
  out           \* the value convert_record passes on, or Raised

vars == <<doc, value, out>>

None == [none |-> TRUE]

Tag(v) == CHOOSE t \in DOMAIN v : TRUE

-----------------------------------------------------------------------------
(* The code                                                                *)

\* new_obj[new_key] = new_value: a key already present keeps its place
\* and takes the new value.
PutKey(items, k, v) ==
  IF \E i \in DOMAIN items : items[i][1] = k
  THEN [items EXCEPT ![CHOOSE i \in DOMAIN items : items[i][1] = k] = <<k, v>>]
  ELSE Append(items, <<k, v>>)

\* Mutation of DecodeKey: a bytes key is kept.
DecodeKeyKept(k) == k

\* k.decode('utf-8') if isinstance(k, bytes) else k
DecodeKey(k) == IF Tag(k) = "bytes" THEN [str |-> k.bytes] ELSE k

\* convert_bytes: keys of a dict decoded, values, list and tuple items
\* converted, the container's type kept; bytes decoded; anything else
\* (int, str, and any other container) returned as it is.
RECURSIVE ConvertBytes(_)
ConvertBytes(obj) ==
  CASE Tag(obj) = "dict" ->
         [dict |-> FoldLeft(LAMBDA acc, kv : PutKey(acc, kv[1], kv[2]), <<>>,
                            [i \in DOMAIN obj.dict |-> <<DecodeKey(obj.dict[i][1]),
                                                        ConvertBytes(obj.dict[i][2])>>])]
    [] Tag(obj) = "list" -> [list |-> [i \in DOMAIN obj.list |-> ConvertBytes(obj.list[i])]]
    [] Tag(obj) = "tuple" -> [tuple |-> [i \in DOMAIN obj.tuple |-> ConvertBytes(obj.tuple[i])]]
    [] Tag(obj) = "bytes" -> [str |-> obj.bytes]
    [] Tag(obj) \notin {"dict", "list", "tuple", "bytes"} -> obj

\* json.dumps, as the structure of the text it writes: a tuple is written
\* as an array, keys must be str or int (written as strings), bytes raise
\* TypeError.
RECURSIVE Dumps(_)
Dumps(v) ==
  LET items == IF Tag(v) = "dict" THEN v.dict ELSE <<>>
      elems == IF Tag(v) \in {"list", "tuple"} THEN v[Tag(v)] ELSE <<>>
      parts == [i \in DOMAIN elems |-> Dumps(elems[i])]
      keys  == [i \in DOMAIN items |-> items[i][1]]
      vals  == [i \in DOMAIN items |-> Dumps(items[i][2])]
  IN CASE Tag(v) \in {"int", "str"} -> v
       [] Tag(v) \in {"list", "tuple"} ->
            IF \E i \in DOMAIN parts : parts[i] = Raised THEN Raised ELSE [array |-> parts]
       [] Tag(v) = "dict" ->
            IF \E i \in DOMAIN items : Tag(keys[i]) \notin {"str", "int"} \/ vals[i] = Raised
            THEN Raised
            ELSE [object |-> [i \in DOMAIN items |-> <<keys[i], vals[i]>>]]
       [] Tag(v) \notin {"int", "str", "list", "tuple", "dict"} -> Raised

\* The json branch of convert_record for a json column mapped to String.
ConvertJson(v) == IF Tag(v) = "str" THEN v ELSE Dumps(ConvertBytes(v))

-----------------------------------------------------------------------------
(* The driver: every key or string may come as bytes, every array as a     *)
(* list or a tuple.                                                        *)

RECURSIVE Product(_)
Product(ss) == IF ss = <<>> THEN {<<>>} ELSE {<<x>> \o r : x \in Head(ss), r \in Product(Tail(ss))}

RECURSIVE Driver(_)
Driver(d) ==
  CASE Tag(d) = "str" -> {d, [bytes |-> d.str]}
    [] Tag(d) = "int" -> {d}
    [] Tag(d) = "list" ->
         UNION {{[list |-> e], [tuple |-> e]} : e \in Product([i \in DOMAIN d.list |-> Driver(d.list[i])])}
    [] Tag(d) = "dict" ->
         {[dict |-> e] : e \in Product([i \in DOMAIN d.dict |->
                                         {<<k, v>> : k \in Driver(d.dict[i][1]), v \in Driver(d.dict[i][2])}])}

-----------------------------------------------------------------------------
(* The specification: one value per behaviour.                            *)

Init == doc = None /\ value = None /\ out = None

Convert(d, v) == doc' = d /\ value' = v /\ out' = ConvertJson(v)

Next == out = None /\ \E d \in Documents : \E v \in Driver(d) : Convert(d, v)

Spec == Init /\ [][Next]_vars

\* Whatever form the driver yields a document in, the text written to
\* ClickHouse is the json.dumps text of the document itself: every bytes
\* key and string is decoded, tuples are written as arrays, nothing raises
\* (convert_bytes and the json branch of convert_record).
DocumentRecovered == out # None => out = Dumps(doc)
=============================================================================
