----------------------------- MODULE Documents -----------------------------
(***************************************************************************)
(* JSON documents, as the forms and the listings take them apart.  A value *)
(* is a pair of a kind and its contents.  The contents of an object or of  *)
(* an array are a set of pairs <<key, value>>: a key is Field("title") or  *)
(* Item(0), so that a path into a document, or the name of an input of a   *)
(* form such as items[0].image, is a sequence of keys.                     *)
(***************************************************************************)
EXTENDS Naturals, Sequences, FiniteSets

Field(name) == <<"field", name>>
Item(i) == <<"item", i>>
IsItem(key) == key[1] = "item"

Null == <<"null">>
Text(s) == <<"text", s>>
Number(n) == <<"number", n>>
Bool(b) == <<"bool", b>>
Upload(f) == <<"upload", f>>
Richtext(r) == <<"richtext", r>>
Object(pairs) == <<"object", pairs>>
Array(pairs) == <<"array", pairs>>

ArrayOf(values) == Array({<<Item(i - 1), values[i]>> : i \in DOMAIN values})
ObjectOf(rec) == Object({<<Field(f), rec[f]>> : f \in DOMAIN rec})

Pairs(v) == IF v[1] \in {"object", "array"} THEN v[2] ELSE {}
Keys(v) == {p[1] : p \in Pairs(v)}
Get(v, key) ==
  IF key \in Keys(v) THEN (CHOOSE p \in Pairs(v) : p[1] = key)[2] ELSE Null
Put(v, key, x) == <<v[1], {p \in Pairs(v) : p[1] # key} \union {<<key, x>>}>>

\* What a key is a key of: an empty object or an empty array.
EmptyFor(key) == IF IsItem(key) THEN Array({}) ELSE Object({})

WithoutNulls(pairs) == {p \in pairs : p[2] # Null}

\* An array whose items keep their order and are numbered from 0.
Renumber(pairs) ==
  Array({<<Item(Cardinality({q \in pairs : q[1][2] < p[1][2]})), p[2]>> :
           p \in pairs})
=============================================================================
