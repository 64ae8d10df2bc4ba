------------------------------- MODULE Search -------------------------------
(***************************************************************************)
(* The full-text search of content/mod.rs: which documents contain a text. *)
(* A text contains the query if it is the query; fields whose names begin  *)
(* with an underscore are not searched, nor is what is nested too deep.    *)
(***************************************************************************)
EXTENDS Documents

CONSTANT MaxNesting  \* MAX_NESTING_DEPTH of a search

Internal(key) == key \in {Field("_id"), Field("_status")}

RECURSIVE MatchesQuery(_, _, _)
MatchesQuery(v, q, depth) ==
  /\ depth =< MaxNesting
  /\ \/ v = q
     \/ \E p \in Pairs(v) : ~Internal(p[1]) /\ MatchesQuery(p[2], q, depth + 1)

\* What a search should look at: the values without parts, as far down as the
\* nesting allows.
Below(v) == {p[2] : p \in {x \in Pairs(v) : ~Internal(x[1])}}
RECURSIVE Leaves(_, _)
Leaves(v, depth) ==
  IF Pairs(v) = {} THEN {v}
  ELSE IF depth = 0 THEN {} ELSE UNION {Leaves(x, depth - 1) : x \in Below(v)}

\* The search finds a text in a document exactly if it is one of its leaves.
SearchFinds(documents, texts) ==
  \A d \in documents, q \in texts :
    MatchesQuery(d, q, 0) <=> q \in Leaves(d, MaxNesting)
=============================================================================
