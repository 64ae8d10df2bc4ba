--------------------------- MODULE MCContentStore ---------------------------
(* Values of the constants of ContentStore for TLC.                        *)
EXTENDS ContentStore, TLC

CONSTANTS w1, w2, e1, e2, a, b, k1, h1, h2

\* Entries compete for one key, which b may lack; b also lacks a
\* required-if-published field; a and b refer to different uploads.
MCKeyOf == [x \in Bodies |-> IF x = a THEN k1 ELSE NoKey]
MCOneKey == [x \in Bodies |-> k1]
MCUploadsOf == [x \in Bodies |-> IF x = a THEN {h1} ELSE {h2}]
MCComplete == {a}

MCInitialDocs == {[body |-> a, status |-> "published"],
                  [body |-> b, status |-> "unset"]}

\* For the run of two entries: the documents there before the first request.
MCOneInitialDoc == {[body |-> b, status |-> "unset"]}

Symmetry == Permutations(Workers) \union Permutations(Ids)
=============================================================================
