----------------------------- MODULE MCReadPath -----------------------------
(* Values of the constants of ReadPath for TLC, and a claim of a comment   *)
(* that the code does not keep.                                            *)
EXTENDS ReadPath, TLC

CONSTANTS w1, w2, p, q, a, b, s1, s2

\* p refers to q, as a post to its author.
MCRefTo == [e \in Entries |-> IF e = p /\ q \in Entries THEN q ELSE None]

\* "Build a JSON response with an ETag derived from the body, returning 304 if
\* the client already has a matching version": between requests that did not
\* overlap, a cached tag is that of the response it stands for.
TagsFollowResponses ==
  \A e \in Entries :
    /\ etags[e] # None /\ docs[e] # NoDoc /\ Readable(schema)
    /\ edits = 0 /\ late = {} /\ contended = {}
    /\ \A w \in Workers : At(w, "idle")
    => etags[e] = [body |-> docs[e], schema |-> schema,
                   with |-> IF RefTo[e] = None THEN NoDoc ELSE cache[RefTo[e]]]
=============================================================================
