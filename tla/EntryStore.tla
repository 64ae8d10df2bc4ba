----------------------------- MODULE EntryStore -----------------------------
(***************************************************************************)
(* What the content store of one collection promises for an entry that no  *)
(* two requests work on at once: it is a register.  A request takes effect *)
(* at most once, in one step, and its effect is the one it asked for: a    *)
(* save replaces the document and keeps the status it finds unless it      *)
(* names one, publishing and unpublishing change the status and nothing    *)
(* else, a delete leaves no document.  A crash loses the requests in       *)
(* progress, and the document of an entry that was just being replaced.    *)
(* A published document is complete.                                       *)
(*                                                                         *)
(* Nothing is promised for an entry that two requests ever worked on at    *)
(* once (contended), and an entry put back to a version that had no status *)
(* (unchecked) may be published without being complete.                    *)
(***************************************************************************)
CONSTANTS
  Ids, Bodies, Statuses,
  Complete,   \* bodies that may be published
  None        \* no document, no request

VARIABLES
  store,      \* the document of each entry, or None
  pending,    \* the request that works on each entry, or None
  contended, unchecked

vars == <<store, pending, contended, unchecked>>

Doc == [body : Bodies, status : Statuses]

\* The status a save gives to the document it puts in the place of file.
Kept(explicit, file) ==
  IF explicit # "none" THEN explicit
  ELSE IF file \in Doc /\ file.status # "unset" THEN file.status
  ELSE "draft"

CompleteIfPublished(doc) == doc.status = "published" => doc.body \in Complete

Init ==
  /\ store \in [Ids -> Doc \union {None}]
  /\ \A id \in Ids : store[id] # None => CompleteIfPublished(store[id])
  /\ pending = [id \in Ids |-> None]
  /\ contended = {} /\ unchecked = {}

\* What may be asked of an entry.
Requests ==
  [op : {"create", "update", "revert"}, body : Bodies,
   explicit : {"none", "draft", "published"}, done : {FALSE}]
  \union
  [op : {"publish", "unpublish", "delete"}, body : {None},
   explicit : {"none"}, done : {FALSE}]

Request(id) ==
  /\ pending[id] = None /\ id \notin contended
  /\ \E r \in Requests : pending' = [pending EXCEPT ![id] = r]
  /\ UNCHANGED <<store, contended, unchecked>>

Effect(id) ==
  /\ ~pending[id].done
  /\ pending' = [pending EXCEPT ![id].done = TRUE]
  /\ UNCHANGED contended

Save(id) ==
  LET p == pending[id]
      file == IF p.op = "create" THEN None ELSE store[id]
      doc == [body |-> p.body, status |-> Kept(p.explicit, file)]
  IN  /\ p # None /\ p.op \in {"create", "update", "revert"}
      /\ Effect(id)
      /\ store' = [store EXCEPT ![id] = doc]
      /\ IF p.op = "revert" /\ p.explicit = "none"
         THEN unchecked' = unchecked \union {id}
         ELSE /\ id \in unchecked \/ CompleteIfPublished(doc)
              /\ UNCHANGED unchecked

SetStatus(id, op, status) ==
  /\ pending[id] # None /\ pending[id].op = op
  /\ store[id] \in Doc
  /\ Effect(id)
  /\ store' = [store EXCEPT ![id].status = status]
  /\ id \in unchecked \/ CompleteIfPublished(store'[id])
  /\ UNCHANGED unchecked

Delete(id) ==
  /\ pending[id] # None /\ pending[id].op = "delete"
  /\ Effect(id)
  /\ store' = [store EXCEPT ![id] = None]
  /\ UNCHANGED unchecked

\* The request is answered, refused if it had no effect.
Respond(id) ==
  /\ pending[id] # None
  /\ pending' = [pending EXCEPT ![id] = None]
  /\ UNCHANGED <<store, contended, unchecked>>

\* A second request starts on the entry.
Contend(id) ==
  /\ pending[id] # None
  /\ pending' = [pending EXCEPT ![id] = None]
  /\ contended' = contended \union {id}
  /\ UNCHANGED <<store, unchecked>>

\* Anything may happen to a contended entry, at any time.
Disturb(id) ==
  /\ id \in contended
  /\ \E file \in Doc \union {None} : store' = [store EXCEPT ![id] = file]
  /\ unchecked' \in {unchecked, unchecked \union {id}}
  /\ UNCHANGED <<pending, contended>>

Crash ==
  /\ pending' = [id \in Ids |-> None]
  /\ \E lost \in SUBSET {id \in Ids :
                           \/ id \in contended
                           \/ /\ pending[id] # None
                              /\ pending[id].done} :
       store' = [id \in Ids |-> IF id \in lost THEN None ELSE store[id]]
  /\ UNCHANGED <<contended, unchecked>>

Next ==
  \/ \E id \in Ids :
       \/ Request(id)
       \/ Save(id) \/ Delete(id)
       \/ SetStatus(id, "publish", "published")
       \/ SetStatus(id, "unpublish", "draft")
       \/ Respond(id) \/ Contend(id) \/ Disturb(id)
  \/ Crash

Spec == Init /\ [][Next]_vars
=============================================================================
