--------------------------- MODULE ReadPath_proofs ---------------------------
(***************************************************************************)
(* Proofs about ReadPath: the tags and the content cache follow the        *)
(* documents, whatever requests overlap and whatever is edited by hand.    *)
(***************************************************************************)
EXTENDS ReadPath, TLAPS

\* The steps of a worker, and what its job may hold.
Labels == {"idle", "read", "embed", "tag", "insertTag", "write", "removeTag",
           "reload", "insert", "unlink", "uncache", "unpack", "clearCache",
           "clearTags", "list", "insertAll", "truncate", "writeSchema",
           "generate", "store"}
Job == [at : Labels, entry : Entries \union {None}, doc : MaybeDocs,
        with : MaybeDocs, schema : Schemas \union {Absent, Torn},
        docs : [Entries -> MaybeDocs], alone : BOOLEAN]

\* The requests about one entry, and what a job holds at each of its steps.
OneEntry == {"read", "embed", "tag", "insertTag", "write", "removeTag",
             "reload", "insert", "unlink", "uncache"}
HoldsOK(j) ==
  /\ j.at \in OneEntry => j.entry \in Entries
  /\ j.at \notin OneEntry => j.entry = None
  /\ j.at \in {"read", "embed", "tag", "insertTag", "truncate", "writeSchema",
               "unpack"} => j.schema \in Schemas
  /\ j.at \in {"embed", "tag", "insertTag"} => j.doc \in Bodies
  /\ j.at = "store" => j.schema \in Schemas \union {Absent}

\* TypeOK, with the type of job.
TypeInv ==
  /\ TypeOK
  /\ job \in [Workers -> Job]
  /\ \A w \in Workers : HoldsOK(job[w])

\* Two requests that change one entry contend it, and neither counts as alone.
AloneInv ==
  \A e \in Entries, u, v \in Workers :
    u # v /\ Mutating(u, e) /\ Mutating(v, e) => e \in contended /\ ~job[u].alone

\* What worker w has yet to bring into the cache for entry e.
OnTheWay(w, e) ==
  /\ At(w, "insert") => job[w].doc = docs[e]
  /\ At(w, "uncache") => docs[e] = NoDoc
  /\ At(w, "unlink") /\ e \notin contended => cache[e] = docs[e]
  /\ job[w].at \in {"clearTags", "list", "insertAll"} => cache[e] = NoDoc
  /\ At(w, "insertAll") /\ Readable(job[w].schema) => job[w].docs[e] = docs[e]

\* CacheAgrees, and what the requests that are changing an entry owe it.
CacheInv ==
  \A e \in Entries :
    /\ e \notin contended /\ (\A w \in Workers : ~Mutating(w, e)) =>
         cache[e] = docs[e]
    /\ \A w \in Workers :
         Mutating(w, e) /\ (e \notin contended \/ job[w].alone) => OnTheWay(w, e)

Inv == TypeInv /\ AloneInv /\ CacheInv /\ TagsFollowDocs

-----------------------------------------------------------------------------
\* A worker that has nothing to do is typed.
LEMMA IdleTyped == Idle \in Job /\ HoldsOK(Idle)
BY ReadPathAssumption DEF Idle, Job, Labels, NoDocs, MaybeDocs, HoldsOK,
   OneEntry

\* What reading an entry does to the request.
LEMMA ReadEntryMoves ==
  ASSUME TypeInv, NEW w \in Workers, ReadEntry(w)
  PROVE  /\ job[w].at = "read" /\ job'[w].at \in {"idle", "embed"}
         /\ \A v \in Workers \ {w} : job'[v] = job[v]
         /\ UNCHANGED <<disk, cache, etags, openapi, watch, pending, history, bounds>>
<1>1. job[w] \in Job /\ job[w].at = "read"
  BY DEF ReadEntry, At, TypeInv
<1>2. CASE docs[job[w].entry] = NoDoc
  <2>1. job' = [job EXCEPT ![w] = Idle]
    BY <1>2 DEF ReadEntry, Answer
  <2> QED
    BY <1>1, <2>1 DEF ReadEntry, Idle, TypeInv
<1>3. CASE docs[job[w].entry] # NoDoc
  <2>1. job' = [job EXCEPT ![w] = [job[w] EXCEPT !.at = "embed",
                                                 !.doc = docs[job[w].entry]]]
    BY <1>3 DEF ReadEntry
  <2>2. job'[w] = [job[w] EXCEPT !.at = "embed", !.doc = docs[job[w].entry]]
    BY <2>1 DEF TypeInv
  <2>3. job'[w].at = "embed"
    BY <1>1, <2>2 DEF Job
  <2> QED
    BY <1>1, <2>1, <2>3 DEF ReadEntry, TypeInv
<1> QED
  BY <1>2, <1>3

\* What TypeOK says of the workers, from the type of job.
LEMMA JobsTyped ==
  ASSUME job' \in [Workers -> Job]
  PROVE  \A w \in Workers :
           /\ job'[w].entry \in Entries \union {None}
           /\ job'[w].doc \in MaybeDocs /\ job'[w].with \in MaybeDocs
           /\ job'[w].schema \in Schemas \union {Absent, Torn}
           /\ job'[w].docs \in [Entries -> MaybeDocs]
           /\ job'[w].alone \in BOOLEAN
<1> SUFFICES ASSUME NEW w \in Workers, job'[w] \in Job
             PROVE  /\ job'[w].entry \in Entries \union {None}
                    /\ job'[w].doc \in MaybeDocs /\ job'[w].with \in MaybeDocs
                    /\ job'[w].schema \in Schemas \union {Absent, Torn}
                    /\ job'[w].docs \in [Entries -> MaybeDocs]
                    /\ job'[w].alone \in BOOLEAN
  OBVIOUS
<1> QED
  BY DEF Job

\* A step of one worker leaves every job typed.
LEMMA OneJob ==
  ASSUME TypeInv, NEW w \in Workers, NEW j \in Job, HoldsOK(j),
         job' = [job EXCEPT ![w] = j]
  PROVE  /\ job' \in [Workers -> Job]
         /\ \A v \in Workers : HoldsOK(job'[v])
BY DEF TypeInv

\* What TypeOK says of everything but the workers.
OthersTyped ==
  /\ docs \in [Entries -> MaybeDocs] /\ cache \in [Entries -> MaybeDocs]
  /\ clone \in [Entries -> MaybeDocs]
  /\ schema \in Schemas \union {Absent, Torn}
  /\ etags \in [Entries -> Tags \union {None}]
  /\ openapi \in Schemas \union {Absent, Empty}
  /\ pending \in BOOLEAN /\ raced \in BOOLEAN
  /\ watcher \in {"wait", "drain", "rebuild"}
  /\ late \subseteq Entries /\ contended \subseteq Entries
  /\ requests \in 0..MaxRequests /\ edits \in 0..MaxEdits

LEMMA StepTyped ==
  ASSUME TypeInv, NEW w \in Workers, NEW j \in Job, HoldsOK(j),
         job' = [job EXCEPT ![w] = j], OthersTyped'
  PROVE  TypeInv'
<1>1. job' \in [Workers -> Job] /\ \A v \in Workers : HoldsOK(job'[v])
  BY OneJob
<1> QED
  BY <1>1, JobsTyped DEF OthersTyped, TypeInv, TypeOK

\* A request that changes something leaves everything typed.
LEMMA ChangeTyped ==
  ASSUME TypeInv, NEW w \in Workers, NEW j \in Job, HoldsOK(j),
         NEW es \in SUBSET Entries, Change(w, j, es)
  PROVE  TypeInv'
<1> DEFINE others == {v \in Workers \ {w} : \E e \in es : Mutating(v, e)}
<1>1. \A v \in Workers : job'[v] = CASE v = w -> [j EXCEPT !.alone = others = {}]
                                     [] v \in others -> [job[v] EXCEPT !.alone = FALSE]
                                     [] OTHER -> job[v]
  BY DEF Change
<1>2. \A v \in Workers : job'[v] \in Job /\ HoldsOK(job'[v])
  <2> SUFFICES ASSUME NEW v \in Workers PROVE job'[v] \in Job /\ HoldsOK(job'[v])
    OBVIOUS
  <2>1. CASE v = w
    <3>1. PICK yes \in BOOLEAN : job'[v] = [j EXCEPT !.alone = yes]
      BY <1>1, <2>1
    <3> QED
      BY <3>1 DEF Job, HoldsOK
  <2>2. CASE v # w
    <3>1. job'[v] \in {job[v], [job[v] EXCEPT !.alone = FALSE]}
      BY <1>1, <2>2
    <3> QED
      BY <3>1 DEF TypeInv, Job, HoldsOK
  <2> QED
    BY <2>1, <2>2
<1>3. job' \in [Workers -> Job] /\ \A v \in Workers : HoldsOK(job'[v])
  BY <1>2 DEF Change
<1>4. contended' \subseteq Entries /\ requests' \in 0..MaxRequests
  BY ReadPathAssumption DEF Change, TypeInv, TypeOK
<1>5. UNCHANGED <<disk, cache, etags, openapi, watch, pending, late, raced, edits>>
  BY DEF Change
<1> QED
  BY <1>3, <1>4, <1>5, JobsTyped DEF TypeInv, TypeOK, disk, watch

\* Every action keeps the types.
LEMMA TypeInvStep == TypeInv /\ [Next]_vars => TypeInv'
<1> SUFFICES ASSUME TypeInv, [Next]_vars PROVE TypeInv'
  OBVIOUS
<1> USE DEF At, GoTo, Answer, Touch, Ask, Settle, vars, disk, watch, history, bounds
<1>1. CASE UNCHANGED vars
  BY <1>1 DEF TypeInv, TypeOK, HoldsOK
<1>2. ASSUME NEW w \in Workers, NEW e \in Entries, GetEntry(w, e)
      PROVE  TypeInv'
  <2> DEFINE j == [Idle EXCEPT !.at = "read", !.entry = e, !.schema = schema]
  <2>1. Idle \in Job /\ schema \in Schemas
    BY <1>2, IdleTyped DEF GetEntry, Readable
  <2>2. j \in Job /\ HoldsOK(j)
    BY <2>1, ReadPathAssumption DEF Job, Labels, HoldsOK, OneEntry
  <2>3. job' = [job EXCEPT ![w] = j]
    BY <1>2 DEF GetEntry
  <2>4. OthersTyped'
    BY <1>2 DEF GetEntry, OthersTyped, TypeInv, TypeOK
  <2> QED
    BY <2>2, <2>3, <2>4, StepTyped
<1>3. ASSUME NEW w \in Workers, NEW e \in Entries, DeleteEntry(w, e)
      PROVE  TypeInv'
  <2> DEFINE j == [Idle EXCEPT !.at = "unlink", !.entry = e]
  <2>1. j \in Job /\ HoldsOK(j) /\ {e} \subseteq Entries
    <3>1. j \in Job
      BY IdleTyped DEF Job, Labels, MaybeDocs
    <3>2. HoldsOK(j)
      BY IdleTyped DEF Job, HoldsOK, OneEntry
    <3> QED
      BY <3>1, <3>2
  <2>2. Change(w, j, {e})
    BY <1>3 DEF DeleteEntry
  <2> QED
    BY <2>1, <2>2, ChangeTyped
<1>4. ASSUME NEW w \in Workers, NEW e \in Entries, NEW b \in Bodies,
             SaveEntry(w, e, b)
      PROVE  TypeInv'
  <2> DEFINE j == [Idle EXCEPT !.at = "write", !.entry = e, !.doc = b]
  <2>1. j \in Job /\ HoldsOK(j) /\ {e} \subseteq Entries
    <3>1. j \in Job
      BY IdleTyped DEF Job, Labels, MaybeDocs
    <3>2. HoldsOK(j)
      BY IdleTyped DEF Job, HoldsOK, OneEntry
    <3> QED
      BY <3>1, <3>2
  <2>2. Change(w, j, {e})
    BY <1>4 DEF SaveEntry
  <2> QED
    BY <2>1, <2>2, ChangeTyped
<1>5. ASSUME NEW w \in Workers, NEW s \in Schemas, SaveSchema(w, s)
      PROVE  TypeInv'
  <2> DEFINE j == [Idle EXCEPT !.at = "truncate", !.schema = s]
  <2>1. job' = [job EXCEPT ![w] = j]
    BY <1>5 DEF SaveSchema, TypeInv, Job, Ask, GoTo, Answer
  <2>2. j \in Job /\ HoldsOK(j)
    BY <1>5, IdleTyped, ReadPathAssumption DEF SaveSchema, Populated, Ask,
       TypeInv, TypeOK, Job, Labels, HoldsOK, OneEntry, MaybeDocs, NoDocs,
       Readable, Listed, Idle, At
  <2>3. job' \in [Workers -> Job] /\ \A v \in Workers : HoldsOK(job'[v])
    BY <2>1, <2>2, OneJob DEF TypeInv
  <2> QED
    BY <1>5, <2>3, JobsTyped, ReadPathAssumption DEF SaveSchema, Ask, TypeInv,
       TypeOK
<1>6. ASSUME NEW w \in Workers, NEW ds \in [Entries -> MaybeDocs], NEW s \in Schemas,
             ImportBundle(w, ds, s)
      PROVE  TypeInv'
  <2> DEFINE j == [Idle EXCEPT !.at = "unpack", !.docs = ds, !.schema = s]
  <2>1. j \in Job /\ HoldsOK(j) /\ Entries \subseteq Entries
    BY <1>6, IdleTyped, ReadPathAssumption DEF Idle, TypeInv, TypeOK, Job,
       Labels, HoldsOK, OneEntry, MaybeDocs, NoDocs, Readable, Listed, Idle, At
  <2>2. Change(w, j, Entries)
    BY <1>6 DEF ImportBundle
  <2> QED
    BY <2>1, <2>2, ChangeTyped
<1>7. ASSUME NEW w \in Workers, DeleteSchema(w)
      PROVE  TypeInv'
  BY <1>7, ReadPathAssumption DEF DeleteSchema, TypeInv, TypeOK, Job, Labels,
     HoldsOK, OneEntry, MaybeDocs, NoDocs, Tags, Idle, Readable, Listed,
     Populated
<1>8. ASSUME NEW w \in Workers, OpenApiSpec(w)
      PROVE  TypeInv'
  <2> DEFINE j == [Idle EXCEPT !.at = "generate"]
  <2>1. job' = [job EXCEPT ![w] = j]
    BY <1>8 DEF OpenApiSpec, TypeInv, Job, Ask, GoTo, Answer
  <2>2. j \in Job /\ HoldsOK(j)
    BY <1>8, IdleTyped, ReadPathAssumption DEF OpenApiSpec, Populated, Ask,
       TypeInv, TypeOK, Job, Labels, HoldsOK, OneEntry, MaybeDocs, NoDocs,
       Readable, Listed, Idle, At
  <2>3. job' \in [Workers -> Job] /\ \A v \in Workers : HoldsOK(job'[v])
    BY <2>1, <2>2, OneJob DEF TypeInv
  <2> QED
    BY <1>8, <2>3, JobsTyped, ReadPathAssumption DEF OpenApiSpec, Ask, TypeInv,
       TypeOK
<1>9. ASSUME NEW w \in Workers, ReadEntry(w)
      PROVE  TypeInv'
  <2> DEFINE j == IF docs[job[w].entry] = NoDoc
                THEN Idle
                ELSE [job[w] EXCEPT !.at = "embed", !.doc = docs[job[w].entry]]
  <2>1. job[w] \in Job /\ HoldsOK(job[w]) /\ job[w].at = "read"
    BY <1>9 DEF ReadEntry, TypeInv
  <2>2. j \in Job /\ HoldsOK(j)
    <3>1. CASE docs[job[w].entry] = NoDoc
      BY <3>1, IdleTyped
    <3>2. CASE docs[job[w].entry] # NoDoc
      <4>1. docs[job[w].entry] \in Bodies
        BY <2>1, <3>2 DEF HoldsOK, OneEntry, MaybeDocs, TypeInv, TypeOK
      <4>2. j = [job[w] EXCEPT !.at = "embed", !.doc = docs[job[w].entry]]
        BY <3>2
      <4> QED
        BY <2>1, <4>1, <4>2 DEF Job, Labels, HoldsOK, OneEntry, MaybeDocs
    <3> QED
      BY <3>1, <3>2
  <2>3. job' = [job EXCEPT ![w] = j]
    BY <1>9 DEF ReadEntry
  <2>4. OthersTyped'
    BY <1>9, <2>1, ReadPathAssumption DEF ReadEntry, OthersTyped, TypeInv,
       TypeOK, HoldsOK, OneEntry, MaybeDocs, NoDocs
  <2> QED
    BY <2>2, <2>3, <2>4, StepTyped
<1>10. ASSUME NEW w \in Workers, ResolveReferences(w)
      PROVE  TypeInv'
  <2> DEFINE j == [job[w] EXCEPT !.at = "tag",
                 !.with = IF RefTo[job[w].entry] = None THEN NoDoc
                                             ELSE cache[RefTo[job[w].entry]]]
  <2>1. job' = [job EXCEPT ![w] = j]
    BY <1>10 DEF ResolveReferences, TypeInv, Job, Ask, GoTo, Answer
  <2>4. /\ job[w] \in Job /\ HoldsOK(job[w]) /\ job[w].at = "embed"
        /\ j.with \in MaybeDocs
    BY <1>10, ReadPathAssumption DEF ResolveReferences, TypeInv, TypeOK,
       HoldsOK, OneEntry, MaybeDocs, Job
  <2>2. j \in Job /\ HoldsOK(j)
    BY <2>4 DEF Job, HoldsOK, OneEntry, Labels
  <2>3. job' \in [Workers -> Job] /\ \A v \in Workers : HoldsOK(job'[v])
    BY <2>1, <2>2, OneJob DEF TypeInv
  <2> QED
    BY <1>10, <2>3, JobsTyped DEF ResolveReferences, Ask, TypeInv, TypeOK
<1>11. ASSUME NEW w \in Workers, LookUpTag(w)
      PROVE  TypeInv'
  <2> DEFINE j == IF etags[job[w].entry] = None
                THEN [job[w] EXCEPT !.at = "insertTag"] ELSE Idle
  <2>1. job[w] \in Job /\ HoldsOK(job[w]) /\ job[w].at = "tag"
    BY <1>11 DEF LookUpTag, TypeInv
  <2>2. j \in Job /\ HoldsOK(j)
    BY <2>1, IdleTyped, ReadPathAssumption DEF Job, Labels, HoldsOK, OneEntry,
       MaybeDocs
  <2>3. job' = [job EXCEPT ![w] = j]
    BY <1>11 DEF LookUpTag
  <2>4. OthersTyped'
    BY <1>11, <2>1, ReadPathAssumption DEF LookUpTag, OthersTyped, TypeInv,
       TypeOK, HoldsOK, OneEntry, MaybeDocs, NoDocs
  <2> QED
    BY <2>2, <2>3, <2>4, StepTyped
<1>12. ASSUME NEW w \in Workers, InsertTag(w)
      PROVE  TypeInv'
  <2>1. job[w] \in Job /\ HoldsOK(job[w]) /\ job[w].at = "insertTag"
    BY <1>12 DEF InsertTag, TypeInv
  <2>3. job' = [job EXCEPT ![w] = Idle]
    BY <1>12 DEF InsertTag
  <2>4. OthersTyped'
    BY <1>12, <2>1, ReadPathAssumption DEF InsertTag, OthersTyped, TypeInv,
       TypeOK, HoldsOK, OneEntry, MaybeDocs, NoDocs, Representation, Tags, Job
  <2> QED
    BY IdleTyped, <2>3, <2>4, StepTyped
<1>13. ASSUME NEW w \in Workers, WriteEntry(w)
      PROVE  TypeInv'
  <2> DEFINE j == [job[w] EXCEPT !.at = "removeTag"]
  <2>1. job[w] \in Job /\ HoldsOK(job[w]) /\ job[w].at = "write"
    BY <1>13 DEF WriteEntry, TypeInv
  <2>2. j \in Job /\ HoldsOK(j)
    BY <2>1, ReadPathAssumption DEF Job, Labels, HoldsOK, OneEntry, MaybeDocs
  <2>3. job' = [job EXCEPT ![w] = j]
    BY <1>13 DEF WriteEntry
  <2>4. OthersTyped'
    BY <1>13, <2>1, ReadPathAssumption DEF WriteEntry, OthersTyped, TypeInv,
       TypeOK, HoldsOK, OneEntry, MaybeDocs, NoDocs, Job
  <2> QED
    BY <2>2, <2>3, <2>4, StepTyped
<1>14. ASSUME NEW w \in Workers, RemoveTag(w)
      PROVE  TypeInv'
  <2> DEFINE j == [job[w] EXCEPT !.at = "reload"]
  <2>1. job[w] \in Job /\ HoldsOK(job[w]) /\ job[w].at = "removeTag"
    BY <1>14 DEF RemoveTag, TypeInv
  <2>2. j \in Job /\ HoldsOK(j)
    BY <2>1, ReadPathAssumption DEF Job, Labels, HoldsOK, OneEntry, MaybeDocs
  <2>3. job' = [job EXCEPT ![w] = j]
    BY <1>14 DEF RemoveTag
  <2>4. OthersTyped'
    BY <1>14, <2>1, ReadPathAssumption DEF RemoveTag, OthersTyped, TypeInv,
       TypeOK, HoldsOK, OneEntry, MaybeDocs, NoDocs
  <2> QED
    BY <2>2, <2>3, <2>4, StepTyped
<1>15. ASSUME NEW w \in Workers, ReloadRead(w)
      PROVE  TypeInv'
  <2> DEFINE j == [job[w] EXCEPT !.at = "insert", !.doc = docs[job[w].entry]]
  <2>1. job[w] \in Job /\ HoldsOK(job[w]) /\ job[w].at = "reload"
    BY <1>15 DEF ReloadRead, TypeInv
  <2>2. j \in Job /\ HoldsOK(j)
    BY <2>1, ReadPathAssumption DEF Job, Labels, HoldsOK, OneEntry, MaybeDocs,
       TypeInv, TypeOK
  <2>3. job' = [job EXCEPT ![w] = j]
    BY <1>15 DEF ReloadRead
  <2>4. OthersTyped'
    BY <1>15, <2>1, ReadPathAssumption DEF ReloadRead, OthersTyped, TypeInv,
       TypeOK, HoldsOK, OneEntry, MaybeDocs, NoDocs
  <2> QED
    BY <2>2, <2>3, <2>4, StepTyped
<1>16. ASSUME NEW w \in Workers, ReloadInsert(w)
      PROVE  TypeInv'
  <2>1. job[w] \in Job /\ HoldsOK(job[w]) /\ job[w].at = "insert"
    BY <1>16 DEF ReloadInsert, TypeInv
  <2>3. job' = [job EXCEPT ![w] = Idle]
    BY <1>16 DEF ReloadInsert
  <2>4. OthersTyped'
    BY <1>16, <2>1, ReadPathAssumption DEF ReloadInsert, OthersTyped, TypeInv,
       TypeOK, HoldsOK, OneEntry, MaybeDocs, NoDocs, Job
  <2> QED
    BY IdleTyped, <2>3, <2>4, StepTyped
<1>17. ASSUME NEW w \in Workers, Unlink(w)
      PROVE  TypeInv'
  <2> DEFINE j == IF docs[job[w].entry] = NoDoc
                THEN Idle ELSE [job[w] EXCEPT !.at = "uncache"]
  <2>1. job[w] \in Job /\ HoldsOK(job[w]) /\ job[w].at = "unlink"
    BY <1>17 DEF Unlink, TypeInv
  <2>2. j \in Job /\ HoldsOK(j)
    BY <2>1, IdleTyped, ReadPathAssumption DEF Job, Labels, HoldsOK, OneEntry,
       MaybeDocs, TypeInv, TypeOK
  <2>3. job' = [job EXCEPT ![w] = j]
    BY <1>17 DEF Unlink
  <2>4. OthersTyped'
    <3>1. CASE docs[job[w].entry] = NoDoc
      BY <1>17, <3>1 DEF Unlink, OthersTyped, TypeInv, TypeOK
    <3>2. CASE docs[job[w].entry] # NoDoc
      BY <1>17, <3>2 DEF Unlink, OthersTyped, TypeInv, TypeOK, MaybeDocs
    <3> QED
      BY <3>1, <3>2
  <2> QED
    BY <2>2, <2>3, <2>4, StepTyped
<1>18. ASSUME NEW w \in Workers, Uncache(w)
      PROVE  TypeInv'
  <2>1. job[w] \in Job /\ HoldsOK(job[w]) /\ job[w].at = "uncache"
    BY <1>18 DEF Uncache, TypeInv
  <2>3. job' = [job EXCEPT ![w] = Idle]
    BY <1>18 DEF Uncache
  <2>4. OthersTyped'
    BY <1>18, <2>1, ReadPathAssumption DEF Uncache, OthersTyped, TypeInv,
       TypeOK, HoldsOK, OneEntry, MaybeDocs, NoDocs
  <2> QED
    BY IdleTyped, <2>3, <2>4, StepTyped
<1>19. ASSUME NEW w \in Workers, Unpack(w)
      PROVE  TypeInv'
  <2> DEFINE j == [job[w] EXCEPT !.at = "clearCache"]
  <2>1. job[w] \in Job /\ HoldsOK(job[w]) /\ job[w].at = "unpack"
    BY <1>19 DEF Unpack, TypeInv
  <2>2. j \in Job /\ HoldsOK(j)
    BY <2>1, ReadPathAssumption DEF Job, Labels, HoldsOK, OneEntry, MaybeDocs
  <2>3. job' = [job EXCEPT ![w] = j]
    BY <1>19 DEF Unpack
  <2>4. OthersTyped'
    BY <1>19, <2>1, ReadPathAssumption DEF Unpack, OthersTyped, TypeInv,
       TypeOK, HoldsOK, OneEntry, MaybeDocs, NoDocs, Job
  <2> QED
    BY <2>2, <2>3, <2>4, StepTyped
<1>20. ASSUME NEW w \in Workers, ClearCache(w)
      PROVE  TypeInv'
  <2> DEFINE j == [job[w] EXCEPT !.at = "clearTags"]
  <2>1. job[w] \in Job /\ HoldsOK(job[w]) /\ job[w].at = "clearCache"
    BY <1>20 DEF ClearCache, TypeInv
  <2>2. j \in Job /\ HoldsOK(j)
    BY <2>1, ReadPathAssumption DEF Job, Labels, HoldsOK, OneEntry, MaybeDocs
  <2>3. job' = [job EXCEPT ![w] = j]
    BY <1>20 DEF ClearCache
  <2>4. OthersTyped'
    BY <1>20, <2>1, ReadPathAssumption DEF ClearCache, OthersTyped, TypeInv,
       TypeOK, HoldsOK, OneEntry, MaybeDocs, NoDocs
  <2> QED
    BY <2>2, <2>3, <2>4, StepTyped
<1>21. ASSUME NEW w \in Workers, ClearTags(w)
      PROVE  TypeInv'
  <2> DEFINE j == [job[w] EXCEPT !.at = "list"]
  <2>1. job[w] \in Job /\ HoldsOK(job[w]) /\ job[w].at = "clearTags"
    BY <1>21 DEF ClearTags, TypeInv
  <2>2. j \in Job /\ HoldsOK(j)
    BY <2>1, ReadPathAssumption DEF Job, Labels, HoldsOK, OneEntry, MaybeDocs
  <2>3. job' = [job EXCEPT ![w] = j]
    BY <1>21 DEF ClearTags
  <2>4. OthersTyped'
    BY <1>21, <2>1, ReadPathAssumption DEF ClearTags, OthersTyped, TypeInv,
       TypeOK, HoldsOK, OneEntry, MaybeDocs, NoDocs
  <2> QED
    BY <2>2, <2>3, <2>4, StepTyped
<1>22. ASSUME NEW w \in Workers, ListEntries(w)
      PROVE  TypeInv'
  <2> DEFINE j == [job[w] EXCEPT !.at = "insertAll", !.docs = Populated,
                                !.schema = schema]
  <2>1. job[w] \in Job /\ HoldsOK(job[w]) /\ job[w].at = "list"
    BY <1>22 DEF ListEntries, TypeInv
  <2>2. j \in Job /\ HoldsOK(j)
    <3>1. /\ Populated \in [Entries -> MaybeDocs]
          /\ schema \in Schemas \union {Absent, Torn}
      BY DEF Populated, NoDocs, MaybeDocs, TypeInv, TypeOK
    <3>2. j \in Job
      BY <2>1, <3>1 DEF Job, Labels
    <3> QED
      BY <2>1, <3>2 DEF Job, HoldsOK, OneEntry
  <2>3. job' = [job EXCEPT ![w] = j]
    BY <1>22 DEF ListEntries
  <2>4. OthersTyped'
    BY <1>22, <2>1, ReadPathAssumption DEF ListEntries, OthersTyped, TypeInv,
       TypeOK, HoldsOK, OneEntry, MaybeDocs, NoDocs
  <2> QED
    BY <2>2, <2>3, <2>4, StepTyped
<1>23. ASSUME NEW w \in Workers, InsertAll(w)
      PROVE  TypeInv'
  <2>1. job[w] \in Job /\ HoldsOK(job[w]) /\ job[w].at = "insertAll"
    BY <1>23 DEF InsertAll, TypeInv
  <2>3. job' = [job EXCEPT ![w] = Idle]
    BY <1>23 DEF InsertAll
  <2>4. OthersTyped'
    BY <1>23, <2>1, ReadPathAssumption DEF InsertAll, OthersTyped, TypeInv,
       TypeOK, HoldsOK, OneEntry, MaybeDocs, NoDocs, Job
  <2> QED
    BY IdleTyped, <2>3, <2>4, StepTyped
<1>24. ASSUME NEW w \in Workers, TruncateSchema(w)
      PROVE  TypeInv'
  <2> DEFINE j == [job[w] EXCEPT !.at = "writeSchema"]
  <2>1. job[w] \in Job /\ HoldsOK(job[w]) /\ job[w].at = "truncate"
    BY <1>24 DEF TruncateSchema, TypeInv
  <2>2. j \in Job /\ HoldsOK(j)
    BY <2>1, ReadPathAssumption DEF Job, Labels, HoldsOK, OneEntry, MaybeDocs
  <2>3. job' = [job EXCEPT ![w] = j]
    BY <1>24 DEF TruncateSchema
  <2>4. OthersTyped'
    BY <1>24, <2>1, ReadPathAssumption DEF TruncateSchema, OthersTyped,
       TypeInv, TypeOK, HoldsOK, OneEntry, MaybeDocs, NoDocs
  <2> QED
    BY <2>2, <2>3, <2>4, StepTyped
<1>25. ASSUME NEW w \in Workers, WriteSchema(w)
      PROVE  TypeInv'
  <2>1. job[w] \in Job /\ HoldsOK(job[w]) /\ job[w].at = "writeSchema"
    BY <1>25 DEF WriteSchema, TypeInv
  <2>3. job' = [job EXCEPT ![w] = Idle]
    BY <1>25 DEF WriteSchema
  <2>4. OthersTyped'
    BY <1>25, <2>1, ReadPathAssumption DEF WriteSchema, OthersTyped, TypeInv,
       TypeOK, HoldsOK, OneEntry, MaybeDocs, NoDocs, Job
  <2> QED
    BY IdleTyped, <2>3, <2>4, StepTyped
<1>26. ASSUME NEW w \in Workers, GenerateSpec(w)
      PROVE  TypeInv'
  <2> DEFINE j == [job[w] EXCEPT !.at = "store", !.schema = Listed(schema)]
  <2>1. job[w] \in Job /\ HoldsOK(job[w]) /\ job[w].at = "generate"
    BY <1>26 DEF GenerateSpec, TypeInv
  <2>2. j \in Job /\ HoldsOK(j)
    <3>1. Listed(schema) \in Schemas \union {Absent}
      BY DEF Listed, Readable
    <3>2. j \in Job
      BY <2>1, <3>1 DEF Job, Labels
    <3> QED
      BY <2>1, <3>1, <3>2 DEF Job, HoldsOK, OneEntry
  <2>3. job' = [job EXCEPT ![w] = j]
    BY <1>26 DEF GenerateSpec
  <2>4. OthersTyped'
    BY <1>26, <2>1, ReadPathAssumption DEF GenerateSpec, OthersTyped, TypeInv,
       TypeOK, HoldsOK, OneEntry, MaybeDocs, NoDocs
  <2> QED
    BY <2>2, <2>3, <2>4, StepTyped
<1>27. ASSUME NEW w \in Workers, StoreSpec(w)
      PROVE  TypeInv'
  <2>1. job[w] \in Job /\ HoldsOK(job[w]) /\ job[w].at = "store"
    BY <1>27 DEF StoreSpec, TypeInv
  <2>3. job' = [job EXCEPT ![w] = Idle]
    BY <1>27 DEF StoreSpec
  <2>4. OthersTyped'
    BY <1>27, <2>1, ReadPathAssumption DEF StoreSpec, OthersTyped, TypeInv,
       TypeOK, HoldsOK, OneEntry, MaybeDocs, NoDocs, Job
  <2> QED
    BY IdleTyped, <2>3, <2>4, StepTyped
<1>28. ASSUME NEW e \in Entries, NEW d \in MaybeDocs, EditEntry(e, d)
      PROVE  TypeInv'
  <2>1. job' \in [Workers -> Job] /\ \A v \in Workers : HoldsOK(job'[v])
    <3> SUFFICES ASSUME NEW v \in Workers
                 PROVE  job'[v] \in Job /\ HoldsOK(job'[v])
      BY <1>28 DEF EditEntry
    <3>1. job'[v] \in {job[v], [job[v] EXCEPT !.alone = FALSE]}
      BY <1>28 DEF EditEntry
    <3> QED
      BY <3>1 DEF TypeInv, Job, HoldsOK
  <2>2. docs' \in [Entries -> MaybeDocs] /\ late' \subseteq Entries
        /\ contended' \subseteq Entries
    BY <1>28 DEF EditEntry, TypeInv, TypeOK
  <2>3. edits' \in 0..MaxEdits
    BY <1>28, ReadPathAssumption DEF EditEntry, TypeInv, TypeOK
  <2> QED
    BY <1>28, <2>1, <2>2, <2>3, JobsTyped DEF EditEntry, TypeInv, TypeOK
<1>29. ASSUME NEW s \in Schemas \union {Absent}, EditSchema(s)
      PROVE  TypeInv'
  BY <1>29, ReadPathAssumption DEF EditSchema, TypeInv, TypeOK, Job, Labels,
     HoldsOK, OneEntry, MaybeDocs, NoDocs, Tags, Idle, Readable, Listed,
     Populated
<1>30. CASE Receive
  BY <1>30, ReadPathAssumption DEF Receive, TypeInv, TypeOK, Job, Labels,
     HoldsOK, OneEntry, MaybeDocs, NoDocs, Tags, Idle, Readable, Listed,
     Populated
<1>31. CASE Quiet
  BY <1>31, ReadPathAssumption DEF Quiet, TypeInv, TypeOK, Job, Labels, HoldsOK,
     OneEntry, MaybeDocs, NoDocs, Tags, Idle, Readable, Listed, Populated
<1>32. CASE Rebuild
  BY <1>32, ReadPathAssumption DEF Rebuild, TypeInv, TypeOK, Job, Labels,
     HoldsOK, OneEntry, MaybeDocs, NoDocs, Tags, Idle, Readable, Listed,
     Populated
<1> QED
  BY <1>1, <1>2, <1>3, <1>4, <1>5, <1>6, <1>7, <1>8, <1>9, <1>10, <1>11, <1>12,
     <1>13, <1>14, <1>15, <1>16, <1>17, <1>18, <1>19, <1>20, <1>21, <1>22,
     <1>23, <1>24, <1>25, <1>26, <1>27, <1>28, <1>29, <1>30, <1>31, <1>32 DEF
     Next, Request, Step, ByHand, Watch

\* What a request that changes the entries es does to the others.
LEMMA ChangeShape ==
  ASSUME TypeInv, NEW w \in Workers, NEW j \in Job, NEW es \in SUBSET Entries,
         Change(w, j, es)
  PROVE  /\ job'[w].at = j.at /\ job'[w].entry = j.entry
         /\ job'[w].doc = j.doc /\ job'[w].docs = j.docs
         /\ \A v \in Workers \ {w} :
              /\ job'[v].at = job[v].at /\ job'[v].entry = job[v].entry
              /\ job'[v].doc = job[v].doc /\ job'[v].docs = job[v].docs
              /\ job'[v].schema = job[v].schema
              /\ job'[v].alone => job[v].alone
              /\ \A e \in es : Mutating(v, e) =>
                   /\ ~job'[v].alone /\ ~job'[w].alone
                   /\ e \in contended'
<1> DEFINE others == {v \in Workers \ {w} : \E e \in es : Mutating(v, e)}
<1>1. \A v \in Workers : job'[v] = CASE v = w -> [j EXCEPT !.alone = others = {}]
                                     [] v \in others -> [job[v] EXCEPT !.alone = FALSE]
                                     [] OTHER -> job[v]
  BY DEF Change
<1>2. PICK yes : /\ job'[w] = [j EXCEPT !.alone = yes]
                 /\ yes <=> others = {}
  BY <1>1, Zenon
<1>3. /\ job'[w].at = j.at /\ job'[w].entry = j.entry
      /\ job'[w].doc = j.doc /\ job'[w].docs = j.docs
      /\ job'[w].alone <=> others = {}
  BY <1>2 DEF Job
<1>4. ASSUME NEW v \in Workers \ {w}
      PROVE  /\ job'[v].at = job[v].at /\ job'[v].entry = job[v].entry
             /\ job'[v].doc = job[v].doc /\ job'[v].docs = job[v].docs
             /\ job'[v].schema = job[v].schema
             /\ job'[v].alone => job[v].alone
             /\ v \in others => ~job'[v].alone
  <2>1. job[v] \in Job
    BY DEF TypeInv
  <2>2. job'[v] = IF v \in others THEN [job[v] EXCEPT !.alone = FALSE] ELSE job[v]
    BY <1>1
  <2> QED
    BY <2>1, <2>2 DEF Job
<1>5. ASSUME NEW v \in Workers \ {w}, NEW e \in es, Mutating(v, e)
      PROVE  v \in others /\ e \in contended'
  BY <1>5 DEF Change
<1> QED
  BY <1>3, <1>4, <1>5

\* A request that changes something takes part in AloneInv.
LEMMA ChangeAlone ==
  ASSUME TypeInv, AloneInv, NEW w \in Workers, NEW j \in Job,
         NEW es \in SUBSET Entries, Change(w, j, es),
         \A f \in Entries : Mutating(w, f)' => f \in es
  PROVE  AloneInv'
<1> SUFFICES ASSUME NEW e \in Entries, NEW u \in Workers, NEW v \in Workers,
                    u # v, Mutating(u, e)', Mutating(v, e)'
             PROVE  e \in contended' /\ ~job'[u].alone
  BY DEF AloneInv
<1>1. \A x \in Workers \ {w} : Mutating(x, e)' => Mutating(x, e)
  BY ChangeShape DEF Mutating, Importing, At
<1>2. contended \subseteq contended'
  BY DEF Change
<1>3. CASE u = w
  BY <1>1, <1>3, ChangeShape
<1>4. CASE v = w
  BY <1>1, <1>4, ChangeShape
<1>5. CASE u # w /\ v # w
  BY <1>1, <1>2, <1>5, ChangeShape DEF AloneInv
<1> QED
  BY <1>3, <1>4, <1>5

\* AloneInv is inductive: whoever starts to change what another is changing
\* contends it, and only one that was alone settles it.
LEMMA AloneInvStep == TypeInv /\ AloneInv /\ [Next]_vars => AloneInv'
<1> SUFFICES ASSUME TypeInv, AloneInv, [Next]_vars PROVE AloneInv'
  OBVIOUS
<1> USE DEF AloneInv, Mutating, Importing, At, GoTo, Answer, Ask, Idle, Settle,
     Touch, vars, disk, watch, history, bounds
<1>1. CASE UNCHANGED vars
  BY <1>1
<1>2. ASSUME NEW w \in Workers, NEW e \in Entries, GetEntry(w, e)
      PROVE  AloneInv'
  BY <1>2, ReadPathAssumption DEF GetEntry, TypeInv, TypeOK, Job, HoldsOK,
     OneEntry
<1>3. ASSUME NEW w \in Workers, NEW e \in Entries, DeleteEntry(w, e)
      PROVE  AloneInv'
  <2> DEFINE j == [Idle EXCEPT !.at = "unlink", !.entry = e]
  <2>1. Change(w, j, {e}) /\ {e} \subseteq Entries
    BY <1>3 DEF DeleteEntry
  <2>2. j \in Job
    BY <1>3, ReadPathAssumption DEF Job, Labels, MaybeDocs, NoDocs
  <2> HIDE DEF j
  <2>3. job'[w].at = j.at /\ job'[w].entry = j.entry
    BY <2>1, <2>2, ChangeShape
  <2>4. \A f \in Entries : Mutating(w, f)' => f \in {e}
    BY <2>3 DEF j
  <2> QED
    BY <2>1, <2>2, <2>4, ChangeAlone
<1>4. ASSUME NEW w \in Workers, NEW e \in Entries, NEW b \in Bodies,
             SaveEntry(w, e, b)
      PROVE  AloneInv'
  <2> DEFINE j == [Idle EXCEPT !.at = "write", !.entry = e, !.doc = b]
  <2>1. Change(w, j, {e}) /\ {e} \subseteq Entries
    BY <1>4 DEF SaveEntry
  <2>2. j \in Job
    BY <1>4, ReadPathAssumption DEF Job, Labels, MaybeDocs, NoDocs
  <2> HIDE DEF j
  <2>3. job'[w].at = j.at /\ job'[w].entry = j.entry
    BY <2>1, <2>2, ChangeShape
  <2>4. \A f \in Entries : Mutating(w, f)' => f \in {e}
    BY <2>3 DEF j
  <2> QED
    BY <2>1, <2>2, <2>4, ChangeAlone
<1>5. ASSUME NEW w \in Workers, NEW s \in Schemas, SaveSchema(w, s)
      PROVE  AloneInv'
  BY <1>5, ReadPathAssumption DEF SaveSchema, TypeInv, TypeOK, Job, HoldsOK,
     OneEntry
<1>6. ASSUME NEW w \in Workers, NEW ds \in [Entries -> MaybeDocs], NEW s \in Schemas,
             ImportBundle(w, ds, s)
      PROVE  AloneInv'
  <2> DEFINE j == [Idle EXCEPT !.at = "unpack", !.docs = ds, !.schema = s]
  <2>1. Change(w, j, Entries) /\ Entries \subseteq Entries
    BY <1>6 DEF ImportBundle
  <2>2. j \in Job
    BY <1>6, ReadPathAssumption DEF Job, Labels, MaybeDocs, NoDocs
  <2> HIDE DEF j
  <2>3. job'[w].at = j.at /\ job'[w].entry = j.entry
    BY <2>1, <2>2, ChangeShape
  <2>4. \A f \in Entries : Mutating(w, f)' => f \in Entries
    OBVIOUS
  <2> QED
    BY <2>1, <2>2, <2>4, ChangeAlone
<1>7. ASSUME NEW w \in Workers, DeleteSchema(w)
      PROVE  AloneInv'
  BY <1>7, ReadPathAssumption DEF DeleteSchema, TypeInv, TypeOK, Job, HoldsOK,
     OneEntry
<1>8. ASSUME NEW w \in Workers, OpenApiSpec(w)
      PROVE  AloneInv'
  BY <1>8, ReadPathAssumption DEF OpenApiSpec, TypeInv, TypeOK, Job, HoldsOK,
     OneEntry
<1>9. ASSUME NEW w \in Workers, ReadEntry(w)
      PROVE  AloneInv'
  BY <1>9, ReadEntryMoves DEF history
<1>10. ASSUME NEW w \in Workers, ResolveReferences(w)
      PROVE  AloneInv'
  BY <1>10, ReadPathAssumption DEF ResolveReferences, TypeInv, TypeOK, Job,
     HoldsOK, OneEntry
<1>11. ASSUME NEW w \in Workers, LookUpTag(w)
      PROVE  AloneInv'
  <2>1. /\ job'[w].at \in {"insertTag", "idle"}
        /\ \A v \in Workers \ {w} : job'[v] = job[v]
        /\ UNCHANGED contended
    BY <1>11 DEF LookUpTag, TypeInv, Job
  <2> QED
    BY <2>1
<1>12. ASSUME NEW w \in Workers, InsertTag(w)
      PROVE  AloneInv'
  BY <1>12, ReadPathAssumption DEF InsertTag, TypeInv, TypeOK, Job, HoldsOK,
     OneEntry
<1>13. ASSUME NEW w \in Workers, WriteEntry(w)
      PROVE  AloneInv'
  BY <1>13, ReadPathAssumption DEF WriteEntry, TypeInv, TypeOK, Job, HoldsOK,
     OneEntry
<1>14. ASSUME NEW w \in Workers, RemoveTag(w)
      PROVE  AloneInv'
  BY <1>14, ReadPathAssumption DEF RemoveTag, TypeInv, TypeOK, Job, HoldsOK,
     OneEntry
<1>15. ASSUME NEW w \in Workers, ReloadRead(w)
      PROVE  AloneInv'
  BY <1>15, ReadPathAssumption DEF ReloadRead, TypeInv, TypeOK, Job, HoldsOK,
     OneEntry
<1>16. ASSUME NEW w \in Workers, ReloadInsert(w)
      PROVE  AloneInv'
  BY <1>16, ReadPathAssumption DEF ReloadInsert, TypeInv, TypeOK, Job, HoldsOK,
     OneEntry
<1>17. ASSUME NEW w \in Workers, Unlink(w)
      PROVE  AloneInv'
  <2>1. CASE docs[job[w].entry] = NoDoc
    BY <1>17, <2>1, ReadPathAssumption DEF Unlink, TypeInv, TypeOK, Job,
       HoldsOK, OneEntry
  <2>2. CASE ~(docs[job[w].entry] = NoDoc)
    BY <1>17, <2>2, ReadPathAssumption DEF Unlink, TypeInv, TypeOK, Job,
       HoldsOK, OneEntry
  <2> QED
    BY <2>1, <2>2
<1>18. ASSUME NEW w \in Workers, Uncache(w)
      PROVE  AloneInv'
  BY <1>18, ReadPathAssumption DEF Uncache, TypeInv, TypeOK, Job, HoldsOK,
     OneEntry
<1>19. ASSUME NEW w \in Workers, Unpack(w)
      PROVE  AloneInv'
  BY <1>19, ReadPathAssumption DEF Unpack, TypeInv, TypeOK, Job, HoldsOK,
     OneEntry
<1>20. ASSUME NEW w \in Workers, ClearCache(w)
      PROVE  AloneInv'
  BY <1>20, ReadPathAssumption DEF ClearCache, TypeInv, TypeOK, Job, HoldsOK,
     OneEntry
<1>21. ASSUME NEW w \in Workers, ClearTags(w)
      PROVE  AloneInv'
  BY <1>21, ReadPathAssumption DEF ClearTags, TypeInv, TypeOK, Job, HoldsOK,
     OneEntry
<1>22. ASSUME NEW w \in Workers, ListEntries(w)
      PROVE  AloneInv'
  BY <1>22, ReadPathAssumption DEF ListEntries, TypeInv, TypeOK, Job, HoldsOK,
     OneEntry
<1>23. ASSUME NEW w \in Workers, InsertAll(w)
      PROVE  AloneInv'
  BY <1>23, ReadPathAssumption DEF InsertAll, TypeInv, TypeOK, Job, HoldsOK,
     OneEntry
<1>24. ASSUME NEW w \in Workers, TruncateSchema(w)
      PROVE  AloneInv'
  BY <1>24, ReadPathAssumption DEF TruncateSchema, TypeInv, TypeOK, Job,
     HoldsOK, OneEntry
<1>25. ASSUME NEW w \in Workers, WriteSchema(w)
      PROVE  AloneInv'
  BY <1>25, ReadPathAssumption DEF WriteSchema, TypeInv, TypeOK, Job, HoldsOK,
     OneEntry
<1>26. ASSUME NEW w \in Workers, GenerateSpec(w)
      PROVE  AloneInv'
  BY <1>26, ReadPathAssumption DEF GenerateSpec, TypeInv, TypeOK, Job, HoldsOK,
     OneEntry
<1>27. ASSUME NEW w \in Workers, StoreSpec(w)
      PROVE  AloneInv'
  BY <1>27, ReadPathAssumption DEF StoreSpec, TypeInv, TypeOK, Job, HoldsOK,
     OneEntry
<1>28. ASSUME NEW e \in Entries, NEW d \in MaybeDocs, EditEntry(e, d)
      PROVE  AloneInv'
  BY <1>28, ReadPathAssumption DEF EditEntry, TypeInv, TypeOK, Job, HoldsOK,
     OneEntry
<1>29. ASSUME NEW s \in Schemas \union {Absent}, EditSchema(s)
      PROVE  AloneInv'
  BY <1>29, ReadPathAssumption DEF EditSchema, TypeInv, TypeOK, Job, HoldsOK,
     OneEntry
<1>30. CASE Receive
  BY <1>30, ReadPathAssumption DEF Receive, TypeInv, TypeOK, Job, HoldsOK,
     OneEntry
<1>31. CASE Quiet
  BY <1>31, ReadPathAssumption DEF Quiet, TypeInv, TypeOK, Job, HoldsOK,
     OneEntry
<1>32. CASE Rebuild
  BY <1>32, ReadPathAssumption DEF Rebuild, TypeInv, TypeOK, Job, HoldsOK,
     OneEntry
<1> QED
  BY <1>1, <1>2, <1>3, <1>4, <1>5, <1>6, <1>7, <1>8, <1>9, <1>10, <1>11, <1>12,
     <1>13, <1>14, <1>15, <1>16, <1>17, <1>18, <1>19, <1>20, <1>21, <1>22,
     <1>23, <1>24, <1>25, <1>26, <1>27, <1>28, <1>29, <1>30, <1>31, <1>32 DEF
     Next, Request, Step, ByHand, Watch

\* A step of a worker that removes no tag, and writes no document, keeps
\* TagsFollowDocs.
LEMMA TagsKept ==
  ASSUME TagsFollowDocs, NEW w \in Workers,
         \A v \in Workers \ {w} : job'[v] = job[v],
         job[w].at \notin {"removeTag", "clearCache", "clearTags"},
         job'[w].at \notin {"removeTag", "clearCache", "clearTags"},
         \A e \in Entries : docs'[e] \in {docs[e], NoDoc},
         UNCHANGED <<etags, late>>
  PROVE  TagsFollowDocs'
<1>1. \A v \in Workers, e \in Entries : WillRemoveTag(v, e)' <=> WillRemoveTag(v, e)
  BY DEF WillRemoveTag, At
<1> QED
  BY <1>1 DEF TagsFollowDocs

\* A request that changes something takes part in TagsFollowDocs.
LEMMA ChangeTags ==
  ASSUME TypeInv, TagsFollowDocs, NEW w \in Workers, NEW j \in Job,
         NEW es \in SUBSET Entries, Change(w, j, es),
         j.at \notin {"removeTag", "clearCache", "clearTags"}
  PROVE  TagsFollowDocs'
<1>1. \A v \in Workers, e \in Entries : WillRemoveTag(v, e)' <=> WillRemoveTag(v, e)
  <2> SUFFICES ASSUME NEW v \in Workers, NEW e \in Entries
               PROVE  WillRemoveTag(v, e)' <=> WillRemoveTag(v, e)
    OBVIOUS
  <2>1. CASE v = w
    <3>1. job[w].at = "idle"
      BY DEF Change, At
    <3> QED
      BY <2>1, <3>1, ChangeShape DEF WillRemoveTag, At
  <2>2. CASE v # w
    BY <2>2, ChangeShape DEF WillRemoveTag, At
  <2> QED
    BY <2>1, <2>2
<1> QED
  BY <1>1 DEF TagsFollowDocs, Change, disk

\* TagsFollowDocs is inductive.
LEMMA TagsFollowDocsStep == TypeInv /\ TagsFollowDocs /\ [Next]_vars => TagsFollowDocs'
<1> SUFFICES ASSUME TypeInv, TagsFollowDocs, [Next]_vars PROVE TagsFollowDocs'
  OBVIOUS
<1> USE DEF TagsFollowDocs, At, GoTo, Answer, Ask, Idle, WillRemoveTag,
     Touch, Settle, vars, disk, watch, history, bounds
<1>1. CASE UNCHANGED vars
  BY <1>1
<1>2. ASSUME NEW w \in Workers, NEW e \in Entries, GetEntry(w, e)
      PROVE  TagsFollowDocs'
  BY <1>2, ReadPathAssumption DEF GetEntry, TypeInv, TypeOK, Job, HoldsOK,
     OneEntry
<1>3. ASSUME NEW w \in Workers, NEW e \in Entries, DeleteEntry(w, e)
      PROVE  TagsFollowDocs'
  <2> DEFINE j == [Idle EXCEPT !.at = "unlink", !.entry = e]
  <2>1. Change(w, j, {e}) /\ {e} \subseteq Entries
    BY <1>3 DEF DeleteEntry
  <2>2. j \in Job /\ j.at \notin {"removeTag", "clearCache", "clearTags"}
    BY <1>3, ReadPathAssumption DEF Job, Labels, MaybeDocs, NoDocs
  <2> HIDE DEF j
  <2> QED
    BY <2>1, <2>2, ChangeTags
<1>4. ASSUME NEW w \in Workers, NEW e \in Entries, NEW b \in Bodies,
             SaveEntry(w, e, b)
      PROVE  TagsFollowDocs'
  <2> DEFINE j == [Idle EXCEPT !.at = "write", !.entry = e, !.doc = b]
  <2>1. Change(w, j, {e}) /\ {e} \subseteq Entries
    BY <1>4 DEF SaveEntry
  <2>2. j \in Job /\ j.at \notin {"removeTag", "clearCache", "clearTags"}
    BY <1>4, ReadPathAssumption DEF Job, Labels, MaybeDocs, NoDocs
  <2> HIDE DEF j
  <2> QED
    BY <2>1, <2>2, ChangeTags
<1>5. ASSUME NEW w \in Workers, NEW s \in Schemas, SaveSchema(w, s)
      PROVE  TagsFollowDocs'
  BY <1>5, ReadPathAssumption DEF SaveSchema, TypeInv, TypeOK, Job, HoldsOK,
     OneEntry
<1>6. ASSUME NEW w \in Workers, NEW ds \in [Entries -> MaybeDocs], NEW s \in Schemas,
             ImportBundle(w, ds, s)
      PROVE  TagsFollowDocs'
  <2> DEFINE j == [Idle EXCEPT !.at = "unpack", !.docs = ds, !.schema = s]
  <2>1. Change(w, j, Entries) /\ Entries \subseteq Entries
    BY <1>6 DEF ImportBundle
  <2>2. j \in Job /\ j.at \notin {"removeTag", "clearCache", "clearTags"}
    BY <1>6, ReadPathAssumption DEF Job, Labels, MaybeDocs, NoDocs
  <2> HIDE DEF j
  <2> QED
    BY <2>1, <2>2, ChangeTags
<1>7. ASSUME NEW w \in Workers, DeleteSchema(w)
      PROVE  TagsFollowDocs'
  BY <1>7, ReadPathAssumption DEF DeleteSchema, TypeInv, TypeOK, Job, HoldsOK,
     OneEntry
<1>8. ASSUME NEW w \in Workers, OpenApiSpec(w)
      PROVE  TagsFollowDocs'
  BY <1>8, ReadPathAssumption DEF OpenApiSpec, TypeInv, TypeOK, Job, HoldsOK,
     OneEntry
<1>9. ASSUME NEW w \in Workers, ReadEntry(w)
      PROVE  TagsFollowDocs'
  <2>1. job[w] \in Job /\ \A v \in Workers \ {w} : job'[v] = job[v]
    BY <1>9 DEF ReadEntry, TypeInv
  <2>2. /\ job[w].at \notin {"removeTag", "clearCache", "clearTags"}
        /\ job'[w].at \notin {"removeTag", "clearCache", "clearTags"}
    BY <1>9, ReadEntryMoves
  <2>3. \A e \in Entries : docs'[e] \in {docs[e], NoDoc}
    BY <1>9 DEF ReadEntry, TypeInv, TypeOK
  <2> QED
    BY <1>9, <2>1, <2>2, <2>3, TagsKept DEF ReadEntry
<1>10. ASSUME NEW w \in Workers, ResolveReferences(w)
      PROVE  TagsFollowDocs'
  BY <1>10, ReadPathAssumption DEF ResolveReferences, TypeInv, TypeOK, Job,
     HoldsOK, OneEntry
<1>11. ASSUME NEW w \in Workers, LookUpTag(w)
      PROVE  TagsFollowDocs'
  <2>1. job[w] \in Job /\ \A v \in Workers \ {w} : job'[v] = job[v]
    BY <1>11 DEF LookUpTag, TypeInv
  <2>2. /\ job[w].at \notin {"removeTag", "clearCache", "clearTags"}
        /\ job'[w].at \notin {"removeTag", "clearCache", "clearTags"}
    BY <1>11, <2>1 DEF LookUpTag, TypeInv, Job
  <2>3. \A e \in Entries : docs'[e] \in {docs[e], NoDoc}
    BY <1>11 DEF LookUpTag, TypeInv, TypeOK
  <2> QED
    BY <1>11, <2>1, <2>2, <2>3, TagsKept DEF LookUpTag
<1>12. ASSUME NEW w \in Workers, InsertTag(w)
      PROVE  TagsFollowDocs'
  <2>1. /\ job[w] \in Job /\ job[w].entry \in Entries
        /\ job[w].doc \in Bodies /\ job[w].schema \in Schemas
    BY <1>12, ReadPathAssumption DEF InsertTag, TypeInv, HoldsOK, OneEntry
  <2>2. \A v \in Workers, e \in Entries : WillRemoveTag(v, e)' <=> WillRemoveTag(v, e)
    BY <1>12 DEF InsertTag, TypeInv, Job
  <2>3. \A e \in Entries \ {job[w].entry} :
          etags'[e] = etags[e] /\ (e \in late' <=> e \in late)
    BY <1>12, <2>1 DEF InsertTag, TypeInv, TypeOK
  <2>4. etags'[job[w].entry].body = job[w].doc
    BY <1>12, <2>1 DEF InsertTag, TypeInv, TypeOK, Representation
  <2>5. /\ job[w].entry \notin late'
        /\ \A v \in Workers : ~WillRemoveTag(v, job[w].entry)
        => job[w].doc = docs[job[w].entry]
    BY <1>12 DEF InsertTag
  <2> HIDE DEF WillRemoveTag
  <2> QED
    BY <1>12, <2>1, <2>2, <2>3, <2>4, <2>5 DEF InsertTag
<1>13. ASSUME NEW w \in Workers, WriteEntry(w)
      PROVE  TagsFollowDocs'
  BY <1>13, ReadPathAssumption DEF WriteEntry, TypeInv, TypeOK, Job, HoldsOK,
     OneEntry
<1>14. ASSUME NEW w \in Workers, RemoveTag(w)
      PROVE  TagsFollowDocs'
  BY <1>14, ReadPathAssumption DEF RemoveTag, TypeInv, TypeOK, Job, HoldsOK,
     OneEntry
<1>15. ASSUME NEW w \in Workers, ReloadRead(w)
      PROVE  TagsFollowDocs'
  BY <1>15, ReadPathAssumption DEF ReloadRead, TypeInv, TypeOK, Job, HoldsOK,
     OneEntry
<1>16. ASSUME NEW w \in Workers, ReloadInsert(w)
      PROVE  TagsFollowDocs'
  BY <1>16, ReadPathAssumption DEF ReloadInsert, TypeInv, TypeOK, Job, HoldsOK,
     OneEntry
<1>17. ASSUME NEW w \in Workers, Unlink(w)
      PROVE  TagsFollowDocs'
  <2>1. job[w] \in Job /\ \A v \in Workers \ {w} : job'[v] = job[v]
    BY <1>17 DEF Unlink, TypeInv
  <2>2. /\ job[w].at \notin {"removeTag", "clearCache", "clearTags"}
        /\ job'[w].at \notin {"removeTag", "clearCache", "clearTags"}
    BY <1>17, <2>1 DEF Unlink, TypeInv, Job
  <2>3. \A e \in Entries : docs'[e] \in {docs[e], NoDoc}
    BY <1>17 DEF Unlink, TypeInv, TypeOK
  <2> QED
    BY <1>17, <2>1, <2>2, <2>3, TagsKept DEF Unlink
<1>18. ASSUME NEW w \in Workers, Uncache(w)
      PROVE  TagsFollowDocs'
  BY <1>18, ReadPathAssumption DEF Uncache, TypeInv, TypeOK, Job, HoldsOK,
     OneEntry
<1>19. ASSUME NEW w \in Workers, Unpack(w)
      PROVE  TagsFollowDocs'
  BY <1>19, ReadPathAssumption DEF Unpack, TypeInv, TypeOK, Job, HoldsOK,
     OneEntry
<1>20. ASSUME NEW w \in Workers, ClearCache(w)
      PROVE  TagsFollowDocs'
  BY <1>20, ReadPathAssumption DEF ClearCache, TypeInv, TypeOK, Job, HoldsOK,
     OneEntry
<1>21. ASSUME NEW w \in Workers, ClearTags(w)
      PROVE  TagsFollowDocs'
  BY <1>21, ReadPathAssumption DEF ClearTags, TypeInv, TypeOK, Job, HoldsOK,
     OneEntry
<1>22. ASSUME NEW w \in Workers, ListEntries(w)
      PROVE  TagsFollowDocs'
  BY <1>22, ReadPathAssumption DEF ListEntries, TypeInv, TypeOK, Job, HoldsOK,
     OneEntry
<1>23. ASSUME NEW w \in Workers, InsertAll(w)
      PROVE  TagsFollowDocs'
  BY <1>23, ReadPathAssumption DEF InsertAll, TypeInv, TypeOK, Job, HoldsOK,
     OneEntry
<1>24. ASSUME NEW w \in Workers, TruncateSchema(w)
      PROVE  TagsFollowDocs'
  BY <1>24, ReadPathAssumption DEF TruncateSchema, TypeInv, TypeOK, Job,
     HoldsOK, OneEntry
<1>25. ASSUME NEW w \in Workers, WriteSchema(w)
      PROVE  TagsFollowDocs'
  BY <1>25, ReadPathAssumption DEF WriteSchema, TypeInv, TypeOK, Job, HoldsOK,
     OneEntry
<1>26. ASSUME NEW w \in Workers, GenerateSpec(w)
      PROVE  TagsFollowDocs'
  BY <1>26, ReadPathAssumption DEF GenerateSpec, TypeInv, TypeOK, Job, HoldsOK,
     OneEntry
<1>27. ASSUME NEW w \in Workers, StoreSpec(w)
      PROVE  TagsFollowDocs'
  BY <1>27, ReadPathAssumption DEF StoreSpec, TypeInv, TypeOK, Job, HoldsOK,
     OneEntry
<1>28. ASSUME NEW e \in Entries, NEW d \in MaybeDocs, EditEntry(e, d)
      PROVE  TagsFollowDocs'
  BY <1>28, ReadPathAssumption DEF EditEntry, TypeInv, TypeOK, Job, HoldsOK,
     OneEntry
<1>29. ASSUME NEW s \in Schemas \union {Absent}, EditSchema(s)
      PROVE  TagsFollowDocs'
  BY <1>29, ReadPathAssumption DEF EditSchema, TypeInv, TypeOK, Job, HoldsOK,
     OneEntry
<1>30. CASE Receive
  BY <1>30, ReadPathAssumption DEF Receive, TypeInv, TypeOK, Job, HoldsOK,
     OneEntry
<1>31. CASE Quiet
  BY <1>31, ReadPathAssumption DEF Quiet, TypeInv, TypeOK, Job, HoldsOK,
     OneEntry
<1>32. CASE Rebuild
  BY <1>32, ReadPathAssumption DEF Rebuild, TypeInv, TypeOK, Job, HoldsOK,
     OneEntry
<1> QED
  BY <1>1, <1>2, <1>3, <1>4, <1>5, <1>6, <1>7, <1>8, <1>9, <1>10, <1>11, <1>12,
     <1>13, <1>14, <1>15, <1>16, <1>17, <1>18, <1>19, <1>20, <1>21, <1>22,
     <1>23, <1>24, <1>25, <1>26, <1>27, <1>28, <1>29, <1>30, <1>31, <1>32 DEF
     Next, Request, Step, ByHand, Watch

\* A request that changes something takes part in CacheInv.
LEMMA ChangeCache ==
  ASSUME TypeInv, CacheInv, NEW w \in Workers, NEW j \in Job,
         NEW es \in SUBSET Entries, Change(w, j, es),
         j.at \in {"write", "unlink", "unpack"},
         \A f \in Entries : Mutating(w, f)' <=> f \in es
  PROVE  CacheInv'
<1>1. /\ \A x \in Workers \ {w}, f \in Entries : Mutating(x, f)' <=> Mutating(x, f)
      /\ job'[w].at \in {"write", "unlink", "unpack"}
  BY ChangeShape DEF Mutating, Importing, At
<1>2. /\ contended \subseteq contended' /\ UNCHANGED <<docs, cache>>
      /\ \A f \in Entries : ~Mutating(w, f)
  BY DEF Change, disk, Mutating, Importing, At, TypeInv, HoldsOK
<1>3. ASSUME NEW e \in Entries, e \notin contended',
             \A x \in Workers : ~Mutating(x, e)'
      PROVE  cache'[e] = docs'[e]
  BY <1>1, <1>2, <1>3 DEF CacheInv
<1>4. ASSUME NEW e \in Entries, Mutating(w, e)'
      PROVE  OnTheWay(w, e)'
  <2> SUFFICES ASSUME At(w, "unlink")', e \notin contended'
               PROVE  cache'[e] = docs'[e]
    BY <1>1 DEF OnTheWay, At
  <2>1. \A x \in Workers : ~Mutating(x, e)
    BY <1>2, <1>4, ChangeShape
  <2> QED
    BY <1>2, <2>1 DEF CacheInv
<1>5. ASSUME NEW e \in Entries, NEW x \in Workers \ {w}, Mutating(x, e)',
             e \notin contended' \/ job'[x].alone
      PROVE  OnTheWay(x, e)'
  <2>1. OnTheWay(x, e)
    BY <1>1, <1>2, <1>5, ChangeShape DEF CacheInv
  <2> QED
    BY <1>2, <2>1, ChangeShape DEF OnTheWay, At
<1> QED
  BY <1>3, <1>4, <1>5 DEF CacheInv

\* A step of a worker that is not changing an entry keeps CacheInv.
LEMMA CacheKept ==
  ASSUME TypeInv, CacheInv, NEW w \in Workers,
         \A v \in Workers \ {w} : job'[v] = job[v],
         \A e \in Entries : ~Mutating(w, e) /\ ~Mutating(w, e)',
         UNCHANGED <<docs, cache, contended>>
  PROVE  CacheInv'
<1>1. \A v \in Workers \ {w}, e \in Entries :
        /\ Mutating(v, e)' <=> Mutating(v, e)
        /\ OnTheWay(v, e)' <=> OnTheWay(v, e)
  BY DEF Mutating, Importing, At, OnTheWay
<1> QED
  BY <1>1 DEF CacheInv

\* What a step of a worker owes to CacheInv: the entries it changes.
LEMMA CacheStep ==
  ASSUME TypeInv, AloneInv, CacheInv, NEW w \in Workers,
         \A v \in Workers \ {w} : job'[v] = job[v], UNCHANGED contended,
         \A e \in Entries :
           ~Mutating(w, e) => ~Mutating(w, e)' /\ UNCHANGED <<docs[e], cache[e]>>,
         \A e \in Entries :
           Mutating(w, e) /\ (e \notin contended \/ job[w].alone) =>
             IF Mutating(w, e)' THEN OnTheWay(w, e)'
                                ELSE e \in contended \/ cache'[e] = docs'[e],
         job'[w].at # "idle" => job'[w].alone = job[w].alone
  PROVE  CacheInv'
<1>1. ASSUME NEW v \in Workers \ {w}, NEW e \in Entries, Mutating(v, e)',
             e \notin contended' \/ job'[v].alone
      PROVE  OnTheWay(v, e)'
  <2>1. Mutating(v, e) /\ (e \notin contended \/ job[v].alone)
    BY <1>1 DEF Mutating, Importing, At
  <2>2. ~Mutating(w, e)
    BY <2>1 DEF AloneInv
  <2>3. OnTheWay(v, e) /\ UNCHANGED <<docs[e], cache[e]>>
    BY <2>1, <2>2 DEF CacheInv
  <2> QED
    BY <2>3 DEF OnTheWay, At
<1>2. ASSUME NEW e \in Entries, e \notin contended',
             \A v \in Workers : ~Mutating(v, e)'
      PROVE  cache'[e] = docs'[e]
  <2>1. \A v \in Workers \ {w} : ~Mutating(v, e)
    BY <1>2 DEF Mutating, Importing, At
  <2>2. CASE Mutating(w, e)
    BY <1>2, <2>2
  <2>3. CASE ~Mutating(w, e)
    BY <1>2, <2>1, <2>3 DEF CacheInv
  <2> QED
    BY <2>2, <2>3
<1>3. ASSUME NEW e \in Entries, Mutating(w, e)',
             e \notin contended' \/ job'[w].alone
      PROVE  OnTheWay(w, e)'
  <2>1. job'[w].at # "idle"
    BY <1>3, ReadPathAssumption DEF Mutating, Importing, At
  <2> QED
    BY <1>3, <2>1
<1> QED
  BY <1>1, <1>2, <1>3 DEF CacheInv

\* CacheInv is inductive: what one request changes, nobody else is bringing into
\* the cache, unless it is contended.
LEMMA CacheInvStep == TypeInv /\ AloneInv /\ CacheInv /\ [Next]_vars => CacheInv'
<1> SUFFICES ASSUME TypeInv, AloneInv, CacheInv, [Next]_vars PROVE CacheInv'
  OBVIOUS
<1> USE DEF Mutating, Importing, At, GoTo, Answer, Ask, Idle, Settle,
     Touch, vars, disk, watch, history, bounds
<1>1. CASE UNCHANGED vars
  BY <1>1 DEF CacheInv, OnTheWay
<1>2. ASSUME NEW w \in Workers, NEW e \in Entries, GetEntry(w, e)
      PROVE  CacheInv'
  <2>1. \A v \in Workers \ {w} : job'[v] = job[v]
    BY <1>2 DEF GetEntry, TypeInv
  <2>2. \A f \in Entries : ~Mutating(w, f) /\ ~Mutating(w, f)'
    BY <1>2, ReadPathAssumption DEF GetEntry, TypeInv, Job, HoldsOK, OneEntry
  <2> HIDE DEF Mutating
  <2> QED
    BY <1>2, <2>1, <2>2, CacheKept DEF GetEntry
<1>3. ASSUME NEW w \in Workers, NEW e \in Entries, DeleteEntry(w, e)
      PROVE  CacheInv'
  <2> DEFINE j == [Idle EXCEPT !.at = "unlink", !.entry = e]
  <2>1. Change(w, j, {e}) /\ {e} \subseteq Entries
    BY <1>3 DEF DeleteEntry
  <2>2. /\ j \in Job /\ j.at = "unlink"
        /\ j.entry = e
    BY <1>3, ReadPathAssumption DEF Job, Labels, MaybeDocs, NoDocs
  <2> HIDE DEF j
  <2>3. job'[w].at = "unlink" /\ job'[w].entry = e
    BY <2>1, <2>2, ChangeShape
  <2>4. \A f \in Entries : Mutating(w, f)' <=> f \in {e}
    BY <2>3
  <2> HIDE DEF Mutating
  <2> QED
    BY <2>1, <2>2, <2>4, ChangeCache
<1>4. ASSUME NEW w \in Workers, NEW e \in Entries, NEW b \in Bodies,
             SaveEntry(w, e, b)
      PROVE  CacheInv'
  <2> DEFINE j == [Idle EXCEPT !.at = "write", !.entry = e, !.doc = b]
  <2>1. Change(w, j, {e}) /\ {e} \subseteq Entries
    BY <1>4 DEF SaveEntry
  <2>2. /\ j \in Job /\ j.at = "write"
        /\ j.entry = e
    BY <1>4, ReadPathAssumption DEF Job, Labels, MaybeDocs, NoDocs
  <2> HIDE DEF j
  <2>3. job'[w].at = "write" /\ job'[w].entry = e
    BY <2>1, <2>2, ChangeShape
  <2>4. \A f \in Entries : Mutating(w, f)' <=> f \in {e}
    BY <2>3
  <2> HIDE DEF Mutating
  <2> QED
    BY <2>1, <2>2, <2>4, ChangeCache
<1>5. ASSUME NEW w \in Workers, NEW s \in Schemas, SaveSchema(w, s)
      PROVE  CacheInv'
  <2>1. \A v \in Workers \ {w} : job'[v] = job[v]
    BY <1>5 DEF SaveSchema, TypeInv
  <2>2. \A f \in Entries : ~Mutating(w, f) /\ ~Mutating(w, f)'
    BY <1>5, ReadPathAssumption DEF SaveSchema, TypeInv, Job, HoldsOK, OneEntry
  <2> HIDE DEF Mutating
  <2> QED
    BY <1>5, <2>1, <2>2, CacheKept DEF SaveSchema
<1>6. ASSUME NEW w \in Workers, NEW ds \in [Entries -> MaybeDocs], NEW s \in Schemas,
             ImportBundle(w, ds, s)
      PROVE  CacheInv'
  <2> DEFINE j == [Idle EXCEPT !.at = "unpack", !.docs = ds, !.schema = s]
  <2>1. Change(w, j, Entries) /\ Entries \subseteq Entries
    BY <1>6 DEF ImportBundle
  <2>2. /\ j \in Job /\ j.at = "unpack"
        /\ j.entry = None
    BY <1>6, ReadPathAssumption DEF Job, Labels, MaybeDocs, NoDocs
  <2> HIDE DEF j
  <2>3. job'[w].at = "unpack" /\ job'[w].entry = None
    BY <2>1, <2>2, ChangeShape
  <2>4. \A f \in Entries : Mutating(w, f)' <=> f \in Entries
    BY <2>3
  <2> HIDE DEF Mutating
  <2> QED
    BY <2>1, <2>2, <2>4, ChangeCache
<1>7. ASSUME NEW w \in Workers, DeleteSchema(w)
      PROVE  CacheInv'
  BY <1>7, ReadPathAssumption DEF DeleteSchema, CacheInv, AloneInv, OnTheWay,
     TypeInv, TypeOK, Job, HoldsOK, OneEntry
<1>8. ASSUME NEW w \in Workers, OpenApiSpec(w)
      PROVE  CacheInv'
  <2>1. \A v \in Workers \ {w} : job'[v] = job[v]
    BY <1>8 DEF OpenApiSpec, TypeInv
  <2>2. \A f \in Entries : ~Mutating(w, f) /\ ~Mutating(w, f)'
    BY <1>8, ReadPathAssumption DEF OpenApiSpec, TypeInv, Job, HoldsOK, OneEntry
  <2> HIDE DEF Mutating
  <2> QED
    BY <1>8, <2>1, <2>2, CacheKept DEF OpenApiSpec
<1>9. ASSUME NEW w \in Workers, ReadEntry(w)
      PROVE  CacheInv'
  <2>1. \A v \in Workers \ {w} : job'[v] = job[v]
    BY <1>9 DEF ReadEntry, TypeInv
  <2>2. \A f \in Entries : ~Mutating(w, f) /\ ~Mutating(w, f)'
    BY <1>9, ReadEntryMoves
  <2> HIDE DEF Mutating
  <2> QED
    BY <1>9, <2>1, <2>2, CacheKept DEF ReadEntry
<1>10. ASSUME NEW w \in Workers, ResolveReferences(w)
      PROVE  CacheInv'
  <2>1. \A v \in Workers \ {w} : job'[v] = job[v]
    BY <1>10 DEF ResolveReferences, TypeInv
  <2>2. \A f \in Entries : ~Mutating(w, f) /\ ~Mutating(w, f)'
    BY <1>10, ReadPathAssumption DEF ResolveReferences, TypeInv, Job, HoldsOK,
       OneEntry
  <2> HIDE DEF Mutating
  <2> QED
    BY <1>10, <2>1, <2>2, CacheKept DEF ResolveReferences
<1>11. ASSUME NEW w \in Workers, LookUpTag(w)
      PROVE  CacheInv'
  <2>1. \A v \in Workers \ {w} : job'[v] = job[v]
    BY <1>11 DEF LookUpTag, TypeInv
  <2>2. \A f \in Entries : ~Mutating(w, f) /\ ~Mutating(w, f)'
    BY <1>11, ReadPathAssumption DEF LookUpTag, TypeInv, Job, HoldsOK, OneEntry
  <2> HIDE DEF Mutating
  <2> QED
    BY <1>11, <2>1, <2>2, CacheKept DEF LookUpTag
<1>12. ASSUME NEW w \in Workers, InsertTag(w)
      PROVE  CacheInv'
  <2>1. \A v \in Workers \ {w} : job'[v] = job[v]
    BY <1>12 DEF InsertTag, TypeInv
  <2>2. \A f \in Entries : ~Mutating(w, f) /\ ~Mutating(w, f)'
    BY <1>12, ReadPathAssumption DEF InsertTag, TypeInv, Job, HoldsOK, OneEntry
  <2> HIDE DEF Mutating
  <2> QED
    BY <1>12, <2>1, <2>2, CacheKept DEF InsertTag
<1>13. ASSUME NEW w \in Workers, WriteEntry(w)
      PROVE  CacheInv'
  BY <1>13, ReadPathAssumption DEF WriteEntry, CacheInv, AloneInv, OnTheWay,
     TypeInv, TypeOK, Job, HoldsOK, OneEntry
<1>14. ASSUME NEW w \in Workers, RemoveTag(w)
      PROVE  CacheInv'
  <2>1. /\ job[w].at = "removeTag" /\ job'[w].at = "reload"
        /\ job'[w].entry = job[w].entry /\ job'[w].alone = job[w].alone
        /\ \A v \in Workers \ {w} : job'[v] = job[v]
        /\ UNCHANGED <<docs, cache, contended>>
    BY <1>14 DEF RemoveTag, TypeInv, Job
  <2>2. \A v \in Workers, e \in Entries :
          Mutating(v, e)' <=> Mutating(v, e)
    BY <2>1
  <2>3. \A v \in Workers, e \in Entries :
          OnTheWay(v, e) => OnTheWay(v, e)'
    BY <2>1 DEF OnTheWay
  <2>4. \A v \in Workers : job'[v].alone = job[v].alone
    BY <2>1
  <2> QED
    BY <2>1, <2>2, <2>3, <2>4 DEF CacheInv
<1>15. ASSUME NEW w \in Workers, ReloadRead(w)
      PROVE  CacheInv'
  <2>1. /\ job[w] \in Job /\ HoldsOK(job[w])
        /\ \A v \in Workers \ {w} : job'[v] = job[v]
    BY <1>15 DEF ReloadRead, TypeInv
  <2>2. /\ job[w].entry \in Entries /\ job'[w].at = "insert"
        /\ job'[w].entry = job[w].entry /\ job'[w].alone = job[w].alone
        /\ job'[w].doc = docs[job[w].entry]
    BY <1>15, <2>1 DEF ReloadRead, HoldsOK, OneEntry, TypeInv, Job
  <2>3. \A f \in Entries :
          Mutating(w, f) => Mutating(w, f)' /\ OnTheWay(w, f)'
    BY <1>15, <2>2 DEF ReloadRead, OnTheWay
  <2>4. \A f \in Entries : ~Mutating(w, f) => ~Mutating(w, f)'
    BY <1>15, <2>2 DEF ReloadRead
  <2> HIDE DEF Mutating
  <2> QED
    BY <1>15, <2>1, <2>2, <2>3, <2>4, CacheStep DEF ReloadRead
<1>16. ASSUME NEW w \in Workers, ReloadInsert(w)
      PROVE  CacheInv'
  BY <1>16, ReadPathAssumption DEF ReloadInsert, CacheInv, AloneInv, OnTheWay,
     TypeInv, TypeOK, Job, HoldsOK, OneEntry
<1>17. ASSUME NEW w \in Workers, Unlink(w)
      PROVE  CacheInv'
  <2>1. /\ job[w] \in Job /\ HoldsOK(job[w])
        /\ \A v \in Workers \ {w} : job'[v] = job[v]
    BY <1>17 DEF Unlink, TypeInv
  <2>2. PICK e \in Entries :
        /\ e = job[w].entry
        /\ \A f \in Entries : Mutating(w, f) <=> f = e
    BY <1>17, <2>1 DEF Unlink, HoldsOK, OneEntry
  <2>3. CASE docs[e] = NoDoc
    <3>1. /\ job'[w].at = "idle"
          /\ \A f \in Entries : ~Mutating(w, f)'
      BY <1>17, <2>2, <2>3, ReadPathAssumption DEF Unlink, TypeInv
    <3>2. e \notin contended => cache[e] = docs[e]
      BY <1>17, <2>2 DEF Unlink, CacheInv, OnTheWay
    <3> HIDE DEF Mutating
    <3> QED
      BY <1>17, <2>1, <2>2, <2>3, <3>1, <3>2, CacheStep DEF Unlink
  <2>4. CASE docs[e] # NoDoc
    <3>1. /\ job'[w].at = "uncache" /\ job'[w].entry = e
          /\ job'[w].alone = job[w].alone
      BY <1>17, <2>1, <2>2, <2>4 DEF Unlink, TypeInv, Job
    <3>2. \A f \in Entries : Mutating(w, f)' <=> f = e
      BY <2>2, <3>1
    <3>3. docs' = [docs EXCEPT ![e] = NoDoc] /\ UNCHANGED <<cache, contended>>
      BY <1>17, <2>2, <2>4 DEF Unlink
    <3>4. OnTheWay(w, e)'
      BY <2>2, <3>1, <3>3 DEF OnTheWay, TypeInv, TypeOK
    <3>5. \A f \in Entries \ {e} : UNCHANGED <<docs[f], cache[f]>>
      BY <3>3 DEF TypeInv, TypeOK
    <3> HIDE DEF Mutating
    <3> QED
      BY <2>1, <2>2, <3>1, <3>2, <3>3, <3>4, <3>5, CacheStep
  <2> QED
    BY <2>3, <2>4
<1>18. ASSUME NEW w \in Workers, Uncache(w)
      PROVE  CacheInv'
  BY <1>18, ReadPathAssumption DEF Uncache, CacheInv, AloneInv, OnTheWay,
     TypeInv, TypeOK, Job, HoldsOK, OneEntry
<1>19. ASSUME NEW w \in Workers, Unpack(w)
      PROVE  CacheInv'
  BY <1>19, ReadPathAssumption DEF Unpack, CacheInv, AloneInv, OnTheWay,
     TypeInv, TypeOK, Job, HoldsOK, OneEntry
<1>20. ASSUME NEW w \in Workers, ClearCache(w)
      PROVE  CacheInv'
  <2>1. /\ job[w] \in Job /\ HoldsOK(job[w])
        /\ \A v \in Workers \ {w} : job'[v] = job[v]
    BY <1>20 DEF ClearCache, TypeInv
  <2>2. job'[w].at = "clearTags" /\ job'[w].alone = job[w].alone
    BY <1>20, <2>1 DEF ClearCache, TypeInv, Job
  <2>3. \A f \in Entries : Mutating(w, f) /\ Mutating(w, f)' /\ OnTheWay(w, f)'
    BY <1>20, <2>2 DEF ClearCache, OnTheWay, NoDocs
  <2> HIDE DEF Mutating
  <2> QED
    BY <1>20, <2>1, <2>2, <2>3, CacheStep DEF ClearCache
<1>21. ASSUME NEW w \in Workers, ClearTags(w)
      PROVE  CacheInv'
  BY <1>21, ReadPathAssumption DEF ClearTags, CacheInv, AloneInv, OnTheWay,
     TypeInv, TypeOK, Job, HoldsOK, OneEntry
<1>22. ASSUME NEW w \in Workers, ListEntries(w)
      PROVE  CacheInv'
  <2>1. /\ job[w] \in Job /\ HoldsOK(job[w])
        /\ \A v \in Workers \ {w} : job'[v] = job[v]
    BY <1>22 DEF ListEntries, TypeInv
  <2>2. /\ job'[w].at = "insertAll" /\ job'[w].alone = job[w].alone
        /\ job'[w].docs = Populated /\ job'[w].schema = schema
    BY <1>22, <2>1 DEF ListEntries, TypeInv, Job
  <2>3. \A f \in Entries :
          /\ Mutating(w, f) /\ Mutating(w, f)'
          /\ OnTheWay(w, f) => OnTheWay(w, f)'
    BY <1>22, <2>2 DEF ListEntries, OnTheWay, Populated
  <2>4. \A f \in Entries : f \notin contended \/ job[w].alone => OnTheWay(w, f)
    BY <2>3 DEF CacheInv
  <2> HIDE DEF Mutating
  <2> QED
    BY <1>22, <2>1, <2>2, <2>3, <2>4, CacheStep DEF ListEntries
<1>23. ASSUME NEW w \in Workers, InsertAll(w)
      PROVE  CacheInv'
  <2>1. /\ job[w] \in Job /\ HoldsOK(job[w])
        /\ \A v \in Workers \ {w} : job'[v] = job[v]
    BY <1>23 DEF InsertAll, TypeInv
  <2>2. /\ \A f \in Entries : Mutating(w, f) /\ ~Mutating(w, f)'
        /\ \A f \in Entries, v \in Workers \ {w} :
             Mutating(v, f)' <=> Mutating(v, f)
    BY <1>23, <2>1, ReadPathAssumption DEF InsertAll, TypeInv
  <2>3. \A f \in Entries :
          /\ cache'[f] = IF job[w].docs[f] = NoDoc THEN cache[f]
                                                 ELSE job[w].docs[f]
          /\ docs'[f] = docs[f]
    BY <1>23 DEF InsertAll
  <2>4. ASSUME NEW f \in Entries, f \notin contended'
        PROVE  f \notin contended \/ job[w].alone
    BY <1>23, <2>4 DEF InsertAll
  <2>5. ASSUME NEW f \in Entries, f \notin contended'
        PROVE  cache'[f] = docs'[f]
    <3>1. Readable(job[w].schema)
      <4>1. ~Readable(job[w].schema) => contended' = Entries
        BY <1>23 DEF InsertAll
      <4> QED
        BY <2>5, <4>1
    <3>2. OnTheWay(w, f)
      BY <2>2, <2>4, <2>5 DEF CacheInv
    <3> QED
      BY <1>23, <2>3, <3>1, <3>2 DEF OnTheWay, InsertAll
  <2>6. ASSUME NEW f \in Entries, NEW v \in Workers, Mutating(v, f)'
        PROVE  f \in contended' /\ ~job'[v].alone
    <3>1. v # w /\ Mutating(v, f)
      BY <2>2, <2>6
    <3>2. f \in contended /\ ~job[v].alone /\ ~job[w].alone
      BY <2>2, <3>1 DEF AloneInv
    <3> QED
      BY <1>23, <2>1, <3>1, <3>2 DEF InsertAll
  <2> HIDE DEF Mutating
  <2> QED
    BY <2>5, <2>6 DEF CacheInv
<1>24. ASSUME NEW w \in Workers, TruncateSchema(w)
      PROVE  CacheInv'
  <2>1. \A v \in Workers \ {w} : job'[v] = job[v]
    BY <1>24 DEF TruncateSchema, TypeInv
  <2>2. \A f \in Entries : ~Mutating(w, f) /\ ~Mutating(w, f)'
    BY <1>24, ReadPathAssumption DEF TruncateSchema, TypeInv, Job, HoldsOK,
       OneEntry
  <2> HIDE DEF Mutating
  <2> QED
    BY <1>24, <2>1, <2>2, CacheKept DEF TruncateSchema
<1>25. ASSUME NEW w \in Workers, WriteSchema(w)
      PROVE  CacheInv'
  <2>1. \A v \in Workers \ {w} : job'[v] = job[v]
    BY <1>25 DEF WriteSchema, TypeInv
  <2>2. \A f \in Entries : ~Mutating(w, f) /\ ~Mutating(w, f)'
    BY <1>25, ReadPathAssumption DEF WriteSchema, TypeInv, Job, HoldsOK,
       OneEntry
  <2> HIDE DEF Mutating
  <2> QED
    BY <1>25, <2>1, <2>2, CacheKept DEF WriteSchema
<1>26. ASSUME NEW w \in Workers, GenerateSpec(w)
      PROVE  CacheInv'
  <2>1. \A v \in Workers \ {w} : job'[v] = job[v]
    BY <1>26 DEF GenerateSpec, TypeInv
  <2>2. \A f \in Entries : ~Mutating(w, f) /\ ~Mutating(w, f)'
    BY <1>26, ReadPathAssumption DEF GenerateSpec, TypeInv, Job, HoldsOK,
       OneEntry
  <2> HIDE DEF Mutating
  <2> QED
    BY <1>26, <2>1, <2>2, CacheKept DEF GenerateSpec
<1>27. ASSUME NEW w \in Workers, StoreSpec(w)
      PROVE  CacheInv'
  <2>1. \A v \in Workers \ {w} : job'[v] = job[v]
    BY <1>27 DEF StoreSpec, TypeInv
  <2>2. \A f \in Entries : ~Mutating(w, f) /\ ~Mutating(w, f)'
    BY <1>27, ReadPathAssumption DEF StoreSpec, TypeInv, Job, HoldsOK, OneEntry
  <2> HIDE DEF Mutating
  <2> QED
    BY <1>27, <2>1, <2>2, CacheKept DEF StoreSpec
<1>28. ASSUME NEW e \in Entries, NEW d \in MaybeDocs, EditEntry(e, d)
      PROVE  CacheInv'
  BY <1>28, ReadPathAssumption DEF EditEntry, CacheInv, AloneInv, OnTheWay,
     TypeInv, TypeOK, Job, HoldsOK, OneEntry
<1>29. ASSUME NEW s \in Schemas \union {Absent}, EditSchema(s)
      PROVE  CacheInv'
  BY <1>29, ReadPathAssumption DEF EditSchema, CacheInv, AloneInv, OnTheWay,
     TypeInv, TypeOK, Job, HoldsOK, OneEntry
<1>30. CASE Receive
  BY <1>30, ReadPathAssumption DEF Receive, CacheInv, AloneInv, OnTheWay,
     TypeInv, TypeOK, Job, HoldsOK, OneEntry
<1>31. CASE Quiet
  BY <1>31, ReadPathAssumption DEF Quiet, CacheInv, AloneInv, OnTheWay, TypeInv,
     TypeOK, Job, HoldsOK, OneEntry
<1>32. CASE Rebuild
  BY <1>32, ReadPathAssumption DEF Rebuild, CacheInv, AloneInv, OnTheWay,
     TypeInv, TypeOK, Job, HoldsOK, OneEntry
<1> QED
  BY <1>1, <1>2, <1>3, <1>4, <1>5, <1>6, <1>7, <1>8, <1>9, <1>10, <1>11, <1>12,
     <1>13, <1>14, <1>15, <1>16, <1>17, <1>18, <1>19, <1>20, <1>21, <1>22,
     <1>23, <1>24, <1>25, <1>26, <1>27, <1>28, <1>29, <1>30, <1>31, <1>32 DEF
     Next, Request, Step, ByHand, Watch

\* The caches a server starts with satisfy the invariant.
LEMMA InitInv == Init => Inv
<1> SUFFICES ASSUME Init PROVE Inv
  OBVIOUS
<1>1. \A w \in Workers : job[w] = Idle
  BY DEF Init
<1>2. Populated \in [Entries -> MaybeDocs]
  BY DEF Init, Populated, NoDocs, MaybeDocs
<1>3. TypeInv
  <2>1. job \in [Workers -> Job] /\ \A w \in Workers : HoldsOK(job[w])
    BY <1>1, IdleTyped DEF Init
  <2>2. \A w \in Workers : job[w] \in Job
    BY <2>1
  <2>3. etags \in [Entries -> Tags \union {None}]
    BY DEF Init
  <2>4. requests \in 0..MaxRequests /\ edits \in 0..MaxEdits
    BY ReadPathAssumption DEF Init
  <2> QED
    BY <1>2, <2>1, <2>2, <2>3, <2>4 DEF Init, TypeInv, TypeOK, Job
<1>4. \A w \in Workers, e \in Entries : ~Mutating(w, e)
  BY <1>1 DEF Mutating, Importing, At, Idle
<1>5. AloneInv
  BY <1>4 DEF AloneInv
<1>6. CacheInv
  BY <1>4 DEF CacheInv, Init, Populated
<1>7. TagsFollowDocs
  BY DEF TagsFollowDocs, Init
<1> QED
  BY <1>3, <1>5, <1>6, <1>7 DEF Inv

\* The parts of the invariant hold together.
LEMMA InvHolds == Spec => []Inv
<1>1. Inv /\ [Next]_vars => Inv'
  BY TypeInvStep, AloneInvStep, CacheInvStep, TagsFollowDocsStep DEF Inv
<1> QED
  BY InitInv, <1>1, PTL DEF Spec

-----------------------------------------------------------------------------

\* TypeOK: files, caches and requests have their types.
THEOREM TypeCorrect == Spec => []TypeOK
<1>1. Inv => TypeOK
  BY DEF Inv, TypeInv
<1> QED
  BY InvHolds, <1>1, PTL

\* TagsFollowDocs: a cached tag is that of the document on disk, unless a save
\* or an import is about to remove it, a GET inserted it late, or a hand
\* changed the file.
THEOREM TagsFollowDocsHolds == Spec => []TagsFollowDocs
<1>1. Inv => TagsFollowDocs
  BY DEF Inv
<1> QED
  BY InvHolds, <1>1, PTL

\* CacheAgrees: what references are resolved from is what is on disk, for every
\* entry no request is changing and none changed while another did.
THEOREM CacheAgreesHolds == Spec => []CacheAgrees
<1>1. Inv => CacheAgrees
  BY DEF Inv, CacheInv, CacheAgrees
<1> QED
  BY InvHolds, <1>1, PTL

==============================================================================
