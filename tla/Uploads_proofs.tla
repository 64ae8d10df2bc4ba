--------------------------- MODULE Uploads_proofs ----------------------------
(***************************************************************************)
(* Proofs about Uploads: what is referenced or promised is kept, and an    *)
(* import restores its bundle, whatever requests overlap and wherever the  *)
(* server stops, but for the overlaps the model excuses.                   *)
(***************************************************************************)
EXTENDS Uploads, TLAPS

\* What a job and a bundle may hold.
Job == [at : Labels, hash : Hashes \union {None}, entry : Entries \union {None},
        hashes : [Entries -> Docs], flag : BOOLEAN]
Bundle == [rows : SUBSET Hashes, docs : [Entries -> Docs],
           files : [Hashes -> {"none", "part", "full"}], clean : BOOLEAN]

\* The requests about one upload, and about one entry.
OneHash == {"exists", "create", "write", "row", "meta", "read", "readUntyped",
            "servedFull", "servedLess", "unlink", "deleteRow"}
OneEntry == {"save", "references", "unreference", "remove"}
HoldsOK(j) == /\ j.at \in OneHash => j.hash \in Hashes
              /\ j.at \in OneEntry => j.entry \in Entries
              /\ j.at \in {"save", "references"} => j.hashes[j.entry] # NoDoc

\* TypeOK, with the types of the bundle and of what a job needs.
TypeInv ==
  /\ TypeOK
  /\ bundle \in Bundle
  /\ \A w \in Workers : HoldsOK(job[w])

\* Who is alone is the only one that runs.
AloneInv ==
  \A v, w \in Workers : v # w /\ alone[w] /\ ~At(w, "idle") => At(v, "idle")

\* How far the import of worker w has come.
ImportOf(w) ==
  /\ job[w].at \in {"unpackFiles", "closeFiles", "importRows", "scan",
                    "populate", "imported"} =>
       \A e \in Entries : bundle.docs[e] # NoDoc => docs[e] = bundle.docs[e]
  /\ job[w].at \in {"importRows", "scan", "populate", "imported"} =>
       \A h \in Hashes : bundle.files[h] \in {"none", files[h]}
  /\ job[w].at \in {"scan", "populate", "imported"} => bundle.rows \subseteq rows
  /\ At(w, "populate") => job[w].hashes = docs
  /\ At(w, "imported") =>
       \A e \in Entries, h \in Hashes :
         docs[e] # NoDoc => (<<e, h>> \in refs <=> h \in docs[e])

ImportInv == \A w \in Workers : alone[w] => ImportOf(w)

\* The row is there, and so are the bytes, unless an import is rewriting them.
Whole(h) ==
  /\ h \in rows
  /\ \/ files[h] = "full"
     \/ /\ files[h] = "part" /\ bundle.files[h] = "full"
        /\ \E w \in Workers : At(w, "closeFiles")

\* What worker w owes to the upload h.
KeptBy(w, h) ==
  /\ Saving(w, h) => Whole(h)
  /\ Storing(w, h) =>
       /\ At(w, "create") => files[h] = "none"
       /\ At(w, "write") => files[h] = "part"
       /\ At(w, "row") => files[h] = "full"
  /\ Deleting(w, h) =>
       /\ \A e \in Entries : <<e, h>> \notin refs
       /\ At(w, "deleteRow") => h \notin stored

\* An upload is whole while it is referenced, while its author relies on it,
\* and while a document that names it is being saved.
Kept(h) ==
  /\ ~Overlap(h) \/ Forgotten(h)
  /\ (\E e \in Entries : <<e, h>> \in refs) => Whole(h)
  /\ h \in stored => Whole(h)
  /\ \A w \in Workers : KeptBy(w, h)

\* But for the excused overlaps, every upload is kept.
KeptInv == \A h \in Hashes \ excused : Kept(h)

\* Who was promised the bytes does not get less.
ServeInv ==
  \A w \in Workers : job[w].at \in {"readUntyped", "servedLess"} => ~job[w].flag

Inv == TypeInv /\ AloneInv /\ ImportInv /\ KeptInv /\ ServeInv

-----------------------------------------------------------------------------
\* A worker that has nothing to do is typed, and so is no bundle.
LEMMA IdleTyped == Idle \in Job /\ HoldsOK(Idle) /\ NoBundle \in Bundle
BY DEF Idle, Job, Labels, Docs, HoldsOK, OneHash, OneEntry, NoBundle, Bundle

\* The history variables are typed after any step.
LEMMA ObserveTyped ==
  ASSUME Observe
  PROVE  alone' \in [Workers -> BOOLEAN] /\ excused' \subseteq Hashes
BY DEF Observe

\* A step of one worker leaves every job typed.
LEMMA OneJob ==
  ASSUME TypeInv, NEW w \in Workers, NEW j \in Job, HoldsOK(j),
         job' = [job EXCEPT ![w] = j]
  PROVE  /\ job' \in [Workers -> Job]
         /\ \A v \in Workers : HoldsOK(job'[v])
BY DEF TypeInv, TypeOK, Job

\* A request that begins leaves everything typed.
LEMMA BeginTyped ==
  ASSUME TypeInv, NEW w \in Workers, NEW j \in Job, HoldsOK(j), Begin(w, j), Observe
  PROVE  TypeInv'
<1>1. job' \in [Workers -> Job] /\ \A v \in Workers : HoldsOK(job'[v])
  BY OneJob DEF Begin
<1>2. requests' \in 0..MaxRequests
  BY UploadsAssumption DEF Begin, TypeInv, TypeOK
<1> QED
  BY <1>1, <1>2, ObserveTyped DEF Begin, TypeInv, TypeOK, Job, disk, database

\* A step that goes on, or answers, leaves every job typed.
LEMMA StepTyped ==
  ASSUME TypeInv, NEW w \in Workers, NEW l \in Labels,
         l \in OneHash => job[w].at \in OneHash,
         l \in OneEntry => job[w].at \in OneEntry,
         l \in {"save", "references"} => job[w].at \in {"save", "references"},
         GoTo(w, l) \/ Answer(w)
  PROVE  /\ job' \in [Workers -> Job]
         /\ \A v \in Workers : HoldsOK(job'[v])
<1>1. job[w] \in Job /\ HoldsOK(job[w])
  BY DEF TypeInv, TypeOK, Job
<1>2. [job[w] EXCEPT !.at = l] \in Job /\ HoldsOK([job[w] EXCEPT !.at = l])
  BY <1>1 DEF Job, HoldsOK
<1>3. CASE GoTo(w, l)
  <2>1. job' = [job EXCEPT ![w] = [job[w] EXCEPT !.at = l]]
    BY <1>3 DEF GoTo
  <2> QED
    BY <1>2, <2>1, OneJob
<1>4. CASE Answer(w)
  BY <1>4, IdleTyped, OneJob DEF Answer
<1> QED
  BY <1>3, <1>4

\* Serving keeps the job typed.
LEMMA ServeTyped ==
  ASSUME TypeInv, NEW w \in Workers,
         NEW l \in {"read", "readUntyped", "servedFull", "servedLess"},
         job[w].at \in OneHash, Serve(w, l)
  PROVE  /\ job' \in [Workers -> Job]
         /\ \A v \in Workers : HoldsOK(job'[v])
<1>1. job[w] \in Job /\ HoldsOK(job[w])
  BY DEF TypeInv, TypeOK, Job
<1> DEFINE yes == job[w].flag /\ job[w].hash \in stored \ excused
           j == [job[w] EXCEPT !.at = l, !.flag = yes]
<1>2. yes \in BOOLEAN
  OBVIOUS
<1>3. job' = [job EXCEPT ![w] = j]
  BY DEF Serve
<1> HIDE DEF yes
<1>4. j \in Job /\ HoldsOK(j)
  BY <1>1, <1>2 DEF Job, HoldsOK, Labels, OneHash, OneEntry
<1> QED
  BY <1>3, <1>4, OneJob

\* Every action keeps the types.
LEMMA TypeInvStep == TypeInv /\ [Next]_vars => TypeInv'
<1> SUFFICES ASSUME TypeInv, [Next]_vars PROVE TypeInv'
  OBVIOUS
<1> USE DEF vars, disk, database, bounds
<1>1. CASE UNCHANGED vars
  BY <1>1 DEF TypeInv, TypeOK
<1>2. CASE Crash /\ Observe
  <2>1. job' \in [Workers -> Job] /\ \A v \in Workers : HoldsOK(job'[v])
    BY <1>2, IdleTyped DEF Crash
  <2>2. bundle' \in Bundle
    BY <1>2, IdleTyped DEF Crash, TypeInv
  <2>3. crashes' \in 0..MaxCrashes
    BY <1>2, UploadsAssumption DEF Crash, TypeInv, TypeOK
  <2> QED
    BY <1>2, <2>1, <2>2, <2>3, ObserveTyped DEF Crash, TypeInv, TypeOK, Job
<1>3. ASSUME NEW w \in Workers, NEW h \in Hashes,
             UploadFile(w, h), Observe
      PROVE  TypeInv'
  <2> DEFINE j == [Idle EXCEPT !.at = "exists", !.hash = h]
  <2>1. j \in Job /\ HoldsOK(j)
    BY <1>3, UploadsAssumption DEF Idle, Job, Labels, Docs, HoldsOK, OneHash,
       OneEntry
  <2>2. Begin(w, j)
    BY <1>3 DEF UploadFile
  <2> QED
    BY <1>3, <2>1, <2>2, BeginTyped
<1>4. ASSUME NEW w \in Workers, NEW h \in Hashes,
             ApiUploadFile(w, h), Observe
      PROVE  TypeInv'
  <2> DEFINE j == [Idle EXCEPT !.at = "exists", !.hash = h]
  <2>1. j \in Job /\ HoldsOK(j)
    BY <1>4, UploadsAssumption DEF Idle, Job, Labels, Docs, HoldsOK, OneHash,
       OneEntry
  <2>2. Begin(w, j)
    BY <1>4 DEF ApiUploadFile
  <2> QED
    BY <1>4, <2>1, <2>2, BeginTyped
<1>5. ASSUME NEW w \in Workers, NEW h \in Hashes,
             ServeFile(w, h), Observe
      PROVE  TypeInv'
  <2> DEFINE yes == h \in stored
             j == [Idle EXCEPT !.at = "meta", !.hash = h, !.flag = yes]
  <2>0. yes \in BOOLEAN
    OBVIOUS
  <2>2. Begin(w, j)
    BY <1>5 DEF ServeFile
  <2> HIDE DEF yes
  <2>1. j \in Job /\ HoldsOK(j)
    BY <1>5, <2>0, UploadsAssumption DEF Idle, Job, Labels, Docs, HoldsOK,
       OneHash, OneEntry
  <2> QED
    BY <1>5, <2>1, <2>2, BeginTyped
<1>6. ASSUME NEW w \in Workers, NEW h \in Hashes,
             SetFocalPoint(w, h), Observe
      PROVE  TypeInv'
  <2>1. focal' \subseteq rows /\ requests' \in 0..MaxRequests
    BY <1>6, UploadsAssumption DEF SetFocalPoint, TypeInv, TypeOK
  <2> QED
    BY <1>6, <2>1, ObserveTyped DEF SetFocalPoint, TypeInv, TypeOK
<1>7. ASSUME NEW w \in Workers, NEW h \in Hashes,
             DeleteUpload(w, h), Observe
      PROVE  TypeInv'
  <2> DEFINE j == [Idle EXCEPT !.at = "unlink", !.hash = h]
  <2>1. j \in Job /\ HoldsOK(j)
    BY <1>7, UploadsAssumption DEF Idle, Job, Labels, Docs, HoldsOK, OneHash,
       OneEntry
  <2>2. Begin(w, j)
    BY <1>7 DEF DeleteUpload
  <2> QED
    BY <1>7, <2>1, <2>2, BeginTyped
<1>8. ASSUME NEW w \in Workers, NEW e \in Entries, NEW hs \in SUBSET Hashes,
             NEW records \in BOOLEAN,
             SaveEntry(w, e, hs, records), Observe
      PROVE  TypeInv'
  <2> DEFINE j == [Idle EXCEPT !.at = "save", !.entry = e, !.hashes[e] = hs,
                          !.flag = records]
  <2>1. j \in Job /\ HoldsOK(j)
    BY <1>8, UploadsAssumption DEF Idle, Job, Labels, Docs, HoldsOK, OneHash,
       OneEntry
  <2>2. Begin(w, j)
    BY <1>8 DEF SaveEntry
  <2> QED
    BY <1>8, <2>1, <2>2, BeginTyped
<1>9. ASSUME NEW w \in Workers, NEW e \in Entries,
             DeleteEntry(w, e), Observe
      PROVE  TypeInv'
  <2> DEFINE j == [Idle EXCEPT !.at = "unreference", !.entry = e]
  <2>1. j \in Job /\ HoldsOK(j)
    BY <1>9, UploadsAssumption DEF Idle, Job, Labels, Docs, HoldsOK, OneHash,
       OneEntry
  <2>2. Begin(w, j)
    BY <1>9 DEF DeleteEntry
  <2> QED
    BY <1>9, <2>1, <2>2, BeginTyped
<1>10. ASSUME NEW w \in Workers,
             ExportBundle(w), Observe
      PROVE  TypeInv'
  <2> DEFINE j == [Idle EXCEPT !.at = "manifest"]
  <2>1. j \in Job /\ HoldsOK(j)
    BY <1>10, UploadsAssumption DEF Idle, Job, Labels, Docs, HoldsOK, OneHash,
       OneEntry
  <2>2. Begin(w, j)
    BY <1>10 DEF ExportBundle
  <2> QED
    BY <1>10, <2>1, <2>2, BeginTyped
<1>11. ASSUME NEW w \in Workers,
             ExportData(w), Observe
      PROVE  TypeInv'
  <2> DEFINE j == [Idle EXCEPT !.at = "manifest"]
  <2>1. j \in Job /\ HoldsOK(j)
    BY <1>11, UploadsAssumption DEF Idle, Job, Labels, Docs, HoldsOK, OneHash,
       OneEntry
  <2>2. Begin(w, j)
    BY <1>11 DEF ExportData, ExportBundle
  <2> QED
    BY <1>11, <2>1, <2>2, BeginTyped
<1>12. ASSUME NEW w \in Workers,
             ImportBundle(w), Observe
      PROVE  TypeInv'
  <2> DEFINE j == [Idle EXCEPT !.at = "unpackDocs"]
  <2>1. j \in Job /\ HoldsOK(j)
    BY <1>12, UploadsAssumption DEF Idle, Job, Labels, Docs, HoldsOK, OneHash,
       OneEntry
  <2>2. Begin(w, j)
    BY <1>12 DEF ImportBundle
  <2> QED
    BY <1>12, <2>1, <2>2, BeginTyped
<1>13. ASSUME NEW w \in Workers,
             ImportData(w), Observe
      PROVE  TypeInv'
  <2> DEFINE j == [Idle EXCEPT !.at = "unpackDocs"]
  <2>1. j \in Job /\ HoldsOK(j)
    BY <1>13, UploadsAssumption DEF Idle, Job, Labels, Docs, HoldsOK, OneHash,
       OneEntry
  <2>2. Begin(w, j)
    BY <1>13 DEF ImportData, ImportBundle
  <2> QED
    BY <1>13, <2>1, <2>2, BeginTyped
<1>14. ASSUME NEW w \in Workers,
             FindFile(w), Observe
      PROVE  TypeInv'
  <2>1. /\ job' \in [Workers -> Job]
        /\ \A v \in Workers : HoldsOK(job'[v])
    BY <1>14, StepTyped DEF FindFile, At, Labels, OneHash, OneEntry
  <2> QED
    BY <1>14, <2>1, ObserveTyped DEF FindFile, TypeInv, TypeOK, Job, HoldsOK,
       OneHash, OneEntry, Bundle
<1>15. ASSUME NEW w \in Workers,
             CreateFile(w), Observe
      PROVE  TypeInv'
  <2>1. /\ job' \in [Workers -> Job]
        /\ \A v \in Workers : HoldsOK(job'[v])
    BY <1>15, StepTyped DEF CreateFile, At, Labels, OneHash, OneEntry
  <2>2. files' \in [Hashes -> {"none", "part", "full"}]
    BY <1>15 DEF CreateFile, TypeInv, TypeOK, Job, HoldsOK, OneHash, OneEntry,
       At, Docs
  <2> QED
    BY <1>15, <2>1, <2>2, ObserveTyped DEF CreateFile, TypeInv, TypeOK, Job,
       HoldsOK, OneHash, OneEntry, Bundle
<1>16. ASSUME NEW w \in Workers,
             WriteFile(w), Observe
      PROVE  TypeInv'
  <2>1. /\ job' \in [Workers -> Job]
        /\ \A v \in Workers : HoldsOK(job'[v])
    BY <1>16, StepTyped DEF WriteFile, At, Labels, OneHash, OneEntry
  <2>2. files' \in [Hashes -> {"none", "part", "full"}]
    BY <1>16 DEF WriteFile, TypeInv, TypeOK, Job, HoldsOK, OneHash, OneEntry,
       At, Docs
  <2> QED
    BY <1>16, <2>1, <2>2, ObserveTyped DEF WriteFile, TypeInv, TypeOK, Job,
       HoldsOK, OneHash, OneEntry, Bundle
<1>17. ASSUME NEW w \in Workers,
             InsertRow(w), Observe
      PROVE  TypeInv'
  <2>1. /\ job' \in [Workers -> Job]
        /\ \A v \in Workers : HoldsOK(job'[v])
    BY <1>17, StepTyped DEF InsertRow, At, Labels, OneHash, OneEntry
  <2>2. rows' \subseteq Hashes /\ stored' \subseteq Hashes
    BY <1>17 DEF InsertRow, TypeInv, TypeOK, Job, HoldsOK, OneHash, At
  <2> QED
    BY <1>17, <2>1, <2>2, ObserveTyped DEF InsertRow, TypeInv, TypeOK, Job,
       HoldsOK, OneHash, OneEntry, Bundle
<1>18. ASSUME NEW w \in Workers,
             ReadMeta(w), Observe
      PROVE  TypeInv'
  <2>1. /\ job' \in [Workers -> Job]
        /\ \A v \in Workers : HoldsOK(job'[v])
    BY <1>18, ServeTyped DEF ReadMeta, At, OneHash
  <2> QED
    BY <1>18, <2>1, ObserveTyped DEF ReadMeta, TypeInv, TypeOK, Job
<1>19. ASSUME NEW w \in Workers,
             ReadFile(w), Observe
      PROVE  TypeInv'
  <2>1. /\ job' \in [Workers -> Job]
        /\ \A v \in Workers : HoldsOK(job'[v])
    BY <1>19, ServeTyped DEF ReadFile, At, OneHash
  <2> QED
    BY <1>19, <2>1, ObserveTyped DEF ReadFile, TypeInv, TypeOK, Job
<1>20. ASSUME NEW w \in Workers,
             Served(w), Observe
      PROVE  TypeInv'
  <2>1. /\ job' \in [Workers -> Job]
        /\ \A v \in Workers : HoldsOK(job'[v])
    BY <1>20, StepTyped DEF Served, At, Labels, OneHash, OneEntry
  <2> QED
    BY <1>20, <2>1, ObserveTyped DEF Served, TypeInv, TypeOK, Job, HoldsOK,
       OneHash, OneEntry, Bundle
<1>21. ASSUME NEW w \in Workers,
             DeleteUploadFile(w), Observe
      PROVE  TypeInv'
  <2>1. /\ job' \in [Workers -> Job]
        /\ \A v \in Workers : HoldsOK(job'[v])
    BY <1>21, StepTyped DEF DeleteUploadFile, At, Labels, OneHash, OneEntry
  <2>2. files' \in [Hashes -> {"none", "part", "full"}]
    BY <1>21 DEF DeleteUploadFile, TypeInv, TypeOK, Job, HoldsOK, OneHash,
       OneEntry, At, Docs
  <2> QED
    BY <1>21, <2>1, <2>2, ObserveTyped DEF DeleteUploadFile, TypeInv, TypeOK,
       Job, HoldsOK, OneHash, OneEntry, Bundle
<1>22. ASSUME NEW w \in Workers,
             DeleteRow(w), Observe
      PROVE  TypeInv'
  <2>1. /\ job' \in [Workers -> Job]
        /\ \A v \in Workers : HoldsOK(job'[v])
    BY <1>22, StepTyped DEF DeleteRow, At, Labels, OneHash, OneEntry
  <2>2. rows' \subseteq Hashes /\ focal' \subseteq rows'
    BY <1>22 DEF DeleteRow, TypeInv, TypeOK, Job, HoldsOK, OneHash, OneEntry,
       At, Docs
  <2> QED
    BY <1>22, <2>1, <2>2, ObserveTyped DEF DeleteRow, TypeInv, TypeOK, Job,
       HoldsOK, OneHash, OneEntry, Bundle
<1>23. ASSUME NEW w \in Workers,
             SaveDocument(w), Observe
      PROVE  TypeInv'
  <2>1. /\ job' \in [Workers -> Job]
        /\ \A v \in Workers : HoldsOK(job'[v])
    BY <1>23, StepTyped DEF SaveDocument, At, Labels, OneHash, OneEntry
  <2>2. docs' \in [Entries -> Docs]
    BY <1>23 DEF SaveDocument, TypeInv, TypeOK, Job, HoldsOK, OneHash, OneEntry,
       At, Docs
  <2> QED
    BY <1>23, <2>1, <2>2, ObserveTyped DEF SaveDocument, TypeInv, TypeOK, Job,
       HoldsOK, OneHash, OneEntry, Bundle
<1>24. ASSUME NEW w \in Workers,
             UpdateReferences(w), Observe
      PROVE  TypeInv'
  <2>1. /\ job' \in [Workers -> Job]
        /\ \A v \in Workers : HoldsOK(job'[v])
    BY <1>24, StepTyped DEF UpdateReferences, At, Labels, OneHash, OneEntry
  <2>2. refs' \subseteq Entries \X Hashes
    BY <1>24 DEF UpdateReferences, TypeInv, TypeOK, Job, HoldsOK, OneHash,
       OneEntry, At, Docs, Except, RefsOf, HashesOf
  <2> QED
    BY <1>24, <2>1, <2>2, ObserveTyped DEF UpdateReferences, TypeInv, TypeOK,
       Job, HoldsOK, OneHash, OneEntry, Bundle
<1>25. ASSUME NEW w \in Workers,
             DeleteReferences(w), Observe
      PROVE  TypeInv'
  <2>1. /\ job' \in [Workers -> Job]
        /\ \A v \in Workers : HoldsOK(job'[v])
    BY <1>25, StepTyped DEF DeleteReferences, At, Labels, OneHash, OneEntry
  <2>2. refs' \subseteq Entries \X Hashes
    BY <1>25 DEF DeleteReferences, TypeInv, TypeOK, Job, HoldsOK, OneHash,
       OneEntry, At, Docs, Except, RefsOf, HashesOf
  <2> QED
    BY <1>25, <2>1, <2>2, ObserveTyped DEF DeleteReferences, TypeInv, TypeOK,
       Job, HoldsOK, OneHash, OneEntry, Bundle
<1>26. ASSUME NEW w \in Workers,
             RemoveDocument(w), Observe
      PROVE  TypeInv'
  <2>1. /\ job' \in [Workers -> Job]
        /\ \A v \in Workers : HoldsOK(job'[v])
    BY <1>26, StepTyped DEF RemoveDocument, At, Labels, OneHash, OneEntry
  <2>2. docs' \in [Entries -> Docs]
    BY <1>26 DEF RemoveDocument, TypeInv, TypeOK, Job, HoldsOK, OneHash,
       OneEntry, At, Docs
  <2> QED
    BY <1>26, <2>1, <2>2, ObserveTyped DEF RemoveDocument, TypeInv, TypeOK, Job,
       HoldsOK, OneHash, OneEntry, Bundle
<1>27. ASSUME NEW w \in Workers,
             WriteManifest(w), Observe
      PROVE  TypeInv'
  <2>1. /\ job' \in [Workers -> Job]
        /\ \A v \in Workers : HoldsOK(job'[v])
    BY <1>27, StepTyped DEF WriteManifest, At, Labels, OneHash, OneEntry
  <2>2. bundle' \in Bundle
    BY <1>27, IdleTyped DEF WriteManifest, TypeInv, TypeOK, Job, HoldsOK,
       OneHash, OneEntry, At, Docs, Bundle, NoBundle
  <2> QED
    BY <1>27, <2>1, <2>2, ObserveTyped DEF WriteManifest, TypeInv, TypeOK, Job,
       HoldsOK, OneHash, OneEntry, Bundle
<1>28. ASSUME NEW w \in Workers,
             TarDocuments(w), Observe
      PROVE  TypeInv'
  <2>1. /\ job' \in [Workers -> Job]
        /\ \A v \in Workers : HoldsOK(job'[v])
    BY <1>28, StepTyped DEF TarDocuments, At, Labels, OneHash, OneEntry
  <2>2. bundle' \in Bundle
    BY <1>28, IdleTyped DEF TarDocuments, TypeInv, TypeOK, Job, HoldsOK,
       OneHash, OneEntry, At, Docs, Bundle, NoBundle
  <2> QED
    BY <1>28, <2>1, <2>2, ObserveTyped DEF TarDocuments, TypeInv, TypeOK, Job,
       HoldsOK, OneHash, OneEntry, Bundle
<1>29. ASSUME NEW w \in Workers,
             TarFiles(w), Observe
      PROVE  TypeInv'
  <2>1. /\ job' \in [Workers -> Job]
        /\ \A v \in Workers : HoldsOK(job'[v])
    BY <1>29, StepTyped DEF TarFiles, At, Labels, OneHash, OneEntry
  <2>2. bundle' \in Bundle
    BY <1>29, IdleTyped DEF TarFiles, TypeInv, TypeOK, Job, HoldsOK, OneHash,
       OneEntry, At, Docs, Bundle, NoBundle
  <2> QED
    BY <1>29, <2>1, <2>2, ObserveTyped DEF TarFiles, TypeInv, TypeOK, Job,
       HoldsOK, OneHash, OneEntry, Bundle
<1>30. ASSUME NEW w \in Workers,
             UnpackDocuments(w), Observe
      PROVE  TypeInv'
  <2>1. /\ job' \in [Workers -> Job]
        /\ \A v \in Workers : HoldsOK(job'[v])
    BY <1>30, StepTyped DEF UnpackDocuments, At, Labels, OneHash, OneEntry
  <2>2. docs' \in [Entries -> Docs]
    BY <1>30 DEF UnpackDocuments, TypeInv, TypeOK, Job, HoldsOK, OneHash,
       OneEntry, At, Docs, Bundle
  <2> QED
    BY <1>30, <2>1, <2>2, ObserveTyped DEF UnpackDocuments, TypeInv, TypeOK,
       Job, HoldsOK, OneHash, OneEntry, Bundle
<1>31. ASSUME NEW w \in Workers,
             UnpackFiles(w), Observe
      PROVE  TypeInv'
  <2>1. /\ job' \in [Workers -> Job]
        /\ \A v \in Workers : HoldsOK(job'[v])
    BY <1>31, StepTyped DEF UnpackFiles, At, Labels, OneHash, OneEntry
  <2>2. files' \in [Hashes -> {"none", "part", "full"}]
    BY <1>31 DEF UnpackFiles, TypeInv, TypeOK, Job, HoldsOK, OneHash, OneEntry,
       At, Docs, Bundle
  <2> QED
    BY <1>31, <2>1, <2>2, ObserveTyped DEF UnpackFiles, TypeInv, TypeOK, Job,
       HoldsOK, OneHash, OneEntry, Bundle
<1>32. ASSUME NEW w \in Workers,
             CloseFiles(w), Observe
      PROVE  TypeInv'
  <2>1. /\ job' \in [Workers -> Job]
        /\ \A v \in Workers : HoldsOK(job'[v])
    BY <1>32, StepTyped DEF CloseFiles, At, Labels, OneHash, OneEntry
  <2>2. files' \in [Hashes -> {"none", "part", "full"}]
    BY <1>32 DEF CloseFiles, TypeInv, TypeOK, Job, HoldsOK, OneHash, OneEntry,
       At, Docs, Bundle
  <2> QED
    BY <1>32, <2>1, <2>2, ObserveTyped DEF CloseFiles, TypeInv, TypeOK, Job,
       HoldsOK, OneHash, OneEntry, Bundle
<1>33. ASSUME NEW w \in Workers,
             ImportRows(w), Observe
      PROVE  TypeInv'
  <2>1. /\ job' \in [Workers -> Job]
        /\ \A v \in Workers : HoldsOK(job'[v])
    BY <1>33, StepTyped DEF ImportRows, At, Labels, OneHash, OneEntry
  <2>2. rows' \subseteq Hashes /\ focal' \subseteq rows'
    BY <1>33 DEF ImportRows, TypeInv, TypeOK, Job, HoldsOK, OneHash, OneEntry,
       At, Docs, Bundle
  <2> QED
    BY <1>33, <2>1, <2>2, ObserveTyped DEF ImportRows, TypeInv, TypeOK, Job,
       HoldsOK, OneHash, OneEntry, Bundle
<1>34. ASSUME NEW w \in Workers,
             ScanDocuments(w), Observe
      PROVE  TypeInv'
  <2> DEFINE j == [job[w] EXCEPT !.hashes = docs, !.at = "populate"]
  <2>0. job[w] \in Job /\ docs \in [Entries -> Docs]
    BY DEF TypeInv, TypeOK, Job
  <2>1. j \in Job /\ HoldsOK(j)
    BY <2>0 DEF Job, HoldsOK, Labels, OneHash, OneEntry
  <2>2. job' = [job EXCEPT ![w] = j]
    BY <1>34 DEF ScanDocuments, TypeInv, TypeOK, Job
  <2>3. /\ job' \in [Workers -> Job]
        /\ \A v \in Workers : HoldsOK(job'[v])
    BY <2>1, <2>2, OneJob
  <2> QED
    BY <1>34, <2>3, ObserveTyped DEF ScanDocuments, TypeInv, TypeOK, Job
<1>35. ASSUME NEW w \in Workers,
             PopulateReferences(w), Observe
      PROVE  TypeInv'
  <2>1. /\ job' \in [Workers -> Job]
        /\ \A v \in Workers : HoldsOK(job'[v])
    BY <1>35, StepTyped DEF PopulateReferences, At, Labels, OneHash, OneEntry
  <2>2. refs' \subseteq Entries \X Hashes
    BY <1>35 DEF PopulateReferences, TypeInv, TypeOK, Job, HoldsOK, OneHash,
       OneEntry, At, Docs, Except, RefsOf, HashesOf
  <2> QED
    BY <1>35, <2>1, <2>2, ObserveTyped DEF PopulateReferences, TypeInv, TypeOK,
       Job, HoldsOK, OneHash, OneEntry, Bundle
<1>36. ASSUME NEW w \in Workers,
             Imported(w), Observe
      PROVE  TypeInv'
  <2>1. /\ job' \in [Workers -> Job]
        /\ \A v \in Workers : HoldsOK(job'[v])
    BY <1>36, StepTyped DEF Imported, At, Labels, OneHash, OneEntry
  <2>2. stored' \subseteq Hashes
    BY <1>36 DEF Imported, TypeInv, TypeOK, Job, HoldsOK, OneHash, OneEntry, At,
       Docs, Bundle
  <2> QED
    BY <1>36, <2>1, <2>2, ObserveTyped DEF Imported, TypeInv, TypeOK, Job,
       HoldsOK, OneHash, OneEntry, Bundle
<1> QED
  BY <1>1, <1>2, <1>3, <1>4, <1>5, <1>6, <1>7, <1>8, <1>9, <1>10, <1>11, <1>12,
     <1>13, <1>14, <1>15, <1>16, <1>17, <1>18, <1>19, <1>20, <1>21, <1>22,
     <1>23, <1>24, <1>25, <1>26, <1>27, <1>28, <1>29, <1>30, <1>31, <1>32,
     <1>33, <1>34, <1>35, <1>36 DEF Next, Request, Step

-----------------------------------------------------------------------------
\* What the other jobs, and the rest of a job, are after a step.
LEMMA GoesOn ==
  ASSUME TypeInv, NEW w \in Workers, NEW l, GoTo(w, l)
  PROVE  /\ job'[w].at = l /\ job'[w].hash = job[w].hash
         /\ job'[w].entry = job[w].entry /\ job'[w].hashes = job[w].hashes
         /\ \A v \in Workers \ {w} : job'[v] = job[v]
BY DEF GoTo, TypeInv, TypeOK, Job

\* The same after an answer.
LEMMA Answers ==
  ASSUME TypeInv, NEW w \in Workers, Answer(w)
  PROVE  job'[w].at = "idle" /\ \A v \in Workers \ {w} : job'[v] = job[v]
BY DEF Answer, Idle, TypeInv, TypeOK, Job

\* The same after a step of serving.
LEMMA Serves ==
  ASSUME TypeInv, NEW w \in Workers, NEW l, Serve(w, l)
  PROVE  /\ job'[w].at = l /\ job'[w].hash = job[w].hash
         /\ job'[w].flag = (job[w].flag /\ job[w].hash \in stored \ excused)
         /\ \A v \in Workers \ {w} : job'[v] = job[v]
<1> DEFINE yes == job[w].flag /\ job[w].hash \in stored \ excused
           j == [job[w] EXCEPT !.at = l, !.flag = yes]
<1>1. job' = [job EXCEPT ![w] = j] /\ job[w] \in Job
  BY DEF Serve, TypeInv, TypeOK, Job
<1>2. job'[w] = j /\ \A v \in Workers \ {w} : job'[v] = job[v]
  BY <1>1 DEF TypeInv, TypeOK
<1> HIDE DEF yes
<1>3. j.at = l /\ j.hash = job[w].hash /\ j.flag = yes
  BY <1>1 DEF Job
<1> QED
  BY <1>2, <1>3 DEF yes

\* The same after a request began.
LEMMA Begins ==
  ASSUME TypeInv, NEW w \in Workers, NEW j, Begin(w, j)
  PROVE  /\ job[w].at = "idle" /\ job'[w] = j
         /\ \A v \in Workers \ {w} : job'[v] = job[v]
         /\ UNCHANGED <<files, docs, rows, focal, refs, bundle, stored>>
BY DEF Begin, At, TypeInv, TypeOK, disk, database

\* AloneInv is inductive, by Observe alone.
LEMMA AloneInvStep == AloneInv /\ [Next]_vars => AloneInv'
<1> SUFFICES ASSUME AloneInv, [Next]_vars PROVE AloneInv'
  OBVIOUS
<1>1. CASE UNCHANGED vars
  BY <1>1 DEF AloneInv, At, vars
<1>2. CASE Observe
  BY <1>2 DEF AloneInv, Observe, At
<1> QED
  BY <1>1, <1>2 DEF Next

\* Who runs beside a worker that acts is not alone.
LEMMA OnlyMine ==
  ASSUME AloneInv, Observe, NEW w \in Workers,
         job[w].at # "idle" \/ job'[w].at # "idle",
         NEW v \in Workers \ {w}, job'[v] = job[v], alone'[v]
  PROVE  job'[v].at = "idle"
BY DEF AloneInv, Observe, At

\* What a step of worker w owes to ImportInv.
LEMMA ImportStep ==
  ASSUME AloneInv, ImportInv, Observe, NEW w \in Workers,
         job[w].at # "idle" \/ job'[w].at # "idle",
         \A v \in Workers \ {w} : job'[v] = job[v],
         alone[w] /\ job'[w].at # "idle" => ImportOf(w)'
  PROVE  ImportInv'
<1> SUFFICES ASSUME NEW v \in Workers, alone'[v] PROVE ImportOf(v)'
  BY DEF ImportInv
<1>1. CASE v # w
  BY <1>1, OnlyMine DEF ImportOf, At
<1>2. CASE v = w
  <2>1. CASE job'[w].at = "idle"
    BY <1>2, <2>1 DEF ImportOf, At
  <2>2. CASE job'[w].at # "idle"
    BY <1>2, <2>2 DEF Observe
  <2> QED
    BY <2>1, <2>2
<1> QED
  BY <1>1, <1>2

\* ImportInv is inductive: nobody else moves while an import is alone.
LEMMA ImportInvStep == TypeInv /\ AloneInv /\ ImportInv /\ [Next]_vars => ImportInv'
<1> SUFFICES ASSUME TypeInv, AloneInv, ImportInv, [Next]_vars PROVE ImportInv'
  OBVIOUS
<1>1. CASE UNCHANGED vars
  BY <1>1 DEF vars, disk, database, ImportInv, ImportOf, At
<1>2. CASE Crash /\ Observe
  BY <1>2 DEF Crash, Observe, ImportInv, ImportOf, At, Idle
<1>3. ASSUME NEW w \in Workers, NEW h \in Hashes,
             UploadFile(w, h), Observe
      PROVE  ImportInv'
  <2> DEFINE j == [Idle EXCEPT !.at = "exists", !.hash = h]
  <2>1. Begin(w, j) /\ j.at = "exists"
    BY <1>3 DEF UploadFile, Idle
  <2> HIDE DEF j
  <2>2. job'[w].at = "exists"
    BY <2>1, Begins
  <2>3. ImportOf(w)'
    BY <2>2 DEF ImportOf, At
  <2> QED
    BY <1>3, <2>1, <2>2, <2>3, Begins, ImportStep
<1>4. ASSUME NEW w \in Workers, NEW h \in Hashes,
             ApiUploadFile(w, h), Observe
      PROVE  ImportInv'
  <2> DEFINE j == [Idle EXCEPT !.at = "exists", !.hash = h]
  <2>1. Begin(w, j) /\ j.at = "exists"
    BY <1>4 DEF ApiUploadFile, Idle
  <2> HIDE DEF j
  <2>2. job'[w].at = "exists"
    BY <2>1, Begins
  <2>3. ImportOf(w)'
    BY <2>2 DEF ImportOf, At
  <2> QED
    BY <1>4, <2>1, <2>2, <2>3, Begins, ImportStep
<1>5. ASSUME NEW w \in Workers, NEW h \in Hashes,
             ServeFile(w, h), Observe
      PROVE  ImportInv'
  <2> DEFINE j == [Idle EXCEPT !.at = "meta", !.hash = h, !.flag = h \in stored]
  <2>1. Begin(w, j) /\ j.at = "meta"
    BY <1>5 DEF ServeFile, Idle
  <2> HIDE DEF j
  <2>2. job'[w].at = "meta"
    BY <2>1, Begins
  <2>3. ImportOf(w)'
    BY <2>2 DEF ImportOf, At
  <2> QED
    BY <1>5, <2>1, <2>2, <2>3, Begins, ImportStep
<1>6. ASSUME NEW w \in Workers, NEW h \in Hashes,
             SetFocalPoint(w, h), Observe
      PROVE  ImportInv'
  BY <1>6 DEF SetFocalPoint, Observe, AloneInv, ImportInv, ImportOf, At, disk
<1>7. ASSUME NEW w \in Workers, NEW h \in Hashes,
             DeleteUpload(w, h), Observe
      PROVE  ImportInv'
  <2> DEFINE j == [Idle EXCEPT !.at = "unlink", !.hash = h]
  <2>1. Begin(w, j) /\ j.at = "unlink"
    BY <1>7 DEF DeleteUpload, Idle
  <2> HIDE DEF j
  <2>2. job'[w].at = "unlink"
    BY <2>1, Begins
  <2>3. ImportOf(w)'
    BY <2>2 DEF ImportOf, At
  <2> QED
    BY <1>7, <2>1, <2>2, <2>3, Begins, ImportStep
<1>8. ASSUME NEW w \in Workers, NEW e \in Entries, NEW hs \in SUBSET Hashes,
             NEW records \in BOOLEAN,
             SaveEntry(w, e, hs, records), Observe
      PROVE  ImportInv'
  <2> DEFINE j == [Idle EXCEPT !.at = "save", !.entry = e, !.hashes[e] = hs,
                          !.flag = records]
  <2>1. Begin(w, j) /\ j.at = "save"
    BY <1>8 DEF SaveEntry, Idle
  <2> HIDE DEF j
  <2>2. job'[w].at = "save"
    BY <2>1, Begins
  <2>3. ImportOf(w)'
    BY <2>2 DEF ImportOf, At
  <2> QED
    BY <1>8, <2>1, <2>2, <2>3, Begins, ImportStep
<1>9. ASSUME NEW w \in Workers, NEW e \in Entries,
             DeleteEntry(w, e), Observe
      PROVE  ImportInv'
  <2> DEFINE j == [Idle EXCEPT !.at = "unreference", !.entry = e]
  <2>1. Begin(w, j) /\ j.at = "unreference"
    BY <1>9 DEF DeleteEntry, Idle
  <2> HIDE DEF j
  <2>2. job'[w].at = "unreference"
    BY <2>1, Begins
  <2>3. ImportOf(w)'
    BY <2>2 DEF ImportOf, At
  <2> QED
    BY <1>9, <2>1, <2>2, <2>3, Begins, ImportStep
<1>10. ASSUME NEW w \in Workers,
             ExportBundle(w), Observe
      PROVE  ImportInv'
  <2> DEFINE j == [Idle EXCEPT !.at = "manifest"]
  <2>1. Begin(w, j) /\ j.at = "manifest"
    BY <1>10 DEF ExportBundle, Idle
  <2> HIDE DEF j
  <2>2. job'[w].at = "manifest"
    BY <2>1, Begins
  <2>3. ImportOf(w)'
    BY <2>2 DEF ImportOf, At
  <2> QED
    BY <1>10, <2>1, <2>2, <2>3, Begins, ImportStep
<1>11. ASSUME NEW w \in Workers,
             ExportData(w), Observe
      PROVE  ImportInv'
  <2> DEFINE j == [Idle EXCEPT !.at = "manifest"]
  <2>1. Begin(w, j) /\ j.at = "manifest"
    BY <1>11 DEF ExportData, ExportBundle, Idle
  <2> HIDE DEF j
  <2>2. job'[w].at = "manifest"
    BY <2>1, Begins
  <2>3. ImportOf(w)'
    BY <2>2 DEF ImportOf, At
  <2> QED
    BY <1>11, <2>1, <2>2, <2>3, Begins, ImportStep
<1>12. ASSUME NEW w \in Workers,
             ImportBundle(w), Observe
      PROVE  ImportInv'
  <2> DEFINE j == [Idle EXCEPT !.at = "unpackDocs"]
  <2>1. Begin(w, j) /\ j.at = "unpackDocs"
    BY <1>12 DEF ImportBundle, Idle
  <2> HIDE DEF j
  <2>2. job'[w].at = "unpackDocs"
    BY <2>1, Begins
  <2>3. ImportOf(w)'
    BY <2>2 DEF ImportOf, At
  <2> QED
    BY <1>12, <2>1, <2>2, <2>3, Begins, ImportStep
<1>13. ASSUME NEW w \in Workers,
             ImportData(w), Observe
      PROVE  ImportInv'
  <2> DEFINE j == [Idle EXCEPT !.at = "unpackDocs"]
  <2>1. Begin(w, j) /\ j.at = "unpackDocs"
    BY <1>13 DEF ImportData, ImportBundle, Idle
  <2> HIDE DEF j
  <2>2. job'[w].at = "unpackDocs"
    BY <2>1, Begins
  <2>3. ImportOf(w)'
    BY <2>2 DEF ImportOf, At
  <2> QED
    BY <1>13, <2>1, <2>2, <2>3, Begins, ImportStep
<1>14. ASSUME NEW w \in Workers,
             FindFile(w), Observe
      PROVE  ImportInv'
  <2>1. /\ job[w].at = "exists" /\ job'[w].hash = job[w].hash
        /\ job'[w].at = (IF files[job[w].hash] = "none" THEN "create" ELSE "row")
        /\ \A v \in Workers \ {w} : job'[v] = job[v]
    BY <1>14, GoesOn DEF FindFile, At
  <2>2. job'[w].at # "idle" => ImportOf(w)'
    BY <2>1 DEF ImportOf, At
  <2> QED
    BY <1>14, <2>1, <2>2, ImportStep
<1>15. ASSUME NEW w \in Workers,
             CreateFile(w), Observe
      PROVE  ImportInv'
  <2>1. /\ job[w].at = "create" /\ job'[w].at = "write"
        /\ job'[w].hash = job[w].hash /\ job'[w].entry = job[w].entry
        /\ job'[w].hashes = job[w].hashes
        /\ \A v \in Workers \ {w} : job'[v] = job[v]
    BY <1>15, GoesOn DEF CreateFile, At
  <2>2. job'[w].at # "idle" => ImportOf(w)'
    BY <2>1 DEF ImportOf, At
  <2> QED
    BY <1>15, <2>1, <2>2, ImportStep
<1>16. ASSUME NEW w \in Workers,
             WriteFile(w), Observe
      PROVE  ImportInv'
  <2>1. /\ job[w].at = "write" /\ job'[w].at = "row"
        /\ job'[w].hash = job[w].hash /\ job'[w].entry = job[w].entry
        /\ job'[w].hashes = job[w].hashes
        /\ \A v \in Workers \ {w} : job'[v] = job[v]
    BY <1>16, GoesOn DEF WriteFile, At
  <2>2. job'[w].at # "idle" => ImportOf(w)'
    BY <2>1 DEF ImportOf, At
  <2> QED
    BY <1>16, <2>1, <2>2, ImportStep
<1>17. ASSUME NEW w \in Workers,
             InsertRow(w), Observe
      PROVE  ImportInv'
  <2>1. /\ job[w].at = "row" /\ job'[w].at = "idle"
        /\ \A v \in Workers \ {w} : job'[v] = job[v]
    BY <1>17, Answers DEF InsertRow, At
  <2>2. job'[w].at # "idle" => ImportOf(w)'
    BY <2>1 DEF ImportOf, At
  <2> QED
    BY <1>17, <2>1, <2>2, ImportStep
<1>18. ASSUME NEW w \in Workers,
             ReadMeta(w), Observe
      PROVE  ImportInv'
  <2>1. /\ job[w].at = "meta" /\ job'[w].hash = job[w].hash
        /\ job'[w].at = (IF job[w].hash \in rows THEN "read" ELSE "readUntyped")
        /\ job'[w].flag = (job[w].flag /\ job[w].hash \in stored \ excused)
        /\ \A v \in Workers \ {w} : job'[v] = job[v]
    BY <1>18, Serves DEF ReadMeta, At
  <2>2. job'[w].at # "idle" => ImportOf(w)'
    BY <2>1 DEF ImportOf, At
  <2> QED
    BY <1>18, <2>1, <2>2, ImportStep
<1>19. ASSUME NEW w \in Workers,
             ReadFile(w), Observe
      PROVE  ImportInv'
  <2>1. /\ job[w].at \in {"read", "readUntyped"} /\ job'[w].hash = job[w].hash
        /\ job'[w].at = (IF At(w, "read") /\ files[job[w].hash] = "full"
                       THEN "servedFull" ELSE "servedLess")
        /\ job'[w].flag = (job[w].flag /\ job[w].hash \in stored \ excused)
        /\ \A v \in Workers \ {w} : job'[v] = job[v]
    BY <1>19, Serves DEF ReadFile, At
  <2>2. job'[w].at # "idle" => ImportOf(w)'
    BY <2>1 DEF ImportOf, At
  <2> QED
    BY <1>19, <2>1, <2>2, ImportStep
<1>20. ASSUME NEW w \in Workers,
             Served(w), Observe
      PROVE  ImportInv'
  <2>1. /\ job[w].at \in {"servedFull", "servedLess"} /\ job'[w].at = "idle"
        /\ \A v \in Workers \ {w} : job'[v] = job[v]
    BY <1>20, Answers DEF Served, At
  <2>2. job'[w].at # "idle" => ImportOf(w)'
    BY <2>1 DEF ImportOf, At
  <2> QED
    BY <1>20, <2>1, <2>2, ImportStep
<1>21. ASSUME NEW w \in Workers,
             DeleteUploadFile(w), Observe
      PROVE  ImportInv'
  <2>1. /\ job[w].at = "unlink" /\ job'[w].at = "deleteRow"
        /\ job'[w].hash = job[w].hash /\ job'[w].entry = job[w].entry
        /\ job'[w].hashes = job[w].hashes
        /\ \A v \in Workers \ {w} : job'[v] = job[v]
    BY <1>21, GoesOn DEF DeleteUploadFile, At
  <2>2. job'[w].at # "idle" => ImportOf(w)'
    BY <2>1 DEF ImportOf, At
  <2> QED
    BY <1>21, <2>1, <2>2, ImportStep
<1>22. ASSUME NEW w \in Workers,
             DeleteRow(w), Observe
      PROVE  ImportInv'
  <2>1. /\ job[w].at = "deleteRow" /\ job'[w].at = "idle"
        /\ \A v \in Workers \ {w} : job'[v] = job[v]
    BY <1>22, Answers DEF DeleteRow, At
  <2>2. job'[w].at # "idle" => ImportOf(w)'
    BY <2>1 DEF ImportOf, At
  <2> QED
    BY <1>22, <2>1, <2>2, ImportStep
<1>23. ASSUME NEW w \in Workers,
             SaveDocument(w), Observe
      PROVE  ImportInv'
  <2>1. /\ job[w].at = "save" /\ job'[w].at \in {"references", "idle"}
        /\ job'[w].at = "references" =>
             job'[w].entry = job[w].entry /\ job'[w].hashes = job[w].hashes
        /\ \A v \in Workers \ {w} : job'[v] = job[v]
    BY <1>23, GoesOn, Answers DEF SaveDocument, At
  <2>2. job'[w].at # "idle" => ImportOf(w)'
    BY <2>1 DEF ImportOf, At
  <2> QED
    BY <1>23, <2>1, <2>2, ImportStep
<1>24. ASSUME NEW w \in Workers,
             UpdateReferences(w), Observe
      PROVE  ImportInv'
  <2>1. /\ job[w].at = "references" /\ job'[w].at = "idle"
        /\ \A v \in Workers \ {w} : job'[v] = job[v]
    BY <1>24, Answers DEF UpdateReferences, At
  <2>2. job'[w].at # "idle" => ImportOf(w)'
    BY <2>1 DEF ImportOf, At
  <2> QED
    BY <1>24, <2>1, <2>2, ImportStep
<1>25. ASSUME NEW w \in Workers,
             DeleteReferences(w), Observe
      PROVE  ImportInv'
  <2>1. /\ job[w].at = "unreference" /\ job'[w].at = "remove"
        /\ job'[w].hash = job[w].hash /\ job'[w].entry = job[w].entry
        /\ job'[w].hashes = job[w].hashes
        /\ \A v \in Workers \ {w} : job'[v] = job[v]
    BY <1>25, GoesOn DEF DeleteReferences, At
  <2>2. job'[w].at # "idle" => ImportOf(w)'
    BY <2>1 DEF ImportOf, At
  <2> QED
    BY <1>25, <2>1, <2>2, ImportStep
<1>26. ASSUME NEW w \in Workers,
             RemoveDocument(w), Observe
      PROVE  ImportInv'
  <2>1. /\ job[w].at = "remove" /\ job'[w].at = "idle"
        /\ \A v \in Workers \ {w} : job'[v] = job[v]
    BY <1>26, Answers DEF RemoveDocument, At
  <2>2. job'[w].at # "idle" => ImportOf(w)'
    BY <2>1 DEF ImportOf, At
  <2> QED
    BY <1>26, <2>1, <2>2, ImportStep
<1>27. ASSUME NEW w \in Workers,
             WriteManifest(w), Observe
      PROVE  ImportInv'
  <2>1. /\ job[w].at = "manifest" /\ job'[w].at = "tarDocs"
        /\ job'[w].hash = job[w].hash /\ job'[w].entry = job[w].entry
        /\ job'[w].hashes = job[w].hashes
        /\ \A v \in Workers \ {w} : job'[v] = job[v]
    BY <1>27, GoesOn DEF WriteManifest, At
  <2>2. job'[w].at # "idle" => ImportOf(w)'
    BY <2>1 DEF ImportOf, At
  <2> QED
    BY <1>27, <2>1, <2>2, ImportStep
<1>28. ASSUME NEW w \in Workers,
             TarDocuments(w), Observe
      PROVE  ImportInv'
  <2>1. /\ job[w].at = "tarDocs" /\ job'[w].at = "tarFiles"
        /\ job'[w].hash = job[w].hash /\ job'[w].entry = job[w].entry
        /\ job'[w].hashes = job[w].hashes
        /\ \A v \in Workers \ {w} : job'[v] = job[v]
    BY <1>28, GoesOn DEF TarDocuments, At
  <2>2. job'[w].at # "idle" => ImportOf(w)'
    BY <2>1 DEF ImportOf, At
  <2> QED
    BY <1>28, <2>1, <2>2, ImportStep
<1>29. ASSUME NEW w \in Workers,
             TarFiles(w), Observe
      PROVE  ImportInv'
  <2>1. /\ job[w].at = "tarFiles" /\ job'[w].at = "idle"
        /\ \A v \in Workers \ {w} : job'[v] = job[v]
    BY <1>29, Answers DEF TarFiles, At
  <2>2. job'[w].at # "idle" => ImportOf(w)'
    BY <2>1 DEF ImportOf, At
  <2> QED
    BY <1>29, <2>1, <2>2, ImportStep
<1>30. ASSUME NEW w \in Workers,
             UnpackDocuments(w), Observe
      PROVE  ImportInv'
  <2>1. /\ job[w].at = "unpackDocs" /\ job'[w].at = "unpackFiles"
        /\ job'[w].hash = job[w].hash /\ job'[w].entry = job[w].entry
        /\ job'[w].hashes = job[w].hashes
        /\ \A v \in Workers \ {w} : job'[v] = job[v]
    BY <1>30, GoesOn DEF UnpackDocuments, At
  <2>2. alone[w] => ImportOf(w)'
    BY <1>30, <2>1 DEF UnpackDocuments, ImportInv, ImportOf, At, TypeInv,
       TypeOK, Bundle, disk, database
  <2> QED
    BY <1>30, <2>1, <2>2, ImportStep
<1>31. ASSUME NEW w \in Workers,
             UnpackFiles(w), Observe
      PROVE  ImportInv'
  <2>1. /\ job[w].at = "unpackFiles" /\ job'[w].at = "closeFiles"
        /\ job'[w].hash = job[w].hash /\ job'[w].entry = job[w].entry
        /\ job'[w].hashes = job[w].hashes
        /\ \A v \in Workers \ {w} : job'[v] = job[v]
    BY <1>31, GoesOn DEF UnpackFiles, At
  <2>2. alone[w] => ImportOf(w)'
    BY <1>31, <2>1 DEF UnpackFiles, ImportInv, ImportOf, At, TypeInv, TypeOK,
       Bundle, disk, database
  <2> QED
    BY <1>31, <2>1, <2>2, ImportStep
<1>32. ASSUME NEW w \in Workers,
             CloseFiles(w), Observe
      PROVE  ImportInv'
  <2>1. /\ job[w].at = "closeFiles" /\ job'[w].at = "importRows"
        /\ job'[w].hash = job[w].hash /\ job'[w].entry = job[w].entry
        /\ job'[w].hashes = job[w].hashes
        /\ \A v \in Workers \ {w} : job'[v] = job[v]
    BY <1>32, GoesOn DEF CloseFiles, At
  <2>2. alone[w] => ImportOf(w)'
    BY <1>32, <2>1 DEF CloseFiles, ImportInv, ImportOf, At, TypeInv, TypeOK,
       Bundle, disk, database
  <2> QED
    BY <1>32, <2>1, <2>2, ImportStep
<1>33. ASSUME NEW w \in Workers,
             ImportRows(w), Observe
      PROVE  ImportInv'
  <2>1. /\ job[w].at = "importRows" /\ job'[w].at = "scan"
        /\ job'[w].hash = job[w].hash /\ job'[w].entry = job[w].entry
        /\ job'[w].hashes = job[w].hashes
        /\ \A v \in Workers \ {w} : job'[v] = job[v]
    BY <1>33, GoesOn DEF ImportRows, At
  <2>2. alone[w] => ImportOf(w)'
    BY <1>33, <2>1 DEF ImportRows, ImportInv, ImportOf, At, TypeInv, TypeOK,
       Bundle, disk, database
  <2> QED
    BY <1>33, <2>1, <2>2, ImportStep
<1>34. ASSUME NEW w \in Workers,
             ScanDocuments(w), Observe
      PROVE  ImportInv'
  <2>1. /\ job[w].at = "scan" /\ job'[w].at = "populate"
        /\ job'[w].hashes = docs
        /\ \A v \in Workers \ {w} : job'[v] = job[v]
    BY <1>34 DEF ScanDocuments, At, TypeInv, TypeOK, Job
  <2>2. alone[w] => ImportOf(w)'
    BY <1>34, <2>1 DEF ScanDocuments, ImportInv, ImportOf, At, TypeInv, TypeOK,
       Bundle, disk, database
  <2> QED
    BY <1>34, <2>1, <2>2, ImportStep
<1>35. ASSUME NEW w \in Workers,
             PopulateReferences(w), Observe
      PROVE  ImportInv'
  <2>1. /\ job[w].at = "populate" /\ job'[w].at = "imported"
        /\ job'[w].hash = job[w].hash /\ job'[w].entry = job[w].entry
        /\ job'[w].hashes = job[w].hashes
        /\ \A v \in Workers \ {w} : job'[v] = job[v]
    BY <1>35, GoesOn DEF PopulateReferences, At
  <2>2. alone[w] => ImportOf(w)'
    BY <1>35, <2>1 DEF PopulateReferences, ImportInv, ImportOf, At, TypeInv,
       TypeOK, Bundle, disk, database
  <2> QED
    BY <1>35, <2>1, <2>2, ImportStep
<1>36. ASSUME NEW w \in Workers,
             Imported(w), Observe
      PROVE  ImportInv'
  <2>1. /\ job[w].at = "imported" /\ job'[w].at = "idle"
        /\ \A v \in Workers \ {w} : job'[v] = job[v]
    BY <1>36, Answers DEF Imported, At
  <2>2. job'[w].at # "idle" => ImportOf(w)'
    BY <2>1 DEF ImportOf, At
  <2> QED
    BY <1>36, <2>1, <2>2, ImportStep
<1> QED
  BY <1>1, <1>2, <1>3, <1>4, <1>5, <1>6, <1>7, <1>8, <1>9, <1>10, <1>11, <1>12,
     <1>13, <1>14, <1>15, <1>16, <1>17, <1>18, <1>19, <1>20, <1>21, <1>22,
     <1>23, <1>24, <1>25, <1>26, <1>27, <1>28, <1>29, <1>30, <1>31, <1>32,
     <1>33, <1>34, <1>35, <1>36 DEF Next, Request, Step

-----------------------------------------------------------------------------
\* What is forgotten owes nothing.
LEMMA ForgottenKept ==
  ASSUME NEW h \in Hashes, Forgotten(h)'
  PROVE  Kept(h)'
BY DEF Forgotten, Kept, KeptBy

\* What an action owes to KeptInv: the uploads it leaves unexcused.
LEMMA KeptFrom ==
  ASSUME KeptInv, Observe,
         \A h \in Hashes \ excused : Kept(h) /\ ~Overlap(h)' => Kept(h)'
  PROVE  KeptInv'
<1> SUFFICES ASSUME NEW h \in Hashes \ excused' PROVE Kept(h)'
  BY DEF KeptInv
<1>1. CASE Forgotten(h)'
  BY <1>1, ForgottenKept
<1>2. CASE ~Forgotten(h)'
  <2>1. h \notin excused /\ ~Overlap(h)'
    BY <1>2 DEF Observe
  <2> QED
    BY <2>1 DEF KeptInv
<1> QED
  BY <1>1, <1>2

\* An upload that is whole has its bytes while somebody else than an import
\* runs.
LEMMA WholeNow ==
  ASSUME AloneInv, NEW h \in Hashes, Kept(h), Whole(h),
         NEW w \in Workers, job[w].at \notin {"idle", "closeFiles"}
  PROVE  /\ files[h] = "full" /\ h \in rows
         /\ \A v \in Workers \ {w} : ~Importing(v)
<1>1. ~Overlap(h)
  BY DEF Kept, Whole, Forgotten
<1>2. \A v \in Workers \ {w} : ~Importing(v)
  BY <1>1 DEF Overlap, AloneInv, Importing, At
<1> QED
  BY <1>2 DEF Whole, Importing, At

\* A step of worker w that leaves an upload as it is.
LEMMA StillKept ==
  ASSUME NEW h \in Hashes, NEW w \in Workers, Kept(h), ~Overlap(h)',
         \A v \in Workers \ {w} : job'[v] = job[v], KeptBy(w, h)',
         files'[h] = files[h], h \in stored' => h \in stored,
         \A e \in Entries : <<e, h>> \in refs' => <<e, h>> \in refs,
         Whole(h) => Whole(h)'
  PROVE  Kept(h)'
<1>1. ASSUME NEW v \in Workers \ {w} PROVE KeptBy(v, h)'
  <2>1. KeptBy(v, h)
    BY DEF Kept
  <2> QED
    BY <2>1 DEF KeptBy, Saving, Storing, Deleting, At
<1> QED
  BY <1>1 DEF Kept

\* KeptInv is inductive: an upload that is written, deleted or imported while
\* another request relies on it is excused.
LEMMA KeptInvStep ==
  TypeInv /\ AloneInv /\ ImportInv /\ KeptInv /\ [Next]_vars => KeptInv'
<1> SUFFICES ASSUME TypeInv, AloneInv, ImportInv, KeptInv, [Next]_vars
             PROVE  KeptInv'
  OBVIOUS
<1>1. CASE UNCHANGED vars
  <2>1. UNCHANGED <<files, rows, refs, docs, job, bundle, stored, alone, excused>>
    BY <1>1 DEF vars, disk, database
  <2>2. ASSUME NEW h \in Hashes, Kept(h) PROVE Kept(h)'
    <3>1. /\ Overlap(h)' <=> Overlap(h)
          /\ Forgotten(h)' <=> Forgotten(h)
      BY <2>1 DEF Overlap, Forgotten, HashesOf, Saving, Storing, Deleting,
         Writing, Importing, At
    <3>2. Whole(h)' <=> Whole(h)
      BY <2>1 DEF Whole, At
    <3>3. \A w \in Workers : KeptBy(w, h)' <=> KeptBy(w, h)
      BY <2>1, <3>2 DEF KeptBy, Saving, Storing, Deleting, At
    <3> QED
      BY <2>1, <2>2, <3>1, <3>2, <3>3 DEF Kept
  <2> QED
    BY <2>1, <2>2 DEF KeptInv
<1>2. CASE Crash /\ Observe
  <2>1. /\ \A v \in Workers : job'[v].at = "idle"
        /\ UNCHANGED <<files, rows, refs, stored>>
    BY <1>2 DEF Crash, Idle, disk, database
  <2>2. ASSUME NEW g \in Hashes, Kept(g), ~Overlap(g)' PROVE Kept(g)'
    <3>1. files[g] # "part"
      BY <2>1, <2>2 DEF Overlap, Writing, At
    <3>2. Whole(g) => Whole(g)'
      BY <2>1, <3>1 DEF Whole
    <3>3. \A v \in Workers : KeptBy(v, g)'
      BY <2>1 DEF KeptBy, Saving, Storing, Deleting, At
    <3> QED
      BY <2>1, <2>2, <3>2, <3>3 DEF Kept
  <2> QED
    BY <1>2, <2>2, KeptFrom
<1>3. ASSUME NEW w \in Workers, NEW h \in Hashes,
             UploadFile(w, h), Observe
      PROVE  KeptInv'
  <2> DEFINE j == [Idle EXCEPT !.at = "exists", !.hash = h]
  <2>1. /\ Begin(w, j) /\ j.at = "exists"
        /\ j.hash = h
    BY <1>3 DEF UploadFile, Idle
  <2> HIDE DEF j
  <2>2. /\ job[w].at = "idle" /\ job'[w].at = "exists"
        /\ job'[w].hash = j.hash
        /\ \A v \in Workers \ {w} : job'[v] = job[v]
        /\ UNCHANGED <<files, rows, refs, bundle, stored>>
    BY <2>1, Begins
  <2>3. ASSUME NEW g \in Hashes, Kept(g), ~Overlap(g)' PROVE Kept(g)'
    <3>1. Whole(g) => Whole(g)'
      BY <2>2 DEF Whole, At
    <3>2. KeptBy(w, g)'
      BY <2>2 DEF KeptBy, Saving, Storing, Deleting, At
    <3> QED
      BY <2>2, <2>3, <3>1, <3>2, StillKept
  <2> QED
    BY <1>3, <2>3, KeptFrom
<1>4. ASSUME NEW w \in Workers, NEW h \in Hashes,
             ApiUploadFile(w, h), Observe
      PROVE  KeptInv'
  <2> DEFINE j == [Idle EXCEPT !.at = "exists", !.hash = h]
  <2>1. /\ Begin(w, j) /\ j.at = "exists"
        /\ j.hash = h
    BY <1>4 DEF ApiUploadFile, Idle
  <2> HIDE DEF j
  <2>2. /\ job[w].at = "idle" /\ job'[w].at = "exists"
        /\ job'[w].hash = j.hash
        /\ \A v \in Workers \ {w} : job'[v] = job[v]
        /\ UNCHANGED <<files, rows, refs, bundle, stored>>
    BY <2>1, Begins
  <2>3. ASSUME NEW g \in Hashes, Kept(g), ~Overlap(g)' PROVE Kept(g)'
    <3>1. Whole(g) => Whole(g)'
      BY <2>2 DEF Whole, At
    <3>2. KeptBy(w, g)'
      BY <2>2 DEF KeptBy, Saving, Storing, Deleting, At
    <3> QED
      BY <2>2, <2>3, <3>1, <3>2, StillKept
  <2> QED
    BY <1>4, <2>3, KeptFrom
<1>5. ASSUME NEW w \in Workers, NEW h \in Hashes,
             ServeFile(w, h), Observe
      PROVE  KeptInv'
  <2> DEFINE j == [Idle EXCEPT !.at = "meta", !.hash = h, !.flag = h \in stored]
  <2>1. /\ Begin(w, j) /\ j.at = "meta"
        /\ j.hash = h
    BY <1>5 DEF ServeFile, Idle
  <2> HIDE DEF j
  <2>2. /\ job[w].at = "idle" /\ job'[w].at = "meta"
        /\ job'[w].hash = j.hash
        /\ \A v \in Workers \ {w} : job'[v] = job[v]
        /\ UNCHANGED <<files, rows, refs, bundle, stored>>
    BY <2>1, Begins
  <2>3. ASSUME NEW g \in Hashes, Kept(g), ~Overlap(g)' PROVE Kept(g)'
    <3>1. Whole(g) => Whole(g)'
      BY <2>2 DEF Whole, At
    <3>2. KeptBy(w, g)'
      BY <2>2 DEF KeptBy, Saving, Storing, Deleting, At
    <3> QED
      BY <2>2, <2>3, <3>1, <3>2, StillKept
  <2> QED
    BY <1>5, <2>3, KeptFrom
<1>6. ASSUME NEW w \in Workers, NEW h \in Hashes,
             SetFocalPoint(w, h), Observe
      PROVE  KeptInv'
  <2>1. UNCHANGED <<files, rows, refs, bundle, stored, job>>
    BY <1>6 DEF SetFocalPoint, disk
  <2>2. ASSUME NEW g \in Hashes, Kept(g), ~Overlap(g)' PROVE Kept(g)'
    <3>1. KeptBy(w, g)' /\ (Whole(g) => Whole(g)')
      BY <2>1, <2>2 DEF Kept, KeptBy, Whole, Saving, Storing, Deleting, At
    <3> QED
      BY <2>1, <2>2, <3>1, StillKept
  <2> QED
    BY <1>6, <2>2, KeptFrom
<1>7. ASSUME NEW w \in Workers, NEW h \in Hashes,
             DeleteUpload(w, h), Observe
      PROVE  KeptInv'
  <2> DEFINE j == [Idle EXCEPT !.at = "unlink", !.hash = h]
  <2>1. /\ Begin(w, j) /\ j.at = "unlink"
        /\ j.hash = h
    BY <1>7 DEF DeleteUpload, Idle
  <2> HIDE DEF j
  <2>2. /\ job[w].at = "idle" /\ job'[w].at = "unlink"
        /\ job'[w].hash = j.hash
        /\ \A v \in Workers \ {w} : job'[v] = job[v]
        /\ UNCHANGED <<files, rows, refs, bundle, stored>>
    BY <2>1, Begins
  <2>3. ASSUME NEW g \in Hashes, Kept(g), ~Overlap(g)' PROVE Kept(g)'
    <3>1. Whole(g) => Whole(g)'
      BY <2>2 DEF Whole, At
    <3>2. KeptBy(w, g)'
      BY <1>7, <2>1, <2>2, UploadsAssumption DEF DeleteUpload, KeptBy, Saving,
         Storing, Deleting, At
    <3> QED
      BY <2>2, <2>3, <3>1, <3>2, StillKept
  <2> QED
    BY <1>7, <2>3, KeptFrom
<1>8. ASSUME NEW w \in Workers, NEW e \in Entries, NEW hs \in SUBSET Hashes,
             NEW records \in BOOLEAN,
             SaveEntry(w, e, hs, records), Observe
      PROVE  KeptInv'
  <2> DEFINE j == [Idle EXCEPT !.at = "save", !.entry = e, !.hashes[e] = hs,
                          !.flag = records]
  <2>1. /\ Begin(w, j) /\ j.at = "save"
        /\ j.entry = e /\ j.hashes[e] = hs
    BY <1>8 DEF SaveEntry, Idle
  <2> HIDE DEF j
  <2>2. /\ job[w].at = "idle" /\ job'[w].at = "save"
        /\ job'[w].entry = e /\ job'[w].hashes[e] = hs
        /\ \A v \in Workers \ {w} : job'[v] = job[v]
        /\ UNCHANGED <<files, rows, refs, bundle, stored>>
    BY <2>1, Begins
  <2>3. ASSUME NEW g \in Hashes, Kept(g), ~Overlap(g)' PROVE Kept(g)'
    <3>1. Whole(g) => Whole(g)'
      BY <2>2 DEF Whole, At
    <3>2. KeptBy(w, g)'
      BY <1>8, <2>2, <3>1, <3>1, <2>3 DEF SaveEntry, Kept, KeptBy, Saving,
         Storing, Deleting, At
    <3> QED
      BY <2>2, <2>3, <3>1, <3>2, StillKept
  <2> QED
    BY <1>8, <2>3, KeptFrom
<1>9. ASSUME NEW w \in Workers, NEW e \in Entries,
             DeleteEntry(w, e), Observe
      PROVE  KeptInv'
  <2> DEFINE j == [Idle EXCEPT !.at = "unreference", !.entry = e]
  <2>1. /\ Begin(w, j) /\ j.at = "unreference"
        /\ j.hash = None
    BY <1>9 DEF DeleteEntry, Idle
  <2> HIDE DEF j
  <2>2. /\ job[w].at = "idle" /\ job'[w].at = "unreference"
        /\ job'[w].hash = j.hash
        /\ \A v \in Workers \ {w} : job'[v] = job[v]
        /\ UNCHANGED <<files, rows, refs, bundle, stored>>
    BY <2>1, Begins
  <2>3. ASSUME NEW g \in Hashes, Kept(g), ~Overlap(g)' PROVE Kept(g)'
    <3>1. Whole(g) => Whole(g)'
      BY <2>2 DEF Whole, At
    <3>2. KeptBy(w, g)'
      BY <2>2 DEF KeptBy, Saving, Storing, Deleting, At
    <3> QED
      BY <2>2, <2>3, <3>1, <3>2, StillKept
  <2> QED
    BY <1>9, <2>3, KeptFrom
<1>10. ASSUME NEW w \in Workers,
             ExportBundle(w), Observe
      PROVE  KeptInv'
  <2> DEFINE j == [Idle EXCEPT !.at = "manifest"]
  <2>1. /\ Begin(w, j) /\ j.at = "manifest"
        /\ j.hash = None
    BY <1>10 DEF ExportBundle, Idle
  <2> HIDE DEF j
  <2>2. /\ job[w].at = "idle" /\ job'[w].at = "manifest"
        /\ job'[w].hash = j.hash
        /\ \A v \in Workers \ {w} : job'[v] = job[v]
        /\ UNCHANGED <<files, rows, refs, bundle, stored>>
    BY <2>1, Begins
  <2>3. ASSUME NEW g \in Hashes, Kept(g), ~Overlap(g)' PROVE Kept(g)'
    <3>1. Whole(g) => Whole(g)'
      BY <2>2 DEF Whole, At
    <3>2. KeptBy(w, g)'
      BY <2>2 DEF KeptBy, Saving, Storing, Deleting, At
    <3> QED
      BY <2>2, <2>3, <3>1, <3>2, StillKept
  <2> QED
    BY <1>10, <2>3, KeptFrom
<1>11. ASSUME NEW w \in Workers,
             ExportData(w), Observe
      PROVE  KeptInv'
  <2> DEFINE j == [Idle EXCEPT !.at = "manifest"]
  <2>1. /\ Begin(w, j) /\ j.at = "manifest"
        /\ j.hash = None
    BY <1>11 DEF ExportData, ExportBundle, Idle
  <2> HIDE DEF j
  <2>2. /\ job[w].at = "idle" /\ job'[w].at = "manifest"
        /\ job'[w].hash = j.hash
        /\ \A v \in Workers \ {w} : job'[v] = job[v]
        /\ UNCHANGED <<files, rows, refs, bundle, stored>>
    BY <2>1, Begins
  <2>3. ASSUME NEW g \in Hashes, Kept(g), ~Overlap(g)' PROVE Kept(g)'
    <3>1. Whole(g) => Whole(g)'
      BY <2>2 DEF Whole, At
    <3>2. KeptBy(w, g)'
      BY <2>2 DEF KeptBy, Saving, Storing, Deleting, At
    <3> QED
      BY <2>2, <2>3, <3>1, <3>2, StillKept
  <2> QED
    BY <1>11, <2>3, KeptFrom
<1>12. ASSUME NEW w \in Workers,
             ImportBundle(w), Observe
      PROVE  KeptInv'
  <2> DEFINE j == [Idle EXCEPT !.at = "unpackDocs"]
  <2>1. /\ Begin(w, j) /\ j.at = "unpackDocs"
        /\ j.hash = None
    BY <1>12 DEF ImportBundle, Idle
  <2> HIDE DEF j
  <2>2. /\ job[w].at = "idle" /\ job'[w].at = "unpackDocs"
        /\ job'[w].hash = j.hash
        /\ \A v \in Workers \ {w} : job'[v] = job[v]
        /\ UNCHANGED <<files, rows, refs, bundle, stored>>
    BY <2>1, Begins
  <2>3. ASSUME NEW g \in Hashes, Kept(g), ~Overlap(g)' PROVE Kept(g)'
    <3>1. Whole(g) => Whole(g)'
      BY <2>2 DEF Whole, At
    <3>2. KeptBy(w, g)'
      BY <2>2 DEF KeptBy, Saving, Storing, Deleting, At
    <3> QED
      BY <2>2, <2>3, <3>1, <3>2, StillKept
  <2> QED
    BY <1>12, <2>3, KeptFrom
<1>13. ASSUME NEW w \in Workers,
             ImportData(w), Observe
      PROVE  KeptInv'
  <2> DEFINE j == [Idle EXCEPT !.at = "unpackDocs"]
  <2>1. /\ Begin(w, j) /\ j.at = "unpackDocs"
        /\ j.hash = None
    BY <1>13 DEF ImportData, ImportBundle, Idle
  <2> HIDE DEF j
  <2>2. /\ job[w].at = "idle" /\ job'[w].at = "unpackDocs"
        /\ job'[w].hash = j.hash
        /\ \A v \in Workers \ {w} : job'[v] = job[v]
        /\ UNCHANGED <<files, rows, refs, bundle, stored>>
    BY <2>1, Begins
  <2>3. ASSUME NEW g \in Hashes, Kept(g), ~Overlap(g)' PROVE Kept(g)'
    <3>1. Whole(g) => Whole(g)'
      BY <2>2 DEF Whole, At
    <3>2. KeptBy(w, g)'
      BY <2>2 DEF KeptBy, Saving, Storing, Deleting, At
    <3> QED
      BY <2>2, <2>3, <3>1, <3>2, StillKept
  <2> QED
    BY <1>13, <2>3, KeptFrom
<1>14. ASSUME NEW w \in Workers,
             FindFile(w), Observe
      PROVE  KeptInv'
  <2>1. /\ job[w].at = "exists" /\ job'[w].hash = job[w].hash
        /\ job'[w].at = (IF files[job[w].hash] = "none" THEN "create" ELSE "row")
        /\ \A v \in Workers \ {w} : job'[v] = job[v]
    BY <1>14, GoesOn DEF FindFile, At
  <2>2. UNCHANGED <<files, rows, stored>> /\ UNCHANGED refs
    BY <1>14 DEF FindFile, disk, database, Except
  <2>3. ASSUME NEW g \in Hashes, Kept(g), ~Overlap(g)' PROVE Kept(g)'
    <3>0. job[w].hash = g /\ files[g] # "none" => files[g] = "full"
      <4> SUFFICES ASSUME job[w].hash = g, files[g] = "part" PROVE FALSE
        BY DEF TypeInv, TypeOK
      <4>1. PICK v \in Workers : Writing(v, g)' \/ At(v, "closeFiles")'
        BY <2>2, <2>3 DEF Overlap
      <4>2. v # w
        BY <2>1, <4>1 DEF Writing, At
      <4>3. CASE Writing(v, g)'
        BY <2>1, <2>2, <2>3, <4>2, <4>3 DEF Overlap, Writing, Storing, At
      <4>4. CASE At(v, "closeFiles")'
        <5>1. ~alone'[v]
          BY <1>14, <2>1, <4>2, <4>4, OnlyMine DEF At
        <5> QED
          BY <2>3, <4>4, <5>1 DEF Overlap, Importing, At
      <4> QED
        BY <4>1, <4>3, <4>4
    <3>1. Whole(g) => Whole(g)'
      BY <2>1, <2>2, <2>3, WholeNow DEF Whole, At
    <3>2. KeptBy(w, g)'
      BY <2>1, <2>2, <3>0 DEF KeptBy, Saving, Storing, Deleting, At
    <3> QED
      BY <2>1, <2>2, <2>3, <3>1, <3>2, StillKept
  <2> QED
    BY <1>14, <2>3, KeptFrom
<1>15. ASSUME NEW w \in Workers,
             CreateFile(w), Observe
      PROVE  KeptInv'
  <2>1. /\ job[w].at = "create" /\ job'[w].at = "write"
        /\ job'[w].hash = job[w].hash /\ job'[w].entry = job[w].entry
        /\ job'[w].hashes = job[w].hashes
        /\ \A v \in Workers \ {w} : job'[v] = job[v]
    BY <1>15, GoesOn DEF CreateFile, At
  <2>2. /\ job[w].hash \in Hashes
        /\ files'[job[w].hash] = "part"
        /\ \A g \in Hashes \ {job[w].hash} : files'[g] = files[g]
        /\ UNCHANGED <<rows, refs, stored, bundle>>
    BY <1>15, <2>1 DEF CreateFile, TypeInv, TypeOK, HoldsOK, OneHash, disk,
       database
  <2>3. ASSUME NEW g \in Hashes \ excused, Kept(g), ~Overlap(g)' PROVE Kept(g)'
    <3>1. CASE g # job[w].hash
      <4>1. KeptBy(w, g)'
        BY <2>1, <3>1 DEF KeptBy, Saving, Storing, Deleting, At
      <4>2. Whole(g) => Whole(g)'
        BY <2>1, <2>2, <2>3, <3>1 DEF Whole, At
      <4> QED
        BY <2>1, <2>2, <2>3, <3>1, <4>1, <4>2, StillKept
    <3>2. CASE g = job[w].hash
      <4>1. files[g] = "none" /\ ~Whole(g)
        BY <2>1, <2>3, <3>2 DEF Kept, KeptBy, Storing, At, Whole
      <4>2. (\A e \in Entries : <<e, g>> \notin refs) /\ g \notin stored
        BY <2>3, <4>1 DEF Kept
      <4>3. ASSUME NEW v \in Workers \ {w} PROVE KeptBy(v, g)'
        <5>1. KeptBy(v, g) /\ ~Storing(v, g)'
          BY <2>1, <2>2, <2>3, <3>2 DEF Kept, Overlap, Storing
        <5>2. ~Saving(v, g)
          BY <4>1, <5>1 DEF KeptBy
        <5> QED
          BY <2>1, <2>2, <4>2, <5>1, <5>2 DEF KeptBy, Saving, Deleting, At
      <4>4. KeptBy(w, g)'
        BY <2>1, <2>2, <3>2 DEF KeptBy, Saving, Storing, Deleting, At
      <4> QED
        BY <2>2, <2>3, <4>2, <4>3, <4>4 DEF Kept
    <3> QED
      BY <3>1, <3>2
  <2> QED
    BY <1>15, <2>3, KeptFrom
<1>16. ASSUME NEW w \in Workers,
             WriteFile(w), Observe
      PROVE  KeptInv'
  <2>1. /\ job[w].at = "write" /\ job'[w].at = "row"
        /\ job'[w].hash = job[w].hash /\ job'[w].entry = job[w].entry
        /\ job'[w].hashes = job[w].hashes
        /\ \A v \in Workers \ {w} : job'[v] = job[v]
    BY <1>16, GoesOn DEF WriteFile, At
  <2>2. /\ job[w].hash \in Hashes
        /\ files[job[w].hash] # "none" /\ job[w].hash \notin excused
             => files'[job[w].hash] = "full"
        /\ \A g \in Hashes \ {job[w].hash} : files'[g] = files[g]
        /\ UNCHANGED <<rows, refs, stored, bundle>>
    BY <1>16, <2>1 DEF WriteFile, TypeInv, TypeOK, HoldsOK, OneHash, disk,
       database
  <2>3. ASSUME NEW g \in Hashes \ excused, Kept(g), ~Overlap(g)' PROVE Kept(g)'
    <3>1. CASE g # job[w].hash
      <4>1. KeptBy(w, g)'
        BY <2>1, <3>1 DEF KeptBy, Saving, Storing, Deleting, At
      <4>2. Whole(g) => Whole(g)'
        BY <2>1, <2>2, <2>3, <3>1 DEF Whole, At
      <4> QED
        BY <2>1, <2>2, <2>3, <3>1, <4>1, <4>2, StillKept
    <3>2. CASE g = job[w].hash
      <4>1. files[g] = "part" /\ files'[g] = "full"
        BY <2>1, <2>2, <2>3, <3>2 DEF Kept, KeptBy, Storing, At
      <4>2. ~Whole(g)
        BY <2>1, <2>3, <4>1, WholeNow
      <4>3. (\A e \in Entries : <<e, g>> \notin refs) /\ g \notin stored
        BY <2>3, <4>2 DEF Kept
      <4>4. ASSUME NEW v \in Workers \ {w} PROVE KeptBy(v, g)'
        <5>1. ~Overlap(g)
          BY <2>3, <4>1 DEF Kept, Forgotten
        <5>2. KeptBy(v, g) /\ ~Storing(v, g)
          BY <2>1, <2>3, <3>2, <4>1, <5>1 DEF Kept, Overlap, Storing
        <5>3. ~Saving(v, g)
          BY <4>2, <5>2 DEF KeptBy
        <5> QED
          BY <2>1, <2>2, <4>3, <5>2, <5>3 DEF KeptBy, Saving, Storing, Deleting,
             At
      <4>5. KeptBy(w, g)'
        BY <2>1, <2>2, <4>1 DEF KeptBy, Saving, Storing, Deleting, At
      <4> QED
        BY <2>2, <2>3, <4>3, <4>4, <4>5 DEF Kept
    <3> QED
      BY <3>1, <3>2
  <2> QED
    BY <1>16, <2>3, KeptFrom
<1>17. ASSUME NEW w \in Workers,
             InsertRow(w), Observe
      PROVE  KeptInv'
  <2>1. /\ job[w].at = "row" /\ job'[w].at = "idle"
        /\ \A v \in Workers \ {w} : job'[v] = job[v]
    BY <1>17, Answers DEF InsertRow, At
  <2>2. /\ job[w].hash \in Hashes
        /\ rows' = rows \union {job[w].hash}
        /\ stored' = stored \union {job[w].hash}
        /\ UNCHANGED <<files, refs, bundle>>
    BY <1>17, <2>1 DEF InsertRow, TypeInv, TypeOK, HoldsOK, OneHash, disk,
       database
  <2>3. ASSUME NEW g \in Hashes \ excused, Kept(g), ~Overlap(g)' PROVE Kept(g)'
    <3>1. CASE g # job[w].hash
      <4>1. KeptBy(w, g)'
        BY <2>1, <3>1 DEF KeptBy, Saving, Storing, Deleting, At
      <4>2. Whole(g) => Whole(g)'
        BY <2>1, <2>2, <2>3, <3>1 DEF Whole, At
      <4> QED
        BY <2>1, <2>2, <2>3, <3>1, <4>1, <4>2, StillKept
    <3>2. CASE g = job[w].hash
      <4>1. files[g] = "full" /\ Whole(g)'
        BY <2>1, <2>2, <2>3, <3>2 DEF Kept, KeptBy, Storing, At, Whole
      <4>2. ASSUME NEW v \in Workers PROVE KeptBy(v, g)'
        <5>1. CASE v = w
          BY <2>1, <5>1 DEF KeptBy, Saving, Storing, Deleting, At
        <5>2. CASE v # w
          <6>1. ~Overlap(g)
            BY <2>3, <4>1 DEF Kept, Forgotten
          <6>2. KeptBy(v, g) /\ ~Deleting(v, g)
            BY <2>1, <2>3, <3>2, <5>2, <6>1 DEF Kept, Overlap, Storing, At
          <6> QED
            BY <2>1, <2>2, <4>1, <5>2, <6>2 DEF KeptBy, Saving, Storing,
               Deleting, At
        <5> QED
          BY <5>1, <5>2
      <4> QED
        BY <2>3, <4>1, <4>2 DEF Kept
    <3> QED
      BY <3>1, <3>2
  <2> QED
    BY <1>17, <2>3, KeptFrom
<1>18. ASSUME NEW w \in Workers,
             ReadMeta(w), Observe
      PROVE  KeptInv'
  <2>1. /\ job[w].at = "meta" /\ job'[w].hash = job[w].hash
        /\ job'[w].at = (IF job[w].hash \in rows THEN "read" ELSE "readUntyped")
        /\ job'[w].flag = (job[w].flag /\ job[w].hash \in stored \ excused)
        /\ \A v \in Workers \ {w} : job'[v] = job[v]
    BY <1>18, Serves DEF ReadMeta, At
  <2>2. UNCHANGED <<files, rows, stored>> /\ UNCHANGED refs
    BY <1>18 DEF ReadMeta, disk, database, Except
  <2>3. ASSUME NEW g \in Hashes, Kept(g), ~Overlap(g)' PROVE Kept(g)'
    <3>1. Whole(g) => Whole(g)'
      BY <2>1, <2>2, <2>3, WholeNow DEF Whole, At
    <3>2. KeptBy(w, g)'
      BY <2>1, <2>2 DEF KeptBy, Saving, Storing, Deleting, At
    <3> QED
      BY <2>1, <2>2, <2>3, <3>1, <3>2, StillKept
  <2> QED
    BY <1>18, <2>3, KeptFrom
<1>19. ASSUME NEW w \in Workers,
             ReadFile(w), Observe
      PROVE  KeptInv'
  <2>1. /\ job[w].at \in {"read", "readUntyped"} /\ job'[w].hash = job[w].hash
        /\ job'[w].at = (IF At(w, "read") /\ files[job[w].hash] = "full"
                       THEN "servedFull" ELSE "servedLess")
        /\ job'[w].flag = (job[w].flag /\ job[w].hash \in stored \ excused)
        /\ \A v \in Workers \ {w} : job'[v] = job[v]
    BY <1>19, Serves DEF ReadFile, At
  <2>2. UNCHANGED <<files, rows, stored>> /\ UNCHANGED refs
    BY <1>19 DEF ReadFile, disk, database, Except
  <2>3. ASSUME NEW g \in Hashes, Kept(g), ~Overlap(g)' PROVE Kept(g)'
    <3>1. Whole(g) => Whole(g)'
      BY <2>1, <2>2, <2>3, WholeNow DEF Whole, At
    <3>2. KeptBy(w, g)'
      BY <2>1, <2>2 DEF KeptBy, Saving, Storing, Deleting, At
    <3> QED
      BY <2>1, <2>2, <2>3, <3>1, <3>2, StillKept
  <2> QED
    BY <1>19, <2>3, KeptFrom
<1>20. ASSUME NEW w \in Workers,
             Served(w), Observe
      PROVE  KeptInv'
  <2>1. /\ job[w].at \in {"servedFull", "servedLess"} /\ job'[w].at = "idle"
        /\ \A v \in Workers \ {w} : job'[v] = job[v]
    BY <1>20, Answers DEF Served, At
  <2>2. UNCHANGED <<files, rows, stored>> /\ UNCHANGED refs
    BY <1>20 DEF Served, disk, database, Except
  <2>3. ASSUME NEW g \in Hashes, Kept(g), ~Overlap(g)' PROVE Kept(g)'
    <3>1. Whole(g) => Whole(g)'
      BY <2>1, <2>2, <2>3, WholeNow DEF Whole, At
    <3>2. KeptBy(w, g)'
      BY <2>1, <2>2 DEF KeptBy, Saving, Storing, Deleting, At
    <3> QED
      BY <2>1, <2>2, <2>3, <3>1, <3>2, StillKept
  <2> QED
    BY <1>20, <2>3, KeptFrom
<1>21. ASSUME NEW w \in Workers,
             DeleteUploadFile(w), Observe
      PROVE  KeptInv'
  <2>1. /\ job[w].at = "unlink" /\ job'[w].at = "deleteRow"
        /\ job'[w].hash = job[w].hash /\ job'[w].entry = job[w].entry
        /\ job'[w].hashes = job[w].hashes
        /\ \A v \in Workers \ {w} : job'[v] = job[v]
    BY <1>21, GoesOn DEF DeleteUploadFile, At
  <2>2. /\ job[w].hash \in Hashes
        /\ stored' = stored \ {job[w].hash}
        /\ \A g \in Hashes \ {job[w].hash} : files'[g] = files[g]
        /\ UNCHANGED <<rows, refs, bundle>>
    BY <1>21, <2>1 DEF DeleteUploadFile, TypeInv, TypeOK, HoldsOK, OneHash,
       disk, database
  <2>3. ASSUME NEW g \in Hashes \ excused, Kept(g), ~Overlap(g)' PROVE Kept(g)'
    <3>1. CASE g # job[w].hash
      <4>1. KeptBy(w, g)'
        BY <2>1, <3>1 DEF KeptBy, Saving, Storing, Deleting, At
      <4>2. Whole(g) => Whole(g)'
        BY <2>1, <2>2, <2>3, <3>1 DEF Whole, At
      <4> QED
        BY <2>1, <2>2, <2>3, <3>1, <4>1, <4>2, StillKept
    <3>2. CASE g = job[w].hash
      <4>1. \A e \in Entries : <<e, g>> \notin refs'
        BY <2>1, <2>2, <2>3, <3>2 DEF Kept, KeptBy, Deleting, At
      <4>2. ASSUME NEW v \in Workers PROVE ~Storing(v, g)' /\ ~Saving(v, g)'
        <5>1. Deleting(w, g)'
          BY <2>1, <3>2 DEF Deleting
        <5> QED
          BY <2>1, <2>3, <5>1 DEF Overlap, Storing, Saving
      <4> QED
        BY <2>2, <2>3, <3>2, <4>1, <4>2 DEF Kept, KeptBy
    <3> QED
      BY <3>1, <3>2
  <2> QED
    BY <1>21, <2>3, KeptFrom
<1>22. ASSUME NEW w \in Workers,
             DeleteRow(w), Observe
      PROVE  KeptInv'
  <2>1. /\ job[w].at = "deleteRow" /\ job'[w].at = "idle"
        /\ \A v \in Workers \ {w} : job'[v] = job[v]
    BY <1>22, Answers DEF DeleteRow, At
  <2>2. /\ job[w].hash \in Hashes
        /\ rows' = rows \ {job[w].hash}
        /\ UNCHANGED <<files, refs, bundle, stored>>
    BY <1>22, <2>1 DEF DeleteRow, TypeInv, TypeOK, HoldsOK, OneHash, disk,
       database
  <2>3. ASSUME NEW g \in Hashes \ excused, Kept(g), ~Overlap(g)' PROVE Kept(g)'
    <3>1. CASE g # job[w].hash
      <4>1. KeptBy(w, g)'
        BY <2>1, <3>1 DEF KeptBy, Saving, Storing, Deleting, At
      <4>2. Whole(g) => Whole(g)'
        BY <2>1, <2>2, <2>3, <3>1 DEF Whole, At
      <4> QED
        BY <2>1, <2>2, <2>3, <3>1, <4>1, <4>2, StillKept
    <3>2. CASE g = job[w].hash
      <4>1. (\A e \in Entries : <<e, g>> \notin refs) /\ g \notin stored
        BY <2>1, <2>3, <3>2 DEF Kept, KeptBy, Deleting, At
      <4>2. ~Overlap(g)
        BY <2>1, <2>3, <3>2 DEF Kept, Forgotten, Deleting
      <4>3. ASSUME NEW v \in Workers PROVE KeptBy(v, g)'
        <5>1. CASE v = w
          BY <2>1, <5>1 DEF KeptBy, Saving, Storing, Deleting, At
        <5>2. CASE v # w
          <6>1. KeptBy(v, g) /\ ~Saving(v, g)
            BY <2>1, <2>3, <3>2, <4>2, <5>2 DEF Kept, Overlap, Deleting
          <6> QED
            BY <2>1, <2>2, <4>1, <5>2, <6>1 DEF KeptBy, Saving, Storing,
               Deleting, At
        <5> QED
          BY <5>1, <5>2
      <4> QED
        BY <2>2, <2>3, <4>1, <4>3 DEF Kept
    <3> QED
      BY <3>1, <3>2
  <2> QED
    BY <1>22, <2>3, KeptFrom
<1>23. ASSUME NEW w \in Workers,
             SaveDocument(w), Observe
      PROVE  KeptInv'
  <2>1. /\ job[w].at = "save" /\ job'[w].at \in {"references", "idle"}
        /\ job'[w].at = "references" =>
             job'[w].entry = job[w].entry /\ job'[w].hashes = job[w].hashes
        /\ \A v \in Workers \ {w} : job'[v] = job[v]
    BY <1>23, GoesOn, Answers DEF SaveDocument, At
  <2>2. UNCHANGED <<files, rows, stored>> /\ UNCHANGED refs
    BY <1>23 DEF SaveDocument, disk, database, Except
  <2>3. ASSUME NEW g \in Hashes, Kept(g), ~Overlap(g)' PROVE Kept(g)'
    <3>1. Whole(g) => Whole(g)'
      BY <2>1, <2>2, <2>3, WholeNow DEF Whole, At
    <3>2. KeptBy(w, g)'
      BY <2>1, <2>2, <2>3, <3>1 DEF KeptBy, Saving, Storing, Deleting, At, Kept
    <3> QED
      BY <2>1, <2>2, <2>3, <3>1, <3>2, StillKept
  <2> QED
    BY <1>23, <2>3, KeptFrom
<1>24. ASSUME NEW w \in Workers,
             UpdateReferences(w), Observe
      PROVE  KeptInv'
  <2>1. /\ job[w].at = "references" /\ job'[w].at = "idle"
        /\ \A v \in Workers \ {w} : job'[v] = job[v]
    BY <1>24, Answers DEF UpdateReferences, At
  <2>2. /\ job[w].entry \in Entries
        /\ \A e \in Entries, g \in Hashes : <<e, g>> \in refs' =>
             <<e, g>> \in refs \/ g \in job[w].hashes[job[w].entry]
        /\ UNCHANGED <<files, rows, bundle, stored>>
    BY <1>24, <2>1 DEF UpdateReferences, Except, RefsOf, TypeInv, TypeOK,
       HoldsOK, OneEntry, disk, database
  <2>3. ASSUME NEW g \in Hashes, Kept(g), ~Overlap(g)' PROVE Kept(g)'
    <3>1. Whole(g) => Whole(g)'
      BY <2>1, <2>2 DEF Whole, At
    <3>2. KeptBy(w, g)'
      BY <2>1 DEF KeptBy, Saving, Storing, Deleting, At
    <3>3. CASE Saving(w, g)
      <4>1. Whole(g) /\ ~Overlap(g)
        BY <2>3, <3>3 DEF Kept, KeptBy, Forgotten
      <4>2. ASSUME NEW v \in Workers \ {w} PROVE KeptBy(v, g)'
        <5>1. KeptBy(v, g) /\ ~Deleting(v, g)
          BY <2>3, <3>3, <4>1 DEF Kept, Overlap
        <5> QED
          BY <2>1, <2>2, <3>1, <4>1, <5>1 DEF KeptBy, Saving, Storing, Deleting,
             At
      <4> QED
        BY <2>3, <3>1, <3>2, <4>1, <4>2 DEF Kept
    <3>4. CASE ~Saving(w, g)
      <4>1. \A e \in Entries : <<e, g>> \in refs' => <<e, g>> \in refs
        BY <2>1, <2>2, <3>4 DEF Saving
      <4> QED
        BY <2>1, <2>2, <2>3, <3>1, <3>2, <4>1, StillKept
    <3> QED
      BY <3>3, <3>4
  <2> QED
    BY <1>24, <2>3, KeptFrom
<1>25. ASSUME NEW w \in Workers,
             DeleteReferences(w), Observe
      PROVE  KeptInv'
  <2>1. /\ job[w].at = "unreference" /\ job'[w].at = "remove"
        /\ job'[w].hash = job[w].hash /\ job'[w].entry = job[w].entry
        /\ job'[w].hashes = job[w].hashes
        /\ \A v \in Workers \ {w} : job'[v] = job[v]
    BY <1>25, GoesOn DEF DeleteReferences, At
  <2>2. UNCHANGED <<files, rows, stored>> /\ refs' \subseteq refs
    BY <1>25 DEF DeleteReferences, disk, database, Except
  <2>3. ASSUME NEW g \in Hashes, Kept(g), ~Overlap(g)' PROVE Kept(g)'
    <3>1. Whole(g) => Whole(g)'
      BY <2>1, <2>2, <2>3, WholeNow DEF Whole, At
    <3>2. KeptBy(w, g)'
      BY <2>1, <2>2 DEF KeptBy, Saving, Storing, Deleting, At
    <3> QED
      BY <2>1, <2>2, <2>3, <3>1, <3>2, StillKept
  <2> QED
    BY <1>25, <2>3, KeptFrom
<1>26. ASSUME NEW w \in Workers,
             RemoveDocument(w), Observe
      PROVE  KeptInv'
  <2>1. /\ job[w].at = "remove" /\ job'[w].at = "idle"
        /\ \A v \in Workers \ {w} : job'[v] = job[v]
    BY <1>26, Answers DEF RemoveDocument, At
  <2>2. UNCHANGED <<files, rows, stored>> /\ UNCHANGED refs
    BY <1>26 DEF RemoveDocument, disk, database, Except
  <2>3. ASSUME NEW g \in Hashes, Kept(g), ~Overlap(g)' PROVE Kept(g)'
    <3>1. Whole(g) => Whole(g)'
      BY <2>1, <2>2, <2>3, WholeNow DEF Whole, At
    <3>2. KeptBy(w, g)'
      BY <2>1, <2>2 DEF KeptBy, Saving, Storing, Deleting, At
    <3> QED
      BY <2>1, <2>2, <2>3, <3>1, <3>2, StillKept
  <2> QED
    BY <1>26, <2>3, KeptFrom
<1>27. ASSUME NEW w \in Workers,
             WriteManifest(w), Observe
      PROVE  KeptInv'
  <2>1. /\ job[w].at = "manifest" /\ job'[w].at = "tarDocs"
        /\ job'[w].hash = job[w].hash /\ job'[w].entry = job[w].entry
        /\ job'[w].hashes = job[w].hashes
        /\ \A v \in Workers \ {w} : job'[v] = job[v]
    BY <1>27, GoesOn DEF WriteManifest, At
  <2>2. UNCHANGED <<files, rows, stored>> /\ UNCHANGED refs
    BY <1>27 DEF WriteManifest, disk, database, Except
  <2>3. ASSUME NEW g \in Hashes, Kept(g), ~Overlap(g)' PROVE Kept(g)'
    <3>1. Whole(g) => Whole(g)'
      BY <2>1, <2>2, <2>3, WholeNow DEF Whole, At
    <3>2. KeptBy(w, g)'
      BY <2>1, <2>2 DEF KeptBy, Saving, Storing, Deleting, At
    <3> QED
      BY <2>1, <2>2, <2>3, <3>1, <3>2, StillKept
  <2> QED
    BY <1>27, <2>3, KeptFrom
<1>28. ASSUME NEW w \in Workers,
             TarDocuments(w), Observe
      PROVE  KeptInv'
  <2>1. /\ job[w].at = "tarDocs" /\ job'[w].at = "tarFiles"
        /\ job'[w].hash = job[w].hash /\ job'[w].entry = job[w].entry
        /\ job'[w].hashes = job[w].hashes
        /\ \A v \in Workers \ {w} : job'[v] = job[v]
    BY <1>28, GoesOn DEF TarDocuments, At
  <2>2. UNCHANGED <<files, rows, stored>> /\ UNCHANGED refs
    BY <1>28 DEF TarDocuments, disk, database, Except
  <2>3. ASSUME NEW g \in Hashes, Kept(g), ~Overlap(g)' PROVE Kept(g)'
    <3>1. Whole(g) => Whole(g)'
      BY <2>1, <2>2, <2>3, WholeNow DEF Whole, At
    <3>2. KeptBy(w, g)'
      BY <2>1, <2>2 DEF KeptBy, Saving, Storing, Deleting, At
    <3> QED
      BY <2>1, <2>2, <2>3, <3>1, <3>2, StillKept
  <2> QED
    BY <1>28, <2>3, KeptFrom
<1>29. ASSUME NEW w \in Workers,
             TarFiles(w), Observe
      PROVE  KeptInv'
  <2>1. /\ job[w].at = "tarFiles" /\ job'[w].at = "idle"
        /\ \A v \in Workers \ {w} : job'[v] = job[v]
    BY <1>29, Answers DEF TarFiles, At
  <2>2. UNCHANGED <<files, rows, stored>> /\ UNCHANGED refs
    BY <1>29 DEF TarFiles, disk, database, Except
  <2>3. ASSUME NEW g \in Hashes, Kept(g), ~Overlap(g)' PROVE Kept(g)'
    <3>1. Whole(g) => Whole(g)'
      BY <2>1, <2>2, <2>3, WholeNow DEF Whole, At
    <3>2. KeptBy(w, g)'
      BY <2>1, <2>2 DEF KeptBy, Saving, Storing, Deleting, At
    <3> QED
      BY <2>1, <2>2, <2>3, <3>1, <3>2, StillKept
  <2> QED
    BY <1>29, <2>3, KeptFrom
<1>30. ASSUME NEW w \in Workers,
             UnpackDocuments(w), Observe
      PROVE  KeptInv'
  <2>1. /\ job[w].at = "unpackDocs" /\ job'[w].at = "unpackFiles"
        /\ job'[w].hash = job[w].hash /\ job'[w].entry = job[w].entry
        /\ job'[w].hashes = job[w].hashes
        /\ \A v \in Workers \ {w} : job'[v] = job[v]
    BY <1>30, GoesOn DEF UnpackDocuments, At
  <2>2. UNCHANGED <<files, rows, stored>> /\ UNCHANGED refs
    BY <1>30 DEF UnpackDocuments, disk, database, Except
  <2>3. ASSUME NEW g \in Hashes, Kept(g), ~Overlap(g)' PROVE Kept(g)'
    <3>1. Whole(g) => Whole(g)'
      BY <2>1, <2>2, <2>3, WholeNow DEF Whole, At
    <3>2. KeptBy(w, g)'
      BY <2>1, <2>2 DEF KeptBy, Saving, Storing, Deleting, At
    <3> QED
      BY <2>1, <2>2, <2>3, <3>1, <3>2, StillKept
  <2> QED
    BY <1>30, <2>3, KeptFrom
<1>31. ASSUME NEW w \in Workers,
             UnpackFiles(w), Observe
      PROVE  KeptInv'
  <2>1. /\ job[w].at = "unpackFiles" /\ job'[w].at = "closeFiles"
        /\ job'[w].hash = job[w].hash /\ job'[w].entry = job[w].entry
        /\ job'[w].hashes = job[w].hashes
        /\ \A v \in Workers \ {w} : job'[v] = job[v]
    BY <1>31, GoesOn DEF UnpackFiles, At
  <2>3. ASSUME NEW g \in Hashes, Kept(g), ~Overlap(g)' PROVE Kept(g)'
    <3>1. alone'[w] /\ bundle.files[g] # "part"
      BY <1>31, <2>1, <2>3 DEF UnpackFiles, Overlap, Importing
    <3>2. alone[w] /\ \A v \in Workers \ {w} : job'[v].at = "idle"
      BY <1>31, <2>1, <3>1 DEF Observe
    <3>3. \A v \in Workers : KeptBy(v, g)'
      BY <2>1, <3>2 DEF KeptBy, Saving, Storing, Deleting, At
    <3>4. /\ UNCHANGED <<rows, refs, stored, bundle>>
          /\ files'[g] = IF bundle.files[g] = "none" THEN files[g] ELSE "part"
      BY <1>31 DEF UnpackFiles, database
    <3>5. Whole(g) => Whole(g)'
      BY <2>1, <3>1, <3>2, <3>4 DEF Whole, At, TypeInv, Bundle
    <3> QED
      BY <2>3, <3>3, <3>4, <3>5 DEF Kept
  <2> QED
    BY <1>31, <2>3, KeptFrom
<1>32. ASSUME NEW w \in Workers,
             CloseFiles(w), Observe
      PROVE  KeptInv'
  <2>1. /\ job[w].at = "closeFiles" /\ job'[w].at = "importRows"
        /\ job'[w].hash = job[w].hash /\ job'[w].entry = job[w].entry
        /\ job'[w].hashes = job[w].hashes
        /\ \A v \in Workers \ {w} : job'[v] = job[v]
    BY <1>32, GoesOn DEF CloseFiles, At
  <2>3. ASSUME NEW g \in Hashes, Kept(g), ~Overlap(g)' PROVE Kept(g)'
    <3>1. alone'[w] /\ bundle.files[g] # "part"
      BY <1>32, <2>1, <2>3 DEF CloseFiles, Overlap, Importing
    <3>2. alone[w] /\ \A v \in Workers \ {w} : job'[v].at = "idle"
      BY <1>32, <2>1, <3>1 DEF Observe
    <3>3. \A v \in Workers : KeptBy(v, g)'
      BY <2>1, <3>2 DEF KeptBy, Saving, Storing, Deleting, At
    <3>4. /\ UNCHANGED <<rows, refs, stored, bundle>>
          /\ files'[g] = IF bundle.files[g] = "none" THEN files[g] ELSE bundle.files[g]
      BY <1>32 DEF CloseFiles, database
    <3>5. Whole(g) => Whole(g)'
      BY <3>1, <3>4 DEF Whole, TypeInv, Bundle
    <3> QED
      BY <2>3, <3>3, <3>4, <3>5 DEF Kept
  <2> QED
    BY <1>32, <2>3, KeptFrom
<1>33. ASSUME NEW w \in Workers,
             ImportRows(w), Observe
      PROVE  KeptInv'
  <2>1. /\ job[w].at = "importRows" /\ job'[w].at = "scan"
        /\ job'[w].hash = job[w].hash /\ job'[w].entry = job[w].entry
        /\ job'[w].hashes = job[w].hashes
        /\ \A v \in Workers \ {w} : job'[v] = job[v]
    BY <1>33, GoesOn DEF ImportRows, At
  <2>3. ASSUME NEW g \in Hashes, Kept(g), ~Overlap(g)' PROVE Kept(g)'
    <3>1. alone'[w] /\ bundle.files[g] # "part"
      BY <1>33, <2>1, <2>3 DEF ImportRows, Overlap, Importing
    <3>2. alone[w] /\ \A v \in Workers \ {w} : job'[v].at = "idle"
      BY <1>33, <2>1, <3>1 DEF Observe
    <3>3. \A v \in Workers : KeptBy(v, g)'
      BY <2>1, <3>2 DEF KeptBy, Saving, Storing, Deleting, At
    <3>4. UNCHANGED <<files, refs, stored, bundle>> /\ rows \subseteq rows'
      BY <1>33 DEF ImportRows, disk
    <3>5. Whole(g) => Whole(g)'
      BY <2>1, <2>3, <3>4, WholeNow DEF Whole
    <3> QED
      BY <2>3, <3>3, <3>4, <3>5 DEF Kept
  <2> QED
    BY <1>33, <2>3, KeptFrom
<1>34. ASSUME NEW w \in Workers,
             ScanDocuments(w), Observe
      PROVE  KeptInv'
  <2>1. /\ job[w].at = "scan" /\ job'[w].at = "populate"
        /\ job'[w].hashes = docs
        /\ \A v \in Workers \ {w} : job'[v] = job[v]
    BY <1>34 DEF ScanDocuments, At, TypeInv, TypeOK, Job
  <2>2. UNCHANGED <<files, rows, stored>> /\ UNCHANGED refs
    BY <1>34 DEF ScanDocuments, disk, database, Except
  <2>3. ASSUME NEW g \in Hashes, Kept(g), ~Overlap(g)' PROVE Kept(g)'
    <3>1. Whole(g) => Whole(g)'
      BY <2>1, <2>2, <2>3, WholeNow DEF Whole, At
    <3>2. KeptBy(w, g)'
      BY <2>1, <2>2 DEF KeptBy, Saving, Storing, Deleting, At
    <3> QED
      BY <2>1, <2>2, <2>3, <3>1, <3>2, StillKept
  <2> QED
    BY <1>34, <2>3, KeptFrom
<1>35. ASSUME NEW w \in Workers,
             PopulateReferences(w), Observe
      PROVE  KeptInv'
  <2>1. /\ job[w].at = "populate" /\ job'[w].at = "imported"
        /\ job'[w].hash = job[w].hash /\ job'[w].entry = job[w].entry
        /\ job'[w].hashes = job[w].hashes
        /\ \A v \in Workers \ {w} : job'[v] = job[v]
    BY <1>35, GoesOn DEF PopulateReferences, At
  <2>3. ASSUME NEW g \in Hashes, Kept(g), ~Overlap(g)' PROVE Kept(g)'
    <3>1. alone'[w] /\ bundle.files[g] # "part"
      BY <1>35, <2>1, <2>3 DEF PopulateReferences, Overlap, Importing
    <3>2. alone[w] /\ \A v \in Workers \ {w} : job'[v].at = "idle"
      BY <1>35, <2>1, <3>1 DEF Observe
    <3>3. \A v \in Workers : KeptBy(v, g)'
      BY <2>1, <3>2 DEF KeptBy, Saving, Storing, Deleting, At
    <3>4. UNCHANGED <<files, rows, stored, bundle>>
      BY <1>35 DEF PopulateReferences, disk
    <3>5. Whole(g) => Whole(g)'
      BY <2>1, <2>3, <3>4, WholeNow DEF Whole
    <3>6. ASSUME NEW e \in Entries, <<e, g>> \in refs' PROVE Whole(g)
      <4>1. CASE <<e, g>> \in refs
        BY <2>3, <4>1 DEF Kept
      <4>2. CASE <<e, g>> \notin refs
        <5>1. g \in HashesOf(e)
          BY <1>35, <2>1, <3>2, <3>6, <4>2 DEF PopulateReferences, ImportInv,
             ImportOf, HashesOf, At
        <5>2. ~Forgotten(g)
          BY <5>1 DEF Forgotten
        <5> QED
          BY <2>3, <4>2, <5>1, <5>2 DEF Kept, Overlap, Whole
      <4> QED
        BY <4>1, <4>2
    <3> QED
      BY <2>3, <3>3, <3>4, <3>5, <3>6 DEF Kept
  <2> QED
    BY <1>35, <2>3, KeptFrom
<1>36. ASSUME NEW w \in Workers,
             Imported(w), Observe
      PROVE  KeptInv'
  <2>1. /\ job[w].at = "imported" /\ job'[w].at = "idle"
        /\ \A v \in Workers \ {w} : job'[v] = job[v]
    BY <1>36, Answers DEF Imported, At
  <2>2. UNCHANGED <<files, rows, refs, bundle>>
    BY <1>36 DEF Imported, disk, database
  <2>3. ASSUME NEW g \in Hashes, Kept(g), ~Overlap(g)' PROVE Kept(g)'
    <3>1. Whole(g) => Whole(g)'
      BY <2>1, <2>2 DEF Whole, At
    <3>2. KeptBy(w, g)'
      BY <2>1 DEF KeptBy, Saving, Storing, Deleting, At
    <3>3. CASE g \in stored' => g \in stored
      BY <2>1, <2>2, <2>3, <3>1, <3>2, <3>3, StillKept
    <3>4. CASE g \in stored' /\ g \notin stored
      <4>1. alone[w] /\ g \in bundle.rows /\ bundle.files[g] = "full"
        BY <1>36, <3>4 DEF Imported
      <4>2. Whole(g)
        BY <2>1, <4>1 DEF ImportInv, ImportOf, Whole
      <4>3. \A v \in Workers \ {w} : job'[v].at = "idle"
        BY <2>1, <4>1 DEF AloneInv, At
      <4>4. \A v \in Workers : KeptBy(v, g)'
        BY <3>2, <4>3 DEF KeptBy, Saving, Storing, Deleting, At
      <4> QED
        BY <2>2, <2>3, <3>1, <4>2, <4>4 DEF Kept
    <3> QED
      BY <3>3, <3>4
  <2> QED
    BY <1>36, <2>3, KeptFrom
<1> QED
  BY <1>1, <1>2, <1>3, <1>4, <1>5, <1>6, <1>7, <1>8, <1>9, <1>10, <1>11, <1>12,
     <1>13, <1>14, <1>15, <1>16, <1>17, <1>18, <1>19, <1>20, <1>21, <1>22,
     <1>23, <1>24, <1>25, <1>26, <1>27, <1>28, <1>29, <1>30, <1>31, <1>32,
     <1>33, <1>34, <1>35, <1>36 DEF Next, Request, Step

\* ServeInv is inductive: who was promised the bytes finds the row, then the file.
LEMMA ServeInvStep ==
  TypeInv /\ AloneInv /\ KeptInv /\ ServeInv /\ [Next]_vars => ServeInv'
<1> SUFFICES ASSUME TypeInv, AloneInv, KeptInv, ServeInv, [Next]_vars PROVE ServeInv'
  OBVIOUS
<1>1. CASE UNCHANGED vars
  BY <1>1 DEF vars, ServeInv
<1>2. CASE Crash /\ Observe
  BY <1>2 DEF Crash, ServeInv, Idle
<1>3. ASSUME NEW w \in Workers, NEW h \in Hashes,
             UploadFile(w, h), Observe
      PROVE  ServeInv'
  <2> DEFINE j == [Idle EXCEPT !.at = "exists", !.hash = h]
  <2>1. Begin(w, j) /\ j.at = "exists"
    BY <1>3 DEF UploadFile, Idle
  <2> HIDE DEF j
  <2> QED
    BY <2>1, Begins DEF ServeInv
<1>4. ASSUME NEW w \in Workers, NEW h \in Hashes,
             ApiUploadFile(w, h), Observe
      PROVE  ServeInv'
  <2> DEFINE j == [Idle EXCEPT !.at = "exists", !.hash = h]
  <2>1. Begin(w, j) /\ j.at = "exists"
    BY <1>4 DEF ApiUploadFile, Idle
  <2> HIDE DEF j
  <2> QED
    BY <2>1, Begins DEF ServeInv
<1>5. ASSUME NEW w \in Workers, NEW h \in Hashes,
             ServeFile(w, h), Observe
      PROVE  ServeInv'
  <2> DEFINE j == [Idle EXCEPT !.at = "meta", !.hash = h, !.flag = h \in stored]
  <2>1. Begin(w, j) /\ j.at = "meta"
    BY <1>5 DEF ServeFile, Idle
  <2> HIDE DEF j
  <2> QED
    BY <2>1, Begins DEF ServeInv
<1>6. ASSUME NEW w \in Workers, NEW h \in Hashes,
             SetFocalPoint(w, h), Observe
      PROVE  ServeInv'
  BY <1>6 DEF SetFocalPoint, ServeInv
<1>7. ASSUME NEW w \in Workers, NEW h \in Hashes,
             DeleteUpload(w, h), Observe
      PROVE  ServeInv'
  <2> DEFINE j == [Idle EXCEPT !.at = "unlink", !.hash = h]
  <2>1. Begin(w, j) /\ j.at = "unlink"
    BY <1>7 DEF DeleteUpload, Idle
  <2> HIDE DEF j
  <2> QED
    BY <2>1, Begins DEF ServeInv
<1>8. ASSUME NEW w \in Workers, NEW e \in Entries, NEW hs \in SUBSET Hashes,
             NEW records \in BOOLEAN,
             SaveEntry(w, e, hs, records), Observe
      PROVE  ServeInv'
  <2> DEFINE j == [Idle EXCEPT !.at = "save", !.entry = e, !.hashes[e] = hs,
                          !.flag = records]
  <2>1. Begin(w, j) /\ j.at = "save"
    BY <1>8 DEF SaveEntry, Idle
  <2> HIDE DEF j
  <2> QED
    BY <2>1, Begins DEF ServeInv
<1>9. ASSUME NEW w \in Workers, NEW e \in Entries,
             DeleteEntry(w, e), Observe
      PROVE  ServeInv'
  <2> DEFINE j == [Idle EXCEPT !.at = "unreference", !.entry = e]
  <2>1. Begin(w, j) /\ j.at = "unreference"
    BY <1>9 DEF DeleteEntry, Idle
  <2> HIDE DEF j
  <2> QED
    BY <2>1, Begins DEF ServeInv
<1>10. ASSUME NEW w \in Workers,
             ExportBundle(w), Observe
      PROVE  ServeInv'
  <2> DEFINE j == [Idle EXCEPT !.at = "manifest"]
  <2>1. Begin(w, j) /\ j.at = "manifest"
    BY <1>10 DEF ExportBundle, Idle
  <2> HIDE DEF j
  <2> QED
    BY <2>1, Begins DEF ServeInv
<1>11. ASSUME NEW w \in Workers,
             ExportData(w), Observe
      PROVE  ServeInv'
  <2> DEFINE j == [Idle EXCEPT !.at = "manifest"]
  <2>1. Begin(w, j) /\ j.at = "manifest"
    BY <1>11 DEF ExportData, ExportBundle, Idle
  <2> HIDE DEF j
  <2> QED
    BY <2>1, Begins DEF ServeInv
<1>12. ASSUME NEW w \in Workers,
             ImportBundle(w), Observe
      PROVE  ServeInv'
  <2> DEFINE j == [Idle EXCEPT !.at = "unpackDocs"]
  <2>1. Begin(w, j) /\ j.at = "unpackDocs"
    BY <1>12 DEF ImportBundle, Idle
  <2> HIDE DEF j
  <2> QED
    BY <2>1, Begins DEF ServeInv
<1>13. ASSUME NEW w \in Workers,
             ImportData(w), Observe
      PROVE  ServeInv'
  <2> DEFINE j == [Idle EXCEPT !.at = "unpackDocs"]
  <2>1. Begin(w, j) /\ j.at = "unpackDocs"
    BY <1>13 DEF ImportData, ImportBundle, Idle
  <2> HIDE DEF j
  <2> QED
    BY <2>1, Begins DEF ServeInv
<1>14. ASSUME NEW w \in Workers,
             FindFile(w), Observe
      PROVE  ServeInv'
  <2>1. /\ job[w].at = "exists" /\ job'[w].hash = job[w].hash
        /\ job'[w].at = (IF files[job[w].hash] = "none" THEN "create" ELSE "row")
        /\ \A v \in Workers \ {w} : job'[v] = job[v]
    BY <1>14, GoesOn DEF FindFile, At
  <2> QED
    BY <2>1 DEF ServeInv
<1>15. ASSUME NEW w \in Workers,
             CreateFile(w), Observe
      PROVE  ServeInv'
  <2>1. /\ job[w].at = "create" /\ job'[w].at = "write"
        /\ job'[w].hash = job[w].hash /\ job'[w].entry = job[w].entry
        /\ job'[w].hashes = job[w].hashes
        /\ \A v \in Workers \ {w} : job'[v] = job[v]
    BY <1>15, GoesOn DEF CreateFile, At
  <2> QED
    BY <2>1 DEF ServeInv
<1>16. ASSUME NEW w \in Workers,
             WriteFile(w), Observe
      PROVE  ServeInv'
  <2>1. /\ job[w].at = "write" /\ job'[w].at = "row"
        /\ job'[w].hash = job[w].hash /\ job'[w].entry = job[w].entry
        /\ job'[w].hashes = job[w].hashes
        /\ \A v \in Workers \ {w} : job'[v] = job[v]
    BY <1>16, GoesOn DEF WriteFile, At
  <2> QED
    BY <2>1 DEF ServeInv
<1>17. ASSUME NEW w \in Workers,
             InsertRow(w), Observe
      PROVE  ServeInv'
  <2>1. /\ job[w].at = "row" /\ job'[w].at = "idle"
        /\ \A v \in Workers \ {w} : job'[v] = job[v]
    BY <1>17, Answers DEF InsertRow, At
  <2> QED
    BY <2>1 DEF ServeInv
<1>18. ASSUME NEW w \in Workers,
             ReadMeta(w), Observe
      PROVE  ServeInv'
  <2>1. /\ job[w].at = "meta" /\ job'[w].hash = job[w].hash
        /\ job'[w].at = (IF job[w].hash \in rows THEN "read" ELSE "readUntyped")
        /\ job'[w].flag = (job[w].flag /\ job[w].hash \in stored \ excused)
        /\ \A v \in Workers \ {w} : job'[v] = job[v]
    BY <1>18, Serves DEF ReadMeta, At
  <2>2. job'[w].at = "readUntyped" => ~job'[w].flag
    <3>1. job[w].hash \in stored \ excused => job[w].hash \in rows
      BY DEF KeptInv, Kept, Whole, TypeInv, TypeOK
    <3> QED
      BY <2>1, <3>1
  <2> QED
    BY <2>1, <2>2 DEF ServeInv
<1>19. ASSUME NEW w \in Workers,
             ReadFile(w), Observe
      PROVE  ServeInv'
  <2>1. /\ job[w].at \in {"read", "readUntyped"} /\ job'[w].hash = job[w].hash
        /\ job'[w].at = (IF At(w, "read") /\ files[job[w].hash] = "full"
                       THEN "servedFull" ELSE "servedLess")
        /\ job'[w].flag = (job[w].flag /\ job[w].hash \in stored \ excused)
        /\ \A v \in Workers \ {w} : job'[v] = job[v]
    BY <1>19, Serves DEF ReadFile, At
  <2>2. job'[w].at = "servedLess" => ~job'[w].flag
    <3>1. job[w].hash \in stored \ excused => files[job[w].hash] = "full"
      BY <2>1, WholeNow DEF KeptInv, Kept, TypeInv, TypeOK
    <3>2. job[w].at = "readUntyped" => ~job[w].flag
      BY DEF ServeInv
    <3> QED
      BY <2>1, <3>1, <3>2 DEF At
  <2> QED
    BY <2>1, <2>2 DEF ServeInv
<1>20. ASSUME NEW w \in Workers,
             Served(w), Observe
      PROVE  ServeInv'
  <2>1. /\ job[w].at \in {"servedFull", "servedLess"} /\ job'[w].at = "idle"
        /\ \A v \in Workers \ {w} : job'[v] = job[v]
    BY <1>20, Answers DEF Served, At
  <2> QED
    BY <2>1 DEF ServeInv
<1>21. ASSUME NEW w \in Workers,
             DeleteUploadFile(w), Observe
      PROVE  ServeInv'
  <2>1. /\ job[w].at = "unlink" /\ job'[w].at = "deleteRow"
        /\ job'[w].hash = job[w].hash /\ job'[w].entry = job[w].entry
        /\ job'[w].hashes = job[w].hashes
        /\ \A v \in Workers \ {w} : job'[v] = job[v]
    BY <1>21, GoesOn DEF DeleteUploadFile, At
  <2> QED
    BY <2>1 DEF ServeInv
<1>22. ASSUME NEW w \in Workers,
             DeleteRow(w), Observe
      PROVE  ServeInv'
  <2>1. /\ job[w].at = "deleteRow" /\ job'[w].at = "idle"
        /\ \A v \in Workers \ {w} : job'[v] = job[v]
    BY <1>22, Answers DEF DeleteRow, At
  <2> QED
    BY <2>1 DEF ServeInv
<1>23. ASSUME NEW w \in Workers,
             SaveDocument(w), Observe
      PROVE  ServeInv'
  <2>1. /\ job[w].at = "save" /\ job'[w].at \in {"references", "idle"}
        /\ job'[w].at = "references" =>
             job'[w].entry = job[w].entry /\ job'[w].hashes = job[w].hashes
        /\ \A v \in Workers \ {w} : job'[v] = job[v]
    BY <1>23, GoesOn, Answers DEF SaveDocument, At
  <2> QED
    BY <2>1 DEF ServeInv
<1>24. ASSUME NEW w \in Workers,
             UpdateReferences(w), Observe
      PROVE  ServeInv'
  <2>1. /\ job[w].at = "references" /\ job'[w].at = "idle"
        /\ \A v \in Workers \ {w} : job'[v] = job[v]
    BY <1>24, Answers DEF UpdateReferences, At
  <2> QED
    BY <2>1 DEF ServeInv
<1>25. ASSUME NEW w \in Workers,
             DeleteReferences(w), Observe
      PROVE  ServeInv'
  <2>1. /\ job[w].at = "unreference" /\ job'[w].at = "remove"
        /\ job'[w].hash = job[w].hash /\ job'[w].entry = job[w].entry
        /\ job'[w].hashes = job[w].hashes
        /\ \A v \in Workers \ {w} : job'[v] = job[v]
    BY <1>25, GoesOn DEF DeleteReferences, At
  <2> QED
    BY <2>1 DEF ServeInv
<1>26. ASSUME NEW w \in Workers,
             RemoveDocument(w), Observe
      PROVE  ServeInv'
  <2>1. /\ job[w].at = "remove" /\ job'[w].at = "idle"
        /\ \A v \in Workers \ {w} : job'[v] = job[v]
    BY <1>26, Answers DEF RemoveDocument, At
  <2> QED
    BY <2>1 DEF ServeInv
<1>27. ASSUME NEW w \in Workers,
             WriteManifest(w), Observe
      PROVE  ServeInv'
  <2>1. /\ job[w].at = "manifest" /\ job'[w].at = "tarDocs"
        /\ job'[w].hash = job[w].hash /\ job'[w].entry = job[w].entry
        /\ job'[w].hashes = job[w].hashes
        /\ \A v \in Workers \ {w} : job'[v] = job[v]
    BY <1>27, GoesOn DEF WriteManifest, At
  <2> QED
    BY <2>1 DEF ServeInv
<1>28. ASSUME NEW w \in Workers,
             TarDocuments(w), Observe
      PROVE  ServeInv'
  <2>1. /\ job[w].at = "tarDocs" /\ job'[w].at = "tarFiles"
        /\ job'[w].hash = job[w].hash /\ job'[w].entry = job[w].entry
        /\ job'[w].hashes = job[w].hashes
        /\ \A v \in Workers \ {w} : job'[v] = job[v]
    BY <1>28, GoesOn DEF TarDocuments, At
  <2> QED
    BY <2>1 DEF ServeInv
<1>29. ASSUME NEW w \in Workers,
             TarFiles(w), Observe
      PROVE  ServeInv'
  <2>1. /\ job[w].at = "tarFiles" /\ job'[w].at = "idle"
        /\ \A v \in Workers \ {w} : job'[v] = job[v]
    BY <1>29, Answers DEF TarFiles, At
  <2> QED
    BY <2>1 DEF ServeInv
<1>30. ASSUME NEW w \in Workers,
             UnpackDocuments(w), Observe
      PROVE  ServeInv'
  <2>1. /\ job[w].at = "unpackDocs" /\ job'[w].at = "unpackFiles"
        /\ job'[w].hash = job[w].hash /\ job'[w].entry = job[w].entry
        /\ job'[w].hashes = job[w].hashes
        /\ \A v \in Workers \ {w} : job'[v] = job[v]
    BY <1>30, GoesOn DEF UnpackDocuments, At
  <2> QED
    BY <2>1 DEF ServeInv
<1>31. ASSUME NEW w \in Workers,
             UnpackFiles(w), Observe
      PROVE  ServeInv'
  <2>1. /\ job[w].at = "unpackFiles" /\ job'[w].at = "closeFiles"
        /\ job'[w].hash = job[w].hash /\ job'[w].entry = job[w].entry
        /\ job'[w].hashes = job[w].hashes
        /\ \A v \in Workers \ {w} : job'[v] = job[v]
    BY <1>31, GoesOn DEF UnpackFiles, At
  <2> QED
    BY <2>1 DEF ServeInv
<1>32. ASSUME NEW w \in Workers,
             CloseFiles(w), Observe
      PROVE  ServeInv'
  <2>1. /\ job[w].at = "closeFiles" /\ job'[w].at = "importRows"
        /\ job'[w].hash = job[w].hash /\ job'[w].entry = job[w].entry
        /\ job'[w].hashes = job[w].hashes
        /\ \A v \in Workers \ {w} : job'[v] = job[v]
    BY <1>32, GoesOn DEF CloseFiles, At
  <2> QED
    BY <2>1 DEF ServeInv
<1>33. ASSUME NEW w \in Workers,
             ImportRows(w), Observe
      PROVE  ServeInv'
  <2>1. /\ job[w].at = "importRows" /\ job'[w].at = "scan"
        /\ job'[w].hash = job[w].hash /\ job'[w].entry = job[w].entry
        /\ job'[w].hashes = job[w].hashes
        /\ \A v \in Workers \ {w} : job'[v] = job[v]
    BY <1>33, GoesOn DEF ImportRows, At
  <2> QED
    BY <2>1 DEF ServeInv
<1>34. ASSUME NEW w \in Workers,
             ScanDocuments(w), Observe
      PROVE  ServeInv'
  <2>1. /\ job[w].at = "scan" /\ job'[w].at = "populate"
        /\ job'[w].hashes = docs
        /\ \A v \in Workers \ {w} : job'[v] = job[v]
    BY <1>34 DEF ScanDocuments, At, TypeInv, TypeOK, Job
  <2> QED
    BY <2>1 DEF ServeInv
<1>35. ASSUME NEW w \in Workers,
             PopulateReferences(w), Observe
      PROVE  ServeInv'
  <2>1. /\ job[w].at = "populate" /\ job'[w].at = "imported"
        /\ job'[w].hash = job[w].hash /\ job'[w].entry = job[w].entry
        /\ job'[w].hashes = job[w].hashes
        /\ \A v \in Workers \ {w} : job'[v] = job[v]
    BY <1>35, GoesOn DEF PopulateReferences, At
  <2> QED
    BY <2>1 DEF ServeInv
<1>36. ASSUME NEW w \in Workers,
             Imported(w), Observe
      PROVE  ServeInv'
  <2>1. /\ job[w].at = "imported" /\ job'[w].at = "idle"
        /\ \A v \in Workers \ {w} : job'[v] = job[v]
    BY <1>36, Answers DEF Imported, At
  <2> QED
    BY <2>1 DEF ServeInv
<1> QED
  BY <1>1, <1>2, <1>3, <1>4, <1>5, <1>6, <1>7, <1>8, <1>9, <1>10, <1>11, <1>12,
     <1>13, <1>14, <1>15, <1>16, <1>17, <1>18, <1>19, <1>20, <1>21, <1>22,
     <1>23, <1>24, <1>25, <1>26, <1>27, <1>28, <1>29, <1>30, <1>31, <1>32,
     <1>33, <1>34, <1>35, <1>36 DEF Next, Request, Step

\* Nothing is stored or promised at first.
LEMMA InitInv == Init => Inv
<1> SUFFICES ASSUME Init PROVE Inv
  OBVIOUS
<1>1. \A w \in Workers : job[w] = Idle /\ job[w].at = "idle"
  BY DEF Init, Idle
<1>2. TypeInv
  <2>1. job \in [Workers -> Job] /\ \A w \in Workers : HoldsOK(job[w])
    BY <1>1, IdleTyped DEF Init
  <2>2. requests \in 0..MaxRequests /\ crashes \in 0..MaxCrashes
    BY UploadsAssumption DEF Init
  <2> QED
    BY <2>1, <2>2, IdleTyped DEF Init, TypeInv, TypeOK, Job, Docs
<1>3. AloneInv /\ ServeInv
  BY <1>1 DEF AloneInv, ServeInv, At
<1>4. ImportInv
  BY <1>1 DEF ImportInv, ImportOf, At
<1>5. KeptInv
  <2> SUFFICES ASSUME NEW h \in Hashes PROVE Kept(h)
    BY DEF KeptInv
  <2>1. Forgotten(h)
    BY <1>1 DEF Init, Forgotten, HashesOf, Storing, Deleting, Saving, At
  <2> QED
    BY <2>1 DEF Forgotten, Kept, KeptBy
<1> QED
  BY <1>2, <1>3, <1>4, <1>5 DEF Inv

\* The parts of the invariant hold together.
LEMMA InvHolds == Spec => []Inv
<1>1. Inv /\ [Next]_vars => Inv'
  BY TypeInvStep, AloneInvStep, ImportInvStep, KeptInvStep, ServeInvStep DEF Inv
<1> QED
  BY InitInv, <1>1, PTL DEF Spec

-----------------------------------------------------------------------------

\* TypeOK: the files, the database, the bundle's request and the workers have
\* their types, and a focal point has its row.
THEOREM TypeCorrect == Spec => []TypeOK
<1>1. Inv => TypeOK
  BY DEF Inv, TypeInv
<1> QED
  BY InvHolds, <1>1, PTL

\* ReferencedIsKept: an upload that a document names, by a reference that was
\* recorded, is complete and has its row, whatever was deleted, uploaded again,
\* exported or imported before, but for the excused overlaps.
THEOREM ReferencedIsKeptHolds == Spec => []ReferencedIsKept
<1>1. Inv => ReferencedIsKept
  BY DEF Inv, KeptInv, Kept, Whole, ReferencedIsKept, Importing, At
<1> QED
  BY InvHolds, <1>1, PTL

\* ServedAsStored: whoever was told that bytes are stored gets them back,
\* complete and with their type, until the upload is deleted.
THEOREM ServedAsStoredHolds == Spec => []ServedAsStored
<1>1. Inv => ServedAsStored
  BY DEF Inv, ServeInv, ServedAsStored, At
<1> QED
  BY InvHolds, <1>1, PTL

\* ImportRestores: an import by itself brings back the documents, the files and
\* the rows of the bundle, and records the references of every document.
THEOREM ImportRestoresHolds == Spec => []ImportRestores
<1>1. Inv => ImportRestores
  <2> SUFFICES ASSUME Inv, NEW w \in Workers, At(w, "imported"), alone[w]
               PROVE  /\ \A e \in Entries :
                           /\ bundle.docs[e] # NoDoc => docs[e] = bundle.docs[e]
                           /\ docs[e] # NoDoc =>
                                {r \in refs : r[1] = e} = RefsOf(e, docs[e])
                      /\ bundle.rows \subseteq rows
                      /\ \A h \in Hashes : bundle.files[h] \in {"none", files[h]}
    BY DEF ImportRestores
  <2>1. ImportOf(w) /\ TypeInv
    BY DEF Inv, ImportInv
  <2>2. ASSUME NEW e \in Entries, docs[e] # NoDoc
        PROVE  {r \in refs : r[1] = e} = RefsOf(e, docs[e])
    <3>1. refs \subseteq Entries \X Hashes /\ docs[e] \subseteq Hashes
      BY <2>1, <2>2 DEF TypeInv, TypeOK, Docs
    <3>2. \A h \in Hashes : <<e, h>> \in refs <=> h \in docs[e]
      BY <2>1, <2>2 DEF ImportOf
    <3> QED
      BY <3>1, <3>2 DEF RefsOf
  <2> QED
    BY <2>1, <2>2 DEF ImportOf, At
<1> QED
  BY InvHolds, <1>1, PTL

==============================================================================
