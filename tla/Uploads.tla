------------------------------- MODULE Uploads -------------------------------
(***************************************************************************)
(* The uploads of one app: files named by the hash of their bytes, rows    *)
(* with their names and types, references from documents to hashes, and    *)
(* the bundles that carry all of them to another server or back.           *)
(*                                                                         *)
(* A worker is a request between two of its system calls or statements;    *)
(* requests of several workers interleave, and a crash ends them where     *)
(* they are.                                                               *)
(*                                                                         *)
(* Abstractions.  A document is the set of the hashes that                 *)
(* extract_upload_hashes finds in it, and its file is written in one step  *)
(* (ContentStore cuts that write in two).  A row stands for the name, the  *)
(* type and the size.  One bundle is kept, the last export.                *)
(***************************************************************************)
EXTENDS Naturals, FiniteSets

CONSTANTS
  Hashes,      \* hashes of the bytes that are uploaded
  Entries,     \* entries whose documents refer to uploads
  Workers,     \* requests that run at once
  NoDoc,       \* the entry does not exist
  None,        \* no hash, no entry
  MaxRequests, \* bound: requests in all
  MaxCrashes   \* bound: crashes

ASSUME UploadsAssumption ==
  /\ \A hs \in SUBSET Hashes : NoDoc # hs
  /\ None \notin Hashes \union Entries
  /\ MaxRequests \in Nat /\ MaxCrashes \in Nat

VARIABLES
  files,     \* the file of each hash: "none", "part", "full"
  rows,      \* the hashes with a row in uploads
  focal,     \* those whose row has a focal point
  refs,      \* upload_references: pairs of an entry and a hash
  docs,      \* the document of each entry
  job,       \* what each worker does
  bundle,    \* the last export
  \* History variables.
  stored,    \* hashes whose upload was answered and that were not deleted
  alone,     \* no other request ran while this one did
  excused,   \* hashes hit by an overlap or a crash the code does not survive
  requests, crashes

disk == <<files, docs>>
database == <<rows, focal, refs>>
bounds == <<requests, crashes>>
vars == <<disk, database, job, bundle, stored, alone, excused, bounds>>

Docs == (SUBSET Hashes) \union {NoDoc}
HashesOf(e) == IF docs[e] = NoDoc THEN {} ELSE docs[e]
RefsOf(e, hs) == {e} \X hs
Except(e) == {r \in refs : r[1] # e}

Idle == [at |-> "idle", hash |-> None, entry |-> None,
         hashes |-> [e \in Entries |-> NoDoc], flag |-> FALSE]
NoBundle == [rows |-> {}, docs |-> [e \in Entries |-> NoDoc],
             files |-> [h \in Hashes |-> "none"], clean |-> FALSE]

At(w, l) == job[w].at = l
GoTo(w, l) == job' = [job EXCEPT ![w].at = l]
Answer(w) == job' = [job EXCEPT ![w] = Idle]

\* The labels of a request are those of its next step.
Storing(w, h) == /\ job[w].at \in {"exists", "create", "write", "row"}
                 /\ job[w].hash = h
Writing(w, h) == At(w, "write") /\ job[w].hash = h
Deleting(w, h) == job[w].at \in {"unlink", "deleteRow"} /\ job[w].hash = h
Saving(w, h) == /\ job[w].at \in {"save", "references"}
                /\ h \in job[w].hashes[job[w].entry]
Exporting(w) == job[w].at \in {"manifest", "tarDocs", "tarFiles"}
Importing(w) == job[w].at \in {"unpackDocs", "unpackFiles", "closeFiles",
                               "importRows", "scan", "populate", "imported"}

Begin(w, j) ==
  /\ At(w, "idle") /\ requests < MaxRequests
  /\ requests' = requests + 1
  /\ job' = [job EXCEPT ![w] = j]
  /\ UNCHANGED <<disk, database, bundle, stored, crashes>>

-----------------------------------------------------------------------------
(* Uploading: store_upload.                                                *)

\* The form and the API, whose handlers differ in who may call them.
UploadFile(w, h) == Begin(w, [Idle EXCEPT !.at = "exists", !.hash = h])

ApiUploadFile(w, h) == Begin(w, [Idle EXCEPT !.at = "exists", !.hash = h])

FindFile(w) ==
  /\ At(w, "exists")
  /\ GoTo(w, IF files[job[w].hash] = "none" THEN "create" ELSE "row")
  /\ UNCHANGED <<disk, database, bundle, stored, bounds>>

\* std::fs::write truncates the file ...
CreateFile(w) ==
  /\ At(w, "create")
  /\ files' = [files EXCEPT ![job[w].hash] = "part"]
  /\ GoTo(w, "write")
  /\ UNCHANGED <<docs, database, bundle, stored, bounds>>

\* ... and fills the one it opened, which may be unlinked by now.
WriteFile(w) ==
  LET h == job[w].hash IN
  /\ At(w, "write")
  /\ \/ /\ files[h] # "none"
        /\ files' = [files EXCEPT ![h] = "full"]
     \/ /\ files[h] = "none" \/ h \in excused
        /\ UNCHANGED files
  /\ GoTo(w, "row")
  /\ UNCHANGED <<docs, database, bundle, stored, bounds>>

\* INSERT OR IGNORE: the row of an earlier upload keeps its focal point.
InsertRow(w) ==
  /\ At(w, "row")
  /\ rows' = rows \union {job[w].hash}
  /\ stored' = stored \union {job[w].hash}
  /\ Answer(w)
  /\ UNCHANGED <<disk, focal, refs, bundle, bounds>>

-----------------------------------------------------------------------------
(* Serving: flag says that the client was promised the bytes, which were   *)
(* neither deleted since it asked nor hit by an overlap.                   *)

ServeFile(w, h) ==
  /\ files[h] # "none"
  /\ Begin(w, [Idle EXCEPT !.at = "meta", !.hash = h, !.flag = h \in stored])

Serve(w, l) ==
  LET r == job[w] IN
  job' = [job EXCEPT ![w] =
            [r EXCEPT !.at = l, !.flag = r.flag /\ r.hash \in stored \ excused]]

\* The row is read before the file; without one the type is a guess.
ReadMeta(w) ==
  /\ At(w, "meta")
  /\ Serve(w, IF job[w].hash \in rows THEN "read" ELSE "readUntyped")
  /\ UNCHANGED <<disk, database, bundle, stored, bounds>>

ReadFile(w) ==
  /\ At(w, "read") \/ At(w, "readUntyped")
  /\ Serve(w, IF At(w, "read") /\ files[job[w].hash] = "full"
                THEN "servedFull" ELSE "servedLess")
  /\ UNCHANGED <<disk, database, bundle, stored, bounds>>

Served(w) ==
  /\ At(w, "servedFull") \/ At(w, "servedLess")
  /\ Answer(w)
  /\ UNCHANGED <<disk, database, bundle, stored, bounds>>

\* Mutant: the focal point is inserted where there is no row.
SetFocalAnyway(w, h) ==
  /\ At(w, "idle") /\ requests < MaxRequests
  /\ requests' = requests + 1
  /\ focal' = focal \union {h}
  /\ UNCHANGED <<disk, rows, refs, job, bundle, stored, crashes>>

\* PUT .../focal: one UPDATE, which finds a row or does not.
SetFocalPoint(w, h) ==
  /\ At(w, "idle") /\ requests < MaxRequests
  /\ requests' = requests + 1
  /\ focal' = IF h \in rows THEN focal \union {h} ELSE focal
  /\ UNCHANGED <<disk, rows, refs, job, bundle, stored, crashes>>

-----------------------------------------------------------------------------
(* Deleting an upload, from the list or its page.                          *)

\* Mutant: the references are not counted.
CountNothing(w, h) == Begin(w, [Idle EXCEPT !.at = "unlink", !.hash = h])

DeleteUpload(w, h) ==
  /\ ~ \E e \in Entries : <<e, h>> \in refs
  /\ Begin(w, [Idle EXCEPT !.at = "unlink", !.hash = h])

DeleteUploadFile(w) ==
  /\ At(w, "unlink")
  /\ files' = [files EXCEPT ![job[w].hash] = "none"]
  /\ stored' = stored \ {job[w].hash}
  /\ GoTo(w, "deleteRow")
  /\ UNCHANGED <<docs, database, bundle, bounds>>

DeleteRow(w) ==
  /\ At(w, "deleteRow")
  /\ rows' = rows \ {job[w].hash}
  /\ focal' = focal \ {job[w].hash}
  /\ Answer(w)
  /\ UNCHANGED <<disk, refs, bundle, stored, bounds>>

-----------------------------------------------------------------------------
(* Saving and deleting entries.  A document names uploads whose answer its *)
(* author has seen.  records is FALSE for the bulk handlers and reverts,   *)
(* which do not record the references.                                     *)

SaveEntry(w, e, hs, records) ==
  /\ hs \subseteq stored
  /\ Begin(w, [Idle EXCEPT !.at = "save", !.entry = e, !.hashes[e] = hs,
                           !.flag = records])

SaveDocument(w) ==
  LET e == job[w].entry IN
  /\ At(w, "save")
  /\ docs' = [docs EXCEPT ![e] = job[w].hashes[e]]
  /\ IF job[w].flag THEN GoTo(w, "references") ELSE Answer(w)
  /\ UNCHANGED <<files, database, bundle, stored, bounds>>

UpdateReferences(w) ==
  LET e == job[w].entry IN
  /\ At(w, "references")
  /\ refs' = Except(e) \union RefsOf(e, job[w].hashes[e])
  /\ Answer(w)
  /\ UNCHANGED <<disk, rows, focal, bundle, stored, bounds>>

DeleteEntry(w, e) ==
  /\ docs[e] # NoDoc
  /\ Begin(w, [Idle EXCEPT !.at = "unreference", !.entry = e])

DeleteReferences(w) ==
  /\ At(w, "unreference")
  /\ refs' = Except(job[w].entry)
  /\ GoTo(w, "remove")
  /\ UNCHANGED <<disk, rows, focal, bundle, stored, bounds>>

RemoveDocument(w) ==
  /\ At(w, "remove")
  /\ docs' = [docs EXCEPT ![job[w].entry] = NoDoc]
  /\ Answer(w)
  /\ UNCHANGED <<files, database, bundle, stored, bounds>>

-----------------------------------------------------------------------------
(* Export: the manifest, then the documents, then the files.               *)

ExportBundle(w) ==
  /\ \A v \in Workers : ~Exporting(v) /\ ~Importing(v)
  /\ Begin(w, [Idle EXCEPT !.at = "manifest"])

\* From the page of the app.
ExportData(w) == ExportBundle(w)

\* The focal points are written too, and read by no import.
WriteManifest(w) ==
  /\ At(w, "manifest")
  /\ bundle' = [NoBundle EXCEPT !.rows = rows]
  /\ GoTo(w, "tarDocs")
  /\ UNCHANGED <<disk, database, stored, bounds>>

TarDocuments(w) ==
  /\ At(w, "tarDocs")
  /\ bundle' = [bundle EXCEPT !.docs = docs]
  /\ GoTo(w, "tarFiles")
  /\ UNCHANGED <<disk, database, stored, bounds>>

TarFiles(w) ==
  /\ At(w, "tarFiles")
  /\ bundle' = [bundle EXCEPT !.files = files, !.clean = alone[w]]
  /\ Answer(w)
  /\ UNCHANGED <<disk, database, stored, bounds>>

-----------------------------------------------------------------------------
(* Import: unpack over what there is, then rows, then references.          *)

ImportBundle(w) ==
  /\ bundle # NoBundle
  /\ \A v \in Workers : ~Exporting(v) /\ ~Importing(v)
  /\ Begin(w, [Idle EXCEPT !.at = "unpackDocs"])

ImportData(w) == ImportBundle(w)

UnpackDocuments(w) ==
  /\ At(w, "unpackDocs")
  /\ docs' = [e \in Entries |-> IF bundle.docs[e] = NoDoc THEN docs[e]
                                                         ELSE bundle.docs[e]]
  /\ GoTo(w, "unpackFiles")
  /\ UNCHANGED <<files, database, bundle, stored, bounds>>

\* A file that is there is removed and created again ...
UnpackFiles(w) ==
  /\ At(w, "unpackFiles")
  /\ files' = [h \in Hashes |-> IF bundle.files[h] = "none" THEN files[h]
                                                           ELSE "part"]
  /\ GoTo(w, "closeFiles")
  /\ UNCHANGED <<docs, database, bundle, stored, bounds>>

\* ... and filled with what the export has found.
CloseFiles(w) ==
  /\ At(w, "closeFiles")
  /\ files' = [h \in Hashes |-> IF bundle.files[h] = "none" THEN files[h]
                                                           ELSE bundle.files[h]]
  /\ GoTo(w, "importRows")
  /\ UNCHANGED <<docs, database, bundle, stored, bounds>>

\* Mutant: the manifest is not read.
ImportNoRows(w) ==
  /\ At(w, "importRows")
  /\ GoTo(w, "scan")
  /\ UNCHANGED <<disk, database, bundle, stored, bounds>>

\* INSERT OR IGNORE without the focal point of the manifest.
ImportRows(w) ==
  /\ At(w, "importRows")
  /\ rows' = rows \union bundle.rows
  /\ GoTo(w, "scan")
  /\ UNCHANGED <<disk, focal, refs, bundle, stored, bounds>>

\* populate_references_from_content reads the documents on disk ...
ScanDocuments(w) ==
  /\ At(w, "scan")
  /\ job' = [job EXCEPT ![w] = [@ EXCEPT !.hashes = docs, !.at = "populate"]]
  /\ UNCHANGED <<disk, database, bundle, stored, bounds>>

\* Mutant: the references are left as they were.
PopulateNothing(w) ==
  /\ At(w, "populate")
  /\ GoTo(w, "imported")
  /\ UNCHANGED <<disk, database, bundle, stored, bounds>>

\* ... and replaces the references of each; an entry without a document
\* keeps the ones it has.
PopulateReferences(w) ==
  LET found == job[w].hashes IN
  /\ At(w, "populate")
  /\ refs' = {r \in refs : found[r[1]] = NoDoc} \union
             {r \in Entries \X Hashes :
                /\ found[r[1]] # NoDoc
                /\ r[2] \in found[r[1]]}
  /\ GoTo(w, "imported")
  /\ UNCHANGED <<disk, rows, focal, bundle, stored, bounds>>

Imported(w) ==
  /\ At(w, "imported")
  /\ stored' = IF alone[w]
                 THEN stored \union {h \in bundle.rows : bundle.files[h] = "full"}
                 ELSE stored
  /\ Answer(w)
  /\ UNCHANGED <<disk, database, bundle, bounds>>

-----------------------------------------------------------------------------

Crash ==
  /\ crashes < MaxCrashes
  /\ crashes' = crashes + 1
  /\ job' = [w \in Workers |-> Idle]
  /\ bundle' = IF \E w \in Workers : Exporting(w) THEN NoBundle ELSE bundle
  /\ UNCHANGED <<disk, database, stored, requests>>

Request(w) ==
  \/ \E h \in Hashes : \/ UploadFile(w, h) \/ ApiUploadFile(w, h)
                       \/ ServeFile(w, h)
                       \/ SetFocalPoint(w, h) \/ DeleteUpload(w, h)
  \/ \E e \in Entries :
       \/ \E hs \in SUBSET Hashes, records \in BOOLEAN :
            SaveEntry(w, e, hs, records)
       \/ DeleteEntry(w, e)
  \/ ExportBundle(w) \/ ExportData(w) \/ ImportBundle(w) \/ ImportData(w)

Step(w) ==
  \/ FindFile(w) \/ CreateFile(w) \/ WriteFile(w) \/ InsertRow(w)
  \/ ReadMeta(w) \/ ReadFile(w) \/ Served(w)
  \/ DeleteUploadFile(w) \/ DeleteRow(w)
  \/ SaveDocument(w) \/ UpdateReferences(w)
  \/ DeleteReferences(w) \/ RemoveDocument(w)
  \/ WriteManifest(w) \/ TarDocuments(w) \/ TarFiles(w)
  \/ UnpackDocuments(w) \/ UnpackFiles(w) \/ CloseFiles(w) \/ ImportRows(w)
  \/ ScanDocuments(w) \/ PopulateReferences(w) \/ Imported(w)

(***************************************************************************)
(* The overlaps and crashes the code does not survive:                     *)
(* - a delete runs between its count and its last statement while the same *)
(*   bytes are uploaded again or named by a document that is being saved;  *)
(* - an upload finds the file another one is still writing, or left half   *)
(*   written when the server crashed, and answers;                         *)
(* - an import runs beside another request, or carries a file the export   *)
(*   found half written;                                                   *)
(* - an upload is deleted whose reference was never recorded.              *)
(***************************************************************************)
Overlap(h) ==
  \/ \E v, w \in Workers : /\ v # w /\ Deleting(v, h)
                           /\ Storing(w, h) \/ Saving(w, h)
  \/ /\ files[h] = "part"
     /\ \/ ~ \E w \in Workers : Writing(w, h) \/ At(w, "closeFiles")
        \/ \E v, w \in Workers : v # w /\ Storing(v, h) /\ Storing(w, h)
  \/ \E w \in Workers : Importing(w) /\ (~alone[w] \/ bundle.files[h] = "part")
  \/ \E e \in Entries : /\ h \in HashesOf(e) /\ <<e, h>> \notin refs
                        /\ files[h] # "full" \/ h \notin rows

\* What is deleted and named nowhere starts afresh.
Forgotten(h) ==
  /\ files[h] = "none" /\ h \notin rows \union stored
  /\ ~ \E w \in Workers : Storing(w, h) \/ Deleting(w, h) \/ Saving(w, h)
  /\ ~ \E e \in Entries : h \in HashesOf(e) \/ <<e, h>> \in refs

Observe ==
  /\ alone' = [w \in Workers |->
                 \/ job'[w].at = "idle"
                 \/ alone[w] /\ \A v \in Workers \ {w} : job'[v].at = "idle"]
  /\ excused' = {h \in Hashes : /\ h \in excused \/ Overlap(h)'
                                /\ ~Forgotten(h)'}

Init ==
  /\ files = [h \in Hashes |-> "none"]
  /\ rows = {} /\ focal = {} /\ refs = {}
  /\ docs = [e \in Entries |-> NoDoc]
  /\ job = [w \in Workers |-> Idle]
  /\ bundle = NoBundle
  /\ stored = {} /\ excused = {}
  /\ alone = [w \in Workers |-> TRUE]
  /\ requests = 0 /\ crashes = 0

Next == /\ Crash \/ \E w \in Workers : Request(w) \/ Step(w)
        /\ Observe

Spec == Init /\ [][Next]_vars

-----------------------------------------------------------------------------
(* Properties.                                                             *)

Labels == {"idle", "exists", "create", "write", "row", "meta", "read",
           "readUntyped", "servedFull", "servedLess", "unlink", "deleteRow",
           "save", "references", "unreference", "remove", "manifest",
           "tarDocs", "tarFiles", "unpackDocs", "unpackFiles", "closeFiles",
           "importRows", "scan", "populate", "imported"}

TypeOK ==
  /\ files \in [Hashes -> {"none", "part", "full"}]
  /\ rows \subseteq Hashes /\ focal \subseteq rows
  /\ refs \subseteq Entries \X Hashes
  /\ docs \in [Entries -> Docs]
  /\ job \in [Workers -> [at : Labels, hash : Hashes \union {None},
                          entry : Entries \union {None},
                          hashes : [Entries -> Docs], flag : BOOLEAN]]
  /\ stored \subseteq Hashes /\ excused \subseteq Hashes
  /\ alone \in [Workers -> BOOLEAN]
  /\ requests \in 0..MaxRequests /\ crashes \in 0..MaxCrashes

\* An upload that a document names, by a reference that was recorded, is
\* complete and has its row, except while an import unpacks: whatever was
\* deleted, uploaded again, exported or imported before, but for the
\* overlaps above.
ReferencedIsKept ==
  (~ \E w \in Workers : Importing(w)) =>
  \A e \in Entries, h \in Hashes :
    /\ <<e, h>> \in refs /\ h \in HashesOf(e) /\ h \notin excused
    => files[h] = "full" /\ h \in rows

\* Whoever was told that bytes are stored gets them back, complete and with
\* the type they were uploaded with, until the upload is deleted: an answer
\* under the ETag of the hash is cached for ever, so a short one stays.
ServedAsStored ==
  \A w \in Workers : At(w, "servedLess") => ~job[w].flag

\* An import by itself of a bundle that was exported by itself brings back
\* the documents, the files and the rows of the bundle, and leaves recorded
\* exactly the references of every document there is, also of those the
\* bulk handlers have saved without.
ImportRestores ==
  \A w \in Workers : At(w, "imported") /\ alone[w] /\ bundle.clean =>
    /\ \A e \in Entries :
         /\ bundle.docs[e] # NoDoc => docs[e] = bundle.docs[e]
         /\ docs[e] # NoDoc => {r \in refs : r[1] = e} = RefsOf(e, docs[e])
    /\ bundle.rows \subseteq rows
    /\ \A h \in Hashes : bundle.files[h] \in {"none", files[h]}
=============================================================================
