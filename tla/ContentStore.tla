---------------------------- MODULE ContentStore ----------------------------
(***************************************************************************)
(* The content entries of one collection of one app, stored as one JSON    *)
(* file per entry (storage mode "directory"), the in-memory content cache  *)
(* over them, the version history and the upload references.               *)
(*                                                                         *)
(* Every request handler of the API and of the admin UI is a sequence of   *)
(* file-system, cache and database operations with no lock around them, so *)
(* each operation is an action here and the handlers of different Workers  *)
(* interleave freely.  A request that the handler refuses before it has    *)
(* changed anything is not represented.                                    *)
(*                                                                         *)
(* A crash of the server may come between any two operations.  It keeps    *)
(* the files and the database and loses the cache, which the next start    *)
(* populates from the files.                                               *)
(***************************************************************************)
EXTENDS Naturals, FiniteSets

CONSTANTS
  Workers,      \* the tasks that run handlers
  Ids,          \* entry ids: slugs of a title, or UUIDs
  Bodies,       \* the data of an entry without its "_status" field
  Keys,         \* values of the x-substrukt-unique field
  NoKey,        \* the unique field is null or missing
  KeyOf,        \* the unique field of each body
  Complete,     \* bodies with every required-if-published field filled
  Hashes,       \* content hashes of uploads
  UploadsOf,    \* the uploads each body refers to
  InitialDocs,  \* documents a data directory may hold at first start
  Ops,          \* the requests that arrive (all of them, or some for a run)
  MaxVersions,  \* config.version_history_count
  MaxClock,     \* bound: the milliseconds a snapshot may read off the clock
  MaxRequests,  \* bound: requests started in one behaviour
  MaxCrashes,   \* bound: crashes in one behaviour
  None,         \* no file, no cache entry, no value
  Torn          \* a file that is not valid JSON: truncated or overwritten

\* An item of a bulk request is a request of its own; bulk publish, unpublish
\* and delete treat an item the way the single request does.
Creates == {"create", "bulk_create"}
Updates == {"update", "bulk_update"}
Bulk == {"bulk_create", "bulk_update"}
Saves == Creates \union Updates \union {"revert"}
AllOps == Saves \union {"publish", "unpublish", "delete"}

\* "unset" is a file without a "_status" field, written by hand or imported.
Statuses == {"draft", "published", "unset"}
Explicit == {"none", "draft", "published"}

Doc == [body : Bodies, status : Statuses]
Version == [ts : Nat, doc : Doc]

ASSUME DataAssumption ==
  /\ NoKey \notin Keys
  /\ KeyOf \in [Bodies -> Keys \union {NoKey}]
  /\ Complete \subseteq Bodies
  /\ UploadsOf \in [Bodies -> SUBSET Hashes]
  /\ InitialDocs \subseteq Doc
  /\ \A d \in InitialDocs : d.status = "published" => d.body \in Complete
  /\ Ops \subseteq AllOps

ASSUME BoundAssumption ==
  /\ MaxVersions \in Nat /\ MaxClock \in Nat
  /\ MaxRequests \in Nat /\ MaxCrashes \in Nat

ASSUME SentinelAssumption ==
  /\ None # Torn /\ None \notin Doc \union Bodies \union AllOps
  /\ Torn \notin Doc
  /\ None \notin [op : AllOps, body : Bodies \union {None}, explicit : Explicit,
                   done : BOOLEAN]

VARIABLES
  disk,         \* data/<app>/content/<schema>/<id>.json
  cache,        \* the entries of this schema in state.cache
  history,      \* data/<app>/_history/<schema>/<id>/<ts>.json
  refs,         \* rows of upload_references for each entry
  req,          \* the request each worker handles, and how far it got
  \* History variables: they record what happened and guide nothing.
  stale,        \* entries whose handlers overlapped since a solo reload
  overlapped,   \* entries that two handlers were ever in flight on
  interrupted,  \* entries a crash found a handler in flight on
  reverted,     \* entries whose file was last saved by a revert
  untracked,    \* entries whose file was last saved by a revert or in bulk
  unchecked,    \* entries ever reverted to a version without "_status"
  postdated,    \* entries that had MaxVersions versions newer than the clock
                \* when the last snapshot was taken
  degraded,     \* the last start could not read some file of the schema
  raced,        \* a save was validated against a cache that lacked a document:
                \* that of an earlier save, or those a start did not read
  issued, crashes

ghosts == <<stale, overlapped, interrupted, reverted, untracked, unchecked,
            postdated, degraded, raced, crashes>>
vars == <<disk, cache, history, refs, req, ghosts, issued>>

-----------------------------------------------------------------------------
(* Requests.                                                               *)

Steps == {"idle", "validate", "current", "snapshot", "status", "rmw",
          "truncate", "write", "unlinked", "reload", "cache", "refs",
          "exists", "unlink", "purge", "uncache"}

Request == [pc : Steps, op : AllOps \union {None}, id : Ids \union {None},
            body : Bodies \union {None}, explicit : Explicit,
            status : Statuses, held : Doc \union {None}, solo : BOOLEAN]

Idle == [pc |-> "idle", op |-> None, id |-> None, body |-> None,
         explicit |-> "none", status |-> "draft", held |-> None, solo |-> TRUE]

InFlight(id) == {w \in Workers : req[w].pc # "idle" /\ req[w].id = id}

\* Saves whose unique check is done and whose document is not yet cached.
Unsettled == {w \in Workers :
                /\ req[w].op \in Creates \union Updates
                /\ req[w].pc \notin {"idle", "validate", "refs"}}

\* Mutant: a save that names no status makes a draft of a published entry.
ResolveToDraft(explicit, file) ==
  IF explicit # "none" THEN explicit ELSE "draft"

\* resolve_target_status and the first part of save_entry: an explicit
\* "_status" wins, then that of the file if it can be read, then "draft".
Resolve(explicit, file) ==
  IF explicit # "none" THEN explicit
  ELSE IF file \in Doc /\ file.status # "unset" THEN file.status
  ELSE "draft"

Goto(w, pc) == req' = [req EXCEPT ![w].pc = pc]
Finish(w) == req' = [req EXCEPT ![w] = Idle]

\* A handler starts working on entry id.
Begin(w, op, id, pc, body, explicit, status) ==
  LET others == InFlight(id)
      overlap == IF others # {} THEN {id} ELSE {}
  IN  /\ req[w].pc = "idle"
      /\ op \in Ops
      /\ issued < MaxRequests
      /\ issued' = issued + 1
      /\ req' = [v \in Workers |->
                   IF v = w
                   THEN [pc |-> pc, op |-> op, id |-> id, body |-> body,
                         explicit |-> explicit, status |-> status,
                         held |-> None, solo |-> others = {}]
                   ELSE IF v \in others THEN [req[v] EXCEPT !.solo = FALSE]
                   ELSE req[v]]
      /\ stale' = stale \union overlap
      /\ overlapped' = overlapped \union overlap
      /\ UNCHANGED <<interrupted, reverted, untracked, unchecked, postdated,
                     degraded, raced, crashes>>

-----------------------------------------------------------------------------
(* create_entry and update_entry.                                          *)

\* The id of a new entry is the slug of a field of its data, whether or not
\* an entry of that id exists, or a fresh UUID.
BeginCreate(w, op, id, body, explicit) ==
  /\ op \in Creates
  /\ Begin(w, op, id, "validate", body, explicit, Resolve(explicit, None))
  /\ UNCHANGED <<disk, cache, history, refs>>

BeginUpdate(w, op, id, body, explicit) ==
  /\ op \in Updates
  /\ Begin(w, op, id, "validate", body, explicit, Resolve(explicit, disk[id]))
  /\ UNCHANGED <<disk, cache, history, refs>>

\* Mutant: only creates are checked.
KeyIsFreeOnCreate(op, id, body) ==
  op \in Creates /\ KeyOf[body] # NoKey =>
    \A other \in Ids :
      cache[other] # None => KeyOf[cache[other].body] # KeyOf[body]

\* validate_unique: no other cached entry has the key.  A create has no id
\* to exclude.
KeyIsFree(op, id, body) ==
  KeyOf[body] # NoKey =>
    \A other \in Ids :
      /\ cache[other] # None
      /\ KeyOf[cache[other].body] = KeyOf[body]
      => op \notin Creates /\ other = id

\* Mutant: the status the entry keeps is not looked at.
ValidAsNamed(r) ==
  /\ KeyIsFree(r.op, r.id, r.body)
  /\ r.explicit = "published" => r.body \in Complete

Valid(r) ==
  /\ KeyIsFree(r.op, r.id, r.body)
  /\ r.status = "published" => r.body \in Complete

Validate(w) ==
  LET r == req[w]
  IN  /\ r.pc = "validate"
      /\ IF Valid(r)
         THEN /\ Goto(w, IF r.op \in Creates THEN "status" ELSE "current")
              /\ raced' = (raced \/ Unsettled # {} \/ degraded)
         ELSE Finish(w) /\ UNCHANGED raced
      /\ UNCHANGED <<disk, cache, history, refs, issued, stale, overlapped,
                     interrupted, reverted, untracked, unchecked, postdated,
                     degraded, crashes>>

\* A current version that is absent or unreadable is not snapshotted.
ReadCurrent(w) ==
  LET file == disk[req[w].id]
  IN  /\ req[w].pc = "current"
      /\ req' = [req EXCEPT ![w] =
                   IF file \in Doc /\ MaxVersions > 0
                   THEN [@ EXCEPT !.pc = "snapshot", !.held = file]
                   ELSE [@ EXCEPT !.pc = "status", !.held = None]]
      /\ UNCHANGED <<disk, cache, history, refs, ghosts, issued>>

\* Mutant: sorted the wrong way round.
Oldest(versions, n) ==
  {v \in versions : Cardinality({u \in versions : u.ts < v.ts}) < n}

\* prune_versions keeps the n versions with the newest timestamps.
Newest(versions, n) ==
  {v \in versions : Cardinality({u \in versions : u.ts > v.ts}) < n}

WithVersion(versions, now, doc) ==
  {v \in versions : v.ts # now} \union {[ts |-> now, doc |-> doc]}

\* snapshot_entry writes <ts>.json, over the one of the same millisecond if
\* there is one, and prunes.  The clock of the system may have been set back.
Snapshot(w) ==
  LET r == req[w]
  IN  /\ r.pc = "snapshot"
      /\ \E now \in 0..MaxClock :
           /\ history' = [history EXCEPT ![r.id] =
                            Newest(WithVersion(@, now, r.held), MaxVersions)]
           /\ postdated' =
                IF Cardinality({v \in history[r.id] : v.ts > now}) < MaxVersions
                THEN postdated \ {r.id} ELSE postdated \union {r.id}
      /\ req' = [req EXCEPT ![w] = [@ EXCEPT !.pc = "status", !.held = None]]
      /\ UNCHANGED <<disk, cache, refs, issued, stale, overlapped, interrupted,
                     reverted, untracked, unchecked, degraded, raced, crashes>>

\* save_entry determines the status again, from the file as it is now.
SaveStatus(w) ==
  LET r == req[w]
      file == IF r.op \in Creates THEN None ELSE disk[r.id]
  IN  /\ r.pc = "status"
      /\ req' = [req EXCEPT ![w] =
                   [@ EXCEPT !.pc = "truncate",
                             !.status = Resolve(r.explicit, file)]]
      /\ UNCHANGED <<disk, cache, history, refs, ghosts, issued>>

-----------------------------------------------------------------------------
(* std::fs::write opens and truncates the file, then writes it.            *)

Truncate(w) ==
  LET r == req[w]
  IN  /\ r.pc = "truncate"
      /\ disk' = [disk EXCEPT ![r.id] = Torn]
      /\ Goto(w, "write")
      /\ unchecked' = IF r.op = "revert" /\ r.explicit = "none"
                      THEN unchecked \union {r.id} ELSE unchecked
      /\ UNCHANGED <<cache, history, refs, issued, stale, overlapped,
                     interrupted, reverted, untracked, postdated, degraded,
                     raced, crashes>>

\* Written over what another handler wrote since the truncation, a shorter
\* document leaves the tail of the longer one behind it.
Write(w) ==
  LET r == req[w]
      doc == [body |-> r.body, status |-> r.status]
  IN  /\ r.pc = "write"
      /\ \E file \in IF disk[r.id] = Torn THEN {doc} ELSE {doc, Torn} :
           disk' = [disk EXCEPT ![r.id] = file]
      /\ Goto(w, "reload")
      /\ reverted' = IF r.op = "revert" THEN reverted \union {r.id}
                     ELSE IF r.op \in Saves THEN reverted \ {r.id}
                     ELSE reverted
      /\ untracked' = IF r.op \in Bulk \union {"revert"}
                      THEN untracked \union {r.id}
                      ELSE IF r.op \in Saves THEN untracked \ {r.id}
                      ELSE untracked
      /\ UNCHANGED <<cache, history, refs, stale, overlapped, interrupted,
                     unchecked, postdated, degraded, raced, crashes, issued>>

\* The file was deleted under the handler: the write reaches no entry.
WriteUnlinked(w) ==
  /\ req[w].pc = "unlinked"
  /\ Goto(w, "reload")
  /\ UNCHANGED <<disk, cache, history, refs, ghosts, issued>>

-----------------------------------------------------------------------------
(* cache::reload_entry reads the file, then updates the cache.             *)

\* After the reload, create_entry and update_entry record the references; the
\* bulk requests do not.
AfterReload(w) ==
  IF req[w].op \in {"create", "update"}
  THEN req' = [req EXCEPT ![w] = [@ EXCEPT !.pc = "refs", !.held = None]]
  ELSE Finish(w)

\* Mutant: what cannot be parsed is cached all the same.
ReloadReadUnparsed(w) ==
  /\ req[w].pc = "reload"
  /\ req' = [req EXCEPT ![w] =
               [@ EXCEPT !.pc = "cache", !.held = disk[req[w].id]]]
  /\ UNCHANGED <<disk, cache, history, refs, ghosts, issued>>

\* An unreadable file leaves the cache as it is.
ReloadRead(w) ==
  LET file == disk[req[w].id]
  IN  /\ req[w].pc = "reload"
      /\ IF file = Torn
         THEN AfterReload(w)
         ELSE req' = [req EXCEPT ![w] = [@ EXCEPT !.pc = "cache", !.held = file]]
      /\ UNCHANGED <<disk, cache, history, refs, ghosts, issued>>

\* Mutant: the cached entry is replaced, never inserted.
ReloadApplyInPlace(w) ==
  LET r == req[w]
  IN  /\ r.pc = "cache"
      /\ cache' = [cache EXCEPT ![r.id] = IF @ = None THEN @ ELSE r.held]
      /\ AfterReload(w)
      /\ stale' = IF r.solo THEN stale \ {r.id} ELSE stale
      /\ UNCHANGED <<disk, history, refs, issued, overlapped, interrupted,
                     reverted, untracked, unchecked, postdated, degraded,
                     raced, crashes>>

ReloadApply(w) ==
  LET r == req[w]
  IN  /\ r.pc = "cache"
      /\ cache' = [cache EXCEPT ![r.id] = r.held]
      /\ AfterReload(w)
      /\ stale' = IF r.solo THEN stale \ {r.id} ELSE stale
      /\ UNCHANGED <<disk, history, refs, issued, overlapped, interrupted,
                     reverted, untracked, unchecked, postdated, degraded,
                     raced, crashes>>

\* uploads::db_update_references, one database transaction.
UpdateReferences(w) ==
  /\ req[w].pc = "refs"
  /\ refs' = [refs EXCEPT ![req[w].id] = UploadsOf[req[w].body]]
  /\ Finish(w)
  /\ UNCHANGED <<disk, cache, history, ghosts, issued>>

-----------------------------------------------------------------------------
(* publish_entry and unpublish_entry.                                      *)

\* validate_for_publish looks at the required-if-published fields only, and
\* is skipped when the file cannot be read.
BeginPublish(w, id) ==
  /\ disk[id] \in Doc => disk[id].body \in Complete
  /\ Begin(w, "publish", id, "rmw", None, "none", "published")
  /\ UNCHANGED <<disk, cache, history, refs>>

BeginUnpublish(w, id) ==
  /\ Begin(w, "unpublish", id, "rmw", None, "none", "draft")
  /\ UNCHANGED <<disk, cache, history, refs>>

\* set_entry_status reads the file and writes it back with the new status;
\* it takes no snapshot.
ReadForStatus(w) ==
  LET file == disk[req[w].id]
  IN  /\ req[w].pc = "rmw"
      /\ IF file \in Doc
         THEN req' = [req EXCEPT ![w] =
                        [@ EXCEPT !.pc = "truncate", !.body = file.body]]
         ELSE Finish(w)
      /\ UNCHANGED <<disk, cache, history, refs, ghosts, issued>>

-----------------------------------------------------------------------------
(* The revert of an entry to a version of its history.                     *)

\* The data of the version carries the status it had.  Neither the unique
\* field nor any other rule is validated, and no reference is recorded.
BeginRevert(w, id, version) ==
  /\ version \in history[id]
  /\ Begin(w, "revert", id, "current", version.doc.body,
           IF version.doc.status = "unset" THEN "none" ELSE version.doc.status,
           "draft")
  /\ UNCHANGED <<disk, cache, history, refs>>

-----------------------------------------------------------------------------
(* delete_entry.                                                           *)

\* Mutant: db_delete_references forgotten.
BeginDeleteOnly(w, id) ==
  /\ Begin(w, "delete", id, "exists", None, "none", "draft")
  /\ UNCHANGED <<disk, cache, history, refs>>

BeginDelete(w, id) ==
  /\ Begin(w, "delete", id, "exists", None, "none", "draft")
  /\ refs' = [refs EXCEPT ![id] = {}]
  /\ UNCHANGED <<disk, cache, history>>

\* content::delete_entry: path.exists(), then remove_file.
CheckExists(w) ==
  /\ req[w].pc = "exists"
  /\ Goto(w, IF disk[req[w].id] = None THEN "purge" ELSE "unlink")
  /\ UNCHANGED <<disk, cache, history, refs, ghosts, issued>>

Unlink(w) ==
  LET id == req[w].id
  IN  /\ req[w].pc = "unlink"
      /\ disk[id] # None
      /\ disk' = [disk EXCEPT ![id] = None]
      /\ req' = [v \in Workers |->
                   IF v = w THEN [req[v] EXCEPT !.pc = "purge"]
                   ELSE IF req[v].pc = "write" /\ req[v].id = id
                        THEN [req[v] EXCEPT !.pc = "unlinked"]
                   ELSE req[v]]
      /\ reverted' = reverted \ {id}
      /\ untracked' = untracked \ {id}
      /\ UNCHANGED <<cache, history, refs, stale, overlapped, interrupted,
                     unchecked, postdated, degraded, raced, crashes, issued>>

\* The file went away in between: the API answers the error, the admin UI
\* goes on.
UnlinkFails(w) ==
  /\ req[w].pc = "unlink"
  /\ disk[req[w].id] = None
  /\ Finish(w) \/ Goto(w, "purge")
  /\ UNCHANGED <<disk, cache, history, refs, ghosts, issued>>

\* history::delete_history.
Purge(w) ==
  /\ req[w].pc = "purge"
  /\ history' = [history EXCEPT ![req[w].id] = {}]
  /\ Goto(w, "uncache")
  /\ UNCHANGED <<disk, cache, refs, ghosts, issued>>

Uncache(w) ==
  LET r == req[w]
  IN  /\ r.pc = "uncache"
      /\ cache' = [cache EXCEPT ![r.id] = None]
      /\ Finish(w)
      /\ stale' = IF r.solo THEN stale \ {r.id} ELSE stale
      /\ UNCHANGED <<disk, history, refs, issued, overlapped, interrupted,
                     reverted, untracked, unchecked, postdated, degraded,
                     raced, crashes>>

-----------------------------------------------------------------------------
(* Crash and restart.                                                      *)

\* populate_app skips a schema as a whole when one of its files is unreadable.
Populate(files) ==
  IF \E id \in Ids : files[id] = Torn THEN [id \in Ids |-> None] ELSE files

CrashRestart ==
  /\ crashes < MaxCrashes
  /\ crashes' = crashes + 1
  /\ req' = [w \in Workers |-> Idle]
  /\ cache' = Populate(disk)
  /\ degraded' = (\E id \in Ids : disk[id] = Torn)
  /\ interrupted' = interrupted \union {id \in Ids : InFlight(id) # {}}
  /\ stale' = {}
  /\ UNCHANGED <<disk, history, refs, overlapped, reverted, untracked,
                 unchecked, postdated, raced, issued>>

-----------------------------------------------------------------------------

Uploads(file) == IF file \in Doc THEN UploadsOf[file.body] ELSE {}

\* No two readable files have the same value in the unique field.
DistinctKeys(files) ==
  \A i, j \in Ids :
    /\ i # j /\ files[i] \in Doc /\ files[j] \in Doc
    /\ KeyOf[files[i].body] # NoKey
    => KeyOf[files[i].body] # KeyOf[files[j].body]

Init ==
  /\ disk \in [Ids -> InitialDocs \union {None}]
  /\ DistinctKeys(disk)
  /\ cache = Populate(disk)
  /\ history = [id \in Ids |-> {}]
  /\ refs = [id \in Ids |-> Uploads(disk[id])]
  /\ req = [w \in Workers |-> Idle]
  /\ stale = {} /\ overlapped = {} /\ interrupted = {} /\ reverted = {}
  /\ untracked = {} /\ unchecked = {} /\ postdated = {}
  /\ degraded = FALSE /\ raced = FALSE
  /\ issued = 0 /\ crashes = 0

Arrive(w) ==
  \E id \in Ids :
    \/ \E op \in Ops, body \in Bodies, explicit \in Explicit :
         \/ BeginCreate(w, op, id, body, explicit)
         \/ BeginUpdate(w, op, id, body, explicit)
    \/ BeginPublish(w, id)
    \/ BeginUnpublish(w, id)
    \/ BeginDelete(w, id)
    \/ \E version \in history[id] : BeginRevert(w, id, version)

Advance(w) ==
  \/ Validate(w) \/ ReadCurrent(w) \/ Snapshot(w) \/ SaveStatus(w)
  \/ ReadForStatus(w) \/ Truncate(w) \/ Write(w) \/ WriteUnlinked(w)
  \/ ReloadRead(w) \/ ReloadApply(w) \/ UpdateReferences(w)
  \/ CheckExists(w) \/ Unlink(w) \/ UnlinkFails(w) \/ Purge(w) \/ Uncache(w)

Next == CrashRestart \/ \E w \in Workers : Arrive(w) \/ Advance(w)

Spec == Init /\ [][Next]_vars

-----------------------------------------------------------------------------
(* Properties.                                                             *)

\* The variables have the types their comments say.
TypeOK ==
  /\ disk \in [Ids -> Doc \union {None, Torn}]
  /\ cache \in [Ids -> Doc \union {None}]
  /\ history \in [Ids -> SUBSET Version]
  /\ refs \in [Ids -> SUBSET Hashes]
  /\ req \in [Workers -> Request]
  /\ stale \subseteq Ids /\ overlapped \subseteq Ids
  /\ interrupted \subseteq Ids /\ reverted \subseteq Ids
  /\ untracked \subseteq Ids /\ unchecked \subseteq Ids
  /\ postdated \subseteq Ids
  /\ degraded \in BOOLEAN /\ raced \in BOOLEAN
  /\ issued \in Nat /\ crashes \in Nat

\* The served cache agrees with the file of every entry that no handler is
\* working on, whatever the other entries go through, crashes included, once
\* the last handler that wrote to the entry had it to itself: two overlapping
\* handlers may leave the cache behind, and a later one alone repairs it.  The
\* exception is a start that found an unreadable file in the schema: it leaves
\* the entries of the whole schema out of the cache.
CacheCoherent ==
  \A id \in Ids \ stale :
    InFlight(id) = {} =>
      \/ cache[id] = disk[id]
      \/ degraded /\ cache[id] = None

\* A published entry has all its required-if-published fields: the check made
\* at publication, the check of an update against the status it will keep, and
\* the unvalidated revert to a version with its own status never leave an entry
\* published without them, unless two handlers worked on that entry at once or
\* it was reverted to a version without "_status".
PublishedComplete ==
  \A id \in Ids \ (overlapped \union unchecked) :
    disk[id] \in Doc /\ disk[id].status = "published" =>
      disk[id].body \in Complete

\* upload_references lists exactly the uploads of the stored document, unless
\* two handlers worked on the entry at once, a crash cut one off, or the
\* document was saved by a revert or a bulk request, which record none.
ReferencesTrackContent ==
  \A id \in Ids \ (overlapped \union interrupted \union untracked) :
    InFlight(id) = {} => refs[id] = Uploads(disk[id])

\* The unique field is unique on disk, across crashes too, as long as no save
\* was validated while another waited to reach the cache or while a start had
\* left the schema out of the cache, no two handlers overlapped on an entry
\* and no reverted document is left.
KeysUnique ==
  \/ raced \/ overlapped # {} \/ reverted # {}
  \/ DistinctKeys(disk)

\* When an update or a revert is about to truncate a document, that document
\* is in the history: nothing a handler alone on the entry overwrites is lost,
\* whatever pruning did and even if the clock went back, unless the entry had
\* MaxVersions versions that the clock has yet to reach.
OverwrittenIsInHistory ==
  \A w \in Workers :
    LET r == req[w]
    IN  /\ r.pc = "truncate" /\ r.op \in Updates \union {"revert"}
        /\ r.id \notin overlapped
        /\ disk[r.id] \in Doc
        /\ MaxVersions > 0
        /\ r.id \notin postdated
        => \E v \in history[r.id] : v.doc = disk[r.id]

-----------------------------------------------------------------------------
(* The content store implements EntryStore.  A save or a change of status  *)
(* takes effect when it truncates the file: until it has written the file  *)
(* again, the entry stands for the document about to be written.  A        *)
(* truncated file that a crash left behind stands for no document.         *)

Writer(id) == {w \in InFlight(id) : req[w].pc = "write"}

TheWriter(id) == CHOOSE w \in Writer(id) : TRUE

StoredDoc(id) ==
  IF disk[id] # Torn THEN disk[id]
  ELSE IF Writer(id) = {} THEN None
  ELSE [body |-> req[TheWriter(id)].body, status |-> req[TheWriter(id)].status]

EffectDone == {"write", "unlinked", "reload", "cache", "refs", "purge", "uncache"}

PendingRequest(id) ==
  IF id \in overlapped \/ InFlight(id) = {} THEN None
  ELSE LET r == req[CHOOSE w \in InFlight(id) : TRUE]
       IN  [op |-> IF r.op \in Creates THEN "create"
                   ELSE IF r.op \in Updates THEN "update" ELSE r.op,
            body |-> IF r.op \in {"publish", "unpublish"} THEN None ELSE r.body,
            explicit |-> r.explicit,
            done |-> r.pc \in EffectDone]

Register == INSTANCE EntryStore WITH
  store <- [id \in Ids |-> StoredDoc(id)],
  pending <- [id \in Ids |-> PendingRequest(id)],
  contended <- overlapped

\* Handlers, cut into their file operations and interleaved with those of
\* other entries, behave on an entry that no two of them work on at once like
\* atomic operations on a register, across crashes too.
ImplementsEntryStore == Register!Spec
=============================================================================
