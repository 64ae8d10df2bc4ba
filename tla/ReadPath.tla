------------------------------ MODULE ReadPath ------------------------------
(***************************************************************************)
(* What the server remembers between two reads: the content cache, whose   *)
(* entries are embedded where a document refers to them, the cache of      *)
(* ETags, and the cached OpenAPI document; and the thread that watches the *)
(* data directory.                                                         *)
(*                                                                         *)
(* A worker is a request between two of its file or map operations.  The   *)
(* requests that save an entry (create, update, publish, revert, upsert of *)
(* a single, from the API and from the admin UI) differ only before they   *)
(* write: here they are one, SaveEntry; ContentStore tells them apart.     *)
(*                                                                         *)
(* Abstractions.  One collection of one app.  The file of an entry is      *)
(* written in one step, and so are the files of a bundle (ContentStore and *)
(* Uploads cut those).  A tag is what it is the hash of: the document, the *)
(* document embedded in it and the schema they were projected with.  A     *)
(* rendered or raw GET computes its tag and touches no cache.              *)
(***************************************************************************)
EXTENDS Naturals

CONSTANTS
  Entries,     \* entries of the collection
  Bodies,      \* documents
  RefTo,       \* the entry each entry refers to, or None
  Schemas,     \* contents of the schema's file
  Workers,     \* requests that run at once
  NoDoc,       \* no document: the file or the key does not exist
  None,        \* no entry, no tag
  Absent,      \* the schema's file does not exist
  Torn,        \* the schema's file is truncated
  Empty,       \* no OpenAPI document is cached
  MaxRequests, \* bound: requests that change something, and OpenAPI reads
  MaxEdits     \* bound: files changed by hand

ASSUME ReadPathAssumption ==
  /\ RefTo \in [Entries -> Entries \union {None}] /\ None \notin Entries
  /\ NoDoc \notin Bodies
  /\ {Absent, Torn, Empty} \intersect Schemas = {}
  /\ Absent # Torn /\ Absent # Empty /\ Torn # Empty
  /\ MaxRequests \in Nat /\ MaxEdits \in Nat

VARIABLES
  docs,     \* the file of each entry
  schema,   \* the file of the schema
  cache,    \* state.cache
  etags,    \* state.etag_cache
  openapi,  \* state.openapi_cache
  clone,    \* the copy of state.cache the watcher was given
  pending,  \* a change of a file has not reached the watcher's thread
  watcher,  \* what that thread does
  job,      \* what each worker does
  \* History variables.
  late,      \* entries whose tag was inserted after its document changed
  contended, \* entries changed by overlapping requests or by hand
  raced,     \* the OpenAPI document was stored after it was invalidated
  requests, edits

disk == <<docs, schema>>
watch == <<clone, watcher>>
history == <<late, contended, raced>>
bounds == <<requests, edits>>
vars == <<disk, cache, etags, openapi, watch, pending, job, history, bounds>>

MaybeDocs == Bodies \union {NoDoc}
NoDocs == [e \in Entries |-> NoDoc]
Tags == [body : Bodies, with : MaybeDocs, schema : Schemas]
Readable(s) == s \in Schemas

\* schema::list_schemas leaves out a file it cannot parse.
Listed(s) == IF Readable(s) THEN s ELSE Absent

Idle == [at |-> "idle", entry |-> None, doc |-> NoDoc, with |-> NoDoc,
         schema |-> Absent, docs |-> NoDocs, alone |-> FALSE]

At(w, l) == job[w].at = l
GoTo(w, l) == job' = [job EXCEPT ![w].at = l]
Answer(w) == job' = [job EXCEPT ![w] = Idle]

Importing(w) == job[w].at \in {"clearCache", "clearTags", "list", "insertAll"}
Mutating(w, e) ==
  \/ job[w].entry = e /\ job[w].at \in {"write", "removeTag", "reload",
                                        "insert", "unlink", "uncache"}
  \/ At(w, "unpack") \/ Importing(w)
\* Something is still going to remove the tag of e.
WillRemoveTag(w, e) == \/ job[w].entry = e /\ At(w, "removeTag")
                       \/ At(w, "clearCache") \/ At(w, "clearTags")

\* A file below the data directory changed.
Touch == pending' = TRUE

Ask(w, j) ==
  /\ At(w, "idle") /\ requests < MaxRequests
  /\ requests' = requests + 1
  /\ job' = [job EXCEPT ![w] = j]
  /\ UNCHANGED <<disk, cache, etags, openapi, watch, pending, history, edits>>

\* A request that will change the entries es: those that others are changing
\* are contended, and neither request is alone.
Change(w, j, es) ==
  LET others == {v \in Workers \ {w} : \E e \in es : Mutating(v, e)}
      shared == {e \in es : \E v \in others : Mutating(v, e)}
  IN /\ At(w, "idle") /\ requests < MaxRequests
     /\ requests' = requests + 1
     /\ job' = [v \in Workers |->
                  CASE v = w -> [j EXCEPT !.alone = others = {}]
                    [] v \in others -> [job[v] EXCEPT !.alone = FALSE]
                    [] OTHER -> job[v]]
     /\ contended' = contended \union shared
     /\ UNCHANGED <<disk, cache, etags, openapi, watch, pending, late, raced,
                    edits>>

\* The request is done; if it was alone, nothing contends its entries now.
Settle(w, es) ==
  /\ Answer(w)
  /\ contended' = IF job[w].alone THEN contended \ es ELSE contended

-----------------------------------------------------------------------------
(* GET of an entry.                                                        *)

\* Mutant: the entry is served whatever the schema's file holds.
GetEntryUnread(w, e) ==
  /\ At(w, "idle")
  /\ job' = [job EXCEPT ![w] = [Idle EXCEPT !.at = "read", !.entry = e,
                                            !.schema = schema]]
  /\ UNCHANGED <<disk, cache, etags, openapi, watch, pending, history, bounds>>

\* The handler reads the schema's file first: without it, 404 or 500.
GetEntry(w, e) ==
  /\ At(w, "idle") /\ Readable(schema)
  /\ job' = [job EXCEPT ![w] = [Idle EXCEPT !.at = "read", !.entry = e,
                                            !.schema = schema]]
  /\ UNCHANGED <<disk, cache, etags, openapi, watch, pending, history, bounds>>

ReadEntry(w) ==
  LET e == job[w].entry IN
  /\ At(w, "read")
  /\ IF docs[e] = NoDoc
     THEN Answer(w)
     ELSE job' = [job EXCEPT ![w] = [@ EXCEPT !.at = "embed", !.doc = docs[e]]]
  /\ UNCHANGED <<disk, cache, etags, openapi, watch, pending, history, bounds>>

\* What a reference names is embedded from the cache; unknown, it stays a name.
ResolveReferences(w) ==
  LET r == RefTo[job[w].entry] IN
  /\ At(w, "embed")
  /\ job' = [job EXCEPT ![w] =
               [@ EXCEPT !.at = "tag",
                         !.with = IF r = None THEN NoDoc ELSE cache[r]]]
  /\ UNCHANGED <<disk, cache, etags, openapi, watch, pending, history, bounds>>

Representation(w) == [body |-> job[w].doc, with |-> job[w].with,
                      schema |-> job[w].schema]

\* A cached tag answers for whatever was read, with 200 or 304.
LookUpTag(w) ==
  /\ At(w, "tag")
  /\ IF etags[job[w].entry] = None THEN GoTo(w, "insertTag") ELSE Answer(w)
  /\ UNCHANGED <<disk, cache, etags, openapi, watch, pending, history, bounds>>

InsertTag(w) ==
  LET e == job[w].entry IN
  /\ At(w, "insertTag")
  /\ etags' = [etags EXCEPT ![e] = Representation(w)]
  /\ late' = IF job[w].doc # docs[e] /\ \A v \in Workers : ~WillRemoveTag(v, e)
             THEN late \union {e}
             ELSE late \ {e}
  /\ Answer(w)
  /\ UNCHANGED <<disk, cache, openapi, watch, pending, contended, raced, bounds>>

-----------------------------------------------------------------------------
(* Saves and deletes of an entry.                                          *)

SaveEntry(w, e, b) ==
  /\ Readable(schema)
  /\ Change(w, [Idle EXCEPT !.at = "write", !.entry = e, !.doc = b], {e})

WriteEntry(w) ==
  LET e == job[w].entry IN
  /\ At(w, "write")
  /\ docs' = [docs EXCEPT ![e] = job[w].doc]
  /\ Touch /\ GoTo(w, "removeTag")
  /\ UNCHANGED <<schema, cache, etags, openapi, watch, history, bounds>>

RemoveTag(w) ==
  LET e == job[w].entry IN
  /\ At(w, "removeTag")
  /\ etags' = [etags EXCEPT ![e] = None]
  /\ late' = late \ {e}
  /\ GoTo(w, "reload")
  /\ UNCHANGED <<disk, cache, openapi, watch, pending, contended, raced, bounds>>

ReloadRead(w) ==
  /\ At(w, "reload")
  /\ job' = [job EXCEPT ![w] =
               [@ EXCEPT !.at = "insert", !.doc = docs[job[w].entry]]]
  /\ UNCHANGED <<disk, cache, etags, openapi, watch, pending, history, bounds>>

\* NoDoc removes the key.
ReloadInsert(w) ==
  LET e == job[w].entry IN
  /\ At(w, "insert")
  /\ cache' = [cache EXCEPT ![e] = job[w].doc]
  /\ Settle(w, {e})
  /\ UNCHANGED <<disk, etags, openapi, watch, pending, late, raced, bounds>>

DeleteEntry(w, e) ==
  /\ Readable(schema) /\ docs[e] # NoDoc
  /\ Change(w, [Idle EXCEPT !.at = "unlink", !.entry = e], {e})

\* A delete of a file that is gone fails, and leaves the cache as it is.
Unlink(w) ==
  LET e == job[w].entry IN
  /\ At(w, "unlink")
  /\ IF docs[e] = NoDoc
     THEN Answer(w) /\ UNCHANGED <<docs, pending>>
     ELSE /\ docs' = [docs EXCEPT ![e] = NoDoc]
          /\ Touch /\ GoTo(w, "uncache")
  /\ UNCHANGED <<schema, cache, etags, openapi, watch, history, bounds>>

\* Mutant: the delete forgets the tag in place of the entry.
UncacheTag(w) ==
  LET e == job[w].entry IN
  /\ At(w, "uncache")
  /\ etags' = [etags EXCEPT ![e] = None]
  /\ Settle(w, {e})
  /\ UNCHANGED <<disk, cache, openapi, watch, pending, late, raced, bounds>>

\* The delete handlers forget the entry, but not its tag.
Uncache(w) ==
  LET e == job[w].entry IN
  /\ At(w, "uncache")
  /\ cache' = [cache EXCEPT ![e] = NoDoc]
  /\ Settle(w, {e})
  /\ UNCHANGED <<disk, etags, openapi, watch, pending, late, raced, bounds>>

-----------------------------------------------------------------------------
(* An import, and the rebuild of the caches after it.                      *)

\* The bundle holds the documents ds and the schema s; NoDoc is none.
ImportBundle(w, ds, s) ==
  Change(w, [Idle EXCEPT !.at = "unpack", !.docs = ds, !.schema = s], Entries)

\* Files that are not in the bundle stay.
Unpack(w) ==
  /\ At(w, "unpack")
  /\ docs' = [e \in Entries |->
                IF job[w].docs[e] = NoDoc THEN docs[e] ELSE job[w].docs[e]]
  /\ schema' = job[w].schema
  /\ Touch /\ GoTo(w, "clearCache")
  /\ UNCHANGED <<cache, etags, openapi, watch, history, bounds>>

ClearCache(w) ==
  /\ At(w, "clearCache")
  /\ cache' = NoDocs
  /\ GoTo(w, "clearTags")
  /\ UNCHANGED <<disk, etags, openapi, watch, pending, history, bounds>>

\* Mutant: a rebuild keeps the tags.
KeepTags(w) ==
  /\ At(w, "clearTags")
  /\ GoTo(w, "list")
  /\ UNCHANGED <<disk, cache, etags, openapi, watch, pending, history, bounds>>

ClearTags(w) ==
  /\ At(w, "clearTags")
  /\ etags' = [e \in Entries |-> None]
  /\ late' = {}
  /\ GoTo(w, "list")
  /\ UNCHANGED <<disk, cache, openapi, watch, pending, contended, raced, bounds>>

\* populate lists the entries of the schemas that can be read: without the
\* schema it finds none of them.
Populated == IF Readable(schema) THEN docs ELSE NoDocs

ListEntries(w) ==
  /\ At(w, "list")
  /\ job' = [job EXCEPT ![w] =
               [@ EXCEPT !.at = "insertAll", !.docs = Populated,
                         !.schema = schema]]
  /\ UNCHANGED <<disk, cache, etags, openapi, watch, pending, history, bounds>>

InsertAll(w) ==
  LET found == job[w].docs IN
  /\ At(w, "insertAll")
  /\ cache' = [e \in Entries |-> IF found[e] = NoDoc THEN cache[e]
                                                     ELSE found[e]]
  /\ Answer(w)
  /\ contended' = IF ~Readable(job[w].schema) THEN Entries
                  ELSE IF job[w].alone THEN {} ELSE contended
  /\ UNCHANGED <<disk, etags, openapi, watch, pending, late, raced, bounds>>

-----------------------------------------------------------------------------
(* Schemas, and the OpenAPI document made of them.                         *)

\* create_schema and update_schema: std::fs::write truncates, then writes.
SaveSchema(w, s) ==
  Ask(w, [Idle EXCEPT !.at = "truncate", !.schema = s])

TruncateSchema(w) ==
  /\ At(w, "truncate")
  /\ schema' = Torn
  /\ Touch /\ GoTo(w, "writeSchema")
  /\ UNCHANGED <<docs, cache, etags, openapi, watch, history, bounds>>

WriteSchema(w) ==
  /\ At(w, "writeSchema")
  /\ schema' = job[w].schema
  /\ Touch /\ Answer(w)
  /\ UNCHANGED <<docs, cache, etags, openapi, watch, history, bounds>>

\* The entries of the schema stay, on disk and in the cache.
DeleteSchema(w) ==
  /\ At(w, "idle") /\ requests < MaxRequests /\ schema # Absent
  /\ requests' = requests + 1
  /\ schema' = Absent
  /\ Touch
  /\ UNCHANGED <<docs, cache, etags, openapi, watch, job, history, edits>>

\* A cached document is the answer; without one it is generated and stored.
OpenApiSpec(w) ==
  /\ openapi = Empty
  /\ Ask(w, [Idle EXCEPT !.at = "generate"])

GenerateSpec(w) ==
  /\ At(w, "generate")
  /\ job' = [job EXCEPT ![w] =
               [@ EXCEPT !.at = "store", !.schema = Listed(schema)]]
  /\ UNCHANGED <<disk, cache, etags, openapi, watch, pending, history, bounds>>

\* The watcher has nothing to do, and will not clear what is stored now.
WatcherRests == watcher = "wait" /\ ~pending

StoreSpec(w) ==
  /\ At(w, "store")
  /\ openapi' = job[w].schema
  /\ raced' = (WatcherRests /\ job[w].schema # Listed(schema))
  /\ Answer(w)
  /\ UNCHANGED <<disk, cache, etags, watch, pending, late, contended, bounds>>

-----------------------------------------------------------------------------
(* Files changed by hand, and the watcher.                                 *)

EditEntry(e, d) ==
  /\ edits < MaxEdits /\ edits' = edits + 1
  /\ d # docs[e]
  /\ docs' = [docs EXCEPT ![e] = d]
  /\ Touch
  /\ late' = IF etags[e] = None THEN late ELSE late \union {e}
  /\ contended' = contended \union {e}
  /\ job' = [w \in Workers |-> IF Mutating(w, e)
                               THEN [job[w] EXCEPT !.alone = FALSE]
                               ELSE job[w]]
  /\ UNCHANGED <<schema, cache, etags, openapi, watch, raced, requests>>

EditSchema(s) ==
  /\ edits < MaxEdits /\ edits' = edits + 1
  /\ s # schema
  /\ schema' = s
  /\ Touch
  /\ UNCHANGED <<docs, cache, etags, openapi, watch, job, history, requests>>

\* The first change, then those that follow each other within 200 ms.
Receive ==
  /\ watcher \in {"wait", "drain"} /\ pending
  /\ pending' = FALSE /\ watcher' = "drain"
  /\ UNCHANGED <<disk, cache, etags, openapi, clone, job, history, bounds>>

\* None for 200 ms: a change may still be on its way.
Quiet ==
  /\ watcher = "drain"
  /\ watcher' = "rebuild"
  /\ UNCHANGED <<disk, cache, etags, openapi, clone, pending, job, history,
                 bounds>>

\* Mutant: the watcher rebuilds the content only.
RebuildContent ==
  /\ watcher = "rebuild"
  /\ clone' = Populated
  /\ watcher' = "wait"
  /\ UNCHANGED <<disk, cache, etags, openapi, pending, job, history, bounds>>

\* The watcher rebuilds the copies it was given, which no handler reads; its
\* copy of the ETag cache is empty from the start.  The OpenAPI document is
\* shared with the handlers.
Rebuild ==
  /\ watcher = "rebuild"
  /\ clone' = Populated
  /\ openapi' = Empty /\ raced' = FALSE
  /\ watcher' = "wait"
  /\ UNCHANGED <<disk, cache, etags, pending, job, late, contended, bounds>>

-----------------------------------------------------------------------------
\* run_server populates the cache, clones it for the watcher, then listens.
Init ==
  /\ docs \in [Entries -> MaybeDocs]
  /\ schema \in Schemas \union {Absent}
  /\ cache = Populated
  /\ clone = cache
  /\ etags = [e \in Entries |-> None]
  /\ openapi = Empty
  /\ pending = FALSE /\ watcher = "wait"
  /\ job = [w \in Workers |-> Idle]
  /\ late = {} /\ raced = FALSE
  /\ contended = IF Readable(schema) THEN {} ELSE Entries
  /\ requests = 0 /\ edits = 0

Step(w) ==
  \/ ReadEntry(w) \/ ResolveReferences(w) \/ LookUpTag(w) \/ InsertTag(w)
  \/ WriteEntry(w) \/ RemoveTag(w) \/ ReloadRead(w) \/ ReloadInsert(w)
  \/ Unlink(w) \/ Uncache(w)
  \/ Unpack(w) \/ ClearCache(w) \/ ClearTags(w) \/ ListEntries(w)
  \/ InsertAll(w)
  \/ TruncateSchema(w) \/ WriteSchema(w) \/ GenerateSpec(w) \/ StoreSpec(w)

Request(w) ==
  \/ \E e \in Entries : \/ GetEntry(w, e) \/ DeleteEntry(w, e)
                        \/ \E b \in Bodies : SaveEntry(w, e, b)
  \/ \E s \in Schemas : \/ SaveSchema(w, s)
                        \/ \E ds \in [Entries -> MaybeDocs] :
                             ImportBundle(w, ds, s)
  \/ DeleteSchema(w) \/ OpenApiSpec(w)

ByHand ==
  \/ \E e \in Entries, d \in MaybeDocs : EditEntry(e, d)
  \/ \E s \in Schemas \union {Absent} : EditSchema(s)

Watch == Receive \/ Quiet \/ Rebuild

Next == \/ \E w \in Workers : Request(w) \/ Step(w)
        \/ ByHand \/ Watch

Spec == Init /\ [][Next]_vars

\* The watcher is a thread of its own, and the system reports changes.
FairSpec ==
  /\ Spec
  /\ WF_vars(Receive) /\ WF_vars(Quiet) /\ WF_vars(Rebuild)

-----------------------------------------------------------------------------
(* Properties.                                                             *)

\* Files, caches and requests have their types.
TypeOK ==
  /\ docs \in [Entries -> MaybeDocs] /\ cache \in [Entries -> MaybeDocs]
  /\ clone \in [Entries -> MaybeDocs]
  /\ schema \in Schemas \union {Absent, Torn}
  /\ etags \in [Entries -> Tags \union {None}]
  /\ openapi \in Schemas \union {Absent, Empty}
  /\ pending \in BOOLEAN /\ raced \in BOOLEAN
  /\ watcher \in {"wait", "drain", "rebuild"}
  /\ \A w \in Workers :
       /\ job[w].entry \in Entries \union {None}
       /\ job[w].doc \in MaybeDocs /\ job[w].with \in MaybeDocs
       /\ job[w].schema \in Schemas \union {Absent, Torn}
       /\ job[w].docs \in [Entries -> MaybeDocs]
       /\ job[w].alone \in BOOLEAN
  /\ late \subseteq Entries /\ contended \subseteq Entries
  /\ requests \in 0..MaxRequests /\ edits \in 0..MaxEdits

\* json_with_etag: a cached tag is that of the document on disk, across saves,
\* deletes, re-creations and imports, unless a save or an import is about to
\* remove it, or it was inserted by a GET that read before the last of them
\* and inserts after it, or the file was changed by hand.
TagsFollowDocs ==
  \A e \in Entries :
    /\ etags[e] # None /\ docs[e] # NoDoc
    /\ e \notin late
    /\ \A w \in Workers : ~WillRemoveTag(w, e)
    => etags[e].body = docs[e]

\* reload_entry, rebuild and the delete handlers: what references are resolved
\* from is what is on disk, for every entry no request is changing and none
\* changed while another did, or a hand; also after an import over the
\* collection, and while the schema is deleted and saved again.
CacheAgrees ==
  \A e \in Entries :
    /\ e \notin contended
    /\ \A w \in Workers : ~Mutating(w, e)
    => cache[e] = docs[e]

\* spawn_watcher: an OpenAPI document of schemas that are no longer on disk is
\* eventually forgotten, whether a handler or a hand changed them, except one
\* that was generated before the change and stored after the watcher's last
\* turn.
Outdated == openapi \notin {Empty, Listed(schema)} /\ ~raced
OpenApiFollows == Outdated ~> ~Outdated

=============================================================================
