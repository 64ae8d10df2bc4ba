# substrukt in TLA+

substrukt is a schema-driven CMS: one server process (axum on tokio) that keeps
content as JSON files under `data/<app>/`, metadata in a main SQLite database, an
audit log, deployments and backup records in a second one, and caches of all of it
in memory. This directory holds TLA+ models of its stateful parts, the TLC runs
that check them, and TLAPS proofs about them. Paths below are relative to the
root of the repository's source (`src/content/mod.rs` is the crate's `src/`).

- [What the system is made of](#what-the-system-is-made-of)
- [The modules and the plan](#the-modules-and-the-plan)
- [ContentStore and EntryStore](#contentstore-and-entrystore)
- [AutoDeploy](#autodeploy)
- [Backup](#backup)
- [StartUp](#startup)
- [Uploads](#uploads)
- [ReadPath](#readpath)
- [Access](#access)
- [Documents, Forms, Listings and RateLimiter](#documents-forms-listings-and-ratelimiter)
- [The runs](#the-runs)
- [The theorems](#the-theorems)
- [Where the code and its documents disagree](#where-the-code-and-its-documents-disagree)
- [What is assumed, and what is not modelled](#what-is-assumed-and-what-is-not-modelled)

## What the system is made of

| component | state | operations | talks to |
|---|---|---|---|
| content store (`content/mod.rs`) | one JSON file per entry, or one per collection | `save_entry`, `delete_entry`, `set_entry_status`, `validate_content`, `validate_unique` | called by the handlers; reads the cache for the unique check |
| content handlers (`routes/api.rs`, `routes/content.rs`) | none of their own | create, update, delete, publish, unpublish, revert, the same in bulk | content store, cache, ETag cache, history, references, audit log |
| content cache (`cache.rs`) | `DashMap` of entries per app and schema | `populate`, `reload_entry`, `remove` | files; read by validation and lists |
| ETag cache (`routes/api.rs:32-68`) | `DashMap` of ETags per path | insert at a GET, removal at a save | handlers, watcher |
| version history (`history.rs`) | `_history/<schema>/<id>/<ms>.json` | `snapshot_entry`, `prune_versions`, `delete_history` | handlers |
| uploads (`uploads/mod.rs`, `routes/uploads.rs`) | content-addressed files, rows of `uploads` and `upload_references` | `store_upload`, `db_update_references`, delete, focal point | handlers of entries and of uploads |
| schemas (`schema/mod.rs`, `routes/schemas.rs`) | one file per schema | create, update, delete | cache, OpenAPI cache, content |
| OpenAPI cache (`routes/api.rs:139`) | `RwLock<Option<Arc<Value>>>` | generate and store, invalidate | schemas, watcher |
| auto-deploy and webhooks (`webhooks.rs`, `routes/deployments.rs`) | rows of `deployments` and `deployment_state`, `deploy_tasks` | the task of each deployment, `fire_webhook`, retries, create/update/delete/fire | audit log, an external endpoint |
| audit log (`audit.rs`) | rows of `audit_log` | `log_with_app` (spawned insert), `is_dirty_for_deployment` | everybody logs; the tasks read |
| backup (`backup.rs`, `routes/settings.rs`) | `backup_running`, trigger channel, records, S3 objects | the scheduled task, manual triggers, retention, recovery of stuck records | the data directory, S3 |
| file watcher (`cache.rs`, `main.rs`) | pending paths, 200 ms debounce | rebuilds caches | content, ETag and OpenAPI caches |
| sync (`sync/mod.rs`) | - | export and import of a bundle | files, uploads, caches |
| apps, access, tokens (`routes/apps.rs`, `db/models.rs`, `auth/token.rs`) | rows of `apps`, `app_access`, tokens in two databases | create, delete, grant, revoke | everything scoped by app |
| users, roles, invitations (`auth/mod.rs`, `routes/settings.rs`, `main.rs`) | roles in the external crate allowthem, invitations, `has_users` | register, invite, change role, delete | allowthem's events |
| rate limiter (`rate_limit.rs`) | request times per key | `check` | API routes |
| start-up migrations (`lib.rs`, `db/migration.rs`, `uploads/mod.rs`) | the directory layout, legacy tables, sidecars | run once per start | files and databases |
| forms (`content/form.rs`, `routes/content.rs`) | the inputs of a page in a browser | render, parse, set files | content handlers |
| lists (`content/mod.rs`, `routes/*.rs`, `audit.rs`) | - | filter, sort and page through entries and audit rows | content cache, audit log |
| rendering, configuration, metrics, email, seeding | - | - | pure functions and I/O |

No lock orders two request handlers. A handler is a sequence of awaits and file
operations; between any two of them another handler, a background task, the file
watcher or a crash may come. That is what is hard to test here and what the models
are about:

- **Interleaving of handlers** on one entry, on two entries of one collection
  (unique fields), on one deployment (registry of tasks).
- **Torn files.** `std::fs::write` truncates, then writes. Others see the empty
  file; a crash leaves it; two overlapping writers can leave the tail of the
  longer document behind the shorter; a writer may hold a file that was unlinked.
- **Stale reads**: the cache is read for validation and updated after the file;
  a status is resolved twice; an upload reference is recorded after the file that
  needs it.
- **Detached work**: audit rows and webhook retries outlive the handler or the
  task that started them; marks of fires may be written in another order than
  their clocks were read.
- **Restarts**: caches are rebuilt from whatever files are there, tasks from the
  rows.

What makes each component correct, in one line each: the cache agrees with the
files, the history holds what was overwritten, published entries are complete,
unique fields are unique, references list what the documents use (content);
nothing is deployed late for ever, at most the registered task runs (deployments);
at most one backup at a time and retention never removes the only good one
(backup); a referenced upload's file exists (uploads); an answer served from a
cache is eventually that of the files (read path); a crash during a migration is
repaired by the next start (migrations); there is always an administrator (users);
at most the limit of requests passes in any window (rate limiter).

## The modules and the plan

Most important behaviour first:

| module | models | proofs |
|---|---|---|
| `ContentStore` | the handlers of entries, cut into file operations: files, cache, history, references | `ContentStore_proofs` |
| `EntryStore` | what they promise: a register per entry | the refinement is proved in `ContentStore_proofs` |
| `AutoDeploy` | tasks, fires, retries and marks of a deployment, with its handlers | `AutoDeploy_proofs` |
| `Backup` | the backup task, its records and archives, triggers | `Backup_proofs` |
| `StartUp` | the migrations a start runs, and the starts after one that stopped | `StartUp_proofs` |
| `Uploads` | files, rows and references of uploads; export and import of bundles | `Uploads_proofs` |
| `ReadPath` | content cache, ETag cache, OpenAPI cache, the watcher and its copies | `ReadPath_proofs` |
| `Access` | registration, roles, invitations; apps with their grants, tokens, deployments and content | `Access_proofs` |
| `Documents` | JSON documents and paths into them, used by the next three | - |
| `Forms` | the edit form: rendering, a person's edits, parsing, files | - |
| `Search` | which documents contain a text | - |
| `Listings` | lists of entries and of the audit log, page by page | `Algorithms_proofs` |
| `RateLimiter` | the sliding window, with handlers that overtake each other | `Algorithms_proofs` |

`MCContentStore`, `MCAutoDeploy`, `MCUploads`, `MCReadPath` and `MCAccess` give
values to constants. `MCAlgorithms` does so for the last four modules and runs
`Forms`, `Listings` and `RateLimiter` side by side; they share no state.

Where two modules speak of the same code, each cuts it as finely as its own
properties need: a save is two file operations in `ContentStore`, one write and its
references in `Uploads`, one write and its cache operations in `ReadPath`.

Left to do: storage mode "single-file" (a read-modify-write of a whole collection).

Conventions: a module of its own holds a component's proofs (`*_proofs`); `MC*`
modules give values to constants, and state a claim where a sentence of the sources
is refuted; a definition marked "Mutant" before another
is a plausible bug of it, referred to by `PROJECT.json`; history variables are
named as such where they are declared, and guards read none of them but where the
section of a module says so.

## ContentStore and EntryStore

`ContentStore` models one collection of one app in storage mode "directory".

| variable | code |
|---|---|
| `disk` | `content/<schema>/<id>.json`: a document, none, or `Torn` (not valid JSON) |
| `cache` | the entries of this schema in `state.cache` |
| `history` | the versions under `_history/<schema>/<id>/`, named by milliseconds |
| `refs` | rows of `upload_references` of each entry |
| `req` | what each worker's handler is doing: its step, request, and what it has read |

A document is a body and a status; a body is a model value with three attributes
the code looks at: its unique key, whether the required-if-published fields are
filled, and the uploads it names. `"unset"` is a file without `_status`
(hand-written or imported).

Handlers, in the order of their steps (`src/routes/api.rs:515-742, 932-1063,
1330-1832, 1885-1964` and their counterparts in `src/routes/content.rs`):

- create: `BeginCreate`, `Validate`, `SaveStatus`, `Truncate`, `Write`,
  `ReloadRead`, `ReloadApply`, `UpdateReferences`.
- update: the same with `ReadCurrent` and `Snapshot` after the validation. The
  status is resolved once for the validation and again by `save_entry`
  (`SaveStatus`), as in the code.
- bulk create and update: as above without the references. Bulk publish,
  unpublish and delete do what the single requests do, item by item.
- publish, unpublish: the guard of `BeginPublish` is `validate_for_publish`; then
  the read-modify-write of `set_entry_status`.
- revert: no validation, `ReadCurrent`, `Snapshot`, save, reload.
- delete: references, `CheckExists`, `Unlink` (or `UnlinkFails`), `Purge` of the
  history, `Uncache`.
- `CrashRestart` may come between any two steps; the next start populates the
  cache, leaving out the whole schema when one of its files is unreadable.

`Snapshot` reads any time of the clock: it may stand still between two snapshots,
whose names are then the same, and it may have been set back, as the code takes
the time of the system. A version written when the history is full of later ones
is the first to be pruned, and the save goes on: such entries are `postdated`.

`EntryStore` is the promise: per entry, a register whose requests take effect at
most once, atomically, and whose published documents are complete. The refinement
(`ImplementsEntryStore`) maps a save to its truncation: until the file is written
again the entry stands for the document about to be written, and for nothing if a
crash came first. Entries that two requests ever worked on at once are `contended`
and nothing is promised for them: two updates may snapshot the same version, and a
reload may put an older document into the cache.

Properties (stated in the module with the code behaviour they are about):
`CacheCoherent`, `PublishedComplete`, `ReferencesTrackContent`, `KeysUnique`,
`OverwrittenIsInHistory`, `ImplementsEntryStore`. Each names the circumstances in
which the code does not keep it (overlapping handlers, bulk requests, reverts, a
start that met an unreadable file, a history full of versions newer than the clock)
by a history variable, and nothing else is excluded.

## AutoDeploy

`AutoDeploy` models one deployment (deployments share no state but the app's log).

| variable | code |
|---|---|
| `row` | the row of `deployments`: `auto_deploy`, and the configuration a task captures |
| `lastFired` | `deployment_state.last_fired_at` |
| `logged`, `writing`, `rows` | mutations whose timestamp was taken; whose insert is pending; whose audit row exists |
| `task` | the tokio tasks of `spawn_auto_deploy_task` |
| `registry` | the token in `deploy_tasks` |
| `fire` | every call of `fire_webhook` in progress, and its detached retries |
| `admin` | the handlers that create, update and delete the deployment |

Time is not measured. A timestamp is represented by the set of mutations that
carry an earlier one, so `ts > last_fired_at` is `~(rows \subseteq lastFired)`.
That is what the string comparison of RFC 3339 times in
`is_dirty_for_deployment` computes as long as the clock does not go back and never
reads the same twice (it is read in nanoseconds). Sleeps may end at any moment.

A task is `Check`, `Wake` from the debounce, `Recheck`, the fire
(`AttemptSucceeds`, `AttemptFails`, `MarkRead`, `MarkWrite`), `Fired`, `Wake` from
the poll; a cancelled one stops at the next sleep, or goes on if its sleep ends at
the same moment. A first failed attempt leaves two retries to a detached task.
`mark_deployment_fired` reads the clock and then writes, so two calls may write in
another order than they read. The handlers cancel, read the row again and spawn
with an await between each (`Update`, `Cancel`, `Get`, `Spawn`, `Delete`). A crash
ends everything but the rows; `main` spawns one task for an auto-deploying row.
`delete_app` does to each deployment of the app what `delete_deployment` does.

Properties: `MarkCoversDeployed` (the mark never hides an undeployed mutation but
one logged between a delivery and its mark), `TaskPerDeployment` (when requests
did not overlap, exactly the registered task runs, configured as the row says),
`EventuallyDeployed` and `EventuallyClean` (liveness).

**Fairness** (`Fairness`): weak fairness of each task's loop, of each call's answer
(success or failure: requests time out), of each mark and of each handler: the
tokio runtime polls every ready task, and timers fire. Strong fairness of
`AttemptSucceeds` for a task's own calls: an endpoint that is called again and
again answers with a success some time. It is an assumption about the endpoint, not
the code, and without it nothing can be promised; nothing is assumed of retries,
manual fires, inserts of audit rows, administrators or crashes. Crashes and
requests are bounded in the runs, so they cease.

## Backup

`Backup` models the task of `spawn_backup_task`, the bucket, the records and the
handlers of the settings page (`/api` has the same two).

| variable | code |
|---|---|
| `config` | the row of `backup_config` (enabled, frequency, retention count) |
| `records` | the rows of `backup_history`, whose ids are in the order of `started_at`, with their age in hours |
| `bucket`, `clock` | the keys under `backups/`; the second of the last upload, which names them |
| `pc`, `enabled`, `frequency`, `delay`, `source`, `key` | the task: where it is, the configuration it read, the hours it still sleeps, what it runs |
| `running` | `state.backup_running` |
| `queued`, `sending` | the trigger channel of one message; handlers between their look at `backup_running` and their `try_send` |
| `lastDone`, `sinceSuccess` | history: the last success and the hours since it started, whether or not it is still on record |

One cycle of the task is `ReadConfig`, once after a start `Recover`, then `Plan`,
and `Wake` or `Receive`; `run_backup` is `RunBackup` (the lock), `StartRecord`,
`CreateArchive`, `Upload`, `Complete`, `Retain`, `Prune`, and `Fail` with the lock
released at the early returns. A failed upload may have stored its archive; any
deletion of the retention may fail. `UpdateConfig` writes the whole row, the frequency
with it. Time passes by the hour in `Elapse`: records grow older, up to `MaxAge`, which
no frequency exceeds, and the sleeping task has an hour less to sleep. `Plan` computes
the delay (`NextDelays`) from the frequency that was read; nothing computes it again
while the task sleeps.

Properties: `LastSuccessRemembered` and `LastArchiveKept` (what a restart computes the
schedule from, and what an administrator would restore from, survives failures,
retention, pruning and crashes); `ScheduleKept` (a scheduled backup is not early by the
frequency the task planned with; by one that was raised while the task slept it may
be, and with `config.frequency` in its place the run has a counterexample); `DueRuns`
and `TriggerTaken` (liveness: no early return leaves the lock behind, no accepted
trigger is forgotten). After the frequency was lowered a due backup starts only when
the old delay is over, and one that was planned starts although backups were disabled
meanwhile. `DueRuns` leaves out a task that found backups disabled: it waits for a
trigger or a restart and does not read the configuration again
(`docs/superpowers/specs/2026-03-30-s3-backups-design.md:97` says it takes effect
without a restart). After a failure the delay to the next backup is zero, so the
task retries at once (line 141 of the same document says it waits).

**Fairness** (`FairSpec`): weak fairness of the task as a whole, and time passes
(`Elapse`). It is one tokio task; requests to S3 answer or time out, and its timer
fires. Nothing is assumed of administrators and crashes. A backup that fails for ever
is retried for ever: `TriggerTaken` holds up to the bound on backups (`Bounded`), which
stops the task after it took the lock once more.

## StartUp

`StartUp` models what `run_server` does to the data of an older version before it
listens (`main.rs:346-431`), each statement and each file operation a step, and
every start after one that crashed or failed.

| variable | code |
|---|---|
| `pc` | where the start is |
| `oldTable`, `accounts`, `roleOf` | the table `users` of the older version; the users and roles of allowthem |
| `keyed`, `access`, `staging` | whether `app_access` exists and has old or new ids, its grants, and those of `app_access_new` |
| `marker`, `verified` | the row of `substrukt_grandfather`; the users with a verified email |
| `root`, `app` | the directories under `data/` and under `data/default/` |
| `sidecars`, `rows`, `refs` | `.meta.json` files, rows of `uploads`, documents whose references are recorded |
| `idMap`, `creating`, `next`, `moved` | locals of the start |

`migrate_users_to_allowthem` is `BeginUsers`, `SkipUser` or `CreateUser` and
`AssignRole`; `finalize_schema` is `BeginFinalize`, `CopyGrants`, `DropAccess`,
`RenameAccess`, `DropUsers`; then `VerifyEmails`, `MarkVerified`; the layout is
`BeginLayout`, `MoveDir` (a rename, or the start of a copy), `CopyFile`, `EndCopy`,
`RemoveFile`, `EndRemove`, with `CopyFails`, `Rollback`, `RemoveFails`; the sidecars
are `BeginSidecars` to `EndSidecars`. Between starts, users register and
administrators change grants.

Properties: `NothingLost` (every file is in one of the two places whatever stops
when), `LayoutMoved` (who serves, serves all of it), `UsersMigrated` (grants, roles and
verified emails), `SidecarsRecorded` (a sidecar is deleted only when the rows and
the references are there), `EventuallyServes`. Three named kinds of stop are left
out, because the code does not survive them: one between the drop of `app_access`
and the drop of `users` ("grants"), one between the move of `schemas` and that of the
last directory ("layout": the next start takes the missing `schemas` for the sign
that there is nothing to move), and a copy that failed ("copy": what it copied is
not rolled back). A user whose creation was cut before its role has none: the next
start skips it.

**Fairness** (`FairSpec`): weak fairness of the start as a whole, starting again
after a failure included: `run_server` goes on by itself, and an operator, or a
supervisor, starts a server that exited. Nothing is assumed of registrations,
grants, failures and crashes; the last two are bounded.

## Uploads

| variable | code |
|---|---|
| `files` | the file named by each hash: none, not yet complete, complete |
| `rows`, `focal` | the rows of `uploads`, and those with a focal point |
| `refs` | the rows of `upload_references` |
| `docs` | the document of each entry: the hashes `extract_upload_hashes` finds in it |
| `job` | what each request does |
| `bundle` | the last export |

Uploading the same bytes twice finds the file (`FindFile`) and only inserts a row.
`store_upload` is `FindFile`, `CreateFile`, `WriteFile`; the form, the API and files
chosen in the form of an entry do the same. Serving reads the row before the file
(`ReadMeta`, `ReadFile`); deleting counts references (`DeleteUpload`), unlinks the
file, deletes the row. Saves record references after the file, or not at all (bulk
requests and reverts); deletes of entries remove the references first. An export
writes manifest, documents and files; an import unpacks over what is there, inserts
rows, scans the documents and replaces the references of each.

Properties: `ReferencedIsKept` (what a recorded reference of a document names is
complete and has its row), `ServedAsStored` (whoever was told that bytes are stored
gets them back whole and with their type; answers are cached for ever under the
hash), `ImportRestores` (an import brings back the bundle and leaves exactly the
references of the documents). The overlaps the code does not survive are the four
disjuncts of `Overlap`; hashes they hit are `excused` until they are gone. `stored` and
`excused` are history variables; two steps look at them: a save names only uploads
whose answer its author has seen, and a writer whose file was unlinked (an
overlap) may have filled that one rather than the one that is there now.

## ReadPath

| variable | code |
|---|---|
| `docs`, `schema` | the files of the entries and of the schema |
| `cache`, `etags`, `openapi` | `state.cache`, `state.etag_cache`, `state.openapi_cache` |
| `clone` | the copy of `state.cache` the watcher is given (`main.rs:490-495`) |
| `pending`, `watcher` | a reported change; the thread of `spawn_watcher` |
| `job` | what each request does |

A GET is `GetEntry` (reads the schema), `ReadEntry`, `ResolveReferences` (from the
cache), `LookUpTag`, `InsertTag`. A save is `WriteEntry`, `RemoveTag`, `ReloadRead`,
`ReloadInsert`; a delete `Unlink`, `Uncache`; an import `Unpack`, `ClearCache`,
`ClearTags`, `ListEntries`, `InsertAll`. Schemas are truncated, then written. The
watcher is `Receive`, `Quiet` (200 ms without a change) and `Rebuild`, which fills
its copies: no handler reads them, so only the OpenAPI document, which is shared,
profits. `EditEntry` and `EditSchema` change files by hand.

Properties: `TagsFollowDocs` (a cached ETag is that of the document on disk),
`CacheAgrees` (what references are resolved from is what is on disk),
`OpenApiFollows` (an outdated OpenAPI document is eventually forgotten). Their
exceptions: a GET that read before a save and inserts after it (`late`), overlapping
changes and changes by hand (`contended`), a document generated before a change
and stored after the watcher's last turn (`raced`).

**Fairness** (`FairSpec`): weak fairness of the watcher's three steps. It is a thread
of its own that blocks on a channel with a timeout, and the system reports changes
of files.

## Access

| variable | code |
|---|---|
| `account`, `roles`, `invites`, `events` | the tables of allowthem and its channel of events |
| `handler`, `setup` | the task that handles registrations; the command `create-admin` |
| `apps`, `nextId`, `grants` | tables `apps` (with its sequence) and `app_access` |
| `keys`, `scopes` | the tokens of allowthem and the rows of `app_tokens` |
| `deploys` | the deployments of each app, in the second database |
| `disk`, `cache` | for which incarnations of the app there are documents under the slug |
| `job` | what each request does |

The role of a user is read in `require_auth` and the app in `AppContext`, once,
before the handler acts (`Admit`, `InApp`); everything after that is a step of its
own. Registering: `Register` or `AcceptInvitation`, then `TakeEvent`, `CountUsers` or
`ListApps` and `GrantInvited`, `AssignRole`. Changing a role: `ReadRoles`, `UnassignRole`
per role, `AssignNewRole`. Changing access: `ListUsers`, `CheckGrant`, `WriteGrant` per
user. Deleting an app: `CancelDeployments`, `DeleteRow`, `RemoveDirectory`,
`RemoveCached`. A crash ends requests and events and fills the cache from every
directory.

Properties: `AnAdministrator` (where there are users there is an administrator),
`RolesAsAsked`, `AccessAsAsked` (what was asked for last is what there is),
`NothingInherited` (an app has no documents, tokens or deployments of a former app
of its slug or id). Their exceptions are `headless`, `blurred`, `contested` and `spoiled`,
each set by a named overlap or crash only.

`Scenarios` says who is administrator at the beginning and which kinds of requests
are tried together: roles, invitations and removals from any beginning; grants with
invitations and with the deletion of an app; what an app is left when it is deleted
and created again, with documents and deployments, or with tokens and removals.
Kinds that touch no common table are not tried together.

## Documents, Forms, Listings and RateLimiter

`Documents` has JSON values as operators: objects and arrays are sets of pairs of a
key and a value, so a path is a sequence of keys.

`Forms` is a person with an edit form. `RenderFields` is `content/form.rs`: inputs with
their names, which are paths, and texts. The person removes and adds items (the
scripts of the page), types, chooses files and submits; `ParseFields` and
`ProcessUploads` are the way back, and a refused submission renders the form again
from what was parsed. `meant` follows the edits on the document rather than on the
inputs. `FormKeepsDocument`: what is saved is the document that was opened, with the
edits applied. Exceptions (`excused`): a document a form cannot carry (`Lossy`), a
file that could not be stored, and a file chosen for an item behind one that was
removed or is empty (`Astray`).

`Listings` is a reader who follows pages to the end, by the API, in the admin UI, or
in the audit log, while something may be added. `QueryEntries` filters, searches,
sorts and cuts; `ListAuditLog` is the query with its bounds of dates and one more row
than a page. What a search finds is the constant `Mentions`: `Search` has
`matches_query`, and TLC evaluates `SearchAssumption`, that it finds a text exactly if
it is a leaf of the document no deeper than the nesting allows. `PagesComplete`: nothing that was there is missed; if nothing was added
nothing is doubled, the order is the one asked for, and the total is right. What is
asked for is said a second time without pages or sorting (`Asked`).

`RateLimiter` is `check` with handlers that read the clock, wait for the lock, and
overtake each other. The vector of a client is the set of its requests, numbered: the
code looks at their times and how many they are, never at their order. `LimitHolds`: no window, shortened by the longest wait, has more
than `Limit` accepted requests, and none is refused without `Limit` accepted before
it. The shortening is needed: without it the run has a counterexample.

## The runs

| run | question | instance | states |
|---|---|---|---|
| `content_store` | do two interleaving requests and a crash keep references and keys right, and implement a register per entry? | 2 workers, 2 entries, 2 bodies (one has the key both entries may want, the other is incomplete; they name different uploads), all requests, a history of 1 version, 2 requests, 1 crash | 0.6 M |
| `content_one_entry` | what do three requests on one entry do, one after another or overlapping? | 1 entry, history of 1 version, a clock of 2 values, 3 requests, 1 crash | 1.5 M |
| `deploy_marks` | do overlapping fires and retries mark right, with one task? | 2 mutations, 2 tasks, 1 manual fire, 1 retrying task, 1 request | 2.2 M |
| `deploy_live` | is a mutation deployed across an update and a crash, and does the deployment become clean? | 1 mutation, 2 tasks, 1 retrying task, 1 request, 1 crash | 0.1 M |
| `backup` | do the schedule and the last archive survive, and do due backups and triggers run? | 2 backups and the start of a third, frequency 1 or 2 hours, retention 1 or 2, a history of one record, 1 handler, 1 change of the configuration, 1 crash | 0.7 M |
| `start_up` | is an upgrade repaired by the next start, wherever it stops? | 2 old users, 1 new, 2 files per directory, with and without old users, layout and history, 2 stops | 0.1 M |
| `uploads` | do referenced uploads survive deletions, second uploads, imports and a crash? | 1 hash, 1 entry, 2 workers, 6 requests, 1 crash | 0.6 M |
| `read_path` | do the caches follow the files? | 1 entry that refers to nothing, 2 documents, 1 schema, 2 workers, 2 requests that change something, any number of GETs, 1 change by hand | 1.3 M |
| `access` | do users have the roles and apps that were asked for, and do new apps inherit nothing? | 2 users, 2 apps, 2 workers, 3 requests, 1 crash, the scenarios above | 1.1 M |
| `algorithms` | does a form keep a document, do pages show everything, does the limit hold? | 11 documents, 3 edits, 2 submissions; 5 entries and 6 audit rows, all options, pages of 2; limit 2 in a window of 3, 3 handlers, wait of 1 | 0.1 M |
| `claim_*` | does a sentence of the sources hold of the code? | see the cfg | stops at the violation |

Why the bounds are enough: every property relates at most two actors on one or two
entries, or two calls and one mark; a violation needs at most two overlapping
handlers and one later request (`content_one_entry` has three), and one crash
(state that survives a crash is files and rows, so a second crash starts from a
state that a run without the first reaches too, apart from files both left torn).
Two entries are needed for the unique field and for the effect of a torn file on
the rest of the schema. A history of one version is where pruning is closest to
losing the version just written: for a moment there are two. A clock of two values
may stand still, go on and go back; a third would only put another version between. One
retrying task is enough for a retry to overlap a fire and a manual fire. In
`start_up` two stops are one in the middle of repairing the first; two users and two
files let a loop stop halfway. Six requests in `uploads` are an upload, a save, an
export, a deletion and an import, with one to overlap any of them; hashes and
entries do not interact but through an import, which treats them alike. In
`algorithms` three edits let an item be removed, another added and a file chosen for
it, twice submitted; arrays in arrays are there, and nesting beyond `MaxDepth`. What
does not depend on a bound is proved below.

Symmetry is used only in runs of invariants and of the refinement, which are
symmetric in workers, users and entries. Deadlock checking is off where the bounded
requests are used up and handled, as the server waits then; `start_up` and the claims
check it.

## The theorems

Checked by TLAPS for every value of the constants: any number of workers, users,
apps, entries, uploads, requests, crashes. The constants are only assumed to be what
they are said to be, and sentinels to differ from data:

| module | assumption | what it asks beyond types |
|---|---|---|
| `ContentStore` | `DataAssumption`, `BoundAssumption`, `SentinelAssumption` | initial documents that are published are complete; `None` and `Torn` are no documents, bodies or requests |
| `AutoDeploy` | `DeployAssumption` | tasks, calls and retries are told apart; sentinels |
| `Backup` | `BackupAssumption` | retention counts, frequencies and the length of the history are not zero; ages are told apart up to the longest frequency, and beyond an hour |
| `StartUp` | `StartUpAssumption` | old and new users differ; a missing table or directory is not a set of users or files |
| `Uploads`, `ReadPath` | `UploadsAssumption`, `ReadPathAssumption` | sentinels |
| `Access` | `AccessAssumption` | finitely many users and apps to begin with (the code counts users, and gives a new app the next id) |
| `RateLimiter` | `RateLimiterAssumption` | - |
| `Listings` | `ListingsAssumption` | ids tell entries and rows apart; the values sorted by are of one kind, or missing; there are finitely many entries; pages are not empty |

Each theorem is `Spec => []P`, from an inductive invariant whose parts are named in
the proof module. The specification of a theorem has no fairness; a run that checks
`FairSpec` checks the same steps. Below is why each part is needed: what the property
alone does not say of the requests that are under way.

`ContentStore_proofs`: `TypeCorrect`, `PublishedCompleteHolds`, `CacheCoherentHolds`,
`ReferencesTrackContentHolds`, `OverwrittenIsInHistoryHolds`, `KeysUniqueHolds`, and
`ContentStoreIsRegister`, the refinement.

- `TypeInv`: the types, and what a handler must hold at each of its steps.
- `OverlapInv`: two handlers busy on one entry have marked it `overlapped`, and
  neither believes to be alone (`solo`). It is what lets the other parts speak of
  one handler at a time.
- `SoundInv`: on an entry that was never contended, a handler that will write a
  published document holds a complete body, and so does every version that a
  revert could bring back. `PublishedComplete` alone is not inductive: it says
  nothing of the document a handler carries, nor of the history.
- `CoherenceInv`: a handler that is alone and about to update the cache holds what
  the file holds, and an idle entry that is not stale is cached as it is stored.
- `AloneInv`: what a handler alone on its entry has done so far (`AloneOn`): the
  version it will overwrite is in the history, the rows are those of the old or the
  new document as its step says. Pruning keeps the version just written, even where
  two have the same time, if fewer than `MaxVersions` of the others are newer than the
  clock; nothing is assumed of the clock, so the invariant has no part about it.
- `KeysInv`: the bodies that claim a key, on file or in the hands of a save that was
  validated, never claim the same one. Uniqueness of the files alone is not
  inductive: two saves may be past their validation.

Every step of a handler is shown `Local` (it changes the state of its own entry
only), so each part has one frame lemma and one case per action that can disturb it.
The refinement takes each action to the step of the register it is: the truncation,
or the unlink, is where a request takes effect; the write after it, the cache, the
history and the references are stutters; a crash is a crash of the register.

`AutoDeploy_proofs`: `TypeCorrect`, `MarkCoversDeployedHolds`, `TaskPerDeploymentHolds`.

- `MarkInv`: a call that got its answer and has not read the clock yet is covered
  by what was deployed or logged since (`skipped`), and so is the timestamp it
  read and has not written. Without the second part a late write could hide
  anything.
- `TaskInv`: while requests do not overlap, at most one handler is at work and
  `Pending` says for each of its steps what of the agreement of row, registry and
  live tasks still holds; `LoopKeepsLive` shows that no step of a task's loop
  changes who is live.

`Backup_proofs`: `TypeCorrect`, `LastSuccessRememberedHolds`, `ScheduleKeptHolds`,
`LastArchiveKeptHolds`.

- `HistoryInv`: ids tell records apart, the last success is on record, and the
  backup in progress is newer until it completes: what fails a record never fails
  the last success, and pruning comes when the last success is the latest record.
- `SleepInv`: the age of the last success is that of its record, so what is left of a
  sleep is at least what the frequency it was planned with still asks for. `ScheduleKept`
  alone says nothing of a task that sleeps; the configuration does not occur in the
  invariant, so changing it disturbs nothing.
- `ArchiveInv`: no key is later than the clock, and at the time of retention the
  archive of the last success has the clock's key: it is never surplus.

`StartUp_proofs`: `TypeCorrect`, `NothingLostHolds`, `LayoutMovedHolds`,
`UsersMigratedHolds`, `SidecarsRecordedHolds`.

- `GrantsInv`: every grant is in `app_access`, or on its way through
  `app_access_new`, at each statement of the migration; this is where the stop
  between the two drops has to be left out.
- `UsersInv`: the old table goes before the emails are verified, and they are
  verified before anybody registers, so the marker never covers a new user.
- `LayoutInv`: what is left of the moved directories is nothing, and what is being
  removed has been copied; `NothingLost` holds at the end of a removal only with it.
- `MovedInv`: a start that finds no `schemas` under `data/` finds all of `default/`.
- `SidecarsInv`: where there are uploads there are all the documents that refer to
  them, so a scan that finds the sidecars finds what it must record.

`Uploads_proofs`: `TypeCorrect`, `ReferencedIsKeptHolds`, `ServedAsStoredHolds`,
`ImportRestoresHolds`.

- `AloneInv`, `ImportInv`: how far an import by itself has come; what it wrote stays
  as it is while it goes on.
- `KeptInv`: an upload is whole while it is referenced, while its author relies on
  it, and while a document that names it is being saved; and who deletes it has
  found no reference. The last two are promises of requests under way
  (`KeptBy`), and the overlaps that break them are those `Overlap` names.
- `ServeInv`: who was promised the bytes does not come to an answer with less.

`ReadPath_proofs`: `TypeCorrect`, `TagsFollowDocsHolds`, `CacheAgreesHolds`.

- `AloneInv`: requests that change one entry at once contend it.
- `CacheInv`: `CacheAgrees`, and what each request that is changing an entry will
  still bring into the cache (`OnTheWay`). `TagsFollowDocs` is inductive with the
  types.

`Access_proofs`: `TypeCorrect`, `AnAdministratorHolds`, `RolesAsAskedHolds`,
`AccessAsAskedHolds`, `NothingInheritedHolds`.

- `HoldsInv`, `OnceInv`: what requests and the task refer to exists, and a user has
  one event, which is in the channel or in the hands of the task but not both.
- `RolesInv`: where no two actors blur a user, whoever is changing its role has still
  to take away exactly what it has, and an event will give it what was asked for.
- `AdminInv`: there is an administrator, or nobody has any power yet and one is
  coming. `AnAdministrator` alone speaks of states without events, and an event may
  outlive everything else.
- `GrantsInv`: what a form has still to compare is wanted as the form says, and what
  the task has still to grant is wanted.
- `IdsInv`: an id belongs to one slug and one time. It is what a request that read
  the app before it was deleted and created again relies on.
- `LeftInv`: what is left of an app while it is deleted, at each step of the deletion.

`Algorithms_proofs`: `LimitIsKept` and `PagesAreComplete`. Of the limiter:

- `WaitInv`: a waiting handler has read the clock at most `MaxDelay` ago.
- `KeptInv`: what `retain` dropped is at least `Window` old. A handler whose time is in
  a shortened window therefore still finds all the others of that window
  (`WithinIsKept`), so they were fewer than `Limit`.
- `NumberInv`: a request let through is a new one.

Of the lists, for any library, log, query and size of page. `SortedIsList` says that
sorting a finite set in a strict order puts each element after as many others as
precede it, its rank; `CompareIsOrder` and `RowsAreOrdered` that the comparisons of the code
are such orders; `PageShows` what a page adds to what was shown.

- `SeenInv`: what was there at the beginning and was not shown has a rank no less than
  where the next page starts. An addition only raises ranks (`GrowPreserves`), so
  nothing slips behind the reader; it may show an element twice, which is why the
  property promises more when nothing was added.
- `StillInv`: if nothing was added, what was shown is the beginning of the list, as
  long as the pages were.
- `EndInv`: the reader is told that there is no more only when the next page would
  start behind the end: three different computations, of the API (`total`), of the
  admin UI (a division rounded up) and of the audit log (one row more than a page, `PageOfPage`).

What the proofs changed in the models: `KeysUnique` excused the states in which the
cache is degraded (a start met an unreadable file and left the collection out). That
is too early and too late: a save validated against such a cache may leave a duplicate
that outlives a second restart, which takes two crashes. It now excuses the
validations that saw such a cache (`raced`). Two cases of `ReadPath`'s `InsertAll`
overlapped. `Listings` sorted as if truth values were equal, and with a recursive
operator; the search is now a module of its own, which is recursive. The clock of
`ContentStore` could not go back. `Backup` had no frequency to change, only successes
that stopped being recent; with it the schedule is kept by the frequency planned with.

How far the prover is trusted: tlapm 1.4.5 translates an `EXCEPT` that updates two
components below the same index (`[f EXCEPT ![w].a = x, ![w].b = y]`) to hypotheses
that contradict each other, so anything follows from it. The modules write such an
update as `![w] = [@ EXCEPT !.a = x, !.b = y]`, which is translated as it should be. The
leaves of all proofs were tried with `FALSE` for their goal, which is found only
where a case is impossible or the proof is by contradiction.

Only model-checked: `FormKeepsDocument` and `SearchAssumption`, as `Forms` and `Search`
use recursive operators, which the provers do not take (what they compute is checked
on the instances only); and the liveness properties `EventuallyDeployed`,
`EventuallyClean`, `DueRuns`, `TriggerTaken`, `EventuallyServes` and `OpenApiFollows`:
liveness under fairness is out of the reach of the installed provers.

## Where the code and its documents disagree

Two are runs that TLC ends with a counterexample; `PROJECT.json` quotes the lines.

- `claim_start_up`: `finalize_schema` is said to be idempotent. After a stop between
  the drop of `app_access` and the drop of `users` the next start copies nothing and
  drops the migrated grants, or fails.
- `claim_tags`: an ETag is said to be derived from the body. A GET answers by the tag
  that is cached, and a change of an entry does not remove the tags of the entries
  that embed it.

The others were met while modelling. They are exceptions the properties name, or
are left out of the models as said there; the documents say otherwise.

- Two overlapping updates may snapshot the same version, and the document of the
  first to write is in no version (`docs/specs/sk-01-design.md:423` says it is).
- "Oldest removed first" (`docs/specs/sk-01-design.md:18`): what is removed is what has
  the lowest time in its name. After the clock was set back that may be the snapshot
  just written, and the document it holds is then in no version.
- A revert is not validated and may take back a unique key another entry has
  (`docs/specs/sk-03-design.md:141`).
- Bulk requests and reverts do not record upload references (`docs/src/uploads.md:61`).
- A change logged between the delivery of a webhook and its mark is covered by the
  mark and never fired for (`docs/src/webhooks.md:32`).
- An update that is about to spawn, and a delete in between, leave a task without a
  deployment, which fires at every poll until a restart
  (`docs/superpowers/specs/2026-03-31-configurable-deployments-design.md:674,689`).
- A change of the backup configuration sends the sleeping task nothing
  (`docs/superpowers/specs/2026-03-30-s3-backups-design.md:101` says it does, so that the
  delay is computed again, and line 97 that changes take effect without a restart). A
  backup planned before starts when it was planned to: early by a frequency that was
  raised, late by one that was lowered, and although backups were disabled. A task that
  found them disabled waits for a trigger or a restart. A failed backup is retried at
  once (line 141 says in the next cycle).
- Focal points are exported, and dropped by every import (`docs/plans/sk-07.md:137`).
- The watcher is given copies of the content and ETag caches, so a file changed by
  hand is not seen until the entry is saved or the server restarted
  (`docs/src/content-management.md:42`).
- Sidecars of an imported bundle become rows at the next start only
  (`docs/src/import-export.md:95`).
- The first user may stay without a role when a second registers, or the server
  stops, before the event is handled
  (`docs/superpowers/specs/2026-03-18-rbac-design.md:19`).
- Entries without the field sorted by come first when the order is descending
  (`docs/specs/sk-05-06-design.md:119` says last).
- The limiter of logins is created and never asked (`docs/src/security.md:47`); what
  the library allowthem does of its own is not known here.
- A form drops items of arrays that are references, rich texts or arrays; a file
  chosen for an item behind one that was removed is set in another item; a file that
  cannot be stored is logged and the entry saved without it; an item that is an
  object of empty arrays has no inputs and disappears.

## What is assumed, and what is not modelled

Conventions every module keeps: a request the handler refuses before it changed
anything takes no step; what happens between two awaits or two calls of the file
system is one step.

- `ContentStore`: file-system calls succeed, except for files that another handler
  removed or truncated; a write is one step after the truncation;
  `db_update_references` is the transaction it is in the code.
- `AutoDeploy`: the audit database answers (a failed insert of an audit row is
  modelled, a failed dirty check is not); the two queries of a dirty check are one
  step; the endpoint may have built although its answer was a failure or was lost.
- `Backup`: the audit database answers; the clock does not go back, so records are
  started and archives named in the order of time. The contents of the archive and
  the temporary files are left out.
- `StartUp`: the databases answer; one grant per user; a file being copied counts when
  it is complete.
- `Uploads`: a document is written in one step; one bundle; one export or import at a
  time; a save names uploads whose answer its author has seen.
- `ReadPath`: the file of an entry is written in one step; one collection; a hash
  stands for what it is the hash of.
- `Access`: statements of the database do not fail; an email is its user. The tables
  of allowthem are modelled from how the code calls it.
- `Forms`: browsers send inputs as they are (line breaks are not changed); an item of
  an array has at least one input; arrays of arrays hold no files.
- `Listings`: the values of a field sorted by are of one kind. Of mixed kinds the
  comparison of the code is no order, and its sort may do anything.
- `RateLimiter`: a handler gets the lock within `MaxDelay`. The map of clients, whose
  keys are never dropped, is not bounded in the code and fixed in the model.

Not modelled: storage mode "single-file"; metadata sidecars
and the diff of two versions; validation beyond unique keys and required fields
(cross-field rules); the rows about webhook attempts in the audit log. Not going to be modelled:
rendering of pages, configuration, metrics, email, seeding, and the inside of the
external crate allowthem, which are pure, only do I/O, or hold no state the rest
depends on.
