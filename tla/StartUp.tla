------------------------------- MODULE StartUp -------------------------------
(***************************************************************************)
(* What run_server does to old data before it serves: the users, their     *)
(* roles and their grants of an older version move to new tables, the      *)
(* directories of the single app move under default/, and the sidecars of  *)
(* uploads become rows.  Every statement and every file operation is a     *)
(* step; the server may crash between any two, directory operations may    *)
(* fail, and the next start finds what the last one left.                  *)
(*                                                                         *)
(* Abstractions.  A directory is the set of its files, and a file that is  *)
(* being copied counts when it is complete; a file of uploads stands for   *)
(* the upload and its sidecar, which are copied together.  One grant per   *)
(* user.  The databases answer.                                            *)
(***************************************************************************)
EXTENDS Naturals, Sequences

CONSTANTS
  OldUsers,   \* rows of the old users table
  NewUsers,   \* users who may register while the server runs
  Files,      \* the files of every directory
  NoDir,      \* the directory does not exist
  NoTable,    \* app_access_new does not exist
  Nobody,     \* no user is being created
  MaxStops    \* bound: crashes and failed directory operations

ASSUME StartUpAssumption ==
  /\ OldUsers \intersect NewUsers = {}
  /\ \A dir \in SUBSET Files : NoDir # dir
  /\ \A users \in SUBSET OldUsers : NoTable # users
  /\ Nobody \notin OldUsers
  /\ MaxStops \in Nat

\* Mutants: a directory forgotten; uploads before content.
DirsToMoveForgets == <<"schemas", "content", "uploads">>
DirsToMoveSwapped == <<"schemas", "uploads", "content", "_history">>

DirsToMove == <<"schemas", "content", "uploads", "_history">>
Dirs == {"schemas", "content", "uploads", "_history"}

Position(d) == CHOOSE i \in DOMAIN DirsToMove : DirsToMove[i] = d
Users == OldUsers \union NewUsers

VARIABLES
  pc,          \* where the start is, "serve" or "failed"
  oldTable,    \* the old users table exists
  accounts,    \* the users of allowthem
  roleOf,      \* those that were assigned a role
  keyed,       \* the user ids in app_access: "old", "new", "none": no table
  access,      \* the users with a grant in app_access
  staging,     \* those with a grant in app_access_new, or NoTable
  marker,      \* the row of substrukt_grandfather
  verified,    \* users with a verified email
  root, app,   \* the directories under data/ and data/default/
  sidecars,    \* the .meta.json files in default/uploads not deleted yet
  rows,        \* the rows of uploads
  refs,        \* the documents whose references were recorded
  \* Local variables of the start.
  idMap,       \* the old users still to be handled by this or the next loop
  creating,    \* the user that was just created
  next,        \* the index in DirsToMove of the directory that is moved
  moved,       \* the directories this start has moved
  \* History variables.
  had,         \* the directories there were before the first start
  granted,     \* the users app_access should list
  registered,  \* users who registered
  cut,         \* users whose creation was cut before their role
  damage,      \* migrations stopped at a point they do not survive
  stops

tables == <<oldTable, accounts, roleOf, keyed, access, staging>>
emails == <<marker, verified>>
layout == <<root, app>>
uploads == <<sidecars, rows, refs>>
local == <<idMap, creating, next, moved>>
history == <<had, granted, registered, cut, damage, stops>>
vars == <<pc, tables, emails, layout, uploads, local, history>>

FilesIn(dir, d) == IF dir[d] = NoDir THEN {} ELSE dir[d]

-----------------------------------------------------------------------------
(* migrate_users_to_allowthem: idMap collects the users.                   *)

BeginUsers ==
  /\ pc = "users"
  /\ pc' = IF oldTable /\ idMap # OldUsers THEN "user" ELSE "finalize"
  /\ UNCHANGED <<tables, emails, layout, uploads, local, history>>

SkipUser(u) ==
  /\ pc = "user" /\ u \in accounts \ idMap
  /\ idMap' = idMap \union {u}
  /\ pc' = "users"
  /\ UNCHANGED <<tables, emails, layout, uploads, creating, next, moved,
                 history>>

CreateUser(u) ==
  /\ pc = "user" /\ u \notin accounts
  /\ accounts' = accounts \union {u}
  /\ creating' = u
  /\ pc' = "role"
  /\ UNCHANGED <<oldTable, roleOf, keyed, access, staging, emails, layout,
                 uploads, idMap, next, moved, history>>

AssignRole ==
  /\ pc = "role"
  /\ roleOf' = roleOf \union {creating}
  /\ idMap' = idMap \union {creating}
  /\ creating' = Nobody
  /\ pc' = "users"
  /\ UNCHANGED <<oldTable, accounts, keyed, access, staging, emails, layout,
                 uploads, next, moved, history>>

-----------------------------------------------------------------------------
(* finalize_schema: idMap is consumed by the loop over the grants.         *)

\* Mutant: the old users are dropped first.
BeginFinalizeEarly ==
  /\ pc = "finalize"
  /\ IF oldTable THEN /\ staging' = {} /\ pc' = "copyGrants"
                      /\ oldTable' = FALSE
                 ELSE pc' = "email" /\ UNCHANGED <<staging, oldTable>>
  /\ UNCHANGED <<accounts, roleOf, keyed, access, emails, layout, uploads,
                 local, history>>

\* Mutant: the staging table of an earlier start is in the way.
BeginFinalizeStale ==
  /\ pc = "finalize"
  /\ IF oldTable THEN /\ staging' = {}
                      /\ pc' = IF staging = NoTable THEN "copyGrants"
                                                    ELSE "failed"
                 ELSE pc' = "email" /\ UNCHANGED staging
  /\ UNCHANGED <<oldTable, accounts, roleOf, keyed, access, emails, layout,
                 uploads, local, history>>

\* DROP TABLE IF EXISTS app_access_new; CREATE TABLE app_access_new.
BeginFinalize ==
  /\ pc = "finalize"
  /\ IF oldTable THEN /\ staging' = {} /\ pc' = "copyGrants"
                 ELSE /\ pc' = "email" /\ UNCHANGED staging
  /\ UNCHANGED <<oldTable, accounts, roleOf, keyed, access, emails, layout,
                 uploads, local, history>>

\* INSERT ... SELECT FROM app_access WHERE user_id = the old id: ids that
\* are already new match nothing, and a missing table is an error.
CopyGrants(u) ==
  /\ pc = "copyGrants" /\ u \in idMap
  /\ idMap' = idMap \ {u}
  /\ IF keyed = "none"
       THEN /\ pc' = "failed"
            /\ UNCHANGED staging
       ELSE /\ staging' = IF keyed = "old" THEN staging \union (access \intersect {u})
                                           ELSE staging
            /\ UNCHANGED pc
  /\ UNCHANGED <<oldTable, accounts, roleOf, keyed, access, emails, layout,
                 uploads, creating, next, moved, history>>

DropAccess ==
  /\ pc = "copyGrants" /\ idMap = {}
  /\ keyed' = "none" /\ access' = {}
  /\ pc' = "rename"
  /\ UNCHANGED <<oldTable, accounts, roleOf, staging, emails, layout, uploads,
                 local, history>>

RenameAccess ==
  /\ pc = "rename"
  /\ keyed' = "new" /\ access' = staging /\ staging' = NoTable
  /\ pc' = "dropUsers"
  /\ UNCHANGED <<oldTable, accounts, roleOf, emails, layout, uploads, local,
                 history>>

DropUsers ==
  /\ pc = "dropUsers"
  /\ oldTable' = FALSE
  /\ pc' = "email"
  /\ UNCHANGED <<accounts, roleOf, keyed, access, staging, emails, layout,
                 uploads, local, history>>

-----------------------------------------------------------------------------
(* grandfather_email_verification.                                         *)

VerifyEmails ==
  /\ pc = "email"
  /\ IF marker THEN pc' = "layout" /\ UNCHANGED verified
               ELSE pc' = "mark" /\ verified' = accounts
  /\ UNCHANGED <<tables, marker, layout, uploads, local, history>>

MarkVerified ==
  /\ pc = "mark"
  /\ marker' = TRUE
  /\ pc' = "layout"
  /\ UNCHANGED <<tables, verified, layout, uploads, local, history>>

-----------------------------------------------------------------------------
(* migrate_single_app_layout and ensure_app_dirs.                          *)

BeginLayout ==
  /\ pc = "layout"
  /\ pc' = IF root["schemas"] # NoDir THEN "move" ELSE "ensure"
  /\ UNCHANGED <<tables, emails, layout, uploads, local, history>>

Dir == DirsToMove[next]

\* A rename replaces an empty directory and fails on one with files; it may
\* also fail because default/ is on another filesystem.
MoveDir ==
  /\ pc = "move" /\ next <= Len(DirsToMove)
  /\ \/ /\ root[Dir] = NoDir
        /\ next' = next + 1
        /\ UNCHANGED <<pc, layout, moved>>
     \/ /\ root[Dir] # NoDir /\ FilesIn(app, Dir) = {}
        /\ root' = [root EXCEPT ![Dir] = NoDir]
        /\ app' = [app EXCEPT ![Dir] = root[Dir]]
        /\ moved' = moved \union {Dir}
        /\ next' = next + 1
        /\ UNCHANGED pc
     \/ /\ root[Dir] # NoDir
        /\ pc' = "copy"
        /\ app' = [app EXCEPT ![Dir] = FilesIn(app, Dir)]
        /\ UNCHANGED <<root, moved, next>>
  /\ UNCHANGED <<tables, emails, uploads, idMap, creating, history>>

EndMove ==
  /\ pc = "move" /\ next > Len(DirsToMove)
  /\ pc' = "ensure"
  /\ UNCHANGED <<tables, emails, layout, uploads, local, history>>

CopyFile(f) ==
  /\ pc = "copy" /\ f \in root[Dir] \ app[Dir]
  /\ app' = [app EXCEPT ![Dir] = @ \union {f}]
  /\ UNCHANGED <<pc, tables, emails, root, uploads, local, history>>

\* Mutant: an error of the copy is ignored.
EndCopyAnyway ==
  /\ pc = "copy"
  /\ pc' = "remove"
  /\ UNCHANGED <<tables, emails, layout, uploads, local, history>>

EndCopy ==
  /\ pc = "copy" /\ root[Dir] \subseteq app[Dir]
  /\ pc' = "remove"
  /\ UNCHANGED <<tables, emails, layout, uploads, local, history>>

\* What has been copied stays.
CopyFails ==
  /\ pc = "copy" /\ stops < MaxStops
  /\ stops' = stops + 1
  /\ damage' = damage \union {"copy"}
  /\ pc' = "rollback"
  /\ UNCHANGED <<tables, emails, layout, uploads, local, had, granted,
                 registered, cut>>

\* let _ = rename, in the order of the moves: a directory that cannot be
\* moved back stays.
Rollback(d) ==
  /\ pc = "rollback" /\ d \in moved
  /\ \A e \in moved : Position(d) <= Position(e)
  /\ moved' = moved \ {d}
  /\ \/ /\ root' = [root EXCEPT ![d] = app[d]]
        /\ app' = [app EXCEPT ![d] = NoDir]
        /\ UNCHANGED stops
     \/ /\ stops < MaxStops
        /\ stops' = stops + 1
        /\ UNCHANGED layout
  /\ UNCHANGED <<pc, tables, emails, uploads, idMap, creating, next, had,
                 granted, registered, cut, damage>>

EndRollback ==
  /\ pc = "rollback" /\ moved = {}
  /\ pc' = "failed"
  /\ UNCHANGED <<tables, emails, layout, uploads, local, history>>

\* remove_dir_all
RemoveFile(f) ==
  /\ pc = "remove" /\ f \in root[Dir]
  /\ root' = [root EXCEPT ![Dir] = @ \ {f}]
  /\ UNCHANGED <<pc, tables, emails, app, uploads, local, history>>

\* Mutant: a directory is skipped.
EndRemoveTwice ==
  /\ pc = "remove" /\ root[Dir] = {}
  /\ root' = [root EXCEPT ![Dir] = NoDir]
  /\ moved' = moved \union {Dir}
  /\ next' = next + 2
  /\ pc' = "move"
  /\ UNCHANGED <<tables, emails, app, uploads, idMap, creating, history>>

EndRemove ==
  /\ pc = "remove" /\ root[Dir] = {}
  /\ root' = [root EXCEPT ![Dir] = NoDir]
  /\ moved' = moved \union {Dir}
  /\ next' = next + 1
  /\ pc' = "move"
  /\ UNCHANGED <<tables, emails, app, uploads, idMap, creating, history>>

RemoveFails ==
  /\ pc = "remove" /\ stops < MaxStops
  /\ stops' = stops + 1
  /\ pc' = "failed"
  /\ UNCHANGED <<tables, emails, layout, uploads, local, had, granted,
                 registered, cut, damage>>

EnsureAppDirs ==
  /\ pc = "ensure"
  /\ app' = [d \in Dirs |-> FilesIn(app, d)]
  /\ pc' = "sidecars"
  /\ UNCHANGED <<tables, emails, root, uploads, local, history>>

-----------------------------------------------------------------------------
(* migrate_meta_sidecars and populate_references_from_content.             *)

MetaFiles == sidecars \intersect FilesIn(app, "uploads")

BeginSidecars ==
  /\ pc = "sidecars" 
  /\ pc' = IF MetaFiles = {} THEN "serve" ELSE "rows"
  /\ UNCHANGED <<tables, emails, layout, uploads, local, history>>

\* INSERT OR IGNORE
InsertUpload(f) ==
  /\ pc = "rows" /\ f \in MetaFiles \ rows
  /\ rows' = rows \union {f}
  /\ UNCHANGED <<pc, tables, emails, layout, sidecars, refs, local, history>>

PopulateReferences ==
  /\ pc = "rows" /\ MetaFiles \subseteq rows
  /\ refs' = refs \union FilesIn(app, "content")
  /\ pc' = "removeSidecars"
  /\ UNCHANGED <<tables, emails, layout, sidecars, rows, local, history>>

RemoveSidecar(f) ==
  /\ pc = "removeSidecars" /\ f \in MetaFiles
  /\ sidecars' = sidecars \ {f}
  /\ UNCHANGED <<pc, tables, emails, layout, rows, refs, local, history>>

EndSidecars ==
  /\ pc = "removeSidecars" /\ MetaFiles = {}
  /\ pc' = "serve"
  /\ UNCHANGED <<tables, emails, layout, uploads, local, history>>

-----------------------------------------------------------------------------
(* The server runs, stops and starts again.                                *)

Register(u) ==
  /\ pc = "serve" /\ u \notin accounts
  /\ accounts' = accounts \union {u}
  /\ roleOf' = roleOf \union {u}
  /\ registered' = registered \union {u}
  /\ UNCHANGED <<pc, oldTable, keyed, access, staging, emails, layout, uploads,
                 local, had, granted, cut, damage, stops>>

ChangeGrants(u) ==
  /\ pc = "serve" /\ u \in accounts
  /\ access' = IF u \in access THEN access \ {u} ELSE access \union {u}
  /\ granted' = access'
  /\ UNCHANGED <<pc, oldTable, accounts, roleOf, keyed, staging, emails,
                 layout, uploads, local, had, registered, cut, damage, stops>>

Begin == 
  /\ pc' = "users"
  /\ idMap' = {} /\ creating' = Nobody
  /\ next' = 1 /\ moved' = {}

\* The points a stop must not fall on.
InGrants == oldTable /\ keyed # "old"
InLayout == /\ root["schemas"] = NoDir
            /\ \E d \in had : FilesIn(app, d) # Files

Damage == damage \union (IF InGrants THEN {"grants"} ELSE {})
                 \union (IF InLayout THEN {"layout"} ELSE {})

Crash ==
  /\ pc # "failed" /\ stops < MaxStops
  /\ stops' = stops + 1
  /\ damage' = Damage
  /\ cut' = cut \union (IF pc = "role" THEN {creating} ELSE {})
  /\ Begin
  /\ UNCHANGED <<tables, emails, layout, uploads, had, granted, registered>>

StartAgain ==
  /\ pc = "failed"
  /\ damage' = Damage
  /\ Begin
  /\ UNCHANGED <<tables, emails, layout, uploads, had, granted, registered,
                 cut, stops>>

\* The directories of an older version: _history came with version history.
OldLayouts == {{}, Dirs, Dirs \ {"_history"}}

Init ==
  /\ pc = "users"
  /\ oldTable \in BOOLEAN
  /\ access \in IF oldTable THEN SUBSET OldUsers ELSE {{}}
  /\ keyed = IF oldTable THEN "old" ELSE "new"
  /\ accounts = {} /\ roleOf = {} /\ staging = NoTable
  /\ marker = FALSE /\ verified = {}
  /\ had \in OldLayouts
  /\ root = [d \in Dirs |-> IF d \in had THEN Files ELSE NoDir]
  /\ app = [d \in Dirs |-> NoDir]
  /\ sidecars = (IF had = {} THEN {} ELSE Files) /\ rows = {} /\ refs = {}
  /\ idMap = {} /\ creating = Nobody /\ next = 1 /\ moved = {}
  /\ granted = access /\ registered = {} /\ cut = {} /\ damage = {}
  /\ stops = 0

Start ==
  \/ BeginUsers \/ AssignRole
  \/ \E u \in OldUsers : SkipUser(u) \/ CreateUser(u) \/ CopyGrants(u)
  \/ BeginFinalize \/ DropAccess \/ RenameAccess \/ DropUsers
  \/ VerifyEmails \/ MarkVerified
  \/ BeginLayout \/ MoveDir \/ EndMove \/ EndCopy
  \/ EndRollback \/ EndRemove \/ EnsureAppDirs
  \/ \E f \in Files : CopyFile(f) \/ RemoveFile(f) \/ InsertUpload(f)
                      \/ RemoveSidecar(f)
  \/ \E d \in Dirs : Rollback(d)
  \/ BeginSidecars \/ PopulateReferences \/ EndSidecars
  \/ StartAgain

Environment ==
  \/ CopyFails \/ RemoveFails \/ Crash
  \/ \E u \in Users : ChangeGrants(u)
  \/ \E u \in NewUsers : Register(u)

Next == Start \/ Environment

Spec == Init /\ [][Next]_vars

\* run_server goes on by itself, and an operator starts again what failed.
FairSpec == Spec /\ WF_vars(Start)

-----------------------------------------------------------------------------
(* Properties.                                                             *)

TypeOK ==
  /\ pc \in {"users", "user", "role", "finalize", "copyGrants", "rename",
             "dropUsers", "email", "mark", "layout", "move", "copy",
             "rollback", "remove", "ensure", "sidecars", "rows",
             "removeSidecars", "serve", "failed"}
  /\ oldTable \in BOOLEAN /\ marker \in BOOLEAN
  /\ accounts \subseteq Users /\ roleOf \subseteq Users
  /\ keyed \in {"old", "new", "none"}
  /\ access \subseteq Users /\ staging \in (SUBSET OldUsers) \union {NoTable}
  /\ verified \subseteq Users
  /\ root \in [Dirs -> (SUBSET Files) \union {NoDir}]
  /\ app \in [Dirs -> (SUBSET Files) \union {NoDir}]
  /\ sidecars \subseteq Files /\ rows \subseteq Files /\ refs \subseteq Files
  /\ idMap \subseteq OldUsers /\ creating \in OldUsers \union {Nobody}
  /\ next \in 1..5 /\ moved \subseteq Dirs /\ had \subseteq Dirs
  /\ granted \subseteq Users /\ registered \subseteq NewUsers
  /\ cut \subseteq OldUsers
  /\ damage \subseteq {"grants", "layout", "copy"}
  /\ stops \in 0..MaxStops

\* The move never loses a file: wherever copying, removing, rolling back or
\* the server stops, and however often, each file of the old layout is under
\* data/ or under data/default/.
NothingLost ==
  \A d \in had : FilesIn(root, d) \union FilesIn(app, d) = Files

\* Served from a complete default/: a start that serves has all the files of
\* the old layout there, unless an earlier one stopped between the move of
\* schemas and the last directory: the next start takes the missing schemas
\* for the sign that there is nothing to move.
LayoutMoved ==
  pc = "serve" /\ "layout" \notin damage =>
    \A d \in had : app[d] = Files

\* The apps a user may open survive the migration, and what the
\* administrators change afterwards survives every later start, unless a
\* stop fell between the drop of app_access and the drop of users.
GrantsMigrated ==
  pc = "serve" /\ "grants" \notin damage =>
    access = granted /\ keyed = "new"

\* Every migrated user has a role, but for one whose creation was cut
\* between create_user_with_hash and assign_role: the next start skips it.
RolesMigrated == pc = "serve" => accounts \subseteq roleOf \union cut

\* The policy that blocks unverified users locks nobody out who was there
\* before it, and no start lifts it for someone who registered later.
Grandfathered == pc = "serve" => verified = accounts \ registered

\* The upgrade keeps what an old user was: the apps, the role, and the way in.
UsersMigrated == GrantsMigrated /\ RolesMigrated /\ Grandfathered

\* A sidecar is deleted only when its row is there and the references of
\* every document are: one upload deleted because no reference was recorded
\* is lost.  It rests on content being moved before uploads, and fails only
\* where a copy has failed: what it has copied is not rolled back.
SidecarsRecorded ==
  "copy" \notin damage /\ had # {} =>
    /\ Files \ sidecars \subseteq rows
    /\ sidecars # Files => refs = Files

\* When nothing fails any more the server serves in the end, unless a stop
\* fell into the drop of the tables.
EventuallyServes == <>[](pc = "serve") \/ <>[]("grants" \in damage)

-----------------------------------------------------------------------------
(* What a comment says and the code does not do.                           *)

\* src/db/migration.rs:85: "drop old auth tables. Idempotent."  A start that
\* repeats the migration ends with the same grants.
GrantsIdempotent == pc = "serve" => access = granted

=============================================================================
