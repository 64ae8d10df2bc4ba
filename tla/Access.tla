------------------------------- MODULE Access -------------------------------
(***************************************************************************)
(* Users, their roles and invitations, apps, who is granted them, the      *)
(* tokens and deployments made for them, and what is left when an app is   *)
(* deleted.  Each table, the directory of an app and the content cache are *)
(* changed by separate statements: nothing is a transaction, and           *)
(* app_access and app_tokens have no foreign keys.                         *)
(*                                                                         *)
(* Actors: the requests of the admin UI, the task that handles             *)
(* registration events, the create-admin command, and whoever registers.   *)
(* A request reads the role of its user in require_auth, and its app in    *)
(* AppContext, once, before it acts.                                       *)
(*                                                                         *)
(* Abstractions.  A user stands for the email too.  Statements of the      *)
(* database do not fail.  The content of an app is the set of apps its     *)
(* documents were saved for: what may be left is what another app wrote.   *)
(* Names, passwords, sessions and pages are left out.  The user, role,     *)
(* invitation and token tables belong to the library allowthem.            *)
(***************************************************************************)
EXTENDS Naturals, Sequences, FiniteSetsExt

CONSTANTS
  Users,       \* everyone who may have an account
  Slugs,       \* slugs of apps
  Default,     \* the slug of the app that always exists
  Workers,     \* requests that run at once
  FirstApps,   \* apps at the beginning
  Scenarios,   \* bound: the administrators there are at the beginning, with
               \* the kinds of requests that are made
  MaxRequests, \* bound: requests, public registrations included
  MaxCrashes   \* bound: crashes of the server

Roles == {"admin", "editor", "viewer"}
AllKinds == {"invite", "uninvite", "role", "remove", "app", "access",
             "token", "revoke", "save", "deploy", "drop"}

ASSUME AccessAssumption ==
  /\ Default \in FirstApps /\ FirstApps \subseteq Slugs /\ IsFiniteSet(FirstApps)
  /\ IsFiniteSet(Users)
  /\ Users \intersect {"idle", "none found", "done"} = {}
  /\ Scenarios \subseteq (SUBSET Users) \X (SUBSET AllKinds)
  /\ MaxRequests \in Nat /\ MaxCrashes \in Nat

VARIABLES
  account,  \* "none", "live" or "deleted", for each user
  roles,    \* the roles of each user
  invites,  \* pending invitations: user and role
  events,   \* registration events nobody has handled
  handler,  \* the task that handles them
  setup,    \* the create-admin command
  apps,     \* the id of the app at each slug, 0 for none
  nextId,   \* the AUTOINCREMENT sequence of the table apps
  grants,   \* app_access: ids of apps and users
  keys,     \* allowthem's tokens and who owns them
  scopes,   \* app_tokens: the app of each token
  deploys,  \* deployments of the audit database, with their tasks
  disk,     \* what is in the directory of each slug
  cache,    \* what is in the content cache under each slug
  job,      \* what each request does
  \* History variables.
  era,       \* how many requests had begun when the app of a slug was created
  asked,     \* the roles each user should have
  blurred,   \* users whose role was changed by two actors at once
  headless,  \* a first administrator may be missing, see AnAdministrator
  wanted,    \* the grants there should be
  contested, \* grants that two actors changed at once
  spoiled,   \* slugs written by two actors while their app was deleted
  agenda, requests, crashes

people == <<account, roles, invites, events, handler, setup>>
tables == <<apps, nextId, grants, keys, scopes, deploys>>
content == <<disk, cache>>
counters == <<agenda, requests, crashes>>
vars == <<people, tables, content, job, era, asked, blurred, headless,
          wanted, contested, spoiled, counters>>

Live == {u \in Users : account[u] = "live"}
AppIds == {apps[s] : s \in Slugs} \ {0}
Idle == [pc |-> "idle"]

-----------------------------------------------------------------------------
(* Roles and grants as the middlewares read them.                          *)

Level == [admin |-> 3, editor |-> 2, viewer |-> 1]

\* The role of a user is the highest it has.
HasRole(u, least) == \E r \in roles[u] : Level[r] >= Level[least]

\* Administrators have every app; the others need a grant.
MayOpen(u, s) ==
  apps[s] # 0 /\ ("admin" \in roles[u] \/ <<apps[s], u>> \in grants)

-----------------------------------------------------------------------------
(* What the history variables call an overlap.                             *)

Busy(w, pcs) == job[w].pc \in pcs

Changing(u) ==
  \E w \in Workers : Busy(w, {"unassign", "assign"}) /\ job[w].target = u

Registering(u) ==
  \/ \E i \in DOMAIN events : events[i].user = u
  \/ handler.pc # "idle" /\ handler.user = u

\* The first user, while nobody has seen that it is the first.
Uncounted ==
  {u \in Users : /\ "admin" \in asked[u]
                 /\ \/ \E i \in DOMAIN events :
                         events[i] = [user |-> u, source |-> "password"]
                    \/ handler.pc = "count" /\ handler.user = u}

Granting(w, id) == Busy(w, {"check", "write"}) /\ job[w].id = id

Dropping(s) ==
  {w \in Workers : Busy(w, {"cancel", "row", "dir", "cached"}) /\ job[w].slug = s}

Go(w, pc) == job' = [job EXCEPT ![w].pc = pc]
Finish(w) == job' = [job EXCEPT ![w] = Idle]

-----------------------------------------------------------------------------
(* Registration.  The library creates the user and sends the event; the    *)
(* channel is in memory and not bounded.                                   *)

Create(u, want) ==
  /\ account[u] = "none"
  /\ account' = [account EXCEPT ![u] = "live"]
  /\ asked' = [asked EXCEPT ![u] = want]
  /\ blurred' = blurred \union Uncounted

Register(u) ==
  /\ requests < MaxRequests /\ requests' = requests + 1
  /\ Create(u, IF Live = {} THEN {"admin"} ELSE {})
  /\ headless' = (headless \/ Uncounted # {})
  /\ events' = Append(events, [user |-> u, source |-> "password"])
  /\ UNCHANGED <<roles, invites, handler, setup, tables, content, job, era,
                 wanted, contested, spoiled, agenda, crashes>>

AcceptInvitation(u, role) ==
  /\ <<u, role>> \in invites
  /\ Create(u, {role})
  /\ headless' = (headless \/ Uncounted # {})
  /\ invites' = invites \ {<<u, role>>}
  /\ events' = Append(events, [user |-> u, source |-> role])
  /\ UNCHANGED <<roles, handler, setup, tables, content, job, era, wanted,
                 contested, spoiled, counters>>

TakeEvent ==
  /\ handler.pc = "idle" /\ events # <<>>
  /\ handler' = [pc |-> CASE Head(events).source = "password" -> "count"
                          [] Head(events).source = "admin" -> "assign"
                          [] OTHER -> "list",
                 user |-> Head(events).user, role |-> Head(events).source, todo |-> {}]
  /\ events' = Tail(events)
  /\ UNCHANGED <<account, roles, invites, setup, tables, content, job, era,
                 asked, blurred, headless, wanted, contested, spoiled, counters>>

CountUsers ==
  /\ handler.pc = "count"
  /\ handler' = IF Cardinality(Live) = 1
                  THEN [handler EXCEPT !.pc = "assign", !.role = "admin"] ELSE Idle
  /\ UNCHANGED <<account, roles, invites, events, setup, tables, content, job,
                 era, asked, blurred, headless, wanted, contested, spoiled, counters>>

ListApps ==
  /\ handler.pc = "list"
  /\ handler' = [handler EXCEPT !.pc = "grant", !.todo = AppIds]
  /\ wanted' = wanted \union (AppIds \X {handler.user})
  /\ UNCHANGED <<account, roles, invites, events, setup, tables, content, job,
                 era, asked, blurred, headless, contested, spoiled, counters>>

GrantInvited ==
  /\ handler.pc = "grant"
  /\ \E id \in handler.todo :
       /\ grants' = grants \union {<<id, handler.user>>}
       /\ handler' = [handler EXCEPT !.todo = @ \ {id},
                        !.pc = IF handler.todo = {id} THEN "assign" ELSE "grant"]
       /\ contested' = IF \E w \in Workers : Granting(w, id)
                         THEN contested \union {<<id, handler.user>>} ELSE contested
  /\ UNCHANGED <<account, roles, invites, events, setup, apps, nextId, keys,
                 scopes, deploys, content, job, era, asked, blurred, headless,
                 wanted, spoiled, counters>>

AssignRole ==
  /\ handler.pc = "assign"
  /\ roles' = [roles EXCEPT ![handler.user] =
                 IF handler.user \in Live THEN @ \union {handler.role} ELSE {}]
  /\ blurred' = IF Changing(handler.user) THEN blurred \union {handler.user} ELSE blurred
  /\ handler' = Idle
  /\ UNCHANGED <<account, invites, events, setup, tables, content, job, era,
                 asked, headless, wanted, contested, spoiled, counters>>

-----------------------------------------------------------------------------
(* The create-admin command: a process of its own, next to the server.     *)

SetupCheck ==
  /\ setup = "idle" /\ Live = {}
  /\ setup' = "none found"
  /\ UNCHANGED <<account, roles, invites, events, handler, tables, content, job,
                 era, asked, blurred, headless, wanted, contested, spoiled, counters>>

SetupCreate(u) ==
  /\ setup = "none found"
  /\ Create(u, {"admin"})
  /\ setup' = u
  /\ UNCHANGED <<roles, invites, events, handler, tables, content, job, era,
                 headless, wanted, contested, spoiled, counters>>

SetupAssign ==
  /\ setup \in Users
  /\ roles' = [roles EXCEPT ![setup] = IF setup \in Live THEN @ \union {"admin"} ELSE {}]
  /\ blurred' = IF Changing(setup) THEN blurred \union {setup} ELSE blurred
  /\ setup' = "done"
  /\ UNCHANGED <<account, invites, events, handler, tables, content, job, era,
                 asked, headless, wanted, contested, spoiled, counters>>

\* The command ends before it assigned the role.
SetupKilled ==
  /\ setup \in Users
  /\ setup' = "done" /\ headless' = TRUE /\ blurred' = blurred \union {setup}
  /\ UNCHANGED <<account, roles, invites, events, handler, tables, content, job,
                 era, asked, wanted, contested, spoiled, counters>>

-----------------------------------------------------------------------------
(* A request of u begins: require_auth reads the role of its user, the     *)
(* handler checks it, and AppContext finds the app and checks the grant.   *)

Admit(w, u, kind, least, start) ==
  /\ kind \in agenda /\ job[w] = Idle /\ requests < MaxRequests
  /\ u \in Live /\ HasRole(u, least)
  /\ job' = [job EXCEPT ![w] = start]
  /\ requests' = requests + 1
  /\ UNCHANGED <<people, tables, content, era, asked, blurred, headless, wanted,
                 contested, spoiled, agenda, crashes>>

InviteUser(w, u) ==
  \E v \in Users, r \in Roles :
    /\ account[v] # "deleted"
    /\ Admit(w, u, "invite", "admin", [pc |-> "pending", target |-> v, role |-> r])

DeleteInvitation(w, u) ==
  \E v \in invites : Admit(w, u, "uninvite", "admin", [pc |-> "uninvite", invite |-> v])

\* Mutant: users may change and delete themselves.
OthersAndSelf(u) == {v \in Users : account[v] # "none"}

\* The others that have, or had, an account: the page lists no one else.
Others(u) == {v \in Users \ {u} : account[v] # "none"}

ChangeUserRole(w, u) ==
  \E v \in Others(u), r \in Roles :
    Admit(w, u, "role", "admin",
          [pc |-> "roles", by |-> u, target |-> v, role |-> r, todo |-> {}])

DeleteUser(w, u) ==
  \E v \in Others(u) :
    Admit(w, u, "remove", "admin", [pc |-> "remove", by |-> u, target |-> v])

CreateApp(w, u) ==
  \E s \in Slugs : Admit(w, u, "app", "admin", [pc |-> "insert", slug |-> s])

\* A request about an app of S.
InApp(w, u, S, kind, least, pc) ==
  \E s \in S :
    /\ MayOpen(u, s)
    /\ Admit(w, u, kind, least,
             [pc |-> pc, slug |-> s, id |-> apps[s], era |-> era[s], by |-> u])

\* The form of update_access names those who shall have the app.
UpdateAccess(w, u) ==
  \E s \in Slugs, granted \in SUBSET Live :
    /\ MayOpen(u, s)
    /\ Admit(w, u, "access", "admin",
             [pc |-> "list", id |-> apps[s], granted |-> granted, todo |-> {}])

CreateToken(w, u) == InApp(w, u, Slugs, "token", "editor", "key")

\* The page lists the tokens of the app: one of them is chosen.
DeleteToken(w, u) ==
  \E s \in Slugs, k \in scopes :
    /\ MayOpen(u, s) /\ k.app = apps[s]
    /\ Admit(w, u, "revoke", "editor", [pc |-> "unkey", token |-> k.token])

SaveEntry(w, u) == InApp(w, u, Slugs, "save", "editor", "file")
CreateDeployment(w, u) == InApp(w, u, Slugs, "deploy", "admin", "deploy")

\* Mutant: the default app is deleted like any other.
DeleteAnyApp(w, u) == InApp(w, u, Slugs, "drop", "admin", "cancel")

DeleteApp(w, u) == InApp(w, u, Slugs \ {Default}, "drop", "admin", "cancel")

-----------------------------------------------------------------------------
(* Invitations.                                                            *)

\* The email must have neither an account nor a pending invitation.
CheckPending(w) ==
  /\ Busy(w, {"pending"})
  /\ IF job[w].target \in Live \/ \E r \in Roles : <<job[w].target, r>> \in invites
       THEN Finish(w) ELSE Go(w, "invite")
  /\ UNCHANGED <<people, tables, content, era, asked, blurred, headless, wanted,
                 contested, spoiled, counters>>

CreateInvitation(w) ==
  /\ Busy(w, {"invite"})
  /\ invites' = invites \union {<<job[w].target, job[w].role>>}
  /\ Finish(w)
  /\ UNCHANGED <<account, roles, events, handler, setup, tables, content, era,
                 asked, blurred, headless, wanted, contested, spoiled, counters>>

RevokeInvitation(w) ==
  /\ Busy(w, {"uninvite"})
  /\ invites' = invites \ {job[w].invite}
  /\ Finish(w)
  /\ UNCHANGED <<account, roles, events, handler, setup, tables, content, era,
                 asked, blurred, headless, wanted, contested, spoiled, counters>>

-----------------------------------------------------------------------------
(* Roles and the removal of users.                                         *)

\* The request acts although its user is no administrator any more.
Outranked(w) == job[w].by \notin Live \/ "admin" \notin roles[job[w].by]

\* Mutant: the roles the user has are not read.
ReadRolesForgotten(w) ==
  /\ Busy(w, {"roles"})
  /\ job' = [job EXCEPT ![w].pc = "unassign"]
  /\ asked' = [asked EXCEPT ![job[w].target] = {job[w].role}]
  /\ UNCHANGED <<people, tables, content, era, blurred, headless, wanted, contested,
                 spoiled, counters>>

ReadRoles(w) ==
  /\ Busy(w, {"roles"})
  /\ job' = [job EXCEPT ![w] = [@ EXCEPT !.pc = "unassign", !.todo = roles[job[w].target]]]
  /\ asked' = [asked EXCEPT ![job[w].target] = {job[w].role}]
  /\ blurred' = IF Changing(job[w].target) \/ Registering(job[w].target)
                     \/ setup = job[w].target
                  THEN blurred \union {job[w].target} ELSE blurred
  /\ UNCHANGED <<people, tables, content, era, headless, wanted, contested,
                 spoiled, counters>>

UnassignRole(w) ==
  /\ Busy(w, {"unassign"})
  /\ IF job[w].todo = {}
       THEN Go(w, "assign") /\ UNCHANGED <<roles, headless>>
       ELSE \E r \in job[w].todo :
              /\ roles' = [roles EXCEPT ![job[w].target] = @ \ {r}]
              /\ headless' = (headless \/ (r = "admin" /\ Outranked(w)))
              /\ job' = [job EXCEPT ![w].todo = @ \ {r}]
  /\ UNCHANGED <<account, invites, events, handler, setup, tables, content, era,
                 asked, blurred, wanted, contested, spoiled, counters>>

AssignNewRole(w) ==
  /\ Busy(w, {"assign"})
  /\ roles' = [roles EXCEPT ![job[w].target] =
                 IF job[w].target \in Live THEN @ \union {job[w].role} ELSE {}]
  /\ Finish(w)
  /\ UNCHANGED <<account, invites, events, handler, setup, tables, content, era,
                 asked, blurred, headless, wanted, contested, spoiled, counters>>

\* The sessions, the user, and with it its roles and tokens.
RemoveUser(w) ==
  /\ Busy(w, {"remove"})
  /\ IF job[w].target \in Live
       THEN /\ account' = [account EXCEPT ![job[w].target] = "deleted"]
            /\ roles' = [roles EXCEPT ![job[w].target] = {}]
            /\ keys' = {k \in keys : k.owner # job[w].target}
       ELSE UNCHANGED <<account, roles, keys>>
  /\ headless' = (headless \/ (Outranked(w) /\ "admin" \in roles[job[w].target]))
  /\ blurred' = IF Outranked(w) THEN blurred \union {u \in Users : Registering(u)} ELSE blurred
  /\ Finish(w)
  /\ UNCHANGED <<invites, events, handler, setup, apps, nextId, grants, scopes,
                 deploys, content, era, asked, wanted, contested, spoiled, counters>>

-----------------------------------------------------------------------------
(* Apps.                                                                   *)

\* Mutant: the next id is one more than the largest there is.
NewIdReused == 1 + Max(AppIds)

\* An id is one no app ever had.
NewId == nextId

\* The slug is unique.
InsertApp(w) ==
  LET s == job[w].slug IN
  /\ Busy(w, {"insert"})
  /\ IF apps[s] # 0 THEN UNCHANGED <<apps, nextId, era, wanted, contested, spoiled>>
       ELSE /\ apps' = [apps EXCEPT ![s] = NewId]
            /\ nextId' = nextId + 1
            /\ era' = [era EXCEPT ![s] = requests]
            /\ wanted' = {g \in wanted : g[1] # NewId}
            /\ contested' = {g \in contested : g[1] # NewId}
            /\ spoiled' = IF Dropping(s) # {} THEN spoiled \union {s} ELSE spoiled
  /\ Finish(w)
  /\ UNCHANGED <<people, grants, keys, scopes, deploys, content, asked, blurred,
                 headless, counters>>

\* All users, as they are now; their grants are compared one by one.
ListUsers(w) ==
  LET id == job[w].id
      others == {v \in Workers \ {w} : Granting(v, id)}
      given == {u \in Live : handler.pc = "grant" /\ handler.user = u /\ id \in handler.todo}
  IN
  /\ Busy(w, {"list"})
  /\ job' = [job EXCEPT ![w] = [@ EXCEPT !.pc = "check", !.todo = Live]]
  /\ wanted' = {g \in wanted : g[1] # id \/ g[2] \notin Live}
                  \union ({id} \X (job[w].granted \intersect Live))
  /\ contested' = contested \union ({id} \X (IF others # {} THEN Users ELSE given))
  /\ UNCHANGED <<people, tables, content, era, asked, blurred, headless, spoiled,
                 counters>>

\* Mutant: a grant of any app counts.
HasInAnyApp(id, u) == \E g \in grants : g[2] = u

Has(id, u) == <<id, u>> \in grants

CheckGrant(w) ==
  /\ Busy(w, {"check"})
  /\ IF job[w].todo = {} THEN Finish(w)
       ELSE \E u \in job[w].todo :
              job' = [job EXCEPT ![w] =
                IF Has(@.id, u) = (u \in @.granted)
                  THEN [@ EXCEPT !.todo = job[w].todo \ {u}]
                  ELSE [pc |-> "write", id |-> @.id, granted |-> @.granted,
                        todo |-> @.todo, user |-> u]]
  /\ UNCHANGED <<people, tables, content, era, asked, blurred, headless, wanted,
                 contested, spoiled, counters>>

WriteGrant(w) ==
  LET g == <<job[w].id, job[w].user>> IN
  /\ Busy(w, {"write"})
  /\ grants' = IF job[w].user \in job[w].granted THEN grants \union {g} ELSE grants \ {g}
  /\ job' = [job EXCEPT ![w] = [pc |-> "check", id |-> @.id, granted |-> @.granted,
                                todo |-> @.todo \ {@.user}]]
  /\ UNCHANGED <<people, apps, nextId, keys, scopes, deploys, content, era, asked,
                 blurred, headless, wanted, contested, spoiled, counters>>

\* A token is a key of the library and the app it is scoped to.
CreateKey(w) ==
  /\ Busy(w, {"key"})
  /\ IF job[w].by \in Live
       THEN /\ keys' = keys \union {[token |-> <<w, requests>>, owner |-> job[w].by]}
            /\ job' = [job EXCEPT ![w] = [pc |-> "scope", token |-> <<w, requests>>,
                                         id |-> @.id, era |-> @.era]]
       ELSE Finish(w) /\ UNCHANGED keys
  /\ UNCHANGED <<people, apps, nextId, grants, scopes, deploys, content, era, asked,
                 blurred, headless, wanted, contested, spoiled, counters>>

ScopeKey(w) ==
  /\ Busy(w, {"scope"})
  /\ scopes' = scopes \union {[token |-> job[w].token, app |-> job[w].id,
                               era |-> job[w].era]}
  /\ Finish(w)
  /\ UNCHANGED <<people, apps, nextId, grants, keys, deploys, content, era, asked,
                 blurred, headless, wanted, contested, spoiled, counters>>

DeleteKey(w) ==
  /\ Busy(w, {"unkey"})
  /\ keys' = {k \in keys : k.token # job[w].token}
  /\ Go(w, "unscope")
  /\ UNCHANGED <<people, apps, nextId, grants, scopes, deploys, content, era, asked,
                 blurred, headless, wanted, contested, spoiled, counters>>

DeleteScope(w) ==
  /\ Busy(w, {"unscope"})
  /\ scopes' = {k \in scopes : k.token # job[w].token}
  /\ Finish(w)
  /\ UNCHANGED <<people, apps, nextId, grants, keys, deploys, content, era, asked,
                 blurred, headless, wanted, contested, spoiled, counters>>

\* What a request writes after its app was deleted, or while it is.
Spoil(s, id) == IF Dropping(s) # {} \/ apps[s] # id THEN spoiled \union {s} ELSE spoiled

WriteFile(w) ==
  /\ Busy(w, {"file"})
  /\ disk' = [disk EXCEPT ![job[w].slug] = @ \union {job[w].era}]
  /\ spoiled' = Spoil(job[w].slug, job[w].id)
  /\ Go(w, "reload")
  /\ UNCHANGED <<people, tables, cache, era, asked, blurred, headless, wanted,
                 contested, counters>>

\* reload_entry inserts what it finds in the file, or removes the key.
ReloadEntry(w) ==
  /\ Busy(w, {"reload"})
  /\ cache' = [cache EXCEPT ![job[w].slug] =
                 (@ \ {job[w].era}) \union (disk[job[w].slug] \intersect {job[w].era})]
  /\ spoiled' = Spoil(job[w].slug, job[w].id)
  /\ Finish(w)
  /\ UNCHANGED <<people, tables, disk, era, asked, blurred, headless, wanted,
                 contested, counters>>

InsertDeployment(w) ==
  /\ Busy(w, {"deploy"})
  /\ deploys' = deploys \union {[app |-> job[w].id, slug |-> job[w].slug]}
  /\ spoiled' = Spoil(job[w].slug, job[w].id)
  /\ Finish(w)
  /\ UNCHANGED <<people, apps, nextId, grants, keys, scopes, content, era, asked,
                 blurred, headless, wanted, contested, counters>>

\* The deployments listed are cancelled and deleted one after the other.
CancelDeployments(w) ==
  /\ Busy(w, {"cancel"})
  /\ deploys' = {d \in deploys : d.app # job[w].id}
  /\ Go(w, "row")
  /\ UNCHANGED <<people, apps, nextId, grants, keys, scopes, content, era, asked,
                 blurred, headless, wanted, contested, spoiled, counters>>

DeleteRow(w) ==
  /\ Busy(w, {"row"})
  /\ apps' = [s \in Slugs |-> IF apps[s] = job[w].id THEN 0 ELSE apps[s]]
  /\ Go(w, "dir")
  /\ UNCHANGED <<people, nextId, grants, keys, scopes, deploys, content, era, asked,
                 blurred, headless, wanted, contested, spoiled, counters>>

RemoveDirectory(w) ==
  /\ Busy(w, {"dir"})
  /\ disk' = [disk EXCEPT ![job[w].slug] = {}]
  /\ Go(w, "cached")
  /\ UNCHANGED <<people, tables, cache, era, asked, blurred, headless, wanted,
                 contested, spoiled, counters>>

RemoveCached(w) ==
  /\ Busy(w, {"cached"})
  /\ cache' = [cache EXCEPT ![job[w].slug] = {}]
  /\ Finish(w)
  /\ UNCHANGED <<people, tables, disk, era, asked, blurred, headless, wanted,
                 contested, spoiled, counters>>

-----------------------------------------------------------------------------
(* The server stops and starts: requests and events are gone, and the      *)
(* cache is filled from every directory, with or without its app.          *)

Populate == cache' = disk

Crash ==
  LET writing == {w \in Workers : Busy(w, {"check", "write"})} IN
  /\ crashes < MaxCrashes
  /\ crashes' = crashes + 1
  /\ job' = [w \in Workers |-> Idle]
  /\ events' = <<>> /\ handler' = Idle
  /\ Populate
  /\ headless' = (headless \/ Uncounted # {}
                    \/ (handler.pc = "assign" /\ handler.role = "admin"))
  /\ blurred' = blurred \union {u \in Users : Registering(u) \/ Changing(u)}
  /\ contested' = contested \union (UNION {{job[w].id} \X Users : w \in writing})
                     \union (IF handler.pc = "grant" THEN handler.todo \X {handler.user} ELSE {})
  /\ spoiled' = spoiled \union {job[w].slug : w \in {v \in Workers : Busy(v, {"dir"})}}
  /\ UNCHANGED <<account, roles, invites, setup, tables, disk, era, asked, wanted,
                 agenda, requests>>

-----------------------------------------------------------------------------
Init ==
  /\ \E scenario \in Scenarios :
       /\ agenda = scenario[2]
       /\ account = [u \in Users |-> IF u \in scenario[1] THEN "live" ELSE "none"]
       /\ roles = [u \in Users |-> IF u \in scenario[1] THEN {"admin"} ELSE {}]
  /\ invites = {} /\ events = <<>> /\ handler = Idle /\ setup = "idle"
  /\ apps \in {f \in [Slugs -> 0..Cardinality(FirstApps)] :
                 /\ \A s \in Slugs : f[s] = 0 <=> s \notin FirstApps
                 /\ \A s, t \in FirstApps : f[s] = f[t] => s = t}
  /\ nextId = 1 + Cardinality(FirstApps)
  /\ grants = {} /\ keys = {} /\ scopes = {} /\ deploys = {}
  /\ disk = [s \in Slugs |-> {}] /\ cache = [s \in Slugs |-> {}]
  /\ job = [w \in Workers |-> Idle]
  /\ era = [s \in Slugs |-> 0]
  /\ asked = roles /\ blurred = {} /\ headless = FALSE
  /\ wanted = {} /\ contested = {} /\ spoiled = {}
  /\ requests = 0 /\ crashes = 0

Registration ==
  \/ \E u \in Users : Register(u)
  \/ \E u \in Users, r \in Roles : AcceptInvitation(u, r)
  \/ TakeEvent \/ CountUsers \/ ListApps \/ GrantInvited \/ AssignRole

CreateAdmin ==
  SetupCheck \/ (\E u \in Users : SetupCreate(u)) \/ SetupAssign \/ SetupKilled

Begin(w, u) ==
  \/ InviteUser(w, u) \/ DeleteInvitation(w, u) \/ ChangeUserRole(w, u)
  \/ DeleteUser(w, u) \/ CreateApp(w, u) \/ UpdateAccess(w, u) \/ CreateToken(w, u)
  \/ DeleteToken(w, u) \/ SaveEntry(w, u) \/ CreateDeployment(w, u) \/ DeleteApp(w, u)

Step(w) ==
  \/ CheckPending(w) \/ CreateInvitation(w) \/ RevokeInvitation(w)
  \/ ReadRoles(w) \/ UnassignRole(w) \/ AssignNewRole(w) \/ RemoveUser(w)
  \/ InsertApp(w) \/ ListUsers(w) \/ CheckGrant(w) \/ WriteGrant(w)
  \/ CreateKey(w) \/ ScopeKey(w) \/ DeleteKey(w) \/ DeleteScope(w)
  \/ WriteFile(w) \/ ReloadEntry(w) \/ InsertDeployment(w)
  \/ CancelDeployments(w) \/ DeleteRow(w) \/ RemoveDirectory(w) \/ RemoveCached(w)

Next ==
  \/ Registration \/ CreateAdmin \/ Crash
  \/ \E w \in Workers : Step(w) \/ \E u \in Users : Begin(w, u)

Spec == Init /\ [][Next]_vars

-----------------------------------------------------------------------------
(* Type invariant: the tables hold what their columns may hold, and only a *)
(* live user has a role or a token; events are of users that registered;   *)
(* there always is a default app.                                          *)
TypeOK ==
  /\ account \in [Users -> {"none", "live", "deleted"}]
  /\ roles \in [Users -> SUBSET Roles]
  /\ \A u \in Users \ Live : roles[u] = {}
  /\ invites \subseteq Users \X Roles
  /\ \A i \in DOMAIN events : account[events[i].user] # "none"
  /\ apps \in [Slugs -> Nat] /\ nextId \in Nat
  /\ \A s \in Slugs : apps[s] < nextId
  /\ grants \subseteq (1..nextId) \X Users
  /\ \A k \in keys : k.owner \in Live
  /\ apps[Default] # 0

Settled == events = <<>> /\ handler = Idle /\ setup \notin Users

\* Where there are users there is an administrator, once the registration
\* events are handled: the first user becomes one, and no administrator
\* changes their own role or deletes themself.  What the code does not exclude:
\* another user registers, or the server stops, before the first one's event
\* is handled; create-admin is ended before it assigned the role; a request
\* takes a role, or deletes, after its own user stopped being an administrator.
AnAdministrator ==
  Settled /\ Live # {} /\ ~headless => \E u \in Live : "admin" \in roles[u]

\* A user at rest has the role it was invited with, or that was last given to
\* it, and no other: change_user_role takes away all that it had.  Except
\* when two actors change the role of one user at once, a crash or the end of
\* create-admin interrupts one that does, or the number of users changes
\* before the event of a registration is handled: another registers before
\* the first is counted, or an actor whose rank was taken deletes one.
RolesAsAsked ==
  \A u \in Live \ blurred :
    ~Registering(u) /\ ~Changing(u) /\ setup # u => roles[u] = asked[u]

\* The grants of an app are those its last form asked for, and those of the
\* users invited since, except those that two actors changed at once, and what
\* a crash interrupted.
AccessAsAsked ==
  \A s \in Slugs, u \in Live :
    LET g == <<apps[s], u>> IN
      apps[s] # 0 /\ g \notin contested /\ ~Registering(u)
                  /\ ~(\E w \in Workers : Granting(w, apps[s]))
        => (g \in grants <=> g \in wanted)

\* An app has nothing of a former app with its slug or its id: no documents on
\* disk or in the cache, no tokens; and what has no app any more has no
\* deployments.  Except for slugs written to, or created, by one request while
\* another deletes their app, and deletions a crash interrupted.
NothingInherited ==
  \A s \in Slugs \ spoiled :
    /\ apps[s] # 0 => disk[s] \union cache[s] \subseteq {era[s]}
    /\ \A k \in scopes : apps[s] # 0 /\ k.app = apps[s] => k.era = era[s]
    /\ \A d \in deploys : d.slug = s => d.app = apps[s]
=============================================================================
