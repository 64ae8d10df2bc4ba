---------------------------- MODULE Access_proofs ----------------------------
(***************************************************************************)
(* Proofs about Access: whatever requests, registrations and the           *)
(* create-admin command overlap, and wherever the server stops, there is   *)
(* an administrator, users have the roles and the apps they were given     *)
(* last, and an app inherits nothing of a former one, but for the overlaps *)
(* the model excuses.  The proof of each part of the invariant has one     *)
(* step per action.                                                        *)
(***************************************************************************)
EXTENDS Access, FiniteSetTheorems, TLAPS

\* The ids apps have had.
Ids == 1..(nextId - 1)

\* What a request holds at each of its steps, and the task, and an event.
Job ==
  [pc : {"idle"}]
  \union [pc : {"pending", "invite"}, target : Users, role : Roles]
  \union [pc : {"uninvite"}, invite : Users \X Roles]
  \union [pc : {"roles", "unassign", "assign"}, by : Users, target : Users,
          role : Roles, todo : SUBSET Roles]
  \union [pc : {"remove"}, by : Users, target : Users]
  \union [pc : {"insert"}, slug : Slugs]
  \union [pc : {"list", "check"}, id : Nat, granted : SUBSET Users,
          todo : SUBSET Users]
  \union [pc : {"write"}, id : Nat, granted : SUBSET Users,
          todo : SUBSET Users, user : Users]
  \union [pc : {"key", "file", "reload", "deploy", "cancel", "row", "dir", "cached"},
          slug : Slugs, id : Nat, era : Nat, by : Users]
  \union [pc : {"scope"}, token : Workers \X Nat, id : Nat, era : Nat]
  \union [pc : {"unkey", "unscope"}, token : Workers \X Nat]
Handler ==
  [pc : {"idle"}]
  \union [pc : {"count", "list", "grant", "assign"}, user : Users,
          role : Roles \union {"password"}, todo : SUBSET Nat]
Event == [user : Users, source : Roles \union {"password"}]

\* The requests that change a role, or remove, and those about an app's id.
Personal == {"roles", "unassign", "assign", "remove"}
Drops == {"cancel", "row", "dir", "cached"}
OfAnApp == {"key", "file", "reload", "deploy"} \union Drops
WithId == {"list", "check", "write", "scope"} \union OfAnApp

JobsTyped == job \in [Workers -> Job]

PeopleTyped ==
  /\ account \in [Users -> {"none", "live", "deleted"}]
  /\ roles \in [Users -> SUBSET Roles] /\ \A u \in Users \ Live : roles[u] = {}
  /\ invites \subseteq Users \X Roles
  /\ events \in Seq(Event) /\ handler \in Handler
  /\ \A i \in DOMAIN events : account[events[i].user] # "none"
  /\ setup \in {"idle", "none found", "done"} \union Users
  /\ asked \in [Users -> SUBSET Roles] /\ blurred \subseteq Users
  /\ headless \in BOOLEAN

TablesTyped ==
  /\ apps \in [Slugs -> Nat] /\ nextId \in Nat /\ nextId > 0
  /\ apps[Default] # 0 /\ \A s \in Slugs : apps[s] < nextId
  /\ grants \subseteq Ids \X Users /\ wanted \subseteq Ids \X Users
  /\ contested \subseteq Ids \X Users
  /\ keys \subseteq [token : Workers \X Nat, owner : Users]
  /\ \A k \in keys : k.owner \in Live
  /\ scopes \subseteq [token : Workers \X Nat, app : Ids, era : Nat]
  /\ deploys \subseteq [app : Ids, slug : Slugs]

ContentTyped ==
  /\ disk \in [Slugs -> SUBSET Nat] /\ cache \in [Slugs -> SUBSET Nat]
  /\ era \in [Slugs -> Nat] /\ spoiled \subseteq Slugs
  /\ requests \in Nat /\ crashes \in Nat

TypeInv == JobsTyped /\ PeopleTyped /\ TablesTyped /\ ContentTyped

\* What the jobs and the task refer to.
HoldsOf(w) ==
  /\ Busy(w, Personal) =>
       account[job[w].target] # "none" /\ job[w].by # job[w].target
  /\ Busy(w, WithId) => job[w].id \in Ids
  /\ Busy(w, Drops) => job[w].slug # Default
  /\ Busy(w, {"list", "check", "write"}) =>
       \A u \in job[w].granted \union job[w].todo : account[u] # "none"
  /\ Busy(w, {"write"}) => job[w].user \in job[w].todo

TaskHolds ==
  /\ handler.pc = "grant" => handler.todo \subseteq Ids
  /\ handler.pc \in {"list", "grant"} => handler.role \in {"editor", "viewer"}
  /\ handler.pc = "assign" => handler.role \in Roles

HoldsInv == TaskHolds /\ \A w \in Workers : HoldsOf(w)

\* A user registers once, and not while create-admin creates it.
OnceInv ==
  /\ \A i, j \in DOMAIN events : i # j => events[i].user # events[j].user
  /\ handler.pc # "idle" =>
       \A i \in DOMAIN events : events[i].user # handler.user
  /\ \A u \in Users : Registering(u) => account[u] # "none" /\ setup # u
  /\ setup \in Users => account[setup] # "none"

\* Between its registration and the moment its users are counted.
Awaiting(u) ==
  \/ \E i \in DOMAIN events : events[i] = [user |-> u, source |-> "password"]
  \/ handler.pc = "count" /\ handler.user = u

Changer(w, u) == Busy(w, {"unassign", "assign"}) /\ job[w].target = u

\* Who registers, or is created by create-admin, has no role yet.
Waits(u) == Registering(u) \/ setup = u => roles[u] = {} /\ ~Changing(u)

\* What the registration of u, or create-admin, will make of it.
Awaits(u) ==
  /\ Awaiting(u) => asked[u] = IF Live = {u} THEN {"admin"} ELSE {}
  /\ \A i \in DOMAIN events :
       events[i].user = u /\ events[i].source # "password" => asked[u] = {events[i].source}
  /\ handler.pc \in {"list", "grant", "assign"} /\ handler.user = u =>
       asked[u] = {handler.role}
  /\ setup = u => asked[u] = {"admin"}

\* One request changes its role, and has still to take away what it has.
Changes(u) ==
  \A w \in Workers : Changer(w, u) =>
    /\ asked[u] = {job[w].role}
    /\ roles[u] \subseteq (IF job[w].pc = "assign" THEN {} ELSE job[w].todo)
    /\ \A v \in Workers \ {w} : ~Changer(v, u)

Rests(u) == ~Registering(u) /\ ~Changing(u) /\ setup # u => roles[u] = asked[u]

RolesOf(u) == Waits(u) /\ Awaits(u) /\ Changes(u) /\ Rests(u)

RolesInv == \A u \in Live \ blurred : RolesOf(u)

\* Before there is an administrator nobody can do anything, and the first
\* user's event, or create-admin, will make one.
Powerless ==
  /\ invites = {} /\ \A w \in Workers : job[w] = Idle
  /\ \A u \in Users : roles[u] = {}
  /\ \A i \in DOMAIN events : events[i].source = "password"
  /\ handler.pc \in {"idle", "count"} \/ (handler.pc = "assign" /\ handler.role = "admin")

FirstToBe(u) ==
  \/ Live = {u} /\ asked[u] = {"admin"} /\ Awaiting(u)
  \/ handler.pc = "assign" /\ handler.user = u

Coming == Powerless /\ (Live = {} \/ setup \in Live \/ \E u \in Live : FirstToBe(u))

HasAdministrator == \E u \in Live : "admin" \in roles[u]

AdminInv == headless \/ HasAdministrator \/ Coming

\* Between its listing and its grant, an app the task will grant to u.
Opening(id, u) == handler.pc = "grant" /\ handler.user = u /\ id \in handler.todo

Promised(id, u) == Opening(id, u) => <<id, u>> \in wanted

\* What a form still compares is wanted as the form says.
Compares(id, u) ==
  \A w \in Workers : Granting(w, id) /\ u \in job[w].todo /\ ~Opening(id, u) =>
    (<<id, u>> \in wanted <=> u \in job[w].granted)

Settles(id, u) ==
  ~Opening(id, u) /\ (\A w \in Workers : Granting(w, id) => u \notin job[w].todo) =>
    (<<id, u>> \in grants <=> <<id, u>> \in wanted)

GrantOf(id, u) == Promised(id, u) /\ Compares(id, u) /\ Settles(id, u)

\* Two forms of one app contest all its grants.
OneForm ==
  \A id \in Ids : \A v, w \in Workers : v # w /\ Granting(v, id) /\ Granting(w, id) =>
    \A u \in Users : <<id, u>> \in contested

KnownUsers == \A id \in Ids, u \in Users :
                <<id, u>> \in grants \union wanted => account[u] # "none"

GrantsInv ==
  /\ OneForm /\ KnownUsers
  /\ \A id \in Ids, u \in Live : <<id, u>> \notin contested => GrantOf(id, u)

\* An id belongs to one slug and one time.
IdOf(w) ==
  \A s \in Slugs :
    /\ Busy(w, OfAnApp) /\ apps[s] = job[w].id => s = job[w].slug
    /\ Busy(w, OfAnApp \union {"scope"}) /\ apps[s] = job[w].id => job[w].era = era[s]

TablesAgree ==
  /\ \A s, t \in Slugs : apps[s] # 0 /\ apps[s] = apps[t] => s = t
  /\ \A k \in scopes, s \in Slugs : k.app = apps[s] => k.era = era[s]
  /\ \A d \in deploys, s \in Slugs : d.app = apps[s] => s = d.slug

IdsInv == TablesAgree /\ \A w \in Workers : IdOf(w)

\* What is left of the app of a slug while it is deleted.
OwnContent(s) == apps[s] # 0 => disk[s] \union cache[s] \subseteq {era[s]}

BeingRemoved(s) ==
  apps[s] = 0 =>
    /\ disk[s] # {} => \E w \in Dropping(s) : job[w].pc = "dir"
    /\ cache[s] # {} => \E w \in Dropping(s) : job[w].pc \in {"dir", "cached"}

OwnDeploys(s) ==
  \A d \in deploys : d.slug = s =>
    /\ d.app = apps[s]
    /\ \A w \in Dropping(s) : job[w].pc # "cancel" => d.app # job[w].id

LeftOf(s) == OwnContent(s) /\ BeingRemoved(s) /\ OwnDeploys(s)

LeftInv == \A s \in Slugs \ spoiled : LeftOf(s)

Inv == /\ TypeInv /\ HoldsInv /\ OnceInv /\ RolesInv /\ AdminInv
       /\ GrantsInv /\ IdsInv /\ LeftInv

-----------------------------------------------------------------------------
\* The type invariant of Access follows from the types used here.
LEMMA TypeOKHolds == TypeInv => TypeOK
<1> SUFFICES ASSUME TypeInv PROVE TypeOK
  OBVIOUS
<1>1. Ids \subseteq 1..nextId
  BY DEF TypeInv, TablesTyped, Ids
<1>2. grants \subseteq (1..nextId) \X Users
  BY <1>1 DEF TypeInv, TablesTyped
<1>3. /\ apps \in [Slugs -> Nat] /\ nextId \in Nat
      /\ \A k \in keys : k.owner \in Live
      /\ \A s \in Slugs : apps[s] < nextId
      /\ apps[Default] # 0
  BY DEF TypeInv, TablesTyped
<1> QED
  BY <1>2, <1>3 DEF TypeInv, PeopleTyped, TypeOK

\* A request, or the task, that has nothing to do is typed.
LEMMA IdleTyped == Idle \in Job /\ Idle \in Handler /\ Idle.pc = "idle"
BY DEF Idle, Job, Handler

\* The fields a job has at each of its steps.
LEMMA JobFields ==
  ASSUME NEW j \in Job
  PROVE  /\ j.pc = "idle" => j = Idle
         /\ j.pc \in {"pending", "invite"} => j.target \in Users /\ j.role \in Roles
         /\ j.pc = "uninvite" => j.invite \in Users \X Roles
         /\ j.pc \in Personal => j.by \in Users /\ j.target \in Users
         /\ j.pc \in {"roles", "unassign", "assign"} =>
              j.role \in Roles /\ j.todo \subseteq Roles
         /\ j.pc = "insert" => j.slug \in Slugs
         /\ j.pc \in {"list", "check", "write"} =>
              j.id \in Nat /\ j.granted \subseteq Users /\ j.todo \subseteq Users
         /\ j.pc = "write" => j.user \in Users
         /\ j.pc \in OfAnApp => /\ j.slug \in Slugs /\ j.id \in Nat
                                /\ j.era \in Nat /\ j.by \in Users
         /\ j.pc = "scope" => /\ j.token \in Workers \X Nat
                              /\ j.id \in Nat /\ j.era \in Nat
         /\ j.pc \in {"unkey", "unscope"} => j.token \in Workers \X Nat
BY DEF Job, Idle, Personal, OfAnApp, Drops

\* The pairs of steps of which the second follows the first.
Follows == {<<"pending", "invite">>, <<"unassign", "assign">>, <<"unkey", "unscope">>,
            <<"file", "reload">>, <<"cancel", "row">>, <<"row", "dir">>,
            <<"dir", "cached">>}

\* What a request keeps when it goes on to the next step.
LEMMA GoesOn ==
  ASSUME TypeInv, NEW w \in Workers, NEW p, Go(w, p), <<job[w].pc, p>> \in Follows
  PROVE  /\ job' \in [Workers -> Job]
         /\ \A v \in Workers \ {w} : job'[v] = job[v]
         /\ job'[w].pc = p
         /\ job[w].pc \in {"pending", "unassign"} =>
              job'[w].target = job[w].target /\ job'[w].role = job[w].role
         /\ job[w].pc = "unassign" =>
              job'[w].by = job[w].by /\ job'[w].todo = job[w].todo
         /\ job[w].pc = "unkey" => job'[w].token = job[w].token
         /\ job[w].pc \in OfAnApp =>
              /\ job'[w].slug = job[w].slug /\ job'[w].id = job[w].id
              /\ job'[w].era = job[w].era /\ job'[w].by = job[w].by
<1>1. job[w] \in Job /\ job' = [job EXCEPT ![w] = [job[w] EXCEPT !.pc = p]]
  BY DEF Go, TypeInv, JobsTyped
<1>2. /\ job'[w] = [job[w] EXCEPT !.pc = p]
      /\ \A v \in Workers \ {w} : job'[v] = job[v]
  BY <1>1 DEF TypeInv, JobsTyped
<1>3. CASE job[w].pc = "pending"
  BY <1>1, <1>2, <1>3 DEF Follows, Job, OfAnApp, Drops, TypeInv, JobsTyped
<1>4. CASE job[w].pc = "unassign"
  BY <1>1, <1>2, <1>4 DEF Follows, Job, OfAnApp, Drops, TypeInv, JobsTyped
<1>5. CASE job[w].pc = "unkey"
  BY <1>1, <1>2, <1>5 DEF Follows, Job, OfAnApp, Drops, TypeInv, JobsTyped
<1>6. CASE job[w].pc \in OfAnApp
  BY <1>1, <1>2, <1>6 DEF Follows, Job, OfAnApp, Drops, TypeInv, JobsTyped
<1> QED
  BY <1>3, <1>4, <1>5, <1>6 DEF Follows, OfAnApp, Drops

\* A request that ends is idle, and the others are as they were.
LEMMA Finishes ==
  ASSUME TypeInv, NEW w \in Workers, Finish(w)
  PROVE  /\ job' \in [Workers -> Job] /\ job'[w] = Idle /\ job'[w].pc = "idle"
         /\ \A v \in Workers \ {w} : job'[v] = job[v]
BY IdleTyped DEF Finish, TypeInv, JobsTyped

\* How a request begins.
Starts(w, u, j) ==
  /\ job[w] = Idle /\ job' = [job EXCEPT ![w] = j]
  /\ requests' = requests + 1 /\ u \in Live /\ roles[u] # {}
  /\ UNCHANGED <<people, tables, content, era, asked, blurred, headless, wanted,
                 contested, spoiled, agenda, crashes>>
  /\ j.pc \in {"pending", "uninvite", "roles", "remove", "insert", "list", "key",
               "unkey", "file", "deploy", "cancel"}
  /\ j.pc \in Personal => account[j.target] # "none" /\ j.by # j.target
  /\ j.pc \in WithId => j.id \in Ids
  /\ j.pc = "list" => \A v \in j.granted \union j.todo : account[v] # "none"
  /\ j.pc \in OfAnApp => apps[j.slug] = j.id /\ era[j.slug] = j.era
  /\ j.pc \in Drops => j.slug # Default

\* The id of an app is one that apps have had.
LEMMA AppIds1 ==
  ASSUME TypeInv, NEW s \in Slugs, apps[s] # 0
  PROVE  apps[s] \in Ids
<1>1. apps[s] \in Nat /\ nextId \in Nat /\ apps[s] < nextId
  BY DEF TypeInv, TablesTyped
<1> QED
  BY <1>1 DEF Ids

\* Every request that begins starts one of the jobs.
LEMMA BeginStarts ==
  ASSUME TypeInv, NEW w \in Workers, NEW u \in Users, Begin(w, u)
  PROVE  \E j \in Job : Starts(w, u, j)
<1> SUFFICES ASSUME \A j \in Job : ~Starts(w, u, j) PROVE FALSE
  OBVIOUS
<1>0. ASSUME NEW kind, NEW least \in {"admin", "editor"}, NEW j, Admit(w, u, kind, least, j)
      PROVE  /\ job[w] = Idle /\ job' = [job EXCEPT ![w] = j]
             /\ requests' = requests + 1 /\ u \in Live /\ roles[u] # {}
             /\ UNCHANGED <<people, tables, content, era, asked, blurred, headless,
                            wanted, contested, spoiled, agenda, crashes>>
  BY <1>0 DEF Admit, HasRole
<1> USE DEF Starts, Personal, WithId, OfAnApp, Drops
<1>1. CASE InviteUser(w, u)
  <2>1. PICK v \in Users, r \in Roles :
          Admit(w, u, "invite", "admin", [pc |-> "pending", target |-> v, role |-> r])
    BY <1>1 DEF InviteUser
  <2>2. [pc |-> "pending", target |-> v, role |-> r] \in Job
    BY DEF Job
  <2> QED
    BY <1>0, <2>1, <2>2
<1>2. CASE DeleteInvitation(w, u)
  <2>1. PICK v \in invites :
          Admit(w, u, "uninvite", "admin", [pc |-> "uninvite", invite |-> v])
    BY <1>2 DEF DeleteInvitation
  <2>2. [pc |-> "uninvite", invite |-> v] \in Job
    BY DEF Job, TypeInv, PeopleTyped, TablesTyped
  <2> QED
    BY <1>0, <2>1, <2>2
<1>3. CASE ChangeUserRole(w, u)
  <2>1. PICK v \in Others(u), r \in Roles :
          Admit(w, u, "role", "admin",
                [pc |-> "roles", by |-> u, target |-> v, role |-> r, todo |-> {}])
    BY <1>3 DEF ChangeUserRole
  <2>2. [pc |-> "roles", by |-> u, target |-> v, role |-> r, todo |-> {}] \in Job
    BY DEF Job, Others
  <2> QED
    BY <1>0, <2>1, <2>2 DEF Others
<1>4. CASE DeleteUser(w, u)
  <2>1. PICK v \in Others(u) :
          Admit(w, u, "remove", "admin", [pc |-> "remove", by |-> u, target |-> v])
    BY <1>4 DEF DeleteUser
  <2>2. [pc |-> "remove", by |-> u, target |-> v] \in Job
    BY DEF Job, Others
  <2> QED
    BY <1>0, <2>1, <2>2 DEF Others
<1>5. CASE CreateApp(w, u)
  <2>1. PICK s \in Slugs : Admit(w, u, "app", "admin", [pc |-> "insert", slug |-> s])
    BY <1>5 DEF CreateApp
  <2>2. [pc |-> "insert", slug |-> s] \in Job
    BY DEF Job
  <2> QED
    BY <1>0, <2>1, <2>2
<1>6. CASE UpdateAccess(w, u)
  <2>1. PICK s \in Slugs, granted \in SUBSET Live :
          /\ MayOpen(u, s)
          /\ Admit(w, u, "access", "admin",
                   [pc |-> "list", id |-> apps[s], granted |-> granted, todo |-> {}])
    BY <1>6 DEF UpdateAccess
  <2>2. [pc |-> "list", id |-> apps[s], granted |-> granted, todo |-> {}] \in Job
    BY DEF Job, Live, TypeInv, TablesTyped
  <2>3. apps[s] \in Ids
    BY <2>1, AppIds1 DEF MayOpen
  <2> QED
    BY <1>0, <2>1, <2>2, <2>3 DEF Live
<1>7. ASSUME NEW S \in SUBSET Slugs, NEW kind, NEW least \in {"admin", "editor"},
             NEW p \in {"key", "file", "deploy", "cancel"},
             p = "cancel" => Default \notin S, InApp(w, u, S, kind, least, p)
      PROVE  FALSE
  <2>1. PICK s \in S :
          /\ MayOpen(u, s)
          /\ Admit(w, u, kind, least,
                   [pc |-> p, slug |-> s, id |-> apps[s], era |-> era[s], by |-> u])
    BY <1>7 DEF InApp
  <2>2. [pc |-> p, slug |-> s, id |-> apps[s], era |-> era[s], by |-> u] \in Job
    BY DEF Job, TypeInv, TablesTyped, ContentTyped
  <2>3. apps[s] \in Ids
    BY <2>1, AppIds1 DEF MayOpen
  <2> DEFINE j == [pc |-> p, slug |-> s, id |-> apps[s], era |-> era[s], by |-> u]
  <2>4. Admit(w, u, kind, least, j)
    BY <2>1
  <2>5. /\ j.pc = p /\ j.id = apps[s] /\ j.slug = s /\ j.era = era[s] /\ j \in Job
        /\ j.pc = "cancel" => j.slug # Default
    BY <2>2, <1>7
  <2> HIDE DEF j
  <2>6. /\ job[w] = Idle /\ job' = [job EXCEPT ![w] = j]
        /\ requests' = requests + 1 /\ u \in Live /\ roles[u] # {}
        /\ UNCHANGED <<people, tables, content, era, asked, blurred, headless,
                       wanted, contested, spoiled, agenda, crashes>>
    BY <1>0, <2>4
  <2>7. Starts(w, u, j)
    BY <2>3, <2>5, <2>6
  <2> QED
    BY <2>5, <2>7
<1>8. CASE DeleteToken(w, u)
  <2>1. PICK k \in scopes :
          Admit(w, u, "revoke", "editor", [pc |-> "unkey", token |-> k.token])
    BY <1>8 DEF DeleteToken
  <2>2. [pc |-> "unkey", token |-> k.token] \in Job
    BY DEF Job, TypeInv, PeopleTyped, TablesTyped
  <2> QED
    BY <1>0, <2>1, <2>2
<1> QED
  BY <1>1, <1>2, <1>3, <1>4, <1>5, <1>6, <1>7, <1>8 DEF Begin, CreateToken,
     SaveEntry, CreateDeployment, DeleteApp

\* What the comparison of one grant does to the request.
LEMMA Checks ==
  ASSUME TypeInv, NEW w \in Workers, CheckGrant(w), job[w].todo # {}
  PROVE  \E u \in job[w].todo, j \in Job :
           /\ job' = [job EXCEPT ![w] = j]
           /\ j.id = job[w].id /\ j.granted = job[w].granted
           /\ IF Has(job[w].id, u) = (u \in job[w].granted)
                THEN j.pc = "check" /\ j.todo = job[w].todo \ {u}
                ELSE j.pc = "write" /\ j.todo = job[w].todo /\ j.user = u
<1>1. PICK u \in job[w].todo : job' = [job EXCEPT ![w] =
        IF Has(@.id, u) = (u \in @.granted)
          THEN [job[w] EXCEPT !.todo = job[w].todo \ {u}]
          ELSE [pc |-> "write", id |-> job[w].id, granted |-> job[w].granted,
                todo |-> job[w].todo, user |-> u]]
  BY Zenon DEF CheckGrant
<1>2. job[w] \in Job /\ job[w].pc = "check" /\ u \in Users
  BY JobFields DEF CheckGrant, Busy, TypeInv, JobsTyped
<1>3. CASE Has(job[w].id, u) = (u \in job[w].granted)
  <2> DEFINE j == [job[w] EXCEPT !.todo = job[w].todo \ {u}]
  <2>1. j \in Job /\ j.pc = "check" /\ j.todo = job[w].todo \ {u}
        /\ j.id = job[w].id /\ j.granted = job[w].granted
    BY <1>2 DEF Job
  <2>2. job' = [job EXCEPT ![w] = j]
    BY <1>1, <1>3
  <2> HIDE DEF j
  <2> QED
    BY <1>3, <2>1, <2>2
<1>4. CASE ~(Has(job[w].id, u) = (u \in job[w].granted))
  <2> DEFINE j == [pc |-> "write", id |-> job[w].id, granted |-> job[w].granted,
                   todo |-> job[w].todo, user |-> u]
  <2>1. j \in Job /\ j.pc = "write" /\ j.todo = job[w].todo /\ j.user = u
        /\ j.id = job[w].id /\ j.granted = job[w].granted
    BY <1>2 DEF Job
  <2>2. job' = [job EXCEPT ![w] = j]
    BY <1>1, <1>4
  <2> HIDE DEF j
  <2> QED
    BY <1>4, <2>1, <2>2
<1> QED
  BY <1>3, <1>4

\* Every step leaves the requests with jobs of their kinds.
LEMMA JobsTypedStep ==
  ASSUME TypeInv, [Next]_vars
  PROVE  JobsTyped'
<1>1. CASE UNCHANGED vars
  BY <1>1 DEF vars, JobsTyped, TypeInv
<1>2. ASSUME NEW u \in Users, Register(u)
      PROVE  JobsTyped'
  BY <1>2 DEF Register, JobsTyped, TypeInv, people, tables, content, counters
<1>3. ASSUME NEW u \in Users, NEW r \in Roles, AcceptInvitation(u, r)
      PROVE  JobsTyped'
  BY <1>3 DEF AcceptInvitation, JobsTyped, TypeInv, people, tables, content,
     counters
<1>4. CASE TakeEvent
  BY <1>4 DEF TakeEvent, JobsTyped, TypeInv, people, tables, content, counters
<1>5. CASE CountUsers
  BY <1>5 DEF CountUsers, JobsTyped, TypeInv, people, tables, content, counters
<1>6. CASE ListApps
  BY <1>6 DEF ListApps, JobsTyped, TypeInv, people, tables, content, counters
<1>7. CASE GrantInvited
  BY <1>7 DEF GrantInvited, JobsTyped, TypeInv, people, tables, content,
     counters
<1>8. CASE AssignRole
  BY <1>8 DEF AssignRole, JobsTyped, TypeInv, people, tables, content, counters
<1>9. CASE SetupCheck
  BY <1>9 DEF SetupCheck, JobsTyped, TypeInv, people, tables, content, counters
<1>10. ASSUME NEW u \in Users, SetupCreate(u)
      PROVE  JobsTyped'
  BY <1>10 DEF SetupCreate, JobsTyped, TypeInv, people, tables, content,
     counters
<1>11. CASE SetupAssign
  BY <1>11 DEF SetupAssign, JobsTyped, TypeInv, people, tables, content,
     counters
<1>12. CASE SetupKilled
  BY <1>12 DEF SetupKilled, JobsTyped, TypeInv, people, tables, content,
     counters
<1>13. CASE Crash
  BY <1>13, IdleTyped DEF Crash, JobsTyped
<1>14. ASSUME NEW w \in Workers, NEW u \in Users, Begin(w, u)
      PROVE  JobsTyped'
  <2>1. PICK j \in Job : Starts(w, u, j)
    BY <1>14, BeginStarts
  <2> QED
    BY <2>1 DEF Starts, JobsTyped, TypeInv
<1>15. ASSUME NEW w \in Workers, CheckPending(w)
      PROVE  JobsTyped'
  BY <1>15, Finishes, GoesOn DEF CheckPending, Busy, Follows, JobsTyped
<1>16. ASSUME NEW w \in Workers, CreateInvitation(w)
      PROVE  JobsTyped'
  BY <1>16, Finishes DEF CreateInvitation, JobsTyped
<1>17. ASSUME NEW w \in Workers, RevokeInvitation(w)
      PROVE  JobsTyped'
  BY <1>17, Finishes DEF RevokeInvitation, JobsTyped
<1>18. ASSUME NEW w \in Workers, ReadRoles(w)
      PROVE  JobsTyped'
  <2>1. job[w] \in Job /\ roles[job[w].target] \subseteq Roles
    BY <1>18, JobFields DEF ReadRoles, Busy, Personal, TypeInv, JobsTyped,
       PeopleTyped
  <2>2. [job[w] EXCEPT !.pc = "unassign", !.todo = roles[job[w].target]] \in Job
    BY <1>18, <2>1 DEF ReadRoles, Busy, Job
  <2> QED
    BY <1>18, <2>2 DEF ReadRoles, TypeInv, JobsTyped
<1>19. ASSUME NEW w \in Workers, UnassignRole(w)
      PROVE  JobsTyped'
  <2>1. CASE job[w].todo = {}
    BY <1>19, <2>1, GoesOn DEF UnassignRole, Busy, Follows, JobsTyped
  <2>2. CASE job[w].todo # {}
    <3>1. PICK r \in job[w].todo :
            job' = [job EXCEPT ![w] = [job[w] EXCEPT !.todo = job[w].todo \ {r}]]
      BY <1>19, <2>2 DEF UnassignRole, TypeInv, JobsTyped
    <3>2. [job[w] EXCEPT !.todo = job[w].todo \ {r}] \in Job
      BY <1>19 DEF UnassignRole, Busy, Job, TypeInv, JobsTyped
    <3> QED
      BY <3>1, <3>2 DEF TypeInv, JobsTyped
  <2> QED
    BY <2>1, <2>2
<1>20. ASSUME NEW w \in Workers, AssignNewRole(w)
      PROVE  JobsTyped'
  BY <1>20, Finishes DEF AssignNewRole, JobsTyped
<1>21. ASSUME NEW w \in Workers, RemoveUser(w)
      PROVE  JobsTyped'
  BY <1>21, Finishes DEF RemoveUser, JobsTyped
<1>22. ASSUME NEW w \in Workers, InsertApp(w)
      PROVE  JobsTyped'
  BY <1>22, Finishes DEF InsertApp, JobsTyped
<1>23. ASSUME NEW w \in Workers, ListUsers(w)
      PROVE  JobsTyped'
  <2>1. job[w] \in Job /\ job[w].pc = "list" /\ Live \subseteq Users
    BY <1>23 DEF ListUsers, Busy, Live, TypeInv, JobsTyped
  <2>2. [job[w] EXCEPT !.pc = "check", !.todo = Live] \in Job
    BY <2>1 DEF Job
  <2> QED
    BY <1>23, <2>2 DEF ListUsers, TypeInv, JobsTyped
<1>24. ASSUME NEW w \in Workers, CheckGrant(w)
      PROVE  JobsTyped'
  <2>1. CASE job[w].todo = {}
    BY <1>24, <2>1, Finishes DEF CheckGrant, JobsTyped
  <2>2. CASE job[w].todo # {}
    BY <1>24, <2>2, Checks DEF JobsTyped, TypeInv
  <2> QED
    BY <2>1, <2>2
<1>25. ASSUME NEW w \in Workers, WriteGrant(w)
      PROVE  JobsTyped'
  <2>1. [pc |-> "check", id |-> job[w].id, granted |-> job[w].granted,
         todo |-> job[w].todo \ {job[w].user}] \in Job
    BY <1>25, JobFields DEF WriteGrant, Busy, Job, TypeInv, JobsTyped
  <2> QED
    BY <1>25, <2>1 DEF WriteGrant, TypeInv, JobsTyped
<1>26. ASSUME NEW w \in Workers, CreateKey(w)
      PROVE  JobsTyped'
  <2>1. CASE job[w].by \in Live
    <3>1. [pc |-> "scope", token |-> <<w, requests>>, id |-> job[w].id,
           era |-> job[w].era] \in Job
      BY <1>26, JobFields DEF CreateKey, Busy, Job, OfAnApp, TypeInv, JobsTyped,
         ContentTyped
    <3> QED
      BY <1>26, <2>1, <3>1 DEF CreateKey, TypeInv, JobsTyped
  <2>2. CASE job[w].by \notin Live
    BY <1>26, <2>2, Finishes DEF CreateKey, JobsTyped
  <2> QED
    BY <2>1, <2>2
<1>27. ASSUME NEW w \in Workers, ScopeKey(w)
      PROVE  JobsTyped'
  BY <1>27, Finishes DEF ScopeKey, JobsTyped
<1>28. ASSUME NEW w \in Workers, DeleteKey(w)
      PROVE  JobsTyped'
  BY <1>28, GoesOn DEF DeleteKey, Busy, Follows, JobsTyped
<1>29. ASSUME NEW w \in Workers, DeleteScope(w)
      PROVE  JobsTyped'
  BY <1>29, Finishes DEF DeleteScope, JobsTyped
<1>30. ASSUME NEW w \in Workers, WriteFile(w)
      PROVE  JobsTyped'
  BY <1>30, GoesOn DEF WriteFile, Busy, Follows, JobsTyped
<1>31. ASSUME NEW w \in Workers, ReloadEntry(w)
      PROVE  JobsTyped'
  BY <1>31, Finishes DEF ReloadEntry, JobsTyped
<1>32. ASSUME NEW w \in Workers, InsertDeployment(w)
      PROVE  JobsTyped'
  BY <1>32, Finishes DEF InsertDeployment, JobsTyped
<1>33. ASSUME NEW w \in Workers, CancelDeployments(w)
      PROVE  JobsTyped'
  BY <1>33, GoesOn DEF CancelDeployments, Busy, Follows, JobsTyped
<1>34. ASSUME NEW w \in Workers, DeleteRow(w)
      PROVE  JobsTyped'
  BY <1>34, GoesOn DEF DeleteRow, Busy, Follows, JobsTyped
<1>35. ASSUME NEW w \in Workers, RemoveDirectory(w)
      PROVE  JobsTyped'
  BY <1>35, GoesOn DEF RemoveDirectory, Busy, Follows, JobsTyped
<1>36. ASSUME NEW w \in Workers, RemoveCached(w)
      PROVE  JobsTyped'
  BY <1>36, Finishes DEF RemoveCached, JobsTyped
<1> QED
  BY <1>1, <1>2, <1>3, <1>4, <1>5, <1>6, <1>7, <1>8, <1>9, <1>10, <1>11, <1>12,
     <1>13, <1>14, <1>15, <1>16, <1>17, <1>18, <1>19, <1>20, <1>21, <1>22,
     <1>23, <1>24, <1>25, <1>26, <1>27, <1>28, <1>29, <1>30, <1>31, <1>32,
     <1>33, <1>34, <1>35, <1>36 DEF Next, Registration, CreateAdmin, Step

\* The fields of the task.
LEMMA HandlerFields ==
  ASSUME TypeInv
  PROVE  /\ handler.pc \in {"idle", "count", "list", "grant", "assign"}
         /\ handler.pc = "idle" => handler = Idle
         /\ handler.pc # "idle" => /\ handler.user \in Users
                                   /\ handler.role \in Roles \union {"password"}
                                   /\ handler.todo \subseteq Nat
BY DEF TypeInv, PeopleTyped, Handler, Idle

\* What the task can tell of an event.
LEMMA EventFields ==
  ASSUME TypeInv, NEW i \in DOMAIN events
  PROVE  /\ events[i].user \in Users /\ events[i].source \in Roles \union {"password"}
         /\ account[events[i].user] # "none"
         /\ events[i] = [user |-> events[i].user, source |-> events[i].source]
<1>1. events \in Seq(Event) /\ account[events[i].user] # "none"
  BY DEF TypeInv, PeopleTyped
<1>2. events[i] \in Event
  BY <1>1
<1> QED
  BY <1>1, <1>2 DEF Event

\* An event sent is the last of the queue.
LEMMA Sends ==
  ASSUME TypeInv, NEW u \in Users, NEW source \in Roles \union {"password"},
         events' = Append(events, [user |-> u, source |-> source])
  PROVE  /\ events' \in Seq(Event)
         /\ \E k \in DOMAIN events' : /\ events'[k] = [user |-> u, source |-> source]
                                      /\ DOMAIN events' = DOMAIN events \union {k}
                                      /\ k \notin DOMAIN events
         /\ \A i \in DOMAIN events : i \in DOMAIN events' /\ events'[i] = events[i]
<1> DEFINE e == [user |-> u, source |-> source]
<1>1. events \in Seq(Event) /\ e \in Event
  BY DEF TypeInv, PeopleTyped, Event
<1> HIDE DEF e
<1>2. /\ events' \in Seq(Event) /\ Len(events') = Len(events) + 1
      /\ \A i \in 1..Len(events) : events'[i] = events[i]
      /\ events'[Len(events) + 1] = e /\ Len(events) \in Nat
  BY <1>1 DEF e
<1>3. DOMAIN events = 1..Len(events) /\ DOMAIN events' = 1..Len(events')
  BY <1>1, <1>2
<1>4. DOMAIN events' = DOMAIN events \union {Len(events) + 1}
  BY <1>2, <1>3
<1>5. Len(events) + 1 \notin DOMAIN events
  BY <1>2, <1>3
<1> QED
  BY <1>2, <1>3, <1>4, <1>5 DEF e

\* The task takes the first event and decides by its source what to do.
LEMMA Takes ==
  ASSUME TypeInv, TakeEvent
  PROVE  /\ events' \in Seq(Event) /\ handler' \in Handler
         /\ 1 \in DOMAIN events /\ handler'.user = events[1].user
         /\ handler'.role = events[1].source /\ handler'.todo = {}
         /\ handler'.pc = IF events[1].source = "password" THEN "count"
                            ELSE IF events[1].source = "admin" THEN "assign" ELSE "list"
         /\ \A i \in DOMAIN events' : /\ i + 1 \in DOMAIN events /\ i # 0 /\ i \in Nat
                                      /\ events'[i] = events[i + 1]
         /\ \A i \in DOMAIN events : i # 1 => /\ i \in Nat /\ i - 1 \in DOMAIN events'
                                              /\ events'[i - 1] = events[i]
<1>1. events \in Seq(Event) /\ events # <<>> /\ events' = Tail(events)
  BY DEF TypeInv, PeopleTyped, TakeEvent
<1>2. /\ events' \in Seq(Event) /\ Len(events') = Len(events) - 1
      /\ Len(events) \in Nat
      /\ Len(events) > 0 /\ Head(events) = events[1]
      /\ \A i \in 1..Len(events') : events'[i] = events[i + 1]
  BY <1>1
<1>3. DOMAIN events = 1..Len(events) /\ DOMAIN events' = 1..Len(events')
  BY <1>1, <1>2
<1>4. 1 \in DOMAIN events
  BY <1>2, <1>3
<1>5. \A i \in DOMAIN events' : /\ i + 1 \in DOMAIN events /\ i # 0 /\ i \in Nat
                                /\ events'[i] = events[i + 1]
  BY <1>2, <1>3
<1>6. \A i \in DOMAIN events : i # 1 => /\ i \in Nat /\ i - 1 \in DOMAIN events'
                                        /\ events'[i - 1] = events[i]
  <2> TAKE i \in DOMAIN events
  <2> HAVE i # 1
  <2>1. i \in Nat /\ i - 1 \in 1..Len(events') /\ (i - 1) + 1 = i
    BY <1>2, <1>3
  <2> QED
    BY <1>2, <1>3, <2>1
<1>7. events[1].user \in Users /\ events[1].source \in Roles \union {"password"}
  BY <1>4, EventFields
<1>8. handler' = [pc |-> CASE events[1].source = "password" -> "count"
                           [] events[1].source = "admin" -> "assign"
                           [] OTHER -> "list",
                  user |-> events[1].user, role |-> events[1].source, todo |-> {}]
  BY <1>2 DEF TakeEvent
<1>9. handler'.pc = IF events[1].source = "password" THEN "count"
                      ELSE IF events[1].source = "admin" THEN "assign" ELSE "list"
  BY <1>7, <1>8 DEF Roles
<1>10. /\ handler'.user = events[1].user
       /\ handler'.role = events[1].source /\ handler'.todo = {}
  BY <1>8
<1>11. handler' = [pc |-> handler'.pc, user |-> handler'.user, role |-> handler'.role,
                   todo |-> handler'.todo]
  BY <1>8
<1>12. handler' \in Handler
  BY <1>7, <1>9, <1>10, <1>11 DEF Handler
<1> QED
  BY <1>2, <1>4, <1>5, <1>6, <1>9, <1>10, <1>12

\* A user is created: the accounts, and the roles it should have.
LEMMA Creates ==
  ASSUME TypeInv, NEW u \in Users, NEW want \in SUBSET Roles, Create(u, want)
  PROVE  /\ account' \in [Users -> {"none", "live", "deleted"}]
         /\ asked' \in [Users -> SUBSET Roles]
         /\ blurred' = blurred \union Uncounted /\ blurred' \subseteq Users
         /\ account[u] = "none" /\ account'[u] = "live" /\ asked'[u] = want
         /\ u \notin Live /\ Live' = Live \union {u} /\ roles[u] = {}
         /\ \A v \in Users \ {u} : account'[v] = account[v] /\ asked'[v] = asked[v]
         /\ \A v \in Users : account[v] # "none" => account'[v] # "none" /\ v # u
<1>1. /\ account \in [Users -> {"none", "live", "deleted"}]
      /\ asked \in [Users -> SUBSET Roles]
      /\ \A v \in Users \ Live : roles[v] = {}
      /\ blurred \subseteq Users
  BY DEF TypeInv, PeopleTyped
<1>2. /\ account[u] = "none" /\ account' = [account EXCEPT ![u] = "live"]
      /\ asked' = [asked EXCEPT ![u] = want] /\ blurred' = blurred \union Uncounted
  BY DEF Create
<1>3. /\ account'[u] = "live" /\ asked'[u] = want
      /\ \A v \in Users \ {u} : account'[v] = account[v] /\ asked'[v] = asked[v]
      /\ account' \in [Users -> {"none", "live", "deleted"}]
      /\ asked' \in [Users -> SUBSET Roles]
  BY <1>1, <1>2
<1>4. u \notin Live /\ Live' = Live \union {u} /\ roles[u] = {}
  BY <1>1, <1>2, <1>3 DEF Live
<1>5. blurred' \subseteq Users
  BY <1>1, <1>2 DEF Uncounted
<1> QED
  BY <1>2, <1>3, <1>4, <1>5

\* The roles of a user are set.
LEMMA Assigns ==
  ASSUME TypeInv, NEW u \in Users, NEW R \in SUBSET Roles,
         roles' = [roles EXCEPT ![u] = IF u \in Live THEN R ELSE {}],
         account' = account
  PROVE  /\ roles' \in [Users -> SUBSET Roles] /\ Live' = Live
         /\ \A v \in Users \ Live' : roles'[v] = {}
         /\ roles'[u] = IF u \in Live THEN R ELSE {}
         /\ \A v \in Users \ {u} : roles'[v] = roles[v]
BY DEF TypeInv, PeopleTyped, Live

\* Every step leaves the accounts, the roles and the events typed.
LEMMA PeopleTypedStep ==
  ASSUME TypeInv, HoldsInv, [Next]_vars
  PROVE  PeopleTyped'
<1>0. PeopleTyped /\ \A w \in Workers : job[w] \in Job
  BY DEF TypeInv, JobsTyped
<1> USE <1>0
<1>1. CASE UNCHANGED vars
  BY <1>1 DEF vars, PeopleTyped, Live, people
<1>2. ASSUME NEW u \in Users, Register(u)
      PROVE  PeopleTyped'
  <2>1. /\ Create(u, (IF Live = {} THEN {"admin"} ELSE {}))
        /\ (IF Live = {} THEN {"admin"} ELSE {}) \in SUBSET Roles
    BY <1>2 DEF Register, Roles
  <2>2. /\ account' \in [Users -> {"none", "live", "deleted"}]
        /\ asked' \in [Users -> SUBSET Roles] /\ blurred' \subseteq Users
        /\ Live' = Live \union {u} /\ account'[u] # "none"
        /\ \A v \in Users : account[v] # "none" => account'[v] # "none"
    BY <2>1, Creates
  <2>3. /\ events' \in Seq(Event)
        /\ \A i \in DOMAIN events' : account'[events'[i].user] # "none"
    BY <1>2, <2>2, Sends, EventFields DEF Register
  <2>4. UNCHANGED <<roles, invites, handler, setup>> /\ headless' \in BOOLEAN
    BY <1>2 DEF Register
  <2> QED
    BY <2>2, <2>3, <2>4 DEF PeopleTyped
<1>3. ASSUME NEW u \in Users, NEW r \in Roles, AcceptInvitation(u, r)
      PROVE  PeopleTyped'
  <2>1. Create(u, {r}) /\ {r} \in SUBSET Roles
    BY <1>3 DEF AcceptInvitation, Roles
  <2>2. /\ account' \in [Users -> {"none", "live", "deleted"}]
        /\ asked' \in [Users -> SUBSET Roles] /\ blurred' \subseteq Users
        /\ Live' = Live \union {u} /\ account'[u] # "none"
        /\ \A v \in Users : account[v] # "none" => account'[v] # "none"
    BY <2>1, Creates
  <2>0. /\ events' = Append(events, [user |-> u, source |-> r])
        /\ r \in Roles \union {"password"}
    BY <1>3 DEF AcceptInvitation
  <2>3. /\ events' \in Seq(Event)
        /\ \A i \in DOMAIN events' : account'[events'[i].user] # "none"
    BY <2>0, <2>2, Sends, EventFields
  <2>4. UNCHANGED <<roles, handler, setup>> /\ headless' \in BOOLEAN
        /\ invites' \subseteq invites
    BY <1>3 DEF AcceptInvitation
  <2> QED
    BY <2>2, <2>3, <2>4 DEF PeopleTyped
<1>4. CASE TakeEvent
  <2>1. \A i \in DOMAIN events' : account[events'[i].user] # "none"
    BY <1>4, Takes, EventFields
  <2>2. UNCHANGED <<account, roles, invites, setup, asked, blurred, headless>>
    BY <1>4 DEF TakeEvent
  <2>3. events' \in Seq(Event) /\ handler' \in Handler
    BY <1>4, Takes
  <2> QED
    BY <2>1, <2>2, <2>3 DEF PeopleTyped, Live
<1>5. CASE CountUsers
  <2>1. handler \in Handler /\ Idle \in Handler
    BY IdleTyped DEF PeopleTyped
  <2>2. handler' \in Handler
    BY <1>5, <2>1 DEF CountUsers, Handler, Roles
  <2>3. UNCHANGED <<account, roles, invites, events, setup, asked, blurred, headless>>
    BY <1>5 DEF CountUsers
  <2> QED
    BY <2>2, <2>3 DEF PeopleTyped, Live
<1>6. CASE ListApps
  <2>1. AppIds \subseteq Nat
    BY DEF AppIds, TypeInv, TablesTyped
  <2>2. handler \in Handler /\ handler.pc = "list"
    BY <1>6 DEF PeopleTyped, ListApps
  <2>3. [handler EXCEPT !.pc = "grant", !.todo = AppIds] \in Handler
    BY <2>1, <2>2 DEF Handler
  <2>4. handler' \in Handler
    BY <1>6, <2>3 DEF ListApps
  <2>5. UNCHANGED <<account, roles, invites, events, setup, asked, blurred, headless>>
    BY <1>6 DEF ListApps
  <2> QED
    BY <2>4, <2>5 DEF PeopleTyped, Live
<1>7. CASE GrantInvited
  <2>1. handler \in Handler /\ Idle \in Handler
    BY IdleTyped DEF PeopleTyped
  <2>2. handler' \in Handler
    BY <1>7, <2>1 DEF GrantInvited, Handler, Roles
  <2>3. UNCHANGED <<account, roles, invites, events, setup, asked, blurred, headless>>
    BY <1>7 DEF GrantInvited
  <2> QED
    BY <2>2, <2>3 DEF PeopleTyped, Live
<1>8. CASE AssignRole
  <2>1. /\ handler.user \in Users
        /\ (roles[handler.user] \union {handler.role}) \in SUBSET Roles
    BY <1>8, HandlerFields, JobFields DEF AssignRole, Busy, Personal, HoldsInv,
       HoldsOf, TaskHolds, PeopleTyped, Roles
  <2>2. /\ roles' \in [Users -> SUBSET Roles]
        /\ \A v \in Users \ Live' : roles'[v] = {}
        /\ Live' = Live
    BY <1>8, <2>1, Assigns DEF AssignRole
  <2>3. UNCHANGED <<account, invites, events, setup, asked, headless>> /\ blurred' \subseteq Users
        /\ handler' \in Handler
    BY <1>8, <2>1, IdleTyped DEF AssignRole, PeopleTyped
  <2> QED
    BY <2>2, <2>3 DEF PeopleTyped
<1>9. CASE SetupCheck
  BY <1>9 DEF SetupCheck, PeopleTyped, Live, people, tables, content, counters
<1>10. ASSUME NEW u \in Users, SetupCreate(u)
      PROVE  PeopleTyped'
  <2>1. Create(u, {"admin"}) /\ {"admin"} \in SUBSET Roles
    BY <1>10 DEF SetupCreate, Roles
  <2>2. /\ account' \in [Users -> {"none", "live", "deleted"}]
        /\ asked' \in [Users -> SUBSET Roles] /\ blurred' \subseteq Users
        /\ Live' = Live \union {u} /\ account'[u] # "none"
        /\ \A v \in Users : account[v] # "none" => account'[v] # "none"
    BY <2>1, Creates
  <2>4. UNCHANGED <<roles, handler, events, invites, headless>> /\ setup' = u
    BY <1>10 DEF SetupCreate
  <2>5. \A i \in DOMAIN events' : account'[events'[i].user] # "none"
    BY <2>2, <2>4, EventFields
  <2> QED
    BY <2>2, <2>4, <2>5 DEF PeopleTyped
<1>11. CASE SetupAssign
  <2>1. setup \in Users /\ (roles[setup] \union {"admin"}) \in SUBSET Roles
    BY <1>11, HandlerFields, JobFields DEF SetupAssign, Busy, Personal,
       HoldsInv, HoldsOf, TaskHolds, PeopleTyped, Roles
  <2>2. /\ roles' \in [Users -> SUBSET Roles]
        /\ \A v \in Users \ Live' : roles'[v] = {}
        /\ Live' = Live
    BY <1>11, <2>1, Assigns DEF SetupAssign
  <2>3. UNCHANGED <<account, invites, events, handler, asked, headless>> /\ blurred' \subseteq Users
        /\ setup' = "done"
    BY <1>11, <2>1, IdleTyped DEF SetupAssign, PeopleTyped
  <2> QED
    BY <2>2, <2>3 DEF PeopleTyped
<1>12. CASE SetupKilled
  BY <1>12 DEF SetupKilled, PeopleTyped, Live, people, tables, content, counters
<1>13. CASE Crash
  <2>1. /\ UNCHANGED <<account, roles, invites, setup, asked>> /\ events' = <<>>
        /\ handler' \in Handler /\ headless' \in BOOLEAN
    BY <1>13, IdleTyped DEF Crash
  <2>2. blurred' \subseteq Users
    BY <1>13 DEF Crash, PeopleTyped
  <2>3. /\ events' \in Seq(Event)
        /\ \A i \in DOMAIN events' : account'[events'[i].user] # "none"
    BY <2>1
  <2> QED
    BY <2>1, <2>2, <2>3 DEF PeopleTyped, Live
<1>14. ASSUME NEW w \in Workers, NEW u \in Users, Begin(w, u)
      PROVE  PeopleTyped'
  <2>1. PICK j \in Job : Starts(w, u, j)
    BY <1>14, BeginStarts
  <2> QED
    BY <2>1 DEF Starts, PeopleTyped, Live, people
<1>15. ASSUME NEW w \in Workers, CheckPending(w)
      PROVE  PeopleTyped'
  BY <1>15 DEF CheckPending, PeopleTyped, Live, people, tables, content,
     counters
<1>16. ASSUME NEW w \in Workers, CreateInvitation(w)
      PROVE  PeopleTyped'
  <2>0. job[w].target \in Users /\ job[w].role \in Roles
    BY <1>16, JobFields DEF CreateInvitation, Busy
  <2>1. invites' \subseteq Users \X Roles
    <3>1. invites' = invites \union {<<job[w].target, job[w].role>>}
      BY <1>16 DEF CreateInvitation
    <3>2. invites \subseteq Users \X Roles
      BY DEF PeopleTyped
    <3> QED
      BY <2>0, <3>1, <3>2
  <2>2. UNCHANGED <<account, roles, events, handler, setup, asked, blurred, headless>>
    BY <1>16 DEF CreateInvitation
  <2> QED
    BY <2>1, <2>2 DEF PeopleTyped, Live
<1>17. ASSUME NEW w \in Workers, RevokeInvitation(w)
      PROVE  PeopleTyped'
  BY <1>17 DEF RevokeInvitation, PeopleTyped, Live, people, tables, content,
     counters
<1>18. ASSUME NEW w \in Workers, ReadRoles(w)
      PROVE  PeopleTyped'
  <2>1. job[w].target \in Users /\ job[w].role \in Roles
    BY <1>18, JobFields DEF ReadRoles, Busy, Personal
  <2>2. asked' \in [Users -> SUBSET Roles] /\ blurred' \subseteq Users
    BY <1>18, <2>1 DEF ReadRoles, PeopleTyped
  <2>3. UNCHANGED <<people, headless>>
    BY <1>18 DEF ReadRoles
  <2> QED
    BY <2>2, <2>3 DEF PeopleTyped, Live, people
<1>19. ASSUME NEW w \in Workers, UnassignRole(w)
      PROVE  PeopleTyped'
  <2>1. job[w].target \in Users
    BY <1>19, JobFields DEF UnassignRole, Busy, Personal
  <2>4. headless' \in BOOLEAN
    BY <1>19 DEF UnassignRole, PeopleTyped
  <2>2. /\ roles' \in [Users -> SUBSET Roles]
        /\ \A v \in Users : roles'[v] \subseteq roles[v]
    <3>1. CASE job[w].todo = {}
      BY <1>19, <3>1 DEF UnassignRole, PeopleTyped
    <3>2. CASE job[w].todo # {}
      <4>1. PICK r \in job[w].todo :
              roles' = [roles EXCEPT ![job[w].target] = roles[job[w].target] \ {r}]
        BY <1>19, <3>2 DEF UnassignRole
      <4> QED
        BY <2>1, <4>1 DEF PeopleTyped
    <3> QED
      BY <3>1, <3>2
  <2>3. UNCHANGED <<account, invites, events, handler, setup, asked, blurred>>
    BY <1>19 DEF UnassignRole
  <2> QED
    BY <2>2, <2>3, <2>4 DEF PeopleTyped, Live
<1>20. ASSUME NEW w \in Workers, AssignNewRole(w)
      PROVE  PeopleTyped'
  <2>1. /\ job[w].target \in Users
        /\ (roles[job[w].target] \union {job[w].role}) \in SUBSET Roles
    BY <1>20, HandlerFields, JobFields DEF AssignNewRole, Busy, Personal,
       HoldsInv, HoldsOf, TaskHolds, PeopleTyped, Roles
  <2>2. /\ roles' \in [Users -> SUBSET Roles]
        /\ \A v \in Users \ Live' : roles'[v] = {}
        /\ Live' = Live
    BY <1>20, <2>1, Assigns DEF AssignNewRole
  <2>3. /\ UNCHANGED <<account, invites, events, handler, setup, asked, blurred, headless>>
        /\ blurred' \subseteq Users
    BY <1>20, <2>1, IdleTyped DEF AssignNewRole, PeopleTyped
  <2> QED
    BY <2>2, <2>3 DEF PeopleTyped
<1>21. ASSUME NEW w \in Workers, RemoveUser(w)
      PROVE  PeopleTyped'
  <2>1. job[w].target \in Users
    BY <1>21, JobFields DEF RemoveUser, Busy, Personal
  <2>2. account' \in [Users -> {"none", "live", "deleted"}]
        /\ \A v \in Users : account[v] # "none" => account'[v] # "none"
    BY <1>21, <2>1 DEF RemoveUser, PeopleTyped
  <2>3. /\ roles' \in [Users -> SUBSET Roles]
        /\ \A v \in Users \ Live' : roles'[v] = {}
    BY <1>21, <2>1 DEF RemoveUser, PeopleTyped, Live
  <2>4. /\ UNCHANGED <<invites, events, handler, setup, asked>>
        /\ headless' \in BOOLEAN
    BY <1>21 DEF RemoveUser
  <2>5. blurred' \subseteq Users
    BY <1>21 DEF RemoveUser, PeopleTyped
  <2>6. \A i \in DOMAIN events' : account'[events'[i].user] # "none"
    BY <2>2, <2>4, EventFields
  <2> QED
    BY <2>2, <2>3, <2>4, <2>5, <2>6 DEF PeopleTyped
<1>22. ASSUME NEW w \in Workers, InsertApp(w)
      PROVE  PeopleTyped'
  BY <1>22 DEF InsertApp, PeopleTyped, Live, people, tables, content, counters
<1>23. ASSUME NEW w \in Workers, ListUsers(w)
      PROVE  PeopleTyped'
  BY <1>23 DEF ListUsers, PeopleTyped, Live, people, tables, content, counters
<1>24. ASSUME NEW w \in Workers, CheckGrant(w)
      PROVE  PeopleTyped'
  BY <1>24 DEF CheckGrant, PeopleTyped, Live, people, tables, content, counters
<1>25. ASSUME NEW w \in Workers, WriteGrant(w)
      PROVE  PeopleTyped'
  BY <1>25 DEF WriteGrant, PeopleTyped, Live, people, tables, content, counters
<1>26. ASSUME NEW w \in Workers, CreateKey(w)
      PROVE  PeopleTyped'
  BY <1>26 DEF CreateKey, PeopleTyped, Live, people, tables, content, counters
<1>27. ASSUME NEW w \in Workers, ScopeKey(w)
      PROVE  PeopleTyped'
  BY <1>27 DEF ScopeKey, PeopleTyped, Live, people, tables, content, counters
<1>28. ASSUME NEW w \in Workers, DeleteKey(w)
      PROVE  PeopleTyped'
  BY <1>28 DEF DeleteKey, PeopleTyped, Live, people, tables, content, counters
<1>29. ASSUME NEW w \in Workers, DeleteScope(w)
      PROVE  PeopleTyped'
  BY <1>29 DEF DeleteScope, PeopleTyped, Live, people, tables, content, counters
<1>30. ASSUME NEW w \in Workers, WriteFile(w)
      PROVE  PeopleTyped'
  BY <1>30 DEF WriteFile, PeopleTyped, Live, people, tables, content, counters
<1>31. ASSUME NEW w \in Workers, ReloadEntry(w)
      PROVE  PeopleTyped'
  BY <1>31 DEF ReloadEntry, PeopleTyped, Live, people, tables, content, counters
<1>32. ASSUME NEW w \in Workers, InsertDeployment(w)
      PROVE  PeopleTyped'
  BY <1>32 DEF InsertDeployment, PeopleTyped, Live, people, tables, content,
     counters
<1>33. ASSUME NEW w \in Workers, CancelDeployments(w)
      PROVE  PeopleTyped'
  BY <1>33 DEF CancelDeployments, PeopleTyped, Live, people, tables, content,
     counters
<1>34. ASSUME NEW w \in Workers, DeleteRow(w)
      PROVE  PeopleTyped'
  BY <1>34 DEF DeleteRow, PeopleTyped, Live, people, tables, content, counters
<1>35. ASSUME NEW w \in Workers, RemoveDirectory(w)
      PROVE  PeopleTyped'
  BY <1>35 DEF RemoveDirectory, PeopleTyped, Live, people, tables, content,
     counters
<1>36. ASSUME NEW w \in Workers, RemoveCached(w)
      PROVE  PeopleTyped'
  BY <1>36 DEF RemoveCached, PeopleTyped, Live, people, tables, content,
     counters
<1> QED
  BY <1>1, <1>2, <1>3, <1>4, <1>5, <1>6, <1>7, <1>8, <1>9, <1>10, <1>11, <1>12,
     <1>13, <1>14, <1>15, <1>16, <1>17, <1>18, <1>19, <1>20, <1>21, <1>22,
     <1>23, <1>24, <1>25, <1>26, <1>27, <1>28, <1>29, <1>30, <1>31, <1>32,
     <1>33, <1>34, <1>35, <1>36 DEF Next, Registration, CreateAdmin, Step

\* Every step leaves the tables of apps, grants, tokens and deployments typed.
LEMMA TablesTypedStep ==
  ASSUME TypeInv, HoldsInv, IdsInv, [Next]_vars
  PROVE  TablesTyped'
<1>0. TablesTyped /\ \A w \in Workers : job[w] \in Job
  BY DEF TypeInv, JobsTyped
<1> USE <1>0
<1>1. CASE UNCHANGED vars
  BY <1>1 DEF vars, TablesTyped, Live, Ids, people, tables
<1>2. ASSUME NEW u \in Users, Register(u)
      PROVE  TablesTyped'
  <2>1. /\ Create(u, (IF Live = {} THEN {"admin"} ELSE {}))
        /\ (IF Live = {} THEN {"admin"} ELSE {}) \in SUBSET Roles
    BY <1>2 DEF Register, Roles
  <2>2. Live' = Live \union {u}
    BY <2>1, Creates
  <2>3. UNCHANGED <<apps, nextId, grants, wanted, contested, keys, scopes, deploys>>
    BY <1>2 DEF Register, tables
  <2> QED
    BY <2>2, <2>3 DEF TablesTyped, Ids
<1>3. ASSUME NEW u \in Users, NEW r \in Roles, AcceptInvitation(u, r)
      PROVE  TablesTyped'
  <2>1. Create(u, {r}) /\ {r} \in SUBSET Roles
    BY <1>3 DEF AcceptInvitation, Roles
  <2>2. Live' = Live \union {u}
    BY <2>1, Creates
  <2>3. UNCHANGED <<apps, nextId, grants, wanted, contested, keys, scopes, deploys>>
    BY <1>3 DEF AcceptInvitation, tables
  <2> QED
    BY <2>2, <2>3 DEF TablesTyped, Ids
<1>4. CASE TakeEvent
  <2>1. UNCHANGED <<apps, nextId, grants, wanted, contested, keys, scopes, deploys>>
        /\ Live' = Live
    BY <1>4 DEF TakeEvent, tables, people, Live
  <2> QED
    BY <2>1 DEF TablesTyped, Ids
<1>5. CASE CountUsers
  <2>1. UNCHANGED <<apps, nextId, grants, wanted, contested, keys, scopes, deploys>>
        /\ Live' = Live
    BY <1>5 DEF CountUsers, tables, people, Live
  <2> QED
    BY <2>1 DEF TablesTyped, Ids
<1>6. CASE ListApps
  <2>1. wanted' \subseteq Ids \X Users
    <3>1. AppIds \subseteq Ids
      BY AppIds1 DEF AppIds
    <3>2. handler.user \in Users
      BY <1>6, HandlerFields DEF ListApps
    <3>3. /\ wanted \subseteq Ids \X Users
          /\ wanted' = wanted \union (AppIds \X {handler.user})
      BY <1>6 DEF ListApps, TablesTyped
    <3> QED
      BY <3>1, <3>2, <3>3
  <2>8. UNCHANGED <<apps, nextId, grants, contested, keys, scopes, deploys, account>>
    BY <1>6 DEF ListApps, tables, people
  <2> QED
    BY <2>1, <2>8 DEF TablesTyped, Ids, Live
<1>7. CASE GrantInvited
  <2>1. grants' \subseteq Ids \X Users /\ contested' \subseteq Ids \X Users
    <3>1. PICK id \in handler.todo :
            /\ grants' = grants \union {<<id, handler.user>>}
            /\ contested' \subseteq contested \union {<<id, handler.user>>}
      BY <1>7 DEF GrantInvited
    <3>2. id \in Ids /\ handler.user \in Users
      BY <1>7, HandlerFields DEF GrantInvited, HoldsInv, TaskHolds
    <3>3. grants \subseteq Ids \X Users /\ contested \subseteq Ids \X Users
      BY DEF TablesTyped
    <3> QED
      BY <3>1, <3>2, <3>3
  <2>8. UNCHANGED <<apps, nextId, wanted, keys, scopes, deploys, account>>
    BY <1>7 DEF GrantInvited, tables, people
  <2> QED
    BY <2>1, <2>8 DEF TablesTyped, Ids, Live
<1>8. CASE AssignRole
  <2>1. UNCHANGED <<apps, nextId, grants, wanted, contested, keys, scopes, deploys>>
        /\ Live' = Live
    BY <1>8 DEF AssignRole, tables, people, Live
  <2> QED
    BY <2>1 DEF TablesTyped, Ids
<1>9. CASE SetupCheck
  <2>1. UNCHANGED <<apps, nextId, grants, wanted, contested, keys, scopes, deploys>>
        /\ Live' = Live
    BY <1>9 DEF SetupCheck, tables, people, Live
  <2> QED
    BY <2>1 DEF TablesTyped, Ids
<1>10. ASSUME NEW u \in Users, SetupCreate(u)
      PROVE  TablesTyped'
  <2>1. Create(u, {"admin"}) /\ {"admin"} \in SUBSET Roles
    BY <1>10 DEF SetupCreate, Roles
  <2>2. Live' = Live \union {u}
    BY <2>1, Creates
  <2>3. UNCHANGED <<apps, nextId, grants, wanted, contested, keys, scopes, deploys>>
    BY <1>10 DEF SetupCreate, tables
  <2> QED
    BY <2>2, <2>3 DEF TablesTyped, Ids
<1>11. CASE SetupAssign
  <2>1. UNCHANGED <<apps, nextId, grants, wanted, contested, keys, scopes, deploys>>
        /\ Live' = Live
    BY <1>11 DEF SetupAssign, tables, people, Live
  <2> QED
    BY <2>1 DEF TablesTyped, Ids
<1>12. CASE SetupKilled
  <2>1. UNCHANGED <<apps, nextId, grants, wanted, contested, keys, scopes, deploys>>
        /\ Live' = Live
    BY <1>12 DEF SetupKilled, tables, people, Live
  <2> QED
    BY <2>1 DEF TablesTyped, Ids
<1>13. CASE Crash
  <2>1. contested' \subseteq Ids \X Users
    <3> DEFINE writing == {w \in Workers : Busy(w, {"check", "write"})}
    <3>1. contested' = contested \union (UNION {{job[w].id} \X Users : w \in writing})
              \union (IF handler.pc = "grant" THEN handler.todo \X {handler.user} ELSE {})
      BY <1>13 DEF Crash
    <3>2. \A w \in writing : job[w].id \in Ids
      BY DEF HoldsInv, HoldsOf, Busy, WithId
    <3>3. handler.pc = "grant" => handler.todo \subseteq Ids /\ handler.user \in Users
      BY HandlerFields DEF HoldsInv, TaskHolds
    <3>4. contested \subseteq Ids \X Users
      BY DEF TablesTyped
    <3> DEFINE written == UNION {{job[v].id} \X Users : v \in writing}
               toGrant == IF handler.pc = "grant" THEN handler.todo \X {handler.user} ELSE {}
    <3> HIDE DEF writing
    <3>5. contested' = (contested \union written) \union toGrant
      BY <3>1, Zenon
    <3>6. written \subseteq Ids \X Users
      BY <3>2
    <3>7. toGrant \subseteq Ids \X Users
      BY <3>3
    <3> HIDE DEF written, toGrant
    <3> QED
      BY <3>4, <3>5, <3>6, <3>7
  <2>8. UNCHANGED <<apps, nextId, grants, wanted, keys, scopes, deploys, account>>
    BY <1>13 DEF Crash, tables, people
  <2> QED
    BY <2>1, <2>8 DEF TablesTyped, Ids, Live
<1>14. ASSUME NEW w \in Workers, NEW u \in Users, Begin(w, u)
      PROVE  TablesTyped'
  <2>1. PICK j \in Job : Starts(w, u, j)
    BY <1>14, BeginStarts
  <2> QED
    BY <2>1 DEF Starts, TablesTyped, Live, Ids, people, tables
<1>15. ASSUME NEW w \in Workers, CheckPending(w)
      PROVE  TablesTyped'
  <2>1. UNCHANGED <<apps, nextId, grants, wanted, contested, keys, scopes, deploys>>
        /\ Live' = Live
    BY <1>15 DEF CheckPending, tables, people, Live
  <2> QED
    BY <2>1 DEF TablesTyped, Ids
<1>16. ASSUME NEW w \in Workers, CreateInvitation(w)
      PROVE  TablesTyped'
  <2>1. UNCHANGED <<apps, nextId, grants, wanted, contested, keys, scopes, deploys>>
        /\ Live' = Live
    BY <1>16 DEF CreateInvitation, tables, people, Live
  <2> QED
    BY <2>1 DEF TablesTyped, Ids
<1>17. ASSUME NEW w \in Workers, RevokeInvitation(w)
      PROVE  TablesTyped'
  <2>1. UNCHANGED <<apps, nextId, grants, wanted, contested, keys, scopes, deploys>>
        /\ Live' = Live
    BY <1>17 DEF RevokeInvitation, tables, people, Live
  <2> QED
    BY <2>1 DEF TablesTyped, Ids
<1>18. ASSUME NEW w \in Workers, ReadRoles(w)
      PROVE  TablesTyped'
  <2>1. UNCHANGED <<apps, nextId, grants, wanted, contested, keys, scopes, deploys>>
        /\ Live' = Live
    BY <1>18 DEF ReadRoles, tables, people, Live
  <2> QED
    BY <2>1 DEF TablesTyped, Ids
<1>19. ASSUME NEW w \in Workers, UnassignRole(w)
      PROVE  TablesTyped'
  <2>1. UNCHANGED <<apps, nextId, grants, wanted, contested, keys, scopes, deploys>>
        /\ Live' = Live
    BY <1>19 DEF UnassignRole, tables, people, Live
  <2> QED
    BY <2>1 DEF TablesTyped, Ids
<1>20. ASSUME NEW w \in Workers, AssignNewRole(w)
      PROVE  TablesTyped'
  <2>1. UNCHANGED <<apps, nextId, grants, wanted, contested, keys, scopes, deploys>>
        /\ Live' = Live
    BY <1>20 DEF AssignNewRole, tables, people, Live
  <2> QED
    BY <2>1 DEF TablesTyped, Ids
<1>21. ASSUME NEW w \in Workers, RemoveUser(w)
      PROVE  TablesTyped'
  <2>1. job[w].target \in Users
    BY <1>21, JobFields DEF RemoveUser, Busy, Personal
  <2>2. /\ \/ Live' = Live \ {job[w].target}
              /\ keys' = {k \in keys : k.owner # job[w].target}
           \/ Live' = Live /\ keys' = keys
        /\ UNCHANGED <<apps, nextId, grants, wanted, contested, scopes, deploys>>
    BY <1>21, <2>1 DEF RemoveUser, Live, PeopleTyped, TypeInv
  <2> QED
    BY <2>2 DEF TablesTyped, Ids
<1>22. ASSUME NEW w \in Workers, InsertApp(w)
      PROVE  TablesTyped'
  <2> DEFINE s == job[w].slug
  <2>1. s \in Slugs
    BY <1>22, JobFields DEF InsertApp, Busy
  <2> HIDE DEF s
  <2>2. CASE apps[s] # 0
    BY <1>22, <2>2 DEF InsertApp, TablesTyped, Ids, Live, people, s
  <2>3. CASE apps[s] = 0
    <3>1. /\ apps' = [apps EXCEPT ![s] = nextId] /\ nextId' = nextId + 1
          /\ wanted' \subseteq wanted /\ contested' \subseteq contested
          /\ UNCHANGED <<account, grants, keys, scopes, deploys>>
      BY <1>22, <2>3 DEF InsertApp, NewId, people, s
    <3>2. Ids \subseteq Ids' /\ nextId' \in Nat /\ nextId' > 0
      BY <3>1 DEF TablesTyped, Ids
    <3>3. /\ apps' \in [Slugs -> Nat] /\ apps'[Default] # 0
          /\ \A t \in Slugs : apps'[t] < nextId'
      BY <2>1, <3>1 DEF TablesTyped
    <3>4. /\ grants' \subseteq Ids' \X Users /\ wanted' \subseteq Ids' \X Users
          /\ contested' \subseteq Ids' \X Users
      BY <3>1, <3>2 DEF TablesTyped
    <3>5. /\ keys' \subseteq [token : Workers \X Nat, owner : Users]
          /\ \A k \in keys' : k.owner \in Live'
      BY <3>1 DEF TablesTyped, Live
    <3>6. scopes' \subseteq [token : Workers \X Nat, app : Ids', era : Nat]
      BY <3>1, <3>2 DEF TablesTyped
    <3>7. deploys' \subseteq [app : Ids', slug : Slugs]
      BY <3>1, <3>2 DEF TablesTyped
    <3> QED
      BY <3>2, <3>3, <3>4, <3>5, <3>6, <3>7 DEF TablesTyped
  <2> QED
    BY <2>2, <2>3
<1>23. ASSUME NEW w \in Workers, ListUsers(w)
      PROVE  TablesTyped'
  <2>1. wanted' \subseteq Ids \X Users /\ contested' \subseteq Ids \X Users
    <3>1. job[w].id \in Ids
      BY <1>23 DEF ListUsers, Busy, HoldsInv, HoldsOf, WithId
    <3>2. \A u \in job[w].granted \intersect Live : u \in Users
      BY DEF Live
    <3>3. /\ wanted' \subseteq wanted \union ({job[w].id} \X (job[w].granted \intersect Live))
          /\ contested' \subseteq contested \union ({job[w].id} \X Users)
      BY <1>23 DEF ListUsers, Live
    <3>4. wanted \subseteq Ids \X Users /\ contested \subseteq Ids \X Users
      BY DEF TablesTyped
    <3> QED
      BY <3>1, <3>2, <3>3, <3>4
  <2>8. UNCHANGED <<apps, nextId, grants, keys, scopes, deploys, account>>
    BY <1>23 DEF ListUsers, tables, people
  <2> QED
    BY <2>1, <2>8 DEF TablesTyped, Ids, Live
<1>24. ASSUME NEW w \in Workers, CheckGrant(w)
      PROVE  TablesTyped'
  <2>1. UNCHANGED <<apps, nextId, grants, wanted, contested, keys, scopes, deploys>>
        /\ Live' = Live
    BY <1>24 DEF CheckGrant, tables, people, Live
  <2> QED
    BY <2>1 DEF TablesTyped, Ids
<1>25. ASSUME NEW w \in Workers, WriteGrant(w)
      PROVE  TablesTyped'
  <2>1. grants' \subseteq Ids \X Users
    <3>1. job[w].id \in Ids /\ job[w].user \in Users
      BY <1>25, JobFields DEF WriteGrant, Busy, HoldsInv, HoldsOf, WithId
    <3>2. grants' \subseteq grants \union {<<job[w].id, job[w].user>>}
      BY <1>25 DEF WriteGrant
    <3>3. grants \subseteq Ids \X Users
      BY DEF TablesTyped
    <3> QED
      BY <3>1, <3>2, <3>3
  <2>8. UNCHANGED <<apps, nextId, wanted, contested, keys, scopes, deploys, account>>
    BY <1>25 DEF WriteGrant, tables, people
  <2> QED
    BY <2>1, <2>8 DEF TablesTyped, Ids, Live
<1>26. ASSUME NEW w \in Workers, CreateKey(w)
      PROVE  TablesTyped'
  <2>1. /\ keys' \subseteq [token : Workers \X Nat, owner : Users]
        /\ \A k \in keys' : k.owner \in Live
    BY <1>26 DEF CreateKey, TablesTyped, TypeInv, ContentTyped, Live
  <2>8. UNCHANGED <<apps, nextId, grants, wanted, contested, scopes, deploys, account>>
    BY <1>26 DEF CreateKey, tables, people
  <2> QED
    BY <2>1, <2>8 DEF TablesTyped, Ids, Live
<1>27. ASSUME NEW w \in Workers, ScopeKey(w)
      PROVE  TablesTyped'
  <2>1. scopes' \subseteq [token : Workers \X Nat, app : Ids, era : Nat]
    <3>1. job[w].token \in Workers \X Nat /\ job[w].id \in Ids /\ job[w].era \in Nat
      BY <1>27, JobFields DEF ScopeKey, Busy, HoldsInv, HoldsOf, WithId
    <3> QED
      BY <1>27, <3>1 DEF ScopeKey, TablesTyped
  <2>8. UNCHANGED <<apps, nextId, grants, wanted, contested, keys, deploys, account>>
    BY <1>27 DEF ScopeKey, tables, people
  <2> QED
    BY <2>1, <2>8 DEF TablesTyped, Ids, Live
<1>28. ASSUME NEW w \in Workers, DeleteKey(w)
      PROVE  TablesTyped'
  <2>1. keys' \subseteq keys
    BY <1>28 DEF DeleteKey
  <2>8. UNCHANGED <<apps, nextId, grants, wanted, contested, scopes, deploys, account>>
    BY <1>28 DEF DeleteKey, tables, people
  <2> QED
    BY <2>1, <2>8 DEF TablesTyped, Ids, Live
<1>29. ASSUME NEW w \in Workers, DeleteScope(w)
      PROVE  TablesTyped'
  <2>1. scopes' \subseteq scopes
    BY <1>29 DEF DeleteScope
  <2>8. UNCHANGED <<apps, nextId, grants, wanted, contested, keys, deploys, account>>
    BY <1>29 DEF DeleteScope, tables, people
  <2> QED
    BY <2>1, <2>8 DEF TablesTyped, Ids, Live
<1>30. ASSUME NEW w \in Workers, WriteFile(w)
      PROVE  TablesTyped'
  <2>1. UNCHANGED <<apps, nextId, grants, wanted, contested, keys, scopes, deploys>>
        /\ Live' = Live
    BY <1>30 DEF WriteFile, tables, people, Live
  <2> QED
    BY <2>1 DEF TablesTyped, Ids
<1>31. ASSUME NEW w \in Workers, ReloadEntry(w)
      PROVE  TablesTyped'
  <2>1. UNCHANGED <<apps, nextId, grants, wanted, contested, keys, scopes, deploys>>
        /\ Live' = Live
    BY <1>31 DEF ReloadEntry, tables, people, Live
  <2> QED
    BY <2>1 DEF TablesTyped, Ids
<1>32. ASSUME NEW w \in Workers, InsertDeployment(w)
      PROVE  TablesTyped'
  <2>1. deploys' \subseteq [app : Ids, slug : Slugs]
    <3>1. job[w].id \in Ids /\ job[w].slug \in Slugs
      BY <1>32, JobFields DEF InsertDeployment, Busy, HoldsInv, HoldsOf, WithId,
         OfAnApp
    <3> QED
      BY <1>32, <3>1 DEF InsertDeployment, TablesTyped
  <2>8. UNCHANGED <<apps, nextId, grants, wanted, contested, keys, scopes, account>>
    BY <1>32 DEF InsertDeployment, tables, people
  <2> QED
    BY <2>1, <2>8 DEF TablesTyped, Ids, Live
<1>33. ASSUME NEW w \in Workers, CancelDeployments(w)
      PROVE  TablesTyped'
  <2>1. deploys' \subseteq deploys
    BY <1>33 DEF CancelDeployments
  <2>8. UNCHANGED <<apps, nextId, grants, wanted, contested, keys, scopes, account>>
    BY <1>33 DEF CancelDeployments, tables, people
  <2> QED
    BY <2>1, <2>8 DEF TablesTyped, Ids, Live
<1>34. ASSUME NEW w \in Workers, DeleteRow(w)
      PROVE  TablesTyped'
  <2>1. /\ apps' \in [Slugs -> Nat] /\ \A s \in Slugs : apps'[s] < nextId
        /\ apps'[Default] # 0
    <3>1. /\ job[w].slug # Default
          /\ (apps[Default] = job[w].id => Default = job[w].slug)
      BY <1>34, AccessAssumption DEF DeleteRow, Busy, HoldsInv, HoldsOf, IdsInv,
         IdOf, Drops, OfAnApp
    <3>2. apps' = [s \in Slugs |-> IF apps[s] = job[w].id THEN 0 ELSE apps[s]]
      BY <1>34 DEF DeleteRow
    <3>3. \A s \in Slugs : apps'[s] = IF apps[s] = job[w].id THEN 0 ELSE apps[s]
      BY <3>2
    <3>4. apps'[Default] = apps[Default]
      BY <3>1, <3>3, AccessAssumption
    <3>5. nextId > 0 /\ nextId \in Nat
      BY DEF TablesTyped
    <3> QED
      BY <3>2, <3>3, <3>4, <3>5 DEF TablesTyped
  <2>8. UNCHANGED <<nextId, grants, wanted, contested, keys, scopes, deploys, account>>
    BY <1>34 DEF DeleteRow, tables, people
  <2> QED
    BY <2>1, <2>8 DEF TablesTyped, Ids, Live
<1>35. ASSUME NEW w \in Workers, RemoveDirectory(w)
      PROVE  TablesTyped'
  <2>1. UNCHANGED <<apps, nextId, grants, wanted, contested, keys, scopes, deploys>>
        /\ Live' = Live
    BY <1>35 DEF RemoveDirectory, tables, people, Live
  <2> QED
    BY <2>1 DEF TablesTyped, Ids
<1>36. ASSUME NEW w \in Workers, RemoveCached(w)
      PROVE  TablesTyped'
  <2>1. UNCHANGED <<apps, nextId, grants, wanted, contested, keys, scopes, deploys>>
        /\ Live' = Live
    BY <1>36 DEF RemoveCached, tables, people, Live
  <2> QED
    BY <2>1 DEF TablesTyped, Ids
<1> QED
  BY <1>1, <1>2, <1>3, <1>4, <1>5, <1>6, <1>7, <1>8, <1>9, <1>10, <1>11, <1>12,
     <1>13, <1>14, <1>15, <1>16, <1>17, <1>18, <1>19, <1>20, <1>21, <1>22,
     <1>23, <1>24, <1>25, <1>26, <1>27, <1>28, <1>29, <1>30, <1>31, <1>32,
     <1>33, <1>34, <1>35, <1>36 DEF Next, Registration, CreateAdmin, Step

\* Every step leaves the content and the counters typed.
LEMMA ContentTypedStep ==
  ASSUME TypeInv, [Next]_vars
  PROVE  ContentTyped'
<1>0. ContentTyped /\ \A w \in Workers : job[w] \in Job
  BY DEF TypeInv, JobsTyped
<1> USE <1>0
<1>1. CASE UNCHANGED vars
  BY <1>1 DEF vars, ContentTyped, content, counters
<1>2. ASSUME NEW u \in Users, Register(u)
      PROVE  ContentTyped'
  BY <1>2 DEF Register, ContentTyped, content, counters
<1>3. ASSUME NEW u \in Users, NEW r \in Roles, AcceptInvitation(u, r)
      PROVE  ContentTyped'
  BY <1>3 DEF AcceptInvitation, ContentTyped, content, counters
<1>4. CASE TakeEvent
  BY <1>4 DEF TakeEvent, ContentTyped, content, counters
<1>5. CASE CountUsers
  BY <1>5 DEF CountUsers, ContentTyped, content, counters
<1>6. CASE ListApps
  BY <1>6 DEF ListApps, ContentTyped, content, counters
<1>7. CASE GrantInvited
  BY <1>7 DEF GrantInvited, ContentTyped, content, counters
<1>8. CASE AssignRole
  BY <1>8 DEF AssignRole, ContentTyped, content, counters
<1>9. CASE SetupCheck
  BY <1>9 DEF SetupCheck, ContentTyped, content, counters
<1>10. ASSUME NEW u \in Users, SetupCreate(u)
      PROVE  ContentTyped'
  BY <1>10 DEF SetupCreate, ContentTyped, content, counters
<1>11. CASE SetupAssign
  BY <1>11 DEF SetupAssign, ContentTyped, content, counters
<1>12. CASE SetupKilled
  BY <1>12 DEF SetupKilled, ContentTyped, content, counters
<1>13. CASE Crash
  <2>1. spoiled' \subseteq Slugs
    <3>1. \A w \in Workers : Busy(w, {"dir"}) => job[w].slug \in Slugs
      BY JobFields DEF Busy, OfAnApp, Drops
    <3> QED
      BY <1>13, <3>1 DEF Crash, ContentTyped
  <2>2. cache' = disk /\ crashes' = crashes + 1 /\ UNCHANGED <<disk, era, requests>>
    BY <1>13 DEF Crash, Populate
  <2> QED
    BY <2>1, <2>2 DEF ContentTyped
<1>14. ASSUME NEW w \in Workers, NEW u \in Users, Begin(w, u)
      PROVE  ContentTyped'
  <2>1. PICK j \in Job : Starts(w, u, j)
    BY <1>14, BeginStarts
  <2> QED
    BY <2>1 DEF Starts, ContentTyped, content
<1>15. ASSUME NEW w \in Workers, CheckPending(w)
      PROVE  ContentTyped'
  BY <1>15 DEF CheckPending, ContentTyped, content, counters
<1>16. ASSUME NEW w \in Workers, CreateInvitation(w)
      PROVE  ContentTyped'
  BY <1>16 DEF CreateInvitation, ContentTyped, content, counters
<1>17. ASSUME NEW w \in Workers, RevokeInvitation(w)
      PROVE  ContentTyped'
  BY <1>17 DEF RevokeInvitation, ContentTyped, content, counters
<1>18. ASSUME NEW w \in Workers, ReadRoles(w)
      PROVE  ContentTyped'
  BY <1>18 DEF ReadRoles, ContentTyped, content, counters
<1>19. ASSUME NEW w \in Workers, UnassignRole(w)
      PROVE  ContentTyped'
  BY <1>19 DEF UnassignRole, ContentTyped, content, counters
<1>20. ASSUME NEW w \in Workers, AssignNewRole(w)
      PROVE  ContentTyped'
  BY <1>20 DEF AssignNewRole, ContentTyped, content, counters
<1>21. ASSUME NEW w \in Workers, RemoveUser(w)
      PROVE  ContentTyped'
  BY <1>21 DEF RemoveUser, ContentTyped, content, counters
<1>22. ASSUME NEW w \in Workers, InsertApp(w)
      PROVE  ContentTyped'
  <2>1. job[w].slug \in Slugs
    BY <1>22, JobFields DEF InsertApp, Busy, OfAnApp, Drops
  <2> QED
    BY <1>22, <2>1 DEF InsertApp, ContentTyped, content, counters
<1>23. ASSUME NEW w \in Workers, ListUsers(w)
      PROVE  ContentTyped'
  BY <1>23 DEF ListUsers, ContentTyped, content, counters
<1>24. ASSUME NEW w \in Workers, CheckGrant(w)
      PROVE  ContentTyped'
  BY <1>24 DEF CheckGrant, ContentTyped, content, counters
<1>25. ASSUME NEW w \in Workers, WriteGrant(w)
      PROVE  ContentTyped'
  BY <1>25 DEF WriteGrant, ContentTyped, content, counters
<1>26. ASSUME NEW w \in Workers, CreateKey(w)
      PROVE  ContentTyped'
  BY <1>26 DEF CreateKey, ContentTyped, content, counters
<1>27. ASSUME NEW w \in Workers, ScopeKey(w)
      PROVE  ContentTyped'
  BY <1>27 DEF ScopeKey, ContentTyped, content, counters
<1>28. ASSUME NEW w \in Workers, DeleteKey(w)
      PROVE  ContentTyped'
  BY <1>28 DEF DeleteKey, ContentTyped, content, counters
<1>29. ASSUME NEW w \in Workers, DeleteScope(w)
      PROVE  ContentTyped'
  BY <1>29 DEF DeleteScope, ContentTyped, content, counters
<1>30. ASSUME NEW w \in Workers, WriteFile(w)
      PROVE  ContentTyped'
  <2>1. job[w].slug \in Slugs /\ job[w].era \in Nat
    BY <1>30, JobFields DEF WriteFile, Busy, OfAnApp, Drops
  <2> QED
    BY <1>30, <2>1 DEF WriteFile, Spoil, ContentTyped, content, counters
<1>31. ASSUME NEW w \in Workers, ReloadEntry(w)
      PROVE  ContentTyped'
  <2>1. job[w].slug \in Slugs /\ job[w].era \in Nat
    BY <1>31, JobFields DEF ReloadEntry, Busy, OfAnApp, Drops
  <2> QED
    BY <1>31, <2>1 DEF ReloadEntry, Spoil, ContentTyped, content, counters
<1>32. ASSUME NEW w \in Workers, InsertDeployment(w)
      PROVE  ContentTyped'
  <2>1. job[w].slug \in Slugs /\ job[w].era \in Nat
    BY <1>32, JobFields DEF InsertDeployment, Busy, OfAnApp, Drops
  <2> QED
    BY <1>32, <2>1 DEF InsertDeployment, Spoil, ContentTyped, content, counters
<1>33. ASSUME NEW w \in Workers, CancelDeployments(w)
      PROVE  ContentTyped'
  BY <1>33 DEF CancelDeployments, ContentTyped, content, counters
<1>34. ASSUME NEW w \in Workers, DeleteRow(w)
      PROVE  ContentTyped'
  BY <1>34 DEF DeleteRow, ContentTyped, content, counters
<1>35. ASSUME NEW w \in Workers, RemoveDirectory(w)
      PROVE  ContentTyped'
  <2>1. job[w].slug \in Slugs
    BY <1>35, JobFields DEF RemoveDirectory, Busy, OfAnApp, Drops
  <2> QED
    BY <1>35, <2>1 DEF RemoveDirectory, ContentTyped, content, counters
<1>36. ASSUME NEW w \in Workers, RemoveCached(w)
      PROVE  ContentTyped'
  <2>1. job[w].slug \in Slugs
    BY <1>36, JobFields DEF RemoveCached, Busy, OfAnApp, Drops
  <2> QED
    BY <1>36, <2>1 DEF RemoveCached, ContentTyped, content, counters
<1> QED
  BY <1>1, <1>2, <1>3, <1>4, <1>5, <1>6, <1>7, <1>8, <1>9, <1>10, <1>11, <1>12,
     <1>13, <1>14, <1>15, <1>16, <1>17, <1>18, <1>19, <1>20, <1>21, <1>22,
     <1>23, <1>24, <1>25, <1>26, <1>27, <1>28, <1>29, <1>30, <1>31, <1>32,
     <1>33, <1>34, <1>35, <1>36 DEF Next, Registration, CreateAdmin, Step

\* An account, once made, stays; and so does an id that an app has had.
LEMMA Stays ==
  ASSUME TypeInv, [Next]_vars
  PROVE  /\ \A u \in Users : account[u] # "none" => account'[u] # "none"
         /\ Ids \subseteq Ids' /\ nextId \in Nat /\ nextId' \in {nextId, nextId + 1}
<1>0. nextId \in Nat /\ PeopleTyped /\ \A w \in Workers : job[w] \in Job
  BY DEF TypeInv, JobsTyped, TablesTyped
<1> DEFINE Goal == /\ \A u \in Users : account[u] # "none" => account'[u] # "none"
                   /\ Ids \subseteq Ids' /\ nextId' \in {nextId, nextId + 1}
<1>1. ASSUME UNCHANGED vars PROVE Goal
  BY <1>0, <1>1 DEF vars, people, tables, Ids
<1>2. ASSUME NEW u \in Users, Register(u)
      PROVE  Goal
  <2>1. /\ Create(u, (IF Live = {} THEN {"admin"} ELSE {}))
        /\ (IF Live = {} THEN {"admin"} ELSE {}) \in SUBSET Roles
        /\ nextId' = nextId
    BY <1>2 DEF Register, Roles, tables
  <2> QED
    BY <1>0, <2>1, Creates DEF Ids
<1>3. ASSUME NEW u \in Users, NEW r \in Roles, AcceptInvitation(u, r)
      PROVE  Goal
  <2>1. Create(u, {r}) /\ {r} \in SUBSET Roles /\ nextId' = nextId
    BY <1>3 DEF AcceptInvitation, Roles, tables
  <2> QED
    BY <1>0, <2>1, Creates DEF Ids
<1>4. ASSUME TakeEvent PROVE Goal
  BY <1>4 DEF TakeEvent, people, tables, Ids
<1>5. ASSUME CountUsers PROVE Goal
  BY <1>5 DEF CountUsers, people, tables, Ids
<1>6. ASSUME ListApps PROVE Goal
  BY <1>6 DEF ListApps, people, tables, Ids
<1>7. ASSUME GrantInvited PROVE Goal
  BY <1>7 DEF GrantInvited, people, tables, Ids
<1>8. ASSUME AssignRole PROVE Goal
  BY <1>8 DEF AssignRole, people, tables, Ids
<1>9. ASSUME SetupCheck PROVE Goal
  BY <1>9 DEF SetupCheck, people, tables, Ids
<1>10. ASSUME NEW u \in Users, SetupCreate(u)
      PROVE  Goal
  <2>1. Create(u, {"admin"}) /\ {"admin"} \in SUBSET Roles /\ nextId' = nextId
    BY <1>10 DEF SetupCreate, Roles, tables
  <2> QED
    BY <1>0, <2>1, Creates DEF Ids
<1>11. ASSUME SetupAssign PROVE Goal
  BY <1>11 DEF SetupAssign, people, tables, Ids
<1>12. ASSUME SetupKilled PROVE Goal
  BY <1>12 DEF SetupKilled, people, tables, Ids
<1>13. ASSUME Crash PROVE Goal
  BY <1>13 DEF Crash, people, tables, Ids
<1>14. ASSUME NEW w \in Workers, NEW u \in Users, Begin(w, u)
      PROVE  Goal
  <2>1. PICK j \in Job : Starts(w, u, j)
    BY <1>14, BeginStarts
  <2> QED
    BY <2>1 DEF Starts, people, tables, Ids
<1>15. ASSUME NEW w \in Workers, CheckPending(w)
      PROVE  Goal
  BY <1>15 DEF CheckPending, people, tables, Ids
<1>16. ASSUME NEW w \in Workers, CreateInvitation(w)
      PROVE  Goal
  BY <1>16 DEF CreateInvitation, people, tables, Ids
<1>17. ASSUME NEW w \in Workers, RevokeInvitation(w)
      PROVE  Goal
  BY <1>17 DEF RevokeInvitation, people, tables, Ids
<1>18. ASSUME NEW w \in Workers, ReadRoles(w)
      PROVE  Goal
  BY <1>18 DEF ReadRoles, people, tables, Ids
<1>19. ASSUME NEW w \in Workers, UnassignRole(w)
      PROVE  Goal
  BY <1>19 DEF UnassignRole, people, tables, Ids
<1>20. ASSUME NEW w \in Workers, AssignNewRole(w)
      PROVE  Goal
  BY <1>20 DEF AssignNewRole, people, tables, Ids
<1>21. ASSUME NEW w \in Workers, RemoveUser(w)
      PROVE  Goal
  <2>1. job[w].target \in Users
    BY <1>0, <1>21, JobFields DEF RemoveUser, Busy, Personal
  <2> QED
    BY <1>0, <1>21, <2>1 DEF RemoveUser, PeopleTyped, Ids
<1>22. ASSUME NEW w \in Workers, InsertApp(w)
      PROVE  Goal
  <2>1. nextId' \in {nextId, nextId + 1} /\ account' = account
    BY <1>22 DEF InsertApp, people
  <2>2. Ids \subseteq Ids'
    <3>1. nextId \in Nat
      BY <1>0
    <3>2. 1..(nextId - 1) \subseteq 1..((nextId + 1) - 1)
      BY <3>1
    <3>3. CASE nextId' = nextId
      BY <3>3 DEF Ids
    <3>4. CASE nextId' = nextId + 1
      BY <3>2, <3>4 DEF Ids
    <3> QED
      BY <2>1, <3>3, <3>4
  <2> QED
    BY <1>0, <2>1, <2>2
<1>23. ASSUME NEW w \in Workers, ListUsers(w)
      PROVE  Goal
  BY <1>23 DEF ListUsers, people, tables, Ids
<1>24. ASSUME NEW w \in Workers, CheckGrant(w)
      PROVE  Goal
  BY <1>24 DEF CheckGrant, people, tables, Ids
<1>25. ASSUME NEW w \in Workers, WriteGrant(w)
      PROVE  Goal
  BY <1>25 DEF WriteGrant, people, tables, Ids
<1>26. ASSUME NEW w \in Workers, CreateKey(w)
      PROVE  Goal
  BY <1>26 DEF CreateKey, people, tables, Ids
<1>27. ASSUME NEW w \in Workers, ScopeKey(w)
      PROVE  Goal
  BY <1>27 DEF ScopeKey, people, tables, Ids
<1>28. ASSUME NEW w \in Workers, DeleteKey(w)
      PROVE  Goal
  BY <1>28 DEF DeleteKey, people, tables, Ids
<1>29. ASSUME NEW w \in Workers, DeleteScope(w)
      PROVE  Goal
  BY <1>29 DEF DeleteScope, people, tables, Ids
<1>30. ASSUME NEW w \in Workers, WriteFile(w)
      PROVE  Goal
  BY <1>30 DEF WriteFile, people, tables, Ids
<1>31. ASSUME NEW w \in Workers, ReloadEntry(w)
      PROVE  Goal
  BY <1>31 DEF ReloadEntry, people, tables, Ids
<1>32. ASSUME NEW w \in Workers, InsertDeployment(w)
      PROVE  Goal
  BY <1>32 DEF InsertDeployment, people, tables, Ids
<1>33. ASSUME NEW w \in Workers, CancelDeployments(w)
      PROVE  Goal
  BY <1>33 DEF CancelDeployments, people, tables, Ids
<1>34. ASSUME NEW w \in Workers, DeleteRow(w)
      PROVE  Goal
  BY <1>34 DEF DeleteRow, people, tables, Ids
<1>35. ASSUME NEW w \in Workers, RemoveDirectory(w)
      PROVE  Goal
  BY <1>35 DEF RemoveDirectory, people, tables, Ids
<1>36. ASSUME NEW w \in Workers, RemoveCached(w)
      PROVE  Goal
  BY <1>36 DEF RemoveCached, people, tables, Ids
<1> HIDE DEF Goal
<1>37. Goal
  BY <1>1, <1>2, <1>3, <1>4, <1>5, <1>6, <1>7, <1>8, <1>9, <1>10, <1>11, <1>12,
     <1>13, <1>14, <1>15, <1>16, <1>17, <1>18, <1>19, <1>20, <1>21, <1>22,
     <1>23, <1>24, <1>25, <1>26, <1>27, <1>28, <1>29, <1>30, <1>31, <1>32,
     <1>33, <1>34, <1>35, <1>36 DEF Next, Registration, CreateAdmin, Step
<1> QED
  BY <1>0, <1>37 DEF Goal

\* Every step leaves the jobs and the task with what they refer to.
LEMMA HoldsInvStep ==
  ASSUME TypeInv, HoldsInv, [Next]_vars
  PROVE  HoldsInv'
<1>0. \A w \in Workers : job[w] \in Job
  BY DEF TypeInv, JobsTyped
<1> USE <1>0
<1>d. /\ \A u \in Users : account[u] # "none" => account'[u] # "none"
      /\ Ids \subseteq Ids'
  BY Stays
<1>a. \A v \in Workers : job'[v] = job[v] => HoldsOf(v)'
  <2> SUFFICES ASSUME NEW v \in Workers, job'[v] = job[v] PROVE HoldsOf(v)'
    OBVIOUS
  <2>1. HoldsOf(v) /\ job[v] \in Job
    BY DEF HoldsInv
  <2> QED
    BY <1>d, <2>1, JobFields DEF HoldsOf, Busy, Personal
<1>b. \A v \in Workers : job'[v] = Idle => HoldsOf(v)'
  BY IdleTyped DEF HoldsOf, Busy, Personal, WithId, OfAnApp, Drops
<1>c. handler' = handler => TaskHolds'
  BY <1>d DEF TaskHolds, HoldsInv
<1>1. CASE UNCHANGED vars
  BY <1>1, <1>a, <1>c DEF vars, people, HoldsInv
<1>2. ASSUME NEW u \in Users, Register(u)
      PROVE  HoldsInv'
  BY <1>2, <1>a, <1>c DEF Register, people, HoldsInv
<1>3. ASSUME NEW u \in Users, NEW r \in Roles, AcceptInvitation(u, r)
      PROVE  HoldsInv'
  BY <1>3, <1>a, <1>c DEF AcceptInvitation, people, HoldsInv
<1>4. CASE TakeEvent
  <2>1. job' = job
    BY <1>4 DEF TakeEvent
  <2>2. TaskHolds'
    BY <1>4, Takes, EventFields DEF TaskHolds, Roles
  <2> QED
    BY <1>a, <2>1, <2>2 DEF HoldsInv
<1>5. CASE CountUsers
  <2>1. job' = job
    BY <1>5 DEF CountUsers
  <2>2. TaskHolds'
    BY <1>5, HandlerFields, IdleTyped DEF CountUsers, TaskHolds, Roles, TypeInv,
       PeopleTyped, Handler
  <2> QED
    BY <1>a, <2>1, <2>2 DEF HoldsInv
<1>6. CASE ListApps
  <2>1. job' = job
    BY <1>6 DEF ListApps
  <2>2. TaskHolds'
    <3>1. AppIds \subseteq Ids /\ Ids' = Ids
      BY <1>6, AppIds1 DEF AppIds, ListApps, tables, Ids
    <3>2. /\ handler.pc = "list"
          /\ handler' = [handler EXCEPT !.pc = "grant", !.todo = AppIds]
          /\ handler \in Handler
      BY <1>6 DEF ListApps, TypeInv, PeopleTyped
    <3>3. /\ handler'.pc = "grant" /\ handler'.todo = AppIds
          /\ handler'.role = handler.role
      BY <3>2 DEF Handler
    <3> QED
      BY <3>1, <3>2, <3>3 DEF TaskHolds, HoldsInv
  <2> QED
    BY <1>a, <2>1, <2>2 DEF HoldsInv
<1>7. CASE GrantInvited
  <2>1. job' = job
    BY <1>7 DEF GrantInvited
  <2>2. TaskHolds'
    <3>1. handler.pc = "grant" /\ handler \in Handler /\ Ids' = Ids
      BY <1>7 DEF GrantInvited, Ids, TypeInv, PeopleTyped
    <3>2. PICK id \in handler.todo : handler' = [handler EXCEPT !.todo = handler.todo \ {id},
                        !.pc = IF handler.todo = {id} THEN "assign" ELSE "grant"]
      BY <1>7 DEF GrantInvited
    <3>3. handler'.pc \in {"assign", "grant"} /\ handler'.todo \subseteq handler.todo
          /\ handler'.role = handler.role
      BY <3>1, <3>2 DEF Handler
    <3> QED
      BY <3>1, <3>3 DEF TaskHolds, HoldsInv, Roles
  <2> QED
    BY <1>a, <2>1, <2>2 DEF HoldsInv
<1>8. CASE AssignRole
  <2>1. job' = job
    BY <1>8 DEF AssignRole
  <2>2. TaskHolds'
    BY <1>8, IdleTyped DEF AssignRole, TaskHolds
  <2> QED
    BY <1>a, <2>1, <2>2 DEF HoldsInv
<1>9. CASE SetupCheck
  BY <1>9, <1>a, <1>c DEF SetupCheck, people, HoldsInv
<1>10. ASSUME NEW u \in Users, SetupCreate(u)
      PROVE  HoldsInv'
  BY <1>10, <1>a, <1>c DEF SetupCreate, people, HoldsInv
<1>11. CASE SetupAssign
  BY <1>11, <1>a, <1>c DEF SetupAssign, people, HoldsInv
<1>12. CASE SetupKilled
  BY <1>12, <1>a, <1>c DEF SetupKilled, people, HoldsInv
<1>13. CASE Crash
  <2>1. handler' = Idle /\ \A v \in Workers : job'[v] = Idle
    BY <1>13 DEF Crash
  <2>2. TaskHolds'
    BY <2>1, IdleTyped DEF TaskHolds
  <2> QED
    BY <1>b, <2>1, <2>2 DEF HoldsInv
<1>14. ASSUME NEW w \in Workers, NEW u \in Users, Begin(w, u)
      PROVE  HoldsInv'
  <2>1. PICK j \in Job : Starts(w, u, j)
    BY <1>14, BeginStarts
  <2>2. /\ job'[w] = j /\ \A v \in Workers \ {w} : job'[v] = job[v]
        /\ UNCHANGED <<account, handler, nextId>>
    BY <2>1 DEF Starts, people, tables, TypeInv, JobsTyped
  <2>3. HoldsOf(w)'
    BY <2>1, <2>2 DEF Starts, HoldsOf, Busy, Ids
  <2> QED
    BY <1>a, <1>c, <2>2, <2>3 DEF HoldsInv
<1>15. ASSUME NEW w \in Workers, CheckPending(w)
      PROVE  HoldsInv'
  <2>1. handler' = handler /\ \A v \in Workers \ {w} : job'[v] = job[v]
    BY <1>15, GoesOn, Finishes DEF CheckPending, people, Busy, Follows
  <2>3. HoldsOf(w)'
    <3>1. CASE Finish(w)
      BY <1>b, <3>1, Finishes
    <3>2. CASE Go(w, "invite")
      BY <1>15, <3>2, GoesOn DEF CheckPending, Busy, Follows, HoldsOf, Personal,
         WithId, OfAnApp, Drops
    <3> QED
      BY <1>15, <3>1, <3>2 DEF CheckPending
  <2> QED
    BY <1>a, <1>c, <2>1, <2>3 DEF HoldsInv
<1>16. ASSUME NEW w \in Workers, CreateInvitation(w)
      PROVE  HoldsInv'
  <2>1. /\ handler' = handler /\ job'[w] = Idle
        /\ \A v \in Workers \ {w} : job'[v] = job[v]
    BY <1>16, Finishes DEF CreateInvitation, people
  <2> QED
    BY <1>a, <1>b, <1>c, <2>1 DEF HoldsInv
<1>17. ASSUME NEW w \in Workers, RevokeInvitation(w)
      PROVE  HoldsInv'
  <2>1. /\ handler' = handler /\ job'[w] = Idle
        /\ \A v \in Workers \ {w} : job'[v] = job[v]
    BY <1>17, Finishes DEF RevokeInvitation, people
  <2> QED
    BY <1>a, <1>b, <1>c, <2>1 DEF HoldsInv
<1>18. ASSUME NEW w \in Workers, ReadRoles(w)
      PROVE  HoldsInv'
  <2>1. handler' = handler /\ \A v \in Workers \ {w} : job'[v] = job[v]
    BY <1>18 DEF ReadRoles, people, TypeInv, JobsTyped
  <2>2. job'[w] = [job[w] EXCEPT !.pc = "unassign", !.todo = roles[job[w].target]]
        /\ job[w] \in Job /\ job[w].pc = "roles"
    BY <1>18 DEF ReadRoles, Busy, TypeInv, JobsTyped
  <2>4. /\ job'[w].pc = "unassign" /\ job'[w].by = job[w].by
        /\ job'[w].target = job[w].target
    BY <2>2 DEF Job
  <2>5. job[w].target \in Users
    BY <2>2, JobFields DEF Personal
  <2>3. HoldsOf(w)'
    BY <1>d, <2>2, <2>4, <2>5 DEF HoldsInv, HoldsOf, Busy, Personal, OfAnApp,
       Drops, WithId
  <2> QED
    BY <1>a, <1>c, <2>1, <2>3 DEF HoldsInv
<1>19. ASSUME NEW w \in Workers, UnassignRole(w)
      PROVE  HoldsInv'
  <2>1. handler' = handler /\ \A v \in Workers \ {w} : job'[v] = job[v]
    BY <1>19, GoesOn DEF UnassignRole, people, Busy, Follows, TypeInv, JobsTyped
  <2>2. job'[w].pc \in {"assign", "unassign"} /\ job'[w].by = job[w].by
        /\ job'[w].target = job[w].target /\ job[w].pc = "unassign"
    <3>1. job[w].pc = "unassign" /\ job[w] \in Job
      BY <1>19 DEF UnassignRole, Busy
    <3>2. CASE job[w].todo = {}
      BY <1>19, <3>1, <3>2, GoesOn DEF UnassignRole, Follows
    <3>3. CASE job[w].todo # {}
      <4>1. PICK r \in job[w].todo : job' = [job EXCEPT ![w].todo = job[w].todo \ {r}]
        BY <1>19, <3>3 DEF UnassignRole
      <4>2. job'[w] = [job[w] EXCEPT !.todo = job[w].todo \ {r}]
        BY <4>1 DEF TypeInv, JobsTyped
      <4> QED
        BY <3>1, <4>2 DEF Job
    <3> QED
      BY <3>2, <3>3
  <2>4. job[w].target \in Users
    BY <2>2, JobFields DEF Personal
  <2>3. HoldsOf(w)'
    BY <1>d, <2>2, <2>4 DEF HoldsInv, HoldsOf, Busy, Personal, OfAnApp, Drops,
       WithId
  <2> QED
    BY <1>a, <1>c, <2>1, <2>3 DEF HoldsInv
<1>20. ASSUME NEW w \in Workers, AssignNewRole(w)
      PROVE  HoldsInv'
  <2>1. /\ handler' = handler /\ job'[w] = Idle
        /\ \A v \in Workers \ {w} : job'[v] = job[v]
    BY <1>20, Finishes DEF AssignNewRole, people
  <2> QED
    BY <1>a, <1>b, <1>c, <2>1 DEF HoldsInv
<1>21. ASSUME NEW w \in Workers, RemoveUser(w)
      PROVE  HoldsInv'
  <2>1. /\ handler' = handler /\ job'[w] = Idle
        /\ \A v \in Workers \ {w} : job'[v] = job[v]
    BY <1>21, Finishes DEF RemoveUser, people
  <2> QED
    BY <1>a, <1>b, <1>c, <2>1 DEF HoldsInv
<1>22. ASSUME NEW w \in Workers, InsertApp(w)
      PROVE  HoldsInv'
  <2>1. /\ handler' = handler /\ job'[w] = Idle
        /\ \A v \in Workers \ {w} : job'[v] = job[v]
    BY <1>22, Finishes DEF InsertApp, people
  <2> QED
    BY <1>a, <1>b, <1>c, <2>1 DEF HoldsInv
<1>23. ASSUME NEW w \in Workers, ListUsers(w)
      PROVE  HoldsInv'
  <2>1. handler' = handler /\ \A v \in Workers \ {w} : job'[v] = job[v]
    BY <1>23 DEF ListUsers, people, TypeInv, JobsTyped
  <2>2. job'[w] = [job[w] EXCEPT !.pc = "check", !.todo = Live]
        /\ job[w] \in Job /\ job[w].pc = "list"
    BY <1>23 DEF ListUsers, Busy, TypeInv, JobsTyped
  <2>4. job'[w].pc = "check" /\ job'[w].id = job[w].id /\ job'[w].granted = job[w].granted
        /\ job'[w].todo = Live
    BY <2>2 DEF Job
  <2>5. job[w].granted \subseteq Users
    BY <2>2, JobFields
  <2>3. HoldsOf(w)'
    BY <1>d, <2>2, <2>4, <2>5 DEF HoldsInv, HoldsOf, Busy, Personal, OfAnApp,
       Drops, WithId, Live
  <2> QED
    BY <1>a, <1>c, <2>1, <2>3 DEF HoldsInv
<1>24. ASSUME NEW w \in Workers, CheckGrant(w)
      PROVE  HoldsInv'
  <2>1. handler' = handler /\ \A v \in Workers \ {w} : job'[v] = job[v]
    BY <1>24, Checks, Finishes DEF CheckGrant, people, TypeInv, JobsTyped
  <2>3. HoldsOf(w)'
    <3>1. CASE job[w].todo = {}
      BY <1>b, <1>24, <3>1, Finishes DEF CheckGrant
    <3>2. CASE job[w].todo # {}
      <4>1. PICK u \in job[w].todo, j \in Job :
              /\ job' = [job EXCEPT ![w] = j]
              /\ j.id = job[w].id /\ j.granted = job[w].granted
              /\ j.pc \in {"check", "write"}
              /\ j.todo \subseteq job[w].todo
              /\ (j.pc = "write" => j.user \in j.todo)
        BY <1>24, <3>2, Checks
      <4>2. job'[w] = j
        BY <4>1 DEF TypeInv, JobsTyped
      <4>3. /\ job[w].pc = "check" /\ job[w].granted \subseteq Users
            /\ job[w].todo \subseteq Users
        BY <1>24, JobFields DEF CheckGrant, Busy
      <4> QED
        BY <1>d, <4>1, <4>2, <4>3 DEF HoldsInv, HoldsOf, Busy, Personal,
           OfAnApp, Drops, WithId
    <3> QED
      BY <3>1, <3>2
  <2> QED
    BY <1>a, <1>c, <2>1, <2>3 DEF HoldsInv
<1>25. ASSUME NEW w \in Workers, WriteGrant(w)
      PROVE  HoldsInv'
  <2>1. handler' = handler /\ \A v \in Workers \ {w} : job'[v] = job[v]
    BY <1>25 DEF WriteGrant, people, TypeInv, JobsTyped
  <2>2. job'[w] = [pc |-> "check", id |-> job[w].id, granted |-> job[w].granted,
                   todo |-> job[w].todo \ {job[w].user}] /\ job[w].pc = "write"
    BY <1>25 DEF WriteGrant, Busy, TypeInv, JobsTyped
  <2>4. job[w].granted \subseteq Users /\ job[w].todo \subseteq Users
    BY <2>2, JobFields
  <2>3. HoldsOf(w)'
    BY <1>d, <2>2, <2>4 DEF HoldsInv, HoldsOf, Busy, Personal, OfAnApp, Drops,
       WithId
  <2> QED
    BY <1>a, <1>c, <2>1, <2>3 DEF HoldsInv
<1>26. ASSUME NEW w \in Workers, CreateKey(w)
      PROVE  HoldsInv'
  <2>1. handler' = handler /\ \A v \in Workers \ {w} : job'[v] = job[v]
    BY <1>26, Finishes DEF CreateKey, people, TypeInv, JobsTyped
  <2>3. HoldsOf(w)'
    <3>1. CASE job[w].by \in Live
      BY <1>26, <1>d, <3>1 DEF CreateKey, HoldsInv, HoldsOf, Busy, Personal,
         OfAnApp, Drops, WithId, TypeInv, JobsTyped
    <3>2. CASE job[w].by \notin Live
      BY <1>b, <1>26, <3>2, Finishes DEF CreateKey
    <3> QED
      BY <3>1, <3>2
  <2> QED
    BY <1>a, <1>c, <2>1, <2>3 DEF HoldsInv
<1>27. ASSUME NEW w \in Workers, ScopeKey(w)
      PROVE  HoldsInv'
  <2>1. /\ handler' = handler /\ job'[w] = Idle
        /\ \A v \in Workers \ {w} : job'[v] = job[v]
    BY <1>27, Finishes DEF ScopeKey, people
  <2> QED
    BY <1>a, <1>b, <1>c, <2>1 DEF HoldsInv
<1>28. ASSUME NEW w \in Workers, DeleteKey(w)
      PROVE  HoldsInv'
  <2>1. handler' = handler /\ \A v \in Workers \ {w} : job'[v] = job[v]
    BY <1>28, GoesOn DEF DeleteKey, people, Busy, Follows
  <2>2. HoldsOf(w)
    BY DEF HoldsInv
  <2>3. HoldsOf(w)'
    BY <1>28, <1>d, <2>2, GoesOn, JobFields DEF DeleteKey, HoldsOf, Busy,
       Follows, Personal, OfAnApp, Drops, WithId
  <2> QED
    BY <1>a, <1>c, <2>1, <2>3 DEF HoldsInv
<1>29. ASSUME NEW w \in Workers, DeleteScope(w)
      PROVE  HoldsInv'
  <2>1. /\ handler' = handler /\ job'[w] = Idle
        /\ \A v \in Workers \ {w} : job'[v] = job[v]
    BY <1>29, Finishes DEF DeleteScope, people
  <2> QED
    BY <1>a, <1>b, <1>c, <2>1 DEF HoldsInv
<1>30. ASSUME NEW w \in Workers, WriteFile(w)
      PROVE  HoldsInv'
  <2>1. handler' = handler /\ \A v \in Workers \ {w} : job'[v] = job[v]
    BY <1>30, GoesOn DEF WriteFile, people, Busy, Follows
  <2>2. HoldsOf(w)
    BY DEF HoldsInv
  <2>3. HoldsOf(w)'
    BY <1>30, <1>d, <2>2, GoesOn, JobFields DEF WriteFile, HoldsOf, Busy,
       Follows, Personal, OfAnApp, Drops, WithId
  <2> QED
    BY <1>a, <1>c, <2>1, <2>3 DEF HoldsInv
<1>31. ASSUME NEW w \in Workers, ReloadEntry(w)
      PROVE  HoldsInv'
  <2>1. /\ handler' = handler /\ job'[w] = Idle
        /\ \A v \in Workers \ {w} : job'[v] = job[v]
    BY <1>31, Finishes DEF ReloadEntry, people
  <2> QED
    BY <1>a, <1>b, <1>c, <2>1 DEF HoldsInv
<1>32. ASSUME NEW w \in Workers, InsertDeployment(w)
      PROVE  HoldsInv'
  <2>1. /\ handler' = handler /\ job'[w] = Idle
        /\ \A v \in Workers \ {w} : job'[v] = job[v]
    BY <1>32, Finishes DEF InsertDeployment, people
  <2> QED
    BY <1>a, <1>b, <1>c, <2>1 DEF HoldsInv
<1>33. ASSUME NEW w \in Workers, CancelDeployments(w)
      PROVE  HoldsInv'
  <2>1. handler' = handler /\ \A v \in Workers \ {w} : job'[v] = job[v]
    BY <1>33, GoesOn DEF CancelDeployments, people, Busy, Follows
  <2>2. HoldsOf(w)
    BY DEF HoldsInv
  <2>3. HoldsOf(w)'
    BY <1>33, <1>d, <2>2, GoesOn, JobFields DEF CancelDeployments, HoldsOf,
       Busy, Follows, Personal, OfAnApp, Drops, WithId
  <2> QED
    BY <1>a, <1>c, <2>1, <2>3 DEF HoldsInv
<1>34. ASSUME NEW w \in Workers, DeleteRow(w)
      PROVE  HoldsInv'
  <2>1. handler' = handler /\ \A v \in Workers \ {w} : job'[v] = job[v]
    BY <1>34, GoesOn DEF DeleteRow, people, Busy, Follows
  <2>2. HoldsOf(w)
    BY DEF HoldsInv
  <2>3. HoldsOf(w)'
    BY <1>34, <1>d, <2>2, GoesOn, JobFields DEF DeleteRow, HoldsOf, Busy,
       Follows, Personal, OfAnApp, Drops, WithId
  <2> QED
    BY <1>a, <1>c, <2>1, <2>3 DEF HoldsInv
<1>35. ASSUME NEW w \in Workers, RemoveDirectory(w)
      PROVE  HoldsInv'
  <2>1. handler' = handler /\ \A v \in Workers \ {w} : job'[v] = job[v]
    BY <1>35, GoesOn DEF RemoveDirectory, people, Busy, Follows
  <2>2. HoldsOf(w)
    BY DEF HoldsInv
  <2>3. HoldsOf(w)'
    BY <1>35, <1>d, <2>2, GoesOn, JobFields DEF RemoveDirectory, HoldsOf, Busy,
       Follows, Personal, OfAnApp, Drops, WithId
  <2> QED
    BY <1>a, <1>c, <2>1, <2>3 DEF HoldsInv
<1>36. ASSUME NEW w \in Workers, RemoveCached(w)
      PROVE  HoldsInv'
  <2>1. /\ handler' = handler /\ job'[w] = Idle
        /\ \A v \in Workers \ {w} : job'[v] = job[v]
    BY <1>36, Finishes DEF RemoveCached, people
  <2> QED
    BY <1>a, <1>b, <1>c, <2>1 DEF HoldsInv
<1> QED
  BY <1>1, <1>2, <1>3, <1>4, <1>5, <1>6, <1>7, <1>8, <1>9, <1>10, <1>11, <1>12,
     <1>13, <1>14, <1>15, <1>16, <1>17, <1>18, <1>19, <1>20, <1>21, <1>22,
     <1>23, <1>24, <1>25, <1>26, <1>27, <1>28, <1>29, <1>30, <1>31, <1>32,
     <1>33, <1>34, <1>35, <1>36 DEF Next, Registration, CreateAdmin, Step

\* Every step leaves each id with one slug and one time.
LEMMA IdsInvStep ==
  ASSUME TypeInv, HoldsInv, IdsInv, [Next]_vars
  PROVE  IdsInv'
<1>e. /\ \A v \in Workers : /\ job[v] \in Job
                            /\ Busy(v, WithId) => job[v].id \in Ids /\ job[v].id # 0
      /\ \A j \in Job : j.pc \in WithId /\ j.id \in Ids => j.id # 0
      /\ \A k \in scopes : k.app \in Ids /\ k.app # 0
      /\ \A d \in deploys : d.app \in Ids /\ d.app # 0
  BY DEF TypeInv, JobsTyped, TablesTyped, HoldsInv, HoldsOf, Ids
<1> USE <1>e
<1>a. apps' = apps /\ era' = era => \A v \in Workers : job'[v] = job[v] => IdOf(v)'
  BY DEF IdsInv, IdOf, Busy
<1>b. \A v \in Workers : job'[v] = Idle => IdOf(v)'
  BY IdleTyped DEF IdOf, Busy, OfAnApp, Drops
<1>c. apps' = apps /\ era' = era /\ scopes' \subseteq scopes /\ deploys' \subseteq deploys
        => TablesAgree'
  BY DEF IdsInv, TablesAgree
<1>1. CASE UNCHANGED vars
  BY <1>1, <1>a, <1>c DEF vars, tables, IdsInv
<1>2. ASSUME NEW u \in Users, Register(u)
      PROVE  IdsInv'
  BY <1>2, <1>a, <1>c DEF Register, tables, IdsInv
<1>3. ASSUME NEW u \in Users, NEW r \in Roles, AcceptInvitation(u, r)
      PROVE  IdsInv'
  BY <1>3, <1>a, <1>c DEF AcceptInvitation, tables, IdsInv
<1>4. CASE TakeEvent
  BY <1>4, <1>a, <1>c DEF TakeEvent, tables, IdsInv
<1>5. CASE CountUsers
  BY <1>5, <1>a, <1>c DEF CountUsers, tables, IdsInv
<1>6. CASE ListApps
  BY <1>6, <1>a, <1>c DEF ListApps, tables, IdsInv
<1>7. CASE GrantInvited
  BY <1>7, <1>a, <1>c DEF GrantInvited, tables, IdsInv
<1>8. CASE AssignRole
  BY <1>8, <1>a, <1>c DEF AssignRole, tables, IdsInv
<1>9. CASE SetupCheck
  BY <1>9, <1>a, <1>c DEF SetupCheck, tables, IdsInv
<1>10. ASSUME NEW u \in Users, SetupCreate(u)
      PROVE  IdsInv'
  BY <1>10, <1>a, <1>c DEF SetupCreate, tables, IdsInv
<1>11. CASE SetupAssign
  BY <1>11, <1>a, <1>c DEF SetupAssign, tables, IdsInv
<1>12. CASE SetupKilled
  BY <1>12, <1>a, <1>c DEF SetupKilled, tables, IdsInv
<1>13. CASE Crash
  <2>1. /\ UNCHANGED <<apps, era, scopes, deploys>>
        /\ \A v \in Workers : job'[v] = Idle
    BY <1>13 DEF Crash, tables
  <2> QED
    BY <1>b, <1>c, <2>1 DEF IdsInv
<1>14. ASSUME NEW w \in Workers, NEW u \in Users, Begin(w, u)
      PROVE  IdsInv'
  <2>1. PICK j \in Job : Starts(w, u, j)
    BY <1>14, BeginStarts
  <2>2. /\ job'[w] = j /\ \A v \in Workers \ {w} : job'[v] = job[v]
        /\ UNCHANGED <<apps, era, scopes, deploys>>
    BY <2>1 DEF Starts, tables, TypeInv, JobsTyped
  <2>3. IdOf(w)'
    <3>1. j.pc \in OfAnApp => /\ j.slug \in Slugs /\ j.id = apps[j.slug] /\ j.id # 0
                              /\ j.era = era[j.slug]
      BY <2>1, <1>e, JobFields DEF Starts, WithId
    <3>2. j.pc # "scope"
      BY <2>1 DEF Starts
    <3> QED
      BY <2>2, <3>1, <3>2 DEF IdsInv, IdOf, TablesAgree, Busy
  <2> QED
    BY <1>a, <1>c, <2>2, <2>3 DEF IdsInv
<1>15. ASSUME NEW w \in Workers, CheckPending(w)
      PROVE  IdsInv'
  <2>1. /\ \A v \in Workers \ {w} : job'[v] = job[v]
        /\ UNCHANGED <<apps, era, scopes, deploys>>
    BY <1>15, GoesOn, Finishes DEF CheckPending, tables, Busy, Follows, TypeInv,
       JobsTyped
  <2>2. job'[w].pc \notin OfAnApp \union {"scope"}
    BY <1>15, GoesOn, Finishes DEF CheckPending, Busy, Follows, OfAnApp, Drops
  <2>3. IdOf(w)'
    BY <2>2 DEF IdOf, Busy
  <2> QED
    BY <1>a, <1>c, <2>1, <2>3 DEF IdsInv
<1>16. ASSUME NEW w \in Workers, CreateInvitation(w)
      PROVE  IdsInv'
  <2>1. /\ job'[w] = Idle /\ \A v \in Workers \ {w} : job'[v] = job[v]
        /\ UNCHANGED <<apps, era, scopes, deploys>>
    BY <1>16, Finishes DEF CreateInvitation, tables
  <2> QED
    BY <1>a, <1>b, <1>c, <2>1 DEF IdsInv
<1>17. ASSUME NEW w \in Workers, RevokeInvitation(w)
      PROVE  IdsInv'
  <2>1. /\ job'[w] = Idle /\ \A v \in Workers \ {w} : job'[v] = job[v]
        /\ UNCHANGED <<apps, era, scopes, deploys>>
    BY <1>17, Finishes DEF RevokeInvitation, tables
  <2> QED
    BY <1>a, <1>b, <1>c, <2>1 DEF IdsInv
<1>18. ASSUME NEW w \in Workers, ReadRoles(w)
      PROVE  IdsInv'
  <2>1. /\ \A v \in Workers \ {w} : job'[v] = job[v]
        /\ UNCHANGED <<apps, era, scopes, deploys>>
    BY <1>18, GoesOn, Finishes DEF ReadRoles, tables, Busy, Follows, TypeInv,
       JobsTyped
  <2>2. job'[w].pc \notin OfAnApp \union {"scope"}
    <3>1. job'[w].pc = "unassign"
      BY <1>18, <1>e DEF ReadRoles, TypeInv, JobsTyped, Busy, Job
    <3> QED
      BY <3>1 DEF OfAnApp, Drops
  <2>3. IdOf(w)'
    BY <2>2 DEF IdOf, Busy
  <2> QED
    BY <1>a, <1>c, <2>1, <2>3 DEF IdsInv
<1>19. ASSUME NEW w \in Workers, UnassignRole(w)
      PROVE  IdsInv'
  <2>1. /\ \A v \in Workers \ {w} : job'[v] = job[v]
        /\ UNCHANGED <<apps, era, scopes, deploys>>
    BY <1>19, GoesOn, Finishes DEF UnassignRole, tables, Busy, Follows, TypeInv,
       JobsTyped
  <2>2. job'[w].pc \notin OfAnApp \union {"scope"}
    <3>0. job[w].pc = "unassign" /\ job[w] \in Job
      BY <1>19, <1>e DEF UnassignRole, Busy
    <3>1. CASE job[w].todo = {}
      BY <1>19, <3>0, <3>1, GoesOn DEF UnassignRole, Follows, OfAnApp, Drops
    <3>2. CASE job[w].todo # {}
      <4>1. PICK r \in job[w].todo : job' = [job EXCEPT ![w].todo = job[w].todo \ {r}]
        BY <1>19, <3>2 DEF UnassignRole
      <4>2. job'[w] = [job[w] EXCEPT !.todo = job[w].todo \ {r}]
        BY <4>1 DEF TypeInv, JobsTyped
      <4> QED
        BY <3>0, <4>2 DEF Job, OfAnApp, Drops
    <3> QED
      BY <3>1, <3>2
  <2>3. IdOf(w)'
    BY <2>2 DEF IdOf, Busy
  <2> QED
    BY <1>a, <1>c, <2>1, <2>3 DEF IdsInv
<1>20. ASSUME NEW w \in Workers, AssignNewRole(w)
      PROVE  IdsInv'
  <2>1. /\ job'[w] = Idle /\ \A v \in Workers \ {w} : job'[v] = job[v]
        /\ UNCHANGED <<apps, era, scopes, deploys>>
    BY <1>20, Finishes DEF AssignNewRole, tables
  <2> QED
    BY <1>a, <1>b, <1>c, <2>1 DEF IdsInv
<1>21. ASSUME NEW w \in Workers, RemoveUser(w)
      PROVE  IdsInv'
  <2>1. /\ job'[w] = Idle /\ \A v \in Workers \ {w} : job'[v] = job[v]
        /\ UNCHANGED <<apps, era, scopes, deploys>>
    BY <1>21, Finishes DEF RemoveUser, tables
  <2> QED
    BY <1>a, <1>b, <1>c, <2>1 DEF IdsInv
<1>22. ASSUME NEW w \in Workers, InsertApp(w)
      PROVE  IdsInv'
  <2> DEFINE s == job[w].slug
  <2>1. s \in Slugs
    BY <1>22, JobFields DEF InsertApp, Busy
  <2> HIDE DEF s
  <2>2. /\ job'[w] = Idle /\ \A v \in Workers \ {w} : job'[v] = job[v]
        /\ UNCHANGED <<scopes, deploys>>
    BY <1>22, Finishes DEF InsertApp
  <2>3. CASE apps[s] # 0
    BY <1>a, <1>b, <1>c, <1>22, <2>2, <2>3 DEF InsertApp, IdsInv, s
  <2>4. CASE apps[s] = 0
    <3>1. /\ apps' = [apps EXCEPT ![s] = nextId]
          /\ era' = [era EXCEPT ![s] = requests]
      BY <1>22, <2>4 DEF InsertApp, NewId, s
    <3>2. /\ \A t \in Slugs \ {s} : apps'[t] = apps[t] /\ era'[t] = era[t]
          /\ apps'[s] = nextId
      BY <2>1, <3>1 DEF TypeInv, TablesTyped, ContentTyped
    <3>3. /\ nextId \notin Ids /\ nextId # 0 /\ \A t \in Slugs : apps[t] # nextId
      BY DEF TypeInv, TablesTyped, Ids
    <3>4. \A v \in Workers \ {w} : IdOf(v)'
      BY <1>e, <2>2, <3>2, <3>3 DEF IdsInv, IdOf, Busy, WithId
    <3>5. TablesAgree'
      BY <1>e, <2>2, <3>2, <3>3 DEF IdsInv, TablesAgree
    <3> QED
      BY <1>b, <2>2, <3>4, <3>5 DEF IdsInv
  <2> QED
    BY <2>3, <2>4
<1>23. ASSUME NEW w \in Workers, ListUsers(w)
      PROVE  IdsInv'
  <2>1. /\ \A v \in Workers \ {w} : job'[v] = job[v]
        /\ UNCHANGED <<apps, era, scopes, deploys>>
    BY <1>23, GoesOn, Finishes DEF ListUsers, tables, Busy, Follows, TypeInv,
       JobsTyped
  <2>2. job'[w].pc \notin OfAnApp \union {"scope"}
    <3>1. job'[w].pc = "check"
      BY <1>23, <1>e DEF ListUsers, TypeInv, JobsTyped, Busy, Job
    <3> QED
      BY <3>1 DEF OfAnApp, Drops
  <2>3. IdOf(w)'
    BY <2>2 DEF IdOf, Busy
  <2> QED
    BY <1>a, <1>c, <2>1, <2>3 DEF IdsInv
<1>24. ASSUME NEW w \in Workers, CheckGrant(w)
      PROVE  IdsInv'
  <2>1. /\ \A v \in Workers \ {w} : job'[v] = job[v]
        /\ UNCHANGED <<apps, era, scopes, deploys>>
    BY <1>24, Checks, Finishes DEF CheckGrant, tables, Busy, Follows, TypeInv,
       JobsTyped
  <2>2. job'[w].pc \notin OfAnApp \union {"scope"}
    <3>1. CASE job[w].todo = {}
      BY <1>24, <3>1, Finishes DEF CheckGrant, OfAnApp, Drops
    <3>2. CASE job[w].todo # {}
      <4>1. PICK j \in Job : job' = [job EXCEPT ![w] = j] /\ j.pc \in {"check", "write"}
        BY <1>24, <3>2, Checks
      <4> QED
        BY <4>1 DEF TypeInv, JobsTyped, OfAnApp, Drops
    <3> QED
      BY <3>1, <3>2
  <2>3. IdOf(w)'
    BY <2>2 DEF IdOf, Busy
  <2> QED
    BY <1>a, <1>c, <2>1, <2>3 DEF IdsInv
<1>25. ASSUME NEW w \in Workers, WriteGrant(w)
      PROVE  IdsInv'
  <2>1. /\ \A v \in Workers \ {w} : job'[v] = job[v]
        /\ UNCHANGED <<apps, era, scopes, deploys>>
    BY <1>25, GoesOn, Finishes DEF WriteGrant, tables, Busy, Follows, TypeInv,
       JobsTyped
  <2>2. job'[w].pc \notin OfAnApp \union {"scope"}
    <3>1. job'[w].pc = "check"
      BY <1>25, <1>e DEF WriteGrant, TypeInv, JobsTyped, Busy
    <3> QED
      BY <3>1 DEF OfAnApp, Drops
  <2>3. IdOf(w)'
    BY <2>2 DEF IdOf, Busy
  <2> QED
    BY <1>a, <1>c, <2>1, <2>3 DEF IdsInv
<1>26. ASSUME NEW w \in Workers, CreateKey(w)
      PROVE  IdsInv'
  <2>1. /\ \A v \in Workers \ {w} : job'[v] = job[v]
        /\ UNCHANGED <<apps, era, scopes, deploys>>
    BY <1>26, Finishes DEF CreateKey, TypeInv, JobsTyped
  <2>3. IdOf(w)'
    <3>1. CASE job[w].by \in Live
      <4>1. /\ job'[w].pc = "scope" /\ job'[w].id = job[w].id
            /\ job'[w].era = job[w].era
            /\ job[w].pc = "key"
        BY <1>26, <3>1 DEF CreateKey, Busy, TypeInv, JobsTyped
      <4>2. IdOf(w)
        BY DEF IdsInv
      <4> QED
        BY <2>1, <4>1, <4>2 DEF IdOf, Busy, OfAnApp, Drops
    <3>2. CASE job[w].by \notin Live
      BY <1>b, <1>26, <3>2, Finishes DEF CreateKey
    <3> QED
      BY <3>1, <3>2
  <2> QED
    BY <1>a, <1>c, <2>1, <2>3 DEF IdsInv
<1>27. ASSUME NEW w \in Workers, ScopeKey(w)
      PROVE  IdsInv'
  <2>1. /\ job'[w] = Idle /\ \A v \in Workers \ {w} : job'[v] = job[v]
        /\ UNCHANGED <<apps, era, deploys>>
        /\ scopes' = scopes \union {[token |-> job[w].token, app |-> job[w].id, era |-> job[w].era]}
    BY <1>27, Finishes DEF ScopeKey
  <2>2. \A s \in Slugs : apps[s] = job[w].id => job[w].era = era[s]
    BY <1>27 DEF ScopeKey, IdsInv, IdOf, Busy
  <2>3. TablesAgree'
    BY <2>1, <2>2 DEF IdsInv, TablesAgree
  <2> QED
    BY <1>a, <1>b, <2>1, <2>3 DEF IdsInv
<1>28. ASSUME NEW w \in Workers, DeleteKey(w)
      PROVE  IdsInv'
  <2>1. /\ \A v \in Workers \ {w} : job'[v] = job[v]
        /\ UNCHANGED <<apps, era, scopes, deploys>>
    BY <1>28, GoesOn DEF DeleteKey, tables, Busy, Follows
  <2>2. IdOf(w)
    BY DEF IdsInv
  <2>3. IdOf(w)'
    BY <1>28, <2>1, <2>2, GoesOn, JobFields DEF DeleteKey, IdOf, Busy, Follows,
       OfAnApp, Drops
  <2> QED
    BY <1>a, <1>c, <2>1, <2>3 DEF IdsInv
<1>29. ASSUME NEW w \in Workers, DeleteScope(w)
      PROVE  IdsInv'
  <2>1. /\ job'[w] = Idle /\ \A v \in Workers \ {w} : job'[v] = job[v]
        /\ UNCHANGED <<apps, era, deploys>> /\ scopes' \subseteq scopes
    BY <1>29, Finishes DEF DeleteScope, tables
  <2> QED
    BY <1>a, <1>b, <1>c, <2>1 DEF IdsInv
<1>30. ASSUME NEW w \in Workers, WriteFile(w)
      PROVE  IdsInv'
  <2>1. /\ \A v \in Workers \ {w} : job'[v] = job[v]
        /\ UNCHANGED <<apps, era, scopes, deploys>>
    BY <1>30, GoesOn DEF WriteFile, tables, Busy, Follows
  <2>2. IdOf(w)
    BY DEF IdsInv
  <2>3. IdOf(w)'
    BY <1>30, <2>1, <2>2, GoesOn, JobFields DEF WriteFile, IdOf, Busy, Follows,
       OfAnApp, Drops
  <2> QED
    BY <1>a, <1>c, <2>1, <2>3 DEF IdsInv
<1>31. ASSUME NEW w \in Workers, ReloadEntry(w)
      PROVE  IdsInv'
  <2>1. /\ job'[w] = Idle /\ \A v \in Workers \ {w} : job'[v] = job[v]
        /\ UNCHANGED <<apps, era, scopes, deploys>>
    BY <1>31, Finishes DEF ReloadEntry, tables
  <2> QED
    BY <1>a, <1>b, <1>c, <2>1 DEF IdsInv
<1>32. ASSUME NEW w \in Workers, InsertDeployment(w)
      PROVE  IdsInv'
  <2>1. /\ job'[w] = Idle /\ \A v \in Workers \ {w} : job'[v] = job[v]
        /\ UNCHANGED <<apps, era, scopes>>
        /\ deploys' = deploys \union {[app |-> job[w].id, slug |-> job[w].slug]}
    BY <1>32, Finishes DEF InsertDeployment
  <2>2. \A s \in Slugs : apps[s] = job[w].id => s = job[w].slug
    BY <1>32 DEF InsertDeployment, IdsInv, IdOf, Busy, OfAnApp
  <2>3. TablesAgree'
    BY <2>1, <2>2 DEF IdsInv, TablesAgree
  <2> QED
    BY <1>a, <1>b, <2>1, <2>3 DEF IdsInv
<1>33. ASSUME NEW w \in Workers, CancelDeployments(w)
      PROVE  IdsInv'
  <2>1. /\ \A v \in Workers \ {w} : job'[v] = job[v]
        /\ UNCHANGED <<apps, era, scopes>> /\ deploys' \subseteq deploys
    BY <1>33, GoesOn DEF CancelDeployments, tables, Busy, Follows
  <2>2. IdOf(w)
    BY DEF IdsInv
  <2>3. IdOf(w)'
    BY <1>33, <2>1, <2>2, GoesOn, JobFields DEF CancelDeployments, IdOf, Busy,
       Follows, OfAnApp, Drops
  <2> QED
    BY <1>a, <1>c, <2>1, <2>3 DEF IdsInv
<1>34. ASSUME NEW w \in Workers, DeleteRow(w)
      PROVE  IdsInv'
  <2>1. /\ \A v \in Workers \ {w} : job'[v] = job[v]
        /\ UNCHANGED <<era, scopes, deploys>>
    BY <1>34, GoesOn DEF DeleteRow, Busy, Follows
  <2>2. \A s \in Slugs : apps'[s] = IF apps[s] = job[w].id THEN 0 ELSE apps[s]
    BY <1>34 DEF DeleteRow
  <2>3. \A v \in Workers : Busy(v, WithId) => job[v].id # 0
    BY <1>e
  <2>4. \A v \in Workers \ {w} : IdOf(v)'
    BY <2>1, <2>2, <2>3 DEF IdsInv, IdOf, Busy, WithId
  <2>5. /\ job'[w].pc = "dir" /\ job[w].pc = "row" /\ job'[w].id = job[w].id
        /\ job'[w].slug = job[w].slug /\ job'[w].era = job[w].era
    BY <1>34, GoesOn DEF DeleteRow, Busy, Follows, OfAnApp, Drops
  <2>6. IdOf(w)'
    BY <2>1, <2>2, <2>3, <2>5 DEF IdsInv, IdOf, Busy, WithId, OfAnApp, Drops
  <2>7. TablesAgree'
    BY <1>e, <2>1, <2>2 DEF IdsInv, TablesAgree
  <2> QED
    BY <2>4, <2>6, <2>7 DEF IdsInv
<1>35. ASSUME NEW w \in Workers, RemoveDirectory(w)
      PROVE  IdsInv'
  <2>1. /\ \A v \in Workers \ {w} : job'[v] = job[v]
        /\ UNCHANGED <<apps, era, scopes, deploys>>
    BY <1>35, GoesOn DEF RemoveDirectory, tables, Busy, Follows
  <2>2. IdOf(w)
    BY DEF IdsInv
  <2>3. IdOf(w)'
    BY <1>35, <2>1, <2>2, GoesOn, JobFields DEF RemoveDirectory, IdOf, Busy,
       Follows, OfAnApp, Drops
  <2> QED
    BY <1>a, <1>c, <2>1, <2>3 DEF IdsInv
<1>36. ASSUME NEW w \in Workers, RemoveCached(w)
      PROVE  IdsInv'
  <2>1. /\ job'[w] = Idle /\ \A v \in Workers \ {w} : job'[v] = job[v]
        /\ UNCHANGED <<apps, era, scopes, deploys>>
    BY <1>36, Finishes DEF RemoveCached, tables
  <2> QED
    BY <1>a, <1>b, <1>c, <2>1 DEF IdsInv
<1> QED
  BY <1>1, <1>2, <1>3, <1>4, <1>5, <1>6, <1>7, <1>8, <1>9, <1>10, <1>11, <1>12,
     <1>13, <1>14, <1>15, <1>16, <1>17, <1>18, <1>19, <1>20, <1>21, <1>22,
     <1>23, <1>24, <1>25, <1>26, <1>27, <1>28, <1>29, <1>30, <1>31, <1>32,
     <1>33, <1>34, <1>35, <1>36 DEF Next, Registration, CreateAdmin, Step

\* The steps a request makes.
Moves ==
  {<<"pending", "invite">>, <<"pending", "idle">>, <<"invite", "idle">>, <<"uninvite", "idle">>,
   <<"roles", "unassign">>, <<"unassign", "unassign">>, <<"unassign", "assign">>,
   <<"assign", "idle">>, <<"remove", "idle">>, <<"insert", "idle">>,
   <<"list", "check">>, <<"check", "idle">>, <<"check", "check">>, <<"check", "write">>,
   <<"write", "check">>, <<"key", "scope">>, <<"key", "idle">>, <<"scope", "idle">>,
   <<"unkey", "unscope">>, <<"unscope", "idle">>, <<"file", "reload">>, <<"reload", "idle">>,
   <<"deploy", "idle">>, <<"cancel", "row">>, <<"row", "dir">>, <<"dir", "cached">>,
   <<"cached", "idle">>}

\* A step of a request moves it along, and no other.
LEMMA StepMoves ==
  ASSUME TypeInv, NEW w \in Workers, Step(w)
  PROVE  /\ <<job[w].pc, job'[w].pc>> \in Moves
         /\ \A v \in Workers \ {w} : job'[v] = job[v]
<1> DEFINE Goal == /\ <<job[w].pc, job'[w].pc>> \in Moves
                   /\ \A v \in Workers \ {w} : job'[v] = job[v]
<1>0. job[w] \in Job /\ JobsTyped
  BY DEF TypeInv, JobsTyped
<1>1. ASSUME CheckPending(w) PROVE Goal
  BY <1>1, Finishes, GoesOn DEF CheckPending, Busy, Follows, Moves
<1>2. ASSUME CreateInvitation(w) PROVE Goal
  BY <1>2, Finishes DEF CreateInvitation, Busy, Moves
<1>3. ASSUME RevokeInvitation(w) PROVE Goal
  BY <1>3, Finishes DEF RevokeInvitation, Busy, Moves
<1>4. ASSUME ReadRoles(w) PROVE Goal
  BY <1>0, <1>4 DEF ReadRoles, Busy, Moves, Job, JobsTyped
<1>5. ASSUME UnassignRole(w) PROVE Goal
  <2>0. job[w].pc = "unassign"
    BY <1>5 DEF UnassignRole, Busy
  <2>1. CASE job[w].todo = {}
    BY <1>5, <2>0, <2>1, GoesOn DEF UnassignRole, Follows, Moves
  <2>2. CASE job[w].todo # {}
    <3>1. PICK r \in job[w].todo : job' = [job EXCEPT ![w].todo = job[w].todo \ {r}]
      BY <1>5, <2>2 DEF UnassignRole
    <3>2. /\ job'[w] = [job[w] EXCEPT !.todo = job[w].todo \ {r}]
          /\ \A v \in Workers \ {w} : job'[v] = job[v]
      BY <1>0, <3>1 DEF JobsTyped
    <3> QED
      BY <1>0, <2>0, <3>2 DEF Job, Moves
  <2> QED
    BY <2>1, <2>2
<1>6. ASSUME AssignNewRole(w) PROVE Goal
  BY <1>6, Finishes DEF AssignNewRole, Busy, Moves
<1>7. ASSUME RemoveUser(w) PROVE Goal
  BY <1>7, Finishes DEF RemoveUser, Busy, Moves
<1>8. ASSUME InsertApp(w) PROVE Goal
  BY <1>8, Finishes DEF InsertApp, Busy, Moves
<1>9. ASSUME ListUsers(w) PROVE Goal
  BY <1>0, <1>9 DEF ListUsers, Busy, Moves, Job, JobsTyped
<1>10. ASSUME CheckGrant(w) PROVE Goal
  <2>1. CASE job[w].todo = {}
    BY <1>10, <2>1, Finishes DEF CheckGrant, Busy, Moves
  <2>2. CASE job[w].todo # {}
    <3>1. PICK j \in Job : job' = [job EXCEPT ![w] = j] /\ j.pc \in {"check", "write"}
      BY <1>10, <2>2, Checks
    <3> QED
      BY <1>0, <1>10, <3>1 DEF CheckGrant, Busy, Moves, JobsTyped
  <2> QED
    BY <2>1, <2>2
<1>11. ASSUME WriteGrant(w) PROVE Goal
  BY <1>0, <1>11 DEF WriteGrant, Busy, Moves, Job, JobsTyped
<1>12. ASSUME CreateKey(w) PROVE Goal
  BY <1>0, <1>12, Finishes DEF CreateKey, Busy, Moves, JobsTyped
<1>13. ASSUME ScopeKey(w) PROVE Goal
  BY <1>13, Finishes DEF ScopeKey, Busy, Moves
<1>14. ASSUME DeleteKey(w) PROVE Goal
  BY <1>14, GoesOn DEF DeleteKey, Busy, Follows, Moves
<1>15. ASSUME DeleteScope(w) PROVE Goal
  BY <1>15, Finishes DEF DeleteScope, Busy, Moves
<1>16. ASSUME WriteFile(w) PROVE Goal
  BY <1>16, GoesOn DEF WriteFile, Busy, Follows, Moves
<1>17. ASSUME ReloadEntry(w) PROVE Goal
  BY <1>17, Finishes DEF ReloadEntry, Busy, Moves
<1>18. ASSUME InsertDeployment(w) PROVE Goal
  BY <1>18, Finishes DEF InsertDeployment, Busy, Moves
<1>19. ASSUME CancelDeployments(w) PROVE Goal
  BY <1>19, GoesOn DEF CancelDeployments, Busy, Follows, Moves
<1>20. ASSUME DeleteRow(w) PROVE Goal
  BY <1>20, GoesOn DEF DeleteRow, Busy, Follows, Moves
<1>21. ASSUME RemoveDirectory(w) PROVE Goal
  BY <1>21, GoesOn DEF RemoveDirectory, Busy, Follows, Moves
<1>22. ASSUME RemoveCached(w) PROVE Goal
  BY <1>22, Finishes DEF RemoveCached, Busy, Moves
<1> HIDE DEF Goal
<1>23. Goal
  BY <1>1, <1>2, <1>3, <1>4, <1>5, <1>6, <1>7, <1>8, <1>9, <1>10, <1>11, <1>12,
     <1>13, <1>14, <1>15, <1>16, <1>17, <1>18, <1>19, <1>20, <1>21, <1>22 DEF
     Step
<1> QED
  BY <1>23 DEF Goal

\* Every step leaves of a deleted app only what a request still removes.
LEMMA LeftInvStep ==
  ASSUME TypeInv, HoldsInv, IdsInv, LeftInv, [Next]_vars
  PROVE  LeftInv'
<1>0. \A v \in Workers : job[v] \in Job
  BY DEF TypeInv, JobsTyped
<1> USE <1>0
<1>a. ASSUME UNCHANGED <<apps, era, disk, cache, spoiled>>, deploys' \subseteq deploys,
             \A v \in Workers : \/ job'[v] = job[v]
                                \/ /\ job'[v].pc \notin {"row", "dir", "cached"}
                                   /\ job[v].pc \notin Drops
      PROVE  LeftInv'
  <2> SUFFICES ASSUME NEW s \in Slugs \ spoiled PROVE LeftOf(s)'
    BY <1>a DEF LeftInv
  <2>1. LeftOf(s)
    BY DEF LeftInv
  <2>2. \A v \in Dropping(s) : v \in Dropping(s)' /\ job'[v] = job[v]
    BY <1>a DEF Dropping, Busy, Drops
  <2>3. \A v \in Dropping(s)' : job'[v].pc # "cancel" =>
           v \in Dropping(s) /\ job'[v] = job[v]
    BY <1>a DEF Dropping, Busy
  <2>4. Dropping(s) \subseteq Workers /\ Dropping(s)' \subseteq Workers
    BY DEF Dropping
  <2>21. OwnContent(s)'
    BY <1>a, <2>1, <2>2, <2>3, <2>4 DEF LeftOf, OwnContent
  <2>22. BeingRemoved(s)'
    BY <1>a, <2>1, <2>2, <2>3, <2>4 DEF LeftOf, BeingRemoved
  <2>23. OwnDeploys(s)'
    BY <1>a, <2>1, <2>2, <2>3, <2>4 DEF LeftOf, OwnDeploys
  <2> QED
    BY <2>21, <2>22, <2>23 DEF LeftOf
<1>q. ASSUME NEW w \in Workers, Step(w), job[w].pc \notin Drops,
             UNCHANGED <<apps, era, disk, cache, spoiled>>, deploys' \subseteq deploys
      PROVE  LeftInv'
  <2>1. /\ <<job[w].pc, job'[w].pc>> \in Moves
        /\ \A v \in Workers \ {w} : job'[v] = job[v]
        /\ job'[w].pc \notin Drops
    BY <1>q, StepMoves DEF Moves, Drops
  <2> QED
    BY <1>a, <1>q, <2>1 DEF Drops
<1>1. CASE UNCHANGED vars
  BY <1>1, <1>a DEF vars, tables, content
<1>2. ASSUME NEW u \in Users, Register(u)
      PROVE  LeftInv'
  BY <1>2, <1>a DEF Register, tables, content
<1>3. ASSUME NEW u \in Users, NEW r \in Roles, AcceptInvitation(u, r)
      PROVE  LeftInv'
  BY <1>3, <1>a DEF AcceptInvitation, tables, content
<1>4. CASE TakeEvent
  BY <1>4, <1>a DEF TakeEvent, tables, content
<1>5. CASE CountUsers
  BY <1>5, <1>a DEF CountUsers, tables, content
<1>6. CASE ListApps
  BY <1>6, <1>a DEF ListApps, tables, content
<1>7. CASE GrantInvited
  BY <1>7, <1>a DEF GrantInvited, tables, content
<1>8. CASE AssignRole
  BY <1>8, <1>a DEF AssignRole, tables, content
<1>9. CASE SetupCheck
  BY <1>9, <1>a DEF SetupCheck, tables, content
<1>10. ASSUME NEW u \in Users, SetupCreate(u)
      PROVE  LeftInv'
  BY <1>10, <1>a DEF SetupCreate, tables, content
<1>11. CASE SetupAssign
  BY <1>11, <1>a DEF SetupAssign, tables, content
<1>12. CASE SetupKilled
  BY <1>12, <1>a DEF SetupKilled, tables, content
<1>13. CASE Crash
  <2>1. /\ UNCHANGED <<apps, era, disk, deploys>> /\ cache' = disk
        /\ \A v \in Workers : job'[v] = Idle
        /\ spoiled' = spoiled \union {job[w].slug : w \in {v \in Workers : Busy(v, {"dir"})}}
    BY <1>13 DEF Crash, Populate, tables
  <2>2. \A s \in Slugs : Dropping(s)' = {}
    BY <2>1, IdleTyped DEF Dropping, Busy
  <2>3. ASSUME NEW s \in Slugs \ spoiled' PROVE LeftOf(s)'
    <3>1. LeftOf(s) /\ \A w \in Dropping(s) : job[w].pc # "dir"
      BY <2>1, <2>3 DEF LeftInv, Dropping, Busy
    <3>21. OwnContent(s)'
      BY <2>1, <2>2, <3>1 DEF LeftOf, OwnContent
    <3>22. BeingRemoved(s)'
      BY <2>1, <2>2, <3>1 DEF LeftOf, BeingRemoved
    <3>23. OwnDeploys(s)'
      BY <2>1, <2>2, <3>1 DEF LeftOf, OwnDeploys
    <3> QED
      BY <3>21, <3>22, <3>23 DEF LeftOf
  <2> QED
    BY <2>3 DEF LeftInv
<1>14. ASSUME NEW w \in Workers, NEW u \in Users, Begin(w, u)
      PROVE  LeftInv'
  <2>1. PICK j \in Job : Starts(w, u, j)
    BY <1>14, BeginStarts
  <2>2. /\ job'[w] = j /\ \A v \in Workers \ {w} : job'[v] = job[v] /\ job[w] = Idle
        /\ UNCHANGED <<apps, era, disk, cache, deploys, spoiled>>
    BY <2>1 DEF Starts, tables, content, TypeInv, JobsTyped
  <2>3. job'[w].pc \notin {"row", "dir", "cached"} /\ job[w].pc = "idle"
    BY <2>1, <2>2, IdleTyped DEF Starts
  <2> QED
    BY <1>a, <2>2, <2>3 DEF Drops
<1>15. ASSUME NEW w \in Workers, CheckPending(w)
      PROVE  LeftInv'
  BY <1>15, <1>q DEF Step, CheckPending, tables, content, Busy, Drops
<1>16. ASSUME NEW w \in Workers, CreateInvitation(w)
      PROVE  LeftInv'
  BY <1>16, <1>q DEF Step, CreateInvitation, tables, content, Busy, Drops
<1>17. ASSUME NEW w \in Workers, RevokeInvitation(w)
      PROVE  LeftInv'
  BY <1>17, <1>q DEF Step, RevokeInvitation, tables, content, Busy, Drops
<1>18. ASSUME NEW w \in Workers, ReadRoles(w)
      PROVE  LeftInv'
  BY <1>18, <1>q DEF Step, ReadRoles, tables, content, Busy, Drops
<1>19. ASSUME NEW w \in Workers, UnassignRole(w)
      PROVE  LeftInv'
  BY <1>19, <1>q DEF Step, UnassignRole, tables, content, Busy, Drops
<1>20. ASSUME NEW w \in Workers, AssignNewRole(w)
      PROVE  LeftInv'
  BY <1>20, <1>q DEF Step, AssignNewRole, tables, content, Busy, Drops
<1>21. ASSUME NEW w \in Workers, RemoveUser(w)
      PROVE  LeftInv'
  BY <1>21, <1>q DEF Step, RemoveUser, tables, content, Busy, Drops
<1>22. ASSUME NEW w \in Workers, InsertApp(w)
      PROVE  LeftInv'
  <2> DEFINE s == job[w].slug
  <2>1. s \in Slugs
    BY <1>22, JobFields DEF InsertApp, Busy
  <2>2. /\ \A v \in Workers \ {w} : job'[v] = job[v]
        /\ job[w].pc = "insert" /\ job'[w].pc = "idle"
        /\ UNCHANGED <<disk, cache, deploys>>
    BY <1>22, Finishes DEF InsertApp, Busy, content
  <2>3. CASE apps[s] # 0
    <3>1. UNCHANGED <<apps, era, disk, cache, deploys, spoiled>>
      BY <1>22, <2>2, <2>3 DEF InsertApp
    <3> QED
      BY <1>a, <2>2, <3>1 DEF Drops
  <2>4. CASE apps[s] = 0
    <3>1. /\ apps' = [apps EXCEPT ![s] = nextId]
          /\ era' = [era EXCEPT ![s] = requests]
          /\ spoiled' = IF Dropping(s) # {} THEN spoiled \union {s} ELSE spoiled
      BY <1>22, <2>4 DEF InsertApp, NewId
    <3>2. /\ \A t \in Slugs \ {s} : apps'[t] = apps[t] /\ era'[t] = era[t]
          /\ apps'[s] = nextId
      BY <2>1, <3>1 DEF TypeInv, TablesTyped, ContentTyped
    <3>3. \A t \in Slugs : Dropping(t)' = Dropping(t)
      BY <2>2 DEF Dropping, Busy
    <3>4. \A d \in deploys : d.app # 0
      BY DEF TypeInv, TablesTyped, Ids
    <3> HIDE DEF s
    <3>5. ASSUME NEW t \in Slugs \ spoiled' PROVE LeftOf(t)'
      <4>1. LeftOf(t) /\ (t = s => Dropping(s) = {})
        BY <2>1, <3>1, <3>5 DEF LeftInv
      <4>2. \A v \in Dropping(t) : job'[v] = job[v]
        BY <2>2 DEF Dropping, Busy
      <4>3. CASE t = s
        <5>1. disk[s] = {} /\ cache[s] = {} /\ \A d \in deploys : d.slug # s
          BY <2>4, <3>4, <4>1, <4>3 DEF LeftOf, BeingRemoved, OwnDeploys
        <5> QED
          BY <2>2, <3>3, <4>1, <4>3, <5>1 DEF LeftOf, OwnContent, BeingRemoved,
             OwnDeploys
      <4>4. CASE t # s
        BY <2>2, <3>2, <3>3, <4>1, <4>2, <4>4 DEF LeftOf, OwnContent,
           BeingRemoved, OwnDeploys
      <4> QED
        BY <4>3, <4>4
    <3> QED
      BY <3>5 DEF LeftInv
  <2> QED
    BY <2>3, <2>4
<1>23. ASSUME NEW w \in Workers, ListUsers(w)
      PROVE  LeftInv'
  BY <1>23, <1>q DEF Step, ListUsers, tables, content, Busy, Drops
<1>24. ASSUME NEW w \in Workers, CheckGrant(w)
      PROVE  LeftInv'
  BY <1>24, <1>q DEF Step, CheckGrant, tables, content, Busy, Drops
<1>25. ASSUME NEW w \in Workers, WriteGrant(w)
      PROVE  LeftInv'
  BY <1>25, <1>q DEF Step, WriteGrant, tables, content, Busy, Drops
<1>26. ASSUME NEW w \in Workers, CreateKey(w)
      PROVE  LeftInv'
  BY <1>26, <1>q DEF Step, CreateKey, tables, content, Busy, Drops
<1>27. ASSUME NEW w \in Workers, ScopeKey(w)
      PROVE  LeftInv'
  BY <1>27, <1>q DEF Step, ScopeKey, tables, content, Busy, Drops
<1>28. ASSUME NEW w \in Workers, DeleteKey(w)
      PROVE  LeftInv'
  BY <1>28, <1>q DEF Step, DeleteKey, tables, content, Busy, Drops
<1>29. ASSUME NEW w \in Workers, DeleteScope(w)
      PROVE  LeftInv'
  BY <1>29, <1>q DEF Step, DeleteScope, tables, content, Busy, Drops
<1>30. ASSUME NEW w \in Workers, WriteFile(w)
      PROVE  LeftInv'
  <2> DEFINE s == job[w].slug
  <2>1. s \in Slugs
    BY <1>30, JobFields DEF WriteFile, Busy, OfAnApp
  <2>2. (apps[s] = job[w].id => job[w].era = era[s]) /\ job[w].pc \notin Drops
        /\ job[w].id # 0
    BY <1>30, <2>1 DEF WriteFile, Busy, IdsInv, IdOf, OfAnApp, Drops, HoldsInv,
       HoldsOf, WithId, Ids
  <2>3. spoiled' = Spoil(s, job[w].id)
    BY <1>30 DEF WriteFile
  <2>4. /\ UNCHANGED <<apps, era, cache, deploys>>
        /\ disk'[s] = disk[s] \union {job[w].era}
        /\ \A t \in Slugs \ {s} : disk'[t] = disk[t]
    BY <1>30, <2>1 DEF WriteFile, tables, content, TypeInv, ContentTyped
  <2>5. /\ <<job[w].pc, job'[w].pc>> \in Moves
        /\ \A v \in Workers \ {w} : job'[v] = job[v]
    BY <1>30, StepMoves DEF Step
  <2>6. job'[w].pc \notin Drops
    BY <2>2, <2>5 DEF Moves, Drops
  <2>7. \A t \in Slugs : Dropping(t)' = Dropping(t)
    BY <2>2, <2>5, <2>6 DEF Dropping, Busy, Drops
  <2> HIDE DEF s
  <2>8. ASSUME NEW t \in Slugs \ spoiled' PROVE LeftOf(t)'
    <3>1. LeftOf(t) /\ (t = s => Dropping(s) = {} /\ apps[s] = job[w].id)
      BY <2>1, <2>3, <2>8 DEF LeftInv, Spoil
    <3>2. \A v \in Dropping(t) : job'[v] = job[v]
      BY <2>2, <2>5 DEF Dropping, Busy, Drops
    <3>21. OwnContent(t)'
      BY <2>1, <2>2, <2>4, <2>7, <3>1, <3>2 DEF LeftOf, OwnContent
    <3>22. BeingRemoved(t)'
      BY <2>1, <2>2, <2>4, <2>7, <3>1, <3>2 DEF LeftOf, BeingRemoved
    <3>23. OwnDeploys(t)'
      BY <2>1, <2>2, <2>4, <2>7, <3>1, <3>2 DEF LeftOf, OwnDeploys
    <3> QED
      BY <3>21, <3>22, <3>23 DEF LeftOf
  <2> QED
    BY <2>8 DEF LeftInv
<1>31. ASSUME NEW w \in Workers, ReloadEntry(w)
      PROVE  LeftInv'
  <2> DEFINE s == job[w].slug
  <2>1. s \in Slugs
    BY <1>31, JobFields DEF ReloadEntry, Busy, OfAnApp
  <2>2. (apps[s] = job[w].id => job[w].era = era[s]) /\ job[w].pc \notin Drops
        /\ job[w].id # 0
    BY <1>31, <2>1 DEF ReloadEntry, Busy, IdsInv, IdOf, OfAnApp, Drops,
       HoldsInv, HoldsOf, WithId, Ids
  <2>3. spoiled' = Spoil(s, job[w].id)
    BY <1>31 DEF ReloadEntry
  <2>4. /\ UNCHANGED <<apps, era, disk, deploys>>
        /\ cache'[s] \subseteq cache[s] \union {job[w].era}
        /\ \A t \in Slugs \ {s} : cache'[t] = cache[t]
    BY <1>31, <2>1 DEF ReloadEntry, tables, content, TypeInv, ContentTyped
  <2>5. /\ <<job[w].pc, job'[w].pc>> \in Moves
        /\ \A v \in Workers \ {w} : job'[v] = job[v]
    BY <1>31, StepMoves DEF Step
  <2>6. job'[w].pc \notin Drops
    BY <2>2, <2>5 DEF Moves, Drops
  <2>7. \A t \in Slugs : Dropping(t)' = Dropping(t)
    BY <2>2, <2>5, <2>6 DEF Dropping, Busy, Drops
  <2> HIDE DEF s
  <2>8. ASSUME NEW t \in Slugs \ spoiled' PROVE LeftOf(t)'
    <3>1. LeftOf(t) /\ (t = s => Dropping(s) = {} /\ apps[s] = job[w].id)
      BY <2>1, <2>3, <2>8 DEF LeftInv, Spoil
    <3>2. \A v \in Dropping(t) : job'[v] = job[v]
      BY <2>2, <2>5 DEF Dropping, Busy, Drops
    <3>21. OwnContent(t)'
      BY <2>1, <2>2, <2>4, <2>7, <3>1, <3>2 DEF LeftOf, OwnContent
    <3>22. BeingRemoved(t)'
      BY <2>1, <2>2, <2>4, <2>7, <3>1, <3>2 DEF LeftOf, BeingRemoved
    <3>23. OwnDeploys(t)'
      BY <2>1, <2>2, <2>4, <2>7, <3>1, <3>2 DEF LeftOf, OwnDeploys
    <3> QED
      BY <3>21, <3>22, <3>23 DEF LeftOf
  <2> QED
    BY <2>8 DEF LeftInv
<1>32. ASSUME NEW w \in Workers, InsertDeployment(w)
      PROVE  LeftInv'
  <2> DEFINE s == job[w].slug
  <2>1. s \in Slugs
    BY <1>32, JobFields DEF InsertDeployment, Busy, OfAnApp
  <2>2. (apps[s] = job[w].id => job[w].era = era[s]) /\ job[w].pc \notin Drops
        /\ job[w].id # 0
    BY <1>32, <2>1 DEF InsertDeployment, Busy, IdsInv, IdOf, OfAnApp, Drops,
       HoldsInv, HoldsOf, WithId, Ids
  <2>3. spoiled' = Spoil(s, job[w].id)
    BY <1>32 DEF InsertDeployment
  <2>4. /\ UNCHANGED <<apps, era, disk, cache>>
        /\ deploys' = deploys \union {[app |-> job[w].id, slug |-> s]}
    BY <1>32, <2>1 DEF InsertDeployment, tables, content, TypeInv, ContentTyped
  <2>5. /\ <<job[w].pc, job'[w].pc>> \in Moves
        /\ \A v \in Workers \ {w} : job'[v] = job[v]
    BY <1>32, StepMoves DEF Step
  <2>6. job'[w].pc \notin Drops
    BY <2>2, <2>5 DEF Moves, Drops
  <2>7. \A t \in Slugs : Dropping(t)' = Dropping(t)
    BY <2>2, <2>5, <2>6 DEF Dropping, Busy, Drops
  <2> HIDE DEF s
  <2>8. ASSUME NEW t \in Slugs \ spoiled' PROVE LeftOf(t)'
    <3>1. LeftOf(t) /\ (t = s => Dropping(s) = {} /\ apps[s] = job[w].id)
      BY <2>1, <2>3, <2>8 DEF LeftInv, Spoil
    <3>2. \A v \in Dropping(t) : job'[v] = job[v]
      BY <2>2, <2>5 DEF Dropping, Busy, Drops
    <3>21. OwnContent(t)'
      BY <2>1, <2>2, <2>4, <2>7, <3>1, <3>2 DEF LeftOf, OwnContent
    <3>22. BeingRemoved(t)'
      BY <2>1, <2>2, <2>4, <2>7, <3>1, <3>2 DEF LeftOf, BeingRemoved
    <3>23. OwnDeploys(t)'
      BY <2>1, <2>2, <2>4, <2>7, <3>1, <3>2 DEF LeftOf, OwnDeploys
    <3> QED
      BY <3>21, <3>22, <3>23 DEF LeftOf
  <2> QED
    BY <2>8 DEF LeftInv
<1>33. ASSUME NEW w \in Workers, CancelDeployments(w)
      PROVE  LeftInv'
  <2> DEFINE s == job[w].slug
  <2>1. /\ s \in Slugs /\ job[w].pc = "cancel" /\ job'[w].pc = "row"
        /\ \A v \in Workers \ {w} : job'[v] = job[v]
        /\ job'[w].slug = s /\ job'[w].id = job[w].id
    BY <1>33, Finishes, GoesOn, JobFields DEF CancelDeployments, Busy, Follows,
       OfAnApp, Drops
  <2>2. /\ UNCHANGED <<apps, era, disk, cache, spoiled>>
        /\ deploys' = {d \in deploys : d.app # job[w].id}
    BY <1>33, <2>1 DEF CancelDeployments, tables, content, TypeInv, TablesTyped,
       ContentTyped
  <2> HIDE DEF s
  <2>3. ASSUME NEW t \in Slugs \ spoiled' PROVE LeftOf(t)'
    <3>1. LeftOf(t)
      BY <2>2, <2>3 DEF LeftInv
    <3>2. \A v \in Workers \ {w} : /\ v \in Dropping(t)' <=> v \in Dropping(t)
                                   /\ job'[v] = job[v]
      BY <2>1 DEF Dropping, Busy
    <3>9. Dropping(t) \subseteq Workers /\ Dropping(t)' \subseteq Workers
      BY DEF Dropping
    <3>3. w \in Dropping(t) <=> t = s
      BY <2>1 DEF Dropping, Busy, s
    <3>4. w \in Dropping(t)' <=> t = s
      BY <2>1 DEF Dropping, Busy
    <3>5. Dropping(t)' = Dropping(t)
      BY <3>2, <3>3, <3>4 DEF Dropping
    <3>21. OwnContent(t)'
      BY <2>1, <2>2, <3>1, <3>2, <3>5, <3>9 DEF LeftOf, OwnContent
    <3>22. BeingRemoved(t)'
      BY <2>1, <2>2, <3>1, <3>2, <3>5, <3>9 DEF LeftOf, BeingRemoved
    <3>23. OwnDeploys(t)'
      BY <2>1, <2>2, <3>1, <3>2, <3>5, <3>9 DEF LeftOf, OwnDeploys
    <3> QED
      BY <3>21, <3>22, <3>23 DEF LeftOf
  <2> QED
    BY <2>3 DEF LeftInv
<1>34. ASSUME NEW w \in Workers, DeleteRow(w)
      PROVE  LeftInv'
  <2> DEFINE s == job[w].slug
  <2>1. /\ s \in Slugs /\ job[w].pc = "row" /\ job'[w].pc = "dir"
        /\ \A v \in Workers \ {w} : job'[v] = job[v]
        /\ job'[w].slug = s /\ job'[w].id = job[w].id
    BY <1>34, Finishes, GoesOn, JobFields DEF DeleteRow, Busy, Follows, OfAnApp,
       Drops
  <2>2. /\ UNCHANGED <<era, disk, cache, deploys, spoiled>>
        /\ \A t \in Slugs : apps'[t] = IF apps[t] = job[w].id THEN 0 ELSE apps[t]
    BY <1>34, <2>1 DEF DeleteRow, tables, content, TypeInv, TablesTyped,
       ContentTyped
  <2> HIDE DEF s
  <2>3. ASSUME NEW t \in Slugs \ spoiled' PROVE LeftOf(t)'
    <3>1. LeftOf(t)
      BY <2>2, <2>3 DEF LeftInv
    <3>2. \A v \in Workers \ {w} : /\ v \in Dropping(t)' <=> v \in Dropping(t)
                                   /\ job'[v] = job[v]
      BY <2>1 DEF Dropping, Busy
    <3>9. Dropping(t) \subseteq Workers /\ Dropping(t)' \subseteq Workers
      BY DEF Dropping
    <3>3. w \in Dropping(t) <=> t = s
      BY <2>1 DEF Dropping, Busy, s
    <3>4. w \in Dropping(t)' <=> t = s
      BY <2>1 DEF Dropping, Busy
    <3>5. Dropping(t)' = Dropping(t)
      BY <3>2, <3>3, <3>4 DEF Dropping
    <3>6. job[w].id # 0 /\ (apps[t] = job[w].id => t = s)
      BY <2>1 DEF HoldsInv, HoldsOf, IdsInv, IdOf, Busy, WithId, OfAnApp, Drops,
         Ids, s
    <3>7. CASE apps[t] = job[w].id
      <4>1. \A d \in deploys : d.slug # t
        BY <2>1, <3>1, <3>3, <3>6, <3>7 DEF LeftOf, OwnDeploys
      <4>2. w \in Dropping(t)' /\ job'[w].pc = "dir"
        BY <2>1, <3>4, <3>6, <3>7
      <4> QED
        BY <2>2, <3>7, <4>1, <4>2 DEF LeftOf, OwnContent, BeingRemoved,
           OwnDeploys
    <3>8. CASE apps[t] # job[w].id
      <4>21. OwnContent(t)'
        BY <2>1, <2>2, <3>1, <3>2, <3>3, <3>5, <3>8, <3>9 DEF LeftOf, OwnContent
      <4>22. BeingRemoved(t)'
        BY <2>1, <2>2, <3>1, <3>2, <3>3, <3>5, <3>8, <3>9 DEF LeftOf,
           BeingRemoved
      <4>23. OwnDeploys(t)'
        BY <2>1, <2>2, <3>1, <3>2, <3>3, <3>5, <3>8, <3>9 DEF LeftOf, OwnDeploys
      <4> QED
        BY <4>21, <4>22, <4>23 DEF LeftOf
    <3> QED
      BY <3>7, <3>8
  <2> QED
    BY <2>3 DEF LeftInv
<1>35. ASSUME NEW w \in Workers, RemoveDirectory(w)
      PROVE  LeftInv'
  <2> DEFINE s == job[w].slug
  <2>1. /\ s \in Slugs /\ job[w].pc = "dir" /\ job'[w].pc = "cached"
        /\ \A v \in Workers \ {w} : job'[v] = job[v]
        /\ job'[w].slug = s /\ job'[w].id = job[w].id
    BY <1>35, Finishes, GoesOn, JobFields DEF RemoveDirectory, Busy, Follows,
       OfAnApp, Drops
  <2>2. /\ UNCHANGED <<apps, era, cache, deploys, spoiled>> /\ disk'[s] = {}
        /\ \A t \in Slugs \ {s} : disk'[t] = disk[t]
    BY <1>35, <2>1 DEF RemoveDirectory, tables, content, TypeInv, TablesTyped,
       ContentTyped
  <2> HIDE DEF s
  <2>3. ASSUME NEW t \in Slugs \ spoiled' PROVE LeftOf(t)'
    <3>1. LeftOf(t)
      BY <2>2, <2>3 DEF LeftInv
    <3>2. \A v \in Workers \ {w} : /\ v \in Dropping(t)' <=> v \in Dropping(t)
                                   /\ job'[v] = job[v]
      BY <2>1 DEF Dropping, Busy
    <3>9. Dropping(t) \subseteq Workers /\ Dropping(t)' \subseteq Workers
      BY DEF Dropping
    <3>3. w \in Dropping(t) <=> t = s
      BY <2>1 DEF Dropping, Busy, s
    <3>4. w \in Dropping(t)' <=> t = s
      BY <2>1 DEF Dropping, Busy
    <3>5. Dropping(t)' = Dropping(t)
      BY <3>2, <3>3, <3>4 DEF Dropping
    <3>21. OwnContent(t)'
      BY <2>1, <2>2, <3>1, <3>2, <3>3, <3>5, <3>9 DEF LeftOf, OwnContent
    <3>22. BeingRemoved(t)'
      BY <2>1, <2>2, <3>1, <3>2, <3>3, <3>5, <3>9 DEF LeftOf, BeingRemoved
    <3>23. OwnDeploys(t)'
      BY <2>1, <2>2, <3>1, <3>2, <3>3, <3>5, <3>9 DEF LeftOf, OwnDeploys
    <3> QED
      BY <3>21, <3>22, <3>23 DEF LeftOf
  <2> QED
    BY <2>3 DEF LeftInv
<1>36. ASSUME NEW w \in Workers, RemoveCached(w)
      PROVE  LeftInv'
  <2> DEFINE s == job[w].slug
  <2>1. /\ s \in Slugs /\ job[w].pc = "cached" /\ job'[w].pc = "idle"
        /\ \A v \in Workers \ {w} : job'[v] = job[v]
    BY <1>36, Finishes, GoesOn, JobFields DEF RemoveCached, Busy, Follows,
       OfAnApp, Drops
  <2>2. /\ UNCHANGED <<apps, era, disk, deploys, spoiled>> /\ cache'[s] = {}
        /\ \A t \in Slugs \ {s} : cache'[t] = cache[t]
    BY <1>36, <2>1 DEF RemoveCached, tables, content, TypeInv, TablesTyped,
       ContentTyped
  <2> HIDE DEF s
  <2>3. ASSUME NEW t \in Slugs \ spoiled' PROVE LeftOf(t)'
    <3>1. LeftOf(t)
      BY <2>2, <2>3 DEF LeftInv
    <3>2. \A v \in Workers \ {w} : /\ v \in Dropping(t)' <=> v \in Dropping(t)
                                   /\ job'[v] = job[v]
      BY <2>1 DEF Dropping, Busy
    <3>9. Dropping(t) \subseteq Workers /\ Dropping(t)' \subseteq Workers
      BY DEF Dropping
    <3>3. w \in Dropping(t) <=> t = s
      BY <2>1 DEF Dropping, Busy, s
    <3>4. Dropping(t)' = Dropping(t) \ {w}
      BY <2>1, <3>2 DEF Dropping, Busy
    <3>21. OwnContent(t)'
      BY <2>1, <2>2, <3>1, <3>2, <3>3, <3>4, <3>9 DEF LeftOf, OwnContent
    <3>22. BeingRemoved(t)'
      BY <2>1, <2>2, <3>1, <3>2, <3>3, <3>4, <3>9 DEF LeftOf, BeingRemoved
    <3>23. OwnDeploys(t)'
      BY <2>1, <2>2, <3>1, <3>2, <3>3, <3>4, <3>9 DEF LeftOf, OwnDeploys
    <3> QED
      BY <3>21, <3>22, <3>23 DEF LeftOf
  <2> QED
    BY <2>3 DEF LeftInv
<1> QED
  BY <1>1, <1>2, <1>3, <1>4, <1>5, <1>6, <1>7, <1>8, <1>9, <1>10, <1>11, <1>12,
     <1>13, <1>14, <1>15, <1>16, <1>17, <1>18, <1>19, <1>20, <1>21, <1>22,
     <1>23, <1>24, <1>25, <1>26, <1>27, <1>28, <1>29, <1>30, <1>31, <1>32,
     <1>33, <1>34, <1>35, <1>36 DEF Next, Registration, CreateAdmin, Step

\* Every step leaves each user registering once at most.
LEMMA OnceInvStep ==
  ASSUME TypeInv, OnceInv, [Next]_vars
  PROVE  OnceInv'
<1>h. handler \in Handler
  BY DEF TypeInv, PeopleTyped
<1>s. \A u \in Users : account[u] # "none" => account'[u] # "none"
  BY Stays
<1>u. /\ "none found" \notin Users /\ "done" \notin Users
      /\ \A u \in Users : setup = u => account[u] # "none"
  BY AccessAssumption DEF OnceInv
<1>b. ASSUME events' = events, setup' = setup \/ setup' \in {"none found", "done"},
             handler'.pc = "idle" \/ (handler.pc # "idle" /\ handler'.user = handler.user)
      PROVE  OnceInv'
  <2>1. \A v \in Users : Registering(v)' => Registering(v)
    BY <1>b DEF Registering
  <2>2. \A v \in Users : setup' = v => setup = v
    BY <1>b, <1>u
  <2> QED
    BY <1>b, <1>s, <1>u, <2>1, <2>2 DEF OnceInv
<1>a. ASSUME UNCHANGED <<events, handler, setup>> PROVE OnceInv'
  <2>1. \A v \in Users : Registering(v)' <=> Registering(v)
    BY <1>a DEF Registering
  <2> QED
    BY <1>a, <1>s, <2>1 DEF OnceInv
<1>1. CASE UNCHANGED vars
  BY <1>1, <1>a DEF vars, people
<1>2. ASSUME NEW u \in Users, Register(u)
      PROVE  OnceInv'
  <2>1. /\ Create(u, (IF Live = {} THEN {"admin"} ELSE {}))
        /\ (IF Live = {} THEN {"admin"} ELSE {}) \in SUBSET Roles
    BY <1>2 DEF Register, Roles
  <2>2. account[u] = "none" /\ account'[u] # "none"
    BY <2>1, Creates
  <2>3. PICK source \in Roles \union {"password"} :
          events' = Append(events, [user |-> u, source |-> source])
    BY <1>2 DEF Register
  <2>4. UNCHANGED <<handler, setup>>
    BY <1>2 DEF Register
  <2>5. PICK k \in DOMAIN events' :
          /\ events'[k].user = u /\ DOMAIN events' = DOMAIN events \union {k}
          /\ \A i \in DOMAIN events : events'[i] = events[i]
    BY <2>3, Sends
  <2>6. /\ \A i \in DOMAIN events : events[i].user # u
        /\ handler.pc # "idle" => handler.user # u
        /\ setup # u
    BY <2>2, <1>u DEF OnceInv, Registering
  <2>7. \A v \in Users : Registering(v)' => Registering(v) \/ v = u
    BY <2>4, <2>5 DEF Registering
  <2> QED
    BY <1>s, <2>2, <2>4, <2>5, <2>6, <2>7 DEF OnceInv
<1>3. ASSUME NEW u \in Users, NEW r \in Roles, AcceptInvitation(u, r)
      PROVE  OnceInv'
  <2>1. Create(u, {r}) /\ {r} \in SUBSET Roles
    BY <1>3 DEF AcceptInvitation, Roles
  <2>2. account[u] = "none" /\ account'[u] # "none"
    BY <2>1, Creates
  <2>3. PICK source \in Roles \union {"password"} :
          events' = Append(events, [user |-> u, source |-> source])
    BY <1>3 DEF AcceptInvitation
  <2>4. UNCHANGED <<handler, setup>>
    BY <1>3 DEF AcceptInvitation
  <2>5. PICK k \in DOMAIN events' :
          /\ events'[k].user = u /\ DOMAIN events' = DOMAIN events \union {k}
          /\ \A i \in DOMAIN events : events'[i] = events[i]
    BY <2>3, Sends
  <2>6. /\ \A i \in DOMAIN events : events[i].user # u
        /\ handler.pc # "idle" => handler.user # u
        /\ setup # u
    BY <2>2, <1>u DEF OnceInv, Registering
  <2>7. \A v \in Users : Registering(v)' => Registering(v) \/ v = u
    BY <2>4, <2>5 DEF Registering
  <2> QED
    BY <1>s, <2>2, <2>4, <2>5, <2>6, <2>7 DEF OnceInv
<1>4. CASE TakeEvent
  <2>1. setup' = setup
    BY <1>4 DEF TakeEvent
  <2>2. \A v \in Users : Registering(v)' => Registering(v)
    BY <1>4, Takes DEF Registering
  <2>3. \A i, j \in DOMAIN events' : i # j => events'[i].user # events'[j].user
    <3> SUFFICES ASSUME NEW i \in DOMAIN events', NEW j \in DOMAIN events', i # j
                 PROVE  events'[i].user # events'[j].user
      OBVIOUS
    <3>1. /\ i \in Nat /\ j \in Nat /\ i + 1 \in DOMAIN events
          /\ j + 1 \in DOMAIN events
          /\ events'[i] = events[i + 1] /\ events'[j] = events[j + 1]
      BY <1>4, Takes
    <3>2. i + 1 # j + 1
      BY <3>1
    <3> QED
      BY <3>1, <3>2 DEF OnceInv
  <2>4. \A i \in DOMAIN events' : events'[i].user # handler'.user
    <3> SUFFICES ASSUME NEW i \in DOMAIN events' PROVE events'[i].user # handler'.user
      OBVIOUS
    <3>1. /\ i \in Nat /\ i # 0 /\ i + 1 \in DOMAIN events
          /\ events'[i] = events[i + 1]
          /\ 1 \in DOMAIN events /\ handler'.user = events[1].user
      BY <1>4, Takes
    <3>2. i + 1 # 1
      BY <3>1
    <3> QED
      BY <3>1, <3>2 DEF OnceInv
  <2> QED
    BY <1>s, <2>1, <2>2, <2>3, <2>4 DEF OnceInv
<1>5. CASE CountUsers
  <2>1. UNCHANGED <<events, setup>>
    BY <1>5 DEF CountUsers
  <2>2. handler'.pc = "idle" \/ (handler.pc # "idle" /\ handler'.user = handler.user)
    BY <1>5, <1>h, IdleTyped DEF CountUsers, Handler
  <2> QED
    BY <1>b, <2>1, <2>2
<1>6. CASE ListApps
  <2>1. UNCHANGED <<events, setup>>
    BY <1>6 DEF ListApps
  <2>2. handler'.pc = "idle" \/ (handler.pc # "idle" /\ handler'.user = handler.user)
    BY <1>6, <1>h, IdleTyped DEF ListApps, Handler
  <2> QED
    BY <1>b, <2>1, <2>2
<1>7. CASE GrantInvited
  <2>1. UNCHANGED <<events, setup>>
    BY <1>7 DEF GrantInvited
  <2>2. handler'.pc = "idle" \/ (handler.pc # "idle" /\ handler'.user = handler.user)
    <3>1. PICK id \in handler.todo : handler' = [handler EXCEPT !.todo = handler.todo \ {id},
                        !.pc = IF handler.todo = {id} THEN "assign" ELSE "grant"]
      BY <1>7 DEF GrantInvited
    <3> QED
      BY <1>7, <1>h, <3>1 DEF GrantInvited, Handler
  <2> QED
    BY <1>b, <2>1, <2>2
<1>8. CASE AssignRole
  <2>1. UNCHANGED <<events, setup>>
    BY <1>8 DEF AssignRole
  <2>2. handler'.pc = "idle" \/ (handler.pc # "idle" /\ handler'.user = handler.user)
    BY <1>8, <1>h, IdleTyped DEF AssignRole, Handler
  <2> QED
    BY <1>b, <2>1, <2>2
<1>9. CASE SetupCheck
  <2>1. UNCHANGED <<events, handler>> /\ setup' \in {"none found", "done"}
    BY <1>9 DEF SetupCheck
  <2> QED
    BY <1>b, <2>1
<1>10. ASSUME NEW u \in Users, SetupCreate(u)
      PROVE  OnceInv'
  <2>1. Create(u, {"admin"}) /\ {"admin"} \in SUBSET Roles /\ setup' = u
        /\ UNCHANGED <<events, handler>>
    BY <1>10 DEF SetupCreate, Roles
  <2>2. account[u] = "none" /\ account'[u] # "none"
    BY <2>1, Creates
  <2>3. ~Registering(u)
    BY <2>2 DEF OnceInv
  <2>4. \A v \in Users : Registering(v)' <=> Registering(v)
    BY <2>1 DEF Registering
  <2> QED
    BY <1>s, <2>1, <2>2, <2>3, <2>4 DEF OnceInv
<1>11. CASE SetupAssign
  <2>1. UNCHANGED <<events, handler>> /\ setup' \in {"none found", "done"}
    BY <1>11 DEF SetupAssign
  <2> QED
    BY <1>b, <2>1
<1>12. CASE SetupKilled
  <2>1. UNCHANGED <<events, handler>> /\ setup' \in {"none found", "done"}
    BY <1>12 DEF SetupKilled
  <2> QED
    BY <1>b, <2>1
<1>13. CASE Crash
  <2>1. UNCHANGED <<account, setup>> /\ events' = <<>> /\ handler'.pc = "idle"
    BY <1>13, IdleTyped DEF Crash
  <2>2. DOMAIN events' = {}
    BY <2>1
  <2> QED
    BY <2>1, <2>2 DEF OnceInv, Registering
<1>14. ASSUME NEW w \in Workers, NEW u \in Users, Begin(w, u)
      PROVE  OnceInv'
  <2>1. PICK j \in Job : Starts(w, u, j)
    BY <1>14, BeginStarts
  <2> QED
    BY <1>a, <2>1 DEF Starts, people
<1>15. ASSUME NEW w \in Workers, CheckPending(w)
      PROVE  OnceInv'
  BY <1>15, <1>a DEF CheckPending, people
<1>16. ASSUME NEW w \in Workers, CreateInvitation(w)
      PROVE  OnceInv'
  BY <1>16, <1>a DEF CreateInvitation, people
<1>17. ASSUME NEW w \in Workers, RevokeInvitation(w)
      PROVE  OnceInv'
  BY <1>17, <1>a DEF RevokeInvitation, people
<1>18. ASSUME NEW w \in Workers, ReadRoles(w)
      PROVE  OnceInv'
  BY <1>18, <1>a DEF ReadRoles, people
<1>19. ASSUME NEW w \in Workers, UnassignRole(w)
      PROVE  OnceInv'
  BY <1>19, <1>a DEF UnassignRole, people
<1>20. ASSUME NEW w \in Workers, AssignNewRole(w)
      PROVE  OnceInv'
  BY <1>20, <1>a DEF AssignNewRole, people
<1>21. ASSUME NEW w \in Workers, RemoveUser(w)
      PROVE  OnceInv'
  BY <1>21, <1>a DEF RemoveUser, people
<1>22. ASSUME NEW w \in Workers, InsertApp(w)
      PROVE  OnceInv'
  BY <1>22, <1>a DEF InsertApp, people
<1>23. ASSUME NEW w \in Workers, ListUsers(w)
      PROVE  OnceInv'
  BY <1>23, <1>a DEF ListUsers, people
<1>24. ASSUME NEW w \in Workers, CheckGrant(w)
      PROVE  OnceInv'
  BY <1>24, <1>a DEF CheckGrant, people
<1>25. ASSUME NEW w \in Workers, WriteGrant(w)
      PROVE  OnceInv'
  BY <1>25, <1>a DEF WriteGrant, people
<1>26. ASSUME NEW w \in Workers, CreateKey(w)
      PROVE  OnceInv'
  BY <1>26, <1>a DEF CreateKey, people
<1>27. ASSUME NEW w \in Workers, ScopeKey(w)
      PROVE  OnceInv'
  BY <1>27, <1>a DEF ScopeKey, people
<1>28. ASSUME NEW w \in Workers, DeleteKey(w)
      PROVE  OnceInv'
  BY <1>28, <1>a DEF DeleteKey, people
<1>29. ASSUME NEW w \in Workers, DeleteScope(w)
      PROVE  OnceInv'
  BY <1>29, <1>a DEF DeleteScope, people
<1>30. ASSUME NEW w \in Workers, WriteFile(w)
      PROVE  OnceInv'
  BY <1>30, <1>a DEF WriteFile, people
<1>31. ASSUME NEW w \in Workers, ReloadEntry(w)
      PROVE  OnceInv'
  BY <1>31, <1>a DEF ReloadEntry, people
<1>32. ASSUME NEW w \in Workers, InsertDeployment(w)
      PROVE  OnceInv'
  BY <1>32, <1>a DEF InsertDeployment, people
<1>33. ASSUME NEW w \in Workers, CancelDeployments(w)
      PROVE  OnceInv'
  BY <1>33, <1>a DEF CancelDeployments, people
<1>34. ASSUME NEW w \in Workers, DeleteRow(w)
      PROVE  OnceInv'
  BY <1>34, <1>a DEF DeleteRow, people
<1>35. ASSUME NEW w \in Workers, RemoveDirectory(w)
      PROVE  OnceInv'
  BY <1>35, <1>a DEF RemoveDirectory, people
<1>36. ASSUME NEW w \in Workers, RemoveCached(w)
      PROVE  OnceInv'
  BY <1>36, <1>a DEF RemoveCached, people
<1> QED
  BY <1>1, <1>2, <1>3, <1>4, <1>5, <1>6, <1>7, <1>8, <1>9, <1>10, <1>11, <1>12,
     <1>13, <1>14, <1>15, <1>16, <1>17, <1>18, <1>19, <1>20, <1>21, <1>22,
     <1>23, <1>24, <1>25, <1>26, <1>27, <1>28, <1>29, <1>30, <1>31, <1>32,
     <1>33, <1>34, <1>35, <1>36 DEF Next, Registration, CreateAdmin, Step

\* What concerns the roles of u stays, so that its invariant does.
LEMMA RolesStay ==
  ASSUME NEW u \in Users, RolesOf(u), roles'[u] = roles[u], asked'[u] = asked[u],
         setup' = u <=> setup = u, Registering(u)' <=> Registering(u),
         \A i \in DOMAIN events' : events'[i].user = u =>
           \E k \in DOMAIN events : events[k] = events'[i],
         handler'.pc \in {"list", "grant", "assign"} /\ handler'.user = u =>
           /\ handler.pc \in {"list", "grant", "assign"} /\ handler.user = u
           /\ handler'.role = handler.role,
         Awaiting(u)' => Awaiting(u) /\ (asked[u] = IF Live' = {u} THEN {"admin"} ELSE {}),
         \A v \in Workers : Changer(v, u)' <=> Changer(v, u),
         \A v \in Workers : Changer(v, u) => job'[v] = job[v]
  PROVE  RolesOf(u)'
<1>0. Changing(u)' <=> Changing(u)
  BY DEF Changing, Changer
<1>1. Waits(u)'
  BY <1>0 DEF RolesOf, Waits
<1>2. Awaits(u)'
  <2>1. Awaiting(u)' => asked'[u] = IF Live' = {u} THEN {"admin"} ELSE {}
    OBVIOUS
  <2>2. \A i \in DOMAIN events' :
          events'[i].user = u /\ events'[i].source # "password" => asked'[u] = {events'[i].source}
    BY DEF RolesOf, Awaits
  <2>3. handler'.pc \in {"list", "grant", "assign"} /\ handler'.user = u =>
          asked'[u] = {handler'.role}
    BY DEF RolesOf, Awaits
  <2>4. setup' = u => asked'[u] = {"admin"}
    BY DEF RolesOf, Awaits
  <2> QED
    BY <2>1, <2>2, <2>3, <2>4 DEF Awaits
<1>3. Changes(u)'
  BY DEF RolesOf, Changes
<1>4. Rests(u)'
  BY <1>0 DEF RolesOf, Rests
<1> QED
  BY <1>1, <1>2, <1>3, <1>4 DEF RolesOf

\* Every step leaves the users with the roles asked for, or on their way to them.
LEMMA RolesInvStep ==
  ASSUME TypeInv, HoldsInv, OnceInv, RolesInv, [Next]_vars
  PROVE  RolesInv'
<1>h. handler \in Handler /\ \A v \in Workers : job[v] \in Job
  BY DEF TypeInv, PeopleTyped, JobsTyped
<1> USE <1>h
<1>f. ASSUME UNCHANGED <<account, roles, events, handler, asked>>, blurred \subseteq blurred',
             \A u \in Users \ blurred' : setup' = u <=> setup = u,
             \A v \in Workers : \/ job'[v] = job[v]
                                \/ /\ job'[v].pc \notin {"unassign", "assign"}
                                   /\ job[v].pc \notin {"unassign", "assign"}
      PROVE  RolesInv'
  <2> SUFFICES ASSUME NEW u \in Live' \ blurred' PROVE RolesOf(u)'
    BY DEF RolesInv
  <2>1. u \in Users /\ RolesOf(u) /\ Live' = Live
    BY <1>f DEF RolesInv, Live
  <2>2. /\ Awaiting(u)' <=> Awaiting(u)
        /\ Registering(u)' <=> Registering(u)
    BY <1>f DEF Awaiting, Registering
  <2>3. \A v \in Workers : /\ Changer(v, u)' <=> Changer(v, u)
                           /\ (Changer(v, u) => job'[v] = job[v])
    BY <1>f DEF Changer, Busy
  <2>4. Awaiting(u) => asked[u] = IF Live' = {u} THEN {"admin"} ELSE {}
    BY <2>1 DEF RolesOf, Awaits
  <2> QED
    BY <1>f, <2>1, <2>2, <2>3, <2>4, RolesStay
<1>a. ASSUME UNCHANGED <<account, roles, events, handler, setup, asked, blurred>>,
             \A v \in Workers : \/ job'[v] = job[v]
                                \/ /\ job'[v].pc \notin {"unassign", "assign"}
                                   /\ job[v].pc \notin {"unassign", "assign"}
      PROVE  RolesInv'
  BY <1>a, <1>f
<1>q. ASSUME NEW w \in Workers, Step(w), job[w].pc \notin {"roles", "unassign", "assign"},
             UNCHANGED <<account, roles, events, handler, setup, asked, blurred>>
      PROVE  RolesInv'
  <2>1. /\ <<job[w].pc, job'[w].pc>> \in Moves
        /\ \A v \in Workers \ {w} : job'[v] = job[v]
        /\ job'[w].pc \notin {"unassign", "assign"}
    BY <1>q, StepMoves DEF Moves
  <2> QED
    BY <1>a, <1>q, <2>1
<1>1. CASE UNCHANGED vars
  BY <1>1, <1>a DEF vars, people
<1>2. ASSUME NEW u \in Users, Register(u)
      PROVE  RolesInv'
  <2>1. /\ Create(u, IF Live = {} THEN {"admin"} ELSE {})
        /\ (IF Live = {} THEN {"admin"} ELSE {}) \in SUBSET Roles
        /\ UNCHANGED <<roles, job>>
    BY <1>2 DEF Register, Roles
  <2>2. /\ blurred' = blurred \union Uncounted
        /\ account[u] = "none" /\ account'[u] = "live"
        /\ asked'[u] = (IF Live = {} THEN {"admin"} ELSE {})
        /\ u \notin Live /\ Live' = Live \union {u} /\ roles[u] = {}
        /\ \A v \in Users \ {u} : account'[v] = account[v] /\ asked'[v] = asked[v]
    BY <2>1, Creates
  <2>3. /\ \A i \in DOMAIN events : events[i].user # u
        /\ handler.pc # "idle" => handler.user # u
        /\ ~Registering(u) /\ setup # u
    BY <2>2, AccessAssumption DEF OnceInv, Registering
  <2>4. \A v \in Workers : ~Changer(v, u) /\ ~Changer(v, u)'
    BY <2>1, <2>2 DEF HoldsInv, HoldsOf, Busy, Personal, Changer
  <2>5. ~Changing(u)'
    BY <2>4 DEF Changing, Changer
  <2>6. /\ UNCHANGED <<handler, setup>>
        /\ \A i \in DOMAIN events : i \in DOMAIN events' /\ events'[i] = events[i]
        /\ \E k \in DOMAIN events' : /\ events'[k] = [user |-> u, source |-> "password"]
                                     /\ DOMAIN events' = DOMAIN events \union {k}
    <3>1. events' = Append(events, [user |-> u, source |-> "password"])
          /\ "password" \in Roles \union {"password"}
      BY <1>2 DEF Register
    <3> QED
      BY <1>2, <3>1, Sends DEF Register
  <2>7. RolesOf(u)'
    <3>1. PICK k \in DOMAIN events' : /\ events'[k] = [user |-> u, source |-> "password"]
                                      /\ DOMAIN events' = DOMAIN events \union {k}
      BY <2>6
    <3>2. Waits(u)'
      BY <2>1, <2>2, <2>5 DEF Waits
    <3>3. Awaits(u)'
      <4>1. \A i \in DOMAIN events' : events'[i].user = u => events'[i].source = "password"
        BY <2>3, <2>6, <3>1
      <4>2. handler'.pc # "idle" => handler'.user # u
        BY <2>3, <2>6
      <4>3. setup' # u
        BY <2>3, <2>6
      <4>4. Live' = {u} <=> Live = {}
        BY <2>2
      <4> QED
        BY <2>2, <4>1, <4>2, <4>3, <4>4 DEF Awaits, Roles
    <3>4. Changes(u)'
      BY <2>4 DEF Changes
    <3>5. Rests(u)'
      BY <2>6, <3>1 DEF Rests, Registering
    <3> QED
      BY <3>2, <3>3, <3>4, <3>5 DEF RolesOf
  <2>8. ASSUME NEW v \in Live' \ blurred', v # u PROVE RolesOf(v)'
    <3>1. v \in Live /\ v \in Users /\ v \notin blurred /\ v \notin Uncounted
      BY <2>2, <2>8 DEF Live
    <3>2. RolesOf(v)
      BY <3>1 DEF RolesInv
    <3>3. Awaiting(v)' => Awaiting(v) /\ asked[v] = IF Live' = {v} THEN {"admin"} ELSE {}
      <4>1. Awaiting(v)' => Awaiting(v)
        BY <2>6, <2>8 DEF Awaiting
      <4>2. Awaiting(v) => asked[v] = {}
        BY <3>1, <3>2 DEF Uncounted, Awaiting, RolesOf, Awaits
      <4>3. Live' # {v}
        BY <2>2, <2>8
      <4> QED
        BY <4>1, <4>2, <4>3
    <3>4. \A x \in Workers : Changer(x, v)' <=> Changer(x, v)
      BY <2>1 DEF Changer, Busy
    <3>5. Registering(v)' <=> Registering(v)
      BY <2>6, <2>8 DEF Registering
    <3> QED
      BY <2>1, <2>2, <2>6, <2>8, <3>1, <3>2, <3>3, <3>4, <3>5, RolesStay
  <2> QED
    BY <2>7, <2>8 DEF RolesInv
<1>3. ASSUME NEW u \in Users, NEW r \in Roles, AcceptInvitation(u, r)
      PROVE  RolesInv'
  <2>1. Create(u, {r}) /\ {r} \in SUBSET Roles
        /\ UNCHANGED <<roles, job>>
    BY <1>3 DEF AcceptInvitation, Roles
  <2>2. /\ blurred' = blurred \union Uncounted
        /\ account[u] = "none" /\ account'[u] = "live" /\ asked'[u] = {r}
        /\ u \notin Live /\ Live' = Live \union {u} /\ roles[u] = {}
        /\ \A v \in Users \ {u} : account'[v] = account[v] /\ asked'[v] = asked[v]
    BY <2>1, Creates
  <2>3. /\ \A i \in DOMAIN events : events[i].user # u
        /\ handler.pc # "idle" => handler.user # u
        /\ ~Registering(u) /\ setup # u
    BY <2>2, AccessAssumption DEF OnceInv, Registering
  <2>4. \A v \in Workers : ~Changer(v, u) /\ ~Changer(v, u)'
    BY <2>1, <2>2 DEF HoldsInv, HoldsOf, Busy, Personal, Changer
  <2>5. ~Changing(u)'
    BY <2>4 DEF Changing, Changer
  <2>6. /\ UNCHANGED <<handler, setup>>
        /\ \A i \in DOMAIN events : i \in DOMAIN events' /\ events'[i] = events[i]
        /\ \E k \in DOMAIN events' : /\ events'[k] = [user |-> u, source |-> r]
                                     /\ DOMAIN events' = DOMAIN events \union {k}
    <3>1. events' = Append(events, [user |-> u, source |-> r])
          /\ r \in Roles \union {"password"}
      BY <1>3 DEF AcceptInvitation
    <3> QED
      BY <1>3, <3>1, Sends DEF AcceptInvitation
  <2>7. RolesOf(u)'
    <3>1. PICK k \in DOMAIN events' : /\ events'[k] = [user |-> u, source |-> r]
                                      /\ DOMAIN events' = DOMAIN events \union {k}
      BY <2>6
    <3>2. Waits(u)'
      BY <2>1, <2>2, <2>5 DEF Waits
    <3>3. Awaits(u)'
      <4>1. \A i \in DOMAIN events' : events'[i].user = u => events'[i].source = r
        BY <2>3, <2>6, <3>1
      <4>2. handler'.pc # "idle" => handler'.user # u
        BY <2>3, <2>6
      <4>3. setup' # u
        BY <2>3, <2>6
      <4>4. ~Awaiting(u)'
        BY <4>1, <4>2 DEF Awaiting, Roles
      <4> QED
        BY <2>2, <4>1, <4>2, <4>3, <4>4 DEF Awaits, Roles
    <3>4. Changes(u)'
      BY <2>4 DEF Changes
    <3>5. Rests(u)'
      BY <2>6, <3>1 DEF Rests, Registering
    <3> QED
      BY <3>2, <3>3, <3>4, <3>5 DEF RolesOf
  <2>8. ASSUME NEW v \in Live' \ blurred', v # u PROVE RolesOf(v)'
    <3>1. v \in Live /\ v \in Users /\ v \notin blurred /\ v \notin Uncounted
      BY <2>2, <2>8 DEF Live
    <3>2. RolesOf(v)
      BY <3>1 DEF RolesInv
    <3>3. Awaiting(v)' => Awaiting(v) /\ asked[v] = IF Live' = {v} THEN {"admin"} ELSE {}
      <4>1. Awaiting(v)' => Awaiting(v)
        BY <2>6, <2>8 DEF Awaiting
      <4>2. Awaiting(v) => asked[v] = {}
        BY <3>1, <3>2 DEF Uncounted, Awaiting, RolesOf, Awaits
      <4>3. Live' # {v}
        BY <2>2, <2>8
      <4> QED
        BY <4>1, <4>2, <4>3
    <3>4. \A x \in Workers : Changer(x, v)' <=> Changer(x, v)
      BY <2>1 DEF Changer, Busy
    <3>5. Registering(v)' <=> Registering(v)
      BY <2>6, <2>8 DEF Registering
    <3> QED
      BY <2>1, <2>2, <2>6, <2>8, <3>1, <3>2, <3>3, <3>4, <3>5, RolesStay
  <2> QED
    BY <2>7, <2>8 DEF RolesInv
<1>4. CASE TakeEvent
  <2>1. /\ UNCHANGED <<account, roles, setup, asked, blurred, job>>
        /\ handler.pc = "idle"
    BY <1>4 DEF TakeEvent
  <2>2. /\ 1 \in DOMAIN events /\ handler'.user = events[1].user
        /\ handler'.role = events[1].source
        /\ handler'.pc = IF events[1].source = "password" THEN "count"
                           ELSE IF events[1].source = "admin" THEN "assign" ELSE "list"
        /\ \A i \in DOMAIN events' : i + 1 \in DOMAIN events /\ events'[i] = events[i + 1]
        /\ \A i \in DOMAIN events :
             i # 1 => i - 1 \in DOMAIN events' /\ events'[i - 1] = events[i]
    BY <1>4, Takes
  <2>3. \A i \in DOMAIN events :
          events[i] = [user |-> events[i].user, source |-> events[i].source]
    BY EventFields
  <2>4. ASSUME NEW u \in Live' \ blurred' PROVE RolesOf(u)'
    <3>1. u \in Users /\ RolesOf(u) /\ Live' = Live
      BY <2>1 DEF RolesInv, Live
    <3>2. Registering(u)' <=> Registering(u)
      BY <2>1, <2>2 DEF Registering
    <3>3. Awaiting(u)' => Awaiting(u)
      BY <2>1, <2>2, <2>3 DEF Awaiting
    <3>4. Changing(u)' <=> Changing(u)
      BY <2>1 DEF Changing, Busy
    <3>5. Waits(u)'
      BY <2>1, <3>1, <3>2, <3>4 DEF RolesOf, Waits
    <3>6. Awaits(u)'
      BY <2>1, <2>2, <3>1, <3>3 DEF RolesOf, Awaits
    <3>7. Changes(u)'
      BY <2>1, <3>1 DEF RolesOf, Changes, Changer, Busy
    <3>8. Rests(u)'
      BY <2>1, <3>1, <3>2, <3>4 DEF RolesOf, Rests
    <3> QED
      BY <3>5, <3>6, <3>7, <3>8 DEF RolesOf
  <2> QED
    BY <2>4 DEF RolesInv
<1>5. CASE CountUsers
  <2>1. /\ UNCHANGED <<account, roles, events, setup, asked, blurred, job>>
        /\ handler.pc = "count" /\ handler.user \in Users
    BY <1>5, HandlerFields DEF CountUsers
  <2>2. IF Cardinality(Live) = 1
          THEN handler'.pc = "assign" /\ handler'.role = "admin" /\ handler'.user = handler.user
          ELSE handler'.pc = "idle"
    BY <1>5, <1>h, IdleTyped DEF CountUsers, Handler
  <2>3. ASSUME NEW u \in Live' \ blurred' PROVE RolesOf(u)'
    <3>1. u \in Users /\ RolesOf(u) /\ Live' = Live /\ u \in Live
      BY <2>1 DEF RolesInv, Live
    <3>2. Cardinality(Live) = 1 <=> Live = {u}
      <4>1. IsFiniteSet(Live)
        BY AccessAssumption, FS_Subset DEF Live
      <4> QED
        BY <3>1, <4>1, FS_Singleton
    <3>3. CASE u # handler.user
      <4>1. /\ Awaiting(u)' => Awaiting(u)
            /\ Registering(u)' <=> Registering(u)
        BY <2>1, <2>2, <3>3 DEF Awaiting, Registering
      <4>2. \A v \in Workers : Changer(v, u)' <=> Changer(v, u)
        BY <2>1 DEF Changer, Busy
      <4>3. Awaiting(u) => asked[u] = IF Live' = {u} THEN {"admin"} ELSE {}
        BY <3>1 DEF RolesOf, Awaits
      <4> QED
        BY <2>1, <2>2, <3>1, <3>3, <4>1, <4>2, <4>3, RolesStay
    <3>4. CASE u = handler.user
      <4>1. /\ asked[u] = IF Live = {u} THEN {"admin"} ELSE {}
            /\ roles[u] = {} /\ ~Changing(u) /\ Registering(u) /\ setup # u
        BY <2>1, <3>1, <3>4 DEF RolesOf, Awaits, Awaiting, Waits, Registering,
           OnceInv
      <4>2. \A i \in DOMAIN events' : events'[i].user # u
        BY <2>1, <3>4 DEF OnceInv
      <4>3. ~Changing(u)'
        BY <2>1, <4>1 DEF Changing, Busy
      <4>4. Waits(u)' /\ Changes(u)'
        BY <2>1, <4>1, <4>3 DEF Waits, Changes, Changing, Changer
      <4>5. Awaits(u)'
        BY <2>1, <2>2, <3>1, <3>2, <4>1, <4>2 DEF Awaits, Awaiting
      <4>6. Rests(u)'
        BY <2>1, <2>2, <3>2, <3>4, <4>1 DEF Rests, Registering
      <4> QED
        BY <4>4, <4>5, <4>6 DEF RolesOf
    <3> QED
      BY <3>3, <3>4
  <2> QED
    BY <2>3 DEF RolesInv
<1>6. CASE ListApps
  <2>1. UNCHANGED <<account, roles, events, setup, asked, blurred, job>>
    BY <1>6 DEF ListApps
  <2>2. /\ handler.pc \in {"list", "grant"} /\ handler'.pc \in {"grant", "assign"}
        /\ handler'.user = handler.user /\ handler'.role = handler.role
    BY <1>6, <1>h DEF ListApps, Handler
  <2>3. ASSUME NEW u \in Live' \ blurred' PROVE RolesOf(u)'
    <3>1. u \in Users /\ RolesOf(u) /\ Live' = Live
      BY <2>1 DEF RolesInv, Live
    <3>2. /\ Awaiting(u)' => Awaiting(u)
          /\ Registering(u)' <=> Registering(u)
      BY <2>1, <2>2 DEF Awaiting, Registering
    <3>3. \A v \in Workers : Changer(v, u)' <=> Changer(v, u)
      BY <2>1 DEF Changer, Busy
    <3>4. Awaiting(u) => asked[u] = IF Live' = {u} THEN {"admin"} ELSE {}
      BY <3>1 DEF RolesOf, Awaits
    <3> QED
      BY <2>1, <2>2, <3>1, <3>2, <3>3, <3>4, RolesStay
  <2> QED
    BY <2>3 DEF RolesInv
<1>7. CASE GrantInvited
  <2>1. UNCHANGED <<account, roles, events, setup, asked, blurred, job>>
    BY <1>7 DEF GrantInvited
  <2>2. /\ handler.pc \in {"list", "grant"} /\ handler'.pc \in {"grant", "assign"}
        /\ handler'.user = handler.user /\ handler'.role = handler.role
    <3>1. PICK id \in handler.todo : handler' = [handler EXCEPT !.todo = handler.todo \ {id},
                        !.pc = IF handler.todo = {id} THEN "assign" ELSE "grant"]
      BY <1>7 DEF GrantInvited
    <3> QED
      BY <1>7, <1>h, <3>1 DEF GrantInvited, Handler
  <2>3. ASSUME NEW u \in Live' \ blurred' PROVE RolesOf(u)'
    <3>1. u \in Users /\ RolesOf(u) /\ Live' = Live
      BY <2>1 DEF RolesInv, Live
    <3>2. /\ Awaiting(u)' => Awaiting(u)
          /\ Registering(u)' <=> Registering(u)
      BY <2>1, <2>2 DEF Awaiting, Registering
    <3>3. \A v \in Workers : Changer(v, u)' <=> Changer(v, u)
      BY <2>1 DEF Changer, Busy
    <3>4. Awaiting(u) => asked[u] = IF Live' = {u} THEN {"admin"} ELSE {}
      BY <3>1 DEF RolesOf, Awaits
    <3> QED
      BY <2>1, <2>2, <3>1, <3>2, <3>3, <3>4, RolesStay
  <2> QED
    BY <2>3 DEF RolesInv
<1>8. CASE AssignRole
  <2>1. /\ UNCHANGED <<account, events, setup, asked, job>>
        /\ handler.user \in Users
        /\ roles' = [roles EXCEPT ![handler.user] =
                        IF handler.user \in Live THEN @ \union {handler.role} ELSE {}]
        /\ blurred' = IF Changing(handler.user) THEN blurred \union {handler.user} ELSE blurred
        /\ handler.pc = "assign" /\ handler'.pc = "idle"
    BY <1>8, HandlerFields, IdleTyped DEF AssignRole
  <2>2. /\ Live' = Live
        /\ \A v \in Users \ {handler.user} : roles'[v] = roles[v]
        /\ handler.user \in Live => roles'[handler.user] = roles[handler.user] \union {handler.role}
    BY <2>1 DEF Live, TypeInv, PeopleTyped
  <2>3. ASSUME NEW u \in Live' \ blurred' PROVE RolesOf(u)'
    <3>1. u \in Users /\ RolesOf(u) /\ u \in Live /\ u \notin blurred
      BY <2>1, <2>2, <2>3 DEF RolesInv, Live
    <3>2. CASE u # handler.user
      <4>1. /\ Awaiting(u)' => Awaiting(u)
            /\ Registering(u)' <=> Registering(u)
            /\ setup' = u <=> setup = u
        BY <2>1, <3>1, <3>2, AccessAssumption DEF Awaiting, Registering
      <4>2. \A v \in Workers : Changer(v, u)' <=> Changer(v, u)
        BY <2>1 DEF Changer, Busy
      <4>3. Awaiting(u) => asked[u] = IF Live' = {u} THEN {"admin"} ELSE {}
        BY <2>2, <3>1 DEF RolesOf, Awaits
      <4> QED
        BY <2>1, <2>2, <3>1, <3>2, <4>1, <4>2, <4>3, RolesStay
    <3>3. CASE u = handler.user
      <4>1. ~Changing(u) /\ ~Changing(u)'
        BY <2>1, <2>3, <3>3 DEF Changing, Busy
      <4>2. /\ roles[u] = {} /\ asked[u] = {handler.role} /\ ~Registering(u)'
            /\ setup' # u
        BY <2>1, <3>1, <3>3, AccessAssumption DEF RolesOf, Waits, Awaits,
           Registering, OnceInv
      <4>3. roles'[u] = asked'[u]
        BY <2>1, <2>2, <3>1, <3>3, <4>2
      <4>4. Waits(u)' /\ Changes(u)' /\ Rests(u)'
        BY <4>1, <4>2, <4>3 DEF Waits, Changes, Rests, Changing, Changer
      <4>5. Awaits(u)'
        BY <2>1, <4>2, EventFields DEF Awaits, Awaiting, Registering
      <4> QED
        BY <4>4, <4>5 DEF RolesOf
    <3> QED
      BY <3>2, <3>3
  <2> QED
    BY <2>3 DEF RolesInv
<1>9. CASE SetupCheck
  <2>1. UNCHANGED <<account, roles, events, handler, asked, job, blurred>>
        /\ setup = "idle" /\ setup' = "none found"
    BY <1>9 DEF SetupCheck
  <2> QED
    BY <1>f, <2>1, AccessAssumption
<1>10. ASSUME NEW u \in Users, SetupCreate(u)
      PROVE  RolesInv'
  <2>1. Create(u, {"admin"}) /\ {"admin"} \in SUBSET Roles
        /\ UNCHANGED <<roles, job>>
    BY <1>10 DEF SetupCreate, Roles
  <2>2. /\ blurred' = blurred \union Uncounted
        /\ account[u] = "none" /\ account'[u] = "live" /\ asked'[u] = {"admin"}
        /\ u \notin Live /\ Live' = Live \union {u} /\ roles[u] = {}
        /\ \A v \in Users \ {u} : account'[v] = account[v] /\ asked'[v] = asked[v]
    BY <2>1, Creates
  <2>3. /\ \A i \in DOMAIN events : events[i].user # u
        /\ handler.pc # "idle" => handler.user # u
        /\ ~Registering(u) /\ setup # u
    BY <2>2, AccessAssumption DEF OnceInv, Registering
  <2>4. \A v \in Workers : ~Changer(v, u) /\ ~Changer(v, u)'
    BY <2>1, <2>2 DEF HoldsInv, HoldsOf, Busy, Personal, Changer
  <2>5. ~Changing(u)'
    BY <2>4 DEF Changing, Changer
  <2>6. UNCHANGED <<handler, events>> /\ setup' = u /\ setup \notin Users
    BY <1>10, AccessAssumption DEF SetupCreate
  <2>7. RolesOf(u)'
    <3>1. ~Registering(u)'
      BY <2>3, <2>6 DEF Registering
    <3>2. Waits(u)'
      BY <2>1, <2>2, <2>5 DEF Waits
    <3>3. Awaits(u)'
      <4>1. ~Awaiting(u)'
        BY <2>3, <2>6 DEF Awaiting
      <4> QED
        BY <2>2, <2>3, <2>6, <4>1 DEF Awaits
    <3>4. Changes(u)'
      BY <2>4 DEF Changes
    <3>5. Rests(u)'
      BY <2>6 DEF Rests
    <3> QED
      BY <3>2, <3>3, <3>4, <3>5 DEF RolesOf
  <2>8. ASSUME NEW v \in Live' \ blurred', v # u PROVE RolesOf(v)'
    <3>1. v \in Live /\ v \in Users /\ v \notin blurred /\ v \notin Uncounted
      BY <2>2, <2>8 DEF Live
    <3>2. RolesOf(v)
      BY <3>1 DEF RolesInv
    <3>3. Awaiting(v)' => Awaiting(v) /\ asked[v] = IF Live' = {v} THEN {"admin"} ELSE {}
      <4>1. Awaiting(v)' => Awaiting(v)
        BY <2>6, <2>8 DEF Awaiting
      <4>2. Awaiting(v) => asked[v] = {}
        BY <3>1, <3>2 DEF Uncounted, Awaiting, RolesOf, Awaits
      <4>3. Live' # {v}
        BY <2>2, <2>8
      <4> QED
        BY <4>1, <4>2, <4>3
    <3>4. \A x \in Workers : Changer(x, v)' <=> Changer(x, v)
      BY <2>1 DEF Changer, Busy
    <3>5. Registering(v)' <=> Registering(v)
      BY <2>6, <2>8 DEF Registering
    <3> QED
      BY <2>1, <2>2, <2>6, <2>8, <3>1, <3>2, <3>3, <3>4, <3>5, RolesStay
  <2> QED
    BY <2>7, <2>8 DEF RolesInv
<1>11. CASE SetupAssign
  <2>1. /\ UNCHANGED <<account, events, handler, asked, job>> /\ setup \in Users
        /\ roles' = [roles EXCEPT ![setup] =
                        IF setup \in Live THEN @ \union {"admin"} ELSE {}]
        /\ blurred' = IF Changing(setup) THEN blurred \union {setup} ELSE blurred
        /\ setup' = "done"
    BY <1>11, HandlerFields, IdleTyped DEF SetupAssign
  <2>2. /\ Live' = Live
        /\ \A v \in Users \ {setup} : roles'[v] = roles[v]
        /\ setup \in Live => roles'[setup] = roles[setup] \union {"admin"}
    BY <2>1 DEF Live, TypeInv, PeopleTyped
  <2>3. ASSUME NEW u \in Live' \ blurred' PROVE RolesOf(u)'
    <3>1. u \in Users /\ RolesOf(u) /\ u \in Live /\ u \notin blurred
      BY <2>1, <2>2, <2>3 DEF RolesInv, Live
    <3>2. CASE u # setup
      <4>1. /\ Awaiting(u)' => Awaiting(u)
            /\ Registering(u)' <=> Registering(u)
            /\ setup' = u <=> setup = u
        BY <2>1, <3>1, <3>2, AccessAssumption DEF Awaiting, Registering
      <4>2. \A v \in Workers : Changer(v, u)' <=> Changer(v, u)
        BY <2>1 DEF Changer, Busy
      <4>3. Awaiting(u) => asked[u] = IF Live' = {u} THEN {"admin"} ELSE {}
        BY <2>2, <3>1 DEF RolesOf, Awaits
      <4> QED
        BY <2>1, <2>2, <3>1, <3>2, <4>1, <4>2, <4>3, RolesStay
    <3>3. CASE u = setup
      <4>1. ~Changing(u) /\ ~Changing(u)'
        BY <2>1, <2>3, <3>3 DEF Changing, Busy
      <4>2. roles[u] = {} /\ asked[u] = {"admin"} /\ ~Registering(u)' /\ setup' # u
        BY <2>1, <3>1, <3>3, AccessAssumption DEF RolesOf, Waits, Awaits,
           Registering, OnceInv
      <4>3. roles'[u] = asked'[u]
        BY <2>1, <2>2, <3>1, <3>3, <4>2
      <4>4. Waits(u)' /\ Changes(u)' /\ Rests(u)'
        BY <4>1, <4>2, <4>3 DEF Waits, Changes, Rests, Changing, Changer
      <4>5. Awaits(u)'
        BY <2>1, <4>2, EventFields DEF Awaits, Awaiting, Registering
      <4> QED
        BY <4>4, <4>5 DEF RolesOf
    <3> QED
      BY <3>2, <3>3
  <2> QED
    BY <2>3 DEF RolesInv
<1>12. CASE SetupKilled
  <2>1. UNCHANGED <<account, roles, events, handler, asked, job>>
        /\ setup' = "done" /\ blurred' = blurred \union {setup}
    BY <1>12 DEF SetupKilled
  <2> QED
    BY <1>f, <2>1, AccessAssumption
<1>13. CASE Crash
  <2>1. /\ UNCHANGED <<account, roles, setup, asked>>
        /\ events' = <<>> /\ handler'.pc = "idle"
        /\ \A v \in Workers : job'[v].pc = "idle"
        /\ blurred' = blurred \union {u \in Users : Registering(u) \/ Changing(u)}
    BY <1>13, IdleTyped DEF Crash
  <2>2. ASSUME NEW u \in Live' \ blurred' PROVE RolesOf(u)'
    <3>1. u \in Users /\ RolesOf(u) /\ ~Registering(u) /\ ~Changing(u)
      BY <2>1, <2>2 DEF RolesInv, Live
    <3>2. ~Registering(u)' /\ ~Changing(u)' /\ ~Awaiting(u)' /\ DOMAIN events' = {}
          /\ \A v \in Workers : ~Changer(v, u)'
      BY <2>1 DEF Registering, Changing, Awaiting, Busy, Changer
    <3>3. Waits(u)' /\ Rests(u)' /\ Changes(u)'
      BY <2>1, <3>1, <3>2 DEF RolesOf, Waits, Rests, Changes
    <3>4. Awaits(u)'
      BY <2>1, <3>1, <3>2 DEF RolesOf, Awaits
    <3> QED
      BY <3>3, <3>4 DEF RolesOf
  <2> QED
    BY <2>2 DEF RolesInv
<1>14. ASSUME NEW w \in Workers, NEW u \in Users, Begin(w, u)
      PROVE  RolesInv'
  <2>1. PICK j \in Job : Starts(w, u, j)
    BY <1>14, BeginStarts
  <2>2. /\ job'[w] = j /\ \A v \in Workers \ {w} : job'[v] = job[v] /\ job[w] = Idle
        /\ UNCHANGED <<account, roles, events, handler, setup, asked, blurred>>
    BY <2>1 DEF Starts, people, TypeInv, JobsTyped
  <2>3. job'[w].pc \notin {"unassign", "assign"} /\ job[w].pc = "idle"
    BY <2>1, <2>2, IdleTyped DEF Starts
  <2> QED
    BY <1>a, <2>2, <2>3
<1>15. ASSUME NEW w \in Workers, CheckPending(w)
      PROVE  RolesInv'
  BY <1>15, <1>q DEF Step, CheckPending, people, Busy
<1>16. ASSUME NEW w \in Workers, CreateInvitation(w)
      PROVE  RolesInv'
  BY <1>16, <1>q DEF Step, CreateInvitation, people, Busy
<1>17. ASSUME NEW w \in Workers, RevokeInvitation(w)
      PROVE  RolesInv'
  BY <1>17, <1>q DEF Step, RevokeInvitation, people, Busy
<1>18. ASSUME NEW w \in Workers, ReadRoles(w)
      PROVE  RolesInv'
  <2> DEFINE t == job[w].target
  <2>1. /\ t \in Users /\ job[w].pc = "roles" /\ job'[w].pc = "unassign"
        /\ job'[w].target = t
        /\ job'[w].role = job[w].role /\ job'[w].todo = roles[t] /\ roles' = roles
        /\ asked'[t] = {job[w].role} /\ \A v \in Users \ {t} : asked'[v] = asked[v]
        /\ blurred \subseteq blurred'
        /\ t \notin blurred' => ~Changing(t) /\ ~Registering(t) /\ setup # t
    <3>1. t \in Users /\ job[w].pc = "roles" /\ job[w] \in Job
      BY <1>18, JobFields DEF ReadRoles, Busy, Personal
    <3>2. job'[w] = [job[w] EXCEPT !.pc = "unassign", !.todo = roles[t]]
      BY <1>18 DEF ReadRoles, TypeInv, JobsTyped
    <3>3. /\ job'[w].pc = "unassign" /\ job'[w].target = t
          /\ job'[w].role = job[w].role /\ job'[w].todo = roles[t]
      BY <3>1, <3>2 DEF Job
    <3> QED
      BY <1>18, <3>1, <3>3 DEF ReadRoles, TypeInv, PeopleTyped, people
  <2>2. /\ \A v \in Workers \ {w} : job'[v] = job[v]
        /\ UNCHANGED <<account, events, handler, setup>>
    BY <1>18, StepMoves DEF Step, ReadRoles, people
  <2> HIDE DEF t
  <2>3. ASSUME NEW u \in Live' \ blurred' PROVE RolesOf(u)'
    <3>1. /\ u \in Users /\ RolesOf(u) /\ u \in Live /\ u \notin blurred
          /\ Live' = Live
      BY <2>1, <2>2, <2>3 DEF RolesInv, Live
    <3>2. CASE u # t
      <4>1. \A v \in Workers : Changer(v, u)' <=> Changer(v, u)
        BY <2>1, <2>2, <3>2 DEF Changer, Busy, t
      <4>2. /\ Awaiting(u)' <=> Awaiting(u)
            /\ Registering(u)' <=> Registering(u)
        BY <2>2 DEF Awaiting, Registering
      <4>3. \A v \in Workers : Changer(v, u) => job'[v] = job[v]
        BY <2>2, <3>2 DEF Changer, t
      <4>4. roles'[u] = roles[u] /\ asked'[u] = asked[u]
        BY <2>1, <3>1, <3>2
      <4>5. Awaiting(u) => asked[u] = IF Live' = {u} THEN {"admin"} ELSE {}
        BY <3>1 DEF RolesOf, Awaits
      <4> QED
        BY <2>2, <3>1, <4>1, <4>2, <4>3, <4>4, <4>5, RolesStay
    <3>3. CASE u = t
      <4>1. ~Changing(u) /\ ~Registering(u) /\ setup # u
        BY <2>1, <2>3, <3>3
      <4>2. ~Registering(u)' /\ setup' # u
        BY <2>2, <4>1 DEF Registering
      <4>3. Changing(u)' /\ Waits(u)' /\ Rests(u)'
        BY <2>1, <3>3, <4>2 DEF Waits, Rests, Changing, Busy
      <4>4. Awaits(u)'
        BY <4>2, EventFields DEF Awaits, Awaiting, Registering
      <4>5. \A v \in Workers \ {w} : ~Changer(v, u)'
        BY <2>2, <4>1 DEF Changing, Changer, Busy
      <4>6. Changes(u)'
        BY <2>1, <3>3, <4>5 DEF Changes
      <4> QED
        BY <4>3, <4>4, <4>6 DEF RolesOf
    <3> QED
      BY <3>2, <3>3
  <2> QED
    BY <2>3 DEF RolesInv
<1>19. ASSUME NEW w \in Workers, UnassignRole(w)
      PROVE  RolesInv'
  <2> DEFINE t == job[w].target
  <2>1. /\ t \in Users /\ job[w].pc = "unassign" /\ UNCHANGED <<asked, blurred>>
        /\ job'[w].target = t /\ job'[w].role = job[w].role
        /\ \/ job[w].todo = {} /\ job'[w].pc = "assign" /\ roles' = roles
           \/ /\ job'[w].pc = "unassign"
              /\ \E r \in job[w].todo : /\ job'[w].todo = job[w].todo \ {r}
                                        /\ roles'[t] = roles[t] \ {r}
        /\ \A v \in Users \ {t} : roles'[v] = roles[v]
    <3>1. t \in Users /\ job[w].pc = "unassign" /\ job[w] \in Job
      BY <1>19, JobFields DEF UnassignRole, Busy, Personal
    <3>2. CASE job[w].todo = {}
      BY <1>19, <3>1, <3>2, GoesOn DEF UnassignRole, Follows
    <3>3. CASE job[w].todo # {}
      <4>1. PICK r \in job[w].todo :
              /\ roles' = [roles EXCEPT ![t] = roles[t] \ {r}]
              /\ job' = [job EXCEPT ![w].todo = job[w].todo \ {r}]
        BY <1>19, <3>3 DEF UnassignRole
      <4>2. job'[w] = [job[w] EXCEPT !.todo = job[w].todo \ {r}]
        BY <4>1 DEF TypeInv, JobsTyped
      <4>3. /\ job'[w].pc = "unassign" /\ job'[w].target = t
            /\ job'[w].role = job[w].role
            /\ job'[w].todo = job[w].todo \ {r}
        BY <3>1, <4>2 DEF Job
      <4>4. /\ roles'[t] = roles[t] \ {r}
            /\ \A v \in Users \ {t} : roles'[v] = roles[v]
        BY <3>1, <4>1 DEF TypeInv, PeopleTyped
      <4> HIDE DEF t
      <4> QED
        BY <1>19, <3>1, <4>3, <4>4 DEF UnassignRole
    <3> QED
      BY <3>2, <3>3
  <2>2. /\ \A v \in Workers \ {w} : job'[v] = job[v]
        /\ UNCHANGED <<account, events, handler, setup>>
    BY <1>19, StepMoves DEF Step, UnassignRole, people
  <2> HIDE DEF t
  <2>3. ASSUME NEW u \in Live' \ blurred' PROVE RolesOf(u)'
    <3>1. /\ u \in Users /\ RolesOf(u) /\ u \in Live /\ u \notin blurred
          /\ Live' = Live
      BY <2>1, <2>2, <2>3 DEF RolesInv, Live
    <3>2. CASE u # t
      <4>1. \A v \in Workers : Changer(v, u)' <=> Changer(v, u)
        BY <2>1, <2>2, <3>2 DEF Changer, Busy, t
      <4>2. /\ Awaiting(u)' <=> Awaiting(u)
            /\ Registering(u)' <=> Registering(u)
        BY <2>2 DEF Awaiting, Registering
      <4>3. \A v \in Workers : Changer(v, u) => job'[v] = job[v]
        BY <2>2, <3>2 DEF Changer, t
      <4>4. roles'[u] = roles[u] /\ asked'[u] = asked[u]
        BY <2>1, <3>1, <3>2
      <4>5. Awaiting(u) => asked[u] = IF Live' = {u} THEN {"admin"} ELSE {}
        BY <3>1 DEF RolesOf, Awaits
      <4> QED
        BY <2>2, <3>1, <4>1, <4>2, <4>3, <4>4, <4>5, RolesStay
    <3>3. CASE u = t
      <4>1. Changer(w, u) /\ Changing(u) /\ ~Registering(u) /\ setup # u
        BY <2>1, <3>1, <3>3 DEF Changer, Changing, Busy, RolesOf, Waits, t
      <4>2. ~Registering(u)' /\ setup' # u
        BY <2>2, <4>1 DEF Registering
      <4>3. \A v \in Workers \ {w} : ~Changer(v, u) /\ ~Changer(v, u)'
        BY <2>2, <3>1, <4>1 DEF RolesOf, Changes, Changer, Busy
      <4>4. Awaits(u)'
        BY <4>2, EventFields DEF Awaits, Awaiting, Registering
      <4>5. /\ asked[u] = {job[w].role}
            /\ roles[u] \subseteq (IF job[w].pc = "assign" THEN {} ELSE job[w].todo)
        BY <3>1, <4>1 DEF RolesOf, Changes
      <4>6. Changing(u)' /\ Waits(u)' /\ Rests(u)'
        BY <2>1, <3>3, <4>2 DEF Waits, Rests, Changing, Busy
      <4>7. Changes(u)'
        BY <2>1, <3>3, <4>3, <4>5 DEF Changes
      <4> QED
        BY <4>4, <4>6, <4>7 DEF RolesOf
    <3> QED
      BY <3>2, <3>3
  <2> QED
    BY <2>3 DEF RolesInv
<1>20. ASSUME NEW w \in Workers, AssignNewRole(w)
      PROVE  RolesInv'
  <2> DEFINE t == job[w].target
  <2>1. /\ t \in Users /\ job[w].pc = "assign" /\ UNCHANGED <<asked, blurred>>
        /\ job'[w].pc = "idle"
        /\ t \in Live => roles'[t] = roles[t] \union {job[w].role}
        /\ \A v \in Users \ {t} : roles'[v] = roles[v]
    BY <1>20, JobFields, Finishes DEF AssignNewRole, Busy, Personal, TypeInv,
       PeopleTyped
  <2>2. /\ \A v \in Workers \ {w} : job'[v] = job[v]
        /\ UNCHANGED <<account, events, handler, setup>>
    BY <1>20, StepMoves DEF Step, AssignNewRole, people
  <2> HIDE DEF t
  <2>3. ASSUME NEW u \in Live' \ blurred' PROVE RolesOf(u)'
    <3>1. /\ u \in Users /\ RolesOf(u) /\ u \in Live /\ u \notin blurred
          /\ Live' = Live
      BY <2>1, <2>2, <2>3 DEF RolesInv, Live
    <3>2. CASE u # t
      <4>1. \A v \in Workers : Changer(v, u)' <=> Changer(v, u)
        BY <2>1, <2>2, <3>2 DEF Changer, Busy, t
      <4>2. /\ Awaiting(u)' <=> Awaiting(u)
            /\ Registering(u)' <=> Registering(u)
        BY <2>2 DEF Awaiting, Registering
      <4>3. \A v \in Workers : Changer(v, u) => job'[v] = job[v]
        BY <2>2, <3>2 DEF Changer, t
      <4>4. roles'[u] = roles[u] /\ asked'[u] = asked[u]
        BY <2>1, <3>1, <3>2
      <4>5. Awaiting(u) => asked[u] = IF Live' = {u} THEN {"admin"} ELSE {}
        BY <3>1 DEF RolesOf, Awaits
      <4> QED
        BY <2>2, <3>1, <4>1, <4>2, <4>3, <4>4, <4>5, RolesStay
    <3>3. CASE u = t
      <4>1. Changer(w, u) /\ Changing(u) /\ ~Registering(u) /\ setup # u
        BY <2>1, <3>1, <3>3 DEF Changer, Changing, Busy, RolesOf, Waits, t
      <4>2. ~Registering(u)' /\ setup' # u
        BY <2>2, <4>1 DEF Registering
      <4>3. \A v \in Workers \ {w} : ~Changer(v, u) /\ ~Changer(v, u)'
        BY <2>2, <3>1, <4>1 DEF RolesOf, Changes, Changer, Busy
      <4>4. Awaits(u)'
        BY <4>2, EventFields DEF Awaits, Awaiting, Registering
      <4>5. /\ asked[u] = {job[w].role}
            /\ roles[u] \subseteq (IF job[w].pc = "assign" THEN {} ELSE job[w].todo)
        BY <3>1, <4>1 DEF RolesOf, Changes
      <4>6. ~Changing(u)' /\ Waits(u)' /\ Rests(u)'
        BY <2>1, <3>1, <3>3, <4>2, <4>3, <4>5 DEF Waits, Rests, Changing,
           Changer, Busy
      <4>7. Changes(u)'
        BY <2>1, <3>3, <4>3 DEF Changes, Changer, Busy
      <4> QED
        BY <4>4, <4>6, <4>7 DEF RolesOf
    <3> QED
      BY <3>2, <3>3
  <2> QED
    BY <2>3 DEF RolesInv
<1>21. ASSUME NEW w \in Workers, RemoveUser(w)
      PROVE  RolesInv'
  <2> DEFINE t == job[w].target
  <2>1. /\ t \in Users /\ job[w].pc = "remove" /\ job'[w].pc = "idle"
        /\ job[w].by # t
        /\ \A v \in Workers \ {w} : job'[v] = job[v]
    BY <1>21, JobFields, Finishes DEF RemoveUser, Busy, Personal, HoldsInv,
       HoldsOf
  <2>2. /\ UNCHANGED <<events, handler, setup, asked>> /\ Live' \subseteq Live
        /\ Live' = Live \ {t} /\ \A v \in Users \ {t} : roles'[v] = roles[v]
    BY <1>21, <2>1 DEF RemoveUser, Live, TypeInv, PeopleTyped
  <2>3. /\ blurred \subseteq blurred'
        /\ Outranked(w) => \A v \in Users : Registering(v) => v \in blurred'
    BY <1>21 DEF RemoveUser
  <2> HIDE DEF t
  <2>4. ASSUME NEW u \in Live' \ blurred' PROVE RolesOf(u)'
    <3>1. u \in Users /\ RolesOf(u) /\ u # t
      BY <2>2, <2>3, <2>4 DEF RolesInv, Live
    <3>2. /\ Awaiting(u)' <=> Awaiting(u)
          /\ Registering(u)' <=> Registering(u)
      BY <2>2 DEF Awaiting, Registering
    <3>3. \A v \in Workers : (Changer(v, u)' <=> Changer(v, u)) /\ (Changer(v, u) => v # w)
      BY <2>1 DEF Changer, Busy
    <3>4. Awaiting(u) => (Live' = {u} <=> Live = {u})
      <4> SUFFICES ASSUME Awaiting(u) PROVE Live' = {u} <=> Live = {u}
        OBVIOUS
      <4>1. Registering(u)
        BY DEF Awaiting, Registering
      <4>2. job[w].by \in Live /\ "admin" \in roles[job[w].by]
        BY <2>3, <2>4, <3>1, <4>1 DEF Outranked
      <4>3. roles[u] = {}
        BY <3>1, <4>1 DEF RolesOf, Waits
      <4>4. job[w].by # u /\ job[w].by \in Live' /\ job[w].by \in Live
        BY <2>1, <2>2, <4>2, <4>3 DEF t
      <4> QED
        BY <4>4
    <3>5. Awaiting(u) => asked[u] = IF Live' = {u} THEN {"admin"} ELSE {}
      BY <3>1, <3>4 DEF RolesOf, Awaits
    <3> QED
      BY <2>1, <2>2, <3>1, <3>2, <3>3, <3>5, RolesStay
  <2> QED
    BY <2>4 DEF RolesInv
<1>22. ASSUME NEW w \in Workers, InsertApp(w)
      PROVE  RolesInv'
  BY <1>22, <1>q DEF Step, InsertApp, people, Busy
<1>23. ASSUME NEW w \in Workers, ListUsers(w)
      PROVE  RolesInv'
  BY <1>23, <1>q DEF Step, ListUsers, people, Busy
<1>24. ASSUME NEW w \in Workers, CheckGrant(w)
      PROVE  RolesInv'
  BY <1>24, <1>q DEF Step, CheckGrant, people, Busy
<1>25. ASSUME NEW w \in Workers, WriteGrant(w)
      PROVE  RolesInv'
  BY <1>25, <1>q DEF Step, WriteGrant, people, Busy
<1>26. ASSUME NEW w \in Workers, CreateKey(w)
      PROVE  RolesInv'
  BY <1>26, <1>q DEF Step, CreateKey, people, Busy
<1>27. ASSUME NEW w \in Workers, ScopeKey(w)
      PROVE  RolesInv'
  BY <1>27, <1>q DEF Step, ScopeKey, people, Busy
<1>28. ASSUME NEW w \in Workers, DeleteKey(w)
      PROVE  RolesInv'
  BY <1>28, <1>q DEF Step, DeleteKey, people, Busy
<1>29. ASSUME NEW w \in Workers, DeleteScope(w)
      PROVE  RolesInv'
  BY <1>29, <1>q DEF Step, DeleteScope, people, Busy
<1>30. ASSUME NEW w \in Workers, WriteFile(w)
      PROVE  RolesInv'
  BY <1>30, <1>q DEF Step, WriteFile, people, Busy
<1>31. ASSUME NEW w \in Workers, ReloadEntry(w)
      PROVE  RolesInv'
  BY <1>31, <1>q DEF Step, ReloadEntry, people, Busy
<1>32. ASSUME NEW w \in Workers, InsertDeployment(w)
      PROVE  RolesInv'
  BY <1>32, <1>q DEF Step, InsertDeployment, people, Busy
<1>33. ASSUME NEW w \in Workers, CancelDeployments(w)
      PROVE  RolesInv'
  BY <1>33, <1>q DEF Step, CancelDeployments, people, Busy
<1>34. ASSUME NEW w \in Workers, DeleteRow(w)
      PROVE  RolesInv'
  BY <1>34, <1>q DEF Step, DeleteRow, people, Busy
<1>35. ASSUME NEW w \in Workers, RemoveDirectory(w)
      PROVE  RolesInv'
  BY <1>35, <1>q DEF Step, RemoveDirectory, people, Busy
<1>36. ASSUME NEW w \in Workers, RemoveCached(w)
      PROVE  RolesInv'
  BY <1>36, <1>q DEF Step, RemoveCached, people, Busy
<1> QED
  BY <1>1, <1>2, <1>3, <1>4, <1>5, <1>6, <1>7, <1>8, <1>9, <1>10, <1>11, <1>12,
     <1>13, <1>14, <1>15, <1>16, <1>17, <1>18, <1>19, <1>20, <1>21, <1>22,
     <1>23, <1>24, <1>25, <1>26, <1>27, <1>28, <1>29, <1>30, <1>31, <1>32,
     <1>33, <1>34, <1>35, <1>36 DEF Next, Registration, CreateAdmin, Step

\* Every step leaves an administrator, or one to come.
LEMMA AdminInvStep ==
  ASSUME TypeInv, HoldsInv, AdminInv, [Next]_vars
  PROVE  AdminInv'
<1>h. handler \in Handler /\ \A v \in Workers : job[v] \in Job
  BY DEF TypeInv, PeopleTyped, JobsTyped
<1> USE <1>h
<1>b. ASSUME UNCHANGED <<account, roles, invites, events, handler, setup, asked, headless, job>>
      PROVE  AdminInv'
  BY <1>b DEF AdminInv, HasAdministrator, Coming, Powerless, FirstToBe,
     Awaiting, Live
<1>c. \A w \in Workers : job[w].pc # "idle" => ~Coming
  BY IdleTyped DEF Coming, Powerless
<1>q. ASSUME NEW w \in Workers, UNCHANGED <<account, roles, headless>>, job[w].pc # "idle"
      PROVE  AdminInv'
  BY <1>c, <1>q DEF AdminInv, HasAdministrator, Live
<1>1. CASE UNCHANGED vars
  BY <1>1, <1>b DEF vars, people
<1>2. ASSUME NEW u \in Users, Register(u)
      PROVE  AdminInv'
  <2>1. Create(u, IF Live = {} THEN {"admin"} ELSE {})
        /\ (IF Live = {} THEN {"admin"} ELSE {}) \in SUBSET Roles
    BY <1>2 DEF Register, Roles
  <2>2. /\ Live' = Live \union {u}
        /\ asked'[u] = IF Live = {} THEN {"admin"} ELSE {}
    BY <2>1, Creates
  <2>3. /\ \A i \in DOMAIN events : i \in DOMAIN events' /\ events'[i] = events[i]
        /\ \E k \in DOMAIN events' : /\ events'[k] = [user |-> u, source |-> "password"]
                                     /\ DOMAIN events' = DOMAIN events \union {k}
    BY <1>2, Sends DEF Register
  <2>4. /\ UNCHANGED <<roles, invites, handler, setup, job>>
        /\ headless' = (headless \/ Uncounted # {})
    BY <1>2 DEF Register
  <2>5. HasAdministrator => HasAdministrator'
    BY <2>2, <2>4 DEF HasAdministrator
  <2>6. ASSUME Coming, ~headless' PROVE Coming'
    <3>1. Powerless'
      BY <2>3, <2>4, <2>6 DEF Coming, Powerless
    <3>2. CASE Live = {}
      BY <2>2, <2>3, <3>1, <3>2 DEF Coming, FirstToBe, Awaiting
    <3>3. CASE setup \in Live
      BY <2>2, <2>4, <3>1, <3>3 DEF Coming
    <3>4. ASSUME NEW v \in Live, FirstToBe(v) PROVE Coming'
      <4>1. ~(Live = {v} /\ asked[v] = {"admin"} /\ Awaiting(v))
        BY <2>4, <2>6 DEF Uncounted, Awaiting, Live
      <4> QED
        BY <2>2, <2>4, <3>1, <3>4, <4>1 DEF FirstToBe, Coming
    <3> QED
      BY <2>6, <3>2, <3>3, <3>4 DEF Coming
  <2> QED
    BY <2>4, <2>5, <2>6 DEF AdminInv
<1>3. ASSUME NEW u \in Users, NEW r \in Roles, AcceptInvitation(u, r)
      PROVE  AdminInv'
  <2>1. Create(u, {r}) /\ {r} \in SUBSET Roles /\ invites # {} /\ roles' = roles
        /\ headless' = (headless \/ Uncounted # {})
    BY <1>3 DEF AcceptInvitation
  <2>2. Live' = Live \union {u}
    BY <2>1, Creates
  <2>3. HasAdministrator => HasAdministrator'
    BY <2>1, <2>2 DEF HasAdministrator
  <2> QED
    BY <2>1, <2>3 DEF AdminInv, Coming, Powerless
<1>4. CASE TakeEvent
  <2>1. /\ UNCHANGED <<account, roles, invites, setup, asked, headless, job>>
        /\ handler.pc = "idle"
    BY <1>4 DEF TakeEvent
  <2>2. /\ 1 \in DOMAIN events /\ handler'.user = events[1].user
        /\ events[1].source = "password" => handler'.pc = "count"
        /\ \A i \in DOMAIN events' : i + 1 \in DOMAIN events /\ events'[i] = events[i + 1]
        /\ \A i \in DOMAIN events :
             i # 1 => i - 1 \in DOMAIN events' /\ events'[i - 1] = events[i]
    BY <1>4, Takes
  <2>3. HasAdministrator => HasAdministrator'
    BY <2>1 DEF HasAdministrator, Live
  <2>4. ASSUME Coming PROVE Coming'
    <3>1. Powerless'
      BY <2>1, <2>2, <2>4 DEF Coming, Powerless
    <3>2. \A u \in Live : Awaiting(u) => Awaiting(u)'
      BY <2>1, <2>2, <2>4 DEF Awaiting, Coming, Powerless
    <3> QED
      BY <2>1, <2>4, <3>1, <3>2 DEF Coming, FirstToBe, Live
  <2> QED
    BY <2>1, <2>3, <2>4 DEF AdminInv
<1>5. CASE CountUsers
  <2>1. /\ UNCHANGED <<account, roles, invites, events, setup, asked, headless, job>>
        /\ handler.pc = "count"
    BY <1>5 DEF CountUsers
  <2>2. IF Cardinality(Live) = 1
          THEN handler'.pc = "assign" /\ handler'.role = "admin" /\ handler'.user = handler.user
          ELSE handler'.pc = "idle"
    BY <1>5, <1>h, IdleTyped DEF CountUsers, Handler
  <2>3. HasAdministrator => HasAdministrator'
    BY <2>1 DEF HasAdministrator, Live
  <2>4. ASSUME Coming PROVE Coming'
    <3>1. Powerless' /\ Live' = Live
      BY <2>1, <2>2, <2>4 DEF Coming, Powerless, Live
    <3>2. ASSUME NEW u \in Live, FirstToBe(u) PROVE FirstToBe(u)'
      <4>1. Live = {u} /\ asked[u] = {"admin"} /\ Awaiting(u)
        BY <2>1, <3>2 DEF FirstToBe
      <4>2. Cardinality(Live) = 1
        BY <4>1, FS_Singleton
      <4> QED
        BY <2>1, <2>2, <3>1, <4>1, <4>2 DEF FirstToBe, Awaiting
    <3> QED
      BY <2>1, <2>4, <3>1, <3>2 DEF Coming
  <2> QED
    BY <2>1, <2>3, <2>4 DEF AdminInv
<1>6. CASE ListApps
  <2>1. UNCHANGED <<account, roles, headless>> /\ handler.pc \in {"list", "grant"}
    BY <1>6 DEF ListApps
  <2>2. HasAdministrator => HasAdministrator'
    BY <2>1 DEF HasAdministrator, Live
  <2> QED
    BY <2>1, <2>2 DEF AdminInv, Coming, Powerless
<1>7. CASE GrantInvited
  <2>1. UNCHANGED <<account, roles, headless>> /\ handler.pc \in {"list", "grant"}
    BY <1>7 DEF GrantInvited
  <2>2. HasAdministrator => HasAdministrator'
    BY <2>1 DEF HasAdministrator, Live
  <2> QED
    BY <2>1, <2>2 DEF AdminInv, Coming, Powerless
<1>8. CASE AssignRole
  <2>1. /\ UNCHANGED <<account, invites, events, setup, asked, headless, job>>
        /\ handler.user \in Users
        /\ roles' = [roles EXCEPT ![handler.user] =
                        IF handler.user \in Live THEN @ \union {handler.role} ELSE {}]
        /\ handler.pc = "assign" /\ handler'.pc = "idle"
    BY <1>8, HandlerFields, IdleTyped DEF AssignRole
  <2>2. /\ Live' = Live
        /\ \A v \in Live : roles[v] \subseteq roles'[v]
        /\ handler.user \in Live => handler.role \in roles'[handler.user]
        /\ handler.user \notin Live => roles'[handler.user] = {}
        /\ \A v \in Users \ {handler.user} : roles'[v] = roles[v]
    BY <2>1 DEF Live, TypeInv, PeopleTyped
  <2>3. HasAdministrator => HasAdministrator'
    BY <2>2 DEF HasAdministrator
  <2>4. ASSUME Coming PROVE HasAdministrator' \/ Coming'
    <3>1. CASE handler.user \in Live
      BY <2>1, <2>2, <2>4, <3>1 DEF HasAdministrator, Coming, Powerless
    <3>2. CASE handler.user \notin Live
      <4>1. Powerless'
        BY <2>1, <2>2, <2>4, <3>2 DEF Coming, Powerless
      <4>2. \A u \in Live : FirstToBe(u) => FirstToBe(u)'
        BY <2>1, <2>2, <3>2 DEF FirstToBe, Awaiting
      <4> QED
        BY <2>1, <2>2, <2>4, <3>2, <4>1, <4>2 DEF Coming
    <3> QED
      BY <3>1, <3>2
  <2> QED
    BY <2>1, <2>3, <2>4 DEF AdminInv
<1>9. CASE SetupCheck
  <2>1. /\ UNCHANGED <<account, roles, invites, events, handler, asked, headless, job>>
        /\ setup = "idle" /\ setup \notin Users
    BY <1>9, AccessAssumption DEF SetupCheck
  <2>2. /\ Live' = Live /\ (Powerless => Powerless')
        /\ \A u \in Live : FirstToBe(u) => FirstToBe(u)'
    BY <2>1 DEF Live, Powerless, FirstToBe, Awaiting
  <2>3. setup \notin Live
    BY <2>1 DEF Live
  <2> QED
    BY <2>1, <2>2, <2>3 DEF AdminInv, HasAdministrator, Coming
<1>10. ASSUME NEW u \in Users, SetupCreate(u)
      PROVE  AdminInv'
  <2>1. Create(u, {"admin"}) /\ {"admin"} \in SUBSET Roles /\ setup' = u
        /\ UNCHANGED <<roles, invites, events, handler, headless, job>>
    BY <1>10 DEF SetupCreate, Roles
  <2>2. Live' = Live \union {u}
    BY <2>1, Creates
  <2>3. Powerless => Powerless'
    BY <2>1 DEF Powerless
  <2>4. HasAdministrator => HasAdministrator'
    BY <2>1, <2>2 DEF HasAdministrator
  <2> QED
    BY <2>1, <2>2, <2>3, <2>4 DEF AdminInv, Coming
<1>11. CASE SetupAssign
  <2>1. /\ UNCHANGED <<account, invites, events, handler, asked, headless, job>>
        /\ setup \in Users
        /\ roles' = [roles EXCEPT ![setup] =
                        IF setup \in Live THEN @ \union {"admin"} ELSE {}]
        /\ setup' = "done"
    BY <1>11, HandlerFields, IdleTyped DEF SetupAssign
  <2>2. /\ Live' = Live
        /\ \A v \in Live : roles[v] \subseteq roles'[v]
        /\ setup \in Live => "admin" \in roles'[setup]
        /\ setup \notin Live => roles'[setup] = {}
        /\ \A v \in Users \ {setup} : roles'[v] = roles[v]
    BY <2>1 DEF Live, TypeInv, PeopleTyped
  <2>3. HasAdministrator => HasAdministrator'
    BY <2>2 DEF HasAdministrator
  <2>4. ASSUME Coming PROVE HasAdministrator' \/ Coming'
    <3>1. CASE setup \in Live
      BY <2>1, <2>2, <2>4, <3>1 DEF HasAdministrator, Coming, Powerless
    <3>2. CASE setup \notin Live
      <4>1. Powerless'
        BY <2>1, <2>2, <2>4, <3>2 DEF Coming, Powerless
      <4>2. \A u \in Live : FirstToBe(u) => FirstToBe(u)'
        BY <2>1, <2>2, <3>2 DEF FirstToBe, Awaiting
      <4> QED
        BY <2>1, <2>2, <2>4, <3>2, <4>1, <4>2 DEF Coming
    <3> QED
      BY <3>1, <3>2
  <2> QED
    BY <2>1, <2>3, <2>4 DEF AdminInv
<1>12. CASE SetupKilled
  BY <1>12 DEF SetupKilled, AdminInv
<1>13. CASE Crash
  <2>1. /\ UNCHANGED <<account, roles, invites, setup, asked>> /\ events' = <<>>
        /\ handler' = Idle /\ \A v \in Workers : job'[v] = Idle
        /\ headless' = (headless \/ Uncounted # {}
                          \/ (handler.pc = "assign" /\ handler.role = "admin"))
    BY <1>13 DEF Crash
  <2>2. Live' = Live /\ (HasAdministrator => HasAdministrator')
    BY <2>1 DEF Live, HasAdministrator
  <2>3. ASSUME Coming, ~headless' PROVE Coming'
    <3>1. Powerless'
      BY <2>1, <2>3, IdleTyped DEF Coming, Powerless
    <3>2. \A u \in Live : ~FirstToBe(u)
      BY <2>1, <2>3 DEF FirstToBe, Coming, Powerless, Uncounted, Awaiting, Live
    <3> QED
      BY <2>1, <2>2, <2>3, <3>1, <3>2 DEF Coming
  <2> QED
    BY <2>1, <2>2, <2>3 DEF AdminInv
<1>14. ASSUME NEW w \in Workers, NEW u \in Users, Begin(w, u)
      PROVE  AdminInv'
  <2>1. PICK j \in Job : Starts(w, u, j)
    BY <1>14, BeginStarts
  <2>2. ~Coming
    BY <2>1 DEF Starts, Coming, Powerless, Live
  <2>3. HasAdministrator => HasAdministrator'
    BY <2>1 DEF Starts, people, HasAdministrator, Live
  <2> QED
    BY <2>1, <2>2, <2>3 DEF Starts, AdminInv
<1>15. ASSUME NEW w \in Workers, CheckPending(w)
      PROVE  AdminInv'
  BY <1>15, <1>q DEF CheckPending, people, Busy
<1>16. ASSUME NEW w \in Workers, CreateInvitation(w)
      PROVE  AdminInv'
  BY <1>16, <1>q DEF CreateInvitation, people, Busy
<1>17. ASSUME NEW w \in Workers, RevokeInvitation(w)
      PROVE  AdminInv'
  BY <1>17, <1>q DEF RevokeInvitation, people, Busy
<1>18. ASSUME NEW w \in Workers, ReadRoles(w)
      PROVE  AdminInv'
  BY <1>18, <1>q DEF ReadRoles, people, Busy
<1>19. ASSUME NEW w \in Workers, UnassignRole(w)
      PROVE  AdminInv'
  <2>1. /\ account' = account /\ (headless => headless') /\ job[w].pc = "unassign"
        /\ job[w].by # job[w].target /\ Live' = Live
    BY <1>19 DEF UnassignRole, Busy, HoldsInv, HoldsOf, Personal, Live
  <2>2. ASSUME HasAdministrator PROVE headless' \/ HasAdministrator'
    <3>1. CASE job[w].todo = {}
      BY <1>19, <2>1, <2>2, <3>1 DEF UnassignRole, HasAdministrator
    <3>2. CASE job[w].todo # {}
      <4>1. PICK r \in job[w].todo :
              /\ roles' = [roles EXCEPT ![job[w].target] = roles[job[w].target] \ {r}]
              /\ headless' = (headless \/ (r = "admin" /\ Outranked(w)))
        BY <1>19, <3>2 DEF UnassignRole
      <4>2. CASE r # "admin"
        BY <2>1, <2>2, <4>1, <4>2 DEF HasAdministrator, TypeInv, PeopleTyped,
           Live
      <4>3. CASE ~Outranked(w)
        BY <2>1, <4>1, <4>3 DEF HasAdministrator, TypeInv, PeopleTyped, Live,
           Outranked
      <4> QED
        BY <4>1, <4>2, <4>3
    <3> QED
      BY <3>1, <3>2
  <2> QED
    BY <1>c, <2>1, <2>2 DEF AdminInv
<1>20. ASSUME NEW w \in Workers, AssignNewRole(w)
      PROVE  AdminInv'
  <2>1. account' = account /\ headless' = headless /\ job[w].pc # "idle"
    BY <1>20 DEF AssignNewRole, Busy
  <2>2. HasAdministrator => HasAdministrator'
    BY <1>20, <2>1 DEF HasAdministrator, AssignNewRole, Live, TypeInv,
       PeopleTyped
  <2> QED
    BY <1>c, <2>1, <2>2 DEF AdminInv
<1>21. ASSUME NEW w \in Workers, RemoveUser(w)
      PROVE  AdminInv'
  <2> DEFINE t == job[w].target
  <2>1. /\ job[w].pc = "remove" /\ job[w].by # t /\ t \in Users
        /\ headless' = (headless \/ (Outranked(w) /\ "admin" \in roles[t]))
    BY <1>21, JobFields DEF RemoveUser, Busy, HoldsInv, HoldsOf, Personal
  <2>2. Live' = Live \ {t} /\ \A v \in Users \ {t} : roles'[v] = roles[v]
    BY <1>21, <2>1 DEF RemoveUser, Live, TypeInv, PeopleTyped
  <2> HIDE DEF t
  <2>3. ASSUME HasAdministrator PROVE headless' \/ HasAdministrator'
    <3>1. CASE Outranked(w)
      BY <2>1, <2>2, <2>3, <3>1 DEF HasAdministrator, Live
    <3>2. CASE ~Outranked(w)
      <4>1. job[w].by \in Live' /\ "admin" \in roles'[job[w].by]
        BY <2>1, <2>2, <3>2 DEF Outranked, Live, t
      <4> QED
        BY <4>1 DEF HasAdministrator
    <3> QED
      BY <3>1, <3>2
  <2> QED
    BY <1>c, <2>1, <2>3 DEF AdminInv
<1>22. ASSUME NEW w \in Workers, InsertApp(w)
      PROVE  AdminInv'
  BY <1>22, <1>q DEF InsertApp, people, Busy
<1>23. ASSUME NEW w \in Workers, ListUsers(w)
      PROVE  AdminInv'
  BY <1>23, <1>q DEF ListUsers, people, Busy
<1>24. ASSUME NEW w \in Workers, CheckGrant(w)
      PROVE  AdminInv'
  BY <1>24, <1>q DEF CheckGrant, people, Busy
<1>25. ASSUME NEW w \in Workers, WriteGrant(w)
      PROVE  AdminInv'
  BY <1>25, <1>q DEF WriteGrant, people, Busy
<1>26. ASSUME NEW w \in Workers, CreateKey(w)
      PROVE  AdminInv'
  BY <1>26, <1>q DEF CreateKey, people, Busy
<1>27. ASSUME NEW w \in Workers, ScopeKey(w)
      PROVE  AdminInv'
  BY <1>27, <1>q DEF ScopeKey, people, Busy
<1>28. ASSUME NEW w \in Workers, DeleteKey(w)
      PROVE  AdminInv'
  BY <1>28, <1>q DEF DeleteKey, people, Busy
<1>29. ASSUME NEW w \in Workers, DeleteScope(w)
      PROVE  AdminInv'
  BY <1>29, <1>q DEF DeleteScope, people, Busy
<1>30. ASSUME NEW w \in Workers, WriteFile(w)
      PROVE  AdminInv'
  BY <1>30, <1>q DEF WriteFile, people, Busy
<1>31. ASSUME NEW w \in Workers, ReloadEntry(w)
      PROVE  AdminInv'
  BY <1>31, <1>q DEF ReloadEntry, people, Busy
<1>32. ASSUME NEW w \in Workers, InsertDeployment(w)
      PROVE  AdminInv'
  BY <1>32, <1>q DEF InsertDeployment, people, Busy
<1>33. ASSUME NEW w \in Workers, CancelDeployments(w)
      PROVE  AdminInv'
  BY <1>33, <1>q DEF CancelDeployments, people, Busy
<1>34. ASSUME NEW w \in Workers, DeleteRow(w)
      PROVE  AdminInv'
  BY <1>34, <1>q DEF DeleteRow, people, Busy
<1>35. ASSUME NEW w \in Workers, RemoveDirectory(w)
      PROVE  AdminInv'
  BY <1>35, <1>q DEF RemoveDirectory, people, Busy
<1>36. ASSUME NEW w \in Workers, RemoveCached(w)
      PROVE  AdminInv'
  BY <1>36, <1>q DEF RemoveCached, people, Busy
<1> QED
  BY <1>1, <1>2, <1>3, <1>4, <1>5, <1>6, <1>7, <1>8, <1>9, <1>10, <1>11, <1>12,
     <1>13, <1>14, <1>15, <1>16, <1>17, <1>18, <1>19, <1>20, <1>21, <1>22,
     <1>23, <1>24, <1>25, <1>26, <1>27, <1>28, <1>29, <1>30, <1>31, <1>32,
     <1>33, <1>34, <1>35, <1>36 DEF Next, Registration, CreateAdmin, Step

\* What concerns the grant of an app to a user stays, and so does its invariant.
LEMMA GrantStays ==
  ASSUME NEW id, NEW u, GrantOf(id, u),
         <<id, u>> \in wanted' <=> <<id, u>> \in wanted,
         <<id, u>> \in grants' <=> <<id, u>> \in grants,
         Opening(id, u)' <=> Opening(id, u),
         \A w \in Workers : Granting(w, id)' <=> Granting(w, id),
         \A w \in Workers : Granting(w, id) =>
           /\ (u \in job'[w].todo <=> u \in job[w].todo)
           /\ job'[w].granted = job[w].granted
  PROVE  GrantOf(id, u)'
<1>1. Promised(id, u)'
  BY DEF GrantOf, Promised
<1>2. Compares(id, u)'
  BY DEF GrantOf, Compares
<1>3. Settles(id, u)'
  BY DEF GrantOf, Settles
<1> QED
  BY <1>1, <1>2, <1>3 DEF GrantOf

\* A form that has compared some of its users, and written where they differ,
\* has settled these.
LEMMA ComparesSome ==
  ASSUME TypeInv, HoldsInv, GrantsInv, NEW w \in Workers, NEW i \in Ids,
         UNCHANGED <<account, handler, wanted, contested, nextId>>,
         \A v \in Workers \ {w} : job'[v] = job[v],
         Granting(w, i), job'[w].pc \in {"check", "write"}, job'[w].id = i,
         job'[w].granted = job[w].granted, job'[w].todo \subseteq job[w].todo,
         \A u \in job[w].todo \ job'[w].todo : <<i, u>> \in grants' <=> u \in job[w].granted,
         \A id, u : id # i \/ u \in job'[w].todo \/ u \notin job[w].todo =>
           (<<id, u>> \in grants' <=> <<id, u>> \in grants),
         \A id, u : <<id, u>> \in grants' => <<id, u>> \in grants \/ u \in job[w].todo
  PROVE  GrantsInv'
<1>1. Live' = Live /\ Ids' = Ids /\ job[w].id = i /\ Granting(w, i)'
  BY DEF Live, Ids, Granting, Busy
<1>2. \A id \in Ids : \A v \in Workers : Granting(v, id)' <=> Granting(v, id)
  BY <1>1 DEF Granting, Busy
<1>3. \A id \in Ids, u \in Users : Opening(id, u)' <=> Opening(id, u)
  BY DEF Opening
<1>4. ASSUME NEW id \in Ids, NEW u \in Live, <<id, u>> \notin contested
      PROVE  GrantOf(id, u)'
  <2>1. u \in Users /\ GrantOf(id, u)
    BY <1>4 DEF Live, GrantsInv
  <2>2. CASE id = i
    <3>1. \A v \in Workers \ {w} : ~Granting(v, id) /\ ~Granting(v, id)'
      BY <1>2, <1>4, <2>1, <2>2 DEF GrantsInv, OneForm
    <3>2. Promised(id, u)'
      BY <1>3, <2>1 DEF GrantOf, Promised
    <3>3. Compares(id, u)'
      BY <1>2, <1>3, <2>1, <3>1 DEF GrantOf, Compares
    <3>4. Settles(id, u)'
      <4>1. CASE u \in job[w].todo /\ u \notin job'[w].todo /\ ~Opening(id, u)
        <5>1. <<id, u>> \in wanted <=> u \in job[w].granted
          BY <2>1, <2>2, <4>1 DEF GrantOf, Compares
        <5>2. <<id, u>> \in grants' <=> u \in job[w].granted
          BY <2>2, <4>1
        <5> QED
          BY <5>1, <5>2 DEF Settles
      <4>2. CASE Opening(id, u)
        BY <1>3, <2>1, <4>2 DEF Settles
      <4>3. CASE (u \in job[w].todo <=> u \in job'[w].todo) /\ ~Opening(id, u)
        <5>1. <<id, u>> \in grants' <=> <<id, u>> \in grants
          BY <2>2, <4>3
        <5> QED
          BY <1>2, <1>3, <2>1, <3>1, <4>3, <5>1 DEF GrantOf, Settles
      <4> QED
        BY <4>1, <4>2, <4>3
    <3> QED
      BY <3>2, <3>3, <3>4 DEF GrantOf
  <2>3. CASE id # i
    <3>1. <<id, u>> \in grants' <=> <<id, u>> \in grants
      BY <2>3
    <3>2. \A v \in Workers : Granting(v, id) => job'[v] = job[v]
      BY <1>1, <2>3 DEF Granting
    <3> QED
      BY <1>2, <1>3, <2>1, <3>1, <3>2, GrantStays
  <2> QED
    BY <2>2, <2>3
<1>5. OneForm'
  BY <1>1, <1>2 DEF GrantsInv, OneForm
<1>6. KnownUsers'
  BY <1>1 DEF GrantsInv, KnownUsers, HoldsInv, HoldsOf, Granting, Busy
<1> QED
  BY <1>1, <1>4, <1>5, <1>6 DEF GrantsInv

\* Every step leaves the grants as wanted, or a request or the task on its way there.
LEMMA GrantsInvStep ==
  ASSUME TypeInv, HoldsInv, OnceInv, GrantsInv, [Next]_vars
  PROVE  GrantsInv'
<1>h. handler \in Handler /\ \A v \in Workers : job[v] \in Job
  BY DEF TypeInv, PeopleTyped, JobsTyped
<1>s. \A u \in Users : account[u] # "none" => account'[u] # "none"
  BY Stays
<1> USE <1>h
<1>b. ASSUME UNCHANGED <<grants, wanted, contested, nextId>>, Live' \subseteq Live,
             \A id \in Ids, u \in Users : Opening(id, u)' <=> Opening(id, u),
             \A v \in Workers : \/ job'[v] = job[v]
                                \/ /\ job'[v].pc \notin {"check", "write"}
                                   /\ job[v].pc \notin {"check", "write"}
      PROVE  GrantsInv'
  <2>1. Ids' = Ids /\ \A id \in Ids, v \in Workers :
          /\ Granting(v, id)' <=> Granting(v, id)
          /\ Granting(v, id) => job'[v] = job[v]
    BY <1>b DEF Ids, Granting, Busy
  <2>2. ASSUME NEW id \in Ids, NEW u \in Live', <<id, u>> \notin contested
        PROVE  GrantOf(id, u)'
    <3>1. GrantOf(id, u) /\ u \in Users
      BY <1>b, <2>2 DEF GrantsInv, Live
    <3> QED
      BY <1>b, <2>1, <3>1, GrantStays
  <2>3. OneForm' /\ KnownUsers'
    BY <1>b, <1>s, <2>1 DEF GrantsInv, OneForm, KnownUsers
  <2> QED
    BY <1>b, <2>1, <2>2, <2>3 DEF GrantsInv
<1>a. ASSUME UNCHANGED <<grants, wanted, contested, nextId, handler>>, Live' \subseteq Live,
             \A v \in Workers : \/ job'[v] = job[v]
                                \/ /\ job'[v].pc \notin {"check", "write"}
                                   /\ job[v].pc \notin {"check", "write"}
      PROVE  GrantsInv'
  BY <1>a, <1>b DEF Opening
<1>q. ASSUME NEW w \in Workers, Step(w), job[w].pc \notin {"list", "check", "write"},
             UNCHANGED <<account, handler, grants, wanted, contested, nextId>>
      PROVE  GrantsInv'
  <2>1. /\ <<job[w].pc, job'[w].pc>> \in Moves
        /\ \A v \in Workers \ {w} : job'[v] = job[v]
        /\ job'[w].pc \notin {"check", "write"}
    BY <1>q, StepMoves DEF Moves
  <2> QED
    BY <1>a, <1>q, <2>1 DEF Live
<1>1. CASE UNCHANGED vars
  BY <1>1, <1>a DEF vars, people, tables, Live
<1>2. ASSUME NEW u \in Users, Register(u)
      PROVE  GrantsInv'
  <2>1. /\ Create(u, IF Live = {} THEN {"admin"} ELSE {})
        /\ (IF Live = {} THEN {"admin"} ELSE {}) \in SUBSET Roles
        /\ UNCHANGED <<handler, grants, wanted, contested, nextId, job>>
    BY <1>2 DEF Register, Roles, tables
  <2>2. Live' = Live \union {u} /\ account[u] = "none"
    BY <2>1, Creates
  <2>3. /\ Ids' = Ids
        /\ \A w \in Workers, id \in Ids : Granting(w, id)' <=> Granting(w, id)
    BY <2>1 DEF Ids, Granting, Busy
  <2>4. \A id \in Ids, v \in Users : Opening(id, v)' <=> Opening(id, v)
    BY <2>1 DEF Opening
  <2>5. ASSUME NEW id \in Ids PROVE GrantOf(id, u)'
    <3>1. ~Opening(id, u)'
      BY <2>2, <2>4 DEF OnceInv, Registering, Opening
    <3>2. \A w \in Workers : Granting(w, id) => u \notin job[w].todo
      BY <2>2 DEF HoldsInv, HoldsOf, Granting, Busy
    <3>3. <<id, u>> \notin grants /\ <<id, u>> \notin wanted
      BY <2>2 DEF GrantsInv, KnownUsers
    <3> QED
      BY <2>1, <2>3, <3>1, <3>2, <3>3 DEF GrantOf, Promised, Compares, Settles
  <2>6. ASSUME NEW id \in Ids, NEW v \in Live, <<id, v>> \notin contested
        PROVE  GrantOf(id, v)'
    <3>1. GrantOf(id, v)
      BY <2>6 DEF GrantsInv
    <3> QED
      BY <2>1, <2>3, <2>4, <3>1, GrantStays DEF Live
  <2>7. OneForm'
    BY <2>1, <2>3 DEF GrantsInv, OneForm
  <2>8. KnownUsers'
    BY <1>s, <2>1, <2>3 DEF GrantsInv, KnownUsers
  <2> QED
    BY <2>1, <2>2, <2>3, <2>5, <2>6, <2>7, <2>8 DEF GrantsInv
<1>3. ASSUME NEW u \in Users, NEW r \in Roles, AcceptInvitation(u, r)
      PROVE  GrantsInv'
  <2>1. Create(u, {r}) /\ {r} \in SUBSET Roles
        /\ UNCHANGED <<handler, grants, wanted, contested, nextId, job>>
    BY <1>3 DEF AcceptInvitation, Roles, tables
  <2>2. Live' = Live \union {u} /\ account[u] = "none"
    BY <2>1, Creates
  <2>3. /\ Ids' = Ids
        /\ \A w \in Workers, id \in Ids : Granting(w, id)' <=> Granting(w, id)
    BY <2>1 DEF Ids, Granting, Busy
  <2>4. \A id \in Ids, v \in Users : Opening(id, v)' <=> Opening(id, v)
    BY <2>1 DEF Opening
  <2>5. ASSUME NEW id \in Ids PROVE GrantOf(id, u)'
    <3>1. ~Opening(id, u)'
      BY <2>2, <2>4 DEF OnceInv, Registering, Opening
    <3>2. \A w \in Workers : Granting(w, id) => u \notin job[w].todo
      BY <2>2 DEF HoldsInv, HoldsOf, Granting, Busy
    <3>3. <<id, u>> \notin grants /\ <<id, u>> \notin wanted
      BY <2>2 DEF GrantsInv, KnownUsers
    <3> QED
      BY <2>1, <2>3, <3>1, <3>2, <3>3 DEF GrantOf, Promised, Compares, Settles
  <2>6. ASSUME NEW id \in Ids, NEW v \in Live, <<id, v>> \notin contested
        PROVE  GrantOf(id, v)'
    <3>1. GrantOf(id, v)
      BY <2>6 DEF GrantsInv
    <3> QED
      BY <2>1, <2>3, <2>4, <3>1, GrantStays DEF Live
  <2>7. OneForm'
    BY <2>1, <2>3 DEF GrantsInv, OneForm
  <2>8. KnownUsers'
    BY <1>s, <2>1, <2>3 DEF GrantsInv, KnownUsers
  <2> QED
    BY <2>1, <2>2, <2>3, <2>5, <2>6, <2>7, <2>8 DEF GrantsInv
<1>4. CASE TakeEvent
  <2>1. /\ UNCHANGED <<account, grants, wanted, contested, nextId, job>>
        /\ handler.pc # "grant" /\ handler'.pc # "grant"
    BY <1>4, Takes DEF TakeEvent, tables
  <2>2. \A id \in Ids, u \in Users : Opening(id, u)' <=> Opening(id, u)
    BY <2>1 DEF Opening
  <2> QED
    BY <1>b, <2>1, <2>2 DEF Live
<1>5. CASE CountUsers
  <2>1. /\ UNCHANGED <<account, grants, wanted, contested, nextId, job>>
        /\ handler.pc # "grant" /\ handler'.pc # "grant"
    BY <1>5, <1>h, IdleTyped DEF CountUsers, tables, Handler
  <2>2. \A id \in Ids, u \in Users : Opening(id, u)' <=> Opening(id, u)
    BY <2>1 DEF Opening
  <2> QED
    BY <1>b, <2>1, <2>2 DEF Live
<1>6. CASE ListApps
  <2>1. /\ UNCHANGED <<account, grants, contested, nextId, job>> /\ Live' = Live
        /\ Ids' = Ids
        /\ wanted' = wanted \union (AppIds \X {handler.user})
        /\ handler.pc = "list" /\ handler.user \in Users
    BY <1>6, HandlerFields DEF ListApps, tables, Live, Ids
  <2>2. /\ handler'.pc = "grant" /\ handler'.user = handler.user
        /\ handler'.todo = AppIds
    BY <1>6, <1>h DEF ListApps, Handler
  <2>3. \A w \in Workers, id \in Ids : Granting(w, id)' <=> Granting(w, id)
    BY <2>1 DEF Granting, Busy
  <2>4. ASSUME NEW id \in Ids, NEW u \in Live, <<id, u>> \notin contested
        PROVE  GrantOf(id, u)'
    <3>1. GrantOf(id, u)
      BY <2>4 DEF GrantsInv
    <3>2. CASE u = handler.user /\ id \in AppIds
      <4>1. Opening(id, u)' /\ <<id, u>> \in wanted'
        BY <2>1, <2>2, <3>2 DEF Opening
      <4> QED
        BY <4>1 DEF GrantOf, Promised, Compares, Settles
    <3>3. CASE ~(u = handler.user /\ id \in AppIds)
      <4>1. /\ ~Opening(id, u) /\ ~Opening(id, u)'
            /\ (<<id, u>> \in wanted' <=> <<id, u>> \in wanted)
        BY <2>1, <2>2, <3>3 DEF Opening
      <4> QED
        BY <2>1, <2>3, <3>1, <4>1, GrantStays
    <3> QED
      BY <3>2, <3>3
  <2>5. OneForm'
    BY <2>1, <2>3 DEF GrantsInv, OneForm
  <2>6. KnownUsers'
    <3>1. account[handler.user] # "none"
      BY <2>1 DEF OnceInv, Registering
    <3> QED
      BY <2>1, <3>1 DEF GrantsInv, KnownUsers
  <2> QED
    BY <2>1, <2>4, <2>5, <2>6 DEF GrantsInv
<1>7. CASE GrantInvited
  <2>1. /\ UNCHANGED <<account, wanted, nextId, job>> /\ Live' = Live /\ Ids' = Ids
        /\ handler.pc = "grant" /\ handler.user \in Users
    BY <1>7, HandlerFields DEF GrantInvited, Live, Ids
  <2>2. PICK i \in handler.todo :
          /\ grants' = grants \union {<<i, handler.user>>}
          /\ handler' = [handler EXCEPT !.todo = handler.todo \ {i},
                           !.pc = IF handler.todo = {i} THEN "assign" ELSE "grant"]
          /\ contested' = IF \E w \in Workers : Granting(w, i)
                            THEN contested \union {<<i, handler.user>>} ELSE contested
    BY <1>7 DEF GrantInvited
  <2>3. /\ handler'.user = handler.user /\ handler'.todo = handler.todo \ {i}
        /\ handler'.pc = IF handler.todo = {i} THEN "assign" ELSE "grant"
    BY <1>h, <2>1, <2>2 DEF Handler
  <2>4. \A w \in Workers, id \in Ids : Granting(w, id)' <=> Granting(w, id)
    BY <2>1 DEF Granting, Busy
  <2>5. contested \subseteq contested'
    BY <2>2
  <2>6. ASSUME NEW id \in Ids, NEW u \in Live, <<id, u>> \notin contested'
        PROVE  GrantOf(id, u)'
    <3>1. GrantOf(id, u)
      BY <2>5, <2>6 DEF GrantsInv
    <3>2. CASE u = handler.user /\ id = i
      <4>1. ~Opening(id, u)' /\ Opening(id, u)
        BY <2>1, <2>2, <2>3, <3>2 DEF Opening
      <4>2. <<id, u>> \in wanted /\ <<id, u>> \in grants'
        BY <2>2, <3>1, <3>2, <4>1 DEF GrantOf, Promised
      <4>3. \A w \in Workers : ~Granting(w, id)
        BY <2>2, <2>6, <3>2
      <4>4. \A w \in Workers : ~Granting(w, id)'
        BY <2>4, <4>3
      <4> QED
        BY <2>1, <4>1, <4>2, <4>4 DEF GrantOf, Promised, Compares, Settles
    <3>3. CASE ~(u = handler.user /\ id = i)
      <4>1. /\ (Opening(id, u)' <=> Opening(id, u))
            /\ (<<id, u>> \in grants' <=> <<id, u>> \in grants)
        BY <2>1, <2>2, <2>3, <3>3 DEF Opening
      <4> QED
        BY <2>1, <2>4, <3>1, <4>1, GrantStays
    <3> QED
      BY <3>2, <3>3
  <2>7. OneForm'
    BY <2>1, <2>4, <2>5 DEF GrantsInv, OneForm
  <2>8. KnownUsers'
    <3>1. account[handler.user] # "none"
      BY <2>1 DEF OnceInv, Registering
    <3> QED
      BY <2>1, <2>2, <3>1 DEF GrantsInv, KnownUsers
  <2> QED
    BY <2>1, <2>6, <2>7, <2>8 DEF GrantsInv
<1>8. CASE AssignRole
  <2>1. /\ UNCHANGED <<account, grants, wanted, contested, nextId, job>>
        /\ handler.pc # "grant" /\ handler'.pc # "grant"
    BY <1>8, IdleTyped DEF AssignRole, tables
  <2>2. \A id \in Ids, u \in Users : Opening(id, u)' <=> Opening(id, u)
    BY <2>1 DEF Opening
  <2> QED
    BY <1>b, <2>1, <2>2 DEF Live
<1>9. CASE SetupCheck
  BY <1>9, <1>a DEF SetupCheck, people, tables, Live
<1>10. ASSUME NEW u \in Users, SetupCreate(u)
      PROVE  GrantsInv'
  <2>1. Create(u, {"admin"}) /\ {"admin"} \in SUBSET Roles
        /\ UNCHANGED <<handler, grants, wanted, contested, nextId, job>>
    BY <1>10 DEF SetupCreate, Roles, tables
  <2>2. Live' = Live \union {u} /\ account[u] = "none"
    BY <2>1, Creates
  <2>3. /\ Ids' = Ids
        /\ \A w \in Workers, id \in Ids : Granting(w, id)' <=> Granting(w, id)
    BY <2>1 DEF Ids, Granting, Busy
  <2>4. \A id \in Ids, v \in Users : Opening(id, v)' <=> Opening(id, v)
    BY <2>1 DEF Opening
  <2>5. ASSUME NEW id \in Ids PROVE GrantOf(id, u)'
    <3>1. ~Opening(id, u)'
      BY <2>2, <2>4 DEF OnceInv, Registering, Opening
    <3>2. \A w \in Workers : Granting(w, id) => u \notin job[w].todo
      BY <2>2 DEF HoldsInv, HoldsOf, Granting, Busy
    <3>3. <<id, u>> \notin grants /\ <<id, u>> \notin wanted
      BY <2>2 DEF GrantsInv, KnownUsers
    <3> QED
      BY <2>1, <2>3, <3>1, <3>2, <3>3 DEF GrantOf, Promised, Compares, Settles
  <2>6. ASSUME NEW id \in Ids, NEW v \in Live, <<id, v>> \notin contested
        PROVE  GrantOf(id, v)'
    <3>1. GrantOf(id, v)
      BY <2>6 DEF GrantsInv
    <3> QED
      BY <2>1, <2>3, <2>4, <3>1, GrantStays DEF Live
  <2>7. OneForm'
    BY <2>1, <2>3 DEF GrantsInv, OneForm
  <2>8. KnownUsers'
    BY <1>s, <2>1, <2>3 DEF GrantsInv, KnownUsers
  <2> QED
    BY <2>1, <2>2, <2>3, <2>5, <2>6, <2>7, <2>8 DEF GrantsInv
<1>11. CASE SetupAssign
  BY <1>11, <1>a DEF SetupAssign, people, tables, Live
<1>12. CASE SetupKilled
  BY <1>12, <1>a DEF SetupKilled, people, tables, Live
<1>13. CASE Crash
  <2> DEFINE writing == {w \in Workers : Busy(w, {"check", "write"})}
  <2>1. /\ UNCHANGED <<account, grants, wanted, nextId>> /\ Live' = Live
        /\ Ids' = Ids
        /\ handler' = Idle /\ \A w \in Workers : job'[w] = Idle
        /\ contested' = contested \union (UNION {{job[w].id} \X Users : w \in writing})
             \union (IF handler.pc = "grant" THEN handler.todo \X {handler.user} ELSE {})
    BY <1>13 DEF Crash, Live, Ids, tables
  <2>2. \A id \in Ids : \A w \in Workers : Granting(w, id) =>
          \A u \in Users : <<id, u>> \in contested'
    BY <2>1 DEF Granting
  <2>3. \A id \in Ids, u \in Users : Opening(id, u) => <<id, u>> \in contested'
    BY <2>1 DEF Opening
  <2>4. contested \subseteq contested'
    BY <2>1
  <2> HIDE DEF writing
  <2>5. \A id \in Ids : \A w \in Workers : ~Granting(w, id)'
    BY <2>1, IdleTyped DEF Granting, Busy
  <2>6. \A id \in Ids, u \in Users : ~Opening(id, u)'
    BY <2>1, IdleTyped DEF Opening
  <2>7. ASSUME NEW id \in Ids, NEW u \in Live, <<id, u>> \notin contested'
        PROVE  GrantOf(id, u)'
    <3>1. u \in Users
      BY DEF Live
    <3>2. /\ GrantOf(id, u) /\ ~Opening(id, u)
          /\ \A w \in Workers : ~Granting(w, id)
      BY <2>2, <2>3, <2>4, <2>7, <3>1 DEF GrantsInv
    <3> QED
      BY <2>1, <2>5, <2>6, <3>1, <3>2 DEF GrantOf, Promised, Compares, Settles
  <2>8. OneForm'
    BY <2>1, <2>5 DEF OneForm
  <2>9. KnownUsers'
    BY <2>1 DEF GrantsInv, KnownUsers
  <2> QED
    BY <2>1, <2>7, <2>8, <2>9 DEF GrantsInv
<1>14. ASSUME NEW w \in Workers, NEW u \in Users, Begin(w, u)
      PROVE  GrantsInv'
  <2>1. PICK j \in Job : Starts(w, u, j)
    BY <1>14, BeginStarts
  <2>2. /\ job'[w] = j /\ \A v \in Workers \ {w} : job'[v] = job[v]
        /\ job[w] = Idle
        /\ UNCHANGED <<account, handler, grants, wanted, contested, nextId>>
    BY <2>1 DEF Starts, people, tables, TypeInv, JobsTyped
  <2>3. job'[w].pc \notin {"check", "write"} /\ job[w].pc = "idle"
    BY <2>1, <2>2, IdleTyped DEF Starts
  <2> QED
    BY <1>a, <2>2, <2>3 DEF Live
<1>15. ASSUME NEW w \in Workers, CheckPending(w)
      PROVE  GrantsInv'
  BY <1>15, <1>q DEF Step, CheckPending, people, tables, Busy
<1>16. ASSUME NEW w \in Workers, CreateInvitation(w)
      PROVE  GrantsInv'
  BY <1>16, <1>q DEF Step, CreateInvitation, people, tables, Busy
<1>17. ASSUME NEW w \in Workers, RevokeInvitation(w)
      PROVE  GrantsInv'
  BY <1>17, <1>q DEF Step, RevokeInvitation, people, tables, Busy
<1>18. ASSUME NEW w \in Workers, ReadRoles(w)
      PROVE  GrantsInv'
  BY <1>18, <1>q DEF Step, ReadRoles, people, tables, Busy
<1>19. ASSUME NEW w \in Workers, UnassignRole(w)
      PROVE  GrantsInv'
  BY <1>19, <1>q DEF Step, UnassignRole, people, tables, Busy
<1>20. ASSUME NEW w \in Workers, AssignNewRole(w)
      PROVE  GrantsInv'
  BY <1>20, <1>q DEF Step, AssignNewRole, people, tables, Busy
<1>21. ASSUME NEW w \in Workers, RemoveUser(w)
      PROVE  GrantsInv'
  <2>1. /\ UNCHANGED <<handler, grants, wanted, contested, nextId>>
        /\ Live' \subseteq Live
    BY <1>21 DEF RemoveUser, Live, TypeInv, PeopleTyped
  <2>2. /\ job[w].pc = "remove" /\ job'[w].pc = "idle"
        /\ \A v \in Workers \ {w} : job'[v] = job[v]
    BY <1>21, Finishes DEF RemoveUser, Busy
  <2> QED
    BY <1>a, <2>1, <2>2
<1>22. ASSUME NEW w \in Workers, InsertApp(w)
      PROVE  GrantsInv'
  <2>1. /\ account' = account /\ Live' = Live /\ UNCHANGED <<handler, grants>>
        /\ job[w].pc = "insert" /\ job'[w].pc = "idle"
        /\ \A v \in Workers \ {w} : job'[v] = job[v]
    BY <1>22, Finishes DEF InsertApp, Busy, Live, people
  <2>2. wanted' = wanted /\ contested' = contested
    <3>1. \A g \in wanted \union contested : g[1] # nextId
      BY DEF TypeInv, TablesTyped, Ids
    <3>2. \/ wanted' = wanted /\ contested' = contested
          \/ /\ wanted' = {g \in wanted : g[1] # nextId}
             /\ contested' = {g \in contested : g[1] # nextId}
      BY <1>22 DEF InsertApp, NewId
    <3> QED
      BY <3>1, <3>2
  <2>3. /\ nextId \in Nat /\ nextId' \in {nextId, nextId + 1} /\ Ids \subseteq Ids'
        /\ grants \subseteq Ids \X Users /\ wanted \subseteq Ids \X Users
    BY Stays DEF TypeInv, TablesTyped
  <2>4. \A id \in Ids' : \A v \in Workers : /\ Granting(v, id)' <=> Granting(v, id)
                                            /\ Granting(v, id) => id \in Ids /\ v # w
    BY <2>1 DEF Granting, Busy, HoldsInv, HoldsOf, WithId
  <2>5. \A id \in Ids', u \in Users : /\ Opening(id, u)' <=> Opening(id, u)
                                      /\ Opening(id, u) => id \in Ids
    BY <2>1 DEF Opening, HoldsInv, TaskHolds
  <2>6. ASSUME NEW id \in Ids', NEW u \in Live, <<id, u>> \notin contested
        PROVE  GrantOf(id, u)'
    <3>1. u \in Users
      BY DEF Live
    <3>2. CASE id \in Ids
      <4>1. GrantOf(id, u)
        BY <2>6, <3>2 DEF GrantsInv
      <4> QED
        BY <2>1, <2>2, <2>4, <2>5, <3>1, <4>1, GrantStays
    <3>3. CASE id \notin Ids
      <4>1. <<id, u>> \notin grants /\ <<id, u>> \notin wanted
        BY <2>3, <3>3
      <4> QED
        BY <2>1, <2>2, <2>4, <2>5, <3>1, <3>3, <4>1 DEF GrantOf, Promised,
           Compares, Settles
    <3> QED
      BY <3>2, <3>3
  <2>7. OneForm'
    BY <2>2, <2>4 DEF GrantsInv, OneForm
  <2>8. KnownUsers'
    BY <2>1, <2>2, <2>3 DEF GrantsInv, KnownUsers
  <2> QED
    BY <2>1, <2>2, <2>6, <2>7, <2>8 DEF GrantsInv
<1>23. ASSUME NEW w \in Workers, ListUsers(w)
      PROVE  GrantsInv'
  <2> DEFINE i == job[w].id
  <2>0. /\ UNCHANGED <<account, handler, grants, nextId>> /\ Live' = Live
        /\ Ids' = Ids
        /\ job[w] \in Job /\ job[w].pc = "list"
        /\ job'[w] = [job[w] EXCEPT !.pc = "check", !.todo = Live]
        /\ \A v \in Workers \ {w} : job'[v] = job[v]
    BY <1>23 DEF ListUsers, Busy, people, tables, Live, Ids, TypeInv, JobsTyped
  <2>1. /\ job'[w].pc = "check" /\ job'[w].id = i
        /\ job'[w].granted = job[w].granted
        /\ job'[w].todo = Live /\ i \in Ids
    BY <2>0 DEF Job, HoldsInv, HoldsOf, Busy, WithId
  <2>2. /\ wanted' = {g \in wanted : g[1] # i \/ g[2] \notin Live}
                       \union ({i} \X (job[w].granted \intersect Live))
        /\ contested \subseteq contested'
        /\ (\E v \in Workers \ {w} : Granting(v, i)) => \A u \in Users : <<i, u>> \in contested'
        /\ \A u \in Live : Opening(i, u) => <<i, u>> \in contested'
    BY <1>23 DEF ListUsers, Opening, Live
  <2>3. \A u \in Users : \A id : <<id, u>> \in wanted' <=>
          IF id = i /\ u \in Live THEN u \in job[w].granted ELSE <<id, u>> \in wanted
    BY <2>2
  <2> HIDE DEF i
  <2>4. /\ \A id \in Ids : \A v \in Workers \ {w} : Granting(v, id)' <=> Granting(v, id)
        /\ \A id \in Ids : ~Granting(w, id) /\ (Granting(w, id)' <=> id = i)
    BY <2>0, <2>1 DEF Granting, Busy
  <2>5. \A id \in Ids, u \in Users : Opening(id, u)' <=> Opening(id, u)
    BY <2>0 DEF Opening
  <2>6. ASSUME NEW id \in Ids, NEW u \in Live, <<id, u>> \notin contested'
        PROVE  GrantOf(id, u)'
    <3>1. u \in Users /\ GrantOf(id, u)
      BY <2>2, <2>6 DEF Live, GrantsInv
    <3>2. CASE id = i
      <4>1. ~Opening(id, u)' /\ \A v \in Workers \ {w} : ~Granting(v, id)'
        BY <2>2, <2>4, <2>5, <2>6, <3>1, <3>2
      <4>2. <<id, u>> \in wanted' <=> u \in job'[w].granted
        BY <2>1, <2>3, <3>1, <3>2
      <4>3. Granting(w, id)' /\ u \in job'[w].todo
        BY <2>1, <2>4, <3>2
      <4> QED
        BY <4>1, <4>2, <4>3 DEF GrantOf, Promised, Compares, Settles
    <3>3. CASE id # i
      <4>1. <<id, u>> \in wanted' <=> <<id, u>> \in wanted
        BY <2>3, <3>1, <3>3
      <4>2. \A v \in Workers : Granting(v, id)' <=> Granting(v, id)
        BY <2>4, <3>3
      <4>3. \A v \in Workers : Granting(v, id) => job'[v] = job[v]
        BY <2>0, <2>4
      <4> QED
        BY <2>0, <2>5, <3>1, <4>1, <4>2, <4>3, GrantStays
    <3> QED
      BY <3>2, <3>3
  <2>7. OneForm'
    BY <2>0, <2>2, <2>4 DEF GrantsInv, OneForm
  <2>8. KnownUsers'
    BY <2>0, <2>3 DEF GrantsInv, KnownUsers, Live
  <2> QED
    BY <2>0, <2>6, <2>7, <2>8 DEF GrantsInv
<1>24. ASSUME NEW w \in Workers, CheckGrant(w)
      PROVE  GrantsInv'
  <2>a. CASE job[w].todo # {}
    <3> DEFINE i == job[w].id
    <3>1. /\ UNCHANGED <<account, handler, wanted, contested, nextId, grants>>
          /\ \A v \in Workers \ {w} : job'[v] = job[v]
          /\ Granting(w, i) /\ i \in Ids
      BY <1>24, StepMoves DEF Step, CheckGrant, Busy, people, tables, HoldsInv,
         HoldsOf, WithId, Granting
    <3>2. PICK x \in job[w].todo, j \in Job :
            /\ job' = [job EXCEPT ![w] = j] /\ j.id = job[w].id
            /\ j.granted = job[w].granted
            /\ IF Has(job[w].id, x) = (x \in job[w].granted)
                 THEN j.pc = "check" /\ j.todo = job[w].todo \ {x}
                 ELSE j.pc = "write" /\ j.todo = job[w].todo /\ j.user = x
      BY <1>24, <2>a, Checks
    <3>3. job'[w] = j
      BY <3>2 DEF TypeInv, JobsTyped
    <3>4. /\ job'[w].pc \in {"check", "write"} /\ job'[w].id = i
          /\ job'[w].granted = job[w].granted /\ job'[w].todo \subseteq job[w].todo
          /\ \A u \in job[w].todo \ job'[w].todo :
               u = x /\ (<<i, x>> \in grants <=> x \in job[w].granted)
      BY <3>2, <3>3 DEF Has
    <3> HIDE DEF i
    <3>5. /\ \A u \in job[w].todo \ job'[w].todo : <<i, u>> \in grants' <=> u \in job[w].granted
          /\ \A id, u : id # i \/ u \in job'[w].todo \/ u \notin job[w].todo =>
               (<<id, u>> \in grants' <=> <<id, u>> \in grants)
          /\ \A id, u : <<id, u>> \in grants' => <<id, u>> \in grants \/ u \in job[w].todo
      BY <3>1, <3>4
    <3> QED
      BY <3>1, <3>4, <3>5, ComparesSome
  <2>b. CASE job[w].todo = {}
    <3>1. /\ UNCHANGED <<account, handler, grants, wanted, contested, nextId>>
          /\ Live' = Live /\ Ids' = Ids /\ job[w].pc = "check"
          /\ job'[w].pc = "idle"
          /\ \A v \in Workers \ {w} : job'[v] = job[v]
      BY <1>24, <2>b, Finishes DEF CheckGrant, Busy, people, tables, Live, Ids
    <3>2. \A id \in Ids : \A v \in Workers : /\ Granting(v, id)' => Granting(v, id)
                                             /\ Granting(v, id) /\ v # w => Granting(v, id)'
      BY <3>1 DEF Granting, Busy
    <3>3. \A id \in Ids, u \in Users : Opening(id, u)' <=> Opening(id, u)
      BY <3>1 DEF Opening
    <3>4. ASSUME NEW id \in Ids, NEW u \in Live, <<id, u>> \notin contested
          PROVE  GrantOf(id, u)'
      <4>1. u \in Users /\ GrantOf(id, u)
        BY <3>4 DEF Live, GrantsInv
      <4>2. Promised(id, u)'
        BY <3>1, <3>3, <4>1 DEF GrantOf, Promised
      <4>3. \A v \in Workers : Granting(v, id)' => job'[v] = job[v]
        BY <3>1 DEF Granting, Busy
      <4>4. Compares(id, u)'
        BY <3>1, <3>2, <3>3, <4>1, <4>3 DEF GrantOf, Compares
      <4>5. (\A v \in Workers : Granting(v, id)' => u \notin job'[v].todo) =>
               \A v \in Workers : Granting(v, id) => u \notin job[v].todo
        BY <2>b, <3>1, <3>2
      <4>6. Settles(id, u)'
        BY <3>1, <3>3, <4>1, <4>5 DEF GrantOf, Settles
      <4> QED
        BY <4>2, <4>4, <4>6 DEF GrantOf
    <3>5. OneForm'
      BY <3>1, <3>2 DEF GrantsInv, OneForm
    <3>6. KnownUsers'
      BY <3>1 DEF GrantsInv, KnownUsers
    <3> QED
      BY <3>1, <3>4, <3>5, <3>6 DEF GrantsInv
  <2> QED
    BY <2>a, <2>b
<1>25. ASSUME NEW w \in Workers, WriteGrant(w)
      PROVE  GrantsInv'
  <2> DEFINE i == job[w].id
  <2>1. /\ UNCHANGED <<account, handler, wanted, contested, nextId>>
        /\ \A v \in Workers \ {w} : job'[v] = job[v]
        /\ Granting(w, i) /\ i \in Ids
    BY <1>25, StepMoves DEF Step, WriteGrant, Busy, people, HoldsInv, HoldsOf,
       WithId, Granting
  <2>2. /\ job'[w] = [pc |-> "check", id |-> i, granted |-> job[w].granted,
                      todo |-> job[w].todo \ {job[w].user}]
        /\ grants' = IF job[w].user \in job[w].granted THEN grants \union {<<i, job[w].user>>}
                                                       ELSE grants \ {<<i, job[w].user>>}
        /\ job[w].user \in job[w].todo
    BY <1>25, JobFields DEF WriteGrant, Busy, TypeInv, JobsTyped, HoldsInv,
       HoldsOf
  <2> HIDE DEF i
  <2>3. /\ job'[w].pc \in {"check", "write"} /\ job'[w].id = i
        /\ job'[w].granted = job[w].granted /\ job'[w].todo \subseteq job[w].todo
        /\ \A u \in job[w].todo \ job'[w].todo : u = job[w].user
        /\ job[w].user \notin job'[w].todo
    BY <2>2
  <2>4. /\ \A u \in job[w].todo \ job'[w].todo : <<i, u>> \in grants' <=> u \in job[w].granted
        /\ \A id, u : id # i \/ u \in job'[w].todo \/ u \notin job[w].todo =>
             (<<id, u>> \in grants' <=> <<id, u>> \in grants)
        /\ \A id, u : <<id, u>> \in grants' => <<id, u>> \in grants \/ u \in job[w].todo
    BY <2>2, <2>3
  <2> QED
    BY <2>1, <2>3, <2>4, ComparesSome
<1>26. ASSUME NEW w \in Workers, CreateKey(w)
      PROVE  GrantsInv'
  BY <1>26, <1>q DEF Step, CreateKey, people, tables, Busy
<1>27. ASSUME NEW w \in Workers, ScopeKey(w)
      PROVE  GrantsInv'
  BY <1>27, <1>q DEF Step, ScopeKey, people, tables, Busy
<1>28. ASSUME NEW w \in Workers, DeleteKey(w)
      PROVE  GrantsInv'
  BY <1>28, <1>q DEF Step, DeleteKey, people, tables, Busy
<1>29. ASSUME NEW w \in Workers, DeleteScope(w)
      PROVE  GrantsInv'
  BY <1>29, <1>q DEF Step, DeleteScope, people, tables, Busy
<1>30. ASSUME NEW w \in Workers, WriteFile(w)
      PROVE  GrantsInv'
  BY <1>30, <1>q DEF Step, WriteFile, people, tables, Busy
<1>31. ASSUME NEW w \in Workers, ReloadEntry(w)
      PROVE  GrantsInv'
  BY <1>31, <1>q DEF Step, ReloadEntry, people, tables, Busy
<1>32. ASSUME NEW w \in Workers, InsertDeployment(w)
      PROVE  GrantsInv'
  BY <1>32, <1>q DEF Step, InsertDeployment, people, tables, Busy
<1>33. ASSUME NEW w \in Workers, CancelDeployments(w)
      PROVE  GrantsInv'
  BY <1>33, <1>q DEF Step, CancelDeployments, people, tables, Busy
<1>34. ASSUME NEW w \in Workers, DeleteRow(w)
      PROVE  GrantsInv'
  BY <1>34, <1>q DEF Step, DeleteRow, people, tables, Busy
<1>35. ASSUME NEW w \in Workers, RemoveDirectory(w)
      PROVE  GrantsInv'
  BY <1>35, <1>q DEF Step, RemoveDirectory, people, tables, Busy
<1>36. ASSUME NEW w \in Workers, RemoveCached(w)
      PROVE  GrantsInv'
  BY <1>36, <1>q DEF Step, RemoveCached, people, tables, Busy
<1> QED
  BY <1>1, <1>2, <1>3, <1>4, <1>5, <1>6, <1>7, <1>8, <1>9, <1>10, <1>11, <1>12,
     <1>13, <1>14, <1>15, <1>16, <1>17, <1>18, <1>19, <1>20, <1>21, <1>22,
     <1>23, <1>24, <1>25, <1>26, <1>27, <1>28, <1>29, <1>30, <1>31, <1>32,
     <1>33, <1>34, <1>35, <1>36 DEF Next, Registration, CreateAdmin, Step

\* The invariant holds at the beginning.
LEMMA InitInv == Init => Inv
<1> SUFFICES ASSUME Init PROVE Inv
  OBVIOUS
<1> DEFINE n == Cardinality(FirstApps)
<1>1. n \in Nat
  BY FS_CardinalityType, AccessAssumption
<1>2. PICK scenario \in Scenarios :
        /\ agenda = scenario[2]
        /\ account = [u \in Users |-> IF u \in scenario[1] THEN "live" ELSE "none"]
        /\ roles = [u \in Users |-> IF u \in scenario[1] THEN {"admin"} ELSE {}]
  BY DEF Init
<1>3. PICK first \in SUBSET Users :
        /\ account = [u \in Users |-> IF u \in first THEN "live" ELSE "none"]
        /\ roles = [u \in Users |-> IF u \in first THEN {"admin"} ELSE {}]
  BY <1>2, AccessAssumption
<1>4. /\ Live = first /\ account \in [Users -> {"none", "live", "deleted"}]
      /\ roles \in [Users -> SUBSET Roles] /\ \A u \in Users \ Live : roles[u] = {}
      /\ \A u \in Live : roles[u] = {"admin"}
  BY <1>3 DEF Live, Roles
<1>5. /\ apps \in [Slugs -> 0..n] /\ nextId = 1 + n
      /\ \A s \in Slugs : apps[s] = 0 <=> s \notin FirstApps
      /\ \A s, t \in FirstApps : apps[s] = apps[t] => s = t
  BY DEF Init
<1> HIDE DEF n
<1>6. /\ apps \in [Slugs -> Nat] /\ nextId \in Nat /\ nextId > 0
      /\ \A s \in Slugs : apps[s] < nextId
    BY <1>1, <1>5
<1>7. /\ invites = {} /\ events = <<>> /\ handler = Idle /\ setup = "idle"
      /\ grants = {} /\ keys = {} /\ scopes = {} /\ deploys = {}
      /\ wanted = {} /\ contested = {} /\ spoiled = {} /\ blurred = {}
      /\ headless = FALSE /\ requests = 0 /\ crashes = 0
      /\ \A w \in Workers : job[w] = Idle
      /\ disk = [s \in Slugs |-> {}] /\ cache = [s \in Slugs |-> {}]
      /\ era = [s \in Slugs |-> 0]
      /\ asked = roles /\ job = [w \in Workers |-> Idle]
  BY DEF Init
<1>8. /\ \A w \in Workers : job[w].pc = "idle"
      /\ handler.pc = "idle" /\ DOMAIN events = {} /\ setup \notin Users
  <2>1. DOMAIN events = {}
    BY <1>7
  <2>2. setup \notin Users
    BY <1>7, AccessAssumption
  <2> QED
    BY <1>7, <2>1, <2>2 DEF Idle
<1> HIDE DEF Init
<1>a. TypeInv
  <2>1. JobsTyped
    BY <1>7 DEF JobsTyped, Job, Idle
  <2>2. PeopleTyped
    <3>1. events \in Seq(Event)
      BY <1>7
    <3>2. handler \in Handler
      BY <1>7 DEF Handler, Idle
    <3> QED
      BY <1>4, <1>7, <1>8, <3>1, <3>2 DEF PeopleTyped
  <2>3. TablesTyped
    <3>1. apps[Default] # 0
      BY <1>5, AccessAssumption
    <3> QED
      BY <1>6, <1>7, <3>1 DEF TablesTyped
  <2>4. ContentTyped
    BY <1>7 DEF ContentTyped
  <2> QED
    BY <2>1, <2>2, <2>3, <2>4 DEF TypeInv
<1>b. HoldsInv
  BY <1>8 DEF HoldsInv, TaskHolds, HoldsOf, Busy, Personal, WithId, OfAnApp,
     Drops
<1>c. OnceInv
  BY <1>8 DEF OnceInv, Registering
<1>d. RolesInv
  <2> SUFFICES ASSUME NEW u \in Live PROVE RolesOf(u)
    BY DEF RolesInv
  <2>1. u \in Users /\ setup # u
    BY <1>8 DEF Live
  <2>2. ~Registering(u) /\ ~Awaiting(u) /\ \A w \in Workers : ~Changer(w, u)
    BY <1>8 DEF Registering, Awaiting, Changer, Busy
  <2> QED
    BY <1>7, <1>8, <2>1, <2>2 DEF RolesOf, Waits, Awaits, Changes, Rests
<1>e. AdminInv
  <2>1. CASE Live = {}
    BY <1>4, <1>7, <1>8, <2>1 DEF AdminInv, Coming, Powerless
  <2>2. CASE Live # {}
    BY <1>4, <2>2 DEF AdminInv, HasAdministrator
  <2> QED
    BY <2>1, <2>2
<1>f. GrantsInv
  <2>1. OneForm /\ KnownUsers
    BY <1>7, <1>8 DEF OneForm, KnownUsers, Granting, Busy
  <2>2. \A id \in Ids, u \in Live : GrantOf(id, u)
    BY <1>7, <1>8 DEF GrantOf, Promised, Compares, Settles, Opening, Granting,
       Busy
  <2> QED
    BY <2>1, <2>2 DEF GrantsInv
<1>g. IdsInv
  <2>1. TablesAgree
    BY <1>5, <1>7 DEF TablesAgree
  <2>2. \A w \in Workers : IdOf(w)
    BY <1>8 DEF IdOf, Busy, OfAnApp, Drops
  <2> QED
    BY <2>1, <2>2 DEF IdsInv
<1>h. LeftInv
  BY <1>7 DEF LeftInv, LeftOf, OwnContent, BeingRemoved, OwnDeploys
<1> QED
  BY <1>a, <1>b, <1>c, <1>d, <1>e, <1>f, <1>g, <1>h DEF Inv

\* All that is used to prove the properties is an invariant of Access.
THEOREM InvHolds == Spec => []Inv
<1>1. Inv /\ [Next]_vars => Inv'
  <2> SUFFICES ASSUME Inv, [Next]_vars PROVE Inv'
    OBVIOUS
  <2> USE DEF Inv
  <2>1. TypeInv'
    BY JobsTypedStep, PeopleTypedStep, TablesTypedStep, ContentTypedStep DEF
       TypeInv
  <2>2. HoldsInv'
    BY HoldsInvStep
  <2>3. OnceInv'
    BY OnceInvStep
  <2>4. RolesInv'
    BY RolesInvStep
  <2>5. AdminInv'
    BY AdminInvStep
  <2>6. GrantsInv'
    BY GrantsInvStep
  <2>7. IdsInv'
    BY IdsInvStep
  <2>8. LeftInv'
    BY LeftInvStep
  <2> QED
    BY <2>1, <2>2, <2>3, <2>4, <2>5, <2>6, <2>7, <2>8
<1> QED
  BY InitInv, <1>1, PTL DEF Spec

\* The tables hold what their columns may hold; only live users have roles
\* and tokens.
THEOREM TypeCorrect == Spec => []TypeOK
<1>1. Inv => TypeOK
  BY TypeOKHolds DEF Inv
<1> QED
  BY InvHolds, <1>1, PTL

\* change_user_role and delete_user never take away the last administrator, and
\* the first user becomes one, as far as AnAdministrator says.
THEOREM AnAdministratorHolds == Spec => []AnAdministrator
<1>1. Inv => AnAdministrator
  <2> SUFFICES ASSUME Inv, Settled, Live # {}, ~headless
               PROVE  \E u \in Live : "admin" \in roles[u]
    BY DEF AnAdministrator
  <2>1. handler.pc = "idle" /\ DOMAIN events = {} /\ setup \notin Users
    BY DEF Settled, Idle
  <2>2. \A u \in Live : ~FirstToBe(u) /\ u \in Users
    BY <2>1 DEF FirstToBe, Awaiting, Live
  <2>3. ~Coming
    BY <2>1, <2>2 DEF Coming
  <2> QED
    BY <2>3 DEF Inv, AdminInv, HasAdministrator
<1> QED
  BY InvHolds, <1>1, PTL

\* A user at rest has the role it was invited with, or was last given, and no
\* other: change_user_role, accept_invite and create-admin.
THEOREM RolesAsAskedHolds == Spec => []RolesAsAsked
<1>1. Inv => RolesAsAsked
  BY DEF Inv, RolesInv, RolesOf, Rests, RolesAsAsked
<1> QED
  BY InvHolds, <1>1, PTL

\* The grants of an app are those of its last form and of the users invited
\* since: update_access and the grants of an invitation.
THEOREM AccessAsAskedHolds == Spec => []AccessAsAsked
<1>1. Inv => AccessAsAsked
  <2> SUFFICES ASSUME Inv, NEW s \in Slugs, NEW u \in Live, apps[s] # 0,
                      <<apps[s], u>> \notin contested, ~Registering(u),
                      \A w \in Workers : ~Granting(w, apps[s])
               PROVE  <<apps[s], u>> \in grants <=> <<apps[s], u>> \in wanted
    BY DEF AccessAsAsked
  <2>1. apps[s] \in Ids
    BY DEF Inv, TypeInv, TablesTyped, Ids
  <2>2. Settles(apps[s], u)
    BY <2>1 DEF Inv, GrantsInv, GrantOf
  <2>3. ~Opening(apps[s], u)
    BY DEF Opening, Registering
  <2> QED
    BY <2>2, <2>3 DEF Settles
<1> QED
  BY InvHolds, <1>1, PTL

\* An app has no documents, tokens or deployments of an app that was deleted:
\* create_app, delete_app and what they leave.
THEOREM NothingInheritedHolds == Spec => []NothingInherited
<1>1. Inv => NothingInherited
  BY DEF Inv, LeftInv, LeftOf, OwnContent, OwnDeploys, IdsInv, TablesAgree,
     NothingInherited
<1> QED
  BY InvHolds, <1>1, PTL

==============================================================================
