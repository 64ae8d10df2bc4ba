----------------------------- MODULE AutoDeploy -----------------------------
(***************************************************************************)
(* One deployment of an app: its row in the audit database, the background *)
(* task that fires its webhook when content has changed, the registry      *)
(* (deploy_tasks) through which handlers cancel that task, manual fires,   *)
(* and the detached retries of webhooks that failed.                       *)
(*                                                                         *)
(* Time is not measured.  A sleep may end at any moment, and a timestamp   *)
(* is represented by the mutations that carry an earlier one: last_fired_at*)
(* is the set of mutations logged before it was read off the clock.  The   *)
(* clock does not go back and never reads the same twice.                  *)
(*                                                                         *)
(* A dirty check is one step, and the database answers it.                 *)
(***************************************************************************)
EXTENDS Naturals, FiniteSets

CONSTANTS
  Mutations,    \* content and schema changes of the app, each logged once
  Configs,      \* webhook URL, token, debounce: what a task captures
  Tasks,        \* spawned tasks that may exist at once
  Clients,      \* manual fires that may be in progress at once
  Retries,      \* bound: retries that may be in progress at once
  Admins,       \* handlers of administrators in progress at once
  MaxRequests,  \* bound: administrators' requests in one behaviour
  MaxManual,    \* bound: manual fires in one behaviour
  MaxCrashes,   \* bound: crashes in one behaviour
  None,         \* no row, no task, no configuration
  Never         \* last_fired_at is NULL or has no row

ASSUME DeployAssumption ==
  /\ Tasks \intersect Clients = {} /\ Tasks \intersect Retries = {}
  /\ Clients \intersect Retries = {}
  /\ None \notin Tasks \union Configs
  /\ None \notin [auto : BOOLEAN, cfg : Configs]
  /\ \A s \in SUBSET Mutations : s # Never
  /\ MaxRequests \in Nat /\ MaxManual \in Nat /\ MaxCrashes \in Nat

VARIABLES
  row,        \* the row of the deployment
  existed,    \* its id was given out: ids are never used again
  lastFired,  \* deployment_state.last_fired_at, see above
  logged,     \* mutations whose timestamp has been taken
  writing,    \* those whose audit row is not inserted yet
  rows,       \* those whose audit row is inserted
  task,       \* the auto-deploy tasks
  registry,   \* the task that deploy_tasks holds the token of
  fire,       \* calls of fire_webhook, and detached retries
  admin,      \* the request each administrator's handler works on
  \* History variables.
  deployed,   \* mutations logged before some webhook was delivered
  skipped,    \* those logged between a delivery and the reading of the clock
  collided,   \* two administrators' requests overlapped since the start
  requests, manual, crashes

ghosts == <<deployed, skipped, collided, requests, manual, crashes>>
vars == <<row, existed, lastFired, logged, writing, rows, task, registry, fire,
          admin, ghosts>>

Deployment == [auto : BOOLEAN, cfg : Configs]
Firers == Tasks \union Clients \union Retries

Task == [pc : {"none", "check", "debounce", "recheck", "firing", "poll"},
         cancelled : BOOLEAN, cfg : Configs \union {None}]
Fire == [pc : {"none", "attempt", "mark", "write"}, left : 0..2,
         seen : SUBSET Mutations]
Admin == [pc : {"none", "update", "cancel", "get", "spawn", "delete"},
          auto : BOOLEAN, cfg : Configs \union {None}, op : {"save", "delete"}]

NoTask == [pc |-> "none", cancelled |-> FALSE, cfg |-> None]
NewTask(cfg) == [pc |-> "check", cancelled |-> FALSE, cfg |-> cfg]
NoFire == [pc |-> "none", left |-> 0, seen |-> {}]
Retry(left) == [pc |-> "attempt", left |-> left, seen |-> {}]
NoRequest == [pc |-> "none", auto |-> FALSE, cfg |-> None, op |-> "save"]

Live == {t \in Tasks : task[t].pc # "none" /\ ~task[t].cancelled}
Busy == {a \in Admins : admin[a].pc # "none"}
AutoOn == row # None /\ row.auto

\* is_dirty_for_deployment
Dirty == lastFired = Never \/ ~(rows \subseteq lastFired)

-----------------------------------------------------------------------------
(* The audit log.                                                          *)

\* log_with_app takes the timestamp and leaves the insert to a spawned task.
Log(m) ==
  /\ m \notin logged
  /\ logged' = logged \union {m}
  /\ writing' = writing \union {m}
  /\ skipped' = IF \E x \in Firers : fire[x].pc = "mark"
                THEN skipped \union {m} ELSE skipped
  /\ UNCHANGED <<row, existed, lastFired, rows, task, registry, fire, admin,
                 deployed, collided, requests, manual, crashes>>

\* An insert that fails is logged and forgotten.
Insert(m) ==
  /\ m \in writing
  /\ writing' = writing \ {m}
  /\ rows' \in {rows, rows \union {m}}
  /\ UNCHANGED <<row, existed, lastFired, logged, task, registry, fire, admin,
                 ghosts>>

-----------------------------------------------------------------------------
(* fire_webhook.                                                           *)

\* What has been logged is in what a receiver of the webhook will build.
Deliver == deployed' = deployed \union logged

AttemptSucceeds(x) ==
  /\ fire[x].pc = "attempt"
  /\ Deliver
  /\ fire' = [fire EXCEPT ![x].pc = "mark"]
  /\ UNCHANGED <<row, existed, lastFired, logged, writing, rows, task,
                 registry, admin, skipped, collided, requests, manual, crashes>>

\* Mutant: retries are not counted.
RetryForEver(x) ==
  IF x \in Retries
  THEN fire' = [fire EXCEPT ![x].left = @ - 1]
  ELSE \E r \in Retries :
         /\ fire[r].pc = "none"
         /\ fire' = [fire EXCEPT ![x] = NoFire, ![r] = Retry(2)]

\* Mutant: the deployment is marked whatever came of the attempt.
MarkAfterFailure(x) == fire' = [fire EXCEPT ![x].pc = "mark"]

\* What follows a failed attempt: a first one leaves two retries to a
\* detached task; a retry is followed by the next, if there is one.
AfterFailure(x) ==
  IF x \in Retries
  THEN fire' = [fire EXCEPT ![x] =
                  IF fire[x].left = 1 THEN NoFire ELSE Retry(fire[x].left - 1)]
  ELSE \E r \in Retries :
         /\ fire[r].pc = "none"
         /\ fire' = [fire EXCEPT ![x] = NoFire, ![r] = Retry(2)]

\* The receiver may have got the request although no success was answered.
AttemptFails(x) ==
  /\ fire[x].pc = "attempt"
  /\ Deliver \/ UNCHANGED deployed
  /\ AfterFailure(x)
  /\ UNCHANGED <<row, existed, lastFired, logged, writing, rows, task,
                 registry, admin, skipped, collided, requests, manual, crashes>>

\* mark_deployment_fired reads the clock, after the attempt was recorded.
MarkRead(x) ==
  /\ fire[x].pc = "mark"
  /\ fire' = [fire EXCEPT ![x] = [@ EXCEPT !.pc = "write", !.seen = logged]]
  /\ UNCHANGED <<row, existed, lastFired, logged, writing, rows, task,
                 registry, admin, ghosts>>

\* Mutant: the upsert does nothing when a row exists.
MarkOnce(x) ==
  /\ fire[x].pc = "write"
  /\ lastFired' = IF row = None \/ lastFired # Never THEN lastFired
                  ELSE fire[x].seen
  /\ fire' = [fire EXCEPT ![x] = NoFire]
  /\ UNCHANGED <<row, existed, logged, writing, rows, task, registry, admin,
                 ghosts>>

\* The foreign key refuses the upsert once the deployment is deleted.
MarkWrite(x) ==
  /\ fire[x].pc = "write"
  /\ lastFired' = IF row = None THEN lastFired ELSE fire[x].seen
  /\ fire' = [fire EXCEPT ![x] = NoFire]
  /\ UNCHANGED <<row, existed, logged, writing, rows, task, registry, admin,
                 ghosts>>

\* fire_deployment, of the API and of the admin UI.
ManualFire(c) ==
  /\ row # None
  /\ manual < MaxManual
  /\ fire[c].pc = "none"
  /\ fire' = [fire EXCEPT ![c].pc = "attempt"]
  /\ manual' = manual + 1
  /\ UNCHANGED <<row, existed, lastFired, logged, writing, rows, task,
                 registry, admin, deployed, skipped, collided, requests,
                 crashes>>

-----------------------------------------------------------------------------
(* The loop of spawn_auto_deploy_task.                                     *)

\* A task that is cancelled before it goes to sleep returns at once; one that
\* is cancelled while it sleeps may find its sleep over at the same moment.
Sleep(t, pc) ==
  task' = [task EXCEPT ![t] =
             IF @.cancelled THEN NoTask ELSE [@ EXCEPT !.pc = pc]]

Check(t) ==
  /\ task[t].pc = "check"
  /\ Sleep(t, IF Dirty THEN "debounce" ELSE "poll")
  /\ UNCHANGED <<row, existed, lastFired, logged, writing, rows, registry,
                 fire, admin, ghosts>>

Wake(t) ==
  /\ task[t].pc \in {"debounce", "poll"}
  /\ task' = [task EXCEPT ![t].pc =
                IF @ = "debounce" THEN "recheck" ELSE "check"]
  /\ UNCHANGED <<row, existed, lastFired, logged, writing, rows, registry,
                 fire, admin, ghosts>>

Stop(t) ==
  /\ task[t].pc \in {"debounce", "poll"}
  /\ task[t].cancelled
  /\ task' = [task EXCEPT ![t] = NoTask]
  /\ UNCHANGED <<row, existed, lastFired, logged, writing, rows, registry,
                 fire, admin, ghosts>>

Recheck(t) ==
  /\ task[t].pc = "recheck"
  /\ IF Dirty
     THEN /\ task' = [task EXCEPT ![t].pc = "firing"]
          /\ fire' = [fire EXCEPT ![t].pc = "attempt"]
     ELSE Sleep(t, "poll") /\ UNCHANGED fire
  /\ UNCHANGED <<row, existed, lastFired, logged, writing, rows, registry,
                 admin, ghosts>>

\* fire_webhook has returned.
Fired(t) ==
  /\ task[t].pc = "firing"
  /\ fire[t].pc = "none"
  /\ Sleep(t, "poll")
  /\ UNCHANGED <<row, existed, lastFired, logged, writing, rows, registry,
                 fire, admin, ghosts>>

-----------------------------------------------------------------------------
(* create_deployment, update_deployment, delete_deployment.                *)

Begin(a, request) ==
  /\ admin[a].pc = "none"
  /\ requests < MaxRequests
  /\ requests' = requests + 1
  /\ collided' = (collided \/ Busy # {})
  /\ admin' = [admin EXCEPT ![a] = request]

Goto(a, pc) == admin' = [admin EXCEPT ![a].pc = pc]
Done(a) == admin' = [admin EXCEPT ![a] = NoRequest]

\* The row is inserted; the handler has yet to spawn the task.
Create(a, auto, cfg) ==
  /\ ~existed
  /\ existed' = TRUE
  /\ row' = [auto |-> auto, cfg |-> cfg]
  /\ Begin(a, [NoRequest EXCEPT !.pc = IF auto THEN "spawn" ELSE "none",
                                !.cfg = IF auto THEN cfg ELSE None])
  /\ UNCHANGED <<lastFired, logged, writing, rows, task, registry, fire,
                 deployed, skipped, manual, crashes>>

BeginUpdate(a, auto, cfg) ==
  /\ row # None
  /\ Begin(a, [pc |-> "update", auto |-> auto, cfg |-> cfg, op |-> "save"])
  /\ UNCHANGED <<row, existed, lastFired, logged, writing, rows, task,
                 registry, fire, deployed, skipped, manual, crashes>>

\* UPDATE ... WHERE id: no row, no effect, no error.
Update(a) ==
  /\ admin[a].pc = "update"
  /\ row' = IF row = None THEN None
            ELSE [auto |-> admin[a].auto, cfg |-> admin[a].cfg]
  /\ Goto(a, "cancel")
  /\ UNCHANGED <<existed, lastFired, logged, writing, rows, task, registry,
                 fire, ghosts>>

BeginDelete(a) ==
  /\ row # None
  /\ Begin(a, [NoRequest EXCEPT !.pc = "cancel", !.op = "delete"])
  /\ UNCHANGED <<row, existed, lastFired, logged, writing, rows, task,
                 registry, fire, deployed, skipped, manual, crashes>>

AfterCancel(a) ==
  IF admin[a].op = "delete" THEN Goto(a, "delete")
  ELSE IF admin[a].auto THEN Goto(a, "get") ELSE Done(a)

\* Mutant: the token is removed and not cancelled.
CancelForgets(a) ==
  /\ admin[a].pc = "cancel"
  /\ registry' = None
  /\ AfterCancel(a)
  /\ UNCHANGED <<row, existed, lastFired, logged, writing, rows, task, fire,
                 ghosts>>

\* cancel_auto_deploy_task
Cancel(a) ==
  /\ admin[a].pc = "cancel"
  /\ task' = [t \in Tasks |->
                IF t = registry THEN [task[t] EXCEPT !.cancelled = TRUE]
                ELSE task[t]]
  /\ registry' = None
  /\ AfterCancel(a)
  /\ UNCHANGED <<row, existed, lastFired, logged, writing, rows, fire, ghosts>>

\* get_deployment_by_id: the row as it is now, of which the handler does not
\* look at auto_deploy.
Get(a) ==
  /\ admin[a].pc = "get"
  /\ IF row = None THEN Done(a)
     ELSE admin' = [admin EXCEPT ![a] =
                             [@ EXCEPT !.pc = "spawn", !.cfg = row.cfg]]
  /\ UNCHANGED <<row, existed, lastFired, logged, writing, rows, task,
                 registry, fire, ghosts>>

\* The new token takes the place of the one the registry held.
Spawn(a, t) ==
  /\ admin[a].pc = "spawn"
  /\ task[t].pc = "none"
  /\ task' = [task EXCEPT ![t] = NewTask(admin[a].cfg)]
  /\ registry' = t
  /\ Done(a)
  /\ UNCHANGED <<row, existed, lastFired, logged, writing, rows, fire, ghosts>>

\* The state of the deployment goes with its row.
Delete(a) ==
  /\ admin[a].pc = "delete"
  /\ row' = None
  /\ lastFired' = Never
  /\ Done(a)
  /\ UNCHANGED <<existed, logged, writing, rows, task, registry, fire, ghosts>>

-----------------------------------------------------------------------------
(* Start and crash.  main spawns a task for every auto-deploy deployment.  *)

\* Mutant: tasks are spawned by handlers only.
NoneStarted(t) == [u \in Tasks |-> NoTask]

StartedTasks(t) ==
  [u \in Tasks |-> IF AutoOn /\ u = t THEN NewTask(row.cfg) ELSE NoTask]
StartedRegistry(t) == IF AutoOn THEN t ELSE None

CrashRestart(t) ==
  /\ crashes < MaxCrashes
  /\ crashes' = crashes + 1
  /\ writing' = {}
  /\ task' = StartedTasks(t)
  /\ registry' = StartedRegistry(t)
  /\ fire' = [x \in Firers |-> NoFire]
  /\ admin' = [a \in Admins |-> NoRequest]
  /\ collided' = FALSE
  /\ UNCHANGED <<row, existed, lastFired, logged, rows, deployed, skipped,
                 requests, manual>>

Init ==
  /\ row \in Deployment \union {None}
  /\ existed = (row # None)
  /\ lastFired = Never
  /\ logged = {} /\ writing = {} /\ rows = {}
  /\ \E t \in Tasks : task = StartedTasks(t) /\ registry = StartedRegistry(t)
  /\ fire = [x \in Firers |-> NoFire]
  /\ admin = [a \in Admins |-> NoRequest]
  /\ deployed = {} /\ skipped = {} /\ collided = FALSE
  /\ requests = 0 /\ manual = 0 /\ crashes = 0

Loop(t) == Check(t) \/ Wake(t) \/ Stop(t) \/ Recheck(t) \/ Fired(t)

Mark(x) == MarkRead(x) \/ MarkWrite(x)

Handle(a) ==
  \/ Update(a) \/ Cancel(a) \/ Get(a) \/ Delete(a)
  \/ \E t \in Tasks : Spawn(a, t)

Arrive(a) ==
  \/ \E auto \in BOOLEAN, cfg \in Configs :
       Create(a, auto, cfg) \/ BeginUpdate(a, auto, cfg)
  \/ BeginDelete(a)

Next ==
  \/ \E m \in Mutations : Log(m) \/ Insert(m)
  \/ \E t \in Tasks : Loop(t) \/ CrashRestart(t)
  \/ \E c \in Clients : ManualFire(c)
  \/ \E x \in Firers : AttemptSucceeds(x) \/ AttemptFails(x) \/ Mark(x)
  \/ \E a \in Admins : Arrive(a) \/ Handle(a)

Spec == Init /\ [][Next]_vars

\* The runtime runs every task and handler, sleeps end, and a request is
\* answered or times out.  An endpoint that a task calls again and again
\* answers with a success some time.
Fairness ==
  /\ \A t \in Tasks : WF_vars(Loop(t)) /\ SF_vars(AttemptSucceeds(t))
  /\ \A x \in Firers :
       WF_vars(AttemptSucceeds(x) \/ AttemptFails(x)) /\ WF_vars(Mark(x))
  /\ \A a \in Admins : WF_vars(Handle(a))

FairSpec == Spec /\ Fairness

-----------------------------------------------------------------------------
(* Properties.                                                             *)

\* The variables have the types their comments say.
TypeOK ==
  /\ row \in Deployment \union {None}
  /\ existed \in BOOLEAN
  /\ lastFired = Never \/ lastFired \subseteq Mutations
  /\ logged \subseteq Mutations /\ writing \subseteq Mutations
  /\ rows \subseteq Mutations
  /\ task \in [Tasks -> Task]
  /\ registry \in Tasks \union {None}
  /\ fire \in [Firers -> Fire]
  /\ admin \in [Admins -> Admin]
  /\ deployed \subseteq Mutations /\ skipped \subseteq Mutations
  /\ collided \in BOOLEAN
  /\ requests \in Nat /\ manual \in Nat /\ crashes \in Nat

\* last_fired_at never hides a mutation from the dirty check before a webhook
\* was delivered after it, except one that was logged after a delivery and
\* before its mark read the clock: not when attempts fail, retries and manual
\* fires come in between, marks are written in another order than their clocks
\* were read, or the server crashes.
MarkCoversDeployed ==
  lastFired # Never => lastFired \subseteq deployed \union skipped

\* Between administrators' requests that did not overlap, exactly the task the
\* registry can cancel runs, with the configuration of the row, when the
\* deployment is there and auto-deploys, and no task otherwise: whatever the
\* cancelled tasks were doing, and however often the server was restarted.
TaskPerDeployment ==
  Busy = {} /\ ~collided =>
    IF AutoOn
    THEN /\ registry # None /\ Live = {registry}
         /\ task[registry].cfg = row.cfg
    ELSE registry = None /\ Live = {}

\* While the deployment auto-deploys, a mutation whose audit row was inserted
\* is eventually followed by the delivery of a webhook, unless it was logged in
\* the window above or administrators' requests overlapped.
EventuallyDeployed ==
  \A m \in Mutations :
    m \in rows ~> \/ m \in deployed \union skipped
                  \/ ~AutoOn \/ collided

\* Once mutations and requests cease, the deployment becomes clean and stays
\* so: marks that overtake each other or fail do not make it fire for ever.
EventuallyClean == <>[](AutoOn /\ ~collided => ~Dirty)
=============================================================================
