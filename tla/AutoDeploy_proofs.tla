------------------------- MODULE AutoDeploy_proofs -------------------------
(***************************************************************************)
(* Theorems about AutoDeploy for every set of mutations, tasks, clients,   *)
(* retries and administrators, and every bound.                            *)
(***************************************************************************)
EXTENDS AutoDeploy, TLAPS

USE DeployAssumption

\* A request that will write or start a task has a configuration, and one that
\* will write is not a delete.
RequestOK(r) ==
  /\ r \in Admin
  /\ r.pc = "spawn" \/ r.pc = "update" => r.cfg \in Configs
  /\ r.pc = "update" => r.op = "save"

\* The types, and: a retry is attempted only while retries are left.
TypeInv ==
  /\ TypeOK
  /\ \A a \in Admins : RequestOK(admin[a])
  /\ \A r \in Retries : fire[r].pc = "attempt" => fire[r].left \in 1..2
  /\ row # None => existed

\* A start spawns typed tasks, and no handler or webhook call is at work.
LEMMA StartTyped ==
  ASSUME NEW t \in Tasks, row \in Deployment \union {None}
  PROVE  /\ StartedTasks(t) \in [Tasks -> Task]
         /\ StartedRegistry(t) \in Tasks \union {None}
         /\ NoFire \in Fire /\ NoFire.pc = "none"
         /\ RequestOK(NoRequest)
<1>1. AutoOn => NewTask(row.cfg) \in Task
  BY DEF AutoOn, Deployment, NewTask, Task
<1>2. NoTask \in Task
  BY DEF NoTask, Task
<1>3. StartedTasks(t) \in [Tasks -> Task]
  BY <1>1, <1>2 DEF StartedTasks
<1>4. NoFire \in Fire /\ NoFire.pc = "none"
  BY DEF NoFire, Fire
<1>5. RequestOK(NoRequest)
  BY DEF NoRequest, Admin, RequestOK
<1> QED
  BY <1>3, <1>4, <1>5 DEF StartedRegistry

LEMMA TypeInit == Init => TypeInv
<1> SUFFICES ASSUME Init PROVE TypeInv
  OBVIOUS
<1>1. row \in Deployment \union {None}
  BY DEF Init
<1>2. task \in [Tasks -> Task] /\ registry \in Tasks \union {None}
  BY <1>1, StartTyped DEF Init
<1>3. /\ fire \in [Firers -> Fire]
      /\ \A r \in Retries : fire[r].pc = "none"
      /\ \A a \in Admins : RequestOK(admin[a])
      /\ admin \in [Admins -> Admin]
  <2>1. PICK t \in Tasks : task = StartedTasks(t)
    BY DEF Init
  <2> QED
    BY <1>1, <2>1, StartTyped DEF Init, RequestOK, Firers
<1> QED
  BY <1>1, <1>2, <1>3 DEF Init, TypeInv, TypeOK

\* A handler's request changes, and keeps its type.
LEMMA RequestTyped ==
  ASSUME TypeInv, NEW a \in Admins, NEW new, RequestOK(new),
         admin' = [admin EXCEPT ![a] = new]
  PROVE  /\ admin' \in [Admins -> Admin]
         /\ \A b \in Admins : RequestOK(admin'[b])
BY DEF TypeInv, TypeOK, RequestOK

\* A step of a webhook call keeps the calls typed.
LEMMA FireTyped ==
  ASSUME TypeInv, NEW x \in Firers,
         AttemptSucceeds(x) \/ AttemptFails(x) \/ Mark(x)
  PROVE  /\ fire' \in [Firers -> Fire]
         /\ \A r \in Retries : fire'[r].pc = "attempt" => fire'[r].left \in 1..2
<1> USE DEF TypeInv, TypeOK, Fire, Firers
<1>1. CASE AttemptSucceeds(x)
  BY <1>1 DEF AttemptSucceeds
<1>2. CASE AttemptFails(x)
  <2>1. CASE x \in Retries
    <3>1. fire[x].left \in 1..2 /\ fire[x].pc = "attempt"
      BY <1>2, <2>1 DEF AttemptFails
    <3>2. CASE fire[x].left = 1
      BY <1>2, <2>1, <3>2 DEF AttemptFails, AfterFailure, NoFire
    <3>3. CASE fire[x].left = 2
      <4>1. fire' = [fire EXCEPT ![x] = Retry(1)]
        BY <1>2, <2>1, <3>3 DEF AttemptFails, AfterFailure
      <4>2. Retry(1) \in Fire /\ Retry(1).left = 1
        BY DEF Retry
      <4> QED
        BY <4>1, <4>2
    <3> QED
      BY <3>1, <3>2, <3>3
  <2>2. CASE x \notin Retries
    <3>1. NoFire \in Fire /\ NoFire.pc = "none" /\ Retry(2) \in Fire /\ Retry(2).left = 2
      BY DEF NoFire, Retry
    <3>2. PICK r \in Retries : fire' = [fire EXCEPT ![x] = NoFire, ![r] = Retry(2)]
      BY <1>2, <2>2 DEF AttemptFails, AfterFailure
    <3> HIDE DEF Fire
    <3> QED
      BY <2>2, <3>1, <3>2
  <2> QED
    BY <2>1, <2>2
<1>3. CASE MarkRead(x)
  BY <1>3 DEF MarkRead
<1>4. CASE MarkWrite(x)
  BY <1>4 DEF MarkWrite, NoFire
<1> QED
  BY <1>1, <1>2, <1>3, <1>4 DEF Mark

\* A task that goes to sleep, or returns because it is cancelled, stays typed.
LEMMA SleepTyped ==
  ASSUME TypeInv, NEW t \in Tasks, NEW pc \in {"debounce", "poll"}, Sleep(t, pc)
  PROVE  task' \in [Tasks -> Task]
<1> DEFINE new == IF task[t].cancelled THEN NoTask ELSE [task[t] EXCEPT !.pc = pc]
<1>1. task[t] \in Task
  BY DEF TypeInv, TypeOK
<1>2. new \in Task
  BY <1>1 DEF Task, NoTask
<1>3. task' = [task EXCEPT ![t] = new]
  BY DEF Sleep
<1> QED
  BY <1>2, <1>3 DEF TypeInv, TypeOK

LEMMA TypeStep == TypeInv /\ [Next]_vars => TypeInv'
<1> SUFFICES ASSUME TypeInv, [Next]_vars PROVE TypeInv'
  OBVIOUS
<1>1. CASE UNCHANGED vars
  BY <1>1 DEF vars, ghosts, TypeInv, TypeOK
<1>2. ASSUME NEW m \in Mutations, Log(m) \/ Insert(m) PROVE TypeInv'
  BY <1>2 DEF Log, Insert, ghosts, TypeInv, TypeOK
<1>3. ASSUME NEW t \in Tasks, Loop(t) PROVE TypeInv'
  <2> USE DEF ghosts
  <2>1. CASE Check(t)
    <3>1. task' \in [Tasks -> Task]
      BY <2>1, SleepTyped DEF Check
    <3> QED
      BY <2>1, <3>1 DEF Check, TypeInv, TypeOK
  <2>2. CASE Wake(t)
    BY <2>2 DEF Wake, Task, TypeInv, TypeOK
  <2>3. CASE Stop(t)
    BY <2>3 DEF Stop, NoTask, Task, TypeInv, TypeOK
  <2>4. CASE Recheck(t)
    <3>1. task' \in [Tasks -> Task]
      <4>1. CASE Dirty
        BY <2>4, <4>1 DEF Recheck, Task, TypeInv, TypeOK
      <4>2. CASE ~Dirty
        BY <2>4, <4>2, SleepTyped DEF Recheck
      <4> QED
        BY <4>1, <4>2
    <3>2. /\ fire' \in [Firers -> Fire]
          /\ \A r \in Retries : fire'[r] = fire[r]
      <4>1. fire[t] \in Fire /\ [fire[t] EXCEPT !.pc = "attempt"] \in Fire
        BY DEF Fire, Firers, TypeInv, TypeOK
      <4>2. fire' \in {fire, [fire EXCEPT ![t] = [fire[t] EXCEPT !.pc = "attempt"]]}
        BY <2>4 DEF Recheck
      <4> QED
        BY <4>1, <4>2, DeployAssumption DEF Firers, TypeInv, TypeOK
    <3> QED
      BY <2>4, <3>1, <3>2 DEF Recheck, TypeInv, TypeOK
  <2>5. CASE Fired(t)
    <3>1. task' \in [Tasks -> Task]
      BY <2>5, SleepTyped DEF Fired
    <3> QED
      BY <2>5, <3>1 DEF Fired, TypeInv, TypeOK
  <2> QED
    BY <1>3, <2>1, <2>2, <2>3, <2>4, <2>5 DEF Loop
<1>4. ASSUME NEW t \in Tasks, CrashRestart(t) PROVE TypeInv'
  <2>1. row \in Deployment \union {None}
    BY DEF TypeInv, TypeOK
  <2>2. task' \in [Tasks -> Task] /\ registry' \in Tasks \union {None}
    BY <1>4, <2>1, StartTyped DEF CrashRestart
  <2>3. /\ fire' \in [Firers -> Fire]
        /\ \A r \in Retries : fire'[r].pc = "none"
        /\ \A a \in Admins : RequestOK(admin'[a])
        /\ admin' \in [Admins -> Admin]
    BY <1>4, <2>1, StartTyped DEF CrashRestart, RequestOK, Firers
  <2>4. UNCHANGED <<row, existed, lastFired, logged, rows, deployed, skipped,
                    requests, manual>>
    BY <1>4 DEF CrashRestart
  <2>5. writing' \subseteq Mutations /\ collided' \in BOOLEAN
    BY <1>4 DEF CrashRestart
  <2>6. crashes' \in Nat
    BY <1>4 DEF CrashRestart, TypeInv, TypeOK
  <2> QED
    BY <2>2, <2>3, <2>4, <2>5, <2>6 DEF TypeInv, TypeOK
<1>5. ASSUME NEW c \in Clients, ManualFire(c) PROVE TypeInv'
  BY <1>5 DEF ManualFire, Fire, Firers, TypeInv, TypeOK
<1>6. ASSUME NEW x \in Firers,
             AttemptSucceeds(x) \/ AttemptFails(x) \/ Mark(x)
      PROVE  TypeInv'
  <2>1. /\ fire' \in [Firers -> Fire]
        /\ \A r \in Retries : fire'[r].pc = "attempt" => fire'[r].left \in 1..2
    BY <1>6, FireTyped
  <2>2. fire[x].seen \subseteq Mutations
    BY DEF TypeInv, TypeOK, Fire
  <2>3. /\ deployed' \subseteq Mutations
        /\ lastFired' = Never \/ lastFired' \subseteq Mutations
    BY <1>6, <2>2 DEF AttemptSucceeds, AttemptFails, Deliver, Mark, MarkRead,
       MarkWrite, ghosts, TypeInv, TypeOK
  <2>4. UNCHANGED <<row, existed, logged, writing, rows, task, registry, admin,
                    skipped, collided, requests, manual, crashes>>
    BY <1>6 DEF AttemptSucceeds, AttemptFails, Mark, MarkRead, MarkWrite, ghosts
  <2> QED
    BY <2>1, <2>3, <2>4 DEF TypeInv, TypeOK
<1>7. ASSUME NEW a \in Admins, Arrive(a) PROVE TypeInv'
  <2>0. ASSUME NEW new, Begin(a, new), RequestOK(new)
        PROVE  /\ admin' \in [Admins -> Admin]
               /\ \A b \in Admins : RequestOK(admin'[b])
               /\ requests' \in Nat /\ collided' \in BOOLEAN
    <3>1. admin' \in [Admins -> Admin] /\ \A b \in Admins : RequestOK(admin'[b])
      BY <2>0, RequestTyped DEF Begin
    <3>2. requests' \in Nat
      BY <2>0 DEF Begin, TypeInv, TypeOK
    <3>3. collided' \in BOOLEAN
      BY <2>0 DEF Begin
    <3> QED
      BY <3>1, <3>2, <3>3
  <2>1. ASSUME NEW auto \in BOOLEAN, NEW cfg \in Configs, Create(a, auto, cfg)
        PROVE  TypeInv'
    <3>1. RequestOK([NoRequest EXCEPT !.pc = IF auto THEN "spawn" ELSE "none",
                                      !.cfg = IF auto THEN cfg ELSE None])
      BY DEF NoRequest, Admin, RequestOK
    <3> QED
      BY <2>0, <2>1, <3>1 DEF Create, Deployment, TypeInv, TypeOK
  <2>2. ASSUME NEW auto \in BOOLEAN, NEW cfg \in Configs,
               BeginUpdate(a, auto, cfg)
        PROVE  TypeInv'
    <3>1. RequestOK([pc |-> "update", auto |-> auto, cfg |-> cfg, op |-> "save"])
      BY DEF Admin, RequestOK
    <3> QED
      BY <2>0, <2>2, <3>1 DEF BeginUpdate, TypeInv, TypeOK
  <2>3. ASSUME BeginDelete(a) PROVE TypeInv'
    <3>1. RequestOK([NoRequest EXCEPT !.pc = "cancel", !.op = "delete"])
      BY DEF NoRequest, Admin, RequestOK
    <3> QED
      BY <2>0, <2>3, <3>1 DEF BeginDelete, TypeInv, TypeOK
  <2> QED
    BY <1>7, <2>1, <2>2, <2>3 DEF Arrive
<1>8. ASSUME NEW a \in Admins, Handle(a) PROVE TypeInv'
  <2> USE DEF ghosts
  <2>1. RequestOK(admin[a]) /\ RequestOK(NoRequest)
    BY DEF TypeInv, NoRequest, RequestOK, Admin
  <2>2. CASE Update(a)
    <3>1. RequestOK([admin[a] EXCEPT !.pc = "cancel"])
      BY <2>1 DEF RequestOK, Admin
    <3>2. row' \in Deployment \union {None}
      BY <2>1, <2>2 DEF Update, RequestOK, Admin, Deployment
    <3>3. admin' = [admin EXCEPT ![a] = [admin[a] EXCEPT !.pc = "cancel"]]
      BY <2>2 DEF Update, Goto
    <3>4. row' # None => existed
      BY <2>2 DEF Update, TypeInv
    <3> QED
      BY <2>2, <3>1, <3>2, <3>3, <3>4, RequestTyped DEF Update, TypeInv, TypeOK
  <2>3. CASE Cancel(a)
    <3>1. task' \in [Tasks -> Task]
      <4>1. \A t \in Tasks : task[t] \in Task
        BY DEF TypeInv, TypeOK
      <4>2. \A t \in Tasks : [task[t] EXCEPT !.cancelled = TRUE] \in Task
        BY <4>1 DEF Task
      <4> QED
        BY <2>3, <4>1, <4>2 DEF Cancel
    <3>2. PICK new : RequestOK(new) /\ admin' = [admin EXCEPT ![a] = new]
      <4>1. \A pc \in {"delete", "get"} : RequestOK([admin[a] EXCEPT !.pc = pc])
        BY <2>1 DEF RequestOK, Admin
      <4> QED
        BY <2>1, <2>3, <4>1 DEF Cancel, AfterCancel, Goto, Done
    <3> QED
      BY <2>3, <3>1, <3>2, RequestTyped DEF Cancel, TypeInv, TypeOK
  <2>4. CASE Get(a)
    <3>1. PICK new : RequestOK(new) /\ admin' = [admin EXCEPT ![a] = new]
      <4>1. CASE row = None
        BY <2>1, <2>4, <4>1 DEF Get, Done
      <4>2. CASE row # None
        <5> DEFINE new == [admin[a] EXCEPT !.pc = "spawn", !.cfg = row.cfg]
        <5>1. row.cfg \in Configs
          BY <4>2 DEF TypeInv, TypeOK, Deployment
        <5>2. RequestOK(new)
          BY <2>1, <5>1 DEF RequestOK, Admin
        <5>3. admin' = [admin EXCEPT ![a] = new]
          BY <2>4, <4>2 DEF Get
        <5> QED
          BY <5>2, <5>3
      <4> QED
        BY <4>1, <4>2
    <3> QED
      BY <2>4, <3>1, RequestTyped DEF Get, TypeInv, TypeOK
  <2>5. CASE Delete(a)
    BY <2>1, <2>5, RequestTyped DEF Delete, Done, TypeInv, TypeOK
  <2>6. ASSUME NEW t \in Tasks, Spawn(a, t) PROVE TypeInv'
    <3>1. NewTask(admin[a].cfg) \in Task
      BY <2>1 DEF NewTask, Task, RequestOK, Admin
    <3> QED
      BY <2>1, <2>6, <3>1, RequestTyped DEF Spawn, Done, TypeInv, TypeOK
  <2> QED
    BY <1>8, <2>2, <2>3, <2>4, <2>5, <2>6 DEF Handle
<1> QED
  BY <1>1, <1>2, <1>3, <1>4, <1>5, <1>6, <1>7, <1>8 DEF Next

\* Every variable keeps its type.
THEOREM TypeCorrect == Spec => []TypeOK
<1>1. TypeInv => TypeOK
  BY DEF TypeInv
<1> QED
  BY <1>1, TypeInit, TypeStep, PTL DEF Spec

LEMMA TypeInvHolds == Spec => []TypeInv
BY TypeInit, TypeStep, PTL DEF Spec

-----------------------------------------------------------------------------
(* Marks.                                                                  *)

\* What a call of fire_webhook that got an answer will hide from the dirty
\* check has been deployed, or was logged while it was on its way to the mark.
MarkInv ==
  /\ MarkCoversDeployed
  /\ \A x \in Firers :
       /\ fire[x].pc = "mark" => logged \subseteq deployed \union skipped
       /\ fire[x].pc = "write" => fire[x].seen \subseteq deployed \union skipped

LEMMA MarkStep == TypeInv /\ MarkInv /\ [Next]_vars => MarkInv'
<1> SUFFICES ASSUME TypeInv, MarkInv, [Next]_vars PROVE MarkInv'
  OBVIOUS
<1> USE DEF MarkInv, MarkCoversDeployed
<1>1. CASE UNCHANGED vars
  BY <1>1 DEF vars, ghosts
<1>2. ASSUME NEW m \in Mutations, Log(m) \/ Insert(m) PROVE MarkInv'
  BY <1>2 DEF Log, Insert, ghosts
<1>3. ASSUME NEW t \in Tasks, Loop(t) PROVE MarkInv'
  <2>1. \A x \in Firers : fire'[x] = fire[x] \/ fire'[x].pc = "attempt"
    BY <1>3 DEF Loop, Check, Wake, Stop, Recheck, Fired, Firers, TypeInv, TypeOK,
       Fire
  <2> QED
    BY <1>3, <2>1 DEF Loop, Check, Wake, Stop, Recheck, Fired, ghosts
<1>4. ASSUME NEW t \in Tasks, CrashRestart(t) PROVE MarkInv'
  BY <1>4 DEF CrashRestart, NoFire
<1>5. ASSUME NEW c \in Clients, ManualFire(c) PROVE MarkInv'
  <2>1. \A x \in Firers : fire'[x] = fire[x] \/ fire'[x].pc = "attempt"
    BY <1>5 DEF ManualFire, Firers, TypeInv, TypeOK, Fire
  <2> QED
    BY <1>5, <2>1 DEF ManualFire
<1>6. ASSUME NEW x \in Firers, AttemptSucceeds(x) PROVE MarkInv'
  <2>1. deployed' = deployed \union logged
    BY <1>6 DEF AttemptSucceeds, Deliver
  <2>2. \A y \in Firers : /\ fire'[y].seen = fire[y].seen
                          /\ fire'[y].pc = IF y = x THEN "mark" ELSE fire[y].pc
    BY <1>6 DEF AttemptSucceeds, TypeInv, TypeOK, Fire
  <2> QED
    BY <1>6, <2>1, <2>2 DEF AttemptSucceeds
<1>7. ASSUME NEW x \in Firers, AttemptFails(x) PROVE MarkInv'
  <2>1. deployed \subseteq deployed'
    BY <1>7 DEF AttemptFails, Deliver
  <2>2. \A y \in Firers : \/ fire'[y] = fire[y]
                          \/ fire'[y].pc \in {"none", "attempt"}
    BY <1>7 DEF AttemptFails, AfterFailure, NoFire, Retry, TypeInv, TypeOK, Fire,
       Firers
  <2> QED
    BY <1>7, <2>1, <2>2 DEF AttemptFails
<1>8. ASSUME NEW x \in Firers, MarkRead(x) PROVE MarkInv'
  BY <1>8 DEF MarkRead, ghosts, TypeInv, TypeOK, Fire
<1>9. ASSUME NEW x \in Firers, MarkWrite(x) PROVE MarkInv'
  BY <1>9 DEF MarkWrite, ghosts, NoFire, TypeInv, TypeOK
<1>10. ASSUME NEW a \in Admins, Arrive(a) \/ Handle(a) PROVE MarkInv'
  <2>1. /\ UNCHANGED <<logged, fire, deployed, skipped>>
        /\ lastFired' = lastFired \/ lastFired' = Never
    BY <1>10 DEF Arrive, Create, BeginUpdate, BeginDelete, Handle, Update,
       Cancel, Get, Delete, Spawn, ghosts
  <2> QED
    BY <2>1
<1> QED
  BY <1>1, <1>2, <1>3, <1>4, <1>5, <1>6, <1>7, <1>8, <1>9, <1>10 DEF Next, Mark

\* A mark never hides from the dirty check a mutation that no webhook was
\* delivered after, outside the window between a delivery and its mark,
\* however calls, retries and crashes interleave.
THEOREM MarkCoversDeployedHolds == Spec => []MarkCoversDeployed
<1>1. Init => MarkInv
  BY DEF Init, NoFire, MarkInv, MarkCoversDeployed
<1>2. MarkInv => MarkCoversDeployed
  BY DEF MarkInv
<1> QED
  BY <1>1, <1>2, MarkStep, TypeInvHolds, PTL DEF Spec

-----------------------------------------------------------------------------
(* Tasks.                                                                  *)

\* The registry and the tasks agree with the row.
Settled ==
  IF AutoOn
  THEN registry # None /\ Live = {registry} /\ task[registry].cfg = row.cfg
  ELSE registry = None /\ Live = {}

\* What is left to do when the only handler at work is about to take a step.
Pending(r) ==
  /\ r.pc = "update" => Settled /\ row # None
  /\ r.pc = "cancel" /\ r.op = "delete" => Settled
  /\ r.pc = "cancel" /\ r.op = "save" =>
       /\ Live \subseteq {registry}
       /\ row # None /\ row = [auto |-> r.auto, cfg |-> r.cfg]
  /\ r.pc = "get" => registry = None /\ Live = {} /\ AutoOn
  /\ r.pc = "spawn" =>
       registry = None /\ Live = {} /\ AutoOn /\ row.cfg = r.cfg
  /\ r.pc = "delete" => registry = None /\ Live = {}

TaskInv ==
  ~collided =>
    /\ \A a, b \in Busy : a = b
    /\ Busy = {} => Settled
    /\ \A a \in Busy : Pending(admin[a])

\* The loop of a task neither starts, cancels nor reconfigures a live task.
LEMMA LoopKeepsLive ==
  ASSUME TypeInv, NEW t \in Tasks, Loop(t)
  PROVE  Live' = Live /\ \A u \in Live : task'[u].cfg = task[u].cfg
<1>1. \A u \in Tasks \ {t} : task'[u] = task[u]
  BY DEF Loop, Check, Wake, Stop, Recheck, Fired, Sleep, TypeInv, TypeOK
<1>2. task[t] \in Task /\ task[t].pc # "none"
  BY DEF Loop, Check, Wake, Stop, Recheck, Fired, TypeInv, TypeOK
<1>3. CASE task[t].cancelled
  <2>1. task'[t].pc = "none" \/ task'[t].cancelled
    BY <1>2, <1>3 DEF Loop, Check, Wake, Stop, Recheck, Fired, Sleep, NoTask,
       Task, TypeInv, TypeOK
  <2> QED
    BY <1>1, <1>3, <2>1 DEF Live
<1>4. CASE ~task[t].cancelled
  <2>1. /\ task'[t].pc # "none" /\ ~task'[t].cancelled
        /\ task'[t].cfg = task[t].cfg
    BY <1>2, <1>4 DEF Loop, Check, Wake, Stop, Recheck, Fired, Sleep,
       Task, TypeInv, TypeOK
  <2> QED
    BY <1>1, <1>2, <1>4, <2>1 DEF Live
<1> QED
  BY <1>3, <1>4

\* A step that leaves the live tasks, the registry, the row and the requests
\* alone keeps TaskInv.
LEMMA TaskFrame ==
  ASSUME TypeInv, TaskInv, Live' = Live,
         \A u \in Live : task'[u].cfg = task[u].cfg,
         UNCHANGED <<row, registry, admin, collided>>
  PROVE  TaskInv'
<1>1. AutoOn' = AutoOn /\ Busy' = Busy
  BY DEF AutoOn, Busy
<1>2. Settled => Settled'
  BY <1>1 DEF Settled, AutoOn
<1>3. ASSUME NEW a \in Admins, Pending(admin[a]) PROVE Pending(admin[a])'
  BY <1>1, <1>2, <1>3 DEF Pending
<1> QED
  BY <1>1, <1>2, <1>3 DEF TaskInv, Busy

\* A request begins: either it is alone, or requests have collided.
LEMMA TaskBegin ==
  ASSUME TypeInv, TaskInv, NEW a \in Admins, NEW new, Begin(a, new),
         UNCHANGED <<task, registry>>,
         Settled /\ row' = row => Settled',
         Busy = {} /\ Settled =>
           IF new.pc = "none" THEN Settled' ELSE Pending(new)'
  PROVE  TaskInv'
<1> SUFFICES ASSUME ~collided'
             PROVE  /\ \A b, c \in Busy' : b = c
                    /\ Busy' = {} => Settled'
                    /\ \A b \in Busy' : Pending(admin[b])'
  BY DEF TaskInv
<1>1. Busy = {} /\ ~collided /\ Settled
  BY DEF Begin, TaskInv, TypeInv, TypeOK
<1>2. \A b \in Admins \ {a} : admin'[b] = admin[b] /\ admin[b].pc = "none"
  BY <1>1 DEF Begin, Busy, TypeInv, TypeOK
<1>3. admin'[a] = new
  BY DEF Begin, TypeInv, TypeOK
<1> QED
  BY <1>1, <1>2, <1>3 DEF Busy

\* A handler that is alone takes a step.
LEMMA TaskHandle ==
  ASSUME TypeInv, TaskInv, NEW a \in Admins, NEW new,
         admin[a].pc # "none", collided' = collided,
         admin' = [admin EXCEPT ![a] = new],
         Pending(admin[a]) =>
           IF new.pc = "none" THEN Settled' ELSE Pending(new)'
  PROVE  TaskInv'
<1> SUFFICES ASSUME ~collided'
             PROVE  /\ \A b, c \in Busy' : b = c
                    /\ Busy' = {} => Settled'
                    /\ \A b \in Busy' : Pending(admin[b])'
  BY DEF TaskInv
<1>1. a \in Busy /\ Pending(admin[a])
  BY DEF Busy, TaskInv
<1>2. \A b \in Admins \ {a} : admin'[b] = admin[b] /\ admin[b].pc = "none"
  BY <1>1 DEF Busy, TaskInv, TypeInv, TypeOK
<1>3. admin'[a] = new
  BY DEF TypeInv, TypeOK
<1> QED
  BY <1>1, <1>2, <1>3 DEF Busy

LEMMA TaskStep == TypeInv /\ TaskInv /\ [Next]_vars => TaskInv'
<1> SUFFICES ASSUME TypeInv, TaskInv, [Next]_vars PROVE TaskInv'
  OBVIOUS
<1>1. CASE UNCHANGED vars
  BY <1>1, TaskFrame DEF vars, ghosts, Live
<1>2. ASSUME NEW m \in Mutations, Log(m) \/ Insert(m) PROVE TaskInv'
  BY <1>2, TaskFrame DEF Log, Insert, ghosts, Live
<1>3. ASSUME NEW t \in Tasks, Loop(t) PROVE TaskInv'
  <2>1. UNCHANGED <<row, registry, admin, collided>>
    BY <1>3 DEF Loop, Check, Wake, Stop, Recheck, Fired, ghosts
  <2> QED
    BY <1>3, <2>1, LoopKeepsLive, TaskFrame
<1>4. ASSUME NEW t \in Tasks, CrashRestart(t) PROVE TaskInv'
  <2>1. Busy' = {}
    BY <1>4 DEF CrashRestart, Busy, NoRequest
  <2>2. Live' = IF AutoOn THEN {t} ELSE {}
    BY <1>4 DEF CrashRestart, StartedTasks, NewTask, NoTask, Live
  <2>3. Settled'
    BY <1>4, <2>2 DEF CrashRestart, StartedTasks, StartedRegistry, NewTask,
       Settled, AutoOn
  <2> QED
    BY <2>1, <2>3 DEF TaskInv
<1>5. ASSUME NEW c \in Clients, ManualFire(c) PROVE TaskInv'
  BY <1>5, TaskFrame DEF ManualFire, Live
<1>6. ASSUME NEW x \in Firers,
             AttemptSucceeds(x) \/ AttemptFails(x) \/ Mark(x)
      PROVE  TaskInv'
  BY <1>6, TaskFrame DEF AttemptSucceeds, AttemptFails, Mark, MarkRead,
     MarkWrite, ghosts, Live
<1>7. ASSUME NEW a \in Admins, Arrive(a) PROVE TaskInv'
  <2>1. ASSUME NEW auto \in BOOLEAN, NEW cfg \in Configs, Create(a, auto, cfg)
        PROVE  TaskInv'
    <3>1. row = None /\ row' = [auto |-> auto, cfg |-> cfg]
      BY <2>1 DEF Create, TypeInv
    <3>2. Settled => registry' = None /\ Live' = {}
      BY <2>1, <3>1 DEF Create, Settled, AutoOn, Live
    <3>3. AutoOn' = auto /\ row'.cfg = cfg
      BY <3>1 DEF AutoOn, Deployment
    <3> DEFINE new == [NoRequest EXCEPT !.pc = IF auto THEN "spawn" ELSE "none",
                                        !.cfg = IF auto THEN cfg ELSE None]
    <3>4. Begin(a, new) /\ UNCHANGED <<task, registry>>
      BY <2>1 DEF Create
    <3>5. Settled => IF new.pc = "none" THEN Settled' ELSE Pending(new)'
      BY <3>2, <3>3 DEF NoRequest, Pending, Settled
    <3>6. row' # row
      BY <3>1
    <3> QED
      BY <3>4, <3>5, <3>6, TaskBegin
  <2>2. ASSUME NEW auto \in BOOLEAN, NEW cfg \in Configs,
               BeginUpdate(a, auto, cfg)
        PROVE  TaskInv'
    <3> DEFINE new == [pc |-> "update", auto |-> auto, cfg |-> cfg, op |-> "save"]
    <3>1. Begin(a, new) /\ UNCHANGED <<row, task, registry>> /\ row # None
      BY <2>2 DEF BeginUpdate
    <3>2. Settled => Settled'
      BY <3>1 DEF Settled, AutoOn, Live
    <3>3. Settled => Pending(new)'
      BY <3>1, <3>2 DEF Pending
    <3> QED
      BY <3>1, <3>2, <3>3, TaskBegin
  <2>3. ASSUME BeginDelete(a) PROVE TaskInv'
    <3> DEFINE new == [NoRequest EXCEPT !.pc = "cancel", !.op = "delete"]
    <3>1. Begin(a, new) /\ UNCHANGED <<row, task, registry>>
      BY <2>3 DEF BeginDelete
    <3>2. Settled => Settled'
      BY <3>1 DEF Settled, AutoOn, Live
    <3>3. Settled => Pending(new)'
      BY <3>1, <3>2 DEF Pending, NoRequest
    <3> QED
      BY <3>1, <3>2, <3>3, TaskBegin DEF NoRequest
  <2> QED
    BY <1>7, <2>1, <2>2, <2>3 DEF Arrive
<1>8. ASSUME NEW a \in Admins, Handle(a) PROVE TaskInv'
  <2>1. /\ admin[a] \in Admin /\ collided' = collided
        /\ admin[a].pc = "update" =>
             admin[a].op = "save" /\ admin[a].cfg \in Configs
    BY <1>8 DEF Handle, Update, Cancel, Get, Delete, Spawn, ghosts,
       TypeInv, RequestOK
  <2>2. CASE Update(a)
    <3>1. PICK new : new = [admin[a] EXCEPT !.pc = "cancel"]
      OBVIOUS
    <3>2. /\ admin[a].pc = "update" /\ admin' = [admin EXCEPT ![a] = new]
          /\ UNCHANGED <<task, registry>>
      BY <2>2, <3>1 DEF Update, Goto
    <3>3. ASSUME Pending(admin[a]) PROVE Pending(new)'
      <4>1. row # None /\ Settled
        BY <3>2, <3>3 DEF Pending
      <4>2. Live' \subseteq {registry'}
        BY <3>2, <4>1 DEF Live, Settled
      <4>3. /\ row' = [auto |-> admin[a].auto, cfg |-> admin[a].cfg]
            /\ row' # None
        <5>1. row' = [auto |-> admin[a].auto, cfg |-> admin[a].cfg]
          BY <2>2, <4>1 DEF Update
        <5>2. row' \in Deployment
          BY <2>1, <3>2, <5>1 DEF Admin, Deployment
        <5> QED
          BY <5>1, <5>2 DEF Deployment
      <4>4. /\ new.pc = "cancel" /\ new.op = "save"
            /\ new.auto = admin[a].auto /\ new.cfg = admin[a].cfg
        BY <2>1, <3>1, <3>2 DEF Admin
      <4> QED
        BY <4>2, <4>3, <4>4 DEF Pending
    <3>4. new.pc = "cancel"
      BY <2>1, <3>1 DEF Admin
    <3> QED
      BY <2>1, <3>2, <3>3, <3>4, TaskHandle
  <2>3. CASE Cancel(a)
    <3>1. admin[a].pc = "cancel" /\ registry' = None /\ row' = row
      BY <2>3 DEF Cancel
    <3>2. Live' = Live \ {registry}
      BY <2>3 DEF Cancel, Live, Task, TypeInv, TypeOK
    <3>3. CASE admin[a].op = "delete"
      <4>1. PICK new : new = [admin[a] EXCEPT !.pc = "delete"]
        OBVIOUS
      <4>2. admin' = [admin EXCEPT ![a] = new]
        BY <2>3, <3>3, <4>1 DEF Cancel, AfterCancel, Goto
      <4>3. new.pc = "delete"
        BY <2>1, <4>1 DEF Admin
      <4>4. ASSUME Pending(admin[a]) PROVE Pending(new)'
        <5>1. Live' = {}
          BY <3>1, <3>2, <3>3, <4>4 DEF Pending, Settled
        <5> QED
          BY <3>1, <4>3, <5>1 DEF Pending
      <4> QED
        BY <2>1, <3>1, <4>2, <4>3, <4>4, TaskHandle
    <3>4. CASE admin[a].op # "delete"
      <4>1. admin[a].op = "save"
        BY <2>1, <3>4 DEF Admin
      <4>2. ASSUME Pending(admin[a])
            PROVE  /\ Live' = {} /\ row # None
                   /\ row = [auto |-> admin[a].auto, cfg |-> admin[a].cfg]
        BY <3>1, <3>2, <4>1, <4>2 DEF Pending
      <4>3. ASSUME row # None,
                   row = [auto |-> admin[a].auto, cfg |-> admin[a].cfg]
            PROVE  /\ admin[a].auto => AutoOn'
                   /\ ~admin[a].auto => ~AutoOn'
        <5>1. row.auto = admin[a].auto
          BY <4>3
        <5> QED
          BY <3>1, <4>3, <5>1, Zenon DEF AutoOn
      <4>4. CASE admin[a].auto
        <5>1. PICK new : new = [admin[a] EXCEPT !.pc = "get"]
          OBVIOUS
        <5>2. admin' = [admin EXCEPT ![a] = new]
          BY <2>3, <3>4, <4>4, <5>1 DEF Cancel, AfterCancel, Goto
        <5>3. new.pc = "get"
          BY <2>1, <5>1 DEF Admin
        <5>4. ASSUME Pending(admin[a]) PROVE Pending(new)'
          BY <3>1, <4>2, <4>3, <4>4, <5>3, <5>4 DEF Pending
        <5> QED
          BY <2>1, <3>1, <5>2, <5>3, <5>4, TaskHandle
      <4>5. CASE ~admin[a].auto
        <5>1. admin' = [admin EXCEPT ![a] = NoRequest]
          BY <2>3, <3>4, <4>5 DEF Cancel, AfterCancel, Done
        <5>2. ASSUME Pending(admin[a]) PROVE Settled'
          BY <3>1, <4>2, <4>3, <4>5, <5>2 DEF Settled
        <5> QED
          BY <2>1, <3>1, <5>1, <5>2, TaskHandle DEF NoRequest
      <4> QED
        BY <4>4, <4>5
    <3> QED
      BY <3>3, <3>4
  <2>4. CASE Get(a)
    <3>1. admin[a].pc = "get" /\ UNCHANGED <<row, task, registry>>
      BY <2>4 DEF Get
    <3>2. CASE row = None
      <4>1. admin' = [admin EXCEPT ![a] = NoRequest]
        BY <2>4, <3>2 DEF Get, Done
      <4>2. ~Pending(admin[a])
        BY <3>1, <3>2 DEF Pending, AutoOn
      <4> QED
        BY <2>1, <3>1, <4>1, <4>2, TaskHandle DEF NoRequest
    <3>3. CASE row # None
      <4>1. PICK new : new = [admin[a] EXCEPT !.pc = "spawn", !.cfg = row.cfg]
        OBVIOUS
      <4>2. admin' = [admin EXCEPT ![a] = new]
        BY <2>4, <3>3, <4>1 DEF Get
      <4>3. new.pc = "spawn" /\ new.cfg = row.cfg
        BY <2>1, <4>1 DEF Admin
      <4>4. ASSUME Pending(admin[a]) PROVE Pending(new)'
        <5>1. registry = None /\ Live = {} /\ AutoOn
          BY <3>1, <4>4 DEF Pending
        <5>2. Live' = Live /\ AutoOn' = AutoOn
          BY <3>1 DEF Live, AutoOn
        <5> QED
          BY <3>1, <4>3, <5>1, <5>2 DEF Pending
      <4> QED
        BY <2>1, <3>1, <4>2, <4>3, <4>4, TaskHandle
    <3> QED
      BY <3>2, <3>3
  <2>5. CASE Delete(a)
    <3>1. /\ admin[a].pc = "delete" /\ row' = None
          /\ admin' = [admin EXCEPT ![a] = NoRequest]
          /\ UNCHANGED <<task, registry>>
      BY <2>5 DEF Delete, Done
    <3>2. ASSUME Pending(admin[a]) PROVE Settled'
      BY <3>1, <3>2 DEF Pending, Settled, AutoOn, Live
    <3> QED
      BY <2>1, <3>1, <3>2, TaskHandle DEF NoRequest
  <2>6. ASSUME NEW t \in Tasks, Spawn(a, t) PROVE TaskInv'
    <3>1. /\ admin[a].pc = "spawn" /\ registry' = t /\ row' = row
          /\ admin' = [admin EXCEPT ![a] = NoRequest]
          /\ task' = [task EXCEPT ![t] = NewTask(admin[a].cfg)]
      BY <2>6 DEF Spawn, Done
    <3>2. ASSUME Pending(admin[a]) PROVE Settled'
      <4>1. Live = {} /\ AutoOn /\ row.cfg = admin[a].cfg
        BY <3>1, <3>2 DEF Pending
      <4>2. task'[t] = NewTask(admin[a].cfg)
        BY <3>1 DEF TypeInv, TypeOK
      <4>3. \A u \in Tasks \ {t} : task'[u] = task[u]
        BY <3>1 DEF TypeInv, TypeOK
      <4>4. Live' = {t}
        BY <4>1, <4>2, <4>3 DEF Live, NewTask
      <4>5. AutoOn'
        BY <3>1, <4>1 DEF AutoOn
      <4> QED
        BY <3>1, <4>1, <4>2, <4>4, <4>5 DEF Settled, NewTask
    <3> QED
      BY <2>1, <3>1, <3>2, TaskHandle DEF NoRequest
  <2> QED
    BY <1>8, <2>2, <2>3, <2>4, <2>5, <2>6 DEF Handle
<1> QED
  BY <1>1, <1>2, <1>3, <1>4, <1>5, <1>6, <1>7, <1>8 DEF Next

\* While administrators' requests do not overlap, exactly the task that the
\* registry can cancel runs, configured as the row says, when the deployment
\* auto-deploys, and none otherwise: through every interleaving of handlers,
\* tasks, webhook calls and crashes.
THEOREM TaskPerDeploymentHolds == Spec => []TaskPerDeployment
<1>1. Init => TaskInv
  <2> SUFFICES ASSUME Init PROVE TaskInv
    OBVIOUS
  <2>1. PICK t \in Tasks : task = StartedTasks(t) /\ registry = StartedRegistry(t)
    BY DEF Init
  <2>2. Live = IF AutoOn THEN {t} ELSE {}
    BY <2>1 DEF StartedTasks, NewTask, NoTask, Live
  <2>3. Settled
    BY <2>1, <2>2 DEF StartedTasks, StartedRegistry, NewTask, Settled
  <2>4. Busy = {}
    BY DEF Init, Busy, NoRequest
  <2> QED
    BY <2>3, <2>4 DEF TaskInv
<1>2. TaskInv => TaskPerDeployment
  BY DEF TaskInv, TaskPerDeployment, Settled
<1> QED
  BY <1>1, <1>2, TaskStep, TypeInvHolds, PTL DEF Spec
=============================================================================
