------------------------ MODULE ContentStore_proofs ------------------------
(***************************************************************************)
(* Theorems about ContentStore for every set of workers, entries, bodies   *)
(* and uploads, and every bound.                                           *)
(***************************************************************************)
EXTENDS ContentStore, TLAPS

SetsStatus == {"publish", "unpublish"}
DeleteSteps == {"exists", "unlink", "purge", "uncache"}

\* The operation and the data of a request that got as far as a given step.
StepOK(r) ==
  /\ r.pc # "idle" => r.id \in Ids /\ r.op \in AllOps
  /\ r.op \in Saves => r.body \in Bodies
  /\ r.pc \in {"validate", "refs"} => r.op \in Creates \union Updates
  /\ r.pc \in {"current", "snapshot", "status"} => r.op \in Saves
  /\ r.pc \in {"truncate", "write"} => r.body \in Bodies
  /\ r.pc = "snapshot" => r.held \in Doc
  /\ r.pc = "rmw" => r.op \in SetsStatus
  /\ r.pc \in DeleteSteps <=> r.op = "delete"

TypeInv == TypeOK /\ \A w \in Workers : StepOK(req[w])

USE DataAssumption, BoundAssumption, SentinelAssumption

LEMMA ResolvedType ==
  ASSUME NEW explicit \in Explicit, NEW file
  PROVE  Resolve(explicit, file) \in {"draft", "published"}
BY DEF Resolve, Explicit, Statuses, Doc

\* An idle worker is well typed.
LEMMA IdleType == Idle \in Request /\ StepOK(Idle)
BY DEF Idle, Request, StepOK, Steps, Explicit, Statuses, AllOps,
   Saves, Creates, Updates, DeleteSteps

\* A request that is about to truncate the file for a body.
LEMMA TruncateType ==
  ASSUME NEW r \in Request, NEW body \in Bodies
  PROVE  [r EXCEPT !.pc = "truncate", !.body = body] \in Request
BY DEF Request, Steps

\* Or with a status.
LEMMA TruncateStatus ==
  ASSUME NEW r \in Request, NEW status \in Statuses
  PROVE  [r EXCEPT !.pc = "truncate", !.status = status] \in Request
BY DEF Request, Steps

\* A step of one worker keeps the requests well typed when the new state of
\* that worker is.
LEMMA OneMoves ==
  ASSUME TypeInv, NEW w \in Workers, NEW r \in Request, StepOK(r),
         req' = [req EXCEPT ![w] = r]
  PROVE  /\ req' \in [Workers -> Request]
         /\ \A v \in Workers : StepOK(req'[v])
BY DEF TypeInv, TypeOK

\* So does the arrival of a request.
LEMMA BeginType ==
  ASSUME TypeInv, NEW w \in Workers, NEW op \in AllOps, NEW id \in Ids,
         NEW pc \in Steps, NEW body \in Bodies \union {None},
         NEW explicit \in Explicit, NEW status \in Statuses,
         Begin(w, op, id, pc, body, explicit, status),
         UNCHANGED <<disk, cache, history>>,
         refs' \in [Ids -> SUBSET Hashes],
         op \in Saves => body \in Bodies,
         pc = "validate" => op \in Creates \union Updates,
         pc = "current" => op = "revert",
         pc \in {"validate", "current", "rmw", "exists"},
         pc = "rmw" <=> op \in SetsStatus, pc = "exists" <=> op = "delete"
  PROVE  TypeInv'
<1> DEFINE new == [pc |-> pc, op |-> op, id |-> id, body |-> body,
                 explicit |-> explicit, status |-> status,
                 held |-> None, solo |-> InFlight(id) = {}]
<1>1. new \in Request /\ StepOK(new)
  BY DEF Request, StepOK, Saves, Creates, Updates, DeleteSteps
<1>2. ASSUME NEW v \in Workers
      PROVE  /\ [req[v] EXCEPT !.solo = FALSE] \in Request
             /\ StepOK([req[v] EXCEPT !.solo = FALSE])
  <2>1. req[v] \in Request /\ StepOK(req[v])
    BY DEF TypeInv, TypeOK
  <2>2. [req[v] EXCEPT !.solo = FALSE] \in Request
    BY <2>1 DEF Request
  <2>3. StepOK([req[v] EXCEPT !.solo = FALSE])
    BY <2>1 DEF Request, StepOK
  <2> QED
    BY <2>2, <2>3
<1>3. \A v \in Workers : req'[v] \in Request /\ StepOK(req'[v])
  BY <1>1, <1>2 DEF Begin, TypeInv, TypeOK
<1>4. req' \in [Workers -> Request]
  BY <1>3 DEF Begin
<1> QED
  BY <1>3, <1>4 DEF Begin, TypeInv, TypeOK, ghosts

\* TypeInv is inductive.
LEMMA TypeInvStep == TypeInv /\ [Next]_vars => TypeInv'
<1> SUFFICES ASSUME TypeInv, [Next]_vars PROVE TypeInv'
  OBVIOUS
<1> USE DEF AllOps, Saves, Creates, Updates, SetsStatus, DeleteSteps
<1> USE DEF Statuses, Explicit, Steps
<1>1. CASE UNCHANGED vars
  BY <1>1 DEF vars, ghosts, TypeInv, TypeOK, StepOK
<1>2. CASE CrashRestart
  <2>1. Populate(disk) \in [Ids -> Doc \union {None}]
    BY DEF Populate, TypeInv, TypeOK
  <2> QED
    BY <1>2, <2>1, IdleType DEF CrashRestart, TypeInv, TypeOK
<1>3. ASSUME NEW w \in Workers, NEW op \in Ops, NEW id \in Ids,
              NEW body \in Bodies, NEW explicit \in Explicit,
              BeginCreate(w, op, id, body, explicit)
       PROVE  TypeInv'
  <2>1. Resolve(explicit, None) \in Statuses
    BY ResolvedType
  <2>2. refs' \in [Ids -> SUBSET Hashes]
    BY <1>3 DEF BeginCreate, TypeInv, TypeOK
  <2> QED
    BY <1>3, <2>1, <2>2, BeginType DEF BeginCreate
<1>4. ASSUME NEW w \in Workers, NEW op \in Ops, NEW id \in Ids,
              NEW body \in Bodies, NEW explicit \in Explicit,
              BeginUpdate(w, op, id, body, explicit)
       PROVE  TypeInv'
  <2>1. Resolve(explicit, disk[id]) \in Statuses
    BY ResolvedType
  <2>2. refs' \in [Ids -> SUBSET Hashes]
    BY <1>4 DEF BeginUpdate, TypeInv, TypeOK
  <2> QED
    BY <1>4, <2>1, <2>2, BeginType DEF BeginUpdate
<1>5. ASSUME NEW w \in Workers, NEW id \in Ids,
              BeginPublish(w, id)
       PROVE  TypeInv'
  <2>2. refs' \in [Ids -> SUBSET Hashes]
    BY <1>5 DEF BeginPublish, TypeInv, TypeOK
  <2> QED
    BY <1>5, <2>2, BeginType DEF BeginPublish
<1>6. ASSUME NEW w \in Workers, NEW id \in Ids,
              BeginUnpublish(w, id)
       PROVE  TypeInv'
  <2>2. refs' \in [Ids -> SUBSET Hashes]
    BY <1>6 DEF BeginUnpublish, TypeInv, TypeOK
  <2> QED
    BY <1>6, <2>2, BeginType DEF BeginUnpublish
<1>7. ASSUME NEW w \in Workers, NEW id \in Ids,
              BeginDelete(w, id)
       PROVE  TypeInv'
  <2>2. refs' \in [Ids -> SUBSET Hashes]
    BY <1>7 DEF BeginDelete, TypeInv, TypeOK
  <2> QED
    BY <1>7, <2>2, BeginType DEF BeginDelete
<1>8. ASSUME NEW w \in Workers, NEW id \in Ids, NEW version \in history[id],
              BeginRevert(w, id, version)
       PROVE  TypeInv'
  <2>1. version \in Version
    BY DEF TypeInv, TypeOK
  <2>2. refs' \in [Ids -> SUBSET Hashes]
    BY <1>8 DEF BeginRevert, TypeInv, TypeOK
  <2> QED
    BY <1>8, <2>1, <2>2, BeginType DEF BeginRevert, Version, Doc
<1>9. ASSUME NEW w \in Workers, Validate(w) PROVE TypeInv'
  <2>1. req[w] \in Request /\ StepOK(req[w])
    BY DEF TypeInv, TypeOK
  <2> DEFINE next == [req[w] EXCEPT !.pc = IF req[w].op \in Creates
                                     THEN "status" ELSE "current"]
  <2>2. next \in Request /\ StepOK(next)
    BY <1>9, <2>1 DEF Validate, Request, StepOK, Doc
  <2>3. req' = [req EXCEPT ![w] = next] \/ req' = [req EXCEPT ![w] = Idle]
    BY <1>9 DEF Validate, Goto, Finish
  <2>4. req' \in [Workers -> Request] /\ \A v \in Workers : StepOK(req'[v])
    BY <2>2, <2>3, OneMoves, IdleType
  <2> QED
    BY <1>9, <2>1, <2>4 DEF Validate, ghosts, Request, TypeInv, TypeOK
<1>10. ASSUME NEW w \in Workers, ReadCurrent(w) PROVE TypeInv'
  <2>1. req[w] \in Request /\ StepOK(req[w])
    BY DEF TypeInv, TypeOK
  <2>2. ASSUME disk[req[w].id] \in Doc /\ MaxVersions > 0, req[w].pc = "current"
       PROVE  req' \in [Workers -> Request] /\ \A v \in Workers : StepOK(req'[v])
    <3> DEFINE next == [req[w] EXCEPT !.pc = "snapshot", !.held = disk[req[w].id]]
    <3>1. next \in Request /\ StepOK(next)
      <4>1. next \in Request
        BY <2>1, <2>2 DEF Request, Doc, Steps, TypeInv, TypeOK
      <4>2. StepOK(next)
        BY <2>1, <2>2 DEF Request, StepOK, DeleteSteps
      <4> QED
        BY <4>1, <4>2
    <3>2. req' = [req EXCEPT ![w] = next]
      BY <1>10, <2>2 DEF ReadCurrent
    <3> QED
      BY <3>1, <3>2, OneMoves
  <2>3. ASSUME ~(disk[req[w].id] \in Doc /\ MaxVersions > 0), req[w].pc = "current"
       PROVE  req' \in [Workers -> Request] /\ \A v \in Workers : StepOK(req'[v])
    <3> DEFINE next == [req[w] EXCEPT !.pc = "status", !.held = None]
    <3>1. next \in Request /\ StepOK(next)
      <4>1. next \in Request
        BY <2>1, <2>3 DEF Request, Doc, Steps, TypeInv, TypeOK
      <4>2. StepOK(next)
        BY <2>1, <2>3 DEF Request, StepOK, DeleteSteps
      <4> QED
        BY <4>1, <4>2
    <3>2. req' = [req EXCEPT ![w] = next]
      BY <1>10, <2>3 DEF ReadCurrent
    <3> QED
      BY <3>1, <3>2, OneMoves
  <2> QED
    BY <1>10, <2>1, <2>2, <2>3 DEF ReadCurrent, ghosts, Request, StepOK, TypeInv, TypeOK
<1>11. ASSUME NEW w \in Workers, Snapshot(w) PROVE TypeInv'
  <2> DEFINE next == [req[w] EXCEPT !.pc = "status", !.held = None]
  <2>1. req[w] \in Request /\ StepOK(req[w]) /\ req[w].pc = "snapshot"
    BY <1>11 DEF Snapshot, TypeInv, TypeOK
  <2>2. next \in Request /\ StepOK(next)
    BY <2>1 DEF Request, Steps, StepOK, DeleteSteps
  <2>3. req' = [req EXCEPT ![w] = next]
    BY <1>11 DEF Snapshot, Goto
  <2>4. req' \in [Workers -> Request] /\ \A v \in Workers : StepOK(req'[v])
    BY <2>2, <2>3, OneMoves
  <2> HIDE DEF next
  <2>5. req[w].held \in Doc /\ req[w].id \in Ids
    BY <2>1 DEF StepOK
  <2>6. \A now \in 0..MaxClock : [ts |-> now, doc |-> req[w].held] \in Version
    BY <2>5 DEF Version
  <2>7. history' \in [Ids -> SUBSET Version] /\ postdated' \subseteq Ids
    BY <1>11, <2>5, <2>6 DEF Snapshot, WithVersion, Newest, TypeInv, TypeOK
  <2> QED
    BY <1>11, <2>4, <2>7 DEF Snapshot, TypeInv, TypeOK
<1>12. ASSUME NEW w \in Workers, SaveStatus(w) PROVE TypeInv'
  <2>1. req[w] \in Request /\ StepOK(req[w])
    BY DEF TypeInv, TypeOK
  <2>2. PICK status \in Statuses :
          req' = [req EXCEPT ![w] = [req[w] EXCEPT !.pc = "truncate",
                                                   !.status = status]]
    <3> DEFINE kept == Resolve(req[w].explicit,
                         IF req[w].op \in Creates THEN None ELSE disk[req[w].id])
    <3>1. kept \in Statuses
      BY <2>1, ResolvedType DEF Request
    <3>2. req' = [req EXCEPT ![w] = [req[w] EXCEPT !.pc = "truncate",
                                                   !.status = kept]]
      BY <1>12 DEF SaveStatus
    <3> QED
      BY <3>1, <3>2
  <2> DEFINE next == [req[w] EXCEPT !.pc = "truncate", !.status = status]
  <2>3. next \in Request /\ StepOK(next)
    <3>1. next \in Request
      BY <2>1, TruncateStatus
    <3>2. next.pc = "truncate" /\ next.op = req[w].op /\ next.body = req[w].body
          /\ next.id = req[w].id /\ req[w].pc = "status"
      BY <1>12, <2>1 DEF SaveStatus, Request
    <3> HIDE DEF next
    <3>3. StepOK(next)
      BY <2>1, <3>2 DEF StepOK, DeleteSteps
    <3> QED
      BY <3>1, <3>3
  <2>4. req' \in [Workers -> Request] /\ \A v \in Workers : StepOK(req'[v])
    BY <2>2, <2>3, OneMoves
  <2> HIDE DEF next
  <2> QED
    BY <1>12, <2>4 DEF SaveStatus, ghosts, TypeInv, TypeOK
<1>13. ASSUME NEW w \in Workers, ReadForStatus(w) PROVE TypeInv'
  <2>1. req[w] \in Request /\ StepOK(req[w])
    BY DEF TypeInv, TypeOK
  <2>2. ASSUME disk[req[w].id] \in Doc, req[w].pc = "rmw"
       PROVE  req' \in [Workers -> Request] /\ \A v \in Workers : StepOK(req'[v])
    <3> DEFINE next == [req[w] EXCEPT !.pc = "truncate", !.body = disk[req[w].id].body]
    <3>1. next \in Request /\ StepOK(next)
      <4>1. disk[req[w].id].body \in Bodies
        BY <2>2 DEF Doc
      <4>2. next \in Request
        <5>1. PICK body \in Bodies : body = disk[req[w].id].body
          BY <4>1
        <5>2. next = [req[w] EXCEPT !.pc = "truncate", !.body = body]
          BY <5>1
        <5> HIDE DEF next
        <5> QED
          BY <2>1, <5>1, <5>2, TruncateType, Zenon
      <4>3. next.pc = "truncate" /\ next.op = req[w].op /\ next.body \in Bodies
            /\ next.id = req[w].id
        BY <2>1, <4>1 DEF Request
      <4> HIDE DEF next
      <4>4. StepOK(next)
        BY <2>1, <2>2, <4>3 DEF StepOK, DeleteSteps
      <4> QED
        BY <4>2, <4>4
    <3>2. req' = [req EXCEPT ![w] = next]
      BY <1>13, <2>2 DEF ReadForStatus, Finish
    <3> QED
      BY <3>1, <3>2, OneMoves
  <2>3. ASSUME disk[req[w].id] \notin Doc
       PROVE  req' \in [Workers -> Request] /\ \A v \in Workers : StepOK(req'[v])
    BY <1>13, <2>3, OneMoves, IdleType DEF ReadForStatus, Finish
  <2> QED
    BY <1>13, <2>1, <2>2, <2>3 DEF ReadForStatus, ghosts, Request, StepOK, TypeInv, TypeOK
<1>14. ASSUME NEW w \in Workers, Truncate(w) PROVE TypeInv'
  <2> DEFINE next == [req[w] EXCEPT !.pc = "write"]
  <2>1. req[w] \in Request /\ StepOK(req[w]) /\ req[w].pc = "truncate"
    BY <1>14 DEF Truncate, TypeInv, TypeOK
  <2>2. next \in Request /\ StepOK(next)
    BY <2>1 DEF Request, Steps, StepOK, DeleteSteps
  <2>3. req' = [req EXCEPT ![w] = next]
    BY <1>14 DEF Truncate, Goto
  <2>4. req' \in [Workers -> Request] /\ \A v \in Workers : StepOK(req'[v])
    BY <2>2, <2>3, OneMoves
  <2>5. req[w].id \in Ids
    BY <2>1 DEF StepOK
  <2>6. disk' \in [Ids -> Doc \union {None, Torn}] /\ unchecked' \subseteq Ids
    BY <1>14, <2>5 DEF Truncate, TypeInv, TypeOK
  <2> QED
    BY <1>14, <2>4, <2>6 DEF Truncate, TypeInv, TypeOK
<1>15. ASSUME NEW w \in Workers, Write(w) PROVE TypeInv'
  <2>1. req[w] \in Request /\ StepOK(req[w])
    BY DEF TypeInv, TypeOK
  <2>2. ASSUME req[w].pc = "write"
       PROVE  req' \in [Workers -> Request] /\ \A v \in Workers : StepOK(req'[v])
    <3> DEFINE next == [req[w] EXCEPT !.pc = "reload"]
    <3>1. next \in Request /\ StepOK(next)
      <4>1. next \in Request
        BY <2>1, <2>2 DEF Request, Doc, Steps, TypeInv, TypeOK
      <4>2. StepOK(next)
        BY <2>1, <2>2 DEF Request, StepOK, DeleteSteps
      <4> QED
        BY <4>1, <4>2
    <3>2. req' = [req EXCEPT ![w] = next]
      BY <1>15, <2>2 DEF Write, Goto
    <3> QED
      BY <3>1, <3>2, OneMoves
  <2> QED
    BY <1>15, <2>1, <2>2 DEF Write, Doc, ghosts, Request, StepOK, TypeInv, TypeOK
<1>16. ASSUME NEW w \in Workers, WriteUnlinked(w) PROVE TypeInv'
  BY <1>16 DEF WriteUnlinked, Goto, ghosts, Request, TypeInv, TypeOK, StepOK
<1>17. ASSUME NEW w \in Workers, ReloadRead(w) PROVE TypeInv'
  <2>1. req[w] \in Request /\ StepOK(req[w])
    BY DEF TypeInv, TypeOK
  <2>2. ASSUME disk[req[w].id] = Torn, req[w].op \in {"create", "update"},
               req[w].pc = "reload"
       PROVE  req' \in [Workers -> Request] /\ \A v \in Workers : StepOK(req'[v])
    <3> DEFINE next == [req[w] EXCEPT !.pc = "refs", !.held = None]
    <3>1. next \in Request /\ StepOK(next)
      <4>1. next \in Request
        BY <2>1, <2>2 DEF Request, Doc, Steps, TypeInv, TypeOK
      <4>2. StepOK(next)
        BY <2>1, <2>2 DEF Request, StepOK, DeleteSteps
      <4> QED
        BY <4>1, <4>2
    <3>2. req' = [req EXCEPT ![w] = next]
      BY <1>17, <2>2 DEF ReloadRead, AfterReload, Finish
    <3> QED
      BY <3>1, <3>2, OneMoves
  <2>3. ASSUME disk[req[w].id] = Torn, req[w].op \notin {"create", "update"}
       PROVE  req' \in [Workers -> Request] /\ \A v \in Workers : StepOK(req'[v])
    BY <1>17, <2>3, OneMoves, IdleType DEF ReloadRead, AfterReload, Finish
  <2>4. ASSUME disk[req[w].id] # Torn, req[w].pc = "reload"
       PROVE  req' \in [Workers -> Request] /\ \A v \in Workers : StepOK(req'[v])
    <3> DEFINE next == [req[w] EXCEPT !.pc = "cache", !.held = disk[req[w].id]]
    <3> disk[req[w].id] \in Doc \union {None}
      BY <2>1, <2>4 DEF StepOK, TypeInv, TypeOK
    <3>1. next \in Request /\ StepOK(next)
      BY <2>1, <2>4 DEF Request, StepOK
    <3>2. req' = [req EXCEPT ![w] = next]
      BY <1>17, <2>4 DEF ReloadRead, AfterReload, Finish
    <3> QED
      BY <3>1, <3>2, OneMoves
  <2> QED
    BY <1>17, <2>1, <2>2, <2>3, <2>4 DEF ReloadRead, ghosts, Request, StepOK, TypeInv, TypeOK
<1>18. ASSUME NEW w \in Workers, ReloadApply(w) PROVE TypeInv'
  <2>1. req[w] \in Request /\ StepOK(req[w])
    BY DEF TypeInv, TypeOK
  <2>2. ASSUME req[w].op \in {"create", "update"}, req[w].pc = "cache"
       PROVE  req' \in [Workers -> Request] /\ \A v \in Workers : StepOK(req'[v])
    <3> DEFINE next == [req[w] EXCEPT !.pc = "refs", !.held = None]
    <3>1. next \in Request /\ StepOK(next)
      <4>1. next \in Request
        BY <2>1, <2>2 DEF Request, Doc, Steps, TypeInv, TypeOK
      <4>2. StepOK(next)
        BY <2>1, <2>2 DEF Request, StepOK, DeleteSteps
      <4> QED
        BY <4>1, <4>2
    <3>2. req' = [req EXCEPT ![w] = next]
      BY <1>18, <2>2 DEF ReloadApply, AfterReload, Finish
    <3> QED
      BY <3>1, <3>2, OneMoves
  <2>3. ASSUME req[w].op \notin {"create", "update"}
       PROVE  req' \in [Workers -> Request] /\ \A v \in Workers : StepOK(req'[v])
    BY <1>18, <2>3, OneMoves, IdleType DEF ReloadApply, AfterReload, Finish
  <2> QED
    BY <1>18, <2>1, <2>2, <2>3 DEF ReloadApply, ghosts, Request, StepOK, TypeInv, TypeOK
<1>19. ASSUME NEW w \in Workers, UpdateReferences(w) PROVE TypeInv'
  <2>1. req[w] \in Request /\ StepOK(req[w])
    BY DEF TypeInv, TypeOK
  <2>2. req' = [req EXCEPT ![w] = Idle]
    BY <1>19 DEF UpdateReferences, Finish
  <2>3. req' \in [Workers -> Request] /\ \A v \in Workers : StepOK(req'[v])
    BY <2>2, OneMoves, IdleType
  <2> QED
    BY <1>19, <2>1, <2>3 DEF UpdateReferences, ghosts, Request, StepOK, TypeInv, TypeOK
<1>20. ASSUME NEW w \in Workers, Unlink(w) PROVE TypeInv'
  <2>1. ASSUME NEW v \in Workers
        PROVE  req'[v] \in Request /\ StepOK(req'[v])
    <3>1. req[v] \in Request /\ StepOK(req[v])
      BY DEF TypeInv, TypeOK
    <3>2. \/ req'[v] = req[v]
          \/ /\ v = w /\ req[v].pc = "unlink"
             /\ req'[v] = [req[v] EXCEPT !.pc = "purge"]
          \/ /\ req[v].pc = "write"
             /\ req'[v] = [req[v] EXCEPT !.pc = "unlinked"]
      BY <1>20 DEF Unlink
    <3> QED
      BY <3>1, <3>2 DEF Request, StepOK
  <2>2. req' \in [Workers -> Request]
    BY <1>20, <2>1 DEF Unlink
  <2> QED
    BY <1>20, <2>1, <2>2 DEF Unlink, ghosts, TypeInv, TypeOK
<1>21. ASSUME NEW w \in Workers, Purge(w) PROVE TypeInv'
  <2> DEFINE next == [req[w] EXCEPT !.pc = "uncache"]
  <2>1. req[w] \in Request /\ StepOK(req[w]) /\ req[w].pc = "purge"
    BY <1>21 DEF Purge, TypeInv, TypeOK
  <2>2. next \in Request /\ StepOK(next)
    BY <2>1 DEF Request, Steps, StepOK, DeleteSteps
  <2>3. req' = [req EXCEPT ![w] = next]
    BY <1>21 DEF Purge, Goto
  <2>4. req' \in [Workers -> Request] /\ \A v \in Workers : StepOK(req'[v])
    BY <2>2, <2>3, OneMoves
  <2> HIDE DEF next
  <2> QED
    BY <1>21, <2>1, <2>4 DEF Purge, ghosts, TypeInv, TypeOK
<1>22. ASSUME NEW w \in Workers, Uncache(w) PROVE TypeInv'
  <2>1. req[w] \in Request /\ StepOK(req[w])
    BY DEF TypeInv, TypeOK
  <2>2. req' = [req EXCEPT ![w] = Idle]
    BY <1>22 DEF Uncache, Finish
  <2>3. req' \in [Workers -> Request] /\ \A v \in Workers : StepOK(req'[v])
    BY <2>2, OneMoves, IdleType
  <2> QED
    BY <1>22, <2>1, <2>3 DEF Uncache, ghosts, Request, TypeInv, TypeOK
<1>23. ASSUME NEW w \in Workers, CheckExists(w) PROVE TypeInv'
  <2> DEFINE to == IF disk[req[w].id] = None THEN "purge" ELSE "unlink"
             next == [req[w] EXCEPT !.pc = to]
  <2>1. req[w] \in Request /\ StepOK(req[w]) /\ req[w].pc = "exists"
    BY <1>23 DEF CheckExists, TypeInv, TypeOK
  <2>2. next \in Request /\ StepOK(next)
    <3>1. to \in {"purge", "unlink"}
      OBVIOUS
    <3> HIDE DEF to
    <3> QED
      BY <2>1, <3>1 DEF Request, Steps, StepOK, DeleteSteps
  <2>3. req' = [req EXCEPT ![w] = next]
    BY <1>23 DEF CheckExists, Goto
  <2>4. req' \in [Workers -> Request] /\ \A v \in Workers : StepOK(req'[v])
    BY <2>2, <2>3, OneMoves
  <2> HIDE DEF next
  <2> QED
    BY <1>23, <2>1, <2>4 DEF CheckExists, ghosts, TypeInv, TypeOK
<1>24. ASSUME NEW w \in Workers, UnlinkFails(w) PROVE TypeInv'
  <2>1. req[w] \in Request /\ StepOK(req[w])
    BY DEF TypeInv, TypeOK
  <2>2. CASE Finish(w)
    BY <1>24, <2>2, OneMoves, IdleType DEF UnlinkFails, Finish, ghosts, TypeInv, TypeOK
  <2>3. CASE Goto(w, "purge")
    <3> DEFINE next == [req[w] EXCEPT !.pc = "purge"]
    <3>1. next \in Request /\ StepOK(next)
      BY <1>24, <2>1 DEF UnlinkFails, Request, StepOK
    <3>2. req' = [req EXCEPT ![w] = next]
      BY <2>3 DEF Goto
    <3>3. req' \in [Workers -> Request] /\ \A v \in Workers : StepOK(req'[v])
      BY <3>1, <3>2, OneMoves
    <3> QED
      BY <1>24, <3>3 DEF UnlinkFails, ghosts, TypeInv, TypeOK
  <2> QED
    BY <1>24, <2>2, <2>3 DEF UnlinkFails
<1> QED
  BY <1>1, <1>2, <1>3, <1>4, <1>5, <1>6, <1>7, <1>8, <1>9, <1>10, <1>11, <1>12,
     <1>13, <1>14, <1>15, <1>16, <1>17, <1>18, <1>19, <1>20, <1>21, <1>22, <1>23,
     <1>24
     DEF Next, Arrive, Advance

LEMMA InitTypes == Init => TypeInv
<1> SUFFICES ASSUME Init PROVE TypeInv
  OBVIOUS
<1>1. disk \in [Ids -> Doc \union {None, Torn}]
  BY DEF Init
<1>2. cache \in [Ids -> Doc \union {None}]
  BY DEF Init, Populate
<1>3. refs \in [Ids -> SUBSET Hashes]
  BY DEF Init, Uploads, Doc
<1> QED
  BY <1>1, <1>2, <1>3, IdleType DEF Init, TypeInv, TypeOK

\* The variables of ContentStore always have their types, whatever the handlers
\* read from files that others truncate or delete.
THEOREM TypeCorrect == Spec => []TypeOK
<1>1. Init => TypeInv
  BY InitTypes
<1>2. TypeInv => TypeOK
  BY DEF TypeInv
<1> QED
  BY <1>1, <1>2, TypeInvStep, PTL DEF Spec

-----------------------------------------------------------------------------
(* Which handlers share an entry.                                          *)

Busy(r, id) == r.pc # "idle" /\ r.id = id

\* Two handlers in flight on one entry are recorded as such.
OverlapInv ==
  /\ \A v, w \in Workers : \A id \in Ids :
       v # w /\ Busy(req[v], id) /\ Busy(req[w], id) =>
         id \in overlapped /\ ~req[v].solo
  /\ \A w \in Workers : \A id \in Ids :
       Busy(req[w], id) /\ ~req[w].solo => id \in stale
  /\ stale \subseteq overlapped

(* Published entries are complete.                                         *)

Sound(doc) == doc.status = "published" => doc.body \in Complete

\* What request r, alone on an entry whose file is file, has established.
WillBeSound(r, file) ==
  /\ r.pc = "validate" =>
       r.status = Resolve(r.explicit, IF r.op \in Creates THEN None ELSE file)
  /\ r.pc \in {"current", "snapshot", "status"} =>
       IF r.op = "revert" THEN r.explicit = "published" => r.body \in Complete
       ELSE Resolve(r.explicit, IF r.op \in Creates THEN None ELSE file)
              = "published" => r.body \in Complete
  /\ r.pc = "snapshot" => Sound(r.held)
  /\ r.pc = "rmw" => (r.status = "published" /\ file \in Doc =>
                        file.body \in Complete)
  /\ r.pc \in {"truncate", "write"} =>
       \/ r.status = "published" => r.body \in Complete
       \/ r.pc = "truncate" /\ r.op = "revert" /\ r.explicit = "none"

SoundEntry(id) ==
  /\ disk[id] \in Doc => Sound(disk[id])
  /\ \A v \in history[id] : Sound(v.doc)
  /\ \A w \in Workers : Busy(req[w], id) => WillBeSound(req[w], disk[id])

SoundInv == \A id \in Ids \ (overlapped \union unchecked) : SoundEntry(id)

(* The cache agrees with the files.                                        *)

Coherent(id) ==
  \/ cache[id] = disk[id]
  \/ degraded /\ cache[id] = None

\* What a handler alone on an entry knows of its file.
Holds(r, file) ==
  /\ r.pc # "unlinked"
  /\ r.pc = "write" => file = Torn
  /\ r.pc = "reload" => file \in Doc
  /\ r.pc = "cache" => r.held = file
  /\ r.pc \in {"purge", "uncache"} => file = None

\* The steps at which the file has changed and the cache has not.
Ahead == {"write", "reload", "cache", "purge", "uncache"}

CoherenceInv ==
  /\ \A w \in Workers : \A id \in Ids :
       Busy(req[w], id) /\ req[w].solo => Holds(req[w], disk[id])
  /\ \A id \in Ids \ stale :
       Coherent(id) \/ \E w \in Workers : Busy(req[w], id) /\ req[w].pc \in Ahead

-----------------------------------------------------------------------------
(* What the steps with a choice of outcomes do to their request.           *)

\* Worker w goes to another step of the same request, with this body.
Moved(w, pc, body) ==
  /\ req'[w].pc = pc /\ req'[w].body = body
  /\ req'[w].op = req[w].op /\ req'[w].id = req[w].id
  /\ req'[w].explicit = req[w].explicit /\ req'[w].solo = req[w].solo

OthersStay(w) == \A v \in Workers \ {w} : req'[v] = req[v]

LEMMA SnapshotMoves ==
  ASSUME TypeInv, NEW w \in Workers, Snapshot(w)
  PROVE  /\ req[w].pc = "snapshot" /\ req[w].held \in Doc /\ req[w].op \in Saves
         /\ Moved(w, "status", req[w].body) /\ OthersStay(w)
         /\ UNCHANGED <<disk, cache, refs>>
         /\ \A i \in Ids \ {req[w].id} :
              history'[i] = history[i] /\ (i \in postdated' <=> i \in postdated)
<1>1. req[w] \in Request /\ StepOK(req[w]) /\ req[w].pc = "snapshot"
  BY DEF Snapshot, TypeInv, TypeOK
<1>2. req' = [req EXCEPT ![w] = [req[w] EXCEPT !.pc = "status", !.held = None]]
  BY DEF Snapshot
<1>3. Moved(w, "status", req[w].body) /\ OthersStay(w)
  BY <1>1, <1>2 DEF Moved, OthersStay, Request, TypeInv, TypeOK
<1>4. req[w].held \in Doc /\ req[w].op \in Saves
  BY <1>1 DEF StepOK
<1>5. \A i \in Ids \ {req[w].id} :
        history'[i] = history[i] /\ (i \in postdated' <=> i \in postdated)
  BY DEF Snapshot, TypeInv, TypeOK
<1> QED
  BY <1>1, <1>3, <1>4, <1>5 DEF Snapshot

\* The snapshot is in the history, unless the clock was behind MaxVersions
\* others; nothing else is new there.
LEMMA SnapshotIsKept ==
  ASSUME TypeInv, NEW w \in Workers, Snapshot(w), NEW id, id = req[w].id
  PROVE  /\ \A v \in history'[id] : v \in history[id] \/ v.doc = req[w].held
         /\ id \in postdated' \/ \E v \in history'[id] : v.doc = req[w].held
<1> DEFINE held == req[w].held
<1>1. req[w].pc = "snapshot" /\ id \in Ids
  BY DEF Snapshot, StepOK, TypeInv
<1>2. PICK now \in 0..MaxClock :
        /\ history'[id] = Newest(WithVersion(history[id], now, held), MaxVersions)
        /\ postdated' =
             IF Cardinality({v \in history[id] : v.ts > now}) < MaxVersions
             THEN postdated \ {id} ELSE postdated \union {id}
  BY <1>1 DEF Snapshot, TypeInv, TypeOK
<1> DEFINE new == [ts |-> now, doc |-> held]
           kept == WithVersion(history[id], now, held)
<1>3. \A v \in kept : v \in history[id] \/ v = new
  BY DEF WithVersion
<1>4. CASE Cardinality({v \in history[id] : v.ts > now}) < MaxVersions
  <2>1. new \in kept /\ new.ts = now /\ new.doc = held
    BY DEF WithVersion
  <2>2. {v \in kept : v.ts > now} = {v \in history[id] : v.ts > now}
    <3>1. ~(now > now) /\ new.ts = now
      OBVIOUS
    <3> QED
      BY <3>1 DEF WithVersion
  <2> HIDE DEF new, kept
  <2>3. new \in Newest(kept, MaxVersions)
    BY <1>4, <2>1, <2>2 DEF Newest
  <2> QED
    BY <1>2, <1>3, <2>1, <2>3 DEF Newest, kept, new
<1>5. CASE ~(Cardinality({v \in history[id] : v.ts > now}) < MaxVersions)
  BY <1>2, <1>3, <1>5 DEF Newest
<1> QED
  BY <1>4, <1>5

\* A change of status takes the body of the file.
LEMMA ReadForStatusMoves ==
  ASSUME TypeInv, NEW w \in Workers, ReadForStatus(w)
  PROVE  /\ req[w].pc = "rmw" /\ req[w].op \in SetsStatus
         /\ \/ /\ disk[req[w].id] \in Doc
               /\ Moved(w, "truncate", disk[req[w].id].body)
               /\ req'[w].status = req[w].status
            \/ disk[req[w].id] \notin Doc /\ req'[w] = Idle
         /\ OthersStay(w)
         /\ UNCHANGED <<disk, cache, history, refs, ghosts>>
<1>1. req[w] \in Request /\ StepOK(req[w]) /\ req[w].pc = "rmw"
  BY DEF ReadForStatus, TypeInv, TypeOK
<1>2. req[w].op \in SetsStatus
  BY <1>1 DEF StepOK
<1>3. CASE disk[req[w].id] \in Doc
  <2>1. req' = [req EXCEPT ![w] = [req[w] EXCEPT !.pc = "truncate",
                                                 !.body = disk[req[w].id].body]]
    BY <1>3 DEF ReadForStatus
  <2>2. /\ Moved(w, "truncate", disk[req[w].id].body) /\ OthersStay(w)
        /\ req'[w].status = req[w].status
    BY <1>1, <2>1 DEF Moved, OthersStay, Request, TypeInv, TypeOK
  <2> QED
    BY <1>1, <1>2, <1>3, <2>2 DEF ReadForStatus
<1>4. CASE disk[req[w].id] \notin Doc
  <2>1. req' = [req EXCEPT ![w] = Idle]
    BY <1>4 DEF ReadForStatus, Finish
  <2>2. req'[w] = Idle /\ OthersStay(w)
    BY <2>1 DEF OthersStay, TypeInv, TypeOK
  <2> QED
    BY <1>1, <1>2, <1>4, <2>2 DEF ReadForStatus
<1> QED
  BY <1>3, <1>4

\* After its reload a request records its references or is done.
Reloaded(w) ==
  /\ \/ /\ req[w].op \in {"create", "update"}
        /\ Moved(w, "refs", req[w].body) /\ req'[w].status = req[w].status
     \/ req[w].op \notin {"create", "update"} /\ req'[w] = Idle
  /\ OthersStay(w)

LEMMA AfterReloadMoves ==
  ASSUME TypeInv, NEW w \in Workers, AfterReload(w)
  PROVE  Reloaded(w)
<1>1. req[w] \in Request
  BY DEF TypeInv, TypeOK
<1>2. CASE req[w].op \in {"create", "update"}
  <2>1. req' = [req EXCEPT ![w] = [req[w] EXCEPT !.pc = "refs", !.held = None]]
    BY <1>2 DEF AfterReload
  <2> QED
    BY <1>1, <1>2, <2>1 DEF Reloaded, Moved, OthersStay, Request, TypeInv, TypeOK
<1>3. CASE req[w].op \notin {"create", "update"}
  <2>1. req' = [req EXCEPT ![w] = Idle]
    BY <1>3 DEF AfterReload, Finish
  <2> QED
    BY <1>3, <2>1 DEF Reloaded, OthersStay, TypeInv, TypeOK
<1> QED
  BY <1>2, <1>3

LEMMA ReloadReadMoves ==
  ASSUME TypeInv, NEW w \in Workers, ReloadRead(w)
  PROVE  /\ req[w].pc = "reload" /\ OthersStay(w)
         /\ \/ disk[req[w].id] = Torn /\ Reloaded(w)
            \/ /\ disk[req[w].id] # Torn
               /\ Moved(w, "cache", req[w].body) /\ req'[w].status = req[w].status
               /\ req'[w].held = disk[req[w].id]
         /\ UNCHANGED <<disk, cache, history, refs, ghosts>>
<1>1. req[w] \in Request /\ req[w].pc = "reload"
  BY DEF ReloadRead, TypeInv, TypeOK
<1>2. CASE disk[req[w].id] = Torn
  <2>1. AfterReload(w)
    BY <1>2 DEF ReloadRead
  <2>2. Reloaded(w)
    BY <2>1, AfterReloadMoves
  <2> QED
    BY <1>1, <1>2, <2>2 DEF ReloadRead, Reloaded
<1>3. CASE disk[req[w].id] # Torn
  <2>1. req' = [req EXCEPT ![w] = [req[w] EXCEPT !.pc = "cache",
                                                 !.held = disk[req[w].id]]]
    BY <1>3 DEF ReloadRead
  <2>2. /\ Moved(w, "cache", req[w].body) /\ OthersStay(w)
        /\ req'[w].status = req[w].status /\ req'[w].held = disk[req[w].id]
    BY <1>1, <2>1 DEF Moved, OthersStay, Request, TypeInv, TypeOK
  <2> QED
    BY <1>1, <1>3, <2>2 DEF ReloadRead
<1> QED
  BY <1>2, <1>3

LEMMA ReloadApplyMoves ==
  ASSUME TypeInv, NEW w \in Workers, ReloadApply(w)
  PROVE  /\ req[w].pc = "cache" /\ Reloaded(w)
         /\ cache'[req[w].id] = req[w].held
         /\ \A i \in Ids \ {req[w].id} : cache'[i] = cache[i]
         /\ stale' = IF req[w].solo THEN stale \ {req[w].id} ELSE stale
         /\ UNCHANGED <<disk, history, refs, overlapped, interrupted, reverted,
                        untracked, unchecked, postdated, degraded, raced>>
<1>1. req[w].id \in Ids
  BY DEF ReloadApply, StepOK, TypeInv
<1> QED
  BY <1>1, AfterReloadMoves DEF ReloadApply, TypeInv, TypeOK

-----------------------------------------------------------------------------
(* Frame: a handler touches nothing but its entry.                         *)

Untouched(i) ==
  /\ disk'[i] = disk[i] /\ cache'[i] = cache[i]
  /\ history'[i] = history[i] /\ refs'[i] = refs[i]
  /\ i \in reverted' <=> i \in reverted
  /\ i \in untracked' <=> i \in untracked
  /\ i \in postdated' <=> i \in postdated

Local(w) ==
  /\ req[w].pc # "idle" /\ req[w].id \in Ids
  /\ req'[w].pc # "idle" => req'[w].id = req[w].id /\ req'[w].solo = req[w].solo
  /\ \A v \in Workers \ {w} :
       \/ req'[v] = req[v]
       \/ /\ req[v].pc = "write" /\ req[v].id = req[w].id
          /\ req'[v] = [req[v] EXCEPT !.pc = "unlinked"]
  /\ \A i \in Ids \ {req[w].id} : Untouched(i)
  /\ overlapped' = overlapped /\ unchecked \subseteq unchecked'
  /\ raced => raced'
  /\ interrupted' = interrupted /\ degraded' = degraded
  /\ \/ stale' = stale
     \/ req[w].solo /\ stale' = stale \ {req[w].id}

LEMMA AdvanceIsLocal ==
  ASSUME TypeInv, NEW w \in Workers, Advance(w)
  PROVE  Local(w)
<1>1. req[w] \in Request /\ StepOK(req[w])
  BY DEF TypeInv, TypeOK
<1> USE DEF Local, Untouched, ghosts, Goto, Finish, Idle, AfterReload
<1>2. CASE Validate(w)
  BY <1>1, <1>2 DEF Validate, Request, StepOK, TypeInv, TypeOK
<1>3. CASE ReadCurrent(w)
  BY <1>1, <1>3 DEF ReadCurrent, Request, StepOK, TypeInv, TypeOK
<1>4. CASE Snapshot(w)
  <2>1. UNCHANGED <<stale, overlapped, interrupted, reverted, untracked, unchecked,
                    degraded, raced>>
    BY <1>4 DEF Snapshot
  <2> QED
    BY <1>1, <1>4, <2>1, SnapshotMoves DEF Moved, OthersStay, StepOK
<1>5. CASE SaveStatus(w)
  BY <1>1, <1>5 DEF SaveStatus, Request, StepOK, TypeInv, TypeOK
<1>6. CASE ReadForStatus(w)
  BY <1>1, <1>6, ReadForStatusMoves DEF Moved, OthersStay, StepOK
<1>7. CASE Truncate(w)
  BY <1>1, <1>7 DEF Truncate, Request, StepOK, TypeInv, TypeOK
<1>8. CASE Write(w)
  BY <1>1, <1>8 DEF Write, Request, StepOK, TypeInv, TypeOK
<1>9. CASE WriteUnlinked(w)
  BY <1>1, <1>9 DEF WriteUnlinked, Request, StepOK, TypeInv, TypeOK
<1>10. CASE ReloadRead(w)
  BY <1>1, <1>10, ReloadReadMoves DEF Reloaded, Moved, OthersStay, StepOK
<1>11. CASE ReloadApply(w)
  BY <1>1, <1>11, ReloadApplyMoves DEF Reloaded, Moved, OthersStay, StepOK
<1>12. CASE UpdateReferences(w)
  BY <1>1, <1>12 DEF UpdateReferences, Request, StepOK, TypeInv, TypeOK
<1>13. CASE Unlink(w)
  BY <1>1, <1>13 DEF Unlink, Request, StepOK, TypeInv, TypeOK
<1>14. CASE Purge(w)
  BY <1>1, <1>14 DEF Purge, Request, StepOK, TypeInv, TypeOK
<1>15. CASE Uncache(w)
  BY <1>1, <1>15 DEF Uncache, Request, StepOK, TypeInv, TypeOK
<1>16. CASE CheckExists(w)
  BY <1>1, <1>16 DEF CheckExists, Request, StepOK, TypeInv, TypeOK
<1>17. CASE UnlinkFails(w)
  BY <1>1, <1>17 DEF UnlinkFails, Request, StepOK, TypeInv, TypeOK
<1> QED
  BY <1>2, <1>3, <1>4, <1>5, <1>6, <1>7, <1>8, <1>9, <1>10, <1>11, <1>12, <1>13,
     <1>14, <1>15, <1>16, <1>17 DEF Advance

\* A worker that is busy after a step of a handler was busy before it.
LEMMA LocalBusy ==
  ASSUME TypeInv, NEW w \in Workers, Local(w),
         NEW v \in Workers, NEW id \in Ids, Busy(req'[v], id)
  PROVE  /\ Busy(req[v], id) /\ req'[v].solo = req[v].solo
         /\ id # req[w].id => v # w /\ req'[v] = req[v]
<1>1. req[v] \in Request
  BY DEF TypeInv, TypeOK
<1>2. CASE v = w
  BY <1>2 DEF Local, Busy
<1>3. CASE v # w /\ req'[v] = req[v]
  BY <1>3 DEF Busy, Local
<1>4. CASE /\ v # w
           /\ req[v].pc = "write" /\ req[v].id = req[w].id
           /\ req'[v] = [req[v] EXCEPT !.pc = "unlinked"]
  BY <1>1, <1>4 DEF Busy, Request
<1> QED
  BY <1>2, <1>3, <1>4 DEF Local

LEMMA BeginOverlap ==
  ASSUME TypeInv, OverlapInv, NEW w \in Workers, NEW op, NEW id \in Ids,
         NEW pc, NEW body, NEW explicit, NEW status,
         Begin(w, op, id, pc, body, explicit, status)
  PROVE  OverlapInv'
<1>1. /\ req'[w].id = id /\ req'[w].solo = (InFlight(id) = {})
      /\ w \notin InFlight(id)
  BY DEF Begin, InFlight, TypeInv, TypeOK
<1>2. ASSUME NEW v \in Workers \ {w}
      PROVE  /\ req'[v].pc = req[v].pc /\ req'[v].id = req[v].id
             /\ v \in InFlight(id) => ~req'[v].solo
             /\ v \notin InFlight(id) => req'[v] = req[v]
  BY <1>2 DEF Begin, TypeInv, TypeOK, Request
<1>3. InFlight(id) # {} => id \in overlapped' /\ id \in stale'
  BY DEF Begin
<1>4. stale \subseteq stale' /\ overlapped \subseteq overlapped'
  BY DEF Begin
<1>5. \A v \in Workers : v \in InFlight(id) <=> Busy(req[v], id)
  BY DEF InFlight, Busy
<1>6. ASSUME NEW u \in Workers, NEW v \in Workers, NEW i \in Ids, u # v,
             Busy(req'[u], i), Busy(req'[v], i)
      PROVE  i \in overlapped' /\ ~req'[u].solo
  <2>1. CASE u # w /\ v # w
    BY <1>2, <1>4, <1>5, <1>6, <2>1 DEF OverlapInv, Busy
  <2>2. CASE u = w
    <3>1. v \in InFlight(id) /\ i = id
      BY <1>1, <1>2, <1>5, <1>6, <2>2 DEF Busy
    <3> QED
      BY <1>1, <1>3, <2>2, <3>1
  <2>3. CASE v = w
    <3>1. u \in InFlight(id) /\ i = id
      BY <1>1, <1>2, <1>5, <1>6, <2>3 DEF Busy
    <3> QED
      BY <1>2, <1>3, <1>6, <2>3, <3>1
  <2> QED
    BY <2>1, <2>2, <2>3
<1>7. ASSUME NEW v \in Workers, NEW i \in Ids, Busy(req'[v], i), ~req'[v].solo
      PROVE  i \in stale'
  <2>1. CASE v = w
    BY <1>1, <1>3, <1>7, <2>1 DEF Busy
  <2>2. CASE v \in InFlight(id)
    BY <1>1, <1>2, <1>3, <1>5, <1>7, <2>2 DEF Busy
  <2>3. CASE v # w /\ v \notin InFlight(id)
    BY <1>2, <1>4, <1>7, <2>3 DEF OverlapInv
  <2> QED
    BY <2>1, <2>2, <2>3
<1>8. stale' \subseteq overlapped'
  BY DEF OverlapInv, Begin
<1> QED
  BY <1>6, <1>7, <1>8 DEF OverlapInv

LEMMA OverlapInvStep == TypeInv /\ OverlapInv /\ [Next]_vars => OverlapInv'
<1> SUFFICES ASSUME TypeInv, OverlapInv, [Next]_vars PROVE OverlapInv'
  OBVIOUS
<1>1. CASE UNCHANGED vars
  BY <1>1 DEF vars, ghosts, OverlapInv, Busy
<1>2. CASE CrashRestart
  BY <1>2 DEF CrashRestart, OverlapInv, Busy, Idle
<1>3. ASSUME NEW w \in Workers, Arrive(w) PROVE OverlapInv'
  BY <1>3, BeginOverlap DEF Arrive, BeginCreate, BeginUpdate, BeginPublish,
     BeginUnpublish, BeginDelete, BeginRevert
<1>4. ASSUME NEW w \in Workers, Advance(w) PROVE OverlapInv'
  <2>1. Local(w)
    BY <1>4, AdvanceIsLocal
  <2>2. ASSUME NEW v \in Workers, NEW id \in Ids, Busy(req'[v], id)
        PROVE  Busy(req[v], id) /\ req'[v].solo = req[v].solo
    BY <2>1, <2>2, LocalBusy
  <2> QED
    BY <2>1, <2>2 DEF Local, OverlapInv, Busy
<1> QED
  BY <1>1, <1>2, <1>3, <1>4 DEF Next

-----------------------------------------------------------------------------
(* PublishedComplete.                                                      *)

\* What is left to show of SoundInv after a step of worker w.
SoundAfter(w) ==
  LET id == req[w].id
  IN  id \notin overlapped \union unchecked' =>
        /\ disk'[id] \in Doc => Sound(disk'[id])
        /\ \A v \in history'[id] : Sound(v.doc)
        /\ req'[w].pc # "idle" => WillBeSound(req'[w], disk'[id])

LEMMA SoundFrame ==
  ASSUME TypeInv, OverlapInv, SoundInv, NEW w \in Workers, Local(w), SoundAfter(w)
  PROVE  SoundInv'
<1> SUFFICES ASSUME NEW id \in Ids \ (overlapped' \union unchecked')
             PROVE  SoundEntry(id)'
  BY DEF SoundInv
<1>1. id \in Ids \ (overlapped \union unchecked)
  BY DEF Local
<1>2. CASE id = req[w].id
  <2>1. ASSUME NEW v \in Workers, Busy(req'[v], id) PROVE v = w
    <3>1. Busy(req[v], id) /\ Busy(req[w], id)
      BY <1>2, <2>1, LocalBusy DEF Local, Busy
    <3> QED
      BY <1>1, <3>1 DEF OverlapInv
  <2> QED
    BY <1>1, <1>2, <2>1 DEF SoundAfter, SoundEntry, Busy, Local
<1>3. CASE id # req[w].id
  <2>1. SoundEntry(id) /\ Untouched(id)
    BY <1>1, <1>3 DEF Local, SoundInv
  <2>2. ASSUME NEW v \in Workers, Busy(req'[v], id) PROVE req'[v] = req[v]
    BY <1>3, <2>2, LocalBusy
  <2> QED
    BY <2>1, <2>2 DEF SoundEntry, Untouched
<1> QED
  BY <1>2, <1>3

LEMMA SoundBegin ==
  ASSUME TypeInv, SoundInv, NEW w \in Workers, NEW op, NEW id \in Ids,
         NEW pc, NEW body, NEW explicit, NEW status,
         Begin(w, op, id, pc, body, explicit, status),
         UNCHANGED <<disk, history>>,
         SoundEntry(id) =>
           WillBeSound([pc |-> pc, op |-> op, id |-> id, body |-> body,
                        explicit |-> explicit, status |-> status,
                        held |-> None, solo |-> InFlight(id) = {}], disk[id])
  PROVE  SoundInv'
<1> SUFFICES ASSUME NEW i \in Ids \ (overlapped' \union unchecked')
             PROVE  SoundEntry(i)'
  BY DEF SoundInv
<1>1. i \in Ids \ (overlapped \union unchecked) /\ SoundEntry(i)
  BY DEF Begin, SoundInv
<1>2. ASSUME NEW v \in Workers, Busy(req'[v], i)
      PROVE  WillBeSound(req'[v], disk[i])
  <2>1. CASE v = w
    BY <1>1, <1>2, <2>1 DEF Begin, Busy, TypeInv, TypeOK
  <2>2. CASE v # w /\ v \in InFlight(id)
    <3>1. i = id
      BY <1>2, <2>2 DEF Begin, InFlight, Busy, TypeInv, TypeOK, Request
    <3> QED
      BY <2>2, <3>1 DEF Begin
  <2>3. CASE v # w /\ v \notin InFlight(id)
    BY <1>1, <1>2, <2>3 DEF Begin, SoundEntry
  <2> QED
    BY <2>1, <2>2, <2>3
<1> QED
  BY <1>1, <1>2 DEF SoundEntry

LEMMA SoundInvStep ==
  TypeInv /\ OverlapInv /\ SoundInv /\ [Next]_vars => SoundInv'
<1> SUFFICES ASSUME TypeInv, OverlapInv, SoundInv, [Next]_vars PROVE SoundInv'
  OBVIOUS
<1> USE DEF ghosts
<1>1. CASE UNCHANGED vars
  BY <1>1 DEF vars, SoundInv, SoundEntry
<1>2. CASE CrashRestart
  BY <1>2 DEF CrashRestart, SoundInv, SoundEntry, Busy, Idle
<1>3. ASSUME NEW w \in Workers, NEW op \in Ops, NEW id \in Ids,
             NEW body \in Bodies, NEW explicit \in Explicit,
             BeginCreate(w, op, id, body, explicit)
      PROVE  SoundInv'
  BY <1>3, SoundBegin DEF BeginCreate, WillBeSound
<1>4. ASSUME NEW w \in Workers, NEW op \in Ops, NEW id \in Ids,
             NEW body \in Bodies, NEW explicit \in Explicit,
             BeginUpdate(w, op, id, body, explicit)
      PROVE  SoundInv'
  BY <1>4, SoundBegin DEF BeginUpdate, WillBeSound, Creates, Updates
<1>5. ASSUME NEW w \in Workers, NEW id \in Ids, BeginPublish(w, id)
      PROVE  SoundInv'
  BY <1>5, SoundBegin DEF BeginPublish, WillBeSound
<1>6. ASSUME NEW w \in Workers, NEW id \in Ids, BeginUnpublish(w, id)
      PROVE  SoundInv'
  BY <1>6, SoundBegin DEF BeginUnpublish, WillBeSound
<1>7. ASSUME NEW w \in Workers, NEW id \in Ids, BeginDelete(w, id)
      PROVE  SoundInv'
  BY <1>7, SoundBegin DEF BeginDelete, WillBeSound
<1>8. ASSUME NEW w \in Workers, NEW id \in Ids, NEW version \in history[id],
             BeginRevert(w, id, version)
      PROVE  SoundInv'
  BY <1>8, SoundBegin DEF BeginRevert, WillBeSound, SoundEntry, Sound
<1>9. ASSUME NEW w \in Workers, Advance(w) PROVE SoundInv'
  <2> DEFINE id == req[w].id
  <2>1. Local(w) /\ req[w] \in Request /\ StepOK(req[w]) /\ id \in Ids
    <3>1. Local(w)
      BY <1>9, AdvanceIsLocal
    <3> QED
      BY <3>1 DEF Local, TypeInv, TypeOK
  <2>2. SUFFICES ASSUME id \notin overlapped \union unchecked',
                        SoundEntry(id), WillBeSound(req[w], disk[id]),
                        SoundInv
                 PROVE  SoundAfter(w)
    <3>1. id \notin overlapped \union unchecked' =>
            SoundEntry(id) /\ WillBeSound(req[w], disk[id])
      BY <2>1 DEF Local, SoundInv, SoundEntry, Busy
    <3> QED
      BY <2>1, <2>2, <3>1, SoundFrame DEF SoundAfter
  <2> USE <2>1, <2>2
  <2> USE DEF SoundAfter, Goto, Finish, Idle, AfterReload
  <2>3. CASE Validate(w)
    BY <2>3 DEF Validate, Valid, Creates, Updates, SoundEntry, Sound, WillBeSound, Request, StepOK,
       TypeInv, TypeOK
  <2>4. CASE ReadCurrent(w)
    BY <2>4 DEF ReadCurrent, SoundEntry, Sound, WillBeSound, Request, StepOK,
       TypeInv, TypeOK
  <2>5. CASE Snapshot(w)
    BY <2>5, SnapshotMoves, SnapshotIsKept DEF Moved, SoundEntry, Sound, WillBeSound
  <2>6. CASE SaveStatus(w)
    <3> DEFINE old == IF req[w].op \in Creates THEN None ELSE disk[id]
    <3>1. req[w].pc = "status" /\ req[w].op \in Saves
      BY <2>6 DEF SaveStatus, StepOK
    <3>2. req'[w] = [req[w] EXCEPT !.pc = "truncate",
                                   !.status = Resolve(req[w].explicit, old)]
      BY <2>6 DEF SaveStatus, TypeInv, TypeOK
    <3> HIDE DEF old
    <3>3. /\ req'[w].pc = "truncate" /\ req'[w].op = req[w].op
          /\ req'[w].body = req[w].body /\ req'[w].explicit = req[w].explicit
          /\ req'[w].status = Resolve(req[w].explicit, old)
      BY <3>2 DEF Request
    <3>4. CASE req[w].op = "revert"
      <4>1. req[w].explicit = "published" => req[w].body \in Complete
        BY <3>1, <3>4 DEF WillBeSound
      <4>2. req[w].explicit # "none" => req'[w].status = req[w].explicit
        BY <3>3 DEF Resolve
      <4> QED
        BY <2>6, <3>3, <3>4, <4>1, <4>2 DEF SaveStatus, SoundEntry, WillBeSound
    <3>5. CASE req[w].op # "revert"
      <4>1. Resolve(req[w].explicit, old) = "published" => req[w].body \in Complete
        BY <3>1, <3>5 DEF WillBeSound, old
      <4> QED
        BY <2>6, <3>3, <4>1 DEF SaveStatus, SoundEntry, WillBeSound
    <3> QED
      BY <3>4, <3>5
  <2>7. CASE ReadForStatus(w)
    BY <2>7, ReadForStatusMoves DEF Moved, SoundEntry, Sound, WillBeSound, SetsStatus
  <2>8. CASE Truncate(w)
    BY <2>8 DEF Truncate, SoundEntry, Sound, WillBeSound, Request, StepOK,
       TypeInv, TypeOK
  <2>9. CASE Write(w)
    BY <2>9 DEF Write, SoundEntry, Sound, WillBeSound, Request, StepOK, Doc,
       TypeInv, TypeOK
  <2>10. CASE WriteUnlinked(w)
    BY <2>10 DEF WriteUnlinked, SoundEntry, Sound, WillBeSound, Request, StepOK,
       TypeInv, TypeOK
  <2>11. CASE ReloadRead(w)
    BY <2>11, ReloadReadMoves DEF Reloaded, Moved, SoundEntry, WillBeSound
  <2>12. CASE ReloadApply(w)
    BY <2>12, ReloadApplyMoves DEF Reloaded, Moved, SoundEntry, WillBeSound
  <2>13. CASE UpdateReferences(w)
    BY <2>13 DEF UpdateReferences, SoundEntry, Sound, WillBeSound, Request, StepOK,
       TypeInv, TypeOK
  <2>14. CASE Unlink(w)
    BY <2>14 DEF Unlink, SoundEntry, Sound, WillBeSound, Request, StepOK,
       TypeInv, TypeOK
  <2>15. CASE Purge(w)
    BY <2>15 DEF Purge, SoundEntry, Sound, WillBeSound, Request, StepOK,
       TypeInv, TypeOK
  <2>16. CASE Uncache(w)
    BY <2>16 DEF Uncache, SoundEntry, Sound, WillBeSound, Request, StepOK,
       TypeInv, TypeOK
  <2>17. CASE CheckExists(w)
    BY <2>17 DEF CheckExists, SoundEntry, Sound, WillBeSound, Request, StepOK,
       TypeInv, TypeOK
  <2>18. CASE UnlinkFails(w)
    BY <2>18 DEF UnlinkFails, SoundEntry, Sound, WillBeSound, Request, StepOK,
       TypeInv, TypeOK
  <2> QED
    BY <1>9, <2>3, <2>4, <2>5, <2>6, <2>7, <2>8, <2>9, <2>10, <2>11, <2>12, <2>13, <2>14, <2>15, <2>16,
       <2>17, <2>18 DEF Advance
<1> QED
  BY <1>1, <1>2, <1>3, <1>4, <1>5, <1>6, <1>7, <1>8, <1>9 DEF Next, Arrive

-----------------------------------------------------------------------------
(* CacheCoherent.                                                          *)

\* What is left to show of CoherenceInv after a step of worker w.
CoherentAfter(w) ==
  \A id \in Ids :
    id = req[w].id /\ req[w].solo =>
        /\ req'[w].pc # "idle" => Holds(req'[w], disk'[id])
        /\ id \notin stale' => Coherent(id)' \/ req'[w].pc \in Ahead

LEMMA CoherentFrame ==
  ASSUME TypeInv, OverlapInv, CoherenceInv, NEW w \in Workers, Local(w),
         CoherentAfter(w)
  PROVE  CoherenceInv'
<1>1. ASSUME NEW v \in Workers, NEW id \in Ids, Busy(req'[v], id), req'[v].solo
      PROVE  Holds(req'[v], disk'[id])
  <2>1. Busy(req[v], id) /\ req[v].solo
    BY <1>1, LocalBusy
  <2>2. CASE id # req[w].id
    <3>1. req'[v] = req[v]
      BY <1>1, <2>2, LocalBusy
    <3>2. disk'[id] = disk[id]
      BY <2>2 DEF Local, Untouched
    <3> QED
      BY <2>1, <3>1, <3>2 DEF CoherenceInv
  <2>3. CASE id = req[w].id
    <3>1. Busy(req[w], id)
      BY <2>3 DEF Local, Busy
    <3>2. v = w
      BY <2>1, <3>1 DEF OverlapInv
    <3> QED
      BY <1>1, <2>1, <2>3, <3>2 DEF CoherentAfter, Busy
  <2> QED
    BY <2>2, <2>3
<1>2. ASSUME NEW id \in Ids \ stale'
      PROVE  \/ Coherent(id)'
             \/ \E v \in Workers : Busy(req'[v], id) /\ req'[v].pc \in Ahead
  <2>1. CASE id # req[w].id
    <3>1. id \notin stale /\ Untouched(id) /\ degraded' = degraded
      BY <1>2, <2>1 DEF Local
    <3>2. ASSUME NEW v \in Workers, Busy(req[v], id) PROVE req'[v] = req[v]
      BY <2>1, <3>2 DEF Local, Busy
    <3> QED
      BY <3>1, <3>2 DEF CoherenceInv, Coherent, Untouched
  <2>2. CASE id = req[w].id /\ ~req[w].solo
    <3>1. id \in stale
      BY <2>2 DEF Local, Busy, OverlapInv
    <3> QED
      BY <1>2, <2>2, <3>1 DEF Local
  <2>3. CASE id = req[w].id /\ req[w].solo
    <3>1. Coherent(id)' \/ req'[w].pc \in Ahead
      BY <1>2, <2>3 DEF CoherentAfter
    <3>2. req'[w].pc \in Ahead => Busy(req'[w], id)
      BY <2>3 DEF Local, Busy, Ahead
    <3> QED
      BY <3>1, <3>2
  <2> QED
    BY <2>1, <2>2, <2>3
<1> QED
  BY <1>1, <1>2 DEF CoherenceInv

LEMMA CoherentBegin ==
  ASSUME TypeInv, CoherenceInv, NEW w \in Workers, NEW op, NEW id \in Ids,
         NEW pc \in {"validate", "current", "rmw", "exists"},
         NEW body, NEW explicit, NEW status,
         Begin(w, op, id, pc, body, explicit, status),
         UNCHANGED <<disk, cache>>
  PROVE  CoherenceInv'
<1>1. req[w].pc = "idle" /\ req'[w].pc = pc /\ stale \subseteq stale'
      /\ degraded' = degraded
  BY DEF Begin, TypeInv, TypeOK
<1>2. ASSUME NEW v \in Workers \ {w}
      PROVE  /\ req'[v].pc = req[v].pc /\ req'[v].id = req[v].id
             /\ req'[v].held = req[v].held
             /\ req'[v].solo => req[v].solo
  <2>1. req[v] \in Request
    BY DEF TypeInv, TypeOK
  <2> QED
    BY <2>1 DEF Begin, Request
<1>3. ASSUME NEW v \in Workers, NEW i \in Ids, Busy(req'[v], i), req'[v].solo
      PROVE  Holds(req'[v], disk'[i])
  <2>1. CASE v = w
    BY <1>1, <2>1 DEF Holds
  <2>2. CASE v # w
    BY <1>2, <1>3, <2>2 DEF CoherenceInv, Holds, Busy
  <2> QED
    BY <2>1, <2>2
<1>4. ASSUME NEW i \in Ids \ stale'
      PROVE  \/ Coherent(i)'
             \/ \E v \in Workers : Busy(req'[v], i) /\ req'[v].pc \in Ahead
  <2>1. CASE Coherent(i)
    BY <1>1, <2>1 DEF Coherent
  <2>2. ASSUME NEW v \in Workers, Busy(req[v], i), req[v].pc \in Ahead
        PROVE  Busy(req'[v], i) /\ req'[v].pc \in Ahead
    BY <1>1, <1>2, <2>2 DEF Busy
  <2> QED
    BY <1>1, <2>1, <2>2 DEF CoherenceInv
<1> QED
  BY <1>3, <1>4 DEF CoherenceInv

LEMMA CoherenceInvStep ==
  TypeInv /\ OverlapInv /\ CoherenceInv /\ [Next]_vars => CoherenceInv'
<1> SUFFICES ASSUME TypeInv, OverlapInv, CoherenceInv, [Next]_vars
             PROVE  CoherenceInv'
  OBVIOUS
<1>1. CASE UNCHANGED vars
  BY <1>1 DEF vars, ghosts, CoherenceInv, Coherent
<1>2. CASE CrashRestart
  BY <1>2 DEF CrashRestart, Populate, CoherenceInv, Coherent, Busy, Idle
<1>3. ASSUME NEW w \in Workers, Arrive(w) PROVE CoherenceInv'
  BY <1>3, CoherentBegin DEF Arrive, BeginCreate, BeginUpdate, BeginPublish,
     BeginUnpublish, BeginDelete, BeginRevert
<1>4. ASSUME NEW w \in Workers, Advance(w) PROVE CoherenceInv'
  <2> DEFINE id == req[w].id
  <2>1. Local(w)
    BY <1>4, AdvanceIsLocal
  <2>2. req[w] \in Request /\ StepOK(req[w]) /\ id \in Ids
    BY <2>1 DEF Local, TypeInv, TypeOK
  <2>3. SUFFICES ASSUME req[w].solo, Holds(req[w], disk[id]),
                        id \notin stale => Coherent(id) \/ req[w].pc \in Ahead
                 PROVE  CoherentAfter(w)
    <3>1. ASSUME req[w].solo
          PROVE  /\ Holds(req[w], disk[id])
                 /\ id \notin stale => Coherent(id) \/ req[w].pc \in Ahead
      <4>1. Busy(req[w], id)
        BY <2>1 DEF Local, Busy
      <4>2. \A v \in Workers : Busy(req[v], id) => v = w
        BY <2>2, <3>1, <4>1 DEF OverlapInv
      <4> QED
        BY <2>2, <3>1, <4>1, <4>2 DEF CoherenceInv
    <3> QED
      BY <2>1, <2>3, <3>1, CoherentFrame DEF CoherentAfter
  <2> USE <2>2, <2>3
  <2> USE DEF CoherentAfter, Coherent, Holds, Ahead, ghosts
  <2> USE DEF Goto, Finish, Idle, AfterReload
  <2>4. CASE Validate(w)
    BY <2>4 DEF Validate, Request, StepOK, TypeInv, TypeOK
  <2>5. CASE ReadCurrent(w)
    BY <2>5 DEF ReadCurrent, Request, StepOK, TypeInv, TypeOK
  <2>6. CASE Snapshot(w)
    BY <2>6, SnapshotMoves DEF Snapshot, Moved
  <2>7. CASE SaveStatus(w)
    BY <2>7 DEF SaveStatus, Request, StepOK, TypeInv, TypeOK
  <2>8. CASE ReadForStatus(w)
    BY <2>8, ReadForStatusMoves DEF Moved
  <2>9. CASE Truncate(w)
    BY <2>9 DEF Truncate, Request, StepOK, TypeInv, TypeOK
  <2>10. CASE Write(w)
    BY <2>10 DEF Write, Request, StepOK, Doc, TypeInv, TypeOK
  <2>11. CASE WriteUnlinked(w)
    BY <2>11 DEF WriteUnlinked, Request, StepOK, TypeInv, TypeOK
  <2>12. CASE ReloadRead(w)
    BY <2>12, ReloadReadMoves DEF Reloaded, Moved
  <2>13. CASE ReloadApply(w)
    BY <2>13, ReloadApplyMoves DEF Reloaded, Moved, TypeInv, TypeOK
  <2>14. CASE UpdateReferences(w)
    BY <2>14 DEF UpdateReferences, Request, StepOK, TypeInv, TypeOK
  <2>15. CASE Unlink(w)
    BY <2>15 DEF Unlink, Request, StepOK, TypeInv, TypeOK
  <2>16. CASE Purge(w)
    BY <2>16 DEF Purge, Request, StepOK, TypeInv, TypeOK
  <2>17. CASE Uncache(w)
    BY <2>17 DEF Uncache, Request, StepOK, TypeInv, TypeOK
  <2>18. CASE CheckExists(w)
    BY <2>18 DEF CheckExists, Request, StepOK, TypeInv, TypeOK
  <2>19. CASE UnlinkFails(w)
    BY <2>19 DEF UnlinkFails, Request, StepOK, TypeInv, TypeOK
  <2> QED
    BY <1>4, <2>4, <2>5, <2>6, <2>7, <2>8, <2>9, <2>10, <2>11, <2>12, <2>13, <2>14, <2>15, <2>16, <2>17,
       <2>18, <2>19 DEF Advance
<1> QED
  BY <1>1, <1>2, <1>3, <1>4 DEF Next

-----------------------------------------------------------------------------
(* What a handler alone on an entry knows of its file, of the history, of  *)
(* the references and of the cache.                                        *)

\* The status a save that is about to truncate gives to the document.
Wrote(r, file) ==
  /\ r.op = "publish" => r.status = "published"
  /\ r.op = "unpublish" => r.status = "draft"
  /\ r.pc = "truncate" =>
       IF r.op \in SetsStatus THEN file \in Doc /\ file.body = r.body
       ELSE r.status = Resolve(r.explicit,
                               IF r.op \in Creates THEN None ELSE file)
  /\ r.pc \in {"reload", "cache", "refs"} =>
       file = [body |-> r.body, status |-> r.status]

\* The document about to be overwritten is in the history, unless the clock
\* was behind.
Snapshotted(r, id, file, versions) ==
  r.op \in Updates \union {"revert"} =>
    /\ r.pc = "snapshot" => r.held = file /\ MaxVersions > 0
    /\ r.pc \in {"status", "truncate"} /\ file \in Doc /\ MaxVersions > 0 =>
         id \in postdated \/ \E v \in versions : v.doc = file

\* What the recorded references are while the file changes.
Tracks(r, file, recorded) ==
  /\ r.op \in SetsStatus /\ r.pc = "write" => recorded = UploadsOf[r.body]
  /\ \/ r.pc = "write"
     \/ r.op \in {"create", "update"} /\ r.pc \in {"reload", "cache", "refs"}
     \/ r.op = "delete"
     \/ recorded = Uploads(file)

\* A change of status leaves the cached body alone until the reload.
KeepsCached(r, cached) ==
  r.op \in SetsStatus /\ r.pc \in {"truncate", "write", "reload", "cache"} =>
    degraded \/ (cached \in Doc /\ cached.body = r.body)

AloneOn(r, id) ==
  /\ Wrote(r, disk[id])
  /\ Snapshotted(r, id, disk[id], history[id])
  /\ r.op = "delete" => refs[id] = {}
  /\ id \notin interrupted \union untracked => Tracks(r, disk[id], refs[id])
  /\ KeepsCached(r, cache[id])
  /\ r.op = "revert" /\ r.pc \in {"reload", "cache"} => id \in reverted

AloneInv ==
  \A id \in Ids \ overlapped :
    /\ \A w \in Workers : Busy(req[w], id) => AloneOn(req[w], id)
    /\ id \notin interrupted \union untracked /\ InFlight(id) = {} =>
         refs[id] = Uploads(disk[id])

\* What is left to show of AloneInv after a step of worker w.
AloneAfter(w) ==
  \A id \in Ids \ overlapped :
    id = req[w].id =>
      /\ req'[w].pc # "idle" => AloneOn(req[w], id)'
      /\ id \notin interrupted \union untracked' /\ req'[w].pc = "idle" =>
           refs'[id] = Uploads(disk'[id])

LEMMA AloneFrame ==
  ASSUME TypeInv, OverlapInv, AloneInv, NEW w \in Workers, Local(w), AloneAfter(w)
  PROVE  AloneInv'
<1> SUFFICES ASSUME NEW id \in Ids \ overlapped'
             PROVE  /\ \A v \in Workers : Busy(req'[v], id) => AloneOn(req[v], id)'
                    /\ /\ id \notin interrupted' \union untracked'
                       /\ \A v \in Workers : ~Busy(req'[v], id)
                       => refs'[id] = Uploads(disk'[id])
  BY DEF AloneInv, InFlight, Busy
<1>1. id \notin overlapped /\ interrupted' = interrupted /\ degraded' = degraded
  BY DEF Local
<1>2. CASE id = req[w].id
  <2>1. ASSUME NEW v \in Workers, Busy(req'[v], id) PROVE v = w
    <3>1. Busy(req[v], id) /\ Busy(req[w], id)
      BY <1>2, <2>1, LocalBusy DEF Local, Busy
    <3> QED
      BY <1>1, <3>1 DEF OverlapInv
  <2>2. ~Busy(req'[w], id) => req'[w].pc = "idle"
    BY <1>2 DEF Local, Busy
  <2> QED
    BY <1>1, <1>2, <2>1, <2>2 DEF AloneAfter, Busy
<1>3. CASE id # req[w].id
  <2>1. Untouched(id)
    BY <1>3 DEF Local
  <2>2. ASSUME NEW v \in Workers, Busy(req'[v], id)
        PROVE  req'[v] = req[v] /\ Busy(req[v], id)
    BY <1>3, <2>2, LocalBusy
  <2>3. ASSUME NEW v \in Workers, Busy(req[v], id) PROVE Busy(req'[v], id)
    BY <1>3, <2>3 DEF Local, Busy
  <2>4. ASSUME NEW v \in Workers, Busy(req'[v], id)
        PROVE  AloneOn(req[v], id)'
    <3>1. AloneOn(req[v], id) /\ req'[v] = req[v]
      BY <1>1, <2>2, <2>4 DEF AloneInv
    <3> QED
      BY <1>1, <2>1, <3>1 DEF AloneOn, Untouched, Snapshotted, KeepsCached
  <2>5. ASSUME \A v \in Workers : ~Busy(req'[v], id),
               id \notin interrupted' \union untracked'
        PROVE  refs'[id] = Uploads(disk'[id])
    <3>1. InFlight(id) = {}
      BY <2>3, <2>5 DEF InFlight, Busy
    <3> QED
      BY <1>1, <2>1, <2>5, <3>1 DEF AloneInv, Untouched
  <2> QED
    BY <2>4, <2>5
<1> QED
  BY <1>2, <1>3

\* The arrival of a request of any kind, as far as the invariants see it.
Starts(w, op, id, pc, body, explicit, status) ==
  /\ Begin(w, op, id, pc, body, explicit, status)
  /\ pc \in {"validate", "current", "rmw", "exists"}
  /\ UNCHANGED <<disk, cache, history>>
  /\ op = "publish" => status = "published"
  /\ op = "unpublish" => status = "draft"
  /\ refs' = IF op = "delete" THEN [refs EXCEPT ![id] = {}] ELSE refs

LEMMA AloneBegin ==
  ASSUME TypeInv, AloneInv, NEW w \in Workers, NEW op, NEW id \in Ids, NEW pc,
         NEW body, NEW explicit, NEW status,
         Starts(w, op, id, pc, body, explicit, status)
  PROVE  AloneInv'
<1> USE DEF Starts
<1> DEFINE new == [pc |-> pc, op |-> op, id |-> id, body |-> body,
                   explicit |-> explicit, status |-> status,
                   held |-> None, solo |-> InFlight(id) = {}]
<1> SUFFICES ASSUME NEW i \in Ids \ overlapped'
             PROVE  /\ \A v \in Workers : Busy(req'[v], i) => AloneOn(req[v], i)'
                    /\ /\ i \notin interrupted' \union untracked'
                       /\ \A v \in Workers : ~Busy(req'[v], i)
                       => refs'[i] = Uploads(disk'[i])
  BY DEF AloneInv, InFlight, Busy
<1>1. /\ i \notin overlapped /\ interrupted' = interrupted /\ degraded' = degraded
      /\ untracked' = untracked /\ reverted' = reverted /\ postdated' = postdated
      /\ req'[w] = new /\ req[w].pc = "idle"
  BY DEF Begin, TypeInv, TypeOK
<1>2. i = id => InFlight(id) = {}
  BY DEF Begin
<1>3. ASSUME NEW v \in Workers \ {w}, Busy(req'[v], i) \/ Busy(req[v], i)
      PROVE  i # id /\ req'[v] = req[v]
  <2>1. req[v] \in Request
    BY DEF TypeInv, TypeOK
  <2>2. Busy(req[v], i)
    BY <1>3, <2>1 DEF Begin, Busy, Request
  <2>3. i # id
    BY <1>2, <2>2 DEF InFlight, Busy
  <2> QED
    BY <2>2, <2>3 DEF Begin, InFlight, Busy
<1>4. CASE i = id
  <2>1. id \notin interrupted \union untracked => refs[id] = Uploads(disk[id])
    BY <1>1, <1>2, <1>4 DEF AloneInv
  <2>2. AloneOn(req[w], id)'
    BY <1>1, <2>1 DEF AloneOn, Wrote, Snapshotted, Tracks, KeepsCached, TypeInv, TypeOK
  <2> QED
    BY <1>1, <1>3, <1>4, <2>2 DEF Busy
<1>5. CASE i # id
  <2>1. ~Busy(req'[w], i) /\ ~Busy(req[w], i) /\ refs'[i] = refs[i]
    BY <1>1, <1>5 DEF Busy, TypeInv, TypeOK
  <2>2. ASSUME NEW v \in Workers, Busy(req'[v], i)
        PROVE  AloneOn(req[v], i)'
    <3>1. req'[v] = req[v] /\ AloneOn(req[v], i)
      BY <1>1, <1>3, <2>1, <2>2 DEF AloneInv
    <3> QED
      BY <1>1, <2>1, <3>1 DEF AloneOn, Snapshotted, KeepsCached
  <2>3. ASSUME \A v \in Workers : ~Busy(req'[v], i)
        PROVE  InFlight(i) = {}
    BY <1>3, <2>1, <2>3 DEF InFlight, Busy
  <2> QED
    BY <1>1, <2>1, <2>2, <2>3 DEF AloneInv
<1> QED
  BY <1>4, <1>5

LEMMA AloneInvStep ==
  TypeInv /\ OverlapInv /\ CoherenceInv /\ AloneInv /\ [Next]_vars
    => AloneInv'
<1> SUFFICES ASSUME TypeInv, OverlapInv, CoherenceInv, AloneInv, [Next]_vars
             PROVE  AloneInv'
  OBVIOUS
<1>1. CASE UNCHANGED vars
  BY <1>1 DEF vars, ghosts, AloneInv, AloneOn, Snapshotted, KeepsCached, InFlight, Uploads
<1>2. CASE CrashRestart
  <2>1. ASSUME NEW id \in Ids \ overlapped,
               id \notin interrupted' \union untracked'
        PROVE  refs'[id] = Uploads(disk'[id])
    BY <1>2, <2>1 DEF CrashRestart, AloneInv
  <2> QED
    BY <1>2, <2>1 DEF CrashRestart, AloneInv, Busy, Idle
<1>3. ASSUME NEW w \in Workers, Arrive(w) PROVE AloneInv'
  <2> USE DEF Creates, Updates
  <2>1. ASSUME NEW op, NEW id \in Ids, NEW body, NEW explicit,
               BeginCreate(w, op, id, body, explicit)
        PROVE  AloneInv'
    <3>1. Starts(w, op, id, "validate", body, explicit, Resolve(explicit, None))
      BY <2>1 DEF BeginCreate, Starts
    <3> QED
      BY <3>1, AloneBegin
  <2>2. ASSUME NEW op, NEW id \in Ids, NEW body, NEW explicit,
               BeginUpdate(w, op, id, body, explicit)
        PROVE  AloneInv'
    <3>1. Starts(w, op, id, "validate", body, explicit, Resolve(explicit, disk[id]))
      BY <2>2 DEF BeginUpdate, Starts
    <3> QED
      BY <3>1, AloneBegin
  <2>3. ASSUME NEW id \in Ids, BeginPublish(w, id) PROVE AloneInv'
    <3>1. Starts(w, "publish", id, "rmw", None, "none", "published")
      BY <2>3 DEF BeginPublish, Starts
    <3> QED
      BY <3>1, AloneBegin
  <2>4. ASSUME NEW id \in Ids, BeginUnpublish(w, id) PROVE AloneInv'
    <3>1. Starts(w, "unpublish", id, "rmw", None, "none", "draft")
      BY <2>4 DEF BeginUnpublish, Starts
    <3> QED
      BY <3>1, AloneBegin
  <2>5. ASSUME NEW id \in Ids, BeginDelete(w, id) PROVE AloneInv'
    <3>1. Starts(w, "delete", id, "exists", None, "none", "draft")
      BY <2>5 DEF BeginDelete, Starts
    <3> QED
      BY <3>1, AloneBegin
  <2>6. ASSUME NEW id \in Ids, NEW version, BeginRevert(w, id, version) PROVE AloneInv'
    <3>1. PICK explicit : Starts(w, "revert", id, "current", version.doc.body, explicit,
                                 "draft")
      BY <2>6 DEF BeginRevert, Starts
    <3> QED
      BY <3>1, AloneBegin
  <2> QED
    BY <1>3, <2>1, <2>2, <2>3, <2>4, <2>5, <2>6 DEF Arrive
<1>4. ASSUME NEW w \in Workers, Advance(w) PROVE AloneInv'
  <2>1. Local(w)
    BY <1>4, AdvanceIsLocal
  <2>2. req[w] \in Request /\ StepOK(req[w]) /\ req[w].id \in Ids
    BY <2>1 DEF Local, TypeInv, TypeOK
  <2>3. SUFFICES ASSUME NEW id \in Ids \ overlapped, id = req[w].id, req[w].solo,
                        Holds(req[w], disk[id]), AloneOn(req[w], id),
                        Coherent(id) \/ req[w].pc \in Ahead
                 PROVE  /\ req'[w].pc # "idle" => AloneOn(req[w], id)'
                        /\ /\ id \notin interrupted \union untracked'
                           /\ req'[w].pc = "idle"
                           => refs'[id] = Uploads(disk'[id])
    <3>1. ASSUME NEW id \in Ids \ overlapped, id = req[w].id
          PROVE  /\ req[w].solo /\ Holds(req[w], disk[id]) /\ AloneOn(req[w], id)
                 /\ Coherent(id) \/ req[w].pc \in Ahead
      <4>1. Busy(req[w], id) /\ id \notin stale
        BY <2>1, <3>1 DEF Local, Busy, OverlapInv
      <4>2. req[w].solo /\ \A v \in Workers : Busy(req[v], id) => v = w
        BY <2>2, <3>1, <4>1 DEF OverlapInv
      <4> QED
        BY <2>2, <3>1, <4>1, <4>2 DEF CoherenceInv, AloneInv
    <3> QED
      BY <2>1, <2>3, <3>1, AloneFrame DEF AloneAfter
  <2>4. disk[id] \in Doc \union {None, Torn} /\ interrupted' = interrupted
    BY <2>1 DEF Local, TypeInv, TypeOK
  <2> USE <2>2, <2>3, <2>4
  <2> USE DEF AloneOn, Wrote, Snapshotted, Tracks, KeepsCached, Holds
  <2> USE DEF Saves, Creates, Updates, SetsStatus, DeleteSteps
  <2>5. CASE Validate(w)
    BY <2>5 DEF Validate, ghosts, Goto, Finish, Idle, AfterReload, Request, StepOK, TypeInv, TypeOK
  <2>6. CASE ReadCurrent(w)
    <3>1. CASE disk[req[w].id] \in Doc /\ MaxVersions > 0
      <4>1. /\ req[w].pc = "current" /\ req'[w].pc = "snapshot"
            /\ req'[w].held = disk[req[w].id]
            /\ req'[w].op = req[w].op /\ req'[w].body = req[w].body
            /\ UNCHANGED <<disk, cache, history, refs, reverted, untracked, degraded>>
        BY <2>6, <3>1 DEF ReadCurrent, ghosts, Request, TypeInv, TypeOK
      <4>2. req[w].op \in Saves
        BY <4>1 DEF StepOK, TypeInv
      <4> QED
        BY <3>1, <4>1, <4>2
    <3>2. CASE ~(disk[req[w].id] \in Doc /\ MaxVersions > 0)
      <4>1. /\ req[w].pc = "current" /\ req'[w].pc = "status"
            /\ req'[w].op = req[w].op /\ req'[w].body = req[w].body
            /\ UNCHANGED <<disk, cache, history, refs, reverted, untracked, degraded>>
        BY <2>6, <3>2 DEF ReadCurrent, ghosts, Request, TypeInv, TypeOK
      <4>2. req[w].op \in Saves
        BY <4>1 DEF StepOK, TypeInv
      <4> QED
        BY <3>2, <4>1, <4>2
    <3> QED
      BY <3>1, <3>2
  <2>7. CASE Snapshot(w)
    <3>1. UNCHANGED <<reverted, untracked, degraded>>
      BY <2>7 DEF Snapshot
    <3>2. req[w].op \in Updates \union {"revert"} =>
            req[w].held = disk[id] /\ disk[id] \in Doc
      BY <2>7, SnapshotMoves
    <3>3. id \in postdated' \/ \E v \in history'[id] : v.doc = req[w].held
      BY <2>7, SnapshotIsKept
    <3> QED
      BY <2>7, <3>1, <3>2, <3>3, SnapshotMoves DEF Moved
  <2>8. CASE SaveStatus(w)
    BY <2>8 DEF SaveStatus, ghosts, Goto, Finish, Idle, AfterReload, Request, StepOK, TypeInv, TypeOK
  <2>9. CASE ReadForStatus(w)
    <3>1. req[w].pc = "rmw" /\ req[w].op \in {"publish", "unpublish"}
      BY <2>9 DEF ReadForStatus, StepOK
    <3>2. CASE disk[id] \in Doc
      <4>1. /\ req'[w] = [req[w] EXCEPT !.pc = "truncate", !.body = disk[id].body]
            /\ UNCHANGED <<disk, cache, history, refs, untracked, degraded>>
        BY <2>9, <3>2 DEF ReadForStatus, ghosts, TypeInv, TypeOK
      <4>2. cache[id] = disk[id] \/ degraded
        BY <3>1 DEF Coherent, Ahead
      <4> QED
        BY <3>1, <3>2, <4>1, <4>2 DEF Request
    <3>3. CASE disk[id] \notin Doc
      <4>1. req'[w] = Idle /\ UNCHANGED <<disk, refs, untracked>>
        BY <2>9, <3>3 DEF ReadForStatus, Finish, ghosts, TypeInv, TypeOK
      <4> QED
        BY <3>1, <4>1 DEF Idle
    <3> QED
      BY <3>2, <3>3
  <2>10. CASE Truncate(w)
    <3>1. /\ req[w].pc = "truncate" /\ req'[w] = [req[w] EXCEPT !.pc = "write"]
          /\ UNCHANGED <<cache, refs, untracked, degraded>>
      BY <2>10 DEF Truncate, Goto, TypeInv, TypeOK
    <3> QED
      BY <3>1 DEF Request, StepOK, Uploads
  <2>11. CASE Write(w)
    <3> DEFINE doc == [body |-> req[w].body, status |-> req[w].status]
    <3>1. /\ req[w].pc = "write" /\ req'[w] = [req[w] EXCEPT !.pc = "reload"]
          /\ disk'[id] = doc
          /\ UNCHANGED <<cache, history, refs, degraded>>
      BY <2>11 DEF Write, Goto, TypeInv, TypeOK
    <3>2. doc \in Doc
      BY <3>1 DEF StepOK, Request, Doc
    <3>3. id \notin untracked' =>
            \/ req[w].op \in {"create", "update"}
            \/ req[w].op \in {"publish", "unpublish"} /\ id \notin untracked
      BY <2>11, <3>1 DEF Write, Bulk, StepOK, AllOps
    <3>4. req[w].op = "revert" => id \in reverted'
      BY <2>11 DEF Write
    <3> QED
      BY <3>1, <3>2, <3>3, <3>4 DEF Request, StepOK, Uploads
  <2>12. CASE WriteUnlinked(w)
    BY <2>12 DEF WriteUnlinked, ghosts, Goto, Finish, Idle, AfterReload, Request, StepOK, TypeInv, TypeOK
  <2>13. CASE ReloadRead(w)
    BY <2>13, ReloadReadMoves DEF Reloaded, Moved, ghosts, Idle
  <2>14. CASE ReloadApply(w)
    <3>1. /\ req[w].pc = "cache" /\ Reloaded(w)
          /\ UNCHANGED <<disk, history, refs, reverted, untracked, postdated, degraded>>
      BY <2>14, ReloadApplyMoves
    <3>2. req[w].op # "delete"
      BY <3>1 DEF StepOK
    <3>3. CASE req[w].op \in {"create", "update"}
      BY <3>1, <3>3 DEF Reloaded, Moved
    <3>4. CASE req[w].op \notin {"create", "update"}
      BY <3>1, <3>2, <3>4 DEF Reloaded, Idle
    <3> QED
      BY <3>3, <3>4
  <2>15. CASE UpdateReferences(w)
    <3>1. req[w].pc = "refs" /\ req[w].body \in Bodies /\ disk[id] \in Doc
      BY <2>15 DEF UpdateReferences, StepOK, Request, Doc
    <3>2. /\ req'[w] = Idle /\ refs'[id] = UploadsOf[req[w].body]
          /\ disk' = disk
      BY <2>15 DEF UpdateReferences, Finish, TypeInv, TypeOK
    <3> QED
      BY <3>1, <3>2 DEF Idle, Uploads
  <2>16. CASE Unlink(w)
    BY <2>16 DEF Unlink, ghosts, Goto, Finish, Idle, AfterReload, Request, StepOK, TypeInv, TypeOK
  <2>17. CASE Purge(w)
    BY <2>17 DEF Purge, ghosts, Goto, Finish, Idle, AfterReload, Request, StepOK, TypeInv, TypeOK
  <2>18. CASE Uncache(w)
    <3>1. /\ req[w].pc = "uncache" /\ req'[w] = Idle
          /\ UNCHANGED <<disk, refs>>
      BY <2>18 DEF Uncache, Finish, TypeInv, TypeOK
    <3>2. refs[id] = {} /\ disk[id] = None /\ None \notin Doc
      BY <3>1, SentinelAssumption DEF StepOK
    <3> QED
      BY <3>1, <3>2 DEF Idle, Uploads
  <2>19. CASE CheckExists(w)
    BY <2>19 DEF CheckExists, ghosts, Goto, Finish, Idle, AfterReload, Request, StepOK, TypeInv, TypeOK
  <2>20. CASE UnlinkFails(w)
    <3>1. /\ req[w].pc = "unlink" /\ disk[id] = None
          /\ req'[w] = Idle \/ req'[w] = [req[w] EXCEPT !.pc = "purge"]
          /\ UNCHANGED <<disk, cache, history, refs, untracked, degraded>>
      BY <2>20 DEF UnlinkFails, Goto, Finish, ghosts, TypeInv, TypeOK
    <3>2. req[w].op = "delete" /\ refs[id] = {} /\ Uploads(disk[id]) = {}
      BY <3>1, SentinelAssumption DEF StepOK, Uploads
    <3> QED
      BY <3>1, <3>2 DEF Idle, Request
  <2> QED
    BY <1>4, <2>5, <2>6, <2>7, <2>8, <2>9, <2>10, <2>11, <2>12, <2>13, <2>14, <2>15, <2>16, <2>17, <2>18, <2>19, <2>20 DEF Advance
<1> QED
  BY <1>1, <1>2, <1>3, <1>4 DEF Next

-----------------------------------------------------------------------------
(* KeysUnique.                                                             *)

\* A save that was validated and has not reached the cache.
Pending(r) ==
  r.op \in Creates \union Updates /\ r.pc \notin {"idle", "validate", "refs"}

\* The bodies that stand for an entry: that of its file unless a revert saved
\* it, and the one a request has in hand.
OnFile(id, body) ==
  id \notin reverted /\ disk[id] \in Doc /\ disk[id].body = body

InHand(r, id, body) ==
  /\ Busy(r, id) /\ r.body = body
  /\ \/ Pending(r)
     \/ id \notin reverted /\ r.op \in SetsStatus /\ r.pc = "write"

Claims(id) ==
  {body \in Bodies :
     OnFile(id, body) \/ \E w \in Workers : InHand(req[w], id, body)}

Disjoint ==
  \A i, j \in Ids : \A x \in Claims(i), y \in Claims(j) :
    i # j /\ KeyOf[x] # NoKey => KeyOf[x] # KeyOf[y]

KeysInv == raced \/ overlapped # {} \/ Disjoint

\* While no save is on its way to the cache, the body that stands for an entry
\* is the one a save of another entry is validated against.
LEMMA ClaimsAreCached ==
  ASSUME TypeInv, OverlapInv, CoherenceInv, AloneInv, overlapped = {}, ~degraded,
         Unsettled = {}, NEW id \in Ids, NEW body \in Claims(id)
  PROVE  cache[id] # None /\ cache[id].body = body
<1>1. /\ id \notin stale
      /\ \A w \in Workers : Busy(req[w], id) =>
           req[w].solo /\ Holds(req[w], disk[id]) /\ AloneOn(req[w], id)
  BY DEF OverlapInv, CoherenceInv, AloneInv
<1>2. \A w \in Workers : req[w] \in Request /\ StepOK(req[w]) /\ ~Pending(req[w])
  BY DEF Pending, Unsettled, TypeInv, TypeOK
<1>3. None \notin Doc /\ Torn \notin Doc
  BY SentinelAssumption
<1>4. CASE OnFile(id, body)
  <2>1. CASE Coherent(id)
    BY <1>3, <1>4, <2>1 DEF Coherent, OnFile
  <2>2. ASSUME NEW w \in Workers, Busy(req[w], id), req[w].pc \in Ahead
        PROVE  cache[id] # None /\ cache[id].body = body
    <3> disk[id] \in Doc /\ id \notin reverted /\ AloneOn(req[w], id)
      BY <1>1, <1>4, <2>2 DEF OnFile
    <3>0. req[w].pc \in {"reload", "cache"}
      BY <1>1, <1>3, <2>2 DEF Holds, Ahead
    <3>1. req[w].op \in SetsStatus
      <4>1. req[w].op # "delete" /\ req[w].op \in AllOps
        BY <1>2, <3>0 DEF StepOK, DeleteSteps
      <4>2. req[w].op # "revert"
        BY <3>0 DEF AloneOn
      <4>3. req[w].op \notin Creates \union Updates
        BY <1>2, <3>0 DEF Pending
      <4> QED
        BY <4>1, <4>2, <4>3 DEF AllOps, Saves, SetsStatus
    <3>2. /\ disk[id].body = req[w].body
          /\ cache[id] \in Doc /\ cache[id].body = req[w].body
      BY <1>1, <2>2, <3>0, <3>1 DEF AloneOn, Wrote, KeepsCached
    <3> QED
      BY <1>3, <1>4, <3>2 DEF OnFile
  <2> QED
    BY <1>1, <2>1, <2>2 DEF CoherenceInv
<1>5. ASSUME NEW w \in Workers, InHand(req[w], id, body)
      PROVE  cache[id] # None /\ cache[id].body = body
  <2>1. Busy(req[w], id) /\ req[w].op \in SetsStatus /\ req[w].pc = "write"
    BY <1>2, <1>5 DEF InHand
  <2>2. cache[id] \in Doc /\ cache[id].body = req[w].body
    BY <1>1, <2>1 DEF AloneOn, KeepsCached
  <2> QED
    BY <1>3, <1>5, <2>2 DEF InHand
<1> QED
  BY <1>4, <1>5 DEF Claims

\* The arrival of a request adds no claim.
LEMMA ClaimsBegin ==
  ASSUME TypeInv, NEW w \in Workers, NEW op, NEW id \in Ids,
         NEW pc, NEW body, NEW explicit, NEW status,
         Begin(w, op, id, pc, body, explicit, status), UNCHANGED disk,
         pc \in {"validate", "rmw", "exists"} \/ (op = "revert" /\ pc = "current"),
         pc \in {"rmw", "exists"} => op \notin Creates \union Updates,
         NEW i \in Ids
  PROVE  Claims(i)' \subseteq Claims(i)
<1>1. ASSUME NEW x, NEW v \in Workers, InHand(req[v], i, x)'
      PROVE  InHand(req[v], i, x)
  <2>1. req[v] \in Request
    BY DEF TypeInv, TypeOK
  <2>2. v # w
    BY <1>1 DEF Begin, InHand, Pending, Creates, Updates, TypeInv, TypeOK
  <2>3. /\ req'[v].pc = req[v].pc /\ req'[v].op = req[v].op
        /\ req'[v].id = req[v].id /\ req'[v].body = req[v].body
        /\ reverted' = reverted
    BY <2>1, <2>2 DEF Begin, Request
  <2> QED
    BY <1>1, <2>3 DEF InHand, Busy, Pending
<1> QED
  BY <1>1 DEF Claims, OnFile, Begin

\* Nor does a step of a handler, other than the validation of a save.
LEMMA ClaimsAdvance ==
  ASSUME TypeInv, OverlapInv, CoherenceInv, AloneInv, overlapped = {},
         NEW w \in Workers, Advance(w), ~Validate(w), NEW i \in Ids
  PROVE  Claims(i)' \subseteq Claims(i)
<1>1. Local(w) /\ req[w] \in Request /\ StepOK(req[w])
  BY AdvanceIsLocal DEF TypeInv, TypeOK
<1>2. CASE i # req[w].id
  <2>1. Untouched(i)
    BY <1>1, <1>2 DEF Local
  <2>2. ASSUME NEW v \in Workers, Busy(req'[v], i) PROVE req'[v] = req[v]
    BY <1>1, <1>2, <2>2, LocalBusy
  <2> QED
    BY <2>1, <2>2 DEF Claims, OnFile, InHand, Untouched
<1>3. CASE i = req[w].id
  <2>1. Busy(req[w], i) /\ \A v \in Workers : Busy(req[v], i) => v = w
    BY <1>1, <1>3 DEF Local, Busy, OverlapInv
  <2>2. Holds(req[w], disk[i]) /\ AloneOn(req[w], i)
    BY <2>1 DEF OverlapInv, CoherenceInv, AloneInv
  <2>3. SUFFICES ASSUME NEW x \in Bodies, OnFile(i, x)' \/ InHand(req[w], i, x)'
                 PROVE  OnFile(i, x) \/ InHand(req[w], i, x)
    <3>1. ASSUME NEW v \in Workers, NEW x, InHand(req[v], i, x)' PROVE v = w
      BY <1>1, <2>1, <3>1, LocalBusy DEF InHand
    <3> QED
      BY <2>3, <3>1 DEF Claims
  <2> USE <1>1, <1>3, <2>1, <2>2, <2>3
  <2> USE DEF OnFile, InHand, Busy, Pending, Holds, AloneOn, Wrote
  <2> USE DEF Saves, Creates, Updates, SetsStatus, DeleteSteps
  <2>4. CASE ReadCurrent(w)
    BY <2>4 DEF ReadCurrent, ghosts, Goto, Finish, Idle, AfterReload, Request, StepOK,
       TypeInv, TypeOK
  <2>5. CASE Snapshot(w)
    BY <2>5, SnapshotMoves DEF Snapshot, Moved
  <2>6. CASE SaveStatus(w)
    BY <2>6 DEF SaveStatus, ghosts, Goto, Finish, Idle, AfterReload, Request, StepOK,
       TypeInv, TypeOK
  <2>7. CASE ReadForStatus(w)
    BY <2>7, ReadForStatusMoves DEF Moved, ghosts, Idle
  <2>8. CASE Truncate(w)
    BY <2>8 DEF Truncate, ghosts, Goto, Finish, Idle, AfterReload, Request, StepOK,
       TypeInv, TypeOK
  <2>9. CASE Write(w)
    <3>1. /\ req[w].pc = "write" /\ req'[w] = [req[w] EXCEPT !.pc = "reload"]
          /\ disk'[i] = [body |-> req[w].body, status |-> req[w].status]
      BY <2>9 DEF Write, Goto, TypeInv, TypeOK
    <3>2. i \notin reverted' =>
            \/ req[w].op \in Creates \union Updates
            \/ req[w].op \in SetsStatus /\ i \notin reverted
      BY <2>9, <3>1 DEF Write, StepOK, AllOps
    <3> QED
      BY <3>1, <3>2 DEF Request
  <2>10. CASE WriteUnlinked(w)
    BY <2>10 DEF WriteUnlinked, ghosts, Goto, Finish, Idle, AfterReload, Request, StepOK,
       TypeInv, TypeOK
  <2>11. CASE ReloadRead(w)
    BY <2>11, ReloadReadMoves DEF Reloaded, Moved, ghosts, Idle
  <2>12. CASE ReloadApply(w)
    BY <2>12, ReloadApplyMoves DEF Reloaded, Moved, Idle
  <2>13. CASE UpdateReferences(w)
    BY <2>13 DEF UpdateReferences, ghosts, Goto, Finish, Idle, AfterReload, Request, StepOK,
       TypeInv, TypeOK
  <2>14. CASE Unlink(w)
    BY <2>14 DEF Unlink, ghosts, Goto, Finish, Idle, AfterReload, Request, StepOK,
       TypeInv, TypeOK
  <2>15. CASE Purge(w)
    BY <2>15 DEF Purge, ghosts, Goto, Finish, Idle, AfterReload, Request, StepOK,
       TypeInv, TypeOK
  <2>16. CASE Uncache(w)
    BY <2>16 DEF Uncache, ghosts, Goto, Finish, Idle, AfterReload, Request, StepOK,
       TypeInv, TypeOK
  <2>17. CASE CheckExists(w)
    BY <2>17 DEF CheckExists, ghosts, Goto, Finish, Idle, AfterReload, Request, StepOK,
       TypeInv, TypeOK
  <2>18. CASE UnlinkFails(w)
    BY <2>18 DEF UnlinkFails, ghosts, Goto, Finish, Idle, AfterReload, Request, StepOK,
       TypeInv, TypeOK
  <2> QED
    BY <2>4, <2>5, <2>6, <2>7, <2>8, <2>9, <2>10, <2>11, <2>12, <2>13, <2>14, <2>15, <2>16, <2>17, <2>18 DEF Advance
<1> QED
  BY <1>2, <1>3

LEMMA KeysInvStep ==
  TypeInv /\ OverlapInv /\ CoherenceInv /\ AloneInv /\ KeysInv /\ [Next]_vars
    => KeysInv'
<1> SUFFICES ASSUME TypeInv, OverlapInv, CoherenceInv, AloneInv, Disjoint,
                    overlapped = {}, overlapped' = {}, ~raced, ~raced', [Next]_vars
             PROVE  Disjoint'
  <2>1. ASSUME TypeInv, [Next]_vars
        PROVE  overlapped \subseteq overlapped' /\ (raced => raced')
    <3>1. CASE UNCHANGED vars
      BY <3>1 DEF vars, ghosts
    <3>2. CASE CrashRestart
      BY <3>2 DEF CrashRestart
    <3>3. ASSUME NEW w \in Workers, Arrive(w)
          PROVE  overlapped \subseteq overlapped' /\ (raced => raced')
      BY <3>3 DEF Arrive, BeginCreate, BeginUpdate, BeginPublish, BeginUnpublish,
         BeginDelete, BeginRevert, Begin
    <3>4. ASSUME NEW w \in Workers, Advance(w)
          PROVE  overlapped \subseteq overlapped' /\ (raced => raced')
      BY <2>1, <3>4, AdvanceIsLocal DEF Local
    <3> QED
      BY <2>1, <3>1, <3>2, <3>3, <3>4 DEF Next
  <2> QED
    BY <2>1 DEF KeysInv
<1>1. ASSUME \A i \in Ids : Claims(i)' \subseteq Claims(i) PROVE Disjoint'
  BY <1>1 DEF Disjoint
<1>2. CASE UNCHANGED vars
  BY <1>1, <1>2 DEF vars, ghosts, Claims, OnFile, InHand
<1>3. CASE CrashRestart
  BY <1>1, <1>3 DEF CrashRestart, Claims, OnFile, InHand, Busy, Idle
<1>4. ASSUME NEW w \in Workers, Arrive(w) PROVE Disjoint'
  <2>1. ASSUME NEW op, NEW id \in Ids, NEW body, NEW explicit,
               BeginCreate(w, op, id, body, explicit)
        PROVE  Disjoint'
    <3>1. /\ Begin(w, op, id, "validate", body, explicit, Resolve(explicit, None))
          /\ UNCHANGED disk
      BY <2>1 DEF BeginCreate
    <3>2. \A i \in Ids : Claims(i)' \subseteq Claims(i)
      BY <3>1, ClaimsBegin
    <3> QED
      BY <1>1, <3>2
  <2>4. ASSUME NEW op, NEW id \in Ids, NEW body, NEW explicit,
               BeginUpdate(w, op, id, body, explicit)
        PROVE  Disjoint'
    <3>1. /\ Begin(w, op, id, "validate", body, explicit, Resolve(explicit, disk[id]))
          /\ UNCHANGED disk
      BY <2>4 DEF BeginUpdate
    <3>2. \A i \in Ids : Claims(i)' \subseteq Claims(i)
      BY <3>1, ClaimsBegin
    <3> QED
      BY <1>1, <3>2
  <2>2. ASSUME NEW id \in Ids,
               BeginPublish(w, id) \/ BeginUnpublish(w, id) \/ BeginDelete(w, id)
        PROVE  Disjoint'
    BY <1>1, <2>2, ClaimsBegin DEF BeginPublish, BeginUnpublish, BeginDelete,
       Creates, Updates
  <2>3. ASSUME NEW id \in Ids, NEW version, BeginRevert(w, id, version)
        PROVE  Disjoint'
    BY <1>1, <2>3, ClaimsBegin DEF BeginRevert
  <2> QED
    BY <1>4, <2>1, <2>2, <2>3, <2>4 DEF Arrive
<1>5. ASSUME NEW w \in Workers, Advance(w), ~Validate(w) PROVE Disjoint'
  BY <1>1, <1>5, ClaimsAdvance
<1>6. ASSUME NEW w \in Workers, Validate(w) PROVE Disjoint'
  <2> DEFINE body == req[w].body
  <2>1. /\ req[w] \in Request /\ StepOK(req[w]) /\ req[w].pc = "validate"
        /\ UNCHANGED <<disk, reverted>>
    BY <1>6 DEF Validate, TypeInv, TypeOK
  <2>2. \A v \in Workers \ {w} : req'[v] = req[v]
    BY <1>6 DEF Validate, Goto, Finish, TypeInv, TypeOK
  <2>3. CASE ~Valid(req[w])
    <3>1. req'[w].pc = "idle"
      BY <1>6, <2>3 DEF Validate, Finish, Idle, TypeInv, TypeOK
    <3> QED
      BY <1>1, <2>1, <2>2, <3>1 DEF Claims, OnFile, InHand, Busy
  <2>4. CASE Valid(req[w])
    <3>1. /\ req'[w].body = body /\ req'[w].id = req[w].id /\ req'[w].op = req[w].op
          /\ body \in Bodies /\ req[w].id \in Ids
          /\ req[w].op \in Creates \union Updates
      BY <1>6, <2>1, <2>4 DEF Validate, Goto, Request, StepOK, Saves, TypeInv, TypeOK
    <3>2. Unsettled = {} /\ ~degraded
      BY <1>6, <2>4 DEF Validate
    <3>3. ASSUME NEW i \in Ids, NEW x \in Claims(i)'
          PROVE  x \in Claims(i) \/ (i = req[w].id /\ x = body)
      <4>1. CASE OnFile(i, x)'
        BY <2>1, <3>3, <4>1 DEF Claims, OnFile
      <4>2. ASSUME NEW v \in Workers, InHand(req[v], i, x)'
            PROVE  x \in Claims(i) \/ (i = req[w].id /\ x = body)
        <5>1. CASE v = w
          BY <3>1, <4>2, <5>1 DEF InHand, Busy
        <5>2. CASE v # w
          BY <2>1, <2>2, <3>3, <4>2, <5>2 DEF InHand, Claims
        <5> QED
          BY <5>1, <5>2
      <4> QED
        BY <3>3, <4>1, <4>2 DEF Claims
    <3>4. ASSUME NEW i \in Ids, NEW x \in Claims(i), i # req[w].id,
                 KeyOf[body] # NoKey
          PROVE  KeyOf[x] # KeyOf[body]
      BY <2>4, <3>1, <3>2, <3>4, ClaimsAreCached DEF Valid, KeyIsFree
    <3>5. ASSUME NEW i \in Ids, NEW j \in Ids, i # j,
                 NEW x \in Claims(i)', NEW y \in Claims(j)', KeyOf[x] # NoKey
          PROVE  KeyOf[x] # KeyOf[y]
      BY <3>3, <3>4, <3>5 DEF Disjoint
    <3> QED
      BY <3>5 DEF Disjoint
  <2> QED
    BY <2>3, <2>4
<1> QED
  BY <1>2, <1>3, <1>4, <1>5, <1>6 DEF Next

-----------------------------------------------------------------------------

\* The parts of the inductive invariant hold together.
Inv ==
  /\ TypeInv /\ OverlapInv /\ SoundInv /\ CoherenceInv
  /\ AloneInv /\ KeysInv

LEMMA InitInv == Init => Inv
<1> SUFFICES ASSUME Init PROVE Inv
  OBVIOUS
<1>1. \A w \in Workers : req[w].pc = "idle"
  BY DEF Init, Idle
<1>2. OverlapInv
  BY <1>1 DEF Init, OverlapInv, Busy
<1>3. SoundInv
  BY <1>1 DEF Init, SoundInv, SoundEntry, Sound, Busy
<1>4. CoherenceInv
  BY <1>1 DEF Init, Populate, CoherenceInv, Coherent, Busy
<1>5. AloneInv
  BY <1>1 DEF Init, AloneInv, Busy
<1>6. Disjoint
  <2>1. \A id \in Ids : Claims(id) = {body \in Bodies : OnFile(id, body)}
    BY <1>1 DEF Claims, InHand, Busy
  <2> QED
    BY <2>1 DEF Init, Disjoint, DistinctKeys, OnFile
<1> QED
  BY InitTypes, <1>2, <1>3, <1>4, <1>5, <1>6 DEF Inv, KeysInv

LEMMA InvHolds == Spec => []Inv
<1>1. Inv /\ [Next]_vars => Inv'
  BY TypeInvStep, OverlapInvStep, SoundInvStep, CoherenceInvStep, AloneInvStep,
     KeysInvStep DEF Inv
<1> QED
  BY <1>1, InitInv, PTL DEF Spec

\* The handlers that check the required-if-published fields, those that keep a
\* status they found and those that copy an old version never leave an entry
\* published without the fields, in any interleaving with the handlers of other
\* entries, unless two of them were in flight on that entry or it was reverted
\* to a version without "_status".
THEOREM PublishedCompleteHolds == Spec => []PublishedComplete
<1>1. Inv => PublishedComplete
  BY DEF Inv, SoundInv, SoundEntry, Sound, PublishedComplete
<1> QED
  BY <1>1, InvHolds, PTL

\* Between requests the cache agrees with the files: a handler alone on its
\* entry repairs whatever overlapping handlers left behind, and a restart
\* repairs everything or leaves the schema out of the cache.
THEOREM CacheCoherentHolds == Spec => []CacheCoherent
<1>1. Inv => CacheCoherent
  BY DEF Inv, CoherenceInv, Coherent, Busy, InFlight, CacheCoherent
<1> QED
  BY <1>1, InvHolds, PTL

\* What the database records for an entry is what its file refers to, whatever
\* the order in which a handler writes the file and the rows, as long as it was
\* alone on the entry, lived to its end and is one of those that record.
THEOREM ReferencesTrackContentHolds == Spec => []ReferencesTrackContent
<1>1. Inv => ReferencesTrackContent
  BY DEF Inv, AloneInv, ReferencesTrackContent
<1> QED
  BY <1>1, InvHolds, PTL

\* A save alone on its entry never truncates a document that is not in the
\* history, for every number of versions kept and whatever the clock reads:
\* pruning drops the version that was just added only if as many others as are
\* kept are newer than the clock.
THEOREM OverwrittenIsInHistoryHolds == Spec => []OverwrittenIsInHistory
<1>1. ASSUME Inv, NEW w \in Workers, req[w].pc = "truncate",
             req[w].op \in Updates \union {"revert"}, req[w].id \notin overlapped,
             disk[req[w].id] \in Doc, MaxVersions > 0,
             req[w].id \notin postdated
      PROVE  \E v \in history[req[w].id] : v.doc = disk[req[w].id]
  <2>1. req[w].id \in Ids
    BY <1>1 DEF Inv, TypeInv, StepOK
  <2>2. Snapshotted(req[w], req[w].id, disk[req[w].id], history[req[w].id])
    BY <1>1, <2>1 DEF Inv, AloneInv, AloneOn, Busy
  <2> QED
    BY <1>1, <2>2 DEF Snapshotted
<1>2. Inv => OverwrittenIsInHistory
  BY <1>1 DEF OverwrittenIsInHistory
<1> QED
  BY <1>2, InvHolds, PTL

\* The check against the cache keeps the unique field unique on disk when saves
\* are validated one after the other, each once the earlier ones are cached.
THEOREM KeysUniqueHolds == Spec => []KeysUnique
<1>1. ASSUME Inv, ~raced, overlapped = {}, reverted = {}, NEW i \in Ids, NEW j \in Ids,
             i # j, disk[i] \in Doc, disk[j] \in Doc, KeyOf[disk[i].body] # NoKey
      PROVE  KeyOf[disk[i].body] # KeyOf[disk[j].body]
  <2>1. disk[i].body \in Claims(i) /\ disk[j].body \in Claims(j)
    BY <1>1 DEF Claims, OnFile, Doc
  <2> QED
    BY <1>1, <2>1 DEF Inv, KeysInv, Disjoint
<1>2. Inv => KeysUnique
  BY <1>1 DEF KeysUnique, DistinctKeys
<1> QED
  BY <1>2, InvHolds, PTL

-----------------------------------------------------------------------------
(* The content store implements EntryStore: every step of a handler is a   *)
(* step of the register or a stutter.                                      *)

\* The request of EntryStore that request r stands for.
Abstract(r) ==
  [op |-> IF r.op \in Creates THEN "create"
          ELSE IF r.op \in Updates THEN "update" ELSE r.op,
   body |-> IF r.op \in SetsStatus THEN None ELSE r.body,
   explicit |-> r.explicit,
   done |-> r.pc \in EffectDone]

\* What a handler alone on an entry makes of it.
Stored(r, file) ==
  IF file # Torn THEN file
  ELSE IF r.pc = "write" THEN [body |-> r.body, status |-> r.status] ELSE None

LEMMA AbstractType ==
  ASSUME NEW r \in Request, StepOK(r), r.pc # "idle"
  PROVE  Abstract(r) # None
<1>1. Abstract(r) \in [op : AllOps, body : Bodies \union {None},
                       explicit : Explicit, done : BOOLEAN]
  BY DEF Abstract, Request, StepOK, AllOps, Saves, Creates, Updates
<1> QED
  BY <1>1, SentinelAssumption

LEMMA AbstractSame ==
  ASSUME NEW r, NEW s, s.op = r.op, s.body = r.body, s.explicit = r.explicit,
         s.pc \in EffectDone <=> r.pc \in EffectDone
  PROVE  Abstract(s) = Abstract(r)
<1>1. (s.pc \in EffectDone) = (r.pc \in EffectDone)
  BY DEF EffectDone
<1> QED
  BY <1>1, Zenon DEF Abstract

LEMMA RecordSet ==
  ASSUME NEW op, NEW body, NEW explicit, NEW done, NEW yes
  PROVE  [[op |-> op, body |-> body, explicit |-> explicit, done |-> done] EXCEPT !.done = yes]
           = [op |-> op, body |-> body, explicit |-> explicit, done |-> yes]
<1> DEFINE r == [op |-> op, body |-> body, explicit |-> explicit, done |-> done]
           q == [op |-> op, body |-> body, explicit |-> explicit, done |-> yes]
           p == [r EXCEPT !.done = yes]
<1>1. p = [i \in DOMAIN r |-> IF i = "done" THEN yes ELSE r[i]]
  OBVIOUS
<1>2. q = [i \in DOMAIN q |-> q[i]]
  OBVIOUS
<1>3. DOMAIN r = {"op", "body", "explicit", "done"} /\ DOMAIN q = DOMAIN r
  OBVIOUS
<1>4. \A i \in DOMAIN r : q[i] = IF i = "done" THEN yes ELSE r[i]
  OBVIOUS
<1> HIDE DEF r, q, p
<1>5. p = q
  BY <1>1, <1>2, <1>3, <1>4
<1> QED
  BY <1>5 DEF p, q, r

LEMMA RecordDone ==
  ASSUME NEW op, NEW body, NEW explicit, NEW done
  PROVE  [[op |-> op, body |-> body, explicit |-> explicit, done |-> done] EXCEPT !.done = TRUE]
           = [op |-> op, body |-> body, explicit |-> explicit, done |-> TRUE]
<1>1. PICK yes : yes = TRUE
  BY Zenon
<1>2. [[op |-> op, body |-> body, explicit |-> explicit, done |-> done] EXCEPT !.done = yes]
        = [op |-> op, body |-> body, explicit |-> explicit, done |-> yes]
  BY RecordSet
<1> QED
  BY <1>1, <1>2, Zenon

LEMMA AbstractDone ==
  ASSUME NEW r, NEW s, s.op = r.op, s.body = r.body, s.explicit = r.explicit,
         s.pc \in EffectDone
  PROVE  Abstract(s) = [Abstract(r) EXCEPT !.done = TRUE]
<1> DEFINE op == IF r.op \in Creates THEN "create"
                 ELSE IF r.op \in Updates THEN "update" ELSE r.op
           body == IF r.op \in SetsStatus THEN None ELSE r.body
           done == r.pc \in EffectDone
<1>1. (s.pc \in EffectDone) = TRUE
  BY DEF EffectDone
<1>2. Abstract(s) = [op |-> op, body |-> body, explicit |-> r.explicit, done |-> TRUE]
  BY <1>1, Zenon DEF Abstract
<1>3. Abstract(r) = [op |-> op, body |-> body, explicit |-> r.explicit, done |-> done]
  BY DEF Abstract
<1> HIDE DEF op, body, done
<1>4. [[op |-> op, body |-> body, explicit |-> r.explicit, done |-> done] EXCEPT !.done = TRUE]
        = [op |-> op, body |-> body, explicit |-> r.explicit, done |-> TRUE]
  BY RecordDone, Zenon
<1> QED
  BY <1>2, <1>3, <1>4, Zenon

LEMMA NoRequest ==
  ASSUME NEW id \in Ids, id \in overlapped \/ \A w \in Workers : ~Busy(req[w], id)
  PROVE  PendingRequest(id) = None
BY DEF PendingRequest, InFlight, Busy

LEMMA AloneRequest ==
  ASSUME TypeInv, OverlapInv, NEW id \in Ids \ overlapped, NEW w \in Workers,
         Busy(req[w], id)
  PROVE  /\ PendingRequest(id) = Abstract(req[w])
         /\ StoredDoc(id) = Stored(req[w], disk[id])
<1>1. InFlight(id) = {w}
  BY DEF OverlapInv, InFlight, Busy
<1>2. PendingRequest(id) = Abstract(req[w])
  BY <1>1 DEF PendingRequest, Abstract, SetsStatus
<1>3. Writer(id) = IF req[w].pc = "write" THEN {w} ELSE {}
  BY <1>1 DEF Writer
<1> QED
  BY <1>2, <1>3 DEF StoredDoc, TheWriter, Stored

LEMMA IdleEntry ==
  ASSUME NEW id \in Ids, \A w \in Workers : ~Busy(req[w], id)
  PROVE  StoredDoc(id) = IF disk[id] # Torn THEN disk[id] ELSE None
BY DEF StoredDoc, Writer, InFlight, Busy

LEMMA StoredType ==
  ASSUME TypeInv, NEW id \in Ids
  PROVE  StoredDoc(id) \in Doc \union {None}
<1>1. CASE disk[id] # Torn \/ Writer(id) = {}
  BY <1>1 DEF StoredDoc, TypeInv, TypeOK
<1>2. CASE Writer(id) # {}
  <2>1. TheWriter(id) \in Workers /\ req[TheWriter(id)].pc = "write"
    BY <1>2 DEF TheWriter, Writer, InFlight
  <2>2. req[TheWriter(id)] \in Request /\ StepOK(req[TheWriter(id)])
    BY <2>1 DEF TypeInv, TypeOK
  <2> QED
    BY <2>1, <2>2 DEF StoredDoc, Doc, Request, StepOK, TypeInv, TypeOK
<1> QED
  BY <1>1, <1>2

\* An entry keeps its place in the register when its file and its requests stay
\* as they are.
LEMMA EntryFrame ==
  ASSUME NEW id \in Ids, disk'[id] = disk[id], id \in overlapped' <=> id \in overlapped,
         \A v \in Workers : Busy(req[v], id) <=> Busy(req'[v], id),
         \A v \in Workers : Busy(req[v], id) => req'[v] = req[v]
  PROVE  StoredDoc(id)' = StoredDoc(id) /\ PendingRequest(id)' = PendingRequest(id)
<1>1. InFlight(id)' = InFlight(id)
  BY DEF InFlight, Busy
<1>2. Writer(id)' = Writer(id) /\ TheWriter(id)' = TheWriter(id)
  <2>1. Writer(id)' = Writer(id)
    BY <1>1 DEF Writer, InFlight, Busy
  <2> QED
    BY <2>1 DEF TheWriter
<1>3. StoredDoc(id)' = StoredDoc(id)
  <2>1. CASE Writer(id) = {}
    BY <1>2, <2>1 DEF StoredDoc
  <2>2. CASE Writer(id) # {}
    <3>1. TheWriter(id) \in Workers /\ Busy(req[TheWriter(id)], id)
      BY <2>2 DEF TheWriter, Writer, InFlight, Busy
    <3> QED
      BY <1>2, <3>1 DEF StoredDoc
  <2> QED
    BY <2>1, <2>2
<1>4. PendingRequest(id)' = PendingRequest(id)
  <2>1. CASE InFlight(id) = {}
    BY <1>1, <2>1 DEF PendingRequest
  <2>2. CASE InFlight(id) # {}
    <3> DEFINE w == CHOOSE w \in InFlight(id) : TRUE
    <3>1. w \in Workers /\ Busy(req[w], id) /\ w' = w
      BY <1>1, <2>2 DEF InFlight, Busy
    <3> QED
      BY <1>1, <3>1 DEF PendingRequest
  <2> QED
    BY <2>1, <2>2
<1> QED
  BY <1>3, <1>4

Same(id) == StoredDoc(id)' = StoredDoc(id) /\ PendingRequest(id)' = PendingRequest(id)

\* A step that leaves every other entry in its place, by what it does to one
\* entry of the register.
OnlyAt(id) == overlapped' = overlapped /\ \A i \in Ids \ {id} : Same(i)

LEMMA StutterStep ==
  ASSUME overlapped' = overlapped, unchecked' = unchecked, \A i \in Ids : Same(i)
  PROVE  UNCHANGED Register!vars
BY DEF Same, Register!vars

LEMMA RespondStep ==
  ASSUME NEW id \in Ids, OnlyAt(id), unchecked' = unchecked,
         StoredDoc(id)' = StoredDoc(id),
         PendingRequest(id) # None, PendingRequest(id)' = None
  PROVE  Register!Respond(id)
BY DEF OnlyAt, Same, Register!Respond

LEMMA DisturbStep ==
  ASSUME NEW id \in overlapped, id \in Ids, OnlyAt(id),
         unchecked' \in {unchecked, unchecked \union {id}},
         StoredDoc(id)' \in Doc \union {None}
  PROVE  Register!Disturb(id)
<1>1. PendingRequest(id) = None /\ PendingRequest(id)' = None
  BY DEF OnlyAt, PendingRequest
<1>2. [i \in Ids |-> StoredDoc(i)]'
        = [[i \in Ids |-> StoredDoc(i)] EXCEPT ![id] = StoredDoc(id)']
  BY DEF OnlyAt, Same
<1>3. [i \in Ids |-> PendingRequest(i)]' = [i \in Ids |-> PendingRequest(i)]
  BY <1>1 DEF OnlyAt, Same
<1>4. Register!Doc = Doc
  BY DEF Register!Doc, Doc
<1> HIDE DEF Doc
<1> QED
  BY <1>2, <1>3, <1>4 DEF OnlyAt, Register!Disturb

LEMMA SaveStep ==
  ASSUME NEW id \in Ids, OnlyAt(id), NEW p, p # None, NEW doc,
         PendingRequest(id) = p, ~p.done, p.op \in {"create", "update", "revert"},
         PendingRequest(id)' = [p EXCEPT !.done = TRUE],
         doc = [body |-> p.body,
                status |-> Resolve(p.explicit,
                             IF p.op = "create" THEN None ELSE StoredDoc(id))],
         StoredDoc(id)' = doc,
         unchecked' = IF p.op = "revert" /\ p.explicit = "none"
                      THEN unchecked \union {id} ELSE unchecked,
         \/ p.op = "revert" /\ p.explicit = "none"
         \/ id \in unchecked \/ Sound(doc)
  PROVE  Register!Save(id)
<1>1. Register!Kept(p.explicit, IF p.op = "create" THEN None ELSE StoredDoc(id))
        = doc.status
  BY DEF Register!Kept, Register!Doc, Resolve, Doc
<1>2. [i \in Ids |-> StoredDoc(i)]'
        = [[i \in Ids |-> StoredDoc(i)] EXCEPT ![id] = doc]
  BY DEF OnlyAt, Same
<1>3. Register!Effect(id)
  BY DEF OnlyAt, Same, Register!Effect
<1>4. doc = [body |-> p.body,
             status |-> Register!Kept(p.explicit, IF p.op = "create" THEN None
                                        ELSE [i \in Ids |-> StoredDoc(i)][id])]
  BY <1>1
<1>5. [i \in Ids |-> PendingRequest(i)][id] = p
  OBVIOUS
<1> QED
  BY <1>2, <1>3, <1>4, <1>5 DEF OnlyAt, Register!Save,
     Register!CompleteIfPublished, Sound

LEMMA SetStatusStep ==
  ASSUME NEW id \in Ids, OnlyAt(id), NEW p, p # None, NEW op, NEW status,
         PendingRequest(id) = p, ~p.done, p.op = op,
         PendingRequest(id)' = [p EXCEPT !.done = TRUE],
         StoredDoc(id) \in Doc,
         StoredDoc(id)' = [StoredDoc(id) EXCEPT !.status = status],
         id \in unchecked \/ Sound(StoredDoc(id)'), unchecked' = unchecked
  PROVE  Register!SetStatus(id, op, status)
<1> DEFINE pending == [i \in Ids |-> PendingRequest(i)]
           store == [i \in Ids |-> StoredDoc(i)]
<1>1. pending[id] = p /\ store[id] = StoredDoc(id)
  OBVIOUS
<1>2. /\ pending' = [pending EXCEPT ![id].done = TRUE]
      /\ store' = [store EXCEPT ![id].status = status]
  BY DEF OnlyAt, Same
<1>3. store'[id] = StoredDoc(id)'
  OBVIOUS
<1> QED
  BY <1>1, <1>2, <1>3 DEF OnlyAt, Register!SetStatus, Register!Effect,
     Register!Doc, Doc, Register!CompleteIfPublished, Sound

LEMMA DeleteStep ==
  ASSUME NEW id \in Ids, OnlyAt(id), NEW p, p # None,
         PendingRequest(id) = p, ~p.done, p.op = "delete",
         PendingRequest(id)' = [p EXCEPT !.done = TRUE],
         StoredDoc(id)' = None, unchecked' = unchecked
  PROVE  Register!Delete(id)
BY DEF OnlyAt, Same, Register!Delete, Register!Effect

\* The arrival of a request.
LEMMA BeginStep ==
  ASSUME TypeInv, OverlapInv, NEW w \in Workers, NEW op \in AllOps, NEW id \in Ids,
         NEW pc \in {"validate", "current", "rmw", "exists"},
         NEW body \in Bodies \union {None}, NEW explicit \in Explicit, NEW status,
         Begin(w, op, id, pc, body, explicit, status), UNCHANGED disk,
         op \in Saves => body \in Bodies,
         op \notin Saves => body = None /\ explicit = "none"
  PROVE  [Register!Next]_Register!vars
<1> DEFINE new == [pc |-> pc, op |-> op, id |-> id, body |-> body,
                   explicit |-> explicit, status |-> status,
                   held |-> None, solo |-> InFlight(id) = {}]
<1>1. /\ req[w].pc = "idle" /\ req'[w] = new
      /\ unchecked' = unchecked
      /\ overlapped' = overlapped \union (IF InFlight(id) # {} THEN {id} ELSE {})
  BY DEF Begin, TypeInv, TypeOK
<1>2. ASSUME NEW v \in Workers, v # w, v \notin InFlight(id) PROVE req'[v] = req[v]
  BY <1>2 DEF Begin
<1>3. ASSUME NEW v \in Workers, v # w
      PROVE  /\ req'[v].pc = req[v].pc /\ req'[v].op = req[v].op
             /\ req'[v].id = req[v].id /\ req'[v].body = req[v].body
             /\ req'[v].status = req[v].status
  <2>1. req[v] \in Request
    BY DEF TypeInv, TypeOK
  <2> QED
    BY <1>3, <2>1 DEF Begin, Request
<1>4. ASSUME NEW i \in Ids, i # id PROVE Same(i)
  BY <1>1, <1>2, <1>3, <1>4, EntryFrame DEF Busy, InFlight, Same
<1>5. StoredDoc(id)' = StoredDoc(id)
  <2>1. Writer(id)' = Writer(id) /\ TheWriter(id)' = TheWriter(id)
    <3>1. Writer(id)' = Writer(id)
      BY <1>1, <1>3 DEF Writer, InFlight
    <3> QED
      BY <3>1 DEF TheWriter
  <2>2. Writer(id) # {} => TheWriter(id) \in Workers /\ TheWriter(id) # w
    BY <1>1 DEF TheWriter, Writer, InFlight
  <2> QED
    BY <1>3, <2>1, <2>2 DEF StoredDoc
<1>6. CASE id \in overlapped
  <2>1. PendingRequest(id) = None /\ PendingRequest(id)' = None
    BY <1>1, <1>6 DEF PendingRequest
  <2>2. overlapped' = overlapped
    BY <1>1, <1>6
  <2> QED
    BY <1>1, <1>4, <1>5, <2>1, <2>2, StutterStep DEF Same
<1>7. CASE id \notin overlapped /\ InFlight(id) # {}
  <2>1. PICK v \in Workers : Busy(req[v], id)
    BY <1>7 DEF InFlight, Busy
  <2>2. PendingRequest(id) # None
    BY <1>7, <2>1, AloneRequest, AbstractType DEF TypeInv, TypeOK, Busy
  <2>3. id \in overlapped' /\ overlapped' = overlapped \union {id}
    BY <1>1, <1>7
  <2>4. PendingRequest(id)' = None
    BY <2>3 DEF PendingRequest
  <2>5. Register!Contend(id)
    BY <1>1, <1>4, <1>5, <2>2, <2>3, <2>4 DEF Same, Register!Contend
  <2> QED
    BY <2>5 DEF Register!Next
<1>8. CASE id \notin overlapped /\ InFlight(id) = {}
  <2>1. overlapped' = overlapped
    BY <1>1, <1>8
  <2>2. PendingRequest(id) = None
    BY <1>8 DEF PendingRequest
  <2>3. InFlight(id)' = {w}
    BY <1>1, <1>3, <1>8 DEF InFlight
  <2>4. PendingRequest(id)' =
          [op |-> IF op \in Creates THEN "create"
                  ELSE IF op \in Updates THEN "update" ELSE op,
           body |-> IF op \in SetsStatus THEN None ELSE body,
           explicit |-> explicit, done |-> FALSE]
    <3>1. PendingRequest(id)' = Abstract(req[w])'
      <4>1. id \notin overlapped' /\ InFlight(id)' # {}
        BY <1>8, <2>1, <2>3
      <4>2. (CHOOSE v \in InFlight(id) : TRUE)' = w
        BY <2>3
      <4> QED
        BY <4>1, <4>2 DEF PendingRequest, Abstract, SetsStatus
    <3>2. /\ req'[w].pc = pc /\ req'[w].op = op /\ req'[w].body = body
          /\ req'[w].explicit = explicit
      BY <1>1
    <3>3. (req'[w].pc \in EffectDone) = FALSE
      BY <3>2 DEF EffectDone
    <3>4. PendingRequest(id)' =
            [op |-> IF req'[w].op \in Creates THEN "create"
                    ELSE IF req'[w].op \in Updates THEN "update" ELSE req'[w].op,
             body |-> IF req'[w].op \in SetsStatus THEN None ELSE req'[w].body,
             explicit |-> req'[w].explicit, done |-> req'[w].pc \in EffectDone]
      BY <3>1 DEF Abstract
    <3> QED
      BY <3>2, <3>3, <3>4, Zenon
  <2>5. PendingRequest(id)' \in Register!Requests
    <3>1. CASE op \in Saves
      BY <2>4, <3>1 DEF Register!Requests, Saves, Creates, Updates, SetsStatus, Explicit
    <3>2. CASE op \notin Saves
      <4>1. op \in {"publish", "unpublish", "delete"} /\ body = None /\ explicit = "none"
        BY <3>2 DEF AllOps
      <4>2. PendingRequest(id)' =
              [op |-> op, body |-> None, explicit |-> "none", done |-> FALSE]
        BY <2>4, <4>1 DEF Creates, Updates
      <4> QED
        BY <4>1, <4>2 DEF Register!Requests
    <3> QED
      BY <3>1, <3>2
  <2>6. [i \in Ids |-> PendingRequest(i)]'
          = [[i \in Ids |-> PendingRequest(i)] EXCEPT ![id] = PendingRequest(id)']
    BY <1>4 DEF Same
  <2>7. [i \in Ids |-> StoredDoc(i)]' = [i \in Ids |-> StoredDoc(i)]
    BY <1>4, <1>5 DEF Same
  <2>8. Register!Request(id)
    BY <1>1, <1>8, <2>1, <2>2, <2>5, <2>6, <2>7 DEF Register!Request
  <2> QED
    BY <2>8 DEF Register!Next
<1> QED
  BY <1>6, <1>7, <1>8

\* How each entry appears in the register.
Represented ==
  \A id \in Ids :
    /\ StoredDoc(id) \in Doc \union {None}
    /\ (\A w \in Workers : ~Busy(req[w], id)) =>
         /\ PendingRequest(id) = None
         /\ StoredDoc(id) = IF disk[id] # Torn THEN disk[id] ELSE None
    /\ id \in overlapped => PendingRequest(id) = None
    /\ id \notin overlapped => \A w \in Workers : Busy(req[w], id) =>
         /\ PendingRequest(id) = Abstract(req[w])
         /\ StoredDoc(id) = Stored(req[w], disk[id])

LEMMA RepresentedNow == Inv => Represented
BY StoredType, NoRequest, IdleEntry, AloneRequest DEF Inv, Represented

LEMMA RepresentedNext == Inv' => Represented'
BY RepresentedNow, PTL

\* A step of the handler that works on an entry.
LEMMA AdvanceStep ==
  ASSUME Inv, Inv', NEW w \in Workers, Advance(w)
  PROVE  [Register!Next]_Register!vars
<1>1. Local(w) /\ req[w] \in Request /\ StepOK(req[w])
  BY AdvanceIsLocal DEF Inv, TypeInv, TypeOK
<1>2. PICK id \in Ids : id = req[w].id
  BY <1>1 DEF Local
<1>3. OnlyAt(id)
  <2>1. ASSUME NEW i \in Ids \ {id}
        PROVE  /\ \A v \in Workers : Busy(req[v], i) <=> Busy(req'[v], i)
               /\ \A v \in Workers : Busy(req[v], i) => req'[v] = req[v]
    <3>1. ASSUME NEW v \in Workers, Busy(req'[v], i)
          PROVE  Busy(req[v], i)
      BY <1>1, <1>2, <3>1, LocalBusy DEF Inv
    <3>2. ASSUME NEW v \in Workers, Busy(req[v], i)
          PROVE  req'[v] = req[v]
      BY <1>1, <1>2, <3>2 DEF Local, Busy
    <3> QED
      BY <3>1, <3>2
  <2> QED
    BY <1>1, <1>2, <2>1, EntryFrame DEF OnlyAt, Same, Local, Untouched
<1>4. Busy(req[w], id) /\ overlapped' = overlapped
  BY <1>1, <1>2 DEF Busy, Local
<1>5. Represented /\ Represented'
  BY RepresentedNow, RepresentedNext
<1>6. CASE id \in overlapped
  <2>1. unchecked' \in {unchecked, unchecked \union {id}}
    BY <1>2 DEF ghosts, Advance, Validate, ReadCurrent, Snapshot, SaveStatus,
       ReadForStatus, Truncate, Write, WriteUnlinked, ReloadRead, ReloadApply,
       UpdateReferences, Unlink, Purge, Uncache, CheckExists, UnlinkFails
  <2>2. Register!Disturb(id)
    BY <1>3, <1>5, <1>6, <2>1, DisturbStep DEF Represented
  <2> QED
    BY <2>2 DEF Register!Next
<1>7. CASE id \notin overlapped
  <2> DEFINE r == req[w]
             s == req'[w]
  <2>1. Holds(r, disk[id]) /\ AloneOn(r, id) /\ (id \notin unchecked => WillBeSound(r, disk[id]))
    BY <1>4, <1>7 DEF Inv, OverlapInv, CoherenceInv, AloneInv, SoundInv, SoundEntry
  <2>2. /\ PendingRequest(id) = Abstract(r)
        /\ StoredDoc(id) = Stored(r, disk[id])
        /\ Abstract(r) # None
    BY <1>1, <1>4, <1>5, <1>7, AbstractType DEF Represented, Busy
  <2>3. ASSUME s.pc # "idle"
        PROVE  /\ PendingRequest(id)' = Abstract(s)
               /\ StoredDoc(id)' = Stored(s, disk'[id])
    <3>1. Busy(s, id)
      BY <1>1, <1>2, <2>3 DEF Local, Busy
    <3> QED
      BY <1>4, <1>5, <1>7, <3>1 DEF Represented
  <2>4. ASSUME s.pc = "idle"
        PROVE  /\ PendingRequest(id)' = None
               /\ StoredDoc(id)' = IF disk'[id] # Torn THEN disk'[id] ELSE None
    <3>1. ASSUME NEW v \in Workers, Busy(req'[v], id) PROVE FALSE
      <4>1. v # w
        BY <2>4, <3>1 DEF Busy
      <4>2. Busy(req[v], id)
        BY <1>1, <3>1, LocalBusy DEF Inv
      <4> QED
        BY <1>4, <1>7, <4>1, <4>2 DEF Inv, OverlapInv
    <3> QED
      BY <1>5, <3>1 DEF Represented
  <2>5. ASSUME s.pc = "idle", r.pc # "write", disk'[id] = disk[id],
               unchecked' = unchecked
        PROVE  [Register!Next]_Register!vars
    <3>1. Register!Respond(id)
      BY <1>3, <2>2, <2>4, <2>5, RespondStep DEF Stored
    <3> QED
      BY <3>1 DEF Register!Next
  <2>6. ASSUME s.pc # "idle", Abstract(s) = Abstract(r), unchecked' = unchecked,
               Stored(s, disk'[id]) = Stored(r, disk[id])
        PROVE  [Register!Next]_Register!vars
    <3>1. \A i \in Ids : Same(i)
      BY <1>3, <2>2, <2>3, <2>6 DEF OnlyAt, Same
    <3> QED
      BY <1>4, <2>6, <3>1, StutterStep
  <2>31. ASSUME NEW from \in {"current", "snapshot", "status"},
                NEW to \in {"snapshot", "status", "truncate"},
                r.pc = from, s.pc = to, s.op = r.op, s.body = r.body,
                s.explicit = r.explicit, disk' = disk, unchecked' = unchecked
         PROVE  [Register!Next]_Register!vars
    <3>1. Abstract(s) = Abstract(r)
      BY <2>31, AbstractSame DEF EffectDone
    <3>2. Stored(s, disk'[id]) = Stored(r, disk[id])
      BY <2>31 DEF Stored
    <3> QED
      BY <2>6, <2>31, <3>1, <3>2
  <2>32. r \in Request /\ req \in [Workers -> Request]
    BY <1>1, <1>2 DEF Inv, TypeInv, TypeOK
  <2>8. CASE ReadCurrent(w)
    <3>1. /\ s.pc \in {"snapshot", "status"} /\ s.op = r.op /\ s.body = r.body
          /\ s.explicit = r.explicit
      <4>1. CASE disk[r.id] \in Doc /\ MaxVersions > 0
        <5>1. s = [r EXCEPT !.pc = "snapshot", !.held = disk[r.id]]
          BY <2>8, <2>32, <4>1 DEF ReadCurrent
        <5> QED
          BY <2>32, <5>1 DEF Request
      <4>2. CASE ~(disk[r.id] \in Doc /\ MaxVersions > 0)
        <5>1. s = [r EXCEPT !.pc = "status", !.held = None]
          BY <2>8, <2>32, <4>2 DEF ReadCurrent
        <5> QED
          BY <2>32, <5>1 DEF Request
      <4> QED
        BY <4>1, <4>2
    <3>2. r.pc = "current" /\ disk' = disk /\ unchecked' = unchecked
      BY <2>8 DEF ReadCurrent, ghosts
    <3> QED
      BY <2>31, <3>1, <3>2
  <2>9. CASE Snapshot(w)
    <3>1. /\ s.pc = "status" /\ s.op = r.op /\ s.body = r.body
          /\ s.explicit = r.explicit
      BY <2>9, <2>32 DEF Snapshot, Request
    <3>2. r.pc = "snapshot" /\ disk' = disk /\ unchecked' = unchecked
      BY <2>9 DEF Snapshot, ghosts
    <3> QED
      BY <2>31, <3>1, <3>2
  <2>10. CASE SaveStatus(w)
    <3>1. /\ s.pc = "truncate" /\ s.op = r.op /\ s.body = r.body
          /\ s.explicit = r.explicit
      BY <2>10, <2>32 DEF SaveStatus, Request
    <3>2. r.pc = "status" /\ disk' = disk /\ unchecked' = unchecked
      BY <2>10 DEF SaveStatus, ghosts
    <3> QED
      BY <2>31, <3>1, <3>2
  <2>11. CASE ReadForStatus(w)
    <3>1. /\ r.pc = "rmw" /\ r.op \in SetsStatus /\ disk' = disk
          /\ unchecked' = unchecked
      BY <1>1, <2>11 DEF ReadForStatus, ghosts, Inv, TypeInv, StepOK
    <3>2. CASE disk[r.id] \in Doc
      <4>1. s.pc = "truncate" /\ s.op = r.op /\ s.explicit = r.explicit
        BY <1>1, <2>11, <3>2, ReadForStatusMoves DEF Moved, Idle, Inv
      <4>2. Abstract(s) = Abstract(r)
        BY <3>1, <4>1 DEF Abstract, EffectDone
      <4>3. Stored(s, disk'[id]) = Stored(r, disk[id])
        BY <3>1, <4>1 DEF Stored
      <4> QED
        BY <2>6, <3>1, <4>1, <4>2, <4>3
    <3>3. CASE disk[r.id] \notin Doc
      <4>1. s.pc = "idle"
        BY <2>11, <2>32, <3>3 DEF ReadForStatus, Finish, Idle
      <4> QED
        BY <2>5, <3>1, <4>1
    <3> QED
      BY <3>2, <3>3
  <2> USE <1>1, <1>2
  <2> USE DEF Inv, TypeInv, TypeOK, Abstract, Stored, EffectDone, ghosts, Goto
  <2>30. ASSUME r.op = "delete", r.pc \notin EffectDone, s = [r EXCEPT !.pc = "purge"],
                disk'[id] = None, unchecked' = unchecked
         PROVE  [Register!Next]_Register!vars
    <3>1. s.pc = "purge" /\ s.op = r.op /\ s.body = r.body /\ s.explicit = r.explicit
      BY <2>30 DEF Request
    <3>2. /\ PendingRequest(id)' = [Abstract(r) EXCEPT !.done = TRUE]
          /\ StoredDoc(id)' = None
      BY <2>3, <2>30, <3>1, AbstractDone, SentinelAssumption
    <3>3. ~Abstract(r).done /\ Abstract(r).op = "delete"
      BY <2>30 DEF Creates, Updates
    <3> HIDE DEF Abstract
    <3>4. Register!Delete(id)
      BY <1>3, <2>2, <2>30, <3>2, <3>3, DeleteStep
    <3> QED
      BY <3>4 DEF Register!Next
  <2>7. CASE Validate(w)
    BY <2>7, <2>5, <2>6 DEF Validate, Finish, Idle, AfterReload, Request, StepOK
  <2>12. CASE Truncate(w)
    <3> DEFINE doc == [body |-> r.body, status |-> r.status]
    <3>1. r.pc = "truncate" /\ s = [r EXCEPT !.pc = "write"] /\ disk'[id] = Torn
      BY <2>12 DEF Truncate
    <3>2. /\ PendingRequest(id)' = [Abstract(r) EXCEPT !.done = TRUE]
          /\ StoredDoc(id)' = doc
      <4>1. /\ s.pc = "write" /\ s.op = r.op /\ s.body = r.body
            /\ s.explicit = r.explicit /\ s.status = r.status
        BY <3>1 DEF Request
      <4> QED
        BY <2>3, <3>1, <4>1, AbstractDone
    <3>3. ~Abstract(r).done
      BY <3>1
    <3>4. \/ id \in unchecked \/ Sound(doc)
          \/ r.op = "revert" /\ r.explicit = "none"
      BY <2>1, <3>1 DEF WillBeSound, Sound
    <3>5. CASE r.op \in Saves
      <4>1. /\ Abstract(r).op \in {"create", "update", "revert"}
            /\ Abstract(r).op = "create" <=> r.op \in Creates
            /\ Abstract(r).op = "revert" <=> r.op = "revert"
            /\ Abstract(r).body = r.body /\ Abstract(r).explicit = r.explicit
        BY <3>5 DEF Saves, Creates, Updates, SetsStatus
      <4>2. r.status = Resolve(r.explicit,
                               IF r.op \in Creates THEN None ELSE disk[id])
        BY <2>1, <3>1, <3>5 DEF AloneOn, Wrote, Saves, Creates, Updates, SetsStatus
      <4>3. r.status = Resolve(Abstract(r).explicit,
                               IF Abstract(r).op = "create" THEN None ELSE StoredDoc(id))
        BY <2>2, <3>1, <4>1, <4>2, SentinelAssumption DEF Resolve
      <4>4. unchecked' = IF Abstract(r).op = "revert" /\ Abstract(r).explicit = "none"
                         THEN unchecked \union {id} ELSE unchecked
        BY <2>12, <4>1 DEF Truncate
      <4>5. \/ Abstract(r).op = "revert" /\ Abstract(r).explicit = "none"
            \/ id \in unchecked \/ Sound(doc)
        BY <3>4, <4>1
      <4>6. doc = [body |-> Abstract(r).body,
                   status |-> Resolve(Abstract(r).explicit,
                                IF Abstract(r).op = "create" THEN None ELSE StoredDoc(id))]
        BY <4>1, <4>3
      <4> HIDE DEF Abstract, doc
      <4>7. Register!Save(id)
        BY <1>3, <2>2, <3>2, <3>3, <4>1, <4>4, <4>5, <4>6, SaveStep
      <4> QED
        BY <4>7 DEF Register!Next
    <3>6. CASE r.op \in SetsStatus
      <4>1. /\ Abstract(r).op = r.op /\ r.op \in {"publish", "unpublish"}
            /\ r.status = IF r.op = "publish" THEN "published" ELSE "draft"
        BY <2>1, <3>6 DEF AloneOn, Wrote, SetsStatus, Creates, Updates
      <4>2. StoredDoc(id) \in Doc /\ StoredDoc(id).body = r.body
        BY <2>1, <2>2, <3>1, <3>6, SentinelAssumption DEF AloneOn, Wrote
      <4>3. StoredDoc(id)' = [StoredDoc(id) EXCEPT !.status = r.status]
        BY <3>2, <4>2 DEF Doc
      <4>4. id \in unchecked \/ Sound(StoredDoc(id)')
        BY <3>2, <3>4, <4>1
      <4>5. unchecked' = unchecked
        BY <2>12, <4>1 DEF Truncate
      <4> HIDE DEF Abstract
      <4>6. Register!SetStatus(id, r.op, r.status)
        BY <1>3, <2>2, <3>2, <3>3, <4>1, <4>2, <4>3, <4>4, <4>5, SetStatusStep
      <4> QED
        BY <4>1, <4>6 DEF Register!Next
    <3> QED
      BY <3>1, <3>5, <3>6 DEF StepOK, AllOps, SetsStatus, DeleteSteps
  <2>13. CASE Write(w)
    <3> DEFINE doc == [body |-> r.body, status |-> r.status]
    <3>1. r.pc = "write" /\ s = [r EXCEPT !.pc = "reload"] /\ unchecked' = unchecked
      BY <2>13 DEF Write
    <3>2. disk[id] = Torn /\ disk'[id] = doc
      BY <2>13, <2>1, <3>1 DEF Write, Holds
    <3>3. doc # Torn
      BY <3>1, SentinelAssumption DEF Doc, Request, StepOK
    <3>4. s.pc = "reload" /\ s.op = r.op /\ s.body = r.body /\ s.explicit = r.explicit
      BY <3>1 DEF Request
    <3>5. Abstract(s) = Abstract(r)
      BY <3>1, <3>4, AbstractSame
    <3> QED
      BY <2>6, <3>1, <3>2, <3>3, <3>4, <3>5
  <2>14. CASE WriteUnlinked(w)
    BY <2>14, <2>5, <2>6 DEF WriteUnlinked, Finish, Idle, AfterReload, Request, StepOK
  <2>15. CASE ReloadRead(w)
    <3>1. r.pc = "reload" /\ disk' = disk /\ unchecked' = unchecked
      BY <2>15, ReloadReadMoves
    <3>2. CASE s.pc = "idle"
      BY <2>5, <3>1, <3>2
    <3>3. CASE s.pc # "idle"
      <4>1. /\ s.pc \in {"cache", "refs"} /\ s.op = r.op /\ s.body = r.body
            /\ s.explicit = r.explicit
        BY <2>15, <3>3, ReloadReadMoves DEF Reloaded, Moved, Idle
      <4>2. Abstract(s) = Abstract(r)
        BY <3>1, <4>1, AbstractSame
      <4> QED
        BY <2>6, <3>1, <4>1, <4>2
    <3> QED
      BY <3>2, <3>3
  <2>16. CASE ReloadApply(w)
    <3>1. r.pc = "cache" /\ disk' = disk /\ unchecked' = unchecked /\ Reloaded(w)
      BY <2>16, ReloadApplyMoves
    <3>2. CASE s.pc = "idle"
      BY <2>5, <3>1, <3>2
    <3>3. CASE s.pc # "idle"
      <4>1. /\ s.pc = "refs" /\ s.op = r.op /\ s.body = r.body
            /\ s.explicit = r.explicit
        BY <3>1, <3>3 DEF Reloaded, Moved, Idle
      <4>2. Abstract(s) = Abstract(r)
        BY <3>1, <4>1, AbstractSame
      <4> QED
        BY <2>6, <3>1, <4>1, <4>2
    <3> QED
      BY <3>2, <3>3
  <2>17. CASE UpdateReferences(w)
    BY <2>17, <2>5, <2>6 DEF UpdateReferences, Finish, Idle, AfterReload, Request, StepOK
  <2>18. CASE Unlink(w)
    <3>1. /\ r.pc = "unlink" /\ s = [r EXCEPT !.pc = "purge"] /\ disk'[id] = None
          /\ unchecked' = unchecked
      BY <2>18 DEF Unlink
    <3> QED
      BY <2>30, <3>1 DEF StepOK, DeleteSteps
  <2>19. CASE Purge(w)
    BY <2>19, <2>5, <2>6 DEF Purge, Finish, Idle, AfterReload, Request, StepOK
  <2>20. CASE Uncache(w)
    BY <2>20, <2>5, <2>6 DEF Uncache, Finish, Idle, AfterReload, Request, StepOK
  <2>21. CASE CheckExists(w)
    <3>1. /\ r.pc = "exists" /\ disk' = disk /\ unchecked' = unchecked
          /\ s = [r EXCEPT !.pc = IF disk[id] = None THEN "purge" ELSE "unlink"]
      BY <2>21 DEF CheckExists
    <3>2. CASE disk[id] = None
      BY <2>30, <3>1, <3>2 DEF StepOK, DeleteSteps
    <3>3. CASE disk[id] # None
      BY <2>6, <3>1, <3>3 DEF Request
    <3> QED
      BY <3>2, <3>3
  <2>22. CASE UnlinkFails(w)
    <3>1. /\ r.pc = "unlink" /\ disk[id] = None /\ disk' = disk
          /\ unchecked' = unchecked
          /\ s = Idle \/ s = [r EXCEPT !.pc = "purge"]
      BY <2>22 DEF UnlinkFails, Finish
    <3>2. CASE s = Idle
      BY <2>5, <3>1, <3>2 DEF Idle
    <3>3. CASE s = [r EXCEPT !.pc = "purge"]
      BY <2>30, <3>1, <3>3 DEF StepOK, DeleteSteps
    <3> QED
      BY <3>1, <3>2, <3>3
  <2> QED
    BY <2>7, <2>8, <2>9, <2>10, <2>11, <2>12, <2>13, <2>14, <2>15, <2>16, <2>17, <2>18, <2>19, <2>20, <2>21, <2>22 DEF Advance
<1> QED
  BY <1>6, <1>7

\* A crash loses the requests, and only the documents it may lose.
LEMMA CrashStep ==
  ASSUME Inv, Inv', CrashRestart
  PROVE  Register!Crash
<1> DEFINE lost == {id \in Ids : StoredDoc(id)' # StoredDoc(id)}
<1>1. /\ disk' = disk /\ overlapped' = overlapped /\ unchecked' = unchecked
      /\ \A w \in Workers : req'[w].pc = "idle"
  BY DEF CrashRestart, Idle
<1>2. ASSUME NEW id \in Ids
      PROVE  /\ PendingRequest(id)' = None
             /\ StoredDoc(id)' = IF disk[id] # Torn THEN disk[id] ELSE None
  BY <1>1, RepresentedNext DEF Represented, Busy
<1>3. ASSUME NEW id \in Ids, StoredDoc(id)' # StoredDoc(id)
      PROVE  /\ StoredDoc(id)' = None
             /\ \/ id \in overlapped
                \/ PendingRequest(id) # None /\ PendingRequest(id).done
  <2>1. disk[id] = Torn /\ Writer(id) # {} /\ StoredDoc(id)' = None
    BY <1>2, <1>3 DEF StoredDoc
  <2>2. PICK w \in Workers : Busy(req[w], id) /\ req[w].pc = "write"
    BY <2>1 DEF Writer, InFlight, Busy
  <2>3. ASSUME id \notin overlapped
        PROVE  PendingRequest(id) # None /\ PendingRequest(id).done
    <3>1. PendingRequest(id) = Abstract(req[w])
      BY <2>2, <2>3, AloneRequest DEF Inv
    <3>2. Abstract(req[w]) # None
      BY <2>2, AbstractType DEF Inv, TypeInv, TypeOK
    <3>3. Abstract(req[w]).done
      BY <2>2 DEF Abstract, EffectDone
    <3> QED
      BY <3>1, <3>2, <3>3
  <2> QED
    BY <2>1, <2>3
<1>4. lost \in SUBSET {id \in Ids :
                         \/ id \in overlapped
                         \/ PendingRequest(id) # None /\ PendingRequest(id).done}
  BY <1>3
<1>5. [id \in Ids |-> StoredDoc(id)]'
        = [id \in Ids |-> IF id \in lost THEN None ELSE StoredDoc(id)]
  BY <1>3
<1>6. [id \in Ids |-> PendingRequest(id)]' = [id \in Ids |-> None]
  BY <1>2
<1> HIDE DEF lost
<1>7. PICK gone : gone = lost
  OBVIOUS
<1>8. gone \in SUBSET {id \in Ids :
                         \/ id \in overlapped
                         \/ /\ [i \in Ids |-> PendingRequest(i)][id] # None
                            /\ [i \in Ids |-> PendingRequest(i)][id].done}
  BY <1>4, <1>7
<1>9. [id \in Ids |-> StoredDoc(id)]'
        = [id \in Ids |-> IF id \in gone THEN None
                         ELSE [i \in Ids |-> StoredDoc(i)][id]]
  BY <1>5, <1>7
<1> QED
  BY <1>1, <1>6, <1>8, <1>9 DEF Register!Crash

\* The arrival of a request, whatever it asks for.
LEMMA ArriveStep ==
  ASSUME Inv, NEW w \in Workers, Arrive(w)
  PROVE  [Register!Next]_Register!vars
<1> USE DEF Inv
<1>1. Ops \subseteq AllOps
  BY DataAssumption
<1>2. ASSUME NEW id \in Ids, NEW op \in Ops, NEW body \in Bodies, NEW explicit \in Explicit,
             BeginCreate(w, op, id, body, explicit) \/ BeginUpdate(w, op, id, body, explicit)
      PROVE  [Register!Next]_Register!vars
  <2>1. CASE BeginCreate(w, op, id, body, explicit)
    BY <1>1, <2>1, BeginStep DEF BeginCreate, Saves
  <2>2. CASE BeginUpdate(w, op, id, body, explicit)
    BY <1>1, <2>2, BeginStep DEF BeginUpdate, Saves
  <2> QED
    BY <1>2, <2>1, <2>2
<1>3. ASSUME NEW id \in Ids,
             BeginPublish(w, id) \/ BeginUnpublish(w, id) \/ BeginDelete(w, id)
      PROVE  [Register!Next]_Register!vars
  <2> USE DEF AllOps, Saves, Creates, Updates, Explicit
  <2>1. CASE BeginPublish(w, id)
    BY <2>1, BeginStep DEF BeginPublish
  <2>2. CASE BeginUnpublish(w, id)
    BY <2>2, BeginStep DEF BeginUnpublish
  <2>3. CASE BeginDelete(w, id)
    BY <2>3, BeginStep DEF BeginDelete
  <2> QED
    BY <1>3, <2>1, <2>2, <2>3
<1>4. ASSUME NEW id \in Ids, NEW version \in history[id], BeginRevert(w, id, version)
      PROVE  [Register!Next]_Register!vars
  <2>1. version.doc.body \in Bodies /\ version.doc.status \in Statuses
    BY DEF TypeInv, TypeOK, Version, Doc
  <2> DEFINE explicit == IF version.doc.status = "unset" THEN "none"
                         ELSE version.doc.status
  <2>2. explicit \in Explicit
    BY <2>1 DEF Statuses, Explicit
  <2>3. "revert" \in AllOps /\ "revert" \in Saves
    BY DEF AllOps, Saves
  <2> QED
    BY <1>4, <2>1, <2>2, <2>3, BeginStep DEF BeginRevert
<1> QED
  BY <1>2, <1>3, <1>4 DEF Arrive

\* On an entry that no two handlers work on at once the content store is a
\* register: a request takes effect in one step, the truncation of the file or
\* its removal, with the effect it asked for, and a crash loses no document but
\* one that was being replaced, whatever the other handlers, the other entries
\* and the cache do.
THEOREM ContentStoreIsRegister == Spec => ImplementsEntryStore
<1>1. Init => Register!Init
  <2> SUFFICES ASSUME Init PROVE Register!Init
    OBVIOUS
  <2>1. Inv
    BY InitInv
  <2>2. \A w \in Workers : req[w].pc = "idle"
    BY DEF Init, Idle
  <2>3. ASSUME NEW id \in Ids
        PROVE  PendingRequest(id) = None /\ StoredDoc(id) = disk[id]
    BY <2>1, <2>2, RepresentedNow, SentinelAssumption, DataAssumption
       DEF Represented, Busy, Init
  <2>4. /\ disk \in [Ids -> Doc \union {None}]
        /\ \A id \in Ids : disk[id] # None => disk[id] \in InitialDocs
    BY DataAssumption DEF Init
  <2>5. \A d \in InitialDocs : Register!CompleteIfPublished(d)
    BY DataAssumption DEF Register!CompleteIfPublished
  <2>6. [id \in Ids |-> StoredDoc(id)] \in [Ids -> Register!Doc \union {None}]
    BY <2>3, <2>4 DEF Register!Doc, Doc
  <2> QED
    BY <2>3, <2>4, <2>5, <2>6 DEF Init, Register!Init
<1>2. Inv /\ Inv' /\ [Next]_vars => [Register!Next]_Register!vars
  <2> SUFFICES ASSUME Inv, Inv', [Next]_vars PROVE [Register!Next]_Register!vars
    OBVIOUS
  <2>1. CASE UNCHANGED vars
    <3>1. \A id \in Ids : Same(id)
      BY <2>1, EntryFrame DEF vars, ghosts, Same
    <3> QED
      BY <2>1, <3>1, StutterStep DEF vars, ghosts
  <2>2. CASE CrashRestart
    BY <2>2, CrashStep DEF Register!Next
  <2>3. ASSUME NEW w \in Workers, Arrive(w) PROVE [Register!Next]_Register!vars
    BY <2>3, ArriveStep
  <2>4. ASSUME NEW w \in Workers, Advance(w) PROVE [Register!Next]_Register!vars
    BY <2>4, AdvanceStep
  <2> QED
    BY <2>1, <2>2, <2>3, <2>4 DEF Next
<1> QED
  BY <1>1, <1>2, InvHolds, PTL DEF ImplementsEntryStore, Register!Spec, Spec
=============================================================================
