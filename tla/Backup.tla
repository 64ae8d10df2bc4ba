------------------------------- MODULE Backup -------------------------------
(***************************************************************************)
(* The backup task: it waits for the next scheduled backup or for a manual *)
(* trigger, archives the data directory, uploads the archive to an S3      *)
(* bucket, keeps the newest ones there and a history of records in the     *)
(* audit database.  Administrators change the configuration and send       *)
(* triggers meanwhile; S3 and the archiving may fail; the server may crash *)
(* between any two steps.                                                  *)
(*                                                                         *)
(* Time passes by the hour: what is kept of it is how old each record is   *)
(* and how long the task still sleeps.  Clocks do not go back; the key of  *)
(* an archive is the second of its upload, which two may share.            *)
(*                                                                         *)
(* The database answers.                                                   *)
(***************************************************************************)
EXTENDS Naturals, FiniteSets

CONSTANTS
  Retentions,   \* values of retention_count an administrator may choose
  Frequencies,  \* values of frequency_hours an administrator may choose
  Keep,         \* records that prune_backup_history keeps
  Admins,       \* handlers of trigger requests in progress at once
  MaxAge,       \* bound: hours that are told apart, the oldest age there is
  MaxBackups,   \* bound: backups recorded in one behaviour
  MaxChanges,   \* bound: changes of the configuration in one behaviour
  MaxCrashes    \* bound: crashes in one behaviour

ASSUME BackupAssumption ==
  /\ Retentions \subseteq Nat \ {0} /\ Keep \in Nat \ {0}
  /\ MaxAge \in Nat /\ MaxAge > 1 /\ Frequencies \subseteq 1..MaxAge
  /\ MaxBackups \in Nat /\ MaxChanges \in Nat /\ MaxCrashes \in Nat

VARIABLES
  config,     \* the row of backup_config
  records,    \* the rows of backup_history, with the hours since started_at
  bucket,     \* the keys of the archives in the bucket
  clock,      \* the second of the last upload
  pc,         \* where the task is
  enabled, frequency, \* the configuration as the task read it last
  delay,      \* the hours it still sleeps
  source,     \* what started the backup in progress
  key,        \* the key of the archive it uploaded
  running,    \* state.backup_running
  queued,     \* a message is in the trigger channel, whose capacity is one
  sending,    \* handlers that found no backup running and are about to send
  \* History variables.
  lastId,     \* the id of the last record inserted
  lastDone,   \* the id of the last record completed as a success, or 0
  sinceSuccess, \* the hours since the start of that backup
  changes, crashes

task == <<pc, enabled, frequency, delay, source, key>>
vars == <<config, records, bucket, clock, task, running, queued, sending,
          lastId, lastDone, sinceSuccess, changes, crashes>>

Config == [enabled : BOOLEAN, retention : Retentions, frequency : Frequencies]
\* Ids are given out in the order of started_at.
Record == [id : Nat, status : {"running", "success", "failed"}, key : Nat,
           age : 0..MaxAge]

InBackup == {"record", "archive", "upload", "complete", "retain", "prune"}

Latest == {r \in records : \A s \in records : s.id <= r.id}

\* is_backup_stuck: it has been running for over an hour.
Stuck == {r \in Latest : r.status = "running" /\ r.age > 1}

Successes == {r \in records : r.status = "success"}

\* Mutant: sorted the wrong way round.
FirstSuccess == {r \in Successes : \A s \in Successes : r.id <= s.id}

\* last_successful_backup: none, or the newest.
LastSuccess == {r \in Successes : \A s \in Successes : s.id <= r.id}

\* calculate_next_backup_delay
NextDelays ==
  IF LastSuccess = {} THEN {0}
  ELSE {IF r.age >= frequency THEN 0 ELSE frequency - r.age : r \in LastSuccess}

SetStatus(id, status, k) ==
  records' = {IF r.id = id THEN [r EXCEPT !.status = status, !.key = k] ELSE r :
                r \in records}

-----------------------------------------------------------------------------
(* spawn_backup_task.                                                      *)

ReadConfig ==
  /\ pc \in {"start", "config"}
  /\ enabled' = config.enabled /\ frequency' = config.frequency
  /\ pc' = IF pc = "start" THEN "recover" ELSE "plan"
  /\ UNCHANGED <<config, records, bucket, clock, delay, source, key, running,
                 queued, sending, lastId, lastDone, sinceSuccess, changes, crashes>>

\* Mutant: whatever the latest backup came to.
RecoverAny ==
  /\ pc = "recover"
  /\ IF \E r \in Latest : r.age > 1
     THEN SetStatus(lastId, "failed", 0) /\ running' = FALSE
     ELSE UNCHANGED <<records, running>>
  /\ pc' = "plan"
  /\ UNCHANGED <<config, bucket, clock, enabled, frequency, delay, source, key,
                 queued, sending, lastId, lastDone, sinceSuccess, changes, crashes>>

\* Once after a start: a stuck backup, which the crash ended, has failed.
Recover ==
  /\ pc = "recover"
  /\ IF Stuck # {}
     THEN \E r \in Stuck : SetStatus(r.id, "failed", 0) /\ running' = FALSE
     ELSE UNCHANGED <<records, running>>
  /\ pc' = "plan"
  /\ UNCHANGED <<config, bucket, clock, enabled, frequency, delay, source, key,
                 queued, sending, lastId, lastDone, sinceSuccess, changes, crashes>>

\* A task that found backups disabled waits for a trigger only, and one that
\* sleeps has its delay, whatever becomes of the configuration.
Plan ==
  /\ pc = "plan"
  /\ IF enabled THEN pc' = "sleep" /\ delay' \in NextDelays
                ELSE pc' = "wait" /\ delay' = 0
  /\ UNCHANGED <<config, records, bucket, clock, enabled, frequency, source, key,
                 running, queued, sending, lastId, lastDone, sinceSuccess, changes,
                 crashes>>

\* run_backup takes the lock, or returns.
RunBackup(trigger) ==
  /\ IF running
     THEN pc' = "config" /\ UNCHANGED <<source, running>>
     ELSE pc' = "record" /\ source' = trigger /\ running' = TRUE
  /\ delay' = 0
  /\ UNCHANGED <<config, records, bucket, clock, enabled, frequency, key, sending,
                 lastId, lastDone, sinceSuccess, changes, crashes>>

Wake == pc = "sleep" /\ delay = 0 /\ RunBackup("scheduled") /\ UNCHANGED queued

\* Mutant: the trigger is looked at only while backups are enabled.
ReceiveIfEnabled ==
  pc = "sleep" /\ queued /\ queued' = FALSE /\ RunBackup("manual")

Receive ==
  pc \in {"sleep", "wait"} /\ queued /\ queued' = FALSE /\ RunBackup("manual")

-----------------------------------------------------------------------------
(* run_backup.                                                             *)

Unlocked == pc' = "config" /\ running' = FALSE

StartRecord ==
  /\ pc = "record" /\ lastId < MaxBackups
  /\ lastId' = lastId + 1
  /\ records' = records \union
                  {[id |-> lastId', status |-> "running", key |-> 0, age |-> 0]}
  /\ pc' = "archive"
  /\ UNCHANGED <<config, bucket, clock, enabled, frequency, delay, source, key,
                 running, queued, sending, lastDone, sinceSuccess, changes, crashes>>

\* Mutant: an early return that keeps the lock.
FailLocked ==
  /\ SetStatus(lastId, "failed", 0)
  /\ pc' = "config"
  /\ UNCHANGED running

\* Mutant: a status nothing else knows.
FailUnknown == SetStatus(lastId, "error", 0) /\ Unlocked

Fail == SetStatus(lastId, "failed", 0) /\ Unlocked

CreateArchive ==
  /\ pc = "archive"
  /\ \/ pc' = "upload" /\ UNCHANGED <<records, running>>
     \/ Fail
  /\ UNCHANGED <<config, bucket, clock, enabled, frequency, delay, source, key,
                 queued, sending, lastId, lastDone, sinceSuccess, changes, crashes>>

\* An upload that reports a failure may have stored the archive.
Upload ==
  /\ pc = "upload"
  /\ clock' \in {clock, clock + 1}
  /\ key' = clock'
  /\ \/ pc' = "complete" /\ bucket' = bucket \union {key'}
        /\ UNCHANGED <<records, running>>
     \/ Fail /\ bucket' \in {bucket, bucket \union {key'}}
  /\ UNCHANGED <<config, enabled, frequency, delay, source, queued, sending,
                 lastId, lastDone, sinceSuccess, changes, crashes>>

Complete ==
  /\ pc = "complete"
  /\ SetStatus(lastId, "success", key)
  /\ lastDone' = lastId
  /\ sinceSuccess' \in {r.age : r \in {s \in records : s.id = lastId}}
  /\ pc' = "retain"
  /\ UNCHANGED <<config, bucket, clock, enabled, frequency, delay, source, key,
                 running, queued, sending, lastId, changes, crashes>>

\* Mutant: one too many.
SurplusAndOne(keys, count) ==
  {k \in keys : Cardinality({l \in keys : l > k}) >= count - 1}

\* The oldest of the sorted keys, all but count.
Surplus(keys, count) ==
  {k \in keys : Cardinality({l \in keys : l > k}) >= count}

\* enforce_retention: the list or any deletion may fail.
Retain ==
  /\ pc = "retain"
  /\ \E deleted \in SUBSET Surplus(bucket, config.retention) :
       bucket' = bucket \ deleted
  /\ pc' = "prune"
  /\ UNCHANGED <<config, records, clock, enabled, frequency, delay, source, key,
                 running, queued, sending, lastId, lastDone, sinceSuccess, changes,
                 crashes>>

Prune ==
  /\ pc = "prune"
  /\ records' = {r \in records :
                   Cardinality({s \in records : s.id > r.id}) < Keep}
  /\ Unlocked
  /\ UNCHANGED <<config, bucket, clock, enabled, frequency, delay, source, key,
                 queued, sending, lastId, lastDone, sinceSuccess, changes, crashes>>

-----------------------------------------------------------------------------
(* update_backup_config and trigger_backup.                                *)

UpdateConfig(c) ==
  /\ changes < MaxChanges
  /\ changes' = changes + 1
  /\ config' = c
  /\ UNCHANGED <<records, bucket, clock, task, running, queued, sending, lastId,
                 lastDone, sinceSuccess, crashes>>

\* A trigger is refused while a backup runs.
CheckRunning(a) ==
  /\ a \notin sending
  /\ ~running
  /\ sending' = sending \union {a}
  /\ UNCHANGED <<config, records, bucket, clock, task, running, queued, lastId,
                 lastDone, sinceSuccess, changes, crashes>>

\* try_send: a second message is refused.
Send(a) ==
  /\ a \in sending
  /\ sending' = sending \ {a}
  /\ queued' = TRUE
  /\ UNCHANGED <<config, records, bucket, clock, task, running, lastId, lastDone,
                 sinceSuccess, changes, crashes>>

-----------------------------------------------------------------------------
(* Time, crash and restart.                                                *)

Older(age) == IF age < MaxAge THEN age + 1 ELSE age

\* An hour passes.
Elapse ==
  /\ records' = {[r EXCEPT !.age = Older(@)] : r \in records}
  /\ delay' = IF delay = 0 THEN 0 ELSE delay - 1
  /\ sinceSuccess' = Older(sinceSuccess)
  /\ UNCHANGED <<config, bucket, clock, pc, enabled, frequency, source, key,
                 running, queued, sending, lastId, lastDone, changes, crashes>>

CrashRestart ==
  /\ crashes < MaxCrashes
  /\ crashes' = crashes + 1
  /\ pc' = "start" /\ delay' = 0
  /\ running' = FALSE /\ queued' = FALSE /\ sending' = {}
  /\ UNCHANGED <<config, records, bucket, clock, enabled, frequency, source, key,
                 lastId, lastDone, sinceSuccess, changes>>

Init ==
  /\ config \in Config
  /\ records = {} /\ bucket = {} /\ clock = 1
  /\ pc = "start" /\ enabled = FALSE /\ frequency = config.frequency /\ delay = 0
  /\ source = "manual" /\ key = 0
  /\ running = FALSE /\ queued = FALSE /\ sending = {}
  /\ lastId = 0 /\ lastDone = 0 /\ sinceSuccess = MaxAge
  /\ changes = 0 /\ crashes = 0

Step ==
  \/ ReadConfig \/ Recover \/ Plan \/ Wake \/ Receive
  \/ StartRecord \/ CreateArchive \/ Upload \/ Complete \/ Retain \/ Prune

Next ==
  \/ Step
  \/ \E c \in Config : UpdateConfig(c)
  \/ \E a \in Admins : CheckRunning(a) \/ Send(a)
  \/ Elapse
  \/ CrashRestart

Spec == Init /\ [][Next]_vars

\* The runtime polls the task, requests to S3 end, one way or the other, and
\* time passes.
FairSpec == Spec /\ WF_vars(Step) /\ WF_vars(Elapse)

-----------------------------------------------------------------------------
(* Properties.                                                             *)

\* The variables have the types their comments say.
TypeOK ==
  /\ config \in Config
  /\ records \subseteq Record
  /\ bucket \subseteq Nat /\ clock \in Nat
  /\ pc \in {"start", "config", "recover", "plan", "sleep", "wait"} \union InBackup
  /\ enabled \in BOOLEAN /\ frequency \in Frequencies /\ delay \in 0..MaxAge
  /\ source \in {"scheduled", "manual"} /\ key \in Nat
  /\ running \in BOOLEAN /\ queued \in BOOLEAN /\ sending \subseteq Admins
  /\ lastId \in Nat /\ lastDone \in Nat /\ sinceSuccess \in 0..MaxAge
  /\ changes \in Nat /\ crashes \in Nat

\* The record of the last success stays the last success on record, so that a
\* restart computes the schedule from it: pruning never takes it, nor does the
\* recovery of a stuck backup turn it into a failure.
LastSuccessRemembered ==
  lastDone # 0 => \E r \in LastSuccess : r.id = lastDone

\* A scheduled backup starts no sooner after the start of any success, pruned
\* or not, than the frequency_hours of the configuration the task has planned
\* with: a failure, a manual backup, pruning, a restart, or a change of the
\* frequency in between never make it early by that measure.  It may be early
\* by a frequency that was raised while the task slept: the delay is not
\* computed again.
ScheduleKept ==
  pc = "record" /\ source = "scheduled" => sinceSuccess >= frequency

\* The archive of the last successful backup is in the bucket: failed
\* deletions, archives left by crashes and failed uploads, a retention count
\* lowered meanwhile and two uploads in one second never make retention delete
\* it, and pruning never leaves an older success behind as the last.
LastArchiveKept == \A r \in LastSuccess : r.key \in bucket

\* A backup is due by the configuration as it is.
Due == \A r \in LastSuccess : r.age >= config.frequency

\* A task that was not left waiting for a trigger starts a backup when one is
\* due, again and again after failures: no early return leaves the lock behind.
\* It starts late if the frequency was lowered while the task slept.
DueRuns ==
  config.enabled /\ Due /\ pc # "wait" ~>
    pc = "record" \/ ~Due \/ ~config.enabled \/ pc = "wait"

\* The bound stops the task here.
Bounded == pc = "record" /\ lastId = MaxBackups

\* A trigger that was accepted starts a manual backup, unless a crash loses it:
\* also when it was sent while another backup was starting, and whether the
\* task sleeps until the next backup or waits for a trigger.
TriggerTaken ==
  queued /\ crashes = MaxCrashes ~>
    (pc = "record" /\ source = "manual") \/ Bounded
=============================================================================
