---------------------------- MODULE Backup_proofs ----------------------------
(***************************************************************************)
(* Proofs about Backup, for any retention counts, frequencies, bounds and  *)
(* handlers: the types, what the task remembers of its last success, the   *)
(* schedule, and the archive that retention must leave alone.              *)
(***************************************************************************)
EXTENDS Backup, FiniteSetTheorems, TLAPS

-----------------------------------------------------------------------------
(* Types.                                                                  *)

\* A record keeps its id and its age whatever becomes of its status.
LEMMA SetStatusIsTyped ==
  ASSUME records \subseteq Record, NEW id, NEW k \in Nat,
         NEW status \in {"running", "success", "failed"},
         SetStatus(id, status, k)
  PROVE  records' \subseteq Record
<1> SUFFICES ASSUME NEW r \in records
             PROVE  (IF r.id = id THEN [r EXCEPT !.status = status, !.key = k]
                     ELSE r) \in Record
  BY DEF SetStatus
<1> QED BY DEF Record

LEMMA InitTyped == Init => TypeOK
<1> SUFFICES ASSUME Init PROVE TypeOK
  OBVIOUS
<1> USE DEF Init
<1>1. /\ config \in Config /\ records \subseteq Record /\ bucket \subseteq Nat
  BY Zenon
<1>2. /\ pc \in {"start", "config", "recover", "plan", "sleep", "wait"}
      /\ source \in {"scheduled", "manual"}
  OBVIOUS
<1>3. /\ clock \in Nat /\ key \in Nat /\ lastId \in Nat /\ lastDone \in Nat
      /\ changes \in Nat /\ crashes \in Nat
  OBVIOUS
<1>4. /\ enabled \in BOOLEAN /\ running \in BOOLEAN /\ queued \in BOOLEAN
      /\ sending \subseteq Admins
  BY Zenon
<1>5. frequency \in Frequencies BY <1>1 DEF Config
<1>6. delay \in 0..MaxAge /\ sinceSuccess \in 0..MaxAge BY BackupAssumption
<1> QED BY <1>1, <1>2, <1>3, <1>4, <1>5, <1>6, Zenon DEF TypeOK

\* An age stays within its bound.
LEMMA OlderIsTyped == \A age \in 0..MaxAge : Older(age) \in 0..MaxAge
BY BackupAssumption DEF Older

\* No delay is longer than the frequency.
LEMMA NextDelaysAreTyped == TypeOK => NextDelays \subseteq 0..MaxAge
BY BackupAssumption DEF TypeOK, NextDelays, LastSuccess, Successes, Record

LEMMA StepTyped == TypeOK /\ [Next]_vars => TypeOK'
<1> SUFFICES ASSUME TypeOK, [Next]_vars PROVE TypeOK'
  OBVIOUS
<1> USE DEF TypeOK, Unlocked, InBackup
<1>1. CASE ReadConfig BY <1>1 DEF ReadConfig, Config
<1>2. CASE Recover
  <2>1. records' \subseteq Record BY <1>2, SetStatusIsTyped DEF Recover
  <2> QED BY <1>2, <2>1 DEF Recover
<1>3. CASE Plan
  <2>1. delay' \in 0..MaxAge
    BY <1>3, NextDelaysAreTyped, BackupAssumption DEF Plan
  <2> QED BY <1>3, <2>1 DEF Plan
<1>4. ASSUME NEW trigger \in {"scheduled", "manual"}, RunBackup(trigger),
             queued' \in BOOLEAN
      PROVE  TypeOK'
  <2>1. delay' \in 0..MaxAge BY <1>4, BackupAssumption DEF RunBackup
  <2> QED BY <1>4, <2>1 DEF RunBackup
<1>5. CASE Wake \/ Receive BY <1>4, <1>5 DEF Wake, Receive
<1>6. CASE StartRecord
  <2>1. lastId' \in Nat BY <1>6 DEF StartRecord
  <2>2. [id |-> lastId', status |-> "running", key |-> 0, age |-> 0] \in Record
    BY <2>1, BackupAssumption DEF Record
  <2> QED BY <1>6, <2>1, <2>2 DEF StartRecord
<1>7. CASE CreateArchive
  <2>1. records' \subseteq Record
    BY <1>7, SetStatusIsTyped DEF CreateArchive, Fail
  <2> QED BY <1>7, <2>1 DEF CreateArchive, Fail
<1>8. CASE Upload
  <2>1. records' \subseteq Record BY <1>8, SetStatusIsTyped DEF Upload, Fail
  <2>2. clock' \in Nat /\ key' \in Nat BY <1>8 DEF Upload
  <2>3. bucket' \subseteq Nat BY <1>8, <2>2 DEF Upload
  <2> QED BY <1>8, <2>1, <2>2, <2>3 DEF Upload, Fail
<1>9. CASE Complete
  <2>1. records' \subseteq Record BY <1>9, SetStatusIsTyped DEF Complete
  <2>2. sinceSuccess' \in 0..MaxAge BY <1>9 DEF Complete, Record
  <2> QED BY <1>9, <2>1, <2>2 DEF Complete
<1>10. CASE Retain BY <1>10 DEF Retain
<1>11. CASE Prune BY <1>11 DEF Prune
<1>12. ASSUME NEW c \in Config, UpdateConfig(c) PROVE TypeOK'
  BY <1>12 DEF UpdateConfig, task
<1>13. ASSUME NEW a \in Admins, CheckRunning(a) PROVE TypeOK'
  BY <1>13 DEF CheckRunning, task
<1>14. ASSUME NEW a \in Admins, Send(a) PROVE TypeOK'
  BY <1>14 DEF Send, task
<1>15. CASE Elapse
  <2>1. ASSUME NEW r \in records
        PROVE  [r EXCEPT !.age = Older(@)] \in Record
    <3>1. r.age \in 0..MaxAge BY DEF Record
    <3> QED BY <3>1, OlderIsTyped DEF Record
  <2>2. records' \subseteq Record BY <1>15, <2>1 DEF Elapse
  <2>3. delay' \in 0..MaxAge BY <1>15, BackupAssumption DEF Elapse
  <2>4. sinceSuccess' \in 0..MaxAge BY <1>15, OlderIsTyped DEF Elapse
  <2> QED BY <1>15, <2>2, <2>3, <2>4 DEF Elapse
<1>16. CASE CrashRestart
  <2>1. running' \in BOOLEAN /\ queued' \in BOOLEAN /\ enabled' \in BOOLEAN
    BY <1>16, Zenon DEF CrashRestart
  <2>2. crashes' \in Nat /\ delay' \in 0..MaxAge
    BY <1>16, BackupAssumption DEF CrashRestart
  <2> QED BY <1>16, <2>1, <2>2 DEF CrashRestart
<1>17. CASE UNCHANGED vars BY <1>17 DEF vars, task
<1> QED BY <1>1, <1>2, <1>3, <1>5, <1>6, <1>7, <1>8, <1>9, <1>10, <1>11,
           <1>12, <1>13, <1>14, <1>15, <1>16, <1>17 DEF Next, Step

\* The variables always have the types their comments say.
THEOREM TypeCorrect == Spec => []TypeOK
  BY InitTyped, StepTyped, PTL DEF Spec
-----------------------------------------------------------------------------
(* The inductive invariant.                                                *)

\* Ids tell the records apart, and the last success is on record; the backup
\* in progress is newer until it completes, so nothing that fails a record
\* fails the last success, and pruning comes when the last success is the
\* latest record.
HistoryInv ==
  /\ lastDone <= lastId
  /\ \A r \in records : 0 < r.id /\ r.id <= lastId
  /\ \A r, s \in records : r.id = s.id => r = s
  /\ \A r \in Successes : r.id <= lastDone
  /\ lastDone # 0 => \E r \in Successes : r.id = lastDone
  /\ pc \in {"archive", "upload", "complete"} =>
       lastDone < lastId /\ \E r \in records : r.id = lastId
  /\ pc \in {"retain", "prune"} => lastDone = lastId

\* The age of the last success is that of its record, so that a sleeping task
\* has left at least what the frequency it has planned with still asks for.
SleepInv ==
  /\ lastDone = 0 => sinceSuccess = MaxAge
  /\ \A r \in Successes : r.id = lastDone => r.age = sinceSuccess
  /\ pc = "sleep" => sinceSuccess + delay >= frequency
  /\ ScheduleKept

\* The archive of the last success is in the bucket, and at the time of
\* retention its key is the greatest.
ArchiveInv ==
  /\ \A k \in bucket : k <= clock
  /\ \A r \in Successes : r.id = lastDone => r.key \in bucket
  /\ pc \in {"complete", "retain"} => key = clock /\ key \in bucket
  /\ pc = "retain" => \A r \in Successes : r.id = lastDone => r.key = key

Inv == TypeOK /\ HistoryInv /\ SleepInv /\ ArchiveInv

\* A row of backup_history.
Row(id, status, k, age) == [id |-> id, status |-> status, key |-> k, age |-> age]

LEMMA RowFields ==
  \A id, status, k, age :
    LET row == Row(id, status, k, age)
    IN  row.id = id /\ row.status = status /\ row.key = k /\ row.age = age
BY DEF Row

\* What SetStatus does to the rows, row by row.
LEMMA SetStatusRows ==
  ASSUME records \subseteq Record, NEW id, NEW k, NEW status,
         SetStatus(id, status, k)
  PROVE  /\ \A t \in records' :
              \/ \E r \in records : r.id = id /\ t = Row(id, status, k, r.age)
              \/ t \in records /\ t.id # id
         /\ \A r \in records : r.id # id => r \in records'
         /\ \A r \in records : r.id = id => Row(id, status, k, r.age) \in records'
<1>1. ASSUME NEW r \in records, r.id = id
      PROVE  [r EXCEPT !.status = status, !.key = k] = Row(id, status, k, r.age)
  <2>1. r \in [id : Nat, status : {"running", "success", "failed"}, key : Nat,
               age : 0..MaxAge]
    BY <1>1 DEF Record
  <2>2. [r EXCEPT !.status = status, !.key = k]
          \in [id : {id}, status : {status}, key : {k}, age : {r.age}]
    BY <1>1, <2>1
  <2>3. \A x \in [id : {id}, status : {status}, key : {k}, age : {r.age}] :
          x = Row(id, status, k, r.age)
    BY DEF Row
  <2> QED BY <2>2, <2>3, Zenon
<1> QED BY <1>1 DEF SetStatus

\* What an hour does to the rows, row by row.
LEMMA ElapseRows ==
  ASSUME records \subseteq Record, Elapse
  PROVE  LET older(r) == Row(r.id, r.status, r.key, Older(r.age))
         IN  /\ \A t \in records' : \E r \in records : t = older(r)
             /\ \A r \in records : older(r) \in records'
<1>1. ASSUME NEW r \in records
      PROVE  [r EXCEPT !.age = Older(@)] = Row(r.id, r.status, r.key, Older(r.age))
  <2>1. r \in [id : Nat, status : {"running", "success", "failed"}, key : Nat,
               age : 0..MaxAge]
    BY <1>1 DEF Record
  <2>2. [r EXCEPT !.age = Older(@)]
          \in [id : {r.id}, status : {r.status}, key : {r.key}, age : {Older(r.age)}]
    BY <2>1
  <2>3. \A x \in [id : {r.id}, status : {r.status}, key : {r.key},
                  age : {Older(r.age)}] :
          x = Row(r.id, r.status, r.key, Older(r.age))
    BY DEF Row
  <2> QED BY <2>2, <2>3, Zenon
<1> QED BY <1>1 DEF Elapse

\* Failing a record that is not the last success leaves the history, and the
\* last success with its archive, as they should be.
LEMMA FailKeepsHistory ==
  ASSUME TypeOK, HistoryInv, NEW id, id # lastDone,
         SetStatus(id, "failed", 0), lastDone' = lastDone, lastId' = lastId
  PROVE  /\ \A r \in records' : 0 < r.id /\ r.id <= lastId
         /\ \A r, s \in records' : r.id = s.id => r = s
         /\ Successes' \subseteq Successes
         /\ lastDone # 0 => \E r \in Successes' : r.id = lastDone
<1>1. /\ \A t \in records' :
           \/ \E r \in records : r.id = id /\ t = Row(id, "failed", 0, r.age)
           \/ t \in records /\ t.id # id
      /\ \A r \in records : r.id # id => r \in records'
  BY SetStatusRows DEF TypeOK
<1>2. \A age : /\ Row(id, "failed", 0, age).id = id
               /\ Row(id, "failed", 0, age).status = "failed"
  BY RowFields
<1>3. \A r, s \in records' : r.id = s.id => r = s
  BY <1>1, <1>2 DEF HistoryInv
<1> QED BY <1>1, <1>2, <1>3 DEF HistoryInv, Successes

LEMMA HistoryStep == TypeOK /\ HistoryInv /\ [Next]_vars => HistoryInv'
<1> SUFFICES ASSUME TypeOK, HistoryInv, [Next]_vars PROVE HistoryInv'
  OBVIOUS
<1>1. ASSUME UNCHANGED <<records, lastId, lastDone>>,
             pc' \notin InBackup \/ pc' = "record" \/ pc' = pc
      PROVE  HistoryInv'
  BY <1>1 DEF HistoryInv, Successes, InBackup
<1>2. CASE ReadConfig BY <1>1, <1>2 DEF ReadConfig, InBackup
<1>3. CASE Recover
  <2>1. CASE UNCHANGED records
    BY <1>1, <1>3, <2>1 DEF Recover, InBackup
  <2>2. ASSUME NEW r \in Stuck, SetStatus(r.id, "failed", 0)
        PROVE  HistoryInv'
    <3>1. r \in records /\ r.status = "running"
      BY <2>2 DEF Stuck, Latest
    <3>2. r.id # lastDone
      BY <3>1 DEF HistoryInv, Successes, TypeOK, Record
    <3> QED BY <1>3, <2>2, <3>2, FailKeepsHistory
            DEF Recover, HistoryInv, TypeOK
  <2> QED BY <1>3, <2>1, <2>2 DEF Recover
<1>4. CASE Plan BY <1>1, <1>4 DEF Plan, InBackup
<1>5. CASE Wake BY <1>1, <1>5 DEF Wake, RunBackup, InBackup
<1>6. CASE Receive BY <1>1, <1>6 DEF Receive, RunBackup, InBackup
<1>7. CASE StartRecord
  <2>1. lastId' = lastId + 1 /\ lastDone' = lastDone /\ pc' = "archive"
    BY <1>7 DEF StartRecord
  <2>2. Successes' = Successes BY <1>7 DEF StartRecord, Successes
  <2> DEFINE row == [id |-> lastId', status |-> "running", key |-> 0, age |-> 0]
  <2>0. row.id = lastId' /\ records' = records \union {row}
    BY <1>7 DEF StartRecord
  <2> HIDE DEF row
  <2>3. /\ \A r \in records' : r \in records \/ r.id = lastId'
        /\ \E r \in records' : r.id = lastId'
    BY <2>0
  <2>4. \A r, s \in records' : r.id = s.id => r = s
    BY <2>0, <2>1 DEF HistoryInv, TypeOK, Record
  <2> QED BY <2>1, <2>2, <2>3, <2>4 DEF HistoryInv, TypeOK, Record
<1>8. ASSUME Fail, UNCHANGED <<lastId, lastDone>>,
             pc \in {"archive", "upload", "complete"}
      PROVE  HistoryInv'
  <2>1. lastDone < lastId BY <1>8 DEF HistoryInv
  <2> QED BY <1>8, <2>1, FailKeepsHistory DEF Fail, Unlocked, HistoryInv, TypeOK
<1>9. CASE CreateArchive
  BY <1>1, <1>8, <1>9 DEF CreateArchive, HistoryInv, Successes
<1>10. CASE Upload
  BY <1>1, <1>8, <1>10 DEF Upload, HistoryInv, Successes
<1>11. CASE Complete
  <2>1. lastId' = lastId /\ lastDone' = lastId /\ pc' = "retain" /\ lastId # 0
    BY <1>11 DEF Complete, HistoryInv, TypeOK
  <2>2. /\ \A t \in records' :
             \/ \E r \in records :
                  r.id = lastId /\ t = Row(lastId, "success", key, r.age)
             \/ t \in records /\ t.id # lastId
        /\ \A r \in records :
             r.id = lastId => Row(lastId, "success", key, r.age) \in records'
    BY <1>11, SetStatusRows DEF Complete, TypeOK
  <2>3. \A age : /\ Row(lastId, "success", key, age).id = lastId
                 /\ Row(lastId, "success", key, age).status = "success"
    BY RowFields
  <2>4. lastId \in Nat /\ \E r \in records : r.id = lastId
    BY <1>11 DEF Complete, HistoryInv, TypeOK
  <2>5. /\ \A t \in records' : 0 < t.id /\ t.id <= lastId
        /\ \A t, u \in records' : t.id = u.id => t = u
    BY <2>1, <2>2, <2>3, <2>4 DEF HistoryInv
  <2>6. \E t \in Successes' : t.id = lastDone'
    BY <2>1, <2>2, <2>3, <2>4 DEF Successes
  <2> QED BY <2>1, <2>4, <2>5, <2>6 DEF HistoryInv, Successes
<1>12. CASE Retain BY <1>1, <1>12 DEF Retain, HistoryInv, Successes
<1>13. CASE Prune
  <2>1. ASSUME NEW r \in records, r.id = lastId
        PROVE  r \in records'
    <3>1. {s \in records : s.id > r.id} = {}
      BY <2>1 DEF HistoryInv, TypeOK, Record
    <3>2. Cardinality({s \in records : s.id > r.id}) = 0
      BY <3>1, FS_EmptySet
    <3> QED BY <1>13, <2>1, <3>2, BackupAssumption DEF Prune
  <2>2. records' \subseteq records /\ lastId' = lastId /\ lastDone' = lastDone
        /\ lastDone = lastId /\ pc' = "config"
    BY <1>13 DEF Prune, Unlocked, HistoryInv
  <2> QED BY <2>1, <2>2 DEF HistoryInv, Successes
<1>14. ASSUME NEW c \in Config, UpdateConfig(c) PROVE HistoryInv'
  BY <1>1, <1>14 DEF UpdateConfig, task
<1>15. ASSUME NEW a \in Admins, CheckRunning(a) \/ Send(a) PROVE HistoryInv'
  BY <1>1, <1>15 DEF CheckRunning, Send, task
<1>16. CASE Elapse
  <2> DEFINE older(r) == Row(r.id, r.status, r.key, Older(r.age))
  <2>1. /\ \A t \in records' : \E r \in records : t = older(r)
        /\ \A r \in records : older(r) \in records'
    BY <1>16, ElapseRows DEF TypeOK
  <2>2. \A r : older(r).id = r.id /\ older(r).status = r.status
    BY RowFields
  <2> HIDE DEF older
  <2>3. UNCHANGED <<pc, lastId, lastDone>> BY <1>16 DEF Elapse
  <2>4. \A t, u \in records' : t.id = u.id => t = u
    BY <2>1, <2>2 DEF HistoryInv
  <2> QED BY <2>1, <2>2, <2>3, <2>4 DEF HistoryInv, Successes
<1>17. CASE CrashRestart BY <1>1, <1>17 DEF CrashRestart, InBackup
<1>18. CASE UNCHANGED vars BY <1>1, <1>18 DEF vars, task
<1> QED BY <1>2, <1>3, <1>4, <1>5, <1>6, <1>7, <1>9, <1>10, <1>11, <1>12,
           <1>13, <1>14, <1>15, <1>16, <1>17, <1>18 DEF Next, Step

\* The query for the last success finds the record of lastDone.
LEMMA LastSuccessIsLastDone ==
  ASSUME TypeOK, HistoryInv
  PROVE  /\ \A r \in Successes : r \in LastSuccess <=> r.id = lastDone
         /\ lastDone # 0 => \E r \in LastSuccess : r.id = lastDone
<1>1. \A r \in Successes : r.id \in Nat /\ 0 < r.id /\ r.id <= lastDone
  BY DEF HistoryInv, Successes, TypeOK, Record
<1>2. lastDone # 0 => \E r \in Successes : r.id = lastDone
  BY DEF HistoryInv
<1> QED BY <1>1, <1>2 DEF LastSuccess, TypeOK

LEMMA SleepStep ==
  TypeOK /\ HistoryInv /\ SleepInv /\ [Next]_vars => SleepInv'
<1> SUFFICES ASSUME TypeOK, HistoryInv, SleepInv, [Next]_vars PROVE SleepInv'
  OBVIOUS
<1> USE DEF SleepInv, ScheduleKept
<1>0. /\ sinceSuccess \in 0..MaxAge /\ delay \in 0..MaxAge
      /\ frequency \in 1..MaxAge /\ MaxAge \in Nat
  BY BackupAssumption DEF TypeOK
<1>1. ASSUME UNCHANGED <<lastDone, sinceSuccess>>, Successes' \subseteq Successes,
             pc' \notin {"record", "sleep"}
      PROVE  SleepInv'
  BY <1>1
<1>2. ASSUME UNCHANGED <<lastDone, sinceSuccess, records, task>> PROVE SleepInv'
  BY <1>2 DEF task, Successes
<1>3. ASSUME UNCHANGED <<lastDone, lastId>>, NEW id, id # lastDone,
             SetStatus(id, "failed", 0)
      PROVE  Successes' \subseteq Successes
  BY <1>3, FailKeepsHistory
<1>4. CASE Recover
  <2>1. CASE UNCHANGED records BY <1>1, <1>4, <2>1 DEF Recover, Successes
  <2>2. ASSUME NEW r \in Stuck, SetStatus(r.id, "failed", 0) PROVE SleepInv'
    <3>1. r \in records /\ r.status = "running" BY <2>2 DEF Stuck, Latest
    <3>2. r.id # lastDone BY <3>1 DEF HistoryInv, Successes, TypeOK, Record
    <3> QED BY <1>1, <1>3, <1>4, <2>2, <3>2 DEF Recover
  <2> QED BY <1>4, <2>1, <2>2 DEF Recover
<1>5. CASE Plan
  <2>1. UNCHANGED <<lastDone, sinceSuccess, records, frequency>>
        /\ pc' \in {"sleep", "wait"} /\ (pc' = "sleep" => delay' \in NextDelays)
    BY <1>5 DEF Plan
  <2>2. ASSUME delay' \in NextDelays PROVE sinceSuccess + delay' >= frequency
    <3>1. CASE LastSuccess = {}
      <4>1. sinceSuccess = MaxAge BY <3>1, LastSuccessIsLastDone
      <4> QED BY <1>0, <2>2, <3>1, <4>1 DEF NextDelays
    <3>2. CASE LastSuccess # {}
      <4>1. PICK r \in LastSuccess :
              delay' = IF r.age >= frequency THEN 0 ELSE frequency - r.age
        BY <2>2, <3>2 DEF NextDelays
      <4>2. r \in Successes /\ r.id = lastDone
        BY <4>1, LastSuccessIsLastDone DEF LastSuccess
      <4>3. r.age = sinceSuccess BY <4>2
      <4> QED BY <1>0, <4>1, <4>3
    <3> QED BY <3>1, <3>2
  <2> QED BY <2>1, <2>2 DEF Successes
<1>6. CASE Wake
  <2>1. sinceSuccess >= frequency BY <1>0, <1>6 DEF Wake
  <2> QED BY <1>6, <2>1 DEF Wake, RunBackup, Successes
<1>7. CASE Receive BY <1>7 DEF Receive, RunBackup, Successes
<1>8. CASE StartRecord
  <2>1. Successes' = Successes BY <1>8 DEF StartRecord, Successes
  <2> QED BY <1>1, <1>8, <2>1 DEF StartRecord
<1>9. CASE CreateArchive \/ Upload
  <2>1. lastId # lastDone
    BY <1>9 DEF CreateArchive, Upload, HistoryInv, TypeOK
  <2> QED BY <1>1, <1>3, <1>9, <2>1
          DEF CreateArchive, Upload, Fail, Unlocked, Successes
<1>10. CASE Complete
  <2>1. lastId # 0 /\ lastDone' = lastId /\ pc' = "retain"
    BY <1>10 DEF Complete, HistoryInv, TypeOK
  <2>2. PICK r \in records : r.id = lastId /\ sinceSuccess' = r.age
    BY <1>10 DEF Complete
  <2>3. \A t \in records' :
          \/ \E s \in records :
               s.id = lastId /\ t = Row(lastId, "success", key, s.age)
          \/ t \in records /\ t.id # lastId
    BY <1>10, SetStatusRows DEF Complete, TypeOK
  <2>4. \A age : Row(lastId, "success", key, age).age = age
    BY RowFields
  <2>5. \A s \in records : s.id = lastId => s.age = r.age
    BY <2>2 DEF HistoryInv
  <2>6. \A t \in records' : t.id = lastId => t.age = sinceSuccess'
    BY <2>2, <2>3, <2>4, <2>5
  <2> QED BY <2>1, <2>6 DEF Successes
<1>11. CASE Elapse
  <2> DEFINE older(r) == Row(r.id, r.status, r.key, Older(r.age))
  <2>1. \A t \in records' : \E r \in records : t = older(r)
    BY <1>11, ElapseRows DEF TypeOK
  <2>2. \A r : /\ older(r).id = r.id /\ older(r).status = r.status
               /\ older(r).age = Older(r.age)
    BY RowFields
  <2> HIDE DEF older
  <2>3. /\ UNCHANGED <<pc, source, frequency, lastDone>>
        /\ sinceSuccess' = Older(sinceSuccess)
        /\ delay' = IF delay = 0 THEN 0 ELSE delay - 1
    BY <1>11 DEF Elapse
  <2>4. \A r \in Successes' : r.id = lastDone => r.age = sinceSuccess'
    BY <2>1, <2>2, <2>3 DEF Successes
  <2>5. lastDone = 0 => sinceSuccess' = MaxAge BY <1>0, <2>3 DEF Older
  <2>6. pc = "sleep" => sinceSuccess' + delay' >= frequency
    BY <1>0, <2>3 DEF Older
  <2>7. sinceSuccess >= frequency => sinceSuccess' >= frequency
    BY <1>0, <2>3 DEF Older
  <2> QED BY <2>3, <2>4, <2>5, <2>6, <2>7
<1>12. CASE ReadConfig \/ Retain
  BY <1>1, <1>12 DEF ReadConfig, Retain, Successes
<1>13. CASE Prune BY <1>1, <1>13 DEF Prune, Unlocked, Successes
<1>14. ASSUME NEW c \in Config, UpdateConfig(c) PROVE SleepInv'
  BY <1>2, <1>14 DEF UpdateConfig
<1>15. ASSUME NEW a \in Admins, CheckRunning(a) \/ Send(a) PROVE SleepInv'
  BY <1>2, <1>15 DEF CheckRunning, Send
<1>16. CASE CrashRestart BY <1>1, <1>16 DEF CrashRestart, Successes
<1>17. CASE UNCHANGED vars BY <1>2, <1>17 DEF vars
<1> QED BY <1>4, <1>5, <1>6, <1>7, <1>8, <1>9, <1>10, <1>11, <1>12, <1>13,
           <1>14, <1>15, <1>16, <1>17 DEF Next, Step

LEMMA ArchiveStep ==
  TypeOK /\ HistoryInv /\ ArchiveInv /\ [Next]_vars => ArchiveInv'
<1> SUFFICES ASSUME TypeOK, HistoryInv, ArchiveInv, [Next]_vars PROVE ArchiveInv'
  OBVIOUS
<1> USE DEF ArchiveInv
\* Whatever else happens, a success or an archive does not come from nowhere.
<1>1. ASSUME UNCHANGED <<bucket, clock, lastDone>>, Successes' \subseteq Successes,
             pc' \notin {"complete", "retain"}
      PROVE  ArchiveInv'
  BY <1>1
<1>2. ASSUME UNCHANGED <<bucket, clock, lastDone, records, pc, key>>
      PROVE  ArchiveInv'
  BY <1>2 DEF Successes
<1>3. ASSUME UNCHANGED lastDone, NEW id, id # lastDone, SetStatus(id, "failed", 0),
             UNCHANGED lastId
      PROVE  Successes' \subseteq Successes
  BY <1>3, FailKeepsHistory
<1>4. CASE Recover
  <2>1. CASE UNCHANGED records BY <1>1, <1>4, <2>1 DEF Recover, Successes
  <2>2. ASSUME NEW r \in Stuck, SetStatus(r.id, "failed", 0) PROVE ArchiveInv'
    <3>1. r \in records /\ r.status = "running" BY <2>2 DEF Stuck, Latest
    <3>2. r.id # lastDone BY <3>1 DEF HistoryInv, Successes, TypeOK, Record
    <3> QED BY <1>1, <1>3, <1>4, <2>2, <3>2 DEF Recover
  <2> QED BY <1>4, <2>1, <2>2 DEF Recover
<1>5. CASE StartRecord
  <2>1. Successes' = Successes BY <1>5 DEF StartRecord, Successes
  <2> QED BY <1>1, <1>5, <2>1 DEF StartRecord
<1>6. CASE CreateArchive
  <2>1. lastId # lastDone BY <1>6 DEF CreateArchive, HistoryInv, TypeOK
  <2> QED BY <1>1, <1>3, <1>6, <2>1 DEF CreateArchive, Fail, Unlocked, Successes
<1>7. CASE Upload
  <2>1. lastId # lastDone BY <1>7 DEF Upload, HistoryInv, TypeOK
  <2>2. Successes' \subseteq Successes /\ lastDone' = lastDone
    BY <1>3, <1>7, <2>1 DEF Upload, Fail, Successes
  <2>3. /\ key' = clock' /\ clock' \in {clock, clock + 1}
        /\ bucket' \in {bucket, bucket \union {key'}}
        /\ pc' = "config" \/ (pc' = "complete" /\ key' \in bucket')
    BY <1>7 DEF Upload, Fail, Unlocked
  <2> QED BY <2>2, <2>3 DEF TypeOK
<1>8. CASE Complete
  <2>1. \A t \in records' :
          \/ \E r \in records :
               r.id = lastId /\ t = Row(lastId, "success", key, r.age)
          \/ t \in records /\ t.id # lastId
    BY <1>8, SetStatusRows DEF Complete, TypeOK
  <2>2. \A age : Row(lastId, "success", key, age).key = key
    BY RowFields
  <2>3. \A t \in Successes' : t.id = lastId => t.key = key
    BY <2>1, <2>2 DEF Successes
  <2> QED BY <1>8, <2>3 DEF Complete
<1>9. CASE Retain
  <2>1. PICK deleted \in SUBSET Surplus(bucket, config.retention) :
          bucket' = bucket \ deleted
    BY <1>9 DEF Retain
  <2>2. config.retention \in Nat /\ config.retention # 0
    BY BackupAssumption DEF TypeOK, Config
  <2>3. {l \in bucket : l > clock} = {}
    <3>1. \A l \in bucket : l \in Nat /\ clock \in Nat /\ l <= clock
      BY DEF TypeOK
    <3>2. \A l \in bucket : ~(l > clock) BY <3>1
    <3> QED BY <3>2
  <2>4. Cardinality({l \in bucket : l > clock}) = 0 BY <2>3, FS_EmptySet
  <2>5. clock \notin Surplus(bucket, config.retention)
    BY <2>2, <2>4 DEF Surplus
  <2>6. /\ pc = "retain" /\ pc' = "prune"
        /\ UNCHANGED <<clock, lastDone>> /\ Successes' = Successes
    BY <1>9 DEF Retain, Successes
  <2> QED BY <2>1, <2>5, <2>6
<1>10. CASE ReadConfig \/ Plan
  BY <1>1, <1>10 DEF ReadConfig, Plan, Successes
<1>11. CASE Wake \/ Receive
  BY <1>1, <1>11 DEF Wake, Receive, RunBackup, Successes
<1>12. CASE Prune BY <1>1, <1>12 DEF Prune, Unlocked, Successes
<1>13. ASSUME NEW c \in Config, UpdateConfig(c) PROVE ArchiveInv'
  BY <1>2, <1>13 DEF UpdateConfig, task
<1>14. ASSUME NEW a \in Admins, CheckRunning(a) \/ Send(a) PROVE ArchiveInv'
  BY <1>2, <1>14 DEF CheckRunning, Send, task
<1>15. CASE Elapse
  <2> DEFINE older(r) == Row(r.id, r.status, r.key, Older(r.age))
  <2>1. \A t \in records' : \E r \in records : t = older(r)
    BY <1>15, ElapseRows DEF TypeOK
  <2>2. \A r : /\ older(r).id = r.id /\ older(r).status = r.status
               /\ older(r).key = r.key
    BY RowFields
  <2> HIDE DEF older
  <2>3. UNCHANGED <<bucket, clock, lastDone, pc, key>> BY <1>15 DEF Elapse
  <2>4. \A t \in Successes' : \E r \in Successes : r.id = t.id /\ r.key = t.key
    BY <2>1, <2>2 DEF Successes
  <2> QED BY <2>3, <2>4
<1>16. CASE CrashRestart BY <1>1, <1>16 DEF CrashRestart, Successes
<1>17. CASE UNCHANGED vars BY <1>2, <1>17 DEF vars, task
<1> QED BY <1>4, <1>5, <1>6, <1>7, <1>8, <1>9, <1>10, <1>11, <1>12, <1>13,
           <1>14, <1>15, <1>16, <1>17 DEF Next, Step

LEMMA InvHolds == Spec => []Inv
<1>1. Init => Inv
  BY InitTyped DEF Init, Inv, HistoryInv, SleepInv, ArchiveInv, ScheduleKept,
                   Successes
<1>2. Inv /\ [Next]_vars => Inv'
  BY StepTyped, HistoryStep, SleepStep, ArchiveStep DEF Inv
<1> QED BY <1>1, <1>2, PTL DEF Spec

-----------------------------------------------------------------------------
(* Theorems.                                                               *)

\* Whatever fails, is pruned or crashes, the last success stays the last
\* success on record.
THEOREM LastSuccessRememberedHolds == Spec => []LastSuccessRemembered
<1>1. Inv => LastSuccessRemembered
  BY LastSuccessIsLastDone DEF Inv, LastSuccessRemembered
<1> QED BY <1>1, InvHolds, PTL

\* A scheduled backup starts no sooner after a success than the frequency the
\* task has planned with, whatever is pruned, fails, crashes or is configured
\* meanwhile.
THEOREM ScheduleKeptHolds == Spec => []ScheduleKept
<1>1. Inv => ScheduleKept BY DEF Inv, SleepInv
<1> QED BY <1>1, InvHolds, PTL

\* The archive of the last success is in the bucket.
THEOREM LastArchiveKeptHolds == Spec => []LastArchiveKept
<1>1. Inv => LastArchiveKept
  BY LastSuccessIsLastDone DEF Inv, ArchiveInv, LastArchiveKept, LastSuccess
<1> QED BY <1>1, InvHolds, PTL
=============================================================================
