---------------------------- MODULE FileStoreProofs ----------------------------
(***************************************************************************)
(* Why acknowledged records survive kills and crashes: the inductive       *)
(* invariant of FileStore and the theorems it yields.  They rest on one    *)
(* writer at a time using the directory, which the lock file ensures as    *)
(* long as no dry-run removes it, or trivially when only one process       *)
(* writes at all.                                                          *)
(***************************************************************************)
EXTENDS FileStore, TLAPS

Contents == Values \cup {Format, Absent, Torn}

MarkJob == [kind |-> "create", name |-> Marker, val |-> Format]

\* Stages of a write, and those in which it has a temporary file.
WriteStages == {"begun", "temp", "written", "synced", "linked", "changed", "failing"}
TempStages == {"temp", "written", "synced", "linked", "failing"}
OtherStages == {"closed", "looked", "opened", "locked", "reading", "closing", "cleaning", "idle"}

FTypeOK ==
  /\ dir \in [Names -> Contents]
  /\ durable \in [Names -> SUBSET Contents]
  /\ lockName \in Inodes \cup {NoFile}
  /\ locked \in [Inodes -> Procs \cup {Nobody}]
  /\ stage \in [Procs -> WriteStages \cup OtherStages]
  /\ lockFile \in [Procs -> Inodes \cup {NoFile}]
  /\ removes \in [Procs -> BOOLEAN]
  /\ job \in [Procs -> Jobs \cup {NoJob, MarkJob}]
  /\ temp \in [Procs -> Temps \cup {NoFile}]
  /\ promised \in [IDs -> SUBSET (Values \cup {Absent})]

\* What a process knows of the directory from the calls it has made.
JobOK(p) ==
  /\ p \in DryRuns => stage[p] \in {"closed", "looked", "opened", "reading", "closing"}
  /\ stage[p] \notin WriteStages => job[p] = NoJob
  /\ stage[p] \in WriteStages => job[p] # NoJob
  /\ stage[p] \in TempStages => temp[p] \in Temps /\ job[p].kind # "delete"
  /\ stage[p] = "temp" => durable[temp[p]] \subseteq {Absent, Torn}
  /\ stage[p] = "written" => durable[temp[p]] \subseteq {Absent, Torn, job[p].val}
  /\ stage[p] = "synced" => durable[temp[p]] \subseteq {Absent, job[p].val}
  /\ stage[p] \in {"written", "synced"} => job[p].val \in durable[temp[p]]
  /\ stage[p] \in {"linked", "changed"} => dir[job[p].name] = job[p].val
  /\ stage[p] \in {"cleaning", "idle"} => dir[Marker] = Format
  /\ stage[p] \in WriteStages /\ job[p].name # Marker => dir[Marker] = Format

JobInv == \A p \in Procs : JobOK(p)

\* The marker is on disk before a record is promised, and never half written.
MarkerInv ==
  /\ durable[Marker] \subseteq {Absent, Format}
  /\ dir[Marker] \in durable[Marker]
  /\ (\E id \in IDs : Absent \notin promised[id]) => durable[Marker] = {Format}

\* p has changed the entry of id and has not returned.
HasChanged(p, id) == stage[p] \in {"linked", "changed"} /\ job[p].name = id

\* A record holds what was promised, or the value of a write that has changed
\* its entry; a write that has not may still fail and leave no trace.
RecordInv ==
  \A id \in IDs : \A v \in durable[id] \cup {dir[id]} :
    v \in promised[id] \/ \E q \in Procs : HasChanged(q, id) /\ job[q].val = v

FInv == FTypeOK /\ JobInv /\ MarkerInv /\ RecordInv

\* No two processes that write use the directory at once.
OneWriter == \A p, q \in Procs \ DryRuns : Owner(p) /\ Owner(q) => p = q

--------------------------------------------------------------------------------
(***************************************************************************)
(* Lemmas about the steps.                                                 *)
(***************************************************************************)

\* The names of records, the marker and temporary files are different files.
LEMMA NamesApart ==
  /\ Marker \in Names /\ IDs \subseteq Names /\ Temps \subseteq Names
  /\ Marker \notin IDs /\ Marker \notin Temps
  /\ \A id \in IDs : id \notin Temps
  /\ NoFile \notin Temps /\ NoFile \notin Inodes
  BY FileStoreAssumption DEF Names

\* What a job is: the creation of the marker, or a write to a record.
LEMMA JobTypes ==
  ASSUME NEW j \in Jobs \cup {NoJob, MarkJob}
  PROVE  /\ j.name \in IDs \cup {Marker}
         /\ j.val \in Values \cup {Format, Absent}
         /\ j.name = Marker /\ j # NoJob => j = MarkJob
         /\ j # NoJob => j.kind \in {"create", "save", "delete"}
         /\ j # NoJob /\ j.name # Marker => j.val \in Values \cup {Absent}
         /\ j # NoJob /\ j.kind # "delete" => j.val \in Values \cup {Format}
         /\ j \in Jobs => j # NoJob /\ j.name \in IDs /\ j.name # Marker
  BY NamesApart DEF Jobs, NoJob, MarkJob

\* A process that does not use the directory knows nothing of it.
LEMMA QuietOthers ==
  ASSUME FTypeOK, JobInv, OneWriter,
         NEW p \in Procs, p \notin DryRuns, Owner(p),
         NEW q \in Procs, q # p,
         stage'[q] = stage[q], job'[q] = job[q]
  PROVE  JobOK(q)'
<1>1. JobOK(q)
  BY DEF JobInv
<1>2. stage[q] \in {"closed", "looked", "opened", "reading", "closing"}
  BY <1>1 DEF OneWriter, Owner, JobOK, FTypeOK, WriteStages, OtherStages
<1> QED BY <1>1, <1>2 DEF JobOK, WriteStages, TempStages

\* Nobody else has changed an entry while p uses the directory.
LEMMA OnlyChange ==
  ASSUME FTypeOK, JobInv, OneWriter,
         NEW p \in Procs, p \notin DryRuns, Owner(p),
         NEW q \in Procs, NEW id, HasChanged(q, id)
  PROVE  q = p
  BY DEF OneWriter, Owner, HasChanged, JobInv, JobOK

\* A write stage is one of an owner that is no dry-run.
LEMMA WritersOwn ==
  ASSUME JobInv, NEW p \in Procs,
         stage[p] \in WriteStages \cup {"cleaning", "idle", "locked"}
  PROVE  p \notin DryRuns /\ Owner(p)
  BY DEF JobInv, JobOK, Owner, WriteStages

\* What returning from a write does.
LEMMA ReturnEffect ==
  ASSUME FTypeOK, JobInv, NEW p \in Procs, stage[p] \in WriteStages,
         NEW r \in {"ok", "failed", "uncertain"}, Return(p, r)
  PROVE  /\ job' = [job EXCEPT ![p] = NoJob]
         /\ temp' = [temp EXCEPT ![p] = NoFile]
         /\ stage' = [stage EXCEPT ![p] = IF job[p].name # Marker THEN "idle"
                                          ELSE IF r = "ok" THEN "cleaning" ELSE "closing"]
         /\ promised' \in [IDs -> SUBSET (Values \cup {Absent})]
         /\ \A id \in IDs : id # job[p].name \/ r = "failed" => promised'[id] = promised[id]
         /\ r = "uncertain" => \A id \in IDs : promised[id] \subseteq promised'[id]
         /\ job[p].name \in IDs /\ r # "failed" => job[p].val \in promised'[job[p].name]
<1>1. JobOK(p) /\ job[p] # NoJob /\ job[p] \in Jobs \cup {NoJob, MarkJob}
  BY DEF JobInv, JobOK, FTypeOK
<1>2. job[p].name # Marker => job[p].name \in IDs /\ job[p].val \in Values \cup {Absent}
  BY <1>1, JobTypes
<1>3. CASE job[p].name = Marker \/ r = "failed"
  <2>1. promised' = promised
    BY <1>3 DEF Return, Learn
  <2>2. job[p].name \in IDs => r = "failed"
    BY <1>3, NamesApart
  <2> QED BY <2>1, <2>2 DEF Return, Goto, FTypeOK
<1>4. CASE job[p].name # Marker /\ r # "failed"
  <2>1. promised' = [promised EXCEPT ![job[p].name] =
                       IF r = "ok" THEN {job[p].val} ELSE @ \cup {job[p].val}]
    BY <1>4 DEF Return, Learn
  <2> QED BY <1>2, <1>4, <2>1 DEF Return, Goto, FTypeOK
<1> QED BY <1>3, <1>4

\* Every step keeps the types.
LEMMA FTypeStep == FTypeOK /\ JobInv /\ [FNext]_fvars => FTypeOK'
<1> USE NamesApart
<1> SUFFICES ASSUME FTypeOK, JobInv, [FNext]_fvars
             PROVE  FTypeOK'
  OBVIOUS
<1>1. CASE UNCHANGED fvars
  BY <1>1 DEF FTypeOK, fvars, dirVars, lockVars
<1>2. ASSUME NEW p \in Procs, LookForLock(p)
      PROVE  FTypeOK'
  BY <1>2 DEF FTypeOK, LookForLock, Goto, dirVars, WriteStages, OtherStages
<1>3. ASSUME NEW p \in Procs, OpenLock(p)
      PROVE  FTypeOK'
  BY <1>3 DEF FTypeOK, OpenLock, Goto, dirVars, WriteStages, OtherStages, Unused
<1>4. ASSUME NEW p \in Procs, TryLock(p)
      PROVE  FTypeOK'
  BY <1>4 DEF FTypeOK, TryLock, Locked, Goto, dirVars, WriteStages, OtherStages
<1>5. ASSUME NEW p \in Procs, InitializeLayout(p)
      PROVE  FTypeOK'
  BY <1>5 DEF FTypeOK, InitializeLayout, Goto, dirVars, lockVars, WriteStages, OtherStages, MarkJob
<1>6. ASSUME NEW p \in Procs, CleanupOwnedTemps(p)
      PROVE  FTypeOK'
  <2>1. dir' \in [Names -> Contents] /\ durable' \in [Names -> SUBSET Contents]
    BY <1>6 DEF FTypeOK, CleanupOwnedTemps, Contents
  <2> QED BY <1>6, <2>1 DEF FTypeOK, CleanupOwnedTemps, Goto, lockVars, WriteStages, OtherStages
<1>7. ASSUME NEW p \in Procs, RemoveLock(p)
      PROVE  FTypeOK'
  BY <1>7 DEF FTypeOK, RemoveLock, Goto, dirVars, WriteStages, OtherStages
<1>8. ASSUME NEW ps \in SUBSET Procs, Forget(ps)
      PROVE  /\ locked' \in [Inodes -> Procs \cup {Nobody}]
             /\ stage' \in [Procs -> WriteStages \cup OtherStages]
             /\ lockFile' \in [Procs -> Inodes \cup {NoFile}]
             /\ removes' \in [Procs -> BOOLEAN]
             /\ job' \in [Procs -> Jobs \cup {NoJob, MarkJob}]
             /\ temp' \in [Procs -> Temps \cup {NoFile}]
  BY <1>8 DEF FTypeOK, Forget, OtherStages
<1>9. ASSUME NEW p \in Procs, Unlock(p)
      PROVE  FTypeOK'
  BY <1>8, <1>9 DEF FTypeOK, Unlock, dirVars
<1>10. ASSUME NEW ps \in SUBSET Procs, Interrupted(ps)
       PROVE  promised' \in [IDs -> SUBSET (Values \cup {Absent})]
  <2>1. \A q \in ps : job[q].kind # "none" /\ job[q].name \in IDs => job[q].val \in Values \cup {Absent}
    BY JobTypes DEF FTypeOK, NoJob
  <2> QED BY <1>10, <2>1 DEF Interrupted, FTypeOK
<1>11. ASSUME NEW p \in Procs, Kill(p)
       PROVE  FTypeOK'
  BY <1>8, <1>10, <1>11 DEF FTypeOK, Kill, dirVars
<1>12. ASSUME MachineCrash
       PROVE  FTypeOK'
  <2>1. dir' \in [Names -> Contents] /\ durable' \in [Names -> SUBSET Contents]
    BY <1>12 DEF FTypeOK, MachineCrash
  <2> QED BY <1>8, <1>10, <1>12, <2>1 DEF FTypeOK, MachineCrash
<1>13. ASSUME NEW p \in Procs, NEW j \in Jobs, Begin(p, j)
       PROVE  FTypeOK'
  BY <1>13 DEF FTypeOK, Begin, Goto, dirVars, lockVars, WriteStages
<1>14. ASSUME NEW p \in Procs, Writing(p)
       PROVE  FTypeOK'
  <2>1. stage[p] \in WriteStages
    BY <1>14 DEF Writing, CreateTemp, WriteTemp, SyncTemp, Link, RemoveTemp, Rename, DeleteRecord,
                 SyncDir, Abort, WriteStages
  <2>2. JobOK(p) /\ job[p] # NoJob /\ job[p] \in Jobs \cup {NoJob, MarkJob}
    BY <2>1 DEF JobInv, JobOK, FTypeOK
  <2>3. job[p].name \in Names /\ job[p].val \in Contents
    BY <2>2, JobTypes DEF Contents
  <2>4. stage[p] \in TempStages => temp[p] \in Temps
    BY <2>2 DEF JobOK
  <2>5. ASSUME NEW r \in {"ok", "failed", "uncertain"}, Return(p, r)
        PROVE  /\ job' \in [Procs -> Jobs \cup {NoJob, MarkJob}]
               /\ temp' \in [Procs -> Temps \cup {NoFile}]
               /\ stage' \in [Procs -> WriteStages \cup OtherStages]
               /\ promised' \in [IDs -> SUBSET (Values \cup {Absent})]
    BY <2>1, <2>5, ReturnEffect DEF FTypeOK, OtherStages
  <2>6. ASSUME NEW n \in Names, NEW v \in Contents, NEW onDisk \in SUBSET Contents, Put(n, v, onDisk)
        PROVE  dir' \in [Names -> Contents] /\ durable' \in [Names -> SUBSET Contents]
    BY <2>6 DEF FTypeOK, Put
  <2>7. Absent \in Contents /\ Torn \in Contents
    BY DEF Contents
  <2>8. CASE CreateTemp(p)
    <3>1. CASE Return(p, "failed") /\ UNCHANGED <<dirVars, lockVars>>
      BY <2>5, <3>1 DEF FTypeOK, dirVars, lockVars
    <3>2. CASE \E t \in Temps : /\ temp' = [temp EXCEPT ![p] = t]
                               /\ Put(t, Torn, {Torn})
                               /\ Goto(p, "temp")
                               /\ Unaffected
      BY <2>6, <2>7, <3>2 DEF FTypeOK, Goto, Unaffected, lockVars, WriteStages
    <3> QED BY <2>8, <3>1, <3>2 DEF CreateTemp
  <2>9. CASE WriteTemp(p)
    <3>1. temp[p] \in Names
      BY <2>4, <2>9 DEF WriteTemp, TempStages
    <3>2. dir' \in [Names -> Contents] /\ durable' \in [Names -> SUBSET Contents]
      BY <2>3, <2>6, <2>9, <3>1 DEF WriteTemp, Fails, dirVars, FTypeOK
    <3> QED BY <2>9, <3>2 DEF FTypeOK, WriteTemp, Fails, Goto, Unaffected, lockVars, WriteStages
  <2>10. CASE SyncTemp(p)
    <3>1. dir' \in [Names -> Contents] /\ durable' \in [Names -> SUBSET Contents]
      BY <2>10 DEF SyncTemp, Fails, dirVars, FTypeOK
    <3> QED BY <2>10, <3>1 DEF FTypeOK, SyncTemp, Fails, Goto, Unaffected, lockVars, WriteStages
  <2>11. CASE Link(p)
    <3>1. temp[p] \in Names
      BY <2>4, <2>11 DEF Link, TempStages
    <3>2. durable[temp[p]] \ {Absent} \in SUBSET Contents
      BY <3>1 DEF FTypeOK
    <3>3. dir' \in [Names -> Contents] /\ durable' \in [Names -> SUBSET Contents]
      BY <2>3, <2>6, <2>11, <3>2 DEF Link, Fails, dirVars, FTypeOK
    <3> QED BY <2>11, <3>3 DEF FTypeOK, Link, Fails, Goto, Unaffected, lockVars, WriteStages
  <2>12. CASE RemoveTemp(p)
    <3>1. temp[p] \in Names
      BY <2>4, <2>12 DEF RemoveTemp, TempStages
    <3>2. dir' \in [Names -> Contents] /\ durable' \in [Names -> SUBSET Contents]
      BY <2>6, <2>7, <2>12, <3>1 DEF RemoveTemp, Remove, dirVars, FTypeOK
    <3> QED BY <2>5, <2>12, <3>2 DEF FTypeOK, RemoveTemp, Goto, lockVars, WriteStages
  <2>13. CASE Rename(p)
    <3>1. temp[p] \in Names
      BY <2>4, <2>13 DEF Rename, TempStages
    <3>2. dir' \in [Names -> Contents]
      BY <2>3, <2>7, <2>13, <3>1 DEF Rename, Fails, dirVars, FTypeOK
    <3>3. durable' \in [Names -> SUBSET Contents]
      BY <2>3, <2>7, <2>13, <3>1 DEF Rename, Fails, dirVars, FTypeOK
    <3> QED BY <2>13, <3>2, <3>3 DEF FTypeOK, Rename, Fails, Goto, Unaffected, lockVars, WriteStages
  <2>14. CASE DeleteRecord(p)
    <3>2. dir' \in [Names -> Contents] /\ durable' \in [Names -> SUBSET Contents]
      BY <2>3, <2>6, <2>7, <2>14 DEF DeleteRecord, Remove, dirVars, FTypeOK
    <3> QED BY <2>5, <2>14, <3>2 DEF FTypeOK, DeleteRecord, Goto, lockVars, WriteStages
  <2>15. CASE SyncDir(p)
    BY <2>5, <2>15 DEF FTypeOK, SyncDir, lockVars
  <2>16. CASE Abort(p)
    <3>1. temp[p] \in Names
      BY <2>4, <2>16 DEF Abort, TempStages
    <3>2. dir' \in [Names -> Contents] /\ durable' \in [Names -> SUBSET Contents]
      BY <2>6, <2>7, <2>16, <3>1 DEF Abort, Remove, dirVars, FTypeOK
    <3> QED BY <2>5, <2>16, <3>2 DEF FTypeOK, Abort, lockVars
  <2> QED BY <1>14, <2>8, <2>9, <2>10, <2>11, <2>12, <2>13, <2>14, <2>15, <2>16 DEF Writing
<1> QED BY <1>1, <1>2, <1>3, <1>4, <1>5, <1>6, <1>7, <1>9, <1>11, <1>12, <1>13, <1>14 DEF FNext, Opening

\* A process that does not write leaves the directory and the promises alone.
LEMMA QuietStep ==
  ASSUME FInv, NEW p \in Procs,
         LookForLock(p) \/ OpenLock(p) \/ TryLock(p) \/ RemoveLock(p) \/ Unlock(p)
  PROVE  /\ UNCHANGED <<dirVars, promised>>
         /\ stage[p] \notin WriteStages /\ stage'[p] \in OtherStages \ {"cleaning", "idle"}
         /\ stage'[p] = "locked" => p \notin DryRuns
         /\ job'[p] = NoJob
         /\ \A q \in Procs : q # p => stage'[q] = stage[q] /\ job'[q] = job[q] /\ temp'[q] = temp[q]
<1>1. JobOK(p)
  BY DEF FInv, JobInv
<1>2. CASE LookForLock(p)
  BY <1>1, <1>2 DEF FInv, FTypeOK, JobOK, LookForLock, Goto, WriteStages, OtherStages
<1>3. CASE OpenLock(p)
  BY <1>1, <1>3 DEF FInv, FTypeOK, JobOK, OpenLock, Goto, WriteStages, OtherStages
<1>4. CASE TryLock(p)
  BY <1>1, <1>4 DEF FInv, FTypeOK, JobOK, TryLock, Locked, Goto, WriteStages, OtherStages
<1>5. CASE RemoveLock(p)
  BY <1>1, <1>5 DEF FInv, FTypeOK, JobOK, RemoveLock, Goto, WriteStages, OtherStages
<1>6. CASE Unlock(p)
  BY <1>1, <1>6 DEF FInv, FTypeOK, JobOK, Unlock, Forget, WriteStages, OtherStages
<1> QED BY <1>2, <1>3, <1>4, <1>5, <1>6

\* While p uses the directory, a record holds what was promised or p's value.
LEMMA RecordOfWriter ==
  ASSUME FInv, OneWriter, NEW p \in Procs, p \notin DryRuns, Owner(p),
         NEW id \in IDs, NEW v \in durable[id] \cup {dir[id]}
  PROVE  v \in promised[id] \/ (HasChanged(p, id) /\ job[p].val = v)
  BY OnlyChange DEF FInv, RecordInv

\* The obligations of a step of p, which uses the directory alone.
LEMMA AloneStep ==
  ASSUME FInv, OneWriter, NEW p \in Procs, p \notin DryRuns, Owner(p),
         \A q \in Procs : q # p => stage'[q] = stage[q] /\ job'[q] = job[q],
         JobOK(p)', MarkerInv',
         \A id \in IDs : \A v \in durable'[id] \cup {dir'[id]} :
           v \in promised'[id] \/ (HasChanged(p, id)' /\ job'[p].val = v)
  PROVE  JobInv' /\ MarkerInv' /\ RecordInv'
<1>1. \A q \in Procs : q # p => JobOK(q)'
  BY QuietOthers DEF FInv
<1> QED BY <1>1 DEF JobInv, RecordInv

\* NewFileStore's steps before the writes, and the beginning of a write.
LEMMA OpeningStep ==
  ASSUME FInv, OneWriter, NEW p \in Procs,
         \/ InitializeLayout(p) \/ CleanupOwnedTemps(p)
         \/ \E j \in Jobs : Begin(p, j)
  PROVE  JobInv' /\ MarkerInv' /\ RecordInv'
<1> USE NamesApart DEF FInv
<1>1. stage[p] \in {"locked", "cleaning", "idle"}
  BY DEF InitializeLayout, CleanupOwnedTemps, Begin
<1>2. p \notin DryRuns /\ Owner(p) /\ JobOK(p) /\ job[p] = NoJob
  BY <1>1, WritersOwn DEF JobInv, JobOK, WriteStages
<1>3. \A id \in IDs : \A v \in durable[id] \cup {dir[id]} : v \in promised[id]
  BY <1>1, <1>2, RecordOfWriter DEF HasChanged
<1>4. CASE InitializeLayout(p)
  <2>1. /\ UNCHANGED <<dirVars, promised>>
        /\ \A q \in Procs : q # p => stage'[q] = stage[q] /\ job'[q] = job[q]
    BY <1>4 DEF InitializeLayout, Goto, FTypeOK
  <2>2. JobOK(p)'
    BY <1>2, <1>4, <2>1 DEF InitializeLayout, Goto, FTypeOK, JobOK, WriteStages, TempStages, dirVars,
                            MarkJob, NoJob
  <2>3. MarkerInv'
    BY <2>1 DEF MarkerInv, dirVars
  <2> QED BY <1>2, <1>3, <2>1, <2>2, <2>3, AloneStep DEF dirVars
<1>5. CASE CleanupOwnedTemps(p)
  <2>1. /\ UNCHANGED <<promised, job>>
        /\ \A q \in Procs : q # p => stage'[q] = stage[q] /\ job'[q] = job[q]
        /\ stage'[p] = "idle" /\ stage[p] = "cleaning"
    BY <1>5 DEF CleanupOwnedTemps, Goto, FTypeOK
  <2>2. \A n \in IDs \cup {Marker} : dir'[n] = dir[n] /\ durable'[n] = durable[n]
    BY <1>5 DEF CleanupOwnedTemps
  <2>3. JobOK(p)'
    BY <1>2, <2>1, <2>2 DEF JobOK, WriteStages, TempStages
  <2>4. MarkerInv'
    BY <2>1, <2>2 DEF MarkerInv
  <2> QED BY <1>2, <1>3, <2>1, <2>2, <2>3, <2>4, AloneStep
<1>6. CASE \E j \in Jobs : Begin(p, j)
  <2>1. PICK j \in Jobs : Begin(p, j)
    BY <1>6
  <2>2. /\ UNCHANGED <<dirVars, promised>>
        /\ \A q \in Procs : q # p => stage'[q] = stage[q] /\ job'[q] = job[q]
        /\ stage[p] = "idle" /\ stage'[p] = "begun" /\ job'[p] = j
    BY <2>1 DEF Begin, Goto, FTypeOK
  <2>3. j # NoJob
    BY JobTypes
  <2>4. JobOK(p)'
    BY <1>2, <2>2, <2>3 DEF JobOK, WriteStages, TempStages, dirVars
  <2>5. MarkerInv'
    BY <2>2 DEF MarkerInv, dirVars
  <2> QED BY <1>2, <1>3, <2>2, <2>4, <2>5, AloneStep DEF dirVars
<1> QED BY <1>4, <1>5, <1>6

\* The steps of Create, Save and Delete.
LEMMA WritingStep ==
  ASSUME FInv, OneWriter, NEW p \in Procs, Writing(p)
  PROVE  JobInv' /\ MarkerInv' /\ RecordInv'
<1> USE NamesApart DEF FInv
<1> DEFINE n == job[p].name
           v == job[p].val
           t == temp[p]
<1>1. stage[p] \in WriteStages
  BY DEF Writing, CreateTemp, WriteTemp, SyncTemp, Link, RemoveTemp, Rename, DeleteRecord,
         SyncDir, Abort, WriteStages
<1>2. /\ p \notin DryRuns /\ Owner(p) /\ JobOK(p)
      /\ job[p] # NoJob /\ job[p] \in Jobs \cup {NoJob, MarkJob}
  BY <1>1, WritersOwn DEF JobInv, JobOK, FTypeOK
<1>3. /\ n \in IDs \cup {Marker} /\ n \in Names /\ n \notin Temps
      /\ n = Marker => v = Format
      /\ v \in Values \cup {Format, Absent}
      /\ job[p].kind # "delete" => v # Absent
      /\ job[p].kind # "create" => n # Marker
      /\ v # Torn
  BY <1>2, JobTypes, FileStoreAssumption DEF MarkJob
<1>4. stage[p] \in TempStages => t \in Temps /\ t \in Names /\ t # n /\ t # Marker /\ t \notin IDs
                                 /\ job[p].kind # "delete"
  BY <1>2, <1>3 DEF JobOK
<1>5. \A id \in IDs : \A w \in durable[id] \cup {dir[id]} :
        w \in promised[id] \/ (stage[p] \in {"linked", "changed"} /\ id = n /\ w = v)
  BY <1>2, RecordOfWriter DEF HasChanged
<1>6. n # Marker => dir[Marker] = Format
  BY <1>1, <1>2 DEF JobOK
\* The step returns a result.
<1>7. ASSUME NEW r \in {"ok", "failed", "uncertain"}, Return(p, r),
             \A m \in IDs \cup {Marker} : dir'[m] = dir[m],
             \A m \in IDs \cup {Marker} :
               durable'[m] = IF r = "ok" THEN {dir[m]} ELSE durable[m],
             r = "failed" => stage[p] \notin {"linked", "changed"},
             r # "failed" => stage[p] \in {"linked", "changed"}
      PROVE  JobInv' /\ MarkerInv' /\ RecordInv'
  <2>1. /\ job'[p] = NoJob
        /\ stage'[p] = IF n # Marker THEN "idle" ELSE IF r = "ok" THEN "cleaning" ELSE "closing"
        /\ \A q \in Procs : q # p => stage'[q] = stage[q] /\ job'[q] = job[q]
        /\ \A id \in IDs : id # n \/ r = "failed" => promised'[id] = promised[id]
        /\ r = "uncertain" => \A id \in IDs : promised[id] \subseteq promised'[id]
        /\ n \in IDs /\ r # "failed" => v \in promised'[n]
    BY <1>1, <1>7, ReturnEffect DEF FTypeOK
  <2>2. stage[p] \in {"linked", "changed"} => dir[n] = v
    BY <1>2 DEF JobOK
  <2>3. stage'[p] \in {"cleaning", "idle"} => dir[Marker] = Format
    BY <1>3, <1>6, <1>7, <2>1, <2>2
  <2>4. JobOK(p)'
    BY <1>2, <1>7, <2>1, <2>3 DEF JobOK, WriteStages, TempStages
  <2>5. MarkerInv'
    <3>1. ASSUME NEW id \in IDs, Absent \notin promised'[id]
          PROVE  durable'[Marker] = {Format}
      <4>1. CASE r = "ok"
        BY <1>3, <1>6, <1>7, <2>2, <4>1
      <4>2. CASE r # "ok"
        <5>1. Absent \notin promised[id]
          BY <1>7, <2>1, <3>1, <4>2
        <5> QED BY <1>7, <4>2, <5>1 DEF MarkerInv
      <4> QED BY <4>1, <4>2
    <3> QED BY <1>7, <3>1 DEF MarkerInv
  <2>6. ASSUME NEW id \in IDs, NEW w \in durable'[id] \cup {dir'[id]}
        PROVE  w \in promised'[id]
    <3>1. w \in durable[id] \cup {dir[id]}
      BY <1>7, <2>6
    <3>2. CASE r = "failed"
      BY <1>5, <1>7, <2>1, <3>1, <3>2
    <3>3. CASE r # "failed" /\ id # n
      BY <1>5, <2>1, <3>1, <3>3
    <3>4. CASE r = "ok" /\ id = n
      BY <1>7, <2>1, <2>2, <2>6, <3>4
    <3>5. CASE r = "uncertain" /\ id = n
      BY <1>5, <2>1, <3>1, <3>5
    <3> QED BY <3>2, <3>3, <3>4, <3>5
  <2> QED BY <1>2, <2>1, <2>4, <2>5, <2>6, AloneStep
\* The step goes on and leaves the records and the marker as they are.
<1>8. ASSUME NEW s \in TempStages, Goto(p, s), UNCHANGED <<job, promised>>,
             \A m \in IDs \cup {Marker} : dir'[m] = dir[m] /\ durable'[m] = durable[m],
             stage[p] \notin {"linked", "changed"}, s # "linked",
             job[p].kind # "delete", temp'[p] \in Temps,
             s = "temp" => durable'[temp'[p]] \subseteq {Absent, Torn},
             s = "written" => durable'[temp'[p]] \subseteq {Absent, Torn, v},
             s = "synced" => durable'[temp'[p]] \subseteq {Absent, v},
             s \in {"written", "synced"} => v \in durable'[temp'[p]]
      PROVE  JobInv' /\ MarkerInv' /\ RecordInv'
  <2>1. stage'[p] = s /\ \A q \in Procs : q # p => stage'[q] = stage[q] /\ job'[q] = job[q]
    BY <1>8 DEF Goto, FTypeOK
  <2>2. JobOK(p)'
    BY <1>2, <1>6, <1>8, <2>1 DEF JobOK, WriteStages, TempStages
  <2>3. MarkerInv'
    BY <1>8 DEF MarkerInv
  <2> QED BY <1>2, <1>5, <1>8, <2>1, <2>2, <2>3, AloneStep
\* The step changes the entry that the write is for.
<1>9. ASSUME NEW s \in {"linked", "changed"}, Goto(p, s), UNCHANGED <<job, temp, promised>>,
             dir'[n] = v,
             durable'[n] \subseteq durable[n] \cup {v},
             n = Marker => durable'[n] = durable[n] \cup {v} /\ dir[n] = Absent,
             \A m \in IDs \cup {Marker} : m # n => dir'[m] = dir[m] /\ durable'[m] = durable[m],
             s = "linked" => t \in Temps /\ job[p].kind # "delete"
      PROVE  JobInv' /\ MarkerInv' /\ RecordInv'
  <2>1. stage'[p] = s /\ \A q \in Procs : q # p => stage'[q] = stage[q] /\ job'[q] = job[q]
    BY <1>9 DEF Goto, FTypeOK
  <2>2. JobOK(p)'
    BY <1>2, <1>3, <1>6, <1>9, <2>1 DEF JobOK, WriteStages, TempStages
  <2>3. MarkerInv'
    BY <1>3, <1>9, FileStoreAssumption DEF MarkerInv
  <2>4. ASSUME NEW id \in IDs, NEW w \in durable'[id] \cup {dir'[id]}
        PROVE  w \in promised'[id] \/ (HasChanged(p, id)' /\ job'[p].val = w)
    BY <1>5, <1>9, <2>1, <2>4 DEF HasChanged
  <2> QED BY <1>2, <2>1, <2>2, <2>3, <2>4, AloneStep
\* The step fails: the temporary file is to be removed.
<1>10. ASSUME Fails(p), Unaffected, stage[p] \in TempStages, stage[p] # "linked"
       PROVE  JobInv' /\ MarkerInv' /\ RecordInv'
  BY <1>4, <1>8, <1>10 DEF Fails, Unaffected, dirVars, TempStages
<1>11. CASE CreateTemp(p)
  <2>1. CASE Return(p, "failed") /\ UNCHANGED <<dirVars, lockVars>>
    BY <1>7, <1>11, <2>1 DEF CreateTemp, dirVars
  <2>2. CASE \E u \in Temps : /\ durable[u] = {Absent}
                              /\ temp' = [temp EXCEPT ![p] = u]
                              /\ Put(u, Torn, {Torn})
                              /\ Goto(p, "temp")
                              /\ Unaffected
    <3>1. PICK u \in Temps : /\ durable[u] = {Absent}
                             /\ temp' = [temp EXCEPT ![p] = u]
                             /\ Put(u, Torn, {Torn})
                             /\ Goto(p, "temp")
                             /\ Unaffected
      BY <2>2
    <3>2. temp'[p] = u
      BY <3>1 DEF FTypeOK
    <3>3. /\ \A m \in IDs \cup {Marker} : dir'[m] = dir[m] /\ durable'[m] = durable[m]
          /\ durable'[u] = {Absent, Torn}
      BY <3>1 DEF Put, FTypeOK
    <3>4. job[p].kind # "delete" /\ stage[p] = "begun"
      BY <1>11 DEF CreateTemp
    <3> QED BY <1>8, <3>1, <3>2, <3>3, <3>4 DEF Unaffected, TempStages
  <2> QED BY <1>11, <2>1, <2>2 DEF CreateTemp
<1>12. CASE WriteTemp(p)
  <2>1. stage[p] = "temp" /\ Unaffected
    BY <1>12 DEF WriteTemp
  <2>2. CASE Put(t, v, {v}) /\ Goto(p, "written") /\ UNCHANGED temp
    <3>1. /\ \A m \in IDs \cup {Marker} : dir'[m] = dir[m] /\ durable'[m] = durable[m]
          /\ durable'[t] = durable[t] \cup {v}
      BY <1>4, <2>1, <2>2 DEF Put, FTypeOK, TempStages
    <3>2. durable[t] \subseteq {Absent, Torn}
      BY <1>2, <2>1 DEF JobOK
    <3>3. temp'[p] = t /\ t \in Temps /\ job[p].kind # "delete"
      BY <1>4, <2>1, <2>2 DEF TempStages
    <3> QED BY <1>8, <2>1, <2>2, <3>1, <3>2, <3>3 DEF Unaffected, TempStages
  <2>3. CASE Fails(p)
    BY <1>10, <2>1, <2>3 DEF TempStages
  <2> QED BY <1>12, <2>2, <2>3 DEF WriteTemp
<1>13. CASE SyncTemp(p)
  <2>1. stage[p] = "written" /\ Unaffected
    BY <1>13 DEF SyncTemp
  <2>2. CASE /\ durable' = [durable EXCEPT ![t] = @ \ {Torn}]
             /\ Goto(p, "synced")
             /\ UNCHANGED <<dir, temp>>
    <3>1. /\ \A m \in IDs \cup {Marker} : dir'[m] = dir[m] /\ durable'[m] = durable[m]
          /\ durable'[t] = durable[t] \ {Torn}
      BY <1>4, <2>1, <2>2 DEF FTypeOK, TempStages
    <3>2. durable[t] \subseteq {Absent, Torn, v} /\ v \in durable[t]
      BY <1>2, <2>1 DEF JobOK
    <3>3. temp'[p] = t /\ t \in Temps /\ job[p].kind # "delete"
      BY <1>4, <2>1, <2>2 DEF TempStages
    <3> QED BY <1>3, <1>8, <2>1, <2>2, <3>1, <3>2, <3>3 DEF Unaffected, TempStages
  <2>3. CASE Fails(p)
    BY <1>10, <2>1, <2>3 DEF TempStages
  <2> QED BY <1>13, <2>2, <2>3 DEF SyncTemp
<1>14. CASE Link(p)
  <2>1. stage[p] = "synced" /\ Unaffected /\ job[p].kind = "create"
    BY <1>14 DEF Link
  <2>2. CASE dir[n] = Absent /\ Put(n, v, durable[t] \ {Absent}) /\ Goto(p, "linked") /\ UNCHANGED temp
    <3>1. durable[t] \subseteq {Absent, v} /\ v \in durable[t]
      BY <1>2, <2>1 DEF JobOK
    <3>2. durable[t] \ {Absent} = {v}
      BY <1>3, <2>1, <3>1
    <3>3. /\ dir'[n] = v
          /\ durable'[n] = durable[n] \cup {v}
          /\ \A m \in IDs \cup {Marker} : m # n => dir'[m] = dir[m] /\ durable'[m] = durable[m]
      BY <1>3, <2>2, <3>2 DEF Put, FTypeOK
    <3>4. t \in Temps
      BY <1>4, <2>1 DEF TempStages
    <3> QED BY <1>9, <2>1, <2>2, <3>3, <3>4 DEF Unaffected
  <2>3. CASE Fails(p)
    BY <1>10, <2>1, <2>3 DEF TempStages
  <2> QED BY <1>14, <2>2, <2>3 DEF Link
<1>15. CASE RemoveTemp(p)
  <2>1. stage[p] = "linked" /\ t \in Temps /\ t \in Names /\ t # n /\ t # Marker /\ t \notin IDs
    BY <1>4, <1>15 DEF RemoveTemp, TempStages
  <2>2. dir[n] = v
    BY <1>2, <2>1 DEF JobOK
  <2>3. CASE Remove(t) /\ Goto(p, "changed") /\ UNCHANGED <<job, temp, promised>>
    <3>1. \A m \in IDs \cup {Marker} : dir'[m] = dir[m] /\ durable'[m] = durable[m]
      BY <2>1, <2>3 DEF Remove, Put, FTypeOK
    <3>2. stage'[p] = "changed" /\ \A q \in Procs : q # p => stage'[q] = stage[q] /\ job'[q] = job[q]
      BY <2>3 DEF Goto, FTypeOK
    <3>3. JobOK(p)'
      BY <1>2, <1>3, <1>6, <2>2, <2>3, <3>1, <3>2 DEF JobOK, WriteStages, TempStages
    <3>4. MarkerInv'
      BY <2>3, <3>1 DEF MarkerInv
    <3>5. ASSUME NEW id \in IDs, NEW w \in durable'[id] \cup {dir'[id]}
          PROVE  w \in promised'[id] \/ (HasChanged(p, id)' /\ job'[p].val = w)
      BY <1>5, <2>3, <3>1, <3>2, <3>5 DEF HasChanged
    <3> QED BY <1>2, <3>2, <3>3, <3>4, <3>5, AloneStep
  <2>4. CASE Return(p, "uncertain") /\ UNCHANGED dirVars
    BY <1>7, <2>1, <2>4 DEF dirVars
  <2> QED BY <1>15, <2>3, <2>4 DEF RemoveTemp
<1>16. CASE Rename(p)
  <2>1. stage[p] = "synced" /\ Unaffected /\ job[p].kind = "save"
    BY <1>16 DEF Rename
  <2>2. CASE /\ dir' = [dir EXCEPT ![n] = v, ![t] = Absent]
             /\ durable' = [durable EXCEPT ![n] = @ \cup (durable[t] \ {Absent}),
                                           ![t] = @ \cup {Absent}]
             /\ Goto(p, "changed")
             /\ UNCHANGED temp
    <3>1. durable[t] \subseteq {Absent, v}
      BY <1>2, <2>1 DEF JobOK
    <3>2. t \in Temps /\ t \in Names /\ t # n /\ t # Marker /\ t \notin IDs
      BY <1>4, <2>1 DEF TempStages
    <3>3. /\ dir'[n] = v
          /\ durable'[n] = durable[n] \cup (durable[t] \ {Absent})
          /\ \A m \in IDs \cup {Marker} : m # n => dir'[m] = dir[m] /\ durable'[m] = durable[m]
      BY <1>3, <2>2, <3>2 DEF FTypeOK
    <3>4. n # Marker
      BY <1>3, <2>1
    <3>5. durable'[n] \subseteq durable[n] \cup {v}
      BY <3>1, <3>3
    <3> QED BY <1>9, <2>1, <2>2, <3>3, <3>4, <3>5 DEF Unaffected
  <2>3. CASE Fails(p)
    BY <1>10, <2>1, <2>3 DEF TempStages
  <2> QED BY <1>16, <2>2, <2>3 DEF Rename
<1>17. CASE DeleteRecord(p)
  <2>1. stage[p] = "begun" /\ job[p].kind = "delete"
    BY <1>17 DEF DeleteRecord
  <2>2. n # Marker /\ v = Absent
    BY <1>2, <2>1 DEF Jobs, NoJob, MarkJob
  <2>3. CASE Remove(n) /\ Goto(p, "changed") /\ UNCHANGED <<job, temp, promised>>
    <3>1. /\ dir'[n] = v
          /\ durable'[n] = durable[n] \cup {v}
          /\ \A m \in IDs \cup {Marker} : m # n => dir'[m] = dir[m] /\ durable'[m] = durable[m]
      BY <1>3, <2>2, <2>3 DEF Remove, Put, FTypeOK
    <3> QED BY <1>9, <2>2, <2>3, <3>1
  <2>4. CASE Return(p, "failed") /\ UNCHANGED dirVars
    BY <1>7, <2>1, <2>4 DEF dirVars
  <2> QED BY <1>17, <2>3, <2>4 DEF DeleteRecord
<1>18. CASE SyncDir(p)
  <2>1. stage[p] = "changed" /\ UNCHANGED dir
    BY <1>18 DEF SyncDir
  <2>2. CASE durable' = [m \in Names |-> {dir[m]}] /\ Return(p, "ok")
    BY <1>7, <2>1, <2>2
  <2>3. CASE UNCHANGED durable /\ Return(p, "uncertain")
    BY <1>7, <2>1, <2>3
  <2> QED BY <1>18, <2>2, <2>3 DEF SyncDir
<1>19. CASE Abort(p)
  <2>1. stage[p] = "failing" /\ t \in Temps /\ t \in Names /\ t # Marker /\ t \notin IDs
    BY <1>4, <1>19 DEF Abort, TempStages
  <2>2. \A m \in IDs \cup {Marker} : dir'[m] = dir[m] /\ durable'[m] = durable[m]
    BY <1>19, <2>1 DEF Abort, Remove, Put, FTypeOK, dirVars
  <2>3. Return(p, "failed")
    BY <1>19 DEF Abort
  <2> QED BY <1>7, <2>1, <2>2, <2>3
<1> QED BY <1>11, <1>12, <1>13, <1>14, <1>15, <1>16, <1>17, <1>18, <1>19 DEF Writing

\* A call that never returned promises its value besides what was promised.
LEMMA InterruptedEffect ==
  ASSUME FInv, NEW ps \in SUBSET Procs, Interrupted(ps)
  PROVE  /\ \A id \in IDs : promised[id] \subseteq promised'[id]
         /\ \A q \in ps : \A id \in IDs : HasChanged(q, id) => job[q].val \in promised'[id]
<1>1. \A id \in IDs : promised[id] \subseteq promised'[id]
  BY DEF Interrupted, FInv, FTypeOK
<1>2. ASSUME NEW q \in ps, NEW id \in IDs, HasChanged(q, id)
      PROVE  job[q].val \in promised'[id]
  <2>1. job[q] # NoJob /\ job[q] \in Jobs \cup {NoJob, MarkJob}
    BY <1>2 DEF FInv, FTypeOK, JobInv, JobOK, HasChanged, WriteStages
  <2>2. job[q].kind # "none" /\ job[q].name = id
    BY <1>2, <2>1, JobTypes DEF HasChanged
  <2> QED BY <2>2 DEF Interrupted, FInv, FTypeOK
<1> QED BY <1>1, <1>2

\* A kill or a crash leaves every record with a content that was promised.
LEMMA FailureStep ==
  ASSUME FInv, MachineCrash \/ \E p \in Procs : Kill(p)
  PROVE  JobInv' /\ MarkerInv' /\ RecordInv'
<1> USE NamesApart DEF FInv
<1>1. ASSUME NEW p \in Procs, Kill(p)
      PROVE  JobInv' /\ MarkerInv' /\ RecordInv'
  <2>1. /\ UNCHANGED dirVars
        /\ stage'[p] = "closed" /\ job'[p] = NoJob
        /\ \A q \in Procs : q # p => stage'[q] = stage[q] /\ job'[q] = job[q] /\ temp'[q] = temp[q]
    BY <1>1 DEF Kill, Forget
  <2>2. /\ \A id \in IDs : promised[id] \subseteq promised'[id]
        /\ \A id \in IDs : HasChanged(p, id) => job[p].val \in promised'[id]
    BY <1>1, InterruptedEffect DEF Kill
  <2>3. ASSUME NEW q \in Procs
        PROVE  JobOK(q)'
    <3>1. JobOK(q)
      BY DEF JobInv
    <3>2. CASE q = p
      BY <2>1, <3>2 DEF JobOK, WriteStages, TempStages
    <3>3. CASE q # p
      BY <2>1, <3>1, <3>3 DEF JobOK, dirVars
    <3> QED BY <3>2, <3>3
  <2>4. MarkerInv'
    BY <2>1, <2>2 DEF MarkerInv, dirVars
  <2>5. RecordInv'
    BY <2>1, <2>2 DEF RecordInv, HasChanged, dirVars
  <2> QED BY <2>3, <2>4, <2>5 DEF JobInv
<1>2. ASSUME MachineCrash
      PROVE  JobInv' /\ MarkerInv' /\ RecordInv'
  <2>1. \A n \in Names : dir'[n] \in durable[n] /\ durable'[n] = {dir'[n]}
    BY <1>2 DEF MachineCrash
  <2>2. \A q \in Procs : stage'[q] = "closed" /\ job'[q] = NoJob
    BY <1>2 DEF MachineCrash, Forget
  <2>3. /\ \A id \in IDs : promised[id] \subseteq promised'[id]
        /\ \A q \in Procs : \A id \in IDs : HasChanged(q, id) => job[q].val \in promised'[id]
    BY <1>2, InterruptedEffect DEF MachineCrash
  <2>4. JobInv'
    BY <2>2 DEF JobInv, JobOK, WriteStages, TempStages
  <2>5. MarkerInv'
    <3>1. durable'[Marker] = {dir'[Marker]} /\ dir'[Marker] \in durable[Marker]
      BY <2>1
    <3>2. ASSUME NEW id \in IDs, Absent \notin promised'[id]
          PROVE  durable'[Marker] = {Format}
      BY <2>3, <3>1, <3>2 DEF MarkerInv
    <3> QED BY <3>1, <3>2 DEF MarkerInv
  <2>6. ASSUME NEW id \in IDs, NEW v \in durable'[id] \cup {dir'[id]}
        PROVE  v \in promised'[id]
    <3>1. v \in durable[id]
      BY <2>1, <2>6
    <3> QED BY <2>3, <3>1 DEF RecordInv
  <2> QED BY <2>4, <2>5, <2>6 DEF RecordInv
<1> QED BY <1>1, <1>2

\* The invariant is inductive while one writer at a time uses the directory.
LEMMA FInvStep == FInv /\ OneWriter /\ [FNext]_fvars => FInv'
<1> SUFFICES ASSUME FInv, OneWriter, [FNext]_fvars
             PROVE  FInv'
  OBVIOUS
<1>1. FTypeOK'
  BY FTypeStep DEF FInv
<1>2. JobInv' /\ MarkerInv' /\ RecordInv'
  <2>1. CASE UNCHANGED fvars
    BY <2>1 DEF FInv, JobInv, JobOK, MarkerInv, RecordInv, HasChanged, fvars, dirVars
  <2>2. ASSUME NEW p \in Procs,
               LookForLock(p) \/ OpenLock(p) \/ TryLock(p) \/ RemoveLock(p) \/ Unlock(p)
        PROVE  JobInv' /\ MarkerInv' /\ RecordInv'
    <3>1. /\ UNCHANGED <<dirVars, promised>>
          /\ stage[p] \notin WriteStages /\ stage'[p] \in OtherStages \ {"cleaning", "idle"}
          /\ stage'[p] = "locked" => p \notin DryRuns
          /\ job'[p] = NoJob
          /\ \A q \in Procs : q # p => stage'[q] = stage[q] /\ job'[q] = job[q] /\ temp'[q] = temp[q]
      BY <2>2, QuietStep
    <3>2. ASSUME NEW q \in Procs
          PROVE  JobOK(q)'
      <4>1. JobOK(q)
        BY DEF FInv, JobInv
      <4>2. CASE q = p
        BY <3>1, <4>1, <4>2 DEF JobOK, WriteStages, TempStages, OtherStages
      <4>3. CASE q # p
        BY <3>1, <4>1, <4>3 DEF JobOK, dirVars
      <4> QED BY <4>2, <4>3
    <3>3. MarkerInv'
      BY <3>1 DEF FInv, MarkerInv, dirVars
    <3>4. RecordInv'
      BY <3>1 DEF FInv, RecordInv, HasChanged, dirVars, WriteStages
    <3> QED BY <3>2, <3>3, <3>4 DEF JobInv
  <2> QED BY <2>1, <2>2, OpeningStep, WritingStep, FailureStep DEF FNext, Opening
<1> QED BY <1>1, <1>2 DEF FInv

\* An empty directory satisfies the invariant.
LEMMA FInvInit == FInit => FInv
<1> USE NamesApart
<1> SUFFICES ASSUME FInit
             PROVE  FInv
  OBVIOUS
<1>1. FTypeOK
  BY DEF FInit, FTypeOK, Contents, OtherStages
<1>2. JobInv
  BY DEF FInit, JobInv, JobOK, WriteStages, TempStages
<1>3. MarkerInv /\ RecordInv
  BY DEF FInit, MarkerInv, RecordInv
<1> QED BY <1>1, <1>2, <1>3 DEF FInv

--------------------------------------------------------------------------------
(***************************************************************************)
(* The lock file.                                                          *)
(***************************************************************************)

\* While nobody removes the lock file's name, every open lock file is the one
\* the name leads to, and every owner has its lock.
LockInv ==
  /\ FTypeOK
  /\ \A p \in Procs :
       /\ ~ removes[p]
       /\ lockFile[p] # NoFile => lockFile[p] = lockName
       /\ stage[p] = "opened" => lockFile[p] # NoFile
       /\ Owner(p) => lockFile[p] # NoFile /\ locked[lockFile[p]] = p

\* Without dry-runs no step breaks that.
LEMMA LockStep ==
  ASSUME DryRuns = {}, LockInv, JobInv, [FNext]_fvars
  PROVE  LockInv'
<1> USE NamesApart
<1>0. FTypeOK'
  BY FTypeStep DEF LockInv
<1>1. ASSUME lockVars' = lockVars, \A q \in Procs : stage'[q] = stage[q]
      PROVE  LockInv'
  BY <1>0, <1>1 DEF LockInv, Owner, lockVars
<1>2. ASSUME NEW p \in Procs, UNCHANGED lockVars, Owner(p), stage'[p] # "opened",
             \A q \in Procs : q # p => stage'[q] = stage[q]
      PROVE  LockInv'
  BY <1>0, <1>2 DEF LockInv, Owner, lockVars
<1>3. ASSUME NEW p \in Procs, LookForLock(p)
      PROVE  LockInv'
  BY <1>0, <1>3 DEF LockInv, FTypeOK, LookForLock, Goto, Owner
<1>4. ASSUME NEW p \in Procs, OpenLock(p)
      PROVE  LockInv'
  BY <1>0, <1>4 DEF LockInv, FTypeOK, OpenLock, Goto, Owner, Unused
<1>5. ASSUME NEW p \in Procs, TryLock(p)
      PROVE  LockInv'
  <2>1. stage[p] = "opened" /\ lockFile[p] \in Inodes /\ lockFile[p] = lockName
    BY <1>5 DEF TryLock, LockInv, FTypeOK
  <2>2. CASE locked[lockFile[p]] = Nobody /\ Locked(p)
    <3>1. \A q \in Procs : q # p => ~ Owner(q)
      BY <2>1, <2>2, FileStoreAssumption DEF LockInv
    <3> QED BY <1>0, <2>1, <2>2, <3>1 DEF LockInv, FTypeOK, Locked, Goto, Owner
  <2>3. CASE locked[lockFile[p]] # Nobody
    BY <1>0, <1>5, <2>3 DEF LockInv, FTypeOK, TryLock, Goto, Owner
  <2> QED BY <1>5, <2>2, <2>3 DEF TryLock
<1>6. ASSUME NEW p \in Procs, InitializeLayout(p) \/ CleanupOwnedTemps(p) \/ \E j \in Jobs : Begin(p, j)
      PROVE  LockInv'
  <2>1. UNCHANGED lockVars /\ Owner(p)
    BY <1>6 DEF InitializeLayout, CleanupOwnedTemps, Begin, Owner
  <2>2. stage'[p] # "opened" /\ \A q \in Procs : q # p => stage'[q] = stage[q]
    BY <1>6 DEF InitializeLayout, CleanupOwnedTemps, Begin, Goto, LockInv, FTypeOK
  <2> QED BY <1>2, <2>1, <2>2
<1>7. ASSUME NEW p \in Procs, Writing(p)
      PROVE  LockInv'
  <2>1. UNCHANGED lockVars
    BY <1>7 DEF Writing, CreateTemp, WriteTemp, SyncTemp, Link, RemoveTemp, Rename, DeleteRecord,
                SyncDir, Abort, Unaffected
  <2>2. Owner(p)
    BY <1>7 DEF Writing, CreateTemp, WriteTemp, SyncTemp, Link, RemoveTemp, Rename, DeleteRecord,
                SyncDir, Abort, Owner
  <2>3. \E s \in WriteStages \cup {"idle", "cleaning", "closing"} : stage' = [stage EXCEPT ![p] = s]
    BY <1>7 DEF Writing, CreateTemp, WriteTemp, SyncTemp, Link, RemoveTemp, Rename, DeleteRecord,
                SyncDir, Abort, Fails, Return, Goto, WriteStages
  <2>4. stage'[p] # "opened" /\ \A q \in Procs : q # p => stage'[q] = stage[q]
    BY <2>3 DEF LockInv, FTypeOK, WriteStages
  <2> QED BY <1>2, <2>1, <2>2, <2>4
<1>8. ASSUME NEW p \in Procs, RemoveLock(p)
      PROVE  FALSE
  BY <1>8 DEF RemoveLock, LockInv
<1>9. ASSUME NEW p \in Procs, Unlock(p) \/ Kill(p)
      PROVE  LockInv'
  <2>1. Forget({p}) /\ UNCHANGED lockName
    BY <1>9 DEF Unlock, Kill
  <2>2. /\ stage'[p] = "closed" /\ lockFile'[p] = NoFile /\ ~ removes'[p]
        /\ \A q \in Procs : q # p => /\ stage'[q] = stage[q] /\ lockFile'[q] = lockFile[q]
                                     /\ removes'[q] = removes[q]
        /\ \A i \in Inodes : \A q \in Procs : q # p /\ locked[i] = q => locked'[i] = q
    BY <2>1, FileStoreAssumption DEF Forget, LockInv, FTypeOK
  <2>3. \A q \in Procs : lockFile[q] # NoFile => lockFile[q] \in Inodes
    BY DEF LockInv, FTypeOK
  <2> QED BY <1>0, <2>1, <2>2, <2>3 DEF LockInv, Owner
<1>10. ASSUME MachineCrash
       PROVE  LockInv'
  <2>1. \A q \in Procs : stage'[q] = "closed" /\ lockFile'[q] = NoFile /\ ~ removes'[q]
    BY <1>10 DEF MachineCrash, Forget
  <2> QED BY <1>0, <2>1 DEF LockInv, Owner
<1>11. CASE UNCHANGED fvars
  BY <1>1, <1>11 DEF fvars
<1> QED BY <1>3, <1>4, <1>5, <1>6, <1>7, <1>8, <1>9, <1>10, <1>11 DEF FNext, Opening

--------------------------------------------------------------------------------
(***************************************************************************)
(* Theorems.                                                               *)
(***************************************************************************)

\* storeRoot.close and lockStoreFile: as long as every process opens the store
\* with NewFileStore, no two of them use the directory at once, through kills
\* and crashes.
THEOREM LockExcludes == DryRuns = {} => (FSpec => []OneOwner)
<1> SUFFICES ASSUME DryRuns = {}
             PROVE  FSpec => []OneOwner
  OBVIOUS
<1>1. FInit => LockInv /\ FInv
  BY FInvInit DEF FInit, FInv, LockInv, Owner
<1>2. LockInv => OneOwner /\ OneWriter
  BY DEF LockInv, OneOwner, OneWriter
<1>3. LockInv /\ FInv /\ [FNext]_fvars => LockInv' /\ FInv'
  BY <1>2, LockStep, FInvStep DEF FInv
<1> QED BY <1>1, <1>2, <1>3, PTL DEF FSpec

\* The invariant holds while one writer at a time uses the directory.
THEOREM FileStoreInvariant == FSpec /\ []OneWriter => []FInv
BY FInvInit, FInvStep, PTL DEF FSpec

\* The processes that write exclude each other: either none of them is a
\* maintenance dry-run, so that nobody removes the lock file, or only one
\* process writes at all.
WritersExclude == DryRuns = {} \/ \A p, q \in Procs \ DryRuns : p = q

\* Then the condition holds.
LEMMA OneWriterHolds == WritersExclude => (FSpec => []OneWriter)
<1>1. ASSUME DryRuns = {}
      PROVE  FSpec => []OneWriter
  <2>1. OneOwner => OneWriter
    BY DEF OneOwner, OneWriter
  <2>2. FSpec => []OneOwner
    BY <1>1, LockExcludes
  <2> QED BY <2>1, <2>2, PTL
<1>2. ASSUME \A p, q \in Procs \ DryRuns : p = q
      PROVE  FSpec => []OneWriter
  <2>1. OneWriter
    BY <1>2 DEF OneWriter
  <2> QED BY <2>1, PTL
<1> QED BY <1>1, <1>2 DEF WritersExclude

\* fileStore.Create, Save and Delete: whatever a caller was told of a record
\* holds now and after any kill or crash.
THEOREM PromisesAreKept == WritersExclude => (FSpec => []PromisesKept)
<1> SUFFICES ASSUME WritersExclude
             PROVE  FSpec => []PromisesKept
  OBVIOUS
<1>1. FInv => PromisesKept
  <2> SUFFICES ASSUME FInv, NEW id \in IDs, NEW v \in durable[id] \cup {dir[id]}, v \notin promised[id]
               PROVE  \E q \in Procs : Writes(q, id) /\ job[q].val = v
    BY DEF PromisesKept
  <2>1. PICK q \in Procs : HasChanged(q, id) /\ job[q].val = v
    BY DEF FInv, RecordInv
  <2>2. job[q] # NoJob /\ job[q] \in Jobs \cup {NoJob, MarkJob}
    BY <2>1 DEF FInv, FTypeOK, JobInv, JobOK, HasChanged, WriteStages
  <2>3. Writes(q, id)
    BY <2>1, <2>2, JobTypes DEF Writes, HasChanged
  <2> QED BY <2>1, <2>3
<1>2. FSpec => []OneWriter
  BY OneWriterHolds
<1> QED BY <1>1, <1>2, FileStoreInvariant, PTL

\* initializeLayout and publishNamed: after any crash, a store with a record
\* that must exist is still recognized, and no marker is half written.
THEOREM StoreReopens == WritersExclude => (FSpec => []AcknowledgedStoreReopens)
<1> SUFFICES ASSUME WritersExclude
             PROVE  FSpec => []AcknowledgedStoreReopens
  OBVIOUS
<1>1. FInv => AcknowledgedStoreReopens
  BY DEF FInv, MarkerInv, AcknowledgedStoreReopens
<1>2. FSpec => []OneWriter
  BY OneWriterHolds
<1> QED BY <1>1, <1>2, FileStoreInvariant, PTL
================================================================================
