------------------------------- MODULE FileStore -------------------------------
(***************************************************************************)
(* The file store on its file system (runtime/sessions/file.go, storefs.go,*)
(* layout.go): records published by link and replaced by rename, the       *)
(* format marker, temporary files, and the lock file that keeps other      *)
(* processes out.  A process may be killed and the machine may crash       *)
(* between any two file-system calls.                                      *)
(*                                                                         *)
(* A process is one thread here: writeMu serializes the writes of a store, *)
(* and its drain gate is that of module SessionManager.                    *)
(***************************************************************************)
EXTENDS Integers, FiniteSets

CONSTANTS
  Procs,    \* processes that open the store
  DryRuns,  \* those that run MaintainFileStore's dry-run; the others NewFileStore
  IDs,      \* session IDs, each naming its record file
  Values,   \* record contents
  Temps,    \* names for temporary files (random in the code)
  Inodes,   \* lock files that exist at a time
  Marker, Format,   \* the format marker and its content
  Absent, Torn,     \* no such file; a file whose data did not reach the disk whole
  NoFile, Nobody

Names == IDs \cup {Marker} \cup Temps

ASSUME FileStoreAssumption ==
  /\ DryRuns \subseteq Procs
  /\ Marker \notin IDs /\ Temps \cap (IDs \cup {Marker}) = {}
  /\ Values \cap {Format, Absent, Torn} = {}
  /\ Format # Absent /\ Format # Torn /\ Absent # Torn
  /\ NoFile \notin Inodes \cup Temps /\ Nobody \notin Procs

VARIABLES
  dir,       \* the directory as processes see it: the content of each name
  durable,   \* what each name may hold after a machine crash
  lockName,  \* the lock file the directory names
  locked,    \* the process that holds the lock of each lock file
  stage,     \* what each process is doing
  lockFile,  \* storeRoot.lockFile
  removes,   \* Lstat found no lock file; later storeRoot.removeLock
  job,       \* the write in progress: [kind, name, val]
  temp,      \* its temporary file
  promised   \* what callers may expect of each record, from the results they got

lockVars == <<lockName, locked, lockFile, removes>>
dirVars == <<dir, durable>>
fvars == <<dirVars, lockVars, stage, job, temp, promised>>

NoJob == [kind |-> "none", name |-> Marker, val |-> Absent]

Jobs ==
  [kind : {"create", "save"}, name : IDs, val : Values]
    \cup [kind : {"delete"}, name : IDs, val : {Absent}]

Goto(p, where) == stage' = [stage EXCEPT ![p] = where]

\* A change of a directory entry: seen at once, on disk perhaps.
Put(n, val, onDisk) ==
  /\ dir' = [dir EXCEPT ![n] = val]
  /\ durable' = [durable EXCEPT ![n] = @ \cup onDisk]

Remove(n) == Put(n, Absent, {Absent})

--------------------------------------------------------------------------------
(***************************************************************************)
(* openStoreRoot and storeRoot.close.                                      *)
(***************************************************************************)

\* p has the lock and has not begun to give it up.
Owner(p) == stage[p] \notin {"closed", "looked", "opened", "closing"}

\* The Lstat whose result decides about removeLock.
LookForLock(p) ==
  /\ stage[p] = "closed"
  /\ removes' = [removes EXCEPT ![p] = p \in DryRuns /\ lockName = NoFile]
  /\ Goto(p, "looked")
  /\ UNCHANGED <<dirVars, lockName, locked, lockFile, job, temp, promised>>

Unused == {i \in Inodes : locked[i] = Nobody /\ \A p \in Procs : lockFile[p] # i}

\* openStoreLock: the file of that name, or a new one.
OpenLock(p) ==
  /\ stage[p] = "looked"
  /\ \/ /\ \E i \in IF lockName # NoFile THEN {lockName} ELSE Unused :
             lockName' = i /\ lockFile' = [lockFile EXCEPT ![p] = i]
        /\ Goto(p, "opened")
     \/ Goto(p, "closed") /\ UNCHANGED <<lockName, lockFile>>
  /\ UNCHANGED <<dirVars, locked, removes, job, temp, promised>>

\* p holds the lock now; a dry-run only reads from here on.
Locked(p) ==
  /\ locked' = [locked EXCEPT ![lockFile[p]] = p]
  /\ Goto(p, IF p \in DryRuns THEN "reading" ELSE "locked")
  /\ UNCHANGED <<dirVars, lockName, lockFile, removes, job, temp, promised>>

\* lockStoreFile does not wait: it takes the lock or the open fails.
TryLock(p) ==
  /\ stage[p] = "opened"
  /\ IF locked[lockFile[p]] = Nobody
     THEN Locked(p)
     ELSE /\ Goto(p, "closed")
          /\ lockFile' = [lockFile EXCEPT ![p] = NoFile]
          /\ UNCHANGED <<dirVars, lockName, locked, removes, job, temp, promised>>

\* close of a dry-run that found no lock file: the name is removed first.
RemoveLock(p) ==
  /\ stage[p] = "reading"
  /\ removes[p]
  /\ lockName' \in {NoFile, lockName}
  /\ removes' = [removes EXCEPT ![p] = FALSE]
  /\ Goto(p, "closing")
  /\ UNCHANGED <<dirVars, locked, lockFile, job, temp, promised>>

\* p's descriptors are closed, and with them its lock.
Forget(ps) ==
  /\ locked' = [i \in Inodes |-> IF locked[i] \in ps THEN Nobody ELSE locked[i]]
  /\ lockFile' = [p \in Procs |-> IF p \in ps THEN NoFile ELSE lockFile[p]]
  /\ removes' = [p \in Procs |-> IF p \in ps THEN FALSE ELSE removes[p]]
  /\ stage' = [p \in Procs |-> IF p \in ps THEN "closed" ELSE stage[p]]
  /\ job' = [p \in Procs |-> IF p \in ps THEN NoJob ELSE job[p]]
  /\ temp' = [p \in Procs |-> IF p \in ps THEN NoFile ELSE temp[p]]

Unlock(p) ==
  /\ stage[p] \in {"idle", "reading", "closing"}
  /\ ~ removes[p]
  /\ Forget({p})
  /\ UNCHANGED <<dirVars, lockName, promised>>

--------------------------------------------------------------------------------
(***************************************************************************)
(* NewFileStore: the marker, then the leftovers of killed processes.       *)
(***************************************************************************)

\* Mutant: a store without a marker is used as it is.
InitializeLayoutUnmarked(p) ==
  /\ stage[p] = "locked"
  /\ Goto(p, "cleaning")
  /\ UNCHANGED <<dirVars, lockVars, job, temp, promised>>

\* initializeLayout: a marked store is opened, an empty one is marked; anything
\* else, and any store that cannot be read, is refused.
InitializeLayout(p) ==
  /\ stage[p] = "locked"
  /\ \/ /\ dir[Marker] = Format
        /\ Goto(p, "cleaning")
        /\ UNCHANGED job
     \/ /\ dir[Marker] = Absent
        /\ \A id \in IDs : dir[id] = Absent
        /\ job' = [job EXCEPT ![p] = [kind |-> "create", name |-> Marker, val |-> Format]]
        /\ Goto(p, "begun")
     \/ Goto(p, "closing") /\ UNCHANGED job
  /\ UNCHANGED <<dirVars, lockVars, temp, promised>>

\* cleanupOwnedTemps: whatever cannot be removed stays.
CleanupOwnedTemps(p) ==
  /\ stage[p] = "cleaning"
  /\ \E gone \in SUBSET {t \in Temps : dir[t] # Absent} :
       /\ dir' = [n \in Names |-> IF n \in gone THEN Absent ELSE dir[n]]
       /\ durable' = [n \in Names |-> durable[n] \cup (IF n \in gone THEN {Absent} ELSE {})]
  /\ Goto(p, "idle")
  /\ UNCHANGED <<lockVars, job, temp, promised>>

--------------------------------------------------------------------------------
(***************************************************************************)
(* Create, Save and Delete.                                                *)
(***************************************************************************)

Begin(p, j) ==
  /\ stage[p] = "idle"
  /\ job' = [job EXCEPT ![p] = j]
  /\ Goto(p, "begun")
  /\ UNCHANGED <<dirVars, lockVars, temp, promised>>

\* What a caller who got this result knows: the write, either, or nothing new.
Learn(p, result) ==
  LET n == job[p].name IN
  promised' = IF n = Marker \/ result = "failed" THEN promised
              ELSE [promised EXCEPT ![n] = IF result = "ok" THEN {job[p].val}
                                           ELSE @ \cup {job[p].val}]

\* The write returns; NewFileStore goes on, or gives up without its marker.
Return(p, result) ==
  /\ Learn(p, result)
  /\ job' = [job EXCEPT ![p] = NoJob]
  /\ temp' = [temp EXCEPT ![p] = NoFile]
  /\ Goto(p, IF job[p].name # Marker THEN "idle"
             ELSE IF result = "ok" THEN "cleaning" ELSE "closing")

Fails(p) == Goto(p, "failing") /\ UNCHANGED <<dirVars, temp>>

Unaffected == UNCHANGED <<lockVars, job, promised>>

CreateTemp(p) ==
  /\ stage[p] = "begun"
  /\ job[p].kind # "delete"
  /\ \/ \E t \in Temps :
          /\ dir[t] = Absent /\ durable[t] = {Absent}
          /\ temp' = [temp EXCEPT ![p] = t]
          /\ Put(t, Torn, {Torn})
          /\ Goto(p, "temp")
          /\ Unaffected
     \/ Return(p, "failed") /\ UNCHANGED <<dirVars, lockVars>>

WriteTemp(p) ==
  /\ stage[p] = "temp"
  /\ \/ /\ Put(temp[p], job[p].val, {job[p].val})
        /\ Goto(p, "written")
        /\ UNCHANGED temp
     \/ Fails(p)
  /\ Unaffected

\* Mutant: the data are not flushed before they are published.
SyncTempSkipped(p) ==
  /\ stage[p] = "written"
  /\ Goto(p, "synced")
  /\ UNCHANGED <<dirVars, temp>>
  /\ Unaffected

\* file.Sync: the content is on disk, whatever name leads to it.
SyncTemp(p) ==
  /\ stage[p] = "written"
  /\ \/ /\ durable' = [durable EXCEPT ![temp[p]] = @ \ {Torn}]
        /\ Goto(p, "synced")
        /\ UNCHANGED <<dir, temp>>
     \/ Fails(p)
  /\ Unaffected

\* publishNamed: link, unless the name exists.
Link(p) ==
  LET n == job[p].name IN
  /\ stage[p] = "synced"
  /\ job[p].kind = "create"
  /\ \/ /\ dir[n] = Absent
        /\ Put(n, job[p].val, durable[temp[p]] \ {Absent})
        /\ Goto(p, "linked")
        /\ UNCHANGED temp
     \/ Fails(p)
  /\ Unaffected

RemoveTemp(p) ==
  /\ stage[p] = "linked"
  /\ \/ Remove(temp[p]) /\ Goto(p, "changed") /\ UNCHANGED <<job, temp, promised>>
     \/ Return(p, "uncertain") /\ UNCHANGED dirVars
  /\ UNCHANGED lockVars

\* replaceExclusive: the record must exist; rename replaces it at once.
Rename(p) ==
  LET n == job[p].name  t == temp[p] IN
  /\ stage[p] = "synced"
  /\ job[p].kind = "save"
  /\ \/ /\ dir[n] # Absent
        /\ dir' = [dir EXCEPT ![n] = job[p].val, ![t] = Absent]
        /\ durable' = [durable EXCEPT ![n] = @ \cup (durable[t] \ {Absent}),
                                      ![t] = @ \cup {Absent}]
        /\ Goto(p, "changed")
        /\ UNCHANGED temp
     \/ Fails(p)
  /\ Unaffected

DeleteRecord(p) ==
  /\ stage[p] = "begun"
  /\ job[p].kind = "delete"
  /\ \/ /\ dir[job[p].name] # Absent
        /\ Remove(job[p].name)
        /\ Goto(p, "changed")
        /\ UNCHANGED <<job, temp, promised>>
     \/ Return(p, "failed") /\ UNCHANGED dirVars
  /\ UNCHANGED lockVars

\* syncDir: every entry is on disk now, or the commit is uncertain.
SyncDir(p) ==
  /\ stage[p] = "changed"
  /\ \/ durable' = [n \in Names |-> {dir[n]}] /\ Return(p, "ok")
     \/ UNCHANGED durable /\ Return(p, "uncertain")
  /\ UNCHANGED <<dir, lockVars>>

\* The deferred removal of the temporary file, whose error is ignored.
Abort(p) ==
  /\ stage[p] = "failing"
  /\ Remove(temp[p]) \/ UNCHANGED dirVars
  /\ Return(p, "failed")
  /\ UNCHANGED lockVars

--------------------------------------------------------------------------------
(***************************************************************************)
(* Failures.  A caller that never got its answer expects either outcome.   *)
(***************************************************************************)

Interrupted(ps) ==
  promised' = [id \in IDs |->
                 promised[id] \cup {job[p].val : p \in {q \in ps : job[q].kind # "none"
                                                                    /\ job[q].name = id}}]

Kill(p) ==
  /\ stage[p] # "closed"
  /\ Interrupted({p})
  /\ Forget({p})
  /\ UNCHANGED <<dirVars, lockName>>

\* Every name keeps one of the contents it may have, independently.
MachineCrash ==
  /\ dir' \in {d \in [Names -> UNION {durable[n] : n \in Names}] :
                 \A n \in Names : d[n] \in durable[n]}
  /\ durable' = [n \in Names |-> {dir'[n]}]
  /\ lockName' \in {lockName, NoFile}
  /\ Interrupted(Procs)
  /\ Forget(Procs)

--------------------------------------------------------------------------------
FInit ==
  /\ dir = [n \in Names |-> Absent]
  /\ durable = [n \in Names |-> {Absent}]
  /\ lockName = NoFile
  /\ locked = [i \in Inodes |-> Nobody]
  /\ stage = [p \in Procs |-> "closed"]
  /\ lockFile = [p \in Procs |-> NoFile]
  /\ removes = [p \in Procs |-> FALSE]
  /\ job = [p \in Procs |-> NoJob]
  /\ temp = [p \in Procs |-> NoFile]
  /\ promised = [id \in IDs |-> {Absent}]

Opening(p) ==
  LookForLock(p) \/ OpenLock(p) \/ TryLock(p) \/ InitializeLayout(p) \/ CleanupOwnedTemps(p)

Writing(p) ==
  \/ CreateTemp(p) \/ WriteTemp(p) \/ SyncTemp(p) \/ Link(p) \/ RemoveTemp(p) \/ Rename(p)
  \/ DeleteRecord(p) \/ SyncDir(p) \/ Abort(p)

FNext ==
  \/ \E p \in Procs :
       \/ Opening(p) \/ Writing(p) \/ RemoveLock(p) \/ Unlock(p) \/ Kill(p)
       \/ \E j \in Jobs : Begin(p, j)
  \/ MachineCrash

FSpec == FInit /\ [][FNext]_fvars

--------------------------------------------------------------------------------
(***************************************************************************)
(* Properties.                                                             *)
(***************************************************************************)

\* The value p is writing to n, if any.
Writes(p, n) == job[p].kind # "none" /\ job[p].name = n

\* What callers were told is kept through kills and crashes: a record holds,
\* now and after a crash, the last acknowledged value or one whose fate was
\* left open, and never half a value; an error other than ErrCommitUncertain
\* left no trace.
PromisesKept ==
  \A id \in IDs :
    durable[id] \cup {dir[id]}
      \subseteq promised[id] \cup {job[p].val : p \in {q \in Procs : Writes(q, id)}}

\* A record that must exist can be reached again after any crash: its store
\* has its marker on disk, so NewFileStore opens it; and no crash leaves a
\* half-written marker, which it would take for a corrupt store.
AcknowledgedStoreReopens ==
  /\ (\E id \in IDs : Absent \notin promised[id]) => durable[Marker] = {Format}
  /\ durable[Marker] \subseteq {Absent, Format}

\* A FileStore "holds an exclusive maintenance lock until Close" (file.go:15):
\* no two processes use the directory at once.
OneOwner == \A p, q \in Procs : Owner(p) /\ Owner(q) => p = q
================================================================================
