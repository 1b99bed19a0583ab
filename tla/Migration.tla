------------------------------- MODULE Migration -------------------------------
(***************************************************************************)
(* Offline maintenance of a file store (runtime/sessions/maintenance.go,   *)
(* migrate.go, migrate_apply.go, migrate_restore.go): legacy records are   *)
(* backed up, rewritten under their v2 names and marked; a restore undoes  *)
(* that and a cleanup removes the backup.  An operation may fail or be     *)
(* killed, and the machine may crash, between any two file-system calls.   *)
(*                                                                         *)
(* One operation runs at a time: the lock file, and where it fails, are    *)
(* module FileStore's.  So are the temporary files of a publication: here  *)
(* a name appears whole (Link) and is on disk after the next SyncDir.      *)
(***************************************************************************)

CONSTANTS IDs, Backups

\* Contents of files: the record as it was, migrated, and as a live server saved
\* it; the v2 marker; a manifest is the set of the IDs it has entries for.
Absent == {"absent"}
Torn == {"torn"}
Legacy == {"legacy"}
V2 == {"v2"}
Saved == {"saved"}
Format == {"format"}

Source(id) == <<"source", id>>
Target(id) == <<"target", id>>
Marker == <<"marker">>
Directory(b) == <<"directory", b>>
Manifest(b) == <<"manifest", b>>
Copy(b, id) == <<"copy", b, id>>

Sources == {Source(id) : id \in IDs}
Targets == {Target(id) : id \in IDs}
Directories == {Directory(b) : b \in Backups}
Manifests == {Manifest(b) : b \in Backups}
Copies == {Copy(b, id) : b \in Backups, id \in IDs}

Root == Sources \cup Targets \cup {Marker} \cup Directories
Within(b) == {Manifest(b)} \cup {Copy(b, id) : id \in IDs}
Names == Root \cup Manifests \cup Copies

VARIABLES
  dir,      \* what each name holds
  durable,  \* what it may hold after a machine crash
  op,       \* the operation: [mode, at, left, id, backup]
  deleted,  \* IDs that name no session, or one deleted through a live server
  resumed   \* whether a restore stopped before its last change was on disk:
            \* "no", "yes", or "unkept" when its backup was not on disk either

mvars == <<dir, durable, op, deleted, resumed>>
history == <<deleted, resumed>>

NoBackup == "none"
Idle == [mode |-> "none", at |-> "idle", left |-> {}, id |-> "none", backup |-> NoBackup]

Put(n, val, onDisk) ==
  /\ dir' = [dir EXCEPT ![n] = val]
  /\ durable' = [durable EXCEPT ![n] = @ \cup onDisk]

Link(n, val) == dir[n] = Absent /\ Put(n, val, {val})
Remove(n) == Put(n, Absent, {Absent})

Sync(names) ==
  /\ durable' = [n \in Names |-> IF n \in names THEN {dir[n]} ELSE durable[n]]
  /\ UNCHANGED dir

At(mode, at) == op.mode = mode /\ op.at = at
Goto(at) == op' = [op EXCEPT !.at = at]
Next1(at, id) == op' = [op EXCEPT !.at = at, !.id = id, !.left = @ \ {id}]

SourcesLeft == {id \in IDs : dir[Source(id)] # Absent}
TargetsLeft == {id \in IDs : dir[Target(id)] # Absent}

--------------------------------------------------------------------------------
(***************************************************************************)
(* MaintainFileStore, and the operation's end: its result, an error at any *)
(* call, a cancelled context, or the process killed.                       *)
(***************************************************************************)

Start(mode, b) ==
  /\ op = Idle
  /\ op' = [Idle EXCEPT !.mode = mode, !.at = "begun", !.backup = b]
  /\ UNCHANGED <<dir, durable, history>>

Kept(b) == \A n \in {Directory(b)} \cup Within(b) : durable[n] = {dir[n]}
Unsynced == op.mode = "restore" /\ \E n \in Root : durable[n] # {dir[n]}

CutOff ==
  resumed' = IF ~ Unsynced \/ resumed = "unkept" THEN resumed
             ELSE IF Kept(op.backup) THEN "yes" ELSE "unkept"

Stop ==
  /\ op # Idle
  /\ op' = Idle
  /\ CutOff
  /\ UNCHANGED <<dir, durable, deleted>>

SyncDir(from, to) ==
  /\ op.at = from
  /\ Sync(Root)
  /\ Goto(to)
  /\ UNCHANGED history

--------------------------------------------------------------------------------
(***************************************************************************)
(* Dry-run and apply.                                                      *)
(***************************************************************************)

\* scanLegacyStore: no marker, no v2 name, every legacy record readable.
Scans ==
  /\ dir[Marker] = Absent
  /\ TargetsLeft = {}
  /\ \A id \in SourcesLeft : dir[Source(id)] = Legacy

ScanLegacyStore ==
  /\ op.mode \in {"dry-run", "apply"} /\ op.at = "begun"
  /\ Scans
  /\ IF op.mode = "dry-run" THEN op' = Idle
     ELSE op' = [op EXCEPT !.at = "scanned", !.left = SourcesLeft]
  /\ UNCHANGED <<dir, durable, history>>

\* createBackupDirectory: Mkdir of a random name.
CreateBackupDirectory ==
  /\ At("apply", "scanned")
  /\ Link(Directory(op.backup), Format)
  /\ Goto("copying")
  /\ UNCHANGED history

\* writeExclusiveSynced: data on disk once it returns, the name not yet; a
\* failed write leaves half a file.
WriteExclusiveSynced(n, val) ==
  /\ dir[n] = Absent
  /\ Put(n, val, {val}) \/ Put(n, Torn, {Torn})

\* A write that failed ends the operation.
AfterWrite(n, val, goto) == IF dir'[n] = val THEN goto ELSE op' = Idle

CopyRecord(id) ==
  /\ At("apply", "copying")
  /\ id \in op.left
  /\ dir[Source(id)] = Legacy
  /\ WriteExclusiveSynced(Copy(op.backup, id), Legacy)
  /\ AfterWrite(Copy(op.backup, id), Legacy, Next1("copying", id))
  /\ UNCHANGED history

\* The manifest comes last: a backup that has one is complete.
WriteManifest ==
  /\ At("apply", "copying")
  /\ op.left = {}
  /\ WriteExclusiveSynced(Manifest(op.backup), SourcesLeft)
  /\ AfterWrite(Manifest(op.backup), SourcesLeft, Goto("written"))
  /\ UNCHANGED history

SyncBackup ==
  /\ At("apply", "written")
  /\ Sync(Within(op.backup))
  /\ Goto("kept")
  /\ UNCHANGED history

\* loadMigrationManifest and verifyBackup: the manifest is whole, every copy it
\* lists has its checksum, and the directory holds nothing else.
Listed(b) == dir[Manifest(b)]

VerifyBackup(b) ==
  /\ dir[Directory(b)] # Absent
  /\ Listed(b) \notin {Absent, Torn}
  /\ \A id \in IDs : dir[Copy(b, id)] = IF id \in Listed(b) THEN Legacy ELSE Absent

ApplyMigration ==
  /\ At("apply", "synced")
  /\ VerifyBackup(op.backup)
  /\ op' = [op EXCEPT !.at = "applying", !.left = Listed(op.backup)]
  /\ UNCHANGED <<dir, durable, history>>

\* One entry: re-read, publish (link and sync), remove, sync.
PublishTarget(id) ==
  /\ At("apply", "applying")
  /\ id \in op.left
  /\ dir[Source(id)] = Legacy
  /\ Link(Target(id), V2)
  /\ Next1("published", id)
  /\ UNCHANGED history

\* Mutant: the source goes before its target is on disk.
RemoveSourceEarly ==
  /\ At("apply", "published")
  /\ Remove(Source(op.id))
  /\ Goto("removed")
  /\ UNCHANGED history

RemoveSource ==
  /\ At("apply", "targeted")
  /\ Remove(Source(op.id))
  /\ Goto("removed")
  /\ UNCHANGED history

PublishMarker ==
  /\ At("apply", "applying")
  /\ op.left = {}
  /\ Link(Marker, Format)
  /\ Goto("marked")
  /\ UNCHANGED history

Apply ==
  \/ ScanLegacyStore \/ CreateBackupDirectory \/ WriteManifest \/ SyncBackup
  \/ ApplyMigration \/ RemoveSource \/ PublishMarker
  \/ \E id \in IDs : CopyRecord(id) \/ PublishTarget(id)
  \/ SyncDir("kept", "synced") \/ SyncDir("published", "targeted")
  \/ SyncDir("removed", "applying")
  \/ op.at = "marked" /\ Sync(Root) /\ op' = Idle /\ UNCHANGED history

--------------------------------------------------------------------------------
(***************************************************************************)
(* Restore.                                                                *)
(***************************************************************************)

ValidateRestoreState(id) ==
  /\ dir[Source(id)] \in {Absent, Legacy}
  /\ dir[Target(id)] \in {Absent, V2}
  /\ dir[Source(id)] # Absent \/ dir[Target(id)] # Absent

Restorable(b) ==
  /\ VerifyBackup(b)
  /\ dir[Marker] \in {Absent, Format}
  /\ \A id \in Listed(b) : ValidateRestoreState(id)

RestoreMigration ==
  /\ At("restore", "begun")
  /\ Restorable(op.backup)
  /\ op' = [op EXCEPT !.at = IF dir[Marker] = Format THEN "unmarking" ELSE "restoring",
                      !.left = Listed(op.backup)]
  /\ UNCHANGED <<dir, durable, history>>

RemoveMarker ==
  /\ At("restore", "unmarking")
  /\ Remove(Marker)
  /\ Goto("unmarked")
  /\ UNCHANGED history

\* Mutant: the target goes first.
RestoreSourceLast(id) ==
  /\ At("restore", "restoring")
  /\ id \in op.left
  /\ Remove(Target(id))
  /\ Next1("linked", id)
  /\ UNCHANGED history

\* A source that is there is left as it is, on disk or not.
RestoreSource(id) ==
  /\ At("restore", "restoring")
  /\ id \in op.left
  /\ IF dir[Source(id)] = Absent
     THEN Link(Source(id), dir[Copy(op.backup, id)]) /\ Next1("linked", id)
     ELSE Next1("sourced", id) /\ UNCHANGED <<dir, durable>>
  /\ UNCHANGED history

RemoveTarget ==
  /\ At("restore", "sourced")
  /\ IF dir[Target(op.id)] # Absent
     THEN Remove(Target(op.id)) /\ Goto("untargeted")
     ELSE Goto("restoring") /\ UNCHANGED <<dir, durable>>
  /\ UNCHANGED history

Restored ==
  /\ At("restore", "restoring")
  /\ op.left = {}
  /\ op' = Idle
  /\ UNCHANGED <<dir, durable, history>>

Restore ==
  \/ RestoreMigration \/ RemoveMarker \/ RemoveTarget \/ Restored
  \/ \E id \in IDs : RestoreSource(id)
  \/ SyncDir("unmarked", "restoring") \/ SyncDir("linked", "sourced")
  \/ SyncDir("untargeted", "restoring")

--------------------------------------------------------------------------------
(***************************************************************************)
(* Cleanup.                                                                *)
(***************************************************************************)

\* Mutant: an unfinished migration's backup is removed too.
CleanupUnfinished ==
  /\ At("cleanup", "begun")
  /\ VerifyBackup(op.backup)
  /\ op' = [op EXCEPT !.at = "cleaning", !.left = Listed(op.backup)]
  /\ UNCHANGED <<dir, durable, history>>

CleanupMigrationBackup ==
  /\ At("cleanup", "begun")
  /\ VerifyBackup(op.backup)
  /\ dir[Marker] = Format
  /\ \A id \in Listed(op.backup) : dir[Source(id)] = Absent /\ dir[Target(id)] = V2
  /\ op' = [op EXCEPT !.at = "cleaning", !.left = Listed(op.backup)]
  /\ UNCHANGED <<dir, durable, history>>

RemoveCopy(id) ==
  /\ At("cleanup", "cleaning")
  /\ id \in op.left
  /\ Remove(Copy(op.backup, id))
  /\ Next1("cleaning", id)
  /\ UNCHANGED history

RemoveManifest ==
  /\ At("cleanup", "cleaning")
  /\ op.left = {}
  /\ Remove(Manifest(op.backup))
  /\ Goto("emptied")
  /\ UNCHANGED history

RemoveDirectory ==
  /\ At("cleanup", "emptied")
  /\ Remove(Directory(op.backup))
  /\ Goto("gone")
  /\ UNCHANGED history

Cleanup ==
  \/ CleanupMigrationBackup \/ RemoveManifest \/ RemoveDirectory
  \/ \E id \in IDs : RemoveCopy(id)
  \/ SyncDir("gone", "over")

--------------------------------------------------------------------------------
(***************************************************************************)
(* A server on the same root, and machine crashes.                         *)
(***************************************************************************)

\* NewFileStore: initializeLayout opens a marked store of v2 names only, and
\* takes a store without any record for a new one.
Opens ==
  /\ SourcesLeft = {}
  /\ dir[Marker] = Format \/ TargetsLeft = {}

Serve ==
  /\ At("live", "begun")
  /\ Opens
  /\ IF dir[Marker] = Format THEN Sync({}) ELSE Link(Marker, Format)
  /\ Goto("serving")
  /\ UNCHANGED history

ServeWrite(id) ==
  /\ At("live", "serving")
  /\ dir[Target(id)] # Absent
  /\ \/ Put(Target(id), Saved, {Saved}) /\ UNCHANGED deleted
     \/ Remove(Target(id)) /\ deleted' = deleted \cup {id}
  /\ Goto("saved")
  /\ UNCHANGED resumed

Live == Serve \/ (\E id \in IDs : ServeWrite(id)) \/ SyncDir("saved", "serving")

\* What a crash may leave of some names: each keeps one of its contents,
\* independently of the others.
After(names) ==
  {left \in [names -> UNION {durable[n] : n \in names}] : \A n \in names : left[n] \in durable[n]}

\* Without its directory a backup's files cannot be reached.
MachineCrash ==
  /\ \E s \in After(Sources), t \in After(Targets), r \in After({Marker} \cup Directories),
        m \in After(Manifests), c \in After(Copies) :
       dir' = [n \in Names |-> IF n \in Sources THEN s[n]
                               ELSE IF n \in Targets THEN t[n]
                               ELSE IF n \in Manifests THEN m[n]
                               ELSE IF n \in Copies THEN c[n] ELSE r[n]]
  /\ \A b \in Backups : dir'[Directory(b)] = Absent => \A n \in Within(b) : dir'[n] = Absent
  /\ durable' = [n \in Names |-> {dir'[n]}]
  /\ op' = Idle
  /\ CutOff
  /\ UNCHANGED deleted

Modes == {"dry-run", "apply", "restore", "cleanup", "live"}

\* A legacy store of some sessions.
MInit ==
  /\ deleted \in SUBSET IDs
  /\ dir = [n \in Names |-> IF n \in {Source(id) : id \in IDs \ deleted} THEN Legacy ELSE Absent]
  /\ durable = [n \in Names |-> {dir[n]}]
  /\ op = Idle
  /\ resumed = "no"

MNext ==
  \/ \E m \in Modes, b \in Backups : Start(m, b)
  \/ Apply \/ Restore \/ Cleanup \/ Live \/ Stop \/ MachineCrash

MSpec == MInit /\ [][MNext]_mvars

--------------------------------------------------------------------------------
(***************************************************************************)
(* Properties, of what is seen now and of what any crash may leave.        *)
(***************************************************************************)

\* No record is ever lost: whatever operation is interrupted, and whatever a
\* crash then does to names that were not synced, a session nobody deleted is
\* there under its old name, under its new one, or in a complete backup.  (A
\* restore cut off twice, from a backup whose own apply was killed before it
\* synced it, is the exception.)
RecordSurvives ==
  \A id \in IDs \ deleted :
    \/ durable[Source(id)] = {Legacy}
    \/ durable[Target(id)] \subseteq {V2, Saved}
    \/ \E b \in Backups : Kept(b) /\ VerifyBackup(b) /\ id \in Listed(b)
    \/ resumed = "unkept"

\* NewFileStore may find, now or after a crash, a store that it opens without id's
\* session.
OpensWithout(id) ==
  /\ \A i \in IDs : Absent \in durable[Source(i)]
  /\ Format \in durable[Marker] \/ \A i \in IDs : Absent \in durable[Target(i)]
  /\ Absent \in durable[Target(id)]

\* A store NewFileStore opens, now or after a crash, holds every session: an
\* interrupted apply or restore is refused instead of served in part, unless
\* a restore was itself cut off and run again.
OpensComplete == resumed = "no" => \A id \in IDs \ deleted : ~ OpensWithout(id)

NothingServed(b) ==
  Listed(b) \cap deleted = {} /\ \A id \in IDs : dir[Target(id)] # Saved

\* An apply that stopped partway, by an error, a kill or a crash, can be undone:
\* as long as no server wrote to the store, a restore from any complete backup
\* is accepted, unless a restore was itself cut off.
RestoreAccepted ==
  \A b \in Backups : VerifyBackup(b) /\ NothingServed(b) /\ resumed = "no" => Restorable(b)

\* "If apply stops partway, run the reported `--restore` command before
\* restarting" (README.md:388): the same of every interruption, a restore's too.
RestoreResumes ==
  \A b \in Backups : VerifyBackup(b) /\ NothingServed(b) => Restorable(b)
================================================================================
