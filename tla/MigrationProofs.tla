--------------------------- MODULE MigrationProofs ---------------------------
(***************************************************************************)
(* Proofs about Migration, for any sets of records and of backups: a       *)
(* record is never lost, a store that opens is complete, and an interrupted *)
(* apply can be undone.                                                    *)
(*                                                                         *)
(* The argument.  A record is Settled when no crash can take it away: its   *)
(* old name is on disk, or its new one certainly is.  Apply keeps it        *)
(* settled by syncing between the two changes.  Restore would too, but it   *)
(* leaves a source that is there as it is, so a second restore may remove   *)
(* a target whose source an earlier one linked and did not sync; then only  *)
(* a backup that is itself on disk keeps the record (Covered).             *)
(***************************************************************************)
EXTENDS Migration, TLAPS

Contents(n) ==
  {val \in {Absent, Torn, Legacy, V2, Saved, Format} \cup SUBSET IDs :
     /\ n \in Sources => val \in {Absent, Legacy}
     /\ n \in Targets => val \in {Absent, V2, Saved}
     /\ n \in {Marker} \cup Directories => val \in {Absent, Format}
     /\ n \in Manifests => val \in {Absent, Torn} \cup SUBSET IDs
     /\ n \in Copies => val \in {Absent, Torn, Legacy}}

Stages == {"idle", "begun", "scanned", "copying", "written", "kept", "synced", "applying",
           "published", "targeted", "removed", "marked", "unmarking", "unmarked",
           "restoring", "linked", "sourced", "untargeted", "cleaning", "emptied", "gone",
           "over", "serving", "saved"}

\* Types; what a name holds is among what a crash may leave of it.
FilesOK ==
  /\ dir = [n \in Names |-> dir[n]] /\ durable = [n \in Names |-> durable[n]]
  /\ \A n \in Names : dir[n] \in durable[n] /\ durable[n] \subseteq Contents(n)

OpOK ==
  /\ op \in [mode : Modes \cup {"none"}, at : Stages, left : SUBSET IDs,
             id : IDs \cup {"none"}, backup : Backups \cup {NoBackup}]
  /\ op # Idle => op.mode \in Modes /\ op.backup \in Backups
  /\ deleted \subseteq IDs
  /\ resumed \in {"no", "yes", "unkept"}

\* No crash takes the record away.
Settled(id) == durable[Source(id)] = {Legacy} \/ Absent \notin durable[Target(id)]

\* The backup a cleanup is removing.
Cleaned == IF op.mode = "cleanup" /\ op.at # "begun" THEN {op.backup} ELSE {}

\* A backup on disk holds the record, or a restore was cut off whose backup was not.
Covered(id) ==
  \/ resumed = "unkept"
  \/ /\ resumed = "yes"
     /\ \E b \in Backups \ Cleaned : Kept(b) /\ VerifyBackup(b) /\ id \in Listed(b)

RecordInv(id) ==
  /\ id \notin deleted => Settled(id) \/ Covered(id)
  /\ dir[Target(id)] # Absent => Settled(id)
  /\ dir[Source(id)] # Absent =>
       \/ durable[Source(id)] = {Legacy}
       \/ op.at = "linked" /\ op.id = id
       \/ Covered(id)

\* Where each operation stands.
ApplyInv ==
  /\ op.at \in {"synced", "applying", "targeted"} => \A n \in Root : durable[n] = {dir[n]}
  /\ op.at \in {"published", "targeted"} => op.id \in IDs /\ dir[Target(op.id)] = V2
  /\ op.at = "copying" => dir[Directory(op.backup)] # Absent /\ dir[Manifest(op.backup)] = Absent

RestoreInv ==
  /\ op.at \in {"unmarking", "unmarked", "restoring", "linked", "sourced", "untargeted"} =>
       op.mode = "restore" /\ VerifyBackup(op.backup) /\ op.left \subseteq Listed(op.backup)
  /\ op.at \in {"linked", "sourced"} =>
       op.id \in Listed(op.backup) /\ dir[Source(op.id)] # Absent

CleanupInv ==
  /\ op.at \in {"cleaning", "emptied"} => op.mode = "cleanup"
  /\ op.at = "emptied" => dir[Manifest(op.backup)] = Absent

\* A backup without its directory has no manifest.
BackupInv(b) == dir[Directory(b)] = Absent => dir[Manifest(b)] = Absent

MInv ==
  /\ FilesOK /\ OpOK
  /\ ApplyInv /\ RestoreInv /\ CleanupInv
  /\ \A b \in Backups : BackupInv(b)
  /\ \A id \in IDs : RecordInv(id)

\* What a step does to a name it does not change: nothing, or it syncs it.
Steady(n) == dir'[n] = dir[n] /\ durable'[n] \in {durable[n], {dir[n]}}

--------------------------------------------------------------------------------
(***************************************************************************)
(* Names, contents, and what the file-system calls do to them.             *)
(***************************************************************************)

\* Names of different kinds, and of different records or backups, differ.
LEMMA NameFacts ==
  /\ \A i \in IDs : Source(i) \in Sources /\ Target(i) \in Targets
  /\ \A b \in Backups : Directory(b) \in Directories /\ Manifest(b) \in Manifests
  /\ \A b \in Backups, i \in IDs : Copy(b, i) \in Copies
  /\ \A i, j \in IDs : (Source(i) = Source(j) \/ Target(i) = Target(j)) => i = j
  /\ \A b, c \in Backups : (Directory(b) = Directory(c) \/ Manifest(b) = Manifest(c)) => b = c
  /\ \A b, c \in Backups, i, j \in IDs : Copy(b, i) = Copy(c, j) => b = c /\ i = j
<1>1. /\ \A i \in IDs : Source(i) \in Sources /\ Target(i) \in Targets
      /\ \A b \in Backups : Directory(b) \in Directories /\ Manifest(b) \in Manifests
      /\ \A b \in Backups, i \in IDs : Copy(b, i) \in Copies
  BY DEF Sources, Targets, Directories, Manifests, Copies
<1>2. \A i, j \in IDs : (Source(i) = Source(j) \/ Target(i) = Target(j)) => i = j
  BY DEF Source, Target
<1>3. \A b, c \in Backups : (Directory(b) = Directory(c) \/ Manifest(b) = Manifest(c)) => b = c
  BY DEF Directory, Manifest
<1>4. \A b, c \in Backups, i, j \in IDs : Copy(b, i) = Copy(c, j) => b = c /\ i = j
  BY DEF Copy
<1> QED BY <1>1, <1>2, <1>3, <1>4

\* The kinds of names are disjoint.
LEMMA KindsDiffer ==
  /\ \A n \in Sources : n \notin Targets \cup {Marker} \cup Directories \cup Manifests \cup Copies
  /\ \A n \in Targets : n \notin {Marker} \cup Directories \cup Manifests \cup Copies
  /\ Marker \notin Directories \cup Manifests \cup Copies
  /\ \A n \in Directories : n \notin Manifests \cup Copies
  /\ \A n \in Manifests : n \notin Copies
BY DEF Sources, Targets, Directories, Manifests, Copies, Source, Target, Marker, Directory,
       Manifest, Copy

\* A backup's files are no names of the root.
LEMMA WithinNames ==
  \A b \in Backups :
    /\ Within(b) \subseteq Manifests \cup Copies
    /\ Manifest(b) \in Within(b)
    /\ \A i \in IDs : Copy(b, i) \in Within(b)
    /\ \A c \in Backups : c # b => Within(b) \cap Within(c) = {}
    /\ Within(b) \cap Root = {}
<1> SUFFICES ASSUME NEW b \in Backups
             PROVE  /\ Within(b) \subseteq Manifests \cup Copies
                    /\ Manifest(b) \in Within(b)
                    /\ \A i \in IDs : Copy(b, i) \in Within(b)
                    /\ \A c \in Backups : c # b => Within(b) \cap Within(c) = {}
                    /\ Within(b) \cap Root = {}
  OBVIOUS
<1>1. /\ Within(b) \subseteq Manifests \cup Copies
      /\ Manifest(b) \in Within(b)
      /\ \A i \in IDs : Copy(b, i) \in Within(b)
  BY NameFacts DEF Within
<1>2. \A c \in Backups : c # b => Within(b) \cap Within(c) = {}
  BY NameFacts, KindsDiffer DEF Within
<1>3. Within(b) \cap Root = {}
  BY <1>1, KindsDiffer DEF Root
<1> QED BY <1>1, <1>2, <1>3

\* Contents of different kinds differ.
LEMMA ContentsDiffer ==
  /\ Absent # Torn /\ Absent # Legacy /\ Absent # V2 /\ Absent # Saved /\ Absent # Format
  /\ Torn # Legacy /\ V2 # Saved
BY DEF Absent, Torn, Legacy, V2, Saved, Format

\* A call that changes one name.
LEMMA PutFacts ==
  ASSUME FilesOK, NEW n \in Names, NEW val, Put(n, val, {val})
  PROVE  /\ dir'[n] = val /\ durable'[n] = durable[n] \cup {val}
         /\ \A m \in Names : m # n => dir'[m] = dir[m] /\ durable'[m] = durable[m]
         /\ val \in Contents(n) => FilesOK'
<1>1. /\ dir'[n] = val /\ durable'[n] = durable[n] \cup {val}
      /\ \A m \in Names : m # n => dir'[m] = dir[m] /\ durable'[m] = durable[m]
      /\ dir' = [m \in Names |-> dir'[m]] /\ durable' = [m \in Names |-> durable'[m]]
  BY DEF FilesOK, Put
<1>2. ASSUME val \in Contents(n), NEW m \in Names
      PROVE  dir'[m] \in durable'[m] /\ durable'[m] \subseteq Contents(m)
  BY <1>1, <1>2 DEF FilesOK
<1>3. \A m : Contents(m)' = Contents(m)
  BY DEF Contents
<1> QED BY <1>1, <1>2, <1>3 DEF FilesOK

\* A directory sync.
LEMMA SyncFacts ==
  ASSUME FilesOK, NEW names, Sync(names)
  PROVE  /\ FilesOK'
         /\ \A n \in Names : Steady(n) /\ (n \in names => durable'[n] = {dir'[n]})
<1>1. /\ dir' = dir
      /\ durable' = [n \in Names |-> IF n \in names THEN {dir[n]} ELSE durable[n]]
  BY DEF Sync
<1>2. \A n \in Names : Steady(n) /\ (n \in names => durable'[n] = {dir'[n]})
  BY <1>1 DEF Steady
<1>3. \A n \in Names : dir'[n] \in durable'[n] /\ durable'[n] \subseteq Contents(n)
  BY <1>1 DEF FilesOK
<1>4. dir' = [n \in Names |-> dir'[n]] /\ durable' = [n \in Names |-> durable'[n]]
  BY <1>1 DEF FilesOK
<1>5. \A m : Contents(m)' = Contents(m)
  BY DEF Contents
<1> QED BY <1>2, <1>3, <1>4, <1>5 DEF FilesOK

--------------------------------------------------------------------------------
(***************************************************************************)
(* What a step that leaves a backup, or a record, alone preserves.         *)
(***************************************************************************)

\* A backup none of whose names changes stays what it is, and on disk if it was.
LEMMA BackupSame ==
  ASSUME NEW b \in Backups, \A n \in {Directory(b)} \cup Within(b) : Steady(n)
  PROVE  /\ Listed(b)' = Listed(b)
         /\ VerifyBackup(b)' <=> VerifyBackup(b)
         /\ Kept(b) => Kept(b)'
<1>1. Steady(Directory(b)) /\ Steady(Manifest(b)) /\ \A i \in IDs : Steady(Copy(b, i))
  BY WithinNames
<1>2. Listed(b)' = Listed(b)
  BY <1>1 DEF Listed, Steady
<1>3. VerifyBackup(b)' <=> VerifyBackup(b)
  BY <1>1, <1>2 DEF VerifyBackup, Steady
<1>4. Kept(b) => Kept(b)'
  BY DEF Kept, Steady
<1> QED BY <1>2, <1>3, <1>4

\* A covered record stays covered as long as the backups that cover it stay.
LEMMA CoveredStays ==
  ASSUME NEW id \in IDs, Covered(id),
         resumed = "unkept" => resumed' = "unkept",
         resumed = "yes" => resumed' \in {"yes", "unkept"},
         \A b \in Backups \ Cleaned : VerifyBackup(b) /\ id \in Listed(b) =>
           b \notin Cleaned' /\ \A n \in {Directory(b)} \cup Within(b) : Steady(n)
  PROVE  Covered(id)'
<1>1. CASE resumed' = "unkept"
  BY <1>1 DEF Covered
<1>2. CASE resumed' = "yes" /\ resumed = "yes"
  <2>1. PICK b \in Backups \ Cleaned : Kept(b) /\ VerifyBackup(b) /\ id \in Listed(b)
    BY <1>2 DEF Covered
  <2>2. b \notin Cleaned' /\ Kept(b)' /\ VerifyBackup(b)' /\ id \in Listed(b)'
    BY <2>1, BackupSame
  <2> QED BY <1>2, <2>2 DEF Covered
<1> QED BY <1>1, <1>2 DEF Covered

\* A record none of whose names changes stays as safe as it was.
LEMMA RecordStays ==
  ASSUME FilesOK, NEW id \in IDs, RecordInv(id),
         deleted \subseteq deleted',
         Covered(id) => Covered(id)',
         Steady(Source(id)), Steady(Target(id)),
         op.at = "linked" /\ op.id = id /\ durable[Source(id)] # {Legacy} =>
           \/ durable'[Source(id)] = {Legacy}
           \/ op'.at = "linked" /\ op'.id = id
           \/ Covered(id)'
  PROVE  RecordInv(id)'
<1>0. Source(id) \in Names /\ Target(id) \in Names
  BY NameFacts DEF Names, Root
<1>1. Settled(id) => Settled(id)'
  <2>1. durable[Source(id)] = {Legacy} => durable'[Source(id)] = {Legacy}
    BY <1>0 DEF Steady, FilesOK
  <2>2. Absent \notin durable[Target(id)] => Absent \notin durable'[Target(id)]
    BY <1>0 DEF Steady, FilesOK
  <2> QED BY <2>1, <2>2 DEF Settled
<1>2. id \notin deleted' => Settled(id)' \/ Covered(id)'
  BY <1>1 DEF RecordInv
<1>3. dir'[Target(id)] # Absent => Settled(id)'
  BY <1>1 DEF RecordInv, Steady
<1>4. ASSUME dir'[Source(id)] # Absent
      PROVE  \/ durable'[Source(id)] = {Legacy}
             \/ op'.at = "linked" /\ op'.id = id
             \/ Covered(id)'
  <2>1. durable[Source(id)] = {Legacy} => durable'[Source(id)] = {Legacy}
    BY <1>0 DEF Steady, FilesOK
  <2> QED BY <1>4, <2>1 DEF RecordInv, Steady
<1> QED BY <1>2, <1>3, <1>4 DEF RecordInv

\* A step that changes no name keeps backups and records; only a restore that
\* stands between linking a source and syncing it needs a word of its own.
LEMMA NothingPut ==
  ASSUME MInv, \A n \in Names : Steady(n),
         resumed = "unkept" => resumed' = "unkept",
         resumed = "yes" => resumed' \in {"yes", "unkept"},
         deleted' = deleted,
         \A b \in Cleaned' \ Cleaned : \A id \in Listed(b) :
           dir[Target(id)] # Absent /\ dir[Source(id)] = Absent,
         \A id \in IDs : op.at = "linked" /\ op.id = id /\ durable[Source(id)] # {Legacy} =>
           durable'[Source(id)] = {Legacy} \/ Covered(id)'
  PROVE  /\ \A b \in Backups :
              BackupInv(b)' /\ Listed(b)' = Listed(b) /\ (VerifyBackup(b)' <=> VerifyBackup(b))
         /\ \A id \in IDs : RecordInv(id)'
<1>1. \A b \in Backups : \A n \in {Directory(b)} \cup Within(b) : n \in Names
  BY NameFacts, WithinNames DEF Names, Root
<1>2. ASSUME NEW b \in Backups
      PROVE  BackupInv(b)' /\ Listed(b)' = Listed(b) /\ (VerifyBackup(b)' <=> VerifyBackup(b))
  <2>1. \A n \in {Directory(b)} \cup Within(b) : Steady(n)
    BY <1>1
  <2>2. BackupInv(b)'
    BY <2>1, WithinNames DEF MInv, BackupInv, Steady
  <2> QED BY <2>1, <2>2, BackupSame
<1>3. ASSUME NEW id \in IDs
      PROVE  RecordInv(id)'
  <2>0. RecordInv(id) /\ FilesOK
    BY DEF MInv
  <2>1. Steady(Source(id)) /\ Steady(Target(id))
    BY NameFacts DEF Names, Root
  <2>2. CASE \E b \in Cleaned' \ Cleaned : id \in Listed(b)
    <3>1. dir[Target(id)] # Absent /\ dir[Source(id)] = Absent
      BY <2>2
    <3>2. Settled(id)
      BY <2>0, <3>1 DEF RecordInv
    <3>3. Settled(id)'
      BY <2>0, <2>1, <3>2, NameFacts DEF Settled, Steady, FilesOK, Names, Root
    <3> QED BY <2>1, <3>1, <3>3 DEF RecordInv, Steady
  <2>3. CASE ~ \E b \in Cleaned' \ Cleaned : id \in Listed(b)
    <3>1. Covered(id) => Covered(id)'
      BY <1>1, <2>3, CoveredStays
    <3>2. op.at = "linked" /\ op.id = id /\ durable[Source(id)] # {Legacy} =>
            \/ durable'[Source(id)] = {Legacy}
            \/ op'.at = "linked" /\ op'.id = id
            \/ Covered(id)'
      OBVIOUS
    <3> QED BY <2>0, <2>1, <3>1, <3>2, RecordStays
  <2> QED BY <2>2, <2>3
<1> QED BY <1>2, <1>3

\* A step that changes a name of the root keeps the backups, what they cover,
\* and the records it is not about.
LEMMA RootPut ==
  ASSUME MInv, NEW n \in Sources \cup Targets \cup {Marker}, NEW val \in Contents(n),
         Put(n, val, {val}), resumed' = resumed, deleted \subseteq deleted',
         Cleaned' \subseteq Cleaned
  PROVE  /\ FilesOK'
         /\ dir'[n] = val /\ durable'[n] = durable[n] \cup {val}
         /\ \A m \in Names : m # n => dir'[m] = dir[m] /\ durable'[m] = durable[m]
         /\ \A b \in Backups :
              BackupInv(b)' /\ Listed(b)' = Listed(b) /\ (VerifyBackup(b)' <=> VerifyBackup(b))
         /\ \A id \in IDs : Covered(id) => Covered(id)'
         /\ \A id \in IDs : n \notin {Source(id), Target(id)} /\ ~ (op.at = "linked" /\ op.id = id)
                              => RecordInv(id)'
<1>0. n \in Names /\ FilesOK
  BY DEF Names, Root, MInv
<1>1. /\ dir'[n] = val /\ durable'[n] = durable[n] \cup {val}
      /\ \A m \in Names : m # n => dir'[m] = dir[m] /\ durable'[m] = durable[m]
      /\ FilesOK'
  BY <1>0, PutFacts
<1>2. \A b \in Backups : \A m \in {Directory(b)} \cup Within(b) : m \in Names /\ m # n
  BY NameFacts, WithinNames, KindsDiffer DEF Names, Root
<1>3. \A b \in Backups : \A m \in {Directory(b)} \cup Within(b) : Steady(m)
  BY <1>1, <1>2 DEF Steady
<1>4. ASSUME NEW b \in Backups
      PROVE  BackupInv(b)' /\ Listed(b)' = Listed(b) /\ (VerifyBackup(b)' <=> VerifyBackup(b))
  <2>1. BackupInv(b)'
    BY <1>3, WithinNames DEF MInv, BackupInv, Steady
  <2> QED BY <1>3, <2>1, BackupSame
<1>5. \A id \in IDs : Covered(id) => Covered(id)'
  BY <1>3, CoveredStays
<1>6. ASSUME NEW id \in IDs, n \notin {Source(id), Target(id)}, ~ (op.at = "linked" /\ op.id = id)
      PROVE  RecordInv(id)'
  <2>1. Steady(Source(id)) /\ Steady(Target(id))
    BY <1>1, <1>6, NameFacts DEF Steady, Names, Root
  <2> QED BY <1>0, <1>5, <1>6, <2>1, RecordStays DEF MInv
<1> QED BY <1>1, <1>4, <1>5, <1>6

\* A step that changes a file of a backup that is not complete, or that a cleanup
\* has given up, keeps the root, the other backups and every record.
LEMMA BackupPut ==
  ASSUME MInv, NEW b \in Backups, NEW n \in {Directory(b)} \cup Within(b),
         NEW val \in Contents(n), Put(n, val, {val}), UNCHANGED history,
         b \in Cleaned \/ ~ VerifyBackup(b), op.at # "linked",
         Cleaned' \subseteq Cleaned
  PROVE  /\ FilesOK'
         /\ dir'[n] = val
         /\ \A m \in Names : m # n => dir'[m] = dir[m] /\ durable'[m] = durable[m]
         /\ \A c \in Backups \ {b} : BackupInv(c)'
         /\ \A id \in IDs : RecordInv(id)'
<1>0. n \in Names /\ FilesOK
  BY NameFacts, WithinNames DEF Names, Root, MInv
<1>1. /\ dir'[n] = val
      /\ \A m \in Names : m # n => dir'[m] = dir[m] /\ durable'[m] = durable[m]
      /\ FilesOK'
  BY <1>0, PutFacts
<1>2. \A c \in Backups \ {b} : \A m \in {Directory(c)} \cup Within(c) : m \in Names /\ m # n
  BY NameFacts, WithinNames, KindsDiffer DEF Names, Root
<1>3. \A c \in Backups \ {b} : \A m \in {Directory(c)} \cup Within(c) : Steady(m)
  BY <1>1, <1>2 DEF Steady
<1>4. \A c \in Backups \ {b} : BackupInv(c)'
  BY <1>3, WithinNames DEF MInv, BackupInv, Steady
<1>5. ASSUME NEW id \in IDs
      PROVE  RecordInv(id)'
  <2>1. Covered(id) => Covered(id)'
    BY <1>3, CoveredStays DEF history
  <2>2. Steady(Source(id)) /\ Steady(Target(id))
    BY <1>1, NameFacts, WithinNames, KindsDiffer DEF Steady, Names, Root
  <2> QED BY <1>0, <2>1, <2>2, RecordStays DEF MInv, history
<1> QED BY <1>1, <1>4, <1>5

--------------------------------------------------------------------------------
(***************************************************************************)
(* The steps of an operation, its start and its end.                       *)
(***************************************************************************)

\* A step that only moves the operation on.
LEMMA QuietStep ==
  ASSUME MInv, UNCHANGED <<dir, durable, history>>, op.at # "linked",
         OpOK', ApplyInv', RestoreInv', CleanupInv',
         \A b \in Cleaned' \ Cleaned : \A id \in Listed(b) :
           dir[Target(id)] # Absent /\ dir[Source(id)] = Absent
  PROVE  MInv'
<1>1. FilesOK'
  BY DEF MInv, FilesOK, Contents
<1>2. \A n \in Names : Steady(n)
  BY DEF Steady
<1>3. /\ \A b \in Backups : BackupInv(b)'
      /\ \A id \in IDs : RecordInv(id)'
  BY <1>2, NothingPut DEF history
<1> QED BY <1>1, <1>3 DEF MInv

\* A step that syncs a directory, and moves the operation on.
LEMMA SyncStep ==
  ASSUME MInv, NEW names, Sync(names), UNCHANGED history,
         op.at = "linked" => Root \subseteq names,
         OpOK', ApplyInv', RestoreInv', CleanupInv', Cleaned' \subseteq Cleaned
  PROVE  MInv'
<1>1. FilesOK' /\ \A n \in Names : Steady(n) /\ (n \in names => durable'[n] = {dir'[n]})
  BY SyncFacts DEF MInv
<1>2. ASSUME NEW id \in IDs, op.at = "linked", op.id = id
      PROVE  durable'[Source(id)] = {Legacy}
  <2>1. Source(id) \in Names /\ Source(id) \in names
    BY <1>2, NameFacts DEF Names, Root
  <2>2. dir[Source(id)] # Absent
    BY <1>2 DEF MInv, RestoreInv
  <2>3. dir[Source(id)] = Legacy
    BY <2>1, <2>2, NameFacts DEF MInv, FilesOK, Contents
  <2> QED BY <1>1, <2>1, <2>3 DEF Steady
<1>3. /\ \A b \in Backups : BackupInv(b)'
      /\ \A id \in IDs : RecordInv(id)'
  BY <1>1, <1>2, NothingPut DEF history
<1> QED BY <1>1, <1>3 DEF MInv

\* Starting an operation.
LEMMA StartKeeps ==
  ASSUME MInv, NEW m \in Modes, NEW b \in Backups, Start(m, b)
  PROVE  MInv'
<1>1. /\ op = Idle /\ op' = [Idle EXCEPT !.mode = m, !.at = "begun", !.backup = b]
      /\ UNCHANGED <<dir, durable, history>>
  BY DEF Start
<1>2. op.at # "linked" /\ op'.at = "begun"
  BY <1>1 DEF Idle
<1>3. OpOK'
  BY <1>1 DEF MInv, OpOK, Idle, NoBackup, Stages, history
<1>4. ApplyInv' /\ RestoreInv' /\ CleanupInv' /\ Cleaned' = {}
  BY <1>2 DEF ApplyInv, RestoreInv, CleanupInv, Cleaned
<1> QED BY <1>1, <1>2, <1>3, <1>4, QuietStep

\* Facts about the idle state an operation ends in.
LEMMA IdleFacts ==
  ASSUME OpOK, op' = Idle, deleted' \subseteq IDs, resumed' \in {"no", "yes", "unkept"}
  PROVE  OpOK' /\ ApplyInv' /\ RestoreInv' /\ CleanupInv' /\ Cleaned' = {}
<1>1. op'.at = "idle" /\ op'.mode = "none"
  BY DEF Idle
<1>2. OpOK'
  BY DEF OpOK, Idle, NoBackup, Stages
<1>3. ApplyInv' /\ RestoreInv' /\ CleanupInv' /\ Cleaned' = {}
  BY <1>1 DEF ApplyInv, RestoreInv, CleanupInv, Cleaned
<1> QED BY <1>2, <1>3

\* An operation cut off: a source a restore has linked but not synced is covered
\* from then on, by the backup it came from if that is on disk.
LEMMA CutOffCovers ==
  ASSUME MInv, CutOff
  PROVE  /\ resumed = "unkept" => resumed' = "unkept"
         /\ resumed = "yes" => resumed' \in {"yes", "unkept"}
         /\ resumed' \in {"no", "yes", "unkept"}
         /\ \A id \in IDs : op.at = "linked" /\ op.id = id /\ durable[Source(id)] # {Legacy} =>
              /\ resumed' # "no"
              /\ resumed' = "yes" =>
                   op.backup \in Backups /\ Kept(op.backup) /\ VerifyBackup(op.backup)
                     /\ id \in Listed(op.backup)
<1>1. /\ resumed = "unkept" => resumed' = "unkept"
      /\ resumed = "yes" => resumed' \in {"yes", "unkept"}
      /\ resumed' \in {"no", "yes", "unkept"}
  BY DEF CutOff, MInv, OpOK
<1>2. ASSUME NEW id \in IDs, op.at = "linked", op.id = id, durable[Source(id)] # {Legacy}
      PROVE  /\ resumed' # "no"
             /\ resumed' = "yes" =>
                  op.backup \in Backups /\ Kept(op.backup) /\ VerifyBackup(op.backup)
                    /\ id \in Listed(op.backup)
  <2>1. /\ op.mode = "restore" /\ VerifyBackup(op.backup) /\ id \in Listed(op.backup)
        /\ dir[Source(id)] # Absent
    BY <1>2 DEF MInv, RestoreInv
  <2>2. Source(id) \in Root /\ dir[Source(id)] = Legacy
    BY <2>1, NameFacts DEF MInv, FilesOK, Contents, Root, Names
  <2>3. Unsynced
    BY <1>2, <2>1, <2>2 DEF Unsynced
  <2>4. op.backup \in Backups
    BY <1>2 DEF MInv, OpOK, Idle
  <2>5. CASE resumed = "unkept"
    BY <1>1, <2>5
  <2>6. CASE resumed # "unkept"
    BY <2>1, <2>3, <2>4, <2>6 DEF CutOff
  <2> QED BY <2>5, <2>6
<1> QED BY <1>1, <1>2

\* An operation that fails, is cancelled or killed.
LEMMA StopKeeps ==
  ASSUME MInv, Stop
  PROVE  MInv'
<1>1. op' = Idle /\ CutOff /\ UNCHANGED <<dir, durable, deleted>>
  BY DEF Stop
<1>2. /\ resumed = "unkept" => resumed' = "unkept"
      /\ resumed = "yes" => resumed' \in {"yes", "unkept"}
      /\ resumed' \in {"no", "yes", "unkept"}
      /\ \A id \in IDs : op.at = "linked" /\ op.id = id /\ durable[Source(id)] # {Legacy} =>
           /\ resumed' # "no"
           /\ resumed' = "yes" =>
                op.backup \in Backups /\ Kept(op.backup) /\ VerifyBackup(op.backup)
                  /\ id \in Listed(op.backup)
  BY <1>1, CutOffCovers
<1>3. OpOK' /\ ApplyInv' /\ RestoreInv' /\ CleanupInv' /\ Cleaned' = {}
  BY <1>1, <1>2, IdleFacts DEF MInv, OpOK
<1>4. FilesOK'
  BY <1>1 DEF MInv, FilesOK, Contents
<1>5. \A n \in Names : Steady(n)
  BY <1>1 DEF Steady
<1>6. ASSUME NEW id \in IDs, op.at = "linked", op.id = id, durable[Source(id)] # {Legacy}
      PROVE  Covered(id)'
  <2>1. PICK b : b = op.backup
    OBVIOUS
  <2>2. CASE resumed' = "yes"
    <3>1. b \in Backups /\ Kept(b) /\ VerifyBackup(b) /\ id \in Listed(b)
      BY <1>2, <1>6, <2>1, <2>2
    <3>2. \A n \in {Directory(b)} \cup Within(b) : Steady(n)
      BY <1>1 DEF Steady
    <3>3. Kept(b)' /\ VerifyBackup(b)' /\ id \in Listed(b)'
      BY <3>1, <3>2, BackupSame
    <3> QED BY <1>3, <2>2, <3>1, <3>3 DEF Covered
  <2>3. CASE resumed' = "unkept"
    BY <2>3 DEF Covered
  <2> QED BY <1>2, <1>6, <2>2, <2>3
<1>7. /\ \A b \in Backups : BackupInv(b)'
      /\ \A id \in IDs : RecordInv(id)'
  BY <1>1, <1>2, <1>3, <1>5, <1>6, NothingPut
<1> QED BY <1>3, <1>4, <1>7 DEF MInv

\* Every name is a name of the root or of a backup.
LEMMA NamesOf ==
  /\ Root \subseteq Names
  /\ \A b \in Backups : Directory(b) \in Names /\ Within(b) \subseteq Names
  /\ \A id \in IDs : Source(id) \in Names /\ Target(id) \in Names
BY NameFacts, WithinNames DEF Names, Root

\* An operation that runs knows its backup.
LEMMA OpFacts ==
  ASSUME OpOK, op.at # "idle"
  PROVE  op.backup \in Backups /\ op.mode \in Modes
BY DEF OpOK, Idle

\* Where every name is steady a verified backup stays verified.
LEMMA SteadyBackup ==
  ASSUME NEW b \in Backups, \A n \in Names : Steady(n)
  PROVE  Listed(b)' = Listed(b) /\ (VerifyBackup(b)' <=> VerifyBackup(b))
BY NamesOf, BackupSame

\* A complete backup lists records.
LEMMA ListedIDs ==
  ASSUME FilesOK, NEW b \in Backups, VerifyBackup(b)
  PROVE  Listed(b) \subseteq IDs
<1>1. Manifest(b) \in Names /\ Manifest(b) \in Manifests
  BY NameFacts DEF Names
<1>2. dir[Manifest(b)] \in Contents(Manifest(b))
  BY <1>1 DEF FilesOK
<1>3. dir[Manifest(b)] \in {Absent, Torn} \cup SUBSET IDs
  BY <1>1, <1>2 DEF Contents
<1> QED BY <1>3 DEF VerifyBackup, Listed

\* The syncs of the root directory between two changes.
LEMMA SyncDirKeeps ==
  ASSUME MInv, NEW from, NEW to, SyncDir(from, to),
         <<from, to>> \in {<<"kept", "synced">>, <<"published", "targeted">>,
           <<"removed", "applying">>, <<"unmarked", "restoring">>, <<"linked", "sourced">>,
           <<"untargeted", "restoring">>, <<"gone", "over">>, <<"saved", "serving">>}
  PROVE  MInv'
<1>1. /\ op.at = from /\ Sync(Root) /\ op' = [op EXCEPT !.at = to] /\ UNCHANGED history
  BY DEF SyncDir, Goto
<1>2. /\ to \in Stages /\ from # "begun" /\ to # "begun" /\ from # "idle"
      /\ to \notin {"published", "copying", "unmarking", "unmarked", "linked", "untargeted",
                    "cleaning", "emptied"}
      /\ to = "targeted" => from = "published"
      /\ to = "sourced" => from = "linked"
      /\ to = "restoring" => from \in {"unmarked", "untargeted"}
  BY DEF Stages
<1>3. /\ op'.at = to /\ op'.id = op.id /\ op'.backup = op.backup /\ op'.left = op.left
      /\ op'.mode = op.mode
  BY <1>1 DEF MInv, OpOK
<1>4. \A n \in Names : Steady(n) /\ (n \in Root => durable'[n] = {dir'[n]})
  BY <1>1, SyncFacts DEF MInv
<1>5. OpOK'
  BY <1>1, <1>2, OpFacts DEF MInv, OpOK, history
<1>6. ApplyInv'
  BY <1>1, <1>2, <1>3, <1>4, NamesOf DEF MInv, ApplyInv, Steady
<1>7. RestoreInv'
  <2> SUFFICES ASSUME to \in {"restoring", "sourced"}
               PROVE  /\ op'.mode = "restore" /\ VerifyBackup(op.backup)'
                      /\ op'.left \subseteq Listed(op.backup)'
                      /\ to = "sourced" => op'.id \in Listed(op.backup)' /\ dir'[Source(op.id)] # Absent
    BY <1>2, <1>3 DEF RestoreInv
  <2>1. PICK b, i : b = op.backup /\ i = op.id
    OBVIOUS
  <2>2. /\ op.mode = "restore" /\ VerifyBackup(b) /\ op.left \subseteq Listed(b)
        /\ to = "sourced" => i \in Listed(b) /\ dir[Source(i)] # Absent
    BY <1>1, <1>2, <2>1 DEF MInv, RestoreInv
  <2>3. b \in Backups
    BY <1>1, <1>2, <2>1, OpFacts DEF MInv
  <2>4. Listed(b)' = Listed(b) /\ VerifyBackup(b)'
    BY <1>4, <2>2, <2>3, SteadyBackup
  <2>5. to = "sourced" => i \in IDs
    BY <2>2, <2>3, ListedIDs DEF MInv
  <2>6. to = "sourced" => dir'[Source(i)] # Absent
    BY <1>4, <2>2, <2>5, NamesOf DEF Steady
  <2> QED BY <1>3, <2>1, <2>2, <2>4, <2>6
<1>8. CleanupInv'
  BY <1>2, <1>3 DEF CleanupInv
<1>9. Cleaned' \subseteq Cleaned
  BY <1>1, <1>2, <1>3 DEF Cleaned
<1> QED BY <1>1, <1>5, <1>6, <1>7, <1>8, <1>9, SyncStep

--------------------------------------------------------------------------------
(***************************************************************************)
(* Apply.                                                                  *)
(***************************************************************************)

\* The scan of a legacy store.
LEMMA ScanKeeps ==
  ASSUME MInv, ScanLegacyStore
  PROVE  MInv'
<1>1. /\ op.at = "begun" /\ UNCHANGED <<dir, durable, history>>
      /\ op' = Idle \/ op' = [op EXCEPT !.at = "scanned", !.left = SourcesLeft]
      /\ op.mode \in {"dry-run", "apply"}
  BY DEF ScanLegacyStore
<1>2. CASE op' = Idle
  <2>1. OpOK' /\ ApplyInv' /\ RestoreInv' /\ CleanupInv' /\ Cleaned' = {}
    BY <1>1, <1>2, IdleFacts DEF MInv, OpOK, history
  <2> QED BY <1>1, <2>1, QuietStep
<1>3. CASE op' = [op EXCEPT !.at = "scanned", !.left = SourcesLeft]
  <2>1. op'.at = "scanned" /\ op'.mode = op.mode /\ op'.backup = op.backup
    BY <1>3 DEF MInv, OpOK
  <2>2. OpOK'
    BY <1>1, <1>3, OpFacts DEF MInv, OpOK, history, Stages, SourcesLeft
  <2>3. ApplyInv' /\ RestoreInv' /\ CleanupInv' /\ Cleaned' = {}
    BY <1>1, <2>1 DEF ApplyInv, RestoreInv, CleanupInv, Cleaned
  <2> QED BY <1>1, <2>2, <2>3, QuietStep
<1> QED BY <1>1, <1>2, <1>3

\* The backup's directory.
LEMMA CreateBackupKeeps ==
  ASSUME MInv, CreateBackupDirectory
  PROVE  MInv'
<1>1. /\ op.mode = "apply" /\ op.at = "scanned" /\ UNCHANGED history
      /\ op' = [op EXCEPT !.at = "copying"]
  BY DEF CreateBackupDirectory, At, Goto
<1>2. PICK b \in Backups : b = op.backup
  BY <1>1, OpFacts DEF MInv
<1>3. dir[Directory(b)] = Absent /\ Put(Directory(b), Format, {Format})
  BY <1>2 DEF CreateBackupDirectory, Link
<1>4. op'.at = "copying" /\ op'.mode = "apply" /\ op'.backup = b
  BY <1>1, <1>2 DEF MInv, OpOK
<1>5. OpOK'
  BY <1>1, <1>2 DEF MInv, OpOK, Idle, history, Stages
<1>6. Format \in Contents(Directory(b))
  BY NameFacts, KindsDiffer DEF Contents
<1>7. ~ VerifyBackup(b) /\ dir[Manifest(b)] = Absent
  BY <1>3 DEF VerifyBackup, MInv, BackupInv
<1>8. Cleaned' \subseteq Cleaned
  BY <1>4 DEF Cleaned
<1>9. /\ FilesOK' /\ dir'[Directory(b)] = Format
      /\ \A m \in Names : m # Directory(b) => dir'[m] = dir[m] /\ durable'[m] = durable[m]
      /\ \A c \in Backups \ {b} : BackupInv(c)'
      /\ \A id \in IDs : RecordInv(id)'
  BY <1>1, <1>3, <1>6, <1>7, <1>8, BackupPut
<1>10. dir'[Manifest(b)] = Absent /\ dir'[Directory(b)] # Absent
  BY <1>7, <1>9, NamesOf, NameFacts, WithinNames, KindsDiffer, ContentsDiffer
<1>11. ApplyInv' /\ RestoreInv' /\ CleanupInv' /\ BackupInv(b)'
  BY <1>4, <1>10 DEF ApplyInv, RestoreInv, CleanupInv, BackupInv
<1> QED BY <1>5, <1>9, <1>11 DEF MInv

\* Writing a file of the backup, a copy or the manifest, whole or torn.
LEMMA WriteKeeps ==
  ASSUME MInv, op.mode = "apply", op.at = "copying", UNCHANGED history,
         NEW n \in Within(op.backup), NEW val, val \in Contents(n), Torn \in Contents(n),
         WriteExclusiveSynced(n, val),
         \/ op' = Idle
         \/ \E id \in IDs : n = Copy(op.backup, id) /\ Next1("copying", id)
         \/ Goto("written")
  PROVE  MInv'
<1>1. PICK b \in Backups : b = op.backup
  BY OpFacts DEF MInv
<1>2. PICK v \in {val, Torn} : Put(n, v, {v})
  BY DEF WriteExclusiveSynced
<1>3. v \in Contents(n) /\ n \in Within(b)
  BY <1>1
<1>4. dir[Directory(b)] # Absent /\ dir[Manifest(b)] = Absent
  BY <1>1 DEF MInv, ApplyInv
<1>5. ~ VerifyBackup(b)
  BY <1>4 DEF VerifyBackup, Listed
<1>6. OpOK' /\ (op'.at \in {"idle", "copying", "written"})
        /\ (op'.at \in {"copying", "written"} => op'.mode = "apply" /\ op'.backup = b)
        /\ (op'.at = "idle" => op'.mode = "none")
        /\ (op'.at = "copying" => \E id \in IDs : n = Copy(b, id))
  <2>1. CASE op' = Idle
    BY <2>1, IdleFacts DEF MInv, OpOK, history, Idle
  <2>2. CASE Goto("written")
    BY <1>1, <2>2 DEF Goto, MInv, OpOK, history, Idle, Stages
  <2>3. CASE \E id \in IDs : n = Copy(op.backup, id) /\ Next1("copying", id)
    BY <1>1, <2>3 DEF Next1, MInv, OpOK, history, Idle, Stages
  <2> QED BY <2>1, <2>2, <2>3
<1>7. Cleaned' \subseteq Cleaned
  BY <1>6 DEF Cleaned
<1>8. /\ FilesOK' /\ dir'[n] = v
      /\ \A m \in Names : m # n => dir'[m] = dir[m] /\ durable'[m] = durable[m]
      /\ \A c \in Backups \ {b} : BackupInv(c)'
      /\ \A id \in IDs : RecordInv(id)'
  BY <1>2, <1>3, <1>5, <1>7, BackupPut
<1>9. dir'[Directory(b)] # Absent
  BY <1>3, <1>4, <1>8, NamesOf, NameFacts, WithinNames, KindsDiffer
<1>10. op'.at = "copying" => dir'[Manifest(b)] = Absent
  BY <1>4, <1>6, <1>8, NamesOf, NameFacts, WithinNames, KindsDiffer
<1>11. ApplyInv' /\ RestoreInv' /\ CleanupInv' /\ BackupInv(b)'
  BY <1>6, <1>9, <1>10 DEF ApplyInv, RestoreInv, CleanupInv, BackupInv
<1> QED BY <1>6, <1>8, <1>11 DEF MInv

\* A copy of a record.
LEMMA CopyKeeps ==
  ASSUME MInv, NEW id \in IDs, CopyRecord(id)
  PROVE  MInv'
<1>1. /\ op.mode = "apply" /\ op.at = "copying" /\ UNCHANGED history
      /\ WriteExclusiveSynced(Copy(op.backup, id), Legacy)
      /\ op' = Idle \/ Next1("copying", id)
  BY DEF CopyRecord, At, AfterWrite
<1>2. op.backup \in Backups
  BY <1>1, OpFacts DEF MInv
<1>3. Copy(op.backup, id) \in Within(op.backup)
  BY <1>2, WithinNames
<1>4. {Legacy, Torn} \subseteq Contents(Copy(op.backup, id))
  BY <1>2, NameFacts, KindsDiffer DEF Contents
<1> QED BY <1>1, <1>3, <1>4, WriteKeeps

\* The manifest.
LEMMA ManifestKeeps ==
  ASSUME MInv, WriteManifest
  PROVE  MInv'
<1>1. /\ op.mode = "apply" /\ op.at = "copying" /\ UNCHANGED history
      /\ WriteExclusiveSynced(Manifest(op.backup), SourcesLeft)
      /\ op' = Idle \/ Goto("written")
  BY DEF WriteManifest, At, AfterWrite
<1>2. op.backup \in Backups
  BY <1>1, OpFacts DEF MInv
<1>3. Manifest(op.backup) \in Within(op.backup)
  BY <1>2, WithinNames
<1>4. Manifest(op.backup) \in Manifests
  BY <1>2, NameFacts
<1>5. {SourcesLeft, Torn} \subseteq Contents(Manifest(op.backup))
  BY <1>4, KindsDiffer DEF Contents, SourcesLeft
<1> QED BY <1>1, <1>3, <1>5, WriteKeeps

\* The sync of the backup's directory.
LEMMA SyncBackupKeeps ==
  ASSUME MInv, SyncBackup
  PROVE  MInv'
<1>1. /\ op.mode = "apply" /\ op.at = "written" /\ Sync(Within(op.backup))
      /\ op' = [op EXCEPT !.at = "kept"] /\ UNCHANGED history
  BY DEF SyncBackup, At, Goto
<1>2. op'.at = "kept" /\ op'.mode = "apply"
  BY <1>1 DEF MInv, OpOK
<1>3. OpOK'
  BY <1>1, OpFacts DEF MInv, OpOK, history, Stages
<1>4. ApplyInv' /\ RestoreInv' /\ CleanupInv' /\ Cleaned' = {}
  BY <1>2 DEF ApplyInv, RestoreInv, CleanupInv, Cleaned
<1> QED BY <1>1, <1>3, <1>4, SyncStep

\* The verified backup becomes the list of what is to be done.
LEMMA ApplyMigrationKeeps ==
  ASSUME MInv, ApplyMigration
  PROVE  MInv'
<1>1. /\ op.mode = "apply" /\ op.at = "synced" /\ VerifyBackup(op.backup)
      /\ op' = [op EXCEPT !.at = "applying", !.left = Listed(op.backup)]
      /\ UNCHANGED <<dir, durable, history>>
  BY DEF ApplyMigration, At
<1>2. op.backup \in Backups
  BY <1>1, OpFacts DEF MInv
<1>3. Listed(op.backup) \subseteq IDs
  BY <1>1, <1>2, ListedIDs DEF MInv
<1>4. op'.at = "applying" /\ op'.mode = "apply"
  BY <1>1 DEF MInv, OpOK
<1>5. OpOK'
  BY <1>1, <1>2, <1>3 DEF MInv, OpOK, history, Stages, Modes
<1>6. ApplyInv' /\ RestoreInv' /\ CleanupInv' /\ Cleaned' = {}
  BY <1>1, <1>4 DEF MInv, ApplyInv, RestoreInv, CleanupInv, Cleaned
<1> QED BY <1>1, <1>5, <1>6, QuietStep

\* A name that holds something, and is synced, holds it after any crash.
LEMMA HeldFacts ==
  ASSUME FilesOK, NEW id \in IDs
  PROVE  /\ dir[Source(id)] \in {Absent, Legacy} /\ dir[Target(id)] \in {Absent, V2, Saved}
         /\ dir[Source(id)] \in durable[Source(id)] /\ dir[Target(id)] \in durable[Target(id)]
         /\ durable[Source(id)] \subseteq {Absent, Legacy}
         /\ durable[Target(id)] \subseteq {Absent, V2, Saved}
<1>1. /\ Source(id) \in Names /\ Source(id) \in Sources
      /\ Target(id) \in Names /\ Target(id) \in Targets
  BY NameFacts, NamesOf
<1>2. Contents(Source(id)) \subseteq {Absent, Legacy}
  BY <1>1 DEF Contents
<1>3. Contents(Target(id)) \subseteq {Absent, V2, Saved}
  BY <1>1 DEF Contents
<1> QED BY <1>1, <1>2, <1>3 DEF FilesOK

\* Publishing a record under its new name: the old one is on disk.
LEMMA PublishTargetKeeps ==
  ASSUME MInv, NEW id \in IDs, PublishTarget(id)
  PROVE  MInv'
<1>1. /\ op.mode = "apply" /\ op.at = "applying" /\ UNCHANGED history
      /\ dir[Source(id)] = Legacy /\ dir[Target(id)] = Absent /\ Put(Target(id), V2, {V2})
      /\ op' = [op EXCEPT !.at = "published", !.id = id, !.left = op.left \ {id}]
  BY DEF PublishTarget, At, Link, Next1
<1>2. op'.at = "published" /\ op'.mode = "apply" /\ op'.id = id
  BY <1>1 DEF MInv, OpOK
<1>3. OpOK'
  BY <1>1, OpFacts DEF MInv, OpOK, history, Stages
<1>4. V2 \in Contents(Target(id)) /\ Target(id) \in Targets
  BY NameFacts, KindsDiffer DEF Contents
<1>5. Cleaned' \subseteq Cleaned
  BY <1>2 DEF Cleaned
<1>6. /\ FilesOK' /\ dir'[Target(id)] = V2
      /\ \A m \in Names : m # Target(id) => dir'[m] = dir[m] /\ durable'[m] = durable[m]
      /\ \A b \in Backups : BackupInv(b)'
      /\ \A i \in IDs : Target(id) \notin {Source(i), Target(i)} => RecordInv(i)'
  BY <1>1, <1>4, <1>5, RootPut DEF history
<1>7. \A i \in IDs \ {id} : RecordInv(i)'
  BY <1>6, NameFacts, KindsDiffer
<1>8. RecordInv(id)'
  <2>1. durable[Source(id)] = {Legacy}
    BY <1>1, NameFacts DEF MInv, ApplyInv, Root
  <2>2. durable'[Source(id)] = {Legacy}
    BY <1>6, <2>1, NamesOf, NameFacts, KindsDiffer
  <2> QED BY <2>2 DEF RecordInv, Settled
<1>9. ApplyInv' /\ RestoreInv' /\ CleanupInv'
  BY <1>2, <1>6 DEF ApplyInv, RestoreInv, CleanupInv
<1> QED BY <1>3, <1>6, <1>7, <1>8, <1>9 DEF MInv

\* Removing a record's old name: the new one is on disk.
LEMMA RemoveSourceKeeps ==
  ASSUME MInv, RemoveSource
  PROVE  MInv'
<1>1. /\ op.mode = "apply" /\ op.at = "targeted" /\ UNCHANGED history
      /\ op' = [op EXCEPT !.at = "removed"]
  BY DEF RemoveSource, At, Goto
<1>2. PICK id \in IDs : id = op.id /\ dir[Target(id)] = V2
  BY <1>1 DEF MInv, ApplyInv
<1>3. Put(Source(id), Absent, {Absent})
  BY <1>2 DEF RemoveSource, Remove
<1>4. op'.at = "removed" /\ op'.mode = "apply"
  BY <1>1 DEF MInv, OpOK
<1>5. OpOK'
  BY <1>1, OpFacts DEF MInv, OpOK, history, Stages
<1>6. Absent \in Contents(Source(id)) /\ Source(id) \in Sources
  BY NameFacts, KindsDiffer DEF Contents
<1>7. Cleaned' \subseteq Cleaned
  BY <1>4 DEF Cleaned
<1>8. /\ FilesOK' /\ dir'[Source(id)] = Absent
      /\ \A m \in Names : m # Source(id) => dir'[m] = dir[m] /\ durable'[m] = durable[m]
      /\ \A b \in Backups : BackupInv(b)'
      /\ \A i \in IDs : Source(id) \notin {Source(i), Target(i)} => RecordInv(i)'
  BY <1>1, <1>3, <1>6, <1>7, RootPut DEF history
<1>9. \A i \in IDs \ {id} : RecordInv(i)'
  BY <1>8, NameFacts, KindsDiffer
<1>10. RecordInv(id)'
  <2>1. durable[Target(id)] = {V2}
    BY <1>1, <1>2, NameFacts DEF MInv, ApplyInv, Root
  <2>2. Absent \notin durable'[Target(id)]
    BY <1>8, <2>1, NamesOf, NameFacts, KindsDiffer, ContentsDiffer
  <2> QED BY <1>8, <2>2 DEF RecordInv, Settled
<1>11. ApplyInv' /\ RestoreInv' /\ CleanupInv'
  BY <1>4 DEF ApplyInv, RestoreInv, CleanupInv
<1> QED BY <1>5, <1>8, <1>9, <1>10, <1>11 DEF MInv

\* Publishing or removing the marker changes no record.
LEMMA MarkerPut ==
  ASSUME MInv, NEW val \in {Absent, Format}, Put(Marker, val, {val}), UNCHANGED history,
         op.at # "linked", op.mode # "cleanup", op'.mode = op.mode
  PROVE  /\ FilesOK'
         /\ \A b \in Backups :
              BackupInv(b)' /\ Listed(b)' = Listed(b) /\ (VerifyBackup(b)' <=> VerifyBackup(b))
         /\ \A id \in IDs : RecordInv(id)'
<1>1. val \in Contents(Marker)
  BY KindsDiffer DEF Contents
<1>2. Cleaned' \subseteq Cleaned
  BY DEF Cleaned
<1>3. \A id \in IDs : Marker \notin {Source(id), Target(id)}
  BY NameFacts, KindsDiffer
<1> QED BY <1>1, <1>2, <1>3, RootPut DEF history

\* Publishing the marker.
LEMMA PublishMarkerKeeps ==
  ASSUME MInv, PublishMarker
  PROVE  MInv'
<1>1. /\ op.mode = "apply" /\ op.at = "applying" /\ UNCHANGED history
      /\ Put(Marker, Format, {Format}) /\ op' = [op EXCEPT !.at = "marked"]
  BY DEF PublishMarker, At, Goto, Link
<1>2. op'.at = "marked" /\ op'.mode = "apply"
  BY <1>1 DEF MInv, OpOK
<1>3. OpOK'
  BY <1>1, OpFacts DEF MInv, OpOK, history, Stages
<1>4. /\ FilesOK' /\ \A b \in Backups : BackupInv(b)'
      /\ \A id \in IDs : RecordInv(id)'
  BY <1>1, <1>2, MarkerPut
<1>5. ApplyInv' /\ RestoreInv' /\ CleanupInv'
  BY <1>2 DEF ApplyInv, RestoreInv, CleanupInv
<1> QED BY <1>3, <1>4, <1>5 DEF MInv

\* The last sync of an apply.
LEMMA MarkedKeeps ==
  ASSUME MInv, op.at = "marked", Sync(Root), op' = Idle, UNCHANGED history
  PROVE  MInv'
<1>1. OpOK' /\ ApplyInv' /\ RestoreInv' /\ CleanupInv' /\ Cleaned' = {}
  BY IdleFacts DEF MInv, OpOK, history
<1> QED BY <1>1, SyncStep

\* Every step of an apply.
LEMMA ApplyKeeps ==
  ASSUME MInv, Apply
  PROVE  MInv'
BY ScanKeeps, CreateBackupKeeps, ManifestKeeps, SyncBackupKeeps, ApplyMigrationKeeps,
   RemoveSourceKeeps, PublishMarkerKeeps, CopyKeeps, PublishTargetKeeps, SyncDirKeeps, MarkedKeeps
   DEF Apply

--------------------------------------------------------------------------------
(***************************************************************************)
(* Restore and cleanup.                                                    *)
(***************************************************************************)

\* The backup and the state of the store are accepted.
LEMMA RestoreMigrationKeeps ==
  ASSUME MInv, RestoreMigration
  PROVE  MInv'
<1>1. PICK to \in {"unmarking", "restoring"} :
        op' = [op EXCEPT !.at = to, !.left = Listed(op.backup)]
  BY DEF RestoreMigration
<1>2. /\ op.mode = "restore" /\ op.at = "begun" /\ VerifyBackup(op.backup)
      /\ UNCHANGED <<dir, durable, history>>
  BY DEF RestoreMigration, At, Restorable
<1>3. PICK b \in Backups : b = op.backup
  BY <1>2, OpFacts DEF MInv
<1>4. VerifyBackup(b)' /\ Listed(b)' = Listed(b) /\ Listed(b) \subseteq IDs
  BY <1>2, <1>3, ListedIDs DEF MInv, VerifyBackup, Listed
<1>5. op'.at = to /\ op'.mode = "restore" /\ op'.backup = b /\ op'.left = Listed(b)
  BY <1>1, <1>2, <1>3 DEF MInv, OpOK
<1>6. OpOK'
  BY <1>1, <1>2, <1>3, <1>4 DEF MInv, OpOK, history, Stages, Modes
<1>7. ApplyInv' /\ CleanupInv' /\ Cleaned' = {}
  BY <1>5 DEF ApplyInv, CleanupInv, Cleaned
<1>8. RestoreInv'
  BY <1>4, <1>5 DEF RestoreInv
<1> QED BY <1>2, <1>6, <1>7, <1>8, QuietStep

\* Removing the marker.
LEMMA RemoveMarkerKeeps ==
  ASSUME MInv, RemoveMarker
  PROVE  MInv'
<1>1. /\ op.mode = "restore" /\ op.at = "unmarking" /\ UNCHANGED history
      /\ Put(Marker, Absent, {Absent}) /\ op' = [op EXCEPT !.at = "unmarked"]
  BY DEF RemoveMarker, At, Goto, Remove
<1>2. PICK b \in Backups : b = op.backup
  BY <1>1, OpFacts DEF MInv
<1>3. op'.at = "unmarked" /\ op'.mode = "restore" /\ op'.backup = b /\ op'.left = op.left
  BY <1>1, <1>2 DEF MInv, OpOK
<1>4. OpOK'
  BY <1>1, <1>2 DEF MInv, OpOK, history, Stages, Modes
<1>5. /\ FilesOK'
      /\ \A c \in Backups :
           BackupInv(c)' /\ Listed(c)' = Listed(c) /\ (VerifyBackup(c)' <=> VerifyBackup(c))
      /\ \A id \in IDs : RecordInv(id)'
  BY <1>1, <1>3, MarkerPut
<1>6. ApplyInv' /\ CleanupInv'
  BY <1>3 DEF ApplyInv, CleanupInv
<1>7. VerifyBackup(b) /\ op.left \subseteq Listed(b)
  BY <1>1, <1>2 DEF MInv, RestoreInv
<1>8. RestoreInv'
  BY <1>3, <1>5, <1>7 DEF RestoreInv
<1> QED BY <1>4, <1>5, <1>6, <1>8 DEF MInv

\* Linking the source back from the backup; one that is there is left as it is.
LEMMA RestoreSourceKeeps ==
  ASSUME MInv, NEW id \in IDs, RestoreSource(id)
  PROVE  MInv'
<1>1. op.mode = "restore" /\ op.at = "restoring" /\ UNCHANGED history /\ id \in op.left
  BY DEF RestoreSource, At
<1>2. PICK b \in Backups : b = op.backup
  BY <1>1, OpFacts DEF MInv
<1>3. VerifyBackup(b) /\ op.left \subseteq Listed(b) /\ dir[Copy(b, id)] = Legacy
  BY <1>1, <1>2 DEF MInv, RestoreInv, VerifyBackup
<1>4. CASE dir[Source(id)] = Absent
  <2>1. /\ Put(Source(id), Legacy, {Legacy})
        /\ op' = [op EXCEPT !.at = "linked", !.id = id, !.left = op.left \ {id}]
    BY <1>2, <1>3, <1>4 DEF RestoreSource, Link, Next1
  <2>2. /\ op'.at = "linked" /\ op'.mode = "restore" /\ op'.backup = b /\ op'.id = id
        /\ op'.left \subseteq Listed(b)
    BY <1>1, <1>2, <1>3, <2>1 DEF MInv, OpOK
  <2>3. OpOK'
    BY <1>1, <1>2, <2>1 DEF MInv, OpOK, history, Stages, Modes
  <2>4. Legacy \in Contents(Source(id)) /\ Source(id) \in Sources
    BY NameFacts, KindsDiffer DEF Contents
  <2>5. Cleaned' \subseteq Cleaned
    BY <2>2 DEF Cleaned
  <2>6. /\ FilesOK' /\ dir'[Source(id)] = Legacy
        /\ \A m \in Names : m # Source(id) => dir'[m] = dir[m] /\ durable'[m] = durable[m]
        /\ \A c \in Backups :
             BackupInv(c)' /\ Listed(c)' = Listed(c) /\ (VerifyBackup(c)' <=> VerifyBackup(c))
        /\ Covered(id) => Covered(id)'
        /\ \A i \in IDs : Source(id) \notin {Source(i), Target(i)} => RecordInv(i)'
    BY <1>1, <2>1, <2>4, <2>5, RootPut DEF history
  <2>7. \A i \in IDs \ {id} : RecordInv(i)'
    BY <2>6, NameFacts, KindsDiffer
  <2>8. RecordInv(id)'
    <3>1. dir'[Target(id)] = dir[Target(id)] /\ durable'[Target(id)] = durable[Target(id)]
      BY <2>6, NamesOf, NameFacts, KindsDiffer
    <3>2. durable[Source(id)] # {Legacy}
      BY <1>4, HeldFacts, ContentsDiffer DEF MInv
    <3>3. Settled(id) => Settled(id)'
      BY <3>1, <3>2 DEF Settled
    <3>4. RecordInv(id)
      BY DEF MInv
    <3> QED BY <1>1, <2>2, <2>6, <3>1, <3>3, <3>4 DEF RecordInv, history
  <2>9. RestoreInv'
    BY <1>1, <1>3, <2>2, <2>6, ContentsDiffer DEF RestoreInv
  <2>10. ApplyInv' /\ CleanupInv'
    BY <2>2 DEF ApplyInv, CleanupInv
  <2> QED BY <2>3, <2>6, <2>7, <2>8, <2>9, <2>10 DEF MInv
<1>5. CASE dir[Source(id)] # Absent
  <2>1. /\ op' = [op EXCEPT !.at = "sourced", !.id = id, !.left = op.left \ {id}]
        /\ UNCHANGED <<dir, durable>>
    BY <1>5 DEF RestoreSource, Next1
  <2>2. /\ op'.at = "sourced" /\ op'.mode = "restore" /\ op'.backup = b /\ op'.id = id
        /\ op'.left \subseteq Listed(b)
    BY <1>1, <1>2, <1>3, <2>1 DEF MInv, OpOK
  <2>3. OpOK'
    BY <1>1, <1>2, <2>1 DEF MInv, OpOK, history, Stages, Modes
  <2>4. VerifyBackup(b)' /\ Listed(b)' = Listed(b)
    BY <1>3, <2>1 DEF VerifyBackup, Listed
  <2>5. RestoreInv'
    BY <1>1, <1>3, <1>5, <2>1, <2>2, <2>4 DEF RestoreInv
  <2>6. ApplyInv' /\ CleanupInv' /\ Cleaned' = {}
    BY <2>2 DEF ApplyInv, CleanupInv, Cleaned
  <2> QED BY <1>1, <2>1, <2>3, <2>5, <2>6, QuietStep
<1> QED BY <1>4, <1>5

\* Removing the target: the source is on disk, or the record is covered.
LEMMA RemoveTargetKeeps ==
  ASSUME MInv, RemoveTarget
  PROVE  MInv'
<1>1. op.mode = "restore" /\ op.at = "sourced" /\ UNCHANGED history
  BY DEF RemoveTarget, At
<1>2. PICK b \in Backups : b = op.backup
  BY <1>1, OpFacts DEF MInv
<1>3. VerifyBackup(b) /\ op.left \subseteq Listed(b) /\ op.id \in Listed(b)
        /\ dir[Source(op.id)] # Absent
  BY <1>1, <1>2 DEF MInv, RestoreInv
<1>4. PICK id \in IDs : id = op.id
  BY <1>3, ListedIDs DEF MInv
<1>5. CASE dir[Target(id)] # Absent
  <2>1. Put(Target(id), Absent, {Absent}) /\ op' = [op EXCEPT !.at = "untargeted"]
    BY <1>4, <1>5 DEF RemoveTarget, Remove, Goto
  <2>2. /\ op'.at = "untargeted" /\ op'.mode = "restore" /\ op'.backup = b
        /\ op'.left \subseteq Listed(b)
    BY <1>1, <1>2, <1>3, <2>1 DEF MInv, OpOK
  <2>3. OpOK'
    BY <1>1, <1>2, <2>1 DEF MInv, OpOK, history, Stages, Modes
  <2>4. Absent \in Contents(Target(id)) /\ Target(id) \in Targets
    BY NameFacts, KindsDiffer DEF Contents
  <2>5. Cleaned' \subseteq Cleaned
    BY <2>2 DEF Cleaned
  <2>6. /\ FilesOK' /\ dir'[Target(id)] = Absent
        /\ \A m \in Names : m # Target(id) => dir'[m] = dir[m] /\ durable'[m] = durable[m]
        /\ \A c \in Backups :
             BackupInv(c)' /\ Listed(c)' = Listed(c) /\ (VerifyBackup(c)' <=> VerifyBackup(c))
        /\ Covered(id) => Covered(id)'
        /\ \A i \in IDs : Target(id) \notin {Source(i), Target(i)} => RecordInv(i)'
    BY <1>1, <2>1, <2>4, <2>5, RootPut DEF history
  <2>7. \A i \in IDs \ {id} : RecordInv(i)'
    BY <2>6, NameFacts, KindsDiffer
  <2>8. RecordInv(id)'
    <3>1. durable'[Source(id)] = durable[Source(id)]
      BY <2>6, NamesOf, NameFacts, KindsDiffer
    <3>2. durable[Source(id)] = {Legacy} \/ Covered(id)
      BY <1>1, <1>3, <1>4 DEF MInv, RecordInv
    <3> QED BY <2>6, <3>1, <3>2 DEF RecordInv, Settled
  <2>9. RestoreInv'
    BY <1>3, <2>2, <2>6 DEF RestoreInv
  <2>10. ApplyInv' /\ CleanupInv'
    BY <2>2 DEF ApplyInv, CleanupInv
  <2> QED BY <2>3, <2>6, <2>7, <2>8, <2>9, <2>10 DEF MInv
<1>6. CASE dir[Target(id)] = Absent
  <2>1. op' = [op EXCEPT !.at = "restoring"] /\ UNCHANGED <<dir, durable>>
    BY <1>4, <1>6 DEF RemoveTarget, Goto
  <2>2. /\ op'.at = "restoring" /\ op'.mode = "restore" /\ op'.backup = b
        /\ op'.left \subseteq Listed(b)
    BY <1>1, <1>2, <1>3, <2>1 DEF MInv, OpOK
  <2>3. OpOK'
    BY <1>1, <1>2, <2>1 DEF MInv, OpOK, history, Stages, Modes
  <2>4. VerifyBackup(b)' /\ Listed(b)' = Listed(b)
    BY <1>3, <2>1 DEF VerifyBackup, Listed
  <2>5. RestoreInv'
    BY <1>3, <2>2, <2>4 DEF RestoreInv
  <2>6. ApplyInv' /\ CleanupInv' /\ Cleaned' = {}
    BY <2>2 DEF ApplyInv, CleanupInv, Cleaned
  <2> QED BY <1>1, <2>1, <2>3, <2>5, <2>6, QuietStep
<1> QED BY <1>5, <1>6

\* Every step of a restore.
LEMMA RestoreKeeps ==
  ASSUME MInv, Restore
  PROVE  MInv'
<1>1. CASE Restored
  <2>1. op.at = "restoring" /\ op' = Idle /\ UNCHANGED <<dir, durable, history>>
    BY <1>1 DEF Restored, At
  <2>2. OpOK' /\ ApplyInv' /\ RestoreInv' /\ CleanupInv' /\ Cleaned' = {}
    BY <2>1, IdleFacts DEF MInv, OpOK, history
  <2> QED BY <2>1, <2>2, QuietStep
<1> QED BY <1>1, RestoreMigrationKeeps, RemoveMarkerKeeps, RestoreSourceKeeps, RemoveTargetKeeps,
           SyncDirKeeps DEF Restore

\* Cleanup begins once every record the backup lists is in its target.
LEMMA CleanupBegins ==
  ASSUME MInv, CleanupMigrationBackup
  PROVE  MInv'
<1>1. /\ op.mode = "cleanup" /\ op.at = "begun" /\ UNCHANGED <<dir, durable, history>>
      /\ op' = [op EXCEPT !.at = "cleaning", !.left = Listed(op.backup)]
      /\ VerifyBackup(op.backup)
      /\ \A id \in Listed(op.backup) : dir[Source(id)] = Absent /\ dir[Target(id)] = V2
  BY DEF CleanupMigrationBackup, At
<1>2. PICK b \in Backups : b = op.backup
  BY <1>1, OpFacts DEF MInv
<1>3. Listed(b) \subseteq IDs
  BY <1>1, <1>2, ListedIDs DEF MInv
<1>4. op'.at = "cleaning" /\ op'.mode = "cleanup" /\ op'.backup = b
  BY <1>1, <1>2 DEF MInv, OpOK
<1>5. OpOK'
  BY <1>1, <1>2, <1>3 DEF MInv, OpOK, history, Stages, Modes
<1>6. ApplyInv' /\ RestoreInv' /\ CleanupInv' /\ Cleaned' = {b}
  BY <1>4 DEF ApplyInv, RestoreInv, CleanupInv, Cleaned
<1> QED BY <1>1, <1>2, <1>5, <1>6, QuietStep, ContentsDiffer

\* Removing a name of the backup that is cleaned up.
LEMMA CleanupPut ==
  ASSUME MInv, NEW b \in Backups, b = op.backup, op.mode = "cleanup",
         NEW n \in {Directory(b)} \cup Within(b), Put(n, Absent, {Absent}), UNCHANGED history,
         op.at \in {"cleaning", "emptied"}, op'.at # "begun", op'.mode = op.mode,
         op'.backup = op.backup
  PROVE  /\ FilesOK' /\ dir'[n] = Absent
         /\ \A m \in Names : m # n => dir'[m] = dir[m] /\ durable'[m] = durable[m]
         /\ \A c \in Backups \ {b} : BackupInv(c)'
         /\ \A id \in IDs : RecordInv(id)'
<1>1. Absent \in Contents(n)
  BY NameFacts, WithinNames, KindsDiffer DEF Contents
<1>2. b \in Cleaned /\ Cleaned' \subseteq Cleaned
  BY DEF Cleaned
<1> QED BY <1>1, <1>2, BackupPut

\* Every step of a cleanup.
LEMMA CleanupKeeps ==
  ASSUME MInv, Cleanup
  PROVE  MInv'
<1>1. ASSUME NEW id \in IDs, RemoveCopy(id)
      PROVE  MInv'
  <2>1. /\ op.mode = "cleanup" /\ op.at = "cleaning" /\ UNCHANGED history
        /\ op' = [op EXCEPT !.at = "cleaning", !.id = id, !.left = op.left \ {id}]
    BY <1>1 DEF RemoveCopy, At, Next1
  <2>2. PICK b \in Backups : b = op.backup
    BY <2>1, OpFacts DEF MInv
  <2>3. Put(Copy(b, id), Absent, {Absent})
    BY <1>1, <2>2 DEF RemoveCopy, Remove
  <2>4. op'.at = "cleaning" /\ op'.mode = "cleanup" /\ op'.backup = b
    BY <2>1, <2>2 DEF MInv, OpOK
  <2>5. OpOK'
    BY <2>1, <2>2 DEF MInv, OpOK, history, Stages, Modes
  <2>0. Copy(b, id) \in {Directory(b)} \cup Within(b)
    BY WithinNames
  <2>6. /\ FilesOK'
        /\ \A m \in Names : m # Copy(b, id) => dir'[m] = dir[m] /\ durable'[m] = durable[m]
        /\ \A c \in Backups \ {b} : BackupInv(c)'
        /\ \A i \in IDs : RecordInv(i)'
    BY <2>1, <2>2, <2>3, <2>4, <2>0, CleanupPut
  <2>7. BackupInv(b)'
    BY <2>6, NamesOf, NameFacts, WithinNames, KindsDiffer DEF MInv, BackupInv
  <2>8. ApplyInv' /\ RestoreInv' /\ CleanupInv'
    BY <2>4 DEF ApplyInv, RestoreInv, CleanupInv
  <2> QED BY <2>5, <2>6, <2>7, <2>8 DEF MInv
<1>2. CASE RemoveManifest
  <2>1. /\ op.mode = "cleanup" /\ op.at = "cleaning" /\ UNCHANGED history
        /\ op' = [op EXCEPT !.at = "emptied"]
    BY <1>2 DEF RemoveManifest, At, Goto
  <2>2. PICK b \in Backups : b = op.backup
    BY <2>1, OpFacts DEF MInv
  <2>3. Put(Manifest(b), Absent, {Absent})
    BY <1>2, <2>2 DEF RemoveManifest, Remove
  <2>4. op'.at = "emptied" /\ op'.mode = "cleanup" /\ op'.backup = b
    BY <2>1, <2>2 DEF MInv, OpOK
  <2>5. OpOK'
    BY <2>1, <2>2 DEF MInv, OpOK, history, Stages, Modes
  <2>6. /\ FilesOK' /\ dir'[Manifest(b)] = Absent
        /\ \A c \in Backups \ {b} : BackupInv(c)'
        /\ \A i \in IDs : RecordInv(i)'
    BY <2>1, <2>2, <2>3, <2>4, WithinNames, CleanupPut
  <2>7. ApplyInv' /\ RestoreInv' /\ CleanupInv' /\ BackupInv(b)'
    BY <2>4, <2>6 DEF ApplyInv, RestoreInv, CleanupInv, BackupInv
  <2> QED BY <2>5, <2>6, <2>7 DEF MInv
<1>3. CASE RemoveDirectory
  <2>1. /\ op.mode = "cleanup" /\ op.at = "emptied" /\ UNCHANGED history
        /\ op' = [op EXCEPT !.at = "gone"]
    BY <1>3 DEF RemoveDirectory, At, Goto
  <2>2. PICK b \in Backups : b = op.backup
    BY <2>1, OpFacts DEF MInv
  <2>3. Put(Directory(b), Absent, {Absent}) /\ dir[Manifest(b)] = Absent
    BY <1>3, <2>1, <2>2 DEF RemoveDirectory, Remove, MInv, CleanupInv
  <2>4. op'.at = "gone" /\ op'.mode = "cleanup" /\ op'.backup = b
    BY <2>1, <2>2 DEF MInv, OpOK
  <2>5. OpOK'
    BY <2>1, <2>2 DEF MInv, OpOK, history, Stages, Modes
  <2>6. /\ FilesOK'
        /\ \A m \in Names : m # Directory(b) => dir'[m] = dir[m] /\ durable'[m] = durable[m]
        /\ \A c \in Backups \ {b} : BackupInv(c)'
        /\ \A i \in IDs : RecordInv(i)'
    BY <2>1, <2>2, <2>3, <2>4, WithinNames, CleanupPut
  <2>7. BackupInv(b)'
    BY <2>3, <2>6, NamesOf, NameFacts, WithinNames, KindsDiffer DEF BackupInv
  <2>8. ApplyInv' /\ RestoreInv' /\ CleanupInv'
    BY <2>4 DEF ApplyInv, RestoreInv, CleanupInv
  <2> QED BY <2>5, <2>6, <2>7, <2>8 DEF MInv
<1> QED BY <1>1, <1>2, <1>3, CleanupBegins, SyncDirKeeps DEF Cleanup

--------------------------------------------------------------------------------
(***************************************************************************)
(* A server on the store, and machine crashes.                             *)
(***************************************************************************)

\* A server opens the store, and marks it if it is new.
LEMMA ServeKeeps ==
  ASSUME MInv, Serve
  PROVE  MInv'
<1>1. /\ op.mode = "live" /\ op.at = "begun" /\ UNCHANGED history
      /\ op' = [op EXCEPT !.at = "serving"]
      /\ Sync({}) \/ Put(Marker, Format, {Format})
  BY DEF Serve, At, Goto, Link
<1>2. op'.at = "serving" /\ op'.mode = "live"
  BY <1>1 DEF MInv, OpOK
<1>3. OpOK'
  BY <1>1, OpFacts DEF MInv, OpOK, history, Stages
<1>4. ApplyInv' /\ RestoreInv' /\ CleanupInv' /\ Cleaned' = {}
  BY <1>2 DEF ApplyInv, RestoreInv, CleanupInv, Cleaned
<1>5. CASE Sync({})
  BY <1>1, <1>3, <1>4, <1>5, SyncStep
<1>6. CASE Put(Marker, Format, {Format})
  <2>1. /\ FilesOK' /\ \A b \in Backups : BackupInv(b)'
        /\ \A id \in IDs : RecordInv(id)'
    BY <1>1, <1>2, <1>6, MarkerPut
  <2> QED BY <1>3, <1>4, <2>1 DEF MInv
<1> QED BY <1>1, <1>5, <1>6

\* A server saves or deletes a record.
LEMMA ServeWriteKeeps ==
  ASSUME MInv, NEW id \in IDs, ServeWrite(id)
  PROVE  MInv'
<1>1. /\ op.mode = "live" /\ op.at = "serving" /\ op' = [op EXCEPT !.at = "saved"]
      /\ dir[Target(id)] # Absent /\ resumed' = resumed
  BY DEF ServeWrite, At, Goto
<1>2. PICK val \in {Saved, Absent} :
        /\ Put(Target(id), val, {val})
        /\ deleted' = IF val = Saved THEN deleted ELSE deleted \cup {id}
  BY ContentsDiffer DEF ServeWrite, Remove
<1>3. op'.at = "saved" /\ op'.mode = "live"
  BY <1>1 DEF MInv, OpOK
<1>4. OpOK'
  BY <1>1, <1>2, OpFacts DEF MInv, OpOK, Stages
<1>5. val \in Contents(Target(id)) /\ Target(id) \in Targets
  BY NameFacts, KindsDiffer DEF Contents
<1>6. Cleaned' \subseteq Cleaned /\ deleted \subseteq deleted'
  BY <1>2, <1>3 DEF Cleaned
<1>7. /\ FilesOK' /\ dir'[Target(id)] = val /\ durable'[Target(id)] = durable[Target(id)] \cup {val}
      /\ \A m \in Names : m # Target(id) => dir'[m] = dir[m] /\ durable'[m] = durable[m]
      /\ \A b \in Backups : BackupInv(b)'
      /\ Covered(id) => Covered(id)'
      /\ \A i \in IDs : Target(id) \notin {Source(i), Target(i)} => RecordInv(i)'
  BY <1>1, <1>2, <1>5, <1>6, RootPut
<1>8. \A i \in IDs \ {id} : RecordInv(i)'
  BY <1>7, NameFacts, KindsDiffer
<1>9. RecordInv(id)'
  <2>1. dir'[Source(id)] = dir[Source(id)] /\ durable'[Source(id)] = durable[Source(id)]
    BY <1>7, NamesOf, NameFacts, KindsDiffer
  <2>2. RecordInv(id) /\ Settled(id)
    BY <1>1 DEF MInv, RecordInv
  <2>3. CASE val = Saved
    <3>1. Settled(id)'
      BY <1>7, <2>1, <2>2, <2>3, ContentsDiffer DEF Settled
    <3> QED BY <1>1, <1>7, <2>1, <2>2, <3>1 DEF RecordInv
  <2>4. CASE val = Absent
    <3>1. id \in deleted'
      BY <1>2, <2>4, ContentsDiffer
    <3> QED BY <1>1, <1>7, <2>1, <2>2, <2>4, <3>1 DEF RecordInv
  <2> QED BY <1>2, <2>3, <2>4
<1>10. ApplyInv' /\ RestoreInv' /\ CleanupInv'
  BY <1>3 DEF ApplyInv, RestoreInv, CleanupInv
<1> QED BY <1>4, <1>7, <1>8, <1>9, <1>10 DEF MInv

\* A crash leaves each name one of its contents.
LEMMA CrashFacts ==
  ASSUME MInv, MachineCrash
  PROVE  /\ FilesOK'
         /\ \A n \in Names : dir'[n] \in durable[n] /\ durable'[n] = {dir'[n]}
<1>1. PICK s \in After(Sources), t \in After(Targets), r \in After({Marker} \cup Directories),
           m \in After(Manifests), c \in After(Copies) :
        dir' = [n \in Names |-> IF n \in Sources THEN s[n]
                                ELSE IF n \in Targets THEN t[n]
                                ELSE IF n \in Manifests THEN m[n]
                                ELSE IF n \in Copies THEN c[n] ELSE r[n]]
  BY DEF MachineCrash
<1>2. /\ \A n \in Sources : s[n] \in durable[n]
      /\ \A n \in Targets : t[n] \in durable[n]
      /\ \A n \in {Marker} \cup Directories : r[n] \in durable[n]
      /\ \A n \in Manifests : m[n] \in durable[n]
      /\ \A n \in Copies : c[n] \in durable[n]
  BY DEF After
<1>3. \A n \in Names : dir'[n] \in durable[n]
  <2> SUFFICES ASSUME NEW n \in Names PROVE dir'[n] \in durable[n]
    OBVIOUS
  <2>1. dir'[n] = IF n \in Sources THEN s[n]
                  ELSE IF n \in Targets THEN t[n]
                  ELSE IF n \in Manifests THEN m[n]
                  ELSE IF n \in Copies THEN c[n] ELSE r[n]
    BY <1>1
  <2> QED BY <1>2, <2>1 DEF Names, Root
<1>4. durable' = [n \in Names |-> {dir'[n]}]
  BY DEF MachineCrash
<1>5. \A n \in Names : dir'[n] \in Contents(n)
  BY <1>3 DEF MInv, FilesOK
<1>6. \A n : Contents(n)' = Contents(n)
  BY DEF Contents
<1>7. dir' = [n \in Names |-> dir'[n]] /\ durable' = [n \in Names |-> durable'[n]]
  BY <1>1, <1>4
<1> QED BY <1>3, <1>4, <1>5, <1>6, <1>7 DEF FilesOK

\* What is on disk survives the crash.
LEMMA CrashKeeps ==
  ASSUME MInv, MachineCrash
  PROVE  MInv'
<1>1. /\ FilesOK'
      /\ \A n \in Names : dir'[n] \in durable[n] /\ durable'[n] = {dir'[n]}
  BY CrashFacts
<1>2. op' = Idle /\ CutOff /\ deleted' = deleted
  BY DEF MachineCrash
<1>3. /\ resumed = "unkept" => resumed' = "unkept"
      /\ resumed = "yes" => resumed' \in {"yes", "unkept"}
      /\ resumed' \in {"no", "yes", "unkept"}
  BY <1>2, CutOffCovers
<1>4. OpOK' /\ ApplyInv' /\ RestoreInv' /\ CleanupInv' /\ Cleaned' = {}
  BY <1>2, <1>3, IdleFacts DEF MInv, OpOK
<1>5. \A b \in Backups : BackupInv(b)'
  BY WithinNames DEF MachineCrash, BackupInv
<1>6. ASSUME NEW id \in IDs
      PROVE  RecordInv(id)'
  <2>1. Covered(id) => Covered(id)'
    <3>1. CASE resumed' = "unkept"
      BY <3>1 DEF Covered
    <3>2. CASE resumed' = "yes" /\ resumed = "yes" /\ Covered(id)
      <4>1. PICK b \in Backups : Kept(b) /\ VerifyBackup(b) /\ id \in Listed(b)
        BY <3>2 DEF Covered
      <4>2. \A n \in {Directory(b)} \cup Within(b) : Steady(n)
        BY <1>1, <4>1, NamesOf DEF Kept, Steady
      <4>3. Kept(b)' /\ VerifyBackup(b)' /\ id \in Listed(b)'
        BY <4>1, <4>2, BackupSame
      <4> QED BY <1>4, <3>2, <4>3 DEF Covered
    <3> QED BY <1>3, <3>1, <3>2 DEF Covered
  <2>2. Settled(id) => Settled(id)'
    BY <1>1, NamesOf DEF Settled
  <2>3. dir'[Target(id)] # Absent => Settled(id)'
    BY <1>1, NamesOf DEF Settled
  <2>4. dir'[Source(id)] # Absent => durable'[Source(id)] = {Legacy}
    <3>1. dir'[Source(id)] \in {Absent, Legacy}
      BY <1>1, NamesOf, HeldFacts DEF MInv
    <3> QED BY <1>1, <3>1, NamesOf
  <2> QED BY <1>2, <2>1, <2>2, <2>3, <2>4 DEF MInv, RecordInv
<1> QED BY <1>1, <1>4, <1>5, <1>6 DEF MInv

--------------------------------------------------------------------------------
(***************************************************************************)
(* The theorems.                                                           *)
(***************************************************************************)

\* A legacy store of some sessions satisfies the invariant.
LEMMA MigrationInit == MInit => MInv
<1> SUFFICES ASSUME MInit PROVE MInv
  OBVIOUS
<1>1. /\ \A n \in Names : dir[n] = IF n \in {Source(id) : id \in IDs \ deleted} THEN Legacy ELSE Absent
      /\ \A n \in Names : durable[n] = {dir[n]}
      /\ dir = [n \in Names |-> dir[n]] /\ durable = [n \in Names |-> durable[n]]
  BY DEF MInit
<1>2. \A n \in Names : dir[n] \in Contents(n)
  BY <1>1, KindsDiffer, NameFacts DEF Contents
<1>3. FilesOK
  BY <1>1, <1>2 DEF FilesOK
<1>4. op = Idle /\ op.at = "idle" /\ op.mode = "none" /\ deleted \subseteq IDs /\ resumed = "no"
  BY DEF MInit, Idle
<1>5. OpOK
  BY <1>4 DEF OpOK, Idle, NoBackup, Stages
<1>6. ApplyInv /\ RestoreInv /\ CleanupInv
  BY <1>4 DEF ApplyInv, RestoreInv, CleanupInv
<1>7. ASSUME NEW b \in Backups PROVE BackupInv(b)
  <2>1. Manifest(b) \in Names /\ Manifest(b) \notin {Source(id) : id \in IDs \ deleted}
    BY NameFacts, KindsDiffer DEF Names
  <2> QED BY <1>1, <2>1 DEF BackupInv
<1>8. ASSUME NEW id \in IDs PROVE RecordInv(id)
  <2>1. dir[Target(id)] = Absent
    BY <1>1, NamesOf, NameFacts, KindsDiffer
  <2>2. dir[Source(id)] = IF id \in deleted THEN Absent ELSE Legacy
    BY <1>1, NamesOf, NameFacts
  <2>3. durable[Source(id)] = {dir[Source(id)]}
    BY <1>1, NamesOf
  <2> QED BY <2>1, <2>2, <2>3 DEF RecordInv, Settled
<1> QED BY <1>3, <1>5, <1>6, <1>7, <1>8 DEF MInv

\* Every step preserves the invariant.
LEMMA MigrationStep == MInv /\ [MNext]_mvars => MInv'
<1> SUFFICES ASSUME MInv, [MNext]_mvars PROVE MInv'
  OBVIOUS
<1>1. CASE UNCHANGED mvars
  BY <1>1 DEF mvars, MInv, FilesOK, OpOK, ApplyInv, RestoreInv, CleanupInv, BackupInv, RecordInv,
              Settled, Covered, Cleaned, Kept, VerifyBackup, Listed, Contents
<1>2. CASE Live
  BY <1>2, ServeKeeps, ServeWriteKeeps, SyncDirKeeps DEF Live
<1> QED BY <1>1, <1>2, StartKeeps, ApplyKeeps, RestoreKeeps, CleanupKeeps, StopKeeps, CrashKeeps
        DEF MNext

\* The inductive invariant of maintenance holds throughout, whatever operation is
\* interrupted where.
THEOREM MigrationInvariant == MSpec => []MInv
BY MigrationInit, MigrationStep, PTL DEF MSpec

\* No record is lost by apply, restore, cleanup or a crash between any two of their
\* file-system calls.
THEOREM RecordsSurvive == MSpec => []RecordSurvives
<1>1. MInv => RecordSurvives
  <2> SUFFICES ASSUME MInv, NEW id \in IDs \ deleted
               PROVE  \/ durable[Source(id)] = {Legacy}
                      \/ durable[Target(id)] \subseteq {V2, Saved}
                      \/ \E b \in Backups : Kept(b) /\ VerifyBackup(b) /\ id \in Listed(b)
                      \/ resumed = "unkept"
    BY DEF RecordSurvives
  <2>1. durable[Target(id)] \subseteq {Absent, V2, Saved}
    BY HeldFacts DEF MInv
  <2>2. Settled(id) \/ Covered(id)
    BY DEF MInv, RecordInv
  <2> QED BY <2>1, <2>2 DEF Settled, Covered
<1> QED BY <1>1, MigrationInvariant, PTL

\* A store that opens, now or after a crash, holds every session nobody deleted.
THEOREM StoresOpenComplete == MSpec => []OpensComplete
<1>1. MInv => OpensComplete
  <2> SUFFICES ASSUME MInv, resumed = "no", NEW id \in IDs \ deleted, OpensWithout(id)
               PROVE  FALSE
    BY DEF OpensComplete
  <2>1. Absent \in durable[Source(id)] /\ Absent \in durable[Target(id)]
    BY DEF OpensWithout
  <2>2. Settled(id)
    BY DEF MInv, RecordInv, Covered
  <2> QED BY <2>1, <2>2, ContentsDiffer DEF Settled
<1> QED BY <1>1, MigrationInvariant, PTL

\* An apply that stopped anywhere can be undone: restore accepts its backup.
THEOREM RestoreIsAccepted == MSpec => []RestoreAccepted
<1>1. MInv => RestoreAccepted
  <2> SUFFICES ASSUME MInv, NEW b \in Backups, VerifyBackup(b), NothingServed(b), resumed = "no"
               PROVE  Restorable(b)
    BY DEF RestoreAccepted
  <2>1. Marker \in Names /\ dir[Marker] \in Contents(Marker)
    BY DEF MInv, FilesOK, Names, Root
  <2>2. dir[Marker] \in {Absent, Format}
    BY <2>1 DEF Contents
  <2>3. ASSUME NEW id \in Listed(b)
        PROVE  ValidateRestoreState(id)
    <3>1. id \in IDs /\ id \notin deleted /\ dir[Target(id)] # Saved
      BY ListedIDs DEF MInv, NothingServed
    <3>2. /\ dir[Source(id)] \in {Absent, Legacy} /\ dir[Target(id)] \in {Absent, V2}
          /\ dir[Source(id)] \in durable[Source(id)] /\ dir[Target(id)] \in durable[Target(id)]
      BY <3>1, HeldFacts DEF MInv
    <3>3. Settled(id)
      BY <3>1 DEF MInv, RecordInv, Covered
    <3> QED BY <3>2, <3>3, ContentsDiffer DEF ValidateRestoreState, Settled
  <2> QED BY <2>2, <2>3 DEF Restorable
<1> QED BY <1>1, MigrationInvariant, PTL

==============================================================================
