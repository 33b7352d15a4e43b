------------------------- MODULE DurableStoreSafety -------------------------
(***************************************************************************)
(* That recovery always finds the current contents, and that an idle store *)
(* serves them, whichever system calls fail but the two restoring renames; *)
(* that nothing synchronized is lost to a power failure; and that the      *)
(* files, seen through what recovery would find, implement the map of      *)
(* AbstractStore.                                                          *)
(***************************************************************************)
EXTENDS DurableStoreProofs

-----------------------------------------------------------------------------
(* The inductive invariant.                                                *)

(* A file that holds the current contents under idx. *)
Holds(i, idx) ==
  /\ i \in Inodes
  /\ idx = ReplayIndex(files[i].recs, Len(files[i].recs))
  /\ Replay(files[i].recs, Len(files[i].recs)) = kv

(* What recovery still has to do cannot lose the file it promotes. *)
SafePlan ==
  \/ Dir["main"] # NoFile /\ todo \in Seq(Harmless)
  \/ /\ Dir["main"] = NoFile /\ todo # <<>> /\ Tail(todo) \in Seq(Harmless)
     /\ \E n \in {"ready", "backup"} :
          Dir[n] # NoFile /\ Dir[n] = Target(Dir) /\ Head(todo) = <<"rename", n, "main">>
  \/ Target(Dir) = NoFile /\ todo \in Seq(Harmless)

Recovering == pc = "recover" => SafePlan

Scanning ==
  pc = "scan" =>
    /\ log \in Inodes /\ log = Dir["main"]
    /\ scan \in 0..Len(files[log].recs)
    /\ index = ReplayIndex(files[log].recs, scan)

(* The places where the main name is the log's. *)
Served ==
  {"open", "sync", "clean", "copy", "prepare", "prepared", "closeOld", "backup",
   "reopen", "reopenAndDrop", "dropReady", "dropBackup", "installed"}

(* There the log holds the contents. *)
Serving == pc \in Served => log = Dir["main"] /\ Holds(log, index)

Cleaning == pc = "clean" => todo \in Seq(Harmless)

(* The part of the contents that a compaction has copied. *)
Copying ==
  pc = "copy" =>
    LET recs == files[newLog].recs
    IN  /\ newLog \in Inodes /\ newLog # log /\ Dir["temp"] = newLog
        /\ newIndex = ReplayIndex(recs, Len(recs))
        /\ \A k \in Keys : newIndex[k] # 0 => Replay(recs, Len(recs))[k] = kv[k]

(* From its fsync on, the new log is a full and durable copy. *)
Copied ==
  pc \in {"prepare", "prepared", "closeOld", "backup", "install", "reopenNew"} =>
    newLog # log /\ Holds(newLog, newIndex)

(* Where the two logs are during the replacement. *)
Replacing ==
  /\ pc = "prepare" => Dir["temp"] = newLog
  /\ pc \in {"prepared", "closeOld", "backup"} => Dir["ready"] = newLog
  /\ pc = "install" => Dir["main"] = NoFile /\ Dir["ready"] = newLog
  /\ pc = "reopenNew" => Dir["main"] = newLog
  /\ pc \in {"reopenNew", "dropNew"} => Dir["main"] # NoFile /\ Dir["ready"] = NoFile
  /\ pc \in {"install", "reopenNew", "dropNew", "restore"} =>
       Dir["backup"] = log /\ Holds(log, index)

Safe ==
  /\ RecoverySafe
  /\ Recovering /\ Scanning /\ Serving /\ Cleaning /\ Copying /\ Copied /\ Replacing

IInv == TInv /\ Safe

-----------------------------------------------------------------------------
(* Facts the steps share.                                                  *)

(* A log of the right type has its length among its positions. *)
LEMMA FileType ==
  ASSUME FilesOK, NEW i \in Inodes
  PROVE  /\ files[i].recs \in Seq(Record) /\ Len(files[i].recs) \in 0..Len(files[i].recs)
         /\ Len(files[i].recs) \in Nat
<1>1. files[i].recs \in Seq(Record)
  BY DEF FilesOK, File
<1> QED
  BY <1>1

(* Recovery finds the contents when the file it promotes holds them. *)
LEMMA SafeVia ==
  ASSUME NEW i \in Inodes, Target(Dir') = i,
         Replay(files'[i].recs, Len(files'[i].recs)) = kv'
  PROVE  RecoverySafe'
<1>1. i # NoFile
  BY NoFileAssumption
<1> QED
  BY <1>1 DEF RecoverySafe, Recovered, ContentsAt, RecordsIn

(* And it finds nothing when no file can be promoted. *)
LEMMA SafeEmpty ==
  ASSUME Target(Dir') = NoFile, kv' = NoContents
  PROVE  RecoverySafe'
  BY DEF RecoverySafe, Recovered, ContentsAt

(* The other way around. *)
LEMMA SafeHolds ==
  ASSUME RecoverySafe
  PROVE  /\ Target(Dir) = NoFile => kv = NoContents
         /\ Target(Dir) # NoFile =>
              Replay(files[Target(Dir)].recs, Len(files[Target(Dir)].recs)) = kv
  BY DEF RecoverySafe, Recovered, ContentsAt, RecordsIn

(* What Target picks. *)
LEMMA TargetFacts ==
  ASSUME NEW d \in Directory
  PROVE  /\ Target(d) \in Inodes \cup {NoFile}
         /\ d["main"] # NoFile => Target(d) = d["main"]
         /\ d["main"] = NoFile /\ d["ready"] # NoFile => Target(d) = d["ready"]
         /\ d["main"] = NoFile /\ d["ready"] = NoFile => Target(d) = d["backup"]
  BY DEF Target, Directory, Names

(* A step that leaves the file recovery promotes as it was is safe. *)
LEMMA SafeKept ==
  ASSUME RecoverySafe, DirsOK, Target(Dir') = Target(Dir), kv' = kv,
         \A i \in Inodes : i = Target(Dir) => files'[i].recs = files[i].recs
  PROVE  RecoverySafe'
<1>1. Dir \in Directory
  BY DirType
<1>2. Target(Dir) \in Inodes \cup {NoFile}
  BY <1>1, TargetFacts
<1> QED
  BY <1>2, SafeVia, SafeEmpty, SafeHolds

(* A step that leaves the main name and the log's records alone keeps the  *)
(* store serving them.                                                     *)
LEMMA MainKept ==
  ASSUME IInv, pc \in Served, UNCHANGED <<log, index, kv>>, DirsOK',
         files'[log].recs = files[log].recs, Dir'["main"] = Dir["main"]
  PROVE  RecoverySafe' /\ log' = Dir'["main"] /\ Holds(log, index)'
<1>1. log = Dir["main"] /\ Holds(log, index) /\ log # NoFile /\ log \in Inodes
  BY NoFileAssumption DEF IInv, Safe, Serving, Holds
<1>2. Holds(log, index)'
  BY <1>1 DEF Holds
<1>3. Dir' \in Directory
  BY DEF DirsOK, Dir
<1>4. Target(Dir') = log
  BY <1>1, <1>3, TargetFacts
<1> QED
  BY <1>1, <1>2, <1>4, SafeVia DEF Holds

(* A process that ends or has not begun owes nothing but its files. *)
LEMMA SafeDown ==
  ASSUME RecoverySafe', pc' = "down"
  PROVE  Safe'
  BY DEF Safe, Recovering, Scanning, Serving, Served, Cleaning, Copying, Copied, Replacing

(* A store that is idle, or is about to be, needs its log to serve. *)
LEMMA SafeServed ==
  ASSUME RecoverySafe', log' = Dir'["main"], Holds(log, index)',
         pc' \in {"open", "sync", "reopen", "reopenAndDrop", "dropReady", "dropBackup", "installed"}
  PROVE  Safe'
  BY DEF Safe, Recovering, Scanning, Serving, Served, Cleaning, Copying, Copied, Replacing

-----------------------------------------------------------------------------
(* Opening.                                                                *)

(* Open: the plan that recovery makes keeps the file it will promote. *)
LEMMA SafeOpen ==
  ASSUME IInv, Open
  PROVE  Safe'
<1>1. DirsOK /\ Dir \in Directory
  BY TypeParts, DirType DEF IInv, TInv
<1>2. UNCHANGED <<dirs, files, kv>> /\ Dir' = Dir
  BY DEF Open, disk, history, Dir
<1>3. RecoverySafe'
  BY <1>1, <1>2, SafeKept DEF IInv, Safe
<1>4. SafePlan'
  <2>1. todo' = RecoveryPlan(Dir)
    BY DEF Open
  <2> QED
    BY <1>1, <1>2, <2>1, PlanType DEF SafePlan
<1> QED
  BY <1>3, <1>4 DEF Open, Safe, Recovering, Scanning, Serving, Served, Cleaning, Copying, Copied, Replacing

(* recoverCompactionArtifacts: a rename or a removal, done or failed, leaves *)
(* the file to be promoted and a plan that cannot lose it.                 *)
LEMMA RecoverKeeps ==
  ASSUME IInv, RecoverStep
  PROVE  /\ DirsOK' /\ Target(Dir') = Target(Dir) /\ pc' \in {"recover", "down"}
         /\ pc' = "recover" => SafePlan'
<1>1. DirsOK /\ Dir \in Directory /\ todo \in Seq(Ops) /\ SafePlan /\ pc = "recover" /\ todo # <<>>
  BY TypeParts, DirType DEF IInv, TInv, TypeOK, Safe, Recovering, RecoverStep
<1>2. CASE Fails /\ UNCHANGED dirs /\ todo' = <<>> /\ pc' = "down"
  BY <1>1, <1>2 DEF Dir, DirsOK
<1>3. CASE Succeeds /\ Perform(Head(todo)) /\ todo' = Tail(todo) /\ pc' = pc
  <2>1. Head(todo) \in Ops
    BY <1>1
  <2>2. ASSUME todo \in Seq(Harmless)
        PROVE  /\ todo' \in Seq(Harmless)
               /\ Dir' = Dir \/ \E n \in {"temp", "ready", "backup"} : Dir' = [Dir EXCEPT ![n] = NoFile]
    <3>1. Head(todo) \in Harmless /\ Tail(todo) \in Seq(Harmless)
      BY <1>1, <2>2
    <3> QED
      BY <1>1, <1>3, <2>1, <3>1, PerformStep
  <2>3. DirsOK' /\ Dir' \in Directory
    BY <1>1, <1>3, <2>1, PerformStep DEF DirsOK, Dir
  <2>4. CASE Dir["main"] # NoFile /\ todo \in Seq(Harmless)
    <3>1. Dir'["main"] = Dir["main"]
      BY <1>1, <2>2, <2>4 DEF Directory, Names
    <3> QED
      BY <1>1, <1>3, <2>2, <2>3, <2>4, <3>1, TargetFacts DEF SafePlan
  <2>5. CASE Target(Dir) = NoFile /\ todo \in Seq(Harmless)
    <3>1. Target(Dir') = NoFile
      BY <1>1, <2>2, <2>5 DEF Directory, Target, Names
    <3> QED
      BY <1>1, <1>3, <2>2, <2>3, <2>5, <3>1 DEF SafePlan
  <2>6. CASE /\ Dir["main"] = NoFile /\ todo # <<>> /\ Tail(todo) \in Seq(Harmless)
             /\ \E n \in {"ready", "backup"} :
                  Dir[n] # NoFile /\ Dir[n] = Target(Dir) /\ Head(todo) = <<"rename", n, "main">>
    <3>1. PICK n \in {"ready", "backup"} :
            Dir[n] # NoFile /\ Dir[n] = Target(Dir) /\ Head(todo) = <<"rename", n, "main">>
      BY <2>6
    <3>2. n \in Names
      BY DEF Names
    <3>3. Dir' = [Dir EXCEPT !["main"] = Dir[n], ![n] = NoFile]
      BY <1>1, <1>3, <2>1, <3>1, <3>2, PerformStep
    <3>4. Dir'["main"] = Dir[n]
      BY <1>1, <3>3 DEF Directory, Names
    <3> QED
      BY <1>1, <1>3, <2>3, <2>6, <3>1, <3>4, TargetFacts DEF SafePlan
  <2> QED
    BY <1>1, <2>4, <2>5, <2>6 DEF SafePlan
<1> QED
  BY <1>2, <1>3 DEF RecoverStep

(* Recovery, one operation of its plan. *)
LEMMA SafeRecoverStep ==
  ASSUME IInv, RecoverStep
  PROVE  Safe'
<1>1. DirsOK /\ RecoverySafe /\ UNCHANGED <<files, kv>>
  BY TypeParts DEF IInv, TInv, Safe, RecoverStep, history
<1>2. Target(Dir') = Target(Dir) /\ pc' \in {"recover", "down"} /\ (pc' = "recover" => SafePlan')
  BY RecoverKeeps
<1>3. RecoverySafe'
  BY <1>1, <1>2, SafeKept
<1> QED
  BY <1>2, <1>3
     DEF Safe, Recovering, Scanning, Serving, Served, Cleaning, Copying, Copied, Replacing

(* openAppendLog: the log that is opened, or created, is the target. *)
LEMMA SafeOpenLog ==
  ASSUME IInv, OpenLog
  PROVE  Safe'
<1>1. DirsOK /\ FilesOK /\ Dir \in Directory /\ RecoverySafe /\ SafePlan
  BY TypeParts, DirType DEF IInv, TInv, Safe, Recovering, OpenLog
<1>2. (Exists("main") \/ Target(Dir) = NoFile) /\ kv' = kv
  BY <1>1 DEF OpenLog, SafePlan, Exists, history
<1>3. ASSUME NEW i \in Inodes, ~Exists("main"), Create(i, "main")
      PROVE  RecoverySafe' /\ files'[i].recs = <<>> /\ Target(Dir') = i
  <2>1. "main" \in Names /\ Target(Dir) = NoFile /\ kv = NoContents
    BY <1>1, <1>2, <1>3, SafeHolds DEF Names
  <2>2. /\ DirsOK' /\ FilesOK' /\ Dir' = [Dir EXCEPT !["main"] = i]
        /\ files' = [files EXCEPT ![i] = EmptyFile]
    BY <1>1, <1>3, <2>1, CreateStep
  <2>3. files'[i] = EmptyFile
    BY <1>1, <2>2 DEF FilesOK
  <2>4. files'[i].recs = <<>> /\ Len(files'[i].recs) = 0
    BY <2>3 DEF EmptyFile
  <2>5. Dir' \in Directory /\ Dir'["main"] = i
    BY <1>1, <2>1, <2>2 DEF Directory
  <2>6. Target(Dir') = i
    BY <2>5, TargetFacts, NoFileAssumption
  <2>7. Replay(files'[i].recs, 0) = NoContents
    <3>1. files'[i].recs \in Seq(Record)
      BY <2>2 DEF FilesOK, File
    <3> QED
      BY <3>1, ReplayEmpty
  <2> QED
    BY <1>2, <2>1, <2>4, <2>6, <2>7, SafeVia
<1>4. CASE Succeeds /\ OpenMain /\ pc' = "scan"
  <2>1. /\ DirsOK' /\ FilesOK' /\ log' \in Inodes /\ log' = Dir'["main"]
        /\ Exists("main") => dirs' = dirs /\ files' = files /\ Dir' = Dir
        /\ ~Exists("main") => Create(log', "main")
    BY <1>1, <1>4, OpenMainStep
  <2>2. RecoverySafe'
    <3>1. CASE Exists("main")
      BY <1>1, <1>2, <2>1, <3>1, SafeKept
    <3>2. CASE ~Exists("main")
      BY <1>3, <2>1, <3>2
    <3> QED
      BY <3>1, <3>2
  <2>3. files'[log'].recs \in Seq(Record) /\ Len(files'[log'].recs) \in Nat
    BY <2>1 DEF FilesOK, File
  <2>4. Scanning'
    BY <1>4, <2>1, <2>3, ReplayEmpty DEF OpenLog, Scanning
  <2> QED
    BY <1>4, <2>2, <2>4 DEF Safe, Recovering, Serving, Served, Cleaning, Copying, Copied, Replacing
<1>5. CASE Fails /\ OpenMainFails /\ pc' = "down" /\ UNCHANGED handle
  <2>1. \/ dirs' = dirs /\ files' = files /\ Dir' = Dir
        \/ ~Exists("main") /\ \E i \in Inodes : Create(i, "main")
    BY <1>1, <1>5, OpenMainFailsStep
  <2>2. RecoverySafe'
    BY <1>1, <1>2, <1>3, <2>1, SafeKept
  <2> QED
    BY <1>5, <2>2, SafeDown
<1> QED
  BY <1>4, <1>5 DEF OpenLog

(* Store.recover: a record more, and the index replays one more record. *)
LEMMA SafeScanRecord ==
  ASSUME IInv, ScanRecord
  PROVE  Safe'
<1>1. DirsOK /\ FilesOK /\ RecoverySafe /\ Scanning /\ pc = "scan" /\ scan < Len(files[log].recs)
  BY TypeParts DEF IInv, TInv, Safe, ScanRecord
<1>2. UNCHANGED <<dirs, files, kv>> /\ Dir' = Dir
  BY DEF ScanRecord, disk, history, Dir
<1>3. RecoverySafe'
  BY <1>1, <1>2, SafeKept
<1>4. CASE Fails /\ pc' = "down" /\ Forget
  BY <1>3, <1>4, SafeDown
<1>5. CASE /\ pc' = pc /\ scan' = scan + 1 /\ UNCHANGED handle
           /\ LET r == files[log].recs[scan + 1]
              IN  index' = [index EXCEPT ![r.key] = IF r.val = Absent THEN 0 ELSE scan + 1]
  <2>1. log \in Inodes /\ scan \in Nat /\ log = Dir["main"] /\ index = ReplayIndex(files[log].recs, scan)
    BY <1>1 DEF Scanning
  <2>2. files[log].recs \in Seq(Record) /\ Len(files[log].recs) \in Nat
    BY <1>1, <2>1, FileType
  <2>3. index' = ReplayIndex(files[log].recs, scan + 1)
    BY <1>1, <1>5, <2>1, <2>2, ReplayStep
  <2>4. log' = log /\ scan' \in 0..Len(files[log].recs)
    BY <1>1, <1>5, <2>1, <2>2 DEF handle
  <2>5. Scanning'
    BY <1>1, <1>2, <1>5, <2>1, <2>3, <2>4 DEF Scanning
  <2> QED
    BY <1>1, <1>3, <1>5, <2>5
       DEF Safe, Recovering, Serving, Served, Cleaning, Copying, Copied, Replacing
<1> QED
  BY <1>4, <1>5 DEF ScanRecord

(* The end of the scan: the index replays the whole log. *)
LEMMA SafeScanEnd ==
  ASSUME IInv, ScanEnd
  PROVE  Safe'
<1>1. DirsOK /\ FilesOK /\ Dir \in Directory /\ RecoverySafe /\ Scanning /\ pc = "scan" /\ scan = Len(files[log].recs)
  BY TypeParts, DirType DEF IInv, TInv, Safe, ScanEnd
<1>2. log \in Inodes /\ log = Dir["main"] /\ index = ReplayIndex(files[log].recs, scan) /\ log # NoFile
  BY <1>1, NoFileAssumption DEF Scanning
<1>3. UNCHANGED <<dirs, kv>> /\ Dir' = Dir
  BY DEF ScanEnd, history, Dir
<1>4. Replay(files[log].recs, Len(files[log].recs)) = kv
  BY <1>1, <1>2, TargetFacts, SafeHolds
<1>5. \A i \in Inodes : files'[i].recs = files[i].recs
  <2>1. CASE files' = [files EXCEPT ![log].torn = FALSE]
    <3>1. files[log] \in File /\ files'[log] = [files[log] EXCEPT !.torn = FALSE]
      BY <1>1, <1>2, <2>1 DEF FilesOK
    <3>2. files'[log].recs = files[log].recs
      BY <3>1 DEF File
    <3> QED
      BY <1>1, <2>1, <3>2 DEF FilesOK
  <2> QED
    BY <2>1 DEF ScanEnd
<1>6. RecoverySafe'
  BY <1>1, <1>3, <1>5, SafeKept
<1>7. CASE pc' = "down"
  BY <1>6, <1>7, SafeDown
<1>8. CASE pc' = "open" /\ UNCHANGED <<handle, index>>
  <2>1. Holds(log, index)' /\ log' = Dir'["main"]
    BY <1>1, <1>2, <1>3, <1>4, <1>5, <1>8 DEF Holds, handle
  <2> QED
    BY <1>6, <1>8, <2>1, SafeServed
<1> QED
  BY <1>7, <1>8 DEF ScanEnd

-----------------------------------------------------------------------------
(* Mutations, synchronizing, closing and failures.                         *)

(* An append to the log changes its contents as it changes the map. *)
LEMMA SafeMutate ==
  ASSUME IInv, NEW r \in Record, NEW place, Mutate(r, place),
         place = IF r.val = Absent THEN 0 ELSE Len(files[log].recs) + 1
  PROVE  Safe'
<1>1. DirsOK /\ FilesOK /\ Dir \in Directory /\ log \in Inodes /\ log = Dir["main"] /\ Holds(log, index)
  BY TypeParts, DirType DEF IInv, TInv, Safe, Serving, Served, Mutate, Holds
<1>2. Dir' = Dir /\ log' = log /\ log # NoFile
  BY <1>1, NoFileAssumption DEF Mutate, Dir, handle
<1>3. files[log].recs \in Seq(Record) /\ r.key \in Keys
  BY <1>1, FileType DEF Record
<1>4. /\ files'[log].recs = Append(files[log].recs, r)
      /\ Len(files'[log].recs) = Len(files[log].recs) + 1
  BY <1>1, AppendStep DEF Mutate
<1> DEFINE recs == files[log].recs
<1>5. Replay(files'[log].recs, Len(files'[log].recs)) = kv'
  <2>1. Replay(Append(recs, r), Len(recs) + 1) = [Replay(recs, Len(recs)) EXCEPT ![r.key] = r.val]
    BY <1>3, ReplayAppend
  <2>2. kv' = [kv EXCEPT ![r.key] = r.val] /\ Replay(recs, Len(recs)) = kv
    BY <1>1 DEF Mutate, Holds
  <2> QED
    BY <1>4, <2>1, <2>2, Zenon
<1>6. index' = ReplayIndex(files'[log].recs, Len(files'[log].recs))
  <2>1. ReplayIndex(Append(recs, r), Len(recs) + 1) =
          [ReplayIndex(recs, Len(recs)) EXCEPT ![r.key] = IF r.val = Absent THEN 0 ELSE Len(recs) + 1]
    BY <1>3, ReplayAppend
  <2>2. index' = [index EXCEPT ![r.key] = place] /\ ReplayIndex(recs, Len(recs)) = index
    BY <1>1 DEF Mutate, Holds
  <2> QED
    BY <1>4, <2>1, <2>2, Zenon
<1>7. RecoverySafe'
  BY <1>1, <1>2, <1>5, TargetFacts, SafeVia
<1>8. Holds(log, index)' /\ log' = Dir'["main"]
  BY <1>1, <1>2, <1>5, <1>6 DEF Holds
<1> QED
  BY <1>7, <1>8, SafeServed DEF Mutate

(* Store.Put appends a record and points the index at it. *)
LEMMA SafePut ==
  ASSUME IInv, NEW k \in Keys, NEW v \in Values, Put(k, v)
  PROVE  Safe'
<1>1. [key |-> k, val |-> v] \in Record /\ v # Absent
  BY AbsentAssumption DEF Record
<1> QED
  BY <1>1, SafeMutate DEF Put

(* Store.Delete appends a tombstone and takes the key off the index. *)
LEMMA SafeDelete ==
  ASSUME IInv, NEW k \in Keys, Delete(k)
  PROVE  Safe'
<1>1. [key |-> k, val |-> Absent] \in Record
  BY DEF Record
<1> QED
  BY <1>1, SafeMutate DEF Delete

(* Synchronizing changes no record and no name. *)
LEMMA SyncKeeps ==
  ASSUME IInv, log \in Inodes, SyncLog \/ UNCHANGED disk
  PROVE  Dir' = Dir /\ DirsOK' /\ \A i \in Inodes : files'[i].recs = files[i].recs
<1>1. DirsOK /\ FilesOK
  BY TypeParts DEF IInv, TInv
<1>2. CASE UNCHANGED disk
  BY <1>1, <1>2 DEF disk, Dir, DirsOK
<1>3. CASE Fsync(log)
  BY <1>1, <1>3, FsyncStep
<1> QED
  BY <1>2, <1>3 DEF SyncLog, disk

(* Store.Sync, alone or at the end of a mutation, changes no contents. *)
LEMMA SafeSync ==
  ASSUME IInv, SyncMutation \/ Sync
  PROVE  Safe'
<1>1. log \in Inodes /\ pc \in {"open", "sync"} /\ SyncLog /\ UNCHANGED <<log, index, kv>> /\ pc' = "open"
  BY DEF IInv, TInv, SyncMutation, Sync, handle
<1>2. Dir' = Dir /\ DirsOK' /\ files'[log].recs = files[log].recs
  BY <1>1, SyncKeeps
<1> QED
  BY <1>1, <1>2, MainKept, SafeServed DEF Served

(* Store.Close leaves the directory and the records as they are. *)
LEMMA SafeClose ==
  ASSUME IInv, Close
  PROVE  Safe'
<1>1. log \in Inodes /\ DirsOK /\ RecoverySafe /\ kv' = kv /\ pc' = "down"
  BY TypeParts DEF IInv, TInv, Safe, Close
<1>2. Dir' = Dir /\ \A i \in Inodes : files'[i].recs = files[i].recs
  BY <1>1, SyncKeeps DEF Close, disk
<1> QED
  BY <1>1, <1>2, SafeKept, SafeDown

(* The death of the process leaves the directory and the records. *)
LEMMA SafeCrash ==
  ASSUME IInv, Crash
  PROVE  Safe'
<1>1. DirsOK /\ FilesOK /\ RecoverySafe /\ kv' = kv /\ pc' = "down" /\ Dir' = Dir
  BY TypeParts DEF IInv, TInv, Safe, Crash, history, Dir
<1>2. ASSUME NEW i \in Inodes PROVE files'[i].recs = files[i].recs
  <2>1. CASE UNCHANGED files
    BY <2>1
  <2>2. CASE \E j \in Writing : files' = [files EXCEPT ![j].torn = TRUE]
    <3>1. PICK j \in Writing : files' = [files EXCEPT ![j].torn = TRUE]
      BY <2>2
    <3>2. files[i] \in File /\ (files'[i] = files[i] \/ files'[i] = [files[i] EXCEPT !.torn = TRUE])
      BY <1>1, <3>1 DEF FilesOK
    <3> QED
      BY <3>2 DEF File
  <2> QED
    BY <2>1, <2>2 DEF Crash
<1> QED
  BY <1>1, <1>2, SafeKept, SafeDown

(* A power failure, after which the map is what the disk has kept. *)
LEMMA SafePowerFailure ==
  ASSUME IInv, PowerFailure
  PROVE  Safe'
<1>1. PICK j \in DOMAIN dirs : Leaves(dirs[j], Target(dirs[j]))
  BY PowerStep DEF IInv, TInv
<1>2. RecoverySafe'
  BY <1>1, SafeVia, SafeEmpty DEF Leaves
<1> QED
  BY <1>2, SafeDown DEF PowerFailure

-----------------------------------------------------------------------------
(* Compaction.                                                             *)

(* Compact: what it removes first are artifacts, never the log. *)
LEMMA SafeCompactStart ==
  ASSUME IInv, CompactStart
  PROVE  Safe'
<1>1. DirsOK /\ Dir \in Directory
  BY TypeParts, DirType DEF IInv, TInv
<1>2. UNCHANGED <<dirs, files, log, index, kv>> /\ Dir' = Dir /\ DirsOK'
  BY <1>1 DEF CompactStart, Steady, disk, handle, history, Dir, DirsOK
<1>3. RecoverySafe' /\ log' = Dir'["main"] /\ Holds(log, index)'
  BY <1>2, MainKept DEF CompactStart, Served
<1>4. todo' \in Seq(Harmless)
  BY <1>1, PlanType DEF CompactStart
<1> QED
  BY <1>3, <1>4
     DEF CompactStart, Safe, Recovering, Scanning, Serving, Served, Cleaning, Copying, Copied, Replacing

(* Compact, the removal of leftovers, done or failed. *)
LEMMA SafeCompactClean ==
  ASSUME IInv, CompactClean
  PROVE  Safe'
<1>1. DirsOK /\ Dir \in Directory /\ todo \in Seq(Harmless) /\ todo # <<>> /\ pc = "clean"
      /\ UNCHANGED <<files, log, index, kv>>
  BY TypeParts, DirType DEF IInv, TInv, Safe, Cleaning, CompactClean, Steady, handle, history
<1>2. CASE Fails /\ UNCHANGED dirs /\ todo' = <<>> /\ pc' = "open"
  <2>1. Dir' = Dir /\ DirsOK'
    BY <1>1, <1>2 DEF Dir, DirsOK
  <2> QED
    BY <1>1, <1>2, <2>1, MainKept, SafeServed DEF Served
<1>3. CASE Succeeds /\ Perform(Head(todo)) /\ todo' = Tail(todo) /\ pc' = pc
  <2>1. Head(todo) \in Harmless /\ Tail(todo) \in Seq(Harmless)
    BY <1>1
  <2>2. Head(todo) \in Ops
    BY <2>1 DEF Harmless, Ops, Names
  <2>3. DirsOK' /\ (Dir' = Dir \/ \E n \in {"temp", "ready", "backup"} : Dir' = [Dir EXCEPT ![n] = NoFile])
    BY <1>1, <1>3, <2>1, <2>2, PerformStep
  <2>4. Dir'["main"] = Dir["main"]
    BY <1>1, <2>3 DEF Directory, Names
  <2>5. RecoverySafe' /\ log' = Dir'["main"] /\ Holds(log, index)'
    BY <1>1, <2>3, <2>4, MainKept DEF Served
  <2> QED
    BY <1>1, <1>3, <2>1, <2>5
       DEF Safe, Recovering, Scanning, Serving, Served, Cleaning, Copying, Copied, Replacing
<1> QED
  BY <1>2, <1>3 DEF CompactClean

(* Compact, the creation of the temporary log: it is not the log. *)
LEMMA SafeCompactCreate ==
  ASSUME IInv, CompactCreate
  PROVE  Safe'
<1>1. /\ DirsOK /\ FilesOK /\ Dir \in Directory /\ pc = "clean" /\ log \in Inodes
      /\ UNCHANGED <<log, index, kv>> /\ newIndex' = NoIndex /\ "temp" \in Names
  BY TypeParts, DirType DEF IInv, TInv, CompactCreate, Steady, handle, history, Names
<1>2. ASSUME NEW i, Create(i, "temp")
      PROVE  /\ RecoverySafe' /\ log' = Dir'["main"] /\ Holds(log, index)'
             /\ i \in Inodes /\ i # log /\ Dir'["temp"] = i
             /\ files'[i].recs \in Seq(Record) /\ Len(files'[i].recs) = 0
  <2>1. /\ DirsOK' /\ FilesOK' /\ Dir' = [Dir EXCEPT !["temp"] = i] /\ i \in Inodes /\ i # log
        /\ files' = [files EXCEPT ![i] = EmptyFile]
    BY <1>1, <1>2, CreateStep
  <2>2. Dir'["main"] = Dir["main"] /\ Dir'["temp"] = i
    BY <1>1, <2>1 DEF Directory, Names
  <2>3. files'[log] = files[log] /\ files'[i] = EmptyFile
    BY <1>1, <2>1 DEF FilesOK
  <2>4. files'[i].recs \in Seq(Record) /\ Len(files'[i].recs) = 0
    BY <2>3 DEF EmptyFile
  <2> QED
    BY <1>1, <2>1, <2>2, <2>3, <2>4, MainKept DEF Served
<1>3. CASE pc' = "open"
  <2>1. CASE UNCHANGED disk
    <3>1. UNCHANGED <<dirs, files>> /\ Dir' = Dir /\ DirsOK'
      BY <1>1, <2>1 DEF disk, Dir, DirsOK
    <3> QED
      BY <1>1, <1>3, <3>1, MainKept, SafeServed DEF Served
  <2>2. CASE \E i \in Free : Create(i, "temp")
    BY <1>2, <1>3, <2>2, SafeServed
  <2> QED
    BY <1>3, <2>1, <2>2 DEF CompactCreate
<1>4. CASE pc' = "copy" /\ \E i \in Free : Create(i, "temp") /\ newLog' = i
  <2>1. PICK i \in Free : Create(i, "temp") /\ newLog' = i
    BY <1>4
  <2>2. newIndex' = ReplayIndex(files'[i].recs, Len(files'[i].recs))
    BY <1>1, <1>2, <2>1, ReplayEmpty
  <2>3. \A k \in Keys : newIndex'[k] = 0
    BY <1>1 DEF NoIndex
  <2>4. Copying'
    BY <1>1, <1>2, <2>1, <2>2, <2>3 DEF Copying
  <2> QED
    BY <1>2, <1>4, <2>1, <2>4
       DEF Safe, Recovering, Scanning, Serving, Served, Cleaning, Copied, Replacing
<1> QED
  BY <1>3, <1>4 DEF CompactCreate

(* Compact, the copy of one live record, or its failure. *)
LEMMA SafeCompactCopy ==
  ASSUME IInv, CompactCopy
  PROVE  Safe'
<1>1. /\ DirsOK /\ FilesOK /\ Dir \in Directory /\ pc = "copy" /\ log \in Inodes
      /\ UNCHANGED <<log, index, newLog, kv>> /\ "temp" \in Names
      /\ Holds(log, index) /\ newLog \in Inodes /\ newLog # log /\ Dir["temp"] = newLog
  BY TypeParts, DirType
     DEF IInv, TInv, Safe, Serving, Served, Copying, CompactCopy, Steady, handle, history, Names
<1>2. PICK k \in Uncopied : CopyRecord(k) \/ CopyFails(k)
  BY DEF CompactCopy
<1>3. CASE CopyFails(k)
  <2>1. DirsOK' /\ (Dir' = Dir \/ Dir' = [Dir EXCEPT !["temp"] = NoFile])
    BY <1>1, <1>3, DropStep, RemoveStep DEF CopyFails, IInv, TInv, TypeOK
  <2>2. Dir'["main"] = Dir["main"]
    BY <1>1, <2>1 DEF Directory, Names
  <2> QED
    BY <1>1, <1>3, <2>1, <2>2, MainKept, SafeServed DEF CopyFails, Served
<1>4. CASE CopyRecord(k)
  <2> DEFINE r == [key |-> k, val |-> files[log].recs[index[k]].val]
             recs == files[newLog].recs
  <2>1. Dir' = Dir /\ DirsOK' /\ pc' = "copy"
    BY <1>1, <1>4 DEF CopyRecord, Dir, DirsOK
  <2>2. /\ files[log].recs \in Seq(Record) /\ recs \in Seq(Record) /\ Len(recs) \in 0..Len(recs)
        /\ Len(files[log].recs) \in 0..Len(files[log].recs)
    BY <1>1, FileType
  <2>3. k \in Keys /\ index[k] # 0 /\ newIndex[k] = 0
    BY DEF Uncopied
  <2>4. index[k] \in 1..Len(files[log].recs) /\ r.val = kv[k] /\ kv[k] # Absent
    <3>1. /\ ReplayIndex(files[log].recs, Len(files[log].recs)) \in [Keys -> 0..Len(files[log].recs)]
          /\ LET i == ReplayIndex(files[log].recs, Len(files[log].recs))[k]
             IN  /\ i = 0 <=> Replay(files[log].recs, Len(files[log].recs))[k] = Absent
                 /\ i # 0 => files[log].recs[i].val = Replay(files[log].recs, Len(files[log].recs))[k]
      BY <2>2, <2>3, ReplayType
    <3>2. /\ index = ReplayIndex(files[log].recs, Len(files[log].recs))
          /\ Replay(files[log].recs, Len(files[log].recs)) = kv
      BY <1>1 DEF Holds
    <3>3. /\ index \in [Keys -> 0..Len(files[log].recs)]
          /\ index[k] = 0 <=> kv[k] = Absent
          /\ index[k] # 0 => files[log].recs[index[k]].val = kv[k]
      BY <3>1, <3>2, Zenon
    <3>4. index[k] \in 1..Len(files[log].recs)
      BY <2>2, <2>3, <3>3
    <3> QED
      BY <2>3, <3>3, <3>4
  <2>5. r \in Record /\ r.key = k
    BY <2>2, <2>3, <2>4, RecordAt DEF Record
  <2>6. files' = AppendTo(newLog, r) /\ newIndex' = [newIndex EXCEPT ![k] = Len(recs) + 1]
    BY <1>4 DEF CopyRecord
  <2> HIDE DEF r
  <2>7. /\ files'[newLog].recs = Append(recs, r) /\ Len(files'[newLog].recs) = Len(recs) + 1
        /\ files'[log] = files[log]
    BY <1>1, <2>5, <2>6, AppendStep
  <2>8. RecoverySafe' /\ log' = Dir'["main"] /\ Holds(log, index)'
    BY <1>1, <2>1, <2>7, MainKept DEF Served
  <2>9. /\ Replay(Append(recs, r), Len(recs) + 1) = [Replay(recs, Len(recs)) EXCEPT ![k] = kv[k]]
        /\ ReplayIndex(Append(recs, r), Len(recs) + 1) =
             [ReplayIndex(recs, Len(recs)) EXCEPT ![k] = Len(recs) + 1]
    <3>1. r.key = k /\ r.val = kv[k] /\ r.val # Absent
      BY <2>4, <2>5
    <3>2. /\ Replay(Append(recs, r), Len(recs) + 1) = [Replay(recs, Len(recs)) EXCEPT ![r.key] = r.val]
          /\ ReplayIndex(Append(recs, r), Len(recs) + 1) =
               [ReplayIndex(recs, Len(recs)) EXCEPT
                  ![r.key] = IF r.val = Absent THEN 0 ELSE Len(recs) + 1]
      BY <2>2, <2>5, ReplayAppend
    <3> QED
      BY <3>1, <3>2, Zenon
  <2>10. /\ newIndex = ReplayIndex(recs, Len(recs))
         /\ \A h \in Keys : newIndex[h] # 0 => Replay(recs, Len(recs))[h] = kv[h]
    BY <1>1 DEF IInv, Safe, Copying
  <2>11. Replay(recs, Len(recs)) \in Contents /\ newIndex \in [Keys -> Nat]
    BY <2>2, ReplayType DEF IInv, TInv, TypeOK
  <2>12. newIndex' = ReplayIndex(files'[newLog].recs, Len(files'[newLog].recs))
    BY <2>6, <2>7, <2>9, <2>10
  <2>13. ASSUME NEW h \in Keys, newIndex'[h] # 0
         PROVE  Replay(files'[newLog].recs, Len(files'[newLog].recs))[h] = kv[h]
    BY <2>3, <2>6, <2>7, <2>9, <2>10, <2>11, <2>13, SMTT(60) DEF Contents
  <2>14. Copying'
    BY <1>1, <2>1, <2>12, <2>13 DEF Copying
  <2> QED
    BY <2>1, <2>8, <2>14
       DEF Safe, Recovering, Scanning, Serving, Served, Cleaning, Copied, Replacing
<1> QED
  BY <1>2, <1>3, <1>4

(* When every live key is copied, the new log stands for the contents. *)
LEMMA SafeCompactSyncNew ==
  ASSUME IInv, CompactSyncNew
  PROVE  Safe'
<1>1. /\ DirsOK /\ FilesOK /\ Dir \in Directory /\ pc = "copy" /\ log \in Inodes
      /\ UNCHANGED <<log, index, newLog, newIndex, kv>> /\ "temp" \in Names
      /\ Holds(log, index) /\ newLog \in Inodes /\ newLog # log /\ Dir["temp"] = newLog
      /\ newIndex = ReplayIndex(files[newLog].recs, Len(files[newLog].recs))
  BY TypeParts, DirType
     DEF IInv, TInv, Safe, Serving, Served, Copying, CompactSyncNew, Steady, handle, build, history, Names
<1>2. CASE FailsAndDrops("temp") /\ UNCHANGED files /\ pc' = "open"
  <2>1. DirsOK' /\ (Dir' = Dir \/ Dir' = [Dir EXCEPT !["temp"] = NoFile])
    BY <1>1, <1>2, DropStep DEF IInv, TInv, TypeOK
  <2>2. Dir'["main"] = Dir["main"]
    BY <1>1, <2>1 DEF Directory, Names
  <2> QED
    BY <1>1, <1>2, <2>1, <2>2, MainKept, SafeServed DEF Served
<1>3. CASE Succeeds /\ Fsync(newLog) /\ pc' = "prepare"
  <2>1. DirsOK' /\ Dir' = Dir /\ \A i \in Inodes : files'[i].recs = files[i].recs
    BY <1>1, <1>3, FsyncStep
  <2>2. RecoverySafe' /\ log' = Dir'["main"] /\ Holds(log, index)'
    BY <1>1, <2>1, MainKept DEF Served
  <2> DEFINE old == files[log].recs
             recs == files[newLog].recs
  <2>3. /\ old \in Seq(Record) /\ Len(old) \in 0..Len(old)
        /\ recs \in Seq(Record) /\ Len(recs) \in 0..Len(recs)
    BY <1>1, FileType
  <2>4. index = ReplayIndex(old, Len(old)) /\ Replay(old, Len(old)) = kv /\ newIndex = ReplayIndex(recs, Len(recs))
    BY <1>1 DEF Holds
  <2>5. \A k \in Keys : newIndex[k] # 0 => Replay(recs, Len(recs))[k] = kv[k]
    BY <1>1 DEF IInv, Safe, Copying
  <2>6. \A k \in Keys : index[k] # 0 => newIndex[k] # 0
    BY DEF CompactSyncNew, Uncopied
  <2> HIDE DEF old, recs
  <2>7. ASSUME NEW k \in Keys PROVE Replay(recs, Len(recs))[k] = kv[k]
    <3>1. index[k] = 0 => kv[k] = Absent
      BY <2>3, <2>4, ReplayType
    <3>2. newIndex[k] = 0 => Replay(recs, Len(recs))[k] = Absent
      BY <2>3, <2>4, ReplayType
    <3> QED
      BY <2>5, <2>6, <3>1, <3>2
  <2>8. Replay(recs, Len(recs)) = kv
    <3>1. Replay(recs, Len(recs)) \in Contents /\ kv \in Contents
      BY <2>3, ReplayType DEF IInv, TInv, TypeOK
    <3> QED
      BY <2>7, <3>1 DEF Contents
  <2>9. (newLog # log)' /\ Holds(newLog, newIndex)' /\ Dir'["temp"] = newLog'
    BY <1>1, <2>1, <2>4, <2>8 DEF Holds, recs
  <2> QED
    BY <1>3, <2>2, <2>9
       DEF Safe, Recovering, Scanning, Serving, Served, Cleaning, Copying, Copied, Replacing
<1> QED
  BY <1>2, <1>3 DEF CompactSyncNew

(* A step between the fsync of the new log and the installation that keeps *)
(* the files, the main name, and the new log under name n, is safe.        *)
LEMMA SafeBetween ==
  ASSUME IInv, pc \in {"prepare", "prepared", "closeOld", "backup"},
         pc' \in {"prepared", "closeOld", "backup"},
         UNCHANGED <<files, log, index, newLog, newIndex, kv>>, DirsOK',
         Dir'["main"] = Dir["main"], Dir'["ready"] = newLog
  PROVE  Safe'
<1>1. RecoverySafe' /\ log' = Dir'["main"] /\ Holds(log, index)'
  BY MainKept DEF Served
<1>2. newLog # log /\ Holds(newLog, newIndex)
  BY DEF IInv, Safe, Copied
<1>3. Holds(newLog, newIndex)'
  BY <1>2 DEF Holds
<1> QED
  BY <1>1, <1>2, <1>3
     DEF Safe, Recovering, Scanning, Serving, Served, Cleaning, Copying, Copied, Replacing

(* What the steps of the replacement have in common. *)
LEMMA ReplaceFacts ==
  ASSUME IInv
  PROVE  /\ DirsOK /\ FilesOK /\ Dir \in Directory /\ faults \in 0..MaxFaults
         /\ Names = {"main", "temp", "ready", "backup"}
  BY TypeParts, DirType DEF IInv, TInv, TypeOK, Names

(* Compact, the rename of the temporary log to the ready name. *)
LEMMA SafeCompactPrepare ==
  ASSUME IInv, CompactPrepare
  PROVE  Safe'
<1>1. /\ pc = "prepare" /\ UNCHANGED <<files, log, index, newLog, newIndex, kv>>
      /\ Dir["temp"] = newLog
  BY DEF CompactPrepare, Steady, handle, build, history, IInv, Safe, Replacing
<1>2. CASE FailsAndDrops("temp") /\ pc' = "open"
  <2>1. DirsOK' /\ Dir'["main"] = Dir["main"]
    BY <1>2, ReplaceFacts, DropStep DEF Directory
  <2> QED
    BY <1>1, <1>2, <2>1, MainKept, SafeServed DEF Served
<1>3. CASE Rename("temp", "ready") /\ pc' = "prepared"
  <2>1. DirsOK' /\ Dir' = [Dir EXCEPT !["ready"] = Dir["temp"], !["temp"] = NoFile]
    BY <1>3, ReplaceFacts, RenameStep
  <2>2. Dir'["main"] = Dir["main"] /\ Dir'["ready"] = newLog
    BY <1>1, <2>1, ReplaceFacts DEF Directory
  <2> QED
    BY <1>1, <1>3, <2>1, <2>2, SafeBetween
<1> QED
  BY <1>2, <1>3 DEF CompactPrepare

(* Compact, the sync of the directory with the ready name in it. *)
LEMMA SafeCompactSyncPrepared ==
  ASSUME IInv, CompactSyncPrepared
  PROVE  Safe'
<1>1. /\ pc = "prepared" /\ UNCHANGED <<files, log, index, newLog, newIndex, kv>>
      /\ Dir["ready"] = newLog
  BY DEF CompactSyncPrepared, Steady, handle, build, history, IInv, Safe, Replacing
<1>2. CASE FailsAndDrops("ready") /\ pc' = "open"
  <2>1. DirsOK' /\ Dir'["main"] = Dir["main"]
    BY <1>2, ReplaceFacts, DropStep DEF Directory
  <2> QED
    BY <1>1, <1>2, <2>1, MainKept, SafeServed DEF Served
<1>3. CASE SyncDirectory /\ pc' = "closeOld"
  <2>1. DirsOK' /\ Dir' = Dir
    BY <1>3, ReplaceFacts, SyncDirectoryStep DEF SyncDirectory
  <2> QED
    BY <1>1, <1>3, <2>1, SafeBetween
<1> QED
  BY <1>2, <1>3 DEF CompactSyncPrepared

(* Compact, the close of the old log. *)
LEMMA SafeCompactCloseOld ==
  ASSUME IInv, CompactCloseOld
  PROVE  Safe'
<1>1. /\ pc = "closeOld" /\ UNCHANGED <<dirs, files, log, index, newLog, newIndex, kv>>
      /\ Dir["ready"] = newLog /\ Dir' = Dir /\ DirsOK' /\ pc' \in {"backup", "reopenAndDrop"}
  BY ReplaceFacts DEF CompactCloseOld, Steady, disk, build, history, IInv, Safe, Replacing, Dir, DirsOK
<1>2. CASE pc' = "backup"
  BY <1>1, <1>2, SafeBetween
<1>3. CASE pc' = "reopenAndDrop"
  BY <1>1, <1>3, MainKept, SafeServed DEF Served
<1> QED
  BY <1>1, <1>2, <1>3

(* The old log steps aside: for a moment only ready and backup have files. *)
LEMMA SafeCompactBackup ==
  ASSUME IInv, CompactBackup
  PROVE  Safe'
<1>1. /\ pc = "backup" /\ UNCHANGED <<files, log, index, newLog, newIndex, kv>>
      /\ Dir["ready"] = newLog /\ log = Dir["main"] /\ Holds(log, index)
      /\ newLog # log /\ Holds(newLog, newIndex)
  BY DEF CompactBackup, Steady, handle, build, history, IInv, Safe, Serving, Served, Copied, Replacing
<1>2. Holds(log, index)' /\ Holds(newLog, newIndex)' /\ newLog \in Inodes /\ newLog # NoFile
  BY <1>1, NoFileAssumption DEF Holds
<1>3. CASE Fails /\ UNCHANGED dirs /\ pc' = "reopenAndDrop"
  <2>1. Dir' = Dir /\ DirsOK'
    BY <1>3, ReplaceFacts DEF Dir, DirsOK
  <2> QED
    BY <1>1, <1>3, <2>1, MainKept, SafeServed DEF Served
<1>4. CASE Rename("main", "backup") /\ pc' = "install"
  <2>1. DirsOK' /\ Dir' = [Dir EXCEPT !["backup"] = Dir["main"], !["main"] = NoFile]
    BY <1>4, ReplaceFacts, RenameStep
  <2>2. Dir'["main"] = NoFile /\ Dir'["ready"] = newLog /\ Dir'["backup"] = log /\ Dir' \in Directory
    BY <1>1, <2>1, ReplaceFacts DEF Directory, Dir, DirsOK
  <2>3. Target(Dir') = newLog
    BY <1>2, <2>2, TargetFacts
  <2>4. RecoverySafe'
    BY <1>1, <1>2, <2>3, SafeVia DEF Holds
  <2> QED
    BY <1>1, <1>2, <1>4, <2>2, <2>4
       DEF Safe, Recovering, Scanning, Serving, Served, Cleaning, Copying, Copied, Replacing
<1> QED
  BY <1>3, <1>4 DEF CompactBackup

(* Compact, the rename of the ready log to the main name. *)
LEMMA SafeCompactInstall ==
  ASSUME IInv, CompactInstall
  PROVE  Safe'
<1>1. /\ pc = "install" /\ UNCHANGED <<files, log, index, newLog, newIndex, kv>> /\ RecoverySafe
      /\ Dir["main"] = NoFile /\ Dir["ready"] = newLog /\ Dir["backup"] = log /\ Holds(log, index)
      /\ newLog # log /\ Holds(newLog, newIndex)
  BY DEF CompactInstall, Steady, handle, build, history, IInv, Safe, Copied, Replacing
<1>2. Holds(log, index)' /\ Holds(newLog, newIndex)' /\ newLog \in Inodes /\ newLog # NoFile
  BY <1>1, NoFileAssumption DEF Holds
<1>3. CASE Fails /\ UNCHANGED dirs /\ pc' = "restore"
  <2>1. Dir' = Dir
    BY <1>3 DEF Dir
  <2>2. RecoverySafe'
    BY <1>1, <2>1, ReplaceFacts, SafeKept
  <2> QED
    BY <1>1, <1>2, <1>3, <2>1, <2>2
       DEF Safe, Recovering, Scanning, Serving, Served, Cleaning, Copying, Copied, Replacing
<1>4. CASE Rename("ready", "main") /\ pc' = "reopenNew"
  <2>1. DirsOK' /\ Dir' = [Dir EXCEPT !["main"] = Dir["ready"], !["ready"] = NoFile]
    BY <1>4, ReplaceFacts, RenameStep
  <2>2. Dir'["main"] = newLog /\ Dir'["ready"] = NoFile /\ Dir'["backup"] = log /\ Dir' \in Directory
    BY <1>1, <2>1, ReplaceFacts DEF Directory, Dir, DirsOK
  <2>3. Target(Dir') = newLog
    BY <1>2, <2>2, TargetFacts
  <2>4. RecoverySafe'
    BY <1>1, <1>2, <2>3, SafeVia DEF Holds
  <2> QED
    BY <1>1, <1>2, <1>4, <2>2, <2>4
       DEF Safe, Recovering, Scanning, Serving, Served, Cleaning, Copying, Copied, Replacing
<1> QED
  BY <1>3, <1>4 DEF CompactInstall

(* Compact, the change to the new log, or its failure. *)
LEMMA SafeCompactReopenNew ==
  ASSUME IInv, CompactReopenNew
  PROVE  Safe'
<1>1. /\ pc = "reopenNew" /\ UNCHANGED <<newLog, newIndex, kv>> /\ RecoverySafe
      /\ Dir["main"] = newLog /\ Dir["ready"] = NoFile /\ Dir["backup"] = log /\ Holds(log, index)
      /\ Dir["main"] # NoFile /\ Holds(newLog, newIndex)
  BY DEF CompactReopenNew, Steady, build, history, IInv, Safe, Copied, Replacing
<1>2. CASE OpenMain /\ index' = newIndex /\ pc' = "dropBackup"
  <2>1. dirs' = dirs /\ files' = files /\ Dir' = Dir /\ log' = Dir["main"]
    BY <1>1, <1>2, ReplaceFacts, OpenMainStep DEF Exists
  <2>2. RecoverySafe'
    BY <1>1, <2>1, ReplaceFacts, SafeKept
  <2>3. Holds(log, index)'
    BY <1>1, <1>2, <2>1 DEF Holds
  <2> QED
    BY <1>2, <2>1, <2>2, <2>3, SafeServed
<1>3. CASE OpenMainFails /\ pc' = "dropNew" /\ UNCHANGED <<handle, index>>
  <2>1. dirs' = dirs /\ files' = files /\ Dir' = Dir
    BY <1>1, <1>3, ReplaceFacts, OpenMainFailsStep DEF Exists
  <2>2. RecoverySafe'
    BY <1>1, <2>1, ReplaceFacts, SafeKept
  <2>3. Holds(log, index)' /\ log' = log
    BY <1>1, <1>3, <2>1 DEF Holds, handle
  <2> QED
    BY <1>1, <1>3, <2>1, <2>2, <2>3
       DEF Safe, Recovering, Scanning, Serving, Served, Cleaning, Copying, Copied, Replacing
<1> QED
  BY <1>2, <1>3 DEF CompactReopenNew

(* The removals and the directory sync at the ends of a compaction. *)
LEMMA SafeCompactEnds ==
  ASSUME IInv, CompactDropBackup \/ CompactSyncInstalled \/ CompactDropReady
  PROVE  Safe'
<1>1. /\ pc \in {"dropBackup", "installed", "dropReady"} /\ pc' \in {"installed", "open"}
      /\ UNCHANGED <<files, log, index, kv>>
      /\ UNCHANGED dirs \/ SyncDirectory \/ Remove("backup") \/ Remove("ready")
  BY DEF CompactDropBackup, CompactSyncInstalled, CompactDropReady, Steady, handle, history
<1>2. DirsOK' /\ Dir'["main"] = Dir["main"]
  <2>1. CASE UNCHANGED dirs
    BY <2>1, ReplaceFacts DEF Dir, DirsOK
  <2>2. CASE SyncDirectory
    BY <2>2, ReplaceFacts, SyncDirectoryStep DEF SyncDirectory
  <2>3. ASSUME NEW n \in {"ready", "backup"}, Remove(n) PROVE DirsOK' /\ Dir'["main"] = Dir["main"]
    <3>1. DirsOK' /\ Dir' = [Dir EXCEPT ![n] = NoFile]
      BY <2>3, ReplaceFacts, RemoveStep
    <3> QED
      BY <3>1, ReplaceFacts DEF Directory
  <2> QED
    BY <1>1, <2>1, <2>2, <2>3
<1> QED
  BY <1>1, <1>2, MainKept, SafeServed DEF Served

(* The unusable new log goes, and recovery would promote the old one. *)
LEMMA SafeCompactDropNew ==
  ASSUME IInv, CompactDropNew
  PROVE  Safe'
<1>1. /\ pc' = "restore" /\ UNCHANGED <<files, log, index, kv>> /\ RecoverySafe
      /\ Dir["ready"] = NoFile /\ Dir["backup"] = log /\ Holds(log, index)
  BY DEF CompactDropNew, Steady, handle, history, IInv, Safe, Replacing
<1>2. Holds(log, index)' /\ log \in Inodes
  BY <1>1 DEF Holds
<1>3. RecoverySafe' /\ Dir'["backup"] = log'
  <2>1. CASE UNCHANGED dirs
    BY <1>1, <2>1, ReplaceFacts, SafeKept DEF Dir
  <2>2. CASE Remove("main")
    <3>1. DirsOK' /\ Dir' = [Dir EXCEPT !["main"] = NoFile]
      BY <2>2, ReplaceFacts, RemoveStep
    <3>2. Dir' \in Directory /\ Dir'["main"] = NoFile /\ Dir'["ready"] = NoFile /\ Dir'["backup"] = log
      BY <1>1, <3>1, ReplaceFacts DEF Directory
    <3>3. Target(Dir') = log
      BY <3>2, TargetFacts
    <3> QED
      BY <1>1, <1>2, <3>2, <3>3, SafeVia DEF Holds
  <2> QED
    BY <2>1, <2>2 DEF CompactDropNew
<1> QED
  BY <1>1, <1>2, <1>3
     DEF Safe, Recovering, Scanning, Serving, Served, Cleaning, Copying, Copied, Replacing

(* The old log gets its name back, provided that this rename succeeds. *)
LEMMA SafeCompactRestore ==
  ASSUME IInv, CompactRestore, ~RestoreMayFail
  PROVE  Safe'
<1>1. /\ pc' = "reopen" /\ UNCHANGED <<files, log, index, kv>> /\ Rename("backup", "main")
      /\ Dir["backup"] = log /\ Holds(log, index)
  BY DEF CompactRestore, Steady, handle, history, IInv, Safe, Replacing
<1>2. Holds(log, index)' /\ log \in Inodes /\ log # NoFile
  BY <1>1, NoFileAssumption DEF Holds
<1>3. DirsOK' /\ Dir' = [Dir EXCEPT !["main"] = Dir["backup"], !["backup"] = NoFile]
  BY <1>1, ReplaceFacts, RenameStep
<1>4. Dir'["main"] = log /\ Dir' \in Directory
  BY <1>1, <1>3, ReplaceFacts DEF Directory, Dir, DirsOK
<1>5. RecoverySafe'
  BY <1>1, <1>2, <1>4, TargetFacts, SafeVia DEF Holds
<1> QED
  BY <1>1, <1>2, <1>4, <1>5, SafeServed

(* Compact, the reopening of the log on an error path. *)
LEMMA SafeCompactReopenOld ==
  ASSUME IInv, CompactReopenOld
  PROVE  Safe'
<1>1. /\ pc \in {"reopen", "reopenAndDrop"} /\ pc' \in {"open", "dropReady"} /\ UNCHANGED <<index, kv>>
      /\ log = Dir["main"] /\ log \in Inodes /\ log # NoFile
  BY NoFileAssumption DEF CompactReopenOld, Steady, history, IInv, Safe, Serving, Served, Holds
<1>2. dirs' = dirs /\ files' = files /\ Dir' = Dir /\ log' = log /\ DirsOK'
  <2>1. CASE OpenMain
    BY <1>1, <2>1, ReplaceFacts, OpenMainStep DEF Exists
  <2>2. CASE OpenMainFails /\ UNCHANGED handle
    BY <1>1, <2>2, ReplaceFacts, OpenMainFailsStep DEF Exists, handle
  <2> QED
    BY <2>1, <2>2 DEF CompactReopenOld
<1> QED
  BY <1>1, <1>2, MainKept, SafeServed DEF Served

-----------------------------------------------------------------------------
(* The theorems.                                                           *)

(* The invariant holds of a store that has not been opened. *)
LEMMA SafeInit == Init => IInv
<1> SUFFICES ASSUME Init PROVE IInv
  OBVIOUS
<1>1. pc = "down" /\ RecoverySafe
  BY DEF Init, RecoverySafe
<1> QED
  BY <1>1, TypeInit
     DEF IInv, Safe, Recovering, Scanning, Serving, Served, Cleaning, Copying, Copied, Replacing

(* One step per action of the program and of its environment. *)
LEMMA SafeNext ==
  ASSUME ~RestoreMayFail, IInv, [Next]_vars
  PROVE  IInv'
<1>1. TInv'
  BY TypeNext DEF IInv
<1>2. CASE UNCHANGED vars
  <2>1. /\ dirs' = dirs /\ files' = files /\ pc' = pc /\ todo' = todo /\ log' = log
        /\ scan' = scan /\ index' = index /\ newLog' = newLog /\ newIndex' = newIndex /\ kv' = kv
    BY <1>2, Zenon DEF vars, disk, handle, build, history
  <2>2. Dir' = Dir
    BY <2>1, Zenon DEF Dir
  <2>3. RecoverySafe' = RecoverySafe
    BY <2>1, <2>2, Zenon DEF RecoverySafe, Recovered, ContentsAt, RecordsIn
  <2>4. Recovering' = Recovering
    BY <2>1, <2>2, Zenon DEF Recovering, SafePlan
  <2>5. Scanning' = Scanning /\ Cleaning' = Cleaning
    BY <2>1, <2>2, Zenon DEF Scanning, Cleaning
  <2>6. Holds(log, index)' = Holds(log, index) /\ Holds(newLog, newIndex)' = Holds(newLog, newIndex)
    BY <2>1, Zenon DEF Holds
  <2>7. Serving' = Serving /\ Copied' = Copied
    BY <2>1, <2>2, <2>6, Zenon DEF Serving, Copied
  <2>8. Copying' = Copying
    BY <2>1, <2>2, Zenon DEF Copying
  <2>9. Replacing' = Replacing
    BY <2>1, <2>2, <2>6, Zenon DEF Replacing
  <2> QED
    BY <1>1, <2>3, <2>4, <2>5, <2>7, <2>8, <2>9, Zenon DEF IInv, Safe
<1>3. CASE CompactStep
  BY <1>1, <1>3, SafeCompactStart, SafeCompactClean, SafeCompactCreate, SafeCompactCopy,
     SafeCompactSyncNew, SafeCompactPrepare, SafeCompactSyncPrepared, SafeCompactCloseOld,
     SafeCompactBackup, SafeCompactInstall, SafeCompactReopenNew, SafeCompactEnds,
     SafeCompactDropNew, SafeCompactRestore, SafeCompactReopenOld
     DEF CompactStep, IInv
<1>4. CASE Next /\ ~CompactStep
  BY <1>1, <1>4, SafeOpen, SafeRecoverStep, SafeOpenLog, SafeScanRecord, SafeScanEnd, SafePut,
     SafeDelete, SafeSync, SafeClose, SafeCrash, SafePowerFailure
     DEF Next, IInv
<1> QED
  BY <1>2, <1>3, <1>4

(* As long as the rename that undoes a half-done replacement succeeds,     *)
(* Open finds exactly the contents that the Puts and Deletes add up to,    *)
(* whatever call of a compaction or a recovery failed, wherever the        *)
(* process died, and however often (Compact, recoverCompactionArtifacts).  *)
THEOREM RecoveryCorrect ==
  ASSUME ~RestoreMayFail
  PROVE  Spec => []RecoverySafe
<1>1. Init => IInv
  BY SafeInit
<1>2. IInv /\ [Next]_vars => IInv'
  BY SafeNext
<1>3. IInv => RecoverySafe
  BY DEF IInv, Safe
<1> QED
  BY <1>1, <1>2, <1>3, PTL DEF Spec

(* Under the same assumption an idle store with its log open reads, for    *)
(* every key, the current value through its index, and appends to the file *)
(* that is named main: Put, Delete, the recovery scan and both ends of a   *)
(* compaction leave index and log in step.                                 *)
THEOREM ServesCorrect ==
  ASSUME ~RestoreMayFail
  PROVE  Spec => []ServesCurrent
<1>1. Init => IInv
  BY SafeInit
<1>2. IInv /\ [Next]_vars => IInv'
  BY SafeNext
<1>3. IInv => ServesCurrent
  <2> SUFFICES ASSUME IInv, pc = "open" PROVE ServesCurrent
    BY DEF ServesCurrent
  <2> DEFINE recs == files[log].recs
  <2>1. log = Dir["main"] /\ Holds(log, index) /\ FilesOK
    BY TypeParts DEF IInv, TInv, Safe, Serving, Served
  <2>2. recs \in Seq(Record) /\ Len(recs) \in 0..Len(recs)
    BY <2>1, FileType DEF Holds
  <2>3. index = ReplayIndex(recs, Len(recs)) /\ Replay(recs, Len(recs)) = kv
    BY <2>1 DEF Holds
  <2> HIDE DEF recs
  <2>4. \A k \in Keys : kv[k] = IF index[k] = 0 THEN Absent ELSE recs[index[k]].val
    BY <2>2, <2>3, ReplayType
  <2> QED
    BY <2>1, <2>3, <2>4 DEF ServesCurrent, recs
<1> QED
  BY <1>1, <1>2, <1>3, PTL DEF Spec

-----------------------------------------------------------------------------
(* What a power failure may leave.                                         *)

(* File i among the files f, cut anywhere after its last fsync, holds one  *)
(* of the contents in S; so does the lack of a file.                       *)
MayCut(f, S, i) ==
  IF i = NoFile THEN NoContents \in S
  ELSE \A n \in f[i].synced..Len(f[i].recs) : Replay(f[i].recs, n) \in S

(* The places where the new log is a full and durable copy. *)
Full == {"prepare", "prepared", "closeOld", "backup", "install", "reopenNew"}

(* The places where the old log has stepped aside and may still come back. *)
Aside == {"install", "reopenNew", "dropNew", "restore"}

(* Whatever directory a power failure leaves, recovery promotes a file     *)
(* that may be cut: never the log that a compaction is still writing, and  *)
(* not the new log before its fsync.                                       *)
Durable ==
  /\ \A j \in DOMAIN dirs : MayCut(files, since, Target(dirs[j]))
  /\ pc = "copy" => \A j \in DOMAIN dirs : \A n \in {"main", "ready", "backup"} : dirs[j][n] # newLog
  /\ pc \in Full => files[newLog].synced = Len(files[newLog].recs)
  /\ pc \in Aside => MayCut(files, since, log)

(* No record is written and none made durable. *)
SameData == \A i \in Inodes : files'[i].recs = files[i].recs /\ files'[i].synced = files[i].synced

(* The directories of a step are those before it and the current one. *)
DirsGrow == \A j \in DOMAIN dirs' : dirs'[j] = Dir' \/ \E i \in DOMAIN dirs : dirs'[j] = dirs[i]

(* The directories a power failure may leave. *)
LEMMA DirTypes ==
  ASSUME IInv
  PROVE  /\ Dir \in Directory /\ \E j \in DOMAIN dirs : dirs[j] = Dir
         /\ \A j \in DOMAIN dirs : dirs[j] \in Directory /\ Target(dirs[j]) \in Inodes \cup {NoFile}
<1>1. DirsOK
  BY TypeParts DEF IInv, TInv
<1>2. \A j \in DOMAIN dirs : dirs[j] \in Directory
  BY <1>1 DEF DirsOK
<1>3. Len(dirs) \in DOMAIN dirs
  BY <1>1 DEF DirsOK
<1> QED
  BY <1>2, <1>3, TargetFacts DEF Dir

(* The file recovery would promote now may be cut, and holds the contents. *)
LEMMA Promoted ==
  ASSUME IInv, Durable
  PROVE  MayCut(files, since, Target(Dir)) /\ kv \in since
<1>1. MayCut(files, since, Target(Dir)) /\ Target(Dir) \in Inodes \cup {NoFile}
  BY DirTypes DEF Durable
<1>2. FilesOK /\ RecoverySafe
  BY TypeParts DEF IInv, TInv, Safe
<1>3. CASE Target(Dir) = NoFile
  BY <1>1, <1>2, <1>3, SafeHolds DEF MayCut
<1>4. CASE Target(Dir) \in Inodes
  <2>1. /\ files[Target(Dir)].synced \in Nat /\ files[Target(Dir)].recs \in Seq(Record)
        /\ files[Target(Dir)].synced <= Len(files[Target(Dir)].recs)
    BY <1>2, <1>4 DEF FilesOK, File
  <2>2. Target(Dir) # NoFile
    BY <1>4, NoFileAssumption
  <2>3. Len(files[Target(Dir)].recs) \in files[Target(Dir)].synced..Len(files[Target(Dir)].recs)
    BY <2>1
  <2> QED
    BY <1>1, <1>2, <2>2, <2>3, SafeHolds DEF MayCut
<1> QED
  BY <1>1, <1>3, <1>4

(* A file whose records stay may be cut as long as no sync came between. *)
LEMMA MayStillCut ==
  ASSUME NEW i, MayCut(files, since, i), since \subseteq since',
         i = NoFile \/ (files'[i].recs = files[i].recs /\ files'[i].synced = files[i].synced)
  PROVE  MayCut(files', since', i)
  BY DEF MayCut

(* A file that is durable to its end and holds the contents may be cut. *)
LEMMA MayCutFull ==
  ASSUME NEW f, NEW S, NEW i, i # NoFile, f[i].recs \in Seq(Record),
         f[i].synced = Len(f[i].recs), Replay(f[i].recs, Len(f[i].recs)) \in S
  PROVE  MayCut(f, S, i)
<1>1. \A n \in f[i].synced..Len(f[i].recs) : n = Len(f[i].recs)
  OBVIOUS
<1> QED
  BY <1>1 DEF MayCut

(* A step that writes nothing keeps Durable when the file recovery would   *)
(* promote after it may be cut.                                            *)
LEMMA Quiet ==
  ASSUME IInv, Durable, SameData, since' = since, DirsGrow,
         Dir' \in Directory, MayCut(files, since, Target(Dir')),
         pc' # "copy", pc' \in Full => pc \in Full /\ newLog' = newLog /\ newLog \in Inodes,
         pc' \in Aside => MayCut(files, since, log') /\ log' \in Inodes
  PROVE  Durable'
<1>1. \A i \in Inodes \cup {NoFile} : MayCut(files, since, i) => MayCut(files', since', i)
  BY MayStillCut DEF SameData
<1>2. ASSUME NEW j \in DOMAIN dirs' PROVE MayCut(files', since', Target(dirs'[j]))
  <2>1. CASE dirs'[j] = Dir'
    BY <1>1, <2>1, TargetFacts
  <2>2. CASE \E i \in DOMAIN dirs : dirs'[j] = dirs[i]
    BY <1>1, <2>2, DirTypes DEF Durable
  <2> QED
    BY <2>1, <2>2 DEF DirsGrow
<1>3. pc' \in Full => files'[newLog'].synced = Len(files'[newLog'].recs)
  BY DEF Durable, SameData
<1>4. pc' \in Aside => MayCut(files', since', log')
  BY <1>1
<1> QED
  BY <1>2, <1>3, <1>4 DEF Durable

(* After a step, too, the current directory is one. *)
LEMMA DirTypeAfter ==
  ASSUME IInv'
  PROVE  Dir' \in Directory /\ DirsOK' /\ FilesOK'
<1>1. DirsOK' /\ FilesOK'
  BY DEF IInv, TInv, TypeOK, DirsOK, FilesOK
<1> QED
  BY <1>1 DEF DirsOK, Dir

(* Every step adds the directory it makes, or forgets some. *)
LEMMA DirsStep ==
  ASSUME IInv, Next
  PROVE  DirsGrow
<1>1. DirsOK /\ FilesOK /\ Dir \in Directory /\ faults \in 0..MaxFaults /\ todo \in Seq(Ops)
  BY TypeParts, DirType DEF IInv, TInv, TypeOK
<1>2. Names = {"main", "temp", "ready", "backup"}
  BY DEF Names
<1>3. ASSUME UNCHANGED dirs PROVE DirsGrow
  BY <1>3 DEF DirsGrow
<1>4. ASSUME NEW n \in Names, FailsAndDrops(n) \/ Remove(n) PROVE DirsGrow
  BY <1>1, <1>4, DropStep, RemoveStep DEF DirsGrow
<1>5. ASSUME NEW m \in Names, NEW n \in Names, Rename(m, n) PROVE DirsGrow
  BY <1>1, <1>5, RenameStep DEF DirsGrow
<1>6. ASSUME NEW n \in Names, NEW i, Create(i, n) PROVE DirsGrow
  BY <1>1, <1>6, CreateStep DEF DirsGrow
<1>7. ASSUME dirs' = <<Dir>> PROVE DirsGrow
  BY <1>1, <1>7, SyncDirectoryStep DEF DirsGrow
<1>8. ASSUME OpenMain \/ OpenMainFails PROVE DirsGrow
  BY <1>2, <1>3, <1>6, <1>8 DEF OpenMain, OpenMainFails, disk
<1>9. ASSUME todo # <<>>, Perform(Head(todo)) PROVE DirsGrow
  <2>1. Head(todo) \in Ops
    BY <1>1, <1>9
  <2> QED
    BY <1>1, <1>9, <2>1, PerformStep DEF DirsGrow
<1>10. ASSUME NEW i, Fsync(i) PROVE DirsGrow
  BY <1>3, <1>7, <1>10 DEF Fsync
<1>11. ASSUME SyncLog PROVE DirsGrow
  BY <1>3, <1>10, <1>11 DEF SyncLog, disk
<1>12. CASE Open \/ ScanRecord \/ ScanEnd \/ Crash \/ CompactStart \/ CompactCloseOld
  BY <1>3, <1>12 DEF Open, ScanRecord, ScanEnd, Crash, CompactStart, CompactCloseOld, disk
<1>13. CASE RecoverStep \/ CompactClean
  BY <1>3, <1>9, <1>13 DEF RecoverStep, CompactClean
<1>14. CASE OpenLog \/ CompactReopenNew \/ CompactReopenOld
  BY <1>8, <1>14 DEF OpenLog, CompactReopenNew, CompactReopenOld
<1>15. CASE (\E k \in Keys, v \in Values : Put(k, v)) \/ (\E k \in Keys : Delete(k))
  BY <1>3, <1>15 DEF Put, Delete, Mutate
<1>16. CASE SyncMutation \/ Sync \/ Close
  BY <1>3, <1>11, <1>16 DEF SyncMutation, Sync, Close, disk
<1>17. CASE CompactCreate
  BY <1>2, <1>3, <1>6, <1>17 DEF CompactCreate, disk
<1>18. CASE CompactCopy
  BY <1>2, <1>3, <1>4, <1>18 DEF CompactCopy, CopyRecord, CopyFails
<1>19. CASE CompactSyncNew \/ CompactPrepare \/ CompactSyncPrepared
  BY <1>2, <1>4, <1>5, <1>7, <1>10, <1>19
     DEF CompactSyncNew, CompactPrepare, CompactSyncPrepared, SyncDirectory
<1>20. CASE CompactBackup \/ CompactInstall \/ CompactRestore
  BY <1>2, <1>3, <1>5, <1>20 DEF CompactBackup, CompactInstall, CompactRestore
<1>21. CASE CompactDropBackup \/ CompactDropNew \/ CompactDropReady \/ CompactSyncInstalled
  BY <1>2, <1>3, <1>4, <1>7, <1>21
     DEF CompactDropBackup, CompactDropNew, CompactDropReady, CompactSyncInstalled, SyncDirectory
<1>22. CASE PowerFailure
  <2>1. PICK j \in DOMAIN dirs : Leaves(dirs[j], Target(dirs[j]))
    BY <1>22, PowerStep DEF IInv, TInv
  <2>2. dirs' = <<dirs[j]>>
    BY <2>1 DEF Leaves
  <2> QED
    BY <2>2 DEF DirsGrow
<1> QED
  BY <1>12, <1>13, <1>14, <1>15, <1>16, <1>17, <1>18, <1>19, <1>20, <1>21, <1>22 DEF Next, CompactStep

(* While the store serves its log, recovery would promote that log. *)
LEMMA ServedTarget ==
  ASSUME IInv, pc \in Served
  PROVE  log \in Inodes /\ Target(Dir) = log
<1>1. log = Dir["main"] /\ log \in Inodes /\ log # NoFile
  BY NoFileAssumption DEF IInv, Safe, Serving, Holds
<1> QED
  BY <1>1, DirTypes, TargetFacts

(* And so after a step. *)
LEMMA ServedTargetAfter ==
  ASSUME IInv', pc' \in Served
  PROVE  log' \in Inodes /\ Target(Dir') = log'
<1>1. log' = Dir'["main"] /\ log' \in Inodes /\ log' # NoFile
  BY NoFileAssumption DEF IInv, Safe, Serving, Holds
<1> QED
  BY <1>1, DirTypeAfter, TargetFacts

(* A step of the compaction that leaves the log serving and writes nothing. *)
LEMMA ServedQuiet ==
  ASSUME IInv, Durable, Next, IInv', pc \in Served, pc' \in Served \ {"copy"},
         UNCHANGED <<log, files, since>>,
         pc' \in Full => pc \in Full /\ newLog' = newLog
  PROVE  Durable'
<1>1. Target(Dir') = Target(Dir) /\ Dir' \in Directory /\ DirsGrow
  BY ServedTarget, ServedTargetAfter, DirTypeAfter, DirsStep
<1>2. MayCut(files, since, Target(Dir')) /\ SameData
  BY <1>1, Promoted DEF SameData
<1>3. pc' # "copy" /\ pc' \notin Aside
  BY DEF Served, Aside
<1>4. pc \in Full => newLog \in Inodes
  BY DEF IInv, Safe, Copied, Full, Holds
<1> QED
  BY <1>1, <1>2, <1>3, <1>4, Quiet

(* A step that leaves the directory and the records, to a place outside of *)
(* a replacement.                                                          *)
LEMMA DirsQuiet ==
  ASSUME IInv, Durable, UNCHANGED <<dirs, since>>, SameData, pc' \notin Full \cup Aside \cup {"copy"}
  PROVE  Durable'
<1>1. Dir' = Dir /\ DirsGrow
  BY DEF Dir, DirsGrow
<1> QED
  BY <1>1, DirTypes, Promoted, Quiet

(* Setting or clearing the torn mark of a file changes no record. *)
LEMMA TornStep ==
  ASSUME FilesOK, NEW i \in Inodes, NEW b, files' = [files EXCEPT ![i].torn = b]
  PROVE  SameData
<1>1. files[i] \in File /\ files'[i] = [files[i] EXCEPT !.torn = b]
  BY DEF FilesOK
<1>2. files'[i].recs = files[i].recs /\ files'[i].synced = files[i].synced
  BY <1>1 DEF File
<1>3. \A j \in Inodes : j # i => files'[j] = files[j]
  BY DEF FilesOK
<1> QED
  BY <1>2, <1>3 DEF SameData

(* Opening, scanning and dying write no record. *)
LEMMA DurableOpen ==
  ASSUME IInv, Durable, Next, IInv', Open \/ RecoverStep \/ ScanRecord \/ ScanEnd \/ Crash
  PROVE  Durable'
<1>1. FilesOK /\ log \in Inodes \cup {NoFile} /\ newLog \in Inodes \cup {NoFile}
  BY TypeParts DEF IInv, TInv, TypeOK
<1>2. CASE Open \/ ScanRecord
  <2>1. UNCHANGED <<dirs, files, since>> /\ pc' \in {"recover", "scan", "down"}
    BY <1>2 DEF Open, ScanRecord, disk, history
  <2> QED
    BY <2>1, DirsQuiet DEF SameData, Full, Aside
<1>3. CASE RecoverStep
  <2>1. UNCHANGED <<files, since>> /\ Target(Dir') = Target(Dir) /\ pc' \in {"recover", "down"}
    BY <1>3, RecoverKeeps DEF RecoverStep, history
  <2>2. MayCut(files, since, Target(Dir')) /\ SameData /\ Dir' \in Directory /\ DirsGrow
    BY <2>1, Promoted, DirTypeAfter, DirsStep DEF SameData
  <2> QED
    BY <2>1, <2>2, Quiet DEF Full, Aside
<1>4. CASE ScanEnd
  <2>1. UNCHANGED <<dirs, since>> /\ pc' \in {"open", "down"} /\ log \in Inodes
    BY <1>4 DEF ScanEnd, history, IInv, TInv
  <2>2. SameData
    <3>1. CASE files' = files
      BY <3>1 DEF SameData
    <3> QED
      BY <1>1, <1>4, <2>1, <3>1, TornStep DEF ScanEnd
  <2> QED
    BY <2>1, <2>2, DirsQuiet DEF Full, Aside
<1>5. CASE Crash
  <2>1. UNCHANGED <<dirs, since>> /\ pc' = "down"
    BY <1>5 DEF Crash, history
  <2>2. Writing \subseteq Inodes
    BY DEF Writing, IInv, TInv
  <2>3. SameData
    <3>1. CASE UNCHANGED files
      BY <3>1 DEF SameData
    <3> QED
      BY <1>1, <1>5, <2>2, <3>1, TornStep DEF Crash
  <2> QED
    BY <2>1, <2>3, DirsQuiet DEF Full, Aside
<1> QED
  BY <1>2, <1>3, <1>4, <1>5

(* An empty file under a name where there was none may be cut to nothing. *)
LEMMA FreshMain ==
  ASSUME IInv, Durable, IInv', NEW i, Create(i, "main"), Target(Dir) = NoFile, since' = since, DirsGrow,
         pc' = "scan" \/ pc' = "down"
  PROVE  Durable'
<1>1. DirsOK /\ FilesOK /\ "main" \in Names /\ Dir \in Directory
  BY TypeParts, DirTypes DEF IInv, TInv, Names
<1>2. /\ Dir' = [Dir EXCEPT !["main"] = i] /\ i \in Inodes
      /\ files' = [files EXCEPT ![i] = EmptyFile]
  BY <1>1, CreateStep
<1>3. i # NoFile /\ Dir'["main"] = i /\ Dir' \in Directory
  BY <1>1, <1>2, NoFileAssumption DEF Directory
<1>4. Target(Dir') = i
  BY <1>3, TargetFacts
<1>5. NoContents \in since
  BY Promoted DEF MayCut
<1>6. files'[i].recs = <<>> /\ files'[i].synced = 0 /\ files'[i].recs \in Seq(Record) /\ Len(files'[i].recs) = 0
  BY <1>1, <1>2 DEF EmptyFile, FilesOK
<1>7. MayCut(files', since', i)
  BY <1>3, <1>5, <1>6, ReplayEmpty, MayCutFull
<1>8. ASSUME NEW j \in DOMAIN dirs PROVE MayCut(files', since', Target(dirs[j]))
  <2>1. \A n \in Names : dirs[j][n] # i
    BY DEF Create, Free
  <2>2. Target(dirs[j]) # i
    BY <2>1 DEF Target, Names
  <2>3. Target(dirs[j]) \in Inodes \cup {NoFile} /\ MayCut(files, since, Target(dirs[j]))
    BY DirTypes DEF Durable
  <2>4. Target(dirs[j]) \in Inodes => files'[Target(dirs[j])] = files[Target(dirs[j])]
    BY <1>1, <1>2, <2>2 DEF FilesOK
  <2> QED
    BY <2>3, <2>4, MayStillCut
<1>9. \A j \in DOMAIN dirs' : MayCut(files', since', Target(dirs'[j]))
  BY <1>4, <1>7, <1>8 DEF DirsGrow
<1> QED
  BY <1>9 DEF Durable, Full, Aside

(* openAppendLog, when it finds the main name or makes it. *)
LEMMA DurableOpenLog ==
  ASSUME IInv, Durable, Next, IInv', OpenLog
  PROVE  Durable'
<1>1. DirsOK /\ FilesOK /\ since' = since /\ pc' \in {"scan", "down"} /\ DirsGrow
  BY TypeParts, DirsStep DEF IInv, TInv, OpenLog, history
<1>2. Exists("main") \/ Target(Dir) = NoFile
  BY DEF IInv, Safe, Recovering, OpenLog, SafePlan, Exists
<1>3. CASE dirs' = dirs /\ files' = files
  BY <1>1, <1>3, DirsQuiet DEF SameData, Full, Aside
<1>4. ASSUME NEW i, ~Exists("main"), Create(i, "main") PROVE Durable'
  BY <1>1, <1>2, <1>4, FreshMain
<1> QED
  BY <1>1, <1>3, <1>4 DEF OpenLog, OpenMain, OpenMainFails, disk

(* The steps of a compaction that leave every file as it is and the log    *)
(* under the main name.                                                    *)
LEMMA DurableServed ==
  ASSUME IInv, Durable, Next, IInv',
         \/ CompactStart \/ CompactClean \/ CompactPrepare \/ CompactSyncPrepared \/ CompactCloseOld
         \/ CompactDropBackup \/ CompactSyncInstalled \/ CompactDropReady
  PROVE  Durable'
<1>1. /\ pc \in Served /\ pc' \in Served \ {"copy"} /\ UNCHANGED <<log, files, since>>
      /\ pc' \in Full => pc \in Full /\ newLog' = newLog
  BY DEF CompactStart, CompactClean, CompactPrepare, CompactSyncPrepared, CompactCloseOld,
         CompactDropBackup, CompactSyncInstalled, CompactDropReady,
         Steady, history, handle, disk, build, Served, Full
<1> QED
  BY <1>1, ServedQuiet

(* The old log is opened again. *)
LEMMA DurableReopenOld ==
  ASSUME IInv, Durable, Next, IInv', CompactReopenOld
  PROVE  Durable'
<1>1. pc \in Served /\ pc' \in {"open", "dropReady"} /\ since' = since
  BY DEF CompactReopenOld, Served, Steady, history
<1>2. log \in Inodes /\ log = Dir["main"] /\ log # NoFile
  BY <1>1, NoFileAssumption DEF IInv, Safe, Serving, Holds
<1>3. UNCHANGED <<log, files>>
  BY <1>2 DEF CompactReopenOld, OpenMain, OpenMainFails, Exists, handle, disk
<1> QED
  BY <1>1, <1>3, ServedQuiet DEF Served, Full

(* The places of a replacement, and the file recovery would promote there. *)
LEMMA AsideFacts ==
  ASSUME IInv, Durable, pc \in Aside
  PROVE  /\ log \in Inodes /\ MayCut(files, since, log) /\ Dir["backup"] = log
         /\ MayCut(files, since, Target(Dir))
         /\ pc \in {"install", "reopenNew"} => newLog \in Inodes
  BY Promoted DEF Durable, IInv, Safe, Replacing, Copied, Holds, Aside

(* The replacement: the main name goes from the old log to the new one, or *)
(* back, and both may be cut.                                              *)
LEMMA DurableReplace ==
  ASSUME IInv, Durable, Next, IInv',
         \/ CompactBackup \/ CompactInstall \/ CompactReopenNew \/ CompactDropNew \/ CompactRestore,
         ~RestoreMayFail
  PROVE  Durable'
<1>1. Dir' \in Directory /\ DirsGrow /\ DirsOK /\ FilesOK /\ Dir \in Directory
  BY DirTypeAfter, DirsStep, TypeParts, DirTypes DEF IInv, TInv
<1>2. ASSUME UNCHANGED files PROVE SameData
  BY <1>2 DEF SameData
<1>3. CASE CompactBackup
  <2>1. pc = "backup" /\ UNCHANGED <<files, since, log, newLog>> /\ pc' \in {"install", "reopenAndDrop"}
    BY <1>3 DEF CompactBackup, Steady, history, handle, build
  <2>2. CASE pc' = "reopenAndDrop"
    BY <2>1, <2>2, ServedQuiet DEF Served, Full
  <2>3. CASE pc' = "install"
    <3>1. Target(Dir') = newLog
      <4>1. Dir'["main"] = NoFile /\ Dir'["ready"] = newLog
        BY <2>1, <2>3 DEF IInv, Safe, Replacing
      <4>2. newLog \in Inodes /\ newLog # NoFile
        BY <2>1, NoFileAssumption DEF IInv, Safe, Copied, Holds
      <4> QED
        BY <1>1, <4>1, <4>2, TargetFacts
    <3>2. newLog \in Inodes /\ newLog # NoFile /\ Replay(files[newLog].recs, Len(files[newLog].recs)) = kv
      BY <2>1, NoFileAssumption DEF IInv, Safe, Copied, Holds
    <3>3. files[newLog].recs \in Seq(Record) /\ files[newLog].synced = Len(files[newLog].recs)
      BY <1>1, <2>1, <3>2, FileType DEF Durable, Full
    <3>4. MayCut(files, since, Target(Dir'))
      BY <3>1, <3>2, <3>3, Promoted, MayCutFull
    <3>5. log \in Inodes /\ MayCut(files, since, log)
      BY <2>1, ServedTarget, Promoted DEF Served
    <3> QED
      BY <1>1, <1>2, <2>1, <2>3, <3>2, <3>4, <3>5, Quiet DEF Full
  <2> QED
    BY <2>1, <2>2, <2>3
<1>4. CASE CompactInstall
  <2>1. pc = "install" /\ UNCHANGED <<files, since, log, newLog>>
    BY <1>4 DEF CompactInstall, Steady, history, handle, build
  <2>2. pc \in Aside /\ pc \in Full
    BY <2>1 DEF Aside, Full
  <2>3. Target(Dir) = newLog /\ newLog # NoFile /\ newLog \in Inodes
    BY <1>1, <2>1, TargetFacts, NoFileAssumption DEF IInv, Safe, Replacing, Copied, Holds
  <2>4. CASE pc' = "reopenNew"
    <3>1. Dir'["main"] = newLog
      BY <2>1, <2>4 DEF IInv, Safe, Replacing
    <3>2. Target(Dir') = newLog
      BY <1>1, <2>3, <3>1, TargetFacts
    <3> QED
      BY <1>1, <1>2, <2>1, <2>2, <2>3, <2>4, <3>2, AsideFacts, Quiet
  <2>5. CASE pc' = "restore" /\ UNCHANGED dirs
    <3>1. Dir' = Dir
      BY <2>5 DEF Dir
    <3> QED
      BY <1>1, <1>2, <2>1, <2>2, <2>5, <3>1, AsideFacts, Quiet DEF Full
  <2> QED
    BY <1>4, <2>4, <2>5 DEF CompactInstall
<1>5. CASE CompactReopenNew
  <2>1. pc = "reopenNew" /\ since' = since /\ Exists("main") /\ pc \in Aside
    BY <1>5 DEF CompactReopenNew, Steady, history, IInv, Safe, Replacing, Exists, Aside
  <2>2. UNCHANGED <<dirs, files>> /\ Dir' = Dir
    BY <1>5, <2>1 DEF CompactReopenNew, OpenMain, OpenMainFails, disk, Dir
  <2>3. CASE pc' = "dropBackup"
    BY <1>2, <2>1, <2>2, <2>3, DirsQuiet DEF Full, Aside
  <2>4. CASE pc' = "dropNew" /\ UNCHANGED log
    BY <1>1, <1>2, <2>1, <2>2, <2>4, AsideFacts, Quiet DEF Full
  <2> QED
    BY <1>5, <2>3, <2>4 DEF CompactReopenNew, handle
<1>6. CASE CompactDropNew
  <2>1. pc = "dropNew" /\ pc \in Aside /\ UNCHANGED <<files, since, log>> /\ pc' = "restore"
    BY <1>6 DEF CompactDropNew, Steady, history, handle, Aside
  <2>2. Dir["ready"] = NoFile /\ "main" \in Names
    BY <2>1 DEF IInv, Safe, Replacing, Names
  <2>3. CASE Remove("main")
    <3>1. Dir' = [Dir EXCEPT !["main"] = NoFile]
      BY <1>1, <2>2, <2>3, RemoveStep
    <3>2. Dir'["main"] = NoFile /\ Dir'["ready"] = NoFile /\ Dir'["backup"] = log
      BY <1>1, <2>1, <2>2, <3>1, AsideFacts DEF Directory, Names
    <3>3. Target(Dir') = log
      BY <1>1, <3>2, TargetFacts
    <3> QED
      BY <1>1, <1>2, <2>1, <3>3, AsideFacts, Quiet DEF Full
  <2>4. CASE UNCHANGED dirs
    <3>1. Dir' = Dir
      BY <2>4 DEF Dir
    <3> QED
      BY <1>1, <1>2, <2>1, <3>1, AsideFacts, Quiet DEF Full
  <2> QED
    BY <1>6, <2>3, <2>4 DEF CompactDropNew
<1>7. CASE CompactRestore
  <2>1. pc = "restore" /\ pc \in Aside /\ UNCHANGED <<files, since, log>> /\ pc' = "reopen"
    BY <1>7 DEF CompactRestore, Steady, history, handle, Aside
  <2>2. Target(Dir') = log
    BY <2>1, ServedTargetAfter DEF Served
  <2> QED
    BY <1>1, <1>2, <2>1, <2>2, AsideFacts, Quiet DEF Full, Aside
<1> QED
  BY <1>3, <1>4, <1>5, <1>6, <1>7

(* A step that touches one file, which no directory promotes, and leaves   *)
(* the current directory's choice.                                         *)
LEMMA OtherFile ==
  ASSUME IInv, Durable, since' = since, DirsGrow, Target(Dir') = Target(Dir), NEW f,
         \A i \in Inodes : i # f => files'[i] = files[i],
         \A j \in DOMAIN dirs : Target(dirs[j]) # f
  PROVE  \A j \in DOMAIN dirs' : MayCut(files', since', Target(dirs'[j]))
<1>1. ASSUME NEW j \in DOMAIN dirs PROVE MayCut(files', since', Target(dirs[j]))
  <2>1. Target(dirs[j]) \in Inodes \cup {NoFile} /\ MayCut(files, since, Target(dirs[j]))
    BY DirTypes DEF Durable
  <2>2. Target(dirs[j]) \in Inodes => files'[Target(dirs[j])] = files[Target(dirs[j])]
    BY <2>1
  <2> QED
    BY <2>1, <2>2, MayStillCut
<1>2. MayCut(files', since', Target(Dir'))
  BY <1>1, DirTypes
<1> QED
  BY <1>1, <1>2 DEF DirsGrow

(* Put and Delete: a cut of the log may keep the new record or lose it. *)
LEMMA DurableMutate ==
  ASSUME IInv, Durable, IInv', NEW r \in Record, NEW place, Mutate(r, place)
  PROVE  Durable'
<1>1. /\ pc = "open" /\ files' = AppendTo(log, r) /\ dirs' = dirs /\ log' = log
      /\ since' = since \cup {kv'} /\ pc' \in {"open", "sync"}
  BY DEF Mutate, handle
<1>2. FilesOK /\ log \in Inodes /\ log # NoFile /\ files[log].recs \in Seq(Record)
  BY <1>1, TypeParts, ServedTarget, FileType, NoFileAssumption DEF IInv, TInv, Served
<1>3. /\ files'[log].recs = Append(files[log].recs, r) /\ files'[log].synced = files[log].synced
      /\ Len(files'[log].recs) = Len(files[log].recs) + 1
      /\ \A j \in Inodes : j # log => files'[j] = files[j]
  BY <1>1, <1>2, AppendStep
<1>4. Replay(files'[log].recs, Len(files'[log].recs)) = kv'
  BY <1>1 DEF IInv, Safe, Serving, Served, Holds
<1>5. ASSUME MayCut(files, since, log) PROVE MayCut(files', since', log)
  <2>1. ASSUME NEW n \in files'[log].synced..Len(files'[log].recs)
        PROVE  Replay(files'[log].recs, n) \in since'
    <3>1. files[log].synced \in Nat /\ Len(files[log].recs) \in Nat
      BY <1>2 DEF FilesOK, File
    <3>2. n = Len(files'[log].recs) \/ n \in files[log].synced..Len(files[log].recs)
      BY <1>3, <2>1, <3>1
    <3>3. CASE n = Len(files'[log].recs)
      BY <1>1, <1>4, <3>3
    <3>4. CASE n \in files[log].synced..Len(files[log].recs)
      <4>1. n \in 0..Len(files[log].recs) /\ Replay(files[log].recs, n) \in since
        <5>1. \A m \in files[log].synced..Len(files[log].recs) : Replay(files[log].recs, m) \in since
          BY <1>2, <1>5 DEF MayCut
        <5>2. Replay(files[log].recs, n) \in since
          BY <3>4, <5>1
        <5> QED
          BY <3>1, <3>4, <5>2
      <4>2. Replay(files'[log].recs, n) = Replay(files[log].recs, n)
        <5>1. \A m \in 0..Len(files[log].recs) :
                Replay(Append(files[log].recs, r), m) = Replay(files[log].recs, m)
          BY <1>2, ReplayAppend
        <5> QED
          BY <1>3, <4>1, <5>1, Zenon
      <4> QED
        BY <1>1, <4>1, <4>2
    <3> QED
      BY <3>2, <3>3, <3>4
  <2> QED
    BY <1>2, <2>1 DEF MayCut
<1>6. ASSUME NEW j \in DOMAIN dirs PROVE MayCut(files', since', Target(dirs[j]))
  <2>1. Target(dirs[j]) \in Inodes \cup {NoFile} /\ MayCut(files, since, Target(dirs[j]))
    BY DirTypes DEF Durable
  <2>2. CASE Target(dirs[j]) = log
    BY <1>5, <2>1, <2>2
  <2>3. CASE Target(dirs[j]) # log
    BY <1>1, <1>3, <2>1, <2>3, MayStillCut
  <2> QED
    BY <2>2, <2>3
<1> QED
  BY <1>1, <1>6 DEF Durable, Full, Aside

(* A log that is synchronized to its end survives, and the directory with  *)
(* it.                                                                     *)
LEMMA DurableSync ==
  ASSUME IInv, Durable, Next, SyncMutation \/ Sync \/ Close, FsyncCommitsDirectory
  PROVE  Durable'
<1>1. pc \in Served /\ pc' \in {"open", "down"} /\ kv' = kv
  BY DEF SyncMutation, Sync, Close, Served
<1>2. FilesOK /\ DirsOK /\ log \in Inodes /\ log # NoFile /\ Target(Dir) = log
  BY <1>1, TypeParts, ServedTarget, NoFileAssumption DEF IInv, TInv
<1>3. CASE UNCHANGED <<dirs, files, since>>
  BY <1>1, <1>3, DirsQuiet DEF SameData, Full, Aside
<1>4. CASE Fsync(log) /\ since' = {kv}
  <2>1. /\ dirs' = <<Dir>> /\ files'[log].recs = files[log].recs
        /\ files'[log].synced = Len(files'[log].recs)
    BY <1>2, <1>4, FsyncStep
  <2>2. files'[log].recs \in Seq(Record) /\ Replay(files'[log].recs, Len(files'[log].recs)) = kv
    BY <1>1, <1>2, <2>1, FileType DEF IInv, Safe, Serving, Holds
  <2>3. MayCut(files', since', log)
    BY <1>2, <1>4, <2>1, <2>2, MayCutFull
  <2>4. \A j \in DOMAIN dirs' : dirs'[j] = Dir
    BY <2>1
  <2> QED
    BY <1>1, <1>2, <2>3, <2>4 DEF Durable, Full, Aside
<1> QED
  BY <1>3, <1>4 DEF SyncMutation, Sync, Close, SyncLog, disk

(* A power failure leaves one directory, and the file it promotes durable. *)
LEMMA DurablePowerFailure ==
  ASSUME IInv, PowerFailure
  PROVE  Durable'
<1>1. pc' = "down" /\ since' = {kv'}
  BY DEF PowerFailure
<1>2. PICK j \in DOMAIN dirs : Leaves(dirs[j], Target(dirs[j]))
  BY PowerStep DEF IInv, TInv
<1>3. dirs' = <<dirs[j]>> /\ FilesOK'
  BY <1>2 DEF Leaves
<1>4. MayCut(files', since', Target(dirs[j]))
  <2>1. CASE Target(dirs[j]) = NoFile
    BY <1>1, <1>2, <2>1 DEF Leaves, MayCut
  <2>2. CASE Target(dirs[j]) # NoFile
    <3>1. files'[Target(dirs[j])].recs \in Seq(Record)
      BY <1>2, <1>3, <2>2 DEF Leaves, FilesOK, File
    <3> QED
      BY <1>1, <1>2, <2>2, <3>1, MayCutFull DEF Leaves
  <2> QED
    BY <2>1, <2>2
<1>5. \A i \in DOMAIN dirs' : dirs'[i] = dirs[j]
  BY <1>3
<1>6. \A i \in DOMAIN dirs' : MayCut(files', since', Target(dirs'[i]))
  BY <1>4, <1>5
<1>7. pc' # "copy" /\ pc' \notin Full /\ pc' \notin Aside
  BY <1>1 DEF Full, Aside
<1> QED
  BY <1>6, <1>7 DEF Durable

(* CompactCreate: the temporary file is promoted by no directory. *)
LEMMA DurableCreate ==
  ASSUME IInv, Durable, Next, IInv', CompactCreate
  PROVE  Durable'
<1>1. pc \in Served /\ pc' \in {"open", "copy"} /\ pc' \in Served /\ log' = log /\ since' = since
  BY DEF CompactCreate, Served, handle, Steady, history
<1>2. FilesOK /\ DirsOK /\ "temp" \in Names /\ Dir \in Directory /\ DirsGrow /\ Target(Dir') = Target(Dir)
  BY <1>1, TypeParts, DirTypes, DirsStep, ServedTarget, ServedTargetAfter DEF IInv, TInv, Names
<1>3. CASE pc' = "open" /\ UNCHANGED disk
  BY <1>1, <1>3, DirsQuiet DEF SameData, Full, Aside, disk
<1>4. ASSUME NEW i \in Free, Create(i, "temp"), pc' = "copy" => newLog' = i PROVE Durable'
  <2>1. /\ Dir' = [Dir EXCEPT !["temp"] = i] /\ i \in Inodes
        /\ files' = [files EXCEPT ![i] = EmptyFile]
        /\ \A j \in DOMAIN dirs : \A m \in Names : dirs[j][m] # i
    BY <1>2, <1>4, CreateStep
  <2>2. \A j \in Inodes : j # i => files'[j] = files[j]
    BY <1>2, <2>1 DEF FilesOK
  <2>3. \A j \in DOMAIN dirs : Target(dirs[j]) # i
    BY <2>1 DEF Target, Names
  <2>4. \A j \in DOMAIN dirs' : MayCut(files', since', Target(dirs'[j]))
    BY <1>1, <1>2, <2>2, <2>3, OtherFile
  <2>5. \A n \in {"main", "ready", "backup"} : Dir'[n] # i
    <3>1. \A n \in {"main", "ready", "backup"} : Dir[n] # i
      BY <2>1, DirTypes DEF Names
    <3> QED
      BY <1>2, <2>1, <3>1 DEF Directory, Names
  <2>6. \A j \in DOMAIN dirs' : \A n \in {"main", "ready", "backup"} : dirs'[j][n] # i
    BY <1>2, <2>1, <2>5 DEF DirsGrow, Names
  <2> QED
    BY <1>1, <1>4, <2>4, <2>6 DEF Durable, Full, Aside
<1> QED
  BY <1>1, <1>3, <1>4 DEF CompactCreate

(* The log that a compaction writes, and not yet the directory's choice. *)
LEMMA CopyTargets ==
  ASSUME IInv, Durable, pc = "copy"
  PROVE  /\ newLog \in Inodes /\ newLog # log
         /\ \A j \in DOMAIN dirs : Target(dirs[j]) # newLog
  BY DEF IInv, Safe, Copying, Durable, Target

(* One more record of the copy. *)
LEMMA DurableCopy ==
  ASSUME IInv, Durable, Next, IInv', CompactCopy
  PROVE  Durable'
<1>1. pc = "copy" /\ pc \in Served /\ UNCHANGED <<log, newLog, since>>
  BY DEF CompactCopy, Served, handle, Steady, history
<1>2. CASE \E k \in Keys : CopyFails(k)
  BY <1>1, <1>2, ServedQuiet DEF CopyFails, Served, Full
<1>3. ASSUME NEW k \in Keys, CopyRecord(k) PROVE Durable'
  <2>1. UNCHANGED dirs /\ pc' = "copy" /\ Dir' = Dir
    BY <1>1, <1>3 DEF CopyRecord, Dir
  <2>2. \A j \in Inodes : j # newLog => files'[j] = files[j]
    BY <1>3, TypeParts DEF CopyRecord, AppendTo, IInv, TInv, FilesOK
  <2>3. \A j \in DOMAIN dirs' : MayCut(files', since', Target(dirs'[j]))
    BY <1>1, <2>1, <2>2, CopyTargets, DirsStep, OtherFile
  <2> QED
    BY <1>1, <2>1, <2>3 DEF Durable, Full, Aside
<1> QED
  BY <1>2, <1>3 DEF CompactCopy, Uncopied

(* The new log is complete before any directory promotes it. *)
LEMMA DurableSyncNew ==
  ASSUME IInv, Durable, Next, IInv', CompactSyncNew
  PROVE  Durable'
<1>1. pc = "copy" /\ pc \in Served /\ UNCHANGED <<log, newLog, since>>
  BY DEF CompactSyncNew, Served, handle, build, Steady, history
<1>2. CASE UNCHANGED files /\ pc' = "open"
  BY <1>1, <1>2, ServedQuiet DEF Served, Full
<1>3. CASE Fsync(newLog) /\ pc' = "prepare"
  <2>1. FilesOK /\ DirsOK /\ newLog \in Inodes
    BY <1>1, TypeParts, CopyTargets DEF IInv, TInv
  <2>2. /\ Dir' = Dir /\ files'[newLog].synced = Len(files'[newLog].recs)
        /\ \A j \in Inodes : j # newLog => files'[j] = files[j]
    BY <1>3, <2>1, FsyncStep
  <2>3. \A j \in DOMAIN dirs' : MayCut(files', since', Target(dirs'[j]))
    BY <1>1, <2>2, CopyTargets, DirsStep, OtherFile
  <2> QED
    BY <1>1, <1>3, <2>2, <2>3 DEF Durable, Full, Aside
<1> QED
  BY <1>2, <1>3 DEF CompactSyncNew

-----------------------------------------------------------------------------
(* What the theorems rest on.                                              *)

DInv == IInv /\ Durable

(* The first directory is the only one, and its log is durable. *)
LEMMA DurableInit == Init => Durable
<1> SUFFICES ASSUME Init PROVE Durable
  OBVIOUS
<1>1. IInv /\ pc = "down" /\ kv = Recovered /\ since = {kv}
  BY SafeInit DEF Init
<1>2. FilesOK
  BY <1>1, TypeParts DEF IInv, TInv
<1>3. PICK d \in Directory : dirs = <<d>>
  <2>1. NoNames \in Directory /\ \A i \in ReadOnlyFiles : [NoNames EXCEPT !["main"] = i] \in Directory
    BY ReadOnlyAssumption DEF NoNames, Directory, Names
  <2> QED
    BY <2>1 DEF Init, InitDisk
<1>4. Dir = d /\ Target(d) \in Inodes \cup {NoFile} /\ \A j \in DOMAIN dirs : dirs[j] = d
  BY <1>3, TargetFacts DEF Dir
<1>5. \A i \in Inodes : files[i].synced = Len(files[i].recs)
  BY InitSynced
<1>6. MayCut(files, since, Target(d))
  <2>1. CASE Target(d) = NoFile
    BY <1>1, <1>4, <2>1, SafeHolds DEF MayCut, IInv, Safe
  <2>2. CASE Target(d) \in Inodes
    <3>1. Target(d) # NoFile /\ files[Target(d)].recs \in Seq(Record)
      BY <1>2, <2>2, NoFileAssumption, FileType
    <3>2. Replay(files[Target(d)].recs, Len(files[Target(d)].recs)) = kv
      BY <1>1, <1>4, <3>1, SafeHolds DEF IInv, Safe
    <3> QED
      BY <1>1, <1>5, <2>2, <3>1, <3>2, MayCutFull
  <2> QED
    BY <1>4, <2>1, <2>2
<1> QED
  BY <1>1, <1>4, <1>6 DEF Durable, Full, Aside

(* Every step keeps what a power failure may leave within reach. *)
LEMMA DurableNext ==
  ASSUME DInv, [Next]_vars, ~RestoreMayFail, FsyncCommitsDirectory
  PROVE  DInv'
<1>1. IInv /\ Durable /\ IInv'
  BY SafeNext DEF DInv
<1>2. CASE UNCHANGED vars
  BY <1>1, <1>2 DEF vars, disk, handle, build, history, DInv, Durable, MayCut, Target
<1>3. ASSUME Next PROVE Durable'
  <2>1. CASE Open \/ RecoverStep \/ ScanRecord \/ ScanEnd \/ Crash
    BY <1>1, <1>3, <2>1, DurableOpen
  <2>2. CASE OpenLog
    BY <1>1, <1>3, <2>2, DurableOpenLog
  <2>3. ASSUME NEW k \in Keys, NEW v \in Values, Put(k, v) PROVE Durable'
    <3>1. [key |-> k, val |-> v] \in Record
      BY DEF Record
    <3> QED
      BY <1>1, <2>3, <3>1, DurableMutate DEF Put
  <2>4. ASSUME NEW k \in Keys, Delete(k) PROVE Durable'
    <3>1. [key |-> k, val |-> Absent] \in Record
      BY DEF Record
    <3> QED
      BY <1>1, <2>4, <3>1, DurableMutate DEF Delete
  <2>5. CASE SyncMutation \/ Sync \/ Close
    BY <1>1, <1>3, <2>5, DurableSync
  <2>6. CASE CompactStep
    BY <1>1, <1>3, <2>6, DurableServed, DurableCreate, DurableCopy, DurableSyncNew,
       DurableReplace, DurableReopenOld DEF CompactStep
  <2>7. CASE PowerFailure
    BY <1>1, <2>7, DurablePowerFailure
  <2> QED
    BY <1>3, <2>1, <2>2, <2>3, <2>4, <2>5, <2>6, <2>7 DEF Next
<1> QED
  BY <1>1, <1>2, <1>3 DEF DInv

(* SyncedSurvives: on a file system whose fsync commits the directory with *)
(* the file, and while no restoring rename fails, a power failure at any   *)
(* step of any handler, compaction and recovery included, leaves contents  *)
(* that the store has had since the last sync that succeeded.              *)
THEOREM SyncedCorrect ==
  ASSUME ~RestoreMayFail, FsyncCommitsDirectory
  PROVE  Spec => []SyncedSurvives
<1>1. Init => DInv
  BY SafeInit, DurableInit DEF DInv
<1>2. DInv /\ [Next]_vars => DInv'
  BY DurableNext
<1>3. DInv => SyncedSurvives
  <2> SUFFICES ASSUME DInv, NEW c \in Outcomes PROVE c \in since
    BY DEF SyncedSurvives
  <2> PICK j \in DOMAIN dirs :
         c \in {ContentsAt(Target(dirs[j]), n) :
                  n \in DurableIn(Target(dirs[j]))..RecordsIn(Target(dirs[j]))}
    BY DEF Outcomes
  <2> PICK n \in DurableIn(Target(dirs[j]))..RecordsIn(Target(dirs[j])) :
         c = ContentsAt(Target(dirs[j]), n)
    OBVIOUS
  <2>1. MayCut(files, since, Target(dirs[j]))
    BY DEF DInv, Durable
  <2> QED
    BY <2>1 DEF MayCut, ContentsAt, DurableIn, RecordsIn
<1> QED
  BY <1>1, <1>2, <1>3, PTL DEF Spec

-----------------------------------------------------------------------------
(* The refinement.                                                         *)

(* What a client can see of the store. *)
view == <<Recovered, since>>

(* Recovery would find the history's contents, before a step and after it. *)
LEMMA ViewFacts ==
  ASSUME DInv, DInv'
  PROVE  Recovered = kv /\ Recovered' = kv' /\ kv \in Contents
  BY DEF DInv, IInv, Safe, RecoverySafe, TInv, TypeOK

(* The history changes in Put, Delete, a sync and a power failure only. *)
LEMMA HistoryStep ==
  ASSUME Next
  PROVE  \/ UNCHANGED <<kv, since>>
         \/ \E k \in Keys, v \in Values : Put(k, v)
         \/ \E k \in Keys : Delete(k)
         \/ kv' = kv /\ since' = {kv}
         \/ PowerFailure
<1>1. CASE Open \/ RecoverStep \/ OpenLog \/ ScanRecord \/ ScanEnd \/ Crash
  BY <1>1 DEF Open, RecoverStep, OpenLog, ScanRecord, ScanEnd, Crash, history
<1>2. CASE SyncMutation \/ Sync \/ Close
  BY <1>2 DEF SyncMutation, Sync, Close, SyncLog
<1>3. CASE CompactStep
  <2>1. Steady
    BY <1>3 DEF CompactStep, CompactStart, CompactClean, CompactCreate, CompactCopy, CompactSyncNew,
                CompactPrepare, CompactSyncPrepared, CompactCloseOld, CompactBackup, CompactInstall,
                CompactReopenNew, CompactDropBackup, CompactSyncInstalled, CompactDropNew,
                CompactRestore, CompactReopenOld, CompactDropReady
  <2> QED
    BY <2>1 DEF Steady, history
<1> QED
  BY <1>1, <1>2, <1>3 DEF Next

(* A power failure leaves contents of the time since the last sync. *)
LEMMA PowerView ==
  ASSUME DInv, PowerFailure
  PROVE  kv' \in since /\ since' = {kv'}
<1>1. PICK j \in DOMAIN dirs : Leaves(dirs[j], Target(dirs[j]))
  BY PowerStep DEF DInv, IInv, TInv
<1>2. MayCut(files, since, Target(dirs[j]))
  BY DEF DInv, Durable
<1>3. kv' \in since
  BY <1>1, <1>2 DEF Leaves, MayCut
<1> QED
  BY <1>3 DEF PowerFailure

(* A key that the index has is in the contents. *)
LEMMA IndexedPresent ==
  ASSUME DInv, pc \in Served, NEW k \in Keys, index[k] # 0
  PROVE  kv[k] # Absent
<1>1. Holds(log, index)
  BY DEF DInv, IInv, Safe, Serving
<1> QED
  BY <1>1 DEF Holds, ReplayIndex

(* Implements: under the assumptions of SyncedCorrect, the files implement *)
(* the map of AbstractStore.  Put and Delete each change the contents that *)
(* recovery would find at one step, their append; a power failure rolls    *)
(* them back no further than the last sync; every step of a compaction, of *)
(* its error paths, of recovery and of a crash is invisible.               *)
THEOREM RefinementCorrect ==
  ASSUME ~RestoreMayFail, FsyncCommitsDirectory
  PROVE  Spec => Implements
<1>1. Init => DInv
  BY SafeInit, DurableInit DEF DInv
<1>2. DInv /\ [Next]_vars => DInv'
  BY DurableNext
<1>3. Init => Abstract!Init
  <2> SUFFICES ASSUME Init PROVE Abstract!Init
    OBVIOUS
  <2>1. kv \in Contents /\ kv = Recovered /\ since = {kv}
    BY <1>1 DEF Init, DInv, IInv, TInv, TypeOK
  <2> QED
    BY <2>1 DEF Abstract!Init, Contents
<1>4. DInv /\ DInv' /\ [Next]_vars => [Abstract!Next]_view
  <2> SUFFICES ASSUME DInv, DInv', [Next]_vars PROVE [Abstract!Next]_view
    OBVIOUS
  <2>1. Recovered = kv /\ Recovered' = kv' /\ kv \in Contents
    BY ViewFacts
  <2>2. CASE UNCHANGED <<kv, since>>
    BY <2>1, <2>2 DEF view
  <2>3. ASSUME NEW k \in Keys, NEW v \in Values, Put(k, v) PROVE Abstract!Next
    <3>1. kv' = [kv EXCEPT ![k] = v] /\ since' = since \cup {kv'}
      BY <2>3 DEF Put, Mutate
    <3>2. Abstract!Put(k, v)
      BY <2>1, <3>1 DEF Abstract!Put, Abstract!Write
    <3> QED
      BY <3>2 DEF Abstract!Next
  <2>4. ASSUME NEW k \in Keys, Delete(k) PROVE Abstract!Next
    <3>1. kv' = [kv EXCEPT ![k] = Absent] /\ since' = since \cup {kv'} /\ index[k] # 0 /\ pc = "open"
      BY <2>4 DEF Delete, Mutate
    <3>2. kv[k] # Absent
      BY <3>1, IndexedPresent DEF Served
    <3>3. Abstract!Delete(k)
      BY <2>1, <3>1, <3>2 DEF Abstract!Delete, Abstract!Write
    <3> QED
      BY <3>3 DEF Abstract!Next
  <2>5. CASE kv' = kv /\ since' = {kv}
    <3>1. Abstract!Sync
      BY <2>1, <2>5 DEF Abstract!Sync
    <3> QED
      BY <3>1 DEF Abstract!Next
  <2>6. CASE PowerFailure
    <3>1. Abstract!PowerFailure
      BY <2>1, <2>6, PowerView DEF Abstract!PowerFailure
    <3> QED
      BY <3>1 DEF Abstract!Next
  <2>7. CASE UNCHANGED vars
    BY <2>2, <2>7 DEF vars, history
  <2> QED
    BY <2>2, <2>3, <2>4, <2>5, <2>6, <2>7, HistoryStep
<1> QED
  BY <1>1, <1>2, <1>3, <1>4, PTL DEF Spec, Implements, Abstract!Spec, view
=============================================================================
