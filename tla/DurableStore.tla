---------------------------- MODULE DurableStore ----------------------------
(***************************************************************************)
(* The store and its files: opening with recovery of an interrupted        *)
(* compaction, the recovery scan, Put, Delete, Sync, Close and the         *)
(* compaction with its three-file replacement, one action per system call  *)
(* that changes the disk, with a failure branch where the code has one.    *)
(* The process may die between any two of them, and so may the machine.    *)
(*                                                                         *)
(* Store.mu is held for the whole of Put, Delete, Sync and Compact, so the *)
(* steps of two handlers never interleave here; StoreThreads has the       *)
(* interleavings.  Record sizes and bytes are abstracted: a log file is a  *)
(* sequence of records, a durable prefix, and possibly a torn tail.        *)
(***************************************************************************)
EXTENDS LogContents

CONSTANTS Inodes,                 \* the files the disk can hold
          NoFile,                 \* a name that no file has
          SyncMode,               \* SyncInterval: 0, positive or negative
          ReadOnlyFiles,          \* those that carry an unknown read-only bit
          FsyncCommitsDirectory,  \* fsync of a file also commits the journal
          RestoreMayFail,         \* the rename that undoes a compaction may fail
          MaxMutations,           \* bound on Put and Delete
          MaxFaults               \* bound on failing system calls

ASSUME NoFileAssumption == NoFile \notin Inodes
ASSUME ReadOnlyAssumption == ReadOnlyFiles \subseteq Inodes
ASSUME SyncModeAssumption == SyncMode \in {"every", "periodic", "never"}
ASSUME FlagAssumption ==
  /\ FsyncCommitsDirectory \in BOOLEAN
  /\ RestoreMayFail \in BOOLEAN
ASSUME BoundAssumption == MaxMutations \in Nat /\ MaxFaults \in Nat

VARIABLES
  dirs,       \* the directory: its states since it was last durable, newest last
  files,      \* the contents of each file
  pc,         \* where the process is: "down", "open", or inside a handler
  todo,       \* directory operations the handler has still to do
  log,        \* s.log: the file that is open as the log
  logOpen,    \* whether that file is still open
  scan,       \* records the recovery scan has passed
  index,      \* s.index: where the live record of each key is
  newLog,     \* the file a compaction writes
  newIndex,   \* the index a compaction builds
  kv,         \* history: the contents the mutations so far add up to
  since,      \* history: the contents since the last successful sync
  mutations,  \* Put and Delete calls so far
  faults      \* system calls that have failed so far

disk    == <<dirs, files>>
handle  == <<log, logOpen>>
build   == <<newLog, newIndex>>
history == <<kv, since>>
vars    == <<disk, pc, todo, handle, scan, index, build, history, mutations, faults>>

-----------------------------------------------------------------------------
(* The file system, as the code in src/ uses it.                           *)

Names == {"main", "temp", "ready", "backup"}

Directory == [Names -> Inodes \cup {NoFile}]

NoNames == [n \in Names |-> NoFile]

File == [recs : Seq(Record), synced : Nat, torn : BOOLEAN]

EmptyFile == [recs |-> <<>>, synced |-> 0, torn |-> FALSE]

(* The directory every running process sees. *)
Dir == dirs[Len(dirs)]

Exists(n) == Dir[n] # NoFile

(* A change of the directory is visible at once and durable later. *)
SetDir(d) == dirs' = IF d = Dir THEN dirs ELSE Append(dirs, d)

Rename(from, to) == SetDir([Dir EXCEPT ![to] = Dir[from], ![from] = NoFile])

Remove(n) == SetDir([Dir EXCEPT ![n] = NoFile])

(* syncParentDirectory: an fsync of the directory. *)
SyncDirectory == dirs' = <<Dir>>

(* unknownReadOnly: the header of the log has a bit this build does not    *)
(* know.                                                                   *)
ReadOnly == log \in ReadOnlyFiles

(* A new file: any that no name, now or after a power failure, leads to.   *)
(* This build sets no read-only bit.                                       *)
Free == {i \in Inodes \ ReadOnlyFiles :
          /\ i # log
          /\ \A j \in DOMAIN dirs : \A n \in Names : dirs[j][n] # i}

Create(i, n) ==
  /\ i \in Free
  /\ files' = [files EXCEPT ![i] = EmptyFile]
  /\ SetDir([Dir EXCEPT ![n] = i])

AppendTo(i, r) == [files EXCEPT ![i].recs = Append(@, r)]

(* fsync of a file, and on a journaling file system of what preceded it. *)
Fsync(i) ==
  /\ files' = [files EXCEPT ![i].synced = Len(files[i].recs)]
  /\ dirs'  = IF FsyncCommitsDirectory THEN <<Dir>> ELSE dirs

(* A system call succeeds, or fails as long as the bound lets it. *)
Succeeds == UNCHANGED faults
Fails    == faults < MaxFaults /\ faults' = faults + 1

(* A call fails and the file the handler was building is removed; an error *)
(* of that removal is ignored.                                             *)
FailsAndDrops(n) ==
  \/ Fails /\ Remove(n)
  \/ faults + 1 < MaxFaults /\ faults' = faults + 2 /\ UNCHANGED dirs

(* What a process knows and loses when it ends. *)
Forget ==
  /\ todo' = <<>> /\ log' = NoFile /\ logOpen' = FALSE /\ scan' = 0
  /\ index' = NoIndex /\ newLog' = NoFile /\ newIndex' = NoIndex

-----------------------------------------------------------------------------
(* What recovery makes of a directory.                                     *)

(* The file that recoverCompactionArtifacts leaves under the main name. *)
Target(d) == IF d["main"] # NoFile THEN d["main"]
             ELSE IF d["ready"] # NoFile THEN d["ready"]
             ELSE d["backup"]

ContentsAt(i, n) == IF i = NoFile THEN NoContents ELSE Replay(files[i].recs, n)

RecordsIn(i) == IF i = NoFile THEN 0 ELSE Len(files[i].recs)

DurableIn(i) == IF i = NoFile THEN 0 ELSE files[i].synced

(* The contents a process that starts now will find. *)
Recovered == ContentsAt(Target(Dir), RecordsIn(Target(Dir)))

(* Every contents that a power failure now may leave. *)
Outcomes ==
  UNION {{ContentsAt(Target(dirs[j]), n) :
            n \in DurableIn(Target(dirs[j]))..RecordsIn(Target(dirs[j]))} :
         j \in DOMAIN dirs}

-----------------------------------------------------------------------------
(* Initial states: nothing there, or a log that a build which knows of a   *)
(* read-only feature left behind, with or without a torn record at its end.*)

InitialLogs == {<<>>} \cup {<<r>> : r \in [key : Keys, val : Values]}

InitDisk ==
  \/ dirs = <<NoNames>> /\ files = [j \in Inodes |-> EmptyFile]
  \/ \E i \in ReadOnlyFiles, recs \in InitialLogs, t \in BOOLEAN :
       /\ dirs  = <<[NoNames EXCEPT !["main"] = i]>>
       /\ files = [[j \in Inodes |-> EmptyFile] EXCEPT
                     ![i] = [recs |-> recs, synced |-> Len(recs), torn |-> t]]

Init ==
  /\ InitDisk
  /\ pc = "down" /\ todo = <<>>
  /\ log = NoFile /\ logOpen = FALSE /\ scan = 0 /\ index = NoIndex
  /\ newLog = NoFile /\ newIndex = NoIndex
  /\ kv = Recovered /\ since = {kv}
  /\ mutations = 0 /\ faults = 0

-----------------------------------------------------------------------------
(* Open: recoverCompactionArtifacts, openAppendLogFile, the recovery scan. *)

(* removeIfExists does nothing about a name that no file has. *)
Removal(d, n) == IF d[n] # NoFile THEN <<<<"remove", n>>>> ELSE <<>>

(* The directory is made durable when there was an artifact in it. *)
FinalSync(d) ==
  IF \E n \in Names \ {"main"} : d[n] # NoFile THEN <<<<"sync">>>> ELSE <<>>

(* Mutant: recovery takes every artifact for a leftover. *)
RecoveryPlan_NoPromotion(d) ==
  Removal(d, "temp") \o Removal(d, "ready") \o Removal(d, "backup") \o FinalSync(d)

(* The operations of recovery, given what the directory holds. *)
RecoveryPlan(d) ==
  (IF d["main"] # NoFile
     THEN Removal(d, "ready") \o Removal(d, "backup")
   ELSE IF d["ready"] # NoFile
     THEN <<<<"rename", "ready", "main">>>> \o Removal(d, "backup")
   ELSE IF d["backup"] # NoFile
     THEN <<<<"rename", "backup", "main">>>>
   ELSE <<>>)
  \o Removal(d, "temp") \o FinalSync(d)

(* Operations on the directory that a handler goes through in order. *)
Ops == {<<"remove", n>> : n \in Names} \cup {<<"rename", n, "main">> : n \in Names}
         \cup {<<"sync">>}

Perform(op) ==
  CASE op[1] = "remove" -> Remove(op[2])
    [] op[1] = "rename" -> Rename(op[2], op[3])
    [] op[1] = "sync"   -> SyncDirectory

Open ==
  /\ pc = "down"
  /\ pc' = "recover" /\ todo' = RecoveryPlan(Dir)
  /\ UNCHANGED <<disk, handle, scan, index, build, history, mutations, faults>>

(* The next operation of the plan; when it fails, Open returns the error. *)
RecoverStep ==
  /\ pc = "recover" /\ todo # <<>>
  /\ \/ Succeeds /\ Perform(Head(todo)) /\ todo' = Tail(todo) /\ pc' = pc
     \/ Fails /\ UNCHANGED dirs /\ todo' = <<>> /\ pc' = "down"
  /\ UNCHANGED <<files, handle, scan, index, build, history, mutations>>

(* openAppendLogFile: O_CREATE makes an empty log when the name is free. *)
OpenMain ==
  /\ logOpen' = TRUE
  /\ \/ Exists("main") /\ log' = Dir["main"] /\ UNCHANGED disk
     \/ ~Exists("main") /\ \E i \in Free : Create(i, "main") /\ log' = i

(* It may fail before the file is created, or after. *)
OpenMainFails ==
  \/ UNCHANGED disk
  \/ ~Exists("main") /\ \E i \in Free : Create(i, "main")

OpenLog ==
  /\ pc = "recover" /\ todo = <<>>
  /\ \/ Succeeds /\ OpenMain /\ pc' = "scan"
     \/ Fails /\ OpenMainFails /\ pc' = "down" /\ UNCHANGED handle
  /\ scan' = 0 /\ index' = NoIndex
  /\ UNCHANGED <<todo, build, history, mutations>>

(* Mutant: a tombstone leaves an entry with an impossible offset. *)
ScanRecord_Sentinel ==
  /\ pc = "scan" /\ scan < Len(files[log].recs)
  /\ LET r == files[log].recs[scan + 1]
     IN  index' = [index EXCEPT ![r.key] = IF r.val = Absent THEN -1 ELSE scan + 1]
  /\ scan' = scan + 1
  /\ UNCHANGED <<disk, pc, todo, handle, build, history, mutations, faults>>

(* Iterate hands the next record to recover, which puts or deletes its     *)
(* key; when it cannot be read, Open closes the log and returns the error. *)
ScanRecord ==
  /\ pc = "scan" /\ scan < Len(files[log].recs)
  /\ \/ /\ Succeeds /\ pc' = pc
        /\ LET r == files[log].recs[scan + 1]
           IN  index' = [index EXCEPT ![r.key] = IF r.val = Absent THEN 0 ELSE scan + 1]
        /\ scan' = scan + 1
        /\ UNCHANGED <<todo, handle, build>>
     \/ Fails /\ pc' = "down" /\ Forget
  /\ UNCHANGED <<disk, history, mutations>>

(* Mutant: the torn tail is cut off whatever the header says. *)
ScanEnd_Truncates ==
  /\ pc = "scan" /\ scan = Len(files[log].recs)
  /\ pc' = "open" /\ files' = [files EXCEPT ![log].torn = FALSE]
  /\ UNCHANGED <<dirs, todo, handle, scan, index, build, history, mutations, faults>>

(* At the end of the records a torn tail is cut off, unless the log is     *)
(* read-only; when that fails, Open closes the log and returns the error.  *)
ScanEnd ==
  /\ pc = "scan" /\ scan = Len(files[log].recs)
  /\ \/ /\ Succeeds /\ pc' = "open"
        /\ files' = IF ReadOnly THEN files ELSE [files EXCEPT ![log].torn = FALSE]
        /\ UNCHANGED <<todo, handle, scan, index, build>>
     \/ /\ files[log].torn /\ ~ReadOnly
        /\ Fails /\ pc' = "down" /\ Forget
        /\ UNCHANGED files
  /\ UNCHANGED <<dirs, history, mutations>>

-----------------------------------------------------------------------------
(* Put, Delete, Sync, Close.                                               *)

(* Append the record; with SyncInterval 0 the handler goes on to sync. *)
Mutate(r, place) ==
  /\ pc = "open" /\ ~ReadOnly /\ logOpen
  /\ mutations < MaxMutations /\ mutations' = mutations + 1
  /\ files' = AppendTo(log, r)
  /\ index' = [index EXCEPT ![r.key] = place]
  /\ kv' = [kv EXCEPT ![r.key] = r.val] /\ since' = since \cup {kv'}
  /\ pc' = IF SyncMode = "every" THEN "sync" ELSE "open"
  /\ UNCHANGED <<dirs, todo, handle, scan, build, faults>>

Put(k, v) == Mutate([key |-> k, val |-> v], Len(files[log].recs) + 1)

Delete(k) == index[k] # 0 /\ Mutate([key |-> k, val |-> Absent], 0)

(* Synchronizing the log: on an error the appended records stay. *)
SyncLog ==
  \/ Succeeds /\ logOpen /\ Fsync(log) /\ since' = {kv}
  \/ Fails /\ UNCHANGED <<disk, since>>

(* The end of a Put or a Delete with SyncInterval 0. *)
SyncMutation ==
  /\ pc = "sync" /\ SyncLog /\ pc' = "open"
  /\ UNCHANGED <<todo, handle, scan, index, build, kv, mutations>>

(* Store.Sync, called by the client or by the periodic sync task. *)
Sync ==
  /\ pc = "open" /\ SyncLog
  /\ UNCHANGED <<pc, todo, handle, scan, index, build, kv, mutations>>

(* Close goes on to close the log when the final sync fails. *)
Close ==
  /\ pc = "open" /\ pc' = "down"
  /\ IF SyncMode = "never" \/ ~logOpen
       THEN UNCHANGED <<disk, since, faults>>
       ELSE SyncLog
  /\ Forget
  /\ UNCHANGED <<kv, mutations>>

-----------------------------------------------------------------------------
(* Compact.                                                                *)

(* What every step of a compaction but the last ones leaves alone. *)
Steady == UNCHANGED <<scan, history, mutations>>

CompactStart ==
  /\ pc = "open" /\ ~ReadOnly
  /\ pc' = "clean"
  /\ todo' = Removal(Dir, "temp") \o Removal(Dir, "ready") \o Removal(Dir, "backup")
  /\ Steady /\ UNCHANGED <<disk, handle, index, build, faults>>

(* Leftovers of an earlier compaction go first. *)
CompactClean ==
  /\ pc = "clean" /\ todo # <<>>
  /\ \/ Succeeds /\ Perform(Head(todo)) /\ todo' = Tail(todo) /\ pc' = pc
     \/ Fails /\ UNCHANGED dirs /\ todo' = <<>> /\ pc' = "open"
  /\ Steady /\ UNCHANGED <<files, handle, index, build>>

CompactCreate ==
  /\ pc = "clean" /\ todo = <<>>
  /\ \/ /\ Succeeds /\ pc' = "copy"
        /\ \E i \in Free : Create(i, "temp") /\ newLog' = i
     \/ /\ Fails /\ pc' = "open" /\ UNCHANGED newLog
        /\ UNCHANGED disk \/ \E i \in Free : Create(i, "temp")
  /\ newIndex' = NoIndex
  /\ Steady /\ UNCHANGED <<todo, handle, index>>

(* Mutant: the loop passes over the first record of the log. *)
Uncopied_OffByOne == {k \in Keys : index[k] > 1 /\ newIndex[k] = 0}

(* The live keys that are still to be copied. *)
Uncopied == {k \in Keys : index[k] # 0 /\ newIndex[k] = 0}

(* The log can be read where the index says the record of k is. *)
Readable(k) == logOpen /\ index[k] <= Len(files[log].recs)

(* Read the live record from the old log and append it to the new one. *)
CopyRecord(k) ==
  /\ Succeeds /\ Readable(k) /\ pc' = pc
  /\ files' = AppendTo(newLog, [key |-> k, val |-> files[log].recs[index[k]].val])
  /\ newIndex' = [newIndex EXCEPT ![k] = Len(files[newLog].recs) + 1]
  /\ UNCHANGED dirs

CopyFails(k) ==
  /\ \/ FailsAndDrops("temp")
     \/ ~Readable(k) /\ Succeeds /\ Remove("temp")
  /\ pc' = "open" /\ UNCHANGED <<files, newIndex>>

(* One round of the loop over KeysSortedByOffset. *)
CompactCopy ==
  /\ pc = "copy"
  /\ \E k \in Uncopied :
       /\ \A j \in Uncopied : index[k] <= index[j]
       /\ CopyRecord(k) \/ CopyFails(k)
  /\ Steady /\ UNCHANGED <<todo, handle, index, newLog>>

(* Mutant: the new log is closed without an fsync. *)
CompactSyncNew_NoSync ==
  /\ pc = "copy" /\ Uncopied = {}
  /\ Succeeds /\ UNCHANGED disk /\ pc' = "prepare"
  /\ Steady /\ UNCHANGED <<todo, handle, index, build>>

(* The new log is synchronized and closed. *)
CompactSyncNew ==
  /\ pc = "copy" /\ Uncopied = {}
  /\ \/ Succeeds /\ Fsync(newLog) /\ pc' = "prepare"
     \/ FailsAndDrops("temp") /\ UNCHANGED files /\ pc' = "open"
  /\ Steady /\ UNCHANGED <<todo, handle, index, build>>

CompactPrepare ==
  /\ pc = "prepare"
  /\ \/ Succeeds /\ Rename("temp", "ready") /\ pc' = "prepared"
     \/ FailsAndDrops("temp") /\ pc' = "open"
  /\ Steady /\ UNCHANGED <<files, todo, handle, index, build>>

CompactSyncPrepared ==
  /\ pc = "prepared"
  /\ \/ Succeeds /\ SyncDirectory /\ pc' = "closeOld"
     \/ FailsAndDrops("ready") /\ pc' = "open"
  /\ Steady /\ UNCHANGED <<files, todo, handle, index, build>>

(* Closing the old log fails as well when it is closed already. *)
CompactCloseOld ==
  /\ pc = "closeOld"
  /\ \/ Succeeds /\ logOpen /\ pc' = "backup"
     \/ Succeeds /\ ~logOpen /\ pc' = "reopenAndDrop"
     \/ Fails /\ pc' = "reopenAndDrop"
  /\ logOpen' = FALSE
  /\ Steady /\ UNCHANGED <<disk, todo, log, index, build>>

CompactBackup ==
  /\ pc = "backup"
  /\ \/ Succeeds /\ Rename("main", "backup") /\ pc' = "install"
     \/ Fails /\ UNCHANGED dirs /\ pc' = "reopenAndDrop"
  /\ Steady /\ UNCHANGED <<files, todo, handle, index, build>>

CompactInstall ==
  /\ pc = "install"
  /\ \/ Succeeds /\ Rename("ready", "main") /\ pc' = "reopenNew"
     \/ Fails /\ UNCHANGED dirs /\ pc' = "restore"
  /\ Steady /\ UNCHANGED <<files, todo, handle, index, build>>

(* Mutant: the new log is installed and the old index kept. *)
CompactReopenNew_OldIndex ==
  /\ pc = "reopenNew"
  /\ Succeeds /\ OpenMain /\ pc' = "dropBackup"
  /\ Steady /\ UNCHANGED <<index, todo, build>>

(* The store changes over to the new log and the new index. *)
CompactReopenNew ==
  /\ pc = "reopenNew"
  /\ \/ Succeeds /\ OpenMain /\ index' = newIndex /\ pc' = "dropBackup"
     \/ Fails /\ OpenMainFails /\ pc' = "dropNew" /\ UNCHANGED <<handle, index>>
  /\ Steady /\ UNCHANGED <<todo, build>>

CompactDropBackup ==
  /\ pc = "dropBackup"
  /\ \/ Succeeds /\ Remove("backup") /\ pc' = "installed"
     \/ Fails /\ UNCHANGED dirs /\ pc' = "open"
  /\ Steady /\ UNCHANGED <<files, todo, handle, index, build>>

CompactSyncInstalled ==
  /\ pc = "installed" /\ pc' = "open"
  /\ \/ Succeeds /\ SyncDirectory
     \/ Fails /\ UNCHANGED dirs
  /\ Steady /\ UNCHANGED <<files, todo, handle, index, build>>

(* The error paths of the replacement. *)

(* The new log could not be opened: it is removed. *)
CompactDropNew ==
  /\ pc = "dropNew" /\ pc' = "restore"
  /\ \/ Succeeds /\ Remove("main")
     \/ Fails /\ UNCHANGED dirs
  /\ Steady /\ UNCHANGED <<files, todo, handle, index, build>>

(* The old log gets its name back. *)
CompactRestore ==
  /\ pc = "restore" /\ pc' = "reopen"
  /\ \/ Succeeds /\ Rename("backup", "main")
     \/ RestoreMayFail /\ Fails /\ UNCHANGED dirs
  /\ Steady /\ UNCHANGED <<files, todo, handle, index, build>>

(* The log is opened again, whatever has the main name by now; when that   *)
(* fails s.log stays closed.                                               *)
CompactReopenOld ==
  /\ pc \in {"reopen", "reopenAndDrop"}
  /\ \/ Succeeds /\ OpenMain
     \/ Fails /\ OpenMainFails /\ UNCHANGED handle
  /\ pc' = IF pc = "reopen" THEN "open" ELSE "dropReady"
  /\ Steady /\ UNCHANGED <<todo, index, build>>

CompactDropReady ==
  /\ pc = "dropReady" /\ pc' = "open"
  /\ \/ Succeeds /\ Remove("ready")
     \/ Fails /\ UNCHANGED dirs
  /\ Steady /\ UNCHANGED <<files, todo, handle, index, build>>

-----------------------------------------------------------------------------
(* Failures of the process and of the machine.                             *)

(* The file that an append may be writing to. *)
Writing == CASE pc = "open" /\ logOpen /\ ~ReadOnly -> {log}
             [] pc = "copy"                          -> {newLog}
             [] OTHER                                -> {}

(* The process dies; an append under way may leave part of its record. *)
Crash ==
  /\ pc # "down" /\ pc' = "down"
  /\ \/ UNCHANGED files
     \/ \E i \in Writing : files' = [files EXCEPT ![i].torn = TRUE]
  /\ Forget
  /\ UNCHANGED <<dirs, history, mutations, faults>>

(* How much of each file in S may have reached the disk. *)
Cuts(S) == {c \in [S -> 0..MaxMutations + 1] :
              \A i \in S : files[i].synced <= c[i] /\ c[i] <= Len(files[i].recs)}

(* The machine dies.  The disk has the directory as it was at some time    *)
(* since it was last durable, and of each file in it the records up to     *)
(* some point after its last fsync, and perhaps part of the next record.   *)
PowerFailure ==
  /\ pc' = "down"
  /\ \E j \in DOMAIN dirs :
     LET S == {i \in Inodes : \E n \in Names : dirs[j][n] = i}
         t == Target(dirs[j])
     IN  \E c \in Cuts(S) :
         \E T \in SUBSET {i \in S : files[i].torn \/ c[i] < Len(files[i].recs) \/ i \in Writing} :
           /\ dirs'  = <<dirs[j]>>
           /\ files' = [i \in Inodes |->
                          IF i \in S THEN [recs   |-> SubSeq(files[i].recs, 1, c[i]),
                                           synced |-> c[i],
                                           torn   |-> i \in T]
                                     ELSE EmptyFile]
           /\ kv' = ContentsAt(t, IF t = NoFile THEN 0 ELSE c[t])
  /\ since' = {kv'}
  /\ Forget
  /\ UNCHANGED <<mutations, faults>>

-----------------------------------------------------------------------------
CompactStep ==
  \/ CompactStart \/ CompactClean \/ CompactCreate \/ CompactCopy
  \/ CompactSyncNew \/ CompactPrepare \/ CompactSyncPrepared
  \/ CompactCloseOld \/ CompactBackup \/ CompactInstall \/ CompactReopenNew
  \/ CompactDropBackup \/ CompactSyncInstalled \/ CompactDropNew
  \/ CompactRestore \/ CompactReopenOld \/ CompactDropReady

Next ==
  \/ Open \/ RecoverStep \/ OpenLog \/ ScanRecord \/ ScanEnd
  \/ \E k \in Keys, v \in Values : Put(k, v)
  \/ \E k \in Keys : Delete(k)
  \/ SyncMutation \/ Sync \/ Close
  \/ CompactStep
  \/ Crash \/ PowerFailure

Spec == Init /\ [][Next]_vars

-----------------------------------------------------------------------------
(* Properties.                                                             *)

(* Where the process can be. *)
Places ==
  {"down", "recover", "scan", "open", "sync", "clean", "copy", "prepare", "prepared",
   "closeOld", "backup", "install", "reopenNew", "dropBackup", "installed", "dropNew",
   "restore", "reopen", "reopenAndDrop", "dropReady"}

(* Every variable has its type, and no durable prefix outruns its file. *)
TypeOK ==
  /\ dirs \in Seq(Directory) /\ dirs # <<>>
  /\ files \in [Inodes -> File]
  /\ \A i \in Inodes : files[i].synced <= Len(files[i].recs)
  /\ pc \in Places
  /\ todo \in Seq(Ops)
  /\ log \in Inodes \cup {NoFile} /\ logOpen \in BOOLEAN /\ scan \in Nat
  /\ newLog \in Inodes \cup {NoFile}
  /\ index \in [Keys -> Nat] /\ newIndex \in [Keys -> Nat]
  /\ kv \in Contents /\ since \subseteq Contents
  /\ mutations \in 0..MaxMutations /\ faults \in 0..MaxFaults

(* Whatever the process was doing, inside a compaction, its error paths,   *)
(* recovery or a scan, a process that starts now finds exactly the         *)
(* contents that the Puts and Deletes so far add up to.                    *)
RecoverySafe == Recovered = kv

(* An idle store with its log open reads each key's current value through  *)
(* its index, and the file it appends to is the one named main.            *)
ServesCurrent ==
  pc = "open" /\ logOpen =>
    /\ log = Dir["main"]
    /\ index = ReplayIndex(files[log].recs, Len(files[log].recs))
    /\ \A k \in Keys : kv[k] = IF index[k] = 0 THEN Absent ELSE files[log].recs[index[k]].val

(* After a power failure the store holds one of the contents it has had    *)
(* since the last Sync that succeeded: nothing synchronized is lost, and   *)
(* what is lost is a suffix of the mutations.                              *)
SyncedSurvives == Outcomes \subseteq since

(* A log with an unknown read-only bit is read and never written: no step  *)
(* of the program, short of losing power, changes a byte of any log.       *)
ReadOnlyKeepsBytes == [][ReadOnly /\ pc' # "down" => files' = files]_vars

(* Seen through what recovery would find, the files implement the map of   *)
(* AbstractStore: a Put or a Delete changes one key at one step, a power   *)
(* failure rolls back to contents of the time since the last sync, and all *)
(* the other steps, compaction, crashes and recovery among them, change    *)
(* nothing a client can see.                                               *)
Abstract == INSTANCE AbstractStore WITH kv <- Recovered, recent <- since

Implements == Abstract!Spec
=============================================================================
