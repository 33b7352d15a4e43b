----------------------------- MODULE Migration ------------------------------
(***************************************************************************)
(* Open on a log of an older format: recovery of what a compaction of this *)
(* or an older build left, the backup copy, OnMigrate, and the new header  *)
(* of a version 4 log or the compaction of an earlier one.  Each system    *)
(* call is a step and may fail; the process or the machine may die between *)
(* them; an older build may use the log before, and the backup may be put  *)
(* back.                                                                   *)
(*                                                                         *)
(* A file is its version, how many writes its records add up to and        *)
(* whether they are all there, now and as of its last fsync.               *)
(***************************************************************************)
EXTENDS Naturals, Sequences, FiniteSets

CONSTANTS FromVersions,     \* the versions an older build may write
          NoMigrationBackup,
          DirectoryFirst,   \* a change of the directory reaches the disk before
                            \* any later write to a file
          OldRunsAgain,     \* an older build may write after a backup was made or
                            \* a migration was accepted
          RollBackAnyTime,  \* also after a migration that was interrupted
          Inodes, NoFile,
          MaxWrites, MaxFaults  \* bounds on writes and on failing calls

ASSUME VersionAssumption == FromVersions \subseteq 1..4
ASSUME FlagAssumption ==
  {NoMigrationBackup, DirectoryFirst, OldRunsAgain, RollBackAnyTime} \subseteq BOOLEAN
ASSUME NoFileAssumption == NoFile \notin Inodes
ASSUME BoundAssumption == MaxWrites \in Nat \ {0} /\ MaxFaults \in Nat

VARIABLES dirs,      \* the directory: its states since it was last durable, newest last
          files,     \* each file now, and as of its last fsync
          pc, todo,  \* where the process is; the calls it has still to make
          old,       \* the version that the older build writes here
          written,   \* history: the writes that the log's contents add up to
          lastOld,   \* history: what they were when the log last had the old format
          accepted,  \* history: OnMigrate has accepted the log as it was then
          faults

disk    == <<dirs, files>>
history == <<old, written, lastOld, accepted>>
vars    == <<disk, pc, todo, history, faults>>

logVersion == 5

-----------------------------------------------------------------------------
(* The file system.                                                        *)

Artifacts == {"temp", "ready", "backup", "compact"}

Names == {"main", "bak", "bakTemp"} \cup Artifacts

Dir == dirs[Len(dirs)]

SetDir(d) == dirs' = IF d = Dir THEN dirs ELSE Append(dirs, d)

Free == {i \in Inodes : \A j \in DOMAIN dirs : \A n \in Names : dirs[j][n] # i}

Log(version, data, whole) == [version |-> version, data |-> data, whole |-> whole]

Nothing == Log(0, 0, FALSE)

Now(n) == files[Dir[n]].now

(* A file is written, which may make the directory durable. *)
Written == dirs' = IF DirectoryFirst THEN <<Dir>> ELSE dirs

(* The file named n gets other contents. *)
Set(n, contents) == files' = [files EXCEPT ![Dir[n]].now = contents] /\ Written

(* What a power failure may leave of a file: all of it, what was           *)
(* synchronized, or part of what was written since.                        *)
Leftovers(f) ==
  {f.now, f.synced} \cup
    (IF f.now.data = f.synced.data THEN {} ELSE {[f.now EXCEPT !.whole = FALSE]})

(* A file with contents c under the name n; O_TRUNC empties one that is there. *)
Create(n, c) ==
  \/ Dir[n] # NoFile /\ Set(n, c)
  \/ /\ Dir[n] = NoFile
     /\ \E i \in Free : /\ files' = [files EXCEPT ![i] = [now |-> c, synced |-> Nothing]]
                        /\ SetDir([Dir EXCEPT ![n] = i])

Rename(from, to) ==
  SetDir([Dir EXCEPT ![to] = Dir[from], ![from] = NoFile]) /\ UNCHANGED files

Fsync(n) == files' = [files EXCEPT ![Dir[n]].synced = Now(n)] /\ Written

(* A system call that succeeds. *)
Perform(op) ==
  CASE op[1] = "create"  -> Create(op[2], Nothing)
    [] op[1] = "copy"    -> Set("bakTemp", Now("main"))
    [] op[1] = "rewrite" -> Set("temp", [Now("main") EXCEPT !.version = logVersion])
    [] op[1] = "header"  -> Set("main", [Now("main") EXCEPT !.version = logVersion])
    [] op[1] = "fsync"   -> Fsync(op[2])
    [] op[1] = "rename"  -> Rename(op[2], op[3])
    [] op[1] = "remove"  -> SetDir([Dir EXCEPT ![op[2]] = NoFile]) /\ UNCHANGED files
    [] op[1] = "syncdir" -> dirs' = <<Dir>> /\ UNCHANGED files
    [] op[1] = "reopen"  -> UNCHANGED disk

Succeeds == UNCHANGED faults
Fails    == faults < MaxFaults /\ faults' = faults + 1

-----------------------------------------------------------------------------
(* Plans: calls to make in order, each with what is done when it fails.    *)

Call(op, undo) == [op |-> op, undo |-> undo]

(* removeIfExists *)
Removal(d, n) == IF d[n] = NoFile THEN <<>> ELSE <<Call(<<"remove", n>>, <<>>)>>

(* The name of the file that recoverCompactionArtifacts makes the log. *)
Survivor(d) == CASE d["main"] # NoFile -> "main"
                 [] d["main"] = NoFile /\ d["ready"] # NoFile -> "ready"
                 [] d["main"] = NoFile /\ d["ready"] = NoFile /\ d["backup"] # NoFile
                      -> "backup"
                 [] OTHER -> "compact"

(* Mutant: what an older build's compaction left is cleared away. *)
RecoveryPlan_NoLegacy(d) ==
  (IF Survivor(d) \in {"main", "compact"} THEN <<>>
   ELSE <<Call(<<"rename", Survivor(d), "main">>, <<>>)>>)
  \o Removal(d, "temp") \o Removal(d, "compact")

RecoveryPlan(d) ==
  LET from == Survivor(d)
      rest == [d EXCEPT ![from] = NoFile]
  IN  (IF from = "main"
         THEN Removal(d, "ready") \o Removal(d, "backup") \o Removal(d, "compact")
                \o Removal(d, "temp")
         ELSE (IF d[from] = NoFile THEN <<>> ELSE <<Call(<<"rename", from, "main">>, <<>>)>>)
                \o Removal(rest, "backup") \o Removal(rest, "temp") \o Removal(rest, "compact"))
      \o (IF \E n \in Artifacts : d[n] # NoFile THEN <<Call(<<"syncdir">>, <<>>)>> ELSE <<>>)

(* Mutant: the copy is made under its final name. *)
BackupPlan_InPlace(d) ==
  IF NoMigrationBackup \/ d["bak"] # NoFile THEN <<>>
  ELSE <<Call(<<"create", "bakTemp">>, <<>>),
         Call(<<"rename", "bakTemp", "bak">>, <<>>),
         Call(<<"syncdir">>, <<>>)>>

(* Mutant: a backup that is there is not looked for. *)
BackupPlan_Again(d) ==
  <<Call(<<"create", "bakTemp">>, <<>>), Call(<<"copy">>, <<>>),
    Call(<<"fsync", "bakTemp">>, <<>>), Call(<<"rename", "bakTemp", "bak">>, <<>>),
    Call(<<"syncdir">>, <<>>)>>

(* copyLogFile *)
CopyPlan ==
  LET drop == <<<<"remove", "bakTemp">>>>
  IN  <<Call(<<"create", "bakTemp">>, <<>>),
        Call(<<"copy">>, drop),
        Call(<<"fsync", "bakTemp">>, drop),
        Call(<<"rename", "bakTemp", "bak">>, drop),
        Call(<<"syncdir">>, <<>>)>>

(* It copies nothing when there is a backup or none is wanted. *)
BackupPlan(d) == IF NoMigrationBackup \/ d["bak"] # NoFile THEN <<>> ELSE CopyPlan

(* setVersion *)
HeaderPlan == <<Call(<<"header">>, <<>>), Call(<<"fsync", "main">>, <<>>)>>

(* Compact, of a log that has just been opened; DurableStore has it with   *)
(* the record loop and the index.                                          *)
RewritePlan ==
  LET dropTemp  == <<<<"remove", "temp">>>>
      dropReady == <<<<"remove", "ready">>>>
  IN  <<Call(<<"create", "temp">>, <<>>),
        Call(<<"rewrite">>, dropTemp),
        Call(<<"fsync", "temp">>, dropTemp),
        Call(<<"rename", "temp", "ready">>, dropTemp),
        Call(<<"syncdir">>, dropReady),
        Call(<<"rename", "main", "backup">>, dropReady),
        Call(<<"rename", "ready", "main">>, <<<<"rename", "backup", "main">>>>),
        Call(<<"reopen">>, <<<<"remove", "main">>, <<"rename", "backup", "main">>>>),
        Call(<<"remove", "backup">>, <<>>),
        Call(<<"syncdir">>, <<>>)>>

CompactPlan(d) ==
  Removal(d, "temp") \o Removal(d, "ready") \o Removal(d, "backup") \o RewritePlan

-----------------------------------------------------------------------------
Init ==
  /\ old \in FromVersions
  /\ \E i \in Inodes :
       /\ dirs  = <<[n \in Names |-> IF n = "main" THEN i ELSE NoFile]>>
       /\ files = [j \in Inodes |->
                     LET c == IF j = i THEN Log(old, 1, TRUE) ELSE Nothing
                     IN  [now |-> c, synced |-> c]]
  /\ pc = "down" /\ todo = <<>>
  /\ written = 1 /\ lastOld = 1 /\ accepted = FALSE /\ faults = 0

Open ==
  /\ pc = "down"
  /\ pc' = "recover" /\ todo' = RecoveryPlan(Dir)
  /\ UNCHANGED <<disk, history, faults>>

(* Where a plan leads when all its calls have succeeded. *)
After == CASE pc = "recover" -> "opening"
           [] pc = "copying" -> "ask"
           [] pc = "migrate" -> "open"
           [] pc = "undo"    -> "down"

(* The next call of the plan; when it fails the handler cleans up and Open *)
(* returns the error.  A clean-up that fails is ignored.  (A rename that   *)
(* undoes a compaction is taken to succeed: see DurableStore.)             *)
Step ==
  /\ pc \in {"recover", "copying", "migrate", "undo"} /\ todo # <<>>
  /\ \/ /\ Succeeds /\ Perform(Head(todo).op) /\ todo' = Tail(todo) /\ pc' = pc
     \/ /\ Fails /\ pc # "undo" /\ pc' = "undo"
        /\ todo' = [i \in DOMAIN Head(todo).undo |-> Call(Head(todo).undo[i], <<>>)]
        /\ UNCHANGED disk
     \/ /\ Fails /\ pc = "undo" /\ Head(todo).op[1] = "remove"
        /\ todo' = Tail(todo) /\ UNCHANGED <<disk, pc>>
  /\ UNCHANGED history

PlanEnds ==
  /\ pc \in {"recover", "copying", "migrate", "undo"} /\ todo = <<>> /\ pc' = After
  /\ UNCHANGED <<disk, todo, history, faults>>

(* Mutant: the log is served in the format it has. *)
OpenLog_AsItIs ==
  /\ pc = "opening" /\ Dir["main"] # NoFile /\ pc' = "open"
  /\ UNCHANGED <<disk, todo, history, faults>>

(* openAppendLogFile and the scan of Open: a log of this version is open,  *)
(* one of an older version is migrated.                                    *)
OpenLog ==
  /\ pc = "opening"
  /\ \/ Fails /\ pc' = "down" /\ UNCHANGED <<disk, todo>>
     \/ /\ Succeeds /\ Dir["main"] = NoFile /\ pc' = "open" /\ UNCHANGED todo
        /\ Create("main", Log(logVersion, 0, TRUE))
     \/ /\ Succeeds /\ Dir["main"] # NoFile /\ UNCHANGED disk
        /\ IF Now("main").version < logVersion
             THEN pc' = "copying" /\ todo' = BackupPlan(Dir)
             ELSE pc' = "open" /\ UNCHANGED todo
  /\ UNCHANGED history

(* Mutant: the answer is not looked at. *)
OnMigrate_Ignored ==
  /\ pc = "ask" /\ pc' = "migrate" /\ accepted' \in BOOLEAN
  /\ todo' = IF Now("main").version = 4 THEN HeaderPlan ELSE CompactPlan(Dir)
  /\ UNCHANGED <<disk, old, written, lastOld, faults>>

(* OnMigrate: an error from it ends Open. *)
OnMigrate ==
  /\ pc = "ask"
  /\ \/ /\ accepted' = TRUE /\ pc' = "migrate"
        /\ todo' = IF Now("main").version = 4 THEN HeaderPlan ELSE CompactPlan(Dir)
     \/ pc' = "down" /\ UNCHANGED <<todo, accepted>>
  /\ UNCHANGED <<disk, old, written, lastOld, faults>>

(* Mutant: the record is appended a second time. *)
Write_Twice ==
  /\ pc = "open" /\ written < MaxWrites /\ written' = written + 2
  /\ Set("main", [Now("main") EXCEPT !.data = written + 2])
  /\ UNCHANGED <<pc, todo, old, lastOld, accepted, faults>>

(* A write of this build, synchronized. *)
Write ==
  /\ pc = "open" /\ written < MaxWrites /\ written' = written + 1
  /\ LET c == [Now("main") EXCEPT !.data = written + 1]
     IN  files' = [files EXCEPT ![Dir["main"]] = [now |-> c, synced |-> c]]
  /\ Written
  /\ UNCHANGED <<pc, todo, old, lastOld, accepted, faults>>

Close == pc = "open" /\ pc' = "down" /\ UNCHANGED <<disk, todo, history, faults>>

-----------------------------------------------------------------------------
(* What others do to the files.                                            *)

(* The log is there in the format the older build reads. *)
OldLog == Dir["main"] # NoFile /\ Now("main").version = old

(* The older build writes to the log and synchronizes it. *)
OldWrite ==
  /\ pc = "down" /\ OldLog /\ written < MaxWrites
  /\ Dir["bak"] # NoFile \/ accepted => OldRunsAgain
  /\ LET c == Log(old, written + 1, TRUE)
     IN  files' = [files EXCEPT ![Dir["main"]] = [now |-> c, synced |-> c]]
  /\ Written
  /\ written' = written + 1 /\ lastOld' = written + 1 /\ accepted' = FALSE
  /\ UNCHANGED <<pc, todo, old, faults>>

(* Versions 1 to 3 compacted into one file, synchronized, and removed the  *)
(* log before they renamed it; here that build dies in between.            *)
OldCompact ==
  /\ pc = "down" /\ OldLog /\ old < 4
  /\ \E i \in Free :
       /\ files' = [files EXCEPT ![i] = [now |-> Now("main"), synced |-> Now("main")]]
       /\ dirs'  = <<[Dir EXCEPT !["compact"] = i, !["main"] = NoFile]>>
  /\ UNCHANGED <<pc, todo, history, faults>>

(* The backup is put back over the log, as the README tells to. *)
RollBack ==
  /\ pc = "down" /\ Dir["bak"] # NoFile /\ Now("bak").whole
  /\ RollBackAnyTime \/ \A n \in Artifacts : Dir[n] = NoFile
  /\ dirs' = <<[Dir EXCEPT !["main"] = Dir["bak"], !["bak"] = NoFile]>>
  /\ written' = Now("bak").data /\ lastOld' = written' /\ accepted' = FALSE
  /\ UNCHANGED <<files, pc, todo, old, faults>>

Crash ==
  /\ pc # "down" /\ pc' = "down" /\ todo' = <<>>
  /\ UNCHANGED <<disk, history, faults>>

PowerFailure ==
  /\ pc' = "down" /\ todo' = <<>>
  /\ \E j \in DOMAIN dirs :
     LET named == {dirs[j][n] : n \in Names} \ {NoFile}
     IN  \E g \in [named -> UNION {Leftovers(files[i]) : i \in named}] :
           /\ \A i \in named : g[i] \in Leftovers(files[i])
           /\ dirs' = <<dirs[j]>>
           /\ files' = [i \in Inodes |-> LET c == IF i \in named THEN g[i] ELSE Nothing
                                          IN  [now |-> c, synced |-> c]]
  /\ UNCHANGED <<history, faults>>

Next ==
  \/ Open \/ Step \/ PlanEnds \/ OpenLog \/ OnMigrate \/ Write \/ Close
  \/ OldWrite \/ OldCompact \/ RollBack \/ Crash \/ PowerFailure

Spec == Init /\ [][Next]_vars

-----------------------------------------------------------------------------
Contents == [version : 0..logVersion, data : 0..MaxWrites, whole : BOOLEAN]

(* Every variable has its type. *)
TypeOK ==
  /\ dirs \in Seq([Names -> Inodes \cup {NoFile}]) /\ dirs # <<>>
  /\ files \in [Inodes -> [now : Contents, synced : Contents]]
  /\ pc \in {"down", "recover", "opening", "copying", "ask", "migrate", "undo", "open"}
  /\ old \in FromVersions /\ {written, lastOld} \subseteq 0..MaxWrites /\ accepted \in BOOLEAN
  /\ faults \in 0..MaxFaults

(* P of every log and backup a start may find, after a power failure now.  *)
AlwaysFound(P(_, _)) ==
  \A j \in DOMAIN dirs :
    LET log == dirs[j][Survivor(dirs[j])]
        bak == dirs[j]["bak"]
    IN  \A c \in IF log = NoFile THEN {Nothing} ELSE Leftovers(files[log]) :
        \A b \in IF bak = NoFile THEN {Nothing} ELSE Leftovers(files[bak]) : P(c, b)

(* Whatever was interrupted, recovery, the copy, the rewrite or its error  *)
(* paths, the next start finds every write.                                *)
ContentsKept == AlwaysFound(LAMBDA log, bak : log.whole /\ log.data = written)

(* "without a copy the upgrade cannot be undone" (migrate): a start that   *)
(* finds the log in the new format also finds, complete and in the old     *)
(* format, what the log held when it last had the old format.              *)
WayBack ==
  ~NoMigrationBackup =>
    AlwaysFound(LAMBDA log, bak :
      log.version = logVersion => bak = Log(old, lastOld, TRUE))

(* OnMigrate: "Returning an error aborts Open and leaves the log in its    *)
(* original format", also in what a later recovery makes the log.          *)
OnlyIfAccepted == AlwaysFound(LAMBDA log, bak : log.version = logVersion => accepted)

(* "An old header cannot accept a current record" (Open): no start finds   *)
(* what this build has written under the header of an older format.        *)
NewRecordsNewHeader ==
  AlwaysFound(LAMBDA log, bak : log.data # lastOld => log.version = logVersion)

(* "An existing backup is never replaced": while this build runs, a file   *)
(* under the backup's name keeps its contents.                             *)
BackupNeverReplaced ==
  [][Dir["bak"] # NoFile /\ pc # "down" /\ pc' # "down" =>
       /\ Dir'["bak"] = Dir["bak"]
       /\ files'[Dir["bak"]].now = files[Dir["bak"]].now]_vars
=============================================================================
