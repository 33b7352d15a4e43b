-------------------------- MODULE MigrationProofs ---------------------------
(***************************************************************************)
(* Theorems about Migration, for every set of inodes, every bound and, but *)
(* for the assumptions that a theorem names, every value of the flags.     *)
(*                                                                         *)
(* Two inductive invariants.  Standing says which names there are at each  *)
(* point of Open and what is left to do there; it needs no assumption.     *)
(* Kept says what the files hold under those names, in every directory     *)
(* that a power failure may leave.                                         *)
(***************************************************************************)
EXTENDS Migration, TLAPS

Spares == {"ready", "backup", "compact"}

Logs == {"main"} \cup Spares

Dirs == [Names -> Inodes \cup {NoFile}]

(* No file has two names. *)
OneName(d) == \A m, n \in Names : d[m] # NoFile /\ d[m] = d[n] => m = n

HasLog(d) == \E n \in Logs : d[n] # NoFile

(* s is what is left to do of a plan. *)
Rest(plan, s) ==
  /\ s \in Seq({plan[k] : k \in DOMAIN plan}) /\ Len(s) <= Len(plan)
  /\ \A k \in 1..Len(s) : s[k] = plan[Len(plan) - Len(s) + k]

-----------------------------------------------------------------------------
(* Recovery.                                                               *)

RemoveCall(n) == Call(<<"remove", n>>, <<>>)

RenameCall(n) == Call(<<"rename", n, "main">>, <<>>)

ClearCalls == {RemoveCall(n) : n \in Artifacts} \cup {Call(<<"syncdir">>, <<>>)}

RecoveryCalls == ClearCalls \cup {RenameCall(n) : n \in Spares}

(* What is left to do makes the survivor the log and removes the others. *)
Recovering(d, s) ==
  /\ s \in Seq(RecoveryCalls)
  /\ \/ d["main"] # NoFile /\ \A k \in 1..Len(s) : s[k] \in ClearCalls
     \/ /\ d["main"] = NoFile /\ d[Survivor(d)] # NoFile
        /\ Len(s) > 0 /\ s[1] = RenameCall(Survivor(d))
        /\ \A k \in 2..Len(s) : s[k] \in ClearCalls
  /\ \A n \in Artifacts : d[n] # NoFile =>
       \/ d["main"] = NoFile /\ n = Survivor(d)
       \/ \E k \in 1..Len(s) : s[k] = RemoveCall(n)

-----------------------------------------------------------------------------
(* The copy and the two ways to migrate.                                   *)

Clean(d) == d["main"] # NoFile /\ \A n \in Artifacts : d[n] = NoFile

Copying(d, s) ==
  /\ Rest(CopyPlan, s) /\ Clean(d)
  /\ Len(s) > 1 => d["bak"] = NoFile
  /\ Len(s) < 2 => NoMigrationBackup \/ d["bak"] # NoFile
  /\ Len(s) \in 2..4 => d["bakTemp"] # NoFile

Heading(d, s) == Rest(HeaderPlan, s) /\ Clean(d)

(* With n calls of Compact to make. *)
RewriteNames(d, n) ==
  /\ d["compact"] = NoFile
  /\ d["main"]   = NoFile <=> n = 4
  /\ d["temp"]   = NoFile <=> n \notin 7..9
  /\ d["ready"]  = NoFile <=> n \notin 4..6
  /\ d["backup"] = NoFile <=> n \notin 2..4

RewriteVersions(d, n, f) ==
  /\ n > 4 => f[d["main"]].now.version < logVersion
  /\ n \in 7..8 => f[d["temp"]].now.version = logVersion
  /\ n \in 4..6 => f[d["ready"]].now.version = logVersion
  /\ n < 4 => f[d["main"]].now.version = logVersion

Rewriting(d, s, f) ==
  Rest(RewritePlan, s) /\ RewriteNames(d, Len(s)) /\ RewriteVersions(d, Len(s), f)

Restore == Call(<<"rename", "backup", "main">>, <<>>)

(* The error paths keep a log. *)
Undoing(d, s) ==
  \/ s = <<>>
  \/ \E n \in {"bakTemp", "temp", "ready"} : s = <<RemoveCall(n)>> /\ d["main"] # NoFile
  \/ s = <<Restore>> /\ d["backup"] # NoFile
  \/ s = <<RemoveCall("main"), Restore>> /\ d["backup"] # NoFile

(* At the point p of Open, with the directory d, the calls s still to make *)
(* and the files f: which names there are, and the version of what the log *)
(* holds under them.                                                       *)
At(p, d, s, f) ==
  /\ p = "recover" => Recovering(d, s)
  /\ p \in {"opening", "ask", "open"} => Clean(d) /\ s = <<>>
  /\ p = "copying" => Copying(d, s)
  /\ p \in {"copying", "ask"} => f[d["main"]].now.version < logVersion
  /\ p \in {"ask", "migrate"} => NoMigrationBackup \/ d["bak"] # NoFile
  /\ p = "migrate" =>
       \/ Heading(d, s) /\ (Len(s) < 2 => f[d["main"]].now.version = logVersion)
       \/ Rewriting(d, s, f)
  /\ p = "undo" => Undoing(d, s)
  /\ p = "open" => f[d["main"]].now.version = logVersion

Standing ==
  /\ \A j \in DOMAIN dirs : OneName(dirs[j]) /\ HasLog(dirs[j])
  /\ At(pc, Dir, todo, files)

-----------------------------------------------------------------------------
(* What the files hold.                                                    *)

Original == Log(old, lastOld, TRUE)

Current == Log(logVersion, written, TRUE)

(* What a log may hold: what it held when it last had the old format, if   *)
(* nothing was written since; all writes in the new one, if accepted.      *)
Good == {c \in {Original} : written = lastOld} \cup {c \in {Current} : accepted}

(* With the files f, every file that a start might make the log of the     *)
(* directory d is good, there is a backup for one in the new format, and   *)
(* the backup is the original.                                             *)
KeptIn(d, f, good, original, acc) ==
  /\ \A n \in Logs : d[n] # NoFile =>
       /\ f[d[n]].now \in good /\ f[d[n]].synced \in good
       /\ logVersion \in {f[d[n]].now.version, f[d[n]].synced.version} =>
            NoMigrationBackup \/ d["bak"] # NoFile
  /\ d["bak"] # NoFile => f[d["bak"]].now = original /\ f[d["bak"]].synced = original
  /\ ~acc => /\ d["ready"] = NoFile /\ d["backup"] = NoFile
             /\ d["main"] = NoFile \/ d["compact"] = NoFile

(* At the point p with n calls to make: what the copy and the compaction   *)
(* have in a file that is not the backup, or the log, yet.                 *)
Held(p, n, d, f, original, current, acc) ==
  /\ p = "migrate" => acc
  /\ p = "copying" /\ n \in 2..3 => f[d["bakTemp"]].now = original
  /\ p = "copying" /\ n = 2 => f[d["bakTemp"]].synced = original
  /\ p = "migrate" /\ d["temp"] # NoFile /\ n \in 7..8 => f[d["temp"]].now = current
  /\ p = "migrate" /\ d["temp"] # NoFile /\ n = 7 => f[d["temp"]].synced = current

Kept ==
  /\ \A j \in DOMAIN dirs : KeptIn(dirs[j], files, Good, Original, accepted)
  /\ Held(pc, Len(todo), Dir, files, Original, Current, accepted)

-----------------------------------------------------------------------------
(* Plans.                                                                  *)

(* What each call does to the files, copyLogFile's and Compact's included. *)
LEMMA PerformIs ==
  /\ \A n : Perform(<<"create", n>>) => Create(n, Nothing)
  /\ Perform(<<"copy">>) => Set("bakTemp", Now("main"))
  /\ Perform(<<"rewrite">>) => Set("temp", [Now("main") EXCEPT !.version = logVersion])
  /\ Perform(<<"header">>) => Set("main", [Now("main") EXCEPT !.version = logVersion])
  /\ \A n : Perform(<<"fsync", n>>) => Fsync(n)
  /\ \A m, n : Perform(<<"rename", m, n>>) => Rename(m, n)
  /\ \A n : Perform(<<"remove", n>>) =>
       SetDir([Dir EXCEPT ![n] = NoFile]) /\ UNCHANGED files
  /\ Perform(<<"syncdir">>) => dirs' = <<Dir>> /\ UNCHANGED files
  /\ Perform(<<"reopen">>) => UNCHANGED disk
BY Zenon DEF Perform

(* The next call of a plan, and what is left of it then. *)
LEMMA RestTail ==
  ASSUME NEW S, NEW plan \in Seq(S), NEW s, Rest(plan, s), s # <<>>
  PROVE  /\ Len(s) \in 1..Len(plan) /\ Head(s) = plan[Len(plan) - Len(s) + 1]
         /\ Rest(plan, Tail(s)) /\ Len(Tail(s)) = Len(s) - 1
BY DEF Rest

(* The plans, before their first call and after their last. *)
LEMMA RestEnds ==
  /\ Rest(CopyPlan, CopyPlan) /\ Len(CopyPlan) = 5 /\ Rest(CopyPlan, <<>>)
  /\ Rest(HeaderPlan, HeaderPlan) /\ Len(HeaderPlan) = 2
  /\ Rest(RewritePlan, RewritePlan) /\ Len(RewritePlan) = 10
BY DEF Rest, CopyPlan, HeaderPlan, RewritePlan

(* Each call of the copy. *)
LEMMA CopyCalls ==
  /\ \E S : CopyPlan \in Seq(S)
  /\ CopyPlan[1].op = <<"create", "bakTemp">> /\ CopyPlan[1].undo = <<>>
  /\ CopyPlan[2].op = <<"copy">> /\ CopyPlan[2].undo = <<<<"remove", "bakTemp">>>>
  /\ CopyPlan[3].op = <<"fsync", "bakTemp">>
  /\ CopyPlan[3].undo = <<<<"remove", "bakTemp">>>>
  /\ CopyPlan[4].op = <<"rename", "bakTemp", "bak">>
  /\ CopyPlan[4].undo = <<<<"remove", "bakTemp">>>>
  /\ CopyPlan[5].op = <<"syncdir">> /\ CopyPlan[5].undo = <<>>
<1>1. CopyPlan \in Seq({CopyPlan[k] : k \in 1..5})
  BY DEF CopyPlan
<1>2. QED
  BY <1>1, Zenon DEF CopyPlan, Call

(* Each call of setVersion. *)
LEMMA HeaderCalls ==
  /\ \E S : HeaderPlan \in Seq(S)
  /\ HeaderPlan[1].op = <<"header">> /\ HeaderPlan[1].undo = <<>>
  /\ HeaderPlan[2].op = <<"fsync", "main">> /\ HeaderPlan[2].undo = <<>>
<1>1. HeaderPlan \in Seq({HeaderPlan[k] : k \in 1..2})
  BY DEF HeaderPlan
<1>2. QED
  BY <1>1, Zenon DEF HeaderPlan, Call

(* Each call of Compact. *)
LEMMA RewriteCalls ==
  /\ \E S : RewritePlan \in Seq(S)
  /\ RewritePlan[1].op = <<"create", "temp">> /\ RewritePlan[1].undo = <<>>
  /\ RewritePlan[2].op = <<"rewrite">> /\ RewritePlan[2].undo = <<<<"remove", "temp">>>>
  /\ RewritePlan[3].op = <<"fsync", "temp">>
  /\ RewritePlan[3].undo = <<<<"remove", "temp">>>>
  /\ RewritePlan[4].op = <<"rename", "temp", "ready">>
  /\ RewritePlan[4].undo = <<<<"remove", "temp">>>>
  /\ RewritePlan[5].op = <<"syncdir">> /\ RewritePlan[5].undo = <<<<"remove", "ready">>>>
  /\ RewritePlan[6].op = <<"rename", "main", "backup">>
  /\ RewritePlan[6].undo = <<<<"remove", "ready">>>>
  /\ RewritePlan[7].op = <<"rename", "ready", "main">>
  /\ RewritePlan[7].undo = <<<<"rename", "backup", "main">>>>
  /\ RewritePlan[8].op = <<"reopen">>
  /\ RewritePlan[8].undo = <<<<"remove", "main">>, <<"rename", "backup", "main">>>>
  /\ RewritePlan[9].op = <<"remove", "backup">> /\ RewritePlan[9].undo = <<>>
  /\ RewritePlan[10].op = <<"syncdir">> /\ RewritePlan[10].undo = <<>>
<1>1. RewritePlan \in Seq({RewritePlan[k] : k \in 1..10})
  BY DEF RewritePlan
<1>2. QED
  BY <1>1, Zenon DEF RewritePlan, Call

-----------------------------------------------------------------------------
(* Directories.                                                            *)

FileStates == [Inodes -> [now : Contents, synced : Contents]]

(* The directory becomes d, and what a power failure may leave is that or  *)
(* one that it might have left before.                                     *)
Moves(d) ==
  /\ dirs' \in Seq(Dirs) /\ dirs' # <<>> /\ Dir' = d
  /\ \A j \in DOMAIN dirs' : dirs'[j] = d \/ \E k \in DOMAIN dirs : dirs'[j] = dirs[k]

(* The directory is one of those that a power failure may leave. *)
LEMMA DirIs == TypeOK => Dir \in Dirs /\ Len(dirs) \in DOMAIN dirs /\ dirs \in Seq(Dirs)
BY DEF TypeOK, Dir, Dirs

(* A change of the directory. *)
LEMMA SetDirMoves == ASSUME TypeOK, NEW d \in Dirs, SetDir(d) PROVE Moves(d)
<1>1. dirs \in Seq(Dirs) /\ dirs # <<>> /\ Len(dirs) \in DOMAIN dirs
  BY DirIs, Zenon DEF TypeOK
<1>2. CASE d = Dir
  BY <1>1, <1>2, Zenon DEF SetDir, Moves, Dir
<1>3. CASE d # Dir
  <2>1. dirs' = Append(dirs, d)
    BY <1>3, Zenon DEF SetDir
  <2>2. QED
    BY <1>1, <2>1 DEF Moves, Dir
<1>4. QED
  BY <1>2, <1>3, Zenon

(* Directories that are durable at once. *)
LEMMA SyncMoves == ASSUME TypeOK, NEW d \in Dirs, dirs' = <<d>> PROVE Moves(d)
BY DEF Moves, Dir

(* A write to a file. *)
LEMMA WrittenMoves ==
  ASSUME TypeOK, Written
  PROVE  Moves(Dir) /\ (DirectoryFirst => dirs' = <<Dir>>)
BY DirIs DEF Written, Moves, Dir, TypeOK

(* The directory does not change. *)
LEMMA SameMoves == ASSUME TypeOK, UNCHANGED dirs PROVE Moves(Dir)
BY DirIs, Zenon DEF Moves, Dir, TypeOK

Fit(d) == d \in Dirs /\ OneName(d) /\ HasLog(d)

(* A removal leaves a fit directory while another log is there. *)
LEMMA RemoveFits ==
  ASSUME NEW d, Fit(d), NEW n \in Names, \E m \in Logs : m # n /\ d[m] # NoFile
  PROVE  Fit([d EXCEPT ![n] = NoFile])
<1>1. Logs \subseteq Names
  BY Zenon DEF Logs, Spares, Names, Artifacts
<1>2. QED
  BY <1>1, Zenon DEF Fit, Dirs, OneName, HasLog

(* So does a rename to the name of a log or of a file that is not one. *)
LEMMA RenameFits ==
  ASSUME NEW d, Fit(d), NEW m \in Names, NEW n \in Names, m # n, d[m] # NoFile,
         n \in Logs \/ m \notin Logs
  PROVE  Fit([d EXCEPT ![n] = d[m], ![m] = NoFile])
<1>1. Logs \subseteq Names
  BY Zenon DEF Logs, Spares, Names, Artifacts
<1> DEFINE e == [d EXCEPT ![n] = d[m], ![m] = NoFile]
<1>2. e \in Dirs /\ e[n] = d[m] /\ e[m] = NoFile /\ \A x \in Names \ {m, n} : e[x] = d[x]
  BY Zenon DEF Fit, Dirs
<1>3. OneName(e)
  BY <1>2 DEF Fit, OneName
<1>4. HasLog(e)
  BY <1>1, <1>2, Zenon DEF Fit, HasLog
<1>5. QED
  BY <1>2, <1>3, <1>4, Zenon DEF Fit

(* A new file. *)
LEMMA CreateFits ==
  ASSUME TypeOK, Fit(Dir), NEW i \in Free, NEW n \in Names, Dir[n] = NoFile
  PROVE  Fit([Dir EXCEPT ![n] = i]) /\ i \in Inodes /\ i # NoFile
<1>1. i \in Inodes /\ i # NoFile /\ \A x \in Names : Dir[x] # i
  BY DirIs, NoFileAssumption, Zenon DEF Free, Dir
<1>2. QED
  BY <1>1, Zenon DEF Fit, Dirs, OneName, HasLog, Logs, Spares, Names, Artifacts

(* Every directory that a power failure may leave is fit. *)
LEMMA AllFit ==
  TypeOK /\ Standing => Fit(Dir) /\ \A j \in DOMAIN dirs : Fit(dirs[j])
BY DirIs DEF TypeOK, Standing, Fit, Dirs, Dir

(* In the directory d, every name but n is as it was, and so is its file. *)
Others(d, n) ==
  \A m \in Names \ {n} :
    d[m] = Dir[m] /\ (d[m] # NoFile => files'[d[m]] = files[d[m]])

(* A file that is there gets other contents. *)
LEMMA SetIs ==
  ASSUME TypeOK, Fit(Dir), NEW n \in Names, NEW c \in Contents, Set(n, c), Dir[n] # NoFile
  PROVE  /\ Moves(Dir) /\ files' \in FileStates /\ Others(Dir, n)
         /\ files'[Dir[n]].now = c /\ files'[Dir[n]].synced = files[Dir[n]].synced
         /\ DirectoryFirst => dirs' = <<Dir>>
<1>1. files \in FileStates /\ Dir \in Dirs
  BY DirIs, Zenon DEF TypeOK, FileStates
<1>2. files' = [files EXCEPT ![Dir[n]].now = c] /\ Written
  BY Zenon DEF Set
<1>3. Dir[n] \in Inodes
  BY <1>1, Zenon DEF Dirs
<1>4. /\ files' \in FileStates /\ files'[Dir[n]].now = c
      /\ files'[Dir[n]].synced = files[Dir[n]].synced
      /\ \A i \in Inodes \ {Dir[n]} : files'[i] = files[i]
  BY <1>1, <1>2, <1>3, Zenon DEF FileStates
<1>5. Others(Dir, n)
  BY <1>1, <1>4, Zenon DEF Others, Fit, OneName, Dirs
<1>6. QED
  BY <1>2, <1>4, <1>5, WrittenMoves, Zenon

(* A file that is there is synchronized. *)
LEMMA FsyncIs ==
  ASSUME TypeOK, Fit(Dir), NEW n \in Names, Fsync(n), Dir[n] # NoFile
  PROVE  /\ Moves(Dir) /\ files' \in FileStates /\ Others(Dir, n)
         /\ files'[Dir[n]].now = Now(n) /\ files'[Dir[n]].synced = Now(n)
         /\ DirectoryFirst => dirs' = <<Dir>>
<1>1. files \in FileStates /\ Dir \in Dirs
  BY DirIs, Zenon DEF TypeOK, FileStates
<1>2. files' = [files EXCEPT ![Dir[n]].synced = Now(n)] /\ Written
  BY Zenon DEF Fsync
<1>3. Dir[n] \in Inodes
  BY <1>1, Zenon DEF Dirs
<1>4. /\ files' \in FileStates /\ files'[Dir[n]].now = Now(n)
      /\ files'[Dir[n]].synced = Now(n)
      /\ \A i \in Inodes \ {Dir[n]} : files'[i] = files[i]
  BY <1>1, <1>2, <1>3, Zenon DEF FileStates, Now
<1>5. Others(Dir, n)
  BY <1>1, <1>4, Zenon DEF Others, Fit, OneName, Dirs
<1>6. QED
  BY <1>2, <1>4, <1>5, WrittenMoves, Zenon

(* What a power failure might leave before is left alone, or can no longer *)
(* be left.                                                                *)
Sheltered(d) ==
  DirectoryFirst =>
    \/ dirs' = <<d>>
    \/ \A k \in DOMAIN dirs : \A m \in Names :
         dirs[k][m] # NoFile => files'[dirs[k][m]] = files[dirs[k][m]]

Created(d, n) ==
  /\ Moves(d) /\ Fit(d) /\ files' \in FileStates /\ Others(d, n) /\ d[n] # NoFile
  /\ Sheltered(d)

(* A file is created under a name, or the one there is emptied. *)
LEMMA CreateIs ==
  ASSUME TypeOK, Standing, NEW n \in Names, Create(n, Nothing)
  PROVE  \E d : Created(d, n)
<1>1. Nothing \in Contents
  BY BoundAssumption DEF Nothing, Log, Contents, logVersion
<1>2. Fit(Dir) /\ Dir \in Dirs /\ files \in FileStates /\ dirs \in Seq(Dirs)
  BY AllFit, DirIs, Zenon DEF Fit, TypeOK, FileStates
<1>3. CASE Dir[n] # NoFile /\ Set(n, Nothing)
  <2>1. Created(Dir, n)
    BY <1>1, <1>2, <1>3, SetIs, Zenon DEF Created, Sheltered
  <2>2. QED
    BY <2>1, Zenon
<1>4. CASE Dir[n] = NoFile
  <2>1. PICK i \in Free : /\ files' = [files EXCEPT ![i] = [now |-> Nothing, synced |-> Nothing]]
                          /\ SetDir([Dir EXCEPT ![n] = i])
    BY <1>4, Zenon DEF Create
  <2> DEFINE d == [Dir EXCEPT ![n] = i]
  <2>2. Fit(d) /\ i \in Inodes /\ i # NoFile
    BY <1>2, <1>4, CreateFits, Zenon
  <2>3. Moves(d)
    BY <2>1, <2>2, SetDirMoves, Zenon DEF Fit
  <2>4. files' \in FileStates /\ \A x \in Inodes \ {i} : files'[x] = files[x]
    BY <1>1, <1>2, <2>1, <2>2, Zenon DEF FileStates
  <2>5. \A k \in DOMAIN dirs : dirs[k] \in Dirs /\ \A m \in Names : dirs[k][m] # i
    BY <1>2 DEF Free
  <2>6. \A k \in DOMAIN dirs : \A m \in Names :
          dirs[k][m] # NoFile => files'[dirs[k][m]] = files[dirs[k][m]]
    BY <2>4, <2>5, Zenon DEF Dirs
  <2>7. Others(d, n)
    BY <1>2, <2>6, DirIs, Zenon DEF Others, Dirs, Dir
  <2>8. d[n] = i
    BY <1>2, Zenon DEF Dirs
  <2>9. Created(d, n)
    BY <2>2, <2>3, <2>4, <2>6, <2>7, <2>8, Zenon DEF Created, Sheltered
  <2>10. QED
    BY <2>9, Zenon
<1>5. QED
  BY <1>3, <1>4, Zenon DEF Create

-----------------------------------------------------------------------------
(* Standing: the calls of the plans.                                       *)

Points == {"down", "recover", "opening", "copying", "ask", "migrate", "undo", "open"}

HistoryType ==
  old \in FromVersions /\ {written, lastOld} \subseteq 0..MaxWrites /\ accepted \in BOOLEAN

(* What a step has to show: the directory it leaves is fit, and the next   *)
(* point of Open stands there.                                             *)
LEMMA StandsAnyway ==
  ASSUME TypeOK, Standing, NEW d, Moves(d), Fit(d), files' \in FileStates,
         pc' \in Points, HistoryType', faults' \in 0..MaxFaults,
         At(pc', d, todo', files')
  PROVE  TypeOK' /\ Standing'
<1>1. dirs' \in Seq(Dirs) /\ dirs' # <<>> /\ Dir' = d
  BY Zenon DEF Moves
<1>2. TypeOK'
  BY <1>1, Zenon DEF TypeOK, Dirs, FileStates, Points, HistoryType
<1>3. \A j \in DOMAIN dirs' : OneName(dirs'[j]) /\ HasLog(dirs'[j])
  BY AllFit, Zenon DEF Moves, Fit
<1>4. QED
  BY <1>1, <1>2, <1>3, Zenon DEF Standing

(* When what has been written and accepted does not change. *)
LEMMA Stands ==
  ASSUME TypeOK, Standing, NEW d, Moves(d), Fit(d), files' \in FileStates,
         pc' \in Points, UNCHANGED history, faults' \in 0..MaxFaults,
         At(pc', d, todo', files')
  PROVE  TypeOK' /\ Standing'
<1>1. HistoryType'
  BY Zenon DEF TypeOK, HistoryType, history
<1>2. QED
  BY <1>1, StandsAnyway, Zenon

(* The count of failing calls. *)
LEMMA FaultsType == TypeOK /\ (Succeeds \/ Fails) => faults' \in 0..MaxFaults
BY BoundAssumption DEF TypeOK, Succeeds, Fails

(* A call of recoverCompactionArtifacts. *)
LEMMA RecoverStep ==
  ASSUME TypeOK, Standing, pc = "recover", todo # <<>>, Succeeds,
         Perform(Head(todo).op), todo' = Tail(todo), pc' = pc, UNCHANGED history
  PROVE  TypeOK' /\ Standing'
<1>1. Recovering(Dir, todo) /\ Fit(Dir) /\ Dir \in Dirs /\ files \in FileStates
  BY AllFit, Zenon DEF Standing, At, Fit, TypeOK, FileStates
<1>2. todo \in Seq(RecoveryCalls) /\ Len(todo) \in Nat \ {0} /\ Head(todo) = todo[1]
  BY <1>1 DEF Recovering
<1>3. /\ Tail(todo) \in Seq(RecoveryCalls) /\ Len(Tail(todo)) = Len(todo) - 1
      /\ \A k \in 1..Len(Tail(todo)) : Tail(todo)[k] = todo[k + 1]
  BY <1>2
<1>4. ASSUME NEW d, Moves(d), Fit(d), UNCHANGED files, Recovering(d, Tail(todo))
      PROVE  TypeOK' /\ Standing'
  <2>1. At(pc', d, todo', files')
    BY <1>4, Zenon DEF At
  <2>2. QED
    BY <1>1, <1>4, <2>1, FaultsType, Stands, Zenon DEF Points
<1>5. CASE Dir["main"] # NoFile
  <2>1. \A k \in 1..Len(todo) : todo[k] \in ClearCalls
    BY <1>1, <1>5, Zenon DEF Recovering
  <2>2. \A n \in Artifacts : Dir[n] # NoFile => \E k \in 1..Len(todo) : todo[k] = RemoveCall(n)
    BY <1>1, <1>5, Zenon DEF Recovering
  <2>3. \A k \in 1..Len(Tail(todo)) : Tail(todo)[k] \in ClearCalls
    BY <1>2, <1>3, <2>1
  <2>4. ASSUME NEW n \in Artifacts, todo[1] = RemoveCall(n)
        PROVE  TypeOK' /\ Standing'
    <3> DEFINE d == [Dir EXCEPT ![n] = NoFile]
    <3>1. n \in Names /\ n # "main" /\ "main" \in Logs
      BY <2>4, Zenon DEF Names, Artifacts, Logs
    <3>2. Fit(d) /\ d["main"] # NoFile /\ d[n] = NoFile /\ \A m \in Artifacts \ {n} : d[m] = Dir[m]
      <4>1. Fit(d)
        BY <1>1, <1>5, <3>1, RemoveFits, Zenon
      <4>2. QED
        BY <1>1, <1>5, <3>1, <4>1, Zenon DEF Dirs, Names
    <3>3. SetDir(d) /\ UNCHANGED files
      BY <1>2, <2>4, PerformIs, SMTT(30) DEF RemoveCall, Call
    <3>4. Moves(d)
      BY <3>2, <3>3, SetDirMoves, Zenon DEF Fit
    <3>5. \A m \in Artifacts : d[m] # NoFile =>
            \E k \in 1..Len(Tail(todo)) : Tail(todo)[k] = RemoveCall(m)
      <4> SUFFICES ASSUME NEW m \in Artifacts, d[m] # NoFile
                   PROVE  \E k \in 1..Len(Tail(todo)) : Tail(todo)[k] = RemoveCall(m)
        OBVIOUS
      <4>1. m # n /\ Dir[m] # NoFile
        BY <3>2, Zenon
      <4>2. PICK k \in 1..Len(todo) : todo[k] = RemoveCall(m)
        BY <2>2, <4>1, Zenon
      <4>3. k # 1
        BY <2>4, <4>1, <4>2 DEF RemoveCall, Call
      <4>4. k - 1 \in 1..Len(Tail(todo)) /\ Tail(todo)[k - 1] = todo[k]
        BY <1>2, <1>3, <4>3
      <4>5. QED
        BY <4>2, <4>4, Zenon
    <3>6. Recovering(d, Tail(todo))
      BY <1>3, <2>3, <3>2, <3>5, Zenon DEF Recovering
    <3>7. QED
      BY <1>4, <3>2, <3>3, <3>4, <3>6, Zenon
  <2>5. ASSUME todo[1] = Call(<<"syncdir">>, <<>>)
        PROVE  TypeOK' /\ Standing'
    <3>1. dirs' = <<Dir>> /\ UNCHANGED files
      BY <1>2, <2>5, PerformIs DEF Call
    <3>2. Moves(Dir)
      BY <1>1, <3>1, SyncMoves, Zenon
    <3>3. \A m \in Artifacts : Dir[m] # NoFile =>
            \E k \in 1..Len(Tail(todo)) : Tail(todo)[k] = RemoveCall(m)
      <4> SUFFICES ASSUME NEW m \in Artifacts, Dir[m] # NoFile
                   PROVE  \E k \in 1..Len(Tail(todo)) : Tail(todo)[k] = RemoveCall(m)
        OBVIOUS
      <4>1. PICK k \in 1..Len(todo) : todo[k] = RemoveCall(m)
        BY <2>2, Zenon
      <4>2. k # 1
        BY <2>5, <4>1 DEF RemoveCall, Call
      <4>3. k - 1 \in 1..Len(Tail(todo)) /\ Tail(todo)[k - 1] = todo[k]
        BY <1>2, <1>3, <4>2
      <4>4. QED
        BY <4>1, <4>3, Zenon
    <3>4. Recovering(Dir, Tail(todo))
      BY <1>3, <1>5, <2>3, <3>3, Zenon DEF Recovering
    <3>5. QED
      BY <1>1, <1>4, <3>1, <3>2, <3>4, Zenon
  <2>6. QED
    BY <1>2, <2>1, <2>4, <2>5 DEF ClearCalls
<1>6. CASE Dir["main"] = NoFile
  <2> DEFINE from == Survivor(Dir)
             d    == [Dir EXCEPT !["main"] = Dir[from], ![from] = NoFile]
  <2>1. /\ Dir[from] # NoFile /\ todo[1] = RenameCall(from)
        /\ \A k \in 2..Len(todo) : todo[k] \in ClearCalls
    BY <1>1, <1>6, Zenon DEF Recovering
  <2>2. from \in Artifacts \cap Names /\ from # "main" /\ "main" \in Names \cap Logs
    BY <1>6, Zenon DEF Survivor, Names, Artifacts, Logs
  <2>3. /\ Fit(d) /\ d["main"] # NoFile /\ d[from] = NoFile
        /\ \A m \in Artifacts \ {from} : d[m] = Dir[m]
    <3>1. Fit(d)
      BY <1>1, <2>1, <2>2, RenameFits, Zenon
    <3>2. QED
      BY <1>1, <2>1, <2>2, <3>1, Zenon DEF Dirs, Names, Artifacts
  <2>4. SetDir(d) /\ UNCHANGED files
    <3>1. Perform(<<"rename", from, "main">>)
      BY <1>2, <2>1 DEF RenameCall, Call
    <3>2. Rename(from, "main")
      BY <3>1, PerformIs, Zenon
    <3>3. QED
      BY <3>2, Zenon DEF Rename
  <2>5. Moves(d)
    BY <2>3, <2>4, SetDirMoves, Zenon DEF Fit
  <2>6. \A m \in Artifacts : d[m] # NoFile =>
          \E k \in 1..Len(Tail(todo)) : Tail(todo)[k] = RemoveCall(m)
    <3> SUFFICES ASSUME NEW m \in Artifacts, d[m] # NoFile
                 PROVE  \E k \in 1..Len(Tail(todo)) : Tail(todo)[k] = RemoveCall(m)
      OBVIOUS
    <3>1. m # from /\ Dir[m] # NoFile
      BY <2>3, Zenon
    <3>2. PICK k \in 1..Len(todo) : todo[k] = RemoveCall(m)
      BY <1>1, <3>1, Zenon DEF Recovering
    <3>3. k # 1
      BY <2>1, <3>2 DEF RemoveCall, RenameCall, Call
    <3>4. k - 1 \in 1..Len(Tail(todo)) /\ Tail(todo)[k - 1] = todo[k]
      BY <1>2, <1>3, <3>3
    <3>5. QED
      BY <3>2, <3>4, Zenon
  <2>7. \A k \in 1..Len(Tail(todo)) : Tail(todo)[k] \in ClearCalls
    BY <1>2, <1>3, <2>1
  <2>8. Recovering(d, Tail(todo))
    BY <1>3, <2>3, <2>6, <2>7, Zenon DEF Recovering
  <2>9. QED
    BY <1>4, <2>3, <2>4, <2>5, <2>8, Zenon
<1>7. QED
  BY <1>5, <1>6, Zenon

(* A directory in which only a name that is no log's changes stays fit and *)
(* clean.                                                                  *)
LEMMA CleanStays ==
  ASSUME NEW d, NEW e, Clean(d), \A m \in Names \ {"bakTemp", "bak"} : e[m] = d[m]
  PROVE  Clean(e)
BY Zenon DEF Clean, Names, Artifacts

(* With n calls of copyLogFile to make, h is the first and t are the others. *)
CopyNext(n, h, t) ==
  /\ Rest(CopyPlan, t) /\ n \in 1..5 /\ Len(t) = n - 1
  /\ n = 5 => h.op = <<"create", "bakTemp">> /\ h.undo = <<>>
  /\ n = 4 => h.op = <<"copy">>
  /\ n = 3 => h.op = <<"fsync", "bakTemp">>
  /\ n = 2 => h.op = <<"rename", "bakTemp", "bak">>
  /\ n \in 2..4 => h.undo = <<<<"remove", "bakTemp">>>>
  /\ n = 1 => h.op = <<"syncdir">> /\ h.undo = <<>>

(* It is as copyLogFile says. *)
LEMMA CopyNexts ==
  ASSUME NEW s, Rest(CopyPlan, s), s # <<>>
  PROVE  \E n, h, t : n = Len(s) /\ h = Head(s) /\ t = Tail(s) /\ CopyNext(n, h, t)
<1>1. PICK S : CopyPlan \in Seq(S)
  BY CopyCalls, Zenon
<1>2. PICK n, h, t : n = Len(s) /\ h = Head(s) /\ t = Tail(s)
  OBVIOUS
<1>3. n \in 1..5 /\ h = CopyPlan[5 - n + 1] /\ Rest(CopyPlan, t) /\ Len(t) = n - 1
  <2>1. /\ Len(s) \in 1..Len(CopyPlan) /\ Head(s) = CopyPlan[Len(CopyPlan) - Len(s) + 1]
        /\ Rest(CopyPlan, Tail(s)) /\ Len(Tail(s)) = Len(s) - 1
    BY <1>1, RestTail, Zenon
  <2>2. QED
    BY <1>2, <2>1, RestEnds, Zenon
<1>4. CopyNext(n, h, t)
  BY <1>3, CopyCalls DEF CopyNext
<1>5. QED
  BY <1>2, <1>4, Zenon

(* A call of copyLogFile. *)
LEMMA CopyStep ==
  ASSUME TypeOK, Standing, pc = "copying", todo # <<>>, Succeeds,
         Perform(Head(todo).op), todo' = Tail(todo), pc' = pc, UNCHANGED history
  PROVE  TypeOK' /\ Standing'
<1>1. /\ Copying(Dir, todo) /\ Fit(Dir) /\ Dir \in Dirs /\ files \in FileStates
      /\ files[Dir["main"]].now.version < logVersion
  BY AllFit, Zenon DEF Standing, At, Fit, TypeOK, FileStates
<1>2. PICK n, h, t : /\ n = Len(todo) /\ h = Head(todo) /\ t = Tail(todo)
                     /\ CopyNext(n, h, t)
  BY <1>1, CopyNexts, Zenon DEF Copying
<1>3. /\ Rest(CopyPlan, t) /\ n \in 1..5 /\ Len(t) = n - 1 /\ todo' = t
      /\ Perform(h.op)
  BY <1>2, Zenon DEF CopyNext
<1>4. ASSUME NEW d, Moves(d), Fit(d), files' \in FileStates, Copying(d, t),
             files'[d["main"]].now.version < logVersion
      PROVE  TypeOK' /\ Standing'
  <2>1. At("copying", d, t, files')
    BY <1>4, Zenon DEF At
  <2>2. QED
    BY <1>3, <1>4, <2>1, FaultsType, Stands, Zenon DEF Points
<1>5. /\ Clean(Dir) /\ Dir["main"] # NoFile /\ Dir["main"] \in Inodes
      /\ n > 1 => Dir["bak"] = NoFile
      /\ n < 2 => NoMigrationBackup \/ Dir["bak"] # NoFile
      /\ n \in 2..4 => Dir["bakTemp"] # NoFile
  BY <1>1, <1>2, Zenon DEF Copying, Clean, Dirs, Names
<1>6. {"main", "bak", "bakTemp"} \subseteq Names
  BY Zenon DEF Names
<1>7. CASE n = 5
  <2>0. h.op = <<"create", "bakTemp">>
    BY <1>2, <1>7, Zenon DEF CopyNext
  <2>1. Create("bakTemp", Nothing)
    BY <1>3, <1>7, <2>0, PerformIs, Zenon
  <2>2. PICK d : Created(d, "bakTemp")
    BY <1>6, <2>1, CreateIs, Zenon
  <2>3. /\ Moves(d) /\ Fit(d) /\ files' \in FileStates /\ d["bakTemp"] # NoFile
        /\ \A m \in Names \ {"bakTemp"} : d[m] = Dir[m]
        /\ files'[d["main"]] = files[Dir["main"]]
    BY <1>5, <1>6, <2>2, Zenon DEF Created, Others
  <2>4. Clean(d)
    BY <1>5, <2>3, CleanStays, Zenon
  <2>5. Copying(d, t)
    BY <1>3, <1>5, <1>6, <1>7, <2>3, <2>4 DEF Copying
  <2>6. QED
    BY <1>1, <1>4, <2>3, <2>5, Zenon
<1>8. CASE n = 4
  <2>0. h.op = <<"copy">>
    BY <1>2, <1>8, Zenon DEF CopyNext
  <2>1. Set("bakTemp", Now("main"))
    BY <1>3, <1>8, <2>0, PerformIs, Zenon
  <2>2. Now("main") \in Contents
    BY <1>1, <1>5, Zenon DEF Now, FileStates
  <2>3. Moves(Dir) /\ files' \in FileStates /\ Others(Dir, "bakTemp")
    BY <1>1, <1>5, <1>6, <1>8, <2>1, <2>2, SetIs
  <2>4. files'[Dir["main"]] = files[Dir["main"]]
    BY <1>5, <1>6, <2>3, Zenon DEF Others
  <2>5. Copying(Dir, t)
    BY <1>3, <1>5, <1>8 DEF Copying
  <2>6. QED
    BY <1>1, <1>4, <2>3, <2>4, <2>5, Zenon
<1>9. CASE n = 3
  <2>0. h.op = <<"fsync", "bakTemp">>
    BY <1>2, <1>9, Zenon DEF CopyNext
  <2>1. Fsync("bakTemp")
    BY <1>3, <1>9, <2>0, PerformIs, Zenon
  <2>2. Moves(Dir) /\ files' \in FileStates /\ Others(Dir, "bakTemp")
    BY <1>1, <1>5, <1>6, <1>9, <2>1, FsyncIs
  <2>3. files'[Dir["main"]] = files[Dir["main"]]
    BY <1>5, <1>6, <2>2, Zenon DEF Others
  <2>4. Copying(Dir, t)
    BY <1>3, <1>5, <1>9 DEF Copying
  <2>5. QED
    BY <1>1, <1>4, <2>2, <2>3, <2>4, Zenon
<1>10. CASE n = 2
  <2>0. h.op = <<"rename", "bakTemp", "bak">>
    BY <1>2, <1>10, Zenon DEF CopyNext
  <2> DEFINE d == [Dir EXCEPT !["bak"] = Dir["bakTemp"], !["bakTemp"] = NoFile]
  <2>1. Rename("bakTemp", "bak")
    BY <1>3, <1>10, <2>0, PerformIs, Zenon
  <2>2. SetDir(d) /\ UNCHANGED files
    BY <2>1, Zenon DEF Rename
  <2>3. Fit(d)
    BY <1>1, <1>5, <1>6, <1>10, RenameFits DEF Logs, Spares
  <2>4. Moves(d)
    BY <2>2, <2>3, SetDirMoves, Zenon DEF Fit
  <2>5. d["bak"] # NoFile /\ \A m \in Names \ {"bakTemp", "bak"} : d[m] = Dir[m]
    BY <1>1, <1>5, <1>6, <1>10 DEF Dirs
  <2>6. Clean(d) /\ d["main"] = Dir["main"]
    BY <1>5, <1>6, <2>5, CleanStays, Zenon
  <2>7. Copying(d, t)
    BY <1>3, <1>10, <2>5, <2>6 DEF Copying
  <2>8. QED
    BY <1>1, <1>4, <2>2, <2>3, <2>4, <2>6, <2>7, Zenon
<1>11. CASE n = 1
  <2>0. h.op = <<"syncdir">>
    BY <1>2, <1>11, Zenon DEF CopyNext
  <2>1. dirs' = <<Dir>> /\ UNCHANGED files
    BY <1>3, <1>11, <2>0, PerformIs, Zenon
  <2>2. Moves(Dir)
    BY <1>1, <2>1, SyncMoves, Zenon
  <2>3. Copying(Dir, t)
    BY <1>3, <1>5, <1>11 DEF Copying
  <2>4. QED
    BY <1>1, <1>4, <2>1, <2>2, <2>3, Zenon
<1>12. QED
  BY <1>3, <1>7, <1>8, <1>9, <1>10, <1>11

(* With n calls of setVersion to make, h is the first and t are the others. *)
HeaderNext(n, h, t) ==
  /\ Rest(HeaderPlan, t) /\ n \in 1..2 /\ Len(t) = n - 1 /\ h.undo = <<>>
  /\ n = 2 => h.op = <<"header">>
  /\ n = 1 => h.op = <<"fsync", "main">>

(* It is as setVersion says. *)
LEMMA HeaderNexts ==
  ASSUME NEW s, Rest(HeaderPlan, s), s # <<>>
  PROVE  \E n, h, t : n = Len(s) /\ h = Head(s) /\ t = Tail(s) /\ HeaderNext(n, h, t)
<1>1. PICK S : HeaderPlan \in Seq(S)
  BY HeaderCalls, Zenon
<1>2. PICK n, h, t : n = Len(s) /\ h = Head(s) /\ t = Tail(s)
  OBVIOUS
<1>3. n \in 1..2 /\ h = HeaderPlan[2 - n + 1] /\ Rest(HeaderPlan, t) /\ Len(t) = n - 1
  <2>1. /\ Len(s) \in 1..Len(HeaderPlan)
        /\ Head(s) = HeaderPlan[Len(HeaderPlan) - Len(s) + 1]
        /\ Rest(HeaderPlan, Tail(s)) /\ Len(Tail(s)) = Len(s) - 1
    BY <1>1, RestTail, Zenon
  <2>2. QED
    BY <1>2, <2>1, RestEnds, Zenon
<1>4. HeaderNext(n, h, t)
  <2>1. CASE n = 2
    <3>1. h = HeaderPlan[1]
      BY <1>3, <2>1
    <3>2. QED
      BY <1>3, <2>1, <3>1, HeaderCalls DEF HeaderNext
  <2>2. CASE n = 1
    <3>1. h = HeaderPlan[2]
      BY <1>3, <2>2
    <3>2. QED
      BY <1>3, <2>2, <3>1, HeaderCalls DEF HeaderNext
  <2>3. QED
    BY <1>3, <2>1, <2>2
<1>5. QED
  BY <1>2, <1>4, Zenon

(* With n calls of Compact to make, h is the first and t are the others. *)
RewriteNext(n, h, t) ==
  /\ Rest(RewritePlan, t) /\ n \in 1..10 /\ Len(t) = n - 1
  /\ n = 10 => h.op = <<"create", "temp">>
  /\ n = 9 => h.op = <<"rewrite">>
  /\ n = 8 => h.op = <<"fsync", "temp">>
  /\ n = 7 => h.op = <<"rename", "temp", "ready">>
  /\ n = 6 => h.op = <<"syncdir">>
  /\ n = 5 => h.op = <<"rename", "main", "backup">>
  /\ n = 4 => h.op = <<"rename", "ready", "main">>
  /\ n = 3 => h.op = <<"reopen">>
  /\ n = 2 => h.op = <<"remove", "backup">>
  /\ n = 1 => h.op = <<"syncdir">>
  /\ n \in {1, 2, 10} => h.undo = <<>>
  /\ n \in 7..9 => h.undo = <<<<"remove", "temp">>>>
  /\ n \in 5..6 => h.undo = <<<<"remove", "ready">>>>
  /\ n = 4 => h.undo = <<<<"rename", "backup", "main">>>>
  /\ n = 3 => h.undo = <<<<"remove", "main">>, <<"rename", "backup", "main">>>>

(* It is as Compact says. *)
LEMMA RewriteNexts ==
  ASSUME NEW s, Rest(RewritePlan, s), s # <<>>
  PROVE  \E n, h, t : n = Len(s) /\ h = Head(s) /\ t = Tail(s) /\ RewriteNext(n, h, t)
<1>1. PICK S : RewritePlan \in Seq(S)
  BY RewriteCalls, Zenon
<1>2. PICK n, h, t : n = Len(s) /\ h = Head(s) /\ t = Tail(s)
  OBVIOUS
<1>3. n \in 1..10 /\ h = RewritePlan[10 - n + 1] /\ Rest(RewritePlan, t) /\ Len(t) = n - 1
  <2>1. /\ Len(s) \in 1..Len(RewritePlan)
        /\ Head(s) = RewritePlan[Len(RewritePlan) - Len(s) + 1]
        /\ Rest(RewritePlan, Tail(s)) /\ Len(Tail(s)) = Len(s) - 1
    BY <1>1, RestTail, Zenon
  <2>2. QED
    BY <1>2, <2>1, RestEnds, Zenon
<1>4. /\ n = 10 => h = RewritePlan[1]
      /\ n = 9 => h = RewritePlan[2]
      /\ n = 8 => h = RewritePlan[3]
      /\ n = 7 => h = RewritePlan[4]
      /\ n = 6 => h = RewritePlan[5]
      /\ n = 5 => h = RewritePlan[6]
      /\ n = 4 => h = RewritePlan[7]
      /\ n = 3 => h = RewritePlan[8]
      /\ n = 2 => h = RewritePlan[9]
      /\ n = 1 => h = RewritePlan[10]
  BY <1>3
<1>5. /\ n = 10 => h.op = <<"create", "temp">>
      /\ n = 9 => h.op = <<"rewrite">>
      /\ n = 8 => h.op = <<"fsync", "temp">>
      /\ n = 7 => h.op = <<"rename", "temp", "ready">>
      /\ n = 6 => h.op = <<"syncdir">>
      /\ n = 5 => h.op = <<"rename", "main", "backup">>
      /\ n = 4 => h.op = <<"rename", "ready", "main">>
      /\ n = 3 => h.op = <<"reopen">>
      /\ n = 2 => h.op = <<"remove", "backup">>
      /\ n = 1 => h.op = <<"syncdir">>
  BY <1>4, RewriteCalls, Zenon
<1>6. /\ n \in {1, 2, 10} => h.undo = <<>>
      /\ n \in 7..9 => h.undo = <<<<"remove", "temp">>>>
  BY <1>4, RewriteCalls
<1>7. /\ n \in 5..6 => h.undo = <<<<"remove", "ready">>>>
      /\ n = 4 => h.undo = <<<<"rename", "backup", "main">>>>
      /\ n = 3 => h.undo = <<<<"remove", "main">>, <<"rename", "backup", "main">>>>
  BY <1>4, RewriteCalls
<1>8. RewriteNext(n, h, t)
  BY <1>3, <1>5, <1>6, <1>7, Zenon DEF RewriteNext
<1>9. QED
  BY <1>2, <1>8, Zenon

(* Contents under the new header. *)
LEMMA Upgraded ==
  ASSUME NEW c \in Contents
  PROVE  LET new == [c EXCEPT !.version = logVersion]
         IN  /\ new = Log(logVersion, c.data, c.whole) /\ new \in Contents
             /\ new.version = logVersion
BY DEF Contents, Log, logVersion

(* A call of setVersion. *)
LEMMA HeaderStep ==
  ASSUME TypeOK, Standing, pc = "migrate", todo # <<>>, Succeeds,
         Heading(Dir, todo), Len(todo) < 2 => Now("main").version = logVersion,
         Perform(Head(todo).op), todo' = Tail(todo), pc' = pc, UNCHANGED history
  PROVE  TypeOK' /\ Standing'
<1>1. /\ Fit(Dir) /\ Dir \in Dirs /\ files \in FileStates
      /\ NoMigrationBackup \/ Dir["bak"] # NoFile
  BY AllFit, Zenon DEF Standing, At, Fit, TypeOK, FileStates
<1>2. PICK n, h, t : /\ n = Len(todo) /\ h = Head(todo) /\ t = Tail(todo)
                     /\ HeaderNext(n, h, t)
  BY HeaderNexts, Zenon DEF Heading
<1>3. /\ Rest(HeaderPlan, t) /\ n \in 1..2 /\ Len(t) = n - 1 /\ todo' = t
      /\ Perform(h.op) /\ (n = 1 => Now("main").version = logVersion)
  BY <1>2 DEF HeaderNext
<1>4. Clean(Dir) /\ Dir["main"] # NoFile /\ Dir["main"] \in Inodes /\ "main" \in Names
  BY <1>1, Zenon DEF Heading, Clean, Dirs, Names
<1>5. ASSUME Moves(Dir), files' \in FileStates, files'[Dir["main"]].now.version = logVersion
      PROVE  TypeOK' /\ Standing'
  <2>1. Heading(Dir, t)
    BY <1>3, <1>4, Zenon DEF Heading
  <2>2. At("migrate", Dir, t, files')
    BY <1>1, <1>5, <2>1, Zenon DEF At
  <2>3. QED
    BY <1>1, <1>3, <1>5, <2>2, FaultsType, Stands, Zenon DEF Points
<1>6. CASE n = 2
  <2>1. h.op = <<"header">>
    BY <1>2, <1>6, Zenon DEF HeaderNext
  <2> DEFINE c == [Now("main") EXCEPT !.version = logVersion]
  <2>2. Set("main", c)
    BY <1>3, <2>1, PerformIs, Zenon
  <2>3. c \in Contents /\ c.version = logVersion
    <3>1. Now("main") \in Contents
      BY <1>1, <1>4, Zenon DEF Now, FileStates
    <3>2. QED
      BY <3>1, Upgraded, Zenon
  <2>4. Moves(Dir) /\ files' \in FileStates /\ files'[Dir["main"]].now = c
    BY <1>1, <1>4, <2>2, <2>3, SetIs, Zenon
  <2>5. QED
    BY <1>5, <2>3, <2>4, Zenon
<1>7. CASE n = 1
  <2>1. h.op = <<"fsync", "main">>
    BY <1>2, <1>7, Zenon DEF HeaderNext
  <2>2. Fsync("main")
    BY <1>3, <2>1, PerformIs, Zenon
  <2>3. Moves(Dir) /\ files' \in FileStates /\ files'[Dir["main"]].now = Now("main")
    BY <1>1, <1>4, <2>2, FsyncIs, Zenon
  <2>4. QED
    BY <1>3, <1>5, <1>7, <2>3, Zenon
<1>8. QED
  BY <1>3, <1>6, <1>7

(* A rename of a file that is there, over none. *)
LEMMA RenameIs ==
  ASSUME TypeOK, Fit(Dir), NEW m \in Names, NEW n \in Names, m # n, Dir[m] # NoFile,
         n \in Logs \/ m \notin Logs, Rename(m, n)
  PROVE  \E d : /\ Moves(d) /\ Fit(d) /\ UNCHANGED files
                /\ d[n] = Dir[m] /\ d[m] = NoFile /\ \A x \in Names \ {m, n} : d[x] = Dir[x]
<1> DEFINE e == [Dir EXCEPT ![n] = Dir[m], ![m] = NoFile]
<1>1. Fit(e)
  BY RenameFits, Zenon
<1>2. SetDir(e) /\ UNCHANGED files
  BY Zenon DEF Rename
<1>3. Moves(e)
  BY <1>1, <1>2, SetDirMoves, Zenon DEF Fit
<1>4. e[n] = Dir[m] /\ e[m] = NoFile /\ \A x \in Names \ {m, n} : e[x] = Dir[x]
  BY Zenon DEF Fit, Dirs
<1>5. QED
  BY <1>1, <1>2, <1>3, <1>4, Zenon

(* A removal while another log is there. *)
LEMMA RemoveIs ==
  ASSUME TypeOK, Fit(Dir), NEW n \in Names, \E m \in Logs : m # n /\ Dir[m] # NoFile,
         SetDir([Dir EXCEPT ![n] = NoFile])
  PROVE  \E d : /\ Moves(d) /\ Fit(d) /\ d[n] = NoFile
                /\ \A x \in Names \ {n} : d[x] = Dir[x]
<1> DEFINE e == [Dir EXCEPT ![n] = NoFile]
<1>1. Fit(e)
  BY RemoveFits, Zenon
<1>2. Moves(e)
  BY <1>1, SetDirMoves, Zenon DEF Fit
<1>3. e[n] = NoFile /\ \A x \in Names \ {n} : e[x] = Dir[x]
  BY Zenon DEF Fit, Dirs
<1>4. QED
  BY <1>1, <1>2, <1>3, Zenon

(* A call of Compact. *)
LEMMA RewriteStep ==
  ASSUME TypeOK, Standing, pc = "migrate", todo # <<>>, Succeeds,
         Rewriting(Dir, todo, files),
         Perform(Head(todo).op), todo' = Tail(todo), pc' = pc, UNCHANGED history
  PROVE  TypeOK' /\ Standing'
<1>1. /\ Fit(Dir) /\ Dir \in Dirs /\ files \in FileStates
      /\ NoMigrationBackup \/ Dir["bak"] # NoFile
  BY AllFit, Zenon DEF Standing, At, Fit, TypeOK, FileStates
<1>2. PICK n, h, t : /\ n = Len(todo) /\ h = Head(todo) /\ t = Tail(todo)
                     /\ RewriteNext(n, h, t)
  BY RewriteNexts, Zenon DEF Rewriting
<1>3. /\ Rest(RewritePlan, t) /\ n \in 1..10 /\ Len(t) = n - 1 /\ todo' = t
      /\ Perform(h.op) /\ RewriteNames(Dir, n) /\ RewriteVersions(Dir, n, files)
  BY <1>2, Zenon DEF RewriteNext, Rewriting
<1>4. ASSUME NEW d, Moves(d), Fit(d), files' \in FileStates, d["bak"] = Dir["bak"],
             RewriteNames(d, n - 1), RewriteVersions(d, n - 1, files')
      PROVE  TypeOK' /\ Standing'
  <2>1. Rewriting(d, t, files')
    BY <1>3, <1>4, Zenon DEF Rewriting
  <2>2. At("migrate", d, t, files')
    BY <1>1, <1>4, <2>1, Zenon DEF At
  <2>3. QED
    BY <1>3, <1>4, <2>2, FaultsType, Stands, Zenon DEF Points
<1>5. /\ {"main", "temp", "ready", "backup", "compact", "bak"} \subseteq Names
      /\ {"main", "ready", "backup"} \subseteq Logs /\ "temp" \notin Logs
  BY Zenon DEF Names, Artifacts, Logs, Spares
<1>6. Dir["main"] # NoFile => Now("main") \in Contents
  BY <1>1, <1>5, Zenon DEF Now, FileStates, Dirs
<1>7. CASE n = 10
  <2>1. h.op = <<"create", "temp">>
    BY <1>2, <1>7, Zenon DEF RewriteNext
  <2>2. Create("temp", Nothing)
    BY <1>3, <2>1, PerformIs, Zenon
  <2>3. PICK d : Created(d, "temp")
    BY <1>5, <2>2, CreateIs, Zenon
  <2>4. /\ Moves(d) /\ Fit(d) /\ files' \in FileStates /\ d["temp"] # NoFile
        /\ \A m \in Names \ {"temp"} : d[m] = Dir[m]
    BY <2>3, Zenon DEF Created, Others
  <2>5. RewriteNames(d, 9)
    BY <1>3, <1>5, <1>7, <2>4 DEF RewriteNames
  <2>6. RewriteVersions(d, 9, files')
    <3>1. d["main"] # NoFile /\ d["main"] = Dir["main"]
      BY <1>5, <2>4, <2>5 DEF RewriteNames
    <3>2. files'[d["main"]] = files[Dir["main"]]
      BY <1>5, <2>3, <3>1, Zenon DEF Created, Others
    <3>3. QED
      BY <1>3, <1>7, <3>2 DEF RewriteVersions
  <2>7. QED
    BY <1>4, <1>5, <1>7, <2>4, <2>5, <2>6, SMTT(30)
<1>8. CASE n = 9
  <2>1. h.op = <<"rewrite">>
    BY <1>2, <1>8, Zenon DEF RewriteNext
  <2> DEFINE c == [Now("main") EXCEPT !.version = logVersion]
  <2>2. Set("temp", c)
    BY <1>3, <2>1, PerformIs, Zenon
  <2>3. Dir["main"] # NoFile /\ Dir["temp"] # NoFile
    BY <1>3, <1>8 DEF RewriteNames
  <2>4. c \in Contents /\ c.version = logVersion
    BY <1>6, <2>3, Upgraded, Zenon
  <2>5. Moves(Dir) /\ files' \in FileStates /\ files'[Dir["temp"]].now = c /\ Others(Dir, "temp")
    BY <1>1, <1>5, <2>2, <2>3, <2>4, SetIs, Zenon
  <2>6. files'[Dir["main"]] = files[Dir["main"]]
    BY <1>5, <2>3, <2>5, Zenon DEF Others
  <2>7. RewriteNames(Dir, 8)
    BY <1>3, <1>8 DEF RewriteNames
  <2>8. RewriteVersions(Dir, 8, files')
    BY <1>3, <1>8, <2>4, <2>5, <2>6 DEF RewriteVersions
  <2>9. QED
    BY <1>1, <1>4, <1>8, <2>5, <2>7, <2>8
<1>9. CASE n = 8
  <2>1. h.op = <<"fsync", "temp">>
    BY <1>2, <1>9, Zenon DEF RewriteNext
  <2>2. Fsync("temp")
    BY <1>3, <2>1, PerformIs, Zenon
  <2>3. Dir["main"] # NoFile /\ Dir["temp"] # NoFile
    BY <1>3, <1>9 DEF RewriteNames
  <2>4. /\ Moves(Dir) /\ files' \in FileStates /\ files'[Dir["temp"]].now = Now("temp")
        /\ Others(Dir, "temp")
    BY <1>1, <1>5, <2>2, <2>3, FsyncIs, Zenon
  <2>5. files'[Dir["main"]] = files[Dir["main"]]
    BY <1>5, <2>3, <2>4, Zenon DEF Others
  <2>6. RewriteNames(Dir, 7)
    BY <1>3, <1>9 DEF RewriteNames
  <2>7. RewriteVersions(Dir, 7, files')
    BY <1>3, <1>9, <2>4, <2>5 DEF RewriteVersions, Now
  <2>8. QED
    BY <1>1, <1>4, <1>9, <2>4, <2>6, <2>7
<1>10. CASE n = 7
  <2>1. h.op = <<"rename", "temp", "ready">>
    BY <1>2, <1>10, Zenon DEF RewriteNext
  <2>2. Rename("temp", "ready")
    BY <1>3, <2>1, PerformIs, Zenon
  <2>3. Dir["temp"] # NoFile
    BY <1>3, <1>10 DEF RewriteNames
  <2>4. PICK d : /\ Moves(d) /\ Fit(d) /\ UNCHANGED files /\ d["ready"] = Dir["temp"]
                 /\ d["temp"] = NoFile /\ \A x \in Names \ {"temp", "ready"} : d[x] = Dir[x]
    BY <1>1, <1>5, <2>2, <2>3, RenameIs
  <2>5. RewriteNames(d, 6)
    BY <1>3, <1>5, <1>10, <2>3, <2>4 DEF RewriteNames
  <2>6. RewriteVersions(d, 6, files')
    BY <1>3, <1>5, <1>10, <2>4 DEF RewriteVersions
  <2>7. QED
    BY <1>1, <1>4, <1>5, <1>10, <2>4, <2>5, <2>6
<1>11. CASE n = 6
  <2>1. h.op = <<"syncdir">>
    BY <1>2, <1>11, Zenon DEF RewriteNext
  <2>2. dirs' = <<Dir>> /\ UNCHANGED files
    BY <1>3, <2>1, PerformIs, Zenon
  <2>3. Moves(Dir)
    BY <1>1, <2>2, SyncMoves, Zenon
  <2>4. RewriteNames(Dir, 5) /\ RewriteVersions(Dir, 5, files')
    BY <1>3, <1>11, <2>2 DEF RewriteNames, RewriteVersions
  <2>5. QED
    BY <1>1, <1>4, <1>11, <2>2, <2>3, <2>4
<1>12. CASE n = 5
  <2>1. h.op = <<"rename", "main", "backup">>
    BY <1>2, <1>12, Zenon DEF RewriteNext
  <2>2. Rename("main", "backup")
    BY <1>3, <2>1, PerformIs, Zenon
  <2>3. Dir["main"] # NoFile
    BY <1>3, <1>12 DEF RewriteNames
  <2>4. PICK d : /\ Moves(d) /\ Fit(d) /\ UNCHANGED files /\ d["backup"] = Dir["main"]
                 /\ d["main"] = NoFile /\ \A x \in Names \ {"main", "backup"} : d[x] = Dir[x]
    BY <1>1, <1>5, <2>2, <2>3, RenameIs
  <2>5. RewriteNames(d, 4)
    BY <1>3, <1>5, <1>12, <2>3, <2>4 DEF RewriteNames
  <2>6. RewriteVersions(d, 4, files')
    BY <1>3, <1>5, <1>12, <2>4 DEF RewriteVersions
  <2>7. QED
    BY <1>1, <1>4, <1>5, <1>12, <2>4, <2>5, <2>6
<1>13. CASE n = 4
  <2>1. h.op = <<"rename", "ready", "main">>
    BY <1>2, <1>13, Zenon DEF RewriteNext
  <2>2. Rename("ready", "main")
    BY <1>3, <2>1, PerformIs, Zenon
  <2>3. Dir["ready"] # NoFile
    BY <1>3, <1>13 DEF RewriteNames
  <2>4. PICK d : /\ Moves(d) /\ Fit(d) /\ UNCHANGED files /\ d["main"] = Dir["ready"]
                 /\ d["ready"] = NoFile /\ \A x \in Names \ {"ready", "main"} : d[x] = Dir[x]
    BY <1>1, <1>5, <2>2, <2>3, RenameIs
  <2>5. RewriteNames(d, 3)
    <3>1. \A x \in {"temp", "backup", "compact"} : d[x] = Dir[x]
      BY <1>5, <2>4, Zenon
    <3>2. QED
      BY <1>3, <1>13, <2>3, <2>4, <3>1, SMTT(30) DEF RewriteNames
  <2>6. RewriteVersions(d, 3, files')
    BY <1>3, <1>5, <1>13, <2>4 DEF RewriteVersions
  <2>7. QED
    BY <1>1, <1>4, <1>5, <1>13, <2>4, <2>5, <2>6
<1>14. CASE n = 3
  <2>1. h.op = <<"reopen">>
    BY <1>2, <1>14, Zenon DEF RewriteNext
  <2>2. UNCHANGED <<dirs, files>>
    BY <1>3, <2>1, PerformIs, Zenon DEF disk
  <2>3. Moves(Dir)
    BY <2>2, SameMoves, Zenon
  <2>4. RewriteNames(Dir, 2) /\ RewriteVersions(Dir, 2, files')
    BY <1>3, <1>14, <2>2 DEF RewriteNames, RewriteVersions
  <2>5. QED
    BY <1>1, <1>4, <1>14, <2>2, <2>3, <2>4
<1>15. CASE n = 2
  <2>1. h.op = <<"remove", "backup">>
    BY <1>2, <1>15, Zenon DEF RewriteNext
  <2>2. SetDir([Dir EXCEPT !["backup"] = NoFile]) /\ UNCHANGED files
    BY <1>3, <2>1, PerformIs, Zenon
  <2>3. Dir["main"] # NoFile
    BY <1>3, <1>15 DEF RewriteNames
  <2>4. PICK d : /\ Moves(d) /\ Fit(d) /\ d["backup"] = NoFile
                 /\ \A x \in Names \ {"backup"} : d[x] = Dir[x]
    BY <1>1, <1>5, <2>2, <2>3, RemoveIs, Zenon
  <2>5. RewriteNames(d, 1)
    <3>1. \A x \in {"main", "temp", "ready", "compact"} : d[x] = Dir[x]
      BY <1>5, <2>4, Zenon
    <3>2. QED
      BY <1>3, <1>15, <2>4, <3>1 DEF RewriteNames
  <2>6. RewriteVersions(d, 1, files')
    BY <1>3, <1>5, <1>15, <2>2, <2>4 DEF RewriteVersions
  <2>7. QED
    BY <1>1, <1>4, <1>5, <1>15, <2>2, <2>4, <2>5, <2>6
<1>16. CASE n = 1
  <2>1. h.op = <<"syncdir">>
    BY <1>2, <1>16, Zenon DEF RewriteNext
  <2>2. dirs' = <<Dir>> /\ UNCHANGED files
    BY <1>3, <2>1, PerformIs, Zenon
  <2>3. Moves(Dir)
    BY <1>1, <2>2, SyncMoves, Zenon
  <2>4. RewriteNames(Dir, 0) /\ RewriteVersions(Dir, 0, files')
    BY <1>3, <1>16, <2>2 DEF RewriteNames, RewriteVersions
  <2>5. QED
    BY <1>1, <1>4, <1>16, <2>2, <2>3, <2>4
<1>17. QED
  BY <1>3, <1>7, <1>8, <1>9, <1>10, <1>11, <1>12, <1>13, <1>14, <1>15, <1>16

-----------------------------------------------------------------------------
(* Standing: the error paths.                                              *)

(* What is done when a call fails. *)
UndoPlan(undo) == [i \in DOMAIN undo |-> Call(undo[i], <<>>)]

(* The four ways that the handlers clean up. *)
LEMMA UndoPlans ==
  /\ UndoPlan(<<>>) = <<>>
  /\ \A n : UndoPlan(<<<<"remove", n>>>>) = <<RemoveCall(n)>>
  /\ UndoPlan(<<<<"rename", "backup", "main">>>>) = <<Restore>>
  /\ UndoPlan(<<<<"remove", "main">>, <<"rename", "backup", "main">>>>)
       = <<RemoveCall("main"), Restore>>
BY DEF UndoPlan, RemoveCall, Restore

(* What a call that fails leaves to do: only Open's calls have any. *)
LEMMA FailUndoes ==
  ASSUME TypeOK, Standing, pc \in {"recover", "copying", "migrate"}, todo # <<>>
  PROVE  Undoing(Dir, UndoPlan(Head(todo).undo))
<1>1. At(pc, Dir, todo, files)
  BY Zenon DEF Standing
<1>2. CASE pc = "recover"
  <2>1. Head(todo) \in RecoveryCalls
    BY <1>1, <1>2 DEF At, Recovering
  <2>2. Head(todo).undo = <<>>
    BY <2>1 DEF RecoveryCalls, ClearCalls, RemoveCall, RenameCall, Call
  <2>3. QED
    BY <2>2, UndoPlans, Zenon DEF Undoing
<1>3. CASE pc = "copying"
  <2>1. Copying(Dir, todo)
    BY <1>1, <1>3, Zenon DEF At
  <2>2. Dir["main"] # NoFile
    BY <2>1, Zenon DEF Copying, Clean
  <2>3. PICK n, h, t : h = Head(todo) /\ CopyNext(n, h, t)
    BY <2>1, CopyNexts, Zenon DEF Copying
  <2>4. h.undo = <<>> \/ h.undo = <<<<"remove", "bakTemp">>>>
    BY <2>3 DEF CopyNext
  <2>5. UndoPlan(h.undo) = <<>> \/ UndoPlan(h.undo) = <<RemoveCall("bakTemp")>>
    BY <2>4, UndoPlans, Zenon
  <2>6. QED
    BY <2>2, <2>3, <2>5, Zenon DEF Undoing
<1>4. CASE pc = "migrate" /\ Heading(Dir, todo)
  <2>1. PICK n, h, t : h = Head(todo) /\ HeaderNext(n, h, t)
    BY <1>4, HeaderNexts, Zenon DEF Heading
  <2>2. UndoPlan(h.undo) = <<>>
    BY <2>1, UndoPlans, Zenon DEF HeaderNext
  <2>3. QED
    BY <2>1, <2>2, Zenon DEF Undoing
<1>5. CASE pc = "migrate" /\ Rewriting(Dir, todo, files)
  <2>1. PICK n, h, t : n = Len(todo) /\ h = Head(todo) /\ RewriteNext(n, h, t)
    BY <1>5, RewriteNexts, Zenon DEF Rewriting
  <2>2. RewriteNames(Dir, n) /\ n \in 1..10
    BY <1>5, <2>1, Zenon DEF Rewriting, RewriteNext
  <2>3. CASE n \in {1, 2, 10}
    <3>1. UndoPlan(h.undo) = <<>>
      BY <2>1, <2>3, UndoPlans, Zenon DEF RewriteNext
    <3>2. QED
      BY <2>1, <3>1, Zenon DEF Undoing
  <2>4. CASE n \in 7..9
    <3>1. UndoPlan(h.undo) = <<RemoveCall("temp")>>
      BY <2>1, <2>4, UndoPlans, Zenon DEF RewriteNext
    <3>2. Dir["main"] # NoFile
      BY <2>2, <2>4 DEF RewriteNames
    <3>3. QED
      BY <2>1, <3>1, <3>2, Zenon DEF Undoing
  <2>5. CASE n \in 5..6
    <3>1. UndoPlan(h.undo) = <<RemoveCall("ready")>>
      BY <2>1, <2>5, UndoPlans, Zenon DEF RewriteNext
    <3>2. Dir["main"] # NoFile
      BY <2>2, <2>5 DEF RewriteNames
    <3>3. QED
      BY <2>1, <3>1, <3>2, Zenon DEF Undoing
  <2>6. CASE n = 4
    <3>1. UndoPlan(h.undo) = <<Restore>>
      BY <2>1, <2>6, UndoPlans, Zenon DEF RewriteNext
    <3>2. Dir["backup"] # NoFile
      BY <2>2, <2>6 DEF RewriteNames
    <3>3. QED
      BY <2>1, <3>1, <3>2, Zenon DEF Undoing
  <2>7. CASE n = 3
    <3>1. UndoPlan(h.undo) = <<RemoveCall("main"), Restore>>
      BY <2>1, <2>7, UndoPlans, Zenon DEF RewriteNext
    <3>2. Dir["backup"] # NoFile
      BY <2>2, <2>7 DEF RewriteNames
    <3>3. QED
      BY <2>1, <3>1, <3>2, Zenon DEF Undoing
  <2>8. QED
    BY <2>2, <2>3, <2>4, <2>5, <2>6, <2>7
<1>6. QED
  BY <1>1, <1>2, <1>3, <1>4, <1>5, Zenon DEF At

(* A call of an error path. *)
LEMMA UndoStep ==
  ASSUME TypeOK, Standing, pc = "undo", todo # <<>>, Succeeds,
         Perform(Head(todo).op), todo' = Tail(todo), pc' = pc, UNCHANGED history
  PROVE  TypeOK' /\ Standing'
<1>1. Undoing(Dir, todo) /\ Fit(Dir) /\ Dir \in Dirs /\ files \in FileStates
  BY AllFit, Zenon DEF Standing, At, Fit, TypeOK, FileStates
<1>2. ASSUME NEW d, Moves(d), Fit(d), UNCHANGED files, Undoing(d, todo')
      PROVE  TypeOK' /\ Standing'
  <2>1. At("undo", d, todo', files')
    BY <1>2, Zenon DEF At
  <2>2. QED
    BY <1>1, <1>2, <2>1, FaultsType, Stands, Zenon DEF Points
<1>3. /\ {"bakTemp", "temp", "ready", "main", "backup"} \subseteq Names
      /\ {"main", "backup"} \subseteq Logs
  BY Zenon DEF Names, Artifacts, Logs, Spares
<1>4. ASSUME NEW n \in {"bakTemp", "temp", "ready"}, todo = <<RemoveCall(n)>>,
             Dir["main"] # NoFile
      PROVE  TypeOK' /\ Standing'
  <2>1. Head(todo).op = <<"remove", n>> /\ todo' = <<>>
    BY <1>4 DEF RemoveCall, Call
  <2>2. SetDir([Dir EXCEPT ![n] = NoFile]) /\ UNCHANGED files
    BY <2>1, PerformIs, Zenon
  <2>3. PICK d : Moves(d) /\ Fit(d)
    BY <1>1, <1>3, <1>4, <2>2, RemoveIs, Zenon
  <2>4. QED
    BY <1>2, <2>1, <2>2, <2>3, Zenon DEF Undoing
<1>5. CASE todo = <<Restore>> /\ Dir["backup"] # NoFile
  <2>1. Head(todo).op = <<"rename", "backup", "main">> /\ todo' = <<>>
    BY <1>5 DEF Restore, Call
  <2>2. Rename("backup", "main")
    BY <2>1, PerformIs, Zenon
  <2>3. PICK d : Moves(d) /\ Fit(d) /\ UNCHANGED files
    BY <1>1, <1>3, <1>5, <2>2, RenameIs, Zenon
  <2>4. QED
    BY <1>2, <2>1, <2>3, Zenon DEF Undoing
<1>6. CASE todo = <<RemoveCall("main"), Restore>> /\ Dir["backup"] # NoFile
  <2>1. Head(todo).op = <<"remove", "main">> /\ todo' = <<Restore>>
    BY <1>6 DEF RemoveCall, Call
  <2>2. SetDir([Dir EXCEPT !["main"] = NoFile]) /\ UNCHANGED files
    BY <2>1, PerformIs, Zenon
  <2>3. PICK d : Moves(d) /\ Fit(d) /\ \A x \in Names \ {"main"} : d[x] = Dir[x]
    BY <1>1, <1>3, <1>6, <2>2, RemoveIs
  <2>4. d["backup"] # NoFile
    BY <1>3, <1>6, <2>3, Zenon
  <2>5. QED
    BY <1>2, <2>1, <2>2, <2>3, <2>4, Zenon DEF Undoing
<1>7. QED
  BY <1>1, <1>4, <1>5, <1>6, Zenon DEF Undoing

(* The next call of a plan. *)
LEMMA StepStands == TypeOK /\ Standing /\ Step => TypeOK' /\ Standing'
<1> SUFFICES ASSUME TypeOK, Standing, Step PROVE TypeOK' /\ Standing'
  OBVIOUS
<1>1. Fit(Dir) /\ files \in FileStates /\ At(pc, Dir, todo, files)
  BY AllFit, Zenon DEF Standing, TypeOK, FileStates
<1>2. pc \in {"recover", "copying", "migrate", "undo"} /\ todo # <<>> /\ UNCHANGED history
  BY Zenon DEF Step
<1>3. CASE Succeeds /\ Perform(Head(todo).op) /\ todo' = Tail(todo) /\ pc' = pc
  <2>1. CASE pc = "recover"
    BY <1>2, <1>3, <2>1, RecoverStep, Zenon
  <2>2. CASE pc = "copying"
    BY <1>2, <1>3, <2>2, CopyStep, Zenon
  <2>3. CASE pc = "migrate"
    <3>1. CASE Heading(Dir, todo) /\ (Len(todo) < 2 => Now("main").version = logVersion)
      BY <1>2, <1>3, <2>3, <3>1, HeaderStep, Zenon
    <3>2. CASE Rewriting(Dir, todo, files)
      BY <1>2, <1>3, <2>3, <3>2, RewriteStep, Zenon
    <3>3. QED
      BY <1>1, <2>3, <3>1, <3>2, Zenon DEF At, Now
  <2>4. CASE pc = "undo"
    BY <1>2, <1>3, <2>4, UndoStep, Zenon
  <2>5. QED
    BY <1>2, <2>1, <2>2, <2>3, <2>4, Zenon
<1>4. CASE Fails /\ pc # "undo" /\ pc' = "undo" /\ todo' = UndoPlan(Head(todo).undo)
           /\ UNCHANGED disk
  <2>1. Undoing(Dir, todo')
    BY <1>2, <1>4, FailUndoes, Zenon
  <2>2. Moves(Dir) /\ UNCHANGED files
    BY <1>4, SameMoves, Zenon DEF disk
  <2>3. At("undo", Dir, todo', files')
    BY <2>1, Zenon DEF At
  <2>4. QED
    BY <1>1, <1>2, <1>4, <2>2, <2>3, FaultsType, Stands, Zenon DEF Points
<1>5. CASE Fails /\ pc = "undo" /\ Head(todo).op[1] = "remove" /\ todo' = Tail(todo)
           /\ UNCHANGED <<disk, pc>>
  <2>1. Undoing(Dir, todo)
    BY <1>1, <1>5, Zenon DEF At
  <2>2. ASSUME NEW n, todo = <<RemoveCall(n)>> PROVE Undoing(Dir, todo')
    BY <1>5, <2>2 DEF Undoing
  <2>3. todo # <<Restore>>
    BY <1>5 DEF Restore, Call
  <2>4. ASSUME todo = <<RemoveCall("main"), Restore>>, Dir["backup"] # NoFile
        PROVE  Undoing(Dir, todo')
    <3>1. todo' = <<Restore>>
      BY <1>5, <2>4
    <3>2. QED
      BY <2>4, <3>1, Zenon DEF Undoing
  <2>5. Undoing(Dir, todo')
    BY <1>2, <2>1, <2>2, <2>3, <2>4, Zenon DEF Undoing
  <2>6. Moves(Dir) /\ UNCHANGED files
    BY <1>5, SameMoves, Zenon DEF disk
  <2>7. At("undo", Dir, todo', files')
    BY <2>5, Zenon DEF At
  <2>8. QED
    BY <1>1, <1>2, <1>5, <2>6, <2>7, FaultsType, Stands, Zenon DEF Points
<1>6. QED
  BY <1>3, <1>4, <1>5, Zenon DEF Step, UndoPlan

-----------------------------------------------------------------------------
(* Standing: the other actions.                                            *)

Has(s, x) == \E k \in 1..Len(s) : s[k] = x

(* What has either part of a plan, the plan has. *)
LEMMA ConcatHas ==
  ASSUME NEW S, NEW a \in Seq(S), NEW b \in Seq(S), NEW x, Has(a, x) \/ Has(b, x)
  PROVE  Has(a \o b, x)
<1>1. /\ Len(a) \in Nat /\ Len(b) \in Nat /\ Len(a \o b) = Len(a) + Len(b)
      /\ \A k \in 1..Len(a) : (a \o b)[k] = a[k]
      /\ \A k \in 1..Len(b) : (a \o b)[Len(a) + k] = b[k]
  OBVIOUS
<1>2. CASE Has(a, x)
  BY <1>1, <1>2 DEF Has
<1>3. CASE Has(b, x)
  <2>1. PICK k \in 1..Len(b) : b[k] = x
    BY <1>3, Zenon DEF Has
  <2>2. Len(a) + k \in 1..Len(a \o b) /\ (a \o b)[Len(a) + k] = x
    BY <1>1, <2>1
  <2>3. QED
    BY <2>2, Zenon DEF Has
<1>4. QED
  BY <1>2, <1>3, Zenon

(* The plan s begins with x, or not, and otherwise clears. *)
Leads(s, x) ==
  s \in Seq(RecoveryCalls) /\ Len(s) > 0 /\ s[1] = x /\ \A k \in 2..Len(s) : s[k] \in ClearCalls

(* It still does with more to clear. *)
LEMMA LeadsConcat ==
  ASSUME NEW s, NEW x, Leads(s, x), NEW c \in Seq(ClearCalls)
  PROVE  Leads(s \o c, x) /\ s \in Seq(RecoveryCalls) /\ c \in Seq(RecoveryCalls)
<1>1. ClearCalls \subseteq RecoveryCalls
  BY Zenon DEF RecoveryCalls
<1>2. c \in Seq(RecoveryCalls)
  BY <1>1
<1>3. s \in Seq(RecoveryCalls) /\ Len(s) > 0 /\ s[1] = x /\ \A k \in 2..Len(s) : s[k] \in ClearCalls
  BY Zenon DEF Leads
<1>4. /\ s \o c \in Seq(RecoveryCalls) /\ Len(s \o c) = Len(s) + Len(c)
      /\ Len(s) \in Nat /\ Len(c) \in Nat
      /\ \A k \in 1..Len(s) : (s \o c)[k] = s[k]
      /\ \A k \in 1..Len(c) : (s \o c)[Len(s) + k] = c[k] /\ c[k] \in ClearCalls
  BY <1>2, <1>3
<1>5. \A k \in 2..Len(s \o c) : (s \o c)[k] \in ClearCalls
  <2> SUFFICES ASSUME NEW k \in 2..Len(s \o c) PROVE (s \o c)[k] \in ClearCalls
    OBVIOUS
  <2>1. CASE k <= Len(s)
    BY <1>3, <1>4, <2>1
  <2>2. CASE k > Len(s)
    <3>1. k - Len(s) \in 1..Len(c) /\ Len(s) + (k - Len(s)) = k
      BY <1>4, <2>2
    <3>2. QED
      BY <1>4, <3>1, Zenon
  <2>3. QED
    BY <1>4, <2>1, <2>2
<1>6. QED
  BY <1>2, <1>3, <1>4, <1>5 DEF Leads

(* A removal that has to be made is planned. *)
LEMMA RemovalIs ==
  ASSUME NEW d, NEW n \in Artifacts
  PROVE  Removal(d, n) \in Seq(ClearCalls) /\ (d[n] # NoFile => Has(Removal(d, n), RemoveCall(n)))
<1>1. CASE d[n] = NoFile
  BY <1>1 DEF Removal
<1>2. CASE d[n] # NoFile
  <2>1. Removal(d, n) = <<RemoveCall(n)>>
    BY <1>2, Zenon DEF Removal, RemoveCall
  <2>2. RemoveCall(n) \in ClearCalls
    BY Zenon DEF ClearCalls
  <2>3. QED
    BY <2>1, <2>2 DEF Has
<1>3. QED
  BY <1>1, <1>2, Zenon

(* What recovery has to do, from what is there. *)
LEMMA RecoveryStarts ==
  ASSUME NEW d, Fit(d)
  PROVE  Recovering(d, RecoveryPlan(d))
<1> DEFINE sync == IF \E n \in Artifacts : d[n] # NoFile THEN <<Call(<<"syncdir">>, <<>>)>> ELSE <<>>
<1>2. sync \in Seq(ClearCalls)
  <2>1. Call(<<"syncdir">>, <<>>) \in ClearCalls
    BY Zenon DEF ClearCalls
  <2>2. <<>> \in Seq(ClearCalls) /\ <<Call(<<"syncdir">>, <<>>)>> \in Seq(ClearCalls)
    BY <2>1
  <2>3. QED
    BY <2>2, Zenon
<1>3. ClearCalls \subseteq RecoveryCalls
  BY Zenon DEF RecoveryCalls
<1>4. CASE d["main"] # NoFile
  <2>1. Survivor(d) = "main"
    BY <1>4, Zenon DEF Survivor
  <2> DEFINE r == Removal(d, "ready")
             b == Removal(d, "backup")
             c == Removal(d, "compact")
             t == Removal(d, "temp")
             p == r \o b \o c \o t \o sync
  <2>2. /\ r \in Seq(ClearCalls) /\ b \in Seq(ClearCalls)
        /\ c \in Seq(ClearCalls) /\ t \in Seq(ClearCalls)
        /\ d["ready"] # NoFile => Has(r, RemoveCall("ready"))
        /\ d["backup"] # NoFile => Has(b, RemoveCall("backup"))
        /\ d["compact"] # NoFile => Has(c, RemoveCall("compact"))
        /\ d["temp"] # NoFile => Has(t, RemoveCall("temp"))
    BY RemovalIs, Zenon DEF Artifacts
  <2>3. RecoveryPlan(d) = p
    BY <2>1, Zenon DEF RecoveryPlan
  <2> HIDE DEF r, b, c, t, sync
  <2>4. /\ r \o b \in Seq(ClearCalls) /\ r \o b \o c \in Seq(ClearCalls)
        /\ r \o b \o c \o t \in Seq(ClearCalls) /\ p \in Seq(ClearCalls)
    BY <1>2, <2>2
  <2>5. \A x : Has(r, x) \/ Has(b, x) => Has(r \o b, x)
    BY <2>2, ConcatHas, Zenon
  <2>6. \A x : Has(r \o b, x) \/ Has(c, x) => Has(r \o b \o c, x)
    BY <2>2, <2>4, ConcatHas, Zenon
  <2>7. \A x : Has(r \o b \o c, x) \/ Has(t, x) => Has(r \o b \o c \o t, x)
    BY <2>2, <2>4, ConcatHas, Zenon
  <2>8. \A x : Has(r \o b \o c \o t, x) => Has(p, x)
    BY <1>2, <2>4, ConcatHas, Zenon
  <2> HIDE DEF p
  <2>9. \A n \in Artifacts : d[n] # NoFile => Has(p, RemoveCall(n))
    BY <2>2, <2>5, <2>6, <2>7, <2>8, Zenon, Zenon DEF Artifacts
  <2>10. p \in Seq(RecoveryCalls) /\ \A k \in 1..Len(p) : p[k] \in ClearCalls
    BY <1>3, <2>4
  <2>11. Recovering(d, p)
    BY <1>4, <2>9, <2>10, Zenon DEF Recovering, Has
  <2>12. QED
    BY <2>3, <2>11, Zenon
<1>5. CASE d["main"] = NoFile
  <2> DEFINE from == Survivor(d)
             rest == [d EXCEPT ![from] = NoFile]
             x == <<RenameCall(from)>>
             b == Removal(rest, "backup")
             t == Removal(rest, "temp")
             c == Removal(rest, "compact")
             p == x \o b \o t \o c \o sync
  <2>1. from \in Spares /\ d[from] # NoFile /\ (d["ready"] # NoFile => from = "ready")
    BY <1>5 DEF Fit, HasLog, Survivor, Logs, Spares
  <2>2. \A n \in Artifacts : n # from => rest[n] = d[n]
    BY <2>1, Zenon DEF Fit, Dirs, Names
  <2>3. /\ b \in Seq(ClearCalls) /\ t \in Seq(ClearCalls) /\ c \in Seq(ClearCalls)
        /\ rest["backup"] # NoFile => Has(b, RemoveCall("backup"))
        /\ rest["temp"] # NoFile => Has(t, RemoveCall("temp"))
        /\ rest["compact"] # NoFile => Has(c, RemoveCall("compact"))
    BY RemovalIs, Zenon DEF Artifacts
  <2>4. RecoveryPlan(d) = p
    <3>1. from # "main"
      BY <2>1, Zenon DEF Spares
    <3>2. QED
      BY <2>1, <3>1, Zenon DEF RecoveryPlan, RenameCall
  <2>5. Leads(x, RenameCall(from))
    <3>1. RenameCall(from) \in RecoveryCalls
      BY <2>1, Zenon DEF RecoveryCalls
    <3>2. QED
      BY <3>1 DEF Leads
  <2> HIDE DEF rest, x, b, t, c, sync
  <2>6. Leads(x \o b, RenameCall(from)) /\ x \in Seq(RecoveryCalls) /\ b \in Seq(RecoveryCalls)
    BY <2>3, <2>5, LeadsConcat, Zenon
  <2>7. /\ Leads(x \o b \o t, RenameCall(from)) /\ x \o b \in Seq(RecoveryCalls)
        /\ t \in Seq(RecoveryCalls)
    BY <2>3, <2>6, LeadsConcat, Zenon
  <2>8. /\ Leads(x \o b \o t \o c, RenameCall(from)) /\ x \o b \o t \in Seq(RecoveryCalls)
        /\ c \in Seq(RecoveryCalls)
    BY <2>3, <2>7, LeadsConcat, Zenon
  <2>9. /\ Leads(p, RenameCall(from)) /\ x \o b \o t \o c \in Seq(RecoveryCalls)
        /\ sync \in Seq(RecoveryCalls)
    BY <1>2, <2>8, LeadsConcat, Zenon
  <2>10. \A y : Has(b, y) => Has(x \o b, y)
    BY <2>6, ConcatHas, Zenon
  <2>11. \A y : Has(x \o b, y) \/ Has(t, y) => Has(x \o b \o t, y)
    BY <2>7, ConcatHas, Zenon
  <2>12. \A y : Has(x \o b \o t, y) \/ Has(c, y) => Has(x \o b \o t \o c, y)
    BY <2>8, ConcatHas, Zenon
  <2>13. \A y : Has(x \o b \o t \o c, y) => Has(p, y)
    BY <2>9, ConcatHas, Zenon
  <2> HIDE DEF p
  <2>14. \A n \in Artifacts : d[n] # NoFile => n = from \/ Has(p, RemoveCall(n))
    <3>1. /\ rest["backup"] # NoFile => Has(p, RemoveCall("backup"))
          /\ rest["temp"] # NoFile => Has(p, RemoveCall("temp"))
          /\ rest["compact"] # NoFile => Has(p, RemoveCall("compact"))
      BY <2>3, <2>10, <2>11, <2>12, <2>13, Zenon, Zenon
    <3>2. \A n \in {"backup", "temp", "compact"} : n = from \/ rest[n] = d[n]
      BY <2>2 DEF Artifacts
    <3>3. QED
      BY <2>1, <3>1, <3>2 DEF Artifacts
  <2>15. Recovering(d, p)
    BY <1>5, <2>1, <2>9, <2>14, Zenon DEF Recovering, Has, Leads
  <2>16. QED
    BY <2>4, <2>15, Zenon
<1>6. QED
  BY <1>4, <1>5, Zenon

(* Open begins. *)
LEMMA OpenStands == TypeOK /\ Standing /\ Open => TypeOK' /\ Standing'
<1> SUFFICES ASSUME TypeOK, Standing, Open PROVE TypeOK' /\ Standing'
  OBVIOUS
<1>1. Fit(Dir) /\ files \in FileStates
  BY AllFit, Zenon DEF TypeOK, FileStates
<1>2. /\ pc' = "recover" /\ todo' = RecoveryPlan(Dir) /\ UNCHANGED <<dirs, files>>
      /\ UNCHANGED history /\ UNCHANGED faults
  BY Zenon DEF Open, disk
<1>3. At("recover", Dir, todo', files')
  BY <1>1, <1>2, RecoveryStarts, Zenon DEF At
<1>4. Moves(Dir)
  BY <1>2, SameMoves, Zenon
<1>5. faults' \in 0..MaxFaults
  BY <1>2, Zenon DEF TypeOK
<1>6. QED
  BY <1>1, <1>2, <1>3, <1>4, <1>5, Stands, Zenon DEF Points

(* A plan is done. *)
LEMMA PlanEndsStands == TypeOK /\ Standing /\ PlanEnds => TypeOK' /\ Standing'
<1> SUFFICES ASSUME TypeOK, Standing, PlanEnds PROVE TypeOK' /\ Standing'
  OBVIOUS
<1>1. Fit(Dir) /\ files \in FileStates /\ At(pc, Dir, todo, files)
  BY AllFit, Zenon DEF TypeOK, FileStates, Standing
<1>2. /\ pc \in {"recover", "copying", "migrate", "undo"} /\ todo = <<>> /\ pc' = After
      /\ todo' = <<>> /\ UNCHANGED <<dirs, files>> /\ UNCHANGED history /\ UNCHANGED faults
  BY Zenon DEF PlanEnds, disk
<1>3. Moves(Dir) /\ faults' \in 0..MaxFaults
  BY <1>2, SameMoves, Zenon DEF TypeOK
<1>4. Len(todo) = 0
  BY <1>2, Zenon
<1>5. pc' \in Points /\ At(pc', Dir, todo', files')
  <2>1. CASE pc = "recover"
    <3>1. Recovering(Dir, todo) /\ pc' = "opening"
      BY <1>1, <1>2, <2>1, Zenon DEF At, After
    <3>2. Clean(Dir)
      BY <1>4, <3>1 DEF Recovering, Clean
    <3>3. QED
      BY <1>2, <3>1, <3>2, Zenon DEF At, Points
  <2>2. CASE pc = "copying"
    <3>1. Copying(Dir, todo) /\ pc' = "ask" /\ files[Dir["main"]].now.version < logVersion
      BY <1>1, <1>2, <2>2, Zenon DEF At, After
    <3>2. Clean(Dir) /\ (NoMigrationBackup \/ Dir["bak"] # NoFile)
      BY <1>4, <3>1 DEF Copying
    <3>3. QED
      BY <1>2, <3>1, <3>2, Zenon DEF At, Points
  <2>3. CASE pc = "migrate"
    <3>1. pc' = "open"
      BY <1>2, <2>3, Zenon DEF After
    <3>2. CASE Heading(Dir, todo) /\ (Len(todo) < 2 => files[Dir["main"]].now.version = logVersion)
      <4>1. Clean(Dir) /\ files[Dir["main"]].now.version = logVersion
        BY <1>2, <3>2, SMTT(30) DEF Heading
      <4>2. QED
        BY <1>2, <3>1, <4>1, Zenon DEF At, Points
    <3>3. CASE Rewriting(Dir, todo, files)
      <4>1. RewriteNames(Dir, 0) /\ RewriteVersions(Dir, 0, files)
        BY <1>4, <3>3, Zenon DEF Rewriting
      <4>2. Clean(Dir) /\ files[Dir["main"]].now.version = logVersion
        BY <4>1 DEF RewriteNames, RewriteVersions, Clean, Artifacts
      <4>3. QED
        BY <1>2, <3>1, <4>2, Zenon DEF At, Points
    <3>4. QED
      BY <1>1, <2>3, <3>2, <3>3, Zenon DEF At
  <2>4. CASE pc = "undo"
    <3>1. pc' = "down"
      BY <1>2, <2>4, Zenon DEF After
    <3>2. QED
      BY <3>1, Zenon DEF At, Points
  <2>5. QED
    BY <1>2, <2>1, <2>2, <2>3, <2>4, Zenon
<1>6. QED
  BY <1>1, <1>2, <1>3, <1>5, Stands, Zenon

(* The log is opened. *)
LEMMA OpenLogStands == TypeOK /\ Standing /\ OpenLog => TypeOK' /\ Standing'
<1> SUFFICES ASSUME TypeOK, Standing, OpenLog PROVE TypeOK' /\ Standing'
  OBVIOUS
<1>1. Fit(Dir) /\ files \in FileStates /\ At(pc, Dir, todo, files) /\ Dir \in Dirs
  BY AllFit, Zenon DEF TypeOK, FileStates, Standing, Fit
<1>2. Clean(Dir) /\ todo = <<>> /\ Dir["main"] # NoFile /\ UNCHANGED history
  BY <1>1, Zenon DEF OpenLog, At, Clean
<1>3. UNCHANGED <<dirs, files>> /\ faults' \in 0..MaxFaults
  BY <1>2, FaultsType, Zenon DEF OpenLog, disk
<1>4. Moves(Dir)
  BY <1>3, SameMoves, Zenon
<1>5. CASE pc' = "down"
  <2>1. At(pc', Dir, todo', files')
    BY <1>5, Zenon DEF At
  <2>2. QED
    BY <1>1, <1>2, <1>3, <1>4, <1>5, <2>1, Stands, Zenon DEF Points
<1>6. CASE Now("main").version < logVersion /\ pc' = "copying" /\ todo' = BackupPlan(Dir)
  <2>1. Copying(Dir, BackupPlan(Dir))
    <3>1. CASE NoMigrationBackup \/ Dir["bak"] # NoFile
      <4>1. BackupPlan(Dir) = <<>>
        BY <3>1, Zenon DEF BackupPlan
      <4>2. Copying(Dir, <<>>)
        BY <1>2, <3>1, RestEnds DEF Copying
      <4>3. QED
        BY <4>1, <4>2, Zenon
    <3>2. CASE ~(NoMigrationBackup \/ Dir["bak"] # NoFile)
      <4>1. BackupPlan(Dir) = CopyPlan
        BY <3>2, Zenon DEF BackupPlan
      <4>2. Copying(Dir, CopyPlan)
        BY <1>2, <3>2, RestEnds DEF Copying
      <4>3. QED
        BY <4>1, <4>2, Zenon
    <3>3. QED
      BY <3>1, <3>2, Zenon
  <2>2. At("copying", Dir, todo', files')
    BY <1>3, <1>6, <2>1, Zenon DEF At, Now
  <2>3. QED
    BY <1>1, <1>2, <1>3, <1>4, <1>6, <2>2, Stands, Zenon DEF Points
<1>7. CASE ~(Now("main").version < logVersion) /\ pc' = "open" /\ UNCHANGED todo
  <2>1. Now("main").version = logVersion
    <3>1. Now("main") \in Contents
      BY <1>1, <1>2, Zenon DEF Now, FileStates, Dirs, Names
    <3>2. QED
      BY <1>7, <3>1 DEF Contents, logVersion
  <2>2. At("open", Dir, todo', files')
    BY <1>2, <1>3, <1>7, <2>1, Zenon DEF At, Now
  <2>3. QED
    BY <1>1, <1>2, <1>3, <1>4, <1>7, <2>2, Stands, Zenon DEF Points
<1>8. QED
  BY <1>2, <1>5, <1>6, <1>7, Zenon DEF OpenLog

(* OnMigrate answers. *)
LEMMA OnMigrateStands == TypeOK /\ Standing /\ OnMigrate => TypeOK' /\ Standing'
<1> SUFFICES ASSUME TypeOK, Standing, OnMigrate PROVE TypeOK' /\ Standing'
  OBVIOUS
<1>1. Fit(Dir) /\ files \in FileStates /\ At(pc, Dir, todo, files)
  BY AllFit, Zenon DEF TypeOK, FileStates, Standing, Fit
<1>2. /\ Clean(Dir) /\ files[Dir["main"]].now.version < logVersion
      /\ NoMigrationBackup \/ Dir["bak"] # NoFile
  BY <1>1, Zenon DEF OnMigrate, At
<1>3. UNCHANGED <<dirs, files>> /\ faults' \in 0..MaxFaults /\ HistoryType'
  BY Zenon DEF OnMigrate, disk, TypeOK, HistoryType
<1>4. Moves(Dir)
  BY <1>3, SameMoves, Zenon
<1>5. CASE pc' = "down"
  <2>1. At(pc', Dir, todo', files')
    BY <1>5, Zenon DEF At
  <2>2. QED
    BY <1>1, <1>3, <1>4, <1>5, <2>1, StandsAnyway, Zenon DEF Points
<1>6. CASE pc' = "migrate" /\ todo' = HeaderPlan
  <2>1. Heading(Dir, HeaderPlan) /\ ~(Len(HeaderPlan) < 2)
    <3>1. Rest(HeaderPlan, HeaderPlan) /\ Len(HeaderPlan) = 2
      BY RestEnds, Zenon
    <3>2. QED
      BY <1>2, <3>1, SMTT(30) DEF Heading
  <2>2. At("migrate", Dir, todo', files')
    BY <1>2, <1>6, <2>1, Zenon DEF At
  <2>3. QED
    BY <1>1, <1>3, <1>4, <1>6, <2>2, StandsAnyway, Zenon DEF Points
<1>7. CASE pc' = "migrate" /\ todo' = CompactPlan(Dir)
  <2>1. Removal(Dir, "temp") = <<>> /\ Removal(Dir, "ready") = <<>> /\ Removal(Dir, "backup") = <<>>
    BY <1>2, Zenon DEF Removal, Clean, Artifacts
  <2>2. PICK S : RewritePlan \in Seq(S)
    BY RewriteCalls, Zenon
  <2>3. CompactPlan(Dir) = RewritePlan
    <3>1. CompactPlan(Dir) = <<>> \o <<>> \o <<>> \o RewritePlan
      BY <2>1, Zenon DEF CompactPlan
    <3>2. QED
      BY <2>2, <3>1
  <2>4. RewriteNames(Dir, 10)
    BY <1>2 DEF RewriteNames, Clean, Artifacts
  <2>5. RewriteVersions(Dir, 10, files')
    BY <1>2, <1>3 DEF RewriteVersions
  <2>6. Rewriting(Dir, todo', files')
    BY <1>7, <2>3, <2>4, <2>5, RestEnds, Zenon DEF Rewriting
  <2>7. At("migrate", Dir, todo', files')
    BY <1>2, <2>6, Zenon DEF At
  <2>8. QED
    BY <1>1, <1>3, <1>4, <1>7, <2>7, StandsAnyway, Zenon DEF Points
<1>8. QED
  BY <1>5, <1>6, <1>7, Zenon DEF OnMigrate

(* Nothing is asked of a log that is closed. *)
LEMMA DownStands ==
  ASSUME TypeOK, Standing, NEW d, Moves(d), Fit(d), files' \in FileStates, pc' = "down",
         HistoryType', faults' \in 0..MaxFaults
  PROVE  TypeOK' /\ Standing'
<1>1. At(pc', d, todo', files')
  BY Zenon DEF At
<1>2. QED
  BY <1>1, StandsAnyway, Zenon DEF Points

(* The log gets new contents, synchronized. *)
LEMMA BothSet ==
  ASSUME TypeOK, Fit(Dir), NEW c \in Contents, Dir["main"] # NoFile,
         files' = [files EXCEPT ![Dir["main"]] = [now |-> c, synced |-> c]], Written
  PROVE  /\ Moves(Dir) /\ files' \in FileStates /\ Others(Dir, "main")
         /\ files'[Dir["main"]].now = c /\ files'[Dir["main"]].synced = c
         /\ DirectoryFirst => dirs' = <<Dir>>
<1>1. files \in FileStates /\ Dir \in Dirs /\ "main" \in Names
  BY DirIs, Zenon DEF TypeOK, FileStates, Names
<1>2. Dir["main"] \in Inodes
  BY <1>1, Zenon DEF Dirs
<1>3. /\ files' \in FileStates /\ files'[Dir["main"]].now = c
      /\ files'[Dir["main"]].synced = c
      /\ \A i \in Inodes \ {Dir["main"]} : files'[i] = files[i]
  BY <1>1, <1>2, Zenon DEF FileStates
<1>4. Others(Dir, "main")
  BY <1>1, <1>3, Zenon DEF Others, Fit, OneName, Dirs
<1>5. QED
  BY <1>3, <1>4, WrittenMoves, Zenon

(* This build writes. *)
LEMMA WriteStands == TypeOK /\ Standing /\ Write => TypeOK' /\ Standing'
<1> SUFFICES ASSUME TypeOK, Standing, Write PROVE TypeOK' /\ Standing'
  OBVIOUS
<1>1. Fit(Dir) /\ files \in FileStates /\ At(pc, Dir, todo, files) /\ Dir \in Dirs
  BY AllFit, Zenon DEF TypeOK, FileStates, Standing, Fit
<1>2. Clean(Dir) /\ todo = <<>> /\ Dir["main"] # NoFile /\ Now("main").version = logVersion
  BY <1>1, Zenon DEF Write, At, Clean, Now
<1>3. pc = "open" /\ pc' = "open" /\ UNCHANGED todo /\ faults' \in 0..MaxFaults /\ HistoryType'
  BY BoundAssumption DEF Write, TypeOK, HistoryType
<1> DEFINE c == [Now("main") EXCEPT !.data = written + 1]
<1>4. c \in Contents /\ c.version = logVersion
  <2>1. Now("main") \in Contents
    BY <1>1, <1>2, Zenon DEF Now, FileStates, Dirs, Names
  <2>2. written + 1 \in 0..MaxWrites
    BY BoundAssumption DEF Write, TypeOK
  <2>3. QED
    BY <1>2, <2>1, <2>2, Zenon DEF Contents
<1>5. files' = [files EXCEPT ![Dir["main"]] = [now |-> c, synced |-> c]] /\ Written
  BY Zenon DEF Write
<1> HIDE DEF c
<1>6. Moves(Dir) /\ files' \in FileStates /\ files'[Dir["main"]].now = c
  BY <1>1, <1>2, <1>4, <1>5, BothSet, Zenon
<1>7. At("open", Dir, todo', files')
  BY <1>2, <1>3, <1>4, <1>6, Zenon DEF At
<1>8. QED
  BY <1>1, <1>3, <1>6, <1>7, StandsAnyway, Zenon DEF Points

(* The older build writes. *)
LEMMA OldWriteStands == TypeOK /\ Standing /\ OldWrite => TypeOK' /\ Standing'
<1> SUFFICES ASSUME TypeOK, Standing, OldWrite PROVE TypeOK' /\ Standing'
  OBVIOUS
<1>1. Fit(Dir) /\ files \in FileStates
  BY AllFit, Zenon DEF TypeOK, FileStates
<1>2. Dir["main"] # NoFile /\ pc' = "down" /\ faults' \in 0..MaxFaults /\ HistoryType'
  <2>1. Dir["main"] # NoFile /\ pc' = "down" /\ faults' \in 0..MaxFaults
    BY Zenon DEF OldWrite, OldLog, TypeOK
  <2>2. written + 1 \in 0..MaxWrites
    BY BoundAssumption DEF OldWrite, TypeOK
  <2>3. HistoryType'
    BY <2>2, Zenon DEF OldWrite, TypeOK, HistoryType
  <2>4. QED
    BY <2>1, <2>3, Zenon
<1> DEFINE c == Log(old, written + 1, TRUE)
<1>3. c \in Contents
  BY BoundAssumption, VersionAssumption DEF OldWrite, TypeOK, Log, Contents, logVersion
<1>4. files' = [files EXCEPT ![Dir["main"]] = [now |-> c, synced |-> c]] /\ Written
  BY Zenon DEF OldWrite
<1> HIDE DEF c
<1>5. Moves(Dir) /\ files' \in FileStates
  BY <1>1, <1>2, <1>3, <1>4, BothSet, Zenon
<1>6. QED
  BY <1>1, <1>2, <1>5, DownStands, Zenon

(* What the older build's compaction leaves. *)
LEMMA OldCompactIs ==
  ASSUME TypeOK, Standing, OldCompact
  PROVE  \E d : /\ Fit(d) /\ dirs' = <<d>> /\ files' \in FileStates /\ d["compact"] # NoFile
                /\ d["main"] = NoFile /\ files'[d["compact"]] = [now |-> Now("main"), synced |-> Now("main")]
                /\ \A m \in Names \ {"main", "compact"} : d[m] = Dir[m]
                /\ \A m \in Names \ {"main", "compact"} :
                     Dir[m] # NoFile => files'[Dir[m]] = files[Dir[m]]
<1>1. Fit(Dir) /\ files \in FileStates /\ Dir \in Dirs
  BY AllFit, Zenon DEF TypeOK, FileStates, Fit
<1>2. PICK i \in Free :
        /\ files' = [files EXCEPT ![i] = [now |-> Now("main"), synced |-> Now("main")]]
        /\ dirs'  = <<[Dir EXCEPT !["compact"] = i, !["main"] = NoFile]>>
  BY Zenon DEF OldCompact
<1> DEFINE d == [Dir EXCEPT !["compact"] = i, !["main"] = NoFile]
<1>3. i \in Inodes /\ i # NoFile /\ \A x \in Names : Dir[x] # i
  BY DirIs, NoFileAssumption, Zenon DEF Free, Dir
<1>4. {"main", "compact"} \subseteq Names /\ "compact" \in Logs
  BY Zenon DEF Names, Artifacts, Logs, Spares
<1>5. /\ d \in Dirs /\ d["compact"] = i /\ d["main"] = NoFile
      /\ \A m \in Names \ {"main", "compact"} : d[m] = Dir[m]
  BY <1>1, <1>3, <1>4, Zenon DEF Dirs
<1>6. Fit(d)
  BY <1>1, <1>3, <1>4, <1>5, Zenon DEF Fit, OneName, HasLog
<1>7. Now("main") \in Contents
  BY <1>1, <1>4, Zenon DEF OldCompact, OldLog, Now, FileStates, Dirs
<1>8. /\ files' \in FileStates /\ files'[i] = [now |-> Now("main"), synced |-> Now("main")]
      /\ \A x \in Inodes \ {i} : files'[x] = files[x]
  BY <1>1, <1>2, <1>3, <1>7, Zenon DEF FileStates
<1>9. \A m \in Names : Dir[m] # NoFile => files'[Dir[m]] = files[Dir[m]]
  BY <1>1, <1>3, <1>8, Zenon DEF Dirs
<1>10. dirs' = <<d>>
  BY <1>2, Zenon
<1> HIDE DEF d
<1>11. QED
  BY <1>3, <1>5, <1>6, <1>8, <1>9, <1>10, Zenon

(* The older build compacts, and dies. *)
LEMMA OldCompactStands == TypeOK /\ Standing /\ OldCompact => TypeOK' /\ Standing'
<1> SUFFICES ASSUME TypeOK, Standing, OldCompact PROVE TypeOK' /\ Standing'
  OBVIOUS
<1>1. PICK d : Fit(d) /\ dirs' = <<d>> /\ files' \in FileStates
  BY OldCompactIs, Zenon
<1>2. Moves(d)
  BY <1>1, SyncMoves, Zenon DEF Fit
<1>3. pc' = "down" /\ HistoryType' /\ faults' \in 0..MaxFaults
  BY Zenon DEF OldCompact, TypeOK, HistoryType, history
<1>4. QED
  BY <1>1, <1>2, <1>3, DownStands, Zenon

(* The backup is put back. *)
LEMMA RollBackStands == TypeOK /\ Standing /\ RollBack => TypeOK' /\ Standing'
<1> SUFFICES ASSUME TypeOK, Standing, RollBack PROVE TypeOK' /\ Standing'
  OBVIOUS
<1>1. Fit(Dir) /\ files \in FileStates /\ Dir \in Dirs
  BY AllFit, Zenon DEF TypeOK, FileStates, Fit
<1>2. {"main", "bak"} \subseteq Names /\ "main" \in Logs /\ Dir["bak"] # NoFile
  BY Zenon DEF Names, Logs, RollBack
<1> DEFINE d == [Dir EXCEPT !["main"] = Dir["bak"], !["bak"] = NoFile]
<1>3. Fit(d)
  BY <1>1, <1>2, RenameFits, Zenon
<1>4. dirs' = <<d>> /\ UNCHANGED files /\ pc' = "down"
  BY Zenon DEF RollBack
<1>5. Now("bak") \in Contents
  BY <1>1, <1>2, Zenon DEF Now, FileStates, Dirs
<1>6. HistoryType' /\ faults' \in 0..MaxFaults
  BY <1>5, Zenon DEF RollBack, TypeOK, HistoryType, Contents
<1> HIDE DEF d
<1>7. Moves(d)
  BY <1>3, <1>4, SyncMoves, Zenon DEF Fit
<1>8. QED
  BY <1>1, <1>3, <1>4, <1>6, <1>7, DownStands, Zenon

(* A power failure leaves one of the directories, and of each file it      *)
(* names all, what was synchronized, or part.                              *)
LEMMA PowerFailureIs ==
  ASSUME TypeOK, Standing, PowerFailure
  PROVE  \E j \in DOMAIN dirs :
           /\ dirs' = <<dirs[j]>> /\ files' \in FileStates
           /\ \A n \in Names : dirs[j][n] # NoFile =>
                \E c \in Leftovers(files[dirs[j][n]]) :
                  files'[dirs[j][n]] = [now |-> c, synced |-> c]
<1>1. files \in FileStates /\ dirs \in Seq(Dirs) /\ \A j \in DOMAIN dirs : dirs[j] \in Dirs
  BY DirIs DEF TypeOK, FileStates
<1>2. PICK j \in DOMAIN dirs :
        LET named == {dirs[j][n] : n \in Names} \ {NoFile}
        IN  \E g \in [named -> UNION {Leftovers(files[i]) : i \in named}] :
              /\ \A i \in named : g[i] \in Leftovers(files[i])
              /\ dirs' = <<dirs[j]>>
              /\ files' = [i \in Inodes |-> LET c == IF i \in named THEN g[i] ELSE Nothing
                                             IN  [now |-> c, synced |-> c]]
  BY Zenon DEF PowerFailure
<1> DEFINE named == {dirs[j][n] : n \in Names} \ {NoFile}
<1>3. PICK g \in [named -> UNION {Leftovers(files[i]) : i \in named}] :
              /\ \A i \in named : g[i] \in Leftovers(files[i])
              /\ dirs' = <<dirs[j]>>
              /\ files' = [i \in Inodes |-> LET c == IF i \in named THEN g[i] ELSE Nothing
                                             IN  [now |-> c, synced |-> c]]
  BY <1>2, Zenon
<1>4. named \subseteq Inodes
  BY <1>1, Zenon DEF Dirs
<1>5. \A i \in Inodes : Leftovers(files[i]) \subseteq Contents
  <2> SUFFICES ASSUME NEW i \in Inodes, NEW c \in Leftovers(files[i]) PROVE c \in Contents
    OBVIOUS
  <2>1. files[i].now \in Contents /\ files[i].synced \in Contents
    BY <1>1, Zenon DEF FileStates
  <2>2. [files[i].now EXCEPT !.whole = FALSE] \in Contents
    BY <2>1, Zenon DEF Contents
  <2>3. QED
    BY <2>1, <2>2, Zenon DEF Leftovers
<1>6. Nothing \in Contents
  <2>1. 0 \in 0..logVersion /\ 0 \in 0..MaxWrites
    BY BoundAssumption DEF logVersion
  <2>2. QED
    BY <2>1, Zenon DEF Nothing, Log, Contents
<1>7. \A i \in named : g[i] \in Contents
  BY <1>3, <1>4, <1>5, Zenon
<1> HIDE DEF named
<1>8. files' \in FileStates
  BY <1>3, <1>6, <1>7, Zenon DEF FileStates
<1>9. \A i \in named : files'[i] = [now |-> g[i], synced |-> g[i]]
  BY <1>3, <1>4, Zenon
<1>10. \A n \in Names : dirs[j][n] # NoFile => dirs[j][n] \in named
  BY Zenon DEF named
<1>11. \A n \in Names : dirs[j][n] # NoFile =>
         \E c \in Leftovers(files[dirs[j][n]]) : files'[dirs[j][n]] = [now |-> c, synced |-> c]
  <2> SUFFICES ASSUME NEW n \in Names, dirs[j][n] # NoFile
               PROVE  \E c \in Leftovers(files[dirs[j][n]]) :
                        files'[dirs[j][n]] = [now |-> c, synced |-> c]
    OBVIOUS
  <2>1. dirs[j][n] \in named
    BY <1>10, Zenon
  <2>2. g[dirs[j][n]] \in Leftovers(files[dirs[j][n]])
    BY <1>3, <2>1, Zenon
  <2>3. files'[dirs[j][n]] = [now |-> g[dirs[j][n]], synced |-> g[dirs[j][n]]]
    BY <1>9, <2>1, Zenon
  <2>4. QED
    BY <2>2, <2>3, Zenon
<1>12. dirs' = <<dirs[j]>>
  BY <1>3, Zenon
<1>13. QED
  BY <1>8, <1>11, <1>12, Zenon

(* The machine dies. *)
LEMMA PowerFailureStands == TypeOK /\ Standing /\ PowerFailure => TypeOK' /\ Standing'
<1> SUFFICES ASSUME TypeOK, Standing, PowerFailure PROVE TypeOK' /\ Standing'
  OBVIOUS
<1>1. PICK j \in DOMAIN dirs : dirs' = <<dirs[j]>> /\ files' \in FileStates
  BY PowerFailureIs, Zenon
<1>2. Fit(dirs[j])
  BY AllFit, Zenon
<1>3. Moves(dirs[j])
  BY <1>1, <1>2, SyncMoves, Zenon DEF Fit
<1>4. pc' = "down" /\ HistoryType' /\ faults' \in 0..MaxFaults
  BY Zenon DEF PowerFailure, TypeOK, HistoryType, history
<1>5. QED
  BY <1>1, <1>2, <1>3, <1>4, DownStands, Zenon

(* The log is closed, or the process dies. *)
LEMMA EndStands == TypeOK /\ Standing /\ (Close \/ Crash) => TypeOK' /\ Standing'
<1> SUFFICES ASSUME TypeOK, Standing, Close \/ Crash PROVE TypeOK' /\ Standing'
  OBVIOUS
<1>1. UNCHANGED <<dirs, files>> /\ pc' = "down" /\ HistoryType' /\ faults' \in 0..MaxFaults
  BY Zenon DEF Close, Crash, disk, history, TypeOK, HistoryType
<1>2. Fit(Dir) /\ files' \in FileStates /\ Moves(Dir)
  BY <1>1, AllFit, SameMoves, Zenon DEF TypeOK, FileStates
<1>3. QED
  BY <1>1, <1>2, DownStands, Zenon

(* Standing is inductive. *)
LEMMA StandingHolds == Spec => [](TypeOK /\ Standing)
<1>1. Init => TypeOK /\ Standing
  <2> SUFFICES ASSUME Init PROVE TypeOK /\ Standing
    OBVIOUS
  <2>1. PICK i \in Inodes :
          /\ dirs  = <<[n \in Names |-> IF n = "main" THEN i ELSE NoFile]>>
          /\ files = [j \in Inodes |-> LET c == IF j = i THEN Log(old, 1, TRUE) ELSE Nothing
                                        IN  [now |-> c, synced |-> c]]
    BY Zenon DEF Init
  <2> DEFINE d == [n \in Names |-> IF n = "main" THEN i ELSE NoFile]
  <2>2. Fit(d)
    BY NoFileAssumption, Zenon DEF Fit, Dirs, OneName, HasLog, Names, Logs
  <2>3. dirs = <<d>> /\ Dir = d
    BY <2>1, Zenon DEF Dir
  <2> HIDE DEF d
  <2>4. dirs \in Seq(Dirs) /\ dirs # <<>> /\ \A j \in DOMAIN dirs : dirs[j] = d
    BY <2>2, <2>3 DEF Fit
  <2>5. {0, 1} \subseteq 0..MaxWrites /\ 0 \in 0..logVersion /\ 0 \in 0..MaxFaults
    BY BoundAssumption DEF logVersion
  <2>6. old \in FromVersions /\ old \in 0..logVersion
    BY VersionAssumption DEF Init, logVersion
  <2>7. Nothing \in Contents /\ Log(old, 1, TRUE) \in Contents
    BY <2>5, <2>6, Zenon DEF Nothing, Log, Contents
  <2>8. files \in FileStates
    BY <2>1, <2>7, Zenon DEF FileStates
  <2>9. TypeOK
    BY <2>4, <2>5, <2>6, <2>8, Zenon DEF Init, TypeOK, Dirs, FileStates
  <2>10. At(pc, Dir, todo, files)
    BY Zenon DEF Init, At
  <2>11. QED
    BY <2>2, <2>4, <2>9, <2>10, Zenon DEF Standing, Fit
<1>2. TypeOK /\ Standing /\ [Next]_vars => TypeOK' /\ Standing'
  <2> SUFFICES ASSUME TypeOK, Standing, [Next]_vars PROVE TypeOK' /\ Standing'
    OBVIOUS
  <2>1. CASE Next
    BY <2>1, OpenStands, StepStands, PlanEndsStands, OpenLogStands, OnMigrateStands,
       WriteStands, OldWriteStands, OldCompactStands, RollBackStands, PowerFailureStands,
       EndStands, Zenon DEF Next
  <2>2. CASE UNCHANGED vars
    BY <2>2, Zenon DEF vars, disk, history, TypeOK, Standing, Dir
  <2>3. QED
    BY <2>1, <2>2, Zenon
<1>3. QED
  BY <1>1, <1>2, PTL DEF Spec

(* Every variable of Open on an older log keeps its type, whatever fails,  *)
(* dies or is rolled back: no call is made on a name that has no file.     *)
THEOREM TypeCorrect == Spec => []TypeOK
BY StandingHolds, PTL

-----------------------------------------------------------------------------
(* What the steps do to the backup, and to what the files hold.            *)

(* A backup that is there keeps its file, and the file its contents. *)
BackupKept ==
  Dir["bak"] # NoFile =>
    Dir'["bak"] = Dir["bak"] /\ files'[Dir["bak"]] = files[Dir["bak"]]

HeldNext(d) == Held(pc', Len(todo'), d, files', Original, Current, accepted)

(* No file changes that a power failure might leave a name of. *)
Untouched ==
  \A k \in DOMAIN dirs : \A m \in Names :
    dirs[k][m] # NoFile => files'[dirs[k][m]] = files[dirs[k][m]]

(* What a directory holds only depends on its files. *)
LEMMA KeptSame ==
  ASSUME NEW d, NEW e, NEW f, NEW g, NEW good, NEW o, NEW a, KeptIn(d, f, good, o, a),
         \A m \in Logs \cup {"bak"} : e[m] = d[m] /\ (d[m] # NoFile => g[d[m]] = f[d[m]])
  PROVE  KeptIn(e, g, good, o, a)
<1>1. {"main", "ready", "backup", "compact", "bak"} \subseteq Logs \cup {"bak"}
  BY Zenon DEF Logs, Spares
<1>2. QED
  BY <1>1, Zenon DEF KeptIn

(* What a step has to show of the directory it leaves. *)
LEMMA Keeps ==
  ASSUME TypeOK, Kept, NEW d, Moves(d), UNCHANGED history, dirs' = <<d>> \/ Untouched,
         KeptIn(d, files', Good, Original, accepted), HeldNext(d)
  PROVE  Kept'
<1>1. Good' = Good /\ Original' = Original /\ Current' = Current /\ accepted' = accepted
  BY Zenon DEF history, Good, Original, Current
<1>2. \A j \in DOMAIN dirs' : KeptIn(dirs'[j], files', Good, Original, accepted)
  <2> SUFFICES ASSUME NEW j \in DOMAIN dirs', dirs'[j] # d
               PROVE  KeptIn(dirs'[j], files', Good, Original, accepted)
    OBVIOUS
  <2>1. PICK k \in DOMAIN dirs : dirs'[j] = dirs[k]
    BY Zenon DEF Moves
  <2>2. dirs' # <<d>>
    OBVIOUS
  <2>3. KeptIn(dirs[k], files, Good, Original, accepted)
    BY Zenon DEF Kept
  <2>4. \A m \in Logs \cup {"bak"} :
          dirs[k][m] # NoFile => files'[dirs[k][m]] = files[dirs[k][m]]
    BY <2>2, Zenon DEF Untouched, Logs, Spares, Names, Artifacts
  <2>5. QED
    BY <2>1, <2>3, <2>4, KeptSame, SMTT(30)
<1>3. Dir' = d
  BY Zenon DEF Moves
<1>4. QED
  BY <1>1, <1>2, <1>3, Zenon DEF Kept, HeldNext

(* A file is created, written or synchronized that is neither a log nor    *)
(* the backup.                                                             *)
LEMMA OtherKeeps ==
  ASSUME TypeOK, NEW d, Moves(d), NEW n \in {"bakTemp", "temp"}, Others(d, n),
         Sheltered(d), UNCHANGED history
  PROVE  BackupKept /\ (DirectoryFirst /\ Kept /\ HeldNext(d) => Kept')
<1>1. \A m \in Logs \cup {"bak"} : m \in Names \ {n}
  BY Zenon DEF Logs, Spares, Names, Artifacts
<1>2. BackupKept
  BY <1>1, Zenon DEF BackupKept, Moves, Others
<1>3. ASSUME DirectoryFirst, Kept, HeldNext(d) PROVE Kept'
  <2>1. KeptIn(Dir, files, Good, Original, accepted)
    BY <1>3, DirIs, Zenon DEF Kept, Dir
  <2>2. \A m \in Logs \cup {"bak"} : d[m] = Dir[m] /\ (Dir[m] # NoFile => files'[Dir[m]] = files[Dir[m]])
    BY <1>1, Zenon DEF Others
  <2>3. KeptIn(d, files', Good, Original, accepted)
    BY <2>1, <2>2, KeptSame, Zenon
  <2>4. dirs' = <<d>> \/ Untouched
    BY <1>3, Zenon DEF Sheltered, Untouched
  <2>5. QED
    BY <1>3, <2>3, <2>4, Keeps, Zenon
<1>4. QED
  BY <1>2, <1>3, Zenon

(* The files stay as they are, and no name of a log or of the backup gets  *)
(* another file.                                                           *)
LEMMA RemoveKeeps ==
  ASSUME TypeOK, NEW d, Moves(d), UNCHANGED <<files, history>>,
         d["bak"] = Dir["bak"], \A x \in Logs : d[x] \in {NoFile, Dir[x]}
  PROVE  BackupKept /\ (Kept /\ HeldNext(d) => Kept')
<1>1. BackupKept
  BY Zenon DEF BackupKept, Moves
<1>2. ASSUME Kept, HeldNext(d) PROVE Kept'
  <2>1. KeptIn(Dir, files, Good, Original, accepted)
    BY <1>2, DirIs, Zenon DEF Kept, Dir
  <2>2. {"main", "ready", "backup", "compact"} \subseteq Logs
    BY Zenon DEF Logs, Spares
  <2>3. KeptIn(d, files, Good, Original, accepted)
    BY <2>1, <2>2, Zenon DEF KeptIn
  <2>4. QED
    BY <1>2, <2>3, Keeps, Zenon DEF Untouched
<1>3. QED
  BY <1>1, <1>2, Zenon

(* A log gets the name of another. *)
LEMMA RenameKeeps ==
  ASSUME TypeOK, NEW d, Moves(d), UNCHANGED <<files, history>>,
         NEW m \in Logs, NEW n \in Logs, m # n, d[n] = Dir[m], d[m] = NoFile,
         \A x \in Names \ {m, n} : d[x] = Dir[x], accepted \/ (m = "compact" /\ n = "main")
  PROVE  BackupKept /\ (Kept /\ HeldNext(d) => Kept')
<1>1. "bak" \in Names \ {m, n} /\ Logs \subseteq Names
  BY Zenon DEF Logs, Spares, Names, Artifacts
<1>2. BackupKept
  BY <1>1, Zenon DEF BackupKept, Moves
<1>3. ASSUME Kept, HeldNext(d) PROVE Kept'
  <2>1. KeptIn(Dir, files, Good, Original, accepted)
    BY <1>3, DirIs, Zenon DEF Kept, Dir
  <2>2. {"main", "ready", "backup", "compact"} \subseteq Logs
    BY Zenon DEF Logs, Spares
  <2>3. \A x \in Logs : d[x] # NoFile =>
          /\ files[d[x]].now \in Good /\ files[d[x]].synced \in Good
          /\ logVersion \in {files[d[x]].now.version, files[d[x]].synced.version} =>
               NoMigrationBackup \/ d["bak"] # NoFile
    BY <1>1, <2>1 DEF KeptIn
  <2>4. ~accepted => /\ d["ready"] = NoFile /\ d["backup"] = NoFile
                     /\ d["main"] = NoFile \/ d["compact"] = NoFile
    BY <1>1, <2>1, <2>2, Zenon DEF KeptIn
  <2>5. KeptIn(d, files, Good, Original, accepted)
    BY <1>1, <2>1, <2>3, <2>4, Zenon DEF KeptIn
  <2>6. QED
    BY <1>3, <2>5, Keeps, Zenon DEF Untouched
<1>4. QED
  BY <1>2, <1>3, Zenon

(* What is good is the original or current, and its version tells which. *)
LEMMA GoodIs ==
  ASSUME TypeOK, NEW c \in Good
  PROVE  /\ c.version # logVersion => c = Original /\ written = lastOld
         /\ c.version = logVersion => c = Current /\ accepted
         /\ c.whole = TRUE /\ c.data = written
<1>1. old # logVersion
  BY VersionAssumption DEF TypeOK, logVersion
<1>2. Original.version = old /\ Current.version = logVersion
  BY Zenon DEF Original, Current, Log
<1>3. Original.whole = TRUE /\ Current.whole = TRUE /\ Current.data = written /\ Original.data = lastOld
  BY Zenon DEF Original, Current, Log
<1>4. QED
  BY <1>1, <1>2, <1>3, Zenon DEF Good

(* Both ways to migrate make of a good log the current one. *)
LEMMA UpgradedIs ==
  ASSUME TypeOK, NEW c \in Good, c \in Contents
  PROVE  [c EXCEPT !.version = logVersion] = Current
<1>1. c.whole = TRUE /\ c.data = written
  BY GoodIs, Zenon
<1>2. QED
  BY <1>1, Upgraded, Zenon DEF Current

(* The log that is served is good, and so is what the backup is made of. *)
LEMMA KeptNow ==
  ASSUME TypeOK, Kept
  PROVE  /\ KeptIn(Dir, files, Good, Original, accepted)
         /\ \A n \in Logs : Dir[n] # NoFile =>
              files[Dir[n]].now \in Good /\ files[Dir[n]].synced \in Good
<1>1. KeptIn(Dir, files, Good, Original, accepted)
  BY DirIs, Zenon DEF Kept, Dir
<1>2. QED
  BY <1>1, Zenon DEF KeptIn

(* A call of copyLogFile. *)
LEMMA CopyKeeps ==
  ASSUME TypeOK, Standing, pc = "copying", todo # <<>>,
         Perform(Head(todo).op), todo' = Tail(todo), pc' = pc, UNCHANGED history
  PROVE  BackupKept /\ (DirectoryFirst /\ Kept => Kept')
<1>1. /\ Copying(Dir, todo) /\ Fit(Dir) /\ Dir \in Dirs /\ files \in FileStates
      /\ files[Dir["main"]].now.version < logVersion
  BY AllFit, Zenon DEF Standing, At, Fit, TypeOK, FileStates
<1>2. PICK n, h, t : /\ n = Len(todo) /\ h = Head(todo) /\ t = Tail(todo)
                     /\ CopyNext(n, h, t)
  BY <1>1, CopyNexts, Zenon DEF Copying
<1>3. n \in 1..5 /\ Len(todo') = n - 1 /\ Perform(h.op)
  BY <1>2, Zenon DEF CopyNext
<1>4. /\ Dir["main"] # NoFile /\ Dir["main"] \in Inodes
      /\ n > 1 => Dir["bak"] = NoFile
      /\ n \in 2..4 => Dir["bakTemp"] # NoFile
  BY <1>1, <1>2, Zenon DEF Copying, Clean, Dirs, Names
<1>5. {"main", "bak", "bakTemp"} \subseteq Names /\ "bakTemp" \in {"bakTemp", "temp"}
  BY Zenon DEF Names
<1> DEFINE H(k, d) == Held("copying", k, d, files', Original, Current, accepted)
<1> HIDE DEF H
<1>0. \A d : H(n - 1, d) => HeldNext(d)
  BY <1>3, Zenon DEF H, HeldNext
<1>6. CASE n = 5
  <2>1. h.op = <<"create", "bakTemp">>
    BY <1>2, <1>6, Zenon DEF CopyNext
  <2>2. Create("bakTemp", Nothing)
    BY <1>3, <2>1, PerformIs, Zenon
  <2>3. PICK d : Created(d, "bakTemp")
    BY <1>5, <2>2, CreateIs, Zenon
  <2>4. H(4, d)
    BY DEF H, Held
  <2>5. QED
    BY <1>0, <1>5, <1>6, <2>3, <2>4, OtherKeeps DEF Created
<1>7. CASE n = 4
  <2>1. h.op = <<"copy">>
    BY <1>2, <1>7, Zenon DEF CopyNext
  <2>2. Set("bakTemp", Now("main"))
    BY <1>3, <2>1, PerformIs, Zenon
  <2>3. Now("main") \in Contents
    BY <1>1, <1>4, Zenon DEF Now, FileStates
  <2>4. /\ Moves(Dir) /\ Others(Dir, "bakTemp") /\ files'[Dir["bakTemp"]].now = Now("main")
        /\ Sheltered(Dir)
    BY <1>1, <1>4, <1>5, <1>7, <2>2, <2>3, SetIs, SMTT(30) DEF Sheltered
  <2>5. Kept => Now("main") = Original
    <3> SUFFICES ASSUME Kept PROVE Now("main") = Original
      OBVIOUS
    <3>1. Now("main") \in Good /\ Now("main").version # logVersion
      BY <1>1, <1>4, <2>3, KeptNow, SMTT(30) DEF Now, Logs, Contents, logVersion
    <3>2. QED
      BY <3>1, GoodIs, Zenon
  <2>6. Kept => H(3, Dir)
    BY <2>4, <2>5, SMTT(30) DEF H, Held
  <2>7. QED
    BY <1>0, <1>5, <1>7, <2>4, <2>6, OtherKeeps
<1>8. CASE n = 3
  <2>1. h.op = <<"fsync", "bakTemp">>
    BY <1>2, <1>8, Zenon DEF CopyNext
  <2>2. Fsync("bakTemp")
    BY <1>3, <2>1, PerformIs, Zenon
  <2>3. /\ Moves(Dir) /\ Others(Dir, "bakTemp") /\ Sheltered(Dir)
        /\ files'[Dir["bakTemp"]].now = Now("bakTemp")
        /\ files'[Dir["bakTemp"]].synced = Now("bakTemp")
    BY <1>1, <1>4, <1>5, <1>8, <2>2, FsyncIs, SMTT(30) DEF Sheltered
  <2>4. Kept => H(2, Dir)
    BY <1>2, <1>8, <2>3, SMTT(30) DEF Kept, H, Held, Now
  <2>5. QED
    BY <1>0, <1>5, <1>8, <2>3, <2>4, OtherKeeps
<1>9. CASE n = 2
  <2>1. h.op = <<"rename", "bakTemp", "bak">>
    BY <1>2, <1>9, Zenon DEF CopyNext
  <2>2. Rename("bakTemp", "bak")
    BY <1>3, <2>1, PerformIs, Zenon
  <2>3. PICK d : /\ Moves(d) /\ UNCHANGED files /\ d["bak"] = Dir["bakTemp"]
                 /\ \A x \in Names \ {"bakTemp", "bak"} : d[x] = Dir[x]
    BY <1>1, <1>4, <1>5, <1>9, <2>2, RenameIs, SMTT(30) DEF Logs, Spares
  <2>4. BackupKept
    BY <1>4, <1>9 DEF BackupKept
  <2>5. ASSUME Kept PROVE Kept'
    <3>1. KeptIn(Dir, files, Good, Original, accepted)
      BY <2>5, KeptNow, Zenon
    <3>2. files[d["bak"]].now = Original /\ files[d["bak"]].synced = Original
      BY <1>2, <1>9, <2>3, <2>5, SMTT(30) DEF Kept, Held
    <3>3. \A x \in Logs : d[x] = Dir[x]
      BY <2>3, Zenon DEF Logs, Spares, Names, Artifacts
    <3>4. d["bak"] # NoFile
      BY <1>4, <1>9, <2>3
    <3>5. KeptIn(d, files, Good, Original, accepted)
      BY <3>1, <3>2, <3>3, <3>4, Zenon DEF KeptIn, Logs, Spares
    <3>6. H(1, d)
      BY DEF H, Held
    <3>7. QED
      BY <1>0, <1>9, <2>3, <2>5, <3>5, <3>6, Keeps, SMTT(30) DEF Untouched
  <2>6. QED
    BY <2>4, <2>5, Zenon
<1>10. CASE n = 1
  <2>1. h.op = <<"syncdir">>
    BY <1>2, <1>10, Zenon DEF CopyNext
  <2>2. dirs' = <<Dir>> /\ UNCHANGED files
    BY <1>3, <2>1, PerformIs, Zenon
  <2>3. Moves(Dir)
    BY <1>1, <2>2, SyncMoves, Zenon
  <2>4. H(0, Dir)
    BY DEF H, Held
  <2>5. QED
    BY <1>0, <1>10, <2>2, <2>3, <2>4, RemoveKeeps
<1>11. QED
  BY <1>3, <1>6, <1>7, <1>8, <1>9, <1>10

(* The log itself is written or synchronized by setVersion. *)
LEMMA HeaderKeeps ==
  ASSUME TypeOK, Standing, pc = "migrate", todo # <<>>, Heading(Dir, todo),
         Perform(Head(todo).op), todo' = Tail(todo), pc' = pc, UNCHANGED history
  PROVE  BackupKept /\ (DirectoryFirst /\ Kept => Kept')
<1>1. /\ Fit(Dir) /\ Dir \in Dirs /\ files \in FileStates
      /\ NoMigrationBackup \/ Dir["bak"] # NoFile
  BY AllFit, Zenon DEF Standing, At, Fit, TypeOK, FileStates
<1>2. PICK n, h, t : h = Head(todo) /\ HeaderNext(n, h, t)
  BY HeaderNexts, Zenon DEF Heading
<1>3. /\ Dir["main"] # NoFile /\ {"main", "bak"} \subseteq Names /\ Now("main") \in Contents
      /\ \A m \in Artifacts : Dir[m] = NoFile
  BY <1>1, Zenon DEF Heading, Clean, Dirs, Names, Now, FileStates
<1>4. ASSUME Moves(Dir), Others(Dir, "main"), DirectoryFirst => dirs' = <<Dir>>,
             Kept => /\ files'[Dir["main"]].now \in Good
                     /\ files'[Dir["main"]].synced \in Good
      PROVE  BackupKept /\ (DirectoryFirst /\ Kept => Kept')
  <2>1. BackupKept
    BY <1>3, <1>4, Zenon DEF BackupKept, Moves, Others
  <2>2. ASSUME DirectoryFirst, Kept PROVE Kept'
    <3>1. KeptIn(Dir, files, Good, Original, accepted) /\ accepted
      BY <2>2, KeptNow, Zenon DEF Kept, Held
    <3>2. Dir["bak"] # NoFile => files'[Dir["bak"]] = files[Dir["bak"]]
      BY <1>3, <1>4, Zenon DEF Others
    <3>3. \A m \in Logs : Dir[m] # NoFile => m = "main"
      BY <1>3, Zenon DEF Logs, Spares, Artifacts
    <3>4. KeptIn(Dir, files', Good, Original, accepted)
      BY <1>1, <1>4, <2>2, <3>1, <3>2, <3>3, Zenon DEF KeptIn
    <3>5. HeldNext(Dir)
      BY <1>3, <3>1, Zenon DEF HeldNext, Held, Artifacts
    <3>6. QED
      BY <1>4, <2>2, <3>4, <3>5, Keeps, Zenon
  <2>3. QED
    BY <2>1, <2>2, Zenon
<1>5. Kept => /\ Now("main") \in Good /\ files[Dir["main"]].synced \in Good
              /\ accepted /\ [Now("main") EXCEPT !.version = logVersion] = Current
  <2> SUFFICES ASSUME Kept
               PROVE  /\ Now("main") \in Good /\ files[Dir["main"]].synced \in Good
                      /\ accepted /\ [Now("main") EXCEPT !.version = logVersion] = Current
    OBVIOUS
  <2>1. Now("main") \in Good /\ files[Dir["main"]].synced \in Good
    BY <1>3, KeptNow, Zenon DEF Now, Logs
  <2>2. accepted
    BY Zenon DEF Kept, Held
  <2>3. QED
    BY <1>3, <2>1, <2>2, UpgradedIs, Zenon
<1>6. Kept => Current \in Good
  BY <1>5, Zenon DEF Good
<1>7. CASE n = 2
  <2>1. h.op = <<"header">>
    BY <1>2, <1>7, Zenon DEF HeaderNext
  <2> DEFINE c == [Now("main") EXCEPT !.version = logVersion]
  <2>2. Set("main", c)
    BY <1>2, <2>1, PerformIs, Zenon
  <2>3. c \in Contents
    BY <1>3, Upgraded, Zenon
  <2>4. Kept => c = Current
    BY <1>5, Zenon
  <2> HIDE DEF c
  <2>5. /\ Moves(Dir) /\ Others(Dir, "main") /\ (DirectoryFirst => dirs' = <<Dir>>)
        /\ files'[Dir["main"]].now = c /\ files'[Dir["main"]].synced = files[Dir["main"]].synced
    BY <1>1, <1>3, <2>2, <2>3, SetIs, Zenon
  <2>6. QED
    BY <1>4, <1>5, <1>6, <2>4, <2>5, Zenon
<1>8. CASE n = 1
  <2>1. h.op = <<"fsync", "main">>
    BY <1>2, <1>8, Zenon DEF HeaderNext
  <2>2. Fsync("main")
    BY <1>2, <2>1, PerformIs, Zenon
  <2>3. /\ Moves(Dir) /\ Others(Dir, "main") /\ (DirectoryFirst => dirs' = <<Dir>>)
        /\ files'[Dir["main"]].now = Now("main") /\ files'[Dir["main"]].synced = Now("main")
    BY <1>1, <1>3, <2>2, FsyncIs, Zenon
  <2>4. QED
    BY <1>4, <1>5, <2>3, Zenon
<1>9. QED
  BY <1>2, <1>7, <1>8 DEF HeaderNext

(* A call of an error path: a backup of the log is only there once the     *)
(* migration was accepted.                                                 *)
LEMMA UndoKeeps ==
  ASSUME TypeOK, Standing, pc = "undo", todo # <<>>,
         Perform(Head(todo).op), todo' = Tail(todo), pc' = pc, UNCHANGED history
  PROVE  BackupKept /\ (Kept => Kept')
<1>1. Undoing(Dir, todo) /\ Fit(Dir) /\ Dir \in Dirs
  BY AllFit, Zenon DEF Standing, At, Fit
<1>2. \A d : HeldNext(d)
  BY Zenon DEF HeldNext, Held
<1>3. /\ {"bakTemp", "temp", "ready", "main", "backup", "bak"} \subseteq Names
      /\ {"main", "backup"} \subseteq Logs /\ Logs \subseteq Names
  BY Zenon DEF Names, Artifacts, Logs, Spares
<1>4. ASSUME NEW n \in {"bakTemp", "temp", "ready", "main"}, Head(todo).op = <<"remove", n>>,
             \E m \in Logs : m # n /\ Dir[m] # NoFile
      PROVE  BackupKept /\ (Kept => Kept')
  <2>1. SetDir([Dir EXCEPT ![n] = NoFile]) /\ UNCHANGED files
    BY <1>4, PerformIs, Zenon
  <2>0. n \in Names
    BY <1>3, Zenon
  <2>2. PICK d : /\ Moves(d) /\ Fit(d) /\ d[n] = NoFile
                 /\ \A x \in Names \ {n} : d[x] = Dir[x]
    BY <1>1, <1>4, <2>0, <2>1, RemoveIs, Zenon
  <2>3. d["bak"] = Dir["bak"] /\ \A x \in Logs : d[x] \in {NoFile, Dir[x]}
    BY <1>3, <2>2, Zenon
  <2>4. QED
    BY <1>2, <2>1, <2>2, <2>3, RemoveKeeps, Zenon
<1>5. ASSUME Head(todo).op = <<"rename", "backup", "main">>, Dir["backup"] # NoFile
      PROVE  BackupKept /\ (Kept => Kept')
  <2>1. Rename("backup", "main")
    BY <1>5, PerformIs, Zenon
  <2>2. PICK d : /\ Moves(d) /\ UNCHANGED files /\ d["main"] = Dir["backup"]
                 /\ d["backup"] = NoFile /\ \A x \in Names \ {"backup", "main"} : d[x] = Dir[x]
    BY <1>1, <1>3, <1>5, <2>1, RenameIs, SMTT(30)
  <2>3. CASE accepted
    BY <1>2, <1>3, <2>2, <2>3, RenameKeeps, Zenon
  <2>4. CASE ~accepted
    <3>1. ~Kept
      BY <1>5, <2>4, KeptNow, Zenon DEF KeptIn
    <3>2. BackupKept
      BY <1>3, <2>2, Zenon DEF BackupKept, Moves
    <3>3. QED
      BY <3>1, <3>2, Zenon
  <2>5. QED
    BY <2>3, <2>4, Zenon
<1>6. ASSUME NEW n \in {"bakTemp", "temp", "ready"}, todo = <<RemoveCall(n)>>,
             Dir["main"] # NoFile
      PROVE  BackupKept /\ (Kept => Kept')
  <2>1. Head(todo).op = <<"remove", n>>
    BY <1>6 DEF RemoveCall, Call
  <2>2. QED
    BY <1>3, <1>4, <1>6, <2>1, Zenon
<1>7. CASE todo = <<Restore>> /\ Dir["backup"] # NoFile
  <2>1. Head(todo).op = <<"rename", "backup", "main">>
    BY <1>7 DEF Restore, Call
  <2>2. QED
    BY <1>5, <1>7, <2>1, Zenon
<1>8. CASE todo = <<RemoveCall("main"), Restore>> /\ Dir["backup"] # NoFile
  <2>1. Head(todo).op = <<"remove", "main">>
    BY <1>8 DEF RemoveCall, Call
  <2>2. QED
    BY <1>3, <1>4, <1>8, <2>1, Zenon
<1>9. QED
  BY <1>1, <1>6, <1>7, <1>8, Zenon DEF Undoing

(* A call of recoverCompactionArtifacts. *)
LEMMA RecoverKeeps ==
  ASSUME TypeOK, Standing, pc = "recover", todo # <<>>,
         Perform(Head(todo).op), todo' = Tail(todo), pc' = pc, UNCHANGED history
  PROVE  BackupKept /\ (Kept => Kept')
<1>1. Recovering(Dir, todo) /\ Fit(Dir) /\ Dir \in Dirs
  BY AllFit, Zenon DEF Standing, At, Fit
<1>2. \A d : HeldNext(d)
  BY Zenon DEF HeldNext, Held
<1>3. todo \in Seq(RecoveryCalls) /\ Len(todo) \in Nat \ {0} /\ Head(todo) = todo[1]
  BY <1>1 DEF Recovering
<1>4. CASE Dir["main"] # NoFile
  <2>1. todo[1] \in ClearCalls
    BY <1>1, <1>3, <1>4 DEF Recovering
  <2>2. ASSUME NEW n \in Artifacts, todo[1] = RemoveCall(n)
        PROVE  BackupKept /\ (Kept => Kept')
    <3>1. n \in Names /\ n \notin {"main", "bak"} /\ "main" \in Logs /\ Logs \subseteq Names
          /\ "bak" \in Names
      BY <2>2, Zenon DEF Names, Artifacts, Logs, Spares
    <3>2. Head(todo).op = <<"remove", n>>
      BY <1>3, <2>2 DEF RemoveCall, Call
    <3>3. SetDir([Dir EXCEPT ![n] = NoFile]) /\ UNCHANGED files
      BY <3>2, PerformIs, Zenon
    <3>4. PICK d : /\ Moves(d) /\ Fit(d) /\ d[n] = NoFile
                   /\ \A x \in Names \ {n} : d[x] = Dir[x]
      BY <1>1, <1>4, <3>1, <3>3, RemoveIs, Zenon
    <3>5. d["bak"] = Dir["bak"] /\ \A x \in Logs : d[x] \in {NoFile, Dir[x]}
      BY <3>1, <3>4, Zenon
    <3>6. QED
      BY <1>2, <3>3, <3>4, <3>5, RemoveKeeps, Zenon
  <2>3. ASSUME todo[1] = Call(<<"syncdir">>, <<>>)
        PROVE  BackupKept /\ (Kept => Kept')
    <3>1. Head(todo).op = <<"syncdir">>
      BY <1>3, <2>3 DEF Call
    <3>2. dirs' = <<Dir>> /\ UNCHANGED files
      BY <3>1, PerformIs, Zenon
    <3>3. Moves(Dir)
      BY <1>1, <3>2, SyncMoves, Zenon
    <3>4. QED
      BY <1>2, <3>2, <3>3, RemoveKeeps, Zenon
  <2>4. QED
    BY <2>1, <2>2, <2>3, Zenon DEF ClearCalls
<1>5. CASE Dir["main"] = NoFile
  <2>1. Dir[Survivor(Dir)] # NoFile /\ todo[1] = RenameCall(Survivor(Dir))
    BY <1>1, <1>5, Zenon DEF Recovering
  <2>2. PICK from \in Spares : from = Survivor(Dir)
    BY <1>5, Zenon DEF Survivor, Spares
  <2>3. Head(todo).op = <<"rename", from, "main">> /\ Dir[from] # NoFile
    BY <1>3, <2>1, <2>2 DEF RenameCall, Call
  <2>4. Rename(from, "main")
    BY <2>3, PerformIs, Zenon
  <2>5. /\ {from, "main", "bak"} \subseteq Names /\ {from, "main"} \subseteq Logs
        /\ from # "main" /\ from # "bak"
    BY Zenon DEF Names, Artifacts, Logs, Spares
  <2>6. PICK d : /\ Moves(d) /\ UNCHANGED files /\ d["main"] = Dir[from] /\ d[from] = NoFile
                 /\ \A x \in Names \ {from, "main"} : d[x] = Dir[x]
    BY <1>1, <2>3, <2>4, <2>5, RenameIs, SMTT(30)
  <2>7. CASE accepted \/ from = "compact"
    BY <1>2, <2>5, <2>6, <2>7, RenameKeeps, Zenon
  <2>8. CASE ~accepted /\ from # "compact"
    <3>1. Dir["ready"] # NoFile \/ Dir["backup"] # NoFile
      BY <2>3, <2>8, Zenon DEF Spares
    <3>2. ~Kept
      BY <2>8, <3>1, KeptNow, Zenon DEF KeptIn
    <3>3. BackupKept
      BY <2>5, <2>6, Zenon DEF BackupKept, Moves
    <3>4. QED
      BY <3>2, <3>3, Zenon
  <2>9. QED
    BY <2>7, <2>8, Zenon
<1>6. QED
  BY <1>4, <1>5, Zenon

(* A call of Compact. *)
LEMMA RewriteKeeps ==
  ASSUME TypeOK, Standing, pc = "migrate", todo # <<>>, Rewriting(Dir, todo, files),
         Perform(Head(todo).op), todo' = Tail(todo), pc' = pc, UNCHANGED history
  PROVE  BackupKept /\ (DirectoryFirst /\ Kept => Kept')
<1>1. /\ Fit(Dir) /\ Dir \in Dirs /\ files \in FileStates
      /\ NoMigrationBackup \/ Dir["bak"] # NoFile
  BY AllFit, Zenon DEF Standing, At, Fit, TypeOK, FileStates
<1>2. PICK n, h, t : /\ n = Len(todo) /\ h = Head(todo) /\ t = Tail(todo)
                     /\ RewriteNext(n, h, t)
  BY RewriteNexts, Zenon DEF Rewriting
<1>3. /\ n \in 1..10 /\ Len(todo') = n - 1 /\ Perform(h.op) /\ RewriteNames(Dir, n)
  BY <1>2, Zenon DEF RewriteNext, Rewriting
<1>4. /\ {"main", "temp", "ready", "backup", "compact", "bak"} \subseteq Names
      /\ Logs = {"main", "ready", "backup", "compact"} /\ "temp" \in {"bakTemp", "temp"}
  BY Zenon DEF Names, Artifacts, Logs, Spares
<1> DEFINE H(k, d) == Held("migrate", k, d, files', Original, Current, accepted)
<1> HIDE DEF H
<1>5. \A d : H(n - 1, d) => HeldNext(d)
  BY <1>3, Zenon DEF H, HeldNext
<1>6. Kept => accepted
  BY Zenon DEF Kept, Held
<1>7. ASSUME NEW a \in Logs, NEW b \in Logs, a # b, Rename(a, b), Dir[a] # NoFile, n < 7
      PROVE  BackupKept /\ (DirectoryFirst /\ Kept => Kept')
  <2>1. PICK d : /\ Moves(d) /\ UNCHANGED files /\ d[b] = Dir[a]
                 /\ d[a] = NoFile /\ \A x \in Names \ {a, b} : d[x] = Dir[x]
    BY <1>1, <1>4, <1>7, RenameIs
  <2>2. accepted => HeldNext(d)
    BY <1>3, <1>5, <1>7, SMTT(30) DEF H, Held
  <2>3. CASE accepted
    BY <1>7, <2>1, <2>2, <2>3, RenameKeeps, Zenon
  <2>4. CASE ~accepted
    BY <1>4, <1>6, <2>1, <2>4, Zenon DEF BackupKept, Moves
  <2>5. QED
    BY <2>3, <2>4, Zenon
<1>8. ASSUME NEW d, Moves(d), UNCHANGED files, d["bak"] = Dir["bak"],
             \A x \in Logs : d[x] \in {NoFile, Dir[x]}, n < 7
      PROVE  BackupKept /\ (DirectoryFirst /\ Kept => Kept')
  <2>1. accepted => HeldNext(d)
    BY <1>3, <1>5, <1>8, SMTT(30) DEF H, Held
  <2>2. QED
    BY <1>6, <1>8, <2>1, RemoveKeeps, Zenon
<1>9. CASE n = 10
  <2>1. h.op = <<"create", "temp">>
    BY <1>2, <1>9, Zenon DEF RewriteNext
  <2>2. Create("temp", Nothing)
    BY <1>3, <2>1, PerformIs, Zenon
  <2>3. PICK d : Created(d, "temp")
    BY <1>4, <2>2, CreateIs, Zenon
  <2>4. accepted => H(9, d)
    BY DEF H, Held
  <2>5. QED
    BY <1>4, <1>5, <1>6, <1>9, <2>3, <2>4, OtherKeeps DEF Created
<1>10. CASE n = 9
  <2>1. h.op = <<"rewrite">>
    BY <1>2, <1>10, Zenon DEF RewriteNext
  <2> DEFINE c == [Now("main") EXCEPT !.version = logVersion]
  <2>2. Set("temp", c)
    BY <1>3, <2>1, PerformIs, Zenon
  <2>3. Dir["main"] # NoFile /\ Dir["temp"] # NoFile
    BY <1>3, <1>10 DEF RewriteNames
  <2>4. Now("main") \in Contents
    BY <1>1, <1>4, <2>3, Zenon DEF Now, FileStates, Dirs
  <2>5. c \in Contents
    BY <2>4, Upgraded, Zenon
  <2>6. Kept => c = Current
    BY <1>4, <2>3, <2>4, KeptNow, UpgradedIs, Zenon DEF Now
  <2> HIDE DEF c
  <2>7. Moves(Dir) /\ files'[Dir["temp"]].now = c /\ Others(Dir, "temp") /\ Sheltered(Dir)
    BY <1>1, <1>4, <2>2, <2>3, <2>5, SetIs, Zenon DEF Sheltered
  <2>8. Kept => H(8, Dir)
    BY <1>6, <2>6, <2>7, SMTT(30) DEF H, Held
  <2>9. QED
    BY <1>4, <1>5, <1>10, <2>7, <2>8, OtherKeeps, SMTT(30)
<1>11. CASE n = 8
  <2>1. h.op = <<"fsync", "temp">>
    BY <1>2, <1>11, Zenon DEF RewriteNext
  <2>2. Fsync("temp")
    BY <1>3, <2>1, PerformIs, Zenon
  <2>3. Dir["temp"] # NoFile
    BY <1>3, <1>11 DEF RewriteNames
  <2>4. /\ Moves(Dir) /\ Others(Dir, "temp") /\ Sheltered(Dir)
        /\ files'[Dir["temp"]].now = Now("temp") /\ files'[Dir["temp"]].synced = Now("temp")
    BY <1>1, <1>4, <2>2, <2>3, FsyncIs, Zenon DEF Sheltered
  <2>5. Kept => Now("temp") = Current
    BY <1>2, <1>11, <2>3, SMTT(30) DEF Kept, Held, Now
  <2>6. Kept => H(7, Dir)
    BY <1>6, <2>4, <2>5, Zenon DEF H, Held
  <2>7. QED
    BY <1>4, <1>5, <1>11, <2>4, <2>6, OtherKeeps, SMTT(30)
<1>12. CASE n = 7
  <2>1. h.op = <<"rename", "temp", "ready">>
    BY <1>2, <1>12, Zenon DEF RewriteNext
  <2>2. Rename("temp", "ready")
    BY <1>3, <2>1, PerformIs, Zenon
  <2>3. Dir["temp"] # NoFile
    BY <1>3, <1>12 DEF RewriteNames
  <2>4. PICK d : /\ Moves(d) /\ UNCHANGED files /\ d["ready"] = Dir["temp"]
                 /\ d["temp"] = NoFile /\ \A x \in Names \ {"temp", "ready"} : d[x] = Dir[x]
    BY <1>1, <1>4, <2>2, <2>3, RenameIs
  <2>5. BackupKept
    BY <1>4, <2>4, Zenon DEF BackupKept, Moves
  <2>6. ASSUME Kept PROVE Kept'
    <3>1. KeptIn(Dir, files, Good, Original, accepted) /\ accepted
      BY <1>6, <2>6, KeptNow, Zenon
    <3>2. files[d["ready"]].now = Current /\ files[d["ready"]].synced = Current
      BY <1>2, <1>12, <2>3, <2>4, <2>6, SMTT(30) DEF Kept, Held
    <3>3. Current \in Good
      BY <3>1, Zenon DEF Good
    <3>4. d["bak"] = Dir["bak"] /\ \A x \in Logs \ {"ready"} : d[x] = Dir[x]
      BY <1>4, <2>4, Zenon
    <3>5. KeptIn(d, files, Good, Original, accepted)
      BY <1>1, <3>1, <3>2, <3>3, <3>4, Zenon DEF KeptIn
    <3>6. H(6, d)
      BY <3>1, SMTT(30) DEF H, Held
    <3>7. QED
      BY <1>5, <1>12, <2>4, <2>6, <3>5, <3>6, Keeps, SMTT(30) DEF Untouched
  <2>7. QED
    BY <2>5, <2>6, Zenon
<1>13. CASE n \in {1, 6}
  <2>1. h.op = <<"syncdir">>
    BY <1>2, <1>13, Zenon DEF RewriteNext
  <2>2. dirs' = <<Dir>> /\ UNCHANGED files
    BY <1>3, <2>1, PerformIs, Zenon
  <2>3. Moves(Dir)
    BY <1>1, <2>2, SyncMoves, Zenon
  <2>4. QED
    BY <1>8, <1>13, <2>2, <2>3
<1>14. CASE n = 5
  <2>1. h.op = <<"rename", "main", "backup">>
    BY <1>2, <1>14, Zenon DEF RewriteNext
  <2>2. Rename("main", "backup") /\ Dir["main"] # NoFile
    BY <1>3, <1>14, <2>1, PerformIs DEF RewriteNames
  <2>3. QED
    BY <1>4, <1>7, <1>14, <2>2
<1>15. CASE n = 4
  <2>1. h.op = <<"rename", "ready", "main">>
    BY <1>2, <1>15, Zenon DEF RewriteNext
  <2>2. Rename("ready", "main") /\ Dir["ready"] # NoFile
    BY <1>3, <1>15, <2>1, PerformIs DEF RewriteNames
  <2>3. QED
    BY <1>4, <1>7, <1>15, <2>2
<1>16. CASE n = 3
  <2>1. h.op = <<"reopen">>
    BY <1>2, <1>16, Zenon DEF RewriteNext
  <2>2. UNCHANGED <<dirs, files>>
    BY <1>3, <2>1, PerformIs, Zenon DEF disk
  <2>3. Moves(Dir)
    BY <2>2, SameMoves, Zenon
  <2>4. QED
    BY <1>8, <1>16, <2>2, <2>3
<1>17. CASE n = 2
  <2>1. h.op = <<"remove", "backup">>
    BY <1>2, <1>17, Zenon DEF RewriteNext
  <2>2. SetDir([Dir EXCEPT !["backup"] = NoFile]) /\ UNCHANGED files
    BY <1>3, <2>1, PerformIs, Zenon
  <2>3. Dir["main"] # NoFile
    BY <1>3, <1>17 DEF RewriteNames
  <2>4. PICK d : /\ Moves(d) /\ d["backup"] = NoFile
                 /\ \A x \in Names \ {"backup"} : d[x] = Dir[x]
    BY <1>1, <1>4, <2>2, <2>3, RemoveIs
  <2>5. d["bak"] = Dir["bak"] /\ \A x \in Logs : d[x] \in {NoFile, Dir[x]}
    BY <1>4, <2>4, Zenon
  <2>6. QED
    BY <1>8, <1>17, <2>2, <2>4, <2>5
<1>18. QED
  BY <1>3, <1>9, <1>10, <1>11, <1>12, <1>13, <1>14, <1>15, <1>16, <1>17

(* The files stay as they are. *)
LEMMA SameKeeps ==
  ASSUME TypeOK, UNCHANGED <<dirs, files, history>>, HeldNext(Dir)
  PROVE  BackupKept /\ (Kept => Kept')
<1>1. Moves(Dir)
  BY SameMoves, Zenon
<1>2. QED
  BY <1>1, RemoveKeeps, Zenon

(* The next call of a plan. *)
LEMMA StepKeeps ==
  ASSUME TypeOK, Standing, Step
  PROVE  BackupKept /\ (DirectoryFirst /\ Kept => Kept')
<1>1. At(pc, Dir, todo, files)
  BY Zenon DEF Standing
<1>2. pc \in {"recover", "copying", "migrate", "undo"} /\ todo # <<>> /\ UNCHANGED history
  BY Zenon DEF Step
<1>3. CASE Perform(Head(todo).op) /\ todo' = Tail(todo) /\ pc' = pc
  <2>1. CASE pc = "recover"
    BY <1>2, <1>3, <2>1, RecoverKeeps, Zenon
  <2>2. CASE pc = "copying"
    BY <1>2, <1>3, <2>2, CopyKeeps, Zenon
  <2>3. CASE pc = "migrate"
    <3>1. CASE Heading(Dir, todo)
      BY <1>2, <1>3, <2>3, <3>1, HeaderKeeps, Zenon
    <3>2. CASE Rewriting(Dir, todo, files)
      BY <1>2, <1>3, <2>3, <3>2, RewriteKeeps, Zenon
    <3>3. QED
      BY <1>1, <2>3, <3>1, <3>2, Zenon DEF At
  <2>4. CASE pc = "undo"
    BY <1>2, <1>3, <2>4, UndoKeeps, Zenon
  <2>5. QED
    BY <1>2, <2>1, <2>2, <2>3, <2>4, Zenon
<1>4. CASE pc' = "undo" /\ UNCHANGED disk
  <2>1. HeldNext(Dir)
    BY <1>4, Zenon DEF HeldNext, Held
  <2>2. QED
    BY <1>2, <1>4, <2>1, SameKeeps, Zenon DEF disk
<1>5. QED
  BY <1>3, <1>4, Zenon DEF Step

(* Open, between its plans. *)
LEMMA OpenKeeps ==
  ASSUME TypeOK, Standing, Open \/ PlanEnds \/ OpenLog \/ Close \/ Crash
  PROVE  BackupKept /\ (Kept => Kept')
<1>1. UNCHANGED <<dirs, files, history>>
  <2>1. CASE OpenLog
    <3>1. Dir["main"] # NoFile
      BY <2>1, Zenon DEF OpenLog, Standing, At, Clean
    <3>2. QED
      BY <2>1, <3>1, Zenon DEF OpenLog, disk
  <2>2. CASE Open \/ PlanEnds \/ Close \/ Crash
    BY <2>2, Zenon DEF Open, PlanEnds, Close, Crash, disk
  <2>3. QED
    BY <2>1, <2>2, Zenon
<1>2. pc' \notin {"copying", "migrate"} \/ (pc' = "copying" /\ todo' = BackupPlan(Dir))
  <2>1. CASE OpenLog
    BY <2>1, Zenon DEF OpenLog
  <2>2. CASE PlanEnds
    BY <2>2, Zenon DEF PlanEnds, After
  <2>3. CASE Open \/ Close \/ Crash
    BY <2>3, Zenon DEF Open, Close, Crash
  <2>4. QED
    BY <2>1, <2>2, <2>3, Zenon
<1>3. HeldNext(Dir)
  <2>1. CASE pc' \notin {"copying", "migrate"}
    BY <2>1, Zenon DEF HeldNext, Held
  <2>2. CASE pc' = "copying" /\ todo' = BackupPlan(Dir)
    <3>1. todo' = <<>> \/ todo' = CopyPlan
      BY <2>2, Zenon DEF BackupPlan
    <3>2. PICK n \in {0, 5} : n = Len(todo')
      BY <3>1, RestEnds, Zenon
    <3>3. Held("copying", n, Dir, files', Original, Current, accepted)
      BY DEF Held
    <3>4. QED
      BY <2>2, <3>2, <3>3, Zenon DEF HeldNext
  <2>3. QED
    BY <1>2, <2>1, <2>2, Zenon
<1>4. QED
  BY <1>1, <1>3, SameKeeps, Zenon

(* The directory is durable, and what has been written may have changed. *)
LEMMA KeepsAnyway ==
  ASSUME NEW d, dirs' = <<d>>, KeptIn(d, files', Good', Original', accepted'),
         Held(pc', Len(todo'), d, files', Original', Current', accepted')
  PROVE  Kept'
<1>1. Dir' = d /\ \A j \in DOMAIN dirs' : dirs'[j] = d
  BY DEF Dir
<1>2. QED
  BY <1>1, Zenon DEF Kept

(* OnMigrate: what was good stays good. *)
LEMMA OnMigrateKeeps ==
  ASSUME TypeOK, Standing, OnMigrate
  PROVE  BackupKept /\ (Kept => Kept')
<1>1. UNCHANGED <<dirs, files, old, written, lastOld>> /\ Dir' = Dir
  BY Zenon DEF OnMigrate, disk, Dir
<1>2. BackupKept
  BY <1>1, Zenon DEF BackupKept
<1>3. ASSUME Kept PROVE Kept'
  <2>1. Good \subseteq Good' /\ Original' = Original /\ (accepted => accepted')
    <3>1. accepted => accepted'
      BY Zenon DEF OnMigrate
    <3>2. Original' = Original /\ Current' = Current
      BY <1>1, Zenon DEF Original, Current
    <3>3. Good \subseteq Good'
      BY <1>1, <3>1, <3>2, Zenon DEF Good
    <3>4. QED
      BY <3>1, <3>2, <3>3, Zenon
  <2>2. \A j \in DOMAIN dirs : KeptIn(dirs[j], files, Good', Original, accepted')
    <3> SUFFICES ASSUME NEW j \in DOMAIN dirs
                 PROVE  KeptIn(dirs[j], files, Good', Original, accepted')
      OBVIOUS
    <3>1. KeptIn(dirs[j], files, Good, Original, accepted)
      BY <1>3, Zenon DEF Kept
    <3>2. QED
      BY <2>1, <3>1, Zenon DEF KeptIn
  <2>3. Dir["temp"] = NoFile
    BY Zenon DEF OnMigrate, Standing, At, Clean, Artifacts
  <2>4. pc' = "down" \/ (pc' = "migrate" /\ accepted')
    BY Zenon DEF OnMigrate
  <2>5. Held(pc', Len(todo'), Dir, files, Original, Current', accepted')
    BY <2>3, <2>4, Zenon DEF Held
  <2>6. QED
    BY <1>1, <2>1, <2>2, <2>5, Zenon DEF Kept
<1>4. QED
  BY <1>2, <1>3, Zenon

(* This build writes: what it writes to is the current log. *)
LEMMA WriteKeeps ==
  ASSUME TypeOK, Standing, Write
  PROVE  BackupKept /\ (DirectoryFirst /\ Kept => Kept')
<1>1. Fit(Dir) /\ Dir \in Dirs /\ files \in FileStates /\ At(pc, Dir, todo, files)
  BY AllFit, Zenon DEF Standing, Fit, TypeOK, FileStates
<1>2. /\ Clean(Dir) /\ Dir["main"] # NoFile /\ Now("main").version = logVersion
      /\ {"main", "bak"} \subseteq Names /\ Now("main") \in Contents
  BY <1>1, Zenon DEF Write, At, Clean, Now, Names, FileStates, Dirs
<1> DEFINE c == [Now("main") EXCEPT !.data = written + 1]
<1>3. c \in Contents /\ c = Log(logVersion, written + 1, Now("main").whole)
  <2>1. written + 1 \in 0..MaxWrites
    BY BoundAssumption DEF Write, TypeOK
  <2>2. QED
    BY <1>2, <2>1 DEF Contents, Log
<1>4. files' = [files EXCEPT ![Dir["main"]] = [now |-> c, synced |-> c]] /\ Written
  BY Zenon DEF Write
<1> HIDE DEF c
<1>5. /\ Moves(Dir) /\ Others(Dir, "main") /\ (DirectoryFirst => dirs' = <<Dir>>)
      /\ files'[Dir["main"]].now = c /\ files'[Dir["main"]].synced = c
  BY <1>1, <1>2, <1>3, <1>4, BothSet, Zenon
<1>6. BackupKept
  BY <1>2, <1>5, Zenon DEF BackupKept, Moves, Others
<1>7. ASSUME DirectoryFirst, Kept PROVE Kept'
  <2>1. KeptIn(Dir, files, Good, Original, accepted) /\ Now("main") \in Good
    BY <1>2, <1>7, KeptNow, Zenon DEF Now, Logs
  <2>2. accepted /\ Now("main").whole = TRUE
    BY <1>2, <2>1, GoodIs, Zenon
  <2>3. UNCHANGED <<old, lastOld, accepted, pc>> /\ written' = written + 1 /\ pc = "open"
    BY Zenon DEF Write
  <2>4. c = Current' /\ Original' = Original
    BY <1>3, <2>2, <2>3, Zenon DEF Current, Original
  <2>5. c \in Good'
    BY <2>2, <2>3, <2>4, Zenon DEF Good
  <2>6. \A m \in Logs : Dir[m] # NoFile => m = "main"
    BY <1>2, Zenon DEF Logs, Spares, Clean, Artifacts
  <2>7. Dir["bak"] # NoFile => files'[Dir["bak"]] = files[Dir["bak"]]
    BY <1>2, <1>5, Zenon DEF Others
  <2>8. NoMigrationBackup \/ Dir["bak"] # NoFile
    BY <1>2, <2>1, Zenon DEF KeptIn, Now, Logs
  <2>9. KeptIn(Dir, files', Good', Original', accepted')
    BY <1>5, <2>1, <2>2, <2>3, <2>4, <2>5, <2>6, <2>7, <2>8 DEF KeptIn
  <2>10. Held(pc', Len(todo'), Dir, files', Original', Current', accepted')
    BY <2>3, Zenon DEF Held
  <2>11. QED
    BY <1>5, <1>7, <2>9, <2>10, KeepsAnyway, Zenon
<1>8. QED
  BY <1>6, <1>7, Zenon

(* The older build writes, while nothing has been migrated. *)
LEMMA OldWriteKeeps ==
  ASSUME TypeOK, Standing, Kept, DirectoryFirst, ~OldRunsAgain, OldWrite
  PROVE  Kept'
<1>1. Fit(Dir) /\ KeptIn(Dir, files, Good, Original, accepted)
  BY AllFit, KeptNow, Zenon
<1>2. /\ Dir["main"] # NoFile /\ Dir["bak"] = NoFile /\ ~accepted /\ pc' = "down"
      /\ written' = written + 1 /\ lastOld' = written' /\ old' = old /\ accepted' = FALSE
  BY Zenon DEF OldWrite, OldLog
<1>3. \A m \in Logs : Dir[m] # NoFile => m = "main"
  BY <1>1, <1>2, Zenon DEF KeptIn, Logs, Spares
<1> DEFINE c == Log(old, written + 1, TRUE)
<1>4. c \in Contents
  BY BoundAssumption, VersionAssumption DEF OldWrite, TypeOK, Log, Contents, logVersion
<1>5. c = Original' /\ c \in Good'
  BY <1>2, Zenon DEF Original, Good
<1>6. c.version # logVersion
  BY VersionAssumption DEF TypeOK, Log, logVersion
<1>7. files' = [files EXCEPT ![Dir["main"]] = [now |-> c, synced |-> c]] /\ Written
  BY Zenon DEF OldWrite
<1> HIDE DEF c
<1>8. /\ dirs' = <<Dir>> /\ files'[Dir["main"]].now = c /\ files'[Dir["main"]].synced = c
  BY <1>1, <1>2, <1>4, <1>7, BothSet, Zenon
<1>9. KeptIn(Dir, files', Good', Original', accepted')
  BY <1>1, <1>2, <1>3, <1>5, <1>6, <1>8, Zenon DEF KeptIn
<1>10. Held(pc', Len(todo'), Dir, files', Original', Current', accepted')
  BY <1>2, Zenon DEF Held
<1>11. QED
  BY <1>8, <1>9, <1>10, KeepsAnyway, Zenon

(* The older build compacts: what it writes is the log it read. *)
LEMMA OldCompactKeeps ==
  ASSUME TypeOK, Standing, Kept, OldCompact
  PROVE  Kept'
<1>1. KeptIn(Dir, files, Good, Original, accepted)
  BY KeptNow, Zenon
<1>2. PICK d : /\ dirs' = <<d>> /\ d["compact"] # NoFile /\ d["main"] = NoFile
               /\ files'[d["compact"]] = [now |-> Now("main"), synced |-> Now("main")]
               /\ \A m \in Names \ {"main", "compact"} : d[m] = Dir[m]
               /\ \A m \in Names \ {"main", "compact"} :
                    Dir[m] # NoFile => files'[Dir[m]] = files[Dir[m]]
  BY OldCompactIs, Zenon
<1>3. Now("main") \in Good /\ Now("main").version # logVersion
  <2>1. Dir["main"] # NoFile /\ Now("main").version = old
    BY Zenon DEF OldCompact, OldLog
  <2>2. old # logVersion
    BY VersionAssumption DEF TypeOK, logVersion
  <2>3. QED
    BY <1>1, <2>1, <2>2, Zenon DEF KeptIn, Logs, Now
<1>4. pc' = "down" /\ Good' = Good /\ Original' = Original /\ accepted' = accepted
  BY Zenon DEF OldCompact, history, Good, Original, Current
<1>5. /\ files'[d["compact"]].now = Now("main") /\ files'[d["compact"]].synced = Now("main")
      /\ \A m \in {"ready", "backup", "bak"} :
           d[m] = Dir[m] /\ (d[m] # NoFile => files'[d[m]] = files[d[m]])
  BY <1>2 DEF Names, Artifacts
<1>6. KeptIn(d, files', Good, Original, accepted)
  <2>1. ASSUME NEW m \in {"ready", "backup"}, d[m] # NoFile
        PROVE  /\ files'[d[m]].now \in Good /\ files'[d[m]].synced \in Good
               /\ logVersion \in {files'[d[m]].now.version, files'[d[m]].synced.version} =>
                    NoMigrationBackup \/ d["bak"] # NoFile
    <3>1. m \in Logs /\ d[m] = Dir[m] /\ files'[d[m]] = files[Dir[m]] /\ d["bak"] = Dir["bak"]
      BY <1>5, <2>1, Zenon DEF Logs, Spares
    <3>2. QED
      BY <1>1, <2>1, <3>1, Zenon DEF KeptIn
  <2>2. /\ files'[d["compact"]].now \in Good /\ files'[d["compact"]].synced \in Good
        /\ logVersion \notin {files'[d["compact"]].now.version, files'[d["compact"]].synced.version}
    BY <1>3, <1>5, Zenon
  <2>3. d["bak"] # NoFile => files'[d["bak"]].now = Original /\ files'[d["bak"]].synced = Original
    BY <1>1, <1>5, Zenon DEF KeptIn
  <2>4. ~accepted => d["ready"] = NoFile /\ d["backup"] = NoFile
    BY <1>1, <1>5, Zenon DEF KeptIn
  <2>5. d["main"] = NoFile
    BY <1>2, Zenon
  <2>6. QED
    BY <2>1, <2>2, <2>3, <2>4, <2>5, Zenon DEF KeptIn, Logs, Spares
<1>7. Held(pc', Len(todo'), d, files', Original', Current', accepted')
  BY <1>4, Zenon DEF Held
<1>8. QED
  BY <1>2, <1>4, <1>6, <1>7, KeepsAnyway, Zenon

(* The backup is put back where no compaction left anything. *)
LEMMA RollBackKeeps ==
  ASSUME TypeOK, Standing, Kept, ~RollBackAnyTime, RollBack
  PROVE  Kept'
<1>1. KeptIn(Dir, files, Good, Original, accepted) /\ Dir \in Dirs
  BY KeptNow, DirIs, Zenon
<1>2. /\ Dir["bak"] # NoFile /\ \A n \in Artifacts : Dir[n] = NoFile
      /\ UNCHANGED <<files, old>> /\ pc' = "down" /\ accepted' = FALSE
      /\ written' = Now("bak").data /\ lastOld' = written'
      /\ dirs' = <<[Dir EXCEPT !["main"] = Dir["bak"], !["bak"] = NoFile]>>
  BY Zenon DEF RollBack
<1>3. files[Dir["bak"]].now = Original /\ files[Dir["bak"]].synced = Original
  BY <1>1, <1>2, Zenon DEF KeptIn
<1>4. Original' = Original /\ Original \in Good' /\ Original.version # logVersion
  <2>1. lastOld' = lastOld /\ written' = lastOld
    BY <1>2, <1>3, SMTT(30) DEF Now, Original, Log
  <2>2. old # logVersion
    BY VersionAssumption DEF TypeOK, logVersion
  <2>3. Original' = Original
    BY <1>2, <2>1, Zenon DEF Original
  <2>4. Original \in Good'
    BY <2>1, <2>3, Zenon DEF Good
  <2>5. QED
    BY <2>2, <2>3, <2>4, Zenon DEF Original, Log
<1> DEFINE d == [Dir EXCEPT !["main"] = Dir["bak"], !["bak"] = NoFile]
<1>5. /\ d["main"] = Dir["bak"] /\ d["bak"] = NoFile
      /\ \A m \in Spares : d[m] = NoFile
  BY <1>1, <1>2, Zenon DEF Dirs, Names, Artifacts, Spares
<1>6. dirs' = <<d>>
  BY <1>2, Zenon
<1> HIDE DEF d
<1>7. KeptIn(d, files', Good', Original', accepted')
  BY <1>2, <1>3, <1>4, <1>5, Zenon DEF KeptIn, Logs, Spares
<1>8. Held(pc', Len(todo'), d, files', Original', Current', accepted')
  BY <1>2, Zenon DEF Held
<1>9. QED
  BY <1>6, <1>7, <1>8, KeepsAnyway, Zenon

(* Good contents have no part that might be missing. *)
LEMMA LeftoversIs ==
  ASSUME TypeOK, NEW f, NEW c \in Leftovers(f),
         {f.now, f.synced} \subseteq Good \/ {f.now, f.synced} \subseteq {Original}
  PROVE  c \in {f.now, f.synced}
<1>1. CASE {f.now, f.synced} \subseteq Good
  <2>1. f.now.data = written /\ f.synced.data = written
    <3>1. f.now \in Good /\ f.synced \in Good
      BY <1>1, Zenon
    <3>2. QED
      BY <3>1, GoodIs, Zenon
  <2>2. QED
    BY <2>1, Zenon DEF Leftovers
<1>2. CASE {f.now, f.synced} \subseteq {Original}
  BY <1>2, Zenon DEF Leftovers
<1>3. QED
  BY <1>1, <1>2, Zenon

(* A power failure leaves good files. *)
LEMMA PowerFailureKeeps ==
  ASSUME TypeOK, Standing, Kept, PowerFailure
  PROVE  Kept'
<1>1. PICK j \in DOMAIN dirs :
        /\ dirs' = <<dirs[j]>>
        /\ \A n \in Names : dirs[j][n] # NoFile =>
             \E c \in Leftovers(files[dirs[j][n]]) : files'[dirs[j][n]] = [now |-> c, synced |-> c]
  BY PowerFailureIs, Zenon
<1>2. PICK d : d = dirs[j]
  OBVIOUS
<1>3. KeptIn(d, files, Good, Original, accepted)
  BY <1>2, Zenon DEF Kept
<1>4. \A n \in Logs \cup {"bak"} : d[n] # NoFile =>
        \E c \in {files[d[n]].now, files[d[n]].synced} :
          files'[d[n]].now = c /\ files'[d[n]].synced = c
  <2> SUFFICES ASSUME NEW n \in Logs \cup {"bak"}, d[n] # NoFile
               PROVE  \E c \in {files[d[n]].now, files[d[n]].synced} :
                        files'[d[n]].now = c /\ files'[d[n]].synced = c
    OBVIOUS
  <2>1. n \in Names
    BY Zenon DEF Logs, Spares, Names, Artifacts
  <2>2. PICK c \in Leftovers(files[d[n]]) : files'[d[n]] = [now |-> c, synced |-> c]
    BY <1>1, <1>2, <2>1, Zenon
  <2>3. \/ files[d[n]].now \in Good /\ files[d[n]].synced \in Good
        \/ files[d[n]].now = Original /\ files[d[n]].synced = Original
    BY <1>3, Zenon DEF KeptIn
  <2>4. c \in {files[d[n]].now, files[d[n]].synced}
    BY <2>3, LeftoversIs, Zenon
  <2>5. QED
    BY <2>2, <2>4
<1>5. KeptIn(d, files', Good, Original, accepted)
  BY <1>3, <1>4 DEF KeptIn
<1>6. pc' = "down" /\ Good' = Good /\ Original' = Original /\ accepted' = accepted
  BY Zenon DEF PowerFailure, history, Good, Original, Current
<1>7. Held(pc', Len(todo'), d, files', Original', Current', accepted')
  BY <1>6, Zenon DEF Held
<1>8. QED
  BY <1>1, <1>2, <1>5, <1>6, <1>7, KeepsAnyway, Zenon

-----------------------------------------------------------------------------
(* The theorems.                                                           *)

(* A file under the backup's name keeps its contents while this build      *)
(* runs ("An existing backup is never replaced", copyLogFile), whatever    *)
(* fails and whoever else uses the log.                                    *)
THEOREM BackupCorrect == Spec => BackupNeverReplaced
<1>1. ASSUME TypeOK, Standing, [Next]_vars, Dir["bak"] # NoFile, pc # "down", pc' # "down"
      PROVE  /\ Dir'["bak"] = Dir["bak"]
             /\ files'[Dir["bak"]].now = files[Dir["bak"]].now
  <2>1. BackupKept
    <3>1. CASE UNCHANGED vars
      BY <3>1, Zenon DEF vars, disk, Dir, BackupKept
    <3>2. CASE Next
      <4>1. Step \/ PlanEnds \/ OpenLog \/ OnMigrate \/ Write
        BY <1>1, <3>2, Zenon DEF Next, Open, Close, OldWrite, OldCompact, RollBack, Crash, PowerFailure
      <4>2. QED
        BY <1>1, <4>1, StepKeeps, OpenKeeps, OnMigrateKeeps, WriteKeeps, Zenon
    <3>3. QED
      BY <1>1, <3>1, <3>2, Zenon
  <2>2. QED
    BY <1>1, <2>1, Zenon DEF BackupKept
<1>2. QED
  BY <1>1, StandingHolds, PTL DEF Spec, BackupNeverReplaced

(* Kept is inductive when the directory is written before what the files   *)
(* hold, the older build stops writing once there is a backup, and the     *)
(* backup is put back after a migration that was not interrupted.          *)
LEMMA KeptHolds ==
  ASSUME DirectoryFirst, ~OldRunsAgain, ~RollBackAnyTime
  PROVE  Spec => [](TypeOK /\ Standing /\ Kept)
<1>1. Init => Kept
  <2> SUFFICES ASSUME Init PROVE Kept
    OBVIOUS
  <2>1. PICK i \in Inodes :
          /\ dirs  = <<[n \in Names |-> IF n = "main" THEN i ELSE NoFile]>>
          /\ files = [j \in Inodes |-> LET c == IF j = i THEN Log(old, 1, TRUE) ELSE Nothing
                                        IN  [now |-> c, synced |-> c]]
    BY Zenon DEF Init
  <2> DEFINE d == [n \in Names |-> IF n = "main" THEN i ELSE NoFile]
  <2>2. d["main"] = i /\ d["bak"] = NoFile /\ \A m \in Spares : d[m] = NoFile
    BY Zenon DEF Names, Spares, Artifacts
  <2>3. \A j \in DOMAIN dirs : dirs[j] = d
    BY <2>1
  <2> HIDE DEF d
  <2>4. files[i].now = Original /\ files[i].synced = Original
    BY <2>1, Zenon DEF Init, Original
  <2>5. Original \in Good
    BY Zenon DEF Init, Good
  <2>6. Original.version # logVersion
    BY VersionAssumption DEF Init, Original, Log, logVersion
  <2>7. KeptIn(d, files, Good, Original, accepted)
    BY <2>2, <2>4, <2>5, <2>6, Zenon DEF KeptIn, Logs, Spares
  <2>8. Held(pc, Len(todo), Dir, files, Original, Current, accepted)
    BY Zenon DEF Init, Held
  <2>9. QED
    BY <2>3, <2>7, <2>8, Zenon DEF Kept
<1>2. TypeOK /\ Standing /\ Kept /\ [Next]_vars => Kept'
  <2> SUFFICES ASSUME TypeOK, Standing, Kept, [Next]_vars PROVE Kept'
    OBVIOUS
  <2>1. CASE Next
    BY <2>1, StepKeeps, OpenKeeps, OnMigrateKeeps, WriteKeeps, OldWriteKeeps,
       OldCompactKeeps, RollBackKeeps, PowerFailureKeeps DEF Next
  <2>2. CASE UNCHANGED vars
    BY <2>2, Zenon DEF vars, disk, history, Kept, Dir, Good, Original, Current
  <2>3. QED
    BY <2>1, <2>2, Zenon
<1>3. QED
  BY <1>1, <1>2, StandingHolds, PTL DEF Spec

(* What a start finds, after a power failure now: a good log, and under    *)
(* one in the new format the original as its backup.                       *)
LEMMA StartFinds ==
  ASSUME TypeOK, Standing, Kept, NEW j \in DOMAIN dirs, NEW log, NEW bak,
         log = dirs[j][Survivor(dirs[j])], bak = dirs[j]["bak"],
         NEW c \in IF log = NoFile THEN {Nothing} ELSE Leftovers(files[log]),
         NEW b \in IF bak = NoFile THEN {Nothing} ELSE Leftovers(files[bak])
  PROVE  c \in Good /\ (c.version = logVersion => NoMigrationBackup \/ b = Original)
<1>1. PICK d : d = dirs[j]
  OBVIOUS
<1>2. HasLog(d) /\ KeptIn(d, files, Good, Original, accepted)
  BY <1>1, Zenon DEF Standing, Kept
<1>3. PICK n \in Logs : n = Survivor(d)
  BY Zenon DEF Survivor, Logs, Spares
<1>4. d[n] # NoFile
  BY <1>2, <1>3, Zenon DEF HasLog, Survivor, Logs, Spares
<1>5. {files[log].now, files[log].synced} \subseteq Good /\ log # NoFile
  BY <1>1, <1>2, <1>3, <1>4, Zenon DEF KeptIn
<1>6. c \in {files[log].now, files[log].synced}
  BY <1>5, LeftoversIs, Zenon
<1>7. ASSUME c.version = logVersion, ~NoMigrationBackup PROVE b = Original
  <2>1. bak # NoFile
    BY <1>1, <1>2, <1>3, <1>4, <1>6, <1>7, Zenon DEF KeptIn
  <2>2. {files[bak].now, files[bak].synced} \subseteq {Original}
    BY <1>1, <1>2, <2>1, Zenon DEF KeptIn
  <2>3. QED
    BY <2>1, <2>2, LeftoversIs, Zenon
<1>8. QED
  BY <1>5, <1>6, <1>7, Zenon

(* Whatever call of recovery, of the copy, of either migration or of their *)
(* error paths fails, and wherever the process or the machine dies, the    *)
(* next start finds every write.                                           *)
THEOREM ContentsCorrect ==
  ASSUME DirectoryFirst, ~OldRunsAgain, ~RollBackAnyTime
  PROVE  Spec => []ContentsKept
<1>1. TypeOK /\ Standing /\ Kept => ContentsKept
  BY StartFinds, GoodIs, Zenon DEF ContentsKept, AlwaysFound
<1>2. QED
  BY <1>1, KeptHolds, PTL

(* A start that finds a log that was migrated finds the log it was made    *)
(* of, whole, unless the caller wanted no backup.                          *)
THEOREM WayBackCorrect ==
  ASSUME DirectoryFirst, ~OldRunsAgain, ~RollBackAnyTime
  PROVE  Spec => []WayBack
<1>1. TypeOK /\ Standing /\ Kept => WayBack
  <2> SUFFICES ASSUME TypeOK, Standing, Kept, ~NoMigrationBackup PROVE WayBack
    BY Zenon DEF WayBack
  <2>1. AlwaysFound(LAMBDA log, bak : log.version = logVersion => bak = Original)
    BY StartFinds DEF AlwaysFound
  <2>2. QED
    BY <2>1, Zenon DEF WayBack, AlwaysFound, Original
<1>2. QED
  BY <1>1, KeptHolds, PTL

(* No start finds a migrated log that OnMigrate has not accepted. *)
THEOREM AcceptanceCorrect ==
  ASSUME DirectoryFirst, ~OldRunsAgain, ~RollBackAnyTime
  PROVE  Spec => []OnlyIfAccepted
<1>1. TypeOK /\ Standing /\ Kept => OnlyIfAccepted
  BY StartFinds, GoodIs, Zenon DEF OnlyIfAccepted, AlwaysFound
<1>2. QED
  BY <1>1, KeptHolds, PTL

(* No start finds this build's writes under an older header. *)
THEOREM HeaderCorrect ==
  ASSUME DirectoryFirst, ~OldRunsAgain, ~RollBackAnyTime
  PROVE  Spec => []NewRecordsNewHeader
<1>1. TypeOK /\ Standing /\ Kept => NewRecordsNewHeader
  BY StartFinds, GoodIs, Zenon DEF NewRecordsNewHeader, AlwaysFound
<1>2. QED
  BY <1>1, KeptHolds, PTL
=============================================================================
