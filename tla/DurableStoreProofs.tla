------------------------- MODULE DurableStoreProofs -------------------------
(***************************************************************************)
(* What Replay and ReplayIndex do when a log is read one record further,   *)
(* extended or cut, and what the steps of DurableStore do to the directory *)
(* and the files; that they keep every variable in its type, for every set *)
(* of keys, values and files and every number of mutations and failing     *)
(* calls; and that a log with an unknown read-only bit keeps its bytes.    *)
(***************************************************************************)
EXTENDS DurableStore, TLAPS

-----------------------------------------------------------------------------
(* What a log says.                                                        *)

(* The(S) is the element of S when S has one, as LastOf does for a key that *)
(* the log speaks of.                                                      *)
LEMMA TheElement ==
  /\ \A S : S # {} => The(S) \in S
  /\ \A x : The({x}) = x
  BY DEF The

(* The parts of a record that is read from a log. *)
LEMMA RecordAt ==
  ASSUME NEW recs \in Seq(Record), NEW i \in 1..Len(recs)
  PROVE  recs[i] \in Record /\ recs[i].key \in Keys /\ recs[i].val \in Values \cup {Absent}
<1>1. recs[i] \in Record
  OBVIOUS
<1> QED
  BY <1>1 DEF Record

(* The last record about k among the first n + 1: the new one when it is   *)
(* about k, and otherwise the last one before it.                          *)
LEMMA LastStep ==
  ASSUME NEW recs \in Seq(Record), NEW n \in Nat, n < Len(recs), NEW k \in Keys
  PROVE  LastOf(recs, n + 1, k) =
           IF recs[n + 1].key = k THEN {n + 1} ELSE LastOf(recs, n, k)
<1>1. CASE recs[n + 1].key = k
  <2>1. n + 1 \in LastOf(recs, n + 1, k)
    BY <1>1 DEF LastOf
  <2>2. \A i \in LastOf(recs, n + 1, k) : i = n + 1
    BY <1>1 DEF LastOf
  <2> QED
    BY <1>1, <2>1, <2>2
<1>2. CASE recs[n + 1].key # k
  BY <1>2 DEF LastOf
<1> QED
  BY <1>1, <1>2

(* One record more changes what the log says about that record's key and   *)
(* about no other: the step of the recovery scan of Store.recover.         *)
LEMMA ReplayStep ==
  ASSUME NEW recs \in Seq(Record), NEW n \in Nat, n < Len(recs)
  PROVE  LET r == recs[n + 1]
         IN  /\ Replay(recs, n + 1) = [Replay(recs, n) EXCEPT ![r.key] = r.val]
             /\ ReplayIndex(recs, n + 1) =
                  [ReplayIndex(recs, n) EXCEPT ![r.key] = IF r.val = Absent THEN 0 ELSE n + 1]
<1> DEFINE r == recs[n + 1]
<1>1. r \in Record
  OBVIOUS
<1>2. \A k \in Keys : Replay(recs, n + 1)[k] = IF k = r.key THEN r.val ELSE Replay(recs, n)[k]
  BY LastStep, TheElement, ZenonT(60) DEF Replay
<1>3. Replay(recs, n + 1) = [Replay(recs, n) EXCEPT ![r.key] = r.val]
  BY <1>1, <1>2 DEF Replay, Record
<1>4. \A k \in Keys : ReplayIndex(recs, n + 1)[k] =
        IF k = r.key THEN (IF r.val = Absent THEN 0 ELSE n + 1) ELSE ReplayIndex(recs, n)[k]
  BY <1>2, LastStep, TheElement DEF ReplayIndex
<1>5. ReplayIndex(recs, n + 1) =
        [ReplayIndex(recs, n) EXCEPT ![r.key] = IF r.val = Absent THEN 0 ELSE n + 1]
  BY <1>1, <1>4 DEF ReplayIndex, Record
<1> QED
  BY <1>3, <1>5

(* Two logs that agree on their first n records say the same there. *)
LEMMA ReplayAgree ==
  ASSUME NEW recs \in Seq(Record), NEW other \in Seq(Record), NEW n \in Nat,
         \A i \in 1..n : recs[i] = other[i]
  PROVE  /\ Replay(recs, n) = Replay(other, n)
         /\ ReplayIndex(recs, n) = ReplayIndex(other, n)
<1>1. ASSUME NEW k \in Keys PROVE LastOf(recs, n, k) = LastOf(other, n, k)
  BY DEF LastOf
<1>2. ASSUME NEW k \in Keys, LastOf(recs, n, k) # {}
      PROVE  The(LastOf(recs, n, k)) \in 1..n
  BY <1>2, TheElement DEF LastOf
<1>3. ASSUME NEW k \in Keys PROVE Replay(recs, n)[k] = Replay(other, n)[k]
  BY <1>1, <1>2 DEF Replay
<1>4. Replay(recs, n) = Replay(other, n)
  BY <1>3 DEF Replay
<1>5. ASSUME NEW k \in Keys PROVE ReplayIndex(recs, n)[k] = ReplayIndex(other, n)[k]
  BY <1>1, <1>4 DEF ReplayIndex
<1>6. ReplayIndex(recs, n) = ReplayIndex(other, n)
  BY <1>5 DEF ReplayIndex
<1> QED
  BY <1>4, <1>6

(* Appending a record to a log. *)
LEMMA ReplayAppend ==
  ASSUME NEW recs \in Seq(Record), NEW r \in Record
  PROVE  /\ \A n \in 0..Len(recs) : Replay(Append(recs, r), n) = Replay(recs, n)
         /\ Replay(Append(recs, r), Len(recs) + 1) =
              [Replay(recs, Len(recs)) EXCEPT ![r.key] = r.val]
         /\ ReplayIndex(Append(recs, r), Len(recs) + 1) =
              [ReplayIndex(recs, Len(recs)) EXCEPT
                 ![r.key] = IF r.val = Absent THEN 0 ELSE Len(recs) + 1]
<1> DEFINE longer == Append(recs, r)
           m == Len(recs)
<1>1. /\ longer \in Seq(Record) /\ m \in Nat /\ m < Len(longer)
      /\ longer[m + 1] = r
      /\ \A i \in 1..m : longer[i] = recs[i]
  OBVIOUS
<1> HIDE DEF longer, m
<1>2. ASSUME NEW n \in 0..m
      PROVE  /\ Replay(longer, n) = Replay(recs, n)
             /\ ReplayIndex(longer, n) = ReplayIndex(recs, n)
  <2>1. n \in Nat /\ \A i \in 1..n : longer[i] = recs[i]
    BY <1>1
  <2> QED
    BY <1>1, <2>1, ReplayAgree
<1>3. m \in 0..m
  BY <1>1
<1>4. /\ Replay(longer, m + 1) = [Replay(longer, m) EXCEPT ![r.key] = r.val]
      /\ ReplayIndex(longer, m + 1) =
           [ReplayIndex(longer, m) EXCEPT ![r.key] = IF r.val = Absent THEN 0 ELSE m + 1]
  BY <1>1, ReplayStep
<1> QED
  BY <1>2, <1>3, <1>4 DEF longer, m

(* Cutting a log leaves what it said up to there. *)
LEMMA ReplayCut ==
  ASSUME NEW recs \in Seq(Record), NEW c \in 0..Len(recs), NEW n \in 0..c
  PROVE  /\ SubSeq(recs, 1, c) \in Seq(Record) /\ Len(SubSeq(recs, 1, c)) = c
         /\ Replay(SubSeq(recs, 1, c), n) = Replay(recs, n)
<1> DEFINE short == SubSeq(recs, 1, c)
<1>1. short \in Seq(Record) /\ Len(short) = c
  OBVIOUS
<1>2. n \in Nat /\ \A i \in 1..n : short[i] = recs[i]
  OBVIOUS
<1> HIDE DEF short
<1>3. Replay(short, n) = Replay(recs, n)
  BY <1>1, <1>2, ReplayAgree
<1> QED
  BY <1>1, <1>3 DEF short

(* A log of no records says nothing. *)
LEMMA ReplayEmpty ==
  ASSUME NEW recs \in Seq(Record)
  PROVE  Replay(recs, 0) = NoContents /\ ReplayIndex(recs, 0) = NoIndex
<1>1. \A k : LastOf(recs, 0, k) = {}
  BY DEF LastOf
<1> QED
  BY <1>1 DEF Replay, ReplayIndex, NoContents, NoIndex

(* Contents and index have their types, and an entry of the index points   *)
(* to a record of its key that has the key's value.                        *)
LEMMA ReplayType ==
  ASSUME NEW recs \in Seq(Record), NEW n \in 0..Len(recs)
  PROVE  /\ Replay(recs, n) \in Contents
         /\ ReplayIndex(recs, n) \in [Keys -> 0..n]
         /\ \A k \in Keys : LET i == ReplayIndex(recs, n)[k]
                            IN  /\ i = 0 <=> Replay(recs, n)[k] = Absent
                                /\ i # 0 => recs[i].key = k /\ recs[i].val = Replay(recs, n)[k]
<1>1. ASSUME NEW k \in Keys, LastOf(recs, n, k) # {}, NEW i, i = The(LastOf(recs, n, k))
      PROVE  i \in 1..n /\ recs[i] \in Record /\ recs[i].key = k
  <2>1. i \in LastOf(recs, n, k)
    BY <1>1, TheElement
  <2> QED
    BY <2>1 DEF LastOf
<1>2. Replay(recs, n) \in Contents
  BY <1>1 DEF Replay, Contents, Record
<1>3. \A k \in Keys : Replay(recs, n)[k] # Absent => LastOf(recs, n, k) # {}
  BY DEF Replay
<1>4. ReplayIndex(recs, n) \in [Keys -> 0..n]
  BY <1>1, <1>3 DEF ReplayIndex
<1>5. \A k \in Keys : ReplayIndex(recs, n)[k] # 0 =>
        recs[ReplayIndex(recs, n)[k]].key = k /\ recs[ReplayIndex(recs, n)[k]].val = Replay(recs, n)[k]
  BY <1>1, <1>3 DEF ReplayIndex, Replay
<1>6. ASSUME NEW k \in Keys
      PROVE  ReplayIndex(recs, n)[k] = 0 <=> Replay(recs, n)[k] = Absent
  <2>1. Replay(recs, n)[k] # Absent => The(LastOf(recs, n, k)) \in 1..n
    BY <1>1, <1>3
  <2>2. \A i \in 1..n : i # 0
    OBVIOUS
  <2> QED
    BY <2>1, <2>2 DEF ReplayIndex
<1> QED
  BY <1>2, <1>4, <1>5, <1>6

-----------------------------------------------------------------------------
(* The file system's steps.                                                *)

(* The type of the directory's history. *)
DirsOK == dirs \in Seq(Directory) /\ dirs # <<>>

(* The type of the files. *)
FilesOK == /\ files \in [Inodes -> File]
           /\ \A i \in Inodes : files[i].synced <= Len(files[i].recs)

(* A handler with nothing left to do has a list of operations. *)
LEMMA NoOps == <<>> \in Seq(Ops)
  OBVIOUS

(* The directory a process sees is a directory. *)
LEMMA DirType == DirsOK => Dir \in Directory
  BY DEF DirsOK, Dir

(* Setting the directory makes it the current one, and adds it to those a  *)
(* power failure may leave.                                                *)
LEMMA SetDirStep ==
  ASSUME DirsOK, NEW d \in Directory, SetDir(d)
  PROVE  /\ DirsOK' /\ Dir' = d
         /\ \A j \in DOMAIN dirs' : dirs'[j] = d \/ \E i \in DOMAIN dirs : dirs'[j] = dirs[i]
<1>1. CASE d = Dir
  BY <1>1 DEF DirsOK, SetDir, Dir
<1>2. CASE d # Dir
  BY <1>2 DEF DirsOK, SetDir, Dir
<1> QED
  BY <1>1, <1>2

(* syncParentDirectory leaves a history of one directory. *)
LEMMA SyncDirectoryStep ==
  ASSUME DirsOK, dirs' = <<Dir>>
  PROVE  /\ DirsOK' /\ Dir' = Dir
         /\ \A j \in DOMAIN dirs' : dirs'[j] = Dir
  BY DirType DEF DirsOK, Dir

(* os.Rename extends the history by a directory. *)
LEMMA RenameStep ==
  ASSUME DirsOK, NEW m \in Names, NEW n \in Names, Rename(m, n)
  PROVE  /\ DirsOK' /\ Dir' = [Dir EXCEPT ![n] = Dir[m], ![m] = NoFile]
         /\ \A j \in DOMAIN dirs' : dirs'[j] = Dir' \/ \E i \in DOMAIN dirs : dirs'[j] = dirs[i]
<1>1. [Dir EXCEPT ![n] = Dir[m], ![m] = NoFile] \in Directory
  BY DirType DEF Directory
<1> QED
  BY <1>1, SetDirStep DEF Rename

(* os.Remove extends the history by a directory. *)
LEMMA RemoveStep ==
  ASSUME DirsOK, NEW n \in Names, Remove(n)
  PROVE  /\ DirsOK' /\ Dir' = [Dir EXCEPT ![n] = NoFile]
         /\ \A j \in DOMAIN dirs' : dirs'[j] = Dir' \/ \E i \in DOMAIN dirs : dirs'[j] = dirs[i]
<1>1. [Dir EXCEPT ![n] = NoFile] \in Directory
  BY DirType DEF Directory
<1> QED
  BY <1>1, SetDirStep DEF Remove

(* A new file is empty, has its name, and is none of those a name led to. *)
LEMMA CreateStep ==
  ASSUME DirsOK, FilesOK, NEW n \in Names, NEW i, Create(i, n)
  PROVE  /\ DirsOK' /\ FilesOK' /\ Dir' = [Dir EXCEPT ![n] = i]
         /\ \A j \in DOMAIN dirs' : dirs'[j] = Dir' \/ \E h \in DOMAIN dirs : dirs'[j] = dirs[h]
         /\ i \in Inodes /\ i # log /\ files' = [files EXCEPT ![i] = EmptyFile]
         /\ \A j \in DOMAIN dirs : \A m \in Names : dirs[j][m] # i
<1>1. i \in Inodes /\ i # log /\ \A j \in DOMAIN dirs : \A m \in Names : dirs[j][m] # i
  BY DEF Create, Free
<1>2. [Dir EXCEPT ![n] = i] \in Directory
  BY <1>1, DirType DEF Directory
<1>3. EmptyFile \in File /\ EmptyFile.synced <= Len(EmptyFile.recs)
  BY DEF EmptyFile, File
<1>4. FilesOK'
  BY <1>1, <1>3 DEF FilesOK, Create
<1> QED
  BY <1>1, <1>2, <1>4, SetDirStep DEF Create

(* Appending a record to a file changes that file alone. *)
LEMMA AppendStep ==
  ASSUME FilesOK, NEW i \in Inodes, NEW r \in Record, files' = AppendTo(i, r)
  PROVE  /\ FilesOK'
         /\ files'[i].recs = Append(files[i].recs, r)
         /\ files'[i].synced = files[i].synced
         /\ Len(files'[i].recs) = Len(files[i].recs) + 1
         /\ \A j \in Inodes : j # i => files'[j] = files[j]
<1>1. files[i] \in File /\ files[i].recs \in Seq(Record)
  BY DEF FilesOK, File
<1>2. files'[i] = [files[i] EXCEPT !.recs = Append(@, r)]
  BY DEF AppendTo, FilesOK
<1>3. /\ files'[i] \in File
      /\ files'[i].recs = Append(files[i].recs, r)
      /\ files'[i].synced = files[i].synced
      /\ Len(files'[i].recs) = Len(files[i].recs) + 1
  <2>1. Append(files[i].recs, r) \in Seq(Record) /\ Len(Append(files[i].recs, r)) = Len(files[i].recs) + 1
    BY <1>1
  <2>2. files'[i] \in File
    BY <1>1, <1>2, <2>1 DEF File
  <2>3. files'[i].recs = Append(files[i].recs, r)
    BY <1>1, <1>2 DEF File
  <2>4. files'[i].synced = files[i].synced
    BY <1>1, <1>2 DEF File
  <2> QED
    BY <2>1, <2>2, <2>3, <2>4
<1>4. \A j \in Inodes : j # i => files'[j] = files[j]
  BY DEF AppendTo, FilesOK
<1>5. files[i].synced <= Len(files[i].recs) + 1
  BY <1>1 DEF FilesOK, File
<1>6. FilesOK'
  BY <1>3, <1>4, <1>5 DEF FilesOK, AppendTo
<1> QED
  BY <1>3, <1>4, <1>6

(* An fsync changes no record; the directory stays, or is committed. *)
LEMMA FsyncStep ==
  ASSUME DirsOK, FilesOK, NEW i \in Inodes, Fsync(i)
  PROVE  /\ DirsOK' /\ FilesOK' /\ Dir' = Dir
         /\ \A j \in Inodes : files'[j].recs = files[j].recs
         /\ \A j \in Inodes : j # i => files'[j] = files[j]
         /\ files'[i].synced = Len(files'[i].recs)
         /\ \A j \in DOMAIN dirs' : dirs'[j] = Dir \/ dirs' = dirs
         /\ FsyncCommitsDirectory => dirs' = <<Dir>>
<1>1. files[i] \in File /\ files[i].recs \in Seq(Record)
  BY DEF FilesOK, File
<1>2. files'[i] = [files[i] EXCEPT !.synced = Len(files[i].recs)]
  BY DEF Fsync, FilesOK
<1>3. files'[i] \in File /\ files'[i].recs = files[i].recs /\ files'[i].synced = Len(files'[i].recs)
  BY <1>1, <1>2 DEF File
<1>4. \A j \in Inodes : j # i => files'[j] = files[j]
  BY DEF Fsync, FilesOK
<1>5. FilesOK'
  BY <1>1, <1>3, <1>4 DEF FilesOK, Fsync, File
<1>6. /\ DirsOK' /\ Dir' = Dir
      /\ \A j \in DOMAIN dirs' : dirs'[j] = Dir \/ dirs' = dirs
      /\ FsyncCommitsDirectory => dirs' = <<Dir>>
  <2>1. CASE dirs' = <<Dir>>
    BY <2>1, SyncDirectoryStep DEF Fsync
  <2>2. CASE ~FsyncCommitsDirectory /\ dirs' = dirs
    BY <2>2 DEF Dir, DirsOK
  <2> QED
    BY <2>1, <2>2 DEF Fsync
<1> QED
  BY <1>3, <1>4, <1>5, <1>6

(* Removals that leave the main name alone. *)
Harmless == {<<"remove", n>> : n \in {"temp", "ready", "backup"}} \cup {<<"sync">>}

(* The plans of recovery and of the start of a compaction. *)
LEMMA PlanType ==
  ASSUME NEW d \in Directory
  PROVE  /\ RecoveryPlan(d) \in Seq(Ops)
         /\ Removal(d, "temp") \o Removal(d, "ready") \o Removal(d, "backup") \in Seq(Harmless)
         /\ d["main"] # NoFile => RecoveryPlan(d) \in Seq(Harmless)
         /\ Target(d) = NoFile => RecoveryPlan(d) \in Seq(Harmless)
         /\ d["main"] = NoFile /\ Target(d) # NoFile =>
              /\ RecoveryPlan(d) # <<>> /\ Tail(RecoveryPlan(d)) \in Seq(Harmless)
              /\ \E n \in {"ready", "backup"} :
                   d[n] # NoFile /\ d[n] = Target(d) /\ Head(RecoveryPlan(d)) = <<"rename", n, "main">>
<1>1. Harmless \subseteq Ops
  BY DEF Harmless, Ops, Names
<1>2. \A n \in {"temp", "ready", "backup"} : Removal(d, n) \in Seq(Harmless)
  BY DEF Removal, Harmless
<1>3. FinalSync(d) \in Seq(Harmless)
  <2>1. <<"sync">> \in Harmless
    BY DEF Harmless
  <2>2. <<<<"sync">>>> \in Seq(Harmless) /\ <<>> \in Seq(Harmless)
    BY <2>1
  <2> QED
    BY <2>2 DEF FinalSync
<1>4. Removal(d, "temp") \o Removal(d, "ready") \o Removal(d, "backup") \in Seq(Harmless)
  BY <1>2
<1>5. Removal(d, "temp") \o FinalSync(d) \in Seq(Harmless)
  BY <1>2, <1>3
<1>6. CASE d["main"] # NoFile
  <2>1. RecoveryPlan(d) \in Seq(Harmless)
    BY <1>2, <1>3, <1>6 DEF RecoveryPlan
  <2> QED
    BY <1>1, <1>4, <1>6, <2>1 DEF Target
<1>7. CASE d["main"] = NoFile /\ d["ready"] # NoFile
  <2> DEFINE rest == Removal(d, "backup") \o Removal(d, "temp") \o FinalSync(d)
  <2>1. rest \in Seq(Harmless)
    BY <1>2, <1>3
  <2>2. RecoveryPlan(d) = <<<<"rename", "ready", "main">>>> \o rest
    BY <1>2, <1>3, <1>7, SMTT(60) DEF RecoveryPlan
  <2>3. <<"rename", "ready", "main">> \in Ops
    BY DEF Ops, Names
  <2> HIDE DEF rest
  <2>4. /\ RecoveryPlan(d) \in Seq(Ops) /\ RecoveryPlan(d) # <<>>
        /\ Head(RecoveryPlan(d)) = <<"rename", "ready", "main">> /\ Tail(RecoveryPlan(d)) = rest
    BY <1>1, <2>1, <2>2, <2>3
  <2> QED
    BY <1>4, <1>7, <2>1, <2>4 DEF Target
<1>8. CASE d["main"] = NoFile /\ d["ready"] = NoFile /\ d["backup"] # NoFile
  <2> DEFINE rest == Removal(d, "temp") \o FinalSync(d)
  <2>1. rest \in Seq(Harmless)
    BY <1>5
  <2>2. RecoveryPlan(d) = <<<<"rename", "backup", "main">>>> \o rest
    BY <1>2, <1>3, <1>8 DEF RecoveryPlan
  <2>3. <<"rename", "backup", "main">> \in Ops
    BY DEF Ops, Names
  <2> HIDE DEF rest
  <2>4. /\ RecoveryPlan(d) \in Seq(Ops) /\ RecoveryPlan(d) # <<>>
        /\ Head(RecoveryPlan(d)) = <<"rename", "backup", "main">> /\ Tail(RecoveryPlan(d)) = rest
    BY <1>1, <2>1, <2>2, <2>3
  <2> QED
    BY <1>4, <1>8, <2>1, <2>4 DEF Target
<1>9. CASE d["main"] = NoFile /\ d["ready"] = NoFile /\ d["backup"] = NoFile
  <2>1. RecoveryPlan(d) \in Seq(Harmless)
    BY <1>2, <1>3, <1>9 DEF RecoveryPlan
  <2> QED
    BY <1>1, <1>4, <1>9, <2>1 DEF Target
<1> QED
  BY <1>6, <1>7, <1>8, <1>9

(* Performing an operation of a plan. *)
LEMMA PerformStep ==
  ASSUME DirsOK, NEW op \in Ops, Perform(op)
  PROVE  /\ DirsOK'
         /\ \A j \in DOMAIN dirs' : dirs'[j] = Dir' \/ \E i \in DOMAIN dirs : dirs'[j] = dirs[i]
         /\ op \in Harmless => Dir' = Dir \/ \E n \in {"temp", "ready", "backup"} :
                                                Dir' = [Dir EXCEPT ![n] = NoFile]
         /\ \A n \in Names : op = <<"rename", n, "main">> =>
              Dir' = [Dir EXCEPT !["main"] = Dir[n], ![n] = NoFile]
<1>1. CASE \E n \in Names : op = <<"remove", n>>
  <2> PICK n \in Names : op = <<"remove", n>>
    BY <1>1
  <2>1. Remove(n)
    BY DEF Perform
  <2>2. op \in Harmless => n \in {"temp", "ready", "backup"}
    BY DEF Harmless
  <2>3. \A m \in Names : op # <<"rename", m, "main">>
    OBVIOUS
  <2> QED
    BY <2>1, <2>2, <2>3, RemoveStep
<1>2. CASE \E n \in Names : op = <<"rename", n, "main">>
  <2> PICK n \in Names : op = <<"rename", n, "main">>
    BY <1>2
  <2>1. Rename(n, "main") /\ "main" \in Names
    BY DEF Perform, Names
  <2>2. op \notin Harmless
    BY DEF Harmless
  <2>3. \A m \in Names : op = <<"rename", m, "main">> => m = n
    OBVIOUS
  <2> QED
    BY <2>1, <2>2, <2>3, RenameStep
<1>3. CASE op = <<"sync">>
  <2>1. dirs' = <<Dir>>
    BY <1>3 DEF Perform, SyncDirectory
  <2>2. \A m \in Names : op # <<"rename", m, "main">>
    BY <1>3
  <2> QED
    BY <2>1, <2>2, SyncDirectoryStep
<1> QED
  BY <1>1, <1>2, <1>3 DEF Ops

-----------------------------------------------------------------------------
(* Types.                                                                  *)

TInv ==
  /\ TypeOK
  /\ pc \notin {"down", "recover"} => log \in Inodes
  /\ pc = "copy" => newLog \in Inodes

(* The file-system part of the type invariant. *)
LEMMA TypeParts == TypeOK => DirsOK /\ FilesOK
  BY DEF TypeOK, DirsOK, FilesOK

(* A system call that succeeds or fails keeps the count in its bound. *)
LEMMA FaultStep ==
  ASSUME faults \in 0..MaxFaults,
         Succeeds \/ Fails \/ (faults + 1 < MaxFaults /\ faults' = faults + 2)
  PROVE  faults' \in 0..MaxFaults
  BY BoundAssumption DEF Succeeds, Fails

(* Reopening the log gives the file with the main name, a new one if need be. *)
LEMMA OpenMainStep ==
  ASSUME DirsOK, FilesOK, OpenMain
  PROVE  /\ DirsOK' /\ FilesOK' /\ logOpen' = TRUE
         /\ log' \in Inodes /\ log' = Dir'["main"]
         /\ Exists("main") => dirs' = dirs /\ files' = files /\ Dir' = Dir
         /\ ~Exists("main") => Create(log', "main") /\ Dir' = [Dir EXCEPT !["main"] = log']
<1>1. Dir \in Directory /\ "main" \in Names
  BY DirType DEF Names
<1>2. CASE Exists("main") /\ log' = Dir["main"] /\ UNCHANGED disk
  <2>1. Dir' = Dir /\ dirs' = dirs /\ files' = files
    BY <1>2 DEF disk, Dir
  <2> QED
    BY <1>1, <1>2, <2>1 DEF OpenMain, DirsOK, FilesOK, Directory, Exists
<1>3. CASE ~Exists("main") /\ \E i \in Free : Create(i, "main") /\ log' = i
  BY <1>1, <1>3, CreateStep DEF OpenMain, Directory
<1> QED
  BY <1>2, <1>3 DEF OpenMain

(* A failing openAppendLogFile keeps the types of the disk. *)
LEMMA OpenMainFailsStep ==
  ASSUME DirsOK, FilesOK, OpenMainFails
  PROVE  /\ DirsOK' /\ FilesOK'
         /\ \/ dirs' = dirs /\ files' = files /\ Dir' = Dir
            \/ ~Exists("main") /\ \E i \in Inodes : Create(i, "main")
<1>1. CASE UNCHANGED disk
  BY <1>1 DEF disk, Dir, DirsOK, FilesOK
<1>2. CASE ~Exists("main") /\ \E i \in Free : Create(i, "main")
  BY <1>2, CreateStep DEF Names, Free
<1> QED
  BY <1>1, <1>2 DEF OpenMainFails

(* The removal of the file under construction may itself fail. *)
LEMMA DropStep ==
  ASSUME DirsOK, faults \in 0..MaxFaults, NEW n \in Names, FailsAndDrops(n)
  PROVE  /\ DirsOK' /\ faults' \in 0..MaxFaults
         /\ Dir' = Dir \/ Dir' = [Dir EXCEPT ![n] = NoFile]
         /\ \A j \in DOMAIN dirs' : dirs'[j] = Dir' \/ \E i \in DOMAIN dirs : dirs'[j] = dirs[i]
<1>1. CASE Fails /\ Remove(n)
  BY <1>1, RemoveStep, FaultStep
<1>2. CASE faults + 1 < MaxFaults /\ faults' = faults + 2 /\ UNCHANGED dirs
  BY <1>2, FaultStep DEF Dir, DirsOK
<1> QED
  BY <1>1, <1>2 DEF FailsAndDrops

(* A step that changes the directory and moves on keeps the types. *)
LEMMA DirectoryTypes ==
  ASSUME TInv, DirsOK', faults' \in 0..MaxFaults,
         log \in Inodes, pc' \in Places \ {"down", "recover", "copy"},
         todo' \in Seq(Ops),
         UNCHANGED <<files, handle, scan, index, build, history, mutations>>
  PROVE  TInv'
  BY DEF TInv, TypeOK, DirsOK, handle, build, history

(* A disk with no log, or with the log of an earlier process, is typed. *)
LEMMA TypeInit == Init => TInv
<1> SUFFICES ASSUME Init PROVE TInv
  OBVIOUS
<1>1. DirsOK /\ FilesOK /\ kv \in Contents
  <2>1. CASE \E i \in ReadOnlyFiles, recs \in InitialLogs, t \in BOOLEAN :
               /\ dirs  = <<[NoNames EXCEPT !["main"] = i]>>
               /\ files = [[j \in Inodes |-> EmptyFile] EXCEPT
                             ![i] = [recs |-> recs, synced |-> Len(recs), torn |-> t]]
    <3>1. PICK i \in Inodes, recs \in InitialLogs, t \in BOOLEAN :
            /\ dirs  = <<[NoNames EXCEPT !["main"] = i]>>
            /\ files = [[j \in Inodes |-> EmptyFile] EXCEPT
                          ![i] = [recs |-> recs, synced |-> Len(recs), torn |-> t]]
      BY <2>1, ReadOnlyAssumption
    <3>2. recs \in Seq(Record) /\ Len(recs) \in Nat
      <4>1. recs = <<>> \/ \E r \in [key : Keys, val : Values] : recs = <<r>>
        BY DEF InitialLogs
      <4>2. ASSUME NEW r \in [key : Keys, val : Values]
            PROVE  <<r>> \in Seq(Record) /\ Len(<<r>>) \in Nat
        <5>1. r \in Record
          BY DEF Record
        <5> QED
          BY <5>1
      <4>3. <<>> \in Seq(Record) /\ Len(<<>>) \in Nat
        OBVIOUS
      <4> QED
        BY <4>1, <4>2, <4>3
    <3>3. DirsOK
      <4>1. [NoNames EXCEPT !["main"] = i] \in Directory
        BY DEF Directory, NoNames
      <4> QED
        BY <3>1, <4>1 DEF DirsOK
    <3>4. EmptyFile \in File /\ [recs |-> recs, synced |-> Len(recs), torn |-> t] \in File
      BY <3>2 DEF EmptyFile, File
    <3>5. FilesOK
      <4>1. files \in [Inodes -> File]
        BY <3>1, <3>4
      <4>2. files[i].synced <= Len(files[i].recs)
        BY <3>1, <3>2
      <4>3. \A j \in Inodes : j # i => files[j] = EmptyFile
        BY <3>1
      <4> QED
        BY <4>1, <4>2, <4>3 DEF FilesOK, EmptyFile
    <3>6. Target(Dir) = i /\ files[i].recs = recs /\ i # NoFile
      BY <3>1, NoFileAssumption DEF Target, Dir, NoNames, Names
    <3>7. Recovered = Replay(recs, Len(recs))
      BY <3>6 DEF Recovered, ContentsAt, RecordsIn
    <3>8. Replay(recs, Len(recs)) \in Contents
      BY <3>2, ReplayType
    <3> QED
      BY <3>3, <3>5, <3>7, <3>8 DEF Init
  <2>2. CASE dirs = <<NoNames>> /\ files = [j \in Inodes |-> EmptyFile]
    <3>2. DirsOK
      BY <2>2 DEF DirsOK, Directory, NoNames
    <3>3. FilesOK
      BY <2>2 DEF FilesOK, EmptyFile, File
    <3>4. Recovered = NoContents
      BY <2>2 DEF Recovered, ContentsAt, Target, Dir, NoNames, Names
    <3> QED
      BY <3>2, <3>3, <3>4 DEF Init, NoContents, Contents
  <2> QED
    BY <2>1, <2>2 DEF Init, InitDisk
<1>2. NoIndex \in [Keys -> Nat]
  BY DEF NoIndex
<1>3. todo \in Seq(Ops)
  BY DEF Init
<1>5. logOpen \in BOOLEAN /\ since \subseteq Contents
  BY <1>1, Zenon DEF Init
<1>4. mutations \in 0..MaxMutations /\ faults \in 0..MaxFaults
  BY BoundAssumption DEF Init
<1> QED
  BY <1>1, <1>2, <1>3, <1>4, <1>5 DEF TInv, TypeOK, Places, DirsOK, FilesOK, Init

(* Types are kept by the steps of Open. *)
LEMMA TypeOpen ==
  ASSUME TInv, Open \/ RecoverStep \/ OpenLog \/ ScanRecord \/ ScanEnd
  PROVE  TInv'
<1> USE DEF TInv, TypeOK, handle, build, history, disk
<1>1. DirsOK /\ FilesOK /\ Dir \in Directory /\ NoIndex \in [Keys -> Nat]
  BY TypeParts, DirType DEF NoIndex
<1>2. CASE Open
  <2>1. RecoveryPlan(Dir) \in Seq(Ops)
    BY <1>1, PlanType
  <2> QED
    BY <1>2, <2>1 DEF Open, Places
<1>3. CASE RecoverStep
  <2>1. CASE Succeeds /\ Perform(Head(todo)) /\ todo' = Tail(todo) /\ pc' = pc
    <3>1. Head(todo) \in Ops /\ Tail(todo) \in Seq(Ops)
      BY <1>3 DEF RecoverStep
    <3>2. DirsOK'
      BY <1>1, <2>1, <3>1, PerformStep
    <3> QED
      BY <1>3, <2>1, <3>1, <3>2 DEF RecoverStep, DirsOK, Succeeds
  <2>2. CASE Fails /\ UNCHANGED dirs /\ todo' = <<>> /\ pc' = "down"
    <3>1. faults' \in 0..MaxFaults /\ todo' \in Seq(Ops)
      BY <2>2, FaultStep
    <3> QED
      BY <1>3, <2>2, <3>1 DEF RecoverStep, Places
  <2> QED
    BY <1>3, <2>1, <2>2 DEF RecoverStep
<1>4. CASE OpenLog
  <2>1. CASE Succeeds /\ OpenMain /\ pc' = "scan"
    <3>1. DirsOK' /\ FilesOK' /\ logOpen' \in BOOLEAN /\ log' \in Inodes
      BY <1>1, <2>1, OpenMainStep
    <3> QED
      BY <1>1, <1>4, <2>1, <3>1 DEF OpenLog, Succeeds, Places, DirsOK, FilesOK
  <2>2. CASE Fails /\ OpenMainFails /\ pc' = "down" /\ UNCHANGED handle
    <3>1. DirsOK' /\ FilesOK' /\ faults' \in 0..MaxFaults
      BY <1>1, <2>2, OpenMainFailsStep, FaultStep
    <3> QED
      BY <1>1, <1>4, <2>2, <3>1 DEF OpenLog, Places, DirsOK, FilesOK
  <2> QED
    BY <1>4, <2>1, <2>2 DEF OpenLog
<1>5. ASSUME Fails, pc' = "down", Forget, DirsOK', FilesOK', UNCHANGED <<history, mutations>>
      PROVE  TInv'
  <2>1. faults' \in 0..MaxFaults
    BY <1>5, FaultStep
  <2>2. todo' \in Seq(Ops)
    BY <1>5 DEF Forget
  <2> QED
    BY <1>1, <1>5, <2>1, <2>2 DEF Forget, Places, DirsOK, FilesOK
<1>6. CASE ScanRecord
  <2>1. CASE Fails /\ pc' = "down" /\ Forget
    BY <1>5, <1>6, <2>1 DEF ScanRecord, DirsOK, FilesOK
  <2>2. CASE ~(Fails /\ pc' = "down" /\ Forget)
    <3>1. files[log].recs \in Seq(Record) /\ scan + 1 \in Nat
      BY <1>6 DEF ScanRecord, File
    <3>2. index' \in [Keys -> Nat]
      <4> DEFINE r == files[log].recs[scan + 1]
      <4>3. scan + 1 \in 1..Len(files[log].recs)
        BY <1>6, <3>1 DEF ScanRecord
      <4>1. r \in Record /\ r.key \in Keys
        BY <3>1, <4>3, RecordAt
      <4>2. index' = [index EXCEPT ![r.key] = IF r.val = Absent THEN 0 ELSE scan + 1]
        BY <1>6, <2>2 DEF ScanRecord
      <4> QED
        BY <3>1, <4>1, <4>2
    <3> QED
      BY <1>6, <2>2, <3>1, <3>2 DEF ScanRecord, Succeeds
  <2> QED
    BY <2>1, <2>2
<1>7. CASE ScanEnd
  <2>1. CASE Fails /\ pc' = "down" /\ Forget /\ UNCHANGED files
    BY <1>5, <1>7, <2>1 DEF ScanEnd, DirsOK, FilesOK
  <2>2. CASE /\ Succeeds /\ pc' = "open"
             /\ files' = IF ReadOnly THEN files ELSE [files EXCEPT ![log].torn = FALSE]
             /\ UNCHANGED <<todo, handle, scan, index, build>>
    <3>1. log \in Inodes
      BY <1>7 DEF ScanEnd
    <3>2. FilesOK'
      <4>1. CASE files' = [files EXCEPT ![log].torn = FALSE]
        <5>1. files'[log] = [files[log] EXCEPT !.torn = FALSE] /\ files[log] \in File
          BY <3>1, <4>1
        <5>2. files'[log] \in File
          BY <5>1 DEF File
        <5>3. files'[log].recs = files[log].recs /\ files'[log].synced = files[log].synced
          BY <5>1 DEF File
        <5> QED
          BY <3>1, <4>1, <5>2, <5>3 DEF FilesOK
      <4>2. CASE files' = files
        BY <4>2 DEF FilesOK
      <4> QED
        BY <2>2, <4>1, <4>2
    <3> QED
      BY <1>7, <2>2, <3>1, <3>2 DEF ScanEnd, Succeeds, Places, FilesOK
  <2> QED
    BY <1>7, <2>1, <2>2 DEF ScanEnd
<1> QED
  BY <1>2, <1>3, <1>4, <1>6, <1>7

(* Types are kept by Put, Delete, Sync and Close. *)
LEMMA TypeMutate ==
  ASSUME TInv, \/ \E k \in Keys, v \in Values : Put(k, v)
               \/ \E k \in Keys : Delete(k)
               \/ SyncMutation \/ Sync \/ Close
  PROVE  TInv'
<1> USE DEF TInv, TypeOK, handle, build, history, disk
<1>1. DirsOK /\ FilesOK /\ Dir \in Directory /\ NoIndex \in [Keys -> Nat]
  BY TypeParts, DirType DEF NoIndex
<1>2. ASSUME NEW r \in Record, NEW place \in Nat, Mutate(r, place)
      PROVE  TInv'
  <2>1. log \in Inodes /\ r.key \in Keys /\ r.val \in Values \cup {Absent}
    BY <1>2 DEF Mutate, Record
  <2>2. FilesOK'
    BY <1>1, <1>2, <2>1, AppendStep DEF Mutate
  <2>3. kv' \in Contents /\ since' \subseteq Contents /\ index' \in [Keys -> Nat]
    BY <1>2, <2>1 DEF Mutate, Contents
  <2>4. mutations' \in 0..MaxMutations
    BY <1>2, BoundAssumption DEF Mutate
  <2> QED
    BY <1>2, <2>1, <2>2, <2>3, <2>4 DEF Mutate, Places, FilesOK
<1>3. ASSUME NEW k \in Keys, NEW v \in Values, Put(k, v) PROVE TInv'
  <2>1. [key |-> k, val |-> v] \in Record
    BY DEF Record
  <2>2. Len(files[log].recs) + 1 \in Nat
    BY <1>3 DEF Put, Mutate, File
  <2> QED
    BY <1>2, <1>3, <2>1, <2>2 DEF Put
<1>4. ASSUME NEW k \in Keys, Delete(k) PROVE TInv'
  <2>1. [key |-> k, val |-> Absent] \in Record
    BY DEF Record
  <2> QED
    BY <1>2, <1>4, <2>1 DEF Delete
<1>5. ASSUME SyncLog, log \in Inodes
      PROVE  DirsOK' /\ FilesOK' /\ faults' \in 0..MaxFaults /\ (kv' = kv => since' \subseteq Contents)
  <2>1. CASE Succeeds /\ logOpen /\ Fsync(log) /\ since' = {kv}
    BY <1>1, <1>5, <2>1, FsyncStep, FaultStep
  <2>2. CASE Fails /\ UNCHANGED <<disk, since>>
    BY <1>1, <2>2, FaultStep DEF DirsOK, FilesOK
  <2> QED
    BY <1>5, <2>1, <2>2 DEF SyncLog
<1>6. CASE SyncMutation
  BY <1>5, <1>6 DEF SyncMutation, Places, DirsOK, FilesOK
<1>7. CASE Sync
  BY <1>5, <1>7 DEF Sync, Places, DirsOK, FilesOK
<1>8. CASE Close
  <2>1. DirsOK' /\ FilesOK' /\ faults' \in 0..MaxFaults /\ since' \subseteq Contents
    <3>1. CASE UNCHANGED <<disk, since, faults>>
      BY <1>1, <3>1 DEF DirsOK, FilesOK
    <3>2. CASE SyncLog
      BY <1>5, <1>8, <3>2 DEF Close
    <3> QED
      BY <1>8, <3>1, <3>2 DEF Close
  <2>2. todo' \in Seq(Ops)
    BY <1>8 DEF Close, Forget
  <2> QED
    BY <1>1, <1>8, <2>1, <2>2 DEF Close, Forget, Places, DirsOK, FilesOK
<1> QED
  BY <1>3, <1>4, <1>6, <1>7, <1>8

(* Types are kept by the steps of a compaction up to its fsync. *)
LEMMA TypeCopy ==
  ASSUME TInv, CompactStart \/ CompactClean \/ CompactCreate \/ CompactCopy \/ CompactSyncNew
  PROVE  TInv'
<1> USE DEF TInv, TypeOK, handle, build, history, disk, Steady
<1>1. DirsOK /\ FilesOK /\ Dir \in Directory /\ NoIndex \in [Keys -> Nat] /\ "temp" \in Names
  BY TypeParts, DirType DEF NoIndex, Names
<1>2. CASE CompactStart
  <2>1. Seq(Harmless) \subseteq Seq(Ops)
    BY DEF Harmless, Ops, Names
  <2>2. todo' \in Seq(Ops)
    BY <1>1, <1>2, <2>1, PlanType DEF CompactStart
  <2> QED
    BY <1>2, <2>2 DEF CompactStart, Places
<1>3. CASE CompactClean
  <2>1. CASE Succeeds /\ Perform(Head(todo)) /\ todo' = Tail(todo) /\ pc' = pc
    <3>1. Head(todo) \in Ops /\ Tail(todo) \in Seq(Ops)
      BY <1>3 DEF CompactClean
    <3>2. DirsOK'
      BY <1>1, <2>1, <3>1, PerformStep
    <3> QED
      BY <1>3, <2>1, <3>1, <3>2 DEF CompactClean, DirsOK, Succeeds
  <2>2. CASE Fails /\ UNCHANGED dirs /\ todo' = <<>> /\ pc' = "open"
    <3>1. faults' \in 0..MaxFaults /\ todo' \in Seq(Ops)
      BY <2>2, FaultStep
    <3> QED
      BY <1>3, <2>2, <3>1 DEF CompactClean, Places
  <2> QED
    BY <1>3, <2>1, <2>2 DEF CompactClean
<1>4. CASE CompactCreate
  <2>1. CASE Succeeds /\ pc' = "copy" /\ \E i \in Free : Create(i, "temp") /\ newLog' = i
    <3>1. DirsOK' /\ FilesOK' /\ newLog' \in Inodes
      BY <1>1, <2>1, CreateStep
    <3> QED
      BY <1>1, <1>4, <2>1, <3>1 DEF CompactCreate, Succeeds, Places, DirsOK, FilesOK
  <2>2. CASE Fails /\ pc' = "open" /\ UNCHANGED newLog /\ UNCHANGED disk
    BY <1>1, <1>4, <2>2, FaultStep DEF CompactCreate, Places
  <2>3. CASE Fails /\ pc' = "open" /\ UNCHANGED newLog /\ \E i \in Free : Create(i, "temp")
    <3>1. DirsOK' /\ FilesOK' /\ faults' \in 0..MaxFaults
      BY <1>1, <2>3, CreateStep, FaultStep
    <3> QED
      BY <1>1, <1>4, <2>3, <3>1 DEF CompactCreate, Places, DirsOK, FilesOK
  <2> QED
    BY <1>4, <2>1, <2>2, <2>3 DEF CompactCreate
<1>5. CASE CompactCopy
  <2>1. PICK k \in Uncopied : CopyRecord(k) \/ CopyFails(k)
    BY <1>5 DEF CompactCopy
  <2>2. /\ pc = "copy" /\ log \in Inodes /\ newLog \in Inodes /\ k \in Keys /\ todo' \in Seq(Ops)
        /\ UNCHANGED <<todo, handle, index, newLog>> /\ Steady
    BY <1>5 DEF CompactCopy, Uncopied
  <2>3. CASE CopyRecord(k)
    <3>1. files[log].recs \in Seq(Record) /\ Len(files[newLog].recs) + 1 \in Nat
      BY <2>2 DEF File
    <3>2. index[k] \in 1..Len(files[log].recs)
      <4>1. index[k] # 0
        BY <2>1 DEF Uncopied
      <4>2. index[k] \in Nat
        BY <2>2
      <4>3. index[k] <= Len(files[log].recs)
        BY <2>3 DEF CopyRecord, Readable
      <4>4. Len(files[log].recs) \in Nat
        BY <3>1
      <4> QED
        BY <4>1, <4>2, <4>3, <4>4
    <3>3. [key |-> k, val |-> files[log].recs[index[k]].val] \in Record
      BY <2>2, <3>1, <3>2, RecordAt DEF Record
    <3>4. FilesOK'
      BY <1>1, <2>2, <2>3, <3>3, AppendStep DEF CopyRecord
    <3>5. newIndex' \in [Keys -> Nat]
      BY <2>2, <2>3, <3>1 DEF CopyRecord
    <3> QED
      BY <2>2, <2>3, <3>4, <3>5 DEF CopyRecord, Succeeds, FilesOK
  <2>4. CASE CopyFails(k)
    <3>1. DirsOK' /\ faults' \in 0..MaxFaults
      BY <1>1, <2>4, DropStep, RemoveStep, FaultStep DEF CopyFails
    <3> QED
      BY <2>2, <2>4, <3>1, DirectoryTypes DEF CopyFails, Places
  <2> QED
    BY <2>1, <2>3, <2>4
<1>6. CASE CompactSyncNew
  <2>1. log \in Inodes /\ newLog \in Inodes /\ todo' \in Seq(Ops)
    BY <1>6 DEF CompactSyncNew
  <2>2. CASE Succeeds /\ Fsync(newLog) /\ pc' = "prepare"
    <3>1. DirsOK' /\ FilesOK'
      BY <1>1, <2>1, <2>2, FsyncStep
    <3> QED
      BY <1>6, <2>1, <2>2, <3>1 DEF CompactSyncNew, Succeeds, Places, DirsOK, FilesOK
  <2>3. CASE FailsAndDrops("temp") /\ UNCHANGED files /\ pc' = "open"
    <3>1. DirsOK' /\ faults' \in 0..MaxFaults
      BY <1>1, <2>3, DropStep
    <3> QED
      BY <1>6, <2>1, <2>3, <3>1, DirectoryTypes DEF CompactSyncNew, Places
  <2> QED
    BY <1>6, <2>2, <2>3 DEF CompactSyncNew
<1> QED
  BY <1>2, <1>3, <1>4, <1>5, <1>6

(* Types are kept by the steps of the replacement and by its error paths. *)
LEMMA TypeReplace ==
  ASSUME TInv,
         \/ CompactPrepare \/ CompactSyncPrepared \/ CompactCloseOld \/ CompactBackup
         \/ CompactInstall \/ CompactReopenNew \/ CompactDropBackup \/ CompactSyncInstalled
         \/ CompactDropNew \/ CompactRestore \/ CompactReopenOld \/ CompactDropReady
  PROVE  TInv'
<1> USE DEF TInv, TypeOK, handle, build, history, disk, Steady
<1>1. DirsOK /\ FilesOK /\ faults \in 0..MaxFaults /\ Names = {"main", "temp", "ready", "backup"}
  BY TypeParts DEF Names
<1>2. ASSUME \/ UNCHANGED dirs \/ SyncDirectory
             \/ \E n \in Names : Remove(n) \/ \E m \in Names : Rename(n, m)
      PROVE  DirsOK'
  BY <1>1, <1>2, SyncDirectoryStep, RemoveStep, RenameStep DEF SyncDirectory, DirsOK
<1>3. ASSUME NEW n \in Names, FailsAndDrops(n) PROVE DirsOK' /\ faults' \in 0..MaxFaults
  BY <1>1, <1>3, DropStep
<1>4. ASSUME Succeeds \/ Fails PROVE faults' \in 0..MaxFaults
  BY <1>1, <1>4, FaultStep
<1>5. CASE CompactPrepare
  BY <1>1, <1>2, <1>3, <1>4, <1>5, DirectoryTypes DEF CompactPrepare, Places
<1>6. CASE CompactSyncPrepared
  BY <1>1, <1>2, <1>3, <1>4, <1>6, DirectoryTypes DEF CompactSyncPrepared, Places
<1>7. CASE CompactCloseOld
  BY <1>1, <1>4, <1>7 DEF CompactCloseOld, Places
<1>8. CASE CompactBackup
  BY <1>1, <1>2, <1>4, <1>8, DirectoryTypes DEF CompactBackup, Places
<1>9. CASE CompactInstall
  BY <1>1, <1>2, <1>4, <1>9, DirectoryTypes DEF CompactInstall, Places
<1>10. CASE CompactDropBackup
  BY <1>1, <1>2, <1>4, <1>10, DirectoryTypes DEF CompactDropBackup, Places
<1>11. CASE CompactSyncInstalled
  BY <1>1, <1>2, <1>4, <1>11, DirectoryTypes DEF CompactSyncInstalled, Places
<1>12. CASE CompactDropNew
  BY <1>1, <1>2, <1>4, <1>12, DirectoryTypes DEF CompactDropNew, Places
<1>13. CASE CompactRestore
  BY <1>1, <1>2, <1>4, <1>13, DirectoryTypes DEF CompactRestore, Places
<1>14. CASE CompactDropReady
  BY <1>1, <1>2, <1>4, <1>14, DirectoryTypes DEF CompactDropReady, Places
<1>15. ASSUME OpenMain \/ (OpenMainFails /\ UNCHANGED handle), log \in Inodes
       PROVE  DirsOK' /\ FilesOK' /\ log' \in Inodes /\ logOpen' \in BOOLEAN
  BY <1>1, <1>15, OpenMainStep, OpenMainFailsStep
<1>16. CASE CompactReopenNew
  BY <1>1, <1>4, <1>15, <1>16 DEF CompactReopenNew, Places, DirsOK, FilesOK
<1>17. CASE CompactReopenOld
  BY <1>1, <1>4, <1>15, <1>17 DEF CompactReopenOld, Places, DirsOK, FilesOK
<1> QED
  BY <1>5, <1>6, <1>7, <1>8, <1>9, <1>10, <1>11, <1>12, <1>13, <1>14, <1>16, <1>17

(* A power failure that leaves d, and a file of it that holds the contents. *)
Leaves(d, t) ==
  /\ d \in Directory /\ dirs' = <<d>> /\ FilesOK' /\ DirsOK' /\ Dir' = d
  /\ \A i \in Inodes : files'[i].synced = Len(files'[i].recs)
  /\ t = NoFile => kv' = NoContents
  /\ t # NoFile => /\ t \in Inodes
                   /\ files'[t].synced = Len(files'[t].recs)
                   /\ Len(files'[t].recs) \in files[t].synced..Len(files[t].recs)
                   /\ kv' = Replay(files[t].recs, Len(files'[t].recs))
                   /\ kv' = Replay(files'[t].recs, Len(files'[t].recs))

(* A power failure leaves one of the directories since the last durable    *)
(* one, and of each file in it at least what was synchronized.             *)
LEMMA PowerStep ==
  ASSUME TypeOK, PowerFailure
  PROVE  \E j \in DOMAIN dirs : Leaves(dirs[j], Target(dirs[j]))
<1> DEFINE S(j) == {i \in Inodes : \E n \in Names : dirs[j][n] = i}
<1>1. PICK j \in DOMAIN dirs : \E c \in Cuts(S(j)) : \E T \in SUBSET S(j) :
        /\ dirs'  = <<dirs[j]>>
        /\ files' = [i \in Inodes |->
                       IF i \in S(j) THEN [recs   |-> SubSeq(files[i].recs, 1, c[i]),
                                           synced |-> c[i],
                                           torn   |-> i \in T]
                                     ELSE EmptyFile]
        /\ kv' = ContentsAt(Target(dirs[j]),
                            IF Target(dirs[j]) = NoFile THEN 0 ELSE c[Target(dirs[j])])
  BY Zenon DEF PowerFailure
<1>2. PICK c \in Cuts(S(j)), T \in SUBSET S(j) :
        /\ dirs'  = <<dirs[j]>>
        /\ files' = [i \in Inodes |->
                       IF i \in S(j) THEN [recs   |-> SubSeq(files[i].recs, 1, c[i]),
                                           synced |-> c[i],
                                           torn   |-> i \in T]
                                     ELSE EmptyFile]
        /\ kv' = ContentsAt(Target(dirs[j]),
                            IF Target(dirs[j]) = NoFile THEN 0 ELSE c[Target(dirs[j])])
  BY <1>1
<1> DEFINE t == Target(dirs[j])
<1>3. dirs[j] \in Directory /\ DirsOK' /\ Dir' = dirs[j]
  BY <1>2 DEF TypeOK, DirsOK, Dir
<1>4. ASSUME NEW i \in S(j)
      PROVE  /\ i \in Inodes /\ files[i].recs \in Seq(Record)
             /\ c[i] \in files[i].synced..Len(files[i].recs) /\ c[i] \in 0..Len(files[i].recs)
  BY <1>4 DEF Cuts, TypeOK, File
<1>5. ASSUME NEW i \in S(j)
      PROVE  /\ files'[i].recs \in Seq(Record) /\ Len(files'[i].recs) = c[i]
             /\ files'[i].synced = c[i] /\ files'[i].torn \in BOOLEAN /\ c[i] \in Nat
             /\ files'[i] = [recs |-> files'[i].recs, synced |-> c[i], torn |-> i \in T]
             /\ Replay(files'[i].recs, c[i]) = Replay(files[i].recs, c[i])
  <2>1. files'[i] = [recs |-> SubSeq(files[i].recs, 1, c[i]), synced |-> c[i], torn |-> i \in T]
    BY <1>2, <1>4
  <2>2. c[i] \in 0..c[i] /\ c[i] \in Nat
    BY <1>4
  <2> DEFINE short == SubSeq(files[i].recs, 1, c[i])
  <2>3. /\ short \in Seq(Record) /\ Len(short) = c[i]
        /\ Replay(short, c[i]) = Replay(files[i].recs, c[i])
    BY <1>4, <2>2, ReplayCut
  <2> HIDE DEF short, S
  <2>4. files'[i] = [recs |-> short, synced |-> c[i], torn |-> i \in T]
    BY <2>1 DEF short
  <2>5. files'[i].recs = short /\ files'[i].synced = c[i] /\ files'[i].torn = (i \in T)
    <3>1. \A b : LET f == [recs |-> short, synced |-> c[i], torn |-> b]
                 IN  f.recs = short /\ f.synced = c[i] /\ f.torn = b
      OBVIOUS
    <3> QED
      BY <2>4, <3>1, Zenon
  <2>6. (i \in T) \in BOOLEAN
    OBVIOUS
  <2>7. files'[i].torn \in BOOLEAN
    BY <2>5, <2>6, Zenon
  <2>8. files'[i] = [recs |-> files'[i].recs, synced |-> c[i], torn |-> i \in T]
    BY <2>4, <2>5, Zenon
  <2>9. files'[i].recs \in Seq(Record) /\ Len(files'[i].recs) = c[i]
        /\ Replay(files'[i].recs, c[i]) = Replay(files[i].recs, c[i])
    BY <2>3, <2>5, Zenon
  <2> QED
    BY <2>2, <2>5, <2>7, <2>8, <2>9, Zenon
<1>6. ASSUME NEW i \in Inodes PROVE files'[i] \in File /\ files'[i].synced = Len(files'[i].recs)
  <2>1. CASE i \in S(j)
    <3>1. \A R \in Seq(Record), m \in Nat, b \in BOOLEAN :
            [recs |-> R, synced |-> m, torn |-> b] \in File
      BY DEF File
    <3>2. (i \in T) \in BOOLEAN
      OBVIOUS
    <3> HIDE DEF S
    <3>3. /\ files'[i].recs \in Seq(Record) /\ Len(files'[i].recs) = c[i] /\ c[i] \in Nat
          /\ files'[i] = [recs |-> files'[i].recs, synced |-> c[i], torn |-> i \in T]
          /\ files'[i].synced = c[i]
      BY <1>5, <2>1
    <3>4. files'[i] \in File
      BY <3>1, <3>2, <3>3, Zenon
    <3> QED
      BY <3>3, <3>4, Zenon
  <2>2. CASE i \notin S(j)
    <3> HIDE DEF S
    <3>1. files'[i] = EmptyFile
      BY <1>2, <2>2, Zenon
    <3>2. EmptyFile \in File /\ EmptyFile.synced = Len(EmptyFile.recs)
      BY DEF File, EmptyFile
    <3> QED
      BY <3>1, <3>2, Zenon
  <2> QED
    BY <2>1, <2>2
<1>7. FilesOK'
  <2>1. \A i \in Inodes : files'[i].synced <= Len(files'[i].recs)
    BY <1>6 DEF File
  <2> QED
    BY <1>2, <1>6, <2>1 DEF FilesOK
<1>8. ASSUME t # NoFile
      PROVE  t \in S(j)
  BY <1>3, <1>8 DEF Target, Directory, Names
<1>9. t = NoFile => kv' = NoContents
  BY <1>2 DEF ContentsAt
<1>10. t # NoFile => kv' = Replay(files[t].recs, c[t])
  BY <1>2 DEF ContentsAt
<1> HIDE DEF t, S
<1>11. ASSUME t # NoFile
       PROVE  /\ t \in Inodes
              /\ files'[t].synced = Len(files'[t].recs)
              /\ Len(files'[t].recs) \in files[t].synced..Len(files[t].recs)
              /\ kv' = Replay(files[t].recs, Len(files'[t].recs))
              /\ kv' = Replay(files'[t].recs, Len(files'[t].recs))
  BY <1>4, <1>5, <1>8, <1>10, <1>11
<1> QED
  BY <1>2, <1>3, <1>6, <1>7, <1>9, <1>11 DEF t, Leaves

(* Types are kept by the failures. *)
LEMMA TypeFailure ==
  ASSUME TInv, Crash \/ PowerFailure
  PROVE  TInv'
<1> USE DEF TInv, TypeOK, history
<1>1. DirsOK /\ FilesOK /\ NoIndex \in [Keys -> Nat]
  BY TypeParts DEF NoIndex
<1>2. CASE Crash
  <2>1. FilesOK'
    <3>1. CASE UNCHANGED files
      BY <1>1, <3>1 DEF FilesOK
    <3>2. CASE \E i \in Writing : files' = [files EXCEPT ![i].torn = TRUE]
      <4>1. PICK i \in Writing : files' = [files EXCEPT ![i].torn = TRUE]
        BY <3>2
      <4>2. i \in Inodes
        BY <4>1 DEF Writing
      <4>3. files'[i] = [files[i] EXCEPT !.torn = TRUE] /\ files[i] \in File
        BY <4>1, <4>2
      <4>4. files'[i] \in File
        BY <4>3 DEF File
      <4>5. files'[i].recs = files[i].recs /\ files'[i].synced = files[i].synced
        BY <4>3 DEF File
      <4> QED
        BY <4>1, <4>2, <4>4, <4>5 DEF FilesOK
    <3> QED
      BY <1>2, <3>1, <3>2 DEF Crash
  <2>2. todo' \in Seq(Ops)
    <3>1. todo' = <<>>
      BY <1>2, Zenon DEF Crash, Forget
    <3> QED
      BY <3>1, NoOps
  <2> QED
    BY <1>1, <1>2, <2>1, <2>2 DEF Crash, Forget, Places, FilesOK
<1>3. CASE PowerFailure
  <2>1. DirsOK' /\ FilesOK' /\ kv' \in Contents
    <3>1. PICK j \in DOMAIN dirs : Leaves(dirs[j], Target(dirs[j]))
      BY <1>3, PowerStep
    <3>2. NoContents \in Contents
      BY DEF NoContents, Contents
    <3>3. ASSUME NEW i \in Inodes PROVE Replay(files'[i].recs, Len(files'[i].recs)) \in Contents
      <4>1. files'[i].recs \in Seq(Record)
        BY <3>1 DEF FilesOK, File, Leaves
      <4>2. Len(files'[i].recs) \in 0..Len(files'[i].recs)
        BY <4>1
      <4> QED
        BY <4>1, <4>2, ReplayType
    <3> QED
      BY <3>1, <3>2, <3>3 DEF Leaves
  <2>2. todo' \in Seq(Ops)
    <3>1. Forget
      BY <1>3, Zenon DEF PowerFailure
    <3>2. todo' = <<>>
      BY <3>1, Zenon DEF Forget
    <3> QED
      BY <3>2, NoOps
  <2> QED
    BY <1>1, <1>3, <2>1, <2>2 DEF PowerFailure, Forget, Places, DirsOK, FilesOK
<1> QED
  BY <1>2, <1>3

(* Every step of the program and every failure keeps the types. *)
LEMMA TypeNext == TInv /\ [Next]_vars => TInv'
<1> SUFFICES ASSUME TInv, [Next]_vars PROVE TInv'
  OBVIOUS
<1>1. CASE UNCHANGED vars
  BY <1>1 DEF vars, disk, handle, build, history, TInv, TypeOK
<1>2. CASE Next
  BY <1>2, TypeOpen, TypeMutate, TypeCopy, TypeReplace, TypeFailure DEF Next, CompactStep
<1> QED
  BY <1>1, <1>2

(* The variables keep their types, whatever is interrupted and whatever    *)
(* fails: in particular no durable prefix ever outruns its file, and every *)
(* index entry that a scan, a Put or a compaction makes is an offset.      *)
THEOREM TypeCorrect == Spec => []TypeOK
<1>1. TInv => TypeOK
  BY DEF TInv
<1> QED
  BY <1>1, TypeInit, TypeNext, PTL DEF Spec

-----------------------------------------------------------------------------
(* Read-only logs.                                                         *)

(* The places of a handler that has found its log writable. *)
Writable ==
  {"sync", "clean", "copy", "prepare", "prepared", "closeOld", "backup", "install",
   "reopenNew", "dropNew", "restore", "reopen", "reopenAndDrop"}

(* Nothing of a file with a read-only bit is left to synchronize. *)
Untouched == \A i \in ReadOnlyFiles : files[i].synced = Len(files[i].recs)

(* A process has no log before it opens one, and does not get to a step    *)
(* that writes with a read-only log.                                       *)
RInv ==
  /\ TInv
  /\ pc \in {"down", "recover"} => log = NoFile
  /\ pc \in Writable => ~ReadOnly
  /\ pc = "copy" => newLog \notin ReadOnlyFiles
  /\ Untouched

(* A step may write a file that has no read-only bit. *)
LEMMA OthersUntouched ==
  ASSUME Untouched, NEW i, i \notin ReadOnlyFiles,
         \A j \in Inodes : j # i => files'[j] = files[j]
  PROVE  Untouched'
  BY ReadOnlyAssumption DEF Untouched

(* A new file has no read-only bit. *)
LEMMA CreateUntouched ==
  ASSUME TInv, Untouched, NEW i, NEW n, Create(i, n)
  PROVE  i \notin ReadOnlyFiles /\ Untouched'
<1>1. i \notin ReadOnlyFiles
  BY DEF Create, Free
<1>2. \A j \in Inodes : j # i => files'[j] = files[j]
  BY TypeParts DEF Create, TInv, FilesOK
<1> QED
  BY <1>1, <1>2, OthersUntouched

(* Opening finds the file or makes one. *)
LEMMA OpenUntouched ==
  ASSUME TInv, Untouched, OpenMain \/ OpenMainFails
  PROVE  Untouched'
<1>1. CASE UNCHANGED disk
  BY <1>1 DEF disk, Untouched
<1> QED
  BY <1>1, CreateUntouched DEF OpenMain, OpenMainFails

(* The fsync of a file that has all of its records durable is no change. *)
LEMMA FsyncUntouched ==
  ASSUME TInv, Untouched, log \in Inodes, Fsync(log)
  PROVE  Untouched' /\ (ReadOnly => files' = files)
<1>1. FilesOK /\ files[log] \in File /\ files' = [files EXCEPT ![log].synced = Len(files[log].recs)]
  BY TypeParts DEF TInv, FilesOK, Fsync
<1>2. \A j \in Inodes : j # log => files'[j] = files[j]
  BY <1>1 DEF FilesOK
<1>3. ASSUME ReadOnly PROVE files' = files
  <2>1. files[log].synced = Len(files[log].recs)
    BY <1>3 DEF Untouched, ReadOnly
  <2>2. [files[log] EXCEPT !.synced = Len(files[log].recs)] = files[log]
    BY <1>1, <2>1 DEF File
  <2>3. files' = [files EXCEPT ![log] = files[log]]
    BY <1>1, <2>2
  <2> QED
    BY <1>1, <2>3 DEF FilesOK
<1>4. CASE ReadOnly
  BY <1>3, <1>4 DEF Untouched
<1>5. CASE ~ReadOnly
  BY <1>2, <1>5, OthersUntouched DEF ReadOnly
<1> QED
  BY <1>3, <1>4, <1>5

(* A step that leaves the files, or makes a process end, owes little. *)
LEMMA ReadOnlyKept ==
  ASSUME RInv, TInv', Untouched', files' = files \/ ~ReadOnly \/ pc' = "down",
         pc' \in {"down", "recover"} => log' = NoFile,
         pc' \in Writable => log' = log /\ (pc \in Writable \/ ~ReadOnly),
         pc' = "copy" => newLog' \notin ReadOnlyFiles
  PROVE  RInv' /\ (ReadOnly /\ pc' # "down" => files' = files)
  BY DEF RInv, ReadOnly

(* Open and its recovery, with no log yet; the scan, with one. *)
LEMMA ReadOnlyOpen ==
  ASSUME RInv, TInv', Open \/ RecoverStep \/ OpenLog \/ ScanRecord \/ ScanEnd
  PROVE  RInv' /\ (ReadOnly /\ pc' # "down" => files' = files)
<1>1. Untouched /\ TInv /\ FilesOK
  BY TypeParts DEF RInv, TInv
<1>2. ASSUME files' = files PROVE Untouched'
  BY <1>1, <1>2 DEF Untouched
<1>3. CASE Open
  <2>1. files' = files /\ log' = log /\ log = NoFile /\ pc' = "recover"
    BY <1>3 DEF Open, disk, handle, RInv
  <2> QED
    BY <1>2, <2>1, ReadOnlyKept DEF Writable
<1>4. CASE RecoverStep
  <2>1. files' = files /\ log' = log /\ log = NoFile /\ pc' \in {"recover", "down"}
    BY <1>4 DEF RecoverStep, handle, RInv
  <2> QED
    BY <1>2, <2>1, ReadOnlyKept DEF Writable
<1>5. CASE OpenLog
  <2>1. log = NoFile /\ ~ReadOnly /\ pc' \in {"scan", "down"}
    BY <1>5, NoFileAssumption, ReadOnlyAssumption DEF OpenLog, RInv, ReadOnly
  <2>2. Untouched'
    BY <1>1, <1>5, OpenUntouched DEF OpenLog
  <2>3. pc' = "down" => log' = NoFile
    BY <1>5, <2>1 DEF OpenLog, handle
  <2> QED
    BY <2>1, <2>2, <2>3, ReadOnlyKept DEF Writable
<1>6. CASE ScanRecord
  <2>1. files' = files /\ pc' \in {"scan", "down"} /\ (pc' = "down" => log' = NoFile)
    BY <1>6 DEF ScanRecord, disk, Forget
  <2> QED
    BY <1>2, <2>1, ReadOnlyKept DEF Writable
<1>7. CASE ScanEnd
  <2>1. pc' \in {"open", "down"} /\ (pc' = "down" => log' = NoFile) /\ (files' = files \/ ~ReadOnly)
    BY <1>7 DEF ScanEnd, Forget
  <2>2. \A j \in Inodes : j # log => files'[j] = files[j]
    BY <1>1, <1>7 DEF ScanEnd, FilesOK
  <2>3. Untouched'
    BY <1>1, <1>2, <2>1, <2>2, OthersUntouched DEF ReadOnly
  <2> QED
    BY <2>1, <2>3, ReadOnlyKept DEF Writable
<1> QED
  BY <1>3, <1>4, <1>5, <1>6, <1>7

(* Put and Delete refuse a read-only log; a sync of one changes nothing. *)
LEMMA ReadOnlyMutate ==
  ASSUME RInv, TInv',
         \/ \E k \in Keys, v \in Values : Put(k, v)
         \/ \E k \in Keys : Delete(k)
         \/ SyncMutation \/ Sync \/ Close
  PROVE  RInv' /\ (ReadOnly /\ pc' # "down" => files' = files)
<1>1. Untouched /\ TInv /\ FilesOK
  BY TypeParts DEF RInv, TInv
<1>2. ASSUME NEW r, NEW place, Mutate(r, place)
      PROVE  RInv' /\ (ReadOnly /\ pc' # "down" => files' = files)
  <2>1. ~ReadOnly /\ pc' \in {"open", "sync"} /\ log' = log /\ files' = AppendTo(log, r)
    BY <1>2 DEF Mutate, handle
  <2>2. \A j \in Inodes : j # log => files'[j] = files[j]
    BY <1>1, <2>1 DEF AppendTo, FilesOK
  <2> QED
    BY <1>1, <2>1, <2>2, OthersUntouched, ReadOnlyKept DEF ReadOnly, Writable
<1>3. CASE SyncMutation \/ Sync \/ Close
  <2>1. pc' \in {"open", "down"} /\ log \in Inodes /\ (pc' = "down" => log' = NoFile)
    BY <1>1, <1>3 DEF SyncMutation, Sync, Close, Forget, TInv
  <2>2. Fsync(log) \/ files' = files
    BY <1>3 DEF SyncMutation, Sync, Close, SyncLog, disk
  <2>3. Untouched' /\ (ReadOnly => files' = files)
    BY <1>1, <2>1, <2>2, FsyncUntouched DEF Untouched
  <2> QED
    BY <2>1, <2>3, ReadOnlyKept DEF Writable
<1> QED
  BY <1>2, <1>3 DEF Put, Delete

(* Compact refuses a read-only log, and writes only the log it has made    *)
(* itself.                                                                 *)
LEMMA ReadOnlyCompact ==
  ASSUME RInv, TInv', CompactStep
  PROVE  RInv' /\ (ReadOnly /\ pc' # "down" => files' = files)
<1>1. Untouched /\ TInv /\ FilesOK
  BY TypeParts DEF RInv, TInv
<1>2. CASE \/ CompactStart \/ CompactClean \/ CompactPrepare \/ CompactSyncPrepared \/ CompactCloseOld
           \/ CompactBackup \/ CompactInstall \/ CompactDropBackup \/ CompactSyncInstalled
           \/ CompactDropNew \/ CompactRestore \/ CompactDropReady
  <2>1. /\ files' = files /\ log' = log /\ pc' \notin {"down", "recover", "copy"}
        /\ pc' \in Writable => pc \in Writable \/ ~ReadOnly
    BY <1>2 DEF CompactStart, CompactClean, CompactPrepare, CompactSyncPrepared, CompactCloseOld,
                CompactBackup, CompactInstall, CompactDropBackup, CompactSyncInstalled,
                CompactDropNew, CompactRestore, CompactDropReady, handle, disk, Writable
  <2>2. Untouched'
    BY <1>1, <2>1 DEF Untouched
  <2> QED
    BY <2>1, <2>2, ReadOnlyKept
<1>3. CASE CompactCreate
  <2>1. ~ReadOnly /\ pc' \in {"copy", "open"} /\ log' = log /\ pc \in Writable
    BY <1>3 DEF CompactCreate, handle, RInv, Writable
  <2>2. Untouched' /\ (pc' = "copy" => newLog' \notin ReadOnlyFiles)
    <3>1. CASE UNCHANGED disk /\ pc' = "open"
      BY <1>1, <3>1 DEF disk, Untouched
    <3> QED
      BY <1>1, <1>3, <3>1, CreateUntouched DEF CompactCreate
  <2> QED
    BY <2>1, <2>2, ReadOnlyKept
<1>4. CASE CompactCopy \/ CompactSyncNew
  <2>1. ~ReadOnly /\ pc' \in {"copy", "open", "prepare"} /\ log' = log /\ newLog' = newLog
        /\ pc \in Writable /\ newLog \notin ReadOnlyFiles
    BY <1>4 DEF CompactCopy, CopyRecord, CopyFails, CompactSyncNew, handle, build, RInv, Writable
  <2>2. \A j \in Inodes : j # newLog => files'[j] = files[j]
    BY <1>1, <1>4 DEF CompactCopy, CopyRecord, CopyFails, CompactSyncNew, AppendTo, Fsync, FilesOK
  <2> QED
    BY <1>1, <2>1, <2>2, OthersUntouched, ReadOnlyKept
<1>5. CASE CompactReopenNew \/ CompactReopenOld
  <2>1. ~ReadOnly /\ pc' \in {"dropBackup", "dropNew", "open", "dropReady"} /\ pc \in Writable
    BY <1>5 DEF CompactReopenNew, CompactReopenOld, RInv, Writable
  <2>2. pc' = "dropNew" => log' = log
    BY <1>5 DEF CompactReopenNew, CompactReopenOld, handle
  <2>3. Untouched'
    BY <1>1, <1>5, OpenUntouched DEF CompactReopenNew, CompactReopenOld
  <2> QED
    BY <2>1, <2>2, <2>3, ReadOnlyKept DEF Writable
<1> QED
  BY <1>2, <1>3, <1>4, <1>5 DEF CompactStep

(* The failures leave every record of a read-only file durable. *)
LEMMA ReadOnlyFailure ==
  ASSUME RInv, TInv', Crash \/ PowerFailure
  PROVE  RInv'
<1>1. Untouched /\ TInv /\ FilesOK
  BY TypeParts DEF RInv, TInv
<1>2. pc' = "down" /\ log' = NoFile
  BY Zenon DEF Crash, PowerFailure, Forget
<1>3. CASE Crash
  <2>1. ASSUME UNCHANGED files PROVE Untouched'
    BY <1>1, <2>1 DEF Untouched
  <2>2. ASSUME NEW i \in Writing, files' = [files EXCEPT ![i].torn = TRUE] PROVE Untouched'
    <3>1. i \notin ReadOnlyFiles
      BY <2>2 DEF Writing, RInv, ReadOnly
    <3>2. \A j \in Inodes : j # i => files'[j] = files[j]
      BY <1>1, <2>2 DEF FilesOK
    <3> QED
      BY <1>1, <3>1, <3>2, OthersUntouched
  <2> QED
    BY <1>2, <1>3, <2>1, <2>2, ReadOnlyKept DEF Crash, Writable
<1>4. CASE PowerFailure
  <2>1. PICK j \in DOMAIN dirs : Leaves(dirs[j], Target(dirs[j]))
    BY <1>1, <1>4, PowerStep DEF TInv
  <2>2. Untouched'
    BY <2>1, ReadOnlyAssumption DEF Leaves, Untouched
  <2> QED
    BY <1>2, <2>2, ReadOnlyKept DEF Writable
<1> QED
  BY <1>3, <1>4

(* Every record of the first state is durable. *)
LEMMA InitSynced ==
  ASSUME Init
  PROVE  \A i \in Inodes : files[i].synced = Len(files[i].recs)
<1>1. EmptyFile.synced = Len(EmptyFile.recs)
  BY DEF EmptyFile
<1>2. CASE files = [j \in Inodes |-> EmptyFile]
  BY <1>1, <1>2
<1>3. ASSUME NEW i \in ReadOnlyFiles, NEW recs, NEW t,
             files = [[j \in Inodes |-> EmptyFile] EXCEPT
                        ![i] = [recs |-> recs, synced |-> Len(recs), torn |-> t]]
      PROVE  \A j \in Inodes : files[j].synced = Len(files[j].recs)
  <2>1. files[i] = [recs |-> recs, synced |-> Len(recs), torn |-> t]
    BY <1>3, ReadOnlyAssumption
  <2>2. files[i].synced = Len(files[i].recs)
    BY <2>1
  <2>3. \A j \in Inodes : j # i => files[j] = EmptyFile
    BY <1>3
  <2> QED
    BY <1>1, <2>2, <2>3
<1> QED
  BY <1>2, <1>3, Zenon DEF Init, InitDisk

(* The first state has no process. *)
LEMMA ReadOnlyInit == Init => RInv
<1> SUFFICES ASSUME Init PROVE RInv
  OBVIOUS
<1>1. TInv /\ Untouched
  BY InitSynced, TypeInit, ReadOnlyAssumption DEF Untouched
<1> QED
  BY <1>1 DEF RInv, Init, Writable

(* ReadOnlyKeepsBytes: a store that has a log with an unknown read-only    *)
(* bit open does not change a byte of any file: not at the end of its      *)
(* scan, where it leaves a torn tail, and not in Put, Delete, Sync or      *)
(* Compact, whichever calls fail.                                          *)
THEOREM ReadOnlyCorrect == Spec => ReadOnlyKeepsBytes
<1>1. RInv /\ [Next]_vars => RInv' /\ [ReadOnly /\ pc' # "down" => files' = files]_vars
  <2> SUFFICES ASSUME RInv, [Next]_vars
               PROVE  RInv' /\ [ReadOnly /\ pc' # "down" => files' = files]_vars
    OBVIOUS
  <2>1. TInv'
    BY TypeNext DEF RInv
  <2>2. CASE UNCHANGED vars
    BY <2>1, <2>2 DEF vars, disk, handle, build, RInv, ReadOnly, Untouched
  <2>3. CASE Crash \/ PowerFailure
    <3>1. pc' = "down"
      BY <2>3, Zenon DEF Crash, PowerFailure
    <3> QED
      BY <2>1, <2>3, <3>1, ReadOnlyFailure
  <2> QED
    BY <2>1, <2>2, <2>3, ReadOnlyOpen, ReadOnlyMutate, ReadOnlyCompact DEF Next
<1> QED
  BY <1>1, ReadOnlyInit, PTL DEF Spec, ReadOnlyKeepsBytes
=============================================================================
