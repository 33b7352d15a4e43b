-------------------------- MODULE DowngradeProofs ---------------------------
(***************************************************************************)
(* That the destination of Downgrade has no part of a log, that a record   *)
(* the older format cannot express leaves it alone, and that it is never   *)
(* replaced unasked, for any sources and any number of faults and deaths.  *)
(***************************************************************************)
EXTENDS Downgrade, TLAPS

(* The places of the records that the scan has found after n of them. *)
Found(recs, n) ==
  {i \in 1..n : ~recs[i].deleted /\ \A j \in i + 1..n : recs[j].key # recs[i].key}

Survivors(recs) == {i \in DOMAIN recs : Survives(recs, i)}

-----------------------------------------------------------------------------
(* Types.                                                                  *)

(* The directory a process sees is a directory. *)
LEMMA DirType ==
  ASSUME TypeOK
  PROVE  /\ Dir \in Directory /\ Dir["dst"] \in Inodes \cup {NoFile}
         /\ Dir["tmp"] \in Inodes \cup {NoFile} /\ Len(dirs) \in DOMAIN dirs
         /\ Dir = dirs[Len(dirs)]
<1>1. dirs \in Seq(Directory) /\ dirs # <<>>
  BY DEF TypeOK
<1>2. Len(dirs) \in DOMAIN dirs
  BY <1>1
<1>3. Dir \in Directory
  BY <1>1 DEF Dir
<1> QED
  BY <1>2, <1>3 DEF Dir, Directory, Names

(* SetDir makes d the directory that a process sees, and adds it to those  *)
(* that a power failure may leave.                                         *)
LEMMA SetDirStep ==
  ASSUME TypeOK, NEW d \in Directory, SetDir(d)
  PROVE  /\ dirs' \in Seq(Directory) /\ dirs' # <<>> /\ Dir' = d
         /\ \A j \in DOMAIN dirs' : dirs'[j] = d \/ \E i \in DOMAIN dirs : dirs'[j] = dirs[i]
<1>1. dirs \in Seq(Directory) /\ dirs # <<>>
  BY DEF TypeOK
<1>2. CASE d = Dir
  BY <1>1, <1>2 DEF SetDir, Dir
<1>3. CASE d # Dir
  <2>1. dirs' = Append(dirs, d)
    BY <1>3 DEF SetDir
  <2>2. /\ dirs' \in Seq(Directory) /\ Len(dirs') = Len(dirs) + 1 /\ dirs'[Len(dirs')] = d
        /\ DOMAIN dirs' = 1..Len(dirs) + 1
        /\ \A j \in 1..Len(dirs) : dirs'[j] = dirs[j]
    BY <1>1, <2>1
  <2>3. \A j \in DOMAIN dirs' : dirs'[j] = d \/ j \in DOMAIN dirs
    BY <1>1, <2>2
  <2> QED
    BY <1>1, <2>2, <2>3 DEF Dir
<1> QED
  BY <1>2, <1>3

(* The directories a step of the tool sets are directories. *)
LEMMA DirectoryType ==
  /\ \A a, b \in Inodes \cup {NoFile} : [dst |-> a, tmp |-> b] \in Directory
  /\ \A d \in Directory : \A i \in Inodes \cup {NoFile} :
       /\ [d EXCEPT !["tmp"] = i] \in Directory /\ [d EXCEPT !["tmp"] = i]["dst"] = d["dst"]
       /\ [d EXCEPT !["tmp"] = i]["tmp"] = i
       /\ [d EXCEPT !["dst"] = i] \in Directory /\ [d EXCEPT !["dst"] = i]["tmp"] = d["tmp"]
       /\ [d EXCEPT !["dst"] = i]["dst"] = i
<1>1. ASSUME NEW a \in Inodes \cup {NoFile}, NEW b \in Inodes \cup {NoFile}
      PROVE  [dst |-> a, tmp |-> b] \in Directory
  BY DEF Directory, Names
<1>2. ASSUME NEW d \in Directory, NEW i \in Inodes \cup {NoFile}
      PROVE  /\ [d EXCEPT !["tmp"] = i] \in Directory /\ [d EXCEPT !["tmp"] = i]["dst"] = d["dst"]
             /\ [d EXCEPT !["tmp"] = i]["tmp"] = i
             /\ [d EXCEPT !["dst"] = i] \in Directory /\ [d EXCEPT !["dst"] = i]["tmp"] = d["tmp"]
             /\ [d EXCEPT !["dst"] = i]["dst"] = i
  BY DEF Directory, Names
<1> QED
  BY <1>1, <1>2

(* What a power failure leaves of a file has the type of a file's contents, *)
(* and is the file's contents when they are synchronized.                  *)
LEMMA LeftoversIs ==
  ASSUME NEW f \in File, NEW c \in Leftovers(f)
  PROVE  c \in Contents /\ (f.now = f.synced => c = f.now)
<1>1. PICK v \in {f.now.version, f.synced.version},
           b \in [Slots -> {f.now.body[k] : k \in Slots} \cup {f.synced.body[k] : k \in Slots}] :
        /\ \A k \in Slots : b[k] \in {f.now.body[k], f.synced.body[k]}
        /\ c = [version |-> v, body |-> b]
  BY DEF Leftovers
<1>2. f.now \in Contents /\ f.synced \in Contents
  BY DEF File
<1>3. /\ f.now = [version |-> f.now.version, body |-> f.now.body]
      /\ f.now.version \in 0..5 /\ f.now.body \in [Slots -> Records \cup {Hole}]
      /\ f.synced.version \in 0..5 /\ f.synced.body \in [Slots -> Records \cup {Hole}]
  BY <1>2 DEF Contents
<1>4. \A k \in Slots : b[k] \in Records \cup {Hole}
  BY <1>1, <1>3
<1>5. b \in [Slots -> Records \cup {Hole}]
  BY <1>1, <1>4
<1>6. c \in Contents
  BY <1>1, <1>3, <1>5 DEF Contents
<1>7. ASSUME f.now = f.synced PROVE c = f.now
  <2>1. v = f.now.version
    BY <1>1, <1>7
  <2>2. \A k \in Slots : b[k] = f.now.body[k]
    BY <1>1, <1>7
  <2>3. b = f.now.body
    BY <1>3, <1>5, <2>2
  <2> QED
    BY <1>1, <1>3, <2>1, <2>3
<1> QED
  BY <1>6, <1>7

(* A call succeeds, or it is one of the failing calls there may be. *)
LEMMA FaultType ==
  ASSUME TypeOK, Succeeds \/ Fails
  PROVE  faults' \in 0..MaxFaults
  BY BoundAssumption DEF TypeOK, Succeeds, Fails

(* What a run writes into its file leaves the file a file. *)
LEMMA FileTypes ==
  ASSUME NEW f \in File
  PROVE  /\ f.now \in Contents /\ f.synced \in Contents
         /\ \A c \in Contents : [f EXCEPT !.now = c] \in File
         /\ [f EXCEPT !.synced = f.now] \in File
         /\ \A v \in 0..5 : [f EXCEPT !.now.version = v] \in File
         /\ \A k \in Slots : \A r \in Records : [f EXCEPT !.now.body[k] = r] \in File
<1>1. f.now \in Contents /\ f.synced \in Contents
  BY DEF File
<1>2. \A c \in Contents : [f EXCEPT !.now = c] \in File /\ [f EXCEPT !.synced = c] \in File
  BY DEF File
<1>3. ASSUME NEW v \in 0..5 PROVE [f EXCEPT !.now.version = v] \in File
  <2>1. [f.now EXCEPT !.version = v] \in Contents
    BY <1>1 DEF Contents
  <2> QED
    BY <1>2, <2>1
<1>4. ASSUME NEW k \in Slots, NEW r \in Records PROVE [f EXCEPT !.now.body[k] = r] \in File
  <2>1. [f.now.body EXCEPT ![k] = r] \in [Slots -> Records \cup {Hole}]
    BY <1>1 DEF Contents
  <2>2. [f.now EXCEPT !.body[k] = r] \in Contents
    BY <1>1, <2>1 DEF Contents
  <2> QED
    BY <1>2, <2>2
<1> QED
  BY <1>1, <1>2, <1>3, <1>4

(* New files begin with one of these. *)
LEMMA EmptyTypes ==
  /\ Empty \in Contents /\ [now |-> Empty, synced |-> Empty] \in File
  /\ \A v \in 0..5 : /\ [version |-> v, body |-> Blank] \in Contents
                     /\ [now |-> [version |-> v, body |-> Blank], synced |-> Empty] \in File
<1>1. Blank \in [Slots -> Records \cup {Hole}]
  BY DEF Blank
<1>2. \A v \in 0..5 : [version |-> v, body |-> Blank] \in Contents
  BY <1>1 DEF Contents
<1>3. Empty \in Contents
  BY <1>2 DEF Empty
<1> QED
  BY <1>2, <1>3 DEF File

(* A step of one run, or its death: the others' part of the state, the     *)
(* options and the records of the sources stay.                            *)
Alone(t) ==
  /\ UNCHANGED <<target, overwrite, store, original>>
  /\ \A u \in Tools : src'[u].recs = src[u].recs
  /\ \A u \in Tools \ {t} : /\ pc'[u] = pc[u] /\ live'[u] = live[u]
                            /\ count'[u] = count[u] /\ out'[u] = out[u]

(* A log is still one, with the same records, once it is opened and its    *)
(* torn record cut off.                                                    *)
LEMMA LogTypes ==
  ASSUME NEW s \in Log
  PROVE  /\ Opened(s) \in Log /\ Opened(s).recs = s.recs
         /\ [s EXCEPT !.torn = FALSE] \in Log /\ [s EXCEPT !.torn = FALSE].recs = s.recs
         /\ s.recs \in Seq(Records)
  BY DEF Log, Opened

(* The places that a run has stay places of its source. *)
LEMMA IndexedType ==
  ASSUME NEW recs \in Seq(Records), NEW places \in SUBSET DOMAIN recs, NEW n \in Nat, n < Len(recs)
  PROVE  Indexed(recs, places, n + 1) \subseteq DOMAIN recs
<1>1. n + 1 \in DOMAIN recs
  OBVIOUS
<1> QED
  BY <1>1 DEF Indexed

(* The parts of the state that the steps before CreateTemp leave alone. *)
LEMMA EarlySteps ==
  ASSUME TypeOK, NEW t \in Tools, Stat(t) \/ OpenSource(t) \/ ScanRecord(t) \/ ScanEnds(t)
  PROVE  TypeOK' /\ Alone(t)
<1>1. faults' \in 0..MaxFaults
  BY FaultType DEF Stat, OpenSource, ScanRecord, ScanEnds
<1>2. CASE Stat(t)
  BY <1>1, <1>2 DEF Stat, Goto, Steady, TypeOK, Alone, args, disk, Points
<1>3. src[t] \in Log /\ src[t].recs \in Seq(Records)
  BY LogTypes DEF TypeOK
<1>4. CASE OpenSource(t)
  <2>1. CASE src' = [src EXCEPT ![t] = Opened(src[t])] /\ \E p \in {"scan", "failed"} : Goto(t, p)
    <3>1. src' \in [Tools -> Log] /\ \A u \in Tools : src'[u].recs = src[u].recs
      BY <1>3, <2>1, LogTypes DEF TypeOK
    <3> QED
      BY <1>1, <1>4, <2>1, <3>1 DEF OpenSource, Goto, TypeOK, Alone, disk, Points
  <2>2. CASE src' = src /\ Goto(t, "failed")
    BY <1>1, <1>4, <2>2 DEF OpenSource, Goto, TypeOK, Alone, disk, Points
  <2> QED
    BY <1>4, <2>1, <2>2 DEF OpenSource
<1>5. CASE ScanRecord(t)
  <2>1. CASE /\ UNCHANGED pc /\ live' = [live EXCEPT ![t] = Indexed(src[t].recs, @, count[t] + 1)]
             /\ count' = [count EXCEPT ![t] = @ + 1]
    <3>1. Indexed(src[t].recs, live[t], count[t] + 1) \subseteq DOMAIN src[t].recs
      BY <1>3, <1>5, IndexedType DEF ScanRecord, TypeOK
    <3> QED
      BY <1>1, <1>5, <2>1, <3>1 DEF ScanRecord, Steady, TypeOK, Alone, args, disk
  <2>2. CASE Goto(t, "failed") /\ UNCHANGED <<live, count>>
    BY <1>1, <1>5, <2>2 DEF ScanRecord, Goto, Steady, TypeOK, Alone, args, disk, Points
  <2> QED
    BY <1>5, <2>1, <2>2 DEF ScanRecord
<1>6. CASE ScanEnds(t)
  <2>1. CASE src' = [src EXCEPT ![t].torn = FALSE] /\ Goto(t, "clean") /\ count' = [count EXCEPT ![t] = 0]
    <3>1. src' \in [Tools -> Log] /\ \A u \in Tools : src'[u].recs = src[u].recs
      BY <1>3, <2>1, LogTypes DEF TypeOK
    <3> QED
      BY <1>1, <1>6, <2>1, <3>1 DEF ScanEnds, Goto, TypeOK, Alone, disk, Points
  <2>2. CASE UNCHANGED <<src, count>> /\ Goto(t, "failed")
    BY <1>1, <1>6, <2>2 DEF ScanEnds, Goto, TypeOK, Alone, disk, Points
  <2> QED
    BY <1>6, <2>1, <2>2 DEF ScanEnds
<1> QED
  BY <1>2, <1>4, <1>5, <1>6

(* The steps that change names only. *)
LEMMA NameSteps ==
  ASSUME TypeOK, NEW t \in Tools,
         RemoveTemp(t) \/ RenameTemp(t) \/ SyncDirectory(t) \/ DropTemp(t)
  PROVE  TypeOK' /\ Alone(t)
<1>1. faults' \in 0..MaxFaults
  BY FaultType DEF RemoveTemp, RenameTemp, SyncDirectory, DropTemp
<1>2. /\ [Dir EXCEPT !["tmp"] = NoFile] \in Directory
      /\ [dst |-> Dir["tmp"], tmp |-> NoFile] \in Directory
  BY DirType, DirectoryType
<1>3. dirs' \in Seq(Directory) /\ dirs' # <<>>
  <2>1. CASE \E d \in Directory : SetDir(d)
    BY <2>1, SetDirStep
  <2>2. CASE dirs' = <<Dir>>
    BY <2>2, DirType
  <2>3. CASE dirs' = dirs
    BY <2>3 DEF TypeOK
  <2> QED
    BY <1>2, <2>1, <2>2, <2>3 DEF RemoveTemp, RenameTemp, SyncDirectory, DropTemp
<1>4. /\ \E p \in Points : Goto(t, p)
      /\ Steady /\ UNCHANGED <<files, live, count, out>>
  BY DEF RemoveTemp, RenameTemp, SyncDirectory, DropTemp, Points
<1> QED
  BY <1>1, <1>3, <1>4 DEF Goto, Steady, TypeOK, Alone, args

(* The first free file is free: nothing has its number. *)
LEMMA NewIs ==
  ASSUME NEW i \in New
  PROVE  /\ i \in Inodes /\ i # original /\ i # store
         /\ \A j \in DOMAIN dirs : \A n \in Names : dirs[j][n] # i
         /\ \A t \in Tools : out[t] # i
  BY DEF New, Free

(* Creating the temporary file. *)
LEMMA CreateSteps ==
  ASSUME TypeOK, NEW t \in Tools, CreateTemp(t)
  PROVE  TypeOK' /\ Alone(t)
<1>1. faults' \in 0..MaxFaults
  BY FaultType DEF CreateTemp
<1>2. Steady /\ UNCHANGED <<live, count>> /\ \E p \in Points : Goto(t, p)
  BY DEF CreateTemp, Points
<1>3. CASE UNCHANGED <<disk, out>>
  BY <1>1, <1>2, <1>3 DEF Goto, Steady, TypeOK, Alone, args, disk
<1>4. ASSUME NEW v \in 0..5, Create(t, [version |-> v, body |-> Blank])
      PROVE  TypeOK' /\ Alone(t)
  <2> DEFINE c == [version |-> v, body |-> Blank]
  <2>1. c \in Contents /\ [now |-> c, synced |-> Empty] \in File
    BY EmptyTypes
  <2> HIDE DEF c
  <2>2. CASE /\ Dir["tmp"] # NoFile /\ out' = [out EXCEPT ![t] = Dir["tmp"]]
             /\ files' = [files EXCEPT ![Dir["tmp"]].now = c] /\ UNCHANGED dirs
    <3>1. Dir["tmp"] \in Inodes /\ files[Dir["tmp"]] \in File
      BY <2>2, DirType DEF TypeOK
    <3>2. [files[Dir["tmp"]] EXCEPT !.now = c] \in File
      BY <2>1, <3>1, FileTypes
    <3>3. files' \in [Inodes -> File]
      BY <2>2, <3>2 DEF TypeOK
    <3> QED
      BY <1>1, <1>2, <2>2, <3>1, <3>3 DEF Goto, Steady, TypeOK, Alone, args
  <2>3. ASSUME NEW i \in New, out' = [out EXCEPT ![t] = i],
               files' = [files EXCEPT ![i] = [now |-> c, synced |-> Empty]],
               SetDir([Dir EXCEPT !["tmp"] = i])
        PROVE  TypeOK' /\ Alone(t)
    <3>1. i \in Inodes /\ [Dir EXCEPT !["tmp"] = i] \in Directory
      BY NewIs, DirType, DirectoryType
    <3>2. dirs' \in Seq(Directory) /\ dirs' # <<>>
      BY <2>3, <3>1, SetDirStep
    <3>3. files' \in [Inodes -> File]
      BY <2>1, <2>3 DEF TypeOK
    <3> QED
      BY <1>1, <1>2, <2>3, <3>1, <3>2, <3>3 DEF Goto, Steady, TypeOK, Alone, args
  <2> QED
    BY <1>4, <2>2, <2>3 DEF Create, c
<1> QED
  BY <1>3, <1>4 DEF CreateTemp

(* The steps that write to the temporary file. *)
LEMMA FileSteps ==
  ASSUME TypeOK, NEW t \in Tools, WriteRecord(t) \/ WriteVersion(t) \/ SyncTemp(t)
  PROVE  TypeOK' /\ Alone(t)
<1>1. faults' \in 0..MaxFaults
  BY FaultType DEF WriteRecord, WriteVersion, SyncTemp
<1>2. Steady /\ UNCHANGED <<dirs, out>> /\ (pc' = pc \/ \E p \in Points : Goto(t, p))
  BY DEF WriteRecord, WriteVersion, SyncTemp, Points
<1>3. CASE UNCHANGED <<files, live, count>>
  BY <1>1, <1>2, <1>3 DEF Goto, Steady, TypeOK, Alone, args
<1>4. out[t] \in Inodes => files[out[t]] \in File
  BY DEF TypeOK
<1>5. ASSUME NEW i \in live[t], count[t] < MaxRecords, live' = [live EXCEPT ![t] = @ \ {i}],
             count' = [count EXCEPT ![t] = @ + 1],
             files' = [files EXCEPT ![out[t]].now.body[count[t] + 1] = src[t].recs[i]]
      PROVE  TypeOK' /\ Alone(t)
  <2>1. src[t].recs \in Seq(Records) /\ i \in DOMAIN src[t].recs
    BY LogTypes DEF TypeOK
  <2>2. src[t].recs[i] \in Records /\ count[t] \in Nat /\ count[t] + 1 \in Slots
    BY <1>5, <2>1, BoundAssumption DEF TypeOK, Slots
  <2>3. out[t] \in Inodes =>
          [files[out[t]] EXCEPT !.now.body[count[t] + 1] = src[t].recs[i]] \in File
    BY <1>4, <2>2, FileTypes
  <2>4. files' \in [Inodes -> File]
    BY <1>5, <2>3 DEF TypeOK
  <2> QED
    BY <1>1, <1>2, <1>5, <2>2, <2>4 DEF Goto, Steady, TypeOK, Alone, args
<1>6. CASE files' = [files EXCEPT ![out[t]].now.version = target] /\ UNCHANGED <<live, count>>
  <2>0. target \in 0..5
    BY DEF TypeOK
  <2>1. out[t] \in Inodes => [files[out[t]] EXCEPT !.now.version = target] \in File
    BY <1>4, <2>0, FileTypes
  <2>2. files' \in [Inodes -> File]
    BY <1>6, <2>1 DEF TypeOK
  <2> QED
    BY <1>1, <1>2, <1>6, <2>2 DEF Goto, Steady, TypeOK, Alone, args
<1>7. CASE files' = [files EXCEPT ![out[t]].synced = files[out[t]].now] /\ UNCHANGED <<live, count>>
  <2>1. out[t] \in Inodes => [files[out[t]] EXCEPT !.synced = files[out[t]].now] \in File
    BY <1>4, FileTypes
  <2>2. files' \in [Inodes -> File]
    BY <1>7, <2>1 DEF TypeOK
  <2> QED
    BY <1>1, <1>2, <1>7, <2>2 DEF Goto, Steady, TypeOK, Alone, args
<1> QED
  BY <1>3, <1>5, <1>6, <1>7 DEF WriteRecord, WriteVersion, SyncTemp

(* A run that is repeated or dies has nothing from before. *)
LEMMA FreshSteps ==
  ASSUME TypeOK, NEW t \in Tools, Repeat(t) \/ Crash(t)
  PROVE  /\ TypeOK' /\ Alone(t)
         /\ pc' = [pc EXCEPT ![t] = pc'[t]] /\ pc'[t] \in {"start", "failed"}
         /\ live'[t] = {} /\ count'[t] = 0 /\ UNCHANGED disk
<1>1. faults' \in 0..MaxFaults /\ deaths' \in 0..MaxDeaths
  BY BoundAssumption DEF TypeOK, Repeat, Crash, Steady
<1>2. /\ Goto(t, "start") \/ Goto(t, "failed")
      /\ live' = [live EXCEPT ![t] = {}] /\ count' = [count EXCEPT ![t] = 0]
      /\ out' = [out EXCEPT ![t] = NoFile] /\ UNCHANGED <<args, disk, store, original>>
  BY DEF Repeat, Crash, Steady
<1> QED
  BY <1>1, <1>2 DEF Goto, TypeOK, Alone, args, disk, Points

(* A power failure: the runs are over, one of the directories is there,    *)
(* and each of its files is one that it may leave.                         *)
LEMMA PowerIs ==
  ASSUME TypeOK, PowerFailure
  PROVE  /\ TypeOK' /\ UNCHANGED <<target, overwrite, original, src>>
         /\ \A t \in Tools : live'[t] = {} /\ count'[t] = 0 /\ pc'[t] \in {pc[t], "failed"}
         /\ \A t \in Tools : pc'[t] \in {"done", "failed"}
         /\ \E j \in DOMAIN dirs :
              /\ dirs' = <<dirs[j]>>
              /\ \A n \in Names : dirs[j][n] # NoFile =>
                   \E c \in Leftovers(files[dirs[j][n]]) :
                     files'[dirs[j][n]] = [now |-> c, synced |-> c]
<1>1. /\ deaths < MaxDeaths /\ deaths' = deaths + 1
      /\ pc' = [t \in Tools |-> IF pc[t] = "done" THEN pc[t] ELSE "failed"]
      /\ store' = NoFile
      /\ live' = [t \in Tools |-> {}] /\ count' = [t \in Tools |-> 0]
      /\ out' = [t \in Tools |-> NoFile]
      /\ UNCHANGED <<src, target, overwrite, original, faults>>
  BY DEF PowerFailure, args
<1> DEFINE named(j) == {dirs[j][n] : n \in Names} \ {NoFile}
<1>2. PICK j \in DOMAIN dirs :
        \E g \in [named(j) -> UNION {Leftovers(files[i]) : i \in named(j)}] :
           /\ \A i \in named(j) : g[i] \in Leftovers(files[i])
           /\ dirs' = <<dirs[j]>>
           /\ files' = [i \in Inodes |-> LET c == IF i \in named(j) THEN g[i] ELSE Empty
                                          IN  [now |-> c, synced |-> c]]
  BY DEF PowerFailure
<1>3. PICK g : /\ \A i \in named(j) : g[i] \in Leftovers(files[i])
               /\ dirs' = <<dirs[j]>>
               /\ files' = [i \in Inodes |-> LET c == IF i \in named(j) THEN g[i] ELSE Empty
                                              IN  [now |-> c, synced |-> c]]
  BY <1>2
<1>4. dirs[j] \in Directory
  BY DEF TypeOK
<1>5. \A n \in Names : dirs[j][n] \in Inodes \cup {NoFile}
  BY <1>4 DEF Directory
<1>6. named(j) \subseteq Inodes
  BY <1>5
<1>7. \A i \in named(j) : g[i] \in Contents
  <2>1. \A i \in named(j) : files[i] \in File
    BY <1>6 DEF TypeOK
  <2> HIDE DEF named
  <2> QED
    BY <1>3, <2>1, LeftoversIs
<1>8. \A n \in Names : dirs[j][n] # NoFile =>
        \E c \in Leftovers(files[dirs[j][n]]) : files'[dirs[j][n]] = [now |-> c, synced |-> c]
  <2> SUFFICES ASSUME NEW n \in Names, dirs[j][n] # NoFile
               PROVE  \E c \in Leftovers(files[dirs[j][n]]) :
                        files'[dirs[j][n]] = [now |-> c, synced |-> c]
    OBVIOUS
  <2>1. dirs[j][n] \in named(j)
    OBVIOUS
  <2> HIDE DEF named
  <2> QED
    BY <1>3, <1>6, <2>1
<1> HIDE DEF named
<1>9. ASSUME NEW i \in Inodes
      PROVE  files'[i] \in File
  <2>1. CASE i \in named(j)
    <3>1. files'[i] = [now |-> g[i], synced |-> g[i]]
      BY <1>3, <2>1
    <3> QED
      BY <1>7, <2>1, <3>1 DEF File
  <2>2. CASE i \notin named(j)
    <3>1. files'[i] = [now |-> Empty, synced |-> Empty]
      BY <1>3, <2>2
    <3> QED
      BY <3>1, EmptyTypes
  <2> QED
    BY <2>1, <2>2
<1>10. files' \in [Inodes -> File]
  <2>1. files' = [i \in Inodes |-> files'[i]]
    BY <1>3
  <2> QED
    BY <1>9, <2>1
<1>11. dirs' \in Seq(Directory) /\ dirs' # <<>>
  BY <1>3, <1>4
<1>12. deaths' \in 0..MaxDeaths
  BY <1>1, BoundAssumption DEF TypeOK
<1>13. TypeOK'
  BY <1>1, <1>10, <1>11, <1>12 DEF TypeOK, Points
<1>14. \A t \in Tools : live'[t] = {} /\ count'[t] = 0 /\ pc'[t] \in {pc[t], "failed"}
  BY <1>1
<1>15. \A t \in Tools : pc'[t] \in {"done", "failed"}
  BY <1>1
<1> QED
  BY <1>1, <1>3, <1>8, <1>13, <1>14, <1>15

(* Others at the destination: a file appears there, under a number that    *)
(* was free, or a store is opened.                                         *)
LEMMA OtherSteps ==
  ASSUME TypeOK, CreateDst \/ OpenDst
  PROVE  /\ TypeOK' /\ UNCHANGED <<args, files, pc, live, count, out>>
         /\ \/ /\ OthersCreate /\ original = NoFile
               /\ \E d \in Directory : /\ dirs' = <<d>> /\ Dir' = d /\ original' = d["dst"]
                                       /\ d["dst"] \in New /\ d["tmp"] = Dir["tmp"]
            \/ UNCHANGED <<dirs, original>>
<1>1. CASE CreateDst
  <2>1. PICK i \in New : original' = i /\ dirs' = <<[Dir EXCEPT !["dst"] = i]>>
    BY <1>1 DEF CreateDst
  <2> DEFINE d == [Dir EXCEPT !["dst"] = i]
  <2>2. i \in Inodes
    BY NewIs
  <2>3. d \in Directory /\ d["dst"] = i /\ d["tmp"] = Dir["tmp"]
    BY <2>2, DirType, DirectoryType
  <2>4. dirs' = <<d>>
    BY <2>1
  <2> HIDE DEF d
  <2>5. dirs' \in Seq(Directory) /\ dirs' # <<>> /\ Dir' = d
    BY <2>3, <2>4 DEF Dir
  <2>6. TypeOK' /\ UNCHANGED <<args, files, pc, live, count, out>>
    BY <1>1, <2>1, <2>2, <2>5 DEF CreateDst, TypeOK, args
  <2> QED
    BY <1>1, <2>1, <2>3, <2>4, <2>5, <2>6 DEF CreateDst
<1>2. CASE OpenDst
  BY <1>2, DirType DEF OpenDst, TypeOK, args, disk
<1> QED
  BY <1>1, <1>2

(* Downgrade starts with its variables in their types. *)
LEMMA TypeInit == Init => TypeOK
<1> SUFFICES ASSUME Init PROVE TypeOK
  OBVIOUS
<1>1. {store, original} \subseteq Inodes \cup {NoFile}
  BY BoundAssumption DEF Init, Inodes
<1>2. dirs \in Seq(Directory) /\ dirs # <<>>
  BY <1>1, DirectoryType DEF Init
<1>3. files \in [Inodes -> File]
  BY EmptyTypes DEF Init
<1>4. src \in [Tools -> Log]
  BY SourceAssumption DEF Init
<1>5. faults \in 0..MaxFaults /\ deaths \in 0..MaxDeaths
  BY BoundAssumption DEF Init
<1> QED
  BY <1>1, <1>2, <1>3, <1>4, <1>5 DEF Init, TypeOK, Points

(* A step of a run, or its death. *)
LEMMA RunSteps ==
  ASSUME TypeOK, NEW t \in Tools, Run(t) \/ Crash(t)
  PROVE  TypeOK' /\ Alone(t)
  BY EarlySteps, NameSteps, CreateSteps, FileSteps, FreshSteps DEF Run

(* Every step keeps the variables in their types. *)
LEMMA TypeStep == TypeOK /\ [Next]_vars => TypeOK'
<1> SUFFICES ASSUME TypeOK, [Next]_vars PROVE TypeOK'
  OBVIOUS
<1>1. CASE UNCHANGED vars
  BY <1>1 DEF TypeOK, vars, args, disk
<1> QED
  BY <1>1, RunSteps, PowerIs, OtherSteps DEF Next

(* Every variable of a Downgrade keeps its type, for any number of runs,   *)
(* any sources and any number of files, faults and deaths.                 *)
THEOREM TypeCorrect == Spec => []TypeOK
  BY TypeInit, TypeStep, PTL DEF Spec

-----------------------------------------------------------------------------
(* The scan, and what the format can express.                              *)

(* One record more: Put and Delete of the index on the scan's way leave    *)
(* the places of the last records so far.                                  *)
LEMMA FoundStep ==
  ASSUME NEW recs \in Seq(Records), NEW n \in Nat, n < Len(recs)
  PROVE  Indexed(recs, Found(recs, n), n + 1) = Found(recs, n + 1)
<1>1. ASSUME NEW i \in Indexed(recs, Found(recs, n), n + 1) PROVE i \in Found(recs, n + 1)
  <2>1. CASE i = n + 1 /\ ~recs[n + 1].deleted
    BY <2>1 DEF Found
  <2>2. CASE i \in Found(recs, n) /\ recs[i].key # recs[n + 1].key
    BY <2>2 DEF Found
  <2> QED
    BY <1>1, <2>1, <2>2 DEF Indexed
<1>2. ASSUME NEW i \in Found(recs, n + 1) PROVE i \in Indexed(recs, Found(recs, n), n + 1)
  <2>1. CASE i = n + 1
    BY <1>2, <2>1 DEF Found, Indexed
  <2>2. CASE i # n + 1
    <3>1. i \in 1..n /\ n + 1 \in i + 1..n + 1
      BY <2>2 DEF Found
    <3>2. i \in Found(recs, n) /\ recs[n + 1].key # recs[i].key
      BY <3>1 DEF Found
    <3> QED
      BY <3>2 DEF Indexed
  <2> QED
    BY <2>1, <2>2
<1> QED
  BY <1>1, <1>2

(* Before the first record nothing is found, after the last what the log   *)
(* stands for.                                                             *)
LEMMA FoundEnds ==
  ASSUME NEW recs \in Seq(Records)
  PROVE  Found(recs, 0) = {} /\ Found(recs, Len(recs)) = Survivors(recs)
<1>1. Found(recs, 0) = {}
  BY DEF Found
<1>2. ASSUME NEW i \in DOMAIN recs
      PROVE  Survives(recs, i) <=>
               ~recs[i].deleted /\ \A j \in i + 1..Len(recs) : recs[j].key # recs[i].key
  BY DEF Survives
<1>3. DOMAIN recs = 1..Len(recs)
  OBVIOUS
<1> QED
  BY <1>1, <1>2, <1>3 DEF Found, Survivors

(* Where a run is, and the places that it has: those of the scan so far,   *)
(* then of all that the log stands for, but for those it has written; what *)
(* it has written is what the format can express.                          *)
Scanned(t) ==
  LET recs == src[t].recs
  IN  /\ pc[t] \in {"start", "open"} => live[t] = {} /\ count[t] = 0
      /\ pc[t] = "scan" => count[t] <= Len(recs) /\ live[t] = Found(recs, count[t])
      /\ pc[t] \in {"clean", "create"} => live[t] = Survivors(recs) /\ count[t] = 0
      /\ pc[t] = "write" => /\ live[t] \subseteq Survivors(recs)
                            /\ \A i \in Survivors(recs) \ live[t] : CanExpress(recs[i])
      /\ pc[t] \in {"sync", "rename", "renamed", "done"} =>
           \A i \in Survivors(recs) : CanExpress(recs[i])

(* The runs that do not move keep what they have. *)
LEMMA ScannedOthers ==
  ASSUME NEW t \in Tools, NEW u \in Tools \ {t}, Alone(t), Scanned(u)
  PROVE  Scanned(u)'
  BY DEF Scanned, Alone, CanExpress

(* A step of a run. *)
LEMMA ScannedRun ==
  ASSUME TypeOK, NEW t \in Tools, Run(t) \/ Crash(t), Scanned(t)
  PROVE  Scanned(t)'
<1> DEFINE recs == src[t].recs
           All == \A i \in Survivors(recs) : CanExpress(recs[i])
<1>1. /\ recs \in Seq(Records) /\ Len(recs) \in Nat /\ count[t] \in Nat
      /\ t \in DOMAIN pc /\ t \in DOMAIN live /\ t \in DOMAIN count
  <2>1. recs \in Seq(Records)
    BY LogTypes DEF TypeOK
  <2>2. count[t] \in Nat /\ t \in DOMAIN pc /\ t \in DOMAIN live /\ t \in DOMAIN count
    BY DEF TypeOK
  <2> QED
    BY <2>1, <2>2
<1>2. /\ src'[t].recs = recs /\ target' = target
      /\ \A r : CanExpress(r)' = CanExpress(r)
  BY RunSteps DEF Alone, CanExpress
<1> HIDE DEF recs
<1>3. ASSUME pc'[t] \in {"drop", "failed", "refused"} PROVE Scanned(t)'
  BY <1>3 DEF Scanned
<1>4. CASE Stat(t)
  BY <1>1, <1>3, <1>4 DEF Stat, Goto, Scanned
<1>5. CASE OpenSource(t)
  <2>1. pc'[t] \in {"scan", "failed"} /\ live'[t] = {} /\ count'[t] = 0
    BY <1>1, <1>5 DEF OpenSource, Goto, Scanned
  <2>2. CASE pc'[t] = "scan"
    BY <1>1, <1>2, <2>1, <2>2, FoundEnds DEF Scanned
  <2> QED
    BY <1>3, <2>1, <2>2
<1>6. CASE ScanRecord(t)
  <2>1. CASE pc'[t] = "failed"
    BY <1>3, <2>1
  <2>2. CASE pc'[t] # "failed"
    <3>1. /\ pc[t] = "scan" /\ pc'[t] = "scan" /\ count[t] < Len(recs)
          /\ live'[t] = Indexed(recs, live[t], count[t] + 1) /\ count'[t] = count[t] + 1
      BY <1>1, <1>6, <2>2 DEF ScanRecord, Goto, recs
    <3>2. live[t] = Found(recs, count[t])
      BY <3>1 DEF Scanned, recs
    <3>3. live'[t] = Found(recs, count[t] + 1)
      BY <1>1, <3>1, <3>2, FoundStep
    <3>4. count'[t] <= Len(recs)
      BY <1>1, <3>1
    <3> QED
      BY <1>2, <3>1, <3>3, <3>4 DEF Scanned
  <2> QED
    BY <2>1, <2>2
<1>7. CASE ScanEnds(t)
  <2>1. CASE pc'[t] = "failed"
    BY <1>3, <2>1
  <2>2. CASE pc'[t] # "failed"
    <3>1. /\ pc[t] = "scan" /\ pc'[t] = "clean" /\ count[t] = Len(recs)
          /\ live'[t] = live[t] /\ count'[t] = 0
      BY <1>1, <1>7, <2>2 DEF ScanEnds, Goto, recs
    <3>2. live'[t] = Survivors(recs)
      BY <1>1, <3>1, FoundEnds DEF Scanned, recs
    <3> QED
      BY <1>2, <3>1, <3>2 DEF Scanned
  <2> QED
    BY <2>1, <2>2
<1>8. CASE RemoveTemp(t) \/ CreateTemp(t)
  <2>1. /\ pc[t] \in {"clean", "create"} /\ live'[t] = live[t] /\ count'[t] = count[t]
        /\ pc'[t] \in {"create", "write", "drop", "failed"}
    BY <1>1, <1>8 DEF RemoveTemp, CreateTemp, Goto
  <2>2. live'[t] = Survivors(recs) /\ count'[t] = 0
    BY <2>1 DEF Scanned, recs
  <2> QED
    BY <1>2, <2>1, <2>2 DEF Scanned
<1>9. CASE WriteRecord(t)
  <2>1. CASE pc'[t] = "drop"
    BY <1>3, <2>1
  <2>2. CASE pc'[t] # "drop"
    <3>1. PICK i \in live[t] : /\ CanExpress(recs[i]) /\ live'[t] = live[t] \ {i}
                               /\ pc[t] = "write" /\ pc'[t] = "write"
      BY <1>1, <1>9, <2>2 DEF WriteRecord, Goto, recs
    <3>2. live'[t] \subseteq Survivors(recs)
      BY <3>1 DEF Scanned, recs
    <3>3. \A k \in Survivors(recs) \ live'[t] : CanExpress(recs[k])
      BY <3>1 DEF Scanned, recs
    <3> QED
      BY <1>2, <3>1, <3>2, <3>3 DEF Scanned
  <2> QED
    BY <2>1, <2>2
<1>10. CASE WriteVersion(t)
  <2>1. pc[t] = "write" /\ live[t] = {} /\ pc'[t] \in {"sync", "drop"}
    BY <1>1, <1>10 DEF WriteVersion, Goto
  <2>2. All
    BY <2>1 DEF Scanned, recs
  <2> QED
    BY <1>2, <2>1, <2>2 DEF Scanned
<1>11. CASE SyncTemp(t) \/ RenameTemp(t) \/ SyncDirectory(t) \/ DropTemp(t)
  <2>1. /\ pc[t] \in {"sync", "rename", "renamed", "drop"}
        /\ pc'[t] \in {"rename", "renamed", "done", "drop", "failed"}
        /\ pc[t] = "drop" => pc'[t] = "failed"
    BY <1>1, <1>11 DEF SyncTemp, RenameTemp, SyncDirectory, DropTemp, Goto
  <2>2. CASE pc[t] = "drop"
    BY <1>3, <2>1, <2>2
  <2>3. CASE pc[t] # "drop"
    <3>1. All
      BY <2>1, <2>3 DEF Scanned, recs
    <3> QED
      BY <1>2, <2>1, <3>1 DEF Scanned
  <2> QED
    BY <2>2, <2>3
<1>12. CASE Repeat(t) \/ Crash(t)
  <2>1. pc'[t] \in {"start", "failed"} /\ live'[t] = {} /\ count'[t] = 0
    BY <1>12, FreshSteps
  <2> QED
    BY <2>1 DEF Scanned
<1> QED
  BY <1>4, <1>5, <1>6, <1>7, <1>8, <1>9, <1>10, <1>11, <1>12 DEF Run

(* Every step keeps every run's places. *)
LEMMA ScannedStep ==
  ASSUME TypeOK, [Next]_vars, \A t \in Tools : Scanned(t)
  PROVE  \A t \in Tools : Scanned(t)'
<1>1. ASSUME NEW t \in Tools, Run(t) \/ Crash(t) PROVE \A u \in Tools : Scanned(u)'
  BY <1>1, RunSteps, ScannedRun, ScannedOthers
<1>2. CASE PowerFailure
  <2> SUFFICES ASSUME NEW t \in Tools PROVE Scanned(t)'
    OBVIOUS
  <2>1. UNCHANGED <<target, src>> /\ pc'[t] \in {pc[t], "failed"} /\ pc'[t] \in {"done", "failed"}
    BY <1>2, PowerIs
  <2>2. \A r : CanExpress(r)' = CanExpress(r)
    BY <2>1 DEF CanExpress
  <2> QED
    BY <2>1, <2>2 DEF Scanned
<1>3. CASE CreateDst \/ OpenDst \/ UNCHANGED vars
  <2>1. UNCHANGED <<args, pc, live, count>>
    BY <1>3, OtherSteps DEF vars
  <2> QED
    BY <2>1 DEF Scanned, CanExpress, args
<1> QED
  BY <1>1, <1>2, <1>3 DEF Next

(* A run has places of nothing at the start. *)
LEMMA ScannedInit == Init => \A t \in Tools : Scanned(t)
  BY DEF Init, Scanned

(* Only the rename of the temporary file gives the destination another     *)
(* file: no other step of a run adds a directory where it has one.         *)
LEMMA RunLeavesDst ==
  ASSUME TypeOK, NEW t \in Tools, Run(t) \/ Crash(t), pc[t] # "rename"
  PROVE  /\ Dir'["dst"] = Dir["dst"]
         /\ \A j \in DOMAIN dirs' : \E i \in DOMAIN dirs : dirs'[j]["dst"] = dirs[i]["dst"]
<1>1. CASE dirs' = dirs
  BY <1>1 DEF Dir
<1>2. CASE dirs' = <<Dir>>
  BY <1>2, DirType DEF Dir
<1>3. ASSUME NEW i \in Inodes \cup {NoFile}, SetDir([Dir EXCEPT !["tmp"] = i])
      PROVE  /\ Dir'["dst"] = Dir["dst"]
             /\ \A j \in DOMAIN dirs' : \E k \in DOMAIN dirs : dirs'[j]["dst"] = dirs[k]["dst"]
  <2> DEFINE d == [Dir EXCEPT !["tmp"] = i]
  <2>1. d \in Directory /\ d["dst"] = Dir["dst"]
    BY DirType, DirectoryType
  <2> HIDE DEF d
  <2>2. /\ Dir' = d
        /\ \A j \in DOMAIN dirs' : dirs'[j] = d \/ \E k \in DOMAIN dirs : dirs'[j] = dirs[k]
    BY <1>3, <2>1, SetDirStep DEF d
  <2> QED
    BY <2>1, <2>2, DirType
<1>4. \/ dirs' = dirs \/ dirs' = <<Dir>>
      \/ \E i \in Inodes \cup {NoFile} : SetDir([Dir EXCEPT !["tmp"] = i])
  <2>1. CASE Stat(t) \/ OpenSource(t) \/ ScanRecord(t) \/ ScanEnds(t) \/ Repeat(t) \/ Crash(t)
    BY <2>1 DEF Stat, OpenSource, ScanRecord, ScanEnds, Repeat, Crash, disk
  <2>2. CASE CreateTemp(t)
    BY <2>2, NewIs DEF CreateTemp, Create, disk
  <2>3. CASE RemoveTemp(t) \/ DropTemp(t)
    BY <2>3 DEF RemoveTemp, DropTemp
  <2>4. CASE WriteRecord(t) \/ WriteVersion(t) \/ SyncTemp(t) \/ SyncDirectory(t)
    BY <2>4 DEF WriteRecord, WriteVersion, SyncTemp, SyncDirectory
  <2>5. ~RenameTemp(t)
    BY DEF RenameTemp
  <2> QED
    BY <2>1, <2>2, <2>3, <2>4, <2>5 DEF Run
<1> QED
  BY <1>1, <1>2, <1>3, <1>4

(* No run can express what its source stands for. *)
NoneFits == \A t \in Tools : \E i \in Survivors(src[t].recs) : ~CanExpress(src[t].recs[i])

(* Then no power failure leaves another file at the destination. *)
Stays == NoneFits => \A j \in DOMAIN dirs : dirs[j]["dst"] = original

ExpressInv == TypeOK /\ (\A t \in Tools : Scanned(t)) /\ Stays

(* The records of the sources and the target are given, so it is too which *)
(* runs can express theirs.                                                *)
LEMMA FitsStays ==
  ASSUME target' = target, \A t \in Tools : src'[t].recs = src[t].recs
  PROVE  NoneFits' = NoneFits
  BY DEF NoneFits, CanExpress

(* Every step keeps the destination where no run can express its source.   *)
LEMMA ExpressStep == ExpressInv /\ [Next]_vars => ExpressInv'
<1> SUFFICES ASSUME ExpressInv, [Next]_vars PROVE ExpressInv'
  OBVIOUS
<1>1. TypeOK /\ TypeOK' /\ (\A t \in Tools : Scanned(t)) /\ (\A t \in Tools : Scanned(t)')
  BY TypeStep, ScannedStep DEF ExpressInv
<1>2. SUFFICES ASSUME NoneFits' PROVE \A j \in DOMAIN dirs' : dirs'[j]["dst"] = original'
  BY <1>1 DEF ExpressInv, Stays
<1>3. ASSUME NEW t \in Tools, Run(t) \/ Crash(t)
      PROVE  \A j \in DOMAIN dirs' : dirs'[j]["dst"] = original'
  <2>1. Alone(t)
    BY <1>1, <1>3, RunSteps
  <2>2. NoneFits /\ original' = original
    BY <1>2, <2>1, FitsStays DEF Alone
  <2>3. pc[t] # "rename"
    BY <1>1, <2>2 DEF NoneFits, Scanned
  <2>4. \A j \in DOMAIN dirs' : \E i \in DOMAIN dirs : dirs'[j]["dst"] = dirs[i]["dst"]
    BY <1>1, <1>3, <2>3, RunLeavesDst
  <2> QED
    BY <2>2, <2>4 DEF ExpressInv, Stays
<1>4. CASE PowerFailure
  <2>1. /\ UNCHANGED <<target, original, src>>
        /\ \E j \in DOMAIN dirs : dirs' = <<dirs[j]>>
    BY <1>1, <1>4, PowerIs
  <2>2. NoneFits
    BY <1>2, <2>1, FitsStays
  <2> QED
    BY <2>1, <2>2 DEF ExpressInv, Stays
<1>5. CASE CreateDst \/ OpenDst
  <2>1. /\ UNCHANGED <<target, src>>
        /\ \/ \E d : dirs' = <<d>> /\ original' = d["dst"]
           \/ UNCHANGED <<dirs, original>>
    BY <1>1, <1>5, OtherSteps DEF args
  <2>2. NoneFits
    BY <1>2, <2>1, FitsStays
  <2>3. CASE UNCHANGED <<dirs, original>>
    BY <2>2, <2>3 DEF ExpressInv, Stays
  <2>4. CASE \E d : dirs' = <<d>> /\ original' = d["dst"]
    BY <2>4
  <2> QED
    BY <2>1, <2>3, <2>4
<1>6. CASE UNCHANGED vars
  <2>1. NoneFits
    BY <1>2, <1>6, FitsStays DEF vars, args
  <2> QED
    BY <1>6, <2>1 DEF ExpressInv, Stays, vars, disk
<1> QED
  BY <1>3, <1>4, <1>5, <1>6 DEF Next

(* "The tool refuses to write anything when a record holds data the target *)
(* format cannot express", for any number of runs at once.                 *)
THEOREM ExpressCorrect == Spec => []InexpressibleLeavesDst
<1>1. Init => ExpressInv
  <2> SUFFICES ASSUME Init PROVE ExpressInv
    OBVIOUS
  <2>1. \A j \in DOMAIN dirs : dirs[j]["dst"] = original
    BY DEF Init
  <2> QED
    BY <2>1, TypeInit, ScannedInit DEF ExpressInv, Stays
<1>2. ExpressInv => InexpressibleLeavesDst
  <2> SUFFICES ASSUME ExpressInv, \A t \in Tools : \E r \in LiveRecords(src[t]) : ~CanExpress(r)
               PROVE  Dir["dst"] = original
    BY DEF InexpressibleLeavesDst
  <2>1. NoneFits
    BY DEF NoneFits, LiveRecords, Survivors
  <2> QED
    BY <2>1, DirType DEF ExpressInv, Stays
<1> QED
  BY <1>1, <1>2, ExpressStep, PTL DEF Spec

-----------------------------------------------------------------------------
(* The destination is not replaced unasked.                                *)

(* Without Overwrite, and with a file at the destination from the start,   *)
(* every run is refused and no power failure brings another file there.    *)
Refused ==
  ~overwrite /\ original # NoFile =>
    /\ \A j \in DOMAIN dirs : dirs[j]["dst"] = original
    /\ \A t \in Tools : pc[t] \in {"start", "refused", "failed"}
    /\ store \in {NoFile, original}

RefusedInv == TypeOK /\ Refused

(* No step changes that, while nobody else creates the destination. *)
LEMMA RefusedStep ==
  ASSUME ~OthersCreate
  PROVE  RefusedInv /\ [Next]_vars => RefusedInv' /\ (original' = original /\ overwrite' = overwrite)
<1> SUFFICES ASSUME RefusedInv, [Next]_vars
             PROVE  RefusedInv' /\ original' = original /\ overwrite' = overwrite
  OBVIOUS
<1>1. TypeOK /\ TypeOK'
  BY TypeStep DEF RefusedInv
<1>2. original' = original /\ overwrite' = overwrite
  <2>1. ASSUME NEW t \in Tools, Run(t) \/ Crash(t) PROVE UNCHANGED <<original, overwrite>>
    BY <1>1, <2>1, RunSteps DEF Alone
  <2>2. CASE PowerFailure
    BY <1>1, <2>2, PowerIs
  <2>3. CASE CreateDst \/ OpenDst
    BY <1>1, <2>3, OtherSteps DEF args
  <2>4. CASE UNCHANGED vars
    BY <2>4 DEF vars, args
  <2> QED
    BY <2>1, <2>2, <2>3, <2>4 DEF Next
<1>3. SUFFICES ASSUME ~overwrite, original # NoFile
               PROVE  /\ \A j \in DOMAIN dirs' : dirs'[j]["dst"] = original
                      /\ \A t \in Tools : pc'[t] \in {"start", "refused", "failed"}
                      /\ store' \in {NoFile, original}
  BY <1>1, <1>2 DEF RefusedInv, Refused
<1>4. /\ \A j \in DOMAIN dirs : dirs[j]["dst"] = original
      /\ \A t \in Tools : pc[t] \in {"start", "refused", "failed"}
      /\ store \in {NoFile, original}
  BY <1>3 DEF RefusedInv, Refused
<1>5. Dir["dst"] = original
  BY <1>1, <1>4, DirType
<1>6. ASSUME NEW t \in Tools, Run(t) \/ Crash(t)
      PROVE  /\ \A j \in DOMAIN dirs' : dirs'[j]["dst"] = original
             /\ \A u \in Tools : pc'[u] \in {"start", "refused", "failed"}
             /\ store' \in {NoFile, original}
  <2>1. pc[t] \in {"start", "refused", "failed"}
    BY <1>4
  <2>2. \A j \in DOMAIN dirs' : \E i \in DOMAIN dirs : dirs'[j]["dst"] = dirs[i]["dst"]
    BY <1>1, <1>6, <2>1, RunLeavesDst
  <2>3. Alone(t)
    BY <1>1, <1>6, RunSteps
  <2>4. pc'[t] \in {"start", "refused", "failed"}
    <3>1. t \in DOMAIN pc
      BY <1>1 DEF TypeOK
    <3>2. Stat(t) \/ Repeat(t) \/ Crash(t)
      BY <1>6, <2>1 DEF Run, OpenSource, ScanRecord, ScanEnds, RemoveTemp, CreateTemp, WriteRecord,
                        WriteVersion, SyncTemp, RenameTemp, SyncDirectory, DropTemp
    <3> QED
      BY <1>3, <1>5, <3>1, <3>2 DEF Stat, Repeat, Crash, Goto
  <2> QED
    BY <1>4, <2>2, <2>3, <2>4 DEF Alone
<1>7. CASE PowerFailure
  <2>1. /\ \A t \in Tools : pc'[t] \in {pc[t], "failed"}
        /\ \E j \in DOMAIN dirs : dirs' = <<dirs[j]>>
    BY <1>1, <1>7, PowerIs
  <2>2. store' = NoFile
    BY <1>7 DEF PowerFailure
  <2>3. \A t \in Tools : pc'[t] \in {"start", "refused", "failed"}
    BY <1>4, <2>1
  <2> QED
    BY <1>4, <2>1, <2>2, <2>3
<1>8. CASE CreateDst \/ OpenDst
  <2>1. UNCHANGED <<pc, dirs>>
    BY <1>1, <1>8, OtherSteps
  <2>2. store' \in {NoFile, original}
    BY <1>3, <1>4, <1>5, <1>8 DEF CreateDst, OpenDst
  <2> QED
    BY <1>4, <2>1, <2>2
<1>9. CASE UNCHANGED vars
  BY <1>4, <1>9 DEF vars, disk
<1> QED
  BY <1>6, <1>7, <1>8, <1>9 DEF Next

(* A run is refused, or there is nothing at the destination. *)
LEMMA RefusedInit == Init => RefusedInv
<1> SUFFICES ASSUME Init PROVE RefusedInv
  OBVIOUS
<1>1. \A j \in DOMAIN dirs : dirs[j]["dst"] = original
  BY DEF Init
<1> QED
  BY <1>1, TypeInit DEF Init, RefusedInv, Refused

(* DowngradeOptions.Overwrite: "Without it, Downgrade refuses rather than  *)
(* replace a file it did not create", unless the file appears while it     *)
(* runs, for any number of runs at once.                                   *)
THEOREM ReplaceCorrect ==
  ASSUME ~OthersCreate
  PROVE  Spec => NeverReplaces
<1>1. RefusedInv /\ [Next]_vars =>
        [~overwrite /\ Dir["dst"] = original /\ original # NoFile => Dir'["dst"] = original]_vars
  <2> SUFFICES ASSUME RefusedInv, [Next]_vars, ~overwrite, original # NoFile
               PROVE  Dir'["dst"] = original
    OBVIOUS
  <2>1. RefusedInv' /\ original' = original /\ overwrite' = overwrite
    BY RefusedStep
  <2>2. \A j \in DOMAIN dirs' : dirs'[j]["dst"] = original
    BY <2>1 DEF RefusedInv, Refused
  <2>3. Len(dirs') \in DOMAIN dirs'
    <3>1. dirs' \in Seq(Directory) /\ dirs' # <<>>
      BY <2>1 DEF RefusedInv, TypeOK
    <3> QED
      BY <3>1
  <2> QED
    BY <2>2, <2>3 DEF Dir
<1>2. RefusedInv /\ [Next]_vars => RefusedInv'
  BY RefusedStep
<1> QED
  BY <1>1, <1>2, RefusedInit, PTL DEF Spec, NeverReplaces

(* A store is opened on what was at the destination first. *)
LEMMA StoreStep ==
  ASSUME ~OthersCreate, RefusedInv, store \in {NoFile, original}, [Next]_vars
  PROVE  store' \in {NoFile, original'}
<1>1. TypeOK /\ original' = original
  BY RefusedStep DEF RefusedInv
<1>2. ASSUME NEW t \in Tools, Run(t) \/ Crash(t) PROVE store' = store
  BY <1>1, <1>2, RunSteps DEF Alone
<1>3. CASE PowerFailure \/ CreateDst \/ OpenDst
  BY <1>1, <1>3 DEF PowerFailure, CreateDst, OpenDst
<1>4. CASE UNCHANGED vars
  BY <1>4 DEF vars
<1> QED
  BY <1>1, <1>2, <1>3, <1>4 DEF Next

(* README.md: "Only one process may open a database path at a time": the   *)
(* store that has the destination open keeps its file from every run that  *)
(* is not told to overwrite it.                                            *)
THEOREM OpenStoreCorrect ==
  ASSUME ~OthersCreate
  PROVE  Spec => [](~overwrite => OpenStoreKeepsFile)
<1> DEFINE Held == RefusedInv /\ store \in {NoFile, original}
<1>1. Init => Held
  BY RefusedInit DEF Init
<1>2. Held /\ [Next]_vars => Held'
  BY RefusedStep, StoreStep
<1>3. Held => (~overwrite => OpenStoreKeepsFile)
  BY DirType DEF RefusedInv, Refused, OpenStoreKeepsFile
<1> QED
  BY <1>1, <1>2, <1>3, PTL DEF Spec

-----------------------------------------------------------------------------
(* The destination is whole.                                               *)

(* A file that no power failure changes and that holds all it must. *)
Whole(i) == files[i].now = files[i].synced /\ Complete(files[i].now)

(* What is in a body after n records of recs: those of the places that are *)
(* not left, and nothing behind them.                                      *)
Written(b, recs, places, n) ==
  /\ \A k \in Slots : k > n => b[k] = Hole
  /\ {b[k] : k \in Slots} \ {Hole} = {recs[i] : i \in Survivors(recs) \ places}

(* The file a run writes to has the temporary name only, and what has been *)
(* written is in it.                                                       *)
Output(t) ==
  /\ pc[t] = "create" => Dir["tmp"] = NoFile
  /\ pc[t] \in {"write", "sync", "rename"} =>
       /\ out[t] \in Inodes /\ out[t] # original /\ Dir["tmp"] = out[t]
       /\ \A j \in DOMAIN dirs : dirs[j]["dst"] # out[t]
  /\ pc[t] = "write" => Written(files[out[t]].now.body, src[t].recs, live[t], count[t])
  /\ pc[t] = "sync" => Complete(files[out[t]].now)
  /\ pc[t] = "rename" => Whole(out[t])

(* No power failure leaves at the destination but what was there first and *)
(* whole files.                                                            *)
DstWhole == \A j \in DOMAIN dirs : dirs[j]["dst"] \in {NoFile, original} \/ Whole(dirs[j]["dst"])

WholeInv == /\ TypeOK /\ (\A t \in Tools : Scanned(t))
            /\ (\A t \in Tools : Output(t)) /\ DstWhole

(* A record more is written. *)
LEMMA WrittenStep ==
  ASSUME NEW b \in [Slots -> Records \cup {Hole}], NEW recs \in Seq(Records),
         NEW places \in SUBSET Survivors(recs), NEW i \in places, NEW n \in Nat, n < MaxRecords,
         Written(b, recs, places, n)
  PROVE  Written([b EXCEPT ![n + 1] = recs[i]], recs, places \ {i}, n + 1)
<1> DEFINE c == [b EXCEPT ![n + 1] = recs[i]]
           S == Survivors(recs)
<1>1. i \in DOMAIN recs /\ recs[i] \in Records /\ i \in S
  BY DEF Survivors
<1>2. n + 1 \in Slots /\ b[n + 1] = Hole /\ recs[i] # Hole
  BY <1>1, BoundAssumption, SourceAssumption DEF Slots, Written
<1>3. c[n + 1] = recs[i] /\ \A k \in Slots : k # n + 1 => c[k] = b[k]
  BY <1>2
<1>4. \A k \in Slots : k > n + 1 => c[k] = Hole
  BY <1>3 DEF Slots, Written
<1> HIDE DEF c
<1>5. {c[k] : k \in Slots} \ {Hole} = ({b[k] : k \in Slots} \ {Hole}) \cup {recs[i]}
  BY <1>2, <1>3
<1>6. {recs[j] : j \in S \ (places \ {i})} = {recs[j] : j \in S \ places} \cup {recs[i]}
  BY <1>1
<1>7. {b[k] : k \in Slots} \ {Hole} = {recs[j] : j \in S \ places}
  BY DEF Written
<1>8. {c[k] : k \in Slots} \ {Hole} = {recs[j] : j \in S \ (places \ {i})}
  BY <1>5, <1>6, <1>7
<1> QED
  BY <1>4, <1>8 DEF Written, c

(* A new file has nothing of the log. *)
LEMMA WrittenBlank ==
  ASSUME NEW recs
  PROVE  Written(Blank, recs, Survivors(recs), 0)
<1>1. \A k \in Slots : Blank[k] = Hole
  BY DEF Blank
<1>2. {Blank[k] : k \in Slots} \ {Hole} = {}
  BY <1>1
<1> QED
  BY <1>1, <1>2 DEF Written

(* With no place left and the version set, a file is complete. *)
LEMMA WrittenAll ==
  ASSUME NEW t \in Tools, NEW c, c.version = target, Written(c.body, src[t].recs, {}, count[t])
  PROVE  Complete(c)
<1>1. {src[t].recs[i] : i \in Survivors(src[t].recs) \ {}} = LiveRecords(src[t])
  BY DEF LiveRecords, Survivors
<1> QED
  BY <1>1 DEF Written, Complete

(* What is complete stays so: the target and the sources' records do not   *)
(* change.                                                                 *)
LEMMA CompleteStays ==
  ASSUME target' = target, \A t \in Tools : src'[t].recs = src[t].recs, NEW i,
         NEW c, files'[i].now = c, Complete(c)
  PROVE  Complete(files[i].now)'
<1>1. \A t \in Tools : LiveRecords(src[t])' = LiveRecords(src[t])
  BY DEF LiveRecords
<1> QED
  BY <1>1 DEF Complete

(* A file that is not written to stays whole. *)
LEMMA WholeStays ==
  ASSUME target' = target, \A t \in Tools : src'[t].recs = src[t].recs, NEW i,
         files'[i] = files[i], Whole(i)
  PROVE  Whole(i)'
<1>1. Complete(files[i].now)'
  BY CompleteStays DEF Whole
<1> QED
  BY <1>1 DEF Whole

(* The destinations are whole when a step brings no other file there and   *)
(* leaves their contents alone.                                            *)
LEMMA DstWholeStays ==
  ASSUME DstWhole, target' = target, \A t \in Tools : src'[t].recs = src[t].recs,
         original' = original,
         \A j \in DOMAIN dirs' :
           \/ \E i \in DOMAIN dirs : /\ dirs'[j]["dst"] = dirs[i]["dst"]
                                     /\ dirs[i]["dst"] \in {NoFile, original}
                                          \/ files'[dirs[i]["dst"]] = files[dirs[i]["dst"]]
           \/ Whole(dirs'[j]["dst"]) /\ files'[dirs'[j]["dst"]] = files[dirs'[j]["dst"]]
  PROVE  DstWhole'
<1>1. ASSUME NEW j \in DOMAIN dirs'
      PROVE  dirs'[j]["dst"] \in {NoFile, original} \/ (Whole(dirs[j]["dst"]))'
  <2> PICK x : x = dirs'[j]["dst"]
    OBVIOUS
  <2>1. CASE Whole(x) /\ files'[x] = files[x]
    <3>1. Whole(x)'
      BY <2>1, WholeStays
    <3> QED
      BY <3>1 DEF Whole
  <2>2. CASE \E i \in DOMAIN dirs : /\ x = dirs[i]["dst"]
                                    /\ x \in {NoFile, original} \/ files'[x] = files[x]
    <3>1. x \in {NoFile, original} \/ Whole(x)
      BY <2>2 DEF DstWhole
    <3>2. CASE x \in {NoFile, original}
      BY <3>2
    <3>3. CASE x \notin {NoFile, original}
      BY <2>1, <2>2, <3>1, <3>3
    <3> QED
      BY <3>2, <3>3
  <2> QED
    BY <2>1, <2>2
<1> QED
  BY <1>1 DEF DstWhole

(* A step that writes to no file, but for the rename. *)
LEMMA DstWholeNames ==
  ASSUME TypeOK, DstWhole, NEW t \in Tools, Run(t) \/ Crash(t), pc[t] # "rename", files' = files
  PROVE  DstWhole'
<1>1. /\ target' = target /\ original' = original
      /\ \A u \in Tools : src'[u].recs = src[u].recs
  BY RunSteps DEF Alone
<1>2. \A j \in DOMAIN dirs' : \E i \in DOMAIN dirs : dirs'[j]["dst"] = dirs[i]["dst"]
  BY RunLeavesDst
<1> QED
  BY <1>1, <1>2, DstWholeStays

(* A step that writes to a file which is not the destination's. *)
LEMMA DstWholeFiles ==
  ASSUME TypeOK, DstWhole, NEW t \in Tools, Run(t) \/ Crash(t), pc[t] # "rename",
         NEW o, \A i \in Inodes : i # o => files'[i] = files[i],
         \A j \in DOMAIN dirs : dirs[j]["dst"] # o
  PROVE  DstWhole'
<1>1. /\ target' = target /\ original' = original
      /\ \A u \in Tools : src'[u].recs = src[u].recs
  BY RunSteps DEF Alone
<1>2. \A j \in DOMAIN dirs' : \E i \in DOMAIN dirs : dirs'[j]["dst"] = dirs[i]["dst"]
  BY RunLeavesDst
<1>3. ASSUME NEW i \in DOMAIN dirs
      PROVE  dirs[i]["dst"] = NoFile \/ files'[dirs[i]["dst"]] = files[dirs[i]["dst"]]
  <2>1. dirs[i] \in Directory
    BY DEF TypeOK
  <2>2. dirs[i]["dst"] \in Inodes \cup {NoFile}
    BY <2>1 DEF Directory, Names
  <2> QED
    BY <2>2
<1> QED
  BY <1>1, <1>2, <1>3, DstWholeStays

(* The steps of a run that write to no file. *)
LEMMA OutputNames ==
  ASSUME TypeOK, NEW t \in Tools, Output(t), DstWhole,
         \/ Stat(t) \/ OpenSource(t) \/ ScanRecord(t) \/ ScanEnds(t) \/ RemoveTemp(t)
         \/ RenameTemp(t) \/ SyncDirectory(t) \/ DropTemp(t) \/ Repeat(t) \/ Crash(t)
  PROVE  Output(t)' /\ DstWhole'
<1>0. t \in DOMAIN pc
  BY DEF TypeOK
<1>1. ASSUME pc'[t] \notin {"create", "write", "sync", "rename"} PROVE Output(t)'
  BY <1>1 DEF Output
<1>2. files' = files /\ (Run(t) \/ Crash(t))
  BY DEF Stat, OpenSource, ScanRecord, ScanEnds, RemoveTemp, RenameTemp, SyncDirectory,
         DropTemp, Repeat, Crash, Run, disk
<1>3. CASE pc[t] = "rename" /\ RenameTemp(t)
  <2>1. pc'[t] \in {"renamed", "drop"}
    BY <1>0, <1>3 DEF RenameTemp, Goto
  <2>2. /\ target' = target /\ original' = original
        /\ \A u \in Tools : src'[u].recs = src[u].recs
    BY <1>2, RunSteps DEF Alone
  <2>3. CASE dirs' = dirs
    BY <1>1, <1>2, <2>1, <2>2, <2>3, DstWholeStays
  <2>4. CASE SetDir([dst |-> Dir["tmp"], tmp |-> NoFile])
    <3> DEFINE d == [dst |-> Dir["tmp"], tmp |-> NoFile]
    <3>1. d \in Directory /\ d["dst"] = Dir["tmp"]
      BY DirType, DirectoryType
    <3>2. Whole(Dir["tmp"])
      BY <1>3 DEF Output
    <3> HIDE DEF d
    <3>3. \A j \in DOMAIN dirs' : dirs'[j] = d \/ \E i \in DOMAIN dirs : dirs'[j] = dirs[i]
      BY <2>4, <3>1, SetDirStep DEF d
    <3>4. \A j \in DOMAIN dirs' :
            Whole(dirs'[j]["dst"]) \/ \E i \in DOMAIN dirs : dirs'[j]["dst"] = dirs[i]["dst"]
      BY <3>1, <3>2, <3>3
    <3>5. DstWhole'
      BY <1>2, <2>2, <3>4, DstWholeStays
    <3> QED
      BY <1>1, <2>1, <3>5
  <2> QED
    BY <1>3, <2>3, <2>4 DEF RenameTemp
<1>4. CASE RemoveTemp(t)
  <2>1. pc[t] # "rename" /\ pc'[t] \in {"create", "failed"}
    BY <1>0, <1>4 DEF RemoveTemp, Goto
  <2>2. DstWhole'
    BY <1>2, <2>1, DstWholeNames
  <2>3. ASSUME pc'[t] = "create" PROVE Dir'["tmp"] = NoFile
    <3>1. SetDir([Dir EXCEPT !["tmp"] = NoFile])
      BY <1>0, <1>4, <2>3 DEF RemoveTemp, Goto
    <3>2. /\ [Dir EXCEPT !["tmp"] = NoFile] \in Directory
          /\ [Dir EXCEPT !["tmp"] = NoFile]["tmp"] = NoFile
      BY DirType, DirectoryType
    <3>3. Dir' = [Dir EXCEPT !["tmp"] = NoFile]
      BY <3>1, <3>2, SetDirStep
    <3> QED
      BY <3>2, <3>3
  <2>4. Output(t)'
    BY <2>1, <2>3 DEF Output
  <2> QED
    BY <2>2, <2>4
<1>5. CASE pc[t] # "rename" /\ ~RemoveTemp(t)
  <2>1. pc'[t] \notin {"create", "write", "sync", "rename"}
    BY <1>0, <1>5 DEF Stat, OpenSource, ScanRecord, ScanEnds, RenameTemp, SyncDirectory,
                      DropTemp, Repeat, Crash, Goto
  <2> QED
    BY <1>1, <1>2, <1>5, <2>1, DstWholeNames
<1>6. CASE pc[t] = "rename" /\ ~RenameTemp(t)
  <2>1. Crash(t)
    BY <1>6 DEF Stat, OpenSource, ScanRecord, ScanEnds, RemoveTemp, SyncDirectory, DropTemp, Repeat
  <2>2. pc'[t] = "failed" /\ dirs' = dirs
    BY <1>0, <2>1 DEF Crash, Goto, disk
  <2>3. /\ target' = target /\ original' = original
        /\ \A u \in Tools : src'[u].recs = src[u].recs
    BY <1>2, RunSteps DEF Alone
  <2> QED
    BY <1>1, <1>2, <2>2, <2>3, DstWholeStays
<1> QED
  BY <1>3, <1>4, <1>5, <1>6

(* CreateTemp: the new file has nothing of the log yet. *)
LEMMA OutputCreate ==
  ASSUME TypeOK, NEW t \in Tools, Scanned(t), Output(t), DstWhole, CreateTemp(t)
  PROVE  Output(t)' /\ DstWhole'
<1>1. /\ pc[t] = "create" /\ Dir["tmp"] = NoFile /\ t \in DOMAIN pc /\ t \in DOMAIN out
      /\ live[t] = Survivors(src[t].recs) /\ count[t] = 0
  BY DEF CreateTemp, Output, Scanned, TypeOK
<1>2. Run(t) /\ Alone(t)
  BY RunSteps DEF Run
<1>3. CASE UNCHANGED <<disk, out>> /\ Goto(t, "drop")
  <2>1. DstWhole'
    BY <1>1, <1>2, <1>3, DstWholeNames DEF disk
  <2>2. Output(t)'
    BY <1>1, <1>3 DEF Goto, Output
  <2> QED
    BY <2>1, <2>2
<1>4. ASSUME NEW i \in New, NEW c, c.body = Blank, Goto(t, "write"),
             out' = [out EXCEPT ![t] = i],
             files' = [files EXCEPT ![i] = [now |-> c, synced |-> Empty]],
             SetDir([Dir EXCEPT !["tmp"] = i])
      PROVE  Output(t)' /\ DstWhole'
  <2>1. /\ i \in Inodes /\ i # original
        /\ \A j \in DOMAIN dirs : dirs[j]["dst"] # i
    BY NewIs DEF Names
  <2>2. files'[i].now = c /\ \A k \in Inodes : k # i => files'[k] = files[k]
    BY <1>4, <2>1 DEF TypeOK
  <2>3. DstWhole'
    BY <1>1, <1>2, <2>1, <2>2, DstWholeFiles
  <2>4. \A j \in DOMAIN dirs' : dirs'[j]["dst"] # i
    BY <1>1, <1>2, <2>1, RunLeavesDst
  <2>5. Dir'["tmp"] = i
    <3>0. Dir \in Directory /\ i \in Inodes \cup {NoFile}
      BY <2>1, DirType
    <3>1. [Dir EXCEPT !["tmp"] = i] \in Directory /\ [Dir EXCEPT !["tmp"] = i]["tmp"] = i
      BY <3>0, DirectoryType
    <3>2. Dir' = [Dir EXCEPT !["tmp"] = i]
      BY <1>4, <3>1, SetDirStep
    <3> QED
      BY <3>1, <3>2
  <2>6. /\ pc'[t] = "write" /\ out'[t] = i /\ original' = original
        /\ src'[t].recs = src[t].recs /\ live'[t] = live[t] /\ count'[t] = count[t]
    BY <1>1, <1>2, <1>4 DEF Goto, Alone, CreateTemp
  <2>7. Written(files'[i].now.body, src[t].recs, live[t], count[t])
    BY <1>1, <1>4, <2>2, WrittenBlank
  <2>8. Output(t)'
    BY <2>1, <2>4, <2>5, <2>6, <2>7 DEF Output
  <2> QED
    BY <2>3, <2>8
<1>5. CASE \E v \in 0..5 : Goto(t, "write") /\ Create(t, [version |-> v, body |-> Blank])
  <2>1. PICK v \in 0..5 : Goto(t, "write") /\ Create(t, [version |-> v, body |-> Blank])
    BY <1>5
  <2> DEFINE c == [version |-> v, body |-> Blank]
  <2>2. c.body = Blank
    OBVIOUS
  <2>3. Create(t, c)
    BY <2>1
  <2> HIDE DEF c
  <2> QED
    BY <1>1, <1>4, <2>1, <2>2, <2>3 DEF Create
<1> QED
  BY <1>3, <1>5 DEF CreateTemp

(* The steps that write to the temporary file. *)
LEMMA OutputFiles ==
  ASSUME TypeOK, NEW t \in Tools, Scanned(t), Output(t), DstWhole,
         WriteRecord(t) \/ WriteVersion(t) \/ SyncTemp(t)
  PROVE  Output(t)' /\ DstWhole'
<1> PICK o : o = out[t]
  OBVIOUS
<1> DEFINE recs == src[t].recs
<1>1. /\ pc[t] \in {"write", "sync"} /\ dirs' = dirs /\ out' = out
      /\ t \in DOMAIN pc /\ t \in DOMAIN live /\ t \in DOMAIN count
      /\ \A i \in Inodes : i # o => files'[i] = files[i]
  BY DEF WriteRecord, WriteVersion, SyncTemp, TypeOK
<1>2. /\ o \in Inodes /\ o # original /\ Dir["tmp"] = o
      /\ \A j \in DOMAIN dirs : dirs[j]["dst"] # o
  BY <1>1 DEF Output
<1>3. Run(t) /\ Alone(t)
  BY RunSteps DEF Run
<1>4. /\ target' = target /\ original' = original /\ out'[t] = o
      /\ \A u \in Tools : src'[u].recs = src[u].recs
  BY <1>1, <1>3 DEF Alone
<1>5. DstWhole'
  BY <1>1, <1>2, <1>3, DstWholeFiles
<1>6. Dir'["tmp"] = o /\ \A j \in DOMAIN dirs' : dirs'[j]["dst"] # o
  BY <1>1, <1>2 DEF Dir
<1>7. ASSUME pc'[t] = "drop" PROVE Output(t)'
  BY <1>7 DEF Output
<1>8. /\ files[o] \in File /\ recs \in Seq(Records) /\ count[t] \in Nat
      /\ files[o].now \in Contents
  <2>1. files[o] \in File /\ count[t] \in Nat /\ src[t] \in Log
    BY <1>2 DEF TypeOK
  <2> QED
    BY <2>1, FileTypes, LogTypes
<1>9. ASSUME NEW i \in live[t], pc[t] = "write", pc'[t] = "write", count[t] < MaxRecords,
             live' = [live EXCEPT ![t] = @ \ {i}], count' = [count EXCEPT ![t] = @ + 1],
             files' = [files EXCEPT ![o].now.body[count[t] + 1] = recs[i]]
      PROVE  Output(t)'
  <2> DEFINE b == files[o].now.body
  <2>1. live[t] \subseteq Survivors(recs) /\ Written(b, recs, live[t], count[t])
    BY <1>9 DEF Scanned, Output
  <2>2. b \in [Slots -> Records \cup {Hole}]
    BY <1>8 DEF Contents
  <2> HIDE DEF b, recs
  <2>3. Written([b EXCEPT ![count[t] + 1] = recs[i]], recs, live[t] \ {i}, count[t] + 1)
    BY <1>8, <1>9, <2>1, <2>2, WrittenStep
  <2>4. files'[o].now.body = [b EXCEPT ![count[t] + 1] = recs[i]]
    BY <1>2, <1>8, <1>9 DEF TypeOK, File, Contents, b
  <2>5. live'[t] = live[t] \ {i} /\ count'[t] = count[t] + 1 /\ src'[t].recs = recs
    BY <1>1, <1>4, <1>9 DEF recs
  <2>6. Written(files'[o].now.body, src'[t].recs, live'[t], count'[t])
    BY <2>3, <2>4, <2>5
  <2> QED
    BY <1>2, <1>4, <1>6, <1>9, <2>6 DEF Output
<1>10. ASSUME pc[t] = "write", live[t] = {}, pc'[t] = "sync",
              files' = [files EXCEPT ![o].now.version = target]
       PROVE  Output(t)'
  <2>1. Written(files[o].now.body, recs, {}, count[t])
    BY <1>10 DEF Output
  <2>2. files'[o].now.version = target /\ files'[o].now.body = files[o].now.body
    BY <1>2, <1>8, <1>10 DEF TypeOK, File, Contents
  <2> PICK c : c = files'[o].now
    OBVIOUS
  <2>3. Complete(c)
    BY <2>1, <2>2, WrittenAll
  <2>4. Complete(files[o].now)'
    BY <1>4, <2>3, CompleteStays
  <2> QED
    BY <1>2, <1>4, <1>6, <1>10, <2>4 DEF Output
<1>11. ASSUME pc[t] = "sync", pc'[t] = "rename",
              files' = [files EXCEPT ![o].synced = files[o].now]
       PROVE  Output(t)'
  <2>1. files'[o].now = files[o].now /\ files'[o].synced = files[o].now
    BY <1>2, <1>8, <1>11 DEF TypeOK, File
  <2>2. Complete(files[o].now)
    BY <1>11 DEF Output
  <2>3. Complete(files[o].now)'
    BY <1>4, <2>1, <2>2, CompleteStays
  <2>4. Whole(o)'
    BY <2>1, <2>3 DEF Whole
  <2> QED
    BY <1>2, <1>4, <1>6, <1>11, <2>4 DEF Output
<1>12. CASE WriteRecord(t)
  BY <1>1, <1>5, <1>7, <1>9, <1>12 DEF WriteRecord, Goto
<1>13. CASE WriteVersion(t)
  BY <1>1, <1>5, <1>7, <1>10, <1>13 DEF WriteVersion, Goto
<1>14. CASE SyncTemp(t)
  BY <1>1, <1>5, <1>7, <1>11, <1>14 DEF SyncTemp, Goto
<1> QED
  BY <1>12, <1>13, <1>14

(* Every step of the only run there is, or of anyone else. *)
LEMMA WholeStep ==
  ASSUME NEW tool, Tools = {tool}
  PROVE  WholeInv /\ [Next]_vars => WholeInv'
<1> SUFFICES ASSUME WholeInv, [Next]_vars PROVE WholeInv'
  OBVIOUS
<1>1. /\ TypeOK /\ TypeOK' /\ DstWhole
      /\ (\A t \in Tools : Scanned(t)) /\ (\A t \in Tools : Scanned(t)')
      /\ (\A t \in Tools : Output(t))
  BY TypeStep, ScannedStep DEF WholeInv
<1>2. SUFFICES Output(tool)' /\ DstWhole'
  BY <1>1 DEF WholeInv
<1>3. CASE Run(tool) \/ Crash(tool)
  BY <1>1, <1>3, OutputNames, OutputCreate, OutputFiles DEF Run
<1>4. CASE PowerFailure
  <2>1. PICK j \in DOMAIN dirs :
          /\ dirs' = <<dirs[j]>>
          /\ \A n \in Names : dirs[j][n] # NoFile =>
               \E c \in Leftovers(files[dirs[j][n]]) : files'[dirs[j][n]] = [now |-> c, synced |-> c]
    BY <1>1, <1>4, PowerIs
  <2>2. UNCHANGED <<target, src, original>> /\ pc'[tool] \in {"done", "failed"}
    BY <1>1, <1>4, PowerIs
  <2>3. Output(tool)'
    BY <2>2 DEF Output
  <2> PICK x : x = dirs[j]["dst"]
    OBVIOUS
  <2>4. x \in Inodes \cup {NoFile}
    <3>1. dirs \in Seq(Directory)
      BY <1>1 DEF TypeOK
    <3>2. dirs[j] \in Directory
      BY <3>1
    <3> QED
      BY <3>2 DEF Directory, Names
  <2>5. x \in {NoFile, original} \/ files'[x] = files[x]
    <3> SUFFICES ASSUME x \notin {NoFile, original} PROVE files'[x] = files[x]
      OBVIOUS
    <3>1. PICK c \in Leftovers(files[x]) : files'[x] = [now |-> c, synced |-> c]
      BY <2>1 DEF Names
    <3>2. files[x] \in File /\ files[x].now = files[x].synced
      BY <1>1, <2>4 DEF TypeOK, DstWhole, Whole
    <3>3. c = files[x].now
      BY <3>2, LeftoversIs
    <3>4. files[x] = [now |-> files[x].now, synced |-> files[x].synced]
      BY <3>2 DEF File
    <3> QED
      BY <3>1, <3>2, <3>3, <3>4
  <2>6. \A k \in DOMAIN dirs' : dirs'[k]["dst"] = x
    BY <2>1
  <2>7. DstWhole'
    BY <1>1, <2>2, <2>5, <2>6, DstWholeStays
  <2> QED
    BY <2>3, <2>7
<1>5. CASE CreateDst \/ OpenDst
  <2>1. UNCHANGED <<args, files, pc, live, count, out>>
    BY <1>1, <1>5, OtherSteps
  <2>2. /\ target' = target /\ src' = src /\ \A u \in Tools : src'[u].recs = src[u].recs
    BY <2>1 DEF args
  <2>3. \A i : Complete(files[i].now) => Complete(files[i].now)'
    BY <2>1, <2>2, CompleteStays
  <2>4. \A i : Whole(i) => Whole(i)'
    BY <2>1, <2>2, WholeStays
  <2>5. CASE UNCHANGED <<dirs, original>>
    <3>1. DstWhole'
      BY <1>1, <2>1, <2>2, <2>5, DstWholeStays
    <3>2. Dir' = Dir
      BY <2>5 DEF Dir
    <3>3. Output(tool)'
      BY <1>1, <2>1, <2>2, <2>3, <2>4, <2>5, <3>2 DEF Output
    <3> QED
      BY <3>1, <3>3
  <2>6. ASSUME NEW d \in Directory, dirs' = <<d>>, Dir' = d, original' = d["dst"],
               d["dst"] \in New, d["tmp"] = Dir["tmp"]
        PROVE  Output(tool)' /\ DstWhole'
    <3>1. \A j \in DOMAIN dirs' : dirs'[j]["dst"] = original'
      BY <2>6
    <3>2. DstWhole'
      BY <3>1 DEF DstWhole
    <3>3. original' # out[tool]
      BY <2>6, NewIs
    <3>4. Dir'["tmp"] = Dir["tmp"]
      BY <2>6
    <3>5. Output(tool)'
      BY <1>1, <2>1, <2>2, <2>3, <2>4, <3>1, <3>3, <3>4 DEF Output
    <3> QED
      BY <3>2, <3>5
  <2> QED
    BY <1>1, <1>5, <2>5, <2>6, OtherSteps
<1>6. CASE UNCHANGED vars
  <2>1. UNCHANGED <<target, src, dirs, files, pc, live, count, out, original>>
    BY <1>6 DEF vars, args, disk
  <2>2. DstWhole'
    BY <1>1, <2>1, DstWholeStays
  <2>3. \A i : Complete(files[i].now) => Complete(files[i].now)'
    BY <2>1, CompleteStays
  <2>4. \A i : Whole(i) => Whole(i)'
    BY <2>1, WholeStays
  <2>5. Dir' = Dir
    BY <2>1 DEF Dir
  <2>6. Output(tool)'
    BY <1>1, <2>1, <2>3, <2>4, <2>5 DEF Output
  <2> QED
    BY <2>2, <2>6
<1> QED
  BY <1>3, <1>4, <1>5, <1>6 DEF Next

(* downgradeTempSuffix: "a run that fails leaves no file at the            *)
(* destination for a caller to mistake for a complete log", nor does one   *)
(* that dies, with its machine or without, however often it is repeated    *)
(* and whoever else creates or opens the destination; while no other run   *)
(* has the same destination.                                               *)
THEOREM DestinationCorrect ==
  ASSUME NEW tool, Tools = {tool}
  PROVE  Spec => []DestinationWhole
<1>1. Init => WholeInv
  <2> SUFFICES ASSUME Init PROVE WholeInv
    OBVIOUS
  <2>1. \A j \in DOMAIN dirs : dirs[j]["dst"] = original
    BY DEF Init
  <2>2. DstWhole
    BY <2>1 DEF DstWhole
  <2>3. \A t \in Tools : Output(t)
    BY DEF Init, Output
  <2> QED
    BY <2>2, <2>3, TypeInit, ScannedInit DEF WholeInv
<1>2. WholeInv => DestinationWhole
  <2> SUFFICES ASSUME WholeInv, NEW j \in DOMAIN dirs, dirs[j]["dst"] \notin {NoFile, original},
                      NEW c \in Leftovers(files[dirs[j]["dst"]])
               PROVE  Complete(c)
    BY DEF DestinationWhole
  <2> PICK x : x = dirs[j]["dst"]
    OBVIOUS
  <2>1. Whole(x)
    BY DEF WholeInv, DstWhole
  <2>2. dirs[j] \in Directory
    <3>1. dirs \in Seq(Directory)
      BY DEF WholeInv, TypeOK
    <3> QED
      BY <3>1
  <2>3. x \in Inodes
    BY <2>2 DEF Directory, Names
  <2>4. files[x] \in File
    BY <2>3 DEF WholeInv, TypeOK
  <2>5. c = files[x].now
    BY <2>1, <2>4, LeftoversIs DEF Whole
  <2> QED
    BY <2>1, <2>5 DEF Whole
<1>3. WholeInv /\ [Next]_vars => WholeInv'
  BY WholeStep
<1> QED
  BY <1>1, <1>2, <1>3, PTL DEF Spec
=============================================================================
