----------------------------- MODULE Downgrade ------------------------------
(***************************************************************************)
(* Downgrade (downgrade.go), which cmd/appendstore-downgrade calls: the    *)
(* live records of a source log are written to a temporary file that is    *)
(* renamed to the destination.  Each run has a source of its own, locked;  *)
(* nothing locks the destination.  Calls fail, tools and the machine die,  *)
(* and a run is repeated; others may use the destination.                  *)
(*                                                                         *)
(* A file is its version and its records, which are all of one size, now   *)
(* and as of its last fsync.                                               *)
(***************************************************************************)
EXTENDS Naturals, Sequences

CONSTANTS Tools,         \* runs of the tool, each with a source
          Sources,       \* the source logs there may be
          OthersCreate,  \* someone may create the destination at any time
          OthersOpen,    \* someone may open a store at the destination
          MaxFiles,      \* bound on the files of the disk
          MaxRecords,    \* bound on the records of a file
          MaxFaults,     \* bound on failing calls
          MaxDeaths      \* bound on crashes and power failures

ASSUME FlagAssumption == {OthersCreate, OthersOpen} \subseteq BOOLEAN
ASSUME BoundAssumption ==
  MaxFiles \in Nat \ {0} /\ {MaxRecords, MaxFaults, MaxDeaths} \subseteq Nat

VARIABLES
  src,        \* each tool's source: version, features, records, torn tail
  target, overwrite,  \* DowngradeOptions
  dirs,       \* the directory: its states since it was last durable, newest last
  files,      \* each file now, and as of its last fsync
  pc,         \* where each run is
  live,       \* the places of the records a run has found, and has still to write
  count,      \* how many records it has read, and then written
  out,        \* the file a run writes to
  store,      \* the file of a store that is open at the destination
  original,   \* history: the file that had the destination's name first
  faults, deaths

disk == <<dirs, files>>
args == <<src, target, overwrite>>
vars == <<args, disk, pc, live, count, out, store, original, faults, deaths>>

-----------------------------------------------------------------------------
(* Logs.                                                                   *)

Slots == 1..MaxRecords  \* where a file has its records

Hole == [key |-> "none"]

Blank == [k \in Slots |-> Hole]

Empty == [version |-> 0, body |-> Blank]

(* The records there are, and the logs they make up. *)
Records == UNION {{s.recs[i] : i \in DOMAIN s.recs} : s \in Sources}

Log == [version : Nat, features : Nat, recs : Seq(Records), torn : BOOLEAN]

ASSUME SourceAssumption == Sources \subseteq Log /\ Hole \notin Records

(* A source path where nothing is. *)
NoLog == [version |-> 0, features |-> 0, recs |-> <<>>, torn |-> FALSE]

(* Record i is the last of its key, and no tombstone. *)
Survives(recs, i) ==
  ~recs[i].deleted /\ \A j \in DOMAIN recs : j > i => recs[j].key # recs[i].key

(* What the source stands for. *)
LiveRecords(s) == {s.recs[i] : i \in {j \in DOMAIN s.recs : Survives(s.recs, j)}}

(* What the target format has room for: no extensions, and in version 3    *)
(* only its own attributes.                                                *)
CanExpress(r) == ~r.extended /\ (target = 3 => ~r.attributed)

-----------------------------------------------------------------------------
(* The file system.                                                        *)

Names  == {"dst", "tmp"}
Inodes == 1..MaxFiles
NoFile == 0

Dir == dirs[Len(dirs)]

SetDir(d) == dirs' = IF d = Dir THEN dirs ELSE Append(dirs, d)

Free == {i \in Inodes : /\ \A j \in DOMAIN dirs : \A n \in Names : dirs[j][n] # i
                        /\ \A t \in Tools : out[t] # i
                        /\ i \notin {store, original}}

(* Which file a new one is does not matter: it is the first that is free. *)
New == {i \in Free : \A j \in Free : i <= j}

(* O_CREATE|O_TRUNC under the temporary name. *)
Create(t, contents) ==
  \/ /\ Dir["tmp"] # NoFile /\ out' = [out EXCEPT ![t] = Dir["tmp"]]
     /\ files' = [files EXCEPT ![Dir["tmp"]].now = contents] /\ UNCHANGED dirs
  \/ /\ Dir["tmp"] = NoFile
     /\ \E i \in New : /\ out' = [out EXCEPT ![t] = i]
                        /\ files' = [files EXCEPT ![i] = [now |-> contents, synced |-> Empty]]
                        /\ SetDir([Dir EXCEPT !["tmp"] = i])

(* What a power failure may leave of a file. *)
Leftovers(f) ==
  {[version |-> v, body |-> b] :
     v \in {f.now.version, f.synced.version},
     b \in {g \in [Slots -> {f.now.body[k] : k \in Slots} \cup {f.synced.body[k] : k \in Slots}] :
              \A k \in Slots : g[k] \in {f.now.body[k], f.synced.body[k]}}}

Succeeds == UNCHANGED faults
Fails    == faults < MaxFaults /\ faults' = faults + 1
Goto(t, place) == pc' = [pc EXCEPT ![t] = place]

-----------------------------------------------------------------------------
Init ==
  /\ src \in [Tools -> Sources] /\ target \in {3, 4} /\ overwrite \in BOOLEAN
  /\ original \in {NoFile, 1}
  /\ dirs = <<[dst |-> original, tmp |-> NoFile]>>
  /\ files = [i \in Inodes |-> [now |-> Empty, synced |-> Empty]]
  /\ pc = [t \in Tools |-> "start"] /\ live = [t \in Tools |-> {}]
  /\ count = [t \in Tools |-> 0]
  /\ out = [t \in Tools |-> NoFile] /\ store = NoFile /\ faults = 0 /\ deaths = 0

(* What the later steps of a run leave alone. *)
Steady == UNCHANGED <<args, store, original, deaths>>

(* The destination is looked for. *)
Stat(t) ==
  /\ pc[t] = "start"
  /\ \/ Succeeds /\ Goto(t, IF ~overwrite /\ Dir["dst"] # NoFile THEN "refused" ELSE "open")
     \/ ~overwrite /\ Fails /\ Goto(t, "failed")
  /\ Steady /\ UNCHANGED <<disk, live, count, out>>

(* openAppendLog makes an empty log where there is none. *)
Opened(s) == IF s = NoLog THEN [s EXCEPT !.version = 5] ELSE s

(* Whether the log is one to write in an older format. *)
Downgradable(s) == s.version >= 4 /\ s.features = 0

(* The source is locked, opened and looked at. *)
OpenSource(t) ==
  /\ pc[t] = "open"
  /\ \/ /\ Succeeds /\ src' = [src EXCEPT ![t] = Opened(src[t])]
        /\ Goto(t, IF Downgradable(Opened(src[t])) THEN "scan" ELSE "failed")
     \/ Fails /\ Goto(t, "failed") /\ UNCHANGED src
  /\ UNCHANGED <<target, overwrite, disk, live, count, out, store, original, deaths>>

(* The places that the index has once record i is in it. *)
Indexed(recs, places, i) ==
  {j \in places : recs[j].key # recs[i].key} \cup (IF recs[i].deleted THEN {} ELSE {i})

(* Mutant: the place after the record is taken down. *)
ScanRecord_Late(t) ==
  /\ pc[t] = "scan" /\ count[t] < Len(src[t].recs) /\ Succeeds
  /\ live' = [live EXCEPT ![t] = {i + 1 : i \in Indexed(src[t].recs, @, count[t] + 1)}]
  /\ count' = [count EXCEPT ![t] = @ + 1]
  /\ Steady /\ UNCHANGED <<disk, pc, out>>

(* Iterate reads the next record into the index. *)
ScanRecord(t) ==
  /\ pc[t] = "scan" /\ count[t] < Len(src[t].recs)
  /\ \/ /\ Succeeds /\ UNCHANGED pc
        /\ live'  = [live EXCEPT ![t] = Indexed(src[t].recs, @, count[t] + 1)]
        /\ count' = [count EXCEPT ![t] = @ + 1]
     \/ Fails /\ Goto(t, "failed") /\ UNCHANGED <<live, count>>
  /\ Steady /\ UNCHANGED <<disk, out>>

(* It ends, and cuts off a record that is not all there. *)
ScanEnds(t) ==
  /\ pc[t] = "scan" /\ count[t] = Len(src[t].recs)
  /\ \/ /\ Succeeds /\ Goto(t, "clean") /\ count' = [count EXCEPT ![t] = 0]
        /\ src' = [src EXCEPT ![t].torn = FALSE]
     \/ src[t].torn /\ Fails /\ Goto(t, "failed") /\ UNCHANGED <<src, count>>
  /\ UNCHANGED <<target, overwrite, disk, live, out, store, original, deaths>>

(* Mutant: what an earlier run left is kept. *)
RemoveTemp_Kept(t) ==
  /\ pc[t] = "clean" /\ Succeeds /\ Goto(t, IF Dir["tmp"] = NoFile THEN "create" ELSE "failed")
  /\ Steady /\ UNCHANGED <<disk, live, count, out>>

(* What an earlier run left under the temporary name is removed. *)
RemoveTemp(t) ==
  /\ pc[t] = "clean"
  /\ \/ Succeeds /\ SetDir([Dir EXCEPT !["tmp"] = NoFile]) /\ Goto(t, "create")
     \/ Fails /\ UNCHANGED dirs /\ Goto(t, "failed")
  /\ Steady /\ UNCHANGED <<files, live, count, out>>

(* createAppendLogMode writes a header of the current version, the version *)
(* 3 writer one of version 3, which its buffer may write out at any time.  *)
CreateTemp(t) ==
  /\ pc[t] = "create"
  /\ \/ /\ Succeeds /\ Goto(t, "write")
        /\ Create(t, [version |-> IF target = 4 THEN 5 ELSE 3, body |-> Blank])
     \/ Fails /\ UNCHANGED <<disk, out>> /\ Goto(t, "drop")
  /\ Steady /\ UNCHANGED <<live, count>>

(* Mutant: a record that cannot be expressed is left out. *)
WriteRecord_Skips(t) ==
  /\ pc[t] = "write" /\ Succeeds
  /\ \E i \in live[t] :
       LET r == src[t].recs[i]
       IN  /\ \A j \in live[t] : i <= j
           /\ live' = [live EXCEPT ![t] = @ \ {i}]
           /\ IF CanExpress(r)
                THEN /\ files' = [files EXCEPT ![out[t]].now.body[count[t] + 1] = r]
                     /\ count' = [count EXCEPT ![t] = @ + 1]
                ELSE UNCHANGED <<files, count>>
  /\ Steady /\ UNCHANGED <<dirs, pc, out>>

(* forEachLiveRecord: the record with the least offset (KeysSortedByOffset) *)
(* is read and, when the format can express it, written, in version 3      *)
(* through the buffer.                                                     *)
WriteRecord(t) ==
  /\ pc[t] = "write"
  /\ \E i \in live[t] :
       LET r == src[t].recs[i]
       IN  /\ \A j \in live[t] : i <= j
           /\ \/ /\ Succeeds /\ CanExpress(r) /\ count[t] < MaxRecords /\ UNCHANGED pc
                 /\ files' = [files EXCEPT ![out[t]].now.body[count[t] + 1] = r]
                 /\ live'  = [live EXCEPT ![t] = @ \ {i}]
                 /\ count' = [count EXCEPT ![t] = @ + 1]
              \/ Succeeds /\ ~CanExpress(r) /\ Goto(t, "drop") /\ UNCHANGED <<files, live, count>>
              \/ Fails /\ Goto(t, "drop") /\ UNCHANGED <<files, live, count>>
  /\ Steady /\ UNCHANGED <<dirs, out>>

(* setVersion(4) writes the header, Flush the rest of a version 3 log. *)
WriteVersion(t) ==
  /\ pc[t] = "write" /\ live[t] = {}
  /\ \/ Succeeds /\ files' = [files EXCEPT ![out[t]].now.version = target] /\ Goto(t, "sync")
     \/ Fails /\ UNCHANGED files /\ Goto(t, "drop")
  /\ Steady /\ UNCHANGED <<dirs, live, count, out>>

(* Mutant: the output is not synchronized. *)
SyncTemp_No(t) ==
  /\ pc[t] = "sync" /\ Succeeds /\ Goto(t, "rename") /\ Steady /\ UNCHANGED <<disk, live, count, out>>

SyncTemp(t) ==
  /\ pc[t] = "sync"
  /\ \/ /\ Succeeds /\ Goto(t, "rename")
        /\ files' = [files EXCEPT ![out[t]].synced = files[out[t]].now]
     \/ Fails /\ UNCHANGED files /\ Goto(t, "drop")
  /\ Steady /\ UNCHANGED <<dirs, live, count, out>>

(* The rename fails as well when nothing has the temporary name. *)
RenameTemp(t) ==
  /\ pc[t] = "rename"
  /\ \/ /\ Succeeds /\ Dir["tmp"] # NoFile /\ Goto(t, "renamed")
        /\ SetDir([dst |-> Dir["tmp"], tmp |-> NoFile])
     \/ Succeeds /\ Dir["tmp"] = NoFile /\ Goto(t, "drop") /\ UNCHANGED dirs
     \/ Fails /\ UNCHANGED dirs /\ Goto(t, "drop")
  /\ Steady /\ UNCHANGED <<files, live, count, out>>

SyncDirectory(t) ==
  /\ pc[t] = "renamed"
  /\ \/ Succeeds /\ dirs' = <<Dir>> /\ Goto(t, "done")
     \/ Fails /\ UNCHANGED dirs /\ Goto(t, "failed")
  /\ Steady /\ UNCHANGED <<files, live, count, out>>

(* An error: the temporary file is removed, and an error of that ignored. *)
DropTemp(t) ==
  /\ pc[t] = "drop" /\ Goto(t, "failed")
  /\ \/ Succeeds /\ SetDir([Dir EXCEPT !["tmp"] = NoFile])
     \/ Fails /\ UNCHANGED dirs
  /\ Steady /\ UNCHANGED <<files, live, count, out>>

(* Someone runs the tool again after a failure. *)
Repeat(t) ==
  /\ pc[t] = "failed" /\ Goto(t, "start")
  /\ live' = [live EXCEPT ![t] = {}] /\ count' = [count EXCEPT ![t] = 0]
  /\ out' = [out EXCEPT ![t] = NoFile]
  /\ Steady /\ UNCHANGED <<disk, faults>>

Run(t) ==
  \/ Stat(t) \/ OpenSource(t) \/ ScanRecord(t) \/ ScanEnds(t) \/ RemoveTemp(t) \/ CreateTemp(t)
  \/ WriteRecord(t) \/ WriteVersion(t) \/ SyncTemp(t) \/ RenameTemp(t) \/ SyncDirectory(t)
  \/ DropTemp(t) \/ Repeat(t)

-----------------------------------------------------------------------------
(* The tool dies. *)
Crash(t) ==
  /\ pc[t] \notin {"done", "failed", "refused"} /\ Goto(t, "failed")
  /\ deaths < MaxDeaths /\ deaths' = deaths + 1
  /\ live' = [live EXCEPT ![t] = {}] /\ count' = [count EXCEPT ![t] = 0]
  /\ out' = [out EXCEPT ![t] = NoFile]
  /\ UNCHANGED <<args, disk, store, original, faults>>

(* The machine dies. *)
PowerFailure ==
  /\ deaths < MaxDeaths /\ deaths' = deaths + 1
  /\ pc' = [t \in Tools |-> IF pc[t] = "done" THEN pc[t] ELSE "failed"]
  /\ \E j \in DOMAIN dirs :
     LET named == {dirs[j][n] : n \in Names} \ {NoFile}
     IN  \E g \in [named -> UNION {Leftovers(files[i]) : i \in named}] :
           /\ \A i \in named : g[i] \in Leftovers(files[i])
           /\ dirs' = <<dirs[j]>>
           /\ files' = [i \in Inodes |-> LET c == IF i \in named THEN g[i] ELSE Empty
                                          IN  [now |-> c, synced |-> c]]
  /\ store' = NoFile
  /\ live' = [t \in Tools |-> {}] /\ count' = [t \in Tools |-> 0]
  /\ out' = [t \in Tools |-> NoFile]
  /\ UNCHANGED <<args, original, faults>>

(* Someone else's file appears at the destination. *)
CreateDst ==
  /\ OthersCreate /\ Dir["dst"] = NoFile /\ original = NoFile
  /\ \E i \in New : original' = i /\ dirs' = <<[Dir EXCEPT !["dst"] = i]>>
  /\ UNCHANGED <<args, files, pc, live, count, out, store, faults, deaths>>

(* Someone opens the store that is at the destination, under its lock. *)
OpenDst ==
  /\ OthersOpen /\ Dir["dst"] # NoFile /\ Dir["dst"] = original /\ store' = Dir["dst"]
  /\ UNCHANGED <<args, disk, pc, live, count, out, original, faults, deaths>>

Next ==
  \/ \E t \in Tools : Run(t) \/ Crash(t)
  \/ PowerFailure \/ CreateDst \/ OpenDst

(* A run that was started goes on, and is repeated until it succeeds. *)
Spec == Init /\ [][Next]_vars /\ \A t \in Tools : WF_vars(Run(t))

-----------------------------------------------------------------------------
Contents == [version : 0..5, body : [Slots -> Records \cup {Hole}]]

File == [now : Contents, synced : Contents]

Directory == [Names -> Inodes \cup {NoFile}]

Points == {"start", "open", "scan", "clean", "create", "write", "sync", "rename",
           "renamed", "drop", "done", "failed", "refused"}

(* Every variable has its type. *)
TypeOK ==
  /\ src \in [Tools -> Log] /\ target \in {3, 4} /\ overwrite \in BOOLEAN
  /\ dirs \in Seq(Directory) /\ dirs # <<>>
  /\ files \in [Inodes -> File]
  /\ pc \in [Tools -> Points] /\ count \in [Tools -> Nat]
  /\ DOMAIN live = Tools /\ \A t \in Tools : live[t] \subseteq DOMAIN src[t].recs
  /\ out \in [Tools -> Inodes \cup {NoFile}] /\ {store, original} \subseteq Inodes \cup {NoFile}
  /\ faults \in 0..MaxFaults /\ deaths \in 0..MaxDeaths

(* c holds the source of a run, all of it and nothing else, in the format  *)
(* that was asked for.                                                     *)
Complete(c) ==
  /\ c.version = target
  /\ \E t \in Tools : {c.body[k] : k \in Slots} \ {Hole} = LiveRecords(src[t])

(* downgradeTempSuffix: "a run that fails leaves no file at the            *)
(* destination for a caller to mistake for a complete log", nor does one   *)
(* that dies, with its machine or without.                                 *)
DestinationWhole ==
  \A j \in DOMAIN dirs :
    LET i == dirs[j]["dst"]
    IN  i \in {NoFile, original} \/ \A c \in Leftovers(files[i]) : Complete(c)

(* "The tool refuses to write anything when a record holds data the target *)
(* format cannot express": what was at the destination stays there.        *)
InexpressibleLeavesDst ==
  (\A t \in Tools : \E r \in LiveRecords(src[t]) : ~CanExpress(r)) => Dir["dst"] = original

(* The source can be downgraded, and nobody's file is in the way. *)
Fits(t) ==
  /\ Downgradable(Opened(src[t])) /\ \A r \in LiveRecords(src[t]) : CanExpress(r)
  /\ overwrite \/ original = NoFile

(* A run that is repeated after failures and crashes comes to an end: when *)
(* the source can be downgraded and nothing is in the way, the destination *)
(* is there for good, whatever earlier runs left behind.                   *)
Delivers ==
  \A t \in Tools :
    <>[](Fits(t) => Dir["dst"] \notin {NoFile, original} /\ Complete(files[Dir["dst"]].now))

(* DowngradeOptions.Overwrite: "Without it, Downgrade refuses rather than  *)
(* replace a file it did not create".                                      *)
NeverReplaces ==
  [][~overwrite /\ Dir["dst"] = original /\ original # NoFile => Dir'["dst"] = original]_vars

(* "It writes to src only to discard an incomplete trailing record from an *)
(* interrupted write" (Downgrade).                                         *)
SourceOnlyRepaired ==
  [][\A t \in Tools : src'[t] # src[t] =>
       src[t].torn /\ src'[t] = [src[t] EXCEPT !.torn = FALSE]]_vars

(* README.md: "Only one process may open a database path at a time": the   *)
(* store that has the destination open keeps its file.                     *)
OpenStoreKeepsFile == store # NoFile => Dir["dst"] = store
=============================================================================
