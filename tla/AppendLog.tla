----------------------------- MODULE AppendLog ------------------------------
(***************************************************************************)
(* One log file at the grain of cells (log.go): the header, records        *)
(* written at writePos, the recovery scan and its truncation, point reads  *)
(* through the memory map or from the file.  A write may stop half way     *)
(* because the process dies, or because WriteAt fails; the machine may     *)
(* lose what was not synchronized.  The log has the current version; one   *)
(* of an older version is LegacyFormat's and Migration's.                  *)
(***************************************************************************)
EXTENDS RecordFormat

CONSTANTS Inputs,         \* the records that are appended
          mapSlack,       \* how far the memory map reaches past writePos
          TruncateFirst,  \* a truncation reaches the disk before later writes
          MaxAppends,     \* bound on calls of Append
          MaxFaults       \* bound on failing calls

ASSUME SlackAssumption == mapSlack \in Nat
ASSUME FlagAssumption == TruncateFirst \in BOOLEAN
ASSUME BoundAssumption == {MaxAppends, MaxFaults} \subseteq Nat

VARIABLES
  file,         \* the file, as every process sees it
  disk,         \* the file as of its last fsync
  pc,           \* "down", "scan" inside Store.recover, "open"
  writePos,     \* the size of the log: the next record comes after it
  mapped,       \* how many cells the memory map covers, 0 without one
  mapDisabled,
  places,       \* offset and stored size of each record that was read or written
  recs,         \* history: the records a scan of the file finds
  synced,       \* history: how many there were at the last fsync
  answered,     \* history: how many Append has answered for, less what was lost
  partial,      \* history: a failed append left cells behind writePos
  appends, faults

vars == <<file, disk, pc, writePos, mapped, mapDisabled, places, recs,
          synced, answered, partial, appends, faults>>

-----------------------------------------------------------------------------
(* The header: magic, version, incompatible and read-only feature mask.    *)

logVersion    == 5
logHeaderSize == 4
Magic         == 77

Header(version, readOnly) == <<Num(Magic), Num(version), Num(0), Num(readOnly)>>

(* readHeader: whether this build opens the log at all. *)
HeaderGood(s) ==
  /\ Len(s) >= logHeaderSize /\ Number(s[1]) = Magic
  /\ Number(s[2]) \in 1..logVersion
  /\ Number(s[2]) >= 5 => Number(s[3]) = 0

(* unknownReadOnly: no read-only feature is known. *)
ReadOnly(s) == Number(s[2]) >= 5 /\ Number(s[4]) # 0

-----------------------------------------------------------------------------
(* The loop of Iterate: the records from p on, where they are, and how and *)
(* where the loop ended.  writePos is the size of the file when Open scans *)
(* it, so that no record that could be read ends behind it.                *)
RECURSIVE ScanFrom(_, _, _, _)
ScanFrom(s, p, got, at) ==
  IF Left(s, p) = 0 THEN [status |-> "ok", recs |-> got, places |-> at, end |-> p - 1]
  ELSE LET read == readRecordFrom(s, p)
       IN  IF read.status = "ok"
             THEN ScanFrom(s, p + Number(s[p]) + 1, Append(got, read.result),
                           Append(at, [offset |-> p, size |-> Number(s[p]) + 1]))
             ELSE [status |-> read.status, recs |-> got, places |-> at, end |-> p - 1]

Scan(s) == ScanFrom(s, logHeaderSize + 1, <<>>, <<>>)

(* The records of a log; none where there is no header yet. *)
Scanned(s) == IF HeaderGood(s) THEN Scan(s).recs ELSE <<>>

(* The file becomes s. *)
Set(s) == file' = s /\ recs' = Scanned(s)

(* WriteAt: cells c over what follows the first n cells of s. *)
WriteAt(s, n, c) == SubSeq(s, 1, n) \o c \o SubSeq(s, n + Len(c) + 1, Len(s))

Fails == faults < MaxFaults /\ faults' = faults + 1

(* remap to cover n cells and the slack; once it fails it is not tried     *)
(* again, and reads go to the file.                                        *)
Remap(n) ==
  \/ ~mapDisabled /\ mapped' = n + mapSlack /\ UNCHANGED <<mapDisabled, faults>>
  \/ ~mapDisabled /\ mapped' = 0 /\ mapDisabled' = TRUE /\ Fails
  \/ mapDisabled /\ UNCHANGED <<mapped, mapDisabled, faults>>

(* The process ends, or gives the log up. *)
Gone == pc' = "down" /\ mapped' = 0 /\ mapDisabled' = FALSE /\ places' = <<>> /\ writePos' = 0

-----------------------------------------------------------------------------
(* An empty file, or the log of an earlier process; after a log this build *)
(* must not write there may be part of a record.                           *)
Init ==
  /\ \/ file = <<>>
     \/ \E r \in Inputs : file = Header(logVersion, 0) \o Encode(r)
     \/ \E r \in Inputs, n \in {0, 2} :
          file = Header(logVersion, 1) \o Encode(r) \o SubSeq(Encode(r), 1, n)
  /\ disk = file /\ pc = "down" /\ writePos = 0 /\ mapped = 0 /\ mapDisabled = FALSE
  /\ places = <<>> /\ recs = Scanned(file) /\ synced = Len(recs) /\ answered = Len(recs)
  /\ partial = FALSE /\ appends = 0 /\ faults = 0

(* openAppendLogFile writes the header of an empty file. *)
CreateLog ==
  /\ pc = "down" /\ file = <<>>
  /\ Set(Header(logVersion, 0)) /\ writePos' = logHeaderSize
  /\ Remap(logHeaderSize) /\ pc' = "scan"
  /\ UNCHANGED <<disk, places, synced, answered, partial, appends>>

(* Otherwise it reads the header; a bad one ends in an error. *)
OpenLog ==
  /\ pc = "down" /\ file # <<>> /\ HeaderGood(file)
  /\ writePos' = Len(file) /\ Remap(Len(file)) /\ pc' = "scan"
  /\ UNCHANGED <<file, disk, places, recs, synced, answered, partial, appends>>

(* Mutant: the torn record is skipped and stays in the file. *)
Cut_Nothing(scan) == UNCHANGED <<writePos, file, recs>>

(* Mutant: the file is cut and writePos is not set back. *)
Cut_KeepsSize(scan) ==
  UNCHANGED writePos /\ Set(IF ReadOnly(file) THEN file ELSE SubSeq(file, 1, scan.end))

(* An incomplete record is cut off, or only passed over when the log must  *)
(* not be written.                                                         *)
Cut(scan) ==
  /\ writePos' = scan.end
  /\ Set(IF ReadOnly(file) THEN file ELSE SubSeq(file, 1, scan.end))

(* Iterate, under Store.recover; on an error Open closes the log. *)
Iterate ==
  /\ pc = "scan"
  /\ LET scan == Scan(file)
     IN  \/ /\ scan.status = "ok" /\ pc' = "open" /\ places' = scan.places
            /\ UNCHANGED <<file, recs, writePos, mapped, mapDisabled, faults>>
         \/ /\ scan.status = "eof" /\ pc' = "open" /\ places' = scan.places
            /\ Cut(scan) /\ UNCHANGED <<mapped, mapDisabled, faults>>
         \/ /\ scan.status = "eof" /\ ~ReadOnly(file) /\ Fails /\ Gone /\ UNCHANGED <<file, recs>>
         \/ /\ scan.status = "bad" /\ Gone /\ UNCHANGED <<file, recs, faults>>
  /\ partial' = (partial /\ pc' # "open")
  /\ UNCHANGED <<disk, synced, answered, appends>>

(* Append takes records for a log of this version that may be written. *)
Writable ==
  pc = "open" /\ Number(file[2]) = logVersion /\ ~ReadOnly(file) /\ appends < MaxAppends

(* Mutant: the index is given the offset after the record. *)
PlaceOf_Late(r) == [offset |-> writePos + Len(Encode(r)), size |-> Len(Encode(r))]

(* Where Append says the record is. *)
PlaceOf(r) == [offset |-> writePos + 1, size |-> Len(Encode(r))]

(* Append; the map is renewed when the log has outgrown it. *)
AppendRecord(r) ==
  /\ Writable /\ Fits(r) /\ appends' = appends + 1
  /\ Set(WriteAt(file, writePos, Encode(r)))
  /\ writePos' = writePos + Len(Encode(r)) /\ places' = Append(places, PlaceOf(r))
  /\ IF writePos' > mapped THEN Remap(writePos')
                           ELSE UNCHANGED <<mapped, mapDisabled, faults>>
  /\ answered' = answered + 1
  /\ UNCHANGED <<disk, pc, synced, partial>>

(* Mutant: writePos counts what was written. *)
AppendFails_Advances(r, n) ==
  /\ Writable /\ Fits(r) /\ appends' = appends + 1 /\ Fails
  /\ n < Len(Encode(r)) /\ Set(WriteAt(file, writePos, SubSeq(Encode(r), 1, n)))
  /\ writePos' = writePos + n
  /\ partial' = (partial \/ n > 0)
  /\ UNCHANGED <<disk, pc, mapped, mapDisabled, places, synced, answered>>

(* WriteAt fails after n cells, and Append returns with writePos where it  *)
(* was.                                                                    *)
AppendFails(r, n) ==
  /\ Writable /\ Fits(r) /\ appends' = appends + 1 /\ Fails
  /\ n < Len(Encode(r)) /\ Set(WriteAt(file, writePos, SubSeq(Encode(r), 1, n)))
  /\ partial' = (partial \/ n > 0)
  /\ UNCHANGED <<disk, pc, writePos, mapped, mapDisabled, places, synced, answered>>

(* appendLog.Sync; a failing one changes nothing. *)
Sync ==
  /\ pc = "open" /\ disk' = file /\ synced' = Len(recs)
  /\ UNCHANGED <<file, recs, pc, writePos, mapped, mapDisabled, places, answered, partial, appends,
                 faults>>

(* appendLog.Close *)
Close ==
  /\ pc = "open" /\ Gone
  /\ UNCHANGED <<file, recs, disk, synced, answered, partial, appends, faults>>

(* The process dies, perhaps n cells into a record. *)
Crash(r, n) ==
  /\ pc # "down" /\ n < Len(Encode(r)) /\ (n > 0 => Writable)
  /\ Set(WriteAt(file, IF n = 0 THEN Len(file) ELSE writePos, SubSeq(Encode(r), 1, n)))
  /\ Gone
  /\ UNCHANGED <<disk, synced, answered, partial, appends, faults>>

(* What a power failure may leave: the file as of the last fsync, or with  *)
(* it the first cells written since.  The header is smaller than a sector  *)
(* and is not torn.  A truncation that is not on the disk leaves the old   *)
(* cells behind the new ones.                                              *)
Leftovers ==
  LET common == Cardinality({n \in DOMAIN file : IsPrefix(SubSeq(file, 1, n), disk)})
      firsts == {SubSeq(file, 1, n) : n \in common..Len(file)}
      mixed  == {WriteAt(disk, 0, f) : f \in firsts}
  IN  {s \in {disk} \cup firsts \cup (IF TruncateFirst THEN {} ELSE mixed) :
         Len(s) \notin 1..logHeaderSize - 1}

(* The machine dies. *)
PowerFailure ==
  /\ \E s \in Leftovers : Set(s) /\ disk' = s
  /\ synced' = Len(recs') /\ answered' = Len(recs')
  /\ Gone
  /\ UNCHANGED <<partial, appends, faults>>

Next ==
  \/ CreateLog \/ OpenLog \/ Iterate \/ Sync \/ Close \/ PowerFailure
  \/ \E r \in Inputs : AppendRecord(r)
  \/ \E r \in Inputs : \E n \in 0..Len(Encode(r)) : AppendFails(r, n) \/ Crash(r, n)

Spec == Init /\ [][Next]_vars

-----------------------------------------------------------------------------
(* Every variable has its type, and the size of the log is within the file.*)
TypeOK ==
  /\ pc \in {"down", "scan", "open"}
  /\ writePos \in 0..Len(file) /\ (pc # "down" => writePos >= logHeaderSize)
  /\ mapped \in Nat /\ mapDisabled \in BOOLEAN
  /\ places \in Seq([offset : Nat, size : Nat])

(* Open accepts the log: README.md, "discards an incomplete trailing       *)
(* record, and rejects checksum corruption", which an interrupted write is *)
(* not.                                                                    *)
Acceptable == file = <<>> \/ (HeaderGood(file) /\ Scan(file).status # "bad")

(* Open accepts whatever a crash or a power failure leaves, any number of  *)
(* them one after the other and with synchronized, torn and cut records    *)
(* between, unless a failed append left cells that a shorter record was    *)
(* then written over.                                                      *)
Reopens == partial \/ Acceptable

(* mappedRecord: the record is read through the map. *)
MapCovers(place) ==
  LET end == place.offset + place.size - 1
  IN  mapped # 0 /\ place.offset > logHeaderSize /\ end <= writePos /\ end <= mapped

(* ReadRecordAt and its variants; touching the map behind the end of the   *)
(* file would end the process.                                             *)
ReadRecordAt(place) ==
  IF place.offset + place.size - 1 > Len(file)
    THEN IF MapCovers(place) THEN [status |-> "fault"] ELSE Eof
    ELSE validateStoredRecord(Slice(file, place.offset, place.size))

(* Every place the index was given, by Append or by the scan, reads back   *)
(* the value and extensions of its record, through the map or from the     *)
(* file, after remaps, failed appends and recoveries.                      *)
PlacesRead ==
  pc = "open" =>
    /\ Len(places) = Len(recs)
    /\ \A i \in DOMAIN places :
         ReadRecordAt(places[i]) = Ok([value      |-> recs[i].value,
                                       extensions |-> recs[i].extensions])

(* The log implements AbstractLog: an Append adds one record, a power      *)
(* failure takes back only records that were not synchronized, and         *)
(* nothing else changes what a scan finds.                                 *)
Abstract == INSTANCE AbstractLog

LogImplements == Abstract!Spec
=============================================================================
