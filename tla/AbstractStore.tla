---------------------------- MODULE AbstractStore ----------------------------
(***************************************************************************)
(* What the store promises its client, with no files in sight: a map that  *)
(* Put and Delete change one key at a time, and that a power failure may   *)
(* roll back, but only to contents it has had since it was last            *)
(* synchronized.  Compaction, crashes of the process and recovery do not   *)
(* exist at this level.                                                    *)
(***************************************************************************)
CONSTANTS Keys, Values, Absent

VARIABLES kv,     \* the contents a process that opens the store finds
          recent  \* the contents since the last sync that succeeded

Init ==
  /\ kv \in [Keys -> Values \cup {Absent}]
  /\ recent = {kv}

Write(k, v) ==
  /\ kv' = [kv EXCEPT ![k] = v]
  /\ recent' = recent \cup {kv'}

Put(k, v) == Write(k, v)

Delete(k) == kv[k] # Absent /\ Write(k, Absent)

Sync ==
  /\ recent' = {kv}
  /\ UNCHANGED kv

PowerFailure ==
  /\ kv' \in recent
  /\ recent' = {kv'}

Next ==
  \/ \E k \in Keys, v \in Values : Put(k, v)
  \/ \E k \in Keys : Delete(k)
  \/ Sync
  \/ PowerFailure

Spec == Init /\ [][Next]_<<kv, recent>>
=============================================================================
