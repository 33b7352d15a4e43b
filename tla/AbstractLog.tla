---------------------------- MODULE AbstractLog -----------------------------
(***************************************************************************)
(* What the append log promises: a sequence of records that grows at its   *)
(* end and of which a power failure takes back at most what was appended   *)
(* after the last Sync.  DurableStore takes its files to be like this.     *)
(***************************************************************************)
EXTENDS Naturals, Sequences

CONSTANT Inputs   \* the records a client may append

VARIABLES recs,     \* the records in the log
          synced,   \* how many of them a successful Sync has covered
          answered  \* how many Append has answered for, less what was lost

vars == <<recs, synced, answered>>

(* A log left by an earlier process is on the disk. *)
Init == recs \in Seq(Inputs) /\ synced = Len(recs) /\ answered = Len(recs)

Add(r) == recs' = Append(recs, r) /\ answered' = answered + 1 /\ UNCHANGED synced

Sync == synced' = Len(recs) /\ UNCHANGED <<recs, answered>>

PowerFailure ==
  \E n \in synced..Len(recs) : recs' = SubSeq(recs, 1, n) /\ synced' = n /\ answered' = n

Next == (\E r \in Inputs : Add(r)) \/ Sync \/ PowerFailure

Spec == Init /\ [][Next]_vars
=============================================================================
