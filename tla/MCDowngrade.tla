---------------------------- MODULE MCDowngrade -----------------------------
(* Small instances of Downgrade for TLC. *)
EXTENDS Downgrade

Plain(k, v) == [key |-> k, val |-> v, deleted |-> FALSE, extended |-> FALSE,
                attributed |-> FALSE]

Gone(k) == [Plain(k, 0) EXCEPT !.deleted = TRUE]

Of(recs) == [version |-> 5, features |-> 0, recs |-> recs, torn |-> FALSE]

(* Keys written again and deleted; records some format has no room for;    *)
(* logs that are refused; no log at all.                                   *)
MCSources ==
  {Of(<<Plain("a", 1), Plain("b", 1), Plain("a", 2)>>),
   Of(<<Plain("a", 1), Gone("a"), Plain("b", 1), Plain("a", 2)>>),
   Of(<<Plain("a", 1), [Plain("b", 1) EXCEPT !.attributed = TRUE]>>),
   Of(<<Plain("a", 1), [Plain("b", 1) EXCEPT !.extended = TRUE]>>),
   [Of(<<Plain("a", 1)>>) EXCEPT !.features = 1, !.torn = TRUE],
   [Of(<<Plain("a", 1)>>) EXCEPT !.version = 4, !.torn = TRUE],
   [Of(<<Plain("a", 1)>>) EXCEPT !.version = 3],
   NoLog}

(* Two sources for two runs at once. *)
TwoSources == {Of(<<Plain("a", 1), Plain("b", 1)>>), Of(<<Plain("c", 1)>>)}
=============================================================================
