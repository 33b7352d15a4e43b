---------------------------- MODULE MCAppendLog -----------------------------
(* Small instances of AppendLog for TLC. *)
EXTENDS AppendLog

Short == [key |-> <<Num(1)>>, attributes |-> NoAttributes, value |-> <<>>,
          extensions |-> <<>>, deleted |-> TRUE]

Long  == [Short EXCEPT !.value = <<Num(0)>>, !.extensions = <<Num(9), Num(0)>>,
                       !.deleted = FALSE]

MCInputs == {Short, Long}
=============================================================================
