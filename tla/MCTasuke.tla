------------------------------ MODULE MCTasuke ------------------------------
(* Small instances of Tasuke for TLC. *)
EXTENDS Tasuke

T(d, e, r) == [desc |-> d, end |-> e, rest |-> r, done |-> FALSE]

MCAll == {"add", "remove", "edit", "clear", "done", "undone"}

\* A timed task and a floating one, told apart by every sort.
MCPlain == {T(2, 1, "a"), T(1, NoTime, "a")}
=============================================================================
