-------------------------- MODULE MCTasukeTimeline --------------------------
(* Small instances of TasukeTimeline for TLC. *)
EXTENDS TasukeTimeline

T(d, e, r) == [desc |-> d, end |-> e, rest |-> r, done |-> FALSE]

MCAll == {"add", "remove", "edit", "clear", "done", "undone"}
MCAddRemove == {"add", "remove"}
MCNoEdit == {"add", "remove", "clear", "done", "undone"}

\* Two contents the order tells apart.
MCTwo == {T(2, 1, "a"), T(1, NoTime, "a")}

\* Two contents the order does not tell apart.
MCTies == {T(1, NoTime, "a"), T(1, NoTime, "b")}
=============================================================================
