---------------------------- MODULE UndoTimeline ----------------------------
(***************************************************************************)
(* What undo and redo promise, whatever the commands are: the documents    *)
(* there have been form a line, the present one in it.  A command cuts off *)
(* what lies ahead and puts a new document in front; undo goes back to     *)
(* exactly the document before, redo forward to exactly the one after.     *)
(* Only the last Limit documents of the past are kept, and none survives   *)
(* the program, which reopens with the document it had.                    *)
(***************************************************************************)
EXTENDS Naturals, Sequences

CONSTANTS Docs, Limit

VARIABLES doc, past, future

timeline == <<doc, past, future>>

Newest(s) == s[Len(s)]
AllButNewest(s) == SubSeq(s, 1, Len(s) - 1)

Kept(s) ==
  IF Len(s) <= Limit THEN s ELSE SubSeq(s, Len(s) - Limit + 1, Len(s))

Init == doc \in Docs /\ past = <<>> /\ future = <<>>

Do ==
  /\ doc' \in Docs
  /\ past' = Kept(Append(past, doc))
  /\ future' = <<>>

Undo ==
  /\ past # <<>>
  /\ doc' = Newest(past)
  /\ past' = AllButNewest(past)
  /\ future' = Append(future, doc)

Redo ==
  /\ future # <<>>
  /\ doc' = Newest(future)
  /\ future' = AllButNewest(future)
  /\ past' = Append(past, doc)

Reopen == past' = <<>> /\ future' = <<>> /\ UNCHANGED doc

Next == Do \/ Undo \/ Redo \/ Reopen

Spec == Init /\ [][Next]_timeline
=============================================================================
