-------------------------- MODULE TableRefinement --------------------------
(***************************************************************************)
(* Module TableWalk implements TableContract.  Building the index,         *)
(* counting and walking do not show; the index is no part of the answer.   *)
(***************************************************************************)
EXTENDS TableWalk

Contract ==
  INSTANCE TableContract WITH
    state  <- CASE pc \in {"build", "ready"} -> "idle"
                [] pc \in {"count", "walk"}  -> "asked"
                [] pc = "done"               -> "answered",
    asked  <- target,
    answer <- IF pc = "done" THEN entries ELSE << >>

(* Every step of the three loops is a step of the contract or changes      *)
(* nothing it speaks of: whether a getter starts from the index or counts, *)
(* it returns the records of its type, complete, in order and with their   *)
(* strings, and no call before it shows in them.                           *)
ImplementsTableContract == Contract!Spec

=============================================================================
