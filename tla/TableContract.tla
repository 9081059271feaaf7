--------------------------- MODULE TableContract ---------------------------
(***************************************************************************)
(* What the getters promise a client of one loaded table, with no index,   *)
(* no counting and no position: asked for a type, they answer with the     *)
(* records of its structures, each once, in the order of the table -- the  *)
(* same answer every time, as the table never changes.                     *)
(*                                                                         *)
(* Module TableWalk implements this (TableRefinement).                     *)
(***************************************************************************)
EXTENDS TableContents

VARIABLES
  state,         (* idle, asked, answered                                  *)
  asked,         (* the type asked for last                                *)
  answer         (* the records handed over                                *)

contractVars == <<table, state, asked, answer>>

Init ==
  /\ table \in Tables
  /\ state = "idle"
  /\ asked \in Byte
  /\ answer = << >>

(* The records of a type. *)
Answers(ty, records) ==
  /\ {records[i].at : i \in 1 .. Len(records)} = OfType(ty)
  /\ \A i, j \in 1 .. Len(records) : i < j => records[i].at < records[j].at
  /\ \A i \in 1 .. Len(records) : records[i] = RecordOf(records[i].at)

(* lazybiosGetTypeN is called, *)
Ask(ty) ==
  /\ state = "idle"
  /\ state' = "asked"
  /\ asked' = ty
  /\ UNCHANGED <<table, answer>>

(* and returns. *)
Answer ==
  /\ state = "asked"
  /\ state' = "answered"
  /\ Answers(asked, answer')
  /\ UNCHANGED <<table, asked>>

(* The client is done with the records. *)
Release ==
  /\ state = "answered"
  /\ state' = "idle"
  /\ answer' = << >>
  /\ UNCHANGED <<table, asked>>

Next ==
  \/ Answer \/ Release
  \/ \E ty \in Byte : Ask(ty)

Spec == Init /\ [][Next]_contractVars

=============================================================================
