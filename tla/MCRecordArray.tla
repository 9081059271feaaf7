--------------------------- MODULE MCRecordArray ---------------------------
(***************************************************************************)
(* Every structure type that owns blocks, with up to two structures and    *)
(* two failing allocations.                                                *)
(***************************************************************************)
EXTENDS RecordArray, RecordStructs

MCTypes == DOMAIN Structs

(* A record that holds everything, one that holds nothing, and those that  *)
(* do without one block.                                                   *)
MCNeeds(t) ==
  {{}, BlocksOf(t)} \union {BlocksOf(t) \ {b} : b \in BlocksOf(t)}

(* The blocks are those the structs of the headers have pointers to. *)
ASSUME BlocksOfStructs ==
  \A t \in MCTypes : BlocksOf(t) = Blocks(Structs[t])

=============================================================================
