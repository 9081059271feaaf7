------------------------- MODULE ContextRefinement -------------------------
(***************************************************************************)
(* Module Context implements ContextContract.  Until lazybiosInit has      *)
(* returned 0 the abstract context holds nothing, whatever entry bytes and *)
(* half-read tables the loaders have put into the concrete one.            *)
(***************************************************************************)
EXTENDS Context

Loaded == status = "loaded"

Contract ==
  INSTANCE ContextContract WITH
    phase   <- status,
    entry   <- IF Loaded THEN heap[ptr["entry_union"]] ELSE NULL,
    table   <- IF Loaded THEN heap[ptr["dmi_data"]] ELSE NULL,
    records <- [t \in Types |-> IF ptr[t] = NULL THEN NULL ELSE heap[ptr[t]]]

(* Every step of the code is a step of the contract or changes nothing the *)
(* contract speaks of: lazybiosInit loads a complete pair of one image or  *)
(* nothing, at the moment it returns, and no failure in between shows.     *)
ImplementsContract == Contract!Spec

=============================================================================
