-------------------------- MODULE ContextContract --------------------------
(***************************************************************************)
(* What lazybios.h promises a client of one context, with no heap, no      *)
(* loaders and no partial failure: lazybiosInit either loads an entry      *)
(* point and the table that belongs to it, or loads nothing; a getter      *)
(* returns the records of that table or nothing; lazybiosCleanup ends it.  *)
(*                                                                         *)
(* Module Context implements this for a client that calls lazybiosInit     *)
(* once (ContextRefinement).                                               *)
(***************************************************************************)
CONSTANTS Firmware, NULL, Types

VARIABLES
  phase,         (* what the client knows: none, fresh, failed, loaded     *)
  entry,         (* the image the parsed entry point comes from            *)
  table,         (* the image the table comes from                         *)
  records        (* the image the records of a parsed set come from        *)

vars == <<phase, entry, table, records>>

Init ==
  /\ phase = "none"
  /\ entry = NULL
  /\ table = NULL
  /\ records = [t \in Types |-> NULL]

(* lazybiosCTXNew *)
Open ==
  /\ phase = "none"
  /\ phase' = "fresh"
  /\ UNCHANGED <<entry, table, records>>

(* lazybiosInit: the pair, or nothing. *)
Load ==
  /\ phase = "fresh"
  /\ phase' = "loaded"
  /\ \E fw \in Firmware : entry' = fw /\ table' = fw
  /\ UNCHANGED records

LoadFails ==
  /\ phase = "fresh"
  /\ phase' = "failed"
  /\ UNCHANGED <<entry, table, records>>

(* A getter's result, assigned to a member that is NULL. *)
Get(t) ==
  /\ phase = "loaded"
  /\ records[t] = NULL
  /\ records' = [records EXCEPT ![t] = table]
  /\ UNCHANGED <<phase, entry, table>>

Drop(t) ==
  /\ records[t] # NULL
  /\ records' = [records EXCEPT ![t] = NULL]
  /\ UNCHANGED <<phase, entry, table>>

(* lazybiosCleanup *)
Close ==
  /\ phase # "none"
  /\ phase' = "none"
  /\ entry' = NULL
  /\ table' = NULL
  /\ records' = [t \in Types |-> NULL]

Next ==
  \/ Open \/ Load \/ LoadFails \/ Close
  \/ \E t \in Types : Get(t) \/ Drop(t)

Spec == Init /\ [][Next]_vars

=============================================================================
