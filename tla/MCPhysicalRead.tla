--------------------------- MODULE MCPhysicalRead ---------------------------
(* An instance of PhysicalRead with types of three to five bits, in which  *)
(* every width matters: a range may exceed the device, off_t or, rounded   *)
(* to pages, size_t, and a read may return less than is wanted.            *)
EXTENDS PhysicalRead
=============================================================================
