--------------------------- MODULE MCRecordExport ---------------------------
(***************************************************************************)
(* Every structure type, over the records of MCRecordParse, and with the   *)
(* values that JSON writes under another key.                              *)
(***************************************************************************)
EXTENDS RecordExport, MCRecordParse

MCOdd(t) == {w.of : w \in {v \in Jsons[t] : v.oddKey # ""}}

MCExportContents(t) ==
  MCContents(t) \union
  {[r EXCEPT !.special = MCOdd(t)] : r \in MCContents(t)}

=============================================================================
