--------------------------- MODULE MCJsonDocument ---------------------------
(***************************************************************************)
(* A standard type and the types of two vendors, one of which has two.     *)
(***************************************************************************)
EXTENDS JsonDocument

MCOrder   == <<"Type0", "Type177", "Type212", "Type204">>
MCVendors == {"dell", "hp"}
MCVendor  ==
  [t \in Types |-> CASE t \in {"Type177", "Type212"} -> "dell"
                     [] t = "Type204" -> "hp"
                     [] OTHER -> ""]

=============================================================================
