---------------------------- MODULE JsonDocument ----------------------------
(***************************************************************************)
(* The tree that lazybiosParseJSONAll and the serializers build under the  *)
(* caller's cJSON root.                                                    *)
(*                                                                         *)
(* Each serializer adds one child: an array with a record for each entry   *)
(* of the set, or null for a NULL set.  The OEM serializers put theirs in  *)
(* an object of the vendor inside the object "oem", which the first of     *)
(* them creates.  Any allocation may fail; the serializers return nothing, *)
(* and do not look at what cJSON_AddItemToObject returns.                  *)
(***************************************************************************)
EXTENDS Integers, Sequences, FiniteSets

CONSTANTS
  Order,         \* the structure types, as lazybiosParseJSONAll adds them
  Vendor,        \* the vendor of each type, "" for the standard ones
  Vendors,
  MaxEntries,    \* bound: structures of a type in the table
  MaxCalls,      \* bound: calls of the client
  MaxFailures    \* bound: allocations that fail

Types == {Order[k] : k \in DOMAIN Order}

ASSUME VendorAssumption ==
  /\ Order \in Seq(Types)
  /\ Vendor \in [Types -> Vendors \union {""}] /\ "" \notin Vendors

(* No two of the names that the serializers use are the same. *)
ASSUME NamesAssumption ==
  /\ Types \intersect (Vendors \union {"oem", "smbios_info"}) = {}
  /\ Vendors \intersect {"oem", "smbios_info"} = {}

ASSUME BoundsAssumption ==
  MaxEntries \in Nat /\ MaxCalls \in Nat /\ MaxFailures \in Nat

VARIABLES
  loaded, tag, table,   \* the context's table: entry_tag, entries of a type
  sets,                 \* its parsed sets
  pc, todo,             \* the serializers that remain of the call
  at, item,             \* the object an item goes to, and the item
  nodes,                \* every node that was put together, in that order
  calls, failures,
  asked                 \* how often each type's serializer was called

context  == <<loaded, tag, table>>
vars     == <<context, sets, pc, todo, at, item, nodes, calls, failures,
              asked>>

NULL     == -1                     \* a set that is not there
Root     == 0
Nothing  == {}                     \* a pointer that is NULL
MayFail  == failures < MaxFailures /\ failures' = failures + 1

(* A node, and whether its parent holds it: the last of a chain of parents *)
(* that all do is the root.                                                *)
Node(name, parent, held, shows, value) ==
  [name |-> name, parent |-> parent, held |-> held, shows |-> shows,
   value |-> value]

InTree(i) ==
  LET held[j \in 0 .. Len(nodes)] ==
        j = Root \/ (nodes[j].held /\ held[nodes[j].parent])
  IN  held[i]

(* cJSON_GetObjectItemCaseSensitive *)
GetItem(parent, name) ==
  {i \in DOMAIN nodes :
     nodes[i].held /\ nodes[i].parent = parent /\ nodes[i].name = name}

-----------------------------------------------------------------------------
(* The entry point.                                                        *)

cJSON_False == 1
cJSON_True  == 2

(* cJSON_CreateBool, of an int *)
CreateBool(boolean) == boolean # 0

(* lazybiosExtJSONAddSMBIOSInfo, is_64bit: "null" for another tag. *)
Is64Bit ==
  IF tag = "3x" THEN {CreateBool(cJSON_True)}
  ELSE IF tag = "2x" THEN {CreateBool(cJSON_False)}
  ELSE Nothing

AddInfo ==
  /\ pc = "info"
  /\ nodes' = Append(nodes, Node("smbios_info", Root, TRUE, "object", Is64Bit))
  /\ pc' = "next"
  /\ UNCHANGED <<context, sets, todo, at, item, calls, failures, asked>>

(* The object is not created, or not taken by the root. *)
InfoFails ==
  /\ pc = "info" /\ MayFail
  /\ \/ UNCHANGED nodes
     \/ nodes' = Append(nodes,
                        Node("smbios_info", Root, FALSE, "object", Is64Bit))
  /\ pc' = "next"
  /\ UNCHANGED <<context, sets, todo, at, item, calls, asked>>

-----------------------------------------------------------------------------
(* lazybiosExtJSONAddTypeN and lazybiosExtJSONAddOem..., for Head(todo).   *)

Type == Head(todo)

First == IF Vendor[Type] = "" THEN "attach" ELSE "oem"

(* Mutant: nothing is written for a NULL set. *)
NullSetSkipped ==
  /\ pc = "next" /\ todo # <<>> /\ sets[Type] = NULL
  /\ todo' = Tail(todo)
  /\ asked' = [asked EXCEPT ![Type] = @ + 1]
  /\ UNCHANGED <<context, sets, pc, at, item, nodes, calls, failures>>

NullSet ==
  /\ pc = "next" /\ todo # <<>> /\ sets[Type] = NULL
  /\ item' = [shows |-> "null", value |-> Nothing]
  /\ at' = {Root} /\ pc' = First
  /\ asked' = [asked EXCEPT ![Type] = @ + 1]
  /\ UNCHANGED <<context, sets, todo, nodes, calls, failures>>

(* The records that can be created. *)
CreateArray ==
  /\ pc = "next" /\ todo # <<>> /\ sets[Type] # NULL
  /\ \E n \in 0 .. sets[Type] :
       /\ failures' = failures + (sets[Type] - n) /\ failures' <= MaxFailures
       /\ item' = [shows |-> "array", value |-> {n}]
  /\ at' = {Root} /\ pc' = First
  /\ asked' = [asked EXCEPT ![Type] = @ + 1]
  /\ UNCHANGED <<context, sets, todo, nodes, calls>>

(* The serializer returns, and the next one is called. *)
NoArray ==
  /\ pc = "next" /\ todo # <<>> /\ sets[Type] # NULL /\ MayFail
  /\ asked' = [asked EXCEPT ![Type] = @ + 1]
  /\ todo' = Tail(todo)
  /\ UNCHANGED <<context, sets, pc, at, item, nodes, calls>>

(* Mutant: the name of one vendor in a serializer copied for another. *)
ObjectNameCopied ==
  IF pc = "oem" THEN "oem" ELSE CHOOSE v \in Vendors : TRUE

(* oem_vendor_object: first the object "oem", then the vendor's in it. *)
ObjectName == IF pc = "oem" THEN "oem" ELSE Vendor[Type]
AfterObject == IF pc = "oem" THEN "vendor" ELSE "attach"

(* Mutant: the object that was created is remembered and used again, also  *)
(* when its parent did not take it.                                        *)
FindObjectRemembered ==
  /\ pc \in {"oem", "vendor"}
  /\ \/ at = Nothing /\ UNCHANGED at
     \/ \E parent \in at, i \in DOMAIN nodes :
          /\ nodes[i].parent = parent /\ nodes[i].name = ObjectName
          /\ at' = {i}
  /\ pc' = AfterObject
  /\ UNCHANGED <<context, sets, todo, item, nodes, calls, failures, asked>>

FindObject ==
  /\ pc \in {"oem", "vendor"}
  /\ \/ at = Nothing /\ UNCHANGED at
     \/ \E parent \in at, i \in DOMAIN nodes :
          i \in GetItem(parent, ObjectName) /\ at' = {i}
  /\ pc' = AfterObject
  /\ UNCHANGED <<context, sets, todo, item, nodes, calls, failures, asked>>

(* Mutant: the object is created whether there is one or not. *)
CreateObjectAlways ==
  /\ pc \in {"oem", "vendor"}
  /\ \E parent \in at :
       nodes' = Append(nodes, Node(ObjectName, parent, TRUE,
                                   "object", Nothing))
  /\ at' = {Len(nodes')} /\ pc' = AfterObject
  /\ UNCHANGED <<context, sets, todo, item, calls, failures, asked>>

(* The object that is created is used, also when its parent did not take it. *)
CreateObject ==
  /\ pc \in {"oem", "vendor"}
  /\ \E parent \in at :
       /\ GetItem(parent, ObjectName) = {}
       /\ \E held \in BOOLEAN :
            /\ IF held THEN UNCHANGED failures ELSE MayFail
            /\ nodes' = Append(nodes, Node(ObjectName, parent, held,
                                           "object", Nothing))
  /\ at' = {Len(nodes')} /\ pc' = AfterObject
  /\ UNCHANGED <<context, sets, todo, item, calls, asked>>

NoObject ==
  /\ pc \in {"oem", "vendor"} /\ MayFail
  /\ \E parent \in at : GetItem(parent, ObjectName) = {}
  /\ at' = Nothing /\ pc' = AfterObject
  /\ UNCHANGED <<context, sets, todo, item, nodes, calls, asked>>

(* cJSON_AddItemToObject, cJSON_AddNullToObject *)
Attach ==
  /\ pc = "attach"
  /\ \E parent \in at :
       nodes' = Append(nodes, Node(Type, parent, TRUE, item.shows, item.value))
  /\ pc' = "next" /\ todo' = Tail(todo)
  /\ UNCHANGED <<context, sets, at, item, calls, failures, asked>>

(* There is no such object, or the object does not take the item.  A null  *)
(* is deleted then, an array is not.                                       *)
AttachFails ==
  /\ pc = "attach"
  /\ IF at = Nothing THEN UNCHANGED failures ELSE MayFail
  /\ nodes' = IF item.shows = "null" THEN nodes
              ELSE Append(nodes, Node(Type, Root, FALSE, "array", item.value))
  /\ pc' = "next" /\ todo' = Tail(todo)
  /\ UNCHANGED <<context, sets, at, item, calls, asked>>

-----------------------------------------------------------------------------
(* The client.                                                             *)

Called == pc = "idle" /\ calls < MaxCalls /\ calls' = calls + 1

(* One serializer, of a set the client has, or of NULL. *)
AddOne ==
  /\ Called
  /\ \E t \in Types : todo' = <<t>>
  /\ pc' = "next"
  /\ UNCHANGED <<context, sets, at, item, nodes, failures, asked>>

(* lazybiosParseJSONAll: lazybiosParseAll fills the sets that are NULL. *)
ParseJSONAll ==
  /\ Called /\ loaded
  /\ \E failed \in SUBSET {t \in Types : sets[t] = NULL} :
       /\ failures' = failures + Cardinality(failed)
       /\ failures' <= MaxFailures
       /\ sets' = [t \in Types |-> IF t \in failed THEN NULL ELSE table[t]]
  /\ todo' = Order /\ pc' = "info"
  /\ UNCHANGED <<context, at, item, nodes, asked>>

(* It returns -1 and adds nothing without a table. *)
ParseJSONAllRejects ==
  /\ Called /\ ~loaded
  /\ UNCHANGED <<context, sets, pc, todo, at, item, nodes, failures, asked>>

Returns ==
  /\ pc = "next" /\ todo = <<>>
  /\ pc' = "idle"
  /\ UNCHANGED <<context, sets, todo, at, item, nodes, calls, failures, asked>>

Init ==
  /\ loaded \in BOOLEAN /\ tag \in {"2x", "3x", "unknown"}
  /\ table \in [Types -> 0 .. MaxEntries]
  /\ IF loaded
     THEN \E s \in SUBSET Types :
            sets = [t \in Types |-> IF t \in s THEN table[t] ELSE NULL]
     ELSE sets = [t \in Types |-> NULL]
  /\ pc = "idle" /\ todo = <<>> /\ at = Nothing
  /\ item = [shows |-> "null", value |-> Nothing]
  /\ nodes = <<>> /\ calls = 0 /\ failures = 0 /\ asked = [t \in Types |-> 0]

Next ==
  \/ AddOne \/ ParseJSONAll \/ ParseJSONAllRejects \/ Returns
  \/ AddInfo \/ InfoFails
  \/ NullSet \/ CreateArray \/ NoArray
  \/ FindObject \/ CreateObject \/ NoObject
  \/ Attach \/ AttachFails

Spec == Init /\ [][Next]_vars

-----------------------------------------------------------------------------
Tree       == {i \in DOMAIN nodes : InTree(i)}
NodesOf(t) == {i \in Tree : nodes[i].name = t}

TypeOK ==
  /\ sets \in [Types -> -1 .. MaxEntries]
  /\ pc \in {"idle", "info", "next", "oem", "vendor", "attach"}
  /\ \A k \in DOMAIN todo : todo[k] \in Types
  /\ pc = "idle" => todo = <<>>
  /\ at \subseteq 0 .. Len(nodes) /\ Cardinality(at) <= 1
  /\ \A i \in DOMAIN nodes :
       /\ nodes[i].parent \in 0 .. i - 1
       /\ nodes[i].shows \in {"null", "array", "object"}

(* The vendors' types meet in one object for each vendor and one "oem",    *)
(* whichever serializer comes first, is left out, or fails on the way.     *)
OneObjectPerVendor ==
  /\ TypeOK
  /\ \A i, j \in Tree :
       /\ nodes[i].shows = "object" /\ nodes[i].name = nodes[j].name
       /\ nodes[i].name # "smbios_info"
       => i = j

(* The path of a type leads through its vendor's object. *)
PathOf(i) ==
  LET up == nodes[i].parent
  IN  IF up = Root THEN <<>>
      ELSE <<nodes[nodes[up].parent].name, nodes[up].name>>

(* A child in the tree shows the set of its type: an array holds as many   *)
(* records as the table has entries, or fewer when one could not be        *)
(* created, never stands for a NULL set, and is inside its own vendor's    *)
(* object.                                                                 *)
ShowsTheSet ==
  \A t \in Types : \A i \in NodesOf(t) :
    /\ nodes[i].shows = "array" =>
         /\ sets[t] = table[t]
         /\ \A n \in nodes[i].value :
              n <= table[t] /\ (failures = 0 => n = table[t])
    /\ PathOf(i) = IF Vendor[t] = "" THEN <<>> ELSE <<"oem", Vendor[t]>>

(* lazybiosParseJSONAll is as good as every call it stands for: unless an  *)
(* allocation failed, each serializer that was called, by it or by the     *)
(* client, has added its one child to the tree.                            *)
EachCallAddsOne ==
  pc = "idle" /\ failures = 0 =>
    \A t \in Types : Cardinality(NodesOf(t)) = asked[t]

(* The children that the calls asked for, and those that are in the tree. *)
Requests == UNION {{t} \X (1 .. asked[t]) : t \in Types}
Children == {i \in Tree : nodes[i].name \in Types}

(* An allocation that fails costs the document one child at most: what the *)
(* OEM types share is found in the document or created again, so an object *)
(* that could not be created, or that its parent did not take, is lost     *)
(* with the one type that asked for it and not with those that follow.     *)
FailureCostsOneChild ==
  pc = "idle" => Cardinality(Requests) <= Cardinality(Children) + failures

(* test.c prints "Is 64-bit: No" for an entry point of SMBIOS 2.x, and     *)
(* "Yes" for one of 3.x.                                                   *)
Is64BitOnlyOf3x ==
  \A i \in DOMAIN nodes :
    nodes[i].name = "smbios_info" =>
      nodes[i].value = (IF tag = "3x" THEN {TRUE}
                        ELSE IF tag = "2x" THEN {FALSE} ELSE {})

=============================================================================
