---------------------------- MODULE RecordArray ----------------------------
(***************************************************************************)
(* Who owns the memory of a parsed set of records.                         *)
(*                                                                         *)
(* lazybiosGetTypeN allocates the set, an array with one record for each   *)
(* structure of the table, and then the blocks of each record.  Every      *)
(* allocation may fail.  Without the set, the array or a block it must     *)
(* have, the getter frees what it has and returns NULL; it goes on without *)
(* the others.  lazybiosFreeTypeN is called by the getter that gives up,   *)
(* and by the caller with the set it was given.                            *)
(*                                                                         *)
(* The walk over the table is the module TableWalk's; here each round of   *)
(* it finds the next structure.                                            *)
(***************************************************************************)
EXTENDS Naturals, RecordBlocks

CONSTANTS
  Types,           \* the structure types
  MaxStructures,   \* bound: structures of the type the table holds
  MaxFailures,     \* bound: allocations that fail
  Needs(_)         \* the sets of blocks a record of a type may call for

ASSUME BoundsAssumption == MaxStructures \in Nat /\ MaxFailures \in Nat
ASSUME NeedsAssumption ==
  \A t \in Types : Needs(t) \subseteq SUBSET BlocksOf(t)

ASSUME AllocsAssumption ==
  \A t \in Types : Allocs(t) \in Seq([block : STRING, fatal : BOOLEAN])

(* lazybiosFreeTypeN frees each block lazybiosGetTypeN allocates, once, and *)
(* an array after the blocks of its elements.                              *)
ASSUME FreesAssumption ==
  \A t \in Types :
    /\ Frees(t) \in Seq(BlocksOf(t))
    /\ \A b \in BlocksOf(t) : \E k \in DOMAIN Frees(t) : Frees(t)[k] = b
    /\ \A j, k \in DOMAIN Frees(t) :
         /\ Frees(t)[j] = Frees(t)[k] => j = k
         /\ Frees(t)[j] = Holder(Frees(t)[k]) => k < j

VARIABLES
  type, found,     \* what the getter looks for, and how many there are
  pc,
  out, entries,    \* the set and its array: "none", "live" or "freed"
  count,           \* out->count
  index,           \* the record being filled or freed
  step,            \* its next allocation, or its next free
  needs,           \* the blocks the record being filled calls for
  heap,            \* the blocks of each record that are allocated
  pointers,        \* the blocks of each record it has a pointer to
  returned,        \* what the getter returned: "none", "set" or "null"
  failures

table  == <<type, found>>
memory == <<out, entries, heap, pointers>>
vars   == <<table, pc, memory, count, index, step, needs, returned, failures>>

Records   == 0 .. found - 1
MayFail   == failures < MaxFailures /\ failures' = failures + 1
NextAlloc == Allocs(type)[step]
NextFree  == Frees(type)[step]

(* A block of an element is reached through the array that holds it. *)
Reachable(block, i) == Holder(block) \in pointers[i] \union {""}

Init ==
  /\ type \in Types /\ found \in 0 .. MaxStructures
  /\ pc = "set" /\ out = "none" /\ entries = "none"
  /\ count = 0 /\ index = 0 /\ step = 1 /\ needs = {}
  /\ heap = [i \in Records |-> {}] /\ pointers = [i \in Records |-> {}]
  /\ returned = "none" /\ failures = 0

-----------------------------------------------------------------------------
(* lazybiosGetTypeN.                                                       *)

AllocateSet ==
  /\ pc = "set"
  /\ out' = "live"
  /\ IF found = 0 THEN pc' = "returned" /\ returned' = "set"
                  ELSE pc' = "entries" /\ UNCHANGED returned
  /\ UNCHANGED <<table, entries, count, index, step, needs, heap, pointers,
                 failures>>

NoSet ==
  /\ pc = "set" /\ MayFail
  /\ pc' = "returned" /\ returned' = "null"
  /\ UNCHANGED <<table, memory, count, index, step, needs>>

AllocateEntries ==
  /\ pc = "entries"
  /\ entries' = "live" /\ pc' = "record"
  /\ UNCHANGED <<table, out, count, index, step, needs, heap, pointers,
                 returned, failures>>

NoEntries ==
  /\ pc = "entries" /\ MayFail
  /\ out' = "freed" /\ pc' = "returned" /\ returned' = "null"
  /\ UNCHANGED <<table, entries, count, index, step, needs, heap, pointers>>

(* The next structure: what its bytes call for. *)
BeginRecord ==
  /\ pc = "record" /\ index < found
  /\ needs' \in Needs(type)
  /\ pc' = "blocks" /\ step' = 1
  /\ UNCHANGED <<table, memory, count, index, returned, failures>>

AllocateBlock ==
  /\ pc = "blocks" /\ step \in DOMAIN Allocs(type)
  /\ NextAlloc.block \in needs /\ Reachable(NextAlloc.block, index)
  /\ heap' = [heap EXCEPT ![index] = @ \union {NextAlloc.block}]
  /\ pointers' = [pointers EXCEPT ![index] = @ \union {NextAlloc.block}]
  /\ step' = step + 1
  /\ UNCHANGED <<table, pc, out, entries, count, index, needs, returned,
                 failures>>

SkipBlock ==
  /\ pc = "blocks" /\ step \in DOMAIN Allocs(type)
  /\ ~(NextAlloc.block \in needs /\ Reachable(NextAlloc.block, index))
  /\ step' = step + 1
  /\ UNCHANGED <<table, pc, memory, count, index, needs, returned, failures>>

(* The next allocation fails.  When it is for an element of an array, the  *)
(* elements before it may have their blocks.                               *)
NextFails ==
  /\ pc = "blocks" /\ step \in DOMAIN Allocs(type) /\ MayFail
  /\ NextAlloc.block \in needs /\ Reachable(NextAlloc.block, index)
  /\ \E some \in SUBSET {NextAlloc.block} :
       /\ some # {} => Holder(NextAlloc.block) # ""
       /\ heap' = [heap EXCEPT ![index] = @ \union some]
       /\ pointers' = [pointers EXCEPT ![index] = @ \union some]

(* The record can do without. *)
LoseBlock ==
  /\ NextFails /\ ~NextAlloc.fatal
  /\ step' = step + 1
  /\ UNCHANGED <<table, pc, out, entries, count, index, needs, returned>>

(* Mutant: the record that could not be finished is not counted. *)
GiveUpShort ==
  /\ NextFails /\ NextAlloc.fatal
  /\ count' = index
  /\ pc' = "freeing" /\ index' = 0 /\ step' = 1 /\ returned' = "null"
  /\ UNCHANGED <<table, out, entries, needs>>

(* Mutant: the getter frees the unfinished record by hand, and again with   *)
(* the set.                                                                *)
GiveUpByHand ==
  /\ pc = "blocks" /\ step \in DOMAIN Allocs(type) /\ MayFail
  /\ NextAlloc.block \in needs /\ NextAlloc.fatal
  /\ heap' = [heap EXCEPT ![index] = {}]
  /\ count' = index + 1
  /\ pc' = "freeing" /\ index' = 0 /\ step' = 1 /\ returned' = "null"
  /\ UNCHANGED <<table, out, entries, pointers, needs>>

(* out->count = index + 1; lazybiosFreeTypeN(out); return NULL *)
GiveUp ==
  /\ NextFails /\ NextAlloc.fatal
  /\ count' = index + 1
  /\ pc' = "freeing" /\ index' = 0 /\ step' = 1 /\ returned' = "null"
  /\ UNCHANGED <<table, out, entries, needs>>

EndRecord ==
  /\ pc = "blocks" /\ step \notin DOMAIN Allocs(type)
  /\ pc' = "record" /\ index' = index + 1
  /\ UNCHANGED <<table, memory, count, step, needs, returned, failures>>

(* Mutant: the count is only set where the getter gives up. *)
ReturnUncounted ==
  /\ pc = "record" /\ index = found
  /\ pc' = "returned" /\ returned' = "set"
  /\ UNCHANGED <<table, memory, count, index, step, needs, failures>>

Return ==
  /\ pc = "record" /\ index = found
  /\ count' = index
  /\ pc' = "returned" /\ returned' = "set"
  /\ UNCHANGED <<table, memory, index, step, needs, failures>>

-----------------------------------------------------------------------------
(* lazybiosFreeTypeN.                                                      *)

(* The caller is done with the set. *)
Free ==
  /\ pc = "returned" /\ returned = "set"
  /\ pc' = "freeing" /\ index' = 0 /\ step' = 1
  /\ UNCHANGED <<table, memory, count, needs, returned, failures>>

(* free() of one pointer, which does nothing when it is NULL. *)
FreeBlock ==
  /\ pc = "freeing" /\ index < count /\ step <= Len(Frees(type))
  /\ heap' = IF Reachable(NextFree, index)
             THEN [heap EXCEPT ![index] = @ \ {NextFree}] ELSE heap
  /\ step' = step + 1
  /\ UNCHANGED <<table, pc, out, entries, count, index, needs, pointers,
                 returned, failures>>

FreeNext ==
  /\ pc = "freeing" /\ index < count /\ step > Len(Frees(type))
  /\ index' = index + 1 /\ step' = 1
  /\ UNCHANGED <<table, pc, memory, count, needs, returned, failures>>

FreeSet ==
  /\ pc = "freeing" /\ index = count
  /\ entries' = (IF entries = "live" THEN "freed" ELSE entries)
  /\ out' = "freed" /\ pc' = "done"
  /\ UNCHANGED <<table, count, index, step, needs, heap, pointers, returned,
                 failures>>

Next ==
  \/ AllocateSet \/ NoSet \/ AllocateEntries \/ NoEntries
  \/ BeginRecord \/ AllocateBlock \/ SkipBlock \/ LoseBlock \/ GiveUp
  \/ EndRecord \/ Return
  \/ Free \/ FreeBlock \/ FreeNext \/ FreeSet

Spec == Init /\ [][Next]_vars

-----------------------------------------------------------------------------
TypeOK ==
  /\ type \in Types /\ found \in Nat
  /\ pc \in {"set", "entries", "record", "blocks", "returned", "freeing",
             "done"}
  /\ out \in {"none", "live", "freed"} /\ entries \in {"none", "live", "freed"}
  /\ count \in Nat /\ index \in Nat /\ step \in Nat \ {0}
  /\ needs \subseteq BlocksOf(type)
  /\ heap \in [Records -> SUBSET BlocksOf(type)]
  /\ pointers \in [Records -> SUBSET BlocksOf(type)]
  /\ returned \in {"none", "set", "null"} /\ failures \in Nat

Released ==
  /\ out # "live" /\ entries # "live"
  /\ \A i \in Records : heap[i] = {}

(* A caller that got NULL has nothing to free, and one that freed its set  *)
(* has freed all of it: whichever allocation of whichever record failed,   *)
(* no block of any record outlives the call.                               *)
NoLeak ==
  \/ pc = "done"
  \/ pc = "returned" /\ returned = "null"
  => Released

(* free() never gets a pointer twice, and no freed array is read to find   *)
(* the blocks of its elements.                                             *)
FreesLiveBlocks ==
  pc = "freeing" /\ index < count /\ step <= Len(Frees(type)) =>
    /\ Holder(NextFree) \in pointers[index] =>
         Holder(NextFree) \in heap[index]
    /\ NextFree \in pointers[index] => NextFree \in heap[index]

(* The set the caller gets counts every structure that was found, and its  *)
(* count never leads past the array.                                       *)
CountMatchesArray ==
  /\ pc = "returned" /\ returned = "set" => count = found
  /\ pc = "freeing" /\ count > 0 => entries = "live" /\ count <= found

=============================================================================
