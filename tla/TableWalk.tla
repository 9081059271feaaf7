----------------------------- MODULE TableWalk -----------------------------
(***************************************************************************)
(* How a loaded table is read: lazybiosBuildTypeIndex walks it once and    *)
(* caches where each type begins; a getter then sizes its result from the  *)
(* cache and starts at the first structure of its type, or, without a      *)
(* valid cache, counts with lazybiosCountStructsByType and starts at the   *)
(* beginning.  The three loops have different stop conditions.             *)
(*                                                                         *)
(* One step is one iteration.  A record keeps what the proofs of a getter  *)
(* turn on: where it was found, its clamped length and one string member,  *)
(* the first byte after the header being its string index.                 *)
(***************************************************************************)
EXTENDS TableContents

CONSTANT
  IndexLimit     (* UINT32_MAX: the longest table that can be indexed      *)

ASSUME WalkAssumption ==
  /\ Byte \subseteq 0 .. 255
  /\ EndOfTable \in Byte
  /\ Tables \subseteq Seq(Byte)
  /\ IndexLimit \in Nat

VARIABLES
  index,         (* DMIData->index: per type, first offset and count       *)
  index_valid,
  pc,            (* the loop that is running                               *)
  p,             (* its position                                           *)
  target,        (* the type the running getter parses                     *)
  count,         (* how many structures it expects                         *)
  entries        (* the records it has filled                              *)

vars == <<table, index, index_valid, pc, p, target, count, entries>>

EmptyIndex == [ty \in Byte |-> [first |-> 0, count |-> 0]]

Init ==
  /\ table \in Tables
  /\ index = EmptyIndex
  /\ index_valid = FALSE
  /\ pc = IF Len(table) > IndexLimit THEN "ready" ELSE "build"
  /\ p = 0
  /\ target = EndOfTable
  /\ count = 0
  /\ entries = << >>

-----------------------------------------------------------------------------
(* lazybiosBuildTypeIndex *)

(* Mutant: `first` follows the walk instead of keeping the first offset. *)
BuildStepKeepingLast ==
  /\ pc = "build"
  /\ StructureAt(table, p)
  /\ LET ty == TypeAt(table, p)
     IN  index' = [index EXCEPT ![ty] = [first |-> p, count |-> @.count + 1]]
  /\ p' = DMINext(table, p, End)
  /\ UNCHANGED <<table, index_valid, pc, target, count, entries>>

BuildStep ==
  /\ pc = "build"
  /\ StructureAt(table, p)
  /\ LET ty == TypeAt(table, p)
     IN  index' = [index EXCEPT ![ty] =
           [first |-> IF @.count = 0 THEN p ELSE @.first,
            count |-> @.count + 1]]
  /\ p' = DMINext(table, p, End)
  /\ UNCHANGED <<table, index_valid, pc, target, count, entries>>

BuildDone ==
  /\ pc = "build"
  /\ ~StructureAt(table, p)
  /\ index_valid' = TRUE
  /\ pc' = "ready"
  /\ p' = 0
  /\ UNCHANGED <<table, index, target, count, entries>>

-----------------------------------------------------------------------------
(* A getter: lazybiosGetTypeN *)

GetIndexed(ty) ==
  /\ pc = "ready"
  /\ index_valid
  /\ target' = ty
  /\ count' = index[ty].count
  /\ p' = index[ty].first
  /\ entries' = << >>
  /\ pc' = "walk"
  /\ UNCHANGED <<table, index, index_valid>>

GetUnindexed(ty) ==
  /\ pc = "ready"
  /\ ~index_valid
  /\ target' = ty
  /\ count' = 0
  /\ p' = 0
  /\ entries' = << >>
  /\ pc' = "count"
  /\ UNCHANGED <<table, index, index_valid>>

(* lazybiosCountStructsByType *)
CountStep ==
  /\ pc = "count"
  /\ StructureAt(table, p)
  /\ count' = IF TypeAt(table, p) = target THEN count + 1 ELSE count
  /\ p' = DMINext(table, p, End)
  /\ UNCHANGED <<table, index, index_valid, pc, target, entries>>

(* Mutant: the parse loop starts where the counting loop ended. *)
CountDoneNoRewind ==
  /\ pc = "count"
  /\ ~StructureAt(table, p)
  /\ pc' = "walk"
  /\ UNCHANGED <<table, index, index_valid, p, target, count, entries>>

CountDone ==
  /\ pc = "count"
  /\ ~StructureAt(table, p)
  /\ pc' = "walk"
  /\ p' = 0
  /\ UNCHANGED <<table, index, index_valid, target, count, entries>>

(* The parse loop runs on while a header fits and records are expected;    *)
(* unlike the other two it neither stops at type 127 nor asks for a byte   *)
(* after the header.                                                       *)
WalkGuard ==
  /\ p + HeaderSize <= End
  /\ Len(entries) < count
  /\ LengthAt(table, p) >= HeaderSize

(* READSTR of the member at offset 4. *)
Name(len, next) ==
  IF len > HeaderSize
  THEN DMIString(table, p, len, At(table, p + HeaderSize), next)
  ELSE NoString

(* Mutant: the record keeps the length that its header claims. *)
WalkStepClaimed ==
  /\ pc = "walk"
  /\ WalkGuard
  /\ LET next == DMINext(table, p, End)
         len  == ClampLength(LengthAt(table, p), p, End)
     IN  /\ entries' = IF TypeAt(table, p) = target
                       THEN Append(entries, [at |-> p,
                                             length |-> LengthAt(table, p),
                                             name |-> Name(len, next)])
                       ELSE entries
         /\ p' = next
  /\ UNCHANGED <<table, index, index_valid, pc, target, count>>

WalkStep ==
  /\ pc = "walk"
  /\ WalkGuard
  /\ LET next == DMINext(table, p, End)
         len  == ClampLength(LengthAt(table, p), p, End)
     IN  /\ entries' = IF TypeAt(table, p) = target
                       THEN Append(entries, [at |-> p, length |-> len,
                                             name |-> Name(len, next)])
                       ELSE entries
         /\ p' = next
  /\ UNCHANGED <<table, index, index_valid, pc, target, count>>

WalkDone ==
  /\ pc = "walk"
  /\ ~WalkGuard
  /\ pc' = "done"
  /\ UNCHANGED <<table, index, index_valid, p, target, count, entries>>

(* The client has its result set, and may call another getter. *)
Return ==
  /\ pc = "done"
  /\ pc' = "ready"
  /\ p' = 0
  /\ count' = 0
  /\ entries' = << >>
  /\ UNCHANGED <<table, index, index_valid, target>>

LoopStep ==
  BuildStep \/ BuildDone \/ CountStep \/ CountDone \/ WalkStep \/ WalkDone

Next ==
  \/ LoopStep
  \/ \E ty \in Byte : GetIndexed(ty) \/ GetUnindexed(ty)
  \/ Return

(* A loop that is running keeps running. *)
Spec == Init /\ [][Next]_vars /\ WF_vars(LoopStep)

-----------------------------------------------------------------------------
(* Properties *)

TypeOK ==
  /\ table \in Tables
  /\ index \in [Byte -> [first : Nat, count : Nat]]
  /\ index_valid \in BOOLEAN
  /\ pc \in {"build", "ready", "count", "walk", "done"}
  /\ p \in Nat
  /\ target \in Byte
  /\ count \in Nat
  /\ entries \in Seq([at : Nat, length : Nat, name : Int])

(* No loop leaves the table: its position stays between the first byte and *)
(* the end, the index points into the table, and every record lies inside  *)
(* it with its clamped formatted area.                                     *)
StaysInside ==
  /\ TypeOK
  /\ p <= End
  /\ \A ty \in Byte : index[ty].count > 0 => index[ty].first + HeaderSize < End
  /\ \A i \in 1 .. Len(entries) :
       /\ entries[i].length >= HeaderSize
       /\ entries[i].at + entries[i].length <= End

(* The cache says for every type how many structures the table has and     *)
(* where the first one is.                                                 *)
IndexMatchesTable ==
  index_valid =>
    \A ty \in Byte :
      /\ index[ty].count = Cardinality(OfType(ty))
      /\ OfType(ty) # {} => index[ty].first = Least(OfType(ty))

(* With or without the index, a getter returns the same records: every     *)
(* structure of its type, once, in table order -- as many as were counted, *)
(* so that no calloc'ed entry is left unparsed.                            *)
GetterFindsAll ==
  pc = "done" =>
    /\ {entries[i].at : i \in 1 .. Len(entries)} = OfType(target)
    /\ Len(entries) = count
    /\ \A i, j \in 1 .. Len(entries) : i < j => entries[i].at < entries[j].at

(* A string member is the string its index names, or NULL when the string  *)
(* set has none; it never reaches into the next structure, and the strings *)
(* of a structure that is cut off are NULL.                                *)
StringsResolve ==
  \A k \in 1 .. Len(entries) : entries[k].name = StringOf(entries[k].at)

(* Every loop ends, whatever the bytes of the table are. *)
LoopsEnd == pc \in {"build", "count", "walk"} ~> pc \in {"ready", "done"}

=============================================================================
