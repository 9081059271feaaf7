------------------------- MODULE RecordArrayProofs -------------------------
(***************************************************************************)
(* Proofs about module RecordArray, for any number of structures and of    *)
(* failing allocations.                                                    *)
(***************************************************************************)
EXTENDS RecordArray, TLAPS

-----------------------------------------------------------------------------
(* The inductive invariant *)

(* A record points to the blocks it has, and reaches all it points to. *)
Linked ==
  \A i \in Records :
    /\ heap[i] \subseteq pointers[i]
    /\ \A b \in pointers[i] : Reachable(b, i)

Empty(i)  == heap[i] = {} /\ pointers[i] = {}
Intact(i) == heap[i] = pointers[i]

(* Filling: the records from index on are still zero. *)
Filling ==
  /\ pc = "set" => out = "none" /\ entries = "none" /\ count = 0
  /\ pc = "entries" => out = "live" /\ entries = "none" /\ found > 0
  /\ pc \in {"set", "entries"} =>
       index = 0 /\ \A i \in Records : Empty(i)
  /\ pc \in {"record", "blocks"} => out = "live" /\ entries = "live"
  /\ pc = "record" =>
       index <= found /\ \A i \in Records : i >= index => Empty(i)
  /\ pc = "blocks" =>
       index < found /\ \A i \in Records : i > index => Empty(i)
  /\ pc # "freeing" /\ pc # "done" => \A i \in Records : Intact(i)

(* What the caller holds. *)
Returned ==
  /\ pc = "returned" /\ returned = "null" => Released
  /\ pc = "returned" /\ returned = "set" =>
       count = found /\ (count > 0 => entries = "live")

(* Freeing: the records before index are empty, those after it untouched,  *)
(* and of the record itself only the blocks to come are left.              *)
Freeing ==
  pc = "freeing" =>
    /\ count <= found /\ index <= count
    /\ count > 0 => entries = "live"
    /\ \A i \in Records :
         /\ i < index \/ i >= count => heap[i] = {}
         /\ i > index /\ i < count => Intact(i)
    /\ index < count =>
         /\ \A b \in heap[index] :
              \E k \in DOMAIN Frees(type) : k >= step /\ Frees(type)[k] = b
         /\ \A k \in DOMAIN Frees(type) :
              k >= step /\ Frees(type)[k] \in pointers[index]
              => Frees(type)[k] \in heap[index]

Ended == pc = "done" => Released

Inv ==
  TypeOK /\ Linked /\ Filling /\ Returned /\ Freeing /\ Ended

-----------------------------------------------------------------------------
(* What the assumption says of the type at hand. *)
LEMMA FreesOfType ==
  ASSUME type \in Types
  PROVE  /\ Frees(type) \in Seq(BlocksOf(type))
         /\ \A b \in BlocksOf(type) :
              \E k \in DOMAIN Frees(type) : Frees(type)[k] = b
         /\ \A j, k \in DOMAIN Frees(type) :
              /\ Frees(type)[j] = Frees(type)[k] => j = k
              /\ Frees(type)[j] = Holder(Frees(type)[k]) => k < j
BY FreesAssumption

(* The next allocation is of a block of the type. *)
LEMMA NextIsBlock ==
  ASSUME step \in DOMAIN Allocs(type)
  PROVE  NextAlloc.block \in BlocksOf(type)
BY DEF NextAlloc, BlocksOf

(* Blocks a record gets are linked, and disturb no other record. *)
LEMMA BlocksAdded ==
  ASSUME Inv, pc = "blocks", UNCHANGED table,
         NEW some \in SUBSET BlocksOf(type),
         \A b \in some : Reachable(b, index),
         heap' = [heap EXCEPT ![index] = @ \union some],
         pointers' = [pointers EXCEPT ![index] = @ \union some]
  PROVE  /\ heap' \in [Records' -> SUBSET BlocksOf(type')]
         /\ pointers' \in [Records' -> SUBSET BlocksOf(type')]
         /\ Linked'
         /\ \A i \in Records : heap'[i] = pointers'[i]
         /\ \A i \in Records : i > index => heap'[i] = {}
<1>1. index \in Records /\ Records' = Records /\ type' = type
  BY DEF Inv, TypeOK, Filling, Records, table
<1>2. /\ heap \in [Records -> SUBSET BlocksOf(type)]
      /\ pointers \in [Records -> SUBSET BlocksOf(type)]
      /\ \A i \in Records : Intact(i) /\ (i > index => Empty(i))
  BY DEF Inv, TypeOK, Filling
<1>3. \A i \in Records :
        /\ heap'[i] = IF i = index THEN heap[i] \union some ELSE heap[i]
        /\ pointers'[i] =
             IF i = index THEN pointers[i] \union some ELSE pointers[i]
  BY <1>1, <1>2
<1>4. /\ heap' \in [Records' -> SUBSET BlocksOf(type')]
      /\ pointers' \in [Records' -> SUBSET BlocksOf(type')]
  BY <1>1, <1>2
<1>5. \A i \in Records : heap'[i] = pointers'[i]
  BY <1>2, <1>3 DEF Intact
<1>6. \A i \in Records : i > index => heap'[i] = {}
  BY <1>1, <1>2, <1>3 DEF Empty, Records
<1>7. Linked'
  <2> SUFFICES ASSUME NEW i \in Records, NEW b \in pointers'[i]
               PROVE  Reachable(b, i)'
    BY <1>1, <1>5 DEF Linked
  <2>1. b \in pointers[i] \/ (i = index /\ b \in some)
    BY <1>3
  <2>2. Reachable(b, i)
    BY <2>1 DEF Inv, Linked
  <2>3. pointers[i] \subseteq pointers'[i]
    BY <1>3
  <2>4. QED
    BY <2>2, <2>3 DEF Reachable
<1>8. QED
  BY <1>4, <1>5, <1>6, <1>7

LEMMA InvInit == Init => Inv
<1> SUFFICES ASSUME Init PROVE Inv
  OBVIOUS
<1>1. TypeOK
  BY BoundsAssumption DEF Init, TypeOK, Records
<1>2. Linked /\ Filling /\ Returned /\ Freeing
  BY DEF Init, Linked, Filling, Returned, Freeing, Empty, Intact, Records
<1>3. QED
  BY <1>1, <1>2 DEF Inv, Ended, Init

LEMMA InvNext == Inv /\ [Next]_vars => Inv'
<1> SUFFICES ASSUME Inv, [Next]_vars PROVE Inv'
  OBVIOUS
<1>1. CASE AllocateSet
  <2>1. TypeOK'
    BY <1>1 DEF Inv, TypeOK, Records, AllocateSet, table, memory
  <2>2. Linked'
    BY <1>1 DEF Inv, TypeOK, Linked, Filling, Empty, Reachable, Records,
       AllocateSet, table, memory
  <2>3. Filling'
    BY <1>1 DEF Inv, TypeOK, Filling, Empty, Intact, Records, AllocateSet,
       table, memory
  <2>4. Returned'
    BY <1>1 DEF Inv, TypeOK, Filling, Returned, Released, Empty, Intact,
       Records, AllocateSet, table, memory
  <2>5. Freeing'
    BY <1>1 DEF Inv, TypeOK, Linked, Filling, Returned, Freeing, Empty,
       Intact, Reachable, Records, AllocateSet, table, memory
  <2>6. Ended'
    BY <1>1 DEF Inv, TypeOK, Filling, Returned, Freeing, Ended, Released,
       Empty, Intact, Records, AllocateSet, table, memory
  <2>7. QED
    BY <2>1, <2>2, <2>3, <2>4, <2>5, <2>6 DEF Inv
<1>2. CASE NoSet
  <2>1. TypeOK'
    BY <1>2, BoundsAssumption DEF Inv, TypeOK, Records, NoSet, MayFail,
       table, memory
  <2>2. Linked'
    BY <1>2, BoundsAssumption DEF Inv, TypeOK, Linked, Filling, Empty,
       Reachable, Records, NoSet, MayFail, table, memory
  <2>3. Filling'
    BY <1>2, BoundsAssumption DEF Inv, TypeOK, Filling, Empty, Intact,
       Records, NoSet, MayFail, table, memory
  <2>4. Returned'
    BY <1>2, BoundsAssumption DEF Inv, TypeOK, Filling, Returned, Released,
       Empty, Intact, Records, NoSet, MayFail, table, memory
  <2>5. Freeing'
    BY <1>2, BoundsAssumption DEF Inv, TypeOK, Linked, Filling, Returned,
       Freeing, Empty, Intact, Reachable, Records, NoSet, MayFail, table,
          memory
  <2>6. Ended'
    BY <1>2, BoundsAssumption DEF Inv, TypeOK, Filling, Returned, Freeing,
       Ended, Released, Empty, Intact, Records, NoSet, MayFail, table, memory
  <2>7. QED
    BY <2>1, <2>2, <2>3, <2>4, <2>5, <2>6 DEF Inv
<1>3. CASE AllocateEntries
  <2>1. TypeOK'
    BY <1>3 DEF Inv, TypeOK, Records, AllocateEntries, table, memory
  <2>2. Linked'
    BY <1>3 DEF Inv, TypeOK, Linked, Filling, Empty, Reachable, Records,
       AllocateEntries, table, memory
  <2>3. Filling'
    BY <1>3 DEF Inv, TypeOK, Filling, Empty, Intact, Records,
       AllocateEntries, table, memory
  <2>4. Returned'
    BY <1>3 DEF Inv, TypeOK, Filling, Returned, Released, Empty, Intact,
       Records, AllocateEntries, table, memory
  <2>5. Freeing'
    BY <1>3 DEF Inv, TypeOK, Linked, Filling, Returned, Freeing, Empty,
       Intact, Reachable, Records, AllocateEntries, table, memory
  <2>6. Ended'
    BY <1>3 DEF Inv, TypeOK, Filling, Returned, Freeing, Ended, Released,
       Empty, Intact, Records, AllocateEntries, table, memory
  <2>7. QED
    BY <2>1, <2>2, <2>3, <2>4, <2>5, <2>6 DEF Inv
<1>4. CASE NoEntries
  <2>1. TypeOK'
    BY <1>4, BoundsAssumption DEF Inv, TypeOK, Records, NoEntries, MayFail,
       table, memory
  <2>2. Linked'
    BY <1>4, BoundsAssumption DEF Inv, TypeOK, Linked, Filling, Empty,
       Reachable, Records, NoEntries, MayFail, table, memory
  <2>3. Filling'
    BY <1>4, BoundsAssumption DEF Inv, TypeOK, Filling, Empty, Intact,
       Records, NoEntries, MayFail, table, memory
  <2>4. Returned'
    BY <1>4, BoundsAssumption DEF Inv, TypeOK, Filling, Returned, Released,
       Empty, Intact, Records, NoEntries, MayFail, table, memory
  <2>5. Freeing'
    BY <1>4, BoundsAssumption DEF Inv, TypeOK, Linked, Filling, Returned,
       Freeing, Empty, Intact, Reachable, Records, NoEntries, MayFail, table,
          memory
  <2>6. Ended'
    BY <1>4, BoundsAssumption DEF Inv, TypeOK, Filling, Returned, Freeing,
       Ended, Released, Empty, Intact, Records, NoEntries, MayFail, table,
          memory
  <2>7. QED
    BY <2>1, <2>2, <2>3, <2>4, <2>5, <2>6 DEF Inv
<1>5. CASE BeginRecord
  <2>1. TypeOK'
    BY <1>5, NeedsAssumption DEF Inv, TypeOK, Records, BeginRecord, table,
       memory
  <2>2. Linked'
    BY <1>5, NeedsAssumption DEF Inv, TypeOK, Linked, Filling, Empty,
       Reachable, Records, BeginRecord, table, memory
  <2>3. Filling'
    BY <1>5, NeedsAssumption DEF Inv, TypeOK, Filling, Empty, Intact,
       Records, BeginRecord, table, memory
  <2>4. Returned'
    BY <1>5, NeedsAssumption DEF Inv, TypeOK, Filling, Returned, Released,
       Empty, Intact, Records, BeginRecord, table, memory
  <2>5. Freeing'
    BY <1>5, NeedsAssumption DEF Inv, TypeOK, Linked, Filling, Returned,
       Freeing, Empty, Intact, Reachable, Records, BeginRecord, table, memory
  <2>6. Ended'
    BY <1>5, NeedsAssumption DEF Inv, TypeOK, Filling, Returned, Freeing,
       Ended, Released, Empty, Intact, Records, BeginRecord, table, memory
  <2>7. QED
    BY <2>1, <2>2, <2>3, <2>4, <2>5, <2>6 DEF Inv
<1>6. CASE AllocateBlock
  <2> USE <1>6 DEF AllocateBlock
  <2>1. {NextAlloc.block} \in SUBSET BlocksOf(type)
    BY NextIsBlock
  <2>2. /\ heap' \in [Records' -> SUBSET BlocksOf(type')]
        /\ pointers' \in [Records' -> SUBSET BlocksOf(type')]
        /\ Linked'
        /\ \A i \in Records : heap'[i] = pointers'[i]
        /\ \A i \in Records : i > index => heap'[i] = {}
    BY <2>1, BlocksAdded
  <2>3. TypeOK'
    BY <2>2 DEF Inv, TypeOK, table
  <2>4. Filling'
    BY <2>2 DEF Inv, TypeOK, Filling, Empty, Intact, Records, table
  <2>5. Returned' /\ Freeing' /\ Ended'
    BY DEF Returned, Freeing, Ended
  <2>6. QED
    BY <2>2, <2>3, <2>4, <2>5 DEF Inv
<1>7. CASE SkipBlock
  <2>1. TypeOK'
    BY <1>7 DEF Inv, TypeOK, Records, SkipBlock, table, memory
  <2>2. Linked'
    BY <1>7 DEF Inv, TypeOK, Linked, Filling, Empty, Reachable, Records,
       SkipBlock, table, memory
  <2>3. Filling'
    BY <1>7 DEF Inv, TypeOK, Filling, Empty, Intact, Records, SkipBlock,
       table, memory
  <2>4. Returned'
    BY <1>7 DEF Inv, TypeOK, Filling, Returned, Released, Empty, Intact,
       Records, SkipBlock, table, memory
  <2>5. Freeing'
    BY <1>7 DEF Inv, TypeOK, Linked, Filling, Returned, Freeing, Empty,
       Intact, Reachable, Records, SkipBlock, table, memory
  <2>6. Ended'
    BY <1>7 DEF Inv, TypeOK, Filling, Returned, Freeing, Ended, Released,
       Empty, Intact, Records, SkipBlock, table, memory
  <2>7. QED
    BY <2>1, <2>2, <2>3, <2>4, <2>5, <2>6 DEF Inv
<1>8. CASE LoseBlock
  <2> USE <1>8 DEF LoseBlock
  <2>1. PICK some \in SUBSET {NextAlloc.block} :
          /\ heap' = [heap EXCEPT ![index] = @ \union some]
          /\ pointers' = [pointers EXCEPT ![index] = @ \union some]
    BY DEF NextFails
  <2>2. /\ some \in SUBSET BlocksOf(type)
        /\ \A b \in some : Reachable(b, index)
        /\ pc = "blocks" /\ failures' \in Nat
    <3>1. NextAlloc.block \in BlocksOf(type) /\ Reachable(NextAlloc.block,
       index)
      BY NextIsBlock DEF NextFails
    <3>2. pc = "blocks" /\ failures' \in Nat
      <4>1. pc = "blocks" /\ MayFail
        BY DEF NextFails
      <4>2. failures \in Nat
        BY DEF Inv, TypeOK
      <4>3. QED
        BY <4>1, <4>2 DEF MayFail
    <3>3. QED
      BY <3>1, <3>2
  <2>3. /\ heap' \in [Records' -> SUBSET BlocksOf(type')]
        /\ pointers' \in [Records' -> SUBSET BlocksOf(type')]
        /\ Linked'
        /\ \A i \in Records : heap'[i] = pointers'[i]
        /\ \A i \in Records : i > index => heap'[i] = {}
    BY <2>1, <2>2, BlocksAdded
  <2>4. TypeOK'
    BY <2>2, <2>3 DEF Inv, TypeOK, table
  <2>5. Filling'
    BY <2>2, <2>3 DEF Inv, TypeOK, Filling, Empty, Intact, Records, table
  <2>6. Returned' /\ Freeing' /\ Ended'
    BY <2>2 DEF Returned, Freeing, Ended
  <2>7. QED
    BY <2>3, <2>4, <2>5, <2>6 DEF Inv
<1>9. CASE GiveUp
  <2> USE <1>9 DEF GiveUp
  <2>1. PICK some \in SUBSET {NextAlloc.block} :
          /\ heap' = [heap EXCEPT ![index] = @ \union some]
          /\ pointers' = [pointers EXCEPT ![index] = @ \union some]
    BY DEF NextFails
  <2>2. /\ some \in SUBSET BlocksOf(type)
        /\ \A b \in some : Reachable(b, index)
        /\ pc = "blocks" /\ failures' \in Nat
    <3>1. NextAlloc.block \in BlocksOf(type) /\ Reachable(NextAlloc.block,
       index)
      BY NextIsBlock DEF NextFails
    <3>2. pc = "blocks" /\ failures' \in Nat
      <4>1. pc = "blocks" /\ MayFail
        BY DEF NextFails
      <4>2. failures \in Nat
        BY DEF Inv, TypeOK
      <4>3. QED
        BY <4>1, <4>2 DEF MayFail
    <3>3. QED
      BY <3>1, <3>2
  <2>3. /\ heap' \in [Records' -> SUBSET BlocksOf(type')]
        /\ pointers' \in [Records' -> SUBSET BlocksOf(type')]
        /\ Linked'
        /\ \A i \in Records : heap'[i] = pointers'[i]
        /\ \A i \in Records : i > index => heap'[i] = {}
    BY <2>1, <2>2, BlocksAdded
  <2>4. TypeOK'
    BY <2>2, <2>3 DEF Inv, TypeOK, table
  <2>5. Filling' /\ Returned' /\ Ended'
    BY DEF Filling, Returned, Ended
  <2>6. index < found /\ entries = "live"
    BY <2>2 DEF Inv, Filling
  <2>7. Freeing'
    <3>1. \A b \in heap'[0] : \E k \in DOMAIN Frees(type) :
            k >= 1 /\ Frees(type)[k] = b
      BY <2>3, <2>6, FreesOfType DEF Inv, TypeOK, Records, table
    <3>2. QED
      BY <2>3, <2>6, <3>1 DEF Freeing, Inv, TypeOK, Records, Intact, table
  <2>8. QED
    BY <2>3, <2>4, <2>5, <2>7 DEF Inv
<1>10. CASE EndRecord
  <2>1. TypeOK'
    BY <1>10 DEF Inv, TypeOK, Records, EndRecord, table, memory
  <2>2. Linked'
    BY <1>10 DEF Inv, TypeOK, Linked, Filling, Empty, Reachable, Records,
       EndRecord, table, memory
  <2>3. Filling'
    BY <1>10 DEF Inv, TypeOK, Filling, Empty, Intact, Records, EndRecord,
       table, memory
  <2>4. Returned'
    BY <1>10 DEF Inv, TypeOK, Filling, Returned, Released, Empty, Intact,
       Records, EndRecord, table, memory
  <2>5. Freeing'
    BY <1>10 DEF Inv, TypeOK, Linked, Filling, Returned, Freeing, Empty,
       Intact, Reachable, Records, EndRecord, table, memory
  <2>6. Ended'
    BY <1>10 DEF Inv, TypeOK, Filling, Returned, Freeing, Ended, Released,
       Empty, Intact, Records, EndRecord, table, memory
  <2>7. QED
    BY <2>1, <2>2, <2>3, <2>4, <2>5, <2>6 DEF Inv
<1>11. CASE Return
  <2>1. TypeOK'
    BY <1>11 DEF Inv, TypeOK, Records, Return, table, memory
  <2>2. Linked'
    BY <1>11 DEF Inv, TypeOK, Linked, Filling, Empty, Reachable, Records,
       Return, table, memory
  <2>3. Filling'
    BY <1>11 DEF Inv, TypeOK, Filling, Empty, Intact, Records, Return, table,
       memory
  <2>4. Returned'
    BY <1>11 DEF Inv, TypeOK, Filling, Returned, Released, Empty, Intact,
       Records, Return, table, memory
  <2>5. Freeing'
    BY <1>11 DEF Inv, TypeOK, Linked, Filling, Returned, Freeing, Empty,
       Intact, Reachable, Records, Return, table, memory
  <2>6. Ended'
    BY <1>11 DEF Inv, TypeOK, Filling, Returned, Freeing, Ended, Released,
       Empty, Intact, Records, Return, table, memory
  <2>7. QED
    BY <2>1, <2>2, <2>3, <2>4, <2>5, <2>6 DEF Inv
<1>12. CASE Free
  <2>1. TypeOK'
    BY <1>12, FreesOfType DEF Inv, TypeOK, Records, Free, table, memory
  <2>2. Linked'
    BY <1>12, FreesOfType DEF Inv, TypeOK, Linked, Filling, Empty, Reachable,
       Records, Free, table, memory
  <2>3. Filling'
    BY <1>12, FreesOfType DEF Inv, TypeOK, Filling, Empty, Intact, Records,
       Free, table, memory
  <2>4. Returned'
    BY <1>12, FreesOfType DEF Inv, TypeOK, Filling, Returned, Released,
       Empty, Intact, Records, Free, table, memory
  <2>5. Freeing'
    <3>1. /\ count = found /\ (count > 0 => entries = "live")
          /\ \A i \in Records : Intact(i)
          /\ \A i \in Records : heap[i] \subseteq BlocksOf(type)
      BY <1>12 DEF Free, Inv, Returned, Filling, TypeOK
    <3>2. /\ index' = 0 /\ step' = 1
          /\ UNCHANGED <<type, found, count, entries, heap, pointers>>
      BY <1>12 DEF Free, table, memory
    <3>3. \A i \in Records : \A b \in heap[i] :
            \E k \in DOMAIN Frees(type) : k >= 1 /\ Frees(type)[k] = b
      BY <3>1, FreesOfType DEF Inv, TypeOK
    <3>4. count \in Nat
      BY DEF Inv, TypeOK
    <3>5. QED
      BY <3>1, <3>2, <3>3, <3>4 DEF Freeing, Records, Intact
  <2>6. Ended'
    BY <1>12, FreesOfType DEF Inv, TypeOK, Filling, Returned, Freeing, Ended,
       Released, Empty, Intact, Records, Free, table, memory
  <2>7. QED
    BY <2>1, <2>2, <2>3, <2>4, <2>5, <2>6 DEF Inv
<1>13. CASE FreeBlock
  <2>1. /\ index \in Records /\ count <= found
        /\ step \in DOMAIN Frees(type) /\ NextFree \in BlocksOf(type)
        /\ UNCHANGED <<type, found, pc, out, entries, count, index, pointers>>
        /\ pc = "freeing" /\ step' = step + 1
    BY <1>13, FreesOfType DEF FreeBlock, NextFree, Inv, TypeOK, Freeing,
                             Records, table
  <2>2. heap' \in [Records -> SUBSET BlocksOf(type)]
    BY <1>13, <2>1 DEF FreeBlock, Inv, TypeOK
  <2>3. TypeOK'
    BY <1>13, <2>1, <2>2 DEF FreeBlock, Inv, TypeOK, Records
  <2>4. \A i \in Records : i # index => heap'[i] = heap[i]
    BY <1>13, <2>1 DEF FreeBlock, Inv, TypeOK
  (* What the record no longer reaches it does not point to. *)
  <2>5. heap'[index] = heap[index] \ {NextFree}
    <3>1. CASE Reachable(NextFree, index)
      BY <1>13, <2>1, <3>1 DEF FreeBlock, Inv, TypeOK
    <3>2. CASE ~Reachable(NextFree, index)
      <4>1. NextFree \notin heap[index]
        BY <2>1, <3>2 DEF Inv, Linked
      <4>2. QED
        BY <1>13, <3>2, <4>1 DEF FreeBlock
    <3>3. QED
      BY <3>1, <3>2
  <2>6. Linked'
    BY <2>1, <2>4, <2>5 DEF Inv, Linked, Reachable, Records
  <2>7. Filling' /\ Returned' /\ Ended'
    BY <2>1 DEF Filling, Returned, Ended
  <2>8. Freeing'
    <3>1. /\ count > 0 => entries = "live"
          /\ \A i \in Records : i < index \/ i >= count => heap'[i] = {}
          /\ \A i \in Records : i > index
             /\ i < count => heap'[i] = pointers[i]
      BY <1>13, <2>1, <2>4 DEF Inv, Freeing, FreeBlock, TypeOK, Records, Intact
    <3>2. \A b \in heap'[index] : \E k \in DOMAIN Frees(type) :
            k >= step + 1 /\ Frees(type)[k] = b
      <4>1. TAKE b \in heap'[index]
      <4>2. b \in heap[index] /\ b # NextFree
        BY <2>5
      <4>3. PICK k \in DOMAIN Frees(type) : k >= step /\ Frees(type)[k] = b
        BY <1>13, <2>1, <4>2 DEF Inv, Freeing, FreeBlock
      <4>4. k # step
        BY <4>2, <4>3 DEF NextFree
      <4>5. k \in Nat /\ step \in Nat
        BY FreesOfType DEF Inv, TypeOK
      <4>6. QED
        BY <4>3, <4>4, <4>5
    <3>3. \A k \in DOMAIN Frees(type) :
            k >= step + 1 /\ Frees(type)[k] \in pointers[index]
            => Frees(type)[k] \in heap'[index]
      <4>1. SUFFICES ASSUME NEW k \in DOMAIN Frees(type), k >= step + 1,
                            Frees(type)[k] \in pointers[index]
                     PROVE  Frees(type)[k] \in heap'[index]
        OBVIOUS
      <4>2. k \in Nat /\ step \in Nat
        BY FreesOfType DEF Inv, TypeOK
      <4>3. Frees(type)[k] \in heap[index]
        BY <1>13, <4>1, <4>2 DEF Inv, Freeing, FreeBlock
      <4>4. Frees(type)[k] # NextFree
        BY <2>1, <4>1, <4>2, FreesOfType DEF NextFree, Inv, TypeOK
      <4>5. QED
        BY <2>5, <4>3, <4>4
    <3>4. index <= count
      BY <2>1 DEF Inv, Freeing
    <3>5. QED
      BY <2>1, <3>1, <3>2, <3>3, <3>4 DEF Freeing, Records, Intact
  <2>9. QED
    BY <2>3, <2>6, <2>7, <2>8 DEF Inv
<1>14. CASE FreeNext
  <2>1. /\ index \in Records /\ index < count /\ count <= found
        /\ step > Len(Frees(type)) /\ step \in Nat
        /\ UNCHANGED <<type, found, pc, out, entries, count, heap, pointers>>
        /\ pc = "freeing" /\ index' = index + 1 /\ step' = 1
    BY <1>14 DEF FreeNext, Inv, TypeOK, Freeing, Records, table, memory
  <2>2. TypeOK'
    BY <1>14, <2>1 DEF FreeNext, Inv, TypeOK, Records
  <2>3. Linked' /\ Filling' /\ Returned' /\ Ended'
    BY <2>1 DEF Inv, Linked, Filling, Returned, Ended, Reachable, Records
  <2>4. Freeing'
    <3>1. heap[index] = {}
      BY <2>1, FreesOfType DEF Inv, TypeOK, Freeing
    <3>2. /\ count > 0 => entries = "live"
          /\ \A i \in Records :
               /\ i < index + 1 \/ i >= count => heap[i] = {}
               /\ i > index /\ i < count => heap[i] = pointers[i]
      BY <2>1, <3>1 DEF Inv, TypeOK, Freeing, Intact, Records
    <3>3. \A i \in Records : \A b \in heap[i] :
            \E k \in DOMAIN Frees(type) : k >= 1 /\ Frees(type)[k] = b
      BY FreesOfType DEF Inv, TypeOK
    <3>4. index + 1 < count => heap[index + 1] = pointers[index + 1]
      BY <2>1, <3>2 DEF Inv, TypeOK, Freeing, Intact, Records
    <3>5. QED
      BY <2>1, <3>2, <3>3, <3>4 DEF Freeing, Records, Intact, Inv, TypeOK
  <2>5. QED
    BY <2>2, <2>3, <2>4 DEF Inv
<1>15. CASE FreeSet
  <2>1. TypeOK'
    BY <1>15 DEF Inv, TypeOK, Records, FreeSet, table, memory
  <2>2. Linked'
    BY <1>15 DEF Inv, TypeOK, Linked, Filling, Empty, Reachable, Records,
       FreeSet, table, memory
  <2>3. Filling'
    BY <1>15 DEF Inv, TypeOK, Filling, Empty, Intact, Records, FreeSet,
       table, memory
  <2>4. Returned'
    BY <1>15 DEF Inv, TypeOK, Filling, Returned, Released, Empty, Intact,
       Records, FreeSet, table, memory
  <2>5. Freeing'
    BY <1>15 DEF Inv, TypeOK, Linked, Filling, Returned, Freeing, Empty,
       Intact, Reachable, Records, FreeSet, table, memory
  <2>6. Ended'
    BY <1>15 DEF Inv, TypeOK, Filling, Returned, Freeing, Ended, Released,
       Empty, Intact, Records, FreeSet, table, memory
  <2>7. QED
    BY <2>1, <2>2, <2>3, <2>4, <2>5, <2>6 DEF Inv
<1>16. CASE UNCHANGED vars
  BY <1>16 DEF vars, table, memory, Inv, TypeOK, Linked, Filling, Returned,
     Freeing, Ended, Released, Empty, Intact, Reachable, Records, NextFree
<1>17. QED
  BY <1>1, <1>2, <1>3, <1>4, <1>5, <1>6, <1>7, <1>8, <1>9, <1>10, <1>11,
     <1>12, <1>13, <1>14, <1>15, <1>16 DEF Next

(* Inv holds in every reachable state. *)
LEMMA Invariance == Spec => []Inv
<1>1. Init => Inv
  BY InvInit
<1>2. Inv /\ [Next]_vars => Inv'
  BY InvNext
<1>3. QED
  BY <1>1, <1>2, PTL DEF Spec

-----------------------------------------------------------------------------
(* The variables stay in their types, in particular the blocks of a record *)
(* are always those of its own type.                                       *)
THEOREM TypeCorrect == Spec => []TypeOK
<1>1. Inv => TypeOK
  BY DEF Inv
<1>2. QED
  BY <1>1, Invariance, PTL

(* Whichever allocations fail, a call that returns NULL and a caller that  *)
(* freed its set leave no block behind: lazybiosGetTypeN counts the record *)
(* it was filling before it calls lazybiosFreeTypeN, which frees every     *)
(* block of every record up to the count.                                  *)
THEOREM NothingLeaks == Spec => []NoLeak
<1>1. Inv => NoLeak
  BY DEF Inv, Ended, Returned, NoLeak
<1>2. QED
  BY <1>1, Invariance, PTL

(* No pointer is freed twice, and an array is still there when the blocks  *)
(* of its elements are freed: lazybiosFreeTypeN frees it after them.       *)
THEOREM FreesAreSafe == Spec => []FreesLiveBlocks
<1>1. ASSUME Inv, pc = "freeing", index < count, step <= Len(Frees(type))
      PROVE  /\ Holder(NextFree) \in pointers[index] =>
                  Holder(NextFree) \in heap[index]
             /\ NextFree \in pointers[index] => NextFree \in heap[index]
  <2>1. index \in Records /\ step \in DOMAIN Frees(type)
    <3>1. step \in Nat \ {0} /\ Frees(type) \in Seq(BlocksOf(type))
      BY FreesOfType, <1>1 DEF Inv, TypeOK
    <3>2. step \in DOMAIN Frees(type)
      BY <1>1, <3>1
    <3>3. index \in Records
      BY <1>1 DEF Inv, TypeOK, Freeing, Records
    <3>4. QED
      BY <3>2, <3>3
  <2>2. \A k \in DOMAIN Frees(type) :
          k >= step /\ Frees(type)[k] \in pointers[index]
          => Frees(type)[k] \in heap[index]
    BY <1>1 DEF Inv, Freeing
  <2>3. NextFree \in pointers[index] => NextFree \in heap[index]
    <3>1. step \in Nat
      BY <1>1 DEF Inv, TypeOK
    <3>2. QED
      BY <2>1, <2>2, <3>1 DEF NextFree
  <2>4. ASSUME Holder(NextFree) \in pointers[index]
        PROVE  Holder(NextFree) \in heap[index]
    <3>1. Holder(NextFree) \in BlocksOf(type)
      BY <1>1, <2>1, <2>4 DEF Inv, TypeOK
    <3>2. PICK k \in DOMAIN Frees(type) : Frees(type)[k] = Holder(NextFree)
      BY <1>1, <3>1, FreesOfType DEF Inv, TypeOK
    <3>3. step < k
      BY <1>1, <2>1, <3>2, FreesOfType DEF NextFree, Inv, TypeOK
    <3>4. k >= step
      BY <1>1, <2>1, <3>3, FreesOfType DEF Inv, TypeOK
    <3>5. QED
      BY <2>2, <2>4, <3>2, <3>4
  <2>5. QED
    BY <2>3, <2>4
<1>2. Inv => FreesLiveBlocks
  BY <1>1 DEF FreesLiveBlocks
<1>3. QED
  BY <1>2, Invariance, PTL

(* A returned set counts every structure found, and the set that is freed  *)
(* never counts more records than its array has.                           *)
THEOREM CountIsRight == Spec => []CountMatchesArray
<1>1. Inv => CountMatchesArray
  BY DEF Inv, Returned, Freeing, CountMatchesArray
<1>2. QED
  BY <1>1, Invariance, PTL

-----------------------------------------------------------------------------
(* Every call comes to an end. *)

(* A record is begun and ended, and each of its allocations tried; of each *)
(* record each block is freed, and the next record is turned to.           *)
ToFill(n) == n * (Len(Allocs(type)) + 2)
ToFree(n) == n * (Len(Frees(type)) + 1)

(* How many steps are left until the set is freed again, at most. *)
StepsLeft ==
  CASE pc = "set"      -> ToFill(found) + ToFree(found) + 5
    [] pc = "entries"  -> ToFill(found) + ToFree(found) + 4
    [] pc = "record"   -> ToFill(found - index) + ToFree(found) + 3
    [] pc = "blocks"   -> ToFill(found - index) + ToFree(found) + 3 - step
    [] pc = "returned" -> IF returned = "set" THEN ToFree(count) + 2 ELSE 0
    [] pc = "freeing"  -> ToFree(count - index) + 2 - step
    [] OTHER           -> 0

(* No loop runs past its list. *)
InLists ==
  /\ pc = "blocks" => step <= Len(Allocs(type)) + 1
  /\ pc = "freeing" =>
       IF index < count THEN step <= Len(Frees(type)) + 1 ELSE step = 1

LEMMA ListsOfType ==
  ASSUME TypeOK
  PROVE  /\ Len(Allocs(type)) \in Nat /\ Len(Frees(type)) \in Nat
         /\ DOMAIN Allocs(type) = 1 .. Len(Allocs(type))
<1>1. Allocs(type) \in Seq([block : STRING, fatal : BOOLEAN])
  BY AllocsAssumption DEF TypeOK
<1>2. Frees(type) \in Seq(BlocksOf(type))
  BY FreesOfType DEF TypeOK
<1> QED
  BY <1>1, <1>2

LEMMA InListsHolds == Inv /\ InLists /\ [Next]_vars => InLists'
<1> SUFFICES ASSUME Inv, InLists, [Next]_vars PROVE InLists'
  OBVIOUS
<1>1. /\ Len(Allocs(type)) \in Nat /\ Len(Frees(type)) \in Nat
      /\ DOMAIN Allocs(type) = 1 .. Len(Allocs(type))
      /\ step \in Nat /\ index \in Nat /\ count \in Nat
  BY ListsOfType DEF Inv, TypeOK
<1>2. type' = type
  BY DEF Next, vars, table, AllocateSet, NoSet, AllocateEntries, NoEntries,
         BeginRecord, AllocateBlock, SkipBlock, LoseBlock, GiveUp, EndRecord,
         Return, Free, FreeBlock, FreeNext, FreeSet
<1>3. CASE AllocateSet \/ NoSet \/ AllocateEntries \/ NoEntries
           \/ EndRecord \/ Return \/ FreeSet
  BY <1>3 DEF AllocateSet, NoSet, AllocateEntries, NoEntries, EndRecord,
              Return, FreeSet, InLists
<1>4. CASE BeginRecord \/ Free \/ GiveUp
  <2>1. pc' \in {"blocks", "freeing"} /\ step' = 1
    BY <1>4 DEF BeginRecord, Free, GiveUp
  <2> QED
    BY <1>1, <1>2, <2>1 DEF InLists
<1>5. CASE AllocateBlock \/ SkipBlock \/ LoseBlock
  <2>1. /\ pc' = "blocks" /\ step' = step + 1
        /\ step \in DOMAIN Allocs(type)
    BY <1>5 DEF AllocateBlock, SkipBlock, LoseBlock, NextFails
  <2> QED
    BY <1>1, <1>2, <2>1 DEF InLists
<1>6. CASE FreeBlock \/ FreeNext
  BY <1>1, <1>2, <1>6 DEF FreeBlock, FreeNext, InLists
<1>7. CASE UNCHANGED vars
  BY <1>2, <1>7 DEF vars, table, InLists
<1> QED
  BY <1>3, <1>4, <1>5, <1>6, <1>7 DEF Next

LEMMA InListsAlways == Spec => []InLists
<1>1. Init => InLists
  BY DEF Init, InLists
<1> QED
  BY <1>1, InListsHolds, Invariance, PTL DEF Spec

(* One record less is that much less to do. *)
LEMMA RoundsLeft ==
  ASSUME NEW k \in Nat, NEW n \in Nat
  PROVE  /\ n * k \in Nat /\ (n + 1) * k = n * k + k
         /\ \A m \in Nat : m <= n => m * k <= n * k
<1>1. n * k \in Nat /\ (n + 1) * k = n * k + k
  OBVIOUS
<1>2. ASSUME NEW m \in Nat, m <= n
      PROVE  m * k <= n * k
  <2>1. (n - m) * k \in Nat /\ n * k = m * k + (n - m) * k
    BY <1>2
  <2>2. m * k \in Nat
    OBVIOUS
  <2> QED
    BY <2>1, <2>2
<1> QED
  BY <1>1, <1>2

LEMMA FillLess ==
  ASSUME TypeOK, NEW n \in Nat
  PROVE  /\ ToFill(n) \in Nat
         /\ ToFill(n + 1) = ToFill(n) + Len(Allocs(type)) + 2
BY ListsOfType, RoundsLeft DEF ToFill

LEMMA FreeLess ==
  ASSUME TypeOK, NEW n \in Nat
  PROVE  /\ ToFree(n) \in Nat
         /\ ToFree(n + 1) = ToFree(n) + Len(Frees(type)) + 1
         /\ \A m \in Nat : m <= n => ToFree(m) <= ToFree(n)
BY ListsOfType, RoundsLeft DEF ToFree

(* Sums with the steps of a list of k that has been entered at s. *)
LEMMA Sums ==
  ASSUME NEW a \in Nat, NEW b \in Nat, NEW f \in Nat, NEW g \in Nat,
         NEW k \in Nat, NEW s \in Nat, s <= k + 1, a = b + k + 2, g <= f
  PROVE  /\ a + f + 3 - s \in Nat
         /\ a + f + 3 - (s + 1) < a + f + 3 - s
         /\ b + f + 3 < a + f + 3 - s
         /\ g + 2 - 1 < a + f + 3 - s
OBVIOUS

LEMMA StepsLeftNatural == Inv /\ InLists => StepsLeft \in Nat
<1> SUFFICES ASSUME Inv, InLists PROVE StepsLeft \in Nat
  OBVIOUS
<1>1. /\ TypeOK /\ found \in Nat /\ index \in Nat /\ count \in Nat
      /\ step \in Nat \ {0}
      /\ Len(Allocs(type)) \in Nat /\ Len(Frees(type)) \in Nat
  BY ListsOfType DEF Inv, TypeOK
<1>2. ToFill(found) \in Nat /\ ToFree(found) \in Nat /\ ToFree(count) \in Nat
  BY <1>1, FillLess, FreeLess
<1>3. ASSUME pc = "record"
      PROVE  ToFill(found - index) \in Nat
  <2>1. found - index \in Nat
    BY <1>1, <1>3 DEF Inv, Filling
  <2> QED
    BY <1>1, <2>1, FillLess
<1>4. ASSUME pc = "blocks"
      PROVE  ToFill(found - index) + ToFree(found) + 3 - step \in Nat
  <2>1. found - index - 1 \in Nat /\ step <= Len(Allocs(type)) + 1
    BY <1>1, <1>4 DEF Inv, Filling, InLists
  <2>2. /\ ToFill(found - index - 1) \in Nat
        /\ ToFill((found - index - 1) + 1)
             = ToFill(found - index - 1) + Len(Allocs(type)) + 2
    BY <1>1, <2>1, FillLess
  <2>3. (found - index - 1) + 1 = found - index
    BY <1>1
  <2>4. /\ ToFill(found - index) \in Nat
        /\ ToFill(found - index)
             = ToFill(found - index - 1) + Len(Allocs(type)) + 2
    BY <1>1, <2>2, <2>3
  <2>5. step \in Nat /\ ToFree(found) <= ToFree(found)
    BY <1>1, <1>2
  <2> QED
    BY <1>1, <1>2, <2>1, <2>2, <2>4, <2>5, Sums
<1>5. ASSUME pc = "freeing"
      PROVE  ToFree(count - index) + 2 - step \in Nat
  <2>1. count - index \in Nat
    BY <1>1, <1>5 DEF Inv, Freeing
  <2>2. CASE index < count
    <3>1. count - index - 1 \in Nat /\ step <= Len(Frees(type)) + 1
      BY <1>1, <1>5, <2>2 DEF InLists
    <3>2. /\ ToFree(count - index - 1) \in Nat
          /\ ToFree((count - index - 1) + 1)
               = ToFree(count - index - 1) + Len(Frees(type)) + 1
      BY <1>1, <3>1, FreeLess
    <3>3. (count - index - 1) + 1 = count - index
      BY <1>1
    <3> QED
      BY <1>1, <3>1, <3>2, <3>3
  <2>3. CASE ~(index < count)
    <3>1. step = 1
      BY <1>5, <2>3 DEF InLists
    <3>2. ToFree(count - index) \in Nat
      BY <1>1, <2>1, FreeLess
    <3> QED
      BY <3>1, <3>2
  <2> QED
    BY <2>2, <2>3
<1> DEFINE set     == ToFill(found) + ToFree(found) + 5
           entered == ToFill(found) + ToFree(found) + 4
           record  == ToFill(found - index) + ToFree(found) + 3
           given   == ToFree(count) + 2
<1>6. /\ set \in Nat /\ entered \in Nat /\ given \in Nat
      /\ pc = "record" => record \in Nat
  BY <1>2, <1>3
<1> HIDE DEF set, entered, record, given
<1>7. StepsLeft =
        CASE pc = "set"      -> set
          [] pc = "entries"  -> entered
          [] pc = "record"   -> record
          [] pc = "blocks"   ->
               ToFill(found - index) + ToFree(found) + 3 - step
          [] pc = "returned" -> IF returned = "set" THEN given ELSE 0
          [] pc = "freeing"  -> ToFree(count - index) + 2 - step
          [] OTHER           -> 0
  BY DEF StepsLeft, set, entered, record, given
<1>8. 0 \in Nat
  OBVIOUS
<1> QED
  BY <1>4, <1>5, <1>6, <1>7, <1>8, Zenon

LEMMA StepsLeftDecrease ==
  ASSUME Inv, InLists, Next
  PROVE  StepsLeft' < StepsLeft
<1>1. /\ TypeOK /\ found \in Nat /\ index \in Nat /\ count \in Nat
      /\ step \in Nat \ {0}
      /\ Len(Allocs(type)) \in Nat /\ Len(Frees(type)) \in Nat
      /\ DOMAIN Allocs(type) = 1 .. Len(Allocs(type))
  BY ListsOfType DEF Inv, TypeOK
<1>2. /\ type' = type /\ found' = found
  BY DEF Next, table, AllocateSet, NoSet, AllocateEntries, NoEntries,
         BeginRecord, AllocateBlock, SkipBlock, LoseBlock, GiveUp, EndRecord,
         Return, Free, FreeBlock, FreeNext, FreeSet
<1>3. \A n : ToFill(n)' = ToFill(n) /\ ToFree(n)' = ToFree(n)
  BY <1>2 DEF ToFill, ToFree
<1>4. ToFill(found) \in Nat /\ ToFree(found) \in Nat /\ ToFree(count) \in Nat
      /\ ToFill(0) \in Nat /\ ToFree(0) = 0
  <2>1. ToFree(0) = 0
    BY <1>1 DEF ToFree
  <2> QED
    BY <1>1, <2>1, FillLess, FreeLess
<1>5. CASE AllocateSet \/ NoSet \/ AllocateEntries \/ NoEntries
  <2>1. pc = "entries" => index = 0
    BY DEF Inv, Filling
  <2>2. pc = "set" => index = 0 /\ count = 0
    BY DEF Inv, Filling
  <2>3. found - 0 = found
    BY <1>1
  <2>4. CASE AllocateSet
    <3>1. /\ pc = "set" /\ count' = count
          /\ \/ pc' = "returned" /\ returned' = "set"
             \/ pc' = "entries"
      BY <2>4 DEF AllocateSet
    <3> QED
      BY <1>2, <1>3, <1>4, <2>2, <3>1 DEF StepsLeft
  <2>5. CASE NoSet \/ NoEntries
    <3>1. /\ pc \in {"set", "entries"}
          /\ pc' = "returned" /\ returned' = "null"
      BY <2>5 DEF NoSet, NoEntries
    <3> QED
      BY <1>4, <3>1 DEF StepsLeft
  <2>6. CASE AllocateEntries
    <3>1. pc = "entries" /\ pc' = "record" /\ index' = index
      BY <2>6 DEF AllocateEntries
    <3> QED
      BY <1>2, <1>3, <1>4, <2>1, <2>3, <3>1 DEF StepsLeft
  <2> QED
    BY <1>5, <2>4, <2>5, <2>6
<1>6. CASE BeginRecord
  <2>1. /\ pc = "record" /\ pc' = "blocks" /\ step' = 1 /\ index' = index
        /\ index < found
    BY <1>6 DEF BeginRecord
  <2>2. ToFill(found - index) \in Nat
    <3>1. found - index \in Nat
      BY <1>1, <2>1
    <3> QED
      BY <1>1, <3>1, FillLess
  <2> QED
    BY <1>2, <1>3, <1>4, <2>1, <2>2 DEF StepsLeft
<1>7. ASSUME pc = "blocks"
      PROVE  /\ ToFill(found - index) \in Nat
             /\ ToFill(found - (index + 1)) \in Nat
             /\ ToFill(found - index)
                  = ToFill(found - (index + 1)) + Len(Allocs(type)) + 2
             /\ step <= Len(Allocs(type)) + 1
             /\ ToFree(index + 1) \in Nat
             /\ ToFree(index + 1) <= ToFree(found)
  <2>1. /\ found - (index + 1) \in Nat /\ index + 1 \in Nat
        /\ index + 1 <= found
        /\ (found - (index + 1)) + 1 = found - index
    BY <1>1, <1>7 DEF Inv, Filling
  <2>2. /\ ToFill(found - (index + 1)) \in Nat
        /\ ToFill((found - (index + 1)) + 1)
             = ToFill(found - (index + 1)) + Len(Allocs(type)) + 2
    BY <1>1, <2>1, FillLess
  <2>3. ToFree(index + 1) \in Nat /\ ToFree(index + 1) <= ToFree(found)
    BY <1>1, <2>1, FreeLess
  <2> QED
    BY <1>1, <1>7, <2>1, <2>2, <2>3 DEF InLists
<1>8. CASE AllocateBlock \/ SkipBlock \/ LoseBlock
  <2>1. /\ pc = "blocks" /\ pc' = "blocks" /\ step' = step + 1
        /\ index' = index
    BY <1>8 DEF AllocateBlock, SkipBlock, LoseBlock, NextFails
  <2>2. /\ StepsLeft = ToFill(found - index) + ToFree(found) + 3 - step
        /\ StepsLeft' = ToFill(found - index) + ToFree(found) + 3 - (step + 1)
    BY <1>2, <1>3, <2>1 DEF StepsLeft
  <2> QED
    BY <1>1, <1>4, <1>7, <2>1, <2>2, Sums
<1>9. CASE GiveUp
  <2>1. /\ pc = "blocks" /\ pc' = "freeing" /\ count' = index + 1
        /\ index' = 0 /\ step' = 1
    BY <1>9 DEF GiveUp, NextFails
  <2>2. (index + 1) - 0 = index + 1
    BY <1>1
  <2>3. StepsLeft' = ToFree(index + 1) + 2 - 1
    BY <1>3, <2>1, <2>2 DEF StepsLeft
  <2>4. StepsLeft = ToFill(found - index) + ToFree(found) + 3 - step
    BY <2>1 DEF StepsLeft
  <2> QED
    BY <1>1, <1>4, <1>7, <2>1, <2>3, <2>4, Sums
<1>10. CASE EndRecord
  <2>1. pc = "blocks" /\ pc' = "record" /\ index' = index + 1
    BY <1>10 DEF EndRecord
  <2>2. StepsLeft' = ToFill(found - (index + 1)) + ToFree(found) + 3
    BY <1>2, <1>3, <2>1 DEF StepsLeft
  <2>3. StepsLeft = ToFill(found - index) + ToFree(found) + 3 - step
    BY <2>1 DEF StepsLeft
  <2> QED
    BY <1>1, <1>4, <1>7, <2>1, <2>2, <2>3, Sums
<1>11. CASE Return
  <2>1. /\ pc = "record" /\ index = found /\ count' = found
        /\ pc' = "returned" /\ returned' = "set"
    BY <1>11 DEF Return
  <2>2. found - index = 0
    BY <1>1, <2>1
  <2>3. StepsLeft = ToFill(0) + ToFree(found) + 3
    BY <2>1, <2>2 DEF StepsLeft
  <2>4. StepsLeft' = ToFree(found) + 2
    BY <1>3, <2>1 DEF StepsLeft
  <2> QED
    BY <1>4, <2>3, <2>4
<1>12. CASE Free
  <2>1. /\ pc = "returned" /\ returned = "set" /\ pc' = "freeing"
        /\ index' = 0 /\ step' = 1 /\ count' = count
    BY <1>12 DEF Free
  <2>2. count - 0 = count
    BY <1>1
  <2>3. StepsLeft = ToFree(count) + 2 /\ StepsLeft' = ToFree(count) + 2 - 1
    BY <1>3, <2>1, <2>2 DEF StepsLeft
  <2> QED
    BY <1>4, <2>3
<1>13. ASSUME pc = "freeing", index < count
       PROVE  /\ ToFree(count - index) \in Nat
              /\ ToFree(count - (index + 1)) \in Nat
              /\ ToFree(count - index)
                   = ToFree(count - (index + 1)) + Len(Frees(type)) + 1
              /\ step <= Len(Frees(type)) + 1
  <2>1. /\ count - (index + 1) \in Nat
        /\ (count - (index + 1)) + 1 = count - index
    BY <1>1, <1>13
  <2>2. /\ ToFree(count - (index + 1)) \in Nat
        /\ ToFree((count - (index + 1)) + 1)
             = ToFree(count - (index + 1)) + Len(Frees(type)) + 1
    BY <1>1, <2>1, FreeLess
  <2> QED
    BY <1>1, <1>13, <2>1, <2>2 DEF InLists
<1>14. CASE FreeBlock
  <2>1. /\ pc = "freeing" /\ index < count /\ pc' = "freeing"
        /\ step' = step + 1 /\ index' = index /\ count' = count
    BY <1>14 DEF FreeBlock
  <2>2. /\ StepsLeft = ToFree(count - index) + 2 - step
        /\ StepsLeft' = ToFree(count - index) + 2 - (step + 1)
    BY <1>3, <2>1 DEF StepsLeft
  <2> QED
    BY <1>1, <1>13, <2>1, <2>2
<1>15. CASE FreeNext
  <2>1. /\ pc = "freeing" /\ index < count /\ pc' = "freeing"
        /\ step > Len(Frees(type)) /\ step' = 1 /\ index' = index + 1
        /\ count' = count
    BY <1>15 DEF FreeNext
  <2>2. /\ StepsLeft = ToFree(count - index) + 2 - step
        /\ StepsLeft' = ToFree(count - (index + 1)) + 2 - 1
    BY <1>3, <2>1 DEF StepsLeft
  <2> QED
    BY <1>1, <1>13, <2>1, <2>2
<1>16. CASE FreeSet
  <2>1. pc = "freeing" /\ index = count /\ pc' = "done"
    BY <1>16 DEF FreeSet
  <2>2. count - index = 0 /\ step = 1
    BY <1>1, <2>1 DEF InLists
  <2>3. StepsLeft = ToFree(0) + 2 - 1 /\ StepsLeft' = 0
    BY <2>1, <2>2 DEF StepsLeft
  <2> QED
    BY <1>4, <2>3
<1> QED
  BY <1>5, <1>6, <1>8, <1>9, <1>10, <1>11, <1>12, <1>14, <1>15, <1>16 DEF Next

(* No getter and no free goes on for ever, whatever the table holds and    *)
(* whichever allocations fail: each step lowers StepsLeft, which is never  *)
(* negative, from the call of lazybiosGetTypeN to the end of the caller's  *)
(* lazybiosFreeTypeN.                                                      *)
THEOREM SetsRunDown ==
  Spec => [](StepsLeft \in Nat) /\ [][StepsLeft' < StepsLeft]_vars
<1>1. Inv /\ InLists /\ [Next]_vars => [StepsLeft' < StepsLeft]_vars
  BY StepsLeftDecrease
<1>2. QED
  BY <1>1, StepsLeftNatural, Invariance, InListsAlways, PTL DEF Spec

=============================================================================
