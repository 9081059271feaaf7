--------------------------- MODULE ContextProofs ---------------------------
(***************************************************************************)
(* Proofs about module Context, for every set of blocks, firmware images,  *)
(* members and loaders, and for every allocator.                           *)
(***************************************************************************)
EXTENDS Context, TLAPS

-----------------------------------------------------------------------------
(* The inductive invariant *)

(* The position of a loop is one the loop can stand at. *)
CursorInRange ==
  /\ pc = "new" => cursor \in 1 .. Len(ContainerOrder)
  /\ pc = "parse" => cursor \in 1 .. Len(TypeOrder)

(* The block a set's strings lie in belongs to the table, now or before,   *)
(* and to nothing else, least of all to the table that is being read.      *)
StringsApart ==
  \A t \in Types : ptr[t] # NULL =>
    /\ strings[t] \in DOMAIN heap
    /\ \A s \in Slots \ {"dmi_data"} : ptr[s] # strings[t]
    /\ pc = "file_read" => ptr["dmi_data"] # strings[t]

Running == PCs \ {"none", "new", "idle", "load", "parse", "index"}

Holds(slot, image) == ptr[slot] # NULL /\ heap[ptr[slot]] = image

(* What a running loader has put into the context so far. *)
LoadProgress ==
  /\ pc \in Running => source \in Firmware
  /\ pc \in {"file_parse", "file_table", "file_read",
            "devmem_parse", "devmem_table"} =>
       Holds("entry_data", source) /\ entry_len = source
  /\ pc \in {"file_table", "file_read", "devmem_table"} =>
       Holds("entry_union", source)
  /\ pc = "raw_parse" =>
       Holds("entry_copy", source) /\ Holds("dmi_copy", source)
  /\ pc = "file_read" => ptr["dmi_data"] # NULL /\ dmi_len = source
  /\ pc = "parse" => ptr["dmi_data"] # NULL

(* A table that is not just being read is whole, with its length, *)
TableWhole ==
  Table # NULL /\ pc # "file_read" =>
    heap[Table] \in Firmware /\ dmi_len = heap[Table]

(* and with its index, if that is valid, *)
IndexCurrent ==
  Table # NULL /\ index_valid /\ pc \notin {"file_read", "index"} =>
    index = heap[Table]

(* and with its own parsed entry point, unless a loader has replaced one   *)
(* half of the pair and will see to the other.                             *)
PairWhole ==
  /\ Table # NULL /\ ptr["entry_union"] # NULL
  /\ pc \notin {"file_table", "file_read", "devmem_table"}
  => heap[ptr["entry_union"]] = heap[Table]

(* A loader that has succeeded has left a complete pair. *)
LoadedWhole ==
  pc = "index" \/ (Settled /\ status = "loaded") =>
    /\ \A s \in EntrySlots \cup {"dmi_data"} : ptr[s] # NULL
    /\ \A s \in EntrySlots : heap[ptr[s]] = heap[Table]
    /\ entry_len = heap[Table]

MemoryInv == PointersLive /\ SoleOwner /\ StringsApart

LoadInv ==
  LoadProgress /\ TableWhole /\ IndexCurrent /\ PairWhole /\ LoadedWhole

IInv == TypeOK /\ CursorInRange /\ MemoryInv /\ SetsFaithful /\ LoadInv

-----------------------------------------------------------------------------
(* Slots *)

LEMMA SlotFacts ==
  /\ Fixed \subseteq Slots /\ Types \subseteq Slots
  /\ Types \cap Fixed = {}
  /\ \A i \in 1 .. Len(TypeOrder) : TypeOrder[i] \in Types
  /\ \A i \in 1 .. Len(ContainerOrder) : ContainerOrder[i] \in Containers
  /\ Len(ContainerOrder) = 5 /\ Len(TypeOrder) \in Nat \ {0}
<1>1. /\ Fixed \subseteq Slots /\ Types \subseteq Slots
      /\ Types \cap Fixed = {}
  BY ConstantsAssumption DEF Slots
<1>2. Len(TypeOrder) \in Nat \ {0} /\ DOMAIN TypeOrder = 1 .. Len(TypeOrder)
  BY ConstantsAssumption
<1>3. \A i \in 1 .. Len(TypeOrder) : TypeOrder[i] \in Types
  BY <1>2 DEF Types, Range
<1>4. /\ Len(ContainerOrder) = 5
      /\ \A i \in 1 .. Len(ContainerOrder) : ContainerOrder[i] \in Containers
  BY DEF ContainerOrder, Containers
<1> QED BY <1>1, <1>2, <1>3, <1>4

-----------------------------------------------------------------------------
(* The allocator *)

LEMMA FreshIsFree ==
  ASSUME TypeOK, CanMalloc
  PROVE  Fresh \in Blocks /\ Fresh \notin DOMAIN heap /\ Fresh # NULL
BY MallocAssumption, ConstantsAssumption DEF TypeOK, CanMalloc, Fresh

(* What the invariant says of pointers and blocks. *)
Owned == TypeOK /\ PointersLive /\ SoleOwner

MemoryTyped ==
  /\ DOMAIN heap \subseteq Blocks
  /\ heap \in [DOMAIN heap -> Image \cup {Garbage}]
  /\ ptr \in [Slots -> Blocks \cup {NULL}]

(* What a step does to memory: only the slots of S change, each to NULL, a *)
(* new block or one another slot owned, and only the blocks the slots of F *)
(* owned are freed or written.                                             *)
Changes(S, F) ==
  /\ S \cup F \subseteq Slots
  /\ \A s \in Slots \ S : ptr'[s] = ptr[s]
  /\ \A s \in S : \/ ptr'[s] = NULL
                  \/ ptr'[s] \notin DOMAIN heap
                  \/ \E r \in Slots \ {"dmi_data"} : ptr'[s] = ptr[r]
  /\ \A b \in DOMAIN heap \ {ptr[s] : s \in F} :
       b \in DOMAIN heap' /\ heap'[b] = heap[b]
  /\ MemoryTyped' /\ PointersLive' /\ SoleOwner'

LEMMA NewShape ==
  ASSUME Owned, NEW slot \in Slots, NEW c \in Image \cup {Garbage},
         New(slot, c)
  PROVE  /\ Changes({slot}, {})
         /\ ptr'[slot] = Fresh /\ Fresh \notin DOMAIN heap /\ Fresh # NULL
         /\ heap'[Fresh] = c
<1>1. Fresh \in Blocks /\ Fresh \notin DOMAIN heap /\ Fresh # NULL
  BY FreshIsFree DEF New, Owned
<1>2. /\ DOMAIN heap' = DOMAIN heap \cup {Fresh}
      /\ \A b \in DOMAIN heap : heap'[b] = heap[b]
      /\ heap'[Fresh] = c
      /\ heap' = [b \in DOMAIN heap' |-> heap'[b]]
  BY <1>1 DEF New, Alloc
<1>3. /\ ptr' \in [Slots -> Blocks \cup {NULL}]
      /\ ptr'[slot] = Fresh
      /\ \A s \in Slots : s # slot => ptr'[s] = ptr[s]
  BY <1>1 DEF New, Owned, TypeOK
<1>4. MemoryTyped'
  BY <1>1, <1>2, <1>3 DEF Owned, TypeOK, MemoryTyped
<1>5. PointersLive' /\ SoleOwner'
  BY <1>1, <1>2, <1>3 DEF Owned, PointersLive, SoleOwner
<1> QED BY <1>1, <1>2, <1>3, <1>4, <1>5 DEF Changes

LEMMA ReleaseShape ==
  ASSUME Owned, NEW S \in SUBSET Slots, Release(S)
  PROVE  Changes(S, S) /\ \A s \in S : ptr'[s] = NULL
<1>1. /\ DOMAIN heap' = DOMAIN heap \ {ptr[s] : s \in S}
      /\ \A b \in DOMAIN heap' : heap'[b] = heap[b]
      /\ heap' = [b \in DOMAIN heap' |-> heap'[b]]
  BY DEF Release, Free, Restrict
<1>2. /\ \A s \in S : ptr'[s] = NULL
      /\ \A s \in Slots \ S : ptr'[s] = ptr[s]
      /\ ptr' \in [Slots -> Blocks \cup {NULL}]
  BY DEF Release, Owned, TypeOK
<1>3. MemoryTyped'
  BY <1>1, <1>2 DEF Owned, TypeOK, MemoryTyped
<1>4. PointersLive' /\ SoleOwner'
  BY <1>1, <1>2 DEF Owned, PointersLive, SoleOwner
<1> QED BY <1>1, <1>2, <1>3, <1>4 DEF Changes

LEMMA NewFailsShape ==
  ASSUME Owned, NEW slot \in Slots, NewFails(slot)
  PROVE  Changes({slot}, {}) /\ ptr'[slot] = NULL
<1>1. /\ ptr' \in [Slots -> Blocks \cup {NULL}]
      /\ ptr'[slot] = NULL
      /\ \A s \in Slots : s # slot => ptr'[s] = ptr[s]
  BY DEF NewFails, Owned, TypeOK
<1>2. MemoryTyped' /\ PointersLive' /\ SoleOwner'
  BY <1>1 DEF NewFails, Owned, TypeOK, MemoryTyped, PointersLive, SoleOwner
<1> QED BY <1>1, <1>2 DEF NewFails, Changes

LEMMA UnchangedShape ==
  ASSUME Owned, UNCHANGED <<heap, ptr>>
  PROVE  Changes({}, {})
BY DEF Owned, TypeOK, MemoryTyped, PointersLive, SoleOwner, Changes

(* lazybiosParseEntry: the new parsed entry in, the old one out. *)
LEMMA ParseEntryShape ==
  ASSUME Owned, source \in Image, ParseEntry
  PROVE  /\ Changes({"entry_union"}, {"entry_union"})
         /\ ptr'["entry_union"] = Fresh /\ Fresh \notin DOMAIN heap
         /\ Fresh # NULL /\ heap'[Fresh] = source
<1>1. Fresh \in Blocks /\ Fresh \notin DOMAIN heap /\ Fresh # NULL
  BY FreshIsFree DEF ParseEntry, Owned
<1>2. "entry_union" \in Slots /\ ptr["entry_union"] # Fresh
  BY <1>1, SlotFacts DEF Fixed, EntrySlots, Owned, PointersLive
<1>3. /\ DOMAIN heap' = (DOMAIN heap \cup {Fresh}) \ {ptr["entry_union"]}
      /\ \A b \in DOMAIN heap : b # ptr["entry_union"] => heap'[b] = heap[b]
      /\ heap'[Fresh] = source
      /\ heap' = [b \in DOMAIN heap' |-> heap'[b]]
  BY <1>1, <1>2 DEF ParseEntry, Alloc, Free, Restrict
<1>4. /\ ptr' \in [Slots -> Blocks \cup {NULL}]
      /\ ptr'["entry_union"] = Fresh
      /\ \A s \in Slots : s # "entry_union" => ptr'[s] = ptr[s]
  BY <1>1, <1>2 DEF ParseEntry, Owned, TypeOK
<1>5. MemoryTyped'
  BY <1>1, <1>3, <1>4 DEF Owned, TypeOK, MemoryTyped
<1>6. PointersLive' /\ SoleOwner'
  BY <1>1, <1>2, <1>3, <1>4 DEF Owned, PointersLive, SoleOwner
<1> QED BY <1>1, <1>2, <1>3, <1>4, <1>5, <1>6 DEF Changes

(* fread into dmi_data. *)
LEMMA FileReadShape ==
  ASSUME Owned, source \in Image, ptr["dmi_data"] # NULL, FileRead
  PROVE  Changes({}, {"dmi_data"}) /\ heap'[ptr["dmi_data"]] = source
<1>1. "dmi_data" \in Slots /\ ptr["dmi_data"] \in DOMAIN heap
  BY SlotFacts DEF Fixed, Owned, PointersLive
<1>2. /\ DOMAIN heap' = DOMAIN heap
      /\ \A b \in DOMAIN heap \ {ptr["dmi_data"]} : heap'[b] = heap[b]
      /\ heap'[ptr["dmi_data"]] = source
      /\ heap' \in [DOMAIN heap' -> Image \cup {Garbage}]
  BY <1>1 DEF FileRead, Owned, TypeOK
<1>3. ptr' = ptr
  BY DEF FileRead
<1>4. MemoryTyped' /\ PointersLive' /\ SoleOwner'
  BY <1>2, <1>3 DEF Owned, TypeOK, MemoryTyped, PointersLive, SoleOwner
<1> QED BY <1>1, <1>2, <1>3, <1>4 DEF Changes

(* lazybiosLoadRawBuffers' two copies. *)
LEMMA RawCopyShape ==
  ASSUME Owned, source \in Image, RawCopy
  PROVE  /\ Changes({"entry_copy", "dmi_copy"}, {})
         /\ Holds("entry_copy", source)' /\ Holds("dmi_copy", source)'
<1> DEFINE one  == Alloc(heap, Fresh, source)
           copy == Malloc(DOMAIN one)
<1>1. Fresh \in Blocks /\ Fresh \notin DOMAIN heap /\ Fresh # NULL
  BY FreshIsFree DEF RawCopy, Owned
<1>2. /\ DOMAIN one = DOMAIN heap \cup {Fresh}
      /\ \A b \in DOMAIN heap : one[b] = heap[b]
      /\ one[Fresh] = source
  BY <1>1 DEF Alloc
<1>3. /\ DOMAIN one # Blocks
      /\ heap' = Alloc(one, copy, source)
      /\ ptr' = [ptr EXCEPT !["entry_copy"] = Fresh, !["dmi_copy"] = copy]
  BY DEF RawCopy
<1>4. copy \in Blocks /\ copy \notin DOMAIN one /\ copy # NULL
  <2>1. DOMAIN one \in SUBSET Blocks /\ DOMAIN one # Blocks
    BY <1>1, <1>2, <1>3 DEF Owned, TypeOK
  <2> HIDE DEF one
  <2>2. Malloc(DOMAIN one) \in Blocks \ DOMAIN one
    BY <2>1, MallocAssumption
  <2> QED BY <2>2, ConstantsAssumption
<1>5. /\ DOMAIN heap' = DOMAIN heap \cup {Fresh, copy}
      /\ \A b \in DOMAIN heap : heap'[b] = heap[b]
      /\ heap'[Fresh] = source /\ heap'[copy] = source
      /\ heap' = [b \in DOMAIN heap' |-> heap'[b]]
  <2>1. DOMAIN heap' = DOMAIN one \cup {copy}
    BY <1>3 DEF Alloc
  <2>2. \A b \in DOMAIN one \cup {copy} :
          heap'[b] = IF b = copy THEN source ELSE one[b]
    BY <1>3 DEF Alloc
  <2>3. heap' = [b \in DOMAIN heap' |-> heap'[b]]
    BY <1>3 DEF Alloc
  <2> HIDE DEF one, copy
  <2> QED BY <1>1, <1>2, <1>4, <2>1, <2>2, <2>3
<1> HIDE DEF one, copy
<1>6. /\ ptr' \in [Slots -> Blocks \cup {NULL}]
      /\ ptr'["entry_copy"] = Fresh /\ ptr'["dmi_copy"] = copy
      /\ \A s \in Slots \ {"entry_copy", "dmi_copy"} : ptr'[s] = ptr[s]
  BY <1>1, <1>3, <1>4, SlotFacts DEF Owned, TypeOK, Fixed, Locals
<1>7. MemoryTyped'
  <2>1. DOMAIN heap' \subseteq Blocks
    BY <1>1, <1>4, <1>5 DEF Owned, TypeOK
  <2>2. \A b \in DOMAIN heap' : heap'[b] \in Image \cup {Garbage}
    BY <1>5 DEF Owned, TypeOK
  <2> QED BY <1>5, <1>6, <2>1, <2>2 DEF MemoryTyped
<1>8. PointersLive' /\ SoleOwner'
  BY <1>1, <1>2, <1>4, <1>5, <1>6 DEF Owned, PointersLive, SoleOwner
<1>9. source' = source
  BY DEF RawCopy, Advance, initVars
<1> QED
  BY <1>1, <1>2, <1>4, <1>5, <1>6, <1>7, <1>8, <1>9, SlotFacts
     DEF Changes, Holds, Fixed, Locals

(* The hand-over: the copies become the context's, the locals go. *)
LEMMA RawCommitShape ==
  ASSUME Owned, source \in Image, RawCommit
  PROVE  /\ Changes(Locals \cup EntrySlots \cup {"dmi_data"},
                    {"window", "buffer"})
         /\ Holds("entry_union", source)'
         /\ ptr'["entry_data"] = ptr["entry_copy"]
         /\ ptr'["dmi_data"] = ptr["dmi_copy"]
<1>1. Fresh \in Blocks /\ Fresh \notin DOMAIN heap /\ Fresh # NULL
  BY FreshIsFree DEF RawCommit, Owned
<1>2. Locals \cup EntrySlots \cup {"dmi_data"} \subseteq Slots
  BY SlotFacts DEF Fixed
<1>3. ptr["window"] # Fresh /\ ptr["buffer"] # Fresh
  BY <1>1, <1>2 DEF Owned, PointersLive, Locals
<1>4. /\ DOMAIN heap' =
           (DOMAIN heap \cup {Fresh}) \ {ptr["window"], ptr["buffer"]}
      /\ \A b \in DOMAIN heap \cap DOMAIN heap' : heap'[b] = heap[b]
      /\ heap'[Fresh] = source
      /\ heap' = [b \in DOMAIN heap' |-> heap'[b]]
  BY <1>1, <1>3 DEF RawCommit, Alloc, Free, Restrict
<1>5. /\ ptr' = [s \in Slots |->
               CASE s = "entry_data"  -> ptr["entry_copy"]
                 [] s = "entry_union" -> Fresh
                 [] s = "dmi_data"    -> ptr["dmi_copy"]
                 [] s \in Locals      -> NULL
                 [] OTHER             -> ptr[s]]
  BY DEF RawCommit
<1>6. /\ ptr'["entry_data"] = ptr["entry_copy"]
      /\ ptr'["entry_union"] = Fresh
      /\ ptr'["dmi_data"] = ptr["dmi_copy"]
      /\ \A s \in Locals : ptr'[s] = NULL
      /\ \A s \in Slots \ (Locals \cup EntrySlots \cup {"dmi_data"}) :
           ptr'[s] = ptr[s]
  BY <1>2, <1>5 DEF Locals, EntrySlots
<1>7. DOMAIN ptr' = Slots /\ \A s \in Slots : ptr'[s] \in Blocks \cup {NULL}
  <2>1. DOMAIN ptr' = Slots
    BY <1>5
  <2>2. \A s \in Slots : s \in Locals \cup EntrySlots \cup {"dmi_data"}
          => ptr'[s] \in Blocks \cup {NULL}
    BY <1>1, <1>2, <1>6 DEF Owned, TypeOK, EntrySlots, Locals
  <2> QED BY <2>1, <2>2, <1>6 DEF Owned, TypeOK
<1>8. ptr' \in [Slots -> Blocks \cup {NULL}]
  BY <1>5, <1>7
<1>9. MemoryTyped'
  BY <1>1, <1>4, <1>8 DEF Owned, TypeOK, MemoryTyped
<1>10. PointersLive' /\ SoleOwner'
  BY <1>1, <1>2, <1>4, <1>6
     DEF Owned, PointersLive, SoleOwner, EntrySlots, Locals
<1>11. \A s \in Locals \cup EntrySlots \cup {"dmi_data"} :
         \/ ptr'[s] = NULL \/ ptr'[s] \notin DOMAIN heap
         \/ \E r \in Slots \ {"dmi_data"} : ptr'[s] = ptr[r]
  BY <1>1, <1>2, <1>6 DEF EntrySlots, Locals
<1>12. \A b \in DOMAIN heap \ {ptr[s] : s \in {"window", "buffer"}} :
         b \in DOMAIN heap' /\ heap'[b] = heap[b]
  BY <1>4
<1>13. source' = source
  BY DEF RawCommit, Advance, initVars
<1> QED
  BY <1>1, <1>2, <1>4, <1>6, <1>9, <1>10, <1>11, <1>12, <1>13
     DEF Changes, Holds, Locals

(* dmi_data overwritten by a failed malloc, then lazybiosReleaseEntry. *)
LEMMA DevMemTableAllocFailsShape ==
  ASSUME Owned, DevMemTableAllocFails
  PROVE  /\ Changes(EntrySlots \cup {"dmi_data"}, EntrySlots)
         /\ \A s \in EntrySlots \cup {"dmi_data"} : ptr'[s] = NULL
<1>1. EntrySlots \cup {"dmi_data"} \subseteq Slots
  BY SlotFacts DEF Fixed
<1>2. /\ DOMAIN heap' = DOMAIN heap \ {ptr[s] : s \in EntrySlots}
      /\ \A b \in DOMAIN heap' : heap'[b] = heap[b]
      /\ heap' = [b \in DOMAIN heap' |-> heap'[b]]
  BY DEF DevMemTableAllocFails, Free, Restrict
<1>3. /\ \A s \in EntrySlots \cup {"dmi_data"} : ptr'[s] = NULL
      /\ \A s \in Slots \ (EntrySlots \cup {"dmi_data"}) : ptr'[s] = ptr[s]
      /\ ptr' \in [Slots -> Blocks \cup {NULL}]
  BY <1>1 DEF DevMemTableAllocFails, Owned, TypeOK
<1>4. MemoryTyped'
  BY <1>2, <1>3 DEF Owned, TypeOK, MemoryTyped
<1>5. PointersLive' /\ SoleOwner'
  BY <1>1, <1>2, <1>3 DEF Owned, PointersLive, SoleOwner
<1> QED BY <1>1, <1>2, <1>3, <1>4, <1>5 DEF Changes

-----------------------------------------------------------------------------
(* What such a step keeps *)

Stays(s) ==
  ptr'[s] = ptr[s] /\ (ptr[s] # NULL => heap'[ptr[s]] = heap[ptr[s]])

LEMMA Kept ==
  ASSUME Owned, NEW S, NEW F, Changes(S, F)
  PROVE  \A s \in Slots \ (S \cup F) : Stays(s)
BY DEF Owned, PointersLive, SoleOwner, Changes, Stays

(* Parsed sets and their strings survive every step that neither frees a   *)
(* table other than the one being read nor fills one of them.              *)
LEMMA SetsKept ==
  ASSUME IInv, NEW S, NEW F, Changes(S, F),
         strings' = strings,
         \A t \in S \cap Types : ptr'[t] = NULL,
         F \cap Types \subseteq S,
         "dmi_data" \in F => pc = "file_read",
         pc' = "file_read" => ptr'["dmi_data"] \notin DOMAIN heap
  PROVE  MemoryInv' /\ SetsFaithful'
<1>1. ASSUME NEW t \in Types, ptr'[t] # NULL
      PROVE  /\ t \notin S \cup F
             /\ ptr'[t] = ptr[t]
             /\ strings[t] \in DOMAIN heap \ {ptr[s] : s \in F}
             /\ ptr[t] \in DOMAIN heap \ {ptr[s] : s \in F}
  <2>1. t \in Slots /\ t \notin S \cup F /\ ptr'[t] = ptr[t]
    BY <1>1, SlotFacts DEF Changes
  <2>2. strings[t] \in DOMAIN heap \ {ptr[s] : s \in F}
    BY <1>1, <2>1 DEF IInv, MemoryInv, StringsApart, Changes
  <2>3. ptr[t] \in DOMAIN heap \ {ptr[s] : s \in F}
    BY <1>1, <2>1 DEF IInv, MemoryInv, PointersLive, SoleOwner, Changes
  <2> QED BY <2>1, <2>2, <2>3
<1>2. StringsApart'
  <2> SUFFICES ASSUME NEW t \in Types, ptr'[t] # NULL
               PROVE  /\ strings[t] \in DOMAIN heap'
                      /\ \A s \in Slots \ {"dmi_data"} : ptr'[s] # strings[t]
                      /\ pc' = "file_read" => ptr'["dmi_data"] # strings[t]
    BY DEF StringsApart
  <2>1. strings[t] \in DOMAIN heap /\ strings[t] \in DOMAIN heap'
    BY <1>1 DEF Changes
  <2>2. strings[t] # NULL
    BY <2>1, ConstantsAssumption DEF IInv, TypeOK
  <2>3. \A s \in Slots \ {"dmi_data"} : ptr[s] # strings[t]
    BY <1>1 DEF IInv, MemoryInv, StringsApart
  <2>4. \A s \in Slots \ {"dmi_data"} : ptr'[s] # strings[t]
    BY <2>1, <2>2, <2>3 DEF Changes
  <2> QED BY <2>1, <2>4
<1>3. SetsFaithful'
  <2> SUFFICES ASSUME NEW t \in Types, ptr'[t] # NULL
               PROVE  /\ heap'[ptr'[t]] \in Firmware
                      /\ heap'[ptr'[t]] = heap'[strings[t]]
    BY DEF SetsFaithful
  <2>1. heap[ptr[t]] \in Firmware /\ heap[ptr[t]] = heap[strings[t]]
    BY <1>1 DEF IInv, SetsFaithful
  <2> QED BY <1>1, <2>1 DEF Changes
<1> QED BY <1>2, <1>3 DEF Changes, MemoryInv

-----------------------------------------------------------------------------
(* The initial state *)

LEMMA InitIInv == Init => IInv
<1> SUFFICES ASSUME Init PROVE IInv
  OBVIOUS
<1>1. TypeOK
  <2>1. plan \in Seq(Loaders)
    BY DEF Init
  <2>2. cursor \in 0 .. Len(ContainerOrder) + Len(TypeOrder)
    BY SlotFacts DEF Init
  <2> QED BY <2>1, <2>2 DEF Init, TypeOK, Image, PCs
<1>2. CursorInRange /\ MemoryInv
  BY SlotFacts DEF Init, CursorInRange, MemoryInv, PointersLive, SoleOwner,
     StringsApart
<1>3. SetsFaithful /\ LoadInv
  BY SlotFacts DEF Init, LoadInv, LoadProgress, TableWhole, IndexCurrent,
     PairWhole, SetsFaithful, LoadedWhole, Table, Settled, Running, Fixed
<1> QED BY <1>1, <1>2, <1>3 DEF IInv

-----------------------------------------------------------------------------
(* Steps: how each changes memory, then what becomes of each part of IInv *)

LEMMA IInvParts ==
  ASSUME IInv
  PROVE  /\ Owned
         /\ {"entry_data", "entry_union", "dmi_data", "entry_copy", "dmi_copy",
             "window", "buffer"} \subseteq Slots \ Types
         /\ Containers \cup Locals \subseteq Slots
         /\ EntrySlots \cup CtxSlots \subseteq Slots
         /\ Containers \cap Types = {}
BY SlotFacts DEF IInv, MemoryInv, Owned, Fixed, EntrySlots, Locals, CtxSlots

(* lazybiosCTXNew and lazybiosInit. *)
LEMMA OpenSteps ==
  ASSUME IInv,
         \/ CTXNew \/ CTXNewAlloc \/ CTXNewFails \/ InitCall \/ InitRejects
         \/ TryLoader \/ InitFails \/ BuildTypeIndex
  PROVE  IInv'
<1>0. Owned
  BY IInvParts
<1>1. CASE CTXNew
  <2>1. Changes({}, {}) /\ ptr' = ptr /\ heap' = heap
    BY <1>0, <1>1, UnchangedShape DEF CTXNew, memoryVars
  <2>2. /\ pc = "none" /\ pc' = "new"
        /\ cursor' = 1
        /\ UNCHANGED <<entry_len, dmi_len, index, index_valid, strings, plan,
                       source, status>>
    BY <1>1 DEF CTXNew, DataUnchanged, indexVars, initVars
  <2>3. TypeOK' /\ CursorInRange'
    BY <2>1, <2>2, SlotFacts DEF IInv, TypeOK, CursorInRange, PCs
  <2>4. MemoryInv' /\ SetsFaithful'
    BY <2>1, <2>2, SetsKept
  <2>6. LoadInv'
    BY <2>1, <2>2
       DEF IInv, LoadInv, LoadProgress, TableWhole, IndexCurrent, PairWhole,
           LoadedWhole, Table, Settled, Running
  <2> QED BY <2>3, <2>4, <2>6 DEF IInv
<1>2. CASE CTXNewAlloc
  <2>0. /\ pc = "new" /\ New(ContainerOrder[cursor], NULL)
        /\ ContainerOrder[cursor] \in Containers
        /\ cursor \in 1 .. 5 /\ Len(ContainerOrder) = 5
    BY <1>2, SlotFacts DEF CTXNewAlloc, IInv, CursorInRange
  <2>1. /\ Changes({ContainerOrder[cursor]}, {})
        /\ ptr'[ContainerOrder[cursor]] = Fresh /\ Fresh \notin DOMAIN heap
        /\ Fresh # NULL
        /\ heap'[Fresh] = NULL
    BY <2>0, IInvParts, NewShape DEF Image
  <2>2. /\ pc = "new" /\ pc' \in {"new", "idle"}
        /\ IF cursor = 5 THEN pc' = "idle" /\ cursor' = 0 /\ status' = "fresh"
                         ELSE pc' = "new" /\ cursor' = cursor + 1
                                          /\ status' = status
        /\ UNCHANGED <<entry_len, dmi_len, index, index_valid, strings, plan,
                       source>>
    BY <1>2, <2>0 DEF CTXNewAlloc, DataUnchanged, indexVars, initVars
  <2>3. TypeOK' /\ CursorInRange'
    BY <2>0, <2>1, <2>2
       DEF IInv, TypeOK, CursorInRange, Changes, MemoryTyped, PCs
  <2>4. MemoryInv' /\ SetsFaithful'
    BY <2>0, <2>1, <2>2, IInvParts, SetsKept
  <2>5. \A s \in {"entry_data", "entry_union", "dmi_data",
                  "entry_copy", "dmi_copy"} :
           Stays(s)
    BY <2>0, <2>1, IInvParts, Kept DEF Containers
  <2>6. LoadProgress'
    BY <2>2 DEF LoadProgress, Running
  <2>7. TableWhole' /\ IndexCurrent' /\ PairWhole'
    BY <2>2, <2>5
       DEF IInv, LoadInv, TableWhole, IndexCurrent, PairWhole, Table, Stays
  <2>8. LoadedWhole'
    BY <2>2 DEF LoadedWhole, Settled
  <2> QED BY <2>3, <2>4, <2>6, <2>7, <2>8 DEF IInv, LoadInv
<1>3. CASE CTXNewFails
  <2>1. Changes(Containers, Containers) /\ \A s \in Containers : ptr'[s] = NULL
    BY <1>3, IInvParts, ReleaseShape DEF CTXNewFails
  <2>2. /\ pc = "new" /\ pc' = "none"
        /\ cursor' = 0
        /\ UNCHANGED <<entry_len, dmi_len, index, index_valid, strings, plan,
                       source, status>>
    BY <1>3 DEF CTXNewFails, DataUnchanged, indexVars, initVars
  <2>3. TypeOK' /\ CursorInRange'
    BY <2>1, <2>2 DEF IInv, TypeOK, CursorInRange, Changes, MemoryTyped, PCs
  <2>4. MemoryInv' /\ SetsFaithful'
    BY <2>1, <2>2, SetsKept DEF Containers
  <2>5. \A s \in {"entry_data", "entry_union", "dmi_data",
                  "entry_copy", "dmi_copy"} :
           Stays(s)
    BY <2>1, IInvParts, Kept DEF Locals, Containers
  <2>6. LoadInv'
    BY <2>2, <2>5
       DEF IInv, LoadInv, LoadProgress, TableWhole, IndexCurrent, PairWhole,
           LoadedWhole, Table, Settled, Running, Stays
  <2> QED BY <2>3, <2>4, <2>6 DEF IInv
<1>4. CASE InitCall
  <2>1. Changes({}, {}) /\ ptr' = ptr /\ heap' = heap
    BY <1>0, <1>4, UnchangedShape DEF InitCall, memoryVars
  <2>2. /\ pc = "idle" /\ pc' = "load"
        /\ UNCHANGED <<entry_len, dmi_len, index, index_valid, strings,
                       source, cursor, status>>
    BY <1>4 DEF InitCall, DataUnchanged, indexVars
  <2>0. plan' \in Seq(Loaders)
    <3>1. <<"file">> \in Seq(Loaders) /\ <<"single">> \in Seq(Loaders)
      BY DEF Loaders
    <3> QED BY <1>4, <3>1, ConstantsAssumption DEF InitCall, Plans
  <2>3. TypeOK' /\ CursorInRange'
    BY <2>0, <2>1, <2>2 DEF IInv, TypeOK, CursorInRange, PCs
  <2>4. MemoryInv' /\ SetsFaithful'
    BY <2>1, <2>2, SetsKept
  <2>6. LoadInv'
    BY <2>1, <2>2
       DEF IInv, LoadInv, LoadProgress, TableWhole, IndexCurrent, PairWhole,
           LoadedWhole, Table, Settled, Running
  <2> QED BY <2>3, <2>4, <2>6 DEF IInv
<1>5. CASE InitRejects
  <2>1. Changes({}, {}) /\ ptr' = ptr /\ heap' = heap
    BY <1>0, <1>5, UnchangedShape DEF InitRejects, memoryVars
  <2>2. /\ pc = "idle" /\ pc' = "idle"
        /\ status' = "failed"
        /\ UNCHANGED <<entry_len, dmi_len, index, index_valid, strings, plan,
                       source, cursor>>
    BY <1>5 DEF InitRejects, DataUnchanged, indexVars, initVars
  <2>3. TypeOK' /\ CursorInRange'
    BY <2>1, <2>2 DEF IInv, TypeOK, CursorInRange
  <2>4. MemoryInv' /\ SetsFaithful'
    BY <2>1, <2>2, SetsKept
  <2>6. LoadInv'
    BY <2>1, <2>2
       DEF IInv, LoadInv, LoadProgress, TableWhole, IndexCurrent, PairWhole,
           LoadedWhole, Table
  <2> QED BY <2>3, <2>4, <2>6 DEF IInv
<1>6. CASE TryLoader
  <2>0. Head(plan) \in Loaders /\ Tail(plan) \in Seq(Loaders)
    <3>1. plan \in Seq(Loaders) /\ plan # << >>
      BY <1>6 DEF TryLoader, IInv, TypeOK
    <3> QED BY <3>1
  <2>1. Changes({}, {}) /\ ptr' = ptr /\ heap' = heap
    BY <1>0, <1>6, UnchangedShape DEF TryLoader, memoryVars
  <2>2. /\ pc = "load" /\ pc' \in {"file", "single", "legacy", "devmem"}
        /\ source' \in Firmware /\ plan' \in Seq(Loaders)
        /\ UNCHANGED <<entry_len, dmi_len, index, index_valid, strings,
                       cursor, status>>
    BY <1>6, <2>0 DEF Loaders, TryLoader, DataUnchanged, indexVars
  <2>3. TypeOK' /\ CursorInRange'
    BY <2>1, <2>2 DEF IInv, TypeOK, CursorInRange, PCs, Image
  <2>4. MemoryInv' /\ SetsFaithful'
    BY <2>1, <2>2, SetsKept
  <2>6. LoadProgress'
    BY <2>2 DEF LoadProgress
  <2>7. TableWhole' /\ IndexCurrent' /\ PairWhole'
    BY <2>1, <2>2 DEF IInv, LoadInv, TableWhole, IndexCurrent, PairWhole, Table
  <2>8. LoadedWhole'
    BY <2>2 DEF LoadedWhole, Settled
  <2> QED BY <2>3, <2>4, <2>6, <2>7, <2>8 DEF IInv, LoadInv
<1>7. CASE InitFails
  <2>1. Changes({}, {}) /\ ptr' = ptr /\ heap' = heap
    BY <1>0, <1>7, UnchangedShape DEF InitFails, memoryVars
  <2>2. /\ pc = "load" /\ pc' = "idle"
        /\ source' = NULL /\ status' = "failed"
        /\ UNCHANGED <<entry_len, dmi_len, index, index_valid, strings, plan,
                       cursor>>
    BY <1>7 DEF InitFails, DataUnchanged, indexVars
  <2>3. TypeOK' /\ CursorInRange'
    BY <2>1, <2>2 DEF IInv, TypeOK, CursorInRange, PCs, Image
  <2>4. MemoryInv' /\ SetsFaithful'
    BY <2>1, <2>2, SetsKept
  <2>6. LoadInv'
    BY <2>1, <2>2
       DEF IInv, LoadInv, LoadProgress, TableWhole, IndexCurrent, PairWhole,
           LoadedWhole, Table, Running
  <2> QED BY <2>3, <2>4, <2>6 DEF IInv
<1>8. CASE BuildTypeIndex
  <2>1. Changes({}, {}) /\ ptr' = ptr /\ heap' = heap
    BY <1>0, <1>8, UnchangedShape DEF BuildTypeIndex, memoryVars
  <2>2. /\ pc = "index" /\ pc' = "idle"
        /\ ptr["dmi_data"] # NULL
        /\ heap[ptr["dmi_data"]] \in Firmware
        /\ dmi_len = heap[ptr["dmi_data"]]
        /\ \/ index' = NULL /\ index_valid' = FALSE
           \/ index' = heap[ptr["dmi_data"]] /\ index_valid' = TRUE
        /\ source' = NULL /\ plan' = << >> /\ status' = "loaded"
        /\ UNCHANGED <<entry_len, dmi_len, strings, cursor>>
    BY <1>8 DEF BuildTypeIndex, IInv, LoadInv, LoadedWhole, TableWhole, Table
  <2>0. index' \in Image /\ index_valid' \in BOOLEAN
    BY <2>2 DEF Image
  <2>3. TypeOK' /\ CursorInRange'
    BY <2>0, <2>1, <2>2 DEF IInv, TypeOK, CursorInRange, PCs, Image
  <2>4. MemoryInv' /\ SetsFaithful'
    BY <2>1, <2>2, SetsKept
  <2>6. LoadProgress'
    BY <2>2 DEF LoadProgress, Running
  <2>7. TableWhole' /\ IndexCurrent' /\ PairWhole'
    BY <2>1, <2>2 DEF IInv, LoadInv, TableWhole, IndexCurrent, PairWhole, Table
  <2>8. LoadedWhole'
    BY <2>1, <2>2 DEF IInv, LoadInv, LoadedWhole, Table
  <2> QED BY <2>3, <2>4, <2>6, <2>7, <2>8 DEF IInv, LoadInv
<1> QED BY <1>1, <1>2, <1>3, <1>4, <1>5, <1>6, <1>7, <1>8

(* lazybiosFile. *)
LEMMA FileSteps ==
  ASSUME IInv,
         \/ FileOpenFails \/ FileEntryShort \/ FileEntryAlloc
         \/ FileEntryAllocFails \/ FileParse \/ FileParseFails
         \/ FileTableAlloc \/ FileTableAllocFails \/ FileRead \/ FileReadFails
  PROVE  IInv'
<1>0. Owned
  BY IInvParts
<1>1. CASE FileOpenFails
  <2>1. Changes({}, {}) /\ ptr' = ptr /\ heap' = heap
    BY <1>0, <1>1, UnchangedShape DEF FileOpenFails, memoryVars
  <2>2. /\ pc = "file" /\ pc' = "load"
        /\ UNCHANGED <<entry_len, dmi_len, index, index_valid, strings, plan,
                       source, cursor, status>>
    BY <1>1
       DEF FileOpenFails, Advance, LoaderFails, DataUnchanged, indexVars,
           initVars
  <2>3. TypeOK' /\ CursorInRange'
    BY <2>1, <2>2 DEF IInv, TypeOK, CursorInRange, PCs
  <2>4. MemoryInv' /\ SetsFaithful'
    BY <2>1, <2>2, SetsKept
  <2>6. LoadInv'
    BY <2>1, <2>2
       DEF IInv, LoadInv, LoadProgress, TableWhole, IndexCurrent, PairWhole,
           LoadedWhole, Table, Settled, Running
  <2> QED BY <2>3, <2>4, <2>6 DEF IInv
<1>2. CASE FileEntryShort
  <2>1. Changes({}, {}) /\ ptr' = ptr /\ heap' = heap
    BY <1>0, <1>2, UnchangedShape DEF FileEntryShort, memoryVars
  <2>2. /\ pc = "file" /\ pc' = "load"
        /\ entry_len' = source
        /\ UNCHANGED <<dmi_len, index, index_valid, strings, plan, source,
                       cursor, status>>
    BY <1>2 DEF FileEntryShort, Advance, LoaderFails, indexVars, initVars
  <2>3. TypeOK' /\ CursorInRange'
    BY <2>1, <2>2 DEF IInv, TypeOK, CursorInRange, PCs
  <2>4. MemoryInv' /\ SetsFaithful'
    BY <2>1, <2>2, SetsKept
  <2>6. LoadInv'
    BY <2>1, <2>2
       DEF IInv, LoadInv, LoadProgress, TableWhole, IndexCurrent, PairWhole,
           LoadedWhole, Table, Settled, Running
  <2> QED BY <2>3, <2>4, <2>6 DEF IInv
<1>3. CASE FileEntryAlloc
  <2>1. /\ Changes({"entry_data"}, {})
        /\ ptr'["entry_data"] = Fresh /\ Fresh \notin DOMAIN heap
        /\ Fresh # NULL
        /\ heap'[Fresh] = source
    BY <1>3, IInvParts, NewShape DEF FileEntryAlloc, IInv, TypeOK
  <2>2. /\ pc = "file" /\ pc' = "file_parse"
        /\ entry_len' = source
        /\ UNCHANGED <<dmi_len, index, index_valid, strings, plan, source,
                       cursor, status>>
    BY <1>3 DEF FileEntryAlloc, Advance, indexVars, initVars
  <2>3. TypeOK' /\ CursorInRange'
    BY <2>1, <2>2 DEF IInv, TypeOK, CursorInRange, Changes, MemoryTyped, PCs
  <2>4. MemoryInv' /\ SetsFaithful'
    BY <2>1, <2>2, IInvParts, SetsKept
  <2>5. \A s \in {"entry_union", "dmi_data", "entry_copy", "dmi_copy"} :
           Stays(s)
    BY <2>1, IInvParts, Kept
  <2>6. LoadProgress'
    BY <2>1, <2>2 DEF IInv, LoadInv, LoadProgress, Holds, Running, PCs
  <2>7. TableWhole' /\ IndexCurrent' /\ PairWhole'
    BY <2>2, <2>5
       DEF IInv, LoadInv, TableWhole, IndexCurrent, PairWhole, Table, Stays
  <2>8. LoadedWhole'
    BY <2>2 DEF LoadedWhole, Settled
  <2> QED BY <2>3, <2>4, <2>6, <2>7, <2>8 DEF IInv, LoadInv
<1>4. CASE FileEntryAllocFails
  <2>1. Changes({"entry_data"}, {}) /\ ptr'["entry_data"] = NULL
    BY <1>4, IInvParts, NewFailsShape DEF FileEntryAllocFails
  <2>2. /\ pc = "file" /\ pc' = "load"
        /\ entry_len' = source
        /\ UNCHANGED <<dmi_len, index, index_valid, strings, plan, source,
                       cursor, status>>
    BY <1>4 DEF FileEntryAllocFails, Advance, LoaderFails, indexVars, initVars
  <2>3. TypeOK' /\ CursorInRange'
    BY <2>1, <2>2 DEF IInv, TypeOK, CursorInRange, Changes, MemoryTyped, PCs
  <2>4. MemoryInv' /\ SetsFaithful'
    BY <2>1, <2>2, SetsKept
  <2>5. \A s \in {"entry_union", "dmi_data", "entry_copy", "dmi_copy"} :
           Stays(s)
    BY <2>1, IInvParts, Kept
  <2>6. LoadInv'
    BY <2>2, <2>5
       DEF IInv, LoadInv, LoadProgress, TableWhole, IndexCurrent, PairWhole,
           LoadedWhole, Table, Settled, Running, Stays
  <2> QED BY <2>3, <2>4, <2>6 DEF IInv
<1>5. CASE FileParse
  <2>1. /\ Changes({"entry_union"}, {"entry_union"})
        /\ ptr'["entry_union"] = Fresh /\ Fresh \notin DOMAIN heap
        /\ Fresh # NULL /\ heap'[Fresh] = source
    BY <1>0, <1>5, ParseEntryShape DEF FileParse, IInv, TypeOK
  <2>2. /\ pc = "file_parse" /\ pc' = "file_table"
        /\ UNCHANGED <<entry_len, dmi_len, index, index_valid, strings, plan,
                       source, cursor, status>>
    BY <1>5 DEF FileParse, Advance, DataUnchanged, indexVars, initVars
  <2>3. TypeOK' /\ CursorInRange'
    BY <2>1, <2>2 DEF IInv, TypeOK, CursorInRange, Changes, MemoryTyped, PCs
  <2>4. MemoryInv' /\ SetsFaithful'
    BY <2>1, <2>2, IInvParts, SetsKept
  <2>5. \A s \in {"entry_data", "dmi_data", "entry_copy", "dmi_copy"} :
           Stays(s)
    BY <2>1, IInvParts, Kept
  <2>6. LoadProgress'
    BY <2>1, <2>2, <2>5
       DEF IInv, LoadInv, LoadProgress, Holds, Running, PCs, Stays
  <2>7. TableWhole' /\ IndexCurrent' /\ PairWhole'
    BY <2>2, <2>5
       DEF IInv, LoadInv, TableWhole, IndexCurrent, PairWhole, Table, Stays
  <2>8. LoadedWhole'
    BY <2>2 DEF LoadedWhole, Settled
  <2> QED BY <2>3, <2>4, <2>6, <2>7, <2>8 DEF IInv, LoadInv
<1>6. CASE FileParseFails
  <2>1. Changes({}, {}) /\ ptr' = ptr /\ heap' = heap
    BY <1>0, <1>6, UnchangedShape DEF FileParseFails, memoryVars
  <2>2. /\ pc = "file_parse" /\ pc' = "load"
        /\ UNCHANGED <<entry_len, dmi_len, index, index_valid, strings, plan,
                       source, cursor, status>>
    BY <1>6
       DEF FileParseFails, Advance, LoaderFails, DataUnchanged, indexVars,
           initVars
  <2>3. TypeOK' /\ CursorInRange'
    BY <2>1, <2>2 DEF IInv, TypeOK, CursorInRange, PCs
  <2>4. MemoryInv' /\ SetsFaithful'
    BY <2>1, <2>2, SetsKept
  <2>6. LoadInv'
    BY <2>1, <2>2
       DEF IInv, LoadInv, LoadProgress, TableWhole, IndexCurrent, PairWhole,
           LoadedWhole, Table, Settled, Running
  <2> QED BY <2>3, <2>4, <2>6 DEF IInv
<1>7. CASE FileTableAlloc
  <2>1. /\ Changes({"dmi_data"}, {})
        /\ ptr'["dmi_data"] = Fresh /\ Fresh \notin DOMAIN heap /\ Fresh # NULL
        /\ heap'[Fresh] = Garbage
    BY <1>7, IInvParts, NewShape DEF FileTableAlloc
  <2>2. /\ pc = "file_table" /\ pc' = "file_read"
        /\ dmi_len' = source
        /\ UNCHANGED <<entry_len, index, index_valid, strings, plan, source,
                       cursor, status>>
    BY <1>7 DEF FileTableAlloc, Advance, indexVars, initVars
  <2>3. TypeOK' /\ CursorInRange'
    BY <2>1, <2>2 DEF IInv, TypeOK, CursorInRange, Changes, MemoryTyped, PCs
  <2>4. MemoryInv' /\ SetsFaithful'
    BY <2>1, <2>2, IInvParts, SetsKept
  <2>5. \A s \in {"entry_data", "entry_union", "entry_copy", "dmi_copy"} :
           Stays(s)
    BY <2>1, IInvParts, Kept
  <2>6. LoadProgress'
    BY <2>1, <2>2, <2>5
       DEF IInv, LoadInv, LoadProgress, Holds, Running, PCs, Stays
  <2>7. TableWhole' /\ IndexCurrent' /\ PairWhole'
    BY <2>2 DEF TableWhole, IndexCurrent, PairWhole
  <2>8. LoadedWhole'
    BY <2>2 DEF LoadedWhole, Settled
  <2> QED BY <2>3, <2>4, <2>6, <2>7, <2>8 DEF IInv, LoadInv
<1>8. CASE FileTableAllocFails
  <2>1. Changes({"dmi_data"}, {}) /\ ptr'["dmi_data"] = NULL
    BY <1>8, IInvParts, NewFailsShape DEF FileTableAllocFails
  <2>2. /\ pc = "file_table" /\ pc' = "load"
        /\ dmi_len' = source
        /\ UNCHANGED <<entry_len, index, index_valid, strings, plan, source,
                       cursor, status>>
    BY <1>8 DEF FileTableAllocFails, Advance, LoaderFails, indexVars, initVars
  <2>3. TypeOK' /\ CursorInRange'
    BY <2>1, <2>2 DEF IInv, TypeOK, CursorInRange, Changes, MemoryTyped, PCs
  <2>4. MemoryInv' /\ SetsFaithful'
    BY <2>1, <2>2, SetsKept
  <2>6. LoadInv'
    BY <2>1, <2>2
       DEF LoadInv, LoadProgress, TableWhole, IndexCurrent, PairWhole,
           LoadedWhole, Table, Settled, Running
  <2> QED BY <2>3, <2>4, <2>6 DEF IInv
<1>9. CASE FileRead
  <2>1. /\ Changes({}, {"dmi_data"}) /\ ptr' = ptr
        /\ ptr["dmi_data"] # NULL /\ heap'[ptr["dmi_data"]] = source
    BY <1>0, <1>9, FileReadShape
       DEF FileRead, IInv, TypeOK, LoadInv, LoadProgress
  <2>2. /\ pc = "file_read" /\ pc' = "index"
        /\ UNCHANGED <<entry_len, dmi_len, index, index_valid, strings, plan,
                       source, cursor, status>>
    BY <1>9 DEF FileRead, Advance, DataUnchanged, indexVars, initVars
  <2>3. TypeOK' /\ CursorInRange'
    BY <2>1, <2>2 DEF IInv, TypeOK, CursorInRange, Changes, MemoryTyped, PCs
  <2>4. MemoryInv' /\ SetsFaithful'
    BY <2>1, <2>2, IInvParts, SetsKept
  <2>5. \A s \in {"entry_data", "entry_union", "entry_copy", "dmi_copy"} :
           Stays(s)
    BY <2>1, IInvParts, Kept
  <2>6. LoadProgress'
    BY <2>2 DEF LoadProgress, Running
  <2>7. TableWhole' /\ IndexCurrent' /\ PairWhole'
    BY <2>1, <2>2, <2>5
       DEF IInv, LoadInv, LoadProgress, TableWhole, IndexCurrent, PairWhole,
           Table, Holds, Stays, Running, PCs
  <2>8. LoadedWhole'
    BY <2>1, <2>2, <2>5
       DEF IInv, LoadInv, LoadProgress, LoadedWhole, Table, Holds, Stays,
           EntrySlots
  <2> QED BY <2>3, <2>4, <2>6, <2>7, <2>8 DEF IInv, LoadInv
<1>10. CASE FileReadFails
  <2>1. /\ Changes({"dmi_data"}, {"dmi_data"})
        /\ \A s \in {"dmi_data"} : ptr'[s] = NULL
    BY <1>10, IInvParts, ReleaseShape DEF FileReadFails
  <2>2. /\ pc = "file_read" /\ pc' = "load"
        /\ UNCHANGED <<entry_len, dmi_len, index, index_valid, strings, plan,
                       source, cursor, status>>
    BY <1>10
       DEF FileReadFails, Advance, LoaderFails, DataUnchanged, indexVars,
           initVars
  <2>3. TypeOK' /\ CursorInRange'
    BY <2>1, <2>2 DEF IInv, TypeOK, CursorInRange, Changes, MemoryTyped, PCs
  <2>4. MemoryInv' /\ SetsFaithful'
    BY <2>1, <2>2, SetsKept
  <2>6. LoadInv'
    BY <2>1, <2>2
       DEF LoadInv, LoadProgress, TableWhole, IndexCurrent, PairWhole,
           LoadedWhole, Table, Settled, Running
  <2> QED BY <2>3, <2>4, <2>6 DEF IInv
<1> QED BY <1>1, <1>2, <1>3, <1>4, <1>5, <1>6, <1>7, <1>8, <1>9, <1>10

(* lazybiosLoadRawBuffers and its callers. *)
LEMMA RawSteps ==
  ASSUME IInv, LegacyWindow \/ ReadTable \/ RawFails \/ RawCopy \/ RawCommit
  PROVE  IInv'
<1>0. Owned
  BY IInvParts
<1>1. CASE LegacyWindow
  <2>1. /\ Changes({"window"}, {})
        /\ ptr'["window"] = Fresh /\ Fresh \notin DOMAIN heap /\ Fresh # NULL
        /\ heap'[Fresh] = source
    BY <1>1, IInvParts, NewShape DEF LegacyWindow, IInv, TypeOK
  <2>2. /\ pc = "legacy" /\ pc' = "single"
        /\ UNCHANGED <<entry_len, dmi_len, index, index_valid, strings, plan,
                       source, cursor, status>>
    BY <1>1 DEF LegacyWindow, Advance, DataUnchanged, indexVars, initVars
  <2>3. TypeOK' /\ CursorInRange'
    BY <2>1, <2>2 DEF IInv, TypeOK, CursorInRange, Changes, MemoryTyped, PCs
  <2>4. MemoryInv' /\ SetsFaithful'
    BY <2>1, <2>2, IInvParts, SetsKept
  <2>5. \A s \in {"entry_data", "entry_union", "dmi_data",
                  "entry_copy", "dmi_copy"} :
           Stays(s)
    BY <2>1, IInvParts, Kept
  <2>6. LoadProgress'
    BY <2>2 DEF IInv, LoadInv, LoadProgress, Running, PCs
  <2>7. TableWhole' /\ IndexCurrent' /\ PairWhole'
    BY <2>2, <2>5
       DEF IInv, LoadInv, TableWhole, IndexCurrent, PairWhole, Table, Stays
  <2>8. LoadedWhole'
    BY <2>2 DEF LoadedWhole, Settled
  <2> QED BY <2>3, <2>4, <2>6, <2>7, <2>8 DEF IInv, LoadInv
<1>2. CASE ReadTable
  <2>1. /\ Changes({"buffer"}, {})
        /\ ptr'["buffer"] = Fresh /\ Fresh \notin DOMAIN heap /\ Fresh # NULL
        /\ heap'[Fresh] = source
    BY <1>2, IInvParts, NewShape DEF ReadTable, IInv, TypeOK
  <2>2. /\ pc = "single" /\ pc' = "raw"
        /\ UNCHANGED <<entry_len, dmi_len, index, index_valid, strings, plan,
                       source, cursor, status>>
    BY <1>2 DEF ReadTable, Advance, DataUnchanged, indexVars, initVars
  <2>3. TypeOK' /\ CursorInRange'
    BY <2>1, <2>2 DEF IInv, TypeOK, CursorInRange, Changes, MemoryTyped, PCs
  <2>4. MemoryInv' /\ SetsFaithful'
    BY <2>1, <2>2, IInvParts, SetsKept
  <2>5. \A s \in {"entry_data", "entry_union", "dmi_data",
                  "entry_copy", "dmi_copy"} :
           Stays(s)
    BY <2>1, IInvParts, Kept
  <2>6. LoadProgress'
    BY <2>2 DEF IInv, LoadInv, LoadProgress, Running, PCs
  <2>7. TableWhole' /\ IndexCurrent' /\ PairWhole'
    BY <2>2, <2>5
       DEF IInv, LoadInv, TableWhole, IndexCurrent, PairWhole, Table, Stays
  <2>8. LoadedWhole'
    BY <2>2 DEF LoadedWhole, Settled
  <2> QED BY <2>3, <2>4, <2>6, <2>7, <2>8 DEF IInv, LoadInv
<1>3. CASE RawFails
  <2>1. Changes(Locals, Locals) /\ \A s \in Locals : ptr'[s] = NULL
    BY <1>3, IInvParts, ReleaseShape DEF RawFails
  <2>2. /\ pc \in {"single", "legacy", "raw", "raw_parse"} /\ pc' = "load"
        /\ UNCHANGED <<entry_len, dmi_len, index, index_valid, strings, plan,
                       source, cursor, status>>
    BY <1>3
       DEF RawFails, Advance, LoaderFails, DataUnchanged, indexVars, initVars
  <2>3. TypeOK' /\ CursorInRange'
    BY <2>1, <2>2 DEF IInv, TypeOK, CursorInRange, Changes, MemoryTyped, PCs
  <2>4. MemoryInv' /\ SetsFaithful'
    BY <2>1, <2>2, SetsKept DEF Locals
  <2>5. \A s \in {"entry_data", "entry_union", "dmi_data"} : Stays(s)
    BY <2>1, IInvParts, Kept DEF Locals
  <2>6. LoadInv'
    BY <2>2, <2>5
       DEF IInv, LoadInv, LoadProgress, TableWhole, IndexCurrent, PairWhole,
           LoadedWhole, Table, Settled, Running, Stays
  <2> QED BY <2>3, <2>4, <2>6 DEF IInv
<1>4. CASE RawCopy
  <2>1. /\ Changes({"entry_copy", "dmi_copy"}, {})
        /\ Holds("entry_copy", source)' /\ Holds("dmi_copy", source)'
    BY <1>0, <1>4, RawCopyShape DEF IInv, TypeOK
  <2>2. /\ pc = "raw" /\ pc' = "raw_parse"
        /\ UNCHANGED <<entry_len, dmi_len, index, index_valid, strings, plan,
                       source, cursor, status>>
    BY <1>4 DEF RawCopy, Advance, DataUnchanged, indexVars, initVars
  <2>3. TypeOK' /\ CursorInRange'
    BY <2>1, <2>2 DEF IInv, TypeOK, CursorInRange, Changes, MemoryTyped, PCs
  <2>4. MemoryInv' /\ SetsFaithful'
    BY <2>1, <2>2, IInvParts, SetsKept
  <2>5. \A s \in {"entry_data", "entry_union", "dmi_data"} : Stays(s)
    BY <2>1, IInvParts, Kept
  <2>6. LoadProgress'
    BY <2>1, <2>2 DEF IInv, LoadInv, LoadProgress, Running, PCs
  <2>7. TableWhole' /\ IndexCurrent' /\ PairWhole'
    BY <2>2, <2>5
       DEF IInv, LoadInv, TableWhole, IndexCurrent, PairWhole, Table, Stays
  <2>8. LoadedWhole'
    BY <2>2 DEF LoadedWhole, Settled
  <2> QED BY <2>3, <2>4, <2>6, <2>7, <2>8 DEF IInv, LoadInv
<1>5. CASE RawCommit
  <2>1. /\ Changes(Locals \cup EntrySlots \cup {"dmi_data"},
                   {"window", "buffer"})
        /\ Holds("entry_union", source)'
        /\ ptr'["entry_data"] = ptr["entry_copy"]
        /\ ptr'["dmi_data"] = ptr["dmi_copy"]
    BY <1>0, <1>5, RawCommitShape DEF IInv, TypeOK
  <2>2. /\ pc = "raw_parse" /\ pc' = "index"
        /\ entry_len' = source /\ dmi_len' = source /\ index' = NULL
        /\ index_valid' = FALSE
        /\ UNCHANGED <<strings, plan, source, cursor, status>>
    BY <1>5 DEF RawCommit, Advance, initVars
  <2>3. TypeOK' /\ CursorInRange'
    BY <2>1, <2>2
       DEF IInv, TypeOK, CursorInRange, Changes, MemoryTyped, PCs, Image
  <2>4. MemoryInv' /\ SetsFaithful'
    BY <2>1, <2>2, IInvParts, SetsKept DEF EntrySlots, Locals
  <2>5. /\ source \in Firmware
        /\ ptr["entry_copy"] # NULL /\ heap'[ptr["entry_copy"]] = source
        /\ ptr["dmi_copy"] # NULL /\ heap'[ptr["dmi_copy"]] = source
    <3>1. /\ source \in Firmware
          /\ Holds("entry_copy", source) /\ Holds("dmi_copy", source)
      BY <2>2 DEF IInv, LoadInv, LoadProgress, Running, PCs
    <3>2. \A s \in {"entry_copy", "dmi_copy"} :
            ptr[s] \in DOMAIN heap \ {ptr[r] : r \in {"window", "buffer"}}
      BY <3>1, IInvParts DEF Owned, PointersLive, SoleOwner, Holds
    <3> QED BY <2>1, <3>1, <3>2 DEF Holds, Changes
  <2>6. LoadProgress'
    BY <2>2 DEF LoadProgress, Running
  <2>7. TableWhole' /\ IndexCurrent' /\ PairWhole'
    BY <2>1, <2>2, <2>5 DEF TableWhole, IndexCurrent, PairWhole, Table, Holds
  <2>8. LoadedWhole'
    BY <2>1, <2>2, <2>5 DEF LoadedWhole, Table, Holds, EntrySlots
  <2> QED BY <2>3, <2>4, <2>6, <2>7, <2>8 DEF IInv, LoadInv
<1> QED BY <1>1, <1>2, <1>3, <1>4, <1>5

(* lazybiosDevMem. *)
LEMMA DevMemSteps ==
  ASSUME IInv,
         \/ DevMemFindFails \/ DevMemEntryAlloc \/ DevMemEntryAllocFails
         \/ DevMemParse \/ DevMemReleases \/ DevMemTable
         \/ DevMemTableAllocFails
  PROVE  IInv'
<1>0. Owned
  BY IInvParts
<1>1. CASE DevMemFindFails
  <2>1. Changes({}, {}) /\ ptr' = ptr /\ heap' = heap
    BY <1>0, <1>1, UnchangedShape DEF DevMemFindFails, memoryVars
  <2>2. /\ pc = "devmem" /\ pc' = "load"
        /\ UNCHANGED <<entry_len, dmi_len, index, index_valid, strings, plan,
                       source, cursor, status>>
    BY <1>1
       DEF DevMemFindFails, Advance, LoaderFails, DataUnchanged, indexVars,
           initVars
  <2>3. TypeOK' /\ CursorInRange'
    BY <2>1, <2>2 DEF IInv, TypeOK, CursorInRange, PCs
  <2>4. MemoryInv' /\ SetsFaithful'
    BY <2>1, <2>2, SetsKept
  <2>6. LoadInv'
    BY <2>1, <2>2
       DEF IInv, LoadInv, LoadProgress, TableWhole, IndexCurrent, PairWhole,
           LoadedWhole, Table, Settled, Running
  <2> QED BY <2>3, <2>4, <2>6 DEF IInv
<1>2. CASE DevMemEntryAlloc
  <2>1. /\ Changes({"entry_data"}, {})
        /\ ptr'["entry_data"] = Fresh /\ Fresh \notin DOMAIN heap
        /\ Fresh # NULL
        /\ heap'[Fresh] = source
    BY <1>2, IInvParts, NewShape DEF DevMemEntryAlloc, IInv, TypeOK
  <2>2. /\ pc = "devmem" /\ pc' = "devmem_parse"
        /\ entry_len' = source
        /\ UNCHANGED <<dmi_len, index, index_valid, strings, plan, source,
                       cursor, status>>
    BY <1>2 DEF DevMemEntryAlloc, Advance, indexVars, initVars
  <2>3. TypeOK' /\ CursorInRange'
    BY <2>1, <2>2 DEF IInv, TypeOK, CursorInRange, Changes, MemoryTyped, PCs
  <2>4. MemoryInv' /\ SetsFaithful'
    BY <2>1, <2>2, IInvParts, SetsKept
  <2>5. \A s \in {"entry_union", "dmi_data", "entry_copy", "dmi_copy"} :
           Stays(s)
    BY <2>1, IInvParts, Kept
  <2>6. LoadProgress'
    BY <2>1, <2>2 DEF IInv, LoadInv, LoadProgress, Holds, Running, PCs
  <2>7. TableWhole' /\ IndexCurrent' /\ PairWhole'
    BY <2>2, <2>5
       DEF IInv, LoadInv, TableWhole, IndexCurrent, PairWhole, Table, Stays
  <2>8. LoadedWhole'
    BY <2>2 DEF LoadedWhole, Settled
  <2> QED BY <2>3, <2>4, <2>6, <2>7, <2>8 DEF IInv, LoadInv
<1>3. CASE DevMemEntryAllocFails
  <2>1. Changes({"entry_data"}, {}) /\ ptr'["entry_data"] = NULL
    BY <1>3, IInvParts, NewFailsShape DEF DevMemEntryAllocFails
  <2>2. /\ pc = "devmem" /\ pc' = "load"
        /\ entry_len' = source
        /\ UNCHANGED <<dmi_len, index, index_valid, strings, plan, source,
                       cursor, status>>
    BY <1>3
       DEF DevMemEntryAllocFails, Advance, LoaderFails, indexVars, initVars
  <2>3. TypeOK' /\ CursorInRange'
    BY <2>1, <2>2 DEF IInv, TypeOK, CursorInRange, Changes, MemoryTyped, PCs
  <2>4. MemoryInv' /\ SetsFaithful'
    BY <2>1, <2>2, SetsKept
  <2>5. \A s \in {"entry_union", "dmi_data", "entry_copy", "dmi_copy"} :
           Stays(s)
    BY <2>1, IInvParts, Kept
  <2>6. LoadInv'
    BY <2>2, <2>5
       DEF IInv, LoadInv, LoadProgress, TableWhole, IndexCurrent, PairWhole,
           LoadedWhole, Table, Settled, Running, Stays
  <2> QED BY <2>3, <2>4, <2>6 DEF IInv
<1>4. CASE DevMemParse
  <2>1. /\ Changes({"entry_union"}, {"entry_union"})
        /\ ptr'["entry_union"] = Fresh /\ Fresh \notin DOMAIN heap
        /\ Fresh # NULL /\ heap'[Fresh] = source
    BY <1>0, <1>4, ParseEntryShape DEF DevMemParse, IInv, TypeOK
  <2>2. /\ pc = "devmem_parse" /\ pc' = "devmem_table"
        /\ UNCHANGED <<entry_len, dmi_len, index, index_valid, strings, plan,
                       source, cursor, status>>
    BY <1>4 DEF DevMemParse, Advance, DataUnchanged, indexVars, initVars
  <2>3. TypeOK' /\ CursorInRange'
    BY <2>1, <2>2 DEF IInv, TypeOK, CursorInRange, Changes, MemoryTyped, PCs
  <2>4. MemoryInv' /\ SetsFaithful'
    BY <2>1, <2>2, IInvParts, SetsKept
  <2>5. \A s \in {"entry_data", "dmi_data", "entry_copy", "dmi_copy"} :
           Stays(s)
    BY <2>1, IInvParts, Kept
  <2>6. LoadProgress'
    BY <2>1, <2>2, <2>5
       DEF IInv, LoadInv, LoadProgress, Holds, Running, PCs, Stays
  <2>7. TableWhole' /\ IndexCurrent' /\ PairWhole'
    BY <2>2, <2>5
       DEF IInv, LoadInv, TableWhole, IndexCurrent, PairWhole, Table, Stays
  <2>8. LoadedWhole'
    BY <2>2 DEF LoadedWhole, Settled
  <2> QED BY <2>3, <2>4, <2>6, <2>7, <2>8 DEF IInv, LoadInv
<1>5. CASE DevMemReleases
  <2>1. Changes(EntrySlots, EntrySlots) /\ \A s \in EntrySlots : ptr'[s] = NULL
    BY <1>5, IInvParts, ReleaseShape DEF DevMemReleases
  <2>2. /\ pc \in {"devmem_parse", "devmem_table"} /\ pc' = "load"
        /\ entry_len' = NULL
        /\ UNCHANGED <<dmi_len, index, index_valid, strings, plan, source,
                       cursor, status>>
    BY <1>5 DEF DevMemReleases, Advance, LoaderFails, indexVars, initVars
  <2>3. TypeOK' /\ CursorInRange'
    BY <2>1, <2>2
       DEF IInv, TypeOK, CursorInRange, Changes, MemoryTyped, PCs, Image
  <2>4. MemoryInv' /\ SetsFaithful'
    BY <2>1, <2>2, SetsKept DEF EntrySlots
  <2>5. \A s \in {"dmi_data", "entry_copy", "dmi_copy"} : Stays(s)
    BY <2>1, IInvParts, Kept DEF EntrySlots
  <2>6. LoadInv'
    BY <2>1, <2>2, <2>5
       DEF IInv, LoadInv, LoadProgress, TableWhole, IndexCurrent, PairWhole,
           LoadedWhole, Table, Settled, Running, EntrySlots, Stays
  <2> QED BY <2>3, <2>4, <2>6 DEF IInv
<1>6. CASE DevMemTable
  <2>1. /\ Changes({"dmi_data"}, {})
        /\ ptr'["dmi_data"] = Fresh /\ Fresh \notin DOMAIN heap /\ Fresh # NULL
        /\ heap'[Fresh] = source
    BY <1>6, IInvParts, NewShape DEF DevMemTable, IInv, TypeOK
  <2>2. /\ pc = "devmem_table" /\ pc' = "index"
        /\ dmi_len' = source
        /\ UNCHANGED <<entry_len, index, index_valid, strings, plan, source,
                       cursor, status>>
    BY <1>6 DEF DevMemTable, Advance, indexVars, initVars
  <2>3. TypeOK' /\ CursorInRange'
    BY <2>1, <2>2 DEF IInv, TypeOK, CursorInRange, Changes, MemoryTyped, PCs
  <2>4. MemoryInv' /\ SetsFaithful'
    BY <2>1, <2>2, IInvParts, SetsKept
  <2>5. \A s \in {"entry_data", "entry_union", "entry_copy", "dmi_copy"} :
           Stays(s)
    BY <2>1, IInvParts, Kept
  <2>6. LoadProgress'
    BY <2>2 DEF LoadProgress, Running
  <2>7. TableWhole' /\ IndexCurrent' /\ PairWhole'
    BY <2>1, <2>2, <2>5
       DEF IInv, LoadInv, LoadProgress, TableWhole, IndexCurrent, PairWhole,
           Table, Holds, Stays, Running, PCs
  <2>8. LoadedWhole'
    BY <2>1, <2>2, <2>5
       DEF IInv, LoadInv, LoadProgress, LoadedWhole, Table, Holds, Stays,
           EntrySlots
  <2> QED BY <2>3, <2>4, <2>6, <2>7, <2>8 DEF IInv, LoadInv
<1>7. CASE DevMemTableAllocFails
  <2>1. /\ Changes(EntrySlots \cup {"dmi_data"}, EntrySlots)
        /\ \A s \in EntrySlots \cup {"dmi_data"} : ptr'[s] = NULL
    BY <1>0, <1>7, DevMemTableAllocFailsShape
  <2>2. /\ pc = "devmem_table" /\ pc' = "load"
        /\ dmi_len' = source /\ entry_len' = NULL
        /\ UNCHANGED <<index, index_valid, strings, plan, source, cursor,
                       status>>
    BY <1>7
       DEF DevMemTableAllocFails, Advance, LoaderFails, indexVars, initVars
  <2>3. TypeOK' /\ CursorInRange'
    BY <2>1, <2>2
       DEF IInv, TypeOK, CursorInRange, Changes, MemoryTyped, PCs, Image
  <2>4. MemoryInv' /\ SetsFaithful'
    BY <2>1, <2>2, SetsKept DEF EntrySlots
  <2>6. LoadInv'
    BY <2>1, <2>2
       DEF LoadInv, LoadProgress, TableWhole, IndexCurrent, PairWhole,
           LoadedWhole, Table, Settled, Running
  <2> QED BY <2>3, <2>4, <2>6 DEF IInv
<1> QED BY <1>1, <1>2, <1>3, <1>4, <1>5, <1>6, <1>7

(* The client's calls. *)
LEMMA ParseSteps ==
  ASSUME IInv, ParseAll \/ ParseAllSkips \/ Cleanup
  PROVE  IInv'
<1>0. Owned
  BY IInvParts
<1>1. CASE ParseAll
  <2>1. Changes({}, {}) /\ ptr' = ptr /\ heap' = heap
    BY <1>0, <1>1, UnchangedShape DEF ParseAll, memoryVars
  <2>2. /\ pc = "idle" /\ pc' = "parse"
        /\ ptr["dmi_data"] # NULL
        /\ cursor' = 1
        /\ UNCHANGED <<entry_len, dmi_len, index, index_valid, strings, plan,
                       source, status>>
    BY <1>1 DEF ParseAll, DataUnchanged, indexVars, initVars
  <2>3. TypeOK' /\ CursorInRange'
    BY <2>1, <2>2, SlotFacts DEF IInv, TypeOK, CursorInRange, PCs
  <2>4. MemoryInv' /\ SetsFaithful'
    BY <2>1, <2>2, SetsKept
  <2>6. LoadProgress'
    BY <2>1, <2>2 DEF LoadProgress, Running
  <2>7. TableWhole' /\ IndexCurrent' /\ PairWhole'
    BY <2>1, <2>2 DEF IInv, LoadInv, TableWhole, IndexCurrent, PairWhole, Table
  <2>8. LoadedWhole'
    BY <2>1, <2>2 DEF IInv, LoadInv, LoadedWhole, Table, Settled
  <2> QED BY <2>3, <2>4, <2>6, <2>7, <2>8 DEF IInv, LoadInv
<1>2. CASE ParseAllSkips
  <2>1. Changes({}, {}) /\ ptr' = ptr /\ heap' = heap
    BY <1>0, <1>2, UnchangedShape DEF ParseAllSkips, memoryVars
  <2>2. /\ pc = "parse" /\ pc' \in {"idle", "parse"}
        /\ IF cursor = Len(TypeOrder)
           THEN pc' = "idle" /\ cursor' = 0
           ELSE pc' = "parse" /\ cursor' = cursor + 1
        /\ UNCHANGED <<entry_len, dmi_len, index, index_valid, strings, plan,
                       source, status>>
    BY <1>2 DEF ParseAllSkips, DataUnchanged, indexVars, initVars, ParseAdvance
  <2>3. TypeOK' /\ CursorInRange'
    BY <2>1, <2>2 DEF IInv, TypeOK, CursorInRange, PCs
  <2>4. MemoryInv' /\ SetsFaithful'
    BY <2>1, <2>2, SetsKept
  <2>6. LoadInv'
    BY <2>1, <2>2
       DEF IInv, LoadInv, LoadProgress, TableWhole, IndexCurrent, PairWhole,
           LoadedWhole, Table, Settled, Running
  <2> QED BY <2>3, <2>4, <2>6 DEF IInv
<1>3. CASE Cleanup
  <2>1. Changes(CtxSlots, CtxSlots) /\ \A s \in CtxSlots : ptr'[s] = NULL
    BY <1>3, IInvParts, ReleaseShape DEF Cleanup
  <2>2. /\ pc = "idle" /\ pc' = "none"
        /\ entry_len' = NULL /\ dmi_len' = NULL /\ index' = NULL
        /\ index_valid' = FALSE /\ status' = "none"
        /\ strings' = [t \in Types |-> NULL]
        /\ UNCHANGED <<plan, source, cursor>>
    BY <1>3 DEF Cleanup, initVars
  <2>3. TypeOK' /\ CursorInRange'
    BY <2>1, <2>2
       DEF IInv, TypeOK, CursorInRange, Changes, MemoryTyped, PCs, Image
  <2>4. MemoryInv' /\ SetsFaithful'
    BY <2>1, SlotFacts
       DEF MemoryInv, StringsApart, SetsFaithful, Changes, CtxSlots, Fixed
  <2>6. LoadProgress'
    BY <2>2 DEF LoadProgress, Running
  <2>7. TableWhole' /\ IndexCurrent' /\ PairWhole'
    BY <2>1, SlotFacts
       DEF TableWhole, IndexCurrent, PairWhole, Table, CtxSlots, Fixed, Locals
  <2>8. LoadedWhole'
    BY <2>2 DEF LoadedWhole
  <2> QED BY <2>3, <2>4, <2>6, <2>7, <2>8 DEF IInv, LoadInv
<1> QED BY <1>1, <1>2, <1>3

(* What a getter finds in an idle context is the whole table. *)
LEMMA TableParsed ==
  ASSUME IInv, Settled, Table # NULL
  PROVE  /\ Table \in DOMAIN heap /\ heap[Table] \in Firmware
         /\ Parsed = heap[Table]
<1>1. Table \in DOMAIN heap
  BY IInvParts DEF Owned, PointersLive, Table
<1>2. /\ heap[Table] \in Firmware /\ dmi_len = heap[Table]
      /\ index_valid => index = heap[Table]
  BY DEF IInv, LoadInv, TableWhole, IndexCurrent, Settled
<1> QED BY <1>1, <1>2 DEF Parsed, Table

(* A getter fills a member that was NULL. *)
LEMMA GetStep ==
  ASSUME IInv, Settled, Table # NULL,
         NEW t \in Types, ptr[t] = NULL, GetType(t),
         UNCHANGED <<entry_len, dmi_len, index, index_valid, plan, source,
                     status>>,
         pc' \in {"idle", "parse"},
         cursor' \in 0 .. Len(ContainerOrder) + Len(TypeOrder),
         CursorInRange'
  PROVE  IInv'
<1>0. Owned /\ t \in Slots /\ Table = ptr["dmi_data"]
  BY IInvParts, SlotFacts DEF Table
<1>1. /\ Table \in DOMAIN heap /\ heap[Table] \in Firmware
      /\ Parsed = heap[Table]
  BY TableParsed
<1>2. /\ Changes({t}, {})
      /\ ptr'[t] = Fresh /\ Fresh \notin DOMAIN heap /\ Fresh # NULL
      /\ heap'[Fresh] = heap[Table]
  BY <1>0, <1>1, NewShape DEF GetType, Image
<1>3. /\ strings' \in [Types -> Blocks \cup {NULL}]
      /\ strings'[t] = Table
      /\ \A u \in Types \ {t} : strings'[u] = strings[u]
  BY <1>0, <1>1 DEF GetType, IInv, TypeOK
<1>4. TypeOK'
  BY <1>2, <1>3 DEF IInv, TypeOK, Changes, MemoryTyped, PCs
<1>5. \A b \in DOMAIN heap : b \in DOMAIN heap' /\ heap'[b] = heap[b]
  BY <1>2 DEF Changes
<1>6. \A s \in Slots \ {t} : ptr'[s] = ptr[s]
  BY <1>2 DEF Changes
<1>7. StringsApart'
  <2> SUFFICES ASSUME NEW u \in Types, ptr'[u] # NULL
               PROVE  /\ strings'[u] \in DOMAIN heap'
                      /\ \A s \in Slots \ {"dmi_data"} : ptr'[s] # strings'[u]
    BY DEF StringsApart
  <2>1. CASE u = t
    <3>1. \A s \in Slots \ {"dmi_data", t} : ptr'[s] # Table
      BY <1>0, <1>6, IInvParts DEF Owned, SoleOwner
    <3> QED BY <1>1, <1>2, <1>3, <1>5, <2>1, <3>1
  <2>2. CASE u # t
    <3>1. u \in Slots /\ ptr[u] # NULL /\ strings'[u] = strings[u]
      BY <1>3, <1>6, <2>2, SlotFacts
    <3>2. /\ strings[u] \in DOMAIN heap
          /\ \A s \in Slots \ {"dmi_data"} : ptr[s] # strings[u]
      BY <3>1 DEF IInv, MemoryInv, StringsApart
    <3> QED BY <1>2, <1>5, <1>6, <3>1, <3>2
  <2> QED BY <2>1, <2>2
<1>8. SetsFaithful'
  <2> SUFFICES ASSUME NEW u \in Types, ptr'[u] # NULL
               PROVE  /\ heap'[ptr'[u]] \in Firmware
                      /\ heap'[ptr'[u]] = heap'[strings'[u]]
    BY DEF SetsFaithful
  <2>1. CASE u = t
    BY <1>1, <1>2, <1>3, <1>5, <2>1
  <2>2. CASE u # t
    <3>1. u \in Slots /\ ptr'[u] = ptr[u] /\ strings'[u] = strings[u]
      BY <1>3, <1>6, <2>2, SlotFacts
    <3>2. ptr[u] \in DOMAIN heap /\ strings[u] \in DOMAIN heap
      BY <3>1 DEF IInv, MemoryInv, PointersLive, StringsApart
    <3> QED BY <1>5, <3>1, <3>2 DEF IInv, SetsFaithful
  <2> QED BY <2>1, <2>2
<1>9. \A s \in {"entry_data", "entry_union", "dmi_data"} : Stays(s)
  BY <1>2, IInvParts, Kept
<1>10. LoadProgress'
  BY <1>9 DEF LoadProgress, Running, Stays, Table
<1>11. TableWhole' /\ IndexCurrent' /\ PairWhole'
  BY <1>9
     DEF IInv, LoadInv, TableWhole, IndexCurrent, PairWhole, Table, Stays,
         Settled
<1>12. LoadedWhole'
  BY <1>9 DEF IInv, LoadInv, LoadedWhole, Table, Stays, EntrySlots
<1> QED
  BY <1>2, <1>4, <1>7, <1>8, <1>10, <1>11, <1>12
     DEF IInv, MemoryInv, LoadInv, Changes

LEMMA ClientGetStep ==
  ASSUME IInv, NEW t \in Types, ClientGet(t)
  PROVE  IInv'
<1>1. Settled /\ Table # NULL /\ ptr[t] = NULL /\ GetType(t)
  BY DEF ClientGet, Settled, Table
<1>2. /\ pc' \in {"idle", "parse"} /\ CursorInRange'
      /\ cursor' \in 0 .. Len(ContainerOrder) + Len(TypeOrder)
  BY DEF ClientGet, callVars, IInv, TypeOK, CursorInRange
<1>3. UNCHANGED <<entry_len, dmi_len, index, index_valid, plan, source,
                  status>>
  BY DEF ClientGet, indexVars, callVars, initVars
<1> QED BY <1>1, <1>2, <1>3, GetStep

LEMMA ParseAllGetsStep ==
  ASSUME IInv, ParseAllGets
  PROVE  IInv'
<1>1. pc = "parse" /\ cursor \in 1 .. Len(TypeOrder)
  BY DEF ParseAllGets, IInv, CursorInRange
<1>2. TypeOrder[cursor] \in Types
  BY <1>1, SlotFacts
<1>3. /\ Settled /\ Table # NULL
      /\ ptr[TypeOrder[cursor]] = NULL /\ GetType(TypeOrder[cursor])
  BY DEF ParseAllGets, Settled, Table, IInv, LoadInv, LoadProgress
<1>4. /\ pc' \in {"idle", "parse"} /\ CursorInRange'
      /\ cursor' \in 0 .. Len(ContainerOrder) + Len(TypeOrder)
  BY <1>1 DEF ParseAllGets, ParseAdvance, CursorInRange
<1>5. UNCHANGED <<entry_len, dmi_len, index, index_valid, plan, source,
                  status>>
  BY DEF ParseAllGets, ParseAdvance, indexVars, initVars
<1> QED BY <1>2, <1>3, <1>4, <1>5, GetStep

LEMMA ClientFreeStep ==
  ASSUME IInv, NEW t \in Types, ClientFree(t)
  PROVE  IInv'
<1>0. Owned /\ t \in Slots
  BY IInvParts, SlotFacts
<1>1. Changes({t}, {t}) /\ ptr'[t] = NULL
  BY <1>0, ReleaseShape DEF ClientFree
<1>2. /\ pc = "idle"
      /\ UNCHANGED <<entry_len, dmi_len, index, index_valid, plan, source,
                     pc, cursor, status>>
  BY DEF ClientFree, indexVars, callVars, initVars
<1>3. /\ strings' \in [Types -> Blocks \cup {NULL}]
      /\ \A u \in Types \ {t} : strings'[u] = strings[u]
  BY DEF ClientFree, IInv, TypeOK
<1>4. TypeOK' /\ CursorInRange'
  BY <1>1, <1>2, <1>3 DEF IInv, TypeOK, CursorInRange, Changes, MemoryTyped
<1>5. ASSUME NEW u \in Types, ptr'[u] # NULL
      PROVE  /\ u # t /\ ptr'[u] = ptr[u] /\ strings'[u] = strings[u]
             /\ strings[u] \in DOMAIN heap /\ strings[u] # ptr[t]
             /\ ptr[u] \in DOMAIN heap /\ ptr[u] # ptr[t]
             /\ \A s \in Slots \ {"dmi_data"} : ptr[s] # strings[u]
  <2>1. /\ u # t /\ u \in Slots /\ ptr'[u] = ptr[u]
        /\ strings'[u] = strings[u]
    BY <1>1, <1>3, <1>5, SlotFacts DEF Changes
  <2>2. t # "dmi_data"
    BY IInvParts
  <2>3. /\ strings[u] \in DOMAIN heap
        /\ \A s \in Slots \ {"dmi_data"} : ptr[s] # strings[u]
    BY <1>5, <2>1 DEF IInv, MemoryInv, StringsApart
  <2> QED
    BY <1>0, <1>5, <2>1, <2>2, <2>3 DEF Owned, PointersLive, SoleOwner
<1>6. \A b \in DOMAIN heap :
        b # ptr[t] => b \in DOMAIN heap' /\ heap'[b] = heap[b]
  BY <1>1 DEF Changes
<1>7. StringsApart'
  <2> SUFFICES ASSUME NEW u \in Types, ptr'[u] # NULL
               PROVE  /\ strings'[u] \in DOMAIN heap'
                      /\ \A s \in Slots \ {"dmi_data"} : ptr'[s] # strings'[u]
    BY <1>2 DEF StringsApart
  <2>1. strings[u] # NULL
    BY <1>5, ConstantsAssumption DEF IInv, TypeOK
  <2> QED BY <1>1, <1>5, <2>1 DEF Changes
<1>8. SetsFaithful'
  BY <1>5, <1>6 DEF IInv, SetsFaithful
<1>9. \A s \in {"entry_data", "entry_union", "dmi_data"} : Stays(s)
  BY <1>1, IInvParts, Kept
<1>10. LoadInv'
  BY <1>2, <1>9
     DEF IInv, LoadInv, LoadProgress, TableWhole, IndexCurrent, PairWhole,
         LoadedWhole, Table, Settled, EntrySlots, Stays
<1> QED
  BY <1>1, <1>4, <1>7, <1>8, <1>10 DEF IInv, MemoryInv, Changes

-----------------------------------------------------------------------------
(* Theorems *)

(* IInv is inductive: every step of every call keeps it. *)
LEMMA NextIInv == IInv /\ [Next]_vars => IInv'
<1> SUFFICES ASSUME IInv, [Next]_vars PROVE IInv'
  OBVIOUS
<1>1. CASE CTXNew \/ CTXNewAlloc \/ CTXNewFails \/ InitCall \/ InitRejects
           \/ TryLoader \/ InitFails \/ BuildTypeIndex
  BY <1>1, OpenSteps
<1>2. CASE FileStep
  BY <1>2, FileSteps DEF FileStep
<1>3. CASE RawStep
  BY <1>3, RawSteps DEF RawStep
<1>4. CASE DevMemStep
  BY <1>4, DevMemSteps DEF DevMemStep
<1>5. CASE ParseAll \/ ParseAllSkips \/ Cleanup
  BY <1>5, ParseSteps
<1>6. CASE ParseAllGets
  BY <1>6, ParseAllGetsStep
<1>7. CASE \E t \in Types : ClientGet(t) \/ ClientFree(t)
  BY <1>7, ClientGetStep, ClientFreeStep
<1>8. CASE UNCHANGED vars
  <2>1. UNCHANGED <<heap, ptr, entry_len, dmi_len, index, index_valid, strings,
                    plan, source, pc, cursor, status>>
    BY <1>8 DEF vars, memoryVars, indexVars, callVars, initVars
  <2>2. TypeOK' /\ CursorInRange'
    BY <2>1 DEF IInv, TypeOK, CursorInRange
  <2>3. MemoryInv' /\ SetsFaithful'
    BY <2>1
       DEF IInv, MemoryInv, PointersLive, SoleOwner, StringsApart, SetsFaithful
  <2>4. LoadInv'
    BY <2>1
       DEF IInv, LoadInv, LoadProgress, TableWhole, IndexCurrent, PairWhole,
           LoadedWhole, Holds, Table, Settled
  <2> QED BY <2>2, <2>3, <2>4 DEF IInv
<1> QED
  BY <1>1, <1>2, <1>3, <1>4, <1>5, <1>6, <1>7, <1>8
     DEF Next, CallStep, ClientCall

(* The inductive invariant holds in every state of every behaviour. *)
THEOREM Invariance == Spec => []IInv
BY InitIInv, NextIInv, PTL DEF Spec

(* Every variable keeps its type. *)
THEOREM TypeCorrect == Spec => []TypeOK
<1>1. IInv => TypeOK
  BY DEF IInv
<1> QED BY <1>1, Invariance, PTL

(* Whatever allocation, read or parse fails, and whatever the client does  *)
(* in between, no pointer of the context or of a loader dangles, no block  *)
(* has two owners that would each free it, and the strings of a parsed set *)
(* lie in memory that is still allocated.                                  *)
THEOREM MemorySafety == Spec => []MemorySafe
<1>1. IInv => MemorySafe
  BY DEF IInv, MemoryInv, StringsApart, StringsLive, MemorySafe
<1> QED BY <1>1, Invariance, PTL

(* A valid type index and dmi_len always describe the table that is there, *)
(* in every context the client or a getter can look at.                    *)
THEOREM IndexFresh == Spec => []IndexDescribesTable
<1>1. IInv => IndexDescribesTable
  BY DEF IInv, LoadInv, TableWhole, IndexCurrent, IndexDescribesTable, Settled
<1> QED BY <1>1, Invariance, PTL

(* lazybiosInit returns 0 only with an entry point, its parsed form and a  *)
(* table that come from one image, whichever loaders failed before.        *)
THEOREM SuccessIsComplete == Spec => []LoadedPairMatches
<1>1. IInv => LoadedPairMatches
  BY DEF IInv, LoadInv, LoadedWhole, LoadedPairMatches
<1> QED BY <1>1, Invariance, PTL

(* A table is never read under the entry point of another image, even      *)
(* after a lazybiosInit that failed on a context loaded before.            *)
THEOREM PairNeverMixed == Spec => []NoMixedPair
<1>1. IInv => NoMixedPair
  BY DEF IInv, LoadInv, PairWhole, NoMixedPair, Settled
<1> QED BY <1>1, Invariance, PTL

(* A parsed set holds the records of one whole table, and that table is    *)
(* the one its strings lie in.                                             *)
THEOREM SetsAreFaithful == Spec => []SetsFaithful
<1>1. IInv => SetsFaithful
  BY DEF IInv
<1> QED BY <1>1, Invariance, PTL

(* lazybiosParseAll only ever fills members that were NULL. *)
THEOREM ParseAllKeeps == Spec => ParseAllKeepsSets
<1> DEFINE A ==
      pc = "parse" => \A t \in Types : ptr[t] # NULL => ptr'[t] = ptr[t]
<1>1. IInv /\ [Next]_vars => [A]_vars
  <2> SUFFICES ASSUME IInv, Next, pc = "parse",
                      NEW t \in Types, ptr[t] # NULL
               PROVE  ptr'[t] = ptr[t]
    OBVIOUS
  <2>1. CASE ParseAllGets
    BY <2>1 DEF ParseAllGets, GetType, New
  <2>2. CASE ParseAllSkips
    BY <2>2 DEF ParseAllSkips, memoryVars
  <2> QED
    BY <2>1, <2>2
       DEF Next, CallStep, ClientCall, FileStep, RawStep, DevMemStep, CTXNew,
           CTXNewAlloc, CTXNewFails, InitCall, InitRejects, TryLoader,
           InitFails, BuildTypeIndex, ParseAll, Cleanup, ClientGet, ClientFree,
           FileOpenFails, FileEntryShort, FileEntryAlloc, FileEntryAllocFails,
           FileParse, FileParseFails, FileTableAlloc, FileTableAllocFails,
           FileRead, FileReadFails, LegacyWindow, ReadTable, RawCopy,
           RawCommit, RawFails, DevMemFindFails, DevMemEntryAlloc,
           DevMemEntryAllocFails, DevMemParse, DevMemReleases, DevMemTable,
           DevMemTableAllocFails
<1> QED BY <1>1, Invariance, PTL DEF Spec, ParseAllKeepsSets

-----------------------------------------------------------------------------
(* Every call comes to an end. *)

InCall == pc \notin {"none", "idle"}

(* How many steps a loader still has before it at most, the step that      *)
(* builds the index included.                                              *)
Stage ==
  CASE pc = "load"                                         -> 0
    [] pc = "index"                                        -> 1
    [] pc \in {"file_read",  "raw_parse", "devmem_table"}  -> 2
    [] pc \in {"file_table", "raw",       "devmem_parse"}  -> 3
    [] pc \in {"file_parse", "single",    "devmem"}        -> 4
    [] OTHER                                               -> 5

(* How many steps the running call can still take, at most: one for each   *)
(* container or each set that is left, and six for each loader that        *)
(* lazybiosInit has not tried.                                             *)
StepsLeft ==
  CASE ~InCall      -> 0
    [] pc = "new"   -> Len(ContainerOrder) - cursor + 1
    [] pc = "parse" -> Len(TypeOrder) - cursor + 1
    [] OTHER        -> 6 * Len(plan) + Stage + 1

LEMMA StageNatural == Stage \in 0 .. 5
BY DEF Stage

LEMMA LoadSteps ==
  ASSUME InCall, pc \notin {"new", "parse"}
  PROVE  StepsLeft = 6 * Len(plan) + Stage + 1
BY DEF StepsLeft, InCall

LEMMA StepsLeftNatural == IInv => StepsLeft \in Nat
<1> SUFFICES ASSUME IInv PROVE StepsLeft \in Nat
  OBVIOUS
<1>1. Len(plan) \in Nat
  BY DEF IInv, TypeOK
<1>2. 6 * Len(plan) + Stage + 1 \in Nat
  BY <1>1, StageNatural
<1>3. /\ pc = "new" => Len(ContainerOrder) - cursor + 1 \in Nat
      /\ pc = "parse" => Len(TypeOrder) - cursor + 1 \in Nat
  BY SlotFacts DEF IInv, CursorInRange
<1> QED BY <1>2, <1>3, Zenon DEF StepsLeft

(* A step of a loader goes down one stage or more, and leaves the loaders  *)
(* that are still to be tried alone.                                       *)
LEMMA LoadersGoDown ==
  ASSUME FileStep \/ RawStep \/ DevMemStep
  PROVE  /\ Stage' < Stage /\ plan' = plan
         /\ InCall /\ pc \notin {"new", "parse"}
         /\ InCall' /\ pc' \notin {"new", "parse"}
<1> USE DEF Advance, LoaderFails, initVars, InCall
<1>1. CASE FileOpenFails \/ FileEntryShort \/ FileEntryAllocFails
           \/ FileParseFails \/ FileTableAllocFails \/ FileReadFails
  BY <1>1 DEF FileOpenFails, FileEntryShort, FileEntryAllocFails,
              FileParseFails, FileTableAllocFails, FileReadFails, Stage
<1>2. CASE FileEntryAlloc \/ FileParse \/ FileTableAlloc \/ FileRead
  BY <1>2 DEF FileEntryAlloc, FileParse, FileTableAlloc, FileRead, Stage
<1>3. CASE RawStep
  BY <1>3 DEF RawStep, LegacyWindow, ReadTable, RawCopy, RawCommit, RawFails,
              Stage
<1>4. CASE DevMemStep
  BY <1>4 DEF DevMemStep, DevMemFindFails, DevMemEntryAlloc,
              DevMemEntryAllocFails, DevMemParse, DevMemReleases,
              DevMemTable, DevMemTableAllocFails, Stage
<1> QED BY <1>1, <1>2, <1>3, <1>4 DEF FileStep

LEMMA StepsLeftDecrease ==
  ASSUME IInv, Next, InCall
  PROVE  StepsLeft' < StepsLeft
<1>1. /\ Len(plan) \in Nat /\ plan \in Seq(Loaders)
      /\ pc = "new" => cursor \in 1 .. Len(ContainerOrder)
      /\ pc = "parse" => cursor \in 1 .. Len(TypeOrder)
      /\ Len(ContainerOrder) \in Nat /\ Len(TypeOrder) \in Nat
  BY SlotFacts DEF IInv, TypeOK, CursorInRange
<1>2. CASE CTXNewAlloc
  <2>1. /\ pc = "new"
        /\ \/ pc' = "idle"
           \/ pc' = "new" /\ cursor' = cursor + 1
    BY <1>2 DEF CTXNewAlloc
  <2> QED BY <1>1, <2>1 DEF StepsLeft, InCall
<1>3. CASE CTXNewFails
  <2>1. pc = "new" /\ pc' = "none"
    BY <1>3 DEF CTXNewFails
  <2> QED BY <1>1, <2>1 DEF StepsLeft, InCall
<1>4. CASE TryLoader
  <2>1. /\ pc = "load" /\ plan # << >> /\ pc' = Head(plan)
        /\ plan' = Tail(plan)
    BY <1>4 DEF TryLoader
  <2>2. pc' \in Loaders /\ Len(plan) \in Nat /\ Len(plan') = Len(plan) - 1
    BY <1>1, <2>1
  <2>3. /\ StepsLeft = 6 * Len(plan) + Stage + 1
        /\ InCall' /\ pc' \notin {"new", "parse"}
    BY <2>1, <2>2, LoadSteps DEF Loaders, InCall
  <2>4. /\ StepsLeft' = 6 * Len(plan') + Stage' + 1
        /\ Stage' \in 0 .. 5 /\ Stage \in 0 .. 5
    BY <2>3, StageNatural DEF StepsLeft, Stage
  <2> QED BY <2>2, <2>3, <2>4
<1>5. CASE InitFails \/ BuildTypeIndex
  <2>1. pc \in {"load", "index"} /\ pc' = "idle"
    BY <1>5 DEF InitFails, BuildTypeIndex
  <2>2. StepsLeft = 6 * Len(plan) + Stage + 1 /\ StepsLeft' = 0
    BY <2>1, LoadSteps DEF StepsLeft, InCall
  <2> QED BY <1>1, <2>2, StageNatural
<1>6. CASE FileStep \/ RawStep \/ DevMemStep
  <2>1. /\ Stage' < Stage /\ plan' = plan
        /\ InCall /\ pc \notin {"new", "parse"}
        /\ InCall' /\ pc' \notin {"new", "parse"}
    BY <1>6, LoadersGoDown
  <2>2. /\ StepsLeft = 6 * Len(plan) + Stage + 1
        /\ StepsLeft' = 6 * Len(plan') + Stage' + 1
        /\ Stage \in 0 .. 5 /\ Stage' \in 0 .. 5
    BY <2>1, LoadSteps, StageNatural DEF StepsLeft, Stage
  <2> QED BY <1>1, <2>1, <2>2
<1>7. CASE ParseAllGets \/ ParseAllSkips
  <2>1. /\ pc = "parse"
        /\ \/ pc' = "idle"
           \/ pc' = "parse" /\ cursor' = cursor + 1
    BY <1>7 DEF ParseAllGets, ParseAllSkips, ParseAdvance
  <2> QED BY <1>1, <2>1 DEF StepsLeft, InCall
<1>8. ~ClientCall
  BY DEF ClientCall, CTXNew, InitCall, InitRejects, ParseAll, Cleanup,
         ClientGet, ClientFree, InCall
<1> QED
  BY <1>2, <1>3, <1>4, <1>5, <1>6, <1>7, <1>8 DEF Next, CallStep

(* No call goes on for ever, whichever of its steps fail: while one runs,  *)
(* every step lowers StepsLeft, which is never negative, and the client    *)
(* takes none in between.  In particular lazybiosInit tries each loader of *)
(* its chain at most once, and lazybiosParseAll each set.                  *)
THEOREM CallsRunDown ==
  Spec => /\ [](StepsLeft \in Nat)
          /\ [][InCall => StepsLeft' < StepsLeft]_vars
<1>1. IInv /\ [Next]_vars => [InCall => StepsLeft' < StepsLeft]_vars
  BY StepsLeftDecrease
<1> QED BY <1>1, StepsLeftNatural, Invariance, PTL DEF Spec

=============================================================================
