---------------------- MODULE ContextRefinementProofs ----------------------
(***************************************************************************)
(* Module Context implements ContextContract for a client that calls       *)
(* lazybiosInit once on a context, whatever the blocks, firmware images,   *)
(* members and loader chains are; and its cleanup releases everything, for *)
(* the chains of all backends but Linux.                                   *)
(***************************************************************************)
EXTENDS ContextRefinement, ContextProofs

-----------------------------------------------------------------------------
(* What calling lazybiosInit once adds to the inductive invariant *)

Loading == Running \cup {"load", "index"}

(* What the client knows follows from the call that runs. *)
StatusFollows ==
  /\ pc \in {"none", "new"} => status = "none"
  /\ pc \in Loading => status = "fresh"
  /\ pc = "idle" => status # "none"
  /\ pc = "parse" => status = "loaded"

(* Until lazybiosInit has returned 0 there is no set, and no table but the *)
(* one a loader is about to hand over.                                     *)
NothingEarly ==
  status # "loaded" =>
    /\ \A t \in Types : ptr[t] = NULL
    /\ Table # NULL => pc \in {"file_read", "index"}

Once == StatusFollows /\ NothingEarly

LEMMA InitOnce == Init => Once
BY SlotFacts
   DEF Init, Once, StatusFollows, NothingEarly, Loading, Running, Table, Fixed

(* A step inside lazybiosInit keeps Once when it leaves the sets alone and *)
(* a table is there only where one may be.                                 *)
LEMMA LoadingOnce ==
  ASSUME Once, status = "fresh", status' = status, pc' \in Loading,
         \A t \in Types : ptr'[t] = ptr[t],
         ptr'["dmi_data"] # NULL => pc' \in {"file_read", "index"}
  PROVE  Once'
BY DEF Once, StatusFollows, NothingEarly, Loading, Running, PCs, Table

LEMMA OpenOnce ==
  ASSUME Reuse = FALSE, IInv, Once,
         \/ CTXNew \/ CTXNewAlloc \/ CTXNewFails \/ InitCall \/ InitRejects
         \/ TryLoader \/ InitFails \/ BuildTypeIndex
  PROVE  Once'
<1>0. ptr \in [Slots -> Blocks \cup {NULL}]
  BY DEF IInv, TypeOK
<1>1. CASE CTXNew
  BY <1>1
     DEF CTXNew, memoryVars, Once, StatusFollows, NothingEarly, Loading,
         Running, PCs, Table
<1>2. CASE CTXNewAlloc
  <2>1. /\ pc = "new" /\ pc' \in {"new", "idle"}
        /\ pc' = "new" => status' = status
        /\ pc' = "idle" => status' = "fresh"
    BY <1>2 DEF CTXNewAlloc
  <2>2. ContainerOrder[cursor] \in Containers
    BY <2>1, SlotFacts DEF IInv, CursorInRange
  <2>3. ContainerOrder[cursor] \notin Types \cup {"dmi_data"}
    BY <2>2, SlotFacts DEF Containers, Fixed
  <2>4. \A s \in Types \cup {"dmi_data"} : ptr'[s] = ptr[s]
    BY <1>0, <1>2, <2>3, SlotFacts DEF CTXNewAlloc, New, Fixed
  <2> QED
    BY <2>1, <2>4
       DEF Once, StatusFollows, NothingEarly, Loading, Running, PCs, Table
<1>3. CASE CTXNewFails
  <2>1. \A s \in Types \cup {"dmi_data"} : ptr'[s] \in {ptr[s], NULL}
    BY <1>3, SlotFacts DEF CTXNewFails, Release, Fixed
  <2>2. pc = "new" /\ pc' = "none" /\ status' = status
    BY <1>3 DEF CTXNewFails
  <2> QED
    BY <2>1, <2>2
       DEF Once, StatusFollows, NothingEarly, Loading, Running, PCs, Table
<1>4. CASE InitCall
  BY <1>4, LoadingOnce
     DEF InitCall, memoryVars, Once, NothingEarly, Loading, Table
<1>5. CASE InitRejects
  BY <1>5
     DEF InitRejects, memoryVars, Once, StatusFollows, NothingEarly, Loading,
         Running, PCs, Table
<1>6. CASE TryLoader
  <2>1. Head(plan) \in Loaders
    BY <1>6 DEF TryLoader, IInv, TypeOK
  <2>2. pc' \in Loading
    BY <1>6, <2>1 DEF TryLoader, Loaders, Loading, Running, PCs
  <2> QED
    BY <1>6, <2>2, LoadingOnce
       DEF TryLoader, memoryVars, Once, StatusFollows, NothingEarly, Loading,
           Table
<1>7. CASE InitFails
  BY <1>7
     DEF InitFails, memoryVars, Once, StatusFollows, NothingEarly, Loading,
         Running, PCs, Table
<1>8. CASE BuildTypeIndex
  BY <1>8
     DEF BuildTypeIndex, Once, StatusFollows, NothingEarly, Loading, Running,
         PCs
<1> QED BY <1>1, <1>2, <1>3, <1>4, <1>5, <1>6, <1>7, <1>8

(* The loaders' steps change slots of the context and of their own only.   *)
LEMMA LoaderOnce ==
  ASSUME IInv, Once, FileStep \/ RawStep \/ DevMemStep
  PROVE  Once' /\ status = "fresh" /\ status' = status
<1>1. ptr \in [Slots -> Blocks \cup {NULL}]
  BY DEF IInv, TypeOK
<1>2. /\ \A t \in Types : t \in Slots /\ t \notin Fixed
      /\ {"dmi_data", "entry_data", "entry_union", "window", "buffer",
          "entry_copy", "dmi_copy"} \subseteq Fixed
      /\ Fixed \subseteq Slots
  BY SlotFacts DEF Fixed, EntrySlots, Locals
<1>3. pc \in Loading /\ status = "fresh" /\ status' = status
  <2>1. pc \in Loading
    BY DEF FileStep, RawStep, DevMemStep, FileOpenFails, FileEntryShort,
           FileEntryAlloc, FileEntryAllocFails, FileParse, FileParseFails,
           FileTableAlloc, FileTableAllocFails, FileRead, FileReadFails,
           LegacyWindow, ReadTable, RawCopy, RawCommit, RawFails,
           DevMemFindFails, DevMemEntryAlloc, DevMemEntryAllocFails,
           DevMemParse, DevMemReleases, DevMemTable, DevMemTableAllocFails,
           Loading, Running, PCs
  <2>2. status' = status
    BY DEF FileStep, RawStep, DevMemStep, FileOpenFails, FileEntryShort,
           FileEntryAlloc, FileEntryAllocFails, FileParse, FileParseFails,
           FileTableAlloc, FileTableAllocFails, FileRead, FileReadFails,
           LegacyWindow, ReadTable, RawCopy, RawCommit, RawFails,
           DevMemFindFails, DevMemEntryAlloc, DevMemEntryAllocFails,
           DevMemParse, DevMemReleases, DevMemTable, DevMemTableAllocFails,
           LoaderFails, Advance
  <2> QED BY <2>1, <2>2 DEF Once, StatusFollows
<1>4. ptr["dmi_data"] # NULL => pc \in {"file_read", "index"}
  BY <1>3 DEF Once, NothingEarly, Table
<1>5. /\ pc' \in Loading
      /\ \A t \in Types : ptr'[t] = ptr[t]
      /\ ptr'["dmi_data"] # NULL => pc' \in {"file_read", "index"}
  <2>1. CASE FileStep
    BY <1>1, <1>2, <1>4, <2>1
       DEF FileStep, FileOpenFails, FileEntryShort, FileEntryAlloc,
           FileEntryAllocFails, FileParse, FileParseFails, FileTableAlloc,
           FileTableAllocFails, FileRead, FileReadFails, New, NewFails,
           Release, ParseEntry, LoaderFails, Advance, memoryVars,
           Loading, Running, PCs
  <2>2. CASE RawStep
    BY <1>1, <1>2, <1>4, <2>2
       DEF RawStep, LegacyWindow, ReadTable, RawCopy, RawCommit, RawFails,
           New, Release, LoaderFails, Advance, Locals, Loading, Running, PCs
  <2>3. CASE DevMemStep
    BY <1>1, <1>2, <1>4, <2>3
       DEF DevMemStep, DevMemFindFails, DevMemEntryAlloc,
           DevMemEntryAllocFails, DevMemParse, DevMemReleases, DevMemTable,
           DevMemTableAllocFails, New, NewFails, Release, ParseEntry,
           LoaderFails, Advance, memoryVars, EntrySlots, Loading, Running, PCs
  <2> QED BY <2>1, <2>2, <2>3
<1> QED BY <1>3, <1>5, LoadingOnce

LEMMA ClientOnce ==
  ASSUME Reuse = FALSE, IInv, Once,
         \/ ParseAll \/ ParseAllGets \/ ParseAllSkips \/ Cleanup
         \/ \E t \in Types : ClientGet(t) \/ ClientFree(t)
  PROVE  Once'
<1>1. CASE ParseAll
  BY <1>1
     DEF ParseAll, memoryVars, Once, StatusFollows, NothingEarly, Loading,
         Running, PCs, Table
<1>2. CASE ParseAllGets \/ ParseAllSkips
  BY <1>2
     DEF ParseAllGets, ParseAllSkips, ParseAdvance, Once, StatusFollows,
         NothingEarly, Loading, Running, PCs
<1>3. CASE Cleanup
  <2>1. \A s \in Types \cup {"dmi_data"} : ptr'[s] = NULL
    BY <1>3, SlotFacts DEF Cleanup, Release, CtxSlots, Fixed, Locals
  <2> QED
    BY <1>3, <2>1
       DEF Cleanup, Once, StatusFollows, NothingEarly, Loading, Running, PCs,
           Table
<1>4. CASE \E t \in Types : ClientGet(t)
  BY <1>4
     DEF ClientGet, callVars, Once, StatusFollows, NothingEarly, Loading,
         Running, PCs
<1>5. CASE \E t \in Types : ClientFree(t)
  BY <1>5
     DEF ClientFree, callVars, Once, StatusFollows, NothingEarly, Loading,
         Running, PCs
<1> QED BY <1>1, <1>2, <1>3, <1>4, <1>5

LEMMA NextOnce ==
  ASSUME Reuse = FALSE
  PROVE  IInv /\ Once /\ [Next]_vars => Once'
<1> SUFFICES ASSUME IInv, Once, [Next]_vars PROVE Once'
  OBVIOUS
<1>1. CASE UNCHANGED vars
  BY <1>1
     DEF vars, memoryVars, callVars, Once, StatusFollows, NothingEarly, Table
<1> QED
  BY <1>1, OpenOnce, LoaderOnce, ClientOnce DEF Next, CallStep, ClientCall

-----------------------------------------------------------------------------
(* Every step is a step of the contract or invisible to it *)

(* Before lazybiosInit has returned 0 the contract sees nothing. *)
LEMMA EarlyUnseen ==
  ASSUME Once, Once', status # "loaded", status' = status
  PROVE  UNCHANGED Contract!vars
BY DEF Once, NothingEarly, Loaded, Contract!vars

(* The table and the parsed entry the contract speaks of stay. *)
LEMMA PairUnseen ==
  ASSUME status' = status, Stays("dmi_data"), Stays("entry_union"),
         Loaded => ptr["dmi_data"] # NULL /\ ptr["entry_union"] # NULL
  PROVE  /\ (IF Loaded THEN heap[ptr["entry_union"]] ELSE NULL)'
            = (IF Loaded THEN heap[ptr["entry_union"]] ELSE NULL)
         /\ (IF Loaded THEN heap[ptr["dmi_data"]] ELSE NULL)'
            = (IF Loaded THEN heap[ptr["dmi_data"]] ELSE NULL)
BY DEF Stays, Loaded

Record(t) == IF ptr[t] = NULL THEN NULL ELSE heap[ptr[t]]

(* A getter's result, whoever asked for it. *)
LEMMA GetShown ==
  ASSUME IInv, Once, Settled, status = "loaded", status' = status,
         NEW t \in Types, ptr[t] = NULL, GetType(t)
  PROVE  Contract!Get(t)
<1>1. Table # NULL /\ ptr["entry_union"] # NULL /\ Table = ptr["dmi_data"]
  BY DEF IInv, LoadInv, LoadedWhole, EntrySlots, Table
<1>2. Table \in DOMAIN heap /\ heap[Table] \in Firmware
      /\ Parsed = heap[Table]
  BY <1>1, TableParsed
<1>3. t \in Slots /\ Owned
  BY SlotFacts, IInvParts
<1>4. /\ Changes({t}, {})
      /\ ptr'[t] = Fresh /\ Fresh # NULL /\ heap'[Fresh] = heap[Table]
  BY <1>2, <1>3, NewShape DEF GetType, Image
<1>5. \A s \in Slots \ {t} : Stays(s)
  BY <1>3, <1>4, Kept
<1>6. Stays("dmi_data") /\ Stays("entry_union")
  BY <1>5, IInvParts
<1>7. \A u \in Types : Record(u)' = IF u = t THEN heap[Table] ELSE Record(u)
  BY <1>4, <1>5, SlotFacts DEF Record, Stays
<1>8. [u \in Types |-> Record(u)]'
      = [[u \in Types |-> Record(u)] EXCEPT ![t] = heap[Table]]
  BY <1>7
<1>9. Record(t) = NULL
  BY DEF Record
<1> QED
  BY <1>1, <1>6, <1>8, <1>9, PairUnseen DEF Contract!Get, Record, Loaded

(* lazybiosFreeTypeN on a set that exists. *)
LEMMA FreeShown ==
  ASSUME IInv, Once, NEW t \in Types, ClientFree(t)
  PROVE  Contract!Drop(t)
<1>1. status = "loaded" /\ status' = status /\ pc = "idle" /\ ptr[t] # NULL
  BY DEF ClientFree, callVars, Once, NothingEarly
<1>2. Table # NULL /\ ptr["entry_union"] # NULL /\ Table = ptr["dmi_data"]
  BY <1>1 DEF IInv, LoadInv, LoadedWhole, EntrySlots, Table, Settled
<1>3. Changes({t}, {t}) /\ ptr'[t] = NULL
  BY IInvParts, SlotFacts, ReleaseShape DEF ClientFree
<1>4. \A s \in Slots \ {t} : Stays(s)
  BY <1>3, IInvParts, Kept
<1>5. Stays("dmi_data") /\ Stays("entry_union")
  BY <1>4, IInvParts
<1>6. \A u \in Types : Record(u)' = IF u = t THEN NULL ELSE Record(u)
  BY <1>3, <1>4, SlotFacts DEF Record, Stays
<1>7. [u \in Types |-> Record(u)]'
      = [[u \in Types |-> Record(u)] EXCEPT ![t] = NULL]
  BY <1>6
<1>8. Record(t) # NULL
  BY <1>1, ConstantsAssumption DEF Record, IInv, SetsFaithful
<1> QED
  BY <1>1, <1>2, <1>5, <1>7, <1>8, PairUnseen
     DEF Contract!Drop, Record, Loaded

LEMMA StepRefines ==
  ASSUME Reuse = FALSE, IInv, Once, Once', [Next]_vars
  PROVE  [Contract!Next]_(Contract!vars)
<1>1. CASE UNCHANGED vars
  BY <1>1 DEF vars, memoryVars, callVars, Loaded, Contract!vars
<1>2. CASE FileStep \/ RawStep \/ DevMemStep
  BY <1>2, LoaderOnce, EarlyUnseen
<1>3. CASE CTXNew \/ CTXNewFails \/ InitCall \/ TryLoader
  <2>1. status # "loaded" /\ status' = status
    BY <1>3
       DEF CTXNew, CTXNewFails, InitCall, TryLoader, Once, StatusFollows,
           Loading
  <2> QED BY <2>1, EarlyUnseen
<1>4. CASE CTXNewAlloc
  <2>1. status = "none" /\ status' \in {"none", "fresh"}
    BY <1>4 DEF CTXNewAlloc, Once, StatusFollows
  <2>2. CASE status' = "none"
    BY <2>1, <2>2, EarlyUnseen
  <2>3. CASE status' = "fresh"
    BY <2>1, <2>3
       DEF Once, NothingEarly, Loaded, Contract!Next, Contract!Open
  <2> QED BY <2>1, <2>2, <2>3
<1>5. CASE InitRejects \/ InitFails
  <2>1. status = "fresh" /\ status' = "failed"
    BY <1>5
       DEF InitRejects, InitFails, Once, StatusFollows, Loading
  <2> QED
    BY <2>1
       DEF Once, NothingEarly, Loaded, Contract!Next, Contract!LoadFails
<1>6. CASE BuildTypeIndex
  <2>1. /\ status = "fresh" /\ status' = "loaded" /\ pc = "index"
        /\ heap' = heap /\ ptr' = ptr
    BY <1>6
       DEF BuildTypeIndex, memoryVars, Once, StatusFollows, Loading
  <2>2. /\ ptr["dmi_data"] # NULL /\ heap[ptr["dmi_data"]] \in Firmware
        /\ heap[ptr["entry_union"]] = heap[ptr["dmi_data"]]
    BY <2>1
       DEF IInv, LoadInv, LoadedWhole, TableWhole, EntrySlots, Table
  <2> QED
    BY <2>1, <2>2 DEF Loaded, Contract!Next, Contract!Load
<1>7. CASE ParseAll \/ ParseAllSkips
  BY <1>7
     DEF ParseAll, ParseAllSkips, ParseAdvance, memoryVars, Loaded,
         Contract!vars
<1>8. CASE ParseAllGets
  <2>1. /\ pc = "parse" /\ status = "loaded" /\ status' = status
        /\ cursor \in 1 .. Len(TypeOrder)
    BY <1>8
       DEF ParseAllGets, ParseAdvance, Once, StatusFollows, IInv, CursorInRange
  <2>2. PICK t \in Types : t = TypeOrder[cursor]
    BY <2>1, SlotFacts
  <2>3. ptr[t] = NULL /\ GetType(t)
    BY <1>8, <2>2 DEF ParseAllGets
  <2>4. Contract!Get(t)
    BY <2>1, <2>3, GetShown DEF Settled
  <2> QED BY <2>4 DEF Contract!Next
<1>9. CASE \E t \in Types : ClientGet(t)
  <2>1. PICK t \in Types : ClientGet(t)
    BY <1>9
  <2>2. Settled /\ status = "loaded" /\ status' = status
    BY <2>1 DEF ClientGet, Settled, callVars
  <2>3. Contract!Get(t)
    BY <2>1, <2>2, GetShown DEF ClientGet
  <2> QED BY <2>3 DEF Contract!Next
<1>10. CASE \E t \in Types : ClientFree(t)
  BY <1>10, FreeShown DEF Contract!Next
<1>11. CASE Cleanup
  <2>1. status # "none" /\ status' = "none"
    BY <1>11 DEF Cleanup, Once, StatusFollows
  <2> QED
    BY <2>1 DEF Once, NothingEarly, Loaded, Contract!Next, Contract!Close
<1> QED
  BY <1>1, <1>2, <1>3, <1>4, <1>5, <1>6, <1>7, <1>8, <1>9, <1>10, <1>11
     DEF Next, CallStep, ClientCall

LEMMA InitRefines == Init => Contract!Init
BY SlotFacts DEF Init, Loaded, Contract!Init

-----------------------------------------------------------------------------
(* Theorems *)

(* For a client that calls lazybiosInit once, what lazybios.h promises     *)
(* holds of the code with its heap, its loaders and its partial failures:  *)
(* the pair is there, whole and of one image, from the moment lazybiosInit *)
(* returns 0 until lazybiosCleanup, and every set holds its records.       *)
THEOREM Implementation ==
  ASSUME Reuse = FALSE
  PROVE  Spec => ImplementsContract
<1>1. IInv /\ Once /\ [Next]_vars => Once'
  BY NextOnce
<1>2. IInv /\ Once /\ Once' /\ [Next]_vars
      => [Contract!Next]_(Contract!vars)
  BY StepRefines
<1> QED
  BY <1>1, <1>2, InitOnce, InitRefines, Invariance, PTL
     DEF Spec, ImplementsContract, Contract!Spec

(* A lazybiosInit that fails on a new context leaves neither a table nor a *)
(* set in it, whichever loaders ran and wherever each of them stopped.     *)
THEOREM FailureHoldsNothing ==
  ASSUME Reuse = FALSE
  PROVE  Spec => []FailedLoadHoldsNoTable
<1>1. IInv /\ Once /\ [Next]_vars => Once'
  BY NextOnce
<1>2. Once => FailedLoadHoldsNoTable
  BY DEF Once, NothingEarly, FailedLoadHoldsNoTable
<1> QED BY <1>1, <1>2, InitOnce, Invariance, PTL DEF Spec

-----------------------------------------------------------------------------
(* Nothing lost.  One lazybiosCleanup releases everything, for a client    *)
(* that calls lazybiosInit once and a backend whose chain never lets a     *)
(* loader that writes straight into the context follow lazybiosFile:       *)
(* lazybiosFile leaves its entry bytes behind when it fails, and only      *)
(* those loaders would overwrite them.                                     *)

(* The loaders that write entry bytes straight into the context. *)
Direct == {"file", "devmem"}

NoDirect(chain) == \A i \in DOMAIN chain : chain[i] \notin Direct

CleanChain(chain) ==
  \A i, j \in DOMAIN chain :
    i < j /\ chain[i] = "file" => chain[j] \notin Direct

-----------------------------------------------------------------------------
(* The inductive invariant *)

(* No live block is without an owner. *)
AllOwned == \A b \in DOMAIN heap : \E s \in Slots : ptr[s] = b

FilePCs == {"file", "file_parse", "file_table", "file_read"}

PlanClean == CleanChain(plan) /\ (pc \in FilePCs => NoDirect(plan))

(* Entry bytes are in the context only where nothing overwrites them. *)
EntryFree ==
  /\ pc \in {"none", "new", "file", "devmem", "raw_parse"}
     => ptr["entry_data"] = NULL
  /\ pc = "idle" /\ status = "fresh" => ptr["entry_data"] = NULL
  /\ pc \in {"load", "single", "legacy", "raw"}
     => ptr["entry_data"] = NULL \/ NoDirect(plan)
  /\ ptr["entry_data"] = NULL => ptr["entry_union"] = NULL

(* A loader's own buffers are gone when it returns. *)
LocalsFree ==
  /\ ptr["window"] # NULL => pc \in {"single", "raw", "raw_parse"}
  /\ ptr["buffer"] # NULL => pc \in {"raw", "raw_parse"}
  /\ ptr["entry_copy"] # NULL \/ ptr["dmi_copy"] # NULL => pc = "raw_parse"

ContainersFree ==
  /\ pc = "new" => \A i \in cursor .. 5 : ptr[ContainerOrder[i]] = NULL
  /\ pc = "none" => \A c \in Containers : ptr[c] = NULL

SlotsFree == PlanClean /\ EntryFree /\ LocalsFree /\ ContainersFree

CInv == IInv /\ Once /\ SlotsFree /\ AllOwned

-----------------------------------------------------------------------------
(* Chains *)

LEMMA TailClean ==
  ASSUME NEW chain \in Seq(Loaders), chain # << >>, CleanChain(chain)
  PROVE  /\ CleanChain(Tail(chain))
         /\ Head(chain) = "file" => NoDirect(Tail(chain))
         /\ NoDirect(chain) => Head(chain) \notin Direct
                               /\ NoDirect(Tail(chain))
<1>1. /\ Len(chain) \in Nat \ {0} /\ DOMAIN chain = 1 .. Len(chain)
      /\ Head(chain) = chain[1]
      /\ DOMAIN Tail(chain) = 1 .. Len(chain) - 1
      /\ \A i \in DOMAIN Tail(chain) : Tail(chain)[i] = chain[i + 1]
  OBVIOUS
<1>2. \A i \in DOMAIN Tail(chain) : i + 1 \in DOMAIN chain /\ 1 < i + 1
  BY <1>1
<1>3. 1 \in DOMAIN chain
  BY <1>1
<1>4. \A i, j \in DOMAIN Tail(chain) : i < j => i + 1 < j + 1
  BY <1>1
<1>5. CleanChain(Tail(chain))
  BY <1>1, <1>2, <1>4 DEF CleanChain
<1>6. Head(chain) = "file" => NoDirect(Tail(chain))
  BY <1>1, <1>2, <1>3 DEF CleanChain, NoDirect
<1>7. NoDirect(chain) => Head(chain) \notin Direct /\ NoDirect(Tail(chain))
  BY <1>1, <1>2, <1>3 DEF NoDirect
<1> QED BY <1>5, <1>6, <1>7

LEMMA PlansClean ==
  ASSUME \A chain \in HostLoaders : CleanChain(chain)
  PROVE  \A chain \in Plans : CleanChain(chain)
BY DEF Plans, CleanChain, Direct

-----------------------------------------------------------------------------
(* How a step keeps every block owned *)

LEMMA NewOwned ==
  ASSUME Owned, AllOwned, NEW slot \in Slots, NEW c \in Image \cup {Garbage},
         ptr[slot] = NULL, New(slot, c)
  PROVE  AllOwned'
<1>1. DOMAIN heap' = DOMAIN heap \cup {Fresh}
  BY DEF New, Alloc
<1>2. ptr'[slot] = Fresh /\ \A s \in Slots \ {slot} : ptr'[s] = ptr[s]
  BY NewShape DEF Changes
<1>3. NULL \notin DOMAIN heap
  BY ConstantsAssumption DEF Owned, TypeOK
<1> QED BY <1>1, <1>2, <1>3 DEF AllOwned

LEMMA NewFailsOwned ==
  ASSUME Owned, AllOwned, NEW slot \in Slots, ptr[slot] = NULL, NewFails(slot)
  PROVE  AllOwned'
<1>1. heap' = heap /\ \A s \in Slots : ptr'[s] = ptr[s]
  BY DEF NewFails, Owned, TypeOK
<1> QED BY <1>1 DEF AllOwned

LEMMA ReleaseOwned ==
  ASSUME Owned, AllOwned, NEW S \in SUBSET Slots, Release(S)
  PROVE  AllOwned'
<1>1. DOMAIN heap' = DOMAIN heap \ {ptr[s] : s \in S}
  BY DEF Release, Free, Restrict
<1>2. \A s \in Slots \ S : ptr'[s] = ptr[s]
  BY DEF Release
<1> QED BY <1>1, <1>2 DEF AllOwned

LEMMA ParseEntryOwned ==
  ASSUME Owned, AllOwned, source \in Image, ParseEntry
  PROVE  AllOwned'
<1>1. DOMAIN heap' \subseteq (DOMAIN heap \cup {Fresh}) \ {ptr["entry_union"]}
  BY DEF ParseEntry, Alloc, Free, Restrict
<1>2. /\ ptr'["entry_union"] = Fresh
      /\ \A s \in Slots \ {"entry_union"} : ptr'[s] = ptr[s]
  BY ParseEntryShape DEF Changes
<1>3. "entry_union" \in Slots
  BY SlotFacts DEF Fixed, EntrySlots
<1> QED BY <1>1, <1>2, <1>3 DEF AllOwned

LEMMA RawCopyOwned ==
  ASSUME Owned, AllOwned, source \in Image, RawCopy,
         ptr["entry_copy"] = NULL, ptr["dmi_copy"] = NULL
  PROVE  AllOwned'
<1> DEFINE one  == Alloc(heap, Fresh, source)
           copy == Malloc(DOMAIN one)
<1>1. /\ heap' = Alloc(one, copy, source)
      /\ ptr' = [ptr EXCEPT !["entry_copy"] = Fresh, !["dmi_copy"] = copy]
  BY DEF RawCopy
<1>2. DOMAIN one = DOMAIN heap \cup {Fresh}
  BY DEF Alloc
<1> HIDE DEF one, copy
<1>3. DOMAIN heap' = DOMAIN heap \cup {Fresh, copy}
  BY <1>1, <1>2 DEF Alloc
<1>4. {"entry_copy", "dmi_copy"} \subseteq Slots
  BY SlotFacts DEF Fixed, Locals
<1>5. /\ ptr'["entry_copy"] = Fresh /\ ptr'["dmi_copy"] = copy
      /\ \A s \in Slots \ {"entry_copy", "dmi_copy"} : ptr'[s] = ptr[s]
  BY <1>1, <1>4 DEF Owned, TypeOK
<1>6. NULL \notin DOMAIN heap
  BY ConstantsAssumption DEF Owned, TypeOK
<1> QED BY <1>3, <1>4, <1>5, <1>6 DEF AllOwned

LEMMA RawCommitOwned ==
  ASSUME Owned, AllOwned, source \in Image, RawCommit,
         ptr["entry_data"] = NULL, ptr["entry_union"] = NULL,
         ptr["dmi_data"] = NULL
  PROVE  AllOwned'
<1>1. DOMAIN heap'
      \subseteq (DOMAIN heap \cup {Fresh}) \ {ptr["window"], ptr["buffer"]}
  BY DEF RawCommit, Alloc, Free, Restrict
<1>2. Locals \cup EntrySlots \cup {"dmi_data"} \subseteq Slots
  BY SlotFacts DEF Fixed
<1>3. /\ ptr'["entry_data"] = ptr["entry_copy"]
      /\ ptr'["entry_union"] = Fresh
      /\ ptr'["dmi_data"] = ptr["dmi_copy"]
      /\ \A s \in Slots \ (Locals \cup EntrySlots \cup {"dmi_data"}) :
           ptr'[s] = ptr[s]
  BY <1>2 DEF RawCommit, Locals, EntrySlots
<1>4. NULL \notin DOMAIN heap
  BY ConstantsAssumption DEF Owned, TypeOK
<1>5. ASSUME NEW b \in DOMAIN heap', b # Fresh
      PROVE  \E s \in Slots : ptr'[s] = b
  <2>1. b \in DOMAIN heap /\ b # ptr["window"] /\ b # ptr["buffer"]
    BY <1>1, <1>5
  <2>2. PICK r \in Slots : ptr[r] = b
    BY <2>1 DEF AllOwned
  <2>3. CASE r \in Locals \cup EntrySlots \cup {"dmi_data"}
    <3>1. r \in {"entry_copy", "dmi_copy"}
      BY <1>4, <2>1, <2>2, <2>3 DEF Locals, EntrySlots
    <3> QED BY <1>2, <1>3, <2>2, <3>1 DEF EntrySlots
  <2> QED BY <1>3, <2>2, <2>3
<1> QED BY <1>2, <1>3, <1>5 DEF AllOwned, EntrySlots

LEMMA DevMemTableAllocFailsOwned ==
  ASSUME Owned, AllOwned, DevMemTableAllocFails, ptr["dmi_data"] = NULL
  PROVE  AllOwned'
<1>1. DOMAIN heap' = DOMAIN heap \ {ptr[s] : s \in EntrySlots}
  BY DEF DevMemTableAllocFails, Free, Restrict
<1>2. \A s \in Slots \ (EntrySlots \cup {"dmi_data"}) : ptr'[s] = ptr[s]
  BY DEF DevMemTableAllocFails
<1>3. NULL \notin DOMAIN heap
  BY ConstantsAssumption DEF Owned, TypeOK
<1> QED BY <1>1, <1>2, <1>3 DEF AllOwned

-----------------------------------------------------------------------------
(* Steps *)

LEMMA CInvParts ==
  ASSUME CInv
  PROVE  /\ Owned /\ AllOwned
         /\ pc \in Running => source \in Image
         /\ pc \in {"none", "new"} \cup Loading =>
              /\ \A t \in Types : ptr[t] = NULL
              /\ pc \notin {"file_read", "index"} => ptr["dmi_data"] = NULL
BY IInvParts
   DEF CInv, IInv, LoadInv, LoadProgress, Image, Once, StatusFollows,
       NothingEarly, Table

LEMMA InitCleanup == Init => SlotsFree /\ AllOwned
BY SlotFacts
   DEF Init, SlotsFree, AllOwned, PlanClean, EntryFree, LocalsFree,
       ContainersFree, CleanChain, FilePCs, Fixed, EntrySlots, Locals

LEMMA OpenCleanup ==
  ASSUME Reuse = FALSE, \A chain \in HostLoaders : CleanChain(chain), CInv,
         \/ CTXNew \/ CTXNewAlloc \/ CTXNewFails \/ InitCall \/ InitRejects
         \/ TryLoader \/ InitFails \/ BuildTypeIndex
  PROVE  SlotsFree' /\ AllOwned'
<1>0. Owned /\ AllOwned /\ SlotsFree /\ CursorInRange
  BY CInvParts DEF CInv, IInv
<1>1. CASE CTXNew
  BY <1>0, <1>1, SlotFacts
     DEF CTXNew, memoryVars, initVars, SlotsFree, AllOwned, PlanClean,
         EntryFree, LocalsFree, ContainersFree, FilePCs
<1>2. CASE CTXNewAlloc
  <2>1. pc = "new" /\ cursor \in 1 .. 5 /\ Len(ContainerOrder) = 5
    BY <1>0, <1>2, SlotFacts DEF CTXNewAlloc, CursorInRange
  <2>2. PICK slot \in Containers : slot = ContainerOrder[cursor]
    BY <2>1, SlotFacts
  <2>3. slot \in Slots /\ ptr[slot] = NULL /\ New(slot, NULL)
    BY <1>0, <1>2, <2>1, <2>2, SlotFacts
       DEF CTXNewAlloc, SlotsFree, ContainersFree, Fixed
  <2>4. AllOwned'
    BY <1>0, <2>3, NewOwned DEF Image
  <2>5. \A s \in Slots \ {slot} : ptr'[s] = ptr[s]
    BY <1>0, <2>3 DEF New, Owned, TypeOK
  <2>6. \A i \in cursor + 1 .. 5 :
          ContainerOrder[i] \in Slots /\ ContainerOrder[i] # slot
    BY <2>1, <2>2, SlotFacts DEF ContainerOrder, Fixed
  <2>7. ContainersFree'
    BY <1>0, <1>2, <2>1, <2>5, <2>6
       DEF CTXNewAlloc, SlotsFree, ContainersFree
  <2>8. \A s \in Locals \cup EntrySlots : ptr'[s] = ptr[s]
    BY <2>2, <2>5, SlotFacts DEF Locals, EntrySlots, Fixed, Containers
  <2>9. PlanClean' /\ EntryFree' /\ LocalsFree'
    BY <1>0, <1>2, <2>1, <2>8
       DEF CTXNewAlloc, initVars, SlotsFree, PlanClean, EntryFree,
           LocalsFree, FilePCs, Locals, EntrySlots
  <2> QED BY <2>4, <2>7, <2>9 DEF SlotsFree
<1>3. CASE CTXNewFails
  <2>1. AllOwned'
    BY <1>0, <1>3, SlotFacts, ReleaseOwned DEF CTXNewFails, Fixed
  <2>2. /\ \A c \in Containers : ptr'[c] = NULL
        /\ \A s \in Locals \cup EntrySlots : ptr'[s] = ptr[s]
    BY <1>3, SlotFacts
       DEF CTXNewFails, Release, Fixed, Containers, Locals, EntrySlots
  <2>3. SlotsFree'
    BY <1>0, <1>3, <2>2
       DEF CTXNewFails, initVars, SlotsFree, PlanClean, EntryFree,
           LocalsFree, ContainersFree, FilePCs, Locals, EntrySlots
  <2> QED BY <2>1, <2>3
<1>4. CASE InitCall
  <2>1. CleanChain(plan')
    BY <1>4, PlansClean DEF InitCall
  <2> QED
    BY <1>0, <1>4, <2>1
       DEF InitCall, memoryVars, SlotsFree, AllOwned, PlanClean, EntryFree,
           LocalsFree, ContainersFree, FilePCs
<1>5. CASE InitRejects
  BY <1>0, <1>5
     DEF InitRejects, memoryVars, initVars, SlotsFree, AllOwned, PlanClean,
         EntryFree, LocalsFree, ContainersFree, FilePCs
<1>6. CASE TryLoader
  <2>1. /\ plan \in Seq(Loaders) /\ plan # << >> /\ CleanChain(plan)
        /\ pc = "load" /\ pc' = Head(plan) /\ plan' = Tail(plan)
        /\ heap' = heap /\ ptr' = ptr /\ status' = status
    BY <1>0, <1>6
       DEF TryLoader, memoryVars, CInv, IInv, TypeOK, SlotsFree, PlanClean
  <2>2. Head(plan) \in Loaders
    BY <2>1
  <2>3. /\ CleanChain(plan')
        /\ Head(plan) = "file" => NoDirect(plan')
        /\ NoDirect(plan) => Head(plan) \notin Direct /\ NoDirect(plan')
    BY <2>1, TailClean
  <2> QED
    BY <1>0, <2>1, <2>2, <2>3
       DEF SlotsFree, AllOwned, PlanClean, EntryFree, LocalsFree,
           ContainersFree, FilePCs, Loaders, Direct
<1>7. CASE InitFails
  BY <1>0, <1>7
     DEF InitFails, memoryVars, SlotsFree, AllOwned, PlanClean, EntryFree,
         LocalsFree, ContainersFree, FilePCs
<1>8. CASE BuildTypeIndex
  <2>1. CleanChain(plan')
    BY <1>8 DEF BuildTypeIndex, CleanChain
  <2> QED
    BY <1>0, <1>8, <2>1
       DEF BuildTypeIndex, memoryVars, SlotsFree, AllOwned, PlanClean,
           EntryFree, LocalsFree, ContainersFree, FilePCs
<1> QED BY <1>1, <1>2, <1>3, <1>4, <1>5, <1>6, <1>7, <1>8

LEMMA FileCleanup ==
  ASSUME CInv, FileStep
  PROVE  SlotsFree' /\ AllOwned'
<1>0. /\ Owned /\ AllOwned /\ SlotsFree /\ CursorInRange
      /\ {"entry_data", "entry_union", "dmi_data"} \subseteq Slots
      /\ ptr \in [Slots -> Blocks \cup {NULL}]
  BY CInvParts, IInvParts DEF CInv, IInv, Owned, TypeOK
<1>1. pc \in FilePCs /\ source \in Image
  BY CInvParts
     DEF FileStep, FileOpenFails, FileEntryShort, FileEntryAlloc,
         FileEntryAllocFails, FileParse, FileParseFails, FileTableAlloc,
         FileTableAllocFails, FileRead, FileReadFails, FilePCs, Running, PCs
<1>2. pc # "file_read" => ptr["dmi_data"] = NULL
  BY <1>1, CInvParts DEF FilePCs, Loading, Running, PCs
<1>3. SlotsFree'
  <2>1. pc' \in FilePCs \cup {"load", "index"} /\ plan' = plan
    BY DEF FileStep, FileOpenFails, FileEntryShort, FileEntryAlloc,
           FileEntryAllocFails, FileParse, FileParseFails, FileTableAlloc,
           FileTableAllocFails, FileRead, FileReadFails, FilePCs,
           LoaderFails, Advance, initVars
  <2>2. \A s \in Locals : ptr'[s] = ptr[s]
    BY <1>0, SlotFacts
       DEF FileStep, FileOpenFails, FileEntryShort, FileEntryAlloc,
           FileEntryAllocFails, FileParse, FileParseFails, FileTableAlloc,
           FileTableAllocFails, FileRead, FileReadFails, New, NewFails,
           Release, ParseEntry, memoryVars, Locals, Fixed
  <2>3. pc' # "file"
    BY DEF FileStep, FileOpenFails, FileEntryShort, FileEntryAlloc,
           FileEntryAllocFails, FileParse, FileParseFails, FileTableAlloc,
           FileTableAllocFails, FileRead, FileReadFails, LoaderFails, Advance
  <2>4. ptr'["entry_data"] = NULL => ptr'["entry_union"] = NULL
    <3>1. CASE FileOpenFails \/ FileEntryShort \/ FileParseFails \/ FileRead
      BY <1>0, <3>1
         DEF FileOpenFails, FileEntryShort, FileParseFails, FileRead,
             memoryVars, SlotsFree, EntryFree
    <3>2. CASE FileEntryAlloc
      BY <1>0, <3>2, NewShape, <1>1 DEF FileEntryAlloc
    <3>3. CASE FileEntryAllocFails
      BY <1>0, <3>3
         DEF FileEntryAllocFails, NewFails, SlotsFree, EntryFree
    <3>4. CASE FileParse
      <4>1. ptr["entry_data"] # NULL
        BY <3>4 DEF FileParse, CInv, IInv, LoadInv, LoadProgress, Holds
      <4> QED BY <1>0, <3>4, <4>1 DEF FileParse, ParseEntry
    <3>5. CASE FileTableAlloc \/ FileTableAllocFails \/ FileReadFails
      BY <1>0, <3>5
         DEF FileTableAlloc, FileTableAllocFails, FileReadFails, New,
             NewFails, Release, SlotsFree, EntryFree
    <3> QED BY <3>1, <3>2, <3>3, <3>4, <3>5 DEF FileStep
  <2> QED
    BY <1>0, <1>1, <2>1, <2>2, <2>3, <2>4
       DEF SlotsFree, PlanClean, EntryFree, LocalsFree, ContainersFree,
           FilePCs, Locals
<1>4. AllOwned'
  <2>1. CASE FileOpenFails \/ FileEntryShort \/ FileParseFails
    BY <1>0, <2>1
       DEF FileOpenFails, FileEntryShort, FileParseFails, memoryVars, AllOwned
  <2>2. CASE FileEntryAlloc
    BY <1>0, <1>1, <2>2, NewOwned DEF FileEntryAlloc, SlotsFree, EntryFree
  <2>3. CASE FileEntryAllocFails
    BY <1>0, <2>3, NewFailsOwned
       DEF FileEntryAllocFails, SlotsFree, EntryFree
  <2>4. CASE FileParse
    BY <1>0, <1>1, <2>4, ParseEntryOwned DEF FileParse
  <2>5. CASE FileTableAlloc
    BY <1>0, <1>2, <2>5, NewOwned DEF FileTableAlloc
  <2>6. CASE FileTableAllocFails
    BY <1>0, <1>2, <2>6, NewFailsOwned DEF FileTableAllocFails
  <2>7. CASE FileRead
    <3>1. DOMAIN heap' = DOMAIN heap /\ ptr' = ptr
      BY <2>7 DEF FileRead
    <3> QED BY <1>0, <3>1 DEF AllOwned
  <2>8. CASE FileReadFails
    BY <1>0, <2>8, ReleaseOwned DEF FileReadFails
  <2> QED
    BY <2>1, <2>2, <2>3, <2>4, <2>5, <2>6, <2>7, <2>8 DEF FileStep
<1> QED BY <1>3, <1>4

LEMMA RawCleanup ==
  ASSUME CInv, RawStep
  PROVE  SlotsFree' /\ AllOwned'
<1>0. /\ Owned /\ AllOwned /\ SlotsFree
      /\ Locals \cup {"entry_data", "entry_union", "dmi_data"} \subseteq Slots
      /\ ptr \in [Slots -> Blocks \cup {NULL}]
  BY CInvParts, IInvParts DEF CInv, Owned, TypeOK, Locals
<1>1. pc \in {"single", "legacy", "raw", "raw_parse"} /\ source \in Image
      /\ ptr["dmi_data"] = NULL
  <2>1. pc \in {"single", "legacy", "raw", "raw_parse"}
    BY DEF RawStep, LegacyWindow, ReadTable, RawCopy, RawCommit, RawFails
  <2> QED BY <2>1, CInvParts DEF Loading, Running, PCs
<1>2. plan' = plan /\ status' = status
  BY DEF RawStep, LegacyWindow, ReadTable, RawCopy, RawCommit, RawFails,
         LoaderFails, Advance, initVars
<1>3. CASE LegacyWindow
  <2>1. ptr["window"] = NULL
    BY <1>0, <1>3 DEF LegacyWindow, SlotsFree, LocalsFree
  <2>2. AllOwned'
    BY <1>0, <1>1, <1>3, <2>1, NewOwned DEF LegacyWindow, Locals
  <2>3. SlotsFree'
    BY <1>0, <1>2, <1>3, SlotFacts
       DEF LegacyWindow, New, Advance, SlotsFree, PlanClean, EntryFree,
           LocalsFree, ContainersFree, FilePCs
  <2> QED BY <2>2, <2>3
<1>4. CASE ReadTable
  <2>1. ptr["buffer"] = NULL
    BY <1>0, <1>4 DEF ReadTable, SlotsFree, LocalsFree
  <2>2. AllOwned'
    BY <1>0, <1>1, <1>4, <2>1, NewOwned DEF ReadTable, Locals
  <2>3. SlotsFree'
    BY <1>0, <1>2, <1>4, SlotFacts
       DEF ReadTable, New, Advance, SlotsFree, PlanClean, EntryFree,
           LocalsFree, ContainersFree, FilePCs
  <2> QED BY <2>2, <2>3
<1>5. CASE RawCopy
  <2>1. ptr["entry_copy"] = NULL /\ ptr["dmi_copy"] = NULL
    BY <1>0, <1>5 DEF RawCopy, SlotsFree, LocalsFree
  <2>2. AllOwned'
    BY <1>0, <1>1, <1>5, <2>1, RawCopyOwned
  <2>3. /\ ptr["entry_data"] = NULL /\ pc' = "raw_parse"
        /\ \A s \in {"entry_data", "entry_union"} : ptr'[s] = ptr[s]
    BY <1>0, <1>5, RawCopyShape DEF RawCopy, Advance, Changes
  <2>4. SlotsFree'
    BY <1>0, <1>2, <2>3
       DEF SlotsFree, PlanClean, EntryFree, LocalsFree, ContainersFree,
           FilePCs
  <2> QED BY <2>2, <2>4
<1>6. CASE RawCommit
  <2>1. ptr["entry_data"] = NULL /\ ptr["entry_union"] = NULL
    BY <1>0, <1>6 DEF RawCommit, SlotsFree, EntryFree
  <2>2. AllOwned'
    BY <1>0, <1>1, <1>6, <2>1, RawCommitOwned
  <2>3. ptr["entry_copy"] # NULL
    BY <1>6 DEF RawCommit, CInv, IInv, LoadInv, LoadProgress, Holds
  <2>4. /\ pc' = "index" /\ ptr'["entry_data"] # NULL
        /\ \A s \in Locals : ptr'[s] = NULL
    BY <1>0, <1>6, <2>3 DEF RawCommit, Advance, Locals
  <2>5. SlotsFree'
    BY <1>0, <1>2, <2>4
       DEF SlotsFree, PlanClean, EntryFree, LocalsFree, ContainersFree,
           FilePCs, Locals
  <2> QED BY <2>2, <2>5
<1>7. CASE RawFails
  <2>1. AllOwned'
    BY <1>0, <1>7, ReleaseOwned DEF RawFails
  <2>2. /\ \A s \in Locals : ptr'[s] = NULL
        /\ \A s \in {"entry_data", "entry_union"} : ptr'[s] = ptr[s]
    BY <1>0, <1>7 DEF RawFails, Release, Locals
  <2>3. pc' = "load"
    BY <1>7 DEF RawFails, LoaderFails, Advance
  <2>4. SlotsFree'
    BY <1>0, <1>1, <1>2, <2>2, <2>3
       DEF SlotsFree, PlanClean, EntryFree, LocalsFree, ContainersFree,
           FilePCs, Locals
  <2> QED BY <2>1, <2>4
<1> QED BY <1>3, <1>4, <1>5, <1>6, <1>7 DEF RawStep

LEMMA DevMemCleanup ==
  ASSUME CInv, DevMemStep
  PROVE  SlotsFree' /\ AllOwned'
<1>0. /\ Owned /\ AllOwned /\ SlotsFree
      /\ Locals \cup {"entry_data", "entry_union", "dmi_data"} \subseteq Slots
      /\ ptr \in [Slots -> Blocks \cup {NULL}]
  BY CInvParts, IInvParts DEF CInv, Owned, TypeOK, Locals
<1>1. pc \in {"devmem", "devmem_parse", "devmem_table"} /\ source \in Image
      /\ ptr["dmi_data"] = NULL
  <2>1. pc \in {"devmem", "devmem_parse", "devmem_table"}
    BY DEF DevMemStep, DevMemFindFails, DevMemEntryAlloc,
           DevMemEntryAllocFails, DevMemParse, DevMemReleases, DevMemTable,
           DevMemTableAllocFails
  <2> QED BY <2>1, CInvParts DEF Loading, Running, PCs
<1>2. /\ plan' = plan /\ status' = status
      /\ pc' \in {"load", "devmem_parse", "devmem_table", "index"}
  BY DEF DevMemStep, DevMemFindFails, DevMemEntryAlloc,
         DevMemEntryAllocFails, DevMemParse, DevMemReleases, DevMemTable,
         DevMemTableAllocFails, LoaderFails, Advance, initVars
<1>3. \A s \in Locals : ptr'[s] = ptr[s]
  BY <1>0
     DEF DevMemStep, DevMemFindFails, DevMemEntryAlloc,
         DevMemEntryAllocFails, DevMemParse, DevMemReleases, DevMemTable,
         DevMemTableAllocFails, New, NewFails, Release, ParseEntry,
         memoryVars, Locals, EntrySlots
<1>4. /\ pc' = "load" => ptr'["entry_data"] = NULL
      /\ ptr'["entry_data"] = NULL => ptr'["entry_union"] = NULL
  <2>1. CASE DevMemFindFails
    BY <1>0, <2>1 DEF DevMemFindFails, memoryVars, SlotsFree, EntryFree
  <2>2. CASE DevMemEntryAlloc
    BY <1>0, <1>1, <2>2, NewShape DEF DevMemEntryAlloc, Advance
  <2>3. CASE DevMemEntryAllocFails
    BY <1>0, <2>3
       DEF DevMemEntryAllocFails, NewFails, SlotsFree, EntryFree
  <2>4. CASE DevMemParse
    <3>1. ptr["entry_data"] # NULL
      BY <2>4 DEF DevMemParse, CInv, IInv, LoadInv, LoadProgress, Holds
    <3> QED BY <1>0, <2>4, <3>1 DEF DevMemParse, ParseEntry, Advance
  <2>5. CASE DevMemReleases \/ DevMemTableAllocFails
    BY <1>0, <2>5
       DEF DevMemReleases, DevMemTableAllocFails, Release, EntrySlots
  <2>6. CASE DevMemTable
    BY <1>0, <2>6 DEF DevMemTable, New, Advance, SlotsFree, EntryFree
  <2> QED BY <2>1, <2>2, <2>3, <2>4, <2>5, <2>6 DEF DevMemStep
<1>5. SlotsFree'
  BY <1>0, <1>1, <1>2, <1>3, <1>4
     DEF SlotsFree, PlanClean, EntryFree, LocalsFree, ContainersFree,
         FilePCs, Locals
<1>6. AllOwned'
  <2>1. CASE DevMemFindFails
    BY <1>0, <2>1 DEF DevMemFindFails, memoryVars, AllOwned
  <2>2. CASE DevMemEntryAlloc
    BY <1>0, <1>1, <2>2, NewOwned DEF DevMemEntryAlloc, SlotsFree, EntryFree
  <2>3. CASE DevMemEntryAllocFails
    BY <1>0, <2>3, NewFailsOwned
       DEF DevMemEntryAllocFails, SlotsFree, EntryFree
  <2>4. CASE DevMemParse
    BY <1>0, <1>1, <2>4, ParseEntryOwned DEF DevMemParse
  <2>5. CASE DevMemReleases
    BY <1>0, <2>5, ReleaseOwned DEF DevMemReleases, EntrySlots
  <2>6. CASE DevMemTable
    BY <1>0, <1>1, <2>6, NewOwned DEF DevMemTable
  <2>7. CASE DevMemTableAllocFails
    BY <1>0, <1>1, <2>7, DevMemTableAllocFailsOwned
  <2> QED BY <2>1, <2>2, <2>3, <2>4, <2>5, <2>6, <2>7 DEF DevMemStep
<1> QED BY <1>5, <1>6

LEMMA GetCleanup ==
  ASSUME CInv, Settled, Table # NULL, NEW t \in Types, ptr[t] = NULL,
         GetType(t), plan' = plan, status' = status, status # "fresh",
         pc' \in {"idle", "parse"}
  PROVE  SlotsFree' /\ AllOwned'
<1>1. Owned /\ AllOwned /\ SlotsFree /\ t \in Slots
  BY CInvParts, SlotFacts DEF CInv
<1>2. New(t, Parsed) /\ Parsed \in Image
  BY TableParsed DEF GetType, CInv, Image
<1>3. AllOwned'
  BY <1>1, <1>2, NewOwned
<1>4. \A s \in Locals \cup EntrySlots : ptr'[s] = ptr[s]
  BY <1>1, <1>2, SlotFacts DEF New, Owned, TypeOK, Fixed
<1>5. SlotsFree'
  BY <1>1, <1>4
     DEF Settled, SlotsFree, PlanClean, EntryFree, LocalsFree,
         ContainersFree, FilePCs, Locals, EntrySlots
<1> QED BY <1>3, <1>5

LEMMA ClientCleanup ==
  ASSUME CInv,
         \/ ParseAll \/ ParseAllGets \/ ParseAllSkips \/ Cleanup
         \/ \E t \in Types : ClientGet(t) \/ ClientFree(t)
  PROVE  SlotsFree' /\ AllOwned'
<1>0. Owned /\ AllOwned /\ SlotsFree /\ Once /\ IInv
  BY CInvParts DEF CInv
<1>1. CASE ParseAll
  BY <1>0, <1>1
     DEF ParseAll, memoryVars, initVars, SlotsFree, AllOwned, PlanClean,
         EntryFree, LocalsFree, ContainersFree, FilePCs
<1>2. CASE ParseAllSkips
  BY <1>0, <1>2
     DEF ParseAllSkips, ParseAdvance, memoryVars, initVars, SlotsFree,
         AllOwned, PlanClean, EntryFree, LocalsFree, ContainersFree, FilePCs,
         Once, StatusFollows
<1>3. CASE ParseAllGets
  <2>1. /\ pc = "parse" /\ status = "loaded" /\ status' = status
        /\ plan' = plan /\ pc' \in {"idle", "parse"}
        /\ cursor \in 1 .. Len(TypeOrder) /\ Table # NULL
    BY <1>0, <1>3
       DEF ParseAllGets, ParseAdvance, initVars, Once, StatusFollows, IInv,
           CursorInRange, LoadInv, LoadProgress, Table
  <2>2. PICK t \in Types : t = TypeOrder[cursor]
    BY <2>1, SlotFacts
  <2>3. ptr[t] = NULL /\ GetType(t)
    BY <1>3, <2>2 DEF ParseAllGets
  <2> QED BY <2>1, <2>3, GetCleanup DEF Settled
<1>4. CASE \E t \in Types : ClientGet(t)
  <2>1. PICK t \in Types : ClientGet(t)
    BY <1>4
  <2>2. status # "fresh"
    BY <1>0, <2>1 DEF ClientGet, Once, NothingEarly, Table
  <2> QED
    BY <2>1, <2>2, GetCleanup
       DEF ClientGet, callVars, initVars, Settled, Table
<1>5. CASE \E t \in Types : ClientFree(t)
  <2>1. PICK t \in Types : ClientFree(t)
    BY <1>5
  <2>2. AllOwned'
    BY <1>0, <2>1, SlotFacts, ReleaseOwned DEF ClientFree
  <2>3. \A s \in Locals \cup EntrySlots : ptr'[s] = ptr[s]
    BY <2>1, SlotFacts DEF ClientFree, Release, Fixed
  <2>4. SlotsFree'
    BY <1>0, <2>1, <2>3
       DEF ClientFree, callVars, initVars, SlotsFree, PlanClean, EntryFree,
           LocalsFree, ContainersFree, FilePCs, Locals, EntrySlots
  <2> QED BY <2>2, <2>4
<1>6. CASE Cleanup
  <2>1. AllOwned'
    BY <1>0, <1>6, IInvParts, ReleaseOwned DEF Cleanup, CtxSlots
  <2>2. \A s \in CtxSlots : ptr'[s] = NULL
    BY <1>6 DEF Cleanup, Release, CtxSlots
  <2>3. \A s \in Containers \cup EntrySlots : ptr'[s] = NULL
    BY <2>2, SlotFacts
       DEF CtxSlots, Fixed, Containers, EntrySlots, Locals
  <2>4. \A s \in Locals : ptr'[s] = ptr[s]
    BY <1>6, SlotFacts DEF Cleanup, Release, CtxSlots, Fixed
  <2>5. SlotsFree'
    BY <1>0, <1>6, <2>3, <2>4
       DEF Cleanup, initVars, SlotsFree, PlanClean, EntryFree, LocalsFree,
           ContainersFree, FilePCs, Locals, EntrySlots
  <2> QED BY <2>1, <2>5
<1> QED BY <1>1, <1>2, <1>3, <1>4, <1>5, <1>6

LEMMA NextCInv ==
  ASSUME Reuse = FALSE, \A chain \in HostLoaders : CleanChain(chain)
  PROVE  CInv /\ [Next]_vars => CInv'
<1> SUFFICES ASSUME CInv, [Next]_vars PROVE CInv'
  OBVIOUS
<1>1. IInv' /\ Once'
  BY NextIInv, NextOnce DEF CInv
<1>2. SlotsFree' /\ AllOwned'
  <2>1. CASE UNCHANGED vars
    BY <2>1
       DEF vars, memoryVars, callVars, initVars, CInv, SlotsFree, AllOwned,
           PlanClean, EntryFree, LocalsFree, ContainersFree
  <2> QED
    BY <2>1, OpenCleanup, FileCleanup, RawCleanup, DevMemCleanup,
       ClientCleanup DEF Next, CallStep, ClientCall
<1> QED BY <1>1, <1>2 DEF CInv

-----------------------------------------------------------------------------
(* Theorem *)

(* After lazybiosCleanup, or a lazybiosCTXNew that failed, no block is     *)
(* left, whatever failed in between (README: "one `lazybiosCleanup`        *)
(* releases all of it").  The condition on the chains is needed: Linux's   *)
(* file loader followed by its physical-memory reader breaks it, and run   *)
(* leak_on_fallback shows the block that is lost.                          *)
THEOREM CleanupIsComplete ==
  ASSUME Reuse = FALSE, \A chain \in HostLoaders : CleanChain(chain)
  PROVE  Spec => []CleanupReleasesAll
<1>1. Init => CInv
  BY InitIInv, InitOnce, InitCleanup DEF CInv
<1>2. CInv /\ [Next]_vars => CInv'
  BY NextCInv
<1>3. CInv => CleanupReleasesAll
  <2> SUFFICES ASSUME CInv, pc = "none", NEW b \in DOMAIN heap
               PROVE  FALSE
    BY DEF CleanupReleasesAll
  <2>1. b # NULL
    BY ConstantsAssumption DEF CInv, IInv, TypeOK
  <2>2. \A s \in Slots : ptr[s] = NULL
    BY CInvParts
       DEF CInv, SlotsFree, EntryFree, LocalsFree, ContainersFree, Slots,
           Fixed, EntrySlots, Locals
  <2> QED BY <2>1, <2>2 DEF CInv, AllOwned
<1> QED BY <1>1, <1>2, <1>3, PTL DEF Spec

=============================================================================
