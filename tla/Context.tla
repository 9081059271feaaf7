------------------------------ MODULE Context ------------------------------
(***************************************************************************)
(* The life of one lazybiosCTX_t: lazybiosCTXNew, lazybiosInit with the    *)
(* loaders of every backend, the getters, lazybiosParseAll and             *)
(* lazybiosCleanup, with the heap blocks each of them allocates and frees. *)
(*                                                                         *)
(* The library is sequential.  What makes it hard is that every malloc,    *)
(* read and mapping may fail, that several loaders are tried one after the *)
(* other on the same context, and that the pieces of a context (entry      *)
(* bytes, parsed entry, table, index, result sets) are replaced by         *)
(* different functions at different moments.  A call is therefore a        *)
(* sequence of steps, one between two points where it can fail.            *)
(*                                                                         *)
(* The heap is a function from the live blocks to what they hold: the      *)
(* firmware image their bytes come from, or Garbage.                       *)
(***************************************************************************)
EXTENDS Naturals, Sequences, Functions

CONSTANTS
  Blocks,        (* addresses the allocator can return                     *)
  NULL,          (* the null pointer, and the value of a zeroed field      *)
  Garbage,       (* bytes that are not those of any firmware image         *)
  Firmware,      (* the sources a loader may read: an entry point and the  *)
                 (* table that belongs to it                               *)
  Oversized,     (* the images whose table is longer than UINT32_MAX       *)
  TypeOrder,     (* the members lazybiosParseAll fills, in its order       *)
  HostLoaders,   (* for each backend, the loaders it tries, in order       *)
  Reuse,         (* does the client call lazybiosInit on a used context?   *)
  Malloc(_)      (* the block malloc returns, given the blocks in use      *)

Loaders == {"file", "single", "legacy", "devmem"}

(* ctx and the containers lazybiosCTXNew allocates, in its order. *)
ContainerOrder == <<"ctx", "DMIData", "oem", "dell", "hp">>

Containers == {"ctx", "DMIData", "oem", "dell", "hp"}
Types      == Range(TypeOrder)
Locals     == {"window", "buffer", "entry_copy", "dmi_copy"}
EntrySlots == {"entry_data", "entry_union"}
Fixed      == Containers \cup EntrySlots \cup {"dmi_data"} \cup Locals

ASSUME ConstantsAssumption ==
  /\ NULL \notin Blocks
  /\ NULL \notin Firmware
  /\ Garbage \notin Firmware \cup {NULL}
  /\ Oversized \subseteq Firmware
  /\ TypeOrder \in Seq(STRING) /\ TypeOrder # << >>
  /\ Types \cap Fixed = {}
  /\ HostLoaders \subseteq Seq(Loaders)
  /\ Reuse \in BOOLEAN

ASSUME MallocAssumption ==
  \A used \in SUBSET Blocks : used # Blocks => Malloc(used) \in Blocks \ used

(* The pointers that own a block: the fields of the context and of its     *)
(* containers, the result sets, and the local variables of a loader.       *)
Slots    == Fixed \cup Types
CtxSlots == Slots \ Locals

VARIABLES
  heap,          (* live block -> the firmware its bytes come from         *)
  ptr,           (* the value of every owning pointer                      *)
  entry_len,     (* the image whose entry length entry_len holds           *)
  dmi_len,       (* the image whose table length dmi_len holds             *)
  index,         (* the image the type index describes                     *)
  index_valid,
  strings,       (* the table block a set's string members point into      *)
  plan,          (* loaders lazybiosInit still has to try                  *)
  source,        (* the firmware image the running loader reads            *)
  pc,            (* the step the running call has reached                  *)
  cursor,        (* loop position of lazybiosCTXNew and lazybiosParseAll   *)
  status         (* what the client knows from return values               *)

memoryVars == <<heap, ptr>>
indexVars  == <<index, index_valid>>
initVars   == <<plan, source>>
callVars   == <<initVars, pc, cursor, status>>
vars == <<memoryVars, entry_len, dmi_len, indexVars, strings, callVars>>

Image == Firmware \cup {NULL}

PCs == {"none", "new", "idle", "load", "parse", "index",
        "file", "file_parse", "file_table", "file_read",
        "single", "legacy", "raw", "raw_parse",
        "devmem", "devmem_parse", "devmem_table"}

-----------------------------------------------------------------------------
(* The allocator *)

CanMalloc == DOMAIN heap # Blocks

(* The block the next successful malloc returns. *)
Fresh == Malloc(DOMAIN heap)

Alloc(h, b, contents) ==
  [x \in DOMAIN h \cup {b} |-> IF x = b THEN contents ELSE h[x]]

(* free() of every pointer in S; free(NULL) does nothing. *)
Free(h, S) == Restrict(h, DOMAIN h \ S)

(* slot = malloc(...), which succeeds and is filled. *)
New(slot, contents) ==
  /\ CanMalloc
  /\ heap' = Alloc(heap, Fresh, contents)
  /\ ptr' = [ptr EXCEPT ![slot] = Fresh]

(* slot = malloc(...), which fails: the slot's old value is overwritten. *)
NewFails(slot) ==
  /\ ptr' = [ptr EXCEPT ![slot] = NULL]
  /\ heap' = heap

(* free(slot); slot = NULL for each slot of S. *)
Release(S) ==
  /\ heap' = Free(heap, {ptr[s] : s \in S})
  /\ ptr' = [s \in Slots |-> IF s \in S THEN NULL ELSE ptr[s]]

Init ==
  /\ heap        = [b \in {} |-> NULL]
  /\ ptr         = [s \in Slots |-> NULL]
  /\ entry_len   = NULL
  /\ dmi_len     = NULL
  /\ index       = NULL
  /\ index_valid = FALSE
  /\ strings     = [t \in Types |-> NULL]
  /\ plan        = << >>
  /\ source      = NULL
  /\ pc          = "none"
  /\ cursor      = 0
  /\ status      = "none"

(* The shapes a step's frame takes. *)
DataUnchanged   == UNCHANGED <<entry_len, dmi_len, indexVars, strings>>
Advance(to)     == pc' = to /\ UNCHANGED <<initVars, cursor, status>>

(* A loader returns -1 to lazybiosInit or to the backend's fallback chain. *)
LoaderFails     == Advance("load")

-----------------------------------------------------------------------------
(* lazybiosCTXNew: the context and its containers, one after another. *)

CTXNew ==
  /\ pc = "none"
  /\ pc' = "new"
  /\ cursor' = 1
  /\ UNCHANGED <<memoryVars, initVars, status>>
  /\ DataUnchanged

CTXNewAlloc ==
  /\ pc = "new"
  /\ New(ContainerOrder[cursor], NULL)
  /\ IF cursor = Len(ContainerOrder)
     THEN pc' = "idle" /\ cursor' = 0 /\ status' = "fresh"
     ELSE pc' = "new"  /\ cursor' = cursor + 1 /\ status' = status
  /\ UNCHANGED initVars
  /\ DataUnchanged

(* One calloc fails: everything allocated so far is freed. *)
CTXNewFails ==
  /\ pc = "new"
  /\ Release(Containers)
  /\ pc' = "none"
  /\ cursor' = 0
  /\ UNCHANGED <<initVars, status>>
  /\ DataUnchanged

-----------------------------------------------------------------------------
(* lazybiosInit: which loaders run, in which order. *)

(* The pairs of path arguments: two files, one merged file, the host. *)
Plans == {<<"file">>, <<"single">>} \union HostLoaders

InitCall ==
  /\ pc = "idle"
  /\ Reuse \/ status = "fresh"
  /\ plan' \in Plans
  /\ pc' = "load"
  /\ UNCHANGED <<memoryVars, source, cursor, status>>
  /\ DataUnchanged

(* An entry point without a table is rejected before anything is touched. *)
InitRejects ==
  /\ pc = "idle"
  /\ Reuse \/ status = "fresh"
  /\ status' = "failed"
  /\ UNCHANGED <<memoryVars, initVars, pc, cursor>>
  /\ DataUnchanged

(* Mutant: the chain does not move on: the first loader is tried for ever. *)
TryLoaderAgain ==
  /\ pc = "load"
  /\ plan # << >>
  /\ source' \in Firmware
  /\ pc' = Head(plan)
  /\ UNCHANGED <<memoryVars, plan, cursor, status>>
  /\ DataUnchanged

(* The next loader starts; it reads some firmware image. *)
TryLoader ==
  /\ pc = "load"
  /\ plan # << >>
  /\ source' \in Firmware
  /\ pc' = Head(plan)
  /\ plan' = Tail(plan)
  /\ UNCHANGED <<memoryVars, cursor, status>>
  /\ DataUnchanged

(* Every loader failed: -1, and no cleanup of what they left behind. *)
InitFails ==
  /\ pc = "load"
  /\ plan = << >>
  /\ pc' = "idle"
  /\ source' = NULL
  /\ status' = "failed"
  /\ UNCHANGED <<memoryVars, plan, cursor>>
  /\ DataUnchanged

(* Mutant: lazybiosBuildTypeIndex returns before it clears the old index. *)
BuildTypeIndexNoReset ==
  /\ pc = "index"
  /\ IF ptr["dmi_data"] = NULL \/ dmi_len \in Oversized
     THEN UNCHANGED indexVars
     ELSE index' = heap[ptr["dmi_data"]] /\ index_valid' = TRUE
  /\ pc' = "idle"
  /\ source' = NULL
  /\ plan' = << >>
  /\ status' = "loaded"
  /\ UNCHANGED <<memoryVars, entry_len, dmi_len, strings, cursor>>

(* lazybiosBuildTypeIndex, then 0 whether or not the index could be built. *)
BuildTypeIndex ==
  /\ pc = "index"
  /\ IF ptr["dmi_data"] = NULL \/ dmi_len \in Oversized
     THEN index' = NULL /\ index_valid' = FALSE
     ELSE index' = heap[ptr["dmi_data"]] /\ index_valid' = TRUE
  /\ pc' = "idle"
  /\ source' = NULL
  /\ plan' = << >>
  /\ status' = "loaded"
  /\ UNCHANGED <<memoryVars, entry_len, dmi_len, strings, cursor>>

-----------------------------------------------------------------------------
(* lazybiosParseEntry and lazybiosReleaseEntry *)

(* Mutant: an entry that is already parsed is kept. *)
ParseEntryOnce ==
  /\ CanMalloc
  /\ IF ptr["entry_union"] = NULL
     THEN /\ heap' = Alloc(heap, Fresh, source)
          /\ ptr' = [ptr EXCEPT !["entry_union"] = Fresh]
     ELSE UNCHANGED memoryVars

(* A new parsed entry is built before the previous one is released. *)
ParseEntry ==
  /\ CanMalloc
  /\ heap' = Free(Alloc(heap, Fresh, source), {ptr["entry_union"]})
  /\ ptr' = [ptr EXCEPT !["entry_union"] = Fresh]

-----------------------------------------------------------------------------
(* lazybiosFile: two separate files, written straight into the context. *)

(* Either file cannot be opened. *)
FileOpenFails ==
  /\ pc = "file"
  /\ LoaderFails
  /\ UNCHANGED memoryVars
  /\ DataUnchanged

(* Fewer than 20 bytes: entry_len is already overwritten. *)
FileEntryShort ==
  /\ pc = "file"
  /\ entry_len' = source
  /\ LoaderFails
  /\ UNCHANGED <<memoryVars, dmi_len, indexVars, strings>>

FileEntryAlloc ==
  /\ pc = "file"
  /\ entry_len' = source
  /\ New("entry_data", source)
  /\ Advance("file_parse")
  /\ UNCHANGED <<dmi_len, indexVars, strings>>

FileEntryAllocFails ==
  /\ pc = "file"
  /\ entry_len' = source
  /\ NewFails("entry_data")
  /\ LoaderFails
  /\ UNCHANGED <<dmi_len, indexVars, strings>>

FileParse ==
  /\ pc = "file_parse"
  /\ ParseEntry
  /\ Advance("file_table")
  /\ DataUnchanged

(* The table cannot be sized or is empty, or the entry does not parse. *)
FileParseFails ==
  /\ pc = "file_parse"
  /\ LoaderFails
  /\ UNCHANGED memoryVars
  /\ DataUnchanged

FileTableAlloc ==
  /\ pc = "file_table"
  /\ dmi_len' = source
  /\ New("dmi_data", Garbage)
  /\ Advance("file_read")
  /\ UNCHANGED <<entry_len, indexVars, strings>>

(* Mutant: malloc's result is tested before it is assigned to dmi_data. *)
FileTableAllocFailsKeepingOld ==
  /\ pc = "file_table"
  /\ LoaderFails
  /\ UNCHANGED memoryVars
  /\ DataUnchanged

FileTableAllocFails ==
  /\ pc = "file_table"
  /\ dmi_len' = source
  /\ NewFails("dmi_data")
  /\ LoaderFails
  /\ UNCHANGED <<entry_len, indexVars, strings>>

FileRead ==
  /\ pc = "file_read"
  /\ heap' = [heap EXCEPT ![ptr["dmi_data"]] = source]
  /\ Advance("index")
  /\ UNCHANGED ptr
  /\ DataUnchanged

(* Mutant: the count fread returns is not compared with dmi_len. *)
FileReadShortAccepted ==
  /\ pc = "file_read"
  /\ Advance("index")
  /\ UNCHANGED memoryVars
  /\ DataUnchanged

(* Mutant: a short read leaves the half-read table in the context. *)
FileReadFailsKeepingTable ==
  /\ pc = "file_read"
  /\ LoaderFails
  /\ UNCHANGED memoryVars
  /\ DataUnchanged

(* Short read: the table goes, the entry point stays. *)
FileReadFails ==
  /\ pc = "file_read"
  /\ Release({"dmi_data"})
  /\ LoaderFails
  /\ DataUnchanged

-----------------------------------------------------------------------------
(* Loaders that read into buffers of their own and hand the pair to        *)
(* lazybiosLoadRawBuffers: lazybiosSingleFile and the macOS, Windows and   *)
(* NetBSD backends ("single"), and the legacy physical-memory readers,     *)
(* which also hold the firmware window they scanned ("legacy").            *)

LegacyWindow ==
  /\ pc = "legacy"
  /\ New("window", source)
  /\ Advance("single")
  /\ DataUnchanged

ReadTable ==
  /\ pc = "single"
  /\ New("buffer", source)
  /\ Advance("raw")
  /\ DataUnchanged

(* Mutant: the error path forgets the scanned firmware window. *)
RawFailsLosingWindow ==
  /\ pc \in {"single", "legacy", "raw", "raw_parse"}
  /\ heap' = Free(heap, {ptr[s] : s \in Locals \ {"window"}})
  /\ ptr' = [s \in Slots |-> IF s \in Locals THEN NULL ELSE ptr[s]]
  /\ LoaderFails
  /\ DataUnchanged

(* A failure before the hand-over, or one lazybiosLoadRawBuffers reports   *)
(* (reuse of the context, either malloc, an entry that does not parse):    *)
(* every local buffer is freed and the context is as it was.               *)
RawFails ==
  /\ pc \in {"single", "legacy", "raw", "raw_parse"}
  /\ Release(Locals)
  /\ LoaderFails
  /\ DataUnchanged

(* Only a context without a table and without an entry point is loaded. *)
RawCopy ==
  /\ pc = "raw"
  /\ ptr["entry_data"] = NULL /\ ptr["dmi_data"] = NULL
  /\ CanMalloc
  /\ LET used == Alloc(heap, Fresh, source)
         copy == Malloc(DOMAIN used)
     IN  /\ DOMAIN used # Blocks
         /\ heap' = Alloc(used, copy, source)
         /\ ptr' = [ptr EXCEPT !["entry_copy"] = Fresh, !["dmi_copy"] = copy]
  /\ Advance("raw_parse")
  /\ DataUnchanged

(* The pair is parsed into a temporary container, which is then assigned   *)
(* whole to *ctx->DMIData; the caller frees its buffers.                   *)
RawCommit ==
  /\ pc = "raw_parse"
  /\ CanMalloc
  /\ heap' = Free(Alloc(heap, Fresh, source), {ptr["window"], ptr["buffer"]})
  /\ ptr' = [s \in Slots |->
               CASE s = "entry_data"  -> ptr["entry_copy"]
                 [] s = "entry_union" -> Fresh
                 [] s = "dmi_data"    -> ptr["dmi_copy"]
                 [] s \in Locals      -> NULL
                 [] OTHER             -> ptr[s]]
  /\ entry_len' = source
  /\ dmi_len' = source
  /\ index' = NULL
  /\ index_valid' = FALSE
  /\ Advance("index")
  /\ UNCHANGED strings

-----------------------------------------------------------------------------
(* lazybiosDevMem: physical memory, written straight into the context. *)

(* The device, the mapping or the search for an entry point fails. *)
DevMemFindFails ==
  /\ pc = "devmem"
  /\ LoaderFails
  /\ UNCHANGED memoryVars
  /\ DataUnchanged

DevMemEntryAlloc ==
  /\ pc = "devmem"
  /\ entry_len' = source
  /\ New("entry_data", source)
  /\ Advance("devmem_parse")
  /\ UNCHANGED <<dmi_len, indexVars, strings>>

DevMemEntryAllocFails ==
  /\ pc = "devmem"
  /\ entry_len' = source
  /\ NewFails("entry_data")
  /\ LoaderFails
  /\ UNCHANGED <<dmi_len, indexVars, strings>>

DevMemParse ==
  /\ pc = "devmem_parse"
  /\ ParseEntry
  /\ Advance("devmem_table")
  /\ DataUnchanged

(* Mutant: lazybiosReleaseEntry frees without storing NULL. *)
DevMemReleasesDangling ==
  /\ pc \in {"devmem_parse", "devmem_table"}
  /\ heap' = Free(heap, {ptr[s] : s \in EntrySlots})
  /\ entry_len' = NULL
  /\ LoaderFails
  /\ UNCHANGED <<ptr, dmi_len, indexVars, strings>>

(* The entry does not parse, or the table's address or mapping fails. *)
DevMemReleases ==
  /\ pc \in {"devmem_parse", "devmem_table"}
  /\ Release(EntrySlots)
  /\ entry_len' = NULL
  /\ LoaderFails
  /\ UNCHANGED <<dmi_len, indexVars, strings>>

(* Mutant: dmi_len keeps the length of an earlier table. *)
DevMemTableKeepingLength ==
  /\ pc = "devmem_table"
  /\ New("dmi_data", source)
  /\ Advance("index")
  /\ DataUnchanged

DevMemTable ==
  /\ pc = "devmem_table"
  /\ dmi_len' = source
  /\ New("dmi_data", source)
  /\ Advance("index")
  /\ UNCHANGED <<entry_len, indexVars, strings>>

(* The table's malloc fails: dmi_data is overwritten, the entry released. *)
DevMemTableAllocFails ==
  /\ pc = "devmem_table"
  /\ dmi_len' = source
  /\ heap' = Free(heap, {ptr[s] : s \in EntrySlots})
  /\ ptr' = [s \in Slots |->
               IF s \in EntrySlots \cup {"dmi_data"} THEN NULL ELSE ptr[s]]
  /\ entry_len' = NULL
  /\ LoaderFails
  /\ UNCHANGED <<indexVars, strings>>

-----------------------------------------------------------------------------
(* The getters and lazybiosParseAll *)

(* What a getter finds: it sizes the set and starts its walk from the      *)
(* index when that is valid, and from the table itself otherwise.          *)
Parsed ==
  LET table == heap[ptr["dmi_data"]]
  IN  IF dmi_len = table /\ (index_valid => index = table) THEN table
                                                          ELSE Garbage

GetType(t) ==
  /\ New(t, Parsed)
  /\ strings' = [strings EXCEPT ![t] = ptr["dmi_data"]]

(* The client assigns a getter's result to a member that is still NULL. *)
ClientGet(t) ==
  /\ pc = "idle"
  /\ Reuse \/ status = "loaded"
  /\ ptr["dmi_data"] # NULL
  /\ ptr[t] = NULL
  /\ GetType(t)
  /\ UNCHANGED <<entry_len, dmi_len, indexVars, callVars>>

(* lazybiosFreeTypeN, and the member is set to NULL. *)
ClientFree(t) ==
  /\ pc = "idle"
  /\ ptr[t] # NULL
  /\ Release({t})
  /\ strings' = [strings EXCEPT ![t] = NULL]
  /\ UNCHANGED <<entry_len, dmi_len, indexVars, callVars>>

(* lazybiosParseAll returns -1, changing nothing, when there is no table. *)
ParseAll ==
  /\ pc = "idle"
  /\ ptr["dmi_data"] # NULL
  /\ pc' = "parse"
  /\ cursor' = 1
  /\ UNCHANGED <<memoryVars, initVars, status>>
  /\ DataUnchanged

ParseAdvance ==
  /\ IF cursor = Len(TypeOrder) THEN pc' = "idle" /\ cursor' = 0
                                ELSE pc' = "parse" /\ cursor' = cursor + 1
  /\ UNCHANGED <<initVars, status>>

(* Mutant: a member that is already populated is parsed again. *)
ParseAllGetsAgain ==
  /\ pc = "parse"
  /\ GetType(TypeOrder[cursor])
  /\ ParseAdvance
  /\ UNCHANGED <<entry_len, dmi_len, indexVars>>

ParseAllGets ==
  /\ pc = "parse"
  /\ ptr[TypeOrder[cursor]] = NULL
  /\ GetType(TypeOrder[cursor])
  /\ ParseAdvance
  /\ UNCHANGED <<entry_len, dmi_len, indexVars>>

(* The member is already there, or its getter fails and leaves it NULL. *)
ParseAllSkips ==
  /\ pc = "parse"
  /\ ParseAdvance
  /\ UNCHANGED memoryVars
  /\ DataUnchanged

-----------------------------------------------------------------------------
(* lazybiosCleanup: every member, the table, the entry, the containers. *)

(* Mutant: the parsed sets are forgotten. *)
CleanupKeepingSets ==
  /\ pc = "idle"
  /\ Release(CtxSlots \ Types)
  /\ entry_len' = NULL
  /\ dmi_len' = NULL
  /\ index' = NULL
  /\ index_valid' = FALSE
  /\ pc' = "none"
  /\ status' = "none"
  /\ UNCHANGED <<strings, initVars, cursor>>

Cleanup ==
  /\ pc = "idle"
  /\ Release(CtxSlots)
  /\ entry_len' = NULL
  /\ dmi_len' = NULL
  /\ index' = NULL
  /\ index_valid' = FALSE
  /\ strings' = [t \in Types |-> NULL]
  /\ pc' = "none"
  /\ status' = "none"
  /\ UNCHANGED <<initVars, cursor>>

-----------------------------------------------------------------------------
(* The specification *)

FileStep ==
  \/ FileOpenFails \/ FileEntryShort \/ FileEntryAlloc \/ FileEntryAllocFails
  \/ FileParse \/ FileParseFails
  \/ FileTableAlloc \/ FileTableAllocFails
  \/ FileRead \/ FileReadFails

RawStep == LegacyWindow \/ ReadTable \/ RawCopy \/ RawCommit \/ RawFails

DevMemStep ==
  \/ DevMemFindFails \/ DevMemEntryAlloc \/ DevMemEntryAllocFails
  \/ DevMemParse \/ DevMemReleases
  \/ DevMemTable \/ DevMemTableAllocFails

(* The steps of a call that has begun. *)
CallStep ==
  \/ CTXNewAlloc \/ CTXNewFails
  \/ TryLoader \/ InitFails \/ BuildTypeIndex
  \/ FileStep \/ RawStep \/ DevMemStep
  \/ ParseAllGets \/ ParseAllSkips

(* The calls a client may make between two others. *)
ClientCall ==
  \/ CTXNew \/ InitCall \/ InitRejects \/ ParseAll \/ Cleanup
  \/ \E t \in Types : ClientGet(t) \/ ClientFree(t)

Next == CallStep \/ ClientCall

(* A call that has begun runs on: there is no lock or wait in the library. *)
Spec == Init /\ [][Next]_vars /\ WF_vars(CallStep)

-----------------------------------------------------------------------------
(* Properties *)

(* No call is changing the context's data: the client, or one of its       *)
(* getters, may look at it.                                                *)
Settled == pc \in {"idle", "parse"}

Table == ptr["dmi_data"]

(* Every variable has its type.                                            *)
TypeOK ==
  /\ DOMAIN heap \subseteq Blocks
  /\ heap \in [DOMAIN heap -> Image \cup {Garbage}]
  /\ ptr \in [Slots -> Blocks \cup {NULL}]
  /\ entry_len \in Image
  /\ dmi_len \in Image
  /\ index \in Image
  /\ index_valid \in BOOLEAN
  /\ strings \in [Types -> Blocks \cup {NULL}]
  /\ plan \in Seq(Loaders)
  /\ source \in Image
  /\ pc \in PCs
  /\ cursor \in 0 .. Len(ContainerOrder) + Len(TypeOrder)
  /\ status \in {"none", "fresh", "failed", "loaded"}

(* No pointer dangles: whatever fails, in whatever order, every pointer of *)
(* the context and of a running loader is NULL or leads to a live block,   *)
(* so that neither a read nor lazybiosCleanup's free hits a freed one.     *)
PointersLive == \A s \in Slots : ptr[s] # NULL => ptr[s] \in DOMAIN heap

(* No block is owned twice: the frees of lazybiosCleanup and of the        *)
(* loaders' error paths never free one block two times.                    *)
SoleOwner ==
  \A r, s \in Slots : r # s /\ ptr[r] # NULL => ptr[r] # ptr[s]

(* The string members of a parsed set point into a table block that is     *)
(* still allocated, for as long as the set exists.                         *)
StringsLive ==
  \A t \in Types : ptr[t] # NULL => strings[t] \in DOMAIN heap

MemorySafe == PointersLive /\ SoleOwner /\ StringsLive

(* One lazybiosCleanup releases everything the context was handed          *)
(* (README: "one `lazybiosCleanup` releases all of it").                   *)
CleanupReleasesAll == pc = "none" => DOMAIN heap = {}

(* The index is never stale: when it is valid and there is a table, it was *)
(* built from that very table, and dmi_len is that table's length -- also  *)
(* after a load that failed half way or replaced an earlier table.         *)
IndexDescribesTable ==
  Settled /\ Table # NULL =>
    /\ heap[Table] \in Firmware
    /\ dmi_len = heap[Table]
    /\ index_valid => index = heap[Table]

(* A table is read with its own entry point, hence with its own SMBIOS     *)
(* version: after a successful lazybiosInit the raw entry, the parsed      *)
(* entry and the table come from the same image, although a loader that    *)
(* failed before may have left its own entry behind.                       *)
LoadedPairMatches ==
  Settled /\ status = "loaded" =>
    /\ \A s \in EntrySlots \cup {"dmi_data"} : ptr[s] # NULL
    /\ \A s \in EntrySlots : heap[ptr[s]] = heap[Table]
    /\ entry_len = heap[Table]

(* An entry point is never paired with the table of another image, even by *)
(* a lazybiosInit that fails on a context that was loaded before.          *)
NoMixedPair ==
  Settled /\ Table # NULL /\ ptr["entry_union"] # NULL =>
    heap[ptr["entry_union"]] = heap[Table]

(* A parsed set holds the records of one real table: the one its strings   *)
(* point into.                                                             *)
SetsFaithful ==
  \A t \in Types : ptr[t] # NULL =>
    heap[ptr[t]] \in Firmware /\ heap[ptr[t]] = heap[strings[t]]

(* A failed load leaves nothing a getter would accept.                     *)
FailedLoadHoldsNoTable ==
  pc = "idle" /\ status = "failed" =>
    Table = NULL /\ \A t \in Types : ptr[t] = NULL

(* After a lazybiosInit that succeeded, parsed sets describe the table it  *)
(* loaded (the reuse check of lazybiosLoadRawBuffers: "Reject reuse rather *)
(* than leaking an older table or leaving already-parsed structures        *)
(* stale").                                                                *)
SetsBelongToTable ==
  Settled /\ status = "loaded" =>
    \A t \in Types : ptr[t] # NULL => strings[t] = Table

(* lazybiosParseAll leaves the members alone that are already populated.   *)
ParseAllKeepsSets ==
  [][pc = "parse" => \A t \in Types : ptr[t] # NULL => ptr'[t] = ptr[t]]_vars

(* Every call returns, whichever of its steps fail.                        *)
CallsReturn == pc \notin {"none", "idle"} ~> pc \in {"none", "idle"}

=============================================================================
