# A verification development for lazybios

lazybios is a small C library that loads a machine's SMBIOS firmware tables and
parses them into structs. This directory holds TLA+ models of it, the TLC
configurations that check them, and proofs checked by TLAPS. All paths below
are relative to the repository.

- [Running it](#running-it)
- [Inventory](#inventory)
- [Modules and how they correspond to the code](#modules-and-how-they-correspond-to-the-code)
- [Runs, bounds, and what they show](#runs-bounds-and-what-they-show)
- [Fairness](#fairness)
- [Proofs](#proofs)
- [Disagreements found](#disagreements-found)
- [Not modelled](#not-modelled)

## Running it

    tlc -config MCContext_reuse.cfg MCContext.tla
    tlapm ContextProofs.tla

`PROJECT.json` lists every run with its module, configuration and properties,
maps every definition to the lines it translates, and pairs each property with
a mutant: a plausible bug in the code, kept in the modules as an operator
commented "Mutant", which makes that property fail under that run.

## Inventory

The library is sequential: no threads, no locks, no callbacks, no global
mutable state. One `lazybiosCTX_t` is used by one caller. What is hard is
elsewhere: every allocation, open, read and mapping may fail; a backend tries
several loaders one after the other *on the same context*; the parts of a
context are replaced by different functions at different times; and the bytes
walked come from firmware and obey no grammar.

| Component | State | Operations | Interacts with | What makes it correct |
|---|---|---|---|---|
| Context lifecycle (`src/lazybios.c`, `src/backend.c`) | `lazybiosCTX_t`, `lazybiosDMI_t` (entry bytes, parsed entry, table, lengths, index), ~50 result members | `lazybiosCTXNew`, `lazybiosInit`, `lazybiosFile`, `lazybiosLoadRawBuffers`, `lazybiosParseEntry`, `lazybiosReleaseEntry`, `lazybiosParseAll`, `lazybiosCleanup` | backends write into it; getters read it; the client owns the members | no dangling pointer, no double owner, nothing lost; a successful load is one consistent pair; the index belongs to the table; parsed sets outlive nothing they point into |
| Type index and table walk (`src/lazybios.c`, every getter) | `index[256]`, `index_valid`, the cursor of a loop | `DMINext`, `DMIString`, `lazybiosBuildTypeIndex`, `lazybiosCountStructsByType`, a getter's loop | three loops over one byte table with three stop conditions | progress, staying inside the table, agreement of cache, count and walk |
| Backends (`src/backends/*.c`) | file descriptors, mappings, local buffers | open / map / read, find the entry point, locate the table | chain of loaders per platform | buffers released once on each path; a failed loader does not spoil the next |
| Legacy physical reader (`src/backend.c`, Haiku, BeOS, MINIX, QNX, generic) | firmware window, entry copy, table copy | `mmap`, else `pread`, else `lseek`/`read` | hands buffers to `lazybiosLoadRawBuffers` | short reads and `EINTR`, 64-bit address arithmetic |
| Entry-point inspection (`src/lazybios.c`, `src/backend.c`) | none | anchor, length and checksum tests; the 16-byte scan; table location | both loaders and the file formats | accepts only whole, checksummed entries; located table inside the image |
| Windows conversion (`src/backend.c`) | none | builds an entry point from `RawSMBIOSData` | output goes through the library's own inspection | what it builds is accepted |
| Getters (`src/structures/`, 47 standard types and 4 OEM ones) | result set per type: an array of records, each with members, their statuses and blocks of its own | `lazybiosGetTypeN`, `lazybiosFreeTypeN`, decoders | walk, `DMIString`, `lazybiosIsVersionPlus`; read by the JSON extension | every structure of the type once; members inside the clamped record, each byte one member's; statuses that follow from length and version; a failed allocation leaves nothing behind and frees nothing twice |
| JSON (`src/json/lazybios_json.c`) | the tree under the caller's cJSON root | `lazybiosParseJSONAll`, one serializer per type, `oem_vendor_object` | `lazybiosParseAll`, result sets, cJSON | no member contradicted, lost or called null; one object per vendor; a failure costs one child at most |
| cJSON, enumeration texts, tests, fuzzers, build files, docs | | | | vendored, without state, or not part of the library |

`PROJECT.json` repeats this list with a status for each part, and lists the
hazards of the code at the lines where they bite.

## Modules and how they correspond to the code

    DMITable ── TableContents ─┬─ TableWalk ──────┬─ TableRefinement ── MCTableWalk
                               └─ TableContract ──┘   └ TableWalkProofs
    Context ─── ContextContract, ContextRefinement ── MCContext
      └ ContextProofs ── ContextRefinementProofs
    EntryPoint ── EntryLoad ── MCEntryLoad
                    └ EntryLoadProofs
    PhysicalRead ── MCPhysicalRead
      └ PhysicalReadProofs
    RecordBlocks ── RecordArray ── MCRecordArray (with RecordStructs)
                      └ RecordArrayProofs
    Fields ── RecordLayouts ─┬─ RecordParse ─┬─ MCRecordParse ─┐
              RecordStructs ─┘               │                 │
    Fields ── RecordJson ────────────────────┴─ RecordExport ──┴─ MCRecordExport
                                                  └ RecordProofs
    JsonDocument ── MCJsonDocument
      └ JsonDocumentProofs

A run of the library passes through them in this order: an entry point is found
and checked (`EntryPoint`, `EntryLoad`), from memory read by `PhysicalRead`; a
context takes it with its table (`Context`); a getter walks the table
(`TableWalk`), fills an array of records (`RecordArray`), each from the bytes of
one structure (`Fields`, `RecordLayouts`, `RecordParse`); a serializer writes a
record's members (`RecordJson`, `RecordExport`) into a tree (`JsonDocument`).

### `Context`

One context, from `lazybiosCTXNew` to `lazybiosCleanup`, with the heap.

*State.* `heap` maps each live block to what its bytes come from: a firmware
image, `Garbage` (allocated and not yet, or only partly, read) or NULL (a
container). `ptr` is the value of every owning pointer: the context and its
four containers, `entry_data`, `entry_union`, `dmi_data`, one slot per member
filled by `lazybiosParseAll`, and the local buffers of a loader. `entry_len`
and `dmi_len` say *which image's* length the field holds; `index` says which
image's table the type index was built from. `strings[t]` is the table block
the string members of a parsed set point into: getters do not copy strings
(`DMIString` returns an address in `dmi_data`). `pc`, `plan` and `cursor` are
the control state of the running call, `status` the return values the client
has seen.

*Steps.* A call is cut where it can fail, so that one step is the code between
two such points: `lazybiosFile` is `FileOpenFails`, `FileEntryShort`,
`FileEntryAlloc(Fails)`, `FileParse(Fails)`, `FileTableAlloc(Fails)`,
`FileRead(Fails)`; `BuildTypeIndex` follows. `lazybiosDevMem` is cut likewise.
All loaders that read into buffers of their own and call
`lazybiosLoadRawBuffers` (`lazybiosSingleFile`, macOS, Windows, NetBSD's sysctl
and device readers) share the steps `ReadTable`, `RawCopy`, `RawCommit` and
`RawFails`; the legacy readers first hold a firmware window (`LegacyWindow`).
`RawFails` is every failure of such a loader, wherever it happens: the local
buffers are freed and the context is untouched, which is what each of those
functions does on each of its error paths.

The order matters and is kept: `entry_len` is written before the entry is
allocated, `dmi_data` takes malloc's result before it is tested,
`lazybiosParseEntry` builds the new parsed entry before it releases the old,
`lazybiosDevMem` releases the entry on failure while `lazybiosFile` does not.

*Client.* Between calls the client may get a member that is NULL, free a member
and set it to NULL, call `lazybiosParseAll`, clean up and start again. With
`Reuse = FALSE` it keeps the discipline of `doc/data_sources.dox:246-251`: after
a failed load, `lazybiosCleanup` and a fresh context, and nothing in between.
With `Reuse = TRUE` it may also call `lazybiosInit` on a used context, after a
success or a failure, and use getters after a failure; the header states no rule
against it, and a second `lazybiosInit` after a success is ruled out nowhere.

*Abstracted.* Contents of blocks to the image they come from. Failures that
have the same effect (open, size, allocation of a `FILE`) to one step. Getters'
inner allocations to one block per set. The table of at most one image in
`Oversized` stands for one longer than `UINT32_MAX`, which cannot be indexed.

### `ContextContract`, `ContextRefinement`

What `include/lazybios/lazybios.h` promises, without heap, loaders or partial
failure: `Load` takes an entry point and a table of one image or nothing.
`ContextRefinement` maps the detailed state onto it (nothing is loaded until
`lazybiosInit` has returned 0) and states `ImplementsContract`.

### `DMITable`, `TableContents`, `TableWalk`

`DMITable` is the byte level: `DMINext`, `DMIString`, the clamp of a record's
length, over tables as sequences of bytes. `TableWalk` is the three loops:
`lazybiosBuildTypeIndex` (`BuildStep`), `lazybiosCountStructsByType`
(`CountStep`) and the loop of every getter (`WalkStep`), one iteration per
step, with the index in between. The loops have different stop conditions in
the code and keep them here: the first two want a byte beyond the header and
stop at type 127; a getter's loop does neither and relies on the count.

`TableContents` is the reference the loops are compared with (`Structures`,
`EndsAt`, `StringStarts`, `IsString`, `StringOf`): what the structures and
strings of a byte sequence are, without `DMINext`, `DMIString` or a loop, and
the record a getter owes its caller for a structure (`RecordOf`).

### `TableContract`, `TableRefinement`

What the getters promise over one table: asked for a type (`Ask`), they answer
(`Answer`) with the records of its structures, each once and in table order.
There is no index, no count and no position in it, and nothing that one call
could leave for the next. `TableRefinement` maps `TableWalk` onto it: building
the index shows nothing, counting and walking are one `Answer` at the moment the
loop ends, and `ImplementsTableContract` says that every step is one of the
contract's or invisible.

### `EntryPoint`, `EntryLoad`

`EntryPoint` has the byte-level functions: `lazybiosInspectEntryPoint`
(`Inspect`), the checksum modulo 256, `lazybiosGetSMBIOSTableLocation`,
`lazybiosGetSingleFileLayout` (`Layout`), and the entry point that
`lazybiosLoadWindowsRawSMBIOSData` writes (`MakeEntry`), over sequences of bytes
with the offsets of `lazybios_internal.h`. A 4- or 8-byte field of 2^24 or more
is one value, `Huge`: it is beyond every file and window, which is all the
comparisons ask.

`EntryLoad` is what happens to those bytes on the way to a loaded context. An
entry point is looked at two or three times, first in a window or file that
goes on behind it, then on a copy of the declared length; the four ways differ
in which functions look and in which order. The scan is one iteration per step.
Its reference (`EntryAt`) says what an entry point at an offset is without the
functions of the code. `lazybiosParseEntry`'s allocation and the reading of the
table are in `Context`.

### `PhysicalRead`

`legacy_read_physical_range`: mapping, else `pread`, else `lseek` and `read`.
A byte is represented by its physical address, so the buffer says where each
byte came from. `MapRange` copies out of the mapping of `MapSize` bytes, where a
byte behind its end is `Fault`; `PreadSome` and `ReadSome` are one read that
returns between one byte and what was asked for; `Interrupted` is `EINTR`;
`PreadFails`, `SeekFails` and `ReadFails` are an error, the end of the device
or an offset that does not fit. The widths of `uint64_t`, `size_t`, `off_t` and
`ssize_t` are constants. Whether there is a `pread` is decided at build time
(`_POSIX_VERSION`): `MapFails` goes either way.

### `Fields`, `RecordLayouts`, `RecordStructs`, `RecordParse`

The body of every getter, for all 51 structure types. `RecordLayouts` gives each
type's members as placements: offset, width, kind (a number, a string number,
an array with a firmware-given count, everything that is left, ...), the SMBIOS
version it begins with, the status below that version, and what makes it
`ABSENT` although its bytes are there. `Fields` says what the READ macros and
the getters' conditions make of a placement: `Status` is the
`lazybiosFieldStatus_t` of a member, `Start` its offset when an array in front
of it moves it, `Reads` its bytes. `RecordStructs` is the structs of
`include/lazybios/structures`: widths, pointers, decoded parts.

`RecordParse` parses one structure (`Parse`), then the same bytes with one more
(`Longer`) or in a table of a newer version (`Newer`), so that properties can
relate what a getter makes of the two. Of a member's value only that matters
which the code asks: a count, an element length, whether it is the value for
"not given", whether a string number names a string. `oem` types are read like
the others.

### `RecordBlocks`, `RecordArray`

Who owns the memory of a set. `RecordBlocks` lists per type the blocks a getter
allocates for a record, in order, with whether it gives up without one
(`Must`) or goes on (`May`), and the order of `lazybiosFreeTypeN`. `RecordArray`
is the getter and the free function over those lists, one allocation or `free`
per step, any of which fails. The blocks of an array's elements are one block
`x[]`, reachable through `x` only, which may be there in part when its
allocation fails (`NextFails`).

### `RecordJson`, `RecordExport`

What each `lazybiosExtJSONAddTypeN` writes of a record: a set of writes per
type, each saying under which key of which object (the record's or its
`decoded`) a member goes, raw, as text or decoded, and what is written when it
is not `PRESENT`: null, an empty array, nothing, or another member.
`RecordExport` composes this with `RecordParse`: `Export` follows `Parse`, so
the statuses are those a getter really leaves.

### `JsonDocument`

The tree itself. `lazybiosParseJSONAll` calls `lazybiosParseAll`, adds
`smbios_info` and then calls each serializer; the client may also call one
alone. A node records its parent and whether the parent took it, so what is
lost when `cJSON_AddItemToObject` fails is in `nodes` but not in `Tree`. The
objects `oem` and of the vendor are found or created one step each. cJSON is
external: looking up, creating and adding, as the serializers use them.

### The proof modules

`ContextProofs`, `ContextRefinementProofs`, `TableWalkProofs`,
`EntryLoadProofs`, `PhysicalReadProofs`, `RecordArrayProofs`, `RecordProofs`
(of `RecordParse` and `RecordExport`) and `JsonDocumentProofs` (see
[Proofs](#proofs)).

## Runs, bounds, and what they show

| Run | Instance | Properties |
|---|---|---|
| `context_hosts` | two files, one file, SunOS's and NetBSD's chains; 3 members | `TypeOK`, `FailedLoadHoldsNoTable`, `CleanupReleasesAll`, `CallsReturn`, `ParseAllKeepsSets`, `ImplementsContract` |
| `context_reuse` | Linux's chain, `Reuse = TRUE`, 1 member | `LoadedPairMatches`, `MemorySafe`, `IndexDescribesTable`, `NoMixedPair`, `SetsFaithful` |
| `leak_on_fallback` | Linux's chain | `CleanupReleasesAll`, violated |
| `stale_sets_on_reuse` | as `context_reuse` | `SetsBelongToTable`, violated |
| `walk` | tables of up to 3 of 9 whole or damaged structures; one structure and every tail | `StaysInside`, `IndexMatchesTable`, `GetterFindsAll`, `StringsResolve`, `LoopsEnd`, `ImplementsTableContract` |
| `entry_load` | windows, files and Windows data put together from pieces | `ScanFindsFirst`, `AcceptedStaysAccepted`, `TableInside`, `WindowsRoundTrip`, `LoadEnds` |
| `physical_read` | every range of a 12-byte device, types of 3 to 6 bits | `TypeOK`, `ReadsExactly`, `ReadEnds` |
| `record_array` | all types with blocks, 2 structures, 2 failing allocations | `NoLeak`, `FreesLiveBlocks`, `CountMatchesArray` |
| `records` | all 51 types, every length, every version a getter tells apart | `PresentBytesInside`, `NoByteReadTwice`, `NoByteSkipped`, `ReadsFitMembers`, `PresentKept`, `NoContradiction`, `PresentNeverNull`, `PresentIsShown` |
| `record_present` | type 7 | `AllPresentSerialized`, violated |
| `json_document` | a standard type and three OEM ones of two vendors, 2 calls, 1 failing allocation | `OneObjectPerVendor`, `ShowsTheSet`, `EachCallAddsOne`, `FailureCostsOneChild` |
| `json_is64bit` | as `json_document` | `Is64BitOnlyOf3x`, violated |

The type invariant of a module is checked by itself where a mutant of the code
can break it; elsewhere it is a conjunct of `StaysInside`, `TableInside` and
`OneObjectPerVendor`, and of `RecordArray` and `RecordParse` it is proved only.

*Context.* Two firmware images are enough for a mismatch, one of them
oversized so that both outcomes of building the index occur together. Blocks
(11 or 12) suffice for five containers, a complete pair, the members and a
loader's locals, so that every allocation can succeed; every allocation also
has a step in which it fails. `Malloc` is first-fit, so freed addresses are
used again and a dangling pointer would meet another owner's block. Three
members let `lazybiosParseAll` meet a filled member before, between and after
empty ones. `HostLoaders` is a set of chains, one of which a behaviour takes.
The chains are those of the backends; which failures happen, in which loader,
is unrestricted, and the client may go on for ever.

*Table.* The six byte values are the ones the walk distinguishes: NUL, type and
string characters, a length below, at and above the header size, and type 127.
`Fragments` are structures with no, one and two strings, an empty first string,
no terminator, a length past the table, a length below the header, the
end-of-table marker and a bare header; three of them in a row put each one
first, in the middle and last. `TailTables` put every header, whole or cut off,
with every three bytes behind it, after a good structure. `IndexLimit` lies
inside the range of lengths, so that the same tables are walked with and
without the index.

*Entry points.* A window is up to two paragraph-aligned pieces (blank, wrong
checksum, wrong intermediate checksum, wrong intermediate anchor, a declared
length that is too small or reaches into the next piece, a good entry point
longer than the standard one) and a good entry point, whole or cut off by its
last byte: every kind of candidate stands in front of a good one, and the scan
meets every distance from the window's end around its last step. Files combine
entry points whose advertised offset lies before, at and behind their own end,
and whose advertised length does or does not fit, with tails of 0 to 40 bytes.
Windows data has versions on both sides of 3, the highest byte, table lengths
of zero, short of, equal to and beyond the data, and 65535 and 65536 bytes, on
both sides of what a 2.x entry point can express. A load stops when it has
succeeded or failed, so deadlock is not checked here nor in `physical_read`.

*Physical reads.* `SizeMax` is 7 with pages of 4 bytes, so that a length can
overflow with its page offset and when it is rounded to pages; `OffMax` is 15
and `Uint64Max` 63, so that addresses exist which do not fit, wrap, or wrap to a
valid offset; the device ends at 12, inside both. A read returns at most
`ReadMax` = 3 bytes, so that a range takes several.

*Records.* A record grows from its header until it is longer than its last
member ends, at each version a getter of its type compares with, 2.0 and 3.9.
Counts are 0 to 2: none, one, and one that moves what is behind. Element lengths
are 0, and one below, at and above the shortest the getter takes. Special values
are set nowhere, everywhere and in one member at a time, and strings are all
there or all missing. `MembersOfStructs` and `BlocksOfStructs` have TLC compare
the layouts and the lists of blocks with the structs of the headers.

*Sets.* Two structures put a failure in the first record, between two and in
the last; two failures let the second hit the record after the one that went
on without a block. A record calls for all its blocks, none, or all but one.

*JSON.* One type without a vendor, two of one vendor and one of another: enough
for an object that is found, one that is created second, and a name that is
taken by the wrong vendor. The lookups fail, find or create with every
allocation as the one that fails; one failure is enough for
`FailureCostsOneChild`, since an object that two types of a vendor share, lost
with both, would cost two children. Two calls: `lazybiosParseJSONAll` after a
single serializer, the other way round, or either twice.

The last three stop when they are done, so deadlock is not checked there.

## Fairness

`Context` assumes `WF_vars(CallStep)`, `TableWalk` `WF_vars(LoopStep)`, and
`EntryLoad` and `PhysicalRead` `WF_vars(Next)`: a call that has begun keeps
executing, which is all a sequential library needs. Nothing is assumed of the
client, of which outcome a fallible step takes, or of retries. `CallsReturn`,
`LoopsEnd`, `LoadEnds` and `ReadEnds` use it. `PhysicalRead` bounds the number
of interrupted reads (`MaxInterrupts`): the code retries after `EINTR` without
limit, so a read that is always interrupted would not end.

## Proofs

Every invariant of a passing run is also proved, and so are the two refinements
and the action properties. The runs show them on small instances and guard the
assumptions; the theorems hold for all values of the constants that the
assumptions allow. Of the liveness properties the part is proved that depends
on the code: [no call goes on for ever](#no-call-goes-on-for-ever).

### Context

`ContextProofs` proves, for every set of blocks, images and members, every
loader chain and every allocator that returns a free block when there is one
(`MallocAssumption`), with or without reuse of the context:

| Theorem | States |
|---|---|
| `TypeCorrect` | `Spec => []TypeOK` |
| `MemorySafety` | `Spec => []MemorySafe`: no dangling pointer, no double owner, strings alive |
| `IndexFresh` | `Spec => []IndexDescribesTable` |
| `SuccessIsComplete` | `Spec => []LoadedPairMatches` |
| `PairNeverMixed` | `Spec => []NoMixedPair` |
| `SetsAreFaithful` | `Spec => []SetsFaithful` |
| `ParseAllKeeps` | `Spec => ParseAllKeepsSets` |

and, for a client that calls `lazybiosInit` once (`Reuse = FALSE`),

| Theorem | States |
|---|---|
| `Implementation` | `Spec => ImplementsContract`: the code implements `ContextContract` |
| `FailureHoldsNothing` | `Spec => []FailedLoadHoldsNoTable` |
| `CleanupIsComplete` | `Spec => []CleanupReleasesAll`, for chains that are `CleanChain`s |

*The inductive invariant.* `MemorySafe` is not inductive: that a parsed set's
strings are alive says nothing of who may free them. `StringsApart` adds that
the block they lie in is owned by no slot but `dmi_data`, and is not the block
that `lazybiosFile` is reading into: this is why freeing an entry, a set or a
loader's buffer never frees strings, and why `FileReadFails`, the one step
that frees a table outside `lazybiosCleanup`, frees a table no set was parsed
from. The properties about contents need what a running loader has done so far
(`LoadProgress`: after `FileParse`, say, the parsed entry holds the image the
loader reads) and what holds while one half of a pair has been replaced
(`TableWhole`, `IndexCurrent`, `PairWhole`, each excepting the steps in which
it is broken on purpose, and `LoadedWhole`). `IInv` is their conjunction with
`TypeOK` and the range of the loop counter.

*The argument.* For each kind of memory operation a lemma (`NewShape`,
`ReleaseShape`, `ParseEntryShape`, `RawCommitShape`, ...) gives the step's
`Changes(S, F)`: the slots it may set, to NULL, to a new block or to one
another slot owned, and the slots whose blocks it may free or write. `Kept` and
`SetsKept` conclude from that alone what survives. The step lemmas
(`OpenSteps`, `FileSteps`, `RawSteps`, `DevMemSteps`, `ParseSteps`, `GetStep`,
`ClientFreeStep`) then take each action in turn: its memory effect, its control
effect, and each conjunct of `IInv`.

*The refinement.* `ContextRefinementProofs` adds `Once`: what the client knows
follows from the call that runs (`StatusFollows`), and until `lazybiosInit` has
returned 0 there is no set, and no table but the one a loader is about to hand
over (`NothingEarly`). Both fail when a context is used again, which is why the
contract is one for a single `lazybiosInit`. With it every step before that
moment is invisible (`EarlyUnseen`), `BuildTypeIndex` is `Load` by
`LoadedWhole` and `TableWhole`, and a getter's step is `Get` because what it
finds is the whole table (`TableParsed`).

*Nothing lost.* The last part of `ContextRefinementProofs` states which chains
do not leak. A chain is clean when no loader that writes entry bytes straight into the context
(`lazybiosFile`, `lazybiosDevMem`) follows `lazybiosFile`, which is the only
one that leaves such bytes behind when it fails. Every backend's chain but
Linux's is: FreeBSD, OpenBSD and DragonFly have `lazybiosDevMem` alone, SunOS
has it after `lazybiosSingleFile`, the others hand over buffers. The invariant
says that every block has an owner (`AllOwned`) and that every slot a step is
about to overwrite is NULL (`EntryFree`, `LocalsFree`, `ContainersFree`, with
the loaders still to come in `PlanClean`). `leak_on_fallback` shows that the
condition is needed.

### Table walk

`TableWalkProofs` proves, for every table of bytes (whole or damaged, of any
length), every type and every `IndexLimit`, with and without the index:

| Theorem | States |
|---|---|
| `LoopsStayInside` | `Spec => []StaysInside`: no loop, string or record leaves the table |
| `IndexCorrect` | `Spec => []IndexMatchesTable` |
| `GetterCorrect` | `Spec => []GetterFindsAll`: each structure of the type once, in order, as many as counted |
| `StringsCorrect` | `Spec => []StringsResolve` |
| `Implementation` | `Spec => ImplementsTableContract`: the loops implement `TableContract` |
| `OneAnswer` | a table has one answer for a type that `TableContract` allows |
| `WalkCorrect` | `Spec => []IInv`, the inductive invariant |

*The bytes.* The reference of `TableWalk` says what a structure and a string
are by quantifiers over offsets; the code finds them by loops. `NextIsEnd` says
that `DMINext` returns where the reference ends the structure, `DMIStringIs`
what the loop of `DMIString` returns, and `SkipStands` and `StringFound` that
the string it arrives at after passing `k - 1` terminators is the `k`-th that
starts.

*The inductive invariant.* The cursor of each loop is on the path of
`Structures` (`OnPath`), and what the loop has gathered is what lies before the
cursor: the index counts the structures passed and begins no type behind its
first (`IndexCovers`), the count is that of the type's structures passed
(`CountInv`), the records are those structures in their order (`RecordInv`,
`WalkInv`). Since the getter stops at its count and the counting loops stop at
the table's end, the getter's stopping condition is right because of `CountInv`
and `WalkInv` together: it has found all of them just when none is left.

*The refinement.* `SameContents`: the contract, an instance of its own, says
the same of a table as the reference of the walk. Only `WalkDone` shows, as
`Answer`; that what it hands over is the contract's answer is `IsComplete` in
the next state, and the table is the one that was asked about (`SameRecords`).
`OneAnswer` shows that the contract leaves no choice, since two rising sequences
with the same members are the same (`SameRising`): with the index or by
counting, now or later, a getter of a type returns the same records.

### Loading

`EntryLoadProofs` proves, for every window, file and Windows result shorter
than 16 MiB (`InputsAssumption`; a field of `Huge` or more is one value, and a
longer input could tell such fields apart):

| Theorem | States |
|---|---|
| `ScanCorrect` | `Spec => []ScanFindsFirst`: the scan stops at the first entry point, and misses none |
| `TableCorrect` | `Spec => []TableInside` |
| `NeverRejected` | `Spec => AcceptedStaysAccepted`: what was accepted where it was found is accepted as a copy |
| `WindowsCorrect` | `Spec => []WindowsRoundTrip` |
| `TypeCorrect` | `Spec => []TypeOK` |
| `LoadInvariant` | `Spec => []IInv`, the inductive invariant |

*The inductive invariant.* The scan has passed no entry point (`Scanning`:
`NoneBefore` its offset; it steps by a paragraph, and `ScanEnds` shows that
what is left when it gives up cannot hold one); what is handed over to be
parsed was accepted (`Handed`), which is all that `NeverRejected` needs, since
`Inspect` of a copy of the declared length gives what `Inspect` of the longer
bytes gave; the table is behind the entry or the header and inside the input
(`Located`); and the entry point made for Windows says what Windows said
(`Built`).

*Checksums.* That the entry points `lazybiosLoadWindowsRawSMBIOSData` makes are
accepted is arithmetic modulo 256: the checksum byte is the negative of the sum
of the others, the 2.x entry has one checksum inside the range of the other,
and the fields read back are those written (`ReadLE` of `WriteLE`). `Sum` is a
recursive function; see below for how it is reasoned about.

### Physical reads

`PhysicalReadProofs` proves, for all widths of the types (`OffMax < Uint64Max`),
page and device sizes, all ranges and any number of interruptions:

| Theorem | States |
|---|---|
| `ReadIsExact` | `Spec => []ReadsExactly`: success means exactly the bytes of the range |
| `TypeCorrect` | `Spec => []TypeOK`, in which no byte comes from behind the mapping |
| `PartIsInPlace` | `Spec => []PartInPlace`: inside the loops, what is counted is in place |

`ReadsExactly` speaks of the end only; the invariant adds `PartInPlace` for the
loops and `Started`, that a loop begins at zero with something to read.
`MappingCovers` is the arithmetic of the mapping: the two overflow tests make
the rounded size at least the page offset and the length. `TakeInPlace` is one
read of either loop.

### Sets

`RecordArrayProofs` proves, for any number of structures and failures:

| Theorem | States |
|---|---|
| `NothingLeaks` | `Spec => []NoLeak` |
| `FreesAreSafe` | `Spec => []FreesLiveBlocks` |
| `CountIsRight` | `Spec => []CountMatchesArray` |
| `TypeCorrect` | `Spec => []TypeOK` |

They rest on `FreesAssumption`: a free function frees each block its getter
allocates, once, and an array after the blocks of its elements. TLC evaluates
it for every type, so the assumption is checked against the lists of
`RecordBlocks`, and the theorems say it suffices. The invariant describes the
half-done states: while filling, the records from `index` on are empty and
those before it whole (`Filling`); while freeing, only the blocks still to come
in the list are left of the record at `index` (`Freeing`).

### Records

`RecordProofs` proves, for every layout, version, length, count and element
length, of what a getter parses (`Spec`) and of what is then written of it
(`ExportSpec`):

| Theorem | States |
|---|---|
| `ReadsStayInside` | `Spec => []PresentBytesInside` |
| `NoByteTwice` | `Spec => []NoByteReadTwice` |
| `ReadsAreOfSize` | `Spec => []ReadsFitMembers` |
| `NoByteLost` | `Spec => []NoByteSkipped` |
| `GrowingLosesNothing` | `Spec => PresentKept` |
| `TypeCorrect` | `Spec => []TypeOK` |
| `NothingContradicts` | `ExportSpec => []NoContradiction` |
| `PresentIsNotNull` | `ExportSpec => []PresentNeverNull` |
| `PresentGetsShown` | `ExportSpec => []PresentIsShown` |

The bounded run has counts up to 2; these have counts and element lengths of
any size, where an array moves the members behind it anywhere. They rest on
conditions that speak of a layout or a serializer alone and not of any record;
TLC evaluates them over all 51 types and every version a getter tells apart.
What the layouts and the writes are is thus checked once, and that this is
enough for every record is proved.

- `LayoutOK`: each member begins behind the header and behind all of the
  members before it, or behind the array in front of it.
- `PackedOK`: the members before a member, or those between the array and it,
  leave no gap while the arrays are empty, but for the bytes the specification
  reserves (`Reserved`). An array moves what is behind it by its own size, so
  none comes up in any record (`NoByteLost`).
- `FitOK`: the width a getter copies a member with is the width of the struct's
  member. It is a comparison of two tables, `RecordLayouts` and `RecordStructs`,
  of which nothing is proved: TLC makes it for all types. `ReadsAreOfSize` adds
  that nothing in a record changes how many bytes are copied.
- `ContentsAssumption`: counts and element lengths are numbers.
- `WritesOK`: two writes of a serializer that may put something under one key
  agree. If both have a value there, they show the same member in the same
  form; if both leave the same gap, they fill it alike. And where one has a
  value and the other might say null, the other has a value, too, whenever the
  first has (`Follows`): it reads the same members, or ones that end no later
  in the structure and came no later (`Sooner`). Type 5 needs this: for
  `enabled_error_correcting_capabilities` its serializer writes the decoded
  `error_correcting_capability` again (`lazybios_json.c:824`), under a key that
  is null when that member is missing. Further, null stands for an array of none only where the
  getter calls it `ABSENT` (`NullArrayOK`), and some write is meant for each
  member, but those of `NeverShown`.

The invariant of the first six adds to `TypeOK` that the statuses are the ones
the layout gives the present record; `EInv` adds to it that the object, if any,
is what the serializer writes of just these.

### The document

`JsonDocumentProofs` proves, for any types, vendors and tables, and any number
of calls and of failing allocations:

| Theorem | States |
|---|---|
| `VendorsMeet` | `Spec => []OneObjectPerVendor` |
| `DocumentShows` | `Spec => []ShowsTheSet` |
| `CallsCounted` | `Spec => []EachCallAddsOne` |
| `FailuresCostOne` | `Spec => []FailureCostsOneChild` |
| `TypeCorrect` | `Spec => []TypeOK` |
| `DocumentInvariant` | `Spec => []IInv`, the inductive invariant |

They assume that the names are distinct (`NamesAssumption`): type keys, vendor
keys, `oem` and `smbios_info`, which are literals in `lazybios_json.c`.

*The inductive invariant.* A node's parent is older than it and is the root,
the `oem` object or an object of the right vendor, as its name asks
(`Document`: `NodesOK`, `AllShaped`); there is at most one object of a name in
the tree (`Unique`), which the search before each creation keeps true; the
item in hand goes to
where it belongs, or nowhere (`Place`); every array shows the context's set,
which is that of the table (`Shows`, `FromTable`); and, as long as nothing has
failed, each serializer that was called has added its child or is about to
(`Counted`).

*What a failure costs.* `FailureCostsOneChild` needs a second invariant on top
of it, `Cost`: the calls asked for no more children than the tree has, the
failures there were, and one for the item in hand if the object it goes to is
in the tree (`Arrives`). An object that was not created, or that its parent did
not take, ends `Arrives` and is paid for by the failure of that step; the next
serializer starts from the root again, and what it finds is held by a parent
that is in the tree (`CostFinds`), so nothing is charged to an old failure
twice. `Counted` says nothing of any of this: it speaks of no failure at all.

### No call goes on for ever

TLAPS as installed cannot conclude liveness. What it can prove is the part of it
that is about the code: that a call has a bounded number of steps before it,
whatever bytes it meets and whatever fails. Each of six proof modules defines
`StepsLeft`, from the state alone, and proves that it is always a natural number
and that every step of a call lowers it; while a call runs no other step is
possible.

| Theorem | A call's remaining steps, in this order of weight |
|---|---|
| `ContextProofs!CallsRunDown` | the loaders still in the chain and the stage of the running one; or the containers still to allocate; or the members still to parse |
| `TableWalkProofs!LoopsRunDown` | whether the counting loop is still to be followed by the walk, the bytes between the cursor and the end |
| `EntryLoadProofs!LoadRunsDown` | the stage, the bytes the scan has not passed |
| `PhysicalReadProofs!ReadRunsDown` | the ways of reading left, the bytes missing, the interruptions left |
| `RecordArrayProofs!SetsRunDown` | the records to fill with their lists of allocations, the records to free with their lists of blocks |
| `JsonDocumentProofs!CallsRunDown` | the serializers to call, the stage of the running one |

So a zero length byte does not hold a loop in place, a chain tries no loader
twice, and a sequence of short reads ends. What is left to TLC is that a call
that is not done has a step to take; the fairness then takes it.

`SetsRunDown` needs that a getter's loop counter stays in its lists (`InLists`)
and that the lists are sequences (`AllocsAssumption`, which TLC evaluates for
every type); the others follow from the invariants above.

### Induction and recursive functions

The library's induction theorems take an operator and cannot be instantiated.
Where a proof needs induction it is done by sets: the set of numbers for which
a statement holds contains 0 and is closed under successor, hence is all of
`Nat` (`Induction`), because its complement would have a least element
(`LeastNatural`, from the library's theorem that `<` is well-founded on `Nat`).
A recursive function stands for `CHOOSE f : f = [n \in S |-> ...]`, so that its
equation may be used once some function satisfies it; such a function is shown
to exist, by the same induction, before anything is said of `Sum`, `Structures`
or `InTree`.

### What is only model-checked

*Liveness*: `CallsReturn`, `LoopsEnd`, `LoadEnds` and `ReadEnds`, which TLAPS as
installed cannot prove; the bounds on the number of steps are proved, see above.
*The tables*: that each layout, list of blocks and set of writes meets the
conditions the theorems assume of it (`LayoutOK`, `PackedOK`, `FitOK`,
`FreesAssumption`, `WritesOK`). They are finite facts about 51 types, which TLC
evaluates completely; tlapm 1.4.5 does not know the `@@` they are written with.

Proved, and no run's property: `PartInPlace`, the type invariants of
`RecordArray`, `RecordParse`, `EntryLoad` and `JsonDocument`, the step bounds,
and the inductive invariants.

## Disagreements found

1. **A failed sysfs load leaks on Linux.** `lazybiosFile` stores `entry_data`
   in the context and returns -1 on a later failure without releasing it
   (`src/src/lazybios.c:229-276`). The next loader of the Linux chain,
   `lazybiosDevMem`, assigns `entry_data = malloc(...)` over it
   (`src/src/backends/linux.c:115`). `leak_on_fallback` shows a block that
   `lazybiosCleanup` does not release, where README.md says one
   `lazybiosCleanup` releases all of it. `lazybiosLoadRawBuffers` refuses such
   a context instead. The other chains are free of it (`context_hosts`; proved:
   `CleanupIsComplete`).
2. **Only one kind of loader rejects reuse.** `src/src/backend.c:84` says
   backend loaders operate on a fresh context and rejects a context that is
   loaded, so that parsed structures do not become stale; `lazybiosFile` and
   `lazybiosDevMem` have no such check. `stale_sets_on_reuse` shows a second
   `lazybiosInit` that succeeds and leaves sets of the first table next to the
   second. They stay memory-safe only because the first table is never freed
   (proved: `MemorySafety`), that is, because it leaks.
3. **A serializer writes one member twice and another never.**
   `lazybiosExtJSONAddType7` tests `current_sram_type` and writes
   `supported_sram_type` again (`src/src/json/lazybios_json.c:982`); types 5 and
   17 have such lines too. `record_present` shows a `PRESENT` member without a
   key, where `src/doc/extensions.dox:99` has `PRESENT` values serialized.
   `NeverShown` names the members concerned, so that `PresentIsShown` holds of
   all others.
4. **`is_64bit` is true for SMBIOS 2.x.** `cJSON_False` is a type flag and not
   zero, and `cJSON_AddBoolToObject` takes an int
   (`src/src/json/lazybios_json.c:178`). `json_is64bit` shows it; the test
   program prints "Is 64-bit: No" for the same tables.

Smaller things met on the way, for which there is no run:

- `uuid` of type 1 and the members of type 7 gated on a version are left
  `ABSENT` below it, where `lazybios.h:91` calls such members UNREACHABLE.
- Types 0 and 17 write `""` for a missing string, others null
  (`extensions.dox:100`).
- Type 6's `current_speed` is text in the record's own object
  (`lazybios_json.c:869`), against the comment at its lines 62-63.
- A capacity or address that defers to a wide member the record does not have
  is worked out from the missing member all the same (`type16.c:128`), against
  `src/doc/structures/type16.dox:36-37`.
- An array whose attachment fails is lost (`lazybios_json.c:278`); a null is
  not, as cJSON deletes it.
- `lazybios_json.h` speaks of the OEM keys `DellType218` and `HpType204`; the
  code writes `oem.dell.Type218` and `oem.hp.Type204`.
- A set's empty-array branch for `peer_groups` of type 9 is never taken, and a
  peer group's `device_function` shows the slot's own decoded value.

## Not modelled

- The text of enumerations (decoders of types 3, 4, 9, 17 and others), the
  version string, and how a value is formatted in JSON: tables and formatting
  without state.
- The statuses inside the elements of an array; element lengths that differ
  within one array (types 40 and 42 are taken with one length); the
  terminator of a Dell token list. The blocks of an array's elements are one
  block.
- A failing allocation inside the object of one record: cJSON's `Add*`
  functions leave out the key then, and `JsonDocument` counts the record only.
- The platform calls themselves (registry, sysctl, IOKit, `/dev/xsvc`,
  `mmap_device_memory`), which appear as steps that succeed or fail. The window
  arithmetic of the BSD and Linux mappings is one such step.
- cJSON (vendored), tests, fuzzers, build files.
