----------------------------- MODULE EntryLoad -----------------------------
(***************************************************************************)
(* From the bytes a loader gets to a parsed entry point and a located      *)
(* table, in the four ways the library does it:                            *)
(*   "devmem"   lazybiosDevMem scans a window of physical memory, copies   *)
(*              the entry point, parses the copy and uses its fields;      *)
(*   "legacy"   legacy_load_from_device scans likewise, but takes the      *)
(*              table from lazybiosGetSMBIOSTableLocation before parsing;  *)
(*   "file"     lazybiosSingleFile reads a merged file;                    *)
(*   "windows"  lazybiosLoadWindowsRawSMBIOSData builds the entry point.   *)
(* Every stage inspects the bytes again, on a copy and with another        *)
(* length.  Reading the table itself is left to module Context.            *)
(***************************************************************************)
EXTENDS EntryPoint

CONSTANT Inputs        (* pairs of a way and the bytes it is given         *)

Ways == {"devmem", "legacy", "file", "windows"}

(* ReadLE gives every number from Huge (16 MiB) on as Huge, so the bytes   *)
(* given are fewer: no SMBIOS table comes near that.                       *)
ASSUME InputsAssumption ==
  /\ Inputs \subseteq Ways \X Seq(0 .. 255)
  /\ \A input \in Inputs : Len(input[2]) < Huge

VARIABLES
  way,
  image,         (* the window, the file, or Windows' raw data             *)
  pc,
  i,             (* position of the scan                                   *)
  at,            (* where the entry point was found                        *)
  entry,         (* the bytes handed to lazybiosParseEntry                 *)
  parsed,        (* what it kept, or Nothing                               *)
  table          (* the located table, or Nothing                          *)

vars == <<way, image, pc, i, at, entry, parsed, table>>

Nothing == [tag |-> "none"]

Init ==
  /\ \E input \in Inputs : way = input[1] /\ image = input[2]
  /\ pc = IF way \in {"devmem", "legacy"} THEN "scan" ELSE way
  /\ i = 0
  /\ at = 0
  /\ entry = << >>
  /\ parsed = Nothing
  /\ table = Nothing

-----------------------------------------------------------------------------
(* lazybiosFindSMBIOSEntryPoint *)

Left == SubSeq(image, i + 1, Len(image))

Candidate == Valid(Left)

ScanFinds ==
  /\ pc = "scan"
  /\ Len(Left) >= Len(SMBIOS2_ANCHOR)
  /\ Candidate
  /\ at' = i
  /\ entry' = SubSeq(Left, 1, Inspect(Left).length)
  /\ pc' = IF way = "legacy" THEN "locate" ELSE "parse"
  /\ UNCHANGED <<way, image, i, parsed, table>>

(* Mutant: a rejected candidate's length is the distance to the next one. *)
ScanStepByLength ==
  /\ pc = "scan"
  /\ ~Candidate
  /\ Len(Left) >= Len(SMBIOS2_ANCHOR) + 16
  /\ i' = i + Inspect(Left).length
  /\ UNCHANGED <<way, image, pc, at, entry, parsed, table>>

(* Mutant: the paragraphs a corrupt candidate covers are skipped. *)
ScanStepOver ==
  /\ pc = "scan"
  /\ ~Candidate
  /\ Len(Left) >= Len(SMBIOS2_ANCHOR) + 16
  /\ i' = i + 16 * (1 + Inspect(Left).length \div 16)
  /\ UNCHANGED <<way, image, pc, at, entry, parsed, table>>

ScanStep ==
  /\ pc = "scan"
  /\ ~Candidate
  /\ Len(Left) >= Len(SMBIOS2_ANCHOR) + 16
  /\ i' = i + 16
  /\ UNCHANGED <<way, image, pc, at, entry, parsed, table>>

ScanGivesUp ==
  /\ pc = "scan"
  /\ Len(Left) < Len(SMBIOS2_ANCHOR) \/ ~Candidate
  /\ Len(Left) < Len(SMBIOS2_ANCHOR) + 16
  /\ pc' = "failed"
  /\ UNCHANGED <<way, image, i, at, entry, parsed, table>>

-----------------------------------------------------------------------------
(* Where the table is *)

LocateLegacy ==
  /\ pc = "locate"
  /\ IF HasTableLocation(entry)
     THEN table' = TableLocation(entry) /\ pc' = "parse"
     ELSE table' = table /\ pc' = "failed"
  /\ UNCHANGED <<way, image, i, at, entry, parsed>>

(* lazybiosSingleFile reads five bytes, and takes the size of the entry    *)
(* point from the fourth.                                                  *)
SniffedLength ==
  CASE ByteAt(image, 3) = 51 -> SMBIOS3_ENTRY_POINT_LENGTH
    [] ByteAt(image, 3) = 95 -> SMBIOS2_ENTRY_POINT_LENGTH
    [] OTHER                 -> Huge

FileUsable ==
  /\ Len(image) >= 5
  /\ SniffedLength <= Len(image)
  /\ HasLayout(SubSeq(image, 1, SniffedLength), Len(image))

ReadSingleFile ==
  /\ pc = "file"
  /\ IF FileUsable
     THEN LET head == SubSeq(image, 1, SniffedLength)
          IN  /\ entry' = SubSeq(head, 1, Inspect(head).length)
              /\ table' = Layout(head, Len(image))
              /\ pc' = "parse"
     ELSE UNCHANGED <<entry, table>> /\ pc' = "failed"
  /\ UNCHANGED <<way, image, i, at, parsed>>

ConvertWindows ==
  /\ pc = "windows"
  /\ IF WindowsUsable(image)
     THEN /\ entry' = MakeEntry(image)
          /\ table' = [from |-> WindowsHeader, length |-> ReadLE(image, 4, 4)]
          /\ pc' = "parse"
     ELSE UNCHANGED <<entry, table>> /\ pc' = "failed"
  /\ UNCHANGED <<way, image, i, at, parsed>>

-----------------------------------------------------------------------------
(* lazybiosParseEntry, on the bytes handed over; lazybiosDevMem then takes *)
(* the table from what was parsed, whatever its address and length are.    *)

Parse ==
  /\ pc = "parse"
  /\ IF Accepted(entry)
     THEN /\ parsed' = ParsedEntry(entry)
          /\ table' = IF way = "devmem" THEN TableLocation(entry) ELSE table
          /\ pc' = "done"
     ELSE UNCHANGED <<parsed, table>> /\ pc' = "failed"
  /\ UNCHANGED <<way, image, i, at, entry>>

Next ==
  \/ ScanFinds \/ ScanStep \/ ScanGivesUp
  \/ LocateLegacy \/ ReadSingleFile \/ ConvertWindows
  \/ Parse

(* A loader that is running keeps running. *)
Spec == Init /\ [][Next]_vars /\ WF_vars(Next)

-----------------------------------------------------------------------------
(* Entry points, said without the code's functions *)

Paragraphs == {o \in 0 .. Len(image) - 1 : o % 16 = 0}

SumsToZero(a, z) == ChecksumValid(image, a, z)

(* A complete entry point with good checksums stands at offset o. *)
EntryAt(o) ==
  \/ /\ HasAt(image, o, SMBIOS3_ANCHOR)
     /\ \E n \in 24 .. 255 :
          /\ o + n <= Len(image) /\ ByteAt(image, o + 6) = n
          /\ SumsToZero(o, o + n)
  \/ /\ HasAt(image, o, SMBIOS2_ANCHOR)
     /\ HasAt(image, o + 16, SMBIOS2_INTERMEDIATE_ANCHOR)
     /\ \E n \in 31 .. 255 :
          /\ o + n <= Len(image) /\ ByteAt(image, o + 5) = n
          /\ SumsToZero(o, o + n)
     /\ SumsToZero(o + 16, o + 31)

-----------------------------------------------------------------------------
(* Properties *)

TypeOK ==
  /\ <<way, image>> \in Inputs
  /\ pc \in {"scan", "locate", "file", "windows", "parse", "done", "failed"}
  /\ i \in Nat /\ at \in Nat
  /\ entry \in Seq(0 .. 255)
  /\ parsed # Nothing =>
       parsed \in [tag : {"2x", "3x"}, major : 0 .. 255, minor : 0 .. 255,
                   address : 0 .. Huge, length : 0 .. Huge]
  /\ table # Nothing => table \in [from : 0 .. Huge, length : 0 .. Huge]

(* The scan finds the first entry point that is complete and checksummed,  *)
(* and gives up only when there is none on any paragraph of the window: a  *)
(* candidate that is cut off or corrupt neither ends it nor hides the next *)
(* one (data_sources.dox: "Invalid, truncated, or checksum-failing         *)
(* candidates are skipped while the scan continues").                      *)
ScanFindsFirst ==
  way \in {"devmem", "legacy"} =>
    /\ entry # << >> =>
         /\ EntryAt(at) /\ at \in Paragraphs
         /\ \A o \in Paragraphs : EntryAt(o) => at <= o
         /\ entry = SubSeq(image, at + 1, at + Len(entry))
    /\ pc = "failed" /\ entry = << >> => \A o \in Paragraphs : ~EntryAt(o)

(* What one stage has accepted lazybiosParseEntry accepts again, although  *)
(* it sees a copy that ends where the entry point says it ends: no loader  *)
(* fails after it has copied an entry point into the context for that.     *)
AcceptedStaysAccepted == [][pc = "parse" => pc' = "done"]_vars

(* The table of a merged file or of Windows' data lies inside it, behind   *)
(* the entry point or the header, and is not empty.                        *)
TableInside ==
  /\ TypeOK
  /\ way \in {"file", "windows"} /\ table # Nothing =>
       /\ table.length > 0
       /\ table.from >= (IF way = "file" THEN Len(entry) ELSE WindowsHeader)
       /\ table.from + table.length <= Len(image)

(* The entry point built for Windows passes both checksums, and reading it *)
(* back gives the version and the table length that Windows returned.      *)
WindowsRoundTrip ==
  way = "windows" /\ pc = "done" =>
    /\ Valid(entry)
    /\ parsed.major = ByteAt(image, 1) /\ parsed.minor = ByteAt(image, 2)
    /\ parsed.length = table.length
    /\ (parsed.tag = "3x") = (ByteAt(image, 1) >= 3)

(* Every load ends. *)
LoadEnds == <>(pc \in {"done", "failed"})

=============================================================================
