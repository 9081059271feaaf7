---------------------------- MODULE RecordParse ----------------------------
(***************************************************************************)
(* lazybiosGetTypeN parses one structure, as firmware that knows more and  *)
(* more of its type reports it: a record gets one more byte, or the table  *)
(* a newer version, and is parsed again.                                   *)
(***************************************************************************)
EXTENDS RecordLayouts, RecordStructs

CONSTANTS
  Parsed,        \* the types that are parsed
  Versions(_),   \* the SMBIOS versions of the table, for a type
  Contents(_)    \* what the structures of a type may hold, see module Fields

VARIABLES
  pc, type, record,
  status         \* field_status of the record the getter made of it

vars == <<pc, type, record, status>>

HeaderBytes == 4

MembersOf(t) == Members(Structs[t])

Fixed == {"number", "string", "bytes", "upto"}
Kinds == Fixed \union {"items", "strings", "rest", "tally", "elements",
                       "derived"}

(* What every getter keeps to when it places a member of a record. *)
PlacementOK(L, x) ==
  LET f == L[x]
  IN  /\ x # "" /\ f.kind \in Kinds
      /\ {f.at, f.width, f.least, f.head} \subseteq Nat
      /\ f.since \in Nat \X Nat
      /\ {f.below, f.uncounted, f.invalid, f.other}
           \subseteq {ABSENT, UNREACHABLE}
      /\ f.empty \in {ABSENT, PRESENT}
      /\ f.kind # "strings" => f.at >= HeaderBytes
      /\ f.kind \in {"rest", "tally", "elements"} =>
           f.width > 0 /\ f.after = ""
      /\ f.when # "" => f.when \in DOMAIN L
      /\ f.after # "" => /\ f.after \in DOMAIN L
                         /\ L[f.after].kind = "items"
                         /\ L[f.after].after = ""

(* Members that share a byte: lazybiosGetOemHpType204 reads one string     *)
(* number for two of them.                                                 *)
Sharing == {"enclosure_serial", "server_bay"}

(* y is placed behind all of x: behind its last byte, or, when x is an     *)
(* array, behind however many elements it has.                             *)
Clears(L, x, y) ==
  /\ L[x].at <= L[y].at
  /\ \/ /\ L[x].kind \in Fixed
        /\ L[x].after \in {"", L[y].after}
        /\ L[x].at + L[x].width <= L[y].at
     \/ L[x].kind = "items" /\ L[y].after = x

HasBytes(L, x) == L[x].kind \notin {"strings", "tally", "derived"}

LayoutOK(L) ==
  /\ \A x \in DOMAIN L : PlacementOK(L, x)
  /\ \A x, y \in {z \in DOMAIN L : HasBytes(L, z)} :
       x # y /\ ~({x, y} \subseteq Sharing) =>
         Clears(L, x, y) \/ Clears(L, y, x)

(* The only bytes a getter passes over: type 13 has 15 reserved ones. *)
Reserved(t) == IF t = "Type13" THEN 6 .. 20 ELSE {}

(* Where the members are that are placed behind the array a, or, for "",   *)
(* behind none, while the arrays are empty.                                *)
PlacesOf(L, a) ==
  UNION {Run(L[y].at, L[y].width) :
           y \in {z \in DOMAIN L : L[z].kind \in Fixed /\ L[z].after = a}}

(* No getter leaves a gap before a member: the members before it, or those *)
(* between the array and it, are next to each other.                       *)
PackedOK(t, L) ==
  \A x \in DOMAIN L :
    /\ L[x].after = "" =>
         HeaderBytes .. L[x].at - 1
           \subseteq Reserved(t) \union PlacesOf(L, "")
    /\ L[x].after # "" =>
         L[L[x].after].at .. L[x].at - 1 \subseteq PlacesOf(L, L[x].after)
    /\ L[x].kind \in {"upto", "strings"} => L[x].after = ""
    /\ L[x].kind = "strings" => L[x].at = 0

(* The counts and element lengths the firmware states are numbers. *)
SizesOK(L, r) ==
  \A x \in DOMAIN L :
    /\ Unit(L[x], r) \in Nat
    /\ L[x].kind \in {"items", "strings"} => Count(L[x], r) \in Nat

RecordOK(t, r) ==
  /\ r = [version |-> r.version, length |-> r.length, value |-> r.value,
          special |-> r.special, missing |-> r.missing]
  /\ r.version \in Versions(t) /\ r.length \in Nat
  /\ \A v \in Versions(t) : SizesOK(Layout(t, v), r)

ASSUME LayoutsAssumption ==
  \A t \in Parsed : \A v \in Versions(t) :
    /\ v \in Nat \X Nat
    /\ LayoutOK(Layout(t, v)) /\ PackedOK(t, Layout(t, v))

(* The members that are copied as they are.  One, rom_size, is wider in    *)
(* the struct than its byte; one with a block is as wide as the block.     *)
Copied(t, L) ==
  {x \in DOMAIN L : L[x].kind \in {"number", "string", "bytes"}}
    \ ({"rom_size"} \union DOMAIN Structs[t].heap)

(* A getter takes as many bytes for them as the struct has.                *)
FitOK(t, L) ==
  \A x \in Copied(t, L) : L[x].width = Bytewide(Structs[t], x)

ASSUME FitAssumption ==
  \A t \in Parsed : \A v \in Versions(t) : FitOK(t, Layout(t, v))

ASSUME ContentsAssumption ==
  \A t \in Parsed : \A r \in Contents(t) : RecordOK(t, r)

TheLayout == Layout(type, record.version)

(* The bytes a member of the longest record ends at. *)
End(L, x, r) ==
  Start(L, x, r) + (IF L[x].kind = "items" THEN Size(L[x], r) ELSE L[x].width)

(* The structure is complete, and has a byte that is nobody's. *)
Complete ==
  \A x \in DOMAIN TheLayout : End(TheLayout, x, record) < record.length

Init ==
  /\ pc = "table" /\ type \in Parsed
  /\ record \in Contents(type) /\ record.length = HeaderBytes
  /\ status = [x \in MembersOf(type) |-> ABSENT]

(* The body of the getter: ABSENT is what calloc leaves. *)
Parse ==
  /\ pc = "table"
  /\ status' = [x \in MembersOf(type) |->
                  IF x \in DOMAIN TheLayout THEN Status(TheLayout, x, record)
                  ELSE ABSENT]
  /\ pc' = "parsed"
  /\ UNCHANGED <<type, record>>

(* The same structure with one byte more. *)
Longer ==
  /\ pc = "parsed" /\ ~Complete
  /\ record' = [record EXCEPT !.length = @ + 1]
  /\ pc' = "table"
  /\ UNCHANGED <<type, status>>

(* The same bytes in a table of a newer version. *)
Newer ==
  /\ pc = "parsed"
  /\ \E v \in Versions(type) :
       /\ \/ v[1] > record.version[1]
          \/ v[1] = record.version[1] /\ v[2] > record.version[2]
       /\ Layout(type, v) = TheLayout
       /\ record' = [record EXCEPT !.version = v]
  /\ pc' = "table"
  /\ UNCHANGED <<type, status>>

Next == Parse \/ Longer \/ Newer

Spec == Init /\ [][Next]_vars

-----------------------------------------------------------------------------
TypeOK ==
  /\ pc \in {"table", "parsed"}
  /\ record.length \in Nat
  /\ status \in [MembersOf(type) -> Statuses]

IsPresent(x) == pc = "parsed" /\ status[x] = PRESENT

BytesOf(x) == Reads(TheLayout, x, record)

(* The getter reads no byte behind the record: a member whose bytes, or    *)
(* whose array with the count and the element length the firmware states,  *)
(* reach past it is not PRESENT.                                           *)
PresentBytesInside ==
  \A x \in MembersOf(type) :
    IsPresent(x) => BytesOf(x) \subseteq HeaderBytes .. record.length - 1

(* No byte is taken for two members, wherever an array of the record moves *)
(* those behind it.                                                        *)
NoByteReadTwice ==
  \A x, y \in {z \in MembersOf(type) : IsPresent(z)} :
    x # y /\ ~({x, y} \subseteq Sharing) =>
      BytesOf(x) \cap BytesOf(y) = {}

(* A member is filled from as many bytes as the struct has for it,         *)
(* wherever an array of the record moves it and wherever the record ends.  *)
ReadsFitMembers ==
  \A x \in Copied(type, TheLayout) \cap MembersOf(type) :
    IsPresent(x) => Cardinality(BytesOf(x)) = Bytewide(Structs[type], x)

(* Up to the last member that is PRESENT each byte is some member's, also  *)
(* behind an array: none begins where the bytes of another have not ended. *)
NoByteSkipped ==
  \A x \in MembersOf(type) : IsPresent(x) =>
    HeaderBytes .. Start(TheLayout, x, record) - 1 \subseteq
      Reserved(type) \union
      UNION {BytesOf(y) : y \in DOMAIN TheLayout}

(* Members that have to be a whole number of elements. *)
InElements(x) ==
  x \in DOMAIN TheLayout /\ TheLayout[x].kind \in {"rest", "tally"}

(* A longer record still has what a shorter one had: no member that was    *)
(* read is lost because a later one, or an array before it, now is there.  *)
PresentKept ==
  [][\A x \in MembersOf(type) :
       status[x] = PRESENT /\ ~InElements(x) => status'[x] = PRESENT]_vars

=============================================================================
