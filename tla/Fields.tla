------------------------------- MODULE Fields -------------------------------
(***************************************************************************)
(* How a getter fills one member of a parsed record.                       *)
(*                                                                         *)
(* A layout maps each member of a record to its placement: where the getter*)
(* reads it, how many bytes, from which SMBIOS version on, and what makes  *)
(* it ABSENT although its bytes are there.  The modules RecordLayouts*     *)
(* give the layout of every structure type; Status says which              *)
(* lazybiosFieldStatus_t the getter leaves for a member of a record r:     *)
(*   r.version  the SMBIOS version of the entry point, <<major, minor>>    *)
(*   r.length   the structure's length, clamped to the table               *)
(*   r.value    what its count and element-length bytes say                *)
(*   r.special  the members whose bytes hold the value for "not given"     *)
(*   r.missing  the members whose string number names no string            *)
(***************************************************************************)
EXTENDS Naturals, FiniteSets, Sequences

ABSENT      == "absent"
PRESENT     == "present"
UNREACHABLE == "unreachable"
Statuses    == {ABSENT, PRESENT, UNREACHABLE}

(* Mutant: the minor version alone decides. *)
MinorOnly(v, w) == v[2] >= w[2]

(* lazybiosIsVersionPlus *)
IsVersionPlus(v, w) == v[1] > w[1] \/ (v[1] = w[1] /\ v[2] >= w[2])

(* The test of every READ macro: the member's bytes are in the record. *)
Inside(at, width, length) == at + width <= length

-----------------------------------------------------------------------------
(* Placements.                                                             *)

Read ==
  [kind |-> "number", at |-> 0, width |-> 1,
   since |-> <<0, 0>>, below |-> UNREACHABLE,   \* version gate, status before
   maybe |-> FALSE,          \* ABSENT when its own bytes are special
   void |-> {},              \* ABSENT when all of these are special
   when |-> "", other |-> ABSENT,     \* meaningful only when this is special
   after |-> "", head |-> 0,          \* placed behind this array
   uncounted |-> ABSENT, invalid |-> ABSENT,
   count |-> "", unitOf |-> "", least |-> 0, empty |-> PRESENT]

Number(at, w) == [Read EXCEPT !.at = at, !.width = w]
U8(at)        == Number(at, 1)
U16(at)       == Number(at, 2)
U32(at)       == Number(at, 4)
U64(at)       == Number(at, 8)
Str(at)       == [Read EXCEPT !.kind = "string", !.at = at]
Bytes(at, n)  == [Read EXCEPT !.kind = "bytes", !.at = at, !.width = n]

(* At most n bytes, however many the record still holds; at least one. *)
UpTo(at, n)   == [Read EXCEPT !.kind = "upto", !.at = at, !.width = n]

(* Whatever follows `at`, a whole number of elements of `unit` bytes. *)
Rest(at, unit) == [Read EXCEPT !.kind = "rest", !.at = at, !.width = unit]

(* The number of such elements, which reads none of them. *)
Tally(at, unit) == [Rest(at, unit) EXCEPT !.kind = "tally"]

(* As many elements of `unit` bytes as fit behind `at`, at least one. *)
Elements(at, unit) == [Rest(at, unit) EXCEPT !.kind = "elements"]

(* `count` elements of `unit` bytes, or of as many as `unitOf` says. *)
Items(count, at, unit) ==
  [Read EXCEPT !.kind = "items", !.count = count, !.at = at, !.width = unit]
Sized(count, unitOf, least, at) ==
  [Items(count, at, least) EXCEPT !.unitOf = unitOf, !.least = least]

(* The first `count` strings of the string set. *)
Strings(count) == [Read EXCEPT !.kind = "strings", !.count = count]

(* A value worked out from the length alone once it reaches `at` bytes. *)
Derived(at)      == [Read EXCEPT !.kind = "derived", !.at = at, !.width = 0]

Maybe(f)         == [f EXCEPT !.maybe = TRUE]
Void(names, f)   == [f EXCEPT !.void = names]
When(x, other, f) == [f EXCEPT !.when = x, !.other = other]
NoneAbsent(f)    == [f EXCEPT !.empty = ABSENT]
Headed(n, f)     == [f EXCEPT !.head = n]

(* Modifiers of a whole group of members: behind an array, from a version. *)
After(array, uncounted, invalid, layout) ==
  [x \in DOMAIN layout |->
     [layout[x] EXCEPT !.after = array, !.uncounted = uncounted,
                       !.invalid = invalid]]

Since(major, minor, layout) ==
  [x \in DOMAIN layout |-> [layout[x] EXCEPT !.since = <<major, minor>>]]

(* The getter leaves the members of an older version at calloc's zero. *)
Unmarked(layout) ==
  [x \in DOMAIN layout |-> [layout[x] EXCEPT !.below = ABSENT]]

-----------------------------------------------------------------------------
(* Where the members of a record are.                                      *)

Count(f, r) == r.value[f.count]
Unit(f, r)  == IF f.unitOf = "" THEN f.width ELSE r.value[f.unitOf]

(* The bytes an array takes. *)
Size(f, r)  == Count(f, r) * Unit(f, r)

(* Mutants: a member behind an array is where it is without one, or behind  *)
(* the byte of its count once more.                                        *)
StartUnmoved(L, x, r) == L[x].at
StartPastCount(L, x, r) ==
  L[x].at + (IF L[x].after = "" THEN 0 ELSE Size(L[L[x].after], r) + 1)

Start(L, x, r) ==
  L[x].at + (IF L[x].after = "" THEN 0 ELSE Size(L[L[x].after], r))

Reached(f, r) == IsVersionPlus(r.version, f.since)

(* The member was read: its bytes are in the record, its version reached. *)
Here(L, x, r) ==
  Reached(L[x], r) /\ Inside(Start(L, x, r), L[x].width, r.length)

(* The members that size the array x were read. *)
Counted(L, x, r) ==
  \A y \in {L[x].count, L[x].unitOf} \cap DOMAIN L : Here(L, y, r)

Fits(L, x, r) == Inside(Start(L, x, r), Size(L[x], r), r.length)

(* The array x does not hide what follows it. *)
Whole(L, x, r) ==
  /\ Counted(L, x, r) /\ Fits(L, x, r)
  /\ IF Count(L[x], r) = 0
     THEN L[x].unitOf # "" => Unit(L[x], r) = 0
     ELSE Unit(L[x], r) >= L[x].least

(* Mutant: the array's own bounds are not looked at. *)
ArrayStatusUnbounded(L, x, r) ==
  IF ~Counted(L, x, r) THEN ABSENT
  ELSE IF Count(L[x], r) = 0 THEN L[x].empty
  ELSE PRESENT

(* Mutant: an array of none is PRESENT, whichever type it is of. *)
ArrayStatusNoneHeld(L, x, r) ==
  IF ~Counted(L, x, r) \/ ~Fits(L, x, r) THEN ABSENT
  ELSE IF Count(L[x], r) # 0 /\ Unit(L[x], r) < L[x].least THEN ABSENT
  ELSE PRESENT

(* The status of an array that its version and position allow. *)
ArrayStatus(L, x, r) ==
  IF ~Counted(L, x, r) \/ ~Fits(L, x, r) THEN ABSENT
  ELSE IF Count(L[x], r) = 0 THEN L[x].empty
  ELSE IF Unit(L[x], r) < L[x].least THEN ABSENT
  ELSE PRESENT

(* The member's own bytes, or all those it depends on, say "not given". *)
Blank(L, x, r) ==
  \/ L[x].maybe /\ x \in r.special
  \/ L[x].void # {} /\ L[x].void \subseteq r.special

(* The status of a member whose version the table has reached. *)
ReadStatus(L, x, r) ==
  LET f == L[x]
      found == x \notin r.missing
      inside == Inside(Start(L, x, r), f.width, r.length)
  IN  IF \/ /\ f.kind \in {"number", "bytes", "derived", "elements"}
            /\ inside /\ ~Blank(L, x, r)
         \/ f.kind = "string" /\ inside /\ found /\ ~Blank(L, x, r)
         \/ f.kind = "upto" /\ Inside(f.at, 1, r.length)
         \/ /\ f.kind \in {"rest", "tally"}
            /\ f.at <= r.length /\ (r.length - f.at) % f.width = 0
         \/ /\ f.kind = "strings" /\ Counted(L, x, r)
            /\ Count(f, r) = 0 \/ found
         \/ f.kind = "items" /\ ArrayStatus(L, x, r) = PRESENT
      THEN PRESENT ELSE ABSENT

(* The member x says, in bytes that are there, that another one holds. *)
Says(L, x, r) == x \in r.special /\ Here(L, x, r)

(* What the getter leaves in field_status for the member x of a record r.  *)
Status(L, x, r) ==
  LET f == L[x]
  IN  IF f.after # "" /\ Reached(L[f.after], r) /\ ~Counted(L, f.after, r)
        THEN f.uncounted
      ELSE IF ~Reached(f, r) THEN f.below
      ELSE IF /\ f.after # ""
              /\ ~Whole(L, f.after, r) \/ Size(L[f.after], r) < f.head
        THEN f.invalid
      ELSE IF f.when # "" /\ ~Says(L, f.when, r) THEN f.other
      ELSE ReadStatus(L, x, r)

(* The n bytes from `from` on. *)
Run(from, n) == from .. from + n - 1

(* Mutant: a member of so many bytes takes what the record still holds. *)
ReadsToEnd(L, x, r) ==
  LET f == L[x]
      from == Start(L, x, r)
  IN  CASE f.kind \in {"number", "string"} -> Run(from, f.width)
        [] f.kind = "items" -> Run(from, Size(f, r))
        [] f.kind = "upto"  ->
             {b \in Run(from, f.width) : b < r.length}
        [] f.kind \in {"rest", "bytes"} -> f.at .. r.length - 1
        [] f.kind = "elements" ->
             Run(from, f.width * ((r.length - f.at) \div f.width))
        [] OTHER            -> {}

(* The bytes of the record the getter reads to fill a PRESENT member. *)
Reads(L, x, r) ==
  LET f == L[x]
      from == Start(L, x, r)
  IN  CASE f.kind \in {"number", "string", "bytes"} -> Run(from, f.width)
        [] f.kind = "items" -> Run(from, Size(f, r))
        [] f.kind = "upto"  ->
             {b \in Run(from, f.width) : b < r.length}
        [] f.kind = "rest"  -> f.at .. r.length - 1
        [] f.kind = "elements" ->
             Run(from, f.width * ((r.length - f.at) \div f.width))
        [] OTHER            -> {}

=============================================================================
