---------------------------- MODULE RecordProofs ----------------------------
(***************************************************************************)
(* Proofs about RecordParse, for every layout that keeps to LayoutOK and   *)
(* PackedOK, every SMBIOS version, every length of a record and everything *)
(* its counts and element lengths may say; and about RecordExport, for     *)
(* every set of writes that keeps to WritesOK.                             *)
(***************************************************************************)
EXTENDS RecordExport, Integers, FiniteSetTheorems, TLAPS

(* What the lemmas ask of a layout and a record.                           *)
Parsable(L, r) ==
  /\ \A x \in DOMAIN L : PlacementOK(L, x)
  /\ SizesOK(L, r)
  /\ r.version \in Nat \X Nat /\ r.length \in Nat

-----------------------------------------------------------------------------
(* Arithmetic and sizes.                                                   *)

LEMMA ProductNat ==
  ASSUME NEW m \in Nat, NEW n \in Nat PROVE m * n \in Nat
OBVIOUS

(* As many elements as fit do fit. *)
LEMMA QuotientFits ==
  ASSUME NEW n \in Nat, NEW w \in Nat, w > 0
  PROVE  /\ n \div w \in Nat
         /\ w * (n \div w) \in Nat
         /\ w * (n \div w) <= n
OBVIOUS

LEMMA SizeNat ==
  ASSUME NEW L, NEW r, Parsable(L, r), NEW x \in DOMAIN L,
         L[x].kind = "items"
  PROVE  Size(L[x], r) \in Nat
<1>1. Count(L[x], r) \in Nat /\ Unit(L[x], r) \in Nat
  BY DEF Parsable, SizesOK
<1> QED BY <1>1, ProductNat DEF Size

(* A member starts at its place, or behind an array. *)
LEMMA StartIs ==
  ASSUME NEW L, NEW r, Parsable(L, r), NEW x \in DOMAIN L
  PROVE  /\ L[x].at \in Nat /\ L[x].width \in Nat
         /\ Start(L, x, r) \in Nat
         /\ L[x].after = "" => Start(L, x, r) = L[x].at
         /\ L[x].after # "" =>
              /\ Size(L[L[x].after], r) \in Nat
              /\ Start(L, x, r) = L[x].at + Size(L[L[x].after], r)
<1>1. PlacementOK(L, x)
  BY DEF Parsable
<1>2. L[x].at \in Nat /\ L[x].width \in Nat
  BY <1>1 DEF PlacementOK
<1>3. L[x].after # "" => Size(L[L[x].after], r) \in Nat
  BY <1>1, SizeNat DEF PlacementOK
<1>4. CASE L[x].after = ""
  <2>1. Start(L, x, r) = L[x].at + 0
    BY <1>4 DEF Start
  <2>2. Start(L, x, r) = L[x].at
    BY <1>2, <2>1
  <2> QED BY <1>2, <1>4, <2>2
<1>5. CASE L[x].after # ""
  <2>1. Start(L, x, r) = L[x].at + Size(L[L[x].after], r)
    BY <1>5 DEF Start
  <2>2. Size(L[L[x].after], r) \in Nat
    BY <1>3, <1>5
  <2> HIDE DEF Size
  <2>3. Start(L, x, r) \in Nat
    BY <1>2, <2>1, <2>2
  <2> QED BY <1>2, <1>5, <2>1, <2>2, <2>3, Zenon
<1> QED BY <1>4, <1>5

-----------------------------------------------------------------------------
(* The bytes that are read.                                                *)

LEMMA StatusesDiffer == PRESENT # ABSENT /\ PRESENT # UNREACHABLE
BY DEF PRESENT, ABSENT, UNREACHABLE

(* What ReadStatus has looked at, kind by kind, before it says PRESENT.    *)
LEMMA ReadStatusIs ==
  ASSUME NEW L, NEW r, NEW x, ReadStatus(L, x, r) = PRESENT
  PROVE  /\ L[x].kind \in {"number", "string", "bytes", "elements",
                           "derived"} =>
              Inside(Start(L, x, r), L[x].width, r.length) /\ ~Blank(L, x, r)
         /\ L[x].kind = "string" => x \notin r.missing
         /\ L[x].kind = "upto" => Inside(L[x].at, 1, r.length)
         /\ L[x].kind \in {"rest", "tally"} => L[x].at <= r.length
         /\ L[x].kind = "strings" =>
              Counted(L, x, r) /\ (Count(L[x], r) = 0 \/ x \notin r.missing)
         /\ L[x].kind = "items" => ArrayStatus(L, x, r) = PRESENT
BY StatusesDiffer DEF ReadStatus

LEMMA ArrayStatusIs ==
  ASSUME NEW L, NEW r, NEW x, ArrayStatus(L, x, r) = PRESENT
  PROVE  /\ Counted(L, x, r) /\ Fits(L, x, r)
         /\ \/ Count(L[x], r) = 0 /\ L[x].empty = PRESENT
            \/ Count(L[x], r) # 0 /\ ~(Unit(L[x], r) < L[x].least)
BY StatusesDiffer DEF ArrayStatus

(* The first of the two lemmas every getter lives by: what is PRESENT was  *)
(* read from bytes of the record.                                          *)
LEMMA PresentReads ==
  ASSUME NEW L, NEW r, Parsable(L, r), NEW x \in DOMAIN L,
         ReadStatus(L, x, r) = PRESENT
  PROVE  Reads(L, x, r) \subseteq HeaderBytes .. r.length - 1
<1> DEFINE s == Start(L, x, r)
<1>1. s \in Nat /\ L[x].at \in Nat /\ L[x].width \in Nat /\ r.length \in Nat
  BY StartIs DEF Parsable
<1>2. PlacementOK(L, x)
  BY DEF Parsable
<1>3. L[x].kind \in Kinds
  BY <1>2 DEF PlacementOK
<1>4. ASSUME L[x].kind # "strings" PROVE s >= HeaderBytes
  <2>1. L[x].at >= HeaderBytes
    BY <1>2, <1>4 DEF PlacementOK
  <2>2. s >= L[x].at
    <3>1. CASE L[x].after = ""
      <4>1. s = L[x].at
        BY <3>1, StartIs
      <4> QED BY <1>1, <4>1
    <3>2. CASE L[x].after # ""
      <4> DEFINE n == Size(L[L[x].after], r)
      <4>1. n \in Nat /\ s = L[x].at + n
        BY <3>2, StartIs
      <4> HIDE DEF n, s
      <4> QED BY <1>1, <4>1
    <3> QED BY <3>1, <3>2
  <2> QED BY <1>1, <2>1, <2>2 DEF HeaderBytes
<1>5. CASE L[x].kind \in {"number", "string", "bytes"}
  <2>1. Reads(L, x, r) = s .. s + L[x].width - 1
    BY <1>5 DEF Reads, Run
  <2>2. s + L[x].width <= r.length
    BY <1>5, ReadStatusIs DEF Inside
  <2> QED BY <1>1, <1>4, <1>5, <2>1, <2>2 DEF HeaderBytes
<1>6. CASE L[x].kind = "items"
  <2>1. Reads(L, x, r) = s .. s + Size(L[x], r) - 1
    BY <1>6 DEF Reads, Run
  <2>2. s + Size(L[x], r) <= r.length
    BY <1>6, ReadStatusIs, ArrayStatusIs DEF Fits, Inside
  <2>3. Size(L[x], r) \in Nat
    BY <1>6, SizeNat
  <2> QED BY <1>1, <1>4, <1>6, <2>1, <2>2, <2>3 DEF HeaderBytes
<1>7. CASE L[x].kind = "upto"
  <2>1. Reads(L, x, r) = {b \in s .. s + L[x].width - 1 : b < r.length}
    BY <1>7 DEF Reads, Run
  <2> QED BY <1>1, <1>4, <1>7, <2>1 DEF HeaderBytes
<1>8. CASE L[x].kind = "rest"
  <2>1. Reads(L, x, r) = L[x].at .. r.length - 1
    BY <1>8 DEF Reads, Run
  <2>2. L[x].at >= HeaderBytes
    BY <1>2, <1>8 DEF PlacementOK
  <2> QED BY <1>1, <2>1, <2>2 DEF HeaderBytes
<1>9. CASE L[x].kind = "elements"
  <2> DEFINE n == r.length - L[x].at
             m == L[x].width * (n \div L[x].width)
  <2>1. s = L[x].at /\ L[x].width > 0
    BY <1>2, <1>9, StartIs DEF PlacementOK
  <2>2. Reads(L, x, r) = s .. s + m - 1
    BY <1>9, <2>1 DEF Reads, Run
  <2>3. L[x].at + L[x].width <= r.length
    BY <1>9, <2>1, ReadStatusIs DEF Inside
  <2>4. n \in Nat
    BY <1>1, <2>3
  <2>5. m \in Nat /\ m <= n
    BY <1>1, <2>1, <2>4, QuotientFits
  <2>6. s + m <= r.length
    BY <1>1, <2>1, <2>4, <2>5
  <2> HIDE DEF m
  <2> QED BY <1>1, <1>4, <1>9, <2>2, <2>5, <2>6 DEF HeaderBytes
<1>10. CASE L[x].kind \in {"strings", "tally", "derived"}
  <2>1. Reads(L, x, r) = {}
    BY <1>10 DEF Reads, Run
  <2> QED BY <2>1
<1> QED BY <1>3, <1>5, <1>6, <1>7, <1>8, <1>9, <1>10 DEF Kinds, Fixed

-----------------------------------------------------------------------------
(* Statuses.                                                               *)

LEMMA StatusTyped ==
  ASSUME NEW L, NEW r, NEW x \in DOMAIN L, PlacementOK(L, x)
  PROVE  Status(L, x, r) \in Statuses
<1>1. {L[x].below, L[x].uncounted, L[x].invalid, L[x].other} \subseteq Statuses
  BY DEF PlacementOK, Statuses
<1>2. ReadStatus(L, x, r) \in Statuses
  BY DEF ReadStatus, Statuses
<1> QED BY <1>1, <1>2 DEF Status

(* What Status has looked at before it says PRESENT.                       *)
LEMMA StatusIs ==
  ASSUME NEW L, NEW r, NEW x \in DOMAIN L, PlacementOK(L, x),
         Status(L, x, r) = PRESENT
  PROVE  /\ ReadStatus(L, x, r) = PRESENT
         /\ Reached(L[x], r)
         /\ L[x].after # "" =>
              Whole(L, L[x].after, r) /\ ~(Size(L[L[x].after], r) < L[x].head)
         /\ L[x].when # "" => Says(L, L[x].when, r)
<1>1. PRESENT \notin {L[x].below, L[x].uncounted, L[x].invalid, L[x].other}
  BY StatusesDiffer DEF PlacementOK
<1> QED BY <1>1 DEF Status

(* The same record of newer firmware: with more bytes, or in a table of a  *)
(* newer version.                                                          *)
Extends(q, r) ==
  /\ r.length \in Nat /\ q.length \in Nat /\ r.length <= q.length
  /\ r.version \in Nat \X Nat /\ q.version \in Nat \X Nat
  /\ IsVersionPlus(q.version, r.version)
  /\ q.value = r.value /\ q.special = r.special /\ q.missing = r.missing

LEMMA SizesSame ==
  ASSUME NEW r, NEW q, Extends(q, r)
  PROVE  /\ \A f : Count(f, q) = Count(f, r) /\ Unit(f, q) = Unit(f, r)
         /\ \A f : Size(f, q) = Size(f, r)
         /\ \A L, x : Start(L, x, q) = Start(L, x, r)
         /\ \A L, x : Blank(L, x, q) <=> Blank(L, x, r)
<1>1. \A f : Count(f, q) = Count(f, r) /\ Unit(f, q) = Unit(f, r)
  BY DEF Extends, Count, Unit
<1>2. \A f : Size(f, q) = Size(f, r)
  BY <1>1 DEF Size
<1>3. \A L, x : Start(L, x, q) = Start(L, x, r)
  BY <1>2 DEF Start
<1>4. \A L, x : Blank(L, x, q) <=> Blank(L, x, r)
  BY DEF Extends, Blank
<1> QED BY <1>1, <1>2, <1>3, <1>4

LEMMA InsideKept ==
  ASSUME NEW r, NEW q, Extends(q, r), NEW at \in Nat, NEW width \in Nat,
         Inside(at, width, r.length)
  PROVE  Inside(at, width, q.length)
BY DEF Extends, Inside

LEMMA ReachedKept ==
  ASSUME NEW r, NEW q, Extends(q, r), NEW f, f.since \in Nat \X Nat,
         Reached(f, r)
  PROVE  Reached(f, q)
BY DEF Extends, Reached, IsVersionPlus

(* What was read of a record is read of a longer one.                      *)
LEMMA HereKept ==
  ASSUME NEW L, NEW r, NEW q, Parsable(L, r), Extends(q, r),
         NEW x \in DOMAIN L, Here(L, x, r)
  PROVE  Here(L, x, q)
<1>1. Reached(L[x], q)
  <2>1. L[x].since \in Nat \X Nat
    BY DEF Parsable, PlacementOK
  <2> QED BY <2>1, ReachedKept DEF Here
<1>2. Inside(Start(L, x, r), L[x].width, q.length)
  BY StartIs, InsideKept DEF Here
<1> QED BY <1>1, <1>2, SizesSame DEF Here

LEMMA CountedKept ==
  ASSUME NEW L, NEW r, NEW q, Parsable(L, r), Extends(q, r), NEW x,
         Counted(L, x, r)
  PROVE  Counted(L, x, q)
BY HereKept DEF Counted

LEMMA FitsKept ==
  ASSUME NEW L, NEW r, NEW q, Parsable(L, r), Extends(q, r),
         NEW x \in DOMAIN L, L[x].kind = "items", Fits(L, x, r)
  PROVE  Fits(L, x, q)
<1>1. Inside(Start(L, x, r), Size(L[x], r), q.length)
  BY StartIs, SizeNat, InsideKept DEF Fits
<1> QED BY <1>1, SizesSame DEF Fits

LEMMA WholeKept ==
  ASSUME NEW L, NEW r, NEW q, Parsable(L, r), Extends(q, r),
         NEW x \in DOMAIN L, L[x].kind = "items", Whole(L, x, r)
  PROVE  Whole(L, x, q)
<1>1. Counted(L, x, q) /\ Fits(L, x, q)
  BY CountedKept, FitsKept DEF Whole
<1>2. Count(L[x], q) = Count(L[x], r) /\ Unit(L[x], q) = Unit(L[x], r)
  BY SizesSame
<1> QED BY <1>1, <1>2 DEF Whole

LEMMA ArrayStatusKept ==
  ASSUME NEW L, NEW r, NEW q, Parsable(L, r), Extends(q, r),
         NEW x \in DOMAIN L, L[x].kind = "items",
         ArrayStatus(L, x, r) = PRESENT
  PROVE  ArrayStatus(L, x, q) = PRESENT
<1>1. Counted(L, x, q) /\ Fits(L, x, q)
  BY ArrayStatusIs, CountedKept, FitsKept
<1>2. Count(L[x], q) = Count(L[x], r) /\ Unit(L[x], q) = Unit(L[x], r)
  BY SizesSame
<1> QED BY <1>1, <1>2, ArrayStatusIs DEF ArrayStatus

LEMMA ReadStatusKept ==
  ASSUME NEW L, NEW r, NEW q, Parsable(L, r), Extends(q, r),
         NEW x \in DOMAIN L, L[x].kind \notin {"rest", "tally"},
         ReadStatus(L, x, r) = PRESENT
  PROVE  ReadStatus(L, x, q) = PRESENT
<1>1. PlacementOK(L, x)
  BY DEF Parsable
<1>2. L[x].kind \in Kinds /\ L[x].at \in Nat /\ L[x].width \in Nat
  BY <1>1 DEF PlacementOK
<1>3. /\ Start(L, x, r) \in Nat /\ Start(L, x, q) = Start(L, x, r)
      /\ Blank(L, x, q) <=> Blank(L, x, r)
      /\ Count(L[x], q) = Count(L[x], r) /\ q.missing = r.missing
  <2>1. Start(L, x, r) \in Nat
    BY StartIs
  <2>2. q.missing = r.missing
    BY DEF Extends
  <2> QED BY <2>1, <2>2, SizesSame
<1>4. CASE L[x].kind \in {"number", "string", "bytes", "elements", "derived"}
  <2>1. Inside(Start(L, x, q), L[x].width, q.length)
    BY <1>2, <1>3, <1>4, ReadStatusIs, InsideKept
  <2>2. ~Blank(L, x, q) /\ (L[x].kind = "string" => x \notin q.missing)
    BY <1>3, <1>4, ReadStatusIs
  <2> QED BY <1>4, <2>1, <2>2 DEF ReadStatus
<1>5. CASE L[x].kind = "upto"
  <2>1. Inside(L[x].at, 1, q.length)
    BY <1>2, <1>5, ReadStatusIs, InsideKept
  <2> QED BY <1>5, <2>1 DEF ReadStatus
<1>6. CASE L[x].kind = "strings"
  <2>1. Counted(L, x, q) /\ (Count(L[x], q) = 0 \/ x \notin q.missing)
    BY <1>3, <1>6, ReadStatusIs, CountedKept
  <2> QED BY <1>6, <2>1 DEF ReadStatus
<1>7. CASE L[x].kind = "items"
  <2>1. ArrayStatus(L, x, q) = PRESENT
    BY <1>7, ReadStatusIs, ArrayStatusKept
  <2> QED BY <1>7, <2>1 DEF ReadStatus
<1> QED BY <1>2, <1>4, <1>5, <1>6, <1>7 DEF Kinds, Fixed

(* The second: a longer record, or a newer version, takes nothing away.    *)
LEMMA StatusKept ==
  ASSUME NEW L, NEW r, NEW q, Parsable(L, r), Extends(q, r),
         NEW x \in DOMAIN L, L[x].kind \notin {"rest", "tally"},
         Status(L, x, r) = PRESENT
  PROVE  Status(L, x, q) = PRESENT
<1>1. PlacementOK(L, x)
  BY DEF Parsable
<1>2. ReadStatus(L, x, q) = PRESENT
  BY <1>1, StatusIs, ReadStatusKept
<1>3. Reached(L[x], q)
  <2>1. L[x].since \in Nat \X Nat
    BY <1>1 DEF PlacementOK
  <2> QED BY <1>1, <2>1, StatusIs, ReachedKept
<1>4. ASSUME L[x].after # ""
      PROVE  /\ Whole(L, L[x].after, q)
             /\ ~(Size(L[L[x].after], q) < L[x].head)
  <2>1. L[x].after \in DOMAIN L /\ L[L[x].after].kind = "items"
    BY <1>1, <1>4 DEF PlacementOK
  <2>2. /\ Whole(L, L[x].after, r)
        /\ ~(Size(L[L[x].after], r) < L[x].head)
    BY <1>1, <1>4, StatusIs
  <2>3. Whole(L, L[x].after, q)
    BY <2>1, <2>2, WholeKept
  <2> QED BY <2>2, <2>3, SizesSame
<1>5. ASSUME L[x].when # ""
      PROVE  Says(L, L[x].when, q)
  <2>1. Says(L, L[x].when, r)
    BY <1>1, <1>5, StatusIs
  <2>2. Here(L, L[x].when, q)
    <3>1. L[x].when \in DOMAIN L
      BY <1>1, <1>5 DEF PlacementOK
    <3>2. Here(L, L[x].when, r)
      BY <2>1 DEF Says
    <3> QED BY <3>1, <3>2, HereKept
  <2> QED BY <2>1, <2>2 DEF Says, Extends
<1>6. L[x].after # "" => Counted(L, L[x].after, q)
  BY <1>4 DEF Whole
<1> QED BY <1>2, <1>3, <1>4, <1>5, <1>6 DEF Status

-----------------------------------------------------------------------------
(* No byte is read twice.                                                  *)

(* Every read begins where its member does.                                *)
LEMMA ReadsFrom ==
  ASSUME NEW L, NEW r, Parsable(L, r), NEW x \in DOMAIN L,
         NEW b, b \in Reads(L, x, r)
  PROVE  b \in Int /\ Start(L, x, r) <= b
<1> DEFINE s == Start(L, x, r)
<1>1. s \in Nat /\ r.length \in Nat
  BY StartIs DEF Parsable
<1>2. PlacementOK(L, x)
  BY DEF Parsable
<1>3. CASE L[x].kind \in {"number", "string", "bytes"}
  <2>1. b \in s .. s + L[x].width - 1
    BY <1>3 DEF Reads, Run
  <2> QED BY <1>1, <2>1
<1>4. CASE L[x].kind = "items"
  <2>1. b \in s .. s + Size(L[x], r) - 1
    BY <1>4 DEF Reads, Run
  <2> QED BY <1>1, <2>1
<1>5. CASE L[x].kind = "upto"
  <2>1. b \in s .. s + L[x].width - 1
    BY <1>5 DEF Reads, Run
  <2> QED BY <1>1, <2>1
<1>6. CASE L[x].kind = "rest"
  <2>1. b \in L[x].at .. r.length - 1
    BY <1>6 DEF Reads, Run
  <2>2. s = L[x].at
    BY <1>2, <1>6, StartIs DEF PlacementOK
  <2> QED BY <1>1, <2>1, <2>2
<1>7. CASE L[x].kind = "elements"
  <2>1. b \in s .. s + L[x].width * ((r.length - L[x].at) \div L[x].width) - 1
    BY <1>7 DEF Reads, Run
  <2> QED BY <1>1, <2>1
<1>8. CASE L[x].kind \in {"strings", "tally", "derived"}
  <2>1. Reads(L, x, r) = {}
    BY <1>8 DEF Reads, Run
  <2> QED BY <2>1
<1> QED
  BY <1>2, <1>3, <1>4, <1>5, <1>6, <1>7, <1>8 DEF PlacementOK, Kinds, Fixed

(* A fixed member ends with its width, an array with its elements.         *)
LEMMA ReadsUpTo ==
  ASSUME NEW L, NEW r, Parsable(L, r), NEW x \in DOMAIN L,
         NEW b, b \in Reads(L, x, r)
  PROVE  /\ L[x].kind \in Fixed => b < Start(L, x, r) + L[x].width
         /\ L[x].kind = "items" => b < Start(L, x, r) + Size(L[x], r)
<1> DEFINE s == Start(L, x, r)
<1>1. s \in Nat /\ L[x].width \in Nat
  BY StartIs
<1>2. CASE L[x].kind \in {"number", "string", "bytes"}
  <2>1. b \in s .. s + L[x].width - 1
    BY <1>2 DEF Reads, Run
  <2> QED BY <1>1, <1>2, <2>1
<1>3. CASE L[x].kind = "upto"
  <2>1. b \in s .. s + L[x].width - 1
    BY <1>3 DEF Reads, Run
  <2> QED BY <1>1, <1>3, <2>1
<1>4. CASE L[x].kind = "items"
  <2>1. b \in s .. s + Size(L[x], r) - 1
    BY <1>4 DEF Reads, Run
  <2>2. Size(L[x], r) \in Nat
    BY <1>4, SizeNat
  <2>3. b < s + Size(L[x], r)
    BY <1>1, <2>1, <2>2
  <2> QED BY <1>4, <2>3 DEF Fixed
<1> QED BY <1>2, <1>3, <1>4 DEF Fixed

LEMMA ClearsKeepsApart ==
  ASSUME NEW L, NEW r, Parsable(L, r), NEW x \in DOMAIN L, NEW y \in DOMAIN L,
         Clears(L, x, y)
  PROVE  Reads(L, x, r) \cap Reads(L, y, r) = {}
<1> SUFFICES ASSUME NEW b, b \in Reads(L, x, r), b \in Reads(L, y, r)
             PROVE  FALSE
  OBVIOUS
<1> DEFINE s == Start(L, x, r)
           t == Start(L, y, r)
<1>1. /\ s \in Nat /\ t \in Nat
      /\ L[x].at \in Nat /\ L[y].at \in Nat /\ L[x].width \in Nat
  BY StartIs
<1>2. b \in Int /\ t <= b
  BY ReadsFrom
<1>3. CASE /\ L[x].kind \in Fixed /\ L[x].after \in {"", L[y].after}
           /\ L[x].at + L[x].width <= L[y].at
  <2>1. b < s + L[x].width
    BY <1>3, ReadsUpTo
  <2>2. s + L[x].width <= t
    <3>1. CASE L[y].after = ""
      <4>1. s = L[x].at /\ t = L[y].at
        BY <1>3, <3>1, StartIs
      <4> QED BY <1>3, <4>1
    <3>2. CASE L[y].after # ""
      <4> DEFINE n == Size(L[L[y].after], r)
      <4>1. n \in Nat /\ t = L[y].at + n
        BY <3>2, StartIs
      <4>2. s = L[x].at \/ s = L[x].at + n
        <5>1. CASE L[x].after = ""
          BY <5>1, StartIs
        <5>2. CASE L[x].after = L[y].after
          BY <3>2, <5>2, StartIs
        <5> QED BY <1>3, <5>1, <5>2
      <4>3. L[x].at + L[x].width <= L[y].at
        BY <1>3
      <4> HIDE DEF n, s, t
      <4>4. CASE s = L[x].at
        BY <1>1, <4>1, <4>3, <4>4
      <4>5. CASE s = L[x].at + n
        BY <1>1, <4>1, <4>3, <4>5
      <4> QED BY <4>2, <4>4, <4>5
    <3> QED BY <3>1, <3>2
  <2> HIDE DEF s, t
  <2> QED BY <1>1, <1>2, <2>1, <2>2
<1>4. CASE L[x].kind = "items" /\ L[y].after = x /\ L[x].at <= L[y].at
  <2> DEFINE n == Size(L[x], r)
  <2>1. n \in Nat /\ b < s + n
    BY <1>4, SizeNat, ReadsUpTo
  <2>2. x # "" /\ L[x].after = ""
    BY <1>4 DEF Parsable, PlacementOK
  <2>3. s = L[x].at /\ t = L[y].at + n
    BY <1>4, <2>2, StartIs
  <2> HIDE DEF n, s, t
  <2> QED BY <1>1, <1>2, <1>4, <2>1, <2>3
<1> QED BY <1>3, <1>4 DEF Clears

-----------------------------------------------------------------------------
(* The specification.                                                      *)

(* The statuses are those of the record as it is now, or, before it is     *)
(* parsed again, those of a shorter or older one, which it has not lost.   *)
StatusesAreOfRecord ==
  pc = "parsed" =>
    status = [x \in MembersOf(type) |->
                IF x \in DOMAIN TheLayout THEN Status(TheLayout, x, record)
                ELSE ABSENT]

NothingLost ==
  \A x \in MembersOf(type) :
    status[x] = PRESENT /\ ~InElements(x) =>
      x \in DOMAIN TheLayout /\ Status(TheLayout, x, record) = PRESENT

IInv ==
  /\ TypeOK
  /\ type \in Parsed /\ RecordOK(type, record)
  /\ StatusesAreOfRecord
  /\ NothingLost

LEMMA RecordParsable ==
  ASSUME type \in Parsed, RecordOK(type, record)
  PROVE  /\ LayoutOK(TheLayout) /\ Parsable(TheLayout, record)
         /\ PackedOK(type, TheLayout)
<1>1. record.version \in Versions(type) /\ record.length \in Nat
  BY DEF RecordOK
<1>2. /\ record.version \in Nat \X Nat
      /\ LayoutOK(TheLayout) /\ PackedOK(type, TheLayout)
  BY <1>1, LayoutsAssumption DEF TheLayout
<1>3. SizesOK(TheLayout, record)
  BY <1>1 DEF RecordOK, TheLayout
<1> QED BY <1>1, <1>2, <1>3 DEF Parsable, LayoutOK

LEMMA InitIInv == Init => IInv
<1> SUFFICES ASSUME Init PROVE IInv
  OBVIOUS
<1>1. type \in Parsed /\ RecordOK(type, record)
  BY ContentsAssumption DEF Init
<1>2. TypeOK
  BY <1>1 DEF Init, TypeOK, Statuses, RecordOK
<1>3. StatusesAreOfRecord
  BY DEF Init, StatusesAreOfRecord
<1>4. NothingLost
  BY StatusesDiffer DEF Init, NothingLost
<1> QED BY <1>1, <1>2, <1>3, <1>4 DEF IInv

(* A record that grows keeps its type, and the statuses it had.            *)
LEMMA GrownIInv ==
  ASSUME IInv, pc = "parsed", pc' = "table",
         UNCHANGED <<type, status>>,
         RecordOK(type, record'), Extends(record', record),
         TheLayout' = TheLayout
  PROVE  IInv'
<1>1. TypeOK'
  BY DEF IInv, TypeOK, RecordOK, MembersOf
<1>2. Parsable(TheLayout, record)
  BY RecordParsable DEF IInv
<1>3. NothingLost'
  <2> SUFFICES ASSUME NEW x \in MembersOf(type), status[x] = PRESENT,
                      ~InElements(x)
               PROVE  /\ x \in DOMAIN TheLayout
                      /\ Status(TheLayout, x, record') = PRESENT
    BY DEF NothingLost, InElements, MembersOf
  <2>1. x \in DOMAIN TheLayout /\ Status(TheLayout, x, record) = PRESENT
    BY DEF IInv, NothingLost
  <2>2. TheLayout[x].kind \notin {"rest", "tally"}
    BY <2>1 DEF InElements
  <2> QED BY <1>2, <2>1, <2>2, StatusKept
<1>4. RecordOK(type, record)'
  BY DEF RecordOK
<1>5. StatusesAreOfRecord'
  BY DEF StatusesAreOfRecord
<1> QED BY <1>1, <1>3, <1>4, <1>5 DEF IInv

LEMMA ParseIInv ==
  ASSUME IInv, Parse
  PROVE  /\ IInv'
         /\ \A x \in MembersOf(type) :
              status[x] = PRESENT /\ ~InElements(x) => status'[x] = PRESENT
<1>1. UNCHANGED <<type, record>> /\ pc' = "parsed"
  BY DEF Parse
<1>2. TheLayout' = TheLayout /\ MembersOf(type)' = MembersOf(type)
  BY <1>1 DEF TheLayout, MembersOf
<1>3. status' = [x \in MembersOf(type) |->
                   IF x \in DOMAIN TheLayout
                   THEN Status(TheLayout, x, record) ELSE ABSENT]
  BY DEF Parse
<1>4. \A x \in DOMAIN TheLayout : PlacementOK(TheLayout, x)
  BY RecordParsable DEF IInv, Parsable
<1>5. status' \in [MembersOf(type) -> Statuses]
  <2>1. \A x \in DOMAIN TheLayout : Status(TheLayout, x, record) \in Statuses
    BY <1>4, StatusTyped
  <2> QED BY <1>3, <2>1 DEF Statuses
<1>6. TypeOK'
  BY <1>1, <1>2, <1>5 DEF IInv, TypeOK
<1>7. StatusesAreOfRecord'
  BY <1>1, <1>2, <1>3 DEF StatusesAreOfRecord
<1>8. \A x \in MembersOf(type) : status'[x] = PRESENT =>
        x \in DOMAIN TheLayout /\ Status(TheLayout, x, record) = PRESENT
  BY <1>3, StatusesDiffer
<1>9. NothingLost'
  BY <1>1, <1>2, <1>8 DEF NothingLost
<1>10. ASSUME NEW x \in MembersOf(type), status[x] = PRESENT, ~InElements(x)
       PROVE  status'[x] = PRESENT
  <2>1. x \in DOMAIN TheLayout /\ Status(TheLayout, x, record) = PRESENT
    BY <1>10 DEF IInv, NothingLost
  <2> QED BY <1>3, <2>1
<1>11. RecordOK(type, record)' /\ type' \in Parsed
  BY <1>1 DEF IInv, RecordOK
<1> QED BY <1>6, <1>7, <1>9, <1>10, <1>11 DEF IInv

LEMMA VersionReflexive ==
  ASSUME NEW v \in Nat \X Nat PROVE IsVersionPlus(v, v)
BY DEF IsVersionPlus

LEMMA LongerIInv == ASSUME IInv, Longer PROVE IInv'
<1>1. /\ record' = [record EXCEPT !.length = record.length + 1]
      /\ pc = "parsed" /\ pc' = "table" /\ UNCHANGED <<type, status>>
  BY DEF Longer
<1>2. RecordOK(type, record)
  BY DEF IInv
<1>3. /\ record'.version = record.version /\ record'.value = record.value
      /\ record'.special = record.special /\ record'.missing = record.missing
      /\ record'.length = record.length + 1
  BY <1>1, <1>2 DEF RecordOK
<1>4. record' = [version |-> record'.version, length |-> record'.length,
                 value |-> record'.value, special |-> record'.special,
                 missing |-> record'.missing]
  BY <1>1, <1>2 DEF RecordOK
<1>5. RecordOK(type, record')
  <2>1. \A v \in Versions(type) : SizesOK(Layout(type, v), record')
    BY <1>2, <1>3 DEF RecordOK, SizesOK, Count, Unit
  <2> QED BY <1>2, <1>3, <1>4, <2>1 DEF RecordOK
<1>6. Extends(record', record)
  <2>1. record.version \in Nat \X Nat /\ record.length \in Nat
    BY RecordParsable DEF IInv, Parsable
  <2>2. IsVersionPlus(record.version, record.version)
    BY <2>1, VersionReflexive
  <2>3. record.length <= record.length + 1 /\ record.length + 1 \in Nat
    BY <2>1
  <2> QED BY <1>3, <2>1, <2>2, <2>3 DEF Extends
<1>7. TheLayout' = TheLayout
  BY <1>1, <1>3 DEF TheLayout
<1> QED BY <1>1, <1>5, <1>6, <1>7, GrownIInv

LEMMA NewerIInv == ASSUME IInv, Newer PROVE IInv'
<1>1. PICK v \in Versions(type) :
        /\ \/ v[1] > record.version[1]
           \/ v[1] = record.version[1] /\ v[2] > record.version[2]
        /\ Layout(type, v) = TheLayout
        /\ record' = [record EXCEPT !.version = v]
  BY Zenon DEF Newer
<1>2. pc = "parsed" /\ pc' = "table" /\ UNCHANGED <<type, status>>
  BY DEF Newer
<1>3. RecordOK(type, record)
  BY DEF IInv
<1>4. /\ record'.version = v /\ record'.value = record.value
      /\ record'.special = record.special /\ record'.missing = record.missing
      /\ record'.length = record.length
  BY <1>1, <1>3 DEF RecordOK
<1>5. record' = [version |-> record'.version, length |-> record'.length,
                 value |-> record'.value, special |-> record'.special,
                 missing |-> record'.missing]
  BY <1>1, <1>3 DEF RecordOK
<1>6. RecordOK(type, record')
  <2>1. \A w \in Versions(type) : SizesOK(Layout(type, w), record')
    BY <1>3, <1>4 DEF RecordOK, SizesOK, Count, Unit
  <2> QED BY <1>3, <1>4, <1>5, <2>1 DEF RecordOK
<1>7. Extends(record', record)
  <2>1. record.version \in Nat \X Nat /\ record.length \in Nat
    BY RecordParsable DEF IInv, Parsable
  <2>2. v \in Nat \X Nat
    BY LayoutsAssumption DEF IInv
  <2>3. IsVersionPlus(v, record.version)
    BY <1>1, <2>1, <2>2 DEF IsVersionPlus
  <2> QED BY <1>4, <2>1, <2>2, <2>3 DEF Extends
<1>8. TheLayout' = TheLayout
  BY <1>1, <1>2, <1>4 DEF TheLayout
<1> QED BY <1>2, <1>6, <1>7, <1>8, GrownIInv

LEMMA NextIInv == ASSUME IInv, [Next]_vars PROVE IInv'
<1>1. CASE UNCHANGED vars
  BY <1>1 DEF vars, IInv, TypeOK, StatusesAreOfRecord, NothingLost, InElements,
              TheLayout, MembersOf, RecordOK
<1>2. CASE Parse
  BY <1>2, ParseIInv
<1>3. CASE Longer
  BY <1>3, LongerIInv
<1>4. CASE Newer
  BY <1>4, NewerIInv
<1> QED BY <1>1, <1>2, <1>3, <1>4 DEF Next

LEMMA Invariance == Spec => []IInv
BY InitIInv, NextIInv, PTL DEF Spec

(* What IInv says of a member that is PRESENT in a record just parsed.     *)
LEMMA PresentIs ==
  ASSUME IInv, NEW x \in MembersOf(type), IsPresent(x)
  PROVE  /\ x \in DOMAIN TheLayout
         /\ ReadStatus(TheLayout, x, record) = PRESENT
         /\ BytesOf(x) \subseteq HeaderBytes .. record.length - 1
<1>1. x \in DOMAIN TheLayout /\ Status(TheLayout, x, record) = PRESENT
  BY StatusesDiffer DEF IInv, StatusesAreOfRecord, IsPresent
<1>2. Parsable(TheLayout, record)
  BY RecordParsable DEF IInv
<1>3. ReadStatus(TheLayout, x, record) = PRESENT
  BY <1>1, <1>2, StatusIs DEF Parsable
<1> QED BY <1>1, <1>2, <1>3, PresentReads DEF BytesOf

(* Every member of a record has one of the three statuses, whatever the    *)
(* firmware's structure holds and wherever it ends.                        *)
THEOREM TypeCorrect == Spec => []TypeOK
<1>1. IInv => TypeOK
  BY DEF IInv
<1> QED BY <1>1, Invariance, PTL

(* No getter reads a byte outside the structure for a member it reports as *)
(* PRESENT, for every length, count and element length.                    *)
THEOREM ReadsStayInside == Spec => []PresentBytesInside
<1>1. IInv => PresentBytesInside
  BY PresentIs DEF PresentBytesInside
<1> QED BY <1>1, Invariance, PTL

(* No getter takes one byte for two members.                               *)
THEOREM NoByteTwice == Spec => []NoByteReadTwice
<1>1. ASSUME IInv PROVE NoByteReadTwice
  <2> SUFFICES ASSUME NEW x \in MembersOf(type), NEW y \in MembersOf(type),
                      IsPresent(x), IsPresent(y), x # y,
                      ~({x, y} \subseteq Sharing)
               PROVE  BytesOf(x) \cap BytesOf(y) = {}
    BY DEF NoByteReadTwice
  <2> USE <1>1
  <2>1. x \in DOMAIN TheLayout /\ y \in DOMAIN TheLayout
    BY PresentIs
  <2>2. LayoutOK(TheLayout) /\ Parsable(TheLayout, record)
    BY RecordParsable DEF IInv
  <2>3. CASE ~HasBytes(TheLayout, x)
    BY <2>3 DEF HasBytes, BytesOf, Reads
  <2>4. CASE ~HasBytes(TheLayout, y)
    BY <2>4 DEF HasBytes, BytesOf, Reads
  <2>5. CASE HasBytes(TheLayout, x) /\ HasBytes(TheLayout, y)
    <3>1. Clears(TheLayout, x, y) \/ Clears(TheLayout, y, x)
      BY <2>1, <2>2, <2>5 DEF LayoutOK
    <3> QED BY <2>1, <2>2, <3>1, ClearsKeepsApart DEF BytesOf
  <2> QED BY <2>3, <2>4, <2>5
<1> QED BY <1>1, Invariance, PTL

(* A run of n bytes has n bytes. *)
LEMMA RunLength ==
  ASSUME NEW a \in Nat, NEW n \in Nat
  PROVE  Cardinality(a .. a + n - 1) = n
<1> DEFINE b == a + n - 1
<1>1. a \in Int /\ b \in Int
  OBVIOUS
<1>2. (IF a > b THEN 0 ELSE b - a + 1) = n
  OBVIOUS
<1> HIDE DEF b
<1>3. Cardinality(a .. b) = n
  BY <1>1, <1>2, FS_Interval
<1> QED BY <1>3 DEF b

(* A getter copies as many bytes into a member as the struct has for it,   *)
(* wherever the arrays before it move it.                                  *)
THEOREM ReadsAreOfSize == Spec => []ReadsFitMembers
<1>1. ASSUME IInv PROVE ReadsFitMembers
  <2> SUFFICES ASSUME NEW x \in Copied(type, TheLayout),
                      x \in MembersOf(type), IsPresent(x)
               PROVE  Cardinality(BytesOf(x)) = Bytewide(Structs[type], x)
    BY DEF ReadsFitMembers
  <2> USE <1>1
  <2> DEFINE from == Start(TheLayout, x, record)
             n    == TheLayout[x].width
  <2>1. /\ x \in DOMAIN TheLayout
        /\ TheLayout[x].kind \in {"number", "string", "bytes"}
    BY DEF Copied
  <2>2. Parsable(TheLayout, record)
    BY RecordParsable DEF IInv
  <2>3. from \in Nat /\ n \in Nat
    BY <2>1, <2>2, StartIs DEF Parsable, PlacementOK
  <2>4. BytesOf(x) = from .. from + n - 1
    BY <2>1 DEF BytesOf, Reads, Run
  <2>5. Cardinality(from .. from + n - 1) = n
    BY <2>3, RunLength
  <2>6. n = Bytewide(Structs[type], x)
    <3>1. type \in Parsed /\ record.version \in Versions(type)
      BY DEF IInv, RecordOK
    <3>2. FitOK(type, TheLayout)
      BY <3>1, FitAssumption DEF TheLayout
    <3> QED BY <3>2 DEF FitOK
  <2> QED BY <2>4, <2>5, <2>6
<1> QED BY <1>1, Invariance, PTL

(* What a shorter or older record had is there in a longer or newer one:   *)
(* no step takes PRESENT away from a member.                               *)
THEOREM GrowingLosesNothing == Spec => PresentKept
<1>1. ASSUME IInv, [Next]_vars
      PROVE  [\A x \in MembersOf(type) :
                status[x] = PRESENT /\ ~InElements(x) =>
                  status'[x] = PRESENT]_vars
  <2>1. CASE UNCHANGED vars
    BY <2>1
  <2>2. CASE Parse
    BY <1>1, <2>2, ParseIInv
  <2>3. CASE Longer \/ Newer
    BY <2>3 DEF Longer, Newer
  <2> QED BY <1>1, <2>1, <2>2, <2>3 DEF Next
<1> QED BY <1>1, Invariance, PTL DEF Spec, PresentKept

-----------------------------------------------------------------------------
(* No byte is passed over.                                                 *)

(* Arithmetic, for the members that no array moves. *)
LEMMA AddZero ==
  ASSUME NEW k \in Nat PROVE k = k + 0
OBVIOUS

LEMMA SubtractZero ==
  ASSUME NEW k \in Int PROVE k - 0 = k
OBVIOUS

(* A run of bytes that is moved by m. *)
LEMMA RunMoved ==
  ASSUME NEW b \in Int, NEW m \in Nat, NEW at \in Nat, NEW width \in Nat,
         b - m \in Run(at, width)
  PROVE  b \in Run(at + m, width)
BY DEF Run

(* An interval holds integers. *)
LEMMA IntervalInt ==
  ASSUME NEW i, NEW j, NEW b \in i .. j PROVE b \in Int
OBVIOUS

(* A member that is PRESENT begins inside the record.                      *)
LEMMA PresentBegins ==
  ASSUME NEW t, NEW L, NEW r, Parsable(L, r), PackedOK(t, L),
         NEW x \in DOMAIN L, ReadStatus(L, x, r) = PRESENT,
         L[x].kind # "strings"
  PROVE  Start(L, x, r) <= r.length
<1> DEFINE s == Start(L, x, r)
<1>1. s \in Nat /\ L[x].width \in Nat /\ r.length \in Nat /\ L[x].at \in Nat
  BY StartIs DEF Parsable
<1>2. PlacementOK(L, x) /\ L[x].kind \in Kinds
  BY DEF Parsable, PlacementOK
<1>3. CASE L[x].kind \in {"number", "string", "bytes", "elements", "derived"}
  <2>1. s + L[x].width <= r.length
    BY <1>3, ReadStatusIs DEF Inside
  <2> QED BY <1>1, <2>1
<1>4. CASE L[x].kind = "items"
  <2> DEFINE n == Size(L[x], r)
             l == r.length
  <2>1. s + n <= l
    BY <1>4, ReadStatusIs, ArrayStatusIs DEF Fits, Inside
  <2>2. n \in Nat /\ s \in Nat /\ l \in Nat
    BY <1>1, <1>4, SizeNat
  <2> HIDE DEF s, n, l
  <2>3. s <= l
    BY <2>1, <2>2
  <2> QED BY <2>3 DEF s, l
<1>5. CASE L[x].kind = "upto"
  <2>1. s = L[x].at
    BY <1>5, StartIs DEF PackedOK
  <2>2. L[x].at + 1 <= r.length
    BY <1>5, ReadStatusIs DEF Inside
  <2> QED BY <1>1, <2>1, <2>2
<1>6. CASE L[x].kind \in {"rest", "tally"}
  <2>1. s = L[x].at
    BY <1>2, <1>6, StartIs DEF PlacementOK
  <2> QED BY <1>6, <2>1, ReadStatusIs
<1> QED BY <1>2, <1>3, <1>4, <1>5, <1>6 DEF Kinds, Fixed

(* A byte of the record where a member is placed is read for it, wherever  *)
(* the array before it moves the member.                                   *)
LEMMA PlaceIsRead ==
  ASSUME NEW L, NEW r, Parsable(L, r), NEW a, NEW m \in Nat,
         a = "" => m = 0, a # "" => m = Size(L[a], r),
         NEW b \in Int, b < r.length, b - m \in PlacesOf(L, a)
  PROVE  \E y \in DOMAIN L : b \in Reads(L, y, r)
<1>1. PICK y \in DOMAIN L : /\ L[y].kind \in Fixed /\ L[y].after = a
                            /\ b - m \in Run(L[y].at, L[y].width)
  BY DEF PlacesOf
<1> DEFINE s == Start(L, y, r)
<1>2. s \in Nat /\ L[y].at \in Nat /\ L[y].width \in Nat /\ s = L[y].at + m
  <2> DEFINE k == L[y].at
  <2>1. s \in Nat /\ k \in Nat /\ L[y].width \in Nat
    BY StartIs
  <2>2. CASE a = ""
    <3>1. s = k /\ m = 0
      BY <1>1, <2>2, StartIs
    <3>2. s = k + m
      BY <2>1, <3>1, AddZero, Zenon
    <3> QED BY <2>1, <3>2, Zenon
  <2>3. CASE a # ""
    <3>1. Start(L, y, r) = L[y].at + Size(L[a], r)
      BY <1>1, <2>3, StartIs
    <3>2. m = Size(L[a], r)
      BY <2>3
    <3>3. s = L[y].at + m
      BY <3>1, <3>2, Zenon
    <3> QED BY <2>1, <3>3
  <2> QED BY <2>2, <2>3
<1>3. b \in Run(s, L[y].width)
  BY <1>1, <1>2, RunMoved
<1>4. b \in Reads(L, y, r)
  BY <1>1, <1>3 DEF Reads, Fixed
<1> QED BY <1>4

(* What is before the members that no array moves. *)
LEMMA FrontIsRead ==
  ASSUME NEW t, NEW L, NEW r, Parsable(L, r), PackedOK(t, L),
         NEW x \in DOMAIN L, L[x].after = "",
         NEW b \in HeaderBytes .. L[x].at - 1, b < r.length
  PROVE  b \in Reserved(t) \/ \E y \in DOMAIN L : b \in Reads(L, y, r)
<1>1. b \in Int /\ b \in Reserved(t) \union PlacesOf(L, "")
  <2>1. HeaderBytes .. L[x].at - 1 \subseteq Reserved(t) \union PlacesOf(L, "")
    BY Zenon DEF PackedOK
  <2>2. b \in Int
    BY IntervalInt
  <2> QED BY <2>1, <2>2
<1>2. ASSUME b \in PlacesOf(L, "")
      PROVE  \E y \in DOMAIN L : b \in Reads(L, y, r)
  <2>1. b - 0 \in PlacesOf(L, "")
    BY <1>1, <1>2, SubtractZero, Zenon
  <2>2. 0 \in Nat
    OBVIOUS
  <2> QED BY <1>1, <2>1, <2>2, PlaceIsRead
<1> QED BY <1>1, <1>2

(* The bytes before a member are the front's, the array's, or between the  *)
(* array and it.                                                           *)
LEMMA NothingSkipped ==
  ASSUME NEW t, NEW L, NEW r, Parsable(L, r), PackedOK(t, L),
         NEW x \in DOMAIN L, ReadStatus(L, x, r) = PRESENT,
         NEW b \in HeaderBytes .. Start(L, x, r) - 1
  PROVE  b \in Reserved(t) \/ \E y \in DOMAIN L : b \in Reads(L, y, r)
<1> DEFINE s == Start(L, x, r)
<1>1. s \in Nat /\ L[x].at \in Nat /\ r.length \in Nat
  BY StartIs DEF Parsable
<1>2. b \in Int /\ HeaderBytes <= b /\ b < s
  BY <1>1 DEF HeaderBytes
<1>3. L[x].kind # "strings"
  <2>1. SUFFICES ASSUME L[x].kind = "strings" PROVE FALSE
    OBVIOUS
  <2>2. s = 0
    BY <2>1, StartIs DEF PackedOK
  <2> QED BY <1>2, <2>2 DEF HeaderBytes
<1>4. b < r.length
  <2>1. s <= r.length
    BY <1>3, PresentBegins
  <2> HIDE DEF s
  <2> QED BY <1>1, <1>2, <2>1
<1>5. CASE L[x].after = ""
  <2>1. s = L[x].at
    BY <1>5, StartIs
  <2> QED BY <1>4, <1>5, <2>1, FrontIsRead
<1>6. CASE L[x].after # ""
  <2> DEFINE a == L[x].after
             m == Size(L[a], r)
  <2>1. a \in DOMAIN L /\ L[a].kind = "items" /\ L[a].after = ""
    BY <1>6 DEF Parsable, PlacementOK
  <2>2. m \in Nat /\ s = L[x].at + m
    BY <1>6, StartIs
  <2>3. L[a].at \in Nat /\ Start(L, a, r) = L[a].at
    BY <2>1, StartIs
  <2>4. L[a].at .. L[x].at - 1 \subseteq PlacesOf(L, a)
    BY <1>6 DEF PackedOK
  <2>5. Reads(L, a, r) = L[a].at .. L[a].at + m - 1
    BY <2>1, <2>3 DEF Reads, Run
  <2> HIDE DEF m, s
  <2>6. CASE b < L[a].at
    <3>1. b \in HeaderBytes .. L[a].at - 1
      BY <1>2, <2>3, <2>6 DEF HeaderBytes
    <3> HIDE DEF a
    <3> QED BY <1>4, <2>1, <3>1, FrontIsRead
  <2>7. CASE L[a].at <= b /\ b < L[a].at + m
    <3>1. b \in Reads(L, a, r)
      BY <1>2, <2>2, <2>3, <2>5, <2>7
    <3> QED BY <2>1, <3>1
  <2>8. CASE L[a].at + m <= b
    <3>1. b - m \in L[a].at .. L[x].at - 1
      BY <1>1, <1>2, <2>2, <2>3, <2>8
    <3>2. b - m \in PlacesOf(L, a)
      BY <2>4, <3>1
    <3>3. a # "" /\ m = Size(L[a], r)
      BY <1>6 DEF m
    <3> HIDE DEF a
    <3> QED BY <1>2, <1>4, <2>2, <3>2, <3>3, PlaceIsRead
  <2> QED BY <1>2, <2>2, <2>3, <2>6, <2>7, <2>8
<1> QED BY <1>5, <1>6

(* Up to the last member that is PRESENT a getter passes over no byte but  *)
(* the reserved ones, however long the arrays before it are.               *)
THEOREM NoByteLost == Spec => []NoByteSkipped
<1>1. ASSUME IInv PROVE NoByteSkipped
  <2> SUFFICES ASSUME NEW x \in MembersOf(type), IsPresent(x),
                      NEW b \in HeaderBytes .. Start(TheLayout, x, record) - 1
               PROVE  b \in Reserved(type)
                      \/ \E y \in DOMAIN TheLayout :
                           b \in Reads(TheLayout, y, record)
    BY DEF NoByteSkipped, BytesOf
  <2>1. x \in DOMAIN TheLayout /\ ReadStatus(TheLayout, x, record) = PRESENT
    BY <1>1, PresentIs
  <2>2. Parsable(TheLayout, record) /\ PackedOK(type, TheLayout)
    BY <1>1, RecordParsable DEF IInv
  <2> QED BY <2>1, <2>2, NothingSkipped
<1> QED BY <1>1, Invariance, PTL

-----------------------------------------------------------------------------
(* The keys of a record.                                                   *)

Words == {"null", "nothing", "empty"}

(* A value is written when a source of the write is PRESENT, and the array *)
(* is not one of none, and the record is long enough.                      *)
LEMMA AnswerIs ==
  ASSUME NEW L, NEW w, NEW st, NEW r,
         {w.absent, w.unreachable, w.none} \subseteq Words
  PROVE  Answer(L, w, st, r) = "value" <=>
           /\ \E x \in Sources(w) : st[x] = PRESENT
           /\ ~(w.count \in DOMAIN L /\ r.value[w.count] = 0)
           /\ ~(r.length < w.needs)
<1> DEFINE said == {st[x] : x \in Sources(w)}
<1>1. PRESENT \in said <=> \E x \in Sources(w) : st[x] = PRESENT
  BY Zenon
<1>2. w.none # "value" /\ w.absent # "value" /\ w.unreachable # "value"
  BY DEF Words
<1>3. /\ "nothing" # "value" /\ "null" # "value" /\ "empty" # "value"
  OBVIOUS
<1>4. CASE PRESENT \in said
  <2>1. Answer(L, w, st, r) =
          IF w.count \in DOMAIN L /\ r.value[w.count] = 0 THEN w.none
          ELSE IF r.length < w.needs THEN "empty" ELSE "value"
    BY <1>4, Zenon DEF Answer
  <2> HIDE DEF said
  <2> QED BY <1>1, <1>2, <1>3, <1>4, <2>1, Zenon
<1>5. CASE PRESENT \notin said
  <2>1. Answer(L, w, st, r) \in {"nothing", "null", w.unreachable, w.absent}
    <3> DEFINE quiet == \/ said = {UNREACHABLE}
                        \/ w.silent = "either" /\ UNREACHABLE \in said
               lost == said = {UNREACHABLE}
    <3>1. Answer(L, w, st, r) =
            IF w.second # "" THEN IF quiet THEN "nothing" ELSE "null"
            ELSE IF lost THEN w.unreachable ELSE w.absent
      BY <1>5, Zenon DEF Answer
    <3> HIDE DEF quiet, lost
    <3> QED BY <3>1, Zenon
  <2>2. Answer(L, w, st, r) # "value"
    BY <1>2, <1>3, <2>1
  <2> HIDE DEF said
  <2> QED BY <1>1, <1>5, <2>2
<1> QED BY <1>4, <1>5

(* What an entry e of the write w says. *)
EntryOf(e, L, w, st, r) ==
  /\ e.says = Answer(L, w, st, r) /\ e.of = w.of /\ e.form = w.form
  /\ e.says = "value" => /\ e.in = w.in /\ e.key = ValueKey(w, st, r)
                         /\ e.shows = Shown(w, st)
  /\ e.says # "value" => /\ e.in = w.gap /\ e.key = w.gapKey
                         /\ e.shows = ""

(* Every entry is one of its write. *)
LEMMA EntryIs ==
  ASSUME NEW L, NEW w, NEW st, NEW r
  PROVE  EntryOf(Entry(L, w, st, r), L, w, st, r)
BY DEF Entry, EntryOf

(* A value is written under one of the keys of its write. *)
LEMMA KeyOfValue ==
  ASSUME NEW w, NEW st, NEW r
  PROVE  ValueKey(w, st, r) \in ValueKeys(w)
<1>1. Shown(w, st) \in {w.shows, w.second}
  BY DEF Shown
<1>2. CASE w.oddKey # "" /\ w.of \in r.special
  <2>1. ValueKey(w, st, r) = w.oddKey
    BY <1>2, Zenon DEF ValueKey
  <2> QED BY <1>2, <2>1 DEF ValueKeys
<1>3. CASE ~(w.oddKey # "" /\ w.of \in r.special)
           /\ w.second # "" /\ w.key = w.of
  <2>1. ValueKey(w, st, r) = Shown(w, st)
    BY <1>3, Zenon DEF ValueKey
  <2> QED BY <1>1, <1>3, <2>1 DEF ValueKeys
<1>4. CASE ~(w.oddKey # "" /\ w.of \in r.special)
           /\ ~(w.second # "" /\ w.key = w.of)
  <2>1. ValueKey(w, st, r) = w.key
    BY <1>4, Zenon DEF ValueKey
  <2> QED BY <2>1 DEF ValueKeys
<1> QED BY <1>2, <1>3, <1>4

(* The statuses of a record are those its getter has left. *)
Found(L, S, r, st) ==
  \A x \in S : st[x] = PRESENT <=> x \in DOMAIN L /\ Status(L, x, r) = PRESENT

(* Newer than a newer version is newer. *)
LEMMA VersionsCompose ==
  ASSUME NEW u \in Nat \X Nat, NEW v \in Nat \X Nat, NEW w \in Nat \X Nat,
         IsVersionPlus(u, v), IsVersionPlus(v, w)
  PROVE  IsVersionPlus(u, w)
BY DEF IsVersionPlus

(* Of a record that is cut short the members in front are left. *)
LEMMA SoonerIsPresent ==
  ASSUME NEW L, NEW r, Parsable(L, r), NEW x, NEW y, Sooner(L, y, x),
         Status(L, x, r) = PRESENT
  PROVE  Status(L, y, r) = PRESENT
<1>1. x \in DOMAIN L /\ y \in DOMAIN L
  BY DEF Sooner
<1>2. PlacementOK(L, x) /\ PlacementOK(L, y)
  BY <1>1 DEF Parsable
<1>3. /\ L[y].kind = "number" /\ ~L[y].maybe /\ L[y].void = {}
      /\ L[y].when = "" /\ L[y].after = ""
      /\ L[x].kind \in {"number", "string", "bytes"}
      /\ IsVersionPlus(L[x].since, L[y].since)
      /\ L[y].at + L[y].width <= L[x].at + L[x].width
  BY DEF Sooner
<1>4. ReadStatus(L, x, r) = PRESENT /\ Reached(L[x], r)
  BY <1>1, <1>2, StatusIs
<1>5. Reached(L[y], r)
  <2>1. IsVersionPlus(r.version, L[x].since)
    BY <1>4 DEF Reached
  <2>2. /\ r.version \in Nat \X Nat
        /\ L[x].since \in Nat \X Nat /\ L[y].since \in Nat \X Nat
    BY <1>2 DEF Parsable, PlacementOK
  <2> QED BY <1>3, <2>1, <2>2, VersionsCompose DEF Reached
<1>6. Inside(Start(L, y, r), L[y].width, r.length)
  <2> DEFINE s == Start(L, x, r)
             i == L[x].at
             j == L[y].at
             k == L[x].width
             m == L[y].width
             l == r.length
  <2>1. s + k <= l
    BY <1>3, <1>4, ReadStatusIs DEF Inside
  <2>2. s \in Nat /\ i \in Nat /\ j \in Nat /\ k \in Nat /\ m \in Nat
        /\ l \in Nat
    BY <1>1, StartIs DEF Parsable
  <2>3. i <= s
    <3>1. CASE L[x].after = ""
      <4>1. s = i
        BY <1>1, <3>1, StartIs
      <4> HIDE DEF s, i
      <4> QED BY <2>2, <4>1
    <3>2. CASE L[x].after # ""
      <4> DEFINE n == Size(L[L[x].after], r)
      <4>1. n \in Nat /\ s = i + n
        BY <1>1, <3>2, StartIs
      <4> HIDE DEF n, s, i
      <4> QED BY <2>2, <4>1
    <3> QED BY <3>1, <3>2
  <2>4. j + m <= i + k
    BY <1>3
  <2>5. Start(L, y, r) = j
    BY <1>1, <1>3, StartIs
  <2> HIDE DEF s, i, j, k, m, l
  <2>6. j + m <= l
    BY <2>1, <2>2, <2>3, <2>4
  <2> QED BY <2>5, <2>6 DEF Inside, j, m, l
<1>7. ReadStatus(L, y, r) = PRESENT
  <2>1. ~Blank(L, y, r)
    BY <1>3 DEF Blank
  <2> QED BY <1>3, <1>6, <2>1 DEF ReadStatus
<1> QED BY <1>3, <1>5, <1>7 DEF Status

(* What a write needs to have a value, the one that follows it needs, too. *)
LEMMA FollowerSays ==
  ASSUME NEW L, NEW r, Parsable(L, r), NEW S, NEW st, Found(L, S, r, st),
         NEW w, NEW v, Follows(L, w, v), Sources(w) \subseteq S,
         Sources(v) \subseteq S, w.needs \in Nat, v.needs \in Nat,
         {w.absent, w.unreachable, w.none} \subseteq Words,
         {v.absent, v.unreachable, v.none} \subseteq Words,
         Answer(L, w, st, r) = "value"
  PROVE  Answer(L, v, st, r) = "value"
<1>1. PICK x \in Sources(w) : st[x] = PRESENT
  BY AnswerIs
<1>2. PICK y \in Sources(v) : y = x \/ Sooner(L, y, x)
  BY <1>1 DEF Follows
<1>3. st[y] = PRESENT
  <2>1. x \in DOMAIN L /\ Status(L, x, r) = PRESENT
    BY <1>1 DEF Found
  <2>2. CASE Sooner(L, y, x)
    <3>1. Status(L, y, r) = PRESENT /\ y \in DOMAIN L
      BY <2>1, <2>2, SoonerIsPresent DEF Sooner
    <3> QED BY <1>2, <3>1 DEF Found
  <2> QED BY <1>1, <1>2, <2>2
<1>4. ~(v.count \in DOMAIN L /\ r.value[v.count] = 0)
  <2>1. ~(w.count \in DOMAIN L /\ r.value[w.count] = 0)
    BY AnswerIs
  <2>2. v.count = "" \/ v.count = w.count
    BY DEF Follows
  <2>3. "" \notin DOMAIN L
    BY DEF Parsable, PlacementOK
  <2> QED BY <2>1, <2>2, <2>3, Zenon
<1>5. ~(r.length < v.needs)
  <2> DEFINE l == r.length
             i == v.needs
             k == w.needs
  <2>1. ~(l < k) /\ i <= k
    BY AnswerIs DEF Follows
  <2>2. l \in Nat /\ i \in Nat /\ k \in Nat
    BY DEF Parsable
  <2> HIDE DEF l, i, k
  <2>3. ~(l < i)
    BY <2>1, <2>2
  <2> QED BY <2>3 DEF l, i
<1> QED BY <1>2, <1>3, <1>4, <1>5, AnswerIs

(* No length is less than none. *)
LEMMA NotNegative ==
  ASSUME NEW n \in Nat PROVE ~(n < 0)
OBVIOUS

(* Where all that takes a value's place is null, null is what it is. *)
LEMMA GapIsNull ==
  ASSUME NEW L, NEW r, r.length \in Nat, NEW st, NEW w, NullOnly(w),
         "" \notin DOMAIN L, Answer(L, w, st, r) \notin {"value", "nothing"}
  PROVE  Answer(L, w, st, r) = "null"
<1>1. ~(r.length < w.needs)
  <2>1. w.needs = 0
    BY DEF NullOnly
  <2> QED BY <2>1, NotNegative, Zenon
<1>2. w.absent \in {"null", "nothing"} /\ w.unreachable \in {"null", "nothing"}
  BY DEF NullOnly
<1>3. w.count \in DOMAIN L => w.none \in {"null", "nothing"}
  BY DEF NullOnly
<1> QED BY <1>1, <1>2, <1>3 DEF Answer

(* Two writes with the same gaps give the same answer. *)
LEMMA SameAnswer ==
  ASSUME NEW L, NEW r, NEW st, NEW w, NEW v, SameGaps(w, v)
  PROVE  Answer(L, w, st, r) = Answer(L, v, st, r)
<1>1. /\ w.of = v.of /\ w.second = v.second /\ w.silent = v.silent
      /\ w.absent = v.absent /\ w.unreachable = v.unreachable
      /\ w.count = v.count /\ w.none = v.none /\ w.needs = v.needs
  BY DEF SameGaps
<1> QED BY <1>1, Zenon DEF Answer, Sources

-----------------------------------------------------------------------------
(* The specification of the export.                                        *)

(* The object is what was written of the record as it is now: a longer one *)
(* is exported anew.                                                       *)
EInv ==
  /\ IInv
  /\ json # {} => /\ pc = "parsed"
                  /\ json = Written(Jsons[type], TheLayout, status, record)

(* Every step of the export keeps the invariant. *)
LEMMA ExportNextEInv ==
  ASSUME EInv, [ExportNext]_<<vars, json>>
  PROVE  EInv'
<1>1. CASE Next /\ json' = {}
  <2>1. IInv'
    BY <1>1, NextIInv DEF EInv
  <2> QED BY <1>1, <2>1 DEF EInv
<1>2. CASE UNCHANGED vars /\ (Export \/ json' = json)
  <2>1. IInv'
    BY <1>2, NextIInv DEF EInv
  <2>2. /\ pc' = pc /\ type' = type /\ status' = status /\ record' = record
        /\ TheLayout' = TheLayout
    BY <1>2 DEF vars, TheLayout
  <2>3. CASE Export
    <3>1. /\ pc = "parsed"
          /\ json' = Written(Jsons[type], TheLayout, status, record)
      BY <2>3 DEF Export
    <3> QED BY <2>1, <2>2, <3>1 DEF EInv
  <2>4. CASE json' = json
    BY <2>1, <2>2, <2>4 DEF EInv
  <2> QED BY <1>2, <2>3, <2>4
<1> QED BY <1>1, <1>2 DEF ExportNext, Export

(* The inductive invariant of the export. *)
LEMMA ExportInvariance == ExportSpec => []EInv
<1>1. ExportInit => EInv
  BY InitIInv DEF ExportInit, EInv
<1> QED BY <1>1, ExportNextEInv, PTL DEF ExportSpec

(* The statuses that are exported are those the getter has left.           *)
LEMMA ExportFound ==
  ASSUME IInv, pc = "parsed"
  PROVE  /\ Parsable(TheLayout, record)
         /\ WritesOK(TheLayout, Jsons[type], MembersOf(type))
         /\ Found(TheLayout, MembersOf(type), record, status)
         /\ "" \notin DOMAIN TheLayout
<1>1. Parsable(TheLayout, record)
  BY RecordParsable DEF IInv
<1>2. WritesOK(TheLayout, Jsons[type], MembersOf(type))
  BY WritesAssumption DEF IInv, RecordOK, TheLayout
<1>3. Found(TheLayout, MembersOf(type), record, status)
  BY StatusesDiffer DEF IInv, StatusesAreOfRecord, Found
<1>4. "" \notin DOMAIN TheLayout
  BY <1>1 DEF Parsable, PlacementOK
<1> QED BY <1>1, <1>2, <1>3, <1>4

(* Every key comes from a write that has something to say.                 *)
LEMMA KeyIsWritten ==
  ASSUME EInv, NEW e \in json
  PROVE  /\ pc = "parsed"
         /\ \E w \in Jsons[type] :
              /\ Answer(TheLayout, w, status, record) # "nothing"
              /\ e = Entry(TheLayout, w, status, record)
<1>1. /\ pc = "parsed"
      /\ json = Written(Jsons[type], TheLayout, status, record)
  BY DEF EInv
<1> QED BY <1>1, Zenon DEF Written

WrittenBy(e, L, w, st, r) ==
  Answer(L, w, st, r) # "nothing" /\ e = Entry(L, w, st, r)

Meet(e, f) == e.in = f.in /\ e.key = f.key

SayTheSame(e, f) ==
  /\ e.says = f.says /\ e.shows = f.shows
  /\ e.says = "value" => e.form = f.form

(* Two writes that meet under a key say the same there.                    *)
LEMMA MeetingWrites ==
  ASSUME NEW L, NEW W, NEW S, NEW r, NEW st, Parsable(L, r),
         WritesOK(L, W, S), Found(L, S, r, st), "" \notin DOMAIN L,
         NEW w \in W, NEW v \in W, w # v, NEW e, NEW f, Meet(e, f),
         WrittenBy(e, L, w, st, r), WrittenBy(f, L, v, st, r)
  PROVE  SayTheSame(e, f)
<1> USE DEF WrittenBy, Meet, SayTheSame
<1> EntryOf(e, L, w, st, r) /\ EntryOf(f, L, v, st, r)
  BY EntryIs
<1>1. /\ e.says = Answer(L, w, st, r) /\ e.form = w.form
      /\ f.says = Answer(L, v, st, r) /\ f.form = v.form
  BY DEF EntryOf
<1>2. Agree(L, w, v) /\ Agree(L, v, w)
  BY DEF WritesOK
<1>3. /\ Sources(w) \subseteq S /\ w.needs \in Nat
      /\ Sources(v) \subseteq S /\ v.needs \in Nat
      /\ {w.absent, w.unreachable, w.none} \subseteq Words
      /\ {v.absent, v.unreachable, v.none} \subseteq Words
  BY DEF WritesOK, Words
<1>4. ASSUME e.says = "value" PROVE f.says = "value"
  <2> SUFFICES ASSUME f.says # "value" PROVE FALSE
    OBVIOUS
  <2>1. w.in = v.gap /\ v.gapKey \in ValueKeys(w)
    BY <1>4, KeyOfValue DEF EntryOf
  <2>2. Follows(L, w, v)
    BY <1>2, <2>1 DEF Agree
  <2> QED BY <1>1, <1>3, <1>4, <2>2, FollowerSays
<1>5. ASSUME f.says = "value" PROVE e.says = "value"
  <2> SUFFICES ASSUME e.says # "value" PROVE FALSE
    OBVIOUS
  <2>1. v.in = w.gap /\ w.gapKey \in ValueKeys(v)
    BY <1>5, KeyOfValue DEF EntryOf
  <2>2. Follows(L, v, w)
    BY <1>2, <2>1 DEF Agree
  <2> QED BY <1>1, <1>3, <1>5, <2>2, FollowerSays
<1>6. CASE e.says = "value"
  <2>1. f.says = "value"
    BY <1>4, <1>6
  <2>2. /\ e.in = w.in /\ f.in = v.in
        /\ e.key \in ValueKeys(w) /\ f.key \in ValueKeys(v)
        /\ e.shows = Shown(w, st) /\ f.shows = Shown(v, st)
    BY <1>6, <2>1, KeyOfValue DEF EntryOf
  <2>3. /\ w.second = "" /\ v.second = ""
        /\ w.shows = v.shows /\ w.form = v.form
    BY <1>2, <2>2 DEF Agree
  <2>4. Sources(w) \subseteq {w.of} /\ Sources(v) \subseteq {v.of}
    BY <2>3 DEF Sources
  <2>5. st[w.of] = PRESENT /\ st[v.of] = PRESENT
    <3>1. PICK z \in Sources(w) : st[z] = PRESENT
      BY <1>1, <1>3, <1>6, AnswerIs
    <3>2. PICK z2 \in Sources(v) : st[z2] = PRESENT
      BY <1>1, <1>3, <2>1, AnswerIs
    <3> QED BY <2>4, <3>1, <3>2
  <2> QED BY <1>1, <1>6, <2>1, <2>2, <2>3, <2>5 DEF Shown
<1>7. CASE e.says # "value"
  <2>1. f.says # "value"
    BY <1>5, <1>7
  <2>2. /\ w.gap = v.gap /\ w.gapKey = v.gapKey
        /\ e.shows = "" /\ f.shows = ""
    BY <1>7, <2>1 DEF EntryOf
  <2>3. SameGaps(w, v) \/ (NullOnly(w) /\ NullOnly(v))
    BY <1>2, <2>2 DEF Agree
  <2>4. CASE SameGaps(w, v)
    BY <1>1, <1>7, <2>2, <2>4, SameAnswer
  <2>5. CASE NullOnly(w) /\ NullOnly(v)
    <3>1. r.length \in Nat
      BY DEF Parsable
    <3>2. e.says = "null" /\ f.says = "null"
      BY <1>1, <1>7, <2>1, <2>5, <3>1, GapIsNull
    <3> QED BY <2>2, <3>2
  <2> QED BY <2>3, <2>4, <2>5
<1> QED BY <1>6, <1>7

(* No object says two things under one key, whichever bytes of whatever    *)
(* structure are there: not a value and a null, nor the values of two      *)
(* members, nor one raw and decoded.                                       *)
THEOREM NothingContradicts == ExportSpec => []NoContradiction
<1>1. ASSUME EInv PROVE NoContradiction
  <2> SUFFICES ASSUME NEW e \in json, NEW f \in json, Meet(e, f)
               PROVE  SayTheSame(e, f)
    BY DEF NoContradiction, Meet, SayTheSame
  <2> DEFINE L == TheLayout
             S == MembersOf(type)
             W == Jsons[type]
             st == status
             r == record
  <2>1. pc = "parsed" /\ IInv
    BY <1>1, KeyIsWritten DEF EInv
  <2>2. /\ Parsable(L, r) /\ WritesOK(L, W, S) /\ Found(L, S, r, st)
        /\ "" \notin DOMAIN L
    BY <2>1, ExportFound
  <2>3. PICK w \in W : WrittenBy(e, L, w, st, r)
    BY <1>1, KeyIsWritten DEF WrittenBy
  <2>4. PICK v \in W : WrittenBy(f, L, v, st, r)
    BY <1>1, KeyIsWritten DEF WrittenBy
  <2> HIDE DEF L, S, W, st, r
  <2>5. CASE w = v
    BY <2>3, <2>4, <2>5 DEF WrittenBy, SayTheSame
  <2>6. CASE w # v
    BY <2>2, <2>3, <2>4, <2>6, MeetingWrites, Zenon
  <2> QED BY <2>5, <2>6
<1> QED BY <1>1, ExportInvariance, PTL

(* No member that is PRESENT is written as null: an array of none is null  *)
(* only where the getter has it ABSENT.                                    *)
THEOREM PresentIsNotNull == ExportSpec => []PresentNeverNull
<1>1. ASSUME EInv PROVE PresentNeverNull
  <2> SUFFICES ASSUME NEW e \in json, e.says = "null",
                      e.of \in MembersOf(type), status[e.of] = PRESENT
               PROVE  FALSE
    BY DEF PresentNeverNull, PresentMembers
  <2> DEFINE L == TheLayout
             r == record
  <2>1. pc = "parsed" /\ IInv
    BY <1>1, KeyIsWritten DEF EInv
  <2>2. PICK w \in Jsons[type] : e = Entry(L, w, status, r)
    BY <1>1, KeyIsWritten
  <2>3. e.of = w.of /\ Answer(L, w, status, r) = "null"
    <3>1. EntryOf(e, L, w, status, r)
      BY <2>2, EntryIs
    <3> HIDE DEF L, r
    <3> QED BY <3>1 DEF EntryOf
  <2>4. /\ Parsable(L, r) /\ NullArrayOK(L, w)
        /\ {w.absent, w.unreachable, w.none} \subseteq Words
        /\ "" \notin DOMAIN L
        /\ w.of \in DOMAIN L /\ Status(L, w.of, r) = PRESENT
    BY <2>1, <2>3, ExportFound DEF WritesOK, Words, Found
  <2>5. w.count \in DOMAIN L /\ r.value[w.count] = 0 /\ w.none = "null"
    <3>1. w.of # ""
      BY <2>4
    <3>2. PRESENT \in {status[x] : x \in Sources(w)}
      BY <2>3, <3>1 DEF Sources
    <3>3. Answer(L, w, status, r) =
            IF w.count \in DOMAIN L /\ r.value[w.count] = 0 THEN w.none
            ELSE IF r.length < w.needs THEN "empty" ELSE "value"
      BY <3>2, Zenon DEF Answer
    <3> HIDE DEF L, r
    <3> QED BY <2>3, <3>3
  <2>6. /\ L[w.of].kind = "items" /\ L[w.of].count = w.count
        /\ L[w.of].empty = ABSENT
    BY <2>4, <2>5 DEF NullArrayOK
  <2>7. ReadStatus(L, w.of, r) = PRESENT
    BY <2>4, StatusIs DEF Parsable
  <2>8. ArrayStatus(L, w.of, r) = PRESENT
    BY <2>6, <2>7, ReadStatusIs
  <2>9. Count(L[w.of], r) = 0
    BY <2>5, <2>6 DEF Count
  <2> QED BY <2>6, <2>8, <2>9, ArrayStatusIs, StatusesDiffer
<1> QED BY <1>1, ExportInvariance, PTL

(* Every member that is PRESENT is in the object, but for those that never *)
(* are: itself, or the member it stands in for, or as the length of an     *)
(* array.                                                                  *)
THEOREM PresentGetsShown == ExportSpec => []PresentIsShown
<1>1. ASSUME EInv PROVE PresentIsShown
  <2> SUFFICES
        ASSUME json # {}, NEW x \in PresentMembers \ NeverShown
        PROVE  \/ \E e \in json :
                    e.shows = x \/ (e.of = x /\ e.says = "empty")
               \/ \E w \in Jsons[type] : w.second = x /\ status[w.of] = PRESENT
               \/ \E w \in Jsons[type] : w.count = x
               \/ \E w \in Jsons[type] : w.of = x /\ HasNone(w)
    BY DEF PresentIsShown
  <2> DEFINE L == TheLayout
             r == record
  <2>1. /\ pc = "parsed" /\ IInv
        /\ json = Written(Jsons[type], L, status, r)
    BY <1>1 DEF EInv
  <2>2. x \in MembersOf(type) /\ status[x] = PRESENT
    BY DEF PresentMembers
  <2>3. x \in DOMAIN L
    BY <2>1, <2>2, ExportFound DEF Found
  <2>4. PICK w \in Jsons[type] : MeantFor(w, x)
    BY <2>1, <2>3, ExportFound DEF WritesOK
  <2> DEFINE says == Answer(L, w, status, r)
             e == Entry(L, w, status, r)
  <2>5. /\ e.says = says /\ e.of = w.of
        /\ says = "value" => e.shows = Shown(w, status)
    <3>1. EntryOf(e, L, w, status, r)
      BY EntryIs
    <3> HIDE DEF e
    <3> QED BY <3>1 DEF EntryOf
  <2>6. ASSUME says # "nothing" PROVE e \in json
    BY <2>1, <2>6, Zenon DEF Written
  <2>7. ASSUME PRESENT \in {status[y] : y \in Sources(w)}
        PROVE  says = IF w.count \in DOMAIN L /\ r.value[w.count] = 0
                      THEN w.none
                      ELSE IF r.length < w.needs THEN "empty" ELSE "value"
    BY <2>7, Zenon DEF Answer
  <2>8. /\ "" \notin DOMAIN L /\ r.length \in Nat
    BY <2>1, ExportFound DEF Parsable
  <2>9. CASE w.of = x /\ w.shows = x
    <3>1. PRESENT \in {status[y] : y \in Sources(w)}
      BY <2>2, <2>3, <2>8, <2>9 DEF Sources
    <3>2. CASE HasNone(w)
      BY <2>9, <3>2
    <3>3. CASE ~HasNone(w)
      <4>1. says \in {"empty", "value"}
        BY <2>7, <3>1, <3>3, Zenon DEF HasNone
      <4> HIDE DEF says, e, L, r
      <4>2. e \in json
        BY <2>6, <4>1
      <4>3. says = "value" => e.shows = x
        BY <2>2, <2>5, <2>9 DEF Shown
      <4> QED BY <2>5, <2>9, <4>1, <4>2, <4>3
    <3> QED BY <3>2, <3>3
  <2>10. CASE w.second = x /\ w.count = "" /\ w.needs = 0
    <3>1. CASE status[w.of] = PRESENT
      BY <2>10, <3>1
    <3>2. CASE status[w.of] # PRESENT
      <4>1. PRESENT \in {status[y] : y \in Sources(w)}
        BY <2>2, <2>3, <2>8, <2>10 DEF Sources
      <4>2. ~(r.length < w.needs)
        BY <2>8, <2>10, NotNegative, Zenon
      <4>3. says = "value"
        BY <2>7, <2>8, <2>10, <4>1, <4>2, Zenon
      <4>4. e.shows = x
        BY <2>5, <2>10, <3>2, <4>3 DEF Shown
      <4> HIDE DEF says, e, L, r
      <4>5. e \in json
        BY <2>6, <4>3
      <4> QED BY <4>4, <4>5
    <3> QED BY <3>1, <3>2
  <2> QED BY <2>4, <2>9, <2>10 DEF MeantFor
<1> QED BY <1>1, ExportInvariance, PTL

=============================================================================
