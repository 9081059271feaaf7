------------------------- MODULE PhysicalReadProofs -------------------------
(***************************************************************************)
(* For all sizes of the types, of pages and of the device, and for every   *)
(* range: a range that PhysicalRead reports as read is exactly that range. *)
(***************************************************************************)
EXTENDS PhysicalRead, TLAPS

(* Nothing is counted before the first read, and an empty range has been   *)
(* rejected by then.                                                       *)
Started ==
  /\ pc = "range" => total = 0
  /\ pc \in {"pread", "seek"} => length > 0

IInv == TypeOK /\ Started /\ PartInPlace /\ ReadsExactly

USE SizesAssumption DEF SizesAssumption

(* The bytes of the buffer that Take does not write keep their values, and *)
(* those it writes are those of the device from offset on.                 *)
LEMMA TakeInPlace ==
  ASSUME NEW offset \in Nat, NEW k \in Nat,
         IInv, pc \in {"pread", "read"}, Gives(offset, k), Take(offset, k),
         offset = address + total
  PROVE  /\ total' = total + k /\ total' \in 0 .. length
         /\ buffer' \in
              [0 .. length - 1 -> (0 .. DeviceSize - 1) \cup {Garbage}]
         /\ \A j \in 0 .. total' - 1 : buffer'[j] = address + j
<1>1. k \in Nat \ {0} /\ k <= length - total /\ k <= DeviceSize - offset
  <2>1. length \in Nat /\ total \in Nat
    BY DEF IInv, TypeOK
  <2>2. ASSUME NEW a \in Int, NEW b \in Int, NEW c \in Int,
               k \in 1 .. Min2(Min2(a, b), c)
        PROVE  k >= 1 /\ k <= a /\ k <= c
    BY <2>2 DEF Min2
  <2>3. length - total \in Int /\ DeviceSize - offset \in Int
    BY <2>1
  <2>4. k \in 1 .. Min2(Min2(length - total, ReadMax), DeviceSize - offset)
    BY DEF Gives
  <2> QED
    BY <2>2, <2>3, <2>4
<1>2. total' = total + k /\ total' \in 0 .. length
  BY <1>1 DEF Take, IInv, TypeOK
<1>3. ASSUME NEW j \in 0 .. length - 1
      PROVE  /\ buffer'[j] \in (0 .. DeviceSize - 1) \cup {Garbage}
             /\ j < total + k => buffer'[j] = address + j
  <2>1. CASE j \in total .. total + k - 1
    BY <1>1, <2>1 DEF Take, IInv, TypeOK
  <2>2. CASE j \notin total .. total + k - 1
    <3>1. buffer'[j] = buffer[j]
      BY <2>2 DEF Take
    <3>2. j < total + k => j \in 0 .. total - 1
      BY <1>1, <2>2 DEF IInv, TypeOK
    <3>3. buffer[j] \in (0 .. DeviceSize - 1) \cup {Garbage}
      BY DEF IInv, TypeOK
    <3>4. j < total + k => buffer[j] = address + j
      BY <3>2 DEF IInv, PartInPlace
    <3> QED
      BY <3>1, <3>3, <3>4
  <2> QED
    BY <2>1, <2>2
<1>4. buffer' \in [0 .. length - 1 -> (0 .. DeviceSize - 1) \cup {Garbage}]
  BY <1>3 DEF Take
<1> QED
  BY <1>1, <1>2, <1>3, <1>4 DEF IInv, TypeOK

(* The mapping covers the range: no byte is read from behind its end.      *)
LEMMA MappingCovers ==
  ASSUME IInv, RangeUsable, SizesFit
  PROVE  /\ PageOffset \in Nat /\ MapSize \in Nat
         /\ PageOffset + length <= MapSize
         /\ ToOff(address) = address
<1>1. PageOffset \in Nat
  BY DEF PageOffset, IInv, TypeOK
<1>2. Required \in Nat /\ Padding \in Nat
  <2>1. Required \in Nat
    BY <1>1 DEF Required, IInv, TypeOK
  <2> DEFINE r == Required % PageSize
  <2>2. r \in 0 .. PageSize - 1
    BY <2>1
  <2>3. Padding = IF r = 0 THEN 0 ELSE PageSize - r
    BY DEF Padding
  <2> HIDE DEF r
  <2> QED
    BY <2>1, <2>2, <2>3
<1>3. Required + Padding \in 0 .. SizeMax
  BY <1>2 DEF SizesFit
<1>4. MapSize = Required + Padding
  <2> DEFINE n == Required + Padding
  <2>1. ASSUME NEW m \in 0 .. SizeMax PROVE m % (SizeMax + 1) = m
    OBVIOUS
  <2>2. n % (SizeMax + 1) = n
    BY <1>3, <2>1
  <2> QED
    BY <2>2 DEF MapSize
<1> QED
  BY <1>1, <1>2, <1>4 DEF Required, RangeUsable, FitsOff, IInv, TypeOK

LEMMA InitIInv == Init => IInv
BY DEF Init, IInv, TypeOK, Started, PartInPlace, ReadsExactly

LEMMA MapRangeStep == IInv /\ MapRange => IInv'
<1> SUFFICES ASSUME IInv, MapRange PROVE IInv'
  OBVIOUS
<1> DEFINE aligned == ToOff(address) - PageOffset
<1>1. /\ PageOffset \in Nat /\ MapSize \in Nat
      /\ PageOffset + length <= MapSize /\ ToOff(address) = address
  BY MappingCovers DEF MapRange
<1>2. aligned + MapSize <= DeviceSize
  BY DEF MapRange
<1>3. ASSUME NEW k \in 0 .. length - 1
      PROVE  buffer'[k] = address + k /\ address + k \in 0 .. DeviceSize - 1
  <2>1. buffer'[k] = IF PageOffset + k < MapSize
                     THEN aligned + PageOffset + k ELSE Fault
    BY DEF MapRange
  <2>2. address \in Nat /\ length \in Nat
    BY DEF IInv, TypeOK
  <2>3. PageOffset + k < MapSize
    BY <1>1, <2>2
  <2>4. aligned + PageOffset + k = address + k
    BY <1>1, <2>2
  <2>5. address + k < DeviceSize
    BY <1>1, <1>2, <2>2, <2>3
  <2> QED
    BY <2>1, <2>2, <2>3, <2>4, <2>5
<1>4. buffer' \in [0 .. length - 1 -> (0 .. DeviceSize - 1) \cup {Garbage}]
  BY <1>3 DEF MapRange
<1> QED
  BY <1>3, <1>4
     DEF MapRange, RangeUsable, IInv, TypeOK, Started, PartInPlace,
         ReadsExactly

LEMMA PreadSomeStep == IInv /\ PreadSome => IInv'
<1> SUFFICES ASSUME IInv, PreadSome PROVE IInv'
  OBVIOUS
<1>1. PreadOffset = address + total
  BY DEF PreadSome, HasPreadOffset, PreadOffset, FitsOff
<1>2. PICK k \in 1 .. length - total :
        /\ Gives(PreadOffset, k) /\ Take(PreadOffset, k)
        /\ pc' = IF total + k = length THEN "done" ELSE "pread"
  BY DEF PreadSome
<1>3. PreadOffset \in Nat /\ k \in Nat
  BY <1>1 DEF IInv, TypeOK
<1>4. /\ total' = total + k /\ total' \in 0 .. length
      /\ buffer' \in [0 .. length - 1 -> (0 .. DeviceSize - 1) \cup {Garbage}]
      /\ \A j \in 0 .. total' - 1 : buffer'[j] = address + j
  BY <1>1, <1>2, <1>3, TakeInPlace DEF PreadSome
<1> QED
  BY <1>2, <1>4 DEF PreadSome, IInv, TypeOK, Started, PartInPlace,
         ReadsExactly

LEMMA SeekStep == IInv /\ Seek => IInv'
<1> SUFFICES ASSUME IInv, Seek PROVE IInv'
  OBVIOUS
<1>1. pos' = address
  BY DEF Seek, FitsOff
<1>2. length > 0
  BY DEF Seek, IInv, Started
<1> QED
  BY <1>1, <1>2 DEF Seek, IInv, TypeOK, Started, PartInPlace,
         ReadsExactly

LEMMA ReadSomeStep == IInv /\ ReadSome => IInv'
<1> SUFFICES ASSUME IInv, ReadSome PROVE IInv'
  OBVIOUS
<1>1. PICK k \in 1 .. length - total :
        /\ Gives(pos, k) /\ Take(pos, k) /\ pos' = pos + k
        /\ pc' = IF total + k = length THEN "done" ELSE "read"
  BY DEF ReadSome
<1>2. pos = address + total /\ pos \in Nat /\ k \in Nat
  BY DEF ReadSome, IInv, TypeOK, PartInPlace
<1>3. /\ total' = total + k /\ total' \in 0 .. length
      /\ buffer' \in [0 .. length - 1 -> (0 .. DeviceSize - 1) \cup {Garbage}]
      /\ \A j \in 0 .. total' - 1 : buffer'[j] = address + j
  BY <1>1, <1>2, TakeInPlace DEF ReadSome
<1> QED
  BY <1>1, <1>2, <1>3
     DEF ReadSome, IInv, TypeOK, Started, PartInPlace,
         ReadsExactly

-----------------------------------------------------------------------------
(* What PhysicalRead reports as read is the range that was asked for. *)

(* The steps that leave the buffer alone do not start or continue a loop   *)
(* anywhere but where it stands.                                           *)
LEMMA OtherSteps ==
  ASSUME IInv,
         \/ RangeRejected \/ MapFails \/ Interrupted \/ PreadFails
         \/ SeekFails \/ ReadFails \/ UNCHANGED vars
  PROVE  IInv'
<1>1. CASE RangeRejected
  BY <1>1 DEF RangeRejected, IInv, TypeOK, Started, PartInPlace, ReadsExactly
<1>2. CASE MapFails
  <2>1. pc' \in {"pread", "seek"} /\ length' > 0 /\ pc = "range"
    BY <1>2 DEF MapFails, RangeUsable, IInv, TypeOK
  <2> QED
    BY <1>2, <2>1
       DEF MapFails, IInv, TypeOK, Started, PartInPlace, ReadsExactly
<1>3. CASE Interrupted
  BY <1>3 DEF Interrupted, IInv, TypeOK, Started, PartInPlace, ReadsExactly
<1>4. CASE PreadFails
  BY <1>4 DEF PreadFails, IInv, TypeOK, Started, PartInPlace, ReadsExactly
<1>5. CASE SeekFails
  BY <1>5 DEF SeekFails, IInv, TypeOK, Started, PartInPlace, ReadsExactly
<1>6. CASE ReadFails
  BY <1>6 DEF ReadFails, IInv, TypeOK, Started, PartInPlace, ReadsExactly
<1>7. CASE UNCHANGED vars
  BY <1>7 DEF vars, IInv, TypeOK, Started, PartInPlace, ReadsExactly
<1> QED
  BY <1>1, <1>2, <1>3, <1>4, <1>5, <1>6, <1>7

LEMMA Step == IInv /\ [Next]_vars => IInv'
BY OtherSteps, MapRangeStep, PreadSomeStep, SeekStep, ReadSomeStep DEF Next

(* The invariant holds always. *)
THEOREM Invariance == Spec => []IInv
BY InitIInv, Step, PTL DEF Spec

(* Counters, offsets and every byte of the buffer stay in their ranges: in *)
(* particular legacy_read_physical_range copies nothing from behind the    *)
(* end of the mapping it made.                                             *)
THEOREM TypeCorrect == Spec => []TypeOK
<1>1. IInv => TypeOK
  BY DEF IInv
<1> QED
  BY <1>1, Invariance, PTL

(* A read that legacy_read_physical_range reports as successful has put    *)
(* exactly the bytes of the range into the buffer, whichever of mmap,      *)
(* pread and lseek/read it ended with.                                     *)
THEOREM ReadIsExact == Spec => []ReadsExactly
<1>1. IInv => ReadsExactly
  BY DEF IInv
<1> QED
  BY <1>1, Invariance, PTL

(* While the loops of legacy_read_full_with_pread and                      *)
(* legacy_read_full_with_seek run, `total` bytes are in place.             *)
THEOREM PartIsInPlace == Spec => []PartInPlace
<1>1. IInv => PartInPlace
  BY DEF IInv
<1> QED
  BY <1>1, Invariance, PTL

-----------------------------------------------------------------------------
(* Every read comes to an end. *)

(* How many steps a read can still take, at most: as many as it may be     *)
(* interrupted, one for each byte the running loop still wants, and for    *)
(* each byte the lseek loop would read after the pread loop gave up.       *)
StepsOfLoops ==
  CASE pc = "range" -> 2 * length + 4
    [] pc = "pread" -> 2 * length - total + 3
    [] pc = "seek"  -> length + 2
    [] pc = "read"  -> length - total + 1
    [] OTHER        -> 0

StepsLeft == (MaxInterrupts - interrupts) + StepsOfLoops

LEMMA StepsOfLoopsNatural == IInv => StepsOfLoops \in Nat
<1> SUFFICES ASSUME IInv PROVE StepsOfLoops \in Nat
  OBVIOUS
<1>1. length \in Nat /\ total \in 0 .. length
  BY DEF IInv, TypeOK
<1>2. 2 * length + 4 \in Nat /\ 2 * length - total + 3 \in Nat
  BY <1>1
<1>3. length + 2 \in Nat /\ length - total + 1 \in Nat
  BY <1>1
<1> QED
  BY <1>2, <1>3, Zenon DEF StepsOfLoops

LEMMA NaturalNext == IInv' => (StepsOfLoops \in Nat)'
BY StepsOfLoopsNatural, PTL

LEMMA StepsLeftNatural == IInv => StepsLeft \in Nat
BY StepsOfLoopsNatural DEF StepsLeft, IInv, TypeOK

(* A read that gets bytes gets at least one, and no more than are wanted.  *)
LEMMA TakeCounts ==
  ASSUME IInv, NEW k \in 1 .. length - total, NEW offset, Take(offset, k)
  PROVE  total' > total /\ total' <= length /\ total' \in Nat
BY DEF Take, IInv, TypeOK

(* A step that is no interruption is one of a loop, or between two.        *)
LEMMA LoopsRunDown ==
  ASSUME IInv, Next, ~Interrupted
  PROVE  StepsOfLoops' < StepsOfLoops /\ interrupts' = interrupts
<1>1. /\ total \in Nat /\ length \in Nat /\ total <= length
      /\ pc = "range" => total = 0
  BY DEF IInv, TypeOK, Started
<1>2. CASE RangeRejected
  BY <1>1, <1>2 DEF RangeRejected, StepsOfLoops
<1>3. CASE MapRange
  BY <1>1, <1>3 DEF MapRange, RangeUsable, StepsOfLoops
<1>4. CASE MapFails
  BY <1>1, <1>4 DEF MapFails, RangeUsable, StepsOfLoops
<1>5. CASE PreadSome
  <2>1. /\ total' > total /\ total' <= length /\ total' \in Nat
        /\ pc = "pread" /\ pc' \in {"done", "pread"}
        /\ length' = length /\ interrupts' = interrupts
    BY <1>5, TakeCounts DEF PreadSome
  <2> QED
    BY <1>1, <2>1 DEF StepsOfLoops
<1>6. CASE PreadFails
  BY <1>1, <1>6 DEF PreadFails, StepsOfLoops
<1>7. CASE Seek
  BY <1>1, <1>7 DEF Seek, StepsOfLoops
<1>8. CASE SeekFails
  BY <1>1, <1>8 DEF SeekFails, StepsOfLoops
<1>9. CASE ReadSome
  <2>1. /\ total' > total /\ total' <= length /\ total' \in Nat
        /\ pc = "read" /\ pc' \in {"done", "read"}
        /\ length' = length /\ interrupts' = interrupts
    BY <1>9, TakeCounts DEF ReadSome
  <2> QED
    BY <1>1, <2>1 DEF StepsOfLoops
<1>10. CASE ReadFails
  BY <1>1, <1>10 DEF ReadFails, StepsOfLoops
<1> QED
  BY <1>2, <1>3, <1>4, <1>5, <1>6, <1>7, <1>8, <1>9, <1>10 DEF Next

LEMMA StepsLeftDecrease == IInv /\ Next => StepsLeft' < StepsLeft
<1> SUFFICES ASSUME IInv, Next PROVE StepsLeft' < StepsLeft
  OBVIOUS
<1>1. StepsOfLoops \in Nat /\ interrupts \in 0 .. MaxInterrupts
  BY StepsOfLoopsNatural DEF IInv, TypeOK
<1>2. StepsOfLoops' \in Nat /\ interrupts' \in 0 .. MaxInterrupts
  <2>1. IInv'
    BY Step
  <2>2. StepsOfLoops' \in Nat
    BY <2>1, NaturalNext
  <2>3. interrupts' \in 0 .. MaxInterrupts
    BY <2>1 DEF IInv, TypeOK
  <2> QED
    BY <2>2, <2>3
<1>3. \/ StepsOfLoops' < StepsOfLoops /\ interrupts' = interrupts
      \/ StepsOfLoops' = StepsOfLoops /\ interrupts < interrupts'
  <2>1. CASE Interrupted
    <3>1. interrupts' = interrupts + 1
      BY <2>1 DEF Interrupted
    <3>2. StepsOfLoops' = StepsOfLoops
      BY <2>1 DEF Interrupted, StepsOfLoops
    <3> QED
      BY <1>1, <3>1, <3>2
  <2>2. CASE ~Interrupted
    BY <2>2, LoopsRunDown
  <2> QED
    BY <2>1, <2>2
<1>4. ASSUME NEW i \in 0 .. MaxInterrupts, NEW j \in 0 .. MaxInterrupts,
             NEW s \in Nat, NEW t \in Nat,
             (t < s /\ j = i) \/ (t = s /\ i < j)
      PROVE  (MaxInterrupts - j) + t < (MaxInterrupts - i) + s
  BY <1>4
<1>5. (MaxInterrupts - interrupts') + StepsOfLoops'
        < (MaxInterrupts - interrupts) + StepsOfLoops
  BY <1>1, <1>2, <1>3, <1>4
<1> QED
  BY <1>5 DEF StepsLeft

(* Whatever fails and whatever is short, a read never has more than        *)
(* StepsLeft steps before it: each of them lowers it, and it is never      *)
(* negative.  So no chain of short reads and interruptions goes on for     *)
(* ever, and ReadEnds asks of the scheduler only that the call runs on.    *)
THEOREM ReadRunsDown ==
  Spec => [](StepsLeft \in Nat) /\ [][StepsLeft' < StepsLeft]_vars
<1>1. IInv /\ [Next]_vars => [StepsLeft' < StepsLeft]_vars
  BY StepsLeftDecrease
<1> QED
  BY <1>1, StepsLeftNatural, Invariance, PTL DEF Spec

=============================================================================
