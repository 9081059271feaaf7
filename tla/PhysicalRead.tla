---------------------------- MODULE PhysicalRead ----------------------------
(***************************************************************************)
(* legacy_read_physical_range: how the Haiku, BeOS, MINIX, QNX and generic *)
(* backends get one range of physical memory out of a device that may or   *)
(* may not support mmap and pread: a page-aligned mapping, else positional *)
(* reads, else lseek and reads, each of which may be short, interrupted or *)
(* fail half way.                                                          *)
(*                                                                         *)
(* The byte at physical address a is represented by a itself, so that a    *)
(* byte of the buffer says where it was read.                              *)
(***************************************************************************)
EXTENDS Integers

CONSTANTS
  Uint64Max, SizeMax, OffMax,   (* largest uint64_t, size_t and off_t      *)
  ReadMax,                      (* SSIZE_MAX                               *)
  PageSize,
  DeviceSize,                   (* the device holds 0 .. DeviceSize - 1    *)
  MaxInterrupts                 (* bound on the signals that interrupt it  *)

ASSUME SizesAssumption ==
  /\ Uint64Max \in Nat /\ SizeMax \in Nat /\ OffMax \in Nat
  /\ DeviceSize \in Nat /\ MaxInterrupts \in Nat
  /\ PageSize \in Nat \ {0} /\ ReadMax \in Nat \ {0}
  /\ OffMax < Uint64Max /\ DeviceSize <= OffMax + 1

VARIABLES
  address, length,      (* the range asked for                             *)
  pc,
  total,                (* bytes read so far by the running loop           *)
  pos,                  (* file position of the descriptor                 *)
  buffer,
  interrupts

vars == <<address, length, pc, total, pos, buffer, interrupts>>

Garbage == -1          (* not written yet                                  *)
Fault   == -2          (* read from behind the end of the mapping          *)

Min2(a, b) == IF a <= b THEN a ELSE b

(* Conversion to a signed type of as many bits as OffMax has, and one.     *)
ToOff(value) ==
  LET w == value % (2 * (OffMax + 1))
  IN  IF w > OffMax THEN w - 2 * (OffMax + 1) ELSE w

FitsOff(value) == ToOff(value) >= 0 /\ ToOff(value) = value

(* The position may be where an earlier range was read. *)
Init ==
  /\ address \in 0 .. Uint64Max /\ length \in 0 .. SizeMax
  /\ pc = "range"
  /\ total = 0
  /\ pos \in {0, OffMax}
  /\ buffer = [k \in 0 .. length - 1 |-> Garbage]
  /\ interrupts = 0

-----------------------------------------------------------------------------
(* Through a mapping *)

PageOffset == address % PageSize
Required == length + PageOffset

Padding == IF (Required % PageSize) = 0 THEN 0
           ELSE PageSize - (Required % PageSize)

MapSize == (Required + Padding) % (SizeMax + 1)

(* Mutant: the sizes are added without regard to their width. *)
SizesFitUnchecked == TRUE

SizesFit == length <= SizeMax - PageOffset /\ Required <= SizeMax - Padding

RangeRejected ==
  /\ pc = "range"
  /\ length = 0 \/ ~FitsOff(address)
  /\ pc' = "failed"
  /\ UNCHANGED <<address, length, total, pos, buffer, interrupts>>

RangeUsable == pc = "range" /\ length > 0 /\ FitsOff(address)

MapRange ==
  /\ RangeUsable
  /\ SizesFit /\ MapSize > 0
  /\ LET aligned == ToOff(address) - PageOffset
     IN  /\ aligned + MapSize <= DeviceSize
         /\ buffer' = [k \in 0 .. length - 1 |->
                         IF PageOffset + k < MapSize
                         THEN aligned + PageOffset + k ELSE Fault]
  /\ pc' = "done"
  /\ UNCHANGED <<address, length, total, pos, interrupts>>

(* mmap, or what prepares it, fails.  Whether there is a pread is decided  *)
(* when the library is built.                                              *)
MapFails ==
  /\ RangeUsable
  /\ pc' \in {"pread", "seek"}
  /\ UNCHANGED <<address, length, total, pos, buffer, interrupts>>

-----------------------------------------------------------------------------
(* Reads: the device gives k bytes from offset, at least one and at most   *)
(* what is wanted and what a read can return.                              *)

Gives(offset, k) ==
  k \in 1 .. Min2(Min2(length - total, ReadMax), DeviceSize - offset)

Take(offset, k) ==
  /\ buffer' = [j \in 0 .. length - 1 |->
                  IF j \in total .. total + k - 1
                  THEN offset + (j - total) ELSE buffer[j]]
  /\ total' = total + k

AtEnd(offset) == offset >= DeviceSize

Interrupted ==
  /\ pc \in {"pread", "read"}
  /\ interrupts < MaxInterrupts
  /\ interrupts' = interrupts + 1
  /\ UNCHANGED <<address, length, pc, total, pos, buffer>>

(* legacy_read_full_with_pread *)
HasPreadOffset ==
  total <= Uint64Max - address /\ FitsOff(address + total)

PreadOffset == ToOff(address + total)

PreadSome ==
  /\ pc = "pread" /\ HasPreadOffset
  /\ \E k \in 1 .. length - total :
       /\ Gives(PreadOffset, k)
       /\ Take(PreadOffset, k)
       /\ pc' = IF total + k = length THEN "done" ELSE "pread"
  /\ UNCHANGED <<address, length, pos, interrupts>>

(* No offset, an error, or the end of the device: start again with lseek.  *)
PreadFails ==
  /\ pc = "pread"
  /\ pc' = "seek"
  /\ UNCHANGED <<address, length, total, pos, buffer, interrupts>>

(* legacy_read_full_with_seek *)

(* Mutant: what pread read is not read again. *)
SeekKeepingTotal ==
  /\ pc = "seek" /\ FitsOff(address)
  /\ pos' = ToOff(address)
  /\ pc' = "read"
  /\ UNCHANGED <<address, length, total, buffer, interrupts>>

Seek ==
  /\ pc = "seek" /\ FitsOff(address)
  /\ pos' = ToOff(address)
  /\ total' = 0
  /\ pc' = "read"
  /\ UNCHANGED <<address, length, buffer, interrupts>>

SeekFails ==
  /\ pc = "seek"
  /\ pc' = "failed"
  /\ UNCHANGED <<address, length, total, pos, buffer, interrupts>>

ReadSome ==
  /\ pc = "read"
  /\ \E k \in 1 .. length - total :
       /\ Gives(pos, k)
       /\ Take(pos, k)
       /\ pos' = pos + k
       /\ pc' = IF total + k = length THEN "done" ELSE "read"
  /\ UNCHANGED <<address, length, interrupts>>

(* Mutant: the end of the device is taken for an interruption. *)
ReadFailsNotAtEnd ==
  /\ pc = "read"
  /\ ~AtEnd(pos)
  /\ pc' = "failed"
  /\ UNCHANGED <<address, length, total, pos, buffer, interrupts>>

ReadFails ==
  /\ pc = "read"
  /\ pc' = "failed"
  /\ UNCHANGED <<address, length, total, pos, buffer, interrupts>>

Next ==
  \/ RangeRejected \/ MapRange \/ MapFails
  \/ Interrupted
  \/ PreadSome \/ PreadFails
  \/ Seek \/ SeekFails \/ ReadSome \/ ReadFails

(* A call that is running keeps running. *)
Spec == Init /\ [][Next]_vars /\ WF_vars(Next)

-----------------------------------------------------------------------------
(* Properties *)

TypeOK ==
  /\ address \in 0 .. Uint64Max /\ length \in 0 .. SizeMax
  /\ pc \in {"range", "pread", "seek", "read", "done", "failed"}
  /\ total \in 0 .. length
  /\ pos \in Nat
  /\ interrupts \in 0 .. MaxInterrupts
  /\ buffer \in [0 .. length - 1 -> (0 .. DeviceSize - 1) \cup {Garbage}]

(* A range that is reported as read holds exactly the bytes of that range, *)
(* in order, whichever of the three ways got them and whatever the ways    *)
(* tried before left in the buffer.                                        *)
ReadsExactly ==
  pc = "done" => \A k \in 0 .. length - 1 : buffer[k] = address + k

(* Between two reads, what the loop has counted is what it has in place,   *)
(* and the next read continues where the last one stopped.                 *)
PartInPlace ==
  pc \in {"pread", "read"} =>
    /\ total < length
    /\ \A k \in 0 .. total - 1 : buffer[k] = address + k
    /\ pc = "read" => pos = address + total

(* Every read ends, in success or in failure, unless it is interrupted     *)
(* without end.                                                            *)
ReadEnds == <>(pc \in {"done", "failed"})

=============================================================================
