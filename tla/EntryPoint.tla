----------------------------- MODULE EntryPoint -----------------------------
(***************************************************************************)
(* The SMBIOS entry point as the library reads and writes it: which bytes  *)
(* lazybiosInspectEntryPoint accepts, where they say the table is, how a   *)
(* merged file is laid out, and the entry point lazybios constructs from   *)
(* the header Windows returns.                                             *)
(*                                                                         *)
(* Bytes are sequences of 0 .. 255; offsets are those of the code, the     *)
(* first byte being at offset 0.                                           *)
(***************************************************************************)
EXTENDS Integers, Sequences

SMBIOS3_ANCHOR == <<95, 83, 77, 51, 95>>                        (* "_SM3_" *)
SMBIOS2_ANCHOR == <<95, 83, 77, 95>>                            (* "_SM_"  *)
SMBIOS2_INTERMEDIATE_ANCHOR == <<95, 68, 77, 73, 95>>           (* "_DMI_" *)

SMBIOS3_ENTRY_POINT_LENGTH == 24
SMBIOS2_ENTRY_POINT_LENGTH == 31
IntermediateOffset == 16

ByteAt(d, i) == d[i + 1]

(* d has the bytes b at offset i. *)
HasAt(d, i, b) == Len(d) >= i + Len(b) /\ SubSeq(d, i + 1, i + Len(b)) = b

(* The 8-bit sum of the bytes from offset a up to, not including, z. *)
Sum(d, a, z) ==
  LET s[k \in a .. z] == IF k = a THEN 0 ELSE (s[k - 1] + d[k]) % 256
  IN  s[z]

(* lazybiosVerifyChecksum *)
ChecksumValid(d, a, z) == Sum(d, a, z) = 0

(* A little-endian field of n bytes.  Huge stands for every value of 2^24  *)
(* or more: no file or window is that long, so the comparisons and sums    *)
(* the code makes with such a value come out the same.                     *)
Huge == 16777216

ReadLE(d, i, n) ==
  IF \E k \in 3 .. n - 1 : ByteAt(d, i + k) # 0
  THEN Huge
  ELSE ByteAt(d, i) + 256 * ByteAt(d, i + 1)
         + (IF n > 2 THEN 65536 * ByteAt(d, i + 2) ELSE 0)

-----------------------------------------------------------------------------
(* lazybiosInspectEntryPoint *)

Rejected == [tag |-> "unknown", length |-> 0,
             checksum_valid |-> FALSE, intermediate_checksum_valid |-> FALSE]

(* Mutant: a byte beyond the declared length is asked for. *)
WholeStrict(d, minimum, length_offset) ==
  /\ Len(d) >= minimum
  /\ ByteAt(d, length_offset) \in minimum .. Len(d) - 1

(* The smallest length, and the declared one, lie within what is there. *)
Whole(d, minimum, length_offset) ==
  /\ Len(d) >= minimum
  /\ ByteAt(d, length_offset) \in minimum .. Len(d)

Inspect(d) ==
  IF HasAt(d, 0, SMBIOS3_ANCHOR) /\ Whole(d, SMBIOS3_ENTRY_POINT_LENGTH, 6)
  THEN [tag |-> "3x", length |-> ByteAt(d, 6),
        checksum_valid |-> ChecksumValid(d, 0, ByteAt(d, 6)),
        intermediate_checksum_valid |-> TRUE]
  ELSE IF /\ HasAt(d, 0, SMBIOS2_ANCHOR)
          /\ Whole(d, SMBIOS2_ENTRY_POINT_LENGTH, 5)
          /\ HasAt(d, IntermediateOffset, SMBIOS2_INTERMEDIATE_ANCHOR)
  THEN [tag |-> "2x", length |-> ByteAt(d, 5),
        checksum_valid |-> ChecksumValid(d, 0, ByteAt(d, 5)),
        intermediate_checksum_valid |->
          ChecksumValid(d, IntermediateOffset, SMBIOS2_ENTRY_POINT_LENGTH)]
  ELSE Rejected

Accepted(d) == Inspect(d).tag # "unknown"

(* Accepted, and with good checksums. *)
Valid(d) ==
  LET found == Inspect(d)
  IN  found.checksum_valid /\ found.intermediate_checksum_valid

(* What lazybiosParseEntry keeps of an accepted entry point, as far as the *)
(* library uses it again.                                                  *)
ParsedEntry(d) ==
  IF Inspect(d).tag = "3x"
  THEN [tag |-> "3x", major |-> ByteAt(d, 7), minor |-> ByteAt(d, 8),
        address |-> ReadLE(d, 16, 8), length |-> ReadLE(d, 12, 4)]
  ELSE [tag |-> "2x", major |-> ByteAt(d, 6), minor |-> ByteAt(d, 7),
        address |-> ReadLE(d, 24, 4), length |-> ReadLE(d, 22, 2)]

(* lazybiosGetSMBIOSTableLocation: the guard and the result. *)
HasTableLocation(d) ==
  /\ Valid(d)
  /\ ParsedEntry(d).address # 0 /\ ParsedEntry(d).length # 0

TableLocation(d) ==
  [from |-> ParsedEntry(d).address, length |-> ParsedEntry(d).length]

-----------------------------------------------------------------------------
(* lazybiosGetSingleFileLayout *)

HasLayout(d, file_len) == Accepted(d) /\ Inspect(d).length < file_len

(* Mutant: the advertised length is compared with the whole file. *)
LayoutWholeFile(d, file_len) ==
  LET said  == TableLocation(d)
      after == Inspect(d).length
  IN  IF /\ said.from \in after .. file_len - 1
         /\ said.length # 0 /\ said.length <= file_len
      THEN said
      ELSE [from |-> after, length |-> file_len - after]

(* The advertised range when it is complete and behind the entry point,    *)
(* and all that follows the entry point otherwise.                         *)
Layout(d, file_len) ==
  LET said  == TableLocation(d)
      after == Inspect(d).length
  IN  IF /\ said.from \in after .. file_len - 1
         /\ said.length # 0 /\ said.length <= file_len - said.from
      THEN said
      ELSE [from |-> after, length |-> file_len - after]

-----------------------------------------------------------------------------
(* lazybiosLoadWindowsRawSMBIOSData *)

(* d with the bytes b from offset i on. *)
Write(d, i, b) ==
  [k \in DOMAIN d |-> IF k - i \in 1 .. Len(b) THEN b[k - i] ELSE d[k]]

WriteLE(value, n) ==
  [k \in 1 .. n |-> CASE k = 1 -> value % 256
                      [] k = 2 -> (value \div 256) % 256
                      [] k = 3 -> (value \div 65536) % 256
                      [] OTHER -> 0]

(* set_checksum: the byte at c is stored so that the range sums to zero. *)
SetChecksum(d, a, z, c) ==
  LET cleared == Write(d, c, <<0>>)
  IN  Write(d, c, <<(256 - Sum(cleared, a, z)) % 256>>)

Zeros(n) == [k \in 1 .. n |-> 0]

WindowsHeader == 8

(* Mutant: the main checksum is computed before the intermediate one. *)
MakeEntry2Early(major, minor, length) ==
  LET blank   == Write(Zeros(SMBIOS2_ENTRY_POINT_LENGTH), 0, SMBIOS2_ANCHOR)
      version == Write(blank, 5, <<SMBIOS2_ENTRY_POINT_LENGTH, major, minor>>)
      dmi     == Write(version, IntermediateOffset,
                       SMBIOS2_INTERMEDIATE_ANCHOR)
      table   == Write(dmi, 22, WriteLE(length, 2))
      bcd     == Write(table, 30, <<(16 * major + (minor % 16)) % 256>>)
      main    == SetChecksum(bcd, 0, SMBIOS2_ENTRY_POINT_LENGTH, 4)
  IN  SetChecksum(main, IntermediateOffset, SMBIOS2_ENTRY_POINT_LENGTH, 21)

(* The 2.x entry point: its second half sums to zero by the intermediate   *)
(* checksum, so the main one needs to balance the first half only.         *)
MakeEntry2(major, minor, length) ==
  LET blank   == Write(Zeros(SMBIOS2_ENTRY_POINT_LENGTH), 0, SMBIOS2_ANCHOR)
      version == Write(blank, 5, <<SMBIOS2_ENTRY_POINT_LENGTH, major, minor>>)
      dmi     == Write(version, IntermediateOffset,
                       SMBIOS2_INTERMEDIATE_ANCHOR)
      table   == Write(dmi, 22, WriteLE(length, 2))
      bcd     == Write(table, 30, <<(16 * major + (minor % 16)) % 256>>)
      inner   == SetChecksum(bcd, IntermediateOffset,
                             SMBIOS2_ENTRY_POINT_LENGTH, 21)
  IN  SetChecksum(inner, 0, IntermediateOffset, 4)

MakeEntry3(major, minor, docrev, length) ==
  LET blank   == Write(Zeros(SMBIOS3_ENTRY_POINT_LENGTH), 0, SMBIOS3_ANCHOR)
      version == Write(blank, 6, <<SMBIOS3_ENTRY_POINT_LENGTH,
                                   major, minor, docrev, 1>>)
      table   == Write(version, 12, WriteLE(length, 4))
  IN  SetChecksum(table, 0, SMBIOS3_ENTRY_POINT_LENGTH, 5)

(* The header's table length must be that of a table which is there, and   *)
(* must fit the 16-bit field of a 2.x entry point.                         *)
WindowsUsable(raw) ==
  /\ Len(raw) >= WindowsHeader
  /\ ReadLE(raw, 4, 4) \in 1 .. Len(raw) - WindowsHeader
  /\ ByteAt(raw, 1) < 3 => ReadLE(raw, 4, 4) <= 65535

MakeEntry(raw) ==
  LET length == ReadLE(raw, 4, 4)
  IN  IF ByteAt(raw, 1) >= 3
      THEN MakeEntry3(ByteAt(raw, 1), ByteAt(raw, 2), ByteAt(raw, 3), length)
      ELSE MakeEntry2(ByteAt(raw, 1), ByteAt(raw, 2), length)

=============================================================================
