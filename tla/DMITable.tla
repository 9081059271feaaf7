------------------------------ MODULE DMITable ------------------------------
(***************************************************************************)
(* The byte layout of an SMBIOS structure table and the two functions      *)
(* every parser walks it with: DMINext finds the structure after the one   *)
(* at p, DMIString the index-th string of a structure's string set.        *)
(*                                                                         *)
(* A table is a sequence of bytes; a pointer into it is an offset, the     *)
(* first byte being at offset 0, and `end` is one past the last byte.      *)
(***************************************************************************)
EXTENDS Integers, Sequences, FiniteSets

HeaderSize == 4      (* SMBIOS_HEADER_SIZE: type, length, handle            *)
EndOfTable == 127    (* SMBIOS_TYPE_END                                     *)
NoString   == -1     (* DMIString's NULL                                    *)

At(t, p)         == t[p + 1]
TypeAt(t, p)     == At(t, p)
LengthAt(t, p)   == At(t, p + 1)
DoubleNul(t, q)  == At(t, q) = 0 /\ At(t, q + 1) = 0

Least(S) == CHOOSE x \in S : \A y \in S : x <= y

(* The double NULs DMINext's scan can stop at: those from the end of the   *)
(* formatted area on, both bytes of which lie before `end`.                *)
Terminators(t, p, end) ==
  {q \in p + LengthAt(t, p) .. end - 2 : DoubleNul(t, q)}

(* Mutant: a structure that is cut off does not end the walk. *)
DMINextStuck(t, p, end) ==
  IF \/ end - p < HeaderSize
     \/ LengthAt(t, p) < HeaderSize
     \/ end - p <= LengthAt(t, p)
     \/ Terminators(t, p, end) = {}
  THEN p
  ELSE Least(Terminators(t, p, end)) + 2

(* The structure after the one at p; `end` when the header or the          *)
(* formatted area is cut off, or when no double NUL ends the string set.   *)
DMINext(t, p, end) ==
  IF \/ end - p < HeaderSize
     \/ LengthAt(t, p) < HeaderSize
     \/ end - p <= LengthAt(t, p)
     \/ Terminators(t, p, end) = {}
  THEN end
  ELSE Least(Terminators(t, p, end)) + 2

(* Mutant: string numbers start at 0. *)
DMIStringFromZero(t, p, length, i, end) ==
  LET first == p + length
      last  == end - 2
      NulFrom(q) == Least({r \in q .. last : At(t, r) = 0})
      Usable(q)  == q < last /\ At(t, q) # 0
      skip[k \in 0 .. i] ==
        IF k = 0 THEN first
        ELSE IF skip[k - 1] = NoString \/ ~Usable(skip[k - 1])
                \/ NulFrom(skip[k - 1]) >= last
             THEN NoString
             ELSE NulFrom(skip[k - 1]) + 1
  IN  IF \/ length < HeaderSize \/ end - p <= length
         \/ end - first < 2 \/ ~DoubleNul(t, last)
      THEN NoString
      ELSE IF skip[i] # NoString /\ Usable(skip[i]) THEN skip[i] ELSE NoString

(* The index-th string of the structure at p whose formatted area is       *)
(* `length` bytes long, `end` being the next structure: its offset, or     *)
(* NoString.  skip[i] is where the loop stands before the i-th string.     *)
DMIString(t, p, length, i, end) ==
  LET first == p + length
      last  == end - 2
      NulFrom(q) == Least({r \in q .. last : At(t, r) = 0})
      Usable(q)  == q < last /\ At(t, q) # 0
      skip[k \in 1 .. i] ==
        IF k = 1 THEN first
        ELSE IF skip[k - 1] = NoString \/ ~Usable(skip[k - 1])
                \/ NulFrom(skip[k - 1]) >= last
             THEN NoString
             ELSE NulFrom(skip[k - 1]) + 1
  IN  IF \/ i = 0 \/ length < HeaderSize \/ end - p <= length
         \/ end - first < 2 \/ ~DoubleNul(t, last)
      THEN NoString
      ELSE IF skip[i] # NoString /\ Usable(skip[i]) THEN skip[i] ELSE NoString

(* A structure stands at p: both lazybiosBuildTypeIndex and                *)
(* lazybiosCountStructsByType stop at the first offset where none does.    *)
StructureAt(t, p) ==
  /\ p + HeaderSize < Len(t)
  /\ TypeAt(t, p) # EndOfTable
  /\ LengthAt(t, p) >= HeaderSize

(* Mutant: no clamp. *)
Unclamped(len, p, end) == len

(* LAZYBIOS_CLAMP_STRUCTURE_LENGTH *)
ClampLength(len, p, end) == IF end - p < len THEN end - p ELSE len

=============================================================================
