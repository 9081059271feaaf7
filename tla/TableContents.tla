--------------------------- MODULE TableContents ---------------------------
(***************************************************************************)
(* What a structure table holds, said without any loop: where its          *)
(* structures begin and end, which strings they have, and the record a     *)
(* getter owes its caller for each.  It is the reference TableWalk is      *)
(* checked against, and what TableContract promises.                       *)
(***************************************************************************)
EXTENDS DMITable

CONSTANTS
  Byte,          (* the byte values tables are made of                     *)
  Tables         (* the tables that may be loaded                          *)

VARIABLE
  table          (* dmi_data and dmi_len                                   *)

End == Len(table)

(* n is where the structure at q ends: just past the first double NUL      *)
(* after its formatted area, or the end of a table that has none there.    *)
EndsAt(q, n) ==
  LET strings == q + LengthAt(table, q)
      Closed(m) == m - 2 >= strings /\ DoubleNul(table, m - 2)
  IN  /\ n \in q + 1 .. End
      /\ \A m \in q + 1 .. n - 1 : ~Closed(m)
      /\ n = End \/ Closed(n)

NextOf(q) == CHOOSE n \in q + 1 .. End : EndsAt(q, n)

(* The offsets of the table's structures. *)
Structures ==
  LET from[q \in 0 .. End] ==
        IF StructureAt(table, q)
        THEN {q} \cup from[NextOf(q)]
        ELSE {}
  IN  from[0]

OfType(ty) == {q \in Structures : TypeAt(table, q) = ty}

(* The strings of the structure at q that ends at n, in order: the maximal *)
(* runs of non-NUL bytes of its string set.                                *)
StringStarts(q, n) ==
  LET first == q + LengthAt(table, q)
  IN  {r \in first .. n - 3 : /\ At(table, r) # 0
                              /\ r = first \/ At(table, r - 1) = 0}

IsString(q, n, i, r) ==
  /\ r \in StringStarts(q, n)
  /\ At(table, q + LengthAt(table, q)) # 0
  /\ Cardinality({s \in StringStarts(q, n) : s <= r}) = i

(* The string member of the structure at q: the string that the byte after *)
(* its header names; NULL when it ends before that byte, when the string   *)
(* set has no such string, and when the structure is cut off.              *)
StringOf(q) ==
  LET n == NextOf(q)
      i == At(table, q + HeaderSize)
      whole == q + LengthAt(table, q) <= n - 2 /\ DoubleNul(table, n - 2)
      wanted == {r \in q .. n : IsString(q, n, i, r)}
  IN  IF LengthAt(table, q) > HeaderSize /\ whole /\ wanted # {}
      THEN Least(wanted) ELSE NoString

LengthOf(q) == ClampLength(LengthAt(table, q), q, End)

RecordOf(q) == [at |-> q, length |-> LengthOf(q), name |-> StringOf(q)]

=============================================================================
