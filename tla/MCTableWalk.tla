---------------------------- MODULE MCTableWalk ----------------------------
(* Instances of TableWalk for TLC. *)
EXTENDS TableRefinement, SequencesExt

Bytes == {0, 1, 2, 4, 5, 127}

(* A structure and then every header, whole or cut off, with every three   *)
(* bytes behind it, over an alphabet that has NULs, two good lengths and   *)
(* the end-of-table type: the ways the last structures of a table can be   *)
(* cut off.  What a handle is does not matter.                             *)
TailBytes  == {0, 1, 4, 5, 127}
Strings(n) == UNION {[1 .. k -> TailBytes] : k \in 0 .. n}
Tails      == Strings(3) \union
              {head \o <<0, 0>> \o rest : head \in [1 .. 2 -> TailBytes],
                                         rest \in Strings(3)}
TailTables == {<<2, 5, 0, 0, 1, 5, 5, 0, 0>> \o tail : tail \in Tails}

(* Well-formed and damaged structures, to be put one after another.        *)
Fragments == {
  <<1, 4, 0, 0, 0, 0>>,                         (* no strings              *)
  <<1, 5, 0, 0, 2, 1, 0, 2, 0, 0>>,             (* its second string       *)
  <<2, 5, 0, 0, 1, 5, 5, 0, 0>>,                (* its only string         *)
  <<1, 5, 0, 0, 2, 0, 1, 0, 0>>,                (* an empty first string   *)
  <<2, 4, 0, 0, 4>>,                            (* no terminator           *)
  <<1, 127, 0, 0, 0, 0>>,                       (* longer than the table   *)
  <<2, 2, 0, 0, 0, 0>>,                         (* shorter than a header   *)
  <<127, 4, 0, 0, 0, 0>>,                       (* the end-of-table marker *)
  <<1, 4, 0, 0>> }                              (* a bare header           *)

FragmentTables ==
  {FlattenSeq(s) : s \in UNION {[1 .. n -> Fragments] : n \in 0 .. 3}}

AllTables == FragmentTables \union TailTables

=============================================================================
