--------------------------- MODULE MCRecordParse ---------------------------
(***************************************************************************)
(* Every structure type, at each version that changes its layout and the   *)
(* one before, with counts up to two and elements around the shortest the  *)
(* getter takes.                                                           *)
(***************************************************************************)
EXTENDS RecordParse

(* The versions a getter tells apart, the oldest and the newest. *)
MCVersions(t) ==
  LET L == Layouts[t]
  IN  ({L[x].since : x \in DOMAIN L} \ {<<0, 0>>})
        \union {<<2, 0>>, <<3, 9>>}

(* Members whose bytes may hold a value that matters. *)
MCSpecials(t) ==
  LET names == UNION {
        LET L == Layout(t, v)
        IN  {x \in DOMAIN L :
               \/ L[x].maybe
               \/ \E y \in DOMAIN L : x \in L[y].void \union {L[y].when}} :
        v \in MCVersions(t)}
  IN  {{}, names} \union {{x} : x \in names}

MCStrings(L) == {x \in DOMAIN L : L[x].kind \in {"string", "strings"}}

MCCounts(L) == {L[x].count : x \in DOMAIN L} \ {""}
MCUnits(L)  == {L[x].unitOf : x \in DOMAIN L} \ {""}
MCLeast(L)  ==
  LET x == CHOOSE x \in DOMAIN L : L[x].unitOf # "" IN L[x].least

MCValues(L) ==
  LET counts == [MCCounts(L) -> 0 .. 2]
      units  == IF MCUnits(L) = {} THEN {<<>>}
                ELSE [MCUnits(L) -> {0, MCLeast(L) - 1, MCLeast(L),
                                     MCLeast(L) + 1}]
  IN  {c @@ u : c \in counts, u \in units}

(* The getter fills members of the struct only. *)
ASSUME MembersOfStructs ==
  \A t \in Types : \A v \in MCVersions(t) :
    DOMAIN Layout(t, v) \subseteq MembersOf(t)

MCContents(t) ==
  {[version |-> v, length |-> 4, value |-> a, special |-> s, missing |-> m] :
     v \in MCVersions(t), a \in MCValues(Layouts[t]),
     s \in MCSpecials(t), m \in {{}, MCStrings(Layouts[t])}}

=============================================================================
