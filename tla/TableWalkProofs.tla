--------------------------- MODULE TableWalkProofs ---------------------------
(***************************************************************************)
(* Proofs about module TableWalk, for every table of bytes, and that it    *)
(* implements TableContract.                                               *)
(***************************************************************************)
EXTENDS TableRefinement, FiniteSetTheorems, WellFoundedInduction, TLAPS

-----------------------------------------------------------------------------
(* Order and induction on the natural numbers, by sets: what the library   *)
(* states with an operator parameter.                                      *)

Below == OpToRel(<, Nat)

(* A set of natural numbers that is not empty has a least element. *)
LEMMA LeastNatural ==
  ASSUME NEW T, T \subseteq Nat, T # {}
  PROVE  \E m \in T : \A n \in T : m <= n
<1>1. \A j, k \in Nat : <<j, k>> \in Below <=> j < k
  BY DEF Below, OpToRel
<1>2. IsWellFoundedOn(Below, Nat)
  BY NatLessThanWellFounded DEF Below
<1>3. PICK m \in T : \A n \in T : <<n, m>> \notin Below
  BY <1>2, WFMin
<1>4. m \in Nat /\ \A n \in T : n \in Nat /\ ~(n < m)
  BY <1>1, <1>3
<1> QED BY <1>3, <1>4

(* A set that holds 0, and n + 1 whenever it holds n, holds every natural  *)
(* number.                                                                 *)
LEMMA Induction ==
  ASSUME NEW S, 0 \in S, \A n \in Nat : n \in S => n + 1 \in S
  PROVE  Nat \subseteq S
<1>1. SUFFICES ASSUME Nat \ S # {} PROVE FALSE
  OBVIOUS
<1>2. PICK m \in Nat \ S : \A n \in Nat \ S : m <= n
  BY <1>1, LeastNatural
<1>3. m # 0 /\ m - 1 \in Nat
  BY <1>2
<1> QED BY <1>2, <1>3

(* Least, of a set that has one. *)
LEMMA LeastIs ==
  ASSUME NEW T, T \subseteq Nat, T # {}
  PROVE  Least(T) \in T /\ \A n \in T : Least(T) <= n
BY LeastNatural DEF Least

-----------------------------------------------------------------------------
(* Where a structure ends.                                                 *)

(* The bytes of a loaded table. *)
LEMMA Bytes ==
  ASSUME table \in Tables
  PROVE  /\ End \in Nat
         /\ \A q \in 0 .. End - 1 :
              At(table, q) \in Byte /\ At(table, q) \in 0 .. 255
<1>1. table \in Seq(Byte)
  BY WalkAssumption
<1>2. Len(table) \in Nat /\ \A k \in 1 .. Len(table) : table[k] \in Byte
  BY <1>1
<1>3. \A q \in 0 .. Len(table) - 1 : q + 1 \in 1 .. Len(table)
  BY <1>2
<1> QED BY <1>2, <1>3, WalkAssumption DEF End, At

LEMMA StructureIs ==
  ASSUME table \in Tables, NEW q \in Nat, StructureAt(table, q)
  PROVE  /\ q + HeaderSize < End
         /\ TypeAt(table, q) \in Byte /\ TypeAt(table, q) # EndOfTable
         /\ LengthAt(table, q) \in HeaderSize .. 255
<1>1. q + HeaderSize < End /\ End \in Nat
  BY Bytes DEF StructureAt, End
<1>2. q \in 0 .. End - 1 /\ q + 1 \in 0 .. End - 1
  BY <1>1 DEF HeaderSize
<1>3. /\ At(table, q) \in Byte /\ At(table, q + 1) \in 0 .. 255
  BY <1>2, Bytes
<1>4. TypeAt(table, q) \in Byte /\ LengthAt(table, q) \in 0 .. 255
  BY <1>3 DEF TypeAt, LengthAt
<1>5. TypeAt(table, q) # EndOfTable /\ LengthAt(table, q) >= 4
  BY DEF StructureAt, HeaderSize
<1> QED BY <1>1, <1>4, <1>5 DEF HeaderSize

(* A structure has one end. *)
LEMMA OneEnd ==
  ASSUME table \in Tables, NEW q \in Nat, NEW m, NEW n,
         EndsAt(q, m), EndsAt(q, n)
  PROVE  m = n
BY Bytes DEF EndsAt

(* Wherever a header is, the scan ends behind it and inside the table. *)
LEMMA NextInside ==
  ASSUME table \in Tables, NEW q \in Nat, q + HeaderSize <= End
  PROVE  DMINext(table, q, End) \in q + 1 .. End
<1> DEFINE T == Terminators(table, q, End)
<1>1. End \in Nat /\ LengthAt(table, q) \in 0 .. 255
  <2>1. End \in Nat /\ q + 1 \in 0 .. End - 1
    BY Bytes DEF HeaderSize
  <2> QED BY <2>1, Bytes DEF LengthAt
<1>2. CASE T # {} /\ LengthAt(table, q) >= HeaderSize
  <2>1. T \subseteq Nat
    BY <1>1, <1>2 DEF Terminators, HeaderSize
  <2>2. Least(T) \in T
    BY <1>2, <2>1, LeastIs
  <2>3. Least(T) \in q + 4 .. End - 2
    BY <1>1, <1>2, <2>2 DEF Terminators, HeaderSize
  <2> QED BY <1>1, <2>3 DEF DMINext, HeaderSize
<1>3. CASE ~(T # {} /\ LengthAt(table, q) >= HeaderSize)
  BY <1>1, <1>3 DEF DMINext, HeaderSize
<1> QED BY <1>2, <1>3

(* DMINext finds the end of the structure at q, which is the one that      *)
(* Structures goes on from.                                                *)
LEMMA NextIsEnd ==
  ASSUME table \in Tables, NEW q \in Nat, StructureAt(table, q)
  PROVE  /\ DMINext(table, q, End) \in q + 1 .. End
         /\ EndsAt(q, DMINext(table, q, End))
         /\ NextOf(q) = DMINext(table, q, End)
<1> DEFINE T == Terminators(table, q, End)
           n == DMINext(table, q, End)
           strings == q + LengthAt(table, q)
<1>1. q + HeaderSize < End /\ LengthAt(table, q) \in 4 .. 255 /\ End \in Nat
  BY StructureIs, Bytes DEF HeaderSize
<1>2. n \in q + 1 .. End
  BY <1>1, NextInside DEF HeaderSize
<1>3. EndsAt(q, n)
  <2>1. CASE End - q <= LengthAt(table, q) \/ T = {}
    <3>1. n = End
      BY <2>1 DEF DMINext
    <3>2. ASSUME NEW m \in q + 1 .. End, m - 2 >= strings,
                 DoubleNul(table, m - 2)
          PROVE  FALSE
      <4>1. m - 2 \in T
        BY <1>1, <3>2 DEF Terminators
      <4> QED BY <1>1, <2>1, <3>2, <4>1
    <3> QED BY <1>1, <1>2, <3>1, <3>2 DEF EndsAt
  <2>2. CASE ~(End - q <= LengthAt(table, q)) /\ T # {}
    <3>1. T \subseteq Nat
      BY <1>1 DEF Terminators
    <3>2. Least(T) \in T /\ \A r \in T : Least(T) <= r
      BY <2>2, <3>1, LeastIs
    <3>3. n = Least(T) + 2
      BY <1>1, <2>2 DEF DMINext, HeaderSize
    <3>4. Least(T) \in strings .. End - 2 /\ DoubleNul(table, Least(T))
      BY <3>2 DEF Terminators
    <3>5. n - 2 = Least(T)
      BY <1>1, <3>3, <3>4
    <3>6. ASSUME NEW m \in q + 1 .. n - 1, m - 2 >= strings,
                 DoubleNul(table, m - 2)
          PROVE  FALSE
      <4>1. m - 2 \in T
        BY <1>1, <1>2, <3>6 DEF Terminators
      <4> QED BY <1>1, <1>2, <3>2, <3>5, <3>6, <4>1
    <3>7. n - 2 >= strings /\ DoubleNul(table, n - 2)
      BY <1>1, <3>4, <3>5
    <3> QED BY <1>2, <3>6, <3>7 DEF EndsAt
  <2> QED BY <2>1, <2>2
<1>4. NextOf(q) \in q + 1 .. End /\ EndsAt(q, NextOf(q))
  BY <1>2, <1>3 DEF NextOf
<1> QED BY <1>2, <1>3, <1>4, OneEnd

-----------------------------------------------------------------------------
(* The structures from an offset on.                                       *)

From[q \in 0 .. End] ==
  IF StructureAt(table, q)
  THEN {q} \cup From[NextOf(q)]
  ELSE {}

LEMMA StructuresAreFromStart == Structures = From[0]
BY DEF Structures, From

(* What is reached from q: the least set that holds q and, with a          *)
(* structure, the end of it.                                               *)
Closed(S) == \A r \in S : StructureAt(table, r) => NextOf(r) \in S
Reached(q) == {r \in 0 .. End : \A S \in SUBSET (0 .. End) :
                                   q \in S /\ Closed(S) => r \in S}

LEMMA ReachedIsClosed ==
  ASSUME table \in Tables, NEW q \in 0 .. End
  PROVE  Reached(q) \in SUBSET (0 .. End) /\ q \in Reached(q)
         /\ Closed(Reached(q))
<1>1. ASSUME NEW r \in Reached(q), StructureAt(table, r)
      PROVE  NextOf(r) \in 0 .. End
  <2>1. r \in Nat /\ End \in Nat
    BY Bytes DEF Reached
  <2> QED BY <1>1, <2>1, NextIsEnd
<1> QED BY <1>1 DEF Reached, Closed

LEMMA FromIs ==
  ASSUME table \in Tables
  PROVE  From = [q \in 0 .. End |->
                   IF StructureAt(table, q) THEN {q} \cup From[NextOf(q)]
                   ELSE {}]
<1> DEFINE Standing(q) == {r \in Reached(q) : StructureAt(table, r)}
           F == [q \in 0 .. End |-> Standing(q)]
           G(f) == [q \in 0 .. End |->
                      IF StructureAt(table, q) THEN {q} \cup f[NextOf(q)]
                      ELSE {}]
<1>1. ASSUME NEW q \in 0 .. End
      PROVE  Standing(q) = IF StructureAt(table, q)
                           THEN {q} \cup F[NextOf(q)] ELSE {}
  <2>1. CASE ~StructureAt(table, q)
    <3>1. {q} \in SUBSET (0 .. End) /\ q \in {q} /\ Closed({q})
      BY <2>1 DEF Closed
    <3>2. Reached(q) \subseteq {q}
      BY <3>1 DEF Reached
    <3> QED BY <2>1, <3>2
  <2>2. CASE StructureAt(table, q)
    <3> DEFINE n == NextOf(q)
    <3>1. n \in 0 .. End
      BY <2>2, Bytes, NextIsEnd
    <3>2. /\ Reached(q) \in SUBSET (0 .. End) /\ q \in Reached(q)
          /\ Closed(Reached(q))
          /\ Reached(n) \in SUBSET (0 .. End) /\ n \in Reached(n)
          /\ Closed(Reached(n))
      BY <3>1, ReachedIsClosed
    <3>3. Reached(q) \subseteq {q} \cup Reached(n)
      <4> DEFINE S == {q} \cup Reached(n)
      <4>1. S \in SUBSET (0 .. End) /\ q \in S /\ Closed(S)
        BY <3>2 DEF Closed
      <4> HIDE DEF S
      <4>2. Reached(q) \subseteq S
        BY <4>1 DEF Reached
      <4> QED BY <4>2 DEF S
    <3>4. n \in Reached(q)
      BY <2>2, <3>2 DEF Closed
    <3>5. Reached(n) \subseteq Reached(q)
      BY <3>2, <3>4 DEF Reached
    <3>6. F[n] = Standing(n)
      BY <3>1
    <3> QED BY <2>2, <3>2, <3>3, <3>5, <3>6
  <2> QED BY <2>1, <2>2
<1>2. F = G(F)
  BY <1>1
<1>3. From = CHOOSE f : f = G(f)
  BY DEF From, NextOf
<1> HIDE DEF F, G
<1>4. From = G(From)
  BY <1>2, <1>3
<1> QED BY <1>4 DEF G

(* The structures from an offset on come after it, in the table. *)
LEMMA FromInside ==
  ASSUME table \in Tables, NEW q \in 0 .. End
  PROVE  From[q] \subseteq {r \in q .. End : StructureAt(table, r)}
<1> DEFINE Behind(o) == {r \in o .. End : StructureAt(table, r)}
           S == {k \in Nat : \A o \in 0 .. End :
                               End - o <= k => From[o] \subseteq Behind(o)}
<1>1. End \in Nat
  BY Bytes
<1>2. ASSUME NEW k \in Nat, k = 0 \/ k - 1 \in S
      PROVE  k \in S
  <2> SUFFICES ASSUME NEW o \in 0 .. End, End - o <= k
               PROVE  From[o] \subseteq Behind(o)
    OBVIOUS
  <2>1. CASE ~StructureAt(table, o)
    BY <2>1, FromIs
  <2>2. CASE StructureAt(table, o)
    <3>1. /\ NextOf(o) \in o + 1 .. End
          /\ From[o] = {o} \cup From[NextOf(o)]
      BY <2>2, FromIs, NextIsEnd
    <3>2. k - 1 \in Nat /\ End - NextOf(o) <= k - 1 /\ NextOf(o) \in 0 .. End
      BY <1>1, <3>1
    <3>3. From[NextOf(o)] \subseteq Behind(NextOf(o))
      BY <1>2, <3>2
    <3>4. Behind(NextOf(o)) \subseteq Behind(o)
      BY <3>1
    <3> QED BY <1>1, <2>2, <3>1, <3>3, <3>4
  <2> QED BY <2>1, <2>2
<1> HIDE DEF S
<1>3. 0 \in S /\ \A k \in Nat : k \in S => k + 1 \in S
  BY <1>2
<1>4. End \in S
  BY <1>1, <1>3, Induction
<1> QED BY <1>1, <1>4 DEF S

(* The structures lie in the table, each with a byte after its header. *)
LEMMA StructuresInside ==
  ASSUME table \in Tables
  PROVE  /\ Structures \subseteq 0 .. End - 1
         /\ \A q \in Structures : StructureAt(table, q)
         /\ IsFiniteSet(Structures)
<1>1. End \in Nat /\ 0 \in 0 .. End
  BY Bytes
<1>2. Structures \subseteq {r \in 0 .. End : StructureAt(table, r)}
  BY <1>1, FromInside, StructuresAreFromStart
<1>3. ASSUME NEW q \in Structures
      PROVE  q \in 0 .. End - 1 /\ StructureAt(table, q)
  BY <1>1, <1>2, StructureIs DEF HeaderSize
<1>4. IsFiniteSet(0 .. End - 1)
  BY <1>1, FS_Interval
<1> QED BY <1>3, <1>4, FS_Subset

(* A loop that is at q has the structures before q behind it and the       *)
(* others before it.                                                       *)
OnPath(q) == From[q] = {r \in Structures : r >= q}

LEMMA PathStarts ==
  ASSUME table \in Tables
  PROVE  0 \in 0 .. End /\ OnPath(0)
BY Bytes, StructuresAreFromStart, StructuresInside DEF OnPath

LEMMA PathAdvances ==
  ASSUME table \in Tables, NEW q \in 0 .. End, OnPath(q),
         StructureAt(table, q)
  PROVE  /\ DMINext(table, q, End) \in q + 1 .. End
         /\ OnPath(DMINext(table, q, End))
         /\ q \in Structures
         /\ {r \in Structures : r < DMINext(table, q, End)}
              = {r \in Structures : r < q} \cup {q}
<1> DEFINE n == DMINext(table, q, End)
<1>1. q \in Nat /\ End \in Nat
  BY Bytes
<1>2. n \in q + 1 .. End /\ From[q] = {q} \cup From[n]
  BY <1>1, NextIsEnd, FromIs
<1>3. n \in 0 .. End
  BY <1>1, <1>2
<1> HIDE DEF n
<1>4. From[n] \subseteq n .. End
  BY <1>3, FromInside
<1>5. Structures \subseteq Nat
  BY <1>1, StructuresInside
<1>6. \A r \in Structures : r >= q <=> (r = q \/ r \in From[n])
  BY <1>2 DEF OnPath
<1>7. q \in Structures /\ From[n] \subseteq Structures
  BY <1>2 DEF OnPath
<1>8. ASSUME NEW r \in Structures
      PROVE  /\ r \in From[n] <=> r >= n
             /\ r < n <=> (r < q \/ r = q)
  <2>1. r \in Nat /\ n \in Nat /\ n > q
    BY <1>1, <1>2, <1>5
  <2>2. r \in From[n] => r >= n
    BY <1>4, <2>1
  <2>3. r > q => r \in From[n]
    BY <1>1, <1>6, <2>1
  <2> QED BY <1>1, <2>1, <2>2, <2>3
<1>9. From[n] = {r \in Structures : r >= n}
  BY <1>7, <1>8
<1>10. {r \in Structures : r < n} = {r \in Structures : r < q} \cup {q}
  BY <1>7, <1>8
<1> QED BY <1>2, <1>7, <1>9, <1>10 DEF OnPath, n

LEMMA PathEnds ==
  ASSUME table \in Tables, NEW q \in 0 .. End, OnPath(q),
         ~StructureAt(table, q)
  PROVE  \A r \in Structures : r < q
<1>1. From[q] = {}
  BY FromIs
<1>2. \A r \in Structures : ~(r >= q)
  BY <1>1 DEF OnPath
<1>3. \A r \in Structures : r \in Int /\ q \in Int
  BY StructuresInside
<1> QED BY <1>2, <1>3

-----------------------------------------------------------------------------
(* Counting the structures that were passed.                               *)

Passed(ty, q) == {r \in OfType(ty) : r < q}

LEMMA PassedIs ==
  ASSUME table \in Tables, NEW ty, NEW q
  PROVE  /\ IsFiniteSet(OfType(ty)) /\ IsFiniteSet(Passed(ty, q))
         /\ OfType(ty) \subseteq Nat /\ Passed(ty, q) \subseteq OfType(ty)
         /\ Cardinality(Passed(ty, q)) \in Nat
         /\ Cardinality(OfType(ty)) \in Nat
         /\ Cardinality(Passed(ty, q)) <= Cardinality(OfType(ty))
         /\ Cardinality(Passed(ty, q)) = Cardinality(OfType(ty))
              => Passed(ty, q) = OfType(ty)
         /\ Cardinality(Passed(ty, q)) = 0 <=> Passed(ty, q) = {}
<1>1. OfType(ty) \subseteq Structures /\ Passed(ty, q) \subseteq OfType(ty)
  BY DEF OfType, Passed
<1>2. IsFiniteSet(OfType(ty)) /\ OfType(ty) \subseteq Nat
  BY <1>1, StructuresInside, Bytes, FS_Subset
<1>3. IsFiniteSet(Passed(ty, q))
  BY <1>1, <1>2, FS_Subset
<1>4. /\ Cardinality(Passed(ty, q)) \in Nat
      /\ Cardinality(OfType(ty)) \in Nat
      /\ Cardinality(Passed(ty, q)) = 0 <=> Passed(ty, q) = {}
  BY <1>2, <1>3, FS_CardinalityType, FS_EmptySet
<1>5. /\ Cardinality(Passed(ty, q)) <= Cardinality(OfType(ty))
      /\ Cardinality(Passed(ty, q)) = Cardinality(OfType(ty))
           => Passed(ty, q) = OfType(ty)
  BY <1>1, <1>2, FS_Subset
<1> QED BY <1>1, <1>2, <1>3, <1>4, <1>5

(* A step past the structure at q adds it to those of its type. *)
LEMMA PassedGrows ==
  ASSUME table \in Tables, NEW q \in 0 .. End, OnPath(q),
         StructureAt(table, q), NEW ty
  PROVE  LET n == DMINext(table, q, End)
         IN  /\ TypeAt(table, q) = ty =>
                  /\ Passed(ty, n) = Passed(ty, q) \cup {q}
                  /\ Cardinality(Passed(ty, n)) =
                       Cardinality(Passed(ty, q)) + 1
             /\ TypeAt(table, q) # ty => Passed(ty, n) = Passed(ty, q)
<1> DEFINE n == DMINext(table, q, End)
<1>1. /\ {r \in Structures : r < n} = {r \in Structures : r < q} \cup {q}
      /\ q \in Structures
  BY PathAdvances
<1> HIDE DEF n
<1>2. CASE TypeAt(table, q) = ty
  <2>1. Passed(ty, n) = Passed(ty, q) \cup {q}
    BY <1>1, <1>2 DEF Passed, OfType
  <2>2. q \notin Passed(ty, q)
    BY DEF Passed
  <2>3. Cardinality(Passed(ty, n)) = Cardinality(Passed(ty, q)) + 1
    BY <2>1, <2>2, PassedIs, FS_AddElement
  <2> QED BY <1>2, <2>1, <2>3 DEF n
<1>3. CASE TypeAt(table, q) # ty
  <2>1. Passed(ty, n) = Passed(ty, q)
    BY <1>1, <1>3 DEF Passed, OfType
  <2> QED BY <1>3, <2>1 DEF n
<1> QED BY <1>2, <1>3

(* Past the last structure every one of a type was passed. *)
LEMMA AllPassed ==
  ASSUME table \in Tables, NEW ty, NEW q, \A r \in Structures : r < q
  PROVE  Passed(ty, q) = OfType(ty)
BY DEF Passed, OfType

(* While structures of a type are still to come, one stands at q. *)
LEMMA MoreToCome ==
  ASSUME table \in Tables, NEW ty, NEW q \in 0 .. End, OnPath(q),
         Cardinality(Passed(ty, q)) < Cardinality(OfType(ty))
  PROVE  StructureAt(table, q)
<1> SUFFICES ASSUME ~StructureAt(table, q) PROVE FALSE
  OBVIOUS
<1>1. Passed(ty, q) = OfType(ty)
  BY PathEnds, AllPassed
<1> QED BY <1>1, PassedIs

-----------------------------------------------------------------------------
(* The string members.                                                     *)

NulFrom(x, last) == Least({r \in x .. last : At(table, r) = 0})
Usable(x, last)  == x < last /\ At(table, x) # 0
Behind(x, last)  ==
  IF x = NoString \/ ~Usable(x, last) \/ NulFrom(x, last) >= last
  THEN NoString
  ELSE NulFrom(x, last) + 1

(* DMIString's loop: where it stands before each string. *)
Skip(first, last, k) ==
  CHOOSE f : f = [j \in 1 .. k |-> IF j = 1 THEN first
                                   ELSE Behind(f[j - 1], last)]

LEMMA SkipIs ==
  ASSUME NEW first, NEW last, NEW k \in Nat
  PROVE  Skip(first, last, k) =
           [j \in 1 .. k |->
              IF j = 1 THEN first
              ELSE Behind(Skip(first, last, k)[j - 1], last)]
<1> DEFINE G(f, m) == [j \in 1 .. m |-> IF j = 1 THEN first
                                        ELSE Behind(f[j - 1], last)]
           S == {m \in Nat : \E f : f = G(f, m)}
<1>1. 0 \in S
  <2> DEFINE f == [j \in 1 .. 0 |-> 0]
  <2>1. f = G(f, 0)
    OBVIOUS
  <2> HIDE DEF f
  <2> QED BY <2>1
<1>2. ASSUME NEW m \in Nat, m \in S
      PROVE  m + 1 \in S
  <2>1. PICK f : f = G(f, m)
    BY <1>2
  <2> DEFINE g == G(f, m + 1)
  <2>2. \A j \in 1 .. m : g[j] = f[j]
    BY <2>1
  <2> HIDE DEF g
  <2>3. \A j \in 1 .. m + 1 : j # 1 => j - 1 \in 1 .. m
    OBVIOUS
  <2>4. \A j \in 1 .. m + 1 : j # 1 => g[j - 1] = f[j - 1]
    BY <2>2, <2>3
  <2>5. g = G(g, m + 1)
    BY <2>4 DEF g
  <2> QED BY <2>5
<1> HIDE DEF S
<1>3. k \in S
  BY <1>1, <1>2, Induction
<1>4. \E f : f = G(f, k)
  BY <1>3 DEF S
<1>5. Skip(first, last, k) = CHOOSE f : f = G(f, k)
  BY DEF Skip
<1> HIDE DEF G
<1>6. Skip(first, last, k) = G(Skip(first, last, k), k)
  BY <1>4, <1>5
<1> QED BY <1>6 DEF G

(* DMIString, of a loaded table. *)
LEMMA DMIStringIs ==
  ASSUME NEW q, NEW length, NEW k, NEW n
  PROVE  DMIString(table, q, length, k, n) =
           IF \/ k = 0 \/ length < HeaderSize \/ n - q <= length
              \/ n - (q + length) < 2 \/ ~DoubleNul(table, n - 2)
           THEN NoString
           ELSE IF /\ Skip(q + length, n - 2, k)[k] # NoString
                   /\ Usable(Skip(q + length, n - 2, k)[k], n - 2)
                THEN Skip(q + length, n - 2, k)[k] ELSE NoString
BY DEF DMIString, Skip, Behind, Usable, NulFrom

(* It gives an offset or NULL, whatever it is asked for. *)
LEMMA DMIStringInt ==
  ASSUME table \in Tables, NEW q \in Nat, NEW length \in Nat, NEW k \in Nat,
         NEW n \in Nat
  PROVE  DMIString(table, q, length, k, n) \in Int
<1> DEFINE skip == Skip(q + length, n - 2, k)
           S == {m \in Nat : m \in 1 .. k => skip[m] \in Nat \cup {NoString}}
<1> SUFFICES ASSUME k # 0, n - (q + length) >= 2, At(table, n - 2) = 0
             PROVE  skip[k] \in Nat \cup {NoString}
  BY DMIStringIs DEF NoString, DoubleNul
<1>1. \A j \in 1 .. k : skip[j] = IF j = 1 THEN q + length
                                  ELSE Behind(skip[j - 1], n - 2)
  BY SkipIs
<1> HIDE DEF skip
<1>2. ASSUME NEW x \in Nat \cup {NoString}
      PROVE  Behind(x, n - 2) \in Nat \cup {NoString}
  <2>1. CASE x # NoString /\ x < n - 2
    <3> DEFINE T == {r \in x .. n - 2 : At(table, r) = 0}
    <3>1. T \subseteq Nat /\ n - 2 \in T
      BY <2>1
    <3>2. NulFrom(x, n - 2) \in Nat
      BY <3>1, LeastIs DEF NulFrom
    <3> QED BY <3>2 DEF Behind
  <2>2. CASE ~(x # NoString /\ x < n - 2)
    BY <2>2 DEF Behind, Usable
  <2> QED BY <2>1, <2>2
<1>3. 0 \in S
  OBVIOUS
<1>4. ASSUME NEW m \in Nat, m \in S
      PROVE  m + 1 \in S
  <2> SUFFICES ASSUME m + 1 \in 1 .. k
               PROVE  skip[m + 1] \in Nat \cup {NoString}
    OBVIOUS
  <2>1. CASE m = 0
    BY <1>1, <2>1
  <2>2. CASE m # 0
    <3>1. skip[m + 1] = Behind(skip[m], n - 2)
      BY <1>1, <2>2
    <3>2. skip[m] \in Nat \cup {NoString}
      BY <1>4, <2>2
    <3> QED BY <1>2, <3>1, <3>2
  <2> QED BY <2>1, <2>2
<1> HIDE DEF S
<1>5. k \in S
  BY <1>3, <1>4, Induction
<1> QED BY <1>5 DEF S

(* Before the m-th string the loop has passed m - 1 of them, and it stands *)
(* at the first byte or behind a NUL; or it has found that there are fewer *)
(* than m, or that the set is empty.                                       *)
Standing(q, n, m, x) ==
  LET first == q + LengthAt(table, q)
  IN  IF x = NoString
      THEN At(table, first) = 0 \/ Cardinality(StringStarts(q, n)) < m
      ELSE /\ x \in first .. n - 2
           /\ x = first \/ At(table, x - 1) = 0
           /\ Cardinality({s \in StringStarts(q, n) : s < x}) = m - 1
           /\ m # 1 => At(table, first) # 0
           /\ m = 1 => x = first

(* A string set that is whole: it ends with a double NUL, the first.       *)
Whole(q, n) ==
  q + LengthAt(table, q) <= n - 2 /\ DoubleNul(table, n - 2)

LEMMA StartsAre ==
  ASSUME table \in Tables, NEW q \in Nat, StructureAt(table, q),
         NEW n \in q + 1 .. End, NEW S \in SUBSET StringStarts(q, n)
  PROVE  /\ StringStarts(q, n) \subseteq Nat
         /\ IsFiniteSet(S) /\ Cardinality(S) \in Nat
         /\ Cardinality(S) <= Cardinality(StringStarts(q, n))
         /\ Cardinality(StringStarts(q, n)) \in Nat
<1>1. q + LengthAt(table, q) \in Nat /\ n - 3 \in Int
  BY StructureIs, Bytes DEF HeaderSize
<1>2. IsFiniteSet(q + LengthAt(table, q) .. n - 3)
  BY <1>1, FS_Interval
<1>3. /\ StringStarts(q, n) \subseteq q + LengthAt(table, q) .. n - 3
      /\ StringStarts(q, n) \subseteq Nat
  BY <1>1 DEF StringStarts
<1>4. IsFiniteSet(StringStarts(q, n))
  BY <1>2, <1>3, FS_Subset
<1> QED BY <1>3, <1>4, FS_Subset, FS_CardinalityType

LEMMA BehindCounts ==
  ASSUME table \in Tables, NEW q \in Nat, StructureAt(table, q),
         NEW n \in q + 1 .. End, EndsAt(q, n), Whole(q, n),
         NEW m \in Nat \ {0}, NEW x, Standing(q, n, m, x)
  PROVE  Standing(q, n, m + 1, Behind(x, n - 2))
<1> DEFINE first  == q + LengthAt(table, q)
           last   == n - 2
           Starts == StringStarts(q, n)
           Nuls   == {r \in x .. last : At(table, r) = 0}
<1>1. /\ first \in Nat /\ last \in Nat /\ first <= last /\ n \in Nat
      /\ first >= q + 4
  BY StructureIs, Bytes DEF Whole, HeaderSize
<1>2. /\ Starts \subseteq Nat /\ Cardinality(Starts) \in Nat
      /\ \A s \in Starts : s < last
  BY <1>1, StartsAre DEF StringStarts
<1>3. \A r \in Starts : At(table, r) # 0 /\ r \in first .. last - 1
  BY <1>1 DEF StringStarts
<1>4. CASE x = NoString
  <2>1. Behind(x, last) = NoString
    BY <1>4 DEF Behind
  <2> QED BY <1>2, <1>4, <2>1 DEF Standing
<1>5. CASE x # NoString
  <2>1. /\ x \in first .. last
        /\ x = first \/ At(table, x - 1) = 0
        /\ Cardinality({s \in Starts : s < x}) = m - 1
        /\ m # 1 => At(table, first) # 0
        /\ m = 1 => x = first
    BY <1>5 DEF Standing
  <2>2. CASE x = last
    <3>1. Behind(x, last) = NoString
      BY <1>1, <2>2 DEF Behind, Usable
    <3>2. {s \in Starts : s < x} = Starts
      BY <1>2, <2>2
    <3> QED BY <1>2, <2>1, <3>1, <3>2 DEF Standing
  <2>3. CASE x # last /\ At(table, x) = 0
    <3>1. Behind(x, last) = NoString
      BY <2>3 DEF Behind, Usable
    <3>2. x = first
      <4> SUFFICES ASSUME x # first PROVE FALSE
        OBVIOUS
      <4>1. At(table, x - 1) = 0 /\ x \in Nat
        BY <1>1, <2>1
      <4>2. x + 1 \in q + 1 .. n - 1 /\ (x + 1) - 2 = x - 1
            /\ (x - 1) + 1 = x /\ x - 1 >= first
        BY <1>1, <2>1, <2>3, <4>1
      <4>3. DoubleNul(table, x - 1)
        BY <2>3, <4>1, <4>2 DEF DoubleNul
      <4> QED BY <4>2, <4>3 DEF EndsAt
    <3> QED BY <2>3, <3>1, <3>2 DEF Standing
  <2>4. CASE x # last /\ At(table, x) # 0
    <3>1. x \in Nat /\ x < last /\ Usable(x, last)
      BY <1>1, <2>1, <2>4 DEF Usable
    <3>2. x \in Starts
      BY <2>1, <2>4, <3>1, <1>1 DEF StringStarts
    <3>3. Nuls \subseteq Nat /\ last \in Nuls
      BY <1>1, <3>1 DEF Whole, DoubleNul
    <3>4. /\ NulFrom(x, last) \in Nuls
          /\ \A r \in Nuls : NulFrom(x, last) <= r
      <4> HIDE DEF Nuls
      <4>1. Least(Nuls) \in Nuls /\ \A r \in Nuls : Least(Nuls) <= r
        BY <3>3, LeastIs
      <4> QED BY <4>1 DEF NulFrom, Nuls
    <3> DEFINE y == NulFrom(x, last)
    <3> HIDE DEF y
    <3>5. y \in x .. last /\ At(table, y) = 0 /\ y # x
      BY <2>4, <3>4 DEF y
    <3>6. ASSUME NEW r \in x .. y - 1
          PROVE  At(table, r) # 0
      BY <1>1, <3>1, <3>4, <3>5 DEF y
    <3>7. ASSUME NEW s \in Starts
          PROVE  s <= y <=> s < x \/ s = x
      <4>1. s \in Nat /\ s \in first .. last - 1 /\ At(table, s) # 0
            /\ (s = first \/ At(table, s - 1) = 0)
        BY <1>1, <1>2 DEF StringStarts
      <4>2. CASE s > x /\ s <= y
        <5>1. s # y
          BY <3>5, <4>1
        <5>2. s - 1 \in x .. y - 1 /\ s # first
          BY <1>1, <2>1, <3>1, <3>5, <4>1, <4>2, <5>1
        <5> QED BY <3>6, <4>1, <5>2
      <4>3. CASE ~(s > x /\ s <= y)
        BY <3>1, <3>5, <4>1, <4>3
      <4> QED BY <4>2, <4>3
    <3>8. Cardinality({s \in Starts : s < y + 1}) = m
      <4> DEFINE B == {s \in Starts : s < x}
      <4>1. {s \in Starts : s < y + 1} = B \cup {x}
        BY <1>2, <3>1, <3>2, <3>5, <3>7
      <4>2. IsFiniteSet(B) /\ x \notin B /\ Cardinality(B) = m - 1
        BY <2>1, <3>1, StartsAre
      <4> HIDE DEF B
      <4>3. Cardinality(B \cup {x}) = (m - 1) + 1
        BY <4>2, FS_AddElement
      <4> QED BY <4>1, <4>3
    <3>9. At(table, first) # 0
      BY <2>1, <2>4
    <3>10. CASE y >= last
      <4>1. Behind(x, last) = NoString
        BY <3>10 DEF Behind, y
      <4>2. {s \in Starts : s < y + 1} = Starts
        BY <1>1, <1>2, <3>5, <3>10
      <4>3. Cardinality(Starts) = m
        BY <3>8, <4>2
      <4> HIDE DEF Starts
      <4>4. Cardinality(Starts) < m + 1
        BY <4>3
      <4> QED BY <4>1, <4>4 DEF Standing, Starts
    <3>11. CASE y < last
      <4>1. Behind(x, last) = y + 1
        BY <1>1, <3>1, <3>5, <3>11, <1>5 DEF Behind, y
      <4>2. y + 1 \in first .. last /\ (y + 1) - 1 = y /\ y + 1 # NoString
        BY <1>1, <2>1, <3>1, <3>5, <3>11 DEF NoString
      <4>3. m + 1 # 1 /\ (m + 1) - 1 = m
        OBVIOUS
      <4> HIDE DEF Starts
      <4> QED BY <3>5, <3>8, <3>9, <4>1, <4>2, <4>3 DEF Standing, Starts
    <3> QED BY <1>1, <3>5, <3>10, <3>11
  <2> QED BY <2>2, <2>3, <2>4
<1> QED BY <1>4, <1>5

LEMMA SkipStands ==
  ASSUME table \in Tables, NEW q \in Nat, StructureAt(table, q),
         NEW n \in q + 1 .. End, EndsAt(q, n), Whole(q, n),
         NEW k \in Nat, NEW m \in 1 .. k
  PROVE  Standing(q, n, m, Skip(q + LengthAt(table, q), n - 2, k)[m])
<1> DEFINE first == q + LengthAt(table, q)
           skip  == Skip(first, n - 2, k)
           S == {j \in Nat : j \in 1 .. k => Standing(q, n, j, skip[j])}
<1>1. \A j \in 1 .. k : skip[j] = IF j = 1 THEN first
                                  ELSE Behind(skip[j - 1], n - 2)
  BY SkipIs
<1> HIDE DEF skip
<1>2. 0 \in S
  OBVIOUS
<1>3. ASSUME NEW j \in Nat, j \in S
      PROVE  j + 1 \in S
  <2> SUFFICES ASSUME j + 1 \in 1 .. k
               PROVE  Standing(q, n, j + 1, skip[j + 1])
    OBVIOUS
  <2>1. CASE j = 0
    <3>1. first \in Nat /\ n - 2 \in Int /\ first <= n - 2
      BY StructureIs, Bytes DEF Whole, HeaderSize
    <3>2. skip[j + 1] = first
      BY <1>1, <2>1
    <3>3. {s \in StringStarts(q, n) : s < first} = {}
      BY <3>1 DEF StringStarts
    <3>4. first # NoString /\ j + 1 = 1 /\ (j + 1) - 1 = 0
      BY <2>1, <3>1 DEF NoString
    <3> QED BY <3>1, <3>2, <3>3, <3>4, FS_EmptySet DEF Standing
  <2>2. CASE j # 0
    <3>1. skip[j + 1] = Behind(skip[j], n - 2) /\ Standing(q, n, j, skip[j])
      BY <1>1, <1>3, <2>2
    <3> QED BY <2>2, <3>1, BehindCounts
  <2> QED BY <2>1, <2>2
<1> HIDE DEF S
<1>4. m \in S
  BY <1>2, <1>3, Induction
<1> QED BY <1>4 DEF S, skip

(* The k-th string of a whole set is where the loop stands before it, if   *)
(* that is a string at all.                                                *)
LEMMA StringFound ==
  ASSUME table \in Tables, NEW q \in Nat, StructureAt(table, q),
         NEW n \in q + 1 .. End, EndsAt(q, n), Whole(q, n),
         NEW k \in Nat \ {0}, NEW x, Standing(q, n, k, x)
  PROVE  LET wanted == {r \in q .. n : IsString(q, n, k, r)}
         IN  IF x # NoString /\ Usable(x, n - 2)
             THEN wanted # {} /\ Least(wanted) = x
             ELSE wanted = {}
<1> DEFINE first  == q + LengthAt(table, q)
           Starts == StringStarts(q, n)
           UpTo(r) == {s \in Starts : s <= r}
           wanted == {r \in q .. n : IsString(q, n, k, r)}
<1>1. /\ first \in Nat /\ n \in Nat /\ first <= n - 2 /\ first >= q + 4
      /\ At(table, n - 2) = 0
  BY StructureIs, Bytes DEF Whole, DoubleNul, HeaderSize
<1>2. /\ Starts \subseteq Nat /\ Cardinality(Starts) \in Nat
      /\ \A r : /\ Cardinality(UpTo(r)) \in Nat
                /\ IsFiniteSet(UpTo(r))
                /\ Cardinality(UpTo(r)) <= Cardinality(Starts)
  BY StartsAre
<1>3. \A r \in wanted : /\ r \in Starts /\ At(table, first) # 0
                        /\ Cardinality(UpTo(r)) = k
  BY DEF IsString
<1>4. At(table, first) = 0 \/ Cardinality(Starts) < k => wanted = {}
  <2> HIDE DEF Starts, UpTo, wanted, first
  <2> QED BY <1>2, <1>3
<1>5. CASE x = NoString
  <2>1. At(table, first) = 0 \/ Cardinality(Starts) < k
    BY <1>5 DEF Standing
  <2> QED BY <1>4, <1>5, <2>1
<1>6. CASE x # NoString
  <2>1. /\ x \in first .. n - 2
        /\ x = first \/ At(table, x - 1) = 0
        /\ Cardinality({s \in Starts : s < x}) = k - 1
        /\ k # 1 => At(table, first) # 0
        /\ k = 1 => x = first
    BY <1>6 DEF Standing
  <2>2. CASE x = n - 2
    <3>1. ~Usable(x, n - 2)
      BY <1>1, <2>2 DEF Usable
    <3>2. {s \in Starts : s < x} = Starts
      BY <1>1, <2>2 DEF StringStarts
    <3>3. Cardinality(Starts) = k - 1
      BY <2>1, <3>2
    <3>4. Cardinality(Starts) < k
      BY <3>3
    <3> QED BY <1>4, <3>1, <3>4
  <2>3. CASE x # n - 2 /\ At(table, x) = 0
    <3>1. ~Usable(x, n - 2)
      BY <2>3 DEF Usable
    <3>2. x = first
      <4> SUFFICES ASSUME x # first PROVE FALSE
        OBVIOUS
      <4>1. At(table, x - 1) = 0 /\ x \in Nat
        BY <1>1, <2>1
      <4>2. x + 1 \in q + 1 .. n - 1 /\ (x + 1) - 2 = x - 1
            /\ (x - 1) + 1 = x /\ x - 1 >= first
        BY <1>1, <2>1, <2>3, <4>1
      <4>3. DoubleNul(table, x - 1)
        BY <2>3, <4>1, <4>2 DEF DoubleNul
      <4> QED BY <4>2, <4>3 DEF EndsAt
    <3> QED BY <1>4, <2>3, <3>1, <3>2
  <2>4. CASE x # n - 2 /\ At(table, x) # 0
    <3>1. x \in Nat /\ x < n - 2 /\ Usable(x, n - 2)
      BY <1>1, <2>1, <2>4 DEF Usable
    <3>2. x \in Starts
      BY <1>1, <2>1, <2>4, <3>1 DEF StringStarts
    <3>3. Cardinality(UpTo(x)) = k
      <4> DEFINE B == {s \in Starts : s < x}
      <4>1. UpTo(x) = B \cup {x}
        BY <1>2, <3>1, <3>2
      <4>2. IsFiniteSet(B) /\ x \notin B /\ Cardinality(B) = k - 1
        BY <2>1, <3>1, StartsAre
      <4> HIDE DEF B, UpTo
      <4>3. Cardinality(B \cup {x}) = (k - 1) + 1
        BY <4>2, FS_AddElement
      <4> QED BY <4>1, <4>3
    <3>4. At(table, first) # 0
      BY <2>1, <2>4
    <3>5. x \in wanted
      BY <1>1, <3>1, <3>2, <3>3, <3>4, <2>1 DEF IsString
    <3>6. ASSUME NEW r \in wanted
          PROVE  r = x
      <4>1. r \in Nat /\ r \in UpTo(r) /\ x \in UpTo(x)
            /\ Cardinality(UpTo(r)) = Cardinality(UpTo(x))
        BY <1>2, <1>3, <3>1, <3>2, <3>3, <3>6
      <4>2. CASE r <= x
        <5>1. UpTo(r) \subseteq UpTo(x)
          BY <1>2, <3>1, <4>1, <4>2
        <5>2. UpTo(r) = UpTo(x)
          BY <1>2, <4>1, <5>1, FS_Subset
        <5> QED BY <3>1, <4>1, <4>2, <5>2
      <4>3. CASE x <= r
        <5>1. UpTo(x) \subseteq UpTo(r)
          BY <1>2, <3>1, <4>1, <4>3
        <5>2. UpTo(r) = UpTo(x)
          BY <1>2, <4>1, <5>1, FS_Subset
        <5> QED BY <3>1, <4>1, <4>3, <5>2
      <4> QED BY <3>1, <4>1, <4>2, <4>3
    <3> HIDE DEF wanted
    <3>7. wanted \subseteq Nat
      BY <3>1, <3>6
    <3>8. Least(wanted) \in wanted
      BY <3>5, <3>7, LeastIs
    <3> QED BY <1>6, <3>1, <3>5, <3>6, <3>8 DEF wanted
  <2> QED BY <2>2, <2>3, <2>4
<1> QED BY <1>5, <1>6

(* The string that WalkStep stores. *)
NameOf(q) ==
  IF LengthOf(q) > HeaderSize
  THEN DMIString(table, q, LengthOf(q), At(table, q + HeaderSize),
                 DMINext(table, q, End))
  ELSE NoString

LEMMA NameResolves ==
  ASSUME table \in Tables, NEW q \in Nat, StructureAt(table, q)
  PROVE  NameOf(q) = StringOf(q)
<1> DEFINE n == DMINext(table, q, End)
           k == At(table, q + HeaderSize)
           L == LengthAt(table, q)
           wanted == {r \in q .. n : IsString(q, n, k, r)}
<1>1. /\ n \in q + 1 .. End /\ EndsAt(q, n)
      /\ n = NextOf(q)
  BY NextIsEnd
<1>2. /\ End \in Nat /\ q + 4 < End /\ L \in 4 .. 255 /\ k \in 0 .. 255
  BY StructureIs, Bytes DEF HeaderSize
<1> HIDE DEF n
<1>3. StringOf(q) = IF L > HeaderSize /\ Whole(q, n) /\ wanted # {}
                    THEN Least(wanted) ELSE NoString
  BY <1>1 DEF StringOf, Whole
<1>4. LengthOf(q) = (IF End - q < L THEN End - q ELSE L)
  BY DEF LengthOf, ClampLength
<1>5. CASE ~(L > HeaderSize)
  BY <1>2, <1>3, <1>4, <1>5 DEF NameOf, HeaderSize
<1>6. CASE L > HeaderSize /\ ~Whole(q, n)
  <2>1. LengthOf(q) \in 5 .. 255
    BY <1>2, <1>4, <1>6 DEF HeaderSize
  <2>2. \/ n - q <= LengthOf(q) \/ n - (q + LengthOf(q)) < 2
        \/ ~DoubleNul(table, n - 2)
    BY <1>1, <1>2, <1>4, <1>6 DEF Whole
  <2>3. DMIString(table, q, LengthOf(q), k, n) = NoString
    BY <2>2, DMIStringIs
  <2> QED BY <1>3, <1>6, <2>1, <2>3 DEF NameOf, HeaderSize, n
<1>7. CASE L > HeaderSize /\ Whole(q, n)
  <2>1. /\ LengthOf(q) = L
        /\ ~(n - q <= L) /\ ~(n - (q + L) < 2) /\ ~(L < HeaderSize)
        /\ DoubleNul(table, n - 2)
    BY <1>1, <1>2, <1>4, <1>7 DEF Whole, HeaderSize
  <2>2. CASE k = 0
    <3>1. DMIString(table, q, L, k, n) = NoString
      BY <2>2, DMIStringIs
    <3>2. ASSUME NEW r \in wanted PROVE FALSE
      <4> DEFINE B == {s \in StringStarts(q, n) : s <= r}
      <4>1. r \in B /\ Cardinality(B) = 0
        BY <2>2, <3>2 DEF IsString
      <4>2. IsFiniteSet(B)
        BY <1>1, StartsAre
      <4> QED BY <4>1, <4>2, FS_EmptySet
    <3> QED BY <1>3, <1>7, <2>1, <3>1, <3>2 DEF NameOf, n
  <2>3. CASE k # 0
    <3> DEFINE x == Skip(q + L, n - 2, k)[k]
    <3>1. k \in Nat \ {0} /\ k \in 1 .. k
      BY <1>2, <2>3
    <3>2. Standing(q, n, k, x)
      BY <1>1, <1>7, <3>1, SkipStands
    <3>3. DMIString(table, q, L, k, n) =
            IF x # NoString /\ Usable(x, n - 2) THEN x ELSE NoString
      BY <2>1, <2>3, DMIStringIs
    <3> HIDE DEF x, k
    <3>4. IF x # NoString /\ Usable(x, n - 2)
          THEN wanted # {} /\ Least(wanted) = x
          ELSE wanted = {}
      BY <1>1, <1>7, <3>1, <3>2, StringFound
    <3> QED BY <1>3, <1>7, <2>1, <3>3, <3>4 DEF NameOf, n, k
  <2> QED BY <2>2, <2>3
<1> QED BY <1>5, <1>6, <1>7

-----------------------------------------------------------------------------
(* The inductive invariant.                                                *)

(* The index covers the structures before q.  A getter can start where it  *)
(* says that a type begins: no structure of the type is passed over.       *)
IndexCovers(q) ==
  \A ty \in Byte :
    /\ index[ty].count = Cardinality(Passed(ty, q))
    /\ index[ty].first \in 0 .. End /\ OnPath(index[ty].first)
    /\ Passed(ty, index[ty].first) = {}
    /\ index[ty].count > 0 => index[ty].first \in OfType(ty)

IndexInv ==
  /\ pc = "build" => ~index_valid /\ IndexCovers(p)
  /\ index_valid => IndexCovers(End)
  /\ pc # "build" /\ ~index_valid => index = EmptyIndex

CountInv ==
  /\ pc = "count" => count = Cardinality(Passed(target, p))
  /\ pc \in {"walk", "done"} => count = Cardinality(OfType(target))

(* The records are those of the structures passed, in their order. *)
RecordInv ==
  /\ \A k \in 1 .. Len(entries) :
       /\ entries[k].at \in Passed(target, p)
       /\ entries[k].length = LengthOf(entries[k].at)
       /\ entries[k].name = NameOf(entries[k].at)
  /\ \A j, k \in 1 .. Len(entries) : j < k => entries[j].at < entries[k].at

WalkInv ==
  /\ pc \in {"walk", "done"} =>
       /\ Len(entries) = Cardinality(Passed(target, p))
       /\ Passed(target, p) \subseteq
            {entries[k].at : k \in 1 .. Len(entries)}
  /\ pc \notin {"walk", "done"} => entries = << >>
  /\ pc = "done" => Len(entries) = count

IInv ==
  /\ TypeOK
  /\ p \in 0 .. End /\ OnPath(p)
  /\ IndexInv /\ CountInv /\ RecordInv /\ WalkInv

-----------------------------------------------------------------------------
(* A step that keeps the table keeps everything that is said of it.        *)

FromOf(t) ==
  CHOOSE f : f = [q \in 0 .. Len(t) |->
                    IF StructureAt(t, q)
                    THEN {q} \cup f[CHOOSE n \in q + 1 .. Len(t) :
                           /\ n \in q + 1 .. Len(t)
                           /\ \A m \in q + 1 .. n - 1 :
                                ~(/\ m - 2 >= q + LengthAt(t, q)
                                  /\ DoubleNul(t, m - 2))
                           /\ n = Len(t) \/ (/\ n - 2 >= q + LengthAt(t, q)
                                             /\ DoubleNul(t, n - 2))]
                    ELSE {}]

LEMMA SameTable ==
  ASSUME table' = table
  PROVE  /\ End' = End /\ From' = From /\ Structures' = Structures
         /\ \A ty : OfType(ty)' = OfType(ty)
         /\ \A ty, q : Passed(ty, q)' = Passed(ty, q)
         /\ \A q : OnPath(q)' = OnPath(q)
         /\ \A q : LengthOf(q)' = LengthOf(q) /\ NameOf(q)' = NameOf(q)
<1>1. From = FromOf(table) /\ From' = FromOf(table')
  BY DEF From, FromOf, NextOf, EndsAt, End
<1>2. From' = From
  BY <1>1
<1>3. Structures = From[0] /\ Structures' = From'[0]
  BY DEF Structures, From
<1>4. Structures' = Structures
  BY <1>2, <1>3
<1>5. \A ty : OfType(ty)' = OfType(ty)
  BY <1>4 DEF OfType
<1>6. \A ty, q : Passed(ty, q)' = Passed(ty, q)
  BY <1>5 DEF Passed
<1>7. \A q : OnPath(q)' = OnPath(q)
  BY <1>2, <1>4 DEF OnPath
<1>8. \A q : LengthOf(q)' = LengthOf(q) /\ NameOf(q)' = NameOf(q)
  BY DEF LengthOf, NameOf, End
<1> QED BY <1>2, <1>4, <1>5, <1>6, <1>7, <1>8 DEF End

-----------------------------------------------------------------------------
(* The invariant holds at first, and every step keeps it.                  *)

LEMMA NothingPassed ==
  ASSUME table \in Tables, NEW ty
  PROVE  Passed(ty, 0) = {} /\ Cardinality(Passed(ty, 0)) = 0
<1>1. OfType(ty) \subseteq Nat
  BY PassedIs
<1>2. Passed(ty, 0) = {}
  BY <1>1 DEF Passed
<1> QED BY <1>2, PassedIs

LEMMA InitHolds == Init => IInv
<1> SUFFICES ASSUME Init PROVE IInv
  OBVIOUS
<1>1. table \in Tables /\ Byte \subseteq 0 .. 255 /\ EndOfTable \in Byte
  BY WalkAssumption DEF Init
<1>2. TypeOK
  <2>1. index \in [Byte -> [first : Nat, count : Nat]]
    BY DEF Init, EmptyIndex
  <2>2. entries \in Seq([at : Nat, length : Nat, name : Int])
    BY DEF Init
  <2>3. pc \in {"build", "ready", "count", "walk", "done"}
    BY DEF Init
  <2> QED BY <1>1, <2>1, <2>2, <2>3 DEF Init, TypeOK
<1>3. p \in 0 .. End /\ OnPath(p)
  BY <1>1, PathStarts DEF Init
<1>4. IndexCovers(0)
  <2>1. ASSUME NEW ty \in Byte
        PROVE  index[ty].first = 0 /\ index[ty].count = 0
    BY DEF Init, EmptyIndex
  <2>2. \A ty \in Byte : Passed(ty, 0) = {} /\ Cardinality(Passed(ty, 0)) = 0
    BY <1>1, NothingPassed
  <2>3. 0 \in 0 .. End /\ OnPath(0)
    BY <1>1, PathStarts
  <2>4. ASSUME NEW ty \in Byte
        PROVE  /\ index[ty].count = Cardinality(Passed(ty, 0))
               /\ index[ty].first \in 0 .. End /\ OnPath(index[ty].first)
               /\ Passed(ty, index[ty].first) = {}
               /\ ~(index[ty].count > 0)
    <3>1. index[ty].first = 0 /\ index[ty].count = 0
      BY <2>1
    <3>2. Passed(ty, 0) = {} /\ Cardinality(Passed(ty, 0)) = 0
      BY <2>2
    <3> QED BY <2>3, <3>1, <3>2
  <2> QED BY <2>4 DEF IndexCovers
<1>5. IndexInv
  BY <1>4 DEF IndexInv, Init
<1>6. CountInv /\ RecordInv /\ WalkInv
  BY DEF CountInv, RecordInv, WalkInv, Init
<1> QED BY <1>2, <1>3, <1>5, <1>6 DEF IInv

(* What every step needs of the invariant. *)
LEMMA Facts ==
  ASSUME IInv
  PROVE  /\ table \in Tables /\ End \in Nat /\ p \in 0 .. End /\ OnPath(p)
         /\ index \in [Byte -> [first : Nat, count : Nat]]
         /\ target \in Byte /\ count \in Nat /\ index_valid \in BOOLEAN
         /\ entries \in Seq([at : Nat, length : Nat, name : Int])
BY Bytes DEF IInv, TypeOK

(* Steps that leave the index alone. *)
LEMMA IndexKept ==
  ASSUME IInv, table' = table, index' = index, index_valid' = index_valid,
         pc # "build", pc' # "build"
  PROVE  IndexInv'
<1>1. ASSUME index_valid
      PROVE  IndexCovers(End)'
  <2>1. IndexCovers(End)
    BY <1>1 DEF IInv, IndexInv
  <2> QED BY <2>1, SameTable DEF IndexCovers
<1> QED BY <1>1 DEF IInv, IndexInv, EmptyIndex

(* Steps after which there are no records. *)
LEMMA NoRecords ==
  ASSUME entries' = << >>, pc' \notin {"walk", "done"}
  PROVE  RecordInv' /\ WalkInv'
BY DEF RecordInv, WalkInv

LEMMA BuildStepHolds ==
  ASSUME IInv, BuildStep
  PROVE  IInv'
<1> DEFINE n == DMINext(table, p, End)
           ty == TypeAt(table, p)
<1>1. /\ pc = "build" /\ StructureAt(table, p) /\ table' = table /\ p' = n
      /\ pc' = pc /\ index_valid' = index_valid /\ entries' = entries
      /\ target' = target /\ count' = count
      /\ index' = [index EXCEPT ![ty] =
                     [first |-> IF @.count = 0 THEN p ELSE @.first,
                      count |-> @.count + 1]]
  BY DEF BuildStep
<1>2. /\ n \in p + 1 .. End /\ OnPath(n) /\ p \in Structures
  BY <1>1, Facts, PathAdvances
<1>3. ty \in Byte /\ p \in Nat
  BY <1>1, Facts, StructureIs
<1>4. index' \in [Byte -> [first : Nat, count : Nat]]
  BY <1>1, <1>3, Facts
<1>5. TypeOK'
  BY <1>1, <1>2, <1>3, <1>4, Facts DEF TypeOK, IInv
<1>6. p' \in 0 .. End' /\ OnPath(p)'
  BY <1>1, <1>2, <1>3, Facts, SameTable DEF OnPath
<1>7. IndexInv'
  <2>1. ASSUME NEW b \in Byte
        PROVE  /\ index'[b].count = Cardinality(Passed(b, n))
               /\ index'[b].first \in 0 .. End /\ OnPath(index'[b].first)
               /\ Passed(b, index'[b].first) = {}
               /\ index'[b].count > 0 => index'[b].first \in OfType(b)
    <3>1. /\ index[b].count = Cardinality(Passed(b, p))
          /\ index[b].first \in 0 .. End /\ OnPath(index[b].first)
          /\ Passed(b, index[b].first) = {}
          /\ index[b].count > 0 => index[b].first \in OfType(b)
          /\ index[b].count \in Nat
      BY <1>1, Facts DEF IInv, IndexInv, IndexCovers
    <3>2. CASE b # ty
      <4>1. Passed(b, n) = Passed(b, p)
        BY <1>1, <3>2, Facts, PassedGrows
      <4>2. index'[b] = index[b]
        BY <1>1, <3>2, Facts
      <4> QED BY <3>1, <4>1, <4>2
    <3>3. CASE b = ty
      <4>1. Cardinality(Passed(b, n)) = index[b].count + 1
        BY <1>1, <3>1, <3>3, Facts, PassedGrows
      <4>2. index'[b] = [first |-> IF index[b].count = 0 THEN p
                                   ELSE index[b].first,
                         count |-> index[b].count + 1]
        BY <1>1, <3>3, Facts
      <4>3. CASE index[b].count = 0
        <5>1. Passed(b, p) = {}
          BY <3>1, <4>3, Facts, PassedIs
        <5>2. p \in OfType(b)
          BY <1>2, <3>3 DEF OfType
        <5>3. index'[b].first = p /\ index'[b].count = 1
          BY <4>2, <4>3
        <5> QED BY <4>1, <4>3, <5>1, <5>2, <5>3, Facts
      <4>4. CASE index[b].count # 0
        <5>1. /\ index'[b].first = index[b].first
              /\ index'[b].count = index[b].count + 1
          BY <4>2, <4>4
        <5> QED BY <3>1, <4>1, <4>4, <5>1
      <4> QED BY <4>3, <4>4
    <3> QED BY <3>2, <3>3
  <2>2. IndexCovers(p)'
    BY <1>1, <2>1, SameTable DEF IndexCovers, OnPath
  <2>3. ~index_valid'
    BY <1>1 DEF IInv, IndexInv
  <2> QED BY <1>1, <2>2, <2>3 DEF IndexInv
<1>8. RecordInv' /\ WalkInv'
  BY <1>1, NoRecords DEF IInv, WalkInv
<1>9. CountInv'
  BY <1>1 DEF CountInv
<1> QED BY <1>5, <1>6, <1>7, <1>8, <1>9 DEF IInv

(* Past the end of the walk everything is passed. *)
LEMMA EverythingPassed ==
  ASSUME table \in Tables, NEW q \in 0 .. End, OnPath(q),
         ~StructureAt(table, q), NEW ty
  PROVE  Passed(ty, q) = OfType(ty) /\ Passed(ty, End) = OfType(ty)
<1>1. \A r \in Structures : r < q
  BY PathEnds
<1>2. End \in Nat /\ \A r \in Structures : r \in 0 .. End - 1
  BY StructuresInside, Bytes
<1>3. \A r \in Structures : r < End
  BY <1>2
<1> QED BY <1>1, <1>3, AllPassed

LEMMA BuildDoneHolds ==
  ASSUME IInv, BuildDone
  PROVE  IInv'
<1>1. /\ pc = "build" /\ ~StructureAt(table, p) /\ table' = table /\ p' = 0
      /\ pc' = "ready" /\ index_valid' = TRUE /\ entries' = entries
      /\ target' = target /\ count' = count /\ index' = index
  BY DEF BuildDone
<1>2. TypeOK'
  BY <1>1, Facts DEF TypeOK
<1>3. p' \in 0 .. End' /\ OnPath(p)'
  BY <1>1, Facts, SameTable, PathStarts DEF OnPath
<1>4. IndexInv'
  <2>1. IndexCovers(p) /\ \A ty : Passed(ty, p) = Passed(ty, End)
    BY <1>1, Facts, EverythingPassed DEF IInv, IndexInv
  <2>2. IndexCovers(End)
    BY <2>1 DEF IndexCovers
  <2>3. IndexCovers(End)'
    BY <1>1, <2>2, SameTable DEF IndexCovers
  <2> QED BY <1>1, <2>3 DEF IndexInv
<1>5. CountInv'
  BY <1>1 DEF CountInv
<1>6. RecordInv' /\ WalkInv'
  BY <1>1, NoRecords DEF IInv, WalkInv
<1> QED BY <1>2, <1>3, <1>4, <1>5, <1>6 DEF IInv

LEMMA GetIndexedHolds ==
  ASSUME IInv, NEW ty \in Byte, GetIndexed(ty)
  PROVE  IInv'
<1>1. /\ pc = "ready" /\ index_valid /\ table' = table /\ pc' = "walk"
      /\ index_valid' = index_valid /\ index' = index
      /\ entries' = << >> /\ target' = ty /\ count' = index[ty].count
      /\ p' = index[ty].first
  BY DEF GetIndexed
<1>2. /\ index[ty].count = Cardinality(OfType(ty))
      /\ index[ty].first \in 0 .. End /\ OnPath(index[ty].first)
      /\ Passed(ty, index[ty].first) = {}
  <2>1. Passed(ty, End) = OfType(ty)
    <3>1. \A r \in Structures : r \in 0 .. End - 1 /\ End \in Nat
      BY Facts, StructuresInside
    <3>2. \A r \in Structures : r < End
      BY <3>1
    <3> QED BY <3>2, Facts, AllPassed
  <2> QED BY <1>1, <2>1 DEF IInv, IndexInv, IndexCovers
<1>3. TypeOK'
  BY <1>1, <1>2, Facts DEF TypeOK
<1>4. p' \in 0 .. End' /\ OnPath(p)'
  BY <1>1, <1>2, Facts, SameTable DEF OnPath
<1>5. IndexInv'
  BY <1>1, IndexKept
<1>6. CountInv'
  BY <1>1, <1>2, SameTable DEF CountInv
<1>7. RecordInv'
  BY <1>1 DEF RecordInv
<1>8. WalkInv'
  <2>1. Passed(target, p)' = {}
    BY <1>1, <1>2, SameTable DEF Passed
  <2> QED BY <1>1, <2>1, FS_EmptySet DEF WalkInv
<1> QED BY <1>3, <1>4, <1>5, <1>6, <1>7, <1>8 DEF IInv

LEMMA GetUnindexedHolds ==
  ASSUME IInv, NEW ty \in Byte, GetUnindexed(ty)
  PROVE  IInv'
<1>1. /\ pc = "ready" /\ table' = table /\ pc' = "count"
      /\ index_valid' = index_valid /\ index' = index
      /\ entries' = << >> /\ target' = ty /\ count' = 0 /\ p' = 0
  BY DEF GetUnindexed
<1>2. TypeOK'
  BY <1>1, Facts DEF TypeOK
<1>3. p' \in 0 .. End' /\ OnPath(p)'
  BY <1>1, Facts, SameTable, PathStarts DEF OnPath
<1>4. IndexInv'
  BY <1>1, IndexKept
<1>5. CountInv'
  <2>1. Cardinality(Passed(ty, 0)) = 0
    BY Facts, NothingPassed
  <2>2. Passed(target, p)' = Passed(ty, 0)
    BY <1>1, SameTable DEF Passed
  <2> QED BY <1>1, <2>1, <2>2 DEF CountInv
<1>6. RecordInv' /\ WalkInv'
  BY <1>1, NoRecords
<1> QED BY <1>2, <1>3, <1>4, <1>5, <1>6 DEF IInv

LEMMA CountStepHolds ==
  ASSUME IInv, CountStep
  PROVE  IInv'
<1> DEFINE n == DMINext(table, p, End)
<1>1. /\ pc = "count" /\ StructureAt(table, p) /\ table' = table
      /\ p' = n /\ pc' = pc /\ index_valid' = index_valid /\ index' = index
      /\ entries' = entries /\ target' = target
      /\ count' = IF TypeAt(table, p) = target THEN count + 1 ELSE count
  BY DEF CountStep
<1>2. n \in p + 1 .. End /\ OnPath(n) /\ p \in Nat
  BY <1>1, Facts, PathAdvances
<1>3. TypeOK'
  BY <1>1, <1>2, Facts DEF TypeOK
<1>4. p' \in 0 .. End' /\ OnPath(p)'
  BY <1>1, <1>2, Facts, SameTable DEF OnPath
<1>5. IndexInv'
  BY <1>1, IndexKept
<1>6. CountInv'
  <2>1. count = Cardinality(Passed(target, p))
    BY <1>1 DEF IInv, CountInv
  <2>2. count' = Cardinality(Passed(target, n))
    BY <1>1, <2>1, Facts, PassedGrows
  <2>3. Passed(target, p)' = Passed(target, n)
    BY <1>1, SameTable DEF Passed
  <2> QED BY <1>1, <2>2, <2>3 DEF CountInv
<1>7. RecordInv' /\ WalkInv'
  BY <1>1, NoRecords DEF IInv, WalkInv
<1> QED BY <1>3, <1>4, <1>5, <1>6, <1>7 DEF IInv

LEMMA CountDoneHolds ==
  ASSUME IInv, CountDone
  PROVE  IInv'
<1>1. /\ pc = "count" /\ ~StructureAt(table, p) /\ table' = table
      /\ p' = 0 /\ pc' = "walk" /\ index_valid' = index_valid
      /\ index' = index /\ entries' = entries /\ target' = target
      /\ count' = count /\ entries = << >>
  BY DEF CountDone, IInv, WalkInv
<1>2. TypeOK'
  BY <1>1, Facts DEF TypeOK
<1>3. p' \in 0 .. End' /\ OnPath(p)'
  BY <1>1, Facts, SameTable, PathStarts DEF OnPath
<1>4. IndexInv'
  BY <1>1, IndexKept
<1>5. CountInv'
  <2>1. count = Cardinality(OfType(target))
    BY <1>1, Facts, EverythingPassed DEF IInv, CountInv
  <2> QED BY <1>1, <2>1, SameTable DEF CountInv, OfType
<1>6. RecordInv'
  BY <1>1 DEF RecordInv
<1>7. WalkInv'
  <2>1. Passed(target, p)' = {} /\ Cardinality(Passed(target, p)') = 0
    BY <1>1, Facts, NothingPassed, SameTable DEF Passed
  <2> QED BY <1>1, <2>1 DEF WalkInv
<1> QED BY <1>2, <1>3, <1>4, <1>5, <1>6, <1>7 DEF IInv

LEMMA ReturnHolds ==
  ASSUME IInv, Return
  PROVE  IInv'
<1>1. /\ pc = "done" /\ table' = table /\ p' = 0 /\ pc' = "ready"
      /\ index_valid' = index_valid /\ index' = index /\ entries' = << >>
      /\ target' = target /\ count' = 0
  BY DEF Return
<1>2. TypeOK'
  BY <1>1, Facts DEF TypeOK
<1>3. p' \in 0 .. End' /\ OnPath(p)'
  BY <1>1, Facts, SameTable, PathStarts DEF OnPath
<1>4. IndexInv'
  BY <1>1, IndexKept
<1>5. CountInv'
  BY <1>1 DEF CountInv
<1>6. RecordInv' /\ WalkInv'
  BY <1>1, NoRecords
<1> QED BY <1>2, <1>3, <1>4, <1>5, <1>6 DEF IInv

(* While fewer records than structures are filled, a structure stands at   *)
(* the loop's position: its laxer guard makes no difference.               *)
LEMMA StillWalking ==
  ASSUME IInv, pc = "walk", Len(entries) < count
  PROVE  StructureAt(table, p)
BY Facts, MoreToCome DEF IInv, CountInv, WalkInv

LEMMA WalkStepHolds ==
  ASSUME IInv, WalkStep
  PROVE  IInv'
<1> DEFINE n == DMINext(table, p, End)
           record == [at |-> p, length |-> LengthOf(p), name |-> NameOf(p)]
           found == TypeAt(table, p) = target
<1>1. /\ pc = "walk" /\ table' = table /\ p' = n /\ pc' = pc
      /\ index_valid' = index_valid /\ index' = index /\ target' = target
      /\ count' = count /\ Len(entries) < count
      /\ entries' = IF found THEN Append(entries, record) ELSE entries
  BY DEF WalkStep, WalkGuard, NameOf, Name, LengthOf
<1>2. StructureAt(table, p)
  BY <1>1, StillWalking
<1>3. n \in p + 1 .. End /\ OnPath(n) /\ p \in Nat /\ p \in Structures
  BY <1>2, Facts, PathAdvances
<1>4. record \in [at : Nat, length : Nat, name : Int]
  <2>1. /\ p + 4 < End /\ LengthAt(table, p) \in 4 .. 255
        /\ End \in Nat /\ n \in Nat
    BY <1>2, <1>3, Facts, StructureIs DEF HeaderSize
  <2>2. At(table, p + HeaderSize) \in 0 .. 255
    BY <1>3, <2>1, Facts, Bytes DEF HeaderSize
  <2>3. LengthOf(p) \in Nat
    BY <1>3, <2>1 DEF LengthOf, ClampLength
  <2> HIDE DEF n
  <2>4. DMIString(table, p, LengthOf(p), At(table, p + HeaderSize), n) \in Int
    <3>1. At(table, p + HeaderSize) \in Nat
      BY <2>2
    <3> QED BY <1>3, <2>1, <2>3, <3>1, Facts, DMIStringInt
  <2>5. NameOf(p) \in Int
    BY <2>4 DEF NameOf, NoString, n
  <2> QED BY <1>3, <2>3, <2>5
<1> HIDE DEF record
<1>5. TypeOK'
  <2>1. entries' \in Seq([at : Nat, length : Nat, name : Int])
    <3>1. Append(entries, record) \in Seq([at : Nat, length : Nat, name : Int])
      BY <1>4, Facts
    <3> QED BY <1>1, <3>1, Facts
  <2>2. p' \in Nat
    BY <1>1, <1>3
  <2>3. /\ table' \in Tables /\ pc' = "walk" /\ target' \in Byte
        /\ index' \in [Byte -> [first : Nat, count : Nat]]
        /\ index_valid' \in BOOLEAN /\ count' \in Nat
    BY <1>1, Facts
  <2> QED BY <2>1, <2>2, <2>3 DEF TypeOK
<1>6. p' \in 0 .. End' /\ OnPath(p)'
  BY <1>1, <1>3, Facts, SameTable DEF OnPath
<1>7. IndexInv'
  BY <1>1, IndexKept
<1>8. CountInv'
  BY <1>1, SameTable DEF CountInv, IInv, OfType
<1>9. Passed(target, p)' = Passed(target, n)
  BY <1>1, SameTable DEF Passed
<1>10. /\ Len(entries) = Cardinality(Passed(target, p))
       /\ Passed(target, p) \subseteq
            {entries[k].at : k \in 1 .. Len(entries)}
       /\ \A k \in 1 .. Len(entries) :
            /\ entries[k].at \in Passed(target, p)
            /\ entries[k].length = LengthOf(entries[k].at)
            /\ entries[k].name = NameOf(entries[k].at)
       /\ \A j, k \in 1 .. Len(entries) :
            j < k => entries[j].at < entries[k].at
       /\ Len(entries) \in Nat
  BY <1>1, Facts DEF IInv, WalkInv, RecordInv
<1>11. CASE ~found
  <2>1. Passed(target, n) = Passed(target, p)
    BY <1>2, <1>11, Facts, PassedGrows
  <2>2. RecordInv'
    BY <1>1, <1>9, <1>10, <1>11, <2>1, SameTable DEF RecordInv
  <2>3. WalkInv'
    BY <1>1, <1>9, <1>10, <1>11, <2>1 DEF WalkInv
  <2> QED BY <1>5, <1>6, <1>7, <1>8, <2>2, <2>3 DEF IInv
<1>12. CASE found
  <2>1. /\ Passed(target, n) = Passed(target, p) \cup {p}
        /\ Cardinality(Passed(target, n)) = Len(entries) + 1
    BY <1>2, <1>10, <1>12, Facts, PassedGrows
  <2>2. /\ Len(entries') = Len(entries) + 1
        /\ \A k \in 1 .. Len(entries) : entries'[k] = entries[k]
        /\ entries'[Len(entries) + 1] = record
    BY <1>1, <1>4, <1>12, Facts
  <2>3. /\ record.at = p /\ record.length = LengthOf(p)
        /\ record.name = NameOf(p)
    BY DEF record
  <2>4. \A k \in 1 .. Len(entries') :
          k \in 1 .. Len(entries) \/ k = Len(entries) + 1
    BY <1>10, <2>2
  <2>5. \A k \in 1 .. Len(entries) : entries[k].at < p
    BY <1>10 DEF Passed
  <2>6. RecordInv'
    <3>1. ASSUME NEW k \in 1 .. Len(entries')
          PROVE  /\ entries'[k].at \in Passed(target, n)
                 /\ entries'[k].length = LengthOf(entries'[k].at)
                 /\ entries'[k].name = NameOf(entries'[k].at)
      BY <1>10, <2>1, <2>2, <2>3, <2>4
    <3>2. ASSUME NEW j \in 1 .. Len(entries'), NEW k \in 1 .. Len(entries'),
                 j < k
          PROVE  entries'[j].at < entries'[k].at
      <4>1. j \in 1 .. Len(entries)
        BY <1>10, <2>2, <3>2
      <4> QED BY <1>10, <2>2, <2>3, <2>4, <2>5, <3>2, <4>1
    <3> QED BY <1>1, <1>9, <3>1, <3>2, SameTable DEF RecordInv
  <2>7. WalkInv'
    <3>1. ASSUME NEW r \in Passed(target, n)
          PROVE  \E k \in 1 .. Len(entries') : r = entries'[k].at
      <4>1. CASE r = p
        <5>1. Len(entries) + 1 \in 1 .. Len(entries')
          BY <1>10, <2>2
        <5> QED BY <2>2, <2>3, <4>1, <5>1
      <4>2. CASE r \in Passed(target, p)
        <5>1. PICK k \in 1 .. Len(entries) : r = entries[k].at
          BY <1>10, <4>2
        <5>2. k \in 1 .. Len(entries')
          BY <1>10, <2>2
        <5> QED BY <2>2, <5>1, <5>2
      <4> QED BY <2>1, <4>1, <4>2
    <3> QED BY <1>1, <1>9, <2>1, <2>2, <3>1 DEF WalkInv
  <2> QED BY <1>5, <1>6, <1>7, <1>8, <2>6, <2>7 DEF IInv
<1> QED BY <1>11, <1>12

LEMMA WalkDoneHolds ==
  ASSUME IInv, WalkDone
  PROVE  IInv'
<1>1. /\ pc = "walk" /\ ~WalkGuard /\ pc' = "done" /\ p' = p
      /\ table' = table /\ index_valid' = index_valid /\ index' = index
      /\ entries' = entries /\ target' = target /\ count' = count
  BY DEF WalkDone
<1>2. TypeOK'
  BY <1>1, Facts DEF TypeOK
<1>3. p' \in 0 .. End' /\ OnPath(p)'
  BY <1>1, Facts, SameTable DEF OnPath
<1>4. IndexInv'
  BY <1>1, IndexKept
<1>5. CountInv'
  BY <1>1, SameTable DEF CountInv, IInv, OfType
<1>6. RecordInv'
  BY <1>1, SameTable DEF RecordInv, IInv, Passed
<1>7. WalkInv'
  <2>1. Len(entries) = Cardinality(Passed(target, p)) /\ Len(entries) \in Nat
    BY <1>1, Facts DEF IInv, WalkInv
  <2>2. ASSUME Len(entries) < count
        PROVE  FALSE
    <3>1. StructureAt(table, p)
      BY <1>1, <2>2, StillWalking
    <3>2. p \in Nat /\ table \in Tables
      BY Facts
    <3>3. p + HeaderSize < End /\ LengthAt(table, p) >= HeaderSize
      BY <3>1 DEF StructureAt, End
    <3>4. p + HeaderSize <= End
      BY <3>2, <3>3, Bytes DEF HeaderSize
    <3> QED BY <1>1, <2>2, <3>3, <3>4 DEF WalkGuard
  <2>3. Len(entries) <= count
    BY <1>1, <2>1, Facts, PassedIs DEF IInv, CountInv
  <2>4. Len(entries) = count
    BY <2>1, <2>2, <2>3, Facts
  <2> QED BY <1>1, <2>4, SameTable DEF IInv, WalkInv, Passed
<1> QED BY <1>2, <1>3, <1>4, <1>5, <1>6, <1>7 DEF IInv

LEMMA StutterHolds ==
  ASSUME IInv, UNCHANGED vars
  PROVE  IInv'
<1>1. /\ pc' = pc /\ p' = p /\ table' = table /\ index_valid' = index_valid
      /\ index' = index /\ entries' = entries /\ target' = target
      /\ count' = count
  BY DEF vars
<1>2. TypeOK'
  BY <1>1, Facts DEF TypeOK, IInv
<1>3. p' \in 0 .. End' /\ OnPath(p)'
  BY <1>1, Facts, SameTable DEF OnPath
<1>4. IndexInv'
  BY <1>1, SameTable DEF IInv, IndexInv, IndexCovers
<1>5. CountInv'
  BY <1>1, SameTable DEF CountInv, IInv, OfType, Passed
<1>6. RecordInv'
  BY <1>1, SameTable DEF RecordInv, IInv, Passed
<1>7. WalkInv'
  BY <1>1, SameTable DEF WalkInv, IInv, Passed
<1> QED BY <1>2, <1>3, <1>4, <1>5, <1>6, <1>7 DEF IInv

(* The walk keeps to the table's structures, in every loop.                *)
THEOREM WalkCorrect == Spec => []IInv
<1>1. IInv /\ [Next]_vars => IInv'
  <2> SUFFICES ASSUME IInv, [Next]_vars PROVE IInv'
    OBVIOUS
  <2>1. CASE LoopStep
    BY <2>1, BuildStepHolds, BuildDoneHolds, CountStepHolds, CountDoneHolds,
       WalkStepHolds, WalkDoneHolds DEF LoopStep
  <2>2. CASE \E ty \in Byte : GetIndexed(ty) \/ GetUnindexed(ty)
    BY <2>2, GetIndexedHolds, GetUnindexedHolds
  <2>3. CASE Return
    BY <2>3, ReturnHolds
  <2>4. CASE UNCHANGED vars
    BY <2>4, StutterHolds
  <2> QED BY <2>1, <2>2, <2>3, <2>4 DEF Next
<1> QED BY <1>1, InitHolds, PTL DEF Spec

-----------------------------------------------------------------------------
(* What it means.                                                          *)

LEMMA RecordOfStructure ==
  ASSUME IInv, NEW k \in 1 .. Len(entries)
  PROVE  LET q == entries[k].at
         IN  /\ q \in Nat /\ StructureAt(table, q)
             /\ entries[k].length = LengthOf(q)
             /\ entries[k].name = NameOf(q)
<1>1. /\ entries[k].at \in Passed(target, p)
      /\ entries[k].length = LengthOf(entries[k].at)
      /\ entries[k].name = NameOf(entries[k].at)
  BY DEF IInv, RecordInv
<1>2. entries[k].at \in Structures
  BY <1>1 DEF Passed, OfType
<1> QED BY <1>1, <1>2, Facts, StructuresInside

LEMMA LengthInside ==
  ASSUME table \in Tables, NEW q \in Nat, StructureAt(table, q)
  PROVE  LengthOf(q) >= HeaderSize /\ q + LengthOf(q) <= End
<1>1. q + 4 < End /\ LengthAt(table, q) \in 4 .. 255 /\ End \in Nat
  BY StructureIs, Bytes DEF HeaderSize
<1>2. LengthOf(q) = IF End - q < LengthAt(table, q) THEN End - q
                    ELSE LengthAt(table, q)
  BY DEF LengthOf, ClampLength
<1> QED BY <1>1, <1>2 DEF HeaderSize

(* No loop leaves the table, and what it records lies inside it. *)
THEOREM LoopsStayInside == Spec => []StaysInside
<1>1. ASSUME IInv PROVE StaysInside
  <2>1. TypeOK /\ p <= End
    BY <1>1, Facts DEF IInv
  <2>2. ASSUME NEW ty \in Byte, index[ty].count > 0
        PROVE  index[ty].first + HeaderSize < End
    <3>1. PICK q : IndexCovers(q)
      <4>1. index # EmptyIndex
        BY <2>2 DEF EmptyIndex
      <4> QED BY <1>1, <4>1 DEF IInv, IndexInv
    <3>2. index[ty].first \in OfType(ty)
      BY <2>2, <3>1 DEF IndexCovers
    <3>3. index[ty].first \in Nat /\ StructureAt(table, index[ty].first)
      BY <1>1, <3>2, Facts, StructuresInside DEF OfType
    <3> QED BY <1>1, <3>3, Facts, StructureIs
  <2>3. ASSUME NEW k \in 1 .. Len(entries)
        PROVE  /\ entries[k].length >= HeaderSize
               /\ entries[k].at + entries[k].length <= End
    <3> DEFINE q == entries[k].at
    <3>1. /\ q \in Nat /\ StructureAt(table, q)
          /\ entries[k].length = LengthOf(q)
      BY <1>1, RecordOfStructure
    <3> QED BY <1>1, <3>1, Facts, LengthInside
  <2> QED BY <2>1, <2>2, <2>3 DEF StaysInside
<1> QED BY <1>1, WalkCorrect, PTL

(* The index says what a table holds. *)
THEOREM IndexCorrect == Spec => []IndexMatchesTable
<1>1. ASSUME IInv PROVE IndexMatchesTable
  <2> SUFFICES ASSUME index_valid, NEW ty \in Byte
               PROVE  /\ index[ty].count = Cardinality(OfType(ty))
                      /\ OfType(ty) # {} =>
                           index[ty].first = Least(OfType(ty))
    BY DEF IndexMatchesTable
  <2> DEFINE first == index[ty].first
  <2>1. Passed(ty, End) = OfType(ty)
    <3>1. \A r \in Structures : r \in 0 .. End - 1 /\ End \in Nat
      BY <1>1, Facts, StructuresInside
    <3>2. \A r \in Structures : r < End
      BY <3>1
    <3> QED BY <1>1, <3>2, Facts, AllPassed
  <2>2. /\ index[ty].count = Cardinality(OfType(ty))
        /\ Passed(ty, first) = {}
        /\ index[ty].count > 0 => first \in OfType(ty)
    BY <1>1, <2>1 DEF IInv, IndexInv, IndexCovers
  <2>3. ASSUME OfType(ty) # {}
        PROVE  first = Least(OfType(ty))
    <3>1. OfType(ty) \subseteq Nat /\ Cardinality(OfType(ty)) \in Nat
      BY <1>1, Facts, PassedIs
    <3>2. first \in OfType(ty)
      <4>1. Cardinality(OfType(ty)) # 0
        BY <1>1, <2>3, Facts, PassedIs, FS_EmptySet
      <4> QED BY <2>2, <3>1, <4>1
    <3>3. /\ Least(OfType(ty)) \in OfType(ty)
          /\ Least(OfType(ty)) <= first
      BY <2>3, <3>1, <3>2, LeastIs
    <3>4. ~(Least(OfType(ty)) < first)
      BY <2>2, <3>3 DEF Passed
    <3> QED BY <3>1, <3>2, <3>3, <3>4
  <2> QED BY <2>2, <2>3
<1> QED BY <1>1, WalkCorrect, PTL

LEMMA FindsAll == IInv => GetterFindsAll
<1> SUFFICES ASSUME IInv PROVE GetterFindsAll
  OBVIOUS
<1> SUFFICES ASSUME pc = "done"
             PROVE  /\ {entries[k].at : k \in 1 .. Len(entries)}
                         = OfType(target)
                    /\ Len(entries) = count
                    /\ \A j, k \in 1 .. Len(entries) :
                         j < k => entries[j].at < entries[k].at
  BY DEF GetterFindsAll
<1>1. /\ Len(entries) = count
      /\ count = Cardinality(OfType(target))
      /\ Len(entries) = Cardinality(Passed(target, p))
      /\ Passed(target, p) \subseteq
           {entries[k].at : k \in 1 .. Len(entries)}
  BY DEF IInv, WalkInv, CountInv
<1>2. Passed(target, p) = OfType(target)
  BY <1>1, Facts, PassedIs
<1>3. /\ \A k \in 1 .. Len(entries) : entries[k].at \in Passed(target, p)
      /\ \A j, k \in 1 .. Len(entries) :
           j < k => entries[j].at < entries[k].at
  BY DEF IInv, RecordInv
<1> QED BY <1>1, <1>2, <1>3

(* A getter finds every structure of its type, once and in order, and as   *)
(* many as it has counted: with the index or without it.                   *)
THEOREM GetterCorrect == Spec => []GetterFindsAll
BY FindsAll, WalkCorrect, PTL

(* A string member is the string its index names. *)
THEOREM StringsCorrect == Spec => []StringsResolve
<1>1. ASSUME IInv PROVE StringsResolve
  <2>1. ASSUME NEW k \in 1 .. Len(entries)
        PROVE  entries[k].name = StringOf(entries[k].at)
    BY <1>1, Facts, RecordOfStructure, NameResolves
  <2> QED BY <2>1 DEF StringsResolve, StringOf
<1> QED BY <1>1, WalkCorrect, PTL

(* The refinement.  What the contract says of a table is what TableWalk    *)
(* is compared with.                                                       *)

LEMMA SameContents ==
  /\ \A ty : Contract!OfType(ty) = OfType(ty)
  /\ \A q : Contract!RecordOf(q) = RecordOf(q)
<1>1. Contract!Structures = Structures
  BY DEF Contract!Structures, Contract!NextOf, Contract!EndsAt, Contract!End,
         Contract!StructureAt, Contract!TypeAt, Contract!LengthAt,
         Contract!DoubleNul, Contract!At, Contract!HeaderSize,
         Contract!EndOfTable,
         Structures, NextOf, EndsAt, End, StructureAt, TypeAt, LengthAt,
         DoubleNul, At, HeaderSize, EndOfTable
<1>2. ASSUME NEW ty PROVE Contract!OfType(ty) = OfType(ty)
  BY <1>1 DEF Contract!OfType, OfType, Contract!TypeAt, TypeAt,
              Contract!At, At
<1>3. ASSUME NEW q PROVE Contract!LengthOf(q) = LengthOf(q)
  BY DEF Contract!LengthOf, Contract!ClampLength, Contract!LengthAt,
         Contract!At, Contract!End, LengthOf, ClampLength, LengthAt, At, End
<1>4. ASSUME NEW q PROVE Contract!StringOf(q) = StringOf(q)
  BY DEF Contract!StringOf, Contract!NextOf, Contract!EndsAt, Contract!End,
         Contract!LengthAt, Contract!DoubleNul, Contract!At,
         Contract!HeaderSize, Contract!Least, Contract!NoString,
         Contract!IsString, Contract!StringStarts, Contract!Cardinality,
         StringOf, NextOf, EndsAt, End, LengthAt, DoubleNul, At, HeaderSize,
         Least, NoString, IsString, StringStarts, Cardinality
<1>5. ASSUME NEW q PROVE Contract!RecordOf(q) = RecordOf(q)
  BY <1>3, <1>4 DEF Contract!RecordOf, RecordOf
<1> QED BY <1>2, <1>5

(* The contract's state, by the loop that runs. *)
State ==
  CASE pc \in {"build", "ready"} -> "idle"
    [] pc \in {"count", "walk"}  -> "asked"
    [] pc = "done"               -> "answered"

Records == IF pc = "done" THEN entries ELSE << >>

(* What a getter has filled when its loop ends is what the contract asks.  *)
Complete ==
  /\ GetterFindsAll
  /\ \A k \in 1 .. Len(entries) : entries[k] = RecordOf(entries[k].at)

LEMMA Elements ==
  ASSUME NEW S, NEW s \in Seq(S), NEW k \in 1 .. Len(s)
  PROVE  s[k] \in S
OBVIOUS

LEMMA IsComplete == IInv => Complete
<1> SUFFICES ASSUME IInv PROVE Complete
  OBVIOUS
<1>1. ASSUME NEW k \in 1 .. Len(entries)
      PROVE  entries[k] = RecordOf(entries[k].at)
  <2>1. entries[k] \in [at : Nat, length : Nat, name : Int]
    <3>1. entries \in Seq([at : Nat, length : Nat, name : Int])
      BY DEF IInv, TypeOK
    <3> QED BY <3>1, Elements
  <2>2. /\ entries[k].length = LengthOf(entries[k].at)
        /\ entries[k].name = StringOf(entries[k].at)
    BY RecordOfStructure, Facts, NameResolves
  <2> QED BY <2>1, <2>2 DEF RecordOf
<1> QED BY <1>1, FindsAll DEF Complete

LEMMA IsCompleteNext == IInv' => Complete'
BY IsComplete, PTL

LEMMA SameRecords ==
  ASSUME table' = table
  PROVE  \A q : RecordOf(q)' = RecordOf(q)
<1>1. \A q : StringOf(q)' = StringOf(q)
  BY DEF StringOf, NextOf, EndsAt, End, IsString, StringStarts
<1> QED BY <1>1, SameTable DEF RecordOf

LEMMA InitRefines ==
  ASSUME Init
  PROVE  Contract!Init
BY WalkAssumption DEF Init, Contract!Init

LEMMA StepRefines ==
  ASSUME IInv, IInv', [Next]_vars
  PROVE  [Contract!Next]_Contract!contractVars
<1>1. pc \in {"build", "ready", "count", "walk", "done"}
  BY DEF IInv, TypeOK
<1>2. CASE BuildStep \/ BuildDone \/ CountStep \/ CountDone \/ WalkStep
           \/ UNCHANGED vars
  <2>1. UNCHANGED <<table, target, State, Records>>
    BY <1>2 DEF BuildStep, BuildDone, CountStep, CountDone, WalkStep, vars,
                State, Records
  <2> QED BY <2>1 DEF Contract!contractVars, State, Records
<1>3. CASE WalkDone
  <2>1. /\ pc = "walk" /\ pc' = "done"
        /\ UNCHANGED <<table, target, entries>>
    BY <1>3 DEF WalkDone
  <2>2. /\ {entries'[k].at : k \in 1 .. Len(entries')} = OfType(target)
        /\ \A j, k \in 1 .. Len(entries') :
             j < k => entries'[j].at < entries'[k].at
        /\ \A k \in 1 .. Len(entries') :
             entries'[k] = RecordOf(entries'[k].at)
    BY <2>1, IsCompleteNext, SameTable, SameRecords
       DEF Complete, GetterFindsAll
  <2>3. Contract!Answers(target, entries')
    BY <2>2, SameContents DEF Contract!Answers
  <2> QED BY <2>1, <2>3 DEF Contract!Next, Contract!Answer
<1>4. CASE Return
  BY <1>4 DEF Return, Contract!Next, Contract!Release
<1>5. CASE \E ty \in Byte : GetIndexed(ty) \/ GetUnindexed(ty)
  <2>1. PICK ty \in Byte : GetIndexed(ty) \/ GetUnindexed(ty)
    BY <1>5
  <2>2. Contract!Ask(ty)
    BY <2>1 DEF GetIndexed, GetUnindexed, Contract!Ask
  <2> QED BY <2>2 DEF Contract!Next
<1> QED BY <1>2, <1>3, <1>4, <1>5 DEF Next, LoopStep

(* TableWalk does what the contract promises: each answer is complete, in  *)
(* order and of this table, with an index or without one, whatever was     *)
(* asked before.                                                           *)
THEOREM Implementation == Spec => ImplementsTableContract
<1>1. IInv /\ IInv' /\ [Next]_vars => [Contract!Next]_Contract!contractVars
  BY StepRefines
<1> QED BY <1>1, InitRefines, WalkCorrect, PTL
        DEF Spec, ImplementsTableContract, Contract!Spec

(* Rising sequences with the same members are the same: where they agree   *)
(* up to k, b has a k-th member, and it is not behind that of a.           *)
LEMMA Ahead ==
  ASSUME NEW m \in Nat, NEW n \in Nat, NEW a, NEW b, NEW k \in 1 .. m,
         \A i \in 1 .. m : a[i] \in Nat,
         \A i \in 1 .. n : b[i] \in Nat,
         \A i, j \in 1 .. m : i < j => a[i] < a[j],
         \A i, j \in 1 .. n : i < j => b[i] < b[j],
         \A i \in 1 .. m : \E j \in 1 .. n : b[j] = a[i],
         \A i \in 1 .. k - 1 : i \in 1 .. n /\ a[i] = b[i]
  PROVE  k \in 1 .. n /\ b[k] <= a[k]
<1>1. PICK j \in 1 .. n : b[j] = a[k]
  OBVIOUS
<1>2. j >= k
  <2> SUFFICES ASSUME j < k PROVE FALSE
    OBVIOUS
  <2>1. j \in 1 .. m /\ a[j] = b[j]
    OBVIOUS
  <2>2. a[j] < a[k]
    BY <2>1
  <2> QED BY <1>1, <2>1, <2>2
<1>3. k \in 1 .. n
  BY <1>2
<1>4. b[k] <= b[j]
  BY <1>2, <1>3
<1> QED BY <1>1, <1>3, <1>4

Rising(m, a) ==
  /\ \A i \in 1 .. m : a[i] \in Nat
  /\ \A i, j \in 1 .. m : i < j => a[i] < a[j]

Among(m, a, n, b) == \A i \in 1 .. m : \E j \in 1 .. n : b[j] = a[i]

LEMMA SameRising ==
  ASSUME NEW m \in Nat, NEW n \in Nat, NEW a, NEW b,
         Rising(m, a), Rising(n, b), Among(m, a, n, b), Among(n, b, m, a)
  PROVE  m = n /\ \A i \in 1 .. m : a[i] = b[i]
<1> USE DEF Rising, Among
<1> DEFINE Agree(i) == i \in 1 .. m /\ i \in 1 .. n /\ a[i] = b[i]
           Bad == {i \in Nat : (i \in 1 .. m \/ i \in 1 .. n) /\ ~Agree(i)}
<1>1. Bad = {}
  <2> SUFFICES ASSUME Bad # {} PROVE FALSE
    OBVIOUS
  <2>1. PICK k \in Bad : \A i \in Bad : k <= i
    <3>1. Bad \in SUBSET Nat
      OBVIOUS
    <3> QED BY <3>1, LeastNatural
  <2>2. \A i \in 1 .. k - 1 : Agree(i)
    <3>1. k \in Nat /\ (k \in 1 .. m \/ k \in 1 .. n)
      OBVIOUS
    <3>2. ASSUME NEW i \in 1 .. k - 1 PROVE Agree(i)
      <4>1. i \in Nat /\ (i \in 1 .. m \/ i \in 1 .. n) /\ ~(k <= i)
        BY <3>1
      <4>2. i \notin Bad
        BY <2>1, <4>1
      <4> QED BY <4>1, <4>2
    <3> QED BY <3>2
  <2>3. k \in 1 .. m => k \in 1 .. n /\ b[k] <= a[k]
    BY <2>2, Ahead
  <2>4. k \in 1 .. n => k \in 1 .. m /\ a[k] <= b[k]
    BY <2>2, Ahead
  <2>5. k \in 1 .. m /\ k \in 1 .. n /\ a[k] = b[k]
    BY <2>3, <2>4
  <2> QED BY <2>5
<1>2. ASSUME NEW i \in 1 .. m PROVE Agree(i)
  <2>1. i \in Nat
    OBVIOUS
  <2> QED BY <1>1, <2>1
<1>3. ASSUME NEW i \in 1 .. n PROVE Agree(i)
  <2>1. i \in Nat
    OBVIOUS
  <2> QED BY <1>1, <2>1
<1> HIDE DEF Agree
<1>4. m <= n
  BY <1>2 DEF Agree
<1>5. n <= m
  BY <1>3 DEF Agree
<1> QED BY <1>2, <1>4, <1>5 DEF Agree

(* The contract leaves a getter no choice: a table has one answer for a    *)
(* type.  With the index or by counting, at the first call and at a later  *)
(* one, a getter of the same type returns the same records.                *)
THEOREM OneAnswer ==
  ASSUME table \in Tables, NEW ty, NEW R,
         NEW a \in Seq(R), Contract!Answers(ty, a),
         NEW b \in Seq(R), Contract!Answers(ty, b)
  PROVE  a = b
<1> DEFINE m == Len(a)
           n == Len(b)
           x == [i \in 1 .. m |-> a[i].at]
           y == [i \in 1 .. n |-> b[i].at]
<1>1. /\ {a[i].at : i \in 1 .. m} = OfType(ty)
      /\ \A i, j \in 1 .. m : i < j => a[i].at < a[j].at
      /\ \A i \in 1 .. m : a[i] = RecordOf(a[i].at)
  BY SameContents DEF Contract!Answers
<1>2. /\ {b[i].at : i \in 1 .. n} = OfType(ty)
      /\ \A i, j \in 1 .. n : i < j => b[i].at < b[j].at
      /\ \A i \in 1 .. n : b[i] = RecordOf(b[i].at)
  BY SameContents DEF Contract!Answers
<1>3. /\ m \in Nat /\ a = [i \in 1 .. m |-> a[i]]
      /\ n \in Nat /\ b = [i \in 1 .. n |-> b[i]]
  BY Elements
<1>4. OfType(ty) \subseteq Nat
  BY StructuresInside DEF OfType
<1> HIDE DEF m, n
<1>5. Rising(m, x)
  BY <1>1, <1>4 DEF Rising
<1>6. Rising(n, y)
  BY <1>2, <1>4 DEF Rising
<1>7. Among(m, x, n, y) /\ Among(n, y, m, x)
  <2>1. ASSUME NEW i \in 1 .. m PROVE \E j \in 1 .. n : y[j] = x[i]
    <3>1. PICK j \in 1 .. n : b[j].at = a[i].at
      BY <1>1, <1>2
    <3> QED BY <3>1
  <2>2. ASSUME NEW i \in 1 .. n PROVE \E j \in 1 .. m : x[j] = y[i]
    <3>1. PICK j \in 1 .. m : a[j].at = b[i].at
      BY <1>1, <1>2
    <3> QED BY <3>1
  <2> QED BY <2>1, <2>2 DEF Among
<1> HIDE DEF x, y
<1>8. m = n /\ \A i \in 1 .. m : x[i] = y[i]
  <2>1. m \in Nat /\ n \in Nat
    BY <1>3
  <2> QED BY <1>5, <1>6, <1>7, <2>1, SameRising
<1>9. \A i \in 1 .. m : a[i].at = b[i].at
  BY <1>8 DEF x, y
<1>10. \A i \in 1 .. m : a[i] = b[i]
  BY <1>1, <1>2, <1>8, <1>9
<1> QED BY <1>3, <1>8, <1>10

-----------------------------------------------------------------------------
Running == pc \in {"build", "count", "walk"}

(* How many iterations the running loop can still make, at most, and the   *)
(* loop that follows it: each position is behind the one before.           *)
StepsLeft ==
  CASE pc \in {"build", "walk"} -> (End - p) + 1
    [] pc = "count"             -> (End - p) + End + 2
    [] OTHER                    -> 0

LEMMA StepsLeftNatural == IInv => StepsLeft \in Nat
<1> SUFFICES ASSUME IInv PROVE StepsLeft \in Nat
  OBVIOUS
<1>1. (End - p) + 1 \in Nat /\ (End - p) + End + 2 \in Nat /\ 0 \in Nat
  BY Facts
<1> QED BY <1>1, Zenon DEF StepsLeft

LEMMA StepsLeftDecrease ==
  ASSUME IInv, Next, pc \in {"build", "count", "walk"}
  PROVE  StepsLeft' < StepsLeft
<1>1. End \in Nat /\ p \in 0 .. End /\ table \in Tables
  BY Facts
<1>2. ASSUME p + HeaderSize <= End, p' = DMINext(table, p, End),
             table' = table, pc' = pc
      PROVE  StepsLeft' < StepsLeft
  <2>1. p' \in p + 1 .. End /\ End' = End
    BY <1>1, <1>2, NextInside DEF End
  <2>2. CASE pc \in {"build", "walk"}
    BY <1>1, <1>2, <2>1, <2>2 DEF StepsLeft
  <2>3. CASE pc = "count"
    BY <1>1, <1>2, <2>1, <2>3 DEF StepsLeft
  <2> QED BY <2>2, <2>3
<1>3. CASE BuildStep \/ CountStep
  <2>1. StructureAt(table, p)
    BY <1>3 DEF BuildStep, CountStep
  <2>2. p + HeaderSize <= End
    BY <1>1, <2>1, StructureIs DEF HeaderSize
  <2> QED BY <1>2, <1>3, <2>2 DEF BuildStep, CountStep
<1>4. CASE WalkStep
  BY <1>2, <1>4 DEF WalkStep, WalkGuard
<1>5. CASE BuildDone
  <2>1. pc = "build" /\ pc' = "ready"
    BY <1>5 DEF BuildDone
  <2> QED BY <1>1, <2>1 DEF StepsLeft
<1>6. CASE CountDone
  <2>1. pc = "count" /\ pc' = "walk" /\ p' = 0 /\ End' = End
    BY <1>6 DEF CountDone, End
  <2> QED BY <1>1, <2>1 DEF StepsLeft
<1>7. CASE WalkDone
  <2>1. pc = "walk" /\ pc' = "done"
    BY <1>7 DEF WalkDone
  <2> QED BY <1>1, <2>1 DEF StepsLeft
<1> QED
  BY <1>3, <1>4, <1>5, <1>6, <1>7
     DEF Next, LoopStep, GetIndexed, GetUnindexed, Return

(* No loop over a table runs for ever, whatever its bytes are: while one   *)
(* runs every step lowers StepsLeft, which is never negative, and no step  *)
(* of a client comes in between.  A structure whose length byte is zero,   *)
(* or one that is cut off, ends the loop instead of holding it in place.   *)
THEOREM LoopsRunDown ==
  Spec => /\ [](StepsLeft \in Nat)
          /\ [][Running => StepsLeft' < StepsLeft]_vars
<1>1. IInv /\ [Next]_vars => [Running => StepsLeft' < StepsLeft]_vars
  BY StepsLeftDecrease DEF Running
<1> QED BY <1>1, StepsLeftNatural, WalkCorrect, PTL DEF Spec

=============================================================================
