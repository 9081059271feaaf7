--------------------------- MODULE EntryLoadProofs ---------------------------
(***************************************************************************)
(* Proofs about modules EntryPoint and EntryLoad.                          *)
(***************************************************************************)
EXTENDS EntryLoad, SequenceTheorems, WellFoundedInduction, TLAPS

-----------------------------------------------------------------------------
(* Order and induction on the natural numbers, by sets: what the library   *)
(* states with an operator parameter.                                      *)

Below == OpToRel(<, Nat)

(* A set of natural numbers that is not empty has a least element. *)
LEMMA LeastNatural ==
  ASSUME NEW T, T \subseteq Nat, T # {}
  PROVE  \E m \in T : \A n \in T : m <= n
<1>1. \A j, k \in Nat : <<j, k>> \in Below <=> j < k
  BY DEF Below, OpToRel
<1>2. IsWellFoundedOn(Below, Nat)
  BY NatLessThanWellFounded DEF Below
<1>3. PICK m \in T : \A n \in T : <<n, m>> \notin Below
  BY <1>2, WFMin
<1>4. m \in Nat /\ \A n \in T : n \in Nat /\ ~(n < m)
  BY <1>1, <1>3
<1> QED BY <1>3, <1>4

(* A set that holds 0, and n + 1 whenever it holds n, holds every natural  *)
(* number.                                                                 *)
LEMMA Induction ==
  ASSUME NEW S, 0 \in S, \A n \in Nat : n \in S => n + 1 \in S
  PROVE  Nat \subseteq S
<1>1. SUFFICES ASSUME Nat \ S # {} PROVE FALSE
  OBVIOUS
<1>2. PICK m \in Nat \ S : \A n \in Nat \ S : m <= n
  BY <1>1, LeastNatural
<1>3. m # 0 /\ m - 1 \in Nat
  BY <1>2
<1> QED BY <1>2, <1>3

-----------------------------------------------------------------------------
(* The 8-bit sum.                                                          *)

Sums(d, a, z) ==
  CHOOSE f : f = [k \in a .. z |-> IF k = a THEN 0
                                   ELSE (f[k - 1] + d[k]) % 256]

(* Some function satisfies the equation, so the chosen one does. *)
LEMMA SumsEquation ==
  ASSUME NEW d, NEW a \in Nat, NEW z \in Nat
  PROVE  Sums(d, a, z) =
           [k \in a .. z |-> IF k = a THEN 0
                             ELSE (Sums(d, a, z)[k - 1] + d[k]) % 256]
<1> DEFINE G(f, y) == [k \in a .. y |-> IF k = a THEN 0
                                        ELSE (f[k - 1] + d[k]) % 256]
           S == {y \in Nat : \E f : f = G(f, y)}
<1>1. ASSUME NEW y \in Nat, y < a
      PROVE  y \in S
  <2> DEFINE f == [k \in a .. y |-> 0]
  <2>1. f = G(f, y)
    BY <1>1
  <2> HIDE DEF f
  <2> QED BY <2>1
<1>2. a \in S
  <2> DEFINE f == [k \in a .. a |-> 0]
  <2>1. f = G(f, a)
    OBVIOUS
  <2> HIDE DEF f
  <2> QED BY <2>1
<1>3. ASSUME NEW y \in Nat, y \in S, y >= a
      PROVE  y + 1 \in S
  <2>1. PICK f : f = G(f, y)
    BY <1>3
  <2> DEFINE g == G(f, y + 1)
  <2>2. \A k \in a .. y : g[k] = f[k]
    BY <2>1
  <2> HIDE DEF g
  <2>3. \A k \in a .. y + 1 : k # a => k - 1 \in a .. y
    OBVIOUS
  <2>4. \A k \in a .. y + 1 : k # a => g[k - 1] = f[k - 1]
    BY <2>2, <2>3
  <2>5. g = G(g, y + 1)
    BY <2>4 DEF g
  <2> QED BY <2>5
<1>4. 0 \in S /\ \A y \in Nat : y \in S => y + 1 \in S
  <2> HIDE DEF S
  <2>1. 0 \in S
    BY <1>1, <1>2
  <2>2. ASSUME NEW y \in Nat, y \in S PROVE y + 1 \in S
    <3>1. CASE y >= a
      BY <1>3, <2>2, <3>1
    <3>2. CASE y + 1 = a
      BY <1>2, <3>2
    <3>3. CASE y + 1 < a
      BY <1>1, <3>3
    <3> QED BY <3>1, <3>2, <3>3
  <2> QED BY <2>1, <2>2
<1> HIDE DEF S
<1>5. z \in S
  BY <1>4, Induction
<1>6. \E f : f = G(f, z)
  BY <1>5 DEF S
<1> DEFINE s == CHOOSE f : f = G(f, z)
<1>7. Sums(d, a, z) = s
  BY DEF Sums
<1> HIDE DEF G
<1>8. s = G(s, z)
  BY <1>6
<1> HIDE DEF s
<1>9. Sums(d, a, z) = G(Sums(d, a, z), z)
  BY <1>7, <1>8
<1> QED BY <1>9, Zenon DEF G

(* Sum reads the function of running sums at the end of its range. *)
LEMMA SumIsSums ==
  ASSUME NEW d, NEW a \in Nat, NEW z \in Nat
  PROVE  Sum(d, a, z) = Sums(d, a, z)[z]
BY DEF Sum, Sums

(* The running sum starts with nothing. *)
LEMMA SumsStart ==
  ASSUME NEW d, NEW a \in Nat, NEW z \in Nat, a <= z
  PROVE  Sums(d, a, z)[a] = 0
<1> DEFINE f == Sums(d, a, z)
<1>1. f = [k \in a .. z |-> IF k = a THEN 0 ELSE (f[k - 1] + d[k]) % 256]
  BY SumsEquation
<1> HIDE DEF f
<1>2. f[a] = 0
  BY <1>1
<1> QED BY <1>2 DEF f

(* The running sum grows by a byte, modulo 256. *)
LEMMA SumsStep ==
  ASSUME NEW d, NEW a \in Nat, NEW z \in Nat, NEW k \in a .. z, k # a
  PROVE  Sums(d, a, z)[k] = (Sums(d, a, z)[k - 1] + d[k]) % 256
<1> DEFINE f == Sums(d, a, z)
<1>1. f = [j \in a .. z |-> IF j = a THEN 0 ELSE (f[j - 1] + d[j]) % 256]
  BY SumsEquation
<1> HIDE DEF f
<1>2. f[k] = (f[k - 1] + d[k]) % 256
  BY <1>1
<1> QED BY <1>2 DEF f

(* The sums of a shorter range are those of a longer one. *)
LEMMA SumsAgree ==
  ASSUME NEW d, NEW a \in Nat, NEW y \in Nat, NEW z \in Nat, y <= z,
         NEW k \in a .. y
  PROVE  Sums(d, a, y)[k] = Sums(d, a, z)[k]
<1> DEFINE f == Sums(d, a, y)
           g == Sums(d, a, z)
           S == {j \in Nat : j \in a .. y => f[j] = g[j]}
<1>1. /\ f[a] = 0 /\ g[a] = 0
      /\ \A j \in a .. y : j # a => f[j] = (f[j - 1] + d[j]) % 256
      /\ \A j \in a .. z : j # a => g[j] = (g[j - 1] + d[j]) % 256
  BY SumsStart, SumsStep
<1>2. \A j \in a .. y : j \in a .. z /\ (j # a => j - 1 \in a .. y)
  OBVIOUS
<1> HIDE DEF f, g
<1>3. 0 \in S
  BY <1>1, <1>2
<1>4. ASSUME NEW j \in Nat, j \in S
      PROVE  j + 1 \in S
  <2> SUFFICES ASSUME j + 1 \in a .. y PROVE f[j + 1] = g[j + 1]
    OBVIOUS
  <2>1. CASE j + 1 = a
    BY <1>1, <1>2, <2>1
  <2>2. CASE j + 1 # a
    <3>1. f[j] = g[j]
      BY <1>4, <2>2
    <3>2. /\ f[j + 1] = (f[j] + d[j + 1]) % 256
          /\ g[j + 1] = (g[j] + d[j + 1]) % 256
      BY <1>1, <1>2, <2>2
    <3> QED BY <3>1, <3>2
  <2> QED BY <2>1, <2>2
<1> HIDE DEF S
<1>5. k \in S
  BY <1>3, <1>4, Induction
<1> QED BY <1>5 DEF S, f, g

(* The sum of no bytes, and of one more. *)
LEMMA SumOfNone ==
  ASSUME NEW d, NEW a \in Nat
  PROVE  Sum(d, a, a) = 0
BY SumIsSums, SumsStart

(* A range that is longer by a byte. *)
LEMMA SumOfOneMore ==
  ASSUME NEW d, NEW a \in Nat, NEW z \in Nat, a <= z
  PROVE  Sum(d, a, z + 1) = (Sum(d, a, z) + d[z + 1]) % 256
<1>1. Sum(d, a, z + 1) = Sums(d, a, z + 1)[z + 1]
  BY SumIsSums
<1>2. Sums(d, a, z + 1)[z + 1] = (Sums(d, a, z + 1)[z] + d[z + 1]) % 256
  <2>1. z + 1 \in a .. z + 1 /\ z + 1 # a /\ (z + 1) - 1 = z
    OBVIOUS
  <2>2. z + 1 \in Nat
    OBVIOUS
  <2> QED BY <2>1, <2>2, SumsStep
<1>3. Sums(d, a, z + 1)[z] = Sums(d, a, z)[z]
  BY SumsAgree
<1>4. Sum(d, a, z) = Sums(d, a, z)[z]
  BY SumIsSums
<1> QED BY <1>1, <1>2, <1>3, <1>4

(* A sum of bytes is a byte. *)
LEMMA SumIsByte ==
  ASSUME NEW d, NEW a \in Nat, NEW z \in Nat, a <= z,
         \A k \in a + 1 .. z : d[k] \in 0 .. 255
  PROVE  Sum(d, a, z) \in 0 .. 255
<1> DEFINE S == {n \in Nat : a + n <= z => Sum(d, a, a + n) \in 0 .. 255}
<1>1. 0 \in S
  BY SumOfNone
<1>2. ASSUME NEW n \in Nat, n \in S
      PROVE  n + 1 \in S
  <2> SUFFICES ASSUME a + (n + 1) <= z
               PROVE  Sum(d, a, a + (n + 1)) \in 0 .. 255
    OBVIOUS
  <2>1. /\ Sum(d, a, (a + n) + 1) = (Sum(d, a, a + n) + d[(a + n) + 1]) % 256
        /\ Sum(d, a, a + n) \in 0 .. 255
    BY <1>2, SumOfOneMore
  <2>2. (a + n) + 1 \in a + 1 .. z /\ (a + n) + 1 = a + (n + 1)
    OBVIOUS
  <2>3. d[(a + n) + 1] \in 0 .. 255
    BY <2>2
  <2>4. Sum(d, a, a + (n + 1)) = (Sum(d, a, a + n) + d[(a + n) + 1]) % 256
    BY <2>1, <2>2
  <2> DEFINE x == Sum(d, a, a + n)
             y == d[(a + n) + 1]
  <2>5. x \in 0 .. 255 /\ y \in 0 .. 255
    BY <2>1, <2>3
  <2> HIDE DEF x, y
  <2>6. (x + y) % 256 \in 0 .. 255
    BY <2>5
  <2> QED BY <2>4, <2>6 DEF x, y
<1> HIDE DEF S
<1>3. z - a \in S /\ a + (z - a) = z
  BY <1>1, <1>2, Induction
<1> QED BY <1>3 DEF S

(* The same bytes somewhere else have the same sum. *)
LEMMA SumOfCopy ==
  ASSUME NEW d, NEW e, NEW o \in Nat, NEW a \in Nat, NEW z \in Nat, a <= z,
         \A k \in a + 1 .. z : e[k] = d[k + o]
  PROVE  Sum(e, a, z) = Sum(d, a + o, z + o)
<1> DEFINE S == {n \in Nat : a + n <= z =>
                   Sum(e, a, a + n) = Sum(d, a + o, (a + n) + o)}
<1>1. 0 \in S
  BY SumOfNone
<1>2. ASSUME NEW n \in Nat, n \in S
      PROVE  n + 1 \in S
  <2> SUFFICES ASSUME a + (n + 1) <= z
               PROVE  Sum(e, a, a + (n + 1)) =
                        Sum(d, a + o, (a + (n + 1)) + o)
    OBVIOUS
  <2>1. Sum(e, a, (a + n) + 1) = (Sum(e, a, a + n) + e[(a + n) + 1]) % 256
    BY SumOfOneMore
  <2>2. Sum(d, a + o, ((a + n) + o) + 1) =
          (Sum(d, a + o, (a + n) + o) + d[((a + n) + o) + 1]) % 256
    BY SumOfOneMore
  <2>3. /\ e[(a + n) + 1] = d[((a + n) + 1) + o]
        /\ ((a + n) + 1) + o = ((a + n) + o) + 1
        /\ a + (n + 1) = (a + n) + 1
    OBVIOUS
  <2>4. Sum(e, a, a + n) = Sum(d, a + o, (a + n) + o)
    BY <1>2
  <2> QED BY <2>1, <2>2, <2>3, <2>4
<1> HIDE DEF S
<1>3. z - a \in S /\ a + (z - a) = z
  BY <1>1, <1>2, Induction
<1> QED BY <1>3 DEF S

(* The sum of a range in two parts. *)
LEMMA SumInParts ==
  ASSUME NEW d, NEW a \in Nat, NEW m \in Nat, NEW z \in Nat,
         a <= m, m <= z, \A k \in a + 1 .. z : d[k] \in 0 .. 255
  PROVE  Sum(d, a, z) = (Sum(d, a, m) + Sum(d, m, z)) % 256
<1> DEFINE S == {n \in Nat : m + n <= z =>
                   Sum(d, a, m + n) = (Sum(d, a, m) + Sum(d, m, m + n)) % 256}
<1>1. ASSUME NEW y \in m .. z
      PROVE  Sum(d, a, y) \in 0 .. 255 /\ Sum(d, m, y) \in 0 .. 255
  <2>1. /\ y \in Nat /\ a <= y /\ m <= y
        /\ \A k \in a + 1 .. y : d[k] \in 0 .. 255
        /\ \A k \in m + 1 .. y : d[k] \in 0 .. 255
    OBVIOUS
  <2> QED BY <2>1, SumIsByte
<1>2. 0 \in S
  <2>1. Sum(d, a, m) \in 0 .. 255
    BY <1>1
  <2> QED BY <2>1, SumOfNone
<1>3. ASSUME NEW n \in Nat, n \in S
      PROVE  n + 1 \in S
  <2> SUFFICES ASSUME m + (n + 1) <= z
               PROVE  Sum(d, a, m + (n + 1)) =
                        (Sum(d, a, m) + Sum(d, m, m + (n + 1))) % 256
    OBVIOUS
  <2>1. /\ Sum(d, a, (m + n) + 1) = (Sum(d, a, m + n) + d[(m + n) + 1]) % 256
        /\ Sum(d, m, (m + n) + 1) = (Sum(d, m, m + n) + d[(m + n) + 1]) % 256
    BY SumOfOneMore
  <2>2. Sum(d, a, m + n) = (Sum(d, a, m) + Sum(d, m, m + n)) % 256
    BY <1>3
  <2>3. /\ Sum(d, a, m) \in 0 .. 255 /\ Sum(d, m, m + n) \in 0 .. 255
        /\ d[(m + n) + 1] \in 0 .. 255 /\ (m + n) + 1 = m + (n + 1)
    BY <1>1
  <2>4. m + n \in m .. z
    OBVIOUS
  <2> DEFINE x == Sum(d, a, m)
             y == Sum(d, m, m + n)
             b == d[(m + n) + 1]
  <2>5. x \in 0 .. 255 /\ y \in 0 .. 255 /\ b \in 0 .. 255
    BY <2>3
  <2>6. /\ Sum(d, a, (m + n) + 1) = (((x + y) % 256) + b) % 256
        /\ Sum(d, m, (m + n) + 1) = (y + b) % 256
    BY <2>1, <2>2, Zenon
  <2> HIDE DEF x, y, b
  <2>7. (((x + y) % 256) + b) % 256 = (x + ((y + b) % 256)) % 256
    BY <2>5
  <2>8. Sum(d, a, (m + n) + 1) = (x + Sum(d, m, (m + n) + 1)) % 256
    BY <2>6, <2>7, Zenon
  <2> QED BY <2>3, <2>8 DEF x
<1> HIDE DEF S
<1>4. z - m \in S /\ m + (z - m) = z
  BY <1>2, <1>3, Induction
<1> QED BY <1>4 DEF S

-----------------------------------------------------------------------------
(* A window of bytes: e is what d has from offset o on.                    *)

Bytes == Seq(0 .. 255)

Within(e, d, o) ==
  /\ d \in Bytes /\ e \in Bytes /\ o \in Nat
  /\ Len(e) + o <= Len(d)
  /\ \A k \in 1 .. Len(e) : e[k] = d[k + o]

(* A part of a sequence of bytes is a window of it. *)
LEMMA SubSeqIsWithin ==
  ASSUME NEW d \in Bytes, NEW o \in Nat, NEW z \in Nat, o <= z, z <= Len(d)
  PROVE  /\ Within(SubSeq(d, o + 1, z), d, o)
         /\ Len(SubSeq(d, o + 1, z)) = z - o
<1>1. \A k \in o + 1 .. z : d[k] \in 0 .. 255
  <2>1. \A k \in o + 1 .. z : k \in 1 .. Len(d)
    BY DEF Bytes
  <2> QED BY <2>1, ElementOfSeq DEF Bytes
<1> DEFINE e == SubSeq(d, o + 1, z)
<1>2. /\ e \in Seq(0 .. 255)
      /\ Len(e) = IF o + 1 <= z THEN z - (o + 1) + 1 ELSE 0
      /\ \A k \in 1 .. z - (o + 1) + 1 : e[k] = d[(o + 1) + k - 1]
  <2>1. o + 1 \in Int /\ z \in Int
    OBVIOUS
  <2> QED BY <1>1, <2>1, SubSeqProperties
<1> HIDE DEF e
<1>3. Len(e) = z - o
  BY <1>2
<1>4. \A k \in 1 .. Len(e) : e[k] = d[k + o]
  BY <1>2, <1>3
<1>5. d \in Seq(0 .. 255) /\ Len(d) \in Nat
  BY DEF Bytes
<1> QED BY <1>2, <1>3, <1>4, <1>5 DEF e, Within, Bytes

(* A window has an anchor where the bytes around it have it. *)
LEMMA HasAtWithin ==
  ASSUME NEW d, NEW e, NEW o, Within(e, d, o), NEW j \in Nat,
         NEW b \in Bytes, j + Len(b) <= Len(e), NEW p \in Nat, p = o + j
  PROVE  HasAt(e, j, b) <=> HasAt(d, p, b)
<1>1. /\ d \in Bytes /\ e \in Bytes /\ o \in Nat /\ Len(b) \in Nat
      /\ Len(e) \in Nat /\ Len(d) \in Nat /\ Len(e) + o <= Len(d)
      /\ \A k \in 1 .. Len(e) : e[k] = d[k + o]
  BY DEF Within, Bytes
<1> DEFINE x == SubSeq(e, j + 1, j + Len(b))
           y == SubSeq(d, p + 1, p + Len(b))
<1>2. /\ x \in Bytes /\ Len(x) = Len(b)
      /\ \A k \in 1 .. Len(x) : x[k] = e[k + j]
  <2>1. j + Len(b) \in Nat /\ j <= j + Len(b) /\ j + Len(b) <= Len(e)
    BY <1>1
  <2> QED BY <1>1, <2>1, SubSeqIsWithin DEF Within
<1>3. /\ y \in Bytes /\ Len(y) = Len(b)
      /\ \A k \in 1 .. Len(y) : y[k] = d[k + p]
  <2>1. /\ p \in Nat /\ p + Len(b) \in Nat
        /\ p <= p + Len(b) /\ p + Len(b) <= Len(d)
    BY <1>1
  <2> QED BY <1>1, <2>1, SubSeqIsWithin DEF Within
<1> HIDE DEF x, y
<1>4. \A k \in 1 .. Len(x) : x[k] = y[k]
  <2> TAKE k \in 1 .. Len(x)
  <2>1. /\ k + j \in 1 .. Len(e) /\ k \in 1 .. Len(y)
        /\ (k + j) + o = k + p
    BY <1>1, <1>2, <1>3
  <2>2. e[k + j] = d[(k + j) + o]
    BY <1>1, <2>1
  <2> QED BY <1>2, <1>3, <2>1, <2>2
<1>5. x = y
  BY <1>2, <1>3, <1>4, SeqEqual DEF Bytes
<1>6. Len(e) >= j + Len(b) /\ Len(d) >= p + Len(b)
  BY <1>1
<1> QED BY <1>5, <1>6 DEF HasAt, x, y

(* A window's sums are those of the bytes around it. *)
LEMMA SumWithin ==
  ASSUME NEW d, NEW e, NEW o, Within(e, d, o), NEW a \in Nat, NEW z \in Nat,
         a <= z, z <= Len(e),
         NEW p \in Nat, NEW q \in Nat, p = o + a, q = o + z
  PROVE  ChecksumValid(e, a, z) <=> ChecksumValid(d, p, q)
<1>1. /\ o \in Nat /\ Len(e) \in Nat
      /\ \A k \in 1 .. Len(e) : e[k] = d[k + o]
  BY DEF Within, Bytes
<1>2. \A k \in a + 1 .. z : e[k] = d[k + o]
  BY <1>1
<1>3. Sum(e, a, z) = Sum(d, a + o, z + o)
  BY <1>1, <1>2, SumOfCopy
<1>4. a + o = p /\ z + o = q
  BY <1>1
<1> QED BY <1>3, <1>4 DEF ChecksumValid

(* The anchors are sequences of bytes. *)
LEMMA Anchors ==
  /\ SMBIOS3_ANCHOR \in Bytes /\ Len(SMBIOS3_ANCHOR) = 5
  /\ SMBIOS2_ANCHOR \in Bytes /\ Len(SMBIOS2_ANCHOR) = 4
  /\ SMBIOS2_INTERMEDIATE_ANCHOR \in Bytes
  /\ Len(SMBIOS2_INTERMEDIATE_ANCHOR) = 5
BY DEF SMBIOS3_ANCHOR, SMBIOS2_ANCHOR, SMBIOS2_INTERMEDIATE_ANCHOR, Bytes

(* No offset has both anchors: they differ in the fourth byte. *)
LEMMA OneAnchor ==
  ASSUME NEW d \in Bytes, NEW o \in Nat,
         HasAt(d, o, SMBIOS3_ANCHOR), HasAt(d, o, SMBIOS2_ANCHOR)
  PROVE  FALSE
<1>1. o + 5 <= Len(d) /\ o + 4 <= Len(d) /\ Len(d) \in Nat
  BY Anchors DEF HasAt, Bytes
<1>2. /\ SubSeq(d, o + 1, o + 5) = SMBIOS3_ANCHOR
      /\ SubSeq(d, o + 1, o + 4) = SMBIOS2_ANCHOR
  BY Anchors DEF HasAt
<1>3. SMBIOS3_ANCHOR[4] = 51 /\ SMBIOS2_ANCHOR[4] = 95
  BY DEF SMBIOS3_ANCHOR, SMBIOS2_ANCHOR
<1>4. Within(SubSeq(d, o + 1, o + 5), d, o) /\ Len(SubSeq(d, o + 1, o + 5)) = 5
  <2>1. o + 5 \in Nat /\ o <= o + 5 /\ (o + 5) - o = 5
    OBVIOUS
  <2> QED BY <1>1, <2>1, SubSeqIsWithin
<1>5. Within(SubSeq(d, o + 1, o + 4), d, o) /\ Len(SubSeq(d, o + 1, o + 4)) = 4
  <2>1. o + 4 \in Nat /\ o <= o + 4 /\ (o + 4) - o = 4
    OBVIOUS
  <2> QED BY <1>1, <2>1, SubSeqIsWithin
<1>6. SMBIOS3_ANCHOR[4] = d[4 + o] /\ SMBIOS2_ANCHOR[4] = d[4 + o]
  <2>1. 4 \in 1 .. 5 /\ 4 \in 1 .. 4
    OBVIOUS
  <2> QED BY <1>2, <1>4, <1>5, <2>1 DEF Within
<1> QED BY <1>3, <1>6

-----------------------------------------------------------------------------
(* What lazybiosInspectEntryPoint accepts.                                 *)

Is3(d) == HasAt(d, 0, SMBIOS3_ANCHOR) /\ Whole(d, 24, 6)

Is2(d) ==
  /\ HasAt(d, 0, SMBIOS2_ANCHOR) /\ Whole(d, 31, 5)
  /\ HasAt(d, 16, SMBIOS2_INTERMEDIATE_ANCHOR)

(* No bytes begin both kinds of entry point. *)
LEMMA NotBoth ==
  ASSUME NEW d \in Bytes
  PROVE  ~(Is3(d) /\ Is2(d))
BY OneAnchor DEF Is3, Is2

(* The three outcomes. *)
LEMMA InspectThree ==
  ASSUME NEW d, Is3(d)
  PROVE  Inspect(d) = [tag |-> "3x", length |-> ByteAt(d, 6),
                       checksum_valid |-> ChecksumValid(d, 0, ByteAt(d, 6)),
                       intermediate_checksum_valid |-> TRUE]
BY Zenon DEF Inspect, Is3, SMBIOS3_ENTRY_POINT_LENGTH

LEMMA InspectTwo ==
  ASSUME NEW d, ~Is3(d), Is2(d)
  PROVE  Inspect(d) = [tag |-> "2x", length |-> ByteAt(d, 5),
                       checksum_valid |-> ChecksumValid(d, 0, ByteAt(d, 5)),
                       intermediate_checksum_valid |->
                         ChecksumValid(d, 16, 31)]
BY Zenon DEF Inspect, Is3, Is2, SMBIOS3_ENTRY_POINT_LENGTH,
   SMBIOS2_ENTRY_POINT_LENGTH, IntermediateOffset

LEMMA InspectNone ==
  ASSUME NEW d, ~Is3(d), ~Is2(d)
  PROVE  Inspect(d) = Rejected
BY Zenon DEF Inspect, Is3, Is2, SMBIOS3_ENTRY_POINT_LENGTH,
   SMBIOS2_ENTRY_POINT_LENGTH, IntermediateOffset

(* Accepted: one of the two, whole; valid: with its checksums good.        *)
LEMMA AcceptedIs ==
  ASSUME NEW d
  PROVE  Accepted(d) <=> Is3(d) \/ Is2(d)
<1>1. CASE Is3(d)
  <2>1. Inspect(d).tag = "3x"
    BY <1>1, InspectThree
  <2> QED BY <1>1, <2>1 DEF Accepted
<1>2. CASE ~Is3(d) /\ Is2(d)
  <2>1. Inspect(d).tag = "2x"
    BY <1>2, InspectTwo
  <2> QED BY <1>2, <2>1 DEF Accepted
<1>3. CASE ~Is3(d) /\ ~Is2(d)
  <2>1. Inspect(d).tag = "unknown"
    BY <1>3, InspectNone DEF Rejected
  <2> QED BY <1>3, <2>1 DEF Accepted
<1> QED BY <1>1, <1>2, <1>3

(* When the checksums of a 3.x, and of a 2.x, entry point are good. *)
LEMMA ValidThree ==
  ASSUME NEW d, Is3(d)
  PROVE  Valid(d) <=> ChecksumValid(d, 0, ByteAt(d, 6))
<1>1. /\ Inspect(d).checksum_valid = ChecksumValid(d, 0, ByteAt(d, 6))
      /\ Inspect(d).intermediate_checksum_valid = TRUE
  BY InspectThree
<1> QED BY <1>1, Zenon DEF Valid

LEMMA ValidTwo ==
  ASSUME NEW d \in Bytes, Is2(d)
  PROVE  Valid(d) <=> /\ ChecksumValid(d, 0, ByteAt(d, 5))
                      /\ ChecksumValid(d, 16, 31)
<1>1. /\ Inspect(d).checksum_valid = ChecksumValid(d, 0, ByteAt(d, 5))
      /\ Inspect(d).intermediate_checksum_valid = ChecksumValid(d, 16, 31)
  BY NotBoth, InspectTwo
<1> QED BY <1>1, Zenon DEF Valid

(* Good checksums are only claimed of what is accepted. *)
LEMMA ValidIsAccepted ==
  ASSUME NEW d, Valid(d)
  PROVE  Is3(d) \/ Is2(d)
<1> SUFFICES ASSUME ~Is3(d), ~Is2(d) PROVE FALSE
  OBVIOUS
<1>1. Inspect(d).checksum_valid = FALSE
  BY InspectNone DEF Rejected
<1> QED BY <1>1, Zenon DEF Valid

(* How long an accepted entry point says it is. *)
LEMMA LengthThree ==
  ASSUME NEW d \in Bytes, Is3(d)
  PROVE  /\ Inspect(d).length = ByteAt(d, 6)
         /\ ByteAt(d, 6) \in 24 .. 255 /\ ByteAt(d, 6) <= Len(d)
<1>1. Inspect(d).length = ByteAt(d, 6)
  BY InspectThree
<1>2. Len(d) >= 24 /\ ByteAt(d, 6) \in 24 .. Len(d)
  BY DEF Is3, Whole
<1>3. d[7] \in 0 .. 255
  <2>1. 7 \in 1 .. Len(d)
    BY <1>2 DEF Bytes
  <2> QED BY <2>1, ElementOfSeq DEF Bytes
<1>4. ByteAt(d, 6) = d[7]
  BY DEF ByteAt
<1> DEFINE x == ByteAt(d, 6)
           n == Len(d)
<1>5. n \in Nat
  BY DEF Bytes
<1>6. x \in 24 .. n
  BY <1>2
<1>7. x \in 0 .. 255
  BY <1>3, <1>4
<1> HIDE DEF x, n
<1>8. x \in 24 .. 255 /\ x <= n
  BY <1>5, <1>6, <1>7
<1> QED BY <1>1, <1>8 DEF x, n

LEMMA LengthTwo ==
  ASSUME NEW d \in Bytes, Is2(d)
  PROVE  /\ Inspect(d).length = ByteAt(d, 5)
         /\ ByteAt(d, 5) \in 31 .. 255 /\ ByteAt(d, 5) <= Len(d)
<1>1. Inspect(d).length = ByteAt(d, 5)
  BY NotBoth, InspectTwo
<1>2. Len(d) >= 31 /\ ByteAt(d, 5) \in 31 .. Len(d)
  BY DEF Is2, Whole
<1>3. d[6] \in 0 .. 255
  <2>1. 6 \in 1 .. Len(d)
    BY <1>2 DEF Bytes
  <2> QED BY <2>1, ElementOfSeq DEF Bytes
<1>4. ByteAt(d, 5) = d[6]
  BY DEF ByteAt
<1> DEFINE x == ByteAt(d, 5)
           n == Len(d)
<1>5. n \in Nat
  BY DEF Bytes
<1>6. x \in 31 .. n
  BY <1>2
<1>7. x \in 0 .. 255
  BY <1>3, <1>4
<1> HIDE DEF x, n
<1>8. x \in 31 .. 255 /\ x <= n
  BY <1>5, <1>6, <1>7
<1> QED BY <1>1, <1>8 DEF x, n

(* The declared length lies within the bytes that are there. *)
LEMMA AcceptedLength ==
  ASSUME NEW d \in Bytes, Accepted(d)
  PROVE  Inspect(d).length \in 24 .. 255 /\ Inspect(d).length <= Len(d)
<1>1. CASE Is3(d)
  BY <1>1, LengthThree
<1>2. CASE Is2(d)
  BY <1>2, LengthTwo
<1> QED BY <1>1, <1>2, AcceptedIs

(* The copy that ends where the entry point says it ends is inspected with *)
(* the same outcome.                                                       *)
LEMMA CopyOfAccepted ==
  ASSUME NEW d \in Bytes, Accepted(d)
  PROVE  /\ Within(SubSeq(d, 1, Inspect(d).length), d, 0)
         /\ Len(SubSeq(d, 1, Inspect(d).length)) = Inspect(d).length
<1> DEFINE n == Inspect(d).length
<1>1. n \in 24 .. 255 /\ n <= Len(d)
  BY AcceptedLength
<1> HIDE DEF n
<1>2. 0 \in Nat /\ n \in Nat /\ 0 <= n /\ 0 + 1 = 1 /\ n - 0 = n
  BY <1>1
<1>3. Within(SubSeq(d, 0 + 1, n), d, 0) /\ Len(SubSeq(d, 0 + 1, n)) = n - 0
  BY <1>1, <1>2, SubSeqIsWithin
<1> QED BY <1>2, <1>3 DEF n

LEMMA CopyIsInspectedAlike ==
  ASSUME NEW d \in Bytes, Accepted(d),
         NEW e, Within(e, d, 0), Len(e) = Inspect(d).length
  PROVE  /\ Is3(e) <=> Is3(d)
         /\ Is2(e) <=> Is2(d)
         /\ Accepted(e)
         /\ Inspect(e).length = Inspect(d).length
         /\ Valid(e) <=> Valid(d)
<1> DEFINE m == Len(d)
           n == Len(e)
<1>1. n \in 24 .. 255 /\ n <= m /\ m \in Nat
  BY AcceptedLength DEF Bytes
<1>2. e \in Bytes /\ \A k \in 1 .. n : e[k] = d[k]
  BY DEF Within
<1> HIDE DEF m, n
<1>3. ByteAt(e, 5) = ByteAt(d, 5) /\ ByteAt(e, 6) = ByteAt(d, 6)
  <2>1. e[6] = d[6] /\ e[7] = d[7]
    BY <1>1, <1>2
  <2> QED BY <2>1 DEF ByteAt
<1>4. HasAt(e, 0, SMBIOS3_ANCHOR) <=> HasAt(d, 0, SMBIOS3_ANCHOR)
  <2>1. 0 + Len(SMBIOS3_ANCHOR) <= Len(e) /\ SMBIOS3_ANCHOR \in Bytes
    <3>1. 0 + 5 <= n
      BY <1>1
    <3> QED BY <3>1, Anchors DEF n
  <2>2. 0 = 0 + 0
    OBVIOUS
  <2> QED BY <2>1, <2>2, HasAtWithin
<1>5. HasAt(e, 0, SMBIOS2_ANCHOR) <=> HasAt(d, 0, SMBIOS2_ANCHOR)
  <2>1. 0 + Len(SMBIOS2_ANCHOR) <= Len(e) /\ SMBIOS2_ANCHOR \in Bytes
    <3>1. 0 + 4 <= n
      BY <1>1
    <3> QED BY <3>1, Anchors DEF n
  <2>2. 0 = 0 + 0
    OBVIOUS
  <2> QED BY <2>1, <2>2, HasAtWithin
<1>6. HasAt(e, 16, SMBIOS2_INTERMEDIATE_ANCHOR)
        <=> HasAt(d, 16, SMBIOS2_INTERMEDIATE_ANCHOR)
  <2>1. /\ 16 + Len(SMBIOS2_INTERMEDIATE_ANCHOR) <= Len(e)
        /\ SMBIOS2_INTERMEDIATE_ANCHOR \in Bytes
    <3>1. 16 + 5 <= n
      BY <1>1
    <3> QED BY <3>1, Anchors DEF n
  <2>2. 16 = 0 + 16
    OBVIOUS
  <2> QED BY <2>1, <2>2, HasAtWithin
<1>7. Is3(d) => n = ByteAt(d, 6)
  BY LengthThree DEF n
<1>8. Is2(d) => n = ByteAt(d, 5)
  BY LengthTwo DEF n
<1>15. Is2(d) => n \in 31 .. 255
  <2>1. Is2(d) => ByteAt(d, 5) \in 31 .. 255
    BY LengthTwo
  <2> QED BY <1>8, <2>1, Zenon
<1>9. Is3(e) <=> Is3(d)
  <2>1. ASSUME Is3(e) PROVE Is3(d)
    <3>1. Whole(e, 24, 6) /\ HasAt(d, 0, SMBIOS3_ANCHOR)
      BY <1>4, <2>1 DEF Is3
    <3>2. Whole(d, 24, 6)
      BY <1>1, <1>3, <3>1 DEF Whole, m, n
    <3> QED BY <3>1, <3>2 DEF Is3
  <2>2. ASSUME Is3(d) PROVE Is3(e)
    <3>1. HasAt(e, 0, SMBIOS3_ANCHOR)
      BY <1>4, <2>2 DEF Is3
    <3>2. n >= 24 /\ n \in 24 .. n
      BY <1>1, <1>8, <2>2
    <3>3. ByteAt(e, 6) = n
      BY <1>3, <1>7, <2>2
    <3>4. Whole(e, 24, 6)
      BY <3>2, <3>3, Zenon DEF Whole, n
    <3> QED BY <3>1, <3>4 DEF Is3
  <2> QED BY <2>1, <2>2
<1>10. Is2(e) <=> Is2(d)
  <2>1. ASSUME Is2(e) PROVE Is2(d)
    <3>1. /\ Whole(e, 31, 5) /\ HasAt(d, 0, SMBIOS2_ANCHOR)
          /\ HasAt(d, 16, SMBIOS2_INTERMEDIATE_ANCHOR)
      BY <1>5, <1>6, <2>1 DEF Is2
    <3>2. Whole(d, 31, 5)
      BY <1>1, <1>3, <3>1 DEF Whole, m, n
    <3> QED BY <3>1, <3>2 DEF Is2
  <2>2. ASSUME Is2(d) PROVE Is2(e)
    <3>1. /\ HasAt(e, 0, SMBIOS2_ANCHOR)
          /\ HasAt(e, 16, SMBIOS2_INTERMEDIATE_ANCHOR)
      BY <1>5, <1>6, <2>2 DEF Is2
    <3>2. n >= 31 /\ n \in 31 .. n
      BY <1>1, <1>15, <2>2
    <3>3. ByteAt(e, 5) = n
      BY <1>3, <1>8, <2>2
    <3>4. Whole(e, 31, 5)
      BY <3>2, <3>3, Zenon DEF Whole, n
    <3> QED BY <3>1, <3>4 DEF Is2
  <2> QED BY <2>1, <2>2
<1>11. Accepted(e) /\ (Is3(d) \/ Is2(d))
  BY <1>9, <1>10, AcceptedIs
<1>12. ASSUME NEW a \in Nat, NEW z \in Nat, a <= z, z <= n
       PROVE  ChecksumValid(e, a, z) <=> ChecksumValid(d, a, z)
  <2>1. a = 0 + a /\ z = 0 + z
    OBVIOUS
  <2> QED BY <1>12, <2>1, SumWithin DEF n
<1>13. CASE Is3(d)
  <2>1. Inspect(e).length = Inspect(d).length
    BY <1>2, <1>3, <1>9, <1>13, LengthThree
  <2>2. ByteAt(e, 6) = n
    BY <1>3, <1>7, <1>13
  <2>3. Valid(e) <=> ChecksumValid(e, 0, n)
    BY <1>9, <1>13, <2>2, ValidThree
  <2>4. Valid(d) <=> ChecksumValid(d, 0, n)
    BY <1>7, <1>13, ValidThree
  <2>5. ChecksumValid(e, 0, n) <=> ChecksumValid(d, 0, n)
    BY <1>1, <1>12
  <2> QED BY <1>9, <1>10, <1>11, <2>1, <2>3, <2>4, <2>5
<1>14. CASE Is2(d)
  <2>1. Inspect(e).length = Inspect(d).length
    BY <1>2, <1>3, <1>10, <1>14, LengthTwo
  <2>2. ByteAt(e, 5) = n
    BY <1>3, <1>8, <1>14
  <2>3. Valid(e) <=> ChecksumValid(e, 0, n) /\ ChecksumValid(e, 16, 31)
    BY <1>2, <1>10, <1>14, <2>2, ValidTwo
  <2>4. Valid(d) <=> ChecksumValid(d, 0, n) /\ ChecksumValid(d, 16, 31)
    BY <1>8, <1>14, ValidTwo
  <2>5. ChecksumValid(e, 0, n) <=> ChecksumValid(d, 0, n)
    BY <1>1, <1>12
  <2>6. ChecksumValid(e, 16, 31) <=> ChecksumValid(d, 16, 31)
    <3>1. 16 \in Nat /\ 31 \in Nat /\ 16 <= 31 /\ 31 <= n
      BY <1>1, <1>14, <1>15
    <3> QED BY <1>12, <3>1
  <2> QED BY <1>9, <1>10, <1>11, <2>1, <2>3, <2>4, <2>5, <2>6
<1> QED BY <1>11, <1>13, <1>14

-----------------------------------------------------------------------------
(* The entry points of a window.                                           *)

Rest(d, o) == SubSeq(d, o + 1, Len(d))

EntryOf(d, o) ==
  \/ /\ HasAt(d, o, SMBIOS3_ANCHOR)
     /\ \E n \in 24 .. 255 :
          /\ o + n <= Len(d) /\ ByteAt(d, o + 6) = n
          /\ ChecksumValid(d, o, o + n)
  \/ /\ HasAt(d, o, SMBIOS2_ANCHOR)
     /\ HasAt(d, o + 16, SMBIOS2_INTERMEDIATE_ANCHOR)
     /\ \E n \in 31 .. 255 :
          /\ o + n <= Len(d) /\ ByteAt(d, o + 5) = n
          /\ ChecksumValid(d, o, o + n)
     /\ ChecksumValid(d, o + 16, o + 31)

(* What holds of the bytes from offset o on when they are long enough for  *)
(* an entry point.                                                         *)
LEMMA RestIsAlike ==
  ASSUME NEW d \in Bytes, NEW o \in Nat, NEW r, Within(r, d, o),
         Len(r) \in Nat, Len(r) >= 24
  PROVE  /\ HasAt(r, 0, SMBIOS3_ANCHOR) <=> HasAt(d, o, SMBIOS3_ANCHOR)
         /\ HasAt(r, 0, SMBIOS2_ANCHOR) <=> HasAt(d, o, SMBIOS2_ANCHOR)
         /\ HasAt(r, 16, SMBIOS2_INTERMEDIATE_ANCHOR)
              <=> HasAt(d, o + 16, SMBIOS2_INTERMEDIATE_ANCHOR)
         /\ ByteAt(r, 5) = ByteAt(d, o + 5)
         /\ ByteAt(r, 6) = ByteAt(d, o + 6)
<1> DEFINE n == Len(r)
<1>1. n \in Nat /\ n >= 24 /\ \A k \in 1 .. n : r[k] = d[k + o]
  BY DEF Within
<1> HIDE DEF n
<1>2. HasAt(r, 0, SMBIOS3_ANCHOR) <=> HasAt(d, o, SMBIOS3_ANCHOR)
  <2>1. 0 + Len(SMBIOS3_ANCHOR) <= Len(r) /\ SMBIOS3_ANCHOR \in Bytes
    <3>1. 0 + 5 <= n
      BY <1>1
    <3> QED BY <3>1, Anchors DEF n
  <2>2. o = o + 0
    OBVIOUS
  <2> QED BY <2>1, <2>2, HasAtWithin
<1>3. HasAt(r, 0, SMBIOS2_ANCHOR) <=> HasAt(d, o, SMBIOS2_ANCHOR)
  <2>1. 0 + Len(SMBIOS2_ANCHOR) <= Len(r) /\ SMBIOS2_ANCHOR \in Bytes
    <3>1. 0 + 4 <= n
      BY <1>1
    <3> QED BY <3>1, Anchors DEF n
  <2>2. o = o + 0
    OBVIOUS
  <2> QED BY <2>1, <2>2, HasAtWithin
<1>4. HasAt(r, 16, SMBIOS2_INTERMEDIATE_ANCHOR)
        <=> HasAt(d, o + 16, SMBIOS2_INTERMEDIATE_ANCHOR)
  <2>1. /\ 16 + Len(SMBIOS2_INTERMEDIATE_ANCHOR) <= Len(r)
        /\ SMBIOS2_INTERMEDIATE_ANCHOR \in Bytes
    <3>1. 16 + 5 <= n
      BY <1>1
    <3> QED BY <3>1, Anchors DEF n
  <2>2. o + 16 \in Nat
    OBVIOUS
  <2> QED BY <2>1, <2>2, HasAtWithin
<1>5. r[6] = d[6 + o] /\ r[7] = d[7 + o]
  <2>1. 6 \in 1 .. n /\ 7 \in 1 .. n
    BY <1>1
  <2> QED BY <1>1, <2>1
<1>6. 6 + o = (o + 5) + 1 /\ 7 + o = (o + 6) + 1 /\ 6 = 5 + 1 /\ 7 = 6 + 1
  OBVIOUS
<1>7. ByteAt(r, 5) = ByteAt(d, o + 5) /\ ByteAt(r, 6) = ByteAt(d, o + 6)
  BY <1>5, <1>6 DEF ByteAt
<1> QED BY <1>2, <1>3, <1>4, <1>7

(* The scan's test says where complete, checksummed entry points are.      *)
LEMMA ScanTest ==
  ASSUME NEW d \in Bytes, NEW o \in Nat, o <= Len(d)
  PROVE  EntryOf(d, o) <=> Valid(Rest(d, o))
<1> DEFINE r == Rest(d, o)
           m == Len(d)
           n == Len(r)
<1>1. Within(r, d, o) /\ n = m - o /\ m \in Nat
  BY SubSeqIsWithin DEF Rest, Bytes
<1>2. r \in Bytes
  BY <1>1 DEF Within
<1>3. o <= m
  OBVIOUS
<1> HIDE DEF r, m, n
<1>4. n \in Nat
  BY <1>1, <1>3
<1>5. ASSUME n >= 24
      PROVE  /\ HasAt(r, 0, SMBIOS3_ANCHOR) <=> HasAt(d, o, SMBIOS3_ANCHOR)
             /\ HasAt(r, 0, SMBIOS2_ANCHOR) <=> HasAt(d, o, SMBIOS2_ANCHOR)
             /\ HasAt(r, 16, SMBIOS2_INTERMEDIATE_ANCHOR)
                  <=> HasAt(d, o + 16, SMBIOS2_INTERMEDIATE_ANCHOR)
             /\ ByteAt(r, 5) = ByteAt(d, o + 5)
             /\ ByteAt(r, 6) = ByteAt(d, o + 6)
  BY <1>1, <1>4, <1>5, RestIsAlike DEF n
<1>6. ASSUME NEW a \in Nat, NEW z \in Nat, a <= z, z <= n
      PROVE  ChecksumValid(r, a, z) <=> ChecksumValid(d, o + a, o + z)
  <2>1. o + a \in Nat /\ o + z \in Nat
    OBVIOUS
  <2> QED BY <1>1, <1>6, <2>1, SumWithin DEF n
<1>7. ASSUME NEW x \in 24 .. 255, x <= n
      PROVE  ChecksumValid(r, 0, x) <=> ChecksumValid(d, o, o + x)
  <2>1. 0 \in Nat /\ x \in Nat /\ 0 <= x /\ o + 0 = o
    OBVIOUS
  <2> QED BY <1>6, <1>7, <2>1
<1>8. ASSUME n >= 31
      PROVE  ChecksumValid(r, 16, 31) <=> ChecksumValid(d, o + 16, o + 31)
  BY <1>4, <1>6, <1>8
<1>9. ASSUME NEW x \in 24 .. 255
      PROVE  o + x <= m <=> x <= n
  BY <1>1, <1>3
<1>10. ASSUME Valid(r), Is3(r)
       PROVE  EntryOf(d, o)
  <2> DEFINE x == ByteAt(r, 6)
  <2>1. x \in 24 .. 255 /\ x <= n
    BY <1>2, <1>10, LengthThree DEF n
  <2>2. ChecksumValid(r, 0, x) /\ HasAt(r, 0, SMBIOS3_ANCHOR)
    BY <1>10, ValidThree DEF Is3
  <2> HIDE DEF x
  <2>4. n >= 24
    BY <1>4, <2>1
  <2>5. HasAt(d, o, SMBIOS3_ANCHOR) /\ ByteAt(d, o + 6) = x
    BY <1>5, <2>2, <2>4 DEF x
  <2>6. o + x <= m /\ ChecksumValid(d, o, o + x)
    BY <1>7, <1>9, <2>1, <2>2
  <2> QED BY <2>1, <2>5, <2>6 DEF EntryOf, m
<1>11. ASSUME Valid(r), Is2(r)
       PROVE  EntryOf(d, o)
  <2> DEFINE x == ByteAt(r, 5)
  <2>1. x \in 31 .. 255 /\ x <= n
    BY <1>2, <1>11, LengthTwo DEF n
  <2>2. /\ ChecksumValid(r, 0, x) /\ ChecksumValid(r, 16, 31)
        /\ HasAt(r, 0, SMBIOS2_ANCHOR)
        /\ HasAt(r, 16, SMBIOS2_INTERMEDIATE_ANCHOR)
    BY <1>2, <1>11, ValidTwo DEF Is2
  <2> HIDE DEF x
  <2>3. n >= 24 /\ n >= 31 /\ x \in 24 .. 255
    BY <1>4, <2>1
  <2>4. /\ HasAt(d, o, SMBIOS2_ANCHOR) /\ ByteAt(d, o + 5) = x
        /\ HasAt(d, o + 16, SMBIOS2_INTERMEDIATE_ANCHOR)
    BY <1>5, <2>2, <2>3 DEF x
  <2>5. /\ o + x <= m /\ ChecksumValid(d, o, o + x)
        /\ ChecksumValid(d, o + 16, o + 31)
    BY <1>7, <1>8, <1>9, <2>1, <2>2, <2>3
  <2> QED BY <2>1, <2>4, <2>5 DEF EntryOf, m
<1>12. ASSUME HasAt(d, o, SMBIOS3_ANCHOR), NEW x \in 24 .. 255, o + x <= m,
              ByteAt(d, o + 6) = x, ChecksumValid(d, o, o + x)
       PROVE  Valid(r)
  <2>1. x <= n
    BY <1>9, <1>12
  <2>7. n >= 24
    BY <1>4, <2>1
  <2>2. HasAt(r, 0, SMBIOS3_ANCHOR) /\ ByteAt(r, 6) = x
    BY <1>5, <1>12, <2>7
  <2>3. n >= 24 /\ x \in 24 .. n
    BY <1>4, <2>1
  <2>4. Whole(r, 24, 6)
    BY <2>2, <2>3, Zenon DEF Whole, n
  <2>5. Is3(r)
    BY <2>2, <2>4 DEF Is3
  <2>6. ChecksumValid(r, 0, x)
    BY <1>7, <1>12, <2>1
  <2> QED BY <2>2, <2>5, <2>6, ValidThree
<1>13. ASSUME HasAt(d, o, SMBIOS2_ANCHOR),
              HasAt(d, o + 16, SMBIOS2_INTERMEDIATE_ANCHOR),
              NEW x \in 31 .. 255, o + x <= m, ByteAt(d, o + 5) = x,
              ChecksumValid(d, o, o + x), ChecksumValid(d, o + 16, o + 31)
       PROVE  Valid(r)
  <2>1. x \in 24 .. 255
    OBVIOUS
  <2>2. x <= n
    BY <1>9, <1>13, <2>1
  <2>3. n >= 31 /\ n >= 24 /\ x \in 31 .. n
    BY <1>4, <2>2
  <2>4. /\ HasAt(r, 0, SMBIOS2_ANCHOR) /\ ByteAt(r, 5) = x
        /\ HasAt(r, 16, SMBIOS2_INTERMEDIATE_ANCHOR)
    BY <1>5, <1>13, <2>3
  <2>5. Whole(r, 31, 5)
    BY <2>3, <2>4, Zenon DEF Whole, n
  <2>6. Is2(r)
    BY <2>4, <2>5 DEF Is2
  <2>7. ChecksumValid(r, 0, x) /\ ChecksumValid(r, 16, 31)
    BY <1>7, <1>8, <1>13, <2>1, <2>2, <2>3
  <2> QED BY <1>2, <2>4, <2>6, <2>7, ValidTwo
<1>14. Valid(r) => EntryOf(d, o)
  BY <1>10, <1>11, ValidIsAccepted
<1>15. EntryOf(d, o) => Valid(r)
  BY <1>12, <1>13 DEF EntryOf, m
<1> QED BY <1>14, <1>15 DEF r

-----------------------------------------------------------------------------
(* Fields.                                                                 *)

(* The largest value of a field is larger than three bytes can hold. *)
LEMMA HugeIs ==
  Huge \in Nat /\ Huge >= 65536 * 256
BY SMT DEF Huge

(* A little-endian field of 2 bytes or more is a number up to Huge. *)
LEMMA ReadLEType ==
  ASSUME NEW d \in Bytes, NEW j \in Nat, NEW n \in Nat, n >= 2,
         j + n <= Len(d)
  PROVE  ReadLE(d, j, n) \in 0 .. Huge
<1> DEFINE m == Len(d)
           x == ByteAt(d, j)
           y == ByteAt(d, j + 1)
           z == ByteAt(d, j + 2)
           far == \E k \in 3 .. n - 1 : ByteAt(d, j + k) # 0
<1>1. m \in Nat /\ j + n <= m
  BY DEF Bytes
<1>2. \A k \in 1 .. m : d[k] \in 0 .. 255
  BY ElementOfSeq DEF Bytes
<1>3. ReadLE(d, j, n) = IF far THEN Huge
                        ELSE x + 256 * y + (IF n > 2 THEN 65536 * z ELSE 0)
  BY SMT DEF ReadLE
<1> HIDE DEF m, far
<1>4. x \in 0 .. 255 /\ y \in 0 .. 255
  <2>1. j + 1 \in 1 .. m /\ (j + 1) + 1 \in 1 .. m
    BY <1>1
  <2> QED BY <1>2, <2>1 DEF ByteAt
<1>5. n > 2 => z \in 0 .. 255
  <2>1. n > 2 => (j + 2) + 1 \in 1 .. m
    BY <1>1
  <2> QED BY <1>2, <2>1 DEF ByteAt
<1> HIDE DEF x, y, z
<1>6. CASE far
  <2>1. ReadLE(d, j, n) = Huge
    BY <1>3, <1>6, SMT
  <2> QED BY <2>1, HugeIs, SMT
<1>7. CASE ~far /\ n > 2
  <2>1. ReadLE(d, j, n) = x + 256 * y + 65536 * z
    BY <1>3, <1>7, SMT
  <2>2. z \in 0 .. 255
    BY <1>5, <1>7
  <2>3. x + 256 * y + 65536 * z \in 0 .. Huge
    BY <1>4, <2>2, HugeIs, SMT
  <2> QED BY <2>1, <2>3, SMT
<1>8. CASE ~far /\ ~(n > 2)
  <2>1. ReadLE(d, j, n) = x + 256 * y + 0
    BY <1>3, <1>8, SMT
  <2>2. x + 256 * y + 0 \in 0 .. Huge
    BY <1>4, HugeIs, SMT
  <2> QED BY <2>1, <2>2, SMT
<1> QED BY <1>6, <1>7, <1>8

ParsedSet ==
  [tag : {"2x", "3x"}, major : 0 .. 255, minor : 0 .. 255,
   address : 0 .. Huge, length : 0 .. Huge]

(* What is kept of an accepted entry point is a record of small numbers. *)
LEMMA ParsedType ==
  ASSUME NEW d \in Bytes, Accepted(d)
  PROVE  /\ ParsedEntry(d) \in ParsedSet
         /\ TableLocation(d) \in [from : 0 .. Huge, length : 0 .. Huge]
<1>1. \A k \in 1 .. Len(d) : d[k] \in 0 .. 255
  BY ElementOfSeq DEF Bytes
<1>2. Len(d) \in Nat
  BY DEF Bytes
<1>3. Is3(d) \/ Is2(d)
  BY AcceptedIs
<1>4. CASE Is3(d)
  <2>1. Len(d) >= 24
    BY <1>4 DEF Is3, Whole
  <2>2. ByteAt(d, 7) \in 0 .. 255 /\ ByteAt(d, 8) \in 0 .. 255
    <3>1. 7 + 1 \in 1 .. Len(d) /\ 8 + 1 \in 1 .. Len(d)
      BY <1>2, <2>1
    <3> QED BY <1>1, <3>1 DEF ByteAt
  <2>3. ReadLE(d, 16, 8) \in 0 .. Huge /\ ReadLE(d, 12, 4) \in 0 .. Huge
    <3>1. /\ 16 + 8 <= Len(d) /\ 12 + 4 <= Len(d)
          /\ 8 >= 2 /\ 4 >= 2
      BY <1>2, <2>1
    <3> QED BY <3>1, ReadLEType
  <2>4. Inspect(d).tag = "3x"
    BY <1>4, InspectThree
  <2>5. ParsedEntry(d) = [tag |-> "3x", major |-> ByteAt(d, 7),
                          minor |-> ByteAt(d, 8),
                          address |-> ReadLE(d, 16, 8),
                          length |-> ReadLE(d, 12, 4)]
    BY <2>4, Zenon DEF ParsedEntry
  <2>6. ParsedEntry(d) \in ParsedSet
    BY <2>2, <2>3, <2>5 DEF ParsedSet
  <2> QED BY <2>6 DEF ParsedSet, TableLocation
<1>5. CASE Is2(d)
  <2>1. Len(d) >= 31
    BY <1>5 DEF Is2, Whole
  <2>2. ByteAt(d, 6) \in 0 .. 255 /\ ByteAt(d, 7) \in 0 .. 255
    <3>1. 6 + 1 \in 1 .. Len(d) /\ 7 + 1 \in 1 .. Len(d)
      BY <1>2, <2>1
    <3> QED BY <1>1, <3>1 DEF ByteAt
  <2>3. ReadLE(d, 24, 4) \in 0 .. Huge /\ ReadLE(d, 22, 2) \in 0 .. Huge
    <3>1. /\ 24 + 4 <= Len(d) /\ 22 + 2 <= Len(d)
          /\ 4 >= 2 /\ 2 >= 2
      BY <1>2, <2>1
    <3> QED BY <3>1, ReadLEType
  <2>4. Inspect(d).tag = "2x"
    BY <1>5, InspectTwo, NotBoth
  <2>5. ParsedEntry(d) = [tag |-> "2x", major |-> ByteAt(d, 6),
                          minor |-> ByteAt(d, 7),
                          address |-> ReadLE(d, 24, 4),
                          length |-> ReadLE(d, 22, 2)]
    BY <2>4, Zenon DEF ParsedEntry
  <2>6. ParsedEntry(d) \in ParsedSet
    BY <2>2, <2>3, <2>5 DEF ParsedSet
  <2> QED BY <2>6 DEF ParsedSet, TableLocation
<1> QED BY <1>3, <1>4, <1>5

(* The table of a merged file lies behind the entry point and inside the   *)
(* file.                                                                   *)
LEMMA LayoutInside ==
  ASSUME NEW d \in Bytes, NEW z \in Nat, HasLayout(d, z), z < Huge
  PROVE  /\ Layout(d, z) \in [from : 0 .. Huge, length : 0 .. Huge]
         /\ Layout(d, z).length > 0
         /\ Layout(d, z).from >= Inspect(d).length
         /\ Layout(d, z).from + Layout(d, z).length <= z
<1> DEFINE said  == TableLocation(d)
           after == Inspect(d).length
<1>1. Accepted(d) /\ after < z
  BY DEF HasLayout
<1>2. /\ said \in [from : 0 .. Huge, length : 0 .. Huge]
      /\ after \in 24 .. 255
  BY <1>1, ParsedType, AcceptedLength
<1>3. Layout(d, z) = IF /\ said.from \in after .. z - 1
                        /\ said.length # 0 /\ said.length <= z - said.from
                     THEN said
                     ELSE [from |-> after, length |-> z - after]
  BY Zenon DEF Layout
<1> DEFINE a == said.from
           l == said.length
<1>4. a \in 0 .. Huge /\ l \in 0 .. Huge /\ z < Huge
  BY <1>2
<1> HIDE DEF said, after
<1>5. CASE a \in after .. z - 1 /\ l # 0 /\ l <= z - a
  <2>1. Layout(d, z) = said
    BY <1>3, <1>5, Zenon DEF a, l
  <2> HIDE DEF a, l
  <2>2. l > 0 /\ a >= after /\ a + l <= z
    BY <1>2, <1>4, <1>5, HugeIs
  <2> QED BY <1>2, <2>1, <2>2 DEF a, l, after
<1>6. CASE ~(a \in after .. z - 1 /\ l # 0 /\ l <= z - a)
  <2>1. Layout(d, z) = [from |-> after, length |-> z - after]
    BY <1>3, <1>6, Zenon DEF a, l
  <2>2. /\ z - after \in 0 .. Huge /\ after \in 0 .. Huge
        /\ z - after > 0 /\ after >= after /\ after + (z - after) <= z
    BY <1>1, <1>2, <1>4, HugeIs
  <2> QED BY <2>1, <2>2, HugeIs DEF after
<1> QED BY <1>5, <1>6

-----------------------------------------------------------------------------
(* The entry point built for Windows.                                      *)

(* What Write returns, byte by byte. *)
LEMMA WriteIs ==
  ASSUME NEW d \in Bytes, NEW j \in Nat, NEW b \in Bytes
  PROVE  /\ Write(d, j, b) \in Bytes
         /\ Len(Write(d, j, b)) = Len(d)
         /\ \A k \in 1 .. Len(d) :
              Write(d, j, b)[k] = IF k - j \in 1 .. Len(b) THEN b[k - j]
                                  ELSE d[k]
<1> DEFINE n == Len(d)
           w == Write(d, j, b)
<1>1. n \in Nat /\ DOMAIN d = 1 .. n
  BY DEF Bytes
<1>2. /\ \A k \in 1 .. n : d[k] \in 0 .. 255
      /\ \A k \in 1 .. Len(b) : b[k] \in 0 .. 255
  BY ElementOfSeq DEF Bytes
<1>3. w = [k \in 1 .. n |-> IF k - j \in 1 .. Len(b) THEN b[k - j] ELSE d[k]]
  BY <1>1, Zenon DEF Write
<1> HIDE DEF n, w
<1>4. \A k \in 1 .. n : w[k] \in 0 .. 255
  BY <1>2, <1>3
<1>5. w \in Seq(0 .. 255) /\ Len(w) = n
  BY <1>1, <1>3, <1>4
<1>6. \A k \in 1 .. n :
        w[k] = IF k - j \in 1 .. Len(b) THEN b[k - j] ELSE d[k]
  BY <1>3
<1> QED BY <1>5, <1>6 DEF Bytes, n, w

LEMMA WriteAt ==
  ASSUME NEW d \in Bytes, NEW j \in Nat, NEW b \in Bytes,
         NEW p \in 1 .. Len(d)
  PROVE  Write(d, j, b)[p] = IF p - j \in 1 .. Len(b) THEN b[p - j] ELSE d[p]
BY WriteIs, Zenon

(* The bytes that Write puts in place, and the ones it leaves. *)
LEMMA WriteType ==
  ASSUME NEW d \in Bytes, NEW j \in Nat, NEW b \in Bytes
  PROVE  Write(d, j, b) \in Bytes /\ Len(Write(d, j, b)) = Len(d)
BY WriteIs, Zenon

(* A byte that Write puts in place. *)
LEMMA WriteNew ==
  ASSUME NEW d \in Bytes, NEW j \in Nat, NEW b \in Bytes,
         NEW k \in 1 .. Len(b), NEW p \in 1 .. Len(d), p = k + j
  PROVE  Write(d, j, b)[p] = b[k]
<1>1. Write(d, j, b)[p] = IF p - j \in 1 .. Len(b) THEN b[p - j] ELSE d[p]
  BY WriteAt
<1>2. p - j = k
  BY DEF Bytes
<1>3. p - j \in 1 .. Len(b)
  BY <1>2
<1> QED BY <1>1, <1>2, <1>3, Zenon

(* A byte that Write leaves alone. *)
LEMMA WriteOld ==
  ASSUME NEW d \in Bytes, NEW j \in Nat, NEW b \in Bytes,
         NEW p \in 1 .. Len(d), p <= j \/ j + Len(b) < p
  PROVE  Write(d, j, b)[p] = d[p]
<1>1. Write(d, j, b)[p] = IF p - j \in 1 .. Len(b) THEN b[p - j] ELSE d[p]
  BY WriteAt
<1> DEFINE n == Len(b)
           m == Len(d)
<1>2. n \in Nat /\ m \in Nat /\ p \in 1 .. m /\ (p <= j \/ j + n < p)
  BY DEF Bytes
<1> HIDE DEF n, m
<1>3. ~(p - j \in 1 .. n)
  BY <1>2
<1> QED BY <1>1, <1>3, Zenon DEF n

(* Bytes that are equal have the same sum. *)
LEMMA SumSame ==
  ASSUME NEW d, NEW e, NEW a \in Nat, NEW z \in Nat, a <= z,
         \A k \in a + 1 .. z : e[k] = d[k]
  PROVE  Sum(e, a, z) = Sum(d, a, z)
<1>1. \A k \in a + 1 .. z : e[k] = d[k + 0]
  OBVIOUS
<1>2. 0 \in Nat /\ a + 0 = a /\ z + 0 = z
  OBVIOUS
<1>3. Sum(e, a, z) = Sum(d, a + 0, z + 0)
  BY <1>1, <1>2, SumOfCopy
<1> QED BY <1>2, <1>3

(* SumOfOneMore, with the end of the range named. *)
LEMMA SumOfNext ==
  ASSUME NEW d, NEW a \in Nat, NEW z \in Nat, a <= z, NEW y \in Nat, y = z + 1
  PROVE  Sum(d, a, y) = (Sum(d, a, z) + d[y]) % 256
BY SumOfOneMore

AreBytes(d, a, z) == \A k \in a + 1 .. z : d[k] \in 0 .. 255

SameBut(d, e, a, z, p) == \A k \in a + 1 .. z : k # p => e[k] = d[k]

(* The sums of d and e, given around the byte in which they differ. *)
SumsAround(d, e, a, c, z) ==
  /\ Sum(d, a, c) \in 0 .. 255 /\ Sum(d, c + 1, z) \in 0 .. 255
  /\ Sum(d, a, z) =
       (((Sum(d, a, c) + d[c + 1]) % 256) + Sum(d, c + 1, z)) % 256
  /\ Sum(e, a, z) =
       (((Sum(d, a, c) + e[c + 1]) % 256) + Sum(d, c + 1, z)) % 256

(* The sums of bytes that differ in one place. *)
LEMMA SumOfChange ==
  ASSUME NEW d, NEW e, NEW a \in Nat, NEW c \in Nat, NEW z \in Nat,
         a <= c, c < z,
         SameBut(d, e, a, z, c + 1), AreBytes(d, a, z), AreBytes(e, a, z)
  PROVE  SumsAround(d, e, a, c, z)
<1> DEFINE p == c + 1
<1>1. p \in Nat /\ p = c + 1 /\ a <= p /\ p <= z
  OBVIOUS
<1>2. /\ \A k \in a + 1 .. c : e[k] = d[k]
      /\ \A k \in p + 1 .. z : e[k] = d[k]
      /\ \A k \in a + 1 .. c : d[k] \in 0 .. 255
      /\ \A k \in p + 1 .. z : d[k] \in 0 .. 255
      /\ \A k \in a + 1 .. z : d[k] \in 0 .. 255
      /\ \A k \in a + 1 .. z : e[k] \in 0 .. 255
  BY DEF SameBut, AreBytes
<1> HIDE DEF p
<1>3. Sum(e, a, c) = Sum(d, a, c) /\ Sum(e, p, z) = Sum(d, p, z)
  BY <1>1, <1>2, SumSame
<1>4. Sum(d, a, c) \in 0 .. 255 /\ Sum(d, p, z) \in 0 .. 255
  BY <1>1, <1>2, SumIsByte
<1>5. Sum(d, a, p) = (Sum(d, a, c) + d[p]) % 256
  BY <1>1, SumOfNext
<1>6. Sum(e, a, p) = (Sum(e, a, c) + e[p]) % 256
  BY <1>1, SumOfNext
<1>7. Sum(d, a, z) = (Sum(d, a, p) + Sum(d, p, z)) % 256
  BY <1>1, <1>2, SumInParts
<1>8. Sum(e, a, z) = (Sum(e, a, p) + Sum(e, p, z)) % 256
  BY <1>1, <1>2, SumInParts
<1> DEFINE x == Sum(d, a, c)
           y == Sum(d, p, z)
<1>9. /\ Sum(d, a, z) = (((x + d[p]) % 256) + y) % 256
      /\ Sum(e, a, z) = (((x + e[p]) % 256) + y) % 256
  BY <1>3, <1>5, <1>6, <1>7, <1>8
<1> QED BY <1>4, <1>9 DEF p, SumsAround

(* What set_checksum does: one byte changes, and the range sums to zero. *)
Summed(r, d, a, z, c) ==
  /\ r \in Bytes /\ Len(r) = Len(d)
  /\ \A k \in 1 .. Len(d) : k # c + 1 => r[k] = d[k]
  /\ ChecksumValid(r, a, z)

(* set_checksum balances its range and changes one byte. *)
LEMMA SetChecksumIs ==
  ASSUME NEW d \in Bytes, NEW a \in Nat, NEW z \in Nat, NEW c \in Nat,
         a <= c, c < z, z <= Len(d)
  PROVE  Summed(SetChecksum(d, a, z, c), d, a, z, c)
<1> DEFINE n == Len(d)
<1>1. n \in Nat /\ z <= n
  BY DEF Bytes
<1>2. PICK o : o = <<0>>
  OBVIOUS
<1>3. o \in Bytes /\ Len(o) = 1 /\ o[1] = 0
  BY <1>2 DEF Bytes
<1>4. PICK e : e = Write(d, c, o)
  OBVIOUS
<1>5. PICK v : v = (256 - Sum(e, a, z)) % 256
  OBVIOUS
<1>6. PICK q : q = <<v>>
  OBVIOUS
<1>7. PICK r : r = Write(d, c, q)
  OBVIOUS
<1>8. SetChecksum(d, a, z, c) = r
  BY <1>2, <1>4, <1>5, <1>6, <1>7 DEF SetChecksum
<1>9. e \in Bytes /\ Len(e) = n
  BY <1>3, <1>4, WriteType
<1> HIDE DEF n
<1>10. /\ c + 1 \in 1 .. n /\ a <= z
       /\ \A k \in a + 1 .. z : k \in 1 .. n
  BY <1>1
<1>11. e[c + 1] = 0
  <2>1. 1 \in 1 .. Len(o) /\ c + 1 \in 1 .. Len(d) /\ c + 1 = 1 + c
    BY <1>3, <1>10 DEF n
  <2>2. Write(d, c, o)[c + 1] = o[1]
    BY <1>3, <2>1, WriteNew
  <2> QED BY <1>3, <1>4, <2>2
<1>12. ASSUME NEW k \in 1 .. n, k # c + 1
       PROVE  e[k] = d[k]
  <2>1. k <= c \/ c + 1 < k
    BY <1>1, <1>12
  <2>2. k \in 1 .. Len(d) /\ (k <= c \/ c + Len(o) < k)
    BY <1>3, <2>1 DEF n
  <2> QED BY <1>3, <1>4, <2>2, WriteOld
<1>13. v \in 0 .. 255
  <2>1. \A k \in 1 .. n : e[k] \in 0 .. 255
    BY <1>9, ElementOfSeq DEF Bytes
  <2>2. \A k \in a + 1 .. z : e[k] \in 0 .. 255
    BY <1>10, <2>1
  <2>3. Sum(e, a, z) \in 0 .. 255
    BY <1>10, <2>2, SumIsByte
  <2> DEFINE s == Sum(e, a, z)
  <2>4. s \in 0 .. 255 /\ v = (256 - s) % 256
    BY <1>5, <2>3
  <2> HIDE DEF s
  <2> QED BY <2>4
<1>14. q \in Bytes /\ Len(q) = 1 /\ q[1] = v
  BY <1>6, <1>13 DEF Bytes
<1>15. r \in Bytes /\ Len(r) = n
  BY <1>7, <1>14, WriteType DEF n
<1>16. r[c + 1] = v
  <2>1. 1 \in 1 .. Len(q) /\ c + 1 \in 1 .. Len(d) /\ c + 1 = 1 + c
    BY <1>10, <1>14 DEF n
  <2>2. Write(d, c, q)[c + 1] = q[1]
    BY <1>14, <2>1, WriteNew
  <2> QED BY <1>7, <1>14, <2>2
<1>17. ASSUME NEW k \in 1 .. n, k # c + 1
       PROVE  r[k] = d[k]
  <2>1. k <= c \/ c + 1 < k
    BY <1>1, <1>17
  <2>2. k \in 1 .. Len(d) /\ (k <= c \/ c + Len(q) < k)
    BY <1>14, <2>1 DEF n
  <2> QED BY <1>7, <1>14, <2>2, WriteOld
<1>18. SameBut(e, r, a, z, c + 1) /\ AreBytes(e, a, z) /\ AreBytes(r, a, z)
  <2>1. /\ \A k \in 1 .. n : e[k] \in 0 .. 255
        /\ \A k \in 1 .. n : r[k] \in 0 .. 255
    BY <1>9, <1>15, ElementOfSeq DEF Bytes
  <2> QED BY <1>10, <1>12, <1>17, <2>1 DEF SameBut, AreBytes
<1>19. /\ Sum(e, a, c) \in 0 .. 255 /\ Sum(e, c + 1, z) \in 0 .. 255
       /\ Sum(e, a, z) =
            (((Sum(e, a, c) + e[c + 1]) % 256) + Sum(e, c + 1, z)) % 256
       /\ Sum(r, a, z) =
            (((Sum(e, a, c) + r[c + 1]) % 256) + Sum(e, c + 1, z)) % 256
  <2>1. SumsAround(e, r, a, c, z)
    BY <1>18, SumOfChange
  <2> QED BY <2>1 DEF SumsAround
<1>20. ChecksumValid(r, a, z)
  <2> DEFINE x == Sum(e, a, c)
             y == Sum(e, c + 1, z)
             s == Sum(e, a, z)
  <2>1. x \in 0 .. 255 /\ y \in 0 .. 255
    BY <1>19
  <2>2. s = (((x + 0) % 256) + y) % 256 /\ v = (256 - s) % 256
    BY <1>5, <1>11, <1>19
  <2>3. Sum(r, a, z) = (((x + v) % 256) + y) % 256
    BY <1>16, <1>19
  <2> HIDE DEF x, y, s
  <2>4. (((x + v) % 256) + y) % 256 = 0
    BY <1>13, <2>1, <2>2
  <2> QED BY <2>3, <2>4 DEF ChecksumValid
<1> QED BY <1>8, <1>15, <1>17, <1>20 DEF n, Summed

(* The anchor stands where its bytes do. *)
LEMMA HasAtBytes ==
  ASSUME NEW d \in Bytes, NEW j \in Nat, NEW b \in Bytes,
         j + Len(b) <= Len(d), \A k \in 1 .. Len(b) : d[k + j] = b[k]
  PROVE  HasAt(d, j, b)
<1> DEFINE y == SubSeq(d, j + 1, j + Len(b))
<1>1. Len(b) \in Nat
  BY DEF Bytes
<1>2. /\ y \in Bytes /\ Len(y) = Len(b)
      /\ \A k \in 1 .. Len(y) : y[k] = d[k + j]
  <2>1. j + Len(b) \in Nat /\ j <= j + Len(b)
    BY <1>1
  <2> QED BY <1>1, <2>1, SubSeqIsWithin DEF Within
<1> HIDE DEF y
<1>3. y = b
  <2>1. \A k \in 1 .. Len(y) : y[k] = b[k]
    BY <1>2
  <2> QED BY <1>2, <2>1, SeqEqual DEF Bytes
<1> QED BY <1>3 DEF HasAt, y

Written(w, d, j, b) ==
  /\ w \in Bytes /\ Len(w) = Len(d)
  /\ \A k \in 1 .. Len(b) : w[k + j] = b[k]
  /\ \A p \in 1 .. Len(d) : p <= j \/ j + Len(b) < p => w[p] = d[p]

(* Write writes all of its bytes and nothing else. *)
LEMMA WriteWrites ==
  ASSUME NEW d \in Bytes, NEW j \in Nat, NEW b \in Bytes,
         j + Len(b) <= Len(d)
  PROVE  Written(Write(d, j, b), d, j, b)
<1>1. ASSUME NEW k \in 1 .. Len(b)
      PROVE  Write(d, j, b)[k + j] = b[k]
  <2> DEFINE n == Len(b)
             m == Len(d)
             p == k + j
  <2>1. n \in Nat /\ m \in Nat /\ j + n <= m /\ k \in 1 .. n
    BY DEF Bytes
  <2> HIDE DEF n, m
  <2>2. p \in 1 .. m /\ p = k + j
    BY <2>1
  <2> HIDE DEF p
  <2>3. Write(d, j, b)[p] = b[k]
    BY <2>2, WriteNew DEF m
  <2> QED BY <2>3 DEF p
<1>2. ASSUME NEW p \in 1 .. Len(d), p <= j \/ j + Len(b) < p
      PROVE  Write(d, j, b)[p] = d[p]
  BY <1>2, WriteOld
<1> QED BY <1>1, <1>2, WriteType DEF Written

(* A field that is written is read back. *)
IsLE(w, l, n) ==
  /\ w \in Bytes /\ Len(w) = n
  /\ \A k \in 1 .. n : /\ k = 1 => w[k] = l % 256
                       /\ k = 2 => w[k] = (l \div 256) % 256
                       /\ k = 3 => w[k] = (l \div 65536) % 256
                       /\ k > 3 => w[k] = 0

(* The bytes of a little-endian field. *)
LEMMA WriteLEIs ==
  ASSUME NEW l \in Nat, NEW n \in Nat
  PROVE  IsLE(WriteLE(l, n), l, n)
<1> DEFINE w == WriteLE(l, n)
           a == l % 256
           b == (l \div 256) % 256
           c == (l \div 65536) % 256
<1>1. a \in 0 .. 255 /\ b \in 0 .. 255 /\ c \in 0 .. 255
  BY SMT
<1> DEFINE g(k) == CASE k = 1 -> a [] k = 2 -> b [] k = 3 -> c [] OTHER -> 0
<1>2. w = [k \in 1 .. n |-> g(k)]
  BY DEF WriteLE
<1> HIDE DEF w, a, b, c
<1>3. \A k : /\ k = 1 => g(k) = a
             /\ k = 2 => g(k) = b
             /\ k = 3 => g(k) = c
             /\ k \in Nat /\ k > 3 => g(k) = 0
  OBVIOUS
<1> HIDE DEF g
<1>4. \A k \in 1 .. n : /\ k = 1 => w[k] = a
                        /\ k = 2 => w[k] = b
                        /\ k = 3 => w[k] = c
                        /\ k > 3 => w[k] = 0
  BY <1>2, <1>3
<1>5. \A k \in 1 .. n : k = 1 \/ k = 2 \/ k = 3 \/ k > 3
  OBVIOUS
<1>6. ASSUME NEW k \in 1 .. n
      PROVE  w[k] \in 0 .. 255
  <2>1. w[k] = a \/ w[k] = b \/ w[k] = c \/ w[k] = 0
    BY <1>4, <1>5
  <2> QED BY <1>1, <2>1
<1>7. w \in [1 .. n -> 0 .. 255]
  <2>1. \A k \in 1 .. n : g(k) \in 0 .. 255
    BY <1>2, <1>6
  <2> QED BY <1>2, <2>1
<1>8. w \in Seq(0 .. 255) /\ Len(w) = n
  BY <1>7
<1> QED BY <1>4, <1>8 DEF IsLE, w, a, b, c, Bytes

(* A number below Huge, put together again from three bytes. *)
LEMMA InBase256 ==
  ASSUME NEW l \in Nat, l < Huge
  PROVE  l = (l % 256) + 256 * ((l \div 256) % 256)
               + 65536 * ((l \div 65536) % 256)
<1>1. l < 65536 * 256
  BY SMT DEF Huge
<1> QED BY <1>1, SMT

(* A blank entry point. *)
LEMMA ZerosIs ==
  ASSUME NEW n \in Nat
  PROVE  Zeros(n) \in Bytes /\ Len(Zeros(n)) = n
BY DEF Zeros, Bytes

Made3(e, major, minor, l) ==
  /\ e \in Bytes /\ Is3(e) /\ Valid(e)
  /\ ByteAt(e, 7) = major /\ ByteAt(e, 8) = minor
  /\ ReadLE(e, 12, 4) = l

(* The 3.x entry point: its fields, and that it is valid. *)
LEMMA MakeThree ==
  ASSUME NEW major \in 0 .. 255, NEW minor \in 0 .. 255,
         NEW docrev \in 0 .. 255, NEW l \in Nat, l < Huge,
         NEW e, e = MakeEntry3(major, minor, docrev, l)
  PROVE  Made3(e, major, minor, l)
<1>1. PICK z : z = Zeros(24)
  OBVIOUS
<1>2. PICK a : a = SMBIOS3_ANCHOR
  OBVIOUS
<1>3. PICK blank : blank = Write(z, 0, a)
  OBVIOUS
<1>4. PICK f : f = <<24, major, minor, docrev, 1>>
  OBVIOUS
<1>5. PICK version : version = Write(blank, 6, f)
  OBVIOUS
<1>6. PICK b : b = WriteLE(l, 4)
  OBVIOUS
<1>7. PICK t : t = Write(version, 12, b)
  OBVIOUS
<1>8. e = SetChecksum(t, 0, 24, 5)
  BY <1>1, <1>2, <1>3, <1>4, <1>5, <1>6, <1>7
     DEF MakeEntry3, SMBIOS3_ENTRY_POINT_LENGTH
<1>9. z \in Bytes /\ Len(z) = 24 /\ a \in Bytes /\ Len(a) = 5
  BY <1>1, <1>2, ZerosIs, Anchors
<1>10. Written(blank, z, 0, a)
  <2>1. 0 + Len(a) <= Len(z)
    BY <1>9
  <2> QED BY <1>3, <1>9, <2>1, WriteWrites
<1>11. blank \in Bytes /\ Len(blank) = 24
  BY <1>9, <1>10 DEF Written
<1>12. f \in Bytes /\ Len(f) = 5 /\ f[1] = 24 /\ f[2] = major /\ f[3] = minor
  BY <1>4 DEF Bytes
<1>13. Written(version, blank, 6, f)
  <2>1. 6 + Len(f) <= Len(blank)
    BY <1>11, <1>12
  <2> QED BY <1>5, <1>11, <1>12, <2>1, WriteWrites
<1>14. version \in Bytes /\ Len(version) = 24
  BY <1>11, <1>13 DEF Written
<1>27. IsLE(b, l, 4)
  BY <1>6, WriteLEIs
<1>15. b \in Bytes /\ Len(b) = 4
  BY <1>27 DEF IsLE
<1>16. /\ b[1] = l % 256 /\ b[2] = (l \div 256) % 256
       /\ b[3] = (l \div 65536) % 256 /\ b[4] = 0
  <2>1. 1 \in 1 .. 4 /\ 2 \in 1 .. 4 /\ 3 \in 1 .. 4 /\ 4 \in 1 .. 4 /\ 4 > 3
    OBVIOUS
  <2> QED BY <1>27, <2>1 DEF IsLE
<1>17. Written(t, version, 12, b)
  <2>1. 12 + Len(b) <= Len(version)
    BY <1>14, <1>15
  <2> QED BY <1>7, <1>14, <1>15, <2>1, WriteWrites
<1>18. t \in Bytes /\ Len(t) = 24
  BY <1>14, <1>17 DEF Written
<1>19. /\ e \in Bytes /\ Len(e) = 24 /\ ChecksumValid(e, 0, 24)
       /\ \A k \in 1 .. 24 : k # 6 => e[k] = t[k]
  <2>1. 0 <= 5 /\ 5 < 24 /\ 24 <= Len(t) /\ 5 + 1 = 6
    BY <1>18
  <2>2. Summed(e, t, 0, 24, 5)
    BY <1>8, <1>18, <2>1, SetChecksumIs
  <2> QED BY <1>18, <2>1, <2>2 DEF Summed
<1>20. \A k \in 1 .. 5 : e[k] = a[k]
  <2>1. \A k \in 1 .. 5 : t[k] = version[k]
    BY <1>14, <1>15, <1>17 DEF Written
  <2>2. \A k \in 1 .. 5 : version[k] = blank[k]
    BY <1>11, <1>12, <1>13 DEF Written
  <2>3. \A k \in 1 .. 5 : blank[k + 0] = a[k]
    BY <1>9, <1>10 DEF Written
  <2> QED BY <1>19, <2>1, <2>2, <2>3
<1>21. e[7] = 24 /\ e[8] = major /\ e[9] = minor
  <2>1. \A k \in 1 .. 12 : t[k] = version[k]
    BY <1>14, <1>15, <1>17 DEF Written
  <2>2. \A k \in 1 .. 5 : version[k + 6] = f[k]
    BY <1>12, <1>13 DEF Written
  <2>3. version[7] = f[1] /\ version[8] = f[2] /\ version[9] = f[3]
    <3>1. 1 + 6 = 7 /\ 2 + 6 = 8 /\ 3 + 6 = 9
      OBVIOUS
    <3> QED BY <2>2, <3>1
  <2>4. t[7] = f[1] /\ t[8] = f[2] /\ t[9] = f[3]
    BY <2>1, <2>3
  <2> QED BY <1>12, <1>19, <2>4
<1>22. e[13] = b[1] /\ e[14] = b[2] /\ e[15] = b[3] /\ e[16] = b[4]
  <2>1. \A k \in 1 .. 4 : t[k + 12] = b[k]
    BY <1>15, <1>17 DEF Written
  <2>2. 1 + 12 = 13 /\ 2 + 12 = 14 /\ 3 + 12 = 15 /\ 4 + 12 = 16
    OBVIOUS
  <2>3. t[13] = b[1] /\ t[14] = b[2] /\ t[15] = b[3] /\ t[16] = b[4]
    BY <2>1, <2>2
  <2> QED BY <1>19, <2>3
<1>23. ByteAt(e, 6) = 24 /\ ByteAt(e, 7) = major /\ ByteAt(e, 8) = minor
  BY <1>21 DEF ByteAt
<1>24. Is3(e)
  <2>1. HasAt(e, 0, a)
    <3>1. 0 + Len(a) <= Len(e)
      BY <1>9, <1>19
    <3>2. \A k \in 1 .. Len(a) : e[k + 0] = a[k]
      BY <1>9, <1>20
    <3> QED BY <1>9, <1>19, <3>1, <3>2, HasAtBytes
  <2>2. Whole(e, 24, 6)
    <3>1. 24 >= 24 /\ 24 \in 24 .. 24
      OBVIOUS
    <3> QED BY <1>19, <1>23, <3>1 DEF Whole
  <2> QED BY <1>2, <2>1, <2>2 DEF Is3
<1>25. Valid(e)
  BY <1>19, <1>23, <1>24, ValidThree
<1>26. ReadLE(e, 12, 4) = l
  <2> DEFINE x == l % 256
             y == (l \div 256) % 256
             w == (l \div 65536) % 256
  <2>4. l = x + 256 * y + 65536 * w
    BY InBase256
  <2>1. /\ ByteAt(e, 12) = x /\ ByteAt(e, 12 + 1) = y
        /\ ByteAt(e, 12 + 2) = w /\ ByteAt(e, 12 + 3) = 0
    BY <1>16, <1>22 DEF ByteAt
  <2>2. \A k \in 3 .. 4 - 1 : ByteAt(e, 12 + k) = 0
    <3>1. \A k \in 3 .. 4 - 1 : k = 3
      OBVIOUS
    <3> QED BY <2>1, <3>1
  <2>3. ReadLE(e, 12, 4) = ByteAt(e, 12) + 256 * ByteAt(e, 12 + 1)
                             + 65536 * ByteAt(e, 12 + 2)
    BY <2>2, SMT DEF ReadLE
  <2> HIDE DEF x, y, w
  <2> QED BY <2>1, <2>3, <2>4, SMT
<1> QED BY <1>19, <1>23, <1>24, <1>25, <1>26 DEF Made3

(* A length that two bytes hold. *)
InTwo(l) == l = (l % 256) + 256 * ((l \div 256) % 256)

(* Two bytes hold any length that the guard of 2.x lets through. *)
LEMMA FitsTwo ==
  ASSUME NEW l \in Nat, l <= 65535
  PROVE  InTwo(l)
BY SMT DEF InTwo

(* SumInParts, with its parts named. *)
SumSplits(d, a, m, z) == Sum(d, a, z) = (Sum(d, a, m) + Sum(d, m, z)) % 256

LEMMA SumIsSplit ==
  ASSUME NEW d, NEW a \in Nat, NEW m \in Nat, NEW z \in Nat,
         a <= m, m <= z, AreBytes(d, a, z)
  PROVE  SumSplits(d, a, m, z)
BY SumInParts DEF AreBytes, SumSplits

Made2(e, major, minor, l) ==
  /\ e \in Bytes /\ Is2(e) /\ Valid(e)
  /\ ByteAt(e, 6) = major /\ ByteAt(e, 7) = minor
  /\ ReadLE(e, 22, 2) = l

(* The 2.x entry point: its fields, and that both its checksums are good.  *)
(* The second half sums to zero by the intermediate checksum, the first by *)
(* the main one, so the whole does.                                        *)
LEMMA MakeTwo ==
  ASSUME NEW major \in 0 .. 255, NEW minor \in 0 .. 255,
         NEW l \in Nat, InTwo(l), NEW e, e = MakeEntry2(major, minor, l)
  PROVE  Made2(e, major, minor, l)
<1>1. PICK z : z = Zeros(31)
  OBVIOUS
<1>2. PICK a : a = SMBIOS2_ANCHOR
  OBVIOUS
<1>3. PICK blank : blank = Write(z, 0, a)
  OBVIOUS
<1>4. PICK f : f = <<31, major, minor>>
  OBVIOUS
<1>5. PICK version : version = Write(blank, 5, f)
  OBVIOUS
<1>6. PICK h : h = SMBIOS2_INTERMEDIATE_ANCHOR
  OBVIOUS
<1>7. PICK dmi : dmi = Write(version, 16, h)
  OBVIOUS
<1>8. PICK b : b = WriteLE(l, 2)
  OBVIOUS
<1>9. PICK t : t = Write(dmi, 22, b)
  OBVIOUS
<1>10. PICK o : o = <<(16 * major + (minor % 16)) % 256>>
  OBVIOUS
<1>11. PICK bcd : bcd = Write(t, 30, o)
  OBVIOUS
<1>12. PICK inner : inner = SetChecksum(bcd, 16, 31, 21)
  OBVIOUS
<1>13. e = SetChecksum(inner, 0, 16, 4)
  BY <1>1, <1>2, <1>3, <1>4, <1>5, <1>6, <1>7, <1>8, <1>9, <1>10, <1>11, <1>12
     DEF MakeEntry2, SMBIOS2_ENTRY_POINT_LENGTH, IntermediateOffset
<1>14. /\ z \in Bytes /\ Len(z) = 31 /\ a \in Bytes /\ Len(a) = 4
       /\ h \in Bytes /\ Len(h) = 5
  BY <1>1, <1>2, <1>6, ZerosIs, Anchors
<1>15. Written(blank, z, 0, a)
  <2>1. 0 + Len(a) <= Len(z)
    BY <1>14
  <2> QED BY <1>3, <1>14, <2>1, WriteWrites
<1>16. blank \in Bytes /\ Len(blank) = 31
  BY <1>14, <1>15 DEF Written
<1>17. f \in Bytes /\ Len(f) = 3 /\ f[1] = 31 /\ f[2] = major /\ f[3] = minor
  BY <1>4 DEF Bytes
<1>18. Written(version, blank, 5, f)
  <2>1. 5 + Len(f) <= Len(blank)
    BY <1>16, <1>17
  <2> QED BY <1>5, <1>16, <1>17, <2>1, WriteWrites
<1>19. version \in Bytes /\ Len(version) = 31
  BY <1>16, <1>18 DEF Written
<1>20. Written(dmi, version, 16, h)
  <2>1. 16 + Len(h) <= Len(version)
    BY <1>14, <1>19
  <2> QED BY <1>7, <1>14, <1>19, <2>1, WriteWrites
<1>21. dmi \in Bytes /\ Len(dmi) = 31
  BY <1>19, <1>20 DEF Written
<1>22. IsLE(b, l, 2)
  BY <1>8, WriteLEIs
<1>23. b \in Bytes /\ Len(b) = 2
  BY <1>22 DEF IsLE
<1>24. Written(t, dmi, 22, b)
  <2>1. 22 + Len(b) <= Len(dmi)
    BY <1>21, <1>23
  <2> QED BY <1>9, <1>21, <1>23, <2>1, WriteWrites
<1>25. t \in Bytes /\ Len(t) = 31
  BY <1>21, <1>24 DEF Written
<1>26. o \in Bytes /\ Len(o) = 1
  <2>1. PICK v : v = (16 * major + (minor % 16)) % 256
    OBVIOUS
  <2>2. v \in 0 .. 255
    BY <2>1, SMT
  <2>3. o = <<v>>
    BY <1>10, <2>1
  <2> QED BY <2>2, <2>3 DEF Bytes
<1>27. Written(bcd, t, 30, o)
  <2>1. 30 + Len(o) <= Len(t)
    BY <1>25, <1>26
  <2> QED BY <1>11, <1>25, <1>26, <2>1, WriteWrites
<1>28. bcd \in Bytes /\ Len(bcd) = 31
  BY <1>25, <1>27 DEF Written
<1>29. Summed(inner, bcd, 16, 31, 21)
  <2>1. 16 <= 21 /\ 21 < 31 /\ 31 <= Len(bcd)
    BY <1>28
  <2> QED BY <1>12, <1>28, <2>1, SetChecksumIs
<1>30. /\ inner \in Bytes /\ Len(inner) = 31 /\ ChecksumValid(inner, 16, 31)
       /\ \A k \in 1 .. 31 : k # 22 => inner[k] = bcd[k]
  BY <1>28, <1>29 DEF Summed
<1>31. Summed(e, inner, 0, 16, 4)
  <2>1. 0 <= 4 /\ 4 < 16 /\ 16 <= Len(inner)
    BY <1>30
  <2>2. 0 \in Nat /\ 16 \in Nat /\ 4 \in Nat
    OBVIOUS
  <2>3. Summed(SetChecksum(inner, 0, 16, 4), inner, 0, 16, 4)
    BY <1>30, <2>1, <2>2, SetChecksumIs
  <2> QED BY <1>13, <2>3
<1>32. /\ e \in Bytes /\ Len(e) = 31 /\ ChecksumValid(e, 0, 16)
       /\ \A k \in 1 .. 31 : k # 5 => e[k] = inner[k]
  BY <1>30, <1>31 DEF Summed
<1>33. \A k \in 1 .. 31 : k # 5 /\ k # 22 => e[k] = bcd[k]
  BY <1>30, <1>32
<1>34. /\ \A k \in 1 .. 30 : bcd[k] = t[k]
       /\ \A k \in 1 .. 22 : t[k] = dmi[k]
       /\ \A k \in 1 .. 16 : dmi[k] = version[k]
       /\ \A k \in 1 .. 5 : version[k] = blank[k]
  <2>1. \A k \in 1 .. 30 : bcd[k] = t[k]
    BY <1>25, <1>26, <1>27 DEF Written
  <2>2. \A k \in 1 .. 22 : t[k] = dmi[k]
    BY <1>21, <1>23, <1>24 DEF Written
  <2>3. \A k \in 1 .. 16 : dmi[k] = version[k]
    BY <1>14, <1>19, <1>20 DEF Written
  <2>4. \A k \in 1 .. 5 : version[k] = blank[k]
    BY <1>16, <1>17, <1>18 DEF Written
  <2> QED BY <2>1, <2>2, <2>3, <2>4
<1>35. \A k \in 1 .. 4 : e[k] = a[k]
  <2>1. \A k \in 1 .. 4 : blank[k + 0] = a[k]
    BY <1>14, <1>15 DEF Written
  <2>2. \A k \in 1 .. 4 : e[k] = blank[k]
    BY <1>33, <1>34
  <2> QED BY <2>1, <2>2
<1>36. e[6] = 31 /\ e[7] = major /\ e[8] = minor
  <2>1. \A k \in 1 .. 3 : version[k + 5] = f[k]
    BY <1>17, <1>18 DEF Written
  <2>2. 1 + 5 = 6 /\ 2 + 5 = 7 /\ 3 + 5 = 8
    OBVIOUS
  <2>3. version[6] = f[1] /\ version[7] = f[2] /\ version[8] = f[3]
    BY <2>1, <2>2
  <2>4. e[6] = version[6] /\ e[7] = version[7] /\ e[8] = version[8]
    BY <1>33, <1>34
  <2> QED BY <1>17, <2>3, <2>4
<1>37. \A k \in 1 .. 5 : e[k + 16] = h[k]
  <2>1. \A k \in 1 .. 5 : dmi[k + 16] = h[k]
    BY <1>14, <1>20 DEF Written
  <2>2. \A k \in 17 .. 21 : e[k] = dmi[k]
    BY <1>33, <1>34
  <2>3. \A k \in 1 .. 5 : k + 16 \in 17 .. 21
    OBVIOUS
  <2> QED BY <2>1, <2>2, <2>3
<1>38. e[23] = b[1] /\ e[24] = b[2]
  <2>1. \A k \in 1 .. 2 : t[k + 22] = b[k]
    BY <1>23, <1>24 DEF Written
  <2>2. 1 + 22 = 23 /\ 2 + 22 = 24
    OBVIOUS
  <2>3. t[23] = b[1] /\ t[24] = b[2]
    BY <2>1, <2>2
  <2>4. e[23] = t[23] /\ e[24] = t[24]
    BY <1>33, <1>34
  <2> QED BY <2>3, <2>4
<1>39. ByteAt(e, 5) = 31 /\ ByteAt(e, 6) = major /\ ByteAt(e, 7) = minor
  BY <1>36 DEF ByteAt
<1>40. Is2(e)
  <2>1. HasAt(e, 0, a)
    <3>1. 0 + Len(a) <= Len(e)
      BY <1>14, <1>32
    <3>2. \A k \in 1 .. Len(a) : e[k + 0] = a[k]
      BY <1>14, <1>35
    <3> QED BY <1>14, <1>32, <3>1, <3>2, HasAtBytes
  <2>2. HasAt(e, 16, h)
    <3>1. 16 + Len(h) <= Len(e)
      BY <1>14, <1>32
    <3>2. \A k \in 1 .. Len(h) : e[k + 16] = h[k]
      BY <1>14, <1>37
    <3> QED BY <1>14, <1>32, <3>1, <3>2, HasAtBytes
  <2>3. Whole(e, 31, 5)
    <3>1. 31 >= 31 /\ 31 \in 31 .. 31
      OBVIOUS
    <3> QED BY <1>32, <1>39, <3>1 DEF Whole
  <2> QED BY <1>2, <1>6, <2>1, <2>2, <2>3 DEF Is2
<1>41. ChecksumValid(e, 16, 31)
  <2>1. \A k \in 16 + 1 .. 31 : e[k] = inner[k]
    BY <1>32
  <2>2. Sum(e, 16, 31) = Sum(inner, 16, 31)
    <3>1. 16 \in Nat /\ 31 \in Nat /\ 16 <= 31
      OBVIOUS
    <3> QED BY <2>1, <3>1, SumSame
  <2> QED BY <1>30, <2>2 DEF ChecksumValid
<1>42. ChecksumValid(e, 0, 31)
  <2>1. \A k \in 1 .. 31 : e[k] \in 0 .. 255
    BY <1>32, ElementOfSeq DEF Bytes
  <2>2. \A k \in 0 + 1 .. 31 : e[k] \in 0 .. 255
    <3>1. 0 + 1 = 1
      OBVIOUS
    <3> QED BY <2>1, <3>1
  <2>3. Sum(e, 0, 31) = (Sum(e, 0, 16) + Sum(e, 16, 31)) % 256
    <3>1. 0 \in Nat /\ 16 \in Nat /\ 31 \in Nat /\ 0 <= 16 /\ 16 <= 31
      OBVIOUS
    <3>2. AreBytes(e, 0, 31)
      BY <2>2 DEF AreBytes
    <3>3. SumSplits(e, 0, 16, 31)
      BY <3>1, <3>2, SumIsSplit
    <3> QED BY <3>3 DEF SumSplits
  <2>4. Sum(e, 0, 16) = 0 /\ Sum(e, 16, 31) = 0
    BY <1>32, <1>41 DEF ChecksumValid
  <2>5. (0 + 0) % 256 = 0
    OBVIOUS
  <2> QED BY <2>3, <2>4, <2>5 DEF ChecksumValid
<1>43. Valid(e)
  BY <1>32, <1>39, <1>40, <1>41, <1>42, ValidTwo
<1>44. ReadLE(e, 22, 2) = l
  <2> DEFINE x == l % 256
             y == (l \div 256) % 256
  <2>1. l = x + 256 * y
    BY Zenon DEF InTwo
  <2>2. b[1] = x /\ b[2] = y
    <3>1. 1 \in 1 .. 2 /\ 2 \in 1 .. 2
      OBVIOUS
    <3> QED BY <1>22, <3>1 DEF IsLE
  <2>3. ByteAt(e, 22) = x /\ ByteAt(e, 22 + 1) = y
    BY <1>38, <2>2 DEF ByteAt
  <2>4. ~(\E k \in 3 .. 2 - 1 : ByteAt(e, 22 + k) # 0)
    OBVIOUS
  <2>5. ReadLE(e, 22, 2) = ByteAt(e, 22) + 256 * ByteAt(e, 22 + 1) + 0
    BY <2>4, SMT DEF ReadLE
  <2>6. x \in 0 .. 255 /\ y \in 0 .. 255
    BY SMT
  <2> HIDE DEF x, y
  <2> QED BY <2>1, <2>3, <2>5, <2>6, SMT
<1> QED BY <1>32, <1>39, <1>40, <1>43, <1>44 DEF Made2

-----------------------------------------------------------------------------
(* What Windows returns, converted.                                        *)

EntryFor(e, raw) ==
  /\ e \in Bytes /\ Accepted(e) /\ Valid(e)
  /\ ParsedEntry(e).major = ByteAt(raw, 1)
  /\ ParsedEntry(e).minor = ByteAt(raw, 2)
  /\ ParsedEntry(e).length = ReadLE(raw, 4, 4)
  /\ (ParsedEntry(e).tag = "3x") = (ByteAt(raw, 1) >= 3)

(* When a 3.x entry point says what Windows said. *)
LEMMA ThreeIsFor ==
  ASSUME NEW e \in Bytes, NEW raw, Is3(e), Valid(e),
         ByteAt(e, 7) = ByteAt(raw, 1), ByteAt(e, 8) = ByteAt(raw, 2),
         ReadLE(e, 12, 4) = ReadLE(raw, 4, 4), ByteAt(raw, 1) >= 3
  PROVE  EntryFor(e, raw)
<1>1. Inspect(e).tag = "3x"
  BY InspectThree
<1>2. ParsedEntry(e) = [tag |-> "3x", major |-> ByteAt(e, 7),
                        minor |-> ByteAt(e, 8),
                        address |-> ReadLE(e, 16, 8),
                        length |-> ReadLE(e, 12, 4)]
  BY <1>1, Zenon DEF ParsedEntry
<1>3. Accepted(e)
  BY AcceptedIs
<1>4. /\ ParsedEntry(e).major = ByteAt(raw, 1)
      /\ ParsedEntry(e).minor = ByteAt(raw, 2)
      /\ ParsedEntry(e).length = ReadLE(raw, 4, 4)
      /\ ParsedEntry(e).tag = "3x"
  BY <1>2
<1> QED BY <1>3, <1>4 DEF EntryFor

(* When a 2.x entry point says what Windows said. *)
LEMMA TwoIsFor ==
  ASSUME NEW e \in Bytes, NEW raw, Is2(e), Valid(e),
         ByteAt(e, 6) = ByteAt(raw, 1), ByteAt(e, 7) = ByteAt(raw, 2),
         ReadLE(e, 22, 2) = ReadLE(raw, 4, 4), ~(ByteAt(raw, 1) >= 3)
  PROVE  EntryFor(e, raw)
<1>1. Inspect(e).tag = "2x"
  BY InspectTwo, NotBoth
<1>2. ParsedEntry(e) = [tag |-> "2x", major |-> ByteAt(e, 6),
                        minor |-> ByteAt(e, 7),
                        address |-> ReadLE(e, 24, 4),
                        length |-> ReadLE(e, 22, 2)]
  BY <1>1, Zenon DEF ParsedEntry
<1>3. Accepted(e)
  BY AcceptedIs
<1>4. /\ ParsedEntry(e).major = ByteAt(raw, 1)
      /\ ParsedEntry(e).minor = ByteAt(raw, 2)
      /\ ParsedEntry(e).length = ReadLE(raw, 4, 4)
      /\ ParsedEntry(e).tag = "2x"
  BY <1>2
<1>5. "2x" # "3x"
  OBVIOUS
<1> QED BY <1>3, <1>4, <1>5 DEF EntryFor

(* Whatever usable data Windows returns, the entry point made of it is     *)
(* accepted, passes its checksums, and says what Windows said.             *)
LEMMA MadeForWindows ==
  ASSUME NEW raw \in Bytes, Len(raw) < Huge, WindowsUsable(raw)
  PROVE  /\ EntryFor(MakeEntry(raw), raw)
         /\ ReadLE(raw, 4, 4) \in 0 .. Huge
         /\ ReadLE(raw, 4, 4) > 0
         /\ WindowsHeader + ReadLE(raw, 4, 4) <= Len(raw)
<1>1. PICK l : l = ReadLE(raw, 4, 4)
  OBVIOUS
<1>2. /\ Len(raw) \in Nat /\ Len(raw) >= 8 /\ WindowsHeader = 8
      /\ \A k \in 1 .. Len(raw) : raw[k] \in 0 .. 255
  BY ElementOfSeq DEF WindowsUsable, WindowsHeader, Bytes
<1>3. l \in 1 .. Len(raw) - 8
  BY <1>1 DEF WindowsUsable, WindowsHeader
<1>4. l \in Nat /\ l < Huge /\ l > 0 /\ 8 + l <= Len(raw) /\ l \in 0 .. Huge
  BY <1>2, <1>3, HugeIs, SMT
<1>5. PICK a, b, c : a = ByteAt(raw, 1) /\ b = ByteAt(raw, 2)
                     /\ c = ByteAt(raw, 3)
  OBVIOUS
<1>6. a \in 0 .. 255 /\ b \in 0 .. 255 /\ c \in 0 .. 255
  <2>1. /\ 1 + 1 \in 1 .. Len(raw) /\ 2 + 1 \in 1 .. Len(raw)
        /\ 3 + 1 \in 1 .. Len(raw)
    BY <1>2
  <2> QED BY <1>2, <1>5, <2>1 DEF ByteAt
<1>7. PICK e : e = MakeEntry(raw)
  OBVIOUS
<1>8. CASE a >= 3
  <2>1. e = MakeEntry3(a, b, c, l)
    BY <1>1, <1>5, <1>7, <1>8, Zenon DEF MakeEntry
  <2>2. Made3(e, a, b, l)
    BY <1>4, <1>6, <2>1, MakeThree
  <2>3. EntryFor(e, raw)
    BY <1>1, <1>5, <1>8, <2>2, ThreeIsFor DEF Made3
  <2> QED BY <1>1, <1>2, <1>4, <1>7, <2>3
<1>9. CASE ~(a >= 3)
  <2>1. e = MakeEntry2(a, b, l)
    BY <1>1, <1>5, <1>7, <1>9, Zenon DEF MakeEntry
  <2>2. InTwo(l)
    <3>1. a < 3
      BY <1>6, <1>9
    <3>2. l <= 65535
      BY <1>1, <1>5, <3>1, SMT DEF WindowsUsable
    <3> QED BY <1>4, <3>2, FitsTwo, SMT
  <2>3. Made2(e, a, b, l)
    BY <1>4, <1>6, <2>1, <2>2, MakeTwo
  <2>4. EntryFor(e, raw)
    BY <1>1, <1>5, <1>9, <2>3, TwoIsFor DEF Made2
  <2> QED BY <1>1, <1>2, <1>4, <1>7, <2>4
<1> QED BY <1>8, <1>9

-----------------------------------------------------------------------------
(* The scan.                                                               *)

Paragraph(d, o) == o \in 0 .. Len(d) - 1 /\ o % 16 = 0

NoneBefore(d, n) == \A o : Paragraph(d, o) /\ o < n => ~EntryOf(d, o)

NoEntry(d) == \A o : Paragraph(d, o) => ~EntryOf(d, o)

FirstEntry(d, o, e) ==
  /\ EntryOf(d, o) /\ Paragraph(d, o)
  /\ \A p : Paragraph(d, p) /\ EntryOf(d, p) => o <= p
  /\ e = SubSeq(d, o + 1, o + Len(e))

(* An entry point is complete: 24 bytes are there at the least. *)
LEMMA EntryFits ==
  ASSUME NEW d \in Bytes, NEW o \in Nat, EntryOf(d, o)
  PROVE  o + 24 <= Len(d)
<1> DEFINE m == Len(d)
<1>1. m \in Nat
  BY DEF Bytes
<1>2. (\E n \in 24 .. 255 : o + n <= m) \/ (\E n \in 31 .. 255 : o + n <= m)
  BY DEF EntryOf
<1> HIDE DEF m
<1>3. o + 24 <= m
  BY <1>1, <1>2
<1> QED BY <1>3 DEF m

(* The bytes that the scan has not passed. *)
LEMMA RestLength ==
  ASSUME NEW d \in Bytes, NEW o \in Nat, o <= Len(d)
  PROVE  Within(Rest(d, o), d, o) /\ Len(Rest(d, o)) = Len(d) - o
BY SubSeqIsWithin DEF Rest, Bytes

(* A good candidate is the first entry point of the window. *)
LEMMA ScanFindsIt ==
  ASSUME NEW d \in Bytes, NEW o \in Nat, o <= Len(d), o % 16 = 0,
         NoneBefore(d, o), Valid(Rest(d, o)),
         NEW e, e = SubSeq(Rest(d, o), 1, Inspect(Rest(d, o)).length)
  PROVE  FirstEntry(d, o, e) /\ Accepted(e) /\ e \in Bytes
<1>1. PICK r : r = Rest(d, o)
  OBVIOUS
<1>2. Within(r, d, o) /\ Len(r) = Len(d) - o
  BY <1>1, RestLength
<1>3. r \in Bytes /\ Valid(r)
  BY <1>1, <1>2 DEF Within
<1>4. Accepted(r)
  BY <1>3, ValidIsAccepted, AcceptedIs
<1>5. PICK n : n = Inspect(r).length
  OBVIOUS
<1>6. n \in 24 .. 255 /\ n <= Len(r)
  BY <1>3, <1>4, <1>5, AcceptedLength
<1>7. e = SubSeq(r, 1, n)
  BY <1>1, <1>5
<1>8. Within(e, r, 0) /\ Len(e) = n
  BY <1>3, <1>4, <1>5, <1>7, CopyOfAccepted
<1>9. Accepted(e) /\ e \in Bytes
  <2>1. Accepted(e)
    BY <1>3, <1>4, <1>5, <1>8, CopyIsInspectedAlike
  <2> QED BY <1>8, <2>1 DEF Within
<1>10. EntryOf(d, o)
  BY ScanTest
<1>11. Paragraph(d, o)
  <2>1. o + 24 <= Len(d)
    BY <1>10, EntryFits
  <2>2. Len(d) \in Nat
    BY DEF Bytes
  <2> QED BY <2>1, <2>2 DEF Paragraph
<1>12. \A p : Paragraph(d, p) /\ EntryOf(d, p) => o <= p
  <2>1. \A p : Paragraph(d, p) => p \in Nat
    BY DEF Paragraph, Bytes
  <2> QED BY <2>1 DEF NoneBefore
<1>13. e = SubSeq(d, o + 1, o + Len(e))
  <2> DEFINE f == SubSeq(d, o + 1, o + n)
             m == Len(d)
  <2>1. m \in Nat /\ n \in Nat /\ o + n <= m /\ o <= o + n /\ (o + n) - o = n
        /\ o + n \in Nat
    BY <1>2, <1>6 DEF Bytes
  <2>2. Within(f, d, o) /\ Len(f) = n
    <3> HIDE DEF m
    <3>1. o + n <= Len(d)
      BY <2>1 DEF m
    <3> QED BY <2>1, <3>1, SubSeqIsWithin
  <2> HIDE DEF f, m
  <2>3. \A k \in 1 .. n : f[k] = d[k + o]
    BY <2>2 DEF Within
  <2>4. \A k \in 1 .. n : e[k] = r[k]
    <3>1. \A k \in 1 .. Len(e) : e[k] = r[k + 0]
      BY <1>8 DEF Within
    <3>2. \A k \in 1 .. n : e[k] = r[k + 0]
      BY <1>8, <3>1
    <3>3. \A k \in 1 .. n : k + 0 = k
      BY <1>6
    <3> QED BY <3>2, <3>3
  <2>5. \A k \in 1 .. n : r[k] = d[k + o]
    <3>1. \A k \in 1 .. Len(r) : r[k] = d[k + o]
      BY <1>2 DEF Within
    <3>2. \A k \in 1 .. n : k \in 1 .. Len(r)
      BY <1>3, <1>6 DEF Bytes
    <3> QED BY <3>1, <3>2
  <2>6. \A k \in 1 .. n : e[k] = f[k]
    BY <2>3, <2>4, <2>5
  <2>7. e \in Seq(0 .. 255) /\ f \in Seq(0 .. 255)
    BY <1>9, <2>2 DEF Within, Bytes
  <2>8. e = f
    BY <1>8, <2>2, <2>6, <2>7, SeqEqual
  <2> QED BY <1>8, <2>8 DEF f
<1> QED BY <1>9, <1>10, <1>11, <1>12, <1>13 DEF FirstEntry

(* A bad candidate is passed by one paragraph, and hides nothing. *)
LEMMA ScanPasses ==
  ASSUME NEW d \in Bytes, NEW o \in Nat, o % 16 = 0, NoneBefore(d, o),
         ~Valid(Rest(d, o)), o + 20 <= Len(d)
  PROVE  NoneBefore(d, o + 16) /\ (o + 16) % 16 = 0 /\ o + 16 <= Len(d)
<1>1. Len(d) \in Nat /\ o <= Len(d) /\ o + 16 <= Len(d) /\ (o + 16) % 16 = 0
  BY DEF Bytes
<1>2. ~EntryOf(d, o)
  BY <1>1, ScanTest
<1>3. ASSUME NEW p, Paragraph(d, p), p < o + 16
      PROVE  ~EntryOf(d, p)
  <2>1. p \in Nat /\ p % 16 = 0
    BY <1>1, <1>3 DEF Paragraph
  <2>2. p < o \/ p = o
    BY <1>3, <2>1
  <2> QED BY <1>2, <1>3, <2>2 DEF NoneBefore
<1> QED BY <1>1, <1>3 DEF NoneBefore

(* Too few bytes are left for an entry point. *)
LEMMA ScanEnds ==
  ASSUME NEW d \in Bytes, NEW o \in Nat, o % 16 = 0, o <= Len(d),
         NoneBefore(d, o), Len(d) - o < 4 \/ ~Valid(Rest(d, o)),
         Len(d) - o < 20
  PROVE  NoEntry(d)
<1>1. Len(d) \in Nat
  BY DEF Bytes
<1>2. ASSUME NEW p, Paragraph(d, p), EntryOf(d, p)
      PROVE  FALSE
  <2>1. p \in Nat /\ p % 16 = 0
    BY <1>1, <1>2 DEF Paragraph
  <2>2. p + 24 <= Len(d)
    BY <1>2, <2>1, EntryFits
  <2>3. p < o
    <3>1. ~(p >= o)
      BY <1>1, <2>1, <2>2
    <3> QED BY <2>1, <3>1
  <2> QED BY <1>2, <2>3 DEF NoneBefore
<1> QED BY <1>2 DEF NoEntry

-----------------------------------------------------------------------------
(* The inductive invariant, in parts.                                      *)

Scans == way \in {"devmem", "legacy"}

(* Each way has stages of its own, and nothing is known before them. *)
Stages ==
  /\ pc \in {"scan", "locate"} => Scans
  /\ pc = "file" => way = "file"
  /\ pc = "windows" => way = "windows"
  /\ pc = "scan" => entry = << >>
  /\ pc \in {"file", "windows"} => table = Nothing

(* What is handed over to be parsed is an entry point. *)
Handed == pc \in {"locate", "parse"} => Accepted(entry)

(* The scan has passed no entry point. *)
Scanning ==
  pc = "scan" => i % 16 = 0 /\ i <= Len(image) /\ NoneBefore(image, i)

Found ==
  Scans => /\ entry # << >> => FirstEntry(image, at, entry)
           /\ pc = "failed" /\ entry = << >> => NoEntry(image)

BehindEntry(t, e, d) ==
  t.length > 0 /\ t.from >= Len(e) /\ t.from + t.length <= Len(d)

BehindHeader(t, d) ==
  /\ t = [from |-> WindowsHeader, length |-> ReadLE(d, 4, 4)]
  /\ t.length > 0 /\ t.from + t.length <= Len(d)

Located ==
  /\ way = "file" /\ table # Nothing => BehindEntry(table, entry, image)
  /\ way = "windows" /\ table # Nothing => BehindHeader(table, image)
  /\ way = "windows" /\ pc \in {"parse", "done"} => table # Nothing

Built ==
  way = "windows" =>
    /\ pc \in {"parse", "done"} => EntryFor(entry, image)
    /\ pc = "done" => parsed = ParsedEntry(entry)

IInv ==
  /\ TypeOK /\ Stages /\ Handed /\ Scanning /\ Found /\ Located /\ Built

-----------------------------------------------------------------------------
(* The steps.                                                              *)

(* What an input is. *)
LEMMA InputIs ==
  ASSUME TypeOK
  PROVE  /\ way \in Ways /\ image \in Bytes /\ Len(image) \in Nat
         /\ Len(image) < Huge
<1>1. <<way, image>> \in Inputs
  BY DEF TypeOK
<1>2. <<way, image>> \in Ways \X Seq(0 .. 255)
  BY <1>1, InputsAssumption
<1>3. \A input \in Inputs : Len(input[2]) < Huge
  BY InputsAssumption
<1>4. Len(<<way, image>>[2]) < Huge
  BY <1>1, <1>3
<1>5. <<way, image>>[2] = image
  OBVIOUS
<1>6. way \in Ways /\ image \in Bytes
  BY <1>2 DEF Bytes
<1>7. Len(image) \in Nat
  BY <1>6 DEF Bytes
<1> QED BY <1>4, <1>5, <1>6, <1>7

(* The invariant holds at first. *)
LEMMA InitHolds ==
  ASSUME Init
  PROVE  IInv
<1>1. PICK input \in Inputs : way = input[1] /\ image = input[2]
  BY DEF Init
<1>2. input \in Ways \X Seq(0 .. 255)
  BY <1>1, InputsAssumption
<1>3. <<way, image>> \in Inputs /\ way \in Ways /\ image \in Bytes
  BY <1>1, <1>2 DEF Bytes
<1>4. way = "devmem" \/ way = "legacy" \/ way = "file" \/ way = "windows"
  BY <1>3 DEF Ways
<1>5. /\ pc = IF Scans THEN "scan" ELSE way
      /\ i = 0 /\ at = 0 /\ entry = << >> /\ parsed = Nothing
      /\ table = Nothing
  BY DEF Init, Scans
<1>6. TypeOK
  BY <1>3, <1>4, <1>5 DEF TypeOK, Scans
<1>7. Stages /\ Handed /\ Located /\ Built
  BY <1>4, <1>5 DEF Stages, Handed, Located, Built, Scans
<1>8. Scanning
  <2>1. NoneBefore(image, 0)
    <3>1. \A o : Paragraph(image, o) => ~(o < 0)
      BY <1>3 DEF Paragraph, Bytes
    <3> QED BY <3>1 DEF NoneBefore
  <2>2. 0 % 16 = 0 /\ 0 <= Len(image)
    BY <1>3 DEF Bytes
  <2> QED BY <1>5, <2>1, <2>2 DEF Scanning
<1>9. Found
  BY <1>4, <1>5 DEF Found, Scans
<1> QED BY <1>6, <1>7, <1>8, <1>9 DEF IInv

(* The candidate is what is left of the window. *)
LEMMA LeftIs ==
  ASSUME IInv, pc = "scan"
  PROVE  /\ Left = Rest(image, i) /\ Len(Left) = Len(image) - i
         /\ Len(SMBIOS2_ANCHOR) = 4
<1>1. image \in Bytes /\ i \in Nat /\ i <= Len(image)
  BY InputIs DEF IInv, Scanning, TypeOK
<1>2. Left = Rest(image, i)
  BY DEF Left, Rest
<1> QED BY <1>1, <1>2, RestLength, Anchors

(* ScanFinds preserves the invariant. *)
LEMMA ScanFindsHolds ==
  ASSUME IInv, ScanFinds
  PROVE  IInv'
<1>1. /\ pc = "scan" /\ Scans /\ image \in Bytes /\ i \in Nat
      /\ i <= Len(image) /\ i % 16 = 0 /\ NoneBefore(image, i)
  BY InputIs DEF IInv, ScanFinds, Stages, Scanning, TypeOK
<1>2. /\ at' = i /\ way' = way /\ image' = image /\ i' = i
      /\ parsed' = parsed /\ table' = table
      /\ pc' = IF way = "legacy" THEN "locate" ELSE "parse"
  BY DEF ScanFinds
<1>3. /\ Valid(Rest(image, i))
      /\ entry' = SubSeq(Rest(image, i), 1, Inspect(Rest(image, i)).length)
  BY <1>1, LeftIs DEF ScanFinds, Candidate
<1>4. /\ FirstEntry(image, i, entry') /\ Accepted(entry')
      /\ entry' \in Bytes
  BY <1>1, <1>3, ScanFindsIt
<1>5. pc' \in {"locate", "parse"} /\ way # "file" /\ way # "windows"
  BY <1>1, <1>2 DEF Scans
<1>6. TypeOK'
  BY <1>1, <1>2, <1>4, <1>5 DEF IInv, TypeOK, Bytes
<1>7. Stages' /\ Handed' /\ Scanning' /\ Located' /\ Built'
  BY <1>1, <1>2, <1>4, <1>5
     DEF Stages, Handed, Scanning, Located, Built, Scans
<1>8. Found'
  BY <1>2, <1>4, <1>5 DEF Found
<1> QED BY <1>6, <1>7, <1>8 DEF IInv

(* ScanStep preserves the invariant. *)
LEMMA ScanStepHolds ==
  ASSUME IInv, ScanStep
  PROVE  IInv'
<1>1. /\ pc = "scan" /\ Scans /\ image \in Bytes /\ i \in Nat
      /\ i <= Len(image) /\ i % 16 = 0 /\ NoneBefore(image, i)
  BY InputIs DEF IInv, ScanStep, Stages, Scanning, TypeOK
<1>2. /\ i' = i + 16 /\ way' = way /\ image' = image /\ pc' = pc
      /\ at' = at /\ entry' = entry /\ parsed' = parsed /\ table' = table
  BY DEF ScanStep
<1>3. ~Valid(Rest(image, i))
  BY <1>1, LeftIs DEF ScanStep, Candidate
<1>4. i + 20 <= Len(image)
  <2>1. Len(image) - i >= 4 + 16
    BY <1>1, LeftIs DEF ScanStep
  <2>2. Len(image) \in Nat
    BY <1>1 DEF Bytes
  <2> QED BY <1>1, <2>1, <2>2
<1>5. /\ NoneBefore(image, i + 16) /\ (i + 16) % 16 = 0
      /\ i + 16 <= Len(image)
  BY <1>1, <1>3, <1>4, ScanPasses
<1>6. TypeOK'
  BY <1>1, <1>2 DEF IInv, TypeOK
<1>7. Scanning'
  BY <1>2, <1>5 DEF Scanning
<1>8. Stages' /\ Handed' /\ Found' /\ Located' /\ Built'
  BY <1>2 DEF IInv, Stages, Handed, Found, Located, Built, Scans
<1> QED BY <1>6, <1>7, <1>8 DEF IInv

(* ScanGivesUp preserves the invariant. *)
LEMMA ScanGivesUpHolds ==
  ASSUME IInv, ScanGivesUp
  PROVE  IInv'
<1>1. /\ pc = "scan" /\ Scans /\ image \in Bytes /\ i \in Nat
      /\ i <= Len(image) /\ i % 16 = 0 /\ NoneBefore(image, i)
      /\ entry = << >>
  BY InputIs DEF IInv, ScanGivesUp, Stages, Scanning, TypeOK
<1>2. /\ i' = i /\ way' = way /\ image' = image /\ pc' = "failed"
      /\ at' = at /\ entry' = entry /\ parsed' = parsed /\ table' = table
  BY DEF ScanGivesUp
<1>3. /\ Len(image) - i < 4 \/ ~Valid(Rest(image, i))
      /\ Len(image) - i < 20
  <2>1. /\ Len(Left) < 4 \/ ~Valid(Rest(image, i))
        /\ Len(Left) < 4 + 16
    BY <1>1, LeftIs DEF ScanGivesUp, Candidate
  <2>2. Len(Left) = Len(image) - i
    BY <1>1, LeftIs
  <2> QED BY <2>1, <2>2
<1>4. NoEntry(image)
  BY <1>1, <1>3, ScanEnds
<1>5. TypeOK'
  BY <1>2 DEF IInv, TypeOK
<1>6. Stages' /\ Handed' /\ Scanning' /\ Located' /\ Built'
  BY <1>1, <1>2
     DEF IInv, Stages, Handed, Scanning, Located, Built, Scans
<1>7. Found'
  BY <1>1, <1>2, <1>4 DEF Found
<1> QED BY <1>5, <1>6, <1>7 DEF IInv

(* An accepted entry point has bytes. *)
LEMMA AcceptedNotEmpty ==
  ASSUME NEW d \in Bytes, Accepted(d)
  PROVE  d # << >>
<1>1. PICK x : x = Inspect(d).length
  OBVIOUS
<1>2. PICK n : n = Len(d)
  OBVIOUS
<1>3. x \in 24 .. 255 /\ x <= n
  BY <1>1, <1>2, AcceptedLength
<1>4. n \in Nat
  BY <1>2 DEF Bytes
<1>5. n # 0
  BY <1>3, <1>4
<1> QED BY <1>2, <1>5

(* LocateLegacy preserves the invariant. *)
LEMMA LocateLegacyHolds ==
  ASSUME IInv, LocateLegacy
  PROVE  IInv'
<1>1. /\ pc = "locate" /\ Scans /\ Accepted(entry) /\ entry \in Bytes
      /\ FirstEntry(image, at, entry)
  <2>1. pc = "locate" /\ Scans /\ Accepted(entry) /\ entry \in Bytes
    BY DEF IInv, LocateLegacy, Stages, Handed, TypeOK, Bytes
  <2>2. entry # << >>
    BY <2>1, AcceptedNotEmpty
  <2> QED BY <2>1, <2>2 DEF IInv, Found
<1>2. /\ i' = i /\ way' = way /\ image' = image
      /\ at' = at /\ entry' = entry /\ parsed' = parsed
      /\ \/ table' = TableLocation(entry) /\ pc' = "parse"
         \/ table' = table /\ pc' = "failed"
  BY DEF LocateLegacy
<1>3. TableLocation(entry) \in [from : 0 .. Huge, length : 0 .. Huge]
  BY <1>1, ParsedType
<1>4. way # "file" /\ way # "windows"
  BY <1>1 DEF Scans
<1>5. TypeOK'
  <2>1. table' # Nothing =>
          table' \in [from : 0 .. Huge, length : 0 .. Huge]
    BY <1>2, <1>3 DEF IInv, TypeOK
  <2>2. pc' \in {"parse", "failed"}
    BY <1>2
  <2> QED BY <1>2, <2>1, <2>2 DEF IInv, TypeOK
<1>6. Stages' /\ Handed' /\ Scanning' /\ Located' /\ Built'
  BY <1>1, <1>2, <1>4
     DEF IInv, Stages, Handed, Scanning, Located, Built, Scans
<1>7. Found'
  <2>1. entry # << >>
    BY <1>1, AcceptedNotEmpty
  <2> QED BY <1>1, <1>2, <2>1 DEF Found
<1> QED BY <1>5, <1>6, <1>7 DEF IInv

(* ReadSingleFile preserves the invariant. *)
LEMMA ReadSingleFileHolds ==
  ASSUME IInv, ReadSingleFile
  PROVE  IInv'
<1>1. /\ pc = "file" /\ way = "file" /\ image \in Bytes
      /\ Len(image) \in Nat /\ Len(image) < Huge /\ table = Nothing
  BY InputIs DEF IInv, ReadSingleFile, Stages, TypeOK
<1>2. /\ i' = i /\ way' = way /\ image' = image /\ at' = at
      /\ parsed' = parsed /\ ~Scans
  BY <1>1 DEF ReadSingleFile, Scans
<1>3. CASE ~FileUsable
  <2>1. entry' = entry /\ table' = table /\ pc' = "failed"
    BY <1>3 DEF ReadSingleFile
  <2>2. TypeOK'
    BY <1>2, <2>1 DEF IInv, TypeOK
  <2>3. /\ Stages' /\ Handed' /\ Scanning' /\ Found' /\ Located' /\ Built'
    BY <1>1, <1>2, <2>1
       DEF Stages, Handed, Scanning, Found, Located, Built, Scans
  <2> QED BY <2>2, <2>3 DEF IInv
<1>4. CASE FileUsable
  <2>1. PICK head : head = SubSeq(image, 1, SniffedLength)
    OBVIOUS
  <2>2. /\ entry' = SubSeq(head, 1, Inspect(head).length)
        /\ table' = Layout(head, Len(image)) /\ pc' = "parse"
    BY <1>4, <2>1 DEF ReadSingleFile
  <2>3. HasLayout(head, Len(image)) /\ SniffedLength <= Len(image)
    BY <1>4, <2>1 DEF FileUsable
  <2>4. head \in Bytes
    <3>1. SniffedLength \in {24, 31, Huge}
      BY DEF SniffedLength, SMBIOS3_ENTRY_POINT_LENGTH,
             SMBIOS2_ENTRY_POINT_LENGTH
    <3>2. SniffedLength \in Nat
      BY <3>1, HugeIs
    <3>3. 0 \in Nat /\ 0 <= SniffedLength /\ 0 + 1 = 1
      BY <3>2
    <3>4. Within(SubSeq(image, 0 + 1, SniffedLength), image, 0)
      BY <1>1, <2>3, <3>2, <3>3, SubSeqIsWithin
    <3> QED BY <2>1, <3>3, <3>4 DEF Within
  <2>5. Accepted(head)
    BY <2>3 DEF HasLayout
  <2>6. Within(entry', head, 0) /\ Len(entry') = Inspect(head).length
    BY <2>2, <2>4, <2>5, CopyOfAccepted
  <2>7. Accepted(entry') /\ entry' \in Bytes
    <3>1. Accepted(entry')
      BY <2>4, <2>5, <2>6, CopyIsInspectedAlike
    <3> QED BY <2>6, <3>1 DEF Within
  <2>8. /\ table' \in [from : 0 .. Huge, length : 0 .. Huge]
        /\ BehindEntry(table', entry', image)
    BY <1>1, <2>2, <2>3, <2>4, <2>6, LayoutInside DEF BehindEntry
  <2>9. TypeOK'
    BY <1>2, <2>2, <2>7, <2>8 DEF IInv, TypeOK, Bytes
  <2>10. Stages' /\ Handed' /\ Scanning' /\ Found' /\ Located' /\ Built'
    BY <1>1, <1>2, <2>2, <2>7, <2>8
       DEF Stages, Handed, Scanning, Found, Located, Built, Scans
  <2> QED BY <2>9, <2>10 DEF IInv
<1> QED BY <1>3, <1>4

(* ConvertWindows preserves the invariant. *)
LEMMA ConvertWindowsHolds ==
  ASSUME IInv, ConvertWindows
  PROVE  IInv'
<1>1. /\ pc = "windows" /\ way = "windows" /\ image \in Bytes
      /\ Len(image) < Huge /\ table = Nothing
  BY InputIs DEF IInv, ConvertWindows, Stages, TypeOK
<1>2. /\ i' = i /\ way' = way /\ image' = image /\ at' = at
      /\ parsed' = parsed /\ ~Scans
  BY <1>1 DEF ConvertWindows, Scans
<1>3. CASE ~WindowsUsable(image)
  <2>1. entry' = entry /\ table' = table /\ pc' = "failed"
    BY <1>3 DEF ConvertWindows
  <2>2. TypeOK'
    BY <1>2, <2>1 DEF IInv, TypeOK
  <2>3. /\ Stages' /\ Handed' /\ Scanning' /\ Found' /\ Located' /\ Built'
    BY <1>1, <1>2, <2>1
       DEF Stages, Handed, Scanning, Found, Located, Built, Scans
  <2> QED BY <2>2, <2>3 DEF IInv
<1>4. CASE WindowsUsable(image)
  <2>1. /\ entry' = MakeEntry(image) /\ pc' = "parse"
        /\ table' = [from |-> WindowsHeader, length |-> ReadLE(image, 4, 4)]
    BY <1>4 DEF ConvertWindows
  <2>2. /\ EntryFor(entry', image)
        /\ ReadLE(image, 4, 4) \in 0 .. Huge
        /\ ReadLE(image, 4, 4) > 0
        /\ WindowsHeader + ReadLE(image, 4, 4) <= Len(image)
    BY <1>1, <1>4, <2>1, MadeForWindows
  <2>3. Accepted(entry') /\ entry' \in Bytes
    BY <2>2 DEF EntryFor
  <2>4. BehindHeader(table', image)
    BY <2>1, <2>2 DEF BehindHeader
  <2>5. table' \in [from : 0 .. Huge, length : 0 .. Huge]
    <3>1. WindowsHeader \in 0 .. Huge
      BY HugeIs, SMT DEF WindowsHeader
    <3> QED BY <2>1, <2>2, <3>1
  <2>6. table' # Nothing
    <3>1. [from |-> WindowsHeader, length |-> ReadLE(image, 4, 4)] # Nothing
      BY DEF Nothing
    <3> QED BY <2>1, <3>1
  <2>7. TypeOK'
    BY <1>2, <2>1, <2>3, <2>5 DEF IInv, TypeOK, Bytes
  <2>8. Stages' /\ Handed' /\ Scanning' /\ Found' /\ Located' /\ Built'
    BY <1>1, <1>2, <2>1, <2>2, <2>3, <2>4, <2>6
       DEF Stages, Handed, Scanning, Found, Located, Built, Scans
  <2> QED BY <2>7, <2>8 DEF IInv
<1> QED BY <1>3, <1>4

(* Parse preserves the invariant, and accepts what it is handed. *)
LEMMA ParseHolds ==
  ASSUME IInv, Parse
  PROVE  IInv' /\ pc' = "done"
<1>1. pc = "parse" /\ Accepted(entry) /\ entry \in Bytes
  BY DEF IInv, Parse, Handed, TypeOK, Bytes
<1>2. /\ i' = i /\ way' = way /\ image' = image
      /\ at' = at /\ entry' = entry /\ parsed' = ParsedEntry(entry)
      /\ table' = IF way = "devmem" THEN TableLocation(entry) ELSE table
      /\ pc' = "done"
  BY <1>1 DEF Parse
<1>3. /\ ParsedEntry(entry) \in ParsedSet
      /\ TableLocation(entry) \in [from : 0 .. Huge, length : 0 .. Huge]
  BY <1>1, ParsedType
<1>4. TypeOK'
  <2>1. table' # Nothing =>
          table' \in [from : 0 .. Huge, length : 0 .. Huge]
    BY <1>2, <1>3 DEF IInv, TypeOK
  <2> QED BY <1>2, <1>3, <2>1 DEF IInv, TypeOK, ParsedSet
<1>5. Stages' /\ Handed' /\ Scanning'
  BY <1>2 DEF Stages, Handed, Scanning
<1>6. Found'
  <2>1. pc' # "failed" /\ (Scans' <=> Scans)
    BY <1>2 DEF Scans
  <2> QED BY <1>2, <2>1 DEF IInv, Found
<1>7. Located' /\ Built'
  <2>1. way \in {"file", "windows"} => table' = table
    BY <1>2
  <2> QED BY <1>1, <1>2, <2>1 DEF IInv, Located, Built
<1> QED BY <1>2, <1>4, <1>5, <1>6, <1>7 DEF IInv

(* A stuttering step changes nothing. *)
LEMMA StutterHolds ==
  ASSUME IInv, UNCHANGED vars
  PROVE  IInv'
<1>1. /\ i' = i /\ way' = way /\ image' = image /\ at' = at
      /\ entry' = entry /\ parsed' = parsed /\ table' = table /\ pc' = pc
  BY DEF vars
<1>2. TypeOK' /\ Stages' /\ Handed'
  BY <1>1 DEF IInv, TypeOK, Stages, Handed, Scans
<1>3. Scanning' /\ Found'
  BY <1>1 DEF IInv, Scanning, Found, Scans
<1>4. Located' /\ Built'
  BY <1>1 DEF IInv, Located, Built
<1> QED BY <1>2, <1>3, <1>4 DEF IInv

(* The invariant holds in every state of every load, for all inputs that   *)
(* are shorter than the largest field value.                               *)
THEOREM LoadInvariant == Spec => []IInv
<1>1. Init => IInv
  BY InitHolds
<1>2. IInv /\ [Next]_vars => IInv'
  BY ScanFindsHolds, ScanStepHolds, ScanGivesUpHolds, LocateLegacyHolds,
     ReadSingleFileHolds, ConvertWindowsHolds, ParseHolds, StutterHolds
     DEF Next
<1> QED BY <1>1, <1>2, PTL DEF Spec

-----------------------------------------------------------------------------
(* What follows.                                                           *)

(* The invariant says where the scan stopped. *)
LEMMA FirstFollows ==
  ASSUME IInv
  PROVE  ScanFindsFirst
<1>1. \A o : EntryAt(o) <=> EntryOf(image, o)
  BY DEF EntryAt, EntryOf, SumsToZero
<1>2. \A o : o \in Paragraphs <=> Paragraph(image, o)
  BY DEF Paragraphs, Paragraph
<1>3. SUFFICES ASSUME Scans PROVE
        /\ entry # << >> =>
             /\ EntryAt(at) /\ at \in Paragraphs
             /\ \A o \in Paragraphs : EntryAt(o) => at <= o
             /\ entry = SubSeq(image, at + 1, at + Len(entry))
        /\ pc = "failed" /\ entry = << >> =>
             \A o \in Paragraphs : ~EntryAt(o)
  BY DEF ScanFindsFirst, Scans
<1>4. ASSUME entry # << >>
      PROVE  /\ EntryAt(at) /\ at \in Paragraphs
             /\ \A o \in Paragraphs : EntryAt(o) => at <= o
             /\ entry = SubSeq(image, at + 1, at + Len(entry))
  <2>1. FirstEntry(image, at, entry)
    BY <1>3, <1>4 DEF IInv, Found
  <2> QED BY <1>1, <1>2, <2>1 DEF FirstEntry
<1>5. ASSUME pc = "failed", entry = << >>
      PROVE  \A o \in Paragraphs : ~EntryAt(o)
  <2>1. NoEntry(image)
    BY <1>3, <1>5 DEF IInv, Found
  <2> QED BY <1>1, <1>2, <2>1 DEF NoEntry
<1> QED BY <1>4, <1>5

(* The invariant says where the table lies. *)
LEMMA InsideFollows ==
  ASSUME IInv
  PROVE  TableInside
<1>1. TypeOK
  BY DEF IInv
<1>2. ASSUME way = "file", table # Nothing
      PROVE  BehindEntry(table, entry, image)
  BY <1>2 DEF IInv, Located
<1>3. ASSUME way = "windows", table # Nothing
      PROVE  /\ table.length > 0 /\ table.from >= WindowsHeader
             /\ table.from + table.length <= Len(image)
  <2>1. BehindHeader(table, image)
    BY <1>3 DEF IInv, Located
  <2>2. table.from = WindowsHeader /\ 8 >= 8
    BY <2>1 DEF BehindHeader
  <2> QED BY <2>1, <2>2 DEF BehindHeader, WindowsHeader
<1>4. "file" # "windows"
  OBVIOUS
<1> QED BY <1>1, <1>2, <1>3, <1>4 DEF TableInside, BehindEntry

(* The invariant says what the Windows entry point is. *)
LEMMA RoundTripFollows ==
  ASSUME IInv
  PROVE  WindowsRoundTrip
<1>1. ASSUME way = "windows", pc = "done"
      PROVE  /\ Valid(entry)
             /\ parsed.major = ByteAt(image, 1)
             /\ parsed.minor = ByteAt(image, 2)
             /\ parsed.length = table.length
             /\ (parsed.tag = "3x") = (ByteAt(image, 1) >= 3)
  <2>1. EntryFor(entry, image) /\ parsed = ParsedEntry(entry)
    BY <1>1 DEF IInv, Built
  <2>2. BehindHeader(table, image)
    BY <1>1 DEF IInv, Located
  <2>3. table.length = ReadLE(image, 4, 4)
    BY <2>2 DEF BehindHeader
  <2> QED BY <2>1, <2>3 DEF EntryFor
<1> QED BY <1>1 DEF WindowsRoundTrip

(* Every stage of a load keeps its variables what they should be, for      *)
(* every window, file and Windows result.                                  *)
THEOREM TypeCorrect == Spec => []TypeOK
<1>1. IInv => TypeOK
  BY DEF IInv
<1> QED BY <1>1, LoadInvariant, PTL

(* lazybiosFindSMBIOSEntryPoint finds the first complete entry point with  *)
(* good checksums, whatever stands before it, and misses none.             *)
THEOREM ScanCorrect == Spec => []ScanFindsFirst
BY FirstFollows, LoadInvariant, PTL

(* lazybiosGetSingleFileLayout and the Windows conversion never locate a   *)
(* table outside the bytes they were given.                                *)
THEOREM TableCorrect == Spec => []TableInside
BY InsideFollows, LoadInvariant, PTL

(* The entry point lazybiosLoadWindowsRawSMBIOSData builds is valid and    *)
(* says what Windows said, for every version and length Windows returns.   *)
THEOREM WindowsCorrect == Spec => []WindowsRoundTrip
BY RoundTripFollows, LoadInvariant, PTL

(* lazybiosParseEntry never rejects what a loader hands it. *)
THEOREM NeverRejected == Spec => AcceptedStaysAccepted
<1>1. IInv /\ [Next]_vars => [pc = "parse" => pc' = "done"]_vars
  <2> SUFFICES ASSUME IInv, Next, pc = "parse" PROVE pc' = "done"
    OBVIOUS
  <2>1. Parse
    BY DEF Next, ScanFinds, ScanStep, ScanGivesUp, LocateLegacy,
           ReadSingleFile, ConvertWindows
  <2> QED BY <2>1, ParseHolds
<1> QED BY <1>1, LoadInvariant, PTL DEF Spec, AcceptedStaysAccepted

-----------------------------------------------------------------------------
(* A load comes to an end. *)

(* How many steps a load can still take, at most: the bytes the scan has   *)
(* before it, and one for each stage that follows.                         *)
StepsLeft ==
  CASE pc = "scan"                -> (Len(image) - i) + 3
    [] pc = "locate"              -> 2
    [] pc \in {"file", "windows"} -> 2
    [] pc = "parse"               -> 1
    [] OTHER                      -> 0

LEMMA StepsLeftNatural == IInv => StepsLeft \in Nat
<1> SUFFICES ASSUME IInv PROVE StepsLeft \in Nat
  OBVIOUS
<1>1. pc = "scan" => (Len(image) - i) + 3 \in Nat
  <2>1. Len(image) \in Nat /\ i \in Nat
    BY InputIs DEF IInv, TypeOK
  <2>2. pc = "scan" => i <= Len(image)
    BY DEF IInv, Scanning
  <2> QED BY <2>1, <2>2
<1>2. 0 \in Nat /\ 1 \in Nat /\ 2 \in Nat
  OBVIOUS
<1> QED BY <1>1, <1>2, Zenon DEF StepsLeft

LEMMA StepsLeftDecrease == IInv /\ Next => StepsLeft' < StepsLeft
<1> SUFFICES ASSUME IInv, Next PROVE StepsLeft' < StepsLeft
  OBVIOUS
<1>1. /\ Len(image) \in Nat /\ i \in Nat
      /\ pc = "scan" => i <= Len(image)
  BY InputIs DEF IInv, TypeOK, Scanning
<1>2. CASE ScanFinds
  <2>1. pc = "scan" /\ pc' \in {"locate", "parse"}
    BY <1>2 DEF ScanFinds
  <2>2. StepsLeft' \in {1, 2} /\ StepsLeft = (Len(image) - i) + 3
    BY <2>1 DEF StepsLeft
  <2> QED BY <1>1, <2>1, <2>2
<1>3. CASE ScanStep
  <2>1. /\ pc = "scan" /\ pc' = "scan" /\ i' = i + 16
        /\ Len(image') = Len(image)
    BY <1>3 DEF ScanStep
  <2>2. /\ StepsLeft = (Len(image) - i) + 3
        /\ StepsLeft' = (Len(image') - i') + 3
    BY <2>1 DEF StepsLeft
  <2> QED BY <1>1, <2>1, <2>2
<1>4. CASE ScanGivesUp
  <2>1. pc = "scan" /\ pc' = "failed"
    BY <1>4 DEF ScanGivesUp
  <2>2. StepsLeft' = 0 /\ StepsLeft = (Len(image) - i) + 3
    BY <2>1 DEF StepsLeft
  <2> QED BY <1>1, <2>1, <2>2
<1>5. CASE LocateLegacy
  <2>1. pc = "locate" /\ pc' \in {"parse", "failed"}
    BY <1>5 DEF LocateLegacy
  <2> QED BY <2>1 DEF StepsLeft
<1>6. CASE ReadSingleFile
  <2>1. pc = "file" /\ pc' \in {"parse", "failed"}
    BY <1>6 DEF ReadSingleFile
  <2> QED BY <2>1 DEF StepsLeft
<1>7. CASE ConvertWindows
  <2>1. pc = "windows" /\ pc' \in {"parse", "failed"}
    BY <1>7 DEF ConvertWindows
  <2> QED BY <2>1 DEF StepsLeft
<1>8. CASE Parse
  <2>1. pc = "parse" /\ pc' \in {"done", "failed"}
    BY <1>8 DEF Parse
  <2> QED BY <2>1 DEF StepsLeft
<1> QED BY <1>2, <1>3, <1>4, <1>5, <1>6, <1>7, <1>8 DEF Next

(* No load runs for ever, whatever bytes it is given: each step lowers     *)
(* StepsLeft, which is never negative.  In particular the scan of          *)
(* lazybiosFindSMBIOSEntryPoint never steps back or stays where it is, not *)
(* even over candidates whose own length byte is zero or damaged.          *)
THEOREM LoadRunsDown ==
  Spec => [](StepsLeft \in Nat) /\ [][StepsLeft' < StepsLeft]_vars
<1>1. IInv /\ [Next]_vars => [StepsLeft' < StepsLeft]_vars
  BY StepsLeftDecrease
<1> QED BY <1>1, StepsLeftNatural, LoadInvariant, PTL DEF Spec

=============================================================================
