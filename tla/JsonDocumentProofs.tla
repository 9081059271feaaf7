------------------------- MODULE JsonDocumentProofs -------------------------
(***************************************************************************)
(* Proofs about module JsonDocument.                                       *)
(***************************************************************************)
EXTENDS JsonDocument, FiniteSetTheorems, SequenceTheorems,
        WellFoundedInduction, TLAPS

-----------------------------------------------------------------------------
(* Order and induction on the natural numbers, by sets: what the library   *)
(* states with an operator parameter.                                      *)

Below == OpToRel(<, Nat)

(* A set of natural numbers that is not empty has a least element. *)
LEMMA LeastNatural ==
  ASSUME NEW T, T \subseteq Nat, T # {}
  PROVE  \E m \in T : \A n \in T : m <= n
<1>1. \A j, k \in Nat : <<j, k>> \in Below <=> j < k
  BY DEF Below, OpToRel
<1>2. IsWellFoundedOn(Below, Nat)
  BY NatLessThanWellFounded DEF Below
<1>3. PICK m \in T : \A n \in T : <<n, m>> \notin Below
  BY <1>2, WFMin
<1>4. m \in Nat /\ \A n \in T : n \in Nat /\ ~(n < m)
  BY <1>1, <1>3
<1> QED BY <1>3, <1>4

(* A set that holds 0, and n + 1 whenever it holds n, holds every natural  *)
(* number.                                                                 *)
LEMMA Induction ==
  ASSUME NEW S, 0 \in S, \A n \in Nat : n \in S => n + 1 \in S
  PROVE  Nat \subseteq S
<1>1. SUFFICES ASSUME Nat \ S # {} PROVE FALSE
  OBVIOUS
<1>2. PICK m \in Nat \ S : \A n \in Nat \ S : m <= n
  BY <1>1, LeastNatural
<1>3. m # 0 /\ m - 1 \in Nat
  BY <1>2
<1> QED BY <1>2, <1>3

-----------------------------------------------------------------------------
(* The tree.                                                               *)

TreeOf(ns) ==
  CHOOSE held : held = [j \in 0 .. Len(ns) |->
                          j = Root \/ (ns[j].held /\ held[ns[j].parent])]

InTreeOf(ns, i) == TreeOf(ns)[i]

(* Every parent was there before its child. *)
Grounded(ns) ==
  Len(ns) \in Nat /\ \A j \in 1 .. Len(ns) : ns[j].parent \in 0 .. j - 1

(* Some function satisfies the equation, so the chosen one does. *)
LEMMA TreeEquation ==
  ASSUME NEW ns, Grounded(ns)
  PROVE  TreeOf(ns) =
           [j \in 0 .. Len(ns) |->
              j = Root \/ (ns[j].held /\ TreeOf(ns)[ns[j].parent])]
<1> DEFINE B(f, j) == j = Root \/ (ns[j].held /\ f[ns[j].parent])
           G(f, y) == [j \in 0 .. y |-> B(f, j)]
           S == {y \in Nat : y <= Len(ns) => \E f : f = G(f, y)}
<1>1. \A f, g, j : f[ns[j].parent] = g[ns[j].parent] => B(f, j) = B(g, j)
  BY Zenon
<1>2. \A f, g : B(f, 0) = B(g, 0)
  BY Zenon DEF Root
<1> HIDE DEF B
<1>3. 0 \in S
  <2> DEFINE f == [j \in 0 .. 0 |-> B(0, 0)]
  <2>1. f = G(f, 0)
    <3>1. \A j \in 0 .. 0 : j = 0
      OBVIOUS
    <3>2. B(f, 0) = B(0, 0)
      BY <1>2
    <3> QED BY <3>1, <3>2
  <2> HIDE DEF f
  <2> QED BY <2>1
<1>4. ASSUME NEW y \in Nat, y \in S
      PROVE  y + 1 \in S
  <2>1. SUFFICES ASSUME y + 1 <= Len(ns)
                 PROVE  \E f : f = G(f, y + 1)
    OBVIOUS
  <2>2. y <= Len(ns)
    BY <2>1 DEF Grounded
  <2>3. PICK f : f = G(f, y)
    BY <1>4, <2>2
  <2> DEFINE g == G(f, y + 1)
  <2>4. \A j \in 0 .. y : g[j] = f[j]
    BY <2>3
  <2> HIDE DEF g
  <2>5. ASSUME NEW j \in 0 .. y + 1
        PROVE  B(f, j) = B(g, j)
    <3>1. CASE j = 0
      BY <1>2, <3>1
    <3>2. CASE j # 0
      <4>1. j \in 1 .. Len(ns) /\ j - 1 <= y
        BY <2>1, <3>2 DEF Grounded
      <4>2. ns[j].parent \in 0 .. j - 1
        BY <4>1 DEF Grounded
      <4>3. ns[j].parent \in 0 .. y
        BY <4>1, <4>2
      <4>4. g[ns[j].parent] = f[ns[j].parent]
        BY <2>4, <4>3
      <4> QED BY <1>1, <4>4
    <3> QED BY <3>1, <3>2
  <2>6. g = G(g, y + 1)
    BY <2>5 DEF g
  <2> QED BY <2>6
<1> HIDE DEF S
<1>5. Len(ns) \in S
  BY <1>3, <1>4, Induction DEF Grounded
<1>6. \E f : f = G(f, Len(ns))
  BY <1>5 DEF S, Grounded
<1> DEFINE s == CHOOSE f : f = G(f, Len(ns))
<1>7. TreeOf(ns) = s
  BY DEF TreeOf, B
<1> HIDE DEF G
<1>8. s = G(s, Len(ns))
  BY <1>6
<1> HIDE DEF s
<1>9. TreeOf(ns) = G(TreeOf(ns), Len(ns))
  BY <1>7, <1>8
<1> QED BY <1>9, Zenon DEF G, B

(* The root is in the tree, and a child is when its parent is and holds it. *)
LEMMA TreeRoot ==
  ASSUME NEW ns, Grounded(ns)
  PROVE  InTreeOf(ns, 0)
<1> DEFINE t == TreeOf(ns)
<1>1. t = [j \in 0 .. Len(ns) |-> j = Root \/ (ns[j].held /\ t[ns[j].parent])]
  BY TreeEquation
<1>2. 0 \in 0 .. Len(ns)
  BY DEF Grounded
<1> HIDE DEF t
<1>3. t[0] = (0 = Root \/ (ns[0].held /\ t[ns[0].parent]))
  BY <1>1, <1>2, Zenon
<1> QED BY <1>3, Zenon DEF InTreeOf, Root, t

(* A node is in the tree when it is held, and its parent is in the tree. *)
LEMMA TreeStep ==
  ASSUME NEW ns, Grounded(ns), NEW j \in 1 .. Len(ns)
  PROVE  InTreeOf(ns, j) <=> ns[j].held /\ InTreeOf(ns, ns[j].parent)
<1> DEFINE t == TreeOf(ns)
<1>1. t = [k \in 0 .. Len(ns) |-> k = Root \/ (ns[k].held /\ t[ns[k].parent])]
  BY TreeEquation
<1>2. j \in 0 .. Len(ns) /\ j # Root
  BY DEF Grounded, Root
<1> HIDE DEF t
<1>3. t[j] = (j = Root \/ (ns[j].held /\ t[ns[j].parent]))
  BY <1>1, <1>2, Zenon
<1> QED BY <1>2, <1>3, Zenon DEF InTreeOf, t

(* Nodes that are added do not change what was in the tree. *)
LEMMA TreeKept ==
  ASSUME NEW ns, NEW ms, Grounded(ns), Grounded(ms), Len(ns) <= Len(ms),
         \A j \in 1 .. Len(ns) : ms[j] = ns[j]
  PROVE  \A j \in 0 .. Len(ns) : InTreeOf(ms, j) <=> InTreeOf(ns, j)
<1> DEFINE T == {j \in 0 .. Len(ns) : ~(InTreeOf(ms, j) <=> InTreeOf(ns, j))}
<1>1. SUFFICES ASSUME T # {} PROVE FALSE
  OBVIOUS
<1>2. T \subseteq Nat
  BY DEF Grounded
<1>3. PICK m \in T : \A n \in T : m <= n
  BY <1>1, <1>2, LeastNatural
<1>4. m \in 0 .. Len(ns) /\ ~(InTreeOf(ms, m) <=> InTreeOf(ns, m))
  BY <1>3
<1>5. m # 0
  BY <1>4, TreeRoot, Zenon
<1>6. m \in 1 .. Len(ns) /\ m \in 1 .. Len(ms)
  BY <1>4, <1>5 DEF Grounded
<1>7. ns[m].parent \in 0 .. m - 1 /\ ms[m] = ns[m]
  BY <1>6 DEF Grounded
<1> DEFINE p == ns[m].parent
<1>8. p \in 0 .. Len(ns) /\ p < m
  BY <1>6, <1>7 DEF Grounded
<1>9. p \notin T
  <2> HIDE DEF p
  <2>1. ~(m <= p)
    BY <1>6, <1>8
  <2> HIDE DEF T
  <2> QED BY <1>3, <2>1
<1>10. InTreeOf(ms, p) <=> InTreeOf(ns, p)
  BY <1>8, <1>9
<1>11. InTreeOf(ns, m) <=> ns[m].held /\ InTreeOf(ns, p)
  BY <1>6, TreeStep
<1>12. InTreeOf(ms, m) <=> ms[m].held /\ InTreeOf(ms, ms[m].parent)
  BY <1>6, TreeStep
<1> QED BY <1>4, <1>7, <1>10, <1>11, <1>12, Zenon

-----------------------------------------------------------------------------
(* The nodes of a document.                                                *)

Names == Types \cup Vendors \cup {"oem", "smbios_info"}

Values == SUBSET (Nat \cup BOOLEAN)

NodeSet ==
  [name : Names, parent : Nat, held : BOOLEAN,
   shows : {"null", "array", "object"}, value : Values]

NodesOK(ns) ==
  ns \in Seq(NodeSet) /\ \A j \in 1 .. Len(ns) : ns[j].parent \in 0 .. j - 1

(* What is known when the node x has been added to ns. *)
Grown(ns, x, ms) ==
  /\ NodesOK(ms) /\ Len(ms) = Len(ns) + 1 /\ ms[Len(ns) + 1] = x
  /\ \A j \in 1 .. Len(ns) : ms[j] = ns[j]
  /\ \A j \in 0 .. Len(ns) : InTreeOf(ms, j) <=> InTreeOf(ns, j)
  /\ InTreeOf(ms, Len(ns) + 1) <=> x.held /\ InTreeOf(ns, x.parent)

(* Every chain of parents ends at the root. *)
LEMMA GroundedNodes ==
  ASSUME NEW ns, NodesOK(ns)
  PROVE  Grounded(ns)
BY DEF NodesOK, Grounded

(* A node that is added below one that is there grows the document. *)
LEMMA AddNode ==
  ASSUME NEW ns, NodesOK(ns), NEW x \in NodeSet, x.parent \in 0 .. Len(ns),
         NEW ms, ms = Append(ns, x)
  PROVE  Grown(ns, x, ms)
<1> DEFINE n == Len(ns)
<1>1. n \in Nat /\ ns \in Seq(NodeSet)
  BY DEF NodesOK
<1>2. /\ ms \in Seq(NodeSet) /\ Len(ms) = n + 1 /\ ms[n + 1] = x
      /\ \A j \in 1 .. n : ms[j] = ns[j]
  BY <1>1
<1> HIDE DEF n
<1>3. ASSUME NEW j \in 1 .. Len(ms)
      PROVE  ms[j].parent \in 0 .. j - 1
  <2>1. CASE j = n + 1
    BY <1>1, <1>2, <2>1 DEF n
  <2>2. CASE j # n + 1
    <3>1. j \in 1 .. n
      BY <1>1, <1>2, <2>2
    <3> QED BY <1>2, <3>1 DEF NodesOK, n
  <2> QED BY <2>1, <2>2
<1>4. NodesOK(ms)
  BY <1>2, <1>3 DEF NodesOK
<1>5. Grounded(ns) /\ Grounded(ms)
  BY <1>4, GroundedNodes
<1>6. \A j \in 0 .. n : InTreeOf(ms, j) <=> InTreeOf(ns, j)
  <2>1. Len(ns) <= Len(ms)
    BY <1>1, <1>2 DEF n
  <2> QED BY <1>2, <1>5, <2>1, TreeKept DEF n
<1>7. InTreeOf(ms, n + 1) <=> x.held /\ InTreeOf(ns, x.parent)
  <2>1. n + 1 \in 1 .. Len(ms)
    BY <1>1, <1>2
  <2>2. InTreeOf(ms, n + 1)
          <=> ms[n + 1].held /\ InTreeOf(ms, ms[n + 1].parent)
    BY <1>5, <2>1, TreeStep
  <2>3. InTreeOf(ms, x.parent) <=> InTreeOf(ns, x.parent)
    BY <1>6 DEF n
  <2> QED BY <1>2, <2>2, <2>3, Zenon
<1> QED BY <1>2, <1>4, <1>6, <1>7 DEF Grown, n

(* What objects and items there are, and where. *)
IsOem(ns, p) ==
  p \in 1 .. Len(ns) /\ ns[p].name = "oem" /\ ns[p].shows = "object"

IsVendor(ns, v, p) ==
  p \in 1 .. Len(ns) /\ ns[p].name = v /\ ns[p].shows = "object"

IsHolder(ns, t, p) ==
  \/ Vendor[t] = "" /\ p = Root
  \/ Vendor[t] # "" /\ IsVendor(ns, Vendor[t], p)

(* An array that no object took hangs nowhere; every other node is the     *)
(* entry point's object, "oem", a vendor's object, or what is shown of a   *)
(* type.                                                                   *)
Shaped(ns, n) ==
  \/ ~n.held /\ n.shows = "array" /\ n.name \in Types
  \/ n.name = "smbios_info" /\ n.shows = "object"
  \/ n.name = "oem" /\ n.shows = "object" /\ n.parent = Root
  \/ n.name \in Vendors /\ n.shows = "object" /\ IsOem(ns, n.parent)
  \/ /\ n.name \in Types /\ n.shows \in {"null", "array"}
     /\ IsHolder(ns, n.name, n.parent)

AllShaped(ns) == \A j \in 1 .. Len(ns) : Shaped(ns, ns[j])

TreeNodes(ns) == {j \in 1 .. Len(ns) : InTreeOf(ns, j)}

Unique(ns) ==
  \A i, j \in TreeNodes(ns) :
    ns[i].shows = "object" /\ ns[i].name = ns[j].name
      /\ ns[i].name # "smbios_info" => i = j

(* Every node keeps its shape when a well-shaped one is added. *)
LEMMA ShapesGrow ==
  ASSUME NEW ns, NEW x, NEW ms, NodesOK(ns), Grown(ns, x, ms),
         AllShaped(ns), Shaped(ns, x)
  PROVE  AllShaped(ms)
<1> DEFINE n == Len(ns)
<1>1. /\ n \in Nat /\ Len(ms) = n + 1 /\ ms[n + 1] = x
      /\ \A j \in 1 .. n : ms[j] = ns[j]
  BY DEF NodesOK, Grown
<1>2. \A p : p \in 1 .. Len(ns) => p \in 1 .. Len(ms) /\ ms[p] = ns[p]
  BY <1>1
<1>3. \A p : IsOem(ns, p) => IsOem(ms, p)
  BY <1>2, Zenon DEF IsOem
<1>4. \A v, p : IsVendor(ns, v, p) => IsVendor(ms, v, p)
  BY <1>2, Zenon DEF IsVendor
<1>5. \A t, p : IsHolder(ns, t, p) => IsHolder(ms, t, p)
  BY <1>4, Zenon DEF IsHolder
<1>6. \A y : Shaped(ns, y) => Shaped(ms, y)
  BY <1>3, <1>5, Zenon DEF Shaped
<1>7. ASSUME NEW j \in 1 .. Len(ms)
      PROVE  Shaped(ms, ms[j])
  <2>1. CASE j = n + 1
    BY <1>1, <1>6, <2>1
  <2>2. CASE j # n + 1
    <3>1. j \in 1 .. n
      BY <1>1, <2>2
    <3> QED BY <1>1, <1>6, <3>1 DEF AllShaped
  <2> QED BY <2>1, <2>2
<1> QED BY <1>7 DEF AllShaped

(* The nodes in the tree of the longer document. *)
LEMMA TreeGrows ==
  ASSUME NEW ns, NEW x, NEW ms, NodesOK(ns), Grown(ns, x, ms)
  PROVE  \A i \in TreeNodes(ms) :
           \/ i \in TreeNodes(ns) /\ ms[i] = ns[i]
           \/ i = Len(ns) + 1 /\ ms[i] = x /\ x.held /\ InTreeOf(ns, x.parent)
<1> DEFINE n == Len(ns)
<1>1. /\ n \in Nat /\ Len(ms) = n + 1 /\ ms[n + 1] = x
      /\ \A j \in 1 .. n : ms[j] = ns[j]
      /\ \A j \in 0 .. n : InTreeOf(ms, j) <=> InTreeOf(ns, j)
      /\ InTreeOf(ms, n + 1) <=> x.held /\ InTreeOf(ns, x.parent)
  BY DEF NodesOK, Grown
<1>2. ASSUME NEW i \in TreeNodes(ms)
      PROVE  \/ i \in TreeNodes(ns) /\ ms[i] = ns[i]
             \/ i = n + 1 /\ ms[i] = x /\ x.held /\ InTreeOf(ns, x.parent)
  <2>1. i \in 1 .. Len(ms) /\ InTreeOf(ms, i)
    BY DEF TreeNodes
  <2>2. i \in 1 .. n \/ i = n + 1
    BY <1>1, <2>1
  <2>3. CASE i \in 1 .. n
    <3>1. i \in 0 .. n
      BY <2>3
    <3>2. InTreeOf(ns, i)
      BY <1>1, <2>1, <3>1
    <3> QED BY <1>1, <2>3, <3>2 DEF TreeNodes
  <2>4. CASE i = n + 1
    BY <1>1, <2>1, <2>4, Zenon
  <2> QED BY <2>2, <2>3, <2>4
<1> QED BY <1>2

(* A new node that shares its name with no object keeps objects unique. *)
LEMMA UniqueGrows ==
  ASSUME NEW ns, NEW x, NEW ms, NodesOK(ns), Grown(ns, x, ms), Unique(ns),
         x.held /\ InTreeOf(ns, x.parent) =>
           \A j \in TreeNodes(ns) :
             ns[j].name = x.name =>
               \/ x.name = "smbios_info"
               \/ ns[j].shows # "object" /\ x.shows # "object"
  PROVE  Unique(ms)
<1>1. \A i \in TreeNodes(ms) :
        \/ i \in TreeNodes(ns) /\ ms[i] = ns[i]
        \/ i = Len(ns) + 1 /\ ms[i] = x /\ x.held /\ InTreeOf(ns, x.parent)
  BY TreeGrows
<1>2. ASSUME NEW i \in TreeNodes(ms), NEW j \in TreeNodes(ms),
             ms[i].shows = "object", ms[i].name = ms[j].name,
             ms[i].name # "smbios_info"
      PROVE  i = j
  <2>1. CASE i \in TreeNodes(ns) /\ j \in TreeNodes(ns)
    BY <1>1, <1>2, <2>1 DEF Unique, TreeNodes, Grown
  <2>2. CASE i \notin TreeNodes(ns) /\ j \notin TreeNodes(ns)
    BY <1>1, <2>2
  <2>3. CASE i \in TreeNodes(ns) /\ j \notin TreeNodes(ns)
    <3>1. ms[j] = x /\ x.held /\ InTreeOf(ns, x.parent)
      BY <1>1, <2>3
    <3>2. ms[i] = ns[i]
      BY <2>3 DEF TreeNodes, Grown
    <3> QED BY <1>2, <2>3, <3>1, <3>2
  <2>4. CASE i \notin TreeNodes(ns) /\ j \in TreeNodes(ns)
    <3>1. ms[i] = x /\ x.held /\ InTreeOf(ns, x.parent)
      BY <1>1, <2>4
    <3>2. ms[j] = ns[j]
      BY <2>4 DEF TreeNodes, Grown
    <3> QED BY <1>2, <2>4, <3>1, <3>2
  <2> QED BY <2>1, <2>2, <2>3, <2>4
<1> QED BY <1>2 DEF Unique

(* The nodes of a type. *)
NodesIn(ns, t) == {j \in TreeNodes(ns) : ns[j].name = t}

(* There are finitely many nodes of a name. *)
LEMMA NodesFinite ==
  ASSUME NEW ns, NodesOK(ns), NEW t
  PROVE  IsFiniteSet(NodesIn(ns, t)) /\ Cardinality(NodesIn(ns, t)) \in Nat
<1>1. Len(ns) \in Nat
  BY DEF NodesOK
<1>2. IsFiniteSet(1 .. Len(ns))
  BY <1>1, FS_Interval
<1>3. NodesIn(ns, t) \subseteq 1 .. Len(ns)
  BY DEF NodesIn, TreeNodes
<1>4. IsFiniteSet(NodesIn(ns, t))
  BY <1>2, <1>3, FS_Subset
<1> QED BY <1>4, FS_CardinalityType

(* A node of another name, or not in the tree, is not counted. *)
LEMMA CountOther ==
  ASSUME NEW ns, NEW x, NEW ms, NodesOK(ns), Grown(ns, x, ms), NEW t,
         x.name # t \/ ~x.held
  PROVE  Cardinality(NodesIn(ms, t)) = Cardinality(NodesIn(ns, t))
<1>1. \A i \in TreeNodes(ms) :
        \/ i \in TreeNodes(ns) /\ ms[i] = ns[i]
        \/ i = Len(ns) + 1 /\ ms[i] = x /\ x.held /\ InTreeOf(ns, x.parent)
  BY TreeGrows
<1>2. \A i \in TreeNodes(ns) : i \in TreeNodes(ms) /\ ms[i] = ns[i]
  BY DEF TreeNodes, Grown, NodesOK
<1>3. NodesIn(ms, t) = NodesIn(ns, t)
  BY <1>1, <1>2 DEF NodesIn
<1> QED BY <1>3

(* A node in the tree counts for its name. *)
LEMMA CountOne ==
  ASSUME NEW ns, NEW x, NEW ms, NodesOK(ns), Grown(ns, x, ms),
         x.held, InTreeOf(ns, x.parent)
  PROVE  Cardinality(NodesIn(ms, x.name))
           = Cardinality(NodesIn(ns, x.name)) + 1
<1> DEFINE n == Len(ns)
<1>1. \A i \in TreeNodes(ms) :
        \/ i \in TreeNodes(ns) /\ ms[i] = ns[i]
        \/ i = n + 1 /\ ms[i] = x
  BY TreeGrows
<1>2. \A i \in TreeNodes(ns) : i \in TreeNodes(ms) /\ ms[i] = ns[i]
  BY DEF TreeNodes, Grown, NodesOK
<1>3. n + 1 \in TreeNodes(ms) /\ ms[n + 1] = x
  BY DEF TreeNodes, Grown, NodesOK
<1>4. n + 1 \notin NodesIn(ns, x.name)
  BY DEF NodesIn, TreeNodes, NodesOK
<1> HIDE DEF n
<1>5. NodesIn(ms, x.name) = NodesIn(ns, x.name) \cup {n + 1}
  BY <1>1, <1>2, <1>3 DEF NodesIn
<1>6. IsFiniteSet(NodesIn(ns, x.name))
  BY NodesFinite
<1> QED BY <1>4, <1>5, <1>6, FS_AddElement

-----------------------------------------------------------------------------
(* The inductive invariant, in parts.                                      *)

Adding == pc \in {"oem", "vendor", "attach"}

Typed ==
  /\ table \in [Types -> 0 .. MaxEntries]
  /\ sets \in [Types -> -1 .. MaxEntries]
  /\ todo \in Seq(Types) /\ asked \in [Types -> Nat] /\ failures \in Nat
  /\ pc \in {"idle", "info", "next", "oem", "vendor", "attach"}
  /\ pc = "idle" => todo = << >>
  /\ Adding => /\ todo # << >>
               /\ item \in [shows : {"null", "array"}, value : Values]

(* A set that is there holds what the table holds. *)
FromTable == \A t \in Types : sets[t] = NULL \/ sets[t] = table[t]

Document == NodesOK(nodes) /\ AllShaped(nodes) /\ Unique(nodes)

(* Where the item goes: nowhere, or to the object it belongs to. *)
Place ==
  /\ at \subseteq 0 .. Len(nodes) /\ (at = {} \/ \E a : at = {a})
  /\ pc \in {"oem", "vendor"} => Vendor[Type] # ""
  /\ pc = "oem" => at = {Root}
  /\ pc = "vendor" => \A a \in at : IsOem(nodes, a)
  /\ pc = "attach" => \A a \in at : IsHolder(nodes, Type, a)

(* An array shows a set s, of k entries in the table, after f failures. *)
Shown(s, k, f, shows, value) ==
  shows = "array" =>
    s = k /\ \A n \in value : n <= k /\ (f = 0 => n = k)

Shows ==
  /\ \A j \in 1 .. Len(nodes) :
       nodes[j].name \in Types =>
         Shown(sets[nodes[j].name], table[nodes[j].name], failures,
               nodes[j].shows, nodes[j].value)
  /\ Adding => Shown(sets[Type], table[Type], failures,
                     item.shows, item.value)

(* Every serializer that was called has added its child, or is about to. *)
Pending(t) == IF Adding /\ Type = t THEN 1 ELSE 0

Counted ==
  failures = 0 =>
    /\ \A t \in Types : Cardinality(NodesIn(nodes, t)) + Pending(t) = asked[t]
    /\ Adding => at # {} /\ \A a \in at : InTreeOf(nodes, a)

IInv == Typed /\ FromTable /\ Document /\ Place /\ Shows /\ Counted

-----------------------------------------------------------------------------
(* Steps that leave the document alone.                                    *)

LEMMA HeadType ==
  ASSUME NEW s \in Seq(Types), s # << >>
  PROVE  Head(s) \in Types /\ Tail(s) \in Seq(Types)
OBVIOUS

(* There are finitely many types. *)
LEMMA TypesFinite == IsFiniteSet(Types)
<1> DEFINE P(n) == {t \in Types : \E k \in 1 .. n : t = Order[k]}
           S == {n \in Nat : n <= Len(Order) => IsFiniteSet(P(n))}
<1>1. Order \in Seq(Types) /\ Len(Order) \in Nat
  <2>1. Order \in Seq(Types)
    BY VendorAssumption
  <2> QED BY <2>1
<1>2. 0 \in S
  <2>1. P(0) = {}
    OBVIOUS
  <2> HIDE DEF P
  <2> QED BY <2>1, FS_EmptySet
<1>3. ASSUME NEW n \in Nat, n \in S
      PROVE  n + 1 \in S
  <2> SUFFICES ASSUME n + 1 <= Len(Order) PROVE IsFiniteSet(P(n + 1))
    OBVIOUS
  <2>1. n <= Len(Order)
    BY <1>1
  <2>2. IsFiniteSet(P(n))
    BY <1>3, <2>1
  <2>3. P(n + 1) = P(n) \cup {Order[n + 1]}
    <3>1. Order[n + 1] \in Types
      BY <1>1
    <3>2. \A k : k \in 1 .. n + 1 <=> k \in 1 .. n \/ k = n + 1
      OBVIOUS
    <3> QED BY <3>1, <3>2
  <2> HIDE DEF P
  <2>4. IsFiniteSet(P(n) \cup {Order[n + 1]})
    BY <2>2, FS_AddElement
  <2> QED BY <2>3, <2>4
<1> HIDE DEF S
<1>4. Len(Order) \in S
  BY <1>1, <1>2, <1>3, Induction
<1>5. IsFiniteSet(P(Len(Order)))
  BY <1>1, <1>4 DEF S
<1>6. Types = P(Len(Order))
  <2>1. DOMAIN Order = 1 .. Len(Order)
    BY <1>1
  <2> QED BY <2>1 DEF Types
<1> QED BY <1>5, <1>6

(* The initial states. *)
LEMMA InitHolds ==
  ASSUME Init
  PROVE  IInv
<1>1. /\ table \in [Types -> 0 .. MaxEntries]
      /\ pc = "idle" /\ todo = << >> /\ at = {}
      /\ nodes = << >> /\ failures = 0 /\ asked = [t \in Types |-> 0]
      /\ ~Adding
  BY DEF Init, Nothing, Adding
<1>2. FromTable /\ sets \in [Types -> -1 .. MaxEntries]
  <2>1. CASE loaded
    <3>1. PICK s \in SUBSET Types :
            sets = [t \in Types |-> IF t \in s THEN table[t] ELSE NULL]
      BY <2>1 DEF Init
    <3>2. \A t \in Types : sets[t] = NULL \/ sets[t] = table[t]
      BY <3>1
    <3>3. \A t \in Types : sets[t] \in -1 .. MaxEntries
      BY <1>1, <3>2, BoundsAssumption DEF NULL
    <3> QED BY <3>1, <3>2, <3>3 DEF FromTable
  <2>2. CASE ~loaded
    <3>1. sets = [t \in Types |-> NULL]
      BY <2>2 DEF Init
    <3> QED BY <3>1, BoundsAssumption DEF FromTable, NULL
  <2> QED BY <2>1, <2>2
<1>3. Typed
  BY <1>1, <1>2 DEF Typed
<1>4. Document
  BY <1>1 DEF Document, NodesOK, AllShaped, Unique, TreeNodes
<1>5. Place /\ Shows
  BY <1>1 DEF Place, Shows, Adding
<1>6. Counted
  <2>1. \A t \in Types : NodesIn(nodes, t) = {}
    BY <1>1 DEF NodesIn, TreeNodes
  <2>2. \A t \in Types : Pending(t) = 0 /\ asked[t] = 0
    BY <1>1 DEF Pending
  <2>3. \A t \in Types : Cardinality(NodesIn(nodes, t)) = 0
    BY <2>1, FS_EmptySet
  <2> QED BY <1>1, <2>2, <2>3 DEF Counted
<1> QED BY <1>2, <1>3, <1>4, <1>5, <1>6 DEF IInv

(* A call that adds nothing itself: it leaves the document alone. *)
LEMMA CallHolds ==
  ASSUME IInv, AddOne \/ ParseJSONAllRejects
  PROVE  IInv'
<1>1. /\ pc = "idle" /\ ~Adding /\ sets' = sets /\ table' = table
      /\ nodes' = nodes /\ asked' = asked /\ failures' = failures
      /\ at' = at /\ item' = item
      /\ \/ pc' = "next" /\ \E t \in Types : todo' = <<t>>
         \/ pc' = "idle" /\ todo' = todo
  BY DEF AddOne, ParseJSONAllRejects, Called, context, Adding
<1>2. Adding' = FALSE /\ pc' \in {"next", "idle"}
  BY <1>1 DEF Adding
<1>3. Typed'
  <2>1. \A t \in Types : <<t>> \in Seq(Types)
    OBVIOUS
  <2> QED BY <1>1, <1>2, <2>1 DEF IInv, Typed
<1>4. FromTable' /\ Document'
  BY <1>1 DEF IInv, FromTable, Document
<1>5. Place' /\ Shows'
  BY <1>1, <1>2 DEF IInv, Place, Shows, Shown, Adding
<1>6. Counted'
  BY <1>1, <1>2, Zenon DEF IInv, Counted, Pending
<1> QED BY <1>3, <1>4, <1>5, <1>6 DEF IInv

(* lazybiosParseJSONAll parses the sets that are missing, and no other. *)
LEMMA ParseAllHolds ==
  ASSUME IInv, ParseJSONAll
  PROVE  IInv'
<1>1. /\ pc = "idle" /\ ~Adding /\ table' = table
      /\ nodes' = nodes /\ asked' = asked
      /\ at' = at /\ item' = item /\ pc' = "info" /\ todo' = Order
  BY DEF ParseJSONAll, Called, context, Adding
<1>2. PICK failed \in SUBSET {t \in Types : sets[t] = NULL} :
        /\ failures' = failures + Cardinality(failed)
        /\ sets' = [t \in Types |-> IF t \in failed THEN NULL ELSE table[t]]
  BY DEF ParseJSONAll
<1>3. failures' \in Nat /\ (failures' = 0 => failures = 0)
  <2>1. failed \subseteq Types
    BY <1>2
  <2>2. IsFiniteSet(failed)
    BY <2>1, TypesFinite, FS_Subset
  <2>3. Cardinality(failed) \in Nat
    BY <2>2, FS_CardinalityType
  <2> QED BY <1>2, <2>3 DEF IInv, Typed
<1>4. Adding' = FALSE
  BY <1>1 DEF Adding
<1>5. FromTable' /\ sets' \in [Types -> -1 .. MaxEntries]
  <2>1. \A t \in Types : sets'[t] = NULL \/ sets'[t] = table[t]
    BY <1>2
  <2>2. \A t \in Types : sets'[t] \in -1 .. MaxEntries
    <3>1. MaxEntries \in Nat /\ \A t \in Types : table[t] \in 0 .. MaxEntries
      BY BoundsAssumption DEF IInv, Typed
    <3>2. NULL \in -1 .. MaxEntries
      BY <3>1 DEF NULL
    <3>3. \A k \in 0 .. MaxEntries : k \in -1 .. MaxEntries
      BY <3>1
    <3> QED BY <2>1, <3>1, <3>2, <3>3
  <2> QED BY <1>1, <1>2, <2>1, <2>2 DEF FromTable
<1>6. Typed'
  BY <1>1, <1>3, <1>4, <1>5, VendorAssumption DEF IInv, Typed
<1>7. \A t \in Types : sets[t] # NULL => sets'[t] = table[t]
  BY <1>2
<1>8. Document' /\ Place'
  BY <1>1, <1>4 DEF IInv, Document, Place
<1>9. Shows'
  <2>1. ASSUME NEW j \in 1 .. Len(nodes), nodes[j].name \in Types,
               nodes[j].shows = "array"
        PROVE  /\ sets'[nodes[j].name] = table[nodes[j].name]
               /\ \A n \in nodes[j].value :
                    /\ n <= table[nodes[j].name]
                    /\ failures' = 0 => n = table[nodes[j].name]
    <3>1. /\ sets[nodes[j].name] = table[nodes[j].name]
          /\ \A n \in nodes[j].value :
               /\ n <= table[nodes[j].name]
               /\ failures = 0 => n = table[nodes[j].name]
      BY <2>1 DEF IInv, Shows, Shown
    <3>2. table[nodes[j].name] # NULL
      BY <2>1, BoundsAssumption DEF IInv, Typed, NULL
    <3> QED BY <1>3, <1>7, <2>1, <3>1, <3>2
  <2> QED BY <1>1, <1>4, <2>1 DEF Shows, Shown
<1>10. Counted'
  BY <1>1, <1>3, <1>4, Zenon DEF IInv, Counted, Pending
<1> QED BY <1>5, <1>6, <1>8, <1>9, <1>10 DEF IInv

(* The end of a call. *)
LEMMA ReturnsHolds ==
  ASSUME IInv, Returns
  PROVE  IInv'
<1>1. /\ pc = "next" /\ ~Adding /\ sets' = sets /\ table' = table
      /\ nodes' = nodes /\ asked' = asked /\ failures' = failures
      /\ at' = at /\ item' = item /\ todo' = todo /\ todo = << >>
      /\ pc' = "idle"
  BY DEF Returns, context, Adding
<1>2. Adding' = FALSE
  BY <1>1 DEF Adding
<1>3. Typed' /\ FromTable' /\ Document'
  BY <1>1, <1>2 DEF IInv, Typed, FromTable, Document
<1>4. Place' /\ Shows'
  BY <1>1, <1>2 DEF IInv, Place, Shows, Shown
<1>5. Counted'
  BY <1>1, <1>2, Zenon DEF IInv, Counted, Pending
<1> QED BY <1>3, <1>4, <1>5 DEF IInv

(* A serializer begins: it has an item, and looks for its place. *)
LEMMA BeginHolds ==
  ASSUME IInv, NullSet \/ CreateArray
  PROVE  IInv'
<1>1. /\ pc = "next" /\ ~Adding /\ todo # << >> /\ sets' = sets
      /\ table' = table /\ nodes' = nodes /\ todo' = todo
      /\ at' = {Root} /\ pc' = First
      /\ asked' = [asked EXCEPT ![Type] = @ + 1]
  BY DEF NullSet, CreateArray, context, Adding
<1>2. Type \in Types /\ Type' = Type
  BY <1>1, HeadType DEF IInv, Typed, Type
<1>3. /\ Adding' = TRUE
      /\ \/ pc' = "attach" /\ Vendor[Type] = ""
         \/ pc' = "oem" /\ Vendor[Type] # ""
  BY <1>1 DEF First, Adding
<1>4. /\ failures' \in Nat /\ (failures' = 0 => failures = 0)
      /\ item' \in [shows : {"null", "array"}, value : Values]
      /\ Shown(sets[Type], table[Type], failures', item'.shows, item'.value)
  <2>1. CASE NullSet
    <3>1. item' = [shows |-> "null", value |-> {}] /\ failures' = failures
      BY <2>1 DEF NullSet, Nothing
    <3>2. {} \in Values
      BY DEF Values
    <3>3. item' \in [shows : {"null", "array"}, value : Values]
      BY <3>1, <3>2
    <3>4. item'.shows # "array"
      BY <3>1
    <3> QED BY <3>1, <3>3, <3>4 DEF IInv, Typed, Shown
  <2>2. CASE CreateArray
    <3>1. PICK n \in 0 .. sets[Type] :
            /\ failures' = failures + (sets[Type] - n)
            /\ item' = [shows |-> "array", value |-> {n}]
      BY <2>2 DEF CreateArray
    <3>2. sets[Type] = table[Type] /\ table[Type] \in Nat
      BY <1>2, <2>2 DEF IInv, Typed, FromTable, CreateArray
    <3>3. n \in Nat /\ n <= table[Type]
      BY <3>2
    <3>4. {n} \in Values
      BY <3>3 DEF Values
    <3>5. /\ failures' \in Nat /\ (failures' = 0 => failures = 0)
          /\ failures' = 0 => n = table[Type]
      BY <3>1, <3>2, <3>3 DEF IInv, Typed
    <3>6. item' \in [shows : {"null", "array"}, value : Values]
      BY <3>1, <3>4
    <3>7. item'.value = {n}
      BY <3>1
    <3> QED BY <1>1, <1>2, <3>2, <3>3, <3>5, <3>6, <3>7 DEF Shown
  <2> QED BY <2>1, <2>2
<1>5. Typed'
  <2>1. asked' \in [Types -> Nat]
    BY <1>1, <1>2 DEF IInv, Typed
  <2>2. pc' \in {"oem", "attach"}
    BY <1>3
  <2> QED BY <1>1, <1>4, <2>1, <2>2 DEF IInv, Typed
<1>6. FromTable' /\ Document'
  BY <1>1 DEF IInv, FromTable, Document
<1>7. Place'
  <2>1. at' \subseteq 0 .. Len(nodes') /\ \E a : at' = {a}
    <3>1. Len(nodes) \in Nat
      BY DEF IInv, Document, NodesOK
    <3>2. Root \in 0 .. Len(nodes)
      BY <3>1 DEF Root
    <3>3. at' \subseteq 0 .. Len(nodes')
      BY <1>1, <3>2
    <3> QED BY <1>1, <3>3
  <2>2. pc' = "attach" => IsHolder(nodes', Type', Root)
    BY <1>2, <1>3 DEF IsHolder
  <2> QED BY <1>1, <1>2, <1>3, <2>1, <2>2 DEF Place
<1>8. Shows'
  <2>1. ASSUME NEW j \in 1 .. Len(nodes), nodes[j].name \in Types
        PROVE  Shown(sets[nodes[j].name], table[nodes[j].name], failures',
                     nodes[j].shows, nodes[j].value)
    <3>1. Shown(sets[nodes[j].name], table[nodes[j].name], failures,
                nodes[j].shows, nodes[j].value)
      BY <2>1 DEF IInv, Shows
    <3> QED BY <1>4, <3>1 DEF Shown
  <2> QED BY <1>1, <1>2, <1>4, <2>1 DEF Shows
<1>9. Counted'
  <2> SUFFICES ASSUME failures' = 0
               PROVE  /\ \A t \in Types :
                           Cardinality(NodesIn(nodes', t)) + Pending(t)'
                             = asked'[t]
                      /\ at' # {} /\ \A a \in at' : InTreeOf(nodes', a)
    BY DEF Counted
  <2>1. \A t \in Types :
          Cardinality(NodesIn(nodes, t)) + Pending(t) = asked[t]
    BY <1>4 DEF IInv, Counted
  <2>2. ASSUME NEW t \in Types
        PROVE  Cardinality(NodesIn(nodes', t)) + Pending(t)' = asked'[t]
    <3>1. Pending(t) = 0 /\ Pending(t)' = IF Type = t THEN 1 ELSE 0
      BY <1>1, <1>2, <1>3 DEF Pending
    <3>2. asked'[t] = IF Type = t THEN asked[t] + 1 ELSE asked[t]
      BY <1>1, <1>2 DEF IInv, Typed
    <3>3. Cardinality(NodesIn(nodes, t)) \in Nat
      BY NodesFinite DEF IInv, Document
    <3> QED BY <1>1, <2>1, <3>1, <3>2, <3>3
  <2>3. InTreeOf(nodes', Root)
    BY <1>1, GroundedNodes, TreeRoot DEF IInv, Document, Root
  <2> QED BY <1>1, <2>2, <2>3
<1> QED BY <1>5, <1>6, <1>7, <1>8, <1>9 DEF IInv


(* A serializer that gets no array returns. *)
LEMMA NoArrayHolds ==
  ASSUME IInv, NoArray
  PROVE  IInv'
<1>1. /\ pc = "next" /\ ~Adding /\ todo # << >> /\ sets' = sets
      /\ table' = table /\ nodes' = nodes /\ todo' = Tail(todo)
      /\ at' = at /\ item' = item /\ pc' = pc
      /\ asked' = [asked EXCEPT ![Type] = @ + 1]
      /\ failures' = failures + 1
  BY DEF NoArray, MayFail, context, Adding
<1>2. Adding' = FALSE
  BY <1>1 DEF Adding
<1>3. failures' \in Nat /\ failures' # 0
  BY <1>1 DEF IInv, Typed
<1>4. Type \in Types /\ Tail(todo) \in Seq(Types)
  BY <1>1, HeadType DEF IInv, Typed, Type
<1>5. Typed'
  <2>1. asked' \in [Types -> Nat]
    BY <1>1, <1>4 DEF IInv, Typed
  <2> QED BY <1>1, <1>2, <1>3, <1>4, <2>1 DEF IInv, Typed
<1>6. FromTable' /\ Document' /\ Counted'
  BY <1>1, <1>3 DEF IInv, FromTable, Document, Counted
<1>7. Place'
  BY <1>1 DEF IInv, Place
<1>8. Shows'
  <2>1. ASSUME NEW j \in 1 .. Len(nodes), nodes[j].name \in Types
        PROVE  Shown(sets[nodes[j].name], table[nodes[j].name], failures',
                     nodes[j].shows, nodes[j].value)
    <3>1. Shown(sets[nodes[j].name], table[nodes[j].name], failures,
                nodes[j].shows, nodes[j].value)
      BY <2>1 DEF IInv, Shows
    <3> QED BY <1>3, <3>1 DEF Shown
  <2> QED BY <1>1, <1>2, <2>1 DEF Shows
<1> QED BY <1>5, <1>6, <1>7, <1>8 DEF IInv

(* Looking for an object: what is found is held, has the name looked for,  *)
(* and is an object.                                                       *)
LEMMA FoundObject ==
  ASSUME IInv, pc \in {"oem", "vendor"}, NEW p \in at,
         NEW i \in GetItem(p, ObjectName)
  PROVE  /\ i \in 1 .. Len(nodes) /\ nodes[i].held /\ nodes[i].parent = p
         /\ pc = "oem" => IsOem(nodes, i)
         /\ pc = "vendor" => IsVendor(nodes, Vendor[Type], i)
<1>1. nodes \in Seq(NodeSet) /\ AllShaped(nodes)
  BY DEF IInv, Document, NodesOK
<1>2. /\ i \in 1 .. Len(nodes) /\ nodes[i].held /\ nodes[i].parent = p
      /\ nodes[i].name = ObjectName
  BY <1>1 DEF GetItem
<1>3. Shaped(nodes, nodes[i])
  BY <1>1, <1>2 DEF AllShaped
<1>4. Type \in Types /\ Vendor[Type] # ""
  BY HeadType DEF IInv, Typed, Type, Place, Adding
<1>5. Vendor[Type] \in Vendors
  BY <1>4, VendorAssumption
<1>6. ObjectName \in Vendors \cup {"oem"}
  BY <1>5 DEF ObjectName
<1>7. ObjectName \notin Types /\ ObjectName # "smbios_info"
  BY <1>6, NamesAssumption
<1>8. nodes[i].shows = "object"
  BY <1>2, <1>3, <1>7 DEF Shaped
<1> QED BY <1>2, <1>8 DEF ObjectName, IsOem, IsVendor

(* The object is there, and is taken. *)
LEMMA FindHolds ==
  ASSUME IInv, FindObject
  PROVE  IInv'
<1>1. /\ pc \in {"oem", "vendor"} /\ Adding /\ sets' = sets
      /\ table' = table /\ nodes' = nodes /\ todo' = todo
      /\ item' = item /\ asked' = asked /\ failures' = failures
      /\ pc' = AfterObject
  BY DEF FindObject, context, Adding
<1>2. /\ Adding' = TRUE
      /\ \/ pc = "oem" /\ pc' = "vendor"
         \/ pc = "vendor" /\ pc' = "attach"
  BY <1>1 DEF AfterObject, Adding
<1>3. Type' = Type /\ Vendor[Type] # ""
  BY <1>1 DEF IInv, Place, Type
<1>4. \/ at = {} /\ at' = {}
      \/ \E p \in at : \E i \in GetItem(p, ObjectName) : at' = {i}
  BY DEF FindObject, Nothing
<1>5. Typed' /\ FromTable' /\ Document'
  <2>1. pc' \in {"vendor", "attach"}
    BY <1>2
  <2> QED BY <1>1, <1>2, <2>1 DEF IInv, Typed, FromTable, Document
<1>6. Shows'
  BY <1>1, <1>2, <1>3 DEF IInv, Shows
<1>7. CASE at = {} /\ at' = {}
  <2>1. Place'
    BY <1>1, <1>2, <1>3, <1>7 DEF Place
  <2>2. Counted'
    BY <1>1, <1>7 DEF IInv, Counted
  <2> QED BY <1>5, <1>6, <2>1, <2>2 DEF IInv
<1>8. ASSUME NEW p \in at, NEW i \in GetItem(p, ObjectName), at' = {i}
      PROVE  Place' /\ Counted'
  <2>1. /\ i \in 1 .. Len(nodes) /\ nodes[i].held /\ nodes[i].parent = p
        /\ pc = "oem" => IsOem(nodes, i)
        /\ pc = "vendor" => IsVendor(nodes, Vendor[Type], i)
    BY <1>1, FoundObject
  <2>2. at' \subseteq 0 .. Len(nodes') /\ \E a : at' = {a}
    <3>1. i \in 0 .. Len(nodes)
      BY <2>1
    <3> QED BY <1>1, <1>8, <3>1
  <2>3. pc' = "vendor" => \A a \in at' : IsOem(nodes', a)
    BY <1>1, <1>2, <1>8, <2>1
  <2>4. pc' = "attach" => \A a \in at' : IsHolder(nodes', Type', a)
    <3>1. pc = "vendor" => IsHolder(nodes, Type, i)
      BY <1>3, <2>1 DEF IsHolder
    <3> QED BY <1>1, <1>2, <1>3, <1>8, <3>1
  <2>5. Place'
    BY <1>2, <1>3, <2>2, <2>3, <2>4 DEF Place
  <2>6. ASSUME failures' = 0
        PROVE  /\ \A t \in Types :
                    Cardinality(NodesIn(nodes', t)) + Pending(t)' = asked'[t]
               /\ at' # {} /\ \A a \in at' : InTreeOf(nodes', a)
    <3>1. /\ \A t \in Types :
               Cardinality(NodesIn(nodes, t)) + Pending(t) = asked[t]
          /\ InTreeOf(nodes, p)
      BY <1>1, <2>6 DEF IInv, Counted
    <3>2. \A t \in Types : Pending(t)' = Pending(t)
      BY <1>1, <1>2, <1>3 DEF Pending
    <3>3. InTreeOf(nodes, i)
      BY <2>1, <3>1, GroundedNodes, TreeStep DEF IInv, Document
    <3> QED BY <1>1, <1>8, <3>1, <3>2, <3>3
  <2> QED BY <2>5, <2>6 DEF Counted
<1>9. CASE \E p \in at : \E i \in GetItem(p, ObjectName) : at' = {i}
  <2>1. Place' /\ Counted'
    BY <1>8, <1>9
  <2> QED BY <1>5, <1>6, <2>1 DEF IInv
<1> QED BY <1>4, <1>7, <1>9

(* Without an object the item has no place. *)
LEMMA NoObjectHolds ==
  ASSUME IInv, NoObject
  PROVE  IInv'
<1>1. /\ pc \in {"oem", "vendor"} /\ Adding /\ sets' = sets
      /\ table' = table /\ nodes' = nodes /\ todo' = todo
      /\ item' = item /\ asked' = asked /\ failures' = failures + 1
      /\ pc' = AfterObject /\ at' = {}
  BY DEF NoObject, MayFail, Nothing, context, Adding
<1>2. Adding' = TRUE /\ pc' \in {"vendor", "attach"}
  BY <1>1 DEF AfterObject, Adding
<1>3. Type' = Type /\ Vendor[Type] # ""
  BY <1>1 DEF IInv, Place, Type
<1>4. failures' \in Nat /\ failures' # 0
  BY <1>1 DEF IInv, Typed
<1>5. Typed' /\ FromTable' /\ Document' /\ Counted'
  BY <1>1, <1>2, <1>4 DEF IInv, Typed, FromTable, Document, Counted
<1>6. Place'
  BY <1>1, <1>2, <1>3 DEF Place
<1>7. Shows'
  <2>1. ASSUME NEW s, NEW k, NEW shows, NEW value,
               Shown(s, k, failures, shows, value)
        PROVE  Shown(s, k, failures', shows, value)
    BY <1>4, <2>1 DEF Shown
  <2> QED BY <1>1, <1>2, <1>3, <2>1 DEF IInv, Shows
<1> QED BY <1>5, <1>6, <1>7 DEF IInv

-----------------------------------------------------------------------------
(* Steps that add a node.                                                  *)

LEMMA PlacesGrow ==
  ASSUME NEW ns, NEW x, NEW ms, NodesOK(ns), Grown(ns, x, ms)
  PROVE  /\ Len(ns) \in Nat /\ Len(ms) = Len(ns) + 1
         /\ x.shows = "object" /\ x.name = "oem" => IsOem(ms, Len(ns) + 1)
         /\ x.shows = "object" => IsVendor(ms, x.name, Len(ns) + 1)
<1>1. /\ Len(ns) \in Nat /\ Len(ms) = Len(ns) + 1 /\ ms[Len(ns) + 1] = x
  BY DEF NodesOK, Grown
<1>2. Len(ns) + 1 \in 1 .. Len(ms)
  BY <1>1
<1> QED BY <1>1, <1>2, Zenon DEF IsOem, IsVendor

(* What every array shows stays right when a node is added that shows what *)
(* is right.                                                               *)
ArraysShow ==
  \A j \in 1 .. Len(nodes) :
    nodes[j].name \in Types =>
      Shown(sets[nodes[j].name], table[nodes[j].name], failures,
            nodes[j].shows, nodes[j].value)

(* Every array still shows its set when a node that does is added. *)
LEMMA ShowsGrow ==
  ASSUME IInv, NEW x, Grown(nodes, x, nodes'), sets' = sets, table' = table,
         failures' \in Nat, failures' = 0 => failures = 0,
         x.name \in Types => Shown(sets[x.name], table[x.name], failures,
                                   x.shows, x.value)
  PROVE  ArraysShow'
<1>1. ArraysShow
  BY DEF IInv, Shows, ArraysShow
<1>2. /\ Len(nodes) \in Nat /\ Len(nodes') = Len(nodes) + 1
      /\ nodes'[Len(nodes) + 1] = x
      /\ \A j \in 1 .. Len(nodes) : nodes'[j] = nodes[j]
  BY DEF IInv, Document, NodesOK, Grown
<1>3. ASSUME NEW s, NEW k, NEW shows, NEW value,
             Shown(s, k, failures, shows, value)
      PROVE  Shown(s, k, failures', shows, value)
  BY <1>3 DEF Shown
<1>4. ASSUME NEW j \in 1 .. Len(nodes'), nodes'[j].name \in Types
      PROVE  Shown(sets[nodes'[j].name], table[nodes'[j].name], failures',
                   nodes'[j].shows, nodes'[j].value)
  <2>1. CASE j = Len(nodes) + 1
    <3>1. nodes'[j] = x
      BY <1>2, <2>1
    <3>2. Shown(sets[x.name], table[x.name], failures', x.shows, x.value)
      BY <1>3, <1>4, <3>1
    <3> QED BY <3>1, <3>2
  <2>2. CASE j # Len(nodes) + 1
    <3>1. j \in 1 .. Len(nodes)
      BY <1>2, <2>2
    <3>2. nodes'[j] = nodes[j]
      BY <1>2, <3>1
    <3>3. Shown(sets[nodes[j].name], table[nodes[j].name], failures,
                nodes[j].shows, nodes[j].value)
      BY <1>1, <1>4, <3>1, <3>2 DEF ArraysShow
    <3>4. Shown(sets[nodes[j].name], table[nodes[j].name], failures',
                nodes[j].shows, nodes[j].value)
      BY <1>3, <3>3
    <3> QED BY <3>2, <3>4
  <2> QED BY <2>1, <2>2
<1> QED BY <1>4 DEF ArraysShow

(* The entry point is a node. *)
LEMMA InfoNode ==
  ASSUME NEW h \in BOOLEAN
  PROVE  Node("smbios_info", Root, h, "object", Is64Bit) \in NodeSet
<1>1. Is64Bit \in Values
  <2>1. \A k : CreateBool(k) \in BOOLEAN
    BY Zenon DEF CreateBool
  <2>2. \/ Is64Bit = {CreateBool(cJSON_True)}
        \/ Is64Bit = {CreateBool(cJSON_False)}
        \/ Is64Bit = {}
    BY Zenon DEF Is64Bit, Nothing
  <2>3. \A b : b \in BOOLEAN => {b} \subseteq BOOLEAN
    BY Zenon
  <2>4. /\ {CreateBool(cJSON_True)} \subseteq BOOLEAN
        /\ {CreateBool(cJSON_False)} \subseteq BOOLEAN
    BY <2>1, <2>3, Zenon
  <2>5. {} \subseteq BOOLEAN
    BY Zenon
  <2>6. Is64Bit \subseteq BOOLEAN
    BY <2>2, <2>4, <2>5, Zenon
  <2> QED BY <2>6, Zenon DEF Values
<1>2. "smbios_info" \in Names /\ Root \in Nat
  BY DEF Names, Root
<1> QED BY <1>1, <1>2 DEF Node, NodeSet

(* The entry point is added, or not. *)
LEMMA InfoHolds ==
  ASSUME IInv, AddInfo \/ InfoFails
  PROVE  IInv'
<1>1. /\ pc = "info" /\ ~Adding /\ sets' = sets /\ table' = table
      /\ todo' = todo /\ at' = at /\ item' = item /\ asked' = asked
      /\ pc' = "next"
  BY DEF AddInfo, InfoFails, context, Adding
<1>2. Adding' = FALSE
  BY <1>1 DEF Adding
<1>3. failures' \in Nat /\ (failures' = 0 => failures = 0)
  <2>1. failures' = failures \/ failures' = failures + 1
    BY DEF AddInfo, InfoFails, MayFail
  <2> QED BY <2>1 DEF IInv, Typed
<1>4. Typed' /\ FromTable'
  BY <1>1, <1>2, <1>3 DEF IInv, Typed, FromTable
<1>5. \/ nodes' = nodes
      \/ \E h \in BOOLEAN :
           nodes' = Append(nodes,
                           Node("smbios_info", Root, h, "object", Is64Bit))
  BY DEF AddInfo, InfoFails
<1>6. CASE nodes' = nodes
  <2>1. Document' /\ Place'
    BY <1>1, <1>6 DEF IInv, Document, Place
  <2>2. Shows'
    <3>1. ASSUME NEW s, NEW k, NEW shows, NEW value,
                 Shown(s, k, failures, shows, value)
          PROVE  Shown(s, k, failures', shows, value)
      BY <1>3, <3>1 DEF Shown
    <3> QED BY <1>1, <1>2, <1>6, <3>1 DEF IInv, Shows
  <2>3. Counted'
    BY <1>1, <1>2, <1>3, <1>6, Zenon DEF IInv, Counted, Pending
  <2> QED BY <1>4, <2>1, <2>2, <2>3 DEF IInv
<1>7. ASSUME NEW h \in BOOLEAN,
             nodes' = Append(nodes,
                             Node("smbios_info", Root, h, "object", Is64Bit))
      PROVE  IInv'
  <2>1. PICK x : x = Node("smbios_info", Root, h, "object", Is64Bit)
    OBVIOUS
  <2>2. /\ x \in NodeSet /\ x.name = "smbios_info" /\ x.shows = "object"
        /\ x.parent = 0
    BY <2>1, InfoNode DEF Node, Root
  <2>3. NodesOK(nodes) /\ AllShaped(nodes) /\ Unique(nodes)
        /\ Len(nodes) \in Nat
    BY DEF IInv, Document, NodesOK
  <2>4. Grown(nodes, x, nodes')
    <3>1. x.parent \in 0 .. Len(nodes)
      BY <2>2, <2>3
    <3> QED BY <1>7, <2>1, <2>2, <2>3, <3>1, AddNode
  <2>5. Document'
    <3>1. Shaped(nodes, x)
      BY <2>2 DEF Shaped
    <3>2. AllShaped(nodes')
      BY <2>3, <2>4, <3>1, ShapesGrow
    <3>3. Unique(nodes')
      BY <2>2, <2>3, <2>4, UniqueGrows
    <3> QED BY <2>4, <3>2, <3>3 DEF Document, Grown
  <2>6. x.name \notin Types
    BY <2>2, NamesAssumption
  <2>7. Shows'
    <3>1. ArraysShow'
      BY <1>1, <1>3, <2>4, <2>6, ShowsGrow
    <3> QED BY <1>2, <3>1 DEF Shows, ArraysShow
  <2>8. Place'
    <3>1. Len(nodes') = Len(nodes) + 1
      BY <2>4 DEF Grown
    <3>2. \A k \in 0 .. Len(nodes) : k \in 0 .. Len(nodes')
      BY <2>3, <3>1
    <3> QED BY <1>1, <3>2 DEF IInv, Place
  <2>9. Counted'
    <3>1. \A t \in Types :
            Cardinality(NodesIn(nodes', t)) = Cardinality(NodesIn(nodes, t))
      BY <2>3, <2>4, <2>6, CountOther
    <3> QED BY <1>1, <1>2, <1>3, <3>1, Zenon DEF IInv, Counted, Pending
  <2> QED BY <1>4, <2>5, <2>7, <2>8, <2>9 DEF IInv
<1> QED BY <1>5, <1>6, <1>7

(* The object looked for is nowhere in the tree when its parent is in the  *)
(* tree and does not have it.                                              *)
LEMMA NoSuchObject ==
  ASSUME IInv, pc \in {"oem", "vendor"}, NEW p \in at,
         GetItem(p, ObjectName) = {}, InTreeOf(nodes, p),
         NEW j \in TreeNodes(nodes), nodes[j].name = ObjectName
  PROVE  FALSE
<1>1. /\ nodes \in Seq(NodeSet) /\ AllShaped(nodes) /\ NodesOK(nodes)
      /\ Unique(nodes) /\ Grounded(nodes)
  BY GroundedNodes DEF IInv, Document, NodesOK
<1>2. j \in 1 .. Len(nodes) /\ InTreeOf(nodes, j)
  BY DEF TreeNodes
<1>3. nodes[j].held /\ InTreeOf(nodes, nodes[j].parent)
  BY <1>1, <1>2, TreeStep
<1>4. Shaped(nodes, nodes[j])
  BY <1>1, <1>2 DEF AllShaped
<1>5. Type \in Types /\ Vendor[Type] # ""
  BY HeadType DEF IInv, Typed, Type, Place, Adding
<1>6. Vendor[Type] \in Vendors
  BY <1>5, VendorAssumption
<1>7. nodes[j].parent # p
  BY <1>1, <1>2, <1>3 DEF GetItem
<1>8. CASE pc = "oem"
  <2>1. ObjectName = "oem" /\ p = Root
    BY <1>8 DEF ObjectName, IInv, Place
  <2>2. "oem" \notin Types /\ "oem" \notin Vendors /\ "oem" # "smbios_info"
    BY NamesAssumption
  <2>3. nodes[j].parent = Root
    BY <1>4, <2>1, <2>2 DEF Shaped
  <2> QED BY <1>7, <2>1, <2>3
<1>9. CASE pc = "vendor"
  <2>1. ObjectName = Vendor[Type] /\ IsOem(nodes, p)
    BY <1>9 DEF ObjectName, IInv, Place
  <2>2. /\ Vendor[Type] \notin Types /\ Vendor[Type] # "oem"
        /\ Vendor[Type] # "smbios_info"
    BY <1>6, NamesAssumption
  <2>3. IsOem(nodes, nodes[j].parent)
    BY <1>4, <2>1, <2>2 DEF Shaped
  <2>4. p \in TreeNodes(nodes) /\ nodes[j].parent \in TreeNodes(nodes)
    BY <1>3, <2>1, <2>3 DEF TreeNodes, IsOem
  <2>5. p = nodes[j].parent
    <3>1. /\ nodes[p].shows = "object" /\ nodes[p].name = "oem"
          /\ nodes[nodes[j].parent].name = "oem"
      BY <2>1, <2>3 DEF IsOem
    <3>2. "oem" # "smbios_info"
      OBVIOUS
    <3> QED BY <1>1, <2>4, <3>1, <3>2 DEF Unique
  <2> QED BY <1>7, <2>5
<1> QED BY <1>8, <1>9

(* The object is not there: it is created, and perhaps taken. *)
LEMMA CreateHolds ==
  ASSUME IInv, CreateObject
  PROVE  IInv'
<1>1. /\ pc \in {"oem", "vendor"} /\ Adding /\ sets' = sets
      /\ table' = table /\ todo' = todo /\ item' = item /\ asked' = asked
      /\ at' = {Len(nodes')} /\ pc' = AfterObject
  BY DEF CreateObject, context, Adding
<1>2. PICK p \in at, h \in BOOLEAN :
        /\ GetItem(p, ObjectName) = {}
        /\ IF h THEN UNCHANGED failures ELSE MayFail
        /\ nodes' = Append(nodes, Node(ObjectName, p, h, "object", {}))
  BY DEF CreateObject, Nothing
<1>3. /\ Adding' = TRUE
      /\ \/ pc = "oem" /\ pc' = "vendor" /\ ObjectName = "oem"
         \/ pc = "vendor" /\ pc' = "attach" /\ ObjectName = Vendor[Type]
  BY <1>1 DEF AfterObject, ObjectName, Adding
<1>4. Type' = Type /\ Type \in Types /\ Vendor[Type] # ""
  BY <1>1, HeadType DEF IInv, Typed, Place, Type, Adding
<1>5. Vendor[Type] \in Vendors
  BY <1>4, VendorAssumption
<1>6. failures' \in Nat /\ (failures' = 0 => failures = 0 /\ h)
  BY <1>2 DEF IInv, Typed, MayFail
<1>7. PICK x : x = Node(ObjectName, p, h, "object", {})
  OBVIOUS
<1>8. /\ NodesOK(nodes) /\ AllShaped(nodes) /\ Unique(nodes)
      /\ Len(nodes) \in Nat
  BY DEF IInv, Document, NodesOK
<1>9. p \in 0 .. Len(nodes) /\ p \in Nat /\ at = {p}
  <2>1. at \subseteq 0 .. Len(nodes) /\ (at = {} \/ \E a : at = {a})
    BY DEF IInv, Place
  <2>2. p \in 0 .. Len(nodes)
    BY <2>1
  <2>3. at = {p}
    BY <2>1
  <2> QED BY <2>2, <2>3
<1>10. /\ x \in NodeSet /\ x.name = ObjectName /\ x.shows = "object"
       /\ x.parent = p /\ x.held = h
  <2>1. ObjectName \in Names /\ {} \in Values
    BY <1>3, <1>5 DEF Names, Values
  <2> QED BY <1>7, <1>9, <2>1 DEF Node, NodeSet
<1>11. Grown(nodes, x, nodes')
  BY <1>2, <1>7, <1>8, <1>9, <1>10, AddNode
<1>12. Typed' /\ FromTable'
  <2>1. pc' \in {"vendor", "attach"}
    BY <1>3
  <2> QED BY <1>1, <1>6, <2>1 DEF IInv, Typed, FromTable
<1>13. Document'
  <2>1. Shaped(nodes, x)
    <3>1. CASE pc = "oem"
      <4>1. x.name = "oem" /\ p = Root
        BY <1>3, <1>10, <3>1 DEF IInv, Place
      <4> QED BY <1>10, <4>1 DEF Shaped
    <3>2. CASE pc = "vendor"
      <4>1. x.name \in Vendors /\ IsOem(nodes, p)
        BY <1>3, <1>5, <1>10, <3>2 DEF IInv, Place
      <4> QED BY <1>10, <4>1 DEF Shaped
    <3> QED BY <1>1, <3>1, <3>2
  <2>2. AllShaped(nodes')
    BY <1>8, <1>11, <2>1, ShapesGrow
  <2>3. InTreeOf(nodes, x.parent) =>
          \A j \in TreeNodes(nodes) : nodes[j].name # x.name
    BY <1>1, <1>2, <1>10, NoSuchObject
  <2>4. Unique(nodes')
    BY <1>8, <1>11, <2>3, UniqueGrows
  <2> QED BY <1>11, <2>2, <2>4 DEF Document, Grown
<1>14. x.name \notin Types
  BY <1>3, <1>5, <1>10, NamesAssumption
<1>15. Shows'
  <2>1. ArraysShow'
    BY <1>1, <1>6, <1>11, <1>14, ShowsGrow
  <2>2. Shown(sets[Type], table[Type], failures, item.shows, item.value)
    BY <1>1 DEF IInv, Shows
  <2>3. Shown(sets[Type], table[Type], failures', item.shows, item.value)
    BY <1>6, <2>2 DEF Shown
  <2> QED BY <1>1, <1>4, <2>1, <2>3 DEF Shows, ArraysShow
<1>16. /\ Len(nodes') = Len(nodes) + 1
       /\ pc = "oem" => IsOem(nodes', Len(nodes'))
       /\ pc = "vendor" => IsVendor(nodes', Vendor[Type], Len(nodes'))
  BY <1>3, <1>8, <1>10, <1>11, PlacesGrow
<1>17. Place'
  <2>1. at' \subseteq 0 .. Len(nodes')
    <3>1. Len(nodes') \in 0 .. Len(nodes')
      BY <1>8, <1>16
    <3> QED BY <1>1, <3>1
  <2>2. pc' = "vendor" => \A a \in at' : IsOem(nodes', a)
    BY <1>1, <1>3, <1>16
  <2>3. pc' = "attach" => \A a \in at' : IsHolder(nodes', Type', a)
    BY <1>1, <1>3, <1>4, <1>16 DEF IsHolder
  <2>4. \E a : at' = {a}
    BY <1>1
  <2> QED BY <1>3, <1>4, <2>1, <2>2, <2>3, <2>4 DEF Place
<1>18. Counted'
  <2>1. ASSUME failures' = 0
        PROVE  /\ \A t \in Types :
                    Cardinality(NodesIn(nodes', t)) + Pending(t)' = asked'[t]
               /\ at' # {} /\ \A a \in at' : InTreeOf(nodes', a)
    <3>1. /\ \A t \in Types :
               Cardinality(NodesIn(nodes, t)) + Pending(t) = asked[t]
          /\ InTreeOf(nodes, p) /\ h
      BY <1>1, <1>6, <2>1 DEF IInv, Counted
    <3>2. \A t \in Types : Pending(t)' = Pending(t)
      BY <1>1, <1>3, <1>4 DEF Pending
    <3>3. \A t \in Types :
            Cardinality(NodesIn(nodes', t)) = Cardinality(NodesIn(nodes, t))
      BY <1>8, <1>11, <1>14, CountOther
    <3>4. InTreeOf(nodes', Len(nodes'))
      BY <1>10, <1>11, <3>1 DEF Grown
    <3> QED BY <1>1, <3>1, <3>2, <3>3, <3>4
  <2> QED BY <2>1 DEF Counted
<1> QED BY <1>12, <1>13, <1>15, <1>17, <1>18 DEF IInv


(* A type's item: attached to its place, or left over. *)
LEMMA ItemNode ==
  ASSUME NEW t \in Types, NEW p \in Nat, NEW h \in BOOLEAN,
         NEW shows \in {"null", "array"}, NEW value \in Values
  PROVE  Node(t, p, h, shows, value) \in NodeSet
BY DEF Node, NodeSet, Names

(* The item goes into its object. *)
LEMMA AttachHolds ==
  ASSUME IInv, Attach
  PROVE  IInv'
<1>1. /\ pc = "attach" /\ Adding /\ sets' = sets /\ table' = table
      /\ todo' = Tail(todo) /\ item' = item /\ asked' = asked
      /\ at' = at /\ failures' = failures /\ pc' = "next"
  BY DEF Attach, context, Adding
<1>2. PICK p \in at :
        nodes' = Append(nodes, Node(Type, p, TRUE, item.shows, item.value))
  BY DEF Attach
<1>3. Adding' = FALSE
  BY <1>1 DEF Adding
<1>4. /\ Type \in Types /\ Tail(todo) \in Seq(Types)
      /\ item.shows \in {"null", "array"} /\ item.value \in Values
  BY <1>1, HeadType DEF IInv, Typed, Type
<1>5. /\ NodesOK(nodes) /\ AllShaped(nodes) /\ Unique(nodes)
      /\ Len(nodes) \in Nat /\ failures \in Nat
  BY DEF IInv, Document, NodesOK, Typed
<1>6. p \in 0 .. Len(nodes) /\ p \in Nat
  <2>1. at \subseteq 0 .. Len(nodes)
    BY DEF IInv, Place
  <2>2. p \in 0 .. Len(nodes)
    BY <2>1
  <2> QED BY <2>2
<1>7. PICK x : x = Node(Type, p, TRUE, item.shows, item.value)
  OBVIOUS
<1>8. /\ x \in NodeSet /\ x.name = Type /\ x.shows = item.shows
      /\ x.parent = p /\ x.held = TRUE /\ x.value = item.value
  BY <1>4, <1>6, <1>7, ItemNode DEF Node
<1>9. Grown(nodes, x, nodes')
  BY <1>2, <1>5, <1>6, <1>7, <1>8, AddNode
<1>10. Typed' /\ FromTable'
  BY <1>1, <1>3, <1>4 DEF IInv, Typed, FromTable
<1>11. Document'
  <2>1. Shaped(nodes, x)
    <3>1. IsHolder(nodes, Type, p)
      BY <1>1 DEF IInv, Place
    <3> QED BY <1>4, <1>8, <3>1 DEF Shaped
  <2>2. AllShaped(nodes')
    BY <1>5, <1>9, <2>1, ShapesGrow
  <2>3. \A j \in TreeNodes(nodes) :
          nodes[j].name = x.name =>
            nodes[j].shows # "object" /\ x.shows # "object"
    <3>1. x.shows # "object" /\ x.name \in Types
      BY <1>4, <1>8
    <3>2. ASSUME NEW j \in TreeNodes(nodes), nodes[j].name \in Types
          PROVE  nodes[j].shows # "object"
      <4>1. Shaped(nodes, nodes[j])
        BY <1>5 DEF AllShaped, TreeNodes
      <4>2. /\ nodes[j].name \notin Vendors /\ nodes[j].name # "oem"
            /\ nodes[j].name # "smbios_info"
        BY <3>2, NamesAssumption
      <4> QED BY <4>1, <4>2 DEF Shaped
    <3> QED BY <3>1, <3>2
  <2>4. Unique(nodes')
    BY <1>5, <1>9, <2>3, UniqueGrows
  <2> QED BY <1>9, <2>2, <2>4 DEF Document, Grown
<1>12. Shows'
  <2>1. Shown(sets[Type], table[Type], failures, item.shows, item.value)
    BY <1>1 DEF IInv, Shows
  <2>2. ArraysShow'
    BY <1>1, <1>5, <1>8, <1>9, <2>1, ShowsGrow
  <2> QED BY <1>3, <2>2 DEF Shows, ArraysShow
<1>13. Place'
  <2>1. Len(nodes') = Len(nodes) + 1
    BY <1>9 DEF Grown
  <2>2. \A k \in 0 .. Len(nodes) : k \in 0 .. Len(nodes')
    BY <1>5, <2>1
  <2> QED BY <1>1, <2>2 DEF IInv, Place
<1>14. Counted'
  <2>1. ASSUME failures' = 0, NEW t \in Types
        PROVE  Cardinality(NodesIn(nodes', t)) + Pending(t)' = asked'[t]
    <3>1. /\ Cardinality(NodesIn(nodes, t)) + Pending(t) = asked[t]
          /\ InTreeOf(nodes, p)
      BY <1>1, <2>1 DEF IInv, Counted
    <3>2. Pending(t) = (IF Type = t THEN 1 ELSE 0) /\ Pending(t)' = 0
      BY <1>1, <1>3 DEF Pending
    <3>3. Cardinality(NodesIn(nodes, t)) \in Nat
      BY <1>5, NodesFinite
    <3>4. CASE Type = t
      <4>1. Cardinality(NodesIn(nodes', t))
              = Cardinality(NodesIn(nodes, t)) + 1
        BY <1>5, <1>8, <1>9, <3>1, <3>4, CountOne
      <4> QED BY <1>1, <3>1, <3>2, <3>3, <3>4, <4>1
    <3>5. CASE Type # t
      <4>1. Cardinality(NodesIn(nodes', t)) = Cardinality(NodesIn(nodes, t))
        BY <1>5, <1>8, <1>9, <3>5, CountOther
      <4> QED BY <1>1, <3>1, <3>2, <3>3, <3>5, <4>1
    <3> QED BY <3>4, <3>5
  <2> QED BY <1>3, <2>1 DEF Counted
<1> QED BY <1>10, <1>11, <1>12, <1>13, <1>14 DEF IInv

(* The item is lost. *)
LEMMA AttachFailsHolds ==
  ASSUME IInv, AttachFails
  PROVE  IInv'
<1>1. /\ pc = "attach" /\ Adding /\ sets' = sets /\ table' = table
      /\ todo' = Tail(todo) /\ item' = item /\ asked' = asked
      /\ at' = at /\ pc' = "next"
      /\ IF at = {} THEN failures' = failures ELSE failures' = failures + 1
  BY DEF AttachFails, MayFail, Nothing, context, Adding
<1>2. Adding' = FALSE
  BY <1>1 DEF Adding
<1>3. /\ Type \in Types /\ Tail(todo) \in Seq(Types)
      /\ item.shows \in {"null", "array"} /\ item.value \in Values
  BY <1>1, HeadType DEF IInv, Typed, Type
<1>4. /\ NodesOK(nodes) /\ AllShaped(nodes) /\ Unique(nodes)
      /\ Len(nodes) \in Nat /\ failures \in Nat
  BY DEF IInv, Document, NodesOK, Typed
<1>5. failures' \in Nat /\ failures' # 0
  <2>1. at = {} => failures # 0
    BY <1>1 DEF IInv, Counted
  <2> QED BY <1>1, <1>4, <2>1
<1>6. Typed' /\ FromTable' /\ Counted'
  BY <1>1, <1>2, <1>3, <1>5 DEF IInv, Typed, FromTable, Counted
<1>7. \/ nodes' = nodes
      \/ /\ item.shows = "array"
         /\ nodes' = Append(nodes, Node(Type, Root, FALSE, "array",
                                        item.value))
  BY <1>3 DEF AttachFails
<1>8. CASE nodes' = nodes
  <2>1. Document' /\ Place'
    BY <1>1, <1>8 DEF IInv, Document, Place
  <2>2. Shows'
    <3>1. ASSUME NEW s, NEW k, NEW shows, NEW value,
                 Shown(s, k, failures, shows, value)
          PROVE  Shown(s, k, failures', shows, value)
      BY <1>5, <3>1 DEF Shown
    <3> QED BY <1>1, <1>2, <1>8, <3>1 DEF IInv, Shows
  <2> QED BY <1>6, <2>1, <2>2 DEF IInv
<1>9. CASE /\ item.shows = "array"
           /\ nodes' = Append(nodes,
                              Node(Type, Root, FALSE, "array", item.value))
  <2>1. PICK x : x = Node(Type, Root, FALSE, "array", item.value)
    OBVIOUS
  <2>2. /\ x \in NodeSet /\ x.name = Type /\ x.shows = "array"
        /\ x.parent = 0 /\ x.held = FALSE /\ x.value = item.value
    <3>1. Root \in Nat /\ Root = 0 /\ FALSE \in BOOLEAN
      BY DEF Root
    <3>2. x \in NodeSet
      BY <1>3, <2>1, <3>1, ItemNode
    <3> QED BY <2>1, <3>1, <3>2 DEF Node
  <2>3. Grown(nodes, x, nodes')
    <3>1. x.parent \in 0 .. Len(nodes)
      BY <1>4, <2>2
    <3> QED BY <1>4, <1>9, <2>1, <2>2, <3>1, AddNode
  <2>4. Document'
    <3>1. Shaped(nodes, x)
      BY <1>3, <2>2 DEF Shaped
    <3>2. AllShaped(nodes')
      BY <1>4, <2>3, <3>1, ShapesGrow
    <3>3. Unique(nodes')
      BY <1>4, <2>2, <2>3, UniqueGrows
    <3> QED BY <2>3, <3>2, <3>3 DEF Document, Grown
  <2>5. Shows'
    <3>1. Shown(sets[Type], table[Type], failures, "array", item.value)
      BY <1>1, <1>9 DEF IInv, Shows
    <3>2. ArraysShow'
      BY <1>1, <1>5, <2>2, <2>3, <3>1, ShowsGrow
    <3> QED BY <1>2, <3>2 DEF Shows, ArraysShow
  <2>6. Place'
    <3>1. Len(nodes') = Len(nodes) + 1
      BY <2>3 DEF Grown
    <3>2. \A k \in 0 .. Len(nodes) : k \in 0 .. Len(nodes')
      BY <1>4, <3>1
    <3> QED BY <1>1, <3>2 DEF IInv, Place
  <2> QED BY <1>6, <2>4, <2>5, <2>6 DEF IInv
<1> QED BY <1>7, <1>8, <1>9

(* A step that changes nothing. *)
LEMMA StutterHolds ==
  ASSUME IInv, UNCHANGED vars
  PROVE  IInv'
<1>1. /\ pc' = pc /\ sets' = sets /\ table' = table /\ todo' = todo
      /\ item' = item /\ asked' = asked /\ at' = at /\ failures' = failures
      /\ nodes' = nodes /\ (Adding' <=> Adding) /\ Type' = Type
  BY DEF vars, context, Adding, Type
<1>2. Typed' /\ FromTable' /\ Document'
  BY <1>1 DEF IInv, Typed, FromTable, Document
<1>3. Place' /\ Shows'
  BY <1>1 DEF IInv, Place, Shows
<1>4. Counted'
  BY <1>1, Zenon DEF IInv, Counted, Pending
<1> QED BY <1>2, <1>3, <1>4 DEF IInv

(* The invariant holds after any calls and any failures, for any types,    *)
(* vendors and tables.                                                     *)
THEOREM DocumentInvariant == Spec => []IInv
<1>1. Init => IInv
  BY InitHolds
<1>2. IInv /\ [Next]_vars => IInv'
  BY CallHolds, ParseAllHolds, ReturnsHolds, InfoHolds, BeginHolds,
     NoArrayHolds, FindHolds, CreateHolds, NoObjectHolds, AttachHolds,
     AttachFailsHolds, StutterHolds DEF Next
<1> QED BY <1>1, <1>2, PTL DEF Spec

-----------------------------------------------------------------------------
(* What follows.                                                           *)

LEMMA InTreeIs ==
  ASSUME NEW i
  PROVE  InTree(i) <=> InTreeOf(nodes, i)
BY DEF InTree, InTreeOf, TreeOf

(* The tree of the model is the one of the invariant. *)
LEMMA TreeIs ==
  ASSUME IInv
  PROVE  Tree = TreeNodes(nodes) /\ \A t : NodesOf(t) = NodesIn(nodes, t)
<1>1. DOMAIN nodes = 1 .. Len(nodes)
  BY DEF IInv, Document, NodesOK
<1>2. Tree = TreeNodes(nodes)
  BY <1>1, InTreeIs, Zenon DEF Tree, TreeNodes
<1> QED BY <1>2, Zenon DEF NodesOf, NodesIn

(* The invariant implies the type invariant. *)
LEMMA TypeFollows ==
  ASSUME IInv
  PROVE  TypeOK
<1>1. nodes \in Seq(NodeSet) /\ DOMAIN nodes = 1 .. Len(nodes)
  BY DEF IInv, Document, NodesOK
<1>2. \A k \in DOMAIN todo : todo[k] \in Types
  BY DEF IInv, Typed
<1>3. at \subseteq 0 .. Len(nodes) /\ Cardinality(at) <= 1
  <2>1. at \subseteq 0 .. Len(nodes) /\ (at = {} \/ \E a : at = {a})
    BY DEF IInv, Place
  <2>2. Cardinality(at) = 0 \/ Cardinality(at) = 1
    BY <2>1, FS_EmptySet, FS_Singleton
  <2>3. Cardinality(at) <= 1
    BY <2>2
  <2> QED BY <2>1, <2>3
<1>4. \A i \in DOMAIN nodes :
        /\ nodes[i].parent \in 0 .. i - 1
        /\ nodes[i].shows \in {"null", "array", "object"}
  <2>1. \A i \in 1 .. Len(nodes) : nodes[i] \in NodeSet
    BY <1>1, ElementOfSeq
  <2>2. \A i \in 1 .. Len(nodes) : nodes[i].parent \in 0 .. i - 1
    BY DEF IInv, Document, NodesOK
  <2> QED BY <1>1, <2>1, <2>2 DEF NodeSet
<1> QED BY <1>2, <1>3, <1>4 DEF IInv, Typed, TypeOK

(* It implies that no two objects share a place and a name. *)
LEMMA OneObjectFollows ==
  ASSUME IInv
  PROVE  OneObjectPerVendor
<1>1. Unique(nodes)
  BY DEF IInv, Document
<1> QED BY <1>1, TypeFollows, TreeIs DEF OneObjectPerVendor, Unique

(* It implies that an array shows its set, where it belongs. *)
LEMMA ShowsFollows ==
  ASSUME IInv
  PROVE  ShowsTheSet
<1>1. SUFFICES ASSUME NEW t \in Types, NEW i \in NodesIn(nodes, t)
               PROVE  /\ nodes[i].shows = "array" =>
                           /\ sets[t] = table[t]
                           /\ \A n \in nodes[i].value :
                                n <= table[t] /\ (failures = 0 => n = table[t])
                      /\ PathOf(i) = IF Vendor[t] = "" THEN <<>>
                                     ELSE <<"oem", Vendor[t]>>
  BY TreeIs DEF ShowsTheSet
<1>2. /\ NodesOK(nodes) /\ AllShaped(nodes) /\ Grounded(nodes)
      /\ i \in 1 .. Len(nodes) /\ InTreeOf(nodes, i) /\ nodes[i].name = t
  BY <1>1, GroundedNodes DEF IInv, Document, NodesIn, TreeNodes
<1>3. Shown(sets[t], table[t], failures, nodes[i].shows, nodes[i].value)
  BY <1>1, <1>2 DEF IInv, Shows
<1>4. nodes[i].held /\ InTreeOf(nodes, nodes[i].parent)
  BY <1>2, TreeStep
<1>5. IsHolder(nodes, t, nodes[i].parent)
  <2>1. Shaped(nodes, nodes[i])
    BY <1>2 DEF AllShaped
  <2>2. t \notin Vendors /\ t # "oem" /\ t # "smbios_info"
    BY <1>1, NamesAssumption
  <2> QED BY <1>2, <1>4, <2>1, <2>2 DEF Shaped
<1> DEFINE up == nodes[i].parent
<1>6. CASE Vendor[t] = ""
  <2>1. up = Root
    BY <1>5, <1>6 DEF IsHolder
  <2>2. PathOf(i) = << >>
    BY <2>1, Zenon DEF PathOf
  <2> QED BY <1>3, <1>6, <2>2 DEF Shown
<1>7. CASE Vendor[t] # ""
  <2>1. IsVendor(nodes, Vendor[t], up)
    BY <1>5, <1>7 DEF IsHolder
  <2>2. up \in 1 .. Len(nodes) /\ nodes[up].name = Vendor[t]
    BY <2>1 DEF IsVendor
  <2>3. Vendor[t] \in Vendors
    BY <1>1, <1>7, VendorAssumption
  <2>4. /\ Vendor[t] \notin Types /\ Vendor[t] # "oem"
        /\ Vendor[t] # "smbios_info"
    BY <2>3, NamesAssumption
  <2>5. Shaped(nodes, nodes[up])
    BY <1>2, <2>2 DEF AllShaped
  <2>6. nodes[nodes[up].parent].name = "oem"
    BY <2>2, <2>4, <2>5 DEF Shaped, IsOem
  <2>7. up # Root
    BY <2>2 DEF Root
  <2>8. PathOf(i) = <<nodes[nodes[up].parent].name, nodes[up].name>>
    BY <2>7, Zenon DEF PathOf
  <2> QED BY <1>3, <1>7, <2>2, <2>6, <2>8 DEF Shown
<1> QED BY <1>6, <1>7

(* It implies that every call that succeeded added one child. *)
LEMMA CountFollows ==
  ASSUME IInv
  PROVE  EachCallAddsOne
<1>1. ASSUME pc = "idle", failures = 0, NEW t \in Types
      PROVE  Cardinality(NodesOf(t)) = asked[t]
  <2>1. Cardinality(NodesIn(nodes, t)) + Pending(t) = asked[t]
    BY <1>1 DEF IInv, Counted
  <2>2. Pending(t) = 0
    BY <1>1 DEF Pending, Adding
  <2>3. Cardinality(NodesIn(nodes, t)) \in Nat
    BY NodesFinite DEF IInv, Document
  <2>4. Cardinality(NodesIn(nodes, t)) = asked[t]
    BY <2>1, <2>2, <2>3
  <2> QED BY <2>4, TreeIs
<1> QED BY <1>1 DEF EachCallAddsOne

(* The client's calls and the serializers keep the document's variables    *)
(* what they should be.                                                    *)
THEOREM TypeCorrect == Spec => []TypeOK
BY TypeFollows, DocumentInvariant, PTL

(* oem_vendor_object never makes a second "oem" or a second object of a    *)
(* vendor, whichever serializers run, in whatever order, and fail.         *)
THEOREM VendorsMeet == Spec => []OneObjectPerVendor
BY OneObjectFollows, DocumentInvariant, PTL

(* What the document shows of a type is the set the context has, in the    *)
(* object where it belongs.                                                *)
THEOREM DocumentShows == Spec => []ShowsTheSet
BY ShowsFollows, DocumentInvariant, PTL

(* Without failures every call of a serializer adds one child. *)
THEOREM CallsCounted == Spec => []EachCallAddsOne
BY CountFollows, DocumentInvariant, PTL

-----------------------------------------------------------------------------
(* What a failure costs.                                                   *)

(* An item on its way to an object in the tree. *)
Arrives == Adding /\ at # {} /\ \A a \in at : InTreeOf(nodes, a)

(* The children of the types. *)
ChildNodes(ns) == {j \in TreeNodes(ns) : ns[j].name \in Types}

(* Each call of a serializer has a child, a failure that it is charged to, *)
(* or an item that will be its child unless something fails.               *)
Cost ==
  /\ IsFiniteSet(Requests)
  /\ Cardinality(Requests)
       <= Cardinality(ChildNodes(nodes)) + failures
            + (IF Arrives THEN 1 ELSE 0)

LEMMA ChildrenFinite ==
  ASSUME NEW ns, NodesOK(ns)
  PROVE  IsFiniteSet(ChildNodes(ns)) /\ Cardinality(ChildNodes(ns)) \in Nat
<1>1. Len(ns) \in Nat
  BY DEF NodesOK
<1>2. IsFiniteSet(1 .. Len(ns))
  BY <1>1, FS_Interval
<1>3. ChildNodes(ns) \subseteq 1 .. Len(ns)
  BY DEF ChildNodes, TreeNodes
<1>4. IsFiniteSet(ChildNodes(ns))
  BY <1>2, <1>3, FS_Subset
<1> QED BY <1>4, FS_CardinalityType

(* A node that is added is a child when it has the name of a type, is held *)
(* by its parent, and its parent is in the tree.                           *)
LEMMA ChildrenGrow ==
  ASSUME NEW ns, NEW x, NEW ms, NodesOK(ns), Grown(ns, x, ms)
  PROVE  Cardinality(ChildNodes(ms)) =
           Cardinality(ChildNodes(ns))
             + (IF x.name \in Types /\ x.held /\ InTreeOf(ns, x.parent)
                THEN 1 ELSE 0)
<1> DEFINE n == Len(ns)
           child == x.name \in Types /\ x.held /\ InTreeOf(ns, x.parent)
<1>1. \A i \in TreeNodes(ms) :
        \/ i \in TreeNodes(ns) /\ ms[i] = ns[i]
        \/ i = n + 1 /\ ms[i] = x /\ x.held /\ InTreeOf(ns, x.parent)
  BY TreeGrows
<1>2. \A i \in TreeNodes(ns) : i \in TreeNodes(ms) /\ ms[i] = ns[i]
  BY DEF TreeNodes, Grown, NodesOK
<1>3. n + 1 \notin ChildNodes(ns)
  BY DEF ChildNodes, TreeNodes, NodesOK
<1>4. IsFiniteSet(ChildNodes(ns)) /\ Cardinality(ChildNodes(ns)) \in Nat
  BY ChildrenFinite
<1>5. CASE child
  <2>1. n + 1 \in TreeNodes(ms) /\ ms[n + 1] = x
    BY <1>5 DEF TreeNodes, Grown, NodesOK
  <2> HIDE DEF n
  <2>2. ChildNodes(ms) = ChildNodes(ns) \cup {n + 1}
    BY <1>1, <1>2, <1>5, <2>1 DEF ChildNodes
  <2> QED BY <1>3, <1>4, <1>5, <2>2, FS_AddElement
<1>6. CASE ~child
  <2>1. ChildNodes(ms) = ChildNodes(ns)
    BY <1>1, <1>2, <1>6 DEF ChildNodes
  <2> QED BY <1>4, <1>6, <2>1
<1> QED BY <1>5, <1>6

(* A call of a serializer is one request more. *)
LEMMA AskOne ==
  ASSUME IsFiniteSet(Requests), asked \in [Types -> Nat], NEW u \in Types,
         asked' = [asked EXCEPT ![u] = @ + 1]
  PROVE  /\ IsFiniteSet(Requests') /\ Cardinality(Requests) \in Nat
         /\ Cardinality(Requests') = Cardinality(Requests) + 1
<1> DEFINE r == <<u, asked[u] + 1>>
<1>1. \A s : s \in Requests <=>
               \E t \in Types : \E k \in 1 .. asked[t] : s = <<t, k>>
  BY DEF Requests
<1>2. \A s : s \in Requests' <=>
               \E t \in Types : \E k \in 1 .. asked'[t] : s = <<t, k>>
  BY DEF Requests
<1>3. r \notin Requests
  <2>1. asked[u] \in Nat
    OBVIOUS
  <2>2. asked[u] + 1 \notin 1 .. asked[u]
    BY <2>1
  <2> QED BY <1>1, <2>2
<1>4. ASSUME NEW t \in Types, NEW k
      PROVE  k \in 1 .. asked'[t] <=>
               k \in 1 .. asked[t] \/ <<t, k>> = r
  <2>1. asked[t] \in Nat
    OBVIOUS
  <2>2. CASE t = u
    <3>1. asked'[t] = asked[t] + 1
      BY <2>2
    <3>2. k \in 1 .. asked[t] + 1 <=> k \in 1 .. asked[t] \/ k = asked[t] + 1
      BY <2>1
    <3> QED BY <2>2, <3>1, <3>2
  <2>3. CASE t # u
    BY <2>3
  <2> QED BY <2>2, <2>3
<1>5. r \in Requests'
  <2>1. asked[u] \in Nat /\ asked'[u] = asked[u] + 1
    OBVIOUS
  <2>2. asked[u] + 1 \in 1 .. asked'[u]
    BY <2>1
  <2> QED BY <1>2, <2>2
<1> HIDE DEF r
<1>6. Requests' = Requests \cup {r}
  <2>1. \A s : s \in Requests' => s \in Requests \/ s = r
    BY <1>1, <1>2, <1>4
  <2>2. \A s : s \in Requests => s \in Requests'
    BY <1>1, <1>2, <1>4
  <2> QED BY <1>5, <2>1, <2>2
<1> QED BY <1>3, <1>6, FS_AddElement, FS_CardinalityType

(* No step but the start of a serializer changes what was asked for. *)
LEMMA AskedKept ==
  ASSUME asked' = asked
  PROVE  Requests' = Requests
BY DEF Requests

LEMMA RequestsNatural ==
  ASSUME Cost
  PROVE  Cardinality(Requests) \in Nat
BY FS_CardinalityType DEF Cost

(* Documents that the invariant allows grow by one node at a time. *)
LEMMA Appended ==
  ASSUME NEW ns, NEW ms, NEW x, NodesOK(ns), NodesOK(ms), ms = Append(ns, x)
  PROVE  Grown(ns, x, ms)
<1>1. ns \in Seq(NodeSet) /\ ms \in Seq(NodeSet) /\ Len(ns) \in Nat
  BY DEF NodesOK
<1>2. ns \in Seq(NodeSet \cup {x})
  BY <1>1
<1>3. Len(ms) = Len(ns) + 1 /\ ms[Len(ns) + 1] = x
  BY <1>2
<1>4. Len(ns) + 1 \in 1 .. Len(ms)
  BY <1>1, <1>3
<1>5. x \in NodeSet
  BY <1>1, <1>3, <1>4, ElementOfSeq
<1>6. x.parent \in 0 .. Len(ns)
  <2>1. ms[Len(ns) + 1].parent \in 0 .. (Len(ns) + 1) - 1
    BY <1>4 DEF NodesOK
  <2> QED BY <1>1, <1>3, <2>1
<1> QED BY <1>5, <1>6, AddNode

LEMMA CostInit ==
  ASSUME Init
  PROVE  Cost
<1>1. IInv /\ failures = 0 /\ asked = [t \in Types |-> 0]
  BY InitHolds DEF Init
<1>2. Requests = {}
  BY <1>1 DEF Requests
<1>3. IsFiniteSet(Requests) /\ Cardinality(Requests) = 0
  BY <1>2, FS_EmptySet
<1>4. Cardinality(ChildNodes(nodes)) \in Nat
  BY <1>1, ChildrenFinite DEF IInv, Document
<1> QED BY <1>1, <1>3, <1>4 DEF Cost

(* Calls and returns have no item, and parsing can only add failures. *)
LEMMA CostCalls ==
  ASSUME IInv, IInv', Cost,
         AddOne \/ ParseJSONAll \/ ParseJSONAllRejects \/ Returns
  PROVE  Cost'
<1>1. /\ ~Arrives /\ ~Arrives' /\ nodes' = nodes /\ asked' = asked
  BY DEF AddOne, ParseJSONAll, ParseJSONAllRejects, Returns, Called,
         Arrives, Adding
<1>2. failures \in Nat /\ failures' \in Nat /\ failures <= failures'
  <2>1. failures \in Nat /\ failures' \in Nat
    BY DEF IInv, Typed
  <2>2. CASE ParseJSONAll
    <3>1. PICK failed \in SUBSET {t \in Types : sets[t] = NULL} :
            failures' = failures + Cardinality(failed)
      BY <2>2 DEF ParseJSONAll
    <3>2. failed \subseteq Types
      BY <3>1
    <3>3. Cardinality(failed) \in Nat
      BY <3>2, TypesFinite, FS_Subset, FS_CardinalityType
    <3> QED BY <2>1, <3>1, <3>3
  <2>3. CASE AddOne \/ ParseJSONAllRejects \/ Returns
    BY <2>1, <2>3 DEF AddOne, ParseJSONAllRejects, Returns
  <2> QED BY <2>2, <2>3
<1>3. /\ Cardinality(ChildNodes(nodes)) \in Nat
      /\ Cardinality(Requests) \in Nat /\ Requests' = Requests
  BY <1>1, AskedKept, RequestsNatural, ChildrenFinite DEF IInv, Document
<1> QED BY <1>1, <1>2, <1>3 DEF Cost

(* The entry point is no child of a type. *)
LEMMA CostInfo ==
  ASSUME IInv, IInv', Cost, AddInfo \/ InfoFails
  PROVE  Cost'
<1>1. /\ ~Arrives /\ ~Arrives' /\ asked' = asked
      /\ failures \in Nat /\ failures' \in Nat
      /\ failures' = failures \/ failures' = failures + 1
  BY DEF AddInfo, InfoFails, MayFail, Arrives, Adding, IInv, Typed
<1>2. NodesOK(nodes) /\ NodesOK(nodes')
  BY DEF IInv, Document
<1>3. Cardinality(ChildNodes(nodes')) = Cardinality(ChildNodes(nodes))
  <2>1. CASE nodes' = nodes
    BY <2>1
  <2>2. ASSUME NEW h \in BOOLEAN,
               nodes' = Append(nodes,
                               Node("smbios_info", Root, h, "object", Is64Bit))
        PROVE  Cardinality(ChildNodes(nodes')) = Cardinality(ChildNodes(nodes))
    <3>1. PICK x : x = Node("smbios_info", Root, h, "object", Is64Bit)
      OBVIOUS
    <3>2. Grown(nodes, x, nodes')
      BY <1>2, <2>2, <3>1, Appended
    <3>3. x.name \notin Types
      BY <3>1, NamesAssumption DEF Node
    <3>4. Cardinality(ChildNodes(nodes)) \in Nat
      BY <1>2, ChildrenFinite
    <3> QED BY <1>2, <3>2, <3>3, <3>4, ChildrenGrow
  <2> QED BY <2>1, <2>2 DEF AddInfo, InfoFails
<1>4. /\ Cardinality(ChildNodes(nodes)) \in Nat
      /\ Cardinality(Requests) \in Nat /\ Requests' = Requests
  BY <1>1, <1>2, AskedKept, RequestsNatural, ChildrenFinite
<1> QED BY <1>1, <1>3, <1>4 DEF Cost

(* A serializer that begins has an item for the root, or has failed. *)
LEMMA CostBegins ==
  ASSUME IInv, IInv', Cost, NullSet \/ CreateArray \/ NoArray
  PROVE  Cost'
<1>1. /\ ~Arrives /\ nodes' = nodes /\ todo # << >>
      /\ asked' = [asked EXCEPT ![Type] = @ + 1]
  BY DEF NullSet, CreateArray, NoArray, Arrives, Adding
<1>2. /\ asked \in [Types -> Nat] /\ Type \in Types
      /\ failures \in Nat /\ failures' \in Nat
  BY <1>1, HeadType DEF IInv, Typed, Type
<1>3. /\ IsFiniteSet(Requests') /\ Cardinality(Requests) \in Nat
      /\ Cardinality(Requests') = Cardinality(Requests) + 1
  BY <1>1, <1>2, AskOne DEF Cost
<1>4. /\ NodesOK(nodes) /\ Cardinality(ChildNodes(nodes)) \in Nat
      /\ InTreeOf(nodes, Root)
  BY ChildrenFinite, GroundedNodes, TreeRoot DEF IInv, Document, Root
<1>5. CASE NullSet \/ CreateArray
  <2>1. Arrives'
    <3>1. at' = {Root} /\ pc' \in {"oem", "attach"}
      BY <1>5 DEF NullSet, CreateArray, First
    <3> QED BY <1>1, <1>4, <3>1 DEF Arrives, Adding
  <2>2. failures <= failures'
    <3>1. CASE NullSet
      BY <1>2, <3>1 DEF NullSet
    <3>2. CASE CreateArray
      <4>1. PICK n \in 0 .. sets[Type] :
              failures' = failures + (sets[Type] - n)
        BY <3>2 DEF CreateArray
      <4>2. sets[Type] \in -1 .. MaxEntries /\ MaxEntries \in Nat
        BY <1>2, BoundsAssumption DEF IInv, Typed
      <4> QED BY <1>2, <4>1, <4>2
    <3> QED BY <1>5, <3>1, <3>2
  <2> QED BY <1>1, <1>2, <1>3, <1>4, <2>1, <2>2 DEF Cost
<1>6. CASE NoArray
  <2>1. failures' = failures + 1 /\ ~Arrives'
    BY <1>6 DEF NoArray, MayFail, Arrives, Adding
  <2> QED BY <1>1, <1>2, <1>3, <1>4, <2>1 DEF Cost
<1> QED BY <1>5, <1>6

(* An object that is found is in the tree when its parent is. *)
LEMMA CostFinds ==
  ASSUME IInv, IInv', Cost, FindObject
  PROVE  Cost'
<1>1. /\ pc \in {"oem", "vendor"} /\ Adding /\ nodes' = nodes
      /\ asked' = asked /\ failures' = failures
      /\ \/ at = {} /\ at' = {}
         \/ \E p \in at : \E i \in GetItem(p, ObjectName) : at' = {i}
  BY DEF FindObject, Nothing, Adding
<1>2. Adding'
  BY <1>1 DEF FindObject, AfterObject, Adding
<1>3. Arrives => Arrives'
  <2>1. SUFFICES ASSUME Arrives PROVE Arrives'
    OBVIOUS
  <2>2. PICK p \in at : \E i \in GetItem(p, ObjectName) : at' = {i}
    BY <1>1, <2>1 DEF Arrives
  <2>3. PICK i \in GetItem(p, ObjectName) : at' = {i}
    BY <2>2
  <2>4. i \in 1 .. Len(nodes) /\ nodes[i].held /\ nodes[i].parent = p
    BY <1>1, <2>3, FoundObject
  <2>5. InTreeOf(nodes, p)
    BY <2>1, <2>2 DEF Arrives
  <2>6. InTreeOf(nodes, i)
    BY <2>4, <2>5, GroundedNodes, TreeStep DEF IInv, Document
  <2> QED BY <1>1, <1>2, <2>3, <2>6 DEF Arrives
<1>4. /\ Cardinality(ChildNodes(nodes)) \in Nat
      /\ Cardinality(Requests) \in Nat /\ Requests' = Requests
  BY <1>1, AskedKept, RequestsNatural, ChildrenFinite DEF IInv, Document
<1>5. failures \in Nat
  BY DEF IInv, Typed
<1> QED BY <1>1, <1>3, <1>4, <1>5 DEF Cost

(* An object that is created is in the tree when its parent is and takes   *)
(* it; when it does not, or nothing is created, something failed.          *)
LEMMA CostCreates ==
  ASSUME IInv, IInv', Cost, CreateObject \/ NoObject
  PROVE  Cost'
<1>1. /\ pc \in {"oem", "vendor"} /\ Adding /\ asked' = asked
      /\ failures \in Nat /\ failures' \in Nat
      /\ NodesOK(nodes) /\ NodesOK(nodes')
  BY DEF CreateObject, NoObject, Adding, IInv, Typed, Document
<1>2. /\ Cardinality(ChildNodes(nodes)) \in Nat
      /\ Cardinality(Requests) \in Nat /\ Requests' = Requests
  BY <1>1, AskedKept, RequestsNatural, ChildrenFinite
<1>3. CASE NoObject
  <2>1. nodes' = nodes /\ failures' = failures + 1
    BY <1>3 DEF NoObject, MayFail
  <2> QED BY <1>1, <1>2, <2>1 DEF Cost
<1>4. CASE CreateObject
  <2>1. PICK p \in at, h \in BOOLEAN :
          /\ IF h THEN UNCHANGED failures ELSE MayFail
          /\ nodes' = Append(nodes, Node(ObjectName, p, h, "object", {}))
    BY <1>4 DEF CreateObject, Nothing
  <2>2. at' = {Len(nodes')} /\ Adding'
    BY <1>1, <1>4 DEF CreateObject, AfterObject, Adding
  <2>3. PICK x : x = Node(ObjectName, p, h, "object", {})
    OBVIOUS
  <2>4. x.name = ObjectName /\ x.parent = p /\ x.held = h
    BY <2>3 DEF Node
  <2>5. Grown(nodes, x, nodes')
    BY <1>1, <2>1, <2>3, Appended
  <2>6. ObjectName \notin Types
    <3>1. Type \in Types /\ Vendor[Type] # ""
      BY <1>1, HeadType DEF IInv, Typed, Type, Place
    <3>2. Vendor[Type] \in Vendors
      BY <3>1, VendorAssumption
    <3> QED BY <3>2, NamesAssumption DEF ObjectName
  <2>7. Cardinality(ChildNodes(nodes')) = Cardinality(ChildNodes(nodes))
    BY <1>1, <1>2, <2>4, <2>5, <2>6, ChildrenGrow
  <2>8. CASE h
    <3>1. Arrives => Arrives'
      <4>1. SUFFICES ASSUME Arrives PROVE Arrives'
        OBVIOUS
      <4>2. InTreeOf(nodes, p)
        BY <2>1, <4>1 DEF Arrives
      <4>3. InTreeOf(nodes', Len(nodes'))
        BY <2>4, <2>5, <2>8, <4>2 DEF Grown
      <4> QED BY <2>2, <4>3 DEF Arrives
    <3>2. failures' = failures
      BY <2>1, <2>8
    <3> QED BY <1>1, <1>2, <2>7, <3>1, <3>2 DEF Cost
  <2>9. CASE ~h
    <3>1. failures' = failures + 1
      BY <2>1, <2>9 DEF MayFail
    <3> QED BY <1>1, <1>2, <2>7, <3>1 DEF Cost
  <2> QED BY <2>8, <2>9
<1> QED BY <1>3, <1>4

(* An item that arrives is a child. *)
LEMMA CostAttaches ==
  ASSUME IInv, IInv', Cost, Attach
  PROVE  Cost'
<1>1. /\ pc = "attach" /\ Adding /\ asked' = asked /\ failures' = failures
      /\ failures \in Nat /\ NodesOK(nodes) /\ NodesOK(nodes')
  BY DEF Attach, Adding, IInv, Typed, Document
<1>2. PICK p \in at :
        nodes' = Append(nodes, Node(Type, p, TRUE, item.shows, item.value))
  BY DEF Attach
<1>3. PICK x : x = Node(Type, p, TRUE, item.shows, item.value)
  OBVIOUS
<1>4. x.name \in Types /\ x.held /\ x.parent = p
  BY <1>1, <1>3, HeadType DEF Node, Type, IInv, Typed
<1>5. Grown(nodes, x, nodes')
  BY <1>1, <1>2, <1>3, Appended
<1>6. Cardinality(ChildNodes(nodes')) =
        Cardinality(ChildNodes(nodes))
          + (IF InTreeOf(nodes, p) THEN 1 ELSE 0)
  BY <1>1, <1>4, <1>5, ChildrenGrow
<1>7. Arrives => InTreeOf(nodes, p)
  BY <1>2 DEF Arrives
<1>8. /\ Cardinality(ChildNodes(nodes)) \in Nat
      /\ Cardinality(Requests) \in Nat /\ Requests' = Requests
  BY <1>1, AskedKept, RequestsNatural, ChildrenFinite
<1> QED BY <1>1, <1>6, <1>7, <1>8 DEF Cost

(* An item is lost for a failure now, or because it had no place. *)
LEMMA CostLosesItem ==
  ASSUME IInv, IInv', Cost, AttachFails
  PROVE  Cost'
<1>1. /\ asked' = asked /\ failures \in Nat
      /\ NodesOK(nodes) /\ NodesOK(nodes')
  BY DEF AttachFails, IInv, Typed, Document
<1>2. \/ ~Arrives /\ failures' = failures
      \/ failures' = failures + 1
  BY DEF AttachFails, MayFail, Nothing, Arrives
<1>3. Cardinality(ChildNodes(nodes')) = Cardinality(ChildNodes(nodes))
  <2>1. CASE nodes' = nodes
    BY <2>1
  <2>2. CASE nodes' = Append(nodes,
                             Node(Type, Root, FALSE, "array", item.value))
    <3>1. PICK x : x = Node(Type, Root, FALSE, "array", item.value)
      OBVIOUS
    <3>2. Grown(nodes, x, nodes')
      BY <1>1, <2>2, <3>1, Appended
    <3>3. x.held = FALSE
      BY <3>1 DEF Node
    <3>4. Cardinality(ChildNodes(nodes)) \in Nat
      BY <1>1, ChildrenFinite
    <3> QED BY <1>1, <3>2, <3>3, <3>4, ChildrenGrow
  <2> QED BY <2>1, <2>2 DEF AttachFails
<1>4. /\ Cardinality(ChildNodes(nodes)) \in Nat
      /\ Cardinality(Requests) \in Nat /\ Requests' = Requests
  BY <1>1, AskedKept, RequestsNatural, ChildrenFinite
<1> QED BY <1>1, <1>2, <1>3, <1>4 DEF Cost

LEMMA CostHolds ==
  ASSUME IInv, IInv', Cost, [Next]_vars
  PROVE  Cost'
<1>1. CASE UNCHANGED vars
  <2>1. /\ nodes' = nodes /\ failures' = failures /\ asked' = asked
        /\ at' = at /\ pc' = pc
    BY <1>1 DEF vars
  <2>2. Arrives' <=> Arrives
    BY <2>1 DEF Arrives, Adding
  <2> QED BY <2>1, <2>2, AskedKept DEF Cost
<1> QED
  BY <1>1, CostCalls, CostInfo, CostBegins, CostFinds, CostCreates,
     CostAttaches, CostLosesItem DEF Next

LEMMA CostFollows ==
  ASSUME IInv, Cost
  PROVE  FailureCostsOneChild
<1>1. Children = ChildNodes(nodes)
  BY TreeIs DEF Children, ChildNodes
<1>2. pc = "idle" => ~Arrives
  BY DEF Arrives, Adding
<1>3. Cardinality(ChildNodes(nodes)) \in Nat /\ failures \in Nat
  BY ChildrenFinite DEF IInv, Typed, Document
<1> QED BY <1>1, <1>2, <1>3 DEF Cost, FailureCostsOneChild

(* After any calls and any failures, the document misses at most one child *)
(* for each failed allocation: what failed in one serializer is no loss to *)
(* those that share its objects.                                           *)
THEOREM FailuresCostOne == Spec => []FailureCostsOneChild
<1>1. Init => Cost
  BY CostInit
<1>2. IInv /\ IInv' /\ Cost /\ [Next]_vars => Cost'
  BY CostHolds
<1>3. Spec => []Cost
  BY <1>1, <1>2, DocumentInvariant, PTL DEF Spec
<1> QED BY <1>3, CostFollows, DocumentInvariant, PTL

-----------------------------------------------------------------------------
(* Every call comes to an end. *)

InCall == pc # "idle"

(* How many steps the running call can still take, at most: the entry      *)
(* point's object, four for each serializer that is left, and the return.  *)
StepsLeft ==
  CASE pc = "idle"   -> 0
    [] pc = "info"   -> 4 * Len(todo) + 2
    [] pc = "next"   -> 4 * Len(todo) + 1
    [] pc = "oem"    -> 4 * Len(todo)
    [] pc = "vendor" -> 4 * Len(todo) - 1
    [] OTHER         -> 4 * Len(todo) - 2

(* A serializer that adds an item is not done with its type. *)
LEMMA StillToDo ==
  ASSUME IInv
  PROVE  Len(todo) \in Nat /\ (Adding => Len(todo) > 0)
<1>1. todo \in Seq(Types) /\ (Adding => todo # << >>)
  BY DEF IInv, Typed
<1> QED BY <1>1

LEMMA StepsLeftNatural == IInv => StepsLeft \in Nat
<1> SUFFICES ASSUME IInv PROVE StepsLeft \in Nat
  OBVIOUS
<1>1. /\ pc \in {"idle", "info", "next", "oem", "vendor", "attach"}
      /\ Len(todo) \in Nat /\ (Adding => Len(todo) > 0)
  BY StillToDo DEF IInv, Typed
<1>2. 4 * Len(todo) + 2 \in Nat /\ 4 * Len(todo) + 1 \in Nat
  BY <1>1
<1>3. Adding => /\ 4 * Len(todo) \in Nat /\ 4 * Len(todo) - 1 \in Nat
                /\ 4 * Len(todo) - 2 \in Nat
  BY <1>1
<1> QED BY <1>1, <1>2, <1>3, Zenon DEF StepsLeft, Adding

LEMMA StepsLeftDecrease ==
  ASSUME IInv, Next, InCall
  PROVE  StepsLeft' < StepsLeft
<1>1. /\ pc \in {"info", "next", "oem", "vendor", "attach"}
      /\ Len(todo) \in Nat /\ (Adding => Len(todo) > 0)
      /\ todo \in Seq(Types)
  BY StillToDo DEF IInv, Typed, InCall
<1>2. CASE AddInfo \/ InfoFails
  <2>1. pc = "info" /\ pc' = "next" /\ todo' = todo
    BY <1>2 DEF AddInfo, InfoFails
  <2> QED BY <1>1, <2>1 DEF StepsLeft
<1>3. CASE NullSet \/ CreateArray
  <2>1. pc = "next" /\ pc' \in {"oem", "attach"} /\ todo' = todo
    BY <1>3 DEF NullSet, CreateArray, First
  <2> QED BY <1>1, <2>1 DEF StepsLeft
<1>4. CASE NoArray
  <2>1. pc = "next" /\ pc' = "next" /\ todo # << >> /\ todo' = Tail(todo)
    BY <1>4 DEF NoArray
  <2>2. Len(todo') = Len(todo) - 1
    BY <1>1, <2>1
  <2> QED BY <1>1, <2>1, <2>2 DEF StepsLeft
<1>5. CASE FindObject \/ CreateObject \/ NoObject
  <2>1. /\ \/ pc = "oem" /\ pc' = "vendor"
           \/ pc = "vendor" /\ pc' = "attach"
        /\ todo' = todo
    BY <1>5 DEF FindObject, CreateObject, NoObject, AfterObject
  <2> QED BY <1>1, <2>1 DEF StepsLeft, Adding
<1>6. CASE Attach \/ AttachFails
  <2>1. pc = "attach" /\ pc' = "next" /\ todo' = Tail(todo)
    BY <1>6 DEF Attach, AttachFails
  <2>2. Len(todo') = Len(todo) - 1 /\ Len(todo) > 0
    BY <1>1, <2>1 DEF Adding
  <2> QED BY <1>1, <2>1, <2>2 DEF StepsLeft
<1>7. CASE Returns
  <2>1. pc = "next" /\ pc' = "idle"
    BY <1>7 DEF Returns
  <2> QED BY <1>1, <2>1 DEF StepsLeft
<1>8. ~(AddOne \/ ParseJSONAll \/ ParseJSONAllRejects)
  BY DEF AddOne, ParseJSONAll, ParseJSONAllRejects, Called, InCall
<1> QED
  BY <1>2, <1>3, <1>4, <1>5, <1>6, <1>7, <1>8 DEF Next

(* No call of the JSON extension goes on for ever, whichever allocations   *)
(* fail: while one runs, every step lowers StepsLeft, which is never       *)
(* negative.  So lazybiosParseJSONAll calls each serializer once.          *)
THEOREM CallsRunDown ==
  Spec => /\ [](StepsLeft \in Nat)
          /\ [][InCall => StepsLeft' < StepsLeft]_vars
<1>1. IInv /\ [Next]_vars => [InCall => StepsLeft' < StepsLeft]_vars
  BY StepsLeftDecrease
<1> QED BY <1>1, StepsLeftNatural, DocumentInvariant, PTL DEF Spec

=============================================================================
