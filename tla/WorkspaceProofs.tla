-------------------------- MODULE WorkspaceProofs --------------------------
(***************************************************************************)
(* Proofs about the split panes and the page history, for any number of    *)
(* panes, documents and steps.                                             *)
(***************************************************************************)
EXTENDS PaneLayout, FiniteSetTheorems, WellFoundedInduction, TLAPS

----------------------------------------------------------------------------
(* The pane tree.                                                          *)

Sides == {1, 2}

\* Places are told apart by their sides.
LEMMA SamePlace ==
    ASSUME NEW p \in Seq(Sides), NEW q \in Seq(Sides), Len(p) = Len(q),
           \A i \in 1..Len(p) : p[i] = q[i]
    PROVE  p = q
BY SMT

\* The place of a node above another.
LEMMA UptoFacts ==
    ASSUME NEW p \in Seq(Sides), NEW n \in 0..Len(p)
    PROVE  /\ Upto(p, n) \in Seq(Sides) /\ Len(Upto(p, n)) = n
           /\ \A i \in 1..n : Upto(p, n)[i] = p[i]
BY SMT DEF Upto, Sides

\* Above itself a place is itself, and the root is the empty place.
LEMMA UptoItself ==
    ASSUME NEW p \in Seq(Sides)
    PROVE  Upto(p, Len(p)) = p
<1>1. Len(p) \in 0..Len(p)
  BY SMT
<1> QED
  BY <1>1, UptoFacts, SamePlace, Zenon

\* What is above a place above another is above the other.
LEMMA UptoUpto ==
    ASSUME NEW p \in Seq(Sides), NEW n \in 0..Len(p), NEW m \in 0..n
    PROVE  Upto(Upto(p, n), m) = Upto(p, m)
<1>1. PICK q : q = Upto(p, n)
  BY Zenon
<1>2. q \in Seq(Sides) /\ Len(q) = n /\ \A i \in 1..n : q[i] = p[i]
  BY <1>1, UptoFacts, Zenon
<1>3. m \in 0..Len(p) /\ m \in 0..Len(q)
  BY <1>2, SMT
<1>4. Upto(p, m) \in Seq(Sides) /\ Len(Upto(p, m)) = m /\ \A i \in 1..m : Upto(p, m)[i] = p[i]
  BY <1>3, UptoFacts, Zenon
<1>5. Upto(q, m) \in Seq(Sides) /\ Len(Upto(q, m)) = m /\ \A i \in 1..m : Upto(q, m)[i] = q[i]
  BY <1>2, <1>3, UptoFacts, Zenon
<1>6. \A i \in 1..m : Upto(q, m)[i] = Upto(p, m)[i]
  BY <1>2, <1>4, <1>5, SMT
<1> QED
  BY <1>1, <1>4, <1>5, <1>6, SamePlace, Zenon

\* A place one side further down.
LEMMA AppendFacts ==
    ASSUME NEW p \in Seq(Sides), NEW s \in Sides
    PROVE  /\ Append(p, s) \in Seq(Sides) /\ Len(Append(p, s)) = Len(p) + 1
           /\ \A n \in 0..Len(p) : Upto(Append(p, s), n) = Upto(p, n)
           /\ Upto(Append(p, s), Len(p)) = p
<1>1. PICK q : q = Append(p, s)
  BY Zenon
<1>2. q \in Seq(Sides) /\ Len(q) = Len(p) + 1 /\ \A i \in 1..Len(p) : q[i] = p[i]
  BY <1>1, SMT
<1>3. ASSUME NEW n \in 0..Len(p) PROVE Upto(q, n) = Upto(p, n)
  <2>1. n \in 0..Len(q)
    BY <1>2, SMT
  <2>2. Upto(p, n) \in Seq(Sides) /\ Len(Upto(p, n)) = n /\ \A i \in 1..n : Upto(p, n)[i] = p[i]
    BY UptoFacts, Zenon
  <2>3. Upto(q, n) \in Seq(Sides) /\ Len(Upto(q, n)) = n /\ \A i \in 1..n : Upto(q, n)[i] = q[i]
    BY <1>2, <2>1, UptoFacts, Zenon
  <2>4. \A i \in 1..n : Upto(q, n)[i] = Upto(p, n)[i]
    BY <1>2, <2>2, <2>3, SMT
  <2> QED
    BY <2>2, <2>3, <2>4, SamePlace, Zenon
<1>4. Upto(q, Len(p)) = p
  <2>1. Len(p) \in 0..Len(p)
    BY SMT
  <2> QED
    BY <1>3, <2>1, UptoItself, Zenon
<1> QED
  BY <1>1, <1>2, <1>3, <1>4, Zenon

\* A tree: places lead from the root, and what is above a node is a split.
IsTree(t) ==
    /\ t = [p \in DOMAIN t |-> t[p]] /\ DOMAIN t \subseteq Seq(Sides)
    /\ \A p \in DOMAIN t : \A n \in 0..(Len(p) - 1) :
           Upto(p, n) \in DOMAIN t /\ ~IsLeaf(t[Upto(p, n)])

\* At most MaxPanes leaves, with ids of their own that are below the next one.
LeavesFit(t, next) ==
    /\ IsFiniteSet(LeafPlaces(t)) /\ Cardinality(LeafPlaces(t)) <= MaxPanes
    /\ \A p, q \in LeafPlaces(t) : t[p].id = t[q].id => p = q
    /\ \A p \in LeafPlaces(t) : t[p].id \in Int /\ t[p].id < next

LayoutFits(l, next) == IsTree(l.root) /\ LeavesFit(l.root, next) /\ l.active \in PaneIds(l.root)

\* The place of a pane, when the tree has it.
LEMMA PlaceFound ==
    ASSUME NEW t, NEW id \in PaneIds(t)
    PROVE  PlaceOf(t, id) \in LeafPlaces(t) /\ t[PlaceOf(t, id)].id = id
BY Zenon DEF PaneIds, PlaceOf

\* Nothing is below a leaf.
LEMMA NothingBelowLeaf ==
    ASSUME NEW t, IsTree(t), NEW at \in LeafPlaces(t), NEW p \in DOMAIN t, Below(p, at)
    PROVE  p = at
<1>1. at \in Seq(Sides) /\ p \in Seq(Sides) /\ IsLeaf(t[at])
  BY Zenon DEF IsTree, LeafPlaces
<1>2. Len(at) <= Len(p) /\ Upto(p, Len(at)) = at
  BY Zenon DEF Below
<1>3. CASE Len(at) = Len(p)
  BY <1>1, <1>2, <1>3, UptoItself, Zenon
<1>4. CASE Len(at) # Len(p)
  <2>1. Len(at) \in 0..(Len(p) - 1)
    BY <1>1, <1>2, <1>4, SMT
  <2> QED
    BY <1>1, <1>2, <2>1, Zenon DEF IsTree
<1> QED
  BY <1>3, <1>4, Zenon

\* Opening a document in a pane changes no place and no id.
LEMMA OpenKeeps ==
    ASSUME NEW t, IsTree(t), NEW next, LeavesFit(t, next), NEW id, NEW doc
    PROVE  /\ IsTree(OpenDocumentInPane(t, id, doc)) /\ LeavesFit(OpenDocumentInPane(t, id, doc), next)
           /\ PaneIds(OpenDocumentInPane(t, id, doc)) = PaneIds(t)
<1>1. PICK u : u = OpenDocumentInPane(t, id, doc)
  BY Zenon
<1>2. u = [p \in DOMAIN t |-> IF IsLeaf(t[p]) /\ t[p].id = id THEN Leaf(id, doc) ELSE t[p]]
  BY <1>1, Zenon DEF OpenDocumentInPane, ReplaceNode
<1>3. u = [p \in DOMAIN u |-> u[p]]
  BY <1>2, Zenon
<1>4. DOMAIN u = DOMAIN t
      /\ \A p \in DOMAIN t : u[p] = IF IsLeaf(t[p]) /\ t[p].id = id THEN Leaf(id, doc) ELSE t[p]
  BY <1>2, Zenon
<1>5. IsLeaf(Leaf(id, doc)) /\ Leaf(id, doc).id = id
  BY Zenon DEF IsLeaf, Leaf
<1>6. \A p \in DOMAIN t : (IsLeaf(u[p]) <=> IsLeaf(t[p])) /\ (IsLeaf(t[p]) => u[p].id = t[p].id)
  BY <1>4, <1>5, Zenon
<1>7. LeafPlaces(u) = LeafPlaces(t)
  BY <1>4, <1>6, Zenon DEF LeafPlaces
<1>8. \A p \in LeafPlaces(t) : u[p].id = t[p].id
  BY <1>6, Zenon DEF LeafPlaces
<1>9. IsTree(u)
  BY <1>3, <1>4, <1>6, Zenon DEF IsTree
<1>10. LeavesFit(u, next)
  BY <1>7, <1>8, Zenon DEF LeavesFit
<1>11. PaneIds(u) = PaneIds(t)
  BY <1>7, <1>8, Zenon DEF PaneIds
<1> QED
  BY <1>1, <1>9, <1>10, <1>11, Zenon

\* A layout of one pane.
LEMMA OnePaneFits ==
    ASSUME NEW id \in Int, NEW doc, NEW next \in Int, id < next
    PROVE  LET t == OnlyPane(Leaf(id, doc))
           IN  IsTree(t) /\ LeavesFit(t, next) /\ PaneIds(t) = {id}
<1>1. PICK t : t = OnlyPane(Leaf(id, doc))
  BY Zenon
<1>2. DOMAIN t = {<<>>} /\ t[<<>>] = Leaf(id, doc)
  BY <1>1, Zenon DEF OnlyPane
<1>3. t = [p \in DOMAIN t |-> t[p]]
  BY <1>1, Zenon DEF OnlyPane
<1>4. IsLeaf(Leaf(id, doc)) /\ Leaf(id, doc).id = id
  BY Zenon DEF IsLeaf, Leaf
<1>5. LeafPlaces(t) = {<<>>}
  BY <1>2, <1>4, Zenon DEF LeafPlaces
<1>6. IsFiniteSet({<<>>}) /\ Cardinality({<<>>}) = 1
  BY FS_Singleton, ZenonT(30)
<1>7. <<>> \in Seq(Sides) /\ 0..(Len(<<>>) - 1) = {}
  BY SMT
<1>8. IsTree(t)
  BY <1>2, <1>3, <1>7, Zenon DEF IsTree
<1>9. 1 <= MaxPanes
  BY PaneBounds, SMT
<1>10. LeavesFit(t, next)
  BY <1>2, <1>4, <1>5, <1>6, <1>9, Zenon DEF LeavesFit
<1>11. PaneIds(t) = {id}
  BY <1>2, <1>4, <1>5, Zenon DEF PaneIds
<1> QED
  BY <1>1, <1>8, <1>10, <1>11, Zenon

\* Splitting a pane: its leaf moves to the first side, a fresh one is put on the
\* second.
LEMMA SplitKeeps ==
    ASSUME NEW t, IsTree(t), NEW next \in Int, LeavesFit(t, next), NEW id \in PaneIds(t),
           CountLeaves(t) < MaxPanes, NEW dir
    PROVE  /\ IsTree(SplitPane(t, id, dir, next)) /\ LeavesFit(SplitPane(t, id, dir, next), next + 1)
           /\ next \in PaneIds(SplitPane(t, id, dir, next))
<1>1. PICK u : u = SplitPane(t, id, dir, next)
  BY Zenon
<1>2. PICK at : at = PlaceOf(t, id)
  BY Zenon
<1>3. at \in LeafPlaces(t) /\ t[at].id = id
  BY <1>2, PlaceFound, Zenon
<1>4. at \in DOMAIN t /\ IsLeaf(t[at]) /\ at \in Seq(Sides) /\ Len(at) \in Nat
  <2>1. at \in DOMAIN t /\ IsLeaf(t[at]) /\ at \in Seq(Sides)
    BY <1>3, Zenon DEF LeafPlaces, IsTree
  <2> QED
    BY <2>1, SMT
<1>5. PICK a : a = Append(at, 1)
  BY Zenon
<1>6. PICK b : b = Append(at, 2)
  BY Zenon
<1>7. /\ a \in Seq(Sides) /\ Len(a) = Len(at) + 1 /\ Upto(a, Len(at)) = at
      /\ \A n \in 0..Len(at) : Upto(a, n) = Upto(at, n)
  BY <1>4, <1>5, AppendFacts, ZenonT(30) DEF Sides
<1>8. /\ b \in Seq(Sides) /\ Len(b) = Len(at) + 1 /\ Upto(b, Len(at)) = at
      /\ \A n \in 0..Len(at) : Upto(b, n) = Upto(at, n)
  BY <1>4, <1>6, AppendFacts, Zenon DEF Sides
<1>9. a # b /\ a # at /\ b # at
  <2>1. a # b
    BY <1>4, <1>5, <1>6, SMT
  <2>2. a # at /\ b # at
    BY <1>4, <1>7, <1>8, SMT
  <2> QED
    BY <2>1, <2>2, Zenon
<1>10. a \notin DOMAIN t /\ b \notin DOMAIN t
  <2>1. Len(at) <= Len(a) /\ Len(at) <= Len(b)
    BY <1>4, <1>7, <1>8, SMT
  <2>2. Below(a, at) /\ Below(b, at)
    BY <1>7, <1>8, <2>1, Zenon DEF Below
  <2> QED
    BY <1>3, <1>9, <2>2, NothingBelowLeaf, Zenon
<1>11. ~(CountLeaves(t) >= MaxPanes)
  <2>1. CountLeaves(t) \in Nat
    BY FS_CardinalityType, Zenon DEF CountLeaves, LeavesFit
  <2> QED
    BY <2>1, PaneBounds, SMT
<1>12. PICK split : split = [type |-> "split", dir |-> dir]
  BY Zenon
<1>13. ~IsLeaf(split)
  BY <1>12, Zenon DEF IsLeaf
<1>14. PICK leaf : leaf = Leaf(next, NoDoc)
  BY Zenon
<1>15. IsLeaf(leaf) /\ leaf.id = next
  BY <1>14, Zenon DEF IsLeaf, Leaf
<1>16. u = [p \in DOMAIN t \cup {a, b} |->
                 IF p = at THEN split ELSE IF p = a THEN t[at] ELSE IF p = b THEN leaf ELSE t[p]]
  BY <1>1, <1>2, <1>5, <1>6, <1>11, <1>12, <1>14, Zenon DEF SplitPane
<1>17. DOMAIN u = DOMAIN t \cup {a, b} /\ u = [p \in DOMAIN u |-> u[p]]
  BY <1>16, Zenon
<1>18. u[at] = split /\ u[a] = t[at] /\ u[b] = leaf
  BY <1>4, <1>9, <1>16, Zenon
<1>19. \A p \in DOMAIN t : p # at => u[p] = t[p]
  BY <1>10, <1>16, Zenon
<1>20. IsTree(u)
  <2>1. DOMAIN u \subseteq Seq(Sides)
    BY <1>7, <1>8, <1>17, Zenon DEF IsTree
  <2>2. ASSUME NEW p \in DOMAIN t, NEW n \in 0..(Len(p) - 1)
        PROVE  Upto(p, n) \in DOMAIN u /\ ~IsLeaf(u[Upto(p, n)])
    <3>1. Upto(p, n) \in DOMAIN t /\ ~IsLeaf(t[Upto(p, n)])
      BY <2>2, Zenon DEF IsTree
    <3> QED
      BY <1>4, <1>17, <1>19, <3>1, Zenon
  <2>3. ASSUME NEW p \in {a, b}, NEW n \in 0..(Len(p) - 1)
        PROVE  Upto(p, n) \in DOMAIN u /\ ~IsLeaf(u[Upto(p, n)])
    <3>1. n \in 0..Len(at) /\ (n = Len(at) \/ n \in 0..(Len(at) - 1))
      BY <1>4, <1>7, <1>8, <2>3, SMT
    <3>2. Upto(p, n) = Upto(at, n) /\ Upto(p, Len(at)) = at
      BY <1>7, <1>8, <2>3, <3>1, Zenon
    <3>3. CASE n = Len(at)
      BY <1>4, <1>13, <1>17, <1>18, <3>2, <3>3, Zenon
    <3>4. CASE n \in 0..(Len(at) - 1)
      BY <1>4, <2>2, <3>2, <3>4, Zenon
    <3> QED
      BY <3>1, <3>3, <3>4, Zenon
  <2> QED
    BY <1>17, <2>1, <2>2, <2>3, Zenon DEF IsTree
<1>21. PICK others : others = LeafPlaces(t) \ {at}
  BY Zenon
<1>22. LeafPlaces(u) = others \cup {a} \cup {b}
  BY <1>3, <1>4, <1>10, <1>13, <1>15, <1>17, <1>18, <1>19, <1>21, Zenon DEF LeafPlaces
<1>23. IsFiniteSet(LeafPlaces(u)) /\ Cardinality(LeafPlaces(u)) <= MaxPanes
  <2>1. IsFiniteSet(LeafPlaces(t)) /\ Cardinality(LeafPlaces(t)) \in Nat
    BY FS_CardinalityType, Zenon DEF LeavesFit
  <2>2. IsFiniteSet(others) /\ Cardinality(others) = Cardinality(LeafPlaces(t)) - 1
    BY <1>3, <1>21, <2>1, FS_RemoveElement, Zenon
  <2>3. a \notin others /\ b \notin others \cup {a}
    BY <1>9, <1>10, <1>21, Zenon DEF LeafPlaces
  <2>4. IsFiniteSet(others \cup {a}) /\ Cardinality(others \cup {a}) = Cardinality(others) + 1
    BY <2>2, <2>3, FS_AddElement, Zenon
  <2>5. /\ IsFiniteSet(others \cup {a} \cup {b})
        /\ Cardinality(others \cup {a} \cup {b}) = Cardinality(others \cup {a}) + 1
    BY <2>3, <2>4, FS_AddElement, Zenon
  <2>6. Cardinality(LeafPlaces(t)) < MaxPanes
    BY Zenon DEF CountLeaves
  <2> QED
    BY <1>22, <2>1, <2>2, <2>4, <2>5, <2>6, PaneBounds, SMT
<1>24. \A p \in others : u[p] = t[p] /\ p \in LeafPlaces(t) /\ p # at
  BY <1>19, <1>21, Zenon DEF LeafPlaces
<1>25. ASSUME NEW p \in LeafPlaces(t)
       PROVE  t[p].id \in Int /\ t[p].id < next /\ t[p].id # next /\ t[p].id < next + 1
  <2>1. t[p].id \in Int /\ t[p].id < next
    BY Zenon DEF LeavesFit
  <2> QED
    BY <2>1, SMT
<1>26. next < next + 1
  BY SMT
<1>27. \A p \in others : t[p].id # id
  BY <1>3, <1>24, Zenon DEF LeavesFit
<1>28. \A p, q \in LeafPlaces(u) : u[p].id = u[q].id => p = q
  <2>1. \A p, q \in others : u[p].id = u[q].id => p = q
    BY <1>24, Zenon DEF LeavesFit
  <2>2. u[a].id = id /\ u[b].id = next /\ id # next
    BY <1>3, <1>15, <1>18, <1>25, Zenon
  <2>3. \A p \in others : u[p].id # id /\ u[p].id # next
    BY <1>24, <1>25, <1>27, Zenon
  <2> QED
    BY <1>22, <2>1, <2>2, <2>3, Zenon
<1>29. \A p \in LeafPlaces(u) : u[p].id \in Int /\ u[p].id < next + 1
  BY <1>3, <1>15, <1>18, <1>22, <1>24, <1>25, <1>26, Zenon
<1>30. next \in PaneIds(u)
  BY <1>15, <1>18, <1>22, Zenon DEF PaneIds
<1> QED
  BY <1>1, <1>20, <1>23, <1>28, <1>29, <1>30, Zenon DEF LeavesFit

\* The subtree at a place, moved up by one: what is below the place keeps its
\* order and its depth under the split that goes.
Raised(p, up) == up \o SubSeq(p, Len(up) + 2, Len(p))

\* What a place becomes when closePane lifts the sibling of the closed pane
\* into the place of their split.
LEMMA RaisedFacts ==
    ASSUME NEW p \in Seq(Sides), NEW up \in Seq(Sides), NEW s \in Sides, Below(p, Append(up, s))
    PROVE  /\ Len(p) \in Nat /\ Len(up) \in Nat /\ Len(up) < Len(p)
           /\ Raised(p, up) \in Seq(Sides) /\ Len(Raised(p, up)) = Len(p) - 1
           /\ \A i \in 1..Len(up) : Raised(p, up)[i] = p[i] /\ p[i] = up[i]
           /\ p[Len(up) + 1] = s
           /\ \A i \in (Len(up) + 1)..(Len(p) - 1) : Raised(p, up)[i] = p[i + 1]
<1>1. PICK top : top = Append(up, s)
  BY Zenon
<1>2. top \in Seq(Sides) /\ Len(top) = Len(up) + 1 /\ top[Len(up) + 1] = s
      /\ \A i \in 1..Len(up) : top[i] = up[i]
  BY <1>1, SMT
<1>3. Len(top) <= Len(p) /\ Upto(p, Len(top)) = top
  BY <1>1, Zenon DEF Below
<1>4. Len(top) \in 0..Len(p)
  BY <1>2, <1>3, SMT
<1>5. \A i \in 1..Len(top) : top[i] = p[i]
  BY <1>3, <1>4, UptoFacts, ZenonT(30)
<1>6. Len(p) \in Nat /\ Len(up) \in Nat /\ Len(up) < Len(p)
  BY <1>2, <1>3, SMT
<1>7. \A i \in 1..Len(up) : p[i] = up[i]
  BY <1>2, <1>5, <1>6, SMT
<1>8. p[Len(up) + 1] = s
  BY <1>2, <1>5, <1>6, SMT
<1>9. PICK rest : rest = SubSeq(p, Len(up) + 2, Len(p))
  BY Zenon
<1>10. rest \in Seq(Sides) /\ Len(rest) = Len(p) - Len(up) - 1
       /\ \A i \in 1..Len(rest) : rest[i] = p[i + Len(up) + 1]
  BY <1>6, <1>9, SMT
<1>11. PICK r : r = up \o rest
  BY Zenon
<1>12. /\ r \in Seq(Sides) /\ Len(r) = Len(p) - 1
       /\ \A i \in 1..Len(up) : r[i] = up[i]
       /\ \A i \in (Len(up) + 1)..(Len(p) - 1) : r[i] = rest[i - Len(up)]
  BY <1>6, <1>10, <1>11, SMT
<1>13. ASSUME NEW i \in (Len(up) + 1)..(Len(p) - 1) PROVE r[i] = p[i + 1]
  <2>1. i - Len(up) \in 1..Len(rest) /\ (i - Len(up)) + Len(up) + 1 = i + 1
    BY <1>6, <1>10, SMT
  <2> QED
    BY <1>10, <1>12, <2>1, Zenon
<1> QED
  BY <1>6, <1>7, <1>8, <1>9, <1>11, <1>12, <1>13, Zenon DEF Raised

\* Whatever has the split above it is below one of its sides, or is the split.
LEMMA EitherSide ==
    ASSUME NEW p \in Seq(Sides), NEW up \in Seq(Sides), Len(up) <= Len(p), Upto(p, Len(up)) = up
    PROVE  p = up \/ Below(p, Append(up, 1)) \/ Below(p, Append(up, 2))
<1>1. CASE Len(up) = Len(p)
  BY <1>1, UptoItself, Zenon
<1>2. CASE Len(up) # Len(p)
  <2>1. PICK s : s = p[Len(up) + 1]
    BY Zenon
  <2>2. s \in Sides /\ Len(up) + 1 \in 0..Len(p) /\ Len(up) \in 0..Len(p) /\ Len(up) \in Nat
    BY <1>2, <2>1, SMT
  <2>3. PICK top : top = Append(up, s)
    BY Zenon
  <2>4. top \in Seq(Sides) /\ Len(top) = Len(up) + 1 /\ top[Len(up) + 1] = s
        /\ \A i \in 1..Len(up) : top[i] = up[i]
    BY <2>2, <2>3, SMT
  <2>5. PICK q : q = Upto(p, Len(up) + 1)
    BY Zenon
  <2>6. q \in Seq(Sides) /\ Len(q) = Len(up) + 1 /\ \A i \in 1..(Len(up) + 1) : q[i] = p[i]
    BY <2>2, <2>5, UptoFacts, ZenonT(30)
  <2>7. \A i \in 1..Len(up) : up[i] = p[i]
    BY <2>2, UptoFacts, ZenonT(30)
  <2>8. ASSUME NEW i \in 1..Len(q)
        PROVE  q[i] = top[i]
    <3>1. i \in 1..(Len(up) + 1) /\ (i \in 1..Len(up) \/ i = Len(up) + 1)
      <4>1. PICK n : n = Len(up)
        BY Zenon
      <4>2. n \in Nat /\ i \in 1..(n + 1)
        BY <2>2, <2>6, <4>1, Zenon
      <4>3. i \in 1..n \/ i = n + 1
        BY <4>2, SMT
      <4> QED
        BY <4>1, <4>2, <4>3, Zenon
    <3>2. q[i] = p[i]
      BY <2>6, <3>1, Zenon
    <3>3. CASE i \in 1..Len(up)
      BY <2>4, <2>7, <3>2, <3>3, Zenon
    <3>4. CASE i = Len(up) + 1
      BY <2>1, <2>4, <3>2, <3>4, Zenon
    <3> QED
      BY <3>1, <3>3, <3>4, Zenon
  <2>9. q = top
    BY <2>4, <2>6, <2>8, SamePlace, Zenon
  <2>10. Len(top) <= Len(p)
    BY <2>2, <2>4, SMT
  <2>11. Below(p, top)
    BY <2>4, <2>5, <2>9, <2>10, Zenon DEF Below
  <2> QED
    BY <2>2, <2>3, <2>11, Zenon DEF Sides
<1> QED
  BY <1>1, <1>2, Zenon

\* What is below a place: the places between are too.
LEMMA BelowUpto ==
    ASSUME NEW p \in Seq(Sides), NEW top \in Seq(Sides), NEW n \in 0..Len(p)
    PROVE  /\ Below(p, top) /\ Len(top) <= n => Below(Upto(p, n), top)
           /\ Below(Upto(p, n), top) => Below(p, top)
<1>1. Len(Upto(p, n)) = n /\ Len(p) \in Nat /\ Len(top) \in Nat
  BY UptoFacts
<1>2. Len(top) <= n => Upto(Upto(p, n), Len(top)) = Upto(p, Len(top))
  BY <1>1, UptoUpto
<1>3. n <= Len(p)
  BY SMT
<1>4. Len(top) <= n => Len(top) <= Len(p)
  BY <1>1, <1>3, SMT
<1> QED
  BY <1>1, <1>2, <1>4, Zenon DEF Below

\* Raising goes with cutting off: the places above a raised one are the raised
\* places above it, and those above the split.
LEMMA RaisedUpto ==
    ASSUME NEW p \in Seq(Sides), NEW up \in Seq(Sides), NEW s \in Sides, Below(p, Append(up, s)),
           NEW n \in 0..(Len(p) - 2)
    PROVE  /\ n < Len(up) => Upto(Raised(p, up), n) = Upto(p, n)
           /\ ~(n < Len(up)) => /\ Below(Upto(p, n + 1), Append(up, s))
                                /\ Upto(Raised(p, up), n) = Raised(Upto(p, n + 1), up)
<1>1. /\ Len(p) \in Nat /\ Len(up) \in Nat /\ Len(up) < Len(p)
      /\ Raised(p, up) \in Seq(Sides) /\ Len(Raised(p, up)) = Len(p) - 1
      /\ \A i \in 1..Len(up) : Raised(p, up)[i] = p[i] /\ p[i] = up[i]
      /\ \A i \in (Len(up) + 1)..(Len(p) - 1) : Raised(p, up)[i] = p[i + 1]
  BY RaisedFacts, Zenon
<1>2. PICK r : r = Raised(p, up)
  BY Zenon
<1>3. PICK v : v = Upto(r, n)
  BY Zenon
<1>4. n \in 0..Len(r) /\ n \in 0..Len(p) /\ n + 1 \in 0..Len(p)
  BY <1>1, <1>2, SMT
<1>5. v \in Seq(Sides) /\ Len(v) = n /\ \A i \in 1..n : v[i] = r[i]
  BY <1>1, <1>2, <1>3, <1>4, UptoFacts, ZenonT(30)
<1>6. CASE n < Len(up)
  <2>1. Upto(p, n) \in Seq(Sides) /\ Len(Upto(p, n)) = n /\ \A i \in 1..n : Upto(p, n)[i] = p[i]
    BY <1>4, UptoFacts, Zenon
  <2>2. ASSUME NEW i \in 1..n PROVE v[i] = Upto(p, n)[i]
    <3>1. i \in 1..Len(up)
      BY <1>1, <1>6, SMT
    <3> QED
      BY <1>1, <1>2, <1>5, <2>1, <3>1, Zenon
  <2>3. v = Upto(p, n)
    BY <1>5, <2>1, <2>2, SamePlace, Zenon
  <2> QED
    BY <1>2, <1>3, <1>6, <2>3, Zenon
<1>7. CASE ~(n < Len(up))
  <2>1. PICK q : q = Upto(p, n + 1)
    BY Zenon
  <2>2. q \in Seq(Sides) /\ Len(q) = n + 1 /\ \A i \in 1..(n + 1) : q[i] = p[i]
    BY <1>4, <2>1, UptoFacts, Zenon
  <2>3. Below(q, Append(up, s))
    <3>1. Append(up, s) \in Seq(Sides) /\ Len(Append(up, s)) <= n + 1
      BY <1>1, <1>7, SMT
    <3> QED
      BY <1>4, <2>1, <3>1, BelowUpto, Zenon
  <2>4. PICK w : w = Raised(q, up)
    BY Zenon
  <2>5. /\ w \in Seq(Sides) /\ Len(w) = Len(q) - 1
        /\ \A i \in 1..Len(up) : w[i] = q[i]
        /\ \A i \in (Len(up) + 1)..(Len(q) - 1) : w[i] = q[i + 1]
    BY <2>2, <2>3, <2>4, RaisedFacts, ZenonT(30)
  <2>6. ASSUME NEW i \in 1..n PROVE w[i] = v[i]
    <3>1. i \in 1..(n + 1) /\ i + 1 \in 1..(n + 1)
      BY <1>4, SMT
    <3>2. q[i] = p[i] /\ q[i + 1] = p[i + 1] /\ v[i] = r[i]
      BY <1>5, <2>2, <3>1, Zenon
    <3>3. CASE i \in 1..Len(up)
      BY <1>1, <1>2, <2>5, <3>2, <3>3, Zenon
    <3>4. CASE i \notin 1..Len(up)
      <4>1. i \in (Len(up) + 1)..(Len(p) - 1) /\ i \in (Len(up) + 1)..(Len(q) - 1)
        BY <1>1, <2>2, <3>4, SMT
      <4> QED
        BY <1>1, <1>2, <2>5, <3>2, <4>1, Zenon
    <3> QED
      BY <3>3, <3>4, Zenon
  <2>7. Len(w) = n
    BY <2>2, <2>5, SMT
  <2>8. w = v
    BY <1>5, <2>5, <2>6, <2>7, SamePlace, Zenon
  <2> QED
    BY <1>2, <1>3, <1>7, <2>1, <2>3, <2>4, <2>8, Zenon
<1> QED
  BY <1>6, <1>7, Zenon

\* Raised places are as different as the places are.
LEMMA RaisedApart ==
    ASSUME NEW p \in Seq(Sides), NEW q \in Seq(Sides), NEW up \in Seq(Sides), NEW s \in Sides,
           Below(p, Append(up, s)), Below(q, Append(up, s)), Raised(p, up) = Raised(q, up)
    PROVE  p = q
<1>1. PICK r : r = Raised(p, up)
  BY Zenon
<1>2. /\ Len(p) \in Nat /\ Len(up) \in Nat /\ Len(up) < Len(p) /\ Len(r) = Len(p) - 1
      /\ \A i \in 1..Len(up) : p[i] = up[i]
      /\ p[Len(up) + 1] = s
      /\ \A i \in (Len(up) + 1)..(Len(p) - 1) : r[i] = p[i + 1]
  <2>1. /\ Len(p) \in Nat /\ Len(up) \in Nat /\ Len(up) < Len(p)
        /\ Len(Raised(p, up)) = Len(p) - 1 /\ p[Len(up) + 1] = s
        /\ \A i \in 1..Len(up) : Raised(p, up)[i] = p[i] /\ p[i] = up[i]
        /\ \A i \in (Len(up) + 1)..(Len(p) - 1) : Raised(p, up)[i] = p[i + 1]
    BY RaisedFacts, SMT
  <2> QED
    BY <1>1, <2>1, Zenon
<1>3. /\ Len(q) \in Nat /\ Len(r) = Len(q) - 1
      /\ \A i \in 1..Len(up) : q[i] = up[i]
      /\ q[Len(up) + 1] = s
      /\ \A i \in (Len(up) + 1)..(Len(q) - 1) : r[i] = q[i + 1]
  <2>1. /\ Len(q) \in Nat /\ Len(Raised(q, up)) = Len(q) - 1 /\ q[Len(up) + 1] = s
        /\ \A i \in 1..Len(up) : Raised(q, up)[i] = q[i] /\ q[i] = up[i]
        /\ \A i \in (Len(up) + 1)..(Len(q) - 1) : Raised(q, up)[i] = q[i + 1]
    BY RaisedFacts, SMTT(30)
  <2> QED
    BY <1>1, <2>1, Zenon
<1>4. Len(p) = Len(q)
  BY <1>2, <1>3, SMT
<1>5. ASSUME NEW i \in 1..Len(p) PROVE p[i] = q[i]
  <2>1. CASE i <= Len(up)
    BY <1>2, <1>3, <2>1, SMT
  <2>2. CASE i = Len(up) + 1
    BY <1>2, <1>3, <2>2, ZenonT(30)
  <2>3. CASE i > Len(up) + 1
    <3>1. i - 1 \in (Len(up) + 1)..(Len(p) - 1) /\ (i - 1) + 1 = i
      BY <1>2, <2>3, SMT
    <3> QED
      BY <1>2, <1>3, <1>4, <3>1, ZenonT(30)
  <2> QED
    BY <1>2, <2>1, <2>2, <2>3, SMT
<1> QED
  BY <1>4, <1>5, SamePlace, Zenon

\* The tree that closing leaves, and where its nodes were.
LiftedTo(p, at, up, sibling) ==
    IF Below(p, sibling) THEN up \o SubSeq(p, Len(at) + 1, Len(p)) ELSE p

Closed(t, at, up, sibling, staying) ==
    [p \in {LiftedTo(q, at, up, sibling) : q \in staying} |->
        t[CHOOSE q \in staying : LiftedTo(q, at, up, sibling) = p]]

\* Closing a pane: the sibling takes the place of the split above, no other leaf
\* goes, and none changes.
LEMMA CloseKeeps ==
    ASSUME NEW t, IsTree(t), NEW next, LeavesFit(t, next), NEW id \in PaneIds(t)
    PROVE  /\ IsTree(ClosePane(t, id)) /\ LeavesFit(ClosePane(t, id), next)
           /\ CountLeaves(t) > 1 => LeafPlaces(ClosePane(t, id)) # {}
<1>1. PICK u : u = ClosePane(t, id)
  BY Zenon
<1>2. PICK at : at = PlaceOf(t, id)
  BY Zenon
<1>3. at \in LeafPlaces(t)
  BY <1>2, PlaceFound, Zenon
<1>4. CASE IsLeaf(t[<<>>])
  <2>1. u = t
    BY <1>1, <1>4, Zenon DEF ClosePane
  <2> QED
    BY <1>1, <1>3, <2>1, Zenon
<1>5. CASE ~IsLeaf(t[<<>>])
  <2>1. at \in DOMAIN t /\ IsLeaf(t[at]) /\ at \in Seq(Sides) /\ at # <<>>
    BY <1>3, <1>5, Zenon DEF LeafPlaces, IsTree
  <2>2. Len(at) \in Nat /\ Len(at) >= 1 /\ at[Len(at)] \in Sides
        /\ Len(at) - 1 \in 0..Len(at) /\ Len(at) - 1 \in 0..(Len(at) - 1)
    BY <2>1, SMT
  <2>3. PICK up : up = Upto(at, Len(at) - 1)
    BY Zenon
  <2>4. up \in Seq(Sides) /\ Len(up) = Len(at) - 1 /\ up \in DOMAIN t /\ ~IsLeaf(t[up])
    <3>1. up \in Seq(Sides) /\ Len(up) = Len(at) - 1
      BY <2>1, <2>2, <2>3, UptoFacts, Zenon
    <3>2. up \in DOMAIN t /\ ~IsLeaf(t[up])
      BY <2>1, <2>2, <2>3, Zenon DEF IsTree
    <3> QED
      BY <3>1, <3>2, Zenon
  <2>5. PICK s : s = 3 - at[Len(at)]
    BY Zenon
  <2>6. s \in Sides
    BY <2>2, <2>5, SMT DEF Sides
  <2>7. PICK sibling : sibling = Append(up, s)
    BY Zenon
  <2>8. sibling \in Seq(Sides) /\ Len(sibling) = Len(up) + 1
    BY <2>4, <2>6, <2>7, AppendFacts, Zenon
  <2>9. PICK staying : staying = DOMAIN t \ {up, at}
    BY Zenon
  <2> DEFINE Lifted(p) == LiftedTo(p, at, up, sibling)
  <2>10. u = [p \in {Lifted(q) : q \in staying} |-> t[CHOOSE q \in staying : Lifted(q) = p]]
    <3>1. ClosePane(t, id) =
              LET a == PlaceOf(t, id)
                  v == Upto(a, Len(a) - 1)
                  b == Append(v, 3 - a[Len(a)])
              IN  Closed(t, a, v, b, DOMAIN t \ {v, a})
      BY <1>5, Zenon DEF ClosePane, Closed, LiftedTo
    <3>2. u = Closed(t, at, up, sibling, staying)
      BY <1>1, <1>2, <2>3, <2>5, <2>7, <2>9, <3>1, Zenon
    <3> QED
      BY <3>2, Zenon DEF Closed
  <2>11. \A p : Lifted(p) = IF Below(p, sibling) THEN Raised(p, up) ELSE p
    <3>1. Len(at) + 1 = Len(up) + 2
      BY <2>2, <2>4, SMT
    <3> QED
      BY <3>1, Zenon DEF Raised, LiftedTo
  <2> HIDE DEF Lifted
  <2>12. \A p \in staying : p \in DOMAIN t /\ p \in Seq(Sides) /\ p # up /\ p # at
    BY <2>9, Zenon DEF IsTree
  <2>13. ASSUME NEW p \in staying, Len(up) <= Len(p), Upto(p, Len(up)) = up
         PROVE  Below(p, sibling)
    <3>1. Below(p, Append(up, 1)) \/ Below(p, Append(up, 2))
      BY <2>4, <2>12, <2>13, EitherSide, Zenon
    <3>2. Append(up, at[Len(at)]) = at
      <4>1. Append(up, at[Len(at)]) \in Seq(Sides)
            /\ Len(Append(up, at[Len(at)])) = Len(at)
        BY <2>2, <2>4, SMT
      <4>2. \A i \in 1..(Len(at) - 1) : up[i] = at[i]
        BY <2>1, <2>2, <2>3, UptoFacts, ZenonT(30)
      <4>3. \A i \in 1..Len(at) : Append(up, at[Len(at)])[i] = at[i]
        BY <2>2, <2>4, <4>2, SMT
      <4> QED
        BY <2>1, <4>1, <4>3, SamePlace, Zenon
    <3>3. ~Below(p, at)
      BY <1>3, <2>12, NothingBelowLeaf, Zenon
    <3>4. (at[Len(at)] = 1 /\ s = 2) \/ (at[Len(at)] = 2 /\ s = 1)
      BY <2>2, <2>5, SMT DEF Sides
    <3> QED
      BY <2>7, <3>1, <3>2, <3>3, <3>4, Zenon
  <2>14. ASSUME NEW p \in staying, NEW q \in staying, Lifted(p) = Lifted(q)
         PROVE  p = q
    <3>1. ASSUME NEW v \in staying, NEW w \in staying, Below(v, sibling), Lifted(v) = Lifted(w)
          PROVE  v = w
      <4>1. Lifted(v) = Raised(v, up)
        BY <2>11, <3>1, Zenon
      <4>2. CASE Below(w, sibling)
        <5>1. Raised(v, up) = Raised(w, up)
          BY <2>11, <3>1, <4>1, <4>2, Zenon
        <5> QED
          BY <2>4, <2>6, <2>7, <2>12, <3>1, <4>2, <5>1, RaisedApart, Zenon
      <4>3. CASE ~Below(w, sibling)
        <5>1. w = Raised(v, up)
          BY <2>11, <3>1, <4>1, <4>3, Zenon
        <5>2. /\ Len(v) \in Nat /\ Len(up) < Len(v) /\ Len(w) = Len(v) - 1 /\ w \in Seq(Sides)
              /\ \A i \in 1..Len(up) : w[i] = v[i] /\ v[i] = up[i]
          <6>1. v \in Seq(Sides) /\ Below(v, Append(up, s))
            BY <2>7, <2>12, <3>1, Zenon
          <6>2. /\ Len(v) \in Nat /\ Len(up) < Len(v)
                /\ Raised(v, up) \in Seq(Sides) /\ Len(Raised(v, up)) = Len(v) - 1
                /\ \A i \in 1..Len(up) : Raised(v, up)[i] = v[i] /\ v[i] = up[i]
            BY <2>4, <2>6, <6>1, RaisedFacts, Zenon
          <6> QED
            BY <5>1, <6>2, Zenon
        <5>3. Len(up) <= Len(w) /\ Len(up) \in 0..Len(w)
          BY <2>4, <5>2, SMT
        <5>4. Upto(w, Len(up)) = up
          <6>1. Upto(w, Len(up)) \in Seq(Sides) /\ Len(Upto(w, Len(up))) = Len(up)
                /\ \A i \in 1..Len(up) : Upto(w, Len(up))[i] = w[i]
            BY <5>2, <5>3, UptoFacts, Zenon
          <6>2. \A i \in 1..Len(up) : Upto(w, Len(up))[i] = up[i]
            BY <5>2, <6>1, Zenon
          <6> QED
            BY <2>4, <6>1, <6>2, SamePlace, ZenonT(30)
        <5> QED
          BY <2>13, <4>3, <5>3, <5>4, Zenon
      <4> QED
        BY <4>2, <4>3, Zenon
    <3>2. CASE Below(p, sibling)
      BY <2>14, <3>1, <3>2, Zenon
    <3>3. CASE Below(q, sibling)
      BY <2>14, <3>1, <3>3, Zenon
    <3>4. CASE ~Below(p, sibling) /\ ~Below(q, sibling)
      BY <2>11, <2>14, <3>4, Zenon
    <3> QED
      BY <3>2, <3>3, <3>4, Zenon
  <2>15. DOMAIN u = {Lifted(q) : q \in staying}
    BY <2>10, Zenon
  <2>16. \A q \in staying : Lifted(q) \in DOMAIN u /\ u[Lifted(q)] = t[q]
    <3> SUFFICES ASSUME NEW q \in staying
                 PROVE  Lifted(q) \in DOMAIN u /\ u[Lifted(q)] = t[q]
      BY Zenon
    <3>1. (CHOOSE r \in staying : Lifted(r) = Lifted(q)) = q
      BY <2>14, Zenon
    <3>2. u[Lifted(q)] = t[CHOOSE r \in staying : Lifted(r) = Lifted(q)]
      BY <2>10, Zenon
    <3> QED
      BY <2>15, <3>1, <3>2, Zenon
  <2>17. u = [p \in DOMAIN u |-> u[p]]
    BY <2>10
  <2>18. DOMAIN u \subseteq Seq(Sides)
    <3> SUFFICES ASSUME NEW q \in staying
                 PROVE  Lifted(q) \in Seq(Sides)
      BY <2>15, Zenon
    <3>1. CASE Below(q, sibling)
      <4>1. Raised(q, up) \in Seq(Sides)
        BY <2>4, <2>6, <2>7, <2>12, <3>1, RaisedFacts, ZenonT(30)
      <4> QED
        BY <2>11, <3>1, <4>1, Zenon
    <3>2. CASE ~Below(q, sibling)
      BY <2>11, <2>12, <3>2, Zenon
    <3> QED
      BY <3>1, <3>2, Zenon
  <2>19. ASSUME NEW q \in staying, NEW n \in 0..(Len(Lifted(q)) - 1)
         PROVE  \E v \in staying : Upto(Lifted(q), n) = Lifted(v) /\ ~IsLeaf(t[v])
    <3>1. CASE ~Below(q, sibling)
      <4>1. Lifted(q) = q /\ q \in DOMAIN t /\ q \in Seq(Sides)
        BY <2>11, <2>12, <3>1, Zenon
      <4>2. n \in 0..(Len(q) - 1) /\ n \in 0..Len(q) /\ n < Len(q)
        BY <2>19, <4>1, SMT
      <4>3. PICK v : v = Upto(q, n)
        BY Zenon
      <4>4. v \in DOMAIN t /\ ~IsLeaf(t[v])
        BY <4>1, <4>2, <4>3, Zenon DEF IsTree
      <4>5. v # at
        BY <2>1, <4>4, Zenon
      <4>6. v # up
        <5> SUFFICES ASSUME v = up
                     PROVE  FALSE
          BY Zenon
        <5>1. Len(v) = n
          BY <4>1, <4>2, <4>3, UptoFacts, Zenon
        <5>2. Len(up) = n /\ Len(up) <= Len(q)
          BY <4>2, <5>1, SMT
        <5> QED
          BY <2>13, <3>1, <4>3, <5>2, Zenon
      <4>7. ~Below(v, sibling)
        BY <2>8, <3>1, <4>1, <4>2, <4>3, BelowUpto, Zenon
      <4> QED
        BY <2>9, <2>11, <4>1, <4>3, <4>4, <4>5, <4>6, <4>7, Zenon
    <3>2. CASE Below(q, sibling)
      <4>1. Lifted(q) = Raised(q, up) /\ q \in DOMAIN t /\ q \in Seq(Sides)
        BY <2>11, <2>12, <3>2, Zenon
      <4>2. Len(q) \in Nat /\ Len(up) \in Nat /\ Len(up) < Len(q) /\ Len(Lifted(q)) = Len(q) - 1
        BY <2>4, <2>6, <2>7, <3>2, <4>1, RaisedFacts, Zenon
      <4>3. /\ n \in 0..(Len(q) - 2) /\ n \in 0..(Len(q) - 1) /\ n \in 0..Len(q)
            /\ n + 1 \in 0..(Len(q) - 1) /\ n + 1 \in 0..Len(q) /\ n \in Int
        BY <2>19, <4>2, SMT
      <4>4. /\ n < Len(up) => Upto(Raised(q, up), n) = Upto(q, n)
            /\ ~(n < Len(up)) => /\ Below(Upto(q, n + 1), sibling)
                                 /\ Upto(Raised(q, up), n) = Raised(Upto(q, n + 1), up)
        BY <2>4, <2>6, <2>7, <3>2, <4>1, <4>3, RaisedUpto, ZenonT(30)
      <4>5. CASE n < Len(up)
        <5>1. PICK v : v = Upto(q, n)
          BY Zenon
        <5>2. v \in DOMAIN t /\ ~IsLeaf(t[v])
          BY <4>1, <4>3, <5>1, Zenon DEF IsTree
        <5>3. Len(v) = n
          BY <4>1, <4>3, <5>1, UptoFacts, ZenonT(30)
        <5>4. Len(v) # Len(up) /\ ~(Len(sibling) <= Len(v))
          BY <2>8, <4>2, <4>3, <4>5, <5>3, SMT
        <5>5. v # up /\ ~Below(v, sibling)
          BY <5>4, Zenon DEF Below
        <5> QED
          BY <2>1, <2>9, <2>11, <4>1, <4>4, <4>5, <5>1, <5>2, <5>5, Zenon
      <4>6. CASE ~(n < Len(up))
        <5>1. PICK v : v = Upto(q, n + 1)
          BY Zenon
        <5>2. v \in DOMAIN t /\ ~IsLeaf(t[v])
          BY <4>1, <4>3, <5>1, Zenon DEF IsTree
        <5>3. Len(v) = n + 1
          BY <4>1, <4>3, <5>1, UptoFacts, Zenon
        <5>4. Len(v) # Len(up)
          BY <4>2, <4>3, <4>6, <5>3, SMT
        <5> QED
          BY <2>1, <2>9, <2>11, <4>1, <4>4, <4>6, <5>1, <5>2, <5>4, Zenon
      <4> QED
        BY <4>5, <4>6, Zenon
    <3> QED
      BY <3>1, <3>2, Zenon
  <2>20. IsTree(u)
    <3> SUFFICES ASSUME NEW p \in DOMAIN u, NEW n \in 0..(Len(p) - 1)
                 PROVE  Upto(p, n) \in DOMAIN u /\ ~IsLeaf(u[Upto(p, n)])
      BY <2>17, <2>18, Zenon DEF IsTree
    <3>1. PICK q \in staying : p = Lifted(q)
      BY <2>15, Zenon
    <3>2. PICK v \in staying : Upto(p, n) = Lifted(v) /\ ~IsLeaf(t[v])
      BY <2>19, <3>1, Zenon
    <3> QED
      BY <2>16, <3>2, Zenon
  <2>21. PICK left : left = {q \in staying : IsLeaf(t[q])}
    BY Zenon
  <2>22. left \in SUBSET LeafPlaces(t)
    BY <2>12, <2>21, Zenon DEF LeafPlaces
  <2>23. \A p \in LeafPlaces(u) : \E q \in left : p = Lifted(q) /\ u[p] = t[q]
    BY <2>15, <2>16, <2>21, Zenon DEF LeafPlaces
  <2>24. \A q \in left : Lifted(q) \in LeafPlaces(u)
    BY <2>16, <2>21, Zenon DEF LeafPlaces
  <2>25. IsFiniteSet(LeafPlaces(u)) /\ Cardinality(LeafPlaces(u)) <= MaxPanes
    <3>1. IsFiniteSet(LeafPlaces(t)) /\ Cardinality(LeafPlaces(t)) <= MaxPanes
      BY Zenon DEF LeavesFit
    <3>2. IsFiniteSet(left) /\ Cardinality(left) <= Cardinality(LeafPlaces(t))
      BY <2>22, <3>1, FS_Subset, Zenon
    <3>3. PICK f : f = [q \in left |-> Lifted(q)]
      BY Zenon
    <3>4. f \in Surjection(left, LeafPlaces(u))
      BY <2>23, <2>24, <3>3, Zenon DEF Surjection
    <3>5. IsFiniteSet(LeafPlaces(u)) /\ Cardinality(LeafPlaces(u)) <= Cardinality(left)
      BY <3>2, <3>4, FS_Surjection, Zenon
    <3>6. /\ Cardinality(left) \in Nat /\ Cardinality(LeafPlaces(u)) \in Nat
          /\ Cardinality(LeafPlaces(t)) \in Nat
      BY <3>1, <3>2, <3>5, FS_CardinalityType, Zenon
    <3> QED
      BY <3>1, <3>2, <3>5, <3>6, PaneBounds, SMT
  <2>26. LeavesFit(u, next)
    BY <2>22, <2>23, <2>25, ZenonT(30) DEF LeavesFit
  <2>27. CountLeaves(t) > 1 => LeafPlaces(u) # {}
    <3> SUFFICES ASSUME CountLeaves(t) > 1, LeafPlaces(u) = {}
                 PROVE  FALSE
      BY Zenon
    <3>1. LeafPlaces(t) = {at}
      BY <1>3, <2>4, <2>9, <2>21, <2>24, Zenon DEF LeafPlaces
    <3>2. Cardinality({at}) = 1
      BY FS_Singleton, Zenon
    <3> QED
      BY <3>1, <3>2, SMT DEF CountLeaves
  <2> QED
    BY <1>1, <2>20, <2>26, <2>27, Zenon
<1> QED
  BY <1>4, <1>5, Zenon

\* A tree with leaves has a first one.
LEMMA FirstLeafThere ==
    ASSUME NEW t, NEW next, LeavesFit(t, next), LeafPlaces(t) # {}
    PROVE  FirstLeaf(t, LeafPlaces(t)).id \in PaneIds(t)
<1>1. \A p \in LeafPlaces(t) : LeafIndex(t, p) \in Nat
  <2> SUFFICES ASSUME NEW p \in LeafPlaces(t)
               PROVE  LeafIndex(t, p) \in Nat
    BY Zenon
  <2>1. PICK S : S = {q \in LeafPlaces(t) : LeftOf(q, p)}
    BY Zenon
  <2>2. S \in SUBSET LeafPlaces(t) /\ IsFiniteSet(LeafPlaces(t))
    BY <2>1, Zenon DEF LeavesFit
  <2>3. Cardinality(S) \in Nat
    BY <2>2, FS_Subset, FS_CardinalityType, Zenon
  <2> QED
    BY <2>1, <2>3, Zenon DEF LeafIndex
<1>2. PICK T : T = {LeafIndex(t, p) : p \in LeafPlaces(t)}
  BY Zenon
<1>3. T \subseteq Nat /\ T # {}
  BY <1>1, <1>2, Zenon
<1>4. PICK i \in T : \A j \in T : ~(<<j, i>> \in OpToRel(<, Nat))
  BY <1>3, NatLessThanWellFounded, WFMin, ZenonT(30)
<1>5. \A j \in T : ~(j < i)
  BY <1>3, <1>4, Zenon DEF OpToRel
<1>6. PICK p \in LeafPlaces(t) : i = LeafIndex(t, p)
  BY <1>2, Zenon
<1>7. ASSUME NEW q \in LeafPlaces(t) PROVE LeafIndex(t, p) <= LeafIndex(t, q)
  <2>1. PICK j \in T : j = LeafIndex(t, q)
    BY <1>2, Zenon
  <2>2. i \in Nat /\ j \in Nat /\ ~(j < i)
    BY <1>3, <1>5, Zenon
  <2>3. i <= j
    BY <2>2, SMT
  <2> QED
    BY <1>6, <2>1, <2>3, Zenon
<1>8. (CHOOSE v \in LeafPlaces(t) : \A q \in LeafPlaces(t) : LeafIndex(t, v) <= LeafIndex(t, q))
          \in LeafPlaces(t)
  BY <1>7, Zenon
<1> QED
  BY <1>8, Zenon DEF FirstLeaf, PaneIds

\* A layout as a record.
LayoutParts == {"root", "active", "primary"}
IsLayout(l) == l = [x \in LayoutParts |-> l[x]]

WithRoot(l, r) == [l EXCEPT !.root = r]
WithActive(l, a) == [l EXCEPT !.active = a]
WithBoth(l, r, a) == [l EXCEPT !.root = r, !.active = a]

\* A state with another tree.
LEMMA RootChanged ==
    ASSUME NEW l, IsLayout(l), NEW v
    PROVE  LET m == WithRoot(l, v) IN IsLayout(m) /\ m.root = v /\ m.active = l.active /\ m.primary = l.primary
<1>1. PICK e : e = [x \in LayoutParts |-> IF x = "root" THEN v ELSE l[x]]
  BY Zenon
<1>2. WithRoot(l, v) = e
  BY <1>1, Zenon DEF IsLayout, WithRoot
<1>3. IsLayout(e)
  BY <1>1, Zenon DEF IsLayout
<1>4. e.root = v /\ e.active = l.active /\ e.primary = l.primary
  BY <1>1, Zenon DEF LayoutParts
<1> QED
  BY <1>2, <1>3, <1>4, Zenon

\* A state with another active pane.
LEMMA ActiveChanged ==
    ASSUME NEW l, IsLayout(l), NEW v
    PROVE  LET m == WithActive(l, v) IN IsLayout(m) /\ m.active = v /\ m.root = l.root /\ m.primary = l.primary
<1>1. PICK e : e = [x \in LayoutParts |-> IF x = "active" THEN v ELSE l[x]]
  BY Zenon
<1>2. WithActive(l, v) = e
  BY <1>1, Zenon DEF IsLayout, WithActive
<1>3. IsLayout(e)
  BY <1>1, Zenon DEF IsLayout
<1>4. e.active = v /\ e.root = l.root /\ e.primary = l.primary
  BY <1>1, Zenon DEF LayoutParts
<1> QED
  BY <1>2, <1>3, <1>4, Zenon

\* A state with another tree and another active pane.
LEMMA BothChanged ==
    ASSUME NEW l, IsLayout(l), NEW r, NEW v
    PROVE  LET m == WithBoth(l, r, v)
           IN  IsLayout(m) /\ m.root = r /\ m.active = v /\ m.primary = l.primary
<1>1. PICK e : e = [x \in LayoutParts |-> IF x = "active" THEN v ELSE IF x = "root" THEN r ELSE l[x]]
  BY Zenon
<1>2. WithBoth(l, r, v) = e
  BY <1>1, ZenonT(30) DEF IsLayout, WithBoth
<1>3. IsLayout(e)
  BY <1>1, Zenon DEF IsLayout
<1>4. e.root = r /\ e.active = v /\ e.primary = l.primary
  BY <1>1, Zenon DEF LayoutParts
<1> QED
  BY <1>2, <1>3, <1>4, Zenon

\* A layout on screen: its panes fit, and it is saved under a document or not at all.
ScreenFits(l, next) == IsLayout(l) /\ LayoutFits(l, next) /\ l.primary \in Docs \cup {NoDoc}

\* The default layout, and one read back for a document.
LEMMA DefaultFits ==
    ASSUME NEW d \in Docs \cup {NoDoc}, NEW next \in Int, 2 <= next
    PROVE  ScreenFits(DefaultLayout(d), next) /\ DefaultLayout(d).primary = d
<1>1. PICK t : t = OnlyPane(Leaf(1, NoDoc))
  BY Zenon
<1>2. 1 < next /\ 1 \in Int
  BY SMT
<1>3. IsTree(t) /\ LeavesFit(t, next) /\ PaneIds(t) = {1}
  BY <1>1, <1>2, OnePaneFits, Zenon
<1>4. PICK l : l = [root |-> t, active |-> 1, primary |-> d]
  BY Zenon
<1>5. IsLayout(l)
  BY <1>4, Zenon DEF IsLayout, LayoutParts
<1>6. l.root = t /\ l.active = 1 /\ l.primary = d
  BY <1>4, Zenon
<1>7. DefaultLayout(d) = l
  BY <1>1, <1>4, Zenon DEF DefaultLayout
<1> QED
  BY <1>3, <1>5, <1>6, <1>7, Zenon DEF ScreenFits, LayoutFits

\* OPEN_DOCUMENT_IN_PANE keeps the panes, whichever it is told.
LEMMA OpenFits ==
    ASSUME NEW l, NEW next, ScreenFits(l, next), NEW id, NEW doc
    PROVE  ScreenFits(ReduceOpen(l, id, doc), next) /\ ReduceOpen(l, id, doc).primary = l.primary
<1>1. PICK r : r = OpenDocumentInPane(l.root, id, doc)
  BY Zenon
<1>2. IsTree(r) /\ LeavesFit(r, next) /\ PaneIds(r) = PaneIds(l.root)
  BY <1>1, OpenKeeps, Zenon DEF ScreenFits, LayoutFits
<1>3. PICK m : m = WithRoot(l, r)
  BY Zenon
<1>4. IsLayout(m) /\ m.root = r /\ m.active = l.active /\ m.primary = l.primary
  BY <1>3, RootChanged, Zenon DEF ScreenFits
<1>5. ScreenFits(m, next)
  BY <1>2, <1>4, Zenon DEF ScreenFits, LayoutFits
<1>6. ReduceOpen(l, id, doc) = m
  BY <1>1, <1>3, Zenon DEF ReduceOpen, WithRoot
<1> QED
  BY <1>4, <1>5, <1>6, Zenon

\* SET_ACTIVE_PANE is refused for a pane that is not there.
LEMMA SetActiveFits ==
    ASSUME NEW l, NEW next, ScreenFits(l, next), NEW id
    PROVE  ScreenFits(ReduceSetActive(l, id), next) /\ ReduceSetActive(l, id).primary = l.primary
<1>1. PICK a : a = IF id \in PaneIds(l.root) THEN id ELSE l.active
  BY Zenon
<1>2. PICK m : m = WithActive(l, a)
  BY Zenon
<1>3. IsLayout(m) /\ m.root = l.root /\ m.active = a /\ m.primary = l.primary
  BY <1>2, ActiveChanged, Zenon DEF ScreenFits
<1>4. a \in PaneIds(l.root)
  BY <1>1, Zenon DEF ScreenFits, LayoutFits
<1>5. ScreenFits(m, next)
  BY <1>3, <1>4, Zenon DEF ScreenFits, LayoutFits
<1>6. ReduceSetActive(l, id) = m
  BY <1>1, <1>2, Zenon DEF ReduceSetActive, WithActive
<1> QED
  BY <1>3, <1>5, <1>6, Zenon

\* SWAP_PANE_DOCUMENTS exchanges documents only.
LEMMA SwapFits ==
    ASSUME NEW l, NEW next, ScreenFits(l, next), NEW a, NEW b
    PROVE  ScreenFits(ReduceSwap(l, a, b), next) /\ ReduceSwap(l, a, b).primary = l.primary
<1>1. PICK r : r = SwapPaneDocuments(l.root, a, b)
  BY Zenon
<1>2. IsTree(l.root) /\ LeavesFit(l.root, next)
  BY Zenon DEF ScreenFits, LayoutFits
<1>3. IsTree(r) /\ LeavesFit(r, next) /\ PaneIds(r) = PaneIds(l.root)
  <2>1. CASE {a, b} \subseteq PaneIds(l.root)
    <3>1. PICK q : q = OpenDocumentInPane(l.root, a, FindPane(l.root, b).doc)
      BY Zenon
    <3>2. IsTree(q) /\ LeavesFit(q, next) /\ PaneIds(q) = PaneIds(l.root)
      BY <1>2, <3>1, OpenKeeps, Zenon
    <3>3. r = OpenDocumentInPane(q, b, FindPane(l.root, a).doc)
      BY <1>1, <2>1, <3>1, Zenon DEF SwapPaneDocuments
    <3> QED
      BY <3>2, <3>3, OpenKeeps, ZenonT(30)
  <2>2. CASE ~({a, b} \subseteq PaneIds(l.root))
    BY <1>1, <1>2, <2>2, Zenon DEF SwapPaneDocuments
  <2> QED
    BY <2>1, <2>2, Zenon
<1>4. PICK m : m = WithRoot(l, r)
  BY Zenon
<1>5. IsLayout(m) /\ m.root = r /\ m.active = l.active /\ m.primary = l.primary
  BY <1>4, RootChanged, Zenon DEF ScreenFits
<1>6. ScreenFits(m, next)
  BY <1>3, <1>5, Zenon DEF ScreenFits, LayoutFits
<1>7. ReduceSwap(l, a, b) = m
  BY <1>1, <1>4, Zenon DEF ReduceSwap, WithRoot
<1> QED
  BY <1>5, <1>6, <1>7, Zenon

\* SPLIT_PANE below the limit adds the fresh pane and makes it active.
LEMMA SplitFits ==
    ASSUME NEW l, NEW next \in Int, ScreenFits(l, next), NEW id \in PaneIds(l.root),
           CountLeaves(l.root) < MaxPanes, NEW dir
    PROVE  LET m == WithBoth(l, SplitPane(l.root, id, dir, next), next)
           IN  ScreenFits(m, next + 1) /\ m.primary = l.primary
<1>1. PICK r : r = SplitPane(l.root, id, dir, next)
  BY Zenon
<1>2. IsTree(r) /\ LeavesFit(r, next + 1) /\ next \in PaneIds(r)
  BY <1>1, SplitKeeps, Zenon DEF ScreenFits, LayoutFits
<1>3. PICK a : a = next
  BY Zenon
<1>4. PICK m : m = WithBoth(l, r, a)
  BY Zenon
<1>5. IsLayout(l)
  BY Zenon DEF ScreenFits
<1>6. IsLayout(m) /\ m.root = r /\ m.active = a /\ m.primary = l.primary
  BY <1>4, <1>5, BothChanged, SMT
<1>7. ScreenFits(m, next + 1)
  BY <1>2, <1>3, <1>6, Zenon DEF ScreenFits, LayoutFits
<1> QED
  BY <1>1, <1>3, <1>4, <1>6, <1>7, Zenon

\* CLOSE_PANE above one pane leaves an active pane, the first if need be.
LEMMA CloseFits ==
    ASSUME NEW l, NEW next, ScreenFits(l, next), NEW id \in PaneIds(l.root), CountLeaves(l.root) > 1
    PROVE  ScreenFits(ReduceClose(l, id), next) /\ ReduceClose(l, id).primary = l.primary
<1>1. PICK r : r = ClosePane(l.root, id)
  BY Zenon
<1>2. IsTree(r) /\ LeavesFit(r, next) /\ LeafPlaces(r) # {}
  BY <1>1, CloseKeeps, Zenon DEF ScreenFits, LayoutFits
<1>3. PICK a : a = IF l.active \in PaneIds(r) THEN l.active ELSE FirstLeaf(r, LeafPlaces(r)).id
  BY Zenon
<1>4. a \in PaneIds(r)
  BY <1>2, <1>3, FirstLeafThere, Zenon
<1>5. PICK m : m = WithBoth(l, r, a)
  BY Zenon
<1>6. IsLayout(m) /\ m.root = r /\ m.active = a /\ m.primary = l.primary
  <2>1. IsLayout(l)
    BY Zenon DEF ScreenFits
  <2> QED
    BY <1>5, <2>1, BothChanged, SMT
<1>7. ScreenFits(m, next)
  BY <1>2, <1>4, <1>6, Zenon DEF ScreenFits, LayoutFits
<1>8. ReduceClose(l, id) = m
  BY <1>1, <1>3, <1>5, Zenon DEF ReduceClose, WithBoth
<1> QED
  BY <1>6, <1>7, <1>8, Zenon

\* A layout stored and one restored.
LEMMA StoreFits ==
    ASSUME NEW l, NEW next, LayoutFits(l, next)
    PROVE  LayoutFits(Stored(l), next)
<1>1. Stored(l).root = l.root /\ Stored(l).active = l.active
  BY Zenon DEF Stored
<1> QED
  BY <1>1, Zenon DEF LayoutFits

\* A stored layout that fits is restored as it is.
LEMMA RestoreFits ==
    ASSUME NEW e, NEW next, LayoutFits(e, next), NEW d \in Docs
    PROVE  ScreenFits(RestoreLayout(e, d), next) /\ RestoreLayout(e, d).primary = d
<1>1. PICK l : l = [root |-> e.root, active |-> e.active, primary |-> d]
  BY Zenon
<1>2. IsLayout(l)
  BY <1>1, Zenon DEF IsLayout, LayoutParts
<1>3. l.root = e.root /\ l.active = e.active /\ l.primary = d
  BY <1>1, Zenon
<1>4. RestoreLayout(e, d) = l
  BY <1>1, Zenon DEF RestoreLayout, ValidateLayout, CountLeaves, LayoutFits, LeavesFit
<1> QED
  BY <1>2, <1>3, <1>4, Zenon DEF ScreenFits, LayoutFits

\* What loadAndRestoreLayout answers is a layout of that document that fits.
LEMMA LoadFits ==
    ASSUME NEW store, NEW next \in Int, 2 <= next, NEW d \in Docs, LayoutFits(store[d], next)
    PROVE  ScreenFits(LoadAndRestoreLayout(store, d), next) /\ LoadAndRestoreLayout(store, d).primary = d
<1>1. CASE store[d] # NoLayout
  BY <1>1, RestoreFits, Zenon DEF LoadAndRestoreLayout
<1>2. CASE store[d] = NoLayout
  <2>1. PICK l : l = DefaultLayout(d)
    BY Zenon
  <2>2. ScreenFits(l, next) /\ l.primary = d
    BY <2>1, DefaultFits, Zenon
  <2>3. LoadAndRestoreLayout(store, d) = ReduceOpen(l, 1, d)
    BY <1>2, <2>1, Zenon DEF LoadAndRestoreLayout, ReduceOpen
  <2>4. ScreenFits(ReduceOpen(l, 1, d), next) /\ ReduceOpen(l, 1, d).primary = l.primary
    BY <2>2, OpenFits, Zenon
  <2> QED
    BY <2>2, <2>3, <2>4, Zenon
<1> QED
  BY <1>1, <1>2, Zenon

----------------------------------------------------------------------------
(* The page history.                                                       *)

ShownPages == {Dashboard} \cup {DocumentPage(d) : d \in Docs}

\* What keeps the history and its store together: both are at the entry on
\* screen, and the frontier is an entry there is.
HistoryInvariant ==
    /\ persistedNav \in ShownPages /\ history \in Seq(ShownPages) /\ pendingNav \in Seq(ShownPages)
    /\ traversals \in Seq({-1, 1})
    /\ pos \in Nat /\ pos < Len(history)
    /\ navMax \in Int /\ navMax < Len(history)
    /\ navIndex = pos /\ page = history[pos + 1]

\* A page that shows a document shows one of the documents.
LEMMA PageShows ==
    ASSUME NEW target \in ShownPages, target.name = "document"
    PROVE  target.doc \in Docs
<1>1. target # Dashboard
  BY SMT DEF Dashboard
<1>2. PICK d \in Docs : target = DocumentPage(d)
  BY <1>1, Zenon DEF ShownPages
<1> QED
  BY <1>2, Zenon DEF DocumentPage

\* The history does not move.
LEMMA HistoryRests ==
    ASSUME HistoryInvariant, UNCHANGED historyVars, UNCHANGED page, pendingNav' \in Seq(ShownPages),
           traversals' \in Seq({-1, 1})
    PROVE  HistoryInvariant'
BY Zenon DEF HistoryInvariant, historyVars, ShownPages, Dashboard, DocumentPage

\* A navigation pushes its page after the one on screen.
LEMMA HistoryPushed ==
    ASSUME HistoryInvariant, NEW target \in ShownPages, OnNavigateRaw(target),
           pendingNav' \in Seq(ShownPages), UNCHANGED traversals
    PROVE  HistoryInvariant'
<1>1. /\ page' = target /\ persistedNav' = target /\ history' = Append(SubSeq(history, 1, pos + 1), target)
      /\ pos' = pos + 1 /\ navIndex' = navIndex + 1 /\ navMax' = navIndex + 1
  BY Zenon DEF OnNavigateRaw, ShowPage, RecordPush
<1>2. PICK P : P = ShownPages
  BY Zenon
<1>3. /\ history \in Seq(P) /\ pos \in Nat /\ pos < Len(history) /\ navIndex = pos /\ target \in P
  BY <1>2, Zenon DEF HistoryInvariant
<1>4. PICK h : h = SubSeq(history, 1, pos + 1)
  BY Zenon
<1>5. h \in Seq(P) /\ Len(h) = pos + 1
  BY <1>3, <1>4, SMT
<1>6. PICK k : k = Append(h, target)
  BY Zenon
<1>7. k \in Seq(P) /\ Len(k) = pos + 2 /\ k[pos + 2] = target
  BY <1>3, <1>5, <1>6, SMT
<1>8. history' = k
  BY <1>1, <1>4, <1>6, Zenon
<1>9. /\ pos' \in Nat /\ pos' < Len(k) /\ navMax' \in Int /\ navMax' < Len(k) /\ navIndex' = pos'
      /\ pos' + 1 = pos + 2
  BY <1>1, <1>3, <1>7, SMT
<1>10. ShownPages' = ShownPages
  BY Zenon DEF ShownPages, Dashboard, DocumentPage
<1> QED
  BY <1>1, <1>2, <1>3, <1>7, <1>8, <1>9, <1>10, Zenon DEF HistoryInvariant

\* The answer of the webview moves both to the entry it shows.
LEMMA HistoryMoved ==
    ASSUME HistoryInvariant, HandlePopState
    PROVE  HistoryInvariant'
<1>0. traversals \in Seq({-1, 1}) /\ traversals # <<>> /\ traversals' = Tail(traversals)
  BY Zenon DEF HistoryInvariant, HandlePopState
<1>1. traversals' \in Seq({-1, 1})
  BY <1>0, SMT
<1>2. PICK to : to = pos + traversals[1]
  BY Zenon
<1>3. CASE to \in 0 .. Len(history) - 1
  <2>1. /\ page' = history[to + 1] /\ pos' = to /\ navIndex' = to
        /\ navMax' = IF to > navMax THEN to ELSE navMax
        /\ history' = history /\ persistedNav' = persistedNav /\ pendingNav' = pendingNav
    BY <1>2, <1>3, Zenon DEF HandlePopState, ShowPage
  <2>2. Len(history) \in Nat /\ navMax \in Int /\ navMax < Len(history)
    BY SMT DEF HistoryInvariant
  <2>3. to \in Nat /\ to < Len(history) /\ navMax' \in Int /\ navMax' < Len(history)
    BY <1>3, <2>1, <2>2, SMT
  <2> QED
    BY <1>1, <2>1, <2>3, Zenon DEF HistoryInvariant, ShownPages, Dashboard, DocumentPage
<1>4. CASE to \notin 0 .. Len(history) - 1
  <2>1. UNCHANGED <<panes, storeVars, page, lastOpened, historyVars, dirtyError,
                    pendingNav, nextPane, paneEdits, navs>>
    BY <1>2, <1>4, Zenon DEF HandlePopState
  <2>2. UNCHANGED historyVars /\ UNCHANGED page /\ pendingNav' = pendingNav
    BY <2>1, Zenon
  <2> QED
    BY <1>1, <2>2, HistoryRests, Zenon DEF HistoryInvariant
<1> QED
  BY <1>3, <1>4, Zenon

\* An edit of the panes leaves the history alone.
LEMMA HistoryApart ==
    ASSUME HistoryInvariant, NEW new, Edited(new)
    PROVE  HistoryInvariant'
<1>1. UNCHANGED historyVars /\ UNCHANGED page /\ pendingNav' = pendingNav /\ traversals' = traversals
  BY Zenon DEF Edited
<1> QED
  BY <1>1, HistoryRests, Zenon DEF HistoryInvariant

\* A guarded navigation is pushed or waits for the dialog.
LEMMA HistoryGuarded ==
    ASSUME HistoryInvariant, NEW target \in ShownPages, GuardedNavigate(target)
    PROVE  HistoryInvariant'
<1>1. CASE dirtyError
  <2>1. /\ pendingNav' = <<target>> /\ UNCHANGED historyVars /\ UNCHANGED page
        /\ traversals' = traversals
    BY <1>1, Zenon DEF GuardedNavigate
  <2>2. pendingNav' \in Seq(ShownPages)
    BY <2>1, SMT
  <2> QED
    BY <2>1, <2>2, HistoryRests, Zenon DEF HistoryInvariant
<1>2. CASE ~dirtyError
  <2>1. OnNavigateRaw(target) /\ pendingNav' = pendingNav /\ UNCHANGED traversals
    BY <1>2, Zenon DEF GuardedNavigate
  <2> QED
    BY <2>1, HistoryPushed, Zenon DEF HistoryInvariant
<1> QED
  BY <1>1, <1>2, Zenon

\* The pages of the entries.
LEMMA EntryShown ==
    ASSUME HistoryInvariant
    PROVE  /\ page \in ShownPages
           /\ \A to \in 0 .. Len(history) - 1 : history[to + 1] \in ShownPages
           /\ pendingNav # <<>> => pendingNav[1] \in ShownPages
<1>1. PICK P : P = ShownPages
  BY Zenon
<1>2. /\ history \in Seq(P) /\ pendingNav \in Seq(P) /\ pos \in Nat /\ pos < Len(history)
      /\ page = history[pos + 1]
  BY <1>1, Zenon DEF HistoryInvariant
<1>3. \A to \in 0 .. Len(history) - 1 : history[to + 1] \in P
  BY <1>2, SMT
<1>4. pendingNav # <<>> => pendingNav[1] \in P
  BY <1>2, SMT
<1>5. history[pos + 1] \in P
  BY <1>2, SMT
<1> QED
  BY <1>1, <1>2, <1>3, <1>4, <1>5, Zenon

\* Every step keeps the history and its store together.
LEMMA HistoryStep ==
    ASSUME HistoryInvariant, [PaneNext]_paneVars
    PROVE  HistoryInvariant'
<1>1. CASE \/ \E id \in PaneIds(panes.root), dir \in {"horizontal", "vertical"} : Split(id, dir)
           \/ \E id \in PaneIds(panes.root) : Close(id)
           \/ \E id \in PaneIds(panes.root), d \in Docs : OpenFromPicker(id, d)
           \/ \E source, id \in PaneIds(panes.root) : DropPane(source, id)
           \/ \E dir \in {"horizontal", "vertical"}, toward \in {1, 2} : FocusDirection(dir, toward)
           \/ \E id \in PaneIds(panes.root) : FocusPane(id)
           \/ ResetLayout
  <2>1. PICK new : Edited(new)
    BY <1>1, Zenon DEF Split, Close, OpenFromPicker, DropPane, FocusDirection, FocusPane, ResetLayout
  <2> QED
    BY <2>1, HistoryApart, Zenon
<1>2. CASE SaveTimerFires \/ DirtyErrorChanges \/ UNCHANGED paneVars
  <2>1. UNCHANGED historyVars /\ UNCHANGED page /\ pendingNav' = pendingNav /\ traversals' = traversals
    BY <1>2, Zenon DEF SaveTimerFires, DirtyErrorChanges, paneVars, historyVars
  <2> QED
    BY <2>1, HistoryRests, Zenon DEF HistoryInvariant
<1>3. CASE \E target \in {Dashboard} \cup {DocumentPage(d) : d \in Docs} : GuardedNavigate(target)
  BY <1>3, HistoryGuarded, Zenon DEF ShownPages
<1>4. CASE \E id \in PaneIds(panes.root), d \in Docs : PaneNavigate(id, d)
  <2>1. PICK id \in PaneIds(panes.root), d \in Docs : PaneNavigate(id, d)
    BY <1>4, Zenon
  <2>2. DocumentPage(d) \in ShownPages
    BY Zenon DEF ShownPages
  <2>3. CASE dirtyError
    <3>1. /\ pendingNav' = <<DocumentPage(d)>> /\ UNCHANGED historyVars /\ UNCHANGED page
          /\ traversals' = traversals
      BY <2>1, <2>3, Zenon DEF PaneNavigate
    <3>2. pendingNav' \in Seq(ShownPages)
      BY <2>2, <3>1, SMT
    <3> QED
      BY <3>1, <3>2, HistoryRests, Zenon DEF HistoryInvariant
  <2>4. CASE ~dirtyError
    <3>1. OnNavigateRaw(DocumentPage(d)) /\ pendingNav' = pendingNav /\ UNCHANGED traversals
      BY <2>1, <2>4, Zenon DEF PaneNavigate
    <3> QED
      BY <2>2, <3>1, HistoryPushed, Zenon DEF HistoryInvariant
  <2> QED
    BY <2>3, <2>4, Zenon
<1>5. CASE EscapeEmptyPane
  <2>1. Dashboard \in ShownPages
    BY Zenon DEF ShownPages
  <2>2. Edited(ReduceClose(panes, panes.active)) \/ GuardedNavigate(Dashboard)
    BY <1>5, Zenon DEF EscapeEmptyPane
  <2> QED
    BY <2>1, <2>2, HistoryApart, HistoryGuarded, Zenon
<1>6. CASE ConfirmNavigation
  <2>1. /\ OnNavigateRaw(pendingNav[1]) /\ pendingNav # <<>> /\ pendingNav' = <<>> /\ UNCHANGED traversals
    BY <1>6, Zenon DEF ConfirmNavigation
  <2>2. pendingNav' \in Seq(ShownPages)
    BY <2>1, SMT
  <2>3. pendingNav[1] \in ShownPages
    BY <2>1, EntryShown, Zenon
  <2> QED
    BY <2>1, <2>2, <2>3, HistoryPushed, Zenon
<1>7. CASE CancelNavigation
  <2>1. /\ pendingNav' = <<>> /\ UNCHANGED historyVars /\ UNCHANGED page /\ traversals' = traversals
    BY <1>7, Zenon DEF CancelNavigation
  <2>2. pendingNav' \in Seq(ShownPages)
    BY <2>1, SMT
  <2> QED
    BY <2>1, <2>2, HistoryRests, Zenon DEF HistoryInvariant
<1>8. CASE GoBack \/ GoForward
  <2>1. /\ traversals' = Append(traversals, -1) \/ traversals' = Append(traversals, 1)
        /\ UNCHANGED historyVars /\ UNCHANGED page /\ pendingNav' = pendingNav
    BY <1>8, Zenon DEF GoBack, GoForward
  <2>2. traversals \in Seq({-1, 1})
    BY Zenon DEF HistoryInvariant
  <2>3. traversals' \in Seq({-1, 1})
    BY <2>1, <2>2, SMT
  <2> QED
    BY <2>1, <2>3, HistoryRests, Zenon DEF HistoryInvariant
<1>9. CASE HandlePopState
  BY <1>9, HistoryMoved, Zenon
<1>10. CASE Restart
  <2>1. /\ page' = persistedNav /\ history' = <<persistedNav>> /\ pos' = 0 /\ navIndex' = 0 /\ navMax' = 0
        /\ persistedNav' = persistedNav /\ traversals' = <<>> /\ pendingNav' = <<>>
    BY <1>10, Zenon DEF Restart, MountedOn
  <2>2. PICK P : P = ShownPages
    BY Zenon
  <2>3. persistedNav \in P
    BY <2>2, Zenon DEF HistoryInvariant
  <2>4. history' \in Seq(P) /\ Len(history') = 1 /\ history'[1] = persistedNav
    BY <2>1, <2>3, SMT
  <2>5. pendingNav' \in Seq(P) /\ traversals' \in Seq({-1, 1})
    BY <2>1, SMT
  <2>6. /\ pos' \in Nat /\ pos' < Len(history') /\ navMax' \in Int /\ navMax' < Len(history')
        /\ navIndex' = pos' /\ page' = history'[pos' + 1]
    BY <2>1, <2>4, SMT
  <2>7. ShownPages' = ShownPages
    BY Zenon DEF ShownPages, Dashboard, DocumentPage
  <2> QED
    BY <2>1, <2>2, <2>3, <2>4, <2>5, <2>6, <2>7, Zenon DEF HistoryInvariant
<1>11. CASE Reload
  <2>1. /\ page' = history[pos + 1] /\ history' = history /\ pos' = pos /\ navIndex' = pos /\ navMax' = pos
        /\ persistedNav' = persistedNav /\ traversals' = <<>> /\ pendingNav' = <<>>
    BY <1>11, Zenon DEF Reload, MountedOn
  <2>2. PICK P : P = ShownPages
    BY Zenon
  <2>3. persistedNav \in P /\ history \in Seq(P) /\ pos \in Nat /\ pos < Len(history)
    BY <2>2, Zenon DEF HistoryInvariant
  <2>4. pendingNav' \in Seq(P) /\ traversals' \in Seq({-1, 1})
    BY <2>1, SMT
  <2>5. navMax' \in Int /\ navMax' < Len(history)
    BY <2>1, <2>3, SMT
  <2>6. ShownPages' = ShownPages
    BY Zenon DEF ShownPages, Dashboard, DocumentPage
  <2> QED
    BY <2>1, <2>2, <2>3, <2>4, <2>5, <2>6, Zenon DEF HistoryInvariant
<1> QED
  BY <1>1, <1>2, <1>3, <1>4, <1>5, <1>6, <1>7, <1>8, <1>9, <1>10, <1>11, ZenonT(30) DEF PaneNext

\* The application starts on the dashboard.
LEMMA HistoryStart ==
    ASSUME PaneInit
    PROVE  HistoryInvariant
<1>1. /\ page = Dashboard /\ persistedNav = Dashboard /\ history = <<Dashboard>> /\ pos = 0
      /\ traversals = <<>> /\ navIndex = 0 /\ navMax = 0 /\ pendingNav = <<>>
  BY Zenon DEF PaneInit
<1>2. Dashboard \in ShownPages
  BY Zenon DEF ShownPages
<1>3. /\ history \in Seq(ShownPages) /\ Len(history) = 1 /\ history[1] = Dashboard
      /\ pendingNav \in Seq(ShownPages) /\ traversals \in Seq({-1, 1})
  BY <1>1, <1>2, SMT
<1>4. /\ pos \in Nat /\ pos < Len(history) /\ navMax \in Int /\ navMax < Len(history)
      /\ navIndex = pos /\ page = history[pos + 1]
  BY <1>1, <1>3, SMT
<1> QED
  BY <1>1, <1>2, <1>3, <1>4, Zenon DEF HistoryInvariant

\* The back and forward buttons tell the truth: after any navigations, guarded
\* or not, answers of the webview in any order, reloads and restarts,
\* navHistory.store stands at the entry on screen and offers a way forward only
\* when there is one.
THEOREM HistoryTold == PaneSpec => []HistoryMirrored
<1>1. PaneInit => HistoryInvariant
  BY HistoryStart, Zenon
<1>2. HistoryInvariant /\ [PaneNext]_paneVars => HistoryInvariant'
  BY HistoryStep, Zenon
<1>3. HistoryInvariant => HistoryMirrored
  <2> SUFFICES ASSUME HistoryInvariant PROVE HistoryMirrored
    BY Zenon
  <2>1. Len(history) \in Nat /\ navIndex = pos /\ page = history[pos + 1] /\ pos \in Nat /\ navMax \in Int
        /\ navMax < Len(history)
    BY SMT DEF HistoryInvariant
  <2>2. navIndex < navMax => pos + 1 < Len(history)
    BY <2>1, SMT
  <2> QED
    BY <2>1, <2>2, Zenon DEF HistoryMirrored, CanGoForward
<1> QED
  BY <1>1, <1>2, <1>3, PTL DEF PaneSpec

----------------------------------------------------------------------------
(* The layouts on screen and in the store.                                 *)

\* What keeps the layouts together: the one on screen and the stored ones fit,
\* and each was stored as it was left.
LayoutInvariant ==
    /\ nextPane \in Int /\ 2 <= nextPane
    /\ ScreenFits(panes, nextPane)
    /\ savedLayouts = [d \in Docs |-> savedLayouts[d]] /\ leftLayout = [d \in Docs |-> leftLayout[d]]
    /\ \A d \in Docs : LayoutFits(savedLayouts[d], nextPane)
    /\ StoredAsLeft

\* Later ids do not disturb a layout.
LEMMA FitsLater ==
    ASSUME NEW l, NEW n \in Int, NEW m \in Int, n <= m, LayoutFits(l, n)
    PROVE  LayoutFits(l, m)
<1>1. IsTree(l.root) /\ LeavesFit(l.root, n) /\ l.active \in PaneIds(l.root)
  BY Zenon DEF LayoutFits
<1>2. \A p \in LeafPlaces(l.root) : l.root[p].id \in Int /\ l.root[p].id < m
  <2>1. \A p \in LeafPlaces(l.root) : l.root[p].id \in Int /\ l.root[p].id < n
    BY <1>1, Zenon DEF LeavesFit
  <2>2. \A i \in Int : i < n => i < m
    BY SMT
  <2> QED
    BY <2>1, <2>2, Zenon
<1>3. LeavesFit(l.root, m)
  BY <1>1, <1>2, Zenon DEF LeavesFit
<1> QED
  BY <1>1, <1>3, Zenon DEF LayoutFits

\* An edit of the panes, which loses the primary document at most.
LEMMA EditKeepsLayouts ==
    ASSUME LayoutInvariant, NEW new, Edited(new), NEW next \in Int, nextPane' = next, nextPane <= next,
           ScreenFits(new, next), new.primary \in {panes.primary, NoDoc}
    PROVE  LayoutInvariant'
<1>1. /\ panes' = new /\ savedLayouts' = savedLayouts
      /\ leftLayout' = IF new.primary = panes.primary THEN leftLayout ELSE Forgotten
  BY Zenon DEF Edited
<1>2. /\ nextPane \in Int /\ 2 <= nextPane
      /\ leftLayout = [d \in Docs |-> leftLayout[d]]
      /\ savedLayouts = [d \in Docs |-> savedLayouts[d]]
      /\ \A d \in Docs : LayoutFits(savedLayouts[d], nextPane)
      /\ StoredAsLeft
  BY Zenon DEF LayoutInvariant
<1>3. 2 <= next
  BY <1>2, SMT
<1>4. \A d \in Docs : LayoutFits(savedLayouts[d], next)
  BY <1>2, FitsLater, Zenon
<1>5. leftLayout' = [d \in Docs |-> leftLayout'[d]]
  <2>1. CASE leftLayout' = leftLayout
    BY <1>2, <2>1, Zenon
  <2>2. CASE leftLayout' = Forgotten
    BY <2>2, Zenon DEF Forgotten
  <2> QED
    BY <1>1, <2>1, <2>2, Zenon
<1>6. ASSUME NEW d \in Docs, d # new.primary, leftLayout'[d] # NoLayout
      PROVE  savedLayouts[d] = leftLayout'[d]
  <2>1. CASE new.primary = panes.primary
    BY <1>1, <1>2, <1>6, <2>1, Zenon DEF StoredAsLeft
  <2>2. CASE new.primary # panes.primary
    <3>1. leftLayout'[d] = IF d = panes.primary THEN NoLayout ELSE leftLayout[d]
      BY <1>1, <2>2, Zenon DEF Forgotten
    <3> QED
      BY <1>2, <1>6, <3>1, Zenon DEF StoredAsLeft
  <2> QED
    BY <2>1, <2>2, Zenon
<1>7. StoredAsLeft'
  BY <1>1, <1>6, Zenon DEF StoredAsLeft, NoLayout, OnlyPane, Leaf
<1> QED
  BY <1>1, <1>2, <1>3, <1>4, <1>5, <1>7, Zenon DEF LayoutInvariant

\* Nothing of the layouts moves.
LEMMA LayoutsRest ==
    ASSUME LayoutInvariant, UNCHANGED <<panes, savedLayouts, leftLayout, nextPane>>
    PROVE  LayoutInvariant'
BY Zenon DEF LayoutInvariant, StoredAsLeft

\* Saving a layout under its document.
LEMMA SaveKeeps ==
    ASSUME LayoutInvariant, NEW store, store = SavePaneLayout(savedLayouts, panes)
    PROVE  /\ store = [d \in Docs |-> store[d]]
           /\ \A d \in Docs : LayoutFits(store[d], nextPane)
           /\ \A d \in Docs : store[d] = IF d = panes.primary THEN Stored(panes) ELSE savedLayouts[d]
<1>1. /\ savedLayouts = [d \in Docs |-> savedLayouts[d]] /\ \A d \in Docs : LayoutFits(savedLayouts[d], nextPane)
      /\ LayoutFits(panes, nextPane) /\ panes.primary \in Docs \cup {NoDoc} /\ NoDoc \notin Docs
  BY PaneBounds, Zenon DEF LayoutInvariant, ScreenFits
<1>2. LayoutFits(Stored(panes), nextPane)
  BY <1>1, StoreFits, Zenon
<1>3. CASE panes.primary = NoDoc
  <2>1. store = savedLayouts
    BY <1>3, Zenon DEF SavePaneLayout
  <2> QED
    BY <1>1, <1>3, <2>1, Zenon
<1>4. CASE panes.primary # NoDoc
  <2>1. store = [savedLayouts EXCEPT ![panes.primary] = Stored(panes)]
    BY <1>4, Zenon DEF SavePaneLayout
  <2>2. store = [d \in Docs |-> IF d = panes.primary THEN Stored(panes) ELSE savedLayouts[d]]
    BY <1>1, <2>1, ZenonT(30)
  <2>3. \A d \in Docs : store[d] = IF d = panes.primary THEN Stored(panes) ELSE savedLayouts[d]
    BY <2>2, Zenon
  <2>4. store = [d \in Docs |-> store[d]]
    BY <2>2, Zenon
  <2> QED
    BY <1>1, <1>2, <2>3, <2>4, Zenon
<1> QED
  BY <1>3, <1>4, Zenon

\* Leaving the panes of a document for those of another.
LEMMA SwitchKeeps ==
    ASSUME LayoutInvariant, NEW d \in Docs, SwitchLayout(d), UNCHANGED nextPane
    PROVE  LayoutInvariant'
<1>1. PICK store : store = SavePaneLayout(savedLayouts, panes)
  BY Zenon
<1>2. /\ savedLayouts' = store /\ panes' = ShowDocument(LoadAndRestoreLayout(store, d), d)
      /\ leftLayout' = IF panes.primary = NoDoc THEN leftLayout
                       ELSE [leftLayout EXCEPT ![panes.primary] = Stored(panes)]
  BY <1>1, Zenon DEF SwitchLayout, FlushSaveLayout
<1>3. /\ store = [c \in Docs |-> store[c]] /\ \A c \in Docs : LayoutFits(store[c], nextPane)
      /\ \A c \in Docs : store[c] = IF c = panes.primary THEN Stored(panes) ELSE savedLayouts[c]
  BY <1>1, SaveKeeps, Zenon
<1>4. /\ nextPane \in Int /\ 2 <= nextPane /\ leftLayout = [c \in Docs |-> leftLayout[c]]
      /\ panes.primary \in Docs \cup {NoDoc} /\ NoDoc \notin Docs /\ StoredAsLeft
  BY PaneBounds, Zenon DEF LayoutInvariant, ScreenFits
<1>5. PICK l : l = LoadAndRestoreLayout(store, d)
  BY Zenon
<1>6. ScreenFits(l, nextPane) /\ l.primary = d
  BY <1>3, <1>4, <1>5, LoadFits, Zenon
<1>7. ScreenFits(panes', nextPane) /\ panes'.primary = d
  <2>1. CASE panes' = l
    BY <1>6, <2>1, Zenon
  <2>2. CASE panes' = ReduceOpen(l, l.active, d)
    <3>1. ScreenFits(ReduceOpen(l, l.active, d), nextPane) /\ ReduceOpen(l, l.active, d).primary = l.primary
      BY <1>6, OpenFits, Zenon
    <3> QED
      BY <1>6, <2>2, <3>1, Zenon
  <2> QED
    BY <1>2, <1>5, <2>1, <2>2, Zenon DEF ShowDocument, ReduceOpen
<1>8. /\ leftLayout' = [c \in Docs |-> leftLayout'[c]]
      /\ \A c \in Docs : leftLayout'[c] = IF c = panes.primary THEN Stored(panes) ELSE leftLayout[c]
  <2>1. CASE panes.primary = NoDoc
    BY <1>2, <1>4, <2>1, Zenon
  <2>2. CASE panes.primary # NoDoc
    <3>1. leftLayout' = [leftLayout EXCEPT ![panes.primary] = Stored(panes)]
      BY <1>2, <2>2, Zenon
    <3>2. leftLayout' = [c \in Docs |-> IF c = panes.primary THEN Stored(panes) ELSE leftLayout[c]]
      BY <1>4, <3>1, Zenon
    <3>3. \A c \in Docs : leftLayout'[c] = IF c = panes.primary THEN Stored(panes) ELSE leftLayout[c]
      BY <3>2, Zenon
    <3>4. leftLayout' = [c \in Docs |-> leftLayout'[c]]
      BY <3>2, Zenon
    <3> QED
      BY <3>3, <3>4, Zenon
  <2> QED
    BY <2>1, <2>2, Zenon
<1>9. ASSUME NEW c \in Docs, leftLayout'[c] # NoLayout
      PROVE  store[c] = leftLayout'[c]
  BY <1>3, <1>4, <1>8, <1>9, Zenon DEF StoredAsLeft
<1>10. StoredAsLeft'
  BY <1>2, <1>9, Zenon DEF StoredAsLeft, NoLayout, OnlyPane, Leaf
<1> QED
  BY <1>2, <1>3, <1>4, <1>7, <1>8, <1>10, Zenon DEF LayoutInvariant

\* A page that is shown switches the panes when it is a document's.
LEMMA ShowKeeps ==
    ASSUME LayoutInvariant, NEW target \in ShownPages, ShowPage(target)
    PROVE  LayoutInvariant'
<1>1. UNCHANGED nextPane
  BY Zenon DEF ShowPage
<1>2. CASE target.name = "document"
  <2>1. target.doc \in Docs /\ SwitchLayout(target.doc)
    BY <1>2, PageShows, Zenon DEF ShowPage
  <2> QED
    BY <1>1, <2>1, SwitchKeeps, Zenon
<1>3. CASE target.name # "document"
  <2>1. UNCHANGED <<panes, savedLayouts, leftLayout, nextPane>>
    BY <1>1, <1>3, Zenon DEF ShowPage
  <2> QED
    BY <2>1, LayoutsRest, Zenon
<1> QED
  BY <1>2, <1>3, Zenon

\* The application starts, or its page is loaded, again.
LEMMA MountKeeps ==
    ASSUME LayoutInvariant, NEW target \in ShownPages, MountedOn(target)
    PROVE  LayoutInvariant'
<1>1. /\ panes' = IF target.name = "document" THEN LoadAndRestoreLayout(savedLayouts, target.doc)
                  ELSE DefaultLayout(NoDoc)
      /\ leftLayout' = Forgotten /\ savedLayouts' = savedLayouts /\ nextPane' = nextPane
  BY Zenon DEF MountedOn
<1>2. /\ nextPane \in Int /\ 2 <= nextPane /\ savedLayouts = [c \in Docs |-> savedLayouts[c]]
      /\ \A c \in Docs : LayoutFits(savedLayouts[c], nextPane) /\ StoredAsLeft
      /\ panes.primary \in Docs \cup {NoDoc}
  BY Zenon DEF LayoutInvariant, ScreenFits
<1>3. ScreenFits(panes', nextPane)
  <2>1. CASE target.name = "document"
    <3>1. target.doc \in Docs /\ panes' = LoadAndRestoreLayout(savedLayouts, target.doc)
      BY <1>1, <2>1, PageShows, Zenon
    <3>2. ScreenFits(LoadAndRestoreLayout(savedLayouts, target.doc), nextPane)
      BY <1>2, <3>1, LoadFits, Zenon
    <3> QED
      BY <3>1, <3>2, Zenon
  <2>2. CASE target.name # "document"
    <3>1. ScreenFits(DefaultLayout(NoDoc), nextPane)
      BY <1>2, DefaultFits, Zenon
    <3> QED
      BY <1>1, <2>2, <3>1, Zenon
  <2> QED
    BY <2>1, <2>2, Zenon
<1>4. leftLayout' = [c \in Docs |-> leftLayout'[c]]
  BY <1>1, Zenon DEF Forgotten
<1>5. \A c \in Docs : leftLayout'[c] = IF c = panes.primary THEN NoLayout ELSE leftLayout[c]
  BY <1>1, Zenon DEF Forgotten
<1>6. ASSUME NEW c \in Docs, leftLayout'[c] # NoLayout
      PROVE  savedLayouts[c] = leftLayout'[c]
  <2>1. c # panes.primary /\ leftLayout'[c] = leftLayout[c]
    BY <1>5, <1>6, Zenon
  <2>2. StoredAsLeft
    BY Zenon DEF LayoutInvariant
  <2> QED
    BY <1>6, <2>1, <2>2, Zenon DEF StoredAsLeft
<1>7. StoredAsLeft'
  BY <1>1, <1>6, Zenon DEF StoredAsLeft, NoLayout, OnlyPane, Leaf
<1> QED
  BY <1>1, <1>2, <1>3, <1>4, <1>7, Zenon DEF LayoutInvariant

\* The debounced save.
LEMMA TimerKeeps ==
    ASSUME LayoutInvariant, SaveTimerFires
    PROVE  LayoutInvariant'
<1>1. PICK store : store = SavePaneLayout(savedLayouts, panes)
  BY Zenon
<1>2. savedLayouts' = store /\ panes' = panes /\ leftLayout' = leftLayout /\ nextPane' = nextPane
  BY <1>1, Zenon DEF SaveTimerFires
<1>3. /\ store = [c \in Docs |-> store[c]] /\ \A c \in Docs : LayoutFits(store[c], nextPane)
      /\ \A c \in Docs : store[c] = IF c = panes.primary THEN Stored(panes) ELSE savedLayouts[c]
  BY <1>1, SaveKeeps, Zenon
<1>4. StoredAsLeft
  BY Zenon DEF LayoutInvariant
<1>5. StoredAsLeft'
  BY <1>2, <1>3, <1>4, Zenon DEF StoredAsLeft, NoLayout, OnlyPane, Leaf
<1> QED
  BY <1>2, <1>3, <1>5, Zenon DEF LayoutInvariant

\* The edits of the panes on screen.
LEMMA LayoutsEdited ==
    ASSUME LayoutInvariant,
           \/ \E id \in PaneIds(panes.root), dir \in {"horizontal", "vertical"} : Split(id, dir)
           \/ \E id \in PaneIds(panes.root) : Close(id)
           \/ \E id \in PaneIds(panes.root), d \in Docs : OpenFromPicker(id, d)
           \/ \E source, id \in PaneIds(panes.root) : DropPane(source, id)
           \/ \E dir \in {"horizontal", "vertical"}, toward \in {1, 2} : FocusDirection(dir, toward)
           \/ \E id \in PaneIds(panes.root) : FocusPane(id)
           \/ ResetLayout
    PROVE  LayoutInvariant'
<1>0. nextPane \in Int /\ 2 <= nextPane /\ ScreenFits(panes, nextPane)
  BY Zenon DEF LayoutInvariant
<1>1. ASSUME NEW new, Edited(new), UNCHANGED nextPane, ScreenFits(new, nextPane),
             new.primary \in {panes.primary, NoDoc}
      PROVE  LayoutInvariant'
  <2>1. nextPane <= nextPane
    BY <1>0, SMT
  <2> QED
    BY <1>0, <1>1, <2>1, EditKeepsLayouts, Zenon
<1>2. CASE \E id \in PaneIds(panes.root), dir \in {"horizontal", "vertical"} : Split(id, dir)
  <2>1. PICK id \in PaneIds(panes.root), dir \in {"horizontal", "vertical"} : Split(id, dir)
    BY <1>2, Zenon
  <2>2. PICK new : new = WithBoth(panes, SplitPane(panes.root, id, dir, nextPane), nextPane)
    BY Zenon
  <2>3. /\ CountLeaves(panes.root) < MaxPanes /\ Edited(ReduceSplit(panes, id, dir))
        /\ nextPane' = nextPane + 1
    BY <2>1, Zenon DEF Split, CanSplit
  <2>4. ReduceSplit(panes, id, dir) = new
    BY <2>2, Zenon DEF ReduceSplit, WithBoth
  <2>5. ScreenFits(new, nextPane + 1) /\ new.primary = panes.primary
    BY <1>0, <2>2, <2>3, SplitFits, Zenon
  <2>6. Edited(new)
    BY <2>3, <2>4, Zenon
  <2>7. nextPane + 1 \in Int /\ nextPane <= nextPane + 1
    BY <1>0, SMT
  <2> QED
    BY <2>3, <2>5, <2>6, <2>7, EditKeepsLayouts, Zenon
<1>3. CASE \E id \in PaneIds(panes.root) : Close(id)
  <2>1. PICK id \in PaneIds(panes.root) : Close(id)
    BY <1>3, Zenon
  <2>2. CountLeaves(panes.root) > 1 /\ Edited(ReduceClose(panes, id)) /\ UNCHANGED nextPane
    BY <2>1, Zenon DEF Close, CanClose
  <2>3. ScreenFits(ReduceClose(panes, id), nextPane) /\ ReduceClose(panes, id).primary = panes.primary
    BY <1>0, <2>2, CloseFits, Zenon
  <2> QED
    BY <1>1, <2>2, <2>3, Zenon
<1>4. CASE \E id \in PaneIds(panes.root), d \in Docs : OpenFromPicker(id, d)
  <2>1. PICK id \in PaneIds(panes.root), d \in Docs : OpenFromPicker(id, d)
    BY <1>4, Zenon
  <2>2. PICK l : l = ReduceOpen(panes, id, d)
    BY Zenon
  <2>3. ScreenFits(l, nextPane) /\ l.primary = panes.primary
    BY <1>0, <2>2, OpenFits, Zenon
  <2>4. ScreenFits(ReduceSetActive(l, id), nextPane) /\ ReduceSetActive(l, id).primary = l.primary
    BY <2>3, SetActiveFits, Zenon
  <2>5. Edited(ReduceSetActive(l, id)) /\ UNCHANGED nextPane
    BY <2>1, <2>2, Zenon DEF OpenFromPicker
  <2> QED
    BY <1>1, <2>3, <2>4, <2>5, Zenon
<1>5. CASE \E source, id \in PaneIds(panes.root) : DropPane(source, id)
  <2>1. PICK source \in PaneIds(panes.root), id \in PaneIds(panes.root) : DropPane(source, id)
    BY <1>5, Zenon
  <2>2. PICK l : l = ReduceSwap(panes, source, id)
    BY Zenon
  <2>3. ScreenFits(l, nextPane) /\ l.primary = panes.primary
    BY <1>0, <2>2, SwapFits, Zenon
  <2>4. ScreenFits(ReduceSetActive(l, id), nextPane) /\ ReduceSetActive(l, id).primary = l.primary
    BY <2>3, SetActiveFits, Zenon
  <2>5. Edited(ReduceSetActive(l, id)) /\ UNCHANGED nextPane
    BY <2>1, <2>2, Zenon DEF DropPane
  <2> QED
    BY <1>1, <2>3, <2>4, <2>5, Zenon
<1>6. CASE \/ \E dir \in {"horizontal", "vertical"}, toward \in {1, 2} : FocusDirection(dir, toward)
           \/ \E id \in PaneIds(panes.root) : FocusPane(id)
  <2>1. PICK id : Edited(ReduceSetActive(panes, id)) /\ UNCHANGED nextPane
    BY <1>6, Zenon DEF FocusDirection, FocusPane
  <2>2. ScreenFits(ReduceSetActive(panes, id), nextPane) /\ ReduceSetActive(panes, id).primary = panes.primary
    BY <1>0, SetActiveFits, Zenon
  <2> QED
    BY <1>1, <2>1, <2>2, Zenon
<1>7. CASE ResetLayout
  <2>1. Edited(DefaultLayout(NoDoc)) /\ UNCHANGED nextPane
    BY <1>7, Zenon DEF ResetLayout
  <2>2. ScreenFits(DefaultLayout(NoDoc), nextPane) /\ DefaultLayout(NoDoc).primary = NoDoc
    BY <1>0, DefaultFits, Zenon
  <2> QED
    BY <1>1, <2>1, <2>2, Zenon
<1> QED
  BY <1>2, <1>3, <1>4, <1>5, <1>6, <1>7, Zenon

\* A guarded navigation switches the layouts or leaves them.
LEMMA LayoutsGuarded ==
    ASSUME LayoutInvariant, NEW target \in ShownPages, GuardedNavigate(target)
    PROVE  LayoutInvariant'
<1>1. CASE dirtyError
  <2>1. UNCHANGED <<panes, savedLayouts, leftLayout, nextPane>>
    BY <1>1, Zenon DEF GuardedNavigate, storeVars
  <2> QED
    BY <2>1, LayoutsRest, Zenon
<1>2. CASE ~dirtyError
  <2>1. ShowPage(target)
    BY <1>2, Zenon DEF GuardedNavigate, OnNavigateRaw
  <2> QED
    BY <2>1, ShowKeeps, Zenon
<1> QED
  BY <1>1, <1>2, Zenon

\* Every step keeps the layouts together.
LEMMA LayoutStep ==
    ASSUME LayoutInvariant, HistoryInvariant, [PaneNext]_paneVars
    PROVE  LayoutInvariant'
<1>0. nextPane \in Int /\ ScreenFits(panes, nextPane)
  BY Zenon DEF LayoutInvariant
<1>1. CASE \/ \E id \in PaneIds(panes.root), dir \in {"horizontal", "vertical"} : Split(id, dir)
           \/ \E id \in PaneIds(panes.root) : Close(id)
           \/ \E id \in PaneIds(panes.root), d \in Docs : OpenFromPicker(id, d)
           \/ \E source, id \in PaneIds(panes.root) : DropPane(source, id)
           \/ \E dir \in {"horizontal", "vertical"}, toward \in {1, 2} : FocusDirection(dir, toward)
           \/ \E id \in PaneIds(panes.root) : FocusPane(id)
           \/ ResetLayout
  BY <1>1, LayoutsEdited, Zenon
<1>2. CASE CancelNavigation \/ DirtyErrorChanges \/ GoBack \/ GoForward \/ UNCHANGED paneVars
  <2>1. UNCHANGED <<panes, savedLayouts, leftLayout, nextPane>>
    BY <1>2, Zenon DEF CancelNavigation, DirtyErrorChanges, GoBack, GoForward, paneVars, storeVars
  <2> QED
    BY <2>1, LayoutsRest, Zenon
<1>3. CASE SaveTimerFires
  BY <1>3, TimerKeeps, Zenon
<1>4. CASE \E target \in {Dashboard} \cup {DocumentPage(d) : d \in Docs} : GuardedNavigate(target)
  BY <1>4, LayoutsGuarded, Zenon DEF ShownPages
<1>5. CASE \E id \in PaneIds(panes.root), d \in Docs : PaneNavigate(id, d)
  <2>1. PICK id \in PaneIds(panes.root), d \in Docs : PaneNavigate(id, d)
    BY <1>5, Zenon
  <2>2. CASE dirtyError
    <3>1. /\ panes' = ReduceOpen(panes, id, d) /\ savedLayouts' = savedLayouts
          /\ leftLayout' = leftLayout /\ nextPane' = nextPane
      BY <2>1, <2>2, Zenon DEF PaneNavigate
    <3>2. ScreenFits(panes', nextPane) /\ panes'.primary = panes.primary
      BY <1>0, <3>1, OpenFits, Zenon
    <3>3. StoredAsLeft'
      BY <3>1, <3>2, Zenon DEF LayoutInvariant, StoredAsLeft, NoLayout, OnlyPane, Leaf
    <3> QED
      BY <3>1, <3>2, <3>3, Zenon DEF LayoutInvariant
  <2>3. CASE ~dirtyError
    <3>1. ShowPage(DocumentPage(d)) /\ DocumentPage(d) \in ShownPages
      BY <2>1, <2>3, Zenon DEF PaneNavigate, OnNavigateRaw, ShownPages
    <3> QED
      BY <3>1, ShowKeeps, Zenon
  <2> QED
    BY <2>2, <2>3, Zenon
<1>6. CASE EscapeEmptyPane
  <2>1. CASE CanClose
    <3>1. panes.active \in PaneIds(panes.root) /\ Close(panes.active)
      BY <1>0, <1>6, <2>1, Zenon DEF EscapeEmptyPane, Close, ScreenFits, LayoutFits
    <3> QED
      BY <3>1, LayoutsEdited, Zenon
  <2>2. CASE ~CanClose
    <3>1. Dashboard \in ShownPages /\ GuardedNavigate(Dashboard)
      BY <1>6, <2>2, Zenon DEF EscapeEmptyPane, ShownPages
    <3> QED
      BY <3>1, LayoutsGuarded, Zenon
  <2> QED
    BY <2>1, <2>2, Zenon
<1>7. CASE ConfirmNavigation
  <2>1. ShowPage(pendingNav[1]) /\ pendingNav[1] \in ShownPages
    BY <1>7, EntryShown, Zenon DEF ConfirmNavigation, OnNavigateRaw
  <2> QED
    BY <2>1, ShowKeeps, Zenon
<1>8. CASE HandlePopState
  <2>1. PICK to : to = pos + traversals[1]
    BY Zenon
  <2>2. CASE to \in 0 .. Len(history) - 1
    <3>1. ShowPage(history[to + 1]) /\ history[to + 1] \in ShownPages
      BY <1>8, <2>1, <2>2, EntryShown, Zenon DEF HandlePopState
    <3> QED
      BY <3>1, ShowKeeps, Zenon
  <2>3. CASE to \notin 0 .. Len(history) - 1
    <3>1. UNCHANGED <<panes, savedLayouts, leftLayout, nextPane>>
      BY <1>8, <2>1, <2>3, Zenon DEF HandlePopState, storeVars
    <3> QED
      BY <3>1, LayoutsRest, Zenon
  <2> QED
    BY <2>2, <2>3, Zenon
<1>9. CASE Restart
  <2>1. MountedOn(persistedNav) /\ persistedNav \in ShownPages
    BY <1>9, Zenon DEF Restart, HistoryInvariant
  <2> QED
    BY <2>1, MountKeeps, Zenon
<1>10. CASE Reload
  <2>1. MountedOn(page) /\ page \in ShownPages
    BY <1>10, EntryShown, Zenon DEF Reload, HistoryInvariant
  <2> QED
    BY <2>1, MountKeeps, Zenon
<1> QED
  BY <1>1, <1>2, <1>3, <1>4, <1>5, <1>6, <1>7, <1>8, <1>9, <1>10, ZenonT(30) DEF PaneNext

\* The panes and the documents they started with.
LEMMA LayoutStart ==
    ASSUME PaneInit
    PROVE  LayoutInvariant
<1>1. /\ panes = DefaultLayout(NoDoc) /\ savedLayouts = [d \in Docs |-> NoLayout]
      /\ leftLayout = [d \in Docs |-> NoLayout] /\ nextPane = 2
  BY Zenon DEF PaneInit
<1>2. nextPane \in Int /\ 2 <= nextPane /\ 0 \in Int /\ 0 < nextPane
  BY <1>1, SMT
<1>3. ScreenFits(panes, nextPane)
  BY <1>1, <1>2, DefaultFits, Zenon
<1>4. LayoutFits(NoLayout, nextPane)
  <2>1. PICK t : t = OnlyPane(Leaf(0, NoDoc))
    BY Zenon
  <2>2. IsTree(t) /\ LeavesFit(t, nextPane) /\ PaneIds(t) = {0}
    BY <1>2, <2>1, OnePaneFits, Zenon
  <2>3. NoLayout.root = t /\ NoLayout.active = 0
    BY <2>1, Zenon DEF NoLayout
  <2> QED
    BY <2>2, <2>3, Zenon DEF LayoutFits
<1>5. /\ savedLayouts = [d \in Docs |-> savedLayouts[d]] /\ leftLayout = [d \in Docs |-> leftLayout[d]]
  BY <1>1, Zenon
<1>6. \A d \in Docs : savedLayouts[d] = NoLayout /\ leftLayout[d] = NoLayout
  BY <1>1, Zenon
<1> QED
  BY <1>2, <1>3, <1>4, <1>5, <1>6, Zenon DEF LayoutInvariant, StoredAsLeft

\* A layout that fits has as many pane ids as panes.
LEMMA FitsWell ==
    ASSUME NEW l, NEW next, LayoutFits(l, next)
    PROVE  /\ Cardinality(PaneIds(l.root)) = CountLeaves(l.root) /\ CountLeaves(l.root) <= MaxPanes
           /\ l.active \in PaneIds(l.root)
<1>1. PICK t : t = l.root
  BY Zenon
<1>2. /\ IsFiniteSet(LeafPlaces(t)) /\ Cardinality(LeafPlaces(t)) <= MaxPanes
      /\ \A p, q \in LeafPlaces(t) : t[p].id = t[q].id => p = q
      /\ l.active \in PaneIds(t)
  BY <1>1, Zenon DEF LayoutFits, LeavesFit
<1>3. PICK S : S = LeafPlaces(t)
  BY Zenon
<1>4. PICK T : T = PaneIds(t)
  BY Zenon
<1>5. T = {t[p].id : p \in S}
  BY <1>3, <1>4, Zenon DEF PaneIds
<1>6. PICK f : f = [p \in S |-> t[p].id]
  BY Zenon
<1>7. f \in [S -> T] /\ \A p \in S : f[p] = t[p].id
  BY <1>5, <1>6, Zenon
<1>8. f \in Surjection(S, T)
  BY <1>5, <1>7, Zenon DEF Surjection
<1>9. f \in Injection(S, T)
  BY <1>2, <1>3, <1>7, Zenon DEF Injection, IsInjective
<1>10. IsFiniteSet(S)
  BY <1>2, <1>3, Zenon
<1>11. Cardinality(T) = Cardinality(S)
  BY <1>8, <1>9, <1>10, FS_Surjection, Zenon
<1> QED
  BY <1>1, <1>2, <1>3, <1>4, <1>11, Zenon DEF CountLeaves

\* The panes stay well formed: whatever is split, closed, dropped, restored,
\* reset, reloaded or started again, the layout on screen and every stored one
\* have distinct pane ids, at most MaxPanes leaves, and an active leaf.
THEOREM PanesStayWellFormed == PaneSpec => []PanesWellFormed
<1>1. PaneInit => HistoryInvariant /\ LayoutInvariant
  BY HistoryStart, LayoutStart, Zenon
<1>2. HistoryInvariant /\ LayoutInvariant /\ [PaneNext]_paneVars => HistoryInvariant' /\ LayoutInvariant'
  BY HistoryStep, LayoutStep, Zenon
<1>3. LayoutInvariant => PanesWellFormed
  <2> SUFFICES ASSUME LayoutInvariant,
                      NEW layout \in {Stored(panes)} \cup ({savedLayouts[d] : d \in Docs} \ {NoLayout})
               PROVE  /\ Cardinality(PaneIds(layout.root)) = CountLeaves(layout.root)
                      /\ CountLeaves(layout.root) <= MaxPanes
                      /\ layout.active \in PaneIds(layout.root)
    BY Zenon DEF PanesWellFormed
  <2>1. LayoutFits(Stored(panes), nextPane)
    BY StoreFits, Zenon DEF LayoutInvariant, ScreenFits
  <2>2. \A d \in Docs : LayoutFits(savedLayouts[d], nextPane)
    BY Zenon DEF LayoutInvariant
  <2>3. LayoutFits(layout, nextPane)
    BY <2>1, <2>2, Zenon
  <2> QED
    BY <2>3, FitsWell, Zenon
<1> QED
  BY <1>1, <1>2, <1>3, PTL DEF PaneSpec

\* The layout stored for a document is the one it was left with: a navigation
\* flushes the debounced save before it restores the panes of another document,
\* and no save lands under another document's name.
THEOREM LayoutsStoredAsLeft == PaneSpec => []StoredAsLeft
<1>1. PaneInit => HistoryInvariant /\ LayoutInvariant
  BY HistoryStart, LayoutStart, Zenon
<1>2. HistoryInvariant /\ LayoutInvariant /\ [PaneNext]_paneVars => HistoryInvariant' /\ LayoutInvariant'
  BY HistoryStep, LayoutStep, Zenon
<1>3. LayoutInvariant => StoredAsLeft
  BY Zenon DEF LayoutInvariant
<1> QED
  BY <1>1, <1>2, <1>3, PTL DEF PaneSpec

=============================================================================
