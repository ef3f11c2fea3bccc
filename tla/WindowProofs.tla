---------------------------- MODULE WindowProofs ----------------------------
(***************************************************************************)
(* Proofs about the window around the documents: the keys, the recent      *)
(* documents, the search page and the command palette, for any number of   *)
(* panes, documents, projects, calls and steps.  They share what is known  *)
(* of a filtered list: what it keeps, and in which order.                  *)
(***************************************************************************)
EXTENDS Keyboard, Recents, Palette, Search, FiniteSetTheorems, TLAPS

----------------------------------------------------------------------------
(* Filtered lists.                                                         *)

\* Distinct places of as many things as there are places fill them all.
LEMMA PlacesFilled ==
    ASSUME NEW S, IsFiniteSet(S), NEW place \in [S -> 1..Cardinality(S)],
           \A i, j \in S : place[i] = place[j] => i = j,
           NEW k \in 1..Cardinality(S)
    PROVE  \E i \in S : place[i] = k
<1>1. Cardinality(S) \in Nat
  BY FS_CardinalityType, Zenon
<1>2. IsFiniteSet(1..Cardinality(S)) /\ Cardinality(1..Cardinality(S)) = Cardinality(S)
  <2>1. PICK n \in Nat : n = Cardinality(S)
    BY <1>1, Zenon
  <2>2. IsFiniteSet(1..n) /\ Cardinality(1..n) = IF 1 > n THEN 0 ELSE n - 1 + 1
    BY FS_Interval
  <2> QED
    BY <2>1, <2>2
<1>3. place \in Injection(S, 1..Cardinality(S))
  BY Zenon DEF Injection, IsInjective
<1>4. place \in Surjection(S, 1..Cardinality(S))
  BY <1>2, <1>3, FS_Injection, Zenon
<1> QED
  BY <1>4, Zenon DEF Surjection

\* The position of the n-th element kept.
Position(at, n) == CHOOSE i \in at : Rank(at, i) = n

\* The ranks of the positions are 1, 2, ... in their order.
LEMMA RankFacts ==
    ASSUME NEW at, at \subseteq Int, IsFiniteSet(at)
    PROVE  /\ Cardinality(at) \in Nat
           /\ \A i \in at : Rank(at, i) \in 1..Cardinality(at)
           /\ \A i, j \in at : i < j => Rank(at, i) < Rank(at, j)
<1> DEFINE upto(i) == {j \in at : j <= i}
<1>1. Cardinality(at) \in Nat
  BY FS_CardinalityType, Zenon
<1>2. ASSUME NEW i \in at
      PROVE  IsFiniteSet(upto(i)) /\ Cardinality(upto(i)) \in 1..Cardinality(at)
  <2>4. i <= i
    BY SMT
  <2>1. upto(i) \in SUBSET at /\ i \in upto(i)
    BY <2>4, Zenon
  <2>2. IsFiniteSet(upto(i)) /\ Cardinality(upto(i)) <= Cardinality(at)
    BY <2>1, FS_Subset, Zenon
  <2>3. Cardinality(upto(i)) \in Nat /\ Cardinality(upto(i)) # 0
    BY <2>1, <2>2, FS_CardinalityType, FS_EmptySet, Zenon
  <2> HIDE DEF upto
  <2> QED
    BY <1>1, <2>2, <2>3
<1>3. ASSUME NEW i \in at, NEW j \in at, i < j
      PROVE  Cardinality(upto(i)) < Cardinality(upto(j))
  <2>4. (\A k \in at : k <= i => k <= j) /\ j <= j /\ ~(j <= i)
    BY <1>3, SMT
  <2>1. upto(i) \in SUBSET upto(j) /\ j \in upto(j) /\ j \notin upto(i)
    BY <2>4, Zenon
  <2>2. IsFiniteSet(upto(j)) /\ Cardinality(upto(i)) \in Nat /\ Cardinality(upto(j)) \in Nat
    <3>1. IsFiniteSet(upto(i)) /\ IsFiniteSet(upto(j))
      BY <1>2, Zenon
    <3> QED
      BY <3>1, FS_CardinalityType, Zenon
  <2>3. Cardinality(upto(i)) <= Cardinality(upto(j)) /\ Cardinality(upto(j)) # Cardinality(upto(i))
    BY <2>1, <2>2, FS_Subset, Zenon
  <2> HIDE DEF upto
  <2> QED
    BY <2>2, <2>3
<1> QED
  BY <1>1, <1>2, <1>3, Zenon DEF Rank

\* Every kept position is the n-th for one n, and the n-th come in order.
LEMMA PositionFacts ==
    ASSUME NEW at, at \subseteq Int, IsFiniteSet(at)
    PROVE  /\ Cardinality(at) \in Nat
           /\ \A n \in 1..Cardinality(at) : Position(at, n) \in at
           /\ \A i \in at : \E n \in 1..Cardinality(at) : Position(at, n) = i
           /\ \A m, n \in 1..Cardinality(at) : m < n => Position(at, m) < Position(at, n)
<1>1. /\ Cardinality(at) \in Nat
      /\ \A i \in at : Rank(at, i) \in 1..Cardinality(at)
      /\ \A i, j \in at : i < j => Rank(at, i) < Rank(at, j)
  BY RankFacts, Zenon
<1>2. \A i, j \in at : Rank(at, i) = Rank(at, j) => i = j
  <2> SUFFICES ASSUME NEW i \in at, NEW j \in at, Rank(at, i) = Rank(at, j), i # j
               PROVE  FALSE
    BY Zenon
  <2>1. i < j \/ j < i
    BY SMT
  <2> QED
    BY <1>1, <2>1, SMT
<1>3. ASSUME NEW n \in 1..Cardinality(at)
      PROVE  Position(at, n) \in at /\ Rank(at, Position(at, n)) = n
  <2>1. PICK place : place = [i \in at |-> Rank(at, i)]
    BY Zenon
  <2>2. place \in [at -> 1..Cardinality(at)] /\ \A i, j \in at : place[i] = place[j] => i = j
    BY <1>1, <1>2, <2>1, Zenon
  <2>3. \E i \in at : place[i] = n
    BY <2>2, PlacesFilled, ZenonT(30)
  <2> QED
    BY <2>1, <2>3, Zenon DEF Position
<1>4. \A i \in at : Position(at, Rank(at, i)) = i
  BY <1>1, <1>2, <1>3, Zenon
<1>5. ASSUME NEW m \in 1..Cardinality(at), NEW n \in 1..Cardinality(at), m < n
      PROVE  Position(at, m) < Position(at, n)
  <2>1. PICK i \in at : i = Position(at, m) /\ Rank(at, i) = m
    BY <1>3, Zenon
  <2>2. PICK j \in at : j = Position(at, n) /\ Rank(at, j) = n
    BY <1>3, Zenon
  <2>3. ~(j < i) /\ i # j
    BY <1>1, <1>5, <2>1, <2>2, SMT
  <2>4. i \in Int /\ j \in Int
    BY Zenon
  <2>5. i < j
    BY <2>3, <2>4, SMT
  <2> QED
    BY <2>1, <2>2, <2>5, Zenon
<1> QED
  BY <1>1, <1>3, <1>4, <1>5, Zenon

\* What a filter keeps: the elements at the kept positions, in order.
LEMMA KeptAtFacts ==
    ASSUME NEW S, NEW s \in Seq(S), NEW at, at \subseteq DOMAIN s
    PROVE  /\ Cardinality(at) \in Nat
           /\ KeptAt(s, at) \in Seq(S) /\ Len(KeptAt(s, at)) = Cardinality(at)
           /\ \A n \in 1..Cardinality(at) :
                  Position(at, n) \in at /\ KeptAt(s, at)[n] = s[Position(at, n)]
           /\ \A i \in at : \E n \in 1..Cardinality(at) : Position(at, n) = i
           /\ \A m, n \in 1..Cardinality(at) : m < n => Position(at, m) < Position(at, n)
<1>1. DOMAIN s = 1..Len(s) /\ Len(s) \in Nat
  BY SMT
<1>2. at \subseteq Int /\ IsFiniteSet(at)
  <2>1. IsFiniteSet(1..Len(s))
    BY <1>1, FS_Interval, SMT
  <2>2. at \in SUBSET (1..Len(s))
    BY <1>1, Zenon
  <2>3. IsFiniteSet(at)
    BY <2>1, <2>2, FS_Subset, Zenon
  <2> QED
    BY <2>2, <2>3, SMT
<1>3. /\ Cardinality(at) \in Nat
      /\ \A n \in 1..Cardinality(at) : Position(at, n) \in at
      /\ \A i \in at : \E n \in 1..Cardinality(at) : Position(at, n) = i
      /\ \A m, n \in 1..Cardinality(at) : m < n => Position(at, m) < Position(at, n)
  BY <1>2, PositionFacts, Zenon
<1>4. KeptAt(s, at) = [n \in 1..Cardinality(at) |-> s[Position(at, n)]]
  BY Zenon DEF KeptAt, Position
<1>5. \A n \in 1..Cardinality(at) : s[Position(at, n)] \in S
  BY <1>1, <1>3, SMT
<1>6. KeptAt(s, at) \in Seq(S) /\ Len(KeptAt(s, at)) = Cardinality(at)
  BY <1>3, <1>4, <1>5, SMTT(30)
<1> QED
  BY <1>3, <1>4, <1>6, Zenon


\* An element of two lists put together is one of either.
LEMMA JoinedFacts ==
    ASSUME NEW S, NEW a \in Seq(S), NEW b \in Seq(S)
    PROVE  /\ a \o b \in Seq(S) /\ Len(a \o b) = Len(a) + Len(b)
           /\ DOMAIN (a \o b) = 1..(Len(a) + Len(b))
           /\ Len(a) \in Nat /\ Len(b) \in Nat /\ DOMAIN a = 1..Len(a) /\ DOMAIN b = 1..Len(b)
           /\ \A i \in DOMAIN (a \o b) : \/ \E j \in DOMAIN a : (a \o b)[i] = a[j]
                                         \/ \E j \in DOMAIN b : (a \o b)[i] = b[j]
<1>1. /\ a \o b \in Seq(S) /\ Len(a \o b) = Len(a) + Len(b)
      /\ DOMAIN (a \o b) = 1..(Len(a) + Len(b))
      /\ Len(a) \in Nat /\ Len(b) \in Nat /\ DOMAIN a = 1..Len(a) /\ DOMAIN b = 1..Len(b)
  BY SMT
<1>2. ASSUME NEW i \in DOMAIN (a \o b)
      PROVE  (\E j \in DOMAIN a : (a \o b)[i] = a[j]) \/ \E j \in DOMAIN b : (a \o b)[i] = b[j]
  <2>1. i \in 1..(Len(a) + Len(b))
    BY <1>1, Zenon
  <2>2. CASE i <= Len(a)
    BY <1>1, <2>1, <2>2, SMT
  <2>3. CASE i > Len(a)
    <3>1. i - Len(a) \in DOMAIN b /\ (a \o b)[i] = b[i - Len(a)]
      BY <1>1, <2>1, <2>3, SMT
    <3> QED
      BY <3>1, Zenon
  <2> QED
    BY <1>1, <2>1, <2>2, <2>3, SMT
<1> QED
  BY <1>1, <1>2, Zenon

----------------------------------------------------------------------------
(* The keys.                                                               *)

Apart(m) == \A i, j \in DOMAIN m : m[i] = m[j] => i = j

\* A save among what a key press did is all it did, and is one of the active pane.
SavesOnly(f, pane) == \A i \in DOMAIN f : f[i][1] = "save" => f = << <<"save", pane>> >>

KeyboardInvariant ==
    /\ mounted \in Seq(KeyPanes) /\ Apart(mounted)
    /\ kpage = "document" => active \in Range(mounted)
    /\ commandPane = active
    /\ finding \subseteq Range(mounted)
    /\ SavesOnly(fired, active)

\* Nothing done, no save.
LEMMA NothingDone == ASSUME NEW pane PROVE SavesOnly(<<>>, pane)
<1>1. PICK none : none = <<>>
  BY Zenon
<1>2. DOMAIN none = {}
  BY <1>1, SMT
<1> QED
  BY <1>1, <1>2, Zenon DEF SavesOnly

\* The panes that are mounted, and what the order of the constants says.
LEMMA PaneFacts ==
    /\ PaneOrder \in Seq(KeyPanes) /\ Apart(PaneOrder) /\ PaneOrder[1] \in Range(PaneOrder)
    /\ 0 \notin KeyPanes /\ KeyPanes \subseteq Nat
<1>1. PaneOrder \in Seq(Nat \ {0}) /\ PaneOrder # <<>> /\ Apart(PaneOrder)
  BY KeyboardAssumption, Zenon DEF Apart
<1>2. DOMAIN PaneOrder = 1..Len(PaneOrder) /\ Len(PaneOrder) \in Nat /\ 1 \in DOMAIN PaneOrder
      /\ \A i \in DOMAIN PaneOrder : PaneOrder[i] \in Nat \ {0}
  BY <1>1, SMT
<1>3. \A p \in KeyPanes : p \in Nat \ {0}
  BY <1>2, Zenon DEF KeyPanes, Range
<1>4. PaneOrder \in [1..Len(PaneOrder) -> KeyPanes]
  <2>1. PaneOrder = [i \in DOMAIN PaneOrder |-> PaneOrder[i]]
    BY <1>1, SMT
  <2>2. \A i \in DOMAIN PaneOrder : PaneOrder[i] \in KeyPanes
    BY Zenon DEF KeyPanes, Range
  <2> QED
    BY <1>2, <2>1, <2>2, Zenon
<1>5. PaneOrder \in Seq(KeyPanes)
  BY <1>2, <1>4, SMT
<1>6. PaneOrder[1] \in Range(PaneOrder)
  BY <1>2, Zenon DEF Range
<1> QED
  BY <1>1, <1>3, <1>5, <1>6, Zenon

\* The panes but one.
LEMMA MountedButFacts ==
    ASSUME mounted \in Seq(KeyPanes), Apart(mounted), NEW p
    PROVE  /\ MountedBut(p) \in Seq(KeyPanes) /\ Apart(MountedBut(p))
           /\ Range(MountedBut(p)) = Range(mounted) \ {p}
<1>1. PICK at : at = {i \in DOMAIN mounted : mounted[i] # p}
  BY Zenon
<1>2. PICK k : k = KeptAt(mounted, at)
  BY Zenon
<1>3. at \subseteq DOMAIN mounted /\ MountedBut(p) = k
  BY <1>1, <1>2, Zenon DEF MountedBut
<1>4. /\ Cardinality(at) \in Nat /\ k \in Seq(KeyPanes) /\ Len(k) = Cardinality(at)
      /\ \A n \in 1..Cardinality(at) : Position(at, n) \in at /\ k[n] = mounted[Position(at, n)]
      /\ \A i \in at : \E n \in 1..Cardinality(at) : Position(at, n) = i
      /\ \A m, n \in 1..Cardinality(at) : m < n => Position(at, m) < Position(at, n)
  BY <1>2, <1>3, KeptAtFacts
<1>5. DOMAIN k = 1..Cardinality(at)
  BY <1>4, SMT
<1>6. Apart(k)
  <2> SUFFICES ASSUME NEW m \in DOMAIN k, NEW n \in DOMAIN k, k[m] = k[n]
               PROVE  m = n
    BY Zenon DEF Apart
  <2>1. Position(at, m) = Position(at, n)
    BY <1>3, <1>4, <1>5, Zenon DEF Apart
  <2>2. Position(at, m) \in Int
    BY <1>3, <1>4, <1>5, SMTT(30)
  <2>3. ~(m < n) /\ ~(n < m)
    BY <1>4, <1>5, <2>1, <2>2, SMT
  <2> QED
    BY <1>4, <1>5, <2>3, SMT
<1>7. \A q : q \in Range(k) <=> \E n \in 1..Cardinality(at) : k[n] = q
  BY <1>5, Zenon DEF Range
<1>8. \A q : (\E n \in 1..Cardinality(at) : k[n] = q) => q \in Range(mounted) /\ q # p
  BY <1>1, <1>4, ZenonT(30) DEF Range
<1>9. \A q : q \in Range(mounted) /\ q # p => \E n \in 1..Cardinality(at) : k[n] = q
  <2> SUFFICES ASSUME NEW i \in DOMAIN mounted, mounted[i] # p
               PROVE  \E n \in 1..Cardinality(at) : k[n] = mounted[i]
    BY Zenon DEF Range
  <2>1. i \in at
    BY <1>1, Zenon
  <2> QED
    BY <1>4, <2>1, Zenon
<1>10. Range(k) = Range(mounted) \ {p}
  BY <1>7, <1>8, <1>9, Zenon
<1> QED
  BY <1>3, <1>4, <1>6, <1>10, Zenon

HotkeyType == [key : Keys, allow : BOOLEAN, capture : BOOLEAN, pane : Nat]

\* The hotkeys for Save and Find belong to panes on screen, and Save's are heard
\* in the capture phase.
PaneHotkeys ==
    {h \in HotkeyType : /\ h.key \in {"save", "find"} => h.pane \in Range(mounted)
                        /\ h.key = "save" => h.capture = TRUE}

\* A hotkey that a mounted pane registers is that pane's.
LEMMA OneHotkey ==
    ASSUME KeyboardInvariant, NEW key \in {"save", "find"}, NEW p \in Range(mounted)
    PROVE  Hotkey(key, TRUE, TRUE, p) \in PaneHotkeys
<1>1. p \in Nat
  <2>1. PICK i \in DOMAIN mounted : p = mounted[i]
    BY Zenon DEF Range
  <2>2. mounted \in Seq(KeyPanes)
    BY Zenon DEF KeyboardInvariant
  <2>3. p \in KeyPanes
    BY <2>1, <2>2, SMT
  <2> QED
    BY <2>3, PaneFacts, Zenon
<1>2. PICK h : h = Hotkey(key, TRUE, TRUE, p)
  BY Zenon
<1>3. h \in HotkeyType /\ h.pane = p /\ h.capture = TRUE
  BY <1>1, <1>2, Zenon DEF Hotkey, HotkeyType, Keys
<1> QED
  BY <1>2, <1>3, Zenon DEF PaneHotkeys

\* Every hotkey registered that saves or finds is of a mounted pane.
LEMMA HotkeysFit ==
    ASSUME KeyboardInvariant
    PROVE  Registered \in Seq(PaneHotkeys)
<1>1. PICK at : at = {i \in DOMAIN mounted : mounted[i] \notin CanvasPanes}
  BY Zenon
<1>2. PICK texts : texts = KeptAt(mounted, at)
  BY Zenon
<1>3. mounted \in Seq(KeyPanes) /\ at \subseteq DOMAIN mounted
  BY <1>1, Zenon DEF KeyboardInvariant
<1>4. /\ Cardinality(at) \in Nat /\ texts \in Seq(KeyPanes) /\ Len(texts) = Cardinality(at)
      /\ \A n \in 1..Cardinality(at) : Position(at, n) \in at /\ texts[n] = mounted[Position(at, n)]
  BY <1>2, <1>3, KeptAtFacts
<1>5. DOMAIN texts = 1..Cardinality(at) /\ DOMAIN mounted = 1..Len(mounted) /\ Len(mounted) \in Nat
  BY <1>3, <1>4, SMT
<1>6. PICK saves : saves = [i \in DOMAIN mounted |-> Hotkey("save", TRUE, TRUE, mounted[i])]
  BY Zenon
<1>7. PICK finds : finds = [i \in DOMAIN texts |-> Hotkey("find", TRUE, TRUE, texts[i])]
  BY Zenon
<1>8. saves \in Seq(PaneHotkeys)
  <2>1. \A i \in DOMAIN mounted : mounted[i] \in Range(mounted)
    BY Zenon DEF Range
  <2>2. \A i \in 1..Len(mounted) : Hotkey("save", TRUE, TRUE, mounted[i]) \in PaneHotkeys
    BY <1>5, <2>1, OneHotkey, Zenon
  <2>3. saves \in [1..Len(mounted) -> PaneHotkeys]
    BY <1>5, <1>6, <2>2, Zenon
  <2> QED
    BY <1>5, <2>3, SMT
<1>9. finds \in Seq(PaneHotkeys)
  <2>1. \A n \in 1..Cardinality(at) : texts[n] \in Range(mounted)
    BY <1>3, <1>4, Zenon DEF Range
  <2>2. \A i \in 1..Cardinality(at) : Hotkey("find", TRUE, TRUE, texts[i]) \in PaneHotkeys
    BY <2>1, OneHotkey, Zenon
  <2>3. finds \in [1..Cardinality(at) -> PaneHotkeys]
    BY <1>5, <1>7, <2>2, Zenon
  <2> QED
    BY <1>4, <2>3, SMT
<1>10. ASSUME NEW key \in {"help", "palette", "switcher", "finder", "plain"},
              NEW allow \in BOOLEAN, NEW capture \in BOOLEAN
       PROVE  Hotkey(key, allow, capture, 0) \in PaneHotkeys
  <2>1. PICK h : h = Hotkey(key, allow, capture, 0)
    BY Zenon
  <2>2. h \in HotkeyType /\ h.key \notin {"save", "find"}
    BY <1>10, <2>1, Zenon DEF Hotkey, HotkeyType, Keys
  <2> QED
    BY <2>1, <2>2, Zenon DEF PaneHotkeys
<1>11. GlobalHotkeys \in Seq(PaneHotkeys)
  <2>1. /\ Hotkey("help", FALSE, TRUE, 0) \in PaneHotkeys /\ Hotkey("palette", TRUE, TRUE, 0) \in PaneHotkeys
        /\ Hotkey("switcher", TRUE, TRUE, 0) \in PaneHotkeys /\ Hotkey("finder", TRUE, TRUE, 0) \in PaneHotkeys
    BY <1>10, Zenon
  <2>2. PICK a \in PaneHotkeys, b \in PaneHotkeys, c \in PaneHotkeys, d \in PaneHotkeys :
            GlobalHotkeys = <<a, b, c, d>>
    BY <2>1, Zenon DEF GlobalHotkeys
  <2>3. \A S : \A x, y, z, w \in S : <<x, y, z, w>> \in Seq(S)
    BY SMT
  <2> QED
    BY <2>2, <2>3, Zenon
<1>12. PageHotkeys \in Seq(PaneHotkeys)
  <2>1. Hotkey("plain", FALSE, FALSE, 0) \in PaneHotkeys
    BY <1>10, Zenon
  <2>2. \A S : <<>> \in Seq(S) /\ \A x \in S : <<x>> \in Seq(S)
    BY SMT
  <2> QED
    BY <2>1, <2>2, Zenon DEF PageHotkeys
<1>13. Registered = GlobalHotkeys \o PageHotkeys \o (saves \o finds)
  BY <1>1, <1>2, <1>6, <1>7, Zenon DEF Registered, DocumentHotkeys
<1> QED
  BY <1>8, <1>9, <1>11, <1>12, <1>13, SMT

\* At most one handler takes a key in a phase, and one that saves or finds is of
\* the active pane.
TakerFits(t, key, capture) ==
    /\ t \in Seq(HotkeyType) /\ Len(t) <= 1
    /\ \A i \in DOMAIN t :
           /\ t[i].key = key
           /\ key \in {"save", "find"} => t[i].pane = active /\ active \in Range(mounted)
           /\ key = "save" => capture

\* dispatchHotkey: what takes a key in a phase of the event fits.
LEMMA TakersFit ==
    ASSUME KeyboardInvariant, NEW key \in Keys, NEW target, NEW capture \in BOOLEAN
    PROVE  TakerFits(Takers(key, target, capture), key, capture)
<1>1. PICK all : all = Registered
  BY Zenon
<1>2. PICK able : able = {i \in DOMAIN all : /\ all[i].key = key
                                             /\ \/ InPhase(all[i], capture)
                                                \/ ~capture /\ SpecialHandled(all[i])
                                             /\ EligibleForTarget(all[i], target)
                                             /\ Willing(all[i])}
  BY Zenon
<1>3. PICK at : at = {i \in able : \A j \in able : i <= j}
  BY Zenon
<1>4. PICK k : k = KeptAt(all, at)
  BY Zenon
<1>5. PICK t : t = Takers(key, target, capture)
  BY Zenon
<1>6. t = <<>> \/ t = k
  BY <1>1, <1>2, <1>3, <1>4, <1>5, Zenon DEF Takers
<1>7. all \in Seq(PaneHotkeys) /\ at \subseteq DOMAIN all
  BY <1>1, <1>2, <1>3, HotkeysFit, Zenon
<1>8. /\ Cardinality(at) \in Nat /\ k \in Seq(PaneHotkeys) /\ Len(k) = Cardinality(at)
      /\ \A n \in 1..Cardinality(at) : Position(at, n) \in at /\ k[n] = all[Position(at, n)]
      /\ \A m, n \in 1..Cardinality(at) : m < n => Position(at, m) < Position(at, n)
  BY <1>4, <1>7, KeptAtFacts
<1>9. Cardinality(at) <= 1
  <2> SUFFICES ASSUME ~(Cardinality(at) <= 1)
               PROVE  FALSE
    BY Zenon
  <2>1. 1 \in 1..Cardinality(at) /\ 2 \in 1..Cardinality(at) /\ 1 < 2
    BY <1>8, SMT
  <2>2. Position(at, 1) \in at /\ Position(at, 2) \in at /\ Position(at, 1) < Position(at, 2)
    BY <1>8, <2>1, Zenon
  <2>3. Position(at, 2) <= Position(at, 1)
    BY <1>3, <2>2, Zenon
  <2>4. Position(at, 1) \in Int /\ Position(at, 2) \in Int
    BY <1>7, <2>2, SMT
  <2> QED
    BY <2>2, <2>3, <2>4, SMT
<1>10. DOMAIN k = 1..Cardinality(at)
  BY <1>8, SMT
<1>11. ASSUME NEW n \in DOMAIN k
       PROVE  /\ k[n] \in PaneHotkeys /\ k[n].key = key /\ Willing(k[n])
              /\ InPhase(k[n], capture) \/ SpecialHandled(k[n])
  <2>1. k[n] \in PaneHotkeys
    BY <1>8, <1>11, SMT
  <2>2. Position(at, n) \in able /\ k[n] = all[Position(at, n)]
    BY <1>3, <1>8, <1>10, <1>11, Zenon
  <2> QED
    BY <1>2, <2>1, <2>2, Zenon
<1>12. ASSUME NEW n \in DOMAIN k, key \in {"save", "find"}
       PROVE  k[n].pane = active /\ active \in Range(mounted)
  <2>1. k[n].pane \in Range(mounted) /\ Willing(k[n])
    BY <1>11, <1>12, Zenon DEF PaneHotkeys
  <2>2. k[n].pane # 0
    <3>1. PICK i \in DOMAIN mounted : k[n].pane = mounted[i]
      BY <2>1, Zenon DEF Range
    <3>2. mounted \in Seq(KeyPanes)
      BY Zenon DEF KeyboardInvariant
    <3>3. mounted[i] \in KeyPanes
      BY <3>2, SMT
    <3> QED
      BY <3>1, <3>3, PaneFacts, Zenon
  <2> QED
    BY <2>1, <2>2, Zenon DEF Willing
<1>13. ASSUME NEW n \in DOMAIN k, key = "save"
       PROVE  capture
  <2>1. k[n].key = "save" /\ k[n].capture = TRUE
    BY <1>11, <1>13, Zenon DEF PaneHotkeys
  <2>2. ~SpecialHandled(k[n])
    BY <2>1, Zenon DEF SpecialHandled
  <2>3. k[n].capture = capture
    BY <1>11, <1>13, <2>2, Zenon DEF InPhase
  <2> QED
    BY <2>1, <2>3, Zenon
<1>14. k \in Seq(HotkeyType) /\ Len(k) <= 1
  <2>1. \A n \in DOMAIN k : k[n] \in HotkeyType
    BY <1>11, Zenon DEF PaneHotkeys
  <2> QED
    BY <1>8, <1>9, <1>10, <2>1, SMT
<1>15. t \in Seq(HotkeyType) /\ Len(t) <= 1 /\ (t = k \/ DOMAIN t = {})
  <2>1. \A S : <<>> \in Seq(S) /\ Len(<<>>) <= 1 /\ DOMAIN <<>> = {}
    BY SMT
  <2> QED
    BY <1>6, <1>14, <2>1, Zenon
<1>16. \A i \in DOMAIN t : /\ t[i].key = key
                           /\ key \in {"save", "find"} => t[i].pane = active /\ active \in Range(mounted)
                           /\ key = "save" => capture
  BY <1>11, <1>12, <1>13, <1>15, Zenon
<1> QED
  BY <1>5, <1>15, <1>16, Zenon DEF TakerFits

\* What concerns no pane is no save.
LEMMA OtherDone ==
    ASSUME NEW what, what # "save", NEW pane
    PROVE  SavesOnly(Did(what), pane)
<1>1. DOMAIN Did(what) = {1} /\ Did(what)[1] = <<what, 0>>
  BY SMT DEF Did
<1>2. Did(what)[1][1] = what
  BY <1>1, SMT
<1> QED
  BY <1>1, <1>2, Zenon DEF SavesOnly

\* Going to a page (a command of the palette, a key) saves nothing.
LEMMA ShowPageKeeps ==
    ASSUME NEW to, ShowKeyPage(to), SavesOnly(fired', active')
    PROVE  KeyboardInvariant'
<1>1. kpage' = to /\ commandPane' = active' /\ finding' = {}
  BY Zenon DEF ShowKeyPage, RegisterCommands
<1>2. CASE to = "document"
  <2>1. mounted' = PaneOrder /\ active' = PaneOrder[1]
    BY <1>2, Zenon DEF ShowKeyPage
  <2> QED
    BY <1>1, <2>1, PaneFacts, Zenon DEF KeyboardInvariant
<1>3. CASE to # "document"
  <2>1. mounted' = <<>>
    BY <1>3, Zenon DEF ShowKeyPage
  <2>2. mounted' \in Seq(KeyPanes) /\ DOMAIN mounted' = {}
    BY <2>1, SMT
  <2>3. Apart(mounted')
    BY <2>2, Zenon DEF Apart
  <2> QED
    BY <1>1, <1>3, <2>2, <2>3, Zenon DEF KeyboardInvariant
<1> QED
  BY <1>2, <1>3, Zenon

\* What the takers of a key did.
LEMMA TakersSave ==
    ASSUME KeyboardInvariant, NEW key \in Keys, NEW target, NEW takers,
           takers = Takers(key, target, TRUE) \o Takers(key, target, FALSE)
    PROVE  /\ SavesOnly([i \in DOMAIN takers |-> <<takers[i].key, takers[i].pane>>], active)
           /\ (\E i \in DOMAIN takers : takers[i].key = "find") => active \in Range(mounted)
<1>1. PICK a : a = Takers(key, target, TRUE)
  BY Zenon
<1>2. PICK b : b = Takers(key, target, FALSE)
  BY Zenon
<1>3. TakerFits(a, key, TRUE) /\ TakerFits(b, key, FALSE)
  <2>1. TRUE \in BOOLEAN /\ FALSE \in BOOLEAN
    BY Zenon
  <2> QED
    BY <1>1, <1>2, <2>1, TakersFit, Zenon
<1>4. a \in Seq(HotkeyType) /\ b \in Seq(HotkeyType) /\ Len(a) <= 1
  BY <1>3, Zenon DEF TakerFits
<1>5. takers = a \o b
  BY <1>1, <1>2, Zenon
<1>6. /\ Len(takers) = Len(a) + Len(b) /\ DOMAIN takers = 1..(Len(a) + Len(b))
      /\ Len(a) \in Nat /\ Len(b) \in Nat /\ DOMAIN a = 1..Len(a) /\ DOMAIN b = 1..Len(b)
      /\ \A i \in DOMAIN takers : \/ \E j \in DOMAIN a : takers[i] = a[j]
                                  \/ \E j \in DOMAIN b : takers[i] = b[j]
  <2>1. /\ Len(a \o b) = Len(a) + Len(b) /\ DOMAIN (a \o b) = 1..(Len(a) + Len(b))
        /\ Len(a) \in Nat /\ Len(b) \in Nat /\ DOMAIN a = 1..Len(a) /\ DOMAIN b = 1..Len(b)
        /\ \A i \in DOMAIN (a \o b) : \/ \E j \in DOMAIN a : (a \o b)[i] = a[j]
                                      \/ \E j \in DOMAIN b : (a \o b)[i] = b[j]
    BY <1>4, JoinedFacts
  <2> QED
    BY <1>5, <2>1, Zenon
<1>8. \A i \in DOMAIN takers :
          takers[i].key = key
              /\ (key \in {"save", "find"} => takers[i].pane = active /\ active \in Range(mounted))
  <2> DEFINE Fits(h) ==
          h.key = key
              /\ (key \in {"save", "find"} => h.pane = active /\ active \in Range(mounted))
  <2>1. \A j \in DOMAIN a : Fits(a[j])
    BY <1>3, Zenon DEF TakerFits
  <2>2. \A j \in DOMAIN b : Fits(b[j])
    BY <1>3, Zenon DEF TakerFits
  <2>3. \A i \in DOMAIN takers : \/ \E j \in DOMAIN a : takers[i] = a[j]
                                 \/ \E j \in DOMAIN b : takers[i] = b[j]
    BY <1>6, Zenon
  <2> HIDE DEF Fits
  <2>4. \A i \in DOMAIN takers : Fits(takers[i])
    BY <2>1, <2>2, <2>3, Zenon
  <2> QED
    BY <2>4, Zenon DEF Fits
<1>9. PICK f : f = [i \in DOMAIN takers |-> <<takers[i].key, takers[i].pane>>]
  BY Zenon
<1>10. DOMAIN f = DOMAIN takers /\ \A i \in DOMAIN f : f[i] = <<takers[i].key, takers[i].pane>>
  BY <1>9, Zenon
<1>11. \A i \in DOMAIN f : f[i][1] = key
  <2>1. \A x, y : <<x, y>>[1] = x
    BY Zenon
  <2>2. ASSUME NEW i \in DOMAIN f
        PROVE  f[i][1] = key
    <3>1. f[i] = <<takers[i].key, takers[i].pane>> /\ takers[i].key = key
      BY <1>8, <1>10, <2>2, Zenon
    <3>2. f[i][1] = takers[i].key
      BY <2>1, <3>1, Zenon
    <3> QED
      BY <3>1, <3>2, Zenon
  <2> QED
    BY <2>2, Zenon
<1>12. CASE key # "save"
  BY <1>8, <1>9, <1>11, <1>12, Zenon DEF SavesOnly
<1>13. CASE key = "save"
  <2>1. DOMAIN b = {}
    BY <1>3, <1>13, Zenon DEF TakerFits
  <2>2. Len(b) = 0
    BY <1>6, <2>1, SMT
  <2>3. ASSUME NEW i \in DOMAIN f
        PROVE  f = << <<"save", active>> >>
    <3>1. DOMAIN f = {1} /\ i = 1
      BY <1>4, <1>6, <1>10, <2>2, <2>3, SMTT(30)
    <3>2. f[1] = <<"save", active>>
      <4>1. 1 \in DOMAIN f /\ 1 \in DOMAIN takers /\ key \in {"save", "find"}
        BY <1>10, <1>13, <3>1, Zenon
      <4>2. takers[1].key = "save" /\ takers[1].pane = active
        BY <1>8, <1>13, <4>1, Zenon
      <4>3. f[1] = <<takers[1].key, takers[1].pane>>
        BY <1>10, <4>1, Zenon
      <4> QED
        BY <4>2, <4>3, Zenon
    <3>3. f = [n \in {1} |-> <<"save", active>>]
      BY <1>9, <1>10, <3>1, <3>2, Zenon
    <3> QED
      BY <3>3, SMTT(30)
  <2>4. SavesOnly(f, active)
    BY <2>3, Zenon DEF SavesOnly
  <2>5. \A i \in DOMAIN takers : takers[i].key # "find"
    BY <1>8, <1>13, Zenon
  <2> QED
    BY <1>9, <2>4, <2>5, Zenon
<1> QED
  BY <1>12, <1>13, Zenon

\* A key that is not Escape goes to the hotkeys of both phases.
LEMMA OtherKeyKeeps ==
    ASSUME KeyboardInvariant, NEW key \in Keys, NEW target, OtherKey(key, target)
    PROVE  KeyboardInvariant'
<1>1. CASE LeaderResolves(key, target)
  <2>1. ShowKeyPage("other") /\ fired' = Did("go")
    BY <1>1, Zenon DEF OtherKey
  <2>2. "go" # "save"
    BY Zenon
  <2>3. SavesOnly(fired', active')
    BY <2>1, <2>2, OtherDone, Zenon
  <2> QED
    BY <2>1, <2>3, ShowPageKeeps, Zenon
<1>2. CASE ~LeaderResolves(key, target)
  <2>1. PICK takers : takers = Takers(key, target, TRUE) \o Takers(key, target, FALSE)
    BY Zenon
  <2>2. /\ fired' = [i \in DOMAIN takers |-> <<takers[i].key, takers[i].pane>>]
        /\ kpage' = kpage /\ mounted' = mounted /\ active' = active /\ commandPane' = commandPane
        /\ \/ (\E i \in DOMAIN takers : takers[i].key = "find") /\ finding' = finding \cup {active}
           \/ finding' = finding
    BY <1>2, <2>1, Zenon DEF OtherKey
  <2>3. /\ SavesOnly([i \in DOMAIN takers |-> <<takers[i].key, takers[i].pane>>], active)
        /\ (\E i \in DOMAIN takers : takers[i].key = "find") => active \in Range(mounted)
    BY <2>1, TakersSave, Zenon
  <2>4. SavesOnly(fired', active')
    BY <2>2, <2>3, Zenon
  <2>5. finding' \subseteq Range(mounted)
    BY <2>2, <2>3, Zenon DEF KeyboardInvariant
  <2> QED
    BY <2>2, <2>4, <2>5, Zenon DEF KeyboardInvariant
<1> QED
  BY <1>1, <1>2, Zenon

\* Lists of things done that are no saves.
LEMMA NoSaves ==
    ASSUME NEW f \in Seq({"clearHelp", "leave", "blur", "closeFind", "closeHelp"} \X {0}),
           NEW pane
    PROVE  SavesOnly(f, pane)
<1> DEFINE S == {"clearHelp", "leave", "blur", "closeFind", "closeHelp"}
<1>1. \A i \in DOMAIN f : f[i][1] # "save"
  <2>1. \A i \in DOMAIN f : f[i] \in S \X {0}
    <3>1. \A U : \A g \in Seq(U) : \A i \in DOMAIN g : g[i] \in U
      BY SMT
    <3> QED
      BY <3>1, Zenon
  <2>2. \A x \in S \X {0} : x[1] \in S
    <3> HIDE DEF S
    <3> QED
      BY Zenon
  <2>3. \A x \in S : x # "save"
    BY Zenon
  <2> QED
    BY <2>1, <2>2, <2>3, Zenon
<1> QED
  BY <1>1, Zenon DEF SavesOnly

\* Escape never saves, whichever handler takes it.
LEMMA EscapeKeeps ==
    ASSUME KeyboardInvariant, Escape
    PROVE  KeyboardInvariant'
<1> DEFINE T == {"clearHelp", "leave", "blur", "closeFind", "closeHelp"} \X {0}
<1>1. PICK a, b, c, d : /\ fired' = a \o b \o c \o d
                        /\ a = Did("clearHelp") \/ a = <<>>
                        /\ b = Did("leave") \/ b = Did("blur") \/ b = <<>>
                        /\ c = Did("closeFind") \/ c = <<>>
                        /\ d = Did("closeHelp") \/ d = <<>>
  BY Zenon DEF Escape
<1>2. ASSUME NEW what \in {"clearHelp", "leave", "blur", "closeFind", "closeHelp"}
      PROVE  Did(what) \in Seq(T)
  <2>1. <<what, 0>> \in T
    BY <1>2, Zenon
  <2>2. \A U : \A x \in U : <<x>> \in Seq(U)
    BY SMT
  <2> QED
    BY <2>1, <2>2, Zenon DEF Did
<1>3. <<>> \in Seq(T)
  <2>1. \A U : <<>> \in Seq(U)
    BY SMT
  <2> QED
    BY <2>1, Zenon
<1>4. a \in Seq(T) /\ b \in Seq(T) /\ c \in Seq(T) /\ d \in Seq(T)
  BY <1>1, <1>2, <1>3, Zenon
<1>5. fired' \in Seq(T)
  <2>1. \A U : \A x, y \in Seq(U) : x \o y \in Seq(U)
    BY JoinedFacts, Zenon
  <2> QED
    BY <1>1, <1>4, <2>1, Zenon
<1>6. SavesOnly(fired', active')
  BY <1>5, NoSaves, Zenon
<1>7. CASE ShowKeyPage("dashboard")
  BY <1>6, <1>7, ShowPageKeeps, Zenon
<1>8. CASE \E p \in finding : /\ finding' = finding \ {p} /\ active' = p /\ commandPane' = p
                              /\ kpage' = kpage /\ mounted' = mounted
  BY <1>6, <1>8, Zenon DEF KeyboardInvariant
<1>9. CASE /\ kpage' = kpage /\ mounted' = mounted /\ active' = active
           /\ commandPane' = commandPane /\ finding' = finding
  BY <1>6, <1>9, Zenon DEF KeyboardInvariant
<1> QED
  BY <1>7, <1>8, <1>9, Zenon DEF Escape, RegisterCommands

\* A pane is clicked, registers again or is closed.
LEMMA PaneStepKeeps ==
    ASSUME KeyboardInvariant, NEW p \in KeyPanes, ClickPane(p) \/ ReRegister(p) \/ UnmountPane(p)
    PROVE  KeyboardInvariant'
<1>1. SavesOnly(fired', active')
  <2>1. fired' = <<>>
    BY Zenon DEF ClickPane, ReRegister, UnmountPane
  <2> QED
    BY <2>1, NothingDone, Zenon
<1>2. mounted \in Seq(KeyPanes) /\ Apart(mounted)
  BY Zenon DEF KeyboardInvariant
<1>3. PICK m : m = MountedBut(p)
  BY Zenon
<1>4. m \in Seq(KeyPanes) /\ Apart(m) /\ Range(m) = Range(mounted) \ {p}
  BY <1>2, <1>3, MountedButFacts, Zenon
<1>5. CASE ClickPane(p)
  BY <1>1, <1>5, Zenon DEF ClickPane, RegisterCommands, KeyboardInvariant
<1>6. CASE ReRegister(p)
  <2>1. /\ p \in Range(mounted) /\ mounted' = Append(m, p) /\ kpage' = kpage /\ active' = active
        /\ commandPane' = commandPane /\ finding' = finding
    BY <1>3, <1>6, Zenon DEF ReRegister
  <2>2. PICK n : n = Append(m, p)
    BY Zenon
  <2>3. n \in Seq(KeyPanes) /\ Len(n) = Len(m) + 1 /\ Len(m) \in Nat /\ n[Len(m) + 1] = p
        /\ DOMAIN n = 1..(Len(m) + 1) /\ DOMAIN m = 1..Len(m) /\ \A i \in 1..Len(m) : n[i] = m[i]
    BY <1>4, <2>2, SMT
  <2>4. \A i \in DOMAIN m : m[i] # p
    BY <1>4, Zenon DEF Range
  <2>5. Apart(n)
    <3> SUFFICES ASSUME NEW i \in DOMAIN n, NEW j \in DOMAIN n, n[i] = n[j], i < j
                 PROVE  FALSE
      BY <2>3, SMT DEF Apart
    <3>1. i \in DOMAIN m /\ n[i] = m[i]
      BY <2>3, SMT
    <3>2. CASE j = Len(m) + 1
      BY <2>3, <2>4, <3>1, <3>2, Zenon
    <3>3. CASE j # Len(m) + 1
      <4>1. j \in DOMAIN m /\ n[j] = m[j]
        BY <2>3, <3>3, SMT
      <4>2. i = j
        BY <1>4, <3>1, <4>1, Zenon DEF Apart
      <4> QED
        BY <2>3, <4>2, SMTT(30)
    <3> QED
      BY <3>2, <3>3, Zenon
  <2>6. Range(mounted) \subseteq Range(n)
    <3>1. \A q \in Range(m) : q \in Range(n)
      <4> SUFFICES ASSUME NEW i \in DOMAIN m PROVE m[i] \in Range(n)
        BY Zenon DEF Range
      <4>1. i \in DOMAIN n /\ n[i] = m[i]
        BY <2>3, SMT
      <4> QED
        BY <4>1, Zenon DEF Range
    <3>2. p \in Range(n)
      <4>1. Len(m) + 1 \in DOMAIN n
        BY <2>3, SMT
      <4> QED
        BY <2>3, <4>1, Zenon DEF Range
    <3> QED
      BY <1>4, <3>1, <3>2, Zenon
  <2> QED
    BY <1>1, <2>1, <2>2, <2>3, <2>5, <2>6, Zenon DEF KeyboardInvariant
<1>7. CASE UnmountPane(p)
  <2>1. /\ Len(mounted) > 1 /\ mounted' = m /\ kpage' = kpage /\ commandPane' = active'
        /\ active' = (IF active = p THEN m[1] ELSE active) /\ finding' = finding \ {p}
    BY <1>3, <1>7, Zenon DEF UnmountPane, RegisterCommands
  <2>2. m[1] \in Range(m)
    <3>1. mounted[1] # mounted[2] /\ mounted[1] \in Range(mounted) /\ mounted[2] \in Range(mounted)
      <4>1. 1 \in DOMAIN mounted /\ 2 \in DOMAIN mounted /\ 1 # 2
        BY <1>2, <2>1, SMT
      <4> QED
        BY <1>2, <4>1, Zenon DEF Apart, Range
    <3>5. mounted[1] \in Range(m) \/ mounted[2] \in Range(m)
      <4>1. mounted[1] # p \/ mounted[2] # p
        BY <3>1, Zenon
      <4> QED
        BY <1>4, <3>1, <4>1, Zenon
    <3>2. PICK q : q \in Range(m)
      BY <3>5, Zenon
    <3>3. PICK i \in DOMAIN m : m[i] = q
      BY <3>2, Zenon DEF Range
    <3>4. 1 \in DOMAIN m
      <4>1. m \in Seq(KeyPanes)
        BY <1>4, Zenon
      <4> QED
        BY <3>3, <4>1, SMT
    <3> QED
      BY <3>4, Zenon DEF Range
  <2>3. kpage' = "document" => active' \in Range(mounted')
    BY <1>4, <2>1, <2>2, Zenon DEF KeyboardInvariant
  <2>4. finding' \subseteq Range(mounted')
    BY <1>4, <2>1, Zenon DEF KeyboardInvariant
  <2> QED
    BY <1>1, <1>4, <2>1, <2>3, <2>4, Zenon DEF KeyboardInvariant
<1> QED
  BY <1>5, <1>6, <1>7, Zenon

\* Everything else leaves the panes alone.
LEMMA PanesRest ==
    ASSUME KeyboardInvariant, SavesOnly(fired', active), kpage' = kpage, mounted' = mounted,
           active' = active, commandPane' = commandPane, finding' = finding
    PROVE  KeyboardInvariant'
BY Zenon DEF KeyboardInvariant

\* Every step keeps the invariant.
LEMMA KeyStep == KeyboardInvariant /\ [KeyNext]_keyVars => KeyboardInvariant'
<1> SUFFICES ASSUME KeyboardInvariant, [KeyNext]_keyVars PROVE KeyboardInvariant'
  BY Zenon
<1>1. ASSUME NEW to, GoToPage(to) PROVE KeyboardInvariant'
  <2>1. ShowKeyPage(to) /\ fired' = <<>>
    BY <1>1, Zenon DEF GoToPage
  <2>2. SavesOnly(fired', active')
    BY <2>1, NothingDone, Zenon
  <2> QED
    BY <2>1, <2>2, ShowPageKeeps, Zenon
<1>2. CASE \E p \in KeyPanes : ClickPane(p) \/ ReRegister(p) \/ UnmountPane(p)
  BY <1>2, PaneStepKeeps, Zenon
<1>3. CASE \/ \E o \in Overlays : CloseOverlay(o)
           \/ ShowHelp \/ TypeInHelp \/ CloseHelp \/ Confirm \/ ConfirmAnswered \/ KeyTimeout
  <2>1. /\ fired' = <<>> /\ kpage' = kpage /\ mounted' = mounted /\ active' = active
        /\ commandPane' = commandPane /\ finding' = finding
    BY <1>3, Zenon DEF CloseOverlay, ShowHelp, TypeInHelp, CloseHelp, Confirm, ConfirmAnswered, KeyTimeout
  <2>2. SavesOnly(fired', active)
    BY <2>1, NothingDone, Zenon
  <2> QED
    BY <2>1, <2>2, PanesRest, Zenon
<1>4. ASSUME NEW key \in Keys, KeyDown(key) PROVE KeyboardInvariant'
  BY <1>4, EscapeKeeps, OtherKeyKeeps, Zenon DEF KeyDown
<1>5. CASE RequestSave
  <2>1. /\ fired' = << <<"save", active>> >> /\ kpage' = kpage /\ mounted' = mounted
        /\ active' = active /\ commandPane' = commandPane /\ finding' = finding
    BY <1>5, Zenon DEF RequestSave, KeyboardInvariant
  <2>2. SavesOnly(fired', active)
    BY <2>1, Zenon DEF SavesOnly
  <2> QED
    BY <2>1, <2>2, PanesRest, Zenon
<1>6. CASE UNCHANGED keyVars
  <2>1. /\ fired' = fired /\ kpage' = kpage /\ mounted' = mounted /\ active' = active
        /\ commandPane' = commandPane /\ finding' = finding
    BY <1>6, Zenon DEF keyVars
  <2> QED
    BY <2>1, Zenon DEF KeyboardInvariant
<1> QED
  BY <1>1, <1>2, <1>3, <1>4, <1>5, <1>6, Zenon DEF KeyNext

\* Whichever order the panes registered their hotkeys in, and however they were
\* closed, clicked and registered again, the save key and the palette's Save act
\* once, on the active pane's document.
THEOREM SavesReachActivePane == KeySpec => []SaveReachesActivePane
<1>1. KeyInit => KeyboardInvariant
  <2> SUFFICES ASSUME KeyInit PROVE KeyboardInvariant
    BY Zenon
  <2>1. /\ kpage = "dashboard" /\ mounted = <<>> /\ active = 0 /\ finding = {} /\ commandPane = 0
        /\ fired = <<>>
    BY Zenon DEF KeyInit
  <2>2. mounted \in Seq(KeyPanes) /\ DOMAIN mounted = {}
    BY <2>1, SMT
  <2>3. Apart(mounted) /\ kpage # "document"
    BY <2>1, <2>2, Zenon DEF Apart
  <2>4. SavesOnly(fired, active)
    BY <2>1, NothingDone, Zenon
  <2> QED
    BY <2>1, <2>2, <2>3, <2>4, Zenon DEF KeyboardInvariant
<1>2. KeyboardInvariant => SaveReachesActivePane
  <2> SUFFICES ASSUME KeyboardInvariant PROVE SaveReachesActivePane
    BY Zenon
  <2>1. kpage = "document" => active \in Range(mounted) /\ commandPane = active
    BY Zenon DEF KeyboardInvariant
  <2>2. ASSUME NEW i \in DOMAIN fired, fired[i] \in {<<"save", p>> : p \in KeyPanes}
        PROVE  fired = << <<"save", active>> >>
    <3>1. \A x, y : <<x, y>>[1] = x
      BY Zenon
    <3>2. fired[i][1] = "save"
      BY <2>2, <3>1, Zenon
    <3> QED
      BY <3>2, Zenon DEF KeyboardInvariant, SavesOnly
  <2> QED
    BY <2>1, <2>2, Zenon DEF SaveReachesActivePane
<1> QED
  BY <1>1, <1>2, KeyStep, PTL DEF KeySpec

----------------------------------------------------------------------------
(* The recent documents.                                                   *)

RecentTitles == Titles \cup {"deleted", Unanswered}
RecentEntries == [path : RecentPaths, title : RecentTitles]
Distinct(list) == \A i, j \in DOMAIN list : list[i].path = list[j].path => i = j

\* A round carries the list it was started with, and while it is not cancelled
\* that list has the paths of the present one.
RoundParts == {"snapshot", "answers", "cancelled"}
RoundFits(r, list) ==
    /\ r = [x \in RoundParts |-> r[x]]
    /\ r.snapshot \in Seq(RecentEntries) /\ Distinct(r.snapshot)
    /\ r.answers \in [Listing(r.snapshot) -> RecentTitles]
    /\ r.cancelled \in BOOLEAN
    /\ ~r.cancelled => PathsOf(r.snapshot) = PathsOf(list)

RecentsInvariant ==
    /\ held \in [RecentPaths -> Titles \cup {"deleted"}]
    /\ entryEvents \subseteq RecentPaths \X (Titles \cup {"deleted"})
    /\ recents \in Seq(RecentEntries) /\ Distinct(recents)
    /\ \A r \in rounds : RoundFits(r, recents)
    /\ opened \subseteq Listing(recents)

\* The paths of a list are those of its entries.
LEMMA ListingOf ==
    ASSUME NEW list
    PROVE  \A p : p \in Listing(list) <=> \E i \in DOMAIN list : list[i].path = p
<1>1. DOMAIN PathsOf(list) = DOMAIN list /\ \A i \in DOMAIN list : PathsOf(list)[i] = list[i].path
  BY Zenon DEF PathsOf
<1> QED
  BY <1>1, Zenon DEF Listing, Range

\* A filter keeps paths distinct, and the paths it keeps are those at the kept
\* positions.
LEMMA KeptEntries ==
    ASSUME NEW list \in Seq(RecentEntries), Distinct(list), NEW at, at \subseteq DOMAIN list
    PROVE  /\ KeptAt(list, at) \in Seq(RecentEntries) /\ Distinct(KeptAt(list, at))
           /\ \A p : p \in Listing(KeptAt(list, at)) <=> \E i \in at : list[i].path = p
<1>1. PICK k : k = KeptAt(list, at)
  BY Zenon
<1>2. /\ Cardinality(at) \in Nat /\ k \in Seq(RecentEntries) /\ Len(k) = Cardinality(at)
      /\ \A n \in 1..Cardinality(at) : Position(at, n) \in at /\ k[n] = list[Position(at, n)]
      /\ \A i \in at : \E n \in 1..Cardinality(at) : Position(at, n) = i
      /\ \A m, n \in 1..Cardinality(at) : m < n => Position(at, m) < Position(at, n)
  <2>1. at \subseteq DOMAIN list
    BY Zenon
  <2>2. /\ Cardinality(at) \in Nat
        /\ KeptAt(list, at) \in Seq(RecentEntries) /\ Len(KeptAt(list, at)) = Cardinality(at)
        /\ \A n \in 1..Cardinality(at) :
               Position(at, n) \in at /\ KeptAt(list, at)[n] = list[Position(at, n)]
        /\ \A i \in at : \E n \in 1..Cardinality(at) : Position(at, n) = i
        /\ \A m, n \in 1..Cardinality(at) : m < n => Position(at, m) < Position(at, n)
    BY <2>1, KeptAtFacts, Zenon
  <2> QED
    BY <1>1, <2>2, Zenon
<1>3. DOMAIN k = 1..Cardinality(at)
  BY <1>2, SMTT(30)
<1>4. Distinct(k)
  <2> SUFFICES ASSUME NEW m \in DOMAIN k, NEW n \in DOMAIN k, k[m].path = k[n].path
               PROVE  m = n
    BY Zenon DEF Distinct
  <2>1. Position(at, m) = Position(at, n)
    BY <1>2, <1>3, Zenon DEF Distinct
  <2>2. Position(at, m) \in Int
    BY <1>2, <1>3, SMTT(30)
  <2>3. ~(m < n) /\ ~(n < m)
    BY <1>2, <1>3, <2>1, <2>2, SMT
  <2> QED
    BY <1>2, <1>3, <2>3, SMT
<1>5. \A p : p \in Listing(k) <=> \E i \in at : list[i].path = p
  <2>1. \A p : p \in Listing(k) <=> \E n \in 1..Cardinality(at) : k[n].path = p
    BY <1>3, ListingOf, Zenon
  <2>2. \A p : (\E n \in 1..Cardinality(at) : k[n].path = p) => \E i \in at : list[i].path = p
    BY <1>2, Zenon
  <2>3. \A p : (\E i \in at : list[i].path = p) => \E n \in 1..Cardinality(at) : k[n].path = p
    BY <1>2, Zenon
  <2> QED
    BY <2>1, <2>2, <2>3, Zenon
<1> QED
  BY <1>1, <1>2, <1>4, <1>5, Zenon

\* The list without a path: removeRecentDocument, and the filter of
\* addRecentDocument.
LEMMA WithoutFacts ==
    ASSUME NEW list \in Seq(RecentEntries), Distinct(list), NEW p
    PROVE  /\ Without(list, p) \in Seq(RecentEntries) /\ Distinct(Without(list, p))
           /\ Listing(Without(list, p)) = Listing(list) \ {p}
<1>1. PICK at : at = {i \in DOMAIN list : list[i].path # p}
  BY Zenon
<1>2. at \subseteq DOMAIN list /\ Without(list, p) = KeptAt(list, at)
  BY <1>1, Zenon DEF Without
<1>3. \A q : q \in Listing(Without(list, p)) <=> \E i \in at : list[i].path = q
  BY <1>2, KeptEntries, ZenonT(30)
<1>4. \A q : q \in Listing(list) <=> \E i \in DOMAIN list : list[i].path = q
  BY ListingOf, Zenon
<1>5. Without(list, p) \in Seq(RecentEntries) /\ Distinct(Without(list, p))
  BY <1>2, KeptEntries, Zenon
<1>6. \A q : q \in Listing(Without(list, p)) <=> q \in Listing(list) /\ q # p
  <2>1. \A i : i \in at <=> i \in DOMAIN list /\ list[i].path # p
    BY <1>1, Zenon
  <2>2. ASSUME NEW q, q \in Listing(Without(list, p))
        PROVE  q \in Listing(list) /\ q # p
    <3>1. PICK i \in at : list[i].path = q
      BY <1>3, <2>2, Zenon
    <3> QED
      BY <1>4, <2>1, <3>1, Zenon
  <2>3. ASSUME NEW q, q \in Listing(list), q # p
        PROVE  q \in Listing(Without(list, p))
    <3>1. PICK i \in DOMAIN list : list[i].path = q
      BY <1>4, <2>3, Zenon
    <3> QED
      BY <1>3, <2>1, <2>3, <3>1, Zenon
  <2> QED
    BY <2>2, <2>3, Zenon
<1> QED
  BY <1>5, <1>6, Zenon

\* An opened document is put first and the list capped: paths stay distinct.
LEMMA CappedFacts ==
    ASSUME NEW list \in Seq(RecentEntries), Distinct(list), NEW e \in RecentEntries,
           e.path \notin Listing(list)
    PROVE  Capped(<<e>> \o list) \in Seq(RecentEntries) /\ Distinct(Capped(<<e>> \o list))
<1>1. PICK l : l = <<e>> \o list
  BY Zenon
<1>2. l \in Seq(RecentEntries) /\ Len(l) = Len(list) + 1 /\ l[1] = e
      /\ \A i \in 2..Len(l) : l[i] = list[i - 1]
  BY <1>1, SMT
<1>3. \A i \in DOMAIN list : list[i].path # e.path
  BY ListingOf, Zenon
<1>4. Distinct(l)
  <2> SUFFICES ASSUME NEW i \in 1..Len(l), NEW j \in 1..Len(l), l[i].path = l[j].path, i < j
               PROVE  FALSE
    <3>1. DOMAIN l = 1..Len(l)
      BY <1>2, SMT
    <3> QED
      BY <3>1, SMTT(30) DEF Distinct
  <2>1. j \in 2..Len(l) /\ l[j] = list[j - 1] /\ j - 1 \in DOMAIN list
    BY <1>2, SMT
  <2>2. CASE i = 1
    BY <1>2, <1>3, <2>1, <2>2, Zenon
  <2>3. CASE i # 1
    <3>1. l[i] = list[i - 1] /\ i - 1 \in DOMAIN list
      BY <1>2, <2>3, SMT
    <3>2. i - 1 = j - 1
      BY <2>1, <3>1, Zenon DEF Distinct
    <3> QED
      BY <3>2, SMTT(30)
  <2> QED
    BY <2>2, <2>3, Zenon
<1>5. PICK m : m = IF Len(l) < MaxRecents THEN Len(l) ELSE MaxRecents
  BY Zenon
<1>6. m \in Nat /\ m <= Len(l)
  BY <1>2, <1>5, RecentsAssumption, SMT
<1>7. Capped(l) = SubSeq(l, 1, m)
  BY <1>5, Zenon DEF Capped
<1>8. SubSeq(l, 1, m) \in Seq(RecentEntries) /\ Len(SubSeq(l, 1, m)) = m
      /\ \A i \in 1..m : SubSeq(l, 1, m)[i] = l[i]
  BY <1>2, <1>6, SMTT(30)
<1>9. DOMAIN SubSeq(l, 1, m) = 1..m /\ 1..m \subseteq DOMAIN l
  BY <1>2, <1>6, <1>8, SMTT(30)
<1>10. Distinct(SubSeq(l, 1, m))
  BY <1>4, <1>8, <1>9, Zenon DEF Distinct
<1> QED
  BY <1>1, <1>7, <1>8, <1>10, Zenon

\* A round that is cancelled fits any list.
LEMMA CancelledFits ==
    ASSUME NEW l, NEW m, NEW r, RoundFits(r, l)
    PROVE  RoundFits([r EXCEPT !.cancelled = TRUE], m)
<1>1. PICK c : c = [r EXCEPT !.cancelled = TRUE]
  BY Zenon
<1>2. /\ c = [x \in RoundParts |-> c[x]] /\ c.snapshot = r.snapshot /\ c.answers = r.answers
      /\ c.cancelled = TRUE
  <2>1. r = [x \in RoundParts |-> r[x]]
    BY Zenon DEF RoundFits
  <2>2. c = [x \in RoundParts |-> IF x = "cancelled" THEN TRUE ELSE r[x]]
    BY <1>1, <2>1, Zenon
  <2>3. c = [x \in RoundParts |-> c[x]]
    BY <2>2, Zenon
  <2>4. c.snapshot = r.snapshot /\ c.answers = r.answers /\ c.cancelled = TRUE
    BY <2>2, Zenon DEF RoundParts
  <2> QED
    BY <2>3, <2>4, Zenon
<1> QED
  BY <1>1, <1>2, Zenon DEF RoundFits

\* A new round fits the list it is started with.
LEMMA RoundStarts ==
    ASSUME NEW list \in Seq(RecentEntries), Distinct(list)
    PROVE  RoundFits(Round(list), list)
<1>1. PICK c : c = Round(list)
  BY Zenon
<1>2. PICK a : a = [p \in Listing(list) |-> Unanswered]
  BY Zenon
<1>3. c = [snapshot |-> list, answers |-> a, cancelled |-> FALSE]
  BY <1>1, <1>2, Zenon DEF Round
<1>4. /\ c = [x \in RoundParts |-> c[x]] /\ c.snapshot = list /\ c.answers = a
      /\ c.cancelled = FALSE
  BY <1>3, Zenon DEF RoundParts
<1>5. a \in [Listing(list) -> RecentTitles]
  BY <1>2, Zenon DEF RecentTitles
<1> QED
  BY <1>1, <1>4, <1>5, Zenon DEF RoundFits

\* set({documents}): whatever rounds are left fit the new list, since a change
\* of the paths cancels those under way.
LEMMA SetDocumentsKeeps ==
    ASSUME NEW list \in Seq(RecentEntries), Distinct(list), NEW rs,
           \A r \in rs : RoundFits(r, recents), SetDocuments(list, rs)
    PROVE  recents' = list /\ \A r \in rounds' : RoundFits(r, recents')
<1>1. recents' = list
  BY Zenon DEF SetDocuments
<1>2. CASE PathsOf(list) = PathsOf(recents)
  <2>1. rounds' = rs
    BY <1>2, Zenon DEF SetDocuments
  <2> QED
    BY <1>1, <1>2, <2>1, Zenon DEF RoundFits
<1>3. CASE PathsOf(list) # PathsOf(recents)
  <2>1. \A r \in rounds' : r \in CancelRounds(rs) \/ r = Round(list)
    BY <1>3, Zenon DEF SetDocuments
  <2>2. \A r \in CancelRounds(rs) : \E q \in rs : r = [q EXCEPT !.cancelled = TRUE]
    BY Zenon DEF CancelRounds
  <2>3. ASSUME NEW r \in CancelRounds(rs)
        PROVE  RoundFits(r, list)
    <3>1. PICK q \in rs : r = [q EXCEPT !.cancelled = TRUE]
      BY <2>2, Zenon
    <3>2. RoundFits(q, recents)
      BY Zenon
    <3>3. RoundFits([q EXCEPT !.cancelled = TRUE], list)
      BY <3>2, CancelledFits, Zenon
    <3> QED
      BY <3>1, <3>3, Zenon
  <2>4. RoundFits(Round(list), list)
    BY RoundStarts, Zenon
  <2> QED
    BY <1>1, <2>1, <2>3, <2>4, Zenon
<1> QED
  BY <1>2, <1>3, Zenon

\* The list a round leaves: the documents that are not deleted, with the titles
\* of the answers.
LEMMA ValidatedFacts ==
    ASSUME NEW r, NEW list, RoundFits(r, list)
    PROVE  /\ Validated(r) \in Seq(RecentEntries) /\ Distinct(Validated(r))
           /\ \A p \in Listing(r.snapshot) :
                  r.answers[p] # "deleted" => p \in Listing(Validated(r))
<1>1. PICK at : at = {i \in DOMAIN r.snapshot : r.answers[r.snapshot[i].path] # "deleted"}
  BY Zenon
<1>2. PICK live : live = KeptAt(r.snapshot, at)
  BY Zenon
<1>3. PICK v : v = [i \in DOMAIN live |-> [live[i] EXCEPT !.title = r.answers[live[i].path]]]
  BY Zenon
<1>4. v = Validated(r)
  BY <1>1, <1>2, <1>3, Zenon DEF Validated
<1>5. r.snapshot \in Seq(RecentEntries) /\ Distinct(r.snapshot) /\ at \subseteq DOMAIN r.snapshot
  BY <1>1, Zenon DEF RoundFits
<1>6. live \in Seq(RecentEntries) /\ Distinct(live)
  BY <1>2, <1>5, KeptEntries, Zenon
<1>7. \A p : p \in Listing(live) <=> \E i \in at : r.snapshot[i].path = p
  BY <1>2, <1>5, KeptEntries
<1>14. \A p : p \in Listing(r.snapshot) <=> \E i \in DOMAIN r.snapshot : r.snapshot[i].path = p
  BY ListingOf, Zenon
<1>8. ASSUME NEW i \in DOMAIN live
      PROVE  v[i] \in RecentEntries /\ v[i].path = live[i].path
  <2>1. live[i] \in RecentEntries /\ live[i].path \in Listing(live)
    BY <1>6, <1>8, ListingOf, SMTT(30)
  <2>2. live[i].path \in Listing(r.snapshot)
    BY <1>1, <1>7, <1>14, <2>1, Zenon
  <2>3. r.answers[live[i].path] \in RecentTitles
    BY <2>2, Zenon DEF RoundFits
  <2>4. v[i] = [live[i] EXCEPT !.title = r.answers[live[i].path]]
    BY <1>3, <1>8, Zenon
  <2> QED
    BY <2>1, <2>3, <2>4, Zenon DEF RecentEntries
<1>9. DOMAIN v = DOMAIN live
  BY <1>3, Zenon
<1>10. v \in Seq(RecentEntries)
  <2>1. DOMAIN live = 1..Len(live) /\ Len(live) \in Nat
    BY <1>6, SMT
  <2>2. v \in [1..Len(live) -> RecentEntries]
    BY <1>3, <1>8, <2>1, Zenon
  <2> QED
    BY <2>1, <2>2, SMTT(30)
<1>11. Distinct(v)
  BY <1>6, <1>8, <1>9, Zenon DEF Distinct
<1>12. \A p : p \in Listing(live) => p \in Listing(v)
  <2>1. \A p : p \in Listing(v) <=> \E i \in DOMAIN v : v[i].path = p
    BY ListingOf, Zenon
  <2>2. \A p : p \in Listing(live) <=> \E i \in DOMAIN live : live[i].path = p
    BY ListingOf, Zenon
  <2> QED
    BY <1>8, <1>9, <2>1, <2>2, Zenon
<1>13. \A p \in Listing(r.snapshot) : r.answers[p] # "deleted" => p \in Listing(live)
  BY <1>1, <1>7, <1>14, Zenon
<1> QED
  BY <1>4, <1>10, <1>11, <1>12, <1>13, Zenon

\* addRecentDocument: what was listed stays listed unless the cap drops it.
LEMMA AddKeeps ==
    ASSUME RecentsInvariant, NEW p \in RecentPaths, AddRecentDocument(p)
    PROVE  RecentsInvariant'
<1>1. PICK e : e = [path |-> p, title |-> held[p]]
  BY Zenon
<1>2. PICK w : w = Without(recents, p)
  BY Zenon
<1>3. PICK list : list = Capped(<<e>> \o w)
  BY Zenon
<1>4. /\ SetDocuments(list, rounds) /\ held' = held /\ entryEvents' = entryEvents
      /\ opened' = (opened \cup {p}) \cap Listing(recents')
  BY <1>1, <1>2, <1>3, Zenon DEF AddRecentDocument
<1>5. held[p] \in RecentTitles
  BY Zenon DEF RecentsInvariant, RecentTitles
<1>6. e \in RecentEntries /\ e.path = p
  BY <1>1, <1>5, Zenon DEF RecentEntries
<1>7. recents \in Seq(RecentEntries) /\ Distinct(recents) /\ \A r \in rounds : RoundFits(r, recents)
  BY Zenon DEF RecentsInvariant
<1>8. w \in Seq(RecentEntries) /\ Distinct(w) /\ Listing(w) = Listing(recents) \ {p}
  BY <1>2, <1>7, WithoutFacts, Zenon
<1>9. e.path \notin Listing(w)
  BY <1>6, <1>8, Zenon
<1>10. list \in Seq(RecentEntries) /\ Distinct(list)
  BY <1>3, <1>6, <1>8, <1>9, CappedFacts, Zenon
<1>11. recents' = list /\ \A r \in rounds' : RoundFits(r, recents')
  BY <1>4, <1>7, <1>10, SetDocumentsKeeps, ZenonT(30)
<1>12. opened' \subseteq Listing(recents')
  BY <1>4, Zenon
<1> QED
  BY <1>4, <1>10, <1>11, <1>12, Zenon DEF RecentsInvariant

\* clearRecentDocuments: an empty list, and nothing is owed to it.
LEMMA ClearKeeps ==
    ASSUME RecentsInvariant, ClearRecentDocuments
    PROVE  RecentsInvariant'
<1>1. /\ SetDocuments(<<>>, rounds) /\ held' = held /\ entryEvents' = entryEvents
      /\ opened' = {}
  BY Zenon DEF ClearRecentDocuments
<1>2. PICK list : list = <<>>
  BY Zenon
<1>3. list \in Seq(RecentEntries) /\ DOMAIN list = {}
  BY <1>2, SMT
<1>4. Distinct(list)
  BY <1>3, Zenon DEF Distinct
<1>5. \A r \in rounds : RoundFits(r, recents)
  BY Zenon DEF RecentsInvariant
<1>6. SetDocuments(list, rounds)
  BY <1>1, <1>2, Zenon
<1>7. recents' = list /\ \A r \in rounds' : RoundFits(r, recents')
  BY <1>3, <1>4, <1>5, <1>6, SetDocumentsKeeps, Zenon
<1> QED
  BY <1>1, <1>3, <1>4, <1>7, Zenon DEF RecentsInvariant

\* entry/deleted removes the path, entry/updated changes its title.
LEMMA EventKeeps ==
    ASSUME RecentsInvariant, NEW e \in entryEvents, EntryEvent(e)
    PROVE  RecentsInvariant'
<1>1. /\ entryEvents' \subseteq entryEvents /\ held' = held
      /\ RemoveRecentDocument(e[1]) \/ UpdateRecentDocumentTitle(e[1], e[2])
  BY Zenon DEF EntryEvent
<1>2. e[1] \in RecentPaths /\ e[2] \in RecentTitles
  <2>1. e \in RecentPaths \X (Titles \cup {"deleted"})
    BY Zenon DEF RecentsInvariant
  <2>2. e[1] \in RecentPaths /\ e[2] \in Titles \cup {"deleted"}
    BY <2>1, Zenon
  <2> QED
    BY <2>2, Zenon DEF RecentTitles
<1>3. recents \in Seq(RecentEntries) /\ Distinct(recents) /\ \A r \in rounds : RoundFits(r, recents)
  BY Zenon DEF RecentsInvariant
<1>4. CASE RemoveRecentDocument(e[1])
  <2>1. PICK w : w = Without(recents, e[1])
    BY Zenon
  <2>2. SetDocuments(w, rounds) /\ opened' = opened \ {e[1]}
    BY <1>4, <2>1, Zenon DEF RemoveRecentDocument
  <2>3. w \in Seq(RecentEntries) /\ Distinct(w) /\ Listing(w) = Listing(recents) \ {e[1]}
    BY <1>3, <2>1, WithoutFacts, Zenon
  <2>4. recents' = w /\ \A r \in rounds' : RoundFits(r, recents')
    BY <1>3, <2>2, <2>3, SetDocumentsKeeps, Zenon
  <2>5. opened' \subseteq Listing(recents')
    BY <2>2, <2>3, <2>4, Zenon DEF RecentsInvariant
  <2> QED
    BY <1>1, <2>3, <2>4, <2>5, Zenon DEF RecentsInvariant
<1>5. CASE UpdateRecentDocumentTitle(e[1], e[2])
  <2>1. PICK w : w = [i \in DOMAIN recents |-> IF recents[i].path = e[1]
                                               THEN [recents[i] EXCEPT !.title = e[2]]
                                               ELSE recents[i]]
    BY Zenon
  <2>2. SetDocuments(w, rounds) /\ opened' = opened
    BY <1>5, <2>1, Zenon DEF UpdateRecentDocumentTitle
  <2>3. DOMAIN w = DOMAIN recents
    BY <2>1, Zenon
  <2>4. ASSUME NEW i \in DOMAIN recents
        PROVE  w[i] \in RecentEntries /\ w[i].path = recents[i].path
    <3>1. recents[i] \in RecentEntries
      BY <1>3, <2>4, SMTT(30)
    <3>2. w[i] = [recents[i] EXCEPT !.title = e[2]] \/ w[i] = recents[i]
      BY <2>1, <2>4, Zenon
    <3> QED
      BY <1>2, <3>1, <3>2, Zenon DEF RecentEntries
  <2>5. w \in Seq(RecentEntries)
    <3>1. DOMAIN recents = 1..Len(recents) /\ Len(recents) \in Nat
      BY <1>3, SMTT(30)
    <3>2. w \in [1..Len(recents) -> RecentEntries]
      BY <2>1, <2>4, <3>1, Zenon
    <3> QED
      BY <3>1, <3>2, SMTT(30)
  <2>6. Distinct(w)
    BY <1>3, <2>3, <2>4, Zenon DEF Distinct
  <2>7. recents' = w /\ \A r \in rounds' : RoundFits(r, recents')
    BY <1>3, <2>2, <2>5, <2>6, SetDocumentsKeeps, Zenon
  <2>8. PathsOf(w) = PathsOf(recents)
    BY <2>3, <2>4, Zenon DEF PathsOf
  <2>9. opened' \subseteq Listing(recents')
    BY <2>2, <2>7, <2>8, Zenon DEF RecentsInvariant, Listing
  <2> QED
    BY <1>1, <2>5, <2>6, <2>7, <2>9, Zenon DEF RecentsInvariant
<1> QED
  BY <1>1, <1>4, <1>5, Zenon

\* A document is renamed or deleted in the service.
LEMMA ChangeKeeps ==
    ASSUME RecentsInvariant, NEW p \in RecentPaths, NEW title \in Titles \cup {"deleted"},
           EntryChanges(p, title)
    PROVE  RecentsInvariant'
<1>1. /\ held' = [held EXCEPT ![p] = title] /\ entryEvents' = entryEvents \cup {<<p, title>>}
      /\ recents' = recents /\ rounds' = rounds /\ opened' = opened
  BY Zenon DEF EntryChanges
<1>2. held' \in [RecentPaths -> Titles \cup {"deleted"}]
  BY <1>1, Zenon DEF RecentsInvariant
<1>3. entryEvents' \subseteq RecentPaths \X (Titles \cup {"deleted"})
  <2>1. <<p, title>> \in RecentPaths \X (Titles \cup {"deleted"})
    BY Zenon
  <2> QED
    BY <1>1, <2>1, Zenon DEF RecentsInvariant
<1> QED
  BY <1>1, <1>2, <1>3, Zenon DEF RecentsInvariant

\* A document of a round is answered.
LEMMA FetchKeeps ==
    ASSUME RecentsInvariant, NEW r \in rounds, NEW p, NEW ok \in BOOLEAN,
           FetchAnswers(r, p, ok)
    PROVE  RecentsInvariant'
<1>1. PICK t : t = IF ok THEN held[p] ELSE "deleted"
  BY Zenon
<1>2. PICK c : c = [r EXCEPT !.answers[p] = t]
  BY Zenon
<1>3. /\ p \in DOMAIN r.answers /\ rounds' = (rounds \ {r}) \cup {c}
      /\ held' = held /\ entryEvents' = entryEvents /\ recents' = recents /\ opened' = opened
  BY <1>1, <1>2, Zenon DEF FetchAnswers
<1>4. RoundFits(r, recents)
  BY Zenon DEF RecentsInvariant
<1>5. r = [x \in RoundParts |-> r[x]] /\ r.answers \in [Listing(r.snapshot) -> RecentTitles]
  BY <1>4, Zenon DEF RoundFits
<1>6. p \in RecentPaths
  <2>1. p \in Listing(r.snapshot)
    BY <1>3, <1>5, Zenon
  <2>2. PICK i \in DOMAIN r.snapshot : r.snapshot[i].path = p
    BY <2>1, ListingOf, Zenon
  <2>3. r.snapshot \in Seq(RecentEntries)
    BY <1>4, Zenon DEF RoundFits
  <2>4. r.snapshot[i] \in RecentEntries
    BY <2>3, SMTT(30)
  <2> QED
    BY <2>2, <2>4, Zenon DEF RecentEntries
<1>7. t \in RecentTitles
  BY <1>1, <1>6, Zenon DEF RecentsInvariant, RecentTitles
<1>8. PICK a : a = [r.answers EXCEPT ![p] = t]
  BY Zenon
<1>9. c = [x \in RoundParts |-> IF x = "answers" THEN a ELSE r[x]]
  <2>1. c = [r EXCEPT !.answers = a]
    BY <1>2, <1>8, Zenon
  <2> QED
    BY <1>5, <2>1, Zenon
<1>10. c = [x \in RoundParts |-> c[x]]
  BY <1>9, Zenon
<1>11. c.snapshot = r.snapshot /\ c.answers = a /\ c.cancelled = r.cancelled
  BY <1>9, Zenon DEF RoundParts
<1>12. a \in [Listing(r.snapshot) -> RecentTitles]
  BY <1>5, <1>7, <1>8, Zenon
<1>13. RoundFits(c, recents)
  BY <1>4, <1>10, <1>11, <1>12, Zenon DEF RoundFits
<1>14. \A q \in rounds' : RoundFits(q, recents')
  BY <1>3, <1>13, Zenon DEF RecentsInvariant
<1> QED
  BY <1>3, <1>14, Zenon DEF RecentsInvariant

\* A round comes to its end: it writes the list only when it is not cancelled,
\* and then the list has the paths of its snapshot.
LEMMA RoundEndKeeps ==
    ASSUME RecentsInvariant, NEW r \in rounds, RoundEnds(r)
    PROVE  RecentsInvariant'
<1>1. held' = held /\ entryEvents' = entryEvents
  BY Zenon DEF RoundEnds
<1>2. PICK v : v = Validated(r)
  BY Zenon
<1>3. PICK rs : rs = rounds \ {r}
  BY Zenon
<1>4. recents \in Seq(RecentEntries) /\ Distinct(recents) /\ \A q \in rs : RoundFits(q, recents)
  BY <1>3, Zenon DEF RecentsInvariant
<1>5. CASE rounds' = rs /\ recents' = recents /\ opened' = opened
  BY <1>1, <1>4, <1>5, Zenon DEF RecentsInvariant
<1>6. CASE /\ ~r.cancelled /\ SetDocuments(v, rs)
           /\ opened' = opened \ {p \in DOMAIN r.answers : r.answers[p] = "deleted"}
  <2>1. RoundFits(r, recents)
    BY Zenon DEF RecentsInvariant
  <2>2. v \in Seq(RecentEntries) /\ Distinct(v)
    BY <1>2, <2>1, ValidatedFacts, Zenon
  <2>3. \A p \in Listing(r.snapshot) : r.answers[p] # "deleted" => p \in Listing(v)
    BY <1>2, <2>1, ValidatedFacts, Zenon
  <2>4. recents' = v /\ \A q \in rounds' : RoundFits(q, recents')
    BY <1>4, <1>6, <2>2, SetDocumentsKeeps, Zenon
  <2>5. Listing(r.snapshot) = Listing(recents) /\ DOMAIN r.answers = Listing(r.snapshot)
    BY <1>6, <2>1, Zenon DEF RoundFits, Listing
  <2>6. opened' \subseteq Listing(recents')
    BY <1>6, <2>3, <2>4, <2>5, Zenon DEF RecentsInvariant
  <2> QED
    BY <1>1, <2>2, <2>4, <2>6, Zenon DEF RecentsInvariant
<1>7. \/ rounds' = rs /\ recents' = recents /\ opened' = opened
      \/ /\ ~r.cancelled /\ SetDocuments(v, rs)
         /\ opened' = opened \ {p \in DOMAIN r.answers : r.answers[p] = "deleted"}
  BY <1>2, <1>3, Zenon DEF RoundEnds
<1> QED
  BY <1>5, <1>6, <1>7, Zenon

\* The invariant holds at the start.
LEMMA RecentsStart == RecentInit => RecentsInvariant
<1> SUFFICES ASSUME RecentInit PROVE RecentsInvariant
  BY Zenon
<1>1. /\ held = [p \in RecentPaths |-> "t1"] /\ entryEvents = {} /\ recents = <<>>
      /\ rounds = {} /\ opened = {}
  BY Zenon DEF RecentInit
<1>2. "t1" \in Titles \cup {"deleted"}
  BY Zenon DEF Titles
<1>3. held \in [RecentPaths -> Titles \cup {"deleted"}]
  BY <1>1, <1>2, Zenon
<1>4. recents \in Seq(RecentEntries) /\ DOMAIN recents = {}
  BY <1>1, SMT
<1>5. Distinct(recents)
  BY <1>4, Zenon DEF Distinct
<1> QED
  BY <1>1, <1>3, <1>4, <1>5, Zenon DEF RecentsInvariant

\* Every step keeps the invariant.
LEMMA RecentsStep == RecentsInvariant /\ [RecentNext]_recentVars => RecentsInvariant'
<1> SUFFICES ASSUME RecentsInvariant, [RecentNext]_recentVars PROVE RecentsInvariant'
  BY Zenon
<1>1. CASE \E p \in RecentPaths : AddRecentDocument(p)
  BY <1>1, AddKeeps, Zenon
<1>2. CASE ClearRecentDocuments
  BY <1>2, ClearKeeps, Zenon
<1>3. CASE \E p \in RecentPaths, title \in Titles \cup {"deleted"} : EntryChanges(p, title)
  BY <1>3, ChangeKeeps, Zenon
<1>4. CASE \E e \in entryEvents : EntryEvent(e)
  BY <1>4, EventKeeps, Zenon
<1>5. CASE \E r \in rounds : RoundEnds(r)
  BY <1>5, RoundEndKeeps, Zenon
<1>6. CASE \E r \in rounds, p \in RecentPaths, ok \in BOOLEAN : FetchAnswers(r, p, ok)
  BY <1>6, FetchKeeps, Zenon
<1>7. CASE UNCHANGED recentVars
  BY <1>7, Zenon DEF recentVars, RecentsInvariant
<1> QED
  BY <1>1, <1>2, <1>3, <1>4, <1>5, <1>6, <1>7, ZenonT(30) DEF RecentNext

\* A list whose paths are distinct has as many paths as entries.
LEMMA AsManyPaths ==
    ASSUME NEW list \in Seq(RecentEntries), Distinct(list)
    PROVE  Cardinality(Listing(list)) = Len(list)
<1>1. PICK f : f = PathsOf(list)
  BY Zenon
<1>2. DOMAIN list = 1..Len(list) /\ Len(list) \in Nat
  BY SMT
<1>3. f = [i \in 1..Len(list) |-> list[i].path] /\ Range(f) = Listing(list)
  BY <1>1, <1>2, Zenon DEF PathsOf, Listing
<1>4. f \in Surjection(1..Len(list), Listing(list))
  BY <1>3, Zenon DEF Surjection, Range
<1>5. f \in Injection(1..Len(list), Listing(list))
  BY <1>2, <1>3, <1>4, Zenon DEF Injection, IsInjective, Surjection, Distinct
<1>6. IsFiniteSet(1..Len(list)) /\ Cardinality(1..Len(list)) = Len(list)
  <2>1. PICK n \in Nat : n = Len(list)
    BY <1>2, Zenon
  <2>2. IsFiniteSet(1..n) /\ Cardinality(1..n) = IF 1 > n THEN 0 ELSE n - 1 + 1
    BY FS_Interval
  <2> QED
    BY <2>1, <2>2
<1> QED
  BY <1>4, <1>5, <1>6, FS_Surjection, ZenonT(30)

\* A document that was opened stays listed until newer ones push it out, the
\* list is cleared or it is said to be deleted, and no path is listed twice.
THEOREM OpenedStayListed == RecentSpec => []RecentsKept
<1>1. RecentsInvariant => RecentsKept
  BY AsManyPaths, Zenon DEF RecentsInvariant, RecentsKept
<1> QED
  BY <1>1, RecentsStart, RecentsStep, PTL DEF RecentSpec

----------------------------------------------------------------------------
(* The search page.                                                        *)

\* Every row matches the query.
Matching(list, q) == \A i \in DOMAIN list : TextMatches(list[i], q) /\ PassesFilters(list[i], q)

PageParts == {"query", "gen", "timer", "loading", "rows", "error", "at", "focus"}
QueryParts == {"gen", "query", "state", "rows"}

\* A call to the backend belongs to a generation of the page, and one of the
\* present generation asks for the query shown.
QueryFits(c, page) ==
    /\ c = [x \in QueryParts |-> c[x]]
    /\ c.gen \in Int /\ c.gen <= page.gen
    /\ c.gen = page.gen => c.query = page.query
    /\ c.query # <<>>
    /\ c.state = "done" => Matching(c.rows, c.query)

RowsFit(page) == Matching(page.rows, page.query) /\ (page.query = <<>> => DOMAIN page.rows = {})

PageFits(page) ==
    /\ page = [x \in PageParts |-> page[x]] /\ page.gen \in Int
    /\ ~page.timer /\ ~page.loading => RowsFit(page)

PageInvariant == PageFits(searchPage) /\ \A c \in pageCalls : QueryFits(c, searchPage)

\* The smaller of two numbers.
LEMMA MinOfTwo ==
    ASSUME NEW a \in Int, NEW b \in Int
    PROVE  Min({a, b}) \in {a, b} /\ Min({a, b}) <= b
<1>1. \E x \in {a, b} : \A y \in {a, b} : x <= y
  <2>1. CASE a <= b
    BY <2>1, SMT
  <2>2. CASE b <= a
    BY <2>2, SMT
  <2> QED
    BY <2>1, <2>2, SMTT(30)
<1>2. Min({a, b}) \in {a, b} /\ \A y \in {a, b} : Min({a, b}) <= y
  BY <1>1, Zenon DEF Min
<1> QED
  BY <1>2, Zenon

\* A prefix of a list that matches matches.
LEMMA PrefixMatches ==
    ASSUME NEW list \in Seq(SearchDocs), NEW q, Matching(list, q), NEW n \in Nat, n <= Len(list)
    PROVE  SubSeq(list, 1, n) \in Seq(SearchDocs) /\ Matching(SubSeq(list, 1, n), q)
<1>1. SubSeq(list, 1, n) \in Seq(SearchDocs) /\ Len(SubSeq(list, 1, n)) = n
      /\ \A i \in 1..n : SubSeq(list, 1, n)[i] = list[i]
  BY SMTT(30)
<1>2. DOMAIN SubSeq(list, 1, n) = 1..n /\ 1..n \subseteq DOMAIN list
  BY <1>1, SMT
<1> QED
  BY <1>1, <1>2, Zenon DEF Matching

\* What a search finds matches the query.
LEMMA SearchFinds ==
    ASSUME NEW docs, NEW q
    PROVE  SearchIn(docs, q) \in Seq(SearchDocs) /\ Matching(SearchIn(docs, q), q)
<1>1. PICK at : at = {i \in DOMAIN DocOrder : /\ DocOrder[i] \in docs
                                              /\ TextMatches(DocOrder[i], q)
                                              /\ PassesFilters(DocOrder[i], q)}
  BY Zenon
<1>2. PICK hits : hits = KeptAt(DocOrder, at)
  BY Zenon
<1>3. DocOrder \in Seq(SearchDocs) /\ SearchLimit \in Nat /\ at \subseteq DOMAIN DocOrder
  BY <1>1, SearchAssumption, Zenon
<1>4. /\ Cardinality(at) \in Nat /\ hits \in Seq(SearchDocs) /\ Len(hits) = Cardinality(at)
      /\ \A n \in 1..Cardinality(at) : Position(at, n) \in at /\ hits[n] = DocOrder[Position(at, n)]
  BY <1>2, <1>3, KeptAtFacts, SMTT(30)
<1>5. DOMAIN hits = 1..Cardinality(at) /\ Len(hits) \in Nat
  BY <1>4, SMT
<1>6. Matching(hits, q)
  BY <1>1, <1>4, <1>5, Zenon DEF Matching
<1>7. PICK n : n = Min({SearchLimit, Len(hits)})
  BY Zenon
<1>8. n \in Nat /\ n <= Len(hits)
  <2>1. SearchLimit \in Int /\ Len(hits) \in Int
    BY <1>3, <1>5, SMTT(30)
  <2>2. n \in {SearchLimit, Len(hits)} /\ n <= Len(hits)
    BY <1>7, <2>1, MinOfTwo, Zenon
  <2> QED
    BY <1>3, <1>5, <2>2, Zenon
<1>9. SubSeq(hits, 1, n) \in Seq(SearchDocs) /\ Matching(SubSeq(hits, 1, n), q)
  BY <1>4, <1>6, <1>8, PrefixMatches, ZenonT(30)
<1>10. PICK none : none = <<>>
  BY Zenon
<1>11. none \in Seq(SearchDocs) /\ DOMAIN none = {}
  BY <1>10, SMTT(30)
<1>12. Matching(none, q)
  BY <1>11, Zenon DEF Matching
<1>13. SearchIn(docs, q) = none \/ SearchIn(docs, q) = SubSeq(hits, 1, n)
  BY <1>1, <1>2, <1>7, <1>10, ZenonT(30) DEF SearchIn
<1> QED
  BY <1>9, <1>11, <1>12, <1>13, Zenon

\* So do the rows of the backend.
LEMMA RowsFound ==
    ASSUME NEW docs, NEW q
    PROVE  Matching(QueryRows(docs, q), q)
<1>1. PICK hits : hits = SearchIn(docs, q)
  BY Zenon
<1>2. hits \in Seq(SearchDocs) /\ Matching(hits, q)
  BY <1>1, SearchFinds, Zenon
<1>3. PICK n : n = Min({1, Len(hits)})
  BY Zenon
<1>4. n \in Nat /\ n <= Len(hits)
  <2>1. 1 \in Int /\ Len(hits) \in Int /\ 1 \in Nat /\ Len(hits) \in Nat
    BY <1>2, SMT
  <2>2. n \in {1, Len(hits)} /\ n <= Len(hits)
    BY <1>3, <2>1, MinOfTwo, Zenon
  <2> QED
    BY <2>1, <2>2, Zenon
<1>5. PICK more : more = SubSeq(hits, 1, n)
  BY Zenon
<1>6. more \in Seq(SearchDocs) /\ Matching(more, q)
  BY <1>2, <1>4, <1>5, PrefixMatches, Zenon
<1>7. QueryRows(docs, q) = hits \o more
  BY <1>1, <1>3, <1>5, ZenonT(30) DEF QueryRows
<1>8. \A i \in DOMAIN (hits \o more) :
          (\E j \in DOMAIN hits : (hits \o more)[i] = hits[j])
              \/ \E j \in DOMAIN more : (hits \o more)[i] = more[j]
  BY <1>2, <1>6, JoinedFacts
<1> QED
  BY <1>2, <1>6, <1>7, <1>8, ZenonT(30) DEF Matching

\* The calls still fit when the page keeps its generation and its query, or goes
\* on to the next generation.
LEMMA CallsStillFit ==
    ASSUME PageInvariant, NEW page, NEW c \in pageCalls,
           \/ page.gen = searchPage.gen /\ page.query = searchPage.query
           \/ page.gen = searchPage.gen + 1
    PROVE  QueryFits(c, page)
<1>1. QueryFits(c, searchPage) /\ searchPage.gen \in Int
  BY Zenon DEF PageInvariant, PageFits
<1>2. c.gen \in Int /\ c.gen <= searchPage.gen
  BY <1>1, Zenon DEF QueryFits
<1>3. CASE page.gen = searchPage.gen /\ page.query = searchPage.query
  BY <1>1, <1>3, Zenon DEF QueryFits
<1>4. CASE page.gen = searchPage.gen + 1
  <2>1. c.gen <= page.gen /\ c.gen # page.gen
    BY <1>1, <1>2, <1>4, SMTT(30)
  <2> QED
    BY <1>1, <2>1, Zenon DEF QueryFits
<1> QED
  BY <1>3, <1>4, Zenon

\* A step that leaves the calls alone, or takes one away.
LEMMA PageMoves ==
    ASSUME PageInvariant, PageFits(searchPage'), pageCalls' \subseteq pageCalls,
           \/ searchPage'.gen = searchPage.gen /\ searchPage'.query = searchPage.query
           \/ searchPage'.gen = searchPage.gen + 1
    PROVE  PageInvariant'
<1>1. PICK page : page = searchPage'
  BY Zenon
<1>2. \A c \in pageCalls : QueryFits(c, page)
  BY <1>1, CallsStillFit, Zenon
<1> QED
  BY <1>1, <1>2, Zenon DEF PageInvariant

\* The fields of the page are told apart.
LEMMA PageIsRecord ==
    ASSUME PageInvariant
    PROVE  searchPage = [x \in PageParts |-> searchPage[x]] /\ searchPage.gen \in Int
BY Zenon DEF PageInvariant, PageFits

\* A new query: a new generation, and the debounce runs.
LEMMA NewQueryKeeps ==
    ASSUME PageInvariant, NEW q, NEW focus, pageCalls' = pageCalls,
           searchPage' = [searchPage EXCEPT !.query = q, !.gen = searchPage.gen + 1,
                                            !.timer = TRUE, !.focus = focus]
    PROVE  PageInvariant'
<1>1. searchPage = [x \in PageParts |-> searchPage[x]] /\ searchPage.gen \in Int
  BY PageIsRecord, Zenon
<1>2. PICK g : g = searchPage.gen + 1
  BY Zenon
<1>3. searchPage' = [x \in PageParts |-> IF x = "focus" THEN focus ELSE IF x = "timer" THEN TRUE
                         ELSE IF x = "gen" THEN g ELSE IF x = "query" THEN q ELSE searchPage[x]]
  BY <1>1, <1>2, Zenon
<1>4. searchPage' = [x \in PageParts |-> searchPage'[x]]
  BY <1>3, Zenon
<1>5. searchPage'.gen = g /\ searchPage'.timer = TRUE
  <2>1. "gen" \in PageParts /\ "timer" \in PageParts
    BY Zenon DEF PageParts
  <2>2. searchPage'.gen = g
    BY <1>3, <2>1, Zenon
  <2>3. searchPage'.timer = TRUE
    BY <1>3, <2>1, Zenon
  <2> QED
    BY <2>2, <2>3, Zenon
<1>6. g \in Int
  BY <1>1, <1>2, SMTT(30)
<1>7. PageFits(searchPage')
  BY <1>4, <1>5, <1>6, Zenon DEF PageFits
<1> QED
  BY <1>2, <1>5, <1>7, PageMoves, Zenon

\* The selection and the focus move, the rows stay.
LEMMA SelectionKeeps ==
    ASSUME PageInvariant, NEW at, NEW focus, pageCalls' = pageCalls,
           searchPage' = [searchPage EXCEPT !.at = at, !.focus = focus]
    PROVE  PageInvariant'
<1>1. searchPage = [x \in PageParts |-> searchPage[x]] /\ searchPage.gen \in Int
  BY PageIsRecord, Zenon
<1>2. searchPage' = [x \in PageParts |-> IF x = "focus" THEN focus ELSE IF x = "at" THEN at
                                         ELSE searchPage[x]]
  BY <1>1, Zenon
<1>3. searchPage' = [x \in PageParts |-> searchPage'[x]]
  BY <1>2, Zenon
<1>4. /\ searchPage'.gen = searchPage.gen /\ searchPage'.query = searchPage.query
      /\ searchPage'.timer = searchPage.timer /\ searchPage'.loading = searchPage.loading
      /\ searchPage'.rows = searchPage.rows
  BY <1>2, Zenon DEF PageParts
<1>5. PageFits(searchPage')
  BY <1>1, <1>3, <1>4, Zenon DEF PageFits, PageInvariant, RowsFit
<1> QED
  BY <1>4, <1>5, PageMoves, Zenon

\* No rows fit any query.
LEMMA NoRowsMatch ==
    ASSUME NEW q
    PROVE  Matching(<<>>, q) /\ DOMAIN <<>> = {}
<1>1. PICK none : none = <<>>
  BY Zenon
<1>2. DOMAIN none = {}
  BY <1>1, SMT
<1> QED
  BY <1>1, <1>2, Zenon DEF Matching

\* Rows that answer the query shown are put on the page.
LEMMA RowsKeep ==
    ASSUME PageInvariant, NEW list, pageCalls' \subseteq pageCalls,
           Matching(list, searchPage.query), searchPage.query = <<>> => DOMAIN list = {},
           searchPage' = [x \in PageParts |-> searchPage'[x]],
           searchPage'.gen = searchPage.gen, searchPage'.query = searchPage.query,
           searchPage'.rows = list
    PROVE  PageInvariant'
<1>1. PageFits(searchPage')
  BY PageIsRecord, Zenon DEF PageFits, RowsFit
<1> QED
  BY <1>1, PageMoves, Zenon

\* The fields that the proofs look at.
LEMMA PageFields == "gen" \in PageParts /\ "query" \in PageParts /\ "rows" \in PageParts
BY Zenon DEF PageParts

\* A query that is typed, taken from a chip, extended by a filter or cleared.
LEMMA QueryKeeps ==
    ASSUME PageInvariant, NEW q, PageQuery(q)
    PROVE  PageInvariant'
<1>1. pageCalls' = pageCalls
  BY Zenon DEF PageQuery
<1>2. CASE searchPage' = searchPage
  BY <1>1, <1>2, Zenon DEF PageInvariant
<1>3. CASE searchPage' = [searchPage EXCEPT !.query = q, !.gen = @ + 1, !.timer = TRUE]
  <2>1. searchPage = [x \in PageParts |-> searchPage[x]]
    BY PageIsRecord, Zenon
  <2>2. searchPage' = [searchPage EXCEPT !.query = q, !.gen = searchPage.gen + 1,
                                         !.timer = TRUE, !.focus = searchPage.focus]
    BY <1>3, <2>1, Zenon
  <2> QED
    BY <1>1, <2>2, NewQueryKeeps, Zenon
<1> QED
  BY <1>2, <1>3, Zenon DEF PageQuery

\* performSearch: nothing to ask for an empty query, a call otherwise.
LEMMA PerformKeeps ==
    ASSUME PageInvariant, PerformSearch
    PROVE  PageInvariant'
<1>1. searchPage = [x \in PageParts |-> searchPage[x]] /\ searchPage.gen \in Int
  BY PageIsRecord, Zenon
<1>2. CASE searchPage.query = <<>>
  <2>1. PICK p : p = [searchPage EXCEPT !.timer = FALSE, !.error = FALSE, !.loading = FALSE]
    BY Zenon
  <2>2. searchPage' = WithRows(p, <<>>) /\ pageCalls' = pageCalls
    BY <1>2, <2>1, Zenon DEF PerformSearch
  <2>3. PICK at : searchPage' = [p EXCEPT !.rows = <<>>, !.at = at]
    BY <2>2, Zenon DEF WithRows
  <2>4. p = [x \in PageParts |-> IF x = "loading" THEN FALSE ELSE IF x = "error" THEN FALSE
                 ELSE IF x = "timer" THEN FALSE ELSE searchPage[x]]
    BY <1>1, <2>1, Zenon
  <2>5. searchPage' = [x \in PageParts |-> IF x = "at" THEN at ELSE IF x = "rows" THEN <<>> ELSE p[x]]
    BY <2>3, <2>4, Zenon
  <2>7. searchPage' = [x \in PageParts |-> searchPage'[x]]
    BY <2>5, Zenon
  <2>8. p.gen = searchPage.gen /\ p.query = searchPage.query
    BY <2>4, PageFields, Zenon
  <2>9. searchPage'.gen = p.gen /\ searchPage'.query = p.query /\ searchPage'.rows = <<>>
    BY <2>5, PageFields, Zenon
  <2>6. Matching(<<>>, searchPage.query) /\ DOMAIN <<>> = {}
    BY NoRowsMatch, Zenon
  <2> QED
    BY <2>2, <2>6, <2>7, <2>8, <2>9, RowsKeep, Zenon
<1>3. CASE searchPage.query # <<>>
  <2>1. PICK c : c = [gen |-> searchPage.gen, query |-> searchPage.query, state |-> "sent",
                      rows |-> <<>>]
    BY Zenon
  <2>2. /\ searchPage' = [searchPage EXCEPT !.timer = FALSE, !.loading = TRUE, !.error = FALSE]
        /\ pageCalls' = pageCalls \cup {c}
    BY <1>3, <2>1, Zenon DEF PerformSearch
  <2>3. searchPage' = [x \in PageParts |-> IF x = "error" THEN FALSE ELSE IF x = "loading" THEN TRUE
                           ELSE IF x = "timer" THEN FALSE ELSE searchPage[x]]
    BY <1>1, <2>2, Zenon
  <2>4. searchPage' = [x \in PageParts |-> searchPage'[x]]
    BY <2>3, Zenon
  <2>5. "gen" \in PageParts /\ "query" \in PageParts /\ "loading" \in PageParts
    BY Zenon DEF PageParts
  <2>6. searchPage'.gen = searchPage.gen /\ searchPage'.query = searchPage.query
    BY <2>3, <2>5, Zenon
  <2>7. searchPage'.loading = TRUE
    BY <2>3, <2>5, Zenon
  <2>8. PageFits(searchPage')
    BY <1>1, <2>4, <2>6, <2>7, Zenon DEF PageFits
  <2>9. /\ c = [x \in QueryParts |-> c[x]] /\ c.gen = searchPage.gen
        /\ c.query = searchPage.query /\ c.state = "sent"
    BY <2>1, Zenon DEF QueryParts
  <2>10. c.gen <= searchPage'.gen
    BY <1>1, <2>6, <2>9, SMTT(30)
  <2>11. QueryFits(c, searchPage')
    BY <1>1, <1>3, <2>6, <2>9, <2>10, Zenon DEF QueryFits
  <2>12. PICK page : page = searchPage'
    BY Zenon
  <2>13. \A d \in pageCalls : QueryFits(d, page)
    BY <2>6, <2>12, CallsStillFit, Zenon
  <2> QED
    BY <2>2, <2>8, <2>11, <2>12, <2>13, ZenonT(30) DEF PageInvariant
<1> QED
  BY <1>2, <1>3, Zenon

\* The backend answers a call, or fails.
LEMMA ServedKeeps ==
    ASSUME PageInvariant, NEW c \in pageCalls, QueryServed(c)
    PROVE  PageInvariant'
<1>1. QueryFits(c, searchPage) /\ searchPage' = searchPage
  BY Zenon DEF PageInvariant, QueryServed
<1>2. c = [x \in QueryParts |-> c[x]]
  BY <1>1, Zenon DEF QueryFits
<1>3. PICK d : /\ pageCalls' = (pageCalls \ {c}) \cup {d}
               /\ \/ d = [c EXCEPT !.state = "done", !.rows = QueryRows(vault, c.query)]
                  \/ d = [c EXCEPT !.state = "failed"]
  BY Zenon DEF QueryServed
<1>4. "gen" \in QueryParts /\ "query" \in QueryParts /\ "state" \in QueryParts /\ "rows" \in QueryParts
  BY Zenon DEF QueryParts
<1>5. CASE d = [c EXCEPT !.state = "done", !.rows = QueryRows(vault, c.query)]
  <2>1. d = [x \in QueryParts |-> IF x = "rows" THEN QueryRows(vault, c.query)
                                  ELSE IF x = "state" THEN "done" ELSE c[x]]
    BY <1>2, <1>5, Zenon
  <2>2. d = [x \in QueryParts |-> d[x]]
    BY <2>1, Zenon
  <2>3. d.gen = c.gen /\ d.query = c.query /\ d.rows = QueryRows(vault, c.query)
    BY <1>4, <2>1, Zenon
  <2>4. Matching(d.rows, d.query)
    BY <2>3, RowsFound, Zenon
  <2> QED
    BY <1>1, <1>3, <2>2, <2>3, <2>4, Zenon DEF PageInvariant, QueryFits
<1>6. CASE d = [c EXCEPT !.state = "failed"]
  <2>1. d = [x \in QueryParts |-> IF x = "state" THEN "failed" ELSE c[x]]
    BY <1>2, <1>6, Zenon
  <2>2. d = [x \in QueryParts |-> d[x]]
    BY <2>1, Zenon
  <2>3. d.gen = c.gen /\ d.query = c.query /\ d.state = "failed"
    BY <1>4, <2>1, Zenon
  <2>4. d.state # "done"
    BY <2>3, Zenon
  <2> QED
    BY <1>1, <1>3, <2>2, <2>3, <2>4, Zenon DEF PageInvariant, QueryFits
<1> QED
  BY <1>3, <1>5, <1>6, Zenon

\* An answer comes: it is shown when it is of the present generation.
LEMMA AnswerKeeps ==
    ASSUME PageInvariant, NEW c \in pageCalls, QueryAnswers(c)
    PROVE  PageInvariant'
<1>1. searchPage = [x \in PageParts |-> searchPage[x]] /\ QueryFits(c, searchPage)
  BY PageIsRecord, Zenon DEF PageInvariant
<1>2. pageCalls' \subseteq pageCalls
  BY Zenon DEF QueryAnswers
<1>3. CASE c.gen # searchPage.gen
  <2>1. searchPage' = searchPage
    BY <1>3, Zenon DEF QueryAnswers, OfThisGeneration
  <2> QED
    BY <1>2, <2>1, Zenon DEF PageInvariant
<1>4. CASE c.gen = searchPage.gen /\ c.state = "done"
  <2>1. searchPage' = [WithRows(searchPage, c.rows) EXCEPT !.at = 0, !.loading = FALSE]
    BY <1>4, Zenon DEF QueryAnswers, OfThisGeneration
  <2>2. PICK p, at : p = WithRows(searchPage, c.rows)
                     /\ p = [searchPage EXCEPT !.rows = c.rows, !.at = at]
    BY Zenon DEF WithRows
  <2>3. p = [x \in PageParts |-> IF x = "at" THEN at ELSE IF x = "rows" THEN c.rows ELSE searchPage[x]]
    BY <1>1, <2>2, Zenon
  <2>4. searchPage' = [x \in PageParts |-> IF x = "loading" THEN FALSE
                                           ELSE IF x = "at" THEN 0 ELSE p[x]]
    BY <2>1, <2>2, <2>3, Zenon
  <2>6. searchPage' = [x \in PageParts |-> searchPage'[x]]
    BY <2>4, Zenon
  <2>7. p.gen = searchPage.gen /\ p.query = searchPage.query /\ p.rows = c.rows
    BY <2>3, PageFields, Zenon
  <2>8. searchPage'.gen = p.gen /\ searchPage'.query = p.query /\ searchPage'.rows = p.rows
    BY <2>4, PageFields, Zenon
  <2>5. c.query = searchPage.query /\ c.query # <<>> /\ Matching(c.rows, searchPage.query)
    BY <1>1, <1>4, Zenon DEF QueryFits
  <2> QED
    BY <1>2, <2>5, <2>6, <2>7, <2>8, RowsKeep, ZenonT(30)
<1>5. CASE c.gen = searchPage.gen /\ c.state # "done"
  <2>1. searchPage' = [WithRows(searchPage, <<>>) EXCEPT !.error = TRUE, !.loading = FALSE]
    BY <1>5, Zenon DEF QueryAnswers, OfThisGeneration
  <2>2. PICK p, at : p = WithRows(searchPage, <<>>)
                     /\ p = [searchPage EXCEPT !.rows = <<>>, !.at = at]
    BY Zenon DEF WithRows
  <2>3. p = [x \in PageParts |-> IF x = "at" THEN at ELSE IF x = "rows" THEN <<>> ELSE searchPage[x]]
    BY <1>1, <2>2, Zenon
  <2>4. searchPage' = [x \in PageParts |-> IF x = "loading" THEN FALSE
                                           ELSE IF x = "error" THEN TRUE ELSE p[x]]
    BY <2>1, <2>2, <2>3, Zenon
  <2>6. searchPage' = [x \in PageParts |-> searchPage'[x]]
    BY <2>4, Zenon
  <2>7. p.gen = searchPage.gen /\ p.query = searchPage.query /\ p.rows = <<>>
    BY <2>3, PageFields, Zenon
  <2>8. searchPage'.gen = p.gen /\ searchPage'.query = p.query /\ searchPage'.rows = p.rows
    BY <2>4, PageFields, Zenon
  <2>5. Matching(<<>>, searchPage.query) /\ DOMAIN <<>> = {}
    BY NoRowsMatch, Zenon
  <2> QED
    BY <1>2, <2>5, <2>6, <2>7, <2>8, RowsKeep, ZenonT(30)
<1> QED
  BY <1>3, <1>4, <1>5, Zenon

\* The keys that move the focus and the selection, and opening a row.
LEMMA MovesKeep ==
    ASSUME PageInvariant,
           \/ LeaveInput \/ FocusInput
           \/ \E delta \in {-1, 1} : StepRow(delta)
           \/ \E i \in 0..(Len(DocOrder) - 1) : OpenResult(i)
    PROVE  PageInvariant'
<1>1. searchPage = [x \in PageParts |-> searchPage[x]]
  BY PageIsRecord, Zenon
<1>2. pageCalls' = pageCalls
  BY Zenon DEF LeaveInput, FocusInput, StepRow, OpenResult
<1>3. \/ \E focus : searchPage' = [searchPage EXCEPT !.focus = focus]
      \/ \E at, focus : searchPage' = [searchPage EXCEPT !.at = at, !.focus = focus]
  <2>1. CASE LeaveInput
    <3>1. \/ searchPage' = [searchPage EXCEPT !.focus = "rows", !.at = 0]
          \/ searchPage' = [searchPage EXCEPT !.focus = "none"]
      BY <2>1, Zenon DEF LeaveInput
    <3>2. [searchPage EXCEPT !.focus = "rows", !.at = 0]
              = [searchPage EXCEPT !.at = 0, !.focus = "rows"]
      BY <1>1, Zenon
    <3> QED
      BY <3>1, <3>2, Zenon
  <2>2. CASE FocusInput
    BY <2>2, Zenon DEF FocusInput
  <2>3. CASE \E delta \in {-1, 1} : StepRow(delta)
    <3>1. PICK delta \in {-1, 1} : StepRow(delta)
      BY <2>3, Zenon
    <3>2. PICK n, at : searchPage' = [searchPage EXCEPT !.at = at,
                           !.focus = IF n > 0 /\ ~searchPage.error THEN "rows" ELSE @]
      BY <3>1, Zenon DEF StepRow
    <3>3. PICK focus : focus = IF n > 0 /\ ~searchPage.error THEN "rows" ELSE searchPage.focus
      BY Zenon
    <3>4. searchPage' = [searchPage EXCEPT !.at = at, !.focus = focus]
      BY <1>1, <3>2, <3>3, Zenon
    <3> QED
      BY <3>4, Zenon
  <2>4. CASE \E i \in 0..(Len(DocOrder) - 1) : OpenResult(i)
    BY <2>4, Zenon DEF OpenResult
  <2> QED
    BY <2>1, <2>2, <2>3, <2>4, Zenon
<1>4. PICK at, focus : searchPage' = [searchPage EXCEPT !.at = at, !.focus = focus]
  <2>1. ASSUME NEW focus, searchPage' = [searchPage EXCEPT !.focus = focus]
        PROVE  searchPage' = [searchPage EXCEPT !.at = searchPage.at, !.focus = focus]
    BY <1>1, <2>1, Zenon
  <2> QED
    BY <1>3, <2>1, Zenon
<1> QED
  BY <1>2, <1>4, SelectionKeeps, Zenon

\* A step of the search page.
LEMMA PageStep ==
    ASSUME PageInvariant, PageNext
    PROVE  PageInvariant'
<1>1. CASE \E q : PageQuery(q)
  BY <1>1, QueryKeeps, Zenon
<1>2. CASE ClickChip
  <2>1. pageCalls' = pageCalls /\ searchPage' =
            [searchPage EXCEPT !.query = <<ChipToken>>, !.gen = @ + 1, !.timer = TRUE,
                               !.focus = "input"]
    BY <1>2, Zenon DEF ClickChip
  <2>2. searchPage = [x \in PageParts |-> searchPage[x]]
    BY PageIsRecord, Zenon
  <2>3. searchPage' = [searchPage EXCEPT !.query = <<ChipToken>>, !.gen = searchPage.gen + 1,
                                         !.timer = TRUE, !.focus = "input"]
    BY <2>1, <2>2, Zenon
  <2> QED
    BY <2>1, <2>3, NewQueryKeeps, Zenon
<1>3. CASE PerformSearch
  BY <1>3, PerformKeeps, Zenon
<1>4. CASE \E c \in pageCalls : QueryServed(c)
  BY <1>4, ServedKeeps, Zenon
<1>5. CASE \E c \in pageCalls : QueryAnswers(c)
  BY <1>5, AnswerKeeps, Zenon
<1>6. CASE \/ LeaveInput \/ FocusInput
           \/ \E delta \in {-1, 1} : StepRow(delta)
           \/ \E i \in 0..(Len(DocOrder) - 1) : OpenResult(i)
  BY <1>6, MovesKeep, Zenon
<1>7. CASE ClearSearch
  BY <1>1, <1>7, Zenon DEF ClearSearch
<1>8. CASE \E q \in SearchQueries : TypeQuery(q)
  BY <1>1, <1>8, Zenon DEF TypeQuery
<1>9. CASE \E tok \in FilterTokens : AddFilterToQuery(tok)
  BY <1>1, <1>9, Zenon DEF AddFilterToQuery
<1> QED
  BY <1>2, <1>3, <1>4, <1>5, <1>6, <1>7, <1>8, <1>9, ZenonT(30) DEF PageNext

\* The finder and the index leave the search page alone.
LEMMA PageRests ==
    ASSUME FinderNext \/ ScheduleRebuild \/ RebuildTimer \/ ExportIndex \/ BuildEnds
           \/ \E d \in SearchDocs : VaultChanges(d)
    PROVE  searchPage' = searchPage /\ pageCalls' = pageCalls
<1>1. UNCHANGED searchPageVars
  BY ZenonT(30) DEF FinderNext, OpenFinder, CloseFinder, ClosedFinder, RecentsAnswer, RecentsFail,
     RetryRecent, RebuildIndex, SetQuery, MoveSelection, HoverRow, OpenItem, PreviewTimer,
     PreviewAnswers, PreviewFails, PreviewChanges, FinderBecomes, ScheduleRebuild, RebuildTimer,
     ExportIndex, BuildEnds, VaultChanges
<1> QED
  BY <1>1, Zenon DEF searchPageVars

\* With no debounce and no search running the rows of the search page match the
\* query in its field, however the answers of earlier queries are delayed.
THEOREM PageRowsAnswer == SearchSpec => []PageAnswersQuery
<1>1. SearchInit => PageInvariant
  <2> SUFFICES ASSUME SearchInit PROVE PageInvariant
    BY Zenon
  <2>1. searchPage = [query |-> <<>>, gen |-> 1, timer |-> TRUE, loading |-> FALSE,
                      rows |-> <<>>, error |-> FALSE, at |-> 0, focus |-> "input"]
        /\ pageCalls = {}
    BY Zenon DEF SearchInit
  <2>2. searchPage = [x \in PageParts |-> searchPage[x]]
    BY <2>1, Zenon DEF PageParts
  <2>3. searchPage.gen = 1 /\ searchPage.timer = TRUE
    BY <2>1, Zenon
  <2>4. searchPage.gen \in Int
    BY <2>3, SMTT(30)
  <2> QED
    BY <2>1, <2>2, <2>3, <2>4, ZenonT(30) DEF PageInvariant, PageFits
<1>2. PageInvariant /\ [SearchNext]_searchVars => PageInvariant'
  <2> SUFFICES ASSUME PageInvariant, [SearchNext]_searchVars PROVE PageInvariant'
    BY Zenon
  <2>1. CASE PageNext
    BY <2>1, PageStep, Zenon
  <2>2. CASE searchPage' = searchPage /\ pageCalls' = pageCalls
    BY <2>2, Zenon DEF PageInvariant
  <2>3. CASE UNCHANGED searchVars
    BY <2>2, <2>3, Zenon DEF searchVars
  <2> QED
    BY <2>1, <2>2, <2>3, PageRests, ZenonT(30) DEF SearchNext
<1>3. PageInvariant => PageAnswersQuery
  BY Zenon DEF PageInvariant, PageFits, RowsFit, Matching, PageAnswersQuery
<1> QED
  BY <1>1, <1>2, <1>3, PTL DEF SearchSpec

----------------------------------------------------------------------------
(* The command palette.                                                    *)

CtxParts == {"page", "project", "previous", "projects", "doc", "archived"}
IsContext(c) == c = [x \in CtxParts |-> c[x]]
IsList(s) == s \in Seq(Range(s))

\* Scores are numbers.
UsageCounts(uses) == \A id \in DOMAIN uses : uses[id].count \in Int /\ uses[id].last \in Int

PaletteInvariant ==
    /\ IsContext(ctx) /\ DOMAIN sources = Sources
    /\ \A s \in Sources : IsList(sources[s])
    /\ hour \in Int /\ UsageCounts(usage)
    /\ sources["projects"] = ProjectCommands(ctx)
    /\ Range(sources["projects"]) \subseteq Range(options)

\* A list is one of what it holds, and its positions start at 1.
LEMMA ListOf ==
    ASSUME NEW S, NEW s \in Seq(S)
    PROVE  IsList(s) /\ DOMAIN s = 1..Len(s) /\ Len(s) \in Nat
<1>1. DOMAIN s = 1..Len(s) /\ Len(s) \in Nat /\ s = [i \in 1..Len(s) |-> s[i]]
  BY SMT
<1>2. \A i \in 1..Len(s) : s[i] \in Range(s)
  BY <1>1, Zenon DEF Range
<1>3. s \in [1..Len(s) -> Range(s)]
  BY <1>1, <1>2, Zenon
<1>4. s \in Seq(Range(s))
  BY <1>1, <1>3, SMTT(30)
<1> QED
  BY <1>1, <1>4, Zenon DEF IsList

\* Two lists put together are one, that has what either has.
LEMMA ListsJoined ==
    ASSUME NEW a, IsList(a), NEW b, IsList(b)
    PROVE  IsList(a \o b) /\ Range(a) \subseteq Range(a \o b) /\ Range(b) \subseteq Range(a \o b)
<1>1. PICK S : S = Range(a) \cup Range(b)
  BY Zenon
<1>2. a \in Seq(S) /\ b \in Seq(S)
  <2>1. \A U, V : U \subseteq V => \A s \in Seq(U) : s \in Seq(V)
    BY SMT
  <2>2. Range(a) \subseteq S /\ Range(b) \subseteq S
    BY <1>1, Zenon
  <2> QED
    BY <2>1, <2>2, Zenon DEF IsList
<1>3. a \o b \in Seq(S)
  BY <1>2, SMT
<1>4. IsList(a \o b)
  BY <1>3, ListOf, Zenon
<1>5. ASSUME NEW i \in DOMAIN a
      PROVE  \E j \in DOMAIN (a \o b) : (a \o b)[j] = a[i]
  <2>1. i \in DOMAIN (a \o b) /\ (a \o b)[i] = a[i]
    BY <1>2, SMT
  <2> QED
    BY <2>1, Zenon
<1>6. ASSUME NEW i \in DOMAIN b
      PROVE  \E j \in DOMAIN (a \o b) : (a \o b)[j] = b[i]
  <2>1. Len(a) + i \in DOMAIN (a \o b) /\ (a \o b)[Len(a) + i] = b[i]
    BY <1>2, SMTT(30)
  <2> QED
    BY <2>1, Zenon
<1> QED
  BY <1>4, <1>5, <1>6, Zenon DEF Range

\* Lists of up to two elements.
LEMMA ShortLists ==
    /\ IsList(<<>>)
    /\ \A x : IsList(<<x>>)
    /\ \A x, y : IsList(<<x, y>>)
<1>1. \A S : <<>> \in Seq(S) /\ \A x, y \in S : <<x>> \in Seq(S) /\ <<x, y>> \in Seq(S)
  BY SMT
<1>2. IsList(<<>>)
  <2>1. <<>> \in Seq({})
    BY <1>1, Zenon
  <2> QED
    BY <2>1, ListOf, Zenon
<1>3. ASSUME NEW x, NEW y PROVE IsList(<<x>>) /\ IsList(<<x, y>>)
  <2>1. <<x>> \in Seq({x, y}) /\ <<x, y>> \in Seq({x, y})
    BY <1>1, Zenon
  <2> QED
    BY <2>1, ListOf, Zenon
<1> QED
  BY <1>2, <1>3, Zenon

\* A function on the positions of a list is a list.
LEMMA MappedList ==
    ASSUME NEW s, IsList(s), NEW t, DOMAIN t = DOMAIN s, t = [i \in DOMAIN s |-> t[i]]
    PROVE  IsList(t)
<1>1. DOMAIN s = 1..Len(s) /\ Len(s) \in Nat
  BY ListOf, Zenon DEF IsList
<1>2. \A i \in 1..Len(s) : t[i] \in Range(t)
  BY <1>1, Zenon DEF Range
<1>3. t \in [1..Len(s) -> Range(t)]
  BY <1>1, <1>2, Zenon
<1> QED
  BY <1>1, <1>3, SMTT(30) DEF IsList

\* What a list is sorted by is a number.
LEMMA ScoreNumber ==
    ASSUME NEW id, NEW uses, UsageCounts(uses), NEW now \in Int
    PROVE  UsageScore(id, uses, now) \in Int
<1>1. CASE id \notin DOMAIN uses
  BY <1>1, SMTT(30) DEF UsageScore
<1>2. CASE id \in DOMAIN uses
  <2>1. PICK n \in Int, l \in Int : n = uses[id].count /\ l = uses[id].last
    BY <1>2, Zenon DEF UsageCounts
  <2>2. PICK r : r = RecencyScore(now - l)
    BY Zenon
  <2>3. r \in Int
    BY <2>2, SMTT(30) DEF RecencyScore
  <2>4. UsageScore(id, uses, now) = r + (IF 2 * n > 20 THEN 20 ELSE 2 * n)
    BY <1>2, <2>1, <2>2, ZenonT(30) DEF UsageScore
  <2> QED
    BY <2>3, <2>4, SMTT(30)
<1> QED
  BY <1>1, <1>2, Zenon

\* sortByUsage loses no command: the place of each is its own.
LEMMA SortKeepsAll ==
    ASSUME NEW cmds, IsList(cmds), NEW uses, UsageCounts(uses), NEW now \in Int
    PROVE  IsList(SortByUsage(cmds, uses, now)) /\ Range(cmds) \subseteq Range(SortByUsage(cmds, uses, now))
<1> DEFINE score == [i \in DOMAIN cmds |-> UsageScore(cmds[i].id, uses, now)]
<1> DEFINE before(i, j) == score[i] > score[j] \/ (score[i] = score[j] /\ i < j)
<1> DEFINE ahead(j) == {i \in DOMAIN cmds : before(i, j)}
<1> DEFINE place == [j \in DOMAIN cmds |-> Cardinality(ahead(j)) + 1]
<1>3. PICK sorted : sorted = SortByUsage(cmds, uses, now)
  BY Zenon
<1>4. sorted = [k \in DOMAIN cmds |-> cmds[CHOOSE j \in DOMAIN cmds : place[j] = k]]
  BY <1>3, Zenon DEF SortByUsage
<1>2. \A j \in DOMAIN cmds : place[j] = Cardinality(ahead(j)) + 1
  BY Zenon
<1>5. DOMAIN cmds = 1..Len(cmds) /\ Len(cmds) \in Nat
  BY ListOf, Zenon DEF IsList
<1>6. \A i \in DOMAIN cmds : score[i] \in Int
  BY ScoreNumber, Zenon
<1> HIDE DEF score, place
<1>7. IsFiniteSet(DOMAIN cmds) /\ Cardinality(DOMAIN cmds) = Len(cmds)
  <2>1. PICK n \in Nat : n = Len(cmds)
    BY <1>5, Zenon
  <2>2. IsFiniteSet(1..n) /\ Cardinality(1..n) = IF 1 > n THEN 0 ELSE n - 1 + 1
    BY FS_Interval
  <2>3. DOMAIN cmds = 1..n
    BY <1>5, <2>1, Zenon
  <2> QED
    BY <2>1, <2>2, <2>3, SMTT(30)
<1>8. ASSUME NEW j \in DOMAIN cmds
      PROVE  /\ IsFiniteSet(ahead(j)) /\ Cardinality(ahead(j)) \in Int
             /\ Cardinality(ahead(j)) \in 0..(Len(cmds) - 1)
  <2>1. ~before(j, j)
    BY <1>5, <1>6, <1>8, SMTT(30)
  <2>2. ahead(j) \in SUBSET DOMAIN cmds /\ j \notin ahead(j)
    BY <2>1, Zenon
  <2>3. IsFiniteSet(ahead(j)) /\ Cardinality(ahead(j)) <= Len(cmds) /\ Cardinality(ahead(j)) # Len(cmds)
    BY <1>7, <1>8, <2>2, FS_Subset, Zenon
  <2>4. Cardinality(ahead(j)) \in Nat
    BY <2>3, FS_CardinalityType, ZenonT(30)
  <2> HIDE DEF ahead
  <2> QED
    BY <1>5, <2>3, <2>4, SMTT(30)
<1>9. ASSUME NEW i \in DOMAIN cmds, NEW j \in DOMAIN cmds, before(i, j)
      PROVE  place[i] # place[j]
  <2>1. ASSUME NEW k \in DOMAIN cmds, before(k, i)
        PROVE  before(k, j)
    <3>1. score[i] \in Int /\ score[j] \in Int /\ score[k] \in Int
      BY <1>6, Zenon
    <3>2. i \in Int /\ j \in Int /\ k \in Int
      BY <1>5, SMTT(30)
    <3> QED
      BY <1>9, <2>1, <3>1, <3>2, SMTT(30)
  <2>2. ~before(i, i)
    BY <1>5, <1>6, <1>9, SMTT(30)
  <2>3. ahead(i) \in SUBSET ahead(j) /\ i \in ahead(j) /\ i \notin ahead(i)
    BY <1>9, <2>1, <2>2, Zenon
  <2>4. Cardinality(ahead(i)) # Cardinality(ahead(j))
    BY <1>8, <2>3, FS_Subset, Zenon
  <2>5. Cardinality(ahead(i)) \in Int /\ Cardinality(ahead(j)) \in Int
    BY <1>8, Zenon
  <2>6. place[i] = Cardinality(ahead(i)) + 1 /\ place[j] = Cardinality(ahead(j)) + 1
    BY <1>2, Zenon
  <2> HIDE DEF ahead
  <2> QED
    BY <2>4, <2>5, <2>6, SMTT(30)
<1>10. \A i, j \in DOMAIN cmds : place[i] = place[j] => i = j
  <2> SUFFICES ASSUME NEW i \in DOMAIN cmds, NEW j \in DOMAIN cmds, i # j
               PROVE  place[i] # place[j]
    BY Zenon
  <2>1. before(i, j) \/ before(j, i)
    BY <1>5, <1>6, SMTT(30)
  <2> QED
    BY <1>9, <2>1, Zenon
<1>11. ASSUME NEW j \in DOMAIN cmds
       PROVE  place[j] \in DOMAIN cmds
  <2>1. place[j] = Cardinality(ahead(j)) + 1 /\ Cardinality(ahead(j)) \in 0..(Len(cmds) - 1)
    BY <1>2, <1>8, Zenon
  <2> HIDE DEF ahead
  <2> QED
    BY <1>5, <2>1, SMTT(30)
<1>12. ASSUME NEW j \in DOMAIN cmds
       PROVE  place[j] \in DOMAIN sorted /\ sorted[place[j]] = cmds[j]
  <2>1. (CHOOSE i \in DOMAIN cmds : place[i] = place[j]) = j
    BY <1>10, Zenon
  <2> QED
    BY <1>4, <1>11, <2>1, Zenon
<1>13. Range(cmds) \subseteq Range(sorted)
  BY <1>12, Zenon DEF Range
<1>14. IsList(sorted)
  <2>1. DOMAIN sorted = DOMAIN cmds /\ sorted = [k \in DOMAIN cmds |-> sorted[k]]
    BY <1>4
  <2> QED
    BY <2>1, MappedList, Zenon
<1> QED
  BY <1>3, <1>13, <1>14, Zenon

\* What the action of a project command is, given what it shows.
ActionOf(id, label, project) ==
    CASE id[1] = "new-project" -> <<"go", "projects">>
      [] id[1] = "rename-project" -> <<"rename", label[1]>>
      [] id[1] = "export-project" -> <<"exportProject", project>>
      [] id[1] = "switch-last" -> <<"last">>
      [] id[1] = "toggle-archived" -> <<"archived">>
      [] id[1] = "project" -> <<"switch", id[2]>>
      [] OTHER -> <<>>

ShowsAction(cmd, project) ==
    /\ cmd = Command(cmd.id, cmd.label, ActionOf(cmd.id, cmd.label, project))
    /\ cmd.id[1] = "export-project" => project # NoOne

AllShow(cmds, project) == \A i \in DOMAIN cmds : ShowsAction(cmds[i], project)

\* Each of the project commands says what its action does, but for the export.
LEMMA CommandsShow ==
    ASSUME NEW project
    PROVE  /\ ShowsAction(Command(<<"new-project">>, <<>>, <<"go", "projects">>), project)
           /\ ShowsAction(Command(<<"rename-project">>, <<project>>, <<"rename", project>>), project)
           /\ project # NoOne =>
              ShowsAction(Command(<<"export-project">>, <<>>, <<"exportProject", project>>), project)
           /\ \A l : ShowsAction(Command(<<"switch-last">>, l, <<"last">>), project)
           /\ \A l : ShowsAction(Command(<<"toggle-archived">>, l, <<"archived">>), project)
           /\ \A q : ShowsAction(Command(<<"project", q>>, <<q>>, <<"switch", q>>), project)
<1>1. ShowsAction(Command(<<"new-project">>, <<>>, <<"go", "projects">>), project)
  BY Zenon DEF ShowsAction, Command, ActionOf
<1>2. ShowsAction(Command(<<"rename-project">>, <<project>>, <<"rename", project>>), project)
  BY Zenon DEF ShowsAction, Command, ActionOf
<1>3. project # NoOne =>
          ShowsAction(Command(<<"export-project">>, <<>>, <<"exportProject", project>>), project)
  BY Zenon DEF ShowsAction, Command, ActionOf
<1>4. \A l : ShowsAction(Command(<<"switch-last">>, l, <<"last">>), project)
  BY Zenon DEF ShowsAction, Command, ActionOf
<1>5. \A l : ShowsAction(Command(<<"toggle-archived">>, l, <<"archived">>), project)
  BY Zenon DEF ShowsAction, Command, ActionOf
<1>6. \A q : ShowsAction(Command(<<"project", q>>, <<q>>, <<"switch", q>>), project)
  BY Zenon DEF ShowsAction, Command, ActionOf
<1> QED
  BY <1>1, <1>2, <1>3, <1>4, <1>5, <1>6, ZenonT(30)

\* Two lists of which this holds make one of which it holds.
LEMMA JoinedShow ==
    ASSUME NEW project, NEW a, IsList(a), AllShow(a, project), NEW b, IsList(b), AllShow(b, project)
    PROVE  IsList(a \o b) /\ AllShow(a \o b, project)
<1>1. IsList(a \o b)
  BY ListsJoined, Zenon
<1>2. PICK S : S = Range(a) \cup Range(b)
  BY Zenon
<1>3. a \in Seq(S) /\ b \in Seq(S)
  <2>1. \A U, V : U \subseteq V => \A s \in Seq(U) : s \in Seq(V)
    BY SMT
  <2>2. Range(a) \subseteq S /\ Range(b) \subseteq S
    BY <1>2, ZenonT(30)
  <2> QED
    BY <2>1, <2>2, Zenon DEF IsList
<1>4. \A i \in DOMAIN (a \o b) : \/ \E j \in DOMAIN a : (a \o b)[i] = a[j]
                                 \/ \E j \in DOMAIN b : (a \o b)[i] = b[j]
  BY <1>3, JoinedFacts
<1> QED
  BY <1>1, <1>4, Zenon DEF AllShow

\* A list of one or two commands.
LEMMA ShortShow ==
    ASSUME NEW project
    PROVE  /\ AllShow(<<>>, project)
           /\ \A x : ShowsAction(x, project) => AllShow(<<x>>, project)
           /\ \A x, y : ShowsAction(x, project) /\ ShowsAction(y, project)
                            => AllShow(<<x, y>>, project)
<1>1. DOMAIN <<>> = {}
  BY SMT
<1>2. \A x : \A i \in DOMAIN <<x>> : <<x>>[i] = x
  BY SMT
<1>3. \A x, y : \A i \in DOMAIN <<x, y>> : <<x, y>>[i] = x \/ <<x, y>>[i] = y
  BY SMT
<1>4. AllShow(<<>>, project)
  BY <1>1, Zenon DEF AllShow
<1>5. ASSUME NEW x, ShowsAction(x, project) PROVE AllShow(<<x>>, project)
  BY <1>2, <1>5, Zenon DEF AllShow
<1>6. ASSUME NEW x, NEW y, ShowsAction(x, project), ShowsAction(y, project)
      PROVE  AllShow(<<x, y>>, project)
  <2>1. ASSUME NEW i \in DOMAIN <<x, y>> PROVE ShowsAction(<<x, y>>[i], project)
    BY <1>3, <1>6, Zenon
  <2> QED
    BY <2>1, Zenon DEF AllShow
<1> QED
  BY <1>4, <1>5, <1>6, Zenon

\* The commands a project is switched to with.
SwitchCommands(c) ==
    LET others == KeptAt(PaletteProjects, {i \in DOMAIN PaletteProjects :
                              PaletteProjects[i] \in c.projects \ {c.project}})
    IN  [i \in DOMAIN others |->
               Command(<<"project", others[i]>>, <<others[i]>>, <<"switch", others[i]>>)]

\* They are a list, and say what they do.
LEMMA SwitchesShow ==
    ASSUME NEW c
    PROVE  IsList(SwitchCommands(c)) /\ AllShow(SwitchCommands(c), c.project)
<1>1. PICK at : at = {i \in DOMAIN PaletteProjects :
                              PaletteProjects[i] \in c.projects \ {c.project}}
  BY Zenon
<1>2. PICK others : others = KeptAt(PaletteProjects, at)
  BY Zenon
<1>3. IsList(others)
  <2>1. at \subseteq DOMAIN PaletteProjects /\ PaletteProjects \in Seq(Range(PaletteProjects))
    BY <1>1, PaletteAssumption, Zenon
  <2>2. KeptAt(PaletteProjects, at) \in Seq(Range(PaletteProjects))
    BY <2>1, KeptAtFacts, Zenon
  <2> QED
    BY <1>2, <2>2, ListOf, Zenon
<1>4. PICK sw : sw = SwitchCommands(c)
  BY Zenon
<1>5. sw = [i \in DOMAIN others |->
               Command(<<"project", others[i]>>, <<others[i]>>, <<"switch", others[i]>>)]
  BY <1>1, <1>2, <1>4, Zenon DEF SwitchCommands
<1>6. DOMAIN sw = DOMAIN others
      /\ \A i \in DOMAIN others : sw[i] =
               Command(<<"project", others[i]>>, <<others[i]>>, <<"switch", others[i]>>)
  BY <1>5, Zenon
<1>7. IsList(sw)
  <2>1. sw = [i \in DOMAIN others |-> sw[i]]
    BY <1>5, Zenon
  <2> QED
    BY <1>3, <1>6, <2>1, MappedList, Zenon
<1>8. AllShow(sw, c.project)
  BY <1>6, CommandsShow, Zenon DEF AllShow
<1> QED
  BY <1>4, <1>7, <1>8, Zenon

\* The project commands of a context: a list, each says what it does, and
\* the second names the project when there is one.
LEMMA ProjectCommandsShow ==
    ASSUME NEW c
    PROVE  /\ IsList(ProjectCommands(c)) /\ AllShow(ProjectCommands(c), c.project)
           /\ c.project # NoOne => /\ 2 \in DOMAIN ProjectCommands(c)
                                   /\ ProjectCommands(c)[2].label = <<c.project>>
<1>1. PICK new : new = << Command(<<"new-project">>, <<>>, <<"go", "projects">>) >>
  BY Zenon
<1>2. PICK own : own = Choice(c.project # NoOne,
                  << Command(<<"rename-project">>, <<c.project>>, <<"rename", c.project>>),
                     Command(<<"export-project">>, <<>>, <<"exportProject", c.project>>) >>)
  BY Zenon
<1>3. PICK last : last = Choice(c.previous # NoOne,
                  << Command(<<"switch-last">>, <<c.previous>>, <<"last">>) >>)
  BY Zenon
<1>4. PICK toggle : toggle = Choice(c.page = "dashboard" /\ c.project # NoOne,
                  << Command(<<"toggle-archived">>,
                             <<IF c.archived THEN "hide" ELSE "show", c.project>>,
                             <<"archived">>) >>)
  BY Zenon
<1>5. PICK sw : sw = SwitchCommands(c)
  BY Zenon
<1>6. ProjectCommands(c) = new \o own \o last \o toggle \o sw
  BY <1>1, <1>2, <1>3, <1>4, <1>5, ZenonT(30) DEF ProjectCommands, SwitchCommands
<1>7. IsList(new) /\ AllShow(new, c.project)
  BY <1>1, ShortLists, ShortShow, CommandsShow, ZenonT(30)
<1>8. IsList(own) /\ AllShow(own, c.project)
  <2>1. CASE c.project # NoOne
    BY <1>2, <2>1, ShortLists, ShortShow, CommandsShow, ZenonT(30) DEF Choice
  <2>2. CASE ~(c.project # NoOne)
    <3>1. own = <<>>
      BY <1>2, <2>2, Zenon DEF Choice
    <3> QED
      BY <3>1, ShortLists, ShortShow, ZenonT(30)
  <2> QED
    BY <2>1, <2>2, Zenon
<1>9. IsList(last) /\ AllShow(last, c.project)
  <2>1. last = <<>> \/ last = << Command(<<"switch-last">>, <<c.previous>>, <<"last">>) >>
    BY <1>3, Zenon DEF Choice
  <2> QED
    BY <2>1, ShortLists, ShortShow, CommandsShow, Zenon
<1>10. IsList(toggle) /\ AllShow(toggle, c.project)
  <2>1. PICK l : l = <<IF c.archived THEN "hide" ELSE "show", c.project>>
    BY Zenon
  <2>2. toggle = <<>> \/ toggle = << Command(<<"toggle-archived">>, l, <<"archived">>) >>
    BY <1>4, <2>1, Zenon DEF Choice
  <2> QED
    BY <2>2, ShortLists, ShortShow, CommandsShow, Zenon
<1>11. IsList(sw) /\ AllShow(sw, c.project)
  BY <1>5, SwitchesShow, Zenon
<1>12. PICK two : two = new \o own
  BY Zenon
<1>13. PICK three : three = two \o last
  BY Zenon
<1>14. PICK four : four = three \o toggle
  BY Zenon
<1>15. IsList(two) /\ AllShow(two, c.project)
  BY <1>7, <1>8, <1>12, JoinedShow, ZenonT(30)
<1>16. IsList(three) /\ AllShow(three, c.project)
  BY <1>9, <1>13, <1>15, JoinedShow, Zenon
<1>17. IsList(four) /\ AllShow(four, c.project)
  BY <1>10, <1>14, <1>16, JoinedShow, Zenon
<1>18. ProjectCommands(c) = four \o sw
  BY <1>6, <1>12, <1>13, <1>14, ZenonT(30)
<1>19. IsList(four \o sw) /\ AllShow(four \o sw, c.project)
  BY <1>11, <1>17, JoinedShow, Zenon
<1>20. ASSUME c.project # NoOne
       PROVE  2 \in DOMAIN ProjectCommands(c) /\ ProjectCommands(c)[2].label = <<c.project>>
  <2>1. PICK rename : rename = Command(<<"rename-project">>, <<c.project>>, <<"rename", c.project>>)
    BY Zenon
  <2>2. PICK export : export = Command(<<"export-project">>, <<>>, <<"exportProject", c.project>>)
    BY Zenon
  <2>3. own = <<rename, export>>
    BY <1>2, <1>20, <2>1, <2>2, ZenonT(30) DEF Choice
  <2>4. 2 \in DOMAIN two /\ two[2] = rename
    <3>1. \A x, y, z : 2 \in DOMAIN (<<x>> \o <<y, z>>) /\ (<<x>> \o <<y, z>>)[2] = y
      BY SMTT(30)
    <3> QED
      BY <1>1, <1>12, <2>3, <3>1, ZenonT(30)
  <2>5. ASSUME NEW a, IsList(a), NEW b, IsList(b), 2 \in DOMAIN a
        PROVE  2 \in DOMAIN (a \o b) /\ (a \o b)[2] = a[2]
    <3>1. a \in Seq(Range(a)) /\ b \in Seq(Range(b))
      BY <2>5, Zenon DEF IsList
    <3> QED
      BY <2>5, <3>1, SMTT(30)
  <2>6. 2 \in DOMAIN three /\ three[2] = rename
    BY <1>9, <1>13, <1>15, <2>4, <2>5, ZenonT(30)
  <2>7. 2 \in DOMAIN four /\ four[2] = rename
    BY <1>10, <1>14, <1>16, <2>6, <2>5, ZenonT(30)
  <2>8. 2 \in DOMAIN (four \o sw) /\ (four \o sw)[2] = four[2]
    BY <1>11, <1>17, <2>7, <2>5, SMTT(30)
  <2>9. rename.label = <<c.project>>
    BY <2>1, Zenon DEF Command
  <2> QED
    BY <1>18, <2>7, <2>8, <2>9, ZenonT(30)
<1> QED
  BY <1>18, <1>19, <1>20, Zenon

\* The registry may keep the old list: project commands it takes to be the
\* same are the same, their actions included.
LEMMA EquivalentAreEqual ==
    ASSUME NEW a, NEW b, AreCommandsEquivalent(ProjectCommands(a), ProjectCommands(b))
    PROVE  ProjectCommands(a) = ProjectCommands(b)
<1>1. PICK old : old = ProjectCommands(a)
  BY Zenon
<1>2. PICK new : new = ProjectCommands(b)
  BY Zenon
<1>3. /\ IsList(old) /\ AllShow(old, a.project)
      /\ a.project # NoOne => 2 \in DOMAIN old /\ old[2].label = <<a.project>>
  BY <1>1, ProjectCommandsShow, Zenon
<1>4. /\ IsList(new) /\ AllShow(new, b.project)
      /\ b.project # NoOne => 2 \in DOMAIN new /\ new[2].label = <<b.project>>
  BY <1>2, ProjectCommandsShow, Zenon
<1>5. Len(old) = Len(new)
      /\ \A i \in DOMAIN old : old[i].id = new[i].id /\ old[i].label = new[i].label
  BY <1>1, <1>2, ZenonT(30) DEF AreCommandsEquivalent
<1>6. DOMAIN old = 1..Len(old) /\ DOMAIN new = 1..Len(new)
  BY <1>3, <1>4, ListOf, ZenonT(30) DEF IsList
<1>7. ASSUME NEW i \in DOMAIN old
      PROVE  old[i] = new[i]
  <2>1. PICK id, label : id = old[i].id /\ label = old[i].label
    BY Zenon
  <2>2. id = new[i].id /\ label = new[i].label /\ i \in DOMAIN new
    BY <1>5, <1>6, <2>1, Zenon
  <2>3. old[i] = Command(id, label, ActionOf(id, label, a.project))
        /\ (id[1] = "export-project" => a.project # NoOne)
    BY <1>3, <2>1, Zenon DEF AllShow, ShowsAction
  <2>4. new[i] = Command(id, label, ActionOf(id, label, b.project))
        /\ (id[1] = "export-project" => b.project # NoOne)
    BY <1>4, <2>2, Zenon DEF AllShow, ShowsAction
  <2>5. CASE id[1] = "export-project"
    <3>1. <<a.project>> = <<b.project>>
      BY <1>3, <1>4, <1>5, <2>3, <2>4, <2>5, ZenonT(30)
    <3>2. a.project = b.project
      BY <3>1, Zenon
    <3> QED
      BY <2>3, <2>4, <3>2, ZenonT(30)
  <2>6. CASE id[1] # "export-project"
    <3>1. ActionOf(id, label, a.project) = ActionOf(id, label, b.project)
      BY <2>6, Zenon DEF ActionOf
    <3> QED
      BY <2>3, <2>4, <3>1, ZenonT(30)
  <2> QED
    BY <2>5, <2>6, Zenon
<1>8. old = [i \in 1..Len(old) |-> old[i]] /\ new = [i \in 1..Len(new) |-> new[i]]
  <2>1. \A S : \A s \in Seq(S) : s = [i \in 1..Len(s) |-> s[i]]
    BY SMT
  <2> QED
    BY <1>3, <1>4, <2>1, ZenonT(30) DEF IsList
<1>9. old = new
  BY <1>5, <1>6, <1>7, <1>8, ZenonT(30)
<1> QED
  BY <1>1, <1>2, <1>9, Zenon

\* Every source's commands are a list.
LEMMA CommandsAreLists ==
    ASSUME NEW c, NEW s \in Sources
    PROVE  IsList(CommandsOf(s, c))
<1>1. IsList(NavigationCommands(c))
  BY ShortLists, Zenon DEF NavigationCommands
<1>2. IsList(CreateCommands(c))
  BY ShortLists, Zenon DEF CreateCommands, Choice
<1>3. IsList(DocumentCommands(c))
  <2>1. PICK has : has = (c.page = "document" /\ c.doc # NoOne)
    BY Zenon
  <2>2. PICK x : x = Choice(has, << Command(<<"save-document">>, <<>>, <<"request", "save">>),
                       Command(<<"archive-document">>, <<>>, <<"archive">>) >>)
    BY Zenon
  <2>3. PICK y : y = Choice(has /\ c.doc.kind = "text",
                  << Command(<<"export-document">>, <<>>, <<"export">>) >>)
    BY Zenon
  <2>4. PICK z : z = Choice(has /\ c.doc.kind = "canvas",
                  << Command(<<"export-canvas-png">>, <<>>, <<"request", "image">>) >>)
    BY Zenon
  <2>5. IsList(x)
    BY <2>2, ShortLists, Zenon DEF Choice
  <2>6. IsList(y)
    BY <2>3, ShortLists, Zenon DEF Choice
  <2>7. IsList(z)
    BY <2>4, ShortLists, Zenon DEF Choice
  <2>8. DocumentCommands(c) = x \o y \o z
    BY <2>1, <2>2, <2>3, <2>4, ZenonT(30) DEF DocumentCommands
  <2>9. IsList(x \o y)
    BY <2>5, <2>6, ListsJoined, Zenon
  <2> QED
    BY <2>7, <2>8, <2>9, ListsJoined, Zenon
<1>4. IsList(ProjectCommands(c))
  BY ProjectCommandsShow, Zenon
<1>5. IsList(ApplicationCommands(c))
  BY ShortLists, Zenon DEF ApplicationCommands
<1> QED
  BY <1>1, <1>2, <1>3, <1>4, <1>5, ZenonT(30) DEF CommandsOf, Sources

\* All the commands registered, those for projects among them.
LEMMA AllRegistered ==
    ASSUME NEW regs, \A s \in Sources : IsList(regs[s])
    PROVE  /\ IsList(GetAllCommands(regs))
           /\ Range(regs["projects"]) \subseteq Range(GetAllCommands(regs))
<1>1. PICK a : a = regs["navigation"] \o regs["create"]
  BY Zenon
<1>2. PICK b : b = a \o regs["document"]
  BY Zenon
<1>3. PICK d : d = b \o regs["projects"]
  BY Zenon
<1>4. PICK all : all = d \o regs["application"]
  BY Zenon
<1>5. IsList(a)
  BY <1>1, ListsJoined, Zenon DEF Sources
<1>6. IsList(b)
  BY <1>2, <1>5, ListsJoined, ZenonT(30) DEF Sources
<1>7. IsList(d) /\ Range(regs["projects"]) \subseteq Range(d)
  BY <1>3, <1>6, ListsJoined, ZenonT(30) DEF Sources
<1>8. IsList(all) /\ Range(d) \subseteq Range(all)
  BY <1>4, <1>7, ListsJoined, Zenon DEF Sources
<1>9. GetAllCommands(regs) = all
  BY <1>1, <1>2, <1>3, <1>4, ZenonT(30) DEF GetAllCommands
<1> QED
  BY <1>7, <1>8, <1>9, ZenonT(30)

\* The documents offered before them are a list.
LEMMA ItemsAreList == IsList(DocumentItems)
<1>1. DOMAIN DocumentItems = DOMAIN PaletteDocs
      /\ DocumentItems = [i \in DOMAIN PaletteDocs |-> DocumentItems[i]]
  BY Zenon DEF DocumentItems
<1>2. IsList(PaletteDocs)
  BY PaletteAssumption, Zenon DEF IsList
<1> QED
  BY <1>1, <1>2, MappedList, ZenonT(30)

\* The list on offer has every project command that is registered.
LEMMA OfferedAll ==
    ASSUME NEW regs, \A s \in Sources : IsList(regs[s]), UsageCounts(usage), hour \in Int
    PROVE  Range(regs["projects"]) \subseteq Range(OfferedChoices(regs))
<1>1. PICK all : all = GetAllCommands(regs)
  BY Zenon
<1>2. IsList(all) /\ Range(regs["projects"]) \subseteq Range(all)
  BY <1>1, AllRegistered, Zenon
<1>3. PICK sorted : sorted = SortByUsage(all, usage, hour)
  BY Zenon
<1>4. IsList(sorted) /\ Range(all) \subseteq Range(sorted)
  BY <1>2, <1>3, SortKeepsAll, Zenon
<1>5. Range(sorted) \subseteq Range(DocumentItems \o sorted)
  BY <1>4, ItemsAreList, ListsJoined, Zenon
<1>6. OfferedChoices(regs) = DocumentItems \o sorted
  BY <1>1, <1>3, Zenon DEF OfferedChoices
<1> QED
  BY <1>2, <1>4, <1>5, <1>6, Zenon

\* The project commands read everything of the context but the document.
ProjectCommandsIn(page, project, previous, projects, archived) ==
    LET others == KeptAt(PaletteProjects, {i \in DOMAIN PaletteProjects :
                              PaletteProjects[i] \in projects \ {project}})
    IN  << Command(<<"new-project">>, <<>>, <<"go", "projects">>) >>
        \o Choice(project # NoOne,
                  << Command(<<"rename-project">>, <<project>>, <<"rename", project>>),
                     Command(<<"export-project">>, <<>>, <<"exportProject", project>>) >>)
        \o Choice(previous # NoOne,
                  << Command(<<"switch-last">>, <<previous>>, <<"last">>) >>)
        \o Choice(page = "dashboard" /\ project # NoOne,
                  << Command(<<"toggle-archived">>,
                             <<IF archived THEN "hide" ELSE "show", project>>,
                             <<"archived">>) >>)
        \o [i \in DOMAIN others |->
               Command(<<"project", others[i]>>, <<others[i]>>, <<"switch", others[i]>>)]

\* A context in which only the document differs has the same project commands:
\* the effect that does not run for such a change loses nothing.
LEMMA DocumentUnread ==
    ASSUME NEW c, NEW d, IsContext(c), IsContext(d), [c EXCEPT !.doc = d.doc] = d
    PROVE  ProjectCommands(c) = ProjectCommands(d)
<1>1. \A e : ProjectCommands(e) =
                 ProjectCommandsIn(e.page, e.project, e.previous, e.projects, e.archived)
  BY Zenon DEF ProjectCommands, ProjectCommandsIn
<1>2. [c EXCEPT !.doc = d.doc] = [x \in CtxParts |-> IF x = "doc" THEN d.doc ELSE c[x]]
  BY Zenon DEF IsContext
<1>3. \A x \in CtxParts : x # "doc" => d[x] = c[x]
  BY <1>2, Zenon
<1>4. /\ d.page = c.page /\ d.project = c.project /\ d.previous = c.previous
      /\ d.projects = c.projects /\ d.archived = c.archived
  BY <1>3, Zenon DEF CtxParts
<1> QED
  BY <1>1, <1>4, Zenon

\* What the invariant says of the commands: those for the projects of the
\* context are registered and on offer.
RegistryFits ==
    /\ IsContext(ctx) /\ DOMAIN sources = Sources
    /\ \A s \in Sources : IsList(sources[s])
    /\ sources["projects"] = ProjectCommands(ctx)
    /\ Range(sources["projects"]) \subseteq Range(options)

\* A change of context keeps it, whether the commands are built again or not.
LEMMA InContextKeeps ==
    ASSUME PaletteInvariant, NEW c, IsContext(c), InContext(c)
    PROVE  RegistryFits'
<1>1. /\ IsContext(ctx) /\ DOMAIN sources = Sources
      /\ \A s \in Sources : IsList(sources[s])
      /\ hour \in Int /\ UsageCounts(usage)
      /\ sources["projects"] = ProjectCommands(ctx)
      /\ Range(sources["projects"]) \subseteq Range(options)
  BY Zenon DEF PaletteInvariant
<1>2. CASE [c EXCEPT !.doc = ctx.doc] = ctx
  <2>1. ctx' = c /\ sources' = sources /\ options' = options
    BY <1>2, ZenonT(30) DEF InContext
  <2>2. ProjectCommands(c) = ProjectCommands(ctx)
    BY <1>1, <1>2, DocumentUnread, ZenonT(30)
  <2>3. ProjectCommands(ctx)' = ProjectCommands(c) /\ IsContext(ctx')
    BY <2>1, Zenon
  <2> QED
    BY <1>1, <2>1, <2>2, <2>3, ZenonT(30) DEF RegistryFits
<1>3. CASE ~([c EXCEPT !.doc = ctx.doc] = ctx)
  <2>1. /\ ctx' = c /\ sources' = RegisteredCommands(c)
        /\ options' = IF sources' # sources THEN OfferedChoices(sources') ELSE options
    BY <1>3, Zenon DEF InContext, Rebuild
  <2>2. sources' = [s \in Sources |-> SetCommands(sources[s], CommandsOf(s, c))]
    BY <1>1, <2>1, Zenon DEF RegisteredCommands
  <2>3. DOMAIN sources' = Sources
        /\ \A s \in Sources : sources'[s] = SetCommands(sources[s], CommandsOf(s, c))
    BY <2>2, Zenon
  <2>4. \A s \in Sources : IsList(sources'[s])
    <3> SUFFICES ASSUME NEW s \in Sources
                 PROVE  IsList(sources'[s])
      BY Zenon
    <3>1. sources'[s] = sources[s] \/ sources'[s] = CommandsOf(s, c)
      BY <2>3, Zenon DEF SetCommands
    <3> QED
      BY <1>1, <3>1, CommandsAreLists, ZenonT(30)
  <2>5. sources'["projects"] = ProjectCommands(c)
    <3>1. "projects" \in Sources /\ CommandsOf("projects", c) = ProjectCommands(c)
      BY Zenon DEF Sources, CommandsOf
    <3>2. sources'["projects"] = SetCommands(ProjectCommands(ctx), ProjectCommands(c))
      BY <1>1, <2>3, <3>1, Zenon
    <3> QED
      BY <3>2, EquivalentAreEqual, Zenon DEF SetCommands
  <2>6. Range(sources'["projects"]) \subseteq Range(options')
    <3>1. CASE sources' = sources
      BY <1>1, <2>1, <3>1, Zenon
    <3>2. CASE sources' # sources
      <4>1. PICK regs : regs = sources'
        BY Zenon
      <4>2. Range(regs["projects"]) \subseteq Range(OfferedChoices(regs))
        BY <1>1, <2>4, <4>1, OfferedAll, ZenonT(30)
      <4> QED
        BY <2>1, <3>2, <4>1, <4>2, ZenonT(30)
    <3> QED
      BY <3>1, <3>2, Zenon
  <2>7. ProjectCommands(ctx)' = ProjectCommands(c) /\ IsContext(ctx')
    BY <2>1, Zenon
  <2> QED
    BY <2>3, <2>4, <2>5, <2>6, <2>7, ZenonT(30) DEF RegistryFits
<1> QED
  BY <1>2, <1>3, Zenon

\* Changing a part of a context gives one.
LEMMA PartChanged ==
    ASSUME NEW c, IsContext(c), NEW f, NEW v
    PROVE  IsContext([c EXCEPT ![f] = v])
<1>1. PICK e : e = [x \in CtxParts |-> IF x = f THEN v ELSE c[x]]
  BY Zenon
<1>2. [c EXCEPT ![f] = v] = e
  BY <1>1, Zenon DEF IsContext
<1>3. e = [x \in CtxParts |-> e[x]]
  BY <1>1, Zenon
<1> QED
  BY <1>2, <1>3, Zenon DEF IsContext

\* Where the app goes from a context, and the project it switches to.
LEMMA ContextsReached ==
    ASSUME NEW c, IsContext(c)
    PROVE  /\ \A page, doc : IsContext(GoTo(c, page, doc))
           /\ \A p : IsContext(Switched(c, p))
           /\ \A ps : IsContext([c EXCEPT !.projects = ps])
           /\ IsContext([c EXCEPT !.archived = ~@])
           /\ IsContext([c EXCEPT !.project = c.previous, !.previous = c.project])
<1>1. ASSUME NEW page, NEW doc PROVE IsContext(GoTo(c, page, doc))
  <2>1. PICK d : d = [c EXCEPT !.page = page]
    BY Zenon
  <2>2. IsContext(d)
    BY <2>1, PartChanged, Zenon
  <2>3. IsContext([d EXCEPT !.doc = doc])
    BY <2>2, PartChanged, Zenon
  <2>4. GoTo(c, page, doc) = [d EXCEPT !.doc = doc]
    BY <2>1, Zenon DEF GoTo
  <2> QED
    BY <2>3, <2>4, Zenon
<1>2. ASSUME NEW p, NEW q PROVE IsContext([c EXCEPT !.project = p, !.previous = q])
  <2>1. PICK d : d = [c EXCEPT !.project = p]
    BY Zenon
  <2>2. IsContext(d)
    BY <2>1, PartChanged, Zenon
  <2>3. IsContext([d EXCEPT !.previous = q])
    BY <2>2, PartChanged, Zenon
  <2>4. [c EXCEPT !.project = p, !.previous = q] = [d EXCEPT !.previous = q]
    BY <2>1, Zenon
  <2> QED
    BY <2>3, <2>4, Zenon
<1>3. ASSUME NEW p PROVE IsContext(Switched(c, p))
  <2>1. IsContext([c EXCEPT !.project = p])
    BY PartChanged, Zenon
  <2>2. IsContext([c EXCEPT !.project = p, !.previous = c.project])
    BY <1>2, Zenon
  <2>3. Switched(c, p) = [c EXCEPT !.project = p, !.previous = c.project]
        \/ Switched(c, p) = [c EXCEPT !.project = p]
    BY Zenon DEF Switched
  <2> QED
    BY <2>1, <2>2, <2>3, ZenonT(30)
<1>4. \A ps : IsContext([c EXCEPT !.projects = ps])
  BY PartChanged, Zenon
<1>5. IsContext([c EXCEPT !.archived = ~@])
  BY PartChanged, Zenon
<1>6. IsContext([c EXCEPT !.project = c.previous, !.previous = c.project])
  BY <1>2, Zenon
<1> QED
  BY <1>1, <1>3, <1>4, <1>5, <1>6, ZenonT(30)

\* Where an action takes the app is a context.
LEMMA NavigatesIsContext ==
    ASSUME IsContext(ctx), NEW act
    PROVE  IsContext(Navigates(act))
<1>1. \A c : IsContext(c) => (\A page, doc : IsContext(GoTo(c, page, doc))) /\ \A p : IsContext(Switched(c, p))
  BY ContextsReached, Zenon
<1>2. IsContext([ctx EXCEPT !.archived = ~@])
      /\ IsContext([ctx EXCEPT !.project = ctx.previous, !.previous = ctx.project])
  BY ContextsReached, Zenon
<1>3. CASE act[1] = "open"
  <2>1. PICK d : d = IF act[2].project \in ctx.projects
                     THEN Switched(ctx, act[2].project) ELSE ctx
    BY Zenon
  <2>2. IsContext(d)
    BY <1>1, <2>1, Zenon
  <2>3. Navigates(act) = GoTo(d, "document", act[2])
    BY <1>3, <2>1, ZenonT(30) DEF Navigates
  <2> QED
    BY <1>1, <2>2, <2>3, ZenonT(30)
<1>4. CASE act[1] = "last"
  <2>1. Navigates(act) = ctx
        \/ Navigates(act) = [ctx EXCEPT !.project = ctx.previous, !.previous = ctx.project]
    BY <1>4, Zenon DEF Navigates
  <2> QED
    BY <1>2, <2>1, ZenonT(30)
<1>5. CASE act[1] = "archived"
  <2>1. Navigates(act) = [ctx EXCEPT !.archived = ~@]
    BY <1>5, Zenon DEF Navigates
  <2> QED
    BY <1>2, <2>1, Zenon
<1>6. CASE act[1] \in {"go", "rename", "switch"}
  <2>1. \/ Navigates(act) = GoTo(ctx, act[2], NoOne)
        \/ Navigates(act) = GoTo(ctx, "projects", NoOne)
        \/ Navigates(act) = Switched(ctx, act[2])
    BY <1>6, Zenon DEF Navigates
  <2> QED
    BY <1>1, <2>1, ZenonT(30)
<1>7. CASE act[1] \notin {"open", "last", "archived", "go", "rename", "switch"}
  <2>1. Navigates(act) = ctx
    BY <1>7, Zenon DEF Navigates
  <2> QED
    BY <2>1, Zenon
<1> QED
  BY <1>3, <1>4, <1>5, <1>6, <1>7, ZenonT(30)

\* Pruning keeps the counts it keeps.
LEMMA PrunedCounts ==
    ASSUME NEW uses, UsageCounts(uses)
    PROVE  UsageCounts(Pruned(uses))
<1>1. Pruned(uses) = uses \/ \E out : Pruned(uses) = [id \in DOMAIN uses \ {out} |-> uses[id]]
  BY Zenon DEF Pruned
<1>2. ASSUME NEW out, Pruned(uses) = [id \in DOMAIN uses \ {out} |-> uses[id]]
      PROVE  UsageCounts(Pruned(uses))
  <2>1. PICK pruned : pruned = Pruned(uses)
    BY Zenon
  <2>2. DOMAIN pruned = DOMAIN uses \ {out} /\ \A id \in DOMAIN pruned : pruned[id] = uses[id]
    BY <1>2, <2>1, Zenon
  <2>3. UsageCounts(pruned)
    BY <2>2, Zenon DEF UsageCounts
  <2> QED
    BY <2>1, <2>3, Zenon
<1> QED
  BY <1>1, <1>2, ZenonT(30)

\* Recording a use keeps the usage one of numbers.
LEMMA RecordUsageKeeps ==
    ASSUME UsageCounts(usage), hour \in Int, NEW id, RecordUsage(id)
    PROVE  UsageCounts(usage')
<1>1. PICK count : count = IF id \in DOMAIN usage THEN usage[id].count ELSE 0
  BY Zenon
<1>2. PICK used : used = [k \in DOMAIN usage \cup {id} |->
                    IF k = id THEN [last |-> hour, count |-> count + 1] ELSE usage[k]]
  BY Zenon
<1>3. usage' = Pruned(used)
  BY <1>1, <1>2, ZenonT(30) DEF RecordUsage
<1>4. count + 1 \in Int
  <2>1. count \in Int
    BY <1>1, SMTT(30) DEF UsageCounts
  <2> QED
    BY <2>1, SMTT(30)
<1>5. PICK entry : entry = [last |-> hour, count |-> count + 1]
  BY Zenon
<1>6. entry.last \in Int /\ entry.count \in Int
  BY <1>4, <1>5, Zenon
<1>7. DOMAIN used = DOMAIN usage \cup {id}
      /\ \A k \in DOMAIN used : used[k] = IF k = id THEN entry ELSE usage[k]
  BY <1>2, <1>5, Zenon
<1>8. UsageCounts(used)
  BY <1>6, <1>7, Zenon DEF UsageCounts
<1> QED
  BY <1>3, <1>8, PrunedCounts, ZenonT(30)

\* The invariant is the registry's part and the numbers'.
LEMMA PaletteInvariantParts ==
    /\ RegistryFits' /\ hour' \in Int /\ UsageCounts(usage') => PaletteInvariant'
    /\ PaletteInvariant => /\ RegistryFits /\ hour \in Int /\ UsageCounts(usage)
                           /\ IsContext(ctx)
BY Zenon DEF PaletteInvariant, RegistryFits

\* A step that leaves the commands and the usage alone.
LEMMA PaletteRests ==
    ASSUME PaletteInvariant, UNCHANGED <<ctx, sources, options, usage>>, hour' \in Int
    PROVE  PaletteInvariant'
<1>1. ctx' = ctx /\ sources' = sources /\ options' = options /\ usage' = usage
  BY Zenon
<1>2. ProjectCommands(ctx)' = ProjectCommands(ctx)
  BY <1>1, Zenon
<1> QED
  BY <1>1, <1>2, Zenon DEF PaletteInvariant

\* Every step of the palette keeps the invariant.
LEMMA PaletteStepKeeps ==
    ASSUME PaletteInvariant, PaletteNext
    PROVE  PaletteInvariant'
<1>1. IsContext(ctx) /\ hour \in Int /\ UsageCounts(usage)
  BY Zenon DEF PaletteInvariant
<1>2. ASSUME NEW c, IsContext(c), OutsidePalette(c)
      PROVE  PaletteInvariant'
  <2>1. InContext(c) /\ usage' = usage /\ hour' = hour
    BY <1>2, Zenon DEF OutsidePalette
  <2>2. RegistryFits'
    BY <1>2, <2>1, InContextKeeps, ZenonT(30)
  <2> QED
    BY <1>1, <2>1, <2>2, PaletteInvariantParts, ZenonT(30)
<1>3. CASE \E p \in Range(PaletteProjects) : SwitchesProject(p)
  BY <1>1, <1>2, <1>3, ContextsReached, ZenonT(30) DEF SwitchesProject
<1>4. CASE \E page \in Pages : ShowsPage(page)
  BY <1>1, <1>2, <1>4, ContextsReached, ZenonT(30) DEF ShowsPage
<1>5. CASE \E d \in Range(PaletteDocs) : OpenDocument(d)
  BY <1>1, <1>2, <1>5, ContextsReached, ZenonT(30) DEF OpenDocument
<1>6. CASE \E ps \in SUBSET Range(PaletteProjects) : ProjectsLoaded(ps)
  BY <1>1, <1>2, <1>6, ContextsReached, ZenonT(30) DEF ProjectsLoaded
<1>7. CASE \E h \in {1, 24} : HoursPass(h)
  <2>1. PICK h \in {1, 24} : HoursPass(h)
    BY <1>7, Zenon
  <2>2. hour' = hour + h /\ UNCHANGED <<ctx, sources, options, usage>>
    BY <2>1, Zenon DEF HoursPass
  <2>3. hour' \in Int
    BY <1>1, <2>2, SMTT(30)
  <2> QED
    BY <2>2, <2>3, PaletteRests, Zenon
<1>8. CASE OpenPalette \/ ClosePalette \/ LeaveFinder
  <2>1. UNCHANGED <<ctx, sources, options, usage>> /\ hour' = hour
    BY <1>8, Zenon DEF OpenPalette, ClosePalette, LeaveFinder
  <2> QED
    BY <1>1, <2>1, PaletteRests, Zenon
<1>9. CASE \E i \in DOMAIN options : RunCommand(options[i])
  <2>1. PICK i \in DOMAIN options : RunCommand(options[i])
    BY <1>9, Zenon
  <2>2. PICK cmd : cmd = options[i]
    BY Zenon
  <2>3. InContext(Navigates(cmd.act)) /\ RecordUsage(cmd.id) /\ hour' = hour
    BY <2>1, <2>2, Zenon DEF RunCommand
  <2>4. RegistryFits'
    BY <1>1, <2>3, NavigatesIsContext, InContextKeeps, ZenonT(30)
  <2>5. UsageCounts(usage')
    BY <1>1, <2>3, RecordUsageKeeps, Zenon
  <2> QED
    BY <1>1, <2>3, <2>4, <2>5, PaletteInvariantParts, ZenonT(30)
<1>10. CASE \E t \in tasks : TaskDone(t) \/ TaskFails(t)
  <2>1. PICK t \in tasks : TaskDone(t) \/ TaskFails(t)
    BY <1>10, Zenon
  <2>2. usage' = usage /\ hour' = hour
    BY <2>1, Zenon DEF TaskDone, TaskFails
  <2>3. UNCHANGED <<ctx, sources, options>> \/ \E page, doc : InContext(GoTo(ctx, page, doc))
    <3>1. CASE TaskFails(t)
      BY <3>1, Zenon DEF TaskFails
    <3>2. CASE TaskDone(t)
      BY <3>2, Zenon DEF TaskDone
    <3> QED
      BY <2>1, <3>1, <3>2, Zenon
  <2>4. ASSUME NEW page, NEW doc, InContext(GoTo(ctx, page, doc))
        PROVE  PaletteInvariant'
    <3>1. IsContext(GoTo(ctx, page, doc))
      BY <1>1, ContextsReached, Zenon
    <3>2. RegistryFits'
      BY <2>4, <3>1, InContextKeeps, ZenonT(30)
    <3> QED
      BY <1>1, <2>2, <3>2, PaletteInvariantParts, ZenonT(30)
  <2>5. ASSUME UNCHANGED <<ctx, sources, options>> PROVE PaletteInvariant'
    BY <1>1, <2>2, <2>5, PaletteRests, ZenonT(30)
  <2> QED
    BY <2>3, <2>4, <2>5, Zenon
<1>11. CASE \E d \in undoToasts : UndoProjectArchive(d)
  <2>1. UNCHANGED <<ctx, sources, options, usage>> /\ hour' = hour
    BY <1>11, Zenon DEF UndoProjectArchive
  <2> QED
    BY <1>1, <2>1, PaletteRests, Zenon
<1> QED
  BY <1>3, <1>4, <1>5, <1>6, <1>7, <1>8, <1>9, <1>10, <1>11, ZenonT(30) DEF PaletteNext

\* The app starts with the commands of its first context on offer.
LEMMA PaletteStarts ==
    ASSUME PaletteInit
    PROVE  PaletteInvariant
<1>1. IsContext(ctx)
  <2>1. ctx = [page |-> "dashboard", project |-> NoOne, previous |-> NoOne,
               projects |-> Range(PaletteProjects), doc |-> NoOne, archived |-> FALSE]
    BY Zenon DEF PaletteInit
  <2> QED
    BY <2>1, Zenon DEF IsContext, CtxParts
<1>2. sources = [s \in Sources |-> CommandsOf(s, ctx)]
      /\ usage = <<>> /\ hour = 0 /\ options = DocumentItems \o GetAllCommands(sources)
  BY Zenon DEF PaletteInit
<1>3. DOMAIN sources = Sources /\ \A s \in Sources : sources[s] = CommandsOf(s, ctx)
  BY <1>2, Zenon
<1>4. \A s \in Sources : IsList(sources[s])
  BY <1>3, CommandsAreLists, Zenon
<1>5. hour \in Int /\ UsageCounts(usage)
  <2>1. DOMAIN usage = {}
    BY <1>2, SMTT(30)
  <2>2. hour \in Int
    BY <1>2, SMTT(30)
  <2> QED
    BY <2>1, <2>2, Zenon DEF UsageCounts
<1>6. sources["projects"] = ProjectCommands(ctx)
  BY <1>3, Zenon DEF Sources, CommandsOf
<1>7. IsList(GetAllCommands(sources))
      /\ Range(sources["projects"]) \subseteq Range(GetAllCommands(sources))
  BY <1>4, AllRegistered, Zenon
<1>8. Range(GetAllCommands(sources)) \subseteq Range(options)
  BY <1>2, <1>7, ItemsAreList, ListsJoined, ZenonT(30)
<1>9. Range(sources["projects"]) \subseteq Range(options)
  BY <1>7, <1>8, ZenonT(30)
<1> QED
  BY <1>1, <1>3, <1>4, <1>5, <1>6, <1>9, ZenonT(30) DEF PaletteInvariant

\* The project commands act on the projects of the present context, and are
\* on offer: the registry keeps an old list only when nothing of it is stale.
THEOREM PaletteActsOnCurrent == PaletteSpec => []ProjectCommandsCurrent
<1>1. PaletteInit => PaletteInvariant
  BY PaletteStarts, Zenon
<1>2. PaletteInvariant /\ [PaletteNext]_paletteVars => PaletteInvariant'
  <2> SUFFICES ASSUME PaletteInvariant, [PaletteNext]_paletteVars
               PROVE  PaletteInvariant'
    BY Zenon
  <2>1. CASE PaletteNext
    BY <2>1, PaletteStepKeeps, Zenon
  <2>2. CASE UNCHANGED paletteVars
    <3>1. UNCHANGED <<ctx, sources, options, usage>> /\ hour' = hour /\ hour \in Int
      BY <2>2, Zenon DEF paletteVars, PaletteInvariant
    <3> QED
      BY <3>1, PaletteRests, Zenon
  <2> QED
    BY <2>1, <2>2, Zenon
<1>3. PaletteInvariant => ProjectCommandsCurrent
  BY Zenon DEF PaletteInvariant, ProjectCommandsCurrent
<1> QED
  BY <1>1, <1>2, <1>3, PTL DEF PaletteSpec

============================================================================
