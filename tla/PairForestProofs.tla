-------------------------- MODULE PairForestProofs --------------------------
(***************************************************************************)
(* Proofs about PairForest, for every set of lanes, capacity, page size,   *)
(* note set and bound.                                                     *)
(***************************************************************************)
EXTENDS PairForest, SequenceTheorems, TLAPS

(***************************************************************************)
(* Sequences.                                                              *)
(***************************************************************************)
\* A pair leaf is a list of one or two notes.
LEMMA PairType ==
  ASSUME NEW outs \in OutputLists
  PROVE  outs \in Seq(Notes) /\ Total(outs) \in Nat
<1>1. CASE outs \in {<<n>> : n \in Notes}
  <2>1. PICK n \in Notes : outs = <<n>>
    BY <1>1, Zenon
  <2>2. n.value \in Nat
    BY DEF Notes, Values
  <2>. QED  BY <2>1, <2>2 DEF Total
<1>2. CASE outs \in Notes \X Notes
  <2>1. PICK a \in Notes, b \in Notes : outs = <<a, b>>
    BY <1>2
  <2>2. a.value \in Nat /\ b.value \in Nat
    BY DEF Notes, Values
  <2>. QED  BY <2>1, <2>2 DEF Total
<1>. QED  BY <1>1, <1>2, Zenon DEF OutputLists

\* A prefix of a sequence, and its elements.
LEMMA Prefix ==
  ASSUME NEW S, NEW s \in Seq(S), NEW i \in 0..Len(s)
  PROVE  /\ SubSeq(s, 1, i) \in Seq(S)
         /\ Len(SubSeq(s, 1, i)) = i
         /\ \A j \in 1..i : SubSeq(s, 1, i)[j] = s[j]
<1>1. \A j \in 1..i : s[j] \in S
  BY LenProperties, ElementOfSeq
<1>. QED  BY <1>1, SubSeqProperties, LenProperties

\* An append keeps every prefix, and the whole is a prefix of itself.
LEMMA AppendKeepsPrefix ==
  ASSUME NEW S, NEW s \in Seq(S), NEW e \in S, NEW i \in 0..Len(s)
  PROVE  SubSeq(Append(s, e), 1, i) = SubSeq(s, 1, i)
<1>1. /\ Append(s, e) \in Seq(S) /\ Len(Append(s, e)) = Len(s) + 1
      /\ \A j \in 1..Len(s) : Append(s, e)[j] = s[j] /\ Len(s) \in Nat
  BY AppendProperties, LenProperties
<1>2. i \in 0..Len(Append(s, e)) /\ \A j \in 1..i : j \in 1..Len(s)
  BY <1>1, LenProperties
<1>3. /\ SubSeq(Append(s, e), 1, i) \in Seq(S)
      /\ Len(SubSeq(Append(s, e), 1, i)) = i
      /\ \A j \in 1..i : SubSeq(Append(s, e), 1, i)[j] = Append(s, e)[j]
  BY <1>1, <1>2, Prefix, Zenon
<1>4. /\ SubSeq(s, 1, i) \in Seq(S) /\ Len(SubSeq(s, 1, i)) = i
      /\ \A j \in 1..i : SubSeq(s, 1, i)[j] = s[j]
  BY Prefix, Zenon
<1>5. \A j \in 1..i : SubSeq(Append(s, e), 1, i)[j] = SubSeq(s, 1, i)[j]
  BY <1>1, <1>2, <1>3, <1>4, Zenon
<1>. QED  BY <1>3, <1>4, <1>5, SeqEqual, Zenon

LEMMA WholePrefix ==
  ASSUME NEW S, NEW s \in Seq(S)
  PROVE  SubSeq(s, 1, Len(s)) = s
<1>1. Len(s) \in 0..Len(s)
  BY LenProperties
<1>2. /\ SubSeq(s, 1, Len(s)) \in Seq(S) /\ Len(SubSeq(s, 1, Len(s))) = Len(s)
      /\ \A j \in 1..Len(s) : SubSeq(s, 1, Len(s))[j] = s[j]
  BY <1>1, Prefix, Zenon
<1>. QED  BY <1>2, SeqEqual, Zenon

(***************************************************************************)
(* Pages and slots.                                                        *)
(***************************************************************************)
LEMMA DivMod ==
  ASSUME NEW n \in Int, NEW p \in Int, p > 0
  PROVE  n = p * (n \div p) + (n % p)
OBVIOUS

LEMMA Location ==
  ASSUME NEW n \in Nat
  PROVE  /\ PageOf(n) \in Nat
         /\ SlotOf(n) \in 0..(PageCapacity - 1)
         /\ n = PageCapacity * PageOf(n) + SlotOf(n)
<1>1. n \in Int /\ PageCapacity \in Int /\ PageCapacity > 0
  BY LanesAssumption
<1>2. n = PageCapacity * (n \div PageCapacity) + (n % PageCapacity)
  BY <1>1, DivMod, Zenon
<1>3. n \div PageCapacity \in Nat /\ n % PageCapacity \in 0..(PageCapacity - 1)
  BY LanesAssumption
<1>. QED  BY <1>2, <1>3, Zenon DEF PageOf, SlotOf

LEMMA LocationType ==
  ASSUME NEW n \in Nat
  PROVE  PageOf(n) \in Nat /\ SlotOf(n) \in Nat
<1>1. PageOf(n) \in Nat /\ SlotOf(n) \in 0..(PageCapacity - 1)
  BY Location, Zenon
<1>. QED  BY <1>1, LanesAssumption

LEMMA LocationUnique ==
  ASSUME NEW n \in Nat, NEW q \in Nat, NEW r \in 0..(PageCapacity - 1),
         n = PageCapacity * q + r
  PROVE  PageOf(n) = q /\ SlotOf(n) = r
BY LanesAssumption DEF PageOf, SlotOf

LEMMA Distribute ==
  ASSUME NEW p \in Nat, NEW q \in Nat
  PROVE  p * (q + 1) = p * q + p /\ p * q \in Nat
OBVIOUS

LEMMA TimesMonotonic ==
  ASSUME NEW p \in Nat, NEW a \in Nat, NEW b \in Nat, a <= b
  PROVE  p * a <= p * b
OBVIOUS

LEMMA PageOfZero == PageOf(0) = 0 /\ SlotOf(0) = 0 /\ PageOf(0 + 1) = 0 /\ SlotOf(0 + 1) = 1
<1>1. /\ 0 = PageCapacity * 0 + 0 /\ 0 \in 0..(PageCapacity - 1)
      /\ 0 + 1 = PageCapacity * 0 + 1 /\ 1 \in 0..(PageCapacity - 1)
  BY LanesAssumption
<1>. QED  BY <1>1, LocationUnique

\* The next sequence is in the next slot, or starts the next page.
LEMMA NextLocation ==
  ASSUME NEW n \in Nat
  PROVE  \/ PageOf(n + 1) = PageOf(n) /\ SlotOf(n + 1) = SlotOf(n) + 1
         \/ PageOf(n + 1) = PageOf(n) + 1 /\ SlotOf(n + 1) = 0
<1>. PageCapacity \in Nat \ {0, 1}
  BY LanesAssumption, Zenon
<1>1. /\ PageOf(n) \in Nat /\ SlotOf(n) \in 0..(PageCapacity - 1)
      /\ n = PageCapacity * PageOf(n) + SlotOf(n)
  BY Location, Zenon
<1>2. CASE SlotOf(n) + 1 < PageCapacity
  <2>1. n + 1 = PageCapacity * PageOf(n) + (SlotOf(n) + 1) /\ SlotOf(n) + 1 \in 0..(PageCapacity - 1)
    BY <1>1, <1>2, Distribute
  <2>. QED  BY <2>1, <1>1, LocationUnique
<1>3. CASE SlotOf(n) + 1 = PageCapacity
  <2>1. n + 1 = PageCapacity * (PageOf(n) + 1) + 0 /\ 0 \in 0..(PageCapacity - 1) /\ PageOf(n) + 1 \in Nat
    BY <1>1, <1>3, Distribute
  <2>. QED  BY <2>1, LocationUnique
<1>. QED  BY <1>1, <1>2, <1>3

\* A page is full when the next sequence is on another one.
LEMMA LastSlot ==
  ASSUME NEW n \in Nat, PageOf(n + 1) = PageOf(n) + 1
  PROVE  SlotOf(n) + 1 = PageCapacity
<1>. PageCapacity \in Nat \ {0, 1}
  BY LanesAssumption, Zenon
<1>1. /\ PageOf(n) \in Nat /\ SlotOf(n) \in 0..(PageCapacity - 1)
      /\ n = PageCapacity * PageOf(n) + SlotOf(n)
  BY Location, Zenon
<1>2. CASE SlotOf(n) + 1 < PageCapacity
  <2>1. n + 1 = PageCapacity * PageOf(n) + (SlotOf(n) + 1) /\ SlotOf(n) + 1 \in 0..(PageCapacity - 1)
    BY <1>1, <1>2, Distribute
  <2>2. PageOf(n + 1) = PageOf(n)
    BY <1>1, <2>1, LocationUnique
  <2>. QED  BY <1>1, <2>2
<1>3. SlotOf(n) + 1 < PageCapacity \/ SlotOf(n) + 1 = PageCapacity
  <2>1. SlotOf(n) \in 0..(PageCapacity - 1)
    BY <1>1, Zenon
  <2>. QED  BY <2>1
<1>. QED  BY <1>2, <1>3, Zenon

\* Pages are in the order of their sequences.
LEMMA PageMonotonic ==
  ASSUME NEW m \in Nat, NEW n \in Nat, m <= n
  PROVE  PageOf(m) <= PageOf(n)
<1>. PageCapacity \in Nat \ {0, 1}
  BY LanesAssumption, Zenon
<1>1. /\ PageOf(m) \in Nat /\ SlotOf(m) \in 0..(PageCapacity - 1)
      /\ m = PageCapacity * PageOf(m) + SlotOf(m)
  BY Location, Zenon
<1>2. /\ PageOf(n) \in Nat /\ SlotOf(n) \in 0..(PageCapacity - 1)
      /\ n = PageCapacity * PageOf(n) + SlotOf(n)
  BY Location, Zenon
<1>3. SUFFICES ASSUME PageOf(n) + 1 <= PageOf(m)
               PROVE  FALSE
  BY <1>1, <1>2
<1>4. PageCapacity * (PageOf(n) + 1) <= PageCapacity * PageOf(m)
  BY <1>1, <1>2, <1>3, TimesMonotonic
<1>5. PageCapacity * (PageOf(n) + 1) = PageCapacity * PageOf(n) + PageCapacity
  BY <1>2, Distribute, Zenon
<1>6. PageCapacity * PageOf(n) \in Nat /\ PageCapacity * PageOf(m) \in Nat
  BY <1>1, <1>2, Distribute, Zenon
<1>. QED  BY <1>1, <1>2, <1>4, <1>5, <1>6

\* A sequence that fits the lane has its page.
LEMMA PageExists ==
  ASSUME NEW n \in 0..PairCapacity
  PROVE  PageOf(n) \in PageNumbers
<1>1. PageOf(n) \in Nat /\ PageOf(PairCapacity) \in Nat
  BY Location, LanesAssumption
<1>2. PageOf(n) <= PageOf(PairCapacity)
  BY PageMonotonic, LanesAssumption
<1>3. PageOf(PairCapacity) = PairCapacity \div PageCapacity
  BY Zenon DEF PageOf
<1>. QED  BY <1>1, <1>2, <1>3 DEF PageNumbers
(***************************************************************************)
(* Appends: what a deposit and a spend do to a lane and its pages.         *)
(***************************************************************************)
Appends(l, pair) ==
  /\ PageAccepted(l, {"Absent", "Zeroed"})
  /\ lanes' = [lanes EXCEPT ![l] = Append(lanes[l], pair)]
  /\ pages' = PagesAfter(l, Append(lanes[l], pair))

\* The three page modes.
LEMMA PageModes ==
  ASSUME TypeOK, NEW l \in Lanes, NEW pair \in OutputLists, Appends(l, pair)
  PROVE  LET here == PageOf(Len(lanes[l]))
             root == Append(lanes[l], pair)
         IN  \/ /\ lanes[l] = <<>>
                /\ pages' = [pages EXCEPT ![l][0] = Written(<<lanes[l], root>>)]
             \/ /\ PageOf(Len(lanes[l]) + 1) = here
                /\ validate_lane_current_page(l)
                /\ pages' = [pages EXCEPT ![l][here].roots = Append(@, root)]
             \/ /\ PageOf(Len(lanes[l]) + 1) # here
                /\ validate_lane_current_page(l)
                /\ pages' = [pages EXCEPT ![l][here + 1] = Written(<<root>>)]
<1>. DEFINE here == PageOf(Len(lanes[l]))
            root == Append(lanes[l], pair)
<1>1. CASE lanes[l] = <<>> /\ pages[l][0].status \in {"Absent", "Zeroed"}
  <2>1. Len(lanes[l]) = 0
    BY <1>1
  <2>2. here = 0
    BY <2>1, PageOfZero, Zenon
  <2>3. pages[l][here].status # "Written"
    BY <1>1, <2>2, Zenon
  <2>4. ~Rolls(l)
    BY <2>1, PageOfZero, Zenon DEF Rolls
  <2>5. pages' = [pages EXCEPT ![l][here] = Written(<<lanes[l], root>>)]
    BY <2>3, <2>4, Zenon DEF Appends, PagesAfter
  <2>. QED  BY <1>1, <2>2, <2>5
<1>2. CASE validate_lane_current_page(l)
  <2>1. pages[l][here].status = "Written"
    BY <1>2, Zenon DEF validate_lane_current_page, RetainedRoot
  <2>. QED  BY <1>2, <2>1, Zenon DEF Appends, PagesAfter, Rolls
<1>. QED  BY <1>1, <1>2, Zenon DEF Appends, PageAccepted
PageRecords == [status : {"Absent", "Zeroed", "Written"}, roots : Seq(Trees)]

\* What is known of a lane that is appended to.
LEMMA LaneFacts ==
  ASSUME TypeOK, NEW l \in Lanes, NEW pair \in OutputLists, Appends(l, pair)
  PROVE  /\ lanes[l] \in Trees /\ Len(lanes[l]) \in 0..PairCapacity
         /\ Append(lanes[l], pair) \in Trees
         /\ Len(Append(lanes[l], pair)) = Len(lanes[l]) + 1
         /\ lanes' = [lanes EXCEPT ![l] = Append(lanes[l], pair)]
         /\ PageOf(Len(lanes[l])) \in PageNumbers
         /\ PageOf(Len(lanes[l]) + 1) \in PageNumbers
         /\ 0 \in PageNumbers
<1>1. lanes[l] \in Trees
  BY Zenon DEF TypeOK
<1>2. /\ Append(lanes[l], pair) \in Trees /\ Len(lanes[l]) \in Nat
      /\ Len(Append(lanes[l], pair)) = Len(lanes[l]) + 1
  BY <1>1, AppendProperties, LenProperties DEF Trees
<1>3. Len(lanes[l]) < PairCapacity /\ PairCapacity \in Nat
  BY LanesAssumption, Zenon DEF Appends, PageAccepted
<1>4. Len(lanes[l]) \in 0..PairCapacity /\ Len(lanes[l]) + 1 \in 0..PairCapacity /\ 0 \in 0..PairCapacity
  BY <1>2, <1>3
<1>5. /\ PageOf(Len(lanes[l])) \in PageNumbers /\ PageOf(Len(lanes[l]) + 1) \in PageNumbers
      /\ PageOf(0) \in PageNumbers
  BY <1>4, PageExists, Zenon
<1>. QED  BY <1>1, <1>2, <1>4, <1>5, PageOfZero, Zenon DEF Appends

\* The page an append writes, after it.
LEMMA WrittenPage ==
  ASSUME TypeOK, NEW l \in Lanes, NEW pair \in OutputLists, Appends(l, pair)
  PROVE  LET here == PageOf(Len(lanes[l]))
             next == PageOf(Len(lanes[l]) + 1)
             root == Append(lanes[l], pair)
         IN  /\ pages' = [pages EXCEPT ![l] = [@ EXCEPT ![next] = pages'[l][next]]]
             /\ pages'[l][next] \in PageRecords
             /\ pages'[l][next].status = "Written"
             /\ \/ /\ lanes[l] = <<>> /\ next = 0
                   /\ pages'[l][next].roots = <<lanes[l], root>>
                \/ /\ next = here /\ validate_lane_current_page(l)
                   /\ pages'[l][next].roots = Append(pages[l][here].roots, root)
                \/ /\ next # here /\ validate_lane_current_page(l)
                   /\ pages'[l][next].roots = <<root>>
<1>. DEFINE here == PageOf(Len(lanes[l]))
            next == PageOf(Len(lanes[l]) + 1)
            root == Append(lanes[l], pair)
<1>0. /\ lanes[l] \in Trees /\ root \in Trees /\ Len(lanes[l]) \in Nat
      /\ here \in PageNumbers /\ next \in PageNumbers /\ 0 \in PageNumbers
  BY LaneFacts
<1>1. pages \in [Lanes -> [PageNumbers -> PageRecords]]
  BY Zenon DEF TypeOK, PageRecords
<1>2. pages[l][here] \in PageRecords /\ pages[l][next] \in PageRecords
  BY <1>0, <1>1, Zenon
<1>3. CASE /\ lanes[l] = <<>>
           /\ pages' = [pages EXCEPT ![l][0] = Written(<<lanes[l], root>>)]
  <2>1. next = 0
    BY <1>3, PageOfZero, Zenon
  <2>2. <<lanes[l], root>> \in Seq(Trees)
    BY <1>0
  <2>3. pages'[l][next] = [status |-> "Written", roots |-> <<lanes[l], root>>]
    BY <1>0, <1>1, <1>3, <2>1, Zenon DEF Written
  <2>4. pages' = [pages EXCEPT ![l] = [@ EXCEPT ![next] = pages'[l][next]]]
    BY <1>0, <1>1, <1>3, <2>1, <2>3, ZenonT(30) DEF Written
  <2>5. /\ pages'[l][next].status = "Written" /\ pages'[l][next] \in PageRecords
        /\ pages'[l][next].roots = <<lanes[l], root>>
    BY <2>2, <2>3 DEF PageRecords
  <2>. QED  BY <1>3, <2>1, <2>4, <2>5, Zenon
<1>4. CASE /\ next = here /\ validate_lane_current_page(l)
           /\ pages' = [pages EXCEPT ![l][here].roots = Append(@, root)]
  <2>1. pages[l][here].status = "Written" /\ pages[l][here].roots \in Seq(Trees)
    BY <1>2, <1>4, Zenon DEF validate_lane_current_page, RetainedRoot, PageRecords
  <2>2. Append(pages[l][here].roots, root) \in Seq(Trees)
    BY <1>0, <2>1, AppendProperties, Zenon
  <2>3. pages'[l][next] = [pages[l][here] EXCEPT !.roots = Append(@, root)]
    BY <1>0, <1>1, <1>4, Zenon
  <2>4. pages' = [pages EXCEPT ![l] = [@ EXCEPT ![next] = pages'[l][next]]]
    BY <1>0, <1>1, <1>4, <2>3, Zenon
  <2>5. /\ pages'[l][next].status = "Written" /\ pages'[l][next] \in PageRecords
        /\ pages'[l][next].roots = Append(pages[l][here].roots, root)
    BY <1>2, <2>1, <2>2, <2>3, Zenon DEF PageRecords
  <2>. QED  BY <1>4, <2>4, <2>5, ZenonT(30)
<1>5. CASE /\ next # here /\ validate_lane_current_page(l)
           /\ pages' = [pages EXCEPT ![l][here + 1] = Written(<<root>>)]
  <2>1. next = here + 1
    BY <1>0, <1>5, NextLocation, Zenon
  <2>2. <<root>> \in Seq(Trees)
    BY <1>0
  <2>3. pages'[l][next] = [status |-> "Written", roots |-> <<root>>]
    BY <1>0, <1>1, <1>5, <2>1, Zenon DEF Written
  <2>4. pages' = [pages EXCEPT ![l] = [@ EXCEPT ![next] = pages'[l][next]]]
    BY <1>0, <1>1, <1>5, <2>1, <2>3, Zenon DEF Written
  <2>5. /\ pages'[l][next].status = "Written" /\ pages'[l][next] \in PageRecords
        /\ pages'[l][next].roots = <<root>>
    BY <2>2, <2>3 DEF PageRecords
  <2>. QED  BY <1>5, <2>4, <2>5, Zenon
<1>. QED  BY <1>3, <1>4, <1>5, PageModes, Zenon
\* A root that a lane retained before an append is retained after it.
LEMMA AppendKeepsRoots ==
  ASSUME TypeOK, NEW l \in Lanes, NEW pair \in OutputLists, Appends(l, pair),
         NEW m \in Lanes, NEW seq \in 0..Len(lanes[m]), NEW root, lanes[m] # <<>>,
         seq <= PairCapacity, RetainedRoot(m, seq, root)
  PROVE  RetainedRoot(m, seq, root)'
<1>. DEFINE here == PageOf(Len(lanes[l]))
            next == PageOf(Len(lanes[l]) + 1)
<1>0. /\ Len(lanes[l]) \in Nat /\ next \in PageNumbers /\ lanes[m] \in Trees
      /\ pages \in [Lanes -> [PageNumbers -> PageRecords]]
      /\ PageOf(seq) \in PageNumbers /\ Len(lanes[m]) \in Nat /\ seq \in Nat
  <2>1. seq \in Nat /\ lanes[m] \in Trees /\ Len(lanes[m]) \in Nat
    BY LenProperties DEF TypeOK, Trees
  <2>2. PageOf(seq) \in PageNumbers
    BY <2>1, PageExists, LanesAssumption
  <2>. QED  BY <2>1, <2>2, LaneFacts DEF TypeOK, PageRecords
<1>1. pages' = [pages EXCEPT ![l] = [@ EXCEPT ![next] = pages'[l][next]]]
  BY WrittenPage, Zenon
<1>2. CASE m # l \/ PageOf(seq) # next
  <2>1. pages'[m][PageOf(seq)] = pages[m][PageOf(seq)]
    BY <1>0, <1>1, <1>2, Zenon
  <2>. QED  BY <2>1, Zenon DEF RetainedRoot
<1>3. CASE m = l /\ PageOf(seq) = next
  <2>1. PageOf(seq) <= here
    BY <1>0, <1>3, PageMonotonic
  <2>2. here \in Nat /\ (next = here \/ next = here + 1)
    BY <1>0, LocationType, NextLocation, Zenon
  <2>3. next = here
    BY <1>3, <2>1, <2>2
  <2>4. /\ pages'[l][next].status = "Written"
        /\ pages'[l][next].roots = Append(pages[l][here].roots, Append(lanes[l], pair))
    BY <1>3, <2>3, WrittenPage, Zenon
  <2>5. /\ SlotOf(seq) < Len(pages[l][here].roots) /\ pages[l][here].roots[SlotOf(seq) + 1] = root
    BY <1>3, <2>3, Zenon DEF RetainedRoot
  <2>6. pages[l][here].roots \in Seq(Trees) /\ SlotOf(seq) \in Nat /\ Append(lanes[l], pair) \in Trees
    <3>1. SlotOf(seq) \in Nat
      BY <1>0, LocationType, Zenon
    <3>2. pages[l][here] \in PageRecords
      BY <1>0, <2>3, Zenon
    <3>. QED  BY <3>1, <3>2, LaneFacts, Zenon DEF PageRecords
  <2>7. /\ Len(pages'[l][next].roots) = Len(pages[l][here].roots) + 1
        /\ pages'[l][next].roots[SlotOf(seq) + 1] = pages[l][here].roots[SlotOf(seq) + 1]
        /\ Len(pages[l][here].roots) \in Nat
    <3>. DEFINE old == pages[l][here].roots
                new == Append(lanes[l], pair)
    <3>1. old \in Seq(Trees) /\ new \in Trees /\ Len(old) \in Nat
      BY <2>6, LenProperties, Zenon
    <3>2. Len(Append(old, new)) = Len(old) + 1 /\ \A j \in 1..Len(old) : Append(old, new)[j] = old[j]
      BY <3>1, AppendProperties
    <3>3. SlotOf(seq) + 1 \in 1..Len(old)
      BY <2>5, <2>6, <3>1
    <3>. QED  BY <2>4, <3>1, <3>2, <3>3, Zenon
  <2>8. SlotOf(seq) < Len(pages'[l][next].roots)
    BY <2>5, <2>6, <2>7
  <2>. QED  BY <1>3, <2>4, <2>5, <2>7, <2>8, Zenon DEF RetainedRoot
<1>. QED  BY <1>2, <1>3, Zenon

RootIn(page, slot, root) ==
  page.status = "Written" /\ slot < Len(page.roots) /\ page.roots[slot + 1] = root

\* A page of slot + 1 roots, and one more.
LEMMA PageGrows ==
  ASSUME NEW S, NEW old \in Seq(S), NEW root \in S, NEW slot \in Nat, Len(old) = slot + 1
  PROVE  /\ slot + 1 < Len(Append(old, root))
         /\ Append(old, root)[(slot + 1) + 1] = root
         /\ 0 < Len(Append(old, root)) /\ Append(old, root)[1] = old[1]
<1>1. /\ Len(Append(old, root)) = Len(old) + 1
      /\ Append(old, root)[Len(old) + 1] = root
      /\ \A j \in 1..Len(old) : Append(old, root)[j] = old[j]
  BY AppendProperties
<1>. QED  BY <1>1

\* The root of the append is retained, and with it the empty root of a lane
\* that had no page.
LEMMA AppendRetains ==
  ASSUME TypeOK, NEW l \in Lanes, NEW pair \in OutputLists, Appends(l, pair)
  PROVE  /\ RootIn(pages'[l][PageOf(Len(lanes[l]) + 1)], SlotOf(Len(lanes[l]) + 1),
                   Append(lanes[l], pair))
         /\ lanes[l] = <<>> => RootIn(pages'[l][0], 0, <<>>)
<1>. DEFINE len == Len(lanes[l])
            root == Append(lanes[l], pair)
            here == PageOf(len)
            next == PageOf(len + 1)
            page == pages'[l][next]
<1>0. /\ len \in Nat /\ lanes[l] \in Trees /\ root \in Trees
      /\ here \in PageNumbers /\ pages[l][here] \in PageRecords
  BY LaneFacts, SMTT(30) DEF TypeOK, PageRecords
<1>1. /\ page.status = "Written"
      /\ \/ /\ lanes[l] = <<>> /\ next = 0
            /\ page.roots = <<lanes[l], root>>
         \/ /\ next = here /\ validate_lane_current_page(l)
            /\ page.roots = Append(pages[l][here].roots, root)
         \/ /\ next # here /\ validate_lane_current_page(l)
            /\ page.roots = <<root>>
  BY WrittenPage, Zenon
<1>8. page.status = "Written"
  BY <1>1, Zenon
<1>2. lanes[l] = <<>> => len = 0
  OBVIOUS
<1>3. /\ SlotOf(len) \in Nat
      /\ \/ next = here /\ SlotOf(len + 1) = SlotOf(len) + 1
         \/ next = here + 1 /\ SlotOf(len + 1) = 0
  BY <1>0, LocationType, NextLocation, Zenon
<1>4. validate_lane_current_page(l) =>
        /\ RootIn(pages[l][here], SlotOf(len), lanes[l])
        /\ Len(pages[l][here].roots) = SlotOf(len) + 1
  BY Zenon DEF validate_lane_current_page, RetainedRoot, RootIn
<1>. SUFFICES /\ RootIn(page, SlotOf(len + 1), root)
              /\ lanes[l] = <<>> => RootIn(pages'[l][0], 0, <<>>)
  BY Zenon
<1>. HIDE DEF len, root, here
<1>5. CASE lanes[l] = <<>> /\ next = 0 /\ page.roots = <<lanes[l], root>>
  <2>1. len = 0 /\ SlotOf(len + 1) = 1
    BY <1>2, <1>5, PageOfZero, Zenon
  <2>2. /\ Len(page.roots) = 2 /\ page.roots[1] = <<>>
        /\ page.roots[2] = root /\ page = pages'[l][0]
    BY <1>5, SMTT(30)
  <2>3. RootIn(page, 1, root) /\ RootIn(page, 0, <<>>)
    BY <1>8, <2>2 DEF RootIn
  <2>. QED  BY <2>1, <2>2, <2>3, Zenon
<1>6. CASE next # here /\ page.roots = <<root>>
  <2>1. SlotOf(len + 1) = 0
    BY <1>3, <1>6, Zenon
  <2>2. Len(page.roots) = 1 /\ page.roots[1] = root
    BY <1>6
  <2>3. lanes[l] # <<>>
    BY <1>2, <1>6, PageOfZero, Zenon DEF here
  <2>4. RootIn(page, 0, root)
    BY <1>8, <2>2 DEF RootIn
  <2>. QED  BY <2>1, <2>3, <2>4, Zenon
<1>7. CASE /\ next = here /\ validate_lane_current_page(l)
           /\ page.roots = Append(pages[l][here].roots, root)
  <2>. DEFINE old == pages[l][here].roots
  <2>1. SlotOf(len + 1) = SlotOf(len) + 1
    <3>1. here \in Nat
      BY <1>0, LocationType, Zenon DEF here
    <3>. QED  BY <1>3, <1>7, <3>1
  <2>2. old \in Seq(Trees) /\ Len(old) = SlotOf(len) + 1
    BY <1>0, <1>4, <1>7, Zenon DEF PageRecords
  <2>. HIDE DEF old
  <2>3. /\ SlotOf(len) + 1 < Len(Append(old, root))
        /\ Append(old, root)[(SlotOf(len) + 1) + 1] = root
        /\ 0 < Len(Append(old, root)) /\ Append(old, root)[1] = old[1]
    BY <1>0, <1>3, <2>2, PageGrows
  <2>4. page.roots = Append(old, root)
    BY <1>7, Zenon DEF old
  <2>5. RootIn(page, SlotOf(len + 1), root)
    BY <1>8, <2>1, <2>3, <2>4, Zenon DEF RootIn
  <2>6. ASSUME lanes[l] = <<>> PROVE RootIn(pages'[l][0], 0, <<>>)
    <3>1. len = 0 /\ here = 0 /\ SlotOf(len) = 0
      BY <1>2, <2>6, PageOfZero, Zenon DEF here
    <3>2. old[1] = <<>>
      BY <1>4, <1>7, <2>6, <3>1 DEF RootIn, old
    <3>3. page = pages'[l][0]
      BY <1>7, <3>1, Zenon
    <3>4. RootIn(page, 0, <<>>)
      BY <1>8, <2>3, <2>4, <3>2 DEF RootIn
    <3>. QED  BY <3>3, <3>4, Zenon
  <2>. QED  BY <2>5, <2>6, Zenon
<1>. QED  BY <1>1, <1>5, <1>6, <1>7, Zenon

\* HistoryKept survives an append.
LEMMA AppendKeepsHistory ==
  ASSUME TypeOK, HistoryKept, NEW l \in Lanes, NEW pair \in OutputLists, Appends(l, pair)
  PROVE  HistoryKept'
<1>. DEFINE len == Len(lanes[l])
            root == Append(lanes[l], pair)
<1>0. /\ len \in Nat /\ lanes[l] \in Trees /\ root \in Trees /\ Len(root) = len + 1
      /\ lanes' = [lanes EXCEPT ![l] = root] /\ lanes \in [Lanes -> Trees]
      /\ len + 1 <= PairCapacity
  <2>1. len \in Nat /\ len < PairCapacity
    BY LaneFacts DEF Appends, PageAccepted
  <2>2. len + 1 <= PairCapacity
    BY <2>1, LanesAssumption
  <2>. QED  BY <2>1, <2>2, LaneFacts, Zenon DEF TypeOK
<1>. SUFFICES ASSUME NEW m \in Lanes, lanes'[m] # <<>>, NEW seq \in 0..Len(lanes'[m])
              PROVE  RootIn(pages'[m][PageOf(seq)], SlotOf(seq), SubSeq(lanes'[m], 1, seq))
  BY Zenon DEF HistoryKept, RetainedRoot, RootIn
<1>1. CASE m # l
  <2>1. lanes'[m] = lanes[m]
    BY <1>0, <1>1, Zenon
  <2>2. pages'[m] = pages[m]
    BY <1>1, WrittenPage, Zenon DEF TypeOK
  <2>3. RetainedRoot(m, seq, SubSeq(lanes[m], 1, seq))
    BY <2>1, Zenon DEF HistoryKept
  <2>. QED  BY <2>1, <2>2, <2>3, Zenon DEF RetainedRoot, RootIn
<1>2. CASE m = l
  <2>1. lanes'[m] = root /\ seq \in 0..(len + 1)
    BY <1>0, <1>2, Zenon
  <2>2. CASE seq = len + 1
    <3>1. SubSeq(root, 1, seq) = root
      BY <1>0, <2>2, WholePrefix, Zenon DEF Trees
    <3>. QED  BY <1>2, <2>1, <2>2, <3>1, AppendRetains, Zenon
  <2>3. CASE seq \in 0..len /\ lanes[l] # <<>>
    <3>1. RetainedRoot(l, seq, SubSeq(lanes[l], 1, seq))
      BY <2>3, Zenon DEF HistoryKept
    <3>2. seq <= PairCapacity
      BY <1>0, <2>3, LanesAssumption
    <3>3. RetainedRoot(l, seq, SubSeq(lanes[l], 1, seq)) => SubSeq(root, 1, seq) = SubSeq(lanes[l], 1, seq)
      BY <1>0, <2>3, AppendKeepsPrefix, Zenon DEF Trees
    <3>4. \A r : RetainedRoot(l, seq, r) => RootIn(pages'[l][PageOf(seq)], SlotOf(seq), r)
      <4>. SUFFICES ASSUME NEW r, RetainedRoot(l, seq, r)
                    PROVE  RootIn(pages'[l][PageOf(seq)], SlotOf(seq), r)
        BY Zenon
      <4>1. RetainedRoot(l, seq, r)'
        BY <2>3, <3>2, AppendKeepsRoots, Zenon
      <4>. QED  BY <4>1, Zenon DEF RetainedRoot, RootIn
    <3>. QED  BY <1>2, <2>1, <3>1, <3>3, <3>4, Zenon
  <2>4. CASE seq \in 0..len /\ lanes[l] = <<>>
    <3>1. seq = 0 /\ PageOf(seq) = 0 /\ SlotOf(seq) = 0
      BY <2>4, PageOfZero
    <3>2. SubSeq(root, 1, 0) = SubSeq(lanes[l], 1, 0) /\ SubSeq(lanes[l], 1, 0) = lanes[l]
      <4>1. 0 \in 0..len /\ Len(lanes[l]) = 0
        BY <1>0, <2>4
      <4>. QED  BY <1>0, <4>1, AppendKeepsPrefix, WholePrefix DEF Trees
    <3>3. RootIn(pages'[l][0], 0, <<>>)
      BY <2>4, AppendRetains, Zenon
    <3>. QED  BY <1>2, <2>1, <2>4, <3>1, <3>2, <3>3, Zenon
  <2>. QED  BY <1>0, <2>1, <2>2, <2>3, <2>4
<1>. QED  BY <1>1, <1>2, Zenon

LEMMA CheckpointType ==
  ASSUME TypeOK, NEW k \in DOMAIN checkpoints
  PROVE  /\ checkpoints[k].lane_sequences \in [Lanes -> Nat]
         /\ checkpoints[k].global_root \in [Lanes -> Trees]
<1>. DEFINE C == [checkpoint_sequence : Nat, global_root : [Lanes -> Trees],
                 lane_sequences : [Lanes -> Nat]]
<1>1. checkpoints \in Seq(C)
  BY Zenon DEF TypeOK
<1>2. checkpoints[k] \in C
  <2>. HIDE DEF C
  <2>. QED  BY <1>1, LenProperties, ElementOfSeq, Zenon
<1>. QED  BY <1>2, Zenon

\* A checkpoint stays an earlier state of the lanes when one of them grows.
LEMMA AppendKeepsCheckpoints ==
  ASSUME TypeOK, CheckpointsArePast, NEW l \in Lanes, NEW pair \in OutputLists,
         Appends(l, pair), checkpoints' = checkpoints
  PROVE  CheckpointsArePast'
<1>0. /\ lanes[l] \in Trees /\ lanes \in [Lanes -> Trees]
      /\ lanes' = [lanes EXCEPT ![l] = Append(lanes[l], pair)]
      /\ Len(Append(lanes[l], pair)) = Len(lanes[l]) + 1 /\ Len(lanes[l]) \in Nat
  BY LaneFacts DEF TypeOK
<1>1. ASSUME NEW k \in DOMAIN checkpoints, NEW m \in Lanes
      PROVE  LET seq == checkpoints[k].lane_sequences[m]
             IN  /\ seq <= Len(lanes'[m])
                 /\ checkpoints[k].global_root[m] = SubSeq(lanes'[m], 1, seq)
  <2>. DEFINE seq == checkpoints[k].lane_sequences[m]
  <2>1. seq \in Nat
    BY CheckpointType, Zenon
  <2>2. seq <= Len(lanes[m]) /\ checkpoints[k].global_root[m] = SubSeq(lanes[m], 1, seq)
    BY Zenon DEF CheckpointsArePast
  <2>3. CASE m # l
    <3>1. lanes'[m] = lanes[m]
      BY <1>0, <2>3, Zenon
    <3>. QED  BY <2>2, <3>1, Zenon
  <2>4. CASE m = l
    <3>1. seq \in 0..Len(lanes[l])
      BY <1>0, <2>1, <2>2, <2>4
    <3>2. SubSeq(Append(lanes[l], pair), 1, seq) = SubSeq(lanes[l], 1, seq)
      BY <1>0, <3>1, AppendKeepsPrefix, Zenon DEF Trees
    <3>3. lanes'[m] = Append(lanes[l], pair) /\ seq <= Len(lanes[l]) + 1
      BY <1>0, <2>4, <3>1
    <3>. QED  BY <1>0, <2>2, <2>4, <3>2, <3>3, Zenon
  <2>. QED  BY <2>3, <2>4, Zenon
<1>. QED  BY <1>1, Zenon DEF CheckpointsArePast

(***************************************************************************)
(* The notes under a root.                                                 *)
(***************************************************************************)
LEMMA UnderRoot ==
  ASSUME NEW g, NEW x
  PROVE  x \in NotesUnder(g) <=>
           \E l \in Lanes : \E i \in DOMAIN g[l] : \E j \in DOMAIN g[l][i] : x = g[l][i][j]
BY DEF NotesUnder, Range

\* What was under a checkpoint is under the lanes.
LEMMA CheckpointUnderLanes ==
  ASSUME TypeOK, CheckpointsArePast, NEW k \in DOMAIN checkpoints
  PROVE  NotesUnder(checkpoints[k].global_root) \subseteq NotesUnder(lanes)
<1>. DEFINE g == checkpoints[k].global_root
<1>1. ASSUME NEW l \in Lanes, NEW i \in DOMAIN g[l]
      PROVE  i \in DOMAIN lanes[l] /\ g[l][i] = lanes[l][i]
  <2>. DEFINE seq == checkpoints[k].lane_sequences[l]
  <2>1. lanes[l] \in Trees /\ seq \in Nat
    BY CheckpointType, Zenon DEF TypeOK
  <2>2. seq <= Len(lanes[l]) /\ g[l] = SubSeq(lanes[l], 1, seq)
    BY Zenon DEF CheckpointsArePast
  <2>3. seq \in 0..Len(lanes[l]) /\ Len(lanes[l]) \in Nat
    BY <2>1, <2>2, LenProperties DEF Trees
  <2>4. /\ g[l] \in Trees /\ Len(g[l]) = seq
        /\ \A j \in 1..seq : g[l][j] = lanes[l][j]
    BY <2>1, <2>2, <2>3, Prefix DEF Trees
  <2>5. DOMAIN g[l] = 1..seq /\ DOMAIN lanes[l] = 1..Len(lanes[l])
    BY <2>1, <2>4, LenProperties, Zenon DEF Trees
  <2>. QED  BY <2>2, <2>3, <2>4, <2>5
<1>. HIDE DEF g
<1>2. ASSUME NEW x \in NotesUnder(g)
      PROVE  x \in NotesUnder(lanes)
  <2>1. PICK l \in Lanes : \E i \in DOMAIN g[l] : \E j \in DOMAIN g[l][i] : x = g[l][i][j]
    BY UnderRoot
  <2>2. PICK i \in DOMAIN g[l] : \E j \in DOMAIN g[l][i] : x = g[l][i][j]
    BY <2>1, Zenon
  <2>. QED  BY <1>1, <2>2, UnderRoot, Zenon
<1>. QED  BY <1>2, Zenon DEF g

LEMMA RangeConcat ==
  ASSUME NEW S, NEW s \in Seq(S), NEW t \in Seq(S)
  PROVE  Range(s \o t) = Range(s) \union Range(t)
<1>1. /\ s \o t \in Seq(S) /\ Len(s \o t) = Len(s) + Len(t)
      /\ \A i \in 1..Len(s) : (s \o t)[i] = s[i]
      /\ \A i \in 1..Len(t) : (s \o t)[Len(s) + i] = t[i]
  BY ConcatProperties
<1>2. DOMAIN s = 1..Len(s) /\ DOMAIN t = 1..Len(t) /\ DOMAIN (s \o t) = 1..(Len(s) + Len(t))
  BY <1>1, LenProperties, Zenon
<1>3. Len(s) \in Nat /\ Len(t) \in Nat
  BY LenProperties, Zenon
<1>4. ASSUME NEW i \in 1..(Len(s) + Len(t))
      PROVE  i \in 1..Len(s) \/ (i - Len(s) \in 1..Len(t) /\ Len(s) + (i - Len(s)) = i)
  BY <1>3
<1>5. ASSUME NEW i \in 1..Len(s) PROVE i \in 1..(Len(s) + Len(t))
  BY <1>3
<1>6. ASSUME NEW i \in 1..Len(t) PROVE Len(s) + i \in 1..(Len(s) + Len(t))
  BY <1>3
<1>7. ASSUME NEW x \in Range(s \o t) PROVE x \in Range(s) \union Range(t)
  <2>1. PICK i \in 1..(Len(s) + Len(t)) : x = (s \o t)[i]
    BY <1>2, Zenon DEF Range
  <2>. QED  BY <1>1, <1>2, <1>4, <2>1 DEF Range
<1>8. Range(s) \subseteq Range(s \o t)
  BY <1>1, <1>2, <1>5, Zenon DEF Range
<1>9. Range(t) \subseteq Range(s \o t)
  BY <1>1, <1>2, <1>6, Zenon DEF Range
<1>. QED  BY <1>7, <1>8, <1>9, Zenon

\* An append puts the notes of its pair under the lanes, and no other.
LEMMA AppendKeepsLeaves ==
  ASSUME TypeOK, LeavesAreNotes, NEW l \in Lanes, NEW pair \in OutputLists,
         Appends(l, pair), notes' = notes \o pair
  PROVE  LeavesAreNotes'
<1>0. /\ lanes[l] \in Trees /\ lanes \in [Lanes -> Trees]
      /\ lanes' = [lanes EXCEPT ![l] = Append(lanes[l], pair)]
  BY LaneFacts, Zenon DEF TypeOK
<1>1. Range(notes') = Range(notes) \union Range(pair)
  BY PairType, RangeConcat DEF TypeOK
<1>2. SUFFICES ASSUME NEW x \in NotesUnder(lanes') PROVE x \in Range(notes')
  BY Zenon DEF LeavesAreNotes, NotesUnder, Range
<1>3. PICK m \in Lanes : \E i \in DOMAIN lanes'[m] : \E j \in DOMAIN lanes'[m][i] : x = lanes'[m][i][j]
  BY UnderRoot
<1>4. PICK i \in DOMAIN lanes'[m] : \E j \in DOMAIN lanes'[m][i] : x = lanes'[m][i][j]
  BY <1>3, Zenon
<1>5. lanes'[m][i] = pair \/ (i \in DOMAIN lanes[m] /\ lanes'[m][i] = lanes[m][i])
  <2>1. CASE m # l
    BY <1>0, <1>4, <2>1, Zenon
  <2>2. CASE m = l
    <3>. DEFINE s == lanes[l]
    <3>1. lanes'[m] = Append(s, pair) /\ s \in Seq(OutputLists)
      BY <1>0, <2>2, Zenon DEF Trees
    <3>2. /\ Append(s, pair) \in Seq(OutputLists) /\ Len(Append(s, pair)) = Len(s) + 1
          /\ \A j \in 1..Len(s) : Append(s, pair)[j] = s[j]
          /\ Append(s, pair)[Len(s) + 1] = pair
      BY <3>1, AppendProperties
    <3>3. DOMAIN s = 1..Len(s) /\ DOMAIN Append(s, pair) = 1..(Len(s) + 1) /\ Len(s) \in Nat
      BY <3>1, <3>2, LenProperties, Zenon
    <3>. HIDE DEF s
    <3>4. i \in 1..(Len(s) + 1)
      BY <1>4, <3>1, <3>3, Zenon
    <3>5. i \in 1..Len(s) \/ i = Len(s) + 1
      BY <3>3, <3>4
    <3>. QED  BY <2>2, <3>1, <3>2, <3>3, <3>5, Zenon DEF s
  <2>. QED  BY <2>1, <2>2, Zenon
<1>6. x \in Range(pair) \/ x \in NotesUnder(lanes)
  BY <1>4, <1>5, UnderRoot DEF Range
<1>. QED  BY <1>1, <1>6, Zenon DEF LeavesAreNotes

(***************************************************************************)
(* The steps.                                                              *)
(***************************************************************************)
LEMMA AppendKeepsInvariant ==
  ASSUME IInv, NEW l \in Lanes, NEW pair \in OutputLists, Appends(l, pair),
         notes' = notes \o pair, markers' \subseteq Serials, vault' \in Nat,
         UNCHANGED <<initialized, master, checkpoints, selected>>
  PROVE  IInv'
<1>. USE DEF IInv
<1>1. notes' \in Seq(Notes)
  BY PairType, ConcatProperties, Zenon DEF TypeOK
<1>2. lanes' \in [Lanes -> Trees]
  BY LaneFacts, Zenon DEF TypeOK
<1>3. pages' \in [Lanes -> [PageNumbers -> PageRecords]]
  <2>. DEFINE next == PageOf(Len(lanes[l]) + 1)
  <2>1. /\ pages' = [pages EXCEPT ![l] = [@ EXCEPT ![next] = pages'[l][next]]]
        /\ pages'[l][next] \in PageRecords
    BY WrittenPage, Zenon
  <2>2. pages \in [Lanes -> [PageNumbers -> PageRecords]]
    BY Zenon DEF TypeOK, PageRecords
  <2>. HIDE DEF next
  <2>3. PICK page : page = pages'[l][next]
    BY Zenon
  <2>4. pages[l] \in [PageNumbers -> PageRecords]
    BY <2>2, Zenon
  <2>5. PICK lane : lane = [pages[l] EXCEPT ![next] = page]
    BY Zenon
  <2>6. lane \in [PageNumbers -> PageRecords]
    BY <2>1, <2>3, <2>4, <2>5
  <2>7. pages' = [pages EXCEPT ![l] = lane]
    BY <2>1, <2>3, <2>5, Zenon
  <2>. QED  BY <2>2, <2>6, <2>7
<1>4. TypeOK'
  BY <1>1, <1>2, <1>3, Zenon DEF TypeOK, PageRecords
<1>5. MasterFollows'
  BY Zenon DEF MasterFollows
<1>. QED  BY <1>4, <1>5, AppendKeepsHistory, AppendKeepsCheckpoints, AppendKeepsLeaves, Zenon

LEMMA DepositStep ==
  ASSUME IInv, NEW n \in Notes, process_pair_forest_deposit(n)
  PROVE  /\ DepositLane[n] \in Lanes /\ <<n>> \in OutputLists
         /\ Appends(DepositLane[n], <<n>>) /\ notes' = notes \o <<n>>
         /\ n.value \in Nat /\ vault' = vault + n.value /\ vault \in Nat
<1>1. n.value \in Nat
  BY DEF Notes, Values
<1>2. Append(notes, n) = notes \o <<n>>
  BY AppendIsConcat, Zenon DEF IInv, TypeOK
<1>3. DepositLane[n] \in Lanes /\ <<n>> \in OutputLists
  BY LanesAssumption, Zenon DEF OutputLists
<1>. QED  BY <1>1, <1>2, <1>3, Zenon
     DEF process_pair_forest_deposit, Appends, DepositPage, IInv, TypeOK

\* A spend appends its outputs to the live lane, and the note it spends is one
\* that was created here: its anchor is a checkpoint of this forest.
LEMMA TerminalStep ==
  ASSUME IInv, NEW anchor \in Anchors, NEW n \in NotesUnder(anchor[2]),
         NEW outs \in OutputChoices, Total(outs) <= n.value,
         NEW k \in 0..Len(lanes[OutputLane[n.serial]]),
         process_pair_forest_terminal(ProofOf(anchor, n, outs, k))
  PROVE  /\ n \in Range(notes) /\ n \in Notes /\ outs \in OutputLists
         /\ OutputLane[n.serial] \in Lanes /\ n.serial \in Serials
         /\ Appends(OutputLane[n.serial], outs)
         /\ n.value - Total(outs) \in Values /\ n.value - Total(outs) <= vault
         /\ n.serial \notin markers
         /\ notes' = notes \o outs /\ markers' = markers \union {n.serial}
         /\ vault' = vault - (n.value - Total(outs)) /\ vault' \in Nat
<1>. DEFINE proof == ProofOf(anchor, n, outs, k)
<1>. USE DEF IInv
<1>1. /\ proof.anchor_sequence = anchor[1] /\ proof.anchor_root = anchor[2]
      /\ proof.nullifier = n.serial /\ proof.amount = n.value - Total(outs)
      /\ proof.outputs = outs
      /\ proof.snapshot = SubSeq(lanes[OutputLane[n.serial]], 1, k)
      /\ proof.afterstate = Append(SubSeq(lanes[OutputLane[n.serial]], 1, k), outs)
  BY Zenon DEF ProofOf
<1>2. /\ validate_pair_forest_request_accounts(proof) /\ SpendPage(OutputLane[n.serial])
      /\ plan_nullifier_marker_consumption(n.serial)
      /\ n.value - Total(outs) <= vault
      /\ verify_statement(proof)
      /\ lanes' = [lanes EXCEPT ![OutputLane[n.serial]] = proof.afterstate]
      /\ pages' = PagesAfter(OutputLane[n.serial], proof.afterstate)
      /\ markers' = markers \union {n.serial}
      /\ vault' = vault - (n.value - Total(outs))
      /\ notes' = notes \o outs
  BY <1>1, ZenonT(30) DEF process_pair_forest_terminal
<1>. HIDE DEF proof
<1>3. n \in Range(notes)
  <2>1. anchor[1] \in Nat
    <3>1. CASE anchor \in {<<j - 1, checkpoints[j].global_root>> : j \in DOMAIN checkpoints}
      <4>1. PICK j \in DOMAIN checkpoints : anchor = <<j - 1, checkpoints[j].global_root>>
        BY <3>1, Zenon
      <4>2. DOMAIN checkpoints = 1..Len(checkpoints) /\ Len(checkpoints) \in Nat
        BY LenProperties, Zenon DEF TypeOK
      <4>. QED  BY <4>1, <4>2
    <3>2. CASE anchor = <<Len(checkpoints), lanes>>
      BY <3>2, LenProperties, Zenon DEF TypeOK
    <3>3. CASE anchor \in (0..Len(checkpoints)) \X ForeignRoots
      BY <3>3, SMTT(30)
    <3>. QED  BY <3>1, <3>2, <3>3, Zenon DEF Anchors
  <2>2. anchor[1] < Len(checkpoints) /\ checkpoints[anchor[1] + 1].global_root = anchor[2]
    BY <1>1, <1>2, Zenon DEF validate_pair_forest_request_accounts
  <2>3. anchor[1] + 1 \in DOMAIN checkpoints
    BY <2>1, <2>2, LenProperties DEF TypeOK
  <2>. QED  BY <2>2, <2>3, CheckpointUnderLanes, Zenon DEF LeavesAreNotes
<1>4. n \in Notes
  BY <1>3, LenProperties, ElementOfSeq DEF Range, TypeOK
<1>5. outs \in OutputLists /\ Total(outs) \in Nat
  BY LanesAssumption, PairType, Zenon
<1>6. /\ n.serial \in Serials /\ n.value \in Values /\ n.value \in Nat
      /\ OutputLane[n.serial] \in Lanes
  BY <1>4, LanesAssumption DEF Notes, Values
<1>7. n.value - Total(outs) \in Values
  BY <1>5, <1>6, ValueAssumption DEF Values
<1>8. vault' \in Nat
  BY <1>2, <1>7, SMTT(30) DEF TypeOK, Values
<1>9. proof.afterstate = Append(lanes[OutputLane[n.serial]], outs)
  BY <1>1, <1>2, Zenon DEF verify_statement
<1>10. PageAccepted(OutputLane[n.serial], {"Absent", "Zeroed"})
  BY <1>2, Zenon DEF SpendPage, PageAccepted
<1>11. Appends(OutputLane[n.serial], outs)
  BY <1>2, <1>9, <1>10, Zenon DEF Appends
<1>. QED  BY <1>2, <1>3, <1>4, <1>5, <1>6, <1>7, <1>8, <1>11, Zenon
        DEF plan_nullifier_marker_consumption

LEMMA InvariantInit == Init => IInv
<1>. SUFFICES ASSUME Init PROVE IInv
  BY Zenon
<1>. USE DEF Init
<1>1. <<>> \in Trees /\ <<>> \in Seq(Trees) /\ Len(<<>>) = 0 /\ DOMAIN <<>> = {}
  BY DEF Trees
<1>2. pages \in [Lanes -> [PageNumbers -> [status : {"Absent", "Zeroed", "Written"}, roots : Seq(Trees)]]]
  BY <1>1, Zenon DEF Absent
<1>3. TypeOK
  <2>1. lanes \in [Lanes -> Trees]
    BY <1>1, Zenon
  <2>2. master \in [has_checkpoint : BOOLEAN, next_checkpoint_sequence : Nat,
                    last_checkpoint_lane_sequences : [Lanes -> Nat]]
    BY Zenon
  <2>3. \A S : <<>> \in Seq(S)
    OBVIOUS
  <2>. QED  BY <1>2, <2>1, <2>2, <2>3, Zenon DEF TypeOK
<1>4. HistoryKept
  BY Zenon DEF HistoryKept
<1>5. CheckpointsArePast /\ MasterFollows
  <2>1. CheckpointsArePast
    BY <1>1, Zenon DEF CheckpointsArePast
  <2>2. /\ master.has_checkpoint = FALSE /\ master.next_checkpoint_sequence = 0
        /\ checkpoints = <<>> /\ Len(checkpoints) = 0
    BY <1>1, Zenon
  <2>. QED  BY <2>1, <2>2, Zenon DEF MasterFollows
<1>6. ASSUME NEW x \in NotesUnder(lanes) PROVE FALSE
  <2>1. PICK l \in Lanes : \E i \in DOMAIN lanes[l] : TRUE
    BY UnderRoot, Zenon
  <2>. QED  BY <1>1, <2>1, Zenon
<1>7. LeavesAreNotes
  BY <1>6, Zenon DEF LeavesAreNotes
<1>. QED  BY <1>3, <1>4, <1>5, <1>7, Zenon DEF IInv

LEMMA CheckpointStep ==
  ASSUME IInv, process_pair_forest_checkpoint
  PROVE  IInv'
<1>. USE DEF IInv
<1>. DEFINE C == [checkpoint_sequence : Nat, global_root : [Lanes -> Trees],
                  lane_sequences : [Lanes -> Nat]]
            c == [checkpoint_sequence |-> master.next_checkpoint_sequence,
                  global_root |-> lanes, lane_sequences |-> LaneSequences]
            last == Len(checkpoints)
<1>1. /\ checkpoints' = Append(checkpoints, c)
      /\ master' = [has_checkpoint |-> TRUE,
                    next_checkpoint_sequence |-> master.next_checkpoint_sequence + 1,
                    last_checkpoint_lane_sequences |-> LaneSequences]
      /\ UNCHANGED <<initialized, lanes, pages, markers, vault, selected, notes>>
      /\ plan_pair_forest_checkpoint
  BY Zenon DEF process_pair_forest_checkpoint
<1>2. LaneSequences \in [Lanes -> Nat] /\ lanes \in [Lanes -> Trees]
  BY LenProperties, Zenon DEF LaneSequences, TypeOK, Trees
<1>3. /\ c \in C /\ checkpoints \in Seq(C)
      /\ c.checkpoint_sequence = last /\ c.global_root = lanes /\ c.lane_sequences = LaneSequences
  BY <1>2, Zenon DEF TypeOK, MasterFollows
<1>. HIDE DEF c, C
<1>4. /\ checkpoints' \in Seq(C) /\ Len(checkpoints') = last + 1
      /\ checkpoints'[last + 1] = c /\ last \in Nat
      /\ \A k \in 1..last : checkpoints'[k] = checkpoints[k]
      /\ DOMAIN checkpoints' = 1..(last + 1) /\ DOMAIN checkpoints = 1..last
  BY <1>1, <1>3, AppendProperties, LenProperties
<1>5. TypeOK'
  BY <1>1, <1>2, <1>4 DEF TypeOK, C
<1>6. HistoryKept' /\ LeavesAreNotes'
  <2>1. HistoryKept'
    BY <1>1, Zenon DEF HistoryKept, RetainedRoot
  <2>2. NotesUnder(lanes)' = NotesUnder(lanes) /\ Range(notes)' = Range(notes)
    BY <1>1 DEF NotesUnder, Range
  <2>. QED  BY <2>1, <2>2, Zenon DEF LeavesAreNotes
<1>7. MasterFollows'
  <2>1. checkpoints' # <<>>
    BY <1>4
  <2>2. /\ master'.has_checkpoint = TRUE
        /\ master'.next_checkpoint_sequence = last + 1
        /\ master'.last_checkpoint_lane_sequences = LaneSequences
    BY <1>1, Zenon DEF MasterFollows
  <2>. QED  BY <1>3, <1>4, <2>1, <2>2, Zenon DEF MasterFollows
<1>8. ASSUME NEW k \in DOMAIN checkpoints'
      PROVE  /\ checkpoints'[k].checkpoint_sequence = k - 1
             /\ \A l \in Lanes :
                  /\ checkpoints'[k].lane_sequences[l] <= Len(lanes[l])
                  /\ checkpoints'[k].global_root[l] =
                       SubSeq(lanes[l], 1, checkpoints'[k].lane_sequences[l])
             /\ k > 1 =>
                  /\ checkpoints'[k].lane_sequences # checkpoints'[k - 1].lane_sequences
                  /\ \A l \in Lanes : checkpoints'[k].lane_sequences[l] >=
                                        checkpoints'[k - 1].lane_sequences[l]
  <2>1. CASE k \in 1..last
    <3>1. k \in DOMAIN checkpoints /\ checkpoints'[k] = checkpoints[k]
      BY <1>4, <2>1, Zenon
    <3>2. k > 1 => checkpoints'[k - 1] = checkpoints[k - 1]
      BY <1>4, <2>1
    <3>. QED  BY <3>1, <3>2, Zenon DEF CheckpointsArePast
  <2>2. CASE k = last + 1
    <3>1. checkpoints'[k] = c
      BY <1>4, <2>2, Zenon
    <3>2. c.checkpoint_sequence = k - 1
      BY <1>3, <1>4, <2>2
    <3>3. ASSUME NEW l \in Lanes
          PROVE  /\ c.lane_sequences[l] <= Len(lanes[l])
                 /\ c.global_root[l] = SubSeq(lanes[l], 1, c.lane_sequences[l])
      <4>1. c.lane_sequences[l] = Len(lanes[l]) /\ c.global_root[l] = lanes[l]
        BY <1>3, Zenon DEF LaneSequences
      <4>2. lanes[l] \in Seq(OutputLists) /\ Len(lanes[l]) \in Nat
        BY <1>2, LenProperties, Zenon DEF Trees
      <4>. QED  BY <4>1, <4>2, WholePrefix
    <3>4. ASSUME k > 1
          PROVE  /\ c.lane_sequences # checkpoints'[k - 1].lane_sequences
                 /\ \A l \in Lanes : c.lane_sequences[l] >= checkpoints'[k - 1].lane_sequences[l]
      <4>1. last \in 1..last /\ k - 1 = last
        BY <1>4, <2>2, <3>4
      <4>2. checkpoints'[k - 1] = checkpoints[last] /\ last \in DOMAIN checkpoints
        BY <1>4, <4>1, Zenon
      <4>3. checkpoints # <<>>
        BY <1>4, <4>1
      <4>4. checkpoint_progressed(checkpoints[last].lane_sequences)
        BY <1>1, <4>3, Zenon DEF plan_pair_forest_checkpoint, MasterFollows
      <4>5. checkpoints[last].lane_sequences \in [Lanes -> Nat]
        BY <4>2, CheckpointType, Zenon
      <4>. DEFINE old == checkpoints[last].lane_sequences
      <4>. HIDE DEF old
      <4>6. /\ \A l \in Lanes : LaneSequences[l] >= old[l]
            /\ \E l \in Lanes : LaneSequences[l] > old[l]
        BY <4>4, Zenon DEF checkpoint_progressed, old
      <4>7. LaneSequences # old
        BY <1>2, <4>5, <4>6, SMTT(30) DEF old
      <4>. QED  BY <1>3, <4>2, <4>6, <4>7, Zenon DEF old
    <3>. QED  BY <3>1, <3>2, <3>3, <3>4, Zenon
  <2>. QED  BY <1>4, <2>1, <2>2
<1>9. CheckpointsArePast'
  BY <1>1, <1>8, Zenon DEF CheckpointsArePast
<1>. QED  BY <1>5, <1>6, <1>7, <1>9, Zenon

\* A step that changes only the registry, the vault or the initialized flag.
LEMMA OtherStep ==
  ASSUME IInv, UNCHANGED <<lanes, pages, master, checkpoints, markers, notes>>,
         initialized' \in BOOLEAN, selected' \in BOOLEAN, vault' \in Nat
  PROVE  IInv'
<1>. USE DEF IInv
<1>1. TypeOK'
  BY Zenon DEF TypeOK
<1>2. HistoryKept' /\ LeavesAreNotes'
  <2>1. HistoryKept'
    BY Zenon DEF HistoryKept, RetainedRoot
  <2>2. NotesUnder(lanes)' = NotesUnder(lanes) /\ Range(notes)' = Range(notes)
    BY DEF NotesUnder, Range
  <2>. QED  BY <2>1, <2>2, Zenon DEF LeavesAreNotes
<1>3. CheckpointsArePast' /\ MasterFollows'
  BY Zenon DEF CheckpointsArePast, MasterFollows
<1>. QED  BY <1>1, <1>2, <1>3, Zenon

LEMMA InvariantNext ==
  ASSUME IInv, [Next]_vars
  PROVE  IInv'
<1>1. CASE process_pair_forest_initialize
  BY <1>1, OtherStep, Zenon DEF process_pair_forest_initialize, IInv, TypeOK
<1>2. ASSUME NEW n \in Notes, process_pair_forest_deposit(n) PROVE IInv'
  <2>1. /\ DepositLane[n] \in Lanes /\ <<n>> \in OutputLists
        /\ Appends(DepositLane[n], <<n>>) /\ notes' = notes \o <<n>>
        /\ n.value \in Nat /\ vault' = vault + n.value /\ vault \in Nat
    BY <1>2, DepositStep, Zenon
  <2>2. UNCHANGED <<initialized, master, checkpoints, markers, selected>>
    BY <1>2, Zenon DEF process_pair_forest_deposit
  <2>3. vault' \in Nat /\ markers' \subseteq Serials
    BY <2>1, <2>2 DEF IInv, TypeOK
  <2>. QED  BY <2>1, <2>2, <2>3, AppendKeepsInvariant, Zenon
<1>3. CASE process_pair_forest_checkpoint
  BY <1>3, CheckpointStep, Zenon
<1>4. ASSUME NEW anchor \in Anchors, NEW n \in NotesUnder(anchor[2]),
             NEW outs \in {o \in OutputChoices : Total(o) <= n.value},
             NEW k \in 0..Len(lanes[OutputLane[n.serial]]),
             process_pair_forest_terminal(ProofOf(anchor, n, outs, k))
      PROVE  IInv'
  <2>1. /\ outs \in OutputLists /\ OutputLane[n.serial] \in Lanes /\ n.serial \in Serials
        /\ Appends(OutputLane[n.serial], outs) /\ notes' = notes \o outs
        /\ markers' = markers \union {n.serial} /\ vault' \in Nat
    BY <1>4, TerminalStep, Zenon
  <2>2. UNCHANGED <<initialized, master, checkpoints, selected>>
    BY <1>4, Zenon DEF process_pair_forest_terminal
  <2>3. markers' \subseteq Serials
    BY <2>1, Zenon DEF IInv, TypeOK
  <2>. QED  BY <2>1, <2>2, <2>3, AppendKeepsInvariant, Zenon
<1>5. CASE ChangeRegistry
  BY <1>5, OtherStep, Zenon DEF ChangeRegistry, IInv, TypeOK
<1>6. ASSUME NEW v \in Donations, Donate(v) PROVE IInv'
  <2>1. v \in Nat
    BY LanesAssumption DEF Values
  <2>2. vault' \in Nat
    BY <1>6, <2>1 DEF Donate, IInv, TypeOK
  <2>. QED  BY <1>6, <2>2, OtherStep, Zenon DEF Donate, IInv, TypeOK
<1>7. CASE UNCHANGED vars
  BY <1>7, OtherStep, Zenon DEF vars, IInv, TypeOK
<1>. QED  BY <1>1, <1>2, <1>3, <1>4, <1>5, <1>6, <1>7, Zenon DEF Next

-----------------------------------------------------------------------------
\* The lanes, their history pages, the checkpoints, the master and the notes
\* stay consistent with each other in every reachable state (IInv).
THEOREM ForestInvariant == Spec => []IInv
<1>1. Init => IInv
  BY InvariantInit, Zenon
<1>2. IInv /\ [Next]_vars => IInv'
  BY InvariantNext, Zenon
<1>. QED  BY <1>1, <1>2, PTL DEF Spec

\* CheckpointsCoherent: whatever is appended after a checkpoint, its roots are
\* the roots its lanes had, and the lanes' pages retain them.
THEOREM ForestCheckpointsCoherent == Spec => []CheckpointsCoherent
<1>1. IInv => CheckpointsCoherent
  <2>. SUFFICES ASSUME IInv PROVE CheckpointsCoherent
    BY Zenon
  <2>1. ASSUME NEW k \in DOMAIN checkpoints, NEW l \in Lanes, lanes[l] # <<>>
        PROVE  RetainedRoot(l, checkpoints[k].lane_sequences[l], checkpoints[k].global_root[l])
    <3>. DEFINE seq == checkpoints[k].lane_sequences[l]
    <3>1. seq \in Nat /\ Len(lanes[l]) \in Nat
      BY CheckpointType, LenProperties, Zenon DEF IInv, TypeOK, Trees
    <3>2. seq <= Len(lanes[l]) /\ checkpoints[k].global_root[l] = SubSeq(lanes[l], 1, seq)
      BY Zenon DEF IInv, CheckpointsArePast
    <3>3. seq \in 0..Len(lanes[l])
      BY <3>1, <3>2
    <3>4. RetainedRoot(l, seq, SubSeq(lanes[l], 1, seq))
      BY <2>1, <3>3, Zenon DEF IInv, HistoryKept
    <3>. QED  BY <3>2, <3>4, Zenon
  <2>. QED  BY <2>1, Zenon DEF CheckpointsCoherent, IInv, CheckpointsArePast
<1>. QED  BY <1>1, ForestInvariant, PTL

\* ImplementsLedger: for every number of lanes, capacity, page size and set of
\* notes, the forest is a shielded ledger.  A spend is anchored at a checkpoint
\* of this forest, so the note it spends is one that was created here.
THEOREM ForestImplementsLedger == Spec => ImplementsLedger
<1>1. Init => Ledger!Init
  BY Zenon DEF Init, Ledger!Init
<1>2. ASSUME IInv, [Next]_vars
      PROVE  [Ledger!Next]_(Ledger!vars)
  <2>1. CASE \/ process_pair_forest_initialize \/ process_pair_forest_checkpoint
             \/ ChangeRegistry \/ UNCHANGED vars
    BY <2>1, Zenon DEF process_pair_forest_initialize, process_pair_forest_checkpoint,
                ChangeRegistry, vars, Ledger!vars
  <2>2. ASSUME NEW n \in Notes, process_pair_forest_deposit(n) PROVE Ledger!Next
    <3>1. Ledger!Deposit(n)
      BY <2>2, Zenon DEF process_pair_forest_deposit, Ledger!Deposit
    <3>. QED  BY <3>1, Zenon DEF Ledger!Next, Ledger!Notes, Notes, Ledger!Values, Values
  <2>3. ASSUME NEW anchor \in Anchors, NEW n \in NotesUnder(anchor[2]),
               NEW outs \in {o \in OutputChoices : Total(o) <= n.value},
               NEW k \in 0..Len(lanes[OutputLane[n.serial]]),
               process_pair_forest_terminal(ProofOf(anchor, n, outs, k))
        PROVE  Ledger!Next
    <3>. DEFINE amount == n.value - Total(outs)
    <3>1. /\ n \in Range(notes) /\ n \in Notes /\ outs \in OutputLists
          /\ amount \in Values /\ amount <= vault
          /\ n.serial \notin markers
          /\ notes' = notes \o outs /\ markers' = markers \union {n.serial}
          /\ vault' = vault - amount
      BY <1>2, <2>3, TerminalStep, Zenon
    <3>2. n.value = amount + Total(outs)
      <4>1. n.value \in Nat /\ Total(outs) \in Nat
        BY <3>1, PairType DEF Notes, Values
      <4>. QED  BY <4>1
    <3>. HIDE DEF amount
    <3>3. Ledger!Spend(n, outs, amount)
      BY <3>1, <3>2, Zenon DEF Ledger!Spend, Ledger!Range, Range, Ledger!Total, Total
    <3>. QED  BY <3>1, <3>3, Zenon DEF Ledger!Next, Ledger!Notes, Notes, Ledger!Values, Values,
              Ledger!OutputLists, OutputLists
  <2>4. ASSUME NEW v \in Donations, Donate(v) PROVE Ledger!Next
    BY <2>4, LanesAssumption, Zenon DEF Donate, Ledger!Next, Ledger!Donate, Ledger!Values, Values
  <2>. QED  BY <1>2, <2>1, <2>2, <2>3, <2>4, Zenon DEF Next
<1>3. IInv /\ [Next]_vars => [Ledger!Next]_(Ledger!vars)
  BY <1>2, Zenon
<1>. QED  BY <1>1, <1>3, ForestInvariant, PTL DEF Spec, ImplementsLedger, Ledger!Spec

-----------------------------------------------------------------------------
(***************************************************************************)
(* Notes stay spendable.                                                   *)
(***************************************************************************)
\* Every note stays a leaf, and the notes of the new pair become leaves.
LEMMA AppendAddsLeaves ==
  ASSUME TypeOK, NotesAreLeaves, NEW l \in Lanes, NEW pair \in OutputLists,
         Appends(l, pair), notes' = notes \o pair
  PROVE  NotesAreLeaves'
<1>0. /\ lanes[l] \in Seq(OutputLists) /\ lanes \in [Lanes -> Trees]
      /\ lanes' = [lanes EXCEPT ![l] = Append(lanes[l], pair)]
  BY LaneFacts, Zenon DEF TypeOK, Trees
<1>1. Range(notes') = Range(notes) \union Range(pair)
  BY PairType, RangeConcat DEF TypeOK
<1>2. PICK s \in Seq(OutputLists) : s = lanes[l]
  BY <1>0, Zenon
<1>3. PICK t : t = Append(s, pair)
  BY Zenon
<1>4. /\ \A j \in DOMAIN s : j \in DOMAIN t /\ t[j] = s[j]
      /\ Len(s) + 1 \in DOMAIN t /\ t[Len(s) + 1] = pair
  <2>1. /\ t \in Seq(OutputLists) /\ Len(t) = Len(s) + 1 /\ t[Len(s) + 1] = pair
        /\ \A j \in 1..Len(s) : t[j] = s[j]
    BY <1>3, AppendProperties
  <2>2. DOMAIN s = 1..Len(s) /\ DOMAIN t = 1..(Len(s) + 1) /\ Len(s) \in Nat
    BY <2>1, LenProperties, Zenon
  <2>. QED  BY <2>1, <2>2
<1>5. lanes'[l] = t /\ \A m \in Lanes : m # l => lanes'[m] = lanes[m]
  BY <1>0, <1>2, <1>3, Zenon
<1>6. ASSUME NEW x \in Range(pair) PROVE x \in NotesUnder(lanes')
  BY <1>4, <1>5, UnderRoot DEF Range
<1>7. ASSUME NEW x \in NotesUnder(lanes) PROVE x \in NotesUnder(lanes')
  <2>1. PICK m \in Lanes : \E i \in DOMAIN lanes[m] : \E j \in DOMAIN lanes[m][i] : x = lanes[m][i][j]
    BY UnderRoot
  <2>2. PICK i \in DOMAIN lanes[m] : \E j \in DOMAIN lanes[m][i] : x = lanes[m][i][j]
    BY <2>1, Zenon
  <2>3. i \in DOMAIN lanes'[m] /\ lanes'[m][i] = lanes[m][i]
    BY <1>2, <1>4, <1>5, <2>2, Zenon
  <2>. QED  BY <2>2, <2>3, UnderRoot, Zenon
<1>8. NotesUnder(lanes)' = NotesUnder(lanes')
  BY Zenon DEF NotesUnder, Range
<1>. QED  BY <1>1, <1>6, <1>7, <1>8, Zenon DEF NotesAreLeaves

\* The page of the new root ends with it.
LEMMA AppendEndsPage ==
  ASSUME TypeOK, NEW l \in Lanes, NEW pair \in OutputLists, Appends(l, pair)
  PROVE  LET next == PageOf(Len(lanes[l]) + 1)
         IN Len(pages'[l][next].roots) = SlotOf(Len(lanes[l]) + 1) + 1
<1>. DEFINE len == Len(lanes[l])
            root == Append(lanes[l], pair)
            here == PageOf(len)
            next == PageOf(len + 1)
            roots == pages'[l][next].roots
<1>0. /\ len \in Nat /\ root \in Trees
      /\ here \in PageNumbers /\ pages[l][here] \in PageRecords
  BY LaneFacts, SMTT(30) DEF TypeOK, PageRecords
<1>1. \/ /\ lanes[l] = <<>> /\ next = 0 /\ roots = <<lanes[l], root>>
      \/ /\ next = here /\ validate_lane_current_page(l)
         /\ roots = Append(pages[l][here].roots, root)
      \/ /\ next # here /\ validate_lane_current_page(l) /\ roots = <<root>>
  BY WrittenPage, Zenon
<1>2. /\ SlotOf(len) \in Nat /\ here \in Nat
      /\ \/ next = here /\ SlotOf(len + 1) = SlotOf(len) + 1
         \/ next = here + 1 /\ SlotOf(len + 1) = 0
  BY <1>0, LocationType, NextLocation, Zenon
<1>3. lanes[l] = <<>> => len = 0
  OBVIOUS
<1>4. PICK old \in Seq(Trees) : old = pages[l][here].roots
  BY <1>0, Zenon DEF PageRecords
<1>5. validate_lane_current_page(l) => Len(old) = SlotOf(len) + 1
  BY <1>4, Zenon DEF validate_lane_current_page
<1>. SUFFICES Len(roots) = SlotOf(len + 1) + 1
  BY Zenon
<1>. HIDE DEF len, root, here, next, roots
<1>6. CASE lanes[l] = <<>> /\ roots = <<lanes[l], root>>
  <2>1. SlotOf(len + 1) = 1 /\ Len(roots) = 2
    BY <1>3, <1>6, PageOfZero, Zenon
  <2>. QED  BY <2>1
<1>7. CASE next = here /\ validate_lane_current_page(l) /\ roots = Append(old, root)
  <2>1. SlotOf(len + 1) = SlotOf(len) + 1
    BY <1>2, <1>7
  <2>2. Len(roots) = Len(old) + 1
    BY <1>0, <1>4, <1>7, AppendProperties
  <2>. QED  BY <1>5, <1>7, <2>1, <2>2, Zenon
<1>8. CASE next # here /\ roots = <<root>>
  <2>1. SlotOf(len + 1) = 0 /\ Len(roots) = 1
    BY <1>2, <1>8, Zenon
  <2>. QED  BY <2>1
<1>. QED  BY <1>1, <1>4, <1>6, <1>7, <1>8, Zenon

LEMMA AppendKeepsPagesEnd ==
  ASSUME TypeOK, PagesEnd, NEW l \in Lanes, NEW pair \in OutputLists, Appends(l, pair)
  PROVE  PagesEnd'
<1>. DEFINE len == Len(lanes[l])
            here == PageOf(len)
            next == PageOf(len + 1)
            E(m, tree, page) ==
              IF tree = <<>> THEN \A p \in PageNumbers : page[p].status # "Written"
              ELSE /\ Len(page[PageOf(Len(tree))].roots) = SlotOf(Len(tree)) + 1
                   /\ \A p \in PageNumbers :
                        p > PageOf(Len(tree)) => page[p].status # "Written"
<1>1. PagesEnd <=> \A m \in Lanes : E(m, lanes[m], pages[m])
  BY Zenon DEF PagesEnd
<1>2. PagesEnd' <=> \A m \in Lanes : E(m, lanes'[m], pages'[m])
  BY Zenon DEF PagesEnd
<1>3. /\ lanes \in [Lanes -> Trees] /\ lanes[l] \in Trees /\ len \in Nat
      /\ Append(lanes[l], pair) \in Trees /\ Len(Append(lanes[l], pair)) = len + 1
      /\ lanes' = [lanes EXCEPT ![l] = Append(lanes[l], pair)]
      /\ here \in PageNumbers /\ next \in PageNumbers
      /\ pages \in [Lanes -> [PageNumbers -> PageRecords]]
  BY LaneFacts, SMTT(30) DEF TypeOK, PageRecords
<1>4. pages' = [pages EXCEPT ![l] = [@ EXCEPT ![next] = pages'[l][next]]]
  BY WrittenPage, Zenon
<1>5. Len(pages'[l][next].roots) = SlotOf(len + 1) + 1
  BY AppendEndsPage, Zenon
<1>6. here \in Nat /\ next \in Nat /\ next >= here
  <2>1. here \in Nat /\ (next = here \/ next = here + 1)
    BY <1>3, LocationType, NextLocation, Zenon
  <2>. HIDE DEF here, next
  <2>. QED  BY <2>1
<1>7. PICK tree \in Trees : tree = lanes'[l]
  BY <1>3, Zenon
<1>8. tree # <<>> /\ Len(tree) = len + 1
  <2>1. Len(tree) = len + 1
    BY <1>3, <1>7, Zenon
  <2>. QED  BY <1>3, <2>1
<1>9. PICK pg : pg = pages'[l][next]
  BY Zenon
<1>10. /\ \A m \in Lanes : m # l => lanes'[m] = lanes[m] /\ pages'[m] = pages[m]
       /\ \A p \in PageNumbers : p # next => pages'[l][p] = pages[l][p]
  <2>1. pages' = [pages EXCEPT ![l] = [@ EXCEPT ![next] = pg]]
    BY <1>4, <1>9, Zenon
  <2>. HIDE DEF len, here, next
  <2>. QED  BY <1>3, <2>1, Zenon
<1>11. \A p \in PageNumbers : p > next => pages[l][p].status # "Written"
  <2>1. E(l, lanes[l], pages[l])
    BY <1>1, Zenon
  <2>. HIDE DEF next
  <2>2. \A p \in PageNumbers : p > next => p > here
    BY <1>6, LanesAssumption DEF PageNumbers
  <2>. QED  BY <2>1, <2>2, Zenon
<1>12. E(l, lanes'[l], pages'[l])
  <2>1. \A p \in PageNumbers : p > next => pages'[l][p].status # "Written"
    <3>1. \A p \in PageNumbers : p > next => p # next
      BY <1>6
    <3>. QED  BY <1>10, <1>11, <3>1, Zenon
  <2>. QED  BY <1>5, <1>7, <1>8, <2>1, Zenon
<1>. QED  BY <1>1, <1>2, <1>10, <1>12, ZenonT(30)

\* The three conjuncts together.
LEMMA SpendInvNext ==
  ASSUME SpendInv, [Next]_vars PROVE SpendInv'
<1>1. IInv /\ TypeOK /\ NotesAreLeaves /\ PagesEnd /\ IInv'
  BY InvariantNext, Zenon DEF SpendInv, IInv
<1>2. ASSUME NEW l \in Lanes, NEW pair \in OutputLists, Appends(l, pair), notes' = notes \o pair
      PROVE  SpendInv'
  BY <1>1, <1>2, AppendAddsLeaves, AppendKeepsPagesEnd, Zenon DEF SpendInv
<1>3. ASSUME UNCHANGED <<lanes, pages, notes>> PROVE SpendInv'
  <2>1. NotesUnder(lanes)' = NotesUnder(lanes) /\ Range(notes)' = Range(notes)
    BY <1>3 DEF NotesUnder, Range
  <2>2. NotesAreLeaves'
    BY <1>1, <2>1, Zenon DEF NotesAreLeaves
  <2>3. PagesEnd'
    BY <1>1, <1>3, Zenon DEF PagesEnd
  <2>. QED  BY <1>1, <2>2, <2>3, Zenon DEF SpendInv
<1>4. ASSUME NEW n \in Notes, process_pair_forest_deposit(n) PROVE SpendInv'
  <2>1. /\ DepositLane[n] \in Lanes /\ <<n>> \in OutputLists
        /\ Appends(DepositLane[n], <<n>>) /\ notes' = notes \o <<n>>
    BY <1>1, <1>4, DepositStep, Zenon
  <2>. QED  BY <1>2, <2>1, Zenon
<1>5. ASSUME NEW anchor \in Anchors, NEW n \in NotesUnder(anchor[2]),
             NEW outs \in {o \in OutputChoices : Total(o) <= n.value},
             NEW k \in 0..Len(lanes[OutputLane[n.serial]]),
             process_pair_forest_terminal(ProofOf(anchor, n, outs, k))
      PROVE  SpendInv'
  <2>1. outs \in OutputChoices /\ Total(outs) <= n.value
    BY Zenon
  <2>2. /\ outs \in OutputLists /\ OutputLane[n.serial] \in Lanes
        /\ Appends(OutputLane[n.serial], outs) /\ notes' = notes \o outs
    BY <1>1, <1>5, <2>1, TerminalStep, ZenonT(30)
  <2>. QED  BY <1>2, <2>2, Zenon
<1>6. CASE \/ process_pair_forest_initialize \/ process_pair_forest_checkpoint
           \/ ChangeRegistry \/ UNCHANGED vars
  BY <1>3, <1>6, Zenon DEF process_pair_forest_initialize, process_pair_forest_checkpoint,
                    ChangeRegistry, vars
<1>7. ASSUME NEW v \in Donations, Donate(v) PROVE SpendInv'
  BY <1>3, <1>7, Zenon DEF Donate
<1>. QED  BY <1>4, <1>5, <1>6, <1>7, Zenon DEF Next

LEMMA SpendInvInit == Init => SpendInv
<1>. SUFFICES ASSUME Init PROVE SpendInv
  BY Zenon
<1>1. NotesAreLeaves
  BY DEF Init, NotesAreLeaves, Range
<1>2. PagesEnd
  BY Zenon DEF Init, PagesEnd, Absent
<1>. QED  BY <1>1, <1>2, InvariantInit, Zenon DEF SpendInv

\* A lane with room accepts a deposit: its pages are as an append expects them.
LEMMA LaneAcceptsDeposit ==
  ASSUME SpendInv, NEW l \in Lanes, Len(lanes[l]) < PairCapacity
  PROVE  DepositPage(l)
<1>. DEFINE len == Len(lanes[l])
            here == PageOf(len)
<1>1. /\ lanes[l] \in Seq(OutputLists) /\ len \in Nat
      /\ pages \in [Lanes -> [PageNumbers -> PageRecords]]
  BY LenProperties, Zenon DEF SpendInv, IInv, TypeOK, Trees, PageRecords
<1>2. len \in 0..PairCapacity /\ len + 1 \in 0..PairCapacity /\ 0 \in 0..PairCapacity
  BY <1>1, LanesAssumption
<1>3. here \in PageNumbers /\ PageOf(len + 1) \in PageNumbers /\ 0 \in PageNumbers
  BY <1>2, PageExists, PageOfZero, Zenon
<1>4. CASE lanes[l] = <<>>
  <2>1. pages[l][0].status # "Written" /\ pages[l][0] \in PageRecords
    BY <1>1, <1>3, <1>4, Zenon DEF SpendInv, PagesEnd
  <2>2. pages[l][0].status \in {"Absent", "Zeroed"}
    BY <2>1, Zenon DEF PageRecords
  <2>. QED  BY <1>4, <2>2, Zenon DEF DepositPage, PageAccepted
<1>5. CASE lanes[l] # <<>>
  <2>1. /\ Len(pages[l][here].roots) = SlotOf(len) + 1
        /\ \A p \in PageNumbers : p > here => pages[l][p].status # "Written"
    BY <1>5, Zenon DEF SpendInv, PagesEnd
  <2>2. RetainedRoot(l, len, lanes[l])
    <3>1. len \in 0..len /\ SubSeq(lanes[l], 1, len) = lanes[l]
      BY <1>1, WholePrefix
    <3>2. RetainedRoot(l, len, SubSeq(lanes[l], 1, len))
      BY <1>5, <3>1, Zenon DEF SpendInv, IInv, HistoryKept
    <3>. QED  BY <3>1, <3>2, Zenon
  <2>3. validate_lane_current_page(l)
    BY <2>1, <2>2, Zenon DEF validate_lane_current_page
  <2>4. CASE ~Rolls(l)
    BY <2>3, <2>4, Zenon DEF DepositPage, PageAccepted
  <2>5. CASE Rolls(l)
    <3>1. PageOf(len + 1) # here
      BY <2>5, Zenon DEF Rolls
    <3>2. PageOf(len + 1) = here + 1 /\ SlotOf(len + 1) = 0 /\ here \in Nat
      BY <1>1, <3>1, NextLocation, LocationType, Zenon
    <3>3. SlotOf(len) + 1 = PageCapacity
      BY <1>1, <3>2, LastSlot, Zenon
    <3>4. pages[l][here + 1].status # "Written" /\ pages[l][here + 1] \in PageRecords
      <4>. HIDE DEF here
      <4>. QED  BY <1>1, <1>3, <2>1, <3>2
    <3>5. pages[l][here + 1].status \in {"Absent", "Zeroed"}
      BY <3>4, Zenon DEF PageRecords
    <3>. QED  BY <2>1, <2>3, <2>5, <3>3, <3>5, Zenon DEF DepositPage, PageAccepted
  <2>. QED  BY <2>4, <2>5, Zenon
<1>. QED  BY <1>4, <1>5, Zenon

\* When no lane went on since the last checkpoint, it covers every note;
\* otherwise another one can be taken.
LEMMA CheckpointCovers ==
  ASSUME SpendInv, NEW n \in Range(notes)
  PROVE  \/ /\ master.has_checkpoint
            /\ n \in NotesUnder(checkpoints[Len(checkpoints)].global_root)
         \/ /\ n \in NotesUnder(lanes)
            /\ master.next_checkpoint_sequence < CheckpointMax => plan_pair_forest_checkpoint
<1>1. IInv /\ TypeOK /\ n \in NotesUnder(lanes)
  BY Zenon DEF SpendInv, IInv, NotesAreLeaves
<1>2. CASE ~master.has_checkpoint
  BY <1>1, <1>2, Zenon DEF plan_pair_forest_checkpoint
<1>3. CASE master.has_checkpoint
  <2>. DEFINE last == Len(checkpoints)
              old == checkpoints[last].lane_sequences
  <2>1. checkpoints # <<>> /\ master.last_checkpoint_lane_sequences = old
    BY <1>1, <1>3, Zenon DEF IInv, MasterFollows
  <2>2. last \in DOMAIN checkpoints
    <3>1. PICK C : checkpoints \in Seq(C)
      BY <1>1, Zenon DEF TypeOK
    <3>. QED  BY <2>1, <3>1, LenProperties, EmptySeq
  <2>3. /\ old \in [Lanes -> Nat] /\ checkpoints[last].global_root \in [Lanes -> Trees]
    BY <1>1, <2>2, CheckpointType, Zenon
  <2>4. \A l \in Lanes : /\ old[l] <= Len(lanes[l])
                         /\ checkpoints[last].global_root[l] = SubSeq(lanes[l], 1, old[l])
    BY <1>1, <2>2, Zenon DEF IInv, CheckpointsArePast
  <2>5. /\ lanes \in [Lanes -> Trees] /\ \A l \in Lanes : Len(lanes[l]) \in Nat
        /\ \A l \in Lanes : LaneSequences[l] = Len(lanes[l])
    BY <1>1, LenProperties, Zenon DEF TypeOK, Trees, LaneSequences
  <2>. HIDE DEF old
  <2>6. CASE \E l \in Lanes : Len(lanes[l]) > old[l]
    <3>1. checkpoint_progressed(old)
      BY <2>3, <2>4, <2>5, <2>6, Zenon DEF checkpoint_progressed
    <3>. QED  BY <1>1, <2>1, <3>1, Zenon DEF plan_pair_forest_checkpoint, old
  <2>7. CASE \A l \in Lanes : ~(Len(lanes[l]) > old[l])
    <3>1. \A l \in Lanes : old[l] = Len(lanes[l])
      BY <2>3, <2>4, <2>5, <2>7
    <3>2. \A l \in Lanes : SubSeq(lanes[l], 1, Len(lanes[l])) = lanes[l]
      BY <2>5, WholePrefix, Zenon DEF Trees
    <3>3. checkpoints[last].global_root = lanes
      <4>. HIDE DEF last
      <4>1. \A l \in Lanes : checkpoints[last].global_root[l] = lanes[l]
        BY <2>4, <3>1, <3>2, Zenon
      <4>. QED  BY <2>3, <2>5, <4>1
    <3>. QED  BY <1>1, <1>3, <3>3, Zenon
  <2>. QED  BY <2>6, <2>7, Zenon
<1>. QED  BY <1>2, <1>3, Zenon

\* NoteNeverStranded: whatever was appended and checkpointed before, an unspent
\* note is under the last checkpoint or the next one can cover it, and its
\* output lane takes the spend or a deposit that opens a page for it, but for
\* the notes the code strands: those of value 1 and those with a full lane.
THEOREM ForestNotesNeverStranded == Spec => []NoteNeverStranded
<1>1. ASSUME SpendInv PROVE NoteNeverStranded
  <2>1. ASSUME NEW n \in Range(notes),
               \/ SpendPage(OutputLane[n.serial])
               \/ Len(lanes[OutputLane[n.serial]]) + 1 < PairCapacity
        PROVE  SpendPage(OutputLane[n.serial]) \/ DepositPage(OutputLane[n.serial])
    <3>1. n \in Notes
      BY <1>1, LenProperties, ElementOfSeq DEF Range, SpendInv, IInv, TypeOK
    <3>2. OutputLane[n.serial] \in Lanes
      BY <3>1, LanesAssumption, Zenon DEF Notes
    <3>3. Len(lanes[OutputLane[n.serial]]) \in Nat
      BY <1>1, <3>2, LenProperties, Zenon DEF SpendInv, IInv, TypeOK, Trees
    <3>4. CASE Len(lanes[OutputLane[n.serial]]) + 1 < PairCapacity
      <4>1. Len(lanes[OutputLane[n.serial]]) < PairCapacity
        BY <3>3, <3>4, LanesAssumption
      <4>. QED  BY <1>1, <3>2, <4>1, LaneAcceptsDeposit, Zenon
    <3>. QED  BY <2>1, <3>4, Zenon
  <2>. QED  BY <1>1, <2>1, CheckpointCovers, Zenon DEF NoteNeverStranded
<1>2. Init => SpendInv
  BY SpendInvInit, Zenon
<1>3. SpendInv /\ [Next]_vars => SpendInv'
  BY SpendInvNext, Zenon
<1>. QED  BY <1>1, <1>2, <1>3, PTL DEF Spec
=============================================================================
