---------------------------- MODULE PoolV1Proofs ----------------------------
(***************************************************************************)
(* Proofs about PoolV1, for every capacity, page size, note set and bound: *)
(* its invariants, that it implements the shielded ledger, and that the    *)
(* ledger, hence the Pool, is solvent.                                     *)
(***************************************************************************)
EXTENDS PoolV1Ledger, TLAPS

(***************************************************************************)
(* Facts about sequences.                                                  *)
(***************************************************************************)
LEMMA LenProperties ==
  ASSUME NEW S, NEW seq \in Seq(S)
  PROVE  Len(seq) \in Nat /\ seq \in [1..Len(seq) -> S] /\ DOMAIN seq = 1..Len(seq)
OBVIOUS

LEMMA ElementOfSeq ==
  ASSUME NEW S, NEW seq \in Seq(S), NEW i \in 1..Len(seq) PROVE seq[i] \in S
OBVIOUS

LEMMA SeqEqual ==
  ASSUME NEW S, NEW a \in Seq(S), NEW b \in Seq(S), Len(a) = Len(b),
         \A i \in 1..Len(a) : a[i] = b[i]
  PROVE  a = b
OBVIOUS

LEMMA EmptySeq ==
  ASSUME NEW S
  PROVE  /\ <<>> \in Seq(S) /\ Len(<<>>) = 0
         /\ \A seq \in Seq(S) : seq # <<>> => Len(seq) \in Nat \ {0}
OBVIOUS

LEMMA AppendProperties ==
  ASSUME NEW S, NEW seq \in Seq(S), NEW x \in S
  PROVE  /\ Append(seq, x) \in Seq(S) /\ Len(Append(seq, x)) = Len(seq) + 1
         /\ \A i \in 1..Len(seq) : Append(seq, x)[i] = seq[i]
         /\ Append(seq, x)[Len(seq) + 1] = x
OBVIOUS

LEMMA ConcatProperties ==
  ASSUME NEW S, NEW a \in Seq(S), NEW b \in Seq(S)
  PROVE  /\ a \o b \in Seq(S) /\ Len(a \o b) = Len(a) + Len(b)
         /\ \A i \in 1..(Len(a) + Len(b)) :
              (a \o b)[i] = IF i <= Len(a) THEN a[i] ELSE b[i - Len(a)]
OBVIOUS

LEMMA ConcatEmptySeq ==
  ASSUME NEW S, NEW seq \in Seq(S) PROVE seq \o <<>> = seq /\ <<>> \o seq = seq
OBVIOUS

LEMMA AppendIsConcat ==
  ASSUME NEW S, NEW seq \in Seq(S), NEW x \in S PROVE Append(seq, x) = seq \o <<x>>
OBVIOUS

LEMMA SubSeqProperties ==
  ASSUME NEW S, NEW s, NEW m \in Int, NEW n \in Int, \A i \in m..n : s[i] \in S
  PROVE  /\ SubSeq(s, m, n) \in Seq(S)
         /\ Len(SubSeq(s, m, n)) = IF m <= n THEN n - m + 1 ELSE 0
         /\ \A i \in 1..(n - m + 1) : SubSeq(s, m, n)[i] = s[m + i - 1]
OBVIOUS

LEMMA SubSeqEmpty ==
  ASSUME NEW s, NEW m \in Int, NEW n \in Int, n < m PROVE SubSeq(s, m, n) = <<>>
OBVIOUS

-----------------------------------------------------------------------------
(***************************************************************************)
(* Sequences of notes and roots.                                           *)
(***************************************************************************)
\* What a spend or a deposit appends is one or two notes.
LEMMA OutputType ==
  ASSUME NEW outs \in OutputLists
  PROVE  outs \in Seq(Notes) /\ Len(outs) \in {1, 2}
<1>1. CASE outs \in {<<n>> : n \in Notes}
  <2>1. PICK n \in Notes : outs = <<n>>
    BY <1>1, Zenon
  <2>. QED  BY <2>1
<1>2. CASE outs \in Notes \X Notes
  <2>1. PICK a \in Notes, b \in Notes : outs = <<a, b>>
    BY <1>2
  <2>. QED  BY <2>1
<1>. QED  BY <1>1, <1>2, Zenon DEF OutputLists

\* The empty list, and lists of one note.
LEMMA OneNote ==
  ASSUME NEW n \in Notes
  PROVE  <<n>> \in OutputLists
BY Zenon DEF OutputLists

\* A prefix of a list of notes is one, and has its length.
LEMMA PrefixType ==
  ASSUME NEW S, NEW s \in Seq(S), NEW i \in 0..Len(s)
  PROVE  /\ SubSeq(s, 1, i) \in Seq(S)
         /\ Len(SubSeq(s, 1, i)) = i
         /\ \A j \in 1..i : SubSeq(s, 1, i)[j] = s[j]
<1>1. \A j \in 1..i : s[j] \in S
  BY LenProperties, ElementOfSeq
<1>. QED  BY <1>1, SubSeqProperties, LenProperties

\* A prefix of what was there is a prefix of what is there after an append.
LEMMA PrefixOfConcat ==
  ASSUME NEW S, NEW s \in Seq(S), NEW t \in Seq(S), NEW i \in 0..Len(s)
  PROVE  SubSeq(s \o t, 1, i) = SubSeq(s, 1, i)
<1>1. /\ s \o t \in Seq(S)
      /\ Len(s \o t) = Len(s) + Len(t)
      /\ \A j \in 1..Len(s) : (s \o t)[j] = s[j]
  BY ConcatProperties, LenProperties
<1>2. i \in 0..Len(s \o t) /\ Len(s) \in Nat
  BY <1>1, LenProperties
<1>3. /\ SubSeq(s \o t, 1, i) \in Seq(S)
      /\ Len(SubSeq(s \o t, 1, i)) = i
      /\ \A j \in 1..i : SubSeq(s \o t, 1, i)[j] = (s \o t)[j]
  BY <1>1, <1>2, PrefixType, Zenon
<1>4. /\ SubSeq(s, 1, i) \in Seq(S)
      /\ Len(SubSeq(s, 1, i)) = i
      /\ \A j \in 1..i : SubSeq(s, 1, i)[j] = s[j]
  BY PrefixType, Zenon
<1>5. \A j \in 1..i : SubSeq(s \o t, 1, i)[j] = SubSeq(s, 1, i)[j]
  BY <1>1, <1>2, <1>3, <1>4
<1>. QED  BY <1>3, <1>4, <1>5, SeqEqual, Zenon

\* A prefix of the appended part, after the whole of the old one, is a prefix.
LEMMA ConcatOfPrefix ==
  ASSUME NEW S, NEW s \in Seq(S), NEW t \in Seq(S), NEW i \in 0..Len(t)
  PROVE  s \o SubSeq(t, 1, i) = SubSeq(s \o t, 1, Len(s) + i)
<1>1. /\ s \o t \in Seq(S)
      /\ Len(s \o t) = Len(s) + Len(t)
      /\ \A j \in 1..(Len(s) + Len(t)) :
           (s \o t)[j] = IF j <= Len(s) THEN s[j] ELSE t[j - Len(s)]
  BY ConcatProperties, Zenon
<1>2. Len(s) \in Nat /\ Len(t) \in Nat /\ Len(s) + i \in 0..Len(s \o t)
  BY <1>1, LenProperties
<1>3. /\ SubSeq(s \o t, 1, Len(s) + i) \in Seq(S)
      /\ Len(SubSeq(s \o t, 1, Len(s) + i)) = Len(s) + i
      /\ \A j \in 1..(Len(s) + i) : SubSeq(s \o t, 1, Len(s) + i)[j] = (s \o t)[j]
  BY <1>1, <1>2, PrefixType, Zenon
<1>4. /\ SubSeq(t, 1, i) \in Seq(S)
      /\ Len(SubSeq(t, 1, i)) = i
      /\ \A j \in 1..i : SubSeq(t, 1, i)[j] = t[j]
  BY PrefixType, Zenon
<1>5. /\ s \o SubSeq(t, 1, i) \in Seq(S)
      /\ Len(s \o SubSeq(t, 1, i)) = Len(s) + i
      /\ \A j \in 1..(Len(s) + i) : (s \o SubSeq(t, 1, i))[j] =
           IF j <= Len(s) THEN s[j] ELSE SubSeq(t, 1, i)[j - Len(s)]
  BY <1>4, ConcatProperties
<1>6. \A j \in 1..(Len(s) + i) :
        (s \o SubSeq(t, 1, i))[j] = SubSeq(s \o t, 1, Len(s) + i)[j]
  BY <1>1, <1>2, <1>3, <1>4, <1>5
<1>. QED  BY <1>3, <1>5, <1>6, SeqEqual, Zenon

(***************************************************************************)
(* Pages and slots.                                                        *)
(***************************************************************************)
LEMMA DivMod ==
  ASSUME NEW n \in Int, NEW p \in Int, p > 0
  PROVE  n = p * (n \div p) + (n % p)
OBVIOUS

LEMMA DivModUnique ==
  ASSUME NEW n \in Nat, NEW q \in Nat, NEW r \in 0..(PageCapacity - 1),
         n = PageCapacity * q + r
  PROVE  n \div PageCapacity = q /\ n % PageCapacity = r
BY PageAssumption

\* Sequence n is in slot SlotOf(n) of page PageOf(n).
SlotOf(n) == root_history_location(n).slot

LEMMA Location ==
  ASSUME NEW n \in Nat
  PROVE  /\ PageOf(n) \in Nat
         /\ SlotOf(n) \in 0..(PageCapacity - 1)
         /\ n = PageCapacity * PageOf(n) + SlotOf(n)
<1>1. n \in Int /\ PageCapacity \in Int /\ PageCapacity > 0
  BY PageAssumption
<1>2. n = PageCapacity * (n \div PageCapacity) + (n % PageCapacity)
  BY <1>1, DivMod, Zenon
<1>3. n \div PageCapacity \in Nat /\ n % PageCapacity \in 0..(PageCapacity - 1)
  BY PageAssumption
<1>. QED  BY <1>2, <1>3, Zenon DEF PageOf, SlotOf, root_history_location

LEMMA LocationUnique ==
  ASSUME NEW n \in Nat, NEW q \in Nat, NEW r \in 0..(PageCapacity - 1),
         n = PageCapacity * q + r
  PROVE  PageOf(n) = q /\ SlotOf(n) = r
BY DivModUnique, Zenon DEF PageOf, SlotOf, root_history_location

LEMMA Distribute ==
  ASSUME NEW p \in Nat, NEW q \in Nat
  PROVE  /\ p * (q + 1) = p * q + p
         /\ p * q \in Nat
OBVIOUS

LEMMA TimesMonotonic ==
  ASSUME NEW p \in Nat, NEW a \in Nat, NEW b \in Nat, a <= b
  PROVE  p * a <= p * b
OBVIOUS

\* Pages are in the order of their sequences.
LEMMA PageMonotonic ==
  ASSUME NEW m \in Nat, NEW n \in Nat, m <= n
  PROVE  PageOf(m) <= PageOf(n)
<1>. PageCapacity \in Nat \ {0, 1}
  BY PageAssumption, Zenon
<1>1. /\ PageOf(m) \in Nat /\ SlotOf(m) \in 0..(PageCapacity - 1)
      /\ m = PageCapacity * PageOf(m) + SlotOf(m)
  BY Location, Zenon
<1>2. /\ PageOf(n) \in Nat /\ SlotOf(n) \in 0..(PageCapacity - 1)
      /\ n = PageCapacity * PageOf(n) + SlotOf(n)
  BY Location, Zenon
<1>3. SUFFICES ASSUME PageOf(n) + 1 <= PageOf(m)
               PROVE  FALSE
  BY <1>1, <1>2
<1>4. PageCapacity * (PageOf(n) + 1) <= PageCapacity * PageOf(m)
  BY <1>1, <1>2, <1>3, TimesMonotonic
<1>5. PageCapacity * (PageOf(n) + 1) = PageCapacity * PageOf(n) + PageCapacity
  BY <1>2, Distribute, Zenon
<1>6. PageCapacity * PageOf(n) \in Nat /\ PageCapacity * PageOf(m) \in Nat
  BY <1>1, <1>2, Distribute, Zenon
<1>. QED  BY <1>1, <1>2, <1>4, <1>5, <1>6

\* A sequence that fits the tree has its page.
LEMMA PageExists ==
  ASSUME NEW n \in 0..LeafCapacity
  PROVE  PageOf(n) \in PageNumbers
<1>1. PageOf(n) \in Nat /\ PageOf(LeafCapacity) \in Nat
  BY Location, CapacityAssumption
<1>2. PageOf(n) <= PageOf(LeafCapacity)
  BY PageMonotonic, CapacityAssumption
<1>3. PageOf(LeafCapacity) = LeafCapacity \div PageCapacity
  BY Zenon DEF PageOf, root_history_location
<1>. QED  BY <1>1, <1>2, <1>3 DEF PageNumbers

\* Where the roots of an append go: all to the current page, or the current
\* page is filled up and the rest starts the next one.
LEMMA Distribution ==
  ASSUME NEW lvs \in Seq(Notes), NEW k \in {1, 2}
  PROVE  LET n == Len(lvs)
             j == RootsInCurrent(lvs, k)
         IN /\ j \in 0..k
            /\ j = k => /\ SlotOf(n) + k <= PageCapacity - 1
                        /\ PageOf(n + k) = PageOf(n)
                        /\ SlotOf(n + k) = SlotOf(n) + k
            /\ j < k => /\ j = PageCapacity - 1 - SlotOf(n)
                        /\ PageOf(n + k) = PageOf(n) + 1
                        /\ SlotOf(n + k) = k - j - 1
<1>. DEFINE n == Len(lvs)
            c == PageOf(n)
            r == SlotOf(n)
<1>0. n \in Nat /\ PageCapacity \in Nat \ {0, 1}
  BY PageAssumption, LenProperties, Zenon
<1>1. c \in Nat /\ r \in 0..(PageCapacity - 1) /\ n = PageCapacity * c + r
  BY <1>0, Location, Zenon
<1>2. PageCapacity * (c + 1) = PageCapacity * c + PageCapacity /\ PageCapacity * c \in Nat
  BY <1>0, <1>1, Distribute, Zenon
<1>. HIDE DEF n, c, r
<1>3. ASSUME NEW i \in {1, 2}, r + i < PageCapacity
      PROVE  PageOf(n + i) = c /\ SlotOf(n + i) = r + i
  <2>1. n + i \in Nat /\ r + i \in 0..(PageCapacity - 1) /\ n + i = PageCapacity * c + (r + i)
    BY <1>0, <1>1, <1>2, <1>3
  <2>. QED  BY <2>1, <1>1, LocationUnique, Zenon
<1>4. ASSUME NEW i \in {1, 2}, r + i >= PageCapacity
      PROVE  PageOf(n + i) = c + 1 /\ SlotOf(n + i) = r + i - PageCapacity
  <2>1. /\ n + i \in Nat /\ c + 1 \in Nat
        /\ r + i - PageCapacity \in 0..(PageCapacity - 1)
        /\ n + i = PageCapacity * (c + 1) + (r + i - PageCapacity)
    BY <1>0, <1>1, <1>2, <1>4
  <2>. QED  BY <2>1, LocationUnique, Zenon
<1>5. RootsInCurrent(lvs, k) = IF PageOf(n + 1) # c THEN 0
                               ELSE IF PageOf(n + k) # c THEN 1 ELSE k
  BY Zenon DEF RootsInCurrent, n, c
<1>6. CASE r + 1 >= PageCapacity
  <2>1. PageOf(n + 1) # c /\ r = PageCapacity - 1
    BY <1>0, <1>1, <1>4, <1>6
  <2>2. RootsInCurrent(lvs, k) = 0
    BY <2>1, <1>5, Zenon
  <2>3. PageOf(n + k) = c + 1 /\ SlotOf(n + k) = r + k - PageCapacity
    BY <1>0, <1>1, <1>4, <1>6
  <2>. QED  BY <2>1, <2>2, <2>3, <1>0 DEF n, c, r
<1>7. CASE r + 1 < PageCapacity /\ r + k >= PageCapacity
  <2>1. PageOf(n + 1) = c /\ PageOf(n + k) = c + 1
        /\ SlotOf(n + k) = r + k - PageCapacity /\ k = 2 /\ r = PageCapacity - 2
    BY <1>0, <1>1, <1>3, <1>4, <1>7
  <2>2. RootsInCurrent(lvs, k) = 1
    BY <2>1, <1>1, <1>5
  <2>. QED  BY <2>1, <2>2, <1>0 DEF n, c, r
<1>8. CASE r + k < PageCapacity
  <2>1. r + 1 < PageCapacity
    BY <1>0, <1>1, <1>8
  <2>2. PageOf(n + 1) = c /\ PageOf(n + k) = c /\ SlotOf(n + k) = r + k
    BY <2>1, <1>3, <1>8, Zenon
  <2>3. RootsInCurrent(lvs, k) = k
    BY <2>2, <1>5, Zenon
  <2>. QED  BY <2>1, <2>2, <2>3, <1>0, <1>1, <1>8 DEF n, c, r
<1>. QED  BY <1>0, <1>1, <1>6, <1>7, <1>8

\* The root after the i-th appended leaf commits to the first Len(lvs) + i
\* leaves of the new tree.
LEMMA AppendedRootsAre ==
  ASSUME NEW lvs \in Seq(Notes), NEW outs \in OutputLists
  PROVE  /\ AppendedRoots(lvs, outs) \in Seq(Roots)
         /\ Len(AppendedRoots(lvs, outs)) = Len(outs)
         /\ \A i \in 1..Len(outs) :
              AppendedRoots(lvs, outs)[i] = SubSeq(lvs \o outs, 1, Len(lvs) + i)
<1>. DEFINE f == AppendedRoots(lvs, outs)
<1>1. outs \in Seq(Notes) /\ Len(outs) \in Nat
  BY OutputType
<1>2. \A i \in 1..Len(outs) : lvs \o SubSeq(outs, 1, i) \in Seq(Notes)
  <2>. SUFFICES ASSUME NEW i \in 1..Len(outs)
                PROVE  lvs \o SubSeq(outs, 1, i) \in Seq(Notes)
    BY Zenon
  <2>1. SubSeq(outs, 1, i) \in Seq(Notes)
    BY <1>1, PrefixType
  <2>. QED  BY <2>1, ConcatProperties, Zenon
<1>3. f = [i \in 1..Len(outs) |-> lvs \o SubSeq(outs, 1, i)]
  BY Zenon DEF AppendedRoots
<1>4. f \in [1..Len(outs) -> Roots]
  BY <1>2, <1>3, Zenon DEF Roots
<1>5. f \in Seq(Roots)
  BY <1>1, <1>4
<1>6. Len(f) = Len(outs)
  BY <1>1, <1>3, <1>5, LenProperties
<1>7. \A i \in 1..Len(outs) : f[i] = SubSeq(lvs \o outs, 1, Len(lvs) + i)
  <2>. SUFFICES ASSUME NEW i \in 1..Len(outs)
                PROVE  f[i] = SubSeq(lvs \o outs, 1, Len(lvs) + i)
    BY Zenon
  <2>1. f[i] = lvs \o SubSeq(outs, 1, i)
    BY <1>3, Zenon
  <2>. QED  BY <2>1, <1>1, ConcatOfPrefix
<1>. QED  BY <1>5, <1>6, <1>7, Zenon

\* The two pages that an append writes, slot by slot.
LEMMA PagesAfter ==
  ASSUME NEW lvs \in Seq(Notes), NEW outs \in OutputLists, NEW page \in Pages
  PROVE  LET j == RootsInCurrent(lvs, Len(outs))
             m == Len(page.roots)
             cur == CurrentPageAfter(lvs, page, outs)
             next == RolloverPageAfter(lvs, outs)
         IN /\ cur \in Pages /\ cur.status = "Written" /\ Len(cur.roots) = m + j
            /\ \A i \in 1..(m + j) : cur.roots[i] =
                 IF i <= m THEN page.roots[i]
                 ELSE SubSeq(lvs \o outs, 1, Len(lvs) + i - m)
            /\ next \in Pages
            /\ next = Absent <=> j = Len(outs)
            /\ j < Len(outs) =>
                 /\ next.status = "Written"
                 /\ Len(next.roots) = Len(outs) - j
                 /\ \A i \in 1..(Len(outs) - j) :
                      next.roots[i] = SubSeq(lvs \o outs, 1, Len(lvs) + j + i)
<1>. DEFINE j == RootsInCurrent(lvs, Len(outs))
            k == Len(outs)
            m == Len(page.roots)
            f == AppendedRoots(lvs, outs)
            first == SubSeq(f, 1, j)
            rest == SubSeq(f, j + 1, k)
<1>1. k \in {1, 2} /\ j \in 0..k
  BY OutputType, Distribution, Zenon
<1>2. /\ f \in Seq(Roots) /\ Len(f) = k
      /\ \A i \in 1..k : f[i] = SubSeq(lvs \o outs, 1, Len(lvs) + i)
  BY AppendedRootsAre, Zenon
<1>3. page.roots \in Seq(Roots) /\ m \in Nat /\ Len(lvs) \in Nat
  BY LenProperties, Zenon DEF Pages
<1>. HIDE DEF j, k, m, f
<1>4. first \in Seq(Roots) /\ Len(first) = j /\ \A i \in 1..j : first[i] = f[i]
  BY <1>1, <1>2, PrefixType, Zenon
<1>5. /\ page.roots \o first \in Seq(Roots)
      /\ Len(page.roots \o first) = m + j
      /\ \A i \in 1..(m + j) : (page.roots \o first)[i] =
           IF i <= m THEN page.roots[i] ELSE first[i - m]
  BY <1>3, <1>4, ConcatProperties DEF m
<1>6. \A i \in 1..(m + j) : (page.roots \o first)[i] =
        IF i <= m THEN page.roots[i] ELSE SubSeq(lvs \o outs, 1, Len(lvs) + i - m)
  <2>. SUFFICES ASSUME NEW i \in 1..(m + j), ~ i <= m
                PROVE  first[i - m] = SubSeq(lvs \o outs, 1, Len(lvs) + i - m)
    BY <1>5, Zenon
  <2>1. i - m \in 1..j /\ i - m \in 1..k
    BY <1>1, <1>3
  <2>2. first[i - m] = f[i - m]
    BY <2>1, <1>4, Zenon
  <2>3. f[i - m] = SubSeq(lvs \o outs, 1, Len(lvs) + (i - m))
    BY <2>1, <1>2, Zenon
  <2>4. Len(lvs) + (i - m) = Len(lvs) + i - m
    BY <1>1, <1>3, Zenon
  <2>. QED  BY <2>2, <2>3, <2>4, Zenon
<1>7. CurrentPageAfter(lvs, page, outs) = [status |-> "Written", roots |-> page.roots \o first]
  BY Zenon DEF CurrentPageAfter, Written, first, f, j
<1>8. \A i \in (j + 1)..k : f[i] \in Roots
  BY <1>1, <1>2, ElementOfSeq
<1>9. /\ rest \in Seq(Roots)
      /\ Len(rest) = IF j + 1 <= k THEN k - (j + 1) + 1 ELSE 0
      /\ \A i \in 1..(k - (j + 1) + 1) : rest[i] = f[(j + 1) + i - 1]
  <2>1. j + 1 \in Int /\ k \in Int
    BY <1>1
  <2>. QED  BY <1>8, <2>1, SubSeqProperties
<1>10. \A i \in 1..(k - j) : rest[i] = SubSeq(lvs \o outs, 1, Len(lvs) + j + i)
  <2>. SUFFICES ASSUME NEW i \in 1..(k - j)
                PROVE  rest[i] = SubSeq(lvs \o outs, 1, Len(lvs) + j + i)
    BY Zenon
  <2>1. /\ i \in 1..(k - (j + 1) + 1) /\ (j + 1) + i - 1 = j + i
        /\ j + i \in 1..k /\ Len(lvs) + (j + i) = Len(lvs) + j + i
    BY <1>1, <1>3
  <2>2. rest[i] = f[j + i]
    BY <2>1, <1>9, Zenon
  <2>3. f[j + i] = SubSeq(lvs \o outs, 1, Len(lvs) + (j + i))
    BY <2>1, <1>2, Zenon
  <2>. QED  BY <2>1, <2>2, <2>3, Zenon
<1>11. RolloverPageAfter(lvs, outs) =
         IF j = k THEN Absent ELSE [status |-> "Written", roots |-> rest]
  BY Zenon DEF RolloverPageAfter, Written, rest, f, j, k
<1>12. Absent \in Pages /\ Absent.status = "Absent"
  BY EmptySeq, Zenon DEF Absent, Pages
<1>13. /\ CurrentPageAfter(lvs, page, outs) \in Pages
       /\ CurrentPageAfter(lvs, page, outs).status = "Written"
       /\ CurrentPageAfter(lvs, page, outs).roots = page.roots \o first
  BY <1>5, <1>7 DEF Pages
<1>16. j < k => /\ RolloverPageAfter(lvs, outs).status = "Written"
               /\ RolloverPageAfter(lvs, outs).roots = rest
               /\ RolloverPageAfter(lvs, outs) \in Pages
               /\ Len(rest) = k - j
  BY <1>1, <1>9, <1>11 DEF Pages
<1>17. RolloverPageAfter(lvs, outs) = Absent <=> j = k
  BY <1>1, <1>11, <1>12, <1>16
<1>18. RolloverPageAfter(lvs, outs) \in Pages
  BY <1>1, <1>11, <1>12, <1>16
<1>. HIDE DEF first, rest
<1>. QED  BY <1>1, <1>5, <1>6, <1>10, <1>13, <1>16, <1>17, <1>18, Zenon DEF j, k, m

LEMMA CurrentAfter ==
  ASSUME NEW lvs \in Seq(Notes), NEW outs \in OutputLists, NEW page \in Pages
  PROVE  LET j == RootsInCurrent(lvs, Len(outs))
             m == Len(page.roots)
             cur == CurrentPageAfter(lvs, page, outs)
         IN /\ cur \in Pages /\ cur.status = "Written" /\ Len(cur.roots) = m + j
            /\ \A i \in 1..(m + j) : cur.roots[i] =
                 IF i <= m THEN page.roots[i]
                 ELSE SubSeq(lvs \o outs, 1, Len(lvs) + i - m)
BY PagesAfter, Zenon

LEMMA RolloverAfter ==
  ASSUME NEW lvs \in Seq(Notes), NEW outs \in OutputLists
  PROVE  LET j == RootsInCurrent(lvs, Len(outs))
             next == RolloverPageAfter(lvs, outs)
         IN /\ next \in Pages
            /\ next = Absent <=> j = Len(outs)
            /\ j < Len(outs) =>
                 /\ next.status = "Written"
                 /\ Len(next.roots) = Len(outs) - j
                 /\ \A i \in 1..(Len(outs) - j) :
                      next.roots[i] = SubSeq(lvs \o outs, 1, Len(lvs) + j + i)
<1>1. Absent \in Pages
  BY EmptySeq, Zenon DEF Absent, Pages
<1>. QED  BY <1>1, PagesAfter, Zenon

(***************************************************************************)
(* An append keeps every page exact.                                       *)
(***************************************************************************)
\* Where page p starts, relative to the page of sequence n.
LEMMA PageStarts ==
  ASSUME NEW n \in Nat, NEW p \in Nat
  PROVE  /\ p * PageCapacity \in Nat
         /\ p < PageOf(n) => p * PageCapacity + PageCapacity <= n
         /\ p = PageOf(n) => p * PageCapacity = n - SlotOf(n)
         /\ p = PageOf(n) + 1 => p * PageCapacity = n - SlotOf(n) + PageCapacity
         /\ p > PageOf(n) + 1 =>
              p * PageCapacity >= n - SlotOf(n) + PageCapacity + PageCapacity
<1>. DEFINE c == PageOf(n)
            r == SlotOf(n)
<1>0. PageCapacity \in Nat \ {0, 1}
  BY PageAssumption, Zenon
<1>1. c \in Nat /\ r \in 0..(PageCapacity - 1) /\ n = PageCapacity * c + r
  BY Location, Zenon
<1>. HIDE DEF c, r
<1>2. p * PageCapacity = PageCapacity * p /\ PageCapacity * p \in Nat
      /\ PageCapacity * c \in Nat
  BY <1>0, <1>1
<1>3. p < c => p * PageCapacity + PageCapacity <= n
  <2>. SUFFICES ASSUME p < c
                PROVE  PageCapacity * p + PageCapacity <= PageCapacity * c
    BY <1>0, <1>1, <1>2
  <2>1. p + 1 <= c /\ p + 1 \in Nat
    BY <1>1
  <2>2. PageCapacity * (p + 1) <= PageCapacity * c
    BY <2>1, <1>0, <1>1, TimesMonotonic, Zenon
  <2>3. PageCapacity * (p + 1) = PageCapacity * p + PageCapacity
    BY <1>0, Distribute, Zenon
  <2>. QED  BY <2>2, <2>3, Zenon
<1>4. p = c => p * PageCapacity = n - r
  BY <1>0, <1>1, <1>2
<1>5. PageCapacity * (c + 1) = PageCapacity * c + PageCapacity
  BY <1>0, <1>1, Distribute, Zenon
<1>6. p = c + 1 => p * PageCapacity = n - r + PageCapacity
  BY <1>0, <1>1, <1>2, <1>5
<1>7. p > c + 1 => p * PageCapacity >= n - r + PageCapacity + PageCapacity
  <2>. SUFFICES ASSUME p > c + 1
                PROVE  PageCapacity * p >= PageCapacity * c + PageCapacity + PageCapacity
    BY <1>0, <1>1, <1>2
  <2>1. c + 1 + 1 <= p /\ c + 1 \in Nat /\ c + 1 + 1 \in Nat
    BY <1>1
  <2>2. PageCapacity * (c + 1 + 1) <= PageCapacity * p
    BY <2>1, <1>0, TimesMonotonic, Zenon
  <2>3. PageCapacity * (c + 1 + 1) = PageCapacity * (c + 1) + PageCapacity
    BY <2>1, <1>0, Distribute, Zenon
  <2>. QED  BY <2>2, <2>3, <1>5, Zenon
<1>. QED  BY <1>2, <1>3, <1>4, <1>6, <1>7, Zenon DEF c, r

\* What an append of outs makes of each page.
AppendedPage(lvs, pgs, outs, p) ==
  IF p = PageOf(Len(lvs)) THEN CurrentPageAfter(lvs, pgs[PageOf(Len(lvs))], outs)
  ELSE IF p = PageOf(Len(lvs)) + 1 /\ RolloverPageAfter(lvs, outs) # Absent
       THEN RolloverPageAfter(lvs, outs)
  ELSE pgs[p]

LEMMA AppendKeepsPages ==
  ASSUME NEW lvs \in Seq(Notes), NEW pgs \in [PageNumbers -> Pages],
         NEW outs \in OutputLists, Len(lvs) + Len(outs) <= LeafCapacity,
         \A p \in PageNumbers : PageIsExact(lvs, pgs[p], p),
         NEW p \in PageNumbers
  PROVE  /\ AppendedPage(lvs, pgs, outs, p) \in Pages
         /\ PageIsExact(lvs \o outs, AppendedPage(lvs, pgs, outs, p), p)
<1>. DEFINE n == Len(lvs)
            k == Len(outs)
            c == PageOf(n)
            r == SlotOf(n)
            j == RootsInCurrent(lvs, k)
            new == lvs \o outs
            q == AppendedPage(lvs, pgs, outs, p)
            b == p * PageCapacity
<1>1. n \in Nat /\ k \in {1, 2} /\ outs \in Seq(Notes) /\ PageCapacity \in Nat \ {0, 1}
      /\ p \in Nat
  BY OutputType, LenProperties, PageAssumption DEF PageNumbers
<1>2. new \in Seq(Notes) /\ Len(new) = n + k
  BY <1>1, ConcatProperties, Zenon
<1>3. \A i \in 0..n : SubSeq(new, 1, i) = SubSeq(lvs, 1, i)
  BY <1>1, PrefixOfConcat, Zenon
<1>4. c \in Nat /\ r \in 0..(PageCapacity - 1)
  BY <1>1, Location, Zenon
<1>5. /\ j \in 0..k
      /\ j = k => r + k <= PageCapacity - 1 /\ PageOf(n + k) = c /\ SlotOf(n + k) = r + k
      /\ j < k => /\ j = PageCapacity - 1 - r
                  /\ PageOf(n + k) = c + 1
                  /\ SlotOf(n + k) = k - j - 1
  BY <1>1, Distribution, Zenon
<1>6. /\ b \in Nat
      /\ p < c => b + PageCapacity <= n
      /\ p = c => b = n - r
      /\ p = c + 1 => b = n - r + PageCapacity
      /\ p > c + 1 => b >= n - r + PageCapacity + PageCapacity
  BY <1>1, PageStarts, Zenon
<1>7. c \in PageNumbers
  BY <1>1, PageExists, CapacityAssumption
<1>. HIDE DEF n, k, c, r, j, b
<1>8. PageIsExact(lvs, pgs[p], p) <=>
        IF b <= n
        THEN /\ pgs[p].status = "Written"
             /\ Len(pgs[p].roots) = IF p = c THEN r + 1 ELSE PageCapacity
             /\ \A i \in 1..Len(pgs[p].roots) : pgs[p].roots[i] = SubSeq(lvs, 1, b + i - 1)
        ELSE pgs[p] \in {Absent, Zeroed}
  BY Zenon DEF PageIsExact, n, c, r, b, SlotOf
<1>9. PageIsExact(new, q, p) <=>
        IF b <= n + k
        THEN /\ q.status = "Written"
             /\ Len(q.roots) = IF p = PageOf(n + k) THEN SlotOf(n + k) + 1 ELSE PageCapacity
             /\ \A i \in 1..Len(q.roots) : q.roots[i] = SubSeq(new, 1, b + i - 1)
        ELSE q \in {Absent, Zeroed}
  <2>. HIDE DEF q, new
  <2>. QED  BY <1>2, Zenon DEF PageIsExact, b, SlotOf
<1>10. PageIsExact(lvs, pgs[p], p) /\ pgs[p] \in Pages
  BY Zenon
<1>11. PageOf(n + k) >= c
  BY <1>1, <1>4, <1>5
<1>. HIDE DEF new
<1>12. CASE p < c
  <2>1. q = pgs[p]
    BY <1>12, <1>1, <1>4 DEF AppendedPage, q, c, n
  <2>2. b + PageCapacity <= n /\ p # c /\ p # PageOf(n + k) /\ b <= n /\ b <= n + k
    BY <1>1, <1>4, <1>5, <1>6, <1>12
  <2>3. /\ q.status = "Written" /\ Len(q.roots) = PageCapacity
        /\ \A i \in 1..PageCapacity : q.roots[i] = SubSeq(lvs, 1, b + i - 1)
    BY <2>1, <2>2, <1>8, <1>10, Zenon
  <2>4. \A i \in 1..PageCapacity : b + i - 1 \in 0..n
    BY <2>2, <1>1, <1>6
  <2>5. \A i \in 1..PageCapacity : q.roots[i] = SubSeq(new, 1, b + i - 1)
    BY <2>3, <2>4, <1>3, Zenon
  <2>. HIDE DEF q
  <2>6. PageIsExact(new, q, p)
    BY <2>2, <2>3, <2>5, <1>9, Zenon
  <2>. QED  BY <2>1, <2>6, <1>10, Zenon DEF new, q
<1>13. CASE p = c
  <2>. DEFINE m == Len(pgs[p].roots)
  <2>1. q = CurrentPageAfter(lvs, pgs[p], outs)
    BY <1>13, Zenon DEF AppendedPage, q, c, n
  <2>2. b = n - r /\ b <= n /\ b <= n + k
    BY <1>1, <1>4, <1>6, <1>13
  <2>3. m = r + 1 /\ m \in Nat
    BY <2>2, <1>4, <1>8, <1>10, <1>13, SMTT(30)
  <2>8. \A i \in 1..m : pgs[p].roots[i] = SubSeq(lvs, 1, b + i - 1)
    BY <2>2, <1>8, <1>10, <1>13, Zenon
  <2>4. /\ q \in Pages /\ q.status = "Written" /\ Len(q.roots) = m + j
        /\ \A i \in 1..(m + j) : q.roots[i] =
             IF i <= m THEN pgs[p].roots[i] ELSE SubSeq(new, 1, n + i - m)
    <3>1. pgs[p] \in Pages
      BY <1>10, Zenon
    <3>2. /\ CurrentPageAfter(lvs, pgs[p], outs) \in Pages
          /\ CurrentPageAfter(lvs, pgs[p], outs).status = "Written"
          /\ Len(CurrentPageAfter(lvs, pgs[p], outs).roots) = m + j
          /\ \A i \in 1..(m + j) : CurrentPageAfter(lvs, pgs[p], outs).roots[i] =
               IF i <= m THEN pgs[p].roots[i] ELSE SubSeq(new, 1, n + i - m)
      BY <3>1, CurrentAfter, Zenon DEF n, k, j, new
    <3>. HIDE DEF q, m
    <3>. QED  BY <3>2, <2>1, Zenon
  <2>. HIDE DEF q, m
  <2>5. \A i \in 1..(m + j) : q.roots[i] = SubSeq(new, 1, b + i - 1)
    <3>. SUFFICES ASSUME NEW i \in 1..(m + j)
                  PROVE  q.roots[i] = SubSeq(new, 1, b + i - 1)
      BY Zenon
    <3>1. CASE i <= m
      <4>1. b + i - 1 \in 0..n /\ i \in 1..m
        BY <3>1, <2>2, <2>3, <1>1, <1>4, <1>5, <1>6
      <4>2. pgs[p].roots[i] = SubSeq(lvs, 1, b + i - 1)
        BY <4>1, <2>8, Zenon
      <4>3. q.roots[i] = pgs[p].roots[i]
        BY <3>1, <2>4, Zenon
      <4>. QED  BY <4>1, <4>2, <4>3, <1>3, Zenon
    <3>2. CASE ~ i <= m
      <4>1. n + i - m = b + i - 1
        BY <2>2, <2>3, <1>1, <1>4, <1>5
      <4>. QED  BY <4>1, <3>2, <2>4, Zenon
    <3>. QED  BY <3>1, <3>2, Zenon
  <2>6. m + j = IF p = PageOf(n + k) THEN SlotOf(n + k) + 1 ELSE PageCapacity
    BY <2>3, <1>1, <1>4, <1>5, <1>13
  <2>7. PageIsExact(new, q, p)
    BY <2>2, <2>4, <2>5, <2>6, <1>9, Zenon
  <2>. QED  BY <2>4, <2>7, Zenon DEF new, q
<1>14. CASE p = c + 1 /\ j < k
  <2>2. /\ RolloverPageAfter(lvs, outs) # Absent
        /\ RolloverPageAfter(lvs, outs) \in Pages
        /\ RolloverPageAfter(lvs, outs).status = "Written"
        /\ Len(RolloverPageAfter(lvs, outs).roots) = k - j
        /\ \A i \in 1..(k - j) :
             RolloverPageAfter(lvs, outs).roots[i] = SubSeq(new, 1, n + j + i)
    <3>1. j # k /\ j < k
      BY <1>14, <1>1, <1>5
    <3>. QED  BY <3>1, RolloverAfter, Zenon DEF n, k, j, new
  <2>3. q = RolloverPageAfter(lvs, outs)
    BY <2>2, <1>1, <1>4, <1>14 DEF AppendedPage, q, c, n
  <2>4. /\ b <= n + k /\ p = PageOf(n + k) /\ k - j = SlotOf(n + k) + 1
        /\ \A i \in 1..(k - j) : n + j + i = b + i - 1
    BY <1>1, <1>4, <1>5, <1>6, <1>14, SMTT(30)
  <2>. HIDE DEF q
  <2>5. \A i \in 1..(k - j) : q.roots[i] = SubSeq(new, 1, b + i - 1)
    BY <2>2, <2>3, <2>4, Zenon
  <2>6. PageIsExact(new, q, p)
    BY <2>2, <2>3, <2>4, <2>5, <1>9, Zenon
  <2>. QED  BY <2>2, <2>3, <2>6, Zenon DEF new, q
<1>15. CASE p > c /\ ~ (p = c + 1 /\ j < k)
  <2>2. j = k => RolloverPageAfter(lvs, outs) = Absent
    BY RolloverAfter, Zenon DEF n, k, j
  <2>3. p = c + 1 => j = k
    BY <1>15, <1>1, <1>5
  <2>4. q = pgs[p]
    BY <2>2, <2>3, <1>15, <1>1, <1>4 DEF AppendedPage, q, c, n
  <2>5. b > n + k /\ ~ b <= n + k /\ ~ b <= n
    BY <2>3, <1>1, <1>4, <1>5, <1>6, <1>15, SMTT(30)
  <2>6. pgs[p] \in {Absent, Zeroed}
    BY <2>5, <1>8, <1>10, Zenon
  <2>7. PageIsExact(new, q, p)
    BY <2>4, <2>5, <2>6, <1>9, Zenon
  <2>. QED  BY <2>4, <2>7, <1>10, Zenon DEF new, q
<1>. QED  BY <1>1, <1>4, <1>5, <1>12, <1>13, <1>14, <1>15, SMTT(30)

(***************************************************************************)
(* What the pages say.                                                     *)
(***************************************************************************)
LEMMA WithinCapacity ==
  ASSUME TypeOK, NothingBeforeInitialization, PagesAreExact
  PROVE  Len(leaves) \in 0..LeafCapacity
<1>1. CASE initialized
  BY <1>1, LenProperties, CapacityAssumption DEF TypeOK, Roots, PagesAreExact
<1>2. CASE ~initialized
  BY <1>2, CapacityAssumption DEF NothingBeforeInitialization
<1>. QED  BY <1>1, <1>2, Zenon

\* The page of a sequence holds exactly its root there.
LEMMA RootAt ==
  ASSUME TypeOK, PagesAreExact, initialized, NEW s \in 0..Len(leaves)
  PROVE  /\ PageOf(s) \in PageNumbers
         /\ pages[PageOf(s)].status = "Written"
         /\ SlotOf(s) < Len(pages[PageOf(s)].roots)
         /\ pages[PageOf(s)].roots[SlotOf(s) + 1] = SubSeq(leaves, 1, s)
<1>. DEFINE n == Len(leaves)
            p == PageOf(s)
            r == SlotOf(s)
            page == pages[p]
<1>1. n \in Nat /\ s \in Nat /\ n <= LeafCapacity /\ PageCapacity \in Nat \ {0, 1}
  BY LenProperties, PageAssumption DEF TypeOK, Roots, PagesAreExact
<1>2. p \in PageNumbers /\ p \in Nat /\ PageOf(n) \in Nat
  BY <1>1, PageExists, Location, CapacityAssumption
<1>3. r \in 0..(PageCapacity - 1) /\ p * PageCapacity = s - r /\ p * PageCapacity \in Nat
  BY <1>1, <1>2, Location, PageStarts, Zenon
<1>4. p <= PageOf(n) /\ SlotOf(n) \in 0..(PageCapacity - 1)
  BY <1>1, PageMonotonic, Location
<1>5. PageIsExact(leaves, page, p)
  BY <1>2, Zenon DEF PagesAreExact
<1>6. p = PageOf(n) => p * PageCapacity = n - SlotOf(n)
  BY <1>1, <1>2, PageStarts, Zenon
<1>. HIDE DEF n, p, r
<1>7. /\ page.status = "Written"
      /\ Len(page.roots) = IF p = PageOf(n) THEN SlotOf(n) + 1 ELSE PageCapacity
      /\ \A i \in 1..Len(page.roots) : page.roots[i] = SubSeq(leaves, 1, p * PageCapacity + i - 1)
  <2>1. p * PageCapacity <= n
    BY <1>1, <1>3 DEF n
  <2>. QED  BY <2>1, <1>5, Zenon DEF PageIsExact, SlotOf, n
<1>. HIDE DEF page
<1>8. Len(page.roots) = IF p = PageOf(n) THEN SlotOf(n) + 1 ELSE PageCapacity
  BY <1>7, Zenon
<1>9. r < Len(page.roots) /\ r + 1 \in 1..Len(page.roots)
      /\ p * PageCapacity + (r + 1) - 1 = s
  BY <1>1, <1>3, <1>4, <1>6, <1>8 DEF n
<1>10. page.roots[r + 1] = SubSeq(leaves, 1, s)
  BY <1>7, <1>9, Zenon
<1>. QED  BY <1>2, <1>7, <1>9, <1>10, Zenon DEF page, p, r

LEMMA RetainedExactly ==
  ASSUME TypeOK, PagesAreExact, initialized, NEW s \in 0..Len(leaves), NEW root
  PROVE  RetainedRoot(s, root) <=> root = SubSeq(leaves, 1, s)
BY RootAt, Zenon DEF RetainedRoot, PageOf, SlotOf

\* An authenticated anchor is a prefix of the tree.
LEMMA AnchorIsPrefix ==
  ASSUME TypeOK, PagesAreExact, initialized, NEW st \in Statements,
         authenticate_historical_anchor(st)
  PROVE  /\ st.anchor_sequence \in 0..Len(leaves)
         /\ st.anchor_root = SubSeq(leaves, 1, st.anchor_sequence)
<1>1. st.anchor_sequence \in 0..Len(leaves)
  BY LenProperties DEF authenticate_historical_anchor, Statements, TypeOK, Roots
<1>. QED  BY <1>1, RetainedExactly, Zenon DEF authenticate_historical_anchor

\* The pages are enough to find every root, and say no more.
LEMMA PagesRetainRoots ==
  ASSUME TypeOK, PagesAreExact
  PROVE  EveryRootRetained
<1>. SUFFICES ASSUME initialized
              PROVE  /\ \A s \in 0..Len(leaves) : RetainedRoot(s, SubSeq(leaves, 1, s))
                     /\ \A p \in PageNumbers : pages[p].status = "Written" =>
                          /\ p <= PageOf(Len(leaves))
                          /\ p * PageCapacity + Len(pages[p].roots) <= Len(leaves) + 1
  BY Zenon DEF EveryRootRetained
<1>1. \A s \in 0..Len(leaves) : RetainedRoot(s, SubSeq(leaves, 1, s))
  BY RetainedExactly, Zenon
<1>2. ASSUME NEW p \in PageNumbers, pages[p].status = "Written"
      PROVE  /\ p <= PageOf(Len(leaves))
             /\ p * PageCapacity + Len(pages[p].roots) <= Len(leaves) + 1
  <2>. DEFINE n == Len(leaves)
  <2>1. n \in Nat /\ p \in Nat /\ PageCapacity \in Nat \ {0, 1}
    BY LenProperties, PageAssumption DEF TypeOK, Roots, PageNumbers
  <2>2. /\ p * PageCapacity \in Nat
        /\ p < PageOf(n) => p * PageCapacity + PageCapacity <= n
        /\ p = PageOf(n) => p * PageCapacity = n - SlotOf(n)
        /\ p = PageOf(n) + 1 => p * PageCapacity = n - SlotOf(n) + PageCapacity
        /\ p > PageOf(n) + 1 =>
             p * PageCapacity >= n - SlotOf(n) + PageCapacity + PageCapacity
    BY <2>1, PageStarts, Zenon
  <2>3. PageOf(n) \in Nat /\ SlotOf(n) \in 0..(PageCapacity - 1)
    BY <2>1, Location, Zenon
  <2>4. pages[p] \notin {Absent, Zeroed}
    BY <1>2 DEF Absent, Zeroed
  <2>5. /\ p * PageCapacity <= n
        /\ Len(pages[p].roots) = IF p = PageOf(n) THEN SlotOf(n) + 1 ELSE PageCapacity
    BY <2>4, Zenon DEF PagesAreExact, PageIsExact, SlotOf
  <2>. HIDE DEF n
  <2>6. p <= PageOf(n)
    BY <2>1, <2>2, <2>3, <2>5
  <2>7. p * PageCapacity + Len(pages[p].roots) <= n + 1
    BY <2>1, <2>2, <2>3, <2>5, <2>6, SMTT(30)
  <2>. QED  BY <2>6, <2>7, Zenon DEF n
<1>. QED  BY <1>1, <1>2, Zenon

\* An initialised Pool with a free leaf accepts an append.
LEMMA AppendIsAllowed ==
  ASSUME TypeOK, PagesAreExact, initialized, NEW k \in {1, 2},
         Len(leaves) + k <= LeafCapacity
  PROVE  AppendAllowed(k)
<1>. DEFINE n == Len(leaves)
            c == PageOf(n)
<1>1. n \in Nat /\ leaves \in Seq(Notes) /\ PageCapacity \in Nat \ {0, 1}
  BY LenProperties, PageAssumption, Zenon DEF TypeOK, Roots
<1>2. c \in Nat /\ SlotOf(n) \in 0..(PageCapacity - 1)
  BY <1>1, Location, Zenon
<1>3. PageOf(n + k) \in {c, c + 1}
  <2>1. RootsInCurrent(leaves, k) \in 0..k
    BY <1>1, Distribution, Zenon
  <2>2. RootsInCurrent(leaves, k) = k \/ RootsInCurrent(leaves, k) < k
    BY <2>1
  <2>. QED  BY <2>2, <1>1, Distribution, Zenon
<1>4. leaves = SubSeq(leaves, 1, n)
  <2>1. /\ SubSeq(leaves, 1, n) \in Seq(Notes) /\ Len(SubSeq(leaves, 1, n)) = n
        /\ \A j \in 1..n : SubSeq(leaves, 1, n)[j] = leaves[j]
    BY <1>1, PrefixType
  <2>. QED  BY <2>1, <1>1, SeqEqual, Zenon
<1>5. RetainedRoot(n, leaves)
  BY <1>1, <1>4, RetainedExactly
<1>6. Len(pages[c].roots) = SlotOf(n) + 1
  <2>1. c \in PageNumbers
    BY <1>1, PageExists, CapacityAssumption
  <2>2. c * PageCapacity <= n
    BY <1>1, <1>2, PageStarts
  <2>. QED  BY <2>1, <2>2, Zenon DEF PagesAreExact, PageIsExact, SlotOf
<1>7. PageOf(n + k) > c => pages[c + 1].status # "Written"
  <2>. SUFFICES ASSUME PageOf(n + k) > c
                PROVE  pages[c + 1].status # "Written"
    BY Zenon
  <2>1. c + 1 \in PageNumbers
    <3>1. c + 1 = PageOf(n + k)
      BY <1>2, <1>3
    <3>2. n + k \in 0..LeafCapacity
      BY <1>1, CapacityAssumption
    <3>. QED  BY <3>1, <3>2, PageExists, Zenon
  <2>2. (c + 1) * PageCapacity = n - SlotOf(n) + PageCapacity
    BY <1>1, <1>2, PageStarts
  <2>3. ~ (c + 1) * PageCapacity <= n
    BY <2>2, <1>1, <1>2
  <2>4. pages[c + 1] \in {Absent, Zeroed}
    BY <2>1, <2>3, Zenon DEF PagesAreExact, PageIsExact
  <2>. QED  BY <2>4 DEF Absent, Zeroed
<1>8. PageOf(n + k) <= c + 1
  BY <1>2, <1>3
<1>. QED  BY <1>5, <1>6, <1>7, <1>8, Zenon DEF AppendAllowed, require_spend_capacity,
          validate_current_history, CurrentPage, Rolls, plan_fresh_page, SlotOf

(***************************************************************************)
(* The inductive invariant, by kind of step.                               *)
(***************************************************************************)
\* A step that appends outs, however it was authorized.
Appends(outs) ==
  /\ initialized /\ initialized' = initialized
  /\ require_spend_capacity(Len(outs))
  /\ leaves' = leaves \o outs
  /\ pages' = [p \in PageNumbers |-> AppendedPage(leaves, pages, outs, p)]

LEMMA ApplyAppendAppends ==
  ASSUME NEW outs, ApplyAppend(outs), initialized' = initialized
  PROVE  Appends(outs)
BY Zenon DEF ApplyAppend, AppendAllowed, Appends, PagesWith, AppendedPage, CurrentPage

\* The part of the invariant about the tree and its pages.
HistoryInv ==
  /\ initialized \in BOOLEAN
  /\ leaves \in Roots
  /\ pages \in [PageNumbers -> Pages]
  /\ NothingBeforeInitialization
  /\ PagesAreExact

LEMMA AppendKeepsHistory ==
  ASSUME TypeOK, PagesAreExact, NEW outs \in OutputLists, Appends(outs)
  PROVE  HistoryInv'
<1>1. leaves \in Seq(Notes) /\ outs \in Seq(Notes) /\ pages \in [PageNumbers -> Pages]
      /\ initialized = TRUE
  BY OutputType, Zenon DEF TypeOK, Roots, Appends
<1>2. leaves' \in Seq(Notes) /\ Len(leaves') = Len(leaves) + Len(outs)
  BY <1>1, ConcatProperties, Zenon DEF Appends
<1>3. Len(leaves) + Len(outs) <= LeafCapacity
  BY Zenon DEF Appends, require_spend_capacity
<1>4. \A p \in PageNumbers : PageIsExact(leaves, pages[p], p)
  BY <1>1, Zenon DEF PagesAreExact
<1>5. \A p \in PageNumbers : /\ AppendedPage(leaves, pages, outs, p) \in Pages
                              /\ PageIsExact(leaves \o outs, AppendedPage(leaves, pages, outs, p), p)
  BY <1>1, <1>3, <1>4, AppendKeepsPages, Zenon
<1>6. pages' = [p \in PageNumbers |-> AppendedPage(leaves, pages, outs, p)]
      /\ leaves' = leaves \o outs /\ initialized' = TRUE
  BY <1>1, Zenon DEF Appends
<1>7. pages' \in [PageNumbers -> Pages]
  BY <1>5, <1>6, Zenon
<1>8. \A p \in PageNumbers : PageIsExact(leaves', pages'[p], p)
  BY <1>5, <1>6, Zenon
<1>9. PagesAreExact'
  BY <1>2, <1>3, <1>8, Zenon DEF PagesAreExact
<1>. QED  BY <1>2, <1>6, <1>7, <1>9, Zenon DEF HistoryInv, NothingBeforeInitialization, Roots

LEMMA UnchangedKeepsHistory ==
  ASSUME HistoryInv, UNCHANGED <<initialized, leaves, pages>>,
         ~initialized => plans' = {}
  PROVE  HistoryInv'
BY Zenon DEF HistoryInv, NothingBeforeInitialization, PagesAreExact

\* Plans stay exact while the tree only grows.
LEMMA PlanKept ==
  ASSUME NEW p \in Plans, NEW lvs \in Seq(Notes), NEW outs \in Seq(Notes),
         PlanIsExact(lvs, p)
  PROVE  PlanIsExact(lvs \o outs, p)
<1>1. p.source_pool \in Seq(Notes) /\ Len(p.source_pool) \in Nat /\ Len(lvs) \in Nat
      /\ Len(outs) \in Nat
  BY LenProperties, Zenon DEF Plans, Roots
<1>2. Len(p.source_pool) \in 0..Len(lvs)
  BY <1>1 DEF PlanIsExact
<1>3. SubSeq(lvs \o outs, 1, Len(p.source_pool)) = SubSeq(lvs, 1, Len(p.source_pool))
  BY <1>2, PrefixOfConcat, Zenon
<1>4. Len(lvs \o outs) = Len(lvs) + Len(outs)
  BY ConcatProperties, Zenon
<1>5. Len(p.source_pool) <= Len(lvs \o outs)
  BY <1>1, <1>2, <1>4
<1>. QED  BY <1>3, <1>5, Zenon DEF PlanIsExact

LEMMA PlansKept ==
  ASSUME TypeOK, PlansAreExact, plans' \subseteq plans, NEW outs \in Seq(Notes),
         leaves' = leaves \/ leaves' = leaves \o outs
  PROVE  PlansAreExact'
<1>. SUFFICES ASSUME NEW p \in plans'
              PROVE  PlanIsExact(leaves', p)
  BY Zenon DEF PlansAreExact
<1>1. p \in Plans /\ PlanIsExact(leaves, p) /\ leaves \in Seq(Notes)
  BY Zenon DEF TypeOK, PlansAreExact, Roots
<1>. QED  BY <1>1, PlanKept, Zenon

LEMMA ReceiptsKept ==
  ASSUME ReceiptsAreProved, receipts' \subseteq receipts
  PROVE  ReceiptsAreProved'
BY Zenon DEF ReceiptsAreProved

\* The statement of a client is a statement.
LEMMA StatementType ==
  ASSUME TypeOK, NothingBeforeInitialization, PagesAreExact,
         NEW anchor \in Anchors, NEW n \in Range(anchor[2]), NEW outs \in OutputChoices,
         evaluate_relation(StatementOf(anchor, n, outs))
  PROVE  StatementOf(anchor, n, outs) \in Statements
<1>. DEFINE st == StatementOf(anchor, n, outs)
<1>1. Len(leaves) \in 0..LeafCapacity /\ leaves \in Seq(Notes) /\ LeafCapacity \in Nat
  BY WithinCapacity, CapacityAssumption, Zenon DEF TypeOK, Roots
<1>2. anchor[1] \in 0..LeafCapacity /\ anchor[2] \in Seq(Notes)
  <2>1. CASE anchor \in {<<i, SubSeq(leaves, 1, i)>> : i \in 0..Len(leaves)}
    <3>1. PICK i \in 0..Len(leaves) : anchor = <<i, SubSeq(leaves, 1, i)>>
      BY <2>1, Zenon
    <3>2. SubSeq(leaves, 1, i) \in Seq(Notes)
      BY <1>1, PrefixType, Zenon
    <3>. QED  BY <3>1, <3>2, <1>1
  <2>2. CASE anchor \in (0..LeafCapacity) \X ForgedRoots
    BY <2>2, RootAssumption, Zenon
  <2>. QED  BY <2>1, <2>2, Zenon DEF Anchors
<1>3. n \in Notes
  BY <1>2, LenProperties DEF Range
<1>4. outs \in OutputLists
  BY OutputAssumption, Zenon
<1>5. st.amount \in Values
  <2>1. 0 \in Values
    BY ValueAssumption, SMTT(30) DEF Values
  <2>. QED  BY <2>1, Zenon DEF evaluate_relation
<1>. QED  BY <1>2, <1>3, <1>4, <1>5, Zenon DEF StatementOf, Statements, Notes, Roots

\* The parts of a plan.
LEMMA PlanType ==
  ASSUME TypeOK, NEW plan \in plans
  PROVE  /\ plan \in Plans
         /\ plan.receipt.statement \in Statements
         /\ plan.receipt.statement.outputs \in OutputLists
         /\ plan.receipt.statement.nullifier \in Serials
         /\ plan.receipt.statement.amount \in Values
         /\ plan.source_pool \in Seq(Notes)
         /\ plan.expires_at \in Slots
BY Zenon DEF TypeOK, Plans, Receipts, Statements, Roots

\* What a settlement checks and changes.
LEMMA SettleFacts ==
  ASSUME NEW plan, process_settle_prepared(plan)
  PROVE  /\ initialized /\ initialized' = initialized
         /\ require_spend_capacity(Len(plan.receipt.statement.outputs))
         /\ slot <= plan.expires_at
         /\ plan.source_pool = leaves
         /\ plan.source_page = CurrentPage
         /\ plan.receipt.release \in active
         /\ plan.receipt.statement.nullifier \notin markers
         /\ plan.receipt.statement.amount <= vault
         /\ leaves' = plan.next_pool
         /\ pages' = PagesWith(IF RootsInCurrent(leaves, Len(plan.receipt.statement.outputs)) # 0
                               THEN plan.next_page ELSE CurrentPage,
                               plan.next_rollover)
         /\ markers' = markers \union {plan.receipt.statement.nullifier}
         /\ vault' = vault - plan.receipt.statement.amount
         /\ plans' = plans \ {plan}
         /\ receipts' = receipts /\ active' = active /\ slot' = slot
BY Zenon DEF process_settle_prepared, plan_settle_prepared_layout, plan_withdrawal_transfer,
             authenticate_statement_and_receipt, apply_prepared_settlement_plan,
   authenticate_verifier_selection, plan_nullifier_marker_consumption

\* Settling a plan appends its outputs: the images in the plan are those of
\* the live accounts.
LEMMA SettleAppends ==
  ASSUME IInv, NEW plan \in plans, process_settle_prepared(plan)
  PROVE  /\ plan.receipt.statement \in Statements
         /\ plan.receipt.statement.outputs \in OutputLists
         /\ Appends(plan.receipt.statement.outputs)
<1>. DEFINE st == plan.receipt.statement
            outs == st.outputs
            c == PageOf(Len(leaves))
<1>1. st \in Statements /\ outs \in OutputLists
  BY PlanType, Zenon DEF IInv
<1>2. initialized /\ initialized' = initialized /\ require_spend_capacity(Len(outs))
  BY SettleFacts, Zenon
<1>3. plan.source_pool = leaves /\ plan.source_page = pages[c]
  BY SettleFacts, Zenon DEF CurrentPage
<1>. HIDE DEF c
<1>4. /\ plan.next_pool = leaves \o outs
      /\ plan.next_page = CurrentPageAfter(leaves, pages[c], outs)
      /\ plan.next_rollover = RolloverPageAfter(leaves, outs)
  BY <1>3, Zenon DEF IInv, PlansAreExact, PlanIsExact
<1>5. RootsInCurrent(leaves, Len(outs)) = 0 =>
        pages[c] = CurrentPageAfter(leaves, pages[c], outs)
  <2>. SUFFICES ASSUME RootsInCurrent(leaves, Len(outs)) = 0
                PROVE  pages[c] = CurrentPageAfter(leaves, pages[c], outs)
    BY Zenon
  <2>0. leaves \in Seq(Notes) /\ Len(leaves) \in Nat
    BY LenProperties, Zenon DEF IInv, TypeOK, Roots
  <2>1. c \in PageNumbers /\ pages[c].status = "Written"
    BY <2>0, <1>2, RootAt DEF IInv, c
  <2>2. pages[c] \in Pages /\ pages[c].roots \in Seq(Roots)
    BY <2>1, Zenon DEF IInv, TypeOK, Pages
  <2>3. SubSeq(AppendedRoots(leaves, outs), 1, 0) = <<>>
    BY SubSeqEmpty
  <2>4. pages[c].roots \o <<>> = pages[c].roots
    BY <2>2, ConcatEmptySeq, Zenon
  <2>. DEFINE page == pages[c]
  <2>. HIDE DEF page
  <2>5. page.roots \o SubSeq(AppendedRoots(leaves, outs), 1, RootsInCurrent(leaves, Len(outs)))
          = page.roots
    BY <2>3, <2>4, Zenon DEF page
  <2>6. CurrentPageAfter(leaves, page, outs) = [status |-> "Written", roots |-> page.roots]
    BY <2>5, Zenon DEF CurrentPageAfter, Written
  <2>7. page = [status |-> page.status, roots |-> page.roots] /\ page.status = "Written"
    BY <2>1, <2>2, Zenon DEF Pages, page
  <2>. QED  BY <2>6, <2>7, Zenon DEF page
<1>6. leaves' = leaves \o outs
  BY <1>4, SettleFacts, Zenon
<1>7. pages' = PagesWith(CurrentPageAfter(leaves, pages[c], outs), RolloverPageAfter(leaves, outs))
  BY <1>4, <1>5, SettleFacts, Zenon DEF CurrentPage, c
<1>. QED  BY <1>1, <1>2, <1>6, <1>7, Zenon DEF Appends, PagesWith, AppendedPage, c

LEMMA InitKeeps == Init => IInv
<1>. SUFFICES ASSUME Init PROVE IInv
  BY Zenon
<1>1. <<>> \in Roots /\ Absent \in Pages
  BY EmptySeq, Zenon DEF Roots, Absent, Pages
<1>2. initialized = FALSE /\ leaves = <<>> /\ pages = [p \in PageNumbers |-> Absent]
      /\ markers = {} /\ vault = 0 /\ plans = {} /\ receipts = {} /\ active = {} /\ slot = 0
  BY Zenon DEF Init
<1>3. vault \in 0..TokenMax /\ slot \in Slots
  BY <1>2, BoundAssumption DEF Slots
<1>4. pages \in [PageNumbers -> Pages]
  BY <1>1, <1>2, Zenon
<1>5. TypeOK
  BY <1>1, <1>2, <1>3, <1>4, Zenon DEF TypeOK
<1>6. NothingBeforeInitialization /\ PagesAreExact /\ ReceiptsAreProved /\ PlansAreExact
  BY <1>2, Zenon DEF NothingBeforeInitialization, PagesAreExact, ReceiptsAreProved, PlansAreExact
<1>. QED  BY <1>5, <1>6, Zenon DEF IInv

\* Initialisation writes the page of the empty tree's root.
LEMMA InitializeKeeps ==
  ASSUME IInv, process_initialize
  PROVE  IInv'
<1>1. leaves = <<>> /\ pages = [p \in PageNumbers |-> Absent] /\ plans = {} /\ initialized' = TRUE
  BY Zenon DEF IInv, NothingBeforeInitialization, process_initialize
<1>2. leaves' = <<>> /\ <<>> \in Seq(Notes) /\ Len(leaves') = 0 /\ plans' = {}
  BY <1>1, EmptySeq, Zenon DEF process_initialize
<1>3. 0 \in PageNumbers
  BY PageExists, CapacityAssumption, PageAssumption DEF PageNumbers
<1>4. << <<>> >> \in Seq(Roots) /\ Len(<< <<>> >>) = 1 /\ << <<>> >>[1] = <<>>
  BY <1>2 DEF Roots
<1>5. Written(<< <<>> >>) \in Pages /\ Absent \in Pages
  BY <1>4, EmptySeq, Zenon DEF Written, Pages, Absent
<1>6. pages' = [pages EXCEPT ![0] = Written(<< <<>> >>)]
  BY Zenon DEF process_initialize
<1>7. pages' \in [PageNumbers -> Pages]
  BY <1>1, <1>5, <1>6, Zenon
<1>8. PageOf(0) = 0 /\ SlotOf(0) = 0
  <2>1. 0 \in Nat /\ 0 \in 0..(PageCapacity - 1) /\ 0 = PageCapacity * 0 + 0
    BY PageAssumption
  <2>. QED  BY <2>1, LocationUnique, Zenon
<1>9. ASSUME NEW p \in PageNumbers
      PROVE  PageIsExact(<<>>, pages'[p], p)
  <2>1. CASE p = 0
    <3>1. pages'[p].status = "Written" /\ pages'[p].roots = << <<>> >>
      BY <2>1, <1>1, <1>3, <1>6, Zenon DEF Written
    <3>2. p * PageCapacity = 0
      BY <2>1, PageAssumption
    <3>3. SubSeq(<<>>, 1, 0) = <<>>
      BY SubSeqEmpty
    <3>4. Len(<<>>) = 0 /\ p * PageCapacity <= Len(<<>>)
      BY <3>2
    <3>5. Len(pages'[p].roots) = 1
      BY <3>1, <1>4, Zenon
    <3>6. \A i \in 1..1 : p * PageCapacity + i - 1 = 0 /\ i = 1
      BY <3>2
    <3>7. \A i \in 1..Len(pages'[p].roots) :
            pages'[p].roots[i] = SubSeq(<<>>, 1, p * PageCapacity + i - 1)
      <4>. SUFFICES ASSUME NEW i \in 1..1
                    PROVE  pages'[p].roots[i] = SubSeq(<<>>, 1, p * PageCapacity + i - 1)
        BY <3>5, Zenon
      <4>1. i = 1 /\ p * PageCapacity + i - 1 = 0
        BY <3>6, Zenon
      <4>2. pages'[p].roots[i] = <<>>
        BY <4>1, <3>1, <1>4, Zenon
      <4>. QED  BY <4>1, <4>2, <3>3, Zenon
    <3>8. p = PageOf(Len(<<>>)) /\ root_history_location(Len(<<>>)).slot + 1 = 1
      BY <3>4, <2>1, <1>8 DEF SlotOf
    <3>. QED  BY <3>1, <3>4, <3>5, <3>7, <3>8, Zenon DEF PageIsExact
  <2>2. CASE p # 0
    <3>1. pages'[p] = Absent
      BY <2>2, <1>1, <1>6, Zenon
    <3>2. p \in Nat /\ p >= 1
      BY <2>2 DEF PageNumbers
    <3>3. p * PageCapacity > 0
      BY <3>2, PageAssumption
    <3>4. ~ p * PageCapacity <= Len(<<>>)
      BY <3>2, <3>3, PageAssumption
    <3>. QED  BY <3>1, <3>4, Zenon DEF PageIsExact
  <2>. QED  BY <2>1, <2>2, Zenon
<1>10. PagesAreExact'
  BY <1>2, <1>9, CapacityAssumption DEF PagesAreExact
<1>11. NothingBeforeInitialization' /\ PlansAreExact' /\ ReceiptsAreProved'
  BY <1>1, <1>2, Zenon DEF NothingBeforeInitialization, PlansAreExact, ReceiptsAreProved, IInv,
     process_initialize
<1>12. TypeOK'
  BY <1>1, <1>2, <1>7, Zenon DEF IInv, TypeOK, process_initialize, Roots
<1>. QED  BY <1>10, <1>11, <1>12, Zenon DEF IInv

LEMMA IInvHistory ==
  ASSUME IInv
  PROVE  HistoryInv
BY Zenon DEF IInv, HistoryInv, TypeOK

\* The invariant from its parts after a step.
LEMMA Assemble ==
  ASSUME HistoryInv', ReceiptsAreProved', PlansAreExact',
         markers' \in SUBSET Serials, vault' \in 0..TokenMax, plans' \in SUBSET Plans,
         receipts' \in SUBSET Receipts, active' \in SUBSET Releases, slot' \in Slots
  PROVE  IInv'
BY Zenon DEF HistoryInv, IInv, TypeOK

LEMMA PaidOut ==
  ASSUME NEW max \in Nat, NEW balance \in 0..max, NEW a \in Nat, a <= balance
  PROVE  balance - a \in 0..max
OBVIOUS

\* Steps that append.
LEMMA AppendKeepsIInv ==
  ASSUME IInv, NEW outs \in OutputLists, Appends(outs),
         markers' \in SUBSET Serials, vault' \in 0..TokenMax,
         plans' \subseteq plans, UNCHANGED <<receipts, active, slot>>
  PROVE  IInv'
<1>1. HistoryInv'
  BY AppendKeepsHistory, Zenon DEF IInv
<1>2. PlansAreExact'
  BY PlansKept, OutputType, Zenon DEF IInv, Appends
<1>3. ReceiptsAreProved'
  BY ReceiptsKept, Zenon DEF IInv
<1>4. plans' \in SUBSET Plans /\ receipts' \in SUBSET Receipts
      /\ active' \in SUBSET Releases /\ slot' \in Slots
  BY Zenon DEF IInv, TypeOK
<1>. QED  BY <1>1, <1>2, <1>3, <1>4, Assemble, Zenon

LEMMA DepositKeeps ==
  ASSUME IInv, NEW n \in Notes, process_deposit(n)
  PROVE  IInv'
<1>1. Appends(<<n>>)
  BY ApplyAppendAppends, Zenon DEF process_deposit
<1>2. vault' \in 0..TokenMax
  BY BoundAssumption DEF process_deposit, plan_deposit_transfer, IInv, TypeOK, Notes, Values
<1>3. markers' \in SUBSET Serials /\ plans' \subseteq plans /\ UNCHANGED <<receipts, active, slot>>
  BY Zenon DEF process_deposit, IInv, TypeOK
<1>. QED  BY <1>1, <1>2, <1>3, OneNote, AppendKeepsIInv, Zenon

LEMMA DirectKeeps ==
  ASSUME IInv, NEW st \in Statements, NEW release,
         process_private_transfer(st, release) \/ process_withdrawal(st, release)
  PROVE  IInv'
<1>1. DirectSpend(st, release) /\ st.outputs \in OutputLists /\ st.nullifier \in Serials
  BY Zenon DEF process_private_transfer, process_withdrawal, Statements
<1>2. Appends(st.outputs)
  BY <1>1, ApplyAppendAppends, Zenon DEF DirectSpend
<1>3. vault' \in 0..TokenMax
  BY BoundAssumption DEF process_private_transfer, process_withdrawal,
                         plan_withdrawal_transfer, IInv, TypeOK,
     Statements, Values
<1>4. markers' \in SUBSET Serials /\ plans' \subseteq plans /\ UNCHANGED <<receipts, active, slot>>
  BY <1>1, Zenon DEF DirectSpend, IInv, TypeOK
<1>. QED  BY <1>1, <1>2, <1>3, <1>4, AppendKeepsIInv, Zenon

LEMMA SettleKeeps ==
  ASSUME IInv, NEW plan \in plans, process_settle_prepared(plan)
  PROVE  IInv'
<1>1. /\ plan.receipt.statement \in Statements
      /\ plan.receipt.statement.outputs \in OutputLists
      /\ Appends(plan.receipt.statement.outputs)
  BY SettleAppends, Zenon
<1>. DEFINE a == plan.receipt.statement.amount
<1>2. vault' \in 0..TokenMax
  <2>1. a \in Values /\ a <= vault /\ vault' = vault - a /\ vault \in 0..TokenMax
    BY PlanType, SettleFacts, Zenon DEF IInv, TypeOK
  <2>2. a \in Nat /\ TokenMax \in Nat
    BY <2>1, BoundAssumption DEF Values
  <2>. HIDE DEF a
  <2>. QED  BY <2>1, <2>2, PaidOut, Zenon
<1>3. markers' \in SUBSET Serials /\ plans' \subseteq plans /\ UNCHANGED <<receipts, active, slot>>
  <2>1. plan.receipt.statement.nullifier \in Serials /\ markers \in SUBSET Serials
    BY PlanType, Zenon DEF IInv, TypeOK
  <2>. QED  BY <2>1, SettleFacts, Zenon
<1>. QED  BY <1>1, <1>2, <1>3, AppendKeepsIInv, Zenon

\* Steps that leave the tree and the pages alone.
LEMMA QuietKeepsIInv ==
  ASSUME IInv, UNCHANGED <<initialized, leaves, pages>>, plans' \subseteq plans,
         markers' \in SUBSET Serials, vault' \in 0..TokenMax,
         receipts' \in SUBSET Receipts, ReceiptsAreProved',
         active' \in SUBSET Releases, slot' \in Slots
  PROVE  IInv'
<1>1. HistoryInv'
  <2>1. ~initialized => plans' = {}
    BY Zenon DEF IInv, NothingBeforeInitialization
  <2>. QED  BY <2>1, IInvHistory, UnchangedKeepsHistory, Zenon
<1>2. PlansAreExact'
  <2>1. <<>> \in Seq(Notes)
    OBVIOUS
  <2>. QED  BY <2>1, PlansKept, Zenon DEF IInv
<1>3. plans' \in SUBSET Plans
  BY Zenon DEF IInv, TypeOK
<1>. QED  BY <1>1, <1>2, <1>3, Assemble, Zenon

LEMMA FinalizeKeeps ==
  ASSUME IInv, NEW st \in Statements, NEW release \in Releases, NEW proof \in Proofs,
         FinalizeReceipt(st, release, proof)
  PROVE  IInv'
<1>. DEFINE r == [statement |-> st, release |-> release, proof |-> proof, verified_slot |-> slot]
<1>1. r \in Receipts
  BY Zenon DEF Receipts, IInv, TypeOK
<1>2. receipts' = receipts \union {r} /\ evaluate_relation(st)
  BY Zenon DEF FinalizeReceipt
<1>3. r.statement = st
  BY Zenon
<1>. HIDE DEF r
<1>4. ReceiptsAreProved' /\ receipts' \in SUBSET Receipts
  BY <1>1, <1>2, <1>3, Zenon DEF ReceiptsAreProved, IInv, TypeOK
<1>5. /\ UNCHANGED <<initialized, leaves, pages>> /\ plans' \subseteq plans
      /\ markers' \in SUBSET Serials /\ vault' \in 0..TokenMax
      /\ active' \in SUBSET Releases /\ slot' \in Slots
  BY Zenon DEF FinalizeReceipt, ledger, IInv, TypeOK
<1>. QED  BY <1>4, <1>5, QuietKeepsIInv, Zenon

LEMMA OthersKeep ==
  ASSUME IInv,
         \/ \E p \in plans : process_cancel_prepared_settlement(p)
         \/ \E r \in receipts : CloseReceipt(r)
         \/ \E R \in SUBSET Releases : ChangeRegistry(R)
         \/ \E v \in Donations : Donate(v)
         \/ AdvanceSlot
         \/ UNCHANGED vars
  PROVE  IInv'
<1>1. UNCHANGED <<initialized, leaves, pages, markers>> /\ plans' \subseteq plans
      /\ receipts' \subseteq receipts /\ active' \in SUBSET Releases
  BY Zenon
     DEF process_cancel_prepared_settlement, CloseReceipt, ChangeRegistry, Donate, AdvanceSlot,
     vars, ledger, IInv, TypeOK
<1>2. slot' \in Slots
  BY BoundAssumption DEF process_cancel_prepared_settlement, CloseReceipt, ChangeRegistry,
     Donate, AdvanceSlot, vars, IInv, TypeOK, Slots
<1>3. vault' \in 0..TokenMax
  BY BoundAssumption, DonationAssumption DEF process_cancel_prepared_settlement, CloseReceipt,
     ChangeRegistry, Donate, AdvanceSlot, vars, ledger, IInv, TypeOK, Values
<1>4. ReceiptsAreProved' /\ receipts' \in SUBSET Receipts /\ markers' \in SUBSET Serials
  BY <1>1, ReceiptsKept, Zenon DEF IInv, TypeOK
<1>. QED  BY <1>1, <1>2, <1>3, <1>4, QuietKeepsIInv, Zenon

\* A plan that needs a rollover page zeroes a page nothing is on yet.
LEMMA NextPageIsFree ==
  ASSUME TypeOK, PagesAreExact, initialized, NEW k \in {1, 2}, AppendAllowed(k), Rolls(k)
  PROVE  /\ PageOf(Len(leaves)) + 1 \in PageNumbers
         /\ ~ (PageOf(Len(leaves)) + 1) * PageCapacity <= Len(leaves)
<1>. DEFINE n == Len(leaves)
            c == PageOf(n)
<1>1. n \in Nat /\ PageCapacity \in Nat \ {0, 1} /\ n + k \in 0..LeafCapacity
  BY LenProperties, PageAssumption, CapacityAssumption
     DEF TypeOK, Roots, AppendAllowed, require_spend_capacity
<1>2. c \in Nat /\ SlotOf(n) \in 0..(PageCapacity - 1) /\ PageOf(n + k) \in Nat
  BY <1>1, Location
<1>3. PageOf(n + k) = c + 1
  BY <1>2 DEF AppendAllowed, Rolls
<1>4. c + 1 \in PageNumbers
  BY <1>1, <1>3, PageExists, Zenon
<1>5. (c + 1) * PageCapacity = n - SlotOf(n) + PageCapacity
  BY <1>1, <1>2, PageStarts
<1>6. ~ (c + 1) * PageCapacity <= n
  BY <1>1, <1>2, <1>5
<1>. QED  BY <1>4, <1>6, Zenon

LEMMA PrepareFacts ==
  ASSUME NEW receipt, NEW authority, NEW not_before, NEW expires_at,
         process_prepare_settlement(receipt, authority, not_before, expires_at)
  PROVE  LET k == Len(receipt.statement.outputs)
             c == PageOf(Len(leaves))
         IN /\ AppendAllowed(k)
            /\ authenticate_historical_anchor(receipt.statement)
            /\ plans' = plans \union
                 {build_prepared_settlement_plan(receipt, authority, not_before, expires_at)}
            /\ pages' = IF Rolls(k) THEN [pages EXCEPT ![c + 1] = Zeroed] ELSE pages
            /\ initialized' = initialized /\ leaves' = leaves /\ markers' = markers
            /\ vault' = vault /\ receipts' = receipts /\ active' = active /\ slot' = slot
BY Zenon DEF process_prepare_settlement, authenticate_statement_and_receipt

\* A record of a plan's fields is a plan.
LEMMA PlanRecord ==
  ASSUME NEW receipt \in Receipts, NEW authority \in Payers,
         NEW not_before \in Slots, NEW expires_at \in Slots,
         NEW source_pool \in Roots, NEW source_page \in Pages,
         NEW next_pool \in Roots, NEW next_page \in Pages, NEW next_rollover \in Pages
  PROVE  [receipt |-> receipt, authority |-> authority,
          not_before |-> not_before, expires_at |-> expires_at,
          source_pool |-> source_pool, source_page |-> source_page,
          next_pool |-> next_pool, next_page |-> next_page,
          next_rollover |-> next_rollover] \in Plans
BY Zenon DEF Plans

LEMMA PreparedPlan ==
  ASSUME IInv, initialized, NEW receipt \in receipts, NEW authority \in Payers,
         NEW not_before \in Slots, NEW expires_at \in Slots,
         authenticate_historical_anchor(receipt.statement)
  PROVE  LET plan == build_prepared_settlement_plan(receipt, authority, not_before, expires_at)
         IN plan \in Plans /\ PlanIsExact(leaves, plan)
<1>. DEFINE st == receipt.statement
            outs == st.outputs
            c == PageOf(Len(leaves))
            page == CurrentPage
            cur == CurrentPageAfter(leaves, page, outs)
            next == RolloverPageAfter(leaves, outs)
            plan == build_prepared_settlement_plan(receipt, authority, not_before, expires_at)
<1>1. receipt \in Receipts /\ st \in Statements /\ outs \in OutputLists
  BY Zenon DEF IInv, TypeOK, Receipts, Statements
<1>2. outs \in Seq(Notes) /\ leaves \in Seq(Notes) /\ Len(leaves) \in Nat /\ TypeOK /\ PagesAreExact
  BY <1>1, OutputType, LenProperties, Zenon DEF IInv, TypeOK, Roots
<1>3. evaluate_relation(st)
  BY Zenon DEF IInv, ReceiptsAreProved
<1>4. st.anchor_sequence \in 0..Len(leaves) /\ st.anchor_root = SubSeq(leaves, 1, st.anchor_sequence)
  BY <1>1, <1>2, AnchorIsPrefix, Zenon
<1>. HIDE DEF st, outs
<1>5. c \in PageNumbers
  <2>1. Len(leaves) \in 0..Len(leaves)
    BY <1>2
  <2>. QED  BY <1>2, <2>1, RootAt, Zenon
<1>6. page \in Pages
  BY <1>2, <1>5, Zenon DEF TypeOK, CurrentPage
<1>. HIDE DEF c, page
<1>7. cur \in Pages
  BY <1>1, <1>2, <1>6, CurrentAfter, Zenon
<1>8. next \in Pages
  BY <1>1, <1>2, RolloverAfter, ZenonT(30)
<1>9. leaves \o outs \in Seq(Notes)
  BY <1>2, ConcatProperties, Zenon
<1>. HIDE DEF cur, next
<1>10. plan = [receipt |-> receipt, authority |-> authority,
              not_before |-> not_before, expires_at |-> expires_at,
              source_pool |-> leaves, source_page |-> page,
              next_pool |-> leaves \o outs, next_page |-> cur, next_rollover |-> next]
  BY ZenonT(30) DEF build_prepared_settlement_plan, page, cur, next, outs, st
<1>. HIDE DEF plan
<1>11. plan \in Plans
  <2>1. leaves \in Roots /\ leaves \o outs \in Roots
    BY <1>2, <1>9, Zenon DEF Roots
  <2>. QED  BY <1>1, <1>6, <1>7, <1>8, <1>10, <2>1, PlanRecord, ZenonT(30)
<1>12. /\ plan.receipt = receipt /\ plan.source_pool = leaves
       /\ plan.source_page = page /\ plan.next_pool = leaves \o outs
       /\ plan.next_page = cur /\ plan.next_rollover = next
  BY <1>10, Zenon
<1>13. leaves = SubSeq(leaves, 1, Len(leaves))
  <2>1. /\ SubSeq(leaves, 1, Len(leaves)) \in Seq(Notes)
        /\ Len(SubSeq(leaves, 1, Len(leaves))) = Len(leaves)
        /\ \A j \in 1..Len(leaves) : SubSeq(leaves, 1, Len(leaves))[j] = leaves[j]
    BY <1>2, PrefixType
  <2>. QED  BY <2>1, <1>2, SeqEqual, Zenon
<1>14. st.anchor_sequence <= Len(leaves) /\ Len(leaves) <= Len(leaves)
  BY <1>2, <1>4
<1>15. PlanIsExact(leaves, plan)
  BY <1>3, <1>4, <1>12, <1>13, <1>14, ZenonT(30) DEF PlanIsExact, cur, next, outs, st
<1>. QED  BY <1>11, <1>15, Zenon DEF plan

LEMMA PrepareKeeps ==
  ASSUME IInv, NEW receipt \in receipts, NEW authority \in Payers,
         NEW not_before \in Slots, NEW expires_at \in Slots,
         process_prepare_settlement(receipt, authority, not_before, expires_at)
  PROVE  IInv'
<1>. DEFINE outs == receipt.statement.outputs
            k == Len(outs)
            c == PageOf(Len(leaves))
            plan == build_prepared_settlement_plan(receipt, authority, not_before, expires_at)
<1>1. outs \in OutputLists
  BY Zenon DEF IInv, TypeOK, Receipts, Statements
<1>2. k \in {1, 2} /\ leaves \in Seq(Notes)
  BY <1>1, OutputType, Zenon DEF IInv, TypeOK, Roots
<1>3. /\ AppendAllowed(k) /\ authenticate_historical_anchor(receipt.statement)
      /\ plans' = plans \union {plan}
      /\ pages' = IF Rolls(k) THEN [pages EXCEPT ![c + 1] = Zeroed] ELSE pages
  BY PrepareFacts, Zenon
<1>4. initialized /\ TypeOK /\ PagesAreExact
  BY <1>3, Zenon DEF IInv, AppendAllowed
<1>11. plan \in Plans /\ PlanIsExact(leaves, plan)
  BY <1>3, <1>4, PreparedPlan, Zenon
<1>. HIDE DEF plan, outs, k, c
<1>12. UNCHANGED <<initialized, leaves, markers, vault, receipts, active, slot>>
  BY PrepareFacts, Zenon
<1>13. PlansAreExact' /\ plans' \in SUBSET Plans
  BY <1>3, <1>4, <1>11, <1>12, Zenon DEF PlansAreExact, IInv, TypeOK
<1>14. pages' = IF Rolls(k) THEN [pages EXCEPT ![c + 1] = Zeroed] ELSE pages
  BY <1>3, Zenon
<1>15. Zeroed \in Pages
  BY EmptySeq, Zenon DEF Zeroed, Pages
<1>16. pages' \in [PageNumbers -> Pages]
  BY <1>4, <1>14, <1>15, Zenon DEF TypeOK
<1>17. \A p \in PageNumbers : PageIsExact(leaves, pages'[p], p)
  <2>. SUFFICES ASSUME NEW p \in PageNumbers
                PROVE  PageIsExact(leaves, pages'[p], p)
    BY Zenon
  <2>1. PageIsExact(leaves, pages[p], p)
    BY <1>4, Zenon DEF PagesAreExact
  <2>2. CASE Rolls(k) /\ p = c + 1
    <3>1. pages'[p] = Zeroed
      BY <2>2, <1>4, <1>14, Zenon DEF TypeOK
    <3>2. ~ p * PageCapacity <= Len(leaves)
      BY <2>2, <1>2, <1>3, <1>4, NextPageIsFree, ZenonT(30) DEF c
    <3>. QED  BY <3>1, <3>2, Zenon DEF PageIsExact
  <2>3. CASE ~ (Rolls(k) /\ p = c + 1)
    <3>1. pages'[p] = pages[p]
      BY <2>3, <1>4, <1>14, Zenon DEF TypeOK
    <3>. QED  BY <3>1, <2>1, Zenon
  <2>. QED  BY <2>2, <2>3, Zenon
<1>18. HistoryInv'
  BY <1>2, <1>4, <1>12, <1>16, <1>17, Zenon
     DEF HistoryInv, NothingBeforeInitialization, PagesAreExact, TypeOK, Roots
<1>19. ReceiptsAreProved'
  BY <1>12, ReceiptsKept, Zenon DEF IInv
<1>. QED  BY <1>4, <1>12, <1>13, <1>18, <1>19, Assemble, Zenon DEF TypeOK

LEMMA NextKeeps == IInv /\ [Next]_vars => IInv'
<1>. SUFFICES ASSUME IInv, [Next]_vars PROVE IInv'
  BY Zenon
<1>1. CASE process_initialize
  BY <1>1, InitializeKeeps, Zenon
<1>2. CASE \E n \in Notes : process_deposit(n)
  BY <1>2, DepositKeeps, Zenon
<1>3. CASE \E anchor \in Anchors :
             \E n \in Range(anchor[2]), outs \in OutputChoices :
               /\ evaluate_relation(StatementOf(anchor, n, outs))
               /\ \E r \in Releases :
                    \/ process_private_transfer(StatementOf(anchor, n, outs), r)
                    \/ process_withdrawal(StatementOf(anchor, n, outs), r)
                    \/ \E p \in Proofs :
                         FinalizeReceipt(StatementOf(anchor, n, outs), r, p)
  <2>0. PICK anchor \in Anchors :
          \E n \in Range(anchor[2]), outs \in OutputChoices :
            /\ evaluate_relation(StatementOf(anchor, n, outs))
            /\ \E r \in Releases :
                 \/ process_private_transfer(StatementOf(anchor, n, outs), r)
                 \/ process_withdrawal(StatementOf(anchor, n, outs), r)
                 \/ \E p \in Proofs :
                      FinalizeReceipt(StatementOf(anchor, n, outs), r, p)
    BY <1>3, Zenon
  <2>1. PICK n \in Range(anchor[2]), outs \in OutputChoices, r \in Releases :
           /\ evaluate_relation(StatementOf(anchor, n, outs))
           /\ \/ process_private_transfer(StatementOf(anchor, n, outs), r)
              \/ process_withdrawal(StatementOf(anchor, n, outs), r)
              \/ \E p \in Proofs : FinalizeReceipt(StatementOf(anchor, n, outs), r, p)
    BY <2>0, Zenon
  <2>2. StatementOf(anchor, n, outs) \in Statements
    BY <2>1, StatementType, Zenon DEF IInv
  <2>. QED  BY <2>1, <2>2, DirectKeeps, FinalizeKeeps, Zenon
<1>4. CASE \E r \in receipts, a \in Payers, nb, ex \in Slots :
             process_prepare_settlement(r, a, nb, ex)
  BY <1>4, PrepareKeeps, Zenon
<1>5. CASE \E p \in plans : process_settle_prepared(p)
  BY <1>5, SettleKeeps, Zenon
<1>6. CASE \/ \E p \in plans : process_cancel_prepared_settlement(p)
           \/ \E r \in receipts : CloseReceipt(r)
           \/ \E R \in SUBSET Releases : ChangeRegistry(R)
           \/ \E v \in Donations : Donate(v)
           \/ AdvanceSlot
           \/ UNCHANGED vars
  BY <1>6, OthersKeep, Zenon
<1>. QED  BY <1>1, <1>2, <1>3, <1>4, <1>5, <1>6, Zenon DEF Next

\* The inductive invariant: the pages hold every root of the tree at its
\* sequence, receipts are for statements that hold, and every plan is the
\* append that its source state implies.
THEOREM PoolInvariant == Spec => []IInv
BY InitKeeps, NextKeeps, PTL DEF Spec

\* Every account keeps its form: balances fit u64, plans and receipts are
\* well formed, pages hold lists of roots.
THEOREM PoolTypes == Spec => []TypeOK
<1>1. IInv => TypeOK
  BY Zenon DEF IInv
<1>. QED  BY <1>1, PoolInvariant, PTL

\* EveryRootRetained for every capacity and page size: append_roots and the
\* rollover never lose, duplicate or misplace a root.
THEOREM EveryRootIsRetained == Spec => []EveryRootRetained
<1>1. IInv => EveryRootRetained
  BY PagesRetainRoots, Zenon DEF IInv
<1>. QED  BY <1>1, PoolInvariant, PTL

\* DepositNeverBlocked: whatever page a cancelled or stale plan has left
\* behind, plan_fresh_program_pda accepts it and the append goes through.
THEOREM DepositIsNeverBlocked == Spec => []DepositNeverBlocked
<1>1. IInv => DepositNeverBlocked
  <2>. SUFFICES ASSUME IInv, initialized, Len(leaves) < LeafCapacity
                PROVE  AppendAllowed(1)
    BY Zenon DEF DepositNeverBlocked
  <2>1. Len(leaves) + 1 <= LeafCapacity
    <3>1. Len(leaves) \in Nat
      BY LenProperties, Zenon DEF IInv, TypeOK, Roots
    <3>. QED  BY <3>1, CapacityAssumption
  <2>. QED  BY <2>1, AppendIsAllowed, Zenon DEF IInv
<1>. QED  BY <1>1, PoolInvariant, PTL

(***************************************************************************)
(* What a step may not do.                                                 *)
(***************************************************************************)
\* The three kinds of step, seen from the ledger.
LEMMA StepForms ==
  ASSUME IInv, [Next]_vars
  PROVE  \/ UNCHANGED <<leaves, markers, vault>>
         \/ \E n \in Notes : process_deposit(n)
         \/ \E st \in Statements, r \in Releases :
              process_private_transfer(st, r) \/ process_withdrawal(st, r)
         \/ \E p \in plans : process_settle_prepared(p)
         \/ \E v \in Donations : Donate(v)
<1>1. CASE process_initialize
  BY <1>1, Zenon DEF process_initialize
<1>2. CASE \E n \in Notes : process_deposit(n)
  BY <1>2, Zenon
<1>3. CASE \E anchor \in Anchors :
             \E n \in Range(anchor[2]), outs \in OutputChoices :
               /\ evaluate_relation(StatementOf(anchor, n, outs))
               /\ \E r \in Releases :
                    \/ process_private_transfer(StatementOf(anchor, n, outs), r)
                    \/ process_withdrawal(StatementOf(anchor, n, outs), r)
                    \/ \E p \in Proofs :
                         FinalizeReceipt(StatementOf(anchor, n, outs), r, p)
  <2>0. PICK anchor \in Anchors :
          \E n \in Range(anchor[2]), outs \in OutputChoices :
            /\ evaluate_relation(StatementOf(anchor, n, outs))
            /\ \E r \in Releases :
                 \/ process_private_transfer(StatementOf(anchor, n, outs), r)
                 \/ process_withdrawal(StatementOf(anchor, n, outs), r)
                 \/ \E p \in Proofs :
                      FinalizeReceipt(StatementOf(anchor, n, outs), r, p)
    BY <1>3, Zenon
  <2>1. PICK n \in Range(anchor[2]), outs \in OutputChoices, r \in Releases :
           /\ evaluate_relation(StatementOf(anchor, n, outs))
           /\ \/ process_private_transfer(StatementOf(anchor, n, outs), r)
              \/ process_withdrawal(StatementOf(anchor, n, outs), r)
              \/ \E p \in Proofs : FinalizeReceipt(StatementOf(anchor, n, outs), r, p)
    BY <2>0, Zenon
  <2>2. StatementOf(anchor, n, outs) \in Statements
    BY <2>1, StatementType, Zenon DEF IInv
  <2>3. CASE \E p \in Proofs : FinalizeReceipt(StatementOf(anchor, n, outs), r, p)
    BY <2>3, Zenon DEF FinalizeReceipt, ledger
  <2>. QED  BY <2>1, <2>2, <2>3, ZenonT(30)
<1>4. CASE \E r \in receipts, a \in Payers, nb, ex \in Slots :
             process_prepare_settlement(r, a, nb, ex)
  BY <1>4, PrepareFacts, Zenon
<1>5. CASE \E p \in plans : process_settle_prepared(p)
  BY <1>5, Zenon
<1>6. CASE \/ \E p \in plans : process_cancel_prepared_settlement(p)
           \/ \E r \in receipts : CloseReceipt(r)
           \/ \E R \in SUBSET Releases : ChangeRegistry(R)
           \/ AdvanceSlot
           \/ UNCHANGED vars
  BY <1>6, Zenon
     DEF process_cancel_prepared_settlement, CloseReceipt, ChangeRegistry, AdvanceSlot,
     ledger, vars
<1>7. CASE \E v \in Donations : Donate(v)
  BY <1>7, Zenon
<1>. QED  BY <1>1, <1>2, <1>3, <1>4, <1>5, <1>6, <1>7, Zenon DEF Next

\* PauseStopsSpending: authenticate_verifier_selection is on the way of every
\* spend, the settlement of a plan included.
THEOREM PauseStopsEverySpend == Spec => PauseStopsSpending
<1>1. IInv /\ [Next]_vars =>
        [active = {} => /\ markers' = markers
                        /\ vault' >= vault
                        /\ Len(leaves') <= Len(leaves) + 1]_vars
  <2>. SUFFICES ASSUME IInv, [Next]_vars, active = {}
                PROVE  /\ markers' = markers
                       /\ vault' >= vault
                       /\ Len(leaves') <= Len(leaves) + 1
    BY Zenon
  <2>0. leaves \in Seq(Notes) /\ Len(leaves) \in Nat /\ vault \in Nat
    BY LenProperties DEF IInv, TypeOK, Roots
  <2>1. CASE UNCHANGED <<leaves, markers, vault>>
    BY <2>0, <2>1
  <2>2. CASE \E n \in Notes : process_deposit(n)
    <3>1. PICK n \in Notes : process_deposit(n)
      BY <2>2, Zenon
    <3>2. leaves' = leaves \o <<n>> /\ vault' = vault + n.value /\ n.value > 0 /\ markers' = markers
      BY <3>1, Zenon DEF process_deposit, ApplyAppend
    <3>3. n.value \in Nat
      BY DEF Notes, Values
    <3>4. Len(leaves') = Len(leaves) + 1
      BY <3>2, <2>0
    <3>. QED  BY <3>2, <3>3, <3>4, <2>0
  <2>3. CASE \E st \in Statements, r \in Releases :
               process_private_transfer(st, r) \/ process_withdrawal(st, r)
    BY <2>3, Zenon DEF process_private_transfer, process_withdrawal, DirectSpend,
       authenticate_verifier_selection
  <2>4. CASE \E p \in plans : process_settle_prepared(p)
    BY <2>4, SettleFacts, Zenon
  <2>5. CASE \E v \in Donations : Donate(v)
    BY <2>0, <2>5, DonationAssumption DEF Donate, Values
  <2>. QED  BY <2>1, <2>2, <2>3, <2>4, <2>5, StepForms, Zenon
<1>. QED  BY <1>1, PoolInvariant, PTL DEF Spec, PauseStopsSpending

\* A client's direct spend or new receipt touches no plan and no clock.
LEMMA ClientLeavesPlans ==
  ASSUME NEW st, NEW r,
         \/ process_private_transfer(st, r)
         \/ process_withdrawal(st, r)
         \/ \E p \in Proofs : FinalizeReceipt(st, r, p)
  PROVE  plans' = plans /\ slot' = slot
<1>1. DirectSpend(st, r) => plans' = plans /\ slot' = slot
  BY Zenon DEF DirectSpend
<1>2. ASSUME NEW p \in Proofs, FinalizeReceipt(st, r, p)
      PROVE  plans' = plans /\ slot' = slot
  BY <1>2, Zenon DEF FinalizeReceipt
<1>3. process_private_transfer(st, r) \/ process_withdrawal(st, r) => DirectSpend(st, r)
  BY Zenon DEF process_private_transfer, process_withdrawal
<1>. QED  BY <1>1, <1>2, <1>3, Zenon

\* The tree and the markers only grow and time does not go back.
LEMMA StepGrows ==
  ASSUME IInv, [Next]_vars
  PROVE  /\ slot \in Nat /\ slot' \in Nat /\ slot <= slot'
         /\ markers \subseteq markers'
         /\ Len(leaves) <= Len(leaves')
         /\ Len(leaves) = Len(leaves') => leaves' = leaves
<1>1. slot \in Nat /\ slot' \in Nat /\ slot <= slot'
  <2>1. AdvanceSlot \/ slot' = slot
    <3>1. CASE process_initialize \/ \E n \in Notes : process_deposit(n)
      BY <3>1, Zenon DEF process_initialize, process_deposit
    <3>2. CASE \E anchor \in Anchors :
                 \E n \in Range(anchor[2]), outs \in OutputChoices :
                   /\ evaluate_relation(StatementOf(anchor, n, outs))
                   /\ \E r \in Releases :
                        \/ process_private_transfer(StatementOf(anchor, n, outs), r)
                        \/ process_withdrawal(StatementOf(anchor, n, outs), r)
                        \/ \E p \in Proofs :
                             FinalizeReceipt(StatementOf(anchor, n, outs), r, p)
      BY <3>2, ClientLeavesPlans, Zenon
    <3>3. CASE \E r \in receipts, a \in Payers, nb, ex \in Slots :
                 process_prepare_settlement(r, a, nb, ex)
      <4>1. PICK r \in receipts, a \in Payers, nb \in Slots, ex \in Slots :
              process_prepare_settlement(r, a, nb, ex)
        BY <3>3, Zenon
      <4>2. UNCHANGED <<initialized, leaves, markers, vault, receipts, active, slot>>
        BY <4>1, PrepareFacts, Zenon
      <4>. QED  BY <4>2, Zenon
    <3>4. CASE \E p \in plans :
                 process_cancel_prepared_settlement(p) \/ process_settle_prepared(p)
      BY <3>4, SettleFacts, Zenon DEF process_cancel_prepared_settlement
    <3>5. CASE \/ \E r \in receipts : CloseReceipt(r)
               \/ \E R \in SUBSET Releases : ChangeRegistry(R)
               \/ \E v \in Donations : Donate(v)
               \/ UNCHANGED vars
      BY <3>5, Zenon DEF CloseReceipt, ChangeRegistry, Donate, vars
    <3>. QED  BY <3>1, <3>2, <3>3, <3>4, <3>5, Zenon DEF Next
  <2>. QED  BY <2>1, BoundAssumption, SMTT(30) DEF AdvanceSlot, IInv, TypeOK, Slots
<1>2. markers \subseteq markers' /\ (leaves' = leaves \/ \E outs \in OutputLists : leaves' = leaves \o outs)
  <2>1. CASE UNCHANGED <<leaves, markers, vault>> \/ \E v \in Donations : Donate(v)
    BY <2>1, Zenon DEF Donate
  <2>2. CASE \E n \in Notes : process_deposit(n)
    BY <2>2, OneNote, Zenon DEF process_deposit, ApplyAppend
  <2>3. CASE \E st \in Statements, r \in Releases :
               process_private_transfer(st, r) \/ process_withdrawal(st, r)
    BY <2>3, Zenon
       DEF process_private_transfer, process_withdrawal, DirectSpend, ApplyAppend, Statements
  <2>4. CASE \E p \in plans : process_settle_prepared(p)
    <3>1. PICK p \in plans : process_settle_prepared(p)
      BY <2>4, Zenon
    <3>2. markers \subseteq markers'
      BY <3>1, SettleFacts, Zenon
    <3>. QED  BY <3>1, <3>2, SettleAppends, Zenon DEF Appends
  <2>. QED  BY <2>1, <2>2, <2>3, <2>4, StepForms, Zenon
<1>3. CASE leaves' = leaves
  BY <1>1, <1>2, <1>3, LenProperties, SMTT(30) DEF IInv, TypeOK, Roots
<1>4. CASE \E outs \in OutputLists : leaves' = leaves \o outs
  <2>1. PICK outs \in OutputLists : leaves' = leaves \o outs
    BY <1>4, Zenon
  <2>2. leaves \in Seq(Notes) /\ Len(leaves) \in Nat /\ outs \in Seq(Notes) /\ Len(outs) \in {1, 2}
    BY OutputType, LenProperties, Zenon DEF IInv, TypeOK, Roots
  <2>3. Len(leaves') = Len(leaves) + Len(outs)
    BY <2>1, <2>2, ConcatProperties, Zenon
  <2>5. Len(leaves) <= Len(leaves') /\ Len(leaves) # Len(leaves')
    <3>. DEFINE a == Len(leaves)
                b == Len(leaves')
                k == Len(outs)
    <3>1. a \in Nat /\ k \in {1, 2} /\ b = a + k
      BY <2>2, <2>3, Zenon
    <3>. HIDE DEF a, b, k
    <3>2. a <= b /\ a # b
      BY <3>1
    <3>. QED  BY <3>2, Zenon DEF a, b
  <2>. QED  BY <2>5, <1>1, <1>2, Zenon
<1>. QED  BY <1>2, <1>3, <1>4, Zenon

\* DeadPlansNeverSettle: apply_prepared_settlement_plan compares the plan with
\* the live accounts and the clock, and none of what it compares comes back.
THEOREM DeadPlansStayDead == Spec => DeadPlansNeverSettle
<1>1. ASSUME IInv, [Next]_vars, NEW p \in plans, Dead(p)
      PROVE  Dead(p)'
  <2>1. p \in Plans /\ PlanIsExact(leaves, p) /\ leaves \in Seq(Notes)
    BY <1>1, Zenon DEF IInv, TypeOK, PlansAreExact, Roots
  <2>2. /\ slot \in Nat /\ slot' \in Nat /\ slot <= slot' /\ markers \subseteq markers'
        /\ Len(leaves) <= Len(leaves') /\ (Len(leaves) = Len(leaves') => leaves' = leaves)
    BY <1>1, StepGrows, Zenon
  <2>3. CASE slot > p.expires_at
    <3>1. p.expires_at \in Nat
      BY <2>1 DEF Plans, Slots
    <3>2. slot' > p.expires_at
      BY <2>2, <2>3, <3>1
    <3>. QED  BY <3>2, Zenon DEF Dead
  <2>4. CASE p.source_pool # leaves
    <3>. DEFINE s == p.source_pool
    <3>1. s \in Seq(Notes) /\ Len(s) \in Nat /\ Len(leaves) \in Nat
      BY <2>1, LenProperties, Zenon DEF Plans, Roots
    <3>2. Len(s) <= Len(leaves) /\ s = SubSeq(leaves, 1, Len(s))
      BY <2>1, Zenon DEF PlanIsExact
    <3>3. Len(s) # Len(leaves)
      <4>. SUFFICES ASSUME Len(s) = Len(leaves)
                    PROVE  FALSE
        BY Zenon
      <4>1. /\ SubSeq(leaves, 1, Len(leaves)) \in Seq(Notes)
            /\ Len(SubSeq(leaves, 1, Len(leaves))) = Len(leaves)
            /\ \A j \in 1..Len(leaves) : SubSeq(leaves, 1, Len(leaves))[j] = leaves[j]
        BY <2>1, <3>1, PrefixType
      <4>2. SubSeq(leaves, 1, Len(leaves)) = leaves
        BY <4>1, <2>1, SeqEqual, Zenon
      <4>. QED  BY <4>2, <3>2, <2>4, Zenon
    <3>4. s # leaves'
      <4>. SUFFICES ASSUME s = leaves'
                    PROVE  FALSE
        BY Zenon
      <4>1. Len(leaves') = Len(s)
        BY Zenon
      <4>. HIDE DEF s
      <4>2. Len(leaves) <= Len(s)
        BY <4>1, <2>2, Zenon
      <4>3. Len(s) = Len(leaves)
        BY <4>2, <3>1, <3>2
      <4>. QED  BY <4>3, <3>3, Zenon
    <3>. QED  BY <3>4, Zenon DEF Dead
  <2>5. CASE p.receipt.statement.nullifier \in markers
    BY <2>2, <2>5, Zenon DEF Dead
  <2>. QED  BY <1>1, <2>3, <2>4, <2>5, Zenon DEF Dead
<1>2. ASSUME IInv, [Next]_vars, NEW p \in plans, Dead(p), p \notin plans'
      PROVE  UNCHANGED ledger
  <2>1. \/ \E q \in plans : process_cancel_prepared_settlement(q)
        \/ \E q \in plans : process_settle_prepared(q) /\ plans' = plans \ {q}
    <3>1. plans' # plans
      BY <1>2, Zenon
    <3>2. CASE process_initialize \/ \E n \in Notes : process_deposit(n)
      BY <3>1, <3>2, Zenon DEF process_initialize, process_deposit
    <3>3. CASE \E anchor \in Anchors :
                 \E n \in Range(anchor[2]), outs \in OutputChoices :
                   /\ evaluate_relation(StatementOf(anchor, n, outs))
                   /\ \E r \in Releases :
                        \/ process_private_transfer(StatementOf(anchor, n, outs), r)
                        \/ process_withdrawal(StatementOf(anchor, n, outs), r)
                        \/ \E x \in Proofs :
                             FinalizeReceipt(StatementOf(anchor, n, outs), r, x)
      BY <3>1, <3>3, ClientLeavesPlans, Zenon
    <3>4. CASE \E r \in receipts, a \in Payers, nb, ex \in Slots :
                 process_prepare_settlement(r, a, nb, ex)
      <4>1. PICK r \in receipts, a \in Payers, nb \in Slots, ex \in Slots :
              process_prepare_settlement(r, a, nb, ex)
        BY <3>4, Zenon
      <4>2. plans \subseteq plans'
        BY <4>1, PrepareFacts, Zenon
      <4>. QED  BY <4>2, <1>2, Zenon
    <3>5. CASE \E q \in plans :
                 process_cancel_prepared_settlement(q) \/ process_settle_prepared(q)
      BY <3>5, SettleFacts, Zenon
    <3>6. CASE \/ \E r \in receipts : CloseReceipt(r)
               \/ \E R \in SUBSET Releases : ChangeRegistry(R)
               \/ \E v \in Donations : Donate(v)
               \/ AdvanceSlot
               \/ UNCHANGED vars
      BY <3>1, <3>6, Zenon DEF CloseReceipt, ChangeRegistry, Donate, AdvanceSlot, vars
    <3>. QED  BY <1>2, <3>2, <3>3, <3>4, <3>5, <3>6, Zenon DEF Next
  <2>2. CASE \E q \in plans : process_cancel_prepared_settlement(q)
    BY <2>2, Zenon DEF process_cancel_prepared_settlement
  <2>3. CASE \E q \in plans : process_settle_prepared(q) /\ plans' = plans \ {q}
    <3>1. process_settle_prepared(p)
      BY <2>3, <1>2, Zenon
    <3>2. /\ slot <= p.expires_at /\ p.source_pool = leaves
          /\ p.receipt.statement.nullifier \notin markers
      BY <3>1, SettleFacts, Zenon
    <3>3. slot \in Nat /\ p.expires_at \in Nat
      BY <1>2 DEF IInv, TypeOK, Plans, Slots
    <3>. QED  BY <3>2, <3>3, <1>2 DEF Dead
  <2>. QED  BY <2>1, <2>2, <2>3, ZenonT(30)
<1>3. IInv /\ [Next]_vars =>
        [\A p \in plans : Dead(p) =>
           IF p \in plans' THEN Dead(p)' ELSE UNCHANGED ledger]_vars
  BY <1>1, <1>2, Zenon
<1>. QED  BY <1>3, PoolInvariant, PTL DEF Spec, DeadPlansNeverSettle

-----------------------------------------------------------------------------
(***************************************************************************)
(* The Pool implements the shielded ledger.                                *)
(***************************************************************************)
\* A note under an authenticated anchor is in the tree.
LEMMA PrefixRange ==
  ASSUME NEW lvs \in Seq(Notes), NEW i \in 0..Len(lvs)
  PROVE  Range(SubSeq(lvs, 1, i)) \subseteq Range(lvs)
<1>1. /\ SubSeq(lvs, 1, i) \in Seq(Notes) /\ Len(SubSeq(lvs, 1, i)) = i
      /\ \A j \in 1..i : SubSeq(lvs, 1, i)[j] = lvs[j]
  BY PrefixType, Zenon
<1>2. DOMAIN SubSeq(lvs, 1, i) = 1..i /\ DOMAIN lvs = 1..Len(lvs) /\ Len(lvs) \in Nat
  BY <1>1, LenProperties, Zenon
<1>3. \A j \in 1..i : j \in 1..Len(lvs)
  BY <1>2, SMTT(30)
<1>. QED  BY <1>1, <1>2, <1>3, Zenon DEF Range

\* A spend of a statement that holds for a prefix of the tree is a spend of
\* one unspent note of the ledger.
LEMMA SpendRefines ==
  ASSUME IInv, NEW st \in Statements, evaluate_relation(st),
         st.anchor_sequence \in 0..Len(leaves),
         st.anchor_root = SubSeq(leaves, 1, st.anchor_sequence),
         st.nullifier \notin markers, st.amount <= vault,
         leaves' = leaves \o st.outputs,
         markers' = markers \union {st.nullifier},
         vault' = vault - st.amount
  PROVE  Ledger!Next
<1>1. PICK n \in Range(st.anchor_root) :
         n.serial = st.nullifier /\ n.value = st.amount + Total(st.outputs)
  BY Zenon DEF evaluate_relation
<1>2. leaves \in Seq(Notes)
  BY Zenon DEF IInv, TypeOK, Roots
<1>3. n \in Range(leaves)
  BY <1>1, <1>2, PrefixRange, Zenon
<1>4. n \in Notes
  BY <1>2, <1>3, LenProperties DEF Range
<1>5. st.outputs \in OutputLists /\ st.amount \in Values
  BY Zenon DEF Statements
<1>6. Ledger!Spend(n, st.outputs, st.amount)
  BY <1>1, <1>3, Zenon DEF Ledger!Spend, Ledger!Range, Range, Ledger!Total, Total
<1>. QED  BY Zenon, <1>4, <1>5, <1>6 DEF Ledger!Next, Ledger!Notes, Notes, Ledger!Values, Values,
          Ledger!OutputLists, OutputLists

\* Every step of the Pool is a step of the ledger, or changes nothing of it.
LEMMA StepRefines ==
  ASSUME IInv, [Next]_vars
  PROVE  [Ledger!Next]_(Ledger!vars)
<1>0. leaves \in Seq(Notes) /\ vault \in Nat /\ TypeOK /\ PagesAreExact
  BY DEF IInv, TypeOK, Roots
<1>1. CASE UNCHANGED <<leaves, markers, vault>>
  BY <1>1, Zenon DEF Ledger!vars
<1>2. CASE \E n \in Notes : process_deposit(n)
  <2>1. PICK n \in Notes : process_deposit(n)
    BY <1>2, Zenon
  <2>2. /\ leaves' = leaves \o <<n>> /\ vault' = vault + n.value /\ n.value > 0
        /\ markers' = markers
    BY <2>1, Zenon DEF process_deposit, ApplyAppend
  <2>3. leaves' = Append(leaves, n)
    BY <2>2, <1>0, AppendIsConcat, Zenon
  <2>4. Ledger!Deposit(n)
    BY <2>2, <2>3, Zenon DEF Ledger!Deposit
  <2>. QED  BY <2>4, Zenon DEF Ledger!Next, Ledger!Notes, Notes, Ledger!Values, Values
<1>3. CASE \E st \in Statements, r \in Releases :
             process_private_transfer(st, r) \/ process_withdrawal(st, r)
  <2>1. PICK st \in Statements, r \in Releases :
           process_private_transfer(st, r) \/ process_withdrawal(st, r)
    BY <1>3, Zenon
  <2>2. DirectSpend(st, r)
    BY <2>1, Zenon DEF process_private_transfer, process_withdrawal
  <2>3. evaluate_relation(st) /\ st.amount \in Nat
    BY <2>2 DEF DirectSpend, Statements, Values
  <2>4. st.amount <= vault /\ vault' = vault - st.amount
    <3>1. CASE process_private_transfer(st, r)
      <4>1. st.amount = 0 /\ vault' = vault
        BY <3>1, <2>3, Zenon DEF process_private_transfer, evaluate_relation
      <4>. QED  BY <4>1, <1>0
    <3>2. CASE process_withdrawal(st, r)
      BY <3>2, Zenon DEF process_withdrawal, plan_withdrawal_transfer
    <3>. QED  BY <2>1, <3>1, <3>2, Zenon
  <2>5. initialized
    BY <2>2, Zenon DEF DirectSpend, ApplyAppend, AppendAllowed
  <2>6. /\ st.anchor_sequence \in 0..Len(leaves)
        /\ st.anchor_root = SubSeq(leaves, 1, st.anchor_sequence)
    BY <1>0, <2>2, <2>5, AnchorIsPrefix, Zenon DEF DirectSpend
  <2>7. /\ st.nullifier \notin markers /\ leaves' = leaves \o st.outputs
        /\ markers' = markers \union {st.nullifier}
    BY <2>2, Zenon DEF DirectSpend, ApplyAppend, plan_nullifier_marker_consumption
  <2>. QED  BY <2>3, <2>4, <2>6, <2>7, SpendRefines, ZenonT(30)
<1>4. CASE \E p \in plans : process_settle_prepared(p)
  <2>1. PICK p \in plans : process_settle_prepared(p)
    BY <1>4, Zenon
  <2>. DEFINE st == p.receipt.statement
  <2>2. st \in Statements /\ leaves' = leaves \o st.outputs
    BY <2>1, SettleAppends, Zenon DEF Appends
  <2>3. /\ st.nullifier \notin markers /\ st.amount <= vault /\ vault' = vault - st.amount
        /\ markers' = markers \union {st.nullifier} /\ p.source_pool = leaves
    BY <2>1, SettleFacts, Zenon
  <2>4. /\ evaluate_relation(st) /\ st.anchor_sequence <= Len(leaves)
        /\ st.anchor_root = SubSeq(leaves, 1, st.anchor_sequence)
    BY <2>3, ZenonT(30) DEF IInv, PlansAreExact, PlanIsExact
  <2>5. st.anchor_sequence \in 0..Len(leaves)
    BY <1>0, <2>2, <2>4, LenProperties, SMTT(30) DEF Statements
  <2>. HIDE DEF st
  <2>. QED  BY <2>2, <2>3, <2>4, <2>5, SpendRefines, Zenon
<1>5. CASE \E v \in Donations : Donate(v)
  BY <1>5, DonationAssumption, Zenon DEF Donate, Ledger!Next, Ledger!Donate, Ledger!Values, Values
<1>. QED  BY <1>1, <1>2, <1>3, <1>4, <1>5, StepForms, Zenon

\* ImplementsLedger: for every capacity, page size and set of notes, releases
\* and payers, the Pool is a shielded ledger.
THEOREM PoolImplementsLedger == Spec => ImplementsLedger
<1>1. Init => Ledger!Init
  BY Zenon DEF Init, Ledger!Init
<1>2. IInv /\ [Next]_vars => [Ledger!Next]_(Ledger!vars)
  BY StepRefines, Zenon
<1>. QED  BY <1>1, <1>2, PoolInvariant, PTL DEF Spec, ImplementsLedger, Ledger!Spec

-----------------------------------------------------------------------------
(***************************************************************************)
(* Every unspent note can be withdrawn.  The withdrawal is accepted: the   *)
(* root is retained, the append is allowed, and the vault can pay.         *)
(***************************************************************************)
\* What process_withdrawal checks.
WithdrawalAccepted(st, release) ==
  /\ ~IsTransfer(st) /\ evaluate_relation(st)
  /\ authenticate_verifier_selection(release)
  /\ authenticate_historical_anchor(st)
  /\ plan_nullifier_marker_consumption(st.nullifier)
  /\ plan_withdrawal_transfer(st.amount)
  /\ AppendAllowed(Len(st.outputs))

\* The rest of it assigns a new value to each variable: a withdrawal that
\* passes its checks happens.
LEMMA WithdrawalIsAccepted ==
  ASSUME NEW st, NEW release
  PROVE  process_withdrawal(st, release) <=>
           /\ WithdrawalAccepted(st, release)
           /\ leaves' = leaves \o st.outputs
           /\ pages' = PagesWith(CurrentPageAfter(leaves, CurrentPage, st.outputs),
                                 RolloverPageAfter(leaves, st.outputs))
           /\ markers' = markers \union {st.nullifier}
           /\ vault' = vault - st.amount
           /\ UNCHANGED <<initialized, plans, receipts, active, slot>>
BY Zenon DEF process_withdrawal, DirectSpend, ApplyAppend, WithdrawalAccepted

\* The notes of NoteNeverStranded, with the checks in the place of ENABLED.
NoteStaysWithdrawable ==
  initialized /\ Len(leaves) < LeafCapacity =>
    \A i \in 0..Len(leaves) : \A n \in Range(SubSeq(leaves, 1, i)) :
      n.value > 0 /\ n.serial \notin markers =>
        \A r \in active, s \in Serials :
          WithdrawalAccepted(
            StatementOf(<<i, SubSeq(leaves, 1, i)>>, n, <<[serial |-> s, value |-> 0]>>), r)

\* The vault can pay each unspent note.
Covered == \A n \in Range(leaves) : n.serial \notin markers => n.value <= vault

\* Then the Pool accepts the withdrawal of each.
LEMMA CoveredIsWithdrawable ==
  ASSUME IInv, Covered PROVE NoteStaysWithdrawable
<1>1. SUFFICES ASSUME initialized, Len(leaves) < LeafCapacity,
                      NEW i \in 0..Len(leaves), NEW n \in Range(SubSeq(leaves, 1, i)),
                      n.value > 0, n.serial \notin markers, NEW r \in active, NEW s \in Serials
               PROVE  WithdrawalAccepted(StatementOf(<<i, SubSeq(leaves, 1, i)>>, n,
                                                     <<[serial |-> s, value |-> 0]>>), r)
  BY ZenonT(30) DEF NoteStaysWithdrawable
<1>2. leaves \in Seq(Notes) /\ vault \in Nat /\ Len(leaves) \in Nat
  BY <1>1, LenProperties DEF IInv, TypeOK, Roots
<1>3. n \in Range(leaves) /\ n \in Notes
  <2>1. Range(SubSeq(leaves, 1, i)) \subseteq Range(leaves)
    BY <1>2, PrefixRange, Zenon
  <2>2. n \in Range(leaves)
    BY <2>1, Zenon
  <2>. QED  BY <1>2, <2>2, LenProperties DEF Range
<1>4. n.value \in Values \ {0} /\ n.value \in Nat
  BY <1>1, <1>3, ValueAssumption DEF Notes, Values
<1>5. PICK outs, root : outs = <<[serial |-> s, value |-> 0]>> /\ root = SubSeq(leaves, 1, i)
  BY Zenon
<1>6. Len(outs) = 1 /\ Total(outs) = 0
  BY <1>5, Zenon DEF Total
<1>7. PICK st : st = StatementOf(<<i, root>>, n, outs)
  BY Zenon
<1>8. /\ st.anchor_sequence = i /\ st.anchor_root = root /\ st.nullifier = n.serial
      /\ st.amount = n.value /\ st.outputs = outs
  BY <1>4, <1>6, <1>7 DEF StatementOf
<1>9. ~IsTransfer(st) /\ evaluate_relation(st)
  <2>1. n.value = st.amount + Total(st.outputs)
    BY <1>4, <1>6, <1>8
  <2>2. ~IsTransfer(st)
    BY <1>6, <1>8 DEF IsTransfer
  <2>. QED  BY <1>1, <1>4, <1>5, <1>8, <2>1, <2>2, Zenon DEF evaluate_relation
<1>10. authenticate_historical_anchor(st)
  <2>1. EveryRootRetained
    BY <1>1, PagesRetainRoots, Zenon DEF IInv
  <2>2. RetainedRoot(i, root)
    BY <1>1, <1>5, <2>1, Zenon DEF EveryRootRetained
  <2>. QED  BY <1>2, <1>8, <2>2 DEF authenticate_historical_anchor
<1>11. plan_withdrawal_transfer(st.amount)
  <2>1. n.value <= vault
    BY <1>1, <1>3, Zenon DEF Covered
  <2>. QED  BY <1>4, <1>8, <2>1, Zenon DEF plan_withdrawal_transfer
<1>12. AppendAllowed(Len(st.outputs))
  <2>1. Len(leaves) + 1 <= LeafCapacity
    BY <1>1, <1>2, CapacityAssumption
  <2>2. AppendAllowed(1)
    BY <1>1, <2>1, AppendIsAllowed, Zenon DEF IInv
  <2>. QED  BY <1>6, <1>8, <2>2, Zenon
<1>13. WithdrawalAccepted(st, r)
  <2>1. authenticate_verifier_selection(r)
    BY <1>1, Zenon DEF authenticate_verifier_selection
  <2>2. plan_nullifier_marker_consumption(st.nullifier)
    BY <1>1, <1>8, Zenon DEF plan_nullifier_marker_consumption
  <2>. QED  BY <1>9, <1>10, <1>11, <1>12, <2>1, <2>2, Zenon DEF WithdrawalAccepted
<1>. QED  BY <1>5, <1>7, <1>13, ZenonT(30)

-----------------------------------------------------------------------------
INSTANCE FiniteSetTheorems

(***************************************************************************)
(* Sums over finite sets.  Each induction is the choice of a smallest      *)
(* counterexample among the subsets of a finite set.                       *)
(***************************************************************************)
\* A set of subsets of a finite set has a smallest member.
LEMMA SmallestSubset ==
  ASSUME NEW S, IsFiniteSet(S), NEW Bad \in SUBSET (SUBSET S), Bad # {}
  PROVE  \E A \in Bad : \A B \in SUBSET A : B # A => B \notin Bad
<1>1. IsWellFoundedOn(StrictSubsetOrdering(S), SUBSET S)
  BY FS_StrictSubsetOrderingWellFounded, FS_FiniteSubsetsOfFinite, Zenon
<1>2. PICK A \in Bad : \A B \in Bad : ~(<<B, A>> \in StrictSubsetOrdering(S))
  BY <1>1, WFMin, Zenon
<1>3. \A B \in SUBSET A : B # A => <<B, A>> \in StrictSubsetOrdering(S)
  BY Zenon DEF StrictSubsetOrdering
<1>4. ASSUME NEW B \in SUBSET A, B # A PROVE B \notin Bad
  BY <1>2, <1>3, <1>4, Zenon
<1>. QED  BY <1>4, Zenon

\* The values of f to be summed are integers.
Summable(f, S) == \A x \in S : f[x] \in Int

First(s) == CHOOSE x \in s : TRUE
Rest(s) == s \ {First(s)}

\* The values of the sum on all subsets of A.
Sums(f, A, g) == g = [s \in SUBSET A |-> IF s = {} THEN 0 ELSE f[First(s)] + g[Rest(s)]]

\* The recursion goes down.
LEMMA RestIsSmaller ==
  ASSUME NEW s, s # {}
  PROVE  First(s) \in s /\ Rest(s) \in SUBSET s /\ Rest(s) # s
<1>1. First(s) \in s
  BY Zenon DEF First
<1>. QED  BY <1>1, Zenon DEF Rest

\* One unfolding.
LEMMA SumsUnfold ==
  ASSUME NEW f, NEW A, NEW g, Sums(f, A, g)
  PROVE  /\ g[{}] = 0
         /\ \A s \in SUBSET A : s # {} => g[s] = f[First(s)] + g[Rest(s)]
<1>1. \A s \in SUBSET A : g[s] = IF s = {} THEN 0 ELSE f[First(s)] + g[Rest(s)]
  BY Zenon DEF Sums
<1>2. {} \in SUBSET A
  BY Zenon
<1>. QED  BY <1>1, <1>2, Zenon

\* Two solutions agree where both are defined.
LEMMA SumsUnique ==
  ASSUME NEW f, NEW A, NEW B, NEW g, NEW h, NEW S, S \subseteq A, S \subseteq B, IsFiniteSet(S),
         Sums(f, A, g), Sums(f, B, h)
  PROVE  g[S] = h[S]
<1> DEFINE Bad == {s \in SUBSET S : g[s] # h[s]}
<1>1. SUFFICES ASSUME Bad # {} PROVE FALSE
  BY Zenon
<1>2. PICK s \in Bad : \A t \in SUBSET s : t # s => t \notin Bad
  <2>1. Bad \in SUBSET (SUBSET S)
    BY Zenon
  <2>. HIDE DEF Bad
  <2>. QED  BY <1>1, <2>1, SmallestSubset, Zenon
<1>3. s \in SUBSET S /\ s \in SUBSET A /\ s \in SUBSET B /\ g[s] # h[s]
  BY <1>2, Zenon
<1>4. CASE s = {}
  BY <1>3, <1>4, SumsUnfold, Zenon
<1>5. CASE s # {}
  <2>1. Rest(s) \in SUBSET s /\ Rest(s) # s
    BY <1>5, RestIsSmaller, Zenon
  <2>2. g[Rest(s)] = h[Rest(s)]
    BY <1>2, <1>3, <2>1, Zenon
  <2>3. g[s] = f[First(s)] + g[Rest(s)] /\ h[s] = f[First(s)] + h[Rest(s)]
    BY <1>3, <1>5, SumsUnfold
  <2>. QED  BY <1>3, <2>2, <2>3, Zenon
<1>. QED  BY <1>4, <1>5, Zenon

\* The recursion has a solution.
LEMMA SumsExist ==
  ASSUME NEW S, IsFiniteSet(S), NEW f
  PROVE  \E g : Sums(f, S, g)
<1> DEFINE Bad == {A \in SUBSET S : ~ \E g : Sums(f, A, g)}
<1>1. SUFFICES ASSUME Bad # {} PROVE FALSE
  BY Zenon
<1>2. PICK A \in Bad : \A B \in SUBSET A : B # A => B \notin Bad
  <2>1. Bad \in SUBSET (SUBSET S)
    BY Zenon
  <2>. HIDE DEF Bad
  <2>. QED  BY <1>1, <2>1, SmallestSubset, Zenon
<1>3. A \in SUBSET S /\ ~ \E g : Sums(f, A, g)
  BY <1>2, Zenon
<1> DEFINE G(B) == CHOOSE g : Sums(f, B, g)
           step(B) == IF B = {} THEN 0 ELSE f[First(B)] + G(Rest(B))[Rest(B)]
           sol == [B \in SUBSET A |-> step(B)]
<1>4. \A B \in SUBSET A : B # A => Sums(f, B, G(B))
  <2>1. TAKE B \in SUBSET A
  <2>2. HAVE B # A
  <2>3. \E g : Sums(f, B, g)
    BY <1>2, <1>3, <2>2, Zenon
  <2>. QED  BY <2>3, Zenon
<1>5. \A B \in SUBSET A : IsFiniteSet(B)
  BY <1>3, FS_Subset, Zenon
<1>. HIDE DEF G
<1>6. \A B \in SUBSET A : B # A => G(B)[B] = step(B)
  <2>1. TAKE B \in SUBSET A
  <2>2. HAVE B # A
  <2>3. Sums(f, B, G(B))
    BY <1>4, <2>2, Zenon
  <2>4. CASE B = {}
    BY <2>3, <2>4, SumsUnfold, Zenon
  <2>5. CASE B # {}
    <3>1. Rest(B) \in SUBSET B /\ Rest(B) \in SUBSET A /\ Rest(B) # A
      BY <2>2, <2>5, RestIsSmaller, Zenon
    <3>2. G(B)[B] = f[First(B)] + G(B)[Rest(B)]
      BY <2>3, <2>5, SumsUnfold
    <3>3. Sums(f, Rest(B), G(Rest(B)))
      BY <1>4, <3>1, Zenon
    <3>4. G(B)[Rest(B)] = G(Rest(B))[Rest(B)]
      <4>1. PICK R : R = Rest(B)
        BY Zenon
      <4>2. /\ R \subseteq B /\ R \subseteq R /\ IsFiniteSet(R)
            /\ Sums(f, B, G(B)) /\ Sums(f, R, G(R))
        BY <1>5, <2>3, <3>1, <3>3, <4>1, Zenon
      <4>3. G(B)[R] = G(R)[R]
        BY <4>2, SumsUnique, SMTT(60)
      <4>. QED  BY <4>1, <4>3, Zenon
    <3>. QED  BY <2>5, <3>2, <3>4, Zenon
  <2>. QED  BY <2>4, <2>5, Zenon
<1>7. \A B \in SUBSET A : B # {} => G(Rest(B))[Rest(B)] = sol[Rest(B)]
  <2>1. TAKE B \in SUBSET A
  <2>2. HAVE B # {}
  <2>3. Rest(B) \in SUBSET A /\ Rest(B) # A
    BY <2>2, RestIsSmaller, Zenon
  <2>4. sol[Rest(B)] = step(Rest(B))
    BY <2>3, Zenon
  <2>. HIDE DEF step, sol
  <2>. QED  BY <1>6, <2>3, <2>4, Zenon
<1>8. Sums(f, A, sol)
  <2>1. \A B \in SUBSET A : step(B) = IF B = {} THEN 0 ELSE f[First(B)] + sol[Rest(B)]
    BY <1>7, Zenon
  <2>2. sol = [B \in SUBSET A |-> step(B)]
    BY Zenon
  <2>. HIDE DEF step, sol
  <2>. QED  BY <2>1, <2>2, Zenon DEF Sums
<1>. QED  BY <1>3, <1>8, Zenon

\* The sum is the solution's value.
LEMMA SumIs ==
  ASSUME NEW S, IsFiniteSet(S), NEW f
  PROVE  \E g : Sums(f, S, g) /\ SumFunctionOnSet(f, S) = g[S]
<1> DEFINE iter == CHOOSE g : Sums(f, S, g)
<1>1. Sums(f, S, iter)
  BY SumsExist, Zenon
<1>2. SumFunctionOnSet(f, S) = iter[S]
  BY Zenon DEF SumFunctionOnSet, FoldFunctionOnSet, MapThenFoldSet, Sums, First, Rest
<1>. QED  BY <1>1, <1>2, Zenon

\* Sums of integers are integers.
LEMMA SumsType ==
  ASSUME NEW S, IsFiniteSet(S), NEW f, Summable(f, S), NEW g, Sums(f, S, g), NEW T \in SUBSET S
  PROVE  g[T] \in Int
<1> DEFINE Bad == {s \in SUBSET S : g[s] \notin Int}
<1>1. SUFFICES ASSUME Bad # {} PROVE FALSE
  BY Zenon
<1>2. PICK s \in Bad : \A t \in SUBSET s : t # s => t \notin Bad
  <2>1. Bad \in SUBSET (SUBSET S)
    BY Zenon
  <2>. HIDE DEF Bad
  <2>. QED  BY <1>1, <2>1, SmallestSubset, Zenon
<1>3. s \in SUBSET S /\ g[s] \notin Int
  BY <1>2, Zenon
<1>4. CASE s = {}
  BY <1>3, <1>4, SumsUnfold, SMTT(30)
<1>5. CASE s # {}
  <2>1. First(s) \in S /\ Rest(s) \in SUBSET s /\ Rest(s) # s
    BY <1>3, <1>5, RestIsSmaller, Zenon
  <2>2. g[Rest(s)] \in Int
    BY <1>2, <1>3, <2>1, Zenon
  <2>3. g[s] = f[First(s)] + g[Rest(s)]
    BY <1>3, <1>5, SumsUnfold, SMTT(30)
  <2>. QED  BY <1>3, <2>1, <2>2, <2>3, SMTT(30) DEF Summable
<1>. QED  BY <1>4, <1>5, Zenon

\* The order of the summands does not matter: any of them can come first.
LEMMA SumsRemove ==
  ASSUME NEW S, IsFiniteSet(S), NEW f, Summable(f, S), NEW g, Sums(f, S, g),
         NEW T \in SUBSET S, NEW y \in T
  PROVE  g[T] = f[y] + g[T \ {y}]
<1> DEFINE Bad == {s \in SUBSET S : \E x \in s : g[s] # f[x] + g[s \ {x}]}
<1>1. SUFFICES ASSUME Bad # {} PROVE FALSE
  BY ZenonT(30)
<1>2. PICK s \in Bad : \A t \in SUBSET s : t # s => t \notin Bad
  <2>1. Bad \in SUBSET (SUBSET S)
    BY Zenon
  <2>. HIDE DEF Bad
  <2>. QED  BY <1>1, <2>1, SmallestSubset, Zenon
<1>3. s \in SUBSET S
  BY <1>2, Zenon
<1>4. PICK x \in s : g[s] # f[x] + g[s \ {x}]
  BY <1>2, Zenon
<1>5. \A t \in SUBSET s : t # s => \A z \in t : g[t] = f[z] + g[t \ {z}]
  BY <1>2, <1>3, ZenonT(30)
<1>. HIDE DEF Bad
<1>6. PICK a \in s : a = First(s) /\ g[s] = f[a] + g[s \ {a}]
  <2>1. s # {}
    BY <1>4, Zenon
  <2>2. First(s) \in s
    BY <2>1, RestIsSmaller, Zenon
  <2>3. g[s] = f[First(s)] + g[Rest(s)]
    BY <1>3, <2>1, SumsUnfold
  <2>4. Rest(s) = s \ {First(s)}
    BY Zenon DEF Rest
  <2>. QED  BY <2>2, <2>3, <2>4, Zenon
<1>7. a # x
  BY <1>4, <1>6, Zenon
<1>8. g[s \ {a}] = f[x] + g[(s \ {a}) \ {x}]
  <2>1. s \ {a} \in SUBSET s /\ s \ {a} # s /\ x \in s \ {a}
    BY <1>6, <1>7, Zenon
  <2>. QED  BY <1>5, <2>1, Zenon
<1>9. g[s \ {x}] = f[a] + g[(s \ {x}) \ {a}]
  <2>1. s \ {x} \in SUBSET s /\ s \ {x} # s /\ a \in s \ {x}
    BY <1>7, Zenon
  <2>. QED  BY <1>5, <2>1, Zenon
<1>10. (s \ {a}) \ {x} = (s \ {x}) \ {a}
  BY Zenon
<1>11. PICK r \in Int : r = g[(s \ {a}) \ {x}]
  <2>1. (s \ {a}) \ {x} \in SUBSET S
    BY <1>3, Zenon
  <2>. QED  BY <2>1, SumsType, Zenon
<1>12. PICK i \in Int, j \in Int : i = f[a] /\ j = f[x]
  BY <1>3, Zenon DEF Summable
<1>13. g[s] = i + (j + r)
  BY <1>6, <1>8, <1>11, <1>12, Zenon
<1>14. f[x] + g[s \ {x}] = j + (i + r)
  BY <1>9, <1>10, <1>11, <1>12, Zenon
<1>15. i + (j + r) = j + (i + r)
  OBVIOUS
<1>. QED  BY <1>4, <1>13, <1>14, <1>15, Zenon

\* A sum of integers is an integer; the empty sum is zero.
LEMMA SumType ==
  ASSUME NEW S, IsFiniteSet(S), NEW f, Summable(f, S)
  PROVE  SumFunctionOnSet(f, S) \in Int /\ (S = {} => SumFunctionOnSet(f, S) = 0)
<1>1. PICK g : Sums(f, S, g) /\ SumFunctionOnSet(f, S) = g[S]
  BY SumIs, Zenon
<1>2. S \in SUBSET S
  BY Zenon
<1>3. g[S] \in Int
  BY <1>1, <1>2, SumsType, Zenon
<1>4. g[{}] = 0
  BY <1>1, SumsUnfold, Zenon
<1>. QED  BY <1>1, <1>3, <1>4, Zenon

\* A sum of naturals is not negative.
LEMMA SumNat ==
  ASSUME NEW S, IsFiniteSet(S), NEW f, \A x \in S : f[x] \in Nat
  PROVE  SumFunctionOnSet(f, S) \in Nat
<1>1. PICK g : Sums(f, S, g) /\ SumFunctionOnSet(f, S) = g[S]
  BY SumIs, Zenon
<1> DEFINE Bad == {s \in SUBSET S : g[s] \notin Nat}
<1>2. ASSUME Bad # {} PROVE FALSE
  <2>1. PICK s \in Bad : \A t \in SUBSET s : t # s => t \notin Bad
    <3>1. Bad \in SUBSET (SUBSET S)
      BY Zenon
    <3>. HIDE DEF Bad
    <3>. QED  BY <1>2, <3>1, SmallestSubset, Zenon
  <2>2. s \in SUBSET S /\ g[s] \notin Nat
    BY <2>1, Zenon
  <2>3. CASE s = {}
    BY <1>1, <2>2, <2>3, SumsUnfold
  <2>4. CASE s # {}
    <3>1. First(s) \in S /\ Rest(s) \in SUBSET s /\ Rest(s) # s
      BY <2>2, <2>4, RestIsSmaller, Zenon
    <3>2. g[Rest(s)] \in Nat
      BY <2>1, <2>2, <3>1, Zenon
    <3>3. g[s] = f[First(s)] + g[Rest(s)]
      BY <1>1, <2>2, <2>4, SumsUnfold
    <3>. QED  BY <2>2, <3>1, <3>2, <3>3
  <2>. QED  BY <2>3, <2>4, Zenon
<1>3. S \in SUBSET S
  BY Zenon
<1>. QED  BY <1>1, <1>2, <1>3, Zenon

\* Functions that agree on the set have one sum.
LEMMA SumRestrict ==
  ASSUME NEW S, IsFiniteSet(S), NEW f, NEW h, \A x \in S : f[x] = h[x]
  PROVE  SumFunctionOnSet(f, S) = SumFunctionOnSet(h, S)
<1>1. PICK g : Sums(f, S, g) /\ SumFunctionOnSet(f, S) = g[S]
  BY SumIs, Zenon
<1>2. PICK k : Sums(h, S, k) /\ SumFunctionOnSet(h, S) = k[S]
  BY SumIs, Zenon
<1>3. Sums(h, S, g)
  <2>1. \A s \in SUBSET S : (IF s = {} THEN 0 ELSE f[First(s)] + g[Rest(s)])
                            = (IF s = {} THEN 0 ELSE h[First(s)] + g[Rest(s)])
    <3>1. TAKE s \in SUBSET S
    <3>2. CASE s = {}
      BY <3>2, Zenon
    <3>3. CASE s # {}
      <4>1. f[First(s)] = h[First(s)]
        BY <3>3, RestIsSmaller, Zenon
      <4>. QED  BY <4>1, Zenon
    <3>. QED  BY <3>2, <3>3, Zenon
  <2>. QED  BY <1>1, <2>1, Zenon DEF Sums
<1>. QED  BY <1>1, <1>2, <1>3, SumsUnique, SMTT(30)

\* A sum of zeros is zero.
LEMMA SumZero ==
  ASSUME NEW S, IsFiniteSet(S), NEW f, \A x \in S : f[x] = 0
  PROVE  SumFunctionOnSet(f, S) = 0
<1>1. PICK g : Sums(f, S, g) /\ SumFunctionOnSet(f, S) = g[S]
  BY SumIs, Zenon
<1>2. PICK h : h = [s \in SUBSET S |-> 0]
  BY Zenon
<1>3. Sums(f, S, h)
  <2>1. \A s \in SUBSET S : (IF s = {} THEN 0 ELSE f[First(s)] + h[Rest(s)]) = 0
    <3>1. TAKE s \in SUBSET S
    <3>2. CASE s # {}
      <4>1. f[First(s)] = 0 /\ Rest(s) \in SUBSET S
        BY <3>2, RestIsSmaller, Zenon
      <4>. QED  BY <1>2, <4>1
    <3>. QED  BY <3>2, Zenon
  <2>. QED  BY <1>2, <2>1, Zenon DEF Sums
<1>4. g[S] = h[S]
  BY <1>1, <1>3, SumsUnique, SMTT(30)
<1>. QED  BY <1>1, <1>2, <1>4, Zenon

\* Any summand can be taken out.
LEMMA SumRemove ==
  ASSUME NEW S, IsFiniteSet(S), NEW f, Summable(f, S), NEW x \in S
  PROVE  SumFunctionOnSet(f, S) = f[x] + SumFunctionOnSet(f, S \ {x})
<1>1. PICK g : Sums(f, S, g) /\ SumFunctionOnSet(f, S) = g[S]
  BY SumIs, Zenon
<1>2. IsFiniteSet(S \ {x}) /\ S \ {x} \subseteq S
  BY FS_Subset, Zenon
<1>3. PICK h : Sums(f, S \ {x}, h) /\ SumFunctionOnSet(f, S \ {x}) = h[S \ {x}]
  BY <1>2, SumIs, Zenon
<1>4. g[S \ {x}] = h[S \ {x}]
  <2>1. PICK T : T = S \ {x}
    BY Zenon
  <2>2. /\ T \subseteq S /\ T \subseteq T /\ IsFiniteSet(T)
        /\ Sums(f, S, g) /\ Sums(f, T, h)
    BY <1>1, <1>2, <1>3, <2>1, Zenon
  <2>3. g[T] = h[T]
    BY <2>2, SumsUnique, SMTT(60)
  <2>. QED  BY <2>1, <2>3, Zenon
<1>5. g[S] = f[x] + g[S \ {x}]
  <2>1. S \in SUBSET S
    BY Zenon
  <2>. QED  BY <1>1, <2>1, SumsRemove
<1>. QED  BY <1>1, <1>3, <1>4, <1>5, Zenon

\* A sum follows the change of one summand.
LEMMA SumChange ==
  ASSUME NEW S, IsFiniteSet(S), NEW f, NEW h, Summable(f, S), Summable(h, S), NEW x \in S,
         \A y \in S : y # x => h[y] = f[y]
  PROVE  SumFunctionOnSet(h, S) = SumFunctionOnSet(f, S) - f[x] + h[x]
<1>1. SumFunctionOnSet(f, S) = f[x] + SumFunctionOnSet(f, S \ {x})
  BY SumRemove, Zenon
<1>2. SumFunctionOnSet(h, S) = h[x] + SumFunctionOnSet(h, S \ {x})
  BY SumRemove, Zenon
<1>3. IsFiniteSet(S \ {x})
  BY FS_Subset, Zenon
<1>4. SumFunctionOnSet(h, S \ {x}) = SumFunctionOnSet(f, S \ {x})
  BY <1>3, SumRestrict, Zenon
<1>5. Summable(f, S \ {x})
  BY Zenon DEF Summable
<1>6. SumFunctionOnSet(f, S \ {x}) \in Int
  BY <1>3, <1>5, SumType, Zenon
<1>7. f[x] \in Int /\ h[x] \in Int
  BY Zenon DEF Summable
<1>. QED  BY <1>1, <1>2, <1>4, <1>6, <1>7, SMTT(30)

-----------------------------------------------------------------------------
(***************************************************************************)
(* The ledger is solvent.  A note raises the worth of its serial by its    *)
(* value at most; a spend takes its serial, worth the note at least, off   *)
(* what is owed, and its outputs put back what is not paid out.            *)
(***************************************************************************)
\* A bounded set of naturals with an element has a largest one.
LEMMA LargestIs ==
  ASSUME NEW S \in SUBSET Nat, S # {}, NEW b \in Nat, \A x \in S : x <= b
  PROVE  \E m \in S : \A x \in S : m >= x
<1>. DEFINE U == {u \in Nat : \A x \in S : x <= u}
<1>1. U \subseteq Nat /\ U # {}
  BY Zenon
<1>2. PICK m \in U : \A u \in U : <<u, m>> \notin OpToRel(<, Nat)
  <2>. HIDE DEF U
  <2>. QED  BY <1>1, NatLessThanWellFounded, WFMin, ZenonT(30)
<1>3. m \in Nat /\ \A x \in S : x <= m
  BY Zenon
<1>4. \A u \in Nat : u < m => u \notin U
  BY <1>2, <1>3, Zenon DEF OpToRel
<1>. HIDE DEF U
<1>5. m \in S
  <2>1. SUFFICES ASSUME m \notin S PROVE FALSE
    BY Zenon
  <2>2. m \in Nat /\ \A x \in S : x < m
    BY <1>3, <2>1
  <2>3. m - 1 \in Nat /\ \A x \in S : x <= m - 1
    <3>1. PICK y \in S : y \in Nat /\ y < m
      BY <2>2, Zenon
    <3>2. \A x \in S : x \in Nat /\ x < m
      BY <2>2, Zenon
    <3>3. \A x \in Nat : x < m => x <= m - 1
      BY <2>2
    <3>. QED  BY <2>2, <3>1, <3>2, <3>3
  <2>4. m - 1 \in U
    BY <2>3, Zenon DEF U
  <2>. QED  BY <1>3, <1>4, <2>3, <2>4
<1>. QED  BY <1>3, <1>5, Zenon

\* The values of the notes of a list with one serial, the largest of them, and
\* what a vault owes for a list of notes when the serials of sp are spent.
ValuesOf(l, s) == {0} \union {n.value : n \in {m \in Range(l) : m.serial = s}}
WorthIn(l, s) == CHOOSE x \in ValuesOf(l, s) : \A y \in ValuesOf(l, s) : x >= y
OwedFor(l, sp) == SumFunctionOnSet([s \in Serials |-> WorthIn(l, s)], Serials \ sp)

\* These are the ledger's.
LEMMA SolventIs == Solvent <=> vault >= OwedFor(leaves, markers)
<1>1. \A s : Ledger!Worth(s) = WorthIn(leaves, s)
  BY Zenon DEF Ledger!Worth, Ledger!Max, Ledger!Range, Range, WorthIn, ValuesOf
<1>2. [s \in Serials |-> Ledger!Worth(s)] = [s \in Serials |-> WorthIn(leaves, s)]
  BY <1>1, Zenon
<1>3. ASSUME NEW f, NEW S PROVE Ledger!SumFunctionOnSet(f, S) = SumFunctionOnSet(f, S)
  BY Zenon DEF Ledger!SumFunctionOnSet, SumFunctionOnSet, Ledger!FoldFunctionOnSet,
     FoldFunctionOnSet, Ledger!MapThenFoldSet, MapThenFoldSet
<1>4. Ledger!Owed = OwedFor(leaves, markers)
  BY <1>2, <1>3, ZenonT(30) DEF Ledger!Owed, OwedFor
<1>. QED  BY <1>4, Zenon DEF Solvent, Ledger!Solvent

\* The worth of a serial is the value of a note that has it, or zero, and no
\* note that has it is worth more.
LEMMA WorthIs ==
  ASSUME NEW l \in Seq(Notes), NEW s
  PROVE  /\ WorthIn(l, s) \in Nat
         /\ WorthIn(l, s) \in ValuesOf(l, s)
         /\ \A v \in ValuesOf(l, s) : v \in Nat /\ v <= WorthIn(l, s)
<1>1. \A n \in Range(l) : n.value \in Nat /\ n.value <= ValueLimit
  <2>1. \A n \in Range(l) : n \in Notes
    BY LenProperties DEF Range
  <2>2. \A n \in Notes : n.value \in Nat /\ n.value <= ValueLimit
    BY ValueAssumption DEF Notes, Values
  <2>. QED  BY <2>1, <2>2, Zenon
<1>2. ValuesOf(l, s) \in SUBSET Nat /\ ValuesOf(l, s) # {}
      /\ \A v \in ValuesOf(l, s) : v <= ValueLimit
  BY <1>1, ValueAssumption DEF ValuesOf
<1>3. \E m \in ValuesOf(l, s) : \A v \in ValuesOf(l, s) : m >= v
  BY <1>2, ValueAssumption, LargestIs, ZenonT(30)
<1>4. /\ WorthIn(l, s) \in ValuesOf(l, s)
      /\ \A v \in ValuesOf(l, s) : WorthIn(l, s) >= v
  BY <1>3, Zenon DEF WorthIn
<1>. QED  BY <1>2, <1>4, Zenon

\* One more note raises the worth of its own serial only, by its value at most.
LEMMA WorthAfter ==
  ASSUME NEW l \in Seq(Notes), NEW n \in Notes, NEW s
  PROVE  /\ Append(l, n) \in Seq(Notes)
         /\ s # n.serial => WorthIn(Append(l, n), s) = WorthIn(l, s)
         /\ WorthIn(Append(l, n), s) <= WorthIn(l, s) + n.value
<1>1. Append(l, n) \in Seq(Notes)
  BY AppendProperties, Zenon
<1>2. Range(Append(l, n)) = Range(l) \union {n}
  BY AppendProperties, LenProperties, <1>1, SMTT(30) DEF Range
<1>3. s # n.serial => ValuesOf(Append(l, n), s) = ValuesOf(l, s)
  BY <1>2, Zenon DEF ValuesOf
<1>4. s = n.serial => ValuesOf(Append(l, n), s) = ValuesOf(l, s) \union {n.value}
  BY <1>2, Zenon DEF ValuesOf
<1>5. WorthIn(l, s) \in Nat /\ \A v \in ValuesOf(l, s) : v <= WorthIn(l, s)
  BY WorthIs, Zenon
<1>6. WorthIn(Append(l, n), s) \in ValuesOf(Append(l, n), s)
  BY <1>1, WorthIs, Zenon
<1>7. n.value \in Nat
  BY ValueAssumption DEF Notes, Values
<1>8. s # n.serial => WorthIn(Append(l, n), s) = WorthIn(l, s)
  BY <1>3, Zenon DEF WorthIn
<1>9. WorthIn(Append(l, n), s) <= WorthIn(l, s) + n.value
  <2>1. CASE s # n.serial
    BY <2>1, <1>5, <1>7, <1>8, SMTT(30)
  <2>2. CASE s = n.serial
    <3>1. WorthIn(Append(l, n), s) = n.value \/ WorthIn(Append(l, n), s) \in ValuesOf(l, s)
      BY <2>2, <1>4, <1>6, Zenon
    <3>2. \A v \in ValuesOf(l, s) : v \in Nat
      BY WorthIs, Zenon
    <3>. QED  BY <1>5, <1>7, <3>1, <3>2, SMTT(30)
  <2>. QED  BY <2>1, <2>2, Zenon
<1>. QED  BY <1>1, <1>8, <1>9, Zenon

\* What is owed after a note, and after a spend.
LEMMA OwedAfterNote ==
  ASSUME NEW l \in Seq(Notes), NEW n \in Notes, NEW sp
  PROVE  /\ OwedFor(l, sp) \in Int /\ OwedFor(Append(l, n), sp) \in Int
         /\ OwedFor(Append(l, n), sp) <= OwedFor(l, sp) + n.value
<1>. DEFINE S == Serials \ sp
            f == [s \in Serials |-> WorthIn(l, s)]
            h == [s \in Serials |-> WorthIn(Append(l, n), s)]
<1>1. IsFiniteSet(S)
  BY SerialAssumption, FS_Subset, Zenon
<1>2. \A s \in S : /\ f[s] = WorthIn(l, s) /\ h[s] = WorthIn(Append(l, n), s)
                   /\ f[s] \in Nat /\ h[s] \in Nat
  BY WorthIs, WorthAfter, Zenon
<1>3. Summable(f, S) /\ Summable(h, S)
  BY <1>2 DEF Summable
<1>4. OwedFor(l, sp) = SumFunctionOnSet(f, S) /\ OwedFor(Append(l, n), sp) = SumFunctionOnSet(h, S)
  BY Zenon DEF OwedFor
<1>5. n.value \in Nat
  BY ValueAssumption DEF Notes, Values
<1>6. \A s \in S : /\ s # n.serial => h[s] = f[s]
                   /\ h[s] <= f[s] + n.value
  BY <1>2, WorthAfter, Zenon
<1>. HIDE DEF f, h, S
<1>7. SumFunctionOnSet(f, S) \in Int /\ SumFunctionOnSet(h, S) \in Int
  BY <1>1, <1>3, SumType, Zenon
<1>8. CASE n.serial \notin S
  <2>1. SumFunctionOnSet(h, S) = SumFunctionOnSet(f, S)
    BY <1>1, <1>6, <1>8, SumRestrict, Zenon
  <2>. QED  BY <1>4, <1>5, <1>7, <2>1, SMTT(30)
<1>9. CASE n.serial \in S
  <2>1. SumFunctionOnSet(h, S) = SumFunctionOnSet(f, S) - f[n.serial] + h[n.serial]
    BY <1>1, <1>3, <1>6, <1>9, SumChange, SMTT(30)
  <2>2. /\ f[n.serial] \in Nat /\ h[n.serial] \in Nat
        /\ h[n.serial] <= f[n.serial] + n.value
    BY <1>2, <1>6, <1>9, Zenon
  <2>. QED  BY <1>4, <1>5, <1>7, <2>1, <2>2, SMTT(30)
<1>. QED  BY <1>8, <1>9, Zenon

LEMMA OwedAfterSpend ==
  ASSUME NEW l \in Seq(Notes), NEW n \in Range(l), NEW sp, n.serial \notin sp
  PROVE  /\ OwedFor(l, sp) \in Int /\ OwedFor(l, sp \union {n.serial}) \in Int
         /\ OwedFor(l, sp \union {n.serial}) <= OwedFor(l, sp) - n.value
<1>. DEFINE S == Serials \ sp
            f == [s \in Serials |-> WorthIn(l, s)]
<1>1. n \in Notes
  BY LenProperties DEF Range
<1>2. n.serial \in S /\ n.value \in Nat
  BY <1>1, ValueAssumption, SMTT(30) DEF Notes, Values
<1>3. IsFiniteSet(S) /\ IsFiniteSet(S \ {n.serial})
  BY SerialAssumption, FS_Subset, Zenon
<1>4. \A s \in S : f[s] = WorthIn(l, s) /\ f[s] \in Nat
  BY WorthIs, Zenon
<1>5. Summable(f, S) /\ Summable(f, S \ {n.serial})
  BY <1>4 DEF Summable
<1>6. /\ OwedFor(l, sp) = SumFunctionOnSet(f, S)
      /\ OwedFor(l, sp \union {n.serial}) = SumFunctionOnSet(f, S \ {n.serial})
  <2>1. Serials \ (sp \union {n.serial}) = S \ {n.serial}
    BY Zenon
  <2>. QED  BY <2>1, Zenon DEF OwedFor
<1>7. n.value <= f[n.serial]
  <2>1. n.value \in ValuesOf(l, n.serial)
    BY Zenon DEF ValuesOf
  <2>2. n.value <= WorthIn(l, n.serial)
    BY <2>1, WorthIs, Zenon
  <2>. QED  BY <1>2, <1>4, <2>2, Zenon
<1>8. f[n.serial] \in Nat
  BY <1>2, <1>4, Zenon
<1>. HIDE DEF f, S
<1>9. SumFunctionOnSet(f, S) \in Int /\ SumFunctionOnSet(f, S \ {n.serial}) \in Int
  BY <1>3, <1>5, SumType, Zenon
<1>10. SumFunctionOnSet(f, S) = f[n.serial] + SumFunctionOnSet(f, S \ {n.serial})
  BY <1>2, <1>3, <1>5, SumRemove, Zenon
<1>. QED  BY <1>2, <1>6, <1>7, <1>8, <1>9, <1>10, SMTT(30)

\* The notes that a spend appends raise what is owed by their total at most.
LEMMA OwedAfterOutputs ==
  ASSUME NEW l \in Seq(Notes), NEW outs \in OutputLists, NEW sp
  PROVE  /\ OwedFor(l \o outs, sp) \in Int /\ OwedFor(l, sp) \in Int /\ Total(outs) \in Nat
         /\ OwedFor(l \o outs, sp) <= OwedFor(l, sp) + Total(outs)
<1>1. \A n \in Notes : n.value \in Nat
  BY ValueAssumption DEF Notes, Values
<1>2. CASE \E n \in Notes : outs = <<n>>
  <2>1. PICK n \in Notes : outs = <<n>>
    BY <1>2, Zenon
  <2>2. l \o outs = Append(l, n) /\ Total(outs) = n.value
    BY <2>1, AppendIsConcat, Zenon DEF Total
  <2>. QED  BY <1>1, <2>2, OwedAfterNote, Zenon
<1>3. CASE \E n \in Notes, m \in Notes : outs = <<n, m>>
  <2>1. PICK n \in Notes, m \in Notes : outs = <<n, m>>
    BY <1>3, Zenon
  <2>2. Append(l, n) \in Seq(Notes)
    BY AppendProperties, Zenon
  <2>3. l \o outs = Append(Append(l, n), m) /\ Total(outs) = n.value + m.value
    <3>1. Len(outs) = 2 /\ outs[1] = n /\ outs[2] = m
      BY <2>1, Zenon
    <3>2. l \o outs = Append(Append(l, n), m)
      BY <2>1
    <3>. QED  BY <3>1, <3>2 DEF Total
  <2>4. /\ OwedFor(l, sp) \in Int /\ OwedFor(Append(l, n), sp) \in Int
        /\ OwedFor(Append(l, n), sp) <= OwedFor(l, sp) + n.value
    BY OwedAfterNote, Zenon
  <2>5. /\ OwedFor(Append(Append(l, n), m), sp) \in Int
        /\ OwedFor(Append(Append(l, n), m), sp) <= OwedFor(Append(l, n), sp) + m.value
    BY <2>2, OwedAfterNote, ZenonT(30)
  <2>. QED  BY <1>1, <2>3, <2>4, <2>5, SMTT(30)
<1>. QED  BY <1>2, <1>3 DEF OutputLists

\* A step of the ledger takes no more out of the vault than it takes off what
\* is owed.
LEMMA LedgerStaysSolvent ==
  ASSUME leaves \in Seq(Notes), vault \in Nat, [Ledger!Next]_(Ledger!vars),
         vault >= OwedFor(leaves, markers)
  PROVE  vault' >= OwedFor(leaves', markers')
<1>1. CASE UNCHANGED Ledger!vars
  BY <1>1, Zenon DEF Ledger!vars
<1>2. CASE \E n \in Notes : Ledger!Deposit(n)
  <2>1. PICK n \in Notes : Ledger!Deposit(n)
    BY <1>2, Zenon
  <2>2. /\ leaves' = Append(leaves, n) /\ vault' = vault + n.value /\ markers' = markers
        /\ n.value \in Nat
    BY <2>1, ValueAssumption, SMTT(30) DEF Ledger!Deposit, Notes, Values
  <2>3. /\ OwedFor(leaves, markers) \in Int /\ OwedFor(leaves', markers') \in Int
        /\ OwedFor(leaves', markers') <= OwedFor(leaves, markers) + n.value
    BY <2>2, OwedAfterNote, Zenon
  <2>. QED  BY <2>2, <2>3
<1>3. CASE \E n \in Notes, outs \in OutputLists, a \in Values : Ledger!Spend(n, outs, a)
  <2>1. PICK n \in Notes, outs \in OutputLists, a \in Values : Ledger!Spend(n, outs, a)
    BY <1>3, Zenon
  <2>2. /\ n \in Range(leaves) /\ n.serial \notin markers /\ n.value = a + Total(outs)
        /\ leaves' = leaves \o outs /\ markers' = markers \union {n.serial}
        /\ vault' = vault - a /\ a \in Nat /\ n.value \in Nat
    BY <2>1, ValueAssumption, SMTT(30)
    DEF Ledger!Spend, Ledger!Range, Range, Ledger!Total, Total, Notes, Values
  <2>3. /\ OwedFor(leaves, markers) \in Int /\ OwedFor(leaves, markers') \in Int
        /\ OwedFor(leaves, markers') <= OwedFor(leaves, markers) - n.value
    BY <2>2, OwedAfterSpend, Zenon
  <2>4. /\ OwedFor(leaves', markers') \in Int /\ Total(outs) \in Nat
        /\ OwedFor(leaves', markers') <= OwedFor(leaves, markers') + Total(outs)
    BY <2>2, OwedAfterOutputs, Zenon
  <2>. QED  BY <2>2, <2>3, <2>4
<1>4. CASE \E v \in Values : Ledger!Donate(v)
  <2>1. PICK v \in Values : Ledger!Donate(v)
    BY <1>4, Zenon
  <2>2. vault' = vault + v /\ v \in Nat /\ leaves' = leaves /\ markers' = markers
    BY <2>1, ValueAssumption DEF Ledger!Donate, Values
  <2>3. OwedFor(leaves, markers) \in Int
    <3>1. IsFiniteSet(Serials \ markers)
      BY SerialAssumption, FS_Subset, Zenon
    <3>2. Summable([s \in Serials |-> WorthIn(leaves, s)], Serials \ markers)
      BY WorthIs DEF Summable
    <3>. QED  BY <3>1, <3>2, SumType, Zenon DEF OwedFor
  <2>. QED  BY <2>2, <2>3
<1>. QED  BY <1>1, <1>2, <1>3, <1>4, Zenon
     DEF Ledger!Next, Ledger!Notes, Notes, Ledger!Values, Values, Ledger!OutputLists, OutputLists

\* Solvent: through deposits, spends direct or prepared, donations, pauses and
\* cancelled plans, the vault holds what all unspent serials are worth together,
\* for every capacity and every finite set of serials.
THEOREM PoolIsSolvent == Spec => []Solvent
<1>1. Init => Solvent
  <2>1. SUFFICES ASSUME Init PROVE vault >= OwedFor(leaves, markers)
    BY SolventIs, Zenon
  <2>2. leaves = <<>> /\ vault = 0
    BY <2>1, Zenon DEF Init
  <2>3. \A s \in Serials : WorthIn(leaves, s) = 0
    <3>1. TAKE s \in Serials
    <3>2. leaves \in Seq(Notes) /\ Range(leaves) = {}
      BY <2>2 DEF Range
    <3>3. ValuesOf(leaves, s) = {0}
      BY <3>2, Zenon DEF ValuesOf
    <3>. QED  BY <3>2, <3>3, WorthIs, Zenon
  <2>4. IsFiniteSet(Serials \ markers)
    BY SerialAssumption, FS_Subset, Zenon
  <2>5. \A s \in Serials \ markers : [t \in Serials |-> WorthIn(leaves, t)][s] = 0
    BY <2>3, Zenon
  <2>6. OwedFor(leaves, markers) = 0
    BY <2>4, <2>5, SumZero, Zenon DEF OwedFor
  <2>. QED  BY <2>2, <2>6
<1>2. IInv /\ Solvent /\ [Next]_vars => Solvent'
  <2>1. SUFFICES ASSUME IInv, Solvent, [Next]_vars PROVE Solvent'
    BY Zenon
  <2>2. leaves \in Seq(Notes) /\ vault \in Nat
    BY <2>1 DEF IInv, TypeOK, Roots
  <2>3. vault' >= OwedFor(leaves', markers')
    BY <2>1, <2>2, SolventIs, StepRefines, LedgerStaysSolvent, Zenon
  <2>4. (Solvent <=> vault >= OwedFor(leaves, markers))'
    BY SolventIs, PTL
  <2>. QED  BY <2>3, <2>4, Zenon
<1>. QED  BY <1>1, <1>2, PoolInvariant, PTL DEF Spec

\* The vault can pay every unspent note.
LEMMA UnspentIsCovered ==
  ASSUME leaves \in Seq(Notes), vault \in Nat, Solvent,
         NEW n \in Range(leaves), n.serial \notin markers
  PROVE  n.value <= vault
<1>1. vault >= OwedFor(leaves, markers)
  BY SolventIs, Zenon
<1>2. /\ OwedFor(leaves, markers) \in Int
      /\ OwedFor(leaves, markers \union {n.serial}) <= OwedFor(leaves, markers) - n.value
  BY OwedAfterSpend, Zenon
<1>3. OwedFor(leaves, markers \union {n.serial}) \in Nat
  <2>1. PICK S, f : S = Serials \ (markers \union {n.serial}) /\ f = [s \in Serials |-> WorthIn(leaves, s)]
    BY Zenon
  <2>2. IsFiniteSet(S)
    BY <2>1, SerialAssumption, FS_Subset, Zenon
  <2>3. \A s \in S : f[s] \in Nat
    BY <2>1, WorthIs, Zenon
  <2>4. SumFunctionOnSet(f, S) \in Nat
    BY <2>2, <2>3, SumNat, Zenon
  <2>. QED  BY <2>1, <2>4, Zenon DEF OwedFor
<1>4. n.value \in Nat
  <2>1. n \in Notes
    BY LenProperties DEF Range
  <2>. QED  BY <2>1, ValueAssumption DEF Notes, Values
<1>. QED  BY <1>1, <1>2, <1>3, <1>4

\* NoteStaysWithdrawable: while a leaf is free and a release is active, the
\* Pool accepts the withdrawal of every unspent note in full, under the root
\* of any sequence since the note was appended (NoteNeverStranded, for every
\* capacity, page size and note).
THEOREM NotesStayWithdrawable == Spec => []NoteStaysWithdrawable
<1>1. IInv /\ Solvent => NoteStaysWithdrawable
  <2>1. SUFFICES ASSUME IInv, Solvent PROVE NoteStaysWithdrawable
    BY Zenon
  <2>2. leaves \in Seq(Notes) /\ vault \in Nat
    BY <2>1 DEF IInv, TypeOK, Roots
  <2>3. Covered
    BY <2>1, <2>2, UnspentIsCovered, Zenon DEF Covered
  <2>. QED  BY <2>1, <2>3, CoveredIsWithdrawable, Zenon
<1>. QED  BY <1>1, PoolInvariant, PoolIsSolvent, PTL
=============================================================================
