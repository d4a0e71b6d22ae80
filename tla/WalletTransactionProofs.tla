---------------------- MODULE WalletTransactionProofs ----------------------
(***************************************************************************)
(* Proofs about WalletTransaction, for every chain, every set of faults    *)
(* and every bound.                                                        *)
(***************************************************************************)
EXTENDS WalletTransaction, SequenceTheorems, FiniteSetTheorems, TLAPS

(***************************************************************************)
(* Images and the operations they commit.                                  *)
(***************************************************************************)
LEMMA OperationType ==
  ASSUME NEW image \in Images
  PROVE  /\ image.records \in Seq(Records)
         /\ Operation(image) \in Seq(Operations)
         /\ Len(Operation(image)) = Len(image.records) /\ Len(image.records) \in Nat
         /\ DOMAIN image.records = 1..Len(image.records)
         /\ \A i \in 1..Len(image.records) : /\ image.records[i] \in Records
                                             /\ Operation(image)[i] = image.records[i].op
<1>. DEFINE rs == image.records
<1>1. rs \in Seq(Records)
  BY Zenon DEF Images
<1>2. /\ Len(rs) \in Nat /\ DOMAIN rs = 1..Len(rs)
      /\ \A i \in 1..Len(rs) : rs[i] \in Records
  BY <1>1, LenProperties, ElementOfSeq, Zenon
<1>3. /\ DOMAIN Operation(image) = 1..Len(rs)
      /\ \A i \in 1..Len(rs) : Operation(image)[i] = rs[i].op /\ rs[i].op \in Operations
  BY <1>2, Zenon DEF Operation, Records
<1>4. Operation(image) = [i \in 1..Len(rs) |-> rs[i].op]
  BY <1>2, Zenon DEF Operation
<1>5. Operation(image) \in Seq(Operations) /\ Len(Operation(image)) = Len(rs)
  <2>. HIDE DEF rs
  <2>. QED  BY <1>2, <1>3, <1>4
<1>. QED  BY <1>1, <1>2, <1>3, <1>5, Zenon

\* The committed operations: all of them, or all but a staged last one.
LEMMA CommittedForms ==
  ASSUME NEW image \in Images, image # None
  PROVE  /\ pending_candidate(image) =>
              /\ Len(image.records) \in Nat \ {0}
              /\ committed(image) = SubSeq(Operation(image), 1, Len(image.records) - 1)
         /\ ~pending_candidate(image) => committed(image) = Operation(image)
<1>1. image.records # << >> => Len(image.records) \in Nat \ {0}
  BY OperationType, EmptySeq, Zenon
<1>. QED  BY <1>1, Zenon DEF committed, pending_candidate

LEMMA PrefixType ==
  ASSUME NEW S, NEW s \in Seq(S), NEW n \in 0..Len(s)
  PROVE  /\ SubSeq(s, 1, n) \in Seq(S) /\ Len(SubSeq(s, 1, n)) = n
         /\ \A j \in 1..n : SubSeq(s, 1, n)[j] = s[j]
<1>1. \A j \in 1..n : s[j] \in S
  BY LenProperties, ElementOfSeq
<1>. QED  BY <1>1, SubSeqProperties, LenProperties

LEMMA PrefixOfAppend ==
  ASSUME NEW S, NEW s \in Seq(S), NEW e \in S
  PROVE  SubSeq(Append(s, e), 1, Len(s)) = s
<1>1. /\ Append(s, e) \in Seq(S) /\ Len(Append(s, e)) = Len(s) + 1
      /\ \A j \in 1..Len(s) : Append(s, e)[j] = s[j]
  BY AppendProperties
<1>2. Len(s) \in Nat /\ Len(s) \in 0..Len(Append(s, e))
  BY <1>1, LenProperties
<1>3. /\ SubSeq(Append(s, e), 1, Len(s)) \in Seq(S) /\ Len(SubSeq(Append(s, e), 1, Len(s))) = Len(s)
      /\ \A j \in 1..Len(s) : SubSeq(Append(s, e), 1, Len(s))[j] = Append(s, e)[j]
  BY <1>1, <1>2, PrefixType, Zenon
<1>. QED  BY <1>1, <1>3, SeqEqual, Zenon

LEMMA SplitLast ==
  ASSUME NEW S, NEW s \in Seq(S), Len(s) \in Nat \ {0}
  PROVE  s = Append(SubSeq(s, 1, Len(s) - 1), s[Len(s)])
<1>. DEFINE n == Len(s) - 1
            p == SubSeq(s, 1, n)
<1>1. n \in 0..Len(s) /\ n \in Nat /\ Len(s) = n + 1 /\ Len(s) \in 1..Len(s)
  OBVIOUS
<1>2. p \in Seq(S) /\ Len(p) = n /\ \A j \in 1..n : p[j] = s[j]
  BY <1>1, PrefixType, Zenon
<1>3. s[Len(s)] \in S
  BY <1>1, ElementOfSeq, Zenon
<1>. HIDE DEF p, n
<1>4. /\ Append(p, s[Len(s)]) \in Seq(S) /\ Len(Append(p, s[Len(s)])) = n + 1
      /\ \A j \in 1..n : Append(p, s[Len(s)])[j] = p[j]
      /\ Append(p, s[Len(s)])[n + 1] = s[Len(s)]
  BY <1>2, <1>3, AppendProperties
<1>5. \A j \in 1..Len(s) : j \in 1..n \/ j = n + 1
  BY <1>1
<1>6. \A j \in 1..Len(s) : Append(p, s[Len(s)])[j] = s[j]
  BY <1>1, <1>2, <1>4, <1>5, Zenon
<1>7. s = Append(p, s[Len(s)])
  BY <1>1, <1>4, <1>6, SeqEqual, Zenon
<1>. QED  BY <1>7, Zenon DEF p, n

LEMMA CommittedType ==
  ASSUME NEW image \in MaybeImages
  PROVE  committed(image) \in Seq(Operations)
<1>1. CASE image = None
  BY <1>1 DEF committed
<1>2. CASE image \in Images /\ image # None
  <2>1. Operation(image) \in Seq(Operations) /\ Len(Operation(image)) = Len(image.records)
    BY <1>2, OperationType, Zenon
  <2>2. CASE pending_candidate(image)
    <3>1. /\ Len(image.records) \in Nat \ {0}
          /\ committed(image) = SubSeq(Operation(image), 1, Len(image.records) - 1)
      BY <1>2, <2>2, CommittedForms, Zenon
    <3>2. Len(image.records) - 1 \in 0..Len(Operation(image))
      BY <2>1, <3>1
    <3>. QED  BY <2>1, <3>1, <3>2, PrefixType, Zenon
  <2>3. CASE ~pending_candidate(image)
    BY <1>2, <2>1, <2>3, CommittedForms, Zenon
  <2>. QED  BY <2>2, <2>3, Zenon
<1>. QED  BY <1>1, <1>2, Zenon DEF MaybeImages

(***************************************************************************)
(* How a replacement changes what is committed.                            *)
(***************************************************************************)
\* Staging an operation commits nothing.
LEMMA StagingGrows ==
  ASSUME NEW image \in Images, image # None, ~pending_candidate(image),
         NEW next \in Images, next # None, NEW r \in Records, r.phase = "Prepared",
         next.records = Append(image.records, r)
  PROVE  Grows(image, next)
<1>. DEFINE len == Len(image.records)
<1>1. /\ image.records \in Seq(Records) /\ len \in Nat
      /\ Operation(image) \in Seq(Operations) /\ Len(Operation(image)) = len
      /\ \A i \in 1..len : Operation(image)[i] = image.records[i].op
  BY OperationType, Zenon
<1>2. /\ Operation(next) \in Seq(Operations) /\ Len(Operation(next)) = Len(next.records)
      /\ \A i \in 1..Len(next.records) : Operation(next)[i] = next.records[i].op
  BY OperationType, Zenon
<1>3. /\ Len(next.records) = len + 1 /\ next.records[len + 1] = r
      /\ \A i \in 1..len : next.records[i] = image.records[i]
  BY <1>1, AppendProperties
<1>. HIDE DEF len
<1>4. pending_candidate(next)
  <2>1. next.records \in Seq(Records) /\ Len(next.records) # 0
    BY <1>1, <1>3, OperationType
  <2>2. next.records # << >>
    BY <2>1, EmptySeq, Zenon
  <2>. QED  BY <1>3, <2>2, Zenon DEF pending_candidate
<1>5. committed(next) = SubSeq(Operation(next), 1, len)
  <2>1. committed(next) = SubSeq(Operation(next), 1, Len(next.records) - 1)
    BY <1>4, CommittedForms, Zenon
  <2>2. Len(next.records) - 1 = len
    BY <1>1, <1>3
  <2>. QED  BY <2>1, <2>2, Zenon
<1>6. len \in 0..Len(Operation(next)) /\ \A i \in 1..len : i \in 1..Len(next.records)
  BY <1>1, <1>2, <1>3
<1>7. /\ committed(next) \in Seq(Operations) /\ Len(committed(next)) = len
      /\ \A j \in 1..len : committed(next)[j] = Operation(next)[j]
  BY <1>2, <1>5, <1>6, PrefixType
<1>8. \A j \in 1..len : committed(next)[j] = Operation(image)[j]
  BY <1>1, <1>2, <1>3, <1>6, <1>7, Zenon
<1>9. committed(next) = Operation(image)
  BY <1>1, <1>7, <1>8, SeqEqual, Zenon
<1>. QED  BY <1>9, CommittedForms, Zenon DEF Grows

\* Advancing the staged operation commits nothing, or that operation.
LEMMA AdvancingGrows ==
  ASSUME NEW image \in Images, image # None, pending_candidate(image), Sound(image),
         NEW next \in Images, next # None, replay_authoritative_image(next),
         NEW target \in Phases,
         next.records = [image.records EXCEPT ![Len(image.records)].phase = target]
  PROVE  Grows(image, next)
<1>. DEFINE len == Len(image.records)
            op == image.records[len].op
            done == SubSeq(Operation(image), 1, len - 1)
<1>1. /\ image.records \in Seq(Records) /\ len \in Nat \ {0}
      /\ Operation(image) \in Seq(Operations) /\ Len(Operation(image)) = len
      /\ DOMAIN image.records = 1..len
      /\ \A i \in 1..len : /\ image.records[i] \in Records
                           /\ Operation(image)[i] = image.records[i].op
      /\ committed(image) = done
  BY OperationType, CommittedForms, Zenon
<1>2. /\ DOMAIN next.records = 1..len /\ Len(next.records) = len
      /\ \A i \in 1..len : next.records[i].op = image.records[i].op
  <2>. DEFINE rs == image.records
  <2>1. next.records = [rs EXCEPT ![len] = [@ EXCEPT !.phase = target]]
    BY Zenon
  <2>2. /\ rs \in Seq(Records) /\ DOMAIN rs = 1..len /\ len \in 1..len
        /\ \A i \in 1..len : rs[i] \in Records
    BY <1>1
  <2>. HIDE DEF rs, len
  <2>3. /\ DOMAIN next.records = 1..len
        /\ \A i \in 1..len : next.records[i] = IF i = len THEN [rs[len] EXCEPT !.phase = target]
                                                        ELSE rs[i]
    BY <2>1, <2>2, Zenon
  <2>4. \A i \in 1..len : next.records[i].op = rs[i].op
    BY <2>2, <2>3 DEF Records
  <2>5. DOMAIN next.records = 1..Len(next.records) /\ Len(next.records) \in Nat /\ len \in Nat
    BY <1>1, OperationType, Zenon
  <2>6. Len(next.records) = len
    BY <2>3, <2>5
  <2>. QED  BY <2>3, <2>4, <2>6, Zenon DEF rs
<1>3. /\ Operation(next) \in Seq(Operations) /\ Len(Operation(next)) = len
      /\ \A i \in 1..len : Operation(next)[i] = next.records[i].op
  BY <1>2, OperationType, Zenon
<1>. HIDE DEF len
<1>4. Operation(next) = Operation(image)
  BY <1>1, <1>2, <1>3, SeqEqual
<1>5. len \in 1..len /\ len \in 1..Len(next.records)
  BY <1>1, <1>2
<1>6. CASE pending_candidate(next)
  <2>1. committed(next) = done
    BY <1>2, <1>4, <1>6, CommittedForms, Zenon
  <2>. QED  BY <1>1, <2>1, Zenon DEF Grows
<1>7. CASE ~pending_candidate(next)
  <2>1. committed(next) = Operation(image)
    BY <1>4, <1>7, CommittedForms, Zenon
  <2>2. Operation(image) = Append(done, Operation(image)[len])
    BY <1>1, SplitLast, Zenon
  <2>3. Operation(image)[len] = op /\ op \in Operations /\ OnChain(op)
    BY <1>1, <1>5, Zenon DEF Sound, Records
  <2>4. Applies(done, op)
    <3>1. Applies(SubSeq(Operation(next), 1, len - 1), next.records[len].op)
      BY <1>2, <1>5, Zenon DEF replay_authoritative_image
    <3>. QED  BY <1>2, <1>4, <1>5, <3>1, Zenon
  <2>5. committed(next) # << >> /\ committed(next)[Len(committed(next))] = op
    BY <1>1, <2>1, <2>3
  <2>. QED  BY <1>1, <2>1, <2>2, <2>3, <2>4, <2>5, Zenon DEF Grows
<1>. QED  BY <1>6, <1>7, Zenon

\* A tentative update commits nothing.
LEMMA SightingGrows ==
  ASSUME NEW image \in Images, image # None, ~pending_candidate(image),
         NEW next \in Images, next # None, next.records = image.records
  PROVE  Grows(image, next)
<1>1. ~pending_candidate(next) /\ Operation(next) = Operation(image)
  BY Zenon DEF pending_candidate, Operation
<1>. QED  BY <1>1, CommittedForms, Zenon DEF Grows

(***************************************************************************)
(* Logs that grow.                                                         *)
(***************************************************************************)
Before(a, b) == a.block < b.block \/ (a.block = b.block /\ a.pos < b.pos)

LEMMA BeforeTransitive ==
  ASSUME NEW a \in Operations, NEW b \in Operations, NEW c \in Operations,
         Before(a, b), Before(b, c)
  PROVE  Before(a, c)
BY DEF Before, Operations

\* An operation that applies comes after everything in the log.
LEMMA AppliesLast ==
  ASSUME NEW log \in Seq(Operations), Ordered(log), NEW op \in Operations, Applies(log, op),
         NEW i \in 1..Len(log)
  PROVE  Before(log[i], op)
<1>. DEFINE n == Len(log)
<1>1. /\ n \in Nat /\ DOMAIN log = 1..n /\ n \in 1..n /\ i \in Int
      /\ log[n] \in Operations /\ log[i] \in Operations /\ log # << >>
  BY LenProperties, ElementOfSeq, EmptySeq
<1>2. finalized_head(log) = log[n].block
  BY <1>1, Zenon DEF finalized_head
<1>3. Before(log[n], op)
  BY <1>1, <1>2, SMTT(30)
     DEF Applies, validate_finalized_order, validate_empty_finalized_order, Before,
                    Operations
<1>4. CASE i = n
  BY <1>3, <1>4, Zenon
<1>5. CASE i < n
  <2>1. Before(log[i], log[n])
    BY <1>1, <1>5, Zenon DEF Ordered, Before
  <2>. QED  BY <1>1, <1>3, <2>1, BeforeTransitive, Zenon
<1>6. i = n \/ i < n
  <2>1. Len(log) \in Nat
    BY LenProperties, Zenon
  <2>. QED  BY <2>1
<1>. QED  BY <1>4, <1>5, <1>6, Zenon

LEMMA OrderedAppend ==
  ASSUME NEW log \in Seq(Operations), Ordered(log), NEW op \in Operations, Applies(log, op)
  PROVE  Ordered(Append(log, op))
<1>. DEFINE n == Len(log)
            new == Append(log, op)
<1>1. /\ n \in Nat /\ DOMAIN log = 1..n /\ new \in Seq(Operations) /\ Len(new) = n + 1
      /\ \A i \in 1..n : new[i] = log[i]
      /\ new[n + 1] = op
  BY AppendProperties, LenProperties
<1>2. DOMAIN new = 1..(n + 1)
  BY <1>1, LenProperties, Zenon
<1>. HIDE DEF n, new
<1>3. ASSUME NEW i \in 1..(n + 1), NEW j \in 1..(n + 1), i < j
      PROVE  Before(new[i], new[j])
  <2>1. i \in 1..n /\ (j \in 1..n \/ j = n + 1)
    BY <1>1, <1>3
  <2>2. CASE j \in 1..n
    <3>1. Before(log[i], log[j])
      BY <1>1, <1>3, <2>1, <2>2, Zenon DEF Ordered, Before
    <3>. QED  BY <1>1, <2>1, <2>2, <3>1, Zenon
  <2>3. CASE j = n + 1
    <3>1. Before(log[i], op)
      BY <2>1, AppliesLast, Zenon DEF n
    <3>. QED  BY <1>1, <2>1, <2>3, <3>1, Zenon
  <2>. QED  BY <2>1, <2>2, <2>3, Zenon
<1>4. Ordered(new)
  BY <1>2, <1>3, Zenon DEF Ordered, Before
<1>. QED  BY <1>4, Zenon DEF new

LEMMA AppendKeepsPrefix ==
  ASSUME NEW S, NEW s \in Seq(S), NEW e \in S, NEW i \in 0..Len(s)
  PROVE  SubSeq(Append(s, e), 1, i) = SubSeq(s, 1, i)
<1>1. /\ Append(s, e) \in Seq(S) /\ Len(Append(s, e)) = Len(s) + 1
      /\ \A j \in 1..Len(s) : Append(s, e)[j] = s[j] /\ Len(s) \in Nat
  BY AppendProperties, LenProperties
<1>2. i \in 0..Len(Append(s, e)) /\ \A j \in 1..i : j \in 1..Len(s)
  BY <1>1, LenProperties
<1>3. /\ SubSeq(Append(s, e), 1, i) \in Seq(S)
      /\ Len(SubSeq(Append(s, e), 1, i)) = i
      /\ \A j \in 1..i : SubSeq(Append(s, e), 1, i)[j] = Append(s, e)[j]
  BY <1>1, <1>2, PrefixType, Zenon
<1>4. /\ SubSeq(s, 1, i) \in Seq(S) /\ Len(SubSeq(s, 1, i)) = i
      /\ \A j \in 1..i : SubSeq(s, 1, i)[j] = s[j]
  BY PrefixType, Zenon
<1>5. \A j \in 1..i : SubSeq(Append(s, e), 1, i)[j] = SubSeq(s, 1, i)[j]
  BY <1>1, <1>2, <1>3, <1>4, Zenon
<1>. QED  BY <1>3, <1>4, <1>5, SeqEqual, Zenon

LEMMA PrefixSurvives ==
  ASSUME NEW s \in Seq(Operations), NEW t \in Seq(Operations), NEW op \in Operations,
         IsPrefixOf(s, t)
  PROVE  IsPrefixOf(s, Append(t, op))
<1>1. Len(s) \in 0..Len(t) /\ Len(t) \in Nat /\ Len(Append(t, op)) = Len(t) + 1
  BY LenProperties, AppendProperties DEF IsPrefixOf
<1>2. SubSeq(Append(t, op), 1, Len(s)) = SubSeq(t, 1, Len(s))
  BY <1>1, AppendKeepsPrefix, Zenon
<1>. QED  BY <1>1, <1>2 DEF IsPrefixOf

LEMMA PrefixReflexive ==
  ASSUME NEW s \in Seq(Operations)
  PROVE  IsPrefixOf(s, s)
<1>1. Len(s) \in 0..Len(s)
  BY LenProperties
<1>2. /\ SubSeq(s, 1, Len(s)) \in Seq(Operations) /\ Len(SubSeq(s, 1, Len(s))) = Len(s)
      /\ \A j \in 1..Len(s) : SubSeq(s, 1, Len(s))[j] = s[j]
  BY <1>1, PrefixType, Zenon
<1>3. SubSeq(s, 1, Len(s)) = s
  BY <1>2, SeqEqual, Zenon
<1>. QED  BY <1>1, <1>3 DEF IsPrefixOf

\* What holds of the store's log holds of the log of an image it may advance to.
LEMMA GrownLog ==
  ASSUME IInv, NEW b \in MaybeImages, Grows(store.current, b)
  PROVE  IsPrefixOf(shown, committed(b)) /\ Ordered(committed(b))
<1>. DEFINE log == committed(store.current)
<1>1. log \in Seq(Operations) /\ shown \in Seq(Operations)
  BY CommittedType, Zenon DEF IInv, TypeOK, Stores
<1>2. IsPrefixOf(shown, log) /\ Ordered(log)
  BY Zenon DEF IInv, ShownIsPast
<1>3. CASE committed(b) = log
  BY <1>2, <1>3, Zenon
<1>4. CASE committed(b) # log
  <2>1. PICK op \in Operations : Applies(log, op) /\ committed(b) = Append(log, op)
    BY <1>4, Zenon DEF Grows
  <2>. QED  BY <1>1, <1>2, <2>1, OrderedAppend, PrefixSurvives, Zenon
<1>. QED  BY <1>3, <1>4, Zenon

(***************************************************************************)
(* The steps.                                                              *)
(***************************************************************************)
Kinds == {"activate", "prepare", "advance", "observe", "reorg"}

\* A step that leaves the store alone.
LEMMA SameStore ==
  ASSUME IInv, TypeOK', HandleIsCurrent', store' = store, shown' = shown
  PROVE  IInv'
<1>1. ReservationGrows'
  BY Zenon DEF IInv, ReservationGrows, Sound, Grows
<1>2. ShownIsPast' /\ Ordered(committed(store.current))'
  BY Zenon DEF IInv, ShownIsPast
<1>. QED  BY <1>1, <1>2, Zenon DEF IInv

\* The reservation of an image that grows the current one.
LEMMA ReserveStep ==
  ASSUME IInv, NEW next \in Images, next # None, Sound(next), Grows(store.current, next),
         store' = Prepare(store, next), shown' = shown, TypeOK', HandleIsCurrent'
  PROVE  IInv'
<1>1. store \in Stores(MaybeImages)
  BY Zenon DEF IInv, TypeOK
<1>2. store'.current = store.current /\ store'.prepared = next
  BY <1>1, Zenon DEF Prepare, Stores
<1>3. ReservationGrows'
  BY <1>2, Zenon DEF IInv, ReservationGrows, Sound, Grows
<1>4. ShownIsPast' /\ Ordered(committed(store.current))'
  BY <1>2, Zenon DEF IInv, ShownIsPast
<1>. QED  BY <1>3, <1>4, Zenon DEF IInv

LEMMA PrepareType ==
  ASSUME store \in Stores(MaybeImages), NEW next \in Images, store' = Prepare(store, next)
  PROVE  store' \in Stores(MaybeImages) /\ store'.current = store.current
BY Zenon DEF Prepare, Stores, MaybeImages

\* The commit of a reservation, by the call that made it or by an open.
LEMMA CommitStep ==
  ASSUME IInv, NEW next \in MaybeImages, next # None, CommitOk(store, next),
         store' = Commit(store, next), shown' = shown, TypeOK', HandleIsCurrent'
  PROVE  IInv'
<1>1. store \in Stores(MaybeImages)
  BY Zenon DEF IInv, TypeOK
<1>2. CASE store.current = next
  BY <1>2, SameStore, Zenon DEF Commit
<1>3. CASE store.current # next
  <2>1. store.prepared = next
    BY <1>3, Zenon DEF CommitOk, AlreadyCurrent
  <2>2. Grows(store.current, next) /\ Sound(next)
    BY <2>1, Zenon DEF IInv, ReservationGrows
  <2>3. store'.current = next /\ store'.prepared = None
    BY <1>3, Zenon DEF Commit
  <2>4. ReservationGrows'
    BY <2>2, <2>3, Zenon DEF ReservationGrows, Sound
  <2>5. IsPrefixOf(shown, committed(next)) /\ Ordered(committed(next))
    BY <2>2, GrownLog, Zenon
  <2>6. ShownIsPast' /\ Ordered(committed(store.current))'
    BY <2>3, <2>5, Zenon DEF ShownIsPast
  <2>. QED  BY <2>4, <2>6, Zenon DEF IInv
<1>. QED  BY <1>2, <1>3, Zenon

LEMMA CommitType ==
  ASSUME store \in Stores(MaybeImages), NEW next \in MaybeImages, store' = Commit(store, next)
  PROVE  store' \in Stores(MaybeImages) /\ store'.current = next
<1>1. None \in MaybeImages
  BY Zenon DEF MaybeImages
<1>2. CASE store.current = next
  BY <1>2, Zenon DEF Commit
<1>3. CASE store.current # next
  BY <1>1, <1>3, Zenon DEF Commit, Stores
<1>. QED  BY <1>2, <1>3, Zenon

LEMMA AbortType ==
  ASSUME store \in Stores(MaybeImages), NEW next \in MaybeImages, store' = Abort(store, next)
  PROVE  store' \in Stores(MaybeImages) /\ store'.current = store.current
         /\ (store'.prepared = store.prepared \/ store'.prepared = None)
BY Zenon DEF Abort, Stores, MaybeImages

LEMMA AbortStep ==
  ASSUME IInv, NEW next \in MaybeImages,
         store' = Abort(store, next), shown' = shown, TypeOK', HandleIsCurrent'
  PROVE  IInv'
<1>1. /\ store'.current = store.current
      /\ store'.prepared = store.prepared \/ store'.prepared = None
  BY AbortType, Zenon DEF IInv, TypeOK
<1>2. ReservationGrows'
  BY <1>1, Zenon DEF IInv, ReservationGrows, Sound, Grows
<1>3. ShownIsPast' /\ Ordered(committed(store.current))'
  BY <1>1, Zenon DEF IInv, ShownIsPast
<1>. QED  BY <1>2, <1>3, Zenon DEF IInv

LEMMA AppendNotEmpty ==
  ASSUME NEW S, NEW s \in Seq(S), NEW e \in S
  PROVE  Append(s, e) # << >>
<1>1. Len(Append(s, e)) = Len(s) + 1 /\ Len(s) \in Nat
  BY AppendProperties, LenProperties, Zenon
<1>2. Len(<< >>) = 0
  OBVIOUS
<1>3. SUFFICES ASSUME Append(s, e) = << >> PROVE FALSE
  BY Zenon
<1>4. Len(Append(s, e)) = 0
  BY <1>2, <1>3, Zenon
<1>. QED  BY <1>1, <1>4

\* One replacement, whatever it is for.
LEMMA ReplaceStep ==
  ASSUME IInv, Idle, wallet.image # None,
         NEW kind \in Kinds, NEW of \in SUBSET (Operations \cup Tentatives),
         NEW records \in Seq(Records), NEW tentatives \in SUBSET Tentatives,
         BeginReplace(kind, of, records, tentatives), seals' \in Nat,
         \A i \in DOMAIN records : OnChain(records[i].op),
         \A next \in Images : next.records = records /\ next # None /\ replay_authoritative_image(next)
                                => Grows(wallet.image, next)
  PROVE  IInv'
<1>. DEFINE next == [history |-> Append(wallet.image.history, [kind |-> kind, of |-> of]),
                     records |-> records, tentatives |-> tentatives]
<1>1. /\ wallet.status = "live" /\ wallet.step = "idle" /\ wallet.image \in Images
      /\ wallet.image = store.current
      /\ wallet \in Wallets /\ store \in Stores(MaybeImages) /\ faults \in Nat
  BY Zenon DEF IInv, HandleIsCurrent, Idle, TypeOK
<1>2. next \in Images
  <2>1. [kind |-> kind, of |-> of] \in Updates
    BY Zenon DEF Updates, Kinds
  <2>2. wallet.image.history \in Seq(Updates)
    BY <1>1, Zenon DEF Images
  <2>3. Append(wallet.image.history, [kind |-> kind, of |-> of]) \in Seq(Updates)
    BY <2>1, <2>2, AppendProperties, Zenon
  <2>. QED  BY <2>3, Zenon DEF Images
<1>3. /\ replay_authoritative_image(next) /\ PrepareOk(store, next)
      /\ store' = Prepare(store, next)
      /\ \/ wallet' = [wallet EXCEPT !.step = "reserved", !.next = next] /\ faults' = faults
         \/ faults' = faults + 1 /\ wallet' = wallet
      /\ answer' = "none"
      /\ UNCHANGED <<disk, view, backup, shown>>
  BY Zenon DEF BeginReplace, Fault
<1>4. next.records = records /\ next.history # << >>
  <2>1. next.history = Append(wallet.image.history, [kind |-> kind, of |-> of])
    BY Zenon
  <2>2. wallet.image.history \in Seq(Updates) /\ [kind |-> kind, of |-> of] \in Updates
    BY <1>1, Zenon DEF Images, Updates, Kinds
  <2>3. next.history # << >>
    BY <2>1, <2>2, AppendNotEmpty, Zenon
  <2>. QED  BY <2>3, Zenon
<1>. HIDE DEF next
<1>5. next # None
  BY <1>3, Zenon DEF PrepareOk, Succeeds
<1>6. Grows(store.current, next) /\ Sound(next)
  BY <1>1, <1>2, <1>3, <1>4, <1>5, Zenon DEF Sound
<1>7. store' \in Stores(MaybeImages) /\ store'.current = store.current
  BY <1>1, <1>2, <1>3, PrepareType, Zenon
<1>8. /\ wallet' \in Wallets /\ faults' \in Nat
      /\ wallet'.status = "live" /\ wallet'.image = wallet.image
      /\ wallet'.step # "idle" => wallet'.next \in Images
  <2>1. CASE wallet' = [wallet EXCEPT !.step = "reserved", !.next = next] /\ faults' = faults
    <3>1. next \in MaybeImages
      BY <1>2, Zenon DEF MaybeImages
    <3>2. wallet' \in Wallets /\ wallet'.status = "live" /\ wallet'.image = wallet.image
          /\ wallet'.next = next
      BY <1>1, <2>1, <3>1, ZenonT(30) DEF Wallets
    <3>. QED  BY <1>1, <1>2, <2>1, <3>2, Zenon
  <2>2. CASE faults' = faults + 1 /\ wallet' = wallet
    BY <1>1, <2>2
  <2>. QED  BY <1>3, <2>1, <2>2, Zenon
<1>9. TypeOK'
  BY <1>3, <1>7, <1>8, Zenon DEF IInv, TypeOK
<1>10. HandleIsCurrent'
  BY <1>1, <1>7, <1>8, Zenon DEF HandleIsCurrent, Idle
<1>. QED  BY <1>2, <1>3, <1>5, <1>6, <1>9, <1>10, ReserveStep, Zenon

\* An operation that is staged.
LEMMA RecordStep ==
  ASSUME IInv, Readable, NEW op \in Operations, OnChain(op),
         BeginRecord(op), seals' \in Nat
  PROVE  IInv'
<1>. DEFINE r == [op |-> op, phase |-> "Prepared", before_tentatives |-> Seen,
                  after_tentatives |-> remove_matching_tentative(Seen, op)]
            rs == wallet.image.records
<1>1. /\ Idle /\ ~pending_candidate(wallet.image) /\ wallet.image \in Images /\ Sound(wallet.image)
      /\ wallet.image # None
  BY NoneAssumption, Zenon DEF Readable, Idle, IInv, HandleIsCurrent, ReservationGrows
<1>2. Seen \in SUBSET Tentatives /\ r \in Records /\ r.phase = "Prepared" /\ r.op = op
  BY <1>1, Zenon DEF Seen, Images, Records, Phases, remove_matching_tentative
<1>3. BeginReplace("prepare", {op}, Append(rs, r), Seen)
  BY Zenon DEF BeginRecord
<1>. HIDE DEF r
<1>4. /\ rs \in Seq(Records) /\ Append(rs, r) \in Seq(Records) /\ Len(rs) \in Nat
      /\ Len(Append(rs, r)) = Len(rs) + 1 /\ Append(rs, r)[Len(rs) + 1] = r
      /\ \A i \in 1..Len(rs) : Append(rs, r)[i] = rs[i]
      /\ DOMAIN rs = 1..Len(rs)
  BY <1>1, <1>2, OperationType, AppendProperties
<1>5. ASSUME NEW i \in DOMAIN Append(rs, r) PROVE OnChain(Append(rs, r)[i].op)
  <2>1. DOMAIN Append(rs, r) = 1..(Len(rs) + 1)
    BY <1>4, LenProperties, Zenon
  <2>2. i \in 1..Len(rs) \/ i = Len(rs) + 1
    BY <1>4, <2>1
  <2>3. CASE i \in 1..Len(rs)
    BY <1>1, <1>4, <2>3, Zenon DEF Sound
  <2>4. CASE i = Len(rs) + 1
    BY <1>2, <1>4, <2>4, Zenon
  <2>. QED  BY <2>2, <2>3, <2>4, Zenon
<1>6. ASSUME NEW next \in Images, next.records = Append(rs, r), next # None
      PROVE  Grows(wallet.image, next)
  BY <1>1, <1>2, <1>6, StagingGrows, Zenon
<1>7. "prepare" \in Kinds /\ {op} \in SUBSET (Operations \cup Tentatives)
  BY Zenon DEF Kinds
<1>. QED  BY <1>1, <1>2, <1>3, <1>4, <1>5, <1>6, <1>7, ReplaceStep, Zenon

LEMMA AdvanceStep ==
  ASSUME IInv, AdvanceRecovery
  PROVE  IInv'
<1>. DEFINE rs == wallet.image.records
            last == rs[Len(rs)]
            target == IF last.phase = "Prepared" THEN "StoresApplied" ELSE "Committed"
            new == [rs EXCEPT ![Len(rs)].phase = target]
            after == IF target = "Committed" THEN last.after_tentatives ELSE Seen
<1>1. /\ Idle /\ pending_candidate(wallet.image) /\ BeginReplace("advance", {}, new, after)
      /\ seals' = seals
  BY Zenon DEF AdvanceRecovery
<1>2. wallet.image \in Images /\ Sound(wallet.image) /\ wallet.image # None /\ seals \in Nat
  BY <1>1, Zenon DEF Idle, IInv, HandleIsCurrent, ReservationGrows, pending_candidate, TypeOK
<1>3. /\ rs \in Seq(Records) /\ Len(rs) \in Nat \ {0} /\ DOMAIN rs = 1..Len(rs)
      /\ Len(rs) \in 1..Len(rs) /\ \A i \in 1..Len(rs) : rs[i] \in Records
  BY <1>1, <1>2, OperationType, CommittedForms
<1>4. target \in Phases
  BY Zenon DEF Phases
<1>5. last \in Records /\ Seen \in SUBSET Tentatives
  BY <1>2, <1>3, Zenon DEF Seen, Images
<1>6. after \in SUBSET Tentatives
  BY <1>5, Zenon DEF Records
<1>. HIDE DEF target, after, last
<1>7. /\ new \in Seq(Records) /\ DOMAIN new = 1..Len(rs)
      /\ \A i \in 1..Len(rs) : new[i].op = rs[i].op
  <2>1. [last EXCEPT !.phase = target] \in Records /\ [last EXCEPT !.phase = target].op = last.op
    BY <1>4, <1>5, Zenon DEF Records
  <2>2. new = [rs EXCEPT ![Len(rs)] = [last EXCEPT !.phase = target]]
    BY Zenon DEF last
  <2>. DEFINE n == Len(rs)
  <2>. HIDE DEF new, n
  <2>3. /\ DOMAIN new = 1..n
        /\ \A i \in 1..n : new[i] = IF i = n THEN [last EXCEPT !.phase = target] ELSE rs[i]
    BY <1>3, <2>2, Zenon DEF n
  <2>4. new \in Seq(Records)
    BY <1>3, <2>1, <2>2, ExceptSeq
  <2>5. \A i \in 1..n : new[i].op = rs[i].op
    BY <2>1, <2>3, Zenon DEF last, n
  <2>. QED  BY <2>3, <2>4, <2>5, Zenon DEF n
<1>8. \A i \in DOMAIN new : OnChain(new[i].op)
  BY <1>2, <1>3, <1>7, Zenon DEF Sound
<1>9. ASSUME NEW next \in Images, next.records = new, next # None, replay_authoritative_image(next)
      PROVE  Grows(wallet.image, next)
  BY <1>1, <1>2, <1>4, <1>9, AdvancingGrows, Zenon
<1>10. "advance" \in Kinds /\ {} \in SUBSET (Operations \cup Tentatives)
  BY Zenon DEF Kinds
<1>. QED  BY <1>1, <1>2, <1>6, <1>7, <1>8, <1>9, <1>10, ReplaceStep, Zenon

LEMMA SightingStep ==
  ASSUME IInv, Readable, NEW kind \in {"observe", "reorg"},
         NEW o \in Tentatives, NEW seen \in SUBSET Tentatives,
         BeginReplace(kind, {o}, wallet.image.records, seen), seals' = seals
  PROVE  IInv'
<1>1. /\ Idle /\ ~pending_candidate(wallet.image) /\ wallet.image \in Images
      /\ Sound(wallet.image) /\ seals \in Nat /\ wallet.image # None
  BY NoneAssumption, Zenon DEF Readable, Idle, IInv, HandleIsCurrent, ReservationGrows, TypeOK
<1>2. wallet.image.records \in Seq(Records)
  BY <1>1, OperationType, Zenon
<1>3. \A i \in DOMAIN wallet.image.records : OnChain(wallet.image.records[i].op)
  BY <1>1, Zenon DEF Sound
<1>4. ASSUME NEW next \in Images, next.records = wallet.image.records, next # None
      PROVE  Grows(wallet.image, next)
  BY <1>1, <1>4, SightingGrows, Zenon
<1>5. kind \in Kinds /\ {o} \in SUBSET (Operations \cup Tentatives)
  BY Zenon DEF Kinds
<1>. QED  BY <1>1, <1>2, <1>3, <1>4, <1>5, ReplaceStep, Zenon

LEMMA ApplyStep ==
  ASSUME IInv, Apply
  PROVE  IInv'
<1>0. seals \in Nat
  BY Zenon DEF IInv, TypeOK
<1>1. ASSUME NEW b \in DOMAIN Chain, NEW k \in DOMAIN Chain[b], ApplyTerminal(b, k)
      PROVE  IInv'
  <2>. DEFINE op == [block |-> b, pos |-> k,
                     seal |-> IF Chain[b][k].delivers THEN seals + 1 ELSE 0]
  <2>1. /\ Readable
        /\ seals' = IF Chain[b][k].delivers THEN seals + 1 ELSE seals
        /\ \/ BeginRecord(op)
           \/ \E i \in Recorded(b, k) :
                /\ answer' = IF Log[i].seal = op.seal THEN "AlreadyPresent" ELSE "EventConflict"
                /\ UNCHANGED <<disk, view, backup, store, wallet, shown, faults>>
    BY <1>1, Zenon DEF ApplyTerminal
  <2>2. seals' \in Nat
    BY <1>0, <2>1
  <2>3. b \in Nat /\ k \in Nat \ {0}
    <3>1. b \in Nat /\ Chain[b] \in Seq(Terminals)
      BY ChainAssumption, LenProperties, ElementOfSeq
    <3>2. DOMAIN Chain[b] = 1..Len(Chain[b]) /\ Len(Chain[b]) \in Nat
      BY <3>1, LenProperties, Zenon
    <3>. QED  BY <3>1, <3>2
  <2>4. op \in Operations /\ OnChain(op)
    BY <1>0, <2>3 DEF Operations, OnChain, IsTerminal
  <2>. HIDE DEF op
  <2>5. CASE BeginRecord(op)
    BY <2>1, <2>2, <2>4, <2>5, RecordStep, Zenon
  <2>6. CASE /\ answer' \in {"AlreadyPresent", "EventConflict"}
             /\ UNCHANGED <<disk, view, backup, store, wallet, shown, faults>>
    <3>1. TypeOK'
      BY <2>2, <2>6, Zenon DEF IInv, TypeOK
    <3>2. HandleIsCurrent'
      BY <2>6, Zenon DEF IInv, HandleIsCurrent, Idle
    <3>. QED  BY <2>6, <3>1, <3>2, SameStore, Zenon
  <2>. QED  BY <2>1, <2>5, <2>6, Zenon
<1>2. ASSUME NEW b \in DOMAIN Chain, ApplyEmpty(b)
      PROVE  IInv'
  <2>. DEFINE op == [block |-> b, pos |-> 0, seal |-> 0]
  <2>1. Readable /\ Chain[b] = << >> /\ BeginRecord(op) /\ seals' = seals
    BY <1>2, Zenon DEF ApplyEmpty
  <2>2. b \in Nat
    BY ChainAssumption, LenProperties
  <2>3. op \in Operations /\ OnChain(op)
    BY <2>1, <2>2 DEF Operations, OnChain, IsTerminal
  <2>. QED  BY <1>0, <2>1, <2>3, RecordStep, Zenon
<1>. QED  BY <1>1, <1>2, Zenon DEF Apply

LEMMA TentativeStep ==
  ASSUME IInv, Tentative
  PROVE  IInv'
<1>1. ASSUME Readable PROVE Seen \in SUBSET Tentatives
  BY <1>1, Zenon DEF Readable, Idle, IInv, HandleIsCurrent, Seen, Images
<1>2. ASSUME NEW e \in Sightings, NEW conf \in BOOLEAN, ObserveTentative(e, conf)
      PROVE  IInv'
  <2>. DEFINE o == [block |-> e.block, pos |-> e.pos, fork |-> e.fork, confirmed |-> conf]
              seen == (Seen \ {x \in Seen : SameEvent(x, o)}) \cup {o}
  <2>1. Readable /\ BeginReplace("observe", {o}, wallet.image.records, seen) /\ seals' = seals
    BY <1>2, Zenon DEF ObserveTentative
  <2>2. o \in Tentatives
    BY SightingsAssumption, Zenon DEF Tentatives
  <2>3. seen \in SUBSET Tentatives
    BY <1>1, <2>1, <2>2, Zenon
  <2>. HIDE DEF o, seen
  <2>. QED  BY <2>1, <2>2, <2>3, SightingStep, Zenon
<1>3. ASSUME Readable, NEW o \in Seen, ReorgTentative(o)
      PROVE  IInv'
  <2>1. BeginReplace("reorg", {o}, wallet.image.records, Seen \ {o}) /\ seals' = seals
    BY <1>3, Zenon DEF ReorgTentative
  <2>2. o \in Tentatives /\ Seen \ {o} \in SUBSET Tentatives
    BY <1>1, <1>3, Zenon
  <2>. QED  BY <1>3, <2>1, <2>2, SightingStep, Zenon
<1>. QED  BY <1>2, <1>3, Zenon DEF Tentative

\* A handle that is gone.
LEMMA DownStep ==
  ASSUME IInv, wallet' = Down, store' = store, shown' = shown,
         disk' \in MaybeImages, view' \in MaybeImages, backup' \in MaybeImages,
         seals' = seals, answer' \in {answer, "none"}, faults' \in Nat
  PROVE  IInv'
<1>1. Down \in Wallets /\ Down.status = "down"
  BY Zenon DEF Down, Wallets, MaybeImages
<1>2. TypeOK'
  BY <1>1, Zenon DEF IInv, TypeOK
<1>3. HandleIsCurrent'
  BY <1>1, Zenon DEF HandleIsCurrent, Idle
<1>. QED  BY <1>2, <1>3, SameStore, Zenon

\* A step of the files only.
LEMMA FileStep ==
  ASSUME IInv, wallet' = wallet, store' = store, shown' = shown,
         disk' \in MaybeImages, view' \in MaybeImages, backup' \in MaybeImages,
         seals' = seals, answer' = answer, faults' \in Nat
  PROVE  IInv'
<1>1. TypeOK'
  BY Zenon DEF IInv, TypeOK
<1>2. HandleIsCurrent'
  BY Zenon DEF IInv, HandleIsCurrent, Idle
<1>. QED  BY <1>1, <1>2, SameStore, Zenon

LEMMA OpenStep ==
  ASSUME IInv, Open
  PROVE  IInv'
<1>1. /\ wallet.status = "down" /\ view # None /\ Reconcilable
      /\ store' = reconcile_monotonic
      /\ \/ wallet' = [Down EXCEPT !.status = "live", !.image = view] /\ faults' = faults
         \/ wallet' = wallet /\ faults' = faults + 1
      /\ UNCHANGED <<disk, view, backup, seals, shown, answer>>
  BY Zenon DEF Open, Fault
<1>2. /\ store \in Stores(MaybeImages) /\ view \in Images /\ view \in MaybeImages
      /\ store.prepared \in MaybeImages /\ faults \in Nat /\ wallet \in Wallets
  BY <1>1, Zenon DEF IInv, TypeOK, MaybeImages, Stores
<1>3. ASSUME store' \in Stores(MaybeImages), store'.current = view
      PROVE  TypeOK' /\ HandleIsCurrent'
  <2>1. CASE wallet' = [Down EXCEPT !.status = "live", !.image = view] /\ faults' = faults
    <3>1. /\ wallet' \in Wallets /\ wallet'.status = "live" /\ wallet'.image = view
          /\ wallet'.step = "idle"
      BY <1>2, <2>1, Zenon DEF Down, Wallets, MaybeImages
    <3>2. TypeOK'
      BY <1>1, <1>2, <1>3, <2>1, <3>1, Zenon DEF IInv, TypeOK
    <3>. QED  BY <1>2, <1>3, <3>1, <3>2, Zenon DEF HandleIsCurrent
  <2>2. CASE wallet' = wallet /\ faults' = faults + 1
    <3>1. TypeOK'
      BY <1>1, <1>2, <1>3, <2>2 DEF IInv, TypeOK
    <3>. QED  BY <1>1, <2>2, <3>1, Zenon DEF HandleIsCurrent, Idle
  <2>. QED  BY <1>1, <2>1, <2>2, Zenon
<1>4. CASE store.current # view
  <2>1. store' = Commit(store, view) /\ CommitOk(store, view)
    BY <1>1, <1>4, Zenon DEF reconcile_monotonic, Reconcilable, CommitOk
  <2>2. TypeOK' /\ HandleIsCurrent'
    BY <1>2, <1>3, <2>1, CommitType, Zenon
  <2>. QED  BY <1>1, <1>2, <2>1, <2>2, CommitStep, Zenon
<1>5. CASE store.current = view /\ store.prepared # None
  <2>1. store' = Abort(store, store.prepared)
    BY <1>1, <1>5, Zenon DEF reconcile_monotonic
  <2>2. TypeOK' /\ HandleIsCurrent'
    BY <1>2, <1>3, <1>5, <2>1, AbortType, Zenon
  <2>. QED  BY <1>1, <1>2, <2>1, <2>2, AbortStep, Zenon
<1>6. CASE store.current = view /\ store.prepared = None
  <2>1. store' = store
    BY <1>1, <1>6, Zenon DEF reconcile_monotonic
  <2>2. TypeOK' /\ HandleIsCurrent'
    BY <1>2, <1>3, <1>6, <2>1, Zenon
  <2>. QED  BY <1>1, <2>1, <2>2, SameStore, Zenon
<1>. QED  BY <1>4, <1>5, <1>6, Zenon

\* The activation image commits nothing.
LEMMA CreateWalletStep ==
  ASSUME IInv, Create
  PROVE  IInv'
<1>1. /\ wallet.status = "down" /\ PrepareOk(store, InitialImage)
      /\ store' = Prepare(store, InitialImage)
      /\ \/ /\ wallet' = [Down EXCEPT !.status = "opening", !.step = "reserved",
                                      !.next = InitialImage]
            /\ faults' = faults
         \/ wallet' = wallet /\ faults' = faults + 1
      /\ UNCHANGED <<disk, view, backup, seals, shown, answer>>
  BY Zenon DEF Create, Fault
<1>2. /\ InitialImage \in Images /\ InitialImage.records = << >>
      /\ Len(InitialImage.history) = 1
  BY DEF InitialImage, Images, Updates
<1>3. InitialImage # None
  BY <1>2, NoneAssumption, Zenon
<1>4. store \in Stores(MaybeImages) /\ store.current \in MaybeImages /\ faults \in Nat /\ wallet \in Wallets
  BY Zenon DEF IInv, TypeOK, Stores
<1>5. store' \in Stores(MaybeImages) /\ store'.current = store.current
  BY <1>1, <1>2, <1>4, PrepareType, Zenon
<1>6. TypeOK' /\ HandleIsCurrent'
  <2>1. CASE /\ wallet' = [Down EXCEPT !.status = "opening", !.step = "reserved",
                                      !.next = InitialImage]
             /\ faults' = faults
    <3>1. /\ wallet' \in Wallets /\ wallet'.status = "opening" /\ wallet'.next = InitialImage
          /\ wallet'.step = "reserved"
      BY <1>2, <2>1, Zenon DEF Down, Wallets, MaybeImages
    <3>2. TypeOK'
      BY <1>1, <1>4, <1>5, <2>1, <3>1, Zenon DEF IInv, TypeOK
    <3>. QED  BY <1>2, <3>1, <3>2, Zenon DEF HandleIsCurrent, Idle
  <2>2. CASE wallet' = wallet /\ faults' = faults + 1
    <3>1. TypeOK'
      BY <1>1, <1>4, <1>5, <2>2, SMTT(30) DEF IInv, TypeOK
    <3>. QED  BY <1>1, <2>2, <3>1, Zenon DEF HandleIsCurrent, Idle
  <2>. QED  BY <1>1, <2>1, <2>2, Zenon
<1>7. Sound(InitialImage)
  BY <1>2 DEF Sound, InitialImage
<1>8. committed(InitialImage) = << >>
  <2>1. ~pending_candidate(InitialImage) /\ Operation(InitialImage) = << >>
    BY <1>2 DEF pending_candidate, Operation
  <2>. QED  BY <1>2, <1>3, <2>1, CommittedForms, Zenon
<1>9. committed(store.current) = << >>
  <2>1. CASE store.current = None
    BY <2>1, Zenon DEF committed
  <2>2. CASE store.current # None
    <3>1. store.current \in Images /\ Len(InitialImage.history) = Len(store.current.history) + 1
      BY <1>1, <1>4, <2>2, Zenon DEF PrepareOk, Succeeds, MaybeImages
    <3>2. store.current.history \in Seq(Updates)
      BY <3>1, Zenon DEF Images
    <3>3. Len(store.current.history) \in Nat \ {0}
      BY <2>2, <3>2, EmptySeq, LenProperties, Zenon DEF IInv, ReservationGrows, Sound
    <3>4. FALSE
      <4>. DEFINE n == Len(store.current.history)
      <4>1. 1 = n + 1 /\ n \in Nat \ {0}
        BY <1>2, <3>1, <3>3, ZenonT(30)
      <4>. HIDE DEF n
      <4>. QED  BY <4>1
    <3>. QED  BY <3>4, Zenon
  <2>. QED  BY <2>1, <2>2, Zenon
<1>10. Grows(store.current, InitialImage)
  BY <1>8, <1>9, Zenon DEF Grows
<1>. QED  BY <1>1, <1>2, <1>3, <1>6, <1>7, <1>10, ReserveStep, Zenon

LEMMA CommitReservationStep ==
  ASSUME IInv, CommitReservation
  PROVE  IInv'
<1>1. /\ wallet.step = "synced" /\ wallet.status \in {"live", "opening"}
      /\ CommitOk(store, wallet.next)
      /\ \/ store' = Commit(store, wallet.next) /\ wallet' = Finished /\ faults' = faults
         \/ /\ store' \in {store, Commit(store, wallet.next)}
            /\ wallet' = Failed /\ faults' = faults + 1
      /\ UNCHANGED <<disk, view, backup, seals, shown, answer>>
  BY Zenon DEF CommitReservation, Fault
<1>2. /\ wallet.next \in Images /\ wallet.next \in MaybeImages /\ wallet.next # None
      /\ store \in Stores(MaybeImages) /\ faults \in Nat /\ wallet \in Wallets
  BY <1>1, NoneAssumption, Zenon DEF IInv, TypeOK, HandleIsCurrent, MaybeImages
<1>3. store' \in Stores(MaybeImages) /\ (wallet' = Finished => store'.current = wallet.next)
  <2>1. CASE store' = Commit(store, wallet.next)
    BY <1>2, <2>1, CommitType, Zenon
  <2>2. CASE store' = store /\ wallet' = Failed
    BY <1>1, <1>2, <2>2, Zenon DEF Failed, Finished, Down, Wallets
  <2>. QED  BY <1>1, <2>1, <2>2, Zenon
<1>4. TypeOK' /\ HandleIsCurrent'
  <2>1. CASE wallet' = Finished /\ faults' = faults
    <3>1. /\ wallet' \in Wallets /\ wallet'.status = "live" /\ wallet'.image = wallet.next
          /\ wallet'.step = "idle"
      BY <1>2, <2>1, Zenon DEF Finished, Wallets, MaybeImages
    <3>2. TypeOK'
      BY <1>1, <1>2, <1>3, <2>1, <3>1, Zenon DEF IInv, TypeOK
    <3>. QED  BY <1>2, <1>3, <2>1, <3>1, <3>2, Zenon DEF HandleIsCurrent
  <2>2. CASE wallet' = Failed /\ faults' = faults + 1
    <3>1. wallet' \in Wallets /\ wallet'.status \in {"poisoned", "down"}
      BY <1>1, <1>2, <2>2, Zenon DEF Failed, Down, Wallets, MaybeImages
    <3>2. TypeOK'
      BY <1>1, <1>2, <1>3, <2>2, <3>1, SMTT(30) DEF IInv, TypeOK
    <3>. QED  BY <3>1, <3>2, Zenon DEF HandleIsCurrent, Idle
  <2>. QED  BY <1>1, <2>1, <2>2, Zenon
<1>5. CASE store' = store
  BY <1>1, <1>4, <1>5, SameStore, Zenon
<1>6. CASE store' = Commit(store, wallet.next)
  BY <1>1, <1>2, <1>4, <1>6, CommitStep, Zenon
<1>. QED  BY <1>1, <1>5, <1>6, Zenon

\* The handle goes on or fails while the store waits.
LEMMA HandleStep ==
  ASSUME IInv, Rename \/ SyncDirectory \/ ReplaceFails
  PROVE  IInv'
<1>0. /\ wallet \in Wallets /\ faults \in Nat /\ disk \in MaybeImages /\ view \in MaybeImages
      /\ wallet.next \in MaybeImages
  BY Zenon DEF IInv, TypeOK, Wallets
<1>1. ASSUME Rename \/ SyncDirectory
      PROVE  IInv'
  <2>1. /\ wallet.step # "idle" /\ wallet.status \in {"live", "opening"}
        /\ \E st \in {"renamed", "synced"} : wallet' = [wallet EXCEPT !.step = st]
        /\ disk' \in MaybeImages /\ view' \in MaybeImages
        /\ UNCHANGED <<backup, store, seals, shown, answer, faults>>
    BY <1>0, <1>1, Zenon DEF Rename, SyncDirectory
  <2>2. /\ wallet' \in Wallets /\ wallet'.status = wallet.status /\ wallet'.next = wallet.next
        /\ wallet'.image = wallet.image /\ wallet'.step # "idle"
    BY <1>0, <2>1, Zenon DEF Wallets
  <2>3. TypeOK'
    BY <2>1, <2>2, Zenon DEF IInv, TypeOK
  <2>4. HandleIsCurrent'
    BY <2>1, <2>2, Zenon DEF IInv, HandleIsCurrent, Idle
  <2>. QED  BY <2>1, <2>3, <2>4, SameStore, Zenon
<1>2. CASE ReplaceFails
  <2>1. /\ wallet.status \in {"live", "opening"} /\ wallet' = Failed /\ faults' = faults + 1
        /\ UNCHANGED <<disk, view, backup, store, seals, shown, answer>>
    BY <1>2, Zenon DEF ReplaceFails, Fault
  <2>2. wallet' \in Wallets /\ wallet'.status \in {"poisoned", "down"}
    BY <1>0, <2>1, Zenon DEF Failed, Down, Wallets, MaybeImages
  <2>3. TypeOK'
    BY <1>0, <2>1, <2>2 DEF IInv, TypeOK
  <2>4. HandleIsCurrent'
    BY <2>2, Zenon DEF HandleIsCurrent, Idle
  <2>. QED  BY <2>1, <2>3, <2>4, SameStore, Zenon
<1>. QED  BY <1>1, <1>2, Zenon

\* A reader sees the store's committed log.
LEMMA ReadStep ==
  ASSUME IInv, Read
  PROVE  IInv' /\ shown' = committed(store.current) /\ store' = store
<1>1. /\ Idle /\ shown' = committed(wallet.image)
      /\ UNCHANGED <<disk, view, backup, store, wallet, seals, answer, faults>>
  BY Zenon DEF Read, Readable, Log
<1>2. wallet.image = store.current
  BY <1>1, Zenon DEF IInv, HandleIsCurrent
<1>3. committed(store.current) \in Seq(Operations)
  BY CommittedType, Zenon DEF IInv, TypeOK, Stores
<1>4. TypeOK' /\ HandleIsCurrent' /\ ReservationGrows' /\ Ordered(committed(store.current))'
  <2>1. TypeOK'
    BY <1>1, <1>2, <1>3, Zenon DEF IInv, TypeOK
  <2>2. HandleIsCurrent'
    BY <1>1, Zenon DEF IInv, HandleIsCurrent, Idle
  <2>3. ReservationGrows'
    BY <1>1, Zenon DEF IInv, ReservationGrows, Sound, Grows
  <2>4. Ordered(committed(store.current))'
    BY <1>1, Zenon DEF IInv
  <2>. QED  BY <2>1, <2>2, <2>3, <2>4, Zenon
<1>5. ShownIsPast'
  BY <1>1, <1>2, <1>3, PrefixReflexive, Zenon DEF ShownIsPast
<1>. QED  BY <1>1, <1>2, <1>4, <1>5, Zenon DEF IInv

\* A step leaves what the store vouches for, or commits its reservation.
LEMMA StoreStep ==
  ASSUME IInv, Next
  PROVE  \/ store'.current = store.current
         \/ store.prepared # None /\ store'.current = store.prepared
<1>0. store \in Stores(MaybeImages) /\ view \in MaybeImages /\ wallet.next \in MaybeImages
  BY Zenon DEF IInv, TypeOK, Wallets
<1>1. ASSUME NEW next, store' = Prepare(store, next)
      PROVE  store'.current = store.current
  BY <1>0, <1>1, Zenon DEF Prepare, Stores
<1>2. ASSUME NEW next, store' = Commit(store, next), CommitOk(store, next)
      PROVE  \/ store'.current = store.current
             \/ store.prepared # None /\ store'.current = store.prepared
  BY <1>2, Zenon DEF Commit, CommitOk, AlreadyCurrent, Succeeds
<1>3. ASSUME NEW next, store' = Abort(store, next)
      PROVE  store'.current = store.current
  BY <1>0, <1>3, Zenon DEF Abort, Stores
<1>4. CASE Open
  <2>1. store' = reconcile_monotonic /\ Reconcilable
    BY <1>4, Zenon DEF Open
  <2>2. CASE store.current # view
    <3>1. store' = Commit(store, view) /\ CommitOk(store, view)
      BY <2>1, <2>2, Zenon DEF reconcile_monotonic, Reconcilable, CommitOk
    <3>. QED  BY <1>2, <3>1, Zenon
  <2>3. CASE store.current = view
    BY <1>3, <2>1, <2>3, Zenon DEF reconcile_monotonic
  <2>. QED  BY <2>2, <2>3, Zenon
<1>5. CASE Create
  BY <1>1, <1>5, Zenon DEF Create
<1>6. CASE Apply
  <2>1. ASSUME NEW op, BeginRecord(op)
        PROVE  \E next : store' = Prepare(store, next)
    BY <2>1, Zenon DEF BeginRecord, BeginReplace
  <2>. QED  BY <1>1, <1>6, <2>1, Zenon DEF Apply, ApplyTerminal, ApplyEmpty
<1>7. CASE AdvanceRecovery
  BY <1>1, <1>7, ZenonT(30) DEF AdvanceRecovery, BeginReplace
<1>8. CASE Tentative
  <2>1. ASSUME NEW e \in Sightings, NEW conf \in BOOLEAN, ObserveTentative(e, conf)
        PROVE  \E next : store' = Prepare(store, next)
    BY <2>1, Zenon DEF ObserveTentative, BeginReplace
  <2>2. ASSUME NEW o \in Seen, ReorgTentative(o)
        PROVE  \E next : store' = Prepare(store, next)
    BY <2>2, Zenon DEF ReorgTentative, BeginReplace
  <2>. QED  BY <1>1, <1>8, <2>1, <2>2, Zenon DEF Tentative
<1>9. CASE CommitReservation
  BY <1>2, <1>9, Zenon DEF CommitReservation
<1>10. CASE Read \/ Rename \/ SyncDirectory \/ ReplaceFails \/ Shutdown \/ Crash \/ PowerLoss
           \/ TakeBackup \/ RestoreBackup
  BY <1>10, Zenon DEF Read, Rename, SyncDirectory, ReplaceFails, Shutdown, Crash, PowerLoss,
     TakeBackup, RestoreBackup
<1>. QED  BY <1>4, <1>5, <1>6, <1>7, <1>8, <1>9, <1>10, Zenon DEF Next

LEMMA StoreGrows ==
  ASSUME IInv, Next
  PROVE  Grows(store.current, store'.current)
BY StoreStep, Zenon DEF IInv, ReservationGrows, Grows

LEMMA InvariantStep ==
  ASSUME IInv, Next
  PROVE  IInv'
<1>0. /\ disk \in MaybeImages /\ view \in MaybeImages /\ backup \in MaybeImages /\ faults \in Nat
      /\ faults + 1 \in Nat
  BY DEF IInv, TypeOK
<1>1. CASE Open
  BY <1>1, OpenStep, Zenon
<1>2. CASE Create
  BY <1>2, CreateWalletStep, Zenon
<1>3. CASE Apply
  BY <1>3, ApplyStep, Zenon
<1>4. CASE AdvanceRecovery
  BY <1>4, AdvanceStep, Zenon
<1>5. CASE Tentative
  BY <1>5, TentativeStep, Zenon
<1>6. CASE CommitReservation
  BY <1>6, CommitReservationStep, Zenon
<1>7. CASE Rename \/ SyncDirectory \/ ReplaceFails
  BY <1>7, HandleStep, Zenon
<1>8. CASE Read
  BY <1>8, ReadStep, Zenon
<1>9. CASE Shutdown
  BY <1>0, <1>9, DownStep, Zenon DEF Shutdown
<1>10. CASE Crash
  BY <1>0, <1>10, DownStep, Zenon DEF Crash, Fault
<1>11. CASE PowerLoss
  BY <1>0, <1>11, DownStep, Zenon DEF PowerLoss, Fault
<1>12. CASE TakeBackup
  BY <1>0, <1>12, FileStep, Zenon DEF TakeBackup
<1>13. CASE RestoreBackup
  BY <1>0, <1>13, FileStep, Zenon DEF RestoreBackup, Fault
<1>. QED  BY <1>1, <1>2, <1>3, <1>4, <1>5, <1>6, <1>7, <1>8, <1>9, <1>10, <1>11, <1>12, <1>13,
        ZenonT(30) DEF Next

LEMMA InvariantStutter ==
  ASSUME IInv, UNCHANGED vars
  PROVE  IInv' /\ store' = store /\ shown' = shown
<1>1. TypeOK' /\ HandleIsCurrent' /\ store' = store /\ shown' = shown
  BY Zenon DEF IInv, TypeOK, HandleIsCurrent, Idle, vars
<1>. QED  BY <1>1, SameStore, Zenon

LEMMA InvariantInit ==
  ASSUME Init
  PROVE  IInv
<1>1. /\ disk = None /\ view = None /\ backup = None /\ store = NewStore /\ wallet = Down
      /\ seals = 0 /\ shown = << >> /\ answer = "none" /\ faults = 0
  BY Zenon DEF Init
<1>2. store \in Stores(MaybeImages) /\ store.current = None /\ store.prepared = None
  BY <1>1, Zenon DEF NewStore, Stores, MaybeImages
<1>3. wallet \in Wallets /\ wallet.status = "down"
  BY <1>1, Zenon DEF Down, Wallets, MaybeImages
<1>4. shown \in Seq(Operations) /\ committed(store.current) = << >>
  BY <1>1, <1>2 DEF committed
<1>5. TypeOK
  BY <1>1, <1>2, <1>3, <1>4, Zenon DEF TypeOK, MaybeImages
<1>6. ReservationGrows /\ HandleIsCurrent
  BY <1>2, <1>3, Zenon DEF ReservationGrows, Sound, HandleIsCurrent, Idle
<1>7. ShownIsPast
  BY <1>1, <1>4, PrefixReflexive, Zenon DEF ShownIsPast
<1>8. Ordered(committed(store.current))
  BY <1>4 DEF Ordered
<1>. QED  BY <1>5, <1>6, <1>7, <1>8, Zenon DEF IInv

\* The inductive invariant: the handle holds the image the store vouches
\* for, and a reservation commits at most one more operation of the chain.
THEOREM WalletInvariant == Spec => []IInv
<1>1. Init => IInv
  BY InvariantInit, Zenon
<1>2. IInv /\ [Next]_vars => IInv'
  BY InvariantStep, InvariantStutter, Zenon
<1>. QED  BY <1>1, <1>2, PTL DEF Spec

\* Whatever crash, power loss, lost answer or restored backup comes between
\* two reads of committed_state_v2, the second log extends the first.
THEOREM ReadsNeverRollBackHolds == Spec => ReadsNeverRollBack
<1>1. IInv /\ [Next]_vars => [IsPrefixOf(shown, shown')]_vars
  <2>. SUFFICES ASSUME IInv, Next PROVE IsPrefixOf(shown, shown')
    BY Zenon DEF vars
  <2>1. CASE shown' = shown
    BY <2>1, PrefixReflexive, Zenon DEF IInv, TypeOK
  <2>2. CASE Read
    BY <2>2, ReadStep, Zenon DEF IInv, ShownIsPast
  <2>3. shown' = shown \/ Read
    <3>1. ASSUME NEW kind, NEW of, NEW records, NEW tentatives,
                 BeginReplace(kind, of, records, tentatives)
          PROVE  shown' = shown
      BY <3>1, Zenon DEF BeginReplace
    <3>2. CASE Apply
      BY <3>1, <3>2, ZenonT(30) DEF Apply, ApplyTerminal, ApplyEmpty, BeginRecord
    <3>3. CASE AdvanceRecovery
      BY <3>1, <3>3, Zenon DEF AdvanceRecovery
    <3>4. CASE Tentative
      BY <3>1, <3>4, Zenon DEF Tentative, ObserveTentative, ReorgTentative
    <3>5. CASE Open \/ Create \/ Rename \/ SyncDirectory \/ ReplaceFails \/ CommitReservation
              \/ Shutdown \/ Crash \/ PowerLoss \/ TakeBackup \/ RestoreBackup
      BY <3>5, Zenon
         DEF Open, Create, Rename, SyncDirectory, ReplaceFails, CommitReservation, Shutdown,
         Crash, PowerLoss, TakeBackup, RestoreBackup
    <3>. QED  BY <3>2, <3>3, <3>4, <3>5, Zenon DEF Next
  <2>. QED  BY <2>1, <2>2, <2>3, Zenon
<1>. QED  BY <1>1, WalletInvariant, PTL DEF Spec, ReadsNeverRollBack

\* The chain of the wallet is the chain of the ledger.
LEMMA SameCardinality ==
  ASSUME NEW S
  PROVE  Ledger!Cardinality(S) = Cardinality(S)
BY Zenon DEF Ledger!Cardinality, Cardinality

LEMMA SameChain ==
  ASSUME NEW log, NEW op
  PROVE  /\ Ledger!Operations = Operations
         /\ Ledger!OnChain(op) <=> OnChain(op)
         /\ Ledger!Applies(log, op) <=> Applies(log, op)
<1>1. Ledger!Operations = Operations /\ Ledger!Positions = Positions
  BY Zenon DEF Ledger!Operations, Operations, Ledger!Positions, Positions
<1>2. ASSUME NEW o
      PROVE  (Ledger!IsTerminal(o) <=> IsTerminal(o)) /\ Ledger!Terminal(o) = Terminal(o)
  BY Zenon DEF Ledger!IsTerminal, IsTerminal, Ledger!Terminal, Terminal
<1>3. Ledger!OnChain(op) <=> OnChain(op)
  BY <1>2, Zenon DEF Ledger!OnChain, OnChain
<1>4. Ledger!pair_leaf_index(op) = pair_leaf_index(op)
  <2>1. ASSUME NEW l PROVE Ledger!OfLane(l) = OfLane(l)
    BY <1>1, Zenon DEF Ledger!OfLane, OfLane
  <2>2. Ledger!OfLane(Ledger!Terminal(op).lane) = OfLane(Terminal(op).lane)
    BY <1>2, <2>1, Zenon
  <2>. DEFINE S(lane) == {p \in lane : p[1] < op.block \/ (p[1] = op.block /\ p[2] < op.pos)}
  <2>3. S(Ledger!OfLane(Ledger!Terminal(op).lane)) = S(OfLane(Terminal(op).lane))
    BY <2>2, Zenon
  <2>. QED  BY <2>3, SameCardinality, Zenon DEF Ledger!pair_leaf_index, pair_leaf_index
<1>5. Ledger!TerminalsOf(log) = TerminalsOf(log) /\ Ledger!finalized_head(log) = finalized_head(log)
  BY Zenon
     DEF Ledger!TerminalsOf, TerminalsOf, Ledger!IsTerminal, IsTerminal, Ledger!finalized_head,
     finalized_head
<1>6. /\ Ledger!notes(log) = notes(log) /\ Ledger!spent(log) = spent(log)
      /\ \A l : Ledger!next_leaf_index(log, l) = next_leaf_index(log, l)
  <2>. DEFINE T == TerminalsOf(log)
  <2>1. {j \in Ledger!TerminalsOf(log) : Ledger!Terminal(log[j]).delivers}
          = {j \in T : Terminal(log[j]).delivers}
    BY <1>5, Zenon DEF Ledger!Terminal, Terminal
  <2>2. {Ledger!Terminal(log[i]).spends : i \in Ledger!TerminalsOf(log)}
          = {Terminal(log[i]).spends : i \in T}
    BY <1>5, Zenon DEF Ledger!Terminal, Terminal
  <2>3. ASSUME NEW l
        PROVE  {i \in Ledger!TerminalsOf(log) : Ledger!Terminal(log[i]).lane = l}
                 = {i \in T : Terminal(log[i]).lane = l}
    BY <1>5, Zenon DEF Ledger!Terminal, Terminal
  <2>4. Ledger!notes(log) = notes(log)
    BY <2>1, Zenon DEF Ledger!notes, notes
  <2>5. Ledger!spent(log) = spent(log)
    BY <2>2, Zenon DEF Ledger!spent, spent
  <2>6. ASSUME NEW l
        PROVE  Ledger!next_leaf_index(log, l) = next_leaf_index(log, l)
    BY <2>3, SameCardinality, Zenon DEF Ledger!next_leaf_index, next_leaf_index
  <2>. QED  BY <2>4, <2>5, <2>6, Zenon
<1>7. /\ Ledger!validate_finalized_order(log, op) <=> validate_finalized_order(log, op)
      /\ Ledger!validate_empty_finalized_order(log, op) <=> validate_empty_finalized_order(log, op)
  BY <1>2, <1>5, Zenon DEF Ledger!validate_finalized_order, validate_finalized_order,
     Ledger!validate_empty_finalized_order, validate_empty_finalized_order
<1>8. Ledger!apply_intent_structural_ok(log, op) <=> apply_intent_structural_ok(log, op)
  BY <1>2, <1>4, <1>6, Zenon DEF Ledger!apply_intent_structural_ok, apply_intent_structural_ok
<1>9. Ledger!Applies(log, op) <=> Applies(log, op)
  BY <1>2, <1>7, <1>8, Zenon DEF Ledger!Applies, Applies
<1>. QED  BY <1>1, <1>3, <1>9, Zenon

\* The log of the external store is the append-only log of WalletLedger:
\* one operation of the chain at a time, each applicable to the log before.
THEOREM WalletImplementsLedger == Spec => ImplementsLedger
<1>1. Init => Ledger!Init
  <2>. SUFFICES ASSUME Init PROVE committed(store.current) = << >>
    BY Zenon DEF Ledger!Init
  <2>. QED  BY Zenon DEF Init, NewStore, committed
<1>2. IInv /\ [Next]_vars => [Ledger!Next]_(committed(store.current))
  <2>1. CASE UNCHANGED vars
    BY <2>1, Zenon DEF vars
  <2>2. ASSUME IInv, Next
        PROVE  [Ledger!Next]_(committed(store.current))
    <3>1. Grows(store.current, store'.current)
      BY <2>2, StoreGrows, Zenon
    <3>2. CASE committed(store'.current) = committed(store.current)
      BY <3>2, Zenon
    <3>3. CASE ~(committed(store'.current) = committed(store.current))
      <4>. DEFINE log == committed(store'.current)
                  op == log[Len(log)]
      <4>1. /\ log # << >> /\ op \in Operations /\ OnChain(op) /\ Applies(committed(store.current), op)
            /\ log = Append(committed(store.current), op)
        BY <3>1, <3>3, Zenon DEF Grows
      <4>2. Ledger!Next
        BY <4>1, SameChain, Zenon DEF Ledger!Next, Ledger!Commit
      <4>. QED  BY <4>2, Zenon
    <3>. QED  BY <3>2, <3>3, Zenon
  <2>. QED  BY <2>1, <2>2, Zenon
<1>. QED  BY <1>1, <1>2, WalletInvariant, PTL DEF Spec, ImplementsLedger, Ledger!Spec

-----------------------------------------------------------------------------
\* Complete lanes.

LEMMA PositionType ==
  ASSUME NEW p \in Positions
  PROVE  /\ p = <<p[1], p[2]>> /\ p[1] \in DOMAIN Chain /\ p[1] \in Nat \ {0}
         /\ p[2] \in DOMAIN Chain[p[1]] /\ p[2] \in Nat \ {0}
<1>1. PICK b \in DOMAIN Chain : p \in {b} \X DOMAIN Chain[b]
  BY Zenon DEF Positions
<1>2. Chain[b] \in Seq(Terminals) /\ b \in Nat \ {0}
  BY ChainAssumption, ElementOfSeq, LenProperties
<1>3. DOMAIN Chain[b] \subseteq Nat \ {0}
  BY <1>2, LenProperties
<1>. QED  BY <1>1, <1>2, <1>3

LEMMA PositionsFinite == IsFiniteSet(Positions)
<1>. DEFINE B == DOMAIN Chain
            F == {{b} \X DOMAIN Chain[b] : b \in B}
            f == [b \in B |-> {b} \X DOMAIN Chain[b]]
<1>1. IsFiniteSet(B)
  BY ChainAssumption, LenProperties, FS_Interval
<1>2. f \in Surjection(B, F)
  BY Zenon DEF Surjection
<1>3. IsFiniteSet(F)
  BY <1>1, <1>2, FS_Surjection, Zenon
<1>4. ASSUME NEW b \in B
      PROVE  IsFiniteSet({b} \X DOMAIN Chain[b])
  <2>1. Chain[b] \in Seq(Terminals)
    BY ChainAssumption, ElementOfSeq, LenProperties, Zenon
  <2>2. IsFiniteSet(DOMAIN Chain[b])
    BY <2>1, LenProperties, FS_Interval
  <2>. QED  BY <2>2, FS_Singleton, FS_Product, Zenon
<1>5. \A T \in F : IsFiniteSet(T)
  BY <1>4, Zenon
<1>. QED  BY <1>3, <1>5, FS_UNION, Zenon DEF Positions

\* The terminals a log gains.
LEMMA IngestedAppend ==
  ASSUME NEW log \in Seq(Operations), NEW op \in Operations
  PROVE  /\ Ingested(log) \subseteq Ingested(Append(log, op))
         /\ \A q \in Ingested(Append(log, op)) :
              q \in Ingested(log) \/ (IsTerminal(op) /\ q = <<op.block, op.pos>>)
<1>. DEFINE new == Append(log, op)
<1>1. /\ Len(log) \in Nat /\ DOMAIN log = 1..Len(log) /\ DOMAIN new = 1..(Len(log) + 1)
      /\ new[Len(log) + 1] = op /\ \A i \in 1..Len(log) : new[i] = log[i]
  BY AppendProperties, LenProperties
<1>. HIDE DEF new
<1>2. ASSUME NEW q \in Ingested(log)
      PROVE  q \in Ingested(new)
  <2>1. PICK i \in DOMAIN log : IsTerminal(log[i]) /\ q = <<log[i].block, log[i].pos>>
    BY Zenon DEF Ingested, TerminalsOf
  <2>2. i \in DOMAIN new /\ new[i] = log[i]
    BY <1>1
  <2>. QED  BY <2>1, <2>2, Zenon DEF Ingested, TerminalsOf
<1>3. ASSUME NEW q \in Ingested(new)
      PROVE  q \in Ingested(log) \/ (IsTerminal(op) /\ q = <<op.block, op.pos>>)
  <2>1. PICK i \in DOMAIN new : IsTerminal(new[i]) /\ q = <<new[i].block, new[i].pos>>
    BY Zenon DEF Ingested, TerminalsOf
  <2>2. (i \in DOMAIN log /\ new[i] = log[i]) \/ new[i] = op
    BY <1>1, SMTT(30)
  <2>. QED  BY <2>1, <2>2, Zenon DEF Ingested, TerminalsOf
<1>. QED  BY <1>2, <1>3, Zenon DEF new

\* The leaf index of a new terminal is the number of terminals its lane has
\* in the log, so these are all the earlier ones of the chain.
LEMMA NextLeafIsComplete ==
  ASSUME NEW log \in Seq(Operations), Ordered(log), \A i \in DOMAIN log : OnChain(log[i]),
         NEW op \in Operations, OnChain(op), Applies(log, op), IsTerminal(op),
         NEW p \in OfLane(Terminal(op).lane), Earlier(p, <<op.block, op.pos>>)
  PROVE  p \in Ingested(log)
<1>. DEFINE l == Terminal(op).lane
            A == {x \in OfLane(l) : x[1] < op.block \/ (x[1] = op.block /\ x[2] < op.pos)}
            B == {i \in TerminalsOf(log) : Terminal(log[i]).lane = l}
            f == [i \in B |-> <<log[i].block, log[i].pos>>]
<1>1. Cardinality(B) = Cardinality(A)
  BY Zenon DEF Applies, apply_intent_structural_ok, pair_leaf_index, next_leaf_index
<1>2. p \in A
  BY Zenon DEF Earlier
<1>3. IsFiniteSet(A)
  <2>1. A \in SUBSET Positions
    BY Zenon DEF OfLane
  <2>. HIDE DEF A
  <2>. QED  BY <2>1, PositionsFinite, FS_Subset, Zenon
<1>4. ASSUME NEW i \in B
      PROVE  /\ i \in DOMAIN log /\ i \in 1..Len(log) /\ i \in Nat /\ log[i] \in Operations
             /\ f[i] = <<log[i].block, log[i].pos>> /\ f[i] \in A
  <2>1. i \in DOMAIN log /\ IsTerminal(log[i]) /\ Terminal(log[i]).lane = l
    BY Zenon DEF TerminalsOf
  <2>2. i \in 1..Len(log) /\ i \in Nat /\ log[i] \in Operations
    BY <2>1, LenProperties, ElementOfSeq, SMTT(30)
  <2>3. log[i].block \in DOMAIN Chain /\ log[i].pos \in DOMAIN Chain[log[i].block]
    BY <2>1, Zenon DEF OnChain
  <2>4. <<log[i].block, log[i].pos>> \in OfLane(l)
    <3> DEFINE b == log[i].block
    <3> DEFINE k == log[i].pos
    <3>1. b \in DOMAIN Chain /\ k \in DOMAIN Chain[b] /\ Chain[b][k].lane = l
      BY <2>1, <2>3, Zenon DEF Terminal
    <3>. HIDE DEF b, k
    <3>2. <<b, k>> \in {b} \X DOMAIN Chain[b]
      BY <3>1, Zenon
    <3>3. <<b, k>> \in Positions
      BY <3>1, <3>2, Zenon DEF Positions
    <3>4. <<b, k>> \in OfLane(l)
      BY <3>1, <3>3, Zenon DEF OfLane
    <3>. QED  BY <3>4, Zenon DEF b, k
  <2>5. Before(log[i], op)
    BY <2>2, AppliesLast, Zenon
  <2>6. <<log[i].block, log[i].pos>> \in A
    BY <2>4, <2>5, Zenon DEF Before
  <2>. QED  BY <2>1, <2>2, <2>6, Zenon
<1>5. ASSUME NEW i \in B, NEW j \in B, f[i] = f[j]
      PROVE  i = j
  <2>. DEFINE a == log[i]
              b == log[j]
  <2>1. a \in Operations /\ b \in Operations /\ a.block = b.block /\ a.pos = b.pos
    BY <1>4, <1>5, ZenonT(30)
  <2>2. a.block \in Nat /\ a.pos \in Nat
    BY <2>1, ZenonT(30) DEF Operations
  <2>3. i < j => Before(a, b)
    BY <1>4, ZenonT(30) DEF Ordered, Before
  <2>4. j < i => Before(b, a)
    BY <1>4, Zenon DEF Ordered, Before
  <2>5. ~Before(a, b) /\ ~Before(b, a)
    BY <2>1, <2>2, SMTT(30) DEF Before
  <2>6. i \in Nat /\ j \in Nat
    BY <1>4, Zenon
  <2>. HIDE DEF B, f, a, b
  <2>. QED  BY <2>3, <2>4, <2>5, <2>6
<1>6. f \in Injection(B, A)
  BY <1>4, <1>5, Zenon DEF Injection, IsInjective
<1>7. f \in Surjection(B, A)
  <2>. HIDE DEF A, B, f
  <2>. QED  BY <1>1, <1>3, <1>6, FS_Injection, Zenon
<1>8. PICK i \in B : f[i] = p
  BY <1>2, <1>7, ZenonT(30) DEF Surjection
<1>. QED  BY <1>4, <1>8, Zenon DEF Ingested

LEMMA CompleteAppend ==
  ASSUME NEW log \in Seq(Operations), Ordered(log), \A i \in DOMAIN log : OnChain(log[i]),
         LaneComplete(log), NEW op \in Operations, OnChain(op), Applies(log, op)
  PROVE  /\ LaneComplete(Append(log, op))
         /\ \A i \in DOMAIN Append(log, op) : OnChain(Append(log, op)[i])
<1>1. \A i \in DOMAIN Append(log, op) : OnChain(Append(log, op)[i])
  <2>1. /\ Len(log) \in Nat /\ DOMAIN log = 1..Len(log) /\ DOMAIN Append(log, op) = 1..(Len(log) + 1)
        /\ Append(log, op)[Len(log) + 1] = op /\ \A i \in 1..Len(log) : Append(log, op)[i] = log[i]
    BY AppendProperties, LenProperties
  <2>2. ASSUME NEW i \in DOMAIN Append(log, op)
        PROVE  (i \in DOMAIN log /\ Append(log, op)[i] = log[i]) \/ Append(log, op)[i] = op
    BY <2>1
  <2>. QED  BY <2>2, Zenon
<1>2. ASSUME NEW l \in Lanes, NEW q \in Ingested(Append(log, op)) \cap OfLane(l),
             NEW p \in OfLane(l), Earlier(p, q)
      PROVE  p \in Ingested(Append(log, op))
  <2>1. CASE q \in Ingested(log)
    BY <1>2, <2>1, IngestedAppend, Zenon DEF LaneComplete
  <2>2. CASE IsTerminal(op) /\ q = <<op.block, op.pos>>
    <3>1. Terminal(op).lane = l
      BY <2>2, Zenon DEF OfLane, Terminal
    <3>2. p \in Ingested(log)
      BY <1>2, <2>2, <3>1, NextLeafIsComplete, Zenon
    <3>. QED  BY <3>2, IngestedAppend, Zenon
  <2>. QED  BY <2>1, <2>2, IngestedAppend, Zenon
<1>3. LaneComplete(Append(log, op))
  BY <1>2, Zenon DEF LaneComplete
<1>. QED  BY <1>1, <1>3, Zenon

\* The wallet's leaves of a lane are the first ones of that lane on the
\* chain, whatever terminals its caller leaves out.
THEOREM LaneHistoryCompleteHolds == Spec => []LaneHistoryComplete
<1>1. Init => LogSound
  <2>. SUFFICES ASSUME Init PROVE LogSound
    BY Zenon
  <2>1. committed(store.current) = << >>
    BY Zenon DEF Init, NewStore, committed
  <2>. QED  BY <2>1 DEF LogSound, LaneHistoryComplete, LaneComplete, Ingested, TerminalsOf
<1>2. LogSound /\ IInv /\ [Next]_vars => LogSound'
  <2>1. ASSUME LogSound, committed(store'.current) = committed(store.current)
        PROVE  LogSound'
    BY <2>1, Zenon DEF LogSound, LaneHistoryComplete
  <2>2. CASE UNCHANGED vars
    BY <2>1, <2>2, Zenon DEF vars
  <2>3. ASSUME LogSound, IInv, Next
        PROVE  LogSound'
    <3>. DEFINE log == committed(store.current)
                new == committed(store'.current)
    <3>1. log \in Seq(Operations) /\ Ordered(log)
      BY <2>3, CommittedType, Zenon DEF IInv, TypeOK, Stores
    <3>2. LaneComplete(log) /\ \A i \in DOMAIN log : OnChain(log[i])
      BY <2>3, Zenon DEF LogSound, LaneHistoryComplete
    <3>3. Grows(store.current, store'.current)
      BY <2>3, StoreGrows, Zenon
    <3>4. ASSUME NEW op \in Operations, OnChain(op), Applies(log, op), new = Append(log, op)
          PROVE  LogSound'
      <4>1. LaneComplete(new) /\ \A i \in DOMAIN new : OnChain(new[i])
        BY <3>1, <3>2, <3>4, CompleteAppend, Zenon
      <4>. QED  BY <4>1, Zenon DEF LogSound, LaneHistoryComplete
    <3>. QED  BY <2>1, <2>3, <3>3, <3>4, Zenon DEF Grows
  <2>. QED  BY <2>2, <2>3, Zenon
<1>3. LogSound => LaneHistoryComplete
  BY Zenon DEF LogSound
<1>. QED  BY <1>1, <1>2, <1>3, WalletInvariant, PTL DEF Spec
=============================================================================
