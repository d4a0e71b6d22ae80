----------------------- MODULE MainnetExecutionProofs -----------------------
(***************************************************************************)
(* Proofs about MainnetExecution, for every number of chunks, retries,     *)
(* restarts and blocks and every validity window.                          *)
(*                                                                         *)
(* The invariant IInv is split in two.  World relates the network and the  *)
(* journal; it is preserved by a few kinds of step (the network moves, a   *)
(* wire is spooled, an open wire is updated, a wire is handed over), each  *)
(* with a lemma of its own.  The rest says where the executor is.          *)
(***************************************************************************)
EXTENDS MainnetExecution, FiniteSetTheorems, SequenceTheorems, TLAPS

TypeWorld ==
    /\ tip \in 0 .. MaxHeight /\ fin \in 0 .. tip
    /\ DOMAIN journal \subseteq Wires
    /\ \A w \in DOMAIN journal : journal[w] \in ReadyWires
    /\ landed \in Seq(Landings)
    /\ flight \subseteq DOMAIN journal /\ sent \subseteq DOMAIN journal

World ==
    /\ TypeWorld
    /\ LandedInOrder
    /\ JournalInv
    /\ SealedIsComplete

Flags ==
    /\ anchored \in BOOLEAN
    /\ closing \in {"open", "checkpoint", "completed"}
    /\ evidence \in {"none", "in_progress", "committed"}
    /\ starts \in 0 .. MaxStarts

\* The parts make up the invariant.
LEMMA Parts ==
  IInv <=> World /\ Flags /\ proc \in Procs /\ ControlIsSound /\ EvidenceIsLast
BY Zenon DEF IInv, TypeOK, World, TypeWorld, Flags

-----------------------------------------------------------------------------
(* Finality.                                                               *)

\* In a sequence of landings in order of height, those at or below a height
\* are a prefix, as long as there are of them.
LEMMA RootedIs ==
  ASSUME NEW s \in Seq(Landings), NEW f \in Int,
         \A i, j \in DOMAIN s : i < j => s[i].height <= s[j].height
  PROVE  LET S == {i \in DOMAIN s : s[i].height <= f}
         IN  Cardinality(S) \in Nat /\ S = 1 .. Cardinality(S)
<1> DEFINE S == {i \in DOMAIN s : s[i].height <= f}
<1> DEFINE n == Cardinality(S)
<1>1. Len(s) \in Nat /\ DOMAIN s = 1 .. Len(s)
  BY LenProperties, Zenon
<1>2. \A i \in DOMAIN s : s[i].height \in Int
  <2> SUFFICES ASSUME NEW i \in DOMAIN s PROVE s[i].height \in Int
    BY Zenon
  <2>1. s[i] \in Landings
    BY <1>1, ElementOfSeq, Zenon
  <2>. QED  BY <2>1, ExecutionAssumption DEF Landings
<1>3. IsFiniteSet(S) /\ n \in Nat
  <2>1. IsFiniteSet(DOMAIN s)
    BY <1>1, FS_Interval
  <2>. QED  BY <2>1, FS_Subset, FS_CardinalityType, Zenon
<1>4. \A i \in S : i <= n
  <2> SUFFICES ASSUME NEW i \in S PROVE i <= n
    BY Zenon
  <2>1. i \in Nat /\ i \in 1 .. Len(s)
    BY <1>1
  <2>2. 1 .. i \subseteq S
    <3>1. SUFFICES ASSUME NEW k \in 1 .. i PROVE k \in S
      BY Zenon
    <3>2. k \in DOMAIN s /\ (k = i \/ k < i)
      BY <1>1, <2>1
    <3>3. i \in DOMAIN s /\ s[i].height <= f
      BY Zenon
    <3>4. s[k].height <= s[i].height /\ s[k].height \in Int /\ s[i].height \in Int
      BY <1>2, <3>2, <3>3
    <3>5. s[k].height <= f
      BY <3>3, <3>4
    <3>. QED  BY <3>2, <3>5, Zenon
  <2>3. Cardinality(1 .. i) = i
    BY <2>1, FS_Interval
  <2>4. Cardinality(1 .. i) <= n
    BY <1>3, <2>2, FS_Subset, Zenon
  <2>. QED  BY <2>3, <2>4, Zenon
<1>5. S \subseteq 1 .. n
  BY <1>1, <1>3, <1>4
<1>6. IsFiniteSet(1 .. n) /\ Cardinality(1 .. n) = n
  BY <1>3, FS_Interval
<1>7. S = 1 .. n
  <2>1. Cardinality(S) = Cardinality(1 .. n)
    BY <1>6, Zenon
  <2>. QED  BY <1>5, <1>6, <2>1, FS_Subset, Zenon
<1>. QED  BY <1>3, <1>7, Zenon

\* What is final is what landed at or below the finalized height.
LEMMA FinalIs ==
  ASSUME TypeWorld, LandedInOrder
  PROVE  /\ Rooted \in Nat /\ Rooted <= Len(landed)
         /\ \A i \in Nat \ {0} : i <= Rooted <=> (i \in DOMAIN landed /\ landed[i].height <= fin)
<1>1. landed \in Seq(Landings) /\ fin \in Int /\ Len(landed) \in Nat /\ DOMAIN landed = 1 .. Len(landed)
  BY ExecutionAssumption, LenProperties DEF TypeWorld
<1>2. \A i, j \in DOMAIN landed : i < j => landed[i].height <= landed[j].height
  BY Zenon DEF LandedInOrder
<1>3. Rooted \in Nat /\ {i \in DOMAIN landed : landed[i].height <= fin} = 1 .. Rooted
  BY <1>1, <1>2, RootedIs, Zenon DEF Rooted
<1>4. \A i \in Nat \ {0} : i <= Rooted <=> (i \in DOMAIN landed /\ landed[i].height <= fin)
  BY <1>3
<1>. QED  BY <1>1, <1>3, <1>4

\* The same of the next state.
LEMMA FinalIsNext ==
  ASSUME TypeWorld', LandedInOrder'
  PROVE  /\ Rooted' \in Nat /\ Rooted' <= Len(landed')
         /\ \A i \in Nat \ {0} : i <= Rooted' <=> (i \in DOMAIN landed' /\ landed'[i].height <= fin')
<1>1. landed' \in Seq(Landings) /\ fin' \in Int /\ Len(landed') \in Nat /\ DOMAIN landed' = 1 .. Len(landed')
  BY ExecutionAssumption, LenProperties DEF TypeWorld
<1>2. \A i, j \in DOMAIN landed' : i < j => landed'[i].height <= landed'[j].height
  BY Zenon DEF LandedInOrder
<1>3. Rooted' \in Nat /\ {i \in DOMAIN landed' : landed'[i].height <= fin'} = 1 .. Rooted'
  BY <1>1, <1>2, RootedIs, Zenon DEF Rooted
<1>4. \A i \in Nat \ {0} : i <= Rooted' <=> (i \in DOMAIN landed' /\ landed'[i].height <= fin')
  BY <1>3
<1>. QED  BY <1>1, <1>3, <1>4

\* What is final stays final when the finalized landings are kept.
LEMMA FinalStays ==
  ASSUME TypeWorld, LandedInOrder, TypeWorld', LandedInOrder',
         \A i \in DOMAIN landed : landed[i].height <= fin =>
             i \in DOMAIN landed' /\ landed'[i] = landed[i] /\ landed[i].height <= fin'
  PROVE  /\ Finalized \subseteq Finalized'
         /\ \A w : \A ok \in BOOLEAN : FinalizedAs(w, ok) => FinalizedAs(w, ok)'
<1>1. \A i \in 1 .. Rooted : i \in 1 .. Rooted' /\ landed'[i] = landed[i]
  BY FinalIs, FinalIsNext
<1>2. \A w : \A ok \in BOOLEAN : FinalizedAs(w, ok) => FinalizedAs(w, ok)'
  BY <1>1, Zenon DEF FinalizedAs, FinalCount
<1>3. Finalized \subseteq Finalized'
  BY <1>1, Zenon DEF Finalized, Succeeded, FinalCount
<1>. QED  BY <1>2, <1>3, Zenon

\* What is final is confirmed, and a final wire was seen.
LEMMA FinalIsConfirmed ==
  ASSUME TypeWorld, LandedInOrder
  PROVE  /\ Finalized \subseteq Confirmed
         /\ \A w : \A ok \in BOOLEAN : FinalizedAs(w, ok) =>
              \E i \in DOMAIN landed : landed[i].wire = w /\ landed[i].ok = ok
<1>1. \A i \in 1 .. Rooted : i \in DOMAIN landed
  BY FinalIs
<1>2. landed \in Seq(Landings) /\ DOMAIN landed = 1 .. Len(landed)
  BY LenProperties, Zenon DEF TypeWorld
<1>3. Finalized \subseteq Confirmed
  BY <1>1, <1>2, Zenon DEF Finalized, Confirmed, Succeeded, FinalCount
<1>. QED  BY <1>1, <1>3, Zenon DEF FinalizedAs, FinalCount

-----------------------------------------------------------------------------
(* The steps of the world.                                                 *)

\* What is read from the network depends on the blocks only.
LEMMA SameBlocks ==
  ASSUME UNCHANGED <<fin, landed>>
  PROVE  /\ Finalized' = Finalized
         /\ \A w, ok : FinalizedAs(w, ok)' = FinalizedAs(w, ok)
         /\ \A w : Seen(w)' = Seen(w)
         /\ SealedIsComplete' = SealedIsComplete
BY DEF Finalized, Succeeded, FinalCount, Rooted, FinalizedAs, Seen, SealedIsComplete

\* A step of the process alone.
LEMMA WorldSame ==
  ASSUME World, UNCHANGED <<tip, fin, flight, landed, journal, sent>>
  PROVE  World'
<1>1. TypeWorld' /\ LandedInOrder'
  BY Zenon DEF World, TypeWorld, LandedInOrder
<1>2. FlightIsAuthorized' /\ RetriesAreSerial'
  BY Zenon DEF World, JournalInv, FlightIsAuthorized, RetriesAreSerial, Dead
<1>3. JournalIsTrue' /\ SealFollowsUploads' /\ AbsentIsGone' /\ SealedIsComplete'
  BY SameBlocks, Zenon
    DEF World, JournalInv, JournalIsTrue, SealFollowsUploads, AbsentIsGone, Gone, LastValid
<1>. QED  BY <1>1, <1>2, <1>3, Zenon DEF World, JournalInv

\* An open wire is updated: its expiry is bound, its authority consumed, its
\* submission recorded, or it is closed by an outcome that is so on chain.
LEMMA WorldUpdate ==
  ASSUME World, UNCHANGED <<tip, fin, flight, landed, sent>>,
         NEW w \in DOMAIN journal, Open(w),
         DOMAIN journal' = DOMAIN journal,
         \A v \in DOMAIN journal : v # w => journal'[v] = journal[v],
         journal'[w] \in ReadyWires,
         journal'[w].birth = journal[w].birth,
         journal[w].bound => journal'[w].bound,
         journal[w].consumed => journal'[w].consumed,
         journal'[w].outcome = "finalized" => FinalizedAs(w, TRUE),
         journal'[w].outcome = "failed" => FinalizedAs(w, FALSE),
         IsRetry(w) /\ journal'[w].outcome \in {"abandoned", "expired"} => Gone(w)
  PROVE  World'
<1>1. TypeWorld' /\ LandedInOrder'
  BY Zenon DEF World, TypeWorld, LandedInOrder
<1>2. FlightIsAuthorized'
  BY Zenon DEF World, TypeWorld, JournalInv, FlightIsAuthorized
<1>3. RetriesAreSerial'
  <2>1. ~Dead(w)
    BY Zenon DEF Open, Dead
  <2>2. \A v \in DOMAIN journal : Dead(v) => Dead(v)'
    BY <2>1, Zenon DEF Dead
  <2>. QED  BY <2>2, Zenon DEF World, JournalInv, RetriesAreSerial
<1>4. JournalIsTrue'
  <2> SUFFICES ASSUME NEW v \in DOMAIN journal
               PROVE  /\ journal'[v].outcome = "finalized" => FinalizedAs(v, TRUE)'
                      /\ journal'[v].outcome = "failed" => FinalizedAs(v, FALSE)'
                      /\ IsRetry(v) /\ journal'[v].outcome \in {"abandoned", "expired"} => ~Seen(v)'
    BY Zenon DEF JournalIsTrue
  <2>1. CASE v = w
    BY <2>1, SameBlocks, Zenon DEF Gone
  <2>2. CASE v # w
    BY <2>2, SameBlocks, Zenon DEF World, JournalInv, JournalIsTrue
  <2>. QED  BY <2>1, <2>2, Zenon
<1>5. AbsentIsGone'
  <2> SUFFICES ASSUME NEW v \in DOMAIN journal, IsRetry(v),
                      journal'[v].outcome \in {"abandoned", "expired"}
               PROVE  Gone(v)'
    BY Zenon DEF AbsentIsGone
  <2>1. Gone(v)
    BY Zenon DEF World, JournalInv, AbsentIsGone
  <2>2. LastValid(v)' = LastValid(v)
    BY Zenon DEF LastValid
  <2>. QED  BY <2>1, <2>2, SameBlocks, Zenon DEF Gone
<1>6. SealFollowsUploads' /\ SealedIsComplete'
  BY SameBlocks, Zenon DEF World, JournalInv, SealFollowsUploads
<1>. QED  BY <1>1, <1>2, <1>3, <1>4, <1>5, <1>6, Zenon DEF World, JournalInv

\* A wire is spooled after every earlier retry of its step, all of them
\* settled, and the seal after the chunks are final.
LEMMA WorldSpool ==
  ASSUME World, UNCHANGED <<tip, fin, flight, landed, sent>>,
         NEW w \in Wires, spool_signed_wire_submit_ready(w),
         \A k \in 1 .. w[2] : k < w[2] => <<w[1], k>> \in DOMAIN journal,
         \A v \in DOMAIN journal : v[1] = w[1] /\ IsRetry(v) /\ v[2] < w[2] => Dead(v),
         w[1] = Seal => Upload \subseteq Finalized
  PROVE  /\ World'
         /\ w \notin DOMAIN journal /\ DOMAIN journal' = DOMAIN journal \cup {w}
         /\ Open(w)'
         /\ \A v \in DOMAIN journal : Dead(v)' = Dead(v)
<1>1. w \notin DOMAIN journal
  BY Zenon DEF spool_signed_wire_submit_ready
<1>2. /\ DOMAIN journal' = DOMAIN journal \cup {w}
      /\ \A v \in DOMAIN journal : journal'[v] = journal[v]
      /\ journal'[w] = [birth |-> tip, bound |-> FALSE, consumed |-> FALSE,
                        submitted |-> FALSE, outcome |-> "open"]
  BY <1>1, Zenon DEF spool_signed_wire_submit_ready
<1>3. journal'[w] \in ReadyWires /\ journal'[w].outcome = "open"
  BY <1>2 DEF World, TypeWorld, ReadyWires, Outcomes
<1>4. TypeWorld' /\ LandedInOrder'
  BY <1>2, <1>3, Zenon DEF World, TypeWorld, LandedInOrder
<1>5. FlightIsAuthorized'
  BY <1>2, Zenon DEF World, TypeWorld, JournalInv, FlightIsAuthorized
<1>6. \A v \in DOMAIN journal : Dead(v)' = Dead(v)
  BY <1>2, Zenon DEF Dead
<1>7. RetriesAreSerial'
  <2>0. w[1] \in Steps /\ w[2] \in Nat /\ w = <<w[1], w[2]>>
    BY ExecutionAssumption DEF Wires
  <2> SUFFICES ASSUME NEW x \in DOMAIN journal \cup {w}
               PROVE  /\ \A k \in 1 .. x[2] : <<x[1], k>> \in DOMAIN journal \cup {w}
                      /\ \A v \in DOMAIN journal \cup {w} :
                           v[1] = x[1] /\ IsRetry(v) /\ v[2] < x[2] => Dead(v)'
    BY <1>2, Zenon DEF RetriesAreSerial
  <2>1. CASE x \in DOMAIN journal
    <3>1. \A k \in 1 .. x[2] : <<x[1], k>> \in DOMAIN journal
      BY <2>1, Zenon DEF World, JournalInv, RetriesAreSerial
    <3>2. \A v \in DOMAIN journal : v[1] = x[1] /\ IsRetry(v) /\ v[2] < x[2] => Dead(v)
      BY <2>1, Zenon DEF World, JournalInv, RetriesAreSerial
    <3>3. x[2] \in Nat
      BY <2>1, ExecutionAssumption DEF World, TypeWorld, Wires
    <3>4. ~(w[1] = x[1] /\ IsRetry(w) /\ w[2] < x[2])
      BY <1>1, <2>0, <3>1, <3>3 DEF IsRetry
    <3>. QED  BY <1>6, <3>1, <3>2, <3>4, Zenon
  <2>2. CASE x = w
    <3>1. \A k \in 1 .. w[2] : <<w[1], k>> \in DOMAIN journal \cup {w}
      BY <2>0
    <3>. QED  BY <1>6, <2>0, <2>2, <3>1
  <2>. QED  BY <2>1, <2>2, Zenon
<1>8. JournalIsTrue'
  <2> SUFFICES ASSUME NEW v \in DOMAIN journal \cup {w}
               PROVE  /\ journal'[v].outcome = "finalized" => FinalizedAs(v, TRUE)'
                      /\ journal'[v].outcome = "failed" => FinalizedAs(v, FALSE)'
                      /\ IsRetry(v) /\ journal'[v].outcome \in {"abandoned", "expired"} => ~Seen(v)'
    BY <1>2, Zenon DEF JournalIsTrue
  <2>1. CASE v = w
    BY <1>3, <2>1, Zenon
  <2>2. CASE v \in DOMAIN journal
    BY <1>2, <2>2, SameBlocks, Zenon DEF World, JournalInv, JournalIsTrue
  <2>. QED  BY <2>1, <2>2, Zenon
<1>9. AbsentIsGone'
  <2> SUFFICES ASSUME NEW v \in DOMAIN journal \cup {w}, IsRetry(v),
                      journal'[v].outcome \in {"abandoned", "expired"}
               PROVE  Gone(v)'
    BY <1>2, Zenon DEF AbsentIsGone
  <2>1. v \in DOMAIN journal /\ journal'[v] = journal[v]
    BY <1>2, <1>3, Zenon
  <2>2. Gone(v)
    BY <2>1, Zenon DEF World, JournalInv, AbsentIsGone
  <2>3. LastValid(v)' = LastValid(v)
    BY <2>1, Zenon DEF LastValid
  <2>. QED  BY <2>2, <2>3, SameBlocks, Zenon DEF Gone
<1>10. SealFollowsUploads' /\ SealedIsComplete'
  BY <1>2, SameBlocks, Zenon DEF World, JournalInv, SealFollowsUploads
<1>11. World'
  BY <1>4, <1>5, <1>7, <1>8, <1>9, <1>10, Zenon DEF World, JournalInv
<1>. QED  BY <1>1, <1>2, <1>3, <1>6, <1>11, Zenon DEF Open

\* A wire is handed to the network: a retry that is open, with its expiry
\* bound and its authority consumed, or an original wire.
LEMMA WorldHandOver ==
  ASSUME World, UNCHANGED <<tip, fin, landed, journal>>,
         NEW w \in DOMAIN journal,
         flight' = flight \/ flight' = flight \cup {w},
         sent' = sent \/ (sent' = sent \cup {w} /\ journal[w].consumed),
         IsRetry(w) => Open(w) /\ journal[w].bound,
         IsRetry(w) \/ w[1] = Pay => journal[w].consumed
  PROVE  World'
<1>1. flight \subseteq flight' /\ \A v \in flight' : v \in flight \/ v = w
  BY Zenon
<1>2. \A v \in sent' : v \in sent \/ (v = w /\ journal[w].consumed)
  OBVIOUS
<1>3. TypeWorld' /\ LandedInOrder'
  BY <1>1, <1>2, Zenon DEF World, TypeWorld, LandedInOrder
<1>4. FlightIsAuthorized'
  BY <1>1, <1>2, Zenon DEF World, JournalInv, FlightIsAuthorized
<1>5. RetriesAreSerial' /\ JournalIsTrue' /\ SealFollowsUploads' /\ SealedIsComplete'
  BY SameBlocks, Zenon
    DEF World, JournalInv, RetriesAreSerial, Dead, JournalIsTrue, SealFollowsUploads
<1>6. AbsentIsGone'
  <2> SUFFICES ASSUME NEW v \in DOMAIN journal, IsRetry(v),
                      journal[v].outcome \in {"abandoned", "expired"}
               PROVE  Gone(v)'
    BY Zenon DEF AbsentIsGone
  <2>1. Gone(v)
    BY Zenon DEF World, JournalInv, AbsentIsGone
  <2>2. v # w
    BY Zenon DEF Open
  <2>3. LastValid(v)' = LastValid(v)
    BY Zenon DEF LastValid
  <2>. QED  BY <1>1, <2>1, <2>2, <2>3, SameBlocks, Zenon DEF Gone
<1>. QED  BY <1>3, <1>4, <1>5, <1>6, Zenon DEF World, JournalInv

\* A step of the network that keeps what is final, and adds at most a wire
\* that is in its window.
Advances ==
    /\ TypeWorld' /\ LandedInOrder' /\ SealedIsComplete'
    /\ UNCHANGED <<flight, journal, sent>>
    /\ fin <= fin'
    /\ \A i \in DOMAIN landed : landed[i].height <= fin =>
          i \in DOMAIN landed' /\ landed'[i] = landed[i] /\ landed[i].height <= fin'
    /\ \A v : Seen(v)' => Seen(v) \/ (v \in flight /\ fin <= LastValid(v))

\* A wire that was given up stays so.
LEMMA GoneStays ==
  ASSUME World, Advances, NEW v \in DOMAIN journal, Gone(v)
  PROVE  Gone(v)'
<1>1. LastValid(v)' = LastValid(v) /\ LastValid(v) \in Int
  BY ExecutionAssumption DEF Advances, LastValid, World, TypeWorld, ReadyWires
<1>2. fin \in Int /\ fin' \in Int /\ fin <= fin' /\ flight' = flight
  BY ExecutionAssumption DEF Advances, World, TypeWorld
<1>3. ~Seen(v)'
  BY <1>1, <1>2 DEF Advances, Gone
<1>. QED  BY <1>1, <1>2, <1>3 DEF Gone

\* Such a step preserves the world.
LEMMA WorldAdvances ==
  ASSUME World, Advances
  PROVE  World' /\ Finalized \subseteq Finalized'
<1>1. /\ Finalized \subseteq Finalized'
      /\ \A w : \A ok \in BOOLEAN : FinalizedAs(w, ok) => FinalizedAs(w, ok)'
  BY FinalStays, Zenon DEF World, Advances
<1>2. FlightIsAuthorized' /\ RetriesAreSerial'
  BY Zenon DEF World, Advances, JournalInv, FlightIsAuthorized, RetriesAreSerial, Dead
<1>3. AbsentIsGone'
  BY GoneStays, Zenon DEF World, Advances, JournalInv, AbsentIsGone
<1>4. JournalIsTrue'
  <2>1. journal' = journal
    BY Zenon DEF Advances
  <2> SUFFICES ASSUME NEW v \in DOMAIN journal
               PROVE  /\ journal[v].outcome = "finalized" => FinalizedAs(v, TRUE)'
                      /\ journal[v].outcome = "failed" => FinalizedAs(v, FALSE)'
                      /\ IsRetry(v) /\ journal[v].outcome \in {"abandoned", "expired"} => ~Seen(v)'
    BY <2>1, Zenon DEF JournalIsTrue
  <2>2. IsRetry(v) /\ journal[v].outcome \in {"abandoned", "expired"} => ~Seen(v)'
    BY <1>3, <2>1, Zenon DEF AbsentIsGone, Gone
  <2>. QED  BY <1>1, <2>2, Zenon DEF World, JournalInv, JournalIsTrue
<1>5. SealFollowsUploads'
  BY <1>1, Zenon DEF World, Advances, JournalInv, SealFollowsUploads
<1>. QED  BY <1>1, <1>2, <1>3, <1>4, <1>5, Zenon DEF World, Advances, JournalInv

\* The types of the landings.
LEMMA LandingTypes ==
  ASSUME TypeWorld
  PROVE  /\ Len(landed) \in Nat /\ DOMAIN landed = 1 .. Len(landed)
         /\ \A i \in DOMAIN landed : /\ landed[i] \in Landings
                                     /\ landed[i].height \in Int /\ landed[i].wire \in Wires
<1>1. landed \in Seq(Landings) /\ Len(landed) \in Nat /\ DOMAIN landed = 1 .. Len(landed)
  BY LenProperties, Zenon DEF TypeWorld
<1>2. \A i \in DOMAIN landed : landed[i] \in Landings
  BY <1>1, ElementOfSeq, Zenon
<1>. QED  BY <1>1, <1>2, ExecutionAssumption DEF Landings

\* A block is produced.
LEMMA ProduceAdvances ==
  ASSUME World, Produce
  PROVE  Advances
<1>1. TypeWorld' /\ LandedInOrder'
  <2>1. tip' \in 0 .. MaxHeight /\ fin' \in 0 .. tip' /\ tip \in Int /\ tip <= tip'
    BY ExecutionAssumption DEF World, TypeWorld, Produce
  <2>2. \A i \in DOMAIN landed : landed[i].height \in Int
    BY LandingTypes, Zenon DEF World
  <2>3. TypeWorld'
    BY <2>1, Zenon DEF World, TypeWorld, Produce, files
  <2>. QED  BY <2>1, <2>2, <2>3 DEF World, LandedInOrder, Produce, files
<1>. QED
  BY <1>1, SameBlocks, ExecutionAssumption DEF Produce, files, Advances, World, TypeWorld

\* A block is finalized.
LEMMA FinalizeAdvances ==
  ASSUME World, Finalize
  PROVE  Advances
<1>1. fin' \in 0 .. tip' /\ fin \in Int /\ fin <= fin' /\ tip' = tip
  BY ExecutionAssumption DEF World, TypeWorld, Finalize
<1>2. TypeWorld' /\ LandedInOrder'
  BY <1>1, Zenon DEF World, TypeWorld, LandedInOrder, Finalize, files
<1>3. SealedIsComplete' /\ \A v : Seen(v)' => Seen(v)
  BY DEF World, Finalize, SealedIsComplete, Succeeded, Seen
<1>4. \A i \in DOMAIN landed : landed[i].height \in Int
  BY LandingTypes, Zenon DEF World
<1>. QED
  BY <1>1, <1>2, <1>3, <1>4 DEF Finalize, files, Advances

\* The blocks after the finalized one are dropped.
LEMMA ForkAdvances ==
  ASSUME World, Fork
  PROVE  Advances
<1>1. Rooted \in Nat /\ Rooted <= Len(landed) /\ landed \in Seq(Landings)
  BY FinalIs, Zenon DEF World, TypeWorld
<1>2. /\ landed' \in Seq(Landings) /\ Len(landed') = Rooted
      /\ DOMAIN landed' = 1 .. Rooted
      /\ \A i \in 1 .. Rooted : landed'[i] = landed[i]
  <2>1. landed' = SubSeq(landed, 1, Rooted)
    BY Zenon DEF Fork
  <2>. QED  BY <1>1, <2>1, SubSeqProperties
<1>3. DOMAIN landed' \subseteq DOMAIN landed
  BY <1>1, <1>2, LandingTypes DEF World
<1>4. UNCHANGED <<tip, fin, flight, journal, sent>>
  BY Zenon DEF Fork, files
<1>5. TypeWorld'
  BY <1>2, <1>4, Zenon DEF World, TypeWorld
<1>6. LandedInOrder'
  BY <1>2, <1>3, <1>4, Zenon DEF World, LandedInOrder
<1>7. \A v : Seen(v)' => Seen(v)
  BY <1>2, <1>3, Zenon DEF Seen
<1>8. \A i \in DOMAIN landed : landed[i].height <= fin =>
          i \in DOMAIN landed' /\ landed'[i] = landed[i] /\ landed[i].height <= fin'
  BY <1>2, <1>4, FinalIs, LandingTypes DEF World
<1>9. SealedIsComplete'
  <2> SUFFICES ASSUME NEW i \in 1 .. Rooted, landed[i].wire[1] = Seal, landed[i].ok
               PROVE  Upload \subseteq Succeeded(i)'
    BY <1>2, Zenon DEF SealedIsComplete
  <2>1. Upload \subseteq Succeeded(i)
    BY <1>2, <1>3, Zenon DEF World, SealedIsComplete
  <2>2. \A j \in 1 .. i : landed'[j] = landed[j]
    BY <1>1, <1>2
  <2>3. Succeeded(i)' = Succeeded(i)
    BY <2>2, Zenon DEF Succeeded
  <2>. QED  BY <2>1, <2>3, Zenon
<1>10. fin <= fin'
  BY <1>4, ExecutionAssumption DEF World, TypeWorld
<1>. QED  BY <1>4, <1>5, <1>6, <1>7, <1>8, <1>9, <1>10, Zenon DEF Advances

\* A wire in its window is included in the block being produced.
LEMMA IncludeAdvances ==
  ASSUME World, NEW w \in flight, Include(w)
  PROVE  Advances
<1>n. PICK n \in Nat : n = Len(landed)
  BY LandingTypes, Zenon DEF World
<1> DEFINE e == [wire |-> w, height |-> tip, ok |-> Accepts(w[1], Confirmed)]
<1>0. UNCHANGED <<tip, fin, flight, journal, sent>>
  BY Zenon DEF Include, files
<1>1. n \in Nat /\ landed \in Seq(Landings) /\ DOMAIN landed = 1 .. n
  BY <1>n, LandingTypes, Zenon DEF World, TypeWorld
<1>2. w \in DOMAIN journal /\ w \in Wires
  BY Zenon DEF World, TypeWorld
<1>3. e \in Landings
  <2>1. Accepts(w[1], Confirmed) \in BOOLEAN
    BY Zenon DEF Accepts
  <2>2. tip \in 0 .. MaxHeight
    BY Zenon DEF World, TypeWorld
  <2>. QED  BY <1>2, <2>1, <2>2, Zenon DEF Landings
<1>4. /\ landed' \in Seq(Landings) /\ DOMAIN landed' = 1 .. n + 1
      /\ \A i \in 1 .. n : landed'[i] = landed[i]
      /\ landed'[n + 1] = e
  <2>1. landed' = Append(landed, e)
    BY Zenon DEF Include
  <2>. HIDE DEF e
  <2>. QED  BY <1>n, <1>1, <1>3, <2>1, AppendProperties
<1>5. e.wire = w /\ e.height = tip /\ e.ok = Accepts(w[1], Confirmed)
  BY Zenon
<1>. HIDE DEF e
<1>6. \A i \in DOMAIN landed' : \/ i \in DOMAIN landed /\ landed'[i] = landed[i]
                                \/ i = n + 1 /\ landed'[i] = e
  <2>1. \A i \in 1 .. n + 1 : i \in 1 .. n \/ i = n + 1
    BY <1>n
  <2>. QED  BY <1>1, <1>4, <2>1, Zenon
<1>7. TypeWorld'
  BY <1>0, <1>4, Zenon DEF World, TypeWorld
<1>8. ~Seen(w) /\ tip <= LastValid(w)
  BY Zenon DEF Include
<1>9. LandedInOrder'
  <2>1. tip \in Int /\ \A i \in DOMAIN landed : landed[i].height \in Int /\ landed[i].height <= tip
    BY LandingTypes, ExecutionAssumption DEF World, TypeWorld, LandedInOrder
  <2>2. \A i, j \in DOMAIN landed' : i < j => landed'[i].height <= landed'[j].height
    BY <1>1, <1>4, <1>5, <2>1 DEF World, LandedInOrder
  <2>3. \A i \in DOMAIN landed' : landed'[i].height <= tip /\ landed'[i].wire \in flight
    BY <1>5, <1>6, <2>1 DEF World, LandedInOrder
  <2>4. \A i, j \in DOMAIN landed' : landed'[i].wire = landed'[j].wire => i = j
    BY <1>5, <1>6, <1>8, Zenon DEF World, LandedInOrder, Seen
  <2>. QED  BY <1>0, <2>2, <2>3, <2>4, Zenon DEF LandedInOrder
<1>10. \A v : Seen(v)' => Seen(v) \/ (v \in flight /\ fin <= LastValid(v))
  <2>1. fin <= LastValid(w)
    BY <1>2, <1>8, ExecutionAssumption DEF World, TypeWorld, LastValid, ReadyWires
  <2>. QED  BY <1>5, <1>6, <2>1, Zenon DEF Seen
<1>11. \A i \in DOMAIN landed : landed[i].height <= fin =>
          i \in DOMAIN landed' /\ landed'[i] = landed[i] /\ landed[i].height <= fin'
  BY <1>0, <1>1, <1>4
<1>12. SealedIsComplete'
  <2> SUFFICES ASSUME NEW i \in DOMAIN landed', landed'[i].wire[1] = Seal, landed'[i].ok
               PROVE  Upload \subseteq Succeeded(i)'
    BY Zenon DEF SealedIsComplete
  <2>1. \A m \in 0 .. n : Succeeded(m)' = Succeeded(m)
    BY <1>1, <1>4 DEF Succeeded
  <2>2. CASE i \in DOMAIN landed /\ landed'[i] = landed[i]
    <3>1. Upload \subseteq Succeeded(i)
      BY <2>2, Zenon DEF World, SealedIsComplete
    <3>. QED  BY <1>1, <2>1, <2>2, <3>1
  <2>3. CASE i = n + 1 /\ landed'[i] = e
    <3>1. Upload \subseteq Finalized
      BY <1>2, <1>5, <2>3, Zenon DEF World, JournalInv, SealFollowsUploads
    <3>2. Upload \subseteq Succeeded(n)
      BY <1>n, <3>1, FinalIsConfirmed, Zenon DEF World, Confirmed
    <3>3. Upload \subseteq Succeeded(n)'
      BY <1>1, <2>1, <3>2
    <3>4. Succeeded(n)' \subseteq Succeeded(n + 1)'
      BY <1>1 DEF Succeeded
    <3>. QED  BY <2>3, <3>3, <3>4, Zenon
  <2>. QED  BY <1>6, <2>2, <2>3, Zenon
<1>13. fin <= fin'
  BY <1>0, ExecutionAssumption DEF World, TypeWorld
<1>. QED  BY <1>0, <1>7, <1>9, <1>10, <1>11, <1>12, <1>13, ZenonT(30) DEF Advances

-----------------------------------------------------------------------------
(* The entries of the journal.                                             *)

Others(w) ==
    /\ DOMAIN journal' = DOMAIN journal
    /\ \A v \in DOMAIN journal : v # w => journal'[v] = journal[v]

\* The expiry of a retry is bound.
LEMMA BoundUpdate ==
  ASSUME World, UNCHANGED <<tip, fin, flight, landed, sent>>,
         NEW w \in DOMAIN journal, Open(w), fresh_wire_blockhash_bound(w)
  PROVE  World' /\ Others(w) /\ Open(w)'
<1>1. journal[w] \in ReadyWires
  BY Zenon DEF World, TypeWorld
<1>2. Others(w) /\ journal'[w] = [journal[w] EXCEPT !.bound = TRUE]
  BY Zenon DEF fresh_wire_blockhash_bound, Others
<1>3. /\ journal'[w] \in ReadyWires /\ journal'[w].bound
      /\ journal'[w].birth = journal[w].birth
      /\ journal'[w].consumed = journal[w].consumed
      /\ journal'[w].outcome = journal[w].outcome
  BY <1>1, <1>2, Zenon DEF ReadyWires
<1>4. journal'[w].outcome = "open"
  BY <1>3, Zenon DEF Open
<1>5. World'
  BY <1>2, <1>3, <1>4, WorldUpdate, Zenon DEF Others
<1>. QED  BY <1>2, <1>4, <1>5, Zenon DEF Open

\* The authority to send is consumed.
LEMMA ConsumedUpdate ==
  ASSUME World, UNCHANGED <<tip, fin, flight, landed, sent>>,
         NEW w \in DOMAIN journal, Open(w), wire_send_authority_consumed(w)
  PROVE  /\ World' /\ Others(w) /\ Open(w)'
         /\ journal'[w].consumed /\ journal'[w].bound = journal[w].bound
<1>1. journal[w] \in ReadyWires
  BY Zenon DEF World, TypeWorld
<1>2. Others(w) /\ journal'[w] = [journal[w] EXCEPT !.consumed = TRUE]
  BY Zenon DEF wire_send_authority_consumed, Others
<1>3. /\ journal'[w] \in ReadyWires /\ journal'[w].consumed
      /\ journal'[w].birth = journal[w].birth
      /\ journal'[w].bound = journal[w].bound
      /\ journal'[w].outcome = journal[w].outcome
  BY <1>1, <1>2, Zenon DEF ReadyWires
<1>4. journal'[w].outcome = "open"
  BY <1>3, Zenon DEF Open
<1>5. World'
  BY <1>2, <1>3, <1>4, WorldUpdate, Zenon DEF Others
<1>. QED  BY <1>2, <1>3, <1>4, <1>5, Zenon DEF Open

\* A submission is recorded.
LEMMA SubmittedUpdate ==
  ASSUME World, UNCHANGED <<tip, fin, flight, landed, sent>>,
         NEW w \in DOMAIN journal, record_submission(w)
  PROVE  World' /\ Others(w) /\ Open(w)'
<1>1. journal[w] \in ReadyWires /\ Open(w)
  BY Zenon DEF World, TypeWorld, record_submission
<1>2. Others(w) /\ journal'[w] = [journal[w] EXCEPT !.submitted = TRUE]
  BY Zenon DEF record_submission, Others
<1>3. /\ journal'[w] \in ReadyWires
      /\ journal'[w].birth = journal[w].birth
      /\ journal'[w].bound = journal[w].bound
      /\ journal'[w].consumed = journal[w].consumed
      /\ journal'[w].outcome = journal[w].outcome
  BY <1>1, <1>2, Zenon DEF ReadyWires
<1>4. journal'[w].outcome = "open"
  BY <1>1, <1>3, Zenon DEF Open
<1>5. World'
  BY <1>1, <1>2, <1>3, <1>4, WorldUpdate, Zenon DEF Others
<1>. QED  BY <1>2, <1>4, <1>5, Zenon DEF Open

\* A wire is closed by an outcome that is so.
LEMMA CloseUpdate ==
  ASSUME World, UNCHANGED <<tip, fin, flight, landed, sent>>,
         NEW w \in DOMAIN journal, Open(w), NEW o \in Outcomes \ {"open"},
         journal' = [journal EXCEPT ![w].outcome = o],
         o = "finalized" => FinalizedAs(w, TRUE),
         o = "failed" => FinalizedAs(w, FALSE),
         IsRetry(w) /\ o \in {"abandoned", "expired"} => Gone(w)
  PROVE  World' /\ Others(w) /\ journal'[w].outcome = o
<1>1. journal[w] \in ReadyWires
  BY Zenon DEF World, TypeWorld
<1>2. Others(w) /\ journal'[w] = [journal[w] EXCEPT !.outcome = o]
  BY Zenon DEF Others
<1>3. /\ journal'[w] \in ReadyWires
      /\ journal'[w].birth = journal[w].birth
      /\ journal'[w].bound = journal[w].bound
      /\ journal'[w].consumed = journal[w].consumed
      /\ journal'[w].outcome = o
  BY <1>1, <1>2, Zenon DEF ReadyWires
<1>4. World'
  BY <1>2, <1>3, WorldUpdate, Zenon DEF Others
<1>. QED  BY <1>2, <1>3, <1>4, Zenon

-----------------------------------------------------------------------------
(* Control of the executor.                                                *)

Sound == World /\ proc \in Procs /\ ControlIsSound

Followed ==
    /\ Current \in DOMAIN journal /\ Open(Current)
    /\ \A v \in DOMAIN journal : v[1] = proc.step /\ v # Current => Dead(v)
FreshExpectsNothing == proc.mode = "fresh" => proc.expected = {}

\* Steps and attempts are numbers in range.
LEMMA StepFacts ==
  /\ Create \in Steps /\ 2 \in Steps /\ 0 \in 0 .. MaxAttempts
  /\ \A s \in Steps : s # Pay => s + 1 \in Steps
  /\ Pay \in Steps /\ Steps \subseteq Nat /\ Pay # Seal
BY ExecutionAssumption DEF Steps, Create, Pay, Seal

\* The fields of the process.
LEMMA ProcTypes ==
  ASSUME proc \in Procs
  PROVE  /\ proc.at \in Labels /\ proc.step \in Steps /\ proc.attempt \in 0 .. MaxAttempts
         /\ Current \in Wires /\ Current[1] = proc.step /\ Current[2] = proc.attempt
         /\ IsRetry(Current) = (proc.attempt > 0)
BY Zenon DEF Procs, Current, Wires, IsRetry

\* A jump changes the label only.
LEMMA GotoFields ==
  ASSUME proc \in Procs, NEW l \in Labels, Goto(l)
  PROVE  /\ proc' \in Procs /\ proc'.at = l
         /\ proc'.step = proc.step /\ proc'.attempt = proc.attempt
         /\ proc'.mode = proc.mode /\ proc'.expected = proc.expected
         /\ Current' = Current
BY Zenon DEF Procs, Goto, Current

\* A process that is off is in control of nothing.
LEMMA FailSound ==
  ASSUME Fail
  PROVE  proc' \in Procs /\ proc'.at = "off" /\ ControlIsSound'
<1>1. proc' \in Procs /\ proc'.at = "off" /\ proc'.expected = {} /\ proc'.attempt = 0
  BY StepFacts, Zenon DEF Fail, Off, Procs, Labels
<1>. QED  BY <1>1, Zenon DEF ControlIsSound, Following

\* The next step begins with no wire.
LEMMA NextSound ==
  ASSUME proc \in Procs, FreshExpectsNothing, NextStep
  PROVE  proc' \in Procs /\ proc'.at \in {"begin", "commit"} /\ ControlIsSound'
<1>1. /\ proc'.at \in {"begin", "commit"} /\ proc'.attempt = 0
      /\ proc'.mode = proc.mode /\ proc'.expected = proc.expected
      /\ proc' \in Procs
  BY StepFacts, Zenon DEF NextStep, Procs, Labels
<1>. QED  BY <1>1, Zenon DEF ControlIsSound, Following, FreshExpectsNothing

\* At a label that needs nothing but a wire to follow.
LEMMA FollowSound ==
  ASSUME FreshExpectsNothing', Followed',
         proc'.at \in {"bind", "status", "blockhash", "expiry", "accepted", "unanswered"}
  PROVE  ControlIsSound'
BY Zenon DEF ControlIsSound, Following, Followed, FreshExpectsNothing

\* Where a wire may be signed.
LEMMA SignSound ==
  ASSUME FreshExpectsNothing', proc'.at = "sign",
         (\A v \in DOMAIN journal : v[1] = proc.step => Dead(v))',
         (proc.step = Seal => Upload \subseteq Finalized)'
  PROVE  ControlIsSound'
BY Zenon DEF ControlIsSound, Following, FreshExpectsNothing

\* What is known where a wire is followed.
LEMMA Follows ==
  ASSUME ControlIsSound
  PROVE  /\ FreshExpectsNothing
         /\ Following => Followed
BY Zenon DEF ControlIsSound, Followed, FreshExpectsNothing

\* A wire that is followed is followed on, when the others are left alone.
LEMMA FollowedOn ==
  ASSUME Followed, Current' = Current, proc'.step = proc.step, Others(Current), Open(Current)'
  PROVE  Followed'
<1>1. \A v \in DOMAIN journal : v # Current => Dead(v)' = Dead(v)
  BY Zenon DEF Others, Dead
<1>. QED  BY <1>1, Zenon DEF Followed, Others, Open

-----------------------------------------------------------------------------
(* The executor's actions.                                                 *)

\* A step that only moves a process that keeps following its wire.
LEMMA MoveOn ==
  ASSUME Sound, Following, UNCHANGED <<tip, fin, flight, landed, journal, sent>>,
         NEW l \in {"status", "blockhash", "expiry"}, Goto(l)
  PROVE  Sound'
<1>1. l \in Labels
  BY Zenon DEF Labels
<1>2. /\ proc' \in Procs /\ proc'.at = l /\ Current' = Current /\ proc'.step = proc.step
      /\ proc'.mode = proc.mode /\ proc'.expected = proc.expected
  BY <1>1, GotoFields, Zenon DEF Sound
<1>3. Followed /\ FreshExpectsNothing
  BY Follows, Zenon DEF Sound
<1>4. Followed'
  BY <1>2, <1>3, FollowedOn, Zenon DEF Others, Followed, Open
<1>5. FreshExpectsNothing'
  BY <1>2, <1>3, Zenon DEF FreshExpectsNothing
<1>6. ControlIsSound'
  BY <1>2, <1>4, <1>5, FollowSound, Zenon
<1>. QED  BY <1>2, <1>6, WorldSame, Zenon DEF Sound

\* A step that gives up.
LEMMA GiveUp ==
  ASSUME World', Fail
  PROVE  Sound'
BY FailSound, Zenon DEF Sound

\* A wire that was followed is closed: a replacement may be signed.
LEMMA Closed ==
  ASSUME Sound, Following, World', UNCHANGED <<fin, landed>>,
         Others(Current), Dead(Current)', Goto("sign")
  PROVE  Sound'
<1>1. /\ proc' \in Procs /\ proc'.at = "sign" /\ proc'.step = proc.step
      /\ proc'.mode = proc.mode /\ proc'.expected = proc.expected /\ Current' = Current
  BY GotoFields, Zenon DEF Sound, Labels
<1>2. Followed /\ FreshExpectsNothing
  BY Follows, Zenon DEF Sound
<1>3. \A v \in DOMAIN journal' : v[1] = proc.step => Dead(v)'
  <2> SUFFICES ASSUME NEW v \in DOMAIN journal', v[1] = proc.step PROVE Dead(v)'
    BY Zenon
  <2>1. v \in DOMAIN journal
    BY Zenon DEF Others
  <2>2. CASE v = Current
    BY <1>1, <2>2, Zenon
  <2>3. CASE v # Current
    BY <1>2, <2>1, <2>3, Zenon DEF Followed, Others, Dead
  <2>. QED  BY <2>2, <2>3, Zenon
<1>4. proc.step = Seal => Upload \subseteq Finalized
  <2>1. Current \in DOMAIN journal /\ Current[1] = proc.step
    BY <1>2, ProcTypes, Zenon DEF Followed, Sound
  <2>. QED  BY <2>1, Zenon DEF Sound, World, JournalInv, SealFollowsUploads
<1>5. FreshExpectsNothing'
  BY <1>1, <1>2, Zenon DEF FreshExpectsNothing
<1>6. (proc.step = Seal => Upload \subseteq Finalized)'
  BY <1>1, <1>4, SameBlocks, Zenon DEF Seal, Upload
<1>7. ControlIsSound'
  BY <1>1, <1>3, <1>5, <1>6, SignSound, Zenon
<1>. QED  BY <1>1, <1>7, Zenon DEF Sound

\* The first run reserves the evidence file.
LEMMA ReserveSound ==
  ASSUME Sound, Reserve
  PROVE  Sound'
<1>1. /\ proc' \in Procs /\ proc'.at = "begin" /\ proc'.attempt = proc.attempt
      /\ proc'.mode = proc.mode /\ proc'.expected = proc.expected
  BY GotoFields, Zenon DEF Sound, Labels, Reserve
<1>2. World'
  BY WorldSame, Zenon DEF Sound, Reserve, At, network
<1>3. ControlIsSound'
  BY <1>1, Zenon DEF Sound, ControlIsSound, Following, Reserve, At
<1>. QED  BY <1>1, <1>2, <1>3, Zenon DEF Sound

\* A first run spools the original wire of a step, the seal's when the chunks
\* are final.
LEMMA BeginOriginalSound ==
  ASSUME Sound, BeginOriginal
  PROVE  Sound'
<1>1. UNCHANGED <<tip, fin, flight, landed, sent>>
  BY Zenon DEF BeginOriginal, At, Journals, network
<1>2. CASE Fail /\ UNCHANGED journal
  BY <1>1, <1>2, WorldSame, GiveUp, Zenon DEF Sound
<1>3. CASE StepReady /\ spool_signed_wire_submit_ready(Current) /\ Goto("send")
  <2>1. proc.attempt = 0 /\ proc.step # Pay /\ proc.expected = {}
    BY Zenon DEF BeginOriginal, Sound, ControlIsSound, At
  <2>2. Current \in Wires /\ Current[1] = proc.step /\ Current[2] = 0
    BY <2>1, ProcTypes, Zenon DEF Sound
  <2>3. proc.step = Seal => Upload \subseteq Finalized
    BY <1>3, <2>1, Zenon DEF StepReady, AllowSubmit
  <2>4. \A v \in DOMAIN journal : ~(IsRetry(v) /\ v[2] < 0)
    BY ExecutionAssumption DEF Sound, World, TypeWorld, Wires, IsRetry
  <2>5. World' /\ DOMAIN journal' = DOMAIN journal \cup {Current}
    BY <1>1, <1>3, <2>2, <2>3, <2>4, WorldSpool DEF Sound
  <2>6. /\ proc' \in Procs /\ proc'.at = "send" /\ proc'.step = proc.step /\ proc'.attempt = 0
        /\ proc'.mode = proc.mode /\ proc'.expected = {} /\ Current' = Current
    BY <1>3, <2>1, GotoFields, Zenon DEF Sound, Labels
  <2>7. Current' \in DOMAIN journal' /\ proc'.step # Pay
    BY <2>1, <2>5, <2>6, Zenon
  <2>8. ControlIsSound'
    BY <2>6, <2>7, Zenon DEF ControlIsSound, Following, Pay
  <2>. QED  BY <2>5, <2>6, <2>8, Zenon DEF Sound
<1>. QED  BY <1>2, <1>3, Zenon DEF BeginOriginal

\* The original wire may reach the network whether or not the send is answered.
LEMMA SendOriginalSound ==
  ASSUME Sound, SendOriginal
  PROVE  Sound'
<1>1. Current \in DOMAIN journal /\ proc.attempt = 0 /\ proc.step # Pay
  BY Zenon DEF SendOriginal, Sound, ControlIsSound
<1>2. ~IsRetry(Current) /\ Current[1] # Pay
  BY <1>1, ProcTypes DEF Sound, IsRetry
<1>3. UNCHANGED <<tip, fin, landed, journal, sent>>
  BY Zenon DEF SendOriginal, files
<1>4. flight' = flight \/ flight' = flight \cup {Current}
  BY Zenon DEF SendOriginal
<1>5. World'
  <2>1. PICK w \in DOMAIN journal : w = Current
    BY <1>1, Zenon
  <2>. QED  BY <1>2, <1>3, <1>4, <2>1, WorldHandOver, Zenon DEF Sound
<1>6. CASE Fail
  BY <1>5, <1>6, GiveUp, Zenon
<1>7. CASE Goto("submitted")
  <2>1. /\ proc' \in Procs /\ proc'.at = "submitted" /\ proc'.step = proc.step /\ proc'.attempt = 0
        /\ proc'.mode = proc.mode /\ proc'.expected = proc.expected /\ Current' = Current
    BY <1>1, <1>7, GotoFields, Zenon DEF Sound, Labels
  <2>2. Current' \in DOMAIN journal' /\ proc'.step # Pay
    BY <1>1, <1>3, <2>1, Zenon
  <2>3. ControlIsSound'
    BY <2>1, <2>2, Zenon DEF Sound, ControlIsSound, Following, Pay
  <2>. QED  BY <1>5, <2>1, <2>3, Zenon DEF Sound
<1>. QED  BY <1>6, <1>7, Zenon DEF SendOriginal

\* The submission of the original wire is recorded.
LEMMA RecordOriginalSound ==
  ASSUME Sound, RecordOriginal
  PROVE  Sound'
<1>1. Current \in DOMAIN journal /\ proc.attempt = 0 /\ proc.step # Pay
  BY Zenon DEF RecordOriginal, Sound, ControlIsSound, At
<1>2. World' /\ DOMAIN journal' = DOMAIN journal
  <2>1. PICK w \in DOMAIN journal : w = Current
    BY <1>1, Zenon
  <2>2. record_submission(w) /\ UNCHANGED <<tip, fin, flight, landed, sent>>
    BY <2>1, Zenon DEF RecordOriginal, At, Journals, network
  <2>. QED  BY <2>2, SubmittedUpdate, Zenon DEF Sound, Others
<1>3. /\ proc' \in Procs /\ proc'.at = "wait" /\ proc'.step = proc.step /\ proc'.attempt = 0
      /\ proc'.mode = proc.mode /\ proc'.expected = proc.expected /\ Current' = Current
  BY <1>1, GotoFields, Zenon DEF Sound, Labels, RecordOriginal
<1>4. Current' \in DOMAIN journal' /\ proc'.step # Pay
  BY <1>1, <1>2, <1>3, Zenon
<1>5. ControlIsSound'
  BY <1>3, <1>4, Zenon DEF Sound, ControlIsSound, Following, Pay
<1>. QED  BY <1>2, <1>3, <1>5, Zenon DEF Sound

\* The original wire is recorded when it is final.
LEMMA WaitOriginalSound ==
  ASSUME Sound, WaitOriginal
  PROVE  Sound'
<1>1. Current \in DOMAIN journal /\ UNCHANGED <<tip, fin, flight, landed, sent>>
  BY Zenon DEF WaitOriginal, Sound, ControlIsSound, At, Journals, network
<1>2. CASE Fail /\ UNCHANGED journal
  BY <1>1, <1>2, WorldSame, GiveUp, Zenon DEF Sound
<1>3. CASE FinalizedAs(Current, TRUE) /\ record_final(Current, TRUE) /\ NextStep
  <2>1. PICK w \in DOMAIN journal : w = Current
    BY <1>1, Zenon
  <2>2. PICK o \in Outcomes \ {"open"} : o = "finalized"
    BY Zenon DEF Outcomes
  <2>3. FinalizedAs(w, TRUE) /\ Open(w) /\ journal' = [journal EXCEPT ![w].outcome = o]
    BY <1>3, <2>1, <2>2, Zenon DEF record_final
  <2>4. World'
    BY <1>1, <2>2, <2>3, CloseUpdate, Zenon DEF Sound
  <2>. QED  BY <1>3, <2>4, NextSound, Follows, Zenon DEF Sound
<1>. QED  BY <1>2, <1>3, ZenonT(30) DEF WaitOriginal

\* The wires are finitely many, so a set of them with at most one member has
\* no two.
LEMMA AtMostOne ==
  ASSUME NEW S \in SUBSET Wires, Cardinality(S) <= 1, NEW v \in S, NEW w \in S
  PROVE  v = w
<1>1. IsFiniteSet(Wires)
  <2>1. IsFiniteSet(Steps) /\ IsFiniteSet(0 .. MaxAttempts)
    BY FS_Interval, ExecutionAssumption DEF Steps, Create, Pay
  <2>. QED  BY <2>1, FS_Product, Zenon DEF Wires
<1>2. IsFiniteSet(S)
  BY <1>1, FS_Subset, Zenon
<1>3. SUFFICES ASSUME v # w PROVE FALSE
  BY Zenon
<1>4. IsFiniteSet({v}) /\ Cardinality({v}) = 1 /\ w \notin {v}
  BY <1>3, FS_Singleton, Zenon
<1>5. Cardinality({v} \cup {w}) = 2
  BY <1>4, FS_AddElement
<1>6. {v} \cup {w} \subseteq S
  BY Zenon
<1>7. Cardinality({v} \cup {w}) <= Cardinality(S)
  BY <1>2, <1>6, FS_Subset, Zenon
<1>8. Cardinality(S) \in Nat
  BY <1>2, FS_CardinalityType, Zenon
<1>. QED  BY <1>5, <1>7, <1>8

\* Reconciliation of a step finds it done, follows the one open wire, or finds
\* every wire settled.
LEMMA BeginSemanticSound ==
  ASSUME Sound, BeginSemantic
  PROVE  Sound'
<1> DEFINE ids == semantic_wire_ids(proc.step)
<1> DEFINE final == {w \in ids : journal[w].outcome = "finalized"}
<1> DEFINE active == {w \in ids : Open(w)}
<1> DEFINE settled == /\ StepReady
                      /\ Cardinality(final) <= 1 /\ Cardinality(active) <= 1
                      /\ final = {} \/ active = {}
                      /\ \A w \in ids \ (final \cup active) : validate_terminal_absence(w)
<1>1. UNCHANGED <<tip, fin, flight, landed, journal, sent>> /\ World'
  BY WorldSame, Zenon DEF BeginSemantic, At, Quiet, network, Sound
<1>2. FreshExpectsNothing
  BY Follows, Zenon DEF Sound
<1>3. CASE Fail
  BY <1>1, <1>3, GiveUp, Zenon
<1>4. CASE NextStep
  BY <1>1, <1>2, <1>4, NextSound, Zenon DEF Sound
<1>5. settled => \A v \in ids \ (final \cup active) : Dead(v)
  BY Zenon DEF validate_terminal_absence, Dead
<1>6. ASSUME settled, final = {}, NEW w \in active,
             proc' = [proc EXCEPT !.at = "status", !.attempt = w[2], !.resent = FALSE]
      PROVE  Sound'
  <2>1. w \in DOMAIN journal /\ w \in Wires /\ w[1] = proc.step /\ Open(w)
    BY Zenon DEF semantic_wire_ids, Sound, World, TypeWorld
  <2>2. w = <<proc.step, w[2]>> /\ w[2] \in 0 .. MaxAttempts
    BY <2>1 DEF Wires
  <2>3. /\ proc' \in Procs /\ proc'.at = "status" /\ proc'.attempt = w[2]
        /\ proc'.step = proc.step /\ proc'.mode = proc.mode /\ proc'.expected = proc.expected
    BY <1>6, <2>2, Zenon DEF Sound, Procs, Labels
  <2>4. Current' = w
    BY <2>2, <2>3, Zenon DEF Current
  <2>5. active \subseteq Wires
    BY Zenon DEF semantic_wire_ids, Sound, World, TypeWorld
  <2>6. \A v \in active : v = w
    BY <1>6, <2>5, AtMostOne, Zenon
  <2>7. \A v \in DOMAIN journal : v[1] = proc.step /\ v # w => Dead(v)
    BY <1>5, <1>6, <2>6, Zenon DEF semantic_wire_ids
  <2>8. Followed'
    BY <1>1, <2>1, <2>3, <2>4, <2>7, Zenon DEF Followed, Open, Dead
  <2>9. FreshExpectsNothing'
    BY <1>2, <2>3, Zenon DEF FreshExpectsNothing
  <2>10. ControlIsSound'
    BY <2>3, <2>8, <2>9, FollowSound, Zenon
  <2>. QED  BY <1>1, <2>3, <2>10, Zenon DEF Sound
<1>7. ASSUME settled, final = {}, active = {}, AllowSubmit, Goto("sign")
      PROVE  Sound'
  <2>1. /\ proc' \in Procs /\ proc'.at = "sign" /\ proc'.step = proc.step
        /\ proc'.mode = proc.mode /\ proc'.expected = proc.expected
    BY <1>7, GotoFields, Zenon DEF Sound, Labels
  <2>2. \A v \in DOMAIN journal : v[1] = proc.step => Dead(v)
    BY <1>5, <1>7, Zenon DEF semantic_wire_ids
  <2>3. proc.step = Seal => Upload \subseteq Finalized
    BY <1>7, Zenon DEF StepReady
  <2>4. FreshExpectsNothing'
    BY <1>2, <2>1, Zenon DEF FreshExpectsNothing
  <2>5. (\A v \in DOMAIN journal : v[1] = proc.step => Dead(v))'
    BY <1>1, <2>1, <2>2, Zenon DEF Dead
  <2>6. (proc.step = Seal => Upload \subseteq Finalized)'
    BY <1>1, <2>1, <2>3, SameBlocks, Zenon DEF Seal, Upload
  <2>7. ControlIsSound'
    BY <2>1, <2>4, <2>5, <2>6, SignSound, Zenon
  <2>. QED  BY <1>1, <2>1, <2>7, Zenon DEF Sound
<1>8. \/ Fail
      \/ NextStep
      \/ settled /\ final = {} /\ \E w \in active :
           proc' = [proc EXCEPT !.at = "status", !.attempt = w[2], !.resent = FALSE]
      \/ settled /\ final = {} /\ active = {} /\ AllowSubmit /\ Goto("sign")
  BY ZenonT(30) DEF BeginSemantic
<1>. QED  BY <1>3, <1>4, <1>6, <1>7, <1>8, ZenonT(30)

\* The first retry that was never signed is spooled.
LEMMA SignRetrySound ==
  ASSUME Sound, SignRetry
  PROVE  Sound'
<1> DEFINE unused == {n \in 1 .. MaxAttempts : <<proc.step, n>> \notin DOMAIN journal}
<1>1. UNCHANGED <<tip, fin, flight, landed, sent>> /\ proc.at = "sign"
  BY Zenon DEF SignRetry, At, Journals, network
<1>2. CASE Fail /\ UNCHANGED journal
  BY <1>1, <1>2, WorldSame, GiveUp, Zenon DEF Sound
<1>3. ASSUME NEW n \in unused, \A m \in unused : n <= m,
             spool_signed_wire_submit_ready(<<proc.step, n>>),
             proc' = [proc EXCEPT !.at = "bind", !.attempt = n, !.resent = FALSE]
      PROVE  Sound'
  <2>1. PICK w : w = <<proc.step, n>>
    BY Zenon
  <2>2. w \in Wires /\ w[1] = proc.step /\ w[2] = n /\ n \in Nat
    BY <2>1, ProcTypes, ExecutionAssumption DEF Sound, Wires
  <2>3. \A k \in 1 .. n : k < n => <<proc.step, k>> \in DOMAIN journal
    BY <1>3, ExecutionAssumption, SMTT(30)
  <2>4. /\ \A v \in DOMAIN journal : v[1] = proc.step => Dead(v)
        /\ proc.step = Seal => Upload \subseteq Finalized
    BY <1>1, Zenon DEF Sound, ControlIsSound
  <2>5. spool_signed_wire_submit_ready(w)
    BY <1>3, <2>1, Zenon
  <2>6. /\ World' /\ DOMAIN journal' = DOMAIN journal \cup {w} /\ Open(w)'
        /\ \A v \in DOMAIN journal : Dead(v)' = Dead(v)
    <3>1. \A k \in 1 .. w[2] : k < w[2] => <<w[1], k>> \in DOMAIN journal
      BY <2>2, <2>3, Zenon
    <3>2. /\ \A v \in DOMAIN journal : v[1] = w[1] /\ IsRetry(v) /\ v[2] < w[2] => Dead(v)
          /\ w[1] = Seal => Upload \subseteq Finalized
      BY <2>2, <2>4, Zenon
    <3>. QED  BY <1>1, <2>2, <2>5, <3>1, <3>2, WorldSpool, Zenon DEF Sound
  <2>7. /\ proc' \in Procs /\ proc'.at = "bind" /\ proc'.attempt = n
        /\ proc'.step = proc.step /\ proc'.mode = proc.mode /\ proc'.expected = proc.expected
    <3>1. n \in 0 .. MaxAttempts
      BY ExecutionAssumption
    <3>2. proc' = [proc EXCEPT !.at = "bind", !.attempt = n, !.resent = FALSE] /\ proc \in Procs
      BY <1>3, Zenon DEF Sound
    <3>. HIDE DEF unused
    <3>. QED  BY <3>1, <3>2, Zenon DEF Procs, Labels
  <2>8. Current' = w
    BY <2>1, <2>7, Zenon DEF Current
  <2>9. Followed'
    BY <2>4, <2>6, <2>7, <2>8, Zenon DEF Followed, Open
  <2>10. FreshExpectsNothing'
    BY <2>7, Follows, Zenon DEF FreshExpectsNothing, Sound
  <2>11. ControlIsSound'
    BY <2>7, <2>9, <2>10, FollowSound, Zenon
  <2>. QED  BY <2>6, <2>7, <2>11, Zenon DEF Sound
<1>. QED  BY <1>2, <1>3, ZenonT(30) DEF SignRetry

\* The expiry of the retry is bound.
LEMMA BindExpirySound ==
  ASSUME Sound, BindExpiry
  PROVE  Sound'
<1>1. UNCHANGED <<tip, fin, flight, landed, sent>> /\ Following
  BY Zenon DEF BindExpiry, At, Journals, network, Following
<1>2. Followed /\ FreshExpectsNothing
  BY <1>1, Follows, Zenon DEF Sound
<1>3. World' /\ Others(Current) /\ (journal'[Current].outcome = "open")
  <2>1. PICK w \in DOMAIN journal : w = Current
    BY <1>2, Zenon DEF Followed
  <2>2. Open(w) /\ fresh_wire_blockhash_bound(w)
    BY <1>2, <2>1, Zenon DEF Followed, BindExpiry
  <2>3. World' /\ Others(w) /\ Open(w)'
    BY <1>1, <2>2, BoundUpdate, Zenon DEF Sound
  <2>. QED  BY <2>1, <2>3, Zenon DEF Open
<1>4. /\ proc' \in Procs /\ proc'.at = "status" /\ Current' = Current /\ proc'.step = proc.step
      /\ proc'.mode = proc.mode /\ proc'.expected = proc.expected
  BY GotoFields, Zenon DEF Sound, Labels, BindExpiry
<1>5. Followed'
  BY <1>2, <1>3, <1>4, FollowedOn, Zenon DEF Open
<1>6. FreshExpectsNothing'
  BY <1>2, <1>4, Zenon DEF FreshExpectsNothing
<1>7. ControlIsSound'
  BY <1>4, <1>5, <1>6, FollowSound, Zenon
<1>. QED  BY <1>3, <1>4, <1>7, Zenon DEF Sound

\* A submission is recorded and the process goes on following its wire.
LEMMA SubmissionSound ==
  ASSUME Sound, Following, UNCHANGED <<tip, fin, flight, landed, sent>>,
         record_submission(Current), Goto("status")
  PROVE  Sound'
<1>2. Followed /\ FreshExpectsNothing
  BY Follows, Zenon DEF Sound
<1>3. World' /\ Others(Current) /\ (journal'[Current].outcome = "open")
  <2>1. PICK w \in DOMAIN journal : w = Current
    BY <1>2, Zenon DEF Followed
  <2>2. record_submission(w)
    BY <2>1, Zenon
  <2>3. World' /\ Others(w) /\ Open(w)'
    BY <2>2, SubmittedUpdate, Zenon DEF Sound
  <2>. QED  BY <2>1, <2>3, Zenon DEF Open
<1>4. /\ proc' \in Procs /\ proc'.at = "status" /\ Current' = Current /\ proc'.step = proc.step
      /\ proc'.mode = proc.mode /\ proc'.expected = proc.expected
  BY GotoFields, Zenon DEF Sound, Labels
<1>5. Followed'
  BY <1>2, <1>3, <1>4, FollowedOn, Zenon DEF Open
<1>6. FreshExpectsNothing'
  BY <1>2, <1>4, Zenon DEF FreshExpectsNothing
<1>7. ControlIsSound'
  BY <1>4, <1>5, <1>6, FollowSound, Zenon
<1>. QED  BY <1>3, <1>4, <1>7, Zenon DEF Sound

\* The wire that is followed is closed.
LEMMA CloseCurrent ==
  ASSUME Sound, Following, UNCHANGED <<tip, fin, flight, landed, sent>>,
         NEW o \in Outcomes \ {"open"},
         journal' = [journal EXCEPT ![Current].outcome = o],
         o = "finalized" => FinalizedAs(Current, TRUE),
         o = "failed" => FinalizedAs(Current, FALSE),
         IsRetry(Current) /\ o \in {"abandoned", "expired"} => Gone(Current)
  PROVE  World' /\ Others(Current) /\ journal'[Current].outcome = o
<1>1. Followed
  BY Follows, Zenon DEF Sound
<1>2. PICK w \in DOMAIN journal : w = Current
  BY <1>1, Zenon DEF Followed
<1>3. Open(w) /\ journal' = [journal EXCEPT ![w].outcome = o]
  BY <1>1, <1>2, Zenon DEF Followed
<1>4. /\ o = "finalized" => FinalizedAs(w, TRUE)
      /\ o = "failed" => FinalizedAs(w, FALSE)
      /\ IsRetry(w) /\ o \in {"abandoned", "expired"} => Gone(w)
  BY <1>2, Zenon
<1>5. World' /\ Others(w) /\ journal'[w].outcome = o
  BY <1>3, <1>4, CloseUpdate, Zenon DEF Sound
<1>. QED  BY <1>2, <1>5, Zenon

\* The status of the wire is read.
LEMMA ReadStatusSound ==
  ASSUME Sound, ReadStatus
  PROVE  Sound'
<1>1. UNCHANGED <<tip, fin, flight, landed, sent>> /\ Following /\ proc.at = "status"
  BY Zenon DEF ReadStatus, At, Journals, network, Following
<1>2. CASE Goto("blockhash") /\ UNCHANGED journal
  BY <1>1, <1>2, MoveOn, Zenon
<1>3. CASE Fail /\ UNCHANGED journal
  BY <1>1, <1>3, WorldSame, GiveUp, Zenon DEF Sound
<1>4. CASE record_submission(Current) /\ UNCHANGED proc
  <2>1. Goto("status")
    BY <1>1, <1>4, Zenon DEF Goto, Sound, Procs
  <2>. QED  BY <1>1, <1>4, <2>1, SubmissionSound, Zenon
<1>5. CASE FinalizedAs(Current, TRUE) /\ record_final(Current, TRUE) /\ NextStep
  <2>1. PICK o \in Outcomes \ {"open"} : o = "finalized"
    BY Zenon DEF Outcomes
  <2>2. journal' = [journal EXCEPT ![Current].outcome = o]
    BY <1>5, <2>1, Zenon DEF record_final
  <2>3. World'
    BY <1>1, <1>5, <2>1, <2>2, CloseCurrent, Zenon
  <2>. QED  BY <1>5, <2>3, NextSound, Follows, Zenon DEF Sound
<1>6. CASE /\ FinalizedAs(Current, FALSE) /\ record_final(Current, FALSE)
           /\ Goto("sign") \/ Fail
  <2>1. PICK o \in Outcomes \ {"open"} : o = "failed"
    BY Zenon DEF Outcomes
  <2>2. journal' = [journal EXCEPT ![Current].outcome = o]
    BY <1>6, <2>1, Zenon DEF record_final
  <2>3. World' /\ Others(Current) /\ journal'[Current].outcome = "failed"
    BY <1>1, <1>6, <2>1, <2>2, CloseCurrent, Zenon
  <2>4. CASE Fail
    BY <2>3, <2>4, GiveUp, Zenon
  <2>5. CASE Goto("sign")
    <3>1. Current' = Current
      BY <2>5, GotoFields, Zenon DEF Sound, Labels
    <3>2. Dead(Current)'
      BY <2>3, <3>1, Zenon DEF Dead
    <3>. QED  BY <1>1, <2>3, <2>5, <3>2, Closed, Zenon
  <2>. QED  BY <1>6, <2>4, <2>5, Zenon
<1>. QED  BY <1>2, <1>3, <1>4, <1>5, <1>6, Zenon DEF ReadStatus

\* The validity of its blockhash is read, before the authority to send is used.
LEMMA ReadBlockhashSound ==
  ASSUME Sound, ReadBlockhash
  PROVE  Sound'
<1>1. UNCHANGED <<tip, fin, flight, landed, journal, sent>> /\ Following
  BY Zenon DEF ReadBlockhash, At, Quiet, network, Following
<1>2. CASE Goto("expiry") \/ Goto("status")
  BY <1>1, <1>2, MoveOn, Zenon
<1>3. CASE Fail
  BY <1>1, <1>3, WorldSame, GiveUp, Zenon DEF Sound
<1>4. CASE Goto("authorize") /\ ~binding_missing /\ ~journal[Current].consumed
  <2>1. /\ proc' \in Procs /\ proc'.at = "authorize" /\ Current' = Current
        /\ proc'.step = proc.step /\ proc'.mode = proc.mode /\ proc'.expected = proc.expected
    BY <1>4, GotoFields, Zenon DEF Sound, Labels
  <2>2. Followed /\ FreshExpectsNothing
    BY <1>1, Follows, Zenon DEF Sound
  <2>3. Followed'
    BY <1>1, <2>1, <2>2, Zenon DEF Followed, Open, Dead
  <2>4. (~binding_missing /\ ~journal[Current].consumed)'
    BY <1>1, <1>4, <2>1, Zenon DEF binding_missing
  <2>5. ControlIsSound'
    BY <2>1, <2>2, <2>3, <2>4, Zenon DEF ControlIsSound, Following, Followed, FreshExpectsNothing
  <2>. QED  BY <1>1, <2>1, <2>5, WorldSame, Zenon DEF Sound
<1>. QED  BY <1>2, <1>3, <1>4, Zenon DEF ReadBlockhash

\* The wire is taken for absent: a retry with a bound expiry is past it, and one
\* without never reached the network.
LEMMA ReadHeightSound ==
  ASSUME Sound, ReadHeight
  PROVE  Sound'
<1>1. UNCHANGED <<tip, fin, flight, landed, journal, sent>> /\ Following
  BY Zenon DEF ReadHeight, At, Quiet, network, Following
<1>2. CASE Goto("status")
  BY <1>1, <1>2, MoveOn, Zenon
<1>3. CASE Fail
  BY <1>1, <1>3, WorldSame, GiveUp, Zenon DEF Sound
<1>4. CASE /\ ~(journal[Current].bound /\ fin <= LastValid(Current))
           /\ ~Seen(Current) /\ Goto("absent")
  <2>1. /\ proc' \in Procs /\ proc'.at = "absent" /\ Current' = Current
        /\ proc'.step = proc.step /\ proc'.mode = proc.mode /\ proc'.expected = proc.expected
    BY <1>4, GotoFields, Zenon DEF Sound, Labels
  <2>2. Followed /\ FreshExpectsNothing
    BY <1>1, Follows, Zenon DEF Sound
  <2>3. Followed'
    BY <1>1, <2>1, <2>2, Zenon DEF Followed, Open, Dead
  <2>4. IsRetry(Current) => Gone(Current)
    <3>1. journal[Current] \in ReadyWires /\ fin \in Int
      BY <2>2, ExecutionAssumption DEF Followed, Sound, World, TypeWorld
    <3>2. LastValid(Current) \in Int
      BY <3>1, ExecutionAssumption DEF LastValid, ReadyWires
    <3>3. IsRetry(Current) /\ Current \in flight => journal[Current].bound
      BY Zenon DEF Sound, World, JournalInv, FlightIsAuthorized
    <3>. QED  BY <1>4, <3>1, <3>2, <3>3 DEF Gone
  <2>5. (IsRetry(Current) => Gone(Current))'
    BY <1>1, <2>1, <2>4, Zenon DEF Gone, IsRetry, Seen, LastValid
  <2>6. ControlIsSound'
    BY <2>1, <2>2, <2>3, <2>5, Zenon DEF ControlIsSound, Following, Followed, FreshExpectsNothing
  <2>. QED  BY <1>1, <2>1, <2>6, WorldSame, Zenon DEF Sound
<1>. QED  BY <1>2, <1>3, <1>4, Zenon DEF ReadHeight

\* The absence is recorded.
LEMMA RecordAbsenceSound ==
  ASSUME Sound, RecordAbsence
  PROVE  Sound'
<1>1. UNCHANGED <<tip, fin, flight, landed, sent>> /\ Following /\ proc.at = "absent"
  BY Zenon DEF RecordAbsence, At, Journals, network, Following
<1>2. IsRetry(Current) => Gone(Current)
  BY <1>1, Zenon DEF Sound, ControlIsSound
<1>3. PICK o \in Outcomes \ {"open"} :
        /\ o \in {"abandoned", "expired"}
        /\ journal' = [journal EXCEPT ![Current].outcome = o]
  BY Zenon DEF RecordAbsence, record_absence, Outcomes
<1>4. World' /\ Others(Current) /\ journal'[Current].outcome = o
  <2>1. o # "finalized" /\ o # "failed"
    BY <1>3, Zenon
  <2>. QED  BY <1>1, <1>2, <1>3, <2>1, CloseCurrent, Zenon
<1>5. CASE Fail
  BY <1>4, <1>5, GiveUp, Zenon
<1>6. CASE Goto("sign")
  <2>1. Current' = Current
    BY <1>6, GotoFields, Zenon DEF Sound, Labels
  <2>2. Dead(Current)'
    BY <1>3, <1>4, <2>1, Zenon DEF Dead
  <2>. QED  BY <1>1, <1>4, <1>6, <2>2, Closed, Zenon
<1>. QED  BY <1>5, <1>6, Zenon DEF RecordAbsence

\* The authority to send is consumed, and was not used before.
LEMMA AuthorizeSound ==
  ASSUME Sound, Authorize
  PROVE  Sound'
<1>1. UNCHANGED <<tip, fin, flight, landed, sent>> /\ Following /\ proc.at = "authorize"
  BY Zenon DEF Authorize, At, Journals, network, Following
<1>2. CASE Fail /\ UNCHANGED journal
  BY <1>1, <1>2, WorldSame, GiveUp, Zenon DEF Sound
<1>3. CASE wire_send_authority_consumed(Current) /\ Goto("transmit")
  <2>1. Followed /\ FreshExpectsNothing
    BY <1>1, Follows, Zenon DEF Sound
  <2>2. ~binding_missing /\ ~journal[Current].consumed
    BY <1>1, Zenon DEF Sound, ControlIsSound
  <2>3. Current \notin sent
    BY <2>2, Zenon DEF Sound, World, JournalInv, FlightIsAuthorized
  <2>4. /\ World' /\ Others(Current) /\ journal'[Current].outcome = "open"
        /\ journal'[Current].consumed /\ journal'[Current].bound = journal[Current].bound
    <3>1. PICK w \in DOMAIN journal : w = Current
      BY <2>1, Zenon DEF Followed
    <3>2. Open(w) /\ wire_send_authority_consumed(w)
      BY <1>3, <2>1, <3>1, Zenon DEF Followed
    <3>3. /\ World' /\ Others(w) /\ Open(w)'
          /\ journal'[w].consumed /\ journal'[w].bound = journal[w].bound
      BY <1>1, <3>2, ConsumedUpdate, Zenon DEF Sound
    <3>. QED  BY <3>1, <3>3, Zenon DEF Open
  <2>5. /\ proc' \in Procs /\ proc'.at = "transmit" /\ Current' = Current
        /\ proc'.step = proc.step /\ proc'.mode = proc.mode /\ proc'.expected = proc.expected
    BY <1>3, GotoFields, Zenon DEF Sound, Labels
  <2>6. Followed'
    BY <2>1, <2>4, <2>5, FollowedOn, Zenon DEF Open
  <2>7. (~binding_missing /\ journal[Current].consumed /\ Current \notin sent)'
    BY <1>1, <2>2, <2>3, <2>4, <2>5, Zenon DEF binding_missing, IsRetry
  <2>8. ControlIsSound'
    BY <2>1, <2>5, <2>6, <2>7, Zenon DEF ControlIsSound, Following, Followed, FreshExpectsNothing
  <2>. QED  BY <2>4, <2>5, <2>8, Zenon DEF Sound
<1>. QED  BY <1>2, <1>3, Zenon DEF Authorize

\* The wire may reach the network whether or not the send is answered.
LEMMA TransmitSound ==
  ASSUME Sound, Transmit
  PROVE  Sound'
<1>1. UNCHANGED <<tip, fin, landed, journal>> /\ Following /\ proc.at = "transmit"
  BY Zenon DEF Transmit, files, Following
<1>2. Followed /\ FreshExpectsNothing
  BY <1>1, Follows, Zenon DEF Sound
<1>3. ~binding_missing /\ journal[Current].consumed
  BY <1>1, Zenon DEF Sound, ControlIsSound
<1>4. /\ flight' = flight \/ flight' = flight \cup {Current}
      /\ sent' = sent \cup {Current}
  BY Zenon DEF Transmit
<1>5. World'
  <2>1. PICK w \in DOMAIN journal : w = Current
    BY <1>2, Zenon DEF Followed
  <2>2. /\ flight' = flight \/ flight' = flight \cup {w}
        /\ sent' = sent \cup {w} /\ journal[w].consumed
    BY <1>3, <1>4, <2>1, Zenon
  <2>3. IsRetry(w) => Open(w) /\ journal[w].bound
    BY <1>2, <1>3, <2>1, Zenon DEF Followed, binding_missing
  <2>. QED  BY <1>1, <2>2, <2>3, WorldHandOver, Zenon DEF Sound
<1>6. /\ proc' \in Procs /\ proc'.at \in {"accepted", "unanswered"}
      /\ proc'.step = proc.step /\ proc'.attempt = proc.attempt
      /\ proc'.mode = proc.mode /\ proc'.expected = proc.expected
  BY Zenon DEF Transmit, Sound, Procs, Labels
<1>7. Current' = Current
  BY <1>6, Zenon DEF Current
<1>8. Followed'
  BY <1>1, <1>2, <1>6, <1>7, Zenon DEF Followed, Open, Dead
<1>9. FreshExpectsNothing'
  BY <1>2, <1>6, Zenon DEF FreshExpectsNothing
<1>10. ControlIsSound'
  BY <1>6, <1>8, <1>9, FollowSound, Zenon
<1>. QED  BY <1>5, <1>6, <1>10, Zenon DEF Sound

\* The answer is recorded.
LEMMA RecordAnswerSound ==
  ASSUME Sound, RecordAnswer
  PROVE  Sound'
<1>1. UNCHANGED <<tip, fin, flight, landed, sent>> /\ Following /\ Goto("status")
  BY Zenon DEF RecordAnswer, At, Journals, network, Following
<1>2. CASE UNCHANGED journal
  BY <1>1, <1>2, MoveOn, Zenon
<1>3. CASE record_submission(Current)
  BY <1>1, <1>3, SubmissionSound, Zenon
<1>. QED  BY <1>2, <1>3, Zenon DEF RecordAnswer

\* The evidence is committed.
LEMMA CommitEvidenceSound ==
  ASSUME Sound, CommitEvidence
  PROVE  Sound'
<1>1. UNCHANGED <<tip, fin, flight, landed, journal, sent>> /\ World'
  BY WorldSame, Zenon DEF CommitEvidence, At, network, Sound
<1>2. CASE Fail
  BY <1>1, <1>2, GiveUp, Zenon
<1>3. CASE Goto("checkpoint")
  <2>1. /\ proc' \in Procs /\ proc'.at = "checkpoint"
        /\ proc'.mode = proc.mode /\ proc'.expected = proc.expected
    BY <1>3, GotoFields, Zenon DEF Sound, Labels
  <2>2. ControlIsSound'
    BY <2>1, Zenon DEF Sound, ControlIsSound, Following
  <2>. QED  BY <1>1, <2>1, <2>2, Zenon DEF Sound
<1>. QED  BY <1>2, <1>3, Zenon DEF CommitEvidence

\* The run stops anywhere.
LEMMA StopSound ==
  ASSUME Sound, Stop
  PROVE  Sound'
<1>1. UNCHANGED <<tip, fin, flight, landed, journal, sent>> /\ Fail
  BY Zenon DEF Stop, network, Fail
<1>. QED  BY <1>1, WorldSame, GiveUp, Zenon DEF Sound

\* The first run starts.
LEMMA StartSound ==
  ASSUME Sound, Start
  PROVE  Sound'
<1>1. World'
  BY WorldSame, Zenon DEF Sound, Start, network, files
<1>2. /\ proc' \in Procs /\ proc'.at = "reserve" /\ proc'.attempt = proc.attempt
      /\ proc'.mode = proc.mode /\ proc'.expected = proc.expected
  BY GotoFields, Zenon DEF Sound, Labels, Start
<1>3. ControlIsSound'
  BY <1>2, Zenon DEF Sound, ControlIsSound, Following, Start
<1>. QED  BY <1>1, <1>2, <1>3, Zenon DEF Sound

\* The executor reads steps from the finalized accounts.
LEMMA FinalizedType ==
  ASSUME TypeWorld, LandedInOrder
  PROVE  Finalized \subseteq Steps
<1>1. \A i \in 1 .. Rooted : landed[i].wire \in Wires
  BY FinalIs, LandingTypes
<1>. QED  BY <1>1, Zenon DEF Finalized, Succeeded, FinalCount, Wires

\* A run resumes at the first chunk.
LEMMA ResumeSound ==
  ASSUME Sound, Resume
  PROVE  Sound'
<1>1. World'
  BY WorldSame, Zenon DEF Sound, Resume, network, files
<1>2. Finalized \subseteq Steps
  BY FinalizedType, Zenon DEF Sound, World
<1>3. /\ proc' \in Procs /\ proc'.at = "begin" /\ proc'.attempt = 0 /\ proc'.mode = "resume"
  BY <1>2, StepFacts, ZenonT(30) DEF Resume, Off, Procs, Labels
<1>4. ControlIsSound'
  BY <1>3, Zenon DEF ControlIsSound, Following
<1>. QED  BY <1>1, <1>3, <1>4, Zenon DEF Sound

\* A committed run is closed from where the journal stands.
LEMMA RecoverCommittedSound ==
  ASSUME Sound, closing \in {"open", "checkpoint", "completed"}, RecoverCommitted
  PROVE  Sound' /\ Closing'
<1>1. World'
  BY WorldSame, Zenon DEF Sound, RecoverCommitted, network, files
<1>2. PICK l \in {"checkpoint", "complete", "done"} :
        proc' = [Off EXCEPT !.mode = "resume", !.step = Pay, !.at = l]
  BY Zenon DEF RecoverCommitted
<1>3. proc' \in Procs /\ proc'.at = l /\ proc'.mode = "resume"
  BY <1>2, StepFacts, ZenonT(30) DEF Off, Procs, Labels
<1>4. ControlIsSound' /\ Closing'
  BY <1>3, Zenon DEF ControlIsSound, Following, Closing
<1>. QED  BY <1>1, <1>3, <1>4, Zenon DEF Sound

\* The two appends that close the journal.
LEMMA CloseSound ==
  ASSUME Sound, Checkpoint \/ Complete
  PROVE  /\ Sound' /\ Closing /\ Closing'
         /\ closing' \in {"open", "checkpoint", "completed"}
         /\ UNCHANGED <<journal, anchored, starts, evidence>>
<1>1. PICK l \in {"complete", "done"} : Goto(l)
  BY Zenon DEF Checkpoint, Complete
<1>2. l \in Labels
  BY Zenon DEF Labels
<1>3. proc' \in Procs /\ proc'.at = l /\ proc'.mode = proc.mode /\ proc'.expected = proc.expected
  BY <1>1, <1>2, GotoFields, Zenon DEF Sound
<1>4. /\ Closing /\ UNCHANGED <<network, journal, anchored, starts, evidence, sent>>
      /\ closing' \in {"open", "checkpoint", "completed"}
  BY Zenon DEF Checkpoint, Complete, At, Closing
<1>5. World'
  BY <1>4, WorldSame, Zenon DEF Sound, network
<1>6. ControlIsSound' /\ Closing'
  BY <1>3, Zenon DEF Sound, ControlIsSound, Following, Closing
<1>. QED  BY <1>3, <1>4, <1>5, <1>6, Zenon DEF Sound

\* The network moves under the executor.
LEMMA NetworkSound ==
  ASSUME Sound, (\E w \in flight : Include(w)) \/ Produce \/ Finalize \/ Fork
  PROVE  Sound'
<1>1. Advances /\ UNCHANGED proc
  BY IncludeAdvances, ProduceAdvances, FinalizeAdvances, ForkAdvances, Zenon
  DEF Sound, Include, Produce, Finalize, Fork
<1>2. World' /\ Finalized \subseteq Finalized' /\ UNCHANGED <<journal, sent>>
  BY <1>1, WorldAdvances, Zenon DEF Sound, Advances
<1>3. Current' = Current
  BY <1>1, Zenon DEF Current
<1>4. Current \in DOMAIN journal /\ Gone(Current) => Gone(Current)'
  <2>1. SUFFICES ASSUME Current \in DOMAIN journal, Gone(Current) PROVE Gone(Current)'
    BY Zenon
  <2>2. PICK w \in DOMAIN journal : w = Current
    BY <2>1, Zenon
  <2>3. Gone(w)'
    BY <1>1, <2>1, <2>2, GoneStays, Zenon DEF Sound
  <2>. QED  BY <1>3, <2>2, <2>3, Zenon
<1>5. ControlIsSound'
  <2>1. /\ proc.at = "absent" /\ IsRetry(Current) => Gone(Current)'
        /\ proc.at = "sign" /\ proc.step = Seal => Upload \subseteq Finalized'
    BY <1>2, <1>4, Zenon DEF Sound, ControlIsSound, Following
  <2>2. /\ (proc.at \in {"off", "reserve", "begin", "send", "submitted", "wait"} =>
               proc.attempt = 0)'
        /\ (proc.mode = "fresh" => proc.expected = {})'
        /\ (proc.at \in {"send", "submitted", "wait"} =>
               proc.step # Pay /\ Current \in DOMAIN journal)'
    BY <1>1, <1>2, <1>3, Zenon DEF Sound, ControlIsSound
  <2>3. (Following =>
            /\ Current \in DOMAIN journal /\ Open(Current)
            /\ \A v \in DOMAIN journal : v[1] = proc.step /\ v # Current => Dead(v))'
    BY <1>1, <1>2, <1>3, Zenon DEF Sound, ControlIsSound, Following, Open, Dead
  <2>4. (proc.at = "sign" =>
            /\ \A v \in DOMAIN journal : v[1] = proc.step => Dead(v)
            /\ proc.step = Seal => Upload \subseteq Finalized)'
    BY <1>1, <1>2, <2>1, Zenon DEF Sound, ControlIsSound, Dead
  <2>5. (proc.at = "absent" /\ IsRetry(Current) => Gone(Current))'
    BY <1>1, <1>3, <2>1, Zenon DEF IsRetry
  <2>6. /\ (proc.at = "authorize" => ~binding_missing /\ ~journal[Current].consumed)'
        /\ (proc.at = "transmit" =>
               ~binding_missing /\ journal[Current].consumed /\ Current \notin sent)'
    BY <1>1, <1>2, <1>3, Zenon DEF Sound, ControlIsSound, binding_missing, IsRetry
  <2>. QED  BY <2>2, <2>3, <2>4, <2>5, <2>6, ZenonT(30) DEF ControlIsSound
<1>. QED  BY <1>1, <1>2, <1>5, Zenon DEF Sound

-----------------------------------------------------------------------------
(* The evidence file.                                                      *)

\* While the executor works, the evidence is not committed.
LEMMA WorkKeepsEvidence ==
  ASSUME Flags, EvidenceIsLast, UNCHANGED <<anchored, starts, evidence, closing>>,
         proc.at # "off", ~Closing, ~Closing'
  PROVE  Flags' /\ EvidenceIsLast'
BY Zenon DEF Flags, EvidenceIsLast

\* A step that works on the wires never closes the journal.
Works ==
    \/ BeginOriginal \/ SendOriginal \/ RecordOriginal \/ WaitOriginal
    \/ BeginSemantic \/ SignRetry \/ BindExpiry
    \/ ReadStatus \/ ReadBlockhash \/ ReadHeight \/ RecordAbsence
    \/ Authorize \/ Transmit \/ RecordAnswer

LEMMA WorksOpen ==
  ASSUME proc \in Procs, Works
  PROVE  proc.at # "off" /\ ~Closing /\ ~Closing'
<1> DEFINE W == Labels \ {"checkpoint", "complete", "done"}
<1>1. \A l \in W : Goto(l) => proc'.at \in W
  BY Zenon DEF Goto, Procs
<1>2. NextStep => proc'.at \in W
  BY Zenon DEF NextStep, Procs, Labels
<1>3. Fail => proc'.at \in W
  <2>1. Fail => proc'.at = "off"
    BY FailSound, Zenon
  <2>2. "off" \in W
    BY Zenon DEF Labels
  <2>. QED  BY <2>1, <2>2, Zenon
<1>4. {"send", "submitted", "wait", "sign", "status", "blockhash", "expiry", "absent",
       "authorize", "transmit"} \subseteq W
  BY Zenon DEF Labels
<1>5. proc'.at \in W
  <2> HIDE DEF W
  <2>1. CASE BeginOriginal \/ SendOriginal \/ RecordOriginal \/ WaitOriginal
    BY <1>1, <1>2, <1>3, <1>4, <2>1, Zenon
    DEF BeginOriginal, SendOriginal, RecordOriginal, WaitOriginal
  <2>2. CASE BeginSemantic
    <3>1. (\E n : proc' = [proc EXCEPT !.at = "status", !.attempt = n, !.resent = FALSE])
             => proc'.at = "status"
      BY Zenon DEF Procs
    <3>2. \/ Fail \/ NextStep \/ Goto("sign")
          \/ \E n : proc' = [proc EXCEPT !.at = "status", !.attempt = n, !.resent = FALSE]
      BY <2>2, Zenon DEF BeginSemantic
    <3>. QED  BY <1>1, <1>2, <1>3, <1>4, <3>1, <3>2, Zenon
  <2>3. CASE SignRetry
    <3>1. (\E n : proc' = [proc EXCEPT !.at = "bind", !.attempt = n, !.resent = FALSE])
             => proc'.at \in W
      BY Zenon DEF Procs, W, Labels
    <3>. QED  BY <1>3, <2>3, <3>1, Zenon DEF SignRetry
  <2>4. CASE BindExpiry \/ ReadStatus \/ ReadBlockhash
    <3>1. (UNCHANGED proc /\ proc.at = "status") => proc'.at \in W
      BY <1>4, Zenon
    <3>. QED  BY <1>1, <1>2, <1>3, <1>4, <2>4, <3>1, Zenon
      DEF BindExpiry, ReadStatus, ReadBlockhash, At
  <2>5. CASE ReadHeight \/ RecordAbsence \/ Authorize \/ RecordAnswer
    BY <1>1, <1>3, <1>4, <2>5, Zenon DEF ReadHeight, RecordAbsence, Authorize, RecordAnswer
  <2>6. CASE Transmit
    <3>1. PICK l \in {"accepted", "unanswered"} :
             proc' = [proc EXCEPT !.at = l, !.resent = TRUE]
      BY <2>6, Zenon DEF Transmit
    <3>. QED  BY <3>1, Zenon DEF Procs, W, Labels
  <2>. QED  BY <2>1, <2>2, <2>3, <2>4, <2>5, <2>6, Zenon DEF Works
<1>6. ~Closing'
  BY <1>5, Zenon DEF Closing
<1>7. proc.at # "off" /\ ~Closing
  BY Zenon DEF Works, BeginOriginal, SendOriginal, RecordOriginal, WaitOriginal, BeginSemantic,
     SignRetry, BindExpiry, ReadStatus, ReadBlockhash, ReadHeight, RecordAbsence, Authorize,
     Transmit, RecordAnswer, At, Closing
<1>. QED  BY <1>6, <1>7, Zenon

\* The other steps.
LEMMA EvidenceSteps ==
  ASSUME Sound, Flags, EvidenceIsLast,
         \/ Start \/ Resume \/ RecoverCommitted \/ Stop
         \/ Reserve \/ CommitEvidence \/ Checkpoint \/ Complete
         \/ (\E w \in flight : Include(w)) \/ Produce \/ Finalize \/ Fork
  PROVE  Flags' /\ EvidenceIsLast'
<1>1. CASE Start
  <2>1. evidence # "committed" /\ closing = "open" /\ UNCHANGED <<anchored, evidence, closing>>
        /\ starts' = 1 /\ 1 \in 0 .. MaxStarts
    BY <1>1, ExecutionAssumption DEF Start, EvidenceIsLast, files
  <2>2. proc'.at = "reserve"
    BY <1>1, GotoFields, Zenon DEF Start, Sound, Labels
  <2>3. Flags' /\ starts' > 0
    BY <2>1 DEF Flags
  <2>. QED  BY <2>1, <2>2, <2>3, Zenon DEF EvidenceIsLast, Closing
<1>2. CASE Resume
  <2>1. /\ evidence = "in_progress" /\ closing = "open"
        /\ UNCHANGED <<anchored, evidence, closing>>
    BY <1>2, Zenon DEF Resume, EvidenceIsLast, files
  <2>2. starts' \in 0 .. MaxStarts /\ starts' > 0
    BY <1>2, ExecutionAssumption DEF Resume, reopen
  <2>3. proc'.at = "begin"
    BY <1>2, Zenon DEF Resume, Off
  <2>. QED  BY <2>1, <2>2, <2>3, Zenon DEF Flags, EvidenceIsLast, Closing
<1>3. CASE RecoverCommitted
  <2>1. /\ PaidBy' = PaidBy /\ evidence = "committed"
        /\ UNCHANGED <<anchored, evidence, closing>>
    BY <1>3, Zenon DEF RecoverCommitted, PaidBy, semantic_wire_ids, files
  <2>2. starts' \in 0 .. MaxStarts /\ starts' > 0
    BY <1>3, ExecutionAssumption DEF RecoverCommitted, reopen
  <2>3. Closing'
    BY <1>3, RecoverCommittedSound, Zenon DEF Flags
  <2>. QED  BY <2>1, <2>2, <2>3, Zenon DEF Flags, EvidenceIsLast
<1>4. CASE Stop
  <2>1. PaidBy' = PaidBy /\ proc'.at = "off" /\ UNCHANGED <<evidence, closing, starts>>
    BY <1>4, Zenon DEF Stop, PaidBy, semantic_wire_ids, Off
  <2>2. anchored' \in BOOLEAN
    BY <1>4, Zenon DEF Stop
  <2>. QED  BY <2>1, <2>2, Zenon DEF Flags, EvidenceIsLast, Closing
<1>5. CASE Reserve
  <2>1. proc.at = "reserve" /\ evidence' = "in_progress" /\ UNCHANGED <<anchored, starts, closing>>
    BY <1>5, Zenon DEF Reserve, At
  <2>2. proc'.at = "begin"
    BY <1>5, GotoFields, Zenon DEF Reserve, Sound, Labels
  <2>3. evidence # "committed" /\ starts > 0
    BY <2>1, Zenon DEF EvidenceIsLast, Closing
  <2>. QED  BY <2>1, <2>2, <2>3, Zenon DEF Flags, EvidenceIsLast, Closing
<1>6. CASE CommitEvidence
  <2>1. PaidBy' = PaidBy /\ UNCHANGED <<anchored, starts, closing>> /\ proc.at = "commit"
    BY <1>6, Zenon DEF CommitEvidence, PaidBy, semantic_wire_ids, At
  <2>2. CASE Cardinality(PaidBy) = 1 /\ evidence' = "committed" /\ Goto("checkpoint")
    <3>1. proc'.at = "checkpoint"
      BY <2>2, GotoFields, Zenon DEF Sound, Labels
    <3>. QED  BY <2>1, <2>2, <3>1, Zenon DEF Flags, EvidenceIsLast, Closing
  <2>3. CASE UNCHANGED evidence /\ Fail
    <3>1. ~Closing /\ ~Closing'
      BY <2>1, <2>3, Zenon DEF Closing, Fail, Off
    <3>. QED  BY <2>1, <2>3, <3>1, WorkKeepsEvidence, Zenon
  <2>. QED  BY <1>6, <2>2, <2>3, Zenon DEF CommitEvidence
<1>7. CASE Checkpoint \/ Complete
  <2>1. /\ Closing /\ Closing' /\ closing' \in {"open", "checkpoint", "completed"}
        /\ UNCHANGED <<journal, anchored, starts, evidence>>
    BY <1>7, CloseSound, Zenon
  <2>2. PaidBy' = PaidBy
    BY <2>1, Zenon DEF PaidBy, semantic_wire_ids
  <2>3. evidence = "committed" /\ Cardinality(PaidBy) = 1 /\ starts > 0
    BY <2>1, Zenon DEF EvidenceIsLast
  <2>. QED  BY <2>1, <2>2, <2>3, Zenon DEF Flags, EvidenceIsLast
<1>8. CASE (\E w \in flight : Include(w)) \/ Produce \/ Finalize \/ Fork
  <2>1. UNCHANGED <<journal, anchored, evidence, closing, proc, starts>>
    BY <1>8, Zenon DEF Include, Produce, Finalize, Fork, files
  <2>2. PaidBy' = PaidBy
    BY <2>1, Zenon DEF PaidBy, semantic_wire_ids
  <2>. QED  BY <2>1, <2>2, Zenon DEF Flags, EvidenceIsLast, Closing
<1>. QED  BY <1>1, <1>2, <1>3, <1>4, <1>5, <1>6, <1>7, <1>8, Zenon

-----------------------------------------------------------------------------
(* The invariant.                                                          *)

\* Before the first start nothing was signed.
LEMMA InitIInv == Init => IInv
<1> SUFFICES ASSUME Init PROVE IInv
  BY Zenon
<1>1. DOMAIN journal = {} /\ landed \in Seq(Landings) /\ Len(landed) = 0 /\ DOMAIN landed = {}
  BY EmptySeq DEF Init
<1>2. TypeWorld
  BY <1>1, ExecutionAssumption DEF Init, TypeWorld
<1>3. LandedInOrder /\ SealedIsComplete
  BY <1>1, Zenon DEF LandedInOrder, SealedIsComplete
<1>4. JournalInv
  BY Zenon, <1>1
    DEF Init, JournalInv, FlightIsAuthorized, JournalIsTrue, AbsentIsGone, RetriesAreSerial,
     SealFollowsUploads
<1>5. proc \in Procs /\ proc.at = "off" /\ proc.attempt = 0 /\ proc.expected = {}
  BY StepFacts, Zenon DEF Init, Off, Procs, Labels
<1>6. ControlIsSound
  BY <1>5, Zenon DEF ControlIsSound, Following
<1>7. Flags /\ EvidenceIsLast
  <2>1. starts \in 0 .. MaxStarts
    BY ExecutionAssumption DEF Init
  <2>2. Flags
    BY <2>1, Zenon DEF Init, Flags
  <2>3. evidence = "none"
    BY Zenon DEF Init
  <2>4. EvidenceIsLast
    BY <1>5, <2>3, Zenon DEF Init, EvidenceIsLast, Closing
  <2>. QED  BY <2>2, <2>4, Zenon
<1>. QED  BY <1>2, <1>3, <1>4, <1>5, <1>6, <1>7, Parts, Zenon DEF World

\* Every step preserves the invariant.
LEMMA NextIInv == IInv /\ [Next]_vars => IInv'
<1> SUFFICES ASSUME IInv, [Next]_vars PROVE IInv'
  BY Zenon
<1>1. Sound /\ Flags /\ EvidenceIsLast
  BY Parts, Zenon DEF Sound
<1>2. SUFFICES Sound' /\ Flags' /\ EvidenceIsLast'
  <2>1. (World /\ Flags /\ proc \in Procs /\ ControlIsSound /\ EvidenceIsLast)' => IInv'
    BY Zenon DEF IInv, TypeOK, World, TypeWorld, Flags
  <2>. QED  BY <2>1, Zenon DEF Sound
<1>3. CASE Start \/ Resume \/ RecoverCommitted \/ Stop
  BY <1>1, <1>3, StartSound, ResumeSound, RecoverCommittedSound, StopSound, EvidenceSteps, Zenon
  DEF Flags
<1>4. CASE Reserve \/ CommitEvidence \/ Checkpoint \/ Complete
  BY <1>1, <1>4, ReserveSound, CommitEvidenceSound, CloseSound, EvidenceSteps, Zenon
<1>5. CASE (\E w \in flight : Include(w)) \/ Produce \/ Finalize \/ Fork
  BY <1>1, <1>5, NetworkSound, EvidenceSteps, Zenon
<1>6. CASE BeginOriginal \/ RecordOriginal \/ WaitOriginal \/ BeginSemantic \/ SignRetry \/ BindExpiry
  <2>1. UNCHANGED <<anchored, starts, evidence, closing>>
    BY Zenon, <1>6
      DEF BeginOriginal, RecordOriginal, WaitOriginal, BeginSemantic, SignRetry, BindExpiry,
       At, Journals, Quiet
  <2>2. Sound'
    BY ZenonT(30), <1>1, <1>6, BeginOriginalSound, RecordOriginalSound, WaitOriginalSound,
       BeginSemanticSound,
       SignRetrySound, BindExpirySound, Zenon
  <2>3. proc.at # "off" /\ ~Closing /\ ~Closing'
    BY <1>1, <1>6, WorksOpen, Zenon DEF Sound, Works
  <2>. QED  BY <1>1, <2>1, <2>2, <2>3, WorkKeepsEvidence, Zenon
<1>7. CASE ReadStatus \/ ReadBlockhash \/ ReadHeight \/ RecordAbsence \/ Authorize \/ RecordAnswer
  <2>1. UNCHANGED <<anchored, starts, evidence, closing>>
    BY Zenon, <1>7
      DEF ReadStatus, ReadBlockhash, ReadHeight, RecordAbsence, Authorize, RecordAnswer,
       At, Journals, Quiet
  <2>2. Sound'
    BY <1>1, <1>7, ReadStatusSound, ReadBlockhashSound, ReadHeightSound, RecordAbsenceSound,
       AuthorizeSound, RecordAnswerSound, Zenon
  <2>3. proc.at # "off" /\ ~Closing /\ ~Closing'
    BY <1>1, <1>7, WorksOpen, Zenon DEF Sound, Works
  <2>. QED  BY <1>1, <2>1, <2>2, <2>3, WorkKeepsEvidence, Zenon
<1>8. CASE SendOriginal \/ Transmit
  <2>1. UNCHANGED <<anchored, starts, evidence, closing>>
    BY <1>8, Zenon DEF SendOriginal, Transmit, files
  <2>2. Sound'
    BY <1>1, <1>8, SendOriginalSound, TransmitSound, Zenon
  <2>3. proc.at # "off" /\ ~Closing /\ ~Closing'
    BY <1>1, <1>8, WorksOpen, Zenon DEF Sound, Works
  <2>. QED  BY <1>1, <2>1, <2>2, <2>3, WorkKeepsEvidence, Zenon
<1>9. CASE UNCHANGED vars
  <2>1. UNCHANGED <<tip, fin, flight, landed, journal, sent, anchored, starts, evidence, closing, proc>>
    BY <1>9, Zenon DEF vars, network, files
  <2>2. World'
    BY <1>1, <2>1, WorldSame, Zenon DEF Sound
  <2>3. ControlIsSound'
    BY <1>1, <2>1, SameBlocks, Zenon DEF Sound, ControlIsSound, Following, Current, Open, Dead,
       binding_missing, IsRetry, Gone, Seen, LastValid
  <2>4. PaidBy' = PaidBy
    BY <2>1, Zenon DEF PaidBy, semantic_wire_ids
  <2>. QED  BY <1>1, <2>1, <2>2, <2>3, <2>4, Zenon DEF Sound, Flags, EvidenceIsLast, Closing
<1>. QED  BY <1>3, <1>4, <1>5, <1>6, <1>7, <1>8, <1>9, ZenonT(30) DEF Next, Executor

\* The invariant holds in every reachable state of the executor.
THEOREM ExecutionInvariant == Spec => []IInv
BY InitIInv, NextIInv, PTL DEF Spec

-----------------------------------------------------------------------------
(* What it is for.                                                         *)

\* The recovery journal can be believed, whatever stops, forks and lost
\* answers did: what spend_mainnet_journal.rs records of a wire is so on chain,
\* it is closed only over committed evidence, and while its anchor holds
\* recover_committed_evidence closes a run whose evidence is committed.
THEOREM JournalIsSoundHolds == Spec => []JournalIsSound
<1>1. IInv => JournalIsSound
  <2> SUFFICES ASSUME IInv PROVE JournalIsSound
    BY Zenon
  <2>1. World /\ EvidenceIsLast /\ TypeOK
    BY Parts, Zenon DEF IInv
  <2>2. JournalIsTrue
    BY <2>1, Zenon DEF World, JournalInv
  <2>3. ASSUME NEW w \in PaidBy
        PROVE  journal[w].consumed /\ FinalizedAs(w, TRUE)
    <3>1. w \in DOMAIN journal /\ w[1] = Pay /\ journal[w].outcome = "finalized"
      BY Zenon DEF PaidBy, semantic_wire_ids
    <3>2. FinalizedAs(w, TRUE)
      BY <2>2, <3>1, Zenon DEF JournalIsTrue
    <3>3. PICK i \in DOMAIN landed : landed[i].wire = w
      BY <2>1, <3>2, FinalIsConfirmed, Zenon DEF World
    <3>4. w \in flight
      BY <2>1, <3>3, Zenon DEF World, LandedInOrder
    <3>. QED  BY <2>1, <3>1, <3>2, <3>4, Zenon DEF World, JournalInv, FlightIsAuthorized
  <2>4. CommittedEvidenceRecovers
    BY <2>1, <2>3, ZenonT(30)
      DEF CommittedEvidenceRecovers, recover_committed_evidence, EvidenceIsLast
  <2>. QED  BY <2>1, <2>2, <2>4, Zenon DEF JournalIsSound
<1>. QED  BY <1>1, ExecutionInvariant, PTL

\* A replacement is signed only when no earlier retry of the step can still
\* succeed: reconcile_journal_wire gives a retry up only past the expiry it
\* bound, and after searching the history once more.
THEOREM OneLiveRetryHolds == Spec => []OneLiveRetry
<1>1. IInv => OneLiveRetry
  <2> SUFFICES ASSUME IInv, NEW v \in DOMAIN journal, NEW w \in DOMAIN journal,
                      v[1] = w[1], IsRetry(v), v[2] < w[2], MayStillSucceed(v)
               PROVE  FALSE
    BY Zenon DEF OneLiveRetry
  <2>1. World
    BY Parts, Zenon
  <2>2. Dead(v)
    BY <2>1, Zenon DEF World, JournalInv, RetriesAreSerial
  <2>3. CASE journal[v].outcome = "failed"
    <3>1. FinalizedAs(v, FALSE)
      BY <2>1, <2>3, Zenon DEF World, JournalInv, JournalIsTrue
    <3>2. PICK i \in DOMAIN landed : landed[i].wire = v /\ landed[i].ok = FALSE
      BY <2>1, <3>1, FinalIsConfirmed, ZenonT(30) DEF World
    <3>3. \A j \in DOMAIN landed : landed[j].wire = v => j = i
      BY <2>1, <3>2, Zenon DEF World, LandedInOrder
    <3>. QED  BY <3>2, <3>3, Zenon DEF MayStillSucceed, Seen
  <2>4. CASE journal[v].outcome \in {"abandoned", "expired"}
    <3>1. Gone(v)
      BY <2>1, <2>4, Zenon DEF World, JournalInv, AbsentIsGone
    <3>2. LastValid(v) \in Int /\ fin \in Int /\ tip \in Int /\ fin <= tip
      BY <2>1, ExecutionAssumption, SMTT(30) DEF World, TypeWorld, LastValid, ReadyWires
    <3>. QED  BY <3>1, <3>2 DEF Gone, MayStillSucceed, Seen
  <2>. QED  BY <2>2, <2>3, <2>4, Zenon DEF Dead
<1>. QED  BY <1>1, ExecutionInvariant, PTL

\* The authority to send is used once: a wire that reconciliation is about to
\* transmit was never transmitted by it before, in this run or an earlier one,
\* because wire_send_authority_consumed is journaled before the transmission.
THEOREM SendAuthorityOnceHolds == Spec => []SendAuthorityOnce
<1>1. IInv => SendAuthorityOnce
  BY Zenon DEF IInv, ControlIsSound, SendAuthorityOnce
<1>. QED  BY <1>1, ExecutionInvariant, PTL

\* Although the program that seals the proof does not look at the chunks, the
\* proof is sealed only after every chunk was written, whatever forks dropped:
\* the executor signs the seal when the chunks are final.
THEOREM SealedIsCompleteHolds == Spec => []SealedIsComplete
<1>1. IInv => SealedIsComplete
  BY Zenon DEF IInv
<1>. QED  BY <1>1, ExecutionInvariant, PTL
=============================================================================
