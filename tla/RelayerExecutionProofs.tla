----------------------- MODULE RelayerExecutionProofs -----------------------
(***************************************************************************)
(* Proofs about RelayerExecution: for any number of requests, policies and *)
(* startup receipts, with replaces that fail after the rename, requeues,   *)
(* crashes and forks, what is sent is what the journal's file holds, and   *)
(* the outcomes in the file are the cluster's.                             *)
(*                                                                         *)
(* The invariant adds to the two properties what carries them over a crash *)
(* and over a replace that fails: every record that is signed in memory is *)
(* signed on disk with the same blockhash, everything sent is signed in    *)
(* memory, and the outcomes in memory are true as well.                    *)
(***************************************************************************)
EXTENDS RelayerExecution, FiniteSetTheorems, TLAPS

\* The parts of the state that the invariant is about besides the types.
JournalInv ==
  /\ SignedIsOnDisk
  /\ SentIsSigned
  /\ ObservedIsSigned
  /\ OutcomesAreTrue
  /\ \A r \in Requests : OutcomeIsTrue(r, journal[r])

\* Initially both stores are empty and nothing has been sent.
LEMMA InitEstablishes == Init => IInv
  <1>1. SUFFICES ASSUME Init PROVE IInv
    BY Zenon
  <1>2. NoRecord \in Records
    BY PolicyAssumption, StartupAssumption, HeightAssumption, Zenon DEF NoRecord, Records, Heights
  <1>3. EmptyQueue \in Queues
    BY PolicyAssumption, HeightAssumption DEF EmptyQueue, Queues, Heights
  <1>4. TypeOK
    BY <1>1, <1>2, <1>3, StartupAssumption, HeightAssumption DEF Init, TypeOK, Heights
  <1>5. JournalInv
    BY <1>1, StartupAssumption, Zenon
    DEF Init, JournalInv, SignedIsOnDisk, SentIsSigned, ObservedIsSigned,
        OutcomesAreTrue, OutcomeIsTrue, IsSigned, NoRecord
  <1>6. QED
    BY <1>4, <1>5, Zenon DEF IInv, JournalInv

\* A replace of the journal that changes the record of one request keeps the
\* journal's part of the invariant, if a signed record stays signed under its
\* blockhash and the new record's outcome is true.
LEMMA ReplaceKeeps ==
  ASSUME IInv, NEW r \in Requests, NEW record \in Records,
         ReplaceJournal([journal EXCEPT ![r] = record]),
         IsSigned(journal[r]) =>
           IsSigned(record) /\ record.last_valid = journal[r].last_valid,
         OutcomeIsTrue(r, record),
         observing' \in SUBSET observing,
         network' \in SUBSET Transactions,
         \A tx \in network' : tx \in network \/
           (tx = TransactionOf(r, record) /\ IsSigned(record)
             /\ record.last_valid = journal[r].last_valid /\ IsSigned(journal[r])),
         UNCHANGED <<landed, finalized>>
  PROVE  /\ journal' \in [Requests -> Records]
         /\ journal_file' \in [Requests -> Records]
         /\ queue' = queue /\ queue_file' = queue_file
         /\ JournalInv'
  <1>1. /\ journal_file' = [journal EXCEPT ![r] = record]
        /\ journal' = journal_file' \/ journal' = journal
        /\ queue' = queue /\ queue_file' = queue_file
    BY Zenon DEF ReplaceJournal
  <1>2. journal \in [Requests -> Records]
    BY Zenon DEF IInv, TypeOK
  <1>3. /\ journal' \in [Requests -> Records]
        /\ journal_file' \in [Requests -> Records]
    BY <1>1, <1>2, Zenon
  <1>4. \A s \in Requests :
          /\ journal_file'[s] = IF s = r THEN record ELSE journal[s]
          /\ journal'[s] = journal_file'[s] \/ journal'[s] = journal[s]
    BY <1>1, <1>2, Zenon
  <1>5. SignedIsOnDisk'
    BY <1>4, Zenon DEF SignedIsOnDisk
  <1>6. \A s \in Requests : IsSigned(journal[s]) =>
          IsSigned(journal'[s]) /\ journal'[s].last_valid = journal[s].last_valid
    BY <1>4, Zenon
  <1>7. SentIsSigned'
    <2>1. SUFFICES ASSUME NEW tx \in network'
                   PROVE  /\ IsSigned(journal'[tx.request])
                          /\ tx = TransactionOf(tx.request, journal'[tx.request])
      BY Zenon DEF SentIsSigned
    <2>2. tx \in Transactions /\ tx.request \in Requests
      BY Zenon DEF Transactions
    <2>3. CASE tx \in network
      BY <1>6, <2>2, <2>3, Zenon DEF IInv, SentIsSigned, TransactionOf
    <2>4. CASE /\ tx = TransactionOf(r, record)
               /\ record.last_valid = journal[r].last_valid /\ IsSigned(journal[r])
      BY <1>6, <2>4, Zenon DEF TransactionOf
    <2>5. QED
      BY <2>3, <2>4, Zenon
  <1>8. ObservedIsSigned'
    BY <1>6, Zenon DEF IInv, ObservedIsSigned, TypeOK
  <1>10. OutcomesAreTrue' /\ \A s \in Requests : OutcomeIsTrue(s, journal[s])'
    BY <1>4 DEF IInv, OutcomesAreTrue, OutcomeIsTrue, LandingsOf
  <1>11. QED
    BY <1>1, <1>3, <1>5, <1>7, <1>8, <1>10, Zenon DEF JournalInv

\* A replace of the queue leaves everything else of the invariant alone.
LEMMA QueueReplaceKeeps ==
  ASSUME IInv, NEW q \in Queues, ReplaceQueue(q),
         UNCHANGED process, UNCHANGED cluster, UNCHANGED observing
  PROVE  IInv'
  <1>1. /\ journal_file' = journal_file /\ journal' = journal
        /\ running' = running /\ startup' = startup /\ scanned' = scanned
        /\ observing' = observing /\ network' = network /\ landed' = landed
        /\ tip' = tip /\ finalized' = finalized
    BY Zenon DEF ReplaceQueue, process, cluster
  <1>2. queue' \in Queues /\ queue_file' \in Queues
    BY Zenon DEF ReplaceQueue, IInv, TypeOK
  <1>3. TypeOK'
    BY <1>1, <1>2, Zenon DEF IInv, TypeOK
  <1>4. JournalInv'
    BY <1>1, Zenon DEF IInv, JournalInv, SignedIsOnDisk, SentIsSigned, ObservedIsSigned,
                OutcomesAreTrue, OutcomeIsTrue, LandingsOf
  <1>5. QED
    BY <1>3, <1>4, Zenon DEF IInv, JournalInv

\* Moving a request in the queue gives a queue.
LEMMA StatusUpdate ==
  ASSUME NEW q \in Queues, NEW r \in Requests,
         NEW s \in {"None", "Queued", "Inflight"}
  PROVE  [q EXCEPT !.status[r] = s] \in Queues
  BY Zenon DEF Queues

\* The operations of the queue, the operator's and the coordinator's.
LEMMA QueueOperations ==
  ASSUME IInv, NEW r \in Requests, NEW p \in Policies,
         \/ update_policy(p)
         \/ admit_and_enqueue(r)
         \/ cancel_queued(r)
         \/ requeue_inflight(r)
         \/ complete_inflight(r)
         \/ mark_inflight(r)
  PROVE  IInv'
  <1>1. queue \in Queues /\ tip \in Heights
    BY Zenon DEF IInv, TypeOK
  <1>2. CASE update_policy(p)
    <2>1. [queue EXCEPT !.policy = p] \in Queues
      BY <1>1, Zenon DEF Queues
    <2>2. QED
      BY <1>2, <2>1, QueueReplaceKeeps, Zenon DEF update_policy
  <1>3. CASE admit_and_enqueue(r)
    <2>1. queue.window_start \in Heights /\ queue.admissions \in Nat
      BY <1>1, Zenon DEF Queues
    <2>2. ASSUME NEW w \in Heights, NEW n \in Nat
          PROVE  [queue EXCEPT !.window_start = w, !.admissions = n,
                               !.status[r] = "Queued"] \in Queues
      BY <1>1, Zenon DEF Queues
    <2>3. PICK w \in Heights, n \in Nat :
            /\ ReplaceQueue([queue EXCEPT !.window_start = w, !.admissions = n,
                                          !.status[r] = "Queued"])
            /\ UNCHANGED process /\ UNCHANGED cluster /\ UNCHANGED observing
      <3> DEFINE w0 == IF WindowExpired THEN tip ELSE queue.window_start
                 n0 == AdmissionsBefore + 1
      <3>1. w0 \in Heights /\ n0 \in Nat
        BY <1>1, <2>1 DEF AdmissionsBefore
      <3>2. /\ ReplaceQueue([queue EXCEPT !.window_start = w0, !.admissions = n0,
                                          !.status[r] = "Queued"])
            /\ UNCHANGED process /\ UNCHANGED cluster /\ UNCHANGED observing
        BY <1>3, Zenon DEF admit_and_enqueue
      <3> HIDE DEF w0, n0
      <3>3. QED
        BY <3>1, <3>2, Zenon
    <2>4. QED
      BY <2>2, <2>3, QueueReplaceKeeps, Zenon
  <1>4. CASE cancel_queued(r)
    BY <1>1, <1>4, StatusUpdate, QueueReplaceKeeps, Zenon DEF cancel_queued
  <1>5. CASE requeue_inflight(r)
    BY <1>1, <1>5, StatusUpdate, QueueReplaceKeeps, Zenon DEF requeue_inflight
  <1>6. CASE complete_inflight(r)
    BY <1>1, <1>6, StatusUpdate, QueueReplaceKeeps, Zenon DEF complete_inflight
  <1>7. CASE mark_inflight(r)
    BY <1>1, <1>7, StatusUpdate, QueueReplaceKeeps, Zenon DEF mark_inflight
  <1>8. QED
    BY <1>2, <1>3, <1>4, <1>5, <1>6, <1>7, Zenon

\* A step that replaces the journal as ReplaceKeeps allows, and leaves the
\* blocks and the process alone but for the scan state, keeps the invariant.
LEMMA JournalStep ==
  ASSUME IInv, NEW r \in Requests, NEW record \in Records,
         ReplaceJournal([journal EXCEPT ![r] = record]),
         IsSigned(journal[r]) =>
           IsSigned(record) /\ record.last_valid = journal[r].last_valid,
         OutcomeIsTrue(r, record),
         observing' \in SUBSET observing,
         \/ network' = network
         \/ /\ IsSigned(journal[r])
            /\ network' = network \union {TransactionOf(r, journal[r])},
         UNCHANGED <<running, startup>>, scanned' \in Heights,
         UNCHANGED <<landed, tip, finalized>>
  PROVE  IInv'
  <1>1. journal[r] \in Records /\ network \in SUBSET Transactions
    BY Zenon DEF IInv, TypeOK
  <1>2. TransactionOf(r, journal[r]) \in Transactions
    BY <1>1, Zenon DEF TransactionOf, Transactions, Records
  <1>3. network' \in SUBSET Transactions
    BY <1>1, <1>2, Zenon
  <1>4. \A tx \in network' : tx \in network \/
          (tx = TransactionOf(r, record) /\ IsSigned(record)
            /\ record.last_valid = journal[r].last_valid /\ IsSigned(journal[r]))
    BY Zenon DEF TransactionOf
  <1>5. /\ journal' \in [Requests -> Records]
        /\ journal_file' \in [Requests -> Records]
        /\ queue' = queue /\ queue_file' = queue_file
        /\ JournalInv'
    BY <1>3, <1>4, ReplaceKeeps, Zenon
  <1>6. TypeOK'
    BY <1>3, <1>5, Zenon DEF IInv, TypeOK
  <1>7. QED
    BY <1>5, <1>6, Zenon DEF IInv, JournalInv

\* The operations of the journal.
LEMMA JournalOperations ==
  ASSUME IInv, NEW r \in Requests,
         \/ record_simulation(r)
         \/ record_signed_wire(r)
         \/ record_finalized(r)
         \/ record_terminal_failure(r)
  PROVE  IInv'
  <1>1. /\ journal[r] \in Records /\ queue.policy \in Policies /\ startup \in Startups
        /\ finalized \in Nat /\ finalized \in Heights /\ scanned \in Heights
    BY HeightAssumption DEF IInv, TypeOK, Queues, Heights
  <1>2. journal \in [Requests -> Records]
    BY Zenon DEF IInv, TypeOK
  <1>3. CASE record_simulation(r)
    <2> DEFINE record == [stage |-> "Simulated", policy |-> queue.policy,
                          startup |-> startup, last_valid |-> finalized + Validity,
                          outcome |-> "None"]
    <2>1. finalized + Validity \in Heights
      BY <1>1, <1>3, HeightAssumption DEF record_simulation, Heights
    <2>2. record \in Records
      BY <1>1, <2>1, Zenon DEF Records
    <2>3. ~IsSigned(journal[r]) /\ OutcomeIsTrue(r, record)
      BY <1>3, Zenon DEF record_simulation, IsSigned, OutcomeIsTrue
    <2>4. QED
      BY <1>1, <1>3, <2>2, <2>3, JournalStep, Zenon DEF record_simulation, process, cluster
  <1>4. CASE record_signed_wire(r)
    <2> DEFINE record == [journal[r] EXCEPT !.stage = "Signed"]
    <2>1. record \in Records /\ record.last_valid = journal[r].last_valid /\ IsSigned(record)
      BY <1>1, Zenon DEF Records, IsSigned
    <2>2. OutcomeIsTrue(r, record)
      BY <1>1, <1>4, Zenon DEF record_signed_wire, OutcomeIsTrue, Records
    <2>3. ReplaceJournal([journal EXCEPT ![r] = record])
      BY <1>4, Zenon DEF record_signed_wire
    <2>4. QED
      BY <1>1, <1>4, <2>1, <2>2, <2>3, JournalStep, Zenon DEF record_signed_wire, process, cluster
  <1>5. CASE record_finalized(r)
    <2>1. PICK l \in LandingsOf(TransactionOf(r, journal[r])) :
            /\ l.at <= finalized
            /\ scanned' = l.at
            /\ ReplaceJournal([journal EXCEPT ![r].outcome =
                                 IF l.ok THEN "Finalized" ELSE "FinalizedFailure"])
      BY <1>5, Zenon DEF record_finalized, JoinsScan
    <2> DEFINE outcome == IF l.ok THEN "Finalized" ELSE "FinalizedFailure"
               record == [journal[r] EXCEPT !.outcome = outcome]
    <2>2. /\ record \in Records /\ record.last_valid = journal[r].last_valid
          /\ record.stage = journal[r].stage /\ record.outcome = outcome
      BY <1>1, Zenon DEF Records
    <2>3. TransactionOf(r, record) = TransactionOf(r, journal[r])
      BY <2>2, Zenon DEF TransactionOf
    <2>4. OutcomeIsTrue(r, record)
      BY <2>1, <2>2, <2>3 DEF OutcomeIsTrue
    <2>5. ReplaceJournal([journal EXCEPT ![r] = record])
      BY <2>1, Zenon
    <2>6. IsSigned(journal[r]) => IsSigned(record)
      BY <2>2, Zenon DEF IsSigned
    <2>7. scanned' \in Heights
      BY <2>1, Zenon DEF IInv, TypeOK, LandingsOf, Landings
    <2>8. QED
      BY <1>5, <2>2, <2>4, <2>5, <2>6, <2>7, JournalStep, Zenon DEF record_finalized, cluster
  <1>6. CASE record_terminal_failure(r)
    <2> DEFINE record == [journal[r] EXCEPT !.outcome = "TerminalFailure"]
    <2>1. /\ record \in Records /\ record.last_valid = journal[r].last_valid
          /\ record.stage = journal[r].stage /\ record.outcome = "TerminalFailure"
      BY <1>1, Zenon DEF Records
    <2>2. OutcomeIsTrue(r, record)
      BY <1>6, <2>1, Zenon DEF record_terminal_failure, OutcomeIsTrue
    <2>3. ReplaceJournal([journal EXCEPT ![r] = record])
      BY <1>6, Zenon DEF record_terminal_failure
    <2>4. IsSigned(journal[r]) => IsSigned(record)
      BY <2>1, Zenon DEF IsSigned
    <2>5. QED
      BY <1>1, <1>6, <2>1, <2>2, <2>3, <2>4, JournalStep, Zenon
      DEF record_terminal_failure, process, cluster
  <1>7. QED
    BY <1>3, <1>4, <1>5, <1>6, Zenon

\* Recorded outcomes stay true while the cluster moves on: finalized blocks
\* are never taken back and the finalized height does not decrease.
LEMMA OutcomesStay ==
  ASSUME IInv, finalized' \in Int, finalized' >= finalized,
         \A l \in landed : l.at <= finalized => l \in landed',
         journal_file' = journal_file,
         journal' = journal \/ journal' = journal_file
  PROVE  OutcomesAreTrue' /\ \A r \in Requests : OutcomeIsTrue(r, journal[r])'
  <1>1. /\ finalized \in Int /\ landed \in SUBSET Landings
        /\ \A l \in landed : l.at \in Int
        /\ \A r \in Requests : journal[r].last_valid \in Int
        /\ \A r \in Requests : journal_file[r].last_valid \in Int
    BY HeightAssumption DEF IInv, TypeOK, Landings, Records, Heights
  <1>2. ASSUME NEW r \in Requests, NEW record, record.last_valid \in Int,
               OutcomeIsTrue(r, record)
        PROVE  /\ record.outcome = "Finalized" =>
                    \E l \in landed' : l.tx = TransactionOf(r, record) /\ l.at <= finalized' /\ l.ok
               /\ record.outcome = "FinalizedFailure" =>
                    \E l \in landed' : l.tx = TransactionOf(r, record) /\ l.at <= finalized' /\ ~l.ok
               /\ record.outcome = "TerminalFailure" => finalized' > record.last_valid
    <2>1. \A l \in landed : l.at <= finalized => l.at <= finalized'
      BY <1>1
    <2>2. finalized > record.last_valid => finalized' > record.last_valid
      BY <1>1, <1>2
    <2>3. QED
      BY <1>2, <2>1, <2>2, Zenon DEF OutcomeIsTrue, LandingsOf
  <1>3. \A r \in Requests : OutcomeIsTrue(r, journal_file[r])'
    BY <1>1, <1>2 DEF IInv, OutcomesAreTrue, OutcomeIsTrue, LandingsOf, TransactionOf
  <1>4. \A r \in Requests : OutcomeIsTrue(r, journal[r])'
    <2>1. CASE journal' = journal
      BY <1>1, <1>2, <2>1, Zenon DEF IInv, OutcomeIsTrue, LandingsOf, TransactionOf
    <2>2. CASE journal' = journal_file
      BY <1>3, <2>2, Zenon DEF OutcomeIsTrue, LandingsOf, TransactionOf
    <2>3. QED
      BY <2>1, <2>2, Zenon
  <1>5. QED
    BY <1>3, <1>4, Zenon DEF OutcomesAreTrue

\* The rest of the coordinator's steps: reading a status, sending, giving up.
LEMMA ObservationSteps ==
  ASSUME IInv, NEW r \in Requests,
         \/ observe_signature(r)
         \/ submit_exact_signed_wire(r)
         \/ abandon_observation(r)
  PROVE  IInv'
  <1>1. /\ journal[r] \in Records /\ observing \in SUBSET Requests /\ finalized \in Int
        /\ scanned \in Heights
    BY HeightAssumption DEF IInv, TypeOK, Heights
  <1>2. CASE /\ UNCHANGED stores /\ UNCHANGED process
             /\ UNCHANGED <<landed, tip, finalized>>
             /\ observing' \in SUBSET Requests
             /\ \A s \in observing' : IsSigned(journal[s])
             /\ \/ network' = network
                \/ /\ IsSigned(journal[r])
                   /\ network' = network \union {TransactionOf(r, journal[r])}
    <2>1. TransactionOf(r, journal[r]) \in Transactions
      BY <1>1, Zenon DEF TransactionOf, Transactions, Records
    <2>2. TypeOK'
      BY <1>2, <2>1, Zenon DEF IInv, TypeOK, stores, process
    <2>3. SentIsSigned'
      BY <1>2 DEF IInv, SentIsSigned, TransactionOf, stores
    <2>4. SignedIsOnDisk' /\ ObservedIsSigned'
      BY <1>2, Zenon DEF IInv, SignedIsOnDisk, ObservedIsSigned, stores
    <2>5. OutcomesAreTrue' /\ \A s \in Requests : OutcomeIsTrue(s, journal[s])'
      <3>1. finalized' = finalized /\ landed' = landed
            /\ journal_file' = journal_file /\ journal' = journal
        BY <1>2, Zenon DEF stores
      <3>2. QED
        BY <1>1, <3>1, OutcomesStay
    <2>6. QED
      BY <2>2, <2>3, <2>4, <2>5, Zenon DEF IInv
  <1>3. CASE observe_signature(r)
    BY <1>2, <1>3, Zenon DEF observe_signature, Observable, cluster
  <1>4. CASE abandon_observation(r)
    BY <1>2, <1>4, Zenon DEF abandon_observation, cluster
  <1>5. CASE submit_exact_signed_wire(r)
    <2>1. IsSigned(journal[r])
      BY <1>5, Zenon DEF submit_exact_signed_wire, IInv, ObservedIsSigned
    <2>2. CASE UNCHANGED stores
      BY <1>2, <1>5, <2>1, <2>2, Zenon DEF submit_exact_signed_wire
    <2>3. CASE ReplaceJournal([journal EXCEPT ![r].stage = "Submitted"])
      <3> DEFINE record == [journal[r] EXCEPT !.stage = "Submitted"]
      <3>1. /\ record \in Records /\ record.last_valid = journal[r].last_valid
            /\ record.outcome = journal[r].outcome /\ IsSigned(record)
        BY <1>1, Zenon DEF Records, IsSigned
      <3>2. OutcomeIsTrue(r, record)
        BY <3>1, Zenon DEF IInv, OutcomeIsTrue, TransactionOf
      <3>3. ReplaceJournal([journal EXCEPT ![r] = record])
        BY <2>3, Zenon
      <3>4. QED
        BY <1>1, <1>5, <2>1, <3>1, <3>2, <3>3, JournalStep, Zenon
        DEF submit_exact_signed_wire, process
    <2>4. QED
      BY <1>5, <2>2, <2>3, Zenon DEF submit_exact_signed_wire
  <1>6. QED
    BY <1>3, <1>4, <1>5, Zenon

\* A crash: memory becomes what the files hold, which is at least as signed.
LEMMA CrashStep == ASSUME IInv, Crash PROVE IInv'
  <1>1. /\ queue' = queue_file /\ journal' = journal_file /\ observing' = {}
        /\ queue_file' = queue_file /\ journal_file' = journal_file
        /\ running' = FALSE /\ startup' = startup /\ scanned' = scanned /\ network' = network
        /\ landed' = landed /\ tip' = tip /\ finalized' = finalized
    BY Zenon DEF Crash, cluster
  <1>2. TypeOK'
    BY <1>1, Zenon DEF IInv, TypeOK
  <1>3. SignedIsOnDisk' /\ ObservedIsSigned'
    BY <1>1, Zenon DEF SignedIsOnDisk, ObservedIsSigned
  <1>4. SentIsSigned'
    <2>1. \A tx \in network : tx.request \in Requests
      BY Zenon DEF IInv, TypeOK, Transactions
    <2>2. QED
      BY <1>1, <2>1, Zenon DEF IInv, SentIsSigned, SignedIsOnDisk, TransactionOf
  <1>5. finalized \in Int
    BY HeightAssumption DEF IInv, TypeOK, Heights
  <1>6. OutcomesAreTrue' /\ \A r \in Requests : OutcomeIsTrue(r, journal[r])'
    BY <1>1, <1>5, OutcomesStay
  <1>7. QED
    BY <1>2, <1>3, <1>4, <1>6, Zenon DEF IInv

\* The caller's own scan, a restart, and the steps of the cluster.
LEMMA OutsideSteps ==
  ASSUME IInv,
         \/ ScanBlock
         \/ \E s \in Startups : open_or_create(s)
         \/ Produce
         \/ \E tx \in network, ok \in BOOLEAN : Land(tx, ok)
         \/ \E h \in Heights : Fork(h)
         \/ Finalize
         \/ UNCHANGED vars
  PROVE  IInv'
  <1>1. /\ UNCHANGED stores /\ network' = network /\ observing' = observing
        /\ running' \in BOOLEAN /\ startup' \in Startups
    BY Zenon DEF IInv, TypeOK, ScanBlock, open_or_create, Produce, Land, Fork, Finalize,
           vars, stores, process, cluster
  <1>2. /\ finalized \in Int /\ tip \in Int /\ MaxHeight \in Int
        /\ 0 <= finalized /\ finalized <= tip /\ tip <= MaxHeight
        /\ landed \in SUBSET Landings /\ \A l \in landed : l.at \in Int
    BY HeightAssumption DEF IInv, TypeOK, Heights, Landings
  <1>3. /\ tip' \in Heights /\ finalized' \in 0..tip' /\ finalized' \in Int
        /\ finalized' >= finalized
        /\ landed' \in SUBSET Landings
        /\ \A l \in landed : l.at <= finalized => l \in landed'
    <2>1. CASE ScanBlock \/ (\E s \in Startups : open_or_create(s)) \/ UNCHANGED vars
      BY <1>2, <2>1 DEF ScanBlock, open_or_create, vars, cluster, IInv, TypeOK
    <2>2. CASE Produce
      BY <1>2, <2>2 DEF Produce, Heights
    <2>3. CASE \E tx \in network, ok \in BOOLEAN : Land(tx, ok)
      BY <1>2, <2>3 DEF Land, Landings, IInv, TypeOK
    <2>4. CASE \E h \in Heights : Fork(h)
      <3>1. PICK h \in Heights : Fork(h)
        BY <2>4, Zenon
      <3>2. h \in Int /\ finalized < h /\ h <= tip
        BY <3>1 DEF Fork, Heights
      <3>3. QED
        BY <1>2, <3>1, <3>2 DEF Fork, Heights
    <2>5. CASE Finalize
      BY <1>2, <2>5 DEF Finalize, Heights
    <2>6. QED
      BY <2>1, <2>2, <2>3, <2>4, <2>5, Zenon
  <1>8. scanned' \in Heights
    <2>1. scanned \in Heights
      BY Zenon DEF IInv, TypeOK
    <2>2. CASE ScanBlock
      BY <1>2, <2>1, <2>2 DEF ScanBlock, Heights
    <2>3. QED
      BY <2>1, <2>2, Zenon DEF open_or_create, Produce, Land, Fork, Finalize, vars, process
  <1>4. TypeOK'
    BY <1>1, <1>3, <1>8, Zenon DEF IInv, TypeOK, stores
  <1>5. SignedIsOnDisk' /\ SentIsSigned' /\ ObservedIsSigned'
    BY <1>1, Zenon DEF IInv, SignedIsOnDisk, SentIsSigned, ObservedIsSigned, stores
  <1>6. OutcomesAreTrue' /\ \A r \in Requests : OutcomeIsTrue(r, journal[r])'
    <2>1. journal_file' = journal_file /\ journal' = journal
      BY <1>1, Zenon DEF stores
    <2>2. QED
      BY <1>3, <2>1, OutcomesStay, Zenon
  <1>7. QED
    BY <1>4, <1>5, <1>6, Zenon DEF IInv

\* Every step of the relayer, of the operator and of the cluster keeps IInv.
LEMMA NextKeeps == IInv /\ [Next]_vars => IInv'
  <1>1. SUFFICES ASSUME IInv, [Next]_vars PROVE IInv'
    BY Zenon
  <1>2. ASSUME NEW p \in Policies, update_policy(p) PROVE IInv'
    <2>1. CASE Requests = {}
      <3>1. queue \in Queues /\ [queue EXCEPT !.policy = p] \in Queues
        BY <1>1, <1>2, Zenon DEF IInv, TypeOK, Queues
      <3>2. QED
        BY <1>1, <1>2, <3>1, QueueReplaceKeeps, Zenon DEF update_policy
    <2>2. QED
      BY <1>1, <1>2, <2>1, QueueOperations, Zenon
  <1>3. ASSUME NEW r \in Requests,
               admit_and_enqueue(r) \/ cancel_queued(r) \/ requeue_inflight(r)
        PROVE  IInv'
    BY <1>1, <1>3, PolicyAssumption, QueueOperations, Zenon
  <1>4. ASSUME NEW r \in Requests, Advance(r) PROVE IInv'
    BY <1>1, <1>4, PolicyAssumption, QueueOperations, JournalOperations, ObservationSteps, Zenon
    DEF Advance
  <1>5. CASE Crash
    BY <1>1, <1>5, CrashStep, Zenon
  <1>6. QED
    BY <1>1, <1>2, <1>3, <1>4, <1>5, OutsideSteps, Zenon DEF Next

\* Both stores, the cluster and the process keep their types, and the facts
\* about what is signed, sent and decided hold, in every state of the relayer.
THEOREM RelayerInvariant == Spec => []IInv
  <1>1. QED
    BY InitEstablishes, NextKeeps, PTL DEF Spec

\* Whatever submit_exact_signed_wire has sent is, through crashes and failed
\* replaces, the transaction whose wire record_signed_wire put on disk.
THEOREM SentIsAlwaysJournaled == Spec => []SentIsJournaled
  <1>1. IInv => SentIsJournaled
    <2>1. SUFFICES ASSUME IInv, NEW tx \in network
                   PROVE  /\ IsSigned(journal_file[tx.request])
                          /\ tx = TransactionOf(tx.request, journal_file[tx.request])
      BY Zenon DEF SentIsJournaled
    <2>2. tx.request \in Requests
      BY <2>1, Zenon DEF IInv, TypeOK, Transactions
    <2>3. QED
      BY <2>1, <2>2, Zenon DEF IInv, SentIsSigned, SignedIsOnDisk, TransactionOf
  <1>2. QED
    BY <1>1, RelayerInvariant, PTL

\* The outcomes that record_finalized, record_finalized_failure and
\* record_terminal_failure put on disk are the finalized cluster's, for ever.
THEOREM OutcomesAreAlwaysTrue == Spec => []OutcomesAreTrue
  <1>1. IInv => OutcomesAreTrue
    BY Zenon DEF IInv
  <1>2. QED
    BY <1>1, RelayerInvariant, PTL

-----------------------------------------------------------------------------
(***************************************************************************)
(* When every replace either fails before the rename or succeeds, memory   *)
(* and file agree, and outcomes are durable.  The premise is needed: a     *)
(* replace that fails after it can lose one (README, section 4).           *)
(***************************************************************************)
\* Memory and file agree, an outcome needs a record, and only signed requests
\* without outcome are observed.
CopiesAgree ==
  /\ journal = journal_file
  /\ \A r \in Requests : journal[r].stage = "None" => journal[r].outcome = "None"
  /\ \A r \in observing : IsSigned(journal[r]) /\ journal[r].outcome = "None"

\* What a step without replace faults does to one request's record and to
\* what has been sent for it.
OutcomeStep ==
  \A r \in Requests : journal_file[r].outcome # "None" =>
    /\ journal_file'[r].outcome = journal_file[r].outcome
    /\ {tx \in network' : tx.request = r} = {tx \in network : tx.request = r}

\* A step that rewrites the record of a request without outcome, and sends for
\* that request at most, respects the outcomes of the others.
LEMMA OneRecordStep ==
  ASSUME TypeOK, CopiesAgree, NEW r \in Requests, NEW record,
         journal[r].outcome = "None",
         journal_file' = [journal EXCEPT ![r] = record],
         \/ network' = network
         \/ network' = network \union {TransactionOf(r, journal[r])}
  PROVE  OutcomeStep
  <1>1. SUFFICES ASSUME NEW s \in Requests, journal_file[s].outcome # "None"
                 PROVE  /\ journal_file'[s].outcome = journal_file[s].outcome
                        /\ {tx \in network' : tx.request = s}
                             = {tx \in network : tx.request = s}
    BY Zenon DEF OutcomeStep
  <1>2. s # r
    BY <1>1, Zenon DEF CopiesAgree
  <1>3. journal_file'[s] = journal_file[s]
    BY <1>2, Zenon DEF CopiesAgree, TypeOK
  <1>4. TransactionOf(r, journal[r]).request # s
    BY <1>2, Zenon DEF TransactionOf
  <1>5. QED
    BY <1>3, <1>4, Zenon

\* Without replace faults every step keeps the copies in agreement and
\* respects the outcomes that are on disk.
LEMMA FaultFreeStep ==
  ASSUME ~ReplaceFaults, TypeOK, CopiesAgree, [Next]_vars
  PROVE  CopiesAgree' /\ OutcomeStep
  <1>1. ASSUME journal' = journal, journal_file' = journal_file, network' = network,
               observing' \in SUBSET observing
        PROVE  CopiesAgree' /\ OutcomeStep
    BY <1>1, Zenon DEF CopiesAgree, OutcomeStep
  <1>2. ASSUME NEW r \in Requests, NEW record, journal[r].outcome = "None",
               record.stage = "None" => record.outcome = "None",
               ReplaceJournal([journal EXCEPT ![r] = record]), observing' = {},
               \/ network' = network
               \/ network' = network \union {TransactionOf(r, journal[r])}
        PROVE  CopiesAgree' /\ OutcomeStep
    <2>1. journal_file' = [journal EXCEPT ![r] = record] /\ journal' = journal_file'
      BY <1>2, Zenon DEF ReplaceJournal
    <2>2. CopiesAgree'
      BY <1>2, <2>1, Zenon DEF CopiesAgree, TypeOK
    <2>3. OutcomeStep
      BY <1>2, <2>1, OneRecordStep, Zenon
    <2>4. QED
      BY <2>2, <2>3, Zenon
  <1>3. journal \in [Requests -> Records]
    BY Zenon DEF TypeOK
  <1>4. ASSUME NEW r \in Requests, Advance(r) PROVE CopiesAgree' /\ OutcomeStep
    <2>1. CASE complete_inflight(r) \/ mark_inflight(r)
      BY <1>1, <2>1, Zenon DEF complete_inflight, mark_inflight, ReplaceQueue, cluster
    <2>2. CASE record_simulation(r)
      <3>1. journal[r].outcome = "None"
        BY <2>2, Zenon DEF record_simulation, CopiesAgree
      <3>2. QED
        BY <1>2, <2>2, <3>1, Zenon DEF record_simulation, Idle, cluster
    <2>3. CASE record_signed_wire(r)
      <3>1. ReplaceJournal([journal EXCEPT ![r] = [journal[r] EXCEPT !.stage = "Signed"]])
        BY <2>3, <1>3, Zenon DEF record_signed_wire
      <3>2. [journal[r] EXCEPT !.stage = "Signed"].stage # "None"
        BY <1>3, Zenon DEF Records
      <3>3. QED
        BY <1>2, <2>3, <3>1, <3>2, Zenon DEF record_signed_wire, Idle, cluster
    <2>4. CASE record_finalized(r)
      <3>1. PICK outcome :
              ReplaceJournal([journal EXCEPT ![r] = [journal[r] EXCEPT !.outcome = outcome]])
        BY <2>4, <1>3, Zenon DEF record_finalized
      <3>2. [journal[r] EXCEPT !.outcome = outcome].stage # "None"
        BY <1>3, <2>4, Zenon DEF record_finalized, Observable, IsSigned, Records
      <3>3. QED
        BY <1>2, <2>4, <3>1, <3>2, Zenon DEF record_finalized, Observable, Idle, cluster
    <2>5. CASE observe_signature(r)
      <3>1. CopiesAgree'
        BY <2>5, Zenon DEF observe_signature, Observable, stores, CopiesAgree
      <3>2. OutcomeStep
        BY <2>5, Zenon DEF observe_signature, stores, cluster, OutcomeStep
      <3>3. QED
        BY <3>1, <3>2, Zenon
    <2>6. CASE record_terminal_failure(r)
      <3>1. ReplaceJournal([journal EXCEPT ![r] =
                              [journal[r] EXCEPT !.outcome = "TerminalFailure"]])
        BY <2>6, <1>3, Zenon DEF record_terminal_failure
      <3>2. journal[r].outcome = "None"
        BY <2>6, Zenon DEF record_terminal_failure, CopiesAgree
      <3>3. [journal[r] EXCEPT !.outcome = "TerminalFailure"].stage # "None"
        BY <1>3, <2>6, Zenon DEF record_terminal_failure, CopiesAgree, IsSigned, Records
      <3>4. QED
        BY <1>2, <2>6, <3>1, <3>2, <3>3, Zenon DEF record_terminal_failure, cluster
    <2>7. CASE submit_exact_signed_wire(r)
      <3>1. /\ journal[r].outcome = "None" /\ observing' = {}
            /\ network' = network \union {TransactionOf(r, journal[r])}
        BY <2>7, Zenon DEF submit_exact_signed_wire, CopiesAgree
      <3>2. CASE UNCHANGED stores
        <4>1. /\ journal' = journal /\ journal_file' = journal_file
              /\ journal_file' = [journal EXCEPT ![r] = journal[r]]
          BY <3>2, <1>3, Zenon DEF stores, CopiesAgree
        <4>2. OutcomeStep
          BY <3>1, <4>1, OneRecordStep, Zenon
        <4>3. QED
          BY <3>1, <4>1, <4>2, Zenon DEF CopiesAgree
      <3>3. CASE ReplaceJournal([journal EXCEPT ![r].stage = "Submitted"])
        <4>1. ReplaceJournal([journal EXCEPT ![r] =
                                [journal[r] EXCEPT !.stage = "Submitted"]])
          BY <3>3, <1>3, Zenon
        <4>2. [journal[r] EXCEPT !.stage = "Submitted"].stage # "None"
          BY <1>3, Zenon DEF Records
        <4>3. QED
          BY <1>2, <3>1, <4>1, <4>2, Zenon
      <3>4. QED
        BY <2>7, <3>2, <3>3, Zenon DEF submit_exact_signed_wire
    <2>8. CASE abandon_observation(r)
      BY <1>1, <2>8, Zenon DEF abandon_observation, stores, cluster
    <2>9. QED
      BY <1>4, <2>1, <2>2, <2>3, <2>4, <2>5, <2>6, <2>7, <2>8, Zenon DEF Advance
  <1>5. CASE \E p \in Policies : update_policy(p)
    BY <1>1, <1>5, Zenon DEF update_policy, ReplaceQueue, cluster
  <1>6. ASSUME NEW r \in Requests,
               admit_and_enqueue(r) \/ cancel_queued(r) \/ requeue_inflight(r)
        PROVE  CopiesAgree' /\ OutcomeStep
    BY <1>1, <1>6, Zenon DEF admit_and_enqueue, cancel_queued, requeue_inflight,
                      ReplaceQueue, cluster
  <1>7. CASE Crash
    BY <1>1, <1>7, Zenon DEF Crash, cluster, CopiesAgree
  <1>8. CASE \/ ScanBlock
             \/ \E s \in Startups : open_or_create(s)
             \/ Produce
             \/ \E tx \in network, ok \in BOOLEAN : Land(tx, ok)
             \/ \E h \in Heights : Fork(h)
             \/ Finalize
             \/ UNCHANGED vars
    BY <1>1, <1>8, Zenon DEF ScanBlock, open_or_create, Produce, Land, Fork, Finalize, vars,
                      stores, cluster
  <1>9. QED
    BY <1>4, <1>5, <1>6, <1>7, <1>8, Zenon DEF Next

\* If no replace fails after its rename, an outcome that record_finalized,
\* record_finalized_failure or record_terminal_failure has put on disk is never
\* lost nor changed, and nothing is sent for its request any more.
THEOREM OutcomesStayDurable == ~ReplaceFaults => (Spec => OutcomesAreDurable)
  <1>1. SUFFICES ASSUME ~ReplaceFaults PROVE Spec => OutcomesAreDurable
    BY Zenon
  <1>2. Init => CopiesAgree
    BY DEF Init, CopiesAgree, NoRecord
  <1>3. IInv => TypeOK
    BY Zenon DEF IInv
  <1>4. TypeOK /\ CopiesAgree /\ [Next]_vars => CopiesAgree'
    BY <1>1, FaultFreeStep, Zenon
  <1>5. TypeOK /\ CopiesAgree /\ [Next]_vars =>
          [\A r \in Requests : journal_file[r].outcome # "None" =>
             /\ journal_file'[r].outcome = journal_file[r].outcome
             /\ {tx \in network' : tx.request = r}
                  = {tx \in network : tx.request = r}]_vars
    BY <1>1, FaultFreeStep, Zenon DEF OutcomeStep
  <1>6. QED
    BY <1>2, <1>3, <1>4, <1>5, RelayerInvariant, PTL DEF Spec, OutcomesAreDurable

-----------------------------------------------------------------------------
(***************************************************************************)
(* The queue can be opened again.  Only finitely many requests are in a    *)
(* queue, so a request that moves adds at most one to the count of the     *)
(* entries it joins; every operation checks, before it moves a request,    *)
(* the one limit that the move can exceed.  requeue_inflight_v1 does not,  *)
(* and is excepted.                                                        *)
(***************************************************************************)
QueueIsValid(q) == IsFiniteSet(Entries(q)) /\ validate_relayer_state(q.policy, q)

\* One more element adds at most one.
LEMMA AddCounts ==
  ASSUME NEW S, IsFiniteSet(S), NEW x
  PROVE  /\ IsFiniteSet(S \union {x})
         /\ Cardinality(S) \in Nat /\ Cardinality(S \union {x}) \in Nat
         /\ Cardinality(S \union {x}) <= Cardinality(S) + 1
<1>1. /\ IsFiniteSet(S \union {x})
      /\ Cardinality(S \union {x}) = IF x \in S THEN Cardinality(S) ELSE Cardinality(S) + 1
  BY FS_AddElement, Zenon
<1>2. Cardinality(S) \in Nat
  BY FS_CardinalityType, Zenon
<1>. QED  BY <1>1, <1>2

\* A request of the queue moves to s: the entries elsewhere do not grow.
LEMMA MoveCounts ==
  ASSUME NEW q \in Queues, IsFiniteSet(Entries(q)), NEW r \in Requests,
         NEW s \in {"None", "Queued", "Inflight"},
         NEW k \in Queues, k.status = [q.status EXCEPT ![r] = s]
  PROVE  /\ IsFiniteSet(Entries(k))
         /\ Cardinality(Entries(k)) <= Cardinality(Entries(q)) + 1
         /\ s = "None" \/ q.status[r] # "None" =>
              Cardinality(Entries(k)) <= Cardinality(Entries(q))
         /\ \A t \in {"Queued", "Inflight"} :
              /\ Cardinality(With(k, t)) <= Cardinality(With(q, t)) + 1
              /\ t # s => Cardinality(With(k, t)) <= Cardinality(With(q, t))
<1>1. /\ q.status \in [Requests -> {"None", "Queued", "Inflight"}]
      /\ \A x \in Requests : k.status[x] = IF x = r THEN s ELSE q.status[x]
  BY Zenon DEF Queues
<1>2. Entries(k) \subseteq Entries(q) \union {r}
  BY <1>1, Zenon DEF Entries
<1>3. /\ IsFiniteSet(Entries(q) \union {r}) /\ Cardinality(Entries(q)) \in Nat
      /\ Cardinality(Entries(q) \union {r}) <= Cardinality(Entries(q)) + 1
  BY AddCounts, Zenon
<1>4. IsFiniteSet(Entries(k)) /\ Cardinality(Entries(k)) \in Nat
  BY <1>2, <1>3, FS_Subset, FS_CardinalityType, Zenon
<1>5. Cardinality(Entries(k)) <= Cardinality(Entries(q)) + 1
  <2>1. Cardinality(Entries(k)) <= Cardinality(Entries(q) \union {r})
    BY <1>2, <1>3, FS_Subset, Zenon
  <2>2. Cardinality(Entries(q) \union {r}) \in Nat
    BY <1>3, FS_CardinalityType, Zenon
  <2>. QED  BY <1>3, <1>4, <2>1, <2>2
<1>6. ASSUME s = "None" \/ q.status[r] # "None"
      PROVE  Cardinality(Entries(k)) <= Cardinality(Entries(q))
  <2>1. Entries(k) \subseteq Entries(q)
    BY <1>1, <1>6, Zenon DEF Entries
  <2>. QED  BY <2>1, FS_Subset, Zenon
<1>7. ASSUME NEW t \in {"Queued", "Inflight"}
      PROVE  /\ Cardinality(With(k, t)) <= Cardinality(With(q, t)) + 1
             /\ t # s => Cardinality(With(k, t)) <= Cardinality(With(q, t))
  <2>1. With(q, t) \subseteq Entries(q)
    BY <1>7, Zenon DEF With, Entries
  <2>2. IsFiniteSet(With(q, t)) /\ Cardinality(With(q, t)) \in Nat
    BY <2>1, FS_Subset, FS_CardinalityType, Zenon
  <2>3. With(k, t) \subseteq With(q, t) \union {r}
    BY <1>1, Zenon DEF With
  <2>4. /\ IsFiniteSet(With(q, t) \union {r})
        /\ Cardinality(With(q, t) \union {r}) <= Cardinality(With(q, t)) + 1
        /\ Cardinality(With(q, t) \union {r}) \in Nat
    BY <2>2, AddCounts, Zenon
  <2>5. /\ Cardinality(With(k, t)) <= Cardinality(With(q, t) \union {r})
        /\ Cardinality(With(k, t)) \in Nat
    BY <2>3, <2>4, FS_Subset, FS_CardinalityType, Zenon
  <2>6. ASSUME t # s PROVE Cardinality(With(k, t)) <= Cardinality(With(q, t))
    <3>1. With(k, t) \subseteq With(q, t)
      BY <1>1, <2>6, Zenon DEF With
    <3>. QED  BY <2>2, <3>1, FS_Subset, Zenon
  <2>. QED  BY <2>2, <2>4, <2>5, <2>6
<1>. QED  BY <1>4, <1>5, <1>6, <1>7, Zenon

\* A replace by a valid queue leaves two valid queues, whether it fails or not.
LEMMA ReplaceValid ==
  ASSUME QueueIsValid(queue), QueueIsValid(queue_file),
         NEW q, ReplaceQueue(q), QueueIsValid(q)
  PROVE  QueueIsValid(queue') /\ QueueIsValid(queue_file')
BY Zenon DEF ReplaceQueue

\* A move that exceeds no limit leaves a valid queue.
LEMMA MoveValid ==
  ASSUME NEW q \in Queues, QueueIsValid(q), NEW r \in Requests,
         NEW s \in {"None", "Queued", "Inflight"},
         NEW k \in Queues, k.status = [q.status EXCEPT ![r] = s], k.policy = q.policy,
         k.admissions <= q.policy.max_admissions_per_window,
         s = "None" \/ q.status[r] # "None" \/ Cardinality(Entries(q)) < MaxEntries,
         s = "Queued" => Cardinality(With(q, "Queued")) < q.policy.max_queue_depth,
         s = "Inflight" => Cardinality(With(q, "Inflight")) < q.policy.max_inflight
  PROVE  QueueIsValid(k)
<1>1. /\ IsFiniteSet(Entries(q)) /\ Cardinality(Entries(q)) <= MaxEntries
      /\ Cardinality(With(q, "Queued")) <= q.policy.max_queue_depth
      /\ Cardinality(With(q, "Inflight")) <= q.policy.max_inflight
  BY Zenon DEF QueueIsValid, validate_relayer_state
<1>2. /\ IsFiniteSet(Entries(k))
      /\ Cardinality(Entries(k)) <= Cardinality(Entries(q)) + 1
      /\ s = "None" \/ q.status[r] # "None" =>
           Cardinality(Entries(k)) <= Cardinality(Entries(q))
      /\ \A t \in {"Queued", "Inflight"} :
           /\ Cardinality(With(k, t)) <= Cardinality(With(q, t)) + 1
           /\ t # s => Cardinality(With(k, t)) <= Cardinality(With(q, t))
  BY <1>1, MoveCounts, Zenon
<1>3. /\ Cardinality(Entries(q)) \in Nat /\ Cardinality(Entries(k)) \in Nat
  BY <1>1, <1>2, FS_CardinalityType, Zenon
<1>4. \A t \in {"Queued", "Inflight"} :
        Cardinality(With(q, t)) \in Nat /\ Cardinality(With(k, t)) \in Nat
  <2>1. TAKE t \in {"Queued", "Inflight"}
  <2>2. With(q, t) \subseteq Entries(q) /\ With(k, t) \subseteq Entries(k)
    BY Zenon DEF With, Entries
  <2>3. IsFiniteSet(With(q, t)) /\ IsFiniteSet(With(k, t))
    BY <1>1, <1>2, <2>2, FS_Subset, Zenon
  <2>. QED  BY <2>3, FS_CardinalityType, Zenon
<1>5. /\ q.policy.max_queue_depth \in Nat /\ q.policy.max_inflight \in Nat
      /\ MaxEntries \in Nat
  <2>1. q.policy \in Policies
    BY Zenon DEF Queues
  <2>. QED  BY <2>1, PolicyAssumption, RecordsAssumption, Zenon
<1>6. Cardinality(Entries(k)) <= MaxEntries
  BY <1>1, <1>2, <1>3, <1>5
<1>7. Cardinality(With(k, "Queued")) <= q.policy.max_queue_depth
  BY <1>1, <1>2, <1>4, <1>5
<1>8. Cardinality(With(k, "Inflight")) <= q.policy.max_inflight
  BY <1>1, <1>2, <1>4, <1>5
<1>. QED  BY <1>2, <1>6, <1>7, <1>8, Zenon DEF QueueIsValid, validate_relayer_state

\* Every operation of the queue leaves a valid queue.
LEMMA QueueStaysValid ==
  ASSUME IInv, QueueIsValid(queue), QueueIsValid(queue_file), ~OperatorRequeues,
         NEW r \in Requests,
         \/ admit_and_enqueue(r)
         \/ cancel_queued(r)
         \/ requeue_inflight(r)
         \/ complete_inflight(r)
         \/ mark_inflight(r)
  PROVE  QueueIsValid(queue') /\ QueueIsValid(queue_file')
<1>1. queue \in Queues /\ tip \in Heights
  BY Zenon DEF IInv, TypeOK
<1>2. queue.admissions <= queue.policy.max_admissions_per_window
  BY Zenon DEF QueueIsValid, validate_relayer_state
<1>3. ASSUME NEW s \in {"None", "Queued", "Inflight"}
      PROVE  LET k == [queue EXCEPT !.status[r] = s]
             IN /\ k \in Queues /\ k.status = [queue.status EXCEPT ![r] = s]
                /\ k.policy = queue.policy /\ k.admissions = queue.admissions
  BY <1>1, Zenon DEF Queues
<1>4. CASE admit_and_enqueue(r)
  <2>1. PICK w \in Heights, n \in Nat :
          /\ ReplaceQueue([queue EXCEPT !.window_start = w, !.admissions = n,
                                        !.status[r] = "Queued"])
          /\ n <= queue.policy.max_admissions_per_window
    <3>1. queue.window_start \in Heights /\ queue.admissions \in Nat
      BY <1>1, Zenon DEF Queues
    <3>2. queue.policy.max_admissions_per_window \in Nat
      <4>1. queue.policy \in Policies
        BY <1>1, Zenon DEF Queues
      <4>. QED  BY <4>1, PolicyAssumption, Zenon
    <3>. DEFINE w0 == IF WindowExpired THEN tip ELSE queue.window_start
                n0 == AdmissionsBefore + 1
    <3>3. AdmissionsBefore \in Nat
      BY <3>1, Zenon DEF AdmissionsBefore
    <3>4. w0 \in Heights /\ n0 \in Nat /\ n0 <= queue.policy.max_admissions_per_window
      BY <1>1, <1>4, <3>1, <3>2, <3>3 DEF admit_and_enqueue, admit_relayer_plan
    <3>5. ReplaceQueue([queue EXCEPT !.window_start = w0, !.admissions = n0,
                                     !.status[r] = "Queued"])
      BY <1>4, Zenon DEF admit_and_enqueue
    <3>. HIDE DEF w0, n0
    <3>. QED  BY <3>4, <3>5, ZenonT(30)
  <2>2. PICK k : k = [queue EXCEPT !.window_start = w, !.admissions = n,
                                   !.status[r] = "Queued"]
    BY Zenon
  <2>3. /\ k \in Queues /\ k.status = [queue.status EXCEPT ![r] = "Queued"]
        /\ k.policy = queue.policy /\ k.admissions = n
    BY <1>1, <2>2, Zenon DEF Queues
  <2>4. QueueIsValid(k)
    BY <1>1, <1>4, <2>1, <2>3, MoveValid, Zenon DEF admit_and_enqueue, admit_relayer_plan
  <2>. QED  BY <2>1, <2>2, <2>4, ReplaceValid, Zenon
<1>5. CASE cancel_queued(r) \/ complete_inflight(r)
  <2>1. PICK k : k = [queue EXCEPT !.status[r] = "None"]
    BY Zenon
  <2>2. ReplaceQueue(k)
    BY <1>5, <2>1, Zenon DEF cancel_queued, complete_inflight
  <2>3. QueueIsValid(k)
    BY <1>1, <1>2, <1>3, <2>1, MoveValid, Zenon
  <2>. QED  BY <2>2, <2>3, ReplaceValid, Zenon
<1>6. CASE mark_inflight(r)
  <2>1. PICK k : k = [queue EXCEPT !.status[r] = "Inflight"]
    BY Zenon
  <2>2. /\ ReplaceQueue(k) /\ queue.status[r] # "None"
        /\ Cardinality(With(queue, "Inflight")) < queue.policy.max_inflight
    BY <1>6, <2>1, Zenon DEF mark_inflight
  <2>3. QueueIsValid(k)
    BY <1>1, <1>2, <1>3, <2>1, <2>2, MoveValid, Zenon
  <2>. QED  BY <2>2, <2>3, ReplaceValid, Zenon
<1>. QED  BY <1>4, <1>5, <1>6, Zenon DEF requeue_inflight

\* update_policy validates the queue against the new policy first.
LEMMA PolicyStaysValid ==
  ASSUME IInv, QueueIsValid(queue), QueueIsValid(queue_file),
         NEW p \in Policies, update_policy(p)
  PROVE  QueueIsValid(queue') /\ QueueIsValid(queue_file')
<1>1. queue \in Queues
  BY Zenon DEF IInv, TypeOK
<1>2. PICK k : k = [queue EXCEPT !.policy = p]
  BY Zenon
<1>3. k.status = queue.status /\ k.policy = p /\ k.admissions = queue.admissions
  BY <1>1, <1>2, Zenon DEF Queues
<1>4. ReplaceQueue(k) /\ validate_relayer_state(p, queue)
  BY <1>2, Zenon DEF update_policy
<1>5. QueueIsValid(k)
  BY <1>3, <1>4, Zenon DEF QueueIsValid, validate_relayer_state, Entries, With
<1>. QED  BY <1>4, <1>5, ReplaceValid, Zenon

\* QueueReopens: whatever the operations of the queue put on disk, and at
\* whatever point a replace fails or the process stops, open_or_create accepts
\* the file, as long as no operator calls requeue_inflight_v1.
THEOREM QueueAlwaysReopens == ~OperatorRequeues => (Spec => []QueueReopens)
<1>1. SUFFICES ASSUME ~OperatorRequeues PROVE Spec => []QueueReopens
  BY Zenon
<1>. DEFINE Valid == QueueIsValid(queue) /\ QueueIsValid(queue_file)
<1>2. Init => Valid
  <2>1. Entries(EmptyQueue) = {} /\ \A s \in {"Queued", "Inflight"} : With(EmptyQueue, s) = {}
    BY Zenon DEF Entries, With, EmptyQueue
  <2>2. QueueIsValid(EmptyQueue)
    <3>1. EmptyQueue.policy = InitialPolicy /\ EmptyQueue.admissions = 0
      BY Zenon DEF EmptyQueue
    <3>2. /\ InitialPolicy.max_admissions_per_window \in Nat
          /\ InitialPolicy.max_queue_depth \in Nat /\ InitialPolicy.max_inflight \in Nat
      BY PolicyAssumption, Zenon
    <3>. QED  BY <2>1, <3>1, <3>2, RecordsAssumption, FS_EmptySet
         DEF QueueIsValid, validate_relayer_state
  <2>. QED  BY <2>2, Zenon DEF Init
<1>3. IInv /\ Valid /\ [Next]_vars => Valid'
  <2>1. SUFFICES ASSUME IInv, Valid, [Next]_vars PROVE Valid'
    BY Zenon
  <2>2. CASE UNCHANGED <<queue, queue_file>>
    BY <2>1, <2>2, Zenon
  <2>3. ASSUME NEW p \in Policies, update_policy(p) PROVE Valid'
    BY <2>1, <2>3, PolicyStaysValid, Zenon
  <2>4. ASSUME NEW r \in Requests,
               \/ admit_and_enqueue(r) \/ cancel_queued(r) \/ requeue_inflight(r)
               \/ complete_inflight(r) \/ mark_inflight(r)
        PROVE  Valid'
    BY <1>1, <2>1, <2>4, QueueStaysValid, Zenon
  <2>5. ASSUME NEW r \in Requests, Advance(r)
        PROVE  complete_inflight(r) \/ mark_inflight(r) \/ UNCHANGED <<queue, queue_file>>
    BY <2>5, Zenon DEF Advance, record_simulation, record_signed_wire, record_finalized,
       observe_signature, record_terminal_failure, submit_exact_signed_wire,
       abandon_observation, ReplaceJournal, stores
  <2>6. CASE Crash
    BY <2>1, <2>6, Zenon DEF Crash
  <2>7. ASSUME \/ ScanBlock
               \/ \E s \in Startups : open_or_create(s)
               \/ Produce
               \/ \E tx \in network, ok \in BOOLEAN : Land(tx, ok)
               \/ \E h \in Heights : Fork(h)
               \/ Finalize
        PROVE  UNCHANGED <<queue, queue_file>>
    BY <2>7, Zenon DEF ScanBlock, open_or_create, Produce, Land, Fork, Finalize, stores
  <2>8. CASE UNCHANGED vars
    BY <2>2, <2>8, Zenon DEF vars
  <2>. QED  BY <2>1, <2>2, <2>3, <2>4, <2>5, <2>6, <2>7, <2>8, Zenon DEF Next
<1>4. Valid => QueueReopens
  BY Zenon DEF QueueIsValid, QueueReopens
<1>. QED  BY <1>2, <1>3, <1>4, RelayerInvariant, PTL DEF Spec

-----------------------------------------------------------------------------
(***************************************************************************)
(* A signed request stays in the queue until its outcome is on disk.  Each *)
(* store may lag behind its file after a failed replace, so the invariant  *)
(* relates the four copies: outcomes are on disk before they are in        *)
(* memory, and a request that memory holds inflight is inflight on disk    *)
(* unless memory has its outcome.                                          *)
(***************************************************************************)
\* A replace of the queue moves a request that is not inflight, or takes one
\* away whose outcome is in memory.
MayMove(q, s) ==
  \/ q.status[s] = queue.status[s]
  \/ queue.status[s] # "Inflight"
  \/ journal[s].outcome # "None"

LEMMA QueueKeepsHeld ==
  ASSUME HeldInv, NEW q, ReplaceQueue(q), \A s \in Requests : MayMove(q, s)
  PROVE  HeldInv'
<1>1. /\ queue_file' = q /\ (queue' = q \/ queue' = queue)
      /\ journal' = journal /\ journal_file' = journal_file
  BY Zenon DEF ReplaceQueue
<1>2. SUFFICES ASSUME NEW s \in Requests PROVE Held(s)'
  BY Zenon DEF HeldInv
<1>3. Held(s) /\ MayMove(q, s)
  BY Zenon DEF HeldInv
<1>. QED  BY <1>1, <1>3, Zenon DEF Held, MayMove

\* A replace of the journal that records something of a request which is held
\* inflight: a new outcome needs a signed wire, and nothing takes one away.
LEMMA JournalKeepsHeld ==
  ASSUME HeldInv, journal \in [Requests -> Records],
         NEW r \in Requests, NEW record,
         ReplaceJournal([journal EXCEPT ![r] = record]),
         journal[r].outcome # "None" => record.outcome # "None",
         record.outcome # "None" => IsSigned(record),
         IsSigned(record) /\ record.outcome = "None" =>
           queue.status[r] = "Inflight" /\ queue_file.status[r] = "Inflight"
  PROVE  HeldInv'
<1>1. /\ journal_file' = [journal EXCEPT ![r] = record]
      /\ journal' = journal_file' \/ journal' = journal
      /\ queue' = queue /\ queue_file' = queue_file
  BY Zenon DEF ReplaceJournal
<1>2. SUFFICES ASSUME NEW s \in Requests PROVE Held(s)'
  BY Zenon DEF HeldInv
<1>3. Held(s)
  BY Zenon DEF HeldInv
<1>4. /\ journal_file'[s] = IF s = r THEN record ELSE journal[s]
      /\ journal'[s] = journal_file'[s] \/ journal'[s] = journal[s]
  BY <1>1, Zenon
<1>5. CASE s = r
  BY <1>1, <1>3, <1>4, <1>5, Zenon DEF Held
<1>6. CASE s # r
  BY <1>1, <1>3, <1>4, <1>6, Zenon DEF Held
<1>. QED  BY <1>5, <1>6, Zenon

\* Every step keeps the requests held, as long as nobody requeues.
LEMMA NextKeepsHeld ==
  ASSUME ~OperatorRequeues, IInv, HeldInv, [Next]_vars
  PROVE  HeldInv'
<1>1. /\ journal \in [Requests -> Records] /\ queue \in Queues
      /\ queue.status \in [Requests -> {"None", "Queued", "Inflight"}]
  BY Zenon DEF IInv, TypeOK, Queues
<1>2. ASSUME UNCHANGED stores PROVE HeldInv'
  BY <1>2, Zenon DEF HeldInv, Held, stores
<1>3. ASSUME NEW p \in Policies, update_policy(p) PROVE HeldInv'
  <2>1. PICK k : k = [queue EXCEPT !.policy = p]
    BY Zenon
  <2>2. ReplaceQueue(k) /\ k.status = queue.status
    BY <1>1, <1>3, <2>1, Zenon DEF update_policy, Queues
  <2>3. \A s \in Requests : MayMove(k, s)
    BY <2>2, Zenon DEF MayMove
  <2>. QED  BY <2>2, <2>3, QueueKeepsHeld, Zenon
<1>4. ASSUME NEW r \in Requests, NEW t \in {"None", "Queued", "Inflight"},
             NEW k, k.status = [queue.status EXCEPT ![r] = t], ReplaceQueue(k),
             queue.status[r] # "Inflight" \/ journal[r].outcome # "None"
      PROVE  HeldInv'
  <2>1. k.status[r] = t /\ \A s \in Requests : s # r => k.status[s] = queue.status[s]
    BY <1>1, <1>4, Zenon
  <2>2. \A s \in Requests : MayMove(k, s)
    BY <1>4, <2>1, Zenon DEF MayMove
  <2>. QED  BY <1>4, <2>2, QueueKeepsHeld, Zenon
<1>5. ASSUME NEW r \in Requests,
             \/ admit_and_enqueue(r) \/ cancel_queued(r) \/ requeue_inflight(r)
             \/ complete_inflight(r) \/ mark_inflight(r)
      PROVE  HeldInv'
  <2>1. CASE admit_and_enqueue(r)
    <3>1. PICK k : k = [queue EXCEPT
             !.window_start = IF WindowExpired THEN tip ELSE @,
             !.admissions = AdmissionsBefore + 1,
             !.status[r] = "Queued"]
      BY Zenon
    <3>2. k.status = [queue.status EXCEPT ![r] = "Queued"]
      BY <1>1, <3>1, Zenon DEF Queues
    <3>3. ReplaceQueue(k) /\ queue.status[r] = "None"
      BY <2>1, <3>1, Zenon DEF admit_and_enqueue
    <3>. QED  BY <1>4, <3>2, <3>3, Zenon
  <2>2. CASE cancel_queued(r) \/ complete_inflight(r)
    <3>1. PICK k : k = [queue EXCEPT !.status[r] = "None"]
      BY Zenon
    <3>2. k.status = [queue.status EXCEPT ![r] = "None"]
      BY <1>1, <3>1, Zenon DEF Queues
    <3>3. /\ ReplaceQueue(k)
          /\ queue.status[r] # "Inflight" \/ journal[r].outcome # "None"
      BY <2>2, <3>1, Zenon DEF cancel_queued, complete_inflight
    <3>. QED  BY <1>4, <3>2, <3>3, Zenon
  <2>3. CASE mark_inflight(r)
    <3>1. PICK k : k = [queue EXCEPT !.status[r] = "Inflight"]
      BY Zenon
    <3>2. k.status = [queue.status EXCEPT ![r] = "Inflight"]
      BY <1>1, <3>1, Zenon DEF Queues
    <3>3. ReplaceQueue(k) /\ queue.status[r] = "Queued"
      BY <2>3, <3>1, Zenon DEF mark_inflight
    <3>. QED  BY <1>4, <3>2, <3>3, Zenon
  <2>. QED  BY <1>5, <2>1, <2>2, <2>3, Zenon DEF requeue_inflight
<1>6. ASSUME NEW r \in Requests, Advance(r) PROVE HeldInv'
  <2>1. Held(r) /\ journal[r] \in Records
    BY <1>1, Zenon DEF HeldInv
  <2>2. CASE record_simulation(r)
    <3>. DEFINE record == [stage |-> "Simulated", policy |-> queue.policy,
                           startup |-> startup, last_valid |-> finalized + Validity,
                           outcome |-> "None"]
    <3>1. /\ ReplaceJournal([journal EXCEPT ![r] = record])
          /\ record.stage = "Simulated" /\ record.outcome = "None"
      BY <2>2, Zenon DEF record_simulation
    <3>. HIDE DEF record
    <3>2. journal[r].outcome = "None" /\ ~IsSigned(record)
      BY <2>1, <2>2, <3>1, Zenon DEF record_simulation, Held, IsSigned
    <3>. QED  BY <1>1, <3>1, <3>2, JournalKeepsHeld, Zenon
  <2>3. CASE record_signed_wire(r)
    <3>1. PICK record : record = [journal[r] EXCEPT !.stage = "Signed"]
      BY Zenon
    <3>2. record.outcome = journal[r].outcome /\ IsSigned(record)
      BY <2>1, <3>1, Zenon DEF Records, IsSigned
    <3>3. ReplaceJournal([journal EXCEPT ![r] = record])
      BY <2>3, <3>1, Zenon DEF record_signed_wire
    <3>4. queue.status[r] = "Inflight" /\ queue_file.status[r] = "Inflight"
      BY <2>1, <2>3, Zenon DEF record_signed_wire, Held
    <3>. QED  BY <1>1, <3>2, <3>3, <3>4, JournalKeepsHeld, Zenon
  <2>4. ASSUME IsSigned(journal[r]), NEW outcome, outcome # "None",
               ReplaceJournal([journal EXCEPT ![r].outcome = outcome])
        PROVE  HeldInv'
    <3>1. PICK record : record = [journal[r] EXCEPT !.outcome = outcome]
      BY Zenon
    <3>2. record.outcome = outcome /\ IsSigned(record)
      BY <2>1, <2>4, <3>1, Zenon DEF Records, IsSigned
    <3>3. ReplaceJournal([journal EXCEPT ![r] = record])
      BY <2>4, <3>1, Zenon
    <3>. QED  BY <1>1, <2>4, <3>2, <3>3, JournalKeepsHeld, Zenon
  <2>5. CASE record_finalized(r)
    <3>1. PICK l : ReplaceJournal([journal EXCEPT ![r].outcome =
                                     IF l.ok THEN "Finalized" ELSE "FinalizedFailure"])
      BY <2>5, Zenon DEF record_finalized
    <3>2. IsSigned(journal[r])
      BY <2>5, Zenon DEF record_finalized, Observable
    <3>. QED  BY <2>4, <3>1, <3>2, Zenon
  <2>6. CASE record_terminal_failure(r)
    BY <2>4, <2>6, Zenon DEF record_terminal_failure, IInv, ObservedIsSigned
  <2>7. CASE submit_exact_signed_wire(r)
    <3>1. IsSigned(journal[r])
      BY <2>7, Zenon DEF submit_exact_signed_wire, IInv, ObservedIsSigned
    <3>2. ASSUME ReplaceJournal([journal EXCEPT ![r].stage = "Submitted"])
          PROVE  HeldInv'
      <4>1. PICK record : record = [journal[r] EXCEPT !.stage = "Submitted"]
        BY Zenon
      <4>2. record.outcome = journal[r].outcome /\ IsSigned(record)
        BY <2>1, <4>1, Zenon DEF Records, IsSigned
      <4>3. ReplaceJournal([journal EXCEPT ![r] = record])
        BY <3>2, <4>1, Zenon
      <4>4. journal[r].outcome = "None" =>
              queue.status[r] = "Inflight" /\ queue_file.status[r] = "Inflight"
        BY <2>1, <3>1, Zenon DEF Held
      <4>. QED  BY <1>1, <4>2, <4>3, <4>4, JournalKeepsHeld, Zenon
    <3>. QED  BY <1>2, <2>7, <3>2, Zenon DEF submit_exact_signed_wire
  <2>8. CASE observe_signature(r) \/ abandon_observation(r)
    BY <1>2, <2>8, Zenon DEF observe_signature, abandon_observation
  <2>. QED
    BY <1>5, <1>6, <2>2, <2>3, <2>5, <2>6, <2>7, <2>8, Zenon DEF Advance
<1>7. CASE Crash
  BY <1>7, Zenon DEF Crash, HeldInv, Held
<1>8. CASE \/ ScanBlock
           \/ \E s \in Startups : open_or_create(s)
           \/ Produce
           \/ \E tx \in network, ok \in BOOLEAN : Land(tx, ok)
           \/ \E h \in Heights : Fork(h)
           \/ Finalize
           \/ UNCHANGED vars
  BY <1>2, <1>8, Zenon DEF ScanBlock, open_or_create, Produce, Land, Fork, Finalize, vars, stores
<1>. QED  BY <1>2, <1>3, <1>5, <1>6, <1>7, <1>8, Zenon DEF Next

\* SignedIsHeld: as long as no operator calls requeue_inflight_v1, a request
\* whose signed wire is on disk without an outcome is inflight in the queue's
\* file, at whatever point a replace fails or the process stops.
THEOREM SignedIsAlwaysHeld == ~OperatorRequeues => (Spec => []SignedIsHeld)
<1>1. SUFFICES ASSUME ~OperatorRequeues PROVE Spec => []SignedIsHeld
  BY Zenon
<1>2. Init => HeldInv
  <2>1. SUFFICES ASSUME Init, NEW r \in Requests PROVE Held(r)
    BY Zenon DEF HeldInv
  <2>2. NoRecord.stage = "None" /\ NoRecord.outcome = "None"
    BY Zenon DEF NoRecord
  <2>3. /\ journal[r].outcome = "None" /\ ~IsSigned(journal[r])
        /\ journal_file[r].outcome = "None" /\ ~IsSigned(journal_file[r])
    BY <2>1, <2>2, Zenon DEF Init, IsSigned
  <2>4. queue.status[r] # "Inflight"
    BY <2>1, Zenon DEF Init, EmptyQueue
  <2>. QED  BY <2>3, <2>4, Zenon DEF Held
<1>3. IInv /\ HeldInv /\ [Next]_vars => HeldInv'
  BY <1>1, NextKeepsHeld, Zenon
<1>4. HeldInv => SignedIsHeld
  BY Zenon DEF HeldInv, Held, SignedIsHeld
<1>. QED  BY <1>2, <1>3, <1>4, RelayerInvariant, PTL DEF Spec
=============================================================================
