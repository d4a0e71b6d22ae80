-------------------------- MODULE RelayerExecution --------------------------
(***************************************************************************)
(* The relayer of aspis-pool-wallet-v1: the durable admission queue        *)
(* (durable_state.rs), the execution journal (relayer_execution_journal.rs)*)
(* and the coordinator that advances a request across the two              *)
(* (operator_execution.rs), with the cluster it submits to.                *)
(*                                                                         *)
(* Each store is a file that is replaced as a whole, and a copy of it that *)
(* the process works on.  The process holds both exclusively, so a call is *)
(* one action, except observing a signature: it reads the signature's      *)
(* status first and the block height later, and the cluster moves between. *)
(*                                                                         *)
(* A request id is a digest of its plan, so equal ids are equal plans.  A  *)
(* transaction is its request and the last height of its blockhash: the    *)
(* message is a function of the recorded simulation, and signing it again  *)
(* gives the same bytes.  Slots and block heights are one clock.  Callers  *)
(* pass the policy that the queue holds (most calls compare its id), and   *)
(* fees are as estimated.  Calls that fail before they change anything are *)
(* steps that change nothing.                                              *)
(*                                                                         *)
(* A finalized status becomes an outcome only together with the landed     *)
(* block, which the port ingests into the scan state that its caller hands *)
(* it.  The caller scans blocks of its own accord too, and keeps the scan  *)
(* state through a restart.                                                *)
(***************************************************************************)
EXTENDS Integers, FiniteSets

CONSTANTS
  Requests,         \* request ids
  ObservedSlot,     \* plan.snapshot.observed_slot of each request
  Policies,         \* policies of the operator
  InitialPolicy,    \* the policy that the queue is created with
  Startups,         \* startup receipts, named by the slot of their checkpoint
  Validity,         \* heights for which a blockhash is accepted
  MaxEntries,       \* MAX_RELAYER_RECORDS, of the queue
  MaxRecords,       \* MAX_RELAYER_EXECUTION_RECORDS_V1, of the journal
  MaxHeight,        \* bound: the last block height
  ReplaceFaults,    \* a replace may fail after the rename
  OperatorRequeues  \* the operator calls requeue_inflight_v1

Heights == 0..MaxHeight

ASSUME HeightAssumption == MaxHeight \in Nat /\ Validity \in Nat
ASSUME RequestAssumption == ObservedSlot \in [Requests -> Heights]
ASSUME RecordsAssumption == MaxRecords \in Nat /\ MaxEntries \in Nat
ASSUME PolicyAssumption ==
  /\ Policies \subseteq
       [paused: BOOLEAN, max_snapshot_age_slots: Nat \ {0},
        max_queue_depth: Nat \ {0}, max_inflight: Nat \ {0},
        rate_window_slots: Nat \ {0}, max_admissions_per_window: Nat \ {0}]
  /\ InitialPolicy \in Policies
ASSUME StartupAssumption == Startups \subseteq Heights /\ 0 \in Startups
ASSUME SwitchAssumption ==
  ReplaceFaults \in BOOLEAN /\ OperatorRequeues \in BOOLEAN

VARIABLES
  queue_file,    \* the queue's file
  queue,         \* DurableRelayerStateV1, the copy in memory
  journal_file,  \* the journal's file
  journal,       \* DurableRelayerExecutionJournalV1, the copy in memory
  running,       \* the process is up
  startup,       \* its startup receipt
  scanned,       \* height of the head of the scan state
  observing,     \* requests whose signature was not found, height not yet read
  network,       \* transactions that have been sent
  landed,        \* transactions in blocks of the current fork
  tip,           \* height of the current fork
  finalized      \* finalized height

vars == <<queue_file, queue, journal_file, journal, running, startup, scanned,
          observing, network, landed, tip, finalized>>
stores == <<queue_file, queue, journal_file, journal>>
process == <<running, startup, scanned>>
cluster == <<network, landed, tip, finalized>>

Queues == [policy: Policies, window_start: Heights, admissions: Nat,
           status: [Requests -> {"None", "Queued", "Inflight"}]]

\* The stage says which optional parts of a record are present.
Records ==
  [stage: {"None", "Simulated", "Signed", "Submitted"},
   policy: Policies, startup: Startups, last_valid: Heights,
   outcome: {"None", "Finalized", "FinalizedFailure", "TerminalFailure"}]

NoRecord == [stage |-> "None", policy |-> InitialPolicy, startup |-> 0,
             last_valid |-> 0, outcome |-> "None"]

IsSigned(record) == record.stage \in {"Signed", "Submitted"}

Transactions == [request: Requests, last_valid: Heights]
Landings == [tx: Transactions, at: Heights, ok: BOOLEAN]

TransactionOf(r, record) == [request |-> r, last_valid |-> record.last_valid]

With(q, s) == {r \in Requests : q.status[r] = s}
Entries(q) == {r \in Requests : q.status[r] # "None"}

(***************************************************************************)
(* The stores.                                                             *)
(***************************************************************************)
\* The rename makes the new image the file; an error after it (the check of
\* the file, the sync of the directory) leaves the old copy in memory.
ReplaceQueue(q) ==
  /\ queue_file' = q
  /\ queue' = q \/ (ReplaceFaults /\ queue' = queue)
  /\ UNCHANGED <<journal_file, journal>>

ReplaceJournal(j) ==
  /\ journal_file' = j
  /\ journal' = j \/ (ReplaceFaults /\ journal' = journal)
  /\ UNCHANGED <<queue_file, queue>>

validate_relayer_state(p, q) ==
  /\ Cardinality(Entries(q)) <= MaxEntries
  /\ q.admissions <= p.max_admissions_per_window
  /\ Cardinality(With(q, "Queued")) <= p.max_queue_depth
  /\ Cardinality(With(q, "Inflight")) <= p.max_inflight

Idle == running /\ observing = {}

\* Faulty variant: the queue is not validated against the new policy.
update_policy_unvalidated(p) ==
  /\ Idle
  /\ p # queue.policy
  /\ ReplaceQueue([queue EXCEPT !.policy = p])
  /\ UNCHANGED process /\ UNCHANGED cluster /\ UNCHANGED observing

update_policy(p) ==
  /\ Idle
  /\ p # queue.policy
  /\ validate_relayer_state(p, queue)
  /\ ReplaceQueue([queue EXCEPT !.policy = p])
  /\ UNCHANGED process /\ UNCHANGED cluster /\ UNCHANGED observing

validate_execution_context(r) ==
  /\ ObservedSlot[r] <= tip
  /\ tip - ObservedSlot[r] <= queue.policy.max_snapshot_age_slots

\* The rate window: a new one starts when the old one has expired.
WindowExpired == tip - queue.window_start >= queue.policy.rate_window_slots
AdmissionsBefore == IF WindowExpired THEN 0 ELSE queue.admissions

admit_relayer_plan(r) ==
  /\ ~queue.policy.paused
  /\ validate_execution_context(r)
  /\ Cardinality(With(queue, "Queued")) < queue.policy.max_queue_depth
  /\ Cardinality(With(queue, "Inflight")) < queue.policy.max_inflight
  /\ queue.window_start <= tip
  /\ AdmissionsBefore < queue.policy.max_admissions_per_window

\* A request that is in the queue already is left as it is.
admit_and_enqueue(r) ==
  /\ Idle
  /\ queue.status[r] = "None"
  /\ admit_relayer_plan(r)
  /\ Cardinality(Entries(queue)) < MaxEntries
  /\ ReplaceQueue([queue EXCEPT
       !.window_start = IF WindowExpired THEN tip ELSE @,
       !.admissions = AdmissionsBefore + 1,
       !.status[r] = "Queued"])
  /\ UNCHANGED process /\ UNCHANGED cluster /\ UNCHANGED observing

cancel_queued(r) ==
  /\ Idle
  /\ queue.status[r] = "Queued"
  /\ ReplaceQueue([queue EXCEPT !.status[r] = "None"])
  /\ UNCHANGED process /\ UNCHANGED cluster /\ UNCHANGED observing

requeue_inflight(r) ==
  /\ OperatorRequeues
  /\ Idle
  /\ queue.status[r] = "Inflight"
  /\ ReplaceQueue([queue EXCEPT !.status[r] = "Queued"])
  /\ UNCHANGED process /\ UNCHANGED cluster /\ UNCHANGED observing

(***************************************************************************)
(* advance_relayer_execution: one durable or external step per call.       *)
(***************************************************************************)
validate_plan_checkpoint(r) == ObservedSlot[r] >= startup

\* Faulty variant: a request is completed when its wire has been submitted.
complete_inflight_submitted(r) ==
  /\ Idle
  /\ journal[r].stage = "Submitted"
  /\ queue.status[r] = "Inflight"
  /\ ReplaceQueue([queue EXCEPT !.status[r] = "None"])
  /\ UNCHANGED process /\ UNCHANGED cluster /\ UNCHANGED observing

complete_inflight(r) ==
  /\ Idle
  /\ journal[r].outcome # "None"
  /\ queue.status[r] = "Inflight"
  /\ ReplaceQueue([queue EXCEPT !.status[r] = "None"])
  /\ UNCHANGED process /\ UNCHANGED cluster /\ UNCHANGED observing

mark_inflight(r) ==
  /\ Idle
  /\ queue.status[r] = "Queued"
  /\ validate_plan_checkpoint(r)
  /\ journal[r].stage = "None"
  /\ ~queue.policy.paused
  /\ Cardinality(With(queue, "Inflight")) < queue.policy.max_inflight
  /\ validate_execution_context(r)
  /\ ReplaceQueue([queue EXCEPT !.status[r] = "Inflight"])
  /\ UNCHANGED process /\ UNCHANGED cluster /\ UNCHANGED observing

\* The simulation runs under a finalized blockhash.
record_simulation(r) ==
  /\ Idle
  /\ queue.status[r] = "Inflight"
  /\ journal[r].stage = "None"
  /\ validate_plan_checkpoint(r)
  /\ Cardinality({s \in Requests : journal[s].stage # "None"}) < MaxRecords
  /\ finalized + Validity < MaxHeight  \* bound: the expiry is within reach
  /\ ReplaceJournal([journal EXCEPT ![r] =
       [stage |-> "Simulated", policy |-> queue.policy, startup |-> startup,
        last_valid |-> finalized + Validity, outcome |-> "None"]])
  /\ UNCHANGED process /\ UNCHANGED cluster /\ UNCHANGED observing

\* Faulty variant: the signed wire is sent before it is recorded.
record_signed_wire_sent(r) ==
  /\ Idle
  /\ queue.status[r] = "Inflight"
  /\ journal[r].stage = "Simulated" /\ journal[r].outcome = "None"
  /\ validate_plan_checkpoint(r)
  /\ journal[r].startup = startup
  /\ journal[r].policy = queue.policy
  /\ \/ ReplaceJournal([journal EXCEPT ![r].stage = "Signed"])
     \/ UNCHANGED stores
  /\ network' = network \union {TransactionOf(r, journal[r])}
  /\ UNCHANGED process /\ UNCHANGED <<landed, tip, finalized, observing>>

record_signed_wire(r) ==
  /\ Idle
  /\ queue.status[r] = "Inflight"
  /\ journal[r].stage = "Simulated" /\ journal[r].outcome = "None"
  /\ validate_plan_checkpoint(r)
  /\ journal[r].startup = startup
  /\ journal[r].policy = queue.policy
  /\ ReplaceJournal([journal EXCEPT ![r].stage = "Signed"])
  /\ UNCHANGED process /\ UNCHANGED cluster /\ UNCHANGED observing

LandingsOf(tx) == {l \in landed : l.tx = tx}

\* Faulty variant: a request with an outcome is observed again.
Observable_settled(r) ==
  /\ Idle
  /\ queue.status[r] = "Inflight"
  /\ IsSigned(journal[r])

\* A signed request whose outcome is open.
Observable(r) ==
  /\ Idle
  /\ queue.status[r] = "Inflight"
  /\ IsSigned(journal[r]) /\ journal[r].outcome = "None"

\* join_finalized_hint: the landed block is ingested into the scan state, which
\* accepts its head again or the block after it.  A block that it has passed is
\* stale, and one further ahead has no retained ancestor.
JoinsScan(h) ==
  /\ h \in {scanned, scanned + 1}
  /\ scanned' = h

\* Faulty variant: a transaction in any block counts as finalized.
record_finalized_processed(r) ==
  /\ Observable(r)
  /\ \E l \in LandingsOf(TransactionOf(r, journal[r])) :
       /\ JoinsScan(l.at)
       /\ ReplaceJournal([journal EXCEPT ![r].outcome =
                            IF l.ok THEN "Finalized" ELSE "FinalizedFailure"])
  /\ UNCHANGED <<running, startup, observing>> /\ UNCHANGED cluster

\* record_finalized and record_finalized_failure: the status is finalized, the
\* landed block is not older than the startup checkpoint, and it joins.
record_finalized(r) ==
  /\ Observable(r)
  /\ \E l \in LandingsOf(TransactionOf(r, journal[r])) :
       /\ l.at <= finalized
       /\ l.at >= startup
       /\ JoinsScan(l.at)
       /\ ReplaceJournal([journal EXCEPT ![r].outcome =
                            IF l.ok THEN "Finalized" ELSE "FinalizedFailure"])
  /\ UNCHANGED <<running, startup, observing>> /\ UNCHANGED cluster

\* The status is NotFound; the height is read by a second request.
observe_signature(r) ==
  /\ Observable(r)
  /\ LandingsOf(TransactionOf(r, journal[r])) = {}
  /\ observing' = {r}
  /\ UNCHANGED process /\ UNCHANGED cluster /\ UNCHANGED stores

\* Faulty variant: only what was recorded as submitted can expire.
record_terminal_failure_submitted(r) ==
  /\ running /\ r \in observing
  /\ journal[r].stage = "Submitted"
  /\ finalized > journal[r].last_valid
  /\ ReplaceJournal([journal EXCEPT ![r].outcome = "TerminalFailure"])
  /\ observing' = {}
  /\ UNCHANGED process /\ UNCHANGED cluster

record_terminal_failure(r) ==
  /\ running /\ r \in observing
  /\ finalized > journal[r].last_valid
  /\ ReplaceJournal([journal EXCEPT ![r].outcome = "TerminalFailure"])
  /\ observing' = {}
  /\ UNCHANGED process /\ UNCHANGED cluster

\* The wire is sent, or sent again; the first submission is recorded, unless
\* the process stops or the answer is lost after the send.
submit_exact_signed_wire(r) ==
  /\ running /\ r \in observing
  /\ finalized <= journal[r].last_valid
  /\ ~queue.policy.paused
  /\ journal[r].policy = queue.policy
  /\ network' = network \union {TransactionOf(r, journal[r])}
  /\ \/ /\ journal[r].stage = "Signed"
        /\ ReplaceJournal([journal EXCEPT ![r].stage = "Submitted"])
     \/ UNCHANGED stores
  /\ observing' = {}
  /\ UNCHANGED process /\ UNCHANGED <<landed, tip, finalized>>

\* The policy suppresses the submission, or the height cannot be read.
abandon_observation(r) ==
  /\ running /\ r \in observing
  /\ observing' = {}
  /\ UNCHANGED process /\ UNCHANGED cluster /\ UNCHANGED stores

\* The caller scans the next finalized block for its wallet, and commits it.
ScanBlock ==
  /\ Idle
  /\ scanned < finalized
  /\ scanned' = scanned + 1
  /\ UNCHANGED <<running, startup, observing>> /\ UNCHANGED stores
  /\ UNCHANGED cluster

(***************************************************************************)
(* Crash and restart.                                                      *)
(***************************************************************************)
\* The copies in memory are lost.
Crash ==
  /\ running
  /\ running' = FALSE
  /\ queue' = queue_file /\ journal' = journal_file
  /\ observing' = {}
  /\ UNCHANGED <<queue_file, journal_file, startup, scanned>>
  /\ UNCHANGED cluster

\* open_or_create of both stores, under a startup receipt that is the same or
\* has a later checkpoint.
open_or_create(s) ==
  /\ ~running
  /\ validate_relayer_state(queue_file.policy, queue_file)
  /\ s >= startup
  /\ running' = TRUE
  /\ startup' = s
  /\ UNCHANGED <<scanned, observing>>
  /\ UNCHANGED stores /\ UNCHANGED cluster

(***************************************************************************)
(* The cluster.                                                            *)
(***************************************************************************)
Produce ==
  /\ tip < MaxHeight
  /\ tip' = tip + 1
  /\ UNCHANGED <<network, landed, finalized, observing>>
  /\ UNCHANGED stores /\ UNCHANGED process

\* A signature is processed once, in a block up to the last valid height.
Land(tx, ok) ==
  /\ LandingsOf(tx) = {}
  /\ finalized < tip /\ tip <= tx.last_valid
  /\ landed' = landed \union {[tx |-> tx, at |-> tip, ok |-> ok]}
  /\ UNCHANGED <<network, tip, finalized, observing>>
  /\ UNCHANGED stores /\ UNCHANGED process

\* The cluster leaves the current fork at height h.
Fork(h) ==
  /\ finalized < h /\ h <= tip
  /\ tip' = h - 1
  /\ landed' = {l \in landed : l.at < h}
  /\ UNCHANGED <<network, finalized, observing>>
  /\ UNCHANGED stores /\ UNCHANGED process

Finalize ==
  /\ finalized < tip
  /\ finalized' = finalized + 1
  /\ UNCHANGED <<network, landed, tip, observing>>
  /\ UNCHANGED stores /\ UNCHANGED process

EmptyQueue ==
  [policy |-> InitialPolicy, window_start |-> 0, admissions |-> 0,
   status |-> [r \in Requests |-> "None"]]

Init ==
  /\ queue_file = EmptyQueue
  /\ queue = EmptyQueue
  /\ journal_file = [r \in Requests |-> NoRecord]
  /\ journal = [r \in Requests |-> NoRecord]
  /\ running = TRUE
  /\ startup = 0
  /\ scanned = 0
  /\ observing = {}
  /\ network = {}
  /\ landed = {}
  /\ tip = 0
  /\ finalized = 0

Advance(r) ==
  \/ complete_inflight(r)
  \/ mark_inflight(r)
  \/ record_simulation(r)
  \/ record_signed_wire(r)
  \/ record_finalized(r)
  \/ observe_signature(r)
  \/ record_terminal_failure(r)
  \/ submit_exact_signed_wire(r)
  \/ abandon_observation(r)

Next ==
  \/ \E p \in Policies : update_policy(p)
  \/ \E r \in Requests :
       \/ admit_and_enqueue(r)
       \/ cancel_queued(r)
       \/ requeue_inflight(r)
       \/ Advance(r)
  \/ ScanBlock
  \/ Crash
  \/ \E s \in Startups : open_or_create(s)
  \/ Produce
  \/ \E tx \in network, ok \in BOOLEAN : Land(tx, ok)
  \/ \E h \in Heights : Fork(h)
  \/ Finalize

Spec == Init /\ [][Next]_vars

\* Finalized landings of open requests that the scan state has not passed.
Due ==
  {l \in landed :
     /\ l.at <= finalized /\ l.at >= scanned
     /\ \E r \in Requests :
          /\ journal[r].outcome = "None" /\ IsSigned(journal[r])
          /\ l.tx = TransactionOf(r, journal[r])}

\* The scan state has to move before any of them joins.
Behind == Due # {} /\ \A l \in Due : l.at > scanned + 1

\* The operator restarts the process and keeps calling for every request, each
\* of the requests to the providers is answered in the end, and the cluster
\* keeps producing and finalizing blocks.  The caller keeps scanning while a
\* landed block is out of reach; nothing says that it waits for one.
Fairness ==
  /\ \A s \in Startups : WF_vars(open_or_create(s))
  /\ \A r \in Requests :
       /\ SF_vars(record_finalized(r))
       /\ SF_vars(observe_signature(r))
       /\ SF_vars(record_terminal_failure(r))
       /\ SF_vars(complete_inflight(r))
  /\ SF_vars(ScanBlock /\ Behind)
  /\ WF_vars(Produce)
  /\ SF_vars(Finalize)

FairSpec == Spec /\ Fairness

-----------------------------------------------------------------------------
(***************************************************************************)
(* Properties.                                                             *)
(***************************************************************************)
TypeOK ==
  /\ queue_file \in Queues /\ queue \in Queues
  /\ journal_file \in [Requests -> Records] /\ journal \in [Requests -> Records]
  /\ running \in BOOLEAN
  /\ startup \in Startups
  /\ scanned \in Heights
  /\ observing \in SUBSET Requests
  /\ network \in SUBSET Transactions
  /\ landed \in SUBSET Landings
  /\ tip \in Heights
  /\ finalized \in 0..tip

\* Whatever has been sent for a request is the one transaction whose signed
\* wire is in the journal's file: a request never has two transactions, and
\* after a crash at any point the process finds what it may have sent.
SentIsJournaled ==
  \A tx \in network :
    /\ IsSigned(journal_file[tx.request])
    /\ tx = TransactionOf(tx.request, journal_file[tx.request])

\* What a record says of its request is so.
OutcomeIsTrue(r, record) ==
  LET finals == {l \in LandingsOf(TransactionOf(r, record)) : l.at <= finalized}
  IN /\ record.outcome = "Finalized" => \E l \in finals : l.ok
     /\ record.outcome = "FinalizedFailure" => \E l \in finals : ~l.ok
     /\ record.outcome = "TerminalFailure" => finalized > record.last_valid

\* A finalized outcome is the cluster's: the request's transaction is in a
\* finalized block with that result, and no fork takes it back.  A terminal
\* failure is recorded only after the last valid height is finalized.
OutcomesAreTrue == \A r \in Requests : OutcomeIsTrue(r, journal_file[r])

\* An outcome that has reached the journal's file is never lost nor changed,
\* and nothing is sent for its request any more.
OutcomesAreDurable ==
  [][\A r \in Requests : journal_file[r].outcome # "None" =>
       /\ journal_file'[r].outcome = journal_file[r].outcome
       /\ {tx \in network' : tx.request = r} = {tx \in network : tx.request = r}]_vars

\* Whatever is on disk can be opened again: the process can always restart.
QueueReopens == validate_relayer_state(queue_file.policy, queue_file)

\* A signed transaction whose outcome is open has its request inflight in the
\* queue's file: whatever order the two files are written in and wherever the
\* process stops, the queue still names every request whose transaction may be
\* on its way, so that a restart reconciles it.
SignedIsHeld ==
  \A r \in Requests :
    IsSigned(journal_file[r]) /\ journal_file[r].outcome = "None"
      => queue_file.status[r] = "Inflight"

Reconciled(r) ==
  queue_file.status[r] # "Inflight" /\ journal_file[r].outcome # "None"

\* The scan state went past the finalized block of r's transaction, before the
\* block was joined: join_finalized_hint refuses it from then on.
ScannedPast(r) ==
  \E l \in LandingsOf(TransactionOf(r, journal_file[r])) :
    l.at <= finalized /\ l.at < scanned

\* Once a request's transaction is signed, the journal ends up with an outcome
\* and the queue without the request, through crashes at every step, forks, lost
\* submissions and policy changes; unless the operator requeues it, or the
\* caller scans past the block that the transaction landed in.
SignedIsReconciled ==
  \A r \in Requests :
    (queue_file.status[r] = "Inflight" /\ IsSigned(journal_file[r]))
      ~> (Reconciled(r) \/ ScannedPast(r) \/ queue_file.status[r] = "Queued")

\* pool-v1-operator-runbook.md: "reconcile the exact signature through
\* finalized confirmation or a recorded terminal failure".  It does not always
\* come to that: once the scan state is past the landed block the join refuses
\* it as stale at every call, and the signature is found, so it never expires.
EverySignedIsReconciled ==
  \A r \in Requests :
    (queue_file.status[r] = "Inflight" /\ IsSigned(journal_file[r]))
      ~> (Reconciled(r) \/ queue_file.status[r] = "Queued")

\* relayer_execution_journal.rs: "A signed transaction becomes terminally
\* failed only after its blockhash validity window has passed under an
\* authenticated multi-provider view", so it has not landed and never will.
\* It does not hold: the status is read before the block height, and the
\* transaction may land and finalize between the two reads.
TerminalFailureIsFinal ==
  \A r \in Requests :
    journal_file[r].outcome = "TerminalFailure" =>
      LandingsOf(TransactionOf(r, journal_file[r])) = {}

\* pool-v1-operator-runbook.md: "Duplicate request ids are idempotent": a
\* request that has its outcome does not enter the queue again.  It does not
\* hold: admit_and_enqueue_v1 looks among the live queue entries only, and a
\* completed request has left the queue.
DuplicatesAreIdempotent ==
  [][\A r \in Requests :
       journal[r].outcome # "None" /\ queue.status[r] = "None"
         => queue'.status[r] = "None"]_vars

-----------------------------------------------------------------------------
(***************************************************************************)
(* The inductive invariant.                                                *)
(***************************************************************************)
\* What the copy in memory knows to be signed is signed on disk.
SignedIsOnDisk ==
  \A r \in Requests : IsSigned(journal[r]) =>
    /\ IsSigned(journal_file[r])
    /\ journal_file[r].last_valid = journal[r].last_valid

SentIsSigned ==
  \A tx \in network :
    /\ IsSigned(journal[tx.request])
    /\ tx = TransactionOf(tx.request, journal[tx.request])

ObservedIsSigned == \A r \in observing : IsSigned(journal[r])

IInv ==
  /\ TypeOK
  /\ SignedIsOnDisk
  /\ SentIsSigned
  /\ ObservedIsSigned
  /\ OutcomesAreTrue
  /\ \A r \in Requests : OutcomeIsTrue(r, journal[r])

\* The queue and the journal while nobody requeues: outcomes reach the disk
\* first, and a request leaves the disk's queue only with one in memory.
Held(r) ==
  /\ journal[r].outcome # "None" => journal_file[r].outcome # "None"
  /\ queue.status[r] = "Inflight" =>
       queue_file.status[r] = "Inflight" \/ journal[r].outcome # "None"
  /\ journal[r].outcome # "None" => IsSigned(journal[r])
  /\ journal_file[r].outcome # "None" => IsSigned(journal_file[r])
  /\ IsSigned(journal[r]) /\ journal[r].outcome = "None" =>
       queue.status[r] = "Inflight" /\ queue_file.status[r] = "Inflight"
  /\ IsSigned(journal_file[r]) /\ journal_file[r].outcome = "None" =>
       queue.status[r] = "Inflight" /\ queue_file.status[r] = "Inflight"

HeldInv == \A r \in Requests : Held(r)
=============================================================================
