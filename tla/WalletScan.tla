----------------------------- MODULE WalletScan -----------------------------
(***************************************************************************)
(* The legacy (V1) wallet: a finalized-block scanner, the wallet file with *)
(* its cursor, notes and prepared plans, and the witness journal           *)
(* (crates/aspis-pool-wallet-v1/src: scan_state.rs, finalized_indexer.rs,  *)
(* durable_state.rs, durable_witness_state.rs).                            *)
(*                                                                         *)
(* The chain is a tree of blocks; the application ingests any block whose  *)
(* parent is still retained, so that a fork rolls back and a prune drops   *)
(* the rollback window.  A finalized result is committed to the wallet     *)
(* file and then to the witness journal, two files that are each replaced  *)
(* atomically.  A process crash loses the handles; a replace that reports  *)
(* an error may have reached the file.  Both files are bounded: an image   *)
(* over a limit is refused before anything is written.                     *)
(*                                                                         *)
(* An event is <<block, invocation, output>>.  A note stands for its       *)
(* commitment and its nullifier.  RPC transport, root-page authentication, *)
(* encryption and the identity checks are left out: blocks are authentic.  *)
(***************************************************************************)
EXTENDS MerkleFrontier, SequencesExt

CONSTANTS
  Genesis,     \* the block the wallet is anchored at first
  Blocks,      \* the blocks after it
  Parent,      \* Blocks -> Blocks \cup {Genesis}
  Body,        \* Blocks -> sequence of pool invocations
  Mine,        \* notes this wallet can open
  NoteBytes,          \* size of a stored note: its record and the sealed note
  MaxNotes,           \* MAX_NOTE_RECORDS
  MaxPlanRecords,     \* MAX_PLAN_LIFECYCLE_RECORDS
  MaxImageBytes,      \* MAX_DURABLE_IMAGE_BYTES, less the headers
  MaxWitnessBlocks,   \* MAX_RETAINED_WITNESS_BLOCKS_V1
  MaxWitnessAppends,  \* MAX_RETAINED_WITNESS_APPENDS_V1
  MaxJournalBytes,    \* MAX_WITNESS_JOURNAL_BYTES_V1, less the headers
  MaxFaults,   \* bound on crashes and failed replacements
  None

ASSUME ChainAssumption ==
  /\ Genesis \notin Blocks
  /\ Parent \in [Blocks -> Blocks \cup {Genesis}]
  /\ DOMAIN Body = Blocks

ASSUME LimitAssumption ==
  {NoteBytes, MaxNotes, MaxPlanRecords, MaxImageBytes,
   MaxWitnessBlocks, MaxWitnessAppends, MaxJournalBytes} \subseteq Nat

VARIABLES
  wallet_file,    \* ASDW: the wallet image
  journal_file,   \* ASWJ: the witness journal image
  wallet,         \* the open wallet handle, None when closed
  journal,        \* the open witness handle, None when closed
  pending,        \* a transition the wallet has committed and the journal not
  faults

vars == <<wallet_file, journal_file, wallet, journal, pending, faults>>

-----------------------------------------------------------------------------
(* The chain.                                                              *)

Points == Blocks \cup {Genesis}
IsDeposit(v) == v.kind = "deposit"
IsTransition(v) == v.kind = "transition"

(* The blocks after Genesis up to and including b.                         *)
Path ==
  LET path[b \in Points] == IF b = Genesis THEN << >> ELSE Append(path[Parent[b]], b)
  IN [b \in Points |-> path[b]]

EventIds(b) ==
  FlattenSeq([i \in DOMAIN Body[b] |-> [j \in DOMAIN Body[b][i].outputs |-> <<b, i, j>>]])
NoteOf(id) == Body[id[1]][id[2]].outputs[id[3]]
Invocation(id) == Body[id[1]][id[2]]
EventsOf(blocks) == FlattenSeq([i \in DOMAIN blocks |-> EventIds(blocks[i])])
NotesAt ==
  [b \in Points |-> LET ids == EventsOf(Path[b]) IN [i \in DOMAIN ids |-> NoteOf(ids[i])]]

(* The append evidence of block b: leaf index, sequence and root as the    *)
(* pool recorded them.                                                     *)
AppendEvidence ==
  [b \in Blocks |->
     LET before == NotesAt[Parent[b]]
         ids == EventIds(b)
     IN [k \in DOMAIN ids |->
           [event_id |-> ids[k],
            leaf_index |-> Len(before) + k - 1,
            root_sequence |-> Len(before) + k,
            note |-> NoteOf(ids[k]),
            root |-> ReferenceRoot(before \o [m \in 1..k |-> NoteOf(ids[m])])]]]

(* The plan lifecycle of block b: prepares, cancels, and settlements under *)
(* the id of the transition's first output.                                *)
PlanLifecycle(b) ==
  LET events == [i \in DOMAIN Body[b] |->
                   [id |-> <<b, i, 1>>, kind |-> Body[b][i].kind, plan |-> Body[b][i].plan]]
  IN SelectSeq(events, LAMBDA e : e.plan # None)

-----------------------------------------------------------------------------
(* The scan cursor (ScanStateV1).                                          *)

ScanNew(anchor) ==
  LET at == [next_leaf_index |-> Len(NotesAt[anchor]), root |-> ReferenceRoot(NotesAt[anchor])]
  IN [anchor |-> anchor, anchor_at |-> at, at |-> at, blocks |-> << >>, events |-> << >>]

head(scan) == IF scan.blocks = << >> THEN scan.anchor ELSE Last(scan.blocks).point
retains_chain_point(scan, p) ==
  p = scan.anchor \/ \E i \in DOMAIN scan.blocks : scan.blocks[i].point = p
retained_event_ids_in_block(scan, p) ==
  LET own == SelectSeq(scan.events, LAMBDA e : e.event_id[1] = p)
  IN [i \in DOMAIN own |-> own[i].event_id]

(* How many retained blocks end with point p.                              *)
KeepCount(scan, p) ==
  IF p = scan.anchor THEN 0
  ELSE CHOOSE i \in DOMAIN scan.blocks : scan.blocks[i].point = p

rollback_to(scan, ancestor) ==
  LET keep == KeepCount(scan, ancestor) IN
  IF keep = Len(scan.blocks) THEN scan
  ELSE LET first_removed == scan.blocks[keep + 1]
       IN [scan EXCEPT !.at = first_removed.before,
                       !.events = SubSeq(@, 1, first_removed.events_before),
                       !.blocks = SubSeq(@, 1, keep)]

RemovedEvents(scan, ancestor) ==
  LET cut == Len(rollback_to(scan, ancestor).events)
  IN [i \in 1..(Len(scan.events) - cut) |-> scan.events[cut + i].event_id]

(* prune_finalized_history_through_v1 of the cursor.                       *)
prune_cursor(scan, ancestor) ==
  LET cut == KeepCount(scan, ancestor)
      pruned == IF cut = Len(scan.blocks)
                THEN [at |-> scan.at, events |-> Len(scan.events)]
                ELSE [at |-> scan.blocks[cut + 1].before,
                      events |-> scan.blocks[cut + 1].events_before]
      rest == SubSeq(scan.blocks, cut + 1, Len(scan.blocks))
  IN [anchor |-> ancestor, anchor_at |-> pruned.at, at |-> scan.at,
      blocks |-> [i \in DOMAIN rest |-> [rest[i] EXCEPT !.events_before = @ - pruned.events]],
      events |-> SubSeq(scan.events, pruned.events + 1, Len(scan.events))]

(* validate_state_invariants_v1: anchor, checkpoints and events link up.   *)
CursorAt(scan, i) == IF i > Len(scan.blocks) THEN scan.at ELSE scan.blocks[i].before
EventsBefore(scan, i) ==
  IF i > Len(scan.blocks) THEN Len(scan.events) ELSE scan.blocks[i].events_before
validate_state_invariants(scan) ==
  /\ scan.blocks = << >> => scan.events = << >>
  /\ CursorAt(scan, 1) = scan.anchor_at /\ EventsBefore(scan, 1) = 0
  /\ \A i \in DOMAIN scan.blocks :
       LET own == SubSeq(scan.events, EventsBefore(scan, i) + 1, EventsBefore(scan, i + 1))
           before == CursorAt(scan, i)
           after == CursorAt(scan, i + 1)
       IN /\ scan.blocks[i].parent = IF i = 1 THEN scan.anchor ELSE scan.blocks[i-1].point
          /\ \A k \in DOMAIN own : /\ own[k].event_id[1] = scan.blocks[i].point
                                   /\ own[k].leaf_index = before.next_leaf_index + k - 1
          /\ after.next_leaf_index = before.next_leaf_index + Len(own)
          /\ after.root = IF own = << >> THEN before.root ELSE Last(own).root

PrunedEvents(scan, ancestor) ==
  LET kept == Len(prune_cursor(scan, ancestor).events)
  IN [i \in 1..(Len(scan.events) - kept) |-> scan.events[i].event_id]

(* advance_finalized_block_v1 on a block that follows the head, and the    *)
(* ingestion of its events, each at the cursor's next leaf.                *)
advance_finalized_block(scan, b) ==
  [scan EXCEPT !.blocks = Append(@, [point |-> b, parent |-> Parent[b], before |-> scan.at,
                                     events_before |-> Len(scan.events)])]

ingest_events(scan, appends) ==
  IF appends = << >> THEN scan
  ELSE [scan EXCEPT !.events = @ \o [k \in DOMAIN appends |->
                                       [event_id |-> appends[k].event_id,
                                        leaf_index |-> appends[k].leaf_index,
                                        note |-> appends[k].note, root |-> appends[k].root]],
                    !.at = [next_leaf_index |-> Last(appends).root_sequence,
                            root |-> Last(appends).root]]

UnexpectedLeafIndex(scan, appends) ==
  \E k \in DOMAIN appends : appends[k].leaf_index # scan.at.next_leaf_index + k - 1

IsCurrentReplay(scan, b) == b = head(scan) /\ scan.blocks # << >>

(* ingest_finalized_rpc_block_v1 accepts the block ...                     *)
IngestAccepted(scan, b) ==
  IF IsCurrentReplay(scan, b)
  THEN retained_event_ids_in_block(scan, b) = EventIds(b)
  ELSE /\ retains_chain_point(scan, Parent[b])
       /\ ~retains_chain_point(scan, b)
       /\ ~UnexpectedLeafIndex(rollback_to(scan, Parent[b]), AppendEvidence[b])

(* ... and returns the candidate cursor with what happened.                *)
Ingested(scan, b) ==
  LET advance == IF IsCurrentReplay(scan, b) THEN "AlreadyCurrent" ELSE "Advanced"
      forks == advance = "Advanced" /\ Parent[b] # head(scan)
      base == rollback_to(scan, Parent[b])
  IN [kind |-> "ingest",
      advance |-> advance,
      previous |-> scan,
      candidate |-> IF advance = "AlreadyCurrent" THEN scan
                    ELSE ingest_events(advance_finalized_block(base, b), AppendEvidence[b]),
      rollback |-> forks,
      rollback_head |-> IF forks THEN Parent[b] ELSE None,
      removed |-> IF forks THEN RemovedEvents(scan, Parent[b]) ELSE << >>,
      appends |-> AppendEvidence[b],
      lifecycle |-> PlanLifecycle(b),
      block |-> b]

-----------------------------------------------------------------------------
(* The wallet file (DurableWalletStateV1).                                 *)

NewWallet == [scan |-> ScanNew(Genesis), notes |-> {}, base |-> {}, lifecycle |-> << >>]

(* replay_prepared_plan_lifecycle_v1: the plans left open.  Closing a plan *)
(* the wallet never saw prepared changes nothing.                          *)
apply_lifecycle_event(active, e) ==
  IF e.kind = "prepare" THEN active \cup {e.plan} ELSE active \ {e.plan}

ActivePlans(base, lifecycle) == FoldLeft(apply_lifecycle_event, base, lifecycle)

LifecycleAccepted(base, lifecycle) ==
  /\ \A i, j \in DOMAIN lifecycle : lifecycle[i].id = lifecycle[j].id => i = j
  /\ \A i \in DOMAIN lifecycle :
       lifecycle[i].kind = "prepare"
         => lifecycle[i].plan \notin ActivePlans(base, SubSeq(lifecycle, 1, i - 1))

active_prepared_plans(w) == ActivePlans(w.base, w.lifecycle)

(* encode_wallet_image_v1: the records of the image, in their encoded      *)
(* sizes, are within every limit.                                          *)
PlanRecords(w) == Cardinality(w.base) + Len(w.lifecycle)
ImageBytes(w) == 128 * Len(w.scan.blocks) + 212 * Len(w.scan.events)
                   + NoteBytes * Cardinality(w.notes) + 428 * PlanRecords(w)
WalletFits(w) ==
  /\ Cardinality(w.notes) <= MaxNotes
  /\ PlanRecords(w) <= MaxPlanRecords
  /\ ImageBytes(w) <= MaxImageBytes

(* validate_candidate_transition_v1: the candidate is the previous cursor, *)
(* rolled back if the block forks, plus exactly the reported events.       *)
validate_candidate_transition(previous, r) ==
  LET ids == [k \in DOMAIN r.appends |-> r.appends[k].event_id]
      ancestor == IF r.rollback THEN r.rollback_head ELSE head(previous)
      base == rollback_to(previous, ancestor)
  IN IF r.advance = "AlreadyCurrent"
     THEN /\ r.candidate = previous
          /\ ids = retained_event_ids_in_block(previous, head(previous))
     ELSE /\ retains_chain_point(previous, ancestor)
          /\ r.rollback => r.removed = RemovedEvents(previous, ancestor)
          /\ Len(r.candidate.blocks) = Len(base.blocks) + 1
          /\ rollback_to(r.candidate, ancestor) = base
          /\ RemovedEvents(r.candidate, ancestor) = ids

(* The wallet's own notes a block reveals by scanning, and the ones that   *)
(* need a separate delivery.                                               *)
Advanced(r) == IF r.advance = "Advanced" THEN ToSet(EventIds(r.block)) ELSE {}
required_deposits(r) ==
  {id \in Advanced(r) : IsDeposit(Invocation(id)) /\ NoteOf(id) \in Mine}
Deliverable(r) ==
  {id \in Advanced(r) : IsTransition(Invocation(id)) /\ NoteOf(id) \in Mine}

(* Mutant: a rolled-back spend leaves its marker.                          *)
notes_after_rollback_MarkerKept(notes, r) ==
  {n \in notes : n.event_id \notin ToSet(r.removed)}

notes_after_rollback(notes, r) ==
  {[n EXCEPT !.spent = IF @ \in ToSet(r.removed) THEN None ELSE @] :
     n \in {m \in notes : m.event_id \notin ToSet(r.removed)}}

notes_after_recovery(notes, r, delivered) ==
  LET held == {n.event_id : n \in notes}
      recovered == (required_deposits(r) \cup delivered) \ held
  IN notes \cup {[event_id |-> id, spent |-> None] : id \in recovered}

(* The spend of note n in block b: the first output of the transition that *)
(* reveals its nullifier.                                                  *)
SpendIn(b, n) ==
  LET spends == {i \in DOMAIN Body[b] : /\ IsTransition(Body[b][i])
                                        /\ Body[b][i].spends = NoteOf(n.event_id)}
  IN IF spends = {} THEN None ELSE <<b, CHOOSE i \in spends : TRUE, 1>>

notes_after_spends(notes, b) ==
  {[n EXCEPT !.spent = IF SpendIn(b, n) = None THEN @ ELSE SpendIn(b, n)] : n \in notes}

SpentDifferently(notes, b) ==
  \E n \in notes : SpendIn(b, n) # None /\ n.spent \notin {None, SpendIn(b, n)}

lifecycle_after(w, r) ==
  LET kept == IF r.rollback
              THEN SelectSeq(w.lifecycle, LAMBDA e : retains_chain_point(r.candidate, e.id[1]))
              ELSE w.lifecycle
  IN kept \o SelectSeq(r.lifecycle, LAMBDA e : \A i \in DOMAIN kept : kept[i] # e)

(* commit_finalized_ingest_v1.                                             *)
WalletCommitted(w, r, delivered) ==
  [w EXCEPT !.scan = r.candidate,
            !.notes = notes_after_spends(
                        notes_after_recovery(notes_after_rollback(w.notes, r), r, delivered),
                        r.block),
            !.lifecycle = lifecycle_after(w, r)]

WalletAccepts(w, r, delivered) ==
  /\ validate_candidate_transition(w.scan, r)
  /\ delivered \subseteq Deliverable(r)
  /\ ~SpentDifferently(notes_after_recovery(notes_after_rollback(w.notes, r), r, delivered),
                       r.block)
  /\ \A i \in DOMAIN r.lifecycle : retains_chain_point(r.candidate, r.lifecycle[i].id[1])
  /\ LifecycleAccepted(w.base, lifecycle_after(w, r))
  /\ WalletFits(WalletCommitted(w, r, delivered))

(* prune_finalized_history_through_v1: plan events leave the journal for   *)
(* the base when their block is no longer retained.  The new anchor still  *)
(* is.                                                                     *)
WalletPruned(w, ancestor) ==
  LET scan == prune_cursor(w.scan, ancestor)
      Retained(e) == retains_chain_point(scan, e.id[1])
  IN [w EXCEPT !.scan = scan,
               !.base = ActivePlans(@, SelectSeq(w.lifecycle, LAMBDA e : ~Retained(e))),
               !.lifecycle = SelectSeq(@, Retained)]

WalletAcceptsPrune(w, ancestor) ==
  LET next == WalletPruned(w, ancestor)
  IN /\ validate_state_invariants(next.scan)
     /\ LifecycleAccepted(next.base, next.lifecycle)
     /\ WalletFits(next)

-----------------------------------------------------------------------------
(* The witness journal (DurableWalletWitnessStateV1).  The file holds the  *)
(* anchor state and the retained blocks; the handle also the replayed      *)
(* current state.                                                          *)

NewJournal == [anchor |-> Genesis, anchor_state |-> EmptyWitnessState, blocks |-> << >>]

replay_blocks(anchor_state, blocks) ==
  FoldLeft(LAMBDA state, block : apply_finalized_appends(state, block.appends, block.tracked).state,
           anchor_state, blocks)

Opened(image) == [anchor |-> image.anchor, anchor_state |-> image.anchor_state,
                  blocks |-> image.blocks,
                  current |-> replay_blocks(image.anchor_state, image.blocks)]
Image(j) == [anchor |-> j.anchor, anchor_state |-> j.anchor_state, blocks |-> j.blocks]

JournalHead(j) == IF j.blocks = << >> THEN j.anchor ELSE Last(j.blocks).point

validate_against_scan(j, scan) ==
  /\ scan.anchor = j.anchor
  /\ Len(scan.blocks) = Len(j.blocks)
  /\ JournalHead(j) = head(scan)
  /\ j.current.tree.next_leaf_index = scan.at.next_leaf_index
  /\ j.current.tree.root = scan.at.root
  /\ \A i \in DOMAIN j.blocks :
       j.blocks[i].parent = IF i = 1 THEN j.anchor ELSE j.blocks[i-1].point

(* The retained journal blocks up to point p, and the events of a list.    *)
JournalKeep(j, p) ==
  IF p = j.anchor THEN 0 ELSE CHOOSE i \in DOMAIN j.blocks : j.blocks[i].point = p
JournalRetains(j, p) == p = j.anchor \/ \E i \in DOMAIN j.blocks : j.blocks[i].point = p
JournalEvents(blocks) ==
  FlattenSeq([i \in DOMAIN blocks |->
                [k \in DOMAIN blocks[i].appends |-> blocks[i].appends[k].event_id]])

(* encode_witness_journal_v1: the blocks, their appends and the anchor's   *)
(* tracked paths (788 bytes at the code's depth 20) are within the limits. *)
JournalAppends(j) == Len(JournalEvents(j.blocks))
JournalBytes(j) == 96 * Len(j.blocks) + 192 * JournalAppends(j)
                     + 788 * Cardinality(j.anchor_state.tracked)
JournalFits(j) ==
  /\ Len(j.blocks) <= MaxWitnessBlocks
  /\ JournalAppends(j) <= MaxWitnessAppends
  /\ JournalBytes(j) <= MaxJournalBytes

(* The application follows the leaves of its own notes.                    *)
TrackedIn(r) == {id \in Advanced(r) : NoteOf(id) \in Mine}

(* Mutant: a fork is applied on top of the abandoned blocks' state.        *)
RolledBack_StateKept(j, r) ==
  IF ~r.rollback THEN j
  ELSE [j EXCEPT !.blocks = SubSeq(@, 1, JournalKeep(j, r.rollback_head))]

RolledBack(j, r) ==
  IF ~r.rollback THEN j
  ELSE LET blocks == SubSeq(j.blocks, 1, JournalKeep(j, r.rollback_head))
       IN [j EXCEPT !.blocks = blocks, !.current = replay_blocks(j.anchor_state, blocks)]

(* commit_finalized_ingest_v1 of the journal.                              *)
JournalIngested(j, r) ==
  LET base == RolledBack(j, r) IN
  IF r.advance = "AlreadyCurrent" THEN j
  ELSE [base EXCEPT !.blocks = Append(@, [point |-> head(r.candidate),
                                          parent |-> JournalHead(base),
                                          appends |-> r.appends, tracked |-> TrackedIn(r)]),
                    !.current = apply_finalized_appends(@, r.appends, TrackedIn(r)).state]

JournalAcceptsIngest(j, r) ==
  /\ validate_against_scan(j, r.previous)
  /\ r.rollback => /\ JournalRetains(j, r.rollback_head)
                   /\ JournalEvents(SubSeq(j.blocks, JournalKeep(j, r.rollback_head) + 1,
                                           Len(j.blocks))) = r.removed
  /\ IF r.advance = "AlreadyCurrent"
     THEN /\ r.candidate = r.previous
          /\ j.blocks # << >>
          /\ Last(j.blocks).appends = r.appends
     ELSE /\ head(r.candidate) # JournalHead(RolledBack(j, r))
          /\ apply_finalized_appends(RolledBack(j, r).current, r.appends, TrackedIn(r)).ok
          /\ validate_against_scan(JournalIngested(j, r), r.candidate)
          /\ JournalFits(JournalIngested(j, r))

(* Mutant: a prune drops the blocks and keeps the old anchor state.        *)
JournalPruned_AnchorKept(j, r) ==
  LET blocks == SubSeq(j.blocks, JournalKeep(j, r.candidate.anchor) + 1, Len(j.blocks))
  IN [anchor |-> r.candidate.anchor, anchor_state |-> j.anchor_state, blocks |-> blocks,
      current |-> replay_blocks(j.anchor_state, blocks)]

(* prune_finalized_history_through_v1 of the journal.                      *)
JournalPruned(j, r) ==
  LET cut == JournalKeep(j, r.candidate.anchor)
      anchor_state == replay_blocks(j.anchor_state, SubSeq(j.blocks, 1, cut))
      blocks == SubSeq(j.blocks, cut + 1, Len(j.blocks))
  IN [anchor |-> r.candidate.anchor, anchor_state |-> anchor_state, blocks |-> blocks,
      current |-> replay_blocks(anchor_state, blocks)]

JournalAcceptsPrune(j, r) ==
  /\ \E i \in DOMAIN j.blocks : j.blocks[i].point = r.candidate.anchor
  /\ JournalEvents(SubSeq(j.blocks, 1, JournalKeep(j, r.candidate.anchor))) = r.removed
  /\ validate_against_scan(JournalPruned(j, r), r.candidate)
  /\ JournalFits(JournalPruned(j, r))

JournalAccepts(j, r) ==
  IF r.kind = "ingest" THEN JournalAcceptsIngest(j, r) ELSE JournalAcceptsPrune(j, r)
JournalCommitted(j, r) ==
  IF r.kind = "ingest" THEN JournalIngested(j, r) ELSE JournalPruned(j, r)

-----------------------------------------------------------------------------
(* The application over both files.                                        *)

Init ==
  /\ wallet_file = NewWallet /\ wallet = NewWallet
  /\ journal_file = NewJournal /\ journal = Opened(NewJournal)
  /\ pending = None
  /\ faults = 0

Idle == wallet # None /\ journal # None /\ pending = None

(* AtomicStateFileV1::replace: an error before the rename loses the image, *)
(* an error after it leaves the new image in the file.  The handle keeps   *)
(* its old state on every error.                                           *)
Outcomes == {"ok", "lost", "landed"}
Replaced(outcome, old, new) == IF outcome = "lost" THEN old ELSE new
Reported(outcome) ==
  IF outcome = "ok" THEN faults' = faults ELSE faults < MaxFaults /\ faults' = faults + 1

IngestBlock(b, delivered, outcome) ==
  /\ Idle
  /\ IngestAccepted(wallet.scan, b)
  /\ LET r == Ingested(wallet.scan, b)
         next == WalletCommitted(wallet, r, delivered)
     IN /\ WalletAccepts(wallet, r, delivered)
        /\ wallet_file' = Replaced(outcome, wallet_file, next)
        /\ wallet' = IF outcome = "ok" THEN next ELSE wallet
        /\ pending' = IF outcome = "ok" THEN r ELSE None
  /\ Reported(outcome)
  /\ UNCHANGED <<journal_file, journal>>

PruneRecord(scan, ancestor) ==
  [kind |-> "prune", candidate |-> prune_cursor(scan, ancestor),
   removed |-> PrunedEvents(scan, ancestor)]

Prune(ancestor, outcome) ==
  /\ Idle
  /\ ancestor # wallet.scan.anchor /\ retains_chain_point(wallet.scan, ancestor)
  /\ WalletAcceptsPrune(wallet, ancestor)
  /\ LET next == WalletPruned(wallet, ancestor)
     IN /\ wallet_file' = Replaced(outcome, wallet_file, next)
        /\ wallet' = IF outcome = "ok" THEN next ELSE wallet
        /\ pending' = IF outcome = "ok" THEN PruneRecord(wallet.scan, ancestor) ELSE None
  /\ Reported(outcome)
  /\ UNCHANGED <<journal_file, journal>>

(* store_authenticated_delivery_v1: a recipient delivery for an output the *)
(* cursor still retains.                                                   *)
StoreDelivery(id, outcome) ==
  /\ wallet # None
  /\ \E k \in DOMAIN wallet.scan.events : wallet.scan.events[k].event_id = id
  /\ NoteOf(id) \in Mine
  /\ \A n \in wallet.notes : n.event_id # id
  /\ LET next == [wallet EXCEPT !.notes = @ \cup {[event_id |-> id, spent |-> None]}]
     IN /\ WalletFits(next)
        /\ wallet_file' = Replaced(outcome, wallet_file, next)
        /\ wallet' = IF outcome = "ok" THEN next ELSE wallet
  /\ Reported(outcome)
  /\ UNCHANGED <<journal_file, journal, pending>>

(* The second half of a commit; an application that got an error retries.  *)
CommitJournal(outcome) ==
  /\ wallet # None /\ journal # None /\ pending # None
  /\ JournalAccepts(journal, pending)
  /\ LET next == JournalCommitted(journal, pending)
     IN /\ journal_file' = Replaced(outcome, journal_file, Image(next))
        /\ journal' = IF outcome = "ok" THEN next ELSE journal
        /\ pending' = IF outcome = "ok" THEN None ELSE pending
  /\ Reported(outcome)
  /\ UNCHANGED <<wallet_file, wallet>>

Crash ==
  /\ faults < MaxFaults
  /\ wallet # None \/ journal # None
  /\ wallet' = None /\ journal' = None /\ pending' = None
  /\ faults' = faults + 1
  /\ UNCHANGED <<wallet_file, journal_file>>

OpenWallet ==
  /\ wallet = None
  /\ LifecycleAccepted(wallet_file.base, wallet_file.lifecycle)
  /\ wallet' = wallet_file
  /\ UNCHANGED <<wallet_file, journal_file, journal, pending, faults>>

(* open_or_create_v1 of the journal against the wallet's cursor.           *)
OpenJournal ==
  /\ wallet # None /\ journal = None
  /\ validate_against_scan(Opened(journal_file), wallet.scan)
  /\ journal' = Opened(journal_file)
  /\ UNCHANGED <<wallet_file, journal_file, wallet, pending, faults>>

(* The repair of a lagging journal is the caller's (the procedure of       *)
(* tests/v7_scanner_durable_restart.rs): the finalized evidence of the     *)
(* journal's own blocks rebuilds the cursor the journal belongs to; the    *)
(* journal opens against it and the wallet's last step is handed to it     *)
(* again.                                                                  *)
Rebuilt(image) ==
  FoldLeft(LAMBDA scan, block : Ingested(scan, block.point).candidate,
           ScanNew(image.anchor), image.blocks)

MissingStep(scan, behind) ==
  IF scan.anchor # behind.anchor THEN PruneRecord(behind, scan.anchor)
  ELSE Ingested(behind, head(scan))

RepairJournal ==
  /\ wallet # None /\ journal = None
  /\ ~validate_against_scan(Opened(journal_file), wallet.scan)
  /\ LET behind == Rebuilt(journal_file)
     IN /\ validate_against_scan(Opened(journal_file), behind)
        /\ journal' = Opened(journal_file)
        /\ pending' = MissingStep(wallet.scan, behind)
  /\ UNCHANGED <<wallet_file, journal_file, wallet, faults>>

Next ==
  \/ \E b \in Blocks, outcome \in Outcomes :
       \E delivered \in SUBSET {id \in ToSet(EventIds(b)) : IsTransition(Invocation(id))} :
         IngestBlock(b, delivered, outcome)
  \/ \E ancestor \in Points, outcome \in Outcomes : Prune(ancestor, outcome)
  \/ \E b \in Blocks : \E id \in ToSet(EventIds(b)), outcome \in Outcomes :
       StoreDelivery(id, outcome)
  \/ \E outcome \in Outcomes : CommitJournal(outcome)
  \/ Crash
  \/ OpenWallet
  \/ OpenJournal
  \/ RepairJournal

Spec == Init /\ [][Next]_vars

-----------------------------------------------------------------------------
(* Properties.                                                             *)

WalletImages == {wallet_file} \cup ({wallet} \ {None})
Journals == {Opened(journal_file)} \cup ({journal} \ {None})

(* The cursor an uninterrupted scan from the anchor to the head would      *)
(* have.                                                                   *)
PoolAt == [b \in Points |-> [next_leaf_index |-> Len(NotesAt[b]),
                             root |-> ReferenceRoot(NotesAt[b])]]
StraightScan ==
  [anchor \in Points |-> [b \in Points |->
     LET later == SelectSeq(Path[b], LAMBDA p : p \notin ToSet(Path[anchor]))
         appends == FlattenSeq([i \in DOMAIN later |-> AppendEvidence[later[i]]])
     IN [anchor |-> anchor, anchor_at |-> PoolAt[anchor], at |-> PoolAt[b],
         blocks |-> [i \in DOMAIN later |->
                       [point |-> later[i], parent |-> Parent[later[i]],
                        before |-> PoolAt[Parent[later[i]]],
                        events_before |-> Len(EventsOf(SubSeq(later, 1, i - 1)))]],
         events |-> [k \in DOMAIN appends |->
                       [event_id |-> appends[k].event_id, leaf_index |-> appends[k].leaf_index,
                        note |-> appends[k].note, root |-> appends[k].root]]]]]

(* The cursor has no memory of how it got there: after any sequence of     *)
(* ingests, forks, prunes, failed writes and restarts the cursor of the    *)
(* file and of the handle (leaf index, root, every rollback checkpoint and *)
(* every retained event) is the one a straight scan from its anchor to its *)
(* head builds (scan_state.rs).                                            *)
ScanFollowsChain ==
  \A w \in WalletImages : w.scan = StraightScan[w.scan.anchor][head(w.scan)]

(* The wallet's notes are those of the branch it is on: every own deposit  *)
(* up to the head and nothing of an abandoned block; a marker names a      *)
(* spend of that very note on the branch, and a deposited note spent on    *)
(* the branch is marked (commit_finalized_ingest_v1).                      *)
NotesFollowBranch ==
  \A w \in WalletImages :
    LET branch == EventsOf(Path[head(w.scan)])
        own == {id \in ToSet(branch) : NoteOf(id) \in Mine}
        held == {n.event_id : n \in w.notes}
        Deposits(ids) == {id \in ids : IsDeposit(Invocation(id))}
    IN /\ held \subseteq own
       /\ Deposits(own) \subseteq held
       /\ Cardinality(held) = Cardinality(w.notes)
       /\ \A n \in w.notes :
            LET spends == {id \in ToSet(branch) : /\ IsTransition(Invocation(id))
                                                  /\ Invocation(id).spends = NoteOf(n.event_id)}
            IN /\ n.spent # None => n.spent \in spends
               /\ (IsDeposit(Invocation(n.event_id)) /\ spends # {}) => n.spent # None

(* The open plans the wallet reports are the ones prepared and not yet     *)
(* closed on its branch, wherever the prune boundary lies.                 *)
PlansFollowBranch ==
  \A w \in WalletImages :
    LET path == Path[head(w.scan)]
    IN active_prepared_plans(w)
         = ActivePlans({}, FlattenSeq([i \in DOMAIN path |-> PlanLifecycle(path[i])]))

(* The journal follows exactly the wallet's own leaves of its branch, and  *)
(* every path it keeps is the path of that leaf in the tree of all notes   *)
(* of the branch (witness_state.rs).                                       *)
WitnessesFollowBranch ==
  \A j \in Journals :
    LET notes == NotesAt[JournalHead(j)]
        node == ReferenceNode(notes)
        branch == EventsOf(Path[JournalHead(j)])
    IN /\ j.current.tree.root = node[Depth, 0]
       /\ {w.event_id : w \in j.current.tracked} = {id \in ToSet(branch) : NoteOf(id) \in Mine}
       /\ \A w \in j.current.tracked :
            /\ branch[w.leaf_index + 1] = w.event_id
            /\ \A l \in Levels :
                 LET i == w.leaf_index \div 2^l
                 IN w.siblings[l] = node[l, IF i % 2 = 0 THEN i + 1 ELSE i - 1]

(* All that the wallet stores, cursor, notes, open plans and witnesses,    *)
(* describes one branch of the chain, whatever forks, prunes, failed       *)
(* writes and restarts it went through.                                    *)
StoresFollowBranch ==
  /\ ScanFollowsChain
  /\ NotesFollowBranch
  /\ PlansFollowBranch
  /\ WitnessesFollowBranch

(* The journal takes the step, or has no room for what it would become.    *)
TakenIfRoom(j, step) == JournalFits(JournalCommitted(j, step)) => JournalAccepts(j, step)

(* Want of room is the only reason to refuse anything authentic.  Whenever *)
(* the stores are idle, every new block on a retained parent, and the head *)
(* again, passes the scanner, and passes the wallet and the journal unless *)
(* their images would exceed a limit; so does, in the journal, every step  *)
(* the wallet has already committed, first time and after a repair.  A     *)
(* prune through a retained block is never refused by the wallet, for room *)
(* included (commit_finalized_ingest_v1, prune_finalized_history_through). *)
RefusedOnlyForRoom ==
  /\ wallet # None =>
       \A p \in Points : retains_chain_point(wallet.scan, p) => WalletAcceptsPrune(wallet, p)
  /\ Idle =>
       \A b \in Blocks :
         \/ ~retains_chain_point(wallet.scan, Parent[b])
         \/ retains_chain_point(wallet.scan, b) /\ ~IsCurrentReplay(wallet.scan, b)
         \/ /\ IngestAccepted(wallet.scan, b)
            /\ LET r == Ingested(wallet.scan, b)
               IN /\ \/ WalletAccepts(wallet, r, Deliverable(r))
                     \/ ~WalletFits(WalletCommitted(wallet, r, Deliverable(r)))
                  /\ TakenIfRoom(journal, r)
  /\ pending # None => TakenIfRoom(journal, pending)

(* Handing the journal the one step it lacks brings it to the cursor scan. *)
Repairs(j, behind, step, scan) ==
  /\ validate_against_scan(j, behind)
  /\ TakenIfRoom(j, step)
  /\ validate_against_scan(JournalCommitted(j, step), scan)

(* A crash at any moment, between the two files or after a failed write    *)
(* included, is survived while the journal has room: what the files hold   *)
(* then opens again, the journal directly or after it is handed the one    *)
(* step it lacks, and the two agree (docs/research/                        *)
(* v7-wallet-security-close: "retained finalized evidence repairs the      *)
(* witness deterministically before normal restart").                      *)
RestartRecovers ==
  LET scan == wallet_file.scan
      j == Opened(journal_file)
      behind == Rebuilt(journal_file)
  IN /\ LifecycleAccepted(wallet_file.base, wallet_file.lifecycle)
     /\ \/ validate_against_scan(j, scan)
        \/ Repairs(j, behind, MissingStep(scan, behind), scan)

(* What that document says without a condition: a journal that lags can    *)
(* always be handed the step it lacks.  It does not hold at the limits:    *)
(* the wallet file commits first and does not ask for the journal's room.  *)
EveryRestartRecovers ==
  LET behind == Rebuilt(journal_file)
  IN \/ validate_against_scan(Opened(journal_file), wallet_file.scan)
     \/ JournalAccepts(Opened(journal_file), MissingStep(wallet_file.scan, behind))

=============================================================================
