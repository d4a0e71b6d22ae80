----------------------------- MODULE PairForest -----------------------------
(***************************************************************************)
(* The V7 pair forest of programs/aspis-pool: eight lanes, each an append- *)
(* only tree of pair leaves with root-history pages of its own, and        *)
(* immutable checkpoints of all lanes at once.                             *)
(*                                                                         *)
(* A spend is anchored at a checkpoint and proves two things together: the *)
(* note it spends is under the checkpoint's global root, and appending its *)
(* outputs to the live lane of its nullifier gives the afterstate it       *)
(* carries.  Anything appended to that lane in between makes the proof     *)
(* useless.                                                                *)
(*                                                                         *)
(* A handler is one action, as in PoolV1.  A lane is the sequence of its   *)
(* pair leaves (a pair leaf is the tuple of its one or two notes), a lane  *)
(* root the sequence it commits to, and the global root the function from  *)
(* lanes to lane roots.                                                    *)
(***************************************************************************)
EXTENDS PoolNotes, FiniteSets, Functions

CONSTANTS
  Lanes,           \* POOL_V1_PAIR_FOREST_LANE_COUNT of them
  PairCapacity,    \* POOL_V1_PAIR_CAPACITY
  PageCapacity,    \* POOL_V1_ROOT_HISTORY_CAPACITY
  TokenMax,        \* the largest token balance, u64::MAX
  CheckpointMax,   \* the largest next_checkpoint_sequence
  OutputLane,      \* the lane of each nullifier
  DepositLane,     \* the lane of each note's commitment
  ForeignRoots,    \* global roots of other forests
  OutputChoices,   \* the outputs that clients choose from
  Donations        \* amounts that are sent to the vault directly

ASSUME LanesAssumption ==
  /\ PairCapacity \in Nat \ {0}
  /\ PageCapacity \in Nat \ {0, 1}
  /\ TokenMax \in Nat /\ CheckpointMax \in Nat
  /\ OutputLane \in [Serials -> Lanes]
  /\ DepositLane \in [Notes -> Lanes]
  /\ OutputChoices \subseteq OutputLists
  /\ Donations \subseteq Values

VARIABLES
  initialized,  \* the master and every lane have been written
  lanes,        \* the tree of each lane account
  pages,        \* the root-history page accounts of each lane
  master,       \* the master's checkpoint metadata
  checkpoints,  \* the checkpoint accounts, by sequence
  markers,      \* nullifiers whose marker account is written
  vault,        \* token balance of the vault
  selected,     \* the registry selects the request's release for this Pool
  notes         \* history: every note of the forest, in order of creation

vars == <<initialized, lanes, pages, master, checkpoints, markers, vault,
          selected, notes>>

PageNumbers == 0..(PairCapacity \div PageCapacity)
PageOf(seq) == seq \div PageCapacity
SlotOf(seq) == seq % PageCapacity

Absent == [status |-> "Absent", roots |-> <<>>]
Written(roots) == [status |-> "Written", roots |-> roots]

NotesUnder(global_root) ==
  UNION {Range(pair) : pair \in UNION {Range(global_root[l]) : l \in Lanes}}

(***************************************************************************)
(* Lane history.                                                           *)
(***************************************************************************)
RetainedRoot(l, seq, root) ==
  LET page == pages[l][PageOf(seq)]
  IN /\ page.status = "Written"
     /\ SlotOf(seq) < Len(page.roots)
     /\ page.roots[SlotOf(seq) + 1] = root

\* The lane's current page ends with its current root.
validate_lane_current_page(l) ==
  /\ RetainedRoot(l, Len(lanes[l]), lanes[l])
  /\ Len(pages[l][PageOf(Len(lanes[l]))].roots) = SlotOf(Len(lanes[l])) + 1

Rolls(l) == PageOf(Len(lanes[l]) + 1) # PageOf(Len(lanes[l]))

\* The lane has room, and one of the page modes of an append applies: genesis
\* page, same page, rollover.  Where a fresh page is written, its account must
\* be in one of the states `fresh'.
PageAccepted(l, fresh) ==
  /\ Len(lanes[l]) < PairCapacity
  /\ \/ /\ lanes[l] = <<>>
        /\ pages[l][0].status \in fresh
     \/ /\ ~Rolls(l)
        /\ validate_lane_current_page(l)
     \/ /\ Rolls(l)
        /\ validate_lane_current_page(l)
        /\ Len(pages[l][PageOf(Len(lanes[l]))].roots) = PageCapacity
        /\ pages[l][PageOf(Len(lanes[l])) + 1].status \in fresh

\* A deposit creates the page account it needs, or takes one that the Pool
\* owns and that is all zero; a spend only takes the latter.
DepositPage(l) == PageAccepted(l, {"Absent", "Zeroed"})
SpendPage(l) == PageAccepted(l, {"Zeroed"})

PagesAfter(l, root) ==
  LET here == PageOf(Len(lanes[l]))
  IN CASE pages[l][here].status # "Written" ->
            [pages EXCEPT ![l][here] = Written(<<lanes[l], root>>)]
       [] Rolls(l) ->
            [pages EXCEPT ![l][here + 1] = Written(<<root>>)]
       [] OTHER ->
            [pages EXCEPT ![l][here].roots = Append(@, root)]

(***************************************************************************)
(* Initialisation, deposit, checkpoint.                                    *)
(***************************************************************************)
process_pair_forest_initialize ==
  /\ ~initialized
  /\ initialized' = TRUE
  /\ UNCHANGED <<lanes, pages, master, checkpoints, markers, vault, selected, notes>>

\* The pair leaf of a deposit holds its note and an empty second slot.
process_pair_forest_deposit(n) ==
  LET l == DepositLane[n]
      next == Append(lanes[l], <<n>>)
  IN /\ initialized
     /\ n.value > 0
     /\ DepositPage(l)
     /\ vault + n.value <= TokenMax
     /\ lanes' = [lanes EXCEPT ![l] = next]
     /\ pages' = PagesAfter(l, next)
     /\ vault' = vault + n.value
     /\ notes' = Append(notes, n)
     /\ UNCHANGED <<initialized, master, checkpoints, markers, selected>>

LaneSequences == [l \in Lanes |-> Len(lanes[l])]

\* Faulty variant: every lane has to have advanced.
checkpoint_progressed_everywhere(last) ==
  \A l \in Lanes : LaneSequences[l] > last[l]

\* No lane went back and some lane advanced.
checkpoint_progressed(last) ==
  /\ \A l \in Lanes : LaneSequences[l] >= last[l]
  /\ \E l \in Lanes : LaneSequences[l] > last[l]

plan_pair_forest_checkpoint ==
  /\ master.has_checkpoint => checkpoint_progressed(master.last_checkpoint_lane_sequences)
  /\ master.next_checkpoint_sequence < CheckpointMax

process_pair_forest_checkpoint ==
  /\ initialized
  /\ plan_pair_forest_checkpoint
  /\ checkpoints' = Append(checkpoints,
       [checkpoint_sequence |-> master.next_checkpoint_sequence,
        global_root |-> lanes, lane_sequences |-> LaneSequences])
  /\ master' = [has_checkpoint |-> TRUE,
                next_checkpoint_sequence |-> master.next_checkpoint_sequence + 1,
                last_checkpoint_lane_sequences |-> LaneSequences]
  /\ UNCHANGED <<initialized, lanes, pages, markers, vault, selected, notes>>

(***************************************************************************)
(* Terminal spends.                                                        *)
(***************************************************************************)
\* What the trace builders prove of a request and a lane snapshot: a note with
\* this nullifier is under the anchor, it is worth what leaves plus the
\* outputs, none of which is zero, and the afterstate is the snapshot with the
\* output pair appended.
pair_forest_relation(proof) ==
  /\ IF Len(proof.outputs) = 2 THEN proof.amount = 0 ELSE proof.amount > 0
  /\ \A i \in DOMAIN proof.outputs : proof.outputs[i].value > 0
  /\ \E n \in NotesUnder(proof.anchor_root) :
       /\ n.serial = proof.nullifier
       /\ n.value = proof.amount + Total(proof.outputs)
  /\ Len(proof.snapshot) < PairCapacity
  /\ proof.afterstate = Append(proof.snapshot, proof.outputs)

\* Faulty variant: the statement is not rebuilt from the live lane.
verify_statement_own_snapshot(proof) == pair_forest_relation(proof)

\* The verifier rebuilds the statement from the live lane account, so a proof
\* about another snapshot does not verify.
verify_statement(proof) ==
  /\ proof.snapshot = lanes[OutputLane[proof.nullifier]]
  /\ pair_forest_relation(proof)

\* The request names a retained checkpoint by sequence and by global root.
validate_pair_forest_request_accounts(proof) ==
  /\ proof.anchor_sequence < Len(checkpoints)
  /\ checkpoints[proof.anchor_sequence + 1].global_root = proof.anchor_root

\* Faulty variant: the marker account is written whatever it holds.
plan_nullifier_marker_consumption_any(nullifier) == TRUE

plan_nullifier_marker_consumption(nullifier) == nullifier \notin markers

process_pair_forest_terminal(proof) ==
  LET l == OutputLane[proof.nullifier]
  IN /\ initialized
     /\ validate_pair_forest_request_accounts(proof)
     /\ SpendPage(l)
     /\ plan_nullifier_marker_consumption(proof.nullifier)
     /\ proof.amount <= vault
     /\ selected
     /\ verify_statement(proof)
     /\ lanes' = [lanes EXCEPT ![l] = proof.afterstate]
     /\ pages' = PagesAfter(l, proof.afterstate)
     /\ markers' = markers \union {proof.nullifier}
     /\ vault' = vault - proof.amount
     /\ notes' = notes \o proof.outputs
     /\ UNCHANGED <<initialized, master, checkpoints, selected>>

(***************************************************************************)
(* Clients, the registry and the cluster.                                  *)
(***************************************************************************)
\* Anchors a client may have proved against: the checkpoints, the lanes as
\* they are now under the sequence the next checkpoint will have, and foreign
\* roots under any sequence.
Anchors ==
  {<<k - 1, checkpoints[k].global_root>> : k \in DOMAIN checkpoints}
    \union {<<Len(checkpoints), lanes>>}
    \union ((0..Len(checkpoints)) \X ForeignRoots)

\* The proof of a client who knows note n, hands on the notes of outs, takes
\* the rest out, and read the output lane when it had k leaves.
ProofOf(anchor, n, outs, k) ==
  LET snapshot == SubSeq(lanes[OutputLane[n.serial]], 1, k)
  IN [anchor_sequence |-> anchor[1], anchor_root |-> anchor[2],
      nullifier |-> n.serial, amount |-> n.value - Total(outs), outputs |-> outs,
      snapshot |-> snapshot, afterstate |-> Append(snapshot, outs)]

\* The registry selects the release, or is paused, or retires it.
ChangeRegistry ==
  /\ selected' = ~selected
  /\ UNCHANGED <<initialized, lanes, pages, master, checkpoints, markers, vault, notes>>

Donate(v) ==
  /\ initialized
  /\ vault + v <= TokenMax
  /\ vault' = vault + v
  /\ UNCHANGED <<initialized, lanes, pages, master, checkpoints, markers, selected, notes>>

Init ==
  /\ initialized = FALSE
  /\ lanes = [l \in Lanes |-> <<>>]
  /\ pages = [l \in Lanes |-> [p \in PageNumbers |-> Absent]]
  /\ master = [has_checkpoint |-> FALSE, next_checkpoint_sequence |-> 0,
               last_checkpoint_lane_sequences |-> [l \in Lanes |-> 0]]
  /\ checkpoints = <<>>
  /\ markers = {}
  /\ vault = 0
  /\ selected = FALSE
  /\ notes = <<>>

Next ==
  \/ process_pair_forest_initialize
  \/ \E n \in Notes : process_pair_forest_deposit(n)
  \/ process_pair_forest_checkpoint
  \/ \E anchor \in Anchors :
       \E n \in NotesUnder(anchor[2]) :
       \E outs \in {o \in OutputChoices : Total(o) <= n.value} :
         \E k \in 0..Len(lanes[OutputLane[n.serial]]) :
           process_pair_forest_terminal(ProofOf(anchor, n, outs, k))
  \/ ChangeRegistry
  \/ \E v \in Donations : Donate(v)

Spec == Init /\ [][Next]_vars

-----------------------------------------------------------------------------
(***************************************************************************)
(* Properties.                                                             *)
(***************************************************************************)
Ledger == INSTANCE ShieldedLedger WITH spent <- markers, custody <- vault

\* The forest is a shielded ledger: each step deposits one note, spends one
\* note that exists and is unspent for exactly its value, or changes nothing a
\* note holder can see (process_pair_forest_deposit and _terminal).
ImplementsLedger == Ledger!Spec

\* Every checkpoint stays what it was taken to be: its lane roots are the
\* roots its lanes had at its sequences, they are still retained in the lanes'
\* history pages, and each checkpoint is ahead of the one before
\* (process_pair_forest_checkpoint, and the appends that come after it).
CheckpointsCoherent ==
  \A k \in DOMAIN checkpoints :
    LET c == checkpoints[k]
    IN /\ c.checkpoint_sequence = k - 1
       /\ \A l \in Lanes :
            LET seq == c.lane_sequences[l]
            IN /\ seq <= Len(lanes[l])
               /\ c.global_root[l] = SubSeq(lanes[l], 1, seq)
               /\ lanes[l] # <<>> => RetainedRoot(l, seq, c.global_root[l])
       /\ k > 1 => /\ c.lane_sequences # checkpoints[k - 1].lane_sequences
                   /\ \A l \in Lanes :
                        c.lane_sequences[l] >= checkpoints[k - 1].lane_sequences[l]

\* An unspent note can still be spent: it is under the last checkpoint or a
\* checkpoint can be taken that covers it, and the lane of its nullifier
\* accepts the spend, or a deposit after which it does.  Two kinds of note are
\* excepted because the code strands them: a note of value 1, which cannot be
\* split into two non-zero parts, and a note whose output lane is full, or has
\* room for one pair left, on a page only a deposit can open
\* (plan_pair_forest_spend_layout, build_withdrawal_inner).
NoteNeverStranded ==
  \A n \in Range(notes) :
    LET l == OutputLane[n.serial]
    IN /\ n.serial \notin markers
       /\ n.value > 1
       /\ SpendPage(l) \/ Len(lanes[l]) + 1 < PairCapacity
       => /\ SpendPage(l) \/ DepositPage(l)
          /\ \/ /\ master.has_checkpoint
                /\ n \in NotesUnder(checkpoints[Len(checkpoints)].global_root)
             \/ /\ n \in NotesUnder(lanes)
                /\ master.next_checkpoint_sequence < CheckpointMax =>
                     plan_pair_forest_checkpoint
-----------------------------------------------------------------------------
(***************************************************************************)
(* The inductive invariant behind ImplementsLedger and CheckpointsCoherent *)
(***************************************************************************)
Trees == Seq(OutputLists)

TypeOK ==
  /\ initialized \in BOOLEAN /\ selected \in BOOLEAN
  /\ lanes \in [Lanes -> Trees]
  /\ pages \in [Lanes -> [PageNumbers ->
                [status : {"Absent", "Zeroed", "Written"}, roots : Seq(Trees)]]]
  /\ master \in [has_checkpoint : BOOLEAN, next_checkpoint_sequence : Nat,
                 last_checkpoint_lane_sequences : [Lanes -> Nat]]
  /\ checkpoints \in Seq([checkpoint_sequence : Nat, global_root : [Lanes -> Trees],
                          lane_sequences : [Lanes -> Nat]])
  /\ markers \subseteq Serials
  /\ vault \in Nat
  /\ notes \in Seq(Notes)

\* A lane with a leaf retains every root it ever had, the empty one included.
HistoryKept ==
  \A l \in Lanes : lanes[l] # <<>> =>
    \A seq \in 0..Len(lanes[l]) : RetainedRoot(l, seq, SubSeq(lanes[l], 1, seq))

\* A checkpoint is an earlier state of all lanes, and ahead of the one before.
CheckpointsArePast ==
  \A k \in DOMAIN checkpoints :
    LET c == checkpoints[k]
    IN /\ c.checkpoint_sequence = k - 1
       /\ \A l \in Lanes :
            /\ c.lane_sequences[l] <= Len(lanes[l])
            /\ c.global_root[l] = SubSeq(lanes[l], 1, c.lane_sequences[l])
       /\ k > 1 => /\ c.lane_sequences # checkpoints[k - 1].lane_sequences
                   /\ \A l \in Lanes :
                        c.lane_sequences[l] >= checkpoints[k - 1].lane_sequences[l]

\* The master describes the last checkpoint.
MasterFollows ==
  /\ master.next_checkpoint_sequence = Len(checkpoints)
  /\ master.has_checkpoint <=> checkpoints # <<>>
  /\ master.has_checkpoint => master.last_checkpoint_lane_sequences =
                                checkpoints[Len(checkpoints)].lane_sequences

\* What is under the lanes was deposited here or is an output of a spend.
LeavesAreNotes == NotesUnder(lanes) \subseteq Range(notes)

IInv ==
  /\ TypeOK
  /\ HistoryKept
  /\ CheckpointsArePast
  /\ MasterFollows
  /\ LeavesAreNotes

\* Behind NoteNeverStranded: every note is a leaf of a lane, and the page of a
\* lane's current root ends with it, with no written page beyond.
NotesAreLeaves == Range(notes) \subseteq NotesUnder(lanes)

PagesEnd ==
  \A l \in Lanes :
    LET here == PageOf(Len(lanes[l]))
        Unwritten(p) == pages[l][p].status # "Written"
    IN IF lanes[l] = <<>> THEN \A p \in PageNumbers : Unwritten(p)
       ELSE /\ Len(pages[l][here].roots) = SlotOf(Len(lanes[l])) + 1
            /\ \A p \in PageNumbers : p > here => Unwritten(p)

SpendInv == IInv /\ NotesAreLeaves /\ PagesEnd
=============================================================================
