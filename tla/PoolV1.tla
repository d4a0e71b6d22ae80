------------------------------- MODULE PoolV1 -------------------------------
(***************************************************************************)
(* The state and custody kernel of one Pool: programs/aspis-pool.          *)
(*                                                                         *)
(* A Solana instruction is atomic and holds the accounts it writes, so one *)
(* handler is one action, and an error leaves everything as it was.        *)
(*                                                                         *)
(* The Merkle tree is the sequence of its leaves, and a root is the leaf   *)
(* sequence it commits to (hashes do not collide); next_leaf_index, which  *)
(* is also the root sequence, is Len(leaves).  The digest of an account    *)
(* image is the image.  A proof is accepted exactly when the payment       *)
(* relation holds.                                                         *)
(*                                                                         *)
(* The registry and the receipts belong to other programs: here the set of *)
(* releases that authenticate_verifier_selection accepts changes at will,  *)
(* and so do the verified authorization receipts.                          *)
(***************************************************************************)
EXTENDS PoolNotes, FiniteSets, Functions

CONSTANTS
  LeafCapacity,   \* POOL_V1_LEAF_CAPACITY
  PageCapacity,   \* POOL_V1_ROOT_HISTORY_CAPACITY
  TokenMax,       \* the largest token balance, u64::MAX
  SlotMax,        \* bound: the last slot
  Releases,       \* verifier releases of the pool's profile
  Proofs,         \* proof accounts
  Payers,         \* keys that prepare, settle and cancel plans
  ForgedRoots,    \* roots of trees that need not be the Pool's
  OutputChoices,  \* the outputs that clients choose from
  Donations,      \* amounts that are sent to the vault directly
  ReceiptLimit,   \* bound: verified receipts that exist at a time
  PlanLimit       \* bound: prepared plans that exist at a time

ASSUME CapacityAssumption == LeafCapacity \in Nat \ {0}
\* The code's is 256; two appended roots never touch more than two pages.
ASSUME PageAssumption == PageCapacity \in Nat \ {0, 1}
ASSUME BoundAssumption ==
  /\ TokenMax \in Nat /\ SlotMax \in Nat
  /\ ReceiptLimit \in Nat /\ PlanLimit \in Nat
ASSUME DonationAssumption == Donations \subseteq Values
ASSUME OutputAssumption == OutputChoices \subseteq OutputLists
ASSUME RootAssumption == ForgedRoots \subseteq Seq(Notes)

VARIABLES
  initialized, \* the Pool's state account has been written
  leaves,      \* the tree of the state account
  pages,       \* the root-history page accounts
  markers,     \* nullifiers whose marker account is written
  vault,       \* token balance of the vault
  plans,       \* prepared-settlement plan accounts (core and rollover shard)
  receipts,    \* verified authorization receipts
  active,      \* releases that authenticate_verifier_selection accepts
  slot         \* Clock::slot

vars == <<initialized, leaves, pages, markers, vault, plans, receipts, active, slot>>
ledger == <<leaves, pages, markers, vault>>

Slots == 0..SlotMax
Roots == Seq(Notes)
PageNumbers == 0..(LeafCapacity \div PageCapacity)

\* An absent page is an empty System account; a zeroed one is owned by the
\* Pool and not yet written.
Absent == [status |-> "Absent", roots |-> <<>>]
Zeroed == [status |-> "Zeroed", roots |-> <<>>]
Written(roots) == [status |-> "Written", roots |-> roots]
Pages == [status: {"Absent", "Zeroed", "Written"}, roots: Seq(Roots)]

\* The public inputs of a spend.  The kind is the number of outputs: two for a
\* private transfer, one (and an amount) for a withdrawal.
Statements ==
  [anchor_sequence: 0..LeafCapacity, anchor_root: Roots, nullifier: Serials,
   amount: Values, outputs: OutputLists]

Receipts == [statement: Statements, release: Releases, proof: Proofs,
             verified_slot: Slots]

Plans ==
  [receipt: Receipts, authority: Payers, not_before: Slots, expires_at: Slots,
   source_pool: Roots, source_page: Pages, next_pool: Roots,
   next_page: Pages, next_rollover: Pages]

IsTransfer(st) == Len(st.outputs) = 2

(***************************************************************************)
(* The payment relation and what a client can have proved.                 *)
(***************************************************************************)
\* evaluate_pool_v1_private_transfer and evaluate_pool_v1_withdrawal: the
\* prover knows a note under the anchor root with this nullifier, whose value
\* is what leaves plus what is kept.
evaluate_relation(st) ==
  /\ IF IsTransfer(st) THEN st.amount = 0 ELSE st.amount \in Values \ {0}
  /\ \E n \in Range(st.anchor_root) :
       /\ n.serial = st.nullifier
       /\ n.value = st.amount + Total(st.outputs)

\* Anchors a client may name: a root of the Pool at its sequence, or any
\* sequence with the root of some other tree.
Anchors ==
  {<<i, SubSeq(leaves, 1, i)>> : i \in 0..Len(leaves)}
    \union ((0..LeafCapacity) \X ForgedRoots)

\* The statement a client proves who knows note n, keeps or hands on the notes
\* of outs, and takes the rest out.
StatementOf(anchor, n, outs) ==
  [anchor_sequence |-> anchor[1], anchor_root |-> anchor[2],
   nullifier |-> n.serial, amount |-> n.value - Total(outs), outputs |-> outs]

(***************************************************************************)
(* Root history.                                                           *)
(***************************************************************************)
root_history_location(seq) ==
  [page_number |-> seq \div PageCapacity, slot |-> seq % PageCapacity]

PageOf(seq) == root_history_location(seq).page_number

CurrentPage == pages[PageOf(Len(leaves))]

\* read_retained_root: the page is written and filled beyond the slot.
RetainedRoot(seq, root) ==
  LET at == root_history_location(seq)
      page == pages[at.page_number]
  IN /\ page.status = "Written"
     /\ at.slot < Len(page.roots)
     /\ page.roots[at.slot + 1] = root

\* Faulty variant: any retained root will do, whatever its sequence and value.
authenticate_historical_anchor_unbound(st) ==
  st.anchor_sequence <= Len(leaves)

authenticate_historical_anchor(st) ==
  /\ st.anchor_sequence <= Len(leaves)
  /\ RetainedRoot(st.anchor_sequence, st.anchor_root)

\* The current page ends with the current root.
validate_current_history ==
  /\ RetainedRoot(Len(leaves), leaves)
  /\ Len(CurrentPage.roots) =
       root_history_location(Len(leaves)).slot + 1

\* Faulty variant: a page that exists is not fresh.
plan_fresh_page_absent(p) == pages[p].status = "Absent"

\* plan_fresh_program_pda: absent, or owned by the Pool and all zero.
plan_fresh_page(p) == pages[p].status # "Written"

require_spend_capacity(count) == Len(leaves) + count <= LeafCapacity

Rolls(count) == PageOf(Len(leaves) + count) > PageOf(Len(leaves))

\* Checks shared by every append of `count' leaves.
AppendAllowed(count) ==
  /\ initialized
  /\ require_spend_capacity(count)
  /\ PageOf(Len(leaves) + count) <= PageOf(Len(leaves)) + 1
  /\ validate_current_history
  /\ Rolls(count) => plan_fresh_page(PageOf(Len(leaves)) + 1)

\* The roots after each of the leaves of outs is appended to lvs.
AppendedRoots(lvs, outs) == [i \in 1..Len(outs) |-> lvs \o SubSeq(outs, 1, i)]

\* How many of the `count' new roots still fit the current page.
RootsInCurrent(lvs, count) ==
  IF PageOf(Len(lvs) + 1) # PageOf(Len(lvs)) THEN 0
  ELSE IF PageOf(Len(lvs) + count) # PageOf(Len(lvs)) THEN 1 ELSE count

\* The current page, and the rollover page if there is one, after the append.
CurrentPageAfter(lvs, page, outs) ==
  Written(page.roots
            \o SubSeq(AppendedRoots(lvs, outs), 1, RootsInCurrent(lvs, Len(outs))))

RolloverPageAfter(lvs, outs) ==
  IF RootsInCurrent(lvs, Len(outs)) = Len(outs) THEN Absent
  ELSE Written(SubSeq(AppendedRoots(lvs, outs),
                      RootsInCurrent(lvs, Len(outs)) + 1, Len(outs)))

\* Writes the current page and, on rollover, the next one.
PagesWith(current, rollover) ==
  [p \in PageNumbers |->
     IF p = PageOf(Len(leaves)) THEN current
     ELSE IF p = PageOf(Len(leaves)) + 1 /\ rollover # Absent THEN rollover
     ELSE pages[p]]

ApplyAppend(outs) ==
  /\ AppendAllowed(Len(outs))
  /\ leaves' = leaves \o outs
  /\ pages' = PagesWith(CurrentPageAfter(leaves, CurrentPage, outs),
                       RolloverPageAfter(leaves, outs))

(***************************************************************************)
(* Initialisation and deposit.                                             *)
(***************************************************************************)
process_initialize ==
  /\ ~initialized
  /\ plan_fresh_page(0)
  /\ initialized' = TRUE
  /\ pages' = [pages EXCEPT ![0] = Written(<< <<>> >>)]
  /\ UNCHANGED <<leaves, markers, vault, plans, receipts, active, slot>>

\* The transfer into the vault must not overflow its balance, nor the transfer
\* out of it exceed the balance.
plan_deposit_transfer(amount) == vault + amount <= TokenMax

plan_withdrawal_transfer(amount) == amount <= vault

\* The commitment is computed on chain, so the note has the deposited amount.
process_deposit(n) ==
  /\ n.value > 0
  /\ plan_deposit_transfer(n.value)
  /\ ApplyAppend(<<n>>)
  /\ vault' = vault + n.value
  /\ UNCHANGED <<initialized, markers, plans, receipts, active, slot>>

(***************************************************************************)
(* Direct spends: the selected verifier is called in the same instruction. *)
(***************************************************************************)
\* Faulty variant: the marker account is written whatever it holds.
plan_nullifier_marker_consumption_any(nullifier) == TRUE

plan_nullifier_marker_consumption(nullifier) == nullifier \notin markers

\* Faulty variant: the registry's pause and the entry's status are not read.
authenticate_verifier_selection_stale(release) == release \in Releases

authenticate_verifier_selection(release) == release \in active

DirectSpend(st, release) ==
  /\ evaluate_relation(st)
  /\ authenticate_verifier_selection(release)
  /\ authenticate_historical_anchor(st)
  /\ plan_nullifier_marker_consumption(st.nullifier)
  /\ ApplyAppend(st.outputs)
  /\ markers' = markers \union {st.nullifier}
  /\ UNCHANGED <<initialized, plans, receipts, active, slot>>

process_private_transfer(st, release) ==
  /\ IsTransfer(st)
  /\ DirectSpend(st, release)
  /\ UNCHANGED vault

process_withdrawal(st, release) ==
  /\ ~IsTransfer(st)
  /\ plan_withdrawal_transfer(st.amount)
  /\ DirectSpend(st, release)
  /\ vault' = vault - st.amount

(***************************************************************************)
(* Prepared settlement.  Preparing computes the images of the accounts     *)
(* after the spend and stores them in a plan; settling writes them.        *)
(***************************************************************************)
\* The receipt account exists, is verified, and was not verified in the future.
authenticate_statement_and_receipt(receipt) ==
  /\ receipt \in receipts
  /\ receipt.verified_slot <= slot

\* The append fits the tree and touches at most the current and the next page.
plan_settle_prepared_layout(count) ==
  /\ require_spend_capacity(count)
  /\ PageOf(Len(leaves) + count) <= PageOf(Len(leaves)) + 1

\* The plan's address: statement, source sequence and authority.
SamePlanAddress(p, receipt, authority) ==
  /\ p.receipt.statement = receipt.statement
  /\ p.receipt.release = receipt.release
  /\ Len(p.source_pool) = Len(leaves)
  /\ p.authority = authority

\* The plan holds the images of the accounts before and after the append.
build_prepared_settlement_plan(receipt, authority, not_before, expires_at) ==
  LET outs == receipt.statement.outputs
  IN [receipt |-> receipt, authority |-> authority,
      not_before |-> not_before, expires_at |-> expires_at,
      source_pool |-> leaves, source_page |-> CurrentPage,
      next_pool |-> leaves \o outs,
      next_page |-> CurrentPageAfter(leaves, CurrentPage, outs),
      next_rollover |-> RolloverPageAfter(leaves, outs)]

process_prepare_settlement(receipt, authority, not_before, expires_at) ==
  LET st == receipt.statement
      count == Len(st.outputs)
      next == PageOf(Len(leaves)) + 1
  IN /\ Cardinality(plans) < PlanLimit
     /\ authenticate_statement_and_receipt(receipt)
     /\ authenticate_verifier_selection(receipt.release)
     /\ not_before <= expires_at
     /\ slot <= expires_at
     /\ not_before >= receipt.verified_slot
     /\ authenticate_historical_anchor(st)
     /\ AppendAllowed(count)
     /\ \A p \in plans : ~SamePlanAddress(p, receipt, authority)
     /\ plans' = plans \union
          {build_prepared_settlement_plan(receipt, authority, not_before, expires_at)}
     /\ pages' = IF Rolls(count) THEN [pages EXCEPT ![next] = Zeroed] ELSE pages
     /\ UNCHANGED <<initialized, leaves, markers, vault, receipts, active, slot>>

process_cancel_prepared_settlement(plan) ==
  /\ plan \in plans
  /\ plans' = plans \ {plan}
  /\ UNCHANGED <<initialized, receipts, active, slot>> /\ UNCHANGED ledger

\* Faulty variants: the source images are not compared with the live accounts;
\* an expired plan still applies.
apply_prepared_settlement_plan_blind(plan) ==
  /\ plan.not_before <= slot
  /\ slot <= plan.expires_at

apply_prepared_settlement_plan_expired(plan) ==
  /\ plan.not_before <= slot
  /\ plan.source_pool = leaves
  /\ plan.source_page = CurrentPage
  /\ plan.next_rollover # Absent => pages[PageOf(Len(leaves)) + 1] = Zeroed

\* The live accounts are the ones the plan was computed from.
apply_prepared_settlement_plan(plan) ==
  /\ plan.not_before <= slot
  /\ slot <= plan.expires_at
  /\ plan.source_pool = leaves
  /\ plan.source_page = CurrentPage
  /\ plan.next_rollover # Absent => pages[PageOf(Len(leaves)) + 1] = Zeroed

process_settle_prepared(plan) ==
  LET st == plan.receipt.statement
      count == Len(st.outputs)
  IN /\ plan \in plans
     /\ initialized
     /\ plan_settle_prepared_layout(count)
     /\ authenticate_statement_and_receipt(plan.receipt)
     /\ authenticate_verifier_selection(plan.receipt.release)
     /\ plan_nullifier_marker_consumption(st.nullifier)
     /\ apply_prepared_settlement_plan(plan)
     /\ plan_withdrawal_transfer(st.amount)
     /\ leaves' = plan.next_pool
     /\ pages' = PagesWith(IF RootsInCurrent(leaves, count) # 0 THEN plan.next_page
                           ELSE CurrentPage,
                           plan.next_rollover)
     /\ markers' = markers \union {st.nullifier}
     /\ vault' = vault - st.amount
     /\ plans' = plans \ {plan}
     /\ UNCHANGED <<initialized, receipts, active, slot>>

(***************************************************************************)
(* The other programs and the cluster.                                     *)
(***************************************************************************)
\* Tag 75: a proof of the statement is verified and the receipt says when.
\* One receipt account per statement, release and proof.
FinalizeReceipt(st, release, proof) ==
  /\ Cardinality(receipts) < ReceiptLimit
  /\ evaluate_relation(st)
  /\ ~ \E r \in receipts :
         r.statement = st /\ r.release = release /\ r.proof = proof
  /\ receipts' = receipts \union
       {[statement |-> st, release |-> release, proof |-> proof,
         verified_slot |-> slot]}
  /\ UNCHANGED <<initialized, plans, active, slot>> /\ UNCHANGED ledger

CloseReceipt(r) ==
  /\ r \in receipts
  /\ receipts' = receipts \ {r}
  /\ UNCHANGED <<initialized, plans, active, slot>> /\ UNCHANGED ledger

\* The registry is paused or unpaused, releases are activated and retired.
ChangeRegistry(releases) ==
  /\ releases # active
  /\ active' = releases
  /\ UNCHANGED <<initialized, plans, receipts, slot>> /\ UNCHANGED ledger

\* Anybody may send tokens to the vault's address.
Donate(v) ==
  /\ initialized
  /\ vault + v <= TokenMax
  /\ vault' = vault + v
  /\ UNCHANGED <<initialized, leaves, pages, markers, plans, receipts, active, slot>>

AdvanceSlot ==
  /\ slot < SlotMax
  /\ slot' = slot + 1
  /\ UNCHANGED <<initialized, plans, receipts, active>> /\ UNCHANGED ledger

Init ==
  /\ initialized = FALSE
  /\ leaves = <<>>
  /\ pages = [p \in PageNumbers |-> Absent]
  /\ markers = {}
  /\ vault = 0
  /\ plans = {}
  /\ receipts = {}
  /\ active = {}
  /\ slot = 0

Next ==
  \/ process_initialize
  \/ \E n \in Notes : process_deposit(n)
  \/ \E anchor \in Anchors :
       \E n \in Range(anchor[2]), outs \in OutputChoices :
         /\ evaluate_relation(StatementOf(anchor, n, outs))
         /\ \E r \in Releases :
              \/ process_private_transfer(StatementOf(anchor, n, outs), r)
              \/ process_withdrawal(StatementOf(anchor, n, outs), r)
              \/ \E p \in Proofs :
                   FinalizeReceipt(StatementOf(anchor, n, outs), r, p)
  \/ \E r \in receipts, a \in Payers, nb, ex \in Slots :
       process_prepare_settlement(r, a, nb, ex)
  \/ \E p \in plans :
       process_cancel_prepared_settlement(p) \/ process_settle_prepared(p)
  \/ \E r \in receipts : CloseReceipt(r)
  \/ \E R \in SUBSET Releases : ChangeRegistry(R)
  \/ \E v \in Donations : Donate(v)
  \/ AdvanceSlot

Spec == Init /\ [][Next]_vars

-----------------------------------------------------------------------------
(***************************************************************************)
(* Properties.                                                             *)
(***************************************************************************)
TypeOK ==
  /\ initialized \in BOOLEAN
  /\ leaves \in Roots
  /\ pages \in [PageNumbers -> Pages]
  /\ markers \in SUBSET Serials
  /\ vault \in 0..TokenMax
  /\ plans \in SUBSET Plans
  /\ receipts \in SUBSET Receipts
  /\ active \in SUBSET Releases
  /\ slot \in Slots

\* Every root the Pool ever had is retained at its own sequence, on every page
\* and across every page boundary, and no page says more: sequence s is on
\* page s / capacity in slot s % capacity and is the root of the first s
\* leaves, so an anchor of any age authenticates exactly the tree it names.
EveryRootRetained ==
  initialized =>
    /\ \A s \in 0..Len(leaves) : RetainedRoot(s, SubSeq(leaves, 1, s))
    /\ \A p \in PageNumbers :
         pages[p].status = "Written" =>
           /\ p <= PageOf(Len(leaves))
           /\ p * PageCapacity + Len(pages[p].roots) <= Len(leaves) + 1

\* A page left zeroed by a plan that was cancelled, or that became stale, never
\* blocks the Pool: while a leaf is free somebody can deposit.
DepositNeverBlocked ==
  initialized /\ Len(leaves) < LeafCapacity => AppendAllowed(1)

\* A note can be taken out as long as one leaf is free and a release is
\* active: under the root of any sequence since the note was appended, however
\* many pages ago, and whatever pages cancelled plans have left behind.
NoteNeverStranded ==
  initialized /\ Len(leaves) < LeafCapacity =>
    \A i \in 0..Len(leaves) : \A n \in Range(SubSeq(leaves, 1, i)) :
      n.value > 0 /\ n.serial \notin markers =>
        \A r \in active, s \in Serials :
          ENABLED process_withdrawal(
            StatementOf(<<i, SubSeq(leaves, 1, i)>>, n,
                        <<[serial |-> s, value |-> 0]>>), r)

\* A plan that cannot be settled any more: it has expired, the tree has moved
\* on, or its nullifier is consumed.
Dead(p) ==
  \/ slot > p.expires_at
  \/ p.source_pool # leaves
  \/ p.receipt.statement.nullifier \in markers

\* A dead plan stays dead for as long as its accounts exist, and consuming it
\* touches nothing else: of two plans for one source state, or two plans for
\* one note, at most one ever settles, and what cancelling removes was never
\* applied.
DeadPlansNeverSettle ==
  [][\A p \in plans : Dead(p) =>
       IF p \in plans' THEN Dead(p)' ELSE UNCHANGED ledger]_vars

\* While nothing is active (the registry is paused), no nullifier is consumed,
\* nothing leaves the vault, and only deposits append: plans prepared before
\* the pause cannot settle during it.
PauseStopsSpending ==
  [][active = {} => /\ markers' = markers
                    /\ vault' >= vault
                    /\ Len(leaves') <= Len(leaves) + 1]_vars

-----------------------------------------------------------------------------
(***************************************************************************)
(* The inductive invariant.                                                *)
(***************************************************************************)
\* Before initialisation there is nothing.
NothingBeforeInitialization ==
  ~initialized => /\ leaves = <<>>
                  /\ pages = [p \in PageNumbers |-> Absent]
                  /\ plans = {}

\* What the p-th page holds when the tree is lvs: the roots of its sequences
\* as far as there are any, and nothing before its first sequence.
PageIsExact(lvs, page, p) ==
  IF p * PageCapacity <= Len(lvs)
  THEN /\ page.status = "Written"
       /\ Len(page.roots) = IF p = PageOf(Len(lvs))
                            THEN root_history_location(Len(lvs)).slot + 1
                            ELSE PageCapacity
       /\ \A i \in 1..Len(page.roots) :
            page.roots[i] = SubSeq(lvs, 1, p * PageCapacity + i - 1)
  ELSE page \in {Absent, Zeroed}

PagesAreExact ==
  initialized =>
    /\ Len(leaves) <= LeafCapacity
    /\ \A p \in PageNumbers : PageIsExact(leaves, pages[p], p)

ReceiptsAreProved == \A r \in receipts : evaluate_relation(r.statement)

\* A plan is the append it was prepared for, from a state the tree lvs went
\* through, for a note of that state.
PlanIsExact(lvs, p) ==
  LET st == p.receipt.statement
  IN /\ evaluate_relation(st)
     /\ st.anchor_sequence <= Len(p.source_pool)
     /\ st.anchor_root = SubSeq(p.source_pool, 1, st.anchor_sequence)
     /\ Len(p.source_pool) <= Len(lvs)
     /\ p.source_pool = SubSeq(lvs, 1, Len(p.source_pool))
     /\ p.next_pool = p.source_pool \o st.outputs
     /\ p.next_page = CurrentPageAfter(p.source_pool, p.source_page, st.outputs)
     /\ p.next_rollover = RolloverPageAfter(p.source_pool, st.outputs)

PlansAreExact == \A p \in plans : PlanIsExact(leaves, p)

IInv ==
  /\ TypeOK
  /\ NothingBeforeInitialization
  /\ PagesAreExact
  /\ ReceiptsAreProved
  /\ PlansAreExact
=============================================================================
