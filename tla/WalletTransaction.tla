-------------------------- MODULE WalletTransaction --------------------------
(***************************************************************************)
(* The authoritative V2 wallet file and its coordinator                    *)
(* (crates/aspis-pool-wallet-v1/src: lane_forest_wallet_txn_v2.rs,         *)
(* durable_state.rs, wallet_v2_runtime.rs, wallet_monotonic_v2.rs).        *)
(*                                                                         *)
(* A finalized operation advances Prepared -> StoresApplied -> Committed   *)
(* in three replacements of one file.  A replacement reserves the next     *)
(* image in the external store, renames a synced temporary file over the   *)
(* target, syncs the directory and commits the reservation.  Any of these  *)
(* may fail, lose its answer or be cut by a crash or a power loss.         *)
(***************************************************************************)
EXTENDS WalletChain, MonotonicStore

CONSTANTS
  Sightings,       \* tentative events a relayer may report
  Faults,          \* kinds of fault that happen
  MaxFaults,       \* bound on the number of faults
  MaxRecords,      \* bound on the records of the file
  MaxGeneration,   \* bound on the generations tentative updates may use
  MaxSeals         \* bound on the fresh nonces drawn to seal notes

ASSUME SightingsAssumption == Sightings \subseteq [block : Nat, pos : Nat, fork : BOOLEAN]

VARIABLES
  disk,      \* image that survives a power loss, None when there is no file
  view,      \* image a process reads: ahead of disk between rename and sync
  backup,    \* an older copy of the file kept outside
  store,     \* the external monotonic store
  wallet,    \* the coordinator handle of the running process
  seals,     \* nonces drawn so far
  shown,     \* the committed log last shown to a reader
  answer,    \* answer to the last replay of a recorded terminal
  faults     \* faults so far

files == <<disk, view, backup>>
vars == <<disk, view, backup, store, wallet, seals, shown, answer, faults>>

Phases == {"Prepared", "StoresApplied", "Committed"}
Tentatives == [block : Nat, pos : Nat, fork : BOOLEAN, confirmed : BOOLEAN]
Records == [op : Operations, phase : Phases,
            before_tentatives : SUBSET Tentatives, after_tentatives : SUBSET Tentatives]
Updates == [kind : {"activate", "prepare", "advance", "observe", "reorg"},
            of : SUBSET (Operations \cup Tentatives)]
Images == [history : Seq(Updates), records : Seq(Records), tentatives : SUBSET Tentatives]
MaybeImages == Images \cup {None}

ASSUME NoneAssumption == None \notin Images

Down == [status |-> "down", image |-> None, step |-> "idle", next |-> None]
Wallets == [status : {"down", "opening", "live", "poisoned"}, image : MaybeImages,
            step : {"idle", "reserved", "renamed", "synced"}, next : MaybeImages]

-----------------------------------------------------------------------------
(* Images.                                                                 *)

InitialImage == [history |-> <<[kind |-> "activate", of |-> {}]>>,
                 records |-> << >>, tentatives |-> {}]

pending_candidate(image) ==
  /\ image # None /\ image.records # << >>
  /\ image.records[Len(image.records)].phase # "Committed"

Operation(image) == [i \in DOMAIN image.records |-> image.records[i].op]

(* The operations of the committed state, the only one readers see.        *)
committed(image) ==
  IF image = None THEN << >>
  ELSE IF pending_candidate(image) THEN SubSeq(Operation(image), 1, Len(image.records) - 1)
  ELSE Operation(image)

SameEvent(o, op) == o.block = op.block /\ o.pos = op.pos

(* Mutant: the sighting of a finalized event stays tentative.              *)
remove_matching_tentative_Kept(ts, op) == ts

(* A tentative sighting of the finalized event is dropped; a sighting of   *)
(* the same transaction in another block is a conflict.                    *)
remove_matching_tentative(ts, op) == {o \in ts : ~SameEvent(o, op)}
TentativeConflict(ts, op) ==
  IF IsTerminal(op) THEN \E o \in ts : SameEvent(o, op) /\ o.fork
                    ELSE \E o \in ts : o.block = op.block /\ ~o.fork

(* The validation every image passes before it is written and when it is   *)
(* read.                                                                   *)
replay_authoritative_image(image) ==
  /\ \A i \in DOMAIN image.records :
       LET r == image.records[i] IN
       /\ Applies(SubSeq(Operation(image), 1, i - 1), r.op)
       /\ ~TentativeConflict(r.before_tentatives, r.op)
       /\ r.after_tentatives = remove_matching_tentative(r.before_tentatives, r.op)
       /\ \/ r.phase = "Committed"
          \/ i = Len(image.records) /\ r.before_tentatives = image.tentatives
  /\ \A o \in image.tentatives :
       \A i \in DOMAIN committed(image) : ~SameEvent(o, committed(image)[i])

-----------------------------------------------------------------------------
(* One replacement of the file.                                            *)

Fault(kind) == /\ kind \in Faults
               /\ faults < MaxFaults
               /\ faults' = faults + 1

Idle == wallet.status = "live" /\ wallet.step = "idle"
Readable == Idle /\ ~pending_candidate(wallet.image)

(* persist_phase_v2 and persist_tentative_v2 up to the reservation of the  *)
(* next image.  A lost answer is an error that leaves the handle usable.   *)
BeginReplace(kind, of, records, tentatives) ==
  LET next == [history |-> Append(wallet.image.history, [kind |-> kind, of |-> of]),
               records |-> records, tentatives |-> tentatives] IN
  /\ replay_authoritative_image(next)
  /\ PrepareOk(store, next)
  /\ store' = Prepare(store, next)
  /\ \/ /\ wallet' = [wallet EXCEPT !.step = "reserved", !.next = next]
        /\ UNCHANGED faults
     \/ Fault("store") /\ UNCHANGED wallet
  /\ answer' = "none"
  /\ UNCHANGED <<disk, view, backup, shown>>

(* What a failed replacement leaves: a poisoned handle, or no handle when  *)
(* the file was being created.                                             *)
Failed == IF wallet.status = "live" THEN [wallet EXCEPT !.status = "poisoned"] ELSE Down

Rename ==
  /\ wallet.step = "reserved" /\ wallet.status \in {"live", "opening"}
  /\ view' = wallet.next
  /\ wallet' = [wallet EXCEPT !.step = "renamed"]
  /\ UNCHANGED <<disk, backup, store, seals, shown, answer, faults>>

SyncDirectory ==
  /\ wallet.step = "renamed" /\ wallet.status \in {"live", "opening"}
  /\ disk' = view
  /\ wallet' = [wallet EXCEPT !.step = "synced"]
  /\ UNCHANGED <<view, backup, store, seals, shown, answer, faults>>

ReplaceFails ==
  /\ wallet.step \in {"reserved", "renamed"} /\ wallet.status \in {"live", "opening"}
  /\ Fault("io")
  /\ wallet' = Failed
  /\ UNCHANGED <<disk, view, backup, store, seals, shown, answer>>

Finished == [status |-> "live", image |-> wallet.next, step |-> "idle", next |-> None]

CommitReservation ==
  /\ wallet.step = "synced" /\ wallet.status \in {"live", "opening"}
  /\ CommitOk(store, wallet.next)
  /\ \/ /\ store' = Commit(store, wallet.next)
        /\ wallet' = Finished
        /\ UNCHANGED faults
     \/ /\ Fault("store")
        /\ store' \in {store, Commit(store, wallet.next)}
        /\ wallet' = Failed
  /\ UNCHANGED <<disk, view, backup, seals, shown, answer>>

-----------------------------------------------------------------------------
(* Opening the file.                                                       *)

(* Mutant: any image whose predecessor chain decodes is accepted.          *)
Reconcilable_Unchecked == store.prepared = None \/ store.prepared # view

(* reconcile_monotonic_v3 accepts the image the store calls current, and   *)
(* the image it has reserved.                                              *)
Reconcilable ==
  \/ store.current = view /\ (store.prepared = None \/ Succeeds(store.prepared, view))
  \/ store.current # view /\ store.prepared = view /\ Succeeds(view, store.current)

reconcile_monotonic ==
  IF store.current # view THEN Commit(store, view)
  ELSE IF store.prepared # None THEN Abort(store, store.prepared) ELSE store

Open ==
  /\ wallet.status = "down" /\ view # None
  /\ Reconcilable
  /\ store' = reconcile_monotonic
  /\ \/ /\ wallet' = [Down EXCEPT !.status = "live", !.image = view]
        /\ UNCHANGED faults
     \/ Fault("store") /\ UNCHANGED wallet
  /\ UNCHANGED <<disk, view, backup, seals, shown, answer>>

(* Without a file the activation image becomes generation 0, which the     *)
(* store accepts only while it has no current commitment.                  *)
Create ==
  /\ wallet.status = "down" /\ view = None
  /\ PrepareOk(store, InitialImage)
  /\ store' = Prepare(store, InitialImage)
  /\ \/ /\ wallet' = [Down EXCEPT !.status = "opening", !.step = "reserved",
                                  !.next = InitialImage]
        /\ UNCHANGED faults
     \/ Fault("store") /\ UNCHANGED wallet
  /\ UNCHANGED <<disk, view, backup, seals, shown, answer>>

-----------------------------------------------------------------------------
(* Operations of the runtime.                                              *)

Log == committed(wallet.image)
Seen == wallet.image.tentatives

BeginRecord(op) ==
  BeginReplace("prepare", {op},
    Append(wallet.image.records,
           [op |-> op, phase |-> "Prepared", before_tentatives |-> Seen,
            after_tentatives |-> remove_matching_tentative(Seen, op)]),
    Seen)

(* validate_terminal_progress_v2: inside the head block at most the        *)
(* terminal after the last recorded one, in any other block the first.     *)
validate_terminal_progress(b, k) ==
  IF b = finalized_head(Log)
  THEN Log # << >> /\ IsTerminal(Log[Len(Log)]) /\ k <= Log[Len(Log)].pos + 1
  ELSE k = 1

MoreRecords == Len(Log) < MaxRecords

Recorded(b, k) == {i \in DOMAIN Log : Log[i].block = b /\ Log[i].pos = k}

(* apply_agreed_finalized_tx_v1_terminal_journal_v2: its note is sealed    *)
(* under a fresh nonce before the coordinator sees the intent.             *)
ApplyTerminal(b, k) ==
  LET delivers == Chain[b][k].delivers
      op == [block |-> b, pos |-> k, seal |-> IF delivers THEN seals + 1 ELSE 0]
  IN /\ Readable
     /\ validate_terminal_progress(b, k)
     /\ b >= finalized_head(Log)
     /\ delivers => seals < MaxSeals
     /\ seals' = IF delivers THEN seals + 1 ELSE seals
     /\ \/ /\ Recorded(b, k) = {}
           /\ Applies(Log, op) /\ MoreRecords
           /\ ~TentativeConflict(Seen, op)
           /\ BeginRecord(op)
        \/ \E i \in Recorded(b, k) :
             /\ answer' = IF Log[i].seal = op.seal THEN "AlreadyPresent" ELSE "EventConflict"
             /\ UNCHANGED <<disk, view, backup, store, wallet, shown, faults>>

(* apply_empty_finalized_block_v2; a replay of a recorded block writes     *)
(* nothing.                                                                *)
ApplyEmpty(b) ==
  LET op == [block |-> b, pos |-> 0, seal |-> 0]
  IN /\ Readable
     /\ Chain[b] = << >> /\ MoreRecords
     /\ Applies(Log, op)
     /\ ~TentativeConflict(Seen, op)
     /\ BeginRecord(op)
     /\ UNCHANGED seals

(* advance_recovery_v2, called until nothing is pending by every apply, by *)
(* start, recover and shutdown.                                            *)
AdvanceRecovery ==
  LET records == wallet.image.records
      last == records[Len(records)]
      target == IF last.phase = "Prepared" THEN "StoresApplied" ELSE "Committed"
  IN /\ Idle
     /\ pending_candidate(wallet.image)
     /\ BeginReplace("advance", {}, [records EXCEPT ![Len(records)].phase = target],
                     IF target = "Committed" THEN last.after_tentatives ELSE Seen)
     /\ UNCHANGED seals

(* observe_tentative_v2: a new sighting, or Unfinalized -> Confirmed.      *)
ObserveTentative(e, conf) ==
  LET o == [block |-> e.block, pos |-> e.pos, fork |-> e.fork, confirmed |-> conf]
      existing == {x \in Seen : SameEvent(x, o)}
  IN /\ Readable
     /\ Len(wallet.image.history) < MaxGeneration
     /\ e.block > finalized_head(Log)
     /\ Recorded(e.block, e.pos) = {}
     /\ \/ existing = {}
        \/ conf /\ existing = {[o EXCEPT !.confirmed = FALSE]}
     /\ BeginReplace("observe", {o}, wallet.image.records, (Seen \ existing) \cup {o})
     /\ UNCHANGED seals

(* reorg_tentative_v2 removes exactly the sighted event.                   *)
ReorgTentative(o) ==
  /\ Readable
  /\ Len(wallet.image.history) < MaxGeneration
  /\ Recorded(o.block, o.pos) = {}
  /\ BeginReplace("reorg", {o}, wallet.image.records, Seen \ {o})
  /\ UNCHANGED seals

(* committed_state_v2: what balance and witness queries read.              *)
Read ==
  /\ Readable
  /\ shown' = Log
  /\ UNCHANGED <<disk, view, backup, store, wallet, seals, answer, faults>>

-----------------------------------------------------------------------------
(* Shutdown and faults.                                                    *)

(* A clean shutdown, or the drop of a poisoned handle.                     *)
Shutdown ==
  /\ Readable \/ wallet.status = "poisoned"
  /\ wallet' = Down
  /\ answer' = "none"
  /\ UNCHANGED <<disk, view, backup, store, seals, shown, faults>>

Crash ==
  /\ wallet.status # "down"
  /\ Fault("crash")
  /\ wallet' = Down
  /\ answer' = "none"
  /\ UNCHANGED <<disk, view, backup, store, seals, shown>>

(* A rename that was not synced may or may not survive.                    *)
PowerLoss ==
  /\ Fault("power")
  /\ wallet' = Down
  /\ answer' = "none"
  /\ \E survivor \in {disk, view} : disk' = survivor /\ view' = survivor
  /\ UNCHANGED <<backup, store, seals, shown>>

(* A copy of the closed file, and its restoration.                         *)
TakeBackup ==
  /\ "restore" \in Faults
  /\ wallet.status = "down" /\ backup = None /\ disk # None
  /\ backup' = disk
  /\ UNCHANGED <<disk, view, store, wallet, seals, shown, answer, faults>>

RestoreBackup ==
  /\ wallet.status = "down" /\ backup # None
  /\ Fault("restore")
  /\ disk' = backup /\ view' = backup
  /\ UNCHANGED <<backup, store, wallet, seals, shown, answer>>

Init ==
  /\ disk = None /\ view = None /\ backup = None
  /\ store = NewStore
  /\ wallet = Down
  /\ seals = 0
  /\ shown = << >>
  /\ answer = "none"
  /\ faults = 0

Apply == \/ \E b \in DOMAIN Chain : \E k \in DOMAIN Chain[b] : ApplyTerminal(b, k)
         \/ \E b \in DOMAIN Chain : ApplyEmpty(b)

Tentative == \/ \E e \in Sightings : \E conf \in BOOLEAN : ObserveTentative(e, conf)
             \/ Readable /\ \E o \in Seen : ReorgTentative(o)

Next ==
  \/ Open \/ Create \/ Apply \/ AdvanceRecovery \/ Tentative \/ Read
  \/ Rename \/ SyncDirectory \/ ReplaceFails \/ CommitReservation
  \/ Shutdown \/ Crash \/ PowerLoss \/ TakeBackup \/ RestoreBackup

(* A wallet that is restarted when its handle is gone, and whose running   *)
(* call goes on: start_v2 recovers before it returns a runtime.            *)
Recover == \/ Open \/ AdvanceRecovery \/ Rename \/ SyncDirectory \/ CommitReservation
           \/ wallet.status = "poisoned" /\ Shutdown

Spec == Init /\ [][Next]_vars
FairSpec == Spec /\ WF_vars(Recover)

-----------------------------------------------------------------------------
(* Properties.                                                             *)

(* Types, and the shape of a running replacement.                          *)
TypeOK ==
  /\ disk \in MaybeImages /\ view \in MaybeImages /\ backup \in MaybeImages
  /\ store \in Stores(MaybeImages)
  /\ wallet \in Wallets
  /\ wallet.status = "opening" => wallet.step # "idle"
  /\ seals \in Nat
  /\ shown \in Seq(Operations)
  /\ answer \in {"none", "AlreadyPresent", "EventConflict"}
  /\ faults \in Nat

IsPrefixOf(s, t) == Len(s) <= Len(t) /\ s = SubSeq(t, 1, Len(s))

(* A reader never sees the wallet go back: across crashes, power losses,   *)
(* lost store answers and restored backups, each committed log that        *)
(* committed_state_v2 hands out extends the one handed out before.         *)
ReadsNeverRollBack == [][IsPrefixOf(shown, shown')]_vars

(* The terminals of a log, and a log with every terminal of a lane that    *)
(* comes before one it has.                                                *)
Ingested(log) == {<<log[i].block, log[i].pos>> : i \in TerminalsOf(log)}
Earlier(p, q) == p[1] < q[1] \/ (p[1] = q[1] /\ p[2] < q[2])
LaneComplete(log) ==
  \A l \in Lanes : \A q \in Ingested(log) \cap OfLane(l) :
    \A p \in OfLane(l) : Earlier(p, q) => p \in Ingested(log)

(* The leaves the wallet has ingested for a lane are the first ones of     *)
(* that lane on the chain, without a hole, whatever terminals the caller   *)
(* left out: a witness built from them has the pool's own leaf positions.  *)
LaneHistoryComplete == LaneComplete(committed(store.current))

(* An operation staged in the file the store vouches for is committed, or  *)
(* the file on disk has become one that the store rejects.                 *)
StagedRollsForward ==
  pending_candidate(store.current)
    ~> (~pending_candidate(store.current) \/ ~Reconcilable)

Ledger == INSTANCE WalletLedger WITH ledger <- committed(store.current)

(* The log of the external store is the log WalletLedger promises.         *)
ImplementsLedger == Ledger!Spec

(* The answer the runtime documents for a repeated terminal: applying it   *)
(* again is harmless.  It does not hold: a retry seals the delivered notes *)
(* under a fresh nonce, so it differs from what is recorded.               *)
RetryIsIdempotent == answer # "EventConflict"

(* The wallet file can always be opened again.  It does not hold, even     *)
(* without restored backups: opening commits the reservation of a renamed  *)
(* file without a sync of the directory, and a power loss then leaves a    *)
(* file older than the store's image.                                      *)
FileAlwaysReconciles ==
  wallet.status = "down" /\ view # None => Reconcilable

(* "New progress must be exactly the next terminal, never a later one"     *)
(* (tx_v1_finalized_rpc_v2.rs): below the head no terminal of the chain is *)
(* missing from the log.  It does not hold: the first terminal of a later  *)
(* block is accepted while terminals of the head block are still missing.  *)
NoTerminalSkipped ==
  LET log == committed(store.current) IN
  \A p \in Positions :
    p[1] < finalized_head(log) =>
      \E i \in DOMAIN log : log[i].block = p[1] /\ log[i].pos = p[2]

-----------------------------------------------------------------------------
(* The inductive invariant behind ImplementsLedger, ReadsNeverRollBack and *)
(* LaneHistoryComplete.                                                    *)

(* An image that was activated, and whose records are on the chain.        *)
Sound(image) ==
  image # None =>
    /\ image.history # << >>
    /\ \A i \in DOMAIN image.records : OnChain(image.records[i].op)

(* b commits what a does, or one operation more.                           *)
Grows(a, b) ==
  \/ committed(b) = committed(a)
  \/ /\ committed(b) # << >>
     /\ LET op == committed(b)[Len(committed(b))] IN
        /\ op \in Operations /\ OnChain(op)
        /\ Applies(committed(a), op)
        /\ committed(b) = Append(committed(a), op)

(* The store never reserves a leap.                                        *)
ReservationGrows ==
  /\ Sound(store.current) /\ Sound(store.prepared)
  /\ store.prepared # None => Grows(store.current, store.prepared)

(* A running handle holds the image the store vouches for.                 *)
HandleIsCurrent ==
  /\ wallet.status = "live" => wallet.image \in Images
  /\ wallet.status \in {"live", "opening"} /\ wallet.step # "idle" => wallet.next \in Images
  /\ Idle => wallet.image = store.current

(* A log in the order of the chain, and what a reader saw of it.           *)
Ordered(log) ==
  \A i, j \in DOMAIN log : i < j =>
    \/ log[i].block < log[j].block
    \/ log[i].block = log[j].block /\ log[i].pos < log[j].pos

ShownIsPast == IsPrefixOf(shown, committed(store.current))

IInv ==
  /\ TypeOK
  /\ ReservationGrows
  /\ HandleIsCurrent
  /\ ShownIsPast
  /\ Ordered(committed(store.current))

(* The committed log is made of operations of the chain, without a hole.   *)
LogSound ==
  /\ \A i \in DOMAIN committed(store.current) : OnChain(committed(store.current)[i])
  /\ LaneHistoryComplete

=============================================================================
