--------------------------- MODULE WalletMigration ---------------------------
(***************************************************************************)
(* The one-way handoff of the legacy wallet stores to the V2 wallet file   *)
(* (crates/aspis-pool-wallet-v1/src: wallet_store_migration_v2.rs,         *)
(* wallet_populated_migration_v2.rs, durable_state.rs and the legacy       *)
(* stores' constructors).                                                  *)
(*                                                                         *)
(* Legacy stores and the target live in one directory with the authority   *)
(* journal.  Every replacement renames a synced file and then syncs the    *)
(* directory; a power loss keeps the renames up to some point since the    *)
(* last sync (renames of one directory reach the disk in order).           *)
(*                                                                         *)
(* A wallet that has a history of prepared plans is refused                *)
(* (PreparedPlanHistory) and never migrated; the model is of the others.   *)
(***************************************************************************)
EXTENDS MonotonicStore

CONSTANTS
  Cursors,       \* stores that hold a scan cursor: wallet, witness, lane forest
  Journals,      \* stores that must be quiescent: admission, execution
  Faults,        \* kinds of fault that happen
  MaxFaults,     \* bound on the number of faults
  MaxVersion,    \* bound on the versions of a legacy store
  MaxGeneration  \* bound on the generations of the target

Roles == Cursors \cup Journals

VARIABLES
  fsys,      \* directory states since the last sync: durable first, visible last
  handle,    \* legacy store handles of the user's processes and the migrator
  migrator,  \* the migration process: its step and whether it has renamed
  seen,      \* the target image a recovery of a finished handoff has read
  runtime,   \* the V2 wallet, which holds the target's lock unless "down"
  receipt,   \* the operator has a LegacyRetired receipt
  store,     \* the external monotonic store
  acked,     \* the latest version each legacy store reported as written
  faults     \* faults so far

vars == <<fsys, handle, migrator, seen, runtime, receipt, store, acked, faults>>

Phase == [none |-> 0, Prepared |-> 1, TargetInstalled |-> 2,
          OwnershipCommitted |-> 3, LegacyRetired |-> 4]
Snapshots == [Roles -> 0..MaxVersion]
JournalFiles == [phase : 1..4, plan : Snapshots] \cup {None}
Images == [history : Seq([of : Snapshots])] \cup {None}
Sources == [version : 0..MaxVersion, quiescent : BOOLEAN, retired_by : Snapshots \cup {None}]
Directories == [journal : JournalFiles, target : Images, src : [Roles -> Sources]]
Clients == {"user", "migrator"}

ASSUME MigrationAssumption ==
  /\ MaxVersion \in Nat /\ MaxFaults \in Nat /\ MaxGeneration \in Nat
  /\ None \notin Snapshots
  /\ None \notin [phase : 1..4, plan : Snapshots]
  /\ None \notin [history : Seq([of : Snapshots])]

visible == fsys[Len(fsys)]
durable == fsys[1]
journal == visible.journal

(* The protected genesis image of a plan: the plan names every source      *)
(* image exactly, and the target is computed from them.                    *)
Genesis(plan) == [history |-> <<[of |-> plan]>>]

-----------------------------------------------------------------------------
(* Directory operations.                                                   *)

Fault(kind) == /\ kind \in Faults
               /\ faults < MaxFaults
               /\ faults' = faults + 1

RenameTo(dir) == fsys' = Append(fsys, dir)
SyncDirectory == fsys' = <<visible>>

-----------------------------------------------------------------------------
(* Legacy stores.                                                          *)

(* No live handle of any kind holds the lock of source r.                  *)
SourceUnlocked(r) ==
  /\ \A c \in Clients : handle[c][r] \in {"closed", "checked"}
  /\ migrator.step # "guard"

(* The journal's own lock is held by the migrator from open_or_prepare or  *)
(* open_existing until its handle is dropped.                              *)
AuthorityUnlocked == migrator.step = "down"

(* check_legacy_wallet_store_writer_allowed_v2.                            *)
LegacyWriterAllowed == AuthorityUnlocked /\ journal = None

SetHandle(c, r, h) == handle' = [handle EXCEPT ![c][r] = h]

(* A legacy constructor: the authority is checked, the lock acquired, and  *)
(* the authority checked again before the store is read.  The migrator     *)
(* opens the stores one after the other.                                   *)
CheckAuthority(c, r) ==
  /\ handle[c][r] = "closed" /\ LegacyWriterAllowed
  /\ c = "migrator" => \A s \in Roles : handle[c][s] \in {"closed", "open"}
  /\ SetHandle(c, r, "checked")
  /\ UNCHANGED <<fsys, migrator, runtime, receipt, store, acked, faults, seen>>

AcquireSource(c, r) ==
  /\ handle[c][r] = "checked"
  /\ SetHandle(c, r, IF SourceUnlocked(r) THEN "locked" ELSE "closed")
  /\ UNCHANGED <<fsys, migrator, runtime, receipt, store, acked, faults, seen>>

RecheckAuthority(c, r) ==
  /\ handle[c][r] = "locked"
  /\ SetHandle(c, r, IF LegacyWriterAllowed THEN "open" ELSE "closed")
  /\ UNCHANGED <<fsys, migrator, runtime, receipt, store, acked, faults, seen>>

CloseSource(c, r) ==
  /\ handle[c][r] = "open"
  /\ SetHandle(c, r, "closed")
  /\ UNCHANGED <<fsys, migrator, runtime, receipt, store, acked, faults, seen>>

(* A legacy store persists an update: rename, then sync and report.        *)
LegacyRename(r) ==
  /\ handle["user"][r] = "open"
  /\ visible.src[r].version < MaxVersion
  /\ \E q \in BOOLEAN :
       /\ r \in Cursors => q
       /\ RenameTo([visible EXCEPT !.src[r].version = @ + 1, !.src[r].quiescent = q])
  /\ SetHandle("user", r, "renamed")
  /\ UNCHANGED <<migrator, runtime, receipt, store, acked, faults, seen>>

(* Mutant: the update is reported without a sync of the directory.         *)
LegacySync_Unsynced(r) ==
  /\ handle["user"][r] = "renamed"
  /\ acked' = [acked EXCEPT ![r] = visible.src[r].version]
  /\ SetHandle("user", r, "open")
  /\ UNCHANGED <<fsys, migrator, runtime, receipt, store, faults, seen>>

LegacySync(r) ==
  /\ handle["user"][r] = "renamed"
  /\ SyncDirectory
  /\ acked' = [acked EXCEPT ![r] = visible.src[r].version]
  /\ SetHandle("user", r, "open")
  /\ UNCHANGED <<migrator, runtime, receipt, store, faults, seen>>

(* The sync fails: the update is reported as failed and the legacy handle  *)
(* stays in use.                                                           *)
LegacySyncFails(r) ==
  /\ handle["user"][r] = "renamed"
  /\ Fault("io")
  /\ SetHandle("user", r, "open")
  /\ UNCHANGED <<fsys, migrator, runtime, receipt, store, acked, seen>>

-----------------------------------------------------------------------------
(* The migration.                                                          *)

Step(s) == migrator' = [step |-> s, renamed |-> FALSE]

Quiescent(src) == \A r \in Journals : src[r].quiescent
OneCursor(src) == \A r, s \in Cursors : src[r].version = src[s].version

(* migrate_locked_legacy_wallet_to_asl2_v2 up to the Prepared journal: the *)
(* stores are validated and captured while all their locks are held.       *)
MigrateLocked ==
  /\ \A r \in Roles : handle["migrator"][r] = "open"
  /\ LegacyWriterAllowed
  /\ Quiescent(visible.src) /\ OneCursor(visible.src)
  /\ Step("prepare")
  /\ UNCHANGED <<fsys, handle, runtime, receipt, store, acked, faults, seen>>

(* Mutant: recovery undoes a handoff that has not installed its target.    *)
Recover_Undoes ==
  /\ migrator.step = "down" /\ journal # None
  /\ journal.phase < Phase.LegacyRetired
  /\ IF journal.phase = Phase.Prepared
     THEN fsys' = <<[visible EXCEPT !.journal = None]>> /\ UNCHANGED migrator
     ELSE Step("reconcile") /\ UNCHANGED fsys
  /\ UNCHANGED <<handle, runtime, receipt, store, acked, faults, seen>>

(* recover_populated_wallet_handoff_v2 opens the journal of an unfinished  *)
(* handoff.                                                                *)
Recover ==
  /\ migrator.step = "down" /\ journal # None
  /\ journal.phase < Phase.LegacyRetired
  /\ Step(IF journal.phase < Phase.OwnershipCommitted THEN "reserve" ELSE "reconcile")
  /\ UNCHANGED <<fsys, handle, runtime, receipt, store, acked, faults, seen>>

(* Mutant: an earlier attempt's reservation of the same target is refused. *)
Reserve_Once ==
  LET target == Genesis(journal.plan) IN
  /\ migrator.step = "reserve"
  /\ IF store.current = target
     THEN Step(IF store.prepared = None THEN "install" ELSE "down") /\ UNCHANGED store
     ELSE IF store.prepared # None THEN Step("down") /\ UNCHANGED store
     ELSE store' = Prepare(store, target) /\ Step("install")
  /\ UNCHANGED <<fsys, handle, runtime, receipt, acked, faults, seen>>

(* prepare_protected_image_monotonic_v2.  An error of the store ends the   *)
(* process, before or after the store's own change: MigratorCrashes.       *)
Reserve ==
  LET target == Genesis(journal.plan) IN
  /\ migrator.step = "reserve"
  /\ IF store.current = target
     THEN Step(IF store.prepared = None THEN "install" ELSE "down") /\ UNCHANGED store
     ELSE IF ~PrepareOk(store, target) THEN Step("down") /\ UNCHANGED store
     ELSE store' = Prepare(store, target) /\ Step("install")
  /\ UNCHANGED <<fsys, handle, runtime, receipt, acked, faults, seen>>

(* install_target_with_faults_v2 up to its first write.                    *)
InstallTarget ==
  /\ migrator.step = "install"
  /\ Step(CASE journal.phase > Phase.TargetInstalled -> "reconcile"
            [] journal.phase = Phase.TargetInstalled ->
                 IF visible.target = Genesis(journal.plan) THEN "reconcile" ELSE "down"
            [] journal.phase = Phase.Prepared ->
                 IF visible.target = Genesis(journal.plan) THEN "install_phase"
                 ELSE IF visible.target = None THEN "install_target" ELSE "down")
  /\ UNCHANGED <<fsys, handle, runtime, receipt, store, acked, faults, seen>>

(* reconcile_protected_image_monotonic_v2 of an image: nothing, the abort  *)
(* of a dangling reservation, or the commit of this image's own.           *)
ReconcileOk(image) ==
  \/ store.current = image /\ (store.prepared # None => AbortOk(store, store.prepared))
  \/ store.current # image /\ CommitOk(store, image)

Reconciled(image) ==
  IF store.current # image THEN Commit(store, image)
  ELSE IF store.prepared # None THEN Abort(store, store.prepared) ELSE store

ReconcileTarget ==
  LET target == Genesis(journal.plan) IN
  /\ migrator.step = "reconcile"
  /\ IF ReconcileOk(target)
     THEN store' = Reconciled(target) /\ Step("lock")
     ELSE Step("down") /\ UNCHANGED store
  /\ UNCHANGED <<fsys, handle, runtime, receipt, acked, faults, seen>>

Retired(r) == visible.src[r].retired_by = journal.plan

(* commit_ownership_and_retire_with_target_guard_v2 up to its first write: *)
(* the target and every source are locked and compared with the plan.      *)
Preflight ==
  /\ runtime = "down" /\ visible.target = Genesis(journal.plan)
  /\ \A r \in Roles :
       /\ SourceUnlocked(r)
       /\ \/ Retired(r)
          \/ visible.src[r].retired_by = None /\ visible.src[r].version = journal.plan[r]

LockAndPreflight ==
  /\ migrator.step = "lock"
  /\ Step(IF Preflight THEN "guard" ELSE "down")
  /\ UNCHANGED <<fsys, handle, runtime, receipt, store, acked, faults, seen>>

(* The directory after the migrator's next write.  Under the guard:        *)
(* ownership is committed, every source is replaced by a tombstone, and    *)
(* the retirement is recorded.                                             *)
Prepared(dir) ==
  [dir EXCEPT !.journal = [phase |-> Phase.Prepared,
                           plan |-> [r \in Roles |-> dir.src[r].version]]]

(* persist_phase_with_faults_v2: the same phase again or the one after it. *)
(* Any other is refused before anything is written.                        *)
PhasePersisted(dir, phase) ==
  IF phase \in {dir.journal.phase, dir.journal.phase + 1}
  THEN {[dir EXCEPT !.journal.phase = phase]}
  ELSE {}

Tombstoned(dir) ==
  {[dir EXCEPT !.src[r].retired_by = dir.journal.plan] : r \in {r \in Roles : ~Retired(r)}}

(* Mutant: the sources are retired before ownership is committed.          *)
GuardedWrite_TombstonesFirst(dir) ==
  CASE \E r \in Roles : ~Retired(r) -> Tombstoned(dir)
    [] dir.journal.phase = Phase.TargetInstalled -> PhasePersisted(dir, Phase.OwnershipCommitted)
    [] OTHER -> PhasePersisted(dir, Phase.LegacyRetired)

GuardedWrite(dir) ==
  CASE dir.journal.phase = Phase.TargetInstalled -> PhasePersisted(dir, Phase.OwnershipCommitted)
    [] dir.journal.phase = Phase.OwnershipCommitted /\ \E r \in Roles : ~Retired(r) ->
         Tombstoned(dir)
    [] OTHER -> PhasePersisted(dir, Phase.LegacyRetired)

NextWrite ==
  CASE migrator.step = "prepare" -> {Prepared(visible)}
    [] migrator.step = "install_target" ->
         {[visible EXCEPT !.target = Genesis(journal.plan)]}
    [] migrator.step = "install_phase" -> PhasePersisted(visible, Phase.TargetInstalled)
    [] migrator.step = "guard" -> GuardedWrite(visible)
    [] OTHER -> {}

(* replace_with_faults_v2, in two steps that may fail; a failure poisons   *)
(* the journal handle, so the process starts over with Recover.            *)
MigratorRename ==
  /\ ~migrator.renamed
  /\ \E dir \in NextWrite : RenameTo(dir)
  /\ migrator' = [migrator EXCEPT !.renamed = TRUE]
  /\ UNCHANGED <<handle, runtime, receipt, store, acked, faults, seen>>

AllClosed == [r \in Roles |-> "closed"]

MigratorSync ==
  /\ migrator.renamed
  /\ SyncDirectory
  /\ Step(CASE migrator.step = "prepare" -> "reserve"
            [] migrator.step = "install_target" -> "install_phase"
            [] migrator.step = "install_phase" -> "reconcile"
            [] OTHER -> IF journal.phase = Phase.LegacyRetired THEN "down" ELSE "guard")
  /\ handle' = [handle EXCEPT !["migrator"] = AllClosed]
  /\ receipt' = (receipt \/ journal.phase = Phase.LegacyRetired)
  /\ UNCHANGED <<runtime, store, acked, faults, seen>>

MigratorWriteFails ==
  /\ migrator.renamed \/ NextWrite # {}
  /\ Fault("io")
  /\ Step("down")
  /\ handle' = [handle EXCEPT !["migrator"] = AllClosed]
  /\ UNCHANGED <<fsys, runtime, receipt, store, acked, seen>>

(* Recovery of a finished handoff: the target is read under its lock       *)
(* (read_bound_target_v2), which is dropped again ...                      *)
ReadBoundTarget ==
  /\ migrator.step = "down" /\ journal # None
  /\ journal.phase = Phase.LegacyRetired
  /\ runtime = "down" /\ visible.target # None
  /\ seen' = visible.target
  /\ Step("verify")
  /\ UNCHANGED <<fsys, handle, runtime, receipt, store, acked, faults>>

(* ... before the image read is reconciled and every tombstone verified    *)
(* (verify_completed_legacy_retirement_v2).                                *)
VerifyRetired ==
  /\ migrator.step = "verify"
  /\ IF ReconcileOk(seen)
     THEN /\ store' = Reconciled(seen)
          /\ receipt' = (receipt \/ \A r \in Roles : SourceUnlocked(r) /\ Retired(r))
     ELSE UNCHANGED <<store, receipt>>
  /\ seen' = None
  /\ Step("down")
  /\ UNCHANGED <<fsys, handle, runtime, acked, faults>>

-----------------------------------------------------------------------------
(* The V2 wallet (module WalletTransaction in detail).                     *)

StartRuntime ==
  /\ receipt /\ runtime = "down" /\ migrator.step # "guard"
  /\ visible.target # None /\ ReconcileOk(visible.target)
  /\ store' = Reconciled(visible.target)
  /\ runtime' = "up"
  /\ UNCHANGED <<fsys, handle, migrator, receipt, acked, faults, seen>>

(* One update of the target: the next image is reserved, put in place by   *)
(* rename, and committed after the sync.  A commit that the store refuses  *)
(* closes the wallet.                                                      *)
NextImage(image) ==
  [history |-> Append(image.history, image.history[Len(image.history)])]

ReserveNext ==
  /\ runtime = "up"
  /\ Len(visible.target.history) < MaxGeneration
  /\ PrepareOk(store, NextImage(visible.target))
  /\ store' = Prepare(store, NextImage(visible.target))
  /\ runtime' = "reserved"
  /\ UNCHANGED <<fsys, handle, migrator, receipt, acked, faults, seen>>

RenameNext ==
  /\ runtime = "reserved"
  /\ RenameTo([visible EXCEPT !.target = NextImage(@)])
  /\ runtime' = "renamed"
  /\ UNCHANGED <<handle, migrator, receipt, store, acked, faults, seen>>

CommitNext ==
  /\ runtime = "renamed"
  /\ SyncDirectory
  /\ IF CommitOk(store, visible.target)
     THEN store' = Commit(store, visible.target) /\ runtime' = "up"
     ELSE runtime' = "down" /\ UNCHANGED store
  /\ UNCHANGED <<handle, migrator, receipt, acked, faults, seen>>

AdvanceRuntime == ReserveNext \/ RenameNext \/ CommitNext

-----------------------------------------------------------------------------
(* Crashes.                                                                *)

UserCrashes ==
  /\ \E r \in Roles : handle["user"][r] # "closed"
  /\ Fault("crash")
  /\ handle' = [handle EXCEPT !["user"] = AllClosed]
  /\ UNCHANGED <<fsys, migrator, runtime, receipt, store, acked, seen>>

MigratorCrashes ==
  /\ migrator.step # "down" \/ handle["migrator"] # AllClosed
  /\ Fault("crash")
  /\ handle' = [handle EXCEPT !["migrator"] = AllClosed]
  /\ Step("down") /\ receipt' = FALSE /\ seen' = None
  /\ UNCHANGED <<fsys, runtime, store, acked>>

RuntimeCrashes ==
  /\ runtime # "down"
  /\ Fault("crash")
  /\ runtime' = "down" /\ receipt' = FALSE
  /\ UNCHANGED <<fsys, handle, migrator, store, acked, seen>>

PowerLoss ==
  /\ Fault("power")
  /\ \E i \in DOMAIN fsys : fsys' = <<fsys[i]>>
  /\ handle' = [c \in Clients |-> AllClosed]
  /\ Step("down") /\ runtime' = "down" /\ receipt' = FALSE /\ seen' = None
  /\ UNCHANGED <<store, acked>>

-----------------------------------------------------------------------------
Init ==
  /\ fsys = <<[journal |-> None, target |-> None,
               src |-> [r \in Roles |->
                          [version |-> 0, quiescent |-> TRUE, retired_by |-> None]]]>>
  /\ handle = [c \in Clients |-> AllClosed]
  /\ migrator = [step |-> "down", renamed |-> FALSE]
  /\ runtime = "down" /\ receipt = FALSE /\ seen = None
  /\ store = NewStore
  /\ acked = [r \in Roles |-> 0]
  /\ faults = 0

(* The steps of a handoff in progress, and of recovering one.              *)
Resume ==
  \/ Recover \/ Reserve \/ InstallTarget \/ ReconcileTarget \/ LockAndPreflight
  \/ MigratorRename \/ MigratorSync

OpenLegacy ==
  \E c \in Clients, r \in Roles :
    CheckAuthority(c, r) \/ AcquireSource(c, r) \/ RecheckAuthority(c, r) \/ CloseSource(c, r)

Legacy == \E r \in Roles : LegacyRename(r) \/ LegacySync(r) \/ LegacySyncFails(r)

Next ==
  \/ OpenLegacy \/ Legacy
  \/ MigrateLocked \/ Resume \/ MigratorWriteFails
  \/ ReadBoundTarget \/ VerifyRetired
  \/ StartRuntime \/ AdvanceRuntime
  \/ UserCrashes \/ MigratorCrashes \/ RuntimeCrashes \/ PowerLoss

Spec == Init /\ [][Next]_vars

(* An interrupted handoff is resumed until it finishes, and a constructor  *)
(* that has the lock goes on to its second check.                          *)
FairSpec ==
  /\ Spec
  /\ WF_vars(Resume)
  /\ WF_vars(\E c \in Clients, r \in Roles : RecheckAuthority(c, r))

-----------------------------------------------------------------------------
TypeOK ==
  /\ fsys \in Seq(Directories) /\ fsys # << >>
  /\ handle \in [Clients -> [Roles -> {"closed", "checked", "locked", "open", "renamed"}]]
  /\ migrator \in [step : {"down", "prepare", "reserve", "install", "install_target",
                           "install_phase", "reconcile", "lock", "guard", "verify"},
                   renamed : BOOLEAN]
  /\ seen \in Images
  /\ runtime \in {"down", "up", "reserved", "renamed"} /\ receipt \in BOOLEAN
  /\ store \in Stores(Images)
  /\ acked \in [Roles -> 0..MaxVersion]
  /\ faults \in 0..MaxFaults

(* From the moment the Prepared journal is visible no legacy store is open *)
(* for writing: the two authority checks and the migrator's hold on every  *)
(* source lock leave no window for a writer that started earlier.          *)
LegacyWritersExcluded ==
  journal # None => \A r \in Roles : handle["user"][r] \notin {"open", "renamed"}

(* At every instant, and after a power loss at that instant: an update a   *)
(* legacy store reported as written is in that store, or in the plan of    *)
(* the migration that retired it, whose target is then in place.           *)
Holds(dir, r) ==
  LET s == dir.src[r] IN
  IF s.retired_by = None THEN s.version >= acked[r]
  ELSE /\ s.retired_by[r] = s.version /\ s.version >= acked[r]
       /\ dir.target # None /\ dir.target.history[1].of = s.retired_by

NoUpdateLost == \A i \in DOMAIN fsys, r \in Roles : Holds(fsys[i], r)

(* A store is retired only after ownership is committed, and the record of *)
(* the finished retirement is never ahead of the tombstones: a directory   *)
(* left by any crash has no tombstone without its owner.                   *)
TombstonesFollowOwnership ==
  \A i \in DOMAIN fsys :
    LET dir == fsys[i]
        phase == IF dir.journal = None THEN 0 ELSE dir.journal.phase IN
    /\ phase >= Phase.TargetInstalled => dir.target # None
    /\ \A r \in Roles :
         /\ dir.src[r].retired_by # None => phase >= Phase.OwnershipCommitted
         /\ phase = Phase.LegacyRetired => dir.src[r].retired_by = dir.journal.plan

(* A migration takes over a wallet whose stores agree on one cursor and    *)
(* whose journals have nothing in flight, whenever it was interrupted.     *)
TakesOverQuiescentWallet ==
  journal # None => Quiescent(visible.src) /\ OneCursor(visible.src)

Finished == journal # None /\ journal.phase = Phase.LegacyRetired

(* The V2 wallet only ever runs on the target of a finished handoff: it    *)
(* never competes with a legacy store, or with a handoff that might still  *)
(* compare the target with its plan.                                       *)
RuntimeOwnsWallet ==
  /\ runtime # "down" => Finished
  /\ runtime = "up" => store.current = visible.target

(* A directory, running or left by any crash, names exactly one owner of   *)
(* the wallet: the legacy stores until ownership is committed, the V2      *)
(* wallet after it, and never both.                                        *)
OneOwner ==
  /\ TypeOK
  /\ LegacyWritersExcluded
  /\ TombstonesFollowOwnership
  /\ TakesOverQuiescentWallet
  /\ RuntimeOwnsWallet

(* On the durable medium a handoff never goes back: its plan stays and its *)
(* phase never decreases, whatever fails.                                  *)
HandoffNeverRegresses ==
  [][durable.journal # None =>
       /\ durable'.journal # None
       /\ durable'.journal.plan = durable.journal.plan
       /\ durable'.journal.phase >= durable.journal.phase]_vars

(* A durable Prepared journal is rolled forward to LegacyRetired, unless   *)
(* the store still holds the reservation of another plan.                  *)
RollsForward ==
  (durable.journal # None /\ store.prepared \in {None, Genesis(durable.journal.plan)})
    ~> Finished

(* What the documentation of recover_populated_wallet_handoff_v2 promises: *)
(* a durable Prepared journal is rolled forward.  It does not hold: the    *)
(* store may still hold the reservation of an earlier plan, which an       *)
(* attempt made before its journal was lost.                               *)
DurablePreparedRollsForward ==
  (durable.journal # None) ~> Finished

(* What it says of a repeated recovery, "an exact idempotent recovery" (of *)
(* a finished handoff "non-mutating"): a finished wallet can be opened     *)
(* whenever it is not running.  It does not hold: a recovery that has read *)
(* the target and dropped its lock may abort the reservation of a wallet   *)
(* that started meanwhile, whose next image the store then never accepts.  *)
FinishedWalletReopens ==
  Finished /\ runtime = "down" => ReconcileOk(visible.target)

-----------------------------------------------------------------------------
(* The inductive invariant.                                                *)

(* A directory: its journal's plan is the sources, which are quiescent and *)
(* agree; the target starts from the plan and is its genesis image until   *)
(* the sources are retired; tombstones name the plan, after the commit of  *)
(* ownership, and are complete when the retirement is recorded.            *)
DirectoryIsSound(dir) ==
  /\ dir.journal = None =>
       /\ dir.target = None
       /\ \A r \in Roles : dir.src[r].retired_by = None
  /\ dir.journal # None =>
       /\ \A r \in Roles : dir.src[r].version = dir.journal.plan[r]
       /\ Quiescent(dir.src) /\ OneCursor(dir.src)
       /\ dir.journal.phase >= Phase.TargetInstalled => dir.target # None
       /\ dir.target # None =>
            /\ dir.target.history # << >>
            /\ dir.target.history[1].of = dir.journal.plan
            /\ dir.journal.phase < Phase.LegacyRetired => dir.target = Genesis(dir.journal.plan)
       /\ \A r \in Roles :
            /\ dir.src[r].retired_by \in {None, dir.journal.plan}
            /\ dir.src[r].retired_by # None => dir.journal.phase >= Phase.OwnershipCommitted
            /\ dir.journal.phase = Phase.LegacyRetired => dir.src[r].retired_by # None

Reported(dir) == \A r \in Roles : acked[r] <= dir.src[r].version

(* The handoff of dir is not ahead of that of next.                        *)
NotAfter(dir, next) ==
  dir.journal # None =>
    /\ next.journal # None
    /\ next.journal.plan = dir.journal.plan
    /\ next.journal.phase >= dir.journal.phase

(* This holds of every directory that a power loss can leave, and their    *)
(* handoffs only go forward.                                               *)
DirectoriesAreSound ==
  /\ \A i \in DOMAIN fsys : DirectoryIsSound(fsys[i]) /\ Reported(fsys[i])
  /\ \A i, j \in DOMAIN fsys : i <= j => NotAfter(fsys[i], fsys[j])

(* A source has one live handle, and no user writes to it from the moment  *)
(* the migrator holds the authority.                                       *)
LocksExclude ==
  /\ \A r \in Roles : \E c \in Clients : handle[c][r] \notin {"locked", "open", "renamed"}
  /\ journal # None \/ migrator.step # "down" =>
       \A r \in Roles : handle["user"][r] \notin {"open", "renamed"}

(* What the migrator's step says about the directory.                      *)
MigratorKnows ==
  LET step == migrator.step IN
  /\ migrator.renamed => step \in {"prepare", "install_target", "install_phase", "guard"}
  /\ step = "prepare" =>
       IF migrator.renamed THEN journal # None /\ journal.phase = Phase.Prepared
       ELSE journal = None /\ Quiescent(visible.src) /\ OneCursor(visible.src)
  /\ step \notin {"down", "prepare"} => journal # None
  /\ step = "verify" => journal.phase = Phase.LegacyRetired
  /\ step \in {"reserve", "install"} => journal.phase < Phase.OwnershipCommitted
  /\ step = "install_target" =>
       /\ journal.phase = Phase.Prepared
       /\ visible.target = IF migrator.renamed THEN Genesis(journal.plan) ELSE None
  /\ step = "install_phase" =>
       /\ journal.phase = IF migrator.renamed THEN Phase.TargetInstalled ELSE Phase.Prepared
       /\ visible.target = Genesis(journal.plan)
  /\ step \in {"reconcile", "lock"} =>
       journal.phase \in {Phase.TargetInstalled, Phase.OwnershipCommitted}
  /\ step = "guard" =>
       journal.phase \in IF migrator.renamed
                         THEN {Phase.OwnershipCommitted, Phase.LegacyRetired}
                         ELSE {Phase.TargetInstalled, Phase.OwnershipCommitted}

(* A receipt is of a finished handoff; the V2 wallet runs on one, beside   *)
(* at most a repeated recovery, and nothing is reserved between updates.   *)
RuntimeIsAlone ==
  /\ receipt => Finished
  /\ runtime # "down" => Finished /\ migrator.step \in {"down", "verify"}
  /\ runtime = "up" => store.current = visible.target /\ store.prepared = None

IInv ==
  /\ TypeOK
  /\ DirectoriesAreSound
  /\ LocksExclude
  /\ MigratorKnows
  /\ RuntimeIsAlone
=============================================================================
