----------------------- MODULE WalletMigrationProofs -----------------------
(***************************************************************************)
(* Proofs about WalletMigration, for every set of legacy stores, every set *)
(* of faults and every bound.                                              *)
(*                                                                         *)
(* The invariant is about every directory that a power loss can leave, not *)
(* only about the visible one: each is sound by itself, and they are in    *)
(* the order of the handoff.  What carries it through the migration is     *)
(* what the migrator knows of the visible directory at each of its steps,  *)
(* and that no user writes to a source from the moment it holds the        *)
(* authority.                                                              *)
(***************************************************************************)
EXTENDS WalletMigration, SequenceTheorems, TLAPS

LEMMA PhaseValues ==
  /\ Phase.Prepared = 1 /\ Phase.TargetInstalled = 2
  /\ Phase.OwnershipCommitted = 3 /\ Phase.LegacyRetired = 4
BY Zenon DEF Phase

(***************************************************************************)
(* Sequences of directories.                                               *)
(***************************************************************************)
\* The parts of the invariant as facts about given values.
ReportedIn(dir, a) == \A r \in Roles : a[r] <= dir.src[r].version
AllSound(fs, a) ==
  /\ \A i \in DOMAIN fs : DirectoryIsSound(fs[i]) /\ ReportedIn(fs[i], a)
  /\ \A i, j \in DOMAIN fs : i <= j => NotAfter(fs[i], fs[j])

LEMMA DirectoriesAre == DirectoriesAreSound <=> AllSound(fsys, acked)
BY Zenon DEF DirectoriesAreSound, AllSound, Reported, ReportedIn

LEMMA PhaseType ==
  ASSUME NEW dir \in Directories, dir.journal # None
  PROVE  dir.journal.phase \in 1..4 /\ dir.journal.plan \in Snapshots
<1>1. dir.journal \in [phase : 1..4, plan : Snapshots]
  BY Zenon DEF Directories, JournalFiles
<1>. QED  BY <1>1, Zenon

LEMMA NotAfterItself ==
  ASSUME NEW dir \in Directories PROVE NotAfter(dir, dir)
<1>1. dir.journal # None => dir.journal.phase \in Nat
  BY PhaseType
<1>. QED  BY <1>1 DEF NotAfter

LEMMA NotAfterComposes ==
  ASSUME NEW d \in Directories, NEW e \in Directories, NEW f \in Directories,
         NotAfter(d, e), NotAfter(e, f)
  PROVE  NotAfter(d, f)
<1>1. SUFFICES ASSUME d.journal # None
               PROVE  /\ f.journal # None /\ f.journal.plan = d.journal.plan
                      /\ f.journal.phase >= d.journal.phase
  BY Zenon DEF NotAfter
<1>2. e.journal # None /\ f.journal # None
  BY <1>1, Zenon DEF NotAfter
<1>3. d.journal.phase \in Nat /\ e.journal.phase \in Nat /\ f.journal.phase \in Nat
  BY <1>1, <1>2, PhaseType
<1>. QED  BY <1>1, <1>2, <1>3 DEF NotAfter

\* The last directory of a sound sequence is not before any other one.
LEMMA LastIs ==
  ASSUME NEW fs \in Seq(Directories), fs # << >>, NEW a, AllSound(fs, a)
  PROVE  /\ Len(fs) \in Nat \ {0} /\ 1 \in DOMAIN fs /\ Len(fs) \in DOMAIN fs
         /\ fs[1] \in Directories
         /\ fs[Len(fs)] \in Directories
         /\ DirectoryIsSound(fs[Len(fs)]) /\ ReportedIn(fs[Len(fs)], a)
         /\ \A i \in DOMAIN fs : fs[i] \in Directories /\ NotAfter(fs[i], fs[Len(fs)])
<1>1. Len(fs) \in Nat \ {0} /\ DOMAIN fs = 1..Len(fs)
  BY LenProperties, EmptySeq, Zenon
<1>2. 1 \in DOMAIN fs /\ Len(fs) \in DOMAIN fs /\ \A i \in DOMAIN fs : i <= Len(fs)
  BY <1>1
<1>3. \A i \in DOMAIN fs : fs[i] \in Directories
  BY <1>1, ElementOfSeq, Zenon
<1>. QED  BY <1>1, <1>2, <1>3, Zenon DEF AllSound

\* A rename puts a sound directory at the end.
LEMMA SoundAppend ==
  ASSUME NEW fs \in Seq(Directories), fs # << >>, NEW a, AllSound(fs, a),
         NEW dir \in Directories, DirectoryIsSound(dir), ReportedIn(dir, a),
         NotAfter(fs[Len(fs)], dir)
  PROVE  LET gs == Append(fs, dir)
         IN /\ gs \in Seq(Directories) /\ gs # << >> /\ AllSound(gs, a)
            /\ gs[Len(gs)] = dir /\ gs[1] = fs[1]
<1>. DEFINE gs == Append(fs, dir)
<1>1. /\ Len(fs) \in Nat \ {0} /\ DOMAIN fs = 1..Len(fs)
      /\ \A i \in DOMAIN fs : fs[i] \in Directories /\ NotAfter(fs[i], fs[Len(fs)])
      /\ fs[Len(fs)] \in Directories
  BY LastIs, LenProperties, Zenon
<1>2. /\ gs \in Seq(Directories) /\ Len(gs) = Len(fs) + 1 /\ gs[Len(fs) + 1] = dir
      /\ \A i \in 1..Len(fs) : gs[i] = fs[i]
  BY AppendProperties
<1>3. DOMAIN gs = 1..(Len(fs) + 1)
  BY <1>2, LenProperties, Zenon
<1>. HIDE DEF gs
<1>4. gs # << >> /\ gs[Len(gs)] = dir /\ gs[1] = fs[1]
  BY <1>1, <1>2, EmptySeq
<1>5. \A i \in 1..Len(fs) : NotAfter(fs[i], dir)
  BY <1>1, NotAfterComposes, Zenon
<1>6. \A i \in DOMAIN gs : i \in 1..Len(fs) \/ i = Len(fs) + 1
  BY <1>1, <1>3
<1>7. \A i \in DOMAIN gs : DirectoryIsSound(gs[i]) /\ ReportedIn(gs[i], a)
  BY <1>1, <1>2, <1>6, Zenon DEF AllSound
<1>8. ASSUME NEW i \in DOMAIN gs, NEW j \in DOMAIN gs, i <= j PROVE NotAfter(gs[i], gs[j])
  <2>1. CASE j = Len(fs) + 1
    <3>1. i = Len(fs) + 1 \/ i \in 1..Len(fs)
      BY <1>6, Zenon
    <3>. QED  BY <1>2, <1>5, <2>1, <3>1, NotAfterItself, Zenon
  <2>2. CASE j \in 1..Len(fs)
    <3>1. i \in 1..Len(fs)
      BY <1>1, <1>3, <1>8, <2>2
    <3>. QED  BY <1>1, <1>2, <1>8, <2>2, <3>1, Zenon DEF AllSound
  <2>. QED  BY <1>6, <2>1, <2>2, Zenon
<1>. QED  BY <1>2, <1>4, <1>7, <1>8, Zenon DEF AllSound, gs

\* A sync, or a power loss, leaves one directory.
LEMMA SoundSingle ==
  ASSUME NEW dir \in Directories, DirectoryIsSound(dir), NEW a, ReportedIn(dir, a)
  PROVE  LET gs == <<dir>>
         IN /\ gs \in Seq(Directories) /\ gs # << >> /\ AllSound(gs, a)
            /\ gs[Len(gs)] = dir /\ gs[1] = dir
<1>1. DOMAIN <<dir>> = {1} /\ <<dir>>[1] = dir /\ Len(<<dir>>) = 1
  OBVIOUS
<1>2. AllSound(<<dir>>, a)
  BY <1>1, NotAfterItself, Zenon DEF AllSound
<1>. QED  BY <1>1, <1>2

(***************************************************************************)
(* The state.                                                              *)
(***************************************************************************)
Steps == {"down", "prepare", "reserve", "install", "install_target",
          "install_phase", "reconcile", "lock", "guard", "verify"}
Runtimes == {"down", "up", "reserved", "renamed"}
Handles == [Clients -> [Roles -> {"closed", "checked", "locked", "open", "renamed"}]]

\* What a migrator m knows when dir is visible.
Knows(m, dir) ==
  /\ m.renamed => m.step \in {"prepare", "install_target", "install_phase", "guard"}
  /\ m.step = "prepare" =>
       IF m.renamed THEN dir.journal # None /\ dir.journal.phase = 1
       ELSE dir.journal = None /\ Quiescent(dir.src) /\ OneCursor(dir.src)
  /\ m.step \notin {"down", "prepare"} => dir.journal # None
  /\ m.step = "verify" => dir.journal.phase = 4
  /\ m.step \in {"reserve", "install"} => dir.journal.phase < 3
  /\ m.step = "install_target" =>
       /\ dir.journal.phase = 1
       /\ dir.target = IF m.renamed THEN Genesis(dir.journal.plan) ELSE None
  /\ m.step = "install_phase" =>
       /\ dir.journal.phase = IF m.renamed THEN 2 ELSE 1
       /\ dir.target = Genesis(dir.journal.plan)
  /\ m.step \in {"reconcile", "lock"} => dir.journal.phase \in {2, 3}
  /\ m.step = "guard" => dir.journal.phase \in IF m.renamed THEN {3, 4} ELSE {2, 3}

LEMMA KnowsIs == MigratorKnows <=> Knows(migrator, visible)
BY PhaseValues, Zenon DEF MigratorKnows, Knows, journal

\* No user writes to a source.
NoWriter(h) == \A r \in Roles : h["user"][r] \notin {"open", "renamed"}
OneHandle(h) == \A r \in Roles : \E c \in Clients : h[c][r] \notin {"locked", "open", "renamed"}

\* What the invariant says.
LEMMA Facts ==
  ASSUME IInv
  PROVE  /\ fsys \in Seq(Directories) /\ fsys # << >> /\ AllSound(fsys, acked)
         /\ visible \in Directories /\ durable \in Directories
         /\ DirectoryIsSound(visible) /\ Reported(visible) /\ NotAfter(durable, visible)
         /\ handle \in Handles /\ OneHandle(handle)
         /\ journal # None \/ migrator.step # "down" => NoWriter(handle)
         /\ migrator \in [step : Steps, renamed : BOOLEAN] /\ Knows(migrator, visible)
         /\ runtime \in Runtimes /\ receipt \in BOOLEAN /\ seen \in Images
         /\ store \in Stores(Images) /\ acked \in [Roles -> 0..MaxVersion]
         /\ faults \in 0..MaxFaults
<1>1. /\ fsys \in Seq(Directories) /\ fsys # << >>
      /\ handle \in Handles
      /\ migrator \in [step : Steps, renamed : BOOLEAN]
      /\ runtime \in Runtimes /\ receipt \in BOOLEAN /\ seen \in Images
      /\ store \in Stores(Images) /\ acked \in [Roles -> 0..MaxVersion]
      /\ faults \in 0..MaxFaults
  BY Zenon DEF IInv, TypeOK, Handles, Steps, Runtimes
<1>2. AllSound(fsys, acked)
  BY DirectoriesAre, Zenon DEF IInv
<1>3. /\ visible \in Directories /\ durable \in Directories
      /\ DirectoryIsSound(visible) /\ ReportedIn(visible, acked) /\ NotAfter(durable, visible)
  BY <1>1, <1>2, LastIs, Zenon DEF visible, durable
<1>4. Reported(visible)
  BY <1>3, Zenon DEF Reported, ReportedIn
<1>5. OneHandle(handle) /\ (journal # None \/ migrator.step # "down" => NoWriter(handle))
  BY Zenon DEF IInv, LocksExclude, OneHandle, NoWriter
<1>6. Knows(migrator, visible)
  BY KnowsIs, Zenon DEF IInv
<1>. QED  BY <1>1, <1>2, <1>3, <1>4, <1>5, <1>6, Zenon

\* What the runtime part says; the V2 wallet is up only after the handoff.
LEMMA RuntimeFacts ==
  ASSUME IInv
  PROVE  /\ receipt => journal # None /\ journal.phase = 4
         /\ runtime # "down" =>
              /\ journal # None /\ journal.phase = 4 /\ migrator.step \in {"down", "verify"}
         /\ runtime = "up" => store.current = visible.target /\ store.prepared = None
         /\ migrator.step \notin {"down", "verify"} => runtime = "down"
BY PhaseValues, Zenon DEF IInv, TypeOK, RuntimeIsAlone, Finished

\* The durable handoff does not go back.
Forward == NotAfter(durable, durable')

\* From the parts to the invariant of the next state.
LEMMA Assemble ==
  ASSUME fsys' \in Seq(Directories), fsys' # << >>, AllSound(fsys', acked'),
         handle' \in Handles, OneHandle(handle'),
         journal' # None \/ migrator'.step # "down" => NoWriter(handle'),
         migrator' \in [step : Steps, renamed : BOOLEAN], Knows(migrator', visible'),
         runtime' \in Runtimes, receipt' \in BOOLEAN, seen' \in Images,
         store' \in Stores(Images), acked' \in [Roles -> 0..MaxVersion],
         faults' \in 0..MaxFaults,
         receipt' => journal' # None /\ journal'.phase = 4,
         runtime' # "down" =>
           /\ journal' # None /\ journal'.phase = 4 /\ migrator'.step \in {"down", "verify"},
         runtime' = "up" => store'.current = visible'.target /\ store'.prepared = None
  PROVE  IInv'
<1>1. TypeOK'
  BY Zenon DEF TypeOK, Handles, Steps, Runtimes
<1>2. DirectoriesAreSound'
  <2>1. (DirectoriesAreSound <=> AllSound(fsys, acked))'
    BY DirectoriesAre, PTL
  <2>. QED  BY <2>1, Zenon
<1>3. LocksExclude'
  BY Zenon DEF LocksExclude, OneHandle, NoWriter
<1>4. MigratorKnows'
  <2>1. (MigratorKnows <=> Knows(migrator, visible))'
    BY KnowsIs, PTL
  <2>. QED  BY <2>1, Zenon
<1>5. RuntimeIsAlone'
  BY PhaseValues, Zenon DEF RuntimeIsAlone, Finished
<1>. QED  BY <1>1, <1>2, <1>3, <1>4, <1>5, Zenon DEF IInv

\* A step that leaves the directories and the wallet's state alone.
LEMMA SameDirectories ==
  ASSUME IInv, UNCHANGED <<fsys, acked, receipt, runtime, seen>>,
         handle' \in Handles, OneHandle(handle'),
         journal # None \/ migrator'.step # "down" => NoWriter(handle'),
         migrator' \in [step : Steps, renamed : BOOLEAN], Knows(migrator', visible),
         store' \in Stores(Images), faults' \in 0..MaxFaults,
         runtime # "down" => migrator'.step \in {"down", "verify"} /\ store' = store
  PROVE  IInv' /\ Forward
<1>1. visible' = visible /\ journal' = journal /\ durable' = durable
  BY Zenon DEF visible, journal, durable
<1>2. IInv'
  BY <1>1, Facts, RuntimeFacts, Assemble, Zenon
<1>3. Forward
  BY <1>1, Facts, NotAfterItself, Zenon DEF Forward
<1>. QED  BY <1>2, <1>3, Zenon

(***************************************************************************)
(* Legacy handles.                                                         *)
(***************************************************************************)
\* A fault is counted.
LEMMA FaultType ==
  ASSUME IInv, NEW kind, Fault(kind) PROVE faults' \in 0..MaxFaults
BY Facts, MigrationAssumption DEF Fault

LEMMA HandleUpdate ==
  ASSUME handle \in Handles, NEW c \in Clients, NEW r \in Roles,
         NEW h \in {"closed", "checked", "locked", "open", "renamed"}, SetHandle(c, r, h)
  PROVE  /\ handle' \in Handles
         /\ \A d \in Clients, s \in Roles :
              handle'[d][s] = IF d = c /\ s = r THEN h ELSE handle[d][s]
BY Zenon DEF SetHandle, Handles

\* A handle that is not live, or was live already, adds no second one.
LEMMA OneHandleStays ==
  ASSUME handle \in Handles, OneHandle(handle), NEW c \in Clients, NEW r \in Roles, NEW h,
         \A d \in Clients, s \in Roles :
           handle'[d][s] = IF d = c /\ s = r THEN h ELSE handle[d][s],
         \/ h \notin {"locked", "open", "renamed"}
         \/ handle[c][r] \in {"locked", "open", "renamed"}
         \/ \E d \in Clients : d # c /\ handle[d][r] \notin {"locked", "open", "renamed"}
  PROVE  OneHandle(handle')
<1>1. SUFFICES ASSUME NEW s \in Roles
               PROVE  \E d \in Clients : handle'[d][s] \notin {"locked", "open", "renamed"}
  BY Zenon DEF OneHandle
<1>2. PICK d \in Clients : handle[d][s] \notin {"locked", "open", "renamed"}
  BY Zenon DEF OneHandle
<1>3. CASE s # r \/ d # c
  BY <1>2, <1>3, Zenon
<1>4. CASE s = r /\ d = c
  BY <1>2, <1>4, Zenon
<1>. QED  BY <1>3, <1>4, Zenon

LEMMA OpenLegacyKeeps ==
  ASSUME IInv, NEW c \in Clients, NEW r \in Roles,
         \/ CheckAuthority(c, r) \/ AcquireSource(c, r)
         \/ RecheckAuthority(c, r) \/ CloseSource(c, r)
  PROVE  IInv' /\ Forward
<1>1. /\ UNCHANGED <<fsys, acked, receipt, runtime, seen>>
      /\ migrator' = migrator /\ store' = store /\ faults' = faults
  BY Zenon DEF CheckAuthority, AcquireSource, RecheckAuthority, CloseSource
<1>2. PICK h \in {"closed", "checked", "locked", "open"} :
        /\ SetHandle(c, r, h)
        /\ h \in {"locked", "open"} =>
             \/ handle[c][r] = "locked"
             \/ \E d \in Clients : d # c /\ handle[d][r] \notin {"locked", "open", "renamed"}
        /\ h = "open" => journal = None /\ migrator.step = "down"
  <2>1. CASE CheckAuthority(c, r)
    BY <2>1, Zenon DEF CheckAuthority
  <2>2. CASE AcquireSource(c, r)
    <3>1. PICK d \in Clients : d # c
      BY Zenon DEF Clients
    <3>2. CASE SourceUnlocked(r)
      BY <2>2, <3>1, <3>2, Zenon DEF AcquireSource, SourceUnlocked
    <3>3. CASE ~SourceUnlocked(r)
      BY <2>2, <3>3, Zenon DEF AcquireSource
    <3>. QED  BY <3>2, <3>3, Zenon
  <2>3. CASE RecheckAuthority(c, r)
    <3>1. CASE LegacyWriterAllowed
      BY <2>3, <3>1, Zenon DEF RecheckAuthority, LegacyWriterAllowed, AuthorityUnlocked
    <3>2. CASE ~LegacyWriterAllowed
      BY <2>3, <3>2, Zenon DEF RecheckAuthority
    <3>. QED  BY <3>1, <3>2, Zenon
  <2>4. CASE CloseSource(c, r)
    BY <2>4, Zenon DEF CloseSource
  <2>. QED  BY <2>1, <2>2, <2>3, <2>4, Zenon
<1>3. /\ handle' \in Handles
      /\ \A d \in Clients, s \in Roles :
           handle'[d][s] = IF d = c /\ s = r THEN h ELSE handle[d][s]
  BY <1>2, Facts, HandleUpdate
<1>4. OneHandle(handle')
  <2>1. \/ h \notin {"locked", "open", "renamed"}
        \/ handle[c][r] \in {"locked", "open", "renamed"}
        \/ \E d \in Clients : d # c /\ handle[d][r] \notin {"locked", "open", "renamed"}
    BY <1>2, Zenon
  <2>2. handle \in Handles /\ OneHandle(handle)
    BY Facts, Zenon
  <2>3. \A d \in Clients, s \in Roles :
          handle'[d][s] = IF d = c /\ s = r THEN h ELSE handle[d][s]
    BY <1>3, Zenon
  <2>. QED  BY <2>1, <2>2, <2>3, OneHandleStays
<1>5. journal # None \/ migrator.step # "down" => NoWriter(handle')
  <2>1. SUFFICES ASSUME journal # None \/ migrator.step # "down", NEW s \in Roles
                 PROVE  handle'["user"][s] \notin {"open", "renamed"}
    BY Zenon DEF NoWriter
  <2>2. h \notin {"open", "renamed"}
    BY <1>2, <2>1, Zenon
  <2>3. handle["user"][s] \notin {"open", "renamed"} /\ "user" \in Clients
    BY <2>1, Facts, Zenon DEF NoWriter, Clients
  <2>. QED  BY <1>3, <2>2, <2>3, Zenon
<1>6. /\ migrator \in [step : Steps, renamed : BOOLEAN] /\ Knows(migrator, visible)
      /\ store \in Stores(Images) /\ faults \in 0..MaxFaults
      /\ runtime # "down" => migrator.step \in {"down", "verify"}
  BY Facts, RuntimeFacts, Zenon
<1>. QED  BY <1>1, <1>3, <1>4, <1>5, <1>6, SameDirectories, Zenon

\* Closed handles are closed.
LEMMA ClosedHandles ==
  ASSUME handle \in Handles, OneHandle(handle), NEW c \in Clients,
         handle' = [handle EXCEPT ![c] = AllClosed]
  PROVE  /\ handle' \in Handles /\ OneHandle(handle')
         /\ NoWriter(handle) => NoWriter(handle')
         /\ c = "user" => NoWriter(handle')
<1>1. handle' \in Handles
  BY Zenon DEF Handles, AllClosed
<1>2. \A d \in Clients, s \in Roles :
        handle'[d][s] = IF d = c THEN "closed" ELSE handle[d][s]
  BY Zenon DEF Handles, AllClosed
<1>3. OneHandle(handle')
  BY <1>2 DEF OneHandle
<1>4. /\ NoWriter(handle) => NoWriter(handle')
      /\ c = "user" => NoWriter(handle')
  BY <1>2 DEF NoWriter, Clients
<1>. QED  BY <1>1, <1>3, <1>4, Zenon

LEMMA UserCrashKeeps == ASSUME IInv, UserCrashes PROVE IInv' /\ Forward
<1>1. /\ UNCHANGED <<fsys, acked, receipt, runtime, seen>>
      /\ migrator' = migrator /\ store' = store
      /\ handle' = [handle EXCEPT !["user"] = AllClosed]
      /\ faults' \in 0..MaxFaults
  BY FaultType, Zenon DEF UserCrashes
<1>2. handle' \in Handles /\ OneHandle(handle') /\ NoWriter(handle')
  <2>1. "user" \in Clients
    BY Zenon DEF Clients
  <2>. QED  BY <1>1, <2>1, Facts, ClosedHandles, Zenon
<1>3. /\ migrator \in [step : Steps, renamed : BOOLEAN] /\ Knows(migrator, visible)
      /\ store \in Stores(Images)
      /\ runtime # "down" => migrator.step \in {"down", "verify"}
  BY Facts, RuntimeFacts, Zenon
<1>. QED  BY <1>1, <1>2, <1>3, SameDirectories, Zenon

\* A user that writes: nothing is migrated, and no handoff is in progress.
LEMMA WriterIs ==
  ASSUME IInv, NEW r \in Roles, handle["user"][r] \in {"open", "renamed"}
  PROVE  journal = None /\ migrator.step = "down" /\ runtime = "down" /\ receipt = FALSE
BY Facts, RuntimeFacts, Zenon DEF NoWriter

LEMMA SyncFailsKeeps ==
  ASSUME IInv, NEW r \in Roles, LegacySyncFails(r) PROVE IInv' /\ Forward
<1>1. /\ UNCHANGED <<fsys, acked, receipt, runtime, seen>>
      /\ migrator' = migrator /\ store' = store /\ handle["user"][r] = "renamed"
      /\ SetHandle("user", r, "open") /\ faults' \in 0..MaxFaults
  BY FaultType, Zenon DEF LegacySyncFails
<1>2. "user" \in Clients
  BY Zenon DEF Clients
<1>3. /\ handle' \in Handles
      /\ \A d \in Clients, s \in Roles :
           handle'[d][s] = IF d = "user" /\ s = r THEN "open" ELSE handle[d][s]
  BY <1>1, <1>2, Facts, HandleUpdate, Zenon
<1>4. OneHandle(handle')
  <2>1. handle \in Handles /\ OneHandle(handle)
    BY Facts, Zenon
  <2>2. handle["user"][r] \in {"locked", "open", "renamed"}
    BY <1>1, Zenon
  <2>. QED  BY <1>2, <1>3, <2>1, <2>2, OneHandleStays
<1>5. journal = None /\ migrator.step = "down"
  BY <1>1, WriterIs, Zenon
<1>6. /\ migrator \in [step : Steps, renamed : BOOLEAN] /\ Knows(migrator, visible)
      /\ store \in Stores(Images)
  BY Facts, Zenon
<1>. QED  BY <1>1, <1>3, <1>4, <1>5, <1>6, SameDirectories, Zenon

(***************************************************************************)
(* Writes.                                                                 *)
(***************************************************************************)
LEMMA Renames ==
  ASSUME IInv, NEW dir \in Directories, DirectoryIsSound(dir), Reported(dir),
         NotAfter(visible, dir), RenameTo(dir), acked' = acked
  PROVE  /\ fsys' \in Seq(Directories) /\ fsys' # << >> /\ AllSound(fsys', acked')
         /\ visible' = dir /\ Forward
<1>1. fsys \in Seq(Directories) /\ fsys # << >> /\ AllSound(fsys, acked) /\ durable \in Directories
  BY Facts, Zenon
<1>2. ReportedIn(dir, acked) /\ NotAfter(fsys[Len(fsys)], dir)
  BY Zenon DEF Reported, ReportedIn, visible
<1>3. PICK gs : gs = Append(fsys, dir)
  BY Zenon
<1>4. /\ gs \in Seq(Directories) /\ gs # << >> /\ AllSound(gs, acked)
      /\ gs[Len(gs)] = dir /\ gs[1] = fsys[1]
  BY <1>1, <1>2, <1>3, SoundAppend, Zenon
<1>5. fsys' = gs
  BY <1>3, Zenon DEF RenameTo
<1>. QED  BY <1>1, <1>4, <1>5, NotAfterItself, Zenon DEF visible, durable, Forward

LEMMA LeavesOne ==
  ASSUME IInv, NEW dir \in Directories, DirectoryIsSound(dir), ReportedIn(dir, acked'),
         fsys' = <<dir>>
  PROVE  /\ fsys' \in Seq(Directories) /\ fsys' # << >> /\ AllSound(fsys', acked')
         /\ visible' = dir
         /\ NotAfter(durable, dir) => Forward
<1>1. PICK gs : gs = <<dir>>
  BY Zenon
<1>2. /\ gs \in Seq(Directories) /\ gs # << >> /\ AllSound(gs, acked')
      /\ gs[Len(gs)] = dir /\ gs[1] = dir
  BY <1>1, SoundSingle, Zenon
<1>3. fsys' = gs
  BY <1>1, Zenon
<1>. QED  BY <1>2, <1>3, Zenon DEF visible, durable, Forward

LEMMA LegacyRenameKeeps ==
  ASSUME IInv, NEW r \in Roles, LegacyRename(r) PROVE IInv' /\ Forward
<1>1. PICK q \in BOOLEAN :
        RenameTo([visible EXCEPT !.src[r].version = @ + 1, !.src[r].quiescent = q])
  BY Zenon DEF LegacyRename
<1>2. PICK dir : dir = [visible EXCEPT !.src[r].version = @ + 1, !.src[r].quiescent = q]
  BY Zenon
<1>3. /\ visible \in Directories /\ DirectoryIsSound(visible) /\ Reported(visible)
      /\ journal = None /\ migrator.step = "down" /\ runtime = "down" /\ receipt = FALSE
      /\ visible.src[r].version < MaxVersion
      /\ handle["user"][r] = "open" /\ SetHandle("user", r, "renamed")
      /\ UNCHANGED <<migrator, runtime, receipt, store, acked, faults, seen>>
  BY Facts, WriterIs, Zenon DEF LegacyRename
<1>4. /\ visible.src \in [Roles -> Sources] /\ visible.journal \in JournalFiles
      /\ visible.target \in Images
  BY <1>3, Zenon DEF Directories
<1>5. visible.src[r].version \in 0..MaxVersion /\ visible.src[r].version + 1 \in 0..MaxVersion
  BY <1>3, <1>4, MigrationAssumption DEF Sources
<1>6. PICK src : src = [visible.src EXCEPT ![r].version = @ + 1, ![r].quiescent = q]
  BY Zenon
<1>7. /\ src \in [Roles -> Sources]
      /\ \A s \in Roles : /\ src[s].retired_by = visible.src[s].retired_by
                          /\ src[s].version >= visible.src[s].version
  <2>1. /\ src \in [Roles -> Sources]
        /\ \A s \in Roles : s # r => src[s] = visible.src[s]
        /\ src[r].version = visible.src[r].version + 1
        /\ src[r].retired_by = visible.src[r].retired_by
    BY <1>4, <1>5, <1>6, Zenon DEF Sources
  <2>2. \A s \in Roles : visible.src[s].version \in Nat
    BY <1>4, MigrationAssumption DEF Sources
  <2>. QED  BY <2>1, <2>2
<1>8. dir.journal = visible.journal /\ dir.target = visible.target /\ dir.src = src
  BY <1>2, <1>3, <1>6, Zenon DEF Directories
<1>9. dir \in Directories
  BY <1>2, <1>3, <1>4, <1>6, <1>7, <1>8, Zenon DEF Directories
<1>10. DirectoryIsSound(dir)
  BY <1>3, <1>7, <1>8, Zenon DEF DirectoryIsSound, journal
<1>11. Reported(dir)
  <2>1. \A s \in Roles : /\ acked[s] \in Nat /\ visible.src[s].version \in Nat
                         /\ src[s].version \in Nat
    BY <1>4, <1>7, Facts, MigrationAssumption DEF Sources
  <2>2. \A s \in Roles : acked[s] <= visible.src[s].version
    BY <1>3, Zenon DEF Reported
  <2>. QED  BY <1>7, <1>8, <2>1, <2>2 DEF Reported
<1>12. NotAfter(visible, dir)
  BY <1>3, Zenon DEF NotAfter, journal
<1>13. /\ fsys' \in Seq(Directories) /\ fsys' # << >> /\ AllSound(fsys', acked')
       /\ visible' = dir /\ Forward
  BY <1>1, <1>2, <1>3, <1>9, <1>10, <1>11, <1>12, Renames, Zenon
<1>14. journal' = None
  BY <1>3, <1>8, <1>13, Zenon DEF journal
<1>15. handle' \in Handles /\ OneHandle(handle')
  <2>1. "user" \in Clients /\ handle \in Handles /\ OneHandle(handle)
    BY Facts, Zenon DEF Clients
  <2>2. /\ handle' \in Handles
        /\ \A d \in Clients, s \in Roles :
             handle'[d][s] = IF d = "user" /\ s = r THEN "renamed" ELSE handle[d][s]
    BY <1>3, <2>1, HandleUpdate
  <2>3. handle["user"][r] \in {"locked", "open", "renamed"}
    BY <1>3, Zenon
  <2>. QED  BY <2>1, <2>2, <2>3, OneHandleStays
<1>16. Knows(migrator', visible')
  <2>1. migrator' = migrator /\ ~migrator.renamed /\ migrator.step = "down"
    BY <1>3, Facts, Zenon DEF Knows
  <2>. QED  BY <2>1, Zenon DEF Knows
<1>17. /\ migrator' \in [step : Steps, renamed : BOOLEAN] /\ migrator'.step = "down"
       /\ runtime' = "down" /\ runtime' \in Runtimes /\ receipt' = FALSE /\ seen' \in Images
       /\ store' \in Stores(Images) /\ acked' \in [Roles -> 0..MaxVersion]
       /\ faults' \in 0..MaxFaults
  <2>1. runtime = "down" /\ receipt = FALSE /\ migrator.step = "down"
    BY <1>3, Zenon
  <2>2. UNCHANGED <<migrator, runtime, receipt, store, acked, faults, seen>>
    BY <1>3, Zenon
  <2>. QED  BY <2>1, <2>2, Facts, Zenon
<1>18. IInv'
  BY <1>13, <1>14, <1>15, <1>16, <1>17, Assemble, Zenon
<1>. QED  BY <1>13, <1>18, Zenon

\* A sync of the visible directory.
LEMMA Syncs ==
  ASSUME IInv, SyncDirectory, ReportedIn(visible, acked')
  PROVE  /\ fsys' \in Seq(Directories) /\ fsys' # << >> /\ AllSound(fsys', acked')
         /\ visible' = visible /\ journal' = journal /\ Forward
<1>1. visible \in Directories /\ DirectoryIsSound(visible) /\ NotAfter(durable, visible)
  BY Facts, Zenon
<1>2. fsys' = <<visible>>
  BY Zenon DEF SyncDirectory
<1>3. PICK dir \in Directories : dir = visible
  BY <1>1, Zenon
<1>4. /\ fsys' \in Seq(Directories) /\ fsys' # << >> /\ AllSound(fsys', acked')
      /\ visible' = dir /\ Forward
  BY <1>1, <1>2, <1>3, LeavesOne, Zenon
<1>. QED  BY <1>3, <1>4, Zenon DEF journal

LEMMA LegacySyncKeeps ==
  ASSUME IInv, NEW r \in Roles, LegacySync(r) PROVE IInv' /\ Forward
<1>1. /\ handle["user"][r] = "renamed" /\ SyncDirectory /\ SetHandle("user", r, "open")
      /\ acked' = [acked EXCEPT ![r] = visible.src[r].version]
      /\ UNCHANGED <<migrator, runtime, receipt, store, faults, seen>>
  BY Zenon DEF LegacySync
<1>2. journal = None /\ migrator.step = "down" /\ runtime = "down" /\ receipt = FALSE
  BY <1>1, WriterIs, Zenon
<1>3. \A s \in Roles : visible.src[s].version \in 0..MaxVersion
  BY Facts, Zenon DEF Directories, Sources
<1>4. acked' \in [Roles -> 0..MaxVersion] /\ ReportedIn(visible, acked')
  <2>1. acked \in [Roles -> 0..MaxVersion] /\ Reported(visible)
    BY Facts, Zenon
  <2>2. \A s \in Roles : acked'[s] = IF s = r THEN visible.src[s].version ELSE acked[s]
    BY <1>1, <2>1, Zenon
  <2>3. \A s \in Roles : acked'[s] <= visible.src[s].version
    BY <1>3, <2>1, <2>2, MigrationAssumption DEF Reported
  <2>. QED  BY <1>1, <1>3, <2>1, <2>3, Zenon DEF ReportedIn
<1>5. /\ fsys' \in Seq(Directories) /\ fsys' # << >> /\ AllSound(fsys', acked')
      /\ visible' = visible /\ journal' = journal /\ Forward
  BY <1>1, <1>4, Syncs, Zenon
<1>6. handle' \in Handles /\ OneHandle(handle')
  <2>1. "user" \in Clients /\ handle \in Handles /\ OneHandle(handle)
    BY Facts, Zenon DEF Clients
  <2>2. /\ handle' \in Handles
        /\ \A d \in Clients, s \in Roles :
             handle'[d][s] = IF d = "user" /\ s = r THEN "open" ELSE handle[d][s]
    BY <1>1, <2>1, HandleUpdate
  <2>3. handle["user"][r] \in {"locked", "open", "renamed"}
    BY <1>1, Zenon
  <2>. QED  BY <2>1, <2>2, <2>3, OneHandleStays
<1>7. /\ migrator' \in [step : Steps, renamed : BOOLEAN] /\ migrator'.step = "down"
      /\ Knows(migrator', visible')
      /\ runtime' = "down" /\ runtime' \in Runtimes /\ receipt' = FALSE /\ seen' \in Images
      /\ store' \in Stores(Images) /\ faults' \in 0..MaxFaults
  BY <1>1, <1>2, <1>5, Facts, Zenon
<1>8. IInv'
  BY <1>2, <1>4, <1>5, <1>6, <1>7, Assemble, Zenon
<1>. QED  BY <1>5, <1>8, Zenon

(***************************************************************************)
(* The store.                                                              *)
(***************************************************************************)
LEMMA GenesisType ==
  ASSUME NEW plan \in Snapshots
  PROVE  /\ Genesis(plan) \in Images /\ Genesis(plan) # None
         /\ Genesis(plan).history # << >> /\ Genesis(plan).history[1].of = plan
<1>1. PICK h : h = <<[of |-> plan]>>
  BY Zenon
<1>2. h \in Seq([of : Snapshots]) /\ h # << >> /\ h[1].of = plan
  BY <1>1
<1>3. Genesis(plan) = [history |-> h]
  BY <1>1, Zenon DEF Genesis
<1>4. Genesis(plan) \in [history : Seq([of : Snapshots])]
  BY <1>2, <1>3
<1>. QED  BY <1>2, <1>3, <1>4, MigrationAssumption DEF Images

LEMMA StoreTypes ==
  ASSUME NEW s \in Stores(Images), NEW next \in Images
  PROVE  /\ Prepare(s, next) \in Stores(Images) /\ Commit(s, next) \in Stores(Images)
         /\ Abort(s, next) \in Stores(Images)
         /\ Commit(s, next).current = next /\ Abort(s, next).current = s.current
         /\ Prepare(s, next).current = s.current
         /\ s.current # next => Commit(s, next).prepared = None
         /\ s.prepared = next => Abort(s, next).prepared = None
         /\ s.current \in Images /\ s.prepared \in Images
<1>1. None \in Images
  BY Zenon DEF Images
<1>2. PICK im : im = Images
  BY Zenon
<1>. QED  BY <1>1, <1>2, Zenon DEF Stores, Prepare, Commit, Abort

LEMMA ReconciledTypes ==
  ASSUME store \in Stores(Images), NEW image \in Images
  PROVE  /\ Reconciled(image) \in Stores(Images) /\ Reconciled(image).current = image
         /\ Reconciled(image).prepared = None
<1>1. store.prepared \in Images
  BY StoreTypes, Zenon
<1>2. CASE store.current # image
  BY <1>2, StoreTypes, Zenon DEF Reconciled
<1>3. CASE store.current = image
  BY <1>1, <1>3, StoreTypes, Zenon DEF Reconciled
<1>. QED  BY <1>2, <1>3, Zenon

(***************************************************************************)
(* The migrator's control steps.                                           *)
(***************************************************************************)
LEMMA ControlStep ==
  ASSUME IInv, UNCHANGED <<fsys, handle, runtime, receipt, acked, faults, seen>>,
         runtime = "down", store' \in Stores(Images),
         NEW s \in Steps, Step(s), Knows([step |-> s, renamed |-> FALSE], visible),
         s # "down" => NoWriter(handle)
  PROVE  IInv' /\ Forward
<1>1. migrator' = [step |-> s, renamed |-> FALSE]
  BY Zenon DEF Step
<1>2. migrator' \in [step : Steps, renamed : BOOLEAN] /\ migrator'.step = s
  BY <1>1, Zenon
<1>3. /\ handle' \in Handles /\ OneHandle(handle') /\ faults' \in 0..MaxFaults
      /\ journal # None \/ migrator'.step # "down" => NoWriter(handle')
  BY <1>2, Facts, Zenon
<1>. QED  BY <1>1, <1>2, <1>3, SameDirectories, Zenon

LEMMA MigrateLockedKeeps == ASSUME IInv, MigrateLocked PROVE IInv' /\ Forward
<1>1. /\ journal = None /\ Quiescent(visible.src) /\ OneCursor(visible.src)
      /\ Step("prepare") /\ store' = store
      /\ UNCHANGED <<fsys, handle, runtime, receipt, acked, faults, seen>>
      /\ \A r \in Roles : handle["migrator"][r] = "open"
  BY Zenon DEF MigrateLocked, LegacyWriterAllowed
<1>2. NoWriter(handle)
  <2>1. OneHandle(handle)
    BY Facts, Zenon
  <2>. QED  BY <1>1, <2>1, Zenon DEF OneHandle, NoWriter, Clients
<1>3. runtime = "down" /\ store' \in Stores(Images)
  BY <1>1, Facts, RuntimeFacts, Zenon
<1>4. Knows([step |-> "prepare", renamed |-> FALSE], visible)
  BY <1>1, Zenon DEF Knows, journal
<1>5. "prepare" \in Steps
  BY Zenon DEF Steps
<1>. QED  BY <1>1, <1>2, <1>3, <1>4, <1>5, ControlStep, Zenon

LEMMA RecoverKeeps == ASSUME IInv, Recover PROVE IInv' /\ Forward
<1>1. /\ journal # None /\ journal.phase < 4 /\ store' = store
      /\ Step(IF journal.phase < 3 THEN "reserve" ELSE "reconcile")
      /\ UNCHANGED <<fsys, handle, runtime, receipt, acked, faults, seen>>
  BY PhaseValues, Zenon DEF Recover
<1>2. journal.phase \in 1..4
  BY <1>1, Facts, PhaseType, Zenon DEF journal
<1>3. PICK s \in {"reserve", "reconcile"} :
        Step(s) /\ s = IF journal.phase < 3 THEN "reserve" ELSE "reconcile"
  BY <1>1, Zenon
<1>4. Knows([step |-> s, renamed |-> FALSE], visible)
  <2>1. CASE journal.phase < 3
    BY <1>1, <1>2, <1>3, <2>1, Zenon DEF Knows, journal
  <2>2. CASE journal.phase = 3
    BY <1>1, <1>2, <1>3, <2>2, Zenon DEF Knows, journal
  <2>. QED  BY <1>1, <1>2, <2>1, <2>2
<1>5. NoWriter(handle) /\ runtime = "down" /\ store' \in Stores(Images)
  BY <1>1, <1>2, Facts, RuntimeFacts
<1>6. s \in Steps
  BY Zenon DEF Steps
<1>. QED  BY <1>1, <1>3, <1>4, <1>5, <1>6, ControlStep, Zenon

\* The steps after Recover: the plan is in the journal, and nobody writes.
LEMMA InProgress ==
  ASSUME IInv, migrator.step \in Steps \ {"down", "prepare", "verify"}
  PROVE  /\ journal # None /\ journal.plan \in Snapshots /\ journal.phase \in 1..4
         /\ Genesis(journal.plan) \in Images /\ Genesis(journal.plan) # None
         /\ NoWriter(handle) /\ runtime = "down" /\ store \in Stores(Images)
         /\ Knows(migrator, visible)
<1>1. /\ Knows(migrator, visible) /\ visible \in Directories /\ store \in Stores(Images)
      /\ NoWriter(handle)
  BY Facts, Zenon
<1>2. journal # None
  BY <1>1, Zenon DEF Knows, journal
<1>3. journal.plan \in Snapshots /\ journal.phase \in 1..4
  BY <1>1, <1>2, PhaseType, Zenon DEF journal
<1>. QED  BY <1>1, <1>2, <1>3, GenesisType, RuntimeFacts, Zenon

LEMMA DownIsKnown == \A dir : Knows([step |-> "down", renamed |-> FALSE], dir)
BY Zenon DEF Knows

LEMMA ReserveKeeps == ASSUME IInv, Reserve PROVE IInv' /\ Forward
<1>1. /\ migrator.step = "reserve"
      /\ UNCHANGED <<fsys, handle, runtime, receipt, acked, faults, seen>>
  BY Zenon DEF Reserve
<1>2. /\ journal # None /\ Genesis(journal.plan) \in Images /\ NoWriter(handle)
      /\ runtime = "down" /\ store \in Stores(Images) /\ Knows(migrator, visible)
  BY <1>1, InProgress, Zenon DEF Steps
<1>3. PICK s \in {"install", "down"} :
        Step(s) /\ (store' = store \/ store' = Prepare(store, Genesis(journal.plan)))
  BY Zenon DEF Reserve
<1>4. store' \in Stores(Images)
  BY <1>2, <1>3, StoreTypes, Zenon
<1>5. Knows([step |-> s, renamed |-> FALSE], visible)
  <2>1. journal.phase < 3
    BY <1>1, <1>2, Zenon DEF Knows, journal
  <2>. QED  BY <1>2, <2>1, DownIsKnown, Zenon DEF Knows, journal
<1>6. s \in Steps
  BY Zenon DEF Steps
<1>. QED  BY <1>1, <1>2, <1>3, <1>4, <1>5, <1>6, ControlStep, Zenon

LEMMA InstallTargetKeeps == ASSUME IInv, InstallTarget PROVE IInv' /\ Forward
<1>1. /\ migrator.step = "install" /\ store' = store
      /\ UNCHANGED <<fsys, handle, runtime, receipt, acked, faults, seen>>
  BY Zenon DEF InstallTarget
<1>2. /\ journal # None /\ journal.phase \in 1..4 /\ NoWriter(handle)
      /\ runtime = "down" /\ store \in Stores(Images) /\ Knows(migrator, visible)
  BY <1>1, InProgress, Zenon DEF Steps
<1>3. journal.phase \in {1, 2}
  BY <1>1, <1>2 DEF Knows, journal
<1>4. PICK s \in {"reconcile", "install_phase", "install_target", "down"} :
        /\ Step(s)
        /\ s = "reconcile" => journal.phase = 2
        /\ s = "install_phase" => visible.target = Genesis(journal.plan) /\ journal.phase # 2
        /\ s = "install_target" => visible.target = None /\ journal.phase = 1
  <2>1. CASE journal.phase = 2
    <3>1. Step(IF visible.target = Genesis(journal.plan) THEN "reconcile" ELSE "down")
      BY <2>1, PhaseValues DEF InstallTarget
    <3>. QED  BY <2>1, <3>1, Zenon
  <2>2. CASE journal.phase = 1
    <3>1. Step(IF visible.target = Genesis(journal.plan) THEN "install_phase"
               ELSE IF visible.target = None THEN "install_target" ELSE "down")
      BY <2>2, PhaseValues DEF InstallTarget
    <3>2. journal.phase # 2
      BY <2>2
    <3>. QED  BY <2>2, <3>1, <3>2, Zenon
  <2>. QED  BY <1>3, <2>1, <2>2, Zenon
<1>5. Knows([step |-> s, renamed |-> FALSE], visible)
  BY <1>2, <1>3, <1>4, Zenon DEF Knows, journal
<1>6. s \in Steps /\ store' \in Stores(Images)
  BY <1>1, <1>2, Zenon DEF Steps
<1>. QED  BY <1>1, <1>2, <1>4, <1>5, <1>6, ControlStep, Zenon

LEMMA ReconcileKeeps == ASSUME IInv, ReconcileTarget PROVE IInv' /\ Forward
<1>1. /\ migrator.step = "reconcile"
      /\ UNCHANGED <<fsys, handle, runtime, receipt, acked, faults, seen>>
  BY Zenon DEF ReconcileTarget
<1>2. /\ journal # None /\ Genesis(journal.plan) \in Images /\ NoWriter(handle)
      /\ runtime = "down" /\ store \in Stores(Images) /\ Knows(migrator, visible)
  BY <1>1, InProgress, Zenon DEF Steps
<1>3. PICK s \in {"lock", "down"} :
        Step(s) /\ (store' = store \/ store' = Reconciled(Genesis(journal.plan)))
  BY Zenon DEF ReconcileTarget
<1>4. store' \in Stores(Images)
  BY <1>2, <1>3, ReconciledTypes, Zenon
<1>5. Knows([step |-> s, renamed |-> FALSE], visible)
  <2>1. journal.phase \in {2, 3}
    BY <1>1, <1>2, Zenon DEF Knows, journal
  <2>. QED  BY <1>2, <2>1, DownIsKnown, Zenon DEF Knows, journal
<1>6. s \in Steps
  BY Zenon DEF Steps
<1>. QED  BY <1>1, <1>2, <1>3, <1>4, <1>5, <1>6, ControlStep, Zenon

LEMMA LockKeeps == ASSUME IInv, LockAndPreflight PROVE IInv' /\ Forward
<1>1. /\ migrator.step = "lock" /\ store' = store
      /\ UNCHANGED <<fsys, handle, runtime, receipt, acked, faults, seen>>
  BY Zenon DEF LockAndPreflight
<1>2. /\ journal # None /\ NoWriter(handle)
      /\ runtime = "down" /\ store \in Stores(Images) /\ Knows(migrator, visible)
  BY <1>1, InProgress, Zenon DEF Steps
<1>3. PICK s \in {"guard", "down"} : Step(s)
  BY Zenon DEF LockAndPreflight
<1>4. Knows([step |-> s, renamed |-> FALSE], visible)
  <2>1. journal.phase \in {2, 3}
    BY <1>1, <1>2, Zenon DEF Knows, journal
  <2>. QED  BY <1>2, <2>1, DownIsKnown, Zenon DEF Knows, journal
<1>5. s \in Steps /\ store' \in Stores(Images)
  BY <1>1, <1>2, Zenon DEF Steps
<1>. QED  BY <1>1, <1>2, <1>3, <1>4, <1>5, ControlStep, Zenon

(***************************************************************************)
(* The migrator's writes.                                                  *)
(***************************************************************************)
LEMMA DirectoryFields ==
  ASSUME NEW d \in Directories
  PROVE  /\ d.journal \in JournalFiles /\ d.target \in Images /\ d.src \in [Roles -> Sources]
         /\ d = [journal |-> d.journal, target |-> d.target, src |-> d.src]
         /\ d.journal # None =>
              /\ d.journal \in [phase : 1..4, plan : Snapshots]
              /\ d.journal.phase \in 1..4 /\ d.journal.plan \in Snapshots
BY Zenon DEF Directories, JournalFiles

\* The journal moves to a later phase.
LEMMA PhaseWrite ==
  ASSUME NEW d \in Directories, DirectoryIsSound(d), d.journal # None,
         NEW p \in 1..4, p >= d.journal.phase, p >= 2 => d.target # None,
         p = 4 => \A r \in Roles : d.src[r].retired_by # None,
         NEW e, e = [d EXCEPT !.journal.phase = p]
  PROVE  /\ e \in Directories /\ DirectoryIsSound(e) /\ NotAfter(d, e)
         /\ e.journal # None /\ e.journal.phase = p /\ e.journal.plan = d.journal.plan
         /\ e.target = d.target /\ e.src = d.src
<1>1. /\ d.journal \in [phase : 1..4, plan : Snapshots] /\ d.target \in Images
      /\ d.src \in [Roles -> Sources] /\ d.journal.phase \in 1..4
  BY DirectoryFields, Zenon
<1>2. e.target = d.target /\ e.src = d.src /\ e.journal = [d.journal EXCEPT !.phase = p]
  BY Zenon DEF Directories
<1>3. /\ e.journal \in [phase : 1..4, plan : Snapshots] /\ e.journal.phase = p
      /\ e.journal.plan = d.journal.plan
  BY <1>1, <1>2
<1>4. e.journal # None
  BY <1>3, MigrationAssumption, Zenon
<1>5. e \in Directories
  BY <1>1, <1>2, <1>3, Zenon DEF Directories, JournalFiles
<1>6. NotAfter(d, e)
  BY <1>3, <1>4, Zenon DEF NotAfter
<1>7. DirectoryIsSound(e)
  <2>1. /\ \A r \in Roles : d.src[r].version = d.journal.plan[r]
        /\ Quiescent(d.src) /\ OneCursor(d.src)
        /\ d.target # None =>
             /\ d.target.history # << >> /\ d.target.history[1].of = d.journal.plan
             /\ d.journal.phase < 4 => d.target = Genesis(d.journal.plan)
        /\ \A r \in Roles :
             /\ d.src[r].retired_by \in {None, d.journal.plan}
             /\ d.src[r].retired_by # None => d.journal.phase >= 3
    BY PhaseValues, Zenon DEF DirectoryIsSound
  <2>2. p < 4 => d.journal.phase < 4
    BY <1>1
  <2>3. d.journal.phase >= 3 => p >= 3
    BY <1>1
  <2>. QED  BY <1>2, <1>3, <1>4, <2>1, <2>2, <2>3, PhaseValues, ZenonT(30) DEF DirectoryIsSound
<1>. QED  BY <1>2, <1>3, <1>4, <1>5, <1>6, <1>7, Zenon

\* Prepared: the plan is the versions of the sources.
LEMMA PreparedWrite ==
  ASSUME NEW d \in Directories, DirectoryIsSound(d), d.journal = None,
         Quiescent(d.src), OneCursor(d.src), NEW e, e = Prepared(d)
  PROVE  /\ e \in Directories /\ DirectoryIsSound(e) /\ NotAfter(d, e)
         /\ e.journal # None /\ e.journal.phase = 1 /\ e.src = d.src
<1>1. d.target \in Images /\ d.src \in [Roles -> Sources]
  BY DirectoryFields, Zenon
<1>2. PICK plan : plan = [r \in Roles |-> d.src[r].version]
  BY Zenon
<1>3. plan \in Snapshots /\ \A r \in Roles : d.src[r].version = plan[r]
  BY <1>1, <1>2, Zenon DEF Snapshots, Sources
<1>4. /\ e.journal = [phase |-> 1, plan |-> plan] /\ e.target = d.target /\ e.src = d.src
  BY <1>2, PhaseValues, Zenon DEF Prepared, Directories
<1>5. e.journal \in [phase : 1..4, plan : Snapshots] /\ e.journal.phase = 1 /\ e.journal.plan = plan
  BY <1>3, <1>4
<1>6. e.journal # None
  BY <1>5, MigrationAssumption, Zenon
<1>7. e \in Directories
  <2>1. e = [journal |-> e.journal, target |-> e.target, src |-> e.src]
    BY Zenon DEF Prepared, Directories
  <2>. QED  BY <1>1, <1>4, <1>5, <2>1, Zenon DEF Directories, JournalFiles
<1>8. NotAfter(d, e)
  BY Zenon DEF NotAfter
<1>9. DirectoryIsSound(e)
  <2>1. d.target = None /\ \A r \in Roles : d.src[r].retired_by = None
    BY Zenon DEF DirectoryIsSound
  <2>. QED  BY <1>3, <1>4, <1>5, <1>6, <2>1, PhaseValues DEF DirectoryIsSound
<1>. QED  BY <1>4, <1>5, <1>6, <1>7, <1>8, <1>9, Zenon

\* install_target_v2: the target is the genesis image of the plan.
LEMMA TargetWrite ==
  ASSUME NEW d \in Directories, DirectoryIsSound(d), d.journal # None,
         NEW e, e = [d EXCEPT !.target = Genesis(d.journal.plan)]
  PROVE  /\ e \in Directories /\ DirectoryIsSound(e) /\ NotAfter(d, e)
         /\ e.journal = d.journal /\ e.src = d.src /\ e.target = Genesis(d.journal.plan)
<1>1. /\ d.journal \in JournalFiles /\ d.src \in [Roles -> Sources]
      /\ d.journal.plan \in Snapshots /\ d.journal.phase \in 1..4
  BY DirectoryFields, Zenon
<1>2. e.journal = d.journal /\ e.src = d.src /\ e.target = Genesis(d.journal.plan)
  BY Zenon DEF Directories
<1>3. /\ e.target \in Images /\ e.target # None /\ e.target.history # << >>
      /\ e.target.history[1].of = d.journal.plan
  BY <1>1, <1>2, GenesisType, Zenon
<1>4. e \in Directories
  BY <1>1, <1>2, <1>3, Zenon DEF Directories
<1>5. NotAfter(d, e)
  BY <1>1, <1>2 DEF NotAfter
<1>6. DirectoryIsSound(e)
  BY <1>2, <1>3, Zenon DEF DirectoryIsSound
<1>. QED  BY <1>2, <1>4, <1>5, <1>6, Zenon

\* A source is replaced by a tombstone under its plan.
LEMMA TombstoneWrite ==
  ASSUME NEW d \in Directories, DirectoryIsSound(d), d.journal # None,
         d.journal.phase = 3, NEW r \in Roles,
         NEW e, e = [d EXCEPT !.src[r].retired_by = d.journal.plan]
  PROVE  /\ e \in Directories /\ DirectoryIsSound(e) /\ NotAfter(d, e)
         /\ e.journal = d.journal /\ e.target = d.target
         /\ \A s \in Roles : e.src[s].version = d.src[s].version
<1>1. /\ d.journal \in JournalFiles /\ d.src \in [Roles -> Sources] /\ d.target \in Images
      /\ d.journal.plan \in Snapshots
  BY DirectoryFields, Zenon
<1>2. PICK src : src = [d.src EXCEPT ![r].retired_by = d.journal.plan]
  BY Zenon
<1>3. e.journal = d.journal /\ e.target = d.target /\ e.src = src
  BY <1>2, Zenon DEF Directories
<1>4. /\ src \in [Roles -> Sources]
      /\ \A s \in Roles : /\ src[s].version = d.src[s].version
                          /\ src[s].quiescent = d.src[s].quiescent
                          /\ src[s].retired_by =
                               IF s = r THEN d.journal.plan ELSE d.src[s].retired_by
  BY <1>1, <1>2, Zenon DEF Sources
<1>5. e \in Directories
  BY <1>1, <1>3, <1>4, Zenon DEF Directories
<1>6. NotAfter(d, e)
  BY <1>3 DEF NotAfter
<1>7. Quiescent(d.src) /\ OneCursor(d.src)
  BY Zenon DEF DirectoryIsSound
<1>8. Quiescent(src) /\ OneCursor(src)
  BY <1>4, <1>7 DEF Quiescent, OneCursor, Roles
<1>9. DirectoryIsSound(e)
  <2>1. /\ \A s \in Roles : d.src[s].version = d.journal.plan[s]
        /\ d.target # None
        /\ d.target.history # << >> /\ d.target.history[1].of = d.journal.plan
        /\ d.target = Genesis(d.journal.plan)
        /\ \A s \in Roles : d.src[s].retired_by \in {None, d.journal.plan}
    BY PhaseValues DEF DirectoryIsSound
  <2>2. /\ e.journal # None /\ e.journal.plan = d.journal.plan /\ e.src = src
        /\ e.target = d.target /\ e.journal.phase >= Phase.OwnershipCommitted
        /\ e.journal.phase # Phase.LegacyRetired
    BY <1>3, PhaseValues
  <2>3. \A s \in Roles : src[s].version = d.journal.plan[s]
    BY <1>4, <2>1, Zenon
  <2>4. \A s \in Roles : src[s].retired_by \in {None, d.journal.plan}
    BY <1>4, <2>1, Zenon
  <2>. QED  BY <1>8, <2>1, <2>2, <2>3, <2>4, Zenon DEF DirectoryIsSound
<1>. QED  BY <1>3, <1>4, <1>5, <1>6, <1>9, Zenon

LEMMA PhasePersistedIs ==
  ASSUME NEW d, NEW p, NEW e \in PhasePersisted(d, p)
  PROVE  e = [d EXCEPT !.journal.phase = p]
BY Zenon DEF PhasePersisted

\* The directory after the migrator's next write.
LEMMA NextWriteIsSound ==
  ASSUME IInv, ~migrator.renamed, NEW dir \in NextWrite
  PROVE  /\ dir \in Directories /\ DirectoryIsSound(dir) /\ Reported(dir)
         /\ NotAfter(visible, dir)
         /\ Knows([step |-> migrator.step, renamed |-> TRUE], dir)
         /\ migrator.step # "down" /\ receipt = FALSE
<1>1. /\ visible \in Directories /\ DirectoryIsSound(visible) /\ Reported(visible)
      /\ migrator.step \in Steps /\ Knows(migrator, visible) /\ receipt \in BOOLEAN
  BY Facts, Zenon
<1>2. receipt => visible.journal # None /\ visible.journal.phase = 4
  BY RuntimeFacts, Zenon DEF journal
<1>3. migrator.step \in {"prepare", "install_target", "install_phase", "guard"}
  BY <1>1, ZenonT(30) DEF NextWrite, Steps
<1>4. CASE migrator.step = "prepare"
  <2>1. dir = Prepared(visible)
    BY <1>4, Zenon DEF NextWrite
  <2>2. visible.journal = None /\ Quiescent(visible.src) /\ OneCursor(visible.src)
    BY <1>1, <1>4, Zenon DEF Knows
  <2>3. /\ dir \in Directories /\ DirectoryIsSound(dir) /\ NotAfter(visible, dir)
        /\ dir.journal # None /\ dir.journal.phase = 1 /\ dir.src = visible.src
    BY <1>1, <2>1, <2>2, PreparedWrite, Zenon
  <2>. QED  BY <1>1, <1>2, <1>4, <2>2, <2>3, Zenon DEF Knows, Reported
<1>5. CASE migrator.step = "install_target"
  <2>1. dir = [visible EXCEPT !.target = Genesis(visible.journal.plan)]
    BY <1>5, Zenon DEF NextWrite, journal
  <2>2. visible.journal # None /\ visible.journal.phase = 1
    BY <1>1, <1>5, Zenon DEF Knows
  <2>3. /\ dir \in Directories /\ DirectoryIsSound(dir) /\ NotAfter(visible, dir)
        /\ dir.journal = visible.journal /\ dir.src = visible.src
        /\ dir.target = Genesis(visible.journal.plan)
    BY <1>1, <2>1, <2>2, TargetWrite, Zenon
  <2>. QED  BY <1>1, <1>2, <1>5, <2>2, <2>3 DEF Knows, Reported
<1>6. CASE migrator.step = "install_phase"
  <2>1. dir = [visible EXCEPT !.journal.phase = 2]
    BY <1>6, PhaseValues, PhasePersistedIs, Zenon DEF NextWrite
  <2>2. /\ visible.journal # None /\ visible.journal.phase = 1
        /\ visible.target = Genesis(visible.journal.plan)
    BY <1>1, <1>6, Zenon DEF Knows
  <2>3. visible.target # None
    BY <1>1, <2>2, DirectoryFields, GenesisType, Zenon
  <2>4. /\ dir \in Directories /\ DirectoryIsSound(dir) /\ NotAfter(visible, dir)
        /\ dir.journal # None /\ dir.journal.phase = 2
        /\ dir.journal.plan = visible.journal.plan
        /\ dir.target = visible.target /\ dir.src = visible.src
    BY <1>1, <2>1, <2>2, <2>3, PhaseWrite, SMTT(30)
  <2>. QED  BY <1>1, <1>2, <1>6, <2>2, <2>4 DEF Knows, Reported
<1>7. CASE migrator.step = "guard"
  <2>1. dir \in GuardedWrite(visible)
    BY <1>7, Zenon DEF NextWrite
  <2>2. visible.journal # None /\ visible.journal.phase \in {2, 3}
    BY <1>1, <1>7, Zenon DEF Knows
  <2>3. visible.target # None /\ visible.journal.plan \in Snapshots
    BY <1>1, <2>2, PhaseValues, DirectoryFields, SMTT(30) DEF DirectoryIsSound
  <2>4. ASSUME dir \in Directories, DirectoryIsSound(dir), NotAfter(visible, dir),
               dir.journal # None, dir.journal.phase \in {3, 4},
               \A r \in Roles : dir.src[r].version = visible.src[r].version
        PROVE  /\ Reported(dir) /\ receipt = FALSE
               /\ Knows([step |-> migrator.step, renamed |-> TRUE], dir)
    <3>1. Reported(dir)
      BY <1>1, <2>4, Zenon DEF Reported
    <3>2. receipt = FALSE
      BY <1>1, <1>2, <2>2
    <3>. QED  BY <1>7, <2>4, <3>1, <3>2, Zenon DEF Knows
  <2>5. CASE visible.journal.phase = 2
    <3>1. dir = [visible EXCEPT !.journal.phase = 3]
      <4>1. dir \in PhasePersisted(visible, 3)
        BY <2>1, <2>5, PhaseValues DEF GuardedWrite
      <4>. QED  BY <4>1, PhasePersistedIs, Zenon
    <3>2. /\ dir \in Directories /\ DirectoryIsSound(dir) /\ NotAfter(visible, dir)
          /\ dir.journal # None /\ dir.journal.phase = 3 /\ dir.src = visible.src
      BY <1>1, <2>2, <2>3, <2>5, <3>1, PhaseWrite
    <3>. QED  BY <1>7, <2>4, <3>2, Zenon
  <2>6. CASE visible.journal.phase = 3 /\ \E r \in Roles : ~Retired(r)
    <3>1. PICK r \in Roles : dir = [visible EXCEPT !.src[r].retired_by = visible.journal.plan]
      <4>1. dir \in Tombstoned(visible)
        BY <2>1, <2>6, PhaseValues DEF GuardedWrite
      <4>. QED  BY <4>1, Zenon DEF Tombstoned
    <3>2. /\ dir \in Directories /\ DirectoryIsSound(dir) /\ NotAfter(visible, dir)
          /\ dir.journal = visible.journal
          /\ \A s \in Roles : dir.src[s].version = visible.src[s].version
      BY <1>1, <2>2, <2>6, <3>1, TombstoneWrite
    <3>. QED  BY <1>7, <2>2, <2>4, <2>6, <3>2, Zenon
  <2>7. CASE visible.journal.phase = 3 /\ \A r \in Roles : Retired(r)
    <3>1. dir = [visible EXCEPT !.journal.phase = 4]
      <4>1. dir \in PhasePersisted(visible, 4)
        BY <2>1, <2>7, PhaseValues DEF GuardedWrite
      <4>. QED  BY <4>1, PhasePersistedIs, Zenon
    <3>2. \A r \in Roles : visible.src[r].retired_by # None
      BY <2>3, <2>7, MigrationAssumption, Zenon DEF Retired, journal
    <3>3. /\ dir \in Directories /\ DirectoryIsSound(dir) /\ NotAfter(visible, dir)
          /\ dir.journal # None /\ dir.journal.phase = 4 /\ dir.src = visible.src
      BY <1>1, <2>2, <2>3, <2>7, <3>1, <3>2, PhaseWrite
    <3>. QED  BY <1>7, <2>4, <3>3, Zenon
  <2>. QED  BY <2>2, <2>5, <2>6, <2>7, Zenon
<1>. QED  BY <1>3, <1>4, <1>5, <1>6, <1>7, Zenon

LEMMA MigratorRenameKeeps == ASSUME IInv, MigratorRename PROVE IInv' /\ Forward
<1>1. /\ ~migrator.renamed /\ migrator' = [migrator EXCEPT !.renamed = TRUE]
      /\ UNCHANGED <<handle, runtime, receipt, store, acked, faults, seen>>
  BY Zenon DEF MigratorRename
<1>2. PICK dir \in NextWrite : RenameTo(dir)
  BY Zenon DEF MigratorRename
<1>3. /\ dir \in Directories /\ DirectoryIsSound(dir) /\ Reported(dir)
      /\ NotAfter(visible, dir)
      /\ Knows([step |-> migrator.step, renamed |-> TRUE], dir)
      /\ migrator.step # "down" /\ receipt = FALSE
  BY <1>1, NextWriteIsSound, Zenon
<1>4. /\ fsys' \in Seq(Directories) /\ fsys' # << >> /\ AllSound(fsys', acked')
      /\ visible' = dir /\ Forward
  BY <1>1, <1>2, <1>3, Renames, Zenon
<1>5. /\ migrator' = [step |-> migrator.step, renamed |-> TRUE]
      /\ migrator' \in [step : Steps, renamed : BOOLEAN]
  BY <1>1, Facts, Zenon
<1>6. Knows(migrator', visible')
  BY <1>3, <1>4, <1>5, Zenon
<1>7. /\ handle' \in Handles /\ OneHandle(handle') /\ NoWriter(handle')
      /\ runtime' = "down" /\ runtime' \in Runtimes /\ receipt' = FALSE /\ seen' \in Images
      /\ store' \in Stores(Images) /\ acked' \in [Roles -> 0..MaxVersion]
      /\ faults' \in 0..MaxFaults
  <2>1. handle \in Handles /\ OneHandle(handle) /\ store \in Stores(Images)
        /\ acked \in [Roles -> 0..MaxVersion] /\ faults \in 0..MaxFaults
        /\ seen \in Images /\ runtime \in Runtimes
    BY Facts, Zenon
  <2>2. NoWriter(handle)
    BY <1>3, Facts, Zenon
  <2>3. runtime = "down"
    <3>1. CASE migrator.step # "verify"
      BY <1>3, <3>1, RuntimeFacts, Zenon
    <3>2. CASE migrator.step = "verify"
      <4>1. NextWrite = {}
        BY <3>2 DEF NextWrite
      <4>. QED  BY <1>2, <4>1, Zenon
    <3>. QED  BY <3>1, <3>2, Zenon
  <2>. QED  BY <1>1, <1>3, <2>1, <2>2, <2>3, Zenon
<1>8. IInv'
  BY <1>4, <1>5, <1>6, <1>7, Assemble, Zenon
<1>. QED  BY <1>4, <1>8, Zenon

LEMMA MigratorSyncKeeps == ASSUME IInv, MigratorSync PROVE IInv' /\ Forward
<1>1. /\ migrator.renamed /\ SyncDirectory
      /\ handle' = [handle EXCEPT !["migrator"] = AllClosed]
      /\ UNCHANGED <<runtime, store, acked, faults, seen>>
      /\ receipt' = (receipt \/ journal.phase = 4)
  BY PhaseValues, Zenon DEF MigratorSync
<1>2. /\ visible \in Directories /\ Knows(migrator, visible) /\ ReportedIn(visible, acked)
      /\ migrator.step \in Steps /\ receipt \in BOOLEAN /\ NoWriter(handle)
      /\ handle \in Handles /\ OneHandle(handle) /\ runtime = "down"
      /\ migrator.step \in {"prepare", "install_target", "install_phase", "guard"}
  <2>1. /\ visible \in Directories /\ Knows(migrator, visible) /\ Reported(visible)
        /\ migrator.step \in Steps /\ receipt \in BOOLEAN
        /\ handle \in Handles /\ OneHandle(handle)
    BY Facts, Zenon
  <2>2. migrator.step \in {"prepare", "install_target", "install_phase", "guard"}
    BY <1>1, <2>1, Zenon DEF Knows
  <2>3. NoWriter(handle) /\ runtime = "down"
    BY <2>2, Facts, RuntimeFacts, Zenon
  <2>. QED  BY <2>1, <2>2, <2>3, Zenon DEF Reported, ReportedIn
<1>3. /\ fsys' \in Seq(Directories) /\ fsys' # << >> /\ AllSound(fsys', acked')
      /\ visible' = visible /\ journal' = journal /\ Forward
  BY <1>1, <1>2, Syncs, Zenon
<1>4. PICK s \in {"reserve", "install_phase", "reconcile", "down", "guard"} :
        /\ Step(s)
        /\ migrator.step = "prepare" => s = "reserve"
        /\ migrator.step = "install_target" => s = "install_phase"
        /\ migrator.step = "install_phase" => s = "reconcile"
        /\ migrator.step = "guard" => s = IF journal.phase = 4 THEN "down" ELSE "guard"
  <2>1. CASE migrator.step = "prepare"
    BY <2>1, Zenon DEF MigratorSync
  <2>2. CASE migrator.step = "install_target"
    BY <2>2, Zenon DEF MigratorSync
  <2>3. CASE migrator.step = "install_phase"
    BY <2>3, Zenon DEF MigratorSync
  <2>4. CASE migrator.step = "guard"
    BY <2>4, PhaseValues, Zenon DEF MigratorSync
  <2>. QED  BY <1>2, <2>1, <2>2, <2>3, <2>4, Zenon
<1>5. journal # None
  BY <1>1, <1>2, Zenon DEF Knows, journal
<1>6. Knows([step |-> s, renamed |-> FALSE], visible)
  BY <1>1, <1>2, <1>4, <1>5, DownIsKnown DEF Knows, journal
<1>7. migrator' \in [step : Steps, renamed : BOOLEAN] /\ Knows(migrator', visible')
  BY <1>3, <1>4, <1>6, Zenon DEF Step, Steps
<1>8. handle' \in Handles /\ OneHandle(handle') /\ NoWriter(handle')
  <2>1. "migrator" \in Clients
    BY Zenon DEF Clients
  <2>. QED  BY <1>1, <1>2, <2>1, ClosedHandles, Zenon
<1>9. /\ receipt' \in BOOLEAN /\ runtime' = "down" /\ runtime' \in Runtimes /\ seen' \in Images
      /\ receipt' => journal' # None /\ journal'.phase = 4
      /\ store' \in Stores(Images) /\ acked' \in [Roles -> 0..MaxVersion]
      /\ faults' \in 0..MaxFaults
  <2>1. receipt' => journal' # None /\ journal'.phase = 4
    BY <1>1, <1>3, <1>5, RuntimeFacts, Zenon
  <2>2. receipt' \in BOOLEAN
    BY <1>1, <1>2, Zenon
  <2>. QED  BY <1>1, <1>2, <2>1, <2>2, Facts, Zenon
<1>10. IInv'
  BY <1>3, <1>7, <1>8, <1>9, Assemble, Zenon
<1>. QED  BY <1>3, <1>10, Zenon

LEMMA MigratorWriteFailsKeeps == ASSUME IInv, MigratorWriteFails PROVE IInv' /\ Forward
<1>1. /\ Fault("io") /\ Step("down")
      /\ handle' = [handle EXCEPT !["migrator"] = AllClosed]
      /\ UNCHANGED <<fsys, acked, receipt, runtime, seen>> /\ store' = store
  BY Zenon DEF MigratorWriteFails
<1>2. "migrator" \in Clients
  BY Zenon DEF Clients
<1>3. handle' \in Handles /\ OneHandle(handle') /\ (journal # None => NoWriter(handle'))
  BY <1>1, <1>2, Facts, ClosedHandles, Zenon
<1>4. /\ migrator' \in [step : Steps, renamed : BOOLEAN] /\ migrator'.step = "down"
      /\ Knows(migrator', visible)
  BY <1>1, DownIsKnown, Zenon DEF Step, Steps
<1>5. faults' \in 0..MaxFaults /\ store' \in Stores(Images)
  BY <1>1, FaultType, Facts, Zenon
<1>. QED  BY <1>1, <1>3, <1>4, <1>5, SameDirectories, Zenon

(***************************************************************************)
(* The V2 wallet.                                                          *)
(***************************************************************************)
LEMMA ReadBoundTargetKeeps == ASSUME IInv, ReadBoundTarget PROVE IInv' /\ Forward
<1>1. /\ UNCHANGED <<fsys, handle, runtime, receipt, store, acked, faults>>
      /\ journal # None /\ journal.phase = 4 /\ runtime = "down" /\ seen' = visible.target
      /\ migrator' = [step |-> "verify", renamed |-> FALSE]
  BY PhaseValues, Zenon DEF ReadBoundTarget, Step
<1>2. visible' = visible /\ journal' = journal /\ durable' = durable
  BY <1>1, Zenon DEF visible, journal, durable
<1>3. seen' \in Images
  BY <1>1, Facts, DirectoryFields, Zenon
<1>4. migrator' \in [step : Steps, renamed : BOOLEAN] /\ Knows(migrator', visible')
  BY <1>1, <1>2, Zenon DEF Knows, journal, Steps
<1>5. IInv'
  BY <1>1, <1>2, <1>3, <1>4, Facts, RuntimeFacts, Assemble, Zenon
<1>6. Forward
  BY <1>2, Facts, NotAfterItself, Zenon DEF Forward
<1>. QED  BY <1>5, <1>6, Zenon

\* A wallet that is up has nothing reserved, so that a repeated recovery,
\* whatever it has read, leaves the store as it is.
LEMMA ReconcileBeside ==
  ASSUME IInv, runtime = "up", ReconcileOk(seen) PROVE Reconciled(seen) = store
<1>1. store.prepared = None
  BY RuntimeFacts, Zenon
<1>2. CASE store.current = seen
  BY <1>1, <1>2, Zenon DEF Reconciled
<1>3. CASE store.current # seen
  BY <1>1, <1>3, Zenon DEF ReconcileOk, CommitOk, AlreadyCurrent, Succeeds
<1>. QED  BY <1>2, <1>3, Zenon

LEMMA VerifyRetiredKeeps == ASSUME IInv, VerifyRetired PROVE IInv' /\ Forward
<1>1. /\ UNCHANGED <<fsys, handle, runtime, acked, faults>> /\ migrator.step = "verify"
      /\ seen' = None /\ migrator' = [step |-> "down", renamed |-> FALSE]
      /\ \/ /\ ReconcileOk(seen) /\ store' = Reconciled(seen)
            /\ receipt' = (receipt \/ \A r \in Roles : SourceUnlocked(r) /\ Retired(r))
         \/ store' = store /\ receipt' = receipt
  BY Zenon DEF VerifyRetired, Step
<1>2. visible' = visible /\ journal' = journal /\ durable' = durable
  BY <1>1, Zenon DEF visible, journal, durable
<1>3. journal # None /\ journal.phase = 4
  BY <1>1, Facts, Zenon DEF Knows, journal
<1>4. seen' \in Images /\ receipt' \in BOOLEAN
  BY <1>1, Facts, Zenon DEF Images
<1>5. store' \in Stores(Images)
  BY <1>1, Facts, ReconciledTypes, Zenon
<1>6. runtime' = "up" => store'.current = visible'.target /\ store'.prepared = None
  BY <1>1, <1>2, RuntimeFacts, ReconcileBeside, Zenon
<1>7. migrator' \in [step : Steps, renamed : BOOLEAN] /\ Knows(migrator', visible')
      /\ migrator'.step = "down"
  BY <1>1, DownIsKnown, Zenon DEF Steps
<1>8. IInv'
  BY <1>1, <1>2, <1>3, <1>4, <1>5, <1>6, <1>7, Facts, RuntimeFacts, Assemble, Zenon
<1>9. Forward
  BY <1>2, Facts, NotAfterItself, Zenon DEF Forward
<1>. QED  BY <1>8, <1>9, Zenon

\* Outside the guard, a migrator that finds the last phase is recovering it.
LEMMA FinishedStep ==
  ASSUME IInv, journal # None, journal.phase = 4, migrator.step # "guard"
  PROVE  migrator.step \in {"down", "verify"} /\ ~migrator.renamed
<1>1. Knows(migrator, visible) /\ migrator.step \in Steps /\ migrator.renamed \in BOOLEAN
  BY Facts, Zenon
<1>. QED  BY <1>1 DEF Knows, journal, Steps

LEMMA StartRuntimeKeeps == ASSUME IInv, StartRuntime PROVE IInv' /\ Forward
<1>1. /\ UNCHANGED <<fsys, handle, migrator, receipt, acked, faults, seen>>
      /\ receipt /\ migrator.step # "guard"
      /\ store' = Reconciled(visible.target) /\ runtime' = "up"
  BY Zenon DEF StartRuntime
<1>2. journal # None /\ journal.phase = 4
  BY <1>1, RuntimeFacts, Zenon
<1>3. migrator.step \in {"down", "verify"}
  BY <1>1, <1>2, FinishedStep, Zenon
<1>4. visible' = visible /\ journal' = journal /\ durable' = durable
  BY <1>1, Zenon DEF visible, journal, durable
<1>5. store' \in Stores(Images) /\ store'.current = visible.target /\ store'.prepared = None
  BY <1>1, Facts, DirectoryFields, ReconciledTypes, Zenon
<1>6. "up" \in Runtimes
  BY Zenon DEF Runtimes
<1>7. IInv'
  BY <1>1, <1>2, <1>3, <1>4, <1>5, <1>6, Facts, Assemble, Zenon
<1>8. Forward
  BY <1>4, Facts, NotAfterItself, Zenon DEF Forward
<1>. QED  BY <1>7, <1>8, Zenon

\* A history with its last entry repeated.
LEMMA HistoryGrows ==
  ASSUME NEW S, NEW h \in Seq(S), h # << >>, NEW g, g = Append(h, h[Len(h)])
  PROVE  g \in Seq(S) /\ g # << >> /\ g[1] = h[1]
<1>1. Len(h) \in Nat \ {0} /\ DOMAIN h = 1..Len(h)
  BY LenProperties, EmptySeq, Zenon
<1>2. PICK x \in S : x = h[Len(h)]
  BY <1>1, ElementOfSeq
<1>3. g \in Seq(S) /\ Len(g) = Len(h) + 1 /\ \A i \in 1..Len(h) : g[i] = h[i]
  BY <1>2, AppendProperties
<1>. QED  BY <1>1, <1>3, EmptySeq

\* The target with one more generation.
WithTarget(dir, image) == [dir EXCEPT !.target = image]

LEMMA NextImageType ==
  ASSUME NEW image \in Images, image # None, image.history # << >>,
         NEW next, next = [history |-> Append(image.history, image.history[Len(image.history)])]
  PROVE  /\ next \in Images /\ next # None
         /\ next.history # << >> /\ next.history[1] = image.history[1]
<1>1. PICK S : S = [of : Snapshots]
  BY Zenon
<1>2. PICK h \in Seq(S) : h = image.history
  BY <1>1, Zenon DEF Images
<1>3. PICK g : g = Append(h, h[Len(h)])
  BY Zenon
<1>4. g \in Seq(S) /\ g # << >> /\ g[1] = h[1]
  BY <1>2, <1>3, HistoryGrows, Zenon
<1>5. next = [history |-> g]
  BY <1>2, <1>3, Zenon
<1>6. next \in [history : Seq(S)] /\ next.history = g
  <2>1. \A T : \A x \in T : [history |-> x] \in [history : T] /\ [history |-> x].history = x
    BY Zenon
  <2>. QED  BY <1>4, <1>5, <2>1, Zenon
<1>7. next \in Images /\ next # None
  BY <1>1, <1>6, MigrationAssumption, Zenon DEF Images
<1>. QED  BY <1>2, <1>4, <1>6, <1>7, Zenon

LEMMA NextGeneration ==
  ASSUME NEW d \in Directories, DirectoryIsSound(d), d.journal # None, d.journal.phase = 4,
         NEW next, next = NextImage(d.target), NEW e, e = WithTarget(d, next)
  PROVE  /\ next \in Images /\ e \in Directories /\ DirectoryIsSound(e)
         /\ e.journal = d.journal /\ e.src = d.src /\ e.target = next
         /\ \A c \in Directories : NotAfter(c, d) => NotAfter(c, e)
<1>1. /\ d.journal \in JournalFiles /\ d.src \in [Roles -> Sources] /\ d.target \in Images
  BY DirectoryFields, Zenon
<1>2. /\ d.target # None /\ d.target.history # << >>
      /\ d.target.history[1].of = d.journal.plan
  BY PhaseValues DEF DirectoryIsSound
<1>3. /\ next \in Images /\ next # None
      /\ next.history # << >> /\ next.history[1] = d.target.history[1]
  BY <1>1, <1>2, NextImageType, Zenon DEF NextImage
<1>4. PICK n \in Images : n = next
  BY <1>3, Zenon
<1>5. e = [d EXCEPT !.target = n] /\ n # None /\ n.history # << >>
      /\ n.history[1].of = d.journal.plan
  BY <1>2, <1>3, <1>4, Zenon DEF WithTarget
<1>6. e.journal = d.journal /\ e.src = d.src /\ e.target = n
  BY <1>5, Zenon DEF Directories
<1>7. e \in Directories
  BY <1>1, <1>5, <1>6, Zenon DEF Directories
<1>8. DirectoryIsSound(e)
  <2>1. ~(4 < 4)
    OBVIOUS
  <2>. QED  BY <1>5, <1>6, <2>1, PhaseValues, Zenon DEF DirectoryIsSound
<1>9. \A c \in Directories : NotAfter(c, d) => NotAfter(c, e)
  BY <1>6, Zenon DEF NotAfter
<1>. QED  BY <1>4, <1>6, <1>7, <1>8, <1>9, Zenon

\* A running wallet: the handoff is finished, and no migrator writes.
LEMMA Running ==
  ASSUME IInv, runtime # "down"
  PROVE  /\ visible \in Directories /\ DirectoryIsSound(visible) /\ Reported(visible)
         /\ visible.journal # None /\ visible.journal.phase = 4
         /\ journal # None /\ journal.phase = 4 /\ migrator.step \in {"down", "verify"}
         /\ ~migrator.renamed /\ NoWriter(handle) /\ visible.target \in Images
<1>1. /\ visible \in Directories /\ DirectoryIsSound(visible) /\ Reported(visible)
  BY Facts, Zenon
<1>2. journal # None /\ journal.phase = 4 /\ migrator.step \in {"down", "verify"}
  BY RuntimeFacts, Zenon
<1>3. ~migrator.renamed /\ NoWriter(handle)
  BY <1>2, FinishedStep, Facts, Zenon
<1>. QED  BY <1>1, <1>2, <1>3, DirectoryFields, Zenon DEF journal

LEMMA ReserveNextKeeps == ASSUME IInv, ReserveNext PROVE IInv' /\ Forward
<1>1. /\ UNCHANGED <<fsys, handle, migrator, receipt, acked, faults, seen>>
      /\ runtime = "up" /\ runtime' = "reserved"
      /\ store' = Prepare(store, NextImage(visible.target))
  BY Zenon DEF ReserveNext
<1>2. journal # None /\ journal.phase = 4 /\ migrator.step \in {"down", "verify"}
  BY <1>1, Running, Zenon
<1>3. visible' = visible /\ journal' = journal /\ durable' = durable
  BY <1>1, Zenon DEF visible, journal, durable
<1>4. NextImage(visible.target) \in Images
  <2>1. PICK next, e : next = NextImage(visible.target) /\ e = WithTarget(visible, next)
    BY Zenon
  <2>. QED  BY <1>1, <2>1, Running, NextGeneration, Zenon
<1>5. store' \in Stores(Images) /\ runtime' \in Runtimes
  BY <1>1, <1>4, Facts, StoreTypes, Zenon DEF Runtimes
<1>6. IInv'
  BY <1>1, <1>2, <1>3, <1>5, Facts, RuntimeFacts, Assemble, Zenon
<1>7. Forward
  BY <1>3, Facts, NotAfterItself, Zenon DEF Forward
<1>. QED  BY <1>6, <1>7, Zenon

LEMMA RenameNextKeeps == ASSUME IInv, RenameNext PROVE IInv' /\ Forward
<1>1. PICK dir :
        /\ dir = WithTarget(visible, NextImage(visible.target))
        /\ runtime = "reserved" /\ runtime' = "renamed" /\ RenameTo(dir)
        /\ UNCHANGED <<handle, migrator, receipt, store, acked, faults, seen>>
  BY Zenon DEF RenameNext, WithTarget
<1>2. /\ visible \in Directories /\ DirectoryIsSound(visible) /\ Reported(visible)
      /\ visible.journal # None /\ visible.journal.phase = 4
      /\ migrator.step \in {"down", "verify"} /\ ~migrator.renamed /\ NoWriter(handle)
  BY <1>1, Running, Zenon
<1>3. /\ dir \in Directories /\ DirectoryIsSound(dir)
      /\ dir.journal = visible.journal /\ dir.src = visible.src
      /\ \A c \in Directories : NotAfter(c, visible) => NotAfter(c, dir)
  <2>1. PICK v \in Directories : v = visible
    BY <1>2, Zenon
  <2>2. PICK next : next = NextImage(v.target)
    BY Zenon
  <2>3. dir = WithTarget(v, next)
    BY <1>1, <2>1, <2>2, Zenon
  <2>. QED  BY <1>2, <2>1, <2>2, <2>3, NextGeneration, Zenon
<1>4. Reported(dir) /\ NotAfter(visible, dir)
  BY <1>2, <1>3, NotAfterItself, Zenon DEF Reported
<1>5. /\ fsys' \in Seq(Directories) /\ fsys' # << >> /\ AllSound(fsys', acked')
      /\ visible' = dir /\ Forward
  BY <1>1, <1>3, <1>4, Renames, Zenon
<1>6. journal' = journal /\ journal # None /\ journal.phase = 4
  BY <1>2, <1>3, <1>5, Zenon DEF journal
<1>7. Knows(migrator', visible')
  BY <1>1, <1>2, <1>3, <1>5, Zenon DEF Knows
<1>8. "renamed" \in Runtimes /\ "renamed" # "up"
  BY Zenon DEF Runtimes
<1>9. IInv'
  BY <1>1, <1>2, <1>5, <1>6, <1>7, <1>8, Facts, RuntimeFacts, Assemble, Zenon
<1>. QED  BY <1>5, <1>9, Zenon

\* The image that a commit makes current leaves no reservation.
LEMMA Committed ==
  ASSUME NEW s \in Stores(Images), NEW image \in Images, CommitOk(s, image)
  PROVE  /\ Commit(s, image) \in Stores(Images) /\ Commit(s, image).current = image
         /\ Commit(s, image).prepared = None
<1>1. CASE s.current # image
  BY <1>1, StoreTypes, Zenon
<1>2. CASE s.current = image
  <2>1. ~Succeeds(image, image)
    <3>1. CASE image = None
      BY <3>1, Zenon DEF Succeeds
    <3>2. CASE image # None
      <4>1. image.history \in Seq([of : Snapshots])
        BY <3>2, Zenon DEF Images
      <4>2. Len(image.history) \in Nat
        BY <4>1, LenProperties, Zenon
      <4>3. Len(image.history) # Len(image.history) + 1
        BY <4>2
      <4>. QED  BY <3>2, <4>3, Zenon DEF Succeeds
    <3>. QED  BY <3>1, <3>2, Zenon
  <2>2. AlreadyCurrent(s, image)
    BY <1>2, <2>1, Zenon DEF CommitOk
  <2>. QED  BY <1>2, <2>2, Zenon DEF AlreadyCurrent, Commit
<1>. QED  BY <1>1, <1>2, Zenon

LEMMA CommitNextKeeps == ASSUME IInv, CommitNext PROVE IInv' /\ Forward
<1>1. /\ UNCHANGED <<handle, migrator, receipt, acked, faults, seen>>
      /\ runtime = "renamed" /\ SyncDirectory
      /\ \/ /\ CommitOk(store, visible.target) /\ store' = Commit(store, visible.target)
            /\ runtime' = "up"
         \/ store' = store /\ runtime' = "down"
  BY Zenon DEF CommitNext
<1>2. /\ visible \in Directories /\ Reported(visible) /\ visible.target \in Images
      /\ journal # None /\ journal.phase = 4 /\ migrator.step \in {"down", "verify"}
  BY <1>1, Running, Zenon
<1>3. ReportedIn(visible, acked')
  BY <1>1, <1>2, Zenon DEF Reported, ReportedIn
<1>4. /\ fsys' \in Seq(Directories) /\ fsys' # << >> /\ AllSound(fsys', acked')
      /\ visible' = visible /\ journal' = journal /\ Forward
  BY <1>1, <1>3, Syncs, Zenon
<1>5. /\ store' \in Stores(Images) /\ runtime' \in Runtimes
      /\ runtime' = "up" => store'.current = visible'.target /\ store'.prepared = None
  <2>1. store \in Stores(Images) /\ "up" \in Runtimes /\ "down" \in Runtimes
    BY Facts, Zenon DEF Runtimes
  <2>2. CASE CommitOk(store, visible.target) /\ store' = Commit(store, visible.target)
             /\ runtime' = "up"
    BY <1>2, <1>4, <2>1, <2>2, Committed, Zenon
  <2>3. CASE store' = store /\ runtime' = "down"
    BY <2>1, <2>3, Zenon
  <2>. QED  BY <1>1, <2>2, <2>3, Zenon
<1>6. IInv'
  <2>1. /\ handle' \in Handles /\ OneHandle(handle') /\ NoWriter(handle')
        /\ migrator' \in [step : Steps, renamed : BOOLEAN] /\ receipt' \in BOOLEAN
        /\ acked' \in [Roles -> 0..MaxVersion] /\ faults' \in 0..MaxFaults /\ seen' \in Images
        /\ migrator'.step \in {"down", "verify"}
    BY <1>1, <1>2, Running, Facts, Zenon
  <2>2. Knows(migrator', visible')
    BY <1>1, <1>4, Facts, Zenon
  <2>3. journal' # None /\ journal'.phase = 4
    BY <1>2, <1>4, Zenon
  <2>. QED  BY <1>4, <1>5, <2>1, <2>2, <2>3, Assemble, Zenon
<1>. QED  BY <1>4, <1>6, Zenon

(***************************************************************************)
(* Crashes.                                                                *)
(***************************************************************************)
\* The directories stay, and so does a wallet that runs beside a recovery.
LEMMA MigratorCrashesKeeps == ASSUME IInv, MigratorCrashes PROVE IInv' /\ Forward
<1>1. /\ Fault("crash") /\ Step("down") /\ receipt' = FALSE /\ seen' = None
      /\ handle' = [handle EXCEPT !["migrator"] = AllClosed]
      /\ fsys' = fsys /\ runtime' = runtime /\ store' = store /\ acked' = acked
  BY Zenon DEF MigratorCrashes
<1>2. visible' = visible /\ journal' = journal /\ durable' = durable
  BY <1>1, Zenon DEF visible, journal, durable
<1>3. "migrator" \in Clients
  BY Zenon DEF Clients
<1>4. handle' \in Handles /\ OneHandle(handle') /\ (journal # None => NoWriter(handle'))
  BY <1>1, <1>3, Facts, ClosedHandles, Zenon
<1>5. /\ migrator' \in [step : Steps, renamed : BOOLEAN] /\ migrator'.step = "down"
      /\ Knows(migrator', visible')
  BY <1>1, DownIsKnown, Zenon DEF Step, Steps
<1>6. /\ fsys' \in Seq(Directories) /\ fsys' # << >> /\ AllSound(fsys', acked')
      /\ store' \in Stores(Images) /\ acked' \in [Roles -> 0..MaxVersion]
      /\ faults' \in 0..MaxFaults /\ seen' \in Images /\ runtime' \in Runtimes
  BY <1>1, FaultType, Facts, Zenon DEF Images
<1>7. IInv'
  BY <1>1, <1>2, <1>4, <1>5, <1>6, RuntimeFacts, Assemble, Zenon
<1>8. Forward
  BY <1>2, Facts, NotAfterItself, Zenon DEF Forward
<1>. QED  BY <1>7, <1>8, Zenon

LEMMA RuntimeCrashesKeeps == ASSUME IInv, RuntimeCrashes PROVE IInv' /\ Forward
<1>1. /\ UNCHANGED <<fsys, handle, migrator, store, acked, seen>>
      /\ Fault("crash") /\ runtime' = "down" /\ receipt' = FALSE
  BY Zenon DEF RuntimeCrashes
<1>2. visible' = visible /\ journal' = journal /\ durable' = durable
  BY <1>1, Zenon DEF visible, journal, durable
<1>3. faults' \in 0..MaxFaults /\ "down" \in Runtimes
  BY <1>1, FaultType, Zenon DEF Runtimes
<1>4. IInv'
  BY <1>1, <1>2, <1>3, Facts, Assemble, Zenon
<1>5. Forward
  BY <1>2, Facts, NotAfterItself, Zenon DEF Forward
<1>. QED  BY <1>4, <1>5, Zenon

LEMMA PowerLossKeeps == ASSUME IInv, PowerLoss PROVE IInv' /\ Forward
<1>1. /\ Fault("power") /\ Step("down") /\ runtime' = "down" /\ receipt' = FALSE /\ seen' = None
      /\ handle' = [c \in Clients |-> AllClosed] /\ store' = store /\ acked' = acked
  BY Zenon DEF PowerLoss
<1>2. PICK i \in DOMAIN fsys : fsys' = <<fsys[i]>>
  BY Zenon DEF PowerLoss
<1>3. fsys \in Seq(Directories) /\ fsys # << >> /\ AllSound(fsys, acked)
  BY Facts, Zenon
<1>4. PICK dir \in Directories : dir = fsys[i]
  BY <1>3, LastIs, Zenon
<1>5. DirectoryIsSound(dir) /\ ReportedIn(dir, acked') /\ NotAfter(durable, dir)
  <2>1. i \in 1..Len(fsys) /\ 1 \in DOMAIN fsys
    BY <1>3, LastIs, LenProperties, Zenon
  <2>. QED  BY <1>1, <1>3, <1>4, <2>1 DEF AllSound, durable
<1>6. /\ fsys' \in Seq(Directories) /\ fsys' # << >> /\ AllSound(fsys', acked')
      /\ visible' = dir /\ Forward
  BY <1>2, <1>4, <1>5, LeavesOne, Zenon
<1>7. handle' \in Handles /\ OneHandle(handle') /\ NoWriter(handle')
  BY <1>1, Zenon DEF Handles, OneHandle, NoWriter, AllClosed, Clients
<1>8. /\ migrator' \in [step : Steps, renamed : BOOLEAN] /\ Knows(migrator', visible')
  BY <1>1, DownIsKnown, Zenon DEF Step, Steps
<1>9. /\ store' \in Stores(Images) /\ acked' \in [Roles -> 0..MaxVersion]
      /\ faults' \in 0..MaxFaults /\ seen' \in Images /\ runtime' \in Runtimes
  BY <1>1, FaultType, Facts, Zenon DEF Images, Runtimes
<1>10. IInv'
  BY <1>1, <1>6, <1>7, <1>8, <1>9, Assemble, Zenon
<1>. QED  BY <1>6, <1>10, Zenon

(***************************************************************************)
(* The theorems.                                                           *)
(***************************************************************************)
LEMMA InitIInv == ASSUME Init PROVE IInv
<1>1. PICK src : src = [r \in Roles |-> [version |-> 0, quiescent |-> TRUE, retired_by |-> None]]
  BY Zenon
<1>2. /\ src \in [Roles -> Sources]
      /\ \A r \in Roles : src[r].version = 0 /\ src[r].quiescent /\ src[r].retired_by = None
  BY <1>1, MigrationAssumption DEF Sources
<1>3. PICK dir : dir = [journal |-> None, target |-> None, src |-> src]
  BY Zenon
<1>4. /\ dir \in Directories /\ dir.journal = None /\ dir.target = None /\ dir.src = src
  BY <1>2, <1>3, Zenon DEF Directories, JournalFiles, Images
<1>5. fsys = <<dir>> /\ acked = [r \in Roles |-> 0] /\ faults = 0
  BY <1>1, <1>3, Zenon DEF Init
<1>6. DirectoryIsSound(dir) /\ ReportedIn(dir, acked)
  BY <1>2, <1>4, <1>5 DEF DirectoryIsSound, ReportedIn
<1>7. /\ fsys \in Seq(Directories) /\ fsys # << >> /\ AllSound(fsys, acked)
      /\ fsys[Len(fsys)] = dir
  <2>1. PICK gs : gs = <<dir>>
    BY Zenon
  <2>2. gs \in Seq(Directories) /\ gs # << >> /\ AllSound(gs, acked) /\ gs[Len(gs)] = dir
    BY <1>4, <1>6, <2>1, SoundSingle, Zenon
  <2>. QED  BY <1>5, <2>1, <2>2, Zenon
<1>8. journal = None
  BY <1>4, <1>7, Zenon DEF journal, visible
<1>9. /\ handle = [c \in Clients |-> AllClosed]
      /\ migrator = [step |-> "down", renamed |-> FALSE]
      /\ runtime = "down" /\ receipt = FALSE /\ seen = None /\ store = NewStore
  BY Zenon DEF Init
<1>10. /\ handle \in Handles /\ \A c \in Clients, r \in Roles : handle[c][r] = "closed"
  BY <1>9, Zenon DEF Handles, AllClosed
<1>11. store \in Stores(Images) /\ seen \in Images
  BY <1>9, Zenon DEF NewStore, Stores, Images
<1>12. migrator \in [step : Steps, renamed : BOOLEAN] /\ migrator.step = "down"
  BY <1>9, Zenon DEF Steps
<1>13. TypeOK
  <2>1. acked \in [Roles -> 0..MaxVersion] /\ faults \in 0..MaxFaults
    BY <1>5, MigrationAssumption
  <2>. QED  BY <1>7, <1>9, <1>10, <1>11, <1>12, <2>1, Zenon DEF TypeOK, Handles, Steps
<1>14. DirectoriesAreSound
  BY <1>7, DirectoriesAre, Zenon
<1>15. LocksExclude
  BY <1>8, <1>10, <1>12, Zenon DEF LocksExclude, Clients
<1>16. MigratorKnows
  BY <1>9, DownIsKnown, KnowsIs, Zenon
<1>17. RuntimeIsAlone
  BY <1>9, Zenon DEF RuntimeIsAlone
<1>. QED  BY <1>13, <1>14, <1>15, <1>16, <1>17, Zenon DEF IInv

LEMMA StutterKeeps == ASSUME IInv, UNCHANGED vars PROVE IInv' /\ Forward
<1>1. /\ UNCHANGED <<fsys, acked, receipt, runtime, seen>>
      /\ handle' = handle /\ migrator' = migrator /\ store' = store /\ faults' = faults
  BY Zenon DEF vars
<1>2. /\ handle' \in Handles /\ OneHandle(handle')
      /\ journal # None \/ migrator'.step # "down" => NoWriter(handle')
      /\ migrator' \in [step : Steps, renamed : BOOLEAN] /\ Knows(migrator', visible)
      /\ store' \in Stores(Images) /\ faults' \in 0..MaxFaults
  BY <1>1, Facts, Zenon
<1>3. runtime # "down" => migrator'.step \in {"down", "verify"} /\ store' = store
  BY <1>1, RuntimeFacts, Zenon
<1>. QED  BY <1>1, <1>2, <1>3, SameDirectories, Zenon

\* One lemma per action.
LEMMA NextKeeps == ASSUME IInv, [Next]_vars PROVE IInv' /\ Forward
<1>1. CASE OpenLegacy
  BY <1>1, OpenLegacyKeeps, Zenon DEF OpenLegacy
<1>2. CASE Legacy
  BY <1>2, LegacyRenameKeeps, LegacySyncKeeps, SyncFailsKeeps, Zenon DEF Legacy
<1>3. CASE Resume
  BY <1>3, RecoverKeeps, ReserveKeeps, InstallTargetKeeps, ReconcileKeeps, LockKeeps,
     MigratorRenameKeeps, MigratorSyncKeeps, Zenon DEF Resume
<1>4. CASE MigrateLocked \/ MigratorWriteFails \/ ReadBoundTarget \/ VerifyRetired
  BY <1>4, MigrateLockedKeeps, MigratorWriteFailsKeeps, ReadBoundTargetKeeps,
     VerifyRetiredKeeps, Zenon
<1>5. CASE StartRuntime \/ AdvanceRuntime
  BY <1>5, StartRuntimeKeeps, ReserveNextKeeps, RenameNextKeeps, CommitNextKeeps,
     Zenon DEF AdvanceRuntime
<1>6. CASE UserCrashes \/ MigratorCrashes \/ RuntimeCrashes \/ PowerLoss
  BY <1>6, UserCrashKeeps, MigratorCrashesKeeps, RuntimeCrashesKeeps, PowerLossKeeps, Zenon
<1>7. CASE UNCHANGED vars
  BY <1>7, StutterKeeps, Zenon
<1>. QED  BY <1>1, <1>2, <1>3, <1>4, <1>5, <1>6, <1>7, Zenon DEF Next

(* Every directory that a power loss can leave is sound, in the order of   *)
(* the handoff, and the locks and the migrator's own knowledge keep it so: *)
(* the handlers of wallet_store_migration_v2.rs and of                     *)
(* wallet_populated_migration_v2.rs, with faults between any two writes.   *)
THEOREM MigrationInvariant == Spec => []IInv
<1>1. Init => IInv
  BY InitIInv, Zenon
<1>2. IInv /\ [Next]_vars => IInv'
  BY NextKeeps, Zenon
<1>. QED  BY <1>1, <1>2, PTL DEF Spec

(* An update that a legacy store reported as written is in that store, or  *)
(* in the plan of the migration that retired it and whose target is in     *)
(* place, at every instant and after a power loss at that instant.         *)
THEOREM ReportedUpdatesSurvive == Spec => []NoUpdateLost
<1>1. ASSUME IInv PROVE NoUpdateLost
  <2>1. SUFFICES ASSUME NEW i \in DOMAIN fsys, NEW r \in Roles PROVE Holds(fsys[i], r)
    BY Zenon DEF NoUpdateLost
  <2>2. fsys \in Seq(Directories) /\ fsys # << >> /\ AllSound(fsys, acked)
    BY <1>1, Facts, Zenon
  <2>3. PICK dir \in Directories : dir = fsys[i]
    BY <2>2, LastIs, Zenon
  <2>4. DirectoryIsSound(dir) /\ ReportedIn(dir, acked)
    BY <2>2, <2>3, Zenon DEF AllSound
  <2>5. dir.src[r].version >= acked[r]
    <3>1. dir.src[r].version \in 0..MaxVersion /\ acked[r] \in 0..MaxVersion
      BY <1>1, Facts, DirectoryFields, Zenon DEF Sources
    <3>. QED  BY <2>4, <3>1, MigrationAssumption, Zenon DEF ReportedIn
  <2>6. ASSUME dir.src[r].retired_by # None
        PROVE  /\ dir.src[r].retired_by[r] = dir.src[r].version
               /\ dir.target # None /\ dir.target.history[1].of = dir.src[r].retired_by
    <3>1. /\ dir.journal # None /\ dir.src[r].retired_by = dir.journal.plan
          /\ dir.src[r].version = dir.journal.plan[r] /\ dir.journal.phase >= 3
      BY <2>4, <2>6, PhaseValues, Zenon DEF DirectoryIsSound
    <3>2. dir.journal.phase >= 2
      BY <3>1, PhaseType, SMTT(30)
    <3>3. dir.target # None /\ dir.target.history[1].of = dir.journal.plan
      BY <2>4, <3>1, <3>2, PhaseValues, Zenon DEF DirectoryIsSound
    <3>. QED  BY <3>1, <3>3, Zenon
  <2>. QED  BY <2>3, <2>5, <2>6, Zenon DEF Holds
<1>. QED  BY <1>1, MigrationInvariant, PTL

(* A directory, running or left by any crash, names exactly one owner of   *)
(* the wallet: no legacy writer once the journal is visible, no tombstone  *)
(* before the commit of ownership, and no V2 wallet before the end.        *)
THEOREM WalletHasOneOwner == Spec => []OneOwner
<1>1. ASSUME IInv PROVE OneOwner
  <2>1. TypeOK
    BY <1>1, Zenon DEF IInv
  <2>2. LegacyWritersExcluded
    BY <1>1, Zenon DEF IInv, LocksExclude, LegacyWritersExcluded
  <2>3. TombstonesFollowOwnership
    <3>1. SUFFICES ASSUME NEW i \in DOMAIN fsys, NEW phase,
                          phase = IF fsys[i].journal = None THEN 0 ELSE fsys[i].journal.phase
                   PROVE  /\ phase >= Phase.TargetInstalled => fsys[i].target # None
                          /\ \A r \in Roles :
                               /\ fsys[i].src[r].retired_by # None =>
                                    phase >= Phase.OwnershipCommitted
                               /\ phase = Phase.LegacyRetired =>
                                    fsys[i].src[r].retired_by = fsys[i].journal.plan
      BY Zenon DEF TombstonesFollowOwnership
    <3>2. DirectoryIsSound(fsys[i])
      BY <1>1, Facts, Zenon DEF AllSound
    <3>3. CASE fsys[i].journal = None
      BY <3>1, <3>2, <3>3, PhaseValues DEF DirectoryIsSound
    <3>4. CASE fsys[i].journal # None
      BY <3>1, <3>2, <3>4, PhaseValues, ZenonT(30) DEF DirectoryIsSound
    <3>. QED  BY <3>3, <3>4, Zenon
  <2>4. TakesOverQuiescentWallet
    <3>1. DirectoryIsSound(visible)
      BY <1>1, Facts, Zenon
    <3>. QED  BY <3>1, Zenon DEF DirectoryIsSound, TakesOverQuiescentWallet, journal
  <2>5. RuntimeOwnsWallet
    BY <1>1, Zenon DEF IInv, RuntimeIsAlone, RuntimeOwnsWallet
  <2>. QED  BY <2>1, <2>2, <2>3, <2>4, <2>5, Zenon DEF OneOwner
<1>. QED  BY <1>1, MigrationInvariant, PTL

(* On the durable medium a handoff never goes back: no write, failed sync, *)
(* crash or power loss changes the plan of a durable journal or lowers its *)
(* phase.                                                                  *)
THEOREM DurableHandoffAdvances == Spec => HandoffNeverRegresses
<1>1. IInv /\ [Next]_vars =>
        [durable.journal # None =>
           /\ durable'.journal # None
           /\ durable'.journal.plan = durable.journal.plan
           /\ durable'.journal.phase >= durable.journal.phase]_vars
  BY NextKeeps, Zenon DEF Forward, NotAfter
<1>. QED  BY <1>1, MigrationInvariant, PTL DEF Spec, HandoffNeverRegresses
=============================================================================
