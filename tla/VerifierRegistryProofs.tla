---------------------- MODULE VerifierRegistryProofs ----------------------
(***************************************************************************)
(* Proofs about VerifierRegistry, for every set of profiles, releases,     *)
(* programs and authorities, both account families and every width of u64. *)
(***************************************************************************)
EXTENDS VerifierRegistry, TLAPS

\* Appending an instruction to the history keeps its type.
LEMMA AppliedType ==
  ASSUME NEW op \in Operations, NEW g \in 0..U64Max,
         applied \in Seq(Instructions), Applied(op, g)
  PROVE  applied' \in Seq(Instructions)
<1>1. [op |-> op, expected_generation |-> g] \in Instructions
  BY Zenon DEF Instructions
<1> QED
  BY <1>1 DEF Applied

\* The operations the handlers record are operations.
LEMMA OperationTypes ==
  /\ \A k \in Keys : /\ <<"schedule", k>> \in Operations
                     /\ <<"activate", k>> \in Operations
                     /\ <<"retire", k>> \in Operations
  /\ \A b \in BOOLEAN : <<"pause", b>> \in Operations
  /\ <<"freeze">> \in Operations
BY Zenon DEF Operations

\* The initial state, with no account created, satisfies the inductive
\* invariant.
LEMMA InitIInv == Init => IInv
<1> SUFFICES ASSUME Init PROVE IInv
  BY Zenon
<1>1. TypeOK
  <2>1. applied \in Seq(Instructions)
    BY DEF Init
  <2>2. registry \in Registries /\ slot \in Slots
    BY U64Assumption DEF Init, Registries, Slots
  <2>3. entries \in [Keys -> Entries] /\ scheduled \in [Keys -> Slots]
    BY U64Assumption DEF Init, Entries, Slots
  <2>4. deployments \in [Programs \union {RegistryProgram} -> Deployments]
    BY Zenon DEF Init, Deployments
  <2> QED
    BY <2>1, <2>2, <2>3, <2>4, Zenon DEF TypeOK
<1>2. \A k \in Keys : entries[k].status = "None"
  BY DEF Init
<1>3. EntriesBelongToLiveRegistry
  BY <1>2 DEF Init, EntriesBelongToLiveRegistry
<1>4. EntryLifecycle /\ RetirementKeepsAVerifier
  BY <1>2, Zenon DEF EntryLifecycle, RetirementKeepsAVerifier
<1>5. GenerationCountsInstructions
  BY DEF Init, GenerationCountsInstructions
<1> QED
  BY <1>1, <1>3, <1>4, <1>5, Zenon DEF IInv

\* The next registry image is a registry image while the generation is below
\* u64::MAX, whatever the pause flag.
LEMMA IncrementedType ==
  ASSUME registry \in Registries, registry.generation < U64Max
  PROVE  /\ incremented_registry \in Registries
         /\ \A b \in BOOLEAN : [incremented_registry EXCEPT !.paused = b] \in Registries
         /\ [incremented_registry EXCEPT !.immutable = TRUE, !.authority = ZeroAuthority]
              \in Registries
<1>1. registry.generation + 1 \in 0..U64Max
  BY U64Assumption DEF Registries
<1>2. incremented_registry \in Registries
  BY <1>1, Zenon DEF incremented_registry, Registries
<1>3. \A b \in BOOLEAN : [incremented_registry EXCEPT !.paused = b] \in Registries
  BY <1>2, Zenon DEF Registries
<1>4. [incremented_registry EXCEPT !.immutable = TRUE] \in Registries
  BY <1>2, Zenon DEF Registries
<1>5. [[incremented_registry EXCEPT !.immutable = TRUE] EXCEPT !.authority = ZeroAuthority]
        \in Registries
  BY <1>4, Zenon DEF Registries
<1> QED
  BY <1>2, <1>3, <1>5, Zenon

\* Every handler and every step of the cluster keeps the variables in their
\* types; u64 arithmetic never leaves its range.
LEMMA TypeStep == TypeOK /\ [Next]_vars => TypeOK'
<1> SUFFICES ASSUME TypeOK, [Next]_vars PROVE TypeOK'
  BY Zenon
<1>0. /\ registry \in Registries
      /\ entries \in [Keys -> Entries]
      /\ applied \in Seq(Instructions)
  BY Zenon DEF TypeOK
<1>1. ASSUME NEW a \in Authorities, NEW b \in PolicyBindings, NEW d \in Delays,
             NEW h \in Hashes, process_initialize(a, b, d, h)
      PROVE  TypeOK'
  BY <1>1, U64Assumption DEF process_initialize, TypeOK, Registries
<1>2. ASSUME NEW a \in Authorities, NEW g \in 0..U64Max, NEW k \in Keys,
             NEW v \in StatementVersions, NEW p \in Programs, NEW s \in Slots,
             NEW h \in Hashes, process_schedule(a, g, k, v, p, s, h)
      PROVE  TypeOK'
  <2>1. applied' \in Seq(Instructions)
    BY <1>0, <1>2, AppliedType, OperationTypes, Zenon DEF process_schedule
  <2>2. registry' \in Registries
    BY <1>0, <1>2, IncrementedType, Zenon DEF process_schedule, Governed
  <2>3. entries' \in [Keys -> Entries]
    BY <1>0, <1>2, U64Assumption DEF process_schedule, NoRetirement, Entries, Slots
  <2> QED
    BY <1>2, <2>1, <2>2, <2>3, Zenon DEF process_schedule, TypeOK
<1>3. ASSUME NEW a \in Authorities, NEW g \in 0..U64Max, NEW b \in BOOLEAN,
             process_pause_change(a, g, b)
      PROVE  TypeOK'
  <2>1. applied' \in Seq(Instructions)
    BY <1>0, <1>3, AppliedType, OperationTypes, Zenon DEF process_pause_change
  <2>2. registry' \in Registries
    BY <1>0, <1>3, IncrementedType, Zenon DEF process_pause_change, Governed
  <2> QED
    BY <1>3, <2>1, <2>2, Zenon DEF process_pause_change, TypeOK
<1>4. ASSUME NEW a \in Authorities, NEW g \in 0..U64Max, NEW k \in Keys,
             process_activate(a, g, k)
      PROVE  TypeOK'
  <2>1. applied' \in Seq(Instructions)
    BY <1>0, <1>4, AppliedType, OperationTypes, Zenon DEF process_activate
  <2>2. registry' \in Registries
    BY <1>0, <1>4, IncrementedType, Zenon DEF process_activate, Governed
  <2>3. entries' \in [Keys -> Entries]
    BY <1>0, <1>4, Zenon DEF process_activate, Entries
  <2> QED
    BY <1>4, <2>1, <2>2, <2>3, Zenon DEF process_activate, TypeOK
<1>5. ASSUME NEW a \in Authorities, NEW g \in 0..U64Max, NEW k \in Keys, NEW r \in Keys,
             process_retire(a, g, k, r)
      PROVE  TypeOK'
  <2>1. applied' \in Seq(Instructions)
    BY <1>0, <1>5, AppliedType, OperationTypes, Zenon DEF process_retire
  <2>2. registry' \in Registries
    BY <1>0, <1>5, IncrementedType, Zenon DEF process_retire, Governed
  <2>3. entries' \in [Keys -> Entries]
    BY <1>0, <1>5, ZenonT(30) DEF process_retire, Entries, TypeOK
  <2> QED
    BY <1>5, <2>1, <2>2, <2>3, Zenon DEF process_retire, TypeOK
<1>6. ASSUME NEW a \in Authorities, NEW g \in 0..U64Max, process_freeze(a, g)
      PROVE  TypeOK'
  <2>1. applied' \in Seq(Instructions)
    BY <1>0, <1>6, AppliedType, OperationTypes, Zenon DEF process_freeze
  <2>2. registry' \in Registries
    BY <1>0, <1>6, IncrementedType, Zenon DEF process_freeze, Governed
  <2> QED
    BY <1>6, <2>1, <2>2, Zenon DEF process_freeze, TypeOK
<1>7. CASE AdvanceSlot
  BY <1>7, U64Assumption DEF AdvanceSlot, TypeOK, Slots
<1>8. ASSUME NEW p \in Programs \union {RegistryProgram}, NEW h \in Hashes,
             UpgradeProgram(p, h)
      PROVE  TypeOK'
  BY <1>8, Zenon DEF UpgradeProgram, TypeOK, Deployments
<1>9. ASSUME NEW p \in Programs \union {RegistryProgram}, RevokeUpgradeAuthority(p)
      PROVE  TypeOK'
  BY <1>9, Zenon DEF RevokeUpgradeAuthority, TypeOK, Deployments
<1>10. CASE UNCHANGED vars
  BY <1>10, Zenon DEF vars, TypeOK
<1> QED
  BY <1>1, <1>2, <1>3, <1>4, <1>5, <1>6, <1>7, <1>8, <1>9, <1>10, Zenon DEF Next

\* How a step changes what the invariant speaks of: it applies one governance
\* instruction signed for the current generation, creates the registry, or
\* leaves both accounts alone while the slot does not go back.
GovernanceStep ==
  \E op \in Operations :
    /\ registry.live
    /\ ~registry.immutable
    /\ registry.generation < U64Max
    /\ Applied(op, registry.generation)
    /\ slot' = slot
    /\ registry'.live = registry.live
    /\ registry'.generation = registry.generation + 1
    /\ registry'.minimum_activation_delay_slots = registry.minimum_activation_delay_slots

QuietStep ==
  /\ UNCHANGED <<registry, entries, scheduled, applied>>
  /\ slot' \in {slot, slot + 1}

\* How a governance instruction may change an entry: schedule a new one,
\* activate a pending one, retire an active one, or touch none.
EntryChange ==
  \/ UNCHANGED <<entries, scheduled>>
  \/ \E k \in Keys :
       /\ entries[k].status = "None"
       /\ scheduled' = [scheduled EXCEPT ![k] = slot]
       /\ \E e \in Entries :
            /\ entries' = [entries EXCEPT ![k] = e]
            /\ e.status = "Pending"
            /\ e.activation_slot >= slot + registry.minimum_activation_delay_slots
            /\ e.retirement_slot = NoRetirement
  \/ \E k \in Keys :
       /\ entries[k].status = "Pending"
       /\ slot >= entries[k].activation_slot
       /\ entries' = [entries EXCEPT ![k].status = "Active"]
       /\ scheduled' = scheduled
  \/ \E k, r \in Keys :
       /\ is_active_at(entries[k], slot)
       /\ is_exact_compatible_replacement_for(r, k, slot)
       /\ entries' = [entries EXCEPT ![k].status = "Retired",
                                     ![k].retirement_slot = slot]
       /\ scheduled' = scheduled

CreateStep ==
  /\ ~registry.live
  /\ registry'.live /\ registry'.generation = 0
  /\ UNCHANGED <<slot, entries, scheduled, applied>>

\* Every step of the system is of one of these forms.
LEMMA StepForms ==
  ASSUME TypeOK, [Next]_vars
  PROVE  (GovernanceStep /\ EntryChange) \/ CreateStep \/ QuietStep
<1>0. registry \in Registries /\ entries \in [Keys -> Entries] /\ slot \in Nat
  BY U64Assumption DEF TypeOK, Slots
<1>1. ASSUME NEW a \in Authorities, NEW b \in PolicyBindings, NEW d \in Delays,
             NEW h \in Hashes, process_initialize(a, b, d, h)
      PROVE  CreateStep
  BY <1>1, Zenon DEF process_initialize, CreateStep
<1>2. ASSUME NEW a \in Authorities, NEW g \in 0..U64Max, NEW k \in Keys,
             NEW v \in StatementVersions, NEW p \in Programs, NEW s \in Slots,
             NEW h \in Hashes, process_schedule(a, g, k, v, p, s, h)
      PROVE  GovernanceStep /\ EntryChange
  <2>1. GovernanceStep
    BY <1>0, <1>2, OperationTypes, Zenon
    DEF process_schedule, Governed, require_authority, require_generation,
        incremented_registry, GovernanceStep, Registries
  <2> DEFINE e == [status |-> "Pending", statement_version |-> v,
                   verifier_program |-> p, executable_hash |-> h,
                   activation_slot |-> s, retirement_slot |-> NoRetirement]
  <2>2. e \in Entries
    BY U64Assumption DEF Entries, Slots, NoRetirement
  <2>3. EntryChange
    BY <1>2, <2>2, Zenon DEF process_schedule, EntryChange
  <2> QED
    BY <2>1, <2>3, Zenon
<1>3. ASSUME NEW a \in Authorities, NEW g \in 0..U64Max, NEW b \in BOOLEAN,
             process_pause_change(a, g, b)
      PROVE  GovernanceStep /\ EntryChange
  <2>1. GovernanceStep
    BY <1>0, <1>3, OperationTypes, Zenon
    DEF process_pause_change, Governed, require_authority, require_generation,
        incremented_registry, GovernanceStep, Registries
  <2> QED
    BY <1>3, <2>1, Zenon DEF process_pause_change, EntryChange
<1>4. ASSUME NEW a \in Authorities, NEW g \in 0..U64Max, NEW k \in Keys,
             process_activate(a, g, k)
      PROVE  GovernanceStep /\ EntryChange
  <2>1. GovernanceStep
    BY <1>0, <1>4, OperationTypes, Zenon
    DEF process_activate, Governed, require_authority, require_generation,
        incremented_registry, GovernanceStep, Registries
  <2> QED
    BY <1>4, <2>1, Zenon DEF process_activate, EntryChange
<1>5. ASSUME NEW a \in Authorities, NEW g \in 0..U64Max, NEW k \in Keys, NEW r \in Keys,
             process_retire(a, g, k, r)
      PROVE  GovernanceStep /\ EntryChange
  <2>1. GovernanceStep
    BY <1>0, <1>5, OperationTypes, Zenon
    DEF process_retire, Governed, require_authority, require_generation,
        incremented_registry, GovernanceStep, Registries
  <2> QED
    BY <1>5, <2>1, Zenon DEF process_retire, EntryChange
<1>6. ASSUME NEW a \in Authorities, NEW g \in 0..U64Max, process_freeze(a, g)
      PROVE  GovernanceStep /\ EntryChange
  <2>1. GovernanceStep
    BY <1>0, <1>6, OperationTypes, Zenon
    DEF process_freeze, Governed, require_authority, require_generation,
        incremented_registry, GovernanceStep, Registries
  <2> QED
    BY <1>6, <2>1, Zenon DEF process_freeze, EntryChange
<1>7. CASE AdvanceSlot
  BY <1>7, Zenon DEF AdvanceSlot, QuietStep
<1>8. ASSUME NEW p \in Programs \union {RegistryProgram}, NEW h \in Hashes,
             UpgradeProgram(p, h)
      PROVE  QuietStep
  BY <1>8, Zenon DEF UpgradeProgram, QuietStep
<1>9. ASSUME NEW p \in Programs \union {RegistryProgram}, RevokeUpgradeAuthority(p)
      PROVE  QuietStep
  BY <1>9, Zenon DEF RevokeUpgradeAuthority, QuietStep
<1>10. CASE UNCHANGED vars
  BY <1>10, Zenon DEF vars, QuietStep
<1> QED
  BY <1>1, <1>2, <1>3, <1>4, <1>5, <1>6, <1>7, <1>8, <1>9, <1>10, Zenon DEF Next

\* A registry that does not exist has no entries, and no handler deletes one.
LEMMA LiveStep ==
  ASSUME IInv, [Next]_vars
  PROVE  EntriesBelongToLiveRegistry'
<1>1. EntriesBelongToLiveRegistry /\ TypeOK
  BY Zenon DEF IInv
<1>2. CASE GovernanceStep /\ EntryChange
  BY <1>2, Zenon DEF GovernanceStep, EntriesBelongToLiveRegistry
<1>3. CASE CreateStep
  BY <1>3, Zenon DEF CreateStep, EntriesBelongToLiveRegistry
<1>4. CASE QuietStep
  BY <1>1, <1>4, Zenon DEF QuietStep, EntriesBelongToLiveRegistry
<1> QED
  BY <1>1, <1>2, <1>3, <1>4, StepForms, Zenon

\* The generation keeps counting the applied instructions.
LEMMA GenerationStep ==
  ASSUME IInv, [Next]_vars
  PROVE  GenerationCountsInstructions'
<1>1. /\ EntriesBelongToLiveRegistry /\ GenerationCountsInstructions /\ TypeOK
      /\ applied \in Seq(Instructions) /\ registry.generation \in Nat
  BY U64Assumption DEF IInv, TypeOK, Registries
<1>2. CASE GovernanceStep /\ EntryChange
  <2>1. PICK op \in Operations : Applied(op, registry.generation)
    BY <1>2, Zenon DEF GovernanceStep
  <2> DEFINE c == [op |-> op, expected_generation |-> registry.generation]
  <2>2. applied' = Append(applied, c)
    BY <2>1, Zenon DEF Applied
  <2>3. Len(applied') = Len(applied) + 1
    BY <1>1, <2>2
  <2>4. \A i \in DOMAIN applied' : applied'[i].expected_generation = i - 1
    BY <1>1, <2>2 DEF GenerationCountsInstructions
  <2> QED
    BY <1>1, <1>2, <2>3, <2>4, Zenon DEF GovernanceStep, GenerationCountsInstructions
<1>3. CASE CreateStep
  BY <1>1, <1>3, Zenon DEF CreateStep, EntriesBelongToLiveRegistry, GenerationCountsInstructions
<1>4. CASE QuietStep
  BY <1>1, <1>4, Zenon DEF QuietStep, GenerationCountsInstructions
<1> QED
  BY <1>1, <1>2, <1>3, <1>4, StepForms, Zenon

\* The life of an entry: no retirement slot before it retires, active only
\* past its activation slot, and that slot a full delay after its schedule.
LEMMA LifecycleStep ==
  ASSUME IInv, [Next]_vars
  PROVE  EntryLifecycle'
<1>1. /\ EntriesBelongToLiveRegistry /\ EntryLifecycle /\ TypeOK
      /\ entries \in [Keys -> Entries] /\ scheduled \in [Keys -> Slots]
      /\ slot \in Nat /\ registry.minimum_activation_delay_slots \in Nat
      /\ \A k \in Keys : /\ entries[k].activation_slot \in Nat
                         /\ scheduled[k] \in Nat
  BY U64Assumption DEF IInv, TypeOK, Registries, Entries, Slots
<1>2. CASE GovernanceStep /\ EntryChange
  <2>1. /\ slot' = slot
        /\ registry'.minimum_activation_delay_slots = registry.minimum_activation_delay_slots
    BY <1>2, Zenon DEF GovernanceStep
  <2>2. CASE UNCHANGED <<entries, scheduled>>
    BY <1>1, <2>1, <2>2, Zenon DEF EntryLifecycle, has_no_retirement_slot
  <2>3. ASSUME NEW k \in Keys, entries[k].status = "None",
               scheduled' = [scheduled EXCEPT ![k] = slot],
               NEW e \in Entries, entries' = [entries EXCEPT ![k] = e],
               e.status = "Pending", e.retirement_slot = NoRetirement,
               e.activation_slot >= slot + registry.minimum_activation_delay_slots
        PROVE  EntryLifecycle'
    BY <1>1, <2>1, <2>3, Zenon DEF EntryLifecycle, has_no_retirement_slot
  <2>4. ASSUME NEW k \in Keys, entries[k].status = "Pending",
               slot >= entries[k].activation_slot,
               entries' = [entries EXCEPT ![k].status = "Active"],
               scheduled' = scheduled
        PROVE  EntryLifecycle'
    BY <1>1, <2>1, <2>4, Zenon DEF EntryLifecycle, has_no_retirement_slot, Entries
  <2>5. ASSUME NEW k \in Keys, NEW r \in Keys, is_active_at(entries[k], slot),
               entries' = [entries EXCEPT ![k].status = "Retired",
                                          ![k].retirement_slot = slot],
               scheduled' = scheduled
        PROVE  EntryLifecycle'
    BY <1>1, <2>1, <2>5, Zenon DEF EntryLifecycle, has_no_retirement_slot, is_active_at, Entries
  <2> QED
    BY <1>2, <2>2, <2>3, <2>4, <2>5, Zenon DEF EntryChange
<1>3. CASE CreateStep
  BY <1>1, <1>3, Zenon DEF CreateStep, EntriesBelongToLiveRegistry, EntryLifecycle
<1>4. CASE QuietStep
  BY <1>1, <1>4 DEF QuietStep, EntryLifecycle, has_no_retirement_slot
<1> QED
  BY <1>1, <1>2, <1>3, <1>4, StepForms, Zenon

\* The heart of the argument: an instruction that retires a release leaves an
\* active replacement, and that replacement also serves every release retired
\* earlier in favour of the one that retires now.
LEMMA RetirementStep ==
  ASSUME IInv, [Next]_vars
  PROVE  RetirementKeepsAVerifier'
<1>1. /\ EntriesBelongToLiveRegistry /\ EntryLifecycle /\ TypeOK
      /\ RetirementKeepsAVerifier
      /\ entries \in [Keys -> Entries] /\ slot \in Nat
      /\ \A k \in Keys : entries[k].activation_slot \in Nat
  BY U64Assumption DEF IInv, TypeOK, Registries, Entries, Slots
<1>2. CASE GovernanceStep /\ EntryChange
  <2>1. slot' = slot
    BY <1>2, Zenon DEF GovernanceStep
  <2>2. CASE UNCHANGED <<entries, scheduled>>
    BY <1>1, <2>1, <2>2, Zenon
    DEF RetirementKeepsAVerifier, is_exact_compatible_replacement_for, is_active_at,
        has_no_retirement_slot
  <2>3. ASSUME NEW k \in Keys, entries[k].status = "None",
               NEW e \in Entries, entries' = [entries EXCEPT ![k] = e],
               e.status = "Pending"
        PROVE  RetirementKeepsAVerifier'
    BY <1>1, <2>1, <2>3, Zenon
    DEF RetirementKeepsAVerifier, is_exact_compatible_replacement_for, is_active_at,
        has_no_retirement_slot
  <2>4. ASSUME NEW k \in Keys, entries[k].status = "Pending",
               entries' = [entries EXCEPT ![k].status = "Active"]
        PROVE  RetirementKeepsAVerifier'
    BY <1>1, <2>1, <2>4
    DEF RetirementKeepsAVerifier, is_exact_compatible_replacement_for, is_active_at,
        has_no_retirement_slot, Entries
  <2>5. ASSUME NEW k \in Keys, NEW r \in Keys, is_active_at(entries[k], slot),
               is_exact_compatible_replacement_for(r, k, slot),
               entries' = [entries EXCEPT ![k].status = "Retired",
                                          ![k].retirement_slot = slot]
        PROVE  RetirementKeepsAVerifier'
    <3> SUFFICES ASSUME NEW q \in Keys, entries'[q].status = "Retired"
                 PROVE  \E w \in Keys :
                          is_exact_compatible_replacement_for(w, q, slot)'
      BY Zenon DEF RetirementKeepsAVerifier
    <3>1. /\ r # k
          /\ r[1] = k[1] /\ r[2] # k[2]
          /\ entries'[r] = entries[r]
          /\ is_active_at(entries[r], slot)
          /\ entries[r].statement_version = entries[k].statement_version
      BY <1>1, <2>5, Zenon DEF is_exact_compatible_replacement_for
    <3>2. /\ entries'[k].statement_version = entries[k].statement_version
          /\ \A w \in Keys : w # k => entries'[w] = entries[w]
      BY <1>1, <2>5, Zenon DEF Entries
    <3>3. CASE q = k
      BY <2>1, <3>1, <3>2, <3>3, Zenon DEF is_exact_compatible_replacement_for, is_active_at,
        has_no_retirement_slot
    <3>4. CASE q # k
      <4>1. entries[q].status = "Retired"
        BY <3>2, <3>4, Zenon
      <4>2. PICK w \in Keys : is_exact_compatible_replacement_for(w, q, slot)
        BY <1>1, <4>1, Zenon DEF RetirementKeepsAVerifier
      <4>3. CASE w # k
        BY <2>1, <3>2, <3>4, <4>2, <4>3, Zenon DEF is_exact_compatible_replacement_for,
          is_active_at, has_no_retirement_slot
      <4>4. CASE w = k
        <5>1. r # q
          BY <3>1, <4>1, Zenon DEF is_active_at
        <5>2. r[2] # q[2]
          BY <3>1, <4>2, <4>4, <5>1 DEF is_exact_compatible_replacement_for, Keys
        <5> QED
          BY <2>1, <3>1, <3>2, <3>4, <4>2, <4>4, <5>2, Zenon
          DEF is_exact_compatible_replacement_for, is_active_at, has_no_retirement_slot
      <4> QED
        BY <4>3, <4>4, Zenon
    <3> QED
      BY <3>3, <3>4, Zenon
  <2> QED
    BY <1>2, <2>2, <2>3, <2>4, <2>5, Zenon DEF EntryChange
<1>3. CASE CreateStep
  BY <1>1, <1>3, Zenon DEF CreateStep, EntriesBelongToLiveRegistry, RetirementKeepsAVerifier,
    is_exact_compatible_replacement_for, is_active_at, has_no_retirement_slot
<1>4. CASE QuietStep
  BY <1>1, <1>4 DEF QuietStep, RetirementKeepsAVerifier,
    is_exact_compatible_replacement_for, is_active_at, has_no_retirement_slot,
    EntryLifecycle
<1> QED
  BY <1>1, <1>2, <1>3, <1>4, StepForms, Zenon

\* The inductive invariant holds in every reachable state of the registry.
THEOREM RegistryInvariant == Spec => []IInv
<1>1. Init => IInv
  BY InitIInv, Zenon
<1>2. IInv /\ [Next]_vars => IInv'
  <2> SUFFICES ASSUME IInv, [Next]_vars PROVE IInv'
    BY Zenon
  <2>1. TypeOK'
    BY TypeStep, Zenon DEF IInv
  <2> QED
    BY <2>1, LiveStep, GenerationStep, LifecycleStep, RetirementStep, Zenon DEF IInv
<1> QED
  BY <1>1, <1>2, PTL DEF Spec

\* Every variable keeps its type: u64 slots and generations stay in range.
THEOREM RegistryTypes == Spec => []TypeOK
BY RegistryInvariant, PTL DEF IInv

\* Retirement never strands notes, for any number of releases: whenever a
\* release is retired, another release of its profile and version is active.
THEOREM RetirementKeepsAVerifierHolds == Spec => []RetirementKeepsAVerifier
BY RegistryInvariant, PTL DEF IInv

\* No entry is active before the registry's delay has passed since its
\* schedule.
THEOREM ActivationDelayHolds == Spec => []ActivationDelayHeld
<1>1. IInv => ActivationDelayHeld
  <2> SUFFICES ASSUME IInv, NEW k \in Keys, entries[k].status \in {"Active", "Retired"}
               PROVE  slot >= scheduled[k] + registry.minimum_activation_delay_slots
    BY Zenon DEF ActivationDelayHeld
  <2>1. /\ entries[k].activation_slot \in Nat /\ slot \in Nat /\ scheduled[k] \in Nat
        /\ registry.minimum_activation_delay_slots \in Nat
    BY U64Assumption DEF IInv, TypeOK, Entries, Slots, Registries
  <2>2. entries[k].activation_slot <= slot
    BY Zenon DEF IInv, EntryLifecycle
  <2>3. entries[k].activation_slot >=
          scheduled[k] + registry.minimum_activation_delay_slots
    BY Zenon DEF IInv, EntryLifecycle
  <2> QED
    BY <2>1, <2>2, <2>3
<1> QED
  BY <1>1, RegistryInvariant, PTL

\* No signed instruction is applied twice.
THEOREM AppliedAtMostOnceHolds == Spec => []AppliedAtMostOnce
<1>1. IInv => AppliedAtMostOnce
  <2> SUFFICES ASSUME IInv, NEW i \in DOMAIN applied, NEW j \in DOMAIN applied,
                      applied[i] = applied[j]
               PROVE  i = j
    BY Zenon DEF AppliedAtMostOnce
  <2>1. i \in Int /\ j \in Int
    BY DEF IInv, TypeOK
  <2>2. i - 1 = j - 1
    BY Zenon DEF IInv, GenerationCountsInstructions
  <2> QED
    BY <2>1, <2>2
<1> QED
  BY <1>1, RegistryInvariant, PTL

\* A frozen registry never changes again, its entries included.
THEOREM FrozenForeverHolds == Spec => FrozenForever
<1>1. IInv /\ [Next]_vars => [registry.immutable => UNCHANGED <<registry, entries>>]_vars
  <2> SUFFICES ASSUME IInv, [Next]_vars, registry.immutable
               PROVE  UNCHANGED <<registry, entries>>
    BY Zenon
  <2>1. registry.live
    BY Zenon DEF IInv, EntriesBelongToLiveRegistry
  <2> QED
    BY <2>1, StepForms, Zenon DEF IInv, GovernanceStep, CreateStep, QuietStep
<1> QED
  BY <1>1, RegistryInvariant, PTL DEF Spec, FrozenForever

\* An entry's program was immutable when it was scheduled, and stays so.
LEMMA AttestedStep ==
  ASSUME TypeOK, EntriesAreAttested, [Next]_vars
  PROVE  EntriesAreAttested'
<1>. SUFFICES ASSUME Family = "V2", NEW q \in Keys, entries'[q].status # "None"
              PROVE  /\ ~deployments'[entries'[q].verifier_program].upgradeable
                     /\ deployments'[entries'[q].verifier_program].hash =
                          entries'[q].executable_hash
  BY Zenon DEF EntriesAreAttested
<1>1. /\ entries \in [Keys -> Entries]
      /\ deployments \in [Programs \union {RegistryProgram} -> Deployments]
  BY Zenon DEF TypeOK
<1>2. entries[q].status # "None" =>
        /\ ~deployments[entries[q].verifier_program].upgradeable
        /\ deployments[entries[q].verifier_program].hash = entries[q].executable_hash
  BY Zenon DEF EntriesAreAttested
<1>3. entries[q].verifier_program \in Programs
  BY <1>1, Zenon DEF Entries
<1>4. CASE UNCHANGED <<entries, deployments>>
  BY <1>2, <1>4, Zenon
<1>5. ASSUME NEW a, NEW g, NEW k \in Keys, NEW v \in StatementVersions, NEW p \in Programs,
             NEW s, NEW h, process_schedule(a, g, k, v, p, s, h)
      PROVE  /\ ~deployments'[entries'[q].verifier_program].upgradeable
             /\ deployments'[entries'[q].verifier_program].hash = entries'[q].executable_hash
  <2>1. /\ ~deployments[p].upgradeable /\ deployments[p].hash = h /\ deployments' = deployments
        /\ entries' = [entries EXCEPT ![k] =
             [status |-> "Pending", statement_version |-> v,
              verifier_program |-> p, executable_hash |-> h,
              activation_slot |-> s, retirement_slot |-> NoRetirement]]
    BY <1>5, Zenon DEF process_schedule, authenticate_immutable_loader_v3_deployment
  <2>. QED  BY <1>1, <1>2, <2>1, Zenon
<1>6. ASSUME NEW k \in Keys, entries[k].status # "None", deployments' = deployments,
             \/ entries' = [entries EXCEPT ![k].status = "Active"]
             \/ entries' = [entries EXCEPT ![k].status = "Retired", ![k].retirement_slot = slot]
      PROVE  /\ ~deployments'[entries'[q].verifier_program].upgradeable
             /\ deployments'[entries'[q].verifier_program].hash = entries'[q].executable_hash
  <2>1. /\ entries'[q].verifier_program = entries[q].verifier_program
        /\ entries'[q].executable_hash = entries[q].executable_hash
        /\ entries[q].status # "None"
    BY <1>1, <1>6 DEF Entries
  <2>. QED  BY <1>2, <1>6, <2>1, Zenon
<1>7. ASSUME NEW p \in Programs \union {RegistryProgram}, NEW h, UpgradeProgram(p, h)
      PROVE  /\ ~deployments'[entries'[q].verifier_program].upgradeable
             /\ deployments'[entries'[q].verifier_program].hash = entries'[q].executable_hash
  <2>1. /\ entries' = entries /\ deployments[p].upgradeable
        /\ deployments' = [deployments EXCEPT ![p].hash = h]
    BY <1>7, Zenon DEF UpgradeProgram
  <2>2. entries[q].verifier_program # p
    BY <1>2, <2>1, Zenon
  <2>. QED  BY <1>1, <1>2, <1>3, <2>1, <2>2, Zenon
<1>8. ASSUME NEW p \in Programs \union {RegistryProgram}, RevokeUpgradeAuthority(p)
      PROVE  /\ ~deployments'[entries'[q].verifier_program].upgradeable
             /\ deployments'[entries'[q].verifier_program].hash = entries'[q].executable_hash
  <2>1. /\ entries' = entries /\ deployments[p].upgradeable
        /\ deployments' = [deployments EXCEPT ![p].upgradeable = FALSE]
    BY <1>8, Zenon DEF RevokeUpgradeAuthority
  <2>2. entries[q].verifier_program # p
    BY <1>2, <2>1, Zenon
  <2>. QED  BY <1>1, <1>2, <1>3, <2>1, <2>2, Zenon
<1>9. ASSUME NEW a, NEW g, NEW k \in Keys, process_activate(a, g, k)
      PROVE  /\ entries[k].status # "None" /\ deployments' = deployments
             /\ entries' = [entries EXCEPT ![k].status = "Active"]
  BY <1>9, Zenon DEF process_activate
<1>10. ASSUME NEW a, NEW g, NEW k \in Keys, NEW r, process_retire(a, g, k, r)
       PROVE  /\ entries[k].status # "None" /\ deployments' = deployments
              /\ entries' = [entries EXCEPT ![k].status = "Retired", ![k].retirement_slot = slot]
  BY <1>10, Zenon DEF process_retire, is_active_at
<1>. QED
  BY <1>4, <1>5, <1>6, <1>7, <1>8, <1>9, <1>10, Zenon
  DEF Next, vars, process_initialize, process_pause_change, process_freeze, AdvanceSlot

\* SelectedCodeIsAttested: an upgrade can not reach the code of an entry.
THEOREM SelectedCodeIsAttestedHolds == Spec => []SelectedCodeIsAttested
<1>1. Init => EntriesAreAttested
  BY DEF Init, EntriesAreAttested
<1>2. IInv /\ EntriesAreAttested /\ [Next]_vars => EntriesAreAttested'
  BY AttestedStep, Zenon DEF IInv
<1>3. EntriesAreAttested => SelectedCodeIsAttested
  BY Zenon DEF EntriesAreAttested, SelectedCodeIsAttested, authenticate_verifier_selection
<1>. QED  BY <1>1, <1>2, <1>3, RegistryInvariant, PTL DEF Spec

\* The entry k serves the version: what the Pool asks of an entry.
Serves(k, version) ==
  /\ entries[k].statement_version = version
  /\ is_active_at(entries[k], slot)

\* If an entry serves a version, then after any step that entry does, or the
\* one it was retired in favour of.
LEMMA ServiceStep ==
  ASSUME IInv, [Next]_vars, registry.live,
         NEW q \in Profiles, NEW r \in Releases, NEW v, Serves(<<q, r>>, v)
  PROVE  \E w \in Releases : Serves(<<q, w>>, v)'
<1>. DEFINE k == <<q, r>>
<1>1. /\ TypeOK /\ EntryLifecycle /\ k \in Keys
      /\ entries \in [Keys -> Entries] /\ slot \in Nat /\ entries[k].activation_slot \in Nat
  BY U64Assumption DEF IInv, TypeOK, Entries, Slots, Keys
<1>2. /\ entries[k].status = "Active" /\ entries[k].activation_slot <= slot
      /\ entries[k].statement_version = v /\ entries[k].retirement_slot = NoRetirement
  BY <1>1, Zenon DEF Serves, is_active_at, EntryLifecycle, has_no_retirement_slot
<1>3. ASSUME entries'[k] = entries[k], slot' \in {slot, slot + 1}
      PROVE  Serves(k, v)'
  BY <1>1, <1>2, <1>3 DEF Serves, is_active_at, has_no_retirement_slot
<1>4. CASE GovernanceStep /\ EntryChange
  <2>1. slot' = slot
    BY <1>4, Zenon DEF GovernanceStep
  <2>2. CASE UNCHANGED <<entries, scheduled>>
    BY <1>3, <2>1, <2>2, Zenon
  <2>3. ASSUME NEW m \in Keys, entries[m].status = "None",
               NEW e \in Entries, entries' = [entries EXCEPT ![m] = e]
        PROVE  \E w \in Releases : Serves(<<q, w>>, v)'
    <3>1. entries'[k] = entries[k]
      BY <1>1, <1>2, <2>3, Zenon
    <3>. QED  BY <1>3, <2>1, <3>1, Zenon
  <2>4. ASSUME NEW m \in Keys, entries[m].status = "Pending",
               entries' = [entries EXCEPT ![m].status = "Active"]
        PROVE  \E w \in Releases : Serves(<<q, w>>, v)'
    <3>1. entries'[k] = entries[k]
      BY <1>1, <1>2, <2>4, Zenon
    <3>. QED  BY <1>3, <2>1, <3>1, Zenon
  <2>5. ASSUME NEW m \in Keys, NEW s \in Keys,
               is_exact_compatible_replacement_for(s, m, slot),
               entries' = [entries EXCEPT ![m].status = "Retired",
                                          ![m].retirement_slot = slot]
        PROVE  \E w \in Releases : Serves(<<q, w>>, v)'
    <3>1. CASE m # k
      <4>1. entries'[k] = entries[k]
        BY <1>1, <2>5, <3>1, Zenon
      <4>. QED  BY <1>3, <2>1, <4>1, Zenon
    <3>2. CASE m = k
      <4>1. PICK w \in Releases : s = <<q, w>>
        BY <2>5, <3>2 DEF is_exact_compatible_replacement_for, Keys
      <4>2. /\ s # m /\ entries'[s] = entries[s] /\ is_active_at(entries[s], slot)
            /\ entries[s].statement_version = v
        BY <1>1, <1>2, <2>5, <3>2, Zenon DEF is_exact_compatible_replacement_for
      <4>3. Serves(s, v)'
        BY <2>1, <4>2, Zenon DEF Serves, is_active_at, has_no_retirement_slot
      <4>. QED  BY <4>1, <4>3, Zenon
    <3>. QED  BY <3>1, <3>2, Zenon
  <2>. QED  BY <1>4, <2>2, <2>3, <2>4, <2>5, Zenon DEF EntryChange
<1>5. CASE CreateStep
  BY <1>5, Zenon DEF CreateStep
<1>6. CASE QuietStep
  BY <1>3, <1>6, Zenon DEF QuietStep
<1>. QED  BY <1>1, <1>4, <1>5, <1>6, StepForms, Zenon

\* SelectionNeverLost: for any number of profiles and releases, no step that
\* leaves the registry acceptable takes the last release of a profile away.
THEOREM SelectionNeverLostHolds == Spec => SelectionNeverLost
<1>1. ASSUME IInv, [Next]_vars, NEW q \in Profiles, NEW v \in StatementVersions,
             NEW r \in Releases, NEW p \in Programs,
             authenticate_verifier_selection(<<q, r>>, v, p), RegistryAccepted'
      PROVE  \E w \in Releases, c \in Programs : authenticate_verifier_selection(<<q, w>>, v, c)'
  <2>1. registry.live /\ Serves(<<q, r>>, v)
    BY <1>1, U64Assumption, Zenon
    DEF authenticate_verifier_selection, RegistryAccepted, Serves, is_active_at, IInv, TypeOK,
        Entries, Slots, Keys
  <2>2. PICK w \in Releases : Serves(<<q, w>>, v)'
    BY <1>1, <2>1, ServiceStep, Zenon
  <2>3. <<q, w>> \in Keys /\ TypeOK'
    BY <1>1, TypeStep, Zenon DEF Keys, IInv
  <2>. DEFINE c == entries'[<<q, w>>].verifier_program
  <2>4. /\ c \in Programs /\ slot' \in Nat /\ entries'[<<q, w>>].activation_slot \in Nat
    BY <2>3, U64Assumption DEF TypeOK, Entries, Slots
  <2>5. authenticate_verifier_selection(<<q, w>>, v, entries[<<q, w>>].verifier_program)'
    BY <1>1, <2>2, <2>4, Zenon DEF authenticate_verifier_selection, Serves, is_active_at,
       has_no_retirement_slot, RegistryAccepted
  <2>6. \A d : d = c => authenticate_verifier_selection(<<q, w>>, v, d)'
    BY <2>5, Zenon DEF authenticate_verifier_selection, RegistryAccepted, has_no_retirement_slot
  <2>. QED  BY <2>4, <2>6, Zenon
<1>2. IInv /\ [Next]_vars =>
        [\A q \in Profiles, v \in StatementVersions :
           /\ \E r \in Releases, p \in Programs :
                authenticate_verifier_selection(<<q, r>>, v, p)
           /\ RegistryAccepted'
           => \E r \in Releases, p \in Programs :
                authenticate_verifier_selection(<<q, r>>, v, p)']_vars
  BY <1>1, Zenon
<1>. QED  BY <1>2, RegistryInvariant, PTL DEF Spec, SelectionNeverLost
=============================================================================
