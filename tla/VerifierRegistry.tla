-------------------------- MODULE VerifierRegistry --------------------------
(***************************************************************************)
(* The verifier registry of one Pool: programs/aspis-registry.             *)
(*                                                                         *)
(* A registry account names the governance authority, counts its mutations *)
(* (generation) and can be paused or frozen for ever.  Under it there is   *)
(* one entry account per (profile, release), created Pending, then Active, *)
(* then Retired.  Each governance instruction names the generation it was  *)
(* signed for; a signed instruction may be delivered late, twice or never. *)
(*                                                                         *)
(* The program has two account families with the same control.  V2 adds an *)
(* attestation: the program of an entry (and the registry program itself)  *)
(* must be an immutable loader-v3 deployment when the account is created.  *)
(* CONSTANT Family selects the family.                                     *)
(*                                                                         *)
(* The registry's PDA is derived from the Pool, so `pool' has one value    *)
(* here.  Slots and generations are u64: U64Max stands for u64::MAX, which *)
(* is also the "no retirement" mark of an entry.                           *)
(***************************************************************************)
EXTENDS Integers, Sequences

CONSTANTS
  Family,           \* "V1" or "V2"
  Profiles,         \* profile bindings
  Releases,         \* release bindings
  StatementVersions,
  Programs,         \* verifier programs
  RegistryProgram,  \* the registry program itself
  Hashes,           \* hashes of executables
  Authorities,      \* keys that may sign
  ZeroAuthority,    \* the all-zero key: nobody
  PolicyBindings,
  Delays,           \* values of minimum_activation_delay_slots
  U64Max,           \* u64::MAX
  Policy            \* the verifier policy fixed in the Pool's state

ASSUME FamilyAssumption == Family \in {"V1", "V2"}
ASSUME U64Assumption == U64Max \in Nat /\ Delays \subseteq 0..U64Max
ASSUME AuthorityAssumption == ZeroAuthority \notin Authorities
ASSUME ProgramAssumption == RegistryProgram \notin Programs

\* validate_verifier_policy_v1: an immutable registry is one without an
\* authority, and an immutable deployment needs an immutable registry.
ASSUME PolicyAssumption ==
  /\ Policy.registry_authority \in Authorities \union {ZeroAuthority}
  /\ Policy.policy_binding \in PolicyBindings
  /\ Policy.immutable_registry \in BOOLEAN
  /\ Policy.immutable_deployment \in BOOLEAN
  /\ Policy.immutable_deployment => Policy.immutable_registry
  /\ Policy.immutable_registry <=> Policy.registry_authority = ZeroAuthority
  /\ Policy.immutable_deployment <=> Family = "V2"

VARIABLES
  slot,        \* Clock::slot
  registry,    \* the registry account
  entries,     \* the entry account of each <<profile, release>>
  deployments, \* loader-v3 program data: upgradeable?, hash of the executable
  scheduled,   \* history: the slot in which an entry was scheduled
  applied      \* history: the governance instructions applied, in order

vars == <<slot, registry, entries, deployments, scheduled, applied>>

Keys == Profiles \X Releases
Slots == 0..U64Max
NoRetirement == U64Max

Registries ==
  [live: BOOLEAN, paused: BOOLEAN, immutable: BOOLEAN,
   authority: Authorities \union {ZeroAuthority}, policy_binding: PolicyBindings,
   generation: 0..U64Max, minimum_activation_delay_slots: 0..U64Max,
   executable_hash: Hashes]

Entries ==
  [status: {"None", "Pending", "Active", "Retired"},
   statement_version: StatementVersions, verifier_program: Programs,
   executable_hash: Hashes, activation_slot: Slots, retirement_slot: Slots]

\* A governance instruction as signed: what it does and the generation it is for.
Operations ==
  ({"schedule", "activate", "retire"} \X Keys) \union ({"pause"} \X BOOLEAN)
    \union {<<"freeze">>}

Instructions == [op: Operations, expected_generation: 0..U64Max]

Deployments == [upgradeable: BOOLEAN, hash: Hashes]

(***************************************************************************)
(* Reading an entry.                                                       *)
(***************************************************************************)
has_no_retirement_slot(e) == e.retirement_slot = NoRetirement

is_active_at(e, s) ==
  /\ e.status = "Active"
  /\ e.activation_slot <= s
  /\ has_no_retirement_slot(e) \/ s < e.retirement_slot

\* k replaces r: the same profile and statement version in another release,
\* active now.  Pool and policy are the registry's for every entry.
is_exact_compatible_replacement_for(k, r, s) ==
  /\ k[1] = r[1]
  /\ entries[k].statement_version = entries[r].statement_version
  /\ k[2] # r[2]
  /\ is_active_at(entries[k], s)

(***************************************************************************)
(* Checks shared by the handlers.                                          *)
(***************************************************************************)
\* Faulty variant: the upgrade authority is not looked at.
authenticate_deployment_upgradeable(p, expected) ==
  Family = "V2" => deployments[p].hash = expected

\* The V2 family accepts only a program whose upgrade authority is revoked
\* and whose executable hashes to the expected value.
authenticate_immutable_loader_v3_deployment(p, expected) ==
  Family = "V2" => /\ ~deployments[p].upgradeable
                   /\ deployments[p].hash = expected

require_authority(signer) ==
  /\ ~registry.immutable
  /\ signer = registry.authority

\* Faulty variant: an instruction signed for an older generation still applies.
require_generation_stale(expected) == expected <= registry.generation

require_generation(expected) == registry.generation = expected

\* checked_add: at u64::MAX every mutation is refused.
incremented_registry ==
  [registry EXCEPT !.generation = registry.generation + 1]

Governed(signer, expected) ==
  /\ registry.live
  /\ require_authority(signer)
  /\ require_generation(expected)
  /\ registry.generation < U64Max

Applied(op, expected) ==
  applied' = Append(applied, [op |-> op, expected_generation |-> expected])

(***************************************************************************)
(* The handlers.                                                           *)
(***************************************************************************)
process_initialize(signer, policy_binding, delay, hash) ==
  /\ ~registry.live
  /\ delay # 0
  /\ authenticate_immutable_loader_v3_deployment(RegistryProgram, hash)
  /\ registry' = [live |-> TRUE, paused |-> FALSE, immutable |-> FALSE,
                  authority |-> signer, policy_binding |-> policy_binding,
                  generation |-> 0, minimum_activation_delay_slots |-> delay,
                  executable_hash |-> hash]
  /\ UNCHANGED <<slot, entries, deployments, scheduled, applied>>

\* Faulty variant: the delay is not counted from the current slot.
process_schedule_early(signer, expected, k, version, program, activation, hash) ==
  /\ Governed(signer, expected)
  /\ activation >= registry.minimum_activation_delay_slots
  /\ authenticate_immutable_loader_v3_deployment(program, hash)
  /\ entries[k].status = "None"
  /\ registry' = incremented_registry
  /\ entries' = [entries EXCEPT ![k] =
       [status |-> "Pending", statement_version |-> version,
        verifier_program |-> program, executable_hash |-> hash,
        activation_slot |-> activation, retirement_slot |-> NoRetirement]]
  /\ scheduled' = [scheduled EXCEPT ![k] = slot]
  /\ Applied(<<"schedule", k>>, expected)
  /\ UNCHANGED <<slot, deployments>>

process_schedule(signer, expected, k, version, program, activation, hash) ==
  /\ Governed(signer, expected)
  /\ slot + registry.minimum_activation_delay_slots <= U64Max
  /\ activation >= slot + registry.minimum_activation_delay_slots
  /\ authenticate_immutable_loader_v3_deployment(program, hash)
  /\ entries[k].status = "None"
  /\ registry' = incremented_registry
  /\ entries' = [entries EXCEPT ![k] =
       [status |-> "Pending", statement_version |-> version,
        verifier_program |-> program, executable_hash |-> hash,
        activation_slot |-> activation, retirement_slot |-> NoRetirement]]
  /\ scheduled' = [scheduled EXCEPT ![k] = slot]
  /\ Applied(<<"schedule", k>>, expected)
  /\ UNCHANGED <<slot, deployments>>

process_pause_change(signer, expected, paused) ==
  /\ Governed(signer, expected)
  /\ registry.paused # paused
  /\ registry' = [incremented_registry EXCEPT !.paused = paused]
  /\ Applied(<<"pause", paused>>, expected)
  /\ UNCHANGED <<slot, entries, deployments, scheduled>>

process_activate(signer, expected, k) ==
  /\ Governed(signer, expected)
  /\ entries[k].status = "Pending"
  /\ has_no_retirement_slot(entries[k])
  /\ slot >= entries[k].activation_slot
  /\ registry' = incremented_registry
  /\ entries' = [entries EXCEPT ![k].status = "Active"]
  /\ Applied(<<"activate", k>>, expected)
  /\ UNCHANGED <<slot, deployments, scheduled>>

\* Faulty variants: any other active release of the profile replaces, whatever
\* its statement version; no replacement is asked for.
process_retire_any_version(signer, expected, k, replacement) ==
  /\ Governed(signer, expected)
  /\ is_active_at(entries[k], slot)
  /\ replacement # k /\ is_active_at(entries[replacement], slot)
  /\ slot > entries[k].activation_slot
  /\ registry' = incremented_registry
  /\ entries' = [entries EXCEPT ![k].status = "Retired",
                                ![k].retirement_slot = slot]
  /\ Applied(<<"retire", k>>, expected)
  /\ UNCHANGED <<slot, deployments, scheduled>>

process_retire_unreplaced(signer, expected, k, replacement) ==
  /\ Governed(signer, expected)
  /\ is_active_at(entries[k], slot)
  /\ slot > entries[k].activation_slot
  /\ registry' = incremented_registry
  /\ entries' = [entries EXCEPT ![k].status = "Retired",
                                ![k].retirement_slot = slot]
  /\ Applied(<<"retire", k>>, expected)
  /\ UNCHANGED <<slot, deployments, scheduled>>

process_retire(signer, expected, k, replacement) ==
  /\ Governed(signer, expected)
  /\ is_active_at(entries[k], slot)
  /\ has_no_retirement_slot(entries[k])
  /\ is_exact_compatible_replacement_for(replacement, k, slot)
  /\ slot > entries[k].activation_slot
  /\ registry' = incremented_registry
  /\ entries' = [entries EXCEPT ![k].status = "Retired",
                                ![k].retirement_slot = slot]
  /\ Applied(<<"retire", k>>, expected)
  /\ UNCHANGED <<slot, deployments, scheduled>>

\* Freezing clears the authority and keeps the pause flag as it is.
process_freeze(signer, expected) ==
  /\ Governed(signer, expected)
  /\ registry' = [incremented_registry EXCEPT !.immutable = TRUE,
                                              !.authority = ZeroAuthority]
  /\ Applied(<<"freeze">>, expected)
  /\ UNCHANGED <<slot, entries, deployments, scheduled>>

(***************************************************************************)
(* The cluster: time passes; an upgradeable program may be upgraded or be  *)
(* made immutable, which loader-v3 never undoes.  Only the V2 family reads *)
(* the deployments.                                                        *)
(***************************************************************************)
AdvanceSlot ==
  /\ slot < U64Max
  /\ slot' = slot + 1
  /\ UNCHANGED <<registry, entries, deployments, scheduled, applied>>

UpgradeProgram(p, h) ==
  /\ Family = "V2"
  /\ deployments[p].upgradeable
  /\ h # deployments[p].hash
  /\ deployments' = [deployments EXCEPT ![p].hash = h]
  /\ UNCHANGED <<slot, registry, entries, scheduled, applied>>

RevokeUpgradeAuthority(p) ==
  /\ Family = "V2"
  /\ deployments[p].upgradeable
  /\ deployments' = [deployments EXCEPT ![p].upgradeable = FALSE]
  /\ UNCHANGED <<slot, registry, entries, scheduled, applied>>

\* An account that was never created is all zero: the fields besides the
\* status (or `live') are not read.
Init ==
  /\ slot = 0
  /\ \E b \in PolicyBindings, h \in Hashes :
       registry = [live |-> FALSE, paused |-> FALSE, immutable |-> FALSE,
                   authority |-> ZeroAuthority, policy_binding |-> b,
                   generation |-> 0, minimum_activation_delay_slots |-> 0,
                   executable_hash |-> h]
  /\ \E v \in StatementVersions, p \in Programs, h \in Hashes :
       entries = [k \in Keys |->
         [status |-> "None", statement_version |-> v, verifier_program |-> p,
          executable_hash |-> h, activation_slot |-> 0, retirement_slot |-> 0]]
  /\ deployments \in [Programs \union {RegistryProgram} ->
                        [upgradeable: {TRUE}, hash: Hashes]]
  /\ scheduled = [k \in Keys |-> 0]
  /\ applied = <<>>

Next ==
  \/ \E a \in Authorities, b \in PolicyBindings, d \in Delays, h \in Hashes :
       process_initialize(a, b, d, h)
  \/ \E a \in Authorities, g \in 0..U64Max, k \in Keys, v \in StatementVersions,
        p \in Programs, s \in Slots, h \in Hashes :
       process_schedule(a, g, k, v, p, s, h)
  \/ \E a \in Authorities, g \in 0..U64Max, b \in BOOLEAN :
       process_pause_change(a, g, b)
  \/ \E a \in Authorities, g \in 0..U64Max, k \in Keys :
       process_activate(a, g, k)
  \/ \E a \in Authorities, g \in 0..U64Max, k, r \in Keys :
       process_retire(a, g, k, r)
  \/ \E a \in Authorities, g \in 0..U64Max : process_freeze(a, g)
  \/ AdvanceSlot
  \/ \E p \in Programs \union {RegistryProgram}, h \in Hashes : UpgradeProgram(p, h)
  \/ \E p \in Programs \union {RegistryProgram} : RevokeUpgradeAuthority(p)

Spec == Init /\ [][Next]_vars

-----------------------------------------------------------------------------
(***************************************************************************)
(* What the Pool reads: authenticate_verifier_selection_v1 and _v2.        *)
(***************************************************************************)
RegistryAccepted ==
  /\ registry.live
  /\ registry.authority = Policy.registry_authority
  /\ registry.policy_binding = Policy.policy_binding
  /\ registry.immutable = Policy.immutable_registry
  /\ ~registry.paused

authenticate_verifier_selection(k, version, program) ==
  /\ RegistryAccepted
  /\ entries[k].statement_version = version
  /\ entries[k].verifier_program = program
  /\ entries[k].status = "Active"
  /\ slot >= entries[k].activation_slot
  /\ has_no_retirement_slot(entries[k]) \/ slot < entries[k].retirement_slot

-----------------------------------------------------------------------------
(***************************************************************************)
(* Properties.                                                             *)
(***************************************************************************)
TypeOK ==
  /\ slot \in Slots
  /\ registry \in Registries
  /\ entries \in [Keys -> Entries]
  /\ deployments \in [Programs \union {RegistryProgram} -> Deployments]
  /\ scheduled \in [Keys -> Slots]
  /\ applied \in Seq(Instructions)

\* Retiring a release never strands notes: whenever some release of a profile
\* and statement version has been retired, another one of the same profile and
\* version is active now (process_retire asks for an active replacement, and
\* that replacement may later be retired only in favour of another).
RetirementKeepsAVerifier ==
  \A k \in Keys :
    entries[k].status = "Retired" =>
      \E r \in Keys : is_exact_compatible_replacement_for(r, k, slot)

\* The activation delay holds for every entry that the Pool could ever have
\* selected, however the pauses, schedules and activations interleave: an
\* entry is active only once the registry's delay has passed since the slot
\* in which it was scheduled.
ActivationDelayHeld ==
  \A k \in Keys :
    entries[k].status \in {"Active", "Retired"} =>
      slot >= scheduled[k] + registry.minimum_activation_delay_slots

\* A signed governance instruction takes effect at most once, although it may
\* be delivered again: no two applied instructions are equal, because each
\* applied one moved the generation past the one it names.
AppliedAtMostOnce ==
  \A i, j \in DOMAIN applied : applied[i] = applied[j] => i = j

\* After a freeze nothing in the registry changes any more: no handler
\* applies to a frozen registry, a paused one included.
FrozenForever ==
  [][registry.immutable => UNCHANGED <<registry, entries>>]_vars

\* Inductive strengthenings, one per idea.  Accounts that were created belong
\* to a live registry (so its delay is the one they were scheduled under);
\* until it retires an entry has no retirement slot; an active entry's
\* activation slot has passed; every activation slot respects the delay; and
\* the generation counts the applied instructions, each of which named the
\* generation that its predecessors had left.
EntriesBelongToLiveRegistry ==
  /\ ~registry.live =>
       registry.generation = 0 /\ ~registry.immutable /\ applied = <<>>
  /\ \A k \in Keys : entries[k].status # "None" => registry.live

EntryLifecycle ==
  \A k \in Keys :
    /\ entries[k].status \in {"Pending", "Active"} =>
         has_no_retirement_slot(entries[k])
    /\ entries[k].status \in {"Active", "Retired"} =>
         entries[k].activation_slot <= slot
    /\ entries[k].status # "None" =>
         entries[k].activation_slot >=
           scheduled[k] + registry.minimum_activation_delay_slots

GenerationCountsInstructions ==
  /\ Len(applied) = registry.generation
  /\ \A i \in DOMAIN applied : applied[i].expected_generation = i - 1

IInv ==
  /\ TypeOK
  /\ EntriesBelongToLiveRegistry
  /\ EntryLifecycle
  /\ GenerationCountsInstructions
  /\ RetirementKeepsAVerifier

\* Strengthening of SelectedCodeIsAttested: from the moment an entry is
\* scheduled its program cannot be upgraded and has the recorded hash.
EntriesAreAttested ==
  Family = "V2" =>
    \A k \in Keys : entries[k].status # "None" =>
      LET d == deployments[entries[k].verifier_program]
      IN ~d.upgradeable /\ d.hash = entries[k].executable_hash

\* What the Pool selects is the code that was attested: although the Pool does
\* not hash the verifier again, the program of a selectable V2 entry still has
\* the executable hash recorded when the entry was scheduled.
SelectedCodeIsAttested ==
  Family = "V2" =>
    \A k \in Keys, v \in StatementVersions, p \in Programs :
      authenticate_verifier_selection(k, v, p) =>
        deployments[p].hash = entries[k].executable_hash

\* A profile the Pool can use stays usable: a step that leaves the registry
\* acceptable to the Pool never takes the last selectable release of a profile
\* and statement version away.
SelectionNeverLost ==
  [][\A q \in Profiles, v \in StatementVersions :
       /\ \E r \in Releases, p \in Programs :
            authenticate_verifier_selection(<<q, r>>, v, p)
       /\ RegistryAccepted'
       => \E r \in Releases, p \in Programs :
            authenticate_verifier_selection(<<q, r>>, v, p)']_vars
=============================================================================
