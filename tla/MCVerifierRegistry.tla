------------------------ MODULE MCVerifierRegistry ------------------------
(* Instances of VerifierRegistry for TLC. *)
EXTENDS VerifierRegistry

\* A Pool whose policy names a mutable registry of authority "gov" (V1) ...
MutablePolicy ==
  [registry_authority |-> "gov", policy_binding |-> "policy",
   immutable_registry |-> FALSE, immutable_deployment |-> FALSE]

\* ... and one that requires a frozen registry and attested programs (V2).
ImmutablePolicy ==
  [registry_authority |-> "zero", policy_binding |-> "policy",
   immutable_registry |-> TRUE, immutable_deployment |-> TRUE]
=============================================================================
