------------------------ MODULE MCVerifierAccounts ------------------------
(* Two keys, a note of one pool with two rival proofs for it (the second   *)
(* one for the pool after the first payment), and receipts for proofs that *)
(* match their statement and that do not.                                  *)
EXTENDS VerifierAccounts

Note(pool, sequence, anchor, nullifier, output_anchor) ==
  [pool |-> pool, sequence |-> sequence, anchor |-> anchor, nullifier |-> nullifier,
   output_anchor |-> output_anchor, domain |-> "main"]

S1 == Note("pool", 0, "r0", "n1", "r1")
S2 == Note("pool", 1, "r1", "n1", "r0")

S3 == Note("pool", 1, "r1", "n2", "r0")

Proof(bytes, profile, attempt, statement) ==
  [bytes |-> bytes, profile |-> profile, attempt |-> attempt, statement |-> statement]

RivalProofs == {Proof(<<"x">>, "v7", "proof", S1), Proof(<<"y">>, "v4", Zero, S2),
              Proof(<<"z">>, "v5", Zero, S3)}

Request(bytes, statement) == [proof |-> "proof", bytes |-> bytes, statement |-> statement]
TwoRequests == {Request(<<"x">>, S1), Request(<<"y">>, S1)}
UnequalFunds == [x \in Users |-> IF x = "u" THEN 4 ELSE 3]
TwoStarts == {[sequence |-> 0, anchor |-> "r0"], [sequence |-> 1, anchor |-> "r1"]}
=============================================================================
