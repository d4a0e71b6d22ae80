---------------------------- MODULE PoolV1Ledger ----------------------------
(***************************************************************************)
(* What the Pool promises: PoolV1 seen as a shielded ledger.  The tree is  *)
(* the list of notes, the markers are the spent serials and the vault is   *)
(* the custody; pages, plans, receipts and the registry are invisible.     *)
(***************************************************************************)
EXTENDS PoolV1

Ledger == INSTANCE ShieldedLedger
            WITH notes <- leaves, spent <- markers, custody <- vault

\* Whatever the plans, receipts, pauses and pages do, the Pool is a shielded
\* ledger: each step deposits, donates, spends one unspent note that is in the
\* tree (for its value, once), or changes nothing of the ledger.
ImplementsLedger == Ledger!Spec

\* Every note that can still be spent can be paid out of the vault.
Solvent == Ledger!Solvent
=============================================================================
