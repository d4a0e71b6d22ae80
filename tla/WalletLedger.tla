---------------------------- MODULE WalletLedger ----------------------------
(***************************************************************************)
(* What the V2 wallet promises its readers: one log of finalized           *)
(* operations that only grows, one operation of the chain at a time, each  *)
(* one applicable to the log before it.                                    *)
(***************************************************************************)
EXTENDS WalletChain

VARIABLE ledger

Init == ledger = << >>

Commit(op) == /\ op \in Operations
              /\ OnChain(op)
              /\ Applies(ledger, op)
              /\ ledger' = Append(ledger, op)

(* The operation a step commits is the one it leaves at the end.           *)
Next == ledger' # << >> /\ Commit(ledger'[Len(ledger')])

Spec == Init /\ [][Next]_ledger

=============================================================================
