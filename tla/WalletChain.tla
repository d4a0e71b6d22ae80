---------------------------- MODULE WalletChain ----------------------------
(***************************************************************************)
(* The finalized chain a V2 wallet follows, and what one wallet operation  *)
(* does to the wallet's logical state                                      *)
(* (crates/aspis-pool-wallet-v1/src/lane_forest_wallet_txn_v2.rs).         *)
(*                                                                         *)
(* Block b (its slot; 0 is the activation anchor) carries a sequence of    *)
(* pool terminals.  A terminal appends one pair leaf to a lane, may        *)
(* deliver a note to this wallet and may spend one of its notes.  A note   *)
(* is named by the terminal that delivers it.                              *)
(*                                                                         *)
(* An operation is what one record of the wallet file commits: the         *)
(* terminal at position pos >= 1 of a block, or the evidence that a block  *)
(* has no terminal (pos = 0).  "seal" is the nonce under which its note    *)
(* was sealed, 0 when it delivers none.  Skips between slots are left out: *)
(* block b is the child of block b - 1.                                    *)
(***************************************************************************)
EXTENDS Integers, Sequences, FiniteSets

CONSTANTS
  Chain,          \* sequence of blocks, each a sequence of terminals
  Lanes,          \* lanes of the pair forest
  InitialNotes,   \* notes the activation brings in
  NoNote          \* "this terminal spends no note of the wallet"

Notes == InitialNotes \cup (Nat \X Nat)
Terminals == [lane : Lanes, delivers : BOOLEAN, spends : Notes \cup {NoNote}]

ASSUME ChainAssumption == Chain \in Seq(Seq(Terminals))

Operations == [block : Nat, pos : Nat, seal : Nat]

IsTerminal(op) == op.pos > 0
Terminal(op) == Chain[op.block][op.pos]
OnChain(op) == /\ op.block \in DOMAIN Chain
               /\ IF IsTerminal(op) THEN op.pos \in DOMAIN Chain[op.block]
                                    ELSE Chain[op.block] = << >>

(* Every terminal of the chain, as <<block, position>>.                    *)
Positions == UNION {{b} \X DOMAIN Chain[b] : b \in DOMAIN Chain}
OfLane(l) == {p \in Positions : Chain[p[1]][p[2]].lane = l}

(* The leaf index the pool gave a terminal: the appends to its lane before *)
(* it on the chain.                                                        *)
pair_leaf_index(op) ==
  Cardinality({p \in OfLane(Terminal(op).lane) :
                 p[1] < op.block \/ (p[1] = op.block /\ p[2] < op.pos)})

-----------------------------------------------------------------------------
(* The logical state an operation log replays to.                          *)

TerminalsOf(log) == {i \in DOMAIN log : IsTerminal(log[i])}

finalized_head(log) == IF log = << >> THEN 0 ELSE log[Len(log)].block

next_leaf_index(log, l) ==
  Cardinality({i \in TerminalsOf(log) : Terminal(log[i]).lane = l})

notes(log) ==
  InitialNotes \cup
  {<<log[i].block, log[i].pos>> : i \in {j \in TerminalsOf(log) : Terminal(log[j]).delivers}}

spent(log) == {Terminal(log[i]).spends : i \in TerminalsOf(log)} \ {NoNote}

(* The finalized order: inside the head block the ledger position grows,   *)
(* a new block is a child of the head, and a block recorded as empty stays *)
(* empty.                                                                  *)
validate_finalized_order(log, op) ==
  \/ op.block = finalized_head(log) + 1
  \/ /\ log # << >>
     /\ op.block = finalized_head(log)
     /\ IsTerminal(log[Len(log)])
     /\ op.pos > log[Len(log)].pos

validate_empty_finalized_order(log, op) == op.block = finalized_head(log) + 1

(* Mutant: a terminal is ingested without the check of its leaf index.     *)
apply_intent_structural_ok_AnyLeaf(log, op) ==
  LET t == Terminal(op) IN t.spends = NoNote \/ t.spends \in notes(log) \ spent(log)

(* A terminal is applied only when its spend names a note the wallet holds *)
(* unspent and its leaf is the next one of its lane.                       *)
apply_intent_structural_ok(log, op) ==
  LET t == Terminal(op) IN
  /\ t.spends = NoNote \/ t.spends \in notes(log) \ spent(log)
  /\ pair_leaf_index(op) = next_leaf_index(log, t.lane)

Applies(log, op) ==
  IF IsTerminal(op)
  THEN validate_finalized_order(log, op) /\ apply_intent_structural_ok(log, op)
  ELSE validate_empty_finalized_order(log, op)

=============================================================================
