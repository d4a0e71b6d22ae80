---------------------------- MODULE MCWalletScan ----------------------------
(***************************************************************************)
(* A small block tree for WalletScan.  On branch a the wallet's deposit n1 *)
(* is spent under plan p1, its change n2 is spent again and an empty block *)
(* follows; branch b cancels the plan, spends n1 in a later block and      *)
(* prepares the plan again; branch c has the same deposit at another leaf. *)
(* Every branch fills the tree of depth 2.                                 *)
(***************************************************************************)
EXTENDS WalletScan

Deposit(note) == [kind |-> "deposit", spends |-> None, outputs |-> <<note>>, plan |-> None]
Transition(note, outputs, plan) ==
  [kind |-> "transition", spends |-> note, outputs |-> outputs, plan |-> plan]
PlanStep(kind, plan) == [kind |-> kind, spends |-> None, outputs |-> << >>, plan |-> plan]

ChainBody ==
  [a1 |-> <<Deposit("n1"), PlanStep("prepare", "p1")>>,
   a2 |-> <<Transition("n1", <<"n2", "x2">>, "p1")>>,
   a3 |-> <<Transition("n2", <<"x3">>, None), PlanStep("prepare", "p2")>>,
   a4 |-> << >>,
   b2 |-> <<Deposit("x1"), PlanStep("cancel", "p1")>>,
   b3 |-> <<Transition("n1", <<"n2", "x4">>, None), PlanStep("prepare", "p1")>>,
   c1 |-> <<Deposit("x1"), Deposit("n1")>>,
   c2 |-> <<Transition("n1", <<"x2", "n2">>, None)>>]

ChainParent == [a1 |-> "g", a2 |-> "a1", a3 |-> "a2", a4 |-> "a3",
                b2 |-> "a1", b3 |-> "b2", c1 |-> "g", c2 |-> "c1"]

=============================================================================
