---------------------------- MODULE MCPairForest ----------------------------
(***************************************************************************)
(* Instances of PairForest for TLC.                                        *)
(***************************************************************************)
EXTENDS PairForest, TLC

CONSTANTS s1, s2

\* One nullifier in each lane; a commitment's lane depends on its value too.
OneLaneEach == s1 :> 1 @@ s2 :> 2
ByValue == [n \in Notes |-> 1 + (n.value % 2)]

\* A forest with one leaf in each lane that nobody deposited here.
OneForeignRoot ==
  {[l \in Lanes |-> <<<<[serial |-> s1, value |-> ValueLimit - 1]>>>>]}
=============================================================================
