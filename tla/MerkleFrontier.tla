--------------------------- MODULE MerkleFrontier ---------------------------
(***************************************************************************)
(* The append-only note tree kept as a frontier, and the authentication    *)
(* paths a wallet keeps up to date while leaves are appended               *)
(* (crates/aspis-statement/src/pool_v1/incremental_merkle.rs and           *)
(* crates/aspis-pool-wallet-v1/src/witness_state.rs).                      *)
(*                                                                         *)
(* The tree hash is free of collisions: a parent is the pair of its        *)
(* children, the empty leaf is the empty tuple and a leaf is the singleton *)
(* of its note.  Digest equality is equality of these terms.               *)
(***************************************************************************)
EXTENDS Integers, Sequences, FiniteSets

CONSTANT Depth     \* POOL_V1_TREE_DEPTH

ASSUME DepthAssumption == Depth \in Nat \ {0}

Capacity == 2^Depth
Levels == 0..Depth-1

pool_v1_tree_parent(l, r) == <<l, r>>
Leaf(note) == <<note>>
Bit(n, level) == (n \div 2^level) % 2

pool_v1_empty_roots ==
  LET roots[l \in 0..Depth] ==
        IF l = 0 THEN << >> ELSE pool_v1_tree_parent(roots[l-1], roots[l-1])
  IN [l \in 0..Depth |-> roots[l]]

EmptyTree == [next_leaf_index |-> 0, root |-> pool_v1_empty_roots[Depth],
              frontier |-> [l \in Levels |-> pool_v1_empty_roots[l]]]

(* The node above "node" at "level" when position n is the next free leaf: *)
(* the right neighbour is still empty, the left one is in the frontier.    *)
Above(frontier, n, level, node) ==
  IF Bit(n, level) = 0 THEN pool_v1_tree_parent(node, pool_v1_empty_roots[level])
  ELSE pool_v1_tree_parent(frontier[level], node)

reconstruct_nonfull_root_from_level(frontier, n, start) ==
  LET node[l \in start..Depth] ==
        IF l = start THEN pool_v1_empty_roots[start] ELSE Above(frontier, n, l-1, node[l-1])
  IN node[Depth]

(* append_one: a carry climbs over the levels whose frontier node is       *)
(* complete, clears them and stops in the first free slot; a carry past    *)
(* the last level is the terminal root of a full tree.                     *)
append_one(tree, leaf) ==
  LET n == tree.next_leaf_index
      carry_level == CHOOSE l \in 0..Depth : /\ \A k \in 0..l-1 : Bit(n, k) = 1
                                             /\ l = Depth \/ Bit(n, l) = 0
      carry[l \in 0..Depth] ==
        IF l = 0 THEN leaf ELSE pool_v1_tree_parent(tree.frontier[l-1], carry[l-1])
      frontier == [l \in Levels |-> IF l < carry_level THEN pool_v1_empty_roots[l]
                                    ELSE IF l = carry_level THEN carry[l]
                                    ELSE tree.frontier[l]]
  IN [next_leaf_index |-> n + 1,
      frontier |-> frontier,
      root |-> IF carry_level = Depth THEN carry[Depth]
               ELSE reconstruct_nonfull_root_from_level(frontier, n + 1, carry_level)]

-----------------------------------------------------------------------------
(* Authentication paths.                                                   *)

witness_root(leaf_index, leaf, siblings) ==
  LET node[l \in 0..Depth] ==
        IF l = 0 THEN leaf
        ELSE IF Bit(leaf_index, l-1) = 0 THEN pool_v1_tree_parent(node[l-1], siblings[l-1])
        ELSE pool_v1_tree_parent(siblings[l-1], node[l-1])
  IN node[Depth]

(* The nodes on the new leaf's own path, with nothing to its right.        *)
append_partial_roots(tree, leaf) ==
  LET node[l \in 0..Depth] ==
        IF l = 0 THEN leaf ELSE Above(tree.frontier, tree.next_leaf_index, l-1, node[l-1])
  IN node

(* The highest bit in which two leaf indices differ: the level at which    *)
(* one leaf's path has the other leaf's subtree as its sibling.            *)
DifferingLevel(i, j) ==
  CHOOSE l \in Levels : /\ Bit(i, l) # Bit(j, l)
                        /\ \A k \in Levels : k > l => Bit(i, k) = Bit(j, k)

Refreshed(w, leaf_index, partial) ==
  LET l == DifferingLevel(w.leaf_index, leaf_index)
  IN [w EXCEPT !.siblings[l] = partial[l]]

NewSiblings(tree) ==
  [l \in Levels |-> IF Bit(tree.next_leaf_index, l) = 0 THEN pool_v1_empty_roots[l]
                    ELSE tree.frontier[l]]

EmptyWitnessState == [tree |-> EmptyTree, tracked |-> {}]

(* append_authenticated_leaf_v1: "tracked" says whether the new leaf is    *)
(* followed from now on.  The append's index, sequence and root are those  *)
(* the chain reported.                                                     *)
Appended(state, append, tracked) ==
  LET leaf == Leaf(append.note)
      partial == append_partial_roots(state.tree, leaf)
  IN [tree |-> append_one(state.tree, leaf),
      tracked |-> {Refreshed(w, append.leaf_index, partial) : w \in state.tracked}
                  \cup (IF tracked
                        THEN {[event_id |-> append.event_id, leaf_index |-> append.leaf_index,
                               leaf |-> leaf, siblings |-> NewSiblings(state.tree)]}
                        ELSE {})]

AppendAccepted(state, append, tracked) ==
  /\ append.leaf_index = state.tree.next_leaf_index
  /\ append.root_sequence = append.leaf_index + 1
  /\ state.tree.next_leaf_index < Capacity
  /\ ~(tracked /\ \E w \in state.tracked : w.event_id = append.event_id)
  /\ \A w \in state.tracked : w.leaf_index # append.leaf_index
  /\ append_partial_roots(state.tree, Leaf(append.note))[Depth] = append.root
  /\ LET next == Appended(state, append, tracked)
     IN /\ next.tree.root = append.root
        /\ \A w \in next.tracked : witness_root(w.leaf_index, w.leaf, w.siblings) = append.root

(* apply_finalized_appends_v1: the whole stream of a block, or nothing.    *)
(* The result is the sequence of states, one per append, as far as the     *)
(* appends are accepted.                                                   *)
apply_finalized_appends(state, appends, track) ==
  LET step[i \in 0..Len(appends)] ==
        IF i = 0 THEN [ok |-> TRUE, state |-> state]
        ELSE LET s == step[i-1].state
                 tracked == appends[i].event_id \in track
             IN IF step[i-1].ok /\ AppendAccepted(s, appends[i], tracked)
                THEN [ok |-> TRUE, state |-> Appended(s, appends[i], tracked)]
                ELSE [ok |-> FALSE, state |-> state]
  IN step[Len(appends)]

-----------------------------------------------------------------------------
(* The reference the frontier is an optimisation of: a perfect tree over a *)
(* sequence of notes padded with empty leaves.                             *)
ReferenceNode(notes) ==
  LET node[l \in 0..Depth, i \in 0..Capacity-1] ==
        IF l = 0 THEN (IF i < Len(notes) THEN Leaf(notes[i+1]) ELSE << >>)
        ELSE IF i >= 2^(Depth - l) THEN << >>
        ELSE pool_v1_tree_parent(node[l-1, 2*i], node[l-1, 2*i+1])
  IN node

ReferenceRoot(notes) == ReferenceNode(notes)[Depth, 0]

=============================================================================
