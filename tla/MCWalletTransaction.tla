------------------------ MODULE MCWalletTransaction ------------------------
(* Small chains for WalletTransaction.                                     *)
EXTENDS WalletTransaction

T(lane, delivers, spends) == [lane |-> lane, delivers |-> delivers, spends |-> spends]

MCLanes == {1, 2}
MCInitialNotes == {<<0, 1>>}
MCNoNote == <<0, 0>>

(* Two terminals in block 1: one delivers the note the other spends.       *)
(* Block 2 is empty and block 3 goes on in the same lane, so leaving out   *)
(* the second terminal of block 1 would leave a hole in that lane.         *)
MCChain == << <<T(1, TRUE, MCNoNote), T(1, FALSE, <<1, 1>>)>>,
              << >>,
              <<T(1, FALSE, <<0, 1>>)>> >>

(* The first event may also be seen on a fork that is abandoned.           *)
MCSightings == {[block |-> 1, pos |-> 1, fork |-> TRUE],
                [block |-> 1, pos |-> 1, fork |-> FALSE]}
=============================================================================
