--------------------------- MODULE MonotonicStore ---------------------------
(***************************************************************************)
(* The external compare-and-swap store that protects the wallet file from  *)
(* rollback (crates/aspis-pool-wallet-v1/src/wallet_monotonic_v2.rs).      *)
(*                                                                         *)
(* A commitment is a digest over the generation, the predecessor's         *)
(* commitment, the finalized point and the content of an image: two images *)
(* have one commitment exactly when all their generations agree.  An image *)
(* therefore carries the sequence of the updates that made it (its         *)
(* "history", one per generation), and stands for its own commitment and   *)
(* for the reservation ("prepared next") of itself.                        *)
(***************************************************************************)
EXTENDS Sequences, Integers

CONSTANT None    \* no commitment, no reservation, no file

(* expected_current_v2: the image a reservation succeeds.                  *)
Succeeds(next, image) ==
  /\ next # None
  /\ IF image = None THEN Len(next.history) = 1
     ELSE /\ Len(next.history) = Len(image.history) + 1
          /\ image.history = SubSeq(next.history, 1, Len(image.history))

Stores(Images) == [current : Images, prepared : Images,
                   last_committed : Images, last_aborted : Images]

NewStore == [current |-> None, prepared |-> None,
             last_committed |-> None, last_aborted |-> None]

(* compare_and_prepare_next_v2: Prepared or AlreadyPrepared.               *)
PrepareOk(s, next) ==
  /\ Succeeds(next, s.current)
  /\ s.prepared \in {None, next}

Prepare(s, next) ==
  IF s.prepared = next THEN s
  ELSE [s EXCEPT !.prepared = next, !.last_aborted = None]

(* compare_and_commit_prepared_v2: Advanced, or AlreadyCurrent for the     *)
(* replay of the commit that made "next" current.                          *)
AlreadyCurrent(s, next) ==
  s.current = next /\ s.prepared = None /\ s.last_committed = next

CommitOk(s, next) ==
  \/ AlreadyCurrent(s, next)
  \/ Succeeds(next, s.current) /\ s.prepared = next

Commit(s, next) ==
  IF s.current = next THEN s
  ELSE [current |-> next, prepared |-> None,
        last_committed |-> next, last_aborted |-> None]

(* compare_and_abort_prepared_v2: Aborted or AlreadyAbsent.                *)
AbortOk(s, next) ==
  /\ Succeeds(next, s.current)
  /\ s.prepared = next \/ (s.prepared = None /\ s.last_aborted = next)

Abort(s, next) ==
  IF s.prepared = next THEN [s EXCEPT !.prepared = None, !.last_aborted = next] ELSE s

=============================================================================
