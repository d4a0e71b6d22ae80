------------------------- MODULE MCRelayerExecution -------------------------
(***************************************************************************)
(* Instances of RelayerExecution for TLC.                                  *)
(***************************************************************************)
EXTENDS RelayerExecution, TLC

CONSTANTS QueueDepth, Inflight, SnapshotAge, RateWindow, Admissions

AllAtZero == [r \in Requests |-> 0]

Open == [paused |-> FALSE, max_snapshot_age_slots |-> SnapshotAge,
         max_queue_depth |-> QueueDepth, max_inflight |-> Inflight,
         rate_window_slots |-> RateWindow,
         max_admissions_per_window |-> Admissions]

Paused == [Open EXCEPT !.paused = TRUE]

Tight == [Open EXCEPT !.max_queue_depth = 1, !.max_inflight = 1,
                      !.max_admissions_per_window = 1]

OpenAndPaused == {Open, Paused}
OpenAndTight == {Open, Tight}
EveryPolicy == {Open, Paused, Tight}

RequestsAreAlike == Permutations(Requests)
=============================================================================
