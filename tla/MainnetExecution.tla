-------------------------- MODULE MainnetExecution --------------------------
(***************************************************************************)
(* The mainnet executor and the recovery journal it keeps beside it.       *)
(*                                                                         *)
(* xtask/src/spend_devnet/v5.rs sends one payment as a series of steps:    *)
(* create the accounts, upload the proof chunk by chunk, seal it, pay.     *)
(* Each step is a signed transaction (a wire).  A wire is spooled and      *)
(* journaled as submit-ready before it is sent, and every decision about   *)
(* it is appended to the hash-chained journal of                           *)
(* xtask/src/spend_mainnet_journal.rs.  A run that stops may be resumed    *)
(* from the journal and the finalized accounts.                            *)
(*                                                                         *)
(* A wire is named by its step and its signing attempt.  Attempt 0 is the  *)
(* original wire of a first run, whose blockhash expiry is not recorded;   *)
(* attempt n > 0 is the retry "_rNN", whose expiry is bound in the journal *)
(* before it may be sent.  The journal is represented by the state its     *)
(* reducer computes from the entries; the files by whether the last entry  *)
(* and the lock anchor agree.                                              *)
(***************************************************************************)
EXTENDS Integers, Sequences, FiniteSets

CONSTANTS
    Uploads,       \* number of proof chunks
    MaxAttempts,   \* retries of a step (MAX_FRESH_SIGNING_ATTEMPTS, 99)
    Window,        \* blocks for which a blockhash stays valid
    MaxHeight,     \* bound on block heights
    MaxStarts      \* bound on starts of the executor

VARIABLES
    tip, fin,      \* heights of the confirmed and of the finalized block
    flight,        \* wires the network has received
    landed,        \* transactions included in blocks, in order
    journal,       \* ready_wires: wire -> what the journal says of it
    anchored,      \* the lock anchor matches the last journal entry
    evidence,      \* the evidence file
    closing,       \* the entries that close the journal
    proc,          \* the executor process
    starts,        \* times the executor was started
    sent           \* history: wires reconcile_journal_wire passed to the RPC

network == <<tip, fin, flight, landed>>
files == <<journal, anchored, evidence, closing>>
vars == <<network, files, proc, starts, sent>>

ASSUME ExecutionAssumption ==
    /\ Uploads \in Nat \ {0}
    /\ MaxAttempts \in Nat /\ Window \in Nat
    /\ MaxHeight \in Nat /\ MaxStarts \in Nat

Create == 1
Upload == 2 .. Uploads + 1
Seal == Uploads + 2
Pay == Uploads + 3
Steps == Create .. Pay
Wires == Steps \X (0 .. MaxAttempts)
IsRetry(w) == w[2] > 0

Outcomes == {"open", "abandoned", "expired", "failed", "finalized"}
ReadyWires == [birth : 0 .. MaxHeight, bound : BOOLEAN, consumed : BOOLEAN,
               submitted : BOOLEAN, outcome : Outcomes]
Labels == {"off", "reserve", "begin", "send", "submitted", "wait", "sign",
           "bind", "status", "blockhash", "expiry", "absent", "authorize",
           "transmit", "accepted", "unanswered",
           "commit", "checkpoint", "complete", "done"}

Procs == [at : Labels, mode : {"fresh", "resume"}, step : Steps,
          attempt : 0 .. MaxAttempts, expected : SUBSET Steps, resent : BOOLEAN]
Landings == [wire : Wires, height : 0 .. MaxHeight, ok : BOOLEAN]

Off == [at |-> "off", mode |-> "fresh", step |-> Create, attempt |-> 0,
        expected |-> {}, resent |-> FALSE]

-----------------------------------------------------------------------------
(* The network, as the executor's RPC calls observe it.                    *)

\* How many of the included transactions are in finalized blocks.
Rooted == Cardinality({i \in DOMAIN landed : landed[i].height <= fin})

\* The steps whose transaction succeeded among the first n included ones.
Succeeded(n) == {landed[i].wire[1] : i \in {j \in 1 .. n : landed[j].ok}}
\* Mutant: statuses and accounts are read at confirmed commitment.
FinalCount_Confirmed == Len(landed)

\* What the executor reads, at finalized commitment.
FinalCount == Rooted
Confirmed == Succeeded(Len(landed))
Finalized == Succeeded(FinalCount)

\* Whether the programs accept a step: the accounts are created once, chunks
\* are written and the proof is sealed while it is unsealed, and one payment
\* spends a sealed, complete proof.  Sealing does not look at the chunks.
Accepts(step, done) ==
    \/ step = Create /\ Create \notin done
    \/ step \in Upload \cup {Seal} /\ Create \in done /\ Seal \notin done
    \/ step = Pay /\ Upload \cup {Seal} \subseteq done /\ Pay \notin done

Seen(w) == \E i \in DOMAIN landed : landed[i].wire = w
FinalizedAs(w, ok) ==
    \E i \in 1 .. FinalCount : landed[i].wire = w /\ landed[i].ok = ok

\* A block may include a wire up to the last valid height of its blockhash.
LastValid(w) == journal[w].birth + Window

\* A blockhash younger than the finalized block is as unknown to that block
\* as an expired one.
blockhash_valid_at_finalized(w) ==
    journal[w].birth <= fin /\ fin <= LastValid(w)

Include(w) ==
    /\ w \in flight /\ ~Seen(w)
    /\ journal[w].birth <= tip /\ tip <= LastValid(w)
    /\ landed' = Append(landed, [wire |-> w, height |-> tip,
                                 ok |-> Accepts(w[1], Confirmed)])
    /\ UNCHANGED <<tip, fin, flight, files, proc, starts, sent>>

Produce ==
    /\ tip < MaxHeight
    /\ tip' = tip + 1
    /\ UNCHANGED <<fin, flight, landed, files, proc, starts, sent>>

Finalize ==
    /\ fin < tip
    /\ fin' = fin + 1
    /\ UNCHANGED <<tip, flight, landed, files, proc, starts, sent>>

\* Blocks that are not finalized may be dropped with all that follows them.
Fork ==
    /\ \E i \in DOMAIN landed : landed[i].height > fin
    /\ landed' = SubSeq(landed, 1, Rooted)
    /\ UNCHANGED <<tip, fin, flight, files, proc, starts, sent>>

-----------------------------------------------------------------------------
(* The journal: what the reducer requires of each entry.                   *)

Current == <<proc.step, proc.attempt>>
Open(w) == journal[w].outcome = "open"

\* A new submit-ready wire signed with the latest confirmed blockhash.  The
\* bound leaves room for the chain to pass the wire's last valid height.
spool_signed_wire_submit_ready(w) ==
    /\ w \notin DOMAIN journal
    /\ tip + Window < MaxHeight
    /\ journal' = [v \in DOMAIN journal \cup {w} |->
                     IF v = w THEN [birth |-> tip, bound |-> FALSE, consumed |-> FALSE,
                                    submitted |-> FALSE, outcome |-> "open"]
                              ELSE journal[v]]

fresh_wire_blockhash_bound(w) == journal' = [journal EXCEPT ![w].bound = TRUE]
wire_send_authority_consumed(w) ==
    journal' = [journal EXCEPT ![w].consumed = TRUE]

record_submission(w) ==
    /\ Open(w) /\ ~journal[w].submitted
    /\ journal' = [journal EXCEPT ![w].submitted = TRUE]

record_absence(w) ==
    /\ Open(w)
    /\ journal[w].bound => fin > LastValid(w)
    /\ journal' = [journal EXCEPT ![w].outcome =
                     IF journal[w].submitted THEN "expired" ELSE "abandoned"]

record_final(w, ok) ==
    /\ Open(w) /\ journal[w].submitted
    /\ journal' = [journal EXCEPT ![w].outcome =
                     IF ok THEN "finalized" ELSE "failed"]

-----------------------------------------------------------------------------
(* Control of the executor.                                                *)

Goto(label) == proc' = [proc EXCEPT !.at = label]
NextStep ==
    proc' = [proc EXCEPT !.at = IF proc.step = Pay THEN "commit" ELSE "begin",
                         !.step = IF proc.step = Pay THEN Pay ELSE @ + 1,
                         !.attempt = 0, !.resent = FALSE]
Fail == proc' = Off
At(label) == proc.at = label /\ UNCHANGED <<network, anchored, starts>>
Quiet == UNCHANGED <<journal, evidence, closing, sent>>
Journals == UNCHANGED <<evidence, closing, sent>>

AllowSubmit == proc.step \notin proc.expected

\* The checks of the finalized accounts made before a step is signed.
StepReady ==
    /\ (proc.step \in Upload /\ proc.mode = "resume"
            /\ proc.step - 1 \in Upload \ proc.expected) =>
          /\ Finalized \cap Upload = 2 .. proc.step - 1
          /\ Seal \notin Finalized
    /\ (proc.step = Seal /\ AllowSubmit) =>
          Upload \subseteq Finalized /\ Seal \notin Finalized
    /\ proc.step = Pay => Seal \in Finalized

-----------------------------------------------------------------------------
(* A first run.                                                            *)

Start ==
    /\ proc.at = "off" /\ starts = 0 /\ MaxStarts > 0
    /\ starts' = 1
    /\ Goto("reserve")
    /\ UNCHANGED <<network, files, sent>>

Reserve ==
    /\ At("reserve")
    /\ evidence' = "in_progress"
    /\ Goto("begin")
    /\ UNCHANGED <<journal, closing, sent>>

\* submit_signed_transaction: spool, send (with one identical retry), record
\* the submission, wait for finality, record it.
BeginOriginal ==
    /\ At("begin") /\ proc.mode = "fresh" /\ proc.step # Pay
    /\ IF StepReady
       THEN spool_signed_wire_submit_ready(Current) /\ Goto("send")
       ELSE Fail /\ UNCHANGED journal
    /\ Journals

\* sendTransaction runs the preflight simulation.  An error leaves open
\* whether the network has the wire, and ends a first run.
SendOriginal ==
    /\ proc.at = "send"
    /\ \E delivered, answered \in BOOLEAN :
          /\ answered => delivered
          /\ delivered => Accepts(proc.step, Confirmed)
          /\ flight' = IF delivered THEN flight \cup {Current} ELSE flight
          /\ IF answered THEN Goto("submitted") ELSE Fail
    /\ UNCHANGED <<tip, fin, landed, files, starts, sent>>

RecordOriginal ==
    /\ At("submitted")
    /\ record_submission(Current)
    /\ Goto("wait")
    /\ Journals

WaitOriginal ==
    /\ At("wait")
    /\ \/ FinalizedAs(Current, TRUE) /\ record_final(Current, TRUE) /\ NextStep
       \/ FinalizedAs(Current, FALSE) /\ Fail /\ UNCHANGED journal
    /\ Journals

-----------------------------------------------------------------------------
(* Reconciliation of a semantic step: every step of a resumed run, and the *)
(* payment of any run.                                                     *)

semantic_wire_ids(step) == {w \in DOMAIN journal : w[1] = step}

\* A wire recorded as absent is still absent and its blockhash invalid, a
\* wire recorded as failed is still a finalized failure.
validate_terminal_absence(w) ==
    \/ journal[w].outcome = "failed" /\ FinalizedAs(w, FALSE)
    \/ journal[w].outcome \in {"abandoned", "expired"}
         /\ ~Seen(w) /\ ~blockhash_valid_at_finalized(w)

\* Mutant: a wire whose submission is not recorded is taken for unsent.
BeginSemantic_SubmittedOnly ==
    /\ At("begin") /\ (proc.mode = "resume" \/ proc.step = Pay)
    /\ LET ids == semantic_wire_ids(proc.step)
           active == {w \in ids : Open(w) /\ journal[w].submitted}
       IN  IF \E w \in ids : journal[w].outcome = "finalized" THEN NextStep
           ELSE IF active # {}
           THEN \E w \in active :
                   proc' = [proc EXCEPT !.at = "status", !.attempt = w[2],
                                        !.resent = FALSE]
           ELSE IF AllowSubmit THEN Goto("sign") ELSE Fail
    /\ Quiet

\* reconcile_semantic_transaction up to the choice of the wire to follow.
BeginSemantic ==
    /\ At("begin") /\ (proc.mode = "resume" \/ proc.step = Pay)
    /\ LET ids == semantic_wire_ids(proc.step)
           final == {w \in ids : journal[w].outcome = "finalized"}
           active == {w \in ids : Open(w)}
           sound == /\ StepReady
                    /\ Cardinality(final) <= 1 /\ Cardinality(active) <= 1
                    /\ final = {} \/ active = {}
                    /\ \A w \in ids \ (final \cup active) :
                          validate_terminal_absence(w)
       IN  IF ~sound THEN Fail
           ELSE IF final # {}
           THEN IF \A w \in final : FinalizedAs(w, TRUE) THEN NextStep ELSE Fail
           ELSE IF active # {}
           THEN \E w \in active :
                   proc' = [proc EXCEPT !.at = "status", !.attempt = w[2],
                                        !.resent = FALSE]
           ELSE IF AllowSubmit THEN Goto("sign") ELSE Fail
    /\ Quiet

\* The first retry that was never signed.  Signing stops for good when the
\* retries are exhausted.
SignRetry ==
    /\ At("sign")
    /\ LET unused == {n \in 1 .. MaxAttempts : <<proc.step, n>> \notin DOMAIN journal}
       IN  IF unused = {}
           THEN Fail /\ UNCHANGED journal
           ELSE \E n \in unused :
                   /\ \A m \in unused : n <= m
                   /\ spool_signed_wire_submit_ready(<<proc.step, n>>)
                   /\ proc' = [proc EXCEPT !.at = "bind", !.attempt = n,
                                           !.resent = FALSE]
    /\ Journals

BindExpiry ==
    /\ At("bind")
    /\ fresh_wire_blockhash_bound(Current)
    /\ Goto("status")
    /\ Journals

binding_missing == IsRetry(Current) /\ ~journal[Current].bound

\* reconcile_journal_wire, one RPC read or one journal append at a time.
ReadStatus ==
    /\ At("status")
    /\ IF ~Seen(Current)
       THEN Goto("blockhash") /\ UNCHANGED journal
       ELSE IF binding_missing
       THEN Fail /\ UNCHANGED journal
       ELSE IF ~journal[Current].submitted
       THEN record_submission(Current) /\ UNCHANGED proc
       ELSE \/ FinalizedAs(Current, TRUE) /\ record_final(Current, TRUE) /\ NextStep
            \/ /\ FinalizedAs(Current, FALSE) /\ record_final(Current, FALSE)
               /\ IF AllowSubmit THEN Goto("sign") ELSE Fail
    /\ Journals

\* Mutant: a restarted executor sends a wire again.
ReadBlockhash_Resend ==
    /\ At("blockhash")
    /\ IF ~blockhash_valid_at_finalized(Current) THEN Goto("expiry")
       ELSE IF ~AllowSubmit THEN Fail
       ELSE IF binding_missing \/ proc.resent THEN Goto("status")
       ELSE Goto("authorize")
    /\ Quiet

ReadBlockhash ==
    /\ At("blockhash")
    /\ IF ~blockhash_valid_at_finalized(Current) THEN Goto("expiry")
       ELSE IF ~AllowSubmit THEN Fail
       ELSE IF binding_missing \/ proc.resent \/ journal[Current].consumed
       THEN Goto("status")
       ELSE Goto("authorize")
    /\ Quiet

\* Mutant: the history is not searched again after the expiry.
ReadHeight_NoRecheck ==
    /\ At("expiry")
    /\ IF journal[Current].bound /\ fin <= LastValid(Current) THEN Goto("status")
       ELSE Goto("absent")
    /\ Quiet

\* Mutant: only a wire with a bound expiry is ever given up.
ReadHeight_BoundOnly ==
    /\ At("expiry")
    /\ IF ~journal[Current].bound \/ fin <= LastValid(Current) THEN Goto("status")
       ELSE IF Seen(Current) THEN Fail ELSE Goto("absent")
    /\ Quiet

\* The finalized height is compared with the bound one, if there is one, and
\* the history is searched once more.
ReadHeight ==
    /\ At("expiry")
    /\ IF journal[Current].bound /\ fin <= LastValid(Current) THEN Goto("status")
       ELSE IF Seen(Current) THEN Fail ELSE Goto("absent")
    /\ Quiet

RecordAbsence ==
    /\ At("absent")
    /\ record_absence(Current)
    /\ IF AllowSubmit THEN Goto("sign") ELSE Fail
    /\ Journals

\* The step's check before sending (a simulation, for the seal and the
\* payment), then the checkpoint that consumes the authority to send.
Authorize ==
    /\ At("authorize")
    /\ IF proc.step \in {Seal, Pay} => Accepts(proc.step, Confirmed)
       THEN wire_send_authority_consumed(Current) /\ Goto("transmit")
       ELSE Fail /\ UNCHANGED journal
    /\ Journals

Transmit ==
    /\ proc.at = "transmit"
    /\ sent' = sent \cup {Current}
    /\ \E delivered, answered \in BOOLEAN :
          /\ answered => delivered
          /\ delivered => Accepts(proc.step, Confirmed)
          /\ flight' = IF delivered THEN flight \cup {Current} ELSE flight
          /\ proc' = [proc EXCEPT !.at = IF answered THEN "accepted" ELSE "unanswered",
                                  !.resent = TRUE]
    /\ UNCHANGED <<tip, fin, landed, files, starts>>

RecordAnswer ==
    /\ At(proc.at) /\ proc.at \in {"accepted", "unanswered"}
    /\ IF proc.at = "accepted" /\ ~journal[Current].submitted
       THEN record_submission(Current)
       ELSE UNCHANGED journal
    /\ Goto("status")
    /\ Journals

-----------------------------------------------------------------------------
(* The end of a run, stops and resumption.                                 *)

PaidBy == {w \in semantic_wire_ids(Pay) : journal[w].outcome = "finalized"}

CommitEvidence ==
    /\ At("commit")
    /\ IF Cardinality(PaidBy) = 1
       THEN evidence' = "committed" /\ Goto("checkpoint")
       ELSE Fail /\ UNCHANGED evidence
    /\ UNCHANGED <<journal, closing, sent>>

\* Two appends close the journal: the checkpoint that names the evidence, and
\* run_completed.
Checkpoint ==
    /\ At("checkpoint")
    /\ closing' = "checkpoint"
    /\ Goto("complete")
    /\ UNCHANGED <<journal, evidence, sent>>

Complete ==
    /\ At("complete")
    /\ closing' = "completed"
    /\ Goto("done")
    /\ UNCHANGED <<journal, evidence, sent>>

\* The process is killed, gives up on a timeout or on an RPC failure, or is
\* done.  When it is killed between the fsync of the last entry and that of
\* the lock anchor, the two no longer agree, and no later start opens the
\* journal.
Stop ==
    /\ proc.at # "off"
    /\ proc' = Off
    /\ \E torn \in BOOLEAN : anchored' = (anchored /\ ~torn)
    /\ UNCHANGED <<network, journal, evidence, closing, starts, sent>>

reopen == proc.at = "off" /\ anchored /\ starts \in 1 .. MaxStarts - 1

\* recover_v5_setup from the finalized accounts: the account creation must be
\* journaled as finalized, and steps the accounts do not show must not be.
Resume ==
    /\ reopen /\ evidence = "in_progress" /\ closing # "completed"
    /\ Create \in Finalized
    /\ <<Create, 0>> \in DOMAIN journal
    /\ journal[<<Create, 0>>].outcome = "finalized"
    /\ \E n \in 0 .. Uploads : Finalized \cap Upload = 2 .. n + 1
    /\ \A w \in DOMAIN journal :
          w[1] \in (Upload \cup {Seal}) \ Finalized =>
             /\ journal[w].outcome # "finalized"
             /\ Open(w) => Upload \cap (2 .. w[1] - 1) \subseteq Finalized
    /\ proc' = [Off EXCEPT !.at = "begin", !.mode = "resume", !.step = 2,
                           !.expected = Finalized]
    /\ starts' = starts + 1
    /\ UNCHANGED <<network, files, sent>>

\* What a start asks of the journal before it closes a run whose evidence is
\* committed.
recover_committed_evidence ==
    /\ anchored
    /\ Cardinality(PaidBy) = 1
    /\ \A w \in PaidBy : journal[w].consumed /\ FinalizedAs(w, TRUE)

\* The appends that are missing are made; a closed journal is left alone.
RecoverCommitted ==
    /\ reopen /\ evidence = "committed"
    /\ recover_committed_evidence
    /\ proc' = [Off EXCEPT !.mode = "resume", !.step = Pay,
                           !.at = CASE closing = "open" -> "checkpoint"
                                    [] closing = "checkpoint" -> "complete"
                                    [] closing = "completed" -> "done"]
    /\ starts' = starts + 1
    /\ UNCHANGED <<network, files, sent>>

-----------------------------------------------------------------------------
Init ==
    /\ tip = 0 /\ fin = 0 /\ flight = {} /\ landed = <<>>
    /\ journal = <<>> /\ anchored = TRUE
    /\ evidence = "none" /\ closing = "open"
    /\ proc = Off /\ starts = 0 /\ sent = {}

Executor ==
    \/ Reserve \/ BeginOriginal \/ SendOriginal \/ RecordOriginal \/ WaitOriginal
    \/ BeginSemantic \/ SignRetry \/ BindExpiry
    \/ ReadStatus \/ ReadBlockhash \/ ReadHeight \/ RecordAbsence
    \/ Authorize \/ Transmit \/ RecordAnswer
    \/ CommitEvidence \/ Checkpoint \/ Complete

Next ==
    \/ Start \/ Resume \/ RecoverCommitted \/ Stop
    \/ Executor
    \/ \E w \in flight : Include(w)
    \/ Produce \/ Finalize \/ Fork

Spec == Init /\ [][Next]_vars

\* A running executor keeps running until it is stopped, and the chain makes
\* and finalizes blocks.  Nothing is assumed of delivery or of restarts.
FairSpec ==
    /\ Spec
    /\ WF_vars(Executor) /\ WF_vars(Produce) /\ WF_vars(Finalize)

-----------------------------------------------------------------------------
(* Properties.                                                             *)

TypeOK ==
    /\ tip \in 0 .. MaxHeight /\ fin \in 0 .. tip
    /\ DOMAIN journal \subseteq Wires
    /\ \A w \in DOMAIN journal : journal[w] \in ReadyWires
    /\ landed \in Seq(Landings)
    /\ flight \subseteq DOMAIN journal /\ sent \subseteq DOMAIN journal
    /\ anchored \in BOOLEAN
    /\ closing \in {"open", "checkpoint", "completed"}
    /\ evidence \in {"none", "in_progress", "committed"}
    /\ proc \in Procs
    /\ starts \in 0 .. MaxStarts

\* What the journal records as finalized, failed or absent is so on chain,
\* and a payment recorded once is the only one.  Retries only: an original
\* wire carries no bound expiry (see AbsenceIsConclusive).
JournalIsTrue ==
    \A w \in DOMAIN journal :
        /\ journal[w].outcome = "finalized" => FinalizedAs(w, TRUE)
        /\ journal[w].outcome = "failed" => FinalizedAs(w, FALSE)
        /\ IsRetry(w) /\ journal[w].outcome \in {"abandoned", "expired"} => ~Seen(w)

\* The journal is closed only over committed evidence, and a run whose
\* evidence is committed is closed by any later start, as long as no stop
\* separated the last entry from its anchor (see StoppedRunsReopen).
CommittedEvidenceRecovers ==
    /\ closing # "open" => evidence = "committed"
    /\ evidence = "committed" /\ anchored => recover_committed_evidence

\* The recovery journal can be believed, whatever stops, forks and lost
\* answers did: what it says of a wire is so, it is closed only over committed
\* evidence, and while its anchor holds it is enough to close a run whose
\* evidence is committed.
JournalIsSound ==
    /\ TypeOK
    /\ JournalIsTrue
    /\ CommittedEvidenceRecovers

\* A replacement is signed only when no earlier retry of the step can still
\* succeed: it failed for good, or it is out of its window at finality, or it
\* was never handed to the network.
MayStillSucceed(w) ==
    /\ w \in flight
    /\ \/ \E i \in DOMAIN landed : landed[i].wire = w /\ landed[i].ok
       \/ ~Seen(w) /\ tip <= LastValid(w)

OneLiveRetry ==
    \A v, w \in DOMAIN journal :
        v[1] = w[1] /\ IsRetry(v) /\ v[2] < w[2] => ~MayStillSucceed(v)

\* The authority to send is used once: a wire that reconciliation is about to
\* transmit was never transmitted by it before, in this run or an earlier one.
SendAuthorityOnce == proc.at = "transmit" => Current \notin sent

\* Although sealing does not look at the chunks, the proof is sealed only
\* after every chunk was written, whatever forks did in between.
SealedIsComplete ==
    \A i \in DOMAIN landed :
        landed[i].wire[1] = Seal /\ landed[i].ok => Upload \subseteq Succeeded(i)

\* A wire under reconciliation is settled, unless the process stops.
Reconciling == proc.at \in {"status", "blockhash", "expiry", "absent",
                            "authorize", "transmit", "accepted", "unanswered"}
WiresSettle == Reconciling ~> ~Reconciling

\* The journal's documentation (spend_mainnet_journal.rs, "a wire proven
\* expired and absent from transaction history").  It does not hold: an
\* original wire has no bound expiry, and a blockhash younger than the
\* finalized block reads as expired while the wire can still land.
AbsenceIsConclusive ==
    \A w \in DOMAIN journal :
        journal[w].outcome \in {"abandoned", "expired"} => ~Seen(w)

\* docs/code-map.md lists a "Crash-resumable executor".  A run whose evidence
\* is committed is not resumable from every stop: one between the two fsyncs
\* of an append leaves an anchor that validate_lock_anchor refuses for good.
StoppedRunsReopen ==
    proc.at = "off" /\ evidence = "committed" => anchored

-----------------------------------------------------------------------------
(* The inductive invariant behind JournalIsSound, OneLiveRetry,            *)
(* SendAuthorityOnce and SealedIsComplete.                                 *)

\* Blocks are in order, and a wire is in at most one of them.
LandedInOrder ==
    /\ \A i, j \in DOMAIN landed : i < j => landed[i].height <= landed[j].height
    /\ \A i \in DOMAIN landed : landed[i].height <= tip /\ landed[i].wire \in flight
    /\ \A i, j \in DOMAIN landed : landed[i].wire = landed[j].wire => i = j

\* What the network received was authorized by the journal.
FlightIsAuthorized ==
    /\ \A w \in flight : /\ IsRetry(w) => journal[w].bound
                         /\ IsRetry(w) \/ w[1] = Pay => journal[w].consumed
    /\ \A w \in sent : journal[w].consumed

\* A wire that was given up can no longer land.
Gone(w) == ~Seen(w) /\ (w \notin flight \/ fin > LastValid(w))
AbsentIsGone ==
    \A w \in DOMAIN journal :
        IsRetry(w) /\ journal[w].outcome \in {"abandoned", "expired"} => Gone(w)

\* Retries are signed in order, the next one when the last one is settled.
Dead(w) == journal[w].outcome \in {"failed", "abandoned", "expired"}
RetriesAreSerial ==
    \A w \in DOMAIN journal :
        /\ \A k \in 1 .. w[2] : <<w[1], k>> \in DOMAIN journal
        /\ \A v \in DOMAIN journal : v[1] = w[1] /\ IsRetry(v) /\ v[2] < w[2] => Dead(v)

\* The seal is signed when the chunks are final.
SealFollowsUploads ==
    \A w \in DOMAIN journal : w[1] = Seal => Upload \subseteq Finalized

\* What the executor relies on at each point of its control.
Following == proc.at \in {"bind", "status", "blockhash", "expiry", "absent",
                          "authorize", "transmit", "accepted", "unanswered"}
ControlIsSound ==
    /\ proc.at \in {"off", "reserve", "begin", "send", "submitted", "wait"} =>
          proc.attempt = 0
    /\ proc.mode = "fresh" => proc.expected = {}
    /\ proc.at \in {"send", "submitted", "wait"} =>
          proc.step # Pay /\ Current \in DOMAIN journal
    /\ Following =>
          /\ Current \in DOMAIN journal /\ Open(Current)
          /\ \A v \in DOMAIN journal : v[1] = proc.step /\ v # Current => Dead(v)
    /\ proc.at = "sign" =>
          /\ \A v \in DOMAIN journal : v[1] = proc.step => Dead(v)
          /\ proc.step = Seal => Upload \subseteq Finalized
    /\ proc.at = "absent" /\ IsRetry(Current) => Gone(Current)
    /\ proc.at = "authorize" => ~binding_missing /\ ~journal[Current].consumed
    /\ proc.at = "transmit" =>
          ~binding_missing /\ journal[Current].consumed /\ Current \notin sent

\* The run ends when the payment is final.
Closing == proc.at \in {"checkpoint", "complete", "done"}
EvidenceIsLast ==
    /\ evidence # "none" \/ proc.at # "off" => starts > 0
    /\ closing # "open" \/ Closing => evidence = "committed"
    /\ evidence = "committed" =>
          (proc.at = "off" \/ Closing) /\ Cardinality(PaidBy) = 1

JournalInv ==
    /\ FlightIsAuthorized
    /\ JournalIsTrue
    /\ AbsentIsGone
    /\ RetriesAreSerial
    /\ SealFollowsUploads

IInv ==
    /\ TypeOK
    /\ LandedInOrder
    /\ JournalInv
    /\ ControlIsSound
    /\ EvidenceIsLast
    /\ SealedIsComplete
=============================================================================
