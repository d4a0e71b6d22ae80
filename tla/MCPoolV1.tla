------------------------------ MODULE MCPoolV1 ------------------------------
(***************************************************************************)
(* Instances of PoolV1 for TLC.                                            *)
(***************************************************************************)
EXTENDS PoolV1Ledger, TLC

\* One leaf of the largest value that nobody deposited, for each serial.
OneForgedLeaf == {<<[serial |-> s, value |-> ValueLimit - 1]>> : s \in Serials}

\* Whole notes only: all is withdrawn, or all goes to the recipient and the
\* change note is worth nothing.
WholeNotes ==
  {<<[serial |-> s, value |-> 0]>> : s \in Serials} \union
  {<<[serial |-> p[1], value |-> v], [serial |-> p[2], value |-> 0]>> :
     v \in Values \ {0}, p \in {q \in Serials \X Serials : q[1] # q[2]}}

SerialsAreAlike == Permutations(Serials)
=============================================================================
