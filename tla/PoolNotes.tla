----------------------------- MODULE PoolNotes -----------------------------
(***************************************************************************)
(* Notes.  A note commits to its owner, value and salt; its nullifier is a *)
(* hash of the owner's nullifier key and the salt only.  A serial stands   *)
(* for the (owner, salt) pair, so it is the nullifier too, and nothing     *)
(* prevents two notes, even of different values, from having one serial.   *)
(***************************************************************************)
EXTENDS Integers, Sequences, FiniteSets

CONSTANTS
  Serials,     \* (owner, salt) pairs, and their nullifiers
  ValueLimit   \* VALUE_LIMIT: every note's value is below it

ASSUME ValueAssumption == ValueLimit \in Nat \ {0}
ASSUME SerialAssumption == IsFiniteSet(Serials)

Values == 0..(ValueLimit - 1)
Notes == [serial: Serials, value: Values]

\* What a spend appends: one change note, or a recipient's note and a change
\* note.
OutputLists == {<<n>> : n \in Notes} \union (Notes \X Notes)

Total(outs) == IF Len(outs) = 1 THEN outs[1].value
                                ELSE outs[1].value + outs[2].value
=============================================================================
