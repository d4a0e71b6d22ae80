--------------------------- MODULE ShieldedLedger ---------------------------
(***************************************************************************)
(* What a Pool promises: a list of notes that only grows, the serials that *)
(* have been spent, and the tokens in custody.  A note is spent at most    *)
(* once, by what is in the list, and value is neither created nor          *)
(* misplaced.  Pages, plans, receipts and the verifier registry are        *)
(* implementation.                                                         *)
(***************************************************************************)
EXTENDS PoolNotes, FiniteSetsExt, Functions

VARIABLES notes, spent, custody

vars == <<notes, spent, custody>>

Deposit(n) ==
  /\ n.value > 0
  /\ notes' = Append(notes, n)
  /\ custody' = custody + n.value
  /\ UNCHANGED spent

\* The owner of n replaces it by the notes of outs and takes `amount' out.
Spend(n, outs, amount) ==
  /\ n \in Range(notes)
  /\ n.serial \notin spent
  /\ n.value = amount + Total(outs)
  /\ amount <= custody
  /\ notes' = notes \o outs
  /\ spent' = spent \union {n.serial}
  /\ custody' = custody - amount

\* Anyone may send tokens to the vault; nobody owns them afterwards.
Donate(v) ==
  /\ custody' = custody + v
  /\ UNCHANGED <<notes, spent>>

Init == notes = <<>> /\ spent = {} /\ custody = 0

Next ==
  \/ \E n \in Notes : Deposit(n)
  \/ \E n \in Notes, outs \in OutputLists, a \in Values : Spend(n, outs, a)
  \/ \E v \in Values : Donate(v)

Spec == Init /\ [][Next]_vars

-----------------------------------------------------------------------------
\* The most that the holders of one serial can still take out: only one of
\* the notes with that serial can be spent.
Worth(s) == Max({0} \union {n.value : n \in {m \in Range(notes) : m.serial = s}})

Owed == SumFunctionOnSet([s \in Serials |-> Worth(s)], Serials \ spent)

\* Every note that can still be spent can be paid out: the vault holds at
\* least the worth of all unspent serials together.
Solvent == custody >= Owed
=============================================================================
