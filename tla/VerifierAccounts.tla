-------------------------- MODULE VerifierAccounts --------------------------
(***************************************************************************)
(* The accounts of the verifier program (programs/aspis-verifier/src:      *)
(* lifecycle.rs, atomic_payment.rs, v7_pool_receipt.rs, dispatch.rs):      *)
(* proof uploads, single-note pools and their nullifier markers, and the   *)
(* authorization receipts of Pool V1.                                      *)
(*                                                                         *)
(* Instructions run inside transactions.  A transaction with a failing     *)
(* instruction changes nothing, so only instructions that succeed are      *)
(* steps.  At commit the runtime requires rent of every account that is    *)
(* left and purges the accounts without lamports; until then a drained     *)
(* account keeps its owner and its bytes.                                  *)
(*                                                                         *)
(* An account without data belongs to the System program, any other one to *)
(* the verifier.  A digest is what it digests, a PDA its seeds.            *)
(***************************************************************************)
EXTENDS Integers, Sequences, FiniteSets, FiniteSetsExt, Functions

CONSTANTS
  Keys,            \* keypair addresses: a proof account or a pool
  Users,           \* System accounts that sign and pay
  Spaces,          \* sizes of new accounts, in chunks after the header
  PoolSpace,       \* the exact size of a pool account
  Chunks,          \* contents of a chunk of proof bytes
  Proofs,          \* the proofs that verify: [bytes, profile, attempt, statement]
  Requests,        \* the dispatch requests of receipts: [proof, bytes, statement]
  Domains,         \* deployment domains
  FirstBump,       \* nullifiers whose address has the bump 255
  Tags,            \* payment instructions in use
  Funds,           \* lamports of each user at the start
  Gifts,           \* amounts a user sends to an address
  MaxGifts,        \* bound on the number of such transfers
  Starts,          \* first sequence and anchor of a pool
  MaxSequence,     \* largest sequence (2^64 - 1)
  MaxInstructions, \* bound on the instructions of a transaction
  Zero             \* a chunk of zeros, and the all-zero key

Statements == {p.statement : p \in Proofs} \cup {r.statement : r \in Requests}
Nullifiers == {s.nullifier : s \in Statements}
Anchors == (UNION {{s.anchor, s.output_anchor} : s \in Statements}) \cup {s.anchor : s \in Starts}

ASSUME AccountsAssumption ==
  /\ Zero \notin Chunks \cup Users \cup Keys
  /\ MaxInstructions \in Nat \ {0} /\ MaxSequence \in Nat \ {0} /\ Funds \in [Users -> Nat]
  /\ Spaces \subseteq Nat /\ Gifts \subseteq Nat \ {0} /\ MaxGifts \in Nat
  /\ Tags \subseteq {60, 65, 67, 72, 73}
  /\ \A s \in Starts : s.sequence \in Nat
  /\ Statements \subseteq [pool : Keys, sequence : Nat, anchor : Anchors, nullifier : Nullifiers,
                          output_anchor : Anchors, domain : Domains]

ASSUME AddressesAssumption ==
  IsFiniteSet(Keys) /\ IsFiniteSet(Nullifiers) /\ IsFiniteSet(Requests) /\ IsFiniteSet(Users)

VARIABLES
  key,      \* the accounts at keypair addresses
  marker,   \* the nullifier marker accounts
  receipt,  \* the authorization receipt accounts
  user,     \* lamports of the users
  left,     \* instructions left in the transaction
  gifts,    \* transfers so far
  spends    \* the payments applied, in order (observation)

vars == <<key, marker, receipt, user, left, gifts, spends>>
-----------------------------------------------------------------------------
(* Account images.                                                         *)

NoData == [kind |-> "none"]
Zeroed(space) == [kind |-> "zero", space |-> space]
Upload(space, len, authority, body) ==
  [kind |-> "ASPU", space |-> space, len |-> len, authority |-> authority, body |-> body]
Closed == [kind |-> "ASPC"]
PoolState(sequence, anchor, domain) ==
  [kind |-> "ASPS", sequence |-> sequence, anchor |-> anchor, domain |-> domain]
Marker(pool, nullifier) == [kind |-> "ASPN", pool |-> pool, nullifier |-> nullifier]
Receipt(status, request, authority) ==
  [kind |-> "ASRA", status |-> status, request |-> request, authority |-> authority]
ClosedReceipt == [kind |-> "ASRC"]

Vacant == [lamports |-> 0, data |-> NoData]

(* Rent of an account with data; an account without data needs one lamport.*)
MinimumBalance == 2
Rent(data) == IF data = NoData THEN 1 ELSE MinimumBalance

Uploads == UNION {[kind : {"ASPU"}, space : {s}, len : 0..s, authority : Users \cup {Zero},
                   body : [1..s -> Chunks \cup {Zero}]] : s \in Spaces}
Pools == [kind : {"ASPS"}, sequence : 0..MaxSequence, anchor : Anchors, domain : Domains]
KeyData == {NoData, Closed} \cup {Zeroed(s) : s \in Spaces} \cup Uploads \cup Pools
MarkerData == {NoData} \cup [kind : {"ASPN"}, pool : Keys, nullifier : Nullifiers]
ReceiptData == {NoData, ClosedReceipt}
                 \cup [kind : {"ASRA"}, status : {"Pending", "Verified"},
                       request : Requests, authority : Users]

TypeOK ==
  /\ key \in [Keys -> [lamports : Nat, data : KeyData]]
  /\ marker \in [Nullifiers -> [lamports : Nat, data : MarkerData]]
  /\ receipt \in [Requests -> [lamports : Nat, data : ReceiptData]]
  /\ user \in [Users -> Nat]
  /\ left \in 0..MaxInstructions
  /\ gifts \in 0..MaxGifts
  /\ spends \in Seq(Statements)
-----------------------------------------------------------------------------
(* Proof accounts (lifecycle.rs).                                          *)

proof_account_initialized(d) == d.kind = "ASPU"
proof_account_finalized(d) == proof_account_initialized(d) /\ d.authority = Zero
uploaded_proof_bounds(d) == proof_account_initialized(d) /\ d.len <= d.space
ProofBytes(d) == SubSeq(d.body, 1, d.len)
require_upload_authority(d, u) == proof_account_initialized(d) /\ d.authority = u

Instruction == /\ left > 0
               /\ left' = left - 1

(* The System program gives a key's address to the verifier, with space    *)
(* bytes of zeros and rent from u.  The key signs.                         *)
CreateAccount(k, u, space) ==
  LET deficit == Max({MinimumBalance - key[k].lamports, 0}) IN
  /\ Instruction
  /\ key[k].data = NoData
  /\ user[u] >= deficit
  /\ key' = [key EXCEPT ![k] = [lamports |-> @.lamports + deficit, data |-> Zeroed(space)]]
  /\ user' = [user EXCEPT ![u] = @ - deficit]
  /\ UNCHANGED <<marker, receipt, gifts, spends>>

(* Space that the announced proof needs. *)
FitsAccount(d, total_len) == total_len <= d.space

(* Tag 0.  A fresh account must be all zero, and its key signs; an upload  *)
(* in progress is announced again under its own authority and keeps its    *)
(* bytes.                                                                  *)
Initialized(d, u, total_len) ==
  IF proof_account_initialized(d)
  THEN [d EXCEPT !.len = total_len]
  ELSE Upload(d.space, total_len, u, [i \in 1..d.space |-> Zero])

(* Mutant: an upload in progress is announced again under any authority.   *)
MayInit_AnyAuthority(d, u) == proof_account_initialized(d) \/ d.kind = "zero"

MayInit(d, u) == \/ require_upload_authority(d, u)
                 \/ d.kind = "zero"

init_proof(k, u, total_len) ==
  LET d == key[k].data IN
  /\ Instruction
  /\ MayInit(d, u)
  /\ FitsAccount(d, total_len)
  /\ key' = [key EXCEPT ![k].data = Initialized(d, u, total_len)]
  /\ UNCHANGED <<marker, receipt, user, gifts, spends>>

(* Tag 1. *)
upload_chunk(k, u, offset, chunk) ==
  LET d == key[k].data IN
  /\ Instruction
  /\ require_upload_authority(d, u)
  /\ offset + 1 <= d.len
  /\ key' = [key EXCEPT ![k].data.body[offset + 1] = chunk]
  /\ UNCHANGED <<marker, receipt, user, gifts, spends>>

(* Tag 62: the authority becomes the all-zero key, which nobody holds.     *)
finalize_proof(k, u) ==
  /\ Instruction
  /\ require_upload_authority(key[k].data, u)
  /\ key' = [key EXCEPT ![k].data.authority = Zero]
  /\ UNCHANGED <<marker, receipt, user, gifts, spends>>

(* Mutant: the account is drained and its bytes stay valid.                *)
refund_program_owned_proof_account_Valid(a) == [a EXCEPT !.lamports = 0]

(* Tombstone first, then drain: the bytes stay until the commit.           *)
refund_program_owned_proof_account(a) == [a EXCEPT !.data = Closed, !.lamports = 0]

(* Tag 64.  The proof account's key and the refunded account sign.         *)
close_proof(k, u) ==
  /\ Instruction
  /\ uploaded_proof_bounds(key[k].data)
  /\ proof_account_finalized(key[k].data)
  /\ key[k].lamports > 0
  /\ key' = [key EXCEPT ![k] = refund_program_owned_proof_account(@)]
  /\ user' = [user EXCEPT ![u] = @ + key[k].lamports]
  /\ UNCHANGED <<marker, receipt, gifts, spends>>
-----------------------------------------------------------------------------
(* Single-note pools and their payments (lifecycle.rs, atomic_payment.rs). *)

(* Tag 63.  The pool's key signs. *)
initialize_atomic_pool(k, sequence, anchor, domain) ==
  /\ Instruction
  /\ sequence < MaxSequence
  /\ key[k].data = Zeroed(PoolSpace)
  /\ key' = [key EXCEPT ![k].data = PoolState(sequence, anchor, domain)]
  /\ UNCHANGED <<marker, receipt, user, gifts, spends>>

(* The payment instructions: the proof profile each one verifies, whether  *)
(* it closes the proof account (tag 65), and whether the nullifier's       *)
(* address must have the bump 255 and the proof fill its account (tag 67). *)
Payment == [t \in {60, 65, 67, 72, 73} |->
              [profile |-> CASE t = 67 -> "v5" [] t = 72 -> "v6" [] t = 73 -> "v7" [] OTHER -> "v4",
               refund |-> t = 65, strict |-> t = 67]]

(* The statement of a payment is built from the live pool account.         *)
checked_statement(pool, wire) ==
  [wire EXCEPT !.pool = pool, !.sequence = key[pool].data.sequence]

(* The complete verifier accepts the uploaded bytes for the statement;     *)
(* from V6 on a proof is also bound to its own account.                    *)
Proves(profile, k, statement) ==
  \E p \in Proofs : /\ p.profile = profile
                    /\ p.bytes = ProofBytes(key[k].data)
                    /\ p.attempt \in {k, Zero}
                    /\ p.statement = statement

VerifyUploaded(tag, k, statement) ==
  LET d == key[k].data IN
  /\ proof_account_finalized(d)
  /\ uploaded_proof_bounds(d)
  /\ Payment[tag].strict => d.len = d.space
  /\ Proves(Payment[tag].profile, k, statement)

(* Mutant: the nullifier's marker is not looked at.                        *)
validate_accounts_and_state_Respend(tag, k, pool, wire) ==
  LET d == key[pool].data IN
  /\ d.kind = "ASPS"
  /\ k # pool
  /\ d.domain = wire.domain
  /\ d.anchor = wire.anchor
  /\ d.sequence < MaxSequence

validate_accounts_and_state(tag, k, pool, wire) ==
  LET d == key[pool].data IN
  /\ key[k].data # NoData
  /\ d.kind = "ASPS"
  /\ k # pool
  /\ Payment[tag].strict => wire.nullifier \in FirstBump
  /\ d.domain = wire.domain
  /\ d.anchor = wire.anchor
  /\ d.sequence < MaxSequence
  /\ marker[wire.nullifier].data = NoData

(* Lamports the payer adds to reach the rent of an account with data.      *)
Deficit(a) == IF a.lamports = 0 THEN MinimumBalance ELSE Max({MinimumBalance - a.lamports, 0})

(* Tags 60, 65, 67, 72 and 73. *)
verify_and_apply(tag, k, pool, wire, u) ==
  LET statement == checked_statement(pool, wire)
      n == wire.nullifier
      next_pool == PoolState(statement.sequence + 1, wire.output_anchor, key[pool].data.domain)
      refund == Payment[tag].refund IN
  /\ Instruction
  /\ validate_accounts_and_state(tag, k, pool, wire)
  /\ VerifyUploaded(tag, k, statement)
  /\ user[u] >= Deficit(marker[n])
  /\ refund => key[k].lamports > 0
  /\ marker' = [marker EXCEPT ![n] = [lamports |-> @.lamports + Deficit(@),
                                      data |-> Marker(pool, n)]]
  /\ key' = [key EXCEPT ![pool].data = next_pool,
                        ![k] = IF refund THEN refund_program_owned_proof_account(@) ELSE @]
  /\ user' = [user EXCEPT ![u] = @ - Deficit(marker[n]) + (IF refund THEN key[k].lamports ELSE 0)]
  /\ spends' = Append(spends, statement)
  /\ UNCHANGED <<receipt, gifts>>
-----------------------------------------------------------------------------
(* Authorization receipts (v7_pool_receipt.rs, tags 74, 75 and 76).        *)

(* The upload still has its authority and holds exactly the announced      *)
(* bytes; nothing is verified yet.                                         *)
UploadMatches(request, d) ==
  /\ uploaded_proof_bounds(d)
  /\ d.len = d.space
  /\ ProofBytes(d) = request.bytes

initialize_receipt(request, u) ==
  LET d == key[request.proof].data IN
  /\ Instruction
  /\ receipt[request].data = NoData
  /\ UploadMatches(request, d)
  /\ require_upload_authority(d, u)
  /\ user[u] >= Deficit(receipt[request])
  /\ receipt' = [receipt EXCEPT ![request] = [lamports |-> @.lamports + Deficit(@),
                                              data |-> Receipt("Pending", request, u)]]
  /\ user' = [user EXCEPT ![u] = @ - Deficit(receipt[request])]
  /\ UNCHANGED <<key, marker, gifts, spends>>

(* Mutant: the sealed bytes are not compared with the receipt's again.     *)
verify_selected_tag73_asvq_StaleDigest(request) ==
  /\ proof_account_finalized(key[request.proof].data)
  /\ Proves("v7", request.proof, request.statement)

verify_selected_tag73_asvq(request) ==
  LET d == key[request.proof].data IN
  /\ proof_account_finalized(d)
  /\ UploadMatches(request, d)
  /\ Proves("v7", request.proof, request.statement)

validate_pending_receipt_for_request(request) ==
  /\ receipt[request].data.kind = "ASRA"
  /\ receipt[request].data.status = "Pending"
  /\ receipt[request].data.request = request

finalize_receipt(request) ==
  /\ Instruction
  /\ validate_pending_receipt_for_request(request)
  /\ verify_selected_tag73_asvq(request)
  /\ receipt' = [receipt EXCEPT ![request].data.status = "Verified"]
  /\ UNCHANGED <<key, marker, user, gifts, spends>>

ReceiptDrained == [lamports |-> 0, data |-> ClosedReceipt]

close_receipt(request, u) ==
  LET a == receipt[request] IN
  /\ Instruction
  /\ a.data.kind = "ASRA"
  /\ a.data.request = request
  /\ a.data.authority = u
  /\ a.lamports > 0
  /\ receipt' = [receipt EXCEPT ![request] = ReceiptDrained]
  /\ user' = [user EXCEPT ![u] = @ + a.lamports]
  /\ UNCHANGED <<key, marker, gifts, spends>>
-----------------------------------------------------------------------------
(* The runtime.                                                            *)

(* A user sends lamports to an address, whatever is there.                 *)
Pay(u, amount) == /\ Instruction
                  /\ user[u] >= amount
                  /\ user' = [user EXCEPT ![u] = @ - amount]
                  /\ gifts < MaxGifts
                  /\ gifts' = gifts + 1
                  /\ UNCHANGED spends
GiveKey(u, k, amount) ==
  /\ Pay(u, amount)
  /\ key' = [key EXCEPT ![k].lamports = @ + amount]
  /\ UNCHANGED <<marker, receipt>>
GiveMarker(u, n, amount) ==
  /\ Pay(u, amount)
  /\ marker' = [marker EXCEPT ![n].lamports = @ + amount]
  /\ UNCHANGED <<key, receipt>>
GiveReceipt(u, request, amount) ==
  /\ Pay(u, amount)
  /\ receipt' = [receipt EXCEPT ![request].lamports = @ + amount]
  /\ UNCHANGED <<key, marker>>

RentPaid(accounts) == \A x \in DOMAIN accounts :
  accounts[x].lamports = 0 \/ accounts[x].lamports >= Rent(accounts[x].data)
Purged(accounts) ==
  [x \in DOMAIN accounts |-> IF accounts[x].lamports = 0 THEN Vacant ELSE accounts[x]]

Commit ==
  /\ left < MaxInstructions
  /\ RentPaid(key) /\ RentPaid(marker) /\ RentPaid(receipt)
  /\ key' = Purged(key)
  /\ marker' = Purged(marker)
  /\ receipt' = Purged(receipt)
  /\ left' = MaxInstructions
  /\ UNCHANGED <<user, gifts, spends>>

Init ==
  /\ key = [k \in Keys |-> Vacant]
  /\ marker = [n \in Nullifiers |-> Vacant]
  /\ receipt = [r \in Requests |-> Vacant]
  /\ user = Funds
  /\ left = MaxInstructions
  /\ gifts = 0
  /\ spends = << >>

Next ==
  \/ \E k \in Keys, u \in Users :
       \/ \E s \in Spaces : CreateAccount(k, u, s)
       \/ \E s \in Spaces : \E len \in 0..(s + 1) : init_proof(k, u, len)
       \/ \E s \in Spaces, c \in Chunks : \E offset \in 0..(s - 1) : upload_chunk(k, u, offset, c)
       \/ finalize_proof(k, u)
       \/ close_proof(k, u)
       \/ \E amount \in Gifts : GiveKey(u, k, amount)
       \/ \E tag \in Tags, pool \in Keys, wire \in Statements :
            verify_and_apply(tag, k, pool, wire, u)
  \/ \E k \in Keys, start \in Starts, domain \in Domains :
       initialize_atomic_pool(k, start.sequence, start.anchor, domain)
  \/ \E u \in Users, n \in Nullifiers, amount \in Gifts : GiveMarker(u, n, amount)
  \/ \E r \in Requests :
       \/ finalize_receipt(r)
       \/ \E u \in Users : initialize_receipt(r, u) \/ close_receipt(r, u)
       \/ \E u \in Users, amount \in Gifts : GiveReceipt(u, r, amount)
  \/ Commit

Spec == Init /\ [][Next]_vars
-----------------------------------------------------------------------------
(* Properties.                                                             *)

Total(accounts) == SumFunction([x \in DOMAIN accounts |-> accounts[x].lamports])

(* No lamport is created or lost, whatever accounts are created, funded,   *)
(* closed and refunded within a transaction.                               *)
LamportsConserved ==
  Total(key) + Total(marker) + Total(receipt) + SumFunction(user) = SumFunction(Funds)

(* A drained account is dead: every upload, pool, marker and receipt the   *)
(* program would still accept holds its rent, also in the middle of a      *)
(* transaction, so paying into a closed address revives nothing            *)
(* (atomic_payment.rs, "cannot revive a valid sealed proof").              *)
LiveAccountsAreFunded ==
  /\ \A k \in Keys : key[k].data.kind \notin {"none", "ASPC"} => key[k].lamports >= MinimumBalance
  /\ \A n \in Nullifiers : marker[n].data # NoData => marker[n].lamports >= MinimumBalance
  /\ \A r \in Requests : receipt[r].data.kind = "ASRA" => receipt[r].lamports >= MinimumBalance

(* The program's accounts are a ledger of lamports: typed, conserved, and  *)
(* funded as long as they are alive.                                       *)
AccountsAreSound ==
  /\ TypeOK
  /\ LamportsConserved
  /\ LiveAccountsAreFunded

(* A verified receipt attests a proof that verifies: the bytes it names    *)
(* prove the statement it names, although they are checked against the     *)
(* upload before the upload is sealed and again after.                     *)
VerifiedReceiptsAreTrue ==
  \A r \in Requests : receipt[r].data.kind = "ASRA" /\ receipt[r].data.status = "Verified" =>
    \E p \in Proofs : /\ p.profile = "v7" /\ p.attempt \in {r.proof, Zero}
                      /\ p.bytes = r.bytes /\ p.statement = r.statement

(* A note is spent once, over all pools and all payment tags; its marker   *)
(* names the pool that spent it; and each pool's sequence and root are     *)
(* those of its last payment, each payment starting from the one before.   *)
NoneBetween(pool, i, j) == \A m \in DOMAIN spends : i < m /\ m < j => spends[m].pool # pool
SpendsAreSerial ==
  /\ \A n \in Nullifiers : marker[n].data # NoData =>
       \E i \in DOMAIN spends : spends[i].nullifier = n
  /\ \A i \in DOMAIN spends :
       marker[spends[i].nullifier].data = Marker(spends[i].pool, spends[i].nullifier)
  /\ \A i, j \in DOMAIN spends : spends[i].nullifier = spends[j].nullifier => i = j
  /\ \A i \in DOMAIN spends : LET pool == spends[i].pool IN
       /\ NoneBetween(pool, i, Len(spends) + 1) =>
            key[pool].data = PoolState(spends[i].sequence + 1, spends[i].output_anchor,
                                       spends[i].domain)
       /\ \A j \in DOMAIN spends : i < j /\ spends[j].pool = pool /\ NoneBetween(pool, i, j) =>
            /\ spends[j].sequence = spends[i].sequence + 1
            /\ spends[j].anchor = spends[i].output_anchor
            /\ spends[j].domain = spends[i].domain

(* What an instruction may make of the image d of a keypair account: a     *)
(* fresh account becomes an upload or a pool and stays one; an upload stays*)
(* with its authority until that authority seals it, which changes no byte;*)
(* a sealed upload is only ever closed; a pool moves by one payment.       *)
Succeeds(d, e) ==
  \/ e = d
  \/ d.kind = "none" /\ e.kind = "zero"
  \/ d.kind = "zero" /\ (e.kind = "ASPS" \/ (e.kind = "ASPU" /\ e.authority # Zero))
  \/ /\ d.kind = "ASPU" /\ d.authority # Zero
     /\ \/ e.kind = "ASPU" /\ e.authority = d.authority /\ e.space = d.space
        \/ e = [d EXCEPT !.authority = Zero]
  \/ d.kind = "ASPU" /\ d.authority = Zero /\ e = Closed
  \/ d.kind = "ASPS" /\ e.kind = "ASPS" /\ e.domain = d.domain /\ e.sequence = d.sequence + 1

(* And of a receipt: it is verified as it was announced, and only closed   *)
(* after that.                                                             *)
ReceiptSucceeds(d, e) ==
  \/ e = d
  \/ d = NoData /\ e.kind = "ASRA" /\ e.status = "Pending"
  \/ d.kind = "ASRA" /\ d.status = "Pending" /\ e = [d EXCEPT !.status = "Verified"]
  \/ d.kind = "ASRA" /\ e = ClosedReceipt

KeyAdvances(k) == \/ Succeeds(key[k].data, key'[k].data)
                  \/ key[k].lamports = 0 /\ key'[k] = Vacant
ReceiptAdvances(r) == \/ ReceiptSucceeds(receipt[r].data, receipt'[r].data)
                      \/ receipt[r].lamports = 0 /\ receipt'[r] = Vacant

(* The life of an account has one direction: no account becomes one of     *)
(* another kind (lifecycle.rs, "an initialized proof must not be retyped   *)
(* as a pool"), what was sealed or verified never changes again, and an    *)
(* address starts anew only after the runtime purged it.                   *)
Advances == /\ \A k \in Keys : KeyAdvances(k)
            /\ \A r \in Requests : ReceiptAdvances(r)
AccountsAdvance == [][Advances]_vars
=============================================================================
