------------------------ MODULE VerifierAccountsProofs ------------------------
(***************************************************************************)
(* Proofs about VerifierAccounts, for every set of addresses, users,       *)
(* proofs, requests and amounts and any length of transactions.            *)
(*                                                                         *)
(* Each action is first reduced to what it does to each kind of account;   *)
(* the invariant and the life cycle of the accounts follow from that.      *)
(* That no lamport is created or lost is a statement about sums, proved    *)
(* from the facts about sums over finite sets in this module.              *)
(***************************************************************************)
EXTENDS VerifierAccounts, TLAPS

(* Facts about sequences.                                                  *)
LEMMA LenProperties ==
  ASSUME NEW S, NEW seq \in Seq(S)
  PROVE  Len(seq) \in Nat /\ seq \in [1..Len(seq) -> S] /\ DOMAIN seq = 1..Len(seq)
OBVIOUS

LEMMA ElementOfSeq ==
  ASSUME NEW S, NEW seq \in Seq(S), NEW i \in 1..Len(seq) PROVE seq[i] \in S
OBVIOUS

LEMMA AppendProperties ==
  ASSUME NEW S, NEW seq \in Seq(S), NEW x \in S
  PROVE  /\ Append(seq, x) \in Seq(S) /\ Len(Append(seq, x)) = Len(seq) + 1
         /\ \A i \in 1..Len(seq) : Append(seq, x)[i] = seq[i]
         /\ Append(seq, x)[Len(seq) + 1] = x
OBVIOUS

-----------------------------------------------------------------------------
(* The inductive invariant: the accounts are typed, those the program      *)
(* accepts are funded, verified receipts are true, and payments serial.    *)
IInv ==
  /\ TypeOK
  /\ LiveAccountsAreFunded
  /\ VerifiedReceiptsAreTrue
  /\ SpendsAreSerial

-----------------------------------------------------------------------------
(* Account images.                                                         *)

\* The larger of two numbers.
LEMMA MaxOfTwo ==
  ASSUME NEW a \in Int, NEW b \in Int
  PROVE  Max({a, b}) \in Int /\ Max({a, b}) >= a /\ Max({a, b}) >= b /\ Max({a, b}) \in {a, b}
<1>1. \E x \in {a, b} : \A y \in {a, b} : x >= y
  BY SMT
<1>2. Max({a, b}) \in {a, b} /\ \A y \in {a, b} : Max({a, b}) >= y
  BY <1>1, Zenon DEF Max
<1>. QED  BY <1>2, Zenon

\* What a payer adds to an account brings it to its rent.
LEMMA DeficitPays ==
  ASSUME NEW a, a.lamports \in Nat
  PROVE  /\ Deficit(a) \in Nat /\ a.lamports + Deficit(a) >= MinimumBalance
         /\ Max({MinimumBalance - a.lamports, 0}) \in Nat
         /\ a.lamports + Max({MinimumBalance - a.lamports, 0}) >= MinimumBalance
<1> DEFINE m == Max({MinimumBalance - a.lamports, 0})
<1>1. m \in Int /\ m >= MinimumBalance - a.lamports /\ m >= 0
  <2>1. PICK x \in Int, z \in Int : x = MinimumBalance - a.lamports /\ z = 0
    BY DEF MinimumBalance
  <2>2. Max({x, z}) \in Int /\ Max({x, z}) >= x /\ Max({x, z}) >= z
    BY MaxOfTwo, Zenon
  <2>. QED  BY <2>1, <2>2, Zenon
<1>. HIDE DEF m
<1>2. m \in Nat /\ a.lamports + m >= MinimumBalance
  BY <1>1 DEF MinimumBalance
<1>3. Deficit(a) = IF a.lamports = 0 THEN MinimumBalance ELSE m
  BY Zenon DEF Deficit, m
<1>4. Deficit(a) \in Nat /\ a.lamports + Deficit(a) >= MinimumBalance
  BY <1>2, <1>3 DEF MinimumBalance
<1>. QED  BY <1>2, <1>4, Zenon DEF m

\* The kinds of image at a keypair address.
LEMMA KeyKinds ==
  ASSUME NEW d \in KeyData
  PROVE  \/ d = NoData /\ d.kind = "none"
         \/ d = Closed /\ d.kind = "ASPC"
         \/ d.kind = "zero" /\ \E s \in Spaces : d = Zeroed(s) /\ d.space = s
         \/ d \in Uploads /\ d.kind = "ASPU"
         \/ d \in Pools /\ d.kind = "ASPS"
<1>1. d \in {NoData, Closed} \/ (\E s \in Spaces : d = Zeroed(s)) \/ d \in Uploads \/ d \in Pools
  BY Zenon DEF KeyData
<1>2. CASE d \in {NoData, Closed}
  BY <1>2 DEF NoData, Closed
<1>3. CASE \E s \in Spaces : d = Zeroed(s)
  BY <1>3 DEF Zeroed
<1>4. CASE d \in Uploads
  BY <1>4 DEF Uploads
<1>5. CASE d \in Pools
  BY <1>5, Zenon DEF Pools
<1>. QED  BY <1>1, <1>2, <1>3, <1>4, <1>5, Zenon

\* An upload's fields.
LEMMA UploadType ==
  ASSUME NEW d \in Uploads
  PROVE  /\ d.space \in Spaces /\ d.space \in Nat /\ d.len \in 0..d.space
         /\ d.authority \in Users \cup {Zero}
         /\ d.body \in [1..d.space -> Chunks \cup {Zero}]
         /\ d \in [kind : {"ASPU"}, space : {d.space}, len : 0..d.space,
                   authority : Users \cup {Zero}, body : [1..d.space -> Chunks \cup {Zero}]]
<1>1. PICK s \in Spaces : d \in [kind : {"ASPU"}, space : {s}, len : 0..s,
                                 authority : Users \cup {Zero}, body : [1..s -> Chunks \cup {Zero}]]
  BY Zenon DEF Uploads
<1>2. d.space = s
  BY <1>1, Zenon
<1>. QED  BY <1>1, <1>2, AccountsAssumption, Zenon

\* A record with an upload's fields is an upload.
LEMMA UploadIs ==
  ASSUME NEW s \in Spaces,
         NEW d \in [kind : {"ASPU"}, space : {s}, len : 0..s,
                    authority : Users \cup {Zero}, body : [1..s -> Chunks \cup {Zero}]]
  PROVE  d \in Uploads /\ d \in KeyData /\ d.kind = "ASPU"
<1>1. d \in Uploads
  BY Zenon DEF Uploads
<1>. QED  BY <1>1, Zenon DEF KeyData

-----------------------------------------------------------------------------
(* What the steps do to the accounts.                                      *)

\* The images and the balances of typed accounts.
LEMMA Typed ==
  ASSUME TypeOK
  PROVE  /\ \A k \in Keys : key[k].lamports \in Nat /\ key[k].data \in KeyData
         /\ \A n \in Nullifiers : marker[n].lamports \in Nat /\ marker[n].data \in MarkerData
         /\ \A r \in Requests : receipt[r].lamports \in Nat /\ receipt[r].data \in ReceiptData
         /\ \A u \in Users : user[u] \in Nat
         /\ DOMAIN key = Keys /\ DOMAIN marker = Nullifiers /\ DOMAIN receipt = Requests
BY Zenon DEF TypeOK

\* The fields of the recorded payments.
LEMMA SpendTypes ==
  ASSUME TypeOK
  PROVE  /\ spends \in Seq(Statements) /\ Len(spends) \in Nat /\ DOMAIN spends = 1..Len(spends)
         /\ \A i \in DOMAIN spends :
              /\ spends[i] \in Statements
              /\ spends[i].pool \in Keys /\ spends[i].nullifier \in Nullifiers
<1>1. spends \in Seq(Statements) /\ Len(spends) \in Nat /\ DOMAIN spends = 1..Len(spends)
  BY LenProperties, Zenon DEF TypeOK
<1>2. \A i \in DOMAIN spends : spends[i] \in Statements
  BY <1>1, ElementOfSeq, Zenon
<1>3. \A st \in Statements : st.pool \in Keys /\ st.nullifier \in Nullifiers
  BY AccountsAssumption, Zenon
<1>. QED  BY <1>1, <1>2, <1>3, Zenon

\* A step on one keypair account, that changes neither markers, receipts nor
\* payments.
Touches(k, l, d) ==
  /\ key' = [key EXCEPT ![k] = [lamports |-> l, data |-> d]]
  /\ UNCHANGED <<marker, receipt, spends>>

\* Payments stay serial while pools and markers keep their images.
LEMMA SerialKept ==
  ASSUME TypeOK, SpendsAreSerial, spends' = spends,
         \A n \in Nullifiers : marker'[n].data = marker[n].data,
         \A x \in Keys : key[x].data.kind = "ASPS" => key'[x].data = key[x].data
  PROVE  SpendsAreSerial'
<1>1. \A i \in DOMAIN spends : spends[i].pool \in Keys /\ spends[i].nullifier \in Nullifiers
  BY SpendTypes, Zenon
<1>3. \A n \in Nullifiers : marker'[n].data # NoData =>
        \E i \in DOMAIN spends : spends[i].nullifier = n
  BY Zenon DEF SpendsAreSerial
<1>4. \A i \in DOMAIN spends :
        marker'[spends[i].nullifier].data = Marker(spends[i].pool, spends[i].nullifier)
  BY <1>1, Zenon DEF SpendsAreSerial
<1>5. \A i \in DOMAIN spends : NoneBetween(spends[i].pool, i, Len(spends) + 1) =>
        key'[spends[i].pool].data
          = PoolState(spends[i].sequence + 1, spends[i].output_anchor, spends[i].domain)
  <2> SUFFICES ASSUME NEW i \in DOMAIN spends, NoneBetween(spends[i].pool, i, Len(spends) + 1)
               PROVE  key'[spends[i].pool].data
                        = PoolState(spends[i].sequence + 1, spends[i].output_anchor, spends[i].domain)
    BY Zenon
  <2>1. key[spends[i].pool].data
          = PoolState(spends[i].sequence + 1, spends[i].output_anchor, spends[i].domain)
    BY Zenon DEF SpendsAreSerial
  <2>2. key[spends[i].pool].data.kind = "ASPS"
    BY <2>1 DEF PoolState
  <2>. QED  BY <1>1, <2>1, <2>2, Zenon
<1>6. \A i \in DOMAIN spends : \A j \in DOMAIN spends :
        i < j /\ spends[j].pool = spends[i].pool /\ NoneBetween(spends[i].pool, i, j) =>
            /\ spends[j].sequence = spends[i].sequence + 1
            /\ spends[j].anchor = spends[i].output_anchor
            /\ spends[j].domain = spends[i].domain
  BY Zenon DEF SpendsAreSerial
<1>7. \A i, j \in DOMAIN spends : spends[i].nullifier = spends[j].nullifier => i = j
  BY Zenon DEF SpendsAreSerial
<1>. QED  BY <1>3, <1>4, <1>5, <1>6, <1>7 DEF SpendsAreSerial, NoneBetween

\* Such a step on an account that is no pool keeps the invariant.
LEMMA TouchKeeps ==
  ASSUME IInv, NEW k \in Keys, NEW l \in Nat, NEW d \in KeyData, Touches(k, l, d),
         key[k].data.kind = "ASPS" => d = key[k].data,
         d.kind \notin {"none", "ASPC"} => l >= MinimumBalance,
         user' \in [Users -> Nat], left' \in 0..MaxInstructions, gifts' \in 0..MaxGifts
  PROVE  IInv'
<1>1. /\ key' \in [Keys -> [lamports : Nat, data : KeyData]]
      /\ key'[k].lamports = l /\ key'[k].data = d
      /\ \A x \in Keys : x # k => key'[x] = key[x]
  BY Zenon DEF IInv, TypeOK, Touches
<1>2. TypeOK'
  BY <1>1, Zenon DEF IInv, TypeOK, Touches
<1>3. LiveAccountsAreFunded'
  BY <1>1, Zenon DEF IInv, LiveAccountsAreFunded, Touches
<1>4. VerifiedReceiptsAreTrue'
  BY Zenon DEF IInv, VerifiedReceiptsAreTrue, Touches
<1>5. \A x \in Keys : key[x].data.kind = "ASPS" => key'[x].data = key[x].data
  BY <1>1, Zenon
<1>6. SpendsAreSerial'
  BY <1>5, SerialKept, Zenon DEF IInv, Touches
<1>. QED  BY <1>2, <1>3, <1>4, <1>6, Zenon DEF IInv

\* An account that keeps its image, or is purged, goes nowhere.
LEMMA StaysPut ==
  ASSUME NEW k \in Keys,
         key'[k].data = key[k].data \/ (key[k].lamports = 0 /\ key'[k] = Vacant)
  PROVE  KeyAdvances(k)
BY Zenon DEF KeyAdvances, Succeeds

LEMMA ReceiptStays ==
  ASSUME NEW r \in Requests,
         receipt'[r].data = receipt[r].data \/ (receipt[r].lamports = 0 /\ receipt'[r] = Vacant)
  PROVE  ReceiptAdvances(r)
BY Zenon DEF ReceiptAdvances, ReceiptSucceeds

\* One account is touched, and moves on in its life.
LEMMA TouchAdvances ==
  ASSUME IInv, NEW k \in Keys, NEW l, NEW d, Touches(k, l, d), Succeeds(key[k].data, d)
  PROVE  Advances
<1>1. /\ key'[k].data = d
      /\ \A x \in Keys : x # k => key'[x] = key[x]
  BY Zenon DEF IInv, TypeOK, Touches
<1>2. \A x \in Keys : x # k => KeyAdvances(x)
  BY <1>1, StaysPut, Zenon
<1>3. KeyAdvances(k)
  BY <1>1, Zenon DEF KeyAdvances
<1>4. \A r \in Requests : ReceiptAdvances(r)
  BY ReceiptStays, Zenon DEF Touches
<1>. QED  BY <1>2, <1>3, <1>4, Zenon DEF Advances

\* A new image at an address leaves the balance.
LEMMA DataTouch ==
  ASSUME TypeOK, NEW k \in Keys, NEW d, key' = [key EXCEPT ![k].data = d],
         UNCHANGED <<marker, receipt, spends>>
  PROVE  Touches(k, key[k].lamports, d)
<1>1. key[k] \in [lamports : Nat, data : KeyData]
  BY Zenon DEF TypeOK
<1>2. [key[k] EXCEPT !.data = d] = [lamports |-> key[k].lamports, data |-> d]
  BY <1>1
<1>3. key' = [key EXCEPT ![k] = [key[k] EXCEPT !.data = d]]
  BY Zenon
<1>. QED  BY <1>2, <1>3, Zenon DEF Touches

\* An instruction uses one of those left.
LEMMA InstructionType ==
  ASSUME TypeOK, Instruction
  PROVE  left' \in 0..MaxInstructions
BY AccountsAssumption DEF TypeOK, Instruction

\* What the steps of the proof establish of an action.
Keeps == IInv' /\ Advances

\* An account is created with its rent.
LEMMA CreateAccountKeeps ==
  ASSUME IInv, NEW k \in Keys, NEW u \in Users, NEW s \in Spaces, CreateAccount(k, u, s)
  PROVE  Keeps
<1> DEFINE deficit == Max({MinimumBalance - key[k].lamports, 0})
<1>1. key[k].lamports \in Nat /\ user[u] \in Nat /\ user \in [Users -> Nat]
  BY Typed, Zenon DEF IInv, TypeOK
<1>2. deficit \in Nat /\ key[k].lamports + deficit >= MinimumBalance
  BY <1>1, DeficitPays, Zenon
<1>3. /\ key' = [key EXCEPT ![k] = [lamports |-> key[k].lamports + deficit, data |-> Zeroed(s)]]
      /\ user' = [user EXCEPT ![u] = user[u] - deficit] /\ user[u] >= deficit
      /\ key[k].data = NoData
      /\ Instruction /\ UNCHANGED <<marker, receipt, gifts, spends>>
  BY Zenon DEF CreateAccount
<1>. HIDE DEF deficit
<1>4. user' \in [Users -> Nat]
  BY <1>1, <1>2, <1>3
<1>5. Zeroed(s) \in KeyData /\ Zeroed(s).kind = "zero" /\ key[k].data.kind = "none"
  BY <1>3 DEF KeyData, Zeroed, NoData
<1>6. PICK l \in Nat : l = key[k].lamports + deficit
  BY <1>1, <1>2
<1>7. PICK d \in KeyData : d = Zeroed(s)
  BY <1>5, Zenon
<1>8. Touches(k, l, d)
  BY <1>3, <1>6, <1>7, Zenon DEF Touches
<1>9. left' \in 0..MaxInstructions /\ gifts' \in 0..MaxGifts
  BY <1>3, InstructionType, Zenon DEF IInv, TypeOK
<1>10. IInv'
  BY <1>2, <1>4, <1>5, <1>6, <1>7, <1>8, <1>9, TouchKeeps, Zenon
<1>11. Advances
  BY <1>5, <1>7, <1>8, TouchAdvances, Zenon DEF Succeeds
<1>. QED  BY <1>10, <1>11, Zenon DEF Keeps

\* The bytes of a live account are replaced.
LEMMA DataStep ==
  ASSUME IInv, NEW k \in Keys, NEW d \in KeyData, key' = [key EXCEPT ![k].data = d],
         Instruction, UNCHANGED <<marker, receipt, user, gifts, spends>>,
         key[k].data.kind \in {"zero", "ASPU"}, Succeeds(key[k].data, d)
  PROVE  Keeps
<1>1. PICK l \in Nat : l = key[k].lamports
  BY Typed, Zenon DEF IInv
<1>2. Touches(k, l, d)
  BY <1>1, DataTouch, Zenon DEF IInv
<1>3. l >= MinimumBalance
  BY <1>1, Zenon DEF IInv, LiveAccountsAreFunded
<1>4. left' \in 0..MaxInstructions /\ gifts' \in 0..MaxGifts /\ user' \in [Users -> Nat]
  BY InstructionType, Zenon DEF IInv, TypeOK
<1>5. IInv'
  BY <1>2, <1>3, <1>4, TouchKeeps, Zenon
<1>6. Advances
  BY <1>2, TouchAdvances, Zenon
<1>. QED  BY <1>5, <1>6, Zenon DEF Keeps

\* An upload under an authority, with its fields.
LEMMA OpenUpload ==
  ASSUME IInv, NEW k \in Keys, NEW u \in Users, require_upload_authority(key[k].data, u)
  PROVE  /\ key[k].data \in Uploads /\ key[k].data.kind = "ASPU"
         /\ key[k].data.authority = u /\ u # Zero
<1>1. key[k].data.kind = "ASPU" /\ key[k].data.authority = u
  BY Zenon DEF require_upload_authority, proof_account_initialized
<1>2. key[k].data \in Uploads
  <2>1. PICK d \in KeyData : d = key[k].data
    BY Typed, Zenon DEF IInv
  <2>2. d.kind = "ASPU"
    BY <1>1, <2>1, Zenon
  <2>. QED  BY <2>1, <2>2, KeyKinds, Zenon
<1>. QED  BY <1>1, <1>2, AccountsAssumption, Zenon

\* A proof is announced.
LEMMA init_proofKeeps ==
  ASSUME IInv, NEW k \in Keys, NEW u \in Users, NEW len \in Nat, init_proof(k, u, len)
  PROVE  Keeps
<1>1. PICK e : e = Initialized(key[k].data, u, len)
  BY Zenon
<1>2. /\ key' = [key EXCEPT ![k].data = e] /\ Instruction
      /\ UNCHANGED <<marker, receipt, user, gifts, spends>>
      /\ MayInit(key[k].data, u) /\ len <= key[k].data.space
  BY <1>1, Zenon DEF init_proof, FitsAccount
<1>3. CASE require_upload_authority(key[k].data, u)
  <2>1. key[k].data \in Uploads /\ key[k].data.kind = "ASPU" /\ key[k].data.authority # Zero
    BY <1>3, OpenUpload, Zenon
  <2>2. PICK d \in Uploads : d = key[k].data
    BY <2>1, Zenon
  <2>3. e = [d EXCEPT !.len = len]
    BY <1>1, <2>1, <2>2, Zenon DEF Initialized, proof_account_initialized
  <2>4. PICK s \in Spaces : s = d.space /\ s \in Nat
    BY UploadType, Zenon
  <2>5. e \in [kind : {"ASPU"}, space : {s}, len : 0..s, authority : Users \cup {Zero},
               body : [1..s -> Chunks \cup {Zero}]]
    BY <1>2, <2>2, <2>3, <2>4, UploadType
  <2>6. e \in KeyData /\ e.kind = "ASPU"
    BY <2>5, UploadIs, Zenon
  <2>7. e.authority = d.authority /\ e.space = d.space
    BY <2>2, <2>3, UploadType, Zenon
  <2>8. Succeeds(key[k].data, e)
    BY <2>1, <2>2, <2>6, <2>7, Zenon DEF Succeeds
  <2>. QED  BY <1>2, <2>1, <2>6, <2>8, DataStep, Zenon
<1>4. CASE key[k].data.kind = "zero"
  <2>1. PICK d \in KeyData : d = key[k].data
    BY Typed, Zenon DEF IInv
  <2>2. PICK s \in Spaces : d.space = s /\ s \in Nat
    BY <1>4, <2>1, KeyKinds, AccountsAssumption
  <2>3. e = Upload(s, len, u, [i \in 1..s |-> Zero])
    BY <1>1, <1>4, <2>1, <2>2, Zenon DEF Initialized, proof_account_initialized
  <2>4. e \in [kind : {"ASPU"}, space : {s}, len : 0..s, authority : Users \cup {Zero},
               body : [1..s -> Chunks \cup {Zero}]]
    BY <1>2, <2>1, <2>2, <2>3 DEF Upload
  <2>5. e \in KeyData /\ e.kind = "ASPU"
    BY <2>4, UploadIs, Zenon
  <2>6. e.authority = u /\ u # Zero
    BY <2>3, AccountsAssumption, Zenon DEF Upload
  <2>7. Succeeds(key[k].data, e)
    BY <1>4, <2>5, <2>6, Zenon DEF Succeeds
  <2>. QED  BY <1>2, <1>4, <2>5, <2>7, DataStep, Zenon
<1>. QED  BY <1>2, <1>3, <1>4, Zenon DEF MayInit

\* A chunk is written.
LEMMA upload_chunkKeeps ==
  ASSUME IInv, NEW k \in Keys, NEW u \in Users, NEW offset \in Nat, NEW c \in Chunks,
         upload_chunk(k, u, offset, c)
  PROVE  Keeps
<1>1. PICK d : d = key[k].data
  BY Zenon
<1>2. d \in Uploads /\ d.kind = "ASPU" /\ d.authority # Zero
  BY <1>1, OpenUpload, Zenon DEF upload_chunk
<1>3. PICK e : e = [d EXCEPT !.body[offset + 1] = c]
  BY Zenon
<1>4. /\ key' = [key EXCEPT ![k].data = e] /\ Instruction
      /\ UNCHANGED <<marker, receipt, user, gifts, spends>> /\ offset + 1 <= d.len
  BY <1>1, <1>3, Zenon DEF upload_chunk
<1>5. PICK s \in Spaces : s = d.space /\ s \in Nat
  BY <1>2, UploadType, Zenon
<1>6. e \in [kind : {"ASPU"}, space : {s}, len : 0..s, authority : Users \cup {Zero},
             body : [1..s -> Chunks \cup {Zero}]]
  BY <1>2, <1>3, <1>4, <1>5, UploadType, Zenon
<1>7. e \in KeyData /\ e.kind = "ASPU"
  BY <1>6, UploadIs, Zenon
<1>8. e.authority = d.authority /\ e.space = d.space
  BY <1>2, <1>3, UploadType, Zenon
<1>9. Succeeds(d, e)
  BY <1>2, <1>7, <1>8, Zenon DEF Succeeds
<1>. QED  BY <1>1, <1>2, <1>4, <1>7, <1>9, DataStep, Zenon

\* A proof is sealed.
LEMMA finalize_proofKeeps ==
  ASSUME IInv, NEW k \in Keys, NEW u \in Users, finalize_proof(k, u)
  PROVE  Keeps
<1>1. PICK d : d = key[k].data
  BY Zenon
<1>2. d \in Uploads /\ d.kind = "ASPU" /\ d.authority # Zero
  BY <1>1, OpenUpload, Zenon DEF finalize_proof
<1>3. PICK e : e = [d EXCEPT !.authority = Zero]
  BY Zenon
<1>4. /\ key' = [key EXCEPT ![k].data = e] /\ Instruction
      /\ UNCHANGED <<marker, receipt, user, gifts, spends>>
  BY <1>1, <1>3, Zenon DEF finalize_proof
<1>5. PICK s \in Spaces : s = d.space /\ s \in Nat
  BY <1>2, UploadType, Zenon
<1>6. e \in [kind : {"ASPU"}, space : {s}, len : 0..s, authority : Users \cup {Zero},
             body : [1..s -> Chunks \cup {Zero}]]
  BY <1>2, <1>3, <1>5, UploadType, Zenon
<1>7. e \in KeyData /\ e.kind = "ASPU"
  BY <1>6, UploadIs, Zenon
<1>8. Succeeds(d, e)
  BY <1>2, <1>3, Zenon DEF Succeeds
<1>. QED  BY <1>1, <1>2, <1>4, <1>7, <1>8, DataStep, Zenon

\* A pool is initialized.
LEMMA initialize_atomic_poolKeeps ==
  ASSUME IInv, NEW k \in Keys, NEW start \in Starts, NEW domain \in Domains,
         initialize_atomic_pool(k, start.sequence, start.anchor, domain)
  PROVE  Keeps
<1>1. PICK e : e = PoolState(start.sequence, start.anchor, domain)
  BY Zenon
<1>2. /\ key' = [key EXCEPT ![k].data = e] /\ Instruction
      /\ UNCHANGED <<marker, receipt, user, gifts, spends>>
      /\ start.sequence < MaxSequence /\ key[k].data = Zeroed(PoolSpace)
  BY <1>1, Zenon DEF initialize_atomic_pool
<1>3. start.sequence \in 0..MaxSequence /\ start.anchor \in Anchors
  <2>1. start.sequence \in 0..MaxSequence
    BY <1>2, AccountsAssumption
  <2>2. start.anchor \in Anchors
    BY Zenon DEF Anchors
  <2>. QED  BY <2>1, <2>2, Zenon
<1>4. e \in Pools /\ e.kind = "ASPS"
  BY <1>1, <1>3, Zenon DEF PoolState, Pools
<1>5. e \in KeyData
  BY <1>4, Zenon DEF KeyData
<1>6. key[k].data.kind = "zero"
  BY <1>2 DEF Zeroed
<1>7. Succeeds(key[k].data, e)
  BY <1>4, <1>6, Zenon DEF Succeeds
<1>. QED  BY <1>2, <1>5, <1>6, <1>7, DataStep, Zenon

\* A refunded account is a drained tombstone.
LEMMA RefundedIs ==
  ASSUME NEW a \in [lamports : Nat, data : KeyData]
  PROVE  refund_program_owned_proof_account(a) = [lamports |-> 0, data |-> Closed]
<1>1. PICK b : b = [a EXCEPT !.data = Closed]
  BY Zenon
<1>2. b = [lamports |-> a.lamports, data |-> Closed]
  BY <1>1, Zenon
<1>3. [b EXCEPT !.lamports = 0] = [lamports |-> 0, data |-> Closed]
  BY <1>2
<1>4. refund_program_owned_proof_account(a) = [b EXCEPT !.lamports = 0]
  BY <1>1, Zenon DEF refund_program_owned_proof_account
<1>. QED  BY <1>3, <1>4, Zenon

\* A sealed proof account is closed.
LEMMA close_proofKeeps ==
  ASSUME IInv, NEW k \in Keys, NEW u \in Users, close_proof(k, u)
  PROVE  Keeps
<1>1. PICK a : a = key[k]
  BY Zenon
<1>2. a \in [lamports : Nat, data : KeyData] /\ user \in [Users -> Nat]
  BY <1>1, Zenon DEF IInv, TypeOK
<1>3. /\ key' = [key EXCEPT ![k] = [a EXCEPT !.data = Closed, !.lamports = 0]]
      /\ user' = [user EXCEPT ![u] = user[u] + a.lamports]
      /\ Instruction /\ UNCHANGED <<marker, receipt, gifts, spends>>
      /\ a.data.kind = "ASPU" /\ a.data.authority = Zero
  BY Zenon, <1>1 DEF close_proof, refund_program_owned_proof_account, proof_account_finalized,
     proof_account_initialized
<1>4. [a EXCEPT !.data = Closed, !.lamports = 0] = [lamports |-> 0, data |-> Closed]
  BY <1>2, RefundedIs, Zenon DEF refund_program_owned_proof_account
<1>5. PICK l \in Nat, d \in KeyData : l = 0 /\ d = Closed /\ d.kind = "ASPC"
  <2>1. Closed \in KeyData
    BY Zenon DEF KeyData
  <2>2. Closed.kind = "ASPC"
    BY Zenon DEF Closed
  <2>. QED  BY <2>1, <2>2, Zenon
<1>6. Touches(k, l, d)
  BY <1>3, <1>4, <1>5, Zenon DEF Touches
<1>7. user' \in [Users -> Nat]
  BY <1>2, <1>3
<1>8. left' \in 0..MaxInstructions /\ gifts' \in 0..MaxGifts
  BY <1>3, InstructionType, Zenon DEF IInv, TypeOK
<1>9. IInv'
  BY <1>1, <1>3, <1>5, <1>6, <1>7, <1>8, TouchKeeps, Zenon
<1>10. Advances
  BY <1>1, <1>3, <1>5, <1>6, TouchAdvances, Zenon DEF Succeeds
<1>. QED  BY <1>9, <1>10, Zenon DEF Keeps

\* A user pays.
LEMMA PayType ==
  ASSUME IInv, NEW u \in Users, NEW amount \in Gifts, Pay(u, amount)
  PROVE  /\ user' \in [Users -> Nat] /\ left' \in 0..MaxInstructions /\ gifts' \in 0..MaxGifts
         /\ spends' = spends /\ amount \in Nat
<1>1. user \in [Users -> Nat] /\ user[u] \in Nat /\ amount \in Nat /\ user[u] >= amount
  BY AccountsAssumption DEF IInv, TypeOK, Pay
<1>2. user' \in [Users -> Nat]
  BY <1>1 DEF Pay
<1>3. left' \in 0..MaxInstructions
  BY InstructionType, Zenon DEF IInv, Pay
<1>4. gifts' \in 0..MaxGifts
  BY AccountsAssumption DEF IInv, TypeOK, Pay
<1>. QED  BY <1>1, <1>2, <1>3, <1>4, Zenon DEF Pay

\* Lamports are sent to a keypair address.
LEMMA GiveKeyKeeps ==
  ASSUME IInv, NEW u \in Users, NEW k \in Keys, NEW amount \in Gifts, GiveKey(u, k, amount)
  PROVE  Keeps
<1>1. /\ user' \in [Users -> Nat] /\ left' \in 0..MaxInstructions /\ gifts' \in 0..MaxGifts
      /\ spends' = spends /\ amount \in Nat
  BY PayType, Zenon DEF GiveKey
<1>2. key[k] \in [lamports : Nat, data : KeyData] /\ key[k].lamports \in Nat
  BY Zenon DEF IInv, TypeOK
<1>3. PICK l \in Nat : l = key[k].lamports + amount /\ l >= key[k].lamports
  BY <1>1, <1>2
<1>4. PICK d \in KeyData : d = key[k].data
  BY <1>2, Zenon
<1>5. key' = [key EXCEPT ![k] = [key[k] EXCEPT !.lamports = l]]
  BY <1>3, Zenon DEF GiveKey
<1>6. [key[k] EXCEPT !.lamports = l] = [lamports |-> l, data |-> d]
  BY <1>2, <1>4
<1>7. Touches(k, l, d)
  BY <1>1, <1>5, <1>6, Zenon DEF Touches, GiveKey
<1>8. d.kind \notin {"none", "ASPC"} => l >= MinimumBalance
  BY <1>2, <1>3, <1>4 DEF IInv, LiveAccountsAreFunded, MinimumBalance
<1>9. IInv'
  BY <1>1, <1>4, <1>7, <1>8, TouchKeeps, Zenon
<1>10. Advances
  BY <1>4, <1>7, TouchAdvances, Zenon DEF Succeeds
<1>. QED  BY <1>9, <1>10, Zenon DEF Keeps

\* What a verified receipt attests.
Attested(r) ==
  \E p \in Proofs : /\ p.profile = "v7" /\ p.attempt \in {r.proof, Zero}
                    /\ p.bytes = r.bytes /\ p.statement = r.statement

\* A step on markers' balances and on receipts.
LEMMA SideStep ==
  ASSUME IInv, UNCHANGED <<key, spends>>,
         marker' \in [Nullifiers -> [lamports : Nat, data : MarkerData]],
         \A n \in Nullifiers : /\ marker'[n].data = marker[n].data
                               /\ marker'[n].lamports >= marker[n].lamports,
         receipt' \in [Requests -> [lamports : Nat, data : ReceiptData]],
         \A r \in Requests : receipt'[r].data.kind = "ASRA" =>
             /\ receipt'[r].lamports >= MinimumBalance
             /\ receipt'[r].data.status = "Verified" =>
                  \/ receipt[r].data.kind = "ASRA" /\ receipt[r].data.status = "Verified"
                  \/ Attested(r),
         \A r \in Requests : ReceiptAdvances(r),
         user' \in [Users -> Nat], left' \in 0..MaxInstructions, gifts' \in 0..MaxGifts
  PROVE  Keeps
<1>1. TypeOK'
  BY Zenon DEF IInv, TypeOK
<1>2. LiveAccountsAreFunded'
  <2>1. \A n \in Nullifiers : marker[n].lamports \in Nat /\ marker'[n].lamports \in Nat
    BY Typed, Zenon DEF IInv
  <2>2. \A n \in Nullifiers : marker'[n].data # NoData => marker'[n].lamports >= MinimumBalance
    BY <2>1 DEF IInv, LiveAccountsAreFunded, MinimumBalance
  <2>. QED  BY <2>2, Zenon DEF IInv, LiveAccountsAreFunded
<1>3. VerifiedReceiptsAreTrue'
  BY Zenon DEF IInv, VerifiedReceiptsAreTrue, Attested
<1>4. SpendsAreSerial'
  BY SerialKept, Zenon DEF IInv
<1>5. Advances
  BY StaysPut, Zenon DEF Advances
<1>. QED  BY <1>1, <1>2, <1>3, <1>4, <1>5, Zenon DEF IInv, Keeps

\* Lamports are sent to the address of a marker.
LEMMA GiveMarkerKeeps ==
  ASSUME IInv, NEW u \in Users, NEW n \in Nullifiers, NEW amount \in Gifts, GiveMarker(u, n, amount)
  PROVE  Keeps
<1>1. /\ user' \in [Users -> Nat] /\ left' \in 0..MaxInstructions /\ gifts' \in 0..MaxGifts
      /\ spends' = spends /\ amount \in Nat
  BY PayType, Zenon DEF GiveMarker
<1>2. marker \in [Nullifiers -> [lamports : Nat, data : MarkerData]]
  BY Zenon DEF IInv, TypeOK
<1>3. marker' = [marker EXCEPT ![n].lamports = marker[n].lamports + amount] /\ UNCHANGED <<key, receipt>>
  BY Zenon DEF GiveMarker
<1>4. marker' \in [Nullifiers -> [lamports : Nat, data : MarkerData]]
  BY <1>1, <1>2, <1>3
<1>5. \A m \in Nullifiers : marker'[m].data = marker[m].data /\ marker'[m].lamports >= marker[m].lamports
  BY <1>1, <1>2, <1>3
<1>6. receipt' \in [Requests -> [lamports : Nat, data : ReceiptData]]
  BY <1>3, Zenon DEF IInv, TypeOK
<1>7. \A r \in Requests : receipt'[r].data.kind = "ASRA" => receipt'[r].lamports >= MinimumBalance
  BY <1>3, Zenon DEF IInv, LiveAccountsAreFunded
<1>8. \A r \in Requests : ReceiptAdvances(r)
  BY <1>3, ReceiptStays, Zenon
<1>. QED  BY <1>1, <1>3, <1>4, <1>5, <1>6, <1>7, <1>8, SideStep, Zenon

\* A receipt account is touched.
LEMMA ReceiptStep ==
  ASSUME IInv, UNCHANGED <<key, marker, spends>>, NEW r \in Requests,
         NEW l \in Nat, NEW d \in ReceiptData,
         receipt' = [receipt EXCEPT ![r] = [lamports |-> l, data |-> d]],
         d.kind = "ASRA" =>
             /\ l >= MinimumBalance
             /\ d.status = "Verified" =>
                  \/ receipt[r].data.kind = "ASRA" /\ receipt[r].data.status = "Verified"
                  \/ Attested(r),
         ReceiptSucceeds(receipt[r].data, d),
         user' \in [Users -> Nat], left' \in 0..MaxInstructions, gifts' \in 0..MaxGifts
  PROVE  Keeps
<1>1. /\ receipt' \in [Requests -> [lamports : Nat, data : ReceiptData]]
      /\ receipt'[r].lamports = l /\ receipt'[r].data = d
      /\ \A x \in Requests : x # r => receipt'[x] = receipt[x]
  BY Zenon DEF IInv, TypeOK
<1>2. \A x \in Requests : receipt'[x].data.kind = "ASRA" =>
             /\ receipt'[x].lamports >= MinimumBalance
             /\ receipt'[x].data.status = "Verified" =>
                  \/ receipt[x].data.kind = "ASRA" /\ receipt[x].data.status = "Verified"
                  \/ Attested(x)
  BY <1>1, Zenon DEF IInv, LiveAccountsAreFunded
<1>3. /\ marker' \in [Nullifiers -> [lamports : Nat, data : MarkerData]]
      /\ \A n \in Nullifiers : marker'[n].data = marker[n].data /\ marker'[n].lamports >= marker[n].lamports
  BY Typed DEF IInv, TypeOK
<1>4. \A x \in Requests : ReceiptAdvances(x)
  <2>1. ReceiptAdvances(r)
    BY <1>1, Zenon DEF ReceiptAdvances
  <2>2. \A x \in Requests : x # r => ReceiptAdvances(x)
    BY <1>1, ReceiptStays, Zenon
  <2>. QED  BY <2>1, <2>2, Zenon
<1>. QED  BY <1>1, <1>2, <1>3, <1>4, SideStep, Zenon

\* Lamports are sent to the address of a receipt.
LEMMA GiveReceiptKeeps ==
  ASSUME IInv, NEW u \in Users, NEW r \in Requests, NEW amount \in Gifts, GiveReceipt(u, r, amount)
  PROVE  Keeps
<1>1. /\ user' \in [Users -> Nat] /\ left' \in 0..MaxInstructions /\ gifts' \in 0..MaxGifts
      /\ spends' = spends /\ amount \in Nat
  BY PayType, Zenon DEF GiveReceipt
<1>2. receipt[r] \in [lamports : Nat, data : ReceiptData] /\ receipt[r].lamports \in Nat
  BY Zenon DEF IInv, TypeOK
<1>3. PICK l \in Nat : l = receipt[r].lamports + amount /\ l >= receipt[r].lamports
  BY <1>1, <1>2
<1>4. PICK d \in ReceiptData : d = receipt[r].data
  BY <1>2, Zenon
<1>5. receipt' = [receipt EXCEPT ![r] = [receipt[r] EXCEPT !.lamports = l]] /\ UNCHANGED <<key, marker>>
  BY <1>3, Zenon DEF GiveReceipt
<1>6. [receipt[r] EXCEPT !.lamports = l] = [lamports |-> l, data |-> d]
  BY <1>2, <1>4
<1>7. receipt' = [receipt EXCEPT ![r] = [lamports |-> l, data |-> d]]
  BY <1>5, <1>6, ZenonT(30)
<1>8. d.kind = "ASRA" => l >= MinimumBalance
  BY <1>2, <1>3, <1>4 DEF IInv, LiveAccountsAreFunded, MinimumBalance
<1>9. ReceiptSucceeds(receipt[r].data, d)
  BY <1>4, Zenon DEF ReceiptSucceeds
<1>. QED  BY <1>1, <1>4, <1>5, <1>7, <1>8, <1>9, ReceiptStep, Zenon

\* A receipt is initialized as pending.
LEMMA initialize_receiptKeeps ==
  ASSUME IInv, NEW r \in Requests, NEW u \in Users, initialize_receipt(r, u)
  PROVE  Keeps
<1>1. PICK c : c = Deficit(receipt[r])
  BY Zenon
<1>2. receipt[r].lamports \in Nat /\ c \in Nat /\ receipt[r].lamports + c >= MinimumBalance
  BY <1>1, Typed, DeficitPays, Zenon DEF IInv
<1>3. PICK l \in Nat : l = receipt[r].lamports + c /\ l >= MinimumBalance
  BY <1>2
<1>4. PICK d \in ReceiptData :
        d = Receipt("Pending", r, u) /\ d.kind = "ASRA" /\ d.status = "Pending"
  <2>1. Receipt("Pending", r, u) \in [kind : {"ASRA"}, status : {"Pending", "Verified"},
                                      request : Requests, authority : Users]
    BY Zenon DEF Receipt
  <2>2. Receipt("Pending", r, u) \in ReceiptData
    BY <2>1, Zenon DEF ReceiptData
  <2>3. Receipt("Pending", r, u).kind = "ASRA" /\ Receipt("Pending", r, u).status = "Pending"
    BY Zenon DEF Receipt
  <2>. QED  BY <2>2, <2>3, Zenon
<1>5. /\ receipt' = [receipt EXCEPT ![r] = [lamports |-> l, data |-> d]]
      /\ user' = [user EXCEPT ![u] = user[u] - c] /\ user[u] >= c
      /\ Instruction /\ UNCHANGED <<key, marker, gifts, spends>>
  BY <1>1, <1>3, <1>4, Zenon DEF initialize_receipt
<1>6. user' \in [Users -> Nat]
  BY <1>2, <1>5 DEF IInv, TypeOK
<1>7. left' \in 0..MaxInstructions /\ gifts' \in 0..MaxGifts
  BY <1>5, InstructionType, Zenon DEF IInv, TypeOK
<1>8. ReceiptSucceeds(receipt[r].data, d)
  BY <1>4, Zenon DEF ReceiptSucceeds, initialize_receipt
<1>. QED  BY <1>3, <1>4, <1>5, <1>6, <1>7, <1>8, ReceiptStep, Zenon

\* A receipt is verified: the sealed bytes are the announced ones, and prove.
LEMMA finalize_receiptKeeps ==
  ASSUME IInv, NEW r \in Requests, finalize_receipt(r)
  PROVE  Keeps
<1>1. receipt[r] \in [lamports : Nat, data : ReceiptData] /\ receipt[r].data.kind = "ASRA"
  BY Zenon DEF IInv, TypeOK, finalize_receipt, validate_pending_receipt_for_request
<1>2. PICK l \in Nat : l = receipt[r].lamports /\ l >= MinimumBalance
  BY <1>1, Zenon DEF IInv, LiveAccountsAreFunded
<1>3. receipt[r].data \in [kind : {"ASRA"}, status : {"Pending", "Verified"},
                           request : Requests, authority : Users]
  BY <1>1 DEF ReceiptData, NoData, ClosedReceipt
<1>4. PICK d \in ReceiptData : d = [receipt[r].data EXCEPT !.status = "Verified"]
  BY <1>3, Zenon DEF ReceiptData
<1>5. /\ receipt' = [receipt EXCEPT ![r] = [receipt[r] EXCEPT !.data = d]]
      /\ Instruction /\ UNCHANGED <<key, marker, user, gifts, spends>>
  BY <1>4, Zenon DEF finalize_receipt
<1>6. [receipt[r] EXCEPT !.data = d] = [lamports |-> l, data |-> d]
  BY <1>1, <1>2
<1>7. receipt' = [receipt EXCEPT ![r] = [lamports |-> l, data |-> d]]
  BY <1>5, <1>6, Zenon
<1>8. Attested(r)
  BY Zenon DEF finalize_receipt, verify_selected_tag73_asvq, UploadMatches, Proves, Attested
<1>9. left' \in 0..MaxInstructions /\ gifts' \in 0..MaxGifts /\ user' \in [Users -> Nat]
  BY <1>5, InstructionType, Zenon DEF IInv, TypeOK
<1>10. ReceiptSucceeds(receipt[r].data, d)
  BY <1>1, <1>4, Zenon
  DEF ReceiptSucceeds, finalize_receipt, validate_pending_receipt_for_request
<1>. QED  BY <1>2, <1>5, <1>7, <1>8, <1>9, <1>10, ReceiptStep, Zenon

\* A receipt is closed.
LEMMA close_receiptKeeps ==
  ASSUME IInv, NEW r \in Requests, NEW u \in Users, close_receipt(r, u)
  PROVE  Keeps
<1>1. PICK l \in Nat, d \in ReceiptData : l = 0 /\ d = ClosedReceipt /\ d.kind = "ASRC"
  <2>1. ClosedReceipt \in ReceiptData
    BY Zenon DEF ReceiptData
  <2>2. ClosedReceipt.kind = "ASRC"
    BY Zenon DEF ClosedReceipt
  <2>. QED  BY <2>1, <2>2, Zenon
<1>2. /\ receipt' = [receipt EXCEPT ![r] = [lamports |-> l, data |-> d]]
      /\ user' = [user EXCEPT ![u] = user[u] + receipt[r].lamports]
      /\ Instruction /\ UNCHANGED <<key, marker, gifts, spends>>
  BY <1>1, Zenon DEF close_receipt, ReceiptDrained
<1>3. user' \in [Users -> Nat]
  BY <1>2, Typed DEF IInv, TypeOK
<1>4. left' \in 0..MaxInstructions /\ gifts' \in 0..MaxGifts
  BY <1>2, InstructionType, Zenon DEF IInv, TypeOK
<1>5. ReceiptSucceeds(receipt[r].data, d)
  BY <1>1, Zenon DEF ReceiptSucceeds, close_receipt
<1>. QED  BY <1>1, <1>2, <1>3, <1>4, <1>5, ReceiptStep, Zenon

\* The runtime purges accounts without lamports, none of them live.
LEMMA CommitKeeps ==
  ASSUME IInv, Commit
  PROVE  Keeps
<1>1. /\ key' = Purged(key) /\ marker' = Purged(marker) /\ receipt' = Purged(receipt)
      /\ left' = MaxInstructions /\ UNCHANGED <<user, gifts, spends>>
  BY Zenon DEF Commit
<1>2. /\ Vacant.lamports = 0 /\ Vacant.data = NoData /\ NoData.kind = "none"
      /\ Vacant \in [lamports : Nat, data : KeyData]
      /\ Vacant \in [lamports : Nat, data : MarkerData]
      /\ Vacant \in [lamports : Nat, data : ReceiptData]
  <2>1. NoData \in KeyData /\ NoData \in MarkerData /\ NoData \in ReceiptData
    BY Zenon DEF KeyData, MarkerData, ReceiptData
  <2>2. NoData.kind = "none"
    BY Zenon DEF NoData
  <2>. QED  BY <2>1, <2>2, Zenon DEF Vacant
<1>3. \A x \in Keys : key'[x] = IF key[x].lamports = 0 THEN Vacant ELSE key[x]
  BY <1>1, Typed, Zenon DEF IInv, Purged
<1>4. \A x \in Nullifiers : marker'[x] = IF marker[x].lamports = 0 THEN Vacant ELSE marker[x]
  BY <1>1, Typed, Zenon DEF IInv, Purged
<1>5. \A x \in Requests : receipt'[x] = IF receipt[x].lamports = 0 THEN Vacant ELSE receipt[x]
  BY <1>1, Typed, Zenon DEF IInv, Purged
<1>6. TypeOK'
  <2>1. key' \in [Keys -> [lamports : Nat, data : KeyData]]
    BY <1>1, <1>2, Zenon DEF IInv, TypeOK, Purged
  <2>2. marker' \in [Nullifiers -> [lamports : Nat, data : MarkerData]]
    BY <1>1, <1>2, Zenon DEF IInv, TypeOK, Purged
  <2>3. receipt' \in [Requests -> [lamports : Nat, data : ReceiptData]]
    BY <1>1, <1>2, Zenon DEF IInv, TypeOK, Purged
  <2>4. left' \in 0..MaxInstructions
    BY <1>1, AccountsAssumption, SMTT(30)
  <2>. QED  BY <1>1, <2>1, <2>2, <2>3, <2>4, Zenon DEF IInv, TypeOK
<1>7. LiveAccountsAreFunded'
  BY <1>2, <1>3, <1>4, <1>5, Zenon DEF IInv, LiveAccountsAreFunded
<1>8. VerifiedReceiptsAreTrue'
  <2>1. \A r \in Requests : receipt'[r].data.kind = "ASRA" => receipt'[r] = receipt[r]
    BY <1>2, <1>5, Zenon
  <2>. QED  BY <2>1, Zenon DEF IInv, VerifiedReceiptsAreTrue
<1>9. SpendsAreSerial'
  <2>1. \A n \in Nullifiers : marker'[n].data = marker[n].data
    BY <1>2, <1>4, Typed DEF IInv, LiveAccountsAreFunded, MinimumBalance
  <2>2. \A x \in Keys : key[x].data.kind = "ASPS" => key'[x].data = key[x].data
    BY <1>3, Typed DEF IInv, LiveAccountsAreFunded, MinimumBalance
  <2>. QED  BY <1>1, <2>1, <2>2, SerialKept, Zenon DEF IInv
<1>10. Advances
  BY <1>3, <1>5, StaysPut, ReceiptStays, Zenon DEF Advances
<1>. QED  BY <1>6, <1>7, <1>8, <1>9, <1>10, Zenon DEF IInv, Keeps

-----------------------------------------------------------------------------
(* Payments.                                                               *)

\* What a payment does: the pool moves to the next state, a proof account
\* that is refunded becomes a tombstone, the note's marker is created, and
\* the payment is one the verifier accepted for the live pool.
Paid(k, pool, st, c) ==
  /\ st.pool = pool /\ st.sequence = key[pool].data.sequence
  /\ key[pool].data.kind = "ASPS" /\ k # pool
  /\ key[pool].data.domain = st.domain /\ key[pool].data.anchor = st.anchor
  /\ key[pool].data.sequence < MaxSequence
  /\ key[k].data.kind = "ASPU" /\ key[k].data.authority = Zero
  /\ marker[st.nullifier].data = NoData
  /\ marker[st.nullifier].lamports + c >= MinimumBalance
  /\ marker' = [marker EXCEPT ![st.nullifier] =
                  [lamports |-> marker[st.nullifier].lamports + c,
                   data |-> Marker(pool, st.nullifier)]]
  /\ key'[pool] = [lamports |-> key[pool].lamports,
                   data |-> PoolState(st.sequence + 1, st.output_anchor, st.domain)]
  /\ key'[k] = key[k] \/ key'[k] = [lamports |-> 0, data |-> Closed]
  /\ \A x \in Keys : x # pool /\ x # k => key'[x] = key[x]
  /\ key' = [x \in Keys |-> key'[x]]
  /\ user' \in [Users -> Nat]
  /\ spends' = Append(spends, st)
  /\ Instruction /\ UNCHANGED <<receipt, gifts>>

\* That is what the payment instructions do.
LEMMA PaymentEffect ==
  ASSUME IInv, NEW tag \in Tags, NEW k \in Keys, NEW pool \in Keys, NEW wire \in Statements,
         NEW u \in Users, verify_and_apply(tag, k, pool, wire, u)
  PROVE  \E st \in Statements, c \in Nat : Paid(k, pool, st, c)
<1> DEFINE refund == Payment[tag].refund
<1>1. PICK st : st = checked_statement(pool, wire)
  BY Zenon
<1>2. /\ st.pool = pool /\ st.nullifier = wire.nullifier /\ st.anchor = wire.anchor
      /\ st.output_anchor = wire.output_anchor /\ st.domain = wire.domain
      /\ st.sequence = key[pool].data.sequence
  <2>1. wire \in [pool : Keys, sequence : Nat, anchor : Anchors, nullifier : Nullifiers,
                  output_anchor : Anchors, domain : Domains]
    BY AccountsAssumption, Zenon
  <2>. QED  BY <1>1, <2>1, Zenon DEF checked_statement
<1>3. /\ Instruction /\ validate_accounts_and_state(tag, k, pool, wire)
      /\ VerifyUploaded(tag, k, st)
      /\ user[u] >= Deficit(marker[wire.nullifier])
      /\ marker' = [marker EXCEPT ![wire.nullifier] =
                      [lamports |-> marker[wire.nullifier].lamports + Deficit(marker[wire.nullifier]),
                       data |-> Marker(pool, wire.nullifier)]]
      /\ key' = [key EXCEPT ![pool].data = PoolState(st.sequence + 1, wire.output_anchor,
                                                     key[pool].data.domain),
                            ![k] = IF refund THEN refund_program_owned_proof_account(@) ELSE @]
      /\ user' = [user EXCEPT ![u] = user[u] - Deficit(marker[wire.nullifier])
                                       + (IF refund THEN key[k].lamports ELSE 0)]
      /\ spends' = Append(spends, st)
      /\ UNCHANGED <<receipt, gifts>>
  BY <1>1, Zenon DEF verify_and_apply
<1>. HIDE DEF refund
<1>4. st \in Statements
  <2>1. PICK p \in Proofs : p.statement = st
    BY <1>3, Zenon DEF VerifyUploaded, Proves
  <2>. QED  BY <2>1, Zenon DEF Statements
<1>5. wire.nullifier \in Nullifiers
  BY AccountsAssumption, Zenon
<1>6. PICK c : c = Deficit(marker[wire.nullifier])
  BY Zenon
<1>7. c \in Nat /\ marker[wire.nullifier].lamports + c >= MinimumBalance
  BY <1>5, <1>6, Typed, DeficitPays, Zenon DEF IInv
<1>8. /\ key[pool].data.kind = "ASPS" /\ k # pool
      /\ key[pool].data.domain = wire.domain /\ key[pool].data.anchor = wire.anchor
      /\ key[pool].data.sequence < MaxSequence
      /\ marker[wire.nullifier].data = NoData
  BY <1>3, Zenon DEF validate_accounts_and_state
<1>9. key[k].data.kind = "ASPU" /\ key[k].data.authority = Zero
  BY <1>3, Zenon DEF VerifyUploaded, proof_account_finalized, proof_account_initialized
<1>10. user' \in [Users -> Nat]
  <2>1. user \in [Users -> Nat] /\ key[k].lamports \in Nat /\ user[u] >= c
    BY <1>3, <1>6, Typed, Zenon DEF IInv, TypeOK
  <2>2. PICK g \in Nat : g = IF refund THEN key[k].lamports ELSE 0
    BY <2>1, Zenon
  <2>3. user' = [user EXCEPT ![u] = user[u] - c + g]
    BY <1>3, <1>6, <2>2, Zenon
  <2>. QED  BY <1>7, <2>1, <2>3
<1>11. PICK next : next = PoolState(st.sequence + 1, wire.output_anchor, key[pool].data.domain)
  BY Zenon
<1>12. key \in [Keys -> [lamports : Nat, data : KeyData]]
  BY Zenon DEF IInv, TypeOK
<1>13. /\ key'[pool] = [key[pool] EXCEPT !.data = next]
       /\ key'[k] = IF refund THEN refund_program_owned_proof_account(key[k]) ELSE key[k]
       /\ \A x \in Keys : x # pool /\ x # k => key'[x] = key[x]
       /\ key' = [x \in Keys |-> key'[x]]
  BY <1>3, <1>8, <1>11, <1>12, Zenon
<1>14. [key[pool] EXCEPT !.data = next] = [lamports |-> key[pool].lamports, data |-> next]
  BY <1>12
<1>15. refund_program_owned_proof_account(key[k]) = [lamports |-> 0, data |-> Closed]
  BY <1>12, RefundedIs, Zenon
<1>16. next = PoolState(st.sequence + 1, st.output_anchor, st.domain)
  BY <1>2, <1>8, <1>11, Zenon
<1>17. /\ key'[pool] = [lamports |-> key[pool].lamports,
                        data |-> PoolState(st.sequence + 1, st.output_anchor, st.domain)]
       /\ key'[k] = key[k] \/ key'[k] = [lamports |-> 0, data |-> Closed]
  BY <1>13, <1>14, <1>15, <1>16, Zenon
<1>18. marker' = [marker EXCEPT ![st.nullifier] =
                    [lamports |-> marker[st.nullifier].lamports + c,
                     data |-> Marker(pool, st.nullifier)]]
  BY <1>2, <1>3, <1>6, ZenonT(30)
<1>19. /\ key[pool].data.domain = st.domain /\ key[pool].data.anchor = st.anchor
       /\ marker[st.nullifier].data = NoData
       /\ marker[st.nullifier].lamports + c >= MinimumBalance
  BY <1>2, <1>7, <1>8, Zenon
<1>20. Paid(k, pool, st, c)
  BY <1>2, <1>3, <1>8, <1>9, <1>10, <1>13, <1>17, <1>18, <1>19, ZenonT(30) DEF Paid
<1>. QED  BY <1>4, <1>7, <1>20, Zenon

\* A pool that was paid from last stands where that payment left it.
LEMMA LastPayment ==
  ASSUME IInv, NEW i \in DOMAIN spends, NoneBetween(spends[i].pool, i, Len(spends) + 1)
  PROVE  key[spends[i].pool].data
           = PoolState(spends[i].sequence + 1, spends[i].output_anchor, spends[i].domain)
BY Zenon DEF IInv, SpendsAreSerial

\* A payment keeps the invariant: it starts where its pool stands, and the
\* note it spends has no earlier payment.
LEMMA PaymentIsSerial ==
  ASSUME IInv, NEW st \in Statements, NEW k \in Keys, k # st.pool,
         key[st.pool].data = PoolState(st.sequence, st.anchor, st.domain),
         key'[st.pool].data = PoolState(st.sequence + 1, st.output_anchor, st.domain),
         key[k].data.kind = "ASPU",
         \A x \in Keys : x # st.pool /\ x # k => key'[x] = key[x],
         marker[st.nullifier].data = NoData,
         \A n \in Nullifiers :
           marker'[n].data = IF n = st.nullifier THEN Marker(st.pool, n) ELSE marker[n].data,
         spends' = Append(spends, st)
  PROVE  SpendsAreSerial'
<1>1. /\ spends \in Seq(Statements) /\ Len(spends) \in Nat /\ DOMAIN spends = 1..Len(spends)
      /\ \A i \in DOMAIN spends :
           spends[i] \in Statements /\ spends[i].pool \in Keys /\ spends[i].nullifier \in Nullifiers
  BY SpendTypes, Zenon DEF IInv
<1>2. PICK l \in Nat : l = Len(spends)
  BY <1>1, Zenon
<1>3. /\ Len(spends') = l + 1 /\ DOMAIN spends' = 1..(l + 1)
      /\ DOMAIN spends = 1..l /\ l + 1 \notin DOMAIN spends
      /\ spends'[l + 1] = st /\ \A i \in 1..l : spends'[i] = spends[i]
      /\ \A i \in DOMAIN spends' : i \in DOMAIN spends \/ i = l + 1
  BY <1>1, <1>2
<1>4. st.pool \in Keys /\ st.nullifier \in Nullifiers
  BY AccountsAssumption
<1>5. \A i \in DOMAIN spends : spends[i].nullifier # st.nullifier
  <2>1. \A i \in DOMAIN spends :
          marker[spends[i].nullifier].data = Marker(spends[i].pool, spends[i].nullifier)
    BY Zenon DEF IInv, SpendsAreSerial
  <2>2. \A p, n : Marker(p, n) # NoData
    BY Zenon DEF Marker, NoData
  <2>. QED  BY <2>1, <2>2
<1>6. (\A n \in Nullifiers : marker[n].data # NoData =>
         \E i \in DOMAIN spends : spends[i].nullifier = n)'
  <2>1. SUFFICES ASSUME NEW n \in Nullifiers, marker'[n].data # NoData
                 PROVE  \E i \in DOMAIN spends' : spends'[i].nullifier = n
    BY Zenon
  <2>2. CASE n = st.nullifier
    BY <1>3, <2>2
  <2>3. CASE n # st.nullifier
    <3>1. PICK i \in DOMAIN spends : spends[i].nullifier = n
      BY <2>1, <2>3, Zenon DEF IInv, SpendsAreSerial
    <3>2. i \in DOMAIN spends' /\ spends'[i] = spends[i]
      BY <1>3, SMTT(30)
    <3>. QED  BY <3>1, <3>2, Zenon
  <2>. QED  BY <2>2, <2>3, Zenon
<1>7. (\A i \in DOMAIN spends :
         marker[spends[i].nullifier].data = Marker(spends[i].pool, spends[i].nullifier))'
  <2>1. SUFFICES ASSUME NEW i \in DOMAIN spends'
                 PROVE  marker'[spends'[i].nullifier].data
                          = Marker(spends'[i].pool, spends'[i].nullifier)
    BY Zenon
  <2>2. CASE i = l + 1
    BY <1>3, <1>4, <2>2, Zenon
  <2>3. CASE i \in DOMAIN spends
    <3>1. spends'[i] = spends[i]
      BY <1>3, <2>3, Zenon
    <3>2. marker[spends[i].nullifier].data = Marker(spends[i].pool, spends[i].nullifier)
      BY <2>3, ZenonT(30) DEF IInv, SpendsAreSerial
    <3>. QED  BY <1>1, <1>5, <2>3, <3>1, <3>2, Zenon
  <2>. QED  BY <1>3, <2>1, <2>2, <2>3, Zenon
<1>8. (\A i, j \in DOMAIN spends : spends[i].nullifier = spends[j].nullifier => i = j)'
  <2>1. \A i, j \in DOMAIN spends : spends[i].nullifier = spends[j].nullifier => i = j
    BY Zenon DEF IInv, SpendsAreSerial
  <2>2. SUFFICES ASSUME NEW i \in DOMAIN spends', NEW j \in DOMAIN spends',
                        spends'[i].nullifier = spends'[j].nullifier
                 PROVE  i = j
    BY Zenon
  <2>3. CASE i \in DOMAIN spends /\ j \in DOMAIN spends
    BY <1>3, <2>1, <2>2, <2>3, Zenon
  <2>4. CASE i = l + 1 /\ j \in DOMAIN spends
    BY <1>3, <1>5, <2>2, <2>4, SMTT(30)
  <2>5. CASE j = l + 1 /\ i \in DOMAIN spends
    BY <1>3, <1>5, <2>2, <2>5, SMTT(30)
  <2>. QED  BY <1>3, <2>2, <2>3, <2>4, <2>5, Zenon
<1>9. ASSUME NEW i \in DOMAIN spends', NoneBetween(spends[i].pool, i, Len(spends) + 1)'
       PROVE  key'[spends'[i].pool].data
                = PoolState(spends'[i].sequence + 1, spends'[i].output_anchor, spends'[i].domain)
  <2>1. CASE i = l + 1
    BY <1>3, <2>1, Zenon
  <2>2. CASE i \in DOMAIN spends
    <3>1. spends'[i] = spends[i] /\ i \in 1..l
      BY <1>3, <2>2, Zenon
    <3>2. spends[i].pool # st.pool
      BY <1>3, <1>9, <3>1, SMTT(30) DEF NoneBetween
    <3>3. NoneBetween(spends[i].pool, i, Len(spends) + 1)
      BY <1>2, <1>3, <1>9, <3>1, SMTT(30) DEF NoneBetween
    <3>4. key[spends[i].pool].data
            = PoolState(spends[i].sequence + 1, spends[i].output_anchor, spends[i].domain)
      BY <2>2, <3>3, LastPayment, Zenon
    <3>5. spends[i].pool # k
      BY <3>4, SMTT(30) DEF PoolState
    <3>. QED  BY <1>1, <2>2, <3>1, <3>2, <3>4, <3>5, Zenon
  <2>. QED  BY <1>3, <1>9, <2>1, <2>2, Zenon
<1>10. ASSUME NEW i \in DOMAIN spends', NEW j \in DOMAIN spends', i < j,
              spends'[j].pool = spends'[i].pool, NoneBetween(spends[i].pool, i, j)'
       PROVE  /\ spends'[j].sequence = spends'[i].sequence + 1
              /\ spends'[j].anchor = spends'[i].output_anchor
              /\ spends'[j].domain = spends'[i].domain
  <2>1. i \in DOMAIN spends /\ spends'[i] = spends[i]
    BY <1>3, <1>10, SMTT(30)
  <2>2. CASE j \in DOMAIN spends
    <3>1. spends'[j] = spends[j]
      BY <1>3, <2>2, Zenon
    <3>2. NoneBetween(spends[i].pool, i, j)
      BY <1>3, <1>10, <2>1 DEF NoneBetween
    <3>3. /\ spends[j].sequence = spends[i].sequence + 1
          /\ spends[j].anchor = spends[i].output_anchor
          /\ spends[j].domain = spends[i].domain
      <4>1. i < j /\ spends[j].pool = spends[i].pool
        BY <1>10, <2>1, <3>1, Zenon
      <4>. QED  BY <2>1, <2>2, <3>2, <4>1, ZenonT(30) DEF IInv, SpendsAreSerial
    <3>. QED  BY <2>1, <3>1, <3>3, Zenon
  <2>3. CASE j = l + 1
    <3>1. NoneBetween(spends[i].pool, i, Len(spends) + 1)
      BY <1>2, <1>3, <1>10, <2>1, <2>3, SMTT(30) DEF NoneBetween
    <3>2. key[spends[i].pool].data
            = PoolState(spends[i].sequence + 1, spends[i].output_anchor, spends[i].domain)
      BY <2>1, <3>1, LastPayment, Zenon
    <3>3. PoolState(st.sequence, st.anchor, st.domain)
            = PoolState(spends[i].sequence + 1, spends[i].output_anchor, spends[i].domain)
      BY <1>3, <1>10, <2>1, <2>3, <3>2, Zenon
    <3>4. /\ st.sequence = spends[i].sequence + 1
          /\ st.anchor = spends[i].output_anchor
          /\ st.domain = spends[i].domain
      <4>1. \A q, a, b, c : q = PoolState(a, b, c) => q.sequence = a /\ q.anchor = b /\ q.domain = c
        BY SMTT(30) DEF PoolState
      <4>2. PICK p : p = PoolState(st.sequence, st.anchor, st.domain)
        BY ZenonT(30)
      <4>3. p.sequence = st.sequence /\ p.anchor = st.anchor /\ p.domain = st.domain
        BY <4>1, <4>2, SMTT(30)
      <4>4. /\ p.sequence = spends[i].sequence + 1
            /\ p.anchor = spends[i].output_anchor
            /\ p.domain = spends[i].domain
        <5>1. p = PoolState(spends[i].sequence + 1, spends[i].output_anchor, spends[i].domain)
          BY <3>3, <4>2, Zenon
        <5>. QED  BY <4>1, <5>1, SMTT(30)
      <4>. QED  BY <4>3, <4>4, ZenonT(30)
    <3>5. spends'[j] = st /\ spends'[i] = spends[i]
      BY <1>3, <2>1, <2>3, Zenon
    <3>. QED  BY <3>4, <3>5, ZenonT(30)
  <2>. QED  BY <1>3, <1>10, <2>2, <2>3, Zenon
<1>11. (\A i \in DOMAIN spends : NoneBetween(spends[i].pool, i, Len(spends) + 1) =>
          key[spends[i].pool].data
            = PoolState(spends[i].sequence + 1, spends[i].output_anchor, spends[i].domain))'
  BY <1>9, Zenon
<1>12. (\A i \in DOMAIN spends : \A j \in DOMAIN spends :
          i < j /\ spends[j].pool = spends[i].pool /\ NoneBetween(spends[i].pool, i, j) =>
            /\ spends[j].sequence = spends[i].sequence + 1
            /\ spends[j].anchor = spends[i].output_anchor
            /\ spends[j].domain = spends[i].domain)'
  BY <1>10, ZenonT(30)
<1>. QED  BY <1>6, <1>7, <1>8, <1>11, <1>12, ZenonT(30) DEF SpendsAreSerial

\* A payment keeps the invariant and moves its pool one sequence on.
LEMMA verify_and_applyKeeps ==
  ASSUME IInv, NEW tag \in Tags, NEW k \in Keys, NEW pool \in Keys, NEW wire \in Statements,
         NEW u \in Users, verify_and_apply(tag, k, pool, wire, u)
  PROVE  Keeps
<1>0. PICK st \in Statements, c \in Nat : Paid(k, pool, st, c)
  BY PaymentEffect, Zenon
<1>1. /\ st.pool = pool
      /\ st.sequence = key[pool].data.sequence
      /\ key[pool].data.kind = "ASPS" /\ k # pool
      /\ key[pool].data.domain = st.domain /\ key[pool].data.anchor = st.anchor
      /\ key[pool].data.sequence < MaxSequence
      /\ key[k].data.kind = "ASPU" /\ key[k].data.authority = Zero
      /\ marker[st.nullifier].data = NoData
      /\ marker[st.nullifier].lamports + c >= MinimumBalance
      /\ marker' = [marker EXCEPT ![st.nullifier] =
                      [lamports |-> marker[st.nullifier].lamports + c,
                       data |-> Marker(pool, st.nullifier)]]
      /\ key'[pool] = [lamports |-> key[pool].lamports,
                       data |-> PoolState(st.sequence + 1, st.output_anchor, st.domain)]
      /\ key'[k] = key[k] \/ key'[k] = [lamports |-> 0, data |-> Closed]
      /\ \A x \in Keys : x # pool /\ x # k => key'[x] = key[x]
      /\ key' = [x \in Keys |-> key'[x]]
      /\ user' \in [Users -> Nat]
      /\ spends' = Append(spends, st)
      /\ Instruction /\ UNCHANGED <<receipt, gifts>>
  BY <1>0, Zenon DEF Paid
<1>2. /\ st.nullifier \in Nullifiers /\ st.output_anchor \in Anchors /\ st.domain \in Domains
      /\ st.sequence \in Nat
  BY AccountsAssumption
<1>3. key \in [Keys -> [lamports : Nat, data : KeyData]]
  BY Zenon DEF IInv, TypeOK
<1>4. PICK d \in Pools : d = key[pool].data
  <2>1. PICK e \in KeyData : e = key[pool].data
    BY <1>3, Zenon
  <2>2. e.kind = "ASPS"
    BY <1>1, <2>1, Zenon
  <2>. QED  BY <2>1, <2>2, KeyKinds, Zenon
<1>5. d = PoolState(st.sequence, st.anchor, st.domain)
  BY <1>1, <1>4, Zenon DEF Pools, PoolState
<1>6. PICK n : n = PoolState(st.sequence + 1, st.output_anchor, st.domain)
  BY Zenon
<1>7. /\ n \in KeyData /\ n.kind = "ASPS"
      /\ n.domain = st.domain /\ n.sequence = st.sequence + 1
  <2>1. n \in Pools
    BY <1>1, <1>2, <1>6, AccountsAssumption, SMTT(30) DEF Pools, PoolState
  <2>2. n \in KeyData
    BY <2>1, Zenon DEF KeyData
  <2>. QED  BY <1>6, <2>2, Zenon DEF PoolState
<1>8. PICK m : m = Marker(pool, st.nullifier)
  BY Zenon
<1>9. m \in MarkerData /\ m # NoData
  <2>1. m \in [kind : {"ASPN"}, pool : Keys, nullifier : Nullifiers] /\ m # NoData
    BY <1>2, <1>8, Zenon DEF Marker, NoData
  <2>. QED  BY <2>1, Zenon DEF MarkerData
<1>10. marker \in [Nullifiers -> [lamports : Nat, data : MarkerData]]
  BY Zenon DEF IInv, TypeOK
<1>11. marker' = [marker EXCEPT ![st.nullifier] =
                    [lamports |-> marker[st.nullifier].lamports + c, data |-> m]]
  BY <1>1, <1>8, ZenonT(30)
<1>12. /\ marker' \in [Nullifiers -> [lamports : Nat, data : MarkerData]]
       /\ marker'[st.nullifier].lamports >= MinimumBalance /\ marker'[st.nullifier].data = m
       /\ \A x \in Nullifiers : x # st.nullifier => marker'[x] = marker[x]
  BY <1>1, <1>2, <1>9, <1>10, <1>11, SMTT(30)
<1>13. /\ key'[pool].lamports = key[pool].lamports /\ key'[pool].data = n
       /\ key'[pool] \in [lamports : Nat, data : KeyData]
  BY <1>1, <1>3, <1>6, <1>7
<1>14. Closed \in KeyData /\ Closed.kind = "ASPC"
  <2>1. Closed \in KeyData
    BY Zenon DEF KeyData
  <2>. QED  BY <2>1, Zenon DEF Closed
<1>15. /\ key'[k] \in [lamports : Nat, data : KeyData]
       /\ key'[k] = key[k] \/ key'[k].data = Closed
  BY <1>1, <1>3, <1>14, SMTT(30)
<1>16. key' \in [Keys -> [lamports : Nat, data : KeyData]]
  <2>1. \A x \in Keys : key'[x] \in [lamports : Nat, data : KeyData]
    BY <1>1, <1>3, <1>13, <1>15, ZenonT(30)
  <2>. QED  BY <1>1, <2>1, Zenon
<1>17. left' \in 0..MaxInstructions
  BY <1>1, InstructionType, Zenon DEF IInv
<1>18. spends' \in Seq(Statements)
  BY <1>1, SpendTypes, AppendProperties, Zenon DEF IInv
<1>19. TypeOK'
  BY <1>1, <1>12, <1>16, <1>17, <1>18, ZenonT(30) DEF IInv, TypeOK
<1>20. LiveAccountsAreFunded'
  <2>1. \A x \in Keys : key'[x].data.kind \notin {"none", "ASPC"} => key'[x].lamports >= MinimumBalance
    BY <1>1, <1>13, <1>14, <1>15, Zenon DEF IInv, LiveAccountsAreFunded
  <2>2. \A x \in Nullifiers : marker'[x].data # NoData => marker'[x].lamports >= MinimumBalance
    BY <1>12, Zenon DEF IInv, LiveAccountsAreFunded
  <2>. QED  BY <1>1, <2>1, <2>2, Zenon DEF IInv, LiveAccountsAreFunded
<1>21. VerifiedReceiptsAreTrue'
  BY <1>1, ZenonT(30) DEF IInv, VerifiedReceiptsAreTrue
<1>22. SpendsAreSerial'
  <2>1. \A x \in Nullifiers :
          marker'[x].data = IF x = st.nullifier THEN Marker(st.pool, x) ELSE marker[x].data
    BY <1>1, <1>8, <1>12, Zenon
  <2>2. key[st.pool].data = PoolState(st.sequence, st.anchor, st.domain)
    BY <1>1, <1>4, <1>5, Zenon
  <2>3. key'[st.pool].data = PoolState(st.sequence + 1, st.output_anchor, st.domain)
    BY <1>1, <1>6, <1>13, Zenon
  <2>. QED  BY <1>1, <2>1, <2>2, <2>3, PaymentIsSerial, ZenonT(30)
<1>23. Advances
  <2>1. \A x \in Keys : x # pool /\ x # k => KeyAdvances(x)
    BY <1>1, StaysPut, Zenon
  <2>2. KeyAdvances(pool)
    <3>1. d.kind = "ASPS" /\ n.domain = d.domain /\ n.sequence = d.sequence + 1
      BY <1>1, <1>4, <1>7, ZenonT(30)
    <3>2. Succeeds(d, n)
      BY <1>7, <3>1, Zenon DEF Succeeds
    <3>. QED  BY <1>4, <1>13, <3>2, Zenon DEF KeyAdvances
  <2>3. KeyAdvances(k)
    <3>1. CASE key'[k] = key[k]
      BY <3>1, StaysPut, Zenon
    <3>2. CASE key'[k].data = Closed
      <4>1. Succeeds(key[k].data, Closed)
        BY <1>1, Zenon DEF Succeeds
      <4>. QED  BY <3>2, <4>1, Zenon DEF KeyAdvances
    <3>. QED  BY <1>15, <3>1, <3>2, Zenon
  <2>4. \A r \in Requests : ReceiptAdvances(r)
    BY <1>1, ReceiptStays, Zenon
  <2>. QED  BY <2>1, <2>2, <2>3, <2>4, ZenonT(30) DEF Advances
<1>. QED  BY <1>19, <1>20, <1>21, <1>22, <1>23, Zenon DEF IInv, Keeps

-----------------------------------------------------------------------------
(***************************************************************************)
(* Each step moves lamports between accounts: it changes one balance of a  *)
(* table, or none, and the changes cancel.                                 *)
(***************************************************************************)
\* From f to g, the balances over S change by a, at one account or at none.
Shifts(f, g, S, a) ==
  \/ a = 0 /\ \A x \in S : g[x].lamports = f[x].lamports
  \/ \E x \in S : /\ g[x].lamports = f[x].lamports + a
                  /\ \A y \in S : y # x => g[y].lamports = f[y].lamports

\* The keys gain a, the markers b, the receipts c, and the users d.
Moves(a, b, c, d) ==
  /\ a + b + c + d = 0
  /\ Shifts(key, key', Keys, a)
  /\ Shifts(marker, marker', Nullifiers, b)
  /\ Shifts(receipt, receipt', Requests, c)
  /\ \/ d = 0 /\ user' = user
     \/ \E u \in Users : user' = [user EXCEPT ![u] = user[u] + d]

Transfer == \E a, b, c, d \in Int : Moves(a, b, c, d)

\* A step that moves no lamports.
LEMMA BalancesStay ==
  ASSUME user' = user,
         \A k \in Keys : key'[k].lamports = key[k].lamports,
         \A n \in Nullifiers : marker'[n].lamports = marker[n].lamports,
         \A r \in Requests : receipt'[r].lamports = receipt[r].lamports
  PROVE  Transfer
<1>1. 0 \in Int /\ 0 + 0 + 0 + 0 = 0
  OBVIOUS
<1>2. Moves(0, 0, 0, 0)
  BY <1>1, Zenon DEF Moves, Shifts
<1>. QED  BY <1>1, <1>2, Zenon DEF Transfer

\* What a user pays is the opposite of what the user gains.
LEMMA PaysIsGains ==
  ASSUME TypeOK, NEW u \in Users, NEW a \in Int, user' = [user EXCEPT ![u] = user[u] - a]
  PROVE  /\ \E w \in Users : user' = [user EXCEPT ![w] = user[w] + (0 - a)]
         /\ 0 - a \in Int /\ 0 \in Int
         /\ a + 0 + 0 + (0 - a) = 0 /\ 0 + a + 0 + (0 - a) = 0 /\ 0 + 0 + a + (0 - a) = 0
<1>1. user[u] \in Nat
  BY Typed, Zenon
<1>2. user[u] - a = user[u] + (0 - a)
  BY <1>1
<1>3. user' = [user EXCEPT ![u] = user[u] + (0 - a)]
  BY <1>2, Zenon
<1>4. /\ 0 - a \in Int /\ 0 \in Int
      /\ a + 0 + 0 + (0 - a) = 0 /\ 0 + a + 0 + (0 - a) = 0 /\ 0 + 0 + a + (0 - a) = 0
  OBVIOUS
<1>. QED  BY <1>3, <1>4, Zenon

\* A user pays into a keypair's account, or is paid from it.
LEMMA KeyTransfer ==
  ASSUME TypeOK, UNCHANGED <<marker, receipt>>,
         NEW k \in Keys, NEW u \in Users, NEW a \in Int,
         key'[k].lamports = key[k].lamports + a,
         \A x \in Keys : x # k => key'[x].lamports = key[x].lamports,
         user' = [user EXCEPT ![u] = user[u] - a]
  PROVE  Transfer
<1>1. Shifts(key, key', Keys, a)
  BY Zenon DEF Shifts
<1>2. Shifts(marker, marker', Nullifiers, 0) /\ Shifts(receipt, receipt', Requests, 0)
  BY Zenon DEF Shifts
<1>3. Moves(a, 0, 0, 0 - a)
  BY <1>1, <1>2, PaysIsGains, Zenon DEF Moves
<1>. QED  BY <1>3, PaysIsGains, Zenon DEF Transfer

\* A user pays into a marker's account, or is paid from it.
LEMMA MarkerTransfer ==
  ASSUME TypeOK, UNCHANGED <<key, receipt>>,
         NEW n \in Nullifiers, NEW u \in Users, NEW a \in Int,
         marker'[n].lamports = marker[n].lamports + a,
         \A x \in Nullifiers : x # n => marker'[x].lamports = marker[x].lamports,
         user' = [user EXCEPT ![u] = user[u] - a]
  PROVE  Transfer
<1>1. Shifts(marker, marker', Nullifiers, a)
  BY Zenon DEF Shifts
<1>2. Shifts(key, key', Keys, 0) /\ Shifts(receipt, receipt', Requests, 0)
  BY Zenon DEF Shifts
<1>3. Moves(0, a, 0, 0 - a)
  BY <1>1, <1>2, PaysIsGains, Zenon DEF Moves
<1>. QED  BY <1>3, PaysIsGains, Zenon DEF Transfer

\* A user pays into a receipt's account, or is paid from it.
LEMMA ReceiptTransfer ==
  ASSUME TypeOK, UNCHANGED <<key, marker>>,
         NEW r \in Requests, NEW u \in Users, NEW a \in Int,
         receipt'[r].lamports = receipt[r].lamports + a,
         \A x \in Requests : x # r => receipt'[x].lamports = receipt[x].lamports,
         user' = [user EXCEPT ![u] = user[u] - a]
  PROVE  Transfer
<1>1. Shifts(receipt, receipt', Requests, a)
  BY Zenon DEF Shifts
<1>2. Shifts(key, key', Keys, 0) /\ Shifts(marker, marker', Nullifiers, 0)
  BY Zenon DEF Shifts
<1>3. Moves(0, 0, a, 0 - a)
  BY <1>1, <1>2, PaysIsGains, Zenon DEF Moves
<1>. QED  BY <1>3, PaysIsGains, Zenon DEF Transfer

\* The rent of a new account comes from its payer.
LEMMA CreateAccountTransfers ==
  ASSUME TypeOK,
         NEW k \in Keys, NEW u \in Users, NEW s \in Spaces, CreateAccount(k, u, s)
  PROVE  Transfer
<1>1. PICK a : a = Max({MinimumBalance - key[k].lamports, 0})
  BY Zenon
<1>2. a \in Int
  <2>1. key[k].lamports \in Nat
    BY Typed, Zenon
  <2>2. a \in Nat
    BY <1>1, <2>1, DeficitPays, ZenonT(30)
  <2>. QED  BY <2>2
<1>3. /\ key' = [key EXCEPT ![k] = [lamports |-> key[k].lamports + a, data |-> Zeroed(s)]]
      /\ user' = [user EXCEPT ![u] = user[u] - a] /\ UNCHANGED <<marker, receipt>>
  BY <1>1, Zenon DEF CreateAccount
<1>4. /\ key'[k].lamports = key[k].lamports + a
      /\ \A x \in Keys : x # k => key'[x].lamports = key[x].lamports
  BY <1>3, Zenon DEF TypeOK
<1>. QED  BY <1>2, <1>3, <1>4, KeyTransfer, ZenonT(30)

\* New bytes leave the balances.
LEMMA DataTransfers ==
  ASSUME TypeOK, NEW k \in Keys, NEW d,
         key' = [key EXCEPT ![k].data = d], UNCHANGED <<marker, receipt, user>>
  PROVE  Transfer
<1>1. \A x \in Keys : key'[x].lamports = key[x].lamports
  BY Zenon DEF TypeOK
<1>. QED  BY <1>1, BalancesStay, Zenon

\* The lifecycle steps of an upload or a pool only write bytes.
LEMMA WritesTransfer ==
  ASSUME TypeOK, NEW k \in Keys,
         \/ \E u, len : init_proof(k, u, len)
         \/ \E u, offset, c : upload_chunk(k, u, offset, c)
         \/ \E u : finalize_proof(k, u)
         \/ \E sequence, anchor, domain : initialize_atomic_pool(k, sequence, anchor, domain)
  PROVE  Transfer
<1>1. ASSUME NEW u, NEW len, init_proof(k, u, len) PROVE Transfer
  <2>1. PICK d : d = Initialized(key[k].data, u, len)
    BY Zenon
  <2>2. key' = [key EXCEPT ![k].data = d] /\ UNCHANGED <<marker, receipt, user>>
    BY <1>1, <2>1, Zenon DEF init_proof
  <2>. QED  BY <2>2, DataTransfers, Zenon
<1>2. ASSUME NEW u, NEW offset, NEW c, upload_chunk(k, u, offset, c) PROVE Transfer
  <2>1. PICK d : d = [key[k].data EXCEPT !.body[offset + 1] = c]
    BY Zenon
  <2>2. key' = [key EXCEPT ![k].data = d] /\ UNCHANGED <<marker, receipt, user>>
    BY <1>2, <2>1, Zenon DEF upload_chunk
  <2>. QED  BY <2>2, DataTransfers, Zenon
<1>3. ASSUME NEW u, finalize_proof(k, u) PROVE Transfer
  <2>1. PICK d : d = [key[k].data EXCEPT !.authority = Zero]
    BY Zenon
  <2>2. key' = [key EXCEPT ![k].data = d] /\ UNCHANGED <<marker, receipt, user>>
    BY <1>3, <2>1, Zenon DEF finalize_proof
  <2>. QED  BY <2>2, DataTransfers, Zenon
<1>4. ASSUME NEW sequence, NEW anchor, NEW domain,
             initialize_atomic_pool(k, sequence, anchor, domain)
      PROVE  Transfer
  <2>1. PICK d : d = PoolState(sequence, anchor, domain)
    BY Zenon
  <2>2. key' = [key EXCEPT ![k].data = d] /\ UNCHANGED <<marker, receipt, user>>
    BY <1>4, <2>1, Zenon DEF initialize_atomic_pool
  <2>. QED  BY <2>2, DataTransfers, Zenon
<1>. QED  BY <1>1, <1>2, <1>3, <1>4, Zenon

\* A closed proof account's lamports go to the account refunded.
LEMMA close_proofTransfers ==
  ASSUME TypeOK, NEW k \in Keys, NEW u \in Users, close_proof(k, u)
  PROVE  Transfer
<1>1. PICK a \in Int : a = 0 - key[k].lamports
  BY Typed
<1>2. /\ key' = [key EXCEPT ![k] = refund_program_owned_proof_account(key[k])]
      /\ user' = [user EXCEPT ![u] = user[u] + key[k].lamports] /\ UNCHANGED <<marker, receipt>>
  BY Zenon DEF close_proof
<1>3. key[k] \in [lamports : Nat, data : KeyData] /\ key \in [Keys -> [lamports : Nat, data : KeyData]]
  BY Zenon DEF TypeOK
<1>4. refund_program_owned_proof_account(key[k]) = [lamports |-> 0, data |-> Closed]
  BY <1>3, RefundedIs, Zenon
<1>5. /\ key'[k].lamports = key[k].lamports + a
      /\ \A x \in Keys : x # k => key'[x].lamports = key[x].lamports
  BY <1>1, <1>2, <1>3, <1>4, SMTT(30)
<1>6. user[u] + key[k].lamports = user[u] - a
  BY <1>1, Typed
<1>7. user' = [user EXCEPT ![u] = user[u] - a]
  BY <1>2, <1>6, Zenon
<1>. QED  BY <1>2, <1>5, <1>7, KeyTransfer, ZenonT(30)

\* A gift comes from the user who gives it.
LEMMA GivesTransfer ==
  ASSUME TypeOK, NEW u \in Users, NEW a \in Gifts,
         \/ \E k \in Keys : GiveKey(u, k, a)
         \/ \E n \in Nullifiers : GiveMarker(u, n, a)
         \/ \E r \in Requests : GiveReceipt(u, r, a)
  PROVE  Transfer
<1>1. a \in Int
  BY AccountsAssumption
<1>2. user' = [user EXCEPT ![u] = user[u] - a]
  BY Zenon DEF GiveKey, GiveMarker, GiveReceipt, Pay
<1>3. ASSUME NEW k \in Keys, GiveKey(u, k, a) PROVE Transfer
  <2>1. /\ key'[k].lamports = key[k].lamports + a /\ UNCHANGED <<marker, receipt>>
        /\ \A x \in Keys : x # k => key'[x].lamports = key[x].lamports
    BY <1>3, Zenon DEF GiveKey, TypeOK
  <2>. QED  BY <1>1, <1>2, <2>1, KeyTransfer, ZenonT(30)
<1>4. ASSUME NEW n \in Nullifiers, GiveMarker(u, n, a) PROVE Transfer
  <2>1. /\ marker'[n].lamports = marker[n].lamports + a /\ UNCHANGED <<key, receipt>>
        /\ \A x \in Nullifiers : x # n => marker'[x].lamports = marker[x].lamports
    BY <1>4, Zenon DEF GiveMarker, TypeOK
  <2>. QED  BY <1>1, <1>2, <2>1, MarkerTransfer, ZenonT(30)
<1>5. ASSUME NEW r \in Requests, GiveReceipt(u, r, a) PROVE Transfer
  <2>1. /\ receipt'[r].lamports = receipt[r].lamports + a /\ UNCHANGED <<key, marker>>
        /\ \A x \in Requests : x # r => receipt'[x].lamports = receipt[x].lamports
    BY <1>5, Zenon DEF GiveReceipt, TypeOK
  <2>. QED  BY <1>1, <1>2, <2>1, ReceiptTransfer, ZenonT(30)
<1>. QED  BY <1>3, <1>4, <1>5, ZenonT(30)

\* A receipt's rent comes from its payer, goes back to its authority, and
\* verification leaves it.
LEMMA ReceiptsTransfer ==
  ASSUME TypeOK, NEW r \in Requests,
         \/ finalize_receipt(r)
         \/ \E u \in Users : initialize_receipt(r, u) \/ close_receipt(r, u)
  PROVE  Transfer
<1>1. receipt \in [Requests -> [lamports : Nat, data : ReceiptData]] /\ receipt[r].lamports \in Nat
  BY Zenon DEF TypeOK
<1>2. ASSUME finalize_receipt(r) PROVE Transfer
  <2>1. PICK d : d = [receipt[r].data EXCEPT !.status = "Verified"]
    BY Zenon
  <2>2. receipt' = [receipt EXCEPT ![r].data = d] /\ UNCHANGED <<key, marker, user>>
    BY <1>2, <2>1, Zenon DEF finalize_receipt
  <2>3. \A x \in Requests : receipt'[x].lamports = receipt[x].lamports
    BY <1>1, <2>2, Zenon
  <2>. QED  BY <2>2, <2>3, BalancesStay, Zenon
<1>3. ASSUME NEW u \in Users, initialize_receipt(r, u) PROVE Transfer
  <2>1. PICK a : a = Deficit(receipt[r])
    BY Zenon
  <2>2. a \in Int
    <3>1. a \in Nat
      BY <1>1, <2>1, DeficitPays, ZenonT(30)
    <3>. QED  BY <3>1
  <2>3. /\ receipt' = [receipt EXCEPT ![r] = [lamports |-> receipt[r].lamports + a,
                                              data |-> Receipt("Pending", r, u)]]
        /\ user' = [user EXCEPT ![u] = user[u] - a] /\ UNCHANGED <<key, marker>>
    BY <1>3, <2>1, ZenonT(30) DEF initialize_receipt
  <2>4. /\ receipt'[r].lamports = receipt[r].lamports + a
        /\ \A x \in Requests : x # r => receipt'[x].lamports = receipt[x].lamports
    BY <1>1, <2>3, Zenon
  <2>. QED  BY <2>2, <2>3, <2>4, ReceiptTransfer, Zenon
<1>4. ASSUME NEW u \in Users, close_receipt(r, u) PROVE Transfer
  <2>1. PICK a \in Int : a = 0 - receipt[r].lamports
    BY <1>1
  <2>2. /\ receipt' = [receipt EXCEPT ![r] = [lamports |-> 0, data |-> ClosedReceipt]]
        /\ user' = [user EXCEPT ![u] = user[u] + receipt[r].lamports] /\ UNCHANGED <<key, marker>>
    BY <1>4, Zenon DEF close_receipt, ReceiptDrained
  <2>3. /\ receipt'[r].lamports = receipt[r].lamports + a
        /\ \A x \in Requests : x # r => receipt'[x].lamports = receipt[x].lamports
    <3>1. receipt'[r].lamports = 0
      BY <1>1, <2>2, Zenon
    <3>2. 0 = receipt[r].lamports + a
      BY <1>1, <2>1, SMTT(30)
    <3>3. \A x \in Requests : x # r => receipt'[x].lamports = receipt[x].lamports
      BY <1>1, <2>2, Zenon
    <3>. QED  BY <3>1, <3>2, <3>3, Zenon
  <2>4. user[u] + receipt[r].lamports = user[u] - a
    <3>1. user[u] \in Nat
      BY Typed, Zenon
    <3>. QED  BY <1>1, <2>1, <3>1, SMTT(30)
  <2>5. user' = [user EXCEPT ![u] = user[u] - a]
    BY <2>2, <2>4, ZenonT(30)
  <2>6. UNCHANGED <<key, marker>>
    BY <2>2, Zenon
  <2>. QED  BY <2>3, <2>5, <2>6, ReceiptTransfer, ZenonT(30)
<1>. QED  BY <1>2, <1>3, <1>4, ZenonT(30)

\* A payment: the marker's rent comes from the payer, who gets what a
\* refunded proof account held.
LEMMA verify_and_applyTransfers ==
  ASSUME TypeOK,
         NEW tag \in Tags, NEW k \in Keys, NEW pool \in Keys, NEW wire \in Statements,
         NEW u \in Users, verify_and_apply(tag, k, pool, wire, u)
  PROVE  Transfer
<1> DEFINE refund == Payment[tag].refund
<1>1. PICK n \in Nullifiers : n = wire.nullifier
  BY AccountsAssumption
<1>2. PICK b \in Int : b = Deficit(marker[n])
  <2>1. Deficit(marker[n]) \in Nat
    BY Typed, DeficitPays, Zenon
  <2>. QED  BY <2>1
<1>3. PICK next, domain : next = PoolState(checked_statement(pool, wire).sequence + 1,
                                           wire.output_anchor, domain)
                          /\ domain = key[pool].data.domain
  BY Zenon
<1>4. /\ k # pool
      /\ marker' = [marker EXCEPT ![n] = [lamports |-> marker[n].lamports + b,
                                          data |-> Marker(pool, n)]]
      /\ key' = [key EXCEPT ![pool].data = next,
                            ![k] = IF refund THEN refund_program_owned_proof_account(@) ELSE @]
      /\ user' = [user EXCEPT ![u] = user[u] - b + (IF refund THEN key[k].lamports ELSE 0)]
      /\ UNCHANGED receipt
  BY <1>1, <1>2, <1>3, Zenon DEF verify_and_apply, validate_accounts_and_state
<1>. HIDE DEF refund
<1>5. PICK a \in Int : a = IF refund THEN 0 - key[k].lamports ELSE 0
  BY Typed
<1>6. key \in [Keys -> [lamports : Nat, data : KeyData]]
  BY Zenon DEF TypeOK
<1>7. /\ key'[pool] = [key[pool] EXCEPT !.data = next]
      /\ key'[k] = IF refund THEN refund_program_owned_proof_account(key[k]) ELSE key[k]
      /\ \A x \in Keys : x # pool /\ x # k => key'[x] = key[x]
  BY <1>4, <1>6, Zenon
<1>8. refund_program_owned_proof_account(key[k]) = [lamports |-> 0, data |-> Closed]
  BY <1>6, RefundedIs, Zenon
<1>9. key'[k].lamports = key[k].lamports + a
  <2>1. CASE refund
    <3>1. key'[k].lamports = 0
      BY <1>7, <1>8, <2>1
    <3>. QED  BY <1>5, <2>1, <3>1, Typed
  <2>2. CASE ~refund
    BY <1>5, <1>7, <2>2, Typed
  <2>. QED  BY <2>1, <2>2, Zenon
<1>10. \A x \in Keys : x # k => key'[x].lamports = key[x].lamports
  BY <1>6, <1>7, Zenon
<1>11. Shifts(key, key', Keys, a)
  BY <1>9, <1>10, Zenon DEF Shifts
<1>12. Shifts(marker, marker', Nullifiers, b)
  <2>1. /\ marker'[n].lamports = marker[n].lamports + b
        /\ \A x \in Nullifiers : x # n => marker'[x].lamports = marker[x].lamports
    BY <1>4, Zenon DEF TypeOK
  <2>. QED  BY <2>1, Zenon DEF Shifts
<1>13. PICK m \in Int : m = 0 - a - b
  <2>1. 0 - a - b \in Int
    BY SMTT(30)
  <2>. QED  BY <2>1, Zenon
<1>14. user[u] - b + (IF refund THEN key[k].lamports ELSE 0) = user[u] + m
  BY <1>5, <1>13, Typed
<1>15. user' = [user EXCEPT ![u] = user[u] + m]
  BY <1>4, <1>14, Zenon
<1>16. Shifts(receipt, receipt', Requests, 0)
  BY <1>4, Zenon DEF Shifts
<1>17. a + b + 0 + m = 0 /\ 0 \in Int
  BY <1>13
<1>18. Moves(a, b, 0, m)
  BY <1>11, <1>12, <1>15, <1>16, <1>17, Zenon DEF Moves
<1>. QED  BY <1>17, <1>18, Zenon DEF Transfer

\* The end of a transaction purges accounts without lamports.
LEMMA CommitTransfers ==
  ASSUME TypeOK, Commit
  PROVE  Transfer
<1>1. Vacant.lamports = 0
  BY Zenon DEF Vacant
<1>2. /\ \A k \in Keys : key'[k].lamports = key[k].lamports
      /\ \A n \in Nullifiers : marker'[n].lamports = marker[n].lamports
      /\ \A r \in Requests : receipt'[r].lamports = receipt[r].lamports
  BY <1>1, Typed, Zenon DEF Commit, Purged
<1>3. user' = user
  BY Zenon DEF Commit
<1>. QED  BY <1>2, <1>3, BalancesStay, ZenonT(30)

-----------------------------------------------------------------------------
(* The theorems.                                                           *)

\* Nothing exists at the start.
LEMMA InitIInv == Init => IInv
<1>1. SUFFICES ASSUME Init PROVE IInv
  BY Zenon
<1>2. /\ key = [k \in Keys |-> Vacant] /\ marker = [n \in Nullifiers |-> Vacant]
      /\ receipt = [r \in Requests |-> Vacant] /\ user = Funds /\ left = MaxInstructions
      /\ gifts = 0 /\ spends = << >>
  BY <1>1, Zenon DEF Init
<1>3. /\ Vacant \in [lamports : Nat, data : KeyData]
      /\ Vacant \in [lamports : Nat, data : MarkerData]
      /\ Vacant \in [lamports : Nat, data : ReceiptData]
      /\ Vacant.data = NoData /\ NoData.kind = "none"
  <2>1. NoData \in KeyData /\ NoData \in MarkerData /\ NoData \in ReceiptData
    BY Zenon DEF KeyData, MarkerData, ReceiptData
  <2>2. NoData.kind = "none"
    BY Zenon DEF NoData
  <2>. QED  BY <2>1, <2>2, Zenon DEF Vacant
<1>4. TypeOK
  BY <1>2, <1>3, AccountsAssumption, SMTT(30) DEF TypeOK
<1>5. LiveAccountsAreFunded
  BY <1>2, <1>3, Zenon DEF LiveAccountsAreFunded
<1>6. VerifiedReceiptsAreTrue
  BY <1>2, <1>3, Zenon DEF VerifiedReceiptsAreTrue
<1>7. SpendsAreSerial
  <2>1. DOMAIN spends = {}
    BY <1>2
  <2>2. \A n \in Nullifiers : marker[n].data = NoData
    BY <1>2, <1>3, Zenon
  <2>. QED  BY <2>1, <2>2, Zenon DEF SpendsAreSerial
<1>. QED  BY <1>4, <1>5, <1>6, <1>7, Zenon DEF IInv

\* Every instruction and every end of a transaction keeps the invariant.
LEMMA NextKeeps ==
  ASSUME IInv, [Next]_vars
  PROVE  Keeps
<1>1. CASE UNCHANGED vars
  <2>1. IInv'
    <3>1. TypeOK' /\ LiveAccountsAreFunded'
      BY <1>1, Zenon DEF vars, IInv, TypeOK, LiveAccountsAreFunded
    <3>2. VerifiedReceiptsAreTrue'
      BY <1>1, Zenon DEF vars, IInv, VerifiedReceiptsAreTrue
    <3>3. SpendsAreSerial'
      BY <1>1, SerialKept, Zenon DEF vars, IInv
    <3>. QED  BY <3>1, <3>2, <3>3, Zenon DEF IInv
  <2>2. Advances
    BY <1>1, StaysPut, ReceiptStays, Zenon DEF vars, Advances
  <2>. QED  BY <2>1, <2>2, Zenon DEF Keeps
<1>2. ASSUME NEW k \in Keys, NEW u \in Users,
             \/ \E s \in Spaces : CreateAccount(k, u, s)
             \/ \E s \in Spaces : \E len \in 0..(s + 1) : init_proof(k, u, len)
             \/ \E s \in Spaces, c \in Chunks : \E offset \in 0..(s - 1) :
                  upload_chunk(k, u, offset, c)
             \/ finalize_proof(k, u)
             \/ close_proof(k, u)
             \/ \E amount \in Gifts : GiveKey(u, k, amount)
             \/ \E tag \in Tags, pool \in Keys, wire \in Statements :
                  verify_and_apply(tag, k, pool, wire, u)
      PROVE  Keeps
  <2>1. ASSUME NEW s \in Spaces, NEW len \in 0..(s + 1), init_proof(k, u, len) PROVE Keeps
    <3>1. len \in Nat
      BY AccountsAssumption
    <3>. QED  BY <2>1, <3>1, init_proofKeeps, Zenon
  <2>2. ASSUME NEW s \in Spaces, NEW c \in Chunks, NEW offset \in 0..(s - 1),
               upload_chunk(k, u, offset, c)
        PROVE  Keeps
    <3>1. offset \in Nat
      BY AccountsAssumption
    <3>. QED  BY <2>2, <3>1, upload_chunkKeeps, Zenon
  <2>. QED
    BY ZenonT(30), <1>2, <2>1, <2>2, CreateAccountKeeps, finalize_proofKeeps, close_proofKeeps,
       GiveKeyKeeps,
       verify_and_applyKeeps, Zenon
<1>3. ASSUME NEW r \in Requests,
             \/ finalize_receipt(r)
             \/ \E u \in Users : initialize_receipt(r, u) \/ close_receipt(r, u)
             \/ \E u \in Users, amount \in Gifts : GiveReceipt(u, r, amount)
      PROVE  Keeps
  BY <1>3, finalize_receiptKeeps, initialize_receiptKeeps, close_receiptKeeps,
     GiveReceiptKeeps, ZenonT(30)
<1>4. ASSUME NEW k \in Keys, NEW start \in Starts, NEW domain \in Domains,
             initialize_atomic_pool(k, start.sequence, start.anchor, domain)
      PROVE  Keeps
  BY <1>4, initialize_atomic_poolKeeps, Zenon
<1>5. ASSUME NEW u \in Users, NEW n \in Nullifiers, NEW amount \in Gifts, GiveMarker(u, n, amount)
      PROVE  Keeps
  BY <1>5, GiveMarkerKeeps, Zenon
<1>6. CASE Commit
  BY <1>6, CommitKeeps, Zenon
<1>. QED  BY <1>1, <1>2, <1>3, <1>4, <1>5, <1>6, ZenonT(30) DEF Next

\* Every instruction and every end of a transaction moves lamports or none.
LEMMA NextTransfers ==
  ASSUME IInv, [Next]_vars
  PROVE  Transfer
<1>1. TypeOK
  BY Zenon DEF IInv
<1>2. CASE UNCHANGED vars
  BY <1>2, BalancesStay, Zenon DEF vars
<1>3. ASSUME NEW k \in Keys, NEW u \in Users,
             \/ \E s \in Spaces : CreateAccount(k, u, s)
             \/ \E s \in Spaces : \E len \in 0..(s + 1) : init_proof(k, u, len)
             \/ \E s \in Spaces, c \in Chunks : \E offset \in 0..(s - 1) :
                  upload_chunk(k, u, offset, c)
             \/ finalize_proof(k, u)
             \/ close_proof(k, u)
             \/ \E amount \in Gifts : GiveKey(u, k, amount)
             \/ \E tag \in Tags, pool \in Keys, wire \in Statements :
                  verify_and_apply(tag, k, pool, wire, u)
      PROVE  Transfer
  <2>1. CASE \E s \in Spaces : CreateAccount(k, u, s)
    BY <1>1, <2>1, CreateAccountTransfers, Zenon
  <2>2. CASE \/ \E s \in Spaces : \E len \in 0..(s + 1) : init_proof(k, u, len)
             \/ \E s \in Spaces, c \in Chunks : \E offset \in 0..(s - 1) :
                  upload_chunk(k, u, offset, c)
             \/ finalize_proof(k, u)
    BY <1>1, <2>2, WritesTransfer, Zenon
  <2>3. CASE close_proof(k, u)
    BY <1>1, <2>3, close_proofTransfers, Zenon
  <2>4. CASE \E amount \in Gifts : GiveKey(u, k, amount)
    BY <1>1, <2>4, GivesTransfer, Zenon
  <2>5. CASE \E tag \in Tags, pool \in Keys, wire \in Statements :
               verify_and_apply(tag, k, pool, wire, u)
    BY <1>1, <2>5, verify_and_applyTransfers, Zenon
  <2>. QED  BY <1>3, <2>1, <2>2, <2>3, <2>4, <2>5, ZenonT(30)
<1>4. ASSUME NEW r \in Requests,
             \/ finalize_receipt(r)
             \/ \E u \in Users : initialize_receipt(r, u) \/ close_receipt(r, u)
             \/ \E u \in Users, amount \in Gifts : GiveReceipt(u, r, amount)
      PROVE  Transfer
  BY <1>1, <1>4, ReceiptsTransfer, GivesTransfer, Zenon
<1>5. ASSUME NEW k \in Keys, NEW start \in Starts, NEW domain \in Domains,
             initialize_atomic_pool(k, start.sequence, start.anchor, domain)
      PROVE  Transfer
  BY <1>1, <1>5, WritesTransfer, Zenon
<1>6. ASSUME NEW u \in Users, NEW n \in Nullifiers, NEW amount \in Gifts, GiveMarker(u, n, amount)
      PROVE  Transfer
  BY <1>1, <1>6, GivesTransfer, Zenon
<1>7. CASE Commit
  BY <1>1, <1>7, CommitTransfers, ZenonT(30)
<1>. QED  BY <1>2, <1>3, <1>4, <1>5, <1>6, <1>7, ZenonT(30) DEF Next

(* The accounts of the verifier keep their invariant.                      *)
THEOREM AccountsInvariant == Spec => []IInv
<1>1. IInv /\ [Next]_vars => IInv'
  BY NextKeeps, Zenon DEF Keeps
<1>. QED  BY InitIInv, <1>1, PTL DEF Spec

(* A receipt that says Verified names proof bytes that verify, for every   *)
(* number of uploads, receipts and attempts.                               *)
THEOREM VerifiedReceiptsAreTrueHolds == Spec => []VerifiedReceiptsAreTrue
<1>1. IInv => VerifiedReceiptsAreTrue
  BY Zenon DEF IInv
<1>. QED  BY AccountsInvariant, <1>1, PTL

(* A note is spent once over all pools and payment tags, and a pool's      *)
(* payments form one chain of sequences and roots.                         *)
THEOREM SpendsAreSerialHolds == Spec => []SpendsAreSerial
<1>1. IInv => SpendsAreSerial
  BY Zenon DEF IInv
<1>. QED  BY AccountsInvariant, <1>1, PTL

(* No instruction moves an account back in its life or makes it one of     *)
(* another kind: an upload changes under its authority until it is sealed, *)
(* a sealed one is only closed, a pool advances one sequence at a time     *)
(* under one domain, and a receipt is verified as it was announced.        *)
THEOREM AccountsAdvanceHolds == Spec => AccountsAdvance
<1>1. IInv /\ [Next]_vars => [Advances]_vars
  BY NextKeeps, Zenon DEF Keeps
<1>. QED  BY AccountsInvariant, <1>1, PTL DEF Spec, AccountsAdvance

-----------------------------------------------------------------------------
INSTANCE FiniteSetTheorems

(***************************************************************************)
(* Sums over finite sets.  Each induction is the choice of a smallest      *)
(* counterexample among the subsets of a finite set.                       *)
(***************************************************************************)
\* A set of subsets of a finite set has a smallest member.
LEMMA SmallestSubset ==
  ASSUME NEW S, IsFiniteSet(S), NEW Bad \in SUBSET (SUBSET S), Bad # {}
  PROVE  \E A \in Bad : \A B \in SUBSET A : B # A => B \notin Bad
<1>1. IsWellFoundedOn(StrictSubsetOrdering(S), SUBSET S)
  BY FS_StrictSubsetOrderingWellFounded, FS_FiniteSubsetsOfFinite, Zenon
<1>2. PICK A \in Bad : \A B \in Bad : ~(<<B, A>> \in StrictSubsetOrdering(S))
  BY <1>1, WFMin, Zenon
<1>3. \A B \in SUBSET A : B # A => <<B, A>> \in StrictSubsetOrdering(S)
  BY Zenon DEF StrictSubsetOrdering
<1>4. ASSUME NEW B \in SUBSET A, B # A PROVE B \notin Bad
  BY <1>2, <1>3, <1>4, Zenon
<1>. QED  BY <1>4, Zenon

\* The values of f to be summed are integers.
Summable(f, S) == \A x \in S : f[x] \in Int

First(s) == CHOOSE x \in s : TRUE
Rest(s) == s \ {First(s)}

\* The values of the sum on all subsets of A.
Sums(f, A, g) == g = [s \in SUBSET A |-> IF s = {} THEN 0 ELSE f[First(s)] + g[Rest(s)]]

\* The recursion goes down.
LEMMA RestIsSmaller ==
  ASSUME NEW s, s # {}
  PROVE  First(s) \in s /\ Rest(s) \in SUBSET s /\ Rest(s) # s
<1>1. First(s) \in s
  BY Zenon DEF First
<1>. QED  BY <1>1, Zenon DEF Rest

\* One unfolding.
LEMMA SumsUnfold ==
  ASSUME NEW f, NEW A, NEW g, Sums(f, A, g)
  PROVE  /\ g[{}] = 0
         /\ \A s \in SUBSET A : s # {} => g[s] = f[First(s)] + g[Rest(s)]
<1>1. \A s \in SUBSET A : g[s] = IF s = {} THEN 0 ELSE f[First(s)] + g[Rest(s)]
  BY Zenon DEF Sums
<1>2. {} \in SUBSET A
  BY Zenon
<1>. QED  BY <1>1, <1>2, Zenon

\* Two solutions agree where both are defined.
LEMMA SumsUnique ==
  ASSUME NEW f, NEW A, NEW B, NEW g, NEW h, NEW S, S \subseteq A, S \subseteq B, IsFiniteSet(S),
         Sums(f, A, g), Sums(f, B, h)
  PROVE  g[S] = h[S]
<1> DEFINE Bad == {s \in SUBSET S : g[s] # h[s]}
<1>1. SUFFICES ASSUME Bad # {} PROVE FALSE
  BY Zenon
<1>2. PICK s \in Bad : \A t \in SUBSET s : t # s => t \notin Bad
  <2>1. Bad \in SUBSET (SUBSET S)
    BY Zenon
  <2>. HIDE DEF Bad
  <2>. QED  BY <1>1, <2>1, SmallestSubset, Zenon
<1>3. s \in SUBSET S /\ s \in SUBSET A /\ s \in SUBSET B /\ g[s] # h[s]
  BY <1>2, Zenon
<1>4. CASE s = {}
  BY <1>3, <1>4, SumsUnfold, Zenon
<1>5. CASE s # {}
  <2>1. Rest(s) \in SUBSET s /\ Rest(s) # s
    BY <1>5, RestIsSmaller, Zenon
  <2>2. g[Rest(s)] = h[Rest(s)]
    BY <1>2, <1>3, <2>1, Zenon
  <2>3. g[s] = f[First(s)] + g[Rest(s)] /\ h[s] = f[First(s)] + h[Rest(s)]
    BY <1>3, <1>5, SumsUnfold
  <2>. QED  BY <1>3, <2>2, <2>3, Zenon
<1>. QED  BY <1>4, <1>5, Zenon

\* The recursion has a solution.
LEMMA SumsExist ==
  ASSUME NEW S, IsFiniteSet(S), NEW f
  PROVE  \E g : Sums(f, S, g)
<1> DEFINE Bad == {A \in SUBSET S : ~ \E g : Sums(f, A, g)}
<1>1. SUFFICES ASSUME Bad # {} PROVE FALSE
  BY Zenon
<1>2. PICK A \in Bad : \A B \in SUBSET A : B # A => B \notin Bad
  <2>1. Bad \in SUBSET (SUBSET S)
    BY Zenon
  <2>. HIDE DEF Bad
  <2>. QED  BY <1>1, <2>1, SmallestSubset, Zenon
<1>3. A \in SUBSET S /\ ~ \E g : Sums(f, A, g)
  BY <1>2, Zenon
<1> DEFINE G(B) == CHOOSE g : Sums(f, B, g)
           step(B) == IF B = {} THEN 0 ELSE f[First(B)] + G(Rest(B))[Rest(B)]
           sol == [B \in SUBSET A |-> step(B)]
<1>4. \A B \in SUBSET A : B # A => Sums(f, B, G(B))
  <2>1. TAKE B \in SUBSET A
  <2>2. HAVE B # A
  <2>3. \E g : Sums(f, B, g)
    BY <1>2, <1>3, <2>2, Zenon
  <2>. QED  BY <2>3, Zenon
<1>5. \A B \in SUBSET A : IsFiniteSet(B)
  BY <1>3, FS_Subset, Zenon
<1>. HIDE DEF G
<1>6. \A B \in SUBSET A : B # A => G(B)[B] = step(B)
  <2>1. TAKE B \in SUBSET A
  <2>2. HAVE B # A
  <2>3. Sums(f, B, G(B))
    BY <1>4, <2>2, Zenon
  <2>4. CASE B = {}
    BY <2>3, <2>4, SumsUnfold, Zenon
  <2>5. CASE B # {}
    <3>1. Rest(B) \in SUBSET B /\ Rest(B) \in SUBSET A /\ Rest(B) # A
      BY <2>2, <2>5, RestIsSmaller, Zenon
    <3>2. G(B)[B] = f[First(B)] + G(B)[Rest(B)]
      BY <2>3, <2>5, SumsUnfold
    <3>3. Sums(f, Rest(B), G(Rest(B)))
      BY <1>4, <3>1, Zenon
    <3>4. G(B)[Rest(B)] = G(Rest(B))[Rest(B)]
      <4>1. PICK R : R = Rest(B)
        BY Zenon
      <4>2. /\ R \subseteq B /\ R \subseteq R /\ IsFiniteSet(R)
            /\ Sums(f, B, G(B)) /\ Sums(f, R, G(R))
        BY <1>5, <2>3, <3>1, <3>3, <4>1, Zenon
      <4>3. G(B)[R] = G(R)[R]
        BY <4>2, SumsUnique, SMTT(60)
      <4>. QED  BY <4>1, <4>3, Zenon
    <3>. QED  BY <2>5, <3>2, <3>4, Zenon
  <2>. QED  BY <2>4, <2>5, Zenon
<1>7. \A B \in SUBSET A : B # {} => G(Rest(B))[Rest(B)] = sol[Rest(B)]
  <2>1. TAKE B \in SUBSET A
  <2>2. HAVE B # {}
  <2>3. Rest(B) \in SUBSET A /\ Rest(B) # A
    BY <2>2, RestIsSmaller, Zenon
  <2>4. sol[Rest(B)] = step(Rest(B))
    BY <2>3, Zenon
  <2>. HIDE DEF step, sol
  <2>. QED  BY <1>6, <2>3, <2>4, Zenon
<1>8. Sums(f, A, sol)
  <2>1. \A B \in SUBSET A : step(B) = IF B = {} THEN 0 ELSE f[First(B)] + sol[Rest(B)]
    BY <1>7, Zenon
  <2>2. sol = [B \in SUBSET A |-> step(B)]
    BY Zenon
  <2>. HIDE DEF step, sol
  <2>. QED  BY <2>1, <2>2, Zenon DEF Sums
<1>. QED  BY <1>3, <1>8, Zenon

\* The sum is the solution's value.
LEMMA SumIs ==
  ASSUME NEW S, IsFiniteSet(S), NEW f
  PROVE  \E g : Sums(f, S, g) /\ SumFunctionOnSet(f, S) = g[S]
<1> DEFINE iter == CHOOSE g : Sums(f, S, g)
<1>1. Sums(f, S, iter)
  BY SumsExist, Zenon
<1>2. SumFunctionOnSet(f, S) = iter[S]
  BY Zenon DEF SumFunctionOnSet, FoldFunctionOnSet, MapThenFoldSet, Sums, First, Rest
<1>. QED  BY <1>1, <1>2, Zenon

\* Sums of integers are integers.
LEMMA SumsType ==
  ASSUME NEW S, IsFiniteSet(S), NEW f, Summable(f, S), NEW g, Sums(f, S, g), NEW T \in SUBSET S
  PROVE  g[T] \in Int
<1> DEFINE Bad == {s \in SUBSET S : g[s] \notin Int}
<1>1. SUFFICES ASSUME Bad # {} PROVE FALSE
  BY Zenon
<1>2. PICK s \in Bad : \A t \in SUBSET s : t # s => t \notin Bad
  <2>1. Bad \in SUBSET (SUBSET S)
    BY Zenon
  <2>. HIDE DEF Bad
  <2>. QED  BY <1>1, <2>1, SmallestSubset, Zenon
<1>3. s \in SUBSET S /\ g[s] \notin Int
  BY <1>2, Zenon
<1>4. CASE s = {}
  BY <1>3, <1>4, SumsUnfold, SMTT(30)
<1>5. CASE s # {}
  <2>1. First(s) \in S /\ Rest(s) \in SUBSET s /\ Rest(s) # s
    BY <1>3, <1>5, RestIsSmaller, Zenon
  <2>2. g[Rest(s)] \in Int
    BY <1>2, <1>3, <2>1, Zenon
  <2>3. g[s] = f[First(s)] + g[Rest(s)]
    BY <1>3, <1>5, SumsUnfold, SMTT(30)
  <2>. QED  BY <1>3, <2>1, <2>2, <2>3, SMTT(30) DEF Summable
<1>. QED  BY <1>4, <1>5, Zenon

\* The order of the summands does not matter: any of them can come first.
LEMMA SumsRemove ==
  ASSUME NEW S, IsFiniteSet(S), NEW f, Summable(f, S), NEW g, Sums(f, S, g),
         NEW T \in SUBSET S, NEW y \in T
  PROVE  g[T] = f[y] + g[T \ {y}]
<1> DEFINE Bad == {s \in SUBSET S : \E x \in s : g[s] # f[x] + g[s \ {x}]}
<1>1. SUFFICES ASSUME Bad # {} PROVE FALSE
  BY ZenonT(30)
<1>2. PICK s \in Bad : \A t \in SUBSET s : t # s => t \notin Bad
  <2>1. Bad \in SUBSET (SUBSET S)
    BY Zenon
  <2>. HIDE DEF Bad
  <2>. QED  BY <1>1, <2>1, SmallestSubset, Zenon
<1>3. s \in SUBSET S
  BY <1>2, Zenon
<1>4. PICK x \in s : g[s] # f[x] + g[s \ {x}]
  BY <1>2, Zenon
<1>5. \A t \in SUBSET s : t # s => \A z \in t : g[t] = f[z] + g[t \ {z}]
  BY <1>2, <1>3, ZenonT(30)
<1>. HIDE DEF Bad
<1>6. PICK a \in s : a = First(s) /\ g[s] = f[a] + g[s \ {a}]
  <2>1. s # {}
    BY <1>4, Zenon
  <2>2. First(s) \in s
    BY <2>1, RestIsSmaller, Zenon
  <2>3. g[s] = f[First(s)] + g[Rest(s)]
    BY <1>3, <2>1, SumsUnfold
  <2>4. Rest(s) = s \ {First(s)}
    BY Zenon DEF Rest
  <2>. QED  BY <2>2, <2>3, <2>4, Zenon
<1>7. a # x
  BY <1>4, <1>6, Zenon
<1>8. g[s \ {a}] = f[x] + g[(s \ {a}) \ {x}]
  <2>1. s \ {a} \in SUBSET s /\ s \ {a} # s /\ x \in s \ {a}
    BY <1>6, <1>7, Zenon
  <2>. QED  BY <1>5, <2>1, Zenon
<1>9. g[s \ {x}] = f[a] + g[(s \ {x}) \ {a}]
  <2>1. s \ {x} \in SUBSET s /\ s \ {x} # s /\ a \in s \ {x}
    BY <1>7, Zenon
  <2>. QED  BY <1>5, <2>1, Zenon
<1>10. (s \ {a}) \ {x} = (s \ {x}) \ {a}
  BY Zenon
<1>11. PICK r \in Int : r = g[(s \ {a}) \ {x}]
  <2>1. (s \ {a}) \ {x} \in SUBSET S
    BY <1>3, Zenon
  <2>. QED  BY <2>1, SumsType, Zenon
<1>12. PICK i \in Int, j \in Int : i = f[a] /\ j = f[x]
  BY <1>3, Zenon DEF Summable
<1>13. g[s] = i + (j + r)
  BY <1>6, <1>8, <1>11, <1>12, Zenon
<1>14. f[x] + g[s \ {x}] = j + (i + r)
  BY <1>9, <1>10, <1>11, <1>12, Zenon
<1>15. i + (j + r) = j + (i + r)
  OBVIOUS
<1>. QED  BY <1>4, <1>13, <1>14, <1>15, Zenon

\* A sum of integers is an integer; the empty sum is zero.
LEMMA SumType ==
  ASSUME NEW S, IsFiniteSet(S), NEW f, Summable(f, S)
  PROVE  SumFunctionOnSet(f, S) \in Int /\ (S = {} => SumFunctionOnSet(f, S) = 0)
<1>1. PICK g : Sums(f, S, g) /\ SumFunctionOnSet(f, S) = g[S]
  BY SumIs, Zenon
<1>2. S \in SUBSET S
  BY Zenon
<1>3. g[S] \in Int
  BY <1>1, <1>2, SumsType, Zenon
<1>4. g[{}] = 0
  BY <1>1, SumsUnfold, Zenon
<1>. QED  BY <1>1, <1>3, <1>4, Zenon

\* Functions that agree on the set have one sum.
LEMMA SumRestrict ==
  ASSUME NEW S, IsFiniteSet(S), NEW f, NEW h, \A x \in S : f[x] = h[x]
  PROVE  SumFunctionOnSet(f, S) = SumFunctionOnSet(h, S)
<1>1. PICK g : Sums(f, S, g) /\ SumFunctionOnSet(f, S) = g[S]
  BY SumIs, Zenon
<1>2. PICK k : Sums(h, S, k) /\ SumFunctionOnSet(h, S) = k[S]
  BY SumIs, Zenon
<1>3. Sums(h, S, g)
  <2>1. \A s \in SUBSET S : (IF s = {} THEN 0 ELSE f[First(s)] + g[Rest(s)])
                            = (IF s = {} THEN 0 ELSE h[First(s)] + g[Rest(s)])
    <3>1. TAKE s \in SUBSET S
    <3>2. CASE s = {}
      BY <3>2, Zenon
    <3>3. CASE s # {}
      <4>1. f[First(s)] = h[First(s)]
        BY <3>3, RestIsSmaller, Zenon
      <4>. QED  BY <4>1, Zenon
    <3>. QED  BY <3>2, <3>3, Zenon
  <2>. QED  BY <1>1, <2>1, Zenon DEF Sums
<1>. QED  BY <1>1, <1>2, <1>3, SumsUnique, SMTT(30)

\* A sum of zeros is zero.
LEMMA SumZero ==
  ASSUME NEW S, IsFiniteSet(S), NEW f, \A x \in S : f[x] = 0
  PROVE  SumFunctionOnSet(f, S) = 0
<1>1. PICK g : Sums(f, S, g) /\ SumFunctionOnSet(f, S) = g[S]
  BY SumIs, Zenon
<1>2. PICK h : h = [s \in SUBSET S |-> 0]
  BY Zenon
<1>3. Sums(f, S, h)
  <2>1. \A s \in SUBSET S : (IF s = {} THEN 0 ELSE f[First(s)] + h[Rest(s)]) = 0
    <3>1. TAKE s \in SUBSET S
    <3>2. CASE s # {}
      <4>1. f[First(s)] = 0 /\ Rest(s) \in SUBSET S
        BY <3>2, RestIsSmaller, Zenon
      <4>. QED  BY <1>2, <4>1
    <3>. QED  BY <3>2, Zenon
  <2>. QED  BY <1>2, <2>1, Zenon DEF Sums
<1>4. g[S] = h[S]
  BY <1>1, <1>3, SumsUnique, SMTT(30)
<1>. QED  BY <1>1, <1>2, <1>4, Zenon

\* Any summand can be taken out.
LEMMA SumRemove ==
  ASSUME NEW S, IsFiniteSet(S), NEW f, Summable(f, S), NEW x \in S
  PROVE  SumFunctionOnSet(f, S) = f[x] + SumFunctionOnSet(f, S \ {x})
<1>1. PICK g : Sums(f, S, g) /\ SumFunctionOnSet(f, S) = g[S]
  BY SumIs, Zenon
<1>2. IsFiniteSet(S \ {x}) /\ S \ {x} \subseteq S
  BY FS_Subset, Zenon
<1>3. PICK h : Sums(f, S \ {x}, h) /\ SumFunctionOnSet(f, S \ {x}) = h[S \ {x}]
  BY <1>2, SumIs, Zenon
<1>4. g[S \ {x}] = h[S \ {x}]
  <2>1. PICK T : T = S \ {x}
    BY Zenon
  <2>2. /\ T \subseteq S /\ T \subseteq T /\ IsFiniteSet(T)
        /\ Sums(f, S, g) /\ Sums(f, T, h)
    BY <1>1, <1>2, <1>3, <2>1, Zenon
  <2>3. g[T] = h[T]
    BY <2>2, SumsUnique, SMTT(60)
  <2>. QED  BY <2>1, <2>3, Zenon
<1>5. g[S] = f[x] + g[S \ {x}]
  <2>1. S \in SUBSET S
    BY Zenon
  <2>. QED  BY <1>1, <2>1, SumsRemove
<1>. QED  BY <1>1, <1>3, <1>4, <1>5, Zenon

\* A sum follows the change of one summand.
LEMMA SumChange ==
  ASSUME NEW S, IsFiniteSet(S), NEW f, NEW h, Summable(f, S), Summable(h, S), NEW x \in S,
         \A y \in S : y # x => h[y] = f[y]
  PROVE  SumFunctionOnSet(h, S) = SumFunctionOnSet(f, S) - f[x] + h[x]
<1>1. SumFunctionOnSet(f, S) = f[x] + SumFunctionOnSet(f, S \ {x})
  BY SumRemove, Zenon
<1>2. SumFunctionOnSet(h, S) = h[x] + SumFunctionOnSet(h, S \ {x})
  BY SumRemove, Zenon
<1>3. IsFiniteSet(S \ {x})
  BY FS_Subset, Zenon
<1>4. SumFunctionOnSet(h, S \ {x}) = SumFunctionOnSet(f, S \ {x})
  BY <1>3, SumRestrict, Zenon
<1>5. Summable(f, S \ {x})
  BY Zenon DEF Summable
<1>6. SumFunctionOnSet(f, S \ {x}) \in Int
  BY <1>3, <1>5, SumType, Zenon
<1>7. f[x] \in Int /\ h[x] \in Int
  BY Zenon DEF Summable
<1>. QED  BY <1>1, <1>2, <1>4, <1>6, <1>7, SMTT(30)

-----------------------------------------------------------------------------
(***************************************************************************)
(* A transfer conserves the lamports.                                      *)
(***************************************************************************)
(***************************************************************************)
(* Lamports.  Each step moves lamports between two tables, or three, at    *)
(* one account of each, or leaves all balances alone.                      *)
(***************************************************************************)
\* A sum grows by what one summand grows.
LEMMA SumGrows ==
  ASSUME NEW S, IsFiniteSet(S), NEW f, NEW h, Summable(f, S), Summable(h, S),
         NEW x \in S, NEW a \in Int, h[x] = f[x] + a, \A y \in S : y # x => h[y] = f[y]
  PROVE  SumFunctionOnSet(h, S) = SumFunctionOnSet(f, S) + a
<1>1. SumFunctionOnSet(h, S) = SumFunctionOnSet(f, S) - f[x] + h[x]
  BY SumChange, SMTT(30)
<1>2. SumFunctionOnSet(f, S) \in Int
  BY SumType, Zenon
<1>3. f[x] \in Int
  BY Zenon DEF Summable
<1>. QED  BY <1>1, <1>2, <1>3

\* The balances of a finite table of accounts.
Accounts(f, S) == IsFiniteSet(S) /\ DOMAIN f = S /\ \A x \in S : f[x].lamports \in Int

\* The lamports of a table are the sum of its balances.
LEMMA TotalIs ==
  ASSUME NEW f, NEW S, Accounts(f, S)
  PROVE  /\ Total(f) = SumFunctionOnSet([x \in S |-> f[x].lamports], S)
         /\ Summable([x \in S |-> f[x].lamports], S)
         /\ Total(f) \in Int
<1>1. Summable([x \in S |-> f[x].lamports], S)
  BY Zenon DEF Accounts, Summable
<1>2. Total(f) = SumFunctionOnSet([x \in S |-> f[x].lamports], S)
  BY Zenon DEF Accounts, Total, SumFunction
<1>3. PICK h : h = [x \in S |-> f[x].lamports]
  BY Zenon
<1>4. SumFunctionOnSet(h, S) \in Int
  BY <1>1, <1>3, SumType, Zenon DEF Accounts
<1>. QED  BY <1>1, <1>2, <1>3, <1>4, Zenon

\* The lamports of a table follow the change of one balance.
LEMMA TotalChange ==
  ASSUME NEW S, NEW f, NEW g, Accounts(f, S), Accounts(g, S), NEW x \in S, NEW a \in Int,
         g[x].lamports = f[x].lamports + a,
         \A y \in S : y # x => g[y].lamports = f[y].lamports
  PROVE  Total(g) = Total(f) + a
<1>1. PICK h : h = [y \in S |-> f[y].lamports]
  BY Zenon
<1>2. PICK k : k = [y \in S |-> g[y].lamports]
  BY Zenon
<1>3. /\ Total(f) = SumFunctionOnSet(h, S) /\ Summable(h, S)
      /\ Total(g) = SumFunctionOnSet(k, S) /\ Summable(k, S)
      /\ Total(f) \in Int /\ Total(g) \in Int
  BY <1>1, <1>2, TotalIs, Zenon
<1>4. \A y \in S : y # x => k[y] = h[y]
  BY <1>1, <1>2, Zenon
<1>5. k[x] = h[x] + a
  BY <1>1, <1>2, Zenon
<1>6. SumFunctionOnSet(k, S) = SumFunctionOnSet(h, S) + a
  BY <1>3, <1>4, <1>5, SumGrows, Zenon DEF Accounts
<1>. QED  BY <1>3, <1>6, Zenon

\* Tables with the same balances hold the same lamports.
LEMMA TotalSame ==
  ASSUME NEW S, NEW f, NEW g, Accounts(f, S), Accounts(g, S),
         \A y \in S : g[y].lamports = f[y].lamports
  PROVE  Total(g) = Total(f)
<1>1. [y \in S |-> f[y].lamports] = [y \in S |-> g[y].lamports]
  BY Zenon
<1>2. DOMAIN f = S /\ DOMAIN g = S
  BY Zenon DEF Accounts
<1>. QED  BY <1>1, <1>2, Zenon DEF Total

\* The four tables, before and after a step.
LEMMA Tables ==
  ASSUME TypeOK
  PROVE  /\ Accounts(key, Keys) /\ Accounts(marker, Nullifiers) /\ Accounts(receipt, Requests)
         /\ Total(key) \in Int /\ Total(marker) \in Int /\ Total(receipt) \in Int
         /\ SumFunction(user) = SumFunctionOnSet(user, Users) /\ Summable(user, Users)
         /\ SumFunction(user) \in Int
<1>1. Accounts(key, Keys) /\ Accounts(marker, Nullifiers) /\ Accounts(receipt, Requests)
  BY Typed, AddressesAssumption DEF Accounts
<1>2. Total(key) \in Int /\ Total(marker) \in Int /\ Total(receipt) \in Int
  BY <1>1, TotalIs, Zenon
<1>3. SumFunction(user) = SumFunctionOnSet(user, Users) /\ Summable(user, Users)
  BY DEF TypeOK, SumFunction, Summable
<1>4. SumFunctionOnSet(user, Users) \in Int
  BY <1>3, SumType, AddressesAssumption, Zenon
<1>. QED  BY <1>1, <1>2, <1>3, <1>4, ZenonT(30)

\* The users' lamports follow the change of one balance.
LEMMA UsersChange ==
  ASSUME TypeOK, TypeOK', NEW u \in Users, NEW a \in Int, user' = [user EXCEPT ![u] = user[u] + a]
  PROVE  SumFunction(user') = SumFunction(user) + a
<1>1. /\ user \in [Users -> Nat] /\ user'[u] = user[u] + a /\ user[u] \in Int
      /\ \A x \in Users : x # u => user'[x] = user[x]
  BY DEF TypeOK
<1>2. /\ SumFunction(user) = SumFunctionOnSet(user, Users) /\ Summable(user, Users)
      /\ SumFunction(user) \in Int
  BY Tables, Zenon
<1>3. /\ SumFunction(user') = SumFunctionOnSet(user', Users) /\ Summable(user', Users)
      /\ SumFunction(user') \in Int
  <2>1. user' \in [Users -> Nat]
    BY Zenon DEF TypeOK
  <2>2. SumFunction(user') = SumFunctionOnSet(user', Users) /\ Summable(user', Users)
    BY <2>1 DEF SumFunction, Summable
  <2>. QED  BY <2>2, SumType, AddressesAssumption, Zenon
<1>4. PICK v, w : v = user /\ w = user'
  BY Zenon
<1>5. SumFunctionOnSet(w, Users) = SumFunctionOnSet(v, Users) + a
  <2>1. w[u] = v[u] + a /\ \A x \in Users : x # u => w[x] = v[x]
    BY <1>1, <1>4, Zenon
  <2>2. Summable(v, Users) /\ Summable(w, Users) /\ IsFiniteSet(Users)
    BY <1>2, <1>3, <1>4, AddressesAssumption, ZenonT(30)
  <2>. QED  BY <2>1, <2>2, SumGrows, Zenon
<1>. QED  BY <1>2, <1>3, <1>4, <1>5, ZenonT(30)

\* A table's lamports shift with its balances.
LEMMA TotalShifts ==
  ASSUME NEW S, NEW f, NEW g, Accounts(f, S), Accounts(g, S), NEW a \in Int, Shifts(f, g, S, a)
  PROVE  Total(g) = Total(f) + a
<1>1. Total(f) \in Int
  BY TotalIs, Zenon
<1>2. CASE a = 0 /\ \A x \in S : g[x].lamports = f[x].lamports
  <2>1. Total(g) = Total(f)
    BY <1>2, TotalSame, SMTT(30)
  <2>. QED  BY <1>1, <1>2, <2>1
<1>3. CASE \E x \in S : /\ g[x].lamports = f[x].lamports + a
                        /\ \A y \in S : y # x => g[y].lamports = f[y].lamports
  <2>1. PICK x \in S : /\ g[x].lamports = f[x].lamports + a
                       /\ \A y \in S : y # x => g[y].lamports = f[y].lamports
    BY <1>3, Zenon
  <2>. QED  BY <2>1, TotalChange, SMTT(30)
<1>. QED  BY <1>2, <1>3, Zenon DEF Shifts

\* What the tables gain and lose cancels.
LEMMA TransferConserves ==
  ASSUME TypeOK, TypeOK', LamportsConserved, Transfer
  PROVE  LamportsConserved'
<1>1. PICK a, b, c, d \in Int : Moves(a, b, c, d)
  BY Zenon DEF Transfer
<1>2. /\ Accounts(key', Keys) /\ Accounts(marker', Nullifiers) /\ Accounts(receipt', Requests)
  BY AddressesAssumption DEF TypeOK, Accounts
<1>3. /\ Accounts(key, Keys) /\ Accounts(marker, Nullifiers) /\ Accounts(receipt, Requests)
      /\ Total(key) \in Int /\ Total(marker) \in Int /\ Total(receipt) \in Int
      /\ SumFunction(user) \in Int
  BY Tables, Zenon
<1>4. PICK f, g, h : f = key' /\ g = marker' /\ h = receipt'
  BY Zenon
<1>5. Shifts(key, f, Keys, a) /\ Shifts(marker, g, Nullifiers, b) /\ Shifts(receipt, h, Requests, c)
  BY <1>1, <1>4, Zenon DEF Moves
<1>6. Accounts(f, Keys) /\ Accounts(g, Nullifiers) /\ Accounts(h, Requests)
  BY <1>2, <1>4, Zenon
<1>7. /\ Total(f) = Total(key) + a
      /\ Total(g) = Total(marker) + b
      /\ Total(h) = Total(receipt) + c
  <2>1. Total(f) = Total(key) + a
    BY <1>3, <1>5, <1>6, TotalShifts, SMTT(30)
  <2>2. Total(g) = Total(marker) + b
    BY <1>3, <1>5, <1>6, TotalShifts, SMTT(30)
  <2>3. Total(h) = Total(receipt) + c
    BY <1>3, <1>5, <1>6, TotalShifts, SMTT(30)
  <2>. QED  BY <2>1, <2>2, <2>3, Zenon
<1>8. SumFunction(user') = SumFunction(user) + d
  <2>1. CASE d = 0 /\ user' = user
    BY <1>3, <2>1
  <2>2. CASE \E u \in Users : user' = [user EXCEPT ![u] = user[u] + d]
    BY <2>2, UsersChange, Zenon
  <2>. QED  BY <1>1, <2>1, <2>2, Zenon DEF Moves
<1>9. a + b + c + d = 0
  BY <1>1, Zenon DEF Moves
<1>10. Total(key) + Total(marker) + Total(receipt) + SumFunction(user) = SumFunction(Funds)
  BY Zenon DEF LamportsConserved
<1>11. Total(f) + Total(g) + Total(h) + SumFunction(user') = SumFunction(Funds)
  <2>1. /\ Total(key) \in Int /\ Total(marker) \in Int /\ Total(receipt) \in Int
        /\ SumFunction(user) \in Int /\ a \in Int /\ b \in Int /\ c \in Int /\ d \in Int
    BY <1>3, Zenon
  <2>. QED  BY <1>7, <1>8, <1>9, <1>10, <2>1, SMTT(30)
<1>. QED  BY <1>4, <1>11, Zenon DEF LamportsConserved

\* At the start all lamports are the users'.
LEMMA InitConserves == Init => LamportsConserved
<1>1. SUFFICES ASSUME Init PROVE LamportsConserved
  BY Zenon
<1>2. ASSUME NEW S, IsFiniteSet(S) PROVE Total([x \in S |-> Vacant]) = 0
  <2>1. PICK f : f = [x \in S |-> Vacant]
    BY Zenon
  <2>2. Accounts(f, S) /\ \A x \in S : f[x].lamports = 0
    BY <1>2, <2>1 DEF Accounts, Vacant
  <2>3. PICK h : h = [x \in S |-> f[x].lamports]
    BY Zenon
  <2>4. \A x \in S : h[x] = 0
    BY <2>2, <2>3, Zenon
  <2>5. Total(f) = SumFunctionOnSet(h, S)
    BY <2>2, <2>3, TotalIs, ZenonT(30)
  <2>6. SumFunctionOnSet(h, S) = 0
    BY <1>2, <2>4, SumZero, Zenon
  <2>. QED  BY <2>1, <2>5, <2>6, Zenon
<1>3. Total(key) = 0 /\ Total(marker) = 0 /\ Total(receipt) = 0 /\ user = Funds
  BY <1>1, <1>2, AddressesAssumption, Zenon DEF Init
<1>4. SumFunction(user) \in Int
  BY <1>1, InitIInv, Tables, Zenon DEF IInv
<1>. QED  BY <1>3, <1>4 DEF LamportsConserved

(* No instruction, refund, gift or purge creates or loses a lamport, and   *)
(* every account the program accepts is typed and funded.                  *)
THEOREM AccountsAreSoundHolds == Spec => []AccountsAreSound
<1>1. IInv /\ IInv' /\ LamportsConserved /\ [Next]_vars => LamportsConserved'
  <2>1. SUFFICES ASSUME IInv, IInv', LamportsConserved, [Next]_vars PROVE LamportsConserved'
    BY Zenon
  <2>. QED  BY <2>1, NextTransfers, TransferConserves, Zenon DEF IInv
<1>2. IInv /\ LamportsConserved => AccountsAreSound
  BY Zenon DEF IInv, AccountsAreSound
<1>. QED  BY AccountsInvariant, InitConserves, <1>1, <1>2, PTL DEF Spec
=============================================================================
