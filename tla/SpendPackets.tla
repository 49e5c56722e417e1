---------------------------- MODULE SpendPackets ----------------------------
(***************************************************************************)
(* The packets of a spend, from the quote to the last cosignature. A quote *)
(* of CoinSelection is reserved; the wallet hands in an Ark transaction,   *)
(* one checkpoint per coin and a proof, and later the checkpoints that the *)
(* Operator has signed; AuthorizeVtxoSpend and AuthorizeVtxoCheckpoints    *)
(* (internal/application/vtxo.go) check them with vtxo_verify.go and       *)
(* vtxo_pending_proof.go before key_provider.go signs. Racing handlers are *)
(* VtxoSpend's subject: here one request is handled at a time, and what    *)
(* matters is what exactly it signs.                                       *)
(***************************************************************************)
EXTENDS CoinSelection, Packets

VARIABLES
    op,         \* the operation's row
    released    \* signatures of the VTXO cosigner that left the service

packetVars == <<op, released>>

-----------------------------------------------------------------------------
(* Trees and keys. *)

Unroll == <<"forfeit">>              \* op.CheckpointTapscript

\* checkpointDestScript
CheckpointScript == {Unroll, SpendLeaf}
CheckpointControl == {Unroll}

Recipient == {<<"recipient">>}
GetPendingTx == "get-pending-tx"

firstLeafPub(leaf) == leaf[1]
User == firstLeafPub(SpendLeaf)
Cosigner == "vault"
Operator == "operator"

\* A coin of somebody else.
foreignPoint == CoinPoint(0, Output({<<"foreign">>}, 1))

pointOf(c) == CoinPoint(c, Output(PolicyScript, Value[c]))

NoOp == [state |-> "none"]

-----------------------------------------------------------------------------
(* What the wallet should hand in. *)

checkpointOf(c) ==
    [tx |-> Transaction(3, <<pointOf(c)>>, <<Output(CheckpointScript, Value[c]), ANCHOR>>),
     ins |-> <<PInput(Output(PolicyScript, Value[c]), SpendLeaf, SpendControl, SigHashDefault)>>,
     extra |-> {}]

arkOf(cps) ==
    [tx |-> Transaction(3, [i \in DOMAIN cps |-> OutputPoint(cps[i].tx, 1)],
                <<Output(Recipient, op.amount)>>
                  \o (IF op.change = 0 THEN <<>> ELSE <<Output(PolicyScript, op.change)>>)
                  \o <<ANCHOR>>),
     ins |-> [i \in DOMAIN cps |->
                PInput(Output(CheckpointScript, Value[op.inputs[i]]),
                       SpendLeaf, CheckpointControl, SigHashDefault)],
     extra |-> {}]

proofOf ==
    [tx |-> Transaction(2, <<MessagePoint(GetPendingTx, PolicyScript)>>
                             \o [i \in DOMAIN op.inputs |-> pointOf(op.inputs[i])],
                <<Output(OP_RETURN, 0)>>),
     ins |-> [i \in 1..(Len(op.inputs) + 1) |->
                PInput(Output(PolicyScript, IF i = 1 THEN 0 ELSE Value[op.inputs[i - 1]]),
                       SpendLeaf, SpendControl, SigHashAll)],
     extra |-> {GetPendingTx}]

variants(p) ==
    packetVariants(p, {pointOf(c) : c \in Range(op.inputs)} \cup {foreignPoint},
                   {Recipient, PolicyScript, {<<"elsewhere">>}}, {DelegateLeaf, Unroll})
      \cup {[p EXCEPT !.extra = {"note"}]}

phoneSigned(p) == signedBy(p, User, SpendLeaf)

\* A packet made and signed by the phone, with up to two differences, or with
\* one in its signatures.
madeByPhone(p) ==
    {phoneSigned(v) : v \in {p} \cup variants(p) \cup UNION {variants(v) : v \in variants(p)}}
      \cup signatureVariants(phoneSigned(p), {Operator}, {Cosigner})

checkpointsOf == [i \in DOMAIN op.inputs |-> checkpointOf(op.inputs[i])]

requests ==
    LET ark == phoneSigned(arkOf(checkpointsOf))
        proof == phoneSigned(proofOf)
    IN  {[cps |-> cps, ark |-> phoneSigned(arkOf(cps)), proof |-> proof] :
            cps \in {checkpointsOf}
                      \cup changedAt(checkpointsOf, LAMBDA p : variants(p) \cup {phoneSigned(p)})}
          \cup {[cps |-> checkpointsOf, ark |-> a, proof |-> proof] :
                  a \in madeByPhone(arkOf(checkpointsOf))}
          \cup {[cps |-> checkpointsOf, ark |-> ark, proof |-> q] : q \in madeByPhone(proofOf)}

\* The checkpoints as the Operator and then the phone signed them.
submissions ==
    LET signed(p) == phoneSigned(signedBy(p, Operator, SpendLeaf))
        honest == [i \in DOMAIN op.inputs |-> signed(checkpointsOf[i])]
    IN  {honest, [i \in DOMAIN op.inputs |-> phoneSigned(checkpointsOf[i])]}
          \cup changedAt(honest, LAMBDA p :
                   {signed(v) : v \in variants(unsigned(p))}
                     \cup signatureVariants(p, {Operator, User}, {Cosigner}))

-----------------------------------------------------------------------------
(* The service's checks. *)

verifyUnsignedCheckpointPSBT(p, c) ==
    /\ p.tx.version = 3 /\ p.tx.locktime = 0
    /\ Len(p.tx.ins) = 1 /\ Len(p.ins) = 1
    /\ p.tx.ins[1].final
    /\ p.tx.ins[1].point = pointOf(c)
    /\ p.ins[1].witness.value = Value[c]
    /\ p.ins[1].witness.script = PolicyScript
    /\ requireExactLeafWithSighash(p.ins[1], PolicyScript, SpendLeaf, SpendControl,
                                   {User}, SigHashDefault)
    /\ p.ins[1].sigs = <<>>
    /\ Len(p.tx.outs) = 2
    /\ p.tx.outs[1] = Output(CheckpointScript, Value[c])
    /\ p.tx.outs[2] = ANCHOR

verifySubmittedCheckpointPSBT(p, c) ==
    /\ Len(p.ins) = 1
    /\ verifyUnsignedCheckpointPSBT(unsigned(p), c)
    /\ requireExactLeafWithSighash(p.ins[1], PolicyScript, SpendLeaf, SpendControl,
                                   {User, Operator}, SigHashDefault)
    /\ requireVerifiedSignersWithSighash(p, 1, {User, Operator}, SpendLeaf, SigHashDefault)

\* Mutation: the change may go anywhere.
MutOutputsAnyChange(outs) ==
    /\ Len(outs) = IF op.change > 0 THEN 3 ELSE 2
    /\ outs[1] = Output(Recipient, op.amount)
    /\ outs[1].value >= Dust
    /\ op.change > 0 => op.change >= Dust /\ outs[2].value = op.change
    /\ outs[Len(outs)] = ANCHOR

outputsPayQuote(outs) ==
    /\ Len(outs) = IF op.change > 0 THEN 3 ELSE 2
    /\ outs[1] = Output(Recipient, op.amount)
    /\ outs[1].value >= Dust
    /\ op.change > 0 => op.change >= Dust /\ outs[2] = Output(PolicyScript, op.change)
    /\ outs[Len(outs)] = ANCHOR

verifySpendPSBT(p, cps) ==
    LET sum == SumFunction([i \in DOMAIN p.ins |-> p.ins[i].witness.value])
    IN  /\ Len(op.inputs) \in 1..MaxInputs /\ Len(cps) = Len(op.inputs)
        /\ p.tx.version = 3 /\ p.tx.locktime = 0
        /\ Len(p.tx.ins) = Len(op.inputs) /\ Len(p.ins) = Len(op.inputs)
        /\ \A i \in DOMAIN op.inputs :
              /\ p.tx.ins[i].final
              /\ p.tx.ins[i].point = OutputPoint(cps[i].tx, 1)
              /\ p.ins[i].witness = Output(CheckpointScript, Value[op.inputs[i]])
              /\ requireExactLeafWithSighash(p.ins[i], CheckpointScript, SpendLeaf,
                                             CheckpointControl, {User}, SigHashDefault)
              /\ requireVerifiedSignersWithSighash(p, i, {User}, SpendLeaf, SigHashDefault)
        /\ outputsPayQuote(p.tx.outs)
        /\ sum = op.amount + op.change + op.fee

verifyPendingProof(p, required) ==
    /\ p.extra = {GetPendingTx}
    /\ p.tx.version = 2 /\ p.tx.locktime = 0
    /\ Len(p.tx.ins) = Len(op.inputs) + 1 /\ Len(p.ins) = Len(op.inputs) + 1
    /\ p.tx.outs = <<Output(OP_RETURN, 0)>>
    /\ \A i \in DOMAIN p.ins :
          /\ p.tx.ins[i].final
          /\ i > 1 => p.tx.ins[i].point = pointOf(op.inputs[i - 1])
          /\ p.ins[i].witness =
               Output(PolicyScript, IF i = 1 THEN 0 ELSE Value[op.inputs[i - 1]])
          /\ requireExactLeafWithSighash(p.ins[i], PolicyScript, SpendLeaf, SpendControl,
                                         required, SigHashAll)
          /\ requireVerifiedSignersWithSighash(p, i, required, SpendLeaf, SigHashAll)
    /\ intentVerify(p, GetPendingTx, PolicyScript)

requireOnlyVaultSignatureAdded(before, after) ==
    LET others(sigs) == SelectSeq(sigs, LAMBDA s : s.key # Cosigner)
    IN  /\ Len(before.ins) = Len(after.ins)
        /\ \A i \in DOMAIN after.ins :
              Len(after.ins[i].sigs) = Len(others(after.ins[i].sigs)) + 1
        /\ [after EXCEPT !.ins = [i \in DOMAIN after.ins |->
                [after.ins[i] EXCEPT !.sigs = others(@)]]] = before

-----------------------------------------------------------------------------
(* The operation. *)

\* ReserveVtxo stores the quote; the listing it came from is gone.
ReserveVtxo ==
    /\ pc = "done" /\ outcome.ok
    /\ op' = [state |-> "reserved", inputs |-> outcome.picked, amount |-> amount,
              change |-> outcome.change, fee |-> outcome.fee]
    /\ pc' = "reserved"
    /\ index' = <<>> /\ changes' = 0 /\ pageIndex' = 1 /\ pageTotal' = 0 /\ all' = <<>>
    /\ UNCHANGED <<amount, fees, outcome, released>>

\* authorizeVtxoTransaction: the Ark transaction and the proof, by one key.
AuthorizeVtxoSpend(ark, cps, proof) ==
    LET signedArk == signExactArkStage(ark, Cosigner, SpendLeaf, SigHashDefault)
        signedProof == signExactArkStage(proof, Cosigner, SpendLeaf, SigHashAll)
    IN  /\ op.state = "reserved"
        /\ Len(cps) = Len(op.inputs)
        /\ \A i \in DOMAIN cps : verifyUnsignedCheckpointPSBT(cps[i], op.inputs[i])
        /\ verifySpendPSBT(ark, cps)
        /\ verifyPendingProof(proof, {User})
        /\ canSignArkStage(ark, SpendLeaf, SigHashDefault)
        /\ canSignArkStage(proof, SpendLeaf, SigHashAll)
        /\ requireOnlyVaultSignatureAdded(proof, signedProof)
        /\ verifyPendingProof(signedProof, {User, Cosigner})
        /\ op' = [state |-> "signed", inputs |-> op.inputs, amount |-> op.amount,
                  change |-> op.change, fee |-> op.fee,
                  ark |-> signedArk, cps |-> cps, proof |-> signedProof]
        /\ released' = cosignaturesOf(signedArk, Cosigner) \cup cosignaturesOf(signedProof, Cosigner)
        /\ UNCHANGED vars

\* authorizeVtxoCheckpoints
AuthorizeVtxoCheckpoints(cands) ==
    LET authorized == [i \in DOMAIN cands |->
                         signExactArkStage(cands[i], Cosigner, SpendLeaf, SigHashDefault)]
    IN  /\ op.state = "signed"
        /\ Len(cands) = Len(op.inputs)
        /\ \A i \in DOMAIN cands :
              /\ sameUnsignedPSBT(op.cps[i], cands[i])
              /\ verifySubmittedCheckpointPSBT(cands[i], op.inputs[i])
              /\ canSignArkStage(cands[i], SpendLeaf, SigHashDefault)
        /\ op' = [op EXCEPT !.state = "submitted", !.cps = authorized]
        /\ released' = released \cup UNION {cosignaturesOf(authorized[i], Cosigner) : i \in DOMAIN cands}
        /\ UNCHANGED vars

SpendNext ==
    \/ Next /\ UNCHANGED packetVars
    \/ ReserveVtxo
    \/ /\ op.state = "reserved"
       /\ \E r \in requests : AuthorizeVtxoSpend(r.ark, r.cps, r.proof)
    \/ /\ op.state = "signed"
       /\ \E cands \in submissions : AuthorizeVtxoCheckpoints(cands)

\* No spend is under way, and none will be.
SpendIdle ==
    /\ pc = "idle" /\ index = <<>> /\ changes = 0
    /\ amount = 0 /\ fees = CHOOSE f \in Programs : TRUE
    /\ pageIndex = 1 /\ pageTotal = 0 /\ all = <<>> /\ outcome = Pending
    /\ op = NoOp /\ released = {}

SpendInit == Init /\ op = NoOp /\ released = {}

-----------------------------------------------------------------------------
(* Properties. *)

coinPoints == {pointOf(c) : c \in Coins}

\* Transactions that every input of which the cosigner has signed for, and whose
\* inputs exist: coins of the vault, or outputs of such transactions.
signedTxs ==
    {t \in {s.over.tx : s \in released} :
        \A i \in DOMAIN t.ins : \E s \in released :
            s.over.tx = t /\ s.over.idx = i /\ validOnChain(s)}
first == {t \in signedTxs : \A i \in DOMAIN t.ins : t.ins[i].point \in coinPoints}
second == {t \in signedTxs : \A i \in DOMAIN t.ins :
              t.ins[i].point \in coinPoints \cup {OutputPoint(u, 1) : u \in first}}

\* AuthorizeVtxoSpend, AuthorizeVtxoCheckpoints: whatever packets come in, the
\* signatures that left let a transaction do one of two things only: move coins
\* of the quote in full to where the cosigner is needed again, or pay the
\* recipient the quoted amount, the vault the quoted change, and the quoted fee.
PaymentFollowsQuote ==
    \A t \in first \cup second :
        \/ /\ \A i \in DOMAIN t.ins : t.ins[i].point \in {pointOf(c) : c \in Range(op.inputs)}
           /\ paid(t, CheckpointScript) = inTotal(t)
        \/ /\ paid(t, Recipient) = op.amount
           /\ paid(t, PolicyScript) = op.change
           /\ outTotal(t) = op.amount + op.change
           /\ inTotal(t) = outTotal(t) + op.fee

\* signExactArkStage: the packets of a submitted operation fit together and need
\* no further signature of the service: every checkpoint carries one valid
\* signature of phone, cosigner and Operator, the Ark transaction spends exactly
\* these checkpoints and carries one of phone and cosigner on each input.
Finalizable ==
    op.state = "submitted" =>
        /\ \A i \in DOMAIN op.cps : fullySigned(op.cps[i], 1, {User, Cosigner, Operator})
        /\ \A i \in DOMAIN op.ark.ins :
              /\ op.ark.tx.ins[i].point = OutputPoint(op.cps[i].tx, 1)
              /\ fullySigned(op.ark, i, {User, Cosigner})
        /\ Len(op.ark.ins) = Len(op.cps)
=============================================================================
