---------------------------- MODULE PacketProofs ----------------------------
(***************************************************************************)
(* What the cosigner keys sign, for every packet that can be decoded: the  *)
(* theorems do not depend on the differences that the model-checked        *)
(* instance tries. A packet may be any record of the shape below; the only *)
(* thing asked of it is that nobody else signs with a key of the service.  *)
(***************************************************************************)
EXTENDS BoardPackets, RecoveryPackets, CountingTheorems, SequenceTheorems

-----------------------------------------------------------------------------
(* Packets. *)

IsInput(in) ==
    /\ in = [witness |-> in.witness, leaves |-> in.leaves, sighash |-> in.sighash, sigs |-> in.sigs]
    /\ IsList(in.leaves) /\ IsList(in.sigs)
    /\ in.witness = Output(in.witness.script, in.witness.value) /\ in.witness.value \in Int

IsTx(tx) ==
    /\ IsList(tx.ins) /\ IsList(tx.outs)
    /\ \A j \in DOMAIN tx.outs : tx.outs[j].value \in Int

\* What decoding a packet gives.
IsPacket(p) ==
    /\ p = [tx |-> p.tx, ins |-> p.ins, extra |-> p.extra]
    /\ IsTx(p.tx)
    /\ IsList(p.ins)
    /\ \A i \in DOMAIN p.ins : IsInput(p.ins[i])

\* A packet with other inputs.
LEMMA PacketWith ==
    ASSUME NEW p, p = [tx |-> p.tx, ins |-> p.ins, extra |-> p.extra], NEW s
    PROVE  [p EXCEPT !.ins = s] = [tx |-> p.tx, ins |-> s, extra |-> p.extra]
OBVIOUS

\* An input with other signatures.
LEMMA InputWith ==
    ASSUME NEW in, IsInput(in), NEW s
    PROVE  [in EXCEPT !.sigs = s] =
              [witness |-> in.witness, leaves |-> in.leaves, sighash |-> in.sighash, sigs |-> s]
BY DEF IsInput

-----------------------------------------------------------------------------
(* Savings transitions: RecoveryPackets with any claimant and any Emulator. *)

\* A packet that spends outputs of transactions, and in which nobody signs with
\* the vault cosigner's key, whatever script it is tweaked by.
ClaimantPacket(p) ==
    /\ IsPacket(p)
    /\ \A i \in DOMAIN p.tx.ins : p.tx.ins[i].point[1] = "output"
    /\ \A i \in DOMAIN p.ins : \A s \in Range(p.ins[i].sigs) : \A script :
          s.by # ComputeArkadeScriptPublicKey("vault", script)

\* RecoveryNext, with every packet and every answer in place of the ones listed.
AnyRecoveryNext ==
    \/ \E purpose, t, p, script, auth : ClaimantPacket(p) /\ SignTransition(p, purpose, t, script, auth)
    \/ \E response : EmulatorAnswers(response)

AnyRecoverySpec == RecoveryInit /\ [][AnyRecoveryNext]_recovery

\* The signature s moves a coin as binding t says, and the claimant of p agrees.
MovesCoin(s, t, p) ==
    LET tx == s.over.tx
    IN  /\ inTotal(tx) - paid(tx, t.script.dest) <= P2AValueSats + TransitionFeeCap
        /\ chainOutput(tx.ins[1].point).script = t.input
        /\ validOnChain(s)
        /\ signs(device(t.role), Range(p.ins[1].sigs), tx)

\* What the Emulator is asked about.
Asked(q, p, t) ==
    /\ IsPacket(q)
    /\ Len(q.ins) = 1 /\ Len(q.tx.ins) = 1
    /\ q.ins[1].witness = chainOutput(q.tx.ins[1].point)
    /\ unsigned(q) = unsigned(p)
    /\ signs(ComputeArkadeScriptPublicKey("vault", t.script), Range(q.ins[1].sigs), q.tx)
    /\ signs(device(t.role), Range(q.ins[1].sigs), q.tx)

Served(q, p, t) ==
    /\ unsigned(q) = unsigned(p)
    /\ \A c \in {"vault", "arkade"} :
          signs(ComputeArkadeScriptPublicKey(c, t.script), Range(q.ins[1].sigs), q.tx)
    /\ signs(device(t.role), Range(q.ins[1].sigs), q.tx)

RecoveryInv ==
    /\ recovery.state = "open" => recovery.released = {}
    /\ recovery.state # "open" =>
          /\ recovery = [state |-> recovery.state, binding |-> recovery.binding,
                         submitted |-> recovery.submitted, packet |-> recovery.packet,
                         released |-> recovery.released]
          /\ \A s \in recovery.released : MovesCoin(s, recovery.binding, recovery.submitted)
    /\ recovery.state = "asked" => Asked(recovery.packet, recovery.submitted, recovery.binding)
    /\ recovery.state = "done" => Served(recovery.packet, recovery.submitted, recovery.binding)

withSignature(q, x) == [q EXCEPT !.ins[1].sigs = Append(@, x)]

\* r is the packet q of one input with the signature x more, and nothing else.
OneMore(q, r, x) ==
    /\ IsPacket(r) /\ r.tx = q.tx
    /\ Len(r.ins) = 1 /\ DOMAIN r.ins = {1}
    /\ r.ins[1].witness = q.ins[1].witness
    /\ unsigned(r) = unsigned(q)
    /\ Range(r.ins[1].sigs) = Range(q.ins[1].sigs) \cup {x}

\* A packet of one input to which a signature is added: nothing else has changed.
LEMMA SignatureAdded ==
    ASSUME NEW q, IsPacket(q), Len(q.ins) = 1, NEW x
    PROVE  OneMore(q, withSignature(q, x), x)
<1> DEFINE in == q.ins[1]
           more == Append(in.sigs, x)
           out == [witness |-> in.witness, leaves |-> in.leaves, sighash |-> in.sighash, sigs |-> more]
           r == withSignature(q, x)
<1>1. DOMAIN q.ins = {1} /\ q.ins = <<in>>
  BY OneElement, Zenon DEF IsPacket
<1>2. IsInput(in)
  BY <1>1, Zenon DEF IsPacket
<1>3. q = [tx |-> q.tx, ins |-> q.ins, extra |-> q.extra]
  BY DEF IsPacket
<1>4. in = [witness |-> in.witness, leaves |-> in.leaves, sighash |-> in.sighash, sigs |-> in.sigs]
  BY <1>2, Zenon DEF IsInput
<1>5. [in EXCEPT !.sigs = more] = out
  BY <1>2, InputWith, Zenon
<1>6. [q.ins EXCEPT ![1] = [in EXCEPT !.sigs = more]] = <<out>>
  BY <1>1, <1>5, Singleton, Zenon
<1>7. r = [q EXCEPT !.ins = [q.ins EXCEPT ![1] = [in EXCEPT !.sigs = more]]]
  BY DEF withSignature
<1>8. r = [tx |-> q.tx, ins |-> <<out>>, extra |-> q.extra]
  BY <1>3, <1>6, <1>7, PacketWith, Zenon
<1> HIDE DEF r
<1>9. r.tx = q.tx /\ r.ins = <<out>> /\ r.extra = q.extra
  BY <1>8, Zenon
<1>10. IsList(more) /\ Range(more) = Range(in.sigs) \cup {x}
  BY <1>2, Appended DEF IsInput
<1>11. IsInput(out)
  BY <1>2, <1>10 DEF IsInput
<1>12. IsList(<<out>>) /\ DOMAIN <<out>> = {1} /\ Len(<<out>>) = 1 /\ <<out>>[1] = out
  BY Singleton, Zenon
<1>13. IsPacket(r)
  BY <1>8, <1>9, <1>11, <1>12, Zenon DEF IsPacket
<1>14. unsigned(r) = unsigned(q)
  <2>1. [i \in DOMAIN r.ins |-> [r.ins[i] EXCEPT !.sigs = <<>>]] =
          [i \in DOMAIN q.ins |-> [q.ins[i] EXCEPT !.sigs = <<>>]]
    BY <1>1, <1>2, <1>9, <1>11, <1>12, InputWith
  <2> QED
    BY <1>3, <1>8, <1>9, <1>13, <2>1, PacketWith, Zenon DEF unsigned, IsPacket
<1>15. r.ins[1] = out
  BY <1>9, <1>12, Zenon
<1> HIDE DEF in, more
<1>16. r.ins[1].witness = in.witness /\ r.ins[1].sigs = more
  BY <1>15
<1>17. OneMore(q, r, x)
  BY <1>9, <1>10, <1>12, <1>13, <1>14, <1>16, Zenon DEF OneMore, in
<1> QED
  BY <1>17, Zenon DEF r

\* A signature over a packet that shows its coin as the ledger knows it is valid.
LEMMA OverOwnPacket ==
    ASSUME NEW q, IsPacket(q), Len(q.ins) = 1, Len(q.tx.ins) = 1,
           q.ins[1].witness = chainOutput(q.tx.ins[1].point),
           NEW x, NEW leaf, NEW h, x.over = digest(q, 1, leaf, h)
    PROVE  x.over.tx = q.tx /\ validOnChain(x)
<1>1. DOMAIN q.ins = {1} /\ DOMAIN q.tx.ins = {1}
  BY OneElement, Zenon DEF IsPacket, IsTx
<1> QED
  BY <1>1 DEF validOnChain, digest

\* signExactStage adds the signature x of the answer, which verifies.
Adds(q, response, key, x) ==
    /\ x \in Range(response.ins[1].sigs)
    /\ signExactStage(q, response, key) = withSignature(q, x)
    /\ x.by = key
    /\ x.over = digest(q, 1, q.ins[1].leaves[1].script, SigHashDefault)

\* signExactStage adds one signature of the answer, and that one verifies.
LEMMA OneAnswer ==
    ASSUME NEW q, NEW response, NEW key, answered(q, response, key)
    PROVE  \E x : Adds(q, response, key, x)
<1> DEFINE sigs == response.ins[1].sigs
           E == extractVerifiedSignerSig(q, response, key)
<1>1. Cardinality(E) = 1 /\ Len(response.ins) = 1
  BY Zenon DEF answered
<1>2. E \subseteq DOMAIN sigs
  BY DEF extractVerifiedSignerSig, newSigs
<1>3. PICK k \in E : k = CHOOSE i \in E : TRUE
  <2>1. E # {}
    BY <1>1, FS_EmptySet
  <2> QED
    BY <2>1, Zenon
<1>4. sigs[k] \in Range(sigs)
  BY <1>2, Zenon DEF Range
<1>5. /\ sigs[k].by = key
      /\ sigs[k].over = digest(q, 1, q.ins[1].leaves[1].script, SigHashDefault)
  BY DEF extractVerifiedSignerSig, verifySchnorrOnInputWithSighash
<1>6. signExactStage(q, response, key) = withSignature(q, sigs[k])
  BY <1>3, Zenon DEF signExactStage, withSignature
<1> QED
  BY <1>4, <1>5, <1>6, Zenon DEF Adds

\* The one signature the vault cosigner adds is of the script that the coin's own
\* leaf is bound to: a key tweaked by another script is not the expected one.
LEMMA VaultAnswer ==
    ASSUME NEW p, ClaimantPacket(p), Len(p.ins) = 1, NEW script, NEW wanted,
           answered(p, LocalSigner(p, script), ComputeArkadeScriptPublicKey("vault", wanted))
    PROVE  /\ script = wanted
           /\ \E x : Adds(p, LocalSigner(p, script), ComputeArkadeScriptPublicKey("vault", wanted), x)
<1> DEFINE key == ComputeArkadeScriptPublicKey("vault", wanted)
           mine == ComputeArkadeScriptPublicKey("vault", script)
           leaf == p.ins[1].leaves[1].script
           z == signTapLeafAtWithSighash(p, 1, mine, leaf, SigHashDefault)
           r == LocalSigner(p, script)
<1>1. DOMAIN p.ins = {1} /\ IsInput(p.ins[1])
  BY OneElement, Zenon DEF ClaimantPacket, IsPacket
<1>2. r.ins[1].sigs = Append(p.ins[1].sigs, z)
  <2>1. r.ins[1] = [p.ins[1] EXCEPT !.sigs = Append(@, z)]
    BY <1>1, Zenon DEF LocalSigner, signInputs, ClaimantPacket, IsPacket
  <2> QED
    BY <2>1, <1>1, Zenon DEF IsInput
<1>3. PICK x : Adds(p, r, key, x)
  BY OneAnswer, Zenon
<1>4. x \in Range(p.ins[1].sigs) \/ x = z
  BY <1>1, <1>2, <1>3, Appended DEF IsInput, Adds
<1>5. x \notin Range(p.ins[1].sigs)
  BY <1>1, <1>3, Zenon DEF ClaimantPacket, Adds
<1>6. z.by = mine
  BY Zenon DEF signTapLeafAtWithSighash
<1>7. script = wanted
  BY <1>3, <1>4, <1>5, <1>6 DEF Adds, ComputeArkadeScriptPublicKey
<1> QED
  BY <1>3, <1>7, Zenon

\* assembleTransitionScript: what the transaction loses on the way is the anchor
\* and at most the fee ceiling.
LEMMA TransitionCost ==
    ASSUME NEW tx, IsTx(tx), NEW script, NEW auth, NEW prev, prev.value \in Int,
           scriptExecutes(script, auth, tx, prev),
           prev = chainOutput(tx.ins[1].point)
    PROVE  inTotal(tx) - paid(tx, script.dest) <= P2AValueSats + TransitionFeeCap
<1> DEFINE share == [j \in DOMAIN tx.outs |->
                        IF tx.outs[j].script = script.dest THEN tx.outs[j].value ELSE 0]
           got == [i \in DOMAIN tx.ins |-> chainOutput(tx.ins[i].point).value]
           v == tx.outs[1].value
<1>1. DOMAIN tx.outs = 1..3 /\ DOMAIN tx.ins = {1}
  BY ListDomain, OneElement, Zenon DEF IsTx, scriptExecutes
<1>2. v \in Int
  BY <1>1 DEF IsTx
<1>3. share[1] = v /\ share[2] \in {0, 1} /\ share[3] = 0
  <2>1. tx.outs[1].script = script.dest /\ tx.outs[2].value = 1 /\ tx.outs[3].value = 0
    BY DEF scriptExecutes, P2A, packetOutput, Output, P2AValueSats
  <2> QED
    BY <1>1, <2>1
<1>4. paid(tx, script.dest) = Total(share, 1..3)
  BY <1>1, SumIsTotal, Zenon DEF paid
<1>5. Total(share, 1..3) = share[1] + share[2] + share[3]
  <2>1. share[1] \in Int /\ share[2] \in Int /\ share[3] \in Int
    BY <1>2, <1>3
  <2> HIDE DEF share
  <2> QED
    BY <2>1, SumThree, Zenon
<1>6. paid(tx, script.dest) >= v
  <2> HIDE DEF share
  <2> QED
    BY <1>2, <1>3, <1>4, <1>5
<1>7. inTotal(tx) = prev.value
  <2>1. got[1] = prev.value
    BY <1>1, Zenon
  <2>2. inTotal(tx) = Total(got, {1})
    BY <1>1, SumIsTotal, Zenon DEF inTotal
  <2> HIDE DEF got
  <2> QED
    BY <2>1, <2>2, SumOne, Zenon
<1>8. prev.value - v - P2AValueSats \in 0..TransitionFeeCap
  BY Zenon DEF scriptExecutes
<1>9. paid(tx, script.dest) \in Int
  <2> HIDE DEF share
  <2> QED
    BY <1>2, <1>3, <1>4, <1>5
<1> QED
  BY <1>2, <1>6, <1>7, <1>8, <1>9, TransitionAssumption DEF P2AValueSats

\* SignTransition's checks make the cosignature one that moves the coin as bound.
LEMMA TransitionMoves ==
    ASSUME NEW p, ClaimantPacket(p), NEW purpose, NEW t, NEW auth,
           RequireVerifiedPrevout(p), resolveTransitionBinding(p, purpose, t),
           verifyTransitionClaimantSig(p, t),
           scriptExecutes(t.script, auth, p.tx, p.ins[1].witness),
           NEW x, NEW leaf, x.over = digest(p, 1, leaf, SigHashDefault)
    PROVE  /\ MovesCoin(x, t, p)
           /\ p.ins[1].witness = chainOutput(p.tx.ins[1].point)
           /\ x.over.tx = p.tx
<1>1. Len(p.ins) = 1 /\ Len(p.tx.ins) = 1
  BY Zenon DEF RequireVerifiedPrevout
<1>2. DOMAIN p.ins = {1} /\ DOMAIN p.tx.ins = {1} /\ IsInput(p.ins[1])
  BY <1>1, OneElement, Zenon DEF ClaimantPacket, IsPacket, IsTx
<1>3. p.ins[1].witness = chainOutput(p.tx.ins[1].point)
  BY <1>2, Zenon DEF RequireVerifiedPrevout, ClaimantPacket, chainOutput
<1>4. x.over.tx = p.tx /\ validOnChain(x)
  BY <1>1, <1>3, OverOwnPacket, Zenon DEF ClaimantPacket
<1>5. signs(device(t.role), Range(p.ins[1].sigs), p.tx)
  <2> DEFINE sigs == p.ins[1].sigs
             mine == {i \in DOMAIN sigs : sigs[i].key = device(t.role) /\ sigs[i].leaf = leafOf(t)}
             f == sigs[Min(mine)]
  <2>1. /\ mine # {}
        /\ f.by = device(t.role)
        /\ f.over = digest(p, 1, leafOf(t), SigHashDefault)
    BY Zenon DEF verifyTransitionClaimantSig, verifySchnorrOnInputWithSighash
  <2>2. mine \subseteq DOMAIN sigs /\ DOMAIN sigs \subseteq Nat
    BY <1>2, ListDomain DEF IsInput
  <2>3. Min(mine) \in mine
    BY <2>1, <2>2, LeastOf, Zenon
  <2>4. f \in Range(sigs)
    BY <2>2, <2>3, Zenon DEF Range
  <2>5. f.over.tx = p.tx /\ validOnChain(f)
    <3>1. IsPacket(p)
      BY Zenon DEF ClaimantPacket
    <3> HIDE DEF f
    <3> QED
      BY <1>1, <1>3, <2>1, <3>1, OverOwnPacket, Zenon
  <2> QED
    BY <2>1, <2>4, <2>5, Zenon DEF signs
<1>6. inTotal(p.tx) - paid(p.tx, t.script.dest) <= P2AValueSats + TransitionFeeCap
  BY <1>2, <1>3, TransitionCost, Zenon DEF ClaimantPacket, IsPacket, IsInput
<1>7. chainOutput(p.tx.ins[1].point).script = t.input
  BY <1>3 DEF resolveTransitionBinding
<1> QED
  BY <1>3, <1>4, <1>5, <1>6, <1>7, Zenon DEF MovesCoin

\* RecoveryInv is inductive: SignTransition.
LEMMA SignTransitionKeeps ==
    ASSUME RecoveryInv, NEW p, ClaimantPacket(p), NEW purpose, NEW t, NEW script, NEW auth,
           SignTransition(p, purpose, t, script, auth)
    PROVE  RecoveryInv'
<1> DEFINE key == ComputeArkadeScriptPublicKey("vault", t.script)
           q == signExactStage(p, LocalSigner(p, script), key)
<1>1. /\ recovery.state = "open" /\ RequireVerifiedPrevout(p)
      /\ resolveTransitionBinding(p, purpose, t) /\ verifyTransitionClaimantSig(p, t)
      /\ LocalSignerSigns(p, script, auth) /\ answered(p, LocalSigner(p, script), key)
      /\ recovery' = [state |-> "asked", binding |-> t, submitted |-> p, packet |-> q,
                      released |-> recovery.released \cup cosignaturesOf(q, key)]
  BY Zenon DEF SignTransition
<1>2. recovery.released = {}
  BY <1>1, Zenon DEF RecoveryInv
<1>3. IsPacket(p) /\ Len(p.ins) = 1 /\ Len(p.tx.ins) = 1
  BY <1>1, Zenon DEF ClaimantPacket, RequireVerifiedPrevout
<1>4. script = t.script /\ \E x : Adds(p, LocalSigner(p, script), key, x)
  BY <1>1, <1>3, VaultAnswer, Zenon
<1>5. PICK x : Adds(p, LocalSigner(p, script), key, x)
  BY <1>4, Zenon
<1>6. scriptExecutes(t.script, auth, p.tx, p.ins[1].witness)
  BY <1>1, <1>4, Zenon DEF LocalSignerSigns
<1>7. /\ MovesCoin(x, t, p) /\ x.over.tx = p.tx
      /\ p.ins[1].witness = chainOutput(p.tx.ins[1].point)
  BY <1>1, <1>5, <1>6, TransitionMoves, Zenon DEF Adds
<1>8. OneMore(p, q, x)
  BY <1>3, <1>5, SignatureAdded, Zenon DEF Adds
<1> HIDE DEF q, key
<1>9. ASSUME NEW s \in cosignaturesOf(q, key) PROVE s = x
  <2>1. s \in Range(q.ins[1].sigs) /\ s.by = key
    BY <1>8, <1>9, Zenon DEF cosignaturesOf, OneMore
  <2>2. s \notin Range(p.ins[1].sigs)
    <3>1. 1 \in DOMAIN p.ins
      BY <1>3, OneElement, Zenon DEF IsPacket
    <3> QED
      BY <2>1, <3>1, Zenon DEF ClaimantPacket, key
  <2> QED
    BY <1>8, <2>1, <2>2, Zenon DEF OneMore
<1>10. Asked(q, p, t)
  <2>1. signs(key, Range(q.ins[1].sigs), q.tx)
    BY <1>5, <1>7, <1>8, Zenon DEF signs, MovesCoin, OneMore, Adds
  <2>2. signs(device(t.role), Range(q.ins[1].sigs), q.tx)
    BY <1>7, <1>8, Zenon DEF signs, MovesCoin, OneMore, Adds
  <2> QED
    BY <1>3, <1>7, <1>8, <2>1, <2>2, Zenon DEF Asked, key, OneMore
<1>11. /\ recovery'.state = "asked" /\ recovery'.binding = t /\ recovery'.submitted = p
       /\ recovery'.packet = q /\ recovery'.released = cosignaturesOf(q, key)
       /\ recovery' = [state |-> "asked", binding |-> t, submitted |-> p, packet |-> q,
                       released |-> cosignaturesOf(q, key)]
  BY <1>1, <1>2, Zenon DEF q
<1> QED
  BY <1>7, <1>9, <1>10, <1>11 DEF RecoveryInv

\* RecoveryInv is inductive: the Emulator's answer.
LEMMA EmulatorAnswersKeeps ==
    ASSUME RecoveryInv, NEW response, EmulatorAnswers(response)
    PROVE  RecoveryInv'
<1> DEFINE t == recovery.binding
           p == recovery.submitted
           q == recovery.packet
           key == ComputeArkadeScriptPublicKey("arkade", t.script)
           r == signExactStage(q, response, key)
<1>1. /\ recovery.state = "asked" /\ Asked(q, p, t)
      /\ recovery = [state |-> recovery.state, binding |-> t, submitted |-> p, packet |-> q,
                     released |-> recovery.released]
      /\ \A s \in recovery.released : MovesCoin(s, t, p)
  BY Zenon DEF EmulatorAnswers, RecoveryInv
<1>2. CASE ~ answered(q, response, key)
  <2>1. recovery' = [recovery EXCEPT !.state = "failed"]
    BY <1>2, Zenon DEF EmulatorAnswers
  <2> HIDE DEF key
  <2>2. recovery' = [state |-> "failed", binding |-> t, submitted |-> p, packet |-> q,
                     released |-> recovery.released]
    BY <1>1, <2>1, Zenon
  <2> HIDE DEF t, p, q
  <2> QED
    BY <1>1, <2>2, Zenon DEF RecoveryInv
<1>3. CASE answered(q, response, key)
  <2>1. recovery' = [recovery EXCEPT !.state = "done", !.packet = r]
    BY <1>3, Zenon DEF EmulatorAnswers
  <2>2. PICK x : Adds(q, response, key, x)
    BY <1>3, OneAnswer, Zenon
  <2>9. r = withSignature(q, x)
    BY <2>2, Zenon DEF Adds
  <2> HIDE DEF r
  <2>3. recovery' = [state |-> "done", binding |-> t, submitted |-> p, packet |-> r,
                     released |-> recovery.released]
    <3> HIDE DEF key
    <3> QED
      BY <1>1, <2>1, Zenon
  <2> HIDE DEF t, p, q, key
  <2>4. OneMore(q, r, x)
    BY <1>1, <2>9, SignatureAdded, Zenon DEF Asked
  <2>5. x.over.tx = q.tx /\ validOnChain(x)
    BY <1>1, <2>2, OverOwnPacket, Zenon DEF Asked, Adds
  <2>6. signs(key, Range(r.ins[1].sigs), r.tx)
    BY <2>2, <2>4, <2>5, Zenon DEF signs, OneMore, Adds
  <2>7. ASSUME NEW k, signs(k, Range(q.ins[1].sigs), q.tx) PROVE signs(k, Range(r.ins[1].sigs), r.tx)
    BY <2>4, <2>7, Zenon DEF signs, OneMore, Adds
  <2>8. Served(r, p, t)
    BY <1>1, <2>4, <2>6, <2>7, Zenon DEF Asked, Served, key, OneMore
  <2> QED
    BY <1>1, <2>3, <2>8, Zenon DEF RecoveryInv
<1> QED
  BY <1>2, <1>3, Zenon

\* SignTransition, LocalSigner, signExactStage: whatever packet a claimant hands
\* in and whatever the Emulator answers, a signature of the vault cosigner that
\* leaves moves a coin of a rebuilt tree to the tree its leaf is bound to, for at
\* most the anchor and the fee ceiling, with the claimant's own signature on it;
\* and an answer served carries all three signatures on the packet as submitted.
THEOREM TransitionsPay == AnyRecoverySpec => []TransitionPays
<1>1. RecoveryInit => RecoveryInv
  BY DEF RecoveryInit, RecoveryInv
<1>2. RecoveryInv /\ [AnyRecoveryNext]_recovery => RecoveryInv'
  <2>1. CASE UNCHANGED recovery
    BY <2>1, Zenon DEF RecoveryInv
  <2> QED
    BY <2>1, SignTransitionKeeps, EmulatorAnswersKeeps, Zenon DEF AnyRecoveryNext
<1>3. RecoveryInv => TransitionPays
  BY DEF RecoveryInv, TransitionPays, MovesCoin, Served
<1> QED
  BY <1>1, <1>2, <1>3, PTL DEF AnyRecoverySpec

-----------------------------------------------------------------------------
(* Boardings: BoardPackets with any wallet, any Operator and any tree. *)

\* What decoding a proof or a commitment gives. The boarding cosigner's key is
\* the service's: its signatures are the ones it released.
Shown(p) ==
    /\ IsTx(p.tx) /\ IsList(p.ins) /\ DOMAIN p.tx.ins = DOMAIN p.ins
    /\ \A i \in DOMAIN p.ins : IsInput(p.ins[i])
    /\ \A i \in DOMAIN p.ins : \A s \in Range(p.ins[i].sigs) :
          s.by = BoardCosigner => s \in board.released
ShownProof(p) ==
    /\ p = [tx |-> p.tx, ins |-> p.ins, extra |-> p.extra, revealed |-> p.revealed]
    /\ Shown(p)
ShownCommitment(p) ==
    /\ p = [tx |-> p.tx, ins |-> p.ins, extra |-> p.extra]
    /\ Shown(p)

\* Transactions of a tree; the id of each is a hash over the ids of those it
\* spends, so none is below itself.
spendsOutputOf(u, t) == \E i \in DOMAIN u.ins : u.ins[i].point[1] = "output" /\ u.ins[i].point[2] = t
ShownTree(flat) ==
    /\ IsList(flat) /\ \A n \in Range(flat) : IsTx(n.tx)
    /\ \E rank \in [treeTxs(flat) -> Nat] : \A t, u \in treeTxs(flat) :
          spendsOutputOf(u, t) => rank[t] < rank[u]

\* BoardNext, with every proof, commitment and tree in place of the ones listed.
AnyBoardNext ==
    \/ \E p : ShownProof(p) /\ (registerVaultBoard(p) \/ releaseVaultBoard(p))
    \/ \E e : ShownCommitment(e.packet) /\ ShownTree(e.tree) /\ submitVaultBoardCommitment(e)

AnyBoardSpec == BoardInit /\ [][AnyBoardNext]_board

\* The inductive invariant: until a commitment is signed, no signature that left
\* is one the chain accepts.
BoardInv ==
    /\ board.state \in {"prepared", "registered", "released", "committed"}
    /\ board.state = "prepared" => board.released = {}
    /\ board.state # "prepared" =>
          /\ board = [state |-> board.state, receiver |-> board.receiver, fee |-> board.fee,
                      tree |-> board.tree, released |-> board.released]
          /\ board.receiver = BoardValue - BoardFee
    /\ board.state # "committed" => \A s \in board.released : ~ validOnChain(s)
    /\ BoardingPays

\* A packet in which some inputs got a signature more.
SignedAt(p, q, idxs, key, leaf, h) ==
    q.ins = [i \in DOMAIN p.ins |->
                IF i \in idxs
                THEN [p.ins[i] EXCEPT !.sigs = Append(p.ins[i].sigs,
                                                  signTapLeafAtWithSighash(p, i, key, leaf, h))]
                ELSE p.ins[i]]

\* A signature that a packet had, or that was made for one of the given inputs.
ComesFrom(s, p, idxs, key, leaf, h) ==
    \/ \E i \in DOMAIN p.ins : s \in Range(p.ins[i].sigs) /\ s.by = key
    \/ \E i \in idxs : s.over = digest(p, i, leaf, h)

\* signExactVaultBoardStage signs the given inputs.
LEMMA BoardStage ==
    ASSUME NEW p, ShownProof(p) \/ ShownCommitment(p), NEW idxs, NEW key, NEW leaf, NEW h
    PROVE  SignedAt(p, signExactVaultBoardStage(p, idxs, key, leaf, h), idxs, key, leaf, h)
<1> DEFINE ins == [i \in DOMAIN p.ins |->
                      IF i \in idxs
                      THEN [p.ins[i] EXCEPT !.sigs = Append(p.ins[i].sigs,
                                                signTapLeafAtWithSighash(p, i, key, leaf, h))]
                      ELSE p.ins[i]]
           q == signExactVaultBoardStage(p, idxs, key, leaf, h)
<1>1. q = [p EXCEPT !.ins = ins]
  BY DEF signExactVaultBoardStage, signInputs
<1> HIDE DEF ins, q
<1>2. q.ins = ins
  <2>1. CASE ShownProof(p)
    BY <1>1, <2>1, Zenon DEF ShownProof
  <2>2. CASE ShownCommitment(p)
    BY <1>1, <2>2, Zenon DEF ShownCommitment
  <2> QED
    BY <2>1, <2>2, Zenon
<1> QED
  BY <1>2, Zenon DEF SignedAt, ins, q

\* The signatures of a key in a packet it has signed: those that were there, and
\* one for each input it signed.
LEMMA BoardSignatures ==
    ASSUME NEW p, Shown(p), NEW q, NEW idxs, NEW key, NEW leaf, NEW h,
           SignedAt(p, q, idxs, key, leaf, h), NEW s \in cosignaturesOf(q, key)
    PROVE  ComesFrom(s, p, idxs, key, leaf, h)
<1>1. DOMAIN q.ins = DOMAIN p.ins
  BY DEF SignedAt
<1>2. PICK i \in DOMAIN p.ins : s \in Range(q.ins[i].sigs) /\ s.by = key
  BY <1>1, Zenon DEF cosignaturesOf
<1>3. CASE i \notin idxs
  <2>1. q.ins[i] = p.ins[i]
    BY <1>3, Zenon DEF SignedAt
  <2> QED
    BY <1>2, <2>1, Zenon DEF ComesFrom
<1>4. CASE i \in idxs
  <2> DEFINE z == signTapLeafAtWithSighash(p, i, key, leaf, h)
  <2>1. IsInput(p.ins[i])
    BY Zenon DEF Shown
  <2>2. q.ins[i] = [p.ins[i] EXCEPT !.sigs = Append(p.ins[i].sigs, z)]
    BY <1>4, Zenon DEF SignedAt
  <2>3. z.over = digest(p, i, leaf, h)
    BY Zenon DEF signTapLeafAtWithSighash
  <2> HIDE DEF z
  <2>4. q.ins[i].sigs = Append(p.ins[i].sigs, z)
    BY <2>1, <2>2, InputWith
  <2>5. Range(Append(p.ins[i].sigs, z)) = Range(p.ins[i].sigs) \cup {z}
    BY <2>1, Appended, Zenon DEF IsInput
  <2> QED
    BY <1>2, <1>4, <2>3, <2>4, <2>5, Zenon DEF ComesFrom
<1> QED
  BY <1>3, <1>4, Zenon

\* A signature for one of the given inputs.
MadeFor(s, p, idxs, h) == \E i \in idxs : s.over = digest(p, i, BoardLeaf, h)

\* What authorizeVaultBoard lets out that was not out before.
LEMMA BoardReleases ==
    ASSUME NEW p, ShownProof(p) \/ ShownCommitment(p), NEW idxs, NEW h,
           NEW s \in authorizeVaultBoard(p, idxs, h), s \notin board.released
    PROVE  MadeFor(s, p, idxs, h)
<1> DEFINE q == signExactVaultBoardStage(p, idxs, BoardCosigner, BoardLeaf, h)
<1>1. SignedAt(p, q, idxs, BoardCosigner, BoardLeaf, h)
  BY BoardStage, Zenon
<1>2. s \in cosignaturesOf(q, BoardCosigner)
  BY Zenon DEF authorizeVaultBoard
<1>3. Shown(p)
  BY Zenon DEF ShownProof, ShownCommitment
<1> HIDE DEF q
<1>4. ComesFrom(s, p, idxs, BoardCosigner, BoardLeaf, h)
  BY <1>1, <1>2, <1>3, BoardSignatures, Zenon
<1> QED
  BY <1>3, <1>4, Zenon DEF Shown, ComesFrom, MadeFor

\* verifyVaultBoardIntentProofShape: no chain accepts a signature of a proof.
LEMMA ProofUnpublishable ==
    ASSUME NEW p, ShownProof(p), NEW message, verifyVaultBoardIntentProofShape(p, message),
           NEW s, NEW i, NEW h, s.over = digest(p, i, BoardLeaf, h)
    PROVE  ~ validOnChain(s)
<1>1. /\ Len(p.ins) = 2 /\ p.tx.ins[1].point = MessagePoint(message, BoardScript)
      /\ p.ins[1].witness = Output(BoardScript, 0)
  BY DEF verifyVaultBoardIntentProofShape, intentVerify
<1>2. IsList(p.ins) /\ DOMAIN p.tx.ins = DOMAIN p.ins
  BY Zenon DEF ShownProof, Shown
<1>3. 1 \in DOMAIN p.ins
  BY <1>1, <1>2, ListDomain
<1>4. chainOutput(p.tx.ins[1].point) = ANCHOR
  BY <1>1 DEF chainOutput, MessagePoint
<1>5. Output(BoardScript, 0) # ANCHOR
  <2>1. BoardLeaf \in BoardScript
    BY Zenon DEF BoardScript
  <2>2. Output(BoardScript, 0).script = BoardScript /\ ANCHOR.script = {}
    BY Zenon DEF Output, ANCHOR
  <2> QED
    BY <2>1, <2>2, Zenon
<1>6. s.over.tx = p.tx /\ s.over.prevs[1] = p.ins[1].witness
  BY <1>3 DEF digest
<1> QED
  BY <1>1, <1>2, <1>3, <1>4, <1>5, <1>6, Zenon DEF validOnChain

\* follows, from what ValidateVtxoTree finds.
LEMMA FollowsOutput ==
    ASSUME NEW n, IsTx(n.tx), NEW tx, NEW j \in DOMAIN tx.outs, tx.outs[j].value \in Int,
           Len(n.tx.ins) = 1, n.tx.ins[1].point = OutputPoint(tx, j),
           outTotal(n.tx) = tx.outs[j].value, tx.outs[j].script = BatchScript(n.cosigners, BatchExpiry)
    PROVE  follows(n, tx) /\ spendsOutputOf(n.tx, tx)
<1>1. DOMAIN n.tx.ins = {1}
  BY OneElement, Zenon DEF IsTx
<1>2. [k \in DOMAIN n.tx.ins |-> n.tx.ins[k].point] = <<OutputPoint(tx, j)>>
  BY <1>1
<1>3. outTotal(n.tx) <= tx.outs[j].value
  OBVIOUS
<1>4. follows(n, tx)
  BY <1>2, <1>3, Zenon DEF follows
<1>5. OutputPoint(tx, j)[1] = "output" /\ OutputPoint(tx, j)[2] = tx
  BY Zenon DEF OutputPoint
<1> QED
  BY <1>1, <1>4, <1>5, Zenon DEF spendsOutputOf

\* NewTxTree, ValidateVtxoTree, verifyVaultBoardBatchOutput: every node of a tree
\* that passes can follow the commitment on chain.
LEMMA TreeReached ==
    ASSUME NEW flat, NEW tx, IsTx(tx), ShownTree(flat), ValidateVtxoTree(flat, tx),
           verifyVaultBoardBatchOutput(flat, tx), NEW n \in Range(flat)
    PROVE  Reached(n, flat, tx)
<1> SUFFICES ASSUME NEW R \in SUBSET Range(flat),
                    \A m \in Range(flat) : follows(m, tx) => m \in R,
                    \A m \in R, k \in Range(flat) : follows(k, m.tx) => k \in R,
                    n \notin R
             PROVE  FALSE
  BY Zenon DEF Reached
<1>1. PICK rank \in [treeTxs(flat) -> Nat] : \A t, u \in treeTxs(flat) :
         spendsOutputOf(u, t) => rank[t] < rank[u]
  BY Zenon DEF ShownTree
<1> DEFINE Out == {rank[m.tx] : m \in Range(flat) \ R}
<1>2. \A m \in Range(flat) : m.tx \in treeTxs(flat) /\ rank[m.tx] \in Nat /\ IsTx(m.tx)
  BY <1>1, Zenon DEF treeTxs, ShownTree
<1>3. Out \in SUBSET Nat /\ Out # {}
  BY <1>2, Zenon
<1> HIDE DEF Out
<1>4. Min(Out) \in Out /\ \A x \in Out : Min(Out) <= x
  BY <1>3, LeastOf, Zenon
<1>5. PICK m \in Range(flat) \ R : Min(Out) = rank[m.tx]
  BY <1>4, Zenon DEF Out
<1>6. CASE m \in rootsOf(flat)
  <2>1. /\ Len(m.tx.ins) = 1 /\ m.tx.ins[1].point = OutputPoint(tx, 1)
        /\ tx.outs # <<>> /\ outTotal(m.tx) = tx.outs[1].value
    BY <1>6, Zenon DEF ValidateVtxoTree
  <2>2. tx.outs[1].script = BatchScript(m.cosigners, BatchExpiry)
    BY <1>6, Zenon DEF verifyVaultBoardBatchOutput
  <2>3. 1 \in DOMAIN tx.outs
    BY <2>1 DEF IsTx, IsList
  <2>4. tx.outs[1].value \in Int
    BY <2>3, Zenon DEF IsTx
  <2>5. follows(m, tx)
    BY <1>2, <2>1, <2>2, <2>3, <2>4, FollowsOutput, Zenon
  <2> QED
    BY <2>5, Zenon
<1>7. CASE m \notin rootsOf(flat)
  <2>1. PICK k \in Range(flat) : \E c \in k.children : c[2] = m.tx
    BY <1>7, Zenon DEF rootsOf
  <2>2. PICK c \in k.children : c[2] = m.tx
    BY <2>1, Zenon
  <2>3. /\ c[1] \in DOMAIN k.tx.outs
        /\ Len(c[2].ins) = 1 /\ c[2].ins[1].point = OutputPoint(k.tx, c[1])
        /\ outTotal(c[2]) = k.tx.outs[c[1]].value
        /\ \A l \in Range(flat) : l.tx = c[2] =>
              k.tx.outs[c[1]].script = BatchScript(l.cosigners, BatchExpiry)
    BY Zenon DEF ValidateVtxoTree
  <2> DEFINE j == c[1]
  <2>4. /\ j \in DOMAIN k.tx.outs /\ Len(m.tx.ins) = 1 /\ m.tx.ins[1].point = OutputPoint(k.tx, j)
        /\ outTotal(m.tx) = k.tx.outs[j].value
        /\ k.tx.outs[j].script = BatchScript(m.cosigners, BatchExpiry)
    BY <2>2, <2>3, Zenon
  <2>5. k.tx.outs[j].value \in Int
    BY <1>2, <2>4, Zenon DEF IsTx
  <2> HIDE DEF j
  <2>6. follows(m, k.tx) /\ spendsOutputOf(m.tx, k.tx)
    BY <1>2, <2>4, <2>5, FollowsOutput, Zenon
  <2>7. rank[k.tx] < rank[m.tx]
    BY <1>1, <1>2, <2>6, Zenon
  <2>8. k \in R
    <3> SUFFICES ASSUME k \notin R PROVE FALSE
      OBVIOUS
    <3>1. rank[k.tx] \in Out
      BY Zenon DEF Out
    <3>2. rank[m.tx] <= rank[k.tx]
      BY <1>4, <1>5, <3>1, Zenon
    <3>3. rank[m.tx] \in Nat /\ rank[k.tx] \in Nat
      BY <1>2, Zenon
    <3> QED
      BY <2>7, <3>2, <3>3
  <2> QED
    BY <2>6, <2>8, Zenon
<1> QED
  BY <1>6, <1>7, Zenon

\* The output j of n is the only one of a leaf that pays the vault, and pays it
\* the given amount.
IsReceiver(flat, a, n, j) ==
    /\ n.tx.outs[j].script = PolicyScript /\ n.tx.outs[j].value = a
    /\ \A m \in Range(flat) : \A k \in DOMAIN m.tx.outs :
          m.children = {} /\ m.tx.outs[k].script = PolicyScript => m.tx = n.tx /\ k = j
HasReceiver(flat, a) ==
    \E n \in Range(flat) : \E j \in DOMAIN n.tx.outs : IsReceiver(flat, a, n, j)

\* A tree has finitely many outputs.
LEMMA FiniteOutputs ==
    ASSUME NEW flat, ShownTree(flat), NEW L \in SUBSET Range(flat)
    PROVE  IsFiniteSet(UNION {{<<n.tx, j>> : j \in DOMAIN n.tx.outs} : n \in L})
<1> DEFINE outs == [n \in L |-> {<<n.tx, j>> : j \in DOMAIN n.tx.outs}]
<1>1. IsFiniteSet(L)
  <2>1. IsFiniteSet(Range(flat))
    BY RangeFinite, Zenon DEF ShownTree
  <2> QED
    BY <2>1, FS_Subset, Zenon
<1>2. ASSUME NEW n \in L PROVE IsFiniteSet(outs[n])
  <2> DEFINE at == [j \in DOMAIN n.tx.outs |-> <<n.tx, j>>]
  <2>1. IsFiniteSet(DOMAIN n.tx.outs)
    BY ListDomain, Zenon DEF ShownTree, IsTx
  <2>2. IsFiniteSet({at[j] : j \in DOMAIN n.tx.outs})
    <3> HIDE DEF at
    <3> QED
      BY <2>1, ImageFinite, Zenon
  <2>3. outs[n] = {at[j] : j \in DOMAIN n.tx.outs}
    BY Zenon
  <2> QED
    BY <2>2, <2>3, Zenon
<1>3. IsFiniteSet({outs[n] : n \in L}) /\ \A T \in {outs[n] : n \in L} : IsFiniteSet(T)
  <2> HIDE DEF outs
  <2> QED
    BY <1>1, <1>2, ImageFinite, Zenon
<1>4. IsFiniteSet(UNION {outs[n] : n \in L})
  <2> HIDE DEF outs
  <2> QED
    BY <1>3, FS_UNION, Zenon
<1>5. {outs[n] : n \in L} = {{<<n.tx, j>> : j \in DOMAIN n.tx.outs} : n \in L}
  BY Zenon
<1> QED
  BY <1>4, <1>5, Zenon

\* findExactVaultBoardReceiver finds one output of the leaves.
LEMMA ReceiverFound ==
    ASSUME NEW flat, ShownTree(flat), NEW a, findExactVaultBoardReceiver(flat, a)
    PROVE  HasReceiver(flat, a)
<1> DEFINE leaves == {n \in Range(flat) : n.children = {}}
           found == UNION {{<<n.tx, j>> : j \in DOMAIN n.tx.outs} : n \in leaves}
           hits == {f \in found : f[1].outs[f[2]].script = PolicyScript}
<1>1. Cardinality(hits) = 1 /\ \A f \in hits : f[1].outs[f[2]].value = a
  BY Zenon DEF findExactVaultBoardReceiver
<1>2. PICK f : hits = {f}
  <2>1. IsFiniteSet(found)
    BY FiniteOutputs, Zenon
  <2>2. hits \in SUBSET found
    BY Zenon
  <2> HIDE DEF hits, found
  <2>3. IsFiniteSet(hits)
    BY <2>1, <2>2, FS_Subset, Zenon
  <2>4. \E x : hits = {x}
    BY <1>1, <2>3, FS_Singleton, Zenon
  <2> QED
    BY <2>4, Zenon
<1>3. f \in found /\ f[1].outs[f[2]].script = PolicyScript /\ f[1].outs[f[2]].value = a
  BY <1>1, <1>2, Zenon
<1>4. PICK n \in Range(flat) : \E j \in DOMAIN n.tx.outs : f = <<n.tx, j>>
  BY <1>3, Zenon
<1>5. PICK j \in DOMAIN n.tx.outs : f = <<n.tx, j>>
  BY <1>4, Zenon
<1>6. f[1] = n.tx /\ f[2] = j
  BY <1>5, Zenon
<1>7. ASSUME NEW m \in Range(flat), NEW k \in DOMAIN m.tx.outs, m.children = {},
             m.tx.outs[k].script = PolicyScript
      PROVE  m.tx = n.tx /\ k = j
  <2>1. <<m.tx, k>> \in found
    <3> DEFINE of == {<<m.tx, i>> : i \in DOMAIN m.tx.outs}
    <3>1. <<m.tx, k>> \in of
      BY Zenon
    <3>2. m \in leaves
      BY <1>7, Zenon
    <3>3. of \in {{<<l.tx, i>> : i \in DOMAIN l.tx.outs} : l \in leaves}
      BY <3>2, Zenon
    <3> HIDE DEF of
    <3> QED
      BY <3>1, <3>3, Zenon
  <2>2. <<m.tx, k>>[1] = m.tx /\ <<m.tx, k>>[2] = k
    BY Zenon
  <2>3. <<m.tx, k>> \in hits
    BY <1>7, <2>1, <2>2, Zenon
  <2>4. <<m.tx, k>> = f
    BY <1>2, <2>3, Zenon
  <2> QED
    BY <1>6, <2>2, <2>4, Zenon
<1>8. IsReceiver(flat, a, n, j)
  BY <1>3, <1>6, <1>7, Zenon DEF IsReceiver
<1> QED
  BY <1>8, Zenon DEF HasReceiver

\* verifyVaultBoardFinal: what the signature of the boarding input is good for.
LEMMA CommitmentBoards ==
    ASSUME NEW e, ShownCommitment(e.packet), ShownTree(e.tree), verifyVaultBoardFinal(e),
           board.receiver = BoardValue - BoardFee,
           NEW s, NEW h, s.over = digest(e.packet, e.index, BoardLeaf, h), validOnChain(s)
    PROVE  boardsOwnCoin(s) /\ PaysVault(e.tree, s.over.tx)
<1> DEFINE p == e.packet
           tx == e.packet.tx
<1>1. /\ s.over.tx = tx /\ s.over.idx = e.index
      /\ \A i \in DOMAIN p.ins : s.over.prevs[i] = p.ins[i].witness
  BY DEF digest
<1>2. IsTx(tx) /\ DOMAIN tx.ins = DOMAIN p.ins
  BY Zenon DEF ShownCommitment, Shown
<1>3. \A i \in DOMAIN tx.ins : p.ins[i].witness = chainOutput(tx.ins[i].point)
  BY <1>1, <1>2, Zenon DEF validOnChain
<1>4. /\ e.index \in DOMAIN tx.ins /\ tx.ins[e.index].point = boardPoint
      /\ \A i \in DOMAIN p.ins \ {e.index} : p.ins[i].witness.script # BoardScript
      /\ p.ins[e.index].witness = Output(BoardScript, BoardValue)
      /\ tx = e.unsigned /\ e.amount = board.receiver
      /\ ValidateVtxoTree(e.tree, e.unsigned) /\ verifyVaultBoardBatchOutput(e.tree, e.unsigned)
      /\ findExactVaultBoardReceiver(e.tree, e.amount)
  BY Zenon DEF verifyVaultBoardFinal, vaultBoardOutpointMatches
<1>5. p.ins[e.index].witness.script = BoardScript
  BY <1>4 DEF Output
<1>6. {i \in DOMAIN tx.ins : chainOutput(tx.ins[i].point).script = BoardScript} = {e.index}
  BY <1>2, <1>3, <1>4, <1>5, Zenon
<1>7. boardsOwnCoin(s)
  BY <1>1, <1>4, <1>6, Zenon DEF boardsOwnCoin
<1>8. PICK n \in Range(e.tree) : \E j \in DOMAIN n.tx.outs : IsReceiver(e.tree, e.amount, n, j)
  <2>1. HasReceiver(e.tree, e.amount)
    BY <1>4, ReceiverFound, Zenon
  <2> QED
    BY <2>1, Zenon DEF HasReceiver
<1>9. Reached(n, e.tree, tx)
  BY <1>2, <1>4, TreeReached, Zenon
<1>10. PaysVault(e.tree, tx)
  BY <1>4, <1>8, <1>9, Zenon DEF PaysVault, IsReceiver
<1> QED
  BY <1>1, <1>7, <1>10, Zenon

\* Fields of the boarding exchanged.
LEMMA BoardWith ==
    ASSUME NEW b, b = [state |-> b.state, receiver |-> b.receiver, fee |-> b.fee,
                       tree |-> b.tree, released |-> b.released],
           NEW w, NEW r, NEW tr, NEW n,
           \/ n = [b EXCEPT !.state = w, !.released = r] /\ tr = b.tree
           \/ n = [b EXCEPT !.state = w, !.tree = tr, !.released = r]
    PROVE  n = [state |-> w, receiver |-> b.receiver, fee |-> b.fee, tree |-> tr, released |-> r]
OBVIOUS

\* The boarding's record and its fields.
LEMMA BoardFields ==
    ASSUME NEW n, NEW w, NEW v, NEW x, NEW tr, NEW r,
           n = [state |-> w, receiver |-> v, fee |-> x, tree |-> tr, released |-> r]
    PROVE  /\ n.state = w /\ n.receiver = v /\ n.fee = x /\ n.tree = tr /\ n.released = r
           /\ n = [state |-> n.state, receiver |-> n.receiver, fee |-> n.fee,
                   tree |-> n.tree, released |-> n.released]
OBVIOUS

\* registerVaultBoard keeps BoardInv.
LEMMA RegisterKeeps ==
    ASSUME BoardInv, NEW p, ShownProof(p), registerVaultBoard(p)
    PROVE  BoardInv'
<1> DEFINE receiver == p.tx.outs[1].value
           out == authorizeVaultBoard(p, {1, 2}, SigHashAll)
<1>1. /\ board.state = "prepared" /\ verifyVaultBoardRegisterProof(p) /\ requireVaultBoardFee(receiver)
      /\ board' = [state |-> "registered", receiver |-> receiver, fee |-> BoardValue - receiver,
                   tree |-> <<>>, released |-> out]
  BY Zenon DEF registerVaultBoard
<1>2. receiver = BoardValue - BoardFee
  <2>1. receiver \in BoardDust..BoardValue /\ BoardValue - receiver = BoardFee
    BY <1>1, Zenon DEF requireVaultBoardFee
  <2> HIDE DEF receiver
  <2> QED
    BY <2>1, BoardAssumption
<1>3. \A s \in out : ~ validOnChain(s)
  <2> SUFFICES ASSUME NEW s \in out PROVE ~ validOnChain(s)
    BY Zenon
  <2>1. board.released = {}
    BY <1>1, Zenon DEF BoardInv
  <2>2. MadeFor(s, p, {1, 2}, SigHashAll)
    BY <2>1, BoardReleases, Zenon
  <2>3. verifyVaultBoardIntentProofShape(p, RegisterMessage(ExpireAt))
    BY <1>1, Zenon DEF verifyVaultBoardRegisterProof
  <2> QED
    BY <2>2, <2>3, ProofUnpublishable, Zenon DEF MadeFor
<1> HIDE DEF receiver, out
<1>4. /\ board'.state = "registered" /\ board'.receiver = receiver /\ board'.released = out
      /\ board' = [state |-> board'.state, receiver |-> board'.receiver, fee |-> board'.fee,
                   tree |-> board'.tree, released |-> board'.released]
  BY <1>1, BoardFields, Zenon
<1> QED
  BY <1>2, <1>3, <1>4, Zenon DEF BoardInv, BoardingPays

\* releaseVaultBoard keeps BoardInv.
LEMMA ReleaseKeeps ==
    ASSUME BoardInv, NEW p, ShownProof(p), releaseVaultBoard(p)
    PROVE  BoardInv'
<1> DEFINE out == board.released \cup authorizeVaultBoard(p, {1, 2}, SigHashAll)
<1>1. /\ board.state = "registered" /\ verifyVaultBoardDeleteProof(p)
      /\ board' = [board EXCEPT !.state = "released", !.released = out]
  BY Zenon DEF releaseVaultBoard
<1>2. /\ board = [state |-> board.state, receiver |-> board.receiver, fee |-> board.fee,
                  tree |-> board.tree, released |-> board.released]
      /\ board.receiver = BoardValue - BoardFee
      /\ \A s \in board.released : ~ validOnChain(s)
  BY <1>1, Zenon DEF BoardInv
<1>3. \A s \in out : ~ validOnChain(s)
  <2> SUFFICES ASSUME NEW s \in out, s \notin board.released PROVE ~ validOnChain(s)
    BY <1>2, Zenon
  <2>1. s \in authorizeVaultBoard(p, {1, 2}, SigHashAll)
    BY Zenon
  <2>2. MadeFor(s, p, {1, 2}, SigHashAll)
    BY <2>1, BoardReleases, Zenon
  <2>3. verifyVaultBoardIntentProofShape(p, DeleteMessage(ExpireAt))
    BY <1>1, Zenon DEF verifyVaultBoardDeleteProof
  <2> QED
    BY <2>2, <2>3, ProofUnpublishable, Zenon DEF MadeFor
<1> HIDE DEF out
<1>4. board' = [state |-> "released", receiver |-> board.receiver, fee |-> board.fee,
                tree |-> board.tree, released |-> out]
  BY <1>1, <1>2, BoardWith, Zenon
<1>5. /\ board'.state = "released" /\ board'.receiver = board.receiver /\ board'.released = out
      /\ board' = [state |-> board'.state, receiver |-> board'.receiver, fee |-> board'.fee,
                   tree |-> board'.tree, released |-> board'.released]
  BY <1>4, BoardFields, Zenon
<1> QED
  BY <1>2, <1>3, <1>5, Zenon DEF BoardInv, BoardingPays

\* submitVaultBoardCommitment keeps BoardInv.
LEMMA CommitmentKeeps ==
    ASSUME BoardInv, NEW e, ShownCommitment(e.packet), ShownTree(e.tree),
           submitVaultBoardCommitment(e)
    PROVE  BoardInv'
<1> DEFINE more == authorizeVaultBoard(e.packet, {e.index}, SigHashDefault)
           out == board.released \cup more
<1>1. /\ board.state = "registered" /\ verifyVaultBoardFinal(e)
      /\ board' = [board EXCEPT !.state = "committed", !.tree = e.tree, !.released = out]
  BY Zenon DEF submitVaultBoardCommitment
<1>2. /\ board = [state |-> board.state, receiver |-> board.receiver, fee |-> board.fee,
                  tree |-> board.tree, released |-> board.released]
      /\ board.receiver = BoardValue - BoardFee
      /\ \A s \in board.released : ~ validOnChain(s)
  BY <1>1, Zenon DEF BoardInv
<1>3. ASSUME NEW s \in out, validOnChain(s)
      PROVE  boardsOwnCoin(s) /\ PaysVault(e.tree, s.over.tx)
  <2>1. s \in more /\ s \notin board.released
    BY <1>2, <1>3, Zenon
  <2>2. MadeFor(s, e.packet, {e.index}, SigHashDefault)
    BY <2>1, BoardReleases, Zenon
  <2>3. s.over = digest(e.packet, e.index, BoardLeaf, SigHashDefault)
    BY <2>2, Zenon DEF MadeFor
  <2> QED
    BY <1>1, <1>2, <1>3, <2>3, CommitmentBoards, Zenon
<1> HIDE DEF out
<1>4. board' = [state |-> "committed", receiver |-> board.receiver, fee |-> board.fee,
                tree |-> e.tree, released |-> out]
  BY <1>1, <1>2, BoardWith, Zenon
<1>5. /\ board'.state = "committed" /\ board'.receiver = board.receiver /\ board'.released = out
      /\ board'.tree = e.tree
      /\ board' = [state |-> board'.state, receiver |-> board'.receiver, fee |-> board'.fee,
                   tree |-> board'.tree, released |-> board'.released]
  BY <1>4, BoardFields, Zenon
<1>6. BoardingPays'
  BY <1>3, <1>5, Zenon DEF BoardingPays
<1> QED
  BY <1>2, <1>5, <1>6, Zenon DEF BoardInv

\* BoardInv always holds.
LEMMA BoardHolds == AnyBoardSpec => []BoardInv
<1>1. BoardInit => BoardInv
  <2> SUFFICES ASSUME BoardInit PROVE BoardInv
    OBVIOUS
  <2>1. board.state = "prepared" /\ board.released = {}
    BY DEF BoardInit
  <2> QED
    BY <2>1, Zenon DEF BoardInv, BoardingPays
<1>2. BoardInv /\ [AnyBoardNext]_board => BoardInv'
  <2> SUFFICES ASSUME BoardInv, [AnyBoardNext]_board PROVE BoardInv'
    OBVIOUS
  <2>1. CASE UNCHANGED board
    BY <2>1, Zenon DEF BoardInv, BoardingPays
  <2>2. ASSUME NEW p, ShownProof(p), registerVaultBoard(p) PROVE BoardInv'
    BY <2>2, RegisterKeeps, Zenon
  <2>3. ASSUME NEW p, ShownProof(p), releaseVaultBoard(p) PROVE BoardInv'
    BY <2>3, ReleaseKeeps, Zenon
  <2>4. ASSUME NEW e, ShownCommitment(e.packet), ShownTree(e.tree), submitVaultBoardCommitment(e)
        PROVE  BoardInv'
    BY <2>4, CommitmentKeeps, Zenon
  <2> QED
    BY <2>1, <2>2, <2>3, <2>4, Zenon DEF AnyBoardNext
<1> QED
  BY <1>1, <1>2, PTL DEF AnyBoardSpec

\* registerVaultBoard, releaseVaultBoard, submitVaultBoardCommitment: whatever
\* proofs, commitments and trees come in, of whatever depth, a signature of the
\* boarding cosigner that the chain accepts spends this coin and no other of the
\* boarding address, and a transaction that can follow below pays the vault the
\* coin's value less the fee, once.
THEOREM BoardingsPay == AnyBoardSpec => []BoardingPays
<1>1. BoardInv => BoardingPays
  BY Zenon DEF BoardInv
<1> QED
  BY <1>1, BoardHolds, PTL
=============================================================================
