-------------------------- MODULE SpendPacketProofs --------------------------
(***************************************************************************)
(* What the VTXO cosigner signs in a spend, for every packet a wallet or   *)
(* an Operator can hand in, on top of what CoinSelectionProofs shows of    *)
(* the quote. The invariant says that every transaction a released         *)
(* signature is over moves coins of the quote to their checkpoints, pays   *)
(* exactly what was quoted, or is a message that no chain accepts; and     *)
(* that the packets of the row are signed as far as its state says.        *)
(***************************************************************************)
EXTENDS SpendPackets, CoinSelectionProofs, PacketProofs

-----------------------------------------------------------------------------
(* Spends: SpendPackets with any wallet and any Operator. *)

Packets(s) == IsList(s) /\ \A i \in DOMAIN s : IsPacket(s[i])

\* SpendNext, with every packet that can be decoded in place of the ones listed.
AnySpendNext ==
    \/ Next /\ UNCHANGED packetVars
    \/ ReserveVtxo
    \/ \E ark, cps, proof :
          /\ IsPacket(ark) /\ IsPacket(proof) /\ Packets(cps)
          /\ AuthorizeVtxoSpend(ark, cps, proof)
    \/ \E cands : Packets(cands) /\ AuthorizeVtxoCheckpoints(cands)

AnySpendSpec == SpendInit /\ [][AnySpendNext]_<<vars, packetVars>>

\* The packet shows every coin as the ledger knows it.
ShowsCoins(p) ==
    /\ DOMAIN p.tx.ins = DOMAIN p.ins
    /\ \A i \in DOMAIN p.ins : p.ins[i].witness = chainOutput(p.tx.ins[i].point)

\* signExactArkStage: one signature of the key on each input, nothing else.
Cosigned(p, q, key, leaf, sighash) ==
    /\ q.tx = p.tx /\ DOMAIN q.ins = DOMAIN p.ins /\ Len(q.ins) = Len(p.ins)
    /\ \A i \in DOMAIN p.ins :
          q.ins[i].sigs = Append(p.ins[i].sigs, signTapLeafAtWithSighash(p, i, key, leaf, sighash))

\* signExactArkStage adds one signature to each input.
LEMMA StageSigned ==
    ASSUME NEW p, IsPacket(p), NEW key, NEW leaf, NEW h
    PROVE  Cosigned(p, signExactArkStage(p, key, leaf, h), key, leaf, h)
<1> DEFINE more(i) == Append(p.ins[i].sigs, signTapLeafAtWithSighash(p, i, key, leaf, h))
           ins == [i \in DOMAIN p.ins |-> [p.ins[i] EXCEPT !.sigs = more(i)]]
           q == signExactArkStage(p, key, leaf, h)
<1>1. q = [p EXCEPT !.ins = ins]
  BY Zenon DEF signExactArkStage, signInputs
<1>2. p = [tx |-> p.tx, ins |-> p.ins, extra |-> p.extra] /\ IsList(p.ins)
  BY DEF IsPacket
<1>3. Len(p.ins) \in Nat /\ DOMAIN p.ins = 1..Len(p.ins)
  BY <1>2, ListDomain, Zenon
<1>4. DOMAIN ins = DOMAIN p.ins /\ ins \in [1..Len(p.ins) -> Range(ins)]
  BY <1>3, Zenon DEF Range
<1>5. Len(ins) = Len(p.ins)
  <2> HIDE DEF ins
  <2> QED
    BY <1>3, <1>4, FunctionIsList, Zenon
<1>6. ASSUME NEW i \in DOMAIN p.ins PROVE ins[i].sigs = more(i)
  <2>1. IsInput(p.ins[i])
    BY Zenon DEF IsPacket
  <2>2. ins[i] = [p.ins[i] EXCEPT !.sigs = more(i)]
    OBVIOUS
  <2> HIDE DEF more, ins
  <2> QED
    BY <2>1, <2>2, InputWith
<1> HIDE DEF ins, q
<1>7. q.tx = p.tx /\ q.ins = ins
  BY <1>1, <1>2, PacketWith, Zenon
<1> QED
  BY <1>4, <1>5, <1>6, <1>7, Zenon DEF Cosigned, q

\* The signatures of the cosigner in a packet it has signed are the ones it added,
\* when the others are verified to be of other keys.
LEMMA OwnSignatures ==
    ASSUME NEW p, IsPacket(p), NEW q, NEW key, NEW leaf, NEW h, Cosigned(p, q, key, leaf, h),
           \A i \in DOMAIN p.ins : \A s \in Range(p.ins[i].sigs) : s.by # key
    PROVE  \A s \in cosignaturesOf(q, key) : s.over.tx = p.tx
<1> SUFFICES ASSUME NEW s \in cosignaturesOf(q, key) PROVE s.over.tx = p.tx
  OBVIOUS
<1>1. PICK i \in DOMAIN p.ins : s \in Range(q.ins[i].sigs) /\ s.by = key
  BY Zenon DEF cosignaturesOf, Cosigned
<1>2. IsList(p.ins[i].sigs)
  BY Zenon DEF IsPacket, IsInput
<1> DEFINE z == signTapLeafAtWithSighash(p, i, key, leaf, h)
<1>3. q.ins[i].sigs = Append(p.ins[i].sigs, z)
  BY Zenon DEF Cosigned
<1>4. Range(q.ins[i].sigs) = Range(p.ins[i].sigs) \cup {z}
  <2> HIDE DEF z
  <2>1. Range(Append(p.ins[i].sigs, z)) = Range(p.ins[i].sigs) \cup {z}
    BY <1>2, Appended, Zenon
  <2> QED
    BY <1>3, <2>1, Zenon
<1>5. s = z
  BY <1>1, <1>4, Zenon
<1> QED
  BY <1>5, Zenon DEF signTapLeafAtWithSighash, digest

\* requireVerifiedSignersWithSighash: signatures of nobody else.
LEMMA VerifiedOthers ==
    ASSUME NEW p, NEW i, NEW signers, NEW leaf, NEW h,
           requireVerifiedSignersWithSighash(p, i, signers, leaf, h),
           NEW key, key \notin signers
    PROVE  \A s \in Range(p.ins[i].sigs) : s.by # key
BY DEF requireVerifiedSignersWithSighash, verifySchnorrOnInputWithSighash, Range

\* A signature over a packet that shows its coins is valid.
LEMMA ValidOver ==
    ASSUME NEW p, ShowsCoins(p), NEW s, NEW i, NEW leaf, NEW h, s.over = digest(p, i, leaf, h)
    PROVE  s.over.tx = p.tx /\ s.over.idx = i /\ validOnChain(s)
BY DEF ShowsCoins, digest, validOnChain

\* requireVerifiedSignersWithSighash: as many signatures as signers.
LEMMA VerifiedCount ==
    ASSUME NEW p, IsPacket(p), NEW i \in DOMAIN p.ins, NEW signers, NEW leaf, NEW h,
           requireVerifiedSignersWithSighash(p, i, signers, leaf, h)
    PROVE  Len(p.ins[i].sigs) = Cardinality(signers)
<1> DEFINE sigs == p.ins[i].sigs
           keys == [j \in DOMAIN sigs |-> sigs[j].key]
<1>1. IsList(sigs)
  BY Zenon DEF IsPacket, IsInput
<1>2. Len(sigs) \in Nat /\ DOMAIN sigs = 1..Len(sigs)
  BY <1>1, ListDomain, Zenon
<1>3. /\ \A j \in DOMAIN sigs : \A k \in 1..(j - 1) : sigs[k].key # sigs[j].key
      /\ {sigs[j].key : j \in DOMAIN sigs} = signers
  BY Zenon DEF requireVerifiedSignersWithSighash
<1>4. Range(keys) = signers
  BY <1>3, Zenon DEF Range
<1> HIDE DEF sigs
<1>5. IsInjective(keys)
  <2>1. ASSUME NEW j \in DOMAIN sigs, NEW k \in DOMAIN sigs, j # k PROVE keys[j] # keys[k]
    <3>1. j \in 1..(k - 1) \/ k \in 1..(j - 1)
      BY <1>2, <2>1
    <3> QED
      BY <1>3, <3>1, Zenon
  <2> QED
    BY <2>1, Zenon DEF IsInjective
<1>6. keys \in [1..Len(sigs) -> Range(keys)]
  BY <1>2, Zenon DEF Range
<1> HIDE DEF keys
<1>7. IsList(keys) /\ Len(keys) = Len(sigs)
  BY <1>2, <1>6, FunctionIsList, Zenon DEF IsList
<1> QED
  BY <1>4, <1>5, <1>7, CoinCount, Zenon DEF sigs

\* signExactArkStage: a packet that its signers have signed is fully signed with
\* the cosigner's signature.
LEMMA FullySigned ==
    ASSUME NEW p, IsPacket(p), ShowsCoins(p), NEW i \in DOMAIN p.ins,
           NEW signers, IsFiniteSet(signers), NEW leaf, NEW h,
           requireVerifiedSignersWithSighash(p, i, signers, leaf, h),
           NEW key, key \notin signers, NEW q, Cosigned(p, q, key, leaf, h)
    PROVE  fullySigned(q, i, signers \cup {key})
<1> DEFINE z == signTapLeafAtWithSighash(p, i, key, leaf, h)
           sigs == p.ins[i].sigs
<1>1. IsList(sigs)
  BY Zenon DEF IsPacket, IsInput
<1>2. q.ins[i].sigs = Append(sigs, z) /\ q.tx = p.tx
  BY Zenon DEF Cosigned
<1>3. Range(q.ins[i].sigs) = Range(sigs) \cup {z} /\ Len(q.ins[i].sigs) = Len(sigs) + 1
  <2> HIDE DEF z, sigs
  <2>1. Range(Append(sigs, z)) = Range(sigs) \cup {z} /\ Len(Append(sigs, z)) = Len(sigs) + 1
    BY <1>1, Appended, Zenon
  <2> QED
    BY <1>2, <2>1, Zenon
<1>4. Cardinality(signers \cup {key}) = Cardinality(signers) + 1
  BY FS_AddElement, Zenon
<1>5. Len(q.ins[i].sigs) = Cardinality(signers \cup {key})
  BY <1>3, <1>4, VerifiedCount, Zenon
<1>6. z.by = key /\ z.over = digest(p, i, leaf, h)
  BY Zenon DEF signTapLeafAtWithSighash
<1> HIDE DEF z
<1>7. z.over.tx = p.tx /\ z.over.idx = i /\ validOnChain(z)
  BY <1>6, ValidOver
<1>8. ASSUME NEW k \in signers
      PROVE  \E s \in Range(sigs) : s.by = k /\ s.over.tx = p.tx /\ s.over.idx = i /\ validOnChain(s)
  <2>1. PICK j \in DOMAIN sigs : sigs[j].key = k
    BY <1>8, Zenon DEF requireVerifiedSignersWithSighash
  <2>2. sigs[j].by = k /\ sigs[j].over = digest(p, i, leaf, h)
    BY <2>1, Zenon DEF requireVerifiedSignersWithSighash, verifySchnorrOnInputWithSighash
  <2>3. sigs[j] \in Range(sigs)
    BY Zenon DEF Range
  <2> HIDE DEF sigs
  <2>4. sigs[j].over.tx = p.tx /\ sigs[j].over.idx = i /\ validOnChain(sigs[j])
    BY <2>2, ValidOver
  <2> QED
    BY <2>2, <2>3, <2>4, Zenon
<1> HIDE DEF sigs
<1> QED
  BY <1>2, <1>3, <1>5, <1>6, <1>7, <1>8, Zenon DEF fullySigned

\* What an output pays to a script.
share(out, script) == IF out.script = script THEN out.value ELSE 0

\* Sums over two outputs.
LEMMA PaidTwo ==
    ASSUME NEW t, IsTx(t), Len(t.outs) = 2, NEW script
    PROVE  /\ paid(t, script) = share(t.outs[1], script) + share(t.outs[2], script)
           /\ outTotal(t) = t.outs[1].value + t.outs[2].value
<1> DEFINE f == [j \in DOMAIN t.outs |-> IF t.outs[j].script = script THEN t.outs[j].value ELSE 0]
           g == [j \in DOMAIN t.outs |-> t.outs[j].value]
<1>1. DOMAIN t.outs = 1..2
  BY ListDomain, Zenon DEF IsTx
<1>2. t.outs[1].value \in Int /\ t.outs[2].value \in Int
  BY <1>1 DEF IsTx
<1>3. f[1] = share(t.outs[1], script) /\ f[2] = share(t.outs[2], script) /\ f[1] \in Int /\ f[2] \in Int
  BY <1>1, <1>2 DEF share
<1>4. g[1] = t.outs[1].value /\ g[2] = t.outs[2].value
  BY <1>1
<1>5. paid(t, script) = SumFunction(f) /\ outTotal(t) = SumFunction(g)
  BY Zenon DEF paid, outTotal
<1>6. DOMAIN f = 1..2 /\ DOMAIN g = 1..2
  BY <1>1, Zenon
<1> HIDE DEF f, g
<1>7. SumFunction(f) = Total(f, 1..2) /\ SumFunction(g) = Total(g, 1..2)
  BY <1>6, SumIsTotal, Zenon
<1>8. Total(f, 1..2) = f[1] + f[2]
  BY <1>3, SumTwo, Zenon
<1>9. Total(g, 1..2) = g[1] + g[2]
  <2>1. g[1] \in Int /\ g[2] \in Int
    BY <1>2, <1>4, Zenon
  <2> QED
    BY <2>1, SumTwo, Zenon
<1> QED
  BY <1>3, <1>4, <1>5, <1>7, <1>8, <1>9, Zenon

\* Sums over three outputs.
LEMMA PaidThree ==
    ASSUME NEW t, IsTx(t), Len(t.outs) = 3, NEW script
    PROVE  /\ paid(t, script) = share(t.outs[1], script) + share(t.outs[2], script)
                                  + share(t.outs[3], script)
           /\ outTotal(t) = t.outs[1].value + t.outs[2].value + t.outs[3].value
<1> DEFINE f == [j \in DOMAIN t.outs |-> IF t.outs[j].script = script THEN t.outs[j].value ELSE 0]
           g == [j \in DOMAIN t.outs |-> t.outs[j].value]
<1>1. DOMAIN t.outs = 1..3
  BY ListDomain, Zenon DEF IsTx
<1>2. t.outs[1].value \in Int /\ t.outs[2].value \in Int /\ t.outs[3].value \in Int
  BY <1>1 DEF IsTx
<1>3. /\ f[1] = share(t.outs[1], script) /\ f[2] = share(t.outs[2], script)
      /\ f[3] = share(t.outs[3], script)
      /\ f[1] \in Int /\ f[2] \in Int /\ f[3] \in Int
  BY <1>1, <1>2 DEF share
<1>4. g[1] = t.outs[1].value /\ g[2] = t.outs[2].value /\ g[3] = t.outs[3].value
  BY <1>1
<1>5. paid(t, script) = SumFunction(f) /\ outTotal(t) = SumFunction(g)
  BY Zenon DEF paid, outTotal
<1>6. DOMAIN f = 1..3 /\ DOMAIN g = 1..3
  BY <1>1, Zenon
<1> HIDE DEF f, g
<1>7. SumFunction(f) = Total(f, 1..3) /\ SumFunction(g) = Total(g, 1..3)
  BY <1>6, SumIsTotal, Zenon
<1>8. Total(f, 1..3) = f[1] + f[2] + f[3]
  BY <1>3, SumThree, Zenon
<1>9. Total(g, 1..3) = g[1] + g[2] + g[3]
  <2>1. g[1] \in Int /\ g[2] \in Int /\ g[3] \in Int
    BY <1>2, <1>4, Zenon
  <2> QED
    BY <2>1, SumThree, Zenon
<1> QED
  BY <1>3, <1>4, <1>5, <1>7, <1>8, <1>9, Zenon

\* What one input brings in.
LEMMA OneInput ==
    ASSUME NEW t, DOMAIN t.ins = {1}, chainOutput(t.ins[1].point).value \in Int
    PROVE  inTotal(t) = chainOutput(t.ins[1].point).value
<1> DEFINE f == [i \in DOMAIN t.ins |-> chainOutput(t.ins[i].point).value]
<1>1. inTotal(t) = SumFunction(f) /\ DOMAIN f = {1} /\ f[1] = chainOutput(t.ins[1].point).value
  BY Zenon DEF inTotal
<1> HIDE DEF f
<1>2. SumFunction(f) = Total(f, {1})
  BY <1>1, SumIsTotal, Zenon
<1>3. Total(f, {1}) = f[1]
  <2>1. f[1] \in Int
    BY <1>1, Zenon
  <2> QED
    BY <2>1, SumOne, Zenon
<1> QED
  BY <1>1, <1>2, <1>3, Zenon

\* The scripts that a spend may pay to are different ones.
LEMMA ScriptsDiffer ==
    /\ Recipient # PolicyScript /\ ANCHOR.value = 0
    /\ User = "phone" /\ User # Cosigner /\ Operator # Cosigner
<1>1. <<"recipient">> \in Recipient
  BY Zenon DEF Recipient
<1>2. <<"recipient">> \notin PolicyScript
  BY Zenon DEF PolicyScript, SpendLeaf, ExitLeaf, DelegateLeaf
<1>3. ANCHOR.value = 0
  BY Zenon DEF ANCHOR, Output
<1>4. User = "phone"
  BY Zenon DEF User, firstLeafPub, SpendLeaf
<1> QED
  BY <1>1, <1>2, <1>3, <1>4, Zenon DEF Cosigner, Operator

\* What the signatures that left may let a transaction do: PaymentFollowsQuote's
\* two cases, and a message, which nobody can publish.
MovesInputs(t, inputs) ==
    /\ \A i \in DOMAIN t.ins : t.ins[i].point \in {pointOf(c) : c \in Range(inputs)}
    /\ paid(t, CheckpointScript) = inTotal(t)
PaysQuote(t, o) ==
    /\ paid(t, Recipient) = o.amount
    /\ paid(t, PolicyScript) = o.change
    /\ outTotal(t) = o.amount + o.change
    /\ inTotal(t) = outTotal(t) + o.fee
IsMessage(t) == \E i \in DOMAIN t.ins : t.ins[i].point[1] = "message"
Allowed(t, o) == MovesInputs(t, o.inputs) \/ PaysQuote(t, o) \/ IsMessage(t)

\* The checkpoint of coin c: its one input and its outputs.
IsCheckpoint(p, c) ==
    /\ Len(p.tx.ins) = 1 /\ Len(p.ins) = 1
    /\ p.tx.ins[1].point = pointOf(c)
    /\ p.ins[1].witness.value = Value[c] /\ p.ins[1].witness.script = PolicyScript
    /\ Len(p.tx.outs) = 2
    /\ p.tx.outs[1] = Output(CheckpointScript, Value[c]) /\ p.tx.outs[2] = ANCHOR

\* verifyUnsignedCheckpointPSBT, verifySubmittedCheckpointPSBT
LEMMA CheckpointsVerified ==
    ASSUME NEW p, IsPacket(p), NEW c
    PROVE  /\ verifyUnsignedCheckpointPSBT(p, c) => IsCheckpoint(p, c)
           /\ verifySubmittedCheckpointPSBT(p, c) => IsCheckpoint(p, c)
<1>1. verifyUnsignedCheckpointPSBT(p, c) => IsCheckpoint(p, c)
  BY Zenon DEF verifyUnsignedCheckpointPSBT, IsCheckpoint
<1>2. ASSUME verifySubmittedCheckpointPSBT(p, c) PROVE IsCheckpoint(p, c)
  <2> DEFINE u == unsigned(p)
  <2>1. Len(p.ins) = 1 /\ verifyUnsignedCheckpointPSBT(u, c)
    BY <1>2, Zenon DEF verifySubmittedCheckpointPSBT
  <2>2. p = [tx |-> p.tx, ins |-> p.ins, extra |-> p.extra] /\ IsList(p.ins) /\ DOMAIN p.ins = {1}
    BY <2>1, OneElement, Zenon DEF IsPacket
  <2>3. IsInput(p.ins[1])
    BY <2>2, Zenon DEF IsPacket
  <2>4. u.tx = p.tx /\ u.ins = [i \in DOMAIN p.ins |-> [p.ins[i] EXCEPT !.sigs = <<>>]]
    BY <2>2, PacketWith, Zenon DEF unsigned
  <2>5. u.ins[1] = [p.ins[1] EXCEPT !.sigs = <<>>]
    BY <2>2, <2>4, Zenon
  <2>6. u.ins[1].witness = p.ins[1].witness
    BY <2>3, <2>5, InputWith
  <2> HIDE DEF u
  <2> QED
    BY <2>1, <2>4, <2>6, Zenon DEF verifyUnsignedCheckpointPSBT, IsCheckpoint
<1> QED
  BY <1>1, <1>2, Zenon

\* A checkpoint moves its coin in full.
LEMMA CheckpointMoves ==
    ASSUME NEW p, IsPacket(p), NEW inputs, NEW c \in Range(inputs), c \in Coins, IsCheckpoint(p, c)
    PROVE  MovesInputs(p.tx, inputs) /\ ShowsCoins(p)
<1>1. IsTx(p.tx) /\ DOMAIN p.tx.ins = {1} /\ DOMAIN p.ins = {1} /\ IsInput(p.ins[1])
  BY OneElement, Zenon DEF IsCheckpoint, IsPacket, IsTx
<1>2. chainOutput(pointOf(c)) = Output(PolicyScript, Value[c])
  BY Zenon DEF chainOutput, pointOf, CoinPoint
<1>3. Value[c] \in Nat
  BY CoinAssumption, Zenon
<1>4. inTotal(p.tx) = Value[c]
  <2>1. p.tx.ins[1].point = pointOf(c)
    BY Zenon DEF IsCheckpoint
  <2>2. chainOutput(p.tx.ins[1].point).value = Value[c]
    BY <1>2, <2>1 DEF Output
  <2> QED
    BY <1>1, <1>3, <2>2, OneInput
<1>5. paid(p.tx, CheckpointScript) = Value[c]
  <2>1. /\ paid(p.tx, CheckpointScript)
             = share(p.tx.outs[1], CheckpointScript) + share(p.tx.outs[2], CheckpointScript)
    BY <1>1, PaidTwo, Zenon DEF IsCheckpoint
  <2>2. share(p.tx.outs[1], CheckpointScript) = Value[c]
    BY DEF share, IsCheckpoint, Output
  <2>3. share(p.tx.outs[2], CheckpointScript) = 0
    BY ScriptsDiffer, Zenon DEF share, IsCheckpoint
  <2> QED
    BY <1>3, <2>1, <2>2, <2>3
<1>6. ShowsCoins(p)
  <2>1. p.ins[1].witness = Output(PolicyScript, Value[c])
    BY <1>1, Zenon DEF IsInput, IsCheckpoint
  <2> QED
    BY <1>1, <1>2, <2>1, Zenon DEF ShowsCoins, IsCheckpoint
<1>7. \A i \in DOMAIN p.tx.ins : p.tx.ins[i].point \in {pointOf(d) : d \in Range(inputs)}
  BY <1>1, Zenon DEF IsCheckpoint
<1> QED
  BY <1>4, <1>5, <1>6, <1>7, Zenon DEF MovesInputs

\* A proof's first input is a message.
LEMMA ProofIsMessage ==
    ASSUME NEW p, IsPacket(p), NEW required, Len(op.inputs) \in Nat, verifyPendingProof(p, required)
    PROVE  IsMessage(p.tx)
<1>1. Len(p.tx.ins) = Len(op.inputs) + 1
  BY Zenon DEF verifyPendingProof
<1>2. 1 \in DOMAIN p.tx.ins
  BY <1>1, ListDomain DEF IsPacket, IsTx
<1>3. p.tx.ins[1].point = MessagePoint(GetPendingTx, PolicyScript)
  BY Zenon DEF verifyPendingProof, intentVerify
<1> QED
  BY <1>2, <1>3 DEF MessagePoint, IsMessage

\* What a reserved operation holds.
Reserved(o) ==
    /\ CoinList(o.inputs) /\ Len(o.inputs) \in Nat
    /\ o.amount \in Nat /\ o.change \in Nat /\ o.fee \in Nat

\* outputsPayQuote: what the Ark transaction pays to whom.
LEMMA OutputsPay ==
    ASSUME NEW tx, IsTx(tx), Reserved(op), outputsPayQuote(tx.outs)
    PROVE  /\ paid(tx, Recipient) = op.amount
           /\ paid(tx, PolicyScript) = op.change
           /\ outTotal(tx) = op.amount + op.change
<1>1. op.amount \in Nat /\ op.change \in Nat
  BY Zenon DEF Reserved
<1>2. tx.outs[1] = Output(Recipient, op.amount)
  BY Zenon DEF outputsPayQuote
<1>3. /\ share(tx.outs[1], Recipient) = op.amount /\ share(tx.outs[1], PolicyScript) = 0
      /\ tx.outs[1].value = op.amount
  BY <1>2, ScriptsDiffer DEF share, Output
<1>4. CASE op.change > 0
  <2>1. Len(tx.outs) = 3 /\ tx.outs[2] = Output(PolicyScript, op.change) /\ tx.outs[3] = ANCHOR
    BY <1>4, Zenon DEF outputsPayQuote
  <2>2. /\ share(tx.outs[2], Recipient) = 0 /\ share(tx.outs[2], PolicyScript) = op.change
        /\ tx.outs[2].value = op.change
    BY <2>1, ScriptsDiffer DEF share, Output
  <2>3. /\ share(tx.outs[3], Recipient) = 0 /\ share(tx.outs[3], PolicyScript) = 0
        /\ tx.outs[3].value = 0
    BY <2>1, ScriptsDiffer, Zenon DEF share
  <2>4. /\ \A script : paid(tx, script) = share(tx.outs[1], script) + share(tx.outs[2], script)
                                             + share(tx.outs[3], script)
        /\ outTotal(tx) = tx.outs[1].value + tx.outs[2].value + tx.outs[3].value
    BY <2>1, PaidThree, Zenon
  <2> QED
    BY <1>1, <1>3, <2>2, <2>3, <2>4
<1>5. CASE ~ (op.change > 0)
  <2>1. Len(tx.outs) = 2 /\ tx.outs[2] = ANCHOR /\ op.change = 0
    BY <1>1, <1>5 DEF outputsPayQuote
  <2>2. /\ share(tx.outs[2], Recipient) = 0 /\ share(tx.outs[2], PolicyScript) = 0
        /\ tx.outs[2].value = 0
    BY <2>1, ScriptsDiffer, Zenon DEF share
  <2>3. /\ \A script : paid(tx, script) = share(tx.outs[1], script) + share(tx.outs[2], script)
        /\ outTotal(tx) = tx.outs[1].value + tx.outs[2].value
    BY <2>1, PaidTwo, Zenon
  <2> QED
    BY <1>1, <1>3, <2>1, <2>2, <2>3
<1> QED
  BY <1>4, <1>5, Zenon

\* An Ark packet whose inputs are the first outputs of the checkpoints pays what
\* the quote says, and shows its coins.
LEMMA ArkPays ==
    ASSUME NEW p, IsPacket(p), Reserved(op), NEW cps, Packets(cps), Len(cps) = Len(op.inputs),
           \A i \in DOMAIN cps : verifyUnsignedCheckpointPSBT(cps[i], op.inputs[i]),
           verifySpendPSBT(p, cps)
    PROVE  PaysQuote(p.tx, op) /\ ShowsCoins(p)
<1>1. IsTx(p.tx) /\ IsList(p.tx.ins) /\ IsList(p.ins) /\ IsList(op.inputs) /\ IsList(cps)
  BY Zenon DEF IsPacket, IsTx, Reserved, CoinList, Packets
<1>2. Len(p.tx.ins) = Len(op.inputs) /\ Len(p.ins) = Len(op.inputs)
  BY Zenon DEF verifySpendPSBT
<1>3. /\ DOMAIN p.tx.ins = DOMAIN op.inputs /\ DOMAIN p.ins = DOMAIN op.inputs
      /\ DOMAIN cps = DOMAIN op.inputs /\ IsFiniteSet(DOMAIN op.inputs)
  BY <1>1, <1>2, ListDomain, Zenon
<1>4. ASSUME NEW i \in DOMAIN op.inputs
      PROVE  /\ p.ins[i].witness = chainOutput(p.tx.ins[i].point)
             /\ p.ins[i].witness.value = chainOutput(p.tx.ins[i].point).value
  <2>1. /\ p.tx.ins[i].point = OutputPoint(cps[i].tx, 1)
        /\ p.ins[i].witness = Output(CheckpointScript, Value[op.inputs[i]])
    BY Zenon DEF verifySpendPSBT
  <2>2. IsPacket(cps[i]) /\ IsCheckpoint(cps[i], op.inputs[i])
    BY <1>3, CheckpointsVerified, Zenon DEF Packets
  <2>3. 1 \in DOMAIN cps[i].tx.outs
    <3>1. IsList(cps[i].tx.outs) /\ Len(cps[i].tx.outs) = 2
      BY <2>2, Zenon DEF IsPacket, IsTx, IsCheckpoint
    <3> QED
      BY <3>1, ListDomain
  <2>4. cps[i].tx.outs[1] = Output(CheckpointScript, Value[op.inputs[i]])
    BY <2>2, Zenon DEF IsCheckpoint
  <2>5. chainOutput(OutputPoint(cps[i].tx, 1)) = cps[i].tx.outs[1]
    BY <2>3, Zenon DEF chainOutput, OutputPoint
  <2> QED
    BY <2>1, <2>4, <2>5, Zenon
<1>5. ShowsCoins(p)
  BY <1>3, <1>4, Zenon DEF ShowsCoins
<1> DEFINE f == [i \in DOMAIN p.ins |-> p.ins[i].witness.value]
           g == [i \in DOMAIN p.tx.ins |-> chainOutput(p.tx.ins[i].point).value]
<1>6. SumFunction(f) = op.amount + op.change + op.fee
  BY Zenon DEF verifySpendPSBT
<1>7. inTotal(p.tx) = SumFunction(g)
  BY Zenon DEF inTotal
<1>8. DOMAIN f = DOMAIN op.inputs /\ DOMAIN g = DOMAIN op.inputs
  BY <1>3, Zenon
<1>9. \A i \in DOMAIN op.inputs : f[i] = g[i]
  BY <1>3, <1>4, Zenon
<1>10. SumFunction(f) = SumFunction(g)
  <2> HIDE DEF f, g
  <2>1. SumFunction(f) = Total(f, DOMAIN op.inputs) /\ SumFunction(g) = Total(g, DOMAIN op.inputs)
    BY <1>8, SumIsTotal, Zenon
  <2>2. Total(f, DOMAIN op.inputs) = Total(g, DOMAIN op.inputs)
    BY <1>3, <1>9, TotalSame, Zenon
  <2> QED
    BY <2>1, <2>2, Zenon
<1> HIDE DEF f, g
<1>11. outputsPayQuote(p.tx.outs)
  BY Zenon DEF verifySpendPSBT
<1>12. /\ paid(p.tx, Recipient) = op.amount
       /\ paid(p.tx, PolicyScript) = op.change
       /\ outTotal(p.tx) = op.amount + op.change
  BY <1>1, <1>11, OutputsPay, Zenon
<1>13. inTotal(p.tx) = outTotal(p.tx) + op.fee
  BY <1>6, <1>7, <1>10, <1>12, Zenon
<1> QED
  BY <1>5, <1>12, <1>13, Zenon DEF PaysQuote

\* The operation once its Ark transaction is signed.
Signed(o) ==
    /\ o = [state |-> o.state, inputs |-> o.inputs, amount |-> o.amount, change |-> o.change,
            fee |-> o.fee, ark |-> o.ark, cps |-> o.cps, proof |-> o.proof]
    /\ DOMAIN o.ark.ins = DOMAIN o.inputs /\ Len(o.ark.ins) = Len(o.inputs)
    /\ \A i \in DOMAIN o.ark.ins :
          /\ o.ark.tx.ins[i].point = OutputPoint(o.cps[i].tx, 1)
          /\ fullySigned(o.ark, i, {User, Cosigner})

\* Finalizable's second half.
Submitted(o) ==
    /\ \A i \in DOMAIN o.cps : fullySigned(o.cps[i], 1, {User, Cosigner, Operator})
    /\ \A i \in DOMAIN o.ark.ins :
          /\ o.ark.tx.ins[i].point = OutputPoint(o.cps[i].tx, 1)
          /\ fullySigned(o.ark, i, {User, Cosigner})
    /\ Len(o.ark.ins) = Len(o.cps)

\* The inductive invariant: every transaction the cosigner has signed for is one
\* of the three kinds, and what the row holds is signed as its state says.
SpendInv ==
    /\ SelectionInv
    /\ pc # "reserved" => op = NoOp /\ released = {}
    /\ pc = "reserved" => Reserved(op)
    /\ \A s \in released : Allowed(s.over.tx, op)
    /\ op.state = "signed" => Signed(op)
    /\ op.state = "submitted" => Submitted(op)

\* Signatures of the cosigner over verified packets.
LEMMA SignedForOne ==
    ASSUME NEW p, IsPacket(p), NEW signers, Cosigner \notin signers, NEW h,
           \A i \in DOMAIN p.ins : requireVerifiedSignersWithSighash(p, i, signers, SpendLeaf, h)
    PROVE  \A s \in cosignaturesOf(signExactArkStage(p, Cosigner, SpendLeaf, h), Cosigner) :
              s.over.tx = p.tx
<1> DEFINE q == signExactArkStage(p, Cosigner, SpendLeaf, h)
<1>1. Cosigned(p, q, Cosigner, SpendLeaf, h)
  BY StageSigned, Zenon
<1>2. \A i \in DOMAIN p.ins : \A s \in Range(p.ins[i].sigs) : s.by # Cosigner
  BY VerifiedOthers, Zenon
<1> HIDE DEF q
<1>3. \A s \in cosignaturesOf(q, Cosigner) : s.over.tx = p.tx
  BY <1>1, <1>2, OwnSignatures, Zenon
<1> QED
  BY <1>3, Zenon DEF q

\* AuthorizeVtxoSpend keeps SpendInv.
LEMMA AuthorizeSpendKeeps ==
    ASSUME SpendInv, NEW ark, NEW cps, NEW proof, IsPacket(ark), IsPacket(proof), Packets(cps),
           AuthorizeVtxoSpend(ark, cps, proof), SelectionInv'
    PROVE  SpendInv'
<1> DEFINE signedArk == signExactArkStage(ark, Cosigner, SpendLeaf, SigHashDefault)
           signedProof == signExactArkStage(proof, Cosigner, SpendLeaf, SigHashAll)
<1>1. /\ op.state = "reserved" /\ Len(cps) = Len(op.inputs)
      /\ \A i \in DOMAIN cps : verifyUnsignedCheckpointPSBT(cps[i], op.inputs[i])
      /\ verifySpendPSBT(ark, cps) /\ verifyPendingProof(proof, {User})
      /\ op' = [state |-> "signed", inputs |-> op.inputs, amount |-> op.amount,
                change |-> op.change, fee |-> op.fee,
                ark |-> signedArk, cps |-> cps, proof |-> signedProof]
      /\ released' = cosignaturesOf(signedArk, Cosigner) \cup cosignaturesOf(signedProof, Cosigner)
      /\ pc' = pc
  BY Zenon DEF AuthorizeVtxoSpend, vars
<1>2. pc = "reserved" /\ Reserved(op)
  BY <1>1 DEF SpendInv, NoOp
<1>3. PaysQuote(ark.tx, op) /\ ShowsCoins(ark)
  BY <1>1, <1>2, ArkPays, Zenon
<1>4. IsMessage(proof.tx)
  BY <1>1, <1>2, ProofIsMessage, Zenon DEF Reserved
<1>5. Cosigner \notin {User} /\ IsFiniteSet({User})
  BY ScriptsDiffer, FS_Singleton, Zenon
<1>6. DOMAIN ark.ins = DOMAIN op.inputs /\ Len(ark.ins) = Len(op.inputs)
  BY <1>1, <1>2, ListDomain, Zenon DEF verifySpendPSBT, IsPacket, Reserved, CoinList
<1>7. \A i \in DOMAIN ark.ins :
         requireVerifiedSignersWithSighash(ark, i, {User}, SpendLeaf, SigHashDefault)
  BY <1>1, <1>6, Zenon DEF verifySpendPSBT
<1>8. \A i \in DOMAIN proof.ins :
         requireVerifiedSignersWithSighash(proof, i, {User}, SpendLeaf, SigHashAll)
  BY <1>1, Zenon DEF verifyPendingProof
<1>9. /\ \A s \in cosignaturesOf(signedArk, Cosigner) : s.over.tx = ark.tx
      /\ \A s \in cosignaturesOf(signedProof, Cosigner) : s.over.tx = proof.tx
  BY <1>5, <1>7, <1>8, SignedForOne, Zenon
<1>10. Cosigned(ark, signedArk, Cosigner, SpendLeaf, SigHashDefault)
  BY StageSigned, Zenon
<1> HIDE DEF signedArk, signedProof
<1>11. /\ op'.state = "signed" /\ op'.inputs = op.inputs /\ op'.amount = op.amount
       /\ op'.change = op.change /\ op'.fee = op.fee /\ op'.ark = signedArk
       /\ op'.cps = cps /\ op'.proof = signedProof
  BY <1>1, Zenon
<1>12. \A s \in released' : s.over.tx = ark.tx \/ s.over.tx = proof.tx
  BY <1>1, <1>9, Zenon
<1>13. Reserved(op') /\ \A t : PaysQuote(t, op) => PaysQuote(t, op')
  BY <1>2, <1>11, Zenon DEF Reserved, PaysQuote
<1>14. \A s \in released' : Allowed(s.over.tx, op')
  BY <1>3, <1>4, <1>12, <1>13, Zenon DEF Allowed
<1>15. {User} \cup {Cosigner} = {User, Cosigner}
  BY Zenon
<1>16. ASSUME NEW i \in DOMAIN ark.ins
       PROVE  /\ signedArk.tx.ins[i].point = OutputPoint(cps[i].tx, 1)
              /\ fullySigned(signedArk, i, {User, Cosigner})
  <2>1. fullySigned(signedArk, i, {User} \cup {Cosigner})
    BY <1>3, <1>5, <1>7, <1>10, FullySigned, Zenon
  <2>2. ark.tx.ins[i].point = OutputPoint(cps[i].tx, 1)
    BY <1>1, <1>6, Zenon DEF verifySpendPSBT
  <2> QED
    BY <1>10, <1>15, <2>1, <2>2, Zenon DEF Cosigned
<1>17. Signed(op')
  <2>1. op' = [state |-> op'.state, inputs |-> op'.inputs, amount |-> op'.amount,
               change |-> op'.change, fee |-> op'.fee, ark |-> op'.ark, cps |-> op'.cps,
               proof |-> op'.proof]
    BY <1>1, <1>11, Zenon
  <2>2. DOMAIN signedArk.ins = DOMAIN op.inputs /\ Len(signedArk.ins) = Len(op.inputs)
        /\ DOMAIN signedArk.ins = DOMAIN ark.ins
    BY <1>6, <1>10, Zenon DEF Cosigned
  <2> QED
    BY <1>11, <1>16, <2>1, <2>2, Zenon DEF Signed
<1>18. op'.state # "submitted" /\ pc' = "reserved"
  BY <1>1, <1>2, <1>11, Zenon
<1> QED
  BY <1>13, <1>14, <1>17, <1>18, Zenon DEF SpendInv, Reserved, Signed, Allowed

\* A field of the operation exchanged, and another one with it.
LEMMA OpWith ==
    ASSUME NEW o, o = [state |-> o.state, inputs |-> o.inputs, amount |-> o.amount,
                       change |-> o.change, fee |-> o.fee, ark |-> o.ark, cps |-> o.cps,
                       proof |-> o.proof],
           NEW s, NEW c, NEW n, n = [o EXCEPT !.state = s, !.cps = c]
    PROVE  /\ n.state = s /\ n.cps = c /\ n.inputs = o.inputs /\ n.amount = o.amount
           /\ n.change = o.change /\ n.fee = o.fee /\ n.ark = o.ark
OBVIOUS

\* AuthorizeVtxoCheckpoints keeps SpendInv.
LEMMA AuthorizeCheckpointsKeeps ==
    ASSUME SpendInv, NEW cands, Packets(cands), AuthorizeVtxoCheckpoints(cands), SelectionInv'
    PROVE  SpendInv'
<1> DEFINE stage(i) == signExactArkStage(cands[i], Cosigner, SpendLeaf, SigHashDefault)
           authorized == [i \in DOMAIN cands |-> stage(i)]
<1>1. /\ op.state = "signed" /\ Len(cands) = Len(op.inputs)
      /\ \A i \in DOMAIN cands :
            /\ sameUnsignedPSBT(op.cps[i], cands[i])
            /\ verifySubmittedCheckpointPSBT(cands[i], op.inputs[i])
      /\ op' = [op EXCEPT !.state = "submitted", !.cps = authorized]
      /\ released' = released \cup UNION {cosignaturesOf(authorized[i], Cosigner) : i \in DOMAIN cands}
      /\ pc' = pc
  BY Zenon DEF AuthorizeVtxoCheckpoints, vars
<1>2. pc = "reserved" /\ Reserved(op) /\ Signed(op) /\ \A s \in released : Allowed(s.over.tx, op)
  BY <1>1 DEF SpendInv, NoOp
<1>3. DOMAIN cands = DOMAIN op.inputs
  BY <1>1, <1>2, ListDomain, Zenon DEF Packets, Reserved, CoinList
<1>4. DOMAIN authorized = DOMAIN cands /\ \A i \in DOMAIN cands : authorized[i] = stage(i)
  BY Zenon
<1>5. Len(authorized) = Len(op.inputs)
  <2>1. Len(cands) \in Nat /\ DOMAIN cands = 1..Len(cands)
    BY ListDomain, Zenon DEF Packets
  <2>2. authorized \in [1..Len(cands) -> Range(authorized)]
    BY <2>1, Zenon DEF Range
  <2> HIDE DEF authorized
  <2> QED
    BY <1>1, <2>1, <2>2, FunctionIsList, Zenon
<1>6. Cosigner \notin {User, Operator} /\ IsFiniteSet({User, Operator})
  <2>1. IsFiniteSet({User})
    BY FS_Singleton, Zenon
  <2>2. IsFiniteSet({User} \cup {Operator})
    BY <2>1, FS_AddElement, Zenon
  <2>3. {User} \cup {Operator} = {User, Operator}
    BY Zenon
  <2> QED
    BY <2>2, <2>3, ScriptsDiffer, Zenon
<1>7. {User, Operator} \cup {Cosigner} = {User, Cosigner, Operator}
  BY Zenon
<1>8. ASSUME NEW i \in DOMAIN cands
      PROVE  /\ stage(i).tx = op.cps[i].tx
             /\ fullySigned(stage(i), 1, {User, Cosigner, Operator})
             /\ \A s \in cosignaturesOf(stage(i), Cosigner) : MovesInputs(s.over.tx, op.inputs)
  <2>1. IsPacket(cands[i])
    BY Zenon DEF Packets
  <2>2. op.inputs[i] \in Range(op.inputs) /\ op.inputs[i] \in Coins
    BY <1>2, <1>3, Zenon DEF Reserved, CoinList, Range
  <2>3. IsCheckpoint(cands[i], op.inputs[i])
    BY <1>1, <2>1, CheckpointsVerified, Zenon
  <2>4. MovesInputs(cands[i].tx, op.inputs) /\ ShowsCoins(cands[i])
    BY <2>1, <2>2, <2>3, CheckpointMoves, Zenon
  <2>5. DOMAIN cands[i].ins = {1}
    BY <2>1, <2>3, OneElement, Zenon DEF IsPacket, IsCheckpoint
  <2>6. requireVerifiedSignersWithSighash(cands[i], 1, {User, Operator}, SpendLeaf, SigHashDefault)
    BY <1>1, Zenon DEF verifySubmittedCheckpointPSBT
  <2>7. Cosigned(cands[i], stage(i), Cosigner, SpendLeaf, SigHashDefault)
    BY <2>1, StageSigned, Zenon
  <2>8. \A j \in DOMAIN cands[i].ins : requireVerifiedSignersWithSighash(cands[i], j,
            {User, Operator}, SpendLeaf, SigHashDefault)
    BY <2>5, <2>6, Zenon
  <2>9. \A s \in cosignaturesOf(stage(i), Cosigner) : s.over.tx = cands[i].tx
    BY <1>6, <2>1, <2>8, SignedForOne, Zenon
  <2>10. cands[i].tx = op.cps[i].tx
    BY <1>1, Zenon DEF sameUnsignedPSBT
  <2>11. 1 \in DOMAIN cands[i].ins
    BY <2>5, Zenon
  <2> HIDE DEF stage
  <2>12. fullySigned(stage(i), 1, {User, Operator} \cup {Cosigner})
    BY <1>6, <2>1, <2>4, <2>6, <2>7, <2>11, FullySigned, Zenon
  <2> QED
    BY <1>7, <2>4, <2>7, <2>9, <2>10, <2>12, Zenon DEF Cosigned
<1> HIDE DEF authorized, stage
<1>9. /\ op'.state = "submitted" /\ op'.cps = authorized /\ op'.inputs = op.inputs
      /\ op'.amount = op.amount /\ op'.change = op.change /\ op'.fee = op.fee /\ op'.ark = op.ark
  <2>1. op = [state |-> op.state, inputs |-> op.inputs, amount |-> op.amount,
              change |-> op.change, fee |-> op.fee, ark |-> op.ark, cps |-> op.cps,
              proof |-> op.proof]
    BY <1>2, Zenon DEF Signed
  <2> QED
    BY <1>1, <2>1, OpWith, Zenon
<1>10. Reserved(op') /\ \A t : Allowed(t, op) => Allowed(t, op')
  BY <1>2, <1>9, Zenon DEF Reserved, Allowed, PaysQuote
<1>11. \A t : MovesInputs(t, op.inputs) => Allowed(t, op')
  BY <1>9, Zenon DEF Allowed
<1>12. \A s \in released' : Allowed(s.over.tx, op')
  <2> SUFFICES ASSUME NEW s \in released', s \notin released PROVE Allowed(s.over.tx, op')
    BY <1>2, <1>10, Zenon
  <2>1. PICK i \in DOMAIN cands : s \in cosignaturesOf(authorized[i], Cosigner)
    BY <1>1, Zenon
  <2>2. s \in cosignaturesOf(stage(i), Cosigner)
    BY <1>4, <2>1, Zenon
  <2> QED
    BY <1>8, <1>11, <2>2, Zenon
<1>13. Submitted(op')
  <2>1. DOMAIN op.ark.ins = DOMAIN cands /\ Len(op.ark.ins) = Len(authorized)
    BY <1>2, <1>3, <1>5, Zenon DEF Signed
  <2>2. \A i \in DOMAIN cands : /\ authorized[i].tx = op.cps[i].tx
                                /\ fullySigned(authorized[i], 1, {User, Cosigner, Operator})
    BY <1>4, <1>8, Zenon
  <2>3. \A i \in DOMAIN op.ark.ins : /\ op.ark.tx.ins[i].point = OutputPoint(op.cps[i].tx, 1)
                                     /\ fullySigned(op.ark, i, {User, Cosigner})
    BY <1>2, Zenon DEF Signed
  <2> QED
    BY <1>4, <1>9, <2>1, <2>2, <2>3, Zenon DEF Submitted
<1>14. op'.state # "signed" /\ pc' = "reserved"
  BY <1>1, <1>2, <1>9, Zenon
<1> QED
  BY <1>10, <1>12, <1>13, <1>14, Zenon DEF SpendInv

\* ReserveVtxo keeps SpendInv.
LEMMA ReserveKeeps ==
    ASSUME SpendInv, ReserveVtxo
    PROVE  SpendInv'
<1>1. /\ pc = "done" /\ outcome.ok /\ pc' = "reserved"
      /\ index' = <<>> /\ pageIndex' = 1 /\ all' = <<>>
      /\ UNCHANGED <<amount, fees, outcome, released>>
      /\ op' = [state |-> "reserved", inputs |-> outcome.picked, amount |-> amount,
                change |-> outcome.change, fee |-> outcome.fee]
  BY Zenon DEF ReserveVtxo
<1>2. IsQuote(outcome) /\ amount \in Nat
  <2>1. \A w : Refused(w).ok = FALSE
    BY Zenon DEF Refused
  <2> QED
    BY <1>1, <2>1, CoinAssumption DEF SpendInv, SelectionInv, Answer
<1>3. SelectionInv'
  BY <1>1, <1>2 DEF SpendInv, SelectionInv, IsQuote
<1>4. /\ op'.state = "reserved" /\ op'.inputs = outcome.picked /\ op'.amount = amount
      /\ op'.change = outcome.change /\ op'.fee = outcome.fee
  BY <1>1, Zenon
<1>5. Reserved(op')
  <2>1. Len(outcome.picked) \in Nat
    BY <1>2, CoinAssumption DEF IsQuote
  <2> QED
    BY <1>2, <1>4, <2>1, Zenon DEF IsQuote, Reserved
<1>6. released' = {}
  BY <1>1, Zenon DEF SpendInv
<1>7. op'.state # "signed" /\ op'.state # "submitted"
  BY <1>4, Zenon
<1> QED
  BY <1>1, <1>3, <1>5, <1>6, <1>7, Zenon DEF SpendInv

\* Nothing but ReserveVtxo reserves.
LEMMA SearchReservesNothing ==
    ASSUME Next
    PROVE  pc' = "reserved" <=> pc = "reserved"
<1>1. CASE indexerChanges
  BY <1>1, Zenon DEF indexerChanges
<1>2. CASE listVtxoPages
  BY <1>2, Zenon DEF listVtxoPages, listed, refuse
<1>3. CASE selectionFails
  BY <1>3, Zenon DEF selectionFails, refuse
<1>4. CASE selectSpendVtxos
  BY <1>4, Zenon DEF selectSpendVtxos
<1> QED
  BY <1>1, <1>2, <1>3, <1>4, Zenon DEF Next

\* SelectionInv looks at the variables of the search only.
LEMMA SelectionStays ==
    ASSUME SelectionInv, UNCHANGED vars
    PROVE  SelectionInv'
<1>1. \A r : Answer(r)' = Answer(r)
  BY SameAnswer, Zenon DEF vars
<1> QED
  BY <1>1, Zenon DEF SelectionInv, vars

\* Every step keeps SpendInv.
LEMMA SpendSteps ==
    ASSUME SpendInv, [AnySpendNext]_<<vars, packetVars>>
    PROVE  SpendInv'
<1>1. SelectionInv
  BY Zenon DEF SpendInv
<1>2. CASE Next /\ UNCHANGED packetVars
  <2>1. SelectionInv' /\ (pc' = "reserved" <=> pc = "reserved")
    BY <1>1, <1>2, SelectionSteps, SearchReservesNothing, Zenon
  <2>2. op' = op /\ released' = released
    BY <1>2, Zenon DEF packetVars
  <2> QED
    BY <2>1, <2>2, Zenon DEF SpendInv
<1>3. CASE ReserveVtxo
  BY <1>3, ReserveKeeps, Zenon
<1>4. ASSUME NEW ark, NEW cps, NEW proof, IsPacket(ark), IsPacket(proof), Packets(cps),
             AuthorizeVtxoSpend(ark, cps, proof)
      PROVE  SpendInv'
  <2>1. UNCHANGED vars
    BY <1>4, Zenon DEF AuthorizeVtxoSpend
  <2> QED
    BY <1>1, <1>4, <2>1, SelectionStays, AuthorizeSpendKeeps, Zenon
<1>5. ASSUME NEW cands, Packets(cands), AuthorizeVtxoCheckpoints(cands)
      PROVE  SpendInv'
  <2>1. UNCHANGED vars
    BY <1>5, Zenon DEF AuthorizeVtxoCheckpoints
  <2> QED
    BY <1>1, <1>5, <2>1, SelectionStays, AuthorizeCheckpointsKeeps, Zenon
<1>6. CASE UNCHANGED <<vars, packetVars>>
  <2>1. UNCHANGED vars /\ op' = op /\ released' = released /\ pc' = pc
    BY <1>6, Zenon DEF packetVars, vars
  <2>2. SelectionInv'
    BY <1>1, <2>1, SelectionStays, Zenon
  <2> QED
    BY <2>1, <2>2, Zenon DEF SpendInv
<1> QED
  BY <1>2, <1>3, <1>4, <1>5, <1>6, Zenon DEF AnySpendNext

\* SpendInv implies the two properties.
LEMMA SpendCorrect ==
    ASSUME SpendInv
    PROVE  PaymentFollowsQuote /\ Finalizable
<1>1. Finalizable
  BY Zenon DEF SpendInv, Submitted, Finalizable
<1>2. ASSUME NEW t \in first \cup second PROVE MovesInputs(t, op.inputs) \/ PaysQuote(t, op)
  <2>1. PICK s \in released : t = s.over.tx
    BY <1>2, Zenon DEF first, second, signedTxs
  <2>2. Allowed(t, op)
    BY <2>1, Zenon DEF SpendInv
  <2>3. ASSUME NEW i \in DOMAIN t.ins PROVE t.ins[i].point[1] # "message"
    <3>1. t.ins[i].point \in coinPoints \/ t.ins[i].point \in {OutputPoint(u, 1) : u \in first}
      BY <1>2, <2>3, Zenon DEF first, second
    <3>2. CASE t.ins[i].point \in coinPoints
      <4>1. PICK c \in Coins : t.ins[i].point = pointOf(c)
        BY <3>2, Zenon DEF coinPoints
      <4> QED
        BY <4>1 DEF pointOf, CoinPoint
    <3>3. CASE t.ins[i].point \in {OutputPoint(u, 1) : u \in first}
      <4>1. PICK u \in first : t.ins[i].point = OutputPoint(u, 1)
        BY <3>3, Zenon
      <4> QED
        BY <4>1 DEF OutputPoint
    <3> QED
      BY <3>1, <3>2, <3>3, Zenon
  <2> QED
    BY <2>2, <2>3, Zenon DEF Allowed, IsMessage
<1>3. PaymentFollowsQuote
  BY <1>2, Zenon DEF PaymentFollowsQuote, MovesInputs, PaysQuote
<1> QED
  BY <1>1, <1>3, Zenon

\* SpendInv always holds.
LEMMA SpendHolds == AnySpendSpec => []SpendInv
<1>1. SpendInit => SpendInv
  <2> SUFFICES ASSUME SpendInit PROVE SpendInv
    OBVIOUS
  <2>1. Init /\ op = NoOp /\ released = {}
    BY Zenon DEF SpendInit
  <2>2. SelectionInv
    BY <2>1, SelectionStarts, Zenon
  <2>3. pc = "list"
    BY <2>1, Zenon DEF Init
  <2>4. op.state = "none"
    BY <2>1, Zenon DEF NoOp
  <2> QED
    BY <2>1, <2>2, <2>3, <2>4, Zenon DEF SpendInv
<1>2. SpendInv /\ [AnySpendNext]_<<vars, packetVars>> => SpendInv'
  BY SpendSteps, Zenon
<1> QED
  BY <1>1, <1>2, PTL DEF AnySpendSpec

\* AuthorizeVtxoSpend, AuthorizeVtxoCheckpoints: whatever packets a wallet and an
\* Operator hand in, the signatures that left the service let a transaction move
\* coins of the quote in full to where the cosigner is needed again, or pay the
\* recipient, the change and the fee exactly as quoted, and nothing else.
THEOREM PaymentsFollowQuote == AnySpendSpec => []PaymentFollowsQuote
BY SpendHolds, SpendCorrect, PTL

\* signExactArkStage: whatever packets come in, those of a submitted operation
\* fit together and lack no signature of phone, cosigner or Operator.
THEOREM SubmittedFinalizable == AnySpendSpec => []Finalizable
BY SpendHolds, SpendCorrect, PTL
=============================================================================
