------------------------------ MODULE Packets ------------------------------
(***************************************************************************)
(* Partially signed transactions and the checks that the cosigner keys are *)
(* kept behind (internal/application/psbtguard.go, vtxo_verify.go).        *)
(*                                                                         *)
(* A transaction is its own id: an outpoint holds the transaction that     *)
(* made it. A tapleaf is the sequence of keys it demands, an output script *)
(* the set of its leaves, a control block the leaves beside the one shown. *)
(* A signature names a key, a leaf and a sighash type, which its author is *)
(* free to misstate, and carries who signed and what was signed.           *)
(***************************************************************************)
EXTENDS Integers, Sequences, SequencesExt, FiniteSetsExt

SigHashDefault == "default"
SigHashAll == "all"

Output(script, value) == [script |-> script, value |-> value]
ANCHOR == Output({}, 0)
OP_RETURN == {<<"nothing">>}

\* Outpoints: of a coin on the ledger, of an output, and of the transaction that
\* a signed message stands for, which nobody can publish.
CoinPoint(c, output) == <<"coin", c, output>>
OutputPoint(tx, j) == <<"output", tx, j>>
MessagePoint(message, script) == <<"message", message, script>>

\* What the ledger knows of an outpoint.
chainOutput(point) ==
    CASE point[1] = "coin" -> point[3]
      [] point[1] = "output" /\ point[3] \in DOMAIN point[2].outs -> point[2].outs[point[3]]
      [] OTHER -> ANCHOR

\* The vault's Spending tree.
SpendLeaf == <<"phone", "vault", "operator">>
ExitLeaf == <<"hardware", "recovery">>
DelegateLeaf == <<"phone", "vault", "delegate", "operator">>
PolicyScript == {SpendLeaf, ExitLeaf, DelegateLeaf}
SpendControl == {ExitLeaf, DelegateLeaf}

TxIn(point) == [point |-> point, final |-> TRUE]
Transaction(version, points, outs) ==
    [version |-> version, locktime |-> 0,
     ins |-> [i \in DOMAIN points |-> TxIn(points[i])], outs |-> outs]

PInput(witness, leaf, control, sighash) ==
    [witness |-> witness, leaves |-> <<[script |-> leaf, control |-> control]>>,
     sighash |-> sighash, sigs |-> <<>>]

-----------------------------------------------------------------------------
(* Signatures. *)

\* CalcTapscriptSignaturehash over the prevouts that the packet itself shows.
digest(p, idx, leaf, sighash) ==
    [tx |-> p.tx, prevs |-> [i \in DOMAIN p.ins |-> p.ins[i].witness],
     idx |-> idx, leaf |-> leaf, sighash |-> sighash]

signTapLeafAtWithSighash(p, idx, key, leaf, sighash) ==
    [key |-> key, leaf |-> leaf, sighash |-> sighash,
     by |-> key, over |-> digest(p, idx, leaf, sighash)]

verifySchnorrOnInputWithSighash(p, idx, sig, key, leaf, sighash) ==
    sig.by = key /\ sig.over = digest(p, idx, leaf, sighash)

\* The ledger accepts a signature over what it knows itself.
validOnChain(s) ==
    \A i \in DOMAIN s.over.tx.ins : s.over.prevs[i] = chainOutput(s.over.tx.ins[i].point)

\* The packet with one signature more on each of the given inputs.
signInputs(p, idxs, key, leaf, sighash) ==
    [p EXCEPT !.ins =
        [i \in DOMAIN p.ins |->
            IF i \in idxs
            THEN [p.ins[i] EXCEPT !.sigs =
                    Append(@, signTapLeafAtWithSighash(p, i, key, leaf, sighash))]
            ELSE p.ins[i]]]

\* The checks signExactArkStage and signExactVaultBoardStage make of an input.
signable(in, leaf, sighash) ==
    Len(in.leaves) = 1 /\ in.leaves[1].script = leaf /\ in.sighash = sighash

canSignArkStage(p, leaf, sighash) ==
    p.ins # <<>> /\ \A i \in DOMAIN p.ins : signable(p.ins[i], leaf, sighash)

signExactArkStage(p, key, leaf, sighash) == signInputs(p, DOMAIN p.ins, key, leaf, sighash)

canSignVaultBoardStage(p, idxs, key, leaf, sighash) ==
    /\ idxs # {} /\ idxs \subseteq DOMAIN p.ins
    /\ \A i \in idxs : /\ signable(p.ins[i], leaf, sighash)
                       /\ \A s \in Range(p.ins[i].sigs) : s.key # key

signExactVaultBoardStage(p, idxs, key, leaf, sighash) == signInputs(p, idxs, key, leaf, sighash)

-----------------------------------------------------------------------------
(* What a packet must show before it is signed. *)

\* intent.Verify: the first input is the message's own transaction.
intentVerify(p, message, script) == p.tx.ins[1].point = MessagePoint(message, script)

controlBlockMatches(script, leaf, control) ==
    leaf \notin control /\ script = control \cup {leaf}

requireExactLeafWithSighash(in, script, leaf, control, allowed, sighash) ==
    /\ in.witness.script = script
    /\ Len(in.leaves) = 1
    /\ in.sighash = sighash
    /\ in.leaves[1].script = leaf
    /\ controlBlockMatches(script, leaf, in.leaves[1].control)
    /\ in.leaves[1].control = control
    /\ \A s \in Range(in.sigs) : s.sighash = sighash /\ s.leaf = leaf /\ s.key \in allowed

\* Mutation: a signer's second signature stands in for a missing one.
MutSignersCounted(p, idx, signers, leaf, sighash) ==
    LET sigs == p.ins[idx].sigs
    IN  /\ \A i \in DOMAIN sigs : sigs[i].key \in signers
        /\ Len(sigs) = Cardinality(signers)

\* Exactly one valid signature of each signer, and no other.
requireVerifiedSignersWithSighash(p, idx, signers, leaf, sighash) ==
    LET sigs == p.ins[idx].sigs
    IN  /\ Len(p.ins[idx].leaves) = 1
        /\ \A i \in DOMAIN sigs :
              /\ sigs[i].key \in signers
              /\ \A j \in 1..(i - 1) : sigs[j].key # sigs[i].key
              /\ sigs[i].sighash = sighash /\ sigs[i].leaf = leaf
              /\ verifySchnorrOnInputWithSighash(p, idx, sigs[i], sigs[i].key, leaf, sighash)
        /\ {sigs[i].key : i \in DOMAIN sigs} = signers

unsigned(p) == [p EXCEPT !.ins = [i \in DOMAIN p.ins |-> [p.ins[i] EXCEPT !.sigs = <<>>]]]

\* Everything but signatures and fields the service does not know.
sameUnsignedPSBT(a, b) ==
    a.tx = b.tx /\ unsigned(a).ins = unsigned(b).ins
      /\ \A i \in DOMAIN a.ins : Len(a.ins[i].leaves) = 1

cosignaturesOf(p, key) ==
    UNION {{s \in Range(p.ins[i].sigs) : s.by = key} : i \in DOMAIN p.ins}

-----------------------------------------------------------------------------
(* Properties of signatures and transactions. *)

\* A packet's input carries one valid signature of each signer and no other.
fullySigned(p, idx, signers) ==
    /\ Len(p.ins[idx].sigs) = Cardinality(signers)
    /\ \A k \in signers : \E s \in Range(p.ins[idx].sigs) :
          s.by = k /\ s.over.tx = p.tx /\ s.over.idx = idx /\ validOnChain(s)

paid(t, script) ==
    SumFunction([j \in DOMAIN t.outs |->
                    IF t.outs[j].script = script THEN t.outs[j].value ELSE 0])
outTotal(t) == SumFunction([j \in DOMAIN t.outs |-> t.outs[j].value])
inTotal(t) == SumFunction([i \in DOMAIN t.ins |-> chainOutput(t.ins[i].point).value])

-----------------------------------------------------------------------------
(* What others may hand in instead of the packet they should: any one of   *)
(* these differences at a time, or two after another.                      *)

changedAt(seq, Variants(_)) ==
    UNION {{[seq EXCEPT ![i] = v] : v \in Variants(seq[i])} : i \in DOMAIN seq}

txVariants(tx, points, scripts) ==
    {[tx EXCEPT !.version = 1], [tx EXCEPT !.locktime = 1]}
      \cup {[tx EXCEPT !.ins = s] :
              s \in changedAt(tx.ins, LAMBDA in : {[in EXCEPT !.final = FALSE]}
                                                    \cup {TxIn(o) : o \in points})}
      \cup {[tx EXCEPT !.outs = s] :
              s \in changedAt(tx.outs, LAMBDA out :
                        {Output(out.script, out.value + 1), Output(out.script, out.value - 1)}
                          \cup {Output(script, out.value) : script \in scripts})}
      \cup {[tx EXCEPT !.outs = Append(@, Output(script, 1))] : script \in scripts}
      \cup {[tx EXCEPT !.outs = RemoveAt(@, i)] : i \in DOMAIN tx.outs}

inputVariants(in, leaves) ==
    {[in EXCEPT !.witness.value = @ + 1], [in EXCEPT !.leaves = <<>>],
     [in EXCEPT !.sighash = IF @ = SigHashAll THEN SigHashDefault ELSE SigHashAll]}
      \cup {[in EXCEPT !.leaves = s] :
              s \in changedAt(in.leaves, LAMBDA l : {[l EXCEPT !.script = leaf] : leaf \in leaves}
                                                      \cup {[l EXCEPT !.control = {leaf}] : leaf \in leaves})}

packetVariants(p, points, scripts, leaves) ==
    {[p EXCEPT !.tx = tx] : tx \in txVariants(p.tx, points, scripts)}
      \cup {[p EXCEPT !.ins = s] :
              s \in changedAt(p.ins, LAMBDA in : inputVariants(in, leaves))}
      \cup {[p EXCEPT !.tx.ins = Append(@, TxIn(o)), !.ins = Append(@, Last(@))] :
              o \in points}

\* A packet as its wallet or the Operator signs it, on every input.
signedBy(p, key, leaf) ==
    [p EXCEPT !.ins = [i \in DOMAIN p.ins |->
        [p.ins[i] EXCEPT !.sigs = Append(@,
            signTapLeafAtWithSighash(p, i, key, leaf, p.ins[i].sighash))]]]

\* Signatures that are missing, given twice, over another input, or of another
\* key: of one that others hold, or under the name of one that they do not.
signatureVariants(p, others, names) ==
    {[p EXCEPT !.ins = s] :
        s \in changedAt(p.ins, LAMBDA in :
                  {[in EXCEPT !.sigs = <<>>], [in EXCEPT !.sigs = @ \o @]}
                    \cup {[in EXCEPT !.sigs = changed] :
                            changed \in changedAt(in.sigs, LAMBDA sig :
                                {[sig EXCEPT !.by = k] : k \in others}
                                  \cup {[sig EXCEPT !.key = k, !.by = k] : k \in others}
                                  \cup {[sig EXCEPT !.key = k] : k \in names}
                                  \cup {[sig EXCEPT !.over.idx = @ + 1]})})}
=============================================================================
