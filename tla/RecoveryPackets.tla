--------------------------- MODULE RecoveryPackets ---------------------------
(***************************************************************************)
(* The packet of a Savings transition: what SignTransition                 *)
(* (internal/application/transition.go) demands of it, what the vault      *)
(* cosigner signs (signer.go), and how the public Emulator's answer is cut *)
(* down to one signature (psbtguard.go). The Emulator is remote and may    *)
(* answer anything. Replays and rates are SavingsRecovery's subject, the   *)
(* trees as a whole VaultCustody's.                                        *)
(*                                                                         *)
(* A key is a sequence: a device's, or a cosigner's with the authorization *)
(* script it is tweaked by.                                                *)
(***************************************************************************)
EXTENDS Packets

CONSTANTS
    SavingsValue,     \* value of the coin
    TransitionFeeCap, \* the lower of the script's two fee ceilings
    TransitionDust

\* Amounts of sats.
ASSUME TransitionAssumption ==
    SavingsValue \in Nat /\ TransitionFeeCap \in Nat /\ TransitionDust \in Nat

VARIABLE recovery     \* the request in hand and what became of it

Roles == {"phone", "hardware", "recovery"}
P2AValueSats == 1
P2A == Output({<<<<"p2a">>>>}, P2AValueSats)

device(r) == <<r>>
ComputeArkadeScriptPublicKey(cosigner, script) == <<cosigner, script>>

\* BuildTransitionScript: the destination, and the phone's own P-256 signature.
transitionScript(dest, phone) == [dest |-> dest, phone |-> phone]

Checksig(role, script) ==
    <<device(role), ComputeArkadeScriptPublicKey("vault", script),
      ComputeArkadeScriptPublicKey("arkade", script)>>

\* The other devices together.
guardians(c) == SetToSeq({device(g) : g \in Roles \ {c}})

QuarantineTree(c) == {guardians(c)}
clawbackScript(c) == transitionScript(QuarantineTree(c), FALSE)
PendingTree(c) == {<<device(c)>>, guardians(c)} \cup {Checksig(g, clawbackScript(c)) : g \in Roles \ {c}}
initiateScript(c) == transitionScript(PendingTree(c), c = "phone")
SavingsTree ==
    {<<device("phone"), device("hardware")>>} \cup {Checksig(c, initiateScript(c)) : c \in Roles}

\* What a purpose allows: who signs which leaf of which tree, into which other.
transitions(purpose) ==
    IF purpose = "initiate"
    THEN {[role |-> c, input |-> SavingsTree, script |-> initiateScript(c)] : c \in Roles}
    ELSE UNION {{[role |-> g, input |-> PendingTree(c), script |-> clawbackScript(c)] :
                    g \in Roles \ {c}} : c \in Roles}

leafOf(t) == Checksig(t.role, t.script)

NoRecovery == [state |-> "none", released |-> {}]

-----------------------------------------------------------------------------
(* What a claimant hands in, and what the Emulator answers. *)

\* The transaction that made the coin, with a second output of another value.
funding(tree) ==
    Transaction(2, <<CoinPoint(1, ANCHOR)>>, <<Output(tree, SavingsValue), Output(tree, SavingsValue + 1)>>)
stranger == Transaction(2, <<CoinPoint(2, ANCHOR)>>, <<Output({<<device("elsewhere")>>}, SavingsValue)>>)

packetOutput(script, auth) == Output({<<device("packet"), script, auth>>}, 0)

transitionOf(t) ==
    LET outs == <<Output(t.script.dest, SavingsValue - P2AValueSats), P2A,
                  packetOutput(t.script, t.script.phone)>>
        tx == Transaction(2, <<OutputPoint(funding(t.input), 1)>>, outs)
    IN  [tx |-> [tx EXCEPT !.ins[1].final = FALSE],
         ins |-> <<PInput(Output(t.input, SavingsValue), leafOf(t), t.input \ {leafOf(t)},
                          SigHashDefault)>>,
         extra |-> {funding(t.input)}]

feeVariants(p) ==
    {[p EXCEPT !.tx.outs[1].value = @ - fee] : fee \in {TransitionFeeCap, TransitionFeeCap + 1}}

transitionVariants(p, t) ==
    packetVariants(p, {OutputPoint(funding(t.input), 2), OutputPoint(stranger, 1)},
                   {SavingsTree, {<<device("elsewhere")>>}}, {leafOf(u) : u \in transitions("initiate")})
      \cup feeVariants(p)
      \cup {[p EXCEPT !.extra = e] : e \in {{}, {stranger}, {stranger, funding(t.input)}}}
      \cup {[p EXCEPT !.tx.outs = Append(SubSeq(@, 1, 2), packetOutput(script, TRUE))] :
              script \in {initiateScript(c) : c \in Roles}}
      \cup {[p EXCEPT !.tx.outs = Append(SubSeq(@, 1, 2), packetOutput(t.script, FALSE))]}

claimantSigned(p, t) == signedBy(p, device(t.role), leafOf(t))

requestsOf(t) ==
    LET p == transitionOf(t)
        once == {p} \cup transitionVariants(p, t)
    IN  {claimantSigned(v, t) : v \in once \cup UNION {transitionVariants(v, t) : v \in once}}
          \cup signatureVariants(claimantSigned(p, t), {device("other")},
                                 {ComputeArkadeScriptPublicKey("vault", t.script)})

\* Nothing, a signature, or two, added to the packet or in place of what it had;
\* in the right packet or another.
answers ==
    LET p == recovery.packet
        arkade == ComputeArkadeScriptPublicKey("arkade", recovery.binding.script)
        right == signTapLeafAtWithSighash(p, 1, arkade, leafOf(recovery.binding), SigHashDefault)
        other == signTapLeafAtWithSighash(p, 1, device("other"), leafOf(recovery.binding), SigHashDefault)
        sigs == {right, other, [other EXCEPT !.key = arkade], [right EXCEPT !.sighash = SigHashAll],
                 [right EXCEPT !.leaf = <<device("other")>>], [right EXCEPT !.over.tx = stranger]}
        added == {<<>>} \cup {<<a>> : a \in sigs} \cup {<<a, b>> : a \in sigs, b \in sigs}
    IN  {[p EXCEPT !.ins[1].sigs = kept \o new] : kept \in {<<>>, p.ins[1].sigs}, new \in added}
          \cup {[p EXCEPT !.tx = stranger, !.ins[1].sigs = <<right>>],
                [p EXCEPT !.ins = Append(@, Last(@))], [p EXCEPT !.ins = <<>>]}

-----------------------------------------------------------------------------
(* SignTransition's checks. *)

RequireVerifiedPrevout(p) ==
    LET point == p.tx.ins[1].point
    IN  /\ Len(p.ins) = 1 /\ Len(p.tx.ins) = 1
        /\ p.extra = {point[2]}
        /\ point[3] \in DOMAIN point[2].outs
        /\ p.ins[1].witness = point[2].outs[point[3]]

validateTransitionPacket(p) ==
    /\ p.tx.outs # <<>>
    /\ p.tx.version = 2 /\ p.tx.locktime = 0
    /\ Len(p.tx.ins) = 1 /\ Len(p.ins) = 1
    /\ ~ p.tx.ins[1].final
    /\ p.ins[1].sighash = SigHashDefault
    /\ Len(p.ins[1].leaves) = 1

\* The binding of a rebuilt tree, its leaf and the destination of that leaf.
resolveTransitionBinding(p, purpose, t) ==
    /\ t \in transitions(purpose)
    /\ p.ins[1].witness.script = t.input
    /\ p.ins[1].leaves[1].script = leafOf(t)
    /\ p.tx.outs[1].script = t.script.dest

verifyTransitionClaimantSig(p, t) ==
    LET sigs == p.ins[1].sigs
        mine == {i \in DOMAIN sigs : sigs[i].key = device(t.role) /\ sigs[i].leaf = leafOf(t)}
        first == sigs[Min(mine)]
    IN  /\ mine # {}
        /\ first.sighash = SigHashDefault
        /\ verifySchnorrOnInputWithSighash(p, 1, first, device(t.role), leafOf(t), SigHashDefault)

-----------------------------------------------------------------------------
(* The two cosigners. *)

\* assembleTransitionScript, run over the transaction and its verified prevout.
scriptExecutes(script, auth, tx, prev) ==
    /\ tx.version = 2 /\ tx.locktime = 0 /\ Len(tx.ins) = 1 /\ ~ tx.ins[1].final
    /\ Len(tx.outs) = 3
    /\ tx.outs[1].script = script.dest /\ tx.outs[1].value >= TransitionDust
    /\ tx.outs[2] = P2A
    /\ tx.outs[3] = packetOutput(script, auth)
    /\ prev.value - tx.outs[1].value - P2AValueSats \in 0..TransitionFeeCap
    /\ script.phone => auth

\* LocalSigner.Sign: the key is tweaked by the script that the packet shows, and
\* the leaf demands that key and is one of the coin's.
LocalSignerSigns(p, script, auth) ==
    LET leaf == p.ins[1].leaves[1]
    IN  /\ Range(p.tx.outs) \cap {packetOutput(script, auth)} # {}
        /\ ComputeArkadeScriptPublicKey("vault", script) \in Range(leaf.script)
        /\ RequireVerifiedPrevout(p)
        /\ scriptExecutes(script, auth, p.tx, p.ins[1].witness)
        /\ p.ins[1].sighash = SigHashDefault
        /\ controlBlockMatches(p.ins[1].witness.script, leaf.script, leaf.control)

LocalSigner(p, script) ==
    signInputs(p, {1}, ComputeArkadeScriptPublicKey("vault", script), p.ins[1].leaves[1].script,
               SigHashDefault)

\* Signatures of an answer that the submitted packet did not have: each of its
\* own is matched once.
newSigs(submitted, response) ==
    LET got == response.ins[1].sigs
    IN  {k \in DOMAIN got : \/ got[k] \notin Range(submitted.ins[1].sigs)
                            \/ \E j \in 1..(k - 1) : got[j] = got[k]}

\* Mutation: a signature under the expected name is taken unverified.
MutExtractByName(submitted, response, key) ==
    {k \in newSigs(submitted, response) : response.ins[1].sigs[k].key = key}

\* The places of the answer's new signatures that verify, over what was
\* submitted and not over what came back.
extractVerifiedSignerSig(submitted, response, key) ==
    LET leaf == submitted.ins[1].leaves[1].script
    IN  {k \in newSigs(submitted, response) :
            LET s == response.ins[1].sigs[k]
            IN  /\ s.key = key /\ s.leaf = leaf /\ s.sighash = SigHashDefault
                /\ verifySchnorrOnInputWithSighash(submitted, 1, s, key, leaf, SigHashDefault)}

\* signExactStage: one new signature or none at all; the packet stays as submitted.
answered(submitted, response, key) ==
    /\ Len(response.ins) = 1 /\ Len(response.tx.ins) = 1
    /\ Cardinality(extractVerifiedSignerSig(submitted, response, key)) = 1

signExactStage(submitted, response, key) ==
    LET k == CHOOSE i \in extractVerifiedSignerSig(submitted, response, key) : TRUE
    IN  [submitted EXCEPT !.ins[1].sigs = Append(@, response.ins[1].sigs[k])]

-----------------------------------------------------------------------------
(* The call. *)

\* SignTransition up to the call of the Emulator, which gets to see the vault
\* cosigner's signature.
SignTransition(p, purpose, t, script, auth) ==
    LET vaultKey == ComputeArkadeScriptPublicKey("vault", t.script)
        stage == signExactStage(p, LocalSigner(p, script), vaultKey)
    IN  /\ recovery.state = "open"
        /\ RequireVerifiedPrevout(p)
        /\ validateTransitionPacket(p)
        /\ resolveTransitionBinding(p, purpose, t)
        /\ verifyTransitionClaimantSig(p, t)
        /\ LocalSignerSigns(p, script, auth)
        /\ answered(p, LocalSigner(p, script), vaultKey)
        /\ recovery' = [state |-> "asked", binding |-> t, submitted |-> p, packet |-> stage,
                        released |-> recovery.released \cup cosignaturesOf(stage, vaultKey)]

\* authorizeSavingsRecoveryStage
EmulatorAnswers(response) ==
    LET key == ComputeArkadeScriptPublicKey("arkade", recovery.binding.script)
    IN  /\ recovery.state = "asked"
        /\ recovery' = IF answered(recovery.packet, response, key)
                       THEN [recovery EXCEPT !.state = "done",
                                             !.packet = signExactStage(@, response, key)]
                       ELSE [recovery EXCEPT !.state = "failed"]

RecoveryInit == recovery = [state |-> "open", released |-> {}]

RecoveryNext ==
    \/ /\ recovery.state = "open"
       /\ \E purpose \in {"initiate", "clawback"} : \E t \in transitions(purpose) :
             \E p \in requestsOf(t), script \in {t.script, initiateScript("hardware")}, auth \in BOOLEAN :
                SignTransition(p, purpose, t, script, auth)
    \/ /\ recovery.state = "asked"
       /\ \E response \in answers : EmulatorAnswers(response)

-----------------------------------------------------------------------------
(* Properties. *)

signs(k, sigs, tx) == \E s \in sigs : s.by = k /\ s.over.tx = tx /\ validOnChain(s)

\* SignTransition, LocalSigner, signExactStage: whatever packet a claimant hands
\* in and whatever the Emulator answers, a signature of the vault cosigner that
\* leaves, even in a call that fails, moves a coin of a rebuilt tree to the tree
\* that its leaf is bound to, for at most the anchor and the fee ceiling, and the
\* claimant has signed that move; and an answer served carries the claimant's
\* signature and both cosigners', all valid, on the packet as it was submitted.
TransitionPays ==
    /\ \A s \in recovery.released :
          LET tx == s.over.tx
              t == recovery.binding
          IN  /\ inTotal(tx) - paid(tx, t.script.dest) <= P2AValueSats + TransitionFeeCap
              /\ chainOutput(tx.ins[1].point).script = t.input
              /\ validOnChain(s)
              /\ signs(device(t.role), Range(recovery.submitted.ins[1].sigs), tx)
    /\ recovery.state = "done" =>
          LET p == recovery.packet
              sigs == Range(p.ins[1].sigs)
          IN  /\ unsigned(p) = unsigned(recovery.submitted)
              /\ \A c \in {"vault", "arkade"} :
                    signs(ComputeArkadeScriptPublicKey(c, recovery.binding.script), sigs, p.tx)
              /\ signs(device(recovery.binding.role), sigs, p.tx)
=============================================================================
