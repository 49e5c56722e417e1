---------------------------- MODULE BoardPackets ----------------------------
(***************************************************************************)
(* The packets of a boarding (internal/application/vault_board_verify.go   *)
(* and vault_board_finalize.go): the register and delete proofs, and the   *)
(* commitment transaction with the tree of transactions below its batch    *)
(* output, which registerVaultBoard, releaseVaultBoard and                 *)
(* submitVaultBoardCommitment check before the boarding cosigner signs.    *)
(* Attempts, dispatches and crashes are VaultBoard's subject.              *)
(***************************************************************************)
EXTENDS Packets

CONSTANTS
    BoardValue,     \* value of the boarding coin
    BoardFee,       \* what the Operator's fee program asks for it
    BoardFeeCap,    \* the vault's fee ceiling
    BoardDust,      \* the smallest receiver
    BatchExpiry     \* the release's pin of the batch expiry

\* Amounts of sats.
ASSUME BoardAssumption ==
    BoardValue \in Nat /\ BoardFee \in Nat /\ BoardFeeCap \in Nat /\ BoardDust \in Nat

VARIABLE board      \* the operation, its registration, the cosignatures that left

BoardLeaf == <<"boarding", "board-vault", "operator">>
BoardExit == <<"phone">>
BoardScript == {BoardLeaf, BoardExit}
BoardControl == {BoardExit}
BoardingPub == "boarding"
BoardCosigner == "board-vault"

\* The vault's coin, a second one of its boarding address, and a stranger's.
boardPoint == CoinPoint(7, Output(BoardScript, BoardValue))
secondBoardPoint == CoinPoint(8, Output(BoardScript, BoardValue))
strangerPoint == CoinPoint(9, Output({<<"stranger">>}, 2))

RegisterMessage(expireAt) == <<"register", expireAt>>
DeleteMessage(expireAt) == <<"delete", expireAt>>
ExpireAt == 1       \* of the handle that prepare sealed

\* The output of a batch: the keys that sign the tree below it, and the sweep.
BatchScript(cosigners, expiry) == {<<"tree", cosigners>>, <<"sweep", "forfeit", expiry>>}

NoBoard == [state |-> "none", released |-> {}]

-----------------------------------------------------------------------------
(* What the wallet and the Operator hand in. *)

boardProof(message, out) ==
    [tx |-> Transaction(2, <<MessagePoint(message, BoardScript), boardPoint>>, <<out>>),
     ins |-> [i \in 1..2 |-> PInput(Output(BoardScript, IF i = 1 THEN 0 ELSE BoardValue),
                                    BoardLeaf, BoardControl, SigHashAll)],
     extra |-> {message}, revealed |-> <<{}, BoardScript>>]

\* Up to two differences, then the boarding key's signature, or one in that.
madeByBoarder(p) ==
    LET variants(q) == packetVariants(q, {boardPoint, secondBoardPoint, strangerPoint},
                                      {PolicyScript, BoardScript, {<<"elsewhere">>}}, {BoardExit})
        once == {p} \cup variants(p)
    IN  {signedBy(v, BoardingPub, BoardLeaf) : v \in once \cup UNION {variants(v) : v \in once}}
          \cup signatureVariants(signedBy(p, BoardingPub, BoardLeaf), {"phone"}, {BoardCosigner})

proofs(message, otherMessage, out) ==
    madeByBoarder(boardProof(message, out))
      \cup {signedBy(p, BoardingPub, BoardLeaf) :
              p \in {boardProof(otherMessage, out),
                     [boardProof(message, out) EXCEPT !.extra = {otherMessage}],
                     [boardProof(message, out) EXCEPT !.revealed = <<BoardScript, BoardScript>>]}}

\* A batch of the vault and a stranger, as the Operator may build it: what each
\* is paid and where, in a tree of one or two levels.
node(tx, cosigners, children) == [tx |-> tx, cosigners |-> cosigners, children |-> children]
TreeTx(point, outs) == Transaction(3, <<point>>, Append(outs, ANCHOR))

batch(b) ==
    LET script == BatchScript(b.committed, b.expiry)
        pays == <<Output(b.mine, b.amount), Output(b.theirs, 2)>>
        points == <<strangerPoint, boardPoint>>
                    \o (IF b.second THEN <<secondBoardPoint>> ELSE <<>>)
        commitment == Transaction(2, points, <<Output(script, b.amount + 2),
                                               Output({<<"connector">>}, 1)>>)
        packet == [tx |-> commitment,
                   ins |-> [i \in DOMAIN points |->
                              PInput(chainOutput(points[i]), BoardLeaf, BoardControl, SigHashDefault)],
                   extra |-> {}]
        point == OutputPoint(commitment, b.vout)
        flatRoot == node(TreeTx(point, pays), {"t1", "t2"}, {})
        root == TreeTx(point, <<Output(script, b.amount), Output(script, 2)>>)
        leaves == [j \in 1..2 |-> TreeTx(OutputPoint(root, j), <<pays[j]>>)]
    IN  [packet |-> packet, unsigned |-> commitment, index |-> 2, expiry |-> b.expiry,
         amount |-> b.amount,
         tree |-> IF b.levels = 1 THEN <<flatRoot>>
                  ELSE <<node(root, {"t1", "t2"}, {<<j, leaves[j]>> : j \in 1..2})>>
                         \o [j \in 1..2 |-> node(leaves[j], {"t1", "t2"}, {})]]

honest(levels) ==
    [amount |-> BoardValue - BoardFee, mine |-> PolicyScript, theirs |-> {<<"stranger">>},
     committed |-> {"t1", "t2"}, expiry |-> BatchExpiry, levels |-> levels, vout |-> 1,
     second |-> FALSE]

batches ==
    {batch(b) : b \in [amount : {BoardValue - BoardFee, BoardValue - BoardFee - 1},
                       mine : {PolicyScript, {<<"elsewhere">>}},
                       theirs : {PolicyScript, {<<"stranger">>}},
                       committed : {{"t1", "t2"}, {"t3"}},
                       expiry : {BatchExpiry, BatchExpiry - 1},
                       levels : 1..2, vout : 1..2, second : BOOLEAN]}

boarderSigned(e) == [e EXCEPT !.packet = signedBy(@, BoardingPub, BoardLeaf)]

\* The honest batch with a difference in the packet, the evidence or the tree.
evidences ==
    {boarderSigned(e) : e \in batches}
      \cup UNION {LET e == batch(honest(levels))
                  IN  {[e EXCEPT !.packet = p] : p \in madeByBoarder(e.packet)}
                        \cup {[e EXCEPT !.packet = p, !.unsigned = p.tx] :
                                p \in madeByBoarder(e.packet)}
                        \cup {boarderSigned([e EXCEPT !.index = i]) : i \in 1..3}
                        \cup {boarderSigned([e EXCEPT !.amount = @ - 1])}
                        \cup {boarderSigned([e EXCEPT !.tree = t]) :
                                t \in {e.tree \o e.tree, <<>>}
                                        \cup {RemoveAt(e.tree, i) : i \in DOMAIN e.tree}
                                        \cup changedAt(e.tree, LAMBDA n :
                                               {[n EXCEPT !.children = {}], [n EXCEPT !.cosigners = {"t3"}]}
                                                 \cup {[n EXCEPT !.tx = tx] :
                                                         tx \in txVariants(n.tx, {strangerPoint},
                                                                           {PolicyScript, {<<"elsewhere">>}})})}
                  : levels \in 1..2}

-----------------------------------------------------------------------------
(* The service's checks. *)

vaultBoardOutpointMatches(point) == point = boardPoint

verifyVaultBoardIntentProofShape(p, message) ==
    /\ p.extra = {message}
    /\ p.tx.version = 2 /\ p.tx.locktime = 0
    /\ Len(p.tx.ins) = 2 /\ Len(p.ins) = 2
    /\ Len(p.tx.outs) = 1
    /\ vaultBoardOutpointMatches(p.tx.ins[2].point)
    /\ \A i \in 1..2 :
          /\ p.tx.ins[i].final
          /\ p.ins[i].witness = Output(BoardScript, IF i = 1 THEN 0 ELSE BoardValue)
          /\ requireExactLeafWithSighash(p.ins[i], BoardScript, BoardLeaf, BoardControl,
                                         {BoardingPub}, SigHashAll)
          /\ requireVerifiedSignersWithSighash(p, i, {BoardingPub}, BoardLeaf, SigHashAll)
    /\ p.revealed = <<{}, BoardScript>>
    /\ intentVerify(p, message, BoardScript)

verifyVaultBoardRegisterProof(p) ==
    /\ verifyVaultBoardIntentProofShape(p, RegisterMessage(ExpireAt))
    /\ p.tx.outs[1].value \in 1..BoardValue
    /\ p.tx.outs[1].script = PolicyScript

verifyVaultBoardDeleteProof(p) ==
    /\ verifyVaultBoardIntentProofShape(p, DeleteMessage(ExpireAt))
    /\ p.tx.outs[1] = Output(OP_RETURN, 0)

requireVaultBoardFee(receiver) ==
    /\ receiver \in BoardDust..BoardValue
    /\ BoardValue - receiver = BoardFee
    /\ BoardFee <= BoardFeeCap

treeTxs(flat) == {n.tx : n \in Range(flat)}

\* No node twice, and every child among the nodes.
canonicalVaultBoardTree(flat) ==
    /\ flat # <<>>
    /\ Cardinality(treeTxs(flat)) = Len(flat)
    /\ \A n \in Range(flat) : \A c \in n.children : c[2] \in treeTxs(flat)

rootsOf(flat) == {n \in Range(flat) : \A m \in Range(flat) : \A c \in m.children : c[2] # n.tx}

\* NewTxTree and ValidateVtxoTree: one root on the batch output, whose value it
\* spreads, and every child on the output it is filed under, which demands the
\* child's cosigners or the sweep.
ValidateVtxoTree(flat, commitment) ==
    /\ Cardinality(rootsOf(flat)) = 1
    /\ \A root \in rootsOf(flat) :
          /\ Len(root.tx.ins) = 1 /\ root.tx.ins[1].point = OutputPoint(commitment, 1)
          /\ commitment.outs # <<>> /\ outTotal(root.tx) = commitment.outs[1].value
    /\ \A n \in Range(flat) : \A c \in n.children :
          /\ c[1] \in DOMAIN n.tx.outs
          /\ Len(c[2].ins) = 1 /\ c[2].ins[1].point = OutputPoint(n.tx, c[1])
          /\ outTotal(c[2]) = n.tx.outs[c[1]].value
          /\ \A m \in Range(flat) : m.tx = c[2] =>
                n.tx.outs[c[1]].script = BatchScript(m.cosigners, BatchExpiry)

\* Mutation: the batch output is taken to be what the tree's library checked.
MutBatchOutputUnbound(flat, commitment) == TRUE

verifyVaultBoardBatchOutput(flat, commitment) ==
    \A root \in rootsOf(flat) :
        commitment.outs[1].script = BatchScript(root.cosigners, BatchExpiry)

findExactVaultBoardReceiver(flat, amount) ==
    LET leaves == {n \in Range(flat) : n.children = {}}
        found == UNION {{<<n.tx, j>> : j \in DOMAIN n.tx.outs} : n \in leaves}
        matches == {f \in found : f[1].outs[f[2]].script = PolicyScript}
    IN  /\ Cardinality(matches) = 1
        /\ \A f \in matches : f[1].outs[f[2]].value = amount

verifyVaultBoardFinal(e) ==
    LET p == e.packet
    IN  /\ e.expiry = BatchExpiry
        /\ e.amount > 0 /\ e.amount = board.receiver
        /\ board.receiver + board.fee = BoardValue
        /\ p.tx = e.unsigned
        /\ p.tx.version = 2 /\ p.tx.locktime = 0
        /\ e.index \in DOMAIN p.ins /\ e.index \in DOMAIN p.tx.ins
        /\ vaultBoardOutpointMatches(p.tx.ins[e.index].point)
        /\ \A i \in DOMAIN p.ins \ {e.index} : p.ins[i].witness.script # BoardScript
        /\ p.ins[e.index].witness = Output(BoardScript, BoardValue)
        /\ requireExactLeafWithSighash(p.ins[e.index], BoardScript, BoardLeaf, BoardControl,
                                       {BoardingPub}, SigHashDefault)
        /\ requireVerifiedSignersWithSighash(p, e.index, {BoardingPub}, BoardLeaf, SigHashDefault)
        /\ canonicalVaultBoardTree(e.tree)
        /\ ValidateVtxoTree(e.tree, e.unsigned)
        /\ verifyVaultBoardBatchOutput(e.tree, e.unsigned)
        /\ findExactVaultBoardReceiver(e.tree, e.amount)

-----------------------------------------------------------------------------
(* The three phases. *)

\* authorizeVaultBoard: the signatures on the inputs named, and on no other.
authorizeVaultBoard(p, idxs, sighash) ==
    cosignaturesOf(signExactVaultBoardStage(p, idxs, BoardCosigner, BoardLeaf, sighash),
                   BoardCosigner)

registerVaultBoard(p) ==
    LET receiver == p.tx.outs[1].value
    IN  /\ board.state = "prepared"
        /\ verifyVaultBoardRegisterProof(p)
        /\ requireVaultBoardFee(receiver)
        /\ canSignVaultBoardStage(p, {1, 2}, BoardCosigner, BoardLeaf, SigHashAll)
        /\ board' = [state |-> "registered", receiver |-> receiver, fee |-> BoardValue - receiver,
                     tree |-> <<>>, released |-> authorizeVaultBoard(p, {1, 2}, SigHashAll)]

releaseVaultBoard(p) ==
    /\ board.state = "registered"
    /\ verifyVaultBoardDeleteProof(p)
    /\ canSignVaultBoardStage(p, {1, 2}, BoardCosigner, BoardLeaf, SigHashAll)
    /\ board' = [board EXCEPT !.state = "released",
                              !.released = @ \cup authorizeVaultBoard(p, {1, 2}, SigHashAll)]

submitVaultBoardCommitment(e) ==
    /\ board.state = "registered"
    /\ verifyVaultBoardFinal(e)
    /\ canSignVaultBoardStage(e.packet, {e.index}, BoardCosigner, BoardLeaf, SigHashDefault)
    /\ board' = [board EXCEPT !.state = "committed", !.tree = e.tree,
                    !.released = @ \cup authorizeVaultBoard(e.packet, {e.index}, SigHashDefault)]

BoardInit == board = [state |-> "prepared", released |-> {}]

BoardNext ==
    \/ /\ board.state = "prepared"
       /\ \E p \in proofs(RegisterMessage(ExpireAt), RegisterMessage(ExpireAt + 1),
                           Output(PolicyScript, BoardValue - BoardFee)) : registerVaultBoard(p)
    \/ /\ board.state = "registered"
       /\ \/ \E p \in proofs(DeleteMessage(ExpireAt), RegisterMessage(ExpireAt),
                              Output(OP_RETURN, 0)) : releaseVaultBoard(p)
          \/ \E e \in evidences : submitVaultBoardCommitment(e)

-----------------------------------------------------------------------------
(* Properties. *)

\* Transactions of the tree that can follow the commitment on chain: each spends
\* an output that its cosigners share with nobody but the sweep, and no more
\* than that output holds.
follows(n, tx) ==
    \E j \in DOMAIN tx.outs :
        /\ [k \in DOMAIN n.tx.ins |-> n.tx.ins[k].point] = <<OutputPoint(tx, j)>>
        /\ tx.outs[j].script = BatchScript(n.cosigners, BatchExpiry)
        /\ outTotal(n.tx) <= tx.outs[j].value

\* The nodes that can follow the transaction on chain, at any depth: those in
\* every set that holds what follows it and what follows a member.
Reached(n, flat, tx) ==
    \A R \in SUBSET Range(flat) :
        /\ \A m \in Range(flat) : follows(m, tx) => m \in R
        /\ \A m \in R, k \in Range(flat) : follows(k, m.tx) => k \in R
        => n \in R

\* Such a node pays the vault the coin's value less the fee, and no other output
\* of a leaf pays the vault.
PaysVault(flat, tx) ==
    \E n \in Range(flat) : \E j \in DOMAIN n.tx.outs :
        /\ Reached(n, flat, tx)
        /\ n.tx.outs[j].script = PolicyScript /\ n.tx.outs[j].value = BoardValue - BoardFee
        /\ \A m \in Range(flat) : \A k \in DOMAIN m.tx.outs :
              m.children = {} /\ m.tx.outs[k].script = PolicyScript => m.tx = n.tx /\ k = j

\* The signature is for this coin, in a transaction that spends no other coin of
\* the vault's boarding address.
boardsOwnCoin(s) ==
    LET tx == s.over.tx
    IN  /\ {i \in DOMAIN tx.ins : chainOutput(tx.ins[i].point).script = BoardScript} = {s.over.idx}
        /\ tx.ins[s.over.idx].point = boardPoint

\* verifyVaultBoardFinal, signExactVaultBoardStage: whatever proofs, commitments
\* and trees come in, a signature of the boarding cosigner that the chain accepts
\* spends this coin and no other of the vault's boarding address, and below the
\* transaction it is in, however deep the tree, a transaction that its cosigners
\* can publish pays the vault the coin's value less the fee, once.
BoardingPays ==
    \A s \in board.released :
        validOnChain(s) => boardsOwnCoin(s) /\ PaysVault(board.tree, s.over.tx)
=============================================================================
