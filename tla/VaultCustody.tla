---------------------------- MODULE VaultCustody ----------------------------
(***************************************************************************)
(* Who can move a vault's coin on chain. The script trees are the ones the *)
(* service rebuilds from the enrolled keys: the Savings family             *)
(* (internal/vault/savings/family.go, trees.go, transition.go), the        *)
(* Spending tree (internal/policy/vtxo_script.go) and the boarding tree    *)
(* (internal/application/vtxo_tree.go). One coin moves through them,       *)
(* between an owner who loses keys and another party that comes to hold    *)
(* some, while SignTransition (internal/application/transition.go) adds    *)
(* the cosigner signatures, one destination per outpoint and purpose.      *)
(*                                                                         *)
(* A leaf is what it demands: device keys, a relative delay, and, when it  *)
(* has cosigner keys, what those keys are tweaked by or guarded with.      *)
(***************************************************************************)
EXTENDS RecoverySession, Integers, FiniteSets

CONSTANTS
    HardwareRecoveryCSVBlocks, PhoneRecoveryCSVBlocks, RecoveryCSVBlocks,
    PolicyExitDelay, BoardExitDelay,   \* the CSV delays, in blocks
    AbsoluteFeeCap,                    \* fee ceiling of a transition
    P2AValue, Dust,                    \* anchor value and smallest output
    Amounts,                           \* values of the coin at the start
    MaxCopied,                         \* keys the other party may come to hold
    Watch                              \* blocks within which the owner reacts

ASSUME CustodyConstants ==
    /\ {HardwareRecoveryCSVBlocks, PhoneRecoveryCSVBlocks, RecoveryCSVBlocks,
        PolicyExitDelay, BoardExitDelay, AbsoluteFeeCap, P2AValue, Dust,
        MaxCopied, Watch} \subseteq Nat
    /\ Amounts \subseteq Nat
    /\ Watch < HardwareRecoveryCSVBlocks
    /\ Watch < PhoneRecoveryCSVBlocks
    /\ Watch < RecoveryCSVBlocks

VARIABLES
    tier,       \* protection tier: standard forbids a recovery key
    held,       \* per party: the keys it can sign with
    service,    \* the service and the public Emulator answer, or not
    coin,       \* where the coin is, its value and the blocks since
    coinSessions, \* recovery_session of the present outpoint, per purpose
    signed,     \* cosigned transitions of the present outpoint, per holder
    started     \* history: where the coin began, its value, who initiated

custodyVars == <<tier, held, service, coin, coinSessions, signed, started>>

Parties == {"owner", "other"}
TransitionPurposes == {"initiate", "clawback"}

-----------------------------------------------------------------------------
(* Trees. *)

Savings == <<"savings">>
Pending(c) == <<"pending", c>>
Quarantine(c) == <<"quarantine", c>>
Spending == <<"vtxo">>
Boarding == <<"board">>
OutTo(p) == <<"out", p>>

familyClaimants ==
    IF tier = "advanced" THEN {"phone", "hardware", "recovery"} ELSE {"phone", "hardware"}

\* Mutation: a claw-back pays a tree the claimant has a part in.
MutGuardiansWithClaimant(c) == {c}

quarantineGuardians(c) == familyClaimants \ {c}

pendingDelay(c) ==
    CASE c = "hardware" -> HardwareRecoveryCSVBlocks
      [] c = "phone" -> PhoneRecoveryCSVBlocks
      [] OTHER -> RecoveryCSVBlocks

\* Device keys and no cosigner, after the delay.
csvChecksig(blocks, keys) ==
    [keys |-> keys, cosigners |-> {}, delay |-> blocks, auth |-> None]
checksig(keys) == csvChecksig(0, keys)

\* The authorization script that a cosigner pair is tweaked by: what it pins.
BuildTransitionScript(dest) == [dest |-> dest, feeCap |-> AbsoluteFeeCap]

\* A leaf with both cosigner keys, tweaked by one authorization script.
tweakedChecksig(key, auth) ==
    [keys |-> {key}, cosigners |-> {"vault", "arkade"}, delay |-> 0, auth |-> auth]

initiateLeaf(c) == tweakedChecksig(c, BuildTransitionScript(Pending(c)))
clawbackLeaf(c, g) == tweakedChecksig(g, BuildTransitionScript(Quarantine(c)))

BuildSavings ==
    {checksig({"phone", "hardware"})} \cup {initiateLeaf(c) : c \in familyClaimants}

BuildQuarantine(c) == {checksig(quarantineGuardians(c))}

\* The claim after the delay, a claw-back per guardian, and the guardians
\* together without a server. The padding leaf cannot be spent.
BuildPending(c) ==
    {csvChecksig(pendingDelay(c), {c})}
      \cup {clawbackLeaf(c, g) : g \in familyClaimants \ {c}}
      \cup {checksig(familyClaimants \ {c})}

exitKeys == IF tier = "advanced" THEN {"hardware", "recovery"} ELSE {"phone", "hardware"}

\* A leaf with cosigner keys as they are: what they sign is up to their holders.
collaborative(cosigners) ==
    [keys |-> {"phone"}, cosigners |-> cosigners, delay |-> 0, auth |-> None]

\* Payments by the spend leaf are VtxoSpend; their change stays in this tree. No
\* operation of the service signs the delegate leaf.
BuildVaultPolicyV1Tree ==
    {collaborative({"vault", "operator"}),
     csvChecksig(PolicyExitDelay, exitKeys),
     collaborative({"vault", "delegate", "operator"})}

\* The boarding key lives on the phone.
boardLeaf == collaborative({"vault", "operator"})
buildVtxoBoardTree == {boardLeaf, csvChecksig(BoardExitDelay, {"phone"})}

\* BuildFamily and the two trees beside it: the leaves of a tree.
Leaves(tree) ==
    CASE tree[1] = "savings" -> BuildSavings
      [] tree[1] = "pending" -> BuildPending(tree[2])
      [] tree[1] = "quarantine" -> BuildQuarantine(tree[2])
      [] tree[1] = "vtxo" -> BuildVaultPolicyV1Tree
      [] tree[1] = "board" -> buildVtxoBoardTree
      [] OTHER -> {}

Outside == coin.tree[1] = "out"

\* The age of the coin is counted up to the longest delay.
Delays == {HardwareRecoveryCSVBlocks, PhoneRecoveryCSVBlocks, RecoveryCSVBlocks,
           PolicyExitDelay, BoardExitDelay}
MaxDelay == CHOOSE d \in Delays : \A e \in Delays : e <= d

CustodyInit ==
    /\ tier \in {"standard", "advanced"}
    /\ held = [p \in Parties |-> IF p = "owner" THEN familyClaimants ELSE {}]
    /\ service = "up"
    /\ \E tree \in {Savings, Spending, Boarding}, value \in Amounts :
          /\ coin = [tree |-> tree, value |-> value, age |-> 0]
          /\ started = [tree |-> tree, value |-> value, by |-> None, claimant |-> None]
    /\ coinSessions = [purpose \in TransitionPurposes |-> NoSession]
    /\ signed = {}

\* The coin has a new outpoint, without rows; what was signed for the old is void.
MoveTo(tree, value) ==
    /\ coin' = [tree |-> tree, value |-> value, age |-> 0]
    /\ coinSessions' = [purpose \in TransitionPurposes |-> NoSession]
    /\ signed' = {}

-----------------------------------------------------------------------------
(* SignTransition: initiate and clawback. *)

\* The tree, the leaf and the destination must be one rebuilt transition.
resolveTransitionBinding(purpose, leaf, dest) ==
    IF purpose = "initiate"
    THEN /\ coin.tree = Savings
         /\ \E c \in familyClaimants : leaf = initiateLeaf(c) /\ dest = Pending(c)
    ELSE \E c \in familyClaimants :
            /\ coin.tree = Pending(c)
            /\ \E g \in familyClaimants \ {c} : leaf = clawbackLeaf(c, g)
            /\ dest = Quarantine(c)

\* Mutation: the fee of a transition has no ceiling.
MutScriptNoCap(auth, tx) ==
    /\ tx.dest = auth.dest
    /\ tx.value >= Dust
    /\ coin.value - tx.value - P2AValue >= 0

\* What the authorization script demands of a transition.
scriptAllows(auth, tx) ==
    /\ tx.dest = auth.dest
    /\ tx.value >= Dust
    /\ coin.value - tx.value - P2AValue \in 0..auth.feeCap

\* The fees a caller may propose: none, the ceiling, one above it.
proposals(dest) ==
    {[dest |-> dest, value |-> coin.value - P2AValue - fee] :
        fee \in {0, AbsoluteFeeCap, AbsoluteFeeCap + 1}}

requested(p, purpose, leaf, tx) ==
    /\ service = "up"
    /\ leaf \in Leaves(coin.tree)
    /\ leaf.auth # None
    /\ tx \in proposals(leaf.auth.dest)
    /\ leaf.keys \subseteq held[p]
    /\ resolveTransitionBinding(purpose, leaf, tx.dest)

\* An owner claws back only what another party may have initiated.
wanted(p, purpose) ==
    p = "owner" /\ purpose = "clawback" => \E c \in held["other"] : coin.tree = Pending(c)

\* The transition is written ahead; both cosigners sign it if its script allows
\* it; the second write records the signature. A replay answers a stored one.
cosigned(p, purpose, leaf, tx) ==
    LET old == coinSessions[purpose]
        ahead == ApplyRecoveryReplay(old, tx.dest, tx, None)
    IN  /\ requested(p, purpose, leaf, tx)
        /\ wanted(p, purpose)
        /\ CASE DecideReplay(old, tx.dest, tx) = "refuse" -> FALSE
             [] DecideReplay(old, tx.dest, tx) = "replay" ->
                  old.sig = tx /\ UNCHANGED coinSessions
             [] OTHER ->
                  /\ scriptAllows(leaf.auth, tx)
                  /\ coinSessions' = [coinSessions EXCEPT ![purpose] =
                                    ApplyRecoveryReplay(ahead, tx.dest, tx, tx)]
        /\ signed' = signed \cup {[by |-> p, tx |-> tx]}
        /\ UNCHANGED <<tier, held, service, coin, started>>

\* The same call, but the cosigners refuse or fail, or the answer is lost.
cosigningFails(p, purpose, leaf, tx) ==
    LET ahead == ApplyRecoveryReplay(coinSessions[purpose], tx.dest, tx, None)
    IN  /\ requested(p, purpose, leaf, tx)
        /\ wanted(p, purpose)
        /\ \/ coinSessions' = [coinSessions EXCEPT ![purpose] = ahead]
           \/ /\ scriptAllows(leaf.auth, tx)
              /\ coinSessions' = [coinSessions EXCEPT ![purpose] =
                                ApplyRecoveryReplay(ahead, tx.dest, tx, tx)]
        /\ UNCHANGED <<tier, held, service, coin, signed, started>>

\* A holder broadcasts a transition both cosigners signed.
Broadcast(p, s) ==
    /\ s \in signed
    /\ s.by = p
    /\ MoveTo(s.tx.dest, s.tx.value)
    /\ started' = IF coin.tree = Savings
                  THEN [started EXCEPT !.by = p, !.claimant = s.tx.dest[2]] ELSE started
    /\ UNCHANGED <<tier, held, service>>

-----------------------------------------------------------------------------
(* Spends that need no transition. *)

\* Device keys alone, once the delay has passed; the spender chooses the payee.
SpendAlone(p, leaf) ==
    /\ leaf \in Leaves(coin.tree)
    /\ leaf.cosigners = {}
    /\ leaf.keys \subseteq held[p]
    /\ coin.age >= leaf.delay
    /\ MoveTo(OutTo(p), coin.value)
    /\ UNCHANGED <<tier, held, service, started>>

\* Boarding: VaultBoardCosigner and Operator sign a batch that pays the vault's
\* own Spending tree.
Board(p) ==
    /\ service = "up"
    /\ coin.tree = Boarding
    /\ \E leaf \in Leaves(coin.tree) :
          leaf.cosigners = {"vault", "operator"} /\ leaf.keys \subseteq held[p]
    /\ MoveTo(Spending, coin.value)
    /\ UNCHANGED <<tier, held, service, started>>

-----------------------------------------------------------------------------
(* Loss, disclosure, outage, time. *)

LoseKey(k) ==
    /\ ~ Outside
    /\ k \in held["owner"]
    /\ held' = [held EXCEPT !["owner"] = @ \ {k}]
    /\ UNCHANGED <<tier, service, coin, coinSessions, signed, started>>

\* The other party comes to hold a key, also one the owner lost.
CopyKey(k) ==
    /\ ~ Outside
    /\ Cardinality(held["other"] \cup {k}) <= MaxCopied
    /\ held' = [held EXCEPT !["other"] = @ \cup {k}]
    /\ UNCHANGED <<tier, service, coin, coinSessions, signed, started>>

ServiceStops ==
    /\ service = "up" /\ ~ Outside
    /\ service' = "down"
    /\ UNCHANGED <<tier, held, coin, coinSessions, signed, started>>

\* The owner can cancel another party's claim now.
canCancel(c) ==
    \/ familyClaimants \ {c} \subseteq held["owner"]
    \/ /\ service = "up"
       /\ (familyClaimants \ {c}) \cap held["owner"] # {}
       /\ \E tx \in proposals(Quarantine(c)) :
             /\ scriptAllows(BuildTransitionScript(Quarantine(c)), tx)
             /\ DecideReplay(coinSessions["clawback"], tx.dest, tx) \in {"sign", "resign"}
    \/ \E s \in signed : s.by = "owner"

\* A block, unless the owner watches and has yet to cancel a claim of a key that
\* another party holds too.
Block ==
    /\ ~ Outside
    /\ coin.age < MaxDelay
    /\ ~ \E c \in held["other"] :
            coin.tree = Pending(c) /\ coin.age >= Watch /\ canCancel(c)
    /\ coin' = [coin EXCEPT !.age = @ + 1]
    /\ UNCHANGED <<tier, held, service, coinSessions, signed, started>>

SignAny(p) ==
    \E purpose \in TransitionPurposes, leaf \in Leaves(coin.tree) :
        leaf.auth # None /\ \E tx \in proposals(leaf.auth.dest) : cosigned(p, purpose, leaf, tx)
BroadcastAny(p) == \E s \in signed : Broadcast(p, s)
SpendAny(p) == \E leaf \in Leaves(coin.tree) : SpendAlone(p, leaf)

CustodyNext ==
    \/ \E p \in Parties : SignAny(p) \/ BroadcastAny(p) \/ SpendAny(p) \/ Board(p)
    \/ \E p \in Parties, purpose \in TransitionPurposes, leaf \in Leaves(coin.tree) :
          leaf.auth # None /\ \E tx \in proposals(leaf.auth.dest) :
              cosigningFails(p, purpose, leaf, tx)
    \/ \E k \in familyClaimants : LoseKey(k) \/ CopyKey(k)
    \/ ServiceStops
    \/ Block

CustodySpec == CustodyInit /\ [][CustodyNext]_custodyVars

\* An owner who can sign, broadcast or spend in the end does, and blocks keep
\* coming. The other party, losses and outages owe nothing.
FairSpec ==
    /\ CustodySpec
    /\ WF_custodyVars(SignAny("owner")) /\ WF_custodyVars(BroadcastAny("owner"))
    /\ WF_custodyVars(SpendAny("owner")) /\ WF_custodyVars(Block)

-----------------------------------------------------------------------------
(* Properties. *)

\* BuildFamily, BuildPending, BuildQuarantine: a party that holds one key never
\* takes the coin from a watching owner who holds the others, whatever it signs,
\* and with the service down too. Three cases are by design: a claim the owner
\* started with that very key, which either may complete; in the standard tier a
\* claim the owner started with the other key, whose only guardian it is; and a
\* boarding output that was never boarded, which the phone exits alone.
OneKeyNeverTakes ==
    \A k \in familyClaimants :
        /\ coin.tree = OutTo("other")
        /\ held["other"] = {k}
        /\ familyClaimants \ {k} \subseteq held["owner"]
        => \/ started.by = "owner" /\ (tier = "standard" \/ started.claimant = k)
           \/ started.tree = Boarding /\ k = "phone"

\* BuildTransitionScript: however a coin is initiated and clawed back, and
\* whoever chooses the fees, the two transitions together cost at most two
\* anchors and two fee ceilings.
LossBounded == coin.value >= started.value - 2 * (P2AValue + AbsoluteFeeCap)

\* The initiate row of the coin's outpoint still lets a held key through: it is
\* empty, or it is for that key's tree and the transition written ahead is signed
\* or can be.
initiateOpen(c) ==
    LET s == coinSessions["initiate"]
    IN  \/ s = NoSession /\ coin.value >= P2AValue + Dust
        \/ /\ s.dest = Pending(c)
           /\ s.sig # None \/ scriptAllows(BuildTransitionScript(Pending(c)), s.sighash)

\* The keys the owner still holds suffice where the coin is, and nobody else
\* holds one.
Savable ==
    LET mine == held["owner"]
    IN  /\ held["other"] = {}
        /\ CASE coin.tree = Savings ->
                  \/ {"phone", "hardware"} \subseteq mine
                  \/ service = "up" /\ \E c \in mine : initiateOpen(c)
             [] coin.tree[1] = "pending" ->
                  coin.tree[2] \in mine \/ quarantineGuardians(coin.tree[2]) \subseteq mine
             [] coin.tree[1] = "quarantine" -> quarantineGuardians(coin.tree[2]) \subseteq mine
             [] coin.tree = Spending -> exitKeys \subseteq mine
             [] coin.tree = Boarding -> "phone" \in mine
             [] OTHER -> FALSE

\* Delayed recovery: as long as the keys left suffice the owner gets the coin in
\* the end. One key left of Savings suffices while the service answers and the
\* row of the outpoint is not taken by another key's transition or by one that
\* the cosigners refuse.
Recoverable == Savable ~> (coin.tree = OutTo("owner") \/ ~ Savable)
=============================================================================
