----------------------------- MODULE VtxoLedger -----------------------------
(***************************************************************************)
(* The Spending rows of the policy ledger: the vtxo_operation and          *)
(* vtxo_operation_input tables, the classification of operation states and *)
(* the transactions the Ledger runs under its mutex                        *)
(* (internal/policy/vtxo_ledger.go, ledger.go, vtxo.go).                   *)
(*                                                                         *)
(* Every definition here is one locked section: SQLite makes it atomic and *)
(* Ledger.mu serialises it, so VtxoSpend uses each one inside one step.    *)
(***************************************************************************)
EXTENDS SignCount, FiniteSets, FiniteSetsExt

CONSTANTS
    OpIds,             \* operation ids: 16 bytes, chosen by the clients
    Coins,             \* Spending VTXO outpoints
    CoinsOf,           \* CoinsOf[v]: the coins paying v's policy script
    Amounts,           \* recipient amounts inside the dust and recipient caps
    Fees,              \* fees the estimator quotes, inside the fee cap
    Requests,          \* contents of an authorize request (PSBTs and proof)
    Checkpoints,       \* contents of a checkpoint-authorize request
    FeePolicies,       \* digests of the Operator's intent fee policy
    Allowance,         \* Allowance[v]: enrolled rolling-period allowance
    AllowanceWindow,   \* 24 hours, in clock ticks
    ReserveTimeout,    \* 2 minutes, in clock ticks
    None               \* an empty column

ASSUME LedgerConstants ==
    /\ IsFiniteSet(OpIds)
    /\ CoinsOf \in [Vaults -> SUBSET Coins]
    /\ \A v, w \in Vaults : v # w => CoinsOf[v] \cap CoinsOf[w] = {}
    /\ Amounts \subseteq Nat
    /\ Fees \subseteq Nat
    /\ Allowance \in [Vaults -> Nat]
    /\ AllowanceWindow \in Nat
    /\ ReserveTimeout \in Nat
    /\ None \notin Requests \cup Checkpoints

VARIABLES
    ops,          \* vtxo_operation joined with vtxo_operation_input
    now           \* the ledger clock

-----------------------------------------------------------------------------
(* Rows. *)

States == {"reserved", "signed", "submitted", "finalized", "unresolved", "aborted"}

\* The bundle digest is a function of the columns up to created, fixed when the
\* row is inserted. "request" stands for unsigned_psbt, authorized_psbt and the
\* pending proof, which are written together when the operation is signed.
Row == [state : States, vault : Vaults, amount : Amounts, fee : Fees,
        feePolicy : FeePolicies, inputs : SUBSET Coins,
        created : Nat, expires : Nat,
        request : Requests \cup {None}, checkpoint : Checkpoints \cup {None}]

NoRow == [state |-> "absent"]

-----------------------------------------------------------------------------
(* What a state means (vtxo.go). *)

vtxoStateCountsTowardAllowance(s) ==
    s \in {"reserved", "signed", "submitted", "finalized", "unresolved"}

vtxoStateAwaitingSettlement(s) == s \in {"signed", "submitted"}

\* Mutation: an unresolved operation frees its vault.
MutUnresolvedFrees(s) == s \in {"reserved", "signed", "submitted"}

vtxoStateBlocksNewOperation(s) ==
    s \in {"reserved", "signed", "submitted", "unresolved"}

vtxoStateLocksInputs(s) ==
    s \in {"reserved", "signed", "submitted", "finalized"}

validVtxoTransition(from, to) ==
    \/ from = "reserved" /\ to \in {"signed", "aborted"}
    \/ from = "signed" /\ to = "submitted"
    \/ from = "submitted" /\ to \in {"finalized", "unresolved"}

-----------------------------------------------------------------------------
(* Allowance accounting. *)

addOutflow(row) == row.amount + row.fee

totalOutflow(rows, S) == MapThenSumSet(LAMBDA o : addOutflow(rows[o]), S)

\* The rows of vault v that spentInWindow charges at time t. A row awaiting
\* settlement stays charged however old it is. The int64 overflow errors of
\* the sum refuse a reservation the allowance refuses anyway.
Charged(rows, v, t) ==
    {o \in OpIds :
        /\ rows[o].state # "absent"
        /\ rows[o].vault = v
        /\ vtxoStateCountsTowardAllowance(rows[o].state)
        /\ \/ vtxoStateAwaitingSettlement(rows[o].state)
           \/ t <= rows[o].created + AllowanceWindow}

spentInWindow(rows, v, t) == totalOutflow(rows, Charged(rows, v, t))

-----------------------------------------------------------------------------
(* ReserveVtxoOperation: one BEGIN IMMEDIATE transaction. *)

abortExpiredVtxo(v) ==
    [o \in OpIds |->
        IF ops[o].state = "reserved" /\ ops[o].vault = v /\ ops[o].expires <= now
        THEN [ops[o] EXCEPT !.state = "aborted"]
        ELSE ops[o]]

\* The join ranges over every vault's rows.
rejectOverlappingVtxoInputs(rows, o, rec) ==
    \E p \in OpIds \ {o} :
        /\ vtxoStateLocksInputs(rows[p].state)
        /\ rows[p].inputs \cap rec.inputs # {}

\* Mutation: only a reservation fences the vault.
MutFenceReservedOnly(rows, o, v) ==
    \E p \in OpIds \ {o} : rows[p].state = "reserved" /\ rows[p].vault = v

rejectConcurrentVtxoOperation(rows, o, v) ==
    \E p \in OpIds \ {o} :
        /\ vtxoStateBlocksNewOperation(rows[p].state)
        /\ rows[p].vault = v

\* The checks in their order; the operation id is the primary key, so inserting
\* a second row for it fails as well.
ReservationAccepted(rows, o, rec) ==
    /\ ~ rejectOverlappingVtxoInputs(rows, o, rec)
    /\ ~ rejectConcurrentVtxoOperation(rows, o, rec.vault)
    /\ spentInWindow(rows, rec.vault, now) <= Allowance[rec.vault]
    /\ addOutflow(rec) <= Allowance[rec.vault] - spentInWindow(rows, rec.vault, now)
    /\ rows[o].state = "absent"

CanReserve(o, rec) == ReservationAccepted(abortExpiredVtxo(rec.vault), o, rec)

\* On any refusal the ROLLBACK also undoes the expiry aborts.
ReserveVtxoOperation(o, rec) ==
    /\ CanReserve(o, rec)
    /\ ops' = [abortExpiredVtxo(rec.vault) EXCEPT ![o] = rec]

-----------------------------------------------------------------------------
(* TransitionVtxoOperation and CommitSignedVtxoOperation: compare-and-swap *)
(* on the state column, writing every column of the caller's copy.         *)

CanSwap(o, from) == ops[o].state = from

TransitionVtxoOperation(o, from, rec) ==
    /\ validVtxoTransition(from, rec.state)
    /\ CanSwap(o, from)
    /\ ops' = [ops EXCEPT ![o] = rec]

CommitSignedVtxoOperation(o, rec, n) ==
    /\ CanSwap(o, "reserved")
    /\ ops' = [ops EXCEPT ![o] = rec]
    /\ advanceSignCount(rec.vault, n)

\* expireReservedVtxo, and the expiry branch of loadLiveVtxo: the read and the
\* swap decide on facts that only another swap of the row can change.
Expired(o) == ops[o].state = "reserved" /\ ops[o].expires <= now

\* Mutation: an expired row gets a state of its own.
MutExpiredState(o) ==
    IF Expired(o) THEN [ops EXCEPT ![o].state = "expired"] ELSE ops

AfterExpiry(o) ==
    IF Expired(o) THEN [ops EXCEPT ![o].state = "aborted"] ELSE ops
=============================================================================
