------------------------------ MODULE VtxoSpend ------------------------------
(***************************************************************************)
(* The Spending service of internal/application/vtxo.go and vtxo_abort.go: *)
(* concurrent request handlers over the policy ledger, the Operator that   *)
(* executes what the VaultCosigner signed, and the clock.                  *)
(*                                                                         *)
(* A handler is a call in flight: it reads the ledger, releases the lock,  *)
(* talks to the Operator's indexer or signs, and comes back with a copy    *)
(* that may be stale. It is split exactly where it releases the lock.      *)
(***************************************************************************)
EXTENDS VtxoLedger

CONSTANTS
    Calls,        \* request slots: how many handlers may be in flight
    Counts,       \* counters the authenticator reports
    MaxTime       \* bound of the clock

ASSUME SpendConstants ==
    /\ Counts \subseteq Nat
    /\ MaxTime \in Nat

VARIABLES
    calls,        \* handlers in flight
    feePolicy,    \* the Operator's current intent fee policy
    spentBy,      \* per coin: unspent, spent by an operation, or otherwise
    executedAt,   \* when the Operator executed an operation, or Never
    released      \* VaultCosigner signatures that have left the service

vars == <<ops, signCounts, now, calls, feePolicy, spentBy, executedAt, released>>

-----------------------------------------------------------------------------
Never == -1
\* A coin is unspent, spent by operation o's transaction r (<<o, r>>), or spent
\* by a transaction the service knows nothing about.
Unspent == <<>>
Elsewhere == <<"elsewhere">>

Idle == [pc |-> "idle"]

Pcs == {"reserve", "authorize", "sign", "checkpoints", "checkpointSign",
        "resolve", "promote", "settle", "reload", "abort"}

\* What a handler keeps on its stack: rec is its copy of the row (the row to
\* insert, in a reserve call), req the request's transactions, count the
\* assertion's counter and seen the indexer's answer.
Call == [pc : Pcs, op : OpIds, rec : Row, req : Requests \cup Checkpoints \cup {None},
         count : Nat, seen : {"unknown", "pending", "finalized", "conflict"},
         view : BOOLEAN]

\* A signature that left the service: which operation, over which request, and
\* the counter of the assertion that obtained it (none for a status read).
Release == [op : OpIds, request : Requests, count : Nat \cup {NoCount}]

Init ==
    /\ ops = [o \in OpIds |-> NoRow]
    /\ signCounts = [v \in Vaults |-> NoCount]
    /\ now = 0
    /\ calls = [c \in Calls |-> Idle]
    /\ feePolicy \in FeePolicies
    /\ spentBy = [x \in Coins |-> Unspent]
    /\ executedAt = [o \in OpIds |-> Never]
    /\ released = {}

-----------------------------------------------------------------------------
outside == <<now, feePolicy, spentBy, executedAt>>

Begin(c, pc, o, rec, req, n, view) ==
    /\ calls[c] = Idle
    /\ calls' = [calls EXCEPT ![c] =
                    [pc |-> pc, op |-> o, rec |-> rec, req |-> req, count |-> n,
                     seen |-> "unknown", view |-> view]]

At(c, pc) == calls[c].pc = pc

Goto(c, pc) == calls' = [calls EXCEPT ![c].pc = pc]

Return(c) == calls' = [calls EXCEPT ![c] = Idle]

Exists(o) == ops[o].state # "absent"

-----------------------------------------------------------------------------
(* ReserveVtxo. *)

newReservation(v, amount, fee, inputs) ==
    [state |-> "reserved", vault |-> v, amount |-> amount, fee |-> fee,
     feePolicy |-> feePolicy, inputs |-> inputs,
     created |-> now, expires |-> now + ReserveTimeout,
     request |-> None, checkpoint |-> None]

\* The id is unused: quote the fee under the current policy, select coins the
\* indexer lists for the vault and build the row. The indexer may be behind the
\* Operator, so a listed coin may be spent. No lock is held until the insert.
ReserveVtxo(c, o, v, amount, fee, inputs) ==
    /\ ~ Exists(o)
    /\ inputs # {}
    /\ inputs \subseteq CoinsOf[v]
    /\ Begin(c, "reserve", o, newReservation(v, amount, fee, inputs), None, 0, FALSE)
    /\ UNCHANGED <<ops, signCounts, released, outside>>

\* The id is used: an exact retry expires a stale reservation or returns the
\* stored facts; a different request is refused.
sameReserveRequest(o, v, amount) == ops[o].vault = v /\ ops[o].amount = amount

replayVtxoReservation(c, o, v, amount) ==
    /\ Exists(o)
    /\ calls[c] = Idle
    /\ sameReserveRequest(o, v, amount)
    /\ Expired(o)
    /\ ops' = AfterExpiry(o)
    /\ UNCHANGED <<signCounts, calls, released, outside>>

\* The insert, under the lock. A refusal re-reads the id: when another call
\* inserted it meanwhile, the answer is the replay of that row.
ReserveVtxoInsert(c) ==
    /\ At(c, "reserve")
    /\ LET o == calls[c].op
           rec == calls[c].rec
       IN  \/ ReserveVtxoOperation(o, rec)
           \/ /\ ~ CanReserve(o, rec)
              /\ ops' = IF Exists(o) /\ sameReserveRequest(o, rec.vault, rec.amount)
                        THEN AfterExpiry(o) ELSE ops
    /\ Return(c)
    /\ UNCHANGED <<signCounts, released, outside>>

-----------------------------------------------------------------------------
(* AuthorizeVtxoSpend. *)

\* loadLiveVtxo finds the reservation expired and aborts it.
loadExpiredVtxo(c, o, v) ==
    /\ calls[c] = Idle
    /\ Exists(o)
    /\ ops[o].vault = v
    /\ Expired(o)
    /\ ops' = AfterExpiry(o)
    /\ UNCHANGED <<signCounts, calls, released, outside>>

AuthorizeVtxoSpend(c, o, v, r, n) ==
    /\ Exists(o)
    /\ ops[o].vault = v
    /\ ~ Expired(o)
    /\ ops[o].state \in {"reserved", "signed"}
    /\ Begin(c, "authorize", o, ops[o], r, n, FALSE)
    /\ UNCHANGED <<ops, signCounts, released, outside>>

requireCurrentVtxoFeePolicy(rec) == rec.feePolicy = feePolicy

\* The row was already signed: hand the stored signature out again, if the row
\* is still signed and the counter is the stored one.
AuthorizeReplay(c) ==
    /\ At(c, "authorize")
    /\ calls[c].rec.state = "signed"
    /\ requireCurrentVtxoFeePolicy(calls[c].rec)
    /\ calls[c].rec.request = calls[c].req
    /\ ops[calls[c].op].state = "signed"
    /\ verifySignCountReplay(calls[c].rec.vault, calls[c].count)
    /\ released' = released \cup
           {[op |-> calls[c].op, request |-> calls[c].rec.request, count |-> calls[c].count]}
    /\ Return(c)
    /\ UNCHANGED <<ops, signCounts, outside>>

\* The checks pass on the copy and the VaultCosigner signs in memory.
AuthorizeSign(c) ==
    /\ At(c, "authorize")
    /\ calls[c].rec.state = "reserved"
    /\ requireCurrentVtxoFeePolicy(calls[c].rec)
    /\ Goto(c, "sign")
    /\ UNCHANGED <<ops, signCounts, released, outside>>

signedRow(c) == [calls[c].rec EXCEPT !.state = "signed", !.request = calls[c].req]

\* The signature leaves the service only after the row and the counter are
\* durable together, or when an equal request is already durable.
AuthorizeCommit(c) ==
    /\ At(c, "sign")
    /\ LET o == calls[c].op
           v == calls[c].rec.vault
           n == calls[c].count
       IN  \/ CommitSignedVtxoOperation(o, signedRow(c), n)
           \/ /\ ~ CanSwap(o, "reserved")
              /\ ops[o].state = "signed"
              /\ verifySignCountReplay(v, n)
              /\ ops[o].request = calls[c].req
              /\ UNCHANGED <<ops, signCounts>>
    /\ released' = released \cup
           {[op |-> calls[c].op, request |-> calls[c].req, count |-> calls[c].count]}
    /\ Return(c)
    /\ UNCHANGED outside

-----------------------------------------------------------------------------
(* AuthorizeVtxoCheckpoints. *)

AuthorizeVtxoCheckpoints(c, o, v, k) ==
    /\ Exists(o)
    /\ ops[o].vault = v
    /\ ops[o].state \in {"signed", "submitted"}
    /\ Begin(c, "checkpoints", o, ops[o], k, 0, FALSE)
    /\ UNCHANGED <<ops, signCounts, released, outside>>

\* A submitted row answers an equal request from its columns (no change) and
\* refuses any other; a signed row goes on to the signature.
CheckpointsSign(c) ==
    /\ At(c, "checkpoints")
    /\ calls[c].rec.state = "signed"
    /\ requireCurrentVtxoFeePolicy(calls[c].rec)
    /\ Goto(c, "checkpointSign")
    /\ UNCHANGED <<ops, signCounts, released, outside>>

submittedRow(c) ==
    [calls[c].rec EXCEPT !.state = "submitted", !.checkpoint = calls[c].req]

\* Mutation: the checkpoint signatures are written whatever the row became.
MutCheckpointsNoSwap(c) ==
    /\ At(c, "checkpointSign")
    /\ ops' = [ops EXCEPT ![calls[c].op] = submittedRow(c)]
    /\ Return(c)
    /\ UNCHANGED <<signCounts, released, outside>>

CheckpointsCommit(c) ==
    /\ At(c, "checkpointSign")
    /\ TransitionVtxoOperation(calls[c].op, "signed", submittedRow(c))
    /\ Return(c)
    /\ UNCHANGED <<signCounts, released, outside>>

-----------------------------------------------------------------------------
(* GetVtxoOperationView, FinalizeVtxo and promoteSubmittedVtxo. *)

\* A status read of an operation that awaits settlement reconciles it first.
GetVtxoOperationView(c, o, v) ==
    /\ Exists(o)
    /\ ops[o].vault = v
    /\ ops[o].state \in {"signed", "submitted"}
    /\ Begin(c, "resolve", o, ops[o], None, 0, TRUE)
    /\ UNCHANGED <<ops, signCounts, released, outside>>

FinalizeVtxo(c, o, v) ==
    /\ Exists(o)
    /\ ops[o].vault = v
    /\ ops[o].state = "submitted"
    /\ Begin(c, "resolve", o, ops[o], None, 0, FALSE)
    /\ UNCHANGED <<ops, signCounts, released, outside>>

\* expireReservedVtxo, as a status read or an abort request runs it.
expireReservedVtxo(c, o, v) ==
    /\ calls[c] = Idle
    /\ Exists(o)
    /\ ops[o].vault = v
    /\ Expired(o)
    /\ ops' = AfterExpiry(o)
    /\ UNCHANGED <<signCounts, calls, released, outside>>

\* The indexer's answer about the reserved inputs and the signed transaction.
SubmittedVtxoState(o, rec) ==
    IF \E x \in rec.inputs : spentBy[x] \notin {Unspent, <<o, rec.request>>}
    THEN "conflict"
    ELSE IF \A x \in rec.inputs : spentBy[x] = <<o, rec.request>>
         THEN "finalized" ELSE "pending"

\* Mutation: only a submitted row is reconciled with the Operator.
MutResolveSubmittedOnly(c) ==
    /\ At(c, "resolve")
    /\ LET seen == SubmittedVtxoState(calls[c].op, calls[c].rec)
           pc == IF seen = "pending" \/ calls[c].rec.state = "signed"
                 THEN "reload" ELSE "settle"
       IN  calls' = [calls EXCEPT ![c].seen = seen, ![c].pc = pc]
    /\ UNCHANGED <<ops, signCounts, released, outside>>

promoteResolve(c) ==
    /\ At(c, "resolve")
    /\ LET seen == SubmittedVtxoState(calls[c].op, calls[c].rec)
           pc == IF seen = "pending" THEN "reload"
                 ELSE IF calls[c].rec.state = "signed" THEN "promote" ELSE "settle"
       IN  calls' = [calls EXCEPT ![c].seen = seen, ![c].pc = pc]
    /\ UNCHANGED <<ops, signCounts, released, outside>>

\* The indexer has not seen the transaction, or not its change output, yet.
promotePending(c) ==
    /\ At(c, "resolve")
    /\ calls' = [calls EXCEPT ![c].seen = "pending", ![c].pc = "reload"]
    /\ UNCHANGED <<ops, signCounts, released, outside>>

\* A settled operation still recorded as signed passes through submitted. When
\* the swap loses, the current row is adopted if it is submitted, and nothing
\* is left to do if it is settled.
promoteSigned(c) ==
    /\ At(c, "promote")
    /\ LET o == calls[c].op
           submitted == [calls[c].rec EXCEPT !.state = "submitted"]
       IN  \/ /\ TransitionVtxoOperation(o, "signed", submitted)
              /\ calls' = [calls EXCEPT ![c].rec = submitted, ![c].pc = "settle"]
           \/ /\ ~ CanSwap(o, "signed")
              /\ ops[o].state = "submitted"
              /\ calls' = [calls EXCEPT ![c].rec = ops[o], ![c].pc = "settle"]
              /\ UNCHANGED ops
           \/ /\ ~ CanSwap(o, "signed")
              /\ ops[o].state \in {"finalized", "unresolved"}
              /\ Goto(c, "reload")
              /\ UNCHANGED ops
    /\ UNCHANGED <<signCounts, released, outside>>

\* Mutation: the settled row keeps the time of its reservation.
MutSettledKeepsCreated(c) ==
    [calls[c].rec EXCEPT
        !.state = IF calls[c].seen = "conflict" THEN "unresolved" ELSE "finalized"]

\* The settlement restarts the allowance window: created_at becomes now.
settledRow(c) ==
    [calls[c].rec EXCEPT
        !.state = IF calls[c].seen = "conflict" THEN "unresolved" ELSE "finalized",
        !.created = now]

promoteSettle(c) ==
    /\ At(c, "settle")
    /\ LET o == calls[c].op
       IN  \/ TransitionVtxoOperation(o, "submitted", settledRow(c))
           \/ /\ ~ CanSwap(o, "submitted")
              /\ ops[o].state = settledRow(c).state
              /\ UNCHANGED ops
    /\ Goto(c, "reload")
    /\ UNCHANGED <<signCounts, released, outside>>

shownBy(view, o, rec) ==
    IF view /\ rec.state \in {"signed", "submitted"}
    THEN {[op |-> o, request |-> rec.request, count |-> NoCount]} ELSE {}

\* The handler re-reads the row and answers; a status read shows the signature.
promoteReload(c) ==
    /\ At(c, "reload")
    /\ released' = released \cup shownBy(calls[c].view, calls[c].op, ops[calls[c].op])
    /\ Return(c)
    /\ UNCHANGED <<ops, signCounts, outside>>

\* Reconciliation failed: the status read answers from the copy it loaded.
viewUnreconciled(c) ==
    /\ calls[c].pc \in {"resolve", "promote", "settle"}
    /\ released' = released \cup shownBy(calls[c].view, calls[c].op, calls[c].rec)
    /\ Return(c)
    /\ UNCHANGED <<ops, signCounts, outside>>

-----------------------------------------------------------------------------
(* AbortVtxo. *)

AbortVtxo(c, o, v) ==
    /\ Exists(o)
    /\ ops[o].vault = v
    /\ ~ Expired(o)
    /\ ops[o].state = "reserved"
    /\ ops[o].request = None
    /\ Begin(c, "abort", o, ops[o], None, 0, FALSE)
    /\ UNCHANGED <<ops, signCounts, released, outside>>

\* Mutation: the abort does not look at the row again.
MutAbortNoSwap(c) ==
    /\ At(c, "abort")
    /\ ops' = [ops EXCEPT ![calls[c].op] = [calls[c].rec EXCEPT !.state = "aborted"]]
    /\ Return(c)
    /\ UNCHANGED <<signCounts, released, outside>>

AbortCommit(c) ==
    /\ At(c, "abort")
    /\ TransitionVtxoOperation(calls[c].op, "reserved",
                               [calls[c].rec EXCEPT !.state = "aborted"])
    /\ Return(c)
    /\ UNCHANGED <<signCounts, released, outside>>

-----------------------------------------------------------------------------
(* A call ends early: a check refuses it, a dependency errs, the client goes *)
(* away, or the process stops. What it kept in memory is gone.               *)

Fail(c) ==
    /\ calls[c] # Idle
    /\ Return(c)
    /\ UNCHANGED <<ops, signCounts, released, outside>>

(* Another ceremony of the same passkey moves the stored counter. *)

AdvanceSignCount(v, n) ==
    /\ advanceSignCount(v, n)
    /\ UNCHANGED <<ops, calls, released, outside>>

(* The world outside the service. *)

OperatorExecutes(rel) ==
    /\ rel \in released
    /\ \A x \in ops[rel.op].inputs : spentBy[x] = Unspent
    /\ spentBy' = [x \in Coins |->
                     IF x \in ops[rel.op].inputs THEN <<rel.op, rel.request>> ELSE spentBy[x]]
    /\ executedAt' = [executedAt EXCEPT ![rel.op] = now]
    /\ UNCHANGED <<ops, signCounts, now, calls, feePolicy, released>>

CoinLeaves(x) ==
    /\ spentBy[x] = Unspent
    /\ spentBy' = [spentBy EXCEPT ![x] = Elsewhere]
    /\ UNCHANGED <<ops, signCounts, now, calls, feePolicy, executedAt, released>>

FeePolicyChanges(f) ==
    /\ feePolicy # f
    /\ feePolicy' = f
    /\ UNCHANGED <<ops, signCounts, now, calls, spentBy, executedAt, released>>

Tick ==
    /\ now < MaxTime
    /\ now' = now + 1
    /\ UNCHANGED <<ops, signCounts, calls, feePolicy, spentBy, executedAt, released>>

-----------------------------------------------------------------------------
CallBegins(c, o, v) ==
    \/ \E amount \in Amounts, fee \in Fees, inputs \in SUBSET Coins :
           ReserveVtxo(c, o, v, amount, fee, inputs)
    \/ \E amount \in Amounts : replayVtxoReservation(c, o, v, amount)
    \/ loadExpiredVtxo(c, o, v)
    \/ \E r \in Requests, n \in Counts : AuthorizeVtxoSpend(c, o, v, r, n)
    \/ \E k \in Checkpoints : AuthorizeVtxoCheckpoints(c, o, v, k)
    \/ GetVtxoOperationView(c, o, v)
    \/ FinalizeVtxo(c, o, v)
    \/ expireReservedVtxo(c, o, v)
    \/ AbortVtxo(c, o, v)

CallSteps(c) ==
    \/ ReserveVtxoInsert(c)
    \/ AuthorizeReplay(c)
    \/ AuthorizeSign(c)
    \/ AuthorizeCommit(c)
    \/ CheckpointsSign(c)
    \/ CheckpointsCommit(c)
    \/ promoteResolve(c)
    \/ promotePending(c)
    \/ promoteSigned(c)
    \/ promoteSettle(c)
    \/ promoteReload(c)
    \/ viewUnreconciled(c)
    \/ AbortCommit(c)
    \/ Fail(c)

Environment ==
    \/ \E v \in Vaults, n \in Counts : AdvanceSignCount(v, n)
    \/ \E rel \in released : OperatorExecutes(rel)
    \/ \E x \in Coins : CoinLeaves(x)
    \/ \E f \in FeePolicies : FeePolicyChanges(f)
    \/ Tick

Next ==
    \/ \E c \in Calls, o \in OpIds, v \in Vaults : CallBegins(c, o, v)
    \/ \E c \in Calls : CallSteps(c)
    \/ Environment

Spec == Init /\ [][Next]_vars

\* A handler always ends: every call to the database, the indexer and the signer
\* has a deadline. The wallet keeps reading the status of an operation it has
\* not seen settled, and the indexer answers again and again.
For(c, o) == calls[c] # Idle /\ calls[c].op = o

Fairness ==
    /\ \A c \in Calls : WF_vars(CallSteps(c))
    /\ \A o \in OpIds :
          /\ SF_vars(\E c \in Calls, v \in Vaults : GetVtxoOperationView(c, o, v))
          /\ SF_vars(\E c \in Calls : For(c, o) /\ promoteResolve(c))
          /\ SF_vars(\E c \in Calls : For(c, o) /\ promoteSigned(c))
          /\ SF_vars(\E c \in Calls : For(c, o) /\ promoteSettle(c))

FairSpec == Spec /\ Fairness

-----------------------------------------------------------------------------
(* Properties. *)

\* Every row, counter, call and signature has the shape the code gives it.
TypeOK ==
    /\ ops \in [OpIds -> Row \cup {NoRow}]
    /\ signCounts \in [Vaults -> Nat \cup {NoCount}]
    /\ now \in Nat
    /\ calls \in [Calls -> Call \cup {Idle}]
    /\ feePolicy \in FeePolicies
    /\ spentBy \in [Coins -> {Unspent, Elsewhere} \cup (OpIds \X Requests)]
    /\ executedAt \in [OpIds -> Nat \cup {Never}]
    /\ released \subseteq Release

\* rejectConcurrentVtxoOperationLocked: a vault never has two operations that
\* fence it against new reservations, whatever calls race.
OneLifecyclePerVault ==
    \A o, p \in OpIds :
        /\ o # p
        /\ vtxoStateBlocksNewOperation(ops[o].state)
        /\ vtxoStateBlocksNewOperation(ops[p].state)
        => ops[o].vault # ops[p].vault

\* AuthorizeVtxoSpend, GetVtxoOperationView: a VaultCosigner signature that has
\* left the service belongs to an operation that is durably signed or later,
\* over the very request the row records; in particular it is never aborted.
ReleasedIsDurable ==
    \A rel \in released :
        /\ ops[rel.op].state \in {"signed", "submitted", "finalized", "unresolved"}
        /\ ops[rel.op].request = rel.request

\* The VaultCosigner never lets two transactions that spend one coin out: not
\* for two operations, and not for two versions of one operation. An unresolved
\* row does not lock its inputs (vtxoStateLocksInputs), so this needs the fence
\* of the vault as well.
NoCoinSignedTwice ==
    \A a, b \in released :
        \A x \in ops[a.op].inputs \cap ops[b.op].inputs :
            a.op = b.op /\ a.request = b.request

\* signcount.go: one positive authenticator counter obtains the signature of
\* one operation only.
CounterSignsOneOperation ==
    \A a, b \in released :
        a.count > 0 /\ a.count = b.count /\ ops[a.op].vault = ops[b.op].vault
            => a.op = b.op

executedIn(v, from, to) ==
    {o \in OpIds : Exists(o) /\ ops[o].vault = v /\ executedAt[o] \in from..to}

\* spentInWindow: whatever the Operator executes, and however late it does, the
\* outflow of a vault in any window of 24 hours stays within its allowance.
AllowanceKept ==
    \A v \in Vaults, t \in 0..now :
        totalOutflow(ops, executedIn(v, IF t > AllowanceWindow THEN t - AllowanceWindow ELSE 0, t))
            <= Allowance[v]

\* promoteSubmittedVtxo: an operation the Operator has executed is eventually
\* recorded as finalized, which frees its vault; no race of status reads,
\* checkpoint calls and failures leaves it signed or submitted for ever.
ExecutedSettles ==
    \A o \in OpIds : executedAt[o] # Never ~> ops[o].state = "finalized"

-----------------------------------------------------------------------------
(* The inductive invariant behind the safety properties. *)

SignedStates == {"signed", "submitted", "finalized", "unresolved"}

\* Reserved inputs belong to the vault and a signed row records its request.
RowsSound ==
    \A o \in OpIds : Exists(o) =>
        /\ ops[o].inputs # {}
        /\ ops[o].inputs \subseteq CoinsOf[ops[o].vault]
        /\ ops[o].state \in SignedStates => ops[o].request \in Requests

\* An operation that is neither aborted nor unused shares no coin with another.
LiveInputsDisjoint ==
    \A o, p \in OpIds :
        o # p /\ ops[o].state \notin {"absent", "aborted"}
              /\ ops[p].state \notin {"absent", "aborted"}
        => ops[o].inputs \cap ops[p].inputs = {}

sameFacts(a, b) ==
    /\ a.vault = b.vault /\ a.amount = b.amount /\ a.fee = b.fee
    /\ a.inputs = b.inputs

\* A handler's copy of a row is the row itself for as long as the row keeps the
\* state it was read in: the swap on the state column alone is enough to write
\* every column of the copy back.
copyFresh(rows, o, rec) ==
    /\ rows[o].state # "absent"
    /\ sameFacts(rows[o], rec)
    /\ rows[o].state = rec.state => rows[o] = rec
    /\ rec.state \in SignedStates => /\ rows[o].state \in SignedStates
                                     /\ rows[o].request = rec.request
    /\ rec.state = "submitted" => rows[o].state # "signed"

readState(pc) ==
    CASE pc \in {"reserve", "sign", "abort"} -> {"reserved"}
      [] pc = "authorize" -> {"reserved", "signed"}
      [] pc \in {"checkpointSign", "promote"} -> {"signed"}
      [] pc = "settle" -> {"submitted"}
      [] OTHER -> {"signed", "submitted"}

callSound(rows, k) ==
    /\ k.rec.state \in readState(k.pc)
    /\ k.pc \in {"authorize", "sign"} => k.req \in Requests
    /\ k.pc \in {"checkpoints", "checkpointSign"} => k.req \in Checkpoints
    /\ k.pc = "reserve" => /\ k.rec.inputs # {}
                           /\ k.rec.inputs \subseteq CoinsOf[k.rec.vault]
    /\ k.pc # "reserve" => copyFresh(rows, k.op, k.rec)

CallsSound == \A c \in Calls : calls[c] # Idle => callSound(ops, calls[c])

IndInv ==
    /\ TypeOK
    /\ RowsSound
    /\ CallsSound
    /\ OneLifecyclePerVault
    /\ LiveInputsDisjoint
    /\ ReleasedIsDurable

-----------------------------------------------------------------------------
(* What AllowanceKept rests on besides. *)

anySpent(inputs) == \E x \in inputs : spentBy[x] # Unspent

\* The Operator executes signed operations, and spends what they reserved.
ExecutedSound ==
    \A o \in OpIds : executedAt[o] # Never =>
        /\ executedAt[o] <= now
        /\ ops[o].state \in SignedStates
        /\ anySpent(ops[o].inputs)

\* A settled operation is not executed after the time it is charged at.
SettledSound ==
    \A o \in OpIds : ops[o].state \in {"finalized", "unresolved"} =>
        /\ anySpent(ops[o].inputs)
        /\ executedAt[o] <= ops[o].created

\* A handler settles an operation only when it has seen an input spent.
ResolvedSound ==
    \A c \in Calls : calls[c].pc \in {"promote", "settle"} => anySpent(calls[c].rec.inputs)

recentlyExecuted(v) ==
    {o \in OpIds : /\ Exists(o) /\ ops[o].vault = v
                   /\ executedAt[o] # Never /\ now <= executedAt[o] + AllowanceWindow}

\* An operation that may still be executed fits into the allowance whenever the
\* Operator chooses to execute it.
BudgetHeld ==
    \A o \in OpIds : ops[o].state \in {"reserved", "signed", "submitted"} =>
        totalOutflow(ops, {o} \cup recentlyExecuted(ops[o].vault)) <= Allowance[ops[o].vault]

AllowanceInv ==
    /\ ExecutedSound
    /\ SettledSound
    /\ ResolvedSound
    /\ BudgetHeld
    /\ AllowanceKept
=============================================================================
