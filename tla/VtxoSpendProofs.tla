--------------------------- MODULE VtxoSpendProofs ---------------------------
(***************************************************************************)
(* The safety properties of VtxoSpend for every set of vaults, operations, *)
(* coins, requests and concurrent calls.                                   *)
(*                                                                         *)
(* Every step changes the rows in one of three ways (RowsStep): not at all,*)
(* by one reservation, or by advancing one row along validVtxoTransition   *)
(* with its facts kept. That a handler's write has this form although it   *)
(* rests on a copy read under an earlier lock is what CallsSound gives.    *)
(* The same shapes show that VtxoSpend implements SpendContract.           *)
(*                                                                         *)
(* The last part is about amounts: whatever the Operator executes, and     *)
(* however late, the outflow of a vault in any window stays within its     *)
(* allowance, for any amounts, fees, allowances and windows.               *)
(***************************************************************************)
EXTENDS VtxoSpendRefines, CountingTheorems

Advances(o, row) ==
    /\ ops[o] \in Row
    /\ row \in Row
    /\ validVtxoTransition(ops[o].state, row.state)
    /\ sameFacts(ops[o], row)
    /\ row.state \in SignedStates => row.request \in Requests
    /\ ops[o].state \in SignedStates => row.request = ops[o].request
    /\ ops' = [ops EXCEPT ![o] = row]

Inserts(o, rec) ==
    /\ rec \in Row
    /\ rec.state = "reserved"
    /\ rec.inputs # {}
    /\ rec.inputs \subseteq CoinsOf[rec.vault]
    /\ ReserveVtxoOperation(o, rec)

RowsStep ==
    \/ ops' = ops
    \/ \E o \in OpIds : \E row \in Row : Advances(o, row)
    \/ \E o \in OpIds : \E rec \in Row : Inserts(o, rec)

-----------------------------------------------------------------------------
\* A row that exists has the shape of a row (GetVtxoOperation found it).
LEMMA RowExists ==
    ASSUME TypeOK, NEW o \in OpIds, Exists(o)
    PROVE  ops[o] \in Row
BY DEF TypeOK, Exists, NoRow

\* A call that is not idle has the shape of a call.
LEMMA CallExists ==
    ASSUME TypeOK, NEW c \in Calls, calls[c].pc # "idle"
    PROVE  calls[c] \in Call
BY DEF TypeOK, Idle

\* expireReservedVtxo advances a row to aborted.
LEMMA ExpiryAdvances ==
    ASSUME TypeOK, NEW o \in OpIds, Expired(o), ops' = AfterExpiry(o)
    PROVE  \E row \in Row : Advances(o, row)
<1> DEFINE row == [ops[o] EXCEPT !.state = "aborted"]
<1>1. ops[o] \in Row
  BY RowExists DEF Exists, Expired
<1>2. row \in Row /\ row.state = "aborted" /\ sameFacts(ops[o], row)
  BY <1>1 DEF Row, States, sameFacts
<1>3. ops' = [ops EXCEPT ![o] = row]
  BY DEF AfterExpiry
<1>4. Advances(o, row)
  BY <1>1, <1>2, <1>3 DEF Advances, Expired, validVtxoTransition, SignedStates
<1> QED BY <1>2, <1>4

\* A reservation is inserted only as the handler built it (ReserveVtxoInsert).
LEMMA InsertShape ==
    ASSUME TypeOK, CallsSound, NEW c \in Calls, ReserveVtxoInsert(c)
    PROVE  RowsStep
<1> DEFINE o == calls[c].op
           rec == calls[c].rec
<1>1. calls[c] \in Call /\ calls[c] # Idle
  BY CallExists DEF ReserveVtxoInsert, At, Idle
<1>2. o \in OpIds /\ rec \in Row
  BY <1>1 DEF Call
<1>3. callSound(ops, calls[c]) /\ calls[c].pc = "reserve"
  BY <1>1 DEF CallsSound, ReserveVtxoInsert, At
<1>4. rec.state = "reserved" /\ rec.inputs # {} /\ rec.inputs \subseteq CoinsOf[rec.vault]
  BY <1>3 DEF callSound, readState
<1>5. CASE ReserveVtxoOperation(o, rec)
  BY <1>2, <1>4, <1>5 DEF RowsStep, Inserts
<1>6. CASE ops' = AfterExpiry(o)
  <2>1. CASE Expired(o)
    BY <1>2, <1>6, <2>1, ExpiryAdvances DEF RowsStep
  <2>2. CASE ~ Expired(o)
    BY <1>6, <2>2 DEF RowsStep, AfterExpiry
  <2> QED BY <2>1, <2>2
<1>7. CASE ops' = ops
  BY <1>7 DEF RowsStep
<1> QED BY <1>5, <1>6, <1>7 DEF ReserveVtxoInsert

\* A swap from the state a handler read writes its copy over the same row.
LEMMA SwapAdvances ==
    ASSUME TypeOK, CallsSound, NEW c \in Calls,
           calls[c].pc \in Pcs \ {"reserve"},
           NEW row \in Row,
           ops[calls[c].op].state = calls[c].rec.state,
           validVtxoTransition(calls[c].rec.state, row.state),
           sameFacts(calls[c].rec, row),
           row.state \in SignedStates => row.request \in Requests,
           calls[c].rec.state \in SignedStates => row.request = calls[c].rec.request,
           ops' = [ops EXCEPT ![calls[c].op] = row]
    PROVE  calls[c].op \in OpIds /\ Advances(calls[c].op, row)
<1>1. calls[c] \in Call /\ calls[c] # Idle
  BY CallExists DEF Pcs, Idle
<1>2. calls[c].op \in OpIds /\ calls[c].rec \in Row
  BY <1>1 DEF Call
<1>3. ops[calls[c].op] = calls[c].rec
  BY <1>1 DEF CallsSound, callSound, copyFresh
<1> QED BY <1>2, <1>3 DEF Advances

\* What a call between its steps may write (AuthorizeCommit).
LEMMA AuthorizeShape ==
    ASSUME TypeOK, CallsSound, NEW c \in Calls, AuthorizeCommit(c)
    PROVE  RowsStep
<1>1. calls[c] \in Call /\ calls[c] # Idle /\ calls[c].pc = "sign"
  BY CallExists DEF AuthorizeCommit, At, Idle
<1>2. calls[c].rec \in Row /\ calls[c].rec.state = "reserved" /\ calls[c].req \in Requests
  BY <1>1 DEF Call, CallsSound, callSound, readState
<1>3. /\ signedRow(c) \in Row
      /\ signedRow(c).state = "signed"
      /\ signedRow(c).request = calls[c].req
      /\ sameFacts(calls[c].rec, signedRow(c))
  BY <1>2, Zenon DEF Row, States, signedRow, sameFacts
<1>4. CASE CommitSignedVtxoOperation(calls[c].op, signedRow(c), calls[c].count)
  <2>1. /\ ops[calls[c].op].state = "reserved"
        /\ ops' = [ops EXCEPT ![calls[c].op] = signedRow(c)]
    BY <1>4 DEF CommitSignedVtxoOperation, CanSwap
  <2>2. calls[c].op \in OpIds /\ Advances(calls[c].op, signedRow(c))
    BY <1>1, <1>2, <1>3, <2>1, SwapAdvances, Zenon DEF Pcs, validVtxoTransition, SignedStates
  <2> QED BY <1>3, <2>2 DEF RowsStep
<1>5. CASE UNCHANGED <<ops, signCounts>>
  BY <1>5 DEF RowsStep
<1> QED BY <1>4, <1>5 DEF AuthorizeCommit

\* CheckpointsCommit advances the row it read.
LEMMA CheckpointsShape ==
    ASSUME TypeOK, RowsSound, CallsSound, NEW c \in Calls, CheckpointsCommit(c)
    PROVE  RowsStep
<1>1. calls[c] \in Call /\ calls[c] # Idle /\ calls[c].pc = "checkpointSign"
  BY CallExists DEF CheckpointsCommit, At, Idle
<1>2. /\ calls[c].op \in OpIds /\ calls[c].rec \in Row
      /\ calls[c].rec.state = "signed" /\ calls[c].req \in Checkpoints
      /\ Exists(calls[c].op) /\ ops[calls[c].op].request = calls[c].rec.request
      /\ ops[calls[c].op].state \in SignedStates
  BY <1>1 DEF Call, CallsSound, callSound, readState, copyFresh, SignedStates, Exists
<1>3. /\ submittedRow(c) \in Row
      /\ submittedRow(c).state = "submitted"
      /\ submittedRow(c).request = calls[c].rec.request
      /\ sameFacts(calls[c].rec, submittedRow(c))
  BY <1>2, Zenon DEF Row, States, submittedRow, sameFacts
<1>4. calls[c].rec.request \in Requests
  BY <1>2 DEF RowsSound
<1>5. /\ ops[calls[c].op].state = "signed"
      /\ ops' = [ops EXCEPT ![calls[c].op] = submittedRow(c)]
  BY DEF CheckpointsCommit, TransitionVtxoOperation, CanSwap
<1>6. calls[c].op \in OpIds /\ Advances(calls[c].op, submittedRow(c))
  BY <1>1, <1>2, <1>3, <1>4, <1>5, SwapAdvances, Zenon DEF Pcs, validVtxoTransition
<1> QED BY <1>3, <1>6 DEF RowsStep

\* promoteSigned advances the row it read, or leaves the rows alone.
LEMMA PromoteShape ==
    ASSUME TypeOK, RowsSound, CallsSound, NEW c \in Calls, promoteSigned(c)
    PROVE  RowsStep
<1> DEFINE row == [calls[c].rec EXCEPT !.state = "submitted"]
<1>1. calls[c] \in Call /\ calls[c] # Idle /\ calls[c].pc = "promote"
  BY CallExists DEF promoteSigned, At, Idle
<1>2. /\ calls[c].op \in OpIds /\ calls[c].rec \in Row
      /\ calls[c].rec.state = "signed"
      /\ Exists(calls[c].op) /\ ops[calls[c].op].request = calls[c].rec.request
      /\ ops[calls[c].op].state \in SignedStates
  BY <1>1 DEF Call, CallsSound, callSound, readState, copyFresh, SignedStates, Exists
<1>3. /\ row \in Row
      /\ row.state = "submitted"
      /\ row.request = calls[c].rec.request
      /\ sameFacts(calls[c].rec, row)
  BY <1>2 DEF Row, States, sameFacts
<1>4. calls[c].rec.request \in Requests
  BY <1>2 DEF RowsSound
<1>5. CASE TransitionVtxoOperation(calls[c].op, "signed", row)
  <2>1. /\ ops[calls[c].op].state = "signed"
        /\ ops' = [ops EXCEPT ![calls[c].op] = row]
    BY <1>5 DEF TransitionVtxoOperation, CanSwap
  <2>2. calls[c].op \in OpIds /\ Advances(calls[c].op, row)
    BY <1>1, <1>2, <1>3, <1>4, <2>1, SwapAdvances, Zenon DEF Pcs, validVtxoTransition
  <2> QED BY <1>3, <2>2 DEF RowsStep
<1>6. CASE UNCHANGED ops
  BY <1>6 DEF RowsStep
<1> QED BY <1>5, <1>6 DEF promoteSigned

\* promoteSettle advances the row it read, or leaves the rows alone.
LEMMA SettleShape ==
    ASSUME TypeOK, RowsSound, CallsSound, NEW c \in Calls, promoteSettle(c)
    PROVE  RowsStep
<1> DEFINE row == settledRow(c)
<1>1. calls[c] \in Call /\ calls[c] # Idle /\ calls[c].pc = "settle"
  BY CallExists DEF promoteSettle, At, Idle
<1>2. /\ calls[c].op \in OpIds /\ calls[c].rec \in Row
      /\ calls[c].rec.state = "submitted"
      /\ Exists(calls[c].op) /\ ops[calls[c].op].request = calls[c].rec.request
      /\ ops[calls[c].op].state \in SignedStates
  BY <1>1 DEF Call, CallsSound, callSound, readState, copyFresh, SignedStates, Exists
<1>3. /\ row \in Row
      /\ row.state \in {"finalized", "unresolved"}
      /\ row.request = calls[c].rec.request
      /\ sameFacts(calls[c].rec, row)
  BY <1>2, Zenon DEF Row, States, sameFacts, settledRow, TypeOK
<1>4. calls[c].rec.request \in Requests
  BY <1>2 DEF RowsSound
<1>5. CASE TransitionVtxoOperation(calls[c].op, "submitted", row)
  <2>1. /\ ops[calls[c].op].state = "submitted"
        /\ ops' = [ops EXCEPT ![calls[c].op] = row]
    BY <1>5 DEF TransitionVtxoOperation, CanSwap
  <2>2. calls[c].op \in OpIds /\ Advances(calls[c].op, row)
    BY <1>1, <1>2, <1>3, <1>4, <2>1, SwapAdvances, Zenon DEF Pcs, validVtxoTransition
  <2> QED BY <1>3, <2>2 DEF RowsStep
<1>6. CASE UNCHANGED ops
  BY <1>6 DEF RowsStep
<1> QED BY <1>5, <1>6 DEF promoteSettle

\* AbortCommit aborts the reservation it read.
LEMMA AbortShape ==
    ASSUME TypeOK, CallsSound, NEW c \in Calls, AbortCommit(c)
    PROVE  RowsStep
<1> DEFINE row == [calls[c].rec EXCEPT !.state = "aborted"]
<1>1. calls[c] \in Call /\ calls[c] # Idle /\ calls[c].pc = "abort"
  BY CallExists DEF AbortCommit, At, Idle
<1>2. calls[c].rec \in Row /\ calls[c].rec.state = "reserved"
  BY <1>1 DEF Call, CallsSound, callSound, readState
<1>3. row \in Row /\ row.state = "aborted" /\ sameFacts(calls[c].rec, row)
  BY <1>2 DEF Row, States, sameFacts
<1>4. /\ ops[calls[c].op].state = "reserved"
      /\ ops' = [ops EXCEPT ![calls[c].op] = row]
  BY DEF AbortCommit, TransitionVtxoOperation, CanSwap
<1>5. calls[c].op \in OpIds /\ Advances(calls[c].op, row)
  BY <1>1, <1>2, <1>3, <1>4, SwapAdvances, Zenon DEF Pcs, validVtxoTransition, SignedStates
<1> QED BY <1>3, <1>5 DEF RowsStep

-----------------------------------------------------------------------------
\* Every step changes the rows in one of the three ways.
LEMMA StepShape ==
    ASSUME TypeOK, RowsSound, CallsSound, [Next]_vars
    PROVE  RowsStep
<1>1. CASE UNCHANGED vars
  BY <1>1 DEF vars, RowsStep
<1>2. CASE \E c \in Calls, o \in OpIds, v \in Vaults : CallBegins(c, o, v)
  <2>1. PICK c \in Calls, o \in OpIds, v \in Vaults : CallBegins(c, o, v)
    BY <1>2
  <2>2. CASE Expired(o) /\ ops' = AfterExpiry(o)
    BY <2>2, ExpiryAdvances DEF RowsStep
  <2>3. CASE ops' = ops
    BY <2>3 DEF RowsStep
  <2> QED
    BY <2>1, <2>2, <2>3, Zenon DEF CallBegins, ReserveVtxo, replayVtxoReservation,
       loadExpiredVtxo, AuthorizeVtxoSpend, AuthorizeVtxoCheckpoints,
       GetVtxoOperationView, FinalizeVtxo, expireReservedVtxo, AbortVtxo
<1>3. CASE \E c \in Calls : CallSteps(c)
  <2>1. PICK c \in Calls : CallSteps(c)
    BY <1>3
  <2>2. CASE ops' = ops
    BY <2>2 DEF RowsStep
  <2> QED
    BY <2>1, <2>2, InsertShape, AuthorizeShape, CheckpointsShape, PromoteShape,
       SettleShape, AbortShape
    DEF CallSteps, AuthorizeReplay, AuthorizeSign, CheckpointsSign, promoteResolve, promotePending,
        promoteReload, viewUnreconciled, Fail
<1>4. CASE Environment
  <2>1. ops' = ops
    BY <1>4 DEF Environment, AdvanceSignCount, OperatorExecutes, CoinLeaves,
       FeePolicyChanges, Tick
  <2> QED BY <2>1 DEF RowsStep
<1> QED BY <1>1, <1>2, <1>3, <1>4 DEF Next

\* How a row may differ after a step: it never disappears, keeps its facts and,
\* once signed, its request; it changes only along validVtxoTransition.
rowKept(a, b) ==
    /\ b.state # "absent"
    /\ sameFacts(a, b)
    /\ a = b \/ validVtxoTransition(a.state, b.state)
    /\ a.state \in SignedStates => b.request = a.request

\* The rows of a vault after ReserveVtxoOperation.
LEMMA InsertedRows ==
    ASSUME TypeOK, NEW o \in OpIds, NEW rec \in Row, Inserts(o, rec)
    PROVE  /\ ops[o].state = "absent"
           /\ ops'[o] = rec
           /\ \A p \in OpIds \ {o} :
                 \/ ops'[p] = ops[p]
                 \/ /\ ops[p] \in Row
                    /\ ops[p].state = "reserved" /\ ops[p].vault = rec.vault
                    /\ ops'[p] = [ops[p] EXCEPT !.state = "aborted"]
           /\ \A p \in OpIds \ {o} :
                 /\ vtxoStateLocksInputs(ops'[p].state) => ops'[p].inputs \cap rec.inputs = {}
                 /\ vtxoStateBlocksNewOperation(ops'[p].state) => ops'[p].vault # rec.vault
           /\ DOMAIN ops' = OpIds
           /\ ops' = [p \in OpIds |-> ops'[p]]
<1> DEFINE rows == abortExpiredVtxo(rec.vault)
<1>1. ops' = [rows EXCEPT ![o] = rec]
  BY DEF Inserts, ReserveVtxoOperation
<1>2. rows = [p \in OpIds |-> rows[p]]
  BY DEF abortExpiredVtxo
<1>3. \A p \in OpIds :
         \/ rows[p] = ops[p]
         \/ /\ ops[p].state = "reserved" /\ ops[p].vault = rec.vault
            /\ rows[p] = [ops[p] EXCEPT !.state = "aborted"]
  BY DEF abortExpiredVtxo
<1>4. /\ ~ rejectOverlappingVtxoInputs(rows, o, rec)
      /\ ~ rejectConcurrentVtxoOperation(rows, o, rec.vault)
      /\ rows[o].state = "absent"
  BY DEF Inserts, ReserveVtxoOperation, CanReserve, ReservationAccepted
<1>5. \A p \in OpIds : ops[p].state = "reserved" => ops[p] \in Row
  BY RowExists DEF Exists
<1>6. ops[o].state = "absent"
  <2>1. CASE rows[o] = ops[o]
    BY <2>1, <1>4
  <2>2. CASE ops[o].state = "reserved" /\ rows[o] = [ops[o] EXCEPT !.state = "aborted"]
    <3>1. ops[o] \in Row
      BY <2>2, <1>5
    <3>2. rows[o].state = "aborted"
      BY <2>2, <3>1 DEF Row
    <3> QED BY <3>2, <1>4
  <2> QED BY <1>3, <2>1, <2>2
<1>7. ops'[o] = rec
  BY <1>1, <1>2
<1>8. \A p \in OpIds \ {o} : ops'[p] = rows[p]
  BY <1>1, <1>2
<1>9. DOMAIN ops' = OpIds /\ ops' = [p \in OpIds |-> ops'[p]]
  BY <1>1, <1>2
<1>10. \A p \in OpIds \ {o} :
          /\ vtxoStateLocksInputs(rows[p].state) => rows[p].inputs \cap rec.inputs = {}
          /\ vtxoStateBlocksNewOperation(rows[p].state) => rows[p].vault # rec.vault
  BY <1>4 DEF rejectOverlappingVtxoInputs, rejectConcurrentVtxoOperation
<1> QED BY <1>3, <1>5, <1>6, <1>7, <1>8, <1>9, <1>10, ZenonT(60)

\* The row invariants survive every step, and no row is lost or rewritten.
LEMMA RowsPreserved ==
    ASSUME TypeOK, RowsSound, OneLifecyclePerVault, LiveInputsDisjoint, RowsStep
    PROVE  /\ ops' \in [OpIds -> Row \cup {NoRow}]
           /\ \A p \in OpIds : Exists(p) => rowKept(ops[p], ops'[p])
           /\ RowsSound'
           /\ OneLifecyclePerVault'
           /\ LiveInputsDisjoint'
<1>1. CASE ops' = ops
  <2>1. \A p \in OpIds : Exists(p) => rowKept(ops[p], ops'[p])
    BY <1>1 DEF rowKept, sameFacts, Exists
  <2> QED
    BY <1>1, <2>1 DEF TypeOK, RowsSound, OneLifecyclePerVault, LiveInputsDisjoint, Exists
<1>2. ASSUME NEW o \in OpIds, NEW row \in Row, Advances(o, row)
      PROVE  /\ ops' \in [OpIds -> Row \cup {NoRow}]
             /\ \A p \in OpIds : Exists(p) => rowKept(ops[p], ops'[p])
             /\ RowsSound' /\ OneLifecyclePerVault' /\ LiveInputsDisjoint'
  <2>1. /\ ops[o] \in Row
        /\ validVtxoTransition(ops[o].state, row.state)
        /\ ops[o].vault = row.vault /\ ops[o].inputs = row.inputs
        /\ row.state \in SignedStates => row.request \in Requests
    BY <1>2 DEF Advances, sameFacts
  <2>2. /\ ops' \in [OpIds -> Row \cup {NoRow}]
        /\ ops'[o] = row
        /\ \A p \in OpIds \ {o} : ops'[p] = ops[p]
    BY <1>2 DEF Advances, TypeOK
  <2>3. row.state \in States /\ row.state # "absent" /\ ops[o].state # "absent"
        /\ ops[o].state # "aborted"
    BY <2>1 DEF Row, States, validVtxoTransition
  <2>4. \A p \in OpIds : Exists(p) => rowKept(ops[p], ops'[p])
    BY <1>2, <2>2, <2>3 DEF Advances, rowKept, Exists, sameFacts
  <2>5. RowsSound'
    BY <2>1, <2>2, <2>3 DEF RowsSound, Exists
  <2>6. OneLifecyclePerVault'
    <3>1. vtxoStateBlocksNewOperation(row.state) => vtxoStateBlocksNewOperation(ops[o].state)
      BY <2>1 DEF validVtxoTransition, vtxoStateBlocksNewOperation
    <3> QED BY <2>1, <2>2, <3>1 DEF OneLifecyclePerVault
  <2>7. LiveInputsDisjoint'
    BY <2>1, <2>2, <2>3 DEF LiveInputsDisjoint
  <2> QED BY <2>2, <2>4, <2>5, <2>6, <2>7
<1>3. ASSUME NEW o \in OpIds, NEW rec \in Row, Inserts(o, rec)
      PROVE  /\ ops' \in [OpIds -> Row \cup {NoRow}]
             /\ \A p \in OpIds : Exists(p) => rowKept(ops[p], ops'[p])
             /\ RowsSound' /\ OneLifecyclePerVault' /\ LiveInputsDisjoint'
  <2>1. /\ ops[o].state = "absent" /\ ops'[o] = rec
        /\ ops' = [p \in OpIds |-> ops'[p]]
        /\ \A p \in OpIds \ {o} :
              /\ vtxoStateLocksInputs(ops'[p].state) => ops'[p].inputs \cap rec.inputs = {}
              /\ vtxoStateBlocksNewOperation(ops'[p].state) => ops'[p].vault # rec.vault
    BY <1>3, InsertedRows
  <2>2. ASSUME NEW p \in OpIds \ {o}
        PROVE  \/ ops'[p] = ops[p]
               \/ /\ ops[p] \in Row /\ ops'[p] \in Row
                  /\ ops[p].state = "reserved" /\ ops'[p].state = "aborted"
                  /\ sameFacts(ops[p], ops'[p])
                  /\ ops'[p].request = ops[p].request
    <3>1. CASE ops'[p] = ops[p]
      BY <3>1
    <3>2. CASE /\ ops[p] \in Row /\ ops[p].state = "reserved"
               /\ ops'[p] = [ops[p] EXCEPT !.state = "aborted"]
      BY <3>2 DEF Row, States, sameFacts
    <3> QED BY <1>3, <3>1, <3>2, InsertedRows
  <2>3. /\ rec.state = "reserved" /\ rec.inputs # {} /\ rec.inputs \subseteq CoinsOf[rec.vault]
        /\ rec.vault \in Vaults
    BY <1>3 DEF Inserts, Row
  <2>4. ops' \in [OpIds -> Row \cup {NoRow}]
    <3>1. \A p \in OpIds : ops'[p] \in Row \cup {NoRow}
      BY <2>1, <2>2 DEF TypeOK
    <3> QED BY <2>1, <3>1
  <2>5. \A p \in OpIds : Exists(p) => rowKept(ops[p], ops'[p])
    BY <2>1, <2>2 DEF rowKept, Exists, sameFacts, validVtxoTransition, SignedStates
  <2>6. RowsSound'
    BY <2>1, <2>2, <2>3 DEF RowsSound, Exists, SignedStates, sameFacts
  <2>7. OneLifecyclePerVault'
    BY <2>1, <2>2, <2>3 DEF OneLifecyclePerVault, vtxoStateBlocksNewOperation, sameFacts
  <2>8. ASSUME NEW p \in OpIds \ {o}, ops'[p].state \notin {"absent", "aborted"}
        PROVE  ops'[p].inputs \cap rec.inputs = {}
    <3>1. ops'[p] = ops[p] /\ Exists(p)
      BY <2>2, <2>8 DEF Exists
    <3>2. ops[p] \in Row
      BY <3>1, RowExists
    <3>3. CASE ops[p].state = "unresolved"
      <4>1. ops[p].vault # rec.vault
        BY <2>1, <3>1, <3>3 DEF vtxoStateBlocksNewOperation
      <4>2. ops[p].vault \in Vaults /\ ops[p].inputs \subseteq CoinsOf[ops[p].vault]
        BY <3>1, <3>2 DEF RowsSound, Row
      <4>3. CoinsOf[ops[p].vault] \cap CoinsOf[rec.vault] = {}
        BY <2>3, <4>1, <4>2, LedgerConstants
      <4> QED BY <2>3, <3>1, <4>2, <4>3
    <3>4. CASE vtxoStateLocksInputs(ops[p].state)
      BY <2>1, <3>1, <3>4
    <3> QED BY <2>8, <3>1, <3>2, <3>3, <3>4, Zenon DEF Row, States, vtxoStateLocksInputs
  <2>9. LiveInputsDisjoint'
    <3>1. ASSUME NEW a \in OpIds, NEW b \in OpIds, a # b,
                 ops'[a].state \notin {"absent", "aborted"},
                 ops'[b].state \notin {"absent", "aborted"}
          PROVE  ops'[a].inputs \cap ops'[b].inputs = {}
      <4>1. CASE a = o
        BY <2>1, <2>8, <3>1, <4>1
      <4>2. CASE b = o
        BY <2>1, <2>8, <3>1, <4>2
      <4>3. CASE a # o /\ b # o
        BY <2>2, <3>1, <4>3 DEF LiveInputsDisjoint
      <4> QED BY <4>1, <4>2, <4>3
    <3> QED BY <3>1 DEF LiveInputsDisjoint
  <2> QED BY <2>4, <2>5, <2>6, <2>7, <2>9
<1> QED BY <1>1, <1>2, <1>3, Zenon DEF RowsStep

-----------------------------------------------------------------------------
\* A call's copy stays as fresh as it was while other calls move the row.
LEMMA CallKept ==
    ASSUME TypeOK, NEW k \in Call, callSound(ops, k),
           \A p \in OpIds : Exists(p) => rowKept(ops[p], ops'[p])
    PROVE  callSound(ops', k)
<1>1. CASE k.pc = "reserve"
  BY <1>1 DEF callSound
<1>2. CASE k.pc # "reserve"
  <2> DEFINE o == k.op
             rec == k.rec
  <2>1. o \in OpIds /\ rec \in Row
    BY DEF Call
  <2>2. copyFresh(ops, o, rec)
    BY <1>2 DEF callSound
  <2>3. rowKept(ops[o], ops'[o])
    BY <2>1, <2>2 DEF copyFresh, Exists
  <2>4. rec.state \in {"reserved", "signed", "submitted"}
    BY Zenon DEF callSound, readState
  <2>5. copyFresh(ops', o, rec)
    <3>1. CASE ops'[o] = ops[o]
      BY <2>2, <3>1 DEF copyFresh
    <3>2. CASE validVtxoTransition(ops[o].state, ops'[o].state)
      <4>1. ops'[o].state # "absent" /\ sameFacts(ops'[o], rec)
        BY <2>2, <2>3, Zenon DEF copyFresh, rowKept, sameFacts
      <4>2. ops'[o].state # rec.state
        BY <2>2, <2>4, <3>2, Zenon DEF copyFresh, validVtxoTransition, SignedStates
      <4>3. rec.state \in SignedStates => /\ ops'[o].state \in SignedStates
                                          /\ ops'[o].request = rec.request
        BY <2>2, <2>3, <3>2, Zenon DEF copyFresh, rowKept, validVtxoTransition, SignedStates
      <4>4. rec.state = "submitted" => ops'[o].state # "signed"
        BY <2>2, <3>2, Zenon DEF copyFresh, validVtxoTransition, SignedStates
      <4> QED BY <4>1, <4>2, <4>3, <4>4, Zenon DEF copyFresh
    <3> QED BY <2>3, <3>1, <3>2, Zenon DEF rowKept
  <2> QED BY <1>2, <2>5 DEF callSound
<1> QED BY <1>1, <1>2

\* A call that begins with the row it just read is sound.
LEMMA FreshCall ==
    ASSUME TypeOK, RowsSound, NEW o \in OpIds, Exists(o), NEW k \in Call,
           k.op = o, k.rec = ops[o], k.pc # "reserve",
           ops[o].state \in readState(k.pc),
           k.pc \in {"authorize", "sign"} => k.req \in Requests,
           k.pc \in {"checkpoints", "checkpointSign"} => k.req \in Checkpoints
    PROVE  callSound(ops, k)
<1>1. copyFresh(ops, o, ops[o])
  BY DEF copyFresh, sameFacts, Exists
<1> QED BY <1>1 DEF callSound

\* Enough to look at the call that moves.
LEMMA CallsFrame ==
    ASSUME TypeOK, CallsSound, NEW c \in Calls, NEW k \in Call \cup {Idle},
           calls' = [calls EXCEPT ![c] = k],
           k # Idle => callSound(ops', k),
           \A p \in OpIds : Exists(p) => rowKept(ops[p], ops'[p])
    PROVE  calls' \in [Calls -> Call \cup {Idle}] /\ CallsSound'
<1>1. calls' \in [Calls -> Call \cup {Idle}] /\ calls'[c] = k
  BY DEF TypeOK
<1>2. ASSUME NEW d \in Calls, calls'[d] # Idle
      PROVE  callSound(ops', calls'[d])
  <2>1. CASE d = c
    BY <1>1, <1>2, <2>1
  <2>2. CASE d # c
    <3>1. calls'[d] = calls[d] /\ calls[d] \in Call
      BY <1>2, <2>2 DEF TypeOK
    <3>2. callSound(ops, calls[d])
      BY <1>2, <3>1, Zenon DEF CallsSound
    <3> QED BY <3>1, <3>2, CallKept
  <2> QED BY <2>1, <2>2
<1> QED BY <1>1, <1>2 DEF CallsSound

\* A call keeps its copy while it goes from one of its steps to the next.
LEMMA MovedCall ==
    ASSUME TypeOK, NEW a \in Call, NEW k \in Call, callSound(ops, a),
           a.pc # "reserve", k.pc # "reserve",
           k.op = a.op, k.rec = a.rec,
           a.rec.state \in readState(k.pc),
           k.pc \in {"authorize", "sign"} => k.req \in Requests,
           k.pc \in {"checkpoints", "checkpointSign"} => k.req \in Checkpoints,
           \A p \in OpIds : Exists(p) => rowKept(ops[p], ops'[p])
    PROVE  callSound(ops', k)
<1>1. callSound(ops', a)
  BY CallKept
<1> QED BY <1>1 DEF callSound

\* The calls that begin in a step are sound (the first read of each handler).
LEMMA BeginsSound ==
    ASSUME TypeOK, RowsSound, CallsSound, NEW c \in Calls, NEW o \in OpIds, NEW v \in Vaults,
           CallBegins(c, o, v),
           \A p \in OpIds : Exists(p) => rowKept(ops[p], ops'[p])
    PROVE  calls' \in [Calls -> Call \cup {Idle}] /\ CallsSound'
<1> DEFINE new(pc, rec, req, n, view) ==
             [pc |-> pc, op |-> o, rec |-> rec, req |-> req, count |-> n,
              seen |-> "unknown", view |-> view]
<1>1. ASSUME NEW amount \in Amounts, NEW fee \in Fees, NEW inputs \in SUBSET Coins,
             ReserveVtxo(c, o, v, amount, fee, inputs)
      PROVE  calls' \in [Calls -> Call \cup {Idle}] /\ CallsSound'
  <2> DEFINE rec == newReservation(v, amount, fee, inputs)
             k == new("reserve", rec, None, 0, FALSE)
  <2>1. rec \in Row /\ rec.state = "reserved" /\ rec.inputs = inputs /\ rec.vault = v
    BY LedgerConstants DEF newReservation, Row, States, TypeOK
  <2>2. k \in Call /\ k.rec = rec /\ k.pc = "reserve"
    BY <2>1 DEF Call, Pcs
  <2>3. callSound(ops', k)
    BY <1>1, <2>1, <2>2, Zenon DEF callSound, readState, ReserveVtxo
  <2>4. calls' = [calls EXCEPT ![c] = k]
    BY <1>1 DEF ReserveVtxo, Begin
  <2> QED BY <2>2, <2>3, <2>4, CallsFrame, Zenon
<1>2. ASSUME NEW pc \in Pcs \ {"reserve"},
             NEW req \in Requests \cup Checkpoints \cup {None}, NEW n \in Nat,
             NEW view \in BOOLEAN,
             Exists(o), ops[o].state \in readState(pc),
             pc \in {"authorize", "sign"} => req \in Requests,
             pc \in {"checkpoints", "checkpointSign"} => req \in Checkpoints,
             Begin(c, pc, o, ops[o], req, n, view), ops' = ops
      PROVE  calls' \in [Calls -> Call \cup {Idle}] /\ CallsSound'
  <2> DEFINE k == new(pc, ops[o], req, n, view)
  <2>1. ops[o] \in Row
    BY <1>2, RowExists
  <2>2. k \in Call /\ k.pc = pc /\ k.op = o /\ k.rec = ops[o] /\ k.req = req
    BY <1>2, <2>1 DEF Call
  <2>3. callSound(ops, k)
    BY <1>2, <2>2, FreshCall
  <2>4. calls' = [calls EXCEPT ![c] = k]
    BY <1>2 DEF Begin
  <2>5. callSound(ops', k)
    BY <1>2, <2>3
  <2> QED BY <2>2, <2>4, <2>5, CallsFrame, Zenon
<1>3. CASE calls' = calls
  <2>1. calls' = [calls EXCEPT ![c] = calls[c]] /\ calls[c] \in Call \cup {Idle}
    BY <1>3 DEF TypeOK
  <2>2. calls[c] # Idle => callSound(ops', calls[c])
    BY <2>1, CallKept DEF CallsSound
  <2> QED BY <2>1, <2>2, CallsFrame, Zenon
<1>4. ASSUME NEW r \in Requests, NEW n \in Counts, AuthorizeVtxoSpend(c, o, v, r, n)
      PROVE  calls' \in [Calls -> Call \cup {Idle}] /\ CallsSound'
  <2>1. /\ Exists(o) /\ ops[o].state \in readState("authorize")
        /\ Begin(c, "authorize", o, ops[o], r, n, FALSE) /\ ops' = ops
    BY <1>4, Zenon DEF AuthorizeVtxoSpend, readState
  <2>2. n \in Nat
    BY SpendConstants
  <2> QED BY <1>2, <2>1, <2>2, Zenon DEF Pcs
<1>5. ASSUME NEW q \in Checkpoints, AuthorizeVtxoCheckpoints(c, o, v, q)
      PROVE  calls' \in [Calls -> Call \cup {Idle}] /\ CallsSound'
  <2>1. /\ Exists(o) /\ ops[o].state \in readState("checkpoints")
        /\ Begin(c, "checkpoints", o, ops[o], q, 0, FALSE) /\ ops' = ops
    BY <1>5, Zenon DEF AuthorizeVtxoCheckpoints, readState
  <2> QED BY <1>2, <2>1, Zenon DEF Pcs
<1>6. CASE GetVtxoOperationView(c, o, v)
  <2>1. /\ Exists(o) /\ ops[o].state \in readState("resolve")
        /\ Begin(c, "resolve", o, ops[o], None, 0, TRUE) /\ ops' = ops
    BY <1>6, Zenon DEF GetVtxoOperationView, readState
  <2> QED BY <1>2, <2>1, Zenon DEF Pcs
<1>7. CASE FinalizeVtxo(c, o, v)
  <2>1. /\ Exists(o) /\ ops[o].state \in readState("resolve")
        /\ Begin(c, "resolve", o, ops[o], None, 0, FALSE) /\ ops' = ops
    BY <1>7, Zenon DEF FinalizeVtxo, readState
  <2> QED BY <1>2, <2>1, Zenon DEF Pcs
<1>8. CASE AbortVtxo(c, o, v)
  <2>1. /\ Exists(o) /\ ops[o].state \in readState("abort")
        /\ Begin(c, "abort", o, ops[o], None, 0, FALSE) /\ ops' = ops
    BY <1>8, Zenon DEF AbortVtxo, readState
  <2> QED BY <1>2, <2>1, Zenon DEF Pcs
<1> QED
  BY <1>1, <1>3, <1>4, <1>5, <1>6, <1>7, <1>8, Zenon
  DEF CallBegins, replayVtxoReservation, loadExpiredVtxo, expireReservedVtxo

\* The call that takes a step stays sound, or is over.
LEMMA StepsSound ==
    ASSUME TypeOK, RowsSound, CallsSound, NEW c \in Calls, CallSteps(c),
           ops' \in [OpIds -> Row \cup {NoRow}],
           \A p \in OpIds : Exists(p) => rowKept(ops[p], ops'[p])
    PROVE  calls' \in [Calls -> Call \cup {Idle}] /\ CallsSound'
<1> DEFINE a == calls[c]
<1>1. CASE Return(c)
  BY <1>1, CallsFrame, Zenon DEF Return
<1>2. ASSUME a \in Call, a # Idle,
             NEW k \in Call, a.pc # "reserve", k.pc # "reserve",
             k.op = a.op, k.rec = a.rec, a.rec.state \in readState(k.pc),
             k.pc \in {"authorize", "sign"} => k.req \in Requests,
             k.pc \in {"checkpoints", "checkpointSign"} => k.req \in Checkpoints,
             calls' = [calls EXCEPT ![c] = k]
      PROVE  calls' \in [Calls -> Call \cup {Idle}] /\ CallsSound'
  <2>1. callSound(ops, a)
    BY <1>2, Zenon DEF CallsSound
  <2>2. callSound(ops', k)
    BY <1>2, <2>1, MovedCall
  <2> QED BY <1>2, <2>2, CallsFrame, Zenon
<1>3. CASE AuthorizeSign(c)
  <2> DEFINE k == [a EXCEPT !.pc = "sign"]
  <2>1. a \in Call /\ a # Idle /\ a.pc = "authorize" /\ a.rec.state = "reserved"
    BY <1>3, CallExists DEF AuthorizeSign, At, Idle
  <2>2. a.req \in Requests
    BY <2>1 DEF CallsSound, callSound
  <2>3. k \in Call /\ k.pc = "sign" /\ k.op = a.op /\ k.rec = a.rec /\ k.req = a.req
    BY <2>1 DEF Call, Pcs
  <2>4. calls' = [calls EXCEPT ![c] = k]
    BY <1>3 DEF AuthorizeSign, Goto
  <2>5. a.rec.state \in readState("sign")
    BY <2>1 DEF readState
  <2> QED BY <1>2, <2>1, <2>2, <2>3, <2>4, <2>5, Zenon
<1>4. CASE CheckpointsSign(c)
  <2> DEFINE k == [a EXCEPT !.pc = "checkpointSign"]
  <2>1. a \in Call /\ a # Idle /\ a.pc = "checkpoints" /\ a.rec.state = "signed"
    BY <1>4, CallExists DEF CheckpointsSign, At, Idle
  <2>2. a.req \in Checkpoints
    BY <2>1 DEF CallsSound, callSound
  <2>3. k \in Call /\ k.pc = "checkpointSign" /\ k.op = a.op /\ k.rec = a.rec /\ k.req = a.req
    BY <2>1 DEF Call, Pcs
  <2>4. calls' = [calls EXCEPT ![c] = k]
    BY <1>4 DEF CheckpointsSign, Goto
  <2>5. a.rec.state \in readState("checkpointSign")
    BY <2>1 DEF readState
  <2> QED BY <1>2, <2>1, <2>2, <2>3, <2>4, <2>5, Zenon
<1>5. CASE promoteResolve(c)
  <2> DEFINE seen == SubmittedVtxoState(a.op, a.rec)
             pc == IF seen = "pending" THEN "reload"
                   ELSE IF a.rec.state = "signed" THEN "promote" ELSE "settle"
             k == [a EXCEPT !.seen = seen, !.pc = pc]
  <2>1. a \in Call /\ a # Idle /\ a.pc = "resolve"
    BY <1>5, CallExists DEF promoteResolve, At, Idle
  <2>2. a.rec.state \in {"signed", "submitted"}
    BY <2>1 DEF CallsSound, callSound, readState
  <2>3. seen \in {"pending", "finalized", "conflict"}
    BY DEF SubmittedVtxoState
  <2>4. pc \in {"reload", "promote", "settle"} /\ a.rec.state \in readState(pc)
    BY <2>2 DEF readState
  <2>5. k \in Call /\ k.pc = pc /\ k.op = a.op /\ k.rec = a.rec
    BY <2>1, <2>3, <2>4, Zenon DEF Call, Pcs
  <2>6. calls' = [calls EXCEPT ![c] = k]
    BY <1>5, Zenon DEF promoteResolve
  <2> QED BY <1>2, <2>1, <2>4, <2>5, <2>6, Zenon
<1>pending. CASE promotePending(c)
  <2> DEFINE k == [a EXCEPT !.seen = "pending", !.pc = "reload"]
  <2>1. a \in Call /\ a # Idle /\ a.pc = "resolve"
    BY <1>pending, CallExists DEF promotePending, At, Idle
  <2>2. a.rec.state \in readState("reload")
    BY <2>1 DEF CallsSound, callSound, readState
  <2>3. k \in Call /\ k.pc = "reload" /\ k.op = a.op /\ k.rec = a.rec
    BY <2>1, Zenon DEF Call, Pcs
  <2>4. calls' = [calls EXCEPT ![c] = k]
    BY <1>pending, Zenon DEF promotePending
  <2> QED BY <1>2, <2>1, <2>2, <2>3, <2>4, Zenon
<1>6. CASE promoteSigned(c)
  <2>1. a \in Call /\ a # Idle /\ a.pc = "promote" /\ a.op \in OpIds /\ a.rec \in Row
    BY <1>6, CallExists DEF promoteSigned, At, Idle, Call
  <2>2. a.rec.state = "signed" /\ copyFresh(ops, a.op, a.rec)
    BY <2>1 DEF CallsSound, callSound, readState
  <2>3. ASSUME NEW rec \in Row, rec = ops'[a.op], rec.state = "submitted",
               calls' = [calls EXCEPT ![c].rec = rec, ![c].pc = "settle"]
        PROVE  calls' \in [Calls -> Call \cup {Idle}] /\ CallsSound'
    <3> DEFINE k == [a EXCEPT !.rec = rec, !.pc = "settle"]
    <3>1. k \in Call /\ k.pc = "settle" /\ k.op = a.op /\ k.rec = rec
      BY <2>1, <2>3, Zenon DEF Call, Pcs
    <3>2. calls' = [calls EXCEPT ![c] = k]
      BY <2>3, Zenon
    <3>3. copyFresh(ops', a.op, rec)
      BY <2>3 DEF copyFresh, sameFacts, SignedStates
    <3>4. callSound(ops', k)
      BY <2>3, <3>1, <3>3 DEF callSound, readState
    <3> QED BY <3>1, <3>2, <3>4, CallsFrame, Zenon
  <2>4. CASE /\ TransitionVtxoOperation(a.op, "signed", [a.rec EXCEPT !.state = "submitted"])
             /\ calls' = [calls EXCEPT ![c].rec = [a.rec EXCEPT !.state = "submitted"],
                                      ![c].pc = "settle"]
    <3> DEFINE rec == [a.rec EXCEPT !.state = "submitted"]
    <3>1. rec \in Row /\ rec.state = "submitted"
      BY <2>1 DEF Row, States
    <3>2. ops'[a.op] = rec
      BY <2>1, <2>4 DEF TransitionVtxoOperation, TypeOK
    <3> QED BY <2>3, <2>4, <3>1, <3>2, Zenon
  <2>5. CASE /\ ops[a.op].state = "submitted" /\ ops' = ops
             /\ calls' = [calls EXCEPT ![c].rec = ops[a.op], ![c].pc = "settle"]
    <3>1. ops[a.op] \in Row
      BY <2>1, <2>5, RowExists DEF Exists
    <3> QED BY <2>3, <2>5, <3>1, Zenon
  <2>6. CASE Goto(c, "reload")
    <3> DEFINE k == [a EXCEPT !.pc = "reload"]
    <3>1. k \in Call /\ k.pc = "reload" /\ k.op = a.op /\ k.rec = a.rec
      BY <2>1 DEF Call, Pcs
    <3>2. calls' = [calls EXCEPT ![c] = k]
      BY <2>6 DEF Goto
    <3>3. a.rec.state \in readState("reload")
      BY <2>2 DEF readState
    <3> QED BY <1>2, <2>1, <3>1, <3>2, <3>3, Zenon
  <2> QED BY <1>6, <2>4, <2>5, <2>6, Zenon DEF promoteSigned
<1>7. CASE promoteSettle(c)
  <2> DEFINE k == [a EXCEPT !.pc = "reload"]
  <2>1. a \in Call /\ a # Idle /\ a.pc = "settle"
    BY <1>7, CallExists DEF promoteSettle, At, Idle
  <2>2. a.rec.state \in readState("reload")
    BY <2>1 DEF CallsSound, callSound, readState
  <2>3. k \in Call /\ k.pc = "reload" /\ k.op = a.op /\ k.rec = a.rec
    BY <2>1 DEF Call, Pcs
  <2>4. calls' = [calls EXCEPT ![c] = k]
    BY <1>7, Zenon DEF promoteSettle, Goto
  <2> QED BY <1>2, <2>1, <2>2, <2>3, <2>4, Zenon
<1> QED
  BY <1>1, <1>3, <1>4, <1>5, <1>pending, <1>6, <1>7
  DEF CallSteps, ReserveVtxoInsert, AuthorizeReplay, AuthorizeCommit, CheckpointsCommit,
      promoteReload, viewUnreconciled, AbortCommit, Fail

-----------------------------------------------------------------------------
\* What a release must satisfy, as a fact about one set of rows.
durable(rows, rel) ==
    /\ rel \in Release
    /\ rows[rel.op].state \in SignedStates
    /\ rows[rel.op].request = rel.request

\* A signature shown from a row that awaits settlement is durable.
LEMMA ShownDurable ==
    ASSUME NEW rows, NEW o \in OpIds, NEW rec, NEW view \in BOOLEAN,
           rec.state \in {"signed", "submitted"} =>
               /\ rows[o].state \in SignedStates
               /\ rows[o].request = rec.request
               /\ rec.request \in Requests
    PROVE  \A rel \in shownBy(view, o, rec) : durable(rows, rel)
BY DEF shownBy, durable, Release, NoCount

\* The signatures a step lets out are durable once the step is done.
LEMMA NewReleases ==
    ASSUME TypeOK, RowsSound, CallsSound, NEW c \in Calls, CallSteps(c)
    PROVE  \A rel \in released' \ released : durable(ops', rel)
<1> DEFINE a == calls[c]
<1>1. CASE released' = released
  BY <1>1
<1>2. CASE AuthorizeReplay(c)
  <2>1. a \in Call /\ a # Idle /\ a.pc = "authorize"
    BY <1>2, CallExists DEF AuthorizeReplay, At, Idle
  <2>2. a.op \in OpIds /\ a.count \in Nat /\ a.req \in Requests
    BY <2>1, Zenon DEF Call, CallsSound, callSound
  <2>3. ops[a.op].state = "signed" /\ ops[a.op].request = a.rec.request
    BY <1>2, <2>1, Zenon DEF AuthorizeReplay, CallsSound, callSound, copyFresh
  <2>4. /\ released' \ released \subseteq
              {[op |-> a.op, request |-> a.rec.request, count |-> a.count]}
        /\ a.rec.request = a.req /\ ops' = ops
    BY <1>2, Zenon DEF AuthorizeReplay
  <2>5. durable(ops, [op |-> a.op, request |-> a.rec.request, count |-> a.count])
    BY <2>2, <2>3, <2>4, Zenon DEF durable, Release, SignedStates
  <2> QED BY <2>4, <2>5, Zenon
<1>3. CASE AuthorizeCommit(c)
  <2> DEFINE rel == [op |-> a.op, request |-> a.req, count |-> a.count]
  <2>1. a \in Call /\ a # Idle /\ a.pc = "sign"
    BY <1>3, CallExists DEF AuthorizeCommit, At, Idle
  <2>2. a.op \in OpIds /\ a.count \in Nat /\ a.req \in Requests /\ a.rec \in Row
    BY <2>1, Zenon DEF Call, CallsSound, callSound
  <2>3. rel \in Release /\ rel.op = a.op /\ rel.request = a.req
    BY <2>2, Zenon DEF Release
  <2>4. ops'[a.op].state = "signed" /\ ops'[a.op].request = a.req
    <3>1. CASE CommitSignedVtxoOperation(a.op, signedRow(c), a.count)
      <4>1. ops'[a.op] = signedRow(c)
        BY <2>2, <3>1, Zenon DEF CommitSignedVtxoOperation, TypeOK
      <4> QED BY <2>2, <4>1, Zenon DEF signedRow, Row
    <3>2. CASE ops[a.op].state = "signed" /\ ops[a.op].request = a.req /\ ops' = ops
      BY <3>2, Zenon
    <3> QED BY <1>3, <3>1, <3>2 DEF AuthorizeCommit
  <2>5. released' \ released \subseteq {rel}
    BY <1>3, Zenon DEF AuthorizeCommit
  <2> QED BY <2>3, <2>4, <2>5, Zenon DEF durable, SignedStates
<1>4. CASE promoteReload(c)
  <2>1. a \in Call /\ a # Idle /\ a.op \in OpIds /\ a.view \in BOOLEAN
    BY <1>4, CallExists, Zenon DEF promoteReload, At, Idle, Call
  <2>2. ops[a.op].state \in {"signed", "submitted"} =>
          ops[a.op].state \in SignedStates /\ ops[a.op].request \in Requests
    BY <2>1, Zenon DEF RowsSound, Exists, SignedStates
  <2>3. \A rel \in shownBy(a.view, a.op, ops[a.op]) : durable(ops, rel)
    BY <2>1, <2>2, ShownDurable, Zenon
  <2> QED BY <1>4, <2>3, Zenon DEF promoteReload
<1>5. CASE viewUnreconciled(c)
  <2>1. a \in Call /\ a # Idle /\ a.pc # "reserve" /\ a.op \in OpIds /\ a.view \in BOOLEAN
    BY <1>5, CallExists, Zenon DEF viewUnreconciled, Idle, Call
  <2>2. copyFresh(ops, a.op, a.rec)
    BY <2>1, Zenon DEF CallsSound, callSound
  <2>3. a.rec.state \in {"signed", "submitted"} =>
          /\ ops[a.op].state \in SignedStates
          /\ ops[a.op].request = a.rec.request
          /\ a.rec.request \in Requests
    BY <2>1, <2>2, Zenon DEF copyFresh, RowsSound, Exists, SignedStates
  <2>4. \A rel \in shownBy(a.view, a.op, a.rec) : durable(ops, rel)
    BY <2>1, <2>3, ShownDurable, Zenon
  <2> QED BY <1>5, <2>4, Zenon DEF viewUnreconciled
<1> QED
  BY <1>1, <1>2, <1>3, <1>4, <1>5
  DEF CallSteps, ReserveVtxoInsert, AuthorizeSign, CheckpointsSign, CheckpointsCommit,
      promoteResolve, promotePending, promoteSigned, promoteSettle, AbortCommit, Fail

\* A signature that is out stays durable.
LEMMA OldReleases ==
    ASSUME TypeOK, ReleasedIsDurable, NEW rel \in released,
           \A p \in OpIds : Exists(p) => rowKept(ops[p], ops'[p])
    PROVE  durable(ops', rel)
<1>1. rel \in Release /\ rel.op \in OpIds
  BY Zenon DEF TypeOK, Release
<1>2. ops[rel.op].state \in SignedStates /\ ops[rel.op].request = rel.request
  BY DEF ReleasedIsDurable, SignedStates
<1>3. rowKept(ops[rel.op], ops'[rel.op])
  BY <1>1, <1>2 DEF Exists, SignedStates
<1> QED BY <1>1, <1>2, <1>3 DEF rowKept, durable, validVtxoTransition, SignedStates

\* The counter, the clock and the world outside keep their types.
LEMMA OutsideTyped ==
    ASSUME TypeOK, Next
    PROVE  /\ signCounts' \in [Vaults -> Nat \cup {NoCount}]
           /\ now' \in Nat
           /\ feePolicy' \in FeePolicies
           /\ spentBy' \in [Coins -> {Unspent, Elsewhere} \cup (OpIds \X Requests)]
           /\ executedAt' \in [OpIds -> Nat \cup {Never}]
<1>1. CASE \E c \in Calls, o \in OpIds, v \in Vaults : CallBegins(c, o, v)
  <2>0. PICK c \in Calls, o \in OpIds, v \in Vaults : CallBegins(c, o, v)
    BY <1>1
  <2>1. signCounts' = signCounts /\ UNCHANGED outside
    BY <2>0, Zenon DEF CallBegins, ReserveVtxo, replayVtxoReservation,
       loadExpiredVtxo, AuthorizeVtxoSpend, AuthorizeVtxoCheckpoints,
       GetVtxoOperationView, FinalizeVtxo, expireReservedVtxo, AbortVtxo
  <2> QED BY <2>1 DEF outside, TypeOK
<1>2. CASE \E c \in Calls : CallSteps(c)
  <2>1. PICK c \in Calls : CallSteps(c)
    BY <1>2, Zenon
  <2>2. UNCHANGED outside
    BY <2>1 DEF CallSteps, ReserveVtxoInsert, AuthorizeReplay, AuthorizeSign, AuthorizeCommit,
       CheckpointsSign, CheckpointsCommit, promoteResolve, promotePending, promoteSigned, promoteSettle,
       promoteReload, viewUnreconciled, AbortCommit, Fail
  <2>3. CASE AuthorizeCommit(c)
    <3>1. calls[c] \in Call
      BY <2>3, CallExists, Zenon DEF AuthorizeCommit, At
    <3>2. calls[c].count \in Nat
      BY <3>1, Zenon DEF Call
    <3>3. \/ signCounts' = signCounts
          \/ signCounts' = [signCounts EXCEPT ![signedRow(c).vault] = calls[c].count]
      BY <2>3, Zenon DEF AuthorizeCommit, CommitSignedVtxoOperation, advanceSignCount
    <3>4. signCounts' \in [Vaults -> Nat \cup {NoCount}]
      BY <3>2, <3>3 DEF TypeOK
    <3> QED BY <2>2, <3>4 DEF outside, TypeOK
  <2>4. CASE signCounts' = signCounts
    BY <2>2, <2>4, Zenon DEF outside, TypeOK
  <2> QED
    BY <2>1, <2>3, <2>4 DEF CallSteps, ReserveVtxoInsert, AuthorizeReplay, AuthorizeSign,
       CheckpointsSign, CheckpointsCommit, promoteResolve, promotePending, promoteSigned, promoteSettle,
       promoteReload, viewUnreconciled, AbortCommit, Fail
<1>3. CASE Environment
  <2>1. ASSUME NEW v \in Vaults, NEW n \in Counts, AdvanceSignCount(v, n)
        PROVE  signCounts' \in [Vaults -> Nat \cup {NoCount}] /\ UNCHANGED outside
    BY <2>1, SpendConstants, Zenon DEF AdvanceSignCount, advanceSignCount, TypeOK
  <2>2. ASSUME NEW rel \in released, OperatorExecutes(rel)
        PROVE  /\ spentBy' \in [Coins -> {Unspent, Elsewhere} \cup (OpIds \X Requests)]
               /\ executedAt' \in [OpIds -> Nat \cup {Never}]
               /\ UNCHANGED <<signCounts, now, feePolicy>>
    <3>1. rel.op \in OpIds /\ rel.request \in Requests
      BY DEF TypeOK, Release
    <3> QED BY <2>2, <3>1 DEF OperatorExecutes, TypeOK
  <2>3. ASSUME NEW x \in Coins, CoinLeaves(x)
        PROVE  /\ spentBy' \in [Coins -> {Unspent, Elsewhere} \cup (OpIds \X Requests)]
               /\ UNCHANGED <<signCounts, now, feePolicy, executedAt>>
    BY <2>3 DEF CoinLeaves, TypeOK
  <2>4. ASSUME NEW f \in FeePolicies, FeePolicyChanges(f)
        PROVE  feePolicy' \in FeePolicies /\ UNCHANGED <<signCounts, now, spentBy, executedAt>>
    BY <2>4 DEF FeePolicyChanges
  <2>5. CASE Tick
    BY <2>5 DEF Tick, TypeOK
  <2> QED BY <1>3, <2>1, <2>2, <2>3, <2>4, <2>5, Zenon DEF Environment, outside, TypeOK
<1> QED BY <1>1, <1>2, <1>3 DEF Next

-----------------------------------------------------------------------------
\* Empty tables and idle handlers satisfy the invariant.
LEMMA IndInvInit == Init => IndInv
<1> SUFFICES ASSUME Init PROVE IndInv
  OBVIOUS
<1>1. TypeOK
  BY DEF Init, TypeOK
<1>2. \A o \in OpIds : ops[o].state = "absent"
  BY DEF Init, NoRow
<1>3. RowsSound /\ LiveInputsDisjoint /\ OneLifecyclePerVault
  BY <1>2, Zenon DEF RowsSound, Exists, LiveInputsDisjoint, OneLifecyclePerVault,
     vtxoStateBlocksNewOperation
<1>4. CallsSound /\ ReleasedIsDurable
  BY DEF Init, CallsSound, ReleasedIsDurable
<1> QED BY <1>1, <1>3, <1>4 DEF IndInv

\* Every step is one of the three ways to change the rows, and each keeps the
\* invariant.
LEMMA IndInvStep == IndInv /\ [Next]_vars => IndInv'
<1> SUFFICES ASSUME IndInv, [Next]_vars PROVE IndInv'
  OBVIOUS
<1>1. /\ TypeOK /\ RowsSound /\ CallsSound
      /\ OneLifecyclePerVault /\ LiveInputsDisjoint /\ ReleasedIsDurable
  BY DEF IndInv
<1>2. /\ ops' \in [OpIds -> Row \cup {NoRow}]
      /\ \A p \in OpIds : Exists(p) => rowKept(ops[p], ops'[p])
      /\ RowsSound' /\ OneLifecyclePerVault' /\ LiveInputsDisjoint'
  BY <1>1, StepShape, RowsPreserved
<1>3. \A rel \in released : durable(ops', rel)
  BY <1>1, <1>2, OldReleases
<1>4. CASE UNCHANGED vars
  <2>1. TypeOK' /\ CallsSound' /\ ReleasedIsDurable'
    BY <1>1, <1>4 DEF vars, TypeOK, CallsSound, ReleasedIsDurable
  <2> QED BY <1>2, <2>1, Zenon DEF IndInv
<1>5. CASE Next
  <2>1. calls' \in [Calls -> Call \cup {Idle}] /\ CallsSound'
    <3>1. CASE \E c \in Calls, o \in OpIds, v \in Vaults : CallBegins(c, o, v)
      BY <1>1, <1>2, <3>1, BeginsSound
    <3>2. CASE \E c \in Calls : CallSteps(c)
      BY <1>1, <1>2, <3>2, StepsSound, Zenon
    <3>3. CASE Environment
      <4>1. calls' = calls /\ ops' = ops
        BY <3>3 DEF Environment, AdvanceSignCount, OperatorExecutes, CoinLeaves,
           FeePolicyChanges, Tick
      <4> QED BY <1>1, <4>1, Zenon DEF TypeOK, CallsSound
    <3> QED BY <1>5, <3>1, <3>2, <3>3 DEF Next
  <2>2. \A rel \in released' : durable(ops', rel)
    <3>1. CASE \E c \in Calls : CallSteps(c)
      <4>1. \A rel \in released' \ released : durable(ops', rel)
        BY <1>1, <3>1, NewReleases
      <4> QED BY <1>3, <4>1
    <3>2. CASE released' = released
      BY <1>3, <3>2
    <3>3. CASE \E c \in Calls, o \in OpIds, v \in Vaults : CallBegins(c, o, v)
      <4>1. PICK c \in Calls, o \in OpIds, v \in Vaults : CallBegins(c, o, v)
        BY <3>3, Zenon
      <4>2. released' = released
        BY <4>1, Zenon DEF CallBegins, ReserveVtxo, replayVtxoReservation,
           loadExpiredVtxo, AuthorizeVtxoSpend, AuthorizeVtxoCheckpoints,
           GetVtxoOperationView, FinalizeVtxo, expireReservedVtxo, AbortVtxo
      <4> QED BY <3>2, <4>2
    <3>4. CASE Environment
      <4>1. released' = released
        BY <3>4 DEF Environment, AdvanceSignCount, OperatorExecutes, CoinLeaves,
           FeePolicyChanges, Tick
      <4> QED BY <3>2, <4>1, Zenon
    <3> QED BY <1>5, <3>1, <3>3, <3>4 DEF Next
  <2>3. released' \subseteq Release /\ ReleasedIsDurable'
    BY <2>2, Zenon DEF durable, ReleasedIsDurable, SignedStates
  <2>4. TypeOK'
    BY <1>1, <1>2, <1>5, <2>1, <2>3, OutsideTyped DEF TypeOK
  <2> QED BY <1>2, <2>1, <2>3, <2>4 DEF IndInv
<1> QED BY <1>4, <1>5

-----------------------------------------------------------------------------
\* The inductive invariant of the Spending service holds in every state.
THEOREM Invariance == Spec => []IndInv
BY IndInvInit, IndInvStep, PTL DEF Spec

\* Every row, counter, handler and signature keeps its shape.
THEOREM TypeCorrect == Spec => []TypeOK
<1>1. IndInv => TypeOK
  BY DEF IndInv
<1> QED BY Invariance, <1>1, PTL

\* rejectConcurrentVtxoOperationLocked fences a vault against any number of
\* racing handlers.
THEOREM OneLifecycle == Spec => []OneLifecyclePerVault
<1>1. IndInv => OneLifecyclePerVault
  BY DEF IndInv
<1> QED BY Invariance, <1>1, PTL

\* AuthorizeVtxoSpend and GetVtxoOperationView let no signature out that the
\* ledger does not hold, and no later step takes the row back.
THEOREM SignedBeforeReleased == Spec => []ReleasedIsDurable
<1>1. IndInv => ReleasedIsDurable
  BY DEF IndInv
<1> QED BY Invariance, <1>1, PTL

\* The VaultCosigner never lets two transactions over one coin out, although
\* vtxoStateLocksInputs releases the inputs of an unresolved operation.
THEOREM NoDoubleSignature == Spec => []NoCoinSignedTwice
<1>1. IndInv => NoCoinSignedTwice
  <2> SUFFICES ASSUME IndInv, NEW a \in released, NEW b \in released,
                      NEW x \in ops[a.op].inputs \cap ops[b.op].inputs
               PROVE  a.op = b.op /\ a.request = b.request
    BY Zenon DEF NoCoinSignedTwice
  <2>1. a.op \in OpIds /\ b.op \in OpIds
    BY DEF IndInv, TypeOK, Release
  <2>2. /\ ops[a.op].state \notin {"absent", "aborted"} /\ ops[a.op].request = a.request
        /\ ops[b.op].state \notin {"absent", "aborted"} /\ ops[b.op].request = b.request
    BY Zenon DEF IndInv, ReleasedIsDurable
  <2>3. a.op = b.op
    BY <2>1, <2>2 DEF IndInv, LiveInputsDisjoint
  <2> QED BY <2>2, <2>3
<1> QED BY Invariance, <1>1, PTL

-----------------------------------------------------------------------------
(* One counter, one operation. CounterSignsOneOperation alone is not          *)
(* inductive: a replay releases a signature under the stored counter, which a *)
(* session of the same passkey may have moved. What excludes a second         *)
(* operation is that the operation being replayed is signed and therefore     *)
(* fences its vault, and that signing it has passed every earlier counter.    *)

\* No signature is out under a counter the ledger has not reached, and those of
\* other operations are strictly behind while an operation is signed.
CountersSound ==
    \A a \in released :
        /\ a.count <= signCounts[ops[a.op].vault]
        /\ \A o \in OpIds \ {a.op} :
              ops[o].state = "signed" /\ ops[o].vault = ops[a.op].vault /\ a.count > 0
              => a.count < signCounts[ops[o].vault]

CounterInv == CountersSound /\ CounterSignsOneOperation

countersGrow ==
    \A v \in Vaults : signCounts'[v] >= signCounts[v]

\* An operation becomes signed with a counter beyond the stored one, or with 0.
signedAdvances ==
    \A o \in OpIds : ops'[o].state = "signed" /\ ops[o].state # "signed" =>
        signCounts'[ops'[o].vault] > signCounts[ops'[o].vault] \/ signCounts'[ops'[o].vault] = 0

\* A new signature is shown by a status read, or carries the stored counter of
\* an operation that is signed.
grantsStored ==
    \A a \in released' \ released :
        \/ a.count = NoCount
        \/ ops'[a.op].state = "signed" /\ a.count = signCounts'[ops'[a.op].vault]

\* A step that signs nothing, grants nothing and leaves the counters alone.
LEMMA NoGrant ==
    ASSUME TypeOK, signCounts' = signCounts, released' = released,
           \/ ops' = ops
           \/ \E o \in OpIds : ops' = AfterExpiry(o)
           \/ \E o \in OpIds : \E row : row.state # "signed" /\ ops' = [ops EXCEPT ![o] = row]
    PROVE  countersGrow /\ signedAdvances /\ grantsStored
<1>1. countersGrow /\ grantsStored
  BY DEF countersGrow, grantsStored, TypeOK, NoCount
<1>2. CASE ops' = ops
  BY <1>1, <1>2, Zenon DEF signedAdvances
<1>3. ASSUME NEW o \in OpIds, ops' = AfterExpiry(o), Expired(o) PROVE signedAdvances
  <2>1. ops[o] \in Row
    BY <1>3, RowExists DEF Exists, Expired
  <2>2. ops'[o].state = "aborted" /\ \A p \in OpIds \ {o} : ops'[p] = ops[p]
    BY <1>3, <2>1 DEF AfterExpiry, TypeOK, Row
  <2> QED BY <2>2 DEF signedAdvances
<1>4. ASSUME NEW o \in OpIds, NEW row, row.state # "signed", ops' = [ops EXCEPT ![o] = row]
      PROVE  signedAdvances
  <2>1. ops'[o] = row /\ \A p \in OpIds \ {o} : ops'[p] = ops[p]
    BY <1>4, Zenon DEF TypeOK
  <2> QED BY <1>4, <2>1 DEF signedAdvances
<1> QED BY <1>1, <1>2, <1>3, <1>4, Zenon DEF AfterExpiry

\* AuthorizeCommit signs with a counter beyond the stored one, or replays.
LEMMA CommitGrants ==
    ASSUME TypeOK, RowsSound, CallsSound, NEW c \in Calls, AuthorizeCommit(c)
    PROVE  countersGrow /\ signedAdvances /\ grantsStored
<1> DEFINE a == calls[c]
           rel == [op |-> a.op, request |-> a.req, count |-> a.count]
<1>1. a \in Call /\ a # Idle /\ a.pc = "sign"
  BY CallExists DEF AuthorizeCommit, At, Idle
<1>2. a.op \in OpIds /\ a.count \in Nat /\ a.rec \in Row /\ copyFresh(ops, a.op, a.rec)
  BY <1>1, Zenon DEF Call, CallsSound, callSound
<1>3. a.rec.vault \in Vaults /\ ops[a.op].vault = a.rec.vault
  BY <1>2, Zenon DEF Row, copyFresh, sameFacts
<1>4. released' \ released \subseteq {rel} /\ rel.op = a.op /\ rel.count = a.count
  BY DEF AuthorizeCommit
<1>5. CASE CommitSignedVtxoOperation(a.op, signedRow(c), a.count)
  <2>1. signedRow(c).vault = a.rec.vault /\ signedRow(c).state = "signed"
    BY <1>2, Zenon DEF signedRow, Row
  <2>2. ops'[a.op] = signedRow(c) /\ \A p \in OpIds \ {a.op} : ops'[p] = ops[p]
    BY <1>2, <1>5, Zenon DEF CommitSignedVtxoOperation, TypeOK
  <2>3. /\ signCounts'[a.rec.vault] = a.count
        /\ \A v \in Vaults \ {a.rec.vault} : signCounts'[v] = signCounts[v]
        /\ a.count > signCounts[a.rec.vault] \/ (a.count = 0 /\ signCounts[a.rec.vault] = 0)
    BY <1>3, <1>5, <2>1, Zenon DEF CommitSignedVtxoOperation, advanceSignCount, CanAdvanceSignCount, TypeOK
  <2>4. countersGrow
    BY <1>2, <1>3, <2>3 DEF countersGrow, TypeOK, NoCount
  <2>5. signedAdvances
    BY <2>1, <2>2, <2>3, ZenonT(60) DEF signedAdvances
  <2>6. grantsStored
    BY <1>4, <2>1, <2>2, <2>3 DEF grantsStored
  <2> QED BY <2>4, <2>5, <2>6
<1>6. CASE /\ ops[a.op].state = "signed" /\ verifySignCountReplay(a.rec.vault, a.count)
           /\ UNCHANGED <<ops, signCounts>>
  <2>1. grantsStored
    BY <1>3, <1>4, <1>6, Zenon DEF grantsStored, verifySignCountReplay
  <2> QED BY <1>6, <2>1 DEF countersGrow, signedAdvances, TypeOK, NoCount
<1> QED BY <1>5, <1>6, Zenon DEF AuthorizeCommit

\* AuthorizeReplay hands the stored signature out under the stored counter.
LEMMA ReplayGrants ==
    ASSUME TypeOK, CallsSound, NEW c \in Calls, AuthorizeReplay(c)
    PROVE  countersGrow /\ signedAdvances /\ grantsStored
<1> DEFINE a == calls[c]
           rel == [op |-> a.op, request |-> a.rec.request, count |-> a.count]
<1>1. a \in Call /\ a # Idle /\ a.pc = "authorize"
  BY CallExists DEF AuthorizeReplay, At, Idle
<1>2. copyFresh(ops, a.op, a.rec)
  BY <1>1, Zenon DEF CallsSound, callSound
<1>3. /\ released' \ released \subseteq {rel} /\ rel.op = a.op /\ rel.count = a.count
      /\ ops[a.op].state = "signed" /\ verifySignCountReplay(a.rec.vault, a.count)
      /\ UNCHANGED <<ops, signCounts>>
  BY Zenon DEF AuthorizeReplay
<1>4. grantsStored
  BY <1>2, <1>3, Zenon DEF grantsStored, verifySignCountReplay, copyFresh, sameFacts
<1> QED BY <1>3, <1>4 DEF countersGrow, signedAdvances, TypeOK, NoCount

\* A reservation signs nothing.
LEMMA InsertGrants ==
    ASSUME TypeOK, RowsSound, CallsSound, NEW c \in Calls, ReserveVtxoInsert(c)
    PROVE  countersGrow /\ signedAdvances /\ grantsStored
<1> DEFINE o == calls[c].op
           rec == calls[c].rec
<1>1. calls[c] \in Call /\ calls[c] # Idle /\ calls[c].pc = "reserve"
  BY CallExists DEF ReserveVtxoInsert, At, Idle
<1>2. o \in OpIds /\ rec \in Row /\ signCounts' = signCounts /\ released' = released
  BY <1>1, Zenon DEF Call, ReserveVtxoInsert
<1>3. CASE ReserveVtxoOperation(o, rec)
  <2>1. rec.state = "reserved" /\ rec.inputs # {} /\ rec.inputs \subseteq CoinsOf[rec.vault]
    BY <1>1, Zenon DEF CallsSound, callSound, readState
  <2>2. Inserts(o, rec)
    BY <1>2, <1>3, <2>1 DEF Inserts
  <2>3. \A p \in OpIds : ops'[p] = ops[p] \/ ops'[p].state \in {"reserved", "aborted"}
    <3>1. /\ ops'[o] = rec
          /\ \A p \in OpIds \ {o} :
                \/ ops'[p] = ops[p]
                \/ ops[p] \in Row /\ ops'[p] = [ops[p] EXCEPT !.state = "aborted"]
      BY <1>2, <2>2, InsertedRows
    <3> QED BY <2>1, <3>1, ZenonT(60) DEF Row
  <2>4. signedAdvances
    BY <2>3 DEF signedAdvances
  <2> QED BY <1>2, <2>4 DEF countersGrow, grantsStored, TypeOK, NoCount
<1>4. CASE ops' = ops \/ ops' = AfterExpiry(o)
  BY <1>2, <1>4, NoGrant
<1> QED BY <1>3, <1>4, Zenon DEF ReserveVtxoInsert

\* The later transitions of a row sign nothing.
LEMMA TransitionGrants ==
    ASSUME TypeOK, NEW c \in Calls,
           CheckpointsCommit(c) \/ promoteSigned(c) \/ promoteSettle(c) \/ AbortCommit(c)
    PROVE  countersGrow /\ signedAdvances /\ grantsStored
<1>0. calls[c] \in Call /\ signCounts' = signCounts /\ released' = released
  BY CallExists, Zenon DEF CheckpointsCommit, promoteSigned, promoteSettle, AbortCommit, At
<1>1. calls[c].op \in OpIds /\ calls[c].rec \in Row
  BY <1>0 DEF Call
<1>2. ASSUME NEW from \in {"signed", "submitted"}, NEW row,
             TransitionVtxoOperation(calls[c].op, from, row)
      PROVE  countersGrow /\ signedAdvances /\ grantsStored
  <2>1. row.state # "signed" /\ ops' = [ops EXCEPT ![calls[c].op] = row]
    BY <1>2 DEF TransitionVtxoOperation, validVtxoTransition
  <2> QED BY <1>0, <1>1, <2>1, NoGrant, Zenon
<1>3. CASE AbortCommit(c)
  <2> DEFINE row == [calls[c].rec EXCEPT !.state = "aborted"]
  <2>1. row.state # "signed"
    BY <1>1 DEF Row
  <2>2. ops' = [ops EXCEPT ![calls[c].op] = row]
    BY <1>3 DEF AbortCommit, TransitionVtxoOperation
  <2> QED BY <1>0, <1>1, <2>1, <2>2, NoGrant, Zenon
<1>4. CASE ops' = ops
  BY <1>0, <1>4, NoGrant
<1> QED BY <1>2, <1>3, <1>4 DEF CheckpointsCommit, promoteSigned, promoteSettle

\* A status read shows a signature without a counter.
LEMMA ShowGrants ==
    ASSUME TypeOK, NEW c \in Calls, promoteReload(c) \/ viewUnreconciled(c)
    PROVE  countersGrow /\ signedAdvances /\ grantsStored
<1>1. \A view, o, rec : \A a \in shownBy(view, o, rec) : a.count = NoCount
  BY DEF shownBy
<1>2. grantsStored
  BY <1>1 DEF grantsStored, promoteReload, viewUnreconciled
<1>3. ops' = ops /\ signCounts' = signCounts
  BY DEF promoteReload, viewUnreconciled
<1> QED BY <1>2, <1>3 DEF countersGrow, signedAdvances, TypeOK, NoCount

\* What every step does to counters and signatures.
LEMMA CounterStep ==
    ASSUME TypeOK, RowsSound, CallsSound, [Next]_vars
    PROVE  countersGrow /\ signedAdvances /\ grantsStored
<1>1. CASE UNCHANGED vars
  BY <1>1, NoGrant DEF vars
<1>2. CASE \E c \in Calls, o \in OpIds, v \in Vaults : CallBegins(c, o, v)
  <2>1. PICK c \in Calls, o \in OpIds, v \in Vaults : CallBegins(c, o, v)
    BY <1>2
  <2>2. /\ signCounts' = signCounts /\ released' = released
        /\ ops' = ops \/ ops' = AfterExpiry(o)
    BY <2>1, Zenon DEF CallBegins, ReserveVtxo, replayVtxoReservation,
       loadExpiredVtxo, AuthorizeVtxoSpend, AuthorizeVtxoCheckpoints,
       GetVtxoOperationView, FinalizeVtxo, expireReservedVtxo, AbortVtxo
  <2> QED BY <2>2, NoGrant, Zenon
<1>3. ASSUME NEW c \in Calls, CallSteps(c) PROVE countersGrow /\ signedAdvances /\ grantsStored
  <2>1. CASE UNCHANGED <<ops, signCounts, released>>
    BY <2>1, NoGrant, Zenon
  <2> QED
    BY <1>3, <2>1, InsertGrants, ReplayGrants, CommitGrants, TransitionGrants, ShowGrants, Zenon
    DEF CallSteps, AuthorizeSign, CheckpointsSign, promoteResolve, promotePending, Fail
<1>4. CASE Environment
  <2>1. ASSUME NEW v \in Vaults, NEW n \in Counts, AdvanceSignCount(v, n)
        PROVE  countersGrow /\ signedAdvances /\ grantsStored
    <3>1. /\ ops' = ops /\ released' = released /\ n \in Nat
          /\ n > signCounts[v] \/ (n = 0 /\ signCounts[v] = 0)
          /\ signCounts' = [signCounts EXCEPT ![v] = n]
      BY <2>1, SpendConstants DEF AdvanceSignCount, advanceSignCount, CanAdvanceSignCount
    <3>2. countersGrow
      BY <3>1 DEF countersGrow, TypeOK, NoCount
    <3> QED BY <3>1, <3>2 DEF signedAdvances, grantsStored
  <2>2. CASE UNCHANGED <<ops, signCounts, released>>
    BY <2>2, NoGrant
  <2> QED
    BY <1>4, <2>1, <2>2, Zenon DEF Environment, OperatorExecutes, CoinLeaves, FeePolicyChanges, Tick
<1> QED BY <1>1, <1>2, <1>3, <1>4 DEF Next

\* Every step keeps the counters of the signatures apart.
LEMMA CounterInvStep == IndInv /\ IndInv' /\ CounterInv /\ [Next]_vars => CounterInv'
<1> SUFFICES ASSUME IndInv, IndInv', CounterInv, [Next]_vars PROVE CounterInv'
  OBVIOUS
<1>1. /\ TypeOK /\ RowsSound /\ CallsSound /\ ReleasedIsDurable
      /\ OneLifecyclePerVault /\ LiveInputsDisjoint
      /\ TypeOK' /\ OneLifecyclePerVault' /\ ReleasedIsDurable'
      /\ CountersSound /\ CounterSignsOneOperation
  BY DEF IndInv, CounterInv
<1>2. \A p \in OpIds : Exists(p) => rowKept(ops[p], ops'[p])
  BY <1>1, StepShape, RowsPreserved
<1>3. countersGrow /\ signedAdvances /\ grantsStored
  BY <1>1, CounterStep, Zenon
<1>4. \A a \in released' :
         a.op \in OpIds /\ ops'[a.op] \in Row /\ ops'[a.op].vault \in Vaults /\ a.count \in Nat \cup {NoCount}
  <2> TAKE a \in released'
  <2>1. a.op \in OpIds /\ a.count \in Nat \cup {NoCount}
    BY <1>1, Zenon DEF TypeOK, Release
  <2>2. ops'[a.op].state # "absent"
    BY <1>1, Zenon DEF ReleasedIsDurable
  <2>3. ops'[a.op] \in Row
    BY <1>1, <2>1, <2>2 DEF TypeOK, NoRow
  <2> QED BY <2>1, <2>3, Zenon DEF Row
<1>5. \A a \in released :
         a.op \in OpIds /\ ops'[a.op].vault = ops[a.op].vault
         /\ ops[a.op].vault \in Vaults /\ a.count \in Nat \cup {NoCount}
  <2> TAKE a \in released
  <2>1. a.op \in OpIds /\ a.count \in Nat \cup {NoCount}
    BY <1>1, Zenon DEF TypeOK, Release
  <2>2. Exists(a.op)
    BY <1>1, Zenon DEF ReleasedIsDurable, Exists
  <2>3. ops[a.op] \in Row /\ rowKept(ops[a.op], ops'[a.op])
    BY <1>1, <1>2, <2>1, <2>2, RowExists, Zenon
  <2> QED BY <2>1, <2>3 DEF Row, rowKept, sameFacts
<1>6. /\ \A v \in Vaults : signCounts[v] \in Int /\ signCounts'[v] \in Int /\ signCounts'[v] >= NoCount
      /\ NoCount = -1
  BY <1>1 DEF TypeOK, NoCount
<1>7. ASSUME NEW a \in released' PROVE a.count <= signCounts'[ops'[a.op].vault]
  <2>1. CASE a \in released
    <3>1. a.count <= signCounts[ops[a.op].vault]
      BY <1>1, <2>1, Zenon DEF CountersSound
    <3>2. signCounts[ops[a.op].vault] <= signCounts'[ops[a.op].vault]
      BY <1>3, <1>5, <2>1, Zenon DEF countersGrow
    <3> QED BY <1>5, <1>6, <2>1, <3>1, <3>2
  <2>2. CASE a \notin released
    BY <1>3, <1>4, <1>6, <2>2 DEF grantsStored
  <2> QED BY <2>1, <2>2, Zenon
<1>8. ASSUME NEW a \in released', NEW o \in OpIds \ {a.op}, a.count > 0,
             ops'[o].state = "signed", ops'[o].vault = ops'[a.op].vault
      PROVE  a.count < signCounts'[ops'[o].vault]
  <2> DEFINE v == ops'[a.op].vault
  <2>1. CASE a \notin released
    <3>1. ops'[a.op].state = "signed"
      BY <1>3, <1>8, <2>1 DEF grantsStored, NoCount
    <3> QED BY <1>1, <1>4, <1>8, <3>1, Zenon DEF OneLifecyclePerVault, vtxoStateBlocksNewOperation
  <2>2. CASE a \in released
    <3>1. v = ops[a.op].vault /\ v \in Vaults /\ a.count \in Int
      BY <1>5, <1>6, <2>2
    <3>2. a.count <= signCounts[v] /\ signCounts[v] <= signCounts'[v]
      BY <1>1, <1>3, <2>2, <3>1, Zenon DEF CountersSound, countersGrow
    <3>3. CASE ops[o].state = "signed"
      <4>1. ops[o].vault = v
        BY <1>2, <1>8, <3>3, Zenon DEF Exists, rowKept, sameFacts
      <4>2. a.count < signCounts[v]
        BY <1>1, <1>8, <2>2, <3>1, <3>3, <4>1, Zenon DEF CountersSound
      <4> QED BY <1>6, <1>8, <3>1, <3>2, <4>2
    <3>4. CASE ops[o].state # "signed"
      <4>1. signCounts'[v] > signCounts[v] \/ signCounts'[v] = 0
        BY <1>3, <1>8, <3>4, Zenon DEF signedAdvances
      <4> QED BY <1>6, <1>8, <3>1, <3>2, <4>1
    <3> QED BY <3>3, <3>4, Zenon
  <2> QED BY <2>1, <2>2, Zenon
<1>9. CountersSound'
  BY <1>7, <1>8, Zenon DEF CountersSound
<1>10. CounterSignsOneOperation'
  <2> SUFFICES ASSUME NEW a \in released', NEW b \in released', a.count > 0, a.count = b.count,
                      ops'[a.op].vault = ops'[b.op].vault, a.op # b.op
               PROVE  FALSE
    BY Zenon DEF CounterSignsOneOperation
  <2>1. ASSUME NEW x \in released' \ released, NEW y \in released', x.count > 0, x.count = y.count,
               ops'[x.op].vault = ops'[y.op].vault, x.op # y.op
        PROVE  FALSE
    <3>1. ops'[x.op].state = "signed" /\ x.count = signCounts'[ops'[x.op].vault]
      BY <1>3, <2>1 DEF grantsStored, NoCount
    <3>2. y.count < signCounts'[ops'[x.op].vault]
      BY <1>4, <1>8, <2>1, <3>1, Zenon
    <3> QED BY <1>4, <1>6, <2>1, <3>1, <3>2
  <2>2. CASE a \in released /\ b \in released
    BY <1>1, <1>5, <2>2 DEF CounterSignsOneOperation
  <2> QED BY <2>1, <2>2, Zenon
<1> QED BY <1>9, <1>10 DEF CounterInv

\* signcount.go: a positive counter of a vault's passkey obtains the signature of
\* one operation, however sessions, retries and replays share the counter.
THEOREM CounterSafety == Spec => []CounterSignsOneOperation
<1>1. Init => CounterInv
  BY DEF Init, CounterInv, CountersSound, CounterSignsOneOperation
<1>2. CounterInv => CounterSignsOneOperation
  BY Zenon DEF CounterInv
<1> QED BY Invariance, CounterInvStep, <1>1, <1>2, PTL DEF Spec
-----------------------------------------------------------------------------
(* VtxoSpend implements SpendContract. Initial states map to initial states;  *)
(* every step of a handler maps to Reserve, Sign, Show, Abort, Submit or      *)
(* Settle of one operation, or to a stutter.                                  *)

\* The contract's variables, as functions of the service's state.
Life == [o \in OpIds |-> lifeOf(ops[o])]
Signatures == {<<rel.op, rel.request>> : rel \in released}

\* A step of the contract, or none.
ContractStep == Contract!Next \/ UNCHANGED Contract!vars

\* A handler that is about to insert a reservation has not signed it.
ReservesUnsigned ==
    \A c \in Calls : calls[c].pc = "reserve" => calls[c].rec.request = None

-----------------------------------------------------------------------------
\* What the contract sees of a row.
LEMMA LifeOfRow ==
    ASSUME NEW row \in Row
    PROVE  /\ lifeOf(row) = [state |-> row.state, vault |-> row.vault, inputs |-> row.inputs,
                             outflow |-> addOutflow(row), request |-> row.request]
           /\ row.state # "absent"
BY Zenon DEF lifeOf, Row, States

\* The mapped operation has the row's state, and vault, inputs and request.
LEMMA LifeState ==
    ASSUME TypeOK, NEW o \in OpIds
    PROVE  /\ Life[o].state = ops[o].state
           /\ ops[o] \in Row => /\ Life[o].vault = ops[o].vault
                                /\ Life[o].inputs = ops[o].inputs
                                /\ Life[o].request = ops[o].request
<1>1. CASE ops[o] \in Row
  BY <1>1, LifeOfRow DEF Life
<1>2. CASE ops[o] = NoRow
  BY <1>2, Zenon DEF Life, lifeOf, NoRow, Row, States
<1> QED BY <1>1, <1>2, Zenon DEF TypeOK

\* A row that changes its state and nothing the contract sees besides.
LEMMA MoveStep ==
    ASSUME TypeOK, NEW o \in OpIds, ops[o] \in Row, NEW row \in Row, sameFacts(ops[o], row),
           row.request = ops[o].request, ops' = [ops EXCEPT ![o] = row], released' = released
    PROVE  Contract!Move(o, ops[o].state, row.state)
<1>1. Life[o].state = ops[o].state
  BY LifeState
<1>2. lifeOf(row) = [lifeOf(ops[o]) EXCEPT !.state = row.state]
  <2>1. lifeOf(row) = [state |-> row.state, vault |-> ops[o].vault, inputs |-> ops[o].inputs,
                       outflow |-> addOutflow(ops[o]), request |-> ops[o].request]
    BY LifeOfRow, Zenon DEF sameFacts, addOutflow
  <2>2. lifeOf(ops[o]) = [state |-> ops[o].state, vault |-> ops[o].vault, inputs |-> ops[o].inputs,
                          outflow |-> addOutflow(ops[o]), request |-> ops[o].request]
    BY LifeOfRow, Zenon
  <2> QED BY <2>1, <2>2
<1>3. \A p \in OpIds : ops'[p] = IF p = o THEN row ELSE ops[p]
  BY DEF TypeOK
<1>4. Life' = [Life EXCEPT ![o].state = row.state]
  <2>1. Life' = [p \in OpIds |-> lifeOf(ops'[p])] /\ Life = [p \in OpIds |-> lifeOf(ops[p])]
    BY DEF Life
  <2>2. \A p \in OpIds :
           lifeOf(ops'[p]) = IF p = o THEN [lifeOf(ops[o]) EXCEPT !.state = row.state] ELSE lifeOf(ops[p])
    BY <1>2, <1>3
  <2> QED BY <2>1, <2>2
<1>5. Signatures' = Signatures
  BY Zenon DEF Signatures
<1> QED BY <1>1, <1>4, <1>5, Zenon DEF Contract!Move, Life, Signatures

\* One more signature is out, whatever counter obtained it.
LEMMA SignatureAdded ==
    ASSUME NEW o, NEW r, NEW n, released' = released \cup {[op |-> o, request |-> r, count |-> n]}
    PROVE  Signatures' = Signatures \cup {<<o, r>>}
<1> DEFINE new == [op |-> o, request |-> r, count |-> n]
<1>1. new.op = o /\ new.request = r /\ released' = released \cup {new}
  OBVIOUS
<1> HIDE DEF new
<1>2. Signatures' = {<<rel.op, rel.request>> : rel \in released \cup {new}}
  BY <1>1, Zenon DEF Signatures
<1>3. Signatures' = Signatures \cup {<<new.op, new.request>>}
  BY <1>2, ZenonT(60) DEF Signatures
<1> QED BY <1>1, <1>3, Zenon

\* A reserved row is signed and its signature leaves.
LEMMA SignStep ==
    ASSUME TypeOK, NEW o \in OpIds, ops[o] \in Row, ops[o].state = "reserved",
           NEW row \in Row, sameFacts(ops[o], row), row.state = "signed",
           row.request \in Requests, ops' = [ops EXCEPT ![o] = row], NEW n,
           released' = released \cup {[op |-> o, request |-> row.request, count |-> n]}
    PROVE  ContractStep
<1>1. Life[o].state = "reserved"
  BY LifeState
<1> DEFINE old == lifeOf(ops[o])
           half == [old EXCEPT !.state = "signed"]
           new == [half EXCEPT !.request = row.request]
<1>2. lifeOf(row) = new
  <2>1. lifeOf(row) = [state |-> "signed", vault |-> ops[o].vault, inputs |-> ops[o].inputs,
                       outflow |-> addOutflow(ops[o]), request |-> row.request]
    BY LifeOfRow, Zenon DEF sameFacts, addOutflow
  <2>2. old = [state |-> ops[o].state, vault |-> ops[o].vault, inputs |-> ops[o].inputs,
               outflow |-> addOutflow(ops[o]), request |-> ops[o].request]
    BY LifeOfRow, Zenon
  <2>3. half = [state |-> "signed", vault |-> ops[o].vault, inputs |-> ops[o].inputs,
                outflow |-> addOutflow(ops[o]), request |-> ops[o].request]
    BY <2>2
  <2> HIDE DEF half
  <2> QED BY <2>1, <2>3
<1>3. Life' = [Life EXCEPT ![o] = new]
  <2>1. Life' = [p \in OpIds |-> lifeOf(ops'[p])] /\ Life = [p \in OpIds |-> lifeOf(ops[p])]
    BY DEF Life
  <2>2. \A p \in OpIds : lifeOf(ops'[p]) = IF p = o THEN new ELSE lifeOf(ops[p])
    BY <1>2, Zenon DEF TypeOK
  <2> HIDE DEF new
  <2> QED BY <2>1, <2>2, Zenon
<1>4. Life[o] = old
  BY DEF Life
<1>5. Life' = [Life EXCEPT ![o].state = "signed", ![o].request = row.request]
  BY <1>3, <1>4, Zenon
<1>6. Signatures' = Signatures \cup {<<o, row.request>>}
  BY SignatureAdded, Zenon
<1>7. ASSUME NEW r \in Requests, r = row.request PROVE Contract!Sign(o, r)
  BY <1>1, <1>5, <1>6, <1>7, Zenon DEF Contract!Sign, Life, Signatures
<1> QED BY <1>7 DEF ContractStep, Contract!Next

\* The recorded signature is handed out again.
LEMMA ShowStep ==
    ASSUME TypeOK, NEW o \in OpIds, ops[o].state \in SignedStates, ops' = ops, NEW n,
           released' = released \cup {[op |-> o, request |-> ops[o].request, count |-> n]}
    PROVE  ContractStep
<1>1. ops[o] \in Row
  BY RowExists, Zenon DEF Exists, SignedStates
<1>2. Life[o].state = ops[o].state /\ Life[o].request = ops[o].request
  BY <1>1, LifeState, Zenon
<1>3. Life' = Life
  BY Zenon DEF Life
<1>4. Signatures' = Signatures \cup {<<o, ops[o].request>>}
  BY SignatureAdded, Zenon
<1>5. Contract!Show(o)
  BY <1>2, <1>3, <1>4, Zenon DEF Contract!Show, Contract!Signed, Life, Signatures, SignedStates
<1> QED BY <1>5 DEF ContractStep, Contract!Next

\* Nothing the contract sees has changed.
LEMMA StutterStep ==
    ASSUME ops' = ops, released' = released
    PROVE  ContractStep
BY ZenonT(60) DEF ContractStep, Contract!vars

\* A reservation takes free coins and a free vault; the reservations of the
\* vault that timed out are aborted with it.
LEMMA ReserveStep ==
    ASSUME TypeOK, RowsSound, NEW o \in OpIds, NEW rec \in Row, rec.request = None,
           Inserts(o, rec), released' = released
    PROVE  Contract!Next
<1> DEFINE v == rec.vault
           timedOut == {p \in OpIds \ {o} : ops'[p] # ops[p]}
           outflow == addOutflow(rec)
<1>1. /\ ops[o].state = "absent"
      /\ ops'[o] = rec
      /\ \A p \in OpIds \ {o} :
            \/ ops'[p] = ops[p]
            \/ /\ ops[p] \in Row
               /\ ops[p].state = "reserved" /\ ops[p].vault = v
               /\ ops'[p] = [ops[p] EXCEPT !.state = "aborted"]
      /\ \A p \in OpIds \ {o} :
            /\ vtxoStateLocksInputs(ops'[p].state) => ops'[p].inputs \cap rec.inputs = {}
            /\ vtxoStateBlocksNewOperation(ops'[p].state) => ops'[p].vault # v
  BY InsertedRows, Zenon
<1>2. /\ rec.state = "reserved" /\ rec.inputs # {} /\ rec.inputs \subseteq CoinsOf[v] /\ v \in Vaults
      /\ rec.amount \in Amounts /\ rec.fee \in Fees
  BY Zenon DEF Inserts, Row
<1>3. outflow \in {a + f : a \in Amounts, f \in Fees}
  BY <1>2 DEF addOutflow
<1>4. \A p \in timedOut :
         /\ ops[p] \in Row /\ ops[p].state = "reserved" /\ ops[p].vault = v
         /\ ops'[p] = [ops[p] EXCEPT !.state = "aborted"]
  BY <1>1, ZenonT(60)
<1>5. ASSUME NEW p \in OpIds \ timedOut, ops[p].state \notin {"absent", "aborted"}
      PROVE  /\ ops[p] \in Row
             /\ ops[p].vault = v => ops[p].state = "finalized"
             /\ ops[p].inputs \cap rec.inputs = {}
  <2>1. p # o /\ ops'[p] = ops[p]
    BY <1>1, <1>5, Zenon
  <2>2. ops[p] \in Row /\ Exists(p)
    BY <1>5, RowExists, Zenon DEF Exists
  <2>3. ops[p].state \in States /\ ops[p].vault \in Vaults
    BY <2>2 DEF Row
  <2>4. ops[p].vault = v => ops[p].state = "finalized"
    BY <1>1, <1>5, <2>1, <2>3, Zenon DEF States, vtxoStateBlocksNewOperation
  <2>5. ops[p].inputs \cap rec.inputs = {}
    <3>1. CASE ops[p].state = "unresolved"
      <4>1. ops[p].vault # v
        BY <2>4, <3>1, Zenon
      <4>2. ops[p].inputs \subseteq CoinsOf[ops[p].vault]
        BY <2>2, Zenon DEF RowsSound
      <4>3. CoinsOf[ops[p].vault] \cap CoinsOf[v] = {}
        BY <1>2, <2>3, <4>1, LedgerConstants
      <4> QED BY <1>2, <4>2, <4>3, Zenon
    <3>2. CASE ops[p].state # "unresolved"
      BY <1>1, <1>5, <2>1, <2>3, <3>2, Zenon DEF States, vtxoStateLocksInputs
    <3> QED BY <3>1, <3>2, Zenon
  <2> QED BY <2>2, <2>4, <2>5
<1> HIDE DEF timedOut, outflow, v
<1>6. \A p \in OpIds : Life[p].state = ops[p].state
  BY LifeState, Zenon
<1>7. ASSUME NEW p \in OpIds \ timedOut, Life[p].state \notin {"absent", "aborted"}
      PROVE  /\ Life[p].vault = v => Life[p].state = "finalized"
             /\ Life[p].inputs \cap rec.inputs = {}
  <2>1. ops[p].state \notin {"absent", "aborted"}
    BY <1>6, <1>7, Zenon
  <2>2. ops[p] \in Row
    BY <1>5, <2>1, Zenon
  <2>3. Life[p].vault = ops[p].vault /\ Life[p].inputs = ops[p].inputs
    BY <2>2, LifeState
  <2> QED BY <1>5, <1>6, <2>1, <2>3, Zenon
<1>8. timedOut \in SUBSET {p \in OpIds : Life[p].state = "reserved" /\ Life[p].vault = v}
  <2>1. \A p \in timedOut : p \in OpIds /\ Life[p].vault = ops[p].vault
    BY <1>4, LifeState, Zenon DEF timedOut
  <2> QED BY <1>4, <1>6, <2>1, Zenon
<1>9. Life' = [p \in OpIds |->
                 IF p = o
                 THEN [state |-> "reserved", vault |-> v, inputs |-> rec.inputs,
                       outflow |-> outflow, request |-> None]
                 ELSE IF p \in timedOut THEN [Life[p] EXCEPT !.state = "aborted"] ELSE Life[p]]
  <2>1. lifeOf(rec) = [state |-> "reserved", vault |-> v, inputs |-> rec.inputs,
                       outflow |-> outflow, request |-> None]
    BY <1>2, LifeOfRow DEF v, outflow
  <2>2. ASSUME NEW p \in timedOut
        PROVE  lifeOf(ops'[p]) = [lifeOf(ops[p]) EXCEPT !.state = "aborted"]
    <3> DEFINE row == [ops[p] EXCEPT !.state = "aborted"]
    <3>1. row \in Row /\ row.state = "aborted" /\ row.vault = ops[p].vault /\ row.inputs = ops[p].inputs
          /\ row.request = ops[p].request /\ addOutflow(row) = addOutflow(ops[p])
      BY <1>4 DEF Row, States, addOutflow
    <3>2. lifeOf(row) = [state |-> "aborted", vault |-> ops[p].vault, inputs |-> ops[p].inputs,
                         outflow |-> addOutflow(ops[p]), request |-> ops[p].request]
      BY <3>1, LifeOfRow, Zenon
    <3>3. lifeOf(ops[p]) = [state |-> ops[p].state, vault |-> ops[p].vault, inputs |-> ops[p].inputs,
                            outflow |-> addOutflow(ops[p]), request |-> ops[p].request]
      BY <1>4, LifeOfRow, Zenon
    <3>4. ops'[p] = row
      BY <1>4, Zenon
    <3> HIDE DEF row
    <3> QED BY <3>2, <3>3, <3>4
  <2>3. \A p \in OpIds \ {o} : p \notin timedOut => lifeOf(ops'[p]) = lifeOf(ops[p])
    BY Zenon DEF timedOut
  <2>4. o \notin timedOut /\ Life' = [p \in OpIds |-> lifeOf(ops'[p])]
        /\ Life = [p \in OpIds |-> lifeOf(ops[p])]
    BY DEF timedOut, Life
  <2> QED BY <1>1, <2>1, <2>2, <2>3, <2>4, Zenon
<1>10. Contract!Reserve(o, v, rec.inputs, outflow, timedOut)
  <2>1. UNCHANGED Signatures
    BY Zenon DEF Signatures
  <2> QED BY <1>2, <1>7, <1>9, <2>1 DEF Contract!Reserve, Contract!Live, Life, Signatures
<1>11. timedOut \in SUBSET Contract!Reservations(v)
  BY <1>8 DEF Contract!Reservations, Life
<1>12. [p \in OpIds |-> lifeOf(ops[p])][o].state = "absent"
  BY <1>1, <1>6, Zenon DEF Life
<1>13. v \in Vaults /\ rec.inputs \in SUBSET CoinsOf[v]
  BY <1>2 DEF v
<1> QED BY <1>3, <1>10, <1>11, <1>12, <1>13 DEF Contract!Next

-----------------------------------------------------------------------------
\* Only ReserveVtxo starts a reserve call, with a row it built itself.
LEMMA ReservesStep == TypeOK /\ ReservesUnsigned /\ [Next]_vars => ReservesUnsigned'
<1> SUFFICES ASSUME TypeOK, ReservesUnsigned, [Next]_vars PROVE ReservesUnsigned'
  OBVIOUS
<1>1. CASE calls' = calls
  BY <1>1, Zenon DEF ReservesUnsigned
<1>2. ASSUME NEW c \in Calls, \A d \in Calls \ {c} : calls'[d] = calls[d],
             calls'[c].pc = "reserve" => calls'[c].rec.request = None
      PROVE  ReservesUnsigned'
  BY <1>2, Zenon DEF ReservesUnsigned
<1>3. ASSUME NEW c \in Calls, NEW o, NEW v, CallBegins(c, o, v) PROVE ReservesUnsigned'
  <2>1. ASSUME NEW pc, NEW rec, NEW req, NEW n, NEW view, Begin(c, pc, o, rec, req, n, view),
               pc = "reserve" => rec.request = None
        PROVE  ReservesUnsigned'
    <3>1. calls'[c].pc = pc /\ calls'[c].rec = rec /\ \A d \in Calls \ {c} : calls'[d] = calls[d]
      BY <2>1, Zenon DEF Begin, TypeOK
    <3> QED BY <1>2, <2>1, <3>1, Zenon
  <2>2. \A amount, fee, inputs : newReservation(v, amount, fee, inputs).request = None
    BY Zenon DEF newReservation
  <2>3. ASSUME NEW amount, NEW fee, NEW inputs, ReserveVtxo(c, o, v, amount, fee, inputs)
        PROVE  ReservesUnsigned'
    BY <2>1, <2>2, <2>3, Zenon DEF ReserveVtxo
  <2>4. ASSUME NEW r, NEW n, AuthorizeVtxoSpend(c, o, v, r, n) PROVE ReservesUnsigned'
    BY <2>1, <2>4, Zenon DEF AuthorizeVtxoSpend
  <2>5. ASSUME NEW k, AuthorizeVtxoCheckpoints(c, o, v, k) PROVE ReservesUnsigned'
    BY <2>1, <2>5, Zenon DEF AuthorizeVtxoCheckpoints
  <2>6. CASE GetVtxoOperationView(c, o, v) \/ FinalizeVtxo(c, o, v) \/ AbortVtxo(c, o, v)
    BY <2>1, <2>6, Zenon DEF GetVtxoOperationView, FinalizeVtxo, AbortVtxo
  <2>7. ASSUME NEW amount, replayVtxoReservation(c, o, v, amount) PROVE ReservesUnsigned'
    BY <1>1, <2>7, Zenon DEF replayVtxoReservation
  <2>8. CASE loadExpiredVtxo(c, o, v) \/ expireReservedVtxo(c, o, v)
    BY <1>1, <2>8, Zenon DEF loadExpiredVtxo, expireReservedVtxo
  <2> QED BY <1>3, <2>3, <2>4, <2>5, <2>6, <2>7, <2>8, Zenon DEF CallBegins
<1>4. ASSUME NEW c \in Calls, CallSteps(c) PROVE ReservesUnsigned'
  <2>1. CASE Return(c)
    <3>1. calls'[c] = Idle /\ \A d \in Calls \ {c} : calls'[d] = calls[d]
      BY <2>1, Zenon DEF Return, TypeOK
    <3> QED BY <1>2, <3>1 DEF Idle
  <2>2. ASSUME calls[c] \in Call,
               \/ \E pc \in Pcs \ {"reserve"} : Goto(c, pc)
               \/ \E seen, pc : /\ pc \in Pcs \ {"reserve"}
                                /\ calls' = [calls EXCEPT ![c].seen = seen, ![c].pc = pc]
               \/ \E rec : calls' = [calls EXCEPT ![c].rec = rec, ![c].pc = "settle"]
        PROVE  ReservesUnsigned'
    <3>1. calls'[c].pc # "reserve" /\ \A d \in Calls \ {c} : calls'[d] = calls[d]
      BY <2>2, ZenonT(60) DEF Goto, TypeOK, Call
    <3> QED BY <1>2, <3>1
  <2>3. calls[c].pc # "idle" => calls[c] \in Call
    BY CallExists
  <2>4. CASE AuthorizeSign(c) \/ CheckpointsSign(c) \/ promoteSettle(c)
    <3>1. calls[c].pc # "idle" /\ \E pc \in Pcs \ {"reserve"} : Goto(c, pc)
      BY <2>4 DEF AuthorizeSign, CheckpointsSign, promoteSettle, At, Pcs
    <3> QED BY <2>2, <2>3, <3>1
  <2>5. CASE promoteResolve(c) \/ promotePending(c)
    <3>1. calls[c].pc # "idle"
          /\ \E seen, pc : /\ pc \in Pcs \ {"reserve"}
                           /\ calls' = [calls EXCEPT ![c].seen = seen, ![c].pc = pc]
      BY <2>5 DEF promoteResolve, promotePending, At, Pcs
    <3> QED BY <2>2, <2>3, <3>1, Zenon
  <2>6. CASE promoteSigned(c)
    <3>1. /\ calls[c].pc # "idle"
          /\ \/ Goto(c, "reload")
             \/ \E rec : calls' = [calls EXCEPT ![c].rec = rec, ![c].pc = "settle"]
      BY <2>6, Zenon DEF promoteSigned, At
    <3>2. "reload" \in Pcs \ {"reserve"}
      BY DEF Pcs
    <3> QED BY <2>2, <2>3, <3>1, <3>2, Zenon
  <2> QED
    BY <1>4, <2>1, <2>4, <2>5, <2>6, Zenon DEF CallSteps, ReserveVtxoInsert, AuthorizeReplay, AuthorizeCommit,
       CheckpointsCommit, promoteReload, viewUnreconciled, AbortCommit, Fail
<1>5. CASE Environment
  BY <1>1, <1>5 DEF Environment, AdvanceSignCount, OperatorExecutes, CoinLeaves, FeePolicyChanges, Tick
<1>6. CASE UNCHANGED vars
  BY <1>1, <1>6 DEF vars
<1> QED BY <1>3, <1>4, <1>5, <1>6 DEF Next

-----------------------------------------------------------------------------
(* Every step of a handler, as a step of the contract. *)

\* Abort, Submit and Settle of the contract are the moves along
\* validVtxoTransition that do not sign.
LEMMA MoveIsStep ==
    ASSUME TypeOK, NEW o \in OpIds, ops[o] \in Row, NEW row \in Row, sameFacts(ops[o], row),
           row.request = ops[o].request, ops' = [ops EXCEPT ![o] = row], released' = released,
           validVtxoTransition(ops[o].state, row.state), row.state # "signed"
    PROVE  ContractStep
<1>1. Contract!Move(o, ops[o].state, row.state)
  BY MoveStep, Zenon
<1>2. Contract!Abort(o) \/ Contract!Submit(o) \/ Contract!Settle(o)
  BY <1>1 DEF validVtxoTransition, Contract!Abort, Contract!Submit, Contract!Settle
<1>3. \/ Contract!Show(o)
      \/ Contract!Abort(o) \/ Contract!Submit(o) \/ Contract!Settle(o)
  BY <1>2, Zenon
<1>4. Contract!Next
  BY <1>3, SMT DEF Contract!Next
<1> QED BY <1>4, Zenon DEF ContractStep

\* An expired reservation is aborted.
LEMMA ExpiryIsStep ==
    ASSUME TypeOK, NEW o \in OpIds, ops' = AfterExpiry(o), released' = released
    PROVE  ContractStep
<1>1. CASE Expired(o)
  <2> DEFINE row == [ops[o] EXCEPT !.state = "aborted"]
  <2>1. ops[o] \in Row /\ ops[o].state = "reserved"
    BY <1>1, RowExists DEF Exists, Expired
  <2>2. row \in Row /\ row.state = "aborted" /\ sameFacts(ops[o], row) /\ row.request = ops[o].request
    BY <2>1 DEF Row, States, sameFacts
  <2>3. ops' = [ops EXCEPT ![o] = row]
    BY <1>1 DEF AfterExpiry
  <2> HIDE DEF row
  <2> QED BY <2>1, <2>2, <2>3, MoveIsStep, Zenon DEF validVtxoTransition
<1>2. CASE ~ Expired(o)
  BY <1>2, StutterStep DEF AfterExpiry
<1> QED BY <1>1, <1>2, Zenon

\* A handler's swap moves the row, because its copy is the row.
LEMMA SwapIsStep ==
    ASSUME TypeOK, CallsSound, NEW c \in Calls, calls[c].pc \in Pcs \ {"reserve"},
           NEW row \in Row, ops[calls[c].op].state = calls[c].rec.state,
           validVtxoTransition(calls[c].rec.state, row.state), row.state # "signed",
           sameFacts(calls[c].rec, row), row.request = calls[c].rec.request,
           ops' = [ops EXCEPT ![calls[c].op] = row], released' = released
    PROVE  ContractStep
<1>1. calls[c] \in Call /\ calls[c] # Idle
  BY CallExists DEF Pcs, Idle
<1>2. calls[c].op \in OpIds /\ calls[c].rec \in Row
  BY <1>1, Zenon DEF Call
<1>3. ops[calls[c].op] = calls[c].rec
  BY <1>1, Zenon DEF CallsSound, callSound, copyFresh
<1> QED BY <1>2, <1>3, MoveIsStep, Zenon

\* The insert reserves; a refused insert may abort the stale reservation.
LEMMA InsertIsStep ==
    ASSUME IndInv, ReservesUnsigned, NEW c \in Calls, ReserveVtxoInsert(c)
    PROVE  ContractStep
<1> DEFINE o == calls[c].op
           rec == calls[c].rec
<1>0. TypeOK /\ RowsSound /\ CallsSound
  BY Zenon DEF IndInv
<1>1. calls[c] \in Call /\ calls[c] # Idle /\ calls[c].pc = "reserve"
  <2>1. calls[c].pc = "reserve"
    BY ZenonT(60) DEF ReserveVtxoInsert, At
  <2> QED BY <1>0, <2>1, CallExists DEF Idle
<1>2. o \in OpIds /\ rec \in Row /\ rec.request = None /\ released' = released
  BY <1>1 DEF Call, ReservesUnsigned, ReserveVtxoInsert
<1>3. rec.state = "reserved" /\ rec.inputs # {} /\ rec.inputs \subseteq CoinsOf[rec.vault]
  BY <1>0, <1>1 DEF CallsSound, callSound, readState
<1>4. CASE ReserveVtxoOperation(o, rec)
  <2>1. Inserts(o, rec)
    BY <1>2, <1>3, <1>4, Zenon DEF Inserts
  <2> HIDE DEF o, rec
  <2>2. Contract!Next
    BY <1>0, <1>2, <2>1, ReserveStep, Zenon
  <2> QED BY <2>2, Zenon DEF ContractStep
<1>5. CASE ops' = AfterExpiry(o)
  BY <1>0, <1>2, <1>5, ExpiryIsStep
<1>6. CASE ops' = ops
  BY <1>2, <1>6, StutterStep, Zenon
<1> QED BY <1>4, <1>5, <1>6 DEF ReserveVtxoInsert

\* Signing, or handing an equal signature out again.
LEMMA AuthorizeIsStep ==
    ASSUME IndInv, NEW c \in Calls, AuthorizeCommit(c) \/ AuthorizeReplay(c)
    PROVE  ContractStep
<1> DEFINE a == calls[c]
<1>0. TypeOK /\ RowsSound /\ CallsSound
  BY ZenonT(60) DEF IndInv
<1>1. a \in Call /\ a # Idle /\ a.pc \in {"authorize", "sign"}
  BY <1>0, CallExists DEF AuthorizeCommit, AuthorizeReplay, At, Idle
<1>2. a.op \in OpIds /\ a.rec \in Row /\ a.req \in Requests /\ copyFresh(ops, a.op, a.rec)
  BY <1>0, <1>1, Zenon DEF Call, CallsSound, callSound
<1>3. CASE AuthorizeCommit(c) /\ CommitSignedVtxoOperation(a.op, signedRow(c), a.count)
  <2>1. a.pc = "sign" /\ a.rec.state = "reserved"
    BY <1>0, <1>1, <1>3, Zenon DEF AuthorizeCommit, At, CallsSound, callSound, readState
  <2>2. ops[a.op].state = "reserved" /\ ops' = [ops EXCEPT ![a.op] = signedRow(c)]
    BY <1>3, ZenonT(60) DEF CommitSignedVtxoOperation, CanSwap
  <2>3. ops[a.op] = a.rec
    BY <1>2, <2>1, <2>2 DEF copyFresh
  <2>4. /\ signedRow(c) \in Row /\ signedRow(c).state = "signed"
        /\ signedRow(c).request = a.req /\ sameFacts(a.rec, signedRow(c))
    BY <1>2, Zenon DEF Row, States, signedRow, sameFacts
  <2>5. released' = released \cup {[op |-> a.op, request |-> signedRow(c).request, count |-> a.count]}
    BY <1>3, <2>4, Zenon DEF AuthorizeCommit
  <2> QED BY <1>0, <1>2, <2>2, <2>3, <2>4, <2>5, SignStep, Zenon
<1>4. CASE /\ ops[a.op].state = "signed" /\ ops' = ops
           /\ released' = released \cup
                {[op |-> a.op, request |-> ops[a.op].request, count |-> a.count]}
  BY <1>0, <1>2, <1>4, ShowStep, Zenon DEF SignedStates
<1>5. CASE AuthorizeReplay(c)
  BY <1>2, <1>4, <1>5, Zenon DEF AuthorizeReplay, copyFresh
<1> QED BY <1>3, <1>4, <1>5, Zenon DEF AuthorizeCommit

\* Checkpoints, settlement and abort.
LEMMA TransitionIsStep ==
    ASSUME IndInv, NEW c \in Calls,
           CheckpointsCommit(c) \/ promoteSigned(c) \/ promoteSettle(c) \/ AbortCommit(c)
    PROVE  ContractStep
<1> DEFINE a == calls[c]
<1>0. TypeOK /\ CallsSound
  BY Zenon DEF IndInv
<1>1. a \in Call /\ a # Idle /\ a.pc \in {"checkpointSign", "promote", "settle", "abort"}
      /\ released' = released
  BY <1>0, CallExists DEF CheckpointsCommit, promoteSigned, promoteSettle, AbortCommit, At, Idle
<1>2. a.op \in OpIds /\ a.rec \in Row /\ a.pc \in Pcs \ {"reserve"}
  BY <1>1, Zenon DEF Call, Pcs
<1>3. callSound(ops, a)
  BY <1>0, <1>1, Zenon DEF CallsSound
<1>4. CASE UNCHANGED ops
  BY <1>1, <1>4, StutterStep, Zenon
<1>5. CASE CheckpointsCommit(c)
  <2>1. a.rec.state = "signed" /\ a.req \in Checkpoints
    BY <1>3, <1>5 DEF CheckpointsCommit, At, callSound, readState
  <2>2. /\ submittedRow(c) \in Row /\ submittedRow(c).state = "submitted"
        /\ submittedRow(c).request = a.rec.request /\ sameFacts(a.rec, submittedRow(c))
    BY <1>2, <2>1, Zenon DEF Row, States, submittedRow, sameFacts
  <2>3. ops[a.op].state = "signed" /\ ops' = [ops EXCEPT ![a.op] = submittedRow(c)]
    BY <1>5 DEF CheckpointsCommit, TransitionVtxoOperation, CanSwap
  <2> QED BY <1>0, <1>1, <1>2, <2>1, <2>2, <2>3, SwapIsStep, Zenon DEF validVtxoTransition
<1>6. CASE promoteSigned(c)
  <2> DEFINE row == [a.rec EXCEPT !.state = "submitted"]
  <2>1. a.rec.state = "signed"
    BY <1>3, <1>6 DEF promoteSigned, At, callSound, readState
  <2>2. /\ row \in Row /\ row.state = "submitted"
        /\ row.request = a.rec.request /\ sameFacts(a.rec, row)
    BY <1>2, Zenon DEF Row, States, sameFacts
  <2>3. CASE TransitionVtxoOperation(a.op, "signed", row)
    <3>1. ops[a.op].state = "signed" /\ ops' = [ops EXCEPT ![a.op] = row]
      BY <2>3, Zenon DEF TransitionVtxoOperation, CanSwap
    <3> HIDE DEF row
    <3> QED BY <1>0, <1>1, <1>2, <2>1, <2>2, <3>1, SwapIsStep, Zenon DEF validVtxoTransition
  <2> QED BY <1>4, <1>6, <2>3, Zenon DEF promoteSigned
<1>7. CASE promoteSettle(c)
  <2>1. a.rec.state = "submitted"
    BY <1>3, <1>7 DEF promoteSettle, At, callSound, readState
  <2>2. /\ settledRow(c) \in Row /\ settledRow(c).state \in {"finalized", "unresolved"}
        /\ settledRow(c).request = a.rec.request /\ sameFacts(a.rec, settledRow(c))
    BY <1>0, <1>2, Zenon DEF Row, States, sameFacts, settledRow, TypeOK
  <2>3. CASE TransitionVtxoOperation(a.op, "submitted", settledRow(c))
    <3>1. ops[a.op].state = "submitted" /\ ops' = [ops EXCEPT ![a.op] = settledRow(c)]
      BY <2>3 DEF TransitionVtxoOperation, CanSwap
    <3> QED BY <1>0, <1>1, <1>2, <2>1, <2>2, <3>1, SwapIsStep, Zenon DEF validVtxoTransition
  <2> QED BY <1>4, <1>7, <2>3 DEF promoteSettle
<1>8. CASE AbortCommit(c)
  <2> DEFINE row == [a.rec EXCEPT !.state = "aborted"]
  <2>1. a.rec.state = "reserved"
    BY <1>3, <1>8 DEF AbortCommit, At, callSound, readState
  <2>2. /\ row \in Row /\ row.state = "aborted"
        /\ row.request = a.rec.request /\ sameFacts(a.rec, row)
    BY <1>2 DEF Row, States, sameFacts
  <2>3. ops[a.op].state = "reserved" /\ ops' = [ops EXCEPT ![a.op] = row]
    BY <1>8 DEF AbortCommit, TransitionVtxoOperation, CanSwap
  <2> HIDE DEF row
  <2> QED BY <1>0, <1>1, <1>2, <2>1, <2>2, <2>3, SwapIsStep, Zenon DEF validVtxoTransition
<1> QED BY <1>5, <1>6, <1>7, <1>8

\* A status read shows the recorded signature, also from its earlier copy.
LEMMA ShownIsStep ==
    ASSUME IndInv, NEW c \in Calls, promoteReload(c) \/ viewUnreconciled(c)
    PROVE  ContractStep
<1> DEFINE a == calls[c]
<1>0. TypeOK /\ CallsSound
  BY Zenon DEF IndInv
<1>1. a \in Call /\ a # Idle /\ a.pc # "reserve" /\ a.op \in OpIds /\ ops' = ops
  BY <1>0, CallExists, Zenon DEF promoteReload, viewUnreconciled, At, Idle, Call
<1>2. copyFresh(ops, a.op, a.rec)
  BY <1>0, <1>1, Zenon DEF CallsSound, callSound
<1>3. CASE released' = released
  BY <1>1, <1>3, StutterStep, Zenon
<1>4. CASE /\ ops[a.op].state \in SignedStates
           /\ released' = released \cup
                {[op |-> a.op, request |-> ops[a.op].request, count |-> NoCount]}
  BY <1>0, <1>1, <1>4, ShowStep, Zenon
<1> QED
  BY <1>2, <1>3, <1>4, Zenon DEF promoteReload, viewUnreconciled, shownBy, copyFresh, SignedStates

\* Every step is a step of the contract or a stutter.
LEMMA RefinesStep ==
    ASSUME IndInv, ReservesUnsigned, [Next]_vars PROVE ContractStep
<1>0. TypeOK
  BY DEF IndInv
<1>1. CASE UNCHANGED vars
  BY <1>1, StutterStep DEF vars
<1>2. ASSUME NEW c \in Calls, NEW o \in OpIds, NEW v \in Vaults, CallBegins(c, o, v) PROVE ContractStep
  <2>1. released' = released /\ (ops' = ops \/ ops' = AfterExpiry(o))
    BY <1>2, Zenon DEF CallBegins, ReserveVtxo, replayVtxoReservation,
       loadExpiredVtxo, AuthorizeVtxoSpend, AuthorizeVtxoCheckpoints,
       GetVtxoOperationView, FinalizeVtxo, expireReservedVtxo, AbortVtxo
  <2> QED BY <1>0, <2>1, StutterStep, ExpiryIsStep, Zenon
<1>3. ASSUME NEW c \in Calls, CallSteps(c) PROVE ContractStep
  <2>1. CASE UNCHANGED <<ops, released>>
    BY <2>1, StutterStep
  <2> QED
    BY <1>3, <2>1, InsertIsStep, AuthorizeIsStep, TransitionIsStep, ShownIsStep, Zenon
    DEF CallSteps, AuthorizeSign, CheckpointsSign, promoteResolve, promotePending, Fail
<1>4. CASE Environment
  <2>1. UNCHANGED <<ops, released>>
    BY <1>4, Zenon DEF Environment, AdvanceSignCount, OperatorExecutes, CoinLeaves, FeePolicyChanges, Tick
  <2> QED BY <2>1, StutterStep, Zenon
<1> QED BY <1>1, <1>2, <1>3, <1>4 DEF Next

\* The initial state maps to the contract's.
LEMMA RefinesInit == Init => Contract!Init
<1> SUFFICES ASSUME Init PROVE Contract!Init
  OBVIOUS
<1>1. \A o \in OpIds : lifeOf(ops[o]) = NoRow
  BY Zenon DEF Init, lifeOf, NoRow
<1>2. Life = [o \in OpIds |-> Contract!Unused] /\ Signatures = {}
  BY <1>1 DEF Init, Life, Signatures, Contract!Unused, NoRow
<1> QED BY <1>2, Zenon DEF Contract!Init, Life, Signatures

\* The Spending service, with any number of handlers on stale copies, retries,
\* expiries, restarts and an Operator that executes at any time, takes only the
\* steps of SpendContract.
THEOREM Refinement == Spec => ImplementsContract
<1>1. Init => ReservesUnsigned
  BY DEF Init, ReservesUnsigned, Idle
<1>2. IndInv => TypeOK
  BY DEF IndInv
<1>3. IndInv /\ ReservesUnsigned /\ [Next]_vars => [Contract!Next]_(Contract!vars)
  BY RefinesStep DEF ContractStep
<1> QED
  BY Invariance, RefinesInit, ReservesStep, <1>1, <1>2, <1>3, PTL DEF Spec, ImplementsContract, Contract!Spec

-----------------------------------------------------------------------------
(* The allowance. *)

\* totalOutflow as a sum over a function.
LEMMA OutflowIsTotal ==
    ASSUME NEW rows, NEW S, IsFiniteSet(S)
    PROVE  totalOutflow(rows, S) = Total([o \in S |-> addOutflow(rows[o])], S)
<1> DEFINE f == [o \in S |-> addOutflow(rows[o])]
           Same(g) == g = [s \in SUBSET S |->
                             IF s = {} THEN 0
                             ELSE addOutflow(rows[CHOOSE x \in s : TRUE])
                                  + g[s \ {CHOOSE x \in s : TRUE}]]
           R == CHOOSE g : Same(g)
<1>1. totalOutflow(rows, S) = R[S]
  BY DEF totalOutflow, MapThenSumSet, MapThenFoldSet
<1>2. ASSUME NEW g PROVE IsSum(f, S, g) <=> Same(g)
  <2>1. \A s \in SUBSET S : s # {} => f[pick(s)] = addOutflow(rows[CHOOSE x \in s : TRUE])
    BY Rest DEF pick
  <2>2. [s \in SUBSET S |-> IF s = {} THEN 0 ELSE f[pick(s)] + g[rest(s)]]
        = [s \in SUBSET S |->
             IF s = {} THEN 0
             ELSE addOutflow(rows[CHOOSE x \in s : TRUE]) + g[s \ {CHOOSE x \in s : TRUE}]]
    BY <2>1 DEF pick, rest
  <2> QED BY <2>2, Zenon DEF IsSum
<1> HIDE DEF f, Same
<1>3. \E g : IsSum(f, S, g)
  BY SumExists
<1>4. Same(R)
  BY <1>2, <1>3
<1>5. IsSum(f, S, R) /\ IsSum(f, S, SumFcn(f, S))
  BY <1>2, <1>3, <1>4, Zenon DEF SumFcn
<1>6. R = SumFcn(f, S)
  BY <1>5, SumUnique
<1> QED BY <1>1, <1>6, TotalIsSum, Zenon DEF f

\* The outflow of a row is a natural number.
LEMMA RowOutflow ==
    ASSUME NEW row \in Row
    PROVE  addOutflow(row) \in Nat
<1>1. row.amount \in Amounts /\ row.fee \in Fees
  BY DEF Row
<1>2. row.amount \in Nat /\ row.fee \in Nat
  BY <1>1, LedgerConstants, Zenon
<1> QED BY <1>2 DEF addOutflow

\* A smaller set of rows with the same facts has no larger outflow.
LEMMA OutflowMono ==
    ASSUME NEW a, NEW b, NEW S \in SUBSET OpIds, NEW T \in SUBSET S,
           \A o \in S : b[o] \in Row,
           \A o \in T : sameFacts(a[o], b[o])
    PROVE  /\ totalOutflow(a, T) \in Nat /\ totalOutflow(b, S) \in Nat
           /\ totalOutflow(a, T) <= totalOutflow(b, S)
<1> DEFINE f == [o \in T |-> addOutflow(a[o])]
           g == [o \in S |-> addOutflow(b[o])]
<1>1. IsFiniteSet(S) /\ IsFiniteSet(T)
  BY LedgerConstants, FS_Subset
<1>2. \A o \in S : g[o] \in Nat
  BY RowOutflow
<1>3. \A o \in T : f[o] = g[o] /\ f[o] \in Nat
  BY <1>2 DEF sameFacts, addOutflow
<1>4. totalOutflow(a, T) = Total(f, T) /\ totalOutflow(b, S) = Total(g, S)
  BY <1>1, OutflowIsTotal, Zenon
<1> HIDE DEF f, g
<1> QED BY <1>1, <1>2, <1>3, <1>4, TotalMono, TotalNat, Zenon

\* The outflow of a set of rows is that of one row and that of the others.
LEMMA OutflowInsert ==
    ASSUME NEW a, NEW S \in SUBSET OpIds, NEW o \in S, \A p \in S : a[p] \in Row
    PROVE  totalOutflow(a, S) = addOutflow(a[o]) + totalOutflow(a, S \ {o})
<1> DEFINE f == [p \in S |-> addOutflow(a[p])]
           U == S \ {o}
           g == [p \in U |-> addOutflow(a[p])]
<1>1. IsFiniteSet(S) /\ IsFiniteSet(U)
  BY LedgerConstants, FS_Subset
<1>2. \A p \in S : f[p] \in Nat
  BY RowOutflow
<1>3. totalOutflow(a, S) = Total(f, S) /\ totalOutflow(a, U) = Total(g, U)
  BY <1>1, OutflowIsTotal, Zenon
<1>4. \A p \in U : f[p] = g[p] /\ f[p] \in Nat /\ g[p] \in Nat
  BY <1>2
<1>5. f[o] = addOutflow(a[o]) /\ U \in SUBSET U
  OBVIOUS
<1> HIDE DEF f, g
<1>6. Total(f, S) = f[o] + Total(f, U)
  BY <1>1, <1>2, TotalRemove
<1> HIDE DEF U
<1>7. Total(f, U) <= Total(g, U) /\ Total(g, U) <= Total(f, U)
  BY <1>1, <1>4, <1>5, TotalMono, Zenon
<1>8. Total(f, U) \in Nat /\ Total(g, U) \in Nat
  BY <1>1, <1>4, TotalNat, Zenon
<1>9. Total(f, U) = Total(g, U)
  BY <1>7, <1>8
<1> QED BY <1>3, <1>5, <1>6, <1>9, Zenon DEF U

-----------------------------------------------------------------------------
\* recentlyExecuted of a vault, as a fact about one table and one clock.
executedSince(rows, at, t, v) ==
    {o \in OpIds : /\ rows[o].state # "absent" /\ rows[o].vault = v
                   /\ at[o] # Never /\ t <= at[o] + AllowanceWindow}

\* A reservation leaves room for the operation it inserts: whatever was executed
\* in the window is finalized, because anything else fences the vault, and a
\* finalized row is charged from its settlement, which is later.
LEMMA InsertBudget ==
    ASSUME IndInv, ExecutedSound, SettledSound,
           NEW o \in OpIds, NEW rec \in Row, Inserts(o, rec)
    PROVE  totalOutflow(ops', {o} \cup executedSince(ops', executedAt, now, rec.vault))
               <= Allowance[rec.vault]
<1> DEFINE v == rec.vault
           rows == abortExpiredVtxo(v)
           C == Charged(rows, v, now)
           R == executedSince(ops', executedAt, now, v)
<1>0. TypeOK /\ v \in Vaults
  BY DEF IndInv, Row
<1>1. /\ ops[o].state = "absent"
      /\ ops'[o] = rec
      /\ \A p \in OpIds \ {o} :
            \/ ops'[p] = ops[p]
            \/ ops[p] \in Row /\ ops[p].state = "reserved"
               /\ ops'[p] = [ops[p] EXCEPT !.state = "aborted"]
      /\ \A p \in OpIds \ {o} :
            vtxoStateBlocksNewOperation(ops'[p].state) => ops'[p].vault # rec.vault
  BY <1>0, InsertedRows
<1>2. o \notin R
  BY <1>1, Zenon DEF ExecutedSound, SignedStates, executedSince
<1>3. ASSUME NEW p \in R
      PROVE  /\ p \in OpIds \ {o} /\ ops'[p] = ops[p] /\ ops[p] \in Row
             /\ rows[p] = ops[p] /\ p \in C
  <2>1. p \in OpIds \ {o} /\ executedAt[p] # Never /\ now <= executedAt[p] + AllowanceWindow
        /\ ops'[p].vault = v
    BY <1>2, Zenon DEF executedSince
  <2>2. ops[p].state \in SignedStates
    BY <2>1 DEF ExecutedSound
  <2>3. ops'[p] = ops[p] /\ ops[p] \in Row /\ rows[p] = ops[p]
    BY <1>0, <1>1, <2>1, <2>2, RowExists, Zenon DEF SignedStates, Exists, abortExpiredVtxo
  <2>4. ops[p].state = "finalized"
    BY <1>1, <2>1, <2>2, <2>3, Zenon DEF SignedStates, vtxoStateBlocksNewOperation
  <2>5. executedAt[p] <= ops[p].created
    BY <2>1, <2>4, Zenon DEF SettledSound
  <2>6. executedAt[p] \in Int /\ ops[p].created \in Int /\ now \in Int /\ AllowanceWindow \in Int
    BY <1>0, <2>1, <2>3, LedgerConstants DEF TypeOK, Row, Never
  <2>7. now <= ops[p].created + AllowanceWindow
    BY <2>1, <2>5, <2>6
  <2> QED BY <2>1, <2>3, <2>4, <2>7, Zenon DEF Charged, vtxoStateCountsTowardAllowance
<1>4. /\ totalOutflow(rows, C) <= Allowance[v]
      /\ addOutflow(rec) <= Allowance[v] - totalOutflow(rows, C)
  BY DEF Inserts, ReserveVtxoOperation, CanReserve, ReservationAccepted, spentInWindow
<1>5. \A p \in C : p \in OpIds /\ rows[p] \in Row
  <2> TAKE p \in C
  <2>1. p \in OpIds /\ rows[p].state # "absent"
    BY DEF Charged
  <2>2. rows[p] = ops[p] \/ (ops[p].state = "reserved" /\ rows[p] = [ops[p] EXCEPT !.state = "aborted"])
    BY <2>1 DEF abortExpiredVtxo
  <2>3. ops[p] \in Row
    BY <1>0, <2>1, <2>2, RowExists, Zenon DEF Exists
  <2> QED BY <2>1, <2>2, <2>3, Zenon DEF Row, States
<1>6. R \in SUBSET C /\ C \in SUBSET OpIds /\ \A p \in R : sameFacts(ops'[p], rows[p])
  BY <1>3, <1>5, Zenon DEF sameFacts
<1> DEFINE S == {o} \cup R
<1>7. S \in SUBSET OpIds /\ o \in S /\ S \ {o} = R /\ \A p \in S : ops'[p] \in Row
  BY <1>1, <1>2, <1>3, Zenon
<1> HIDE DEF R, C, rows, S
<1>8. /\ totalOutflow(ops', R) \in Nat /\ totalOutflow(rows, C) \in Nat
      /\ totalOutflow(ops', R) <= totalOutflow(rows, C)
  BY <1>5, <1>6, OutflowMono, Zenon
<1>9. totalOutflow(ops', S) = addOutflow(rec) + totalOutflow(ops', R)
  BY <1>1, <1>7, OutflowInsert
<1>10. addOutflow(rec) \in Nat /\ Allowance[v] \in Nat
  BY <1>0, RowOutflow, LedgerConstants, Zenon
<1>11. totalOutflow(ops', S) <= Allowance[v]
  BY <1>4, <1>8, <1>9, <1>10
<1> QED BY <1>11 DEF S, R

\* Sums of one vault's executed operations do not grow when rows keep their facts.
LEMMA BudgetFrame ==
    ASSUME TypeOK, ExecutedSound, BudgetHeld,
           \A p \in OpIds : Exists(p) => rowKept(ops[p], ops'[p]),
           NEW t \in Nat, now <= t,
           NEW q \in OpIds, ops[q].state \in {"reserved", "signed", "submitted"}
    PROVE  totalOutflow(ops', {q} \cup executedSince(ops', executedAt, t, ops'[q].vault))
               <= Allowance[ops'[q].vault]
<1> DEFINE v == ops[q].vault
           S == {q} \cup recentlyExecuted(v)
           T == {q} \cup executedSince(ops', executedAt, t, v)
<1>1. Exists(q) /\ ops'[q].vault = v /\ v \in Vaults
  BY RowExists, Zenon DEF Exists, rowKept, sameFacts, Row
<1>2. S \in SUBSET OpIds /\ \A p \in S : Exists(p)
  BY <1>1, Zenon DEF recentlyExecuted
<1>3. T \in SUBSET S
  <2> SUFFICES ASSUME NEW p \in executedSince(ops', executedAt, t, v) PROVE p \in recentlyExecuted(v)
    OBVIOUS
  <2>1. p \in OpIds /\ ops'[p].vault = v /\ executedAt[p] # Never /\ t <= executedAt[p] + AllowanceWindow
    BY DEF executedSince
  <2>2. Exists(p)
    BY <2>1, Zenon DEF ExecutedSound, SignedStates, Exists
  <2>3. ops[p].vault = v
    BY <2>1, <2>2, Zenon DEF rowKept, sameFacts
  <2>4. executedAt[p] \in Nat /\ now \in Nat /\ AllowanceWindow \in Nat
    BY <2>1, LedgerConstants, Zenon DEF TypeOK
  <2>5. now <= executedAt[p] + AllowanceWindow
    BY <2>1, <2>4
  <2> QED BY <2>1, <2>2, <2>3, <2>5, Zenon DEF recentlyExecuted
<1>4. \A p \in S : ops[p] \in Row /\ sameFacts(ops'[p], ops[p])
  BY <1>2, RowExists, Zenon DEF rowKept, sameFacts
<1>5. totalOutflow(ops, S) <= Allowance[v]
  BY Zenon DEF BudgetHeld
<1> HIDE DEF S, T
<1>6. /\ totalOutflow(ops', T) \in Nat /\ totalOutflow(ops, S) \in Nat
      /\ totalOutflow(ops', T) <= totalOutflow(ops, S)
  BY <1>2, <1>3, <1>4, OutflowMono, Zenon
<1>7. Allowance[v] \in Nat
  BY <1>1, LedgerConstants, Zenon
<1>8. totalOutflow(ops', T) <= Allowance[v]
  BY <1>5, <1>6, <1>7
<1> QED BY <1>1, <1>8, Zenon DEF T

\* executedIn of the window that ends at t, as a fact about one table.
executedUpTo(rows, at, v, t) ==
    {o \in OpIds : /\ rows[o].state # "absent" /\ rows[o].vault = v
                   /\ at[o] \in (IF t > AllowanceWindow THEN t - AllowanceWindow ELSE 0)..t}

\* While nothing is executed and the clock moves by at most one tick, every
\* window holds operations of an earlier window only.
LEMMA WindowFrame ==
    ASSUME TypeOK, ExecutedSound, AllowanceKept,
           \A p \in OpIds : Exists(p) => rowKept(ops[p], ops'[p]),
           NEW v \in Vaults, NEW t \in 0..(now + 1)
    PROVE  totalOutflow(ops', executedUpTo(ops', executedAt, v, t)) <= Allowance[v]
<1> DEFINE u == IF t <= now THEN t ELSE now
           S == executedUpTo(ops, executedAt, v, u)
           T == executedUpTo(ops', executedAt, v, t)
<1>1. now \in Nat /\ AllowanceWindow \in Nat /\ u \in 0..now /\ t \in Nat
  BY LedgerConstants DEF TypeOK
<1>2. S = executedIn(v, IF u > AllowanceWindow THEN u - AllowanceWindow ELSE 0, u)
  BY Zenon DEF executedUpTo, executedIn, Exists
<1>3. totalOutflow(ops, S) <= Allowance[v]
  BY <1>1, <1>2, Zenon DEF AllowanceKept
<1>4. ASSUME NEW p \in T PROVE p \in S
  <2>1. p \in OpIds /\ ops'[p].vault = v
        /\ executedAt[p] \in (IF t > AllowanceWindow THEN t - AllowanceWindow ELSE 0)..t
    BY DEF executedUpTo
  <2>2. executedAt[p] \in Nat
    BY <1>1, <2>1 DEF TypeOK, Never
  <2>3. executedAt[p] <= now /\ Exists(p)
    BY <2>1, <2>2 DEF ExecutedSound, SignedStates, Exists, Never
  <2>4. ops[p].vault = v
    BY <2>1, <2>3, Zenon DEF rowKept, sameFacts
  <2>5. executedAt[p] \in (IF u > AllowanceWindow THEN u - AllowanceWindow ELSE 0)..u
    BY <1>1, <2>1, <2>2, <2>3
  <2> QED BY <2>1, <2>3, <2>4, <2>5, Zenon DEF executedUpTo, Exists
<1>5. S \in SUBSET OpIds /\ T \in SUBSET S
  BY <1>4, Zenon DEF executedUpTo
<1>6. \A p \in S : ops[p] \in Row /\ sameFacts(ops'[p], ops[p])
  BY RowExists, Zenon DEF executedUpTo, Exists, rowKept, sameFacts
<1> HIDE DEF S, T, u
<1>7. /\ totalOutflow(ops', T) \in Nat /\ totalOutflow(ops, S) \in Nat
      /\ totalOutflow(ops', T) <= totalOutflow(ops, S)
  BY <1>5, <1>6, OutflowMono, Zenon
<1>8. Allowance[v] \in Nat
  BY LedgerConstants
<1>9. totalOutflow(ops', T) <= Allowance[v]
  BY <1>3, <1>7, <1>8
<1> QED BY <1>9, Zenon DEF T

\* What the Operator may execute has not settled, and has not been executed.
LEMMA ExecutesLive ==
    ASSUME IndInv, ExecutedSound, SettledSound, NEW rel \in released, OperatorExecutes(rel)
    PROVE  /\ rel.op \in OpIds /\ ops[rel.op] \in Row
           /\ ops[rel.op].inputs # {} /\ ops[rel.op].inputs \subseteq Coins
           /\ ops[rel.op].state \in {"signed", "submitted"}
           /\ executedAt[rel.op] = Never
<1> DEFINE o == rel.op
<1>1. o \in OpIds /\ ops[o].state \in SignedStates
  BY DEF IndInv, TypeOK, Release, ReleasedIsDurable, SignedStates
<1>2. ops[o] \in Row /\ Exists(o)
  BY <1>1, RowExists, Zenon DEF IndInv, SignedStates, Exists
<1>3. ops[o].inputs # {} /\ ops[o].inputs \subseteq Coins
  BY <1>1, <1>2, Zenon DEF IndInv, RowsSound, Row
<1>4. ~ anySpent(ops[o].inputs)
  BY DEF OperatorExecutes, anySpent
<1>5. ops[o].state \in {"signed", "submitted"}
  BY <1>1, <1>4, Zenon DEF SettledSound, SignedStates
<1>6. executedAt[o] = Never
  BY <1>1, <1>4, Zenon DEF ExecutedSound
<1> QED BY <1>1, <1>2, <1>3, <1>5, <1>6, Zenon

\* The Operator executes an operation within the budget that BudgetHeld keeps
\* for it, and the fence leaves no other operation of the vault to budget for.
LEMMA ExecuteKeeps ==
    ASSUME IndInv, AllowanceInv, NEW rel \in released, OperatorExecutes(rel)
    PROVE  AllowanceInv'
<1> DEFINE o == rel.op
           v0 == ops[o].vault
<1>0. /\ TypeOK /\ OneLifecyclePerVault
      /\ ExecutedSound /\ SettledSound /\ ResolvedSound /\ BudgetHeld /\ AllowanceKept
  BY DEF IndInv, AllowanceInv
<1>1. /\ o \in OpIds /\ ops[o] \in Row /\ ops[o].inputs # {} /\ ops[o].inputs \subseteq Coins
      /\ ops[o].state \in {"signed", "submitted"} /\ executedAt[o] = Never
  BY <1>0, ExecutesLive, Zenon
<1>2. /\ ops' = ops /\ calls' = calls /\ now' = now
      /\ executedAt'[o] = now
      /\ \A p \in OpIds \ {o} : executedAt'[p] = executedAt[p]
      /\ \A x \in ops[o].inputs : spentBy'[x] = <<o, rel.request>>
      /\ \A x \in Coins : spentBy[x] # Unspent => spentBy'[x] # Unspent
  BY <1>0, <1>1, ZenonT(60) DEF OperatorExecutes, TypeOK, Unspent
<1>3. v0 \in Vaults /\ now \in Nat /\ AllowanceWindow \in Nat /\ now # Never
  BY <1>0, <1>1, LedgerConstants DEF Row, TypeOK, Never
<1>4. \A p \in OpIds : Exists(p) => ops[p] \in Row /\ ops[p].inputs \subseteq Coins
  BY <1>0, RowExists, Zenon DEF Row
<1>5. ExecutedSound'
  <2> SUFFICES ASSUME NEW p \in OpIds, executedAt'[p] # Never
               PROVE  /\ executedAt'[p] <= now /\ ops[p].state \in SignedStates
                      /\ \E x \in ops[p].inputs : spentBy'[x] # Unspent
    BY <1>2, Zenon DEF ExecutedSound, anySpent
  <2>1. CASE p = o
    BY <1>1, <1>2, <1>3, <2>1 DEF SignedStates, Unspent
  <2>2. CASE p # o
    <3>1. executedAt[p] <= now /\ ops[p].state \in SignedStates /\ anySpent(ops[p].inputs)
      BY <1>0, <1>2, <2>2, Zenon DEF ExecutedSound
    <3>2. ops[p].inputs \subseteq Coins
      BY <1>4, <3>1, Zenon DEF Exists, SignedStates
    <3> QED BY <1>2, <2>2, <3>1, <3>2, Zenon DEF anySpent
  <2> QED BY <2>1, <2>2, Zenon
<1>6. SettledSound'
  <2> SUFFICES ASSUME NEW p \in OpIds, ops[p].state \in {"finalized", "unresolved"}
               PROVE  /\ \E x \in ops[p].inputs : spentBy'[x] # Unspent
                      /\ executedAt'[p] <= ops[p].created
    BY <1>2, Zenon DEF SettledSound, anySpent
  <2>1. p # o
    BY <1>1, Zenon
  <2>2. anySpent(ops[p].inputs) /\ executedAt[p] <= ops[p].created
    BY <1>0 DEF SettledSound
  <2>3. ops[p].inputs \subseteq Coins
    BY <1>4, Zenon DEF Exists
  <2> QED BY <1>2, <2>1, <2>2, <2>3, Zenon DEF anySpent
<1>7. ResolvedSound'
  <2> SUFFICES ASSUME NEW c \in Calls, calls[c].pc \in {"promote", "settle"}
               PROVE  \E x \in calls[c].rec.inputs : spentBy'[x] # Unspent
    BY <1>2, Zenon DEF ResolvedSound, anySpent
  <2>1. anySpent(calls[c].rec.inputs)
    BY <1>0, Zenon DEF ResolvedSound
  <2>2. calls[c] \in Call
    BY <1>0, CallExists, Zenon
  <2>3. calls[c].rec \in Row
    BY <2>2, Zenon DEF Call
  <2>4. calls[c].rec.inputs \subseteq Coins
    BY <2>3, Zenon DEF Row
  <2> QED BY <1>2, <2>1, <2>4, Zenon DEF anySpent
<1>8. BudgetHeld'
  <2> SUFFICES ASSUME NEW q \in OpIds, ops[q].state \in {"reserved", "signed", "submitted"}
               PROVE  totalOutflow(ops, {q} \cup executedSince(ops, executedAt', now, ops[q].vault))
                          <= Allowance[ops[q].vault]
    BY <1>2, Zenon DEF BudgetHeld, recentlyExecuted, executedSince, Exists
  <2>1. q # o => ops[q].vault # v0
    BY <1>0, <1>1, Zenon DEF OneLifecyclePerVault, vtxoStateBlocksNewOperation
  <2> DEFINE S == {q} \cup recentlyExecuted(ops[q].vault)
             T == {q} \cup executedSince(ops, executedAt', now, ops[q].vault)
  <2>2. T \in SUBSET S
    BY <1>1, <1>2, <2>1, Zenon DEF executedSince, recentlyExecuted, Exists
  <2>3. S \in SUBSET OpIds /\ \A p \in S : ops[p] \in Row /\ sameFacts(ops[p], ops[p])
    BY <1>4, Zenon DEF recentlyExecuted, Exists, sameFacts
  <2>4. totalOutflow(ops, S) <= Allowance[ops[q].vault]
    BY <1>0, Zenon DEF BudgetHeld
  <2>5. Allowance[ops[q].vault] \in Nat
    BY <2>3, LedgerConstants, Zenon DEF Row
  <2> HIDE DEF S, T
  <2>6. /\ totalOutflow(ops, T) \in Nat /\ totalOutflow(ops, S) \in Nat
        /\ totalOutflow(ops, T) <= totalOutflow(ops, S)
    BY <2>2, <2>3, OutflowMono, Zenon
  <2>7. totalOutflow(ops, T) <= Allowance[ops[q].vault]
    BY <2>4, <2>5, <2>6
  <2> QED BY <2>7, Zenon DEF T
<1>9. AllowanceKept'
  <2> SUFFICES ASSUME NEW v \in Vaults, NEW t \in 0..now
               PROVE  totalOutflow(ops, executedUpTo(ops, executedAt', v, t)) <= Allowance[v]
    BY <1>2, Zenon DEF AllowanceKept, executedIn, executedUpTo, Exists
  <2> DEFINE T == executedUpTo(ops, executedAt', v, t)
             S == IF v = v0 /\ t = now THEN {o} \cup recentlyExecuted(v0)
                  ELSE executedUpTo(ops, executedAt, v, t)
  <2>1. totalOutflow(ops, S) <= Allowance[v]
    <3>1. CASE v = v0 /\ t = now
      BY <1>0, <1>1, <3>1, Zenon DEF BudgetHeld
    <3>2. CASE ~ (v = v0 /\ t = now)
      BY <1>0, <3>2, Zenon DEF AllowanceKept, executedIn, executedUpTo, Exists
    <3> QED BY <3>1, <3>2, Zenon
  <2>2. T \in SUBSET S
    <3> SUFFICES ASSUME NEW p \in T PROVE p \in S
      OBVIOUS
    <3>1. p \in OpIds /\ ops[p].state # "absent" /\ ops[p].vault = v
          /\ executedAt'[p] \in (IF t > AllowanceWindow THEN t - AllowanceWindow ELSE 0)..t
      BY Zenon DEF executedUpTo
    <3>2. CASE p = o
      <4>1. v = v0 /\ t = now
        BY <1>2, <1>3, <3>1, <3>2
      <4> QED BY <3>2, <4>1, Zenon
    <3>3. CASE p # o
      <4>1. executedAt[p] \in (IF t > AllowanceWindow THEN t - AllowanceWindow ELSE 0)..t
        BY <1>2, <3>1, <3>3, Zenon
      <4>2. CASE v = v0 /\ t = now
        <5>1. executedAt[p] # Never /\ now <= executedAt[p] + AllowanceWindow
          BY <1>3, <4>1, <4>2 DEF Never
        <5> QED BY <3>1, <4>2, <5>1, Zenon DEF recentlyExecuted, Exists
      <4>3. CASE ~ (v = v0 /\ t = now)
        BY <3>1, <4>1, <4>3, Zenon DEF executedUpTo
      <4> QED BY <4>2, <4>3, Zenon
    <3> QED BY <3>2, <3>3, Zenon
  <2>3. S \in SUBSET OpIds /\ \A p \in S : ops[p] \in Row /\ sameFacts(ops[p], ops[p])
    BY <1>1, <1>4, Zenon DEF recentlyExecuted, executedUpTo, Exists, sameFacts
  <2>4. Allowance[v] \in Nat
    BY LedgerConstants, Zenon
  <2> HIDE DEF S, T
  <2>5. /\ totalOutflow(ops, T) \in Nat /\ totalOutflow(ops, S) \in Nat
        /\ totalOutflow(ops, T) <= totalOutflow(ops, S)
    BY <2>2, <2>3, OutflowMono, Zenon
  <2>6. totalOutflow(ops, T) <= Allowance[v]
    BY <2>1, <2>4, <2>5
  <2> QED BY <2>6, Zenon DEF T
<1> QED BY <1>5, <1>6, <1>7, <1>8, <1>9, Zenon DEF AllowanceInv

\* A handler that begins changes nothing outside, and at most expires its row.
LEMMA BeginsWith ==
    ASSUME NEW c, NEW o, NEW v, CallBegins(c, o, v)
    PROVE  UNCHANGED outside /\ (ops' = ops \/ ops' = AfterExpiry(o))
BY ZenonT(60) DEF CallBegins, ReserveVtxo, replayVtxoReservation, loadExpiredVtxo, AuthorizeVtxoSpend,
   AuthorizeVtxoCheckpoints, GetVtxoOperationView, FinalizeVtxo, expireReservedVtxo, AbortVtxo

\* A handler's later steps change nothing outside either.
LEMMA StepsInside ==
    ASSUME NEW c, CallSteps(c)
    PROVE  UNCHANGED outside
BY DEF CallSteps, ReserveVtxoInsert, AuthorizeReplay, AuthorizeSign, AuthorizeCommit,
   CheckpointsSign, CheckpointsCommit, promoteResolve, promotePending, promoteSigned,
   promoteSettle, promoteReload, viewUnreconciled, AbortCommit, Fail

\* What a step other than an execution does outside the ledger.
quietOutside ==
    /\ executedAt' = executedAt
    /\ now' \in {now, now + 1}
    /\ \A x \in Coins : spentBy[x] # Unspent => spentBy'[x] # Unspent

\* Only the Operator executes, and a coin that is spent stays spent.
LEMMA OutsideStep ==
    ASSUME TypeOK, [Next]_vars
    PROVE  quietOutside \/ \E rel \in released : OperatorExecutes(rel)
<1>1. CASE UNCHANGED vars
  BY <1>1 DEF vars, quietOutside
<1>2. ASSUME NEW c \in Calls, NEW o \in OpIds, NEW v \in Vaults, CallBegins(c, o, v)
      PROVE  quietOutside
  <2>1. UNCHANGED outside
    BY <1>2, BeginsWith, Zenon
  <2> QED BY <2>1 DEF outside, quietOutside
<1>3. ASSUME NEW c \in Calls, CallSteps(c) PROVE quietOutside
  <2>1. UNCHANGED outside
    BY <1>3, StepsInside, Zenon
  <2> QED BY <2>1 DEF outside, quietOutside
<1>4. CASE Environment
  <2>1. ASSUME NEW x \in Coins, CoinLeaves(x) PROVE quietOutside
    BY <2>1, Zenon DEF CoinLeaves, quietOutside, TypeOK, Unspent, Elsewhere
  <2>2. CASE Tick
    BY <2>2 DEF Tick, quietOutside
  <2>3. CASE UNCHANGED <<now, spentBy, executedAt>>
    BY <2>3, Zenon DEF quietOutside
  <2> QED
    BY <1>4, <2>1, <2>2, <2>3, Zenon DEF Environment, AdvanceSignCount, FeePolicyChanges, outside
<1> QED BY <1>1, <1>2, <1>3, <1>4, Zenon DEF Next

\* A step of the clock changes no row.
LEMMA ClockOrRows ==
    ASSUME TypeOK, [Next]_vars
    PROVE  now' = now \/ ops' = ops
<1>1. ASSUME NEW c \in Calls, NEW o \in OpIds, NEW v \in Vaults, CallBegins(c, o, v)
      PROVE  now' = now
  <2>1. UNCHANGED outside
    BY <1>1, BeginsWith
  <2> QED BY <2>1, Zenon DEF outside
<1>2. ASSUME NEW c \in Calls, CallSteps(c) PROVE now' = now
  <2>1. UNCHANGED outside
    BY <1>2, StepsInside
  <2> QED BY <2>1, Zenon DEF outside
<1>3. CASE Environment
  BY <1>3, Zenon DEF Environment, AdvanceSignCount, OperatorExecutes, CoinLeaves,
     FeePolicyChanges, Tick, outside
<1>4. CASE UNCHANGED vars
  BY <1>4, Zenon DEF vars
<1> QED BY <1>1, <1>2, <1>3, <1>4, Zenon DEF Next

\* The row is settled now, with an input of it spent.
settles(o) ==
    /\ ops[o].state = "submitted"
    /\ ops'[o].created = now
    /\ anySpent(ops[o].inputs)

\* promoteSettle settles an operation whose inputs it has seen spent.
LEMMA SettleSettles ==
    ASSUME TypeOK, RowsSound, CallsSound, ResolvedSound, NEW c \in Calls, promoteSettle(c),
           NEW o \in OpIds
    PROVE  ops'[o] = ops[o] \/ settles(o)
<1> DEFINE q == calls[c].op
<1>1. calls[c] \in Call /\ calls[c] # Idle /\ calls[c].pc = "settle"
  BY CallExists DEF promoteSettle, At, Idle
<1>2. q \in OpIds /\ calls[c].rec \in Row /\ copyFresh(ops, q, calls[c].rec)
      /\ anySpent(calls[c].rec.inputs)
  BY <1>1, Zenon DEF Call, CallsSound, callSound, ResolvedSound
<1>3. settledRow(c).created = now
  BY <1>2, Zenon DEF settledRow, Row
<1>4. CASE TransitionVtxoOperation(q, "submitted", settledRow(c))
  <2>1. ops[q].state = "submitted" /\ ops' = [ops EXCEPT ![q] = settledRow(c)]
    BY <1>4, Zenon DEF TransitionVtxoOperation, CanSwap
  <2>2. ops[q].inputs = calls[c].rec.inputs
    BY <1>2, Zenon DEF copyFresh, sameFacts
  <2> QED BY <1>2, <1>3, <2>1, <2>2, Zenon DEF settles, TypeOK
<1>5. CASE UNCHANGED ops
  BY <1>5, Zenon
<1> QED BY <1>4, <1>5, Zenon DEF promoteSettle

\* Every other step leaves a settled row alone and settles nothing.
LEMMA StepSettles ==
    ASSUME TypeOK, RowsSound, CallsSound, ResolvedSound, [Next]_vars, NEW o \in OpIds,
           ops'[o].state \in {"finalized", "unresolved"}
    PROVE  ops'[o] = ops[o] \/ settles(o)
<1>1. CASE ops' = ops
  BY <1>1, Zenon
<1>2. ASSUME NEW q \in OpIds, ops' = AfterExpiry(q) PROVE ops'[o] = ops[o]
  <2>1. CASE Expired(q)
    <3>1. ops[q] \in Row
      BY <2>1, RowExists, Zenon DEF Expired, Exists
    <3>2. ops'[q].state = "aborted" /\ \A p \in OpIds \ {q} : ops'[p] = ops[p]
      BY <1>2, <2>1, <3>1, Zenon DEF AfterExpiry, TypeOK, Row
    <3> QED BY <3>2, Zenon
  <2>2. CASE ~ Expired(q)
    BY <1>2, <2>2, Zenon DEF AfterExpiry
  <2> QED BY <2>1, <2>2, Zenon
<1>3. ASSUME NEW q \in OpIds, NEW row, row.state \notin {"finalized", "unresolved"},
             ops' = [ops EXCEPT ![q] = row]
      PROVE  ops'[o] = ops[o]
  BY <1>3, Zenon DEF TypeOK
<1>4. ASSUME NEW c \in Calls, NEW q \in OpIds, NEW v \in Vaults, CallBegins(c, q, v)
      PROVE  ops'[o] = ops[o]
  <2>1. ops' = ops \/ ops' = AfterExpiry(q)
    BY <1>4, BeginsWith, Zenon
  <2> QED BY <1>2, <2>1, Zenon
<1>5. ASSUME NEW c \in Calls, CallSteps(c) PROVE ops'[o] = ops[o] \/ settles(o)
  <2> DEFINE a == calls[c]
  <2>0. calls[c].pc # "idle" => a.op \in OpIds /\ a.rec \in Row
    BY CallExists, Zenon DEF Call
  <2>1. CASE ReserveVtxoInsert(c)
    <3>1. a \in Call /\ a # Idle /\ a.pc = "reserve" /\ a.op \in OpIds /\ a.rec \in Row
      BY <2>1, CallExists, Zenon DEF ReserveVtxoInsert, At, Idle, Call
    <3>2. CASE ReserveVtxoOperation(a.op, a.rec)
      <4>1. a.rec.state = "reserved" /\ a.rec.inputs # {} /\ a.rec.inputs \subseteq CoinsOf[a.rec.vault]
        BY <3>1, Zenon DEF CallsSound, callSound, readState
      <4>2. Inserts(a.op, a.rec)
        BY <3>1, <3>2, <4>1, Zenon DEF Inserts
      <4>3. /\ ops'[a.op] = a.rec
            /\ \A p \in OpIds \ {a.op} :
                  \/ ops'[p] = ops[p]
                  \/ ops[p] \in Row /\ ops'[p] = [ops[p] EXCEPT !.state = "aborted"]
        BY <3>1, <4>2, InsertedRows
      <4> QED BY <4>1, <4>3, Zenon DEF Row
    <3>3. CASE ops' = ops \/ ops' = AfterExpiry(a.op)
      BY <1>1, <1>2, <3>1, <3>3, Zenon
    <3> QED BY <2>1, <3>2, <3>3, Zenon DEF ReserveVtxoInsert
  <2>2. CASE AuthorizeCommit(c)
    <3>1. a.op \in OpIds /\ signedRow(c).state = "signed"
      BY <2>0, <2>2, Zenon DEF AuthorizeCommit, At, signedRow, Row
    <3>2. ops' = ops \/ ops' = [ops EXCEPT ![a.op] = signedRow(c)]
      BY <2>2, Zenon DEF AuthorizeCommit, CommitSignedVtxoOperation
    <3> QED BY <1>1, <1>3, <3>1, <3>2, Zenon
  <2>3. CASE CheckpointsCommit(c)
    <3>1. a.op \in OpIds /\ submittedRow(c).state = "submitted"
      BY <2>0, <2>3, Zenon DEF CheckpointsCommit, At, submittedRow, Row
    <3>2. ops' = [ops EXCEPT ![a.op] = submittedRow(c)]
      BY <2>3, Zenon DEF CheckpointsCommit, TransitionVtxoOperation
    <3> QED BY <1>3, <3>1, <3>2, Zenon
  <2>4. CASE promoteSigned(c)
    <3> DEFINE row == [a.rec EXCEPT !.state = "submitted"]
    <3>1. a.op \in OpIds /\ row.state = "submitted"
      BY <2>0, <2>4, Zenon DEF promoteSigned, At, Row
    <3>2. ops' = ops \/ ops' = [ops EXCEPT ![a.op] = row]
      BY <2>4, Zenon DEF promoteSigned, TransitionVtxoOperation
    <3> HIDE DEF row
    <3> QED BY <1>1, <1>3, <3>1, <3>2, Zenon
  <2>5. CASE AbortCommit(c)
    <3> DEFINE row == [a.rec EXCEPT !.state = "aborted"]
    <3>1. a.op \in OpIds /\ row.state = "aborted"
      BY <2>0, <2>5, Zenon DEF AbortCommit, At, Row
    <3>2. ops' = [ops EXCEPT ![a.op] = row]
      BY <2>5, Zenon DEF AbortCommit, TransitionVtxoOperation
    <3> HIDE DEF row
    <3> QED BY <1>3, <3>1, <3>2, Zenon
  <2>6. CASE promoteSettle(c)
    BY <2>6, SettleSettles, Zenon
  <2> QED
    BY <1>1, <1>5, <2>1, <2>2, <2>3, <2>4, <2>5, <2>6, ZenonT(60)
    DEF CallSteps, AuthorizeReplay, AuthorizeSign, CheckpointsSign, promoteResolve, promotePending,
        promoteReload, viewUnreconciled, Fail
<1>6. CASE Environment
  <2>1. ops' = ops
    BY <1>6, Zenon DEF Environment, AdvanceSignCount, OperatorExecutes, CoinLeaves,
       FeePolicyChanges, Tick
  <2> QED BY <1>1, <2>1, Zenon
<1>7. CASE UNCHANGED vars
  BY <1>1, <1>7, Zenon DEF vars
<1> QED BY <1>4, <1>5, <1>6, <1>7, Zenon DEF Next

\* A handler reaches the settlement of an operation only through an answer of
\* the indexer that shows an input spent.
LEMMA HandlerResolves ==
    ASSUME TypeOK, RowsSound, CallsSound, ResolvedSound, NEW c \in Calls, CallSteps(c),
           NEW d \in Calls, calls'[d].pc \in {"promote", "settle"}
    PROVE  anySpent(calls'[d].rec.inputs)
<1> DEFINE a == calls[c]
<1>1. CASE calls'[d] = calls[d]
  BY <1>1, Zenon DEF ResolvedSound
<1>2. ASSUME NEW k, calls' = [calls EXCEPT ![c] = k], k.pc \notin {"promote", "settle"}
      PROVE  anySpent(calls'[d].rec.inputs)
  <2>1. calls'[d] = calls[d]
    BY <1>2, Zenon DEF TypeOK
  <2> QED BY <1>1, <2>1, Zenon
<1>3. CASE Return(c)
  BY <1>2, <1>3, Zenon DEF Return, Idle
<1>4. ASSUME NEW pc \in {"sign", "checkpointSign", "reload"}, Goto(c, pc), a \in Call
      PROVE  anySpent(calls'[d].rec.inputs)
  <2> DEFINE k == [a EXCEPT !.pc = pc]
  <2>1. calls' = [calls EXCEPT ![c] = k] /\ k.pc = pc
    BY <1>4 DEF Goto, Call
  <2> HIDE DEF k
  <2> QED BY <1>2, <2>1, Zenon
<1>5. CASE promotePending(c)
  <2> DEFINE k == [a EXCEPT !.seen = "pending", !.pc = "reload"]
  <2>1. a \in Call
    BY <1>5, CallExists, Zenon DEF promotePending, At
  <2>2. calls' = [calls EXCEPT ![c] = k] /\ k.pc = "reload"
    BY <1>5, <2>1, Zenon DEF promotePending, Call
  <2> HIDE DEF k
  <2> QED BY <1>2, <2>2, Zenon
<1>6. CASE promoteResolve(c)
  <2> DEFINE seen == SubmittedVtxoState(a.op, a.rec)
             pc == IF seen = "pending" THEN "reload"
                   ELSE IF a.rec.state = "signed" THEN "promote" ELSE "settle"
             k == [a EXCEPT !.seen = seen, !.pc = pc]
  <2>1. a \in Call /\ a # Idle /\ a.pc = "resolve" /\ a.op \in OpIds
    BY <1>6, CallExists, Zenon DEF promoteResolve, At, Idle, Call
  <2>2. calls' = [calls EXCEPT ![c] = k]
    BY <1>6, Zenon DEF promoteResolve
  <2>3. k.pc = pc /\ k.rec = a.rec
    BY <2>1, Zenon DEF Call
  <2>4. a.rec.inputs # {}
    BY <2>1, Zenon DEF CallsSound, callSound, copyFresh, sameFacts, RowsSound, Exists
  <2>5. seen # "pending" => anySpent(a.rec.inputs)
    BY <2>4 DEF SubmittedVtxoState, anySpent, Unspent
  <2>6. CASE d = c
    <3>1. calls'[d] = k
      BY <2>2, <2>6, Zenon DEF TypeOK
    <3>2. seen # "pending"
      BY <2>3, <3>1
    <3> QED BY <2>3, <2>5, <3>1, <3>2, Zenon
  <2>7. CASE d # c
    <3>1. calls'[d] = calls[d]
      BY <2>2, <2>7, Zenon DEF TypeOK
    <3> QED BY <1>1, <3>1, Zenon
  <2> QED BY <2>6, <2>7, Zenon
<1>7. CASE promoteSigned(c)
  <2> DEFINE row == [a.rec EXCEPT !.state = "submitted"]
  <2>1. a \in Call /\ a # Idle /\ a.pc = "promote" /\ a.op \in OpIds /\ a.rec \in Row
    BY <1>7, CallExists, Zenon DEF promoteSigned, At, Idle, Call
  <2>2. anySpent(a.rec.inputs) /\ copyFresh(ops, a.op, a.rec)
    BY <2>1, Zenon DEF ResolvedSound, CallsSound, callSound
  <2>3. row.inputs = a.rec.inputs /\ ops[a.op].inputs = a.rec.inputs
    BY <2>1, <2>2, Zenon DEF Row, copyFresh, sameFacts
  <2>4. ASSUME NEW rec, rec.inputs = a.rec.inputs,
               calls' = [calls EXCEPT ![c].rec = rec, ![c].pc = "settle"]
        PROVE  anySpent(calls'[d].rec.inputs)
    <3> DEFINE k == [a EXCEPT !.rec = rec, !.pc = "settle"]
    <3>1. calls' = [calls EXCEPT ![c] = k] /\ k.rec = rec
      BY <2>1, <2>4, Zenon DEF Call
    <3> HIDE DEF k
    <3>2. CASE d = c
      BY <2>2, <2>4, <3>1, <3>2, Zenon DEF TypeOK
    <3>3. CASE d # c
      <4>1. calls'[d] = calls[d]
        BY <3>1, <3>3, Zenon DEF TypeOK
      <4> QED BY <1>1, <4>1
    <3> QED BY <3>2, <3>3
  <2>5. \/ calls' = [calls EXCEPT ![c].rec = row, ![c].pc = "settle"]
        \/ calls' = [calls EXCEPT ![c].rec = ops[a.op], ![c].pc = "settle"]
        \/ Goto(c, "reload")
    BY <1>7, Zenon DEF promoteSigned
  <2> HIDE DEF row
  <2> QED BY <1>4, <2>1, <2>3, <2>4, <2>5, Zenon
<1>8. CASE AuthorizeSign(c)
  <2>1. a \in Call /\ Goto(c, "sign")
    BY <1>8, CallExists, Zenon DEF AuthorizeSign, At
  <2> QED BY <1>4, <2>1, Zenon
<1>9. CASE CheckpointsSign(c)
  <2>1. a \in Call /\ Goto(c, "checkpointSign")
    BY <1>9, CallExists, Zenon DEF CheckpointsSign, At
  <2> QED BY <1>4, <2>1, Zenon
<1>10. CASE promoteSettle(c)
  <2>1. a \in Call /\ Goto(c, "reload")
    BY <1>10, CallExists, Zenon DEF promoteSettle, At
  <2> QED BY <1>4, <2>1, Zenon
<1> QED
  BY <1>3, <1>5, <1>6, <1>7, <1>8, <1>9, <1>10, ZenonT(60)
  DEF CallSteps, ReserveVtxoInsert, AuthorizeReplay, AuthorizeCommit, CheckpointsCommit,
      promoteReload, viewUnreconciled, AbortCommit, Fail

\* The same for every step of the specification.
LEMMA StepResolves ==
    ASSUME TypeOK, RowsSound, CallsSound, ResolvedSound, [Next]_vars,
           NEW d \in Calls, calls'[d].pc \in {"promote", "settle"}
    PROVE  anySpent(calls'[d].rec.inputs)
<1>1. CASE calls'[d] = calls[d]
  BY <1>1, Zenon DEF ResolvedSound
<1>2. ASSUME NEW c \in Calls, NEW o \in OpIds, NEW v \in Vaults, CallBegins(c, o, v)
      PROVE  anySpent(calls'[d].rec.inputs)
  <2>2. ASSUME NEW pc \in {"reserve", "authorize", "checkpoints", "resolve", "abort"},
               NEW rec, NEW req, NEW n, NEW view, Begin(c, pc, o, rec, req, n, view)
        PROVE  anySpent(calls'[d].rec.inputs)
    <3> DEFINE k == [pc |-> pc, op |-> o, rec |-> rec, req |-> req, count |-> n,
                     seen |-> "unknown", view |-> view]
    <3>1. calls' = [calls EXCEPT ![c] = k] /\ k.pc = pc
      BY <2>2, Zenon DEF Begin
    <3> HIDE DEF k
    <3>2. calls'[d] = calls[d]
      BY <2>2, <3>1, Zenon DEF TypeOK
    <3> QED BY <1>1, <3>2, Zenon
  <2> QED
    BY <1>1, <1>2, <2>2, Zenon DEF CallBegins, ReserveVtxo, replayVtxoReservation,
       loadExpiredVtxo, AuthorizeVtxoSpend, AuthorizeVtxoCheckpoints,
       GetVtxoOperationView, FinalizeVtxo, expireReservedVtxo, AbortVtxo
<1>3. CASE \E c \in Calls : CallSteps(c)
  BY <1>3, HandlerResolves, Zenon
<1>4. CASE Environment
  <2>1. calls' = calls
    BY <1>4, Zenon DEF Environment, AdvanceSignCount, OperatorExecutes, CoinLeaves,
       FeePolicyChanges, Tick
  <2> QED BY <1>1, <2>1, Zenon
<1>5. CASE UNCHANGED vars
  BY <1>1, <1>5, Zenon DEF vars
<1> QED BY <1>2, <1>3, <1>4, <1>5, Zenon DEF Next

\* Every step keeps the executed operations of every window within the allowance.
LEMMA AllowanceInvStep == IndInv /\ IndInv' /\ AllowanceInv /\ [Next]_vars => AllowanceInv'
<1> SUFFICES ASSUME IndInv, IndInv', AllowanceInv, [Next]_vars PROVE AllowanceInv'
  OBVIOUS
<1>0. /\ TypeOK /\ RowsSound /\ CallsSound /\ OneLifecyclePerVault /\ LiveInputsDisjoint
      /\ ExecutedSound /\ SettledSound /\ ResolvedSound /\ BudgetHeld /\ AllowanceKept
      /\ TypeOK'
  BY DEF IndInv, AllowanceInv
<1>1. CASE \E rel \in released : OperatorExecutes(rel)
  BY <1>1, ExecuteKeeps, Zenon
<1>2. CASE quietOutside
  <2>1. /\ executedAt' = executedAt /\ now' \in {now, now + 1} /\ now \in Nat
        /\ \A x \in Coins : spentBy[x] # Unspent => spentBy'[x] # Unspent
    BY <1>0, <1>2, Zenon DEF quietOutside, TypeOK
  <2>2. RowsStep /\ \A p \in OpIds : Exists(p) => rowKept(ops[p], ops'[p])
    BY <1>0, StepShape, RowsPreserved, Zenon
  <2>3. ASSUME NEW p \in OpIds, Exists(p), anySpent(ops[p].inputs)
        PROVE  \E x \in ops'[p].inputs : spentBy'[x] # Unspent
    <3>1. ops[p].inputs \subseteq Coins /\ ops'[p].inputs = ops[p].inputs
      BY <1>0, <2>2, <2>3, RowExists, Zenon DEF Row, rowKept, sameFacts
    <3> QED BY <2>1, <2>3, <3>1, Zenon DEF anySpent
  <2>4. ExecutedSound'
    <3> SUFFICES ASSUME NEW p \in OpIds, executedAt[p] # Never
                 PROVE  /\ executedAt[p] <= now' /\ ops'[p].state \in SignedStates
                        /\ \E x \in ops'[p].inputs : spentBy'[x] # Unspent
      BY <2>1, Zenon DEF ExecutedSound, anySpent
    <3>1. executedAt[p] <= now /\ ops[p].state \in SignedStates /\ anySpent(ops[p].inputs)
      BY <1>0, Zenon DEF ExecutedSound
    <3>2. Exists(p) /\ rowKept(ops[p], ops'[p])
      BY <2>2, <3>1, Zenon DEF Exists, SignedStates
    <3>3. ops'[p].state \in SignedStates
      BY <3>1, <3>2, Zenon DEF rowKept, validVtxoTransition, SignedStates
    <3>4. executedAt[p] \in Int
      BY <1>0 DEF TypeOK, Never
    <3>5. executedAt[p] <= now'
      BY <2>1, <3>1, <3>4
    <3> QED BY <2>3, <3>1, <3>2, <3>3, <3>5, Zenon
  <2>5. SettledSound'
    <3> SUFFICES ASSUME NEW p \in OpIds, ops'[p].state \in {"finalized", "unresolved"}
                 PROVE  /\ \E x \in ops'[p].inputs : spentBy'[x] # Unspent
                        /\ executedAt[p] <= ops'[p].created
      BY <2>1, Zenon DEF SettledSound, anySpent
    <3>1. CASE ops'[p] = ops[p]
      <4>1. anySpent(ops[p].inputs) /\ executedAt[p] <= ops[p].created /\ Exists(p)
        BY <1>0, <3>1, Zenon DEF SettledSound, Exists
      <4> QED BY <2>3, <3>1, <4>1, Zenon
    <3>2. CASE settles(p)
      <4>1. Exists(p) /\ anySpent(ops[p].inputs) /\ ops'[p].created = now
        BY <3>2, Zenon DEF settles, Exists
      <4>2. executedAt[p] <= now
        BY <1>0, <2>1 DEF ExecutedSound, TypeOK, Never
      <4> QED BY <2>3, <4>1, <4>2, Zenon
    <3> QED BY <1>0, <3>1, <3>2, StepSettles, Zenon
  <2>6. ResolvedSound'
    <3> SUFFICES ASSUME NEW d \in Calls, calls'[d].pc \in {"promote", "settle"}
                 PROVE  \E x \in calls'[d].rec.inputs : spentBy'[x] # Unspent
      BY Zenon DEF ResolvedSound, anySpent
    <3>1. anySpent(calls'[d].rec.inputs)
      BY <1>0, StepResolves, Zenon
    <3>2. calls'[d] \in Call
      BY <1>0 DEF TypeOK, Idle
    <3>3. calls'[d].rec \in Row
      BY <3>2, Zenon DEF Call
    <3>4. calls'[d].rec.inputs \subseteq Coins
      BY <3>3, Zenon DEF Row
    <3> QED BY <2>1, <3>1, <3>4, Zenon DEF anySpent
  <2>7. BudgetHeld'
    <3> SUFFICES ASSUME NEW q \in OpIds, ops'[q].state \in {"reserved", "signed", "submitted"}
                 PROVE  totalOutflow(ops', {q} \cup executedSince(ops', executedAt, now', ops'[q].vault))
                            <= Allowance[ops'[q].vault]
      BY <2>1, Zenon DEF BudgetHeld, recentlyExecuted, executedSince, Exists
    <3>0. now' \in Nat /\ now <= now'
      BY <2>1
    <3>1. CASE ops[q].state \in {"reserved", "signed", "submitted"}
      BY <1>0, <2>1, <2>2, <3>0, <3>1, BudgetFrame, Zenon
    <3>2. CASE ops[q].state \notin {"reserved", "signed", "submitted"}
      <4>0. DOMAIN ops = OpIds
        BY <1>0, Zenon DEF TypeOK
      <4>1. ops[q].state = "absent"
        <5>1. SUFFICES ASSUME Exists(q) PROVE FALSE
          BY Zenon DEF Exists
        <5>2. rowKept(ops[q], ops'[q])
          BY <2>2, <5>1, Zenon
        <5> QED BY <3>2, <5>2, Zenon DEF rowKept, validVtxoTransition
      <4>2. PICK o \in OpIds, rec \in Row : Inserts(o, rec)
        <5>1. ops' # ops
          BY <4>1, Zenon
        <5>2. ASSUME NEW o \in OpIds, NEW row \in Row, Advances(o, row) PROVE FALSE
          <6>1. q = o => FALSE
            BY <4>1, <5>2, Zenon DEF Advances, Row, States
          <6>2. q # o => ops'[q] = ops[q]
            BY <4>0, <5>2, Zenon DEF Advances
          <6> QED BY <4>1, <6>1, <6>2, Zenon
        <5> QED BY <2>2, <5>1, <5>2, Zenon DEF RowsStep
      <4>3. q = o
        <5>1. \A p \in OpIds \ {o} :
                 \/ ops'[p] = ops[p]
                 \/ ops[p].state = "reserved"
          BY <1>0, <4>2, InsertedRows, Zenon
        <5> QED BY <4>1, <5>1, Zenon
      <4>4. ops'[q] = rec
        BY <1>0, <4>2, <4>3, InsertedRows, Zenon
      <4>5. totalOutflow(ops', {q} \cup executedSince(ops', executedAt, now, rec.vault))
               <= Allowance[rec.vault]
        BY <1>0, <4>2, <4>3, InsertBudget, Zenon
      <4>6. now' = now
        BY <1>0, <4>1, ClockOrRows, Zenon
      <4> QED BY <4>4, <4>5, <4>6, Zenon
    <3> QED BY <3>1, <3>2, Zenon
  <2>8. AllowanceKept'
    <3> SUFFICES ASSUME NEW v \in Vaults, NEW t \in 0..now'
                 PROVE  totalOutflow(ops', executedUpTo(ops', executedAt, v, t)) <= Allowance[v]
      BY <2>1, Zenon DEF AllowanceKept, executedIn, executedUpTo, Exists
    <3>1. t \in 0..(now + 1)
      BY <2>1
    <3> QED BY <1>0, <2>2, <3>1, WindowFrame, Zenon
  <2> QED BY <2>4, <2>5, <2>6, <2>7, <2>8, Zenon DEF AllowanceInv
<1> QED BY <1>0, <1>1, <1>2, OutsideStep, Zenon

\* Nothing is executed at the start.
LEMMA AllowanceInvInit == Init => AllowanceInv
<1> SUFFICES ASSUME Init PROVE AllowanceInv
  OBVIOUS
<1>1. /\ \A o \in OpIds : ops[o].state = "absent" /\ executedAt[o] = Never
      /\ \A c \in Calls : calls[c].pc = "idle"
  BY Zenon DEF Init, NoRow, Idle
<1>2. ExecutedSound /\ SettledSound /\ ResolvedSound /\ BudgetHeld
  BY <1>1, Zenon DEF ExecutedSound, SettledSound, ResolvedSound, BudgetHeld
<1>3. AllowanceKept
  <2> SUFFICES ASSUME NEW v \in Vaults, NEW from, NEW to
               PROVE  totalOutflow(ops, executedIn(v, from, to)) <= Allowance[v]
    BY Zenon DEF AllowanceKept
  <2>1. executedIn(v, from, to) = {}
    BY <1>1, Zenon DEF executedIn, Exists
  <2>2. totalOutflow(ops, {}) = 0
    BY FS_EmptySet, OutflowIsTotal, TotalStep, Zenon
  <2>3. Allowance[v] \in Nat
    BY LedgerConstants
  <2> QED BY <2>1, <2>2, <2>3
<1> QED BY <1>2, <1>3, Zenon DEF AllowanceInv

\* spentInWindow and ReserveVtxoOperation: whatever the Operator executes and
\* however late, what leaves a vault in any window stays within its allowance.
THEOREM AllowanceSafety == Spec => []AllowanceKept
<1>1. AllowanceInv => AllowanceKept
  BY DEF AllowanceInv
<1> QED BY <1>1, AllowanceInvInit, AllowanceInvStep, Invariance, PTL DEF Spec
=============================================================================
