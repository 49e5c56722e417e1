-------------------------- MODULE VtxoSpendRefines --------------------------
(* VtxoSpend implements SpendContract: the contract sees the rows without   *)
(* their timestamps, fee policy and checkpoints, and the visible signatures *)
(* without the counters that obtained them.                                 *)
EXTENDS VtxoSpend

lifeOf(row) ==
    IF row.state = "absent" THEN NoRow
    ELSE [state |-> row.state, vault |-> row.vault, inputs |-> row.inputs,
          outflow |-> addOutflow(row), request |-> row.request]

Contract == INSTANCE SpendContract
    WITH life <- [o \in OpIds |-> lifeOf(ops[o])],
         signatures <- {<<rel.op, rel.request>> : rel \in released},
         Outflows <- {a + f : a \in Amounts, f \in Fees}

\* The handlers of vtxo.go, with all their stale copies and retries, take only
\* the steps of the contract.
ImplementsContract == Contract!Spec
=============================================================================
