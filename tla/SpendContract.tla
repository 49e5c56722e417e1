---------------------------- MODULE SpendContract ----------------------------
(***************************************************************************)
(* What the Spending service promises about an operation, without handlers,*)
(* locks, copies, clocks or retries: an operation binds one vault, one set *)
(* of coins and one outflow for ever; it is signed at most once, over one  *)
(* request, and only while its coins and its vault are held by no other    *)
(* live operation; a signature that can be seen is the recorded one.       *)
(* VtxoSpend implements it (VtxoSpendRefines).                             *)
(***************************************************************************)
CONSTANTS Vaults, OpIds, Coins, CoinsOf, Outflows, Requests, None

VARIABLES
    life,         \* life[o]: the recorded operation
    signatures    \* pairs <<o, r>>: signatures visible outside the service

vars == <<life, signatures>>

Unused == [state |-> "absent"]

Live(o) == life[o].state \notin {"absent", "aborted"}

Signed(o) == life[o].state \in {"signed", "submitted", "finalized", "unresolved"}

Init ==
    /\ life = [o \in OpIds |-> Unused]
    /\ signatures = {}

Reservations(v) == {p \in OpIds : life[p].state = "reserved" /\ life[p].vault = v}

\* A reservation takes its coins from operations that are over, and its vault
\* from operations that are finalized or that time out in this very step.
Reserve(o, v, inputs, outflow, timedOut) ==
    /\ inputs # {}
    /\ \A p \in OpIds \ timedOut :
          Live(p) => /\ life[p].vault = v => life[p].state = "finalized"
                     /\ life[p].inputs \cap inputs = {}
    /\ life' = [p \in OpIds |->
                  IF p = o
                  THEN [state |-> "reserved", vault |-> v, inputs |-> inputs,
                        outflow |-> outflow, request |-> None]
                  ELSE IF p \in timedOut THEN [life[p] EXCEPT !.state = "aborted"]
                       ELSE life[p]]
    /\ UNCHANGED signatures

Sign(o, r) ==
    /\ life[o].state = "reserved"
    /\ life' = [life EXCEPT ![o].state = "signed", ![o].request = r]
    /\ signatures' = signatures \cup {<<o, r>>}

Show(o) ==
    /\ Signed(o)
    /\ signatures' = signatures \cup {<<o, life[o].request>>}
    /\ UNCHANGED life

Move(o, from, to) ==
    /\ life[o].state = from
    /\ life' = [life EXCEPT ![o].state = to]
    /\ UNCHANGED signatures

Abort(o) == Move(o, "reserved", "aborted")
Submit(o) == Move(o, "signed", "submitted")
Settle(o) == Move(o, "submitted", "finalized") \/ Move(o, "submitted", "unresolved")

Next ==
    \E o \in OpIds :
        \/ /\ life[o].state = "absent"
           /\ \E v \in Vaults : \E inputs \in SUBSET CoinsOf[v], outflow \in Outflows,
                                  timedOut \in SUBSET Reservations(v) :
                Reserve(o, v, inputs, outflow, timedOut)
        \/ \E r \in Requests : Sign(o, r)
        \/ Show(o) \/ Abort(o) \/ Submit(o) \/ Settle(o)

Spec == Init /\ [][Next]_vars
=============================================================================
