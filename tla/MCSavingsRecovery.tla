------------------------- MODULE MCSavingsRecovery -------------------------
(* Finite instances of SavingsRecovery: one vault and one Savings outpoint;  *)
(* t1 and t2 spend the hardware leaf with different fees, t3 the phone leaf. *)
EXTENDS SavingsRecovery, TLC

CONSTANTS t1, t2, t3

OneVault == CHOOSE v \in Vaults : TRUE
OneOutpoint == CHOOSE k \in Outpoints : TRUE

MCVaultOf == [k \in Outpoints |-> OneVault]
MCKeyOf == [t \in Txs |-> OneOutpoint]
MCDestOf == [t \in Txs |-> IF t \in PhonePath THEN "pendingPhone" ELSE "pendingHardware"]

\* A bound: transitions are not combined with an authenticator that has no counter
\* and reports zero. (A hardware-leaf transition carries no assertion.)
ShowsZero ==
    \/ \E u \in uses : u.count = 0
    \/ \E c \in Calls : calls[c] # Idle /\ calls[c].id # None /\ calls[c].count = 0
Transits ==
    \/ \E v \in Vaults : rateHits[v] # {}
    \/ \E k \in Outpoints : sessions[k] # NoSession
    \/ \E c \in Calls : calls[c] # Idle /\ calls[c].purpose = "transition"
MCBound == ~ (ShowsZero /\ Transits)

\* The three kinds of values are permuted independently.
MCSymmetry ==
    {[x \in Calls \cup ChallengeIds \cup Envelopes |->
        IF x \in Calls THEN p[x] ELSE IF x \in ChallengeIds THEN q[x] ELSE r[x]] :
        p \in Permutations(Calls), q \in Permutations(ChallengeIds), r \in Permutations(Envelopes)}
=============================================================================
