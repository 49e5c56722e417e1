----------------------------- MODULE SignCount -----------------------------
(***************************************************************************)
(* The webauthn_sign_count table (internal/policy/signcount.go): the last  *)
(* authenticator counter accepted for a vault's credential. Every passkey  *)
(* ceremony of the vault moves the same counter: sessions (PasskeySession) *)
(* and Spending authorizations (VtxoSpend). A vault has one credential.    *)
(***************************************************************************)
EXTENDS Integers

CONSTANTS Vaults        \* enrolled vaults

VARIABLES signCounts    \* per vault: the stored counter, or NoCount

\* The counter of a credential that has no row yet.
NoCount == -1

\* Mutation: an equal positive counter is taken for progress.
MutEqualCounter(v, n) == n >= signCounts[v]

CanAdvanceSignCount(v, n) ==
    \/ n > signCounts[v]
    \/ n = 0 /\ signCounts[v] = 0

advanceSignCount(v, n) ==
    /\ CanAdvanceSignCount(v, n)
    /\ signCounts' = [signCounts EXCEPT ![v] = n]

verifySignCountReplay(v, n) == signCounts[v] # NoCount /\ signCounts[v] = n
=============================================================================
