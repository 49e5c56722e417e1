---------------------------- MODULE MCVtxoSpend ----------------------------
(* Finite instances of VtxoSpend. *)
EXTENDS VtxoSpendRefines, TLC

\* One vault owning every coin.
OneVaultCoins == [v \in Vaults |-> Coins]
OneVaultAllowance == [v \in Vaults |-> 4]

\* Calls, operation ids, requests and coins are interchangeable names; the run
\* that checks a temporal formula under fairness does not use the symmetry.
RaceSymmetry == Permutations(Calls) \cup Permutations(OpIds) \cup Permutations(Requests)
                 \cup Permutations(Coins)
=============================================================================
