--------------------------- MODULE PasskeySession ---------------------------
(***************************************************************************)
(* Passkey challenges (internal/application/session.go): the in-memory map *)
(* of issued challenges under sessionMu, the credential envelope and the   *)
(* recovery map of a vault (internal/policy/tenant.go, vaultmap.go) and the*)
(* per-vault transition rate limit (internal/application/transition.go).   *)
(* Every definition is one locked section; SavingsRecovery composes them   *)
(* into request handlers.                                                  *)
(***************************************************************************)
EXTENDS SignCount, RecoverySession, FiniteSets, Sequences

CONSTANTS
    ChallengeIds,      \* random 16-byte ids; no id is issued twice
    Envelopes,         \* sealed credential envelopes
    Payloads,          \* public recovery maps that name their vault
    MaxChallenges,     \* maxPasskeyChallengesPerVault
    ChallengeTTL,      \* passkeyChallengeTTL, in clock ticks
    MaxTransitions,    \* maxTransitionsPerVaultPerMinute
    RateWindow         \* transitionRateWindow, in clock ticks

ASSUME SessionConstants ==
    /\ MaxChallenges \in Nat /\ ChallengeTTL \in Nat
    /\ MaxTransitions \in Nat /\ RateWindow \in Nat
    /\ None \notin Envelopes \cup Payloads

VARIABLES
    challenges,   \* sessionChallenges: outstanding challenges
    issued,       \* history: every challenge issued, with its vault and purpose
    envelopes,    \* vault_envelope, one row per vault
    maps,         \* vault_map, one row per vault
    rateHits,     \* transitionRateHits: numbered admission times per vault
    now

Purposes == {"recover", "install-envelope", "transition", "map-write"}

-----------------------------------------------------------------------------
Live(ch) == now < ch.expires

pendingFor(v) == {ch \in challenges : Live(ch) /\ ch.vault = v}

\* Issuing drops every expired challenge, of any vault. A recover challenge
\* needs an installed envelope.
issuePasskeyChallenge(v, purpose, id) ==
    /\ id \notin {i.id : i \in issued}
    /\ purpose = "recover" => envelopes[v] # None
    /\ Cardinality(pendingFor(v)) < MaxChallenges
    /\ challenges' = {ch \in challenges : Live(ch)} \cup
           {[id |-> id, vault |-> v, purpose |-> purpose, expires |-> now + ChallengeTTL]}
    /\ issued' = issued \cup {[id |-> id, vault |-> v, purpose |-> purpose]}

\* At the limit the call is refused as busy; the expired ones are gone anyway.
issueBusy(v, purpose) ==
    /\ purpose = "recover" => envelopes[v] # None
    /\ Cardinality(pendingFor(v)) >= MaxChallenges
    /\ challenges' = {ch \in challenges : Live(ch)}
    /\ UNCHANGED issued

pending(v, id) == {ch \in challenges : ch.id = id /\ ch.vault = v}

\* Mutation: the challenge stays until it expires.
MutChallengeKept(v, id, purpose) ==
    /\ \E ch \in pending(v, id) : Live(ch) /\ ch.purpose = purpose
    /\ UNCHANGED challenges

\* A live challenge of the vault and purpose is taken, once.
consumePasskeyChallenge(v, id, purpose) ==
    \E ch \in pending(v, id) :
        /\ Live(ch)
        /\ ch.purpose = purpose
        /\ challenges' = challenges \ {ch}

\* An expired challenge is dropped and refused; one of another purpose is kept.
dropExpiredChallenge(v, id) ==
    \E ch \in pending(v, id) : ~ Live(ch) /\ challenges' = challenges \ {ch}

-----------------------------------------------------------------------------
\* Mutation: the insert trusts the handler's earlier read.
MutStoreEnvelope(v, e) == envelopes' = [envelopes EXCEPT ![v] = e]

\* An exact retry succeeds without a write, a different envelope is refused.
StoreVaultEnvelopeIfAbsent(v, e) ==
    /\ envelopes[v] \in {None, e}
    /\ envelopes' = [envelopes EXCEPT ![v] = e]

\* The map is replaced whatever was stored: the last writer wins.
PutVaultMap(v, payload) == maps' = [maps EXCEPT ![v] = payload]

-----------------------------------------------------------------------------
\* The hits of the last window; the handler's clock and the lock are one step.
recentHits(v) == {h \in rateHits[v] : h.at > now - RateWindow}

\* Mutation: the limit is compared after the append.
MutRateOffByOne(v) == Cardinality(recentHits(v)) <= MaxTransitions

rateAllows(v) == Cardinality(recentHits(v)) < MaxTransitions

\* Admitted or refused, the stale hits are dropped. Only the number of hits kept
\* and their times are looked at, never their order: they are a set, and n tells
\* two of the same instant apart.
allowTransition(v, n) ==
    rateHits' = [rateHits EXCEPT ![v] =
                   recentHits(v) \cup (IF rateAllows(v) THEN {[n |-> n, at |-> now]} ELSE {})]
=============================================================================
