--------------------------- MODULE SavingsRecovery ---------------------------
(***************************************************************************)
(* Passkey sessions and Savings recovery: the challenge, envelope, map and *)
(* transition handlers of internal/application/session.go, map.go and      *)
(* transition.go over the recovery_session table of                        *)
(* internal/policy/session.go.                                             *)
(*                                                                         *)
(* SignTransition writes the destination and sighash of a transition ahead *)
(* (first ApplyRecoveryReplay), signs without a lock, and records the      *)
(* signature (second ApplyRecoveryReplay).                                 *)
(***************************************************************************)
EXTENDS PasskeySession

CONSTANTS
    Txs,         \* unsigned transitions that pass the packet checks
    Outpoints,   \* session keys: vault, input outpoint and purpose together
    VaultOf,     \* VaultOf[k]: the vault of a session key
    KeyOf,       \* KeyOf[t]: the session key of a transition
    DestOf,      \* DestOf[t]: its destination, fixed by the leaf it spends
    PhonePath,   \* the transitions that spend a phone leaf
    Calls,       \* handlers in flight
    Counts,      \* counters the authenticator reports
    MaxTime      \* bound of the clock

ASSUME RecoveryConstants ==
    /\ VaultOf \in [Outpoints -> Vaults]
    /\ KeyOf \in [Txs -> Outpoints]
    /\ PhonePath \subseteq Txs
    /\ Counts \subseteq Nat
    /\ MaxTime \in Nat
    /\ None \notin Txs

VARIABLES
    sessions,     \* recovery_session
    calls,        \* handlers in flight
    produced,     \* transitions both cosigners have signed
    answered,     \* transitions whose signature was returned
    uses,         \* challenges that authenticated a call, with the counter
    installed,    \* envelopes acknowledged to a client
    admitted      \* admission times of transitions, all of them

vars == <<challenges, issued, envelopes, maps, rateHits, now, signCounts, sessions, calls,
          produced, answered, uses, installed, admitted>>

challengeVars == <<challenges, issued>>
history == <<produced, answered, uses, installed, admitted>>

-----------------------------------------------------------------------------
\* A call in flight: its pc, purpose and vault; what it is about, a transition, an
\* envelope, a map or None; the challenge and counter it shows; the row it read.
Idle == [pc |-> "idle"]

Init ==
    /\ challenges = {} /\ issued = {}
    /\ envelopes = [v \in Vaults |-> None]
    /\ maps = [v \in Vaults |-> None]
    /\ rateHits = [v \in Vaults |-> {}]
    /\ now = 0
    /\ signCounts = [v \in Vaults |-> NoCount]
    /\ sessions = [k \in Outpoints |-> NoSession]
    /\ calls = [c \in Calls |-> Idle]
    /\ produced = {} /\ answered = {} /\ uses = {} /\ installed = {}
    /\ admitted = [v \in Vaults |-> <<>>]

At(c, pc) == calls[c].pc = pc
Goto(c, pc) == calls' = [calls EXCEPT ![c].pc = pc]
Return(c) == calls' = [calls EXCEPT ![c] = Idle]

Begin(c, pc, purpose, v, subject, id, n) ==
    /\ calls[c] = Idle
    /\ calls' = [calls EXCEPT ![c] =
                    [pc |-> pc, purpose |-> purpose, vault |-> v, subject |-> subject,
                     id |-> id, count |-> n, stored |-> NoSession]]

-----------------------------------------------------------------------------
(* Challenges and authenticatePasskeySession. *)

IssuePasskeyChallengeFor(v, purpose, id) ==
    /\ issuePasskeyChallenge(v, purpose, id) \/ issueBusy(v, purpose)
    /\ UNCHANGED <<envelopes, maps, rateHits, now, signCounts, sessions, calls, history>>

consumeChallenge(c) ==
    /\ At(c, "auth")
    /\ LET a == calls[c]
       IN  \/ consumePasskeyChallenge(a.vault, a.id, a.purpose) /\ Goto(c, "counter")
           \/ dropExpiredChallenge(a.vault, a.id) /\ Return(c)
    /\ UNCHANGED <<issued, envelopes, maps, rateHits, now, signCounts, sessions, history>>

continuation(purpose) ==
    CASE purpose = "transition" -> "apply"
      [] purpose = "install-envelope" -> "install"
      [] purpose = "map-write" -> "map"
      [] OTHER -> "recover"

\* The assertion over the consumed challenge verifies and its counter advances.
advanceCounter(c) ==
    /\ At(c, "counter")
    /\ LET a == calls[c]
       IN  /\ advanceSignCount(a.vault, a.count)
           /\ uses' = uses \cup {[id |-> a.id, call |-> c, vault |-> a.vault,
                                     purpose |-> a.purpose, count |-> a.count]}
           /\ Goto(c, continuation(a.purpose))
    /\ UNCHANGED <<challengeVars, envelopes, maps, rateHits, now, sessions,
                   produced, answered, installed, admitted>>

-----------------------------------------------------------------------------
(* InstallCredentialEnvelope and RecoverCredentialEnvelope. *)

InstallCredentialEnvelope(c, v, e, id, n) ==
    /\ Begin(c, "auth", "install-envelope", v, e, id, n)
    /\ UNCHANGED <<challengeVars, envelopes, maps, rateHits, now, signCounts, sessions, history>>

RecoverCredentialEnvelope(c, v, id, n) ==
    /\ Begin(c, "auth", "recover", v, None, id, n)
    /\ UNCHANGED <<challengeVars, envelopes, maps, rateHits, now, signCounts, sessions, history>>

\* The unlocked read: an equal envelope is acknowledged, another is refused.
loadEnvelope(c) ==
    /\ At(c, "install")
    /\ LET v == calls[c].vault
           e == calls[c].subject
       IN  /\ installed' = IF envelopes[v] = e THEN installed \cup {<<v, e>>} ELSE installed
           /\ IF envelopes[v] = None THEN Goto(c, "store") ELSE Return(c)
    /\ UNCHANGED <<challengeVars, envelopes, maps, rateHits, now, signCounts, sessions,
                   produced, answered, uses, admitted>>

storeEnvelope(c) ==
    /\ At(c, "store")
    /\ StoreVaultEnvelopeIfAbsent(calls[c].vault, calls[c].subject)
    /\ installed' = installed \cup {<<calls[c].vault, calls[c].subject>>}
    /\ Return(c)
    /\ UNCHANGED <<challengeVars, maps, rateHits, now, signCounts, sessions,
                   produced, answered, uses, admitted>>

\* The envelope is read and returned: nothing changes.
recoverEnvelope(c) ==
    /\ At(c, "recover")
    /\ Return(c)
    /\ UNCHANGED <<challengeVars, envelopes, maps, rateHits, now, signCounts, sessions, history>>

-----------------------------------------------------------------------------
(* PutMap. *)

PutMap(c, v, payload, id, n) ==
    /\ Begin(c, "auth", "map-write", v, payload, id, n)
    /\ UNCHANGED <<challengeVars, envelopes, maps, rateHits, now, signCounts, sessions, history>>

storeMap(c) ==
    /\ At(c, "map")
    /\ PutVaultMap(calls[c].vault, calls[c].subject)
    /\ Return(c)
    /\ UNCHANGED <<challengeVars, envelopes, rateHits, now, signCounts, sessions, history>>

-----------------------------------------------------------------------------
(* SignTransition. *)

\* The rate limit counts a transition before its passkey is checked. Only the
\* phone path carries an assertion.
SignTransition(c, t, id, n) ==
    LET v == VaultOf[KeyOf[t]]
    IN  /\ calls[c] = Idle
        /\ allowTransition(v, Len(admitted[v]) + 1)
        /\ IF rateAllows(v)
           THEN /\ admitted' = [admitted EXCEPT ![v] = Append(@, now)]
                /\ IF t \in PhonePath
                   THEN Begin(c, "auth", "transition", v, t, id, n)
                   ELSE Begin(c, "apply", "transition", v, t, None, 0)
           ELSE UNCHANGED <<admitted, calls>>
        /\ UNCHANGED <<challengeVars, envelopes, maps, now, signCounts, sessions,
                       produced, answered, uses, installed>>

ApplyReplay(k, t, sig) ==
    sessions' = [sessions EXCEPT ![k] = ApplyRecoveryReplay(sessions[k], DestOf[t], t, sig)]

writeAhead(c) ==
    /\ At(c, "apply")
    /\ LET t == calls[c].subject
           k == KeyOf[t]
           action == DecideReplay(sessions[k], DestOf[t], t)
       IN  /\ ApplyReplay(k, t, None)
           /\ CASE action = "refuse" -> Return(c)
                [] action = "replay" ->
                     calls' = [calls EXCEPT ![c].pc = "replay", ![c].stored = sessions[k]]
                [] OTHER -> Goto(c, "sign")
    /\ UNCHANGED <<challengeVars, envelopes, maps, rateHits, now, signCounts, history>>

\* The stored signature is returned if it is over the submitted transaction.
replayStored(c) ==
    /\ At(c, "replay")
    /\ answered' = IF calls[c].stored.sig = calls[c].subject
                   THEN answered \cup {calls[c].subject} ELSE answered
    /\ Return(c)
    /\ UNCHANGED <<challengeVars, envelopes, maps, rateHits, now, signCounts, sessions,
                   produced, uses, installed, admitted>>

\* VaultCosigner and ArkadeCosigner sign; no lock is held.
cosign(c) ==
    /\ At(c, "sign")
    /\ produced' = produced \cup {calls[c].subject}
    /\ Goto(c, "record")
    /\ UNCHANGED <<challengeVars, envelopes, maps, rateHits, now, signCounts, sessions,
                   answered, uses, installed, admitted>>

recordSignature(c) ==
    /\ At(c, "record")
    /\ LET t == calls[c].subject
           k == KeyOf[t]
       IN  /\ ApplyReplay(k, t, t)
           /\ answered' = IF DecideReplay(sessions[k], DestOf[t], t) = "refuse"
                          THEN answered ELSE answered \cup {t}
    /\ Return(c)
    /\ UNCHANGED <<challengeVars, envelopes, maps, rateHits, now, signCounts,
                   produced, uses, installed, admitted>>

-----------------------------------------------------------------------------
\* A check refuses the call, a dependency errs or the client goes away.
Fail(c) ==
    /\ calls[c] # Idle
    /\ Return(c)
    /\ UNCHANGED <<challengeVars, envelopes, maps, rateHits, now, signCounts, sessions, history>>

\* The process stops: challenges, rate hits and calls are in memory only.
Restart ==
    /\ challenges' = {}
    /\ rateHits' = [v \in Vaults |-> {}]
    /\ admitted' = [v \in Vaults |-> <<>>]
    /\ calls' = [c \in Calls |-> Idle]
    /\ UNCHANGED <<issued, envelopes, maps, now, signCounts, sessions,
                   produced, answered, uses, installed>>

Tick ==
    /\ now < MaxTime
    /\ now' = now + 1
    /\ UNCHANGED <<challengeVars, envelopes, maps, rateHits, signCounts, sessions, calls, history>>

Next ==
    \/ \E v \in Vaults, p \in Purposes, id \in ChallengeIds : IssuePasskeyChallengeFor(v, p, id)
    \/ \E c \in Calls, id \in ChallengeIds, n \in Counts :
          \/ \E v \in Vaults, e \in Envelopes : InstallCredentialEnvelope(c, v, e, id, n)
          \/ \E v \in Vaults : RecoverCredentialEnvelope(c, v, id, n)
          \/ \E v \in Vaults, payload \in Payloads : PutMap(c, v, payload, id, n)
          \/ \E t \in Txs : SignTransition(c, t, id, n)
    \/ \E c \in Calls :
          \/ consumeChallenge(c) \/ advanceCounter(c)
          \/ loadEnvelope(c) \/ storeEnvelope(c) \/ recoverEnvelope(c)
          \/ storeMap(c)
          \/ writeAhead(c) \/ replayStored(c) \/ cosign(c) \/ recordSignature(c)
          \/ Fail(c)
    \/ Restart
    \/ Tick

Spec == Init /\ [][Next]_vars

-----------------------------------------------------------------------------
(* Properties. *)

\* consumePasskeyChallenge: whatever calls race, a challenge authenticates one
\* call only, of the vault and for the purpose it was issued for.
ChallengeUsedOnce ==
    /\ \A a, b \in uses : a.id = b.id => a = b
    /\ \A a \in uses : [id |-> a.id, vault |-> a.vault, purpose |-> a.purpose] \in issued

\* advanceSignCountLocked: two sessions of one vault never pass with the same
\* positive counter, although each consumed a challenge of its own.
CounterUsedOnce ==
    \A a, b \in uses : a.vault = b.vault /\ a.count = b.count /\ a.count > 0 => a = b

\* StoreVaultEnvelopeIfAbsent: an envelope whose installation was acknowledged
\* is the stored one ever after, also when two installations race past the
\* handler's unlocked read.
InstalledKept == \A i \in installed : envelopes[i[1]] = i[2]

\* DecideReplay: the cosigners sign an outpoint towards the destination of its
\* session only, so towards one destination, whatever races or restarts.
OneDestPerOutpoint ==
    \A t \in produced : sessions[KeyOf[t]].dest = DestOf[t]

\* ErrRecoveryBusy: until a signature is recorded, the only transition of the
\* outpoint that can have been signed is the one written ahead.
WriteAheadHeld ==
    \A t \in produced : sessions[KeyOf[t]].sig = None => sessions[KeyOf[t]].sighash = t

\* allowTransition: any window of a minute admits at most the limit, within one
\* run of the process.
RateKept ==
    \A v \in Vaults : \A i \in 1..(Len(admitted[v]) - MaxTransitions) :
        admitted[v][i + MaxTransitions] - admitted[v][i] >= RateWindow

\* ErrRecoveryBusy and the retries of transition_auth_test.go: an identical retry
\* of a signed transition is served with the signature over that transition.
IdenticalRetryServed ==
    \A c \in Calls : At(c, "replay") => calls[c].stored.sig = calls[c].subject
=============================================================================
