------------------------ MODULE SavingsRecoveryProofs ------------------------
(***************************************************************************)
(* Passkey sessions and Savings recovery for any number of vaults, calls,  *)
(* challenges and transitions, whatever they race and whenever the process *)
(* restarts. On top of the shapes of the state there are five inductive    *)
(* invariants: who holds a challenge, what the counters have seen, which   *)
(* envelope is stored, what a session row says of a transition that is     *)
(* being signed, and which admissions the rate limiter remembers. The last *)
(* part is about the coin itself: for every choice of the delays, amounts  *)
(* and fees, one key in other hands never takes it, and transitions cost   *)
(* at most two anchors and two fee ceilings.                               *)
(***************************************************************************)
EXTENDS SavingsRecovery, VaultCustody, FiniteSetTheorems, TLAPS

Challenge == [id : ChallengeIds, vault : Vaults, purpose : Purposes]

Row == [dest : {None} \cup {DestOf[t] : t \in Txs}, sighash : Txs \cup {None},
        sig : Txs \cup {None}]

Subjects(purpose) ==
    IF purpose = "transition" THEN Txs
    ELSE IF purpose = "install-envelope" THEN Envelopes
    ELSE IF purpose = "map-write" THEN Payloads ELSE {None}

Pcs(purpose) ==
    {"auth", "counter"} \cup
    IF purpose = "transition" THEN {"apply", "replay", "sign", "record"}
    ELSE IF purpose = "install-envelope" THEN {"install", "store"}
    ELSE IF purpose = "map-write" THEN {"map"} ELSE {"recover"}

\* A call runs through the steps of its purpose, about a subject of that purpose.
Call == UNION {[pc : Pcs(p), purpose : {p}, vault : Vaults, subject : Subjects(p),
                id : ChallengeIds \cup {None}, count : Nat, stored : Row] : p \in Purposes}

\* Every row, challenge, call and record of the history has its shape.
TypeOK ==
    /\ challenges \subseteq [id : ChallengeIds, vault : Vaults, purpose : Purposes,
                             expires : Nat]
    /\ issued \subseteq Challenge
    /\ envelopes \in [Vaults -> Envelopes \cup {None}]
    /\ now \in Nat
    /\ signCounts \in [Vaults -> Nat \cup {NoCount}]
    /\ sessions \in [Outpoints -> Row]
    /\ calls \in [Calls -> Call \cup {Idle}]
    /\ produced \subseteq Txs
    /\ uses \subseteq [id : ChallengeIds \cup {None}, call : Calls, vault : Vaults,
                       purpose : Purposes, count : Nat]
    /\ installed \subseteq Vaults \X Envelopes

-----------------------------------------------------------------------------
(* Shapes. *)

\* What a CASE over the purpose continues with.
LEMMA Continues ==
    /\ continuation("transition") = "apply"
    /\ continuation("install-envelope") = "install"
    /\ continuation("map-write") = "map"
    /\ continuation("recover") = "recover"
BY Zenon DEF continuation

\* A call is described by its fields.
LEMMA CallFields ==
    ASSUME NEW k
    PROVE  k \in Call <=>
             /\ k = [pc |-> k.pc, purpose |-> k.purpose, vault |-> k.vault,
                     subject |-> k.subject, id |-> k.id, count |-> k.count, stored |-> k.stored]
             /\ k.purpose \in Purposes /\ k.pc \in Pcs(k.purpose)
             /\ k.vault \in Vaults /\ k.subject \in Subjects(k.purpose)
             /\ k.id \in ChallengeIds \cup {None} /\ k.count \in Nat /\ k.stored \in Row
BY DEF Call

\* A call that moves on keeps everything but its pc.
LEMMA GotoCall ==
    ASSUME TypeOK, NEW c \in Calls, calls[c] # Idle, NEW pc \in Pcs(calls[c].purpose), Goto(c, pc)
    PROVE  /\ calls' \in [Calls -> Call \cup {Idle}]
           /\ \A d \in Calls \ {c} : calls'[d] = calls[d]
           /\ calls'[c].pc = pc
           /\ calls'[c].purpose = calls[c].purpose /\ calls'[c].vault = calls[c].vault
           /\ calls'[c].subject = calls[c].subject /\ calls'[c].id = calls[c].id
           /\ calls'[c].count = calls[c].count
<1>1. calls[c] \in Call
  BY DEF TypeOK
<1>2. calls'[c] = [calls[c] EXCEPT !.pc = pc] /\ \A d \in Calls \ {c} : calls'[d] = calls[d]
  BY DEF Goto, TypeOK
<1>3. /\ calls'[c] = [pc |-> pc, purpose |-> calls[c].purpose, vault |-> calls[c].vault,
                      subject |-> calls[c].subject, id |-> calls[c].id,
                      count |-> calls[c].count, stored |-> calls[c].stored]
  BY <1>1, <1>2, CallFields
<1>4. calls'[c] \in Call
  BY <1>1, <1>3, CallFields
<1> QED
  BY <1>2, <1>3, <1>4 DEF Goto, TypeOK

\* A call that begins, and one that ends.
LEMMA BeginCall ==
    ASSUME TypeOK, NEW c \in Calls, NEW purpose \in Purposes, NEW pc \in Pcs(purpose),
           NEW v \in Vaults, NEW subject \in Subjects(purpose),
           NEW id \in ChallengeIds \cup {None}, NEW n \in Nat,
           Begin(c, pc, purpose, v, subject, id, n)
    PROVE  /\ calls' \in [Calls -> Call \cup {Idle}]
           /\ \A d \in Calls \ {c} : calls'[d] = calls[d]
           /\ calls'[c].pc = pc
<1> DEFINE k == [pc |-> pc, purpose |-> purpose, vault |-> v, subject |-> subject,
                 id |-> id, count |-> n, stored |-> NoSession]
<1>1. k \in Call
  <2>1. NoSession \in Row
    BY DEF NoSession, Row
  <2> QED
    BY <2>1, CallFields
<1>2. calls' = [calls EXCEPT ![c] = k]
  BY DEF Begin
<1> QED
  BY <1>1, <1>2 DEF TypeOK

\* A call that ends leaves the others as they are.
LEMMA ReturnCall ==
    ASSUME TypeOK, NEW c \in Calls, Return(c)
    PROVE  /\ calls' \in [Calls -> Call \cup {Idle}]
           /\ \A d \in Calls \ {c} : calls'[d] = calls[d]
           /\ calls'[c] = Idle /\ calls'[c].pc = "idle"
BY DEF TypeOK, Return, Idle

\* A call at a step of one purpose has that purpose, and a subject of it.
LEMMA CallAt ==
    ASSUME TypeOK, NEW c \in Calls, calls[c].pc # "idle"
    PROVE  /\ calls[c] # Idle /\ calls[c] \in Call
           /\ calls[c].purpose \in Purposes /\ calls[c].vault \in Vaults
           /\ calls[c].id \in ChallengeIds \cup {None} /\ calls[c].count \in Nat
           /\ calls[c].pc \in {"apply", "replay", "sign", "record"} =>
                  calls[c].purpose = "transition" /\ calls[c].subject \in Txs
           /\ calls[c].pc \in {"install", "store"} =>
                  calls[c].purpose = "install-envelope" /\ calls[c].subject \in Envelopes
<1>1. calls[c] # Idle /\ calls[c] \in Call
  BY DEF TypeOK, Idle
<1> QED
  BY <1>1, CallFields DEF Pcs, Subjects, Purposes

\* The three outcomes of the write-ahead, read off DecideReplay.
LEMMA WriteAheadCases ==
    ASSUME TypeOK, NEW c \in Calls, writeAhead(c),
           NEW t, t = calls[c].subject, NEW k, k = KeyOf[t]
    PROVE  /\ t \in Txs /\ k \in Outpoints
           /\ \/ sessions' = sessions /\ Return(c)
              \/ /\ sessions' = sessions
                 /\ calls' = [calls EXCEPT ![c].pc = "replay", ![c].stored = sessions[k]]
              \/ /\ DecideReplay(sessions[k], DestOf[t], t) \in {"sign", "resign"}
                 /\ sessions' = [sessions EXCEPT ![k] = [dest |-> DestOf[t], sighash |-> t,
                                                        sig |-> sessions[k].sig]]
                 /\ Goto(c, "sign")
<1> DEFINE action == DecideReplay(sessions[k], DestOf[t], t)
<1>1. t \in Txs /\ k \in Outpoints
  BY CallAt, RecoveryConstants DEF writeAhead, At
<1>2. action \in {"sign", "refuse", "replay", "resign"}
  BY DEF DecideReplay
<1>3. sessions' = [sessions EXCEPT ![k] = ApplyRecoveryReplay(sessions[k], DestOf[t], t, None)]
  BY DEF writeAhead, ApplyReplay
<1>4. action \in {"refuse", "replay"} => sessions' = sessions
  <2>1. action \in {"refuse", "replay"} =>
            ApplyRecoveryReplay(sessions[k], DestOf[t], t, None) = sessions[k]
    BY DEF ApplyRecoveryReplay
  <2> QED
    BY <1>1, <1>3, <2>1, Zenon DEF TypeOK
<1>5. action \in {"sign", "resign"} =>
          sessions' = [sessions EXCEPT ![k] = [dest |-> DestOf[t], sighash |-> t,
                                             sig |-> sessions[k].sig]]
  BY <1>3 DEF ApplyRecoveryReplay
<1>6. /\ action = "refuse" => Return(c)
      /\ action = "replay" =>
             calls' = [calls EXCEPT ![c].pc = "replay", ![c].stored = sessions[k]]
      /\ action \in {"sign", "resign"} => Goto(c, "sign")
  BY Zenon DEF writeAhead
<1> QED
  BY <1>1, <1>2, <1>4, <1>5, <1>6, Zenon

\* Recording a signature changes the row only to the transition's own.
LEMMA RecordCases ==
    ASSUME TypeOK, NEW c \in Calls, recordSignature(c),
           NEW t, t = calls[c].subject, NEW k, k = KeyOf[t]
    PROVE  /\ t \in Txs /\ k \in Outpoints
           /\ \/ sessions' = sessions
              \/ /\ DecideReplay(sessions[k], DestOf[t], t) \in {"sign", "resign"}
                 /\ sessions' = [sessions EXCEPT ![k] = [dest |-> DestOf[t], sighash |-> t,
                                                        sig |-> t]]
<1>1. t \in Txs /\ k \in Outpoints
  BY CallAt, RecoveryConstants DEF recordSignature, At
<1>2. sessions' = [sessions EXCEPT ![k] = ApplyRecoveryReplay(sessions[k], DestOf[t], t, t)]
  BY Zenon DEF recordSignature, ApplyReplay
<1>3. CASE DecideReplay(sessions[k], DestOf[t], t) \in {"sign", "resign"}
  BY <1>1, <1>2, <1>3, RecoveryConstants, Zenon DEF ApplyRecoveryReplay
<1>4. CASE DecideReplay(sessions[k], DestOf[t], t) \notin {"sign", "resign"}
  <2>1. ApplyRecoveryReplay(sessions[k], DestOf[t], t, t) = sessions[k]
    BY <1>4 DEF ApplyRecoveryReplay
  <2> QED
    BY <1>1, <1>2, <2>1, Zenon DEF TypeOK
<1> QED
  BY <1>1, <1>3, <1>4, Zenon

\* The initial state has the shapes.
LEMMA TypeInit == Init => TypeOK
BY DEF Init, TypeOK, NoSession, Row, NoCount, Idle

\* The steps in which calls begin.
CallBegins(c, id, n) ==
    \/ \E v \in Vaults, e \in Envelopes : InstallCredentialEnvelope(c, v, e, id, n)
    \/ \E v \in Vaults : RecoverCredentialEnvelope(c, v, id, n)
    \/ \E v \in Vaults, payload \in Payloads : PutMap(c, v, payload, id, n)
    \/ \E t \in Txs : SignTransition(c, t, id, n)

\* A call that begins touches no row, no challenge and no other call; it does not
\* begin behind its authentication, unless it needs none.
LEMMA Begins ==
    ASSUME TypeOK, NEW c \in Calls, NEW id \in ChallengeIds, NEW n \in Counts,
           CallBegins(c, id, n)
    PROVE  /\ calls' \in [Calls -> Call \cup {Idle}]
           /\ \A d \in Calls \ {c} : calls'[d] = calls[d]
           /\ calls'[c] = calls[c] \/ calls'[c].pc \in {"auth", "apply"}
           /\ UNCHANGED <<challenges, issued, envelopes, now, signCounts, sessions,
                          produced, uses, installed>>
<1>0. n \in Nat /\ 0 \in Nat /\ None \in ChallengeIds \cup {None}
  BY RecoveryConstants
<1>1. CASE \E v \in Vaults, e \in Envelopes : InstallCredentialEnvelope(c, v, e, id, n)
  <2> PICK v \in Vaults, e \in Envelopes : InstallCredentialEnvelope(c, v, e, id, n)
    BY <1>1
  <2>1. "install-envelope" \in Purposes /\ "auth" \in Pcs("install-envelope")
                                        /\ e \in Subjects("install-envelope")
    BY DEF Purposes, Pcs, Subjects
  <2> QED
    BY <1>0, <2>1, BeginCall DEF InstallCredentialEnvelope, challengeVars, history
<1>2. CASE \E v \in Vaults : RecoverCredentialEnvelope(c, v, id, n)
  <2> PICK v \in Vaults : RecoverCredentialEnvelope(c, v, id, n)
    BY <1>2
  <2>1. "recover" \in Purposes /\ "auth" \in Pcs("recover") /\ None \in Subjects("recover")
    BY DEF Purposes, Pcs, Subjects
  <2> QED
    BY <1>0, <2>1, BeginCall DEF RecoverCredentialEnvelope, challengeVars, history
<1>3. CASE \E v \in Vaults, payload \in Payloads : PutMap(c, v, payload, id, n)
  <2> PICK v \in Vaults, payload \in Payloads : PutMap(c, v, payload, id, n)
    BY <1>3
  <2>1. "map-write" \in Purposes /\ "auth" \in Pcs("map-write")
                                 /\ payload \in Subjects("map-write")
    BY DEF Purposes, Pcs, Subjects
  <2> QED
    BY <1>0, <2>1, BeginCall DEF PutMap, challengeVars, history
<1>4. CASE \E t \in Txs : SignTransition(c, t, id, n)
  <2> PICK t \in Txs : SignTransition(c, t, id, n)
    BY <1>4
  <2> DEFINE v == VaultOf[KeyOf[t]]
  <2>1. v \in Vaults
    BY RecoveryConstants
  <2>2. "transition" \in Purposes /\ t \in Subjects("transition")
           /\ "auth" \in Pcs("transition") /\ "apply" \in Pcs("transition")
    BY Zenon DEF Purposes, Pcs, Subjects
  <2>3. \/ Begin(c, "auth", "transition", v, t, id, n)
        \/ Begin(c, "apply", "transition", v, t, None, 0)
        \/ calls' = calls
    BY Zenon DEF SignTransition
  <2>4. UNCHANGED <<challenges, issued, envelopes, now, signCounts, sessions,
                    produced, uses, installed>>
    BY DEF SignTransition, challengeVars
  <2> HIDE DEF v
  <2>5. CASE calls' = calls
    BY <2>4, <2>5 DEF TypeOK
  <2> QED
    BY <1>0, <2>1, <2>2, <2>3, <2>4, <2>5, BeginCall, Zenon
<1> QED
  BY <1>1, <1>2, <1>3, <1>4 DEF CallBegins

\* A step keeps the shapes: one case per action.
LEMMA TypeStep == TypeOK /\ [Next]_vars => TypeOK'
<1> SUFFICES ASSUME TypeOK, [Next]_vars PROVE TypeOK'
  OBVIOUS
<1>1. ASSUME NEW v \in Vaults, NEW p \in Purposes, NEW id \in ChallengeIds,
             IssuePasskeyChallengeFor(v, p, id)
      PROVE  TypeOK'
  BY <1>1, SessionConstants
     DEF IssuePasskeyChallengeFor, issuePasskeyChallenge, issueBusy, history, TypeOK, Challenge
<1>2. ASSUME NEW c \in Calls, NEW id \in ChallengeIds, NEW n \in Counts, CallBegins(c, id, n)
      PROVE  TypeOK'
  BY <1>2, Begins DEF TypeOK
<1>3. ASSUME NEW c \in Calls, consumeChallenge(c) PROVE TypeOK'
  <2>1. calls[c] # Idle /\ "counter" \in Pcs(calls[c].purpose)
    BY <1>3, CallAt, Zenon DEF consumeChallenge, At, Pcs
  <2>2. calls' \in [Calls -> Call \cup {Idle}]
    BY <1>3, <2>1, GotoCall, ReturnCall, Zenon DEF consumeChallenge
  <2>3. challenges' \subseteq challenges
    BY <1>3, Zenon DEF consumeChallenge, consumePasskeyChallenge, dropExpiredChallenge
  <2> QED
    BY <1>3, <2>2, <2>3 DEF consumeChallenge, history, TypeOK
<1>4. ASSUME NEW c \in Calls, advanceCounter(c) PROVE TypeOK'
  <2>1. /\ calls[c] # Idle /\ calls[c].purpose \in Purposes /\ calls[c].vault \in Vaults
        /\ calls[c].id \in ChallengeIds \cup {None} /\ calls[c].count \in Nat
    BY <1>4, CallAt DEF advanceCounter, At
  <2>2. continuation(calls[c].purpose) \in Pcs(calls[c].purpose)
    BY <2>1, Continues, Zenon DEF Pcs, Purposes
  <2>3. calls' \in [Calls -> Call \cup {Idle}]
    BY <1>4, <2>1, <2>2, GotoCall, Zenon DEF advanceCounter
  <2> QED
    BY <1>4, <2>1, <2>3 DEF advanceCounter, advanceSignCount, challengeVars, TypeOK
<1>5. ASSUME NEW c \in Calls, loadEnvelope(c) PROVE TypeOK'
  <2>1. /\ calls[c] # Idle /\ calls[c].vault \in Vaults /\ calls[c].subject \in Envelopes
        /\ "store" \in Pcs(calls[c].purpose)
    BY <1>5, CallAt, Zenon DEF loadEnvelope, At, Pcs
  <2>2. calls' \in [Calls -> Call \cup {Idle}]
    BY <1>5, <2>1, GotoCall, ReturnCall, Zenon DEF loadEnvelope
  <2> QED
    BY <1>5, <2>1, <2>2 DEF loadEnvelope, challengeVars, TypeOK
<1>6. ASSUME NEW c \in Calls, storeEnvelope(c) PROVE TypeOK'
  <2>1. calls[c].vault \in Vaults /\ calls[c].subject \in Envelopes
    BY <1>6, CallAt, Zenon DEF storeEnvelope, At
  <2>2. calls' \in [Calls -> Call \cup {Idle}]
    BY <1>6, ReturnCall, Zenon DEF storeEnvelope
  <2> QED
    BY <1>6, <2>1, <2>2 DEF storeEnvelope, StoreVaultEnvelopeIfAbsent, challengeVars, TypeOK
<1>7. ASSUME NEW c \in Calls, recoverEnvelope(c) \/ storeMap(c) \/ replayStored(c) \/ Fail(c)
      PROVE  TypeOK'
  <2>1. calls' \in [Calls -> Call \cup {Idle}]
    BY <1>7, ReturnCall DEF recoverEnvelope, storeMap, replayStored, Fail
  <2> QED
    BY <1>7, <2>1, Zenon
       DEF recoverEnvelope, storeMap, replayStored, Fail, challengeVars, history, TypeOK
<1>8. ASSUME NEW c \in Calls, writeAhead(c) PROVE TypeOK'
  <2> DEFINE t == calls[c].subject
             k == KeyOf[t]
  <2>1. calls[c] # Idle /\ calls[c] \in Call /\ calls[c].purpose = "transition"
    BY <1>8, CallAt, Zenon DEF writeAhead, At
  <2>2. "sign" \in Pcs(calls[c].purpose) /\ "replay" \in Pcs(calls[c].purpose)
    BY <2>1 DEF Pcs
  <2>3. /\ t \in Txs /\ k \in Outpoints
        /\ \/ sessions' = sessions /\ Return(c)
           \/ /\ sessions' = sessions
              /\ calls' = [calls EXCEPT ![c].pc = "replay", ![c].stored = sessions[k]]
           \/ /\ sessions' = [sessions EXCEPT ![k] = [dest |-> DestOf[t], sighash |-> t,
                                                     sig |-> sessions[k].sig]]
              /\ Goto(c, "sign")
    BY <1>8, WriteAheadCases
  <2>4. sessions' \in [Outpoints -> Row]
    <3>1. sessions[k] \in Row
      BY <2>3, Zenon DEF TypeOK
    <3>2. [dest |-> DestOf[t], sighash |-> t, sig |-> sessions[k].sig] \in Row
      BY <2>3, <3>1, Zenon DEF Row
    <3> QED
      BY <2>3, <3>2 DEF TypeOK
  <2>5. calls' \in [Calls -> Call \cup {Idle}]
    <3>1. CASE calls' = [calls EXCEPT ![c].pc = "replay", ![c].stored = sessions[k]]
      <4>1. sessions[k] \in Row
        BY <2>3 DEF TypeOK
      <4>2. [calls[c] EXCEPT !.pc = "replay", !.stored = sessions[k]] \in Call
        <5> DEFINE a == calls[c]
                   b == [a EXCEPT !.pc = "replay", !.stored = sessions[k]]
        <5>1. a = [pc |-> a.pc, purpose |-> a.purpose, vault |-> a.vault,
                   subject |-> a.subject, id |-> a.id, count |-> a.count, stored |-> a.stored]
          BY <2>1, CallFields
        <5> HIDE DEF a, k
        <5> DEFINE m == [a EXCEPT !.pc = "replay"]
        <5>2. m = [pc |-> "replay", purpose |-> a.purpose, vault |-> a.vault,
                   subject |-> a.subject, id |-> a.id, count |-> a.count, stored |-> a.stored]
          BY <5>1
        <5>3. b = [m EXCEPT !.stored = sessions[k]]
          BY <5>1
        <5> HIDE DEF m, b
        <5>4. b = [pc |-> "replay", purpose |-> a.purpose, vault |-> a.vault,
                   subject |-> a.subject, id |-> a.id, count |-> a.count,
                   stored |-> sessions[k]]
          BY <5>2, <5>3
        <5>5. /\ a.purpose \in Purposes /\ "replay" \in Pcs(a.purpose)
              /\ a.vault \in Vaults /\ a.subject \in Subjects(a.purpose)
              /\ a.id \in ChallengeIds \cup {None} /\ a.count \in Nat
          BY <2>1, <2>2, CallFields DEF a
        <5>6. b \in Call
          BY <4>1, <5>4, <5>5, CallFields, Zenon
        <5> QED
          BY <5>6 DEF b, a
      <4> QED
        BY <3>1, <4>2 DEF TypeOK
    <3> QED
      BY <2>1, <2>2, <2>3, <3>1, GotoCall, ReturnCall, Zenon
  <2> QED
    BY <1>8, <2>4, <2>5, Zenon DEF writeAhead, challengeVars, history, TypeOK
<1>9. ASSUME NEW c \in Calls, cosign(c) PROVE TypeOK'
  <2>1. calls[c] # Idle /\ calls[c].subject \in Txs /\ "record" \in Pcs(calls[c].purpose)
    BY <1>9, CallAt, Zenon DEF cosign, At, Pcs
  <2>2. calls' \in [Calls -> Call \cup {Idle}]
    BY <1>9, <2>1, GotoCall, Zenon DEF cosign
  <2> QED
    BY <1>9, <2>1, <2>2, Zenon DEF cosign, challengeVars, TypeOK
<1>10. ASSUME NEW c \in Calls, recordSignature(c) PROVE TypeOK'
  <2>1. calls' \in [Calls -> Call \cup {Idle}]
    BY <1>10, ReturnCall, Zenon DEF recordSignature
  <2>2. sessions' \in [Outpoints -> Row]
    BY <1>10, RecordCases DEF TypeOK, Row
  <2> QED
    BY <1>10, <2>1, <2>2, Zenon DEF recordSignature, challengeVars, TypeOK
<1>11. CASE Restart \/ Tick \/ UNCHANGED vars
  BY <1>11 DEF Restart, Tick, vars, challengeVars, history, TypeOK
<1> QED
  BY <1>1, <1>2, <1>3, <1>4, <1>5, <1>6, <1>7, <1>8, <1>9, <1>10, <1>11, Zenon DEF Next, CallBegins

-----------------------------------------------------------------------------
(* Challenges. *)

shown(a) == [id |-> a.id, vault |-> a.vault, purpose |-> a.purpose]

\* An id is issued once, and from then on it is in one place at most: in the map,
\* with the one call that took it out, or among the authenticated uses; there its
\* vault and purpose are the ones it was issued for.
ChallengeHeld ==
    /\ \A i, j \in issued : i.id = j.id => i = j
    /\ \A ch \in challenges : shown(ch) \in issued
    /\ \A ch, d \in challenges : ch.id = d.id => ch = d
    /\ \A u \in uses : /\ shown(u) \in issued
                       /\ \A ch \in challenges : ch.id # u.id
                       /\ \A w \in uses : u.id = w.id => u = w
    /\ \A c \in Calls : At(c, "counter") =>
           /\ shown(calls[c]) \in issued
           /\ \A ch \in challenges : ch.id # calls[c].id
           /\ \A u \in uses : u.id # calls[c].id
           /\ \A d \in Calls \ {c} : At(d, "counter") => calls[d].id # calls[c].id

\* Calls that do not reach the counter, while challenges only disappear.
LEMMA ChallengeKept ==
    ASSUME ChallengeHeld, challenges' \subseteq challenges, UNCHANGED <<issued, uses>>,
           \A d \in Calls : calls'[d] = calls[d] \/ calls'[d].pc # "counter"
    PROVE  ChallengeHeld'
BY DEF ChallengeHeld, At, shown

\* consumePasskeyChallenge takes the challenge away under the lock, so only the call
\* that took it can use it, whatever runs in between.
LEMMA ChallengeStep == TypeOK /\ ChallengeHeld /\ [Next]_vars => ChallengeHeld'
<1> SUFFICES ASSUME TypeOK, ChallengeHeld, [Next]_vars PROVE ChallengeHeld'
  OBVIOUS
<1>1. ASSUME NEW v \in Vaults, NEW p \in Purposes, NEW id \in ChallengeIds,
             IssuePasskeyChallengeFor(v, p, id)
      PROVE  ChallengeHeld'
  <2>1. calls' = calls /\ uses' = uses
    BY <1>1 DEF IssuePasskeyChallengeFor, history
  <2>2. CASE issueBusy(v, p)
    BY <2>1, <2>2, ChallengeKept, Zenon DEF issueBusy
  <2>3. CASE issuePasskeyChallenge(v, p, id)
    <3> DEFINE new == [id |-> id, vault |-> v, purpose |-> p, expires |-> now + ChallengeTTL]
    <3>1. /\ challenges' \subseteq challenges \cup {new}
          /\ issued' = issued \cup {shown(new)}
          /\ \A i \in issued : i.id # id
      BY <2>3 DEF issuePasskeyChallenge, shown
    <3>2. new.id = id /\ shown(new).id = id
      BY Zenon DEF shown
    <3> HIDE DEF new
    <3>3. /\ \A ch \in challenges : ch.id # id
          /\ \A u \in uses : u.id # id
          /\ \A c \in Calls : At(c, "counter") => calls[c].id # id
      <4>1. \A a : shown(a).id = a.id
        BY DEF shown
      <4> QED
        BY <3>1, <4>1 DEF ChallengeHeld
    <3> QED
      BY <2>1, <3>1, <3>2, <3>3, Zenon DEF ChallengeHeld, At
  <2> QED
    BY <1>1, <2>2, <2>3 DEF IssuePasskeyChallengeFor
<1>2. ASSUME NEW c \in Calls, NEW id \in ChallengeIds, NEW n \in Counts, CallBegins(c, id, n)
      PROVE  ChallengeHeld'
  BY <1>2, Begins, ChallengeKept, Zenon
<1>3. ASSUME NEW c \in Calls, consumeChallenge(c) PROVE ChallengeHeld'
  <2>1. issued' = issued /\ uses' = uses
    BY <1>3, Zenon DEF consumeChallenge, history
  <2>2. CASE dropExpiredChallenge(calls[c].vault, calls[c].id) /\ Return(c)
    BY <2>1, <2>2, ReturnCall, ChallengeKept, Zenon DEF dropExpiredChallenge
  <2>3. CASE /\ consumePasskeyChallenge(calls[c].vault, calls[c].id, calls[c].purpose)
             /\ Goto(c, "counter")
    <3>1. PICK ch \in challenges : /\ shown(ch) = shown(calls[c])
                                  /\ ch.id = calls[c].id
                                  /\ challenges' = challenges \ {ch}
      BY <2>3, Zenon DEF consumePasskeyChallenge, pending, shown
    <3>2. calls[c] # Idle /\ "counter" \in Pcs(calls[c].purpose)
      BY <1>3, CallAt, Zenon DEF consumeChallenge, At, Pcs
    <3>3. /\ \A d \in Calls \ {c} : calls'[d] = calls[d]
          /\ calls'[c].id = calls[c].id /\ shown(calls'[c]) = shown(calls[c])
      BY <2>3, <3>2, GotoCall, Zenon DEF shown
    <3> QED
      BY <2>1, <3>1, <3>3 DEF ChallengeHeld, At
  <2> QED
    BY <1>3, <2>2, <2>3 DEF consumeChallenge
<1>4. ASSUME NEW c \in Calls, advanceCounter(c) PROVE ChallengeHeld'
  <2> DEFINE use == [id |-> calls[c].id, call |-> c, vault |-> calls[c].vault,
                     purpose |-> calls[c].purpose, count |-> calls[c].count]
  <2>1. calls[c] # Idle /\ calls[c].purpose \in Purposes
    BY <1>4, CallAt, Zenon DEF advanceCounter, At
  <2>2. /\ continuation(calls[c].purpose) \in Pcs(calls[c].purpose)
        /\ continuation(calls[c].purpose) # "counter"
    BY <2>1, Continues, Zenon DEF Pcs, Purposes
  <2>3. /\ \A d \in Calls \ {c} : calls'[d] = calls[d]
        /\ calls'[c].pc # "counter"
    BY <1>4, <2>1, <2>2, GotoCall, Zenon DEF advanceCounter
  <2>4. uses' = uses \cup {use} /\ issued' = issued /\ challenges' = challenges
    BY <1>4, Zenon DEF advanceCounter, challengeVars
  <2>5. use.id = calls[c].id /\ shown(use) = shown(calls[c])
    BY DEF shown
  <2> HIDE DEF use
  <2> QED
    BY <1>4, <2>3, <2>4, <2>5 DEF advanceCounter, ChallengeHeld, At
<1>5. ASSUME NEW c \in Calls,
             \/ loadEnvelope(c) \/ storeEnvelope(c) \/ recoverEnvelope(c) \/ storeMap(c)
             \/ writeAhead(c) \/ replayStored(c) \/ cosign(c) \/ recordSignature(c) \/ Fail(c)
      PROVE  ChallengeHeld'
  <2>1. UNCHANGED <<challenges, issued, uses>>
    BY <1>5, Zenon DEF loadEnvelope, storeEnvelope, recoverEnvelope, storeMap, writeAhead,
                replayStored, cosign, recordSignature, Fail, challengeVars, history
  <2>2. \A d \in Calls : calls'[d] = calls[d] \/ calls'[d].pc # "counter"
    <3>1. CASE Return(c)
      BY <3>1, ReturnCall, Zenon
    <3>2. CASE loadEnvelope(c) /\ Goto(c, "store")
      BY <3>2, CallAt, GotoCall, Zenon DEF loadEnvelope, At, Pcs
    <3>3. CASE cosign(c)
      BY <3>3, CallAt, GotoCall DEF cosign, At, Pcs
    <3>4. CASE writeAhead(c)
      <4>1. calls[c] # Idle /\ calls[c] \in Call /\ "sign" \in Pcs(calls[c].purpose)
        BY <3>4, CallAt DEF writeAhead, At, Pcs
      <4>2. CASE calls' = [calls EXCEPT ![c].pc = "replay",
                                        ![c].stored = sessions[KeyOf[calls[c].subject]]]
        BY <4>1, <4>2, CallFields DEF TypeOK
      <4> QED
        BY <3>1, <3>4, <4>1, <4>2, WriteAheadCases, GotoCall
    <3> QED
      BY <1>5, <3>1, <3>2, <3>3, <3>4, Zenon
         DEF loadEnvelope, storeEnvelope, recoverEnvelope, storeMap, replayStored,
             recordSignature, Fail
  <2> QED
    BY <2>1, <2>2, ChallengeKept, Zenon
<1>6. CASE Restart
  BY <1>6, ChallengeKept, Zenon DEF Restart, Idle
<1>7. CASE Tick \/ UNCHANGED vars
  BY <1>7, ChallengeKept DEF Tick, vars, challengeVars, history
<1> QED
  BY <1>1, <1>2, <1>3, <1>4, <1>5, <1>6, <1>7, Zenon DEF Next, CallBegins

\* authenticatePasskeySession, for any number of racing calls: a challenge
\* authenticates one call, of its own vault and for its own purpose.
THEOREM ChallengeSafety == Spec => []ChallengeUsedOnce
<1>1. Init => ChallengeHeld
  BY DEF Init, ChallengeHeld, At, Idle
<1>2. ChallengeHeld => ChallengeUsedOnce
  BY Zenon DEF ChallengeHeld, ChallengeUsedOnce, shown
<1> QED
  BY <1>1, <1>2, TypeInit, TypeStep, ChallengeStep, PTL DEF Spec

-----------------------------------------------------------------------------
(* Counters. *)

\* The stored counter of a vault is at least every counter that was used.
CountersSeen ==
    /\ CounterUsedOnce
    /\ \A u \in uses : u.count <= signCounts[u.vault]

\* Only the step that accepts a counter writes the table or the history.
LEMMA CountersElsewhere ==
    ASSUME [Next]_vars, \A c \in Calls : ~ advanceCounter(c)
    PROVE  UNCHANGED <<uses, signCounts>>
BY ZenonT(60) DEF Next, vars, IssuePasskeyChallengeFor, consumeChallenge, InstallCredentialEnvelope,
       RecoverCredentialEnvelope, PutMap, SignTransition, loadEnvelope, storeEnvelope,
       recoverEnvelope, storeMap, writeAhead, replayStored, cosign, recordSignature, Fail,
       Restart, Tick, history

\* advanceSignCountLocked, for any counters an authenticator reports: no positive
\* counter of a vault passes twice.
THEOREM CounterSafety == Spec => []CounterUsedOnce
<1>1. Init => CountersSeen
  BY DEF Init, CountersSeen, CounterUsedOnce
<1>2. TypeOK /\ CountersSeen /\ [Next]_vars => CountersSeen'
  <2> SUFFICES ASSUME TypeOK, CountersSeen, [Next]_vars PROVE CountersSeen'
    OBVIOUS
  <2>1. ASSUME NEW c \in Calls, advanceCounter(c) PROVE CountersSeen'
    <3> DEFINE use == [id |-> calls[c].id, call |-> c, vault |-> calls[c].vault,
                       purpose |-> calls[c].purpose, count |-> calls[c].count]
               v == calls[c].vault
               n == calls[c].count
    <3>1. v \in Vaults /\ n \in Nat
      BY <2>1, CallAt, Zenon DEF advanceCounter, At
    <3>2. uses' = uses \cup {use} /\ use.vault = v /\ use.count = n
      BY <2>1, Zenon DEF advanceCounter
    <3>3. /\ signCounts' = [signCounts EXCEPT ![v] = n]
          /\ n > signCounts[v] \/ (n = 0 /\ signCounts[v] = 0)
      BY <2>1 DEF advanceCounter, advanceSignCount, CanAdvanceSignCount
    <3>4. \A u \in uses : u.vault \in Vaults /\ u.count \in Nat
      BY DEF TypeOK
    <3>5. \A w \in Vaults : signCounts[w] \in Int
      BY DEF TypeOK, NoCount
    <3>6. signCounts'[v] = n /\ \A w \in Vaults \ {v} : signCounts'[w] = signCounts[w]
      BY <3>1, <3>3, Zenon DEF TypeOK
    <3> HIDE DEF use, v, n
    <3> QED
      BY <3>1, <3>2, <3>3, <3>4, <3>5, <3>6 DEF CountersSeen, CounterUsedOnce
  <2>2. CASE UNCHANGED <<uses, signCounts>>
    BY <2>2 DEF CountersSeen, CounterUsedOnce
  <2> QED
    BY <2>1, <2>2, CountersElsewhere
<1>3. CountersSeen => CounterUsedOnce
  BY DEF CountersSeen
<1> QED
  BY <1>1, <1>2, <1>3, TypeInit, TypeStep, PTL DEF Spec

-----------------------------------------------------------------------------
(* Envelopes. *)

\* Only the two steps of an installation write the envelope or acknowledge one.
LEMMA EnvelopesElsewhere ==
    ASSUME [Next]_vars, \A c \in Calls : ~ loadEnvelope(c) /\ ~ storeEnvelope(c)
    PROVE  UNCHANGED <<envelopes, installed>>
BY ZenonT(60) DEF Next, vars, IssuePasskeyChallengeFor, consumeChallenge, advanceCounter,
       InstallCredentialEnvelope, RecoverCredentialEnvelope, PutMap, SignTransition,
       recoverEnvelope, storeMap, writeAhead, replayStored, cosign, recordSignature, Fail,
       Restart, Tick, history

\* StoreVaultEnvelopeIfAbsent, for any number of racing installations: an
\* acknowledged envelope stays the stored one.
THEOREM EnvelopeSafety == Spec => []InstalledKept
<1>1. Init => InstalledKept
  BY DEF Init, InstalledKept
<1>2. TypeOK /\ InstalledKept /\ [Next]_vars => InstalledKept'
  <2> SUFFICES ASSUME TypeOK, InstalledKept, [Next]_vars PROVE InstalledKept'
    OBVIOUS
  <2>1. ASSUME NEW c \in Calls, loadEnvelope(c) PROVE InstalledKept'
    BY <2>1 DEF loadEnvelope, InstalledKept
  <2>2. ASSUME NEW c \in Calls, storeEnvelope(c) PROVE InstalledKept'
    <3> DEFINE v == calls[c].vault
               e == calls[c].subject
    <3>1. v \in Vaults /\ e \in Envelopes
      BY <2>2, CallAt, Zenon DEF storeEnvelope, At
    <3>2. /\ envelopes[v] \in {None, e} /\ envelopes' = [envelopes EXCEPT ![v] = e]
          /\ installed' = installed \cup {<<v, e>>}
      BY <2>2 DEF storeEnvelope, StoreVaultEnvelopeIfAbsent
    <3>3. \A i \in installed : i[1] \in Vaults /\ i[2] \in Envelopes
      BY DEF TypeOK
    <3> HIDE DEF v, e
    <3> QED
      BY <3>1, <3>2, <3>3, SessionConstants DEF InstalledKept, TypeOK
  <2>3. CASE UNCHANGED <<envelopes, installed>>
    BY <2>3, Zenon DEF InstalledKept
  <2> QED
    BY <2>1, <2>2, <2>3, EnvelopesElsewhere
<1> QED
  BY <1>1, <1>2, TypeInit, TypeStep, PTL DEF Spec

-----------------------------------------------------------------------------
(* Sessions. *)

\* Transitions that are signed, or that a call is entitled to sign.
Signing == produced \cup {calls[c].subject : c \in {d \in Calls : calls[d].pc \in {"sign", "record"}}}

\* The row of a transition that is or may be signed was written ahead for its
\* destination and, as long as it has no signature, for that very transition.
\* The restriction to calls alone would not survive the end of a call, the one to
\* produced signatures would not survive the next signature.
heldFor(row, t) ==
    /\ row.sighash \in Txs
    /\ row.dest = DestOf[t]
    /\ row.sig = None => row.sighash = t

SessionsHeld == \A t \in Signing : heldFor(sessions[KeyOf[t]], t)

\* A row that DecideReplay lets t overwrite is held for t afterwards, and for
\* every transition it was held for already.
LEMMA HeldOver ==
    ASSUME NEW row \in Row, NEW t \in Txs, NEW sig \in {row.sig, t},
           DecideReplay(row, DestOf[t], t) \in {"sign", "resign"},
           NEW new, new = [dest |-> DestOf[t], sighash |-> t, sig |-> sig]
    PROVE  /\ heldFor(new, t)
           /\ \A x \in Txs : heldFor(row, x) => heldFor(new, x)
BY RecoveryConstants DEF DecideReplay, heldFor, NoSession, Row

\* A step that produces nothing and takes no call to its signature leaves the
\* transitions that may be signed as they are, or fewer.
LEMMA SigningKept ==
    ASSUME produced' = produced,
           \A d \in Calls : calls'[d] = calls[d] \/ calls'[d].pc \notin {"sign", "record"}
    PROVE  Signing' \subseteq Signing
BY Zenon DEF Signing

\* Steps outside SignTransition only end calls that may sign.
LEMMA SigningElsewhere ==
    ASSUME TypeOK, [Next]_vars,
           \A c \in Calls : ~ writeAhead(c) /\ ~ cosign(c) /\ ~ recordSignature(c)
    PROVE  sessions' = sessions /\ Signing' \subseteq Signing
<1> USE DEF history
<1>1. ASSUME NEW v \in Vaults, NEW p \in Purposes, NEW id \in ChallengeIds,
             IssuePasskeyChallengeFor(v, p, id)
      PROVE  sessions' = sessions /\ Signing' \subseteq Signing
  BY <1>1, SigningKept DEF IssuePasskeyChallengeFor
<1>2. ASSUME NEW c \in Calls, NEW id \in ChallengeIds, NEW n \in Counts, CallBegins(c, id, n)
      PROVE  sessions' = sessions /\ Signing' \subseteq Signing
  BY <1>2, Begins, SigningKept, Zenon
<1>3. ASSUME NEW c \in Calls, consumeChallenge(c)
      PROVE  sessions' = sessions /\ Signing' \subseteq Signing
  <2>1. calls[c] # Idle /\ "counter" \in Pcs(calls[c].purpose)
    BY <1>3, CallAt, Zenon DEF consumeChallenge, At, Pcs
  <2>2. \A d \in Calls : calls'[d] = calls[d] \/ calls'[d].pc \notin {"sign", "record"}
    BY <1>3, <2>1, GotoCall, ReturnCall, Zenon DEF consumeChallenge
  <2> QED
    BY <1>3, <2>2, SigningKept, Zenon DEF consumeChallenge
<1>4. ASSUME NEW c \in Calls, advanceCounter(c)
      PROVE  sessions' = sessions /\ Signing' \subseteq Signing
  <2>1. calls[c] # Idle /\ calls[c].purpose \in Purposes
    BY <1>4, CallAt, Zenon DEF advanceCounter, At
  <2>2. /\ continuation(calls[c].purpose) \in Pcs(calls[c].purpose)
        /\ continuation(calls[c].purpose) \notin {"sign", "record"}
    BY <2>1, Continues, Zenon DEF Pcs, Purposes
  <2>3. \A d \in Calls : calls'[d] = calls[d] \/ calls'[d].pc \notin {"sign", "record"}
    BY <1>4, <2>1, <2>2, GotoCall, Zenon DEF advanceCounter
  <2> QED
    BY <1>4, <2>3, SigningKept, Zenon DEF advanceCounter
<1>5. ASSUME NEW c \in Calls, loadEnvelope(c)
      PROVE  sessions' = sessions /\ Signing' \subseteq Signing
  <2>1. calls[c] # Idle /\ "store" \in Pcs(calls[c].purpose)
    BY <1>5, CallAt, Zenon DEF loadEnvelope, At, Pcs
  <2>2. \A d \in Calls : calls'[d] = calls[d] \/ calls'[d].pc \notin {"sign", "record"}
    BY <1>5, <2>1, GotoCall, ReturnCall, Zenon DEF loadEnvelope
  <2> QED
    BY <1>5, <2>2, SigningKept, Zenon DEF loadEnvelope
<1>6. ASSUME NEW c \in Calls,
             \/ storeEnvelope(c) \/ recoverEnvelope(c) \/ storeMap(c) \/ replayStored(c)
             \/ Fail(c)
      PROVE  sessions' = sessions /\ Signing' \subseteq Signing
  BY <1>6, ReturnCall, SigningKept, Zenon
     DEF storeEnvelope, recoverEnvelope, storeMap, replayStored, Fail
<1>7. CASE Restart \/ Tick \/ UNCHANGED vars
  BY <1>7, SigningKept DEF Restart, Tick, vars, Idle
<1> QED
  BY <1>1, <1>2, <1>3, <1>4, <1>5, <1>6, <1>7, Zenon DEF Next, CallBegins

\* Of all steps only writeAhead, cosign and recordSignature change what the rows say
\* of a transition that is being signed.
LEMMA SessionsStep == TypeOK /\ SessionsHeld /\ [Next]_vars => SessionsHeld'
<1> SUFFICES ASSUME TypeOK, SessionsHeld, [Next]_vars PROVE SessionsHeld'
  OBVIOUS
<1>0. Signing \subseteq Txs
  BY CallAt, Zenon DEF Signing, TypeOK
<1>1. ASSUME NEW c \in Calls, writeAhead(c) PROVE SessionsHeld'
  <2> DEFINE t == calls[c].subject
             k == KeyOf[t]
  <2>1. calls[c] # Idle /\ calls[c] \in Call /\ "sign" \in Pcs(calls[c].purpose)
    BY <1>1, CallAt DEF writeAhead, At, Pcs
  <2>2. /\ t \in Txs /\ k \in Outpoints
        /\ \/ sessions' = sessions /\ Return(c)
           \/ /\ sessions' = sessions
              /\ calls' = [calls EXCEPT ![c].pc = "replay", ![c].stored = sessions[k]]
           \/ /\ DecideReplay(sessions[k], DestOf[t], t) \in {"sign", "resign"}
              /\ sessions' = [sessions EXCEPT ![k] = [dest |-> DestOf[t], sighash |-> t,
                                                     sig |-> sessions[k].sig]]
              /\ Goto(c, "sign")
    BY <1>1, WriteAheadCases, Zenon
  <2>3. produced' = produced
    BY <1>1, Zenon DEF writeAhead, history
  <2>4. CASE Return(c) /\ sessions' = sessions
    BY <2>3, <2>4, ReturnCall, SigningKept, Zenon DEF SessionsHeld
  <2>5. CASE /\ sessions' = sessions
             /\ calls' = [calls EXCEPT ![c].pc = "replay", ![c].stored = sessions[k]]
    <3>1. \A d \in Calls : calls'[d] = calls[d] \/ calls'[d].pc \notin {"sign", "record"}
      BY <2>1, <2>5, CallFields DEF TypeOK
    <3> QED
      BY <2>3, <2>5, <3>1, SigningKept, Zenon DEF SessionsHeld
  <2>6. CASE /\ DecideReplay(sessions[k], DestOf[t], t) \in {"sign", "resign"}
             /\ sessions' = [sessions EXCEPT ![k] = [dest |-> DestOf[t], sighash |-> t,
                                                    sig |-> sessions[k].sig]]
             /\ Goto(c, "sign")
    <3>1. Signing' \subseteq Signing \cup {t}
      BY <2>1, <2>3, <2>6, GotoCall DEF Signing
    <3> DEFINE new == [dest |-> DestOf[t], sighash |-> t, sig |-> sessions[k].sig]
    <3>2. heldFor(new, t) /\ \A x \in Txs : heldFor(sessions[k], x) => heldFor(new, x)
      <4>1. sessions[k] \in Row
        BY <2>2, Zenon DEF TypeOK
      <4> HIDE DEF k
      <4> QED
        BY <2>2, <2>6, <4>1, HeldOver
    <3>3. sessions'[k] = new /\ \A j \in Outpoints \ {k} : sessions'[j] = sessions[j]
      BY <2>2, <2>6 DEF TypeOK
    <3>4. \A x \in Txs : KeyOf[x] \in Outpoints
      BY RecoveryConstants, Zenon
    <3> HIDE DEF new
    <3> QED
      BY <1>0, <2>2, <3>1, <3>2, <3>3, <3>4, Zenon DEF SessionsHeld
  <2> QED
    BY <2>2, <2>4, <2>5, <2>6, Zenon
<1>2. ASSUME NEW c \in Calls, cosign(c) PROVE SessionsHeld'
  <2>1. calls[c] # Idle /\ "record" \in Pcs(calls[c].purpose)
    BY <1>2, CallAt, Zenon DEF cosign, At, Pcs
  <2>2. Signing' \subseteq Signing
    BY <1>2, <2>1, GotoCall DEF cosign, At, Signing
  <2> QED
    BY <1>2, <2>2, Zenon DEF cosign, SessionsHeld
<1>3. ASSUME NEW c \in Calls, recordSignature(c) PROVE SessionsHeld'
  <2> DEFINE t == calls[c].subject
             k == KeyOf[t]
             new == [dest |-> DestOf[t], sighash |-> t, sig |-> t]
  <2>1. Signing' \subseteq Signing
    BY <1>3, ReturnCall, SigningKept, Zenon DEF recordSignature
  <2>2. CASE sessions' = sessions
    BY <2>1, <2>2, Zenon DEF SessionsHeld
  <2>3. CASE /\ DecideReplay(sessions[k], DestOf[t], t) \in {"sign", "resign"}
             /\ sessions' = [sessions EXCEPT ![k] = new]
    <3>1. t \in Txs /\ k \in Outpoints
      BY <1>3, RecordCases, Zenon
    <3>2. \A x \in Txs : heldFor(sessions[k], x) => heldFor(new, x)
      <4>1. sessions[k] \in Row
        BY <3>1, Zenon DEF TypeOK
      <4> HIDE DEF k
      <4> QED
        BY <2>3, <3>1, <4>1, HeldOver
    <3>3. sessions'[k] = new /\ \A j \in Outpoints \ {k} : sessions'[j] = sessions[j]
      BY <2>3, <3>1, Zenon DEF TypeOK
    <3>4. \A x \in Txs : KeyOf[x] \in Outpoints
      BY RecoveryConstants
    <3> HIDE DEF new
    <3> QED
      BY <1>0, <2>1, <3>1, <3>2, <3>3, <3>4, Zenon DEF SessionsHeld
  <2> QED
    BY <1>3, <2>2, <2>3, RecordCases, Zenon
<1>4. CASE sessions' = sessions /\ Signing' \subseteq Signing
  BY <1>4 DEF SessionsHeld
<1> QED
  BY <1>1, <1>2, <1>3, <1>4, SigningElsewhere, Zenon

\* What the rows say of the transitions being signed holds in every reachable state.
LEMMA SessionsInvariant == Spec => []SessionsHeld
<1>1. Init => SessionsHeld
  BY DEF Init, SessionsHeld, Signing, Idle
<1> QED
  BY <1>1, TypeInit, TypeStep, SessionsStep, PTL DEF Spec

\* DecideReplay, for any number of racing transitions and restarts: everything
\* the cosigners sign for an outpoint goes to the one destination of its session.
THEOREM DestinationSafety == Spec => []OneDestPerOutpoint
<1>1. SessionsHeld => OneDestPerOutpoint
  BY Zenon DEF SessionsHeld, OneDestPerOutpoint, Signing, heldFor
<1> QED
  BY <1>1, SessionsInvariant, PTL

\* ErrRecoveryBusy, for any number of racing transitions and restarts: as long as
\* no signature is recorded, only the transition written ahead was ever signed.
THEOREM WriteAheadSafety == Spec => []WriteAheadHeld
<1>1. SessionsHeld => WriteAheadHeld
  BY Zenon DEF SessionsHeld, WriteAheadHeld, Signing, heldFor
<1> QED
  BY <1>1, SessionsInvariant, PTL

-----------------------------------------------------------------------------
(* The rate limit. *)

\* The limiter has forgotten no admission of the last window, and admissions are
\* in the order of the clock.
RateHeld ==
    /\ now \in Nat
    /\ rateHits \in [Vaults -> SUBSET [n : Nat, at : Nat]]
    /\ admitted \in [Vaults -> Seq(Nat)]
    /\ \A v \in Vaults :
          /\ IsFiniteSet(rateHits[v])
          /\ \A i \in 1..Len(admitted[v]) :
                /\ admitted[v][i] <= now
                /\ \A j \in 1..i : admitted[v][j] <= admitted[v][i]
                /\ admitted[v][i] > now - RateWindow =>
                      [n |-> i, at |-> admitted[v][i]] \in rateHits[v]
    /\ RateKept

\* Nothing has been admitted at the start.
LEMMA RateInit == Init => RateHeld
<1> SUFFICES ASSUME Init PROVE RateHeld
  OBVIOUS
<1>1. rateHits \in [Vaults -> SUBSET [n : Nat, at : Nat]]
  BY DEF Init
<1>2. admitted \in [Vaults -> Seq(Nat)] /\ \A v \in Vaults : Len(admitted[v]) = 0
  BY DEF Init
<1>3. \A v \in Vaults : IsFiniteSet(rateHits[v])
  BY FS_EmptySet, Zenon DEF Init
<1>4. RateKept
  BY <1>2, SessionConstants DEF RateKept
<1> QED
  BY <1>1, <1>2, <1>3, <1>4 DEF RateHeld, Init

\* allowTransition: if the limiter admits a call, the admission MaxTransitions
\* before it has left the window: otherwise that one and all that followed would
\* still be among the recent hits.
LEMMA LimitReached ==
    ASSUME RateHeld, NEW v \in Vaults, rateAllows(v),
           NEW i \in 1..Len(admitted[v]), i + MaxTransitions = Len(admitted[v]) + 1
    PROVE  now - admitted[v][i] >= RateWindow
<1> DEFINE n == Len(admitted[v])
           hit == [j \in i..n |-> [n |-> j, at |-> admitted[v][j]]]
<1>1. n \in Nat /\ i \in Nat /\ now \in Nat /\ RateWindow \in Nat /\ MaxTransitions \in Nat
  BY SessionConstants DEF RateHeld
<1>2. \A j \in 1..n : admitted[v][j] \in Nat
  BY DEF RateHeld
<1> SUFFICES ASSUME admitted[v][i] > now - RateWindow PROVE FALSE
  BY <1>1, <1>2
<1>3. ASSUME NEW j \in i..n PROVE hit[j] \in recentHits(v)
  <2>1. j \in 1..n /\ i \in 1..j
    BY <1>1
  <2>2. admitted[v][j] > now - RateWindow
    <3>1. admitted[v][i] <= admitted[v][j]
      BY <2>1, Zenon DEF RateHeld
    <3> QED
      BY <1>1, <1>2, <2>1, <3>1
  <2>3. [n |-> j, at |-> admitted[v][j]] \in rateHits[v]
    BY <2>1, <2>2, Zenon DEF RateHeld
  <2> QED
    BY <2>2, <2>3, Zenon DEF recentHits
<1>4. \A j, k \in i..n : hit[j] = hit[k] => j = k
  OBVIOUS
<1>5. hit \in Injection(i..n, recentHits(v))
  BY <1>3, <1>4, Zenon DEF Injection, IsInjective
<1>6. IsFiniteSet(recentHits(v))
  BY FS_Subset, Zenon DEF recentHits, RateHeld
<1>7. Cardinality(i..n) <= Cardinality(recentHits(v))
  <2> HIDE DEF hit, n
  <2> QED
    BY <1>5, <1>6, FS_Injection, Zenon
<1>8. Cardinality(i..n) = MaxTransitions
  <2>1. i + MaxTransitions = n + 1
    OBVIOUS
  <2> HIDE DEF n
  <2>2. Cardinality(i..n) = IF i > n THEN 0 ELSE n - i + 1
    BY <1>1, FS_Interval
  <2> QED
    BY <1>1, <2>1, <2>2
<1>9. Cardinality(recentHits(v)) \in Nat
  BY <1>6, FS_CardinalityType, Zenon
<1> QED
  BY <1>1, <1>7, <1>8, <1>9 DEF rateAllows

\* An admitted transition: the new hit is kept, and the limit holds for it.
LEMMA AdmitKeeps ==
    ASSUME RateHeld, NEW v \in Vaults, rateAllows(v), allowTransition(v, Len(admitted[v]) + 1),
           admitted' = [admitted EXCEPT ![v] = Append(@, now)], now' = now
    PROVE  RateHeld'
<1> DEFINE n == Len(admitted[v])
           hit == [n |-> n + 1, at |-> now]
<1>1. n \in Nat /\ now \in Nat /\ RateWindow \in Nat /\ MaxTransitions \in Nat
  BY SessionConstants DEF RateHeld
<1>2. admitted[v] \in Seq(Nat) /\ admitted \in [Vaults -> Seq(Nat)]
  BY DEF RateHeld
<1>3. admitted' \in [Vaults -> Seq(Nat)] /\ admitted'[v] = Append(admitted[v], now)
  BY <1>1, <1>2
<1>4. \A w \in Vaults \ {v} : admitted'[w] = admitted[w] /\ rateHits'[w] = rateHits[w]
  BY <1>2, Zenon DEF RateHeld, allowTransition
<1>5. rateHits'[v] = recentHits(v) \cup {hit}
  BY Zenon DEF RateHeld, allowTransition
<1>6. rateHits' \in [Vaults -> SUBSET [n : Nat, at : Nat]]
  <2>1. recentHits(v) \cup {hit} \in SUBSET [n : Nat, at : Nat]
    BY <1>1 DEF RateHeld, recentHits
  <2>2. rateHits' = [rateHits EXCEPT ![v] = recentHits(v) \cup {hit}]
    BY Zenon DEF allowTransition
  <2> HIDE DEF hit
  <2> QED
    BY <2>1, <2>2, Zenon DEF RateHeld
<1>7. IsFiniteSet(rateHits'[v])
  <2>1. IsFiniteSet(recentHits(v))
    BY FS_Subset DEF recentHits, RateHeld
  <2> HIDE DEF hit
  <2> QED
    BY <1>5, <2>1, FS_AddElement, Zenon
<1>8. /\ Len(admitted'[v]) = n + 1
      /\ admitted'[v][n + 1] = now
      /\ \A i \in 1..n : admitted'[v][i] = admitted[v][i]
  BY <1>1, <1>2, <1>3
<1>9. \A i \in 1..n : admitted[v][i] \in Nat
  BY <1>2
<1>10. ASSUME NEW i \in 1..(n + 1)
       PROVE  /\ admitted'[v][i] <= now
              /\ \A j \in 1..i : admitted'[v][j] <= admitted'[v][i]
              /\ admitted'[v][i] > now - RateWindow => [n |-> i, at |-> admitted'[v][i]] \in rateHits'[v]
  <2>1. CASE i = n + 1
    <3>1. \A j \in 1..n : admitted[v][j] <= now
      BY Zenon DEF RateHeld
    <3>2. \A j \in 1..i : admitted'[v][j] <= now
      BY <1>1, <1>8, <2>1, <3>1
    <3>3. [n |-> i, at |-> admitted'[v][i]] = hit
      BY <1>8, <2>1, Zenon
    <3> QED
      BY <1>1, <1>5, <1>8, <2>1, <3>2, <3>3, Zenon
  <2>2. CASE i \in 1..n
    <3>1. admitted[v][i] <= now /\ \A j \in 1..i : admitted[v][j] <= admitted[v][i]
      BY <2>2, Zenon DEF RateHeld
    <3>2. \A j \in 1..i : j \in 1..n
      BY <1>1, <2>2
    <3>3. ASSUME admitted[v][i] > now - RateWindow
          PROVE  [n |-> i, at |-> admitted[v][i]] \in recentHits(v)
      BY <2>2, <3>3, Zenon DEF RateHeld, recentHits
    <3> QED
      BY <1>5, <1>8, <2>2, <3>1, <3>2, <3>3, Zenon
  <2> QED
    BY <1>1, <2>1, <2>2
<1>11. \A i \in 1..(n + 1 - MaxTransitions) :
          admitted'[v][i + MaxTransitions] - admitted'[v][i] >= RateWindow
  <2> TAKE i \in 1..(n + 1 - MaxTransitions)
  <2>1. CASE i + MaxTransitions \in 1..n
    <3>1. i \in 1..(n - MaxTransitions) /\ i \in 1..n
      BY <1>1, <2>1
    <3>2. admitted[v][i + MaxTransitions] - admitted[v][i] >= RateWindow
      BY <3>1, Zenon DEF RateHeld, RateKept
    <3> QED
      BY <1>8, <2>1, <3>1, <3>2, Zenon
  <2>2. CASE i + MaxTransitions = n + 1
    <3>1. Cardinality(recentHits(v)) \in Nat
      <4>1. IsFiniteSet(recentHits(v))
        BY FS_Subset DEF recentHits, RateHeld
      <4> QED
        BY <4>1, FS_CardinalityType, Zenon
    <3>2. MaxTransitions > 0
      BY <1>1, <3>1 DEF rateAllows
    <3>3. i \in 1..n
      BY <1>1, <2>2, <3>2
    <3>4. now - admitted[v][i] >= RateWindow
      BY <2>2, <3>3, LimitReached, Zenon
    <3> QED
      BY <1>8, <2>2, <3>3, <3>4, Zenon
  <2> QED
    BY <1>1, <2>1, <2>2
<1>12. RateKept'
  <2> SUFFICES ASSUME NEW w \in Vaults, NEW i \in 1..(Len(admitted'[w]) - MaxTransitions)
               PROVE  admitted'[w][i + MaxTransitions] - admitted'[w][i] >= RateWindow
    BY Zenon DEF RateKept
  <2>1. CASE w = v
    <3>1. Len(admitted'[w]) = n + 1
      BY <1>8, <2>1, Zenon
    <3>2. i \in 1..(n + 1 - MaxTransitions)
      <4> HIDE DEF n
      <4> QED
        BY ONLY <1>1, <3>1, i \in 1..(Len(admitted'[w]) - MaxTransitions)
    <3> HIDE DEF n
    <3> QED
      BY <1>11, <2>1, <3>2, Zenon
  <2>2. CASE w # v
    BY <1>4, <2>2, Zenon DEF RateHeld, RateKept
  <2> QED
    BY <2>1, <2>2, Zenon
<1> HIDE DEF hit
<1>13. ASSUME NEW w \in Vaults
       PROVE  /\ IsFiniteSet(rateHits'[w])
              /\ \A i \in 1..Len(admitted'[w]) :
                    /\ admitted'[w][i] <= now
                    /\ \A j \in 1..i : admitted'[w][j] <= admitted'[w][i]
                    /\ admitted'[w][i] > now - RateWindow =>
                          [n |-> i, at |-> admitted'[w][i]] \in rateHits'[w]
  <2>1. CASE w = v
    BY <1>7, <1>8, <1>10, <2>1, Zenon
  <2>2. CASE w # v
    BY <1>4, <2>2, Zenon DEF RateHeld
  <2> QED
    BY <2>1, <2>2, Zenon
<1> QED
  BY <1>1, <1>3, <1>6, <1>12, <1>13, Zenon DEF RateHeld

\* A step that admits nothing: the clock may advance and stale hits may go.
LEMMA ForgetKeeps ==
    ASSUME RateHeld, admitted' = admitted, now' \in Nat, now' >= now,
           rateHits' \in [Vaults -> SUBSET [n : Nat, at : Nat]],
           \A v \in Vaults : recentHits(v) \subseteq rateHits'[v] /\ rateHits'[v] \subseteq rateHits[v]
    PROVE  RateHeld'
<1>1. now \in Nat /\ RateWindow \in Nat /\ admitted \in [Vaults -> Seq(Nat)]
  BY SessionConstants, Zenon DEF RateHeld
<1>2. RateKept'
  BY Zenon DEF RateHeld, RateKept
<1>3. ASSUME NEW v \in Vaults
      PROVE  /\ IsFiniteSet(rateHits'[v])
             /\ \A i \in 1..Len(admitted[v]) :
                   /\ admitted[v][i] <= now'
                   /\ \A j \in 1..i : admitted[v][j] <= admitted[v][i]
                   /\ admitted[v][i] > now' - RateWindow =>
                         [n |-> i, at |-> admitted[v][i]] \in rateHits'[v]
  <2>1. IsFiniteSet(rateHits'[v])
    BY FS_Subset, Zenon DEF RateHeld
  <2>2. ASSUME NEW i \in 1..Len(admitted[v])
        PROVE  /\ admitted[v][i] <= now'
               /\ \A j \in 1..i : admitted[v][j] <= admitted[v][i]
               /\ admitted[v][i] > now' - RateWindow =>
                     [n |-> i, at |-> admitted[v][i]] \in rateHits'[v]
    <3>1. admitted[v][i] \in Nat
      BY <1>1
    <3>2. admitted[v][i] <= now /\ \A j \in 1..i : admitted[v][j] <= admitted[v][i]
      BY Zenon DEF RateHeld
    <3>3. ASSUME admitted[v][i] > now' - RateWindow
          PROVE  [n |-> i, at |-> admitted[v][i]] \in rateHits'[v]
      <4>1. admitted[v][i] > now - RateWindow
        BY <1>1, <3>1, <3>3
      <4>2. [n |-> i, at |-> admitted[v][i]] \in recentHits(v)
        BY <4>1 DEF RateHeld, recentHits
      <4> QED
        BY <4>2, Zenon
    <3> QED
      BY <1>1, <3>1, <3>2, <3>3
  <2> QED
    BY <2>1, <2>2, Zenon
<1> QED
  BY <1>1, <1>2, <1>3, Zenon DEF RateHeld

\* Of all handlers, only SignTransition touches the limiter.
LEMMA RateStep == RateHeld /\ [Next]_vars => RateHeld'
<1> SUFFICES ASSUME RateHeld, [Next]_vars PROVE RateHeld'
  OBVIOUS
<1>0. now \in Nat /\ rateHits \in [Vaults -> SUBSET [n : Nat, at : Nat]]
  BY Zenon DEF RateHeld
<1>1. \A v \in Vaults : recentHits(v) \subseteq rateHits[v]
  BY DEF recentHits
<1>2. ASSUME UNCHANGED <<rateHits, admitted, now>> PROVE RateHeld'
  BY <1>0, <1>1, <1>2, ForgetKeeps
<1>3. ASSUME NEW c \in Calls, NEW t \in Txs, NEW id, NEW n, SignTransition(c, t, id, n)
      PROVE  RateHeld'
  <2> DEFINE v == VaultOf[KeyOf[t]]
  <2>1. v \in Vaults
    BY RecoveryConstants, ZenonT(60)
  <2>2. now' = now /\ allowTransition(v, Len(admitted[v]) + 1)
    BY <1>3 DEF SignTransition
  <2>3. CASE rateAllows(v)
    <3>1. admitted' = [admitted EXCEPT ![v] = Append(@, now)]
      BY <1>3, <2>3, Zenon DEF SignTransition
    <3> HIDE DEF v
    <3> QED
      BY <2>1, <2>2, <2>3, <3>1, AdmitKeeps, ZenonT(60)
  <2>4. CASE ~ rateAllows(v)
    <3>1. admitted' = admitted
      BY <1>3, <2>4, Zenon DEF SignTransition
    <3> HIDE DEF v
    <3>2. rateHits' = [rateHits EXCEPT ![v] = recentHits(v)]
      BY <2>2, <2>4 DEF allowTransition
    <3>3. rateHits' \in [Vaults -> SUBSET [n : Nat, at : Nat]]
      BY <1>0, <1>1, <2>1, <3>2, Zenon
    <3>4. \A w \in Vaults : recentHits(w) \subseteq rateHits'[w] /\ rateHits'[w] \subseteq rateHits[w]
      BY <1>0, <1>1, <2>1, <3>2, Zenon
    <3> QED
      BY <1>0, <2>2, <3>1, <3>3, <3>4, ForgetKeeps
  <2> QED
    BY <2>3, <2>4
<1>4. CASE Tick
  BY <1>0, <1>1, <1>4, ForgetKeeps DEF Tick, history
<1>5. CASE Restart
  <2>1. rateHits' \in [Vaults -> SUBSET [n : Nat, at : Nat]]
    BY <1>5 DEF Restart
  <2>2. admitted' \in [Vaults -> Seq(Nat)] /\ \A v \in Vaults : Len(admitted'[v]) = 0
    BY <1>5 DEF Restart
  <2>3. \A v \in Vaults : IsFiniteSet(rateHits'[v])
    BY <1>5, FS_EmptySet, Zenon DEF Restart
  <2>4. RateKept'
    BY <2>2, SessionConstants DEF RateKept
  <2> QED
    BY <1>0, <1>5, <2>1, <2>2, <2>3, <2>4 DEF RateHeld, Restart
<1> QED
  BY <1>2, <1>3, <1>4, <1>5, Zenon
     DEF Next, vars, history, challengeVars, IssuePasskeyChallengeFor, InstallCredentialEnvelope,
         RecoverCredentialEnvelope, PutMap, consumeChallenge, advanceCounter, loadEnvelope,
         storeEnvelope, recoverEnvelope, storeMap, writeAhead, replayStored, cosign,
         recordSignature, Fail

\* allowTransition: within one run of the process, any window of a minute admits
\* at most MaxTransitions transitions of a vault.
THEOREM RateSafety == Spec => []RateKept
<1>1. RateHeld => RateKept
  BY DEF RateHeld
<1> QED
  BY <1>1, RateInit, RateStep, PTL DEF Spec

-----------------------------------------------------------------------------
(* VaultCustody: the coin in the script trees. *)

Devices == {"phone", "hardware", "recovery"}
Trees ==
    {Savings, Spending, Boarding} \cup {OutTo(p) : p \in Parties}
      \cup {Pending(c) : c \in Devices} \cup {Quarantine(c) : c \in Devices}

CustodyTypeOK ==
    /\ tier \in {"standard", "advanced"}
    /\ held \in [Parties -> SUBSET Devices]
    /\ coin \in [tree : Trees, value : Int, age : Nat]
    /\ started \in [tree : {Savings, Spending, Boarding}, value : Int,
                    by : Parties \cup {None}, claimant : Devices \cup {None}]
    /\ DOMAIN coinSessions = TransitionPurposes

\* A transition costs no more than an anchor and the fee ceiling.
within(tx) == tx.value \in Int /\ tx.value >= coin.value - P2AValue - AbsoluteFeeCap

\* What was signed is within the ceiling, leads one tree on, and was initiated
\* with a key of its holder. (The owner may have lost theirs since.)
SignedOK ==
    \A s \in signed :
        /\ s.by \in Parties
        /\ within(s.tx)
        /\ \E c \in Devices :
              \/ /\ coin.tree = Savings /\ s.tx.dest = Pending(c)
                 /\ s.by = "other" => c \in held["other"]
              \/ coin.tree = Pending(c) /\ s.tx.dest = Quarantine(c)

SessionsOK ==
    \A purpose \in TransitionPurposes :
        coinSessions[purpose].sig = None \/ within(coinSessions[purpose].sig)

\* What the transitions up to a tree may have cost.
charged(tree) ==
    CASE tree[1] \in {"savings", "vtxo", "board"} -> 0
      [] tree[1] = "pending" -> P2AValue + AbsoluteFeeCap
      [] OTHER -> 2 * (P2AValue + AbsoluteFeeCap)

ChargedOK == coin.value >= started.value - charged(coin.tree)

\* A pending or quarantined coin remembers who initiated it, and with which key.
InitiatedOK ==
    \A c \in Devices :
        coin.tree \in {Pending(c), Quarantine(c)} =>
            /\ started.claimant = c
            /\ started.by \in Parties
            /\ started.by = "other" => c \in held["other"]

\* A claim of another party does not outlive the watch of an owner who holds the
\* guardian keys.
WatchedOK ==
    \A c \in Devices :
        /\ coin.tree = Pending(c)
        /\ started.by = "other"
        /\ familyClaimants \ {c} \subseteq held["owner"]
        => coin.age <= Watch

CustodyInv ==
    /\ CustodyTypeOK /\ SignedOK /\ SessionsOK /\ ChargedOK /\ InitiatedOK /\ WatchedOK
    /\ coin.tree = Boarding => started.tree = Boarding
    /\ OneKeyNeverTakes

-----------------------------------------------------------------------------
(* Trees and leaves. *)

\* The trees are told apart by their first component.
LEMMA TreeTags ==
    /\ Savings[1] = "savings" /\ Spending[1] = "vtxo" /\ Boarding[1] = "board"
    /\ \A c : Pending(c)[1] = "pending" /\ Pending(c)[2] = c
    /\ \A c : Quarantine(c)[1] = "quarantine" /\ Quarantine(c)[2] = c
    /\ \A p : OutTo(p)[1] = "out" /\ OutTo(p)[2] = p
BY DEF Savings, Spending, Boarding, Pending, Quarantine, OutTo

\* A coin is in exactly one kind of tree.
LEMMA TreeCases ==
    ASSUME CustodyTypeOK
    PROVE  \/ coin.tree \in {Savings, Spending, Boarding}
           \/ \E c \in Devices : coin.tree = Pending(c)
           \/ \E c \in Devices : coin.tree = Quarantine(c)
           \/ \E p \in Parties : coin.tree = OutTo(p)
BY DEF CustodyTypeOK, Trees

\* The claimants are devices, at least two of them.
LEMMA Claimants ==
    ASSUME CustodyTypeOK
    PROVE  /\ {"phone", "hardware"} \subseteq familyClaimants
           /\ familyClaimants \subseteq Devices
           /\ tier = "advanced" => familyClaimants = Devices
           /\ tier # "advanced" => tier = "standard"
BY Zenon DEF CustodyTypeOK, familyClaimants, Devices

\* What the leaves without a cosigner demand.
LEMMA AloneLeaves ==
    ASSUME CustodyTypeOK, NEW leaf \in Leaves(coin.tree), leaf.cosigners = {}
    PROVE  \/ coin.tree = Savings /\ leaf.keys = {"phone", "hardware"}
           \/ coin.tree = Spending /\ leaf.keys = exitKeys
           \/ coin.tree = Boarding /\ leaf.keys = {"phone"}
           \/ \E c \in Devices :
                 /\ coin.tree = Pending(c)
                 /\ \/ leaf.keys = {c} /\ leaf.delay = pendingDelay(c)
                    \/ leaf.keys = familyClaimants \ {c}
           \/ \E c \in Devices : coin.tree = Quarantine(c) /\ leaf.keys = familyClaimants \ {c}
<1>1. CASE coin.tree = Savings
  BY <1>1, TreeTags
     DEF Leaves, BuildSavings, initiateLeaf, tweakedChecksig, checksig, csvChecksig
<1>2. CASE coin.tree = Spending
  BY <1>2, TreeTags DEF Leaves, BuildVaultPolicyV1Tree, collaborative, csvChecksig
<1>3. CASE coin.tree = Boarding
  BY <1>3, TreeTags DEF Leaves, buildVtxoBoardTree, boardLeaf, collaborative, csvChecksig
<1>4. ASSUME NEW c \in Devices, coin.tree = Pending(c)
      PROVE  (leaf.keys = {c} /\ leaf.delay = pendingDelay(c)) \/ leaf.keys = familyClaimants \ {c}
  BY <1>4, TreeTags
     DEF Leaves, BuildPending, clawbackLeaf, tweakedChecksig, checksig, csvChecksig
<1>5. ASSUME NEW c \in Devices, coin.tree = Quarantine(c)
      PROVE  leaf.keys = familyClaimants \ {c}
  BY <1>5, TreeTags DEF Leaves, BuildQuarantine, quarantineGuardians, checksig, csvChecksig
<1>6. ASSUME NEW p \in Parties, coin.tree = OutTo(p) PROVE FALSE
  BY <1>6, TreeTags, Zenon DEF Leaves
<1> QED
  BY <1>1, <1>2, <1>3, <1>4, <1>5, <1>6, TreeCases, Zenon

\* SignTransition: a request that is not refused leads one tree on, with a key of
\* its caller, under a script with the fee ceiling.
LEMMA Requests ==
    ASSUME CustodyTypeOK, NEW p \in Parties, NEW purpose \in TransitionPurposes,
           NEW leaf \in Leaves(coin.tree), NEW tx \in proposals(leaf.auth.dest),
           requested(p, purpose, leaf, tx)
    PROVE  /\ \E c \in Devices :
                 \/ coin.tree = Savings /\ tx.dest = Pending(c) /\ c \in held[p]
                 \/ coin.tree = Pending(c) /\ tx.dest = Quarantine(c)
           /\ scriptAllows(leaf.auth, tx) => within(tx)
<1>1. leaf.keys \subseteq held[p] /\ resolveTransitionBinding(purpose, leaf, tx.dest)
  BY Zenon DEF requested
<1>2. tx.value \in Int
  BY CustodyConstants DEF proposals, CustodyTypeOK
<1>3. CASE purpose = "initiate"
  <2>1. PICK c \in familyClaimants :
            coin.tree = Savings /\ leaf = initiateLeaf(c) /\ tx.dest = Pending(c)
    BY <1>1, <1>3, Zenon DEF resolveTransitionBinding
  <2>2. leaf.keys = {c} /\ leaf.auth.feeCap = AbsoluteFeeCap
    BY <2>1, Zenon DEF initiateLeaf, tweakedChecksig, BuildTransitionScript
  <2> QED
    BY <1>1, <1>2, <2>1, <2>2, Claimants, CustodyConstants
       DEF scriptAllows, within, CustodyTypeOK
<1>4. CASE purpose # "initiate"
  <2>1. PICK c \in familyClaimants, g \in familyClaimants :
            coin.tree = Pending(c) /\ leaf = clawbackLeaf(c, g) /\ tx.dest = Quarantine(c)
    BY <1>1, <1>4, Zenon DEF resolveTransitionBinding
  <2>2. leaf.auth.feeCap = AbsoluteFeeCap
    BY <2>1, Zenon DEF clawbackLeaf, tweakedChecksig, BuildTransitionScript
  <2> QED
    BY <1>2, <2>1, <2>2, Claimants, CustodyConstants DEF scriptAllows, within, CustodyTypeOK
<1> QED
  BY <1>3, <1>4, Zenon

\* ApplyRecoveryReplay: a row keeps its signature or takes the one written.
LEMMA WrittenSig ==
    ASSUME NEW old, NEW dest, NEW t, NEW sig
    PROVE  /\ ApplyRecoveryReplay(old, dest, t, sig).sig \in {old.sig, sig}
           /\ ApplyRecoveryReplay(old, dest, t, None).sig = old.sig
BY DEF ApplyRecoveryReplay

\* DecideReplay: only a signed row is replayed.
LEMMA ReplaySigned ==
    ASSUME NEW old, NEW dest, NEW t, DecideReplay(old, dest, t) = "replay"
    PROVE  old.sig # None
BY Zenon DEF DecideReplay

-----------------------------------------------------------------------------
(* The inductive invariant. *)

\* A coin that has just arrived satisfies the invariant in any of the trees.
LEMMA CustodyInvInit == CustodyInit => CustodyInv
<1> SUFFICES ASSUME CustodyInit PROVE CustodyInv
  OBVIOUS
<1>1. PICK tree \in {Savings, Spending, Boarding}, value \in Amounts :
          /\ coin = [tree |-> tree, value |-> value, age |-> 0]
          /\ started = [tree |-> tree, value |-> value, by |-> None, claimant |-> None]
  BY DEF CustodyInit
<1>2. value \in Int
  BY CustodyConstants
<1>3. CustodyTypeOK
  <2>1. held \in [Parties -> SUBSET Devices]
    BY Zenon DEF CustodyInit, familyClaimants, Devices
  <2> QED
    BY <1>1, <1>2, <2>1, Zenon DEF CustodyInit, CustodyTypeOK, Trees
<1>4. SignedOK
  BY Zenon DEF CustodyInit, SignedOK
<1>5. SessionsOK
  BY Zenon DEF CustodyInit, SessionsOK, NoSession
<1>6. ChargedOK
  <2>1. charged(coin.tree) = 0
    BY <1>1, TreeTags, Zenon DEF charged
  <2> QED
    BY <1>1, <1>2, <2>1 DEF ChargedOK
<1>7. \A x : coin.tree # Pending(x) /\ coin.tree # Quarantine(x) /\ coin.tree # OutTo(x)
  BY <1>1, TreeTags
<1>8. InitiatedOK /\ WatchedOK /\ OneKeyNeverTakes
  BY <1>7, Zenon DEF InitiatedOK, WatchedOK, OneKeyNeverTakes
<1> QED
  BY <1>1, <1>3, <1>4, <1>5, <1>6, <1>8, Zenon DEF CustodyInv

\* Signing a transition, or failing to, moves nothing: what is signed or stored
\* is within the ceiling.
LEMMA CosignedStep ==
    ASSUME CustodyInv, NEW p \in Parties, NEW purpose \in TransitionPurposes,
           NEW leaf \in Leaves(coin.tree), NEW tx \in proposals(leaf.auth.dest),
           cosigned(p, purpose, leaf, tx)
    PROVE  CustodyInv'
<1> DEFINE old == coinSessions[purpose]
           ahead == ApplyRecoveryReplay(old, tx.dest, tx, None)
           row == ApplyRecoveryReplay(ahead, tx.dest, tx, tx)
<1>1. /\ requested(p, purpose, leaf, tx)
      /\ signed' = signed \cup {[by |-> p, tx |-> tx]}
      /\ UNCHANGED <<tier, held, service, coin, started>>
  BY DEF cosigned
<1>2. \/ DecideReplay(old, tx.dest, tx) = "replay" /\ old.sig = tx /\ coinSessions' = coinSessions
      \/ scriptAllows(leaf.auth, tx) /\ coinSessions' = [coinSessions EXCEPT ![purpose] = row]
  BY Zenon DEF cosigned
<1>3. CustodyTypeOK /\ SessionsOK /\ SignedOK
  BY Zenon DEF CustodyInv
<1>4. /\ \E c \in Devices :
            \/ coin.tree = Savings /\ tx.dest = Pending(c) /\ c \in held[p]
            \/ coin.tree = Pending(c) /\ tx.dest = Quarantine(c)
      /\ scriptAllows(leaf.auth, tx) => within(tx)
  BY <1>1, <1>3, Requests, Zenon
<1>5. within(tx)
  <2>1. old.sig = None \/ within(old.sig)
    BY <1>3, Zenon DEF SessionsOK
  <2> QED
    BY <1>2, <1>4, <2>1, ReplaySigned, Zenon
<1>6. row.sig \in {old.sig, tx}
  BY WrittenSig, Zenon
<1>7. SessionsOK' /\ DOMAIN coinSessions' = TransitionPurposes
  BY <1>1, <1>2, <1>3, <1>5, <1>6, Zenon DEF SessionsOK, CustodyTypeOK, within
<1>8. SignedOK'
  BY <1>1, <1>3, <1>4, <1>5 DEF SignedOK, within
<1> QED
  BY <1>1, <1>7, <1>8, Zenon
     DEF CustodyInv, CustodyTypeOK, ChargedOK, InitiatedOK, WatchedOK, OneKeyNeverTakes,
         familyClaimants

\* A transition that the cosigners refuse is written ahead; no coin moves.
LEMMA CosigningFailsStep ==
    ASSUME CustodyInv, NEW p \in Parties, NEW purpose \in TransitionPurposes,
           NEW leaf \in Leaves(coin.tree), NEW tx \in proposals(leaf.auth.dest),
           cosigningFails(p, purpose, leaf, tx)
    PROVE  CustodyInv'
<1> DEFINE old == coinSessions[purpose]
           ahead == ApplyRecoveryReplay(old, tx.dest, tx, None)
           row == ApplyRecoveryReplay(ahead, tx.dest, tx, tx)
<1>1. /\ requested(p, purpose, leaf, tx)
      /\ UNCHANGED <<tier, held, service, coin, signed, started>>
      /\ \/ coinSessions' = [coinSessions EXCEPT ![purpose] = ahead]
         \/ scriptAllows(leaf.auth, tx) /\ coinSessions' = [coinSessions EXCEPT ![purpose] = row]
  BY Zenon DEF cosigningFails
<1>2. CustodyTypeOK /\ SessionsOK
  BY Zenon DEF CustodyInv
<1>3. scriptAllows(leaf.auth, tx) => within(tx)
  BY <1>1, <1>2, Requests, Zenon
<1>4. ahead.sig = old.sig /\ row.sig \in {old.sig, tx}
  BY WrittenSig, Zenon
<1>5. SessionsOK' /\ DOMAIN coinSessions' = TransitionPurposes
  BY <1>1, <1>2, <1>3, <1>4, Zenon DEF SessionsOK, CustodyTypeOK, within
<1> QED
  BY <1>1, <1>5, Zenon
     DEF CustodyInv, CustodyTypeOK, SignedOK, within, ChargedOK, InitiatedOK, WatchedOK,
         OneKeyNeverTakes, familyClaimants

\* A coin that has moved has a fresh outpoint.
LEMMA Moved ==
    ASSUME NEW tree \in Trees, NEW value \in Int, MoveTo(tree, value)
    PROVE  /\ coin' = [tree |-> tree, value |-> value, age |-> 0]
           /\ coin' \in [tree : Trees, value : Int, age : Nat]
           /\ DOMAIN coinSessions' = TransitionPurposes
           /\ SignedOK' /\ SessionsOK'
BY DEF MoveTo, SignedOK, SessionsOK, NoSession

\* A signed transition is broadcast: the coin moves to the bound tree and pays once.
LEMMA BroadcastStep ==
    ASSUME CustodyInv, NEW p \in Parties, NEW s \in signed, Broadcast(p, s)
    PROVE  CustodyInv'
<1>1. CustodyTypeOK /\ SignedOK /\ ChargedOK /\ InitiatedOK
  BY Zenon DEF CustodyInv
<1>2. PICK c \in Devices :
          \/ /\ coin.tree = Savings /\ s.tx.dest = Pending(c)
             /\ s.by = "other" => c \in held["other"]
          \/ coin.tree = Pending(c) /\ s.tx.dest = Quarantine(c)
  BY <1>1 DEF SignedOK
<1>3. s.by = p /\ s.tx.value \in Int /\ s.tx.value >= coin.value - P2AValue - AbsoluteFeeCap
  BY <1>1, Zenon DEF SignedOK, within, Broadcast
<1>4. s.tx.dest \in Trees
  BY <1>2, Zenon DEF Trees
<1>5. /\ coin' = [tree |-> s.tx.dest, value |-> s.tx.value, age |-> 0]
      /\ coin' \in [tree : Trees, value : Int, age : Nat]
      /\ DOMAIN coinSessions' = TransitionPurposes
      /\ SignedOK' /\ SessionsOK'
  <2>1. MoveTo(s.tx.dest, s.tx.value)
    BY DEF Broadcast
  <2> QED
    BY <1>3, <1>4, <2>1, Moved, Zenon
<1>6. /\ started' = IF coin.tree = Savings
                    THEN [started EXCEPT !.by = p, !.claimant = s.tx.dest[2]] ELSE started
      /\ UNCHANGED <<tier, held, service>>
  BY DEF Broadcast
<1>7. CASE coin.tree = Savings
  <2>1. s.tx.dest = Pending(c) /\ (p = "other" => c \in held["other"])
    BY <1>2, <1>3, <1>7, TreeTags, Zenon
  <2>2. /\ started' = [started EXCEPT !.by = p, !.claimant = c]
        /\ started'.by = p /\ started'.claimant = c /\ started'.value = started.value
        /\ CustodyTypeOK'
    <3>1. s.tx.dest[2] = c
      BY <2>1, TreeTags
    <3> QED
      BY <1>1, <1>5, <1>6, <1>7, <3>1, Zenon DEF CustodyTypeOK
  <2>3. /\ \A x : coin'.tree = Pending(x) => x = c
        /\ \A x : coin'.tree # Quarantine(x) /\ coin'.tree # OutTo(x)
        /\ coin'.tree # Boarding
    BY <1>5, <2>1, TreeTags
  <2>4. ChargedOK'
    <3>1. charged(coin.tree) = 0 /\ charged(coin'.tree) = P2AValue + AbsoluteFeeCap
      BY <1>5, <1>7, <2>1, TreeTags DEF charged
    <3> QED
      BY <1>1, <1>3, <1>5, <2>2, <3>1, CustodyConstants DEF ChargedOK, CustodyTypeOK
  <2>5. InitiatedOK' /\ WatchedOK' /\ OneKeyNeverTakes'
    BY <1>5, <1>6, <2>1, <2>2, <2>3, CustodyConstants
       DEF InitiatedOK, WatchedOK, OneKeyNeverTakes
  <2> QED
    BY <1>5, <2>2, <2>3, <2>4, <2>5, Zenon DEF CustodyInv
<1>8. CASE coin.tree # Savings
  <2>1. coin.tree = Pending(c) /\ s.tx.dest = Quarantine(c) /\ started' = started
    BY <1>2, <1>6, <1>8, Zenon
  <2>2. CustodyTypeOK'
    BY <1>1, <1>5, <1>6, <2>1, Zenon DEF CustodyTypeOK
  <2>3. /\ \A x : coin'.tree = Quarantine(x) => x = c
        /\ \A x : coin'.tree # Pending(x) /\ coin'.tree # OutTo(x)
        /\ coin'.tree # Boarding
    BY <1>5, <2>1, TreeTags
  <2>4. ChargedOK'
    <3>1. /\ charged(coin.tree) = P2AValue + AbsoluteFeeCap
          /\ charged(coin'.tree) = 2 * (P2AValue + AbsoluteFeeCap)
      BY <1>5, <2>1, TreeTags, Zenon DEF charged
    <3> QED
      BY <1>1, <1>3, <1>5, <2>1, <3>1, CustodyConstants DEF ChargedOK, CustodyTypeOK
  <2>5. InitiatedOK' /\ WatchedOK' /\ OneKeyNeverTakes'
    BY <1>1, <1>5, <1>6, <2>1, <2>3, Zenon DEF InitiatedOK, WatchedOK, OneKeyNeverTakes
  <2> QED
    BY <1>5, <2>2, <2>3, <2>4, <2>5, Zenon DEF CustodyInv
<1> QED
  BY <1>7, <1>8, Zenon

\* A leaf that one key in other hands satisfies is one of the three exceptions: no
\* leaf of Savings or Spending is; a claim of the other party is cut off before
\* its delay; and a guardian is alone in the standard tier only.
LEMMA OneKeySpends ==
    ASSUME CustodyInv, NEW leaf \in Leaves(coin.tree), SpendAlone("other", leaf),
           NEW k \in familyClaimants,
           held["other"] = {k}, familyClaimants \ {k} \subseteq held["owner"]
    PROVE  \/ started.by = "owner" /\ (tier = "standard" \/ started.claimant = k)
           \/ started.tree = Boarding /\ k = "phone"
<1>1. CustodyTypeOK /\ InitiatedOK /\ WatchedOK
  BY DEF CustodyInv
<1>2. leaf.cosigners = {} /\ leaf.keys \subseteq {k} /\ coin.age >= leaf.delay
  BY Zenon DEF SpendAlone
<1>3. /\ {"phone", "hardware"} \subseteq familyClaimants
      /\ familyClaimants \subseteq Devices
      /\ tier = "advanced" => familyClaimants = Devices
      /\ tier # "advanced" => tier = "standard"
  BY <1>1, Claimants, Zenon
<1>4. leaf.keys # {"phone", "hardware"} /\ leaf.keys # exitKeys
  BY <1>2 DEF exitKeys
<1>5. ASSUME leaf.keys = familyClaimants \ {k} PROVE FALSE
  BY <1>2, <1>3, <1>5
<1>6. ASSUME NEW c \in Devices, c # k, leaf.keys = familyClaimants \ {c} PROVE tier = "standard"
  BY <1>2, <1>3, <1>6 DEF Devices
<1>7. ASSUME NEW c \in Devices, coin.tree \in {Pending(c), Quarantine(c)}
      PROVE  /\ started.claimant = c
             /\ c # k => started.by = "owner"
  BY <1>1, <1>7, Zenon DEF InitiatedOK, Parties
<1>8. CASE coin.tree = Boarding /\ leaf.keys = {"phone"}
  BY <1>2, <1>8, Zenon DEF CustodyInv
<1>9. ASSUME NEW c \in Devices, coin.tree = Pending(c),
             leaf.keys = {c}, leaf.delay = pendingDelay(c)
      PROVE  started.by = "owner" /\ started.claimant = k
  <2>1. c = k
    BY <1>2, <1>9, Zenon
  <2>2. started.claimant = c /\ started.by \in Parties
    BY <1>1, <1>9, Zenon DEF InitiatedOK
  <2>3. coin.age > Watch
    <3>1. pendingDelay(c) \in Nat /\ pendingDelay(c) > Watch
      BY CustodyConstants, Zenon DEF pendingDelay
    <3> QED
      BY <1>1, <1>2, <1>9, <3>1, CustodyConstants DEF CustodyTypeOK
  <2>4. started.by = "other" => coin.age <= Watch
    BY <1>1, <1>9, <2>1, Zenon DEF WatchedOK
  <2>5. coin.age \in Nat /\ Watch \in Nat
    BY <1>1, CustodyConstants, Zenon DEF CustodyTypeOK
  <2> QED
    BY <2>1, <2>2, <2>3, <2>4, <2>5 DEF Parties
<1>10. ASSUME NEW c \in Devices, coin.tree \in {Pending(c), Quarantine(c)},
              leaf.keys = familyClaimants \ {c}
       PROVE  started.by = "owner" /\ tier = "standard"
  BY <1>5, <1>6, <1>7, <1>10, Zenon
<1> QED
  BY <1>1, <1>2, <1>4, <1>8, <1>9, <1>10, AloneLeaves

\* A leaf without a cosigner is spent: one step per such leaf of each tree.
LEMMA SpendAloneStep ==
    ASSUME CustodyInv, NEW p \in Parties, NEW leaf \in Leaves(coin.tree), SpendAlone(p, leaf)
    PROVE  CustodyInv'
<1>1. CustodyTypeOK /\ ChargedOK /\ coin.value \in Int
  BY Zenon DEF CustodyInv, CustodyTypeOK
<1>2. /\ coin' = [tree |-> OutTo(p), value |-> coin.value, age |-> 0]
      /\ coin' \in [tree : Trees, value : Int, age : Nat]
      /\ DOMAIN coinSessions' = TransitionPurposes
      /\ SignedOK' /\ SessionsOK'
  <2>1. MoveTo(OutTo(p), coin.value) /\ OutTo(p) \in Trees
    BY Zenon DEF SpendAlone, Trees
  <2> QED
    BY <1>1, <2>1, Moved, Zenon
<1>3. UNCHANGED <<tier, held, service, started>>
  BY Zenon DEF SpendAlone
<1>4. CustodyTypeOK'
  BY <1>1, <1>2, <1>3, Zenon DEF CustodyTypeOK
<1>5. /\ \A x : coin'.tree # Pending(x) /\ coin'.tree # Quarantine(x)
      /\ \A x : coin'.tree = OutTo(x) => x = p
      /\ coin'.tree # Boarding
  BY <1>2, TreeTags
<1>6. ChargedOK'
  <2>1. charged(coin'.tree) = 2 * (P2AValue + AbsoluteFeeCap)
    BY <1>2, TreeTags DEF charged
  <2>2. charged(coin.tree) \in {0, P2AValue + AbsoluteFeeCap, 2 * (P2AValue + AbsoluteFeeCap)}
    BY Zenon DEF charged
  <2> QED
    BY <1>1, <1>2, <1>3, <2>1, <2>2, CustodyConstants DEF ChargedOK, CustodyTypeOK
<1>7. InitiatedOK' /\ WatchedOK'
  BY <1>5, Zenon DEF InitiatedOK, WatchedOK
<1>8. OneKeyNeverTakes'
  BY <1>3, <1>5, OneKeySpends, Zenon DEF OneKeyNeverTakes, familyClaimants
<1> QED
  BY <1>2, <1>4, <1>5, <1>6, <1>7, <1>8, Zenon DEF CustodyInv

\* A boarding moves the coin into the Spending tree.
LEMMA BoardStep ==
    ASSUME CustodyInv, NEW p \in Parties, Board(p)
    PROVE  CustodyInv'
<1>1. CustodyTypeOK /\ ChargedOK /\ coin.value \in Int
  BY Zenon DEF CustodyInv, CustodyTypeOK
<1>2. /\ coin' = [tree |-> Spending, value |-> coin.value, age |-> 0]
      /\ coin' \in [tree : Trees, value : Int, age : Nat]
      /\ DOMAIN coinSessions' = TransitionPurposes
      /\ SignedOK' /\ SessionsOK'
  <2>1. MoveTo(Spending, coin.value) /\ Spending \in Trees
    BY Zenon DEF Board, Trees
  <2> QED
    BY <1>1, <2>1, Moved, Zenon
<1>3. coin.tree = Boarding /\ UNCHANGED <<tier, held, service, started>>
  BY Zenon DEF Board
<1>4. CustodyTypeOK'
  BY <1>1, <1>2, <1>3, Zenon DEF CustodyTypeOK
<1>5. /\ \A x : coin'.tree # Pending(x) /\ coin'.tree # Quarantine(x) /\ coin'.tree # OutTo(x)
      /\ coin'.tree # Boarding
  BY <1>2, TreeTags, Zenon
<1>6. ChargedOK'
  <2>1. charged(coin'.tree) = 0 /\ charged(coin.tree) = 0
    BY <1>2, <1>3, TreeTags, Zenon DEF charged
  <2> QED
    BY <1>1, <1>2, <1>3, <2>1, Zenon DEF ChargedOK
<1>7. InitiatedOK' /\ WatchedOK' /\ OneKeyNeverTakes'
  BY <1>5, Zenon DEF InitiatedOK, WatchedOK, OneKeyNeverTakes
<1> QED
  BY <1>2, <1>4, <1>5, <1>6, <1>7, Zenon DEF CustodyInv

\* Losing or copying a key touches only who holds what, while the coin is inside.
LEMMA KeyStep ==
    ASSUME CustodyInv, NEW k \in familyClaimants, LoseKey(k) \/ CopyKey(k)
    PROVE  CustodyInv'
<1>1. CustodyTypeOK /\ SignedOK /\ SessionsOK /\ InitiatedOK /\ WatchedOK
  BY DEF CustodyInv
<1>2. k \in Devices
  BY <1>1, Claimants, Zenon
<1>3. /\ held' \in [Parties -> SUBSET Devices]
      /\ held["other"] \subseteq held'["other"]
      /\ held'["owner"] \subseteq held["owner"]
  BY <1>1, <1>2 DEF LoseKey, CopyKey, CustodyTypeOK, Parties
<1>4. UNCHANGED <<tier, service, coin, coinSessions, signed, started>>
  BY Zenon DEF LoseKey, CopyKey
<1>5. coin.tree # OutTo("other")
  BY TreeTags, Zenon DEF LoseKey, CopyKey, Outside
<1>6. SignedOK' /\ SessionsOK'
  BY <1>1, <1>3, <1>4, Zenon DEF SignedOK, SessionsOK, within
<1>7. InitiatedOK' /\ WatchedOK' /\ OneKeyNeverTakes'
  BY <1>1, <1>3, <1>4, <1>5, Zenon
     DEF InitiatedOK, WatchedOK, OneKeyNeverTakes, familyClaimants
<1> QED
  BY <1>1, <1>3, <1>4, <1>6, <1>7, Zenon DEF CustodyInv, CustodyTypeOK, ChargedOK

\* A block that ages another party's claim finds the owner unable to cancel it, or
\* still within the watch.
LEMMA BlockStep ==
    ASSUME CustodyInv, Block
    PROVE  CustodyInv'
<1>1. CustodyTypeOK /\ SignedOK /\ SessionsOK /\ InitiatedOK /\ WatchedOK
  BY DEF CustodyInv
<1>2. /\ coin' = [coin EXCEPT !.age = @ + 1]
      /\ UNCHANGED <<tier, held, service, coinSessions, signed, started>>
      /\ ~ \E c \in held["other"] :
              coin.tree = Pending(c) /\ coin.age >= Watch /\ canCancel(c)
  BY DEF Block
<1>3. /\ coin'.tree = coin.tree /\ coin'.value = coin.value /\ coin'.age = coin.age + 1
      /\ coin' \in [tree : Trees, value : Int, age : Nat]
  BY <1>1, <1>2 DEF CustodyTypeOK
<1>4. WatchedOK'
  <2> SUFFICES ASSUME NEW c \in Devices, coin.tree = Pending(c), started.by = "other",
                      familyClaimants \ {c} \subseteq held["owner"]
               PROVE  coin.age + 1 <= Watch
    BY <1>2, <1>3, Zenon DEF WatchedOK, familyClaimants
  <2>1. c \in held["other"] /\ canCancel(c)
    BY <1>1 DEF InitiatedOK, canCancel
  <2>2. ~ (coin.age >= Watch)
    BY <1>2, <2>1, Zenon
  <2> QED
    BY <1>1, <2>2, CustodyConstants DEF CustodyTypeOK
<1>5. SignedOK' /\ SessionsOK'
  BY <1>1, <1>2, <1>3, Zenon DEF SignedOK, SessionsOK, within
<1>6. InitiatedOK' /\ OneKeyNeverTakes'
  BY <1>2, <1>3, Zenon DEF CustodyInv, InitiatedOK, OneKeyNeverTakes, familyClaimants
<1> QED
  BY <1>1, <1>2, <1>3, <1>4, <1>5, <1>6, Zenon DEF CustodyInv, CustodyTypeOK, ChargedOK

\* Every step of the coin, of its two parties and of the service keeps the
\* invariant: one case per action.
LEMMA CustodyInvStep == CustodyInv /\ [CustodyNext]_custodyVars => CustodyInv'
<1> SUFFICES ASSUME CustodyInv, [CustodyNext]_custodyVars PROVE CustodyInv'
  OBVIOUS
<1>1. ASSUME NEW p \in Parties, SignAny(p) PROVE CustodyInv'
  BY <1>1, CosignedStep, Zenon DEF SignAny
<1>2. ASSUME NEW p \in Parties, BroadcastAny(p) PROVE CustodyInv'
  BY <1>2, BroadcastStep, Zenon DEF BroadcastAny
<1>3. ASSUME NEW p \in Parties, SpendAny(p) PROVE CustodyInv'
  BY <1>3, SpendAloneStep, Zenon DEF SpendAny
<1>4. ASSUME NEW p \in Parties, Board(p) PROVE CustodyInv'
  BY <1>4, BoardStep, Zenon
<1>5. ASSUME NEW p \in Parties, NEW purpose \in TransitionPurposes, NEW leaf \in Leaves(coin.tree),
             NEW tx \in proposals(leaf.auth.dest), cosigningFails(p, purpose, leaf, tx)
      PROVE  CustodyInv'
  BY <1>5, CosigningFailsStep, Zenon
<1>6. ASSUME NEW k \in familyClaimants, LoseKey(k) \/ CopyKey(k) PROVE CustodyInv'
  BY <1>6, KeyStep, Zenon
<1>7. CASE ServiceStops
  BY <1>7, Zenon DEF ServiceStops, CustodyInv, CustodyTypeOK, SignedOK, SessionsOK, within, ChargedOK,
              InitiatedOK, WatchedOK, OneKeyNeverTakes, familyClaimants
<1>8. CASE Block
  BY <1>8, BlockStep
<1>9. CASE UNCHANGED custodyVars
  BY <1>9, Zenon DEF custodyVars, CustodyInv, CustodyTypeOK, SignedOK, SessionsOK, within, ChargedOK,
              InitiatedOK, WatchedOK, OneKeyNeverTakes, familyClaimants
<1> QED
  BY <1>1, <1>2, <1>3, <1>4, <1>5, <1>6, <1>7, <1>8, <1>9, Zenon DEF CustodyNext

-----------------------------------------------------------------------------
(* What it shows. *)

\* BuildFamily, BuildPending, BuildQuarantine, BuildVaultPolicyV1Tree: whatever the
\* delays, as long as each is longer than the owner's watch, a party that holds one
\* key never takes the coin from an owner who holds the others, save in the three
\* cases by design.
THEOREM OneKeySafety == CustodySpec => []OneKeyNeverTakes
<1>1. CustodyInv => OneKeyNeverTakes
  BY Zenon DEF CustodyInv
<1> QED
  BY CustodyInvInit, CustodyInvStep, <1>1, PTL DEF CustodySpec

\* BuildTransitionScript: for every fee ceiling, anchor value and amount, initiate
\* and claw-back together cost at most two anchors and two fee ceilings.
THEOREM BoundedLoss == CustodySpec => []LossBounded
<1>1. CustodyInv => LossBounded
  <2> SUFFICES ASSUME CustodyInv PROVE LossBounded
    OBVIOUS
  <2>1. charged(coin.tree) \in {0, P2AValue + AbsoluteFeeCap, 2 * (P2AValue + AbsoluteFeeCap)}
    BY DEF charged
  <2> QED
    BY <2>1, CustodyConstants DEF CustodyInv, CustodyTypeOK, ChargedOK, LossBounded
<1> QED
  BY CustodyInvInit, CustodyInvStep, <1>1, PTL DEF CustodySpec
=============================================================================
