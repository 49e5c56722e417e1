----------------------------- MODULE VaultBoard -----------------------------
(***************************************************************************)
(* vault-board-v1: moving one confirmed boarding outpoint into Spending    *)
(* (internal/application/vault_board_*.go over the authorization, dispatch *)
(* and submission tables of internal/policy/vault_board.go).               *)
(*                                                                         *)
(* Operations of different outpoints share no row, so one outpoint is      *)
(* modelled: its attempts, the phase calls in flight, the stock Operator   *)
(* behind a lossy network, and the chain. A call signs without a lock,     *)
(* appends a dispatch row, and only then sends.                            *)
(***************************************************************************)
EXTENDS Integers, Sequences, FiniteSets

CONSTANTS
    Trees,         \* tree session keys of the SDK, fresh for every request
    Commitments,   \* commitment transactions the Operator proposes
    Calls,         \* phase calls in flight
    RegisterTTL,   \* vaultBoardRegisterTTL and vaultBoardDeleteTTL
    Margin,        \* vaultBoardDispatchMargin
    Quarantine,    \* vaultBoardRegisterQuarantine
    MaxTime,       \* bound of the clock
    MaxAttempts,   \* bound of the attempts of the operation
    MaxHandles,    \* bound of the handles a client keeps
    None           \* no commitment

ASSUME BoardConstants ==
    /\ RegisterTTL \in Nat /\ Margin \in Nat /\ Quarantine \in Nat
    /\ MaxTime \in Nat /\ MaxAttempts \in Nat /\ MaxHandles \in Nat
    /\ None \notin Commitments

VARIABLES
    attempts,   \* rows of the operation, one record per register attempt
    handles,    \* sealed "ready" handles the client holds
    calls,      \* phase calls in flight
    operator,   \* messages sent to the Operator, and what became of each
    spentBy,    \* the spender of the outpoint, as the chain index shows it
    mature,     \* the tip's median time past reached the recovery delay
    now

vars == <<attempts, handles, calls, operator, spentBy, mature, now>>

-----------------------------------------------------------------------------
Phases == {"register", "delete", "finalize"}
Unspent == "unspent"
Recovered == "recovered"
Idle == [pc |-> "idle"]

\* A record of attempts holds the rows of one attempt: tree, expire, authorized
\* (delete, finalize; the register one is the record itself), dispatched, result
\* per phase, and commit of the final phase. A call has its pc, phase, attempt,
\* tree, expire, commit and the outcome it is to persist. A message is a phase, an
\* attempt and a commit.

Init ==
    /\ attempts = <<>>
    /\ handles = {}
    /\ calls = [c \in Calls |-> Idle]
    /\ operator = [m \in {} |-> "wire"]
    /\ spentBy = <<Unspent, None>>
    /\ mature = FALSE
    /\ now = 1

At(c, pc) == calls[c].pc = pc
Goto(c, pc) == calls' = [calls EXCEPT ![c].pc = pc]
Return(c) == calls' = [calls EXCEPT ![c] = Idle]

\* definitely_not_submitted; the client reads the answer in a step of its own.
Deny(c) == Goto(c, "denied")

Spent == spentBy[1] # Unspent

\* The outpoint is unspent and its cooperative path has not matured.
Cooperative == ~ Spent /\ ~ mature

Latest == attempts[Len(attempts)]

-----------------------------------------------------------------------------
(* Which attempts may be replaced, decided by prepare and by the ledger. *)

VaultBoardRegisterCanSupersede(expire) == now >= Quarantine /\ expire <= now - Quarantine

\* Mutation: an unanswered registration is superseded once it expired.
MutClassify(a) ==
    IF a.result["finalize"] # "none" \/ "finalize" \in a.authorized THEN FALSE
    ELSE IF a.result["register"] = "rejected" \/ a.result["delete"] = "released" THEN TRUE
    ELSE IF "delete" \in a.dispatched THEN FALSE
    ELSE IF "register" \in a.dispatched THEN VaultBoardRegisterCanSupersede(a.expire)
    ELSE TRUE

\* prepare answers ready for the next attempt, or blocked.
classifyVaultBoardAttempt(a) ==
    IF \/ a.result["finalize"] # "none"
       \/ "finalize" \in a.authorized \cup a.dispatched THEN FALSE
    ELSE IF a.result["register"] = "rejected" \/ a.result["delete"] = "released" THEN TRUE
    ELSE IF "delete" \in a.dispatched THEN FALSE
    ELSE IF "register" \in a.dispatched /\ a.result["register"] = "none" THEN FALSE
    ELSE IF a.result["register"] # "none" \/ "register" \in a.dispatched
    THEN a.result["register"] = "submitted" /\ VaultBoardRegisterCanSupersede(a.expire)
    ELSE TRUE

\* Mutation: a superseded attempt may already be finalized.
MutRotateFinal(a) ==
    \/ "register" \notin a.dispatched
    \/ a.result["register"] = "rejected"
    \/ a.result["register"] = "submitted" /\ VaultBoardRegisterCanSupersede(a.expire)

requireVaultBoardAttemptCanRotate(a) ==
    /\ "finalize" \notin a.authorized
    /\ \/ "register" \notin a.dispatched
       \/ a.result["register"] = "rejected"
       \/ /\ a.result["register"] # "none"
          /\ IF "delete" \in a.authorized /\ "delete" \in a.dispatched
             THEN a.result["delete"] = "released"
             ELSE /\ a.result["register"] = "submitted"
                  /\ VaultBoardRegisterCanSupersede(a.expire)

requireVaultBoardAttemptCurrent(a) ==
    /\ a.result["register"] # "rejected"
    /\ a.authorized = {}
    /\ a.result["delete"] = "none"

-----------------------------------------------------------------------------
(* POST /v1/vtxo/board/prepare. *)

\* Seals a handle for the next attempt. Finalized and blocked answers change
\* nothing; nothing is signed once the outpoint is spent or matured.
prepareVaultBoard ==
    /\ Cooperative
    /\ attempts # <<>> => classifyVaultBoardAttempt(Latest)
    /\ Cardinality(handles) < MaxHandles
    /\ handles' = handles \cup {[attempt |-> Len(attempts) + 1, expire |-> now + RegisterTTL]}
    /\ UNCHANGED <<attempts, calls, operator, spentBy, mature, now>>

\* prepare and reconcileVaultBoardFinal: the commitment that spent the outpoint
\* is the one the final authorization recorded.
reconcileVaultBoardFinal ==
    attempts # <<>> /\ Latest.commit # None /\ spentBy = <<"commitment", Latest.commit>>

-----------------------------------------------------------------------------
(* POST /v1/vtxo/board/register. *)

registerVaultBoard(c, h, tree) ==
    /\ calls[c] = Idle
    /\ h.expire > now
    /\ Cooperative
    /\ calls' = [calls EXCEPT ![c] =
                   [pc |-> "begin", phase |-> "register", attempt |-> h.attempt, tree |-> tree,
                    expire |-> h.expire, commit |-> None, outcome |-> "none"]]
    /\ UNCHANGED <<attempts, handles, operator, spentBy, mature, now>>

newAttempt(tree, expire) ==
    [tree |-> tree, expire |-> expire, authorized |-> {}, dispatched |-> {},
     result |-> [p \in Phases |-> "none"], commit |-> None]

\* A request seen before is only good as an exact retry of the latest attempt;
\* a new one takes the next attempt, which must be the one of the handle.
BeginVaultBoardAttempt(c) ==
    /\ At(c, "begin")
    /\ LET r == calls[c]
           seen == {i \in DOMAIN attempts : attempts[i].tree = r.tree}
           next == Len(attempts) + 1
       IN  \/ /\ Len(attempts) \in seen
              /\ Latest.expire = r.expire
              /\ requireVaultBoardAttemptCurrent(Latest)
              /\ IF r.attempt = Len(attempts) THEN Goto(c, "replay") ELSE Return(c)
              /\ UNCHANGED attempts
           \/ /\ seen = {}
              /\ r.expire > now
              /\ next <= MaxAttempts
              /\ attempts # <<>> => requireVaultBoardAttemptCanRotate(Latest)
              /\ attempts' = Append(attempts, newAttempt(r.tree, r.expire))
              /\ IF r.attempt = next THEN Goto(c, "replay") ELSE Return(c)
    /\ UNCHANGED <<handles, operator, spentBy, mature, now>>

\* A recorded outcome is answered; a dispatch without one is ambiguous.
replayVaultBoardRegister(c) ==
    /\ At(c, "replay")
    /\ LET i == calls[c].attempt
           a == attempts[i]
       IN  IF i # Len(attempts) \/ a.result["register"] = "submitted" THEN Return(c)
           ELSE IF a.result["register"] = "rejected" THEN Deny(c)
           ELSE IF "register" \in a.dispatched THEN Return(c)
           ELSE Goto(c, "revalidate")
    /\ UNCHANGED <<attempts, handles, operator, spentBy, mature, now>>

-----------------------------------------------------------------------------
(* POST /v1/vtxo/board/release and /final. *)

\* The retained attempt is released with a handle of its own. This code seals
\* none (no classification asks for a release) and honours one that it gets.
releaseVaultBoard(c) ==
    /\ calls[c] = Idle
    /\ Cooperative
    /\ attempts # <<>>
    /\ calls' = [calls EXCEPT ![c] =
                   [pc |-> "load", phase |-> "delete", attempt |-> Len(attempts), tree |-> None,
                    expire |-> now + RegisterTTL, commit |-> None, outcome |-> "none"]]
    /\ UNCHANGED <<attempts, handles, operator, spentBy, mature, now>>

\* The final handle is the one the attempt was registered with; its expiry is
\* not looked at again.
submitVaultBoardCommitment(c, i, commit) ==
    /\ calls[c] = Idle
    /\ Cooperative
    /\ \E h \in handles : h.attempt = i
    /\ calls' = [calls EXCEPT ![c] =
                   [pc |-> "load", phase |-> "finalize", attempt |-> i, tree |-> None,
                    expire |-> 0, commit |-> commit, outcome |-> "none"]]
    /\ UNCHANGED <<attempts, handles, operator, spentBy, mature, now>>

\* GetCurrentVaultBoardAttempt; a result or dispatch of the phase ends the call.
loadCurrentAttempt(c) ==
    /\ At(c, "load")
    /\ LET r == calls[c]
       IN  IF /\ r.attempt = Len(attempts)
              /\ r.phase = "finalize" => Latest.result["register"] = "submitted"
              /\ r.phase \notin Latest.dispatched
              /\ Latest.result[r.phase] = "none"
           THEN Goto(c, "revalidate") ELSE Return(c)
    /\ UNCHANGED <<attempts, handles, operator, spentBy, mature, now>>

-----------------------------------------------------------------------------
(* Revalidation, dispatch, sending and the result, of every phase. *)

\* The signature exists in memory; the chain, the Operator and the lifetime of
\* the proof are checked again. Only a register answers definitely.
revalidateVaultBoardOutpoint(c) ==
    /\ At(c, "revalidate")
    /\ LET r == calls[c]
           fresh == Cooperative /\ (r.phase # "finalize" => r.expire - now >= Margin)
       IN  \/ fresh /\ Goto(c, "dispatch")
           \/ IF r.phase = "register" THEN Deny(c) ELSE Return(c)
    /\ UNCHANGED <<attempts, handles, operator, spentBy, mature, now>>

\* Mutation: a second call finds the row and sends as well.
MutDispatchTwice(c) ==
    /\ At(c, "dispatch") /\ calls[c].phase = "register"
    /\ calls[c].attempt = Len(attempts)
    /\ attempts' = [attempts EXCEPT ![calls[c].attempt].dispatched = @ \cup {"register"}]
    /\ Goto(c, "send")
    /\ UNCHANGED <<handles, operator, spentBy, mature, now>>

\* Mutation: an attempt that was replaced is dispatched all the same.
MutDispatchOld(c) ==
    /\ At(c, "dispatch") /\ calls[c].phase = "register"
    /\ LET i == calls[c].attempt
       IN  IF "register" \in attempts[i].dispatched THEN Return(c) /\ UNCHANGED attempts
           ELSE /\ attempts' = [attempts EXCEPT ![i].dispatched = @ \cup {"register"}]
                /\ Goto(c, "send")
    /\ UNCHANGED <<handles, operator, spentBy, mature, now>>

\* The register dispatch: only the call that inserts the row sends. A refused or
\* failing insert is denied.
AppendVaultBoardDispatch(c) ==
    /\ At(c, "dispatch") /\ calls[c].phase = "register"
    /\ LET i == calls[c].attempt
           a == attempts[i]
       IN  \/ "register" \in a.dispatched /\ Return(c) /\ UNCHANGED attempts
           \/ /\ "register" \notin a.dispatched
              /\ i = Len(attempts) /\ a.result["register"] = "none"
              /\ attempts' = [attempts EXCEPT ![i].dispatched = @ \cup {"register"}]
              /\ Goto(c, "send")
           \/ Deny(c) /\ UNCHANGED attempts
    /\ UNCHANGED <<handles, operator, spentBy, mature, now>>

\* Mutation: delete and finalize are checked one by one.
MutPhaseOrder(a, phase) == a.result["register"] = "submitted"

\* A phase needs an accepted registration and excludes the opposite phase.
validateVaultBoardPhaseOrder(a, phase) ==
    /\ a.result["register"] = "submitted"
    /\ a.authorized \subseteq {phase}

\* Authorization and dispatch of a delete or final, in one transaction.
AppendVaultBoardAuthorizationAndDispatch(c) ==
    /\ At(c, "dispatch") /\ calls[c].phase # "register"
    /\ LET r == calls[c]
           i == r.attempt
       IN  IF /\ i = Len(attempts)
              /\ r.phase \notin attempts[i].authorized
              /\ validateVaultBoardPhaseOrder(attempts[i], r.phase)
           THEN /\ attempts' = [attempts EXCEPT ![i].authorized = @ \cup {r.phase},
                                               ![i].dispatched = @ \cup {r.phase},
                                               ![i].commit = IF r.phase = "finalize"
                                                             THEN r.commit ELSE @]
                /\ Goto(c, "send")
           ELSE Return(c) /\ UNCHANGED attempts
    /\ UNCHANGED <<handles, operator, spentBy, mature, now>>

message(c) == [phase |-> calls[c].phase, attempt |-> calls[c].attempt, commit |-> calls[c].commit]

post(c) ==
    /\ At(c, "send")
    /\ operator' = [m \in DOMAIN operator \cup {message(c)} |->
                      IF m \in DOMAIN operator THEN operator[m] ELSE "wire"]
    /\ Goto(c, "await")
    /\ UNCHANGED <<attempts, handles, spentBy, mature, now>>

\* vaultBoardOperatorNotSent: nothing left, a register counts as rejected.
postNotSent(c) ==
    /\ At(c, "send")
    /\ IF calls[c].phase = "register"
       THEN calls' = [calls EXCEPT ![c].pc = "persist", ![c].outcome = "rejected"]
       ELSE Return(c)
    /\ UNCHANGED <<attempts, handles, operator, spentBy, mature, now>>

\* The Operator's answer arrives. A refusal is definite for a register only.
operatorAnswers(c) ==
    /\ At(c, "await")
    /\ operator[message(c)] # "wire"
    /\ LET phase == calls[c].phase
           refused == operator[message(c)] = "refused"
           outcome == IF refused THEN "rejected"
                      ELSE IF phase = "delete" THEN "released" ELSE "submitted"
       IN  IF refused /\ phase # "register" THEN Return(c)
           ELSE calls' = [calls EXCEPT ![c].pc = "persist", ![c].outcome = outcome]
    /\ UNCHANGED <<attempts, handles, operator, spentBy, mature, now>>

\* The result row is written once; the same result again is no change.
AppendVaultBoardSubmission(c) ==
    /\ At(c, "persist")
    /\ LET r == calls[c]
           stored == attempts[r.attempt].result[r.phase]
       IN  /\ stored \in {"none", r.outcome}
           /\ attempts' = [attempts EXCEPT ![r.attempt].result[r.phase] = r.outcome]
           /\ IF r.outcome = "rejected" THEN Deny(c) ELSE Return(c)
    /\ UNCHANGED <<handles, operator, spentBy, mature, now>>

\* The client reads definitely_not_submitted.
readDenied(c) ==
    /\ At(c, "denied")
    /\ Return(c)
    /\ UNCHANGED <<attempts, handles, operator, spentBy, mature, now>>

\* An error, a timeout or an ambiguous answer ends the call where it stands; a
\* failed write of a result does too.
Fail(c) ==
    /\ calls[c] # Idle
    /\ Return(c)
    /\ UNCHANGED <<attempts, handles, operator, spentBy, mature, now>>

\* The process stops: handles and rows survive.
Restart ==
    /\ calls' = [c \in Calls |-> Idle]
    /\ UNCHANGED <<attempts, handles, operator, spentBy, mature, now>>

-----------------------------------------------------------------------------
(* The stock Operator and the chain. *)

registered(i) == [phase |-> "register", attempt |-> i, commit |-> None]

\* A message on the wire may arrive long after its caller gave up. A delete
\* needs the intent, a commitment is completed for a registered intent.
operatorTakes(m) ==
    /\ operator[m] = "wire"
    /\ m.phase # "register" => /\ registered(m.attempt) \in DOMAIN operator
                               /\ operator[registered(m.attempt)] = "accepted"
    /\ operator' = [x \in DOMAIN operator |->
                      IF x = m THEN "accepted"
                      ELSE IF m.phase = "delete" /\ x = registered(m.attempt) THEN "deleted"
                      ELSE operator[x]]
    /\ UNCHANGED <<attempts, handles, calls, spentBy, mature, now>>

operatorRefuses(m) ==
    /\ operator[m] = "wire"
    /\ operator' = [operator EXCEPT ![m] = "refused"]
    /\ UNCHANGED <<attempts, handles, calls, spentBy, mature, now>>

\* A commitment with all signatures confirms, also after the cutoff.
confirmCommitment(m) ==
    /\ m.phase = "finalize" /\ operator[m] = "accepted"
    /\ ~ Spent
    /\ spentBy' = <<"commitment", m.commit>>
    /\ UNCHANGED <<attempts, handles, calls, operator, mature, now>>

reachCutoff ==
    /\ ~ mature
    /\ mature' = TRUE
    /\ UNCHANGED <<attempts, handles, calls, operator, spentBy, now>>

\* The phone spends the recovery leaf.
recoverOutpoint ==
    /\ mature /\ ~ Spent
    /\ spentBy' = <<Recovered, None>>
    /\ UNCHANGED <<attempts, handles, calls, operator, mature, now>>

Tick ==
    /\ now < MaxTime
    /\ now' = now + 1
    /\ UNCHANGED <<attempts, handles, calls, operator, spentBy, mature>>

Next ==
    \/ prepareVaultBoard
    \/ \E c \in Calls :
          \/ \E h \in handles, tree \in Trees : registerVaultBoard(c, h, tree)
          \/ releaseVaultBoard(c)
          \/ \E i \in DOMAIN attempts, x \in Commitments : submitVaultBoardCommitment(c, i, x)
          \/ BeginVaultBoardAttempt(c) \/ replayVaultBoardRegister(c) \/ loadCurrentAttempt(c)
          \/ revalidateVaultBoardOutpoint(c)
          \/ AppendVaultBoardDispatch(c) \/ AppendVaultBoardAuthorizationAndDispatch(c)
          \/ post(c) \/ postNotSent(c) \/ operatorAnswers(c) \/ AppendVaultBoardSubmission(c)
          \/ readDenied(c) \/ Fail(c)
    \/ \E m \in DOMAIN operator :
          operatorTakes(m) \/ operatorRefuses(m) \/ confirmCommitment(m)
    \/ Restart \/ reachCutoff \/ recoverOutpoint \/ Tick

Spec == Init /\ [][Next]_vars

-----------------------------------------------------------------------------
(* Properties. *)

\* AppendVaultBoard*Dispatch: a message only leaves with a durable dispatch row,
\* and of several calls of one phase exactly one sends.
SentOnce ==
    /\ \A m \in DOMAIN operator : m.phase \in attempts[m.attempt].dispatched
    /\ \A c \in Calls : At(c, "send") =>
         /\ calls[c].phase \in attempts[calls[c].attempt].dispatched
         /\ message(c) \notin DOMAIN operator
         /\ \A d \in Calls \ {c} :
              calls[d].pc \in {"send", "await"} => message(d) # message(c)

\* Phase order and rotation together: across all attempts, the cosigner's
\* signature leaves for one commitment at most, and never for a released attempt.
OneCommitment ==
    \A m, n \in DOMAIN operator :
        m.phase = "finalize" =>
            /\ n.phase = "finalize" => n = m
            /\ ~ (n.phase = "delete" /\ n.attempt = m.attempt)

\* "a lost HTTP response cannot create a second authoritative attempt": of two
\* registrations the Operator holds or may still receive, the older one has been
\* expired for longer than the quarantine.
OneLiveRegistration ==
    \A m, n \in DOMAIN operator :
        /\ m.phase = "register" /\ n.phase = "register" /\ m.attempt < n.attempt
        /\ operator[m] \in {"wire", "accepted"}
        => VaultBoardRegisterCanSupersede(attempts[m.attempt].expire)

\* reconcileVaultBoardFinal: a commitment that spent the outpoint is the one the
\* current attempt recorded, whichever responses, results or processes were lost.
Reconcilable == spentBy[1] = "commitment" => reconcileVaultBoardFinal

\* prepare and BeginVaultBoardAttempt decide separately whether the current
\* attempt may be replaced; in every state they decide alike.
PrepareAgrees ==
    attempts # <<>> =>
        (classifyVaultBoardAttempt(Latest) <=> requireVaultBoardAttemptCanRotate(Latest))
=============================================================================
