-------------------------- MODULE VaultBoardProofs --------------------------
(***************************************************************************)
(* vault-board-v1 for any number of attempts, calls and commitments, with  *)
(* an Operator that answers late or never and a process that stops         *)
(* anywhere. The invariant ties three places together: the rows of an      *)
(* attempt, the one call that is past the dispatch of a phase (its sender) *)
(* and the one message that call may have put on the wire.                 *)
(***************************************************************************)
EXTENDS VaultBoard, SequenceTheorems, TLAPS

Positive == Nat \ {0}
Results == {"none", "submitted", "rejected", "released"}
Senders == {"send", "await", "persist"}

Attempt == [tree : Trees \cup {None}, expire : Int, authorized : SUBSET {"delete", "finalize"},
            dispatched : SUBSET Phases, result : [Phases -> Results],
            commit : Commitments \cup {None}]
Message == [phase : Phases, attempt : Positive, commit : Commitments \cup {None}]
Call == [pc : {"begin", "replay", "load", "revalidate", "dispatch", "denied"} \cup Senders,
         phase : Phases, attempt : Positive, tree : Trees \cup {None}, expire : Int,
         commit : Commitments \cup {None}, outcome : Results]

TypeOK ==
    /\ attempts \in Seq(Attempt)
    /\ handles \subseteq [attempt : Positive, expire : Int]
    /\ calls \in [Calls -> Call \cup {Idle}]
    /\ DOMAIN operator \subseteq Message
    /\ operator \in [DOMAIN operator -> {"wire", "accepted", "refused", "deleted"}]
    /\ spentBy \in {Unspent, Recovered, "commitment"} \X (Commitments \cup {None})
    /\ now \in Nat

\* The rows of one attempt: a result needs its dispatch, a delete or final needs
\* an accepted registration and excludes the other, and a final has a commitment.
rowsSound(a) ==
    /\ a.authorized = a.dispatched \ {"register"}
    /\ ~ ({"delete", "finalize"} \subseteq a.authorized)
    /\ a.authorized # {} => a.result["register"] = "submitted"
    /\ \A p \in Phases : a.result[p] # "none" => p \in a.dispatched
    /\ a.result["register"] \in {"none", "submitted", "rejected"}
    /\ a.result["delete"] \in {"none", "released"}
    /\ "finalize" \in a.authorized => a.commit \in Commitments

\* A replaced attempt was never sent, is over, or expired long ago.
superseded(a) ==
    \/ "register" \notin a.dispatched
    \/ a.result["register"] = "rejected"
    \/ a.result["delete"] = "released"
    \/ VaultBoardRegisterCanSupersede(a.expire)

AttemptsSound ==
    \A i \in DOMAIN attempts :
        /\ rowsSound(attempts[i])
        /\ i < Len(attempts) => "finalize" \notin attempts[i].authorized /\ superseded(attempts[i])

\* A message on the wire has its dispatch row and the recorded commitment, and a
\* delete that was taken has deleted the registration.
deleting(i) == [phase |-> "delete", attempt |-> i, commit |-> None]

MessagesSound ==
    \A m \in DOMAIN operator :
        /\ m.attempt \in DOMAIN attempts
        /\ m.phase \in attempts[m.attempt].dispatched
        /\ m.commit = IF m.phase = "finalize" THEN attempts[m.attempt].commit ELSE None
        /\ operator[m] = "deleted" => m.phase = "register"
        /\ m.phase = "delete" /\ operator[m] = "accepted" =>
               /\ registered(m.attempt) \in DOMAIN operator
               /\ operator[registered(m.attempt)] = "deleted"

\* No registration of the attempt is or will be with the Operator; its delete was
\* taken.
neverRegistered(i) ==
    registered(i) \in DOMAIN operator => operator[registered(i)] = "refused"
releasedBy(i) == deleting(i) \in DOMAIN operator /\ operator[deleting(i)] = "accepted"

sameKey(j, k) == j.phase = k.phase /\ j.attempt = k.attempt

\* The sender of a phase: one call at most, behind a dispatch row without result.
senderSound(k) ==
    /\ k.attempt \in DOMAIN attempts
    /\ k.phase \in attempts[k.attempt].dispatched
    /\ attempts[k.attempt].result[k.phase] = "none"
    /\ k.phase = "finalize" => k.commit = attempts[k.attempt].commit
    /\ k.pc = "send" => \A m \in DOMAIN operator : ~ sameKey(m, k)
    /\ k.pc = "await" => [phase |-> k.phase, attempt |-> k.attempt, commit |-> k.commit]
                            \in DOMAIN operator
    /\ k.pc = "persist" =>
           /\ k.outcome # "none"
           /\ k.phase = "register" => k.outcome \in {"submitted", "rejected"}
           /\ k.phase = "delete" => k.outcome = "released" /\ releasedBy(k.attempt)
           /\ k.outcome = "rejected" => k.phase = "register" /\ neverRegistered(k.attempt)

CallsSound ==
    \A c \in Calls : calls[c] # Idle =>
        /\ calls[c].commit \in IF calls[c].phase = "finalize" THEN Commitments ELSE {None}
        /\ calls[c].pc \in {"begin", "replay"} => calls[c].phase = "register"
        /\ calls[c].pc \in Senders =>
               /\ senderSound(calls[c])
               /\ \A d \in Calls \ {c} :
                     calls[d].pc \in Senders => ~ sameKey(calls[d], calls[c])

\* What the recorded results say of the Operator.
ResultsSound ==
    \A i \in DOMAIN attempts :
        /\ attempts[i].result["register"] = "rejected" => neverRegistered(i)
        /\ attempts[i].result["delete"] = "released" => releasedBy(i)

SpentSound ==
    spentBy[1] = "commitment" =>
        /\ attempts # <<>>
        /\ "finalize" \in Latest.authorized
        /\ spentBy[2] = Latest.commit

IndInv ==
    /\ TypeOK
    /\ AttemptsSound
    /\ MessagesSound
    /\ CallsSound
    /\ ResultsSound
    /\ SpentSound

-----------------------------------------------------------------------------
(* What the invariant says. *)

\* The last attempt is an attempt.
LEMMA LatestAttempt ==
    ASSUME TypeOK, attempts # <<>>
    PROVE  Len(attempts) \in DOMAIN attempts /\ Latest \in Attempt
BY DEF TypeOK, Latest

\* Messages are told apart by phase, attempt and commit.
LEMMA MessageFields ==
    ASSUME NEW m \in Message
    PROVE  /\ m = [phase |-> m.phase, attempt |-> m.attempt, commit |-> m.commit]
           /\ m.phase \in Phases /\ m.attempt \in Positive
BY DEF Message

\* Two messages of one attempt and phase would be two dispatches of one row.
LEMMA ImpliesSentOnce == IndInv => SentOnce
<1> SUFFICES ASSUME IndInv PROVE SentOnce
  OBVIOUS
<1>1. \A m \in DOMAIN operator : m.phase \in attempts[m.attempt].dispatched
  BY DEF IndInv, MessagesSound
<1>2. ASSUME NEW c \in Calls, At(c, "send")
      PROVE  /\ calls[c].phase \in attempts[calls[c].attempt].dispatched
             /\ message(c) \notin DOMAIN operator
             /\ \A d \in Calls \ {c} : calls[d].pc \in {"send", "await"} => message(d) # message(c)
  <2>1. calls[c] # Idle /\ calls[c].pc \in Senders
    BY <1>2 DEF At, Idle, Senders
  <2>2. senderSound(calls[c])
    BY <2>1 DEF IndInv, CallsSound
  <2>3. message(c).phase = calls[c].phase /\ message(c).attempt = calls[c].attempt
    BY DEF message
  <2>4. message(c) \notin DOMAIN operator
    BY <1>2, <2>2, <2>3 DEF senderSound, sameKey, At
  <2>5. ASSUME NEW d \in Calls \ {c}, calls[d].pc \in {"send", "await"}
        PROVE  message(d) # message(c)
    BY <2>1, <2>3, <2>5 DEF IndInv, CallsSound, Senders, sameKey, message
  <2> QED
    BY <2>2, <2>4, <2>5 DEF senderSound
<1> QED
  BY <1>1, <1>2 DEF SentOnce

\* A final that is authorized is the latest attempt's.
LEMMA FinalIsLatest ==
    ASSUME IndInv, NEW m \in DOMAIN operator, m.phase = "finalize"
    PROVE  /\ attempts # <<>> /\ m.attempt = Len(attempts)
           /\ "finalize" \in Latest.authorized /\ "delete" \notin Latest.authorized
           /\ m = [phase |-> "finalize", attempt |-> Len(attempts), commit |-> Latest.commit]
<1>1. /\ m.attempt \in DOMAIN attempts /\ "finalize" \in attempts[m.attempt].dispatched
      /\ m.commit = attempts[m.attempt].commit
  BY DEF IndInv, MessagesSound
<1>2. /\ "finalize" \in attempts[m.attempt].authorized
      /\ "delete" \notin attempts[m.attempt].authorized
  BY <1>1 DEF IndInv, AttemptsSound, rowsSound
<1>3. attempts \in Seq(Attempt) /\ Len(attempts) \in Nat /\ DOMAIN attempts = 1..Len(attempts)
  BY DEF IndInv, TypeOK
<1>4. m.attempt = Len(attempts) /\ attempts # <<>>
  BY <1>1, <1>2, <1>3 DEF IndInv, AttemptsSound
<1>5. m = [phase |-> m.phase, attempt |-> m.attempt, commit |-> m.commit]
  BY MessageFields DEF IndInv, TypeOK
<1> QED
  BY <1>1, <1>2, <1>4, <1>5 DEF Latest

\* A final message is of the last attempt and carries its commitment, and that
\* attempt has no delete.
LEMMA ImpliesOneCommitment == IndInv => OneCommitment
<1> SUFFICES ASSUME IndInv, NEW m \in DOMAIN operator, NEW n \in DOMAIN operator,
                    m.phase = "finalize"
             PROVE  /\ n.phase = "finalize" => n = m
                    /\ ~ (n.phase = "delete" /\ n.attempt = m.attempt)
  BY DEF OneCommitment
<1>1. n.phase = "finalize" => n = m
  BY FinalIsLatest
<1>2. ASSUME n.phase = "delete", n.attempt = m.attempt PROVE FALSE
  <2>1. n.attempt \in DOMAIN attempts /\ "delete" \in Latest.dispatched /\ Latest = attempts[n.attempt]
    BY <1>2, FinalIsLatest DEF IndInv, MessagesSound, Latest
  <2>2. "delete" \in Latest.authorized
    BY <2>1 DEF IndInv, AttemptsSound, rowsSound
  <2> QED
    BY <2>2, FinalIsLatest
<1> QED
  BY <1>1, <1>2

\* A registration that an Operator may still accept or has accepted belongs to an
\* attempt that could be superseded for its age only.
LEMMA ImpliesOneLiveRegistration == IndInv => OneLiveRegistration
<1> SUFFICES ASSUME IndInv, NEW m \in DOMAIN operator, NEW n \in DOMAIN operator,
                    m.phase = "register", n.phase = "register", m.attempt < n.attempt,
                    operator[m] \in {"wire", "accepted"}
             PROVE  VaultBoardRegisterCanSupersede(attempts[m.attempt].expire)
  BY DEF OneLiveRegistration
<1> DEFINE i == m.attempt
<1>1. i \in DOMAIN attempts /\ n.attempt \in DOMAIN attempts /\ "register" \in attempts[i].dispatched
  BY DEF IndInv, MessagesSound
<1>2. m = registered(i)
  <2>1. m.commit = None
    BY DEF IndInv, MessagesSound
  <2>2. m = [phase |-> m.phase, attempt |-> m.attempt, commit |-> m.commit]
    BY MessageFields DEF IndInv, TypeOK
  <2> QED
    BY <2>1, <2>2 DEF registered
<1>3. i < Len(attempts)
  BY <1>1 DEF IndInv, TypeOK
<1>4. superseded(attempts[i])
  BY <1>1, <1>3 DEF IndInv, AttemptsSound
<1>5. attempts[i].result["register"] # "rejected"
  BY <1>1, <1>2 DEF IndInv, ResultsSound, neverRegistered
<1>6. attempts[i].result["delete"] # "released"
  <2>1. releasedBy(i) => operator[registered(i)] = "deleted"
    <3>1. deleting(i).phase = "delete" /\ deleting(i).attempt = i
      BY DEF deleting
    <3> QED
      BY <3>1 DEF IndInv, MessagesSound, releasedBy
  <2> QED
    BY <1>1, <1>2, <2>1 DEF IndInv, ResultsSound
<1> QED
  BY <1>1, <1>4, <1>5, <1>6 DEF superseded

\* A coin spent by a commitment is spent by the one recorded for the last attempt.
LEMMA ImpliesReconcilable == IndInv => Reconcilable
<1> SUFFICES ASSUME IndInv, spentBy[1] = "commitment"
             PROVE  reconcileVaultBoardFinal
  BY DEF Reconcilable
<1>1. attempts # <<>> /\ "finalize" \in Latest.authorized /\ spentBy[2] = Latest.commit
  BY DEF IndInv, SpentSound
<1>2. Latest.commit \in Commitments
  BY <1>1, LatestAttempt DEF IndInv, AttemptsSound, rowsSound, Latest
<1>3. spentBy = <<spentBy[1], spentBy[2]>>
  BY DEF IndInv, TypeOK
<1> QED
  BY <1>1, <1>2, <1>3, BoardConstants DEF reconcileVaultBoardFinal

\* Prepare and the ledger agree on every attempt whose rows are sound.
LEMMA SameVerdict ==
    ASSUME NEW a \in Attempt, rowsSound(a)
    PROVE  classifyVaultBoardAttempt(a) <=> requireVaultBoardAttemptCanRotate(a)
BY DEF Attempt, rowsSound, Phases, Results, classifyVaultBoardAttempt,
       requireVaultBoardAttemptCanRotate

\* Prepare and the ledger agree on the last attempt.
LEMMA ImpliesPrepareAgrees == IndInv => PrepareAgrees
BY LatestAttempt, SameVerdict DEF IndInv, AttemptsSound, Latest, PrepareAgrees

-----------------------------------------------------------------------------
(* Steps that leave the rows and the Operator alone. *)

\* No attempt has been made and no message sent at the start.
LEMMA IndInvInit == Init => IndInv
<1> SUFFICES ASSUME Init PROVE IndInv
  OBVIOUS
<1>1. TypeOK
  BY DEF Init, TypeOK, Unspent, Recovered
<1>2. AttemptsSound /\ ResultsSound
  BY DEF Init, AttemptsSound, ResultsSound
<1>3. MessagesSound /\ CallsSound /\ SpentSound
  BY DEF Init, MessagesSound, CallsSound, SpentSound, Unspent
<1> QED
  BY <1>1, <1>2, <1>3 DEF IndInv

\* The part of CallsSound that is about one call alone.
carries(k) ==
    /\ k.commit \in IF k.phase = "finalize" THEN Commitments ELSE {None}
    /\ k.pc \in {"begin", "replay"} => k.phase = "register"

\* Time passes, handles are sealed and calls move short of their dispatch.
LEMMA Quiet ==
    ASSUME IndInv, UNCHANGED <<attempts, operator>>,
           handles' \subseteq [attempt : Positive, expire : Int],
           calls' \in [Calls -> Call \cup {Idle}],
           \A d \in Calls : calls'[d] # Idle =>
               /\ carries(calls'[d])
               /\ calls'[d].pc \in Senders => calls'[d] = calls[d],
           spentBy' \in {Unspent, Recovered, "commitment"} \X (Commitments \cup {None}),
           spentBy' = spentBy \/ spentBy'[1] # "commitment",
           now' \in Nat, now' >= now
    PROVE  IndInv'
<1> USE DEF IndInv
<1>1. TypeOK'
  BY DEF TypeOK
<1>2. AttemptsSound'
  <2>1. \A i \in DOMAIN attempts : superseded(attempts[i]) => superseded(attempts[i])'
    <3> TAKE i \in DOMAIN attempts
    <3>1. attempts[i] \in Attempt
      BY DEF TypeOK
    <3>2. attempts[i].expire \in Int
      BY <3>1 DEF Attempt
    <3>3. \A x \in Int : x <= now - Quarantine => x <= now' - Quarantine
      BY BoardConstants DEF TypeOK
    <3>4. now >= Quarantine => now' >= Quarantine
      BY BoardConstants DEF TypeOK
    <3> QED
      BY <3>2, <3>3, <3>4 DEF superseded, VaultBoardRegisterCanSupersede
  <2> QED
    BY <2>1 DEF AttemptsSound, rowsSound
<1>3. MessagesSound' /\ ResultsSound'
  BY DEF MessagesSound, ResultsSound, neverRegistered, releasedBy
<1>4. CallsSound'
  <2> SUFFICES ASSUME NEW c \in Calls, calls'[c] # Idle, calls'[c].pc \in Senders
               PROVE  /\ senderSound(calls'[c])
                      /\ \A d \in Calls \ {c} :
                            calls'[d].pc \in Senders => ~ sameKey(calls'[d], calls'[c])
    BY DEF CallsSound, carries, senderSound, releasedBy, neverRegistered
  <2>1. \A d \in Calls : calls'[d].pc \in Senders => calls'[d] = calls[d]
    BY DEF Idle, Senders
  <2> QED
    BY <2>1, Zenon DEF CallsSound
<1>5. SpentSound'
  BY DEF SpentSound, Latest
<1> QED
  BY <1>1, <1>2, <1>3, <1>4, <1>5

\* A call that ends leaves the others as they are.
LEMMA ReturnCall ==
    ASSUME TypeOK, NEW c \in Calls, Return(c)
    PROVE  /\ calls' \in [Calls -> Call \cup {Idle}] /\ calls'[c] = Idle
           /\ \A d \in Calls \ {c} : calls'[d] = calls[d]
BY DEF TypeOK, Return

\* A call that moves on keeps its phase, attempt and commitment; the others stay.
LEMMA GotoCall ==
    ASSUME TypeOK, NEW c \in Calls, calls[c] # Idle,
           NEW pc \in {"begin", "replay", "load", "revalidate", "dispatch", "denied"} \cup Senders,
           Goto(c, pc)
    PROVE  /\ calls' \in [Calls -> Call \cup {Idle}]
           /\ \A d \in Calls \ {c} : calls'[d] = calls[d]
           /\ calls'[c].pc = pc /\ calls'[c].phase = calls[c].phase
           /\ calls'[c].attempt = calls[c].attempt /\ calls'[c].commit = calls[c].commit
           /\ calls'[c].outcome = calls[c].outcome
<1>1. calls[c] \in Call
  BY DEF TypeOK
<1>2. calls'[c] = [calls[c] EXCEPT !.pc = pc] /\ \A d \in Calls \ {c} : calls'[d] = calls[d]
  BY DEF Goto, TypeOK
<1>3. calls'[c] \in Call
  BY <1>1, <1>2 DEF Call
<1> QED
  BY <1>1, <1>2, <1>3 DEF Goto, TypeOK, Call

-----------------------------------------------------------------------------
(* Steps that write a row. *)

\* Replacing the rows of one attempt.
LEMMA ReplaceAttempt ==
    ASSUME TypeOK, NEW i \in DOMAIN attempts, NEW new \in Attempt,
           attempts' = [attempts EXCEPT ![i] = new]
    PROVE  /\ attempts' \in Seq(Attempt) /\ Len(attempts') = Len(attempts)
           /\ DOMAIN attempts' = DOMAIN attempts
           /\ attempts'[i] = new
           /\ \A j \in DOMAIN attempts \ {i} : attempts'[j] = attempts[j]
<1>1. attempts \in Seq(Attempt)
  BY DEF TypeOK
<1> QED
  BY <1>1, ExceptSeq

\* Where no other call has the key of a call, and no message has, the dispatch
\* row makes that call the sender.
LEMMA DispatchKeeps ==
    ASSUME IndInv, NEW c \in Calls, calls[c] # Idle,
           attempts # <<>>, calls[c].attempt = Len(attempts), calls[c].pc = "dispatch",
           calls[c].phase \notin Latest.dispatched,
           NEW new \in Attempt, attempts' = [attempts EXCEPT ![Len(attempts)] = new],
           rowsSound(new), new.result = Latest.result,
           new.dispatched = Latest.dispatched \cup {calls[c].phase},
           new.commit = IF calls[c].phase = "finalize" THEN calls[c].commit ELSE Latest.commit,
           Goto(c, "send"), UNCHANGED <<handles, operator, spentBy, now>>
    PROVE  IndInv'
<1> USE DEF IndInv
<1> DEFINE i == Len(attempts)
           p == calls[c].phase
<1>1. i \in DOMAIN attempts /\ Latest \in Attempt /\ Latest = attempts[i] /\ i \in Positive
  BY LatestAttempt DEF Latest, TypeOK, Positive
<1>2. /\ attempts' \in Seq(Attempt) /\ Len(attempts') = i
      /\ DOMAIN attempts' = DOMAIN attempts /\ attempts'[i] = new
      /\ \A j \in DOMAIN attempts \ {i} : attempts'[j] = attempts[j]
  BY <1>1, ReplaceAttempt, Zenon
<1>3. /\ calls' \in [Calls -> Call \cup {Idle}]
      /\ \A d \in Calls \ {c} : calls'[d] = calls[d]
      /\ calls'[c].pc = "send" /\ calls'[c].phase = p
      /\ calls'[c].attempt = i /\ calls'[c].commit = calls[c].commit
  BY GotoCall DEF Senders
<1>4. p \in Phases /\ Latest.result \in [Phases -> Results]
  <2>1. calls[c] \in Call
    BY DEF TypeOK
  <2> QED
    BY <1>1, <2>1 DEF Call, Attempt
<1>5. rowsSound(Latest) /\ Latest.result[p] = "none"
  BY <1>1, <1>4 DEF AttemptsSound, rowsSound
<1>6. "finalize" \notin Latest.authorized
  <2> SUFFICES ASSUME "finalize" \in Latest.authorized PROVE FALSE
    OBVIOUS
  <2>1. /\ Latest.authorized = Latest.dispatched \ {"register"}
        /\ Latest.result["register"] = "submitted"
        /\ Latest.result["register"] # "none" => "register" \in Latest.dispatched
    BY <1>5 DEF rowsSound, Phases
  <2>2. new.authorized = new.dispatched \ {"register"} /\ ~ ({"delete", "finalize"} \subseteq new.authorized)
    BY DEF rowsSound
  <2>3. p = "delete"
    BY <2>1, <1>4 DEF Phases
  <2> QED
    BY <2>1, <2>2, <2>3
<1>7. spentBy[1] # "commitment"
  BY <1>6 DEF SpentSound
<1>8. \A m \in DOMAIN operator : ~ (m.attempt = i /\ m.phase = p)
  BY <1>1 DEF MessagesSound
<1>9. \A d \in Calls \ {c} : calls[d].pc \in Senders => ~ (calls[d].attempt = i /\ calls[d].phase = p)
  <2> SUFFICES ASSUME NEW d \in Calls \ {c}, calls[d].pc \in Senders
               PROVE  ~ (calls[d].attempt = i /\ calls[d].phase = p)
    OBVIOUS
  <2>1. calls[d] # Idle
    BY DEF Idle, Senders
  <2>2. senderSound(calls[d])
    BY <2>1 DEF CallsSound
  <2> QED
    BY <1>1, <2>2 DEF senderSound
<1> HIDE DEF i, p
<1>10. TypeOK'
  BY <1>2, <1>3, Zenon DEF TypeOK
<1>11. AttemptsSound'
  <2> SUFFICES ASSUME NEW j \in DOMAIN attempts
               PROVE  /\ rowsSound(attempts'[j])
                      /\ j < i => "finalize" \notin attempts'[j].authorized
                                  /\ superseded(attempts'[j])
    BY <1>2 DEF AttemptsSound, rowsSound, superseded, VaultBoardRegisterCanSupersede
  <2>1. CASE j = i
    BY <2>1, <1>1, <1>2 DEF Positive
  <2>2. CASE j # i
    BY <2>2, <1>1, <1>2 DEF AttemptsSound, i
  <2> QED
    BY <2>1, <2>2, Zenon
<1>12. MessagesSound'
  <2> SUFFICES ASSUME NEW m \in DOMAIN operator
               PROVE  /\ m.attempt \in DOMAIN attempts
                      /\ m.phase \in attempts'[m.attempt].dispatched
                      /\ m.commit = IF m.phase = "finalize" THEN attempts'[m.attempt].commit ELSE None
    BY <1>2 DEF MessagesSound, registered
  <2>1. /\ m.attempt \in DOMAIN attempts /\ m.phase \in attempts[m.attempt].dispatched
        /\ m.commit = IF m.phase = "finalize" THEN attempts[m.attempt].commit ELSE None
    BY DEF MessagesSound
  <2>2. CASE m.attempt = i
    BY <2>1, <2>2, <1>1, <1>2, <1>8 DEF p
  <2>3. CASE m.attempt # i
    BY <2>1, <2>3, <1>2
  <2> QED
    BY <2>2, <2>3, Zenon
<1>13. ResultsSound'
  <2>1. \A j \in DOMAIN attempts : attempts'[j].result = attempts[j].result
    BY <1>1, <1>2, Zenon
  <2> QED
    BY <2>1, <1>2 DEF ResultsSound, neverRegistered, releasedBy, registered, deleting
<1>14. CallsSound'
  <2>1. ASSUME NEW d \in Calls \ {c}, calls[d] # Idle, calls[d].pc \in Senders
        PROVE  senderSound(calls[d])'
    <3>1. senderSound(calls[d]) /\ calls'[d] = calls[d]
      BY <2>1, <1>3 DEF CallsSound
    <3>2. calls[d].attempt = i => calls[d].phase # p
      BY <1>9, <2>1, Zenon
    <3>3. CASE calls[d].attempt = i
      BY <3>1, <3>2, <3>3, <1>1, <1>2 DEF senderSound, neverRegistered, releasedBy, registered, deleting, p
    <3>4. CASE calls[d].attempt # i
      BY <3>1, <3>4, <1>2, ZenonT(60) DEF senderSound, neverRegistered, releasedBy, registered, deleting
    <3> QED
      BY <3>3, <3>4, Zenon
  <2>2. senderSound(calls[c])'
    BY <1>1, <1>2, <1>3, <1>4, <1>5, <1>8, Zenon DEF senderSound, sameKey, p
  <2>3. calls[c].commit \in IF p = "finalize" THEN Commitments ELSE {None}
    BY DEF CallsSound, p
  <2>4. \A d \in Calls \ {c} : calls'[d].pc \in Senders => ~ sameKey(calls'[d], calls'[c])
    BY <1>3, <1>9 DEF sameKey
  <2> QED
    BY <2>1, <2>2, <2>3, <2>4, <1>3 DEF CallsSound, sameKey, Idle, Senders
<1>15. SpentSound'
  BY <1>7 DEF SpentSound
<1> QED
  BY <1>10, <1>11, <1>12, <1>13, <1>14, <1>15

\* A call that ends, or goes on short of its dispatch, disturbs nothing.
LEMMA MovesQuietly ==
    ASSUME IndInv, NEW c \in Calls, calls[c] # Idle,
           UNCHANGED <<attempts, handles, operator, spentBy, now>>,
           \/ Return(c)
           \/ Goto(c, "load") \/ Goto(c, "revalidate") \/ Goto(c, "dispatch") \/ Goto(c, "denied")
           \/ Goto(c, "replay") /\ calls[c].phase = "register"
    PROVE  IndInv'
<1>0. TypeOK
  BY DEF IndInv
<1>1. \A d \in Calls : calls[d] # Idle => carries(calls[d])
  BY DEF IndInv, CallsSound, carries
<1>2. CASE Return(c)
  <2>1. /\ calls' \in [Calls -> Call \cup {Idle}] /\ calls'[c] = Idle
        /\ \A d \in Calls \ {c} : calls'[d] = calls[d]
    BY <1>0, <1>2, ReturnCall
  <2>2. \A d \in Calls : calls'[d] # Idle => calls'[d] = calls[d]
    BY <2>1
  <2>3. \A d \in Calls : calls'[d] # Idle => carries(calls'[d])
    BY <1>1, <2>2
  <2> QED
    BY <1>0, <2>1, <2>2, <2>3, Quiet DEF TypeOK
<1>3. ASSUME NEW pc \in {"load", "revalidate", "dispatch", "denied", "replay"}, Goto(c, pc),
             pc = "replay" => calls[c].phase = "register"
      PROVE  IndInv'
  <2>1. /\ calls' \in [Calls -> Call \cup {Idle}]
        /\ \A d \in Calls \ {c} : calls'[d] = calls[d]
        /\ calls'[c].pc = pc /\ calls'[c].phase = calls[c].phase
        /\ calls'[c].commit = calls[c].commit
    BY <1>0, <1>3, GotoCall
  <2>2. pc \notin Senders /\ pc # "begin"
    BY DEF Senders
  <2>3. carries(calls'[c])
    BY <1>1, <1>3, <2>1, <2>2 DEF carries
  <2>4. \A d \in Calls : calls'[d] # Idle =>
            carries(calls'[d]) /\ (calls'[d].pc \in Senders => calls'[d] = calls[d])
    BY <1>1, <2>1, <2>2, <2>3, Zenon
  <2> QED
    BY <1>0, <2>1, <2>4, Quiet DEF TypeOK
<1> QED
  BY <1>2, <1>3

\* The register dispatch.
LEMMA RegisterDispatchKeeps ==
    ASSUME IndInv, NEW c \in Calls, AppendVaultBoardDispatch(c) PROVE IndInv'
<1>0. calls[c] # Idle /\ calls[c] \in Call
  BY DEF IndInv, TypeOK, AppendVaultBoardDispatch, At, Idle
<1> DEFINE i == calls[c].attempt
<1>1. CASE UNCHANGED attempts /\ (Return(c) \/ Goto(c, "denied"))
  BY <1>0, <1>1, MovesQuietly DEF AppendVaultBoardDispatch
<1>2. CASE /\ "register" \notin attempts[i].dispatched /\ i = Len(attempts)
           /\ attempts' = [attempts EXCEPT ![i].dispatched = @ \cup {"register"}]
           /\ Goto(c, "send")
  <2> DEFINE new == [Latest EXCEPT !.dispatched = @ \cup {"register"}]
  <2>1. attempts # <<>>
    BY <1>0, <1>2 DEF Call, Positive
  <2>2. Latest \in Attempt /\ rowsSound(Latest)
    BY <2>1, LatestAttempt DEF IndInv, AttemptsSound, Latest
  <2>3. /\ new \in Attempt /\ new.result = Latest.result /\ new.commit = Latest.commit
        /\ new.authorized = Latest.authorized /\ new.dispatched = Latest.dispatched \cup {"register"}
    BY <2>2 DEF Attempt, Phases
  <2>4. attempts' = [attempts EXCEPT ![Len(attempts)] = new]
    BY <1>2 DEF Latest
  <2>5. calls[c].phase = "register" /\ calls[c].pc = "dispatch"
    BY DEF AppendVaultBoardDispatch, At
  <2> HIDE DEF new
  <2>6. rowsSound(new)
    BY <2>2, <2>3, Zenon DEF rowsSound
  <2> QED
    BY <1>0, <1>2, <2>1, <2>3, <2>4, <2>5, <2>6, DispatchKeeps, Zenon DEF AppendVaultBoardDispatch, Latest
<1> QED
  BY <1>1, <1>2 DEF AppendVaultBoardDispatch, Deny

\* The authorization and dispatch of a delete or final.
LEMMA PhaseDispatchKeeps ==
    ASSUME IndInv, NEW c \in Calls, AppendVaultBoardAuthorizationAndDispatch(c) PROVE IndInv'
<1>0. calls[c] # Idle /\ calls[c] \in Call
  BY DEF IndInv, TypeOK, AppendVaultBoardAuthorizationAndDispatch, At, Idle
<1> DEFINE i == calls[c].attempt
           p == calls[c].phase
<1>1. CASE UNCHANGED attempts /\ Return(c)
  BY <1>0, <1>1, MovesQuietly DEF AppendVaultBoardAuthorizationAndDispatch
<1>2. CASE /\ p \notin attempts[i].authorized /\ i = Len(attempts)
           /\ validateVaultBoardPhaseOrder(attempts[i], p)
           /\ attempts' = [attempts EXCEPT ![i].authorized = @ \cup {p},
                                           ![i].dispatched = @ \cup {p},
                                           ![i].commit = IF p = "finalize" THEN calls[c].commit ELSE @]
           /\ Goto(c, "send")
  <2> DEFINE one == [Latest EXCEPT !.authorized = @ \cup {p}]
             two == [one EXCEPT !.dispatched = @ \cup {p}]
             new == [two EXCEPT !.commit = IF p = "finalize" THEN calls[c].commit ELSE @]
  <2>1. attempts # <<>>
    BY <1>0, <1>2, Zenon DEF Call, Positive
  <2>2. Latest \in Attempt /\ rowsSound(Latest)
    BY <2>1, LatestAttempt DEF IndInv, AttemptsSound, Latest
  <2>3. p \in {"delete", "finalize"} /\ calls[c].pc = "dispatch"
    BY <1>0 DEF AppendVaultBoardAuthorizationAndDispatch, At, Call, Phases
  <2>4. attempts' = [attempts EXCEPT ![Len(attempts)] = new]
    BY <1>2, Zenon DEF Latest
  <2>5. /\ one \in Attempt /\ one.result = Latest.result /\ one.commit = Latest.commit
        /\ one.authorized = Latest.authorized \cup {p} /\ one.dispatched = Latest.dispatched
    BY <2>2, <2>3 DEF Attempt
  <2> HIDE DEF one
  <2>6. /\ two \in Attempt /\ two.result = Latest.result /\ two.commit = Latest.commit
        /\ two.authorized = Latest.authorized \cup {p} /\ two.dispatched = Latest.dispatched \cup {p}
    BY <2>3, <2>5 DEF Attempt, Phases
  <2> HIDE DEF two
  <2>7. /\ new \in Attempt /\ new.result = Latest.result
        /\ new.commit = IF p = "finalize" THEN calls[c].commit ELSE Latest.commit
        /\ new.authorized = Latest.authorized \cup {p} /\ new.dispatched = Latest.dispatched \cup {p}
    BY <1>0, <2>6 DEF Attempt, Call
  <2> HIDE DEF new
  <2>8. rowsSound(new)
    <3>1. p = "finalize" => calls[c].commit \in Commitments
      BY <1>0 DEF IndInv, CallsSound
    <3>2. Latest.authorized = {}
      BY <1>2 DEF validateVaultBoardPhaseOrder, Latest
    <3> QED
      BY <1>2, <2>2, <2>3, <2>7, <3>1, <3>2 DEF rowsSound, validateVaultBoardPhaseOrder, Latest
  <2>9. p \notin Latest.dispatched
    BY <1>2, <2>2, <2>3 DEF rowsSound, Latest
  <2> QED
    BY <1>0, <1>2, <2>1, <2>3, <2>4, <2>7, <2>8, <2>9, DispatchKeeps, Zenon
       DEF AppendVaultBoardAuthorizationAndDispatch
<1> QED
  BY <1>1, <1>2, Zenon DEF AppendVaultBoardAuthorizationAndDispatch

\* Rotation: the attempt that is replaced is no longer live and was not finalized.
LEMMA RotateSuperseded ==
    ASSUME NEW a \in Attempt, requireVaultBoardAttemptCanRotate(a)
    PROVE  "finalize" \notin a.authorized /\ superseded(a)
BY DEF requireVaultBoardAttemptCanRotate, superseded

\* The next attempt begins.
LEMMA BeginKeeps ==
    ASSUME IndInv, NEW c \in Calls, BeginVaultBoardAttempt(c) PROVE IndInv'
<1> USE DEF IndInv
<1>0. calls[c] # Idle /\ calls[c] \in Call /\ calls[c].phase = "register"
  BY DEF TypeOK, CallsSound, BeginVaultBoardAttempt, At, Idle
<1>1. CASE UNCHANGED attempts /\ (Return(c) \/ Goto(c, "replay"))
  BY <1>0, <1>1, MovesQuietly DEF BeginVaultBoardAttempt
<1>2. CASE /\ attempts # <<>> => requireVaultBoardAttemptCanRotate(Latest)
           /\ attempts' = Append(attempts, newAttempt(calls[c].tree, calls[c].expire))
           /\ Return(c) \/ Goto(c, "replay")
  <2> DEFINE new == newAttempt(calls[c].tree, calls[c].expire)
             n == Len(attempts)
  <2>1. UNCHANGED <<handles, operator, spentBy, now>>
    BY DEF BeginVaultBoardAttempt
  <2>2. /\ new \in Attempt /\ rowsSound(new)
        /\ new.result["register"] = "none" /\ new.result["delete"] = "none"
    <3>1. new \in Attempt
      BY <1>0, Zenon DEF newAttempt, Call, Attempt, Results
    <3>2. rowsSound(new) /\ new.result["register"] = "none" /\ new.result["delete"] = "none"
      BY DEF newAttempt, rowsSound, Phases
    <3> QED
      BY <3>1, <3>2, Zenon
  <2> HIDE DEF new
  <2>3. /\ attempts' \in Seq(Attempt) /\ Len(attempts') = n + 1 /\ n \in Nat
        /\ DOMAIN attempts = 1 .. n /\ DOMAIN attempts' = 1 .. (n + 1)
        /\ attempts'[n + 1] = new
        /\ \A j \in DOMAIN attempts : attempts'[j] = attempts[j]
    <3>1. attempts \in Seq(Attempt) /\ attempts' = Append(attempts, new)
      BY <1>2, Zenon DEF TypeOK, new
    <3> QED
      BY <2>2, <3>1
  <2>4. /\ calls' \in [Calls -> Call \cup {Idle}]
        /\ \A d \in Calls \ {c} : calls'[d] = calls[d]
        /\ \/ calls'[c] = Idle
           \/ /\ calls'[c].pc = "replay" /\ calls'[c].phase = "register"
              /\ calls'[c].commit = calls[c].commit
    <3>1. CASE Return(c)
      BY <3>1, ReturnCall
    <3>2. CASE Goto(c, "replay")
      BY <1>0, <3>2, GotoCall
    <3> QED
      BY <1>2, <3>1, <3>2, Zenon
  <2>5. attempts # <<>> => "finalize" \notin Latest.authorized /\ superseded(Latest)
    BY <1>2, LatestAttempt, RotateSuperseded
  <2>6. spentBy[1] # "commitment"
    BY <2>5 DEF SpentSound
  <2> HIDE DEF n
  <2>7. TypeOK'
    BY <2>1, <2>3, <2>4 DEF TypeOK
  <2>8. AttemptsSound'
    <3> SUFFICES ASSUME NEW j \in 1 .. (n + 1)
                 PROVE  /\ rowsSound(attempts'[j])
                        /\ j < n + 1 => "finalize" \notin attempts'[j].authorized
                                        /\ superseded(attempts'[j])
      BY <2>1, <2>3 DEF AttemptsSound, rowsSound, superseded, VaultBoardRegisterCanSupersede
    <3>1. CASE j = n + 1
      BY <2>2, <2>3, <3>1
    <3>2. CASE j = n /\ j # 0
      <4>1. attempts # <<>> /\ attempts'[j] = Latest /\ j \in DOMAIN attempts
        BY <2>3, <3>2 DEF Latest, n
      <4> QED
        BY <2>5, <4>1 DEF AttemptsSound, Latest
    <3>3. CASE j < n
      BY <2>3, <3>3 DEF AttemptsSound, n
    <3> QED
      BY <2>3, <3>1, <3>2, <3>3
  <2>9. MessagesSound'
    <3>1. \A m \in DOMAIN operator :
             m.attempt \in DOMAIN attempts' /\ attempts'[m.attempt] = attempts[m.attempt]
      BY <2>3 DEF MessagesSound
    <3> QED
      BY <2>1, <3>1, Zenon DEF MessagesSound, registered
  <2>10. ResultsSound'
    <3> SUFFICES ASSUME NEW j \in 1 .. (n + 1)
                 PROVE  /\ attempts'[j].result["register"] = "rejected" => neverRegistered(j)
                        /\ attempts'[j].result["delete"] = "released" => releasedBy(j)
      BY <2>1, <2>3, Zenon DEF ResultsSound, neverRegistered, releasedBy, registered, deleting
    <3>1. CASE j = n + 1
      BY <2>2, <2>3, <3>1
    <3>2. CASE j \in 1 .. n
      BY <2>3, <3>2, Zenon DEF ResultsSound
    <3> QED
      BY <2>3, <3>1, <3>2
  <2>11. CallsSound'
    <3>1. ASSUME NEW d \in Calls \ {c}, calls[d] # Idle, calls[d].pc \in Senders
          PROVE  senderSound(calls[d])'
      <4>1. senderSound(calls[d]) /\ calls'[d] = calls[d]
        BY <2>4, <3>1, Zenon DEF CallsSound
      <4> QED
        BY <2>1, <2>3, <4>1 DEF senderSound, neverRegistered, releasedBy, registered, deleting
    <3>2. calls'[c].pc \notin Senders
      BY <2>4 DEF Idle, Senders
    <3>3. calls[c].commit \in {None}
      BY <1>0, Zenon DEF CallsSound
    <3> QED
      BY <3>1, <3>2, <3>3, <2>4, ZenonT(60) DEF CallsSound, Idle, Senders
  <2>12. SpentSound'
    BY <2>1, <2>6, Zenon DEF SpentSound
  <2> QED
    BY <2>7, <2>8, <2>9, <2>10, <2>11, <2>12, Zenon
<1> QED
  BY <1>1, <1>2 DEF BeginVaultBoardAttempt

-----------------------------------------------------------------------------
(* Sending, the answers and their rows. *)

\* What depends on rows, clock and chain alone.
LEMMA RowsUnchanged ==
    ASSUME IndInv, UNCHANGED <<attempts, spentBy, now>>
    PROVE  AttemptsSound' /\ SpentSound'
BY DEF IndInv, AttemptsSound, SpentSound, rowsSound, superseded, VaultBoardRegisterCanSupersede, Latest

\* A sender and its facts.
LEMMA Sender ==
    ASSUME IndInv, NEW c \in Calls, calls[c].pc \in Senders
    PROVE  /\ calls[c] # Idle /\ calls[c] \in Call /\ senderSound(calls[c])
           /\ calls[c].commit \in IF calls[c].phase = "finalize" THEN Commitments ELSE {None}
           /\ \A d \in Calls \ {c} : calls[d].pc \in Senders => ~ sameKey(calls[d], calls[c])
<1>1. calls[c] # Idle
  BY DEF Idle, Senders
<1> QED
  BY <1>1, Zenon DEF IndInv, TypeOK, CallsSound

\* The message leaves.
LEMMA PostKeeps ==
    ASSUME IndInv, NEW c \in Calls, post(c) PROVE IndInv'
<1> USE DEF IndInv
<1> DEFINE m0 == message(c)
           k == calls[c]
<1>1. /\ k.pc = "send" /\ UNCHANGED <<attempts, handles, spentBy, now>> /\ Goto(c, "await")
      /\ DOMAIN operator' = DOMAIN operator \cup {m0}
      /\ \A m \in DOMAIN operator : operator'[m] = operator[m]
      /\ m0 \notin DOMAIN operator => operator'[m0] = "wire"
      /\ operator' \in [DOMAIN operator \cup {m0} -> {"wire", "accepted", "refused", "deleted"}]
  BY Zenon DEF post, At, TypeOK
<1>2. /\ k # Idle /\ k \in Call /\ senderSound(k)
      /\ k.commit \in IF k.phase = "finalize" THEN Commitments ELSE {None}
      /\ \A d \in Calls \ {c} : calls[d].pc \in Senders => ~ sameKey(calls[d], k)
  BY <1>1, Sender, Zenon DEF Senders
<1>3. /\ m0 \in Message /\ m0.phase = k.phase /\ m0.attempt = k.attempt /\ m0.commit = k.commit
      /\ m0 = [phase |-> k.phase, attempt |-> k.attempt, commit |-> k.commit]
  BY <1>2, Zenon DEF message, Message, Call
<1> HIDE DEF m0
<1>4. m0 \notin DOMAIN operator
  BY <1>1, <1>2, <1>3, Zenon DEF senderSound, sameKey
<1>5. /\ calls' \in [Calls -> Call \cup {Idle}]
      /\ \A d \in Calls \ {c} : calls'[d] = calls[d]
      /\ calls'[c].pc = "await" /\ calls'[c].phase = k.phase
      /\ calls'[c].attempt = k.attempt /\ calls'[c].commit = k.commit
  BY <1>1, <1>2, GotoCall, Zenon DEF Senders
<1>6. /\ k.attempt \in DOMAIN attempts /\ k.phase \in attempts[k.attempt].dispatched
      /\ attempts[k.attempt].result[k.phase] = "none"
      /\ k.phase = "finalize" => k.commit = attempts[k.attempt].commit
  BY <1>2, Zenon DEF senderSound
<1>7. ASSUME NEW i, registered(i) = m0 PROVE k.phase = "register" /\ k.attempt = i
  BY <1>3, <1>7 DEF registered
<1> HIDE DEF k
<1>8. TypeOK'
  BY <1>1, <1>3, <1>5, Zenon DEF TypeOK
<1>9. MessagesSound'
  <2>1. ASSUME NEW m \in DOMAIN operator
        PROVE  /\ m.attempt \in DOMAIN attempts
               /\ m.phase \in attempts[m.attempt].dispatched
               /\ m.commit = IF m.phase = "finalize" THEN attempts[m.attempt].commit ELSE None
               /\ operator'[m] = "deleted" => m.phase = "register"
               /\ m.phase = "delete" /\ operator'[m] = "accepted" =>
                      /\ registered(m.attempt) \in DOMAIN operator'
                      /\ operator'[registered(m.attempt)] = "deleted"
    BY <1>1, Zenon DEF MessagesSound
  <2>2. /\ m0.attempt \in DOMAIN attempts /\ m0.phase \in attempts[m0.attempt].dispatched
        /\ m0.commit = IF m0.phase = "finalize" THEN attempts[m0.attempt].commit ELSE None
        /\ operator'[m0] = "wire"
    BY <1>1, <1>2, <1>3, <1>4, <1>6, Zenon
  <2> QED
    BY <1>1, <2>1, <2>2, Zenon DEF MessagesSound, registered
<1>10. \A i : (k.phase # "register" \/ k.attempt # i) /\ neverRegistered(i) => neverRegistered(i)'
  BY <1>1, <1>7, Zenon DEF neverRegistered, registered
<1>11. \A i : releasedBy(i) => releasedBy(i)'
  BY <1>1, Zenon DEF releasedBy, deleting
<1>12. ResultsSound'
  BY <1>1, <1>6, <1>10, <1>11, Zenon DEF ResultsSound
<1>13. CallsSound'
  <2>1. ASSUME NEW d \in Calls \ {c}, calls[d] # Idle, calls[d].pc \in Senders
        PROVE  senderSound(calls[d])'
    <3>1. senderSound(calls[d]) /\ calls'[d] = calls[d]
      BY <1>5, <2>1, Zenon DEF CallsSound
    <3>2. ~ (calls[d].phase = k.phase /\ calls[d].attempt = k.attempt)
      BY <1>2, <2>1, Zenon DEF sameKey
    <3>3. calls[d].pc = "send" => \A m \in DOMAIN operator' : ~ sameKey(m, calls[d])
      BY <1>1, <1>3, <3>1, <3>2 DEF senderSound, sameKey
    <3>4. /\ calls[d].phase = "delete" /\ releasedBy(calls[d].attempt) => releasedBy(calls[d].attempt)'
          /\ calls[d].phase = "register" /\ neverRegistered(calls[d].attempt)
                => neverRegistered(calls[d].attempt)'
      BY <1>5, <1>10, <1>11, <3>2, Zenon
    <3> QED
      BY <1>1, <3>1, <3>3, <3>4, ZenonT(60) DEF senderSound, sameKey
  <2>2. senderSound(calls[c])'
    BY <1>1, <1>3, <1>5, <1>6 DEF senderSound
  <2> QED
    BY <2>1, <2>2, <1>2, <1>5 DEF CallsSound, sameKey, Idle, Senders
<1> QED
  BY <1>1, <1>8, <1>9, <1>12, <1>13, RowsUnchanged

\* An outcome is to be recorded.
LEMMA PersistKeeps ==
    ASSUME IndInv, NEW c \in Calls, calls[c].pc \in {"send", "await"},
           NEW outcome \in Results \ {"none"},
           calls' = [calls EXCEPT ![c].pc = "persist", ![c].outcome = outcome],
           calls[c].phase = "register" => outcome \in {"submitted", "rejected"},
           calls[c].phase = "delete" => outcome = "released" /\ releasedBy(calls[c].attempt),
           outcome = "rejected" => calls[c].phase = "register" /\ neverRegistered(calls[c].attempt),
           UNCHANGED <<attempts, handles, operator, spentBy, now>>
    PROVE  IndInv'
<1> USE DEF IndInv
<1> DEFINE k == calls[c]
           half == [k EXCEPT !.pc = "persist"]
           new == [half EXCEPT !.outcome = outcome]
<1>1. /\ k # Idle /\ k \in Call /\ senderSound(k)
      /\ k.commit \in IF k.phase = "finalize" THEN Commitments ELSE {None}
      /\ \A d \in Calls \ {c} : calls[d].pc \in Senders => ~ sameKey(calls[d], k)
  BY Sender DEF Senders
<1>2. calls'[c] = new /\ \A d \in Calls \ {c} : calls'[d] = calls[d]
  BY DEF TypeOK
<1>3. calls' = [calls EXCEPT ![c] = new]
  OBVIOUS
<1> HIDE DEF new
<1>4. half \in Call /\ half.pc = "persist" /\ half.phase = k.phase /\ half.attempt = k.attempt
      /\ half.commit = k.commit
  BY <1>1 DEF Call, Senders
<1> HIDE DEF half
<1>5. /\ new \in Call /\ new.pc = "persist" /\ new.phase = k.phase /\ new.attempt = k.attempt
      /\ new.commit = k.commit /\ new.outcome = outcome
  BY <1>4 DEF new, Call
<1>6. calls' \in [Calls -> Call \cup {Idle}]
  BY <1>3, <1>5, Zenon DEF TypeOK
<1>7. TypeOK'
  BY <1>6 DEF TypeOK
<1>8. MessagesSound' /\ ResultsSound'
  BY DEF MessagesSound, ResultsSound, neverRegistered, releasedBy
<1>9. CallsSound'
  <2>1. ASSUME NEW d \in Calls \ {c}, calls[d] # Idle, calls[d].pc \in Senders
        PROVE  senderSound(calls[d])'
    <3>1. senderSound(calls[d]) /\ calls'[d] = calls[d]
      BY <1>2, <2>1, Zenon DEF CallsSound
    <3> QED
      BY <3>1, Zenon DEF senderSound, neverRegistered, releasedBy
  <2>2. senderSound(calls[c])'
    <3>1. /\ k.attempt \in DOMAIN attempts /\ k.phase \in attempts[k.attempt].dispatched
          /\ attempts[k.attempt].result[k.phase] = "none"
          /\ k.phase = "finalize" => k.commit = attempts[k.attempt].commit
      BY <1>1 DEF senderSound
    <3>2. senderSound(new)
      BY <1>5, <3>1 DEF senderSound
    <3> QED
      BY <1>2, <3>2, Zenon DEF senderSound, neverRegistered, releasedBy
  <2> QED
    <3>1. \A d \in Calls : calls'[d].pc \in Senders <=> calls[d].pc \in Senders
      BY <1>2, <1>5, Zenon DEF Senders
    <3>2. \A d, e \in Calls : sameKey(calls'[d], calls'[e]) <=> sameKey(calls[d], calls[e])
      BY <1>2, <1>5, Zenon DEF sameKey
    <3>3. carries(calls'[c])
      BY <1>1, <1>2, <1>5 DEF carries
    <3>4. \A d \in Calls \ {c} : calls'[d] # Idle => carries(calls'[d])
      <4>1. \A d \in Calls : calls[d] # Idle => carries(calls[d])
        BY DEF CallsSound, carries
      <4> QED
        BY <1>2, <4>1, Zenon
    <3>5. ASSUME NEW d \in Calls, calls'[d].pc \in Senders PROVE senderSound(calls[d])'
      <4>1. calls[d] # Idle /\ calls[d].pc \in Senders
        BY <3>1, <3>5, Sender
      <4> QED
        BY <2>1, <2>2, <4>1, Zenon
    <3>6. \A d, e \in Calls :
             e # d /\ calls'[d].pc \in Senders /\ calls'[e].pc \in Senders => ~ sameKey(calls'[e], calls'[d])
      BY <3>1, <3>2, Sender, Zenon
    <3> QED
      BY <3>3, <3>4, <3>5, <3>6, Zenon DEF CallsSound, carries, sameKey
<1> QED
  BY <1>7, <1>8, <1>9, RowsUnchanged

\* Nothing left the process: a register counts as rejected.
LEMMA NotSentKeeps ==
    ASSUME IndInv, NEW c \in Calls, postNotSent(c) PROVE IndInv'
<1>1. calls[c].pc = "send" /\ calls[c] # Idle /\ senderSound(calls[c])
  BY Sender DEF postNotSent, At, Senders
<1>2. CASE calls[c].phase = "register"
  <2>1. neverRegistered(calls[c].attempt)
    BY <1>1, <1>2 DEF senderSound, sameKey, neverRegistered, registered
  <2> QED
    BY <1>1, <1>2, <2>1, PersistKeeps DEF postNotSent, Results
<1>3. CASE calls[c].phase # "register"
  BY <1>1, <1>3, MovesQuietly, Zenon DEF postNotSent
<1> QED
  BY <1>2, <1>3

\* The Operator's answer says what became of the message.
LEMMA AnswerKeeps ==
    ASSUME IndInv, NEW c \in Calls, operatorAnswers(c) PROVE IndInv'
<1> DEFINE k == calls[c]
           refused == operator[message(c)] = "refused"
           outcome == IF refused THEN "rejected"
                      ELSE IF k.phase = "delete" THEN "released" ELSE "submitted"
<1>1. /\ k.pc = "await" /\ k # Idle /\ k \in Call /\ senderSound(k)
      /\ k.commit \in IF k.phase = "finalize" THEN Commitments ELSE {None}
  BY Sender DEF operatorAnswers, At, Senders
<1>2. message(c) \in DOMAIN operator /\ operator[message(c)] # "wire" /\ k.phase \in Phases
  BY <1>1 DEF senderSound, message, operatorAnswers, Call
<1>3. CASE refused /\ k.phase # "register"
  BY <1>1, <1>3, MovesQuietly DEF operatorAnswers
<1>4. CASE ~ (refused /\ k.phase # "register")
  <2>1. calls' = [calls EXCEPT ![c].pc = "persist", ![c].outcome = outcome]
        /\ UNCHANGED <<attempts, handles, operator, spentBy, now>>
    BY <1>4 DEF operatorAnswers
  <2>2. k.phase = "register" /\ refused => neverRegistered(k.attempt)
    BY <1>1, Zenon DEF neverRegistered, registered, message
  <2>3. k.phase = "delete" => releasedBy(k.attempt)
    <3>1. operator[message(c)] \in {"wire", "accepted", "refused", "deleted"}
      BY <1>2, Zenon DEF IndInv, TypeOK
    <3>2. operator[message(c)] = "deleted" => k.phase = "register"
      BY <1>2, Zenon DEF IndInv, MessagesSound, message
    <3> QED
      BY <1>1, <1>2, <1>4, <3>1, <3>2 DEF releasedBy, deleting, message
  <2>4. /\ outcome \in Results \ {"none"} /\ (outcome = "rejected" <=> refused)
        /\ k.phase = "delete" => outcome = "released"
        /\ k.phase = "register" => outcome \in {"submitted", "rejected"}
    BY <1>4 DEF Results
  <2> HIDE DEF outcome, refused
  <2> QED
    BY <1>1, <1>2, <1>4, <2>1, <2>2, <2>3, <2>4, PersistKeeps, Zenon
<1> QED
  BY <1>3, <1>4

\* The result row of the one sender of its phase.
LEMMA SubmissionKeeps ==
    ASSUME IndInv, NEW c \in Calls, AppendVaultBoardSubmission(c) PROVE IndInv'
<1> USE DEF IndInv
<1> DEFINE k == calls[c]
           i == k.attempt
           a == attempts[i]
           new == [a EXCEPT !.result[k.phase] = k.outcome]
<1>1. /\ k.pc = "persist" /\ UNCHANGED <<handles, operator, spentBy, now>>
      /\ attempts' = [attempts EXCEPT ![i].result[k.phase] = k.outcome]
      /\ Return(c) \/ Goto(c, "denied")
  BY DEF AppendVaultBoardSubmission, At, Deny
<1>2. /\ k # Idle /\ k \in Call /\ senderSound(k)
      /\ k.commit \in IF k.phase = "finalize" THEN Commitments ELSE {None}
      /\ \A d \in Calls \ {c} : calls[d].pc \in Senders => ~ sameKey(calls[d], k)
  BY <1>1, Sender, Zenon DEF Senders
<1>3. k.phase \in Phases /\ k.outcome \in Results
  BY <1>2 DEF Call
<1>4. /\ i \in DOMAIN attempts /\ k.phase \in a.dispatched /\ a.result[k.phase] = "none"
      /\ k.outcome # "none"
      /\ k.phase = "register" => k.outcome \in {"submitted", "rejected"}
      /\ k.phase = "delete" => k.outcome = "released" /\ releasedBy(i)
      /\ k.outcome = "rejected" => k.phase = "register" /\ neverRegistered(i)
  BY <1>1, <1>2 DEF senderSound
<1>5. a \in Attempt /\ rowsSound(a)
  BY <1>4 DEF TypeOK, AttemptsSound
<1>6. attempts' = [attempts EXCEPT ![i] = new]
  BY <1>1, Zenon
<1>7. /\ new \in Attempt /\ new.authorized = a.authorized /\ new.dispatched = a.dispatched
      /\ new.commit = a.commit /\ new.expire = a.expire
      /\ new.result[k.phase] = k.outcome
      /\ \A p \in Phases \ {k.phase} : new.result[p] = a.result[p]
  <2>1. a.result \in [Phases -> Results]
    BY <1>5, Zenon DEF Attempt
  <2>2. [a.result EXCEPT ![k.phase] = k.outcome] \in [Phases -> Results]
    BY <1>3, <2>1
  <2>3. new = [a EXCEPT !.result = [a.result EXCEPT ![k.phase] = k.outcome]]
    BY <1>5, Zenon
  <2> QED
    BY <1>3, <1>5, <2>1, <2>2, <2>3, Zenon DEF Attempt
<1> HIDE DEF new
<1>8. /\ attempts' \in Seq(Attempt) /\ Len(attempts') = Len(attempts)
      /\ DOMAIN attempts' = DOMAIN attempts /\ attempts'[i] = new
      /\ \A j \in DOMAIN attempts \ {i} : attempts'[j] = attempts[j]
  BY <1>4, <1>6, <1>7, ReplaceAttempt, Zenon
<1>9. /\ calls' \in [Calls -> Call \cup {Idle}]
      /\ \A d \in Calls \ {c} : calls'[d] = calls[d]
      /\ \/ calls'[c] = Idle
         \/ calls'[c].pc = "denied" /\ calls'[c].phase = k.phase /\ calls'[c].commit = k.commit
  <2>1. CASE Return(c)
    BY <2>1, ReturnCall, Zenon
  <2>2. CASE Goto(c, "denied")
    BY <1>2, <2>2, GotoCall, Zenon
  <2> QED
    BY <1>1, <2>1, <2>2, Zenon
<1>10. /\ new.result["register"] = IF k.phase = "register" THEN k.outcome ELSE a.result["register"]
       /\ new.result["delete"] = IF k.phase = "delete" THEN k.outcome ELSE a.result["delete"]
       /\ new.result["finalize"] = IF k.phase = "finalize" THEN k.outcome ELSE a.result["finalize"]
  BY <1>7, Zenon DEF Phases
<1>11. rowsSound(new)
  <2>1. new.authorized # {} => new.result["register"] = "submitted"
    BY <1>4, <1>5, <1>7, <1>10, Zenon DEF rowsSound
  <2>2. \A p \in Phases : new.result[p] # "none" => p \in new.dispatched
    BY <1>4, <1>5, <1>7, Zenon DEF rowsSound
  <2>3. /\ new.result["register"] \in {"none", "submitted", "rejected"}
        /\ new.result["delete"] \in {"none", "released"}
    BY <1>4, <1>5, <1>10, Zenon DEF rowsSound
  <2> QED
    BY <1>5, <1>7, <2>1, <2>2, <2>3 DEF rowsSound
<1>12. superseded(a) => superseded(new)
  BY <1>4, <1>5, <1>7, <1>10, Zenon DEF superseded, rowsSound
<1> HIDE DEF k, i
<1>13. \A j \in DOMAIN attempts :
          /\ attempts'[j].authorized = attempts[j].authorized
          /\ attempts'[j].dispatched = attempts[j].dispatched
          /\ attempts'[j].commit = attempts[j].commit
  BY <1>7, <1>8
<1>14. TypeOK'
  BY <1>1, <1>8, <1>9, Zenon DEF TypeOK
<1>15. AttemptsSound'
  <2> SUFFICES ASSUME NEW j \in DOMAIN attempts
               PROVE  /\ rowsSound(attempts'[j])
                      /\ j < Len(attempts) => "finalize" \notin attempts'[j].authorized
                                              /\ superseded(attempts'[j])
    BY <1>1, <1>8 DEF AttemptsSound, rowsSound, superseded, VaultBoardRegisterCanSupersede
  <2> QED
    BY <1>8, <1>11, <1>12, <1>13, Zenon DEF AttemptsSound
<1>16. MessagesSound'
  BY <1>1, <1>8, <1>13, ZenonT(60) DEF MessagesSound, registered
<1>17. ResultsSound'
  <2> SUFFICES ASSUME NEW j \in DOMAIN attempts
               PROVE  /\ attempts'[j].result["register"] = "rejected" => neverRegistered(j)
                      /\ attempts'[j].result["delete"] = "released" => releasedBy(j)
    BY <1>1, <1>8 DEF ResultsSound, neverRegistered, releasedBy, registered, deleting
  <2>1. CASE j = i
    BY <1>4, <1>8, <1>10, <2>1 DEF ResultsSound
  <2>2. CASE j # i
    BY <1>8, <2>2 DEF ResultsSound
  <2> QED
    BY <2>1, <2>2
<1>18. CallsSound'
  <2>1. ASSUME NEW d \in Calls \ {c}, calls[d] # Idle, calls[d].pc \in Senders
        PROVE  senderSound(calls[d])'
    <3>1. senderSound(calls[d]) /\ calls'[d] = calls[d] /\ calls[d] \in Call
      BY <1>9, <2>1, Zenon DEF CallsSound, TypeOK
    <3>2. ~ (calls[d].phase = k.phase /\ calls[d].attempt = i) /\ calls[d].phase \in Phases
      BY <1>2, <2>1, <3>1 DEF sameKey, i, Call
    <3>3. calls[d].attempt \in DOMAIN attempts
      BY <3>1, Zenon DEF senderSound
    <3>4. attempts'[calls[d].attempt].result[calls[d].phase] = attempts[calls[d].attempt].result[calls[d].phase]
      BY <1>7, <1>8, <3>2, <3>3, Zenon
    <3> QED
      BY <1>1, <1>8, <1>13, <3>1, <3>3, <3>4, Zenon
         DEF senderSound, neverRegistered, releasedBy, registered, deleting
  <2>2. calls'[c].pc \notin Senders
    BY <1>9 DEF Idle, Senders
  <2>3. calls'[c] # Idle => carries(calls'[c])
    BY <1>2, <1>9, Zenon DEF carries, k
  <2> QED
    BY <2>1, <2>2, <2>3, <1>9, Zenon DEF CallsSound, carries, Idle, Senders
<1>19. SpentSound'
  <2> SUFFICES ASSUME spentBy[1] = "commitment"
               PROVE  /\ attempts' # <<>> /\ "finalize" \in Latest'.authorized
                      /\ spentBy[2] = Latest'.commit
    BY <1>1 DEF SpentSound
  <2>1. attempts # <<>> /\ Len(attempts) \in DOMAIN attempts
    BY LatestAttempt DEF SpentSound
  <2>2. attempts' # <<>>
    BY <1>8, <2>1
  <2> QED
    BY <1>8, <1>13, <2>1, <2>2 DEF SpentSound, Latest
<1> QED
  BY <1>14, <1>15, <1>16, <1>17, <1>18, <1>19, Zenon

-----------------------------------------------------------------------------
(* The Operator, the chain, and all steps together. *)

\* What the Operator may do with the messages it has.
LEMMA OperatorKeeps ==
    ASSUME IndInv, UNCHANGED <<attempts, handles, calls, spentBy, now>>,
           DOMAIN operator' = DOMAIN operator,
           operator' \in [DOMAIN operator -> {"wire", "accepted", "refused", "deleted"}],
           \A m \in DOMAIN operator :
               /\ operator'[m] = "deleted" => m.phase = "register"
               /\ m.phase = "delete" /\ operator'[m] = "accepted" =>
                      /\ registered(m.attempt) \in DOMAIN operator
                      /\ operator'[registered(m.attempt)] = "deleted",
           \A i : neverRegistered(i) => neverRegistered(i)',
           \A i : releasedBy(i) => releasedBy(i)'
    PROVE  IndInv'
<1> USE DEF IndInv
<1>1. TypeOK'
  BY Zenon DEF TypeOK
<1>2. MessagesSound'
  BY Zenon DEF MessagesSound, registered
<1>3. ResultsSound'
  BY Zenon DEF ResultsSound
<1>4. CallsSound'
  <2>1. ASSUME NEW c \in Calls, senderSound(calls[c]) PROVE senderSound(calls[c])'
    <3>1. neverRegistered(calls[c].attempt) => neverRegistered(calls[c].attempt)'
      OBVIOUS
    <3>2. releasedBy(calls[c].attempt) => releasedBy(calls[c].attempt)'
      OBVIOUS
    <3> QED
      BY <2>1, <3>1, <3>2, Zenon DEF senderSound, sameKey
  <2> QED
    BY <2>1, Zenon DEF CallsSound, sameKey
<1> QED
  BY <1>1, <1>2, <1>3, <1>4, RowsUnchanged, Zenon

\* The Operator takes a message; a delete removes the registration it names.
LEMMA TakesKeeps ==
    ASSUME IndInv, NEW m \in DOMAIN operator, operatorTakes(m) PROVE IndInv'
<1> USE DEF IndInv
<1> DEFINE reg == registered(m.attempt)
<1>1. /\ operator[m] = "wire" /\ UNCHANGED <<attempts, handles, calls, spentBy, now>>
      /\ m.phase # "register" => reg \in DOMAIN operator /\ operator[reg] = "accepted"
      /\ DOMAIN operator' = DOMAIN operator
      /\ operator' \in [DOMAIN operator -> {"wire", "accepted", "refused", "deleted"}]
  BY DEF operatorTakes, TypeOK
<1>2. \A x \in DOMAIN operator :
         operator'[x] = IF x = m THEN "accepted"
                        ELSE IF m.phase = "delete" /\ x = reg THEN "deleted" ELSE operator[x]
  BY Zenon DEF operatorTakes
<1>3. reg.phase = "register" /\ (m.phase = "delete" => reg # m)
  BY DEF registered
<1>4. ASSUME NEW x \in DOMAIN operator
      PROVE  /\ operator'[x] = "deleted" => x.phase = "register"
             /\ x.phase = "delete" /\ operator'[x] = "accepted" =>
                    /\ registered(x.attempt) \in DOMAIN operator
                    /\ operator'[registered(x.attempt)] = "deleted"
  <2>1. CASE x = m
    BY <1>1, <1>2, <1>3, <2>1, Zenon
  <2>2. CASE x # m
    <3>1. operator'[x] = "deleted" => x.phase = "register"
      BY <1>2, <1>3, <2>2, Zenon DEF MessagesSound
    <3>2. ASSUME x.phase = "delete", operator'[x] = "accepted"
          PROVE  /\ registered(x.attempt) \in DOMAIN operator
                 /\ operator[registered(x.attempt)] = "deleted"
      <4>1. operator[x] = "accepted"
        BY <1>2, <1>3, <2>2, <3>2, Zenon
      <4> QED
        BY <3>2, <4>1 DEF MessagesSound
    <3> QED
      BY <1>1, <1>2, <3>1, <3>2, Zenon
  <2> QED
    BY <2>1, <2>2, Zenon
<1>5. \A i : neverRegistered(i) => neverRegistered(i)'
  <2> SUFFICES ASSUME NEW i, neverRegistered(i), registered(i) \in DOMAIN operator
               PROVE  operator'[registered(i)] = "refused"
    BY <1>1 DEF neverRegistered, registered
  <2>1. operator[registered(i)] = "refused"
    BY Zenon DEF neverRegistered
  <2> QED
    BY <1>1, <1>2, <2>1, Zenon
<1>6. \A i : releasedBy(i) => releasedBy(i)'
  <2> SUFFICES ASSUME NEW i, deleting(i) \in DOMAIN operator, operator[deleting(i)] = "accepted"
               PROVE  operator'[deleting(i)] = "accepted"
    BY <1>1, Zenon DEF releasedBy, deleting
  <2>1. deleting(i).phase = "delete"
    BY Zenon DEF deleting
  <2> QED
    BY <1>1, <1>2, <1>3, <2>1, Zenon
<1> HIDE DEF reg
<1> QED
  BY <1>1, <1>4, <1>5, <1>6, OperatorKeeps, Zenon

\* The Operator refuses a message, which it then has neither taken nor deleted.
LEMMA RefusesKeeps ==
    ASSUME IndInv, NEW m \in DOMAIN operator, operatorRefuses(m) PROVE IndInv'
<1> USE DEF IndInv
<1>1. /\ operator[m] = "wire" /\ UNCHANGED <<attempts, handles, calls, spentBy, now>>
      /\ DOMAIN operator' = DOMAIN operator
      /\ operator' \in [DOMAIN operator -> {"wire", "accepted", "refused", "deleted"}]
      /\ \A x \in DOMAIN operator : operator'[x] = IF x = m THEN "refused" ELSE operator[x]
  BY Zenon DEF operatorRefuses, TypeOK
<1>2. ASSUME NEW x \in DOMAIN operator
      PROVE  /\ operator'[x] = "deleted" => x.phase = "register"
             /\ x.phase = "delete" /\ operator'[x] = "accepted" =>
                    /\ registered(x.attempt) \in DOMAIN operator
                    /\ operator'[registered(x.attempt)] = "deleted"
  BY <1>1, Zenon DEF MessagesSound
<1>3. \A i : neverRegistered(i) => neverRegistered(i)'
  BY <1>1, Zenon DEF neverRegistered, registered
<1>4. \A i : releasedBy(i) => releasedBy(i)'
  BY <1>1 DEF releasedBy, deleting
<1> QED
  BY <1>1, <1>2, <1>3, <1>4, OperatorKeeps, Zenon

\* The confirmed commitment is the one of the latest attempt.
LEMMA ConfirmKeeps ==
    ASSUME IndInv, NEW m \in DOMAIN operator, confirmCommitment(m) PROVE IndInv'
<1> USE DEF IndInv
<1>1. /\ m.phase = "finalize" /\ UNCHANGED <<attempts, handles, calls, operator, now>>
      /\ spentBy' = <<"commitment", m.commit>>
  BY DEF confirmCommitment
<1>2. /\ attempts # <<>> /\ "finalize" \in Latest.authorized /\ m.commit = Latest.commit
  BY <1>1, FinalIsLatest
<1>3. Latest.commit \in Commitments \cup {None}
  BY <1>2, LatestAttempt, Zenon DEF Attempt
<1>4. TypeOK'
  BY <1>1, <1>2, <1>3, Zenon DEF TypeOK
<1>5. AttemptsSound'
  BY <1>1, Zenon DEF AttemptsSound, rowsSound, superseded, VaultBoardRegisterCanSupersede
<1>6. MessagesSound' /\ ResultsSound'
  BY <1>1, Zenon DEF MessagesSound, ResultsSound, neverRegistered, releasedBy
<1>7. CallsSound'
  BY <1>1, ZenonT(60) DEF CallsSound, senderSound, neverRegistered, releasedBy
<1>8. SpentSound'
  BY <1>1, <1>2, Zenon DEF SpentSound, Latest
<1> QED
  BY <1>4, <1>5, <1>6, <1>7, <1>8, Zenon

\* A new call starts short of its dispatch.
LEMMA StartsQuietly ==
    ASSUME IndInv, NEW c \in Calls, NEW r \in Call, r.pc \in {"begin", "load"}, carries(r),
           calls' = [calls EXCEPT ![c] = r],
           UNCHANGED <<attempts, handles, operator, spentBy, now>>
    PROVE  IndInv'
<1>1. TypeOK /\ \A d \in Calls : calls[d] # Idle => carries(calls[d])
  BY DEF IndInv, CallsSound, carries
<1>2. /\ calls' \in [Calls -> Call \cup {Idle}]
      /\ calls'[c] = r /\ \A d \in Calls \ {c} : calls'[d] = calls[d]
  BY <1>1 DEF TypeOK
<1>3. \A d \in Calls : calls'[d] # Idle =>
         carries(calls'[d]) /\ (calls'[d].pc \in Senders => calls'[d] = calls[d])
  BY <1>1, <1>2, Zenon DEF Senders
<1> QED
  BY <1>1, <1>2, <1>3, Quiet DEF TypeOK

\* The steps of one call.
LEMMA CallStep ==
    ASSUME IndInv, NEW c \in Calls,
           \/ \E h \in handles, tree \in Trees : registerVaultBoard(c, h, tree)
           \/ releaseVaultBoard(c)
           \/ \E i \in DOMAIN attempts, x \in Commitments : submitVaultBoardCommitment(c, i, x)
           \/ replayVaultBoardRegister(c) \/ loadCurrentAttempt(c) \/ revalidateVaultBoardOutpoint(c)
           \/ readDenied(c) \/ Fail(c)
    PROVE  IndInv'
<1>0. TypeOK
  BY DEF IndInv
<1>1. ASSUME NEW h \in handles, NEW tree \in Trees, registerVaultBoard(c, h, tree) PROVE IndInv'
  <2> DEFINE r == [pc |-> "begin", phase |-> "register", attempt |-> h.attempt, tree |-> tree,
                   expire |-> h.expire, commit |-> None, outcome |-> "none"]
  <2>1. h.attempt \in Positive /\ h.expire \in Int
    BY <1>0, Zenon DEF TypeOK
  <2>2. r \in Call /\ r.pc = "begin" /\ carries(r)
    BY <2>1, Zenon DEF Call, Phases, Results, carries
  <2>3. calls' = [calls EXCEPT ![c] = r] /\ UNCHANGED <<attempts, handles, operator, spentBy, now>>
    BY <1>1 DEF registerVaultBoard
  <2> HIDE DEF r
  <2> QED
    BY <2>2, <2>3, StartsQuietly, Zenon
<1>2. CASE releaseVaultBoard(c)
  <2> DEFINE r == [pc |-> "load", phase |-> "delete", attempt |-> Len(attempts), tree |-> None,
                   expire |-> now + RegisterTTL, commit |-> None, outcome |-> "none"]
  <2>1. Len(attempts) \in Positive /\ now + RegisterTTL \in Int
    BY <1>0, <1>2, BoardConstants DEF TypeOK, releaseVaultBoard, Positive
  <2>2. r \in Call /\ r.pc = "load" /\ carries(r)
    BY <2>1 DEF Call, Phases, Results, carries
  <2>3. calls' = [calls EXCEPT ![c] = r] /\ UNCHANGED <<attempts, handles, operator, spentBy, now>>
    BY <1>2, Zenon DEF releaseVaultBoard
  <2> HIDE DEF r
  <2> QED
    BY <2>2, <2>3, StartsQuietly, Zenon
<1>3. ASSUME NEW i \in DOMAIN attempts, NEW x \in Commitments, submitVaultBoardCommitment(c, i, x)
      PROVE  IndInv'
  <2> DEFINE r == [pc |-> "load", phase |-> "finalize", attempt |-> i, tree |-> None,
                   expire |-> 0, commit |-> x, outcome |-> "none"]
  <2>1. i \in Positive
    BY <1>0 DEF TypeOK, Positive
  <2>2. r \in Call /\ r.pc = "load" /\ carries(r)
    BY <2>1 DEF Call, Phases, Results, carries
  <2>3. calls' = [calls EXCEPT ![c] = r] /\ UNCHANGED <<attempts, handles, operator, spentBy, now>>
    BY <1>3, Zenon DEF submitVaultBoardCommitment
  <2> HIDE DEF r
  <2> QED
    BY <2>2, <2>3, StartsQuietly, Zenon
<1>4. CASE replayVaultBoardRegister(c)
  BY <1>4, MovesQuietly DEF replayVaultBoardRegister, At, Idle, Deny
<1>5. CASE loadCurrentAttempt(c)
  <2>0. calls[c].pc = "load"
    BY <1>5, Zenon DEF loadCurrentAttempt, At
  <2>1. calls[c] # Idle
    BY <2>0 DEF Idle
  <2>2. UNCHANGED <<attempts, handles, operator, spentBy, now>>
    BY <1>5, Zenon DEF loadCurrentAttempt
  <2>3. Goto(c, "revalidate") \/ Return(c)
    BY <1>5, Zenon DEF loadCurrentAttempt
  <2> QED BY <2>1, <2>2, <2>3, MovesQuietly, Zenon
<1>6. CASE revalidateVaultBoardOutpoint(c)
  <2>1. calls[c] # Idle
    BY <1>6 DEF revalidateVaultBoardOutpoint, At, Idle
  <2>2. UNCHANGED <<attempts, handles, operator, spentBy, now>>
    BY <1>6, Zenon DEF revalidateVaultBoardOutpoint
  <2>3. Goto(c, "dispatch") \/ Goto(c, "denied") \/ Return(c)
    BY <1>6, ZenonT(60) DEF revalidateVaultBoardOutpoint, Deny
  <2> QED BY <2>1, <2>2, <2>3, MovesQuietly, Zenon
<1>7. CASE readDenied(c)
  BY <1>7, MovesQuietly DEF readDenied, At, Idle
<1>8. CASE Fail(c)
  BY <1>8, MovesQuietly, Zenon DEF Fail
<1> QED
  BY <1>1, <1>2, <1>3, <1>4, <1>5, <1>6, <1>7, <1>8, Zenon

\* Every step keeps the invariant.
LEMMA IndInvStep == IndInv /\ [Next]_vars => IndInv'
<1> SUFFICES ASSUME IndInv, [Next]_vars PROVE IndInv'
  OBVIOUS
<1>0. /\ TypeOK /\ \A d \in Calls : calls[d] # Idle => carries(calls[d])
      /\ now <= now
  BY DEF IndInv, TypeOK, CallsSound, carries
<1>1. CASE UNCHANGED vars
  BY <1>0, <1>1, Quiet, Zenon DEF vars, TypeOK
<1>2. CASE prepareVaultBoard
  <2>1. Len(attempts) + 1 \in Positive /\ now + RegisterTTL \in Int
    BY <1>0, BoardConstants DEF TypeOK, Positive
  <2>2. handles' \subseteq [attempt : Positive, expire : Int]
    BY <1>0, <1>2, <2>1 DEF prepareVaultBoard, TypeOK
  <2> QED
    BY <1>0, <1>2, <2>2, Quiet, Zenon DEF prepareVaultBoard, TypeOK
<1>3. ASSUME NEW c \in Calls, BeginVaultBoardAttempt(c) PROVE IndInv'
  BY <1>3, BeginKeeps
<1>4. ASSUME NEW c \in Calls,
             AppendVaultBoardDispatch(c) \/ AppendVaultBoardAuthorizationAndDispatch(c)
      PROVE  IndInv'
  BY <1>4, RegisterDispatchKeeps, PhaseDispatchKeeps, Zenon
<1>5. ASSUME NEW c \in Calls,
             post(c) \/ postNotSent(c) \/ operatorAnswers(c) \/ AppendVaultBoardSubmission(c)
      PROVE  IndInv'
  BY <1>5, PostKeeps, NotSentKeeps, AnswerKeeps, SubmissionKeeps, Zenon
<1>6. ASSUME NEW m \in DOMAIN operator,
             operatorTakes(m) \/ operatorRefuses(m) \/ confirmCommitment(m)
      PROVE  IndInv'
  BY <1>6, TakesKeeps, RefusesKeeps, ConfirmKeeps, Zenon
<1>7. CASE Restart
  BY <1>0, <1>7, Quiet, Zenon DEF Restart, TypeOK
<1>8. CASE reachCutoff
  BY <1>0, <1>8, Quiet, Zenon DEF reachCutoff, TypeOK
<1>9. CASE recoverOutpoint
  BY <1>0, <1>9, Quiet, Zenon DEF recoverOutpoint, TypeOK, Recovered
<1>10. CASE Tick
  BY <1>0, <1>10, Quiet DEF Tick, TypeOK
<1> QED
  BY <1>1, <1>2, <1>3, <1>4, <1>5, <1>6, <1>7, <1>8, <1>9, <1>10, CallStep, Zenon DEF Next

\* The rows, the senders and the messages agree in every reachable state.
LEMMA IndInvariant == Spec => []IndInv
BY IndInvInit, IndInvStep, PTL DEF Spec

\* Every message has a durable dispatch row and one sender, whatever the number
\* of calls and restarts (AppendVaultBoardDispatch and its delete and final form).
THEOREM SendSafety == Spec => []SentOnce
BY IndInvariant, ImpliesSentOnce, PTL

\* Over all attempts of an outpoint one commitment at most gets the cosigner's
\* signature, and never one of a released attempt (phase order and rotation).
THEOREM CommitmentSafety == Spec => []OneCommitment
BY IndInvariant, ImpliesOneCommitment, PTL

\* A registration that a later attempt replaced and that is not refused or
\* deleted has been expired for the quarantine (requireVaultBoardAttemptCanRotate).
THEOREM RegistrationSafety == Spec => []OneLiveRegistration
BY IndInvariant, ImpliesOneLiveRegistration, PTL

\* A commitment that spent the outpoint is recorded by the current attempt, so
\* reconcileVaultBoardFinal recognises it.
THEOREM ReconcileSafety == Spec => []Reconcilable
BY IndInvariant, ImpliesReconcilable, PTL

\* prepare's classification and the ledger's rotation rule decide alike in every
\* reachable state.
THEOREM ClassificationAgrees == Spec => []PrepareAgrees
BY IndInvariant, ImpliesPrepareAgrees, PTL
=============================================================================
