---------------------------- MODULE ServiceProofs ----------------------------
(***************************************************************************)
(* Enrollment, for any number of invitations, ceremonies and finish calls, *)
(* across restarts and expiries. Its invariant follows a ceremony from its *)
(* start to the vault: an id is offered for one token, the pending row is  *)
(* the last one offered, a finish call carries an offered id, and a vault  *)
(* and its invitation name each other.                                     *)
(*                                                                         *)
(* Then the life cycle of an authorizer process, for any set of networks   *)
(* and requests and for clocks and times to live of any length. Four       *)
(* inductive invariants, one per concern: which secrets main holds at each *)
(* of its steps, which requests can be in flight there, which database is  *)
(* open there, and what the readiness cache knows. The last part is about  *)
(* the policy sequence that the process keeps beside its ledger: a ledger  *)
(* rolled back behind it is not served, for any finite set of rows and any *)
(* number of crashes, failures, backups and restores.                      *)
(***************************************************************************)
EXTENDS RuntimeHost, PolicySequence, Enrollment, FiniteSetTheorems, TLAPS

-----------------------------------------------------------------------------
(* Enrollment. *)

Ceremony == [id : Ids, policy : Policies]
Pending == [id : Ids \cup {None}, policy : Policies \cup {None}, expires : Int]
Call == [pc : {"create", "publish", "duplicate"}, token : Tokens, id : Ids,
         request : Requests, policy : Policies, copy : Pending]

EnrollmentTypeOK ==
    /\ invites \in [Tokens -> [created : Int, expires : Int, consumed : Ids \cup {None}]]
    /\ pending \in [Tokens -> Pending]
    /\ vaults \in [Ids -> [token : Tokens \cup {None}, request : Requests \cup {None},
                           policy : Policies \cup {None}]]
    /\ calls \in [Calls -> Call \cup {Idle}]
    /\ offered \in [Tokens -> Seq(Ceremony)]
    /\ answers \subseteq [token : Tokens, id : Ids, request : Requests, policy : Policies]
    /\ now \in Nat

Last(s) == s[Len(s)]

isOffered(v, t) == \E i \in DOMAIN offered[t] : offered[t][i].id = v

\* An id is drawn when it is offered, and offered for one token.
OfferedOnce ==
    /\ \A v \in Ids, t \in Tokens : isOffered(v, t) => v \in drawn
    /\ \A v \in Ids, t, u \in Tokens : isOffered(v, t) /\ isOffered(v, u) => t = u

\* A session token that has not been drawn has no row; a pending row is the last
\* ceremony offered for its token.
RowsSound ==
    /\ \A t \in SessionTokens \ drawn : invites[t] = NoInvite
    /\ \A t \in Tokens : pending[t].id # None =>
           /\ offered[t] # <<>>
           /\ Last(offered[t]) = [id |-> pending[t].id, policy |-> pending[t].policy]

\* The vault of an id has a token, whose row says consumed and whose last offered
\* ceremony made the vault.
VaultsSound ==
    /\ \A v \in Enrolled :
           /\ vaults[v].token \in Tokens
           /\ invites[vaults[v].token].consumed = v
           /\ offered[vaults[v].token] # <<>>
           /\ Last(offered[vaults[v].token]) = [id |-> v, policy |-> vaults[v].policy]
    /\ \A t \in Tokens : invites[t].consumed # None =>
           vaults[invites[t].consumed].token = t

\* A finish call carries an id offered for its token and the ceremony it loaded;
\* past the transaction its vault is stored.
callSound(k) ==
    /\ isOffered(k.id, k.token)
    /\ k.copy.id = k.id /\ k.copy.policy = k.policy
    /\ k.pc = "publish" =>
           vaults[k.id] = [token |-> k.token, request |-> k.request, policy |-> k.policy]

CallsSound == \A c \in Calls : calls[c] # Idle => callSound(calls[c])

AnswersSound ==
    \A a \in answers :
        vaults[a.id] = [token |-> a.token, request |-> a.request, policy |-> a.policy]

EnrollmentInv ==
    /\ EnrollmentTypeOK
    /\ OfferedOnce
    /\ RowsSound
    /\ VaultsSound
    /\ CallsSound
    /\ AnswersSound

\* The last place of a list.
LEMMA LastPlace ==
    ASSUME NEW T, NEW l \in Seq(T), l # <<>>
    PROVE  Len(l) \in DOMAIN l
OBVIOUS

\* A fresh invitation has the type of its row.
LEMMA NewInvite ==
    ASSUME NEW made \in Nat, NEW w \in Nat
    PROVE  LET new == [created |-> made, expires |-> made + w, consumed |-> None]
           IN  /\ new \in [created : Int, expires : Int, consumed : Ids \cup {None}]
               /\ new.consumed = None
OBVIOUS

-----------------------------------------------------------------------------
\* No invitation, ceremony or vault exists at the start.
LEMMA EnrollmentInvInit == Init => EnrollmentInv
<1> SUFFICES ASSUME Init PROVE EnrollmentInv
  OBVIOUS
<1>1. EnrollmentTypeOK
  BY DEF Init, EnrollmentTypeOK, NoInvite, NoPending, NoVault, Pending
<1>2. OfferedOnce
  BY DEF Init, OfferedOnce, isOffered
<1>3. RowsSound
  BY DEF Init, RowsSound, NoPending, Tokens
<1>4. VaultsSound
  BY DEF Init, VaultsSound, Enrolled, NoInvite
<1>5. CallsSound /\ AnswersSound
  BY DEF Init, CallsSound, AnswersSound
<1> QED
  BY <1>1, <1>2, <1>3, <1>4, <1>5 DEF EnrollmentInv

\* Appending a ceremony: the last element, and what was offered before.
LEMMA Offering ==
    ASSUME NEW s \in Seq(Ceremony), NEW x \in Ceremony
    PROVE  /\ Append(s, x) \in Seq(Ceremony) /\ Append(s, x) # <<>>
           /\ Last(Append(s, x)) = x
           /\ \A v \in Ids : (\E i \in DOMAIN Append(s, x) : Append(s, x)[i].id = v)
                         <=> v = x.id \/ \E i \in DOMAIN s : s[i].id = v
<1>1. /\ Append(s, x) \in Seq(Ceremony) /\ Append(s, x) # <<>>
      /\ Last(Append(s, x)) = x
  BY DEF Last
<1>2. ASSUME NEW v \in Ids, NEW i \in DOMAIN Append(s, x), Append(s, x)[i].id = v
      PROVE  v = x.id \/ \E j \in DOMAIN s : s[j].id = v
  BY <1>2
<1>3. ASSUME NEW v \in Ids, v = x.id \/ \E j \in DOMAIN s : s[j].id = v
      PROVE  \E i \in DOMAIN Append(s, x) : Append(s, x)[i].id = v
  <2>1. CASE v = x.id
    BY <2>1, Len(s) + 1 \in DOMAIN Append(s, x), Append(s, x)[Len(s) + 1] = x
  <2>2. CASE \E j \in DOMAIN s : s[j].id = v
    BY <2>2, \A j \in DOMAIN s : j \in DOMAIN Append(s, x) /\ Append(s, x)[j] = s[j]
  <2> QED
    BY <1>3, <2>1, <2>2
<1> QED
  BY <1>1, <1>2, <1>3

\* A stored vault is not the empty row.
LEMMA StoredVault ==
    ASSUME NEW t \in Tokens, NEW r, NEW p
    PROVE  [token |-> t, request |-> r, policy |-> p] # NoVault
BY EnrollmentConstants DEF Tokens, NoVault

\* The invitations that a start or an issue adds or removes are unused ones.
LEMMA IssueKeeps ==
    ASSUME EnrollmentInv, NEW t \in Tokens, IssueEnrollmentSession(t)
    PROVE  EnrollmentInv'
<1> USE DEF EnrollmentInv
<1>1. /\ t \in SessionTokens \ drawn
      /\ UNCHANGED <<vaults, calls, offered, answers, now>> /\ drawn' = drawn \cup {t}
      /\ \A u \in Tokens :
             /\ \/ invites'[u] = invites[u]
                \/ u = t
                \/ collectible(u) /\ invites'[u] = NoInvite
             /\ pending'[u] \in {NoPending, pending[u]}
  BY DEF IssueEnrollmentSession
<1>2. invites[t].consumed = None /\ invites'[t].consumed = None
  BY <1>1 DEF IssueEnrollmentSession, RowsSound, NoInvite
<1>3. \A u \in Tokens : invites'[u].consumed = invites[u].consumed
  BY <1>1, <1>2 DEF collectible, NoInvite
<1>4. EnrollmentTypeOK'
  <2>1. invites' \in [Tokens -> [created : Int, expires : Int, consumed : Ids \cup {None}]]
    BY EnrollmentConstants DEF IssueEnrollmentSession, EnrollmentTypeOK, NoInvite
  <2>2. pending' \in [Tokens -> Pending]
    BY DEF IssueEnrollmentSession, EnrollmentTypeOK, NoPending, Pending
  <2> QED
    BY <1>1, <2>1, <2>2, Zenon DEF EnrollmentTypeOK
<1>5. OfferedOnce' /\ CallsSound' /\ AnswersSound'
  BY <1>1 DEF OfferedOnce, isOffered, CallsSound, callSound, AnswersSound
<1>6. RowsSound'
  <2>1. \A u \in SessionTokens \ drawn' : invites'[u] = NoInvite
    BY <1>1 DEF RowsSound, Tokens
  <2>2. \A u \in Tokens : pending'[u].id # None => pending'[u] = pending[u]
    BY <1>1 DEF NoPending
  <2>3. \A u \in Tokens : pending'[u].id # None =>
           /\ offered'[u] # <<>>
           /\ Last(offered'[u]) = [id |-> pending'[u].id, policy |-> pending'[u].policy]
    BY <1>1, <2>2, Zenon DEF RowsSound
  <2> QED
    BY <2>1, <2>3, Zenon DEF RowsSound, Last
<1>7. VaultsSound'
  BY <1>1, <1>3 DEF VaultsSound, Enrolled
<1> QED
  BY <1>4, <1>5, <1>6, <1>7

\* StartEnrollment: a ceremony that is still valid is offered again, otherwise a
\* fresh id replaces it.
LEMMA StartKeeps ==
    ASSUME EnrollmentInv, NEW t \in Tokens, NEW policy \in Policies, NEW v \in Ids,
           StartEnrollment(t, policy, v)
    PROVE  EnrollmentInv'
<1> USE DEF EnrollmentInv
<1>0. inviteOpen(t) /\ UNCHANGED <<invites, vaults, calls, answers, now>>
  BY DEF StartEnrollment
<1>1. CASE pending[t].expires >= now
  <2>1. UNCHANGED <<pending, drawn, offered>>
    BY <1>1 DEF StartEnrollment
  <2>2. EnrollmentTypeOK' /\ OfferedOnce'
    BY <1>0, <2>1, ZenonT(60) DEF EnrollmentTypeOK, OfferedOnce, isOffered
  <2>3. RowsSound' /\ VaultsSound'
    BY <1>0, <2>1 DEF RowsSound, VaultsSound, Enrolled, Last
  <2>4. CallsSound' /\ AnswersSound'
    BY <1>0, <2>1 DEF CallsSound, callSound, isOffered, AnswersSound
  <2> QED
    BY <2>2, <2>3, <2>4
<1>2. CASE ~ (pending[t].expires >= now)
  <2> DEFINE x == [id |-> v, policy |-> policy]
  <2>1. /\ v \notin drawn /\ drawn' = drawn \cup {v}
        /\ pending' = [pending EXCEPT ![t] = [id |-> v, policy |-> policy,
                                              expires |-> now + PendingTTL]]
        /\ offered' = [offered EXCEPT ![t] = Append(@, x)]
    BY <1>2 DEF StartEnrollment
  <2>2. x \in Ceremony /\ offered[t] \in Seq(Ceremony) /\ x.id = v
    BY Zenon DEF Ceremony, EnrollmentTypeOK
  <2>3. /\ offered' \in [Tokens -> Seq(Ceremony)]
        /\ offered'[t] # <<>> /\ Last(offered'[t]) = x
        /\ \A w \in Ids : isOffered(w, t)' <=> w = v \/ isOffered(w, t)
        /\ \A u \in Tokens \ {t} : offered'[u] = offered[u]
    <3>1. /\ offered'[t] = Append(offered[t], x)
          /\ \A u \in Tokens \ {t} : offered'[u] = offered[u]
      BY <2>1 DEF EnrollmentTypeOK
    <3> HIDE DEF x
    <3>2. offered' \in [Tokens -> Seq(Ceremony)]
      BY <2>1, <2>2, Offering DEF EnrollmentTypeOK
    <3>3. offered'[t] # <<>> /\ Last(offered'[t]) = x
      BY <2>2, <3>1, Offering
    <3>4. \A w \in Ids : isOffered(w, t)' <=> w = v \/ isOffered(w, t)
      BY <2>2, <3>1, Offering DEF isOffered
    <3> QED
      BY <3>1, <3>2, <3>3, <3>4
  <2>4. \A w \in Ids, u \in Tokens : isOffered(w, u)' <=> isOffered(w, u) \/ (u = t /\ w = v)
    BY <2>3, Zenon DEF isOffered
  <2>5. EnrollmentTypeOK'
    <3> DEFINE row == [id |-> v, policy |-> policy, expires |-> now + PendingTTL]
    <3>1. now + PendingTTL \in Int
      BY EnrollmentConstants DEF EnrollmentTypeOK
    <3>2. row \in Pending
      BY <3>1 DEF Pending
    <3>3. pending' = [pending EXCEPT ![t] = row] /\ pending \in [Tokens -> Pending]
      BY <2>1, Zenon DEF EnrollmentTypeOK
    <3> HIDE DEF row
    <3>4. pending' \in [Tokens -> Pending]
      BY <3>2, <3>3
    <3> QED BY <1>0, <2>1, <2>3, <3>4, Zenon DEF EnrollmentTypeOK
  <2>6. OfferedOnce'
    BY <2>1, <2>4, Zenon DEF OfferedOnce
  <2>7. RowsSound'
    <3>1. \A u \in Tokens \ {t} : pending'[u] = pending[u]
      BY <2>1 DEF EnrollmentTypeOK
    <3>2. pending'[t].id = v /\ pending'[t].policy = policy
      BY <2>1, Zenon DEF EnrollmentTypeOK
    <3> QED
      BY <1>0, <2>1, <2>3, <3>1, <3>2, Zenon DEF RowsSound
  <2>8. VaultsSound'
    <3>1. \A w \in Enrolled : vaults[w].token # t
      BY <1>0, EnrollmentConstants, Zenon DEF inviteOpen, VaultsSound, Enrolled
    <3> QED
      BY <1>0, <2>3, <3>1 DEF VaultsSound, Enrolled
  <2>9. CallsSound' /\ AnswersSound'
    <3>1. \A c \in Calls : calls[c] # Idle => calls[c].id \in Ids /\ calls[c].token \in Tokens
      BY DEF EnrollmentTypeOK, Call
    <3> QED
      BY <1>0, <2>4, <3>1 DEF CallsSound, callSound, AnswersSound
  <2> QED
    BY <2>5, <2>6, <2>7, <2>8, <2>9
<1> QED
  BY <1>1, <1>2

\* Steps that touch no row and no offer, and whose calls and answers are sound.
LEMMA LedgerUntouched ==
    ASSUME EnrollmentInv, UNCHANGED <<invites, pending, vaults, drawn, offered>>,
           now' \in Nat, calls' \in [Calls -> Call \cup {Idle}],
           answers' \subseteq [token : Tokens, id : Ids, request : Requests, policy : Policies],
           CallsSound', AnswersSound'
    PROVE  EnrollmentInv'
<1>1. EnrollmentTypeOK' /\ OfferedOnce'
  BY DEF EnrollmentInv, EnrollmentTypeOK, OfferedOnce, isOffered
<1>2. RowsSound'
  BY Zenon DEF EnrollmentInv, RowsSound, Last
<1>3. VaultsSound'
  BY Zenon DEF EnrollmentInv, VaultsSound, Enrolled, Last
<1> QED
  BY <1>1, <1>2, <1>3, Zenon DEF EnrollmentInv

\* While vaults and offers stand, a call is judged by what it carries.
LEMMA CallsJudged ==
    ASSUME UNCHANGED <<vaults, offered>>,
           \A d \in Calls : calls'[d] # Idle => callSound(calls'[d])
    PROVE  CallsSound'
BY DEF CallsSound, callSound, isOffered

\* FinishEnrollment up to the vault's transaction: the call keeps the ceremony it
\* loaded, or ends.
LEMMA FinishKeeps ==
    ASSUME EnrollmentInv, NEW c \in Calls, NEW t \in Tokens, NEW i \in DOMAIN offered[t],
           NEW r \in Requests, NEW policy \in Policies,
           FinishEnrollment(c, t, offered[t][i].id, r, policy)
    PROVE  EnrollmentInv'
<1> DEFINE v == offered[t][i].id
           k == [pc |-> "create", token |-> t, id |-> v, request |-> r, policy |-> policy,
                 copy |-> pending[t]]
<1>1. v \in Ids /\ isOffered(v, t)
  <2>1. offered[t] \in Seq(Ceremony)
    BY DEF EnrollmentInv, EnrollmentTypeOK
  <2>2. offered[t][i] \in Ceremony
    BY <2>1
  <2> QED
    BY <2>2 DEF Ceremony, isOffered
<1>2. /\ UNCHANGED <<invites, pending, vaults, drawn, offered, answers, now>>
      /\ calls' = [calls EXCEPT ![c] = k]
      /\ pending[t].id = v /\ pending[t].policy = policy
  BY DEF FinishEnrollment
<1> HIDE DEF v
<1>3. k \in Call
  BY <1>1, Zenon DEF EnrollmentInv, EnrollmentTypeOK, Call
<1>4. callSound(k)
  BY <1>1, <1>2, Zenon DEF callSound
<1>5. calls' \in [Calls -> Call \cup {Idle}]
  BY <1>2, <1>3, Zenon DEF EnrollmentInv, EnrollmentTypeOK
<1>6. CallsSound'
  <2>1. \A d \in Calls : calls'[d] = IF d = c THEN k ELSE calls[d]
    BY <1>2, Zenon DEF EnrollmentInv, EnrollmentTypeOK
  <2> HIDE DEF k
  <2> QED
    BY <1>2, <1>4, <2>1, CallsJudged DEF EnrollmentInv, CallsSound
<1>7. AnswersSound'
  BY <1>2, Zenon DEF EnrollmentInv, AnswersSound
<1> QED
  BY <1>2, <1>5, <1>6, <1>7, LedgerUntouched, Zenon DEF EnrollmentInv, EnrollmentTypeOK

\* A call that goes on to the duplicate check, or ends, is sound if it was.
LEMMA CallEndsOrDuplicates ==
    ASSUME EnrollmentInv, NEW c \in Calls, calls[c] # Idle, Goto(c, "duplicate") \/ Return(c),
           UNCHANGED <<vaults, offered>>
    PROVE  calls' \in [Calls -> Call \cup {Idle}] /\ CallsSound'
<1>1. \A d \in Calls \ {c} : calls'[d] = calls[d]
  BY DEF Goto, Return, EnrollmentInv, EnrollmentTypeOK
<1>2. calls[c] \in Call
  BY Zenon DEF EnrollmentInv, EnrollmentTypeOK
<1>3. CASE Return(c)
  <2>1. calls'[c] = Idle
    BY <1>3 DEF Return, EnrollmentInv, EnrollmentTypeOK
  <2> QED
    BY <1>1, <1>3, <2>1, ZenonT(60) DEF Return, EnrollmentInv, EnrollmentTypeOK, CallsSound, callSound, isOffered
<1>4. CASE Goto(c, "duplicate")
  <2>1. calls'[c] = [calls[c] EXCEPT !.pc = "duplicate"]
    BY <1>4 DEF Goto, EnrollmentInv, EnrollmentTypeOK
  <2>2. /\ calls'[c] \in Call /\ calls'[c].pc = "duplicate"
        /\ calls'[c].id = calls[c].id /\ calls'[c].token = calls[c].token
        /\ calls'[c].policy = calls[c].policy /\ calls'[c].copy = calls[c].copy
    BY <1>2, <2>1 DEF Call
  <2>3. calls' \in [Calls -> Call \cup {Idle}]
    BY <1>1, <1>4, <2>2 DEF Goto, EnrollmentInv, EnrollmentTypeOK
  <2>4. callSound(calls'[c])
    BY <2>2, Zenon DEF EnrollmentInv, CallsSound, callSound
  <2>5. CallsSound'
    BY <1>1, <2>4, CallsJudged DEF EnrollmentInv, CallsSound
  <2> QED
    BY <2>3, <2>5
<1> QED
  BY <1>3, <1>4

\* The transaction: the ceremony it consumes is the last one offered, so the new
\* vault, its invitation and that ceremony agree, and no stored vault changes.
LEMMA CreateKeeps ==
    ASSUME EnrollmentInv, NEW c \in Calls, CreateVaultWithBoard(c)
    PROVE  EnrollmentInv'
<1> USE DEF EnrollmentInv
<1> DEFINE t == calls[c].token
           v == calls[c].id
           row == [token |-> t, request |-> calls[c].request, policy |-> calls[c].policy]
<1>1. /\ calls[c] # Idle /\ calls[c] \in Call /\ calls[c].pc = "create"
      /\ t \in Tokens /\ v \in Ids /\ row.token = t /\ row.policy = calls[c].policy
      /\ row.request \in Requests /\ row.policy \in Policies
  BY DEF CreateVaultWithBoard, At, EnrollmentTypeOK, Idle, Call
<1>2. /\ invites[t].consumed = None
      /\ pending[t].id = v /\ pending[t].policy = calls[c].policy
      /\ vaults[v] = NoVault
  BY <1>1, Zenon DEF CreateVaultWithBoard, canCreate, inviteOpen, consumePendingEnrollment,
              insertVault, CallsSound, callSound
<1>3. /\ invites' = [invites EXCEPT ![t].consumed = v]
      /\ pending' = [pending EXCEPT ![t] = NoPending]
      /\ vaults' = [vaults EXCEPT ![v] = row]
      /\ calls' = [calls EXCEPT ![c].pc = "publish"]
      /\ UNCHANGED <<drawn, offered, answers, now>>
  BY DEF CreateVaultWithBoard, Goto
<1>4. row # NoVault /\ None \notin Ids /\ None \notin Tokens
  BY <1>1, StoredVault, EnrollmentConstants DEF Tokens
<1>5. /\ invites'[t].consumed = v
      /\ \A u \in Tokens \ {t} : invites'[u] = invites[u]
      /\ vaults'[v] = row /\ \A w \in Ids \ {v} : vaults'[w] = vaults[w]
      /\ pending'[t] = NoPending /\ \A u \in Tokens \ {t} : pending'[u] = pending[u]
      /\ \A d \in Calls \ {c} : calls'[d] = calls[d]
      /\ calls'[c] \in Call /\ calls'[c].token = t /\ calls'[c].id = v
      /\ calls'[c].request = calls[c].request /\ calls'[c].policy = calls[c].policy
      /\ calls'[c].copy = calls[c].copy
  BY <1>1, <1>3, Zenon DEF EnrollmentTypeOK, Call
<1>6. EnrollmentTypeOK'
  <2>1. invites' \in [Tokens -> [created : Int, expires : Int, consumed : Ids \cup {None}]]
    BY <1>1, <1>3, Zenon DEF EnrollmentTypeOK
  <2>2. pending' \in [Tokens -> Pending]
    <3>1. NoPending \in Pending
      BY DEF NoPending, Pending
    <3> QED
      BY <1>3, <3>1, Zenon DEF EnrollmentTypeOK
  <2>3. vaults' \in [Ids -> [token : Tokens \cup {None}, request : Requests \cup {None},
                            policy : Policies \cup {None}]]
    BY <1>1, <1>3 DEF EnrollmentTypeOK
  <2>4. calls' \in [Calls -> Call \cup {Idle}]
    BY <1>3, <1>5 DEF EnrollmentTypeOK
  <2> QED
    BY <1>3, <2>1, <2>2, <2>3, <2>4, Zenon DEF EnrollmentTypeOK
<1> HIDE DEF row, t, v
<1>7. OfferedOnce'
  BY <1>3 DEF OfferedOnce, isOffered
<1>8. RowsSound'
  <2>1. t \notin SessionTokens \ drawn
    BY <1>2, <1>1 DEF CreateVaultWithBoard, canCreate, inviteOpen, RowsSound, t
  <2>2. \A u \in SessionTokens \ drawn' : invites'[u] = NoInvite
    BY <1>3, <1>5, <2>1, Zenon DEF RowsSound, Tokens
  <2>3. \A u \in Tokens : pending'[u].id # None => u # t
    BY <1>5 DEF NoPending
  <2> QED
    BY <1>3, <1>5, <2>2, <2>3 DEF RowsSound, Last
<1>9. VaultsSound'
  <2>1. /\ offered[t] # <<>>
        /\ Last(offered[t]) = [id |-> v, policy |-> row.policy]
    BY <1>1, <1>2, <1>4 DEF RowsSound
  <2>2. \A w \in Enrolled : w # v /\ vaults[w].token # t
    BY <1>2, <1>4, Zenon DEF VaultsSound, Enrolled
  <2>3. Enrolled' = Enrolled \cup {v}
    BY <1>1, <1>4, <1>5, Zenon DEF Enrolled
  <2>4. \A w \in Enrolled' :
           /\ vaults'[w].token \in Tokens
           /\ invites'[vaults'[w].token].consumed = w
           /\ offered'[vaults'[w].token] # <<>>
           /\ Last(offered'[vaults'[w].token]) = [id |-> w, policy |-> vaults'[w].policy]
    <3> SUFFICES ASSUME NEW w \in Enrolled \cup {v}
                 PROVE  /\ vaults'[w].token \in Tokens
                        /\ invites'[vaults'[w].token].consumed = w
                        /\ offered[vaults'[w].token] # <<>>
                        /\ Last(offered[vaults'[w].token])
                              = [id |-> w, policy |-> vaults'[w].policy]
      BY <1>3, <2>3
    <3>1. CASE w = v
      BY <1>1, <1>5, <2>1, <3>1, Zenon
    <3>2. CASE w # v
      <4>1. w \in Enrolled /\ w \in Ids /\ vaults'[w] = vaults[w]
        BY <1>5, <3>2 DEF Enrolled
      <4>2. invites'[vaults[w].token] = invites[vaults[w].token]
        BY <1>5, <2>2, <4>1, Zenon DEF VaultsSound
      <4> QED
        BY <4>1, <4>2, Zenon DEF VaultsSound
    <3> QED
      BY <3>1, <3>2, Zenon
  <2>5. \A u \in Tokens : invites'[u].consumed # None => vaults'[invites'[u].consumed].token = u
    <3> SUFFICES ASSUME NEW u \in Tokens, invites'[u].consumed # None
                 PROVE  vaults'[invites'[u].consumed].token = u
      OBVIOUS
    <3>1. CASE u = t
      BY <1>1, <1>5, <3>1, Zenon
    <3>2. CASE u # t
      <4>1. invites[u].consumed # v
        BY <1>2, <1>4, <1>5, <3>2 DEF VaultsSound, NoVault
      <4>2. invites[u].consumed \in Ids
        BY <1>5, <3>2 DEF EnrollmentTypeOK
      <4> QED
        BY <1>5, <3>2, <4>1, <4>2 DEF VaultsSound
    <3> QED
      BY <3>1, <3>2
  <2> QED
    BY <2>4, <2>5, Zenon DEF VaultsSound, Last
<1>10. CallsSound'
  <2> SUFFICES ASSUME NEW d \in Calls, calls'[d] # Idle PROVE callSound(calls[d])'
    BY Zenon DEF CallsSound
  <2>1. CASE d = c
    <3>1. callSound(calls[c]) /\ vaults'[v] = row
      BY <1>1, <1>5 DEF CallsSound
    <3> QED
      BY <1>3, <1>5, <2>1, <3>1 DEF callSound, isOffered, row, t, v
  <2>2. CASE d # c
    <3>1. calls'[d] = calls[d] /\ callSound(calls[d]) /\ calls[d] \in Call
      BY <1>5, <2>2, Zenon DEF CallsSound, EnrollmentTypeOK
    <3>2. calls[d].pc = "publish" => vaults[calls[d].id] # NoVault
      BY <3>1, StoredVault, Zenon DEF callSound, Call
    <3>3. calls[d].pc = "publish" => vaults'[calls[d].id] = vaults[calls[d].id]
      BY <1>2, <1>5, <3>1, <3>2, Zenon DEF Call
    <3> QED
      BY <1>3, <3>1, <3>3, Zenon DEF callSound, isOffered
  <2> QED
    BY <2>1, <2>2
<1>11. AnswersSound'
  <2> SUFFICES ASSUME NEW a \in answers
               PROVE  vaults'[a.id] = [token |-> a.token, request |-> a.request,
                                       policy |-> a.policy]
    BY <1>3, Zenon DEF AnswersSound
  <2>1. a.token \in Tokens /\ a.id \in Ids
    BY Zenon DEF EnrollmentTypeOK
  <2>2. vaults[a.id] = [token |-> a.token, request |-> a.request, policy |-> a.policy]
    BY Zenon DEF AnswersSound
  <2>3. vaults[a.id] # NoVault
    BY <2>1, <2>2, StoredVault, Zenon
  <2> QED
    BY <1>2, <1>5, <2>1, <2>2, <2>3
<1> QED
  BY <1>6, <1>7, <1>8, <1>9, <1>10, <1>11, Zenon

\* An answer for a vault that is stored that way.
LEMMA AnswerAdded ==
    ASSUME AnswersSound, vaults' = vaults, NEW t, NEW v, NEW r, NEW policy,
           vaults[v] = [token |-> t, request |-> r, policy |-> policy],
           answers' = answers \cup {answer(t, v, r, policy)}
    PROVE  AnswersSound'
<1>1. /\ answer(t, v, r, policy).token = t /\ answer(t, v, r, policy).id = v
      /\ answer(t, v, r, policy).request = r /\ answer(t, v, r, policy).policy = policy
  BY Zenon DEF answer
<1> SUFFICES ASSUME NEW a \in answers \cup {answer(t, v, r, policy)}
             PROVE  vaults[a.id] = [token |-> a.token, request |-> a.request,
                                    policy |-> a.policy]
  BY Zenon DEF AnswersSound
<1> QED
  BY <1>1 DEF AnswersSound

\* A finish that finds its vault stored with its own request and policy answers
\* for the token of that vault: the id was offered for no other token.
LEMMA DuplicateKeeps ==
    ASSUME EnrollmentInv, NEW c \in Calls, acceptDuplicateFinish(c)
    PROVE  EnrollmentInv'
<1> USE DEF EnrollmentInv
<1> DEFINE a == answer(calls[c].token, calls[c].id, calls[c].request, calls[c].policy)
<1>1. /\ calls[c] # Idle /\ calls[c] \in Call
      /\ UNCHANGED <<invites, pending, vaults, drawn, offered, now>> /\ Return(c)
  BY DEF acceptDuplicateFinish, At, EnrollmentTypeOK, Idle
<1>2. calls' \in [Calls -> Call \cup {Idle}] /\ CallsSound'
  BY <1>1, CallEndsOrDuplicates, Zenon
<1>3. CASE answers' = answers
  BY <1>1, <1>2, <1>3, LedgerUntouched, Zenon DEF EnrollmentTypeOK, AnswersSound
<1>4. CASE /\ storedAs(calls[c].id, calls[c].request, calls[c].policy)
           /\ answers' = answers \cup {a}
  <2> DEFINE v == calls[c].id
  <2>1. /\ v \in Enrolled /\ vaults[v].request = calls[c].request
        /\ vaults[v].policy = calls[c].policy
    BY <1>1, <1>4, Zenon DEF storedAs, Enrolled, Call
  <2>2. isOffered(v, vaults[v].token) /\ vaults[v].token \in Tokens
    <3> DEFINE s == offered[vaults[v].token]
    <3>1. /\ vaults[v].token \in Tokens /\ s # <<>>
          /\ s[Len(s)] = [id |-> v, policy |-> vaults[v].policy]
      BY <2>1, Zenon DEF VaultsSound, Last
    <3>2. s \in Seq(Ceremony)
      BY <3>1, Zenon DEF EnrollmentTypeOK
    <3>3. Len(s) \in DOMAIN s
      <4> HIDE DEF s
      <4> QED
        BY <3>1, <3>2, LastPlace, Zenon
    <3>4. s[Len(s)].id = v
      BY <3>1
    <3> QED
      BY <3>1, <3>3, <3>4, Zenon DEF isOffered
  <2>3. isOffered(v, calls[c].token)
    BY <1>1, Zenon DEF CallsSound, callSound
  <2>4. vaults[v].token = calls[c].token
    BY <1>1, <2>2, <2>3, Zenon DEF OfferedOnce, Call
  <2>5. vaults[v] = [token |-> calls[c].token, request |-> calls[c].request,
                     policy |-> calls[c].policy]
    <3>1. vaults[v] \in [token : Tokens \cup {None}, request : Requests \cup {None},
                        policy : Policies \cup {None}]
      BY <2>1 DEF EnrollmentTypeOK, Enrolled
    <3> QED
      BY <2>1, <2>4, <3>1, Zenon
  <2>6. a \in [token : Tokens, id : Ids, request : Requests, policy : Policies]
    BY <1>1, Zenon DEF answer, Call
  <2>7. AnswersSound'
    BY <1>1, <1>4, <2>5, AnswerAdded
  <2> QED
    BY <1>1, <1>2, <1>4, <2>6, <2>7, LedgerUntouched, Zenon DEF EnrollmentTypeOK
<1> QED
  BY <1>3, <1>4, Zenon DEF acceptDuplicateFinish

\* The same from the token alone: the invitation names the vault it made.
LEMMA DuplicateFromTokenKeeps ==
    ASSUME EnrollmentInv, NEW c \in Calls, NEW t \in Tokens, NEW v \in Ids, NEW r \in Requests,
           NEW policy \in Policies, acceptDuplicateFinishFromToken(c, t, v, r, policy)
    PROVE  EnrollmentInv'
<1> USE DEF EnrollmentInv
<1>1. /\ UNCHANGED <<invites, pending, vaults, calls, drawn, offered, now>>
      /\ invites[t].consumed = v
      /\ vaults[v] # NoVault /\ vaults[v].request = r /\ vaults[v].policy = policy
      /\ answers' = answers \cup {answer(t, v, r, policy)}
  BY Zenon DEF acceptDuplicateFinishFromToken, storedAs
<1>2. vaults[v] = [token |-> t, request |-> r, policy |-> policy]
  <2>1. vaults[v].token = t
    BY <1>1, EnrollmentConstants, Zenon DEF VaultsSound
  <2>2. vaults[v] \in [token : Tokens \cup {None}, request : Requests \cup {None},
                      policy : Policies \cup {None}]
    BY DEF EnrollmentTypeOK
  <2> QED
    BY <1>1, <2>1, <2>2, Zenon
<1>3. answer(t, v, r, policy) \in [token : Tokens, id : Ids, request : Requests,
                                   policy : Policies]
  BY Zenon DEF answer
<1>4. AnswersSound'
  BY <1>1, <1>2, AnswerAdded, Zenon
<1>5. CallsSound'
  BY <1>1, Zenon DEF CallsSound, callSound, isOffered
<1> QED
  BY <1>1, <1>3, <1>4, <1>5, LedgerUntouched, Zenon DEF EnrollmentTypeOK

\* Publication: the call answers with the vault that is stored, and ends.
LEMMA PublishKeeps ==
    ASSUME EnrollmentInv, NEW c \in Calls, publishEnrollmentAt(c)
    PROVE  EnrollmentInv'
<1> USE DEF EnrollmentInv
<1> DEFINE a == answer(calls[c].token, calls[c].id, calls[c].request, calls[c].policy)
<1>1. /\ calls[c] # Idle /\ calls[c] \in Call /\ calls[c].pc = "publish"
      /\ UNCHANGED <<invites, pending, vaults, drawn, offered, now>> /\ Return(c)
      /\ answers' = answers \cup {a}
  BY DEF publishEnrollmentAt, At, EnrollmentTypeOK, Idle
<1>2. calls' \in [Calls -> Call \cup {Idle}] /\ CallsSound'
  BY <1>1, CallEndsOrDuplicates, Zenon
<1>3. a \in [token : Tokens, id : Ids, request : Requests, policy : Policies]
  BY <1>1, Zenon DEF answer, Call
<1>4. AnswersSound'
  BY <1>1, AnswerAdded, Zenon DEF CallsSound, callSound
<1> QED
  BY <1>1, <1>2, <1>3, <1>4, LedgerUntouched, Zenon DEF EnrollmentTypeOK

\* A restart forgets the calls and may add the invitation of the token file.
LEMMA RestartKeeps ==
    ASSUME EnrollmentInv, Restart
    PROVE  EnrollmentInv'
<1> USE DEF EnrollmentInv
<1>1. /\ UNCHANGED <<pending, vaults, drawn, offered, answers, now>>
      /\ \A c \in Calls : calls'[c] = Idle
      /\ calls' \in [Calls -> Call \cup {Idle}]
  BY Zenon DEF Restart
<1>2. /\ invites' \in [Tokens -> [created : Int, expires : Int, consumed : Ids \cup {None}]]
      /\ \A t \in Tokens : /\ invites'[t].consumed = invites[t].consumed
                           /\ t \in FileTokens \/ invites'[t] = invites[t]
  <2>1. CASE invites' = invites
    BY <2>1, Zenon DEF EnrollmentTypeOK
  <2>2. CASE \E f \in FileTokens : provisionEnrollmentInvite(f)
    <3> PICK f \in FileTokens : provisionEnrollmentInvite(f)
      BY <2>2, Zenon
    <3>1. CASE invites[f] # NoInvite
      BY <2>1, <3>1 DEF provisionEnrollmentInvite
    <3>2. CASE invites[f] = NoInvite
      <4> DEFINE new == [created |-> now, expires |-> now + Window, consumed |-> None]
      <4>1. /\ new \in [created : Int, expires : Int, consumed : Ids \cup {None}]
            /\ new.consumed = None /\ invites[f].consumed = None
        <5>1. now \in Nat /\ Window \in Nat
          BY EnrollmentConstants, Zenon DEF EnrollmentInv, EnrollmentTypeOK
        <5>2. new \in [created : Int, expires : Int, consumed : Ids \cup {None}] /\ new.consumed = None
          BY <5>1, NewInvite, Zenon
        <5>3. invites[f].consumed = None
          BY <3>2 DEF NoInvite
        <5> QED
          BY <5>2, <5>3, Zenon
      <4>2. f \in Tokens /\ invites' = [invites EXCEPT ![f] = new]
        BY <3>2, Zenon DEF provisionEnrollmentInvite, Tokens
      <4> HIDE DEF new
      <4> QED
        BY <4>1, <4>2, Zenon DEF EnrollmentTypeOK
    <3> QED
      BY <3>1, <3>2
  <2> QED
    BY <2>1, <2>2, Zenon DEF Restart
<1>3. EnrollmentTypeOK' /\ OfferedOnce' /\ CallsSound' /\ AnswersSound'
  BY <1>1, <1>2 DEF EnrollmentTypeOK, OfferedOnce, isOffered, CallsSound, AnswersSound
<1>4. RowsSound'
  BY <1>1, <1>2, EnrollmentConstants, Zenon DEF RowsSound, Last, Tokens
<1>5. VaultsSound'
  BY <1>1, <1>2, Zenon DEF VaultsSound, Enrolled, Last
<1> QED
  BY <1>3, <1>4, <1>5

\* A step keeps the invariant: one case per handler, and the steps that leave the
\* rows alone.
LEMMA EnrollmentInvStep == EnrollmentInv /\ [Next]_vars => EnrollmentInv'
<1> SUFFICES ASSUME EnrollmentInv, [Next]_vars PROVE EnrollmentInv'
  OBVIOUS
<1>1. ASSUME NEW c \in Calls, createRefused(c) \/ readbackFails(c) \/ Fail(c) PROVE EnrollmentInv'
  <2>1. /\ calls[c] # Idle /\ (Goto(c, "duplicate") \/ Return(c))
        /\ UNCHANGED <<invites, pending, vaults, drawn, offered, answers, now>>
    <3>1. CASE createRefused(c)
      BY <3>1 DEF createRefused, At, Idle
    <3>2. CASE readbackFails(c)
      BY <3>2 DEF readbackFails, At, Idle
    <3>3. CASE Fail(c)
      BY <3>3 DEF Fail
    <3> QED BY <1>1, <3>1, <3>2, <3>3, Zenon
  <2>2. calls' \in [Calls -> Call \cup {Idle}] /\ CallsSound'
    BY <2>1, CallEndsOrDuplicates, Zenon
  <2> QED
    BY <2>1, <2>2, LedgerUntouched, Zenon DEF EnrollmentInv, EnrollmentTypeOK, AnswersSound
<1>2. CASE Tick \/ UNCHANGED vars
  <2>1. /\ UNCHANGED <<invites, pending, vaults, calls, drawn, offered, answers>>
        /\ now' \in Nat
    BY <1>2 DEF Tick, vars, EnrollmentInv, EnrollmentTypeOK
  <2>2. CallsSound' /\ AnswersSound'
    BY <2>1, Zenon DEF EnrollmentInv, CallsSound, callSound, isOffered, AnswersSound
  <2> QED
    BY <2>1, <2>2, LedgerUntouched, Zenon DEF EnrollmentInv, EnrollmentTypeOK
<1>3. ASSUME NEW c \in Calls, NEW t \in Tokens, NEW r \in Requests, NEW policy \in Policies,
             NEW i \in DOMAIN offered[t],
             acceptDuplicateFinishFromToken(c, t, offered[t][i].id, r, policy)
      PROVE  EnrollmentInv'
  <2>1. offered[t] \in Seq(Ceremony)
    BY DEF EnrollmentInv, EnrollmentTypeOK
  <2>2. offered[t][i] \in Ceremony
    BY <2>1
  <2>3. offered[t][i].id \in Ids
    BY <2>2 DEF Ceremony
  <2> QED
    BY <1>3, <2>3, DuplicateFromTokenKeeps
<1> QED
  BY <1>1, <1>2, <1>3, IssueKeeps, StartKeeps, FinishKeeps, CreateKeeps, PublishKeeps,
     DuplicateKeeps, RestartKeeps, Zenon
     DEF Next

\* The whole invariant, from which the properties are read off.
LEMMA EnrollmentInvariance == Spec => []EnrollmentInv
BY EnrollmentInvInit, EnrollmentInvStep, PTL DEF Spec

\* CreateVaultWithBoard and IssueEnrollmentSession, for any number of tokens,
\* ceremonies and racing finishes: an invitation and the vault it made name each
\* other for ever.
THEOREM InviteSafety == Spec => []OneVaultPerInvite
<1>1. EnrollmentInv => OneVaultPerInvite
  BY Zenon DEF EnrollmentInv, VaultsSound, OneVaultPerInvite
<1> QED
  BY <1>1, EnrollmentInvariance, PTL

\* consumePendingEnrollment, for any number of starts and expiries: the ceremony
\* that made a vault is the last one its invitation offered.
THEOREM CeremonySafety == Spec => []LastCeremonyWins
<1>1. EnrollmentInv => LastCeremonyWins
  BY Zenon DEF EnrollmentInv, VaultsSound, LastCeremonyWins, Last
<1> QED
  BY <1>1, EnrollmentInvariance, PTL

\* acceptDuplicateFinish, for any number of racing and repeated finishes: success
\* is answered only for the vault the invitation made, as it is stored.
THEOREM AnswerSafety == Spec => []AnswersExact
<1>1. EnrollmentInv => AnswersExact
  <2> SUFFICES ASSUME EnrollmentInv, NEW a \in answers
               PROVE  /\ vaults[a.id] = [token |-> a.token, request |-> a.request,
                                         policy |-> a.policy]
                      /\ invites[a.token].consumed = a.id
    BY Zenon DEF AnswersExact
  <2>1. vaults[a.id] = [token |-> a.token, request |-> a.request, policy |-> a.policy]
    BY DEF EnrollmentInv, AnswersSound
  <2>2. a.token \in Tokens /\ a.id \in Ids
    BY Zenon DEF EnrollmentInv, EnrollmentTypeOK
  <2>3. a.id \in Enrolled
    BY <2>1, <2>2, StoredVault DEF Enrolled
  <2>4. invites[vaults[a.id].token].consumed = a.id
    BY <2>3, Zenon DEF EnrollmentInv, VaultsSound
  <2>5. vaults[a.id].token = a.token
    BY <2>1
  <2> QED
    BY <2>1, <2>4, <2>5
<1> QED
  BY <1>1, EnrollmentInvariance, PTL

-----------------------------------------------------------------------------
(* The process. *)

Pcs == {"down", "serving", "draining", "failed"} \cup Starting \cup Mounted \cup Closing

RequestStates == {"idle", "accepted", "tx", "signing", "probing"} \cup Results

\* What main holds: the keys and the ledger appear in the order of the startup
\* and go in the order of the shutdown.
Custody ==
    /\ pc \in Pcs
    /\ pc \in {"down", "load"} => master = "absent"
    /\ pc \in {"unlink", "create", "ledger", "sequence", "dial"} => master = "local"
    /\ pc \in {"mount", "serving", "draining", "close", "wipe", "keys"} \cup Mounted
           => master = "service"
    /\ pc \in {"release", "closed", "failed"} => master \notin Held
    /\ pc \in {"down", "load", "unlink", "create", "ledger", "sequence"}
           => integrity = "absent" /\ ledgerKey = "absent"
    /\ pc = "dial" => integrity = "local"
    /\ pc \in {"mount", "serving", "draining", "close", "wipe"} \cup Mounted
           => integrity = "service"
    /\ pc \in {"keys", "release", "closed", "failed"} => integrity \notin Held
    /\ pc \in {"dial", "mount", "serving", "draining", "close", "wipe", "keys", "release"}
              \cup Mounted
           => ledgerKey = "set"
    /\ pc \in {"closed", "failed"} => ledgerKey # "set"
    /\ pc \in {"sequence", "dial", "mount", "serving", "draining", "close", "wipe", "keys",
               "release"} \cup Mounted
           => ledger = "open"
    /\ pc \in {"closed", "failed"} => ledger = "closed"
    /\ pc \in {"serving", "draining", "close"} \cup Mounted => host = "open"
    /\ pc \in {"env", "serving", "draining"} => board = TRUE
    /\ pc = "check" => board = TRUE

\* Requests are in flight while main serves or drains, and beyond that only when
\* a shutdown gave up waiting; a row sealed with a cleared key needs such a one.
InFlight ==
    /\ reqs \in [Slots -> RequestStates]
    /\ timedOut \in BOOLEAN /\ resolver \in Results
    /\ pc \notin {"serving", "draining"} /\ (pc \in Closing => ~ timedOut)
           => \A s \in Slots : reqs[s] = "idle"
    /\ ~ timedOut => "bad" \notin rows

\* From the ledger's validation on, the open file is the baseline of the network.
OwnDatabase ==
    /\ network \in Networks
    /\ schema \in [core : {Nothing, "current", "other"}, board : Networks \cup {Nothing}]
    /\ pc \in {"sequence", "dial", "mount", "serving", "draining"} \cup Mounted
           => schema = [core |-> "current", board |-> network]

Probing == {"probing"} \cup Results

\* The Operator was in its present state just now, in the state of the cached
\* result no earlier than the start of its probe, and in the state a running
\* probe has met no earlier than that probe's start, which is recent; only one
\* request probes.
Cached ==
    /\ clock \in Nat
    /\ seen \in [Results -> Int]
    /\ resolver \in Results
    /\ seen[resolver] = clock
    /\ reqs \in [Slots -> RequestStates]
    /\ readyAt \in Int /\ readyErr \in Results
    /\ readyAt <= clock /\ (readyAt # Never => seen[readyErr] >= readyAt)
    /\ told \in Results \cup {Nothing}
    /\ ReadinessFresh
    /\ probe \in Int
    /\ probe # Never => probe <= clock /\ clock - probe < TTL
    /\ \A s \in Slots : reqs[s] \in Probing =>
           /\ probe # Never
           /\ reqs[s] \in Results => seen[reqs[s]] >= probe
           /\ \A t \in Slots \ {s} : reqs[t] \notin Probing

-----------------------------------------------------------------------------
(* Which secrets main holds. *)

\* Before the first process there is no key in memory.
LEMMA CustodyInit == HostInit => Custody
BY DEF HostInit, Custody, Pcs, Starting, Mounted, Closing, Held

\* Requests, the Operator, the clock and the key file leave main where it is,
\* with what it holds; so main's steps are the cases.
LEMMA CustodyStep == Custody /\ [HostNext]_hostVars => Custody'
<1> SUFFICES ASSUME Custody, [HostNext]_hostVars PROVE Custody'
  OBVIOUS
<1> USE DEF Custody, Pcs, Starting, Mounted, Closing, Held, Advance, wiped
<1>0. CASE UNCHANGED <<pc, secrets, host, board>>
  BY <1>0 DEF secrets
<1>1. CASE Startup
  <2>1. CASE openBegins \/ LoadVaultCosignerKey \/ unlinkCosignerKeyAfterLoad
    BY <2>1, Zenon DEF openBegins, LoadVaultCosignerKey, unlinkCosignerKeyAfterLoad, secrets
  <2>2. CASE initializeSchema \/ openLedger \/ attachSequence
    BY <2>2, Zenon DEF initializeSchema, openLedger, attachSequence, secrets
  <2>3. CASE dialArkade \/ mountHost
    BY <2>3, Zenon DEF dialArkade, mountHost, secrets
  <2>4. CASE cleanupOnError
    BY <2>4, Zenon DEF cleanupOnError
  <2>5. CASE InstallVaultBoardAuthorization \/ startupReady \/ serve \/ closeOnError
    BY <2>5 DEF InstallVaultBoardAuthorization, startupReady, serve, closeOnError, secrets
  <2> QED
    BY <1>1, <2>1, <2>2, <2>3, <2>4, <2>5, Zenon DEF Startup
<1>2. CASE Shutdown \/ signalled
  <2>1. CASE drained \/ drainTimeout \/ hostCloses \/ signalled
    BY <2>1, Zenon DEF drained, drainTimeout, hostCloses, signalled, secrets
  <2>2. CASE WipeSecrets
    BY <2>2, Zenon DEF WipeSecrets
  <2>3. CASE wipe
    BY <2>3, Zenon DEF wipe
  <2>4. CASE ledgerClose
    BY <2>4, Zenon DEF ledgerClose
  <2>5. CASE exit
    BY <2>5, Zenon DEF exit, gone
  <2> QED
    BY <1>2, <2>1, <2>2, <2>3, <2>4, <2>5, Zenon DEF Shutdown
<1>3. CASE listenerFails \/ crash
  BY <1>3 DEF listenerFails, crash, gone
<1>4. ASSUME NEW s \in Slots, Request(s) PROVE Custody'
  BY <1>0, <1>4, Zenon DEF Request, accept, beginTransaction, commitTransaction, withMaster, signed,
                   tell, cachedReadiness, beginProbe, IntentFeePolicy, endProbe
<1>5. CASE unlock \/ operatorChanges \/ ClockTick
  BY <1>0, <1>5, Zenon DEF unlock, operatorChanges, ClockTick
<1>6. CASE UNCHANGED hostVars
  BY <1>0, <1>6 DEF hostVars
<1> QED
  BY <1>1, <1>2, <1>3, <1>4, <1>5, <1>6, Zenon DEF HostNext

\* openWithArkadeDialers and Host.Close, for every deployment: a process that
\* ends by itself, after a failed start or a shutdown, has cleared its keys and
\* closed its ledger.
THEOREM ClearedAtTheEnd == HostSpec => []NothingHeldAtTheEnd
<1>1. Custody => NothingHeldAtTheEnd
  BY DEF Custody, NothingHeldAtTheEnd
<1> QED
  BY <1>1, CustodyInit, CustodyStep, PTL DEF HostSpec

-----------------------------------------------------------------------------
(* Which requests are in flight. *)

\* No request is in flight before the first process.
LEMMA InFlightInit == HostInit => InFlight
BY Zenon DEF HostInit, InFlight, RequestStates, Closing

\* Requests begin while main serves; only a drain that waited for them, or one that
\* timed out, lets main go on.
LEMMA InFlightStep == Custody /\ InFlight /\ [HostNext]_hostVars => InFlight'
<1> SUFFICES ASSUME Custody, InFlight, [HostNext]_hostVars PROVE InFlight'
  OBVIOUS
<1> USE DEF InFlight, RequestStates, Closing, Results, Advance, readiness
<1>0. CASE /\ UNCHANGED <<reqs, rows, timedOut, resolver>>
           /\ pc \notin {"serving", "draining"} \cup Closing
           /\ pc' = "close" => pc \in Mounted
  BY <1>0, Zenon
<1>1. CASE Startup
  BY <1>0, <1>1, Zenon
     DEF Startup, openBegins, LoadVaultCosignerKey, unlinkCosignerKeyAfterLoad, initializeSchema,
         openLedger, attachSequence, dialArkade, mountHost, cleanupOnError,
         InstallVaultBoardAuthorization, startupReady, serve, closeOnError, Starting, Mounted
<1>2. CASE Shutdown \/ signalled
  <2>1. CASE exit
    BY <2>1 DEF exit, gone
  <2>2. CASE drained \/ drainTimeout \/ signalled
    BY <2>2, Zenon DEF drained, drainTimeout, signalled
  <2>3. CASE hostCloses \/ WipeSecrets \/ wipe \/ ledgerClose
    BY <2>3, Zenon DEF hostCloses, WipeSecrets, wipe, ledgerClose
  <2> QED
    BY <1>2, <2>1, <2>2, <2>3, Zenon DEF Shutdown
<1>3. CASE listenerFails \/ crash
  BY <1>3, Zenon DEF listenerFails, crash, gone
<1>4. ASSUME NEW s \in Slots, Request(s) PROVE InFlight'
  <2>1. CASE accept(s)
    BY <2>1, Zenon DEF accept, at, become
  <2>2. CASE commitTransaction(s)
    <3>1. pc \in {"serving", "draining"} \/ (pc \in Closing /\ timedOut)
      BY <2>2, Zenon DEF commitTransaction, at
    <3>2. ~ timedOut => "bad" \notin rows'
      BY <2>2, <3>1 DEF commitTransaction, Custody
    <3> QED
      BY <2>2, <3>1, <3>2, Zenon DEF commitTransaction, become
  <2>3. CASE /\ reqs[s] # "idle" /\ UNCHANGED <<pc, rows, timedOut, resolver>>
             /\ \E r \in RequestStates : become(s, r)
    BY <2>3, Zenon DEF become
  <2>4. CASE IntentFeePolicy(s)
    BY <2>3, <2>4, Zenon DEF IntentFeePolicy, at
  <2>5. CASE endProbe(s)
    BY <2>3, <2>5, Zenon DEF endProbe
  <2> QED
    BY <1>4, <2>1, <2>2, <2>3, <2>4, <2>5, Zenon
       DEF Request, beginTransaction, withMaster, signed, tell, cachedReadiness, beginProbe,
           readyLocks, at
<1>5. CASE unlock \/ operatorChanges \/ ClockTick \/ UNCHANGED hostVars
  BY <1>5 DEF unlock, operatorChanges, ClockTick, hostVars
<1> QED
  BY <1>1, <1>2, <1>3, <1>4, <1>5, Zenon DEF HostNext

\* main and Ledger.Close, for any number of requests: unless a shutdown gave up
\* waiting, a request finds every key and the ledger in place, and no row is
\* sealed with a cleared key.
THEOREM WholeWhileServed == HostSpec => []ServedWhole
<1>1. Custody /\ InFlight => ServedWhole
  BY DEF Custody, InFlight, ServedWhole, Pcs
<1> QED
  BY <1>1, CustodyInit, CustodyStep, InFlightInit, InFlightStep, PTL DEF HostSpec

-----------------------------------------------------------------------------
(* Which database is open. *)

\* OpenLedgerForNetwork, for any set of networks and any number of starts: what
\* is served is a baseline created for the network of the process.
THEOREM OwnDatabaseServed == HostSpec => []ServesOwnDatabase
<1> USE DEF OwnDatabase, Mounted
<1>1. HostInit => OwnDatabase
  BY DEF HostInit, Empty
<1>2. OwnDatabase /\ [HostNext]_hostVars => OwnDatabase'
  <2> SUFFICES ASSUME OwnDatabase, [HostNext]_hostVars PROVE OwnDatabase'
    OBVIOUS
  <2> USE DEF Advance, disk
  <2>1. CASE Startup
    BY <2>1 DEF Startup, openBegins, LoadVaultCosignerKey, unlinkCosignerKeyAfterLoad,
         initializeSchema, openLedger, attachSequence, dialArkade, mountHost, cleanupOnError,
         InstallVaultBoardAuthorization, startupReady, serve, closeOnError,
         validateMultiTenantSchema, validateBoardingTables
  <2>2. CASE Shutdown \/ signalled \/ listenerFails \/ crash
    BY <2>2, Zenon DEF Shutdown, drained, drainTimeout, hostCloses, WipeSecrets, wipe, ledgerClose,
                exit, signalled, listenerFails, crash, gone
  <2>3. CASE UNCHANGED <<pc, disk>>
    BY <2>3
  <2>4. ASSUME NEW s \in Slots, Request(s) PROVE OwnDatabase'
    BY <2>3, <2>4, Zenon DEF Request, accept, beginTransaction, commitTransaction, withMaster, signed,
                     tell, cachedReadiness, beginProbe, IntentFeePolicy, endProbe
  <2>5. CASE unlock \/ operatorChanges \/ ClockTick \/ UNCHANGED hostVars
    BY <2>3, <2>5, Zenon DEF unlock, operatorChanges, ClockTick, hostVars
  <2> QED
    BY <2>1, <2>2, <2>4, <2>5, Zenon DEF HostNext
<1>3. OwnDatabase => ServesOwnDatabase
  BY Zenon DEF ServesOwnDatabase
<1> QED
  BY <1>1, <1>2, <1>3, PTL DEF HostSpec

-----------------------------------------------------------------------------
(* What the readiness cache knows. *)

\* Nothing is cached before the first probe.
LEMMA CachedInit == HostInit => Cached
BY HostConstants DEF HostInit, Cached, Results, RequestStates, Probing, ReadinessFresh, Never, Nothing

\* A step of main other than the first probe leaves the cache alone or forgets it
\* with every request.
LEMMA CachedForgotten ==
    ASSUME Cached, gone
    PROVE  Cached'
BY DEF Cached, gone, Results, RequestStates, Probing, ReadinessFresh, Never, Nothing

\* A result is cached with the time its probe began, and served until it is stale.
LEMMA CachedStep == Cached /\ [HostNext]_hostVars => Cached'
<1> SUFFICES ASSUME Cached, [HostNext]_hostVars PROVE Cached'
  OBVIOUS
<1>0. CASE UNCHANGED <<reqs, readiness, clock>>
  BY <1>0, Zenon DEF Cached, readiness, ReadinessFresh
<1>1. CASE Startup
  <2>1. CASE startupReady
    BY <2>1, HostConstants DEF startupReady, Cached, ReadinessFresh, Results, Nothing, Never
  <2> QED
    BY <1>0, <1>1, <2>1, Zenon
       DEF Startup, openBegins, LoadVaultCosignerKey, unlinkCosignerKeyAfterLoad,
           initializeSchema, openLedger, attachSequence, dialArkade, mountHost, cleanupOnError,
           InstallVaultBoardAuthorization, serve, closeOnError
<1>2. CASE Shutdown \/ signalled
  BY <1>0, <1>2, CachedForgotten
     DEF Shutdown, drained, drainTimeout, hostCloses, WipeSecrets, wipe, ledgerClose, exit,
         signalled
<1>3. CASE listenerFails \/ crash
  BY <1>3, CachedForgotten, Zenon DEF listenerFails, crash
<1>4. ASSUME NEW s \in Slots, Request(s) PROVE Cached'
  <2> USE DEF Cached, ReadinessFresh, RequestStates, Probing, Results, at, become
  <2>1. ASSUME NEW r \in RequestStates \ Probing, become(s, r), UNCHANGED <<readiness, clock>>
        PROVE  Cached'
    BY <2>1 DEF readiness
  <2>2. CASE cachedReadiness(s)
    BY <2>2, HostConstants DEF cachedReadiness, readyLocks, probeDue, Nothing
  <2>3. CASE beginProbe(s)
    BY <2>3, HostConstants DEF beginProbe, readyLocks, Never
  <2>4. CASE IntentFeePolicy(s)
    BY <2>4, Zenon DEF IntentFeePolicy, readiness
  <2>5. CASE endProbe(s)
    BY <2>5, HostConstants DEF endProbe, Nothing, Never
  <2> QED
    BY <1>4, <2>1, <2>2, <2>3, <2>4, <2>5, Zenon
       DEF Request, accept, beginTransaction, commitTransaction, withMaster, signed, tell
<1>5. CASE operatorChanges
  BY <1>5, HostConstants
     DEF operatorChanges, Cached, ReadinessFresh, RequestStates, Probing, Results, Nothing
<1>6. CASE ClockTick
  BY <1>6, HostConstants
     DEF ClockTick, Cached, ReadinessFresh, RequestStates, Probing, Results, Nothing
<1>7. CASE unlock \/ UNCHANGED hostVars
  BY <1>0, <1>7, Zenon DEF unlock, hostVars
<1> QED
  BY <1>1, <1>2, <1>3, <1>4, <1>5, <1>6, <1>7, Zenon DEF HostNext

\* cachedResolverReadiness, for any time to live and any number of requests: what
\* a readiness request is told was true of the Operator less than a time to live
\* ago.
THEOREM ReadinessIsFresh == HostSpec => []ReadinessFresh
<1>1. Cached => ReadinessFresh
  BY Zenon DEF Cached
<1> QED
  BY <1>1, CachedInit, CachedStep, PTL DEF HostSpec

-----------------------------------------------------------------------------
(* PolicySequence: the count beside the ledger. *)

\* Row sets are finite, their counts are ordered by inclusion, and a subset
\* with the count of the whole is the whole.
LEMMA RowCounts ==
    ASSUME NEW S \in SUBSET Rows, NEW T \in SUBSET Rows
    PROVE  /\ Cardinality(S) \in Nat
           /\ Cardinality(S) = 0 <=> S = {}
           /\ T \subseteq S => Cardinality(T) <= Cardinality(S)
           /\ T \subseteq S /\ Cardinality(T) >= Cardinality(S) => T = S
<1>1. IsFiniteSet(S) /\ IsFiniteSet(T)
  BY FS_Subset, SequenceConstants, Zenon
<1>2. Cardinality(S) \in Nat /\ Cardinality(T) \in Nat
  BY <1>1, FS_CardinalityType, Zenon
<1>3. Cardinality(S) = 0 <=> S = {}
  BY <1>1, FS_EmptySet, Zenon
<1>4. T \subseteq S => /\ Cardinality(T) <= Cardinality(S)
                       /\ Cardinality(S) = Cardinality(T) => S = T
  BY <1>1, FS_Subset, Zenon
<1> QED
  BY <1>2, <1>3, <1>4

\* An empty ledger without a sequence file satisfies the invariant.
LEMMA IndInvInit == SequenceInit => IndInv
<1> SUFFICES ASSUME SequenceInit PROVE IndInv
  OBVIOUS
<1>1. TypeOK
  BY Zenon DEF SequenceInit, TypeOK, Database, NoFile, Up
<1> QED
  BY <1>1 DEF SequenceInit, IndInv, Up, NoFile

\* A step keeps the invariant: one case per action.
LEMMA IndInvStep == IndInv /\ [SequenceNext]_sequenceVars => IndInv'
<1> SUFFICES ASSUME IndInv, [SequenceNext]_sequenceVars PROVE IndInv'
  OBVIOUS
<1> USE DEF IndInv, TypeOK, Database, NoFile, Up
<1>0. /\ Cardinality(committed) \in Nat
      /\ Cardinality(committed) = 0 <=> committed = {}
      /\ Cardinality(db.rows) \in Nat
      /\ Cardinality(db.rows) = 0 <=> db.rows = {}
      /\ Cardinality(db.rows) >= Cardinality(committed) => db.rows = committed
      /\ Cardinality(db.rows \cup tx) \in Nat
  BY RowCounts
<1>1. CASE AttachMonotonic
  <2>1. file' \in Nat
    BY <1>0, <1>1, Zenon DEF AttachMonotonic, ObserveRefuses, ObservedCount, economicOutflowCount
  <2>2. db.rows = committed
    BY <1>0, <1>1 DEF AttachMonotonic, ObserveRefuses, economicOutflowCount
  <2>3. Cardinality(committed) <= file'
    BY <1>0, <1>1, <2>2
       DEF AttachMonotonic, ObserveRefuses, ObservedCount, economicOutflowCount
  <2> QED
    BY <1>1, <2>1, <2>2, <2>3 DEF AttachMonotonic
<1>2. ASSUME NEW new \in SUBSET Rows, insertRows(new) PROVE IndInv'
  BY <1>2, Zenon DEF insertRows
<1>3. ASSUME observeEconomicOutflows \/ observeFails PROVE IndInv'
  <2>1. PICK n : n = Cardinality(db.rows \cup tx)
    OBVIOUS
  <2>2. n \in Nat /\ Cardinality(committed) <= n
    <3>1. committed \subseteq committed \cup tx /\ committed \cup tx \in SUBSET Rows
      OBVIOUS
    <3>2. db.rows = committed
      BY <1>3, Zenon DEF observeEconomicOutflows, observeFails
    <3> QED
      BY <1>0, <2>1, <3>1, <3>2, RowCounts, Zenon
  <2>3. CASE observeEconomicOutflows
    BY <1>0, <2>1, <2>2, <2>3
       DEF observeEconomicOutflows, ObserveRefuses, ObservedCount, economicOutflowCount
  <2>4. CASE observeFails
    <3>1. file' \in Nat /\ Cardinality(committed) <= file'
      BY <1>0, <2>1, <2>2, <2>4, Zenon
         DEF observeFails, ObserveRefuses, ObservedCount, economicOutflowCount
    <3> QED
      BY <2>4, <3>1 DEF observeFails
  <2> QED
    BY <1>3, <2>3, <2>4, Zenon
<1>4. CASE COMMIT
  BY <1>4 DEF COMMIT
<1>5. CASE ROLLBACK
  BY <1>5 DEF ROLLBACK
<1>6. CASE updateRows
  BY <1>6 DEF updateRows
<1>7. CASE Crash
  BY <1>7, Zenon DEF Crash
<1>8. CASE Backup
  BY <1>8, Zenon DEF Backup
<1>9. CASE Restore
  BY <1>9, Zenon DEF Restore
<1>10. CASE UNCHANGED sequenceVars
  BY <1>10, Zenon DEF sequenceVars
<1> QED
  BY <1>1, <1>2, <1>3, <1>4, <1>5, <1>6, <1>7, <1>8, <1>9, <1>10, Zenon DEF SequenceNext

\* The invariant holds in every reachable state.
THEOREM SequenceInvariance == SequenceSpec => []IndInv
<1> QED
  BY IndInvInit, IndInvStep, PTL DEF SequenceSpec

\* Type correctness: with it, a process never runs without a sequence file, and
\* rows wait for a commit only between their insert and the transaction's end.
THEOREM SequenceTypes == SequenceSpec => []TypeOK
<1>1. IndInv => TypeOK
  BY Zenon DEF IndInv
<1> QED
  BY <1>1, SequenceInvariance, PTL

\* ReserveVtxoOperation, AppendVaultBoard*: the file covers every committed row.
THEOREM FileCoversLedger == SequenceSpec => []SequenceCovers
<1>1. IndInv => SequenceCovers
  <2> SUFFICES ASSUME IndInv, committed # {} PROVE file >= Cardinality(committed)
    BY Zenon DEF SequenceCovers, economicOutflowCount
  <2>1. Cardinality(committed) \in Nat
    BY RowCounts, Zenon DEF IndInv, TypeOK
  <2> QED
    BY <2>1 DEF IndInv, TypeOK, NoFile
<1> QED
  BY <1>1, SequenceInvariance, PTL

\* Observe at startup: no committed row is missing from a served ledger.
THEOREM NoRowRolledBack == SequenceSpec => []CommittedServed
<1>1. IndInv => CommittedServed
  BY DEF IndInv, CommittedServed
<1> QED
  BY <1>1, SequenceInvariance, PTL
=============================================================================
