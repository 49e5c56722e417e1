----------------------------- MODULE Enrollment -----------------------------
(***************************************************************************)
(* Enrollment: invitations, the pending WebAuthn ceremony of an invitation *)
(* and the creation and publication of a vault                             *)
(* (internal/application/enroll.go, createTenantVault of service.go,       *)
(* internal/policy/pending.go, vault_create.go and enrollment_session.go,  *)
(* provisionEnrollmentInvite of internal/authorizer/runtime.go).           *)
(*                                                                         *)
(* FinishEnrollment reads the pending ceremony without a lock and creates  *)
(* the vault later, under Service.mu: meanwhile the ceremony may expire, be*)
(* replaced by another start, or be finished by another call.              *)
(***************************************************************************)
EXTENDS Integers, Sequences, FiniteSets

CONSTANTS
    SessionTokens,   \* random tokens of open enrollment, fresh when issued
    FileTokens,      \* tokens the operator puts in the enrollment token file
    Ids,             \* a ceremony's handle, vault id and challenge, random
    Requests,        \* register requests: credential id and public keys
    Policies,        \* protection tier and spending policy, as one choice
    Calls,           \* finish calls in flight
    Window,          \* EnrollmentWindow, lifetime of a provisioned invite
    SessionTTL,      \* lifetime of an open-enrollment invite: 10 minutes
    PendingTTL,      \* pendingEnrollmentTTL: 5 minutes
    Retention,       \* expired unused invites are kept 24 hours
    RateWindow,      \* one minute
    MaxRecent,       \* 30 invites per RateWindow
    MaxActive,       \* 1000 unused live invites
    MaxTime,         \* bound of the clock
    None

ASSUME EnrollmentConstants ==
    /\ {Window, SessionTTL, PendingTTL, Retention, RateWindow, MaxRecent, MaxActive, MaxTime}
           \subseteq Nat
    /\ SessionTokens \cap FileTokens = {}
    /\ None \notin Ids \cup SessionTokens \cup FileTokens

VARIABLES
    invites,     \* invite rows, by token hash
    pending,     \* pending_enrollment rows, by token hash
    vaults,      \* vault, vault_credential and vault_board rows, by vault id
    published,   \* vaults in the in-memory index that serves requests
    mu,          \* the call that holds Service.mu
    calls,       \* finish calls in flight
    drawn,       \* random tokens and ids drawn so far
    offered,     \* per token, the ceremonies answered to clients, in order
    answers,     \* successful finish answers: token, id, request and policy
    now

vars == <<invites, pending, vaults, published, mu, calls, drawn, offered, answers, now>>

-----------------------------------------------------------------------------
Tokens == SessionTokens \cup FileTokens

Idle == [pc |-> "idle"]
NoInvite == [created |-> -1, expires |-> -1, consumed |-> None]
NoPending == [id |-> None, policy |-> None, expires |-> -1]
NoVault == [token |-> None, request |-> None, policy |-> None]

\* A call in flight has its pc (create, publish, duplicate), the token, id, request
\* and policy it finishes, and a copy of the pending row it loaded.

\* The ledger before the first start of the service.
Init ==
    /\ invites = [t \in Tokens |-> NoInvite]
    /\ pending = [t \in Tokens |-> NoPending]
    /\ vaults = [v \in Ids |-> NoVault]
    /\ published = {}
    /\ mu = None
    /\ calls = [c \in Calls |-> Idle]
    /\ drawn = {} /\ answers = {}
    /\ offered = [t \in Tokens |-> <<>>]
    /\ now = 0

At(c, pc) == calls[c].pc = pc
Goto(c, pc) == calls' = [calls EXCEPT ![c].pc = pc]
Return(c) == calls' = [calls EXCEPT ![c] = Idle]

Enrolled == {v \in Ids : vaults[v] # NoVault}

-----------------------------------------------------------------------------
(* Invitations. *)

provisionEnrollmentInvite(t) ==
    IF invites[t] # NoInvite THEN UNCHANGED invites
    ELSE invites' = [invites EXCEPT ![t] =
                        [created |-> now, expires |-> now + Window, consumed |-> None]]

\* The process starts: the token of the file, if any, is provisioned and every
\* stored vault is rebuilt and published (LoadVaults). Calls and the index were
\* in memory.
Restart ==
    /\ \/ UNCHANGED invites
       \/ \E t \in FileTokens : provisionEnrollmentInvite(t)
    /\ published' = Enrolled
    /\ mu' = None
    /\ calls' = [c \in Calls |-> Idle]
    /\ UNCHANGED <<pending, vaults, drawn, offered, answers, now>>

\* Mutation: an expired invitation is removed whether it was used or not.
MutCollectible(t) == invites[t] # NoInvite /\ invites[t].expires < now - Retention

\* Rows that issuing a session removes, with their pending ceremonies.
collectible(t) ==
    /\ invites[t] # NoInvite
    /\ invites[t].consumed = None
    /\ invites[t].expires < now - Retention

recentInvites ==
    {t \in Tokens : invites[t] # NoInvite /\ ~ collectible(t) /\ invites[t].created >= now - RateWindow}

activeInvites ==
    {t \in Tokens : invites[t] # NoInvite /\ invites[t].consumed = None /\ invites[t].expires >= now}

issuanceAllowed ==
    Cardinality(recentInvites) < MaxRecent /\ Cardinality(activeInvites) < MaxActive

\* A busy refusal rolls the removals back.
IssueEnrollmentSession(t) ==
    /\ t \in SessionTokens \ drawn
    /\ issuanceAllowed
    /\ invites' = [u \in Tokens |->
                     IF u = t THEN [created |-> now, expires |-> now + SessionTTL, consumed |-> None]
                     ELSE IF collectible(u) THEN NoInvite ELSE invites[u]]
    /\ pending' = [u \in Tokens |-> IF collectible(u) THEN NoPending ELSE pending[u]]
    /\ drawn' = drawn \cup {t}
    /\ UNCHANGED <<vaults, published, mu, calls, offered, answers, now>>

-----------------------------------------------------------------------------
(* POST /v1/enroll/start. *)

inviteOpen(t) ==
    invites[t] # NoInvite /\ invites[t].consumed = None /\ invites[t].expires >= now

\* A live ceremony is answered again if tier and policy are the same; an
\* expired one is replaced.
StartEnrollment(t, policy, v) ==
    /\ inviteOpen(t)
    /\ IF pending[t].expires >= now
       THEN /\ pending[t].policy = policy
            /\ UNCHANGED <<pending, drawn, offered>>
       ELSE /\ v \notin drawn
            /\ pending' = [pending EXCEPT ![t] =
                             [id |-> v, policy |-> policy, expires |-> now + PendingTTL]]
            /\ drawn' = drawn \cup {v}
            /\ offered' = [offered EXCEPT ![t] = Append(@, [id |-> v, policy |-> policy])]
    /\ UNCHANGED <<invites, vaults, published, mu, calls, answers, now>>

-----------------------------------------------------------------------------
(* POST /v1/enroll/finish. *)

answer(t, v, r, policy) == [token |-> t, id |-> v, request |-> r, policy |-> policy]

\* Mutation: any finish for the stored vault counts as its retry.
MutStoredAs(v, r, policy) == vaults[v] # NoVault

\* The stored vault is exactly the one this request would create.
storedAs(v, r, policy) ==
    vaults[v] # NoVault /\ vaults[v].request = r /\ vaults[v].policy = policy

\* The ceremony is gone: the finish may be a retry of the one that consumed it.
acceptDuplicateFinishFromToken(c, t, v, r, policy) ==
    /\ calls[c] = Idle
    /\ pending[t].id # v
    /\ invites[t].consumed = v
    /\ storedAs(v, r, policy)
    /\ answers' = answers \cup {answer(t, v, r, policy)}
    /\ UNCHANGED <<invites, pending, vaults, published, mu, calls, drawn, offered, now>>

\* The unlocked read of the ceremony and the checks on the copy.
FinishEnrollment(c, t, v, r, policy) ==
    /\ calls[c] = Idle
    /\ pending[t].id = v
    /\ pending[t].policy = policy
    /\ pending[t].expires >= now
    /\ calls' = [calls EXCEPT ![c] =
                   [pc |-> "create", token |-> t, id |-> v, request |-> r, policy |-> policy,
                    copy |-> pending[t]]]
    /\ UNCHANGED <<invites, pending, vaults, published, mu, drawn, offered, answers, now>>

\* Mutation: the ceremony checked by the handler is trusted.
MutConsumePending(c) == TRUE

\* The row must still be the one the call loaded, and live.
consumePendingEnrollment(c) ==
    /\ calls[c].copy.expires >= now
    /\ pending[calls[c].token] = calls[c].copy

\* A vault id and a credential belong to one vault.
insertVault(c) ==
    /\ vaults[calls[c].id] = NoVault
    /\ \A w \in Enrolled : vaults[w].request # calls[c].request

canCreate(c) ==
    inviteOpen(calls[c].token) /\ consumePendingEnrollment(c) /\ insertVault(c)

\* One transaction consumes invite and ceremony and inserts the vault. The lock
\* is kept until the vault is published.
CreateVaultWithBoard(c) ==
    /\ At(c, "create")
    /\ mu = None
    /\ canCreate(c)
    /\ LET t == calls[c].token
           v == calls[c].id
       IN  /\ invites' = [invites EXCEPT ![t].consumed = v]
           /\ pending' = [pending EXCEPT ![t] = NoPending]
           /\ vaults' = [vaults EXCEPT ![v] = [token |-> t, request |-> calls[c].request,
                                              policy |-> calls[c].policy]]
    /\ mu' = c
    /\ Goto(c, "publish")
    /\ UNCHANGED <<published, drawn, offered, answers, now>>

createRefused(c) ==
    /\ At(c, "create")
    /\ mu = None
    /\ ~ canCreate(c)
    /\ Goto(c, "duplicate")
    /\ UNCHANGED <<invites, pending, vaults, published, mu, drawn, offered, answers, now>>

publishEnrollmentAt(c) ==
    /\ At(c, "publish")
    /\ published' = published \cup {calls[c].id}
    /\ mu' = None
    /\ answers' = answers \cup
           {answer(calls[c].token, calls[c].id, calls[c].request, calls[c].policy)}
    /\ Return(c)
    /\ UNCHANGED <<invites, pending, vaults, drawn, offered, now>>

\* The foreign-key check or the read-back after the commit fails: the vault is
\* stored and stays unpublished until the process starts again.
readbackFails(c) ==
    /\ At(c, "publish")
    /\ mu' = None
    /\ Goto(c, "duplicate")
    /\ UNCHANGED <<invites, pending, vaults, published, drawn, offered, answers, now>>

acceptDuplicateFinish(c) ==
    /\ At(c, "duplicate")
    /\ LET r == calls[c]
       IN  answers' = IF storedAs(r.id, r.request, r.policy)
                      THEN answers \cup {answer(r.token, r.id, r.request, r.policy)} ELSE answers
    /\ Return(c)
    /\ UNCHANGED <<invites, pending, vaults, published, mu, drawn, offered, now>>

\* An error ends the call; the step under the lock is not interrupted.
Fail(c) ==
    /\ calls[c] # Idle /\ ~ At(c, "publish")
    /\ Return(c)
    /\ UNCHANGED <<invites, pending, vaults, published, mu, drawn, offered, answers, now>>

Tick ==
    /\ now < MaxTime
    /\ now' = now + 1
    /\ UNCHANGED <<invites, pending, vaults, published, mu, calls, drawn, offered, answers>>

Next ==
    \/ \E t \in Tokens : IssueEnrollmentSession(t)
    \/ \E t \in Tokens, policy \in Policies, v \in Ids : StartEnrollment(t, policy, v)
    \/ \E c \in Calls, t \in Tokens, r \in Requests, policy \in Policies :
          \E i \in DOMAIN offered[t] :
             \/ acceptDuplicateFinishFromToken(c, t, offered[t][i].id, r, policy)
             \/ FinishEnrollment(c, t, offered[t][i].id, r, policy)
    \/ \E c \in Calls :
          \/ CreateVaultWithBoard(c) \/ createRefused(c)
          \/ publishEnrollmentAt(c) \/ readbackFails(c) \/ acceptDuplicateFinish(c) \/ Fail(c)
    \/ Restart \/ Tick

Spec == Init /\ [][Next]_vars

-----------------------------------------------------------------------------
(* Properties. *)

\* CreateVaultWithBoard and IssueEnrollmentSession: an invitation makes one vault
\* at most, and its row, which answers a retried finish, is never removed.
OneVaultPerInvite ==
    /\ \A v \in Enrolled : invites[vaults[v].token].consumed = v
    /\ \A t \in Tokens : invites[t].consumed # None => vaults[invites[t].consumed].token = t

\* consumePendingEnrollment: the vault of an invitation is made by the ceremony
\* that was pending last, with the tier and policy its start bound; a finish that
\* loaded an earlier or expired ceremony makes none.
LastCeremonyWins ==
    \A v \in Enrolled :
        LET starts == offered[vaults[v].token]
        IN  starts[Len(starts)] = [id |-> v, policy |-> vaults[v].policy]

\* acceptDuplicateFinish: a finish is answered with success only for the vault
\* its invitation made, with exactly the keys and policy of that request.
AnswersExact ==
    \A a \in answers :
        /\ vaults[a.id] = [token |-> a.token, request |-> a.request, policy |-> a.policy]
        /\ invites[a.token].consumed = a.id
=============================================================================
