# Formal model of the Arkade vault server

TLA+ modules that model the policy-constrained cosigner of this repository
("Arkade Runtime", profile `arkade-vault-v1`), TLC configurations that check
them on small instances, and TLAPS proofs of the most important safety
properties for every instance. `PROJECT.json` lists the components, the runs,
the source lines of every definition, the hazards and the theorems.

## The system

A wallet, an Ark Operator and this server hold keys to a vault's coins. The
server adds its signature (the VaultCosigner's) to a transaction when a policy
recorded in its ledger allows it. One Go process holds the key and a SQLite
ledger; request handlers run concurrently.

| Part | Source | What it does |
|---|---|---|
| Spending ledger | `policy/vtxo_ledger.go`, `vtxo.go`, `ledger.go` | operations with their coins, states and rolling 24 h allowance, under `Ledger.mu` |
| Authenticator counters | `policy/signcount.go` | the last WebAuthn counter of a vault's credential |
| Spending service | `application/vtxo.go`, `vtxo_abort.go` | reserve, authorize, authorize-checkpoints, status, finalize, abort |
| Policy sequence | `policy/monotonic.go`, `ledger.go` | a row count outside SQLite that detects a rolled-back database |
| Passkey sessions, recovery map | `application/session.go`, `map.go`, `policy/tenant.go` | single-use challenges; envelope installation and recovery; map writes |
| Savings recovery | `application/transition.go`, `policy/session.go` | cosigning recovery transitions with a write-ahead session |
| Boarding | `application/vault_board_*.go`, `policy/vault_board.go` | register, release and final submission of a boarding output |
| Enrollment | `application/enroll*.go`, `service.go`, `policy/pending.go`, `vault_create.go`, `enrollment_session.go` | invitations, ceremonies, vault creation and publication |
| Coin selection | `application/vtxo.go`, `ark_resolver.go` | listing a vault's coins from the indexer and quoting amount, fee and change |
| Runtime host, readiness, schema | `runtime/`, `authorizer/`, `application/ready.go`, `cmd/`, `policy/schema*.go` | startup, mounting, shutdown; the database baseline |
| Packet checks, key provider | `application/vtxo_verify.go`, `vtxo_pending_proof.go`, `vault_board_verify.go`, `vault_board_finalize.go`, `psbtguard.go`, `key_provider.go`, `signer.go`, `public_emulator.go` | what a packet must be before a cosigner key signs it, and what of a remote signer's answer is kept |
| Vault scripts | `vault/`, `policy/vtxo_script.go`, `application/vtxo_tree.go` | the script trees that a vault's coins lie in |
| WebAuthn, HTTP, configuration | `webauthn/`, `iface/`, `program/`, `profile/`, `deployment/` | stateless parsing, decoding, constants |

## Modules

Actions and helpers keep the Go names. A handler is split into one action per
stretch between two points where other handlers can run (a released lock, a
call to the Operator, a signature), and its stack lives in `calls[c]`. `Fail(c)`
ends a call at any such point: it stands for a check that refuses, an error of a
dependency, a cancelled request, and a crash.

**`SignCount`, `VtxoLedger`** model the locked sections of the ledger. A row of
`ops` joins `vtxo_operation` with its inputs; `request` stands for the columns
written together at signing. MACs and digests are functions of the row and
appear only as the row's immutability.

**`VtxoSpend`** has the handlers over that ledger and their environment:
`released` is the set of signatures that can be known outside, `spentBy` and
`executedAt` what the Operator did, `feePolicy` its current fees. The Operator
may execute a payment from the moment its Ark signature is out, which is earlier
than the protocol needs, and at any later time. The indexer may lag
(`promotePending`), list spent coins (`ReserveVtxo`) and report conflicts. Load
and expiry of a row are one step: both decide on facts that only a swap of the
row can change.

**`SpendContract`, `VtxoSpendRefines`** state what the service promises without
handlers, clocks or retries, and the mapping under which `VtxoSpend` implements
it.

**`PolicySequence`** models the sequence file and the database with crashes,
failed writes, backups and restores. `Rows` are the economic rows,
`version` counts commits of any kind.

**`PasskeySession`, `RecoverySession`, `SavingsRecovery`** model the challenge
map, the rate limiter, envelopes and maps, the row of a recovery session, and
over them every handler that authenticates with a passkey. A transition is a model value with an outpoint, a destination and a
path; `Restart` clears what the process keeps in memory.

**`VaultBoard`** models one boarding outpoint (operations on two outpoints share
no row): its attempts with authorization, dispatch and submission rows, the
handles a wallet holds, messages to the Operator that are lost, delayed or
answered late, and the chain. The handle's seal is abstracted to its content. No
path of the code seals a `release_required` handle at present; the release
handler is modelled as it behaves when it receives one.

**`Enrollment`** models invitations, pending ceremonies, vaults, the enrollment
lock and the published index. The handle, vault id and challenge of a ceremony
are drawn together at random and are one fresh `Id`; the protection tier and the
spending policy are one `Policy`; a request is its credential and keys.
Proposing and reading an invitation's status change nothing and are left out.

**`CoinSelection`** models one quote: `listVtxoPages` asks for a page at a time
while `indexerChanges` moves the list under it, then `selectSpendVtxos` searches.
Fees are counted in half sats and rounded up (`exactFeeSats`), fee programs are
functions, and the 64-bit limits are the constants `MaxInt` and `MaxUint`. The
evaluation budget is counted, not stepped through. Sorting and filtering are
stated by the place each element ends up at (`arranged`, `kept`), which TLC
evaluates and the prover can reason about. `PaysExactly` and `AmpleFundsServed`
are stated over the set of coins, without the search.

**`Packets`** models partially signed transactions and the checks of
`psbtguard.go` and `vtxo_verify.go`. A transaction is its own id, so an outpoint
holds the transaction that made it; a leaf is the keys it demands; a signature
records who made it, over which transaction, prevouts, input, leaf and sighash
type, beside what it claims in the packet. `validOnChain` compares the prevouts
signed with the ones the ledger knows, which the checks cannot see.
`packetVariants` and `signatureVariants` list the ways one packet differs from
another.

**`SpendPackets`, `BoardPackets`, `RecoveryPackets`** model the three users of
the key provider on one request at a time: the quote, the Ark transaction, its
checkpoints and the pending proof; the register and delete proofs and the
commitment with its tree; the Savings transition, the local signer and the
public Emulator. Callers, the Operator and the Emulator hand in the expected
packet, any that differs in one place, and mostly any that differs in two.
`MCPackets` puts the three side by side. `ValidateVtxoTree` and `intent.Verify`
are library code, modelled by what the callers rely on.

**`VaultCustody`** models the script trees as sets of leaves, each with the
device keys, cosigners, delay and authorization script it demands, and one coin
that moves through them: Savings, pending, quarantine, Spending, boarding. The
owner may lose keys, another party may come to hold up to `MaxCopied`, the
service may stop for good, and either party asks for transitions with any fee.
The replay decision is `RecoverySession`'s. A claim another party started does
not age past `Watch` blocks while the owner can still cancel it: that is the
reaction the CSV delays are there for. Payments along the collaborative leaf of
the Spending tree are `VtxoSpend`'s and do not happen here. The guardians' own
leaf in a pending tree is that of `savings.Template`, the only template that
`knownTemplate` accepts.

**`RuntimeHost`** models one process after the other: the steps of
`openWithArkadeDialers` with who owns the keys and what the deferred functions
clean up, the schema of the database file, `main`'s select, the drain and
`Host.Close`. A request writes a row, signs, or asks for readiness, which
waits for the lock of the cached probe while the resolver comes and goes.
`Ledger.Close` clears the integrity key without the ledger's lock; when the
drain has timed out, a transaction in flight may therefore seal a row with any
bytes, and `commitTransaction` chooses. `ServedWhole` speaks of the shutdowns
that waited. The third copy of the integrity key, in `Monotonic`, is not cleared
by the code and not modelled.

## Runs

| Run | Checks | Bounds |
|---|---|---|
| `spend_races` | types, one lifecycle per vault, released signatures durable, no coin signed twice, a counter signs one operation, refinement of `SpendContract` | 1 vault, 2 operations, 2 coins, 2 requests, 2 handlers in flight, positive counters |
| `spend_allowance` | executed outflow of any window within the allowance | 1 handler, 5 ticks, a window of 2 |
| `spend_settles` | an executed operation is eventually finalized | 2 handlers, fairness below |
| `recovery_sessions` | challenges used once, counters used once, an installed envelope kept, one destination per outpoint, write-ahead before signature, rate limit | 2 challenges, 3 transitions of one outpoint (a fee bump and a second destination), 2 handlers, counters 0 and 1, restarts; zero counters and transitions not in one behaviour (`MCBound`) |
| `policy_sequence` | types, the file covers the ledger, committed rows are served | 3 rows, 1 backup at a time, crashes |
| `vault_board` | sent once, one commitment, one live registration, reconcilable, prepare agrees with the ledger | 2 trees, 2 commitments, 2 handlers, 2 attempts, 4 ticks |
| `enrollment` | one vault per invitation, last ceremony wins, exact answers | a token file, 2 sessions, 3 ceremonies, 2 handlers |
| `packets` | no coin twice, exact quotes, no refusal while funds are ample, payments follow the quote, submitted packets complete, a boarding pays the vault, a transition pays its tree | 5 coins (all of them in every order, and every subset sorted), 2 pages of 2, 2 changes of the index, 3 fee programs, 4 amounts; packets with up to 2 differences; trees of 1 or 2 levels; all roles and purposes |
| `custody` | one key never takes the coin, losses bounded, recoverable | both tiers, 1 key in other hands, amounts 2 and 9, fees of none, the ceiling and one more, delays of 2 to 4 blocks, a reaction time of 1 |
| `runtime_host` | nothing held at the end, requests find the whole service, the database is this network's, readiness answers no older than the time to live, a signalled process ends | 2 requests, 2 networks, any number of restarts, 5 ticks, a time to live of 2 |

Two handlers suffice for the races meant here: every locked section reads and
writes one row (or the rows of one vault), so an anomaly needs one handler with
a stale copy and one that changed the row. Two operations of one vault cover the
fence and the overlap of coins. Windows and timeouts are one or two ticks and
the clock passes several of them.

In `packets` every outcome of a selection occurs: a list that shifted into a duplicate, too
many pages, an invalid amount, an overflowing total, an exhausted budget,
insufficient funds, and quotes of three coins with and without change. Two differences are enough to
hide one behind another (a script and its control block, a witness value and an
output); the checks compare each field with one stored value, so a third adds
nothing that a pair does not show. Amounts in `custody` include one that cannot
pay for a transition.

Deadlock is checked in `runtime_host` only: elsewhere a bounded clock and
used-up ids end every behaviour, and a server without requests may rest.

Two further runs document places where the code and a statement about it
differ; each expects a counterexample.

* `transition_retry`: after a fee bump the ledger row holds the new sighash with
  the old signature, so an identical retry of the bumped transition is refused.
  `policy/session.go` says "An identical retry may safely re-sign."
* `sequence_restore`: `Monotonic` says that restoring an older database is
  refused; only one with fewer economic rows is. State changes, counters and
  enrollments add none.

Two more behaviours met while modelling have no run. Of two identical register
calls, one may be accepted by the Operator while the other answers
`definitely_not_submitted`. And a token file presented again after open
enrollment has collected its expired invitation is provisioned with a new
expiry, although `authorizer/runtime.go` calls this idempotent.

### Fairness

`spend_settles`, `runtime_host` and `custody` need it. A handler that has begun takes steps
until it ends (`WF` of `CallSteps`): every database, indexer and signer call has a
deadline. The wallet polls the status of an unsettled operation, and the
indexer, which may answer late or not at all any number of times, also answers
(`SF` of the view and of the three promotion steps, per operation). Nothing is
assumed of checkpoint, finalize or abort calls, nor of the Operator. In
`runtime_host` the main goroutine runs on through the shutdown (`WF` of `Shutdown`, whose drain
has a deadline) and a signature computed in memory ends (`WF` of `signed`);
requests may otherwise hang. In `custody` blocks keep coming and an owner who
can sign, broadcast or spend in the end does; the other party, losses of keys
and the end of the service are not obliged to anything. `Recoverable` speaks of
coins whose keys still suffice. With a single key left of a Savings coin that
includes the row of the outpoint: it must be free, or hold a transition of that
key which the cosigners sign. A transition they refuse stays written ahead
and blocks the outpoint for the single key, as `DecideReplay` is written.

## Proofs

Eight modules hold the theorems. `CountingTheorems` has the lemmas about sums
over finite sets, total orders and lists that the others cite. `ServiceProofs`
is about enrollment, the process and its policy sequence,
`SavingsRecoveryProofs` about recovery and custody, `VtxoSpendProofs` about the
Spending service, its allowance and its contract, `VaultBoardProofs` about the
phases of a boarding, and `CoinSelectionProofs`, `PacketProofs` and
`SpendPacketProofs` about quotes and packets. A theorem holds for every value of
the constants that satisfies the assumptions named in the modules.

### Spending

`VtxoSpendProofs` proves, for any sets of vaults, coins, requests and
concurrent calls and any finite set of operation ids, from the assumptions on the
constants in `SignCount`, `VtxoLedger` and `VtxoSpend`:

* `TypeCorrect`, `OneLifecycle`, `SignedBeforeReleased`, `NoDoubleSignature`,
  `CounterSafety`: `Spec` implies `[]TypeOK`, `[]OneLifecyclePerVault`,
  `[]ReleasedIsDurable`, `[]NoCoinSignedTwice`, `[]CounterSignsOneOperation`;
* `Refinement`: `Spec` implies `ImplementsContract`.

None of these is inductive. A handler writes every column of a copy it read
under an earlier lock, guarded by the state column alone. `CallsSound` says why
that is safe: a copy equals its row for as long as the row keeps the state it
was read in (`copyFresh`). With `RowsSound` and `LiveInputsDisjoint` it makes
`IndInv`. The proof first shows that every step changes the rows in one of three
ways (`RowsStep`: none, one reservation, one row along `validVtxoTransition`
with its facts kept), then that each of the three preserves the invariant.
`LiveInputsDisjoint` also covers `unresolved` rows, which do not lock their
inputs: the fence of their vault keeps their coins, because no other vault owns
them. `CountersSound` is added for the counter: no signature is out under a
counter the ledger has not reached, and while an operation is signed those of
every other operation of its vault are strictly behind; a replay cannot attach
the counter of another ceremony, because the signed operation fences its vault.
The refinement maps initial states to initial states and each step to a step of
`SpendContract` on one operation or to a stutter. It needs one more invariant: a
handler that is about to insert a reservation has not signed it.

Its second part proves `AllowanceSafety` (`[]AllowanceKept`) for any finite
set of operation ids (they are 16 bytes, `canonicalVtxoOperationID`), any
amounts, fees, allowances and windows. `AllowanceInv` adds to `IndInv`: an
executed operation is signed and has an input spent (`ExecutedSound`); a settled
one has an input spent, so that it is not executed later, and is charged at a
time no earlier than its execution (`SettledSound`); a handler settles what it
has seen spent (`ResolvedSound`); and an operation that may still be executed
fits into the allowance together with everything executed within a window of
now (`BudgetHeld`). The last is what the check in `ReserveVtxoOperation`
establishes: the fence leaves only finalized operations to count, and those are
charged from their settlement. TLC finds `AllowanceInv` satisfied on the instance
of `spend_allowance`.

`CountingTheorems` has the sums this needs. The recursion inside `MapThenSumSet`
is solved, uniquely, on every finite set, any element may be taken out first,
sums grow with the set and follow a bijection; each is shown on a smallest
subset for which it would fail, since subset inclusion is well-founded on finite
sets. The same argument shows that sorting by a total order puts every element
at a place of its own (`Ranks`).

### Quotes and packets

`CoinSelectionProofs` proves `QuotesPayExactly`, `CoinsSpentOnce` and
`AmpleFundsAlwaysServed` (`[]PaysExactly`, `[]EachCoinOnce`,
`[]AmpleFundsServed`) for any finite set of coins, any values, fee programs and
limits, and any number of changes of the index between pages, from
`CoinAssumption`: amounts and fees are natural numbers and a fee program is
defined on every 64-bit amount. The invariant only carries the shapes of the
lists and the fact `Answer(outcome)`. What needs work is the search: the sorted
list is a permutation, a prefix of it is the set of its coins, and once a prefix
covers the amount with dust to spare under flat output fees some candidate fee
solves the equation exactly. `AmpleFundsServed` had to be corrected for
this proof: it counted a coin as usable when its value exceeded half its
half-sat fee, but `vtxosToCoins` compares with the fee rounded up, so a coin of
value V with a fee of 2V - 1 half sats is left out by the code. No coin of
the run had such a fee; coin 4 now has.

The packet theorems are about open systems. `SpendPackets`, `BoardPackets` and
`RecoveryPackets` list the packets that TLC tries; `AnySpendSpec`,
`AnyBoardSpec` and `AnyRecoverySpec` have the same initial states and actions, with every packet of the right shape in place of those in the lists
(`IsPacket`: what decoding gives, with any number of inputs, outputs, leaves and
signatures). Every packet that the run `packets` hands in is of that shape, as
TLC finds when the shapes are added to the run as invariants.

* `PaymentsFollowQuote`, `SubmittedFinalizable` (`[]PaymentFollowsQuote`,
  `[]Finalizable`), in `SpendPacketProofs`, assume nothing else of a packet. The
  invariant says that every transaction the cosigner signed for moves coins of
  the quote to their checkpoints, pays the quote, or is a message no chain
  accepts, and that the row's packets carry the signatures its state says. It
  rests on the selection's invariant for the quote.
* `TransitionsPay` (`[]TransitionPays`), in `PacketProofs`, assumes that the
  packet spends outputs of transactions and that nobody else signs with the
  vault cosigner's key. The Emulator's answer is arbitrary.
* `BoardingsPay` (`[]BoardingPays`), in `PacketProofs`, assumes of a packet that
  the boarding cosigner's signatures in it are ones it released, and of a tree
  that its transactions do not spend one another in a circle, which hashes
  exclude. The tree may have any depth: a node is reached when every set closed
  under "spends an output of" contains it. Until a commitment is signed, the
  signatures that left are over messages no chain accepts. That every node of a
  tree that passes is reached is shown on the node of least rank that would
  not be.

### The process and its policy sequence

`ServiceProofs` proves `SequenceTypes`, `FileCoversLedger` and
`NoRowRolledBack` (`[]TypeOK`, `[]SequenceCovers`, `[]CommittedServed`) for any
finite set of rows. The invariant relates the file's count to the rows of a
transaction in flight and to every backup: all of them are subsets of what was
committed, so equal counts mean equal sets.

It also proves `ClearedAtTheEnd`, `WholeWhileServed`,
`OwnDatabaseServed` and `ReadinessIsFresh` (`[]NothingHeldAtTheEnd`,
`[]ServedWhole`, `[]ServesOwnDatabase`, `[]ReadinessFresh`) for any networks,
requests and times to live, each from an invariant of its own: what `main` holds
at each of its steps (`Custody`), which requests can be in flight there
(`InFlight`), which database is open (`OwnDatabase`) and what the readiness cache
knows (`Cached`).

### Recovery and custody

`SavingsRecoveryProofs` proves `OneKeySafety` and `BoundedLoss` (`[]OneKeyNeverTakes`,
`[]LossBounded`) for any delays longer than the reaction time, any amounts,
anchor and ceiling, and any number of copied keys. `CustodyInv` has four parts
beside the types. `SignedOK` and `SessionsOK`: whatever is signed or stored for
the present outpoint is a transition within the ceiling, so a replay cannot
bring back another. `ChargedOK`: a coin has paid for no transition in Savings,
at most one in a pending tree and at most two in a quarantine, which bounds the loss
and shows that there is no third. `InitiatedOK`: a pending or quarantine tree
remembers who initiated it and with which key, which tells the cases that the
design grants from the others. `WatchedOK`: a claim by a key that another party
holds is no older than `Watch` while the owner holds the other keys, because
`canCancel` holds then, with the service down too. One step per action
preserves it. The cases of `SpendAlone` are where the trees themselves are
examined (`AloneLeaves`).

It proves `ChallengeSafety`, `CounterSafety`,
`EnvelopeSafety`, `DestinationSafety`, `WriteAheadSafety` and `RateSafety`
(`[]ChallengeUsedOnce`, `[]CounterUsedOnce`, `[]InstalledKept`,
`[]OneDestPerOutpoint`, `[]WriteAheadHeld`, `[]RateKept`) for any number of
vaults, calls, challenges and transitions and any restarts. There is one
invariant per concern on top of the shapes of the state: who holds a challenge
(the table, one call or nobody), what counters are behind the stored one, which
acknowledged envelope is stored, what the row of an outpoint says while a call
is between the write-ahead and the recorded signature, and which admissions the
limiter still remembers. For the rate, every admission of this run that is
younger than the window is among the remembered hits; a hit carries its number,
so counting admissions is an injection into the hits.

### Boarding and enrollment

`VaultBoardProofs` proves `SendSafety`, `CommitmentSafety`, `RegistrationSafety`,
`ReconcileSafety` and `ClassificationAgrees` (`[]SentOnce`, `[]OneCommitment`,
`[]OneLiveRegistration`, `[]Reconcilable`, `[]PrepareAgrees`) for any number of
attempts, calls and commitments. `IndInv` ties the rows of an attempt, the one
call that is past the dispatch of a phase and the one message that call may have
put on the wire: `AttemptsSound` (the order of the phases in a row),
`MessagesSound`, `CallsSound`, `ResultsSound` (no result without a dispatch, no
sender after a result) and `SpentSound`.

`ServiceProofs` proves `InviteSafety`, `CeremonySafety` and `AnswerSafety`
(`[]OneVaultPerInvite`, `[]LastCeremonyWins`, `[]AnswersExact`) for any number of
tokens, ceremonies and finish calls. The invariant follows a ceremony: an id is
offered for one token (`OfferedOnce`), the pending row is the last offered and
an invitation is consumed by the vault that names it (`RowsSound`,
`VaultsSound`), a finish carries an offered id (`CallsSound`), and an answer of
success names a stored vault (`AnswersSound`). It assumes that the empty column is
no id and no token.

### Only model-checked

* `ExecutedSettles`, `SignalledEnds`, `Recoverable`: liveness under fairness is out
  of the prover's reach.
* The two runs that end in a violation state what a text claims and the code does
  not do.

## Abstractions to know about

* The clock is monotone, one tick is the granularity of the stored timestamps.
* `int64` overflow in the allowance sum refuses only what the allowance refuses.
* Semaphores around verification and fee selection refuse or delay a call; both
  are covered by `Fail` and by interleaving.
* The change output of a payment is part of `promotePending`.
* The rate limiter reads the clock just before its lock; the two are one step.
  Its slice of times is a set of numbered hits: the code only drops old entries,
  counts the rest and appends, so their order does not matter.
  `RateKept` is about one process run: the limiter is in memory.
* A direct proof that fails after the counter moved is `Fail`; `uses` then
  counts a use that did not happen, which only strengthens the properties.
* In `VaultBoard` the chain view of a handler may be one step old when its
  message leaves. A reorganisation or a changed fee refuses a call.
* A sequence file ahead of the database after a failed COMMIT keeps the service
  down on purpose (`vtxo_ledger.go`, above the COMMIT). Restoring the file
  together with the database is outside the control, as its comment says.
* Between the commit of a vault and its publication, or after a failed
  read-back, a retried finish is answered with a status without addresses until
  the next start.
* Under a fee program that charges outputs by amount, the equation between fee
  and change may have no whole solution for any prefix of the coins; the code
  then answers that funds are insufficient. `AmpleFundsServed` leaves such
  programs out.
* An error of the fee estimator, a cancelled request and a full semaphore are the
  one action `selectionFails`.
* Random tokens and ids do not repeat.
* Signatures cannot be made without the key, and a transaction id, a tweaked key
  or a script stands for exactly what it was computed from.
* `Packets` leaves out encodings: base64, key order, unknown fields other than
  those that carry a message, a funding transaction or a revealed script.
* The lower of a transition script's two fee ceilings is one constant: the
  feerate ceiling depends on the packet's weight, which is fixed per leaf.
* In `RecoveryPackets` and `VaultCustody` the Emulator's execution of the
  authorization script is the same as the local signer's; in `RecoveryPackets`
  nothing is assumed of its answer.
* Delays of the Spending and boarding trees are seconds in the code; in
  `VaultCustody` all delays count blocks.

## Not modelled

WebAuthn and CBOR parsing, HTTP decoding, error texts and static configuration
are stateless checks of one input; what they refuse is `Fail`. The derivation of
keys, the descriptor's text, the opcodes of a script and the library's taproot
construction are byte-level computation; the models use their results by name.
MACs guard against rows written by something else than this server, which the
models do not contain. The read-only calls (proposal, invitation status, public
descriptor, status) change nothing.

## Plan

1. (done) Spending, sequence, recovery, boarding, enrollment, coin selection and
   the runtime host; the Spending and sequence safety proofs.
2. (done) Packets and exact signing, the script trees and custody of a coin,
   readiness; the custody proofs.
3. (done) Proofs of the counter, the allowance and the refinement of
   `SpendContract`; of sessions, recovery and the rate limit; of boarding,
   enrollment and the runtime host.
4. (done) Proofs of coin selection, and of what is signed for packets of any
   shape: spends, boardings and Savings transitions.
5. Several boarding outpoints behind one wallet; the composition of recovery and
   spending over one authenticator counter.
