----------------------------- MODULE RuntimeHost -----------------------------
(***************************************************************************)
(* One authorizer process: cmd/authorizer/main.go, the startup sequence of *)
(* internal/authorizer/runtime.go, the host of internal/runtime/host.go    *)
(* that mounts and shuts the service down, and the readiness cache of      *)
(* internal/application/ready.go. Requests are reduced to the three ways   *)
(* they meet this life cycle: they write a MACed row, they sign under the  *)
(* key provider's read lock, or they ask for readiness.                    *)
(***************************************************************************)
EXTENDS Integers

CONSTANTS
    Networks,     \* deployments a database can be created for
    Slots,        \* requests in flight
    UnlinkKey,    \* the key file is removed once it is loaded
    TTL,          \* how long a readiness probe is trusted, in ticks
    MaxClock      \* bound of the clock

ASSUME HostConstants == UnlinkKey \in BOOLEAN /\ TTL \in Nat \ {0} /\ MaxClock \in Nat

VARIABLES
    pc,           \* where main stands
    network,      \* the deployment of this process
    schema,       \* the database file: its core tables and its boarding tables
    keyFile,      \* the plaintext VaultCosigner key is on disk
    master,       \* the VaultCosigner key in memory
    integrity,    \* the derived integrity key outside the ledger
    ledger,       \* the SQLite connection
    ledgerKey,    \* the ledger's own copy of the integrity key
    host,         \* Host.state
    board,        \* the boarding runtime is installed
    reqs,         \* what each request slot is doing
    probe,        \* resolverReadyMu: none, or the start of the probe under it
    readyAt,      \* start of the last completed probe, or Never
    readyErr,     \* resolverReadyErr: what that probe found
    told,         \* what a readiness request was told at this moment, or Nothing
    resolver,     \* the Operator as a probe finds it: ok or unavailable
    seen,         \* history: when the Operator was last ok, last unavailable
    rows,         \* the MACs of committed rows: good or bad
    timedOut,     \* some shutdown gave up waiting for requests
    clock

disk == <<network, schema>>
secrets == <<master, integrity, ledger, ledgerKey>>
readiness == <<probe, readyAt, readyErr, told, resolver, seen>>
hostVars == <<pc, disk, keyFile, secrets, host, board, reqs, readiness, rows, timedOut, clock>>

-----------------------------------------------------------------------------
Never == -1
Nothing == "none"
Results == {"ok", "unavailable"}
Empty == [core |-> Nothing, board |-> Nothing]
Held == {"local", "service"}
Starting == {"load", "unlink", "create", "ledger", "sequence", "dial", "mount"}
Mounted == {"install", "check", "env"}
Closing == {"close", "wipe", "keys", "release", "closed"}

HostInit ==
    /\ pc = "down" /\ keyFile = TRUE
    /\ network \in Networks
    /\ schema \in {Empty, [core |-> "other", board |-> Nothing]}
    /\ master = "absent" /\ integrity = "absent"
    /\ ledger = "closed" /\ ledgerKey = "absent"
    /\ host = "none" /\ board = FALSE
    /\ reqs = [s \in Slots |-> "idle"]
    /\ probe = Never /\ readyAt = Never /\ readyErr = "ok" /\ told = Nothing
    /\ resolver \in Results
    /\ seen = [r \in Results |-> IF r = resolver THEN 0 ELSE Never]
    /\ rows = {} /\ timedOut = FALSE /\ clock = 0

Advance(from, to) == pc = from /\ pc' = to

-----------------------------------------------------------------------------
(* openWithArkadeDialers, in its order. *)

\* Deployment, paths, acknowledgements and the contract pack are in order.
openBegins ==
    /\ Advance("down", "load")
    /\ network' \in Networks
    /\ UNCHANGED <<schema, keyFile, secrets, host, board, reqs, readiness, rows, timedOut, clock>>

LoadVaultCosignerKey ==
    /\ Advance("load", "unlink")
    /\ keyFile
    /\ master' = "local"
    /\ UNCHANGED <<disk, keyFile, integrity, ledger, ledgerKey, host, board, reqs, readiness, rows, timedOut, clock>>

unlinkCosignerKeyAfterLoad ==
    /\ Advance("unlink", "create")
    /\ keyFile' = (keyFile /\ ~ UnlinkKey)
    /\ UNCHANGED <<disk, secrets, host, board, reqs, readiness, rows, timedOut, clock>>

\* A database without tables gets the baseline, the boarding tables with the
\* exit delay of the network, in one transaction.
initializeSchema ==
    /\ Advance("create", "ledger")
    /\ schema' = IF schema = Empty THEN [core |-> "current", board |-> network] ELSE schema
    /\ UNCHANGED <<network, keyFile, secrets, host, board, reqs, readiness, rows, timedOut, clock>>

\* Tables, columns, keys, indexes, CHECKs and the version are the baseline's.
validateMultiTenantSchema == schema.core = "current"

\* Mutation: the boarding tables are not compared with the network's.
MutValidateBoardingTables == schema.board # Nothing

validateBoardingTables == schema.board = network

openLedger ==
    /\ Advance("ledger", "sequence")
    /\ validateMultiTenantSchema
    /\ validateBoardingTables
    /\ ledger' = "open"
    /\ UNCHANGED <<disk, keyFile, master, integrity, ledgerKey, host, board, reqs, readiness, rows, timedOut, clock>>

\* deriveCredentialIntegrityKey, SetIntegrityKey and AttachMonotonic. (The
\* sequence keeps a third copy of the key, which nothing clears: not modelled.)
attachSequence ==
    /\ Advance("sequence", "dial")
    /\ integrity' = "local"
    /\ ledgerKey' = "set"
    /\ UNCHANGED <<disk, keyFile, master, ledger, host, board, reqs, readiness, rows, timedOut, clock>>

\* The invitation is provisioned, the signer and the resolver are dialled, and
\* the service takes the keys over.
dialArkade ==
    /\ Advance("dial", "mount")
    /\ master' = "service"
    /\ integrity' = "service"
    /\ UNCHANGED <<disk, keyFile, ledger, ledgerKey, host, board, reqs, readiness, rows, timedOut, clock>>

\* LoadVaults authenticates the stored vaults; then the host is opened.
mountHost ==
    /\ Advance("mount", "install")
    /\ host' = "open"
    /\ UNCHANGED <<disk, keyFile, secrets, board, reqs, readiness, rows, timedOut, clock>>

wiped(key) == IF key \in Held THEN "wiped" ELSE key

\* Mutation: the deferred cleanup forgets the keys the service has taken over.
MutCleanupOnError ==
    /\ pc \in Starting
    /\ pc' = "failed"
    /\ master' = IF master = "local" THEN "wiped" ELSE master
    /\ integrity' = IF integrity = "local" THEN "wiped" ELSE integrity
    /\ ledger' = "closed"
    /\ ledgerKey' = IF ledger = "open" THEN "wiped" ELSE ledgerKey
    /\ UNCHANGED <<disk, keyFile, host, board, reqs, readiness, rows, timedOut, clock>>

\* A step of openWithArkadeDialers errs: the deferred functions wipe the key
\* its owner holds, close the ledger, and the caller ends the process.
cleanupOnError ==
    /\ pc \in Starting
    /\ pc' = "failed"
    /\ master' = wiped(master)
    /\ integrity' = wiped(integrity)
    /\ ledger' = "closed"
    /\ ledgerKey' = IF ledger = "open" THEN "wiped" ELSE ledgerKey
    /\ UNCHANGED <<disk, keyFile, host, board, reqs, readiness, rows, timedOut, clock>>

-----------------------------------------------------------------------------
(* Open, and main until it serves. *)

InstallVaultBoardAuthorization ==
    /\ Advance("install", "check")
    /\ board' = TRUE
    /\ UNCHANGED <<disk, keyFile, secrets, host, reqs, readiness, rows, timedOut, clock>>

\* host.Ready: the service is whole and the first probe succeeds.
startupReady ==
    /\ Advance("check", "env")
    /\ host = "open" /\ board
    /\ resolver = "ok"
    /\ readyAt' = clock /\ readyErr' = "ok" /\ told' = "ok"
    /\ UNCHANGED <<disk, keyFile, secrets, host, board, reqs, probe, resolver, seen, rows, timedOut, clock>>

\* clearGatewaySecretEnv; the server gets the mounted handler.
serve ==
    /\ Advance("env", "serving")
    /\ UNCHANGED <<disk, keyFile, secrets, host, board, reqs, readiness, rows, timedOut, clock>>

\* A step after the host was opened errs: the runtime is closed.
closeOnError ==
    /\ pc \in Mounted
    /\ pc' = "close"
    /\ UNCHANGED <<disk, keyFile, secrets, host, board, reqs, readiness, rows, timedOut, clock>>

-----------------------------------------------------------------------------
(* Requests. *)

at(s, state) == reqs[s] = state
become(s, state) == reqs' = [reqs EXCEPT ![s] = state]

\* server.Shutdown closes the listener before it waits.
accept(s) ==
    /\ pc = "serving"
    /\ at(s, "idle")
    /\ become(s, "accepted")
    /\ UNCHANGED <<pc, disk, keyFile, secrets, host, board, readiness, rows, timedOut, clock>>

\* requireLedgerIntegrity, then a transaction of the ledger under its lock.
beginTransaction(s) ==
    /\ at(s, "accepted")
    /\ \A t \in Slots : reqs[t] # "tx"
    /\ integrity = "service" /\ ledgerKey = "set" /\ ledger = "open"
    /\ become(s, "tx")
    /\ UNCHANGED <<pc, disk, keyFile, secrets, host, board, readiness, rows, timedOut, clock>>

\* The row is sealed and committed. Ledger.Close clears the key without the
\* lock: a transaction it overtakes seals with whatever bytes it finds, and its
\* COMMIT may still succeed.
commitTransaction(s) ==
    /\ at(s, "tx")
    /\ become(s, "idle")
    /\ rows' \in IF ledgerKey = "set" THEN {rows \cup {"good"}}
                 ELSE {rows, rows \cup {"good"}, rows \cup {"bad"}}
    /\ UNCHANGED <<pc, disk, keyFile, secrets, host, board, readiness, timedOut, clock>>

\* withMaster holds the read lock of the key while it signs.
withMaster(s) ==
    /\ at(s, "accepted")
    /\ master = "service"
    /\ become(s, "signing")
    /\ UNCHANGED <<pc, disk, keyFile, secrets, host, board, readiness, rows, timedOut, clock>>

signed(s) ==
    /\ at(s, "signing")
    /\ become(s, "idle")
    /\ UNCHANGED <<pc, disk, keyFile, secrets, host, board, readiness, rows, timedOut, clock>>

\* A request ends without doing either: refused, read-only, or cancelled.
tell(s) ==
    /\ reqs[s] \in {"accepted", "tx"}
    /\ become(s, "idle")
    /\ UNCHANGED <<pc, disk, keyFile, secrets, host, board, readiness, rows, timedOut, clock>>

\* Mutation: a probe is trusted at the end of its time to live too.
MutProbeDue == readyAt = Never \/ clock - readyAt > TTL

probeDue == readyAt = Never \/ clock - readyAt >= TTL

\* Ready's checks of the service, and the mutex of the readiness cache.
readyLocks(s) ==
    /\ at(s, "accepted")
    /\ integrity = "service" /\ ledgerKey = "set" /\ ledger = "open" /\ board
    /\ probe = Never

\* cachedResolverReadiness: a fresh result is answered from the cache ...
cachedReadiness(s) ==
    /\ readyLocks(s)
    /\ ~ probeDue
    /\ told' = readyErr
    /\ become(s, "idle")
    /\ UNCHANGED <<pc, disk, keyFile, secrets, host, board, probe, readyAt, readyErr, resolver, seen, rows, timedOut, clock>>

\* ... else the mutex is kept during the probe, which the request's cancellation
\* cannot end. The Operator is met at some moment of the probe.
beginProbe(s) ==
    /\ readyLocks(s)
    /\ probeDue
    /\ become(s, "probing")
    /\ probe' = clock
    /\ UNCHANGED <<pc, disk, keyFile, secrets, host, board, readyAt, readyErr, told, resolver, seen, rows, timedOut, clock>>

IntentFeePolicy(s) ==
    /\ at(s, "probing")
    /\ become(s, resolver)
    /\ UNCHANGED <<pc, disk, keyFile, secrets, host, board, readiness, rows, timedOut, clock>>

\* The result is stored with the start of its probe, and answered.
endProbe(s) ==
    /\ reqs[s] \in Results
    /\ become(s, "idle")
    /\ readyAt' = probe /\ readyErr' = reqs[s] /\ told' = reqs[s]
    /\ probe' = Never
    /\ UNCHANGED <<pc, disk, keyFile, secrets, host, board, resolver, seen, rows, timedOut, clock>>

-----------------------------------------------------------------------------
(* Shutdown. *)

\* SIGINT or SIGTERM: no new requests.
signalled ==
    /\ Advance("serving", "draining")
    /\ UNCHANGED <<disk, keyFile, secrets, host, board, reqs, readiness, rows, timedOut, clock>>

\* Mutation: the shutdown does not wait for the requests.
MutDrained ==
    /\ Advance("draining", "close")
    /\ UNCHANGED <<disk, keyFile, secrets, host, board, reqs, readiness, rows, timedOut, clock>>

drained ==
    /\ Advance("draining", "close")
    /\ \A s \in Slots : reqs[s] = "idle"
    /\ UNCHANGED <<disk, keyFile, secrets, host, board, reqs, readiness, rows, timedOut, clock>>

\* Mutation: server.Shutdown waits without a deadline.
MutDrainTimeout ==
    /\ Advance("draining", "close")
    /\ \A s \in Slots : reqs[s] = "idle"
    /\ UNCHANGED <<disk, keyFile, secrets, host, board, reqs, readiness, rows, timedOut, clock>>

\* server.Shutdown waits 15 seconds, a request may last 75.
drainTimeout ==
    /\ Advance("draining", "close")
    /\ \E s \in Slots : reqs[s] # "idle"
    /\ timedOut' = TRUE
    /\ UNCHANGED <<disk, keyFile, secrets, host, board, reqs, readiness, rows, clock>>

\* Host.Close: the state, then the mounted Shutdown, then the state again.
hostCloses ==
    /\ Advance("close", "wipe")
    /\ host' = "closing"
    /\ UNCHANGED <<disk, keyFile, secrets, board, reqs, readiness, rows, timedOut, clock>>

\* The service's integrity key is cleared at once ...
WipeSecrets ==
    /\ Advance("wipe", "keys")
    /\ integrity' = wiped(integrity)
    /\ UNCHANGED <<disk, keyFile, master, ledger, ledgerKey, host, board, reqs, readiness, rows, timedOut, clock>>

\* ... and the signing key when the signatures that read it have ended.
wipe ==
    /\ Advance("keys", "release")
    /\ \A s \in Slots : reqs[s] # "signing"
    /\ master' = wiped(master)
    /\ UNCHANGED <<disk, keyFile, integrity, ledger, ledgerKey, host, board, reqs, readiness, rows, timedOut, clock>>

ledgerClose ==
    /\ Advance("release", "closed")
    /\ ledger' = "closed"
    /\ ledgerKey' = "wiped"
    /\ host' = "closed"
    /\ UNCHANGED <<disk, keyFile, master, integrity, board, reqs, readiness, rows, timedOut, clock>>

\* The process is gone, with all it kept in memory.
gone ==
    /\ pc' = "down"
    /\ master' = "absent" /\ integrity' = "absent"
    /\ ledger' = "closed" /\ ledgerKey' = "absent"
    /\ host' = "none" /\ board' = FALSE
    /\ reqs' = [s \in Slots |-> "idle"]
    /\ probe' = Never /\ readyAt' = Never /\ readyErr' = "ok" /\ told' = Nothing
    /\ UNCHANGED <<disk, keyFile, resolver, seen, rows, timedOut, clock>>

exit == pc \in {"failed", "closed"} /\ gone

\* log.Fatal when the listener fails runs no deferred function.
listenerFails == pc = "serving" /\ gone

crash == pc # "down" /\ gone

\* The operator decrypts the key again.
unlock ==
    /\ pc = "down" /\ ~ keyFile
    /\ keyFile' = TRUE
    /\ UNCHANGED <<pc, disk, secrets, host, board, reqs, readiness, rows, timedOut, clock>>

\* The Operator becomes reachable or unreachable.
operatorChanges ==
    /\ resolver' \in Results \ {resolver}
    /\ seen' = [seen EXCEPT ![resolver'] = clock]
    /\ UNCHANGED <<pc, disk, keyFile, secrets, host, board, reqs, probe, readyAt, readyErr, told, rows, timedOut, clock>>

\* A probe has a deadline well below its time to live.
ClockTick ==
    /\ clock < MaxClock
    /\ probe # Never => clock + 1 - probe < TTL
    /\ clock' = clock + 1
    /\ seen' = [seen EXCEPT ![resolver] = clock + 1]
    /\ told' = Nothing
    /\ UNCHANGED <<pc, disk, keyFile, secrets, host, board, reqs, probe, readyAt, readyErr, resolver, rows, timedOut>>

-----------------------------------------------------------------------------
Startup ==
    \/ openBegins \/ LoadVaultCosignerKey \/ unlinkCosignerKeyAfterLoad
    \/ initializeSchema \/ openLedger
    \/ attachSequence \/ dialArkade \/ mountHost \/ cleanupOnError
    \/ InstallVaultBoardAuthorization \/ startupReady \/ serve \/ closeOnError

Shutdown ==
    drained \/ drainTimeout \/ hostCloses \/ WipeSecrets \/ wipe \/ ledgerClose \/ exit

Request(s) ==
    \/ accept(s) \/ beginTransaction(s) \/ commitTransaction(s)
    \/ withMaster(s) \/ signed(s) \/ tell(s)
    \/ cachedReadiness(s) \/ beginProbe(s) \/ IntentFeePolicy(s) \/ endProbe(s)

HostNext ==
    \/ Startup \/ Shutdown \/ signalled
    \/ \E s \in Slots : Request(s)
    \/ listenerFails \/ crash \/ unlock \/ operatorChanges \/ ClockTick

HostSpec == HostInit /\ [][HostNext]_hostVars

\* main's goroutine runs, and a signature in memory ends.
FairSpec == HostSpec /\ WF_hostVars(Shutdown) /\ \A s \in Slots : WF_hostVars(signed(s))

-----------------------------------------------------------------------------
\* openWithArkadeDialers, Host.Close: whichever step of the startup errs, and
\* however the process is shut down, the signing key, the service's and the
\* ledger's integrity keys are cleared and the ledger is closed before the
\* process ends by itself.
NothingHeldAtTheEnd ==
    pc \in {"failed", "closed"} =>
        /\ master \notin Held /\ integrity \notin Held
        /\ ledger = "closed" /\ ledgerKey # "set"

\* main, Ledger.Close: a request always finds the whole service, and a row is
\* never sealed with a cleared key, unless a shutdown gave up waiting.
ServedWhole ==
    ~ timedOut =>
        /\ "bad" \notin rows
        /\ \A s \in Slots : reqs[s] # "idle" =>
               /\ master = "service" /\ integrity = "service"
               /\ ledger = "open" /\ ledgerKey = "set"
               /\ host = "open" /\ board

\* OpenLedgerForNetwork "never rewrites an existing schema or accepts the other
\* network's boarding delay": across starts for different networks, crashes and
\* foreign files, what is served is a baseline created for this very network.
ServesOwnDatabase ==
    pc \in {"serving", "draining"} => schema = [core |-> "current", board |-> network]

\* cachedResolverReadiness: whoever probed, whenever, and however the Operator has
\* changed since, a readiness request is told a state that the Operator was in
\* less than a time to live ago.
ReadinessFresh == told # Nothing => seen[told] > clock - TTL

\* main: once a signal arrives the process ends, although requests may hang.
SignalledEnds == pc = "draining" ~> pc = "down"
=============================================================================
