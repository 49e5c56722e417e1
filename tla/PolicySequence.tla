--------------------------- MODULE PolicySequence ---------------------------
(***************************************************************************)
(* The policy sequence (internal/policy/monotonic.go): a count kept in a   *)
(* file outside the SQLite ledger, advanced before every transaction that  *)
(* adds economic rows commits, and compared with the ledger at startup.    *)
(*                                                                         *)
(* Ledger.mu admits one transaction at a time, so there is one phase.      *)
(* Crashes and failing writes come between any two steps; backups of the   *)
(* database may be restored while the process is down. The file is never   *)
(* restored.                                                               *)
(***************************************************************************)
EXTENDS Integers, FiniteSets

CONSTANTS
    Rows,         \* vtxo_operation and vault_board_* rows that may be inserted
    MaxVersion    \* bound of the number of commits

ASSUME SequenceConstants == IsFiniteSet(Rows) /\ MaxVersion \in Nat

VARIABLES
    db,          \* the ledger: its economic rows and a version, one per commit
    file,        \* the count in the sequence file
    phase,       \* the process: down, or where the ledger lock's holder is
    tx,          \* rows inserted by the open transaction
    committed,   \* history: every row whose COMMIT succeeded
    newest,      \* history: the last version committed
    backups      \* copies of the database

sequenceVars == <<db, file, phase, tx, committed, newest, backups>>

-----------------------------------------------------------------------------
NoFile == -1

Database == [rows : SUBSET Rows, version : Nat]

SequenceInit ==
    /\ db = [rows |-> {}, version |-> 0]
    /\ file = NoFile
    /\ phase = "down"
    /\ tx = {}
    /\ committed = {} /\ newest = 0 /\ backups = {}

economicOutflowCount(rows) == Cardinality(rows)

\* Mutation: a ledger behind the file is let in.
MutBehindAccepted(n) == file = NoFile /\ n # 0

ObserveRefuses(n) == IF file = NoFile THEN n # 0 ELSE n < file

\* Mutation: nothing is written for an empty ledger.
MutNoFirstWrite(n) == IF n > file /\ n > 0 THEN n ELSE file

ObservedCount(n) == IF file = NoFile THEN 0 ELSE n

-----------------------------------------------------------------------------
\* AttachMonotonic: startup counts the rows and observes the count.
AttachMonotonic ==
    /\ phase = "down"
    /\ LET n == economicOutflowCount(db.rows)
       IN  ~ ObserveRefuses(n) /\ file' = ObservedCount(n)
    /\ phase' = "idle"
    /\ UNCHANGED <<db, tx, committed, newest, backups>>

\* A transaction inserts one row, or an authorization with its dispatch.
insertRows(new) ==
    /\ phase = "idle"
    /\ new # {} /\ Cardinality(new) <= 2
    /\ new \cap db.rows = {}
    /\ tx' = new
    /\ phase' = "inserted"
    /\ UNCHANGED <<db, file, committed, newest, backups>>

\* Mutation: the sequence is advanced once the rows are durable.
MutObserveLater ==
    /\ phase = "inserted"
    /\ phase' = "observed"
    /\ UNCHANGED <<db, file, tx, committed, newest, backups>>

observeEconomicOutflows ==
    /\ phase = "inserted"
    /\ LET n == economicOutflowCount(db.rows \cup tx)
       IN  ~ ObserveRefuses(n) /\ file' = ObservedCount(n)
    /\ phase' = "observed"
    /\ UNCHANGED <<db, tx, committed, newest, backups>>

\* The write errs, before or after the rename: the transaction is rolled back.
observeFails ==
    /\ phase = "inserted"
    /\ LET n == economicOutflowCount(db.rows \cup tx)
       IN  file' \in {file} \cup (IF ObserveRefuses(n) THEN {} ELSE {ObservedCount(n)})
    /\ phase' = "idle"
    /\ tx' = {}
    /\ UNCHANGED <<db, committed, newest, backups>>

COMMIT ==
    /\ phase = "observed"
    /\ newest < MaxVersion
    /\ newest' = newest + 1
    /\ db' = [rows |-> db.rows \cup tx, version |-> newest']
    /\ committed' = committed \cup tx
    /\ phase' = "idle"
    /\ tx' = {}
    /\ UNCHANGED <<file, backups>>

\* COMMIT errs and the deferred ROLLBACK runs; the file stays ahead.
ROLLBACK ==
    /\ phase = "observed"
    /\ phase' = "idle"
    /\ tx' = {}
    /\ UNCHANGED <<db, file, committed, newest, backups>>

\* A commit that adds no economic row (a state transition, a sign count, an
\* enrollment) does not observe the sequence.
updateRows ==
    /\ phase = "idle"
    /\ newest < MaxVersion
    /\ newest' = newest + 1
    /\ db' = [db EXCEPT !.version = newest']
    /\ UNCHANGED <<file, phase, tx, committed, backups>>

-----------------------------------------------------------------------------
Crash ==
    /\ phase # "down"
    /\ phase' = "down"
    /\ tx' = {}
    /\ UNCHANGED <<db, file, committed, newest, backups>>

Backup ==
    /\ backups' = backups \cup {db}
    /\ UNCHANGED <<db, file, phase, tx, committed, newest>>

Restore ==
    /\ phase = "down"
    /\ \E b \in backups : db' = b
    /\ UNCHANGED <<file, phase, tx, committed, newest, backups>>

SequenceNext ==
    \/ AttachMonotonic
    \/ \E new \in SUBSET Rows : insertRows(new)
    \/ observeEconomicOutflows \/ observeFails
    \/ COMMIT \/ ROLLBACK \/ updateRows
    \/ Crash \/ Backup \/ Restore

SequenceSpec == SequenceInit /\ [][SequenceNext]_sequenceVars

-----------------------------------------------------------------------------
Up == phase # "down"

\* The process only runs with a sequence file, and a transaction is open
\* between its insert and its end only.
TypeOK ==
    /\ db \in Database
    /\ file \in Nat \cup {NoFile}
    /\ phase \in {"down", "idle", "inserted", "observed"}
    /\ tx \subseteq Rows
    /\ committed \subseteq Rows
    /\ newest \in Nat
    /\ backups \subseteq Database
    /\ Up => file # NoFile
    /\ tx # {} <=> phase \in {"inserted", "observed"}

\* ReserveVtxoOperation observes before it commits: whatever crashes or fails,
\* the file is never behind a row that was ever committed.
SequenceCovers == committed # {} => file >= economicOutflowCount(committed)

\* Observe at startup: a process never serves a ledger that lacks a committed
\* row, so no restored database frees allowance or inputs already charged.
CommittedServed == Up => committed \subseteq db.rows

\* Inductive: every database that was ever committed holds committed rows only,
\* and a running process holds them all.
IndInv ==
    /\ TypeOK
    /\ IF file = NoFile THEN committed = {} ELSE Cardinality(committed) <= file
    /\ \A b \in backups \cup {db} : b.rows \subseteq committed
    /\ Up => db.rows = committed
    /\ phase = "observed" => Cardinality(committed \cup tx) <= file

\* "Restoring an older database while retaining this file is refused"
\* (Monotonic): a running process has the last committed database.
OlderRefused == Up => db.version = newest
=============================================================================
