-------------------------- MODULE RecoverySession --------------------------
(***************************************************************************)
(* One row of the recovery_session table (internal/policy/session.go): the *)
(* destination and sighash of a transition written ahead, and the signed   *)
(* packet once there is one. A transition stands for its sighash, a stored *)
(* signature for the transition it signs.                                  *)
(***************************************************************************)
CONSTANTS None          \* no row, no signature, no envelope

NoSession == [dest |-> None, sighash |-> None, sig |-> None]

\* Mutation: a session without a signature is overwritten.
MutDecideNotBusy(old, dest, t) ==
    IF old = NoSession THEN "sign"
    ELSE IF old.dest # dest THEN "refuse"
    ELSE IF old.sig = None THEN "resign"
    ELSE IF old.sighash = t THEN "replay" ELSE "resign"

\* Mutation: a fee bump may also move the destination.
MutDecideSecondDest(old, dest, t) ==
    IF old = NoSession THEN "sign"
    ELSE IF old.sig = None THEN (IF old.sighash = t THEN "resign" ELSE "refuse")
    ELSE IF old.sighash = t THEN "replay" ELSE "resign"

\* Mutation: a signed session is closed to fee bumps and retries alike.
MutDecideClosed(old, dest, t) ==
    IF old = NoSession THEN "sign" ELSE "refuse"

\* The input of a session is part of its key, so it always matches.
DecideReplay(old, dest, t) ==
    IF old = NoSession THEN "sign"
    ELSE IF old.dest # dest THEN "refuse"
    ELSE IF old.sig = None THEN (IF old.sighash = t THEN "resign" ELSE "refuse")
    ELSE IF old.sighash = t THEN "replay" ELSE "resign"

\* ApplyRecoveryReplay's row: without a signature of its own the write keeps the
\* stored one.
ApplyRecoveryReplay(old, dest, t, sig) ==
    IF DecideReplay(old, dest, t) \in {"sign", "resign"}
    THEN [dest |-> dest, sighash |-> t, sig |-> IF sig = None THEN old.sig ELSE sig]
    ELSE old
=============================================================================
