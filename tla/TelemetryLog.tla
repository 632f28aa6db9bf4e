----------------------------- MODULE TelemetryLog -----------------------------
(***************************************************************************)
(* What the spool promises its user, without files, segments or buffers    *)
(* (the package comment of internal/store/store.go): a record is pending   *)
(* in memory until it is durable; a crash costs pending records only; a    *)
(* durable record leaves the log by deletion and in no other way, and      *)
(* nothing that was lost or deleted comes back.                            *)
(***************************************************************************)
EXTENDS Integers

CONSTANT Times    \* the timestamps records carry

VARIABLES
    pending,   \* records a crash would cost
    durable,   \* records a reader finds, crash or not
    deleted,   \* records removed by retention or after an export
    taken      \* number of records taken so far

logVars == <<pending, durable, deleted, taken>>

\* Pending records become durable, in any number.
Persist(records) ==
    /\ durable \subseteq durable'
    /\ pending' \cup durable' = records \cup durable

Take ==
    /\ taken' = taken + 1
    /\ \E t \in Times : Persist(pending \cup {[id |-> taken', ts |-> t]})
    /\ UNCHANGED deleted

Flush == Persist(pending) /\ UNCHANGED <<deleted, taken>>

\* Those of the records that are not durable by then are lost.
Lose(records) ==
    /\ pending' = {}
    /\ durable \subseteq durable' /\ durable' \subseteq durable \cup records
    /\ UNCHANGED deleted

Crash == Lose(pending) /\ UNCHANGED taken

CrashWhileTaking ==
    /\ taken' = taken + 1
    /\ \E t \in Times : Lose(pending \cup {[id |-> taken', ts |-> t]})

\* Deletion, which a crash may interrupt.
Delete ==
    /\ durable' \subseteq durable
    /\ deleted' = deleted \cup (durable \ durable')
    /\ pending' \in {pending, {}}
    /\ UNCHANGED taken

Init == pending = {} /\ durable = {} /\ deleted = {} /\ taken = 0

Next == Take \/ Flush \/ Crash \/ CrashWhileTaking \/ Delete

Spec == Init /\ [][Next]_logVars
=============================================================================
