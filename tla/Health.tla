--------------------------------- MODULE Health ---------------------------------
(***************************************************************************)
(* What the agent says of itself: the health tracker of                    *)
(* internal/agent/health.go, the places of agent.go that feed it, and the  *)
(* minutes of the manifest's health summary.  Unavailable has no caller    *)
(* and is left out.                                                        *)
(***************************************************************************)
EXTENDS Common, Naturals, Sequences, FiniteSets, SequencesExt

CONSTANTS
    Collectors,
    Errors,       \* error texts
    Permission,   \* those that isPermissionError takes for a missing right
    MaxRecent,    \* maxRecentErrors
    MaxMinutes,   \* bound on the minutes since the first start
    MaxDeleted    \* bound on the segments that retention deletes

ASSUME HealthAssumption ==
    /\ Permission \subseteq Errors /\ {"ok", "good", None} \cap Errors = {}
    /\ None # "ok"
    /\ MaxRecent \in Nat /\ MaxMinutes \in Nat /\ MaxDeleted \in Nat

VARIABLES
    statuses,   \* collector -> "ok" or the error that degraded it
    errSeen,    \* the pairs of collector and error met since the start
    permIssues, \* those with a permission error
    errs,       \* the list exported as recent_errors
    collected,  \* Agent.collectedMins
    expected,   \* minutes since state.FirstStart
    record,     \* the last health record, or None
    last,       \* history: the last outcome of each collector, None before
    latest,     \* history: the last pair that was new when it was reported
    written,    \* history: the minutes appended since the first start
    deleted     \* history: the segments deleted by retention since the start

healthVars == <<statuses, errSeen, permIssues, errs, collected, expected, record, last, latest, written, deleted>>
minuteCounts == <<collected, expected, written>>

-----------------------------------------------------------------------------
(* The tracker.                                                            *)

Seen(c, e) == <<c, e>> \in errSeen

WithPermission(c, e) == permIssues \cup ({<<c, e>>} \cap (Collectors \X Permission))

WithError(c, e) == IF Len(errs) < MaxRecent THEN Append(errs, <<c, e>>) ELSE errs

\* A pair that was met before changes nothing, not even the status.
Issue(c, e) ==
    IF Seen(c, e) THEN UNCHANGED <<statuses, errSeen, permIssues, errs, latest>>
    ELSE /\ errSeen' = errSeen \cup {<<c, e>>}
         /\ statuses' = [statuses EXCEPT ![c] = e]
         /\ permIssues' = WithPermission(c, e)
         /\ errs' = WithError(c, e)
         /\ latest' = <<c, e>>

\* Mutant: a good cycle ends the degradation.
MutantClears(c) == [statuses EXCEPT ![c] = "ok"]

OK(c) == IF statuses[c] = None THEN [statuses EXCEPT ![c] = "ok"] ELSE statuses

-----------------------------------------------------------------------------
(* The agent.                                                              *)

Problem(c, e) ==
    /\ Issue(c, e)
    /\ last' = [last EXCEPT ![c] = e]
    /\ UNCHANGED <<record, deleted, minuteCounts>>

Success(c) ==
    /\ statuses' = OK(c)
    /\ last' = [last EXCEPT ![c] = "good"]
    /\ UNCHANGED <<errSeen, permIssues, errs, record, latest, deleted, minuteCounts>>

\* Retention logs what it deleted and tells the tracker nothing.
Retention(n) ==
    /\ deleted + n <= MaxDeleted /\ deleted' = deleted + n
    /\ UNCHANGED <<statuses, errSeen, permIssues, errs, record, last, latest, minuteCounts>>

\* Snapshot; the spool has lost no record here, so dropped is 0.
HealthTick ==
    /\ record' = [statuses |-> statuses, permIssues |-> permIssues, errs |-> errs, dropped |-> 0]
    /\ UNCHANGED <<statuses, errSeen, permIssues, errs, last, latest, deleted, minuteCounts>>

\* A minute passes; its record is appended or, when sampling failed, is not.
MinutePasses ==
    /\ expected < MaxMinutes /\ expected' = expected + 1
    /\ \E n \in {0, 1} : collected' = collected + n /\ written' = written + n
    /\ UNCHANGED <<statuses, errSeen, permIssues, errs, record, last, latest, deleted>>

FreshTracker ==
    /\ statuses' = [c \in Collectors |-> None] /\ errSeen' = {} /\ permIssues' = {} /\ errs' = <<>>
    /\ last' = [c \in Collectors |-> None] /\ latest' = None /\ record' = None /\ deleted' = 0
    /\ collected' = 0 /\ UNCHANGED expected

\* shutdown appends the minute at hand, without counting it; then a start.
Restart == FreshTracker /\ written' \in {written, written + 1} /\ written' <= expected
Killed == FreshTracker /\ UNCHANGED written

HealthInit ==
    /\ statuses = [c \in Collectors |-> None] /\ errSeen = {} /\ permIssues = {} /\ errs = <<>>
    /\ last = [c \in Collectors |-> None] /\ latest = None /\ record = None /\ deleted = 0
    /\ collected = 0 /\ expected = 0 /\ written = 0

HealthNext ==
    \/ \E c \in Collectors : Success(c) \/ \E e \in Errors : Problem(c, e)
    \/ \E n \in 1..MaxDeleted : Retention(n)
    \/ HealthTick \/ MinutePasses \/ Restart \/ Killed

HealthSpec == HealthInit /\ [][HealthNext]_healthVars

-----------------------------------------------------------------------------
(* Properties.                                                             *)

HealthTypeOK ==
    /\ statuses \in [Collectors -> Errors \cup {None, "ok"}]
    /\ errSeen \subseteq Collectors \X Errors /\ permIssues \subseteq errSeen
    /\ errs \in Seq(Collectors \X Errors) /\ Len(errs) <= MaxRecent
    /\ last \in [Collectors -> Errors \cup {None, "good"}]
    /\ latest \in (Collectors \X Errors) \cup {None}
    /\ collected \in Nat /\ expected \in Nat /\ written \in Nat /\ deleted \in Nat

\* health.go:15-17 "each (collector, error) pair is stored once": no pair is
\* listed twice, none is missing while there is room, and every permission
\* problem is kept, also when the list is full.
EveryIssueKept ==
    /\ \A i, j \in DOMAIN errs : i # j => errs[i] # errs[j]
    /\ Range(errs) \subseteq errSeen
    /\ Len(errs) < MaxRecent => Range(errs) = errSeen
    /\ permIssues = errSeen \cap (Collectors \X Permission)

\* health.go:47 and 66: a collector is never shown as healthy after a cycle that
\* failed, in whatever order good cycles, new and repeated errors come.
NeverFalselyOk == \A c \in Collectors : statuses[c] = "ok" => last[c] = "good"

\* What the health record says is so: its list of issues, and the collectors it
\* calls healthy.
HealthIsHonest == HealthTypeOK /\ EveryIssueKept /\ NeverFalselyOk

-----------------------------------------------------------------------------
(* Claims of the documentation that the code does not keep.                *)

\* health.go:62 "OK marks a collector healthy (called on each successful cycle)".
GoodIsOk == \A c \in Collectors : last[c] = "good" => statuses[c] = "ok"

\* DATA_DICTIONARY.md:89 "recent_errors[]": the last error that was new is there.
RecentIsRecent == latest # None => latest \in Range(errs)

\* CONFIGURATION.md:35 "oldest closed segments deleted first, deletions counted in
\* health": a health record written after a deletion counts it.
DeletionsCounted == [][HealthTick /\ deleted > 0 => record'.dropped >= deleted]_healthVars

\* DATA_DICTIONARY.md:12 "health summary (expected vs collected minutes ...)": both
\* are of the same time, since the first start.
SummaryCounts == collected >= written
=============================================================================
