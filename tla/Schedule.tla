------------------------------- MODULE Schedule -------------------------------
(***************************************************************************)
(* When a scheduled job is taken to match a spike: MatchesTime and         *)
(* cronFieldMatch of internal/sched/sched.go, matchSchedule and            *)
(* sameTimeOfDay of internal/agent/attribution.go.                         *)
(* A moment is a number of minutes; its calendar fields (minute, hour,     *)
(* day) are its digits in the mixed radix Radix, least significant first.  *)
(* The day of the month and the month are further digits of the same kind. *)
(* A field of a cron expression is a set of parts [lo, hi, step], what the *)
(* parser makes of "*", "a", "a-b" and "/n".                               *)
(***************************************************************************)
EXTENDS Integers, Sequences, FiniteSets

CONSTANTS
    Radix,    \* minutes in an hour, hours in a day, days in a week
    Tol,      \* the tolerance of matchSchedule, in minutes
    Offset,   \* the host's time zone: local time is UTC + Offset minutes
    Crons     \* the cron schedules of this instance: a sequence of fields each

ASSUME ScheduleAssumption ==
    /\ Radix \in Seq(Nat \ {0}) /\ Len(Radix) >= 3
    /\ Tol \in Nat /\ Offset \in Int
    /\ \A c \in Crons :
          /\ DOMAIN c = DOMAIN Radix
          /\ \A i \in DOMAIN c : \A part \in c[i] :
                part.lo \in Int /\ part.hi \in Int /\ part.step \in Nat \ {0}

VARIABLES
    entry,   \* a schedule entry: kind "cron", "next" or "last", with its data
    start    \* the start of a spike, UTC

scheduleVars == <<entry, start>>

Weight[i \in 1..Len(Radix)] == IF i = 1 THEN 1 ELSE Weight[i - 1] * Radix[i - 1]
Week == Weight[Len(Radix)] * Radix[Len(Radix)]
Day == Weight[3]
Digit(t, i) == (t \div Weight[i]) % Radix[i]

CronFieldMatch(field, v) ==
    \E part \in field : part.lo <= v /\ v <= part.hi /\ (v - part.lo) % part.step = 0

\* The code walks the minutes around t and takes their UTC fields.
MatchesTime(cron, t) ==
    \E off \in -Tol..Tol : \A i \in DOMAIN cron : CronFieldMatch(cron[i], Digit(t + off, i))

\* Mutant: midnight is not wrapped.
MutantNoWrap(a, b) ==
    LET d == (a % Day) - (b % Day) IN (IF d < 0 THEN -d ELSE d) <= Tol

SameTimeOfDay(a, b) ==
    LET d == (a % Day) - (b % Day)
        abs == IF d < 0 THEN -d ELSE d
    IN  (IF abs > Day \div 2 THEN Day - abs ELSE abs) <= Tol

MatchSchedule(e, t) ==
    CASE e.kind = "cron" -> MatchesTime(e.cron, t)
      [] e.kind = "next" -> SameTimeOfDay(e.at, t)
      [] e.kind = "last" -> e.at - Tol <= t /\ t <= e.at + Tol

-----------------------------------------------------------------------------
(* Inputs: every start of one week against every schedule.                 *)

Entries == [kind : {"cron"}, cron : Crons, at : {0}]
           \cup [kind : {"next", "last"}, cron : {<<>>}, at : Week..(2 * Week - 1)]

ScheduleInit == entry = [kind |-> "none"] /\ start = 0
ScheduleNext == /\ entry.kind = "none"
        /\ entry' \in Entries
        /\ start' \in Week..(2 * Week - 1)
ScheduleSpec == ScheduleInit /\ [][ScheduleNext]_scheduleVars

-----------------------------------------------------------------------------
(* Properties.                                                             *)

\* What the parts of a field stand for: the values a crontab(5) reader counts
\* off from the start of each range.
Expansion(field) ==
    UNION {{v \in part.lo..part.hi : \E n \in 0..(part.hi - part.lo) : v = part.lo + n * part.step} : part \in field}
Fires(cron, local) == \A i \in DOMAIN cron : Digit(local, i) \in Expansion(cron[i])

\* On a host that runs on UTC, a cron job matches exactly when one of its
\* firing times is within the tolerance of the start, also across an hour, a
\* day or a week.
CronMatchesFiring ==
    entry.kind = "cron" /\ Offset = 0 =>
        (MatchSchedule(entry, start) <=> \E t \in start - Tol..start + Tol : Fires(entry.cron, t))

\* A timer matches exactly when some day's run at its time of day is within
\* the tolerance, before or after midnight.
TimerMatchesDaily ==
    entry.kind = "next" =>
        (MatchSchedule(entry, start) <=>
            \E n \in -Week..Week : LET t == entry.at + n * Day
                                   IN  start - Tol <= t /\ t <= start + Tol)

\* A schedule entry is blamed for an event exactly when it started something then
\* (attribution.go:155-230).
ScheduleMatches == CronMatchesFiring /\ TimerMatchesDaily

-----------------------------------------------------------------------------
(* A claim of the documentation that the code does not keep.               *)

\* attribution.go:155-156: "finds a scheduled entry whose firing time matches
\* the event start within +-10 minutes".  cron fires in the host's local time,
\* and the start is handed over in UTC.
LocalFiringMatches ==
    entry.kind = "cron" /\ Fires(entry.cron, start + Offset) => MatchSchedule(entry, start)
=============================================================================
