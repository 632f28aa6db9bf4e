---------------------------- MODULE SpikeDetector ----------------------------
(***************************************************************************)
(* The host spike detector, internal/spike/spike.go.  Time is counted in   *)
(* host samples; a sample may be late (MaxGap) and may lack a series (a    *)
(* device that went away, a counter that could not be read).               *)
(* Values are percentages that are multiples of 4, so that the two         *)
(* averages in the median and its deviation stay whole.                    *)
(***************************************************************************)
EXTENDS Integers, Sequences, FiniteSets, FiniteSetsExt, Functions

CONSTANTS
    Keys,            \* the monitored series (resource and device)
    Rule,            \* the rule of every key: static, sustained, k, floor
    Levels,          \* the values that a sample of every key can have
    PreCap, MaxPre, MaxDuring, MaxPost,     \* sizes of the sample lists
    CloseBelow, PostCapture, Cooldown,      \* durations
    BaselineWindow, BaselineMinSamples,
    RecomputeEvery,  \* samples between two computations of the baseline
    MaxGap,          \* bound: the longest time between two samples
    Horizon          \* bound: the last moment of the clock

ASSUME DetectorAssumption ==
    /\ IsFiniteSet(Keys)
    /\ Rule \in [Keys -> [static : Nat, sustained : Nat, k : Nat, floor : Nat]]
    /\ Levels \in [Keys -> SUBSET Nat]
    /\ PreCap \in Nat \ {0} /\ MaxPre \in Nat \ {0}
    /\ MaxDuring \in Nat \ {0, 1} /\ MaxPost \in Nat \ {0, 1}
    /\ CloseBelow \in Nat /\ PostCapture \in Nat /\ Cooldown \in Nat
    /\ BaselineWindow \in Nat /\ BaselineMinSamples \in Nat /\ RecomputeEvery \in Nat
    /\ MaxGap \in Nat \ {0} /\ Horizon \in Nat

VARIABLES
    now,        \* the time of the latest sample
    series,     \* Detector.series: what is known of every key
    openCount,  \* Detector.openCount
    done,       \* history: the events Offer has returned
    seen        \* history: the samples of every key, and which were above

spikeVars == <<now, series, openCount, done, seen>>

NoTime == 0                            \* the zero time.Time
Point == [ts : Nat, v : Nat]
Event == [key : Keys, start : Nat, end : Nat, peak : Nat, threshold : Int,
          trigger : {"static", "baseline_deviation"},
          pre : Seq(Point), during : Seq(Point), post : Seq(Point),
          opened : Nat, closing : Nat, finished : Nat]    \* history
Phases == {"none", "during", "post"}   \* open == nil; !inPost; inPost

Fresh == [hist |-> <<>>, baseline |-> 0, mad |-> 0, baseAge |-> 0, pre |-> <<>>,
          aboveSince |-> NoTime, belowSince |-> NoTime, cooldownTill |-> NoTime,
          phase |-> "none", ev |-> <<>>, postUntil |-> NoTime]

-----------------------------------------------------------------------------
(* Pure helpers.                                                           *)

MaxOf(a, b) == IF a > b THEN a ELSE b
Latest(s, n) == SubSeq(s, MaxOf(1, Len(s) - n + 1), Len(s))

\* The i-th smallest of a sequence of numbers, and the median of one.
Nth(s, i) == CHOOSE v \in Range(s) :
                 /\ Cardinality({j \in DOMAIN s : s[j] < v}) < i
                 /\ i <= Cardinality({j \in DOMAIN s : s[j] <= v})
Median(s) == IF s = <<>> THEN 0
             ELSE (Nth(s, (Len(s) + 1) \div 2) + Nth(s, Len(s) \div 2 + 1)) \div 2
Deviations(s) == LET m == Median(s)
                 IN  [i \in DOMAIN s |-> IF s[i] < m THEN m - s[i] ELSE s[i] - m]
MadToSigma(mad) == MaxOf(1, (14826 * mad) \div 10000)

Decimate(s, target) ==
    IF Len(s) <= target THEN s
    ELSE [i \in 1..target |-> s[1 + ((i - 1) * Len(s)) \div target]]

AppendCapped(s, p, cap) ==
    Append(IF Len(s) >= cap THEN Decimate(s, cap \div 2) ELSE s, p)

-----------------------------------------------------------------------------
(* One sample of one series.  A result is the new state of the series and  *)
(* what the step adds to openCount.                                        *)

Baselined(s, p) ==
    LET h == Latest(Append(s.hist, p), BaselineWindow)
        vals == [i \in DOMAIN h |-> h[i].v]
        due == s.baseAge + 1 >= RecomputeEvery \/ (s.baseline = 0 /\ Len(h) >= 4)
    IN  IF s.phase # "none" THEN s
        ELSE IF due THEN [s EXCEPT !.hist = h, !.baseAge = 0, !.baseline = Median(vals),
                                   !.mad = Median(Deviations(vals))]
        ELSE [s EXCEPT !.hist = h, !.baseAge = @ + 1]

\* Mutant: an armed baseline replaces the static threshold.
MutantBaselineOnly(k, s) ==
    IF Rule[k].k > 0 /\ Len(s.hist) >= BaselineMinSamples
      THEN s.baseline + Rule[k].k * MadToSigma(s.mad) ELSE Rule[k].static

EffectiveThreshold(k, s) ==
    LET r == Rule[k]
        bt == MaxOf(r.floor, s.baseline + r.k * MadToSigma(s.mad))
    IN  IF r.k > 0 /\ Len(s.hist) >= BaselineMinSamples /\ bt < r.static
          THEN bt ELSE r.static

Opened(k, s, p) ==
    [key |-> k, start |-> s.aboveSince, end |-> NoTime, peak |-> p.v,
     threshold |-> EffectiveThreshold(k, s),
     trigger |-> IF EffectiveThreshold(k, s) < Rule[k].static
                   THEN "baseline_deviation" ELSE "static",
     pre |-> Decimate(s.pre, MaxPre),
     during |-> <<>>, post |-> <<>>,
     opened |-> p.ts, closing |-> NoTime, finished |-> NoTime]

Result(s, delta) == [s |-> s, delta |-> delta]

\* Mutant: the cooldown is ignored.
MutantNoCooldown(s, p, above) ==
    IF ~above THEN NoTime ELSE IF s.aboveSince = NoTime THEN p.ts ELSE s.aboveSince

\* Since when the value has been above the threshold, outside the cooldown.
AboveSince(s, p, above) ==
    IF ~above \/ p.ts < s.cooldownTill THEN NoTime
    ELSE IF s.aboveSince = NoTime THEN p.ts ELSE s.aboveSince

Ring(s, p, above) == Latest(Append(s.pre, p), PreCap)

\* No event is open: wait for a sustained climb.
Quiet(k, s, p, above) ==
    LET since == AboveSince(s, p, above)
        t == [s EXCEPT !.pre = Ring(s, p, above), !.aboveSince = since]
    IN  IF since = NoTime \/ p.ts - since < Rule[k].sustained THEN Result(t, 0)
        ELSE Result([t EXCEPT !.phase = "during", !.ev = Opened(k, t, p),
                              !.belowSince = NoTime], 1)

\* Mutant: a new peak does not restart the closing delay.
MutantKeepsBelow(s, p, above) ==
    IF above \/ s.belowSince # NoTime THEN s.belowSince ELSE p.ts

BelowSince(s, p, above) ==
    IF above THEN NoTime ELSE IF s.belowSince = NoTime THEN p.ts ELSE s.belowSince

\* The event goes on until the value stays below the threshold long enough.
During(s, p, above) ==
    LET since == BelowSince(s, p, above)
        ev == [s.ev EXCEPT !.during = AppendCapped(@, p, MaxDuring), !.peak = MaxOf(@, p.v)]
        t == [s EXCEPT !.ev = ev, !.belowSince = since]
    IN  IF above \/ p.ts - since < CloseBelow THEN t
        ELSE [t EXCEPT !.ev.end = since, !.ev.closing = p.ts,
                       !.phase = "post", !.postUntil = p.ts + PostCapture]

\* The tail of the event; the sample past postUntil completes it.
Post(s, p) ==
    IF p.ts <= s.postUntil
      THEN Result([s EXCEPT !.ev.post = AppendCapped(@, p, MaxPost)], 0)
      ELSE Result([s EXCEPT !.phase = "none", !.ev = <<>>, !.postUntil = NoTime,
                            !.cooldownTill = p.ts + Cooldown, !.aboveSince = NoTime], -1)

Step(k, s0, p) ==
    LET s == Baselined(s0, p)
        above == p.v >= EffectiveThreshold(k, s)
    IN  CASE s.phase = "none"   -> Quiet(k, s, p, above)
          [] s.phase = "during" -> Result(During(s, p, above), 0)
          [] s.phase = "post"   -> Post(s, p)

\* What the sample that ends the tail returns.
Completed(s, p) == [s.ev EXCEPT !.post = AppendCapped(@, p, MaxPost), !.finished = p.ts]

-----------------------------------------------------------------------------
SpikeInit ==
    /\ now = 0 /\ openCount = 0 /\ done = {}
    /\ series = [k \in Keys |-> Fresh]
    /\ seen = [k \in Keys |-> <<>>]

\* Detector.Offer: one sample of the series in DOMAIN values.
Offer(ts, values) ==
    LET p(k) == [ts |-> ts, v |-> values[k]]
        r == [k \in DOMAIN values |-> Step(k, series[k], p(k))]
        ends == {k \in DOMAIN values : series[k].phase = "post" /\ r[k].s.phase = "none"}
        above(k) == values[k] >= EffectiveThreshold(k, Baselined(series[k], p(k)))
    IN  /\ series' = [k \in Keys |-> IF k \in DOMAIN values THEN r[k].s ELSE series[k]]
        /\ openCount' = openCount + SumFunction([k \in DOMAIN values |-> r[k].delta])
        /\ done' = done \cup {Completed(series[k], p(k)) : k \in ends}
        /\ seen' = [k \in Keys |->
                      IF k \in DOMAIN values
                        THEN Append(seen[k], [ts |-> ts, v |-> values[k], above |-> above(k)])
                        ELSE seen[k]]

\* The samples of one moment; a series may be missing (a device that went
\* away, a counter that could not be read).
Readings == UNION {{v \in [present -> UNION Range(Levels)] : \A k \in present : v[k] \in Levels[k]}
                      : present \in SUBSET Keys}

OfferSample ==
    \E gap \in 1..MaxGap, values \in Readings :
        /\ now + gap <= Horizon
        /\ now' = now + gap
        /\ Offer(now + gap, values)

SpikeNext == OfferSample
SpikeSpec == SpikeInit /\ [][SpikeNext]_spikeVars

-----------------------------------------------------------------------------
(* Properties.                                                             *)

Open(k) == series[k].phase # "none"
OpenEvents == {series[k].ev : k \in {j \in Keys : Open(j)}}
Events == done \cup OpenEvents
SeenOf(k) == Range(seen[k])
Within(k, from, to) == {x \in SeenOf(k) : from <= x.ts /\ x.ts <= to}
Increasing(s) == \A i \in 1..(Len(s) - 1) : s[i].ts < s[i + 1].ts

SpikeTypeOK ==
    /\ now \in 0..Horizon /\ openCount \in Nat
    /\ \A k \in Keys :
          /\ series[k].phase \in Phases
          /\ series[k].ev \in Event \cup {<<>>}
          /\ (series[k].ev = <<>>) <=> (series[k].phase = "none")
    /\ done \subseteq Event

\* CaptureActive tells the agent to take process snapshots at high resolution:
\* the counter behind it is exactly the number of open events, whatever events
\* of several series open, overlap and complete in one sample.
CaptureCountExact == openCount = Cardinality({k \in Keys : Open(k)})

\* An event is what its rule says, in terms of the samples alone: it opened
\* after a climb with no sample below the threshold that lasted the sustained
\* time; it ended at the first sample of a quiet stretch as long as CloseBelow,
\* the first such stretch; and its peak is the highest value from its opening
\* to its closing.
EventsExplained ==
    \A e \in done :
        LET k == e.key
        IN  /\ \A x \in Within(k, e.start, e.opened) : x.above
            /\ e.opened - e.start >= Rule[k].sustained
            /\ \A x \in Within(k, e.end, e.closing) : ~x.above
            /\ e.closing - e.end >= CloseBelow
            /\ \A a, b \in Within(k, e.opened, e.closing - 1) :
                  (\A x \in Within(k, a.ts, b.ts) : ~x.above) => b.ts - a.ts < CloseBelow
            /\ \A x \in Within(k, e.end - MaxGap, e.end - 1) :
                  (Within(k, x.ts + 1, e.end - 1) = {}) => x.above
            /\ e.peak = Max({x.v : x \in Within(k, e.opened, e.closing)})
            /\ e.finished > e.closing + PostCapture

\* Events of one series do not overlap, and the climb of the next one begins
\* only after the cooldown of the one before: no event storm.
CooldownHolds ==
    \A e, f \in Events :
        e.key = f.key /\ e # f /\ e.start <= f.start
          => e.finished # NoTime /\ f.start >= e.finished + Cooldown

\* The sample lists of an event stay within their caps however long it lasts,
\* and thinning keeps their shape: they are in the order of time, and hold
\* the first sample after the opening and the latest one.
SampleListsBounded ==
    \A e \in Events :
        LET after == Within(e.key, e.opened + 1, now)
        IN  /\ Len(e.pre) <= MaxPre /\ Len(e.during) <= MaxDuring /\ Len(e.post) <= MaxPost
            /\ Increasing(e.pre \o e.during \o e.post)
            /\ after # {} =>
                  \E x \in after : (\A y \in after : x.ts <= y.ts) /\ x.ts = e.during[1].ts
            /\ e.closing # NoTime => e.during[Len(e.during)].ts = e.closing

\* The series saved from before the event holds the climb that opened it,
\* when the ring buffer is as long as the rule's sustained time.
PreHasClimb ==
    \A e \in Events :
        Rule[e.key].sustained < PreCap /\ PreCap <= MaxPre =>
            \A x \in Within(e.key, e.start, e.opened) :
                \E i \in DOMAIN e.pre : e.pre[i].ts = x.ts

\* What an event says is so: the number of open ones, when each began, ended and
\* peaked, and the samples it is shown with (spike.go:147-270).
EventsFollowRule == CaptureCountExact /\ EventsExplained /\ SampleListsBounded /\ PreHasClimb

\* No climb above the static threshold that lasts the sustained time outside a
\* cooldown goes without an event, whatever the baseline has become.
NoMissedSpike ==
    \A k \in Keys : \A a, b \in SeenOf(k) :
        /\ ~Open(k) /\ a.ts >= series[k].cooldownTill
        /\ \A x \in Within(k, a.ts, b.ts) : x.v >= Rule[k].static
        /\ Within(k, b.ts + 1, now) = {}
        => b.ts - a.ts < Rule[k].sustained

\* Once an event is open its samples stay out of the baseline, up to the one
\* that completes it.
BaselineWithoutCapture ==
    \A k \in Keys : \A i \in DOMAIN series[k].hist : \A e \in Events :
        LET ts == series[k].hist[i].ts
        IN  e.key = k => ~(e.opened < ts /\ (ts <= e.finished \/ e.finished = NoTime))

\* Every spike becomes an event: none is missed for a baseline that has risen, and
\* the baseline does not rise with the events (spike.go:118-180).
SpikesAreEvents == NoMissedSpike /\ BaselineWithoutCapture

-----------------------------------------------------------------------------
(* A claim of the documentation that the code does not keep.               *)

\* docs/ARCHITECTURE.md:81-82: "event samples are excluded from their own
\* baseline".  The samples of the climb belong to the event (they come after
\* its start), and are in the baseline when it opens.
BaselineWithoutEvent ==
    \A k \in Keys : Open(k) =>
        \A i \in DOMAIN series[k].hist : series[k].hist[i].ts < series[k].ev.start
=============================================================================
