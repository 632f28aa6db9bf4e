--------------------------- MODULE CollectionProofs ---------------------------
(***************************************************************************)
(* Theorems about the parts of the agent that collect: for every rule,     *)
(* baseline, clock, set of collectors and bound.  The parts share no       *)
(* variable, and no proof about one mentions another, except that the      *)
(* capture rests on the invariant of the detector it extends.              *)
(***************************************************************************)
EXTENDS SpikeCapture, Attribution, Schedule, HostSampler, MinuteAgg, Health, Lemmas,
        SequenceTheorems

-----------------------------------------------------------------------------
(***************************************************************************)
(* Proof that the detector cannot make a storm of events: for every rule,  *)
(* threshold, baseline and sequence of samples, late ones and missing ones *)
(* included, the events of a series lie apart by the cooldown.  Thresholds *)
(* and baselines are never expanded: the argument is about times only.     *)
(***************************************************************************)

Fields == DOMAIN Fresh
EventFields == {"key", "start", "end", "peak", "threshold", "trigger", "pre", "during", "post",
                "opened", "closing", "finished"}

\* What is known at time t of the series s of key k: a climb it has noted and
\* an event it has open both began after its last cooldown.
SeriesOK(k, s, t) ==
    /\ DOMAIN s = Fields
    /\ s.phase \in Phases
    /\ s.cooldownTill \in Nat /\ s.cooldownTill <= t + Cooldown
    /\ s.phase = "none" =>
         /\ s.aboveSince \in Nat /\ s.aboveSince <= t
         /\ s.aboveSince = NoTime \/ s.aboveSince >= s.cooldownTill
    /\ s.phase # "none" =>
         /\ DOMAIN s.ev = EventFields /\ s.ev.key = k
         /\ s.ev.start \in Nat /\ s.ev.start <= t /\ s.ev.start >= s.cooldownTill

\* A completed event of the series s: the cooldown of s counts from its end
\* or from that of a later event.
DoneOK(e, s) ==
    /\ e.start \in Nat /\ e.finished \in Nat /\ e.start < e.finished
    /\ e.finished + Cooldown <= s.cooldownTill

Apart(e, f) ==
    e.key = f.key /\ e # f /\ e.start <= f.start
      => e.finished # NoTime /\ f.start >= e.finished + Cooldown

CoolInv ==
    /\ now \in Nat
    /\ \A k \in Keys : SeriesOK(k, series[k], now)
    /\ \A e \in done : e.key \in Keys /\ DoneOK(e, series[e.key])
    /\ \A e, f \in done : Apart(e, f)

LEMMA CooldownNat == Cooldown \in Nat
BY DetectorAssumption DEF DetectorAssumption

LEMMA FieldNames ==
    Fields = {"hist", "baseline", "mad", "baseAge", "pre", "aboveSince", "belowSince",
              "cooldownTill", "phase", "ev", "postUntil"}
BY DEF Fields, Fresh

-----------------------------------------------------------------------------
(* One sample of one series.                                               *)

\* The parts of a series the argument is about.
Same(s, r) ==
    /\ DOMAIN r = DOMAIN s /\ r.phase = s.phase /\ r.ev = s.ev
    /\ r.cooldownTill = s.cooldownTill /\ r.aboveSince = s.aboveSince

\* A sample at p.ts takes s to r.
Advances(k, s, r, p) ==
    /\ SeriesOK(k, r, p.ts)
    /\ r.cooldownTill >= s.cooldownTill
    /\ s.phase = "post" /\ r.phase = "none" => r.cooldownTill = p.ts + Cooldown

LEMMA BaselinedSame ==
    ASSUME NEW s, NEW p, DOMAIN s = Fields
    PROVE  Same(s, Baselined(s, p))
<1>. DEFINE h == Latest(Append(s.hist, p), BaselineWindow)
            vals == [i \in DOMAIN h |-> h[i].v]
            med == Median(vals)
            spread == Median(Deviations(vals))
            A == [s EXCEPT !.hist = h, !.baseAge = 0, !.baseline = med, !.mad = spread]
            B == [s EXCEPT !.hist = h, !.baseAge = @ + 1]
<1>1. Baselined(s, p) \in {s, A, B}  BY DEF Baselined
<1>. HIDE DEF h, vals, med, spread
<1>2. Same(s, s) /\ Same(s, A) /\ Same(s, B)  BY FieldNames DEF Same
<1>. QED  BY <1>1, <1>2

LEMMA QuietAdvances ==
    ASSUME NEW k, NEW t \in Nat, NEW s, SeriesOK(k, s, t), s.phase = "none",
           NEW p, p.ts \in Nat, p.ts > t, NEW above
    PROVE  Advances(k, s, Quiet(k, s, p, above).s, p)
<1>. DEFINE since == AboveSince(s, p, above)
            u == [s EXCEPT !.pre = Ring(s, p, above), !.aboveSince = since]
            ev == Opened(k, u, p)
            w == [u EXCEPT !.phase = "during", !.ev = ev, !.belowSince = NoTime]
<1>1. /\ since \in Nat /\ since <= p.ts
      /\ since = NoTime \/ since >= s.cooldownTill
  BY DEF SeriesOK, AboveSince, NoTime
<1>2. Quiet(k, s, p, above).s = u \/ (since # NoTime /\ Quiet(k, s, p, above).s = w)
  BY DEF Quiet, Result
<1>3. /\ DOMAIN u = Fields /\ u.phase = "none" /\ u.aboveSince = since
      /\ u.cooldownTill = s.cooldownTill
  <2>. HIDE DEF since
  <2>. QED  BY FieldNames DEF SeriesOK
<1>4. s.cooldownTill \in Nat /\ s.cooldownTill <= p.ts + Cooldown
  BY CooldownNat DEF SeriesOK
<1>5. DOMAIN ev = EventFields /\ ev.key = k /\ ev.start = since
  <2>. HIDE DEF since, u
  <2>1. ev.start = u.aboveSince /\ DOMAIN ev = EventFields /\ ev.key = k
    BY DEF Opened, EventFields
  <2>. QED  BY <1>3, <2>1
<1>. HIDE DEF u, since, ev
<1>6. /\ DOMAIN w = Fields /\ w.phase = "during" /\ w.ev = ev
      /\ w.cooldownTill = u.cooldownTill
  BY <1>3, FieldNames
<1>. HIDE DEF w
<1>7. SeriesOK(k, u, p.ts)
  BY <1>1, <1>3, <1>4 DEF SeriesOK, Phases
<1>8. since # NoTime => SeriesOK(k, w, p.ts)
  BY <1>1, <1>3, <1>4, <1>5, <1>6 DEF SeriesOK, Phases
<1>. QED  BY <1>2, <1>3, <1>4, <1>6, <1>7, <1>8 DEF Advances

LEMMA DuringAdvances ==
    ASSUME NEW k, NEW t \in Nat, NEW s, SeriesOK(k, s, t), s.phase = "during",
           NEW p, p.ts \in Nat, p.ts > t, NEW above
    PROVE  Advances(k, s, During(s, p, above), p)
<1>. DEFINE since == BelowSince(s, p, above)
            d == AppendCapped(s.ev.during, p, MaxDuring)
            m == MaxOf(s.ev.peak, p.v)
            ev == [s.ev EXCEPT !.during = d, !.peak = m]
            u == [s EXCEPT !.ev = ev, !.belowSince = since]
            w == [u EXCEPT !.ev.end = since, !.ev.closing = p.ts,
                           !.phase = "post", !.postUntil = p.ts + PostCapture]
<1>1. During(s, p, above) = u \/ During(s, p, above) = w
  BY DEF During
<1>. HIDE DEF since, d, m
<1>2. /\ DOMAIN ev = EventFields /\ ev.key = k /\ ev.start = s.ev.start
  BY DEF SeriesOK, EventFields
<1>3. /\ DOMAIN u = Fields /\ u.phase = "during" /\ u.ev = ev
      /\ u.cooldownTill = s.cooldownTill
  <2>. HIDE DEF ev
  <2>. QED  BY FieldNames DEF SeriesOK
<1>. HIDE DEF u, ev
<1>4. /\ DOMAIN w = Fields /\ w.phase = "post" /\ w.cooldownTill = s.cooldownTill
      /\ DOMAIN w.ev = EventFields /\ w.ev.key = k /\ w.ev.start = s.ev.start
  BY <1>2, <1>3, FieldNames DEF EventFields
<1>. HIDE DEF w
<1>5. SeriesOK(k, u, p.ts) /\ SeriesOK(k, w, p.ts)
  BY <1>2, <1>3, <1>4, CooldownNat DEF SeriesOK, Phases
<1>. QED  BY <1>1, <1>3, <1>4, <1>5 DEF Advances, SeriesOK

LEMMA PostAdvances ==
    ASSUME NEW k, NEW t \in Nat, NEW s, SeriesOK(k, s, t), s.phase = "post",
           NEW p, p.ts \in Nat, p.ts > t
    PROVE  Advances(k, s, Post(s, p).s, p)
<1>. DEFINE q == AppendCapped(s.ev.post, p, MaxPost)
            u == [s EXCEPT !.ev.post = q]
            w == [s EXCEPT !.phase = "none", !.ev = <<>>, !.postUntil = NoTime,
                           !.cooldownTill = p.ts + Cooldown, !.aboveSince = NoTime]
<1>1. Post(s, p).s = u \/ Post(s, p).s = w
  BY DEF Post, Result
<1>. HIDE DEF q
<1>2. /\ DOMAIN u = Fields /\ u.phase = "post" /\ u.cooldownTill = s.cooldownTill
      /\ DOMAIN u.ev = EventFields /\ u.ev.key = k /\ u.ev.start = s.ev.start
  BY FieldNames DEF SeriesOK, EventFields
<1>3. /\ DOMAIN w = Fields /\ w.phase = "none" /\ w.cooldownTill = p.ts + Cooldown
      /\ w.aboveSince = NoTime
  BY FieldNames DEF SeriesOK
<1>. HIDE DEF u, w
<1>4. SeriesOK(k, u, p.ts) /\ u.cooldownTill >= s.cooldownTill
  BY <1>2, CooldownNat DEF SeriesOK, Phases
<1>5. SeriesOK(k, w, p.ts) /\ w.cooldownTill >= s.cooldownTill
  BY <1>3, CooldownNat DEF SeriesOK, Phases, NoTime
<1>. QED  BY <1>1, <1>2, <1>3, <1>4, <1>5 DEF Advances

LEMMA StepAdvances ==
    ASSUME NEW k, NEW t \in Nat, NEW s0, SeriesOK(k, s0, t), NEW p, p.ts \in Nat, p.ts > t
    PROVE  Advances(k, s0, Step(k, s0, p).s, p)
<1>. DEFINE s == Baselined(s0, p)
            above == p.v >= EffectiveThreshold(k, s)
<1>1. Same(s0, s)  BY BaselinedSame DEF SeriesOK
<1>. HIDE DEF s
<1>2. SeriesOK(k, s, t)  BY <1>1 DEF Same, SeriesOK
<1>. HIDE DEF above
<1>3. Advances(k, s, Step(k, s0, p).s, p)
  <2>1. CASE s.phase = "none"
    <3>1. Step(k, s0, p) = Quiet(k, s, p, above)  BY <2>1 DEF Step, s, above
    <3>. QED  BY <1>2, <2>1, <3>1, QuietAdvances
  <2>2. CASE s.phase = "during"
    <3>1. Step(k, s0, p).s = During(s, p, above)  BY <2>2 DEF Step, s, above, Result
    <3>. QED  BY <1>2, <2>2, <3>1, DuringAdvances
  <2>3. CASE s.phase = "post"
    <3>1. Step(k, s0, p) = Post(s, p)  BY <2>3 DEF Step, s, above
    <3>. QED  BY <1>2, <2>3, <3>1, PostAdvances
  <2>. QED  BY <1>2, <2>1, <2>2, <2>3 DEF SeriesOK, Phases
<1>. QED  BY <1>1, <1>3 DEF Advances, Same

\* What Offer returns for the sample that ends a tail.
LEMMA CompletedEvent ==
    ASSUME NEW k, NEW t \in Nat, NEW s, SeriesOK(k, s, t), s.phase = "post",
           NEW p, p.ts \in Nat, p.ts > t
    PROVE  LET e == Completed(s, p)
           IN  /\ e.key = k /\ e.start = s.ev.start /\ e.finished = p.ts
               /\ e.start \in Nat /\ e.start < e.finished /\ e.start >= s.cooldownTill
<1>. DEFINE q == AppendCapped(s.ev.post, p, MaxPost)
<1>1. Completed(s, p) = [s.ev EXCEPT !.post = q, !.finished = p.ts]  BY DEF Completed
<1>. HIDE DEF q
<1>2. /\ DOMAIN s.ev = EventFields /\ s.ev.key = k /\ s.ev.start \in Nat
      /\ s.ev.start <= t /\ s.ev.start >= s.cooldownTill
  BY DEF SeriesOK
<1>. QED  BY <1>1, <1>2 DEF EventFields

-----------------------------------------------------------------------------
(* The steps of the detector.                                              *)

\* A completed event and one of the same series that began after its cooldown.
LEMMA ApartByCooldown ==
    ASSUME NEW e, NEW f, e.start \in Nat, e.finished \in Nat, e.start < e.finished,
           f.start \in Nat, f.start >= e.finished + Cooldown
    PROVE  Apart(e, f) /\ Apart(f, e)
BY CooldownNat DEF Apart, NoTime

LEMMA InitCool == SpikeInit => CoolInv
<1>. SUFFICES ASSUME SpikeInit PROVE CoolInv  OBVIOUS
<1>1. now \in Nat /\ done = {}  BY DEF SpikeInit
<1>2. ASSUME NEW k \in Keys PROVE SeriesOK(k, series[k], now)
  <2>1. series[k] = Fresh /\ now = 0  BY <1>2 DEF SpikeInit
  <2>. QED  BY <2>1, CooldownNat DEF SeriesOK, Fresh, Fields, Phases, NoTime
<1>. QED  BY <1>1, <1>2 DEF CoolInv

LEMMA OfferKeeps ==
    ASSUME CoolInv, NEW ts \in Nat, ts > now, NEW present \in SUBSET Keys,
           NEW values \in [present -> UNION Range(Levels)], Offer(ts, values), now' = ts
    PROVE  CoolInv'
<1>. DEFINE p(k) == [ts |-> ts, v |-> values[k]]
            r == [k \in DOMAIN values |-> Step(k, series[k], p(k))]
            ends == {k \in DOMAIN values : series[k].phase = "post" /\ r[k].s.phase = "none"}
            new(k) == Completed(series[k], p(k))
<1>1. /\ series' = [k \in Keys |-> IF k \in DOMAIN values THEN r[k].s ELSE series[k]]
      /\ done' = done \cup {new(k) : k \in ends}
  BY DEF Offer
<1>2. DOMAIN values = present /\ present \subseteq Keys /\ \A k \in Keys : p(k).ts = ts  OBVIOUS
<1>3. now \in Nat /\ \A k \in Keys : SeriesOK(k, series[k], now)  BY DEF CoolInv
<1>4. \A k \in present : r[k] = Step(k, series[k], p(k))  BY <1>2
<1>. HIDE DEF p, r
<1>5. \A k \in present : Advances(k, series[k], r[k].s, p(k))
  BY <1>2, <1>3, <1>4, StepAdvances
<1>6. ASSUME NEW k \in Keys
      PROVE  SeriesOK(k, series'[k], ts) /\ series'[k].cooldownTill >= series[k].cooldownTill
  <2>1. CASE k \in present
    <3>1. series'[k] = r[k].s  BY <1>1, <1>2, <2>1
    <3>. QED  BY <1>2, <1>5, <2>1, <3>1 DEF Advances
  <2>2. CASE k \notin present
    <3>1. series'[k] = series[k]  BY <1>1, <1>2, <2>2
    <3>. QED  BY <1>3, <3>1, CooldownNat DEF SeriesOK
  <2>. QED  BY <2>1, <2>2
<1>7. \A k \in Keys : series[k].cooldownTill \in Nat /\ series'[k].cooldownTill \in Nat
  BY <1>3, <1>6 DEF SeriesOK
\* The new events.
<1>8. ASSUME NEW k \in ends
      PROVE  /\ k \in Keys /\ new(k).key = k /\ DoneOK(new(k), series'[k])
             /\ new(k).start >= series[k].cooldownTill
  <2>1. k \in present /\ k \in Keys /\ series[k].phase = "post" /\ r[k].s.phase = "none"
    BY <1>2
  <2>2. /\ new(k).key = k /\ new(k).finished = ts /\ new(k).start \in Nat
        /\ new(k).start < new(k).finished /\ new(k).start >= series[k].cooldownTill
    BY <1>2, <1>3, <2>1, CompletedEvent
  <2>3. series'[k].cooldownTill = ts + Cooldown
    BY <1>1, <1>2, <1>5, <2>1 DEF Advances
  <2>. QED  BY <2>1, <2>2, <2>3, CooldownNat DEF DoneOK
<1>9. ASSUME NEW e \in done
      PROVE  e.key \in Keys /\ DoneOK(e, series[e.key]) /\ DoneOK(e, series'[e.key])
  <2>1. e.key \in Keys /\ DoneOK(e, series[e.key])  BY DEF CoolInv
  <2>. QED  BY <1>6, <1>7, <2>1, CooldownNat DEF DoneOK
<1>. HIDE DEF ends, new
<1>10. ASSUME NEW e \in done' PROVE e.key \in Keys /\ DoneOK(e, series'[e.key])
  BY <1>1, <1>8, <1>9
<1>11. ASSUME NEW e \in done, NEW k \in ends, e.key = k
       PROVE  Apart(e, new(k)) /\ Apart(new(k), e)
  <2>1. /\ e.start \in Nat /\ e.finished \in Nat /\ e.start < e.finished
        /\ e.finished + Cooldown <= series[k].cooldownTill
    BY <1>9, <1>11 DEF DoneOK
  <2>2. new(k).start >= series[k].cooldownTill /\ new(k).start \in Nat /\ k \in Keys
    BY <1>8 DEF DoneOK
  <2>3. new(k).start >= e.finished + Cooldown  BY <1>7, <2>1, <2>2, CooldownNat
  <2>. QED  BY <2>1, <2>2, <2>3, ApartByCooldown
<1>12. ASSUME NEW e \in done', NEW f \in done' PROVE Apart(e, f)
  <2>1. CASE e \in done /\ f \in done  BY <2>1 DEF CoolInv
  <2>2. CASE e \in done /\ f \notin done
    <3>1. PICK k \in ends : f = new(k)  BY <1>1, <2>2
    <3>. QED  BY <1>8, <1>11, <2>2, <3>1 DEF Apart
  <2>3. CASE e \notin done /\ f \in done
    <3>1. PICK k \in ends : e = new(k)  BY <1>1, <2>3
    <3>. QED  BY <1>8, <1>11, <2>3, <3>1 DEF Apart
  <2>4. CASE e \notin done /\ f \notin done
    <3>1. PICK k \in ends : e = new(k)  BY <1>1, <2>4
    <3>2. PICK j \in ends : f = new(j)  BY <1>1, <2>4
    <3>. QED  BY <1>8, <3>1, <3>2 DEF Apart
  <2>. QED  BY <2>1, <2>2, <2>3, <2>4
<1>13. now' \in Nat /\ \A k \in Keys : SeriesOK(k, series'[k], now')  BY <1>6
<1>14. CoolInv' = (/\ now' \in Nat
                   /\ \A k \in Keys : SeriesOK(k, series'[k], now')
                   /\ \A e \in done' : e.key \in Keys /\ DoneOK(e, series'[e.key])
                   /\ \A e, f \in done' : Apart(e, f))
  BY DEF CoolInv, SeriesOK, DoneOK, Apart
<1>. QED  BY <1>10, <1>12, <1>13, <1>14

LEMMA NextCool == CoolInv /\ [SpikeNext]_spikeVars => CoolInv'
<1>. SUFFICES ASSUME CoolInv, [SpikeNext]_spikeVars PROVE CoolInv'  OBVIOUS
<1>1. CASE SpikeNext
  <2>1. PICK gap \in 1..MaxGap, values \in Readings :
          now' = now + gap /\ Offer(now + gap, values)
    BY <1>1 DEF SpikeNext, OfferSample
  <2>2. PICK present \in SUBSET Keys : values \in [present -> UNION Range(Levels)]
    BY <2>1 DEF Readings
  <2>3. gap \in Nat /\ gap > 0
    BY DetectorAssumption DEF DetectorAssumption
  <2>4. now + gap \in Nat /\ now + gap > now  BY <2>3 DEF CoolInv
  <2>. QED  BY <2>1, <2>2, <2>4, OfferKeeps
<1>2. CASE UNCHANGED spikeVars
  BY <1>2 DEF spikeVars, CoolInv, SeriesOK, DoneOK, Apart
<1>. QED  BY <1>1, <1>2

-----------------------------------------------------------------------------

\* An open event is the latest of its series.
LEMMA CoolImplies == CoolInv => CooldownHolds
<1>. SUFFICES ASSUME CoolInv, NEW e \in Events, NEW f \in Events
              PROVE  Apart(e, f)
  BY DEF CooldownHolds, Apart
<1>1. \A g \in OpenEvents : \E k \in Keys : Open(k) /\ g = series[k].ev  BY DEF OpenEvents
<1>2. ASSUME NEW k \in Keys, Open(k)
      PROVE  /\ series[k].ev.key = k /\ series[k].ev.start \in Nat
             /\ series[k].cooldownTill \in Nat
             /\ series[k].ev.start >= series[k].cooldownTill
  BY <1>2 DEF CoolInv, SeriesOK, Open
<1>3. ASSUME NEW d \in done, NEW k \in Keys, Open(k), d.key = k
      PROVE  Apart(d, series[k].ev) /\ Apart(series[k].ev, d)
  <2>1. /\ d.start \in Nat /\ d.finished \in Nat /\ d.start < d.finished
        /\ d.finished + Cooldown <= series[k].cooldownTill
    BY <1>3 DEF CoolInv, DoneOK
  <2>2. series[k].ev.start \in Nat /\ series[k].ev.start >= d.finished + Cooldown
    BY <1>2, <1>3, <2>1, CooldownNat
  <2>. QED  BY <2>1, <2>2, ApartByCooldown
<1>4. CASE e \in done /\ f \in done  BY <1>4 DEF CoolInv
<1>5. CASE e \in done /\ f \in OpenEvents  BY <1>1, <1>2, <1>3, <1>5 DEF Apart
<1>6. CASE e \in OpenEvents /\ f \in done  BY <1>1, <1>2, <1>3, <1>6 DEF Apart
<1>7. CASE e \in OpenEvents /\ f \in OpenEvents  BY <1>1, <1>2, <1>7 DEF Apart
<1>. QED  BY <1>4, <1>5, <1>6, <1>7 DEF Events

\* No event storm: the events of one series follow each other by at least the
\* cooldown from the completion of one (Post sets cooldownTill) to the first
\* sample of the next one's climb (AboveSince waits for it).
THEOREM EventsLieApart == SpikeSpec => []CooldownHolds
BY InitCool, NextCool, CoolImplies, PTL DEF SpikeSpec

-----------------------------------------------------------------------------
(***************************************************************************)
(* Proof that the agent never puts a sample into the record of another     *)
(* minute, for clocks that jump by any amount, any number of samples and   *)
(* of stops.  The invariant relates the pending samples to the minute they *)
(* are pending for; what emit computes of them plays no part.              *)
(***************************************************************************)

\* What the proof needs to know of the kept records: they form a sequence.
IsSequence(x) == \E S : x \in Seq(S)

\* The pending samples were taken in the minute the record will carry.
PendingOfMinute == \A i \in DOMAIN samples : Truncate(samples[i].ts) = minute

\* A finished record holds samples of its minute only.
RecordOfMinute(r) == \A s \in Range(r.of) : Truncate(s.ts) = r.ts

MinInv ==
    /\ clock \in 0..MaxTime
    /\ samples \in Seq(Reading)
    /\ IsSequence(minutes)
    /\ PendingOfMinute
    /\ \A i \in DOMAIN minutes : RecordOfMinute(minutes[i])

-----------------------------------------------------------------------------
(* Sequences.                                                              *)

LEMMA Appended ==
    ASSUME NEW q, IsSequence(q), NEW e
    PROVE  /\ IsSequence(Append(q, e))
           /\ \A i \in DOMAIN Append(q, e) :
                 \/ i \in DOMAIN q /\ Append(q, e)[i] = q[i]
                 \/ Append(q, e)[i] = e
<1>1. PICK S : q \in Seq(S)  BY DEF IsSequence
<1>2. q \in Seq(S \cup {e}) /\ e \in S \cup {e}
  <2>1. \A i \in 1..Len(q) : q[i] \in S \cup {e}  BY <1>1
  <2>. QED  BY <1>1, <2>1
<1>3. Append(q, e) \in Seq(S \cup {e})  BY <1>2
<1>4. \A i \in DOMAIN Append(q, e) :
        \/ i \in DOMAIN q /\ Append(q, e)[i] = q[i]
        \/ Append(q, e)[i] = e
  BY <1>2
<1>. QED  BY <1>3, <1>4 DEF IsSequence

\* The record emit makes of the pending samples is about its own minute.
LEMMA EmitOfMinute ==
    ASSUME PendingOfMinute
    PROVE  RecordOfMinute(Emit(minute, samples))
<1>1. Emit(minute, samples).of = samples /\ Emit(minute, samples).ts = minute  BY DEF Emit
<1>2. ASSUME NEW s \in Range(samples)
      PROVE  Truncate(s.ts) = minute
  BY <1>2 DEF Range, PendingOfMinute
<1>. QED  BY <1>1, <1>2 DEF RecordOfMinute

\* Appending that record keeps what the invariant says of the records.
LEMMA EmitKeeps ==
    ASSUME MinInv
    PROVE  LET q == Append(minutes, Emit(minute, samples))
           IN  IsSequence(q) /\ \A i \in DOMAIN q : RecordOfMinute(q[i])
<1>. DEFINE e == Emit(minute, samples)
<1>1. RecordOfMinute(e)  BY EmitOfMinute DEF MinInv
<1>2. IsSequence(minutes) /\ \A i \in DOMAIN minutes : RecordOfMinute(minutes[i])  BY DEF MinInv
<1>. HIDE DEF e
<1>3. IsSequence(Append(minutes, e))  BY <1>2, Appended
<1>4. ASSUME NEW i \in DOMAIN Append(minutes, e)
      PROVE  RecordOfMinute(Append(minutes, e)[i])
  <2>1. \/ i \in DOMAIN minutes /\ Append(minutes, e)[i] = minutes[i]
        \/ Append(minutes, e)[i] = e
    BY <1>2, <1>4, Appended
  <2>. QED  BY <2>1, <1>1, <1>2
<1>. QED  BY <1>3, <1>4 DEF e

-----------------------------------------------------------------------------
(* The steps.                                                              *)

LEMMA InitHolds == MinuteInit => MinInv
<1>. SUFFICES ASSUME MinuteInit PROVE MinInv  OBVIOUS
<1>1. clock \in 0..MaxTime  BY MinuteAggAssumption DEF MinuteInit, MinuteAggAssumption
<1>2. samples = <<>> /\ minutes = <<>>  BY DEF MinuteInit
<1>3. \A S : <<>> \in Seq(S)  OBVIOUS
<1>. QED  BY <1>1, <1>2, <1>3 DEF MinInv, PendingOfMinute, IsSequence

\* A tick leaves the pending samples those of the new sample's minute, and
\* what it closes is a record of the minute before.
LEMMA TickKeeps ==
    ASSUME MinInv, NEW v \in Values, NEW read \in BOOLEAN, HostTick(v, read),
           Values \subseteq Nat
    PROVE  MinInv'
<1>. DEFINE s == [ts |-> clock, value |-> v, seen |-> read]
            old == IF minute = None \/ (minute # None /\ Truncate(s.ts) # minute)
                   THEN <<>> ELSE samples
<1>1. s \in Reading
  <2>1. clock \in 0..MaxTime /\ v \in Nat  BY DEF MinInv
  <2>. QED  BY <2>1 DEF Reading
<1>2. Add(s) /\ clock' = clock  BY DEF HostTick
<1>3. minute' = Truncate(s.ts) /\ samples' = Append(old, s)  BY <1>2 DEF Add
<1>4. old \in Seq(Reading)  BY DEF MinInv
<1>5. \A i \in DOMAIN old : Truncate(old[i].ts) = Truncate(s.ts)
  BY DEF MinInv, PendingOfMinute
<1>6. minutes' = minutes \/ minutes' = Append(minutes, Emit(minute, samples))  BY <1>2 DEF Add
<1>. HIDE DEF s, old
<1>7. samples' \in Seq(Reading)  BY <1>1, <1>3, <1>4
<1>8. PendingOfMinute'
  <2>1. ASSUME NEW i \in DOMAIN samples'
        PROVE  Truncate(samples'[i].ts) = minute'
    <3>1. (i \in DOMAIN old /\ samples'[i] = old[i]) \/ samples'[i] = s
      BY <1>1, <1>3, <1>4
    <3>. QED  BY <3>1, <1>3, <1>5
  <2>. QED  BY <2>1 DEF PendingOfMinute, Truncate
<1>9. IsSequence(minutes') /\ \A i \in DOMAIN minutes' : RecordOfMinute(minutes'[i])
  BY <1>6, EmitKeeps DEF MinInv
<1>. QED  BY <1>2, <1>7, <1>8, <1>9 DEF MinInv, IsSequence, RecordOfMinute, Truncate

\* Steps that leave no sample pending: a stop, with or without the flush.
LEMMA EmptiedKeeps ==
    ASSUME MinInv, samples' = <<>>, clock' = clock,
           minutes' = minutes \/ minutes' = Append(minutes, Emit(minute, samples))
    PROVE  MinInv'
<1>1. IsSequence(minutes') /\ \A i \in DOMAIN minutes' : RecordOfMinute(minutes'[i])
  BY EmitKeeps DEF MinInv
<1>2. samples' \in Seq(Reading) /\ DOMAIN samples' = {}  OBVIOUS
<1>. QED  BY <1>1, <1>2 DEF MinInv, PendingOfMinute, IsSequence, RecordOfMinute, Truncate

LEMMA QuietKeeps ==
    ASSUME MinInv, UNCHANGED <<minute, samples, minutes>>, clock' \in 0..MaxTime
    PROVE  MinInv'
BY DEF MinInv, PendingOfMinute, IsSequence, RecordOfMinute, Truncate

LEMMA StepKeeps == MinInv /\ [MinuteNext]_minuteVars => MinInv'
<1>. SUFFICES ASSUME MinInv, [MinuteNext]_minuteVars PROVE MinInv'  OBVIOUS
<1>0. clock \in 0..MaxTime  BY DEF MinInv
<1>1. CASE \E v \in Values, read \in BOOLEAN : HostTick(v, read)
  BY <1>1, TickKeeps, MinuteAggAssumption DEF MinuteAggAssumption
<1>2. CASE \E t \in 0..MaxTime : Clock(t)
  BY <1>2, QuietKeeps DEF Clock
<1>3. CASE Shutdown
  BY <1>3, EmptiedKeeps DEF Shutdown, FlushPartial
<1>4. CASE LoseMinute
  BY <1>4, EmptiedKeeps DEF LoseMinute
<1>5. CASE Start
  BY <1>0, <1>5, QuietKeeps DEF Start
<1>6. CASE UNCHANGED minuteVars
  BY <1>0, <1>6, QuietKeeps DEF minuteVars
<1>. QED  BY <1>1, <1>2, <1>3, <1>4, <1>5, <1>6 DEF MinuteNext

-----------------------------------------------------------------------------

\* Every host_minute record is about its own minute (Add and FlushPartial of
\* sampler.go): also when the clock is set back into an older minute, when the
\* agent stops in the middle of one, and after a restart.
THEOREM RecordsAreOfTheirMinute == MinuteSpec => []MinuteHoldsItsOwn
<1>1. MinInv => MinuteHoldsItsOwn  BY DEF MinInv, MinuteHoldsItsOwn, RecordOfMinute
<1>. QED  BY InitHolds, StepKeeps, <1>1, PTL DEF MinuteSpec

-----------------------------------------------------------------------------
(***************************************************************************)
(* Theorems about Health, for every set of collectors and errors, every    *)
(* choice of the permission errors and every length of the list.           *)
(***************************************************************************)

Pairs == Collectors \X Errors

\* The set of the pairs listed and whether the list is full; this says of errs
\* what EveryIssueKept and the types of HealthTypeOK say, without Range.
ListInv ==
    /\ errs \in Seq(Pairs) /\ Len(errs) <= MaxRecent
    /\ \A i, j \in DOMAIN errs : i # j => errs[i] # errs[j]
    /\ \A i \in DOMAIN errs : errs[i] \in errSeen
    /\ Len(errs) < MaxRecent => \A p \in errSeen : \E i \in DOMAIN errs : errs[i] = p
    /\ errSeen \subseteq Pairs
    /\ permIssues = errSeen \cap (Collectors \X Permission)

LEMMA ListOfSame ==
    ASSUME ListInv, UNCHANGED <<errs, errSeen, permIssues>>
    PROVE  ListInv'
BY DEF ListInv

LEMMA FreshList ==
    ASSUME errs' = <<>>, errSeen' = {}, permIssues' = {}
    PROVE  ListInv'
BY HealthAssumption DEF ListInv

LEMMA IssueList ==
    ASSUME ListInv, NEW c \in Collectors, NEW e \in Errors, Issue(c, e)
    PROVE  ListInv'
<1> DEFINE p == <<c, e>>
<1>1. p \in Pairs
    BY DEF Pairs
<1>2. CASE Seen(c, e)
    BY <1>2, ListOfSame DEF Issue
<1>3. CASE ~Seen(c, e)
    <2>1. /\ p \notin errSeen /\ errSeen' = errSeen \cup {p}
          /\ permIssues' = permIssues \cup ({p} \cap (Collectors \X Permission))
          /\ errs' = IF Len(errs) < MaxRecent THEN Append(errs, p) ELSE errs
        BY <1>3 DEF Issue, Seen, WithPermission, WithError
    <2> HIDE DEF p
    <2>2. errSeen' \subseteq Pairs /\ permIssues' = errSeen' \cap (Collectors \X Permission)
        BY <1>1, <2>1 DEF ListInv
    <2>3. CASE Len(errs) < MaxRecent
        <3>1. errs \in Seq(Pairs) /\ errs' = Append(errs, p)
            BY <2>1, <2>3 DEF ListInv
        <3>2. /\ errs' \in Seq(Pairs) /\ Len(errs') = Len(errs) + 1
              /\ DOMAIN errs' = 1 .. (Len(errs) + 1) /\ DOMAIN errs = 1 .. Len(errs)
              /\ Len(errs) \in Nat
              /\ \A i \in 1 .. Len(errs) : errs'[i] = errs[i]
              /\ errs'[Len(errs) + 1] = p
            BY <1>1, <3>1
        <3>3. DOMAIN errs' = DOMAIN errs \cup {Len(errs) + 1}
            BY <3>2
        <3>4. \A i, j \in DOMAIN errs' : i # j => errs'[i] # errs'[j]
            BY <2>1, <3>2, <3>3 DEF ListInv
        <3>5. \A i \in DOMAIN errs' : errs'[i] \in errSeen'
            BY <2>1, <3>2, <3>3 DEF ListInv
        <3>6. \A q \in errSeen' : \E i \in DOMAIN errs' : errs'[i] = q
            BY <2>1, <2>3, <3>2, <3>3 DEF ListInv
        <3>7. Len(errs') <= MaxRecent
            BY <2>3, <3>2, HealthAssumption
        <3> QED
            BY <2>2, <3>2, <3>4, <3>5, <3>6, <3>7 DEF ListInv
    <2>4. CASE ~(Len(errs) < MaxRecent)
        <3>1. errs' = errs
            BY <2>1, <2>4
        <3> QED
            BY <2>1, <2>2, <2>4, <3>1 DEF ListInv
    <2> QED
        BY <2>3, <2>4
<1> QED
    BY <1>2, <1>3

LEMMA ListInit == ASSUME HealthInit PROVE ListInv
BY HealthAssumption DEF HealthInit, ListInv

LEMMA ListStep ==
    ASSUME ListInv, [HealthNext]_healthVars
    PROVE  ListInv'
<1>1. CASE \E c \in Collectors : \E e \in Errors : Problem(c, e)
    BY <1>1, IssueList DEF Problem
<1>2. CASE Restart \/ Killed
    BY <1>2, FreshList DEF Restart, Killed, FreshTracker
<1>3. CASE \/ \E c \in Collectors : Success(c)
           \/ \E n \in 1 .. MaxDeleted : Retention(n)
           \/ HealthTick \/ MinutePasses \/ UNCHANGED healthVars
    BY <1>3, ListOfSame DEF Success, Retention, HealthTick, MinutePasses, healthVars
<1> QED
    BY <1>1, <1>2, <1>3 DEF HealthNext

\* Deduplication loses nothing: each pair is listed once, none is missing while
\* there is room, and every permission problem is kept even when the list is full
\* (health.go:15-17, 46-59).
THEOREM IssuesAreKept == HealthSpec => []EveryIssueKept
<1>1. HealthInit => ListInv
    BY ListInit
<1>2. ListInv /\ [HealthNext]_healthVars => ListInv'
    BY ListStep
<1>3. ListInv => EveryIssueKept
    <2> SUFFICES ASSUME ListInv PROVE EveryIssueKept
        OBVIOUS
    <2>1. Range(errs) = {errs[i] : i \in DOMAIN errs}
        BY DEF Range
    <2>2. Range(errs) \subseteq errSeen
        BY <2>1 DEF ListInv
    <2>3. Len(errs) < MaxRecent => Range(errs) = errSeen
        BY <2>1, <2>2 DEF ListInv
    <2> QED
        BY <2>2, <2>3 DEF ListInv, EveryIssueKept
<1> QED
    BY <1>1, <1>2, <1>3, PTL DEF HealthSpec

-----------------------------------------------------------------------------
(* What a status says.                                                     *)

\* A collector that is shown as healthy had a good cycle last, and a collector with
\* no status or a good one has no error behind it: so a repeated error, which
\* leaves the status alone, cannot leave a good one.
StatusInv ==
    /\ statuses \in [Collectors -> Errors \cup {None, "ok"}]
    /\ last \in [Collectors -> Errors \cup {None, "good"}]
    /\ \A c \in Collectors : statuses[c] = "ok" => last[c] = "good"
    /\ \A c \in Collectors, e \in Errors : <<c, e>> \in errSeen => statuses[c] \notin {None, "ok"}

LEMMA StatusInit == ASSUME HealthInit PROVE StatusInv
BY HealthAssumption DEF HealthInit, StatusInv

LEMMA StatusProblem ==
    ASSUME StatusInv, NEW c \in Collectors, NEW e \in Errors, Problem(c, e)
    PROVE  StatusInv'
<1>1. last' = [last EXCEPT ![c] = e] /\ e \notin {None, "ok"}
    BY HealthAssumption DEF Problem
<1>2. CASE Seen(c, e)
    <2>1. statuses' = statuses /\ errSeen' = errSeen /\ <<c, e>> \in errSeen
        BY <1>2 DEF Problem, Issue, Seen
    <2>2. statuses[c] # "ok"
        BY <2>1 DEF StatusInv
    <2> QED
        BY <1>1, <2>1, <2>2 DEF StatusInv
<1>3. CASE ~Seen(c, e)
    <2>1. statuses' = [statuses EXCEPT ![c] = e] /\ errSeen' = errSeen \cup {<<c, e>>}
        BY <1>3 DEF Problem, Issue
    <2> QED
        BY <1>1, <2>1 DEF StatusInv
<1> QED
    BY <1>2, <1>3

LEMMA StatusSuccess ==
    ASSUME StatusInv, NEW c \in Collectors, Success(c)
    PROVE  StatusInv'
<1>1. /\ last' = [last EXCEPT ![c] = "good"] /\ errSeen' = errSeen
      /\ statuses' = IF statuses[c] = None THEN [statuses EXCEPT ![c] = "ok"] ELSE statuses
    BY DEF Success, OK
<1>2. \A e \in Errors : statuses[c] = None => <<c, e>> \notin errSeen
    BY DEF StatusInv
<1> QED
    BY <1>1, <1>2 DEF StatusInv

LEMMA StatusStep ==
    ASSUME StatusInv, [HealthNext]_healthVars
    PROVE  StatusInv'
<1>1. CASE \E c \in Collectors : Success(c) \/ \E e \in Errors : Problem(c, e)
    BY <1>1, StatusProblem, StatusSuccess
<1>2. CASE Restart \/ Killed
    BY <1>2, HealthAssumption DEF Restart, Killed, FreshTracker, StatusInv
<1>3. CASE \/ \E n \in 1 .. MaxDeleted : Retention(n)
           \/ HealthTick \/ MinutePasses \/ UNCHANGED healthVars
    BY <1>3 DEF Retention, HealthTick, MinutePasses, healthVars, StatusInv
<1> QED
    BY <1>1, <1>2, <1>3 DEF HealthNext

\* No order of good cycles, new errors and repeated errors makes the health record
\* show a collector as healthy whose last cycle failed (health.go:46-49, 66-68).
THEOREM NoFalseHealth == HealthSpec => []NeverFalselyOk
<1>1. HealthInit => StatusInv
    BY StatusInit
<1>2. StatusInv /\ [HealthNext]_healthVars => StatusInv'
    BY StatusStep
<1>3. StatusInv => NeverFalselyOk
    BY DEF StatusInv, NeverFalselyOk
<1> QED
    BY <1>1, <1>2, <1>3, PTL DEF HealthSpec

-----------------------------------------------------------------------------
(* Both, with the types of what is left.                                   *)

CountsInv ==
    /\ latest \in Pairs \cup {None}
    /\ collected \in Nat /\ expected \in Nat /\ written \in Nat /\ deleted \in Nat

LEMMA CountsInit == ASSUME HealthInit PROVE CountsInv
BY DEF HealthInit, CountsInv

LEMMA CountsStep ==
    ASSUME CountsInv, [HealthNext]_healthVars
    PROVE  CountsInv'
<1>1. CASE \E c \in Collectors : \E e \in Errors : Problem(c, e)
    BY <1>1 DEF Problem, Issue, minuteCounts, CountsInv, Pairs
<1>2. CASE Restart \/ Killed
    BY <1>2 DEF Restart, Killed, FreshTracker, CountsInv, Pairs
<1>3. CASE \E n \in 1 .. MaxDeleted : Retention(n)
    BY <1>3 DEF Retention, minuteCounts, CountsInv, Pairs
<1>4. CASE MinutePasses
    BY <1>4 DEF MinutePasses, CountsInv, Pairs
<1>5. CASE (\E c \in Collectors : Success(c)) \/ HealthTick \/ UNCHANGED healthVars
    BY <1>5 DEF Success, HealthTick, healthVars, minuteCounts, CountsInv, Pairs
<1> QED
    BY <1>1, <1>2, <1>3, <1>4, <1>5 DEF HealthNext

\* What the health record says is so, whatever the agent meets and in whatever
\* order: the list of issues is complete while there is room for it, and no
\* collector is shown as healthy after a cycle that failed (health.go:15-17, 46-68).
THEOREM HealthIsTrue == HealthSpec => []HealthIsHonest
<1>1. HealthInit => CountsInv
    BY CountsInit
<1>2. CountsInv /\ [HealthNext]_healthVars => CountsInv'
    BY CountsStep
<1>3. HealthInit => ListInv /\ StatusInv
    BY ListInit, StatusInit
<1>4. ListInv /\ StatusInv /\ [HealthNext]_healthVars => ListInv' /\ StatusInv'
    BY ListStep, StatusStep
<1>5. ListInv /\ StatusInv /\ CountsInv => HealthTypeOK
    BY DEF ListInv, StatusInv, CountsInv, HealthTypeOK, Pairs
<1>6. HealthTypeOK /\ EveryIssueKept /\ NeverFalselyOk => HealthIsHonest
    BY DEF HealthIsHonest
<1> QED
    BY <1>1, <1>2, <1>3, <1>4, <1>5, <1>6, IssuesAreKept, NoFalseHealth, PTL DEF HealthSpec

-----------------------------------------------------------------------------
(***************************************************************************)
(* Proof that the minutes add up to the samples: a sum over the records, so *)
(* that each step needs to say only what it adds.                          *)
(***************************************************************************)

AddInv ==
    /\ MinuteTypeOK
    /\ SamplesConserved
    /\ samples # <<>> => minute # None

\* The first moment of a minute is a moment of the clock.
LEMMA MinuteOfMoment ==
    ASSUME NEW t \in 0..MaxTime
    PROVE  Truncate(t) \in 0..MaxTime
<1>1. t \in Nat /\ Minute \in Nat \ {0} /\ MaxTime \in Nat
    BY MinuteAggAssumption
<1>2. t % Minute \in 0..(Minute - 1)
    BY <1>1
<1>3. t % Minute <= t
    BY <1>1
<1> QED
    BY <1>1, <1>2, <1>3 DEF Truncate

\* What emit makes of samples is a record that counts them.
LEMMA EmitType ==
    ASSUME NEW min \in Nat, NEW smp \in Seq(Reading), smp # <<>>, Len(smp) <= MaxSamples
    PROVE  Emit(min, smp) \in MinuteRecord /\ Emit(min, smp).n = Len(smp)
<1> DEFINE v == [i \in DOMAIN smp |-> smp[i].value]
           P == {i \in DOMAIN smp : smp[i].seen}
           V == {s.value : s \in Range(smp)} \cup {0}
<1>1. DOMAIN smp = 1..Len(smp) /\ Len(smp) \in Nat \ {0}
    OBVIOUS
<1>2. IsFiniteSet(DOMAIN smp) /\ Cardinality(DOMAIN smp) = Len(smp)
    BY <1>1, FS_Interval
<1>3. ASSUME NEW i \in DOMAIN smp PROVE smp[i].value \in Nat
    <2>1. smp[i] \in Reading
        OBVIOUS
    <2> QED
        BY <2>1, MinuteAggAssumption DEF Reading
<1>4. SumFunction(v) \in Nat
    <2>1. DOMAIN v = DOMAIN smp /\ \A i \in DOMAIN v : v[i] \in Nat
        BY <1>3
    <2> HIDE DEF v
    <2> QED
        BY <1>2, <2>1, SumIsTotal, TotalNat
<1>5. Cardinality(P) \in 0..MaxSamples
    <2>1. P \subseteq DOMAIN smp
        OBVIOUS
    <2>2. IsFiniteSet(P) /\ Cardinality(P) <= Cardinality(DOMAIN smp)
        BY <1>2, <2>1, FS_Subset
    <2>3. Cardinality(P) \in Nat
        BY <2>2, FS_CardinalityType
    <2> QED
        BY <1>2, <2>2, <2>3, MinuteAggAssumption
<1>6. Max(V) \in Nat
    <2>1. V \subseteq Nat
        BY <1>3 DEF Range
    <2>2. IsFiniteSet(V)
        <3>1. {s.value : s \in Range(smp)} = {smp[i].value : i \in DOMAIN smp}
            BY DEF Range
        <3>2. IsFiniteSet({smp[i].value : i \in DOMAIN smp})
            <4> DEFINE T == {smp[i].value : i \in DOMAIN smp}
            <4>1. v \in Surjection(DOMAIN smp, T)
                BY DEF Surjection
            <4> HIDE DEF T, v
            <4> QED
                BY <1>2, <4>1, FS_Surjection DEF T
        <3> QED
            BY <3>1, <3>2, FS_AddElement
    <2>3. 0 \in V
        OBVIOUS
    <2> HIDE DEF V
    <2> QED
        <3>1. V \subseteq Int /\ V # {}
            BY <2>1, <2>3
        <3>2. Max(V) \in V
            BY <2>2, <3>1, MaxIsGreatest
        <3> QED
            BY <2>1, <3>2
<1> HIDE DEF v, P, V
<1>7. Emit(min, smp) = [ts |-> min, n |-> Len(smp), of |-> smp, sum |-> SumFunction(v),
                        max |-> Max(V), devices |-> Cardinality(P)]
    BY DEF Emit, v, P, V
<1> QED
    BY <1>1, <1>4, <1>5, <1>6, <1>7 DEF MinuteRecord

\* One record more adds what it counts.
LEMMA OneMinuteMore ==
    ASSUME NEW r \in MinuteRecord, minutes \in Seq(MinuteRecord), minutes' = Append(minutes, r)
    PROVE  SamplesOf(DOMAIN minutes)' = SamplesOf(DOMAIN minutes) + r.n
<1> DEFINE w == [i \in DOMAIN minutes |-> minutes[i].n]
           v == [i \in DOMAIN minutes' |-> minutes'[i].n]
           D == DOMAIN minutes
           x == Len(minutes) + 1
<1>1. minutes' \in Seq(MinuteRecord) /\ Len(minutes') = x /\ minutes'[x] = r
      /\ \A i \in 1..Len(minutes) : minutes'[i] = minutes[i]
    OBVIOUS
<1>2. D = 1..Len(minutes) /\ DOMAIN minutes' = 1..x /\ Len(minutes) \in Nat /\ x \in Nat
    BY <1>1
<1>3. DOMAIN w = D /\ DOMAIN v = D \cup {x} /\ x \notin D /\ IsFiniteSet(D) /\ v[x] = r.n
    <2>1. IsFiniteSet(D)
        BY <1>2, FS_Interval
    <2> QED
        BY <1>1, <1>2, <2>1
<1>4. ASSUME NEW i \in D \cup {x} PROVE v[i] \in Int
    <2>1. i \in 1..x
        BY <1>2
    <2>2. minutes'[i] \in MinuteRecord
        BY <1>1, <2>1
    <2>3. i \in DOMAIN minutes'
        BY <1>2, <2>1
    <2>4. v[i] = minutes'[i].n
        BY <2>3
    <2> HIDE DEF v
    <2>5. minutes'[i].n \in Nat
        BY <2>2 DEF MinuteRecord
    <2> QED
        BY <2>4, <2>5
<1>5. \A i \in D : v[i] = w[i]
    BY <1>1, <1>2
<1>6. SamplesOf(DOMAIN minutes) = SumFunction(w) /\ SamplesOf(DOMAIN minutes)' = SumFunction(v)
    BY DEF SamplesOf
<1> HIDE DEF w, v, D, x
<1>7. SumFunction(v) = Total(v, D) + r.n
    BY <1>3, <1>4, SumIsTotal, TotalAdd
<1>8. Total(v, D) = Total(w, D)
    BY <1>3, <1>5, TotalSame
<1> QED
    BY <1>3, <1>6, <1>7, <1>8, SumIsTotal

-----------------------------------------------------------------------------
(* The steps.                                                              *)

LEMMA SamplesFit ==
    ASSUME AddInv
    PROVE  /\ Len(samples) \in Nat /\ Len(samples) + lost <= given
           /\ SamplesOf(DOMAIN minutes) \in Nat
<1> DEFINE w == [i \in DOMAIN minutes |-> minutes[i].n]
<1>1. minutes \in Seq(MinuteRecord) /\ samples \in Seq(Reading)
    BY DEF AddInv, MinuteTypeOK
<1>2. IsFiniteSet(DOMAIN minutes)
    <2>1. DOMAIN minutes = 1..Len(minutes) /\ Len(minutes) \in Nat
        BY <1>1
    <2> QED
        BY <2>1, FS_Interval
<1>3. ASSUME NEW i \in DOMAIN minutes PROVE minutes[i].n \in Nat
    <2>1. minutes[i] \in MinuteRecord
        BY <1>1
    <2> QED
        BY <2>1 DEF MinuteRecord
<1>4. DOMAIN w = DOMAIN minutes /\ \A i \in DOMAIN w : w[i] \in Nat
    BY <1>3
<1>5. SamplesOf(DOMAIN minutes) = SumFunction(w)
    BY DEF SamplesOf
<1>6. SumFunction(w) \in Nat
    <2> HIDE DEF w
    <2> QED
        BY <1>2, <1>4, SumIsTotal, TotalNat
<1>7. Len(samples) \in Nat
    BY <1>1
<1>8. given = SamplesOf(DOMAIN minutes) + Len(samples) + lost /\ lost \in Nat /\ given \in Nat
    BY MinuteAggAssumption DEF AddInv, MinuteTypeOK, SamplesConserved
<1> QED
    BY <1>5, <1>6, <1>7, <1>8

\* The pending samples, emitted.
LEMMA Emitted ==
    ASSUME AddInv, samples # <<>>, minute # None, minutes' = Append(minutes, Emit(minute, samples))
    PROVE  /\ minutes' \in Seq(MinuteRecord)
           /\ SamplesOf(DOMAIN minutes)' = SamplesOf(DOMAIN minutes) + Len(samples)
<1> DEFINE r == Emit(minute, samples)
<1>1. minute \in Nat /\ samples \in Seq(Reading) /\ minutes \in Seq(MinuteRecord)
    BY MinuteAggAssumption DEF AddInv, MinuteTypeOK
<1>2. Len(samples) <= MaxSamples
    BY SamplesFit, MinuteAggAssumption DEF AddInv, MinuteTypeOK
<1>3. r \in MinuteRecord /\ r.n = Len(samples)
    BY <1>1, <1>2, EmitType
<1> HIDE DEF r
<1>4. minutes' = Append(minutes, r)
    BY DEF r
<1> QED
    BY <1>1, <1>3, <1>4, OneMinuteMore

LEMMA AddInit == MinuteInit => AddInv
<1> SUFFICES ASSUME MinuteInit PROVE AddInv
    OBVIOUS
<1>1. /\ clock = 0 /\ alive = TRUE /\ minute = None /\ samples = <<>> /\ minutes = <<>>
      /\ given = 0 /\ lost = 0 /\ stops = 0
    BY DEF MinuteInit
<1>2. MinuteTypeOK
    BY <1>1, MinuteAggAssumption DEF MinuteTypeOK
<1>3. SamplesOf(DOMAIN minutes) = 0
    <2> DEFINE w == [i \in DOMAIN minutes |-> minutes[i].n]
    <2>1. DOMAIN w = {}
        BY <1>1
    <2> HIDE DEF w
    <2>2. SumFunction(w) = 0
        BY <2>1, SumIsTotal, TotalEmpty
    <2> QED
        BY <2>2 DEF SamplesOf, w
<1> QED
    BY <1>1, <1>2, <1>3 DEF AddInv, SamplesConserved

\* A sample is counted where it goes, in the minute under way.
LEMMA AddTick ==
    ASSUME AddInv, NEW v \in Values, NEW read \in BOOLEAN, HostTick(v, read)
    PROVE  AddInv'
<1> DEFINE s == [ts |-> clock, value |-> v, seen |-> read]
           min == Truncate(clock)
           rolls == minute # None /\ min # minute
           before == IF minute = None \/ rolls THEN <<>> ELSE samples
<1>0. /\ clock \in 0..MaxTime /\ alive \in BOOLEAN /\ samples \in Seq(Reading)
      /\ minutes \in Seq(MinuteRecord) /\ given \in 0..MaxSamples /\ lost \in 0..MaxSamples
      /\ stops \in 0..Stops /\ (samples # <<>> => minute # None)
    BY DEF AddInv, MinuteTypeOK
<1>1. s \in Reading
    BY <1>0 DEF Reading
<1>2. /\ minutes' = IF rolls /\ samples # <<>> THEN Append(minutes, Emit(minute, samples)) ELSE minutes
      /\ minute' = min
      /\ samples' = Append(before, s)
      /\ given < MaxSamples /\ given' = given + 1 /\ UNCHANGED <<clock, alive, lost, stops>>
    BY DEF HostTick, Add
<1>3. min \in 0..MaxTime
    BY <1>0, MinuteOfMoment
<1> HIDE DEF s, min
<1>4. before \in Seq(Reading)
    BY <1>0
<1> DEFINE kept == Len(before)
<1>5. samples' \in Seq(Reading) /\ Len(samples') = kept + 1 /\ kept \in Nat
    BY <1>1, <1>2, <1>4
<1>6. /\ minutes' \in Seq(MinuteRecord)
      /\ SamplesOf(DOMAIN minutes)' = SamplesOf(DOMAIN minutes) + (Len(samples) - kept)
    <2>1. CASE rolls /\ samples # <<>>
        <3>1. kept = 0 /\ Len(samples) \in Nat
            BY <1>0, <2>1
        <3> QED
            BY <1>2, <2>1, <3>1, Emitted
    <2>2. CASE ~(rolls /\ samples # <<>>)
        <3>1. minutes' = minutes /\ before = samples
            BY <1>0, <1>2, <2>2
        <3>2. Len(samples) - kept = 0
            BY <1>0, <3>1
        <3>3. SamplesOf(DOMAIN minutes)' = SamplesOf(DOMAIN minutes)
            BY <3>1 DEF SamplesOf
        <3> QED
            BY <1>0, <3>1, <3>2, <3>3, SamplesFit
    <2> QED
        BY <2>1, <2>2
<1> HIDE DEF kept, before, rolls
<1>7. SamplesConserved'
    <2>1. given = SamplesOf(DOMAIN minutes) + Len(samples) + lost
        BY DEF AddInv, SamplesConserved
    <2>2. SamplesOf(DOMAIN minutes) \in Nat /\ Len(samples) \in Nat /\ lost \in Nat
        BY <1>0, SamplesFit
    <2>3. given' = SamplesOf(DOMAIN minutes)' + Len(samples)' + lost'
        BY <1>2, <1>5, <1>6, <2>1, <2>2
    <2> QED
        BY <2>3 DEF SamplesConserved
<1>8. given' \in 0..MaxSamples
    BY <1>0, <1>2, MinuteAggAssumption
<1>9. minute' # None
    BY <1>2, <1>3, MinuteAggAssumption
<1>10. MinuteTypeOK'
    BY <1>0, <1>2, <1>3, <1>5, <1>6, <1>8 DEF MinuteTypeOK, MinuteRecord, Reading
<1> QED
    BY <1>7, <1>9, <1>10 DEF AddInv

\* A stop gives the pending samples to a record, or loses them.
LEMMA AddStop ==
    ASSUME AddInv, Shutdown \/ LoseMinute
    PROVE  AddInv'
<1>0. /\ clock \in 0..MaxTime /\ samples \in Seq(Reading)
      /\ minutes \in Seq(MinuteRecord) /\ given \in 0..MaxSamples /\ lost \in 0..MaxSamples
      /\ stops \in 0..Stops /\ (samples # <<>> => minute # None)
    BY DEF AddInv, MinuteTypeOK
<1>1. /\ samples' = <<>> /\ minute' = None /\ alive' = FALSE
      /\ stops < Stops /\ stops' = stops + 1 /\ UNCHANGED <<clock, given>>
    BY DEF Shutdown, LoseMinute, FlushPartial
<1>2. given = SamplesOf(DOMAIN minutes) + Len(samples) + lost
    BY DEF AddInv, SamplesConserved
<1>3. /\ SamplesOf(DOMAIN minutes) \in Nat /\ Len(samples) \in Nat /\ lost \in Nat
      /\ Len(samples) + lost <= given
    BY <1>0, SamplesFit
<1>4. samples' \in Seq(Reading) /\ Len(samples') = 0
    BY <1>1
<1>5. /\ minutes' \in Seq(MinuteRecord) /\ lost' \in 0..MaxSamples
      /\ given' = SamplesOf(DOMAIN minutes)' + Len(samples)' + lost'
    <2>1. CASE Shutdown /\ samples # <<>>
        <3>1. minutes' = Append(minutes, Emit(minute, samples)) /\ lost' = lost
            BY <2>1 DEF Shutdown, FlushPartial
        <3>2. /\ minutes' \in Seq(MinuteRecord)
              /\ SamplesOf(DOMAIN minutes)' = SamplesOf(DOMAIN minutes) + Len(samples)
            BY <1>0, <2>1, <3>1, Emitted
        <3> QED
            BY <1>0, <1>1, <1>2, <1>3, <1>4, <3>1, <3>2
    <2>2. CASE Shutdown /\ samples = <<>>
        <3>1. minutes' = minutes /\ lost' = lost
            BY <2>2 DEF Shutdown, FlushPartial
        <3>2. SamplesOf(DOMAIN minutes)' = SamplesOf(DOMAIN minutes) /\ Len(samples) = 0
            BY <2>2, <3>1 DEF SamplesOf
        <3> QED
            BY <1>0, <1>1, <1>2, <1>3, <1>4, <3>1, <3>2
    <2>3. CASE LoseMinute
        <3>1. minutes' = minutes /\ lost' = lost + Len(samples)
            BY <2>3 DEF LoseMinute
        <3>2. SamplesOf(DOMAIN minutes)' = SamplesOf(DOMAIN minutes)
            BY <3>1 DEF SamplesOf
        <3>3. lost' \in 0..MaxSamples
            BY <1>0, <1>3, <3>1, MinuteAggAssumption
        <3> QED
            BY <1>0, <1>1, <1>2, <1>3, <1>4, <3>1, <3>2, <3>3
    <2> QED
        BY <2>1, <2>2, <2>3
<1>6. stops' \in 0..Stops
    BY <1>0, <1>1, MinuteAggAssumption
<1>7. MinuteTypeOK'
    BY <1>0, <1>1, <1>4, <1>5, <1>6 DEF MinuteTypeOK, MinuteRecord, Reading
<1> QED
    BY <1>1, <1>5, <1>7 DEF AddInv, SamplesConserved

LEMMA AddElse ==
    ASSUME AddInv, UNCHANGED <<minute, samples, minutes, given, lost, stops>>,
           clock' \in 0..MaxTime, alive' \in BOOLEAN
    PROVE  AddInv'
BY DEF AddInv, MinuteTypeOK, SamplesConserved, SamplesOf, MinuteRecord, Reading

LEMMA AddStep == AddInv /\ [MinuteNext]_minuteVars => AddInv'
<1> SUFFICES ASSUME AddInv, [MinuteNext]_minuteVars PROVE AddInv'
    OBVIOUS
<1>0. clock \in 0..MaxTime /\ alive \in BOOLEAN
    BY DEF AddInv, MinuteTypeOK
<1>1. CASE \E v \in Values, read \in BOOLEAN : HostTick(v, read)
    BY <1>1, AddTick
<1>2. CASE \E t \in 0..MaxTime : Clock(t)
    BY <1>0, <1>2, AddElse DEF Clock
<1>3. CASE Shutdown \/ LoseMinute
    BY <1>3, AddStop
<1>4. CASE Start
    BY <1>0, <1>4, AddElse DEF Start
<1>5. CASE UNCHANGED minuteVars
    BY <1>0, <1>5, AddElse DEF minuteVars
<1> QED
    BY <1>1, <1>2, <1>3, <1>4, <1>5 DEF MinuteNext

\* Every sample the agent took is in exactly one minute record, in the minute
\* under way or lost in a crash, whatever the clock does and whenever the agent
\* stops (sampler.go:250-330).
THEOREM SamplesAddUp == MinuteSpec => []MinutesAddUp
<1>1. AddInv => MinutesAddUp
    BY DEF AddInv, MinutesAddUp
<1> QED
    BY <1>1, AddInit, AddStep, PTL DEF MinuteSpec

-----------------------------------------------------------------------------
(***************************************************************************)
(* Proof that no figure of a host sample is more than the host did: whatever *)
(* device was taken out and put back, and however often its counters could not *)
(* be read.                                                                *)
(***************************************************************************)

-----------------------------------------------------------------------------
(* The shares of the CPU.                                                  *)

\* A share of a whole, in hundredths.
Share(v, whole) == IF whole <= 0 THEN 0 ELSE ClampPct((v * 100) \div whole)

LEMMA ShareIs ==
    ASSUME NEW whole \in Nat \ {0}, NEW v \in Nat, v <= whole
    PROVE  Share(v, whole) = (v * 100) \div whole /\ Share(v, whole) \in 0..100
<1> DEFINE q == (v * 100) \div whole
<1>1. v * 100 \in Nat
    OBVIOUS
<1>2. q \in Nat /\ whole * q <= v * 100
    BY <1>1, Quotient
<1> HIDE DEF q
<1>3. q <= 100
    <2> SUFFICES ASSUME q >= 101 PROVE FALSE
        BY <1>2
    <2>1. whole * q >= whole * 101
        BY <1>2
    <2> QED
        BY <1>2, <2>1
<1>4. Share(v, whole) = ClampPct(q) /\ ClampPct(q) = q
    BY <1>2, <1>3 DEF Share, ClampPct, q
<1> QED
    BY <1>2, <1>3, <1>4 DEF q

\* Three parts of what is busy, and the waiting beside it.
Fit(u, s, t, w, busy, all) ==
    /\ Share(u, all) + Share(s, all) + Share(t, all) <= Share(busy, all)
    /\ Share(busy, all) + Share(w, all) <= 100
    /\ Share(u, all) \in 0..100 /\ Share(s, all) \in 0..100 /\ Share(t, all) \in 0..100
    /\ Share(w, all) \in 0..100 /\ Share(busy, all) \in 0..100

LEMMA SharesFit ==
    ASSUME NEW u \in Nat, NEW s \in Nat, NEW t \in Nat, NEW w \in Nat, NEW busy \in Nat,
           NEW all \in Nat \ {0}, u + s + t <= busy, busy + w <= all
    PROVE  Fit(u, s, t, w, busy, all)
<1>1. u <= all /\ s <= all /\ t <= all /\ w <= all /\ busy <= all
    OBVIOUS
<1> DEFINE q(v) == (v * 100) \div all
<1>2. ASSUME NEW v \in {u, s, t, w, busy}
      PROVE  Share(v, all) = q(v) /\ q(v) \in 0..100
    <2>1. v \in Nat /\ v <= all
        BY <1>1
    <2>2. Share(v, all) = q(v) /\ Share(v, all) \in 0..100
        BY <2>1, ShareIs
    <2> HIDE DEF q
    <2> QED
        BY <2>2
<1> DEFINE cu == u * 100
           cs == s * 100
           ct == t * 100
           cw == w * 100
           cb == busy * 100
<1>3. cu \in Nat /\ cs \in Nat /\ ct \in Nat /\ cw \in Nat /\ cb \in Nat /\ cu + cs + ct <= cb
      /\ cb + cw <= all * 100
    OBVIOUS
<1>4. /\ q(u) = cu \div all /\ q(s) = cs \div all /\ q(t) = ct \div all
      /\ q(w) = cw \div all /\ q(busy) = cb \div all
    OBVIOUS
<1> HIDE DEF q, cu, cs, ct, cw, cb
<1> DEFINE two == (cu + cs) \div all
           three == (cu + cs + ct) \div all
           full == (cb + cw) \div all
<1>5. q(u) + q(s) <= two
    BY <1>3, <1>4, QuotientSum
<1>6. two + q(t) <= three
    <2>1. cu + cs \in Nat
        BY <1>3
    <2> QED
        BY <1>3, <1>4, <2>1, QuotientSum
<1>7. three <= q(busy)
    <2>1. cu + cs + ct \in Nat
        BY <1>3
    <2> QED
        BY <1>3, <1>4, <2>1, QuotientOrder
<1>8. q(busy) + q(w) <= full
    BY <1>3, <1>4, QuotientSum
<1>9. two \in Nat /\ three \in Nat /\ full \in Nat /\ all * full <= cb + cw
    <2>1. cu + cs \in Nat /\ cu + cs + ct \in Nat /\ cb + cw \in Nat
        BY <1>3
    <2> QED
        BY <2>1, Quotient
<1> HIDE DEF two, three, full
<1>10. full <= 100
    <2>1. full >= 101 => all * full >= all * 101
        BY <1>9
    <2>2. all * full \in Nat
        BY <1>9
    <2> QED
        BY <1>3, <1>9, <2>1, <2>2
<1>11. /\ Share(u, all) = q(u) /\ Share(s, all) = q(s) /\ Share(t, all) = q(t)
       /\ Share(w, all) = q(w) /\ Share(busy, all) = q(busy)
       /\ q(u) \in Nat /\ q(s) \in Nat /\ q(t) \in Nat /\ q(w) \in Nat /\ q(busy) \in Nat
    BY <1>2
<1>12. q(u) + q(s) + q(t) <= q(busy) /\ q(busy) + q(w) <= 100
    BY <1>5, <1>6, <1>7, <1>8, <1>9, <1>10, <1>11
<1>13. /\ Share(u, all) \in 0..100 /\ Share(s, all) \in 0..100 /\ Share(t, all) \in 0..100
       /\ Share(w, all) \in 0..100 /\ Share(busy, all) \in 0..100
    BY <1>2
<1> QED
    BY <1>11, <1>12, <1>13 DEF Fit

LEMMA SharesOf ==
    ASSUME NEW d, \A f \in {"user", "system", "steal", "other", "idle", "iowait"} : d[f] \in Nat
    PROVE  LET c == CpuDeltaPct(d)
           IN  /\ DOMAIN c = {"total", "user", "system", "iowait", "steal"}
               /\ \A f \in DOMAIN c : c[f] \in 0..100
               /\ c.user + c.system + c.steal <= c.total
               /\ c.total + c.iowait <= 100
<1> DEFINE busy == d.user + d.system + d.steal + d.other
           all == busy + d.idle + d.iowait
           c == CpuDeltaPct(d)
<1>1. d.user \in Nat /\ d.system \in Nat /\ d.steal \in Nat /\ d.other \in Nat
      /\ d.idle \in Nat /\ d.iowait \in Nat
    OBVIOUS
<1>2. c = [total |-> Share(busy, all), user |-> Share(d.user, all), system |-> Share(d.system, all),
           iowait |-> Share(d.iowait, all), steal |-> Share(d.steal, all)]
    BY DEF CpuDeltaPct, Share
<1>3. busy \in Nat /\ all \in Nat /\ d.user + d.system + d.steal <= busy /\ busy + d.iowait <= all
    BY <1>1
<1> HIDE DEF busy, all, c
<1>4. /\ Share(busy, all) \in 0..100 /\ Share(d.user, all) \in 0..100 /\ Share(d.system, all) \in 0..100
      /\ Share(d.iowait, all) \in 0..100 /\ Share(d.steal, all) \in 0..100
      /\ Share(d.user, all) + Share(d.system, all) + Share(d.steal, all) <= Share(busy, all)
      /\ Share(busy, all) + Share(d.iowait, all) <= 100
    <2>1. CASE all = 0
        <3>1. \A v : Share(v, all) = 0
            BY <2>1 DEF Share
        <3> QED
            BY <3>1
    <2>2. CASE all # 0
        <3>1. all \in Nat \ {0}
            BY <1>3, <2>2
        <3> DEFINE u == d.user
                   y == d.system
                   t == d.steal
                   w == d.iowait
        <3>2. u \in Nat /\ y \in Nat /\ t \in Nat /\ w \in Nat /\ u + y + t <= busy /\ busy + w <= all
            BY <1>1, <1>3
        <3> HIDE DEF u, y, t, w
        <3>3. Fit(u, y, t, w, busy, all)
            BY <1>3, <3>1, <3>2, SharesFit
        <3> QED
            BY <3>3 DEF Fit, u, y, t, w
    <2> QED
        BY <2>1, <2>2
<1>5. c.total = Share(busy, all) /\ c.user = Share(d.user, all) /\ c.system = Share(d.system, all)
      /\ c.iowait = Share(d.iowait, all) /\ c.steal = Share(d.steal, all)
      /\ DOMAIN c = {"total", "user", "system", "iowait", "steal"}
    BY <1>2
<1>6. \A f \in DOMAIN c : c[f] \in 0..100
    BY <1>4, <1>5
<1> QED
    BY <1>4, <1>5, <1>6 DEF c

-----------------------------------------------------------------------------
(* The counters of a device.                                               *)

\* A reading the agent may hold, and what lies between it and the device now:
\* never more than the device did since, with equality unless a probe failed.
InRange(c) ==
    /\ c \in Counters /\ c.count \in 0..MaxCount /\ c.time \in 0..(TimeWidth - 1)

Since ==
    prevDisk # None =>
        /\ InRange(prevDisk)
        /\ dev.count <= prevDisk.count + (IF behind THEN work.count ELSE 0)
        /\ dev.time <= prevDisk.time + (IF behind THEN work.time ELSE 0)

OutOK ==
    out # None =>
        /\ out.disk # None => out.disk.iops \in Nat /\ out.disk.lat \in Nat
        /\ \A f \in DOMAIN out.cpu : out.cpu[f] \in 0..100

SampleInv ==
    /\ InRange(dev)
    /\ primed \in BOOLEAN /\ behind \in BOOLEAN /\ back \in BOOLEAN
    /\ work.count \in Nat /\ work.time \in Nat
    /\ Since
    /\ OutOK /\ RateIsDone /\ LatencyIsReal /\ SharesAddUp

LEMMA SampleInit == SamplerInit => SampleInv
<1> SUFFICES ASSUME SamplerInit PROVE SampleInv
    OBVIOUS
<1>1. dev = [count |-> 0, time |-> 0] /\ work = dev /\ behind = FALSE /\ back = FALSE
      /\ primed = FALSE /\ prevDisk = None /\ out = None
    BY DEF SamplerInit
<1>2. InRange(dev)
    BY <1>1, HostSamplerAssumption DEF InRange, Counters
<1> QED
    BY <1>1, <1>2 DEF SampleInv, Since, OutOK, RateIsDone, LatencyIsReal, SharesAddUp, Disk

\* The device goes on from what it had, or starts again.
LEMMA WorksOn ==
    ASSUME SampleInv, NEW base, base \in {dev, [count |-> 0, time |-> 0]},
           NEW ops \in 0..MaxOps, NEW time \in 0..MaxOps, Works(base, ops, time)
    PROVE  /\ InRange(dev')
           /\ work'.count \in Nat /\ work'.time \in Nat
           /\ prevDisk # None => /\ dev'.count <= prevDisk.count + work'.count
                                 /\ dev'.time <= prevDisk.time + work'.time
<1>0. /\ ops \in Nat /\ time \in Nat /\ TimeWidth \in Nat \ {0} /\ Width \in Nat
      /\ MaxCount \in Nat /\ MaxCount < Width /\ TimeWidth <= Width
    BY HostSamplerAssumption
<1>1. /\ base.count \in Nat /\ base.time \in Nat
      /\ base.count <= dev.count /\ base.time <= dev.time
    BY <1>0 DEF SampleInv, InRange
<1> DEFINE t == (base.time + time) % TimeWidth
<1>2. t \in 0..(TimeWidth - 1) /\ t <= base.time + time
    <2> DEFINE a == base.time + time
    <2>1. a \in Nat
        BY <1>0, <1>1
    <2> HIDE DEF a
    <2>2. a % TimeWidth \in 0..(TimeWidth - 1) /\ a % TimeWidth <= a
        BY <1>0, <2>1
    <2> QED
        BY <2>2 DEF a
<1> HIDE DEF t
<1>3. dev' = [count |-> base.count + ops, time |-> t] /\ base.count + ops <= MaxCount
    BY DEF Works, t
<1>4. InRange(dev')
    <2>1. dev'.count \in 0..MaxCount /\ dev'.time \in 0..(TimeWidth - 1)
        BY <1>0, <1>1, <1>2, <1>3
    <2>2. dev'.count \in 0..(Width - 1) /\ dev'.time \in 0..(Width - 1)
        BY <1>0, <2>1
    <2>3. dev' \in Counters
        BY <1>3, <2>2 DEF Counters
    <2> QED
        BY <2>1, <2>3 DEF InRange
<1>5. work' = IF behind THEN [count |-> work.count + ops, time |-> work.time + time]
                        ELSE [count |-> ops, time |-> time]
    BY DEF Works
<1>6. work.count \in Nat /\ work.time \in Nat /\ behind \in BOOLEAN /\ Since
    BY DEF SampleInv
<1>7. work'.count \in Nat /\ work'.time \in Nat
    BY <1>0, <1>5, <1>6
<1>8. ASSUME prevDisk # None
      PROVE  /\ dev'.count <= prevDisk.count + work'.count
             /\ dev'.time <= prevDisk.time + work'.time
    <2>1. /\ prevDisk.count \in Nat /\ prevDisk.time \in Nat
          /\ dev.count \in Nat /\ dev.time \in Nat
          /\ dev.count <= prevDisk.count + (IF behind THEN work.count ELSE 0)
          /\ dev.time <= prevDisk.time + (IF behind THEN work.time ELSE 0)
        BY <1>0, <1>6, <1>8 DEF Since, InRange, SampleInv
    <2>2. dev'.count = base.count + ops /\ dev'.time <= base.time + time /\ dev'.time \in Nat
        BY <1>0, <1>1, <1>2, <1>3
    <2>3. CASE behind
        <3>1. work'.count = work.count + ops /\ work'.time = work.time + time
            BY <1>5, <2>3
        <3> QED
            BY <1>0, <1>1, <1>6, <2>1, <2>2, <2>3, <3>1
    <2>4. CASE ~behind
        <3>1. work'.count = ops /\ work'.time = time
            BY <1>5, <2>4
        <3> QED
            BY <1>0, <1>1, <2>1, <2>2, <2>4, <3>1
    <2> QED
        BY <2>3, <2>4
<1> QED
    BY <1>4, <1>7, <1>8

\* A difference of readings, as unsigned numbers.
LEMMA MinusIs ==
    ASSUME NEW a \in 0..(Width - 1), NEW b \in 0..(Width - 1)
    PROVE  Minus(a, b) \in Nat /\ (b <= a => Minus(a, b) = a - b)
<1>1. Width \in Nat \ {0}
    BY HostSamplerAssumption
<1>2. a - b \in Int
    BY <1>1
<1>3. Minus(a, b) \in 0..(Width - 1)
    BY <1>1, <1>2 DEF Minus
<1>4. ASSUME b <= a PROVE Minus(a, b) = a - b
    <2> DEFINE c == a - b
    <2>1. c \in 0..(Width - 1)
        BY <1>1, <1>4
    <2> HIDE DEF c
    <2>2. c % Width = c
        BY <1>1, <2>1
    <2> QED
        BY <2>2 DEF c, Minus
<1> QED
    BY <1>1, <1>3, <1>4

\* The rates between two readings.
LEMMA RatesOf ==
    ASSUME InRange(prevDisk), NEW cur, InRange(cur), NEW did, did.count \in Nat, did.time \in Nat,
           cur.count <= prevDisk.count + did.count, cur.time <= prevDisk.time + did.time
    PROVE  LET r == DiskRates(cur)
           IN  /\ r.iops \in Nat /\ r.lat \in Nat /\ r.iops <= did.count
               /\ (cur.count >= prevDisk.count /\ cur.time >= prevDisk.time => r.lat <= did.time)
<1> DEFINE ops == Minus(cur.count, prevDisk.count)
           span == Minus(cur.time, prevDisk.time)
           r == DiskRates(cur)
<1>1. /\ cur.count \in 0..(Width - 1) /\ cur.time \in 0..(Width - 1)
      /\ prevDisk.count \in 0..(Width - 1) /\ prevDisk.time \in 0..(Width - 1)
    BY DEF InRange, Counters
<1>2. ops \in Nat /\ span \in Nat
    BY <1>1, MinusIs
<1>3. cur.time >= prevDisk.time => span = cur.time - prevDisk.time
    BY <1>1, MinusIs, HostSamplerAssumption
<1> HIDE DEF ops, span
<1>4. r = [iops |-> Rate(cur.count, prevDisk.count), lat |-> IF ops > 0 THEN span \div ops ELSE 0]
    BY DEF DiskRates, ops, span
<1>5. r.iops = Rate(cur.count, prevDisk.count) /\ r.lat = IF ops > 0 THEN span \div ops ELSE 0
    BY <1>4
<1> HIDE DEF r
<1>6. r.iops \in Nat /\ r.iops <= did.count
    BY <1>1, <1>5, HostSamplerAssumption DEF Rate
<1>7. r.lat \in Nat /\ r.lat <= span
    <2>1. CASE ops > 0
        <3>1. ops \in Nat \ {0}
            BY <1>2, <2>1
        <3>2. span \div ops \in Nat /\ span \div ops <= span
            BY <1>2, <3>1, Quotient, QuotientAtMost
        <3> QED
            BY <1>5, <2>1, <3>2
    <2>2. CASE ~(ops > 0)
        BY <1>2, <1>5, <2>2
    <2> QED
        BY <2>1, <2>2
<1>8. cur.time >= prevDisk.time => r.lat <= did.time
    BY <1>1, <1>2, <1>3, <1>7, HostSamplerAssumption
<1> QED
    BY <1>6, <1>7, <1>8 DEF r

-----------------------------------------------------------------------------
(* The steps.                                                              *)

LEMMA CpuIs ==
    ASSUME NEW cpu \in CpuDeltas
    PROVE  LET c == CpuDeltaPct(cpu)
           IN  /\ \A f \in DOMAIN c : c[f] \in 0..100
               /\ c.user + c.system + c.steal <= c.total
               /\ c.total + c.iowait <= 100
<1>1. cpu \in [user : Nat, system : Nat, steal : Nat, other : Nat, idle : Nat, iowait : Nat]
    BY HostSamplerAssumption
<1>2. \A f \in {"user", "system", "steal", "other", "idle", "iowait"} : cpu[f] \in Nat
    BY <1>1
<1> QED
    BY <1>2, SharesOf

\* A sample with the device's counters.
LEMMA ReadKeeps ==
    ASSUME SampleInv, NEW base, base \in {dev, [count |-> 0, time |-> 0]}, NEW ops \in 0..MaxOps,
           NEW time \in 0..MaxOps, NEW cpu \in CpuDeltas, Works(base, ops, time), SampleHost(cpu)
    PROVE  SampleInv'
<1> DEFINE c == CpuDeltaPct(cpu)
           r == DiskRates(dev')
<1>1. /\ InRange(dev') /\ work'.count \in Nat /\ work'.time \in Nat
      /\ prevDisk # None => /\ dev'.count <= prevDisk.count + work'.count
                            /\ dev'.time <= prevDisk.time + work'.time
    BY WorksOn
<1>2. /\ \A f \in DOMAIN c : c[f] \in 0..100
      /\ c.user + c.system + c.steal <= c.total
      /\ c.total + c.iowait <= 100
    BY CpuIs
<1>3. /\ primed' = TRUE /\ prevDisk' = dev' /\ behind' = FALSE
      /\ back' = (prevDisk # None /\ (dev'.count < prevDisk.count \/ dev'.time < prevDisk.time))
      /\ out' = IF ~primed THEN None ELSE [cpu |-> c, disk |-> IF prevDisk = None THEN None ELSE r]
    BY DEF SampleHost
<1>4. prevDisk # None => /\ r.iops \in Nat /\ r.lat \in Nat /\ r.iops <= work'.count
                         /\ (~back' => r.lat <= work'.time)
    <2> SUFFICES ASSUME prevDisk # None
                 PROVE  /\ r.iops \in Nat /\ r.lat \in Nat /\ r.iops <= work'.count
                        /\ (~back' => r.lat <= work'.time)
        OBVIOUS
    <2>1. InRange(prevDisk)
        BY DEF SampleInv, Since
    <2>2. /\ r.iops \in Nat /\ r.lat \in Nat /\ r.iops <= work'.count
          /\ (dev'.count >= prevDisk.count /\ dev'.time >= prevDisk.time => r.lat <= work'.time)
        BY <1>1, <2>1, RatesOf
    <2>3. /\ dev'.count \in Int /\ dev'.time \in Int /\ prevDisk.count \in Int /\ prevDisk.time \in Int
        BY <1>1, <2>1, HostSamplerAssumption DEF InRange
    <2>4. ~back' => ~(dev'.count < prevDisk.count) /\ ~(dev'.time < prevDisk.time)
        BY DEF SampleHost
    <2> HIDE DEF r
    <2> QED
        BY <2>2, <2>3, <2>4
<1> HIDE DEF c, r
<1>5. out' # None => /\ out'.cpu = c
                     /\ out'.disk # None => out'.disk = r /\ prevDisk # None
    BY <1>3
<1>6. Since'
    <2>1. InRange(dev)'
        BY <1>1 DEF InRange, Counters
    <2>2. dev'.count \in Nat /\ dev'.time \in Nat
        BY <1>1, HostSamplerAssumption DEF InRange
    <2> QED
        BY <1>3, <2>1, <2>2 DEF Since, InRange, Counters
<1>7. OutOK' /\ RateIsDone' /\ LatencyIsReal' /\ SharesAddUp'
    BY <1>2, <1>4, <1>5 DEF OutOK, RateIsDone, LatencyIsReal, SharesAddUp, Disk
<1>8. InRange(dev)'
    BY <1>1 DEF InRange, Counters
<1>9. back' \in BOOLEAN
    BY <1>3
<1> QED
    BY <1>1, <1>3, <1>6, <1>7, <1>8, <1>9 DEF SampleInv

\* A sample that could not read them.
LEMMA FailKeeps ==
    ASSUME SampleInv, NEW ops \in 0..MaxOps, NEW time \in 0..MaxOps, NEW cpu \in CpuDeltas,
           Works(dev, ops, time), SampleWithoutDisk(cpu)
    PROVE  SampleInv'
<1> DEFINE c == CpuDeltaPct(cpu)
<1>1. /\ InRange(dev') /\ work'.count \in Nat /\ work'.time \in Nat
      /\ prevDisk # None => /\ dev'.count <= prevDisk.count + work'.count
                            /\ dev'.time <= prevDisk.time + work'.time
    BY WorksOn
<1>2. /\ \A f \in DOMAIN c : c[f] \in 0..100
      /\ c.user + c.system + c.steal <= c.total
      /\ c.total + c.iowait <= 100
    BY CpuIs
<1> HIDE DEF c
<1>3. /\ primed' = TRUE /\ behind' = TRUE /\ prevDisk' = prevDisk /\ back' = back
      /\ out' = IF ~primed THEN None ELSE [cpu |-> c, disk |-> None]
    BY DEF SampleWithoutDisk, c
<1>4. out' # None => out'.cpu = c /\ out'.disk = None
    BY <1>3
<1>5. OutOK' /\ RateIsDone' /\ LatencyIsReal' /\ SharesAddUp'
    BY <1>2, <1>4 DEF OutOK, RateIsDone, LatencyIsReal, SharesAddUp, Disk
<1>6. Since'
    <2>1. prevDisk # None => InRange(prevDisk)
        BY DEF SampleInv, Since
    <2>2. prevDisk' # None => InRange(prevDisk)'
        BY <1>3, <2>1 DEF InRange, Counters
    <2> QED
        BY <1>1, <1>3, <2>2 DEF Since
<1>7. InRange(dev)'
    BY <1>1 DEF InRange, Counters
<1>8. back' \in BOOLEAN
    BY <1>3 DEF SampleInv
<1> QED
    BY <1>1, <1>3, <1>5, <1>6, <1>7, <1>8 DEF SampleInv

LEMMA SampleStep == SampleInv /\ [SamplerNext]_samplerVars => SampleInv'
<1> SUFFICES ASSUME SampleInv, [SamplerNext]_samplerVars PROVE SampleInv'
    OBVIOUS
<1>1. CASE UNCHANGED samplerVars
    BY <1>1 DEF samplerVars, SampleInv, Since, InRange, Counters, OutOK, RateIsDone, LatencyIsReal,
       SharesAddUp, Disk
<1>2. CASE SamplerNext
    <2>1. PICK ops \in 0..MaxOps, time \in 0..MaxOps, cpu \in CpuDeltas :
              Interval(ops, time, cpu) \/ Replug(ops, time, cpu) \/ FailedProbe(ops, time, cpu)
        BY <1>2 DEF SamplerNext
    <2>2. CASE Interval(ops, time, cpu)
        BY <2>2, ReadKeeps DEF Interval
    <2>3. CASE Replug(ops, time, cpu)
        BY <2>3, ReadKeeps DEF Replug
    <2>4. CASE FailedProbe(ops, time, cpu)
        BY <2>4, FailKeeps DEF FailedProbe
    <2> QED
        BY <2>1, <2>2, <2>3, <2>4
<1> QED
    BY <1>1, <1>2

\* No figure of a host sample is more than the host did (sampler.go:93-165,
\* 426-456), for every width of the counters: whatever device was taken out and
\* put back between two readings, and however often they failed.
THEOREM FiguresAreReal == SamplerSpec => []RatesAreReal
<1>1. SampleInv => RatesAreReal
    <2> SUFFICES ASSUME SampleInv PROVE SamplerTypeOK
        BY DEF SampleInv, RatesAreReal
    <2> QED
        BY DEF SampleInv, SamplerTypeOK, Since, InRange, OutOK
<1> QED
    BY <1>1, SampleInit, SampleStep, PTL DEF SamplerSpec

-----------------------------------------------------------------------------
(***************************************************************************)
(* Proof that the events are what the rule says, that none is missed, and  *)
(* that an event is observed and gets the evidence there is.  First the    *)
(* sample lists: what thinning and the rings preserve.                     *)
(***************************************************************************)

LEMMA PointAt ==
    ASSUME NEW s \in Seq(Point), NEW i \in DOMAIN s
    PROVE  s[i] \in Point /\ s[i].ts \in Nat /\ s[i].v \in Nat
<1>1. s[i] \in Point
    OBVIOUS
<1> QED
    BY <1>1 DEF Point

\* Times that increase by steps of at least one.
LEMMA Rises ==
    ASSUME NEW s \in Seq(Point), Increasing(s), NEW i \in DOMAIN s, NEW j \in DOMAIN s, i <= j
    PROVE  s[i].ts + (j - i) <= s[j].ts
<1> DEFINE X == {n \in Nat : i + n <= Len(s) /\ ~(s[i].ts + n <= s[i + n].ts)}
<1>1. DOMAIN s = 1 .. Len(s) /\ Len(s) \in Nat /\ i \in Nat /\ j \in Nat /\ i >= 1
    OBVIOUS
<1>2. \A n \in DOMAIN s : s[n].ts \in Nat
    BY PointAt
<1>3. X = {}
    <2> SUFFICES ASSUME X # {} PROVE FALSE
        OBVIOUS
    <2>1. PICK n \in X : \A m \in X : n <= m
        <3>1. X \subseteq Nat
            OBVIOUS
        <3> HIDE DEF X
        <3> QED
            BY <3>1, LeastNumber
    <2>2. n \in Nat /\ i + n <= Len(s) /\ ~(s[i].ts + n <= s[i + n].ts)
        OBVIOUS
    <2>3. n # 0
        BY <1>1, <1>2, <2>2
    <2>4. n - 1 \in Nat /\ i + (n - 1) \in 1 .. (Len(s) - 1) /\ (i + (n - 1)) + 1 = i + n
        BY <1>1, <2>2, <2>3
    <2>5. (n - 1) \notin X
        <3> HIDE DEF X
        <3> QED
            BY <2>1, <2>2, <2>4
    <2>6. s[i].ts + (n - 1) <= s[i + (n - 1)].ts
        BY <2>4, <2>5
    <2>7. s[i + (n - 1)].ts < s[i + n].ts
        BY <2>4 DEF Increasing
    <2>8. i + (n - 1) \in DOMAIN s /\ i + n \in DOMAIN s
        BY <1>1, <2>2, <2>4
    <2>9. s[i].ts \in Nat /\ s[i + (n - 1)].ts \in Nat /\ s[i + n].ts \in Nat
        BY <1>2, <2>8
    <2> DEFINE a == s[i].ts
               b == s[i + (n - 1)].ts
               c == s[i + n].ts
    <2>10. a \in Nat /\ b \in Nat /\ c \in Nat /\ a + (n - 1) <= b /\ b < c /\ ~(a + n <= c)
        BY <2>2, <2>6, <2>7, <2>9
    <2> HIDE DEF a, b, c, X
    <2> QED
        BY <2>2, <2>10
<1>4. j - i \in Nat /\ i + (j - i) = j /\ j <= Len(s)
    BY <1>1
<1>5. (j - i) \notin X
    BY <1>3
<1> HIDE DEF X
<1>6. s[i].ts + (j - i) <= s[i + (j - i)].ts
    BY <1>4, <1>5 DEF X
<1> QED
    BY <1>4, <1>6

\* The places that thinning keeps.
ThinPlace(len, target, i) == 1 + ((i - 1) * len) \div target

LEMMA KeptPlaces ==
    ASSUME NEW len \in Nat, NEW target \in Nat \ {0}, len > target, NEW i \in 1 .. target
    PROVE  /\ ThinPlace(len, target, i) \in 1 .. len
           /\ ThinPlace(len, target, 1) = 1
           /\ i + 1 \in 1 .. target => ThinPlace(len, target, i) < ThinPlace(len, target, i + 1)
<1> DEFINE a == (i - 1) * len
           q == a \div target
<1>1. a \in Nat
    OBVIOUS
<1>2. q \in Nat /\ target * q <= a
    BY <1>1, Quotient
<1>3. a <= (target - 1) * len
    <2>1. i - 1 \in Nat /\ target - 1 \in Nat /\ i - 1 <= target - 1
        OBVIOUS
    <2>2. \A x, y, z \in Nat : x <= y => x * z <= y * z
        OBVIOUS
    <2> QED
        BY <2>1, <2>2
<1>4. q < len
    <2> SUFFICES ASSUME len <= q PROVE FALSE
        BY <1>2
    <2>1. target * len <= target * q
        <3>1. \A x, y, z \in Nat : x <= y => z * x <= z * y
            OBVIOUS
        <3> HIDE DEF q
        <3> QED
            BY <1>2, <3>1
    <2>2. (target - 1) * len = target * len - len
        OBVIOUS
    <2> HIDE DEF q, a
    <2>3. target * len \in Nat /\ target * q \in Nat
        BY <1>2
    <2> QED
        BY <1>1, <1>2, <1>3, <2>1, <2>2, <2>3
<1>5. ThinPlace(len, target, i) = 1 + q
    BY DEF ThinPlace
<1>6. ThinPlace(len, target, 1) = 1
    <2>1. (1 - 1) * len = 0
        OBVIOUS
    <2>2. 0 \div target = 0
        <3>1. 0 \div target \in Nat /\ target * (0 \div target) <= 0
            BY Quotient
        <3>2. \A x \in Nat \ {0}, y \in Nat : x * y <= 0 => y = 0
            OBVIOUS
        <3> QED
            BY <3>1, <3>2
    <2> QED
        BY <2>1, <2>2 DEF ThinPlace
<1>7. ThinPlace(len, target, i + 1) >= ThinPlace(len, target, i) + 1
    <2>1. ((i + 1) - 1) * len = a + len
        OBVIOUS
    <2>2. 1 <= len \div target
        <3>1. target * 1 <= len
            OBVIOUS
        <3> QED
            BY <3>1, QuotientFits
    <2>3. q + (len \div target) <= (a + len) \div target
        BY <1>1, QuotientSum
    <2>4. len \div target \in Nat /\ (a + len) \div target \in Nat
        BY <1>1, Quotient
    <2>5. ThinPlace(len, target, i + 1) = 1 + (a + len) \div target
        BY <2>1 DEF ThinPlace
    <2> HIDE DEF a, q
    <2> QED
        BY <1>2, <1>5, <2>2, <2>3, <2>4, <2>5
<1>8. 1 + q \in 1 .. len
    <2> HIDE DEF q
    <2> QED
        BY <1>2, <1>4
<1>9. ThinPlace(len, target, i) < ThinPlace(len, target, i + 1)
    <2>1. ThinPlace(len, target, i + 1) \in Nat
        <3>1. ((i + 1) - 1) * len \in Nat
            OBVIOUS
        <3>2. (((i + 1) - 1) * len) \div target \in Nat
            BY <3>1, Quotient
        <3> QED
            BY <3>2 DEF ThinPlace
    <2> HIDE DEF q
    <2> QED
        BY <1>2, <1>5, <1>7, <2>1
<1> QED
    BY <1>5, <1>6, <1>8, <1>9

\* Thinning a list: a part of it in its order, with its first sample.
LEMMA Thins ==
    ASSUME NEW s \in Seq(Point), NEW target \in Nat \ {0}
    PROVE  LET u == Decimate(s, target)
           IN  /\ u \in Seq(Point) /\ Len(u) <= target /\ Len(u) <= Len(s)
               /\ \A i \in DOMAIN u : \E j \in DOMAIN s : u[i] = s[j]
               /\ s # <<>> => u # <<>> /\ u[1] = s[1]
               /\ Increasing(s) => Increasing(u)
               /\ Len(s) <= target => u = s
<1> DEFINE u == Decimate(s, target)
<1>1. DOMAIN s = 1 .. Len(s) /\ Len(s) \in Nat
    OBVIOUS
<1>2. CASE Len(s) <= target
    <2>1. u = s
        BY <1>2 DEF Decimate
    <2> QED
        BY <1>2, <2>1
<1>3. CASE Len(s) > target
    <2>1. u = [i \in 1 .. target |-> s[ThinPlace(Len(s), target, i)]]
        BY <1>3 DEF Decimate, ThinPlace
    <2>2. \A i \in 1 .. target : /\ ThinPlace(Len(s), target, i) \in DOMAIN s
                                 /\ i + 1 \in 1 .. target =>
                                      ThinPlace(Len(s), target, i) < ThinPlace(Len(s), target, i + 1)
        BY <1>1, <1>3, KeptPlaces
    <2>3. ThinPlace(Len(s), target, 1) = 1
        <3>1. 1 \in 1 .. target
            OBVIOUS
        <3> QED
            BY <1>1, <1>3, <3>1, KeptPlaces
    <2>4. u \in [1 .. target -> Point]
        BY <2>1, <2>2
    <2>5. u \in Seq(Point) /\ Len(u) = target /\ DOMAIN u = 1 .. target
        BY <2>4
    <2>6. \A i \in 1 .. target : u[i] = s[ThinPlace(Len(s), target, i)]
        BY <2>1
    <2> HIDE DEF u
    <2>7. u # <<>> /\ u[1] = s[1]
        BY <2>3, <2>5, <2>6
    <2>8. ASSUME Increasing(s) PROVE Increasing(u)
        <3> SUFFICES ASSUME NEW i \in 1 .. (Len(u) - 1) PROVE u[i].ts < u[i + 1].ts
            BY DEF Increasing
        <3>1. i \in 1 .. target /\ i + 1 \in 1 .. target
            BY <2>5
        <3> DEFINE a == ThinPlace(Len(s), target, i)
                   b == ThinPlace(Len(s), target, i + 1)
        <3>2. a \in DOMAIN s /\ b \in DOMAIN s /\ a < b
            BY <2>2, <3>1
        <3>3. u[i] = s[a] /\ u[i + 1] = s[b]
            BY <2>6, <3>1
        <3> HIDE DEF a, b
        <3>4. s[a].ts + (b - a) <= s[b].ts
            BY <1>1, <2>8, <3>2, Rises
        <3>5. s[a].ts \in Nat /\ s[b].ts \in Nat /\ a \in Nat /\ b \in Nat
            BY <1>1, <3>2, PointAt
        <3> QED
            BY <3>2, <3>3, <3>4, <3>5
    <2> QED
        BY <1>3, <2>2, <2>5, <2>6, <2>7, <2>8 DEF u
<1> QED
    BY <1>1, <1>2, <1>3

\* A list that is appended to within its cap.
LEMMA CapsAppend ==
    ASSUME NEW s \in Seq(Point), NEW p \in Point, NEW cap \in Nat \ {0, 1}, Len(s) <= cap
    PROVE  LET u == AppendCapped(s, p, cap)
           IN  /\ u \in Seq(Point) /\ Len(u) <= cap /\ u # <<>> /\ Len(u) >= 1
               /\ \A i \in DOMAIN u : u[i] = p \/ \E j \in DOMAIN s : u[i] = s[j]
               /\ u[Len(u)] = p
               /\ s # <<>> => u[1] = s[1]
               /\ s = <<>> => u[1] = p
               /\ Increasing(s) /\ (\A i \in DOMAIN s : s[i].ts < p.ts) => Increasing(u)
<1> DEFINE half == cap \div 2
           t == IF Len(s) >= cap THEN Decimate(s, half) ELSE s
           u == AppendCapped(s, p, cap)
<1>1. half \in Nat \ {0} /\ half + 1 <= cap
    OBVIOUS
<1> HIDE DEF half
<1>2. /\ t \in Seq(Point) /\ Len(t) + 1 <= cap
      /\ \A i \in DOMAIN t : \E j \in DOMAIN s : t[i] = s[j]
      /\ s # <<>> => t # <<>> /\ t[1] = s[1]
      /\ Increasing(s) => Increasing(t)
      /\ s = <<>> => t = <<>>
    <2>1. CASE Len(s) >= cap
        <3>1. t = Decimate(s, half) /\ s # <<>>
            BY <2>1
        <3>2. Len(Decimate(s, half)) <= half /\ Len(Decimate(s, half)) \in Nat
            BY <1>1, Thins
        <3> QED
            BY <1>1, <3>1, <3>2, Thins
    <2>2. CASE ~(Len(s) >= cap)
        <3>1. t = s
            BY <2>2
        <3>2. Len(s) \in Nat /\ Len(s) + 1 <= cap
            BY <2>2
        <3> QED
            BY <3>1, <3>2
    <2> QED
        BY <2>1, <2>2
<1>3. u = Append(t, p)
    BY DEF AppendCapped, half
<1> HIDE DEF t
<1>4. /\ u \in Seq(Point) /\ Len(u) = Len(t) + 1 /\ u[Len(t) + 1] = p
      /\ \A i \in 1 .. Len(t) : u[i] = t[i]
      /\ DOMAIN u = 1 .. (Len(t) + 1) /\ Len(t) \in Nat /\ DOMAIN t = 1 .. Len(t)
    BY <1>2, <1>3
<1> HIDE DEF u
<1>5. u # <<>> /\ Len(u) >= 1 /\ Len(u) <= cap /\ u[Len(u)] = p
    BY <1>2, <1>4
<1>6. ASSUME NEW i \in DOMAIN u
      PROVE  u[i] = p \/ \E j \in DOMAIN s : u[i] = s[j]
    <2>1. CASE i = Len(t) + 1
        BY <1>4, <2>1
    <2>2. CASE i # Len(t) + 1
        <3>1. i \in DOMAIN t /\ u[i] = t[i]
            BY <1>4, <2>2
        <3> QED
            BY <1>2, <3>1
    <2> QED
        BY <2>1, <2>2
<1>7. s # <<>> => u[1] = s[1]
    <2>1. t # <<>> => 1 \in 1 .. Len(t)
        BY <1>2, <1>4
    <2> QED
        BY <1>2, <1>4, <2>1
<1>8. s = <<>> => u[1] = p
    <2>1. t = <<>> => Len(t) = 0
        OBVIOUS
    <2> QED
        BY <1>2, <1>4, <2>1
<1>9. ASSUME Increasing(s), \A i \in DOMAIN s : s[i].ts < p.ts
      PROVE  Increasing(u)
    <2> SUFFICES ASSUME NEW i \in 1 .. (Len(u) - 1) PROVE u[i].ts < u[i + 1].ts
        BY DEF Increasing
    <2>1. i \in 1 .. Len(t) /\ u[i] = t[i]
        BY <1>4
    <2>2. CASE i = Len(t)
        <3>1. u[i + 1] = p /\ i \in DOMAIN t
            BY <1>4, <2>1, <2>2
        <3> QED
            BY <1>2, <1>9, <2>1, <3>1
    <2>3. CASE i # Len(t)
        <3>1. i \in 1 .. (Len(t) - 1) /\ i + 1 \in 1 .. Len(t) /\ u[i + 1] = t[i + 1]
            <4>1. i + 1 \in 1 .. Len(t) /\ i \in 1 .. (Len(t) - 1)
                BY <1>4, <2>1, <2>3
            <4> QED
                BY <1>4, <4>1
        <3> QED
            BY <1>2, <1>9, <2>1, <3>1 DEF Increasing
    <2> QED
        BY <2>2, <2>3
<1> QED
    BY <1>4, <1>5, <1>6, <1>7, <1>8, <1>9 DEF u

\* The latest n entries of a list of len are those after the first of it.
Passed(len, n) == IF len <= n THEN 0 ELSE len - n

LEMMA LatestPlaces ==
    ASSUME NEW S, NEW a \in Seq(S), NEW n \in Nat
    PROVE  LET u == Latest(a, n)
               d == Passed(Len(a), n)
           IN  /\ d \in Nat /\ u \in Seq(S) /\ d <= Len(a)
               /\ Len(u) = Len(a) - d
               /\ \A x : x \in DOMAIN u <=> x \in 1 .. (Len(a) - d)
               /\ \A i \in 1 .. (Len(a) - d) : d + i \in DOMAIN a /\ u[i] = a[d + i]
<1> DEFINE u == Latest(a, n)
           d == Passed(Len(a), n)
           l == Len(a)
           m == MaxOf(1, l - n + 1)
<1>1. l \in Nat /\ (\A x : x \in DOMAIN a <=> x \in 1 .. l) /\ \A i \in 1 .. l : a[i] \in S
    OBVIOUS
<1>2. d = (IF l <= n THEN 0 ELSE l - n) /\ d \in Nat
    BY <1>1 DEF Passed
<1>3. u = SubSeq(a, m, l)
    BY DEF Latest
<1> HIDE DEF l, d
<1>4. m = d + 1
    <2>1. 1 > l - n + 1 => l <= n
        BY <1>1
    <2>2. ~(1 > l - n + 1) => l - n + 1 = d + 1
        BY <1>1, <1>2
    <2> QED
        BY <1>1, <1>2, <2>1, <2>2 DEF MaxOf
<1> HIDE DEF m, u
<1>5. d <= l /\ \A i \in m .. l : a[i] \in S
    BY <1>1, <1>2, <1>4
<1>6. /\ SubSeq(a, m, l) \in Seq(S)
      /\ Len(SubSeq(a, m, l)) = IF m <= l THEN l - m + 1 ELSE 0
      /\ \A i \in 1 .. (l - m + 1) : SubSeq(a, m, l)[i] = a[m + i - 1]
    <2>1. m \in Int /\ l \in Int
        BY <1>1, <1>4
    <2> QED
        BY <1>5, <2>1, SubSeqProperties
<1>7. u \in Seq(S) /\ Len(u) = l - d
               /\ \A x : x \in DOMAIN u <=> x \in 1 .. (l - d)
    <2>1. (IF m <= l THEN l - m + 1 ELSE 0) = l - d
        BY <1>1, <1>2, <1>4, <1>5
    <2>2. Len(u) = l - d
        BY <1>3, <1>6, <2>1
    <2> QED
        BY <1>3, <1>6, <2>2
<1>8. ASSUME NEW i \in 1 .. (l - d)
      PROVE  d + i \in DOMAIN a /\ u[i] = a[d + i]
    <2>1. i \in 1 .. (l - m + 1) /\ m + i - 1 = d + i /\ d + i \in 1 .. l
        BY <1>1, <1>2, <1>4, <1>5
    <2> QED
        BY <1>1, <1>3, <1>6, <2>1
<1> QED
    BY <1>2, <1>5, <1>7, <1>8 DEF l, d, u

\* A ring of at most n entries that takes one more: the new one is its last,
\* and no other is lost but the oldest of a full ring.
LEMMA RingTakes ==
    ASSUME NEW S, NEW s \in Seq(S), NEW p \in S, NEW n \in Nat \ {0}, Len(s) <= n
    PROVE  LET u == Latest(Append(s, p), n)
           IN  /\ u \in Seq(S) /\ Len(u) \in Nat \ {0} /\ Len(u) <= n
               /\ \A x : x \in DOMAIN u <=> x \in 1 .. Len(u)
               /\ u[Len(u)] = p
               /\ Len(s) < n => Len(u) = Len(s) + 1
               /\ Len(s) = n => Len(u) = n
<1> DEFINE a == Append(s, p)
           d == Passed(Len(a), n)
           u == Latest(a, n)
<1>1. /\ a \in Seq(S) /\ Len(a) = Len(s) + 1 /\ a[Len(s) + 1] = p
      /\ Len(s) \in Nat /\ \A x : x \in DOMAIN s <=> x \in 1 .. Len(s)
      /\ \A i \in 1 .. Len(s) : a[i] = s[i]
    BY AppendProperties
<1> HIDE DEF a
<1>2. d \in Nat /\ d = (IF Len(a) <= n THEN 0 ELSE Len(a) - n)
    BY <1>1 DEF Passed
<1> HIDE DEF d
<1>3. /\ u \in Seq(S) /\ Len(u) = Len(a) - d
               /\ \A x : x \in DOMAIN u <=> x \in 1 .. (Len(a) - d)
      /\ \A i \in 1 .. (Len(a) - d) : u[i] = a[d + i]
    <2>1. a \in Seq(S) /\ n \in Nat
        BY <1>1
    <2> QED
        BY <2>1, LatestPlaces DEF d
<1> HIDE DEF u
<1>4. Len(s) < n => d = 0
    BY <1>1, <1>2
<1>5. Len(s) = n => d = 1
    BY <1>1, <1>2
<1>6. Len(s) < n \/ Len(s) = n
    BY <1>1
<1>7. Len(u) \in Nat \ {0} /\ Len(u) <= n /\ u[Len(u)] = p
    <2>1. CASE d = 0
        BY <1>1, <1>3, <1>4, <1>5, <1>6, <2>1
    <2>2. CASE d = 1
        BY <1>1, <1>3, <1>4, <1>5, <1>6, <2>2
    <2> QED
        BY <1>4, <1>5, <1>6, <2>1, <2>2
<1>8. Len(s) < n => Len(u) = Len(s) + 1
    BY <1>1, <1>3, <1>4
<1>9. Len(s) = n => Len(u) = n
    BY <1>1, <1>3, <1>5
<1> QED
    BY <1>3, <1>7, <1>8, <1>9 DEF u, a

\* The others keep their order.
LEMMA RingHolds ==
    ASSUME NEW S, NEW s \in Seq(S), NEW p \in S, NEW n \in Nat \ {0}, Len(s) <= n, NEW i \in DOMAIN s
    PROVE  /\ Len(s) < n => Latest(Append(s, p), n)[i] = s[i]
           /\ Len(s) = n /\ i # 1 => Latest(Append(s, p), n)[i - 1] = s[i]
<1> DEFINE a == Append(s, p)
           d == Passed(Len(a), n)
           u == Latest(a, n)
<1>1. /\ a \in Seq(S) /\ Len(a) = Len(s) + 1 /\ Len(s) \in Nat
      /\ \A x : x \in DOMAIN s <=> x \in 1 .. Len(s)
      /\ \A j \in 1 .. Len(s) : a[j] = s[j]
    BY AppendProperties
<1>2. i \in 1 .. Len(s) /\ a[i] = s[i]
    BY <1>1
<1> HIDE DEF a
<1>3. (Len(s) < n => d = 0) /\ (Len(s) = n => d = 1)
    BY <1>1 DEF Passed
<1> HIDE DEF d
<1>4. \A j \in 1 .. (Len(a) - d) : u[j] = a[d + j]
    <2>1. a \in Seq(S) /\ n \in Nat
        BY <1>1
    <2> QED
        BY <2>1, LatestPlaces DEF d
<1> HIDE DEF u
<1>5. ASSUME Len(s) < n PROVE u[i] = s[i]
    <2>1. i \in 1 .. (Len(a) - d) /\ d + i = i
        BY <1>1, <1>2, <1>3, <1>5
    <2> QED
        BY <1>2, <1>4, <2>1
<1>6. ASSUME Len(s) = n, i # 1 PROVE u[i - 1] = s[i]
    <2>1. i - 1 \in 1 .. (Len(a) - d) /\ d + (i - 1) = i
        BY <1>1, <1>2, <1>3, <1>6
    <2> QED
        BY <1>2, <1>4, <2>1
<1> QED
    BY <1>5, <1>6 DEF u, a

\* Any list that is cut to its latest entries has no others.
FromEither(s, p, y) == y = p \/ \E j \in DOMAIN s : y = s[j]

LEMMA LatestFrom ==
    ASSUME NEW S, NEW s \in Seq(S), NEW p \in S, NEW n \in Nat
    PROVE  /\ Latest(Append(s, p), n) \in Seq(S)
           /\ \A i \in DOMAIN Latest(Append(s, p), n) : FromEither(s, p, Latest(Append(s, p), n)[i])
<1> DEFINE a == Append(s, p)
           d == Passed(Len(a), n)
           u == Latest(a, n)
<1>1. /\ a \in Seq(S) /\ Len(a) = Len(s) + 1 /\ Len(s) \in Nat /\ a[Len(s) + 1] = p
      /\ \A x : x \in DOMAIN a <=> x \in 1 .. (Len(s) + 1)
      /\ \A x : x \in DOMAIN s <=> x \in 1 .. Len(s)
      /\ \A i \in 1 .. Len(s) : a[i] = s[i]
    BY AppendProperties
<1> HIDE DEF a
<1>2. d \in Nat /\ d = (IF Len(a) <= n THEN 0 ELSE Len(a) - n)
    BY <1>1 DEF Passed
<1> HIDE DEF d
<1>3. /\ u \in Seq(S) /\ \A x : x \in DOMAIN u <=> x \in 1 .. (Len(a) - d)
      /\ \A i \in 1 .. (Len(a) - d) : d + i \in DOMAIN a /\ u[i] = a[d + i]
    <2>1. a \in Seq(S) /\ n \in Nat
        BY <1>1
    <2> QED
        BY <2>1, LatestPlaces DEF d
<1> HIDE DEF u
<1>4. ASSUME NEW i \in DOMAIN u
      PROVE  FromEither(s, p, u[i])
    <2>1. d + i \in DOMAIN a /\ u[i] = a[d + i]
        BY <1>3
    <2>2. d + i = Len(s) + 1 \/ d + i \in DOMAIN s
        BY <1>1, <2>1
    <2> QED
        BY <1>1, <2>1, <2>2 DEF FromEither
<1> QED
    BY <1>3, <1>4 DEF u, a

\* A ring of samples stays in the order of time.
LEMMA RingKeeps ==
    ASSUME NEW s \in Seq(Point), NEW p \in Point, NEW n \in Nat \ {0}, Len(s) <= n,
           Increasing(s), \A i \in DOMAIN s : s[i].ts < p.ts
    PROVE  Increasing(Latest(Append(s, p), n))
<1> DEFINE u == Latest(Append(s, p), n)
<1>0. Len(s) \in Nat /\ \A x : x \in DOMAIN s <=> x \in 1 .. Len(s)
    OBVIOUS
<1>1. /\ Len(u) \in Nat \ {0} /\ u[Len(u)] = p
      /\ Len(s) < n => Len(u) = Len(s) + 1
      /\ Len(s) = n => Len(u) = n
    BY RingTakes
<1>4. \A i \in DOMAIN s : Len(s) < n => u[i] = s[i]
    BY RingHolds
<1>5. \A i \in DOMAIN s : Len(s) = n /\ i # 1 => u[i - 1] = s[i]
    BY RingHolds
<1> HIDE DEF u
<1> SUFFICES ASSUME NEW i \in 1 .. (Len(u) - 1) PROVE u[i].ts < u[i + 1].ts
    BY DEF Increasing, u
<1>2. CASE Len(s) < n
    <2>1. Len(u) = Len(s) + 1 /\ i \in DOMAIN s
        BY <1>0, <1>1, <1>2
    <2>2. CASE i = Len(s)
        BY <1>0, <1>1, <1>2, <1>4, <2>1, <2>2
    <2>3. CASE i # Len(s)
        <3>1. i \in 1 .. (Len(s) - 1) /\ i + 1 \in DOMAIN s
            BY <1>0, <2>1, <2>3
        <3> QED
            BY <1>2, <1>4, <2>1, <3>1 DEF Increasing
    <2> QED
        BY <2>2, <2>3
<1>3. CASE Len(s) = n
    <2>1. i + 1 \in DOMAIN s /\ i + 1 # 1 /\ (i + 1) - 1 = i
        BY <1>0, <1>1, <1>3
    <2>2. u[i] = s[i + 1]
        BY <1>3, <1>5, <2>1
    <2>3. CASE i = n - 1
        BY <1>1, <1>3, <2>1, <2>2, <2>3
    <2>4. CASE i # n - 1
        <3>1. /\ i + 1 \in 1 .. (Len(s) - 1) /\ (i + 1) + 1 \in DOMAIN s
              /\ (i + 1) + 1 # 1 /\ ((i + 1) + 1) - 1 = i + 1
            BY <1>0, <1>1, <1>3, <2>4
        <3>2. u[i + 1] = s[(i + 1) + 1]
            BY <1>3, <1>5, <3>1
        <3> QED
            BY <2>2, <3>1, <3>2 DEF Increasing
    <2> QED
        BY <2>3, <2>4
<1> QED
    BY <1>0, <1>1, <1>2, <1>3

-----------------------------------------------------------------------------
(* The baseline is a number, so that a threshold is one.                   *)

\* There is an i-th smallest of at least i numbers.
LEMMA NthIs ==
    ASSUME NEW s \in Seq(Nat), NEW i \in 1 .. Len(s)
    PROVE  Nth(s, i) \in Nat
<1> DEFINE below(v) == {j \in DOMAIN s : s[j] < v}
           upto(v) == {j \in DOMAIN s : s[j] <= v}
           X == {v \in Range(s) : i <= Cardinality(upto(v))}
<1>1. DOMAIN s = 1 .. Len(s) /\ Len(s) \in Nat /\ \A j \in DOMAIN s : s[j] \in Nat
    OBVIOUS
<1>2. Range(s) \subseteq Nat
    BY <1>1 DEF Range
<1>3. IsFiniteSet(DOMAIN s) /\ Cardinality(DOMAIN s) = Len(s)
    BY <1>1, FS_Interval
<1>4. \A v : IsFiniteSet(below(v)) /\ IsFiniteSet(upto(v))
             /\ Cardinality(below(v)) \in Nat /\ Cardinality(upto(v)) \in Nat
    <2>1. \A v : below(v) \subseteq DOMAIN s /\ upto(v) \subseteq DOMAIN s
        OBVIOUS
    <2> HIDE DEF below, upto
    <2>2. \A v : IsFiniteSet(below(v)) /\ IsFiniteSet(upto(v))
        BY <1>3, <2>1, FS_Subset
    <2> QED
        BY <2>2, FS_CardinalityType
<1>5. Range(s) # {} /\ IsFiniteSet(Range(s))
    <2>1. s[1] \in Range(s)
        BY <1>1 DEF Range
    <2>2. s \in Surjection(DOMAIN s, Range(s))
        <3>1. s \in [DOMAIN s -> Range(s)]
            BY <1>1 DEF Range
        <3>2. \A t \in Range(s) : \E x \in DOMAIN s : s[x] = t
            BY DEF Range
        <3> QED
            BY <3>1, <3>2 DEF Surjection
    <2>3. IsFiniteSet(Range(s))
        BY <1>3, <2>2, FS_Surjection
    <2> QED
        BY <2>1, <2>3
\* Not more than the greatest are all of them.
<1>6. X # {}
    <2> DEFINE g == Max(Range(s))
    <2>1. g \in Range(s) /\ \A x \in Range(s) : x <= g
        <3>1. Range(s) \subseteq Int
            BY <1>2
        <3> QED
            BY <1>5, <3>1, MaxIsGreatest
    <2> HIDE DEF g
    <2>2. upto(g) = DOMAIN s
        BY <2>1 DEF Range
    <2> QED
        BY <1>1, <1>3, <2>1, <2>2
<1>7. PICK v \in X : \A w \in X : v <= w
    <2>1. X \subseteq Nat
        BY <1>2
    <2> HIDE DEF X
    <2> QED
        BY <1>6, <2>1, LeastNumber
<1>8. v \in Range(s) /\ v \in Nat /\ i <= Cardinality(upto(v))
    BY <1>2, <1>7
\* Those below the least such number are those up to a smaller one.
<1>9. Cardinality(below(v)) < i
    <2>0. Cardinality(below(v)) \in Nat
        BY <1>4
    <2> SUFFICES ASSUME i <= Cardinality(below(v)) PROVE FALSE
        <3> HIDE DEF below
        <3> QED
            BY <2>0
    <2> DEFINE Y == {w \in Range(s) : w < v}
               g == Max(Y)
    <2>1. Y # {}
        <3> SUFFICES ASSUME Y = {} PROVE FALSE
            OBVIOUS
        <3>1. below(v) = {}
            BY DEF Range
        <3>2. Cardinality(below(v)) = 0
            <4> HIDE DEF below
            <4> QED
                BY <3>1, FS_EmptySet
        <3> QED
            BY <3>2
    <2>2. IsFiniteSet(Y) /\ Y \subseteq Int
        <3>1. Y \subseteq Range(s)
            OBVIOUS
        <3> QED
            BY <1>2, <1>5, <3>1, FS_Subset
    <2>3. g \in Y /\ \A x \in Y : x <= g
        <3> HIDE DEF Y
        <3> QED
            BY <2>1, <2>2, MaxIsGreatest
    <2> HIDE DEF g
    <2>4. upto(g) = below(v)
        <3>1. g \in Nat /\ g < v /\ g \in Range(s)
            BY <1>2, <2>3
        <3>2. \A j \in DOMAIN s : s[j] < v => s[j] \in Y
            BY DEF Range
        <3>3. \A j \in DOMAIN s : s[j] <= g => s[j] < v
            BY <1>1, <1>8, <3>1
        <3> HIDE DEF Y
        <3> QED
            BY <2>3, <3>2, <3>3
    <2>5. g \in X
        BY <2>3, <2>4
    <2>6. v <= g /\ g < v /\ g \in Nat
        <3> HIDE DEF X, below, upto
        <3> QED
            BY <1>2, <1>7, <2>3, <2>5
    <2> QED
        BY <1>8, <2>6
<1>10. Nth(s, i) = CHOOSE w \in Range(s) : Cardinality(below(w)) < i /\ i <= Cardinality(upto(w))
    BY DEF Nth
<1> HIDE DEF below, upto
<1>11. Nth(s, i) \in Range(s)
    BY <1>8, <1>9, <1>10
<1> QED
    BY <1>2, <1>11

LEMMA MedianNat ==
    ASSUME NEW s \in Seq(Nat)
    PROVE  Median(s) \in Nat
<1>1. CASE s = <<>>
    BY <1>1 DEF Median
<1>2. CASE s # <<>>
    <2>1. Len(s) \in Nat \ {0}
        BY <1>2
    <2> DEFINE a == (Len(s) + 1) \div 2
               b == Len(s) \div 2 + 1
    <2>2. a \in 1 .. Len(s) /\ b \in 1 .. Len(s)
        BY <2>1
    <2> HIDE DEF a, b
    <2>3. Nth(s, a) \in Nat /\ Nth(s, b) \in Nat
        BY <2>2, NthIs
    <2>4. (Nth(s, a) + Nth(s, b)) \div 2 \in Nat
        BY <2>3
    <2> QED
        BY <1>2, <2>4 DEF Median, a, b
<1> QED
    BY <1>1, <1>2

LEMMA DeviationsNat ==
    ASSUME NEW s \in Seq(Nat)
    PROVE  Deviations(s) \in Seq(Nat)
<1> DEFINE m == Median(s)
           d == [i \in DOMAIN s |-> IF s[i] < m THEN m - s[i] ELSE s[i] - m]
<1>1. m \in Nat
    BY MedianNat
<1>2. DOMAIN s = 1 .. Len(s) /\ Len(s) \in Nat /\ \A i \in DOMAIN s : s[i] \in Nat
    OBVIOUS
<1> HIDE DEF m
<1>3. \A i \in DOMAIN s : (IF s[i] < m THEN m - s[i] ELSE s[i] - m) \in Nat
    BY <1>1, <1>2
<1>4. d \in [1 .. Len(s) -> Nat]
    BY <1>2, <1>3
<1>5. Deviations(s) = d
    BY DEF Deviations, m
<1> QED
    BY <1>2, <1>4, <1>5

-----------------------------------------------------------------------------
(* What one more sample changes of what is known of a set X of samples, up *)
(* to the time t: of a climb, of a stretch, of a peak, of the first sample *)
(* after a moment.                                                         *)

Known(X, t) == \A x \in X : x.ts \in Nat /\ x.ts > 0 /\ x.ts <= t /\ x.v \in Nat /\ x.above \in BOOLEAN

Arrives(x, t) == x.ts \in Nat /\ x.ts > t /\ x.v \in Nat /\ x.above \in BOOLEAN

AllAbove(X, from, to) == \A x \in X : from <= x.ts /\ x.ts <= to => x.above
AllBelow(X, from, to) == \A x \in X : from <= x.ts /\ x.ts <= to => ~x.above

\* A climb that has been followed since a moment: all of it is above, it is
\* shorter than n, and no longer one lies outside the cooldown.
Climbs(X, since, cool, n) ==
    /\ since # NoTime => \A x \in X : since <= x.ts => x.above /\ x.ts - since < n
    /\ Cooldown > 0 =>
         \A a \in X : cool <= a.ts /\ (\A x \in X : a.ts <= x.ts => x.above)
                         => since # NoTime /\ since <= a.ts

\* AboveSince in terms of the sample.
ClimbSince(since, cool, x) ==
    IF ~x.above \/ x.ts < cool THEN NoTime ELSE IF since = NoTime THEN x.ts ELSE since

LEMMA KnownGrows ==
    ASSUME NEW X, NEW t \in Nat, Known(X, t), NEW x, Arrives(x, t)
    PROVE  Known(X \cup {x}, x.ts)
BY DEF Known, Arrives

LEMMA SpansStay ==
    ASSUME NEW X, NEW t \in Nat, Known(X, t), NEW x, Arrives(x, t), NEW from \in Nat, NEW to \in Nat, to <= t
    PROVE  /\ AllAbove(X, from, to) => AllAbove(X \cup {x}, from, to)
           /\ AllBelow(X, from, to) => AllBelow(X \cup {x}, from, to)
BY DEF Known, Arrives, AllAbove, AllBelow

LEMMA ClimbIs ==
    ASSUME NEW X, NEW t \in Nat, Known(X, t), NEW x, Arrives(x, t),
           NEW since \in Nat, since <= t, NEW cool \in Nat, NEW n \in Nat, Climbs(X, since, cool, n)
    PROVE  LET q == ClimbSince(since, cool, x)
           IN  /\ q \in Nat /\ q <= x.ts
               /\ q # NoTime => AllAbove(X \cup {x}, q, x.ts)
               /\ q = NoTime \/ x.ts - q < n => Climbs(X \cup {x}, q, cool, n)
<1> DEFINE q == ClimbSince(since, cool, x)
           Y == X \cup {x}
<1>0. \A y \in X : y.ts \in Nat /\ y.ts > 0 /\ y.ts <= t
    BY DEF Known
<1>1. x.ts \in Nat /\ x.ts > t
    BY DEF Arrives
<1>2. q \in Nat /\ q <= x.ts /\ (q = NoTime \/ q = since \/ q = x.ts)
    BY <1>1 DEF ClimbSince, NoTime
<1>3. q # NoTime => x.above /\ x.ts >= cool /\ (since = NoTime => q = x.ts) /\ (since # NoTime => q = since)
    BY <1>1 DEF ClimbSince
<1>4. q = NoTime => ~x.above \/ x.ts < cool
    BY <1>1 DEF ClimbSince, NoTime
<1> HIDE DEF q
<1>5. ASSUME q # NoTime PROVE AllAbove(Y, q, x.ts)
    <2> SUFFICES ASSUME NEW y \in Y, q <= y.ts PROVE y.above
        BY DEF AllAbove
    <2>1. CASE y = x
        BY <1>3, <1>5, <2>1
    <2>2. CASE y \in X
        BY <1>0, <1>1, <1>3, <1>5, <2>2 DEF Climbs
    <2> QED
        BY <2>1, <2>2
<1>6. ASSUME q = NoTime \/ x.ts - q < n PROVE Climbs(Y, q, cool, n)
    <2>1. ASSUME q # NoTime, NEW y \in Y, q <= y.ts PROVE y.above /\ y.ts - q < n
        <3>1. CASE y = x
            BY <1>3, <1>6, <2>1, <3>1
        <3>2. CASE y \in X
            BY <1>0, <1>1, <1>3, <2>1, <3>2 DEF Climbs
        <3> QED
            BY <3>1, <3>2
    <2>2. ASSUME Cooldown > 0, NEW a \in Y, cool <= a.ts, \A y \in Y : a.ts <= y.ts => y.above
          PROVE  q # NoTime /\ q <= a.ts
        <3>1. a.ts \in Nat /\ a.ts <= x.ts
            BY <1>0, <1>1
        <3>2. x.above /\ x.ts >= cool /\ q # NoTime
            BY <1>1, <1>4, <2>2, <3>1
        <3>3. CASE a = x
            BY <1>2, <3>2, <3>3
        <3>4. CASE a \in X
            <4>1. since # NoTime /\ since <= a.ts
                BY <2>2, <3>4 DEF Climbs
            <4> QED
                BY <1>3, <3>2, <4>1
        <3> QED
            BY <3>3, <3>4
    <2> QED
        BY <2>1, <2>2 DEF Climbs
<1> QED
    BY <1>2, <1>5, <1>6 DEF q

\* The samples in the ring, and among them those of the climb when the ring is
\* longer than it.
RingOf(X, since, n, cap, r) ==
    /\ r \in Seq(Point) /\ Len(r) <= cap /\ Increasing(r)
    /\ \A i \in DOMAIN r : \E x \in X : x.ts = r[i].ts
    /\ since # NoTime /\ n < cap =>
         \A x \in X : since <= x.ts => \E i \in DOMAIN r : r[i].ts = x.ts

LEMMA RingGrows ==
    ASSUME NEW X, NEW t \in Nat, Known(X, t), NEW x, Arrives(x, t),
           NEW since \in Nat, since <= t, NEW cool \in Nat, NEW n \in Nat, Climbs(X, since, cool, n),
           NEW cap \in Nat \ {0}, NEW r, RingOf(X, since, n, cap, r), NEW p \in Point, p.ts = x.ts
    PROVE  RingOf(X \cup {x}, ClimbSince(since, cool, x), n, cap, Latest(Append(r, p), cap))
<1> DEFINE q == ClimbSince(since, cool, x)
           u == Latest(Append(r, p), cap)
<1>0. cap \in Nat \ {0}
    OBVIOUS
<1>1. r \in Seq(Point) /\ Len(r) <= cap /\ Increasing(r)
    BY DEF RingOf
<1>2. Len(r) \in Nat /\ \A i : i \in DOMAIN r <=> i \in 1 .. Len(r)
    BY <1>1
<1>3. x.ts \in Nat /\ x.ts > t /\ p.ts = x.ts
    BY DEF Arrives
<1>4. \A y \in X : y.ts \in Nat /\ y.ts > 0 /\ y.ts <= t
    BY DEF Known
<1>5. \A i \in DOMAIN r : \E y \in X : y.ts = r[i].ts
    BY DEF RingOf
<1>6. \A i \in DOMAIN r : r[i].ts < p.ts
    BY <1>3, <1>4, <1>5
<1>7. Increasing(u)
    BY <1>0, <1>1, <1>6, RingKeeps
<1>8. /\ u \in Seq(Point) /\ Len(u) \in Nat \ {0} /\ Len(u) <= cap /\ u[Len(u)] = p
      /\ Len(r) < cap => Len(u) = Len(r) + 1
      /\ Len(r) = cap => Len(u) = cap
    <2>1. r \in Seq(Point)
        BY <1>1
    <2>2. Len(r) <= cap
        BY <1>1
    <2> QED
        BY <1>0, <2>1, <2>2, RingTakes
<1>9. \A i : i \in DOMAIN u <=> i \in 1 .. Len(u)
    BY <1>8
<1>10. \A i \in DOMAIN u : FromEither(r, p, u[i])
    BY <1>0, <1>1, LatestFrom
<1>14. \A i \in DOMAIN r : /\ Len(r) < cap => u[i] = r[i]
                           /\ Len(r) = cap /\ i # 1 => u[i - 1] = r[i]
    BY <1>1, RingHolds
<1> HIDE DEF u, q
<1>11. \A i \in DOMAIN u : \E y \in X \cup {x} : y.ts = u[i].ts
    BY <1>3, <1>5, <1>10 DEF FromEither
<1>12. ASSUME q # NoTime, n < cap, NEW y \in X \cup {x}, q <= y.ts
       PROVE  \E i \in DOMAIN u : u[i].ts = y.ts
    <2>1. CASE y = x
        <3>1. Len(u) \in DOMAIN u
            BY <1>8, <1>9
        <3> QED
            BY <1>3, <1>8, <2>1, <3>1
    <2>2. CASE y \in X
        <3>1. since # NoTime /\ q = since
            BY <1>3, <1>4, <1>12, <2>2 DEF q, ClimbSince, NoTime
        <3>2. PICK j \in DOMAIN r : r[j].ts = y.ts
            BY <1>12, <2>2, <3>1 DEF RingOf
        <3>3. CASE Len(r) < cap
            <4>1. j \in DOMAIN u
                BY <1>2, <1>8, <1>9, <3>3
            <4> QED
                BY <1>14, <3>2, <3>3, <4>1
        <3>4. CASE Len(r) = cap
            \* The oldest entry of the full ring is not of the climb.
            <4>1. j # 1
                <5> SUFFICES ASSUME j = 1 PROVE FALSE
                    OBVIOUS
                <5>1. cap \in DOMAIN r /\ 1 \in DOMAIN r
                    BY <1>0, <1>2, <3>4
                <5>2. r[1].ts + (cap - 1) <= r[cap].ts
                    BY <1>0, <1>1, <5>1, Rises
                <5>3. PICK z \in X : z.ts = r[cap].ts
                    BY <1>5, <5>1
                <5>4. y.ts + (cap - 1) <= z.ts /\ since <= y.ts /\ y.ts \in Nat /\ z.ts \in Nat
                    BY <1>4, <1>12, <2>2, <3>1, <3>2, <5>2, <5>3
                <5>5. z.ts - since < n
                    BY <1>0, <3>1, <5>4 DEF Climbs
                <5> QED
                    BY <1>0, <1>12, <5>4, <5>5
            <4>2. j - 1 \in DOMAIN u
                BY <1>0, <1>2, <1>8, <1>9, <3>4, <4>1
            <4>3. u[j - 1] = r[j]
                BY <1>14, <3>4, <4>1
            <4> QED
                BY <3>2, <4>2, <4>3
        <3> QED
            BY <1>0, <1>1, <1>2, <3>3, <3>4
    <2> QED
        BY <2>1, <2>2
<1>13. RingOf(X \cup {x}, q, n, cap, u)
    BY <1>7, <1>8, <1>11, <1>12 DEF RingOf
<1> QED
    BY <1>13 DEF q, u

\* The highest value of a stretch.
Peaks(X, from, to, peak) ==
    /\ \E x \in X : from <= x.ts /\ x.ts <= to /\ x.v = peak
    /\ \A x \in X : from <= x.ts /\ x.ts <= to => x.v <= peak

LEMMA PeakGrows ==
    ASSUME NEW X, NEW t \in Nat, Known(X, t), NEW x, Arrives(x, t), NEW from \in Nat, from <= t,
           NEW peak \in Nat, Peaks(X, from, t, peak)
    PROVE  Peaks(X \cup {x}, from, x.ts, MaxOf(peak, x.v)) /\ MaxOf(peak, x.v) \in Nat
<1> DEFINE m == MaxOf(peak, x.v)
<1>1. x.ts \in Nat /\ x.ts > t /\ x.v \in Nat
    BY DEF Arrives
<1>2. \A y \in X : y.ts \in Nat /\ y.ts <= t /\ y.v \in Nat
    BY DEF Known
<1>3. m \in Nat /\ m >= peak /\ m >= x.v /\ (m = peak \/ m = x.v)
    BY <1>1 DEF MaxOf
<1> HIDE DEF m
<1>4. PICK y \in X : from <= y.ts /\ y.ts <= t /\ y.v = peak
    BY DEF Peaks
<1>5. \E z \in X \cup {x} : from <= z.ts /\ z.ts <= x.ts /\ z.v = m
    <2>1. CASE m = peak
        BY <1>1, <1>2, <1>4, <2>1
    <2>2. CASE m = x.v
        BY <1>1, <2>2
    <2> QED
        BY <1>3, <2>1, <2>2
<1>6. ASSUME NEW z \in X \cup {x}, from <= z.ts, z.ts <= x.ts
      PROVE  z.v <= m
    <2>1. CASE z = x
        BY <1>3, <2>1
    <2>2. CASE z \in X
        <3>1. z.v <= peak /\ z.v \in Nat
            BY <1>2, <1>6, <2>2 DEF Peaks
        <3> QED
            BY <1>3, <3>1
    <2> QED
        BY <2>1, <2>2
<1> QED
    BY <1>3, <1>5, <1>6 DEF Peaks, m

LEMMA PeakStays ==
    ASSUME NEW X, NEW t \in Nat, Known(X, t), NEW x, Arrives(x, t), NEW from \in Nat,
           NEW to \in Nat, to <= t, NEW peak, Peaks(X, from, to, peak)
    PROVE  Peaks(X \cup {x}, from, to, peak)
<1>1. x.ts \in Nat /\ x.ts > to
    BY DEF Arrives
<1>2. \A y \in X \cup {x} : from <= y.ts /\ y.ts <= to => y \in X
    BY <1>1
<1> QED
    BY <1>2 DEF Peaks

\* How a stretch is left: since b the value is below, for less than the closing
\* delay; b is the first such moment, and no quiet stretch before it was as long.
Before(X, b) == \A x \in X : x.ts < b /\ (\A y \in X : ~(x.ts < y.ts /\ y.ts < b)) => x.above

NoLull(X, from, to) ==
    \A a, c \in X : from <= a.ts /\ c.ts < to /\ AllBelow(X, a.ts, c.ts) => c.ts - a.ts < CloseBelow

Falls(X, from, to, b) ==
    /\ b # NoTime => /\ from < b /\ Before(X, b)
                     /\ \A x \in X : b <= x.ts => ~x.above
    /\ b = NoTime => \A x \in X : (\A y \in X : y.ts <= x.ts) => x.above
    /\ \A a \in X : from <= a.ts /\ (\A x \in X : a.ts <= x.ts => ~x.above) => b # NoTime /\ b <= a.ts
    /\ NoLull(X, from, to + 1)

LEMMA BeforeStays ==
    ASSUME NEW X, NEW t \in Nat, Known(X, t), NEW x, Arrives(x, t), NEW b \in Nat, b <= t, Before(X, b)
    PROVE  Before(X \cup {x}, b)
<1>1. x.ts \in Nat /\ x.ts > b
    BY DEF Arrives
<1> SUFFICES ASSUME NEW z \in X \cup {x}, z.ts < b, \A y \in X \cup {x} : ~(z.ts < y.ts /\ y.ts < b)
             PROVE  z.above
    BY DEF Before
<1>2. z \in X
    BY <1>1
<1> QED
    BY <1>2 DEF Before

LEMMA LullStays ==
    ASSUME NEW X, NEW t \in Nat, Known(X, t), NEW x, Arrives(x, t), NEW from \in Nat, NEW to \in Nat,
           to <= t + 1, NoLull(X, from, to)
    PROVE  NoLull(X \cup {x}, from, to)
<1>1. x.ts \in Nat /\ x.ts >= to
    BY DEF Arrives
<1> SUFFICES ASSUME NEW a \in X \cup {x}, NEW c \in X \cup {x}, from <= a.ts, c.ts < to,
                    AllBelow(X \cup {x}, a.ts, c.ts)
             PROVE  c.ts - a.ts < CloseBelow
    BY DEF NoLull
<1>2. c \in X
    BY <1>1
<1>3. AllBelow(X, a.ts, c.ts)
    BY DEF AllBelow
<1>4. CloseBelow \in Nat
    BY DetectorAssumption DEF DetectorAssumption
<1>5. CASE a = x
    <2>1. c.ts \in Nat /\ c.ts <= t
        BY <1>2 DEF Known
    <2>2. c.ts - a.ts < 0
        BY <1>1, <1>5, <2>1 DEF Arrives
    <2> QED
        BY <1>1, <1>4, <1>5, <2>1, <2>2
<1>6. CASE a \in X
    BY <1>2, <1>3, <1>6 DEF NoLull
<1> QED
    BY <1>5, <1>6

\* BelowSince in terms of the sample.
FallSince(b, x) == IF x.above THEN NoTime ELSE IF b = NoTime THEN x.ts ELSE b

\* The value has been below for long enough to close.
LongBelow(b, x) == ~x.above /\ x.ts - FallSince(b, x) >= CloseBelow

LEMMA FallIs ==
    ASSUME NEW X, NEW t \in Nat, Known(X, t), NEW x, Arrives(x, t), NEW from \in Nat, from <= t,
           NEW b \in Nat, b <= t, Falls(X, from, t, b)
    PROVE  LET q == FallSince(b, x)
           IN  /\ q \in Nat /\ q <= x.ts
               /\ ~LongBelow(b, x) => Falls(X \cup {x}, from, x.ts, q)
               /\ LongBelow(b, x) => /\ q > from /\ AllBelow(X \cup {x}, q, x.ts) /\ x.ts - q >= CloseBelow
                                     /\ Before(X \cup {x}, q) /\ NoLull(X \cup {x}, from, x.ts)
<1> DEFINE q == FallSince(b, x)
           Y == X \cup {x}
<1>0. CloseBelow \in Nat
    BY DetectorAssumption DEF DetectorAssumption
<1>1. x.ts \in Nat /\ x.ts > t /\ x.above \in BOOLEAN
    BY DEF Arrives
<1>2. \A y \in X : y.ts \in Nat /\ y.ts > 0 /\ y.ts <= t
    BY DEF Known
<1>3. /\ q \in Nat /\ q <= x.ts
      /\ x.above => q = NoTime
      /\ ~x.above => q # NoTime /\ (b = NoTime => q = x.ts) /\ (b # NoTime => q = b)
    BY <1>1 DEF FallSince, NoTime
<1>4. LongBelow(b, x) <=> ~x.above /\ x.ts - q >= CloseBelow
    BY DEF LongBelow
<1> HIDE DEF q
<1>5. ASSUME ~x.above
      PROVE  q > from /\ (\A y \in Y : q <= y.ts => ~y.above) /\ Before(Y, q)
    <2>1. CASE b = NoTime
        <3>1. q = x.ts
            BY <1>3, <1>5, <2>1
        <3>2. \A y \in Y : q <= y.ts => ~y.above
            BY <1>1, <1>2, <1>5, <3>1
        <3>3. ASSUME NEW z \in Y, z.ts < q, \A y \in Y : ~(z.ts < y.ts /\ y.ts < q) PROVE z.above
            <4>1. z \in X
                BY <1>1, <3>1, <3>3
            <4>2. \A y \in X : y.ts <= z.ts
                BY <1>1, <1>2, <3>1, <3>3, <4>1
            <4> QED
                BY <2>1, <4>1, <4>2 DEF Falls
        <3> QED
            BY <1>1, <3>1, <3>2, <3>3 DEF Before
    <2>2. CASE b # NoTime
        <3>1. q = b /\ from < b /\ Before(X, b) /\ \A y \in X : b <= y.ts => ~y.above
            BY <1>3, <1>5, <2>2 DEF Falls
        <3>2. Before(Y, b)
            BY <3>1, BeforeStays
        <3> QED
            BY <1>5, <3>1, <3>2
    <2> QED
        BY <2>1, <2>2
<1>6. NoLull(Y, from, t + 1)
    <2>1. NoLull(X, from, t + 1)
        BY DEF Falls
    <2> QED
        BY <2>1, LullStays
<1>7. NoLull(Y, from, x.ts)
    <2> SUFFICES ASSUME NEW a \in Y, NEW c \in Y, from <= a.ts, c.ts < x.ts, AllBelow(Y, a.ts, c.ts)
                 PROVE  c.ts - a.ts < CloseBelow
        BY DEF NoLull
    <2>1. c.ts < t + 1
        BY <1>1, <1>2
    <2> QED
        BY <1>6, <2>1 DEF NoLull
<1>8. ASSUME NEW a \in Y, from <= a.ts, \A y \in Y : a.ts <= y.ts => ~y.above
      PROVE  q # NoTime /\ q <= a.ts
    <2>1. ~x.above
        BY <1>1, <1>2, <1>8
    <2>2. CASE a = x
        BY <1>3, <2>1, <2>2
    <2>3. CASE a \in X
        <3>1. b # NoTime /\ b <= a.ts
            BY <1>8, <2>3 DEF Falls
        <3> QED
            BY <1>3, <2>1, <3>1
    <2> QED
        BY <2>2, <2>3
<1>9. ASSUME ~LongBelow(b, x) PROVE Falls(Y, from, x.ts, q)
    <2>1. q # NoTime => from < q /\ Before(Y, q) /\ \A y \in Y : q <= y.ts => ~y.above
        BY <1>3, <1>5
    <2>2. ASSUME q = NoTime, NEW z \in Y, \A y \in Y : y.ts <= z.ts PROVE z.above
        <3>1. x.ts <= z.ts
            BY <2>2
        <3>2. z = x
            BY <1>1, <1>2, <3>1
        <3> QED
            BY <1>3, <2>2, <3>2
    <2>3. NoLull(Y, from, x.ts + 1)
        <3> SUFFICES ASSUME NEW a \in Y, NEW c \in Y, from <= a.ts, c.ts < x.ts + 1, AllBelow(Y, a.ts, c.ts)
                     PROVE  c.ts - a.ts < CloseBelow
            BY DEF NoLull
        <3>0. a.ts \in Nat /\ c.ts \in Nat /\ a.ts <= x.ts
            BY <1>1, <1>2
        <3>1. CASE c = x
            <4>1. \A y \in Y : a.ts <= y.ts => ~y.above
                BY <1>1, <1>2, <3>1 DEF AllBelow
            <4>2. q # NoTime /\ q <= a.ts
                BY <1>8, <4>1
            <4>3. ~x.above
                BY <1>3, <4>2
            <4> QED
                BY <1>0, <1>1, <1>3, <1>4, <1>9, <3>0, <3>1, <4>2, <4>3
        <3>2. CASE c # x
            <4>1. c.ts < x.ts
                BY <1>1, <1>2, <3>2
            <4> QED
                BY <1>7, <4>1 DEF NoLull
        <3> QED
            BY <3>1, <3>2
    <2> QED
        BY <1>8, <2>1, <2>2, <2>3 DEF Falls
<1>10. ASSUME LongBelow(b, x) PROVE q > from /\ AllBelow(Y, q, x.ts) /\ x.ts - q >= CloseBelow /\ Before(Y, q)
    <2>1. ~x.above /\ x.ts - q >= CloseBelow
        BY <1>4, <1>10
    <2> QED
        BY <1>5, <2>1 DEF AllBelow
<1> QED
    BY <1>3, <1>7, <1>9, <1>10 DEF q

\* A list of samples of the times from < ts <= to.
ListOf(list, cap, from, to) ==
    /\ list \in Seq(Point) /\ Len(list) <= cap /\ Increasing(list)
    /\ \A i \in DOMAIN list : from < list[i].ts /\ list[i].ts <= to

\* It begins with the first sample after its moment.
FirstIs(X, from, list) ==
    IF list = <<>> THEN \A x \in X : x.ts <= from
    ELSE \E x \in X : from < x.ts /\ x.ts = list[1].ts /\ \A y \in X : from < y.ts => x.ts <= y.ts

LEMMA ListGrows ==
    ASSUME NEW list, NEW cap \in Nat \ {0, 1}, NEW from \in Nat, NEW to \in Nat, from <= to,
           ListOf(list, cap, from, to), NEW p \in Point, p.ts > to
    PROVE  LET u == AppendCapped(list, p, cap)
           IN  ListOf(u, cap, from, p.ts) /\ u # <<>> /\ u[Len(u)] = p
<1> DEFINE u == AppendCapped(list, p, cap)
<1>0. p.ts \in Nat
    BY DEF Point
<1>1. list \in Seq(Point)
    BY DEF ListOf
<1>2. Len(list) <= cap /\ Increasing(list)
    BY DEF ListOf
<1>3. \A i \in DOMAIN list : list[i].ts \in Nat /\ from < list[i].ts /\ list[i].ts <= to
    BY <1>1, PointAt DEF ListOf
<1>4. \A i \in DOMAIN list : list[i].ts < p.ts
    BY <1>0, <1>3
<1>5. /\ u \in Seq(Point) /\ Len(u) <= cap /\ u # <<>> /\ u[Len(u)] = p
      /\ \A i \in DOMAIN u : u[i] = p \/ \E j \in DOMAIN list : u[i] = list[j]
      /\ Increasing(u)
    <2> HIDE DEF u
    <2>1. u = AppendCapped(list, p, cap)
        BY DEF u
    <2> QED
        BY ONLY cap \in Nat \ {0, 1}, p \in Point, <1>1, <1>2, <1>4, <2>1, CapsAppend
<1> HIDE DEF u
<1>6. ASSUME NEW i \in DOMAIN u PROVE from < u[i].ts /\ u[i].ts <= p.ts
    <2>1. CASE u[i] = p
        BY <1>0, <2>1
    <2>2. CASE \E j \in DOMAIN list : u[i] = list[j]
        BY <1>0, <1>3, <2>2
    <2> QED
        BY <1>5, <2>1, <2>2
<1>7. ListOf(u, cap, from, p.ts)
    BY <1>5, <1>6 DEF ListOf
<1> QED
    BY <1>5, <1>7 DEF u

LEMMA FirstStays ==
    ASSUME NEW X, NEW t \in Nat, Known(X, t), NEW x, Arrives(x, t), NEW from \in Nat, from <= t,
           NEW list, list # <<>>, FirstIs(X, from, list)
    PROVE  FirstIs(X \cup {x}, from, list)
<1>1. PICK z \in X : from < z.ts /\ z.ts = list[1].ts /\ \A y \in X : from < y.ts => z.ts <= y.ts
    BY DEF FirstIs
<1>2. z.ts \in Nat /\ z.ts <= t /\ x.ts \in Nat /\ x.ts > t
    BY DEF Known, Arrives
<1>3. \A y \in X \cup {x} : from < y.ts => z.ts <= y.ts
    BY <1>1, <1>2
<1> QED
    BY <1>1, <1>3 DEF FirstIs

LEMMA FirstGrows ==
    ASSUME NEW X, NEW t \in Nat, Known(X, t), NEW x, Arrives(x, t), NEW from \in Nat, from <= t,
           NEW cap \in Nat \ {0, 1}, NEW list \in Seq(Point), Len(list) <= cap, FirstIs(X, from, list),
           NEW p \in Point, p.ts = x.ts
    PROVE  FirstIs(X \cup {x}, from, AppendCapped(list, p, cap))
<1> DEFINE u == AppendCapped(list, p, cap)
<1>1. u # <<>> /\ (list # <<>> => u[1] = list[1]) /\ (list = <<>> => u[1] = p)
    BY CapsAppend
<1> HIDE DEF u
<1>2. CASE list = <<>>
    <2>1. \A y \in X : y.ts <= from /\ y.ts \in Nat
        BY <1>2 DEF FirstIs, Known
    <2>2. x.ts > from /\ x.ts \in Nat
        BY DEF Arrives
    <2>3. \A y \in X \cup {x} : from < y.ts => x.ts <= y.ts
        BY <2>1, <2>2
    <2>4. FirstIs(X \cup {x}, from, u)
        BY <1>1, <1>2, <2>2, <2>3 DEF FirstIs
    <2> QED
        BY <2>4 DEF u
<1>3. CASE list # <<>>
    <2>1. FirstIs(X \cup {x}, from, list)
        BY <1>3, FirstStays
    <2>2. FirstIs(X \cup {x}, from, u)
        BY <1>1, <1>3, <2>1 DEF FirstIs
    <2> QED
        BY <2>2 DEF u
<1> QED
    BY <1>2, <1>3

-----------------------------------------------------------------------------
(* The events.                                                             *)

LEMMA RuleNat ==
    ASSUME NEW k \in Keys
    PROVE  Rule[k].static \in Nat /\ Rule[k].sustained \in Nat /\ Rule[k].k \in Nat /\ Rule[k].floor \in Nat
BY DetectorAssumption DEF DetectorAssumption

LEMMA SizesNat ==
    /\ PreCap \in Nat \ {0} /\ MaxPre \in Nat \ {0}
    /\ MaxDuring \in Nat \ {0, 1} /\ MaxPost \in Nat \ {0, 1}
    /\ CloseBelow \in Nat /\ PostCapture \in Nat /\ Cooldown \in Nat
    /\ BaselineWindow \in Nat /\ BaselineMinSamples \in Nat /\ RecomputeEvery \in Nat
BY DetectorAssumption DEF DetectorAssumption

\* How an event of k began, in terms of the samples X of k.
Began(k, e, X) ==
    /\ e \in Event /\ e.key = k
    /\ e.start > 0 /\ e.start <= e.opened /\ e.opened - e.start >= Rule[k].sustained
    /\ AllAbove(X, e.start, e.opened)
    /\ ListOf(e.pre, MaxPre, -1, e.opened)
    /\ Rule[k].sustained < PreCap /\ PreCap <= MaxPre =>
         \A x \in X : e.start <= x.ts /\ x.ts <= e.opened => \E i \in DOMAIN e.pre : e.pre[i].ts = x.ts

\* How it goes at time t, and has been below since b.
GoesOn(e, X, t, b) ==
    /\ e.opened <= t /\ e.end = NoTime /\ e.closing = NoTime /\ e.finished = NoTime /\ e.post = <<>>
    /\ Peaks(X, e.opened, t, e.peak)
    /\ ListOf(e.during, MaxDuring, e.opened, t) /\ FirstIs(X, e.opened, e.during)
    /\ Falls(X, e.opened, t, b)

\* How it ended.
HasEnded(e, X, t) ==
    /\ e.opened < e.end /\ e.end <= e.closing /\ e.closing <= t
    /\ AllBelow(X, e.end, e.closing) /\ e.closing - e.end >= CloseBelow
    /\ Before(X, e.end) /\ NoLull(X, e.opened, e.closing)
    /\ Peaks(X, e.opened, e.closing, e.peak)
    /\ ListOf(e.during, MaxDuring, e.opened, e.closing) /\ FirstIs(X, e.opened, e.during)
    /\ e.during # <<>> /\ e.during[Len(e.during)].ts = e.closing
    /\ ListOf(e.post, MaxPost, e.closing, t)

LEMMA EventTypes ==
    ASSUME NEW e \in Event
    PROVE  /\ e.key \in Keys /\ e.start \in Nat /\ e.end \in Nat /\ e.peak \in Nat /\ e.threshold \in Int
           /\ e.pre \in Seq(Point) /\ e.during \in Seq(Point) /\ e.post \in Seq(Point)
           /\ e.opened \in Nat /\ e.closing \in Nat /\ e.finished \in Nat
           /\ DOMAIN e = EventFields
BY DEF Event, EventFields

\* A later sample changes neither.
LEMMA BeganStays ==
    ASSUME NEW X, NEW t \in Nat, Known(X, t), NEW x, Arrives(x, t), NEW k, NEW e,
           Began(k, e, X), e.opened <= t
    PROVE  Began(k, e, X \cup {x})
<1>1. e.start \in Nat /\ e.opened \in Nat
    BY EventTypes DEF Began
<1>2. AllAbove(X \cup {x}, e.start, e.opened)
    BY <1>1, SpansStay DEF Began
<1>3. x.ts > e.opened /\ x.ts \in Nat
    BY <1>1 DEF Arrives
<1>4. \A y \in X \cup {x} : e.start <= y.ts /\ y.ts <= e.opened => y \in X
    BY <1>1, <1>3
<1> QED
    BY <1>2, <1>4 DEF Began

LEMMA ListUpTo ==
    ASSUME NEW list, NEW cap, NEW from, NEW to \in Nat, NEW t \in Nat, to <= t, ListOf(list, cap, from, to)
    PROVE  ListOf(list, cap, from, t)
<1>1. list \in Seq(Point)
    BY DEF ListOf
<1>2. \A i \in DOMAIN list : list[i].ts \in Nat
    BY <1>1, PointAt
<1> QED
    BY <1>2 DEF ListOf

LEMMA EndedStays ==
    ASSUME NEW X, NEW t \in Nat, Known(X, t), NEW x, Arrives(x, t), NEW e \in Event, HasEnded(e, X, t)
    PROVE  HasEnded(e, X \cup {x}, x.ts)
<1>1. /\ e.opened \in Nat /\ e.end \in Nat /\ e.closing \in Nat /\ x.ts \in Nat /\ x.ts > t
      /\ e.opened < e.end /\ e.end <= e.closing /\ e.closing <= t
    BY EventTypes DEF HasEnded, Arrives
<1>2. e.opened <= t /\ e.end <= t /\ e.closing <= t + 1 /\ t <= x.ts /\ e.closing <= x.ts
    BY <1>1
<1>3. AllBelow(X \cup {x}, e.end, e.closing)
    BY <1>1, <1>2, SpansStay DEF HasEnded
<1>4. Before(X \cup {x}, e.end)
    BY <1>1, <1>2, BeforeStays DEF HasEnded
<1>5. NoLull(X \cup {x}, e.opened, e.closing)
    BY <1>1, <1>2, LullStays DEF HasEnded
<1>6. Peaks(X \cup {x}, e.opened, e.closing, e.peak)
    BY <1>1, <1>2, PeakStays DEF HasEnded
<1>7. FirstIs(X \cup {x}, e.opened, e.during)
    BY <1>1, <1>2, FirstStays DEF HasEnded
<1>8. ListOf(e.post, MaxPost, e.closing, x.ts)
    BY <1>1, <1>2, ListUpTo DEF HasEnded
<1> QED
    BY <1>1, <1>2, <1>3, <1>4, <1>5, <1>6, <1>7, <1>8 DEF HasEnded

-----------------------------------------------------------------------------
(* One series: what is known of it at time t, in terms of the samples X.   *)

SeriesTyped(s) ==
    /\ DOMAIN s = Fields
    /\ s.hist \in Seq(Point) /\ s.baseline \in Nat /\ s.mad \in Nat
    /\ s.phase \in Phases
    /\ s.aboveSince \in Nat /\ s.belowSince \in Nat /\ s.cooldownTill \in Nat /\ s.postUntil \in Nat

\* The climb that is followed, if one is.
FollowedSince(s) == IF s.phase = "none" THEN s.aboveSince ELSE NoTime

SeriesHolds(k, s, X, t) ==
    /\ RingOf(X, FollowedSince(s), Rule[k].sustained, PreCap, s.pre)
    /\ s.phase = "none" =>
         /\ s.ev = <<>> /\ s.aboveSince <= t
         /\ Climbs(X, s.aboveSince, s.cooldownTill, Rule[k].sustained)
    /\ s.phase # "none" => Began(k, s.ev, X) /\ s.ev.opened <= t
    /\ s.phase = "during" => s.belowSince <= t /\ GoesOn(s.ev, X, t, s.belowSince)
    /\ s.phase = "post" => /\ s.ev.finished = NoTime /\ HasEnded(s.ev, X, t)
                           /\ s.postUntil = s.ev.closing + PostCapture

\* No sample of an event is in the baseline but those of its climb.
BaselineHolds(s, t) ==
    /\ \A i \in DOMAIN s.hist : s.hist[i].ts <= t
    /\ s.phase # "none" => \A i \in DOMAIN s.hist : s.hist[i].ts <= s.ev.opened

Unmoved(s, r) ==
    /\ r.phase = s.phase /\ r.ev = s.ev /\ r.pre = s.pre
    /\ r.aboveSince = s.aboveSince /\ r.belowSince = s.belowSince
    /\ r.cooldownTill = s.cooldownTill /\ r.postUntil = s.postUntil

LEMMA BaselinedIs ==
    ASSUME NEW s, SeriesTyped(s), NEW p \in Point
    PROVE  LET r == Baselined(s, p)
           IN  /\ SeriesTyped(r) /\ Unmoved(s, r)
               /\ \A i \in DOMAIN r.hist : FromEither(s.hist, p, r.hist[i])
               /\ s.phase # "none" => r = s
<1> DEFINE h == Latest(Append(s.hist, p), BaselineWindow)
           vals == [i \in DOMAIN h |-> h[i].v]
           med == Median(vals)
           spread == Median(Deviations(vals))
           A == [s EXCEPT !.hist = h, !.baseAge = 0, !.baseline = med, !.mad = spread]
           B == [s EXCEPT !.hist = h, !.baseAge = @ + 1]
           From(l) == \A i \in DOMAIN l : FromEither(s.hist, p, l[i])
<1>1. (s.phase # "none" /\ Baselined(s, p) = s) \/ Baselined(s, p) = A \/ Baselined(s, p) = B
    BY DEF Baselined
<1>2. s.phase # "none" => Baselined(s, p) = s
    BY DEF Baselined
<1>3. s.hist \in Seq(Point) /\ BaselineWindow \in Nat
    BY SizesNat DEF SeriesTyped
<1>4. h \in Seq(Point) /\ From(h)
    <2> DEFINE l == s.hist
               n == BaselineWindow
               w == Latest(Append(l, p), n)
    <2>1. l \in Seq(Point) /\ n \in Nat
        BY <1>3
    <2> HIDE DEF l, n
    <2>2. w \in Seq(Point) /\ \A i \in DOMAIN w : FromEither(l, p, w[i])
        BY <2>1, LatestFrom
    <2> QED
        BY <2>2 DEF l, n
<1> HIDE DEF h
<1>5. vals \in Seq(Nat)
    <2>1. Len(h) \in Nat /\ DOMAIN h = 1 .. Len(h)
        BY <1>4
    <2>2. \A i \in DOMAIN h : h[i].v \in Nat
        BY <1>4, PointAt
    <2>3. vals \in [1 .. Len(h) -> Nat]
        BY <2>1, <2>2
    <2> QED
        BY <2>1, <2>3
<1> HIDE DEF vals
<1>6. med \in Nat /\ spread \in Nat
    BY <1>5, MedianNat, DeviationsNat
<1>7. From(s.hist)
    BY DEF FromEither
<1> HIDE DEF med, spread, From
<1>8. SeriesTyped(A) /\ Unmoved(s, A) /\ A.hist = h
    BY <1>4, <1>6, FieldNames DEF SeriesTyped, Unmoved
<1>9. SeriesTyped(B) /\ Unmoved(s, B) /\ B.hist = h
    BY <1>4, FieldNames DEF SeriesTyped, Unmoved
<1>10. Unmoved(s, s)
    BY DEF Unmoved
<1> HIDE DEF A, B
<1>11. SeriesTyped(Baselined(s, p)) /\ Unmoved(s, Baselined(s, p)) /\ From(Baselined(s, p).hist)
    BY <1>1, <1>4, <1>7, <1>8, <1>9, <1>10
<1> QED
    BY <1>2, <1>11 DEF From

LEMMA ThresholdIs ==
    ASSUME NEW k \in Keys, NEW s, SeriesTyped(s)
    PROVE  EffectiveThreshold(k, s) \in Int /\ EffectiveThreshold(k, s) <= Rule[k].static
<1> DEFINE sigma == MadToSigma(s.mad)
           bt == MaxOf(Rule[k].floor, s.baseline + Rule[k].k * sigma)
<1>1. s.baseline \in Nat /\ s.mad \in Nat
    BY DEF SeriesTyped
<1>2. Rule[k].static \in Nat /\ Rule[k].k \in Nat /\ Rule[k].floor \in Nat
    BY RuleNat
<1>3. (14826 * s.mad) \div 10000 \in Nat
    BY <1>1, Quotient
<1>4. sigma \in Nat
    BY <1>3 DEF MadToSigma, MaxOf
<1> HIDE DEF sigma
<1>5. Rule[k].k * sigma \in Nat
    BY <1>2, <1>4
<1>6. bt \in Int
    BY <1>1, <1>2, <1>5 DEF MaxOf
<1> HIDE DEF bt
<1>7. (EffectiveThreshold(k, s) = bt /\ bt < Rule[k].static) \/ EffectiveThreshold(k, s) = Rule[k].static
    BY DEF EffectiveThreshold, bt, sigma
<1> QED
    BY <1>2, <1>6, <1>7

\* The event that a sample opens.
LEMMA OpenedIs ==
    ASSUME NEW k \in Keys, NEW s, SeriesTyped(s), s.pre \in Seq(Point), NEW p \in Point
    PROVE  LET e == Opened(k, s, p)
           IN  /\ e \in Event /\ e.key = k /\ e.start = s.aboveSince /\ e.end = NoTime /\ e.peak = p.v
               /\ e.pre = Decimate(s.pre, MaxPre) /\ e.during = <<>> /\ e.post = <<>>
               /\ e.opened = p.ts /\ e.closing = NoTime /\ e.finished = NoTime
<1> DEFINE e == Opened(k, s, p)
           th == EffectiveThreshold(k, s)
           tr == IF EffectiveThreshold(k, s) < Rule[k].static THEN "baseline_deviation" ELSE "static"
           pre == Decimate(s.pre, MaxPre)
<1>1. p.ts \in Nat /\ p.v \in Nat /\ s.aboveSince \in Nat
    BY DEF Point, SeriesTyped
<1>2. pre \in Seq(Point)
    BY SizesNat, Thins
<1>3. th \in Int
    BY ThresholdIs
<1>4. tr \in {"static", "baseline_deviation"}
    OBVIOUS
<1>5. e = [key |-> k, start |-> s.aboveSince, end |-> NoTime, peak |-> p.v, threshold |-> th,
           trigger |-> tr, pre |-> pre, during |-> <<>>, post |-> <<>>,
           opened |-> p.ts, closing |-> NoTime, finished |-> NoTime]
    BY DEF Opened
<1>6. <<>> \in Seq(Point) /\ NoTime \in Nat
    BY DEF NoTime
<1> HIDE DEF e, th, tr, pre
<1>7. e \in Event
    BY <1>1, <1>2, <1>3, <1>4, <1>5, <1>6 DEF Event
<1> QED
    BY <1>5, <1>7 DEF e, pre

-----------------------------------------------------------------------------
(* One sample of one series.                                               *)

LEMMA EmptyList ==
    ASSUME NEW cap \in Nat, NEW from, NEW to
    PROVE  ListOf(<<>>, cap, from, to)
<1>1. <<>> \in Seq(Point) /\ Len(<<>>) = 0
    OBVIOUS
<1>2. DOMAIN <<>> = {}
    OBVIOUS
<1>3. Increasing(<<>>)
    BY <1>1 DEF Increasing
<1> QED
    BY <1>1, <1>2, <1>3 DEF ListOf

\* The sample that opens an event, as far as the event is about what follows.
LEMMA OpeningSample ==
    ASSUME NEW X, NEW t \in Nat, Known(X, t), NEW x, Arrives(x, t), x.above
    PROVE  LET Y == X \cup {x}
           IN  /\ Peaks(Y, x.ts, x.ts, x.v)
               /\ FirstIs(Y, x.ts, <<>>)
               /\ Falls(Y, x.ts, x.ts, NoTime)
<1> DEFINE Y == X \cup {x}
<1>0. CloseBelow \in Nat
    BY SizesNat
<1>1. x.ts \in Nat /\ x.ts > t /\ x.v \in Nat
    BY DEF Arrives
<1>2. \A y \in X : y.ts \in Nat /\ y.ts <= t
    BY DEF Known
<1>3. \A y \in Y : y.ts \in Nat /\ y.ts <= x.ts /\ (x.ts <= y.ts => y = x)
    BY <1>1, <1>2
<1>4. x \in Y
    OBVIOUS
<1> HIDE DEF Y
<1>5. Peaks(Y, x.ts, x.ts, x.v)
    <2>1. \A y \in Y : x.ts <= y.ts => y.v <= x.v
        BY <1>1, <1>3
    <2> QED
        BY <1>1, <1>4, <2>1 DEF Peaks
<1>6. FirstIs(Y, x.ts, <<>>)
    BY <1>3 DEF FirstIs
<1>7. \A z \in Y : (\A y \in Y : y.ts <= z.ts) => z.above
    BY <1>3, <1>4
<1>8. \A a \in Y : x.ts <= a.ts => ~(\A y \in Y : a.ts <= y.ts => ~y.above)
    BY <1>1, <1>3, <1>4
<1>9. NoLull(Y, x.ts, x.ts + 1)
    <2> SUFFICES ASSUME NEW a \in Y, NEW c \in Y, x.ts <= a.ts, AllBelow(Y, a.ts, c.ts)
                 PROVE  c.ts - a.ts < CloseBelow
        BY DEF NoLull
    <2>1. a = x /\ c.ts \in Nat /\ c.ts <= x.ts
        BY <1>3
    <2>2. c # x
        BY <1>1, <1>4, <2>1 DEF AllBelow
    <2>3. c.ts < x.ts
        BY <1>1, <1>3, <2>2
    <2> QED
        BY <1>0, <1>1, <2>1, <2>3
<1>10. Falls(Y, x.ts, x.ts, NoTime)
    BY <1>7, <1>8, <1>9 DEF Falls
<1> QED
    BY <1>5, <1>6, <1>10 DEF Y

Opens(s) == IF s.phase = "none" THEN 0 ELSE 1

\* What a step promises of the series.
Follows(k, s, r, delta, X, t) ==
    /\ SeriesTyped(r) /\ SeriesHolds(k, r, X, t) /\ BaselineHolds(r, t)
    /\ r.hist = s.hist /\ delta = Opens(r) - Opens(s)

LEMMA QuietHolds ==
    ASSUME NEW k \in Keys, NEW X, NEW t \in Nat, Known(X, t), NEW s, SeriesTyped(s),
           SeriesHolds(k, s, X, t), s.phase = "none",
           NEW p \in Point, NEW above \in BOOLEAN,
           NEW x, Arrives(x, t), x.ts = p.ts, x.v = p.v, x.above = above,
           \A i \in DOMAIN s.hist : s.hist[i].ts <= p.ts
    PROVE  LET r == Quiet(k, s, p, above)
           IN  Follows(k, s, r.s, r.delta, X \cup {x}, p.ts)
<1> DEFINE Y == X \cup {x}
           n == Rule[k].sustained
           since == AboveSince(s, p, above)
           rg == Ring(s, p, above)
           u == [s EXCEPT !.pre = rg, !.aboveSince = since]
           ev == Opened(k, u, p)
           w == [u EXCEPT !.phase = "during", !.ev = ev, !.belowSince = NoTime]
<1>0. /\ n \in Nat /\ PreCap \in Nat \ {0} /\ MaxPre \in Nat \ {0}
      /\ MaxDuring \in Nat \ {0, 1} /\ MaxPost \in Nat \ {0, 1}
    BY RuleNat, SizesNat
<1>1. p.ts \in Nat /\ p.ts > t /\ p.v \in Nat
    BY DEF Arrives
<1>2. s.aboveSince \in Nat /\ s.cooldownTill \in Nat /\ DOMAIN s = Fields
    BY DEF SeriesTyped
<1>3. /\ s.ev = <<>> /\ s.aboveSince <= t /\ Climbs(X, s.aboveSince, s.cooldownTill, n)
      /\ RingOf(X, s.aboveSince, n, PreCap, s.pre)
    BY DEF SeriesHolds, FollowedSince
<1>4. since = ClimbSince(s.aboveSince, s.cooldownTill, x)
    BY DEF AboveSince, ClimbSince
<1>5. rg = Latest(Append(s.pre, p), PreCap)
    BY DEF Ring
<1>6. \/ (since = NoTime \/ p.ts - since < n) /\ Quiet(k, s, p, above) = Result(u, 0)
      \/ ~(since = NoTime \/ p.ts - since < n) /\ Quiet(k, s, p, above) = Result(w, 1)
    BY DEF Quiet
<1> HIDE DEF since, rg, n, Y
<1>7. /\ since \in Nat /\ since <= p.ts
      /\ since # NoTime => AllAbove(Y, since, p.ts)
      /\ since = NoTime \/ p.ts - since < n => Climbs(Y, since, s.cooldownTill, n)
    <2> DEFINE a == s.aboveSince
               c == s.cooldownTill
    <2>1. a \in Nat /\ a <= t /\ c \in Nat /\ Climbs(X, a, c, n) /\ since = ClimbSince(a, c, x)
        BY <1>2, <1>3, <1>4
    <2> HIDE DEF a, c
    <2>2. /\ since \in Nat /\ since <= x.ts
          /\ since # NoTime => AllAbove(Y, since, x.ts)
          /\ since = NoTime \/ x.ts - since < n => Climbs(Y, since, c, n)
        BY <1>0, <2>1, ClimbIs DEF Y
    <2> QED
        BY <2>2 DEF c
<1>8. RingOf(Y, since, n, PreCap, rg)
    <2> DEFINE a == s.aboveSince
               c == s.cooldownTill
               l == s.pre
               m == PreCap
    <2>1. /\ a \in Nat /\ a <= t /\ c \in Nat /\ Climbs(X, a, c, n) /\ since = ClimbSince(a, c, x)
          /\ RingOf(X, a, n, m, l) /\ m \in Nat \ {0} /\ rg = Latest(Append(l, p), m)
        BY <1>0, <1>2, <1>3, <1>4, <1>5
    <2> HIDE DEF a, c, l, m
    <2>2. RingOf(Y, since, n, m, rg)
        BY <1>0, <2>1, RingGrows DEF Y
    <2> QED
        BY <2>2 DEF m
\* The climb goes on, or there is none.
<1>9. /\ SeriesTyped(u) /\ u.phase = "none" /\ u.ev = <<>> /\ u.pre = rg /\ u.aboveSince = since
      /\ u.cooldownTill = s.cooldownTill /\ u.hist = s.hist
    BY <1>2, <1>3, <1>7, FieldNames DEF SeriesTyped
<1>10. /\ ev \in Event /\ ev.key = k /\ ev.start = since /\ ev.end = NoTime /\ ev.peak = p.v
       /\ ev.pre = Decimate(rg, MaxPre) /\ ev.during = <<>> /\ ev.post = <<>>
       /\ ev.opened = p.ts /\ ev.closing = NoTime /\ ev.finished = NoTime
    <2>1. u.pre \in Seq(Point)
        BY <1>8, <1>9 DEF RingOf
    <2> HIDE DEF u
    <2> QED
        BY <1>9, <2>1, OpenedIs
<1> HIDE DEF ev
<1>11. /\ DOMAIN w = Fields /\ w.phase = "during" /\ w.ev = ev /\ w.pre = rg /\ w.belowSince = NoTime
       /\ w.hist = s.hist /\ w.baseline = s.baseline /\ w.mad = s.mad
       /\ w.aboveSince = since /\ w.cooldownTill = s.cooldownTill /\ w.postUntil = s.postUntil
    BY <1>2, FieldNames
<1>12. SeriesTyped(w)
    <2> HIDE DEF w
    <2> QED
        BY <1>7, <1>11 DEF SeriesTyped, Phases, NoTime
<1> HIDE DEF u, w
<1>13. ASSUME since = NoTime \/ p.ts - since < n
       PROVE  SeriesHolds(k, u, Y, p.ts) /\ BaselineHolds(u, p.ts)
    <2>1. SeriesHolds(k, u, Y, p.ts)
        BY <1>7, <1>8, <1>9, <1>13 DEF SeriesHolds, FollowedSince, n
    <2>2. BaselineHolds(u, p.ts)
        BY <1>9 DEF BaselineHolds
    <2> QED
        BY <2>1, <2>2
\* An event opens.
<1>14. ASSUME since # NoTime, p.ts - since >= n
       PROVE  SeriesHolds(k, w, Y, p.ts) /\ BaselineHolds(w, p.ts)
    <2>1. AllAbove(Y, since, p.ts) /\ since > 0
        BY <1>7, <1>14 DEF NoTime
    <2>2. x.above
        BY <1>1, <1>7, <2>1 DEF AllAbove, Y
    <2>3. Peaks(Y, p.ts, p.ts, p.v) /\ FirstIs(Y, p.ts, <<>>) /\ Falls(Y, p.ts, p.ts, NoTime)
        BY <2>2, OpeningSample DEF Y
    <2>4. GoesOn(ev, Y, p.ts, NoTime)
        <3>1. ListOf(<<>>, MaxDuring, p.ts, p.ts)
            BY <1>0, EmptyList
        <3> QED
            BY <1>1, <1>10, <2>3, <3>1 DEF GoesOn
    <2>5. /\ rg \in Seq(Point) /\ Len(rg) <= PreCap /\ Increasing(rg)
          /\ \A i \in DOMAIN rg : \E y \in Y : y.ts = rg[i].ts
        BY <1>8 DEF RingOf
    <2>6. \A y \in Y : y.ts \in Nat /\ y.ts <= p.ts
        BY <1>1 DEF Known, Y
    <2>7. /\ ev.pre \in Seq(Point) /\ Len(ev.pre) <= MaxPre /\ Increasing(ev.pre)
          /\ \A i \in DOMAIN ev.pre : \E j \in DOMAIN rg : ev.pre[i] = rg[j]
          /\ Len(rg) <= MaxPre => ev.pre = rg
        <3>1. rg \in Seq(Point)
            BY <2>5
        <3> QED
            BY <1>0, <1>10, <2>5, <3>1, Thins
    <2>8. ListOf(ev.pre, MaxPre, -1, p.ts)
        <3>1. ASSUME NEW i \in DOMAIN ev.pre PROVE -1 < ev.pre[i].ts /\ ev.pre[i].ts <= p.ts
            <4>1. PICK j \in DOMAIN rg : ev.pre[i] = rg[j]
                BY <2>7
            <4>2. PICK y \in Y : y.ts = rg[j].ts
                BY <2>5
            <4> QED
                BY <2>6, <4>1, <4>2
        <3> QED
            BY <2>7, <3>1 DEF ListOf
    <2>9. ASSUME n < PreCap, PreCap <= MaxPre, NEW y \in Y, since <= y.ts
          PROVE  \E i \in DOMAIN ev.pre : ev.pre[i].ts = y.ts
        <3>1. Len(rg) \in Nat /\ Len(rg) <= MaxPre
            BY <1>0, <2>5, <2>9
        <3>2. ev.pre = rg
            BY <2>7, <3>1
        <3> QED
            BY <1>8, <1>14, <2>9, <3>2 DEF RingOf
    <2>10. Began(k, ev, Y)
        <3>1. ev.start > 0 /\ ev.start <= ev.opened /\ ev.opened - ev.start >= Rule[k].sustained
            BY <1>7, <1>10, <1>14, <2>1 DEF n
        <3> QED
            BY <1>10, <2>1, <2>8, <2>9, <3>1 DEF Began, n
    <2>11. RingOf(Y, NoTime, n, PreCap, rg)
        BY <1>8 DEF RingOf
    <2>12. SeriesHolds(k, w, Y, p.ts)
        BY <1>1, <1>10, <1>11, <2>4, <2>10, <2>11 DEF SeriesHolds, FollowedSince, n, NoTime
    <2>13. BaselineHolds(w, p.ts)
        BY <1>10, <1>11 DEF BaselineHolds
    <2> QED
        BY <2>12, <2>13
<1>15. Opens(s) = 0 /\ Opens(u) = 0 /\ Opens(w) = 1
    BY <1>9, <1>11 DEF Opens
<1>16. CASE since = NoTime \/ p.ts - since < n
    <2>1. Quiet(k, s, p, above) = Result(u, 0)
        BY <1>6, <1>16
    <2> QED
        BY <1>9, <1>13, <1>15, <1>16, <2>1 DEF Follows, Result, Y
<1>17. CASE ~(since = NoTime \/ p.ts - since < n)
    <2>1. Quiet(k, s, p, above) = Result(w, 1)
        BY <1>6, <1>17
    <2>2. p.ts - since >= n
        BY <1>0, <1>1, <1>7, <1>17
    <2> QED
        BY <1>11, <1>12, <1>14, <1>15, <1>17, <2>1, <2>2 DEF Follows, Result, Y
<1> QED
    BY <1>16, <1>17

\* The event f is e with other parts after its opening.
Altered(e, f, end, peak, during, post, closing, finished) ==
    /\ f \in Event /\ f.key = e.key /\ f.start = e.start /\ f.pre = e.pre /\ f.opened = e.opened
    /\ f.end = end /\ f.peak = peak /\ f.during = during /\ f.post = post
    /\ f.closing = closing /\ f.finished = finished

LEMMA EventWith ==
    ASSUME NEW e \in Event, NEW d \in Seq(Point), NEW m \in Nat
    PROVE  Altered(e, [e EXCEPT !.during = d, !.peak = m], e.end, m, d, e.post, e.closing, e.finished)
BY DEF Event, Altered

LEMMA EventClosed ==
    ASSUME NEW e \in Event, NEW b \in Nat, NEW c \in Nat
    PROVE  Altered(e, [[e EXCEPT !.end = b] EXCEPT !.closing = c],
                   b, e.peak, e.during, e.post, c, e.finished)
BY DEF Event, Altered

LEMMA EventTail ==
    ASSUME NEW e \in Event, NEW q \in Seq(Point)
    PROVE  Altered(e, [e EXCEPT !.post = q], e.end, e.peak, e.during, q, e.closing, e.finished)
BY DEF Event, Altered

LEMMA EventDone ==
    ASSUME NEW e \in Event, NEW q \in Seq(Point), NEW c \in Nat
    PROVE  Altered(e, [e EXCEPT !.post = q, !.finished = c],
                   e.end, e.peak, e.during, q, e.closing, c)
BY DEF Event, Altered

\* What was said of the beginning of an event is said of it with other later parts.
LEMMA BeganSame ==
    ASSUME NEW k, NEW e, NEW f \in Event, NEW X, Began(k, e, X),
           f.key = e.key, f.start = e.start, f.opened = e.opened, f.pre = e.pre
    PROVE  Began(k, f, X)
BY DEF Began

LEMMA DuringHolds ==
    ASSUME NEW k \in Keys, NEW X, NEW t \in Nat, Known(X, t), NEW s, SeriesTyped(s),
           SeriesHolds(k, s, X, t), BaselineHolds(s, t), s.phase = "during",
           NEW p \in Point, NEW above \in BOOLEAN,
           NEW x, Arrives(x, t), x.ts = p.ts, x.v = p.v, x.above = above
    PROVE  Follows(k, s, During(s, p, above), 0, X \cup {x}, p.ts)
<1> DEFINE Y == X \cup {x}
           e == s.ev
           b == s.belowSince
           since == BelowSince(s, p, above)
           d == AppendCapped(e.during, p, MaxDuring)
           m == MaxOf(e.peak, p.v)
           f == [e EXCEPT !.during = d, !.peak = m]
           u == [s EXCEPT !.ev = f, !.belowSince = since]
           g == [[f EXCEPT !.end = since] EXCEPT !.closing = p.ts]
           w == [u EXCEPT !.ev.end = since, !.ev.closing = p.ts,
                          !.phase = "post", !.postUntil = p.ts + PostCapture]
<1>0. MaxDuring \in Nat \ {0, 1} /\ MaxPost \in Nat \ {0, 1} /\ CloseBelow \in Nat /\ PostCapture \in Nat
    BY SizesNat
<1>1. p.ts \in Nat /\ p.ts > t /\ p.v \in Nat
    BY DEF Arrives
<1>2. /\ DOMAIN s = Fields /\ b \in Nat /\ b <= t
      /\ Began(k, e, X) /\ e.opened <= t /\ GoesOn(e, X, t, b)
      /\ RingOf(X, NoTime, Rule[k].sustained, PreCap, s.pre)
      /\ \A i \in DOMAIN s.hist : s.hist[i].ts <= e.opened
    BY DEF SeriesTyped, SeriesHolds, FollowedSince, BaselineHolds
<1>3. e \in Event
    BY <1>2 DEF Began
<1>4. /\ e.during \in Seq(Point) /\ e.post = <<>> /\ e.opened \in Nat /\ e.peak \in Nat
      /\ e.end = NoTime /\ e.closing = NoTime /\ e.finished = NoTime
    BY <1>2, <1>3, EventTypes DEF GoesOn
<1>5. since = FallSince(b, x)
    BY DEF BelowSince, FallSince
<1>6. During(s, p, above) = IF above \/ p.ts - since < CloseBelow THEN u ELSE w
    BY DEF During
<1> HIDE DEF since, d, m, e, b, Y
<1>7. /\ since \in Nat /\ since <= p.ts
      /\ ~LongBelow(b, x) => Falls(Y, e.opened, p.ts, since)
      /\ LongBelow(b, x) => /\ since > e.opened /\ AllBelow(Y, since, p.ts) /\ p.ts - since >= CloseBelow
                            /\ Before(Y, since) /\ NoLull(Y, e.opened, p.ts)
    <2> DEFINE from == e.opened
    <2>1. from \in Nat /\ from <= t /\ Falls(X, from, t, b)
        BY <1>2, <1>4 DEF GoesOn
    <2> HIDE DEF from
    <2>2. /\ since \in Nat /\ since <= x.ts
          /\ ~LongBelow(b, x) => Falls(Y, from, x.ts, since)
          /\ LongBelow(b, x) => /\ since > from /\ AllBelow(Y, since, x.ts) /\ x.ts - since >= CloseBelow
                                /\ Before(Y, since) /\ NoLull(Y, from, x.ts)
        BY <1>2, <1>5, <2>1, FallIs DEF Y
    <2> QED
        BY <2>2 DEF from
<1>8. Peaks(Y, e.opened, p.ts, m) /\ m \in Nat
    <2> DEFINE from == e.opened
               pk == e.peak
    <2>1. from \in Nat /\ from <= t /\ pk \in Nat /\ Peaks(X, from, t, pk)
        BY <1>2, <1>4 DEF GoesOn
    <2> HIDE DEF from, pk
    <2>2. Peaks(Y, from, x.ts, MaxOf(pk, x.v)) /\ MaxOf(pk, x.v) \in Nat
        BY <2>1, PeakGrows DEF Y
    <2> QED
        BY <2>2 DEF from, pk, m
<1>9. ListOf(d, MaxDuring, e.opened, p.ts) /\ d # <<>> /\ d[Len(d)] = p /\ FirstIs(Y, e.opened, d)
    <2> DEFINE from == e.opened
               l == e.during
               c == MaxDuring
    <2>1. /\ from \in Nat /\ from <= t /\ l \in Seq(Point) /\ c \in Nat \ {0, 1} /\ Len(l) <= c
          /\ ListOf(l, c, from, t) /\ FirstIs(X, from, l) /\ d = AppendCapped(l, p, c)
        BY <1>0, <1>2, <1>4 DEF GoesOn, ListOf, d
    <2> HIDE DEF from, l, c
    <2>2. ListOf(d, c, from, p.ts) /\ d # <<>> /\ d[Len(d)] = p
        BY <1>1, <2>1, ListGrows
    <2>3. FirstIs(Y, from, d)
        BY <1>1, <2>1, FirstGrows DEF Y
    <2> QED
        BY <2>2, <2>3 DEF from, c
<1>10. d \in Seq(Point)
    BY <1>9 DEF ListOf
<1>11. /\ f \in Event /\ f.key = e.key /\ f.start = e.start /\ f.end = NoTime /\ f.peak = m
       /\ f.pre = e.pre /\ f.during = d /\ f.post = <<>>
       /\ f.opened = e.opened /\ f.closing = NoTime /\ f.finished = NoTime
    <2>1. m \in Nat
        BY <1>8
    <2>2. Altered(e, f, e.end, m, d, e.post, e.closing, e.finished)
        BY <1>3, <1>10, <2>1, EventWith
    <2> HIDE DEF f
    <2> QED
        BY <1>4, <2>2 DEF Altered
<1>12. Began(k, e, Y)
    BY <1>2, BeganStays DEF Y
<1>13. /\ DOMAIN u = Fields /\ u.phase = "during" /\ u.ev = f /\ u.pre = s.pre /\ u.belowSince = since
       /\ u.hist = s.hist /\ u.baseline = s.baseline /\ u.mad = s.mad
       /\ u.aboveSince = s.aboveSince /\ u.cooldownTill = s.cooldownTill /\ u.postUntil = s.postUntil
    <2> HIDE DEF f
    <2> QED
        BY <1>2, FieldNames
<1> HIDE DEF f
<1>14. /\ g \in Event /\ g.key = e.key /\ g.start = e.start /\ g.end = since /\ g.peak = m
       /\ g.pre = e.pre /\ g.during = d /\ g.post = <<>>
       /\ g.opened = e.opened /\ g.closing = p.ts /\ g.finished = NoTime
    <2> DEFINE c == p.ts
    <2>1. f \in Event /\ since \in Nat /\ c \in Nat
        BY <1>1, <1>7, <1>11
    <2>2. g = [[f EXCEPT !.end = since] EXCEPT !.closing = c]
        OBVIOUS
    <2> HIDE DEF g, c
    <2>3. Altered(f, g, since, f.peak, f.during, f.post, c, f.finished)
        BY <2>1, <2>2, EventClosed
    <2> QED
        BY <1>11, <2>3 DEF Altered, c
<1> HIDE DEF g, u
<1>15. /\ DOMAIN w = Fields /\ w.phase = "post" /\ w.pre = s.pre /\ w.belowSince = since
       /\ w.hist = s.hist /\ w.baseline = s.baseline /\ w.mad = s.mad
       /\ w.aboveSince = s.aboveSince /\ w.cooldownTill = s.cooldownTill
       /\ w.postUntil = p.ts + PostCapture
    BY <1>13, FieldNames
<1>16. w.ev = g
    BY <1>13, FieldNames DEF g
<1> HIDE DEF w
<1>17. RingOf(Y, NoTime, Rule[k].sustained, PreCap, s.pre)
    BY <1>2 DEF RingOf, Y
<1>18. /\ s.aboveSince \in Nat /\ s.cooldownTill \in Nat /\ s.postUntil \in Nat
       /\ s.hist \in Seq(Point) /\ s.baseline \in Nat /\ s.mad \in Nat
    BY DEF SeriesTyped
<1>19. \A i \in DOMAIN s.hist : s.hist[i].ts <= p.ts
    <2>1. \A i \in DOMAIN s.hist : s.hist[i].ts \in Nat
        BY <1>18, PointAt
    <2> QED
        BY <1>1, <1>2, <1>4, <2>1
<1>20. ASSUME ~LongBelow(b, x) PROVE Follows(k, s, u, 0, Y, p.ts)
    <2>1. SeriesTyped(u)
        BY <1>7, <1>13, <1>18 DEF SeriesTyped, Phases
    <2>2. GoesOn(f, Y, p.ts, since)
        BY <1>1, <1>2, <1>4, <1>7, <1>8, <1>9, <1>11, <1>20 DEF GoesOn
    <2>3. Began(k, f, Y)
        BY <1>11, <1>12, BeganSame
    <2>4. SeriesHolds(k, u, Y, p.ts)
        BY <1>1, <1>2, <1>4, <1>7, <1>11, <1>13, <1>17, <2>2, <2>3 DEF SeriesHolds, FollowedSince
    <2>5. BaselineHolds(u, p.ts)
        BY <1>2, <1>11, <1>13, <1>19 DEF BaselineHolds
    <2> QED
        BY <1>13, <2>1, <2>4, <2>5 DEF Follows, Opens
<1>21. ASSUME LongBelow(b, x) PROVE Follows(k, s, w, 0, Y, p.ts)
    <2>1. SeriesTyped(w)
        BY <1>0, <1>1, <1>7, <1>15, <1>18 DEF SeriesTyped, Phases
    <2>2. HasEnded(g, Y, p.ts)
        <3>1. ListOf(<<>>, MaxPost, p.ts, p.ts)
            BY <1>0, EmptyList
        <3> QED
            BY <1>1, <1>4, <1>7, <1>8, <1>9, <1>14, <1>21, <3>1 DEF HasEnded
    <2>3. Began(k, g, Y)
        BY <1>12, <1>14, BeganSame
    <2>4. SeriesHolds(k, w, Y, p.ts)
        BY <1>1, <1>2, <1>4, <1>14, <1>15, <1>16, <1>17, <2>2, <2>3 DEF SeriesHolds, FollowedSince
    <2>5. BaselineHolds(w, p.ts)
        BY <1>2, <1>14, <1>15, <1>16, <1>19 DEF BaselineHolds
    <2> QED
        BY <1>15, <2>1, <2>4, <2>5 DEF Follows, Opens
<1>22. LongBelow(b, x) <=> ~(above \/ p.ts - since < CloseBelow)
    <2>1. LongBelow(b, x) <=> ~above /\ p.ts - since >= CloseBelow
        BY <1>5 DEF LongBelow
    <2>2. p.ts - since >= CloseBelow <=> ~(p.ts - since < CloseBelow)
        BY <1>0, <1>1, <1>7
    <2> QED
        BY <2>1, <2>2
<1>23. CASE LongBelow(b, x)
    <2>1. During(s, p, above) = w
        BY <1>6, <1>22, <1>23
    <2> QED
        BY <1>21, <1>23, <2>1 DEF Y
<1>24. CASE ~LongBelow(b, x)
    <2>1. During(s, p, above) = u
        BY <1>6, <1>22, <1>24
    <2> QED
        BY <1>20, <1>24, <2>1 DEF Y
<1> QED
    BY <1>23, <1>24

LEMMA PostHolds ==
    ASSUME NEW k \in Keys, NEW X, NEW t \in Nat, Known(X, t), NEW s, SeriesTyped(s),
           SeriesHolds(k, s, X, t), BaselineHolds(s, t), s.phase = "post",
           NEW p \in Point, NEW x, Arrives(x, t), x.ts = p.ts
    PROVE  LET r == Post(s, p)
           IN  /\ Follows(k, s, r.s, r.delta, X \cup {x}, p.ts)
               /\ r.s.phase = "none" => p.ts > s.ev.closing + PostCapture
<1> DEFINE Y == X \cup {x}
           e == s.ev
           q == AppendCapped(e.post, p, MaxPost)
           f == [e EXCEPT !.post = q]
           u == [s EXCEPT !.ev.post = q]
           w == [s EXCEPT !.phase = "none", !.ev = <<>>, !.postUntil = NoTime,
                          !.cooldownTill = p.ts + Cooldown, !.aboveSince = NoTime]
<1>0. MaxPost \in Nat \ {0, 1} /\ PostCapture \in Nat /\ Cooldown \in Nat
    BY SizesNat
<1>1. p.ts \in Nat /\ p.ts > t
    BY DEF Arrives
<1>2. /\ DOMAIN s = Fields
      /\ Began(k, e, X) /\ e.opened <= t /\ HasEnded(e, X, t) /\ e.finished = NoTime
      /\ s.postUntil = e.closing + PostCapture
      /\ RingOf(X, NoTime, Rule[k].sustained, PreCap, s.pre)
      /\ \A i \in DOMAIN s.hist : s.hist[i].ts <= e.opened
    BY DEF SeriesTyped, SeriesHolds, FollowedSince, BaselineHolds
<1>3. e \in Event
    BY <1>2 DEF Began
<1>4. e.post \in Seq(Point) /\ e.opened \in Nat /\ e.closing \in Nat
    BY <1>3, EventTypes
<1>5. \/ p.ts <= s.postUntil /\ Post(s, p) = Result(u, 0)
      \/ ~(p.ts <= s.postUntil) /\ Post(s, p) = Result(w, -1)
    BY DEF Post
<1> HIDE DEF q, e, Y
<1>6. ListOf(q, MaxPost, e.closing, p.ts)
    <2> DEFINE from == e.closing
               l == e.post
               c == MaxPost
    <2>1. /\ from \in Nat /\ from <= t /\ c \in Nat \ {0, 1}
          /\ ListOf(l, c, from, t) /\ q = AppendCapped(l, p, c)
        BY <1>0, <1>2, <1>4 DEF HasEnded, q
    <2> HIDE DEF from, l, c
    <2>2. ListOf(q, c, from, p.ts)
        BY <1>1, <2>1, ListGrows
    <2> QED
        BY <2>2 DEF from, c
<1>7. q \in Seq(Point)
    BY <1>6 DEF ListOf
<1>8. /\ f \in Event /\ f.key = e.key /\ f.start = e.start /\ f.end = e.end /\ f.peak = e.peak
      /\ f.pre = e.pre /\ f.during = e.during /\ f.post = q
      /\ f.opened = e.opened /\ f.closing = e.closing /\ f.finished = e.finished
    <2>1. Altered(e, f, e.end, e.peak, e.during, q, e.closing, e.finished)
        BY <1>3, <1>7, EventTail
    <2> HIDE DEF f
    <2> QED
        BY <2>1 DEF Altered
<1> HIDE DEF f
<1>9. /\ DOMAIN u = Fields /\ u.phase = "post" /\ u.pre = s.pre /\ u.belowSince = s.belowSince
      /\ u.hist = s.hist /\ u.baseline = s.baseline /\ u.mad = s.mad
      /\ u.aboveSince = s.aboveSince /\ u.cooldownTill = s.cooldownTill /\ u.postUntil = s.postUntil
    BY <1>2, FieldNames
<1>10. u.ev = f
    BY <1>2, FieldNames DEF f, e
<1>11. /\ DOMAIN w = Fields /\ w.phase = "none" /\ w.ev = <<>> /\ w.pre = s.pre
       /\ w.belowSince = s.belowSince
       /\ w.hist = s.hist /\ w.baseline = s.baseline /\ w.mad = s.mad
       /\ w.aboveSince = NoTime /\ w.cooldownTill = p.ts + Cooldown /\ w.postUntil = NoTime
    BY <1>2, FieldNames
<1> HIDE DEF u, w
<1>12. Began(k, e, Y) /\ HasEnded(e, Y, p.ts)
    <2>1. Began(k, e, Y)
        BY <1>2, BeganStays DEF Y
    <2>2. HasEnded(e, Y, x.ts)
        BY <1>2, <1>3, EndedStays DEF Y
    <2> QED
        BY <2>1, <2>2
<1>13. RingOf(Y, NoTime, Rule[k].sustained, PreCap, s.pre)
    BY <1>2 DEF RingOf, Y
<1>14. /\ s.aboveSince \in Nat /\ s.belowSince \in Nat /\ s.cooldownTill \in Nat /\ s.postUntil \in Nat
       /\ s.hist \in Seq(Point) /\ s.baseline \in Nat /\ s.mad \in Nat
    BY DEF SeriesTyped
<1>15. \A i \in DOMAIN s.hist : s.hist[i].ts <= p.ts
    <2>1. \A i \in DOMAIN s.hist : s.hist[i].ts \in Nat
        BY <1>14, PointAt
    <2> QED
        BY <1>1, <1>2, <1>4, <2>1
<1>16. Follows(k, s, u, 0, Y, p.ts)
    <2>1. SeriesTyped(u)
        BY <1>9, <1>14 DEF SeriesTyped, Phases
    <2>2. HasEnded(f, Y, p.ts)
        BY <1>6, <1>8, <1>12 DEF HasEnded
    <2>3. Began(k, f, Y)
        BY <1>8, <1>12, BeganSame
    <2>4. SeriesHolds(k, u, Y, p.ts)
        BY <1>1, <1>2, <1>4, <1>8, <1>9, <1>10, <1>13, <2>2, <2>3 DEF SeriesHolds, FollowedSince
    <2>5. BaselineHolds(u, p.ts)
        BY <1>2, <1>8, <1>9, <1>10, <1>15 DEF BaselineHolds
    <2> QED
        BY <1>9, <2>1, <2>4, <2>5 DEF Follows, Opens
\* No sample yet is past the cooldown.
<1>17. Follows(k, s, w, -1, Y, p.ts)
    <2>1. SeriesTyped(w)
        BY <1>0, <1>1, <1>11, <1>14 DEF SeriesTyped, Phases, NoTime
    <2>2. \A y \in Y : y.ts \in Nat /\ (Cooldown > 0 => y.ts < p.ts + Cooldown)
        BY <1>0, <1>1 DEF Known, Y
    <2>3. Climbs(Y, NoTime, p.ts + Cooldown, Rule[k].sustained)
        BY <1>0, <1>1, <2>2 DEF Climbs
    <2>4. SeriesHolds(k, w, Y, p.ts)
        BY <1>1, <1>11, <1>13, <2>3 DEF SeriesHolds, FollowedSince, NoTime
    <2>5. BaselineHolds(w, p.ts)
        BY <1>11, <1>15 DEF BaselineHolds
    <2> QED
        BY <1>11, <2>1, <2>4, <2>5 DEF Follows, Opens
<1>18. CASE p.ts <= s.postUntil
    <2>1. Post(s, p) = Result(u, 0)
        BY <1>5, <1>18
    <2> QED
        BY <1>9, <1>16, <2>1 DEF Result, Y
<1>19. CASE ~(p.ts <= s.postUntil)
    <2>1. Post(s, p) = Result(w, -1)
        BY <1>5, <1>19
    <2>2. p.ts > e.closing + PostCapture
        BY <1>0, <1>1, <1>2, <1>4, <1>19
    <2> QED
        BY <1>17, <2>1, <2>2 DEF Result, Y, e
<1> QED
    BY <1>18, <1>19

\* A step of one series at p.ts, with the sample x as it is recorded.
LEMMA StepHolds ==
    ASSUME NEW k \in Keys, NEW X, NEW t \in Nat, Known(X, t), NEW s, SeriesTyped(s),
           SeriesHolds(k, s, X, t), BaselineHolds(s, t),
           NEW p \in Point, NEW x, Arrives(x, t), x.ts = p.ts, x.v = p.v,
           x.above = (p.v >= EffectiveThreshold(k, Baselined(s, p)))
    PROVE  LET r == Step(k, s, p)
           IN  /\ SeriesTyped(r.s) /\ SeriesHolds(k, r.s, X \cup {x}, p.ts) /\ BaselineHolds(r.s, p.ts)
               /\ r.delta = Opens(r.s) - Opens(s)
               /\ \A i \in DOMAIN r.s.hist : FromEither(s.hist, p, r.s.hist[i])
               /\ s.phase # "none" => r.s.hist = s.hist
               /\ s.phase = "post" /\ r.s.phase = "none" => p.ts > s.ev.closing + PostCapture
               /\ x.v >= Rule[k].static => x.above
<1> DEFINE Y == X \cup {x}
           u == Baselined(s, p)
           above == p.v >= EffectiveThreshold(k, u)
           r == Step(k, s, p)
           From(l) == \A i \in DOMAIN l : FromEither(s.hist, p, l[i])
<1>1. /\ SeriesTyped(u) /\ Unmoved(s, u) /\ From(u.hist) /\ (s.phase # "none" => u = s)
    BY BaselinedIs
<1>2. p.ts \in Nat /\ p.ts > t /\ x.above = above
    BY DEF Arrives
<1>3. r = CASE u.phase = "none"   -> Quiet(k, u, p, above)
            [] u.phase = "during" -> Result(During(u, p, above), 0)
            [] u.phase = "post"   -> Post(u, p)
    BY DEF Step
<1>4. x.v >= Rule[k].static => x.above
    <2>1. EffectiveThreshold(k, u) \in Int /\ EffectiveThreshold(k, u) <= Rule[k].static
        BY <1>1, ThresholdIs
    <2> DEFINE th == EffectiveThreshold(k, u)
               st == Rule[k].static
               v == p.v
    <2>2. th \in Int /\ th <= st /\ st \in Nat /\ v \in Nat /\ x.v = v
        BY <2>1, RuleNat DEF Arrives
    <2>3. x.above = (v >= th)
        OBVIOUS
    <2> HIDE DEF th, st, v
    <2>4. v >= st => v >= th
        BY <2>2
    <2>5. x.v >= st => x.above
        BY <2>2, <2>3, <2>4
    <2> QED
        BY <2>5 DEF st
<1> HIDE DEF u, r, above, From, Y
<1>5. above \in BOOLEAN
    BY DEF above
<1>6. SeriesHolds(k, u, X, t)
    BY <1>1 DEF Unmoved, SeriesHolds, FollowedSince
<1>7. \A i \in DOMAIN u.hist : u.hist[i].ts <= p.ts
    <2>1. s.hist \in Seq(Point)
        BY DEF SeriesTyped
    <2>2. \A j \in DOMAIN s.hist : s.hist[j].ts \in Nat /\ s.hist[j].ts <= p.ts
        BY <1>2, <2>1, PointAt DEF BaselineHolds
    <2>3. \A y : FromEither(s.hist, p, y) => y.ts <= p.ts
        BY <1>2, <2>2 DEF FromEither
    <2> QED
        BY <1>1, <2>3 DEF From
<1>8. u.phase \in {"none", "during", "post"}
    BY <1>1 DEF SeriesTyped, Phases
<1>9. Opens(u) = Opens(s) /\ u.phase = s.phase
    BY <1>1 DEF Opens, Unmoved
<1>10. ASSUME u.phase = "none" PROVE Follows(k, u, r.s, r.delta, Y, p.ts)
    <2>1. r = Quiet(k, u, p, above)
        BY <1>3, <1>10
    <2> QED
        BY <1>1, <1>2, <1>5, <1>6, <1>7, <1>10, <2>1, QuietHolds DEF Y
<1>11. ASSUME u.phase # "none" PROVE u = s /\ BaselineHolds(u, t)
    BY <1>1, <1>9, <1>11
<1>12. ASSUME u.phase = "during" PROVE Follows(k, u, r.s, r.delta, Y, p.ts)
    <2>1. r = Result(During(u, p, above), 0)
        BY <1>3, <1>12
    <2>2. r.s = During(u, p, above) /\ r.delta = 0
        BY <2>1 DEF Result
    <2> QED
        BY <1>1, <1>2, <1>5, <1>6, <1>11, <1>12, <2>2, DuringHolds DEF Y
<1>13. ASSUME u.phase = "post"
       PROVE  /\ Follows(k, u, r.s, r.delta, Y, p.ts)
              /\ r.s.phase = "none" => p.ts > s.ev.closing + PostCapture
    <2>1. r = Post(u, p) /\ BaselineHolds(u, t) /\ u.ev = s.ev
        BY <1>3, <1>11, <1>13
    <2> QED
        BY <1>1, <1>6, <1>13, <2>1, PostHolds DEF Y
<1>14. Follows(k, u, r.s, r.delta, Y, p.ts)
    BY <1>8, <1>10, <1>12, <1>13
<1>15. /\ SeriesTyped(r.s) /\ SeriesHolds(k, r.s, Y, p.ts) /\ BaselineHolds(r.s, p.ts)
       /\ r.delta = Opens(r.s) - Opens(s) /\ From(r.s.hist)
       /\ s.phase # "none" => r.s.hist = s.hist
    BY <1>1, <1>9, <1>14 DEF Follows
<1>16. s.phase = "post" /\ r.s.phase = "none" => p.ts > s.ev.closing + PostCapture
    BY <1>9, <1>13
<1> QED
    BY <1>4, <1>15, <1>16 DEF r, Y, From

\* A sample of other series changes nothing but the time.
LEMMA TimePasses ==
    ASSUME NEW k \in Keys, NEW X, NEW t \in Nat, Known(X, t), NEW s, SeriesTyped(s),
           SeriesHolds(k, s, X, t), BaselineHolds(s, t), NEW ts \in Nat, t <= ts
    PROVE  Known(X, ts) /\ SeriesHolds(k, s, X, ts) /\ BaselineHolds(s, ts)
<1> DEFINE e == s.ev
<1>1. \A y \in X : y.ts \in Nat /\ y.ts <= t
    BY DEF Known
<1>2. Known(X, ts)
    BY DEF Known
<1>3. s.aboveSince \in Nat /\ s.belowSince \in Nat /\ s.hist \in Seq(Point)
    BY DEF SeriesTyped
<1>4. s.phase # "none" => e \in Event /\ e.opened \in Nat /\ e.closing \in Nat
    BY EventTypes DEF SeriesHolds, Began
<1> HIDE DEF e
<1>5. ASSUME s.phase = "during" PROVE GoesOn(e, X, ts, s.belowSince)
    <2>1. e.opened \in Nat /\ GoesOn(e, X, t, s.belowSince)
        BY <1>4, <1>5 DEF SeriesHolds, e
    <2>2. Peaks(X, e.opened, ts, e.peak)
        BY <1>1, <2>1 DEF GoesOn, Peaks
    <2>3. ListOf(e.during, MaxDuring, e.opened, ts)
        BY <2>1, ListUpTo DEF GoesOn
    <2>4. NoLull(X, e.opened, ts + 1)
        <3>1. \A c \in X : c.ts < t + 1
            BY <1>1
        <3> QED
            BY <2>1, <3>1 DEF GoesOn, Falls, NoLull
    <2>5. Falls(X, e.opened, ts, s.belowSince)
        BY <2>1, <2>4 DEF GoesOn, Falls
    <2> QED
        BY <2>1, <2>2, <2>3, <2>5 DEF GoesOn
<1>6. ASSUME s.phase = "post" PROVE HasEnded(e, X, ts)
    <2>1. e.closing \in Nat /\ HasEnded(e, X, t)
        BY <1>4, <1>6 DEF SeriesHolds, e
    <2>2. ListOf(e.post, MaxPost, e.closing, ts)
        BY <2>1, ListUpTo DEF HasEnded
    <2> QED
        BY <2>1, <2>2 DEF HasEnded
<1>7. SeriesHolds(k, s, X, ts)
    BY <1>3, <1>4, <1>5, <1>6 DEF SeriesHolds, e
<1>8. BaselineHolds(s, ts)
    <2>1. \A i \in DOMAIN s.hist : s.hist[i].ts \in Nat
        BY <1>3, PointAt
    <2> QED
        BY <2>1 DEF BaselineHolds
<1> QED
    BY <1>2, <1>7, <1>8

\* What Offer returns of the series whose tail a sample ends.
LEMMA CompletedIs ==
    ASSUME NEW k \in Keys, NEW X, NEW t \in Nat, Known(X, t), NEW s, SeriesTyped(s),
           SeriesHolds(k, s, X, t), s.phase = "post",
           NEW p \in Point, NEW x, Arrives(x, t), x.ts = p.ts
    PROVE  LET e == Completed(s, p)
           IN  /\ e \in Event /\ e.key = k /\ Began(k, e, X \cup {x}) /\ HasEnded(e, X \cup {x}, p.ts)
               /\ e.finished = p.ts /\ e.opened = s.ev.opened /\ e.closing = s.ev.closing
<1> DEFINE Y == X \cup {x}
           e == s.ev
           q == AppendCapped(e.post, p, MaxPost)
           f == [e EXCEPT !.post = q, !.finished = p.ts]
<1>0. MaxPost \in Nat \ {0, 1}
    BY SizesNat
<1>1. p.ts \in Nat /\ p.ts > t
    BY DEF Arrives
<1>2. Began(k, e, X) /\ e.opened <= t /\ HasEnded(e, X, t)
    BY DEF SeriesHolds
<1>3. e \in Event /\ e.key = k
    BY <1>2 DEF Began
<1>4. e.post \in Seq(Point) /\ e.opened \in Nat /\ e.closing \in Nat
    BY <1>3, EventTypes
<1>5. Completed(s, p) = f
    BY DEF Completed
<1> HIDE DEF q, e, Y
<1>6. ListOf(q, MaxPost, e.closing, p.ts)
    <2> DEFINE from == e.closing
               l == e.post
               c == MaxPost
    <2>1. /\ from \in Nat /\ from <= t /\ c \in Nat \ {0, 1}
          /\ ListOf(l, c, from, t) /\ q = AppendCapped(l, p, c)
        BY <1>0, <1>2, <1>4 DEF HasEnded, q
    <2> HIDE DEF from, l, c
    <2>2. ListOf(q, c, from, p.ts)
        BY <1>1, <2>1, ListGrows
    <2> QED
        BY <2>2 DEF from, c
<1>7. q \in Seq(Point)
    BY <1>6 DEF ListOf
<1>8. Altered(e, f, e.end, e.peak, e.during, q, e.closing, p.ts)
    <2> DEFINE c == p.ts
    <2>1. c \in Nat
        BY <1>1
    <2> HIDE DEF c
    <2>2. Altered(e, [e EXCEPT !.post = q, !.finished = c], e.end, e.peak, e.during, q, e.closing, c)
        BY <1>3, <1>7, <2>1, EventDone
    <2> QED
        BY <2>2 DEF c
<1> HIDE DEF f
<1>9. /\ f \in Event /\ f.key = e.key /\ f.start = e.start /\ f.end = e.end /\ f.peak = e.peak
      /\ f.pre = e.pre /\ f.during = e.during /\ f.post = q
      /\ f.opened = e.opened /\ f.closing = e.closing /\ f.finished = p.ts
    BY <1>8 DEF Altered
<1>10. Began(k, e, Y)
    BY <1>2, BeganStays DEF Y
<1>11. HasEnded(e, Y, x.ts)
    BY <1>2, <1>3, EndedStays DEF Y
<1>12. Began(k, f, Y)
    BY <1>9, <1>10, BeganSame
<1>13. HasEnded(f, Y, p.ts)
    BY <1>6, <1>9, <1>11 DEF HasEnded
<1> QED
    BY <1>3, <1>5, <1>9, <1>12, <1>13 DEF Y, e

\* A completed event, in terms of the samples X of its series and the baseline's
\* list h.
DoneHolds(e, X, h, t) ==
    /\ Began(e.key, e, X) /\ HasEnded(e, X, t)
    /\ e.finished > e.closing + PostCapture /\ e.finished <= t
    /\ \A i \in DOMAIN h : h[i].ts <= e.opened \/ e.finished < h[i].ts

LEMMA DoneStays ==
    ASSUME NEW X, NEW t \in Nat, Known(X, t), NEW x, Arrives(x, t), NEW e, NEW h, DoneHolds(e, X, h, t),
           NEW p, p.ts = x.ts, NEW l, \A i \in DOMAIN l : FromEither(h, p, l[i])
    PROVE  DoneHolds(e, X \cup {x}, l, x.ts)
<1>1. e \in Event /\ e.finished \in Nat /\ e.opened \in Nat /\ e.closing \in Nat
    BY EventTypes DEF DoneHolds, Began
<1>2. x.ts \in Nat /\ x.ts > t /\ e.finished <= t
    BY DEF Arrives, DoneHolds
<1>3. HasEnded(e, X \cup {x}, x.ts)
    BY <1>1, EndedStays DEF DoneHolds
<1>4. Began(e.key, e, X \cup {x})
    <2>1. e.opened <= t
        BY <1>1, EventTypes DEF DoneHolds, HasEnded
    <2> DEFINE k == e.key
    <2>2. Began(k, e, X)
        BY DEF DoneHolds
    <2> HIDE DEF k
    <2>3. Began(k, e, X \cup {x})
        BY <2>1, <2>2, BeganStays
    <2> QED
        BY <2>3 DEF k
<1>5. ASSUME NEW i \in DOMAIN l PROVE l[i].ts <= e.opened \/ e.finished < l[i].ts
    <2>1. CASE l[i] = p
        BY <1>1, <1>2, <2>1
    <2>2. CASE \E j \in DOMAIN h : l[i] = h[j]
        BY <2>2 DEF DoneHolds
    <2> QED
        BY <2>1, <2>2 DEF FromEither
<1> QED
    BY <1>1, <1>2, <1>3, <1>4, <1>5 DEF DoneHolds

LEMMA DoneWaits ==
    ASSUME NEW X, NEW t \in Nat, NEW e, NEW h, DoneHolds(e, X, h, t), NEW ts \in Nat, t <= ts
    PROVE  DoneHolds(e, X, h, ts)
<1>1. e \in Event /\ e.finished \in Nat /\ e.closing \in Nat
    BY EventTypes DEF DoneHolds, Began
<1>2. ListOf(e.post, MaxPost, e.closing, ts)
    BY <1>1, ListUpTo DEF DoneHolds, HasEnded
<1> QED
    BY <1>1, <1>2 DEF DoneHolds, HasEnded

-----------------------------------------------------------------------------
(* The detector.                                                           *)

Record == [ts : Nat, v : Nat, above : BOOLEAN]

\* What holds of the series s of k, of which the samples l are recorded.
KeyHolds(k, s, l, t) ==
    /\ l \in Seq(Record) /\ Known(Range(l), t)
    /\ \A x \in Range(l) : x.v >= Rule[k].static => x.above
    /\ SeriesTyped(s) /\ SeriesHolds(k, s, Range(l), t) /\ BaselineHolds(s, t)

SpikeInv ==
    /\ now \in Nat /\ now <= Horizon
    /\ \A k \in Keys : KeyHolds(k, series[k], seen[k], now)
    /\ \A e \in done : e.key \in Keys /\ DoneHolds(e, Range(seen[e.key]), series[e.key].hist, now)
    /\ openCount = Cardinality({k \in Keys : series[k].phase # "none"})

LEMMA RangeAppend ==
    ASSUME NEW S, NEW l \in Seq(S), NEW x \in S
    PROVE  Range(Append(l, x)) = Range(l) \cup {x}
<1> DEFINE a == Append(l, x)
<1>1. /\ Len(l) \in Nat /\ a[Len(l) + 1] = x /\ \A i \in 1 .. Len(l) : a[i] = l[i]
    BY AppendProperties
<1>2. DOMAIN a = 1 .. (Len(l) + 1) /\ DOMAIN l = 1 .. Len(l)
    BY AppendProperties
<1> HIDE DEF a
<1>3. ASSUME NEW y \in Range(a) PROVE y \in Range(l) \cup {x}
    <2>1. PICK i \in DOMAIN a : y = a[i]
        BY DEF Range
    <2>2. i = Len(l) + 1 \/ i \in 1 .. Len(l)
        BY <1>1, <1>2, <2>1
    <2> QED
        BY <1>1, <1>2, <2>1, <2>2 DEF Range
<1>4. ASSUME NEW y \in Range(l) PROVE y \in Range(a)
    <2>1. PICK i \in DOMAIN l : y = l[i]
        BY DEF Range
    <2>2. i \in DOMAIN a /\ a[i] = l[i]
        BY <1>1, <1>2, <2>1
    <2> QED
        BY <2>1, <2>2 DEF Range
<1>5. x \in Range(a)
    <2>1. Len(l) + 1 \in DOMAIN a
        BY <1>1, <1>2
    <2> QED
        BY <1>1, <2>1 DEF Range
<1> QED
    BY <1>3, <1>4, <1>5 DEF a

LEMMA SpikeInitHolds == SpikeInit => SpikeInv
<1> SUFFICES ASSUME SpikeInit PROVE SpikeInv
    OBVIOUS
<1>1. now = 0 /\ openCount = 0 /\ done = {} /\ \A k \in Keys : series[k] = Fresh /\ seen[k] = <<>>
    BY DEF SpikeInit
<1>2. now \in Nat /\ now <= Horizon
    BY <1>1, DetectorAssumption DEF DetectorAssumption
<1>3. ASSUME NEW k \in Keys PROVE KeyHolds(k, Fresh, <<>>, 0)
    <2>1. <<>> \in Seq(Record) /\ Range(<<>>) = {}
        BY DEF Range
    <2>2. SeriesTyped(Fresh)
        BY DEF SeriesTyped, Fresh, Fields, Phases, NoTime
    <2>3. /\ Fresh.phase = "none" /\ Fresh.aboveSince = NoTime /\ Fresh.ev = <<>>
          /\ Fresh.pre = <<>> /\ Fresh.hist = <<>> /\ Fresh.cooldownTill = NoTime
        BY DEF Fresh
    <2>4. RingOf({}, NoTime, Rule[k].sustained, PreCap, <<>>)
        <3>1. <<>> \in Seq(Point) /\ Len(<<>>) = 0 /\ DOMAIN <<>> = {}
            OBVIOUS
        <3> QED
            BY <3>1, SizesNat DEF RingOf, Increasing
    <2>5. SeriesHolds(k, Fresh, {}, 0) /\ BaselineHolds(Fresh, 0)
        BY <2>3, <2>4 DEF SeriesHolds, BaselineHolds, FollowedSince, Climbs, NoTime
    <2> QED
        BY <2>1, <2>2, <2>5 DEF KeyHolds, Known
<1>4. openCount = Cardinality({k \in Keys : series[k].phase # "none"})
    <2>1. {k \in Keys : series[k].phase # "none"} = {}
        BY <1>1 DEF Fresh
    <2> QED
        BY <1>1, <2>1, FS_EmptySet
<1> QED
    BY <1>1, <1>2, <1>3, <1>4 DEF SpikeInv

\* The number of open events moves with the steps of the series.
Marks(w, A) == \A k \in Keys : w[k] = IF k \in A THEN 1 ELSE 0
Moves(d, S, w, v) ==
    /\ DOMAIN d = S /\ \A k \in S : d[k] = v[k] - w[k]
    /\ \A k \in Keys \ S : v[k] = w[k]

LEMMA CountMoves ==
    ASSUME NEW w, NEW v, NEW d, NEW present \in SUBSET Keys, IsFiniteSet(Keys),
           NEW A, NEW B, A \subseteq Keys, B \subseteq Keys,
           Marks(w, A), Marks(v, B), Moves(d, present, w, v)
    PROVE  Cardinality(A) + SumFunction(d) = Cardinality(B) /\ Cardinality(A) \in Nat
<1> DEFINE x == [k \in Keys |-> IF k \in present THEN d[k] ELSE 0]
           rest == Keys \ present
<1>1. Total(w, Keys) = Cardinality(A) /\ Total(v, Keys) = Cardinality(B)
    BY TotalCounts DEF Marks
<1>2. IsFiniteSet(present) /\ IsFiniteSet(rest) /\ IsFiniteSet(A)
    BY FS_Subset
<1>3. \A k \in Keys : w[k] \in Int /\ x[k] \in Int /\ v[k] = w[k] + x[k]
    BY DEF Marks, Moves
<1>4. \A k \in present : x[k] = d[k]
    OBVIOUS
<1>5. \A k \in rest : x[k] = 0
    OBVIOUS
<1>6. present \cap rest = {} /\ present \cup rest = Keys
    OBVIOUS
<1> HIDE DEF x, rest
<1>7. Total(v, Keys) = Total(w, Keys) + Total(x, Keys)
    BY <1>3, TotalSum
<1>8. Total(x, present) = Total(d, present)
    BY <1>2, <1>4, TotalSame
<1>9. Total(x, rest) = 0
    BY <1>2, <1>5, TotalZero
<1>10. Total(x, present \cup rest) = Total(x, present) + Total(x, rest)
    BY <1>2, <1>3, <1>6, TotalUnion
<1>11. Total(x, present) \in Int
    BY <1>2, <1>3, TotalInt
<1>12. SumFunction(d) = Total(d, present)
    BY SumIsTotal DEF Moves
<1>13. Cardinality(A) \in Nat
    BY <1>2, FS_CardinalityType
<1>14. Total(x, Keys) = SumFunction(d) + Total(x, rest)
    BY <1>6, <1>8, <1>10, <1>12
<1>15. SumFunction(d) \in Int
    BY <1>8, <1>11, <1>12
<1>16. Total(x, Keys) = SumFunction(d)
    BY <1>9, <1>14, <1>15
<1> QED
    BY <1>1, <1>7, <1>13, <1>16

LEMMA OfferHolds ==
    ASSUME SpikeInv, NEW ts \in Nat, ts > now, ts <= Horizon, now' = ts,
           NEW present \in SUBSET Keys, NEW values \in [present -> Nat], Offer(ts, values)
    PROVE  SpikeInv'
<1> DEFINE p(k) == [ts |-> ts, v |-> values[k]]
           r == [k \in DOMAIN values |-> Step(k, series[k], p(k))]
           ends == {k \in DOMAIN values : series[k].phase = "post" /\ r[k].s.phase = "none"}
           above(k) == values[k] >= EffectiveThreshold(k, Baselined(series[k], p(k)))
           new(k) == Completed(series[k], p(k))
           x(k) == [ts |-> ts, v |-> values[k], above |-> above(k)]
           delta == [k \in DOMAIN values |-> r[k].delta]
<1>1. /\ series' = [k \in Keys |-> IF k \in DOMAIN values THEN r[k].s ELSE series[k]]
      /\ openCount' = openCount + SumFunction(delta)
      /\ done' = done \cup {new(k) : k \in ends}
      /\ seen' = [k \in Keys |-> IF k \in DOMAIN values THEN Append(seen[k], x(k)) ELSE seen[k]]
    BY DEF Offer
<1>2. DOMAIN values = present /\ present \subseteq Keys /\ \A k \in present : values[k] \in Nat
    OBVIOUS
<1>3. now \in Nat /\ \A k \in Keys : KeyHolds(k, series[k], seen[k], now)
    BY DEF SpikeInv
<1>4. \A k \in present : /\ p(k) \in Point /\ p(k).ts = ts /\ p(k).v = values[k]
                         /\ x(k) \in Record /\ x(k).ts = ts /\ x(k).v = values[k]
                         /\ x(k).above = (p(k).v >= EffectiveThreshold(k, Baselined(series[k], p(k))))
                         /\ Arrives(x(k), now)
    BY <1>2, <1>3 DEF Point, Record, Arrives
<1>5. /\ \A k \in present : r[k] = Step(k, series[k], p(k))
      /\ DOMAIN delta = present /\ \A k \in present : delta[k] = r[k].delta
    BY <1>2
<1>6. \A k \in ends : k \in present /\ k \in Keys /\ series[k].phase = "post" /\ r[k].s.phase = "none"
    BY <1>2
<1> HIDE DEF p, x, r, delta, ends, new
\* A series of the sample.
<1>7. ASSUME NEW k \in present
      PROVE  LET X == Range(seen[k])
             IN  /\ SeriesTyped(r[k].s) /\ SeriesHolds(k, r[k].s, X \cup {x(k)}, ts)
                 /\ BaselineHolds(r[k].s, ts)
                 /\ r[k].delta = Opens(r[k].s) - Opens(series[k])
                 /\ \A i \in DOMAIN r[k].s.hist : FromEither(series[k].hist, p(k), r[k].s.hist[i])
                 /\ series[k].phase # "none" => r[k].s.hist = series[k].hist
                 /\ series[k].phase = "post" /\ r[k].s.phase = "none"
                      => ts > series[k].ev.closing + PostCapture
                 /\ x(k).v >= Rule[k].static => x(k).above
                 /\ Known(X, now)
    <2> DEFINE X == Range(seen[k])
               s == series[k]
               q == p(k)
               y == x(k)
    <2>1. k \in Keys
        BY <1>2
    <2>2. Known(X, now) /\ SeriesTyped(s) /\ SeriesHolds(k, s, X, now) /\ BaselineHolds(s, now)
        BY <1>3, <2>1 DEF KeyHolds
    <2>3. /\ q \in Point /\ q.ts = ts /\ Arrives(y, now) /\ y.ts = q.ts /\ y.v = q.v
          /\ y.above = (q.v >= EffectiveThreshold(k, Baselined(s, q)))
          /\ r[k] = Step(k, s, q)
        BY <1>4, <1>5
    <2> HIDE DEF X, s, q, y
    <2> DEFINE z == Step(k, s, q)
    <2>4. /\ SeriesTyped(z.s) /\ SeriesHolds(k, z.s, X \cup {y}, q.ts) /\ BaselineHolds(z.s, q.ts)
          /\ z.delta = Opens(z.s) - Opens(s)
          /\ \A i \in DOMAIN z.s.hist : FromEither(s.hist, q, z.s.hist[i])
          /\ s.phase # "none" => z.s.hist = s.hist
          /\ s.phase = "post" /\ z.s.phase = "none" => q.ts > s.ev.closing + PostCapture
          /\ y.v >= Rule[k].static => y.above
        <3>1. now \in Nat
            BY <1>3
        <3> QED
            BY ONLY <2>1, <2>2, <2>3, <3>1, StepHolds DEF z
    <2> HIDE DEF z
    <2>5. r[k] = z
        BY <2>3 DEF z
    <2> QED
        BY <2>2, <2>3, <2>4, <2>5 DEF X, s, q, y
<1>8. ASSUME NEW k \in present
      PROVE  /\ series'[k] = r[k].s /\ seen'[k] = Append(seen[k], x(k))
             /\ Range(seen'[k]) = Range(seen[k]) \cup {x(k)} /\ seen'[k] \in Seq(Record)
    <2>1. series'[k] = r[k].s /\ seen'[k] = Append(seen[k], x(k))
        BY <1>1, <1>2
    <2>2. seen[k] \in Seq(Record) /\ x(k) \in Record
        BY <1>2, <1>3, <1>4 DEF KeyHolds
    <2>3. Append(seen[k], x(k)) \in Seq(Record)
        BY <2>2
    <2>4. Range(Append(seen[k], x(k))) = Range(seen[k]) \cup {x(k)}
        BY <2>2, RangeAppend
    <2> QED
        BY <2>1, <2>3, <2>4
<1>9. ASSUME NEW k \in Keys, k \notin present
      PROVE  series'[k] = series[k] /\ seen'[k] = seen[k]
    BY <1>1, <1>2, <1>9
<1>10. ASSUME NEW k \in Keys PROVE KeyHolds(k, series'[k], seen'[k], ts)
    <2>1. CASE k \in present
        <3>1. Known(Range(seen[k]) \cup {x(k)}, ts)
            <4>1. Known(Range(seen[k]), now) /\ Arrives(x(k), now) /\ x(k).ts = ts
                BY <1>4, <1>7, <2>1
            <4> DEFINE X == Range(seen[k])
                       y == x(k)
            <4> HIDE DEF X, y
            <4>2. Known(X \cup {y}, y.ts)
                BY <1>3, <4>1, KnownGrows DEF X, y
            <4> QED
                BY <4>1, <4>2 DEF X, y
        <3>2. \A z \in Range(seen[k]) \cup {x(k)} : z.v >= Rule[k].static => z.above
            BY <1>3, <1>7, <2>1 DEF KeyHolds
        <3> QED
            BY <1>7, <1>8, <2>1, <3>1, <3>2 DEF KeyHolds
    <2>2. CASE k \notin present
        <3>1. series'[k] = series[k] /\ seen'[k] = seen[k]
            BY <1>9, <2>2
        <3>2. KeyHolds(k, series[k], seen[k], now)
            BY <1>3
        <3>3. Known(Range(seen[k]), ts) /\ SeriesHolds(k, series[k], Range(seen[k]), ts)
              /\ BaselineHolds(series[k], ts)
            BY <1>3, <3>2, TimePasses DEF KeyHolds
        <3> QED
            BY <3>1, <3>2, <3>3 DEF KeyHolds
    <2> QED
        BY <2>1, <2>2
\* The completed events.
<1>11. ASSUME NEW e \in done
       PROVE  e.key \in Keys /\ DoneHolds(e, Range(seen'[e.key]), series'[e.key].hist, ts)
    <2> DEFINE k == e.key
    <2>1. k \in Keys /\ DoneHolds(e, Range(seen[k]), series[k].hist, now)
        BY DEF SpikeInv
    <2> HIDE DEF k
    <2>2. CASE k \in present
        <3> DEFINE X == Range(seen[k])
                   y == x(k)
                   q == p(k)
                   h == series[k].hist
                   l == r[k].s.hist
        <3>1. /\ Known(X, now) /\ Arrives(y, now) /\ y.ts = ts /\ q.ts = y.ts
              /\ DoneHolds(e, X, h, now) /\ \A i \in DOMAIN l : FromEither(h, q, l[i])
            BY <1>4, <1>7, <2>1, <2>2
        <3>2. series'[k].hist = l /\ Range(seen'[k]) = X \cup {y}
            BY <1>8, <2>2
        <3> HIDE DEF X, y, q, h, l
        <3>3. DoneHolds(e, X \cup {y}, l, y.ts)
            BY <1>3, <3>1, DoneStays
        <3> QED
            BY <2>1, <3>1, <3>2, <3>3 DEF k
    <2>3. CASE k \notin present
        <3>1. series'[k] = series[k] /\ seen'[k] = seen[k]
            BY <1>9, <2>1, <2>3
        <3>2. DoneHolds(e, Range(seen[k]), series[k].hist, ts)
            BY <1>3, <2>1, DoneWaits
        <3> QED
            BY <2>1, <3>1, <3>2 DEF k
    <2> QED
        BY <2>2, <2>3
<1>12. ASSUME NEW k \in ends
       PROVE  /\ new(k).key = k /\ k \in Keys
              /\ DoneHolds(new(k), Range(seen'[k]), series'[k].hist, ts)
    <2> DEFINE X == Range(seen[k])
               s == series[k]
               q == p(k)
               y == x(k)
               e == Completed(s, q)
    <2>0. k \in present /\ k \in Keys /\ s.phase = "post" /\ r[k].s.phase = "none"
        BY <1>6
    <2>1. Known(X, now) /\ SeriesTyped(s) /\ SeriesHolds(k, s, X, now) /\ BaselineHolds(s, now)
        BY <1>3, <2>0 DEF KeyHolds
    <2>2. q \in Point /\ q.ts = ts /\ Arrives(y, now) /\ y.ts = q.ts
        BY <1>4, <2>0
    <2>3. /\ series'[k].hist = s.hist /\ Range(seen'[k]) = X \cup {y}
          /\ ts > s.ev.closing + PostCapture
        BY <1>7, <1>8, <2>0
    <2> HIDE DEF X, s, q, y
    <2>4. /\ e \in Event /\ e.key = k /\ Began(k, e, X \cup {y}) /\ HasEnded(e, X \cup {y}, q.ts)
          /\ e.finished = q.ts /\ e.opened = s.ev.opened /\ e.closing = s.ev.closing
        BY <1>3, <2>0, <2>1, <2>2, CompletedIs
    <2> HIDE DEF e
    <2>5. \A i \in DOMAIN s.hist : s.hist[i].ts <= e.opened
        BY <2>0, <2>1, <2>4 DEF BaselineHolds
    <2>6. DoneHolds(e, X \cup {y}, s.hist, ts)
        BY <2>2, <2>3, <2>4, <2>5 DEF DoneHolds
    <2>7. new(k) = e
        BY DEF new, e, s, q
    <2> QED
        BY <2>0, <2>3, <2>4, <2>6, <2>7
<1>13. \A e \in done' : e.key \in Keys /\ DoneHolds(e, Range(seen'[e.key]), series'[e.key].hist, ts)
    <2> SUFFICES ASSUME NEW e \in done'
                 PROVE  e.key \in Keys /\ DoneHolds(e, Range(seen'[e.key]), series'[e.key].hist, ts)
        OBVIOUS
    <2>1. CASE e \in done
        BY <1>11, <2>1
    <2>2. CASE e \notin done
        <3>1. PICK k \in ends : e = new(k)
            BY <1>1, <2>2
        <3> QED
            BY <1>12, <3>1
    <2> QED
        BY <2>1, <2>2
\* The number of open events.
<1>14. openCount' = Cardinality({k \in Keys : series'[k].phase # "none"})
    <2> DEFINE A == {k \in Keys : series[k].phase # "none"}
               B == {k \in Keys : series'[k].phase # "none"}
               w == [k \in Keys |-> Opens(series[k])]
               v == [k \in Keys |-> Opens(series'[k])]
    <2>1. IsFiniteSet(Keys)
        BY DetectorAssumption DEF DetectorAssumption
    <2>2. A \subseteq Keys /\ B \subseteq Keys
        OBVIOUS
    <2>3. Marks(w, A)
        BY DEF Opens, Marks
    <2>4. Marks(v, B)
        BY DEF Opens, Marks
    <2>5. \A k \in present : delta[k] = v[k] - w[k]
        BY <1>2, <1>5, <1>7, <1>8
    <2>6. \A k \in Keys \ present : v[k] = w[k]
        BY <1>9
    <2>7. openCount = Cardinality(A)
        BY DEF SpikeInv
    <2> HIDE DEF A, B, w, v
    <2>8. Cardinality(A) + SumFunction(delta) = Cardinality(B)
        <3>1. Moves(delta, present, w, v)
            BY <1>5, <2>5, <2>6 DEF Moves
        <3> QED
            BY <2>1, <2>2, <2>3, <2>4, <3>1, CountMoves
    <2> QED
        BY <1>1, <2>7, <2>8 DEF B
<1> QED
    BY <1>10, <1>13, <1>14 DEF SpikeInv

LEMMA SpikeStepHolds ==
    ASSUME SpikeInv, [SpikeNext]_spikeVars
    PROVE  SpikeInv'
<1>1. CASE SpikeNext
    <2>1. PICK gap \in 1 .. MaxGap, values \in Readings :
              now + gap <= Horizon /\ now' = now + gap /\ Offer(now + gap, values)
        BY <1>1 DEF SpikeNext, OfferSample
    <2>2. PICK present \in SUBSET Keys :
              values \in [present -> UNION Range(Levels)] /\ \A k \in present : values[k] \in Levels[k]
        BY <2>1 DEF Readings
    <2>3. values \in [present -> Nat]
        BY <2>2, DetectorAssumption DEF DetectorAssumption
    <2>4. now + gap \in Nat /\ now + gap > now
        BY DetectorAssumption DEF DetectorAssumption, SpikeInv
    <2> QED
        BY <2>1, <2>3, <2>4, OfferHolds
<1>2. CASE UNCHANGED spikeVars
    BY <1>2 DEF spikeVars, SpikeInv
<1> QED
    BY <1>1, <1>2

-----------------------------------------------------------------------------
(* What the detector promises follows.                                     *)

LEMMA ListJoined ==
    ASSUME NEW a \in Seq(Point), NEW b \in Seq(Point), Increasing(a), Increasing(b), NEW m \in Int,
           \A i \in DOMAIN a : a[i].ts <= m, \A i \in DOMAIN b : m < b[i].ts
    PROVE  Increasing(a \o b) /\ a \o b \in Seq(Point)
<1> DEFINE c == a \o b
<1>1. /\ c \in Seq(Point) /\ Len(c) = Len(a) + Len(b)
      /\ \A i \in 1 .. Len(a) + Len(b) : c[i] = IF i <= Len(a) THEN a[i] ELSE b[i - Len(a)]
    BY ConcatProperties
<1>2. Len(a) \in Nat /\ Len(b) \in Nat
    OBVIOUS
<1>3. /\ \A i : i \in DOMAIN a <=> i \in 1 .. Len(a)
      /\ \A i : i \in DOMAIN b <=> i \in 1 .. Len(b)
    OBVIOUS
<1>4. /\ \A i \in 1 .. Len(a) : a[i].ts \in Nat /\ a[i].ts <= m
      /\ \A i \in 1 .. Len(b) : b[i].ts \in Nat /\ m < b[i].ts
    <2>1. /\ \A i \in DOMAIN a : a[i].ts \in Nat
          /\ \A i \in DOMAIN b : b[i].ts \in Nat
        BY PointAt
    <2> QED
        BY <1>3, <2>1
<1>5. /\ \A i \in 1 .. (Len(a) - 1) : a[i].ts < a[i + 1].ts
      /\ \A i \in 1 .. (Len(b) - 1) : b[i].ts < b[i + 1].ts
    BY DEF Increasing
<1> HIDE DEF c
<1>6. ASSUME NEW i \in 1 .. (Len(c) - 1) PROVE c[i].ts < c[i + 1].ts
    <2> DEFINE la == Len(a)
               lb == Len(b)
    <2>0. /\ la \in Nat /\ lb \in Nat /\ i \in Int /\ 1 <= i /\ i <= la + lb - 1
          /\ c[i] = (IF i <= la THEN a[i] ELSE b[i - la])
          /\ c[i + 1] = (IF i + 1 <= la THEN a[i + 1] ELSE b[i + 1 - la])
        BY <1>1, <1>2
    <2> HIDE DEF la, lb
    <2>1. CASE i + 1 <= la
        <3>1. i \in 1 .. (la - 1) /\ i <= la
            BY <2>0, <2>1
        <3>2. c[i] = a[i] /\ c[i + 1] = a[i + 1]
            BY <2>0, <2>1, <3>1
        <3> QED
            BY <1>5, <3>1, <3>2 DEF la
    <2>2. CASE i = la
        <3>1. i \in 1 .. la /\ i + 1 - la = 1 /\ 1 \in 1 .. lb
            BY <2>0, <2>2
        <3>2. c[i] = a[i] /\ c[i + 1] = b[1]
            BY <2>0, <2>2, <3>1
        <3> QED
            BY <1>4, <3>1, <3>2 DEF la, lb
    <2>3. CASE i > la
        <3>1. i - la \in 1 .. (lb - 1) /\ (i - la) + 1 = i + 1 - la
            BY <2>0, <2>3
        <3>2. c[i] = b[i - la] /\ c[i + 1] = b[(i - la) + 1]
            BY <2>0, <2>3, <3>1
        <3> QED
            BY <1>5, <3>1, <3>2 DEF lb
    <2> QED
        BY <2>0, <2>1, <2>2, <2>3
<1> QED
    BY <1>1, <1>6 DEF Increasing, c

LEMMA JoinedUpTo ==
    ASSUME NEW a \in Seq(Point), NEW b \in Seq(Point), NEW m \in Int,
           \A i \in DOMAIN a : a[i].ts <= m, \A i \in DOMAIN b : b[i].ts <= m
    PROVE  \A i \in DOMAIN (a \o b) : (a \o b)[i].ts <= m
<1> DEFINE c == a \o b
<1>1. /\ c \in Seq(Point) /\ Len(c) = Len(a) + Len(b)
      /\ \A i \in 1 .. Len(a) + Len(b) : c[i] = IF i <= Len(a) THEN a[i] ELSE b[i - Len(a)]
    BY ConcatProperties
<1>2. Len(a) \in Nat /\ Len(b) \in Nat
    OBVIOUS
<1>3. /\ \A i : i \in DOMAIN a <=> i \in 1 .. Len(a)
      /\ \A i : i \in DOMAIN b <=> i \in 1 .. Len(b)
    OBVIOUS
<1>4. \A i : i \in DOMAIN c <=> i \in 1 .. Len(c)
    BY <1>1
<1> HIDE DEF c
<1>5. ASSUME NEW i \in DOMAIN c PROVE c[i].ts <= m
    <2> DEFINE la == Len(a)
               lb == Len(b)
    <2>0. /\ la \in Nat /\ lb \in Nat /\ i \in Int /\ 1 <= i /\ i <= la + lb
          /\ c[i] = (IF i <= la THEN a[i] ELSE b[i - la])
        BY <1>1, <1>2, <1>4
    <2>1. /\ \A j \in 1 .. la : a[j].ts <= m
          /\ \A j \in 1 .. lb : b[j].ts <= m
        BY <1>3
    <2> HIDE DEF la, lb
    <2>2. CASE i <= la
        BY <2>0, <2>1, <2>2
    <2>3. CASE i > la
        <3>1. i - la \in 1 .. lb
            BY <2>0, <2>3
        <3> QED
            BY <2>0, <2>1, <2>3, <3>1
    <2> QED
        BY <2>0, <2>2, <2>3
<1> QED
    BY <1>5 DEF c

\* The lists of an event that lasted up to c.
LEMMA ListsOrdered ==
    ASSUME NEW k, NEW e, NEW X, Began(k, e, X), NEW c \in Nat, e.opened <= c, NEW t \in Nat,
           ListOf(e.during, MaxDuring, e.opened, c), ListOf(e.post, MaxPost, c, t)
    PROVE  /\ Len(e.pre) <= MaxPre /\ Len(e.during) <= MaxDuring /\ Len(e.post) <= MaxPost
           /\ Increasing(e.pre \o e.during \o e.post)
<1> DEFINE a == e.pre
           b == e.during
           d == e.post
           o == e.opened
           ab == a \o b
<1>1. /\ a \in Seq(Point) /\ Increasing(a) /\ Len(a) <= MaxPre /\ \A i \in DOMAIN a : a[i].ts <= o
      /\ b \in Seq(Point) /\ Increasing(b) /\ Len(b) <= MaxDuring
      /\ \A i \in DOMAIN b : o < b[i].ts /\ b[i].ts <= c
      /\ d \in Seq(Point) /\ Increasing(d) /\ Len(d) <= MaxPost /\ \A i \in DOMAIN d : c < d[i].ts
    BY DEF Began, ListOf
<1>2. o \in Nat /\ o <= c
    BY EventTypes DEF Began
<1> HIDE DEF a, b, d, o
<1>3. \A i \in DOMAIN a : a[i].ts <= c
    <2> TAKE i \in DOMAIN a
    <2>1. a[i].ts \in Nat /\ a[i].ts <= o
        BY <1>1, PointAt
    <2> QED
        BY <1>2, <2>1
<1>4. Increasing(ab) /\ ab \in Seq(Point)
    <2>1. o \in Int
        BY <1>2
    <2>2. \A i \in DOMAIN b : o < b[i].ts
        BY <1>1
    <2>3. Increasing(a \o b) /\ a \o b \in Seq(Point)
        BY ONLY <1>1, <2>1, <2>2, ListJoined
    <2> QED
        BY <2>3
<1>5. \A i \in DOMAIN ab : ab[i].ts <= c
    BY <1>1, <1>3, JoinedUpTo
<1> HIDE DEF ab
<1>6. Increasing(ab \o d)
    <2>1. c \in Int
        OBVIOUS
    <2> QED
        BY ONLY <1>1, <1>4, <1>5, <2>1, ListJoined
<1> QED
    BY <1>1, <1>6 DEF ab, a, b, d

\* What is known of an event, open or complete.
EventHolds(e, X, t) ==
    /\ Known(X, t) /\ Began(e.key, e, X) /\ e.opened <= t
    /\ \/ /\ e.closing = NoTime /\ e.finished = NoTime /\ e.post = <<>>
          /\ ListOf(e.during, MaxDuring, e.opened, t) /\ FirstIs(X, e.opened, e.during)
       \/ HasEnded(e, X, t)

LEMMA EventKnown ==
    ASSUME SpikeInv, NEW e \in Events
    PROVE  e.key \in Keys /\ EventHolds(e, SeenOf(e.key), now) /\ now \in Nat
<1>0. now \in Nat
    BY DEF SpikeInv
<1>1. CASE e \in done
    <2> DEFINE k == e.key
    <2>1. k \in Keys /\ DoneHolds(e, SeenOf(k), series[k].hist, now) /\ Known(SeenOf(k), now)
        BY <1>1 DEF SpikeInv, KeyHolds, SeenOf
    <2> HIDE DEF k
    <2>2. Began(e.key, e, SeenOf(k)) /\ HasEnded(e, SeenOf(k), now)
        BY <2>1 DEF DoneHolds
    <2>3. e.opened \in Nat /\ e.end \in Nat /\ e.closing \in Nat
        BY <2>2, EventTypes DEF Began
    <2>4. e.opened <= now
        BY <1>0, <2>2, <2>3 DEF HasEnded
    <2> QED
        BY <1>0, <2>1, <2>2, <2>4 DEF EventHolds, k
<1>2. CASE e \notin done
    <2>1. PICK k \in Keys : e = series[k].ev /\ series[k].phase # "none"
        BY <1>2 DEF Events, OpenEvents, Open
    <2> DEFINE s == series[k]
               X == SeenOf(k)
    <2>2. Known(X, now) /\ SeriesTyped(s) /\ SeriesHolds(k, s, X, now)
        BY <2>1 DEF SpikeInv, KeyHolds, SeenOf
    <2>3. e = s.ev /\ s.phase # "none"
        BY <2>1
    <2> HIDE DEF s, X
    <2>4. Began(k, e, X) /\ e.opened <= now /\ s.phase \in {"during", "post"}
        BY <2>2, <2>3 DEF SeriesHolds, SeriesTyped, Phases
    <2>5. e.key = k
        BY <2>4 DEF Began
    <2>6. CASE s.phase = "during"
        <3>1. GoesOn(e, X, now, s.belowSince)
            BY <2>2, <2>3, <2>6 DEF SeriesHolds
        <3>2. EventHolds(e, X, now)
            BY <2>2, <2>4, <2>5, <3>1 DEF EventHolds, GoesOn
        <3> QED
            BY <1>0, <2>5, <3>2 DEF X
    <2>7. CASE s.phase = "post"
        <3>1. HasEnded(e, X, now)
            BY <2>2, <2>3, <2>7 DEF SeriesHolds
        <3>2. EventHolds(e, X, now)
            BY <2>2, <2>4, <2>5, <3>1 DEF EventHolds
        <3> QED
            BY <1>0, <2>5, <3>2 DEF X
    <2> QED
        BY <2>4, <2>6, <2>7
<1> QED
    BY <1>1, <1>2

LEMMA ListsFollow ==
    ASSUME SpikeInv
    PROVE  SampleListsBounded
<1> SUFFICES ASSUME NEW e \in Events
             PROVE  LET after == Within(e.key, e.opened + 1, now)
                    IN  /\ Len(e.pre) <= MaxPre /\ Len(e.during) <= MaxDuring /\ Len(e.post) <= MaxPost
                        /\ Increasing(e.pre \o e.during \o e.post)
                        /\ after # {} =>
                              \E x \in after : (\A y \in after : x.ts <= y.ts) /\ x.ts = e.during[1].ts
                        /\ e.closing # NoTime => e.during[Len(e.during)].ts = e.closing
    BY DEF SampleListsBounded
<1> DEFINE X == SeenOf(e.key)
           after == Within(e.key, e.opened + 1, now)
<1>1. EventHolds(e, X, now) /\ now \in Nat
    BY EventKnown
<1>2. Known(X, now) /\ Began(e.key, e, X) /\ e.opened <= now
    BY <1>1 DEF EventHolds
<1>3. e.opened \in Nat /\ e.end \in Nat /\ e.closing \in Nat
    BY <1>2, EventTypes DEF Began
<1>4. \A x : x \in after <=> x \in X /\ e.opened < x.ts
    <2>1. \A x : x \in after <=> x \in X /\ e.opened + 1 <= x.ts /\ x.ts <= now
        BY DEF Within
    <2>2. \A x \in X : x.ts \in Nat /\ x.ts <= now
        BY <1>2 DEF Known
    <2> QED
        BY <1>3, <2>1, <2>2
<1> HIDE DEF X, after
<1>5. PICK c \in Nat :
          /\ e.opened <= c /\ ListOf(e.during, MaxDuring, e.opened, c) /\ ListOf(e.post, MaxPost, c, now)
          /\ FirstIs(X, e.opened, e.during)
          /\ e.closing # NoTime => e.during[Len(e.during)].ts = e.closing
    <2>1. CASE HasEnded(e, X, now)
        <3>1. e.opened <= e.closing
            BY <1>3, <2>1 DEF HasEnded
        <3> QED
            BY <1>3, <2>1, <3>1 DEF HasEnded
    <2>2. CASE ~HasEnded(e, X, now)
        <3>1. /\ e.closing = NoTime /\ e.post = <<>>
              /\ ListOf(e.during, MaxDuring, e.opened, now) /\ FirstIs(X, e.opened, e.during)
            BY <1>1, <2>2 DEF EventHolds
        <3>2. ListOf(e.post, MaxPost, now, now)
            BY <3>1, EmptyList, SizesNat
        <3> QED
            BY <1>1, <1>2, <3>1, <3>2
    <2> QED
        BY <2>1, <2>2
<1>6. /\ Len(e.pre) <= MaxPre /\ Len(e.during) <= MaxDuring /\ Len(e.post) <= MaxPost
      /\ Increasing(e.pre \o e.during \o e.post)
    BY <1>1, <1>2, <1>5, ListsOrdered
<1>7. ASSUME after # {}
      PROVE  \E x \in after : (\A y \in after : x.ts <= y.ts) /\ x.ts = e.during[1].ts
    <2>1. e.during # <<>>
        <3>1. PICK x \in X : e.opened < x.ts
            BY <1>4, <1>7
        <3>2. x.ts \in Nat
            BY <1>2 DEF Known
        <3> QED
            BY <1>3, <1>5, <3>1, <3>2 DEF FirstIs
    <2>2. PICK x \in X : /\ e.opened < x.ts /\ x.ts = e.during[1].ts
                         /\ \A y \in X : e.opened < y.ts => x.ts <= y.ts
        BY <1>5, <2>1 DEF FirstIs
    <2> QED
        BY <1>4, <2>2
<1> QED
    BY <1>5, <1>6, <1>7 DEF after

LEMMA ClimbIsSaved ==
    ASSUME SpikeInv
    PROVE  PreHasClimb
<1> SUFFICES ASSUME NEW e \in Events, Rule[e.key].sustained < PreCap, PreCap <= MaxPre,
                    NEW x \in Within(e.key, e.start, e.opened)
             PROVE  \E i \in DOMAIN e.pre : e.pre[i].ts = x.ts
    BY DEF PreHasClimb
<1>1. Began(e.key, e, SeenOf(e.key))
    BY EventKnown DEF EventHolds
<1>2. x \in SeenOf(e.key) /\ e.start <= x.ts /\ x.ts <= e.opened
    BY DEF Within
<1> QED
    BY <1>1, <1>2 DEF Began

LEMMA EventsAreExplained ==
    ASSUME SpikeInv
    PROVE  EventsExplained
<1> SUFFICES ASSUME NEW e \in done
             PROVE  LET k == e.key
                    IN  /\ \A x \in Within(k, e.start, e.opened) : x.above
                        /\ e.opened - e.start >= Rule[k].sustained
                        /\ \A x \in Within(k, e.end, e.closing) : ~x.above
                        /\ e.closing - e.end >= CloseBelow
                        /\ \A a, b \in Within(k, e.opened, e.closing - 1) :
                              (\A x \in Within(k, a.ts, b.ts) : ~x.above) => b.ts - a.ts < CloseBelow
                        /\ \A x \in Within(k, e.end - MaxGap, e.end - 1) :
                              (Within(k, x.ts + 1, e.end - 1) = {}) => x.above
                        /\ e.peak = Max({x.v : x \in Within(k, e.opened, e.closing)})
                        /\ e.finished > e.closing + PostCapture
    BY DEF EventsExplained
<1> DEFINE k == e.key
           X == SeenOf(k)
<1>1. k \in Keys /\ DoneHolds(e, X, series[k].hist, now) /\ Known(X, now)
    BY DEF SpikeInv, KeyHolds, SeenOf
<1>2. \A from, to : \A x : x \in Within(k, from, to) <=> x \in X /\ from <= x.ts /\ x.ts <= to
    BY DEF Within
<1> HIDE DEF k, X
<1>3. Began(k, e, X) /\ HasEnded(e, X, now) /\ e.finished > e.closing + PostCapture
    BY <1>1 DEF DoneHolds, k
<1>4. e.opened \in Nat /\ e.end \in Nat /\ e.closing \in Nat /\ e.peak \in Nat
    BY <1>3, EventTypes DEF Began
<1>5. \A x \in X : x.ts \in Nat /\ x.v \in Nat
    BY <1>1 DEF Known
<1>6. (\A x \in Within(k, e.start, e.opened) : x.above) /\ e.opened - e.start >= Rule[k].sustained
    BY <1>2, <1>3 DEF Began, AllAbove
<1>7. (\A x \in Within(k, e.end, e.closing) : ~x.above) /\ e.closing - e.end >= CloseBelow
    BY <1>2, <1>3 DEF HasEnded, AllBelow
<1>8. ASSUME NEW a \in Within(k, e.opened, e.closing - 1), NEW b \in Within(k, e.opened, e.closing - 1),
             \A x \in Within(k, a.ts, b.ts) : ~x.above
      PROVE  b.ts - a.ts < CloseBelow
    <2>1. a \in X /\ b \in X /\ e.opened <= a.ts /\ b.ts <= e.closing - 1
        BY <1>2
    <2>2. b.ts < e.closing
        BY <1>4, <1>5, <2>1
    <2>3. AllBelow(X, a.ts, b.ts)
        BY <1>2, <1>8 DEF AllBelow
    <2>4. NoLull(X, e.opened, e.closing)
        BY <1>3 DEF HasEnded
    <2> QED
        BY <2>1, <2>2, <2>3, <2>4 DEF NoLull
<1>9. ASSUME NEW x \in Within(k, e.end - MaxGap, e.end - 1), Within(k, x.ts + 1, e.end - 1) = {}
      PROVE  x.above
    <2>1. x \in X /\ x.ts <= e.end - 1 /\ x.ts \in Nat
        BY <1>2, <1>5
    <2>2. x.ts < e.end
        BY <1>4, <2>1
    <2>3. \A y \in X : ~(x.ts + 1 <= y.ts /\ y.ts <= e.end - 1)
        BY <1>2, <1>9
    <2>4. \A y \in X : ~(x.ts < y.ts /\ y.ts < e.end)
        BY <1>4, <1>5, <2>1, <2>3
    <2>5. Before(X, e.end)
        BY <1>3 DEF HasEnded
    <2> QED
        BY <2>1, <2>2, <2>4, <2>5 DEF Before
<1>10. e.peak = Max({x.v : x \in Within(k, e.opened, e.closing)})
    <2> DEFINE V == {x.v : x \in Within(k, e.opened, e.closing)}
    <2>1. Peaks(X, e.opened, e.closing, e.peak)
        BY <1>3 DEF HasEnded
    <2>2. e.peak \in V
        BY <1>2, <2>1 DEF Peaks
    <2>3. \A v \in V : v \in Nat /\ v <= e.peak
        BY <1>2, <1>5, <2>1 DEF Peaks
    <2> HIDE DEF V
    <2>4. V \subseteq 0 .. e.peak /\ V \subseteq Int
        BY <1>4, <2>3
    <2>5. IsFiniteSet(0 .. e.peak)
        BY <1>4, FS_Interval
    <2>6. IsFiniteSet(V)
        BY <2>4, <2>5, FS_Subset
    <2>7. Max(V) = e.peak
        BY <2>2, <2>3, <2>4, <2>6, MaxIs
    <2> QED
        BY <2>7 DEF V
<1> QED
    BY <1>3, <1>6, <1>7, <1>8, <1>9, <1>10 DEF k

\* Every event is what its rule says of the samples, and shows the climb that
\* opened it and the samples of its course in order.
THEOREM EventsAreReal == SpikeSpec => []EventsFollowRule
<1>1. SpikeInit => SpikeInv
    BY SpikeInitHolds
<1>2. SpikeInv /\ [SpikeNext]_spikeVars => SpikeInv'
    BY SpikeStepHolds
<1>3. SpikeInv => EventsFollowRule
    <2> SUFFICES ASSUME SpikeInv PROVE EventsFollowRule
        OBVIOUS
    <2>1. CaptureCountExact
        BY DEF SpikeInv, CaptureCountExact, Open
    <2> QED
        BY <2>1, EventsAreExplained, ListsFollow, ClimbIsSaved DEF EventsFollowRule
<1> QED
    BY <1>1, <1>2, <1>3, PTL DEF SpikeSpec

LEMMA NoSpikeIsMissed ==
    ASSUME SpikeInv, Cooldown > 0
    PROVE  NoMissedSpike
<1> SUFFICES ASSUME NEW k \in Keys, NEW a \in SeenOf(k), NEW b \in SeenOf(k),
                    ~Open(k), a.ts >= series[k].cooldownTill,
                    \A x \in Within(k, a.ts, b.ts) : x.v >= Rule[k].static,
                    Within(k, b.ts + 1, now) = {}
             PROVE  b.ts - a.ts < Rule[k].sustained
    BY DEF NoMissedSpike
<1> DEFINE X == SeenOf(k)
           s == series[k]
<1>1. /\ Known(X, now) /\ SeriesTyped(s) /\ SeriesHolds(k, s, X, now)
      /\ \A x \in X : x.v >= Rule[k].static => x.above
    BY DEF SpikeInv, KeyHolds, SeenOf
<1>2. \A x : \A from, to : x \in Within(k, from, to) <=> x \in X /\ from <= x.ts /\ x.ts <= to
    BY DEF Within
<1>3. /\ s.phase = "none" /\ s.cooldownTill <= a.ts /\ a \in X /\ b \in X
      /\ \A x \in X : a.ts <= x.ts /\ x.ts <= b.ts => x.v >= Rule[k].static
      /\ \A x \in X : ~(b.ts + 1 <= x.ts /\ x.ts <= now)
    <2>1. s.cooldownTill \in Nat /\ a.ts \in Nat
        BY <1>1 DEF SeriesTyped, Known
    <2> QED
        BY <1>2, <2>1 DEF Open
<1> HIDE DEF X, s
<1>4. \A x \in X : x.ts \in Nat /\ x.ts <= now
    BY <1>1 DEF Known
<1>5. \A x \in X : x.ts <= b.ts
    BY <1>3, <1>4
<1>6. Climbs(X, s.aboveSince, s.cooldownTill, Rule[k].sustained)
    BY <1>1, <1>3 DEF SeriesHolds
<1>7. \A x \in X : a.ts <= x.ts => x.above
    BY <1>1, <1>3, <1>5
<1>8. s.aboveSince # NoTime /\ s.aboveSince <= a.ts /\ s.aboveSince \in Nat
    BY <1>1, <1>3, <1>6, <1>7 DEF Climbs, SeriesTyped
<1>9. a.ts \in Nat /\ b.ts \in Nat /\ a.ts <= b.ts /\ Rule[k].sustained \in Nat
    BY <1>3, <1>4, <1>5, RuleNat
<1>10. b.ts - s.aboveSince < Rule[k].sustained
    BY <1>3, <1>6, <1>8, <1>9 DEF Climbs
<1> QED
    BY <1>8, <1>9, <1>10

LEMMA CaptureIsNoBaseline ==
    ASSUME SpikeInv
    PROVE  BaselineWithoutCapture
<1> SUFFICES ASSUME NEW k \in Keys, NEW i \in DOMAIN series[k].hist, NEW e \in Events, e.key = k
             PROVE  LET ts == series[k].hist[i].ts
                    IN  ~(e.opened < ts /\ (ts <= e.finished \/ e.finished = NoTime))
    BY DEF BaselineWithoutCapture
<1> DEFINE s == series[k]
           X == SeenOf(k)
<1>1. SeriesTyped(s) /\ SeriesHolds(k, s, X, now) /\ BaselineHolds(s, now)
    BY DEF SpikeInv, KeyHolds, SeenOf
<1>2. s.hist[i].ts \in Nat
    <2>1. s.hist \in Seq(Point) /\ i \in DOMAIN s.hist
        BY <1>1 DEF SeriesTyped
    <2> QED
        BY <2>1, PointAt
<1>3. e.opened \in Nat /\ e.closing \in Nat /\ e.finished \in Nat
    BY EventKnown, EventTypes DEF EventHolds, Began
<1>4. CASE e \in done
    <2>1. DoneHolds(e, X, s.hist, now)
        BY <1>4 DEF SpikeInv, SeenOf
    <2>2. e.finished > e.closing + PostCapture /\ (s.hist[i].ts <= e.opened \/ e.finished < s.hist[i].ts)
        BY <2>1 DEF DoneHolds
    <2> QED
        BY <1>2, <1>3, <2>2, SizesNat DEF NoTime
<1>5. CASE e \notin done
    <2>1. PICK j \in Keys : e = series[j].ev /\ series[j].phase # "none"
        BY <1>5 DEF Events, OpenEvents, Open
    <2>2. SeriesHolds(j, series[j], SeenOf(j), now)
        BY <2>1 DEF SpikeInv, KeyHolds, SeenOf
    <2>3. e.key = j
        BY <2>1, <2>2 DEF SeriesHolds, Began
    <2>4. s.phase # "none" /\ e = s.ev
        BY <2>1, <2>3
    <2>5. s.hist[i].ts <= e.opened
        BY <1>1, <2>4 DEF BaselineHolds
    <2> QED
        BY <1>2, <1>3, <2>5
<1> QED
    BY <1>4, <1>5

\* Every climb above the static threshold that is long enough and outside a
\* cooldown becomes an event, and no sample of an event raises the baseline.  The
\* cooldown must not be zero: the sample that completes an event starts no climb,
\* and with no cooldown it would be the first of one.
THEOREM SpikesBecomeEvents ==
    ASSUME Cooldown > 0
    PROVE  SpikeSpec => []SpikesAreEvents
<1>1. SpikeInit => SpikeInv
    BY SpikeInitHolds
<1>2. SpikeInv /\ [SpikeNext]_spikeVars => SpikeInv'
    BY SpikeStepHolds
<1>3. SpikeInv => SpikesAreEvents
    BY NoSpikeIsMissed, CaptureIsNoBaseline DEF SpikesAreEvents
<1> QED
    BY <1>1, <1>2, <1>3, PTL DEF SpikeSpec

-----------------------------------------------------------------------------
(***************************************************************************)
(* Proof that an event is observed and gets the evidence there is.  A ring *)
(* that has lost a snapshot is full and begins after it; what a snapshot   *)
(* adds comes too late to overlap an event that is complete, because the   *)
(* tail of the event is longer than the window.                            *)
(***************************************************************************)

\* What the ring r holds of the snapshots T that were taken up to t.
RingHeld(r, T, t) ==
    /\ r \in Seq(Nat) /\ r # <<>> /\ Len(r) <= HistCap
    /\ \A i, j \in DOMAIN r : i <= j => r[i] <= r[j]
    /\ Range(r) \subseteq T
    /\ \A y \in T : /\ y \in Nat /\ y <= t
                    /\ y \in Range(r) \/ (Len(r) = HistCap /\ y < r[1])

LEMMA SnapshotIsHeld ==
    ASSUME NEW r, NEW T, NEW t0 \in Nat, RingHeld(r, T, t0), NEW t \in Nat, t0 <= t
    PROVE  LET u == Latest(Append(r, t), HistCap)
           IN  RingHeld(u, T \cup {t}, t) /\ r[1] <= u[1] /\ Len(r) <= Len(u)
<1> DEFINE a == Append(r, t)
           u == Latest(a, HistCap)
           n == Len(r)
           d == Passed(Len(a), HistCap)
<1>0. HistCap \in Nat \ {0}
    BY CaptureAssumption DEF CaptureAssumption
<1>1. /\ r \in Seq(Nat) /\ r # <<>> /\ Len(r) <= HistCap
      /\ \A i, j \in DOMAIN r : i <= j => r[i] <= r[j]
      /\ \A y \in Range(r) : y \in T
      /\ \A y \in T : /\ y \in Nat /\ y <= t0
                      /\ y \in Range(r) \/ (Len(r) = HistCap /\ y < r[1])
    BY DEF RingHeld
<1>2. n \in Nat \ {0} /\ \A i : i \in DOMAIN r <=> i \in 1 .. n
    BY <1>1
<1>3. /\ a \in Seq(Nat) /\ Len(a) = n + 1 /\ a[n + 1] = t
      /\ \A i \in 1 .. n : a[i] = r[i]
    BY <1>1, AppendProperties
<1>4. /\ d \in Nat /\ u \in Seq(Nat) /\ d <= n + 1 /\ Len(u) = (n + 1) - d
      /\ \A x : x \in DOMAIN u <=> x \in 1 .. ((n + 1) - d)
      /\ \A i \in 1 .. ((n + 1) - d) : u[i] = a[d + i]
    <2> HIDE DEF a, n, d
    <2>1. a \in Seq(Nat) /\ HistCap \in Nat
        BY <1>0, <1>3
    <2>2. /\ d \in Nat /\ u \in Seq(Nat) /\ d <= Len(a) /\ Len(u) = Len(a) - d
          /\ \A x : x \in DOMAIN u <=> x \in 1 .. (Len(a) - d)
        BY <2>1, LatestPlaces DEF d
    <2>3. \A i \in 1 .. (Len(a) - d) : u[i] = a[d + i]
        BY <2>1, LatestPlaces DEF d
    <2> QED
        BY <1>3, <2>2, <2>3
<1>5. d = (IF n + 1 <= HistCap THEN 0 ELSE (n + 1) - HistCap)
    BY <1>3 DEF Passed
<1>6. n <= HistCap
    BY <1>1
<1>7. /\ d \in {0, 1} /\ (d = 1 => n = HistCap) /\ (d = 0 => n < HistCap) /\ d <= n
      /\ Len(u) <= HistCap /\ Len(u) >= n /\ Len(u) \in Nat \ {0}
    BY <1>0, <1>2, <1>4, <1>5, <1>6
<1>8. \A i \in 1 .. n : r[i] \in Nat /\ r[i] \in T /\ r[i] <= t0
    BY <1>1, <1>2 DEF Range
<1>9. \A i \in 1 .. (n + 1) : a[i] \in Nat /\ a[i] <= t /\ a[i] \in T \cup {t}
    BY <1>2, <1>3, <1>8
<1>10. \A i, j \in 1 .. (n + 1) : i <= j => a[i] <= a[j]
    <2> SUFFICES ASSUME NEW i \in 1 .. (n + 1), NEW j \in 1 .. (n + 1), i <= j PROVE a[i] <= a[j]
        OBVIOUS
    <2>1. CASE j = n + 1
        BY <1>3, <1>9, <2>1
    <2>2. CASE j # n + 1
        <3>1. i \in 1 .. n /\ j \in 1 .. n
            BY <1>2, <2>2
        <3> QED
            BY <1>1, <1>2, <1>3, <3>1
    <2> QED
        BY <2>1, <2>2
<1> HIDE DEF a, u, n, d
<1>11. \A i \in 1 .. ((n + 1) - d) : d + i \in 1 .. (n + 1) /\ u[i] = a[d + i]
    BY <1>2, <1>4, <1>7
<1>12. 1 \in 1 .. ((n + 1) - d) /\ d + 1 \in 1 .. (n + 1) /\ u[1] = a[d + 1]
    <2>1. 1 \in 1 .. ((n + 1) - d)
        BY <1>2, <1>7
    <2> QED
        BY <1>11, <2>1
<1>13. ASSUME NEW i \in DOMAIN u, NEW j \in DOMAIN u, i <= j PROVE u[i] <= u[j]
    <2>1. i \in 1 .. ((n + 1) - d) /\ j \in 1 .. ((n + 1) - d)
        BY <1>4
    <2>2. d + i <= d + j
        BY <1>2, <1>7, <1>13, <2>1
    <2> QED
        BY <1>10, <1>11, <2>1, <2>2
<1>14. Range(u) \subseteq T \cup {t}
    BY <1>4, <1>9, <1>11 DEF Range
<1>15. \A i \in 1 .. (n + 1) : a[i] \in Range(u) \/ (Len(u) = HistCap /\ a[i] < u[1])
    <2> SUFFICES ASSUME NEW i \in 1 .. (n + 1)
                 PROVE  a[i] \in Range(u) \/ (Len(u) = HistCap /\ a[i] < u[1])
        OBVIOUS
    <2>1. CASE i > d
        <3>1. i - d \in 1 .. ((n + 1) - d) /\ d + (i - d) = i
            BY <1>2, <1>7, <2>1
        <3>2. i - d \in DOMAIN u /\ u[i - d] = a[i]
            BY <1>4, <1>11, <3>1
        <3> QED
            BY <3>2 DEF Range
    <2>2. CASE i <= d
        <3>1. d = 1 /\ i = 1 /\ Len(u) = HistCap
            BY <1>2, <1>4, <1>7, <2>2
        <3>2. a[i] <= u[1] /\ a[i] \in Nat /\ u[1] \in Nat
            BY <1>2, <1>9, <1>10, <1>12, <3>1
        <3>3. u[1] \in Range(u)
            BY <1>4, <1>12 DEF Range
        <3> QED
            BY <3>1, <3>2, <3>3
    <2> QED
        BY <1>2, <1>7, <2>1, <2>2
<1>16. r[1] = a[1] /\ r[1] <= u[1] /\ r[1] \in Nat /\ u[1] \in Nat
    <2>1. 1 \in 1 .. n /\ 1 \in 1 .. (n + 1) /\ 1 <= d + 1
        BY <1>2, <1>7
    <2> QED
        BY <1>3, <1>8, <1>9, <1>10, <1>12, <2>1
<1>17. ASSUME NEW y \in T \cup {t}
       PROVE  y \in Nat /\ y <= t /\ (y \in Range(u) \/ (Len(u) = HistCap /\ y < u[1]))
    <2>1. CASE \E i \in 1 .. (n + 1) : y = a[i]
        BY <1>9, <1>15, <2>1
    <2>2. CASE ~\E i \in 1 .. (n + 1) : y = a[i]
        <3>1. y # t /\ y \in T
            BY <1>2, <1>3, <2>2
        <3>2. y \notin Range(r)
            <4> SUFFICES ASSUME y \in Range(r) PROVE FALSE
                OBVIOUS
            <4>1. PICK i \in DOMAIN r : y = r[i]
                BY DEF Range
            <4>2. i \in 1 .. n /\ i \in 1 .. (n + 1)
                BY <1>2
            <4> QED
                BY <1>3, <2>2, <4>1, <4>2
        <3>3. y \in Nat /\ y <= t0 /\ n = HistCap /\ y < r[1]
            BY <1>1, <3>1, <3>2 DEF n
        <3>4. Len(u) = HistCap
            BY <1>0, <1>2, <1>4, <1>7, <3>3
        <3> QED
            BY <1>16, <3>3, <3>4
    <2> QED
        BY <2>1, <2>2
<1>18. u # <<>>
    BY <1>7
<1>19. RingHeld(u, T \cup {t}, t)
    BY <1>4, <1>7, <1>13, <1>14, <1>17, <1>18 DEF RingHeld
<1> QED
    BY <1>7, <1>16, <1>19 DEF u, a, n

\* A step of a series opens an event at its sample, or leaves the opening of the
\* one that is open.
LEMMA StepOpened ==
    ASSUME NEW k, NEW s0, DOMAIN s0 = Fields, s0.phase \in Phases,
           s0.phase # "none" => DOMAIN s0.ev = EventFields, NEW p
    PROVE  LET r == Step(k, s0, p).s
           IN  r.phase # "none" =>
                 IF s0.phase = "none" THEN r.ev.opened = p.ts ELSE r.ev.opened = s0.ev.opened
<1> DEFINE s == Baselined(s0, p)
           above == p.v >= EffectiveThreshold(k, s)
           r == Step(k, s0, p).s
<1>1. Same(s0, s)
    BY BaselinedSame
<1> HIDE DEF s
<1>2. /\ DOMAIN s = Fields /\ s.phase = s0.phase /\ s.ev = s0.ev
    BY <1>1 DEF Same
<1>3. CASE s.phase = "none"
    <2> DEFINE since == AboveSince(s, p, above)
               u == [s EXCEPT !.pre = Ring(s, p, above), !.aboveSince = since]
               ev == Opened(k, u, p)
               w == [u EXCEPT !.phase = "during", !.ev = ev, !.belowSince = NoTime]
    <2>1. Step(k, s0, p) = Quiet(k, s, p, above)
        BY <1>3 DEF Step, s, above
    <2>2. Quiet(k, s, p, above).s = u \/ Quiet(k, s, p, above).s = w
        BY DEF Quiet, Result
    <2>3. DOMAIN u = Fields /\ u.phase = "none"
        <3> HIDE DEF since
        <3> QED
            BY <1>2, <1>3, FieldNames
    <2>4. ev.opened = p.ts
        <3> HIDE DEF u
        <3> QED
            BY DEF Opened
    <2> HIDE DEF u, ev
    <2>5. w.ev = ev
        BY <2>3, FieldNames
    <2> HIDE DEF w
    <2> QED
        BY <1>2, <1>3, <2>1, <2>2, <2>3, <2>4, <2>5
<1>4. CASE s.phase = "during"
    <2> DEFINE since == BelowSince(s, p, above)
               d == AppendCapped(s.ev.during, p, MaxDuring)
               m == MaxOf(s.ev.peak, p.v)
               ev == [s.ev EXCEPT !.during = d, !.peak = m]
               u == [s EXCEPT !.ev = ev, !.belowSince = since]
               w == [u EXCEPT !.ev.end = since, !.ev.closing = p.ts,
                              !.phase = "post", !.postUntil = p.ts + PostCapture]
    <2>1. Step(k, s0, p).s = During(s, p, above)
        BY <1>4 DEF Step, s, above, Result
    <2>2. During(s, p, above) = u \/ During(s, p, above) = w
        BY DEF During
    <2> HIDE DEF since, d, m
    <2>3. DOMAIN ev = EventFields /\ ev.opened = s.ev.opened
        BY <1>2, <1>4 DEF EventFields
    <2>4. DOMAIN u = Fields /\ u.ev = ev
        <3> HIDE DEF ev
        <3> QED
            BY <1>2, FieldNames
    <2> HIDE DEF u, ev
    <2>5. w.ev.opened = ev.opened
        BY <2>3, <2>4, FieldNames DEF EventFields
    <2> HIDE DEF w
    <2> QED
        BY <1>2, <1>4, <2>1, <2>2, <2>3, <2>4, <2>5
<1>5. CASE s.phase = "post"
    <2> DEFINE q == AppendCapped(s.ev.post, p, MaxPost)
               u == [s EXCEPT !.ev.post = q]
               w == [s EXCEPT !.phase = "none", !.ev = <<>>, !.postUntil = NoTime,
                              !.cooldownTill = p.ts + Cooldown, !.aboveSince = NoTime]
    <2>1. Step(k, s0, p) = Post(s, p)
        BY <1>5 DEF Step, s, above
    <2>2. Post(s, p).s = u \/ Post(s, p).s = w
        BY DEF Post, Result
    <2> HIDE DEF q
    <2>3. u.ev.opened = s.ev.opened
        BY <1>2, <1>5, FieldNames DEF EventFields
    <2>4. w.phase = "none"
        BY <1>2, FieldNames
    <2> HIDE DEF u, w
    <2> QED
        BY <1>2, <1>5, <2>1, <2>2, <2>3, <2>4
<1> QED
    BY <1>2, <1>3, <1>4, <1>5 DEF Phases

\* An event that is open after the sample of t was opened by it or was open before.
OpenSince(k, t) ==
    series'[k].phase # "none" =>
      \/ series'[k].ev.opened = t
      \/ series[k].phase # "none" /\ series'[k].ev.opened = series[k].ev.opened

\* The event e was completed by the sample of t.
FinishedBy(e, t) ==
    e.finished = t /\ \E k \in Keys : series[k].phase # "none" /\ e.opened = series[k].ev.opened

LEMMA OfferOpens ==
    ASSUME SpikeInv, NEW ts \in Nat, ts > now,
           NEW present \in SUBSET Keys, NEW values \in [present -> Nat], Offer(ts, values)
    PROVE  /\ \A k \in Keys : OpenSince(k, ts)
           /\ \A e \in done' \ done : FinishedBy(e, ts)
           /\ done \subseteq done'
<1> DEFINE p(k) == [ts |-> ts, v |-> values[k]]
           r == [k \in DOMAIN values |-> Step(k, series[k], p(k))]
           ends == {k \in DOMAIN values : series[k].phase = "post" /\ r[k].s.phase = "none"}
           new(k) == Completed(series[k], p(k))
<1>1. /\ series' = [k \in Keys |-> IF k \in DOMAIN values THEN r[k].s ELSE series[k]]
      /\ done' = done \cup {new(k) : k \in ends}
    BY DEF Offer
<1>2. DOMAIN values = present /\ present \subseteq Keys
    OBVIOUS
<1>3. \A k \in Keys : KeyHolds(k, series[k], seen[k], now)
    BY DEF SpikeInv
<1>4. \A k \in present : r[k] = Step(k, series[k], p(k)) /\ p(k).ts = ts
    BY <1>2
<1>5. \A k \in ends : k \in present /\ k \in Keys /\ series[k].phase = "post"
    BY <1>2
<1> HIDE DEF p, r, ends, new
<1>6. ASSUME NEW k \in Keys, series[k].phase # "none"
      PROVE  series[k].ev \in Event /\ DOMAIN series[k].ev = EventFields
    <2> DEFINE s == series[k]
    <2>1. SeriesHolds(k, s, Range(seen[k]), now)
        BY <1>3 DEF KeyHolds
    <2> HIDE DEF s
    <2>2. s.phase # "none"
        BY <1>6 DEF s
    <2>3. s.ev \in Event
        BY <2>1, <2>2 DEF SeriesHolds, Began
    <2>4. DOMAIN s.ev = EventFields
        BY <2>3, EventTypes
    <2> QED
        BY <2>3, <2>4 DEF s
<1>7. ASSUME NEW k \in Keys PROVE OpenSince(k, ts)
    <2>1. CASE k \in present
        <3> DEFINE s == series[k]
                   q == p(k)
        <3>1. DOMAIN s = Fields /\ s.phase \in Phases /\ (s.phase # "none" => DOMAIN s.ev = EventFields)
            BY <1>3, <1>6 DEF KeyHolds, SeriesTyped
        <3>2. series'[k] = Step(k, s, q).s /\ q.ts = ts
            BY <1>1, <1>2, <1>4, <2>1
        <3> HIDE DEF s, q
        <3> DEFINE z == Step(k, s, q).s
        <3>3. z.phase # "none" => IF s.phase = "none" THEN z.ev.opened = q.ts ELSE z.ev.opened = s.ev.opened
            BY <3>1, StepOpened
        <3> HIDE DEF z
        <3>4. series'[k] = z
            BY <3>2 DEF z
        <3> QED
            BY <3>2, <3>3, <3>4 DEF OpenSince, s
    <2>2. CASE k \notin present
        <3>1. series'[k] = series[k]
            BY <1>1, <1>2, <2>2
        <3> QED
            BY <3>1 DEF OpenSince
    <2> QED
        BY <2>1, <2>2
<1>8. ASSUME NEW e \in done' \ done PROVE FinishedBy(e, ts)
    <2>1. PICK k \in ends : e = new(k)
        BY <1>1
    <2> DEFINE f == series[k].ev
               q == AppendCapped(f.post, p(k), MaxPost)
    <2>2. k \in Keys /\ series[k].phase # "none" /\ f \in Event /\ p(k).ts = ts
        BY <1>4, <1>5, <1>6
    <2>3. e = [f EXCEPT !.post = q, !.finished = p(k).ts]
        BY <2>1 DEF new, Completed
    <2>4. f \in Event
        BY <2>2
    <2> HIDE DEF f, q
    <2>5. e.finished = ts /\ e.opened = f.opened
        BY <2>2, <2>3, <2>4 DEF Event
    <2> QED
        BY <2>2, <2>5 DEF FinishedBy, f
<1> QED
    BY <1>1, <1>7, <1>8

LEMMA DetectorTyped ==
    ASSUME SpikeInv
    PROVE  SpikeTypeOK
<1>1. now \in 0 .. Horizon
    BY SizesNat, DetectorAssumption DEF SpikeInv, DetectorAssumption
<1>2. openCount \in Nat
    <2> DEFINE S == {k \in Keys : series[k].phase # "none"}
    <2>1. S \subseteq Keys /\ IsFiniteSet(Keys)
        BY DetectorAssumption DEF DetectorAssumption
    <2>2. IsFiniteSet(S)
        BY <2>1, FS_Subset
    <2>3. Cardinality(S) \in Nat
        BY <2>2, FS_CardinalityType
    <2> QED
        BY <2>3 DEF SpikeInv
<1>3. ASSUME NEW k \in Keys
      PROVE  /\ series[k].phase \in Phases
             /\ series[k].ev \in Event \cup {<<>>}
             /\ (series[k].ev = <<>>) <=> (series[k].phase = "none")
    <2> DEFINE s == series[k]
    <2>1. SeriesTyped(s) /\ SeriesHolds(k, s, Range(seen[k]), now)
        BY DEF SpikeInv, KeyHolds
    <2> HIDE DEF s
    <2>2. s.phase \in Phases /\ (s.phase = "none" => s.ev = <<>>) /\ (s.phase # "none" => s.ev \in Event)
        BY <2>1 DEF SeriesTyped, SeriesHolds, Began
    <2>3. <<>> \notin Event
        <3> SUFFICES ASSUME <<>> \in Event PROVE FALSE
            OBVIOUS
        <3>1. DOMAIN <<>> = EventFields
            BY EventTypes
        <3> QED
            BY <3>1 DEF EventFields
    <2> QED
        BY <2>2, <2>3 DEF s
<1>4. done \subseteq Event
    BY DEF SpikeInv, DoneHolds, Began
<1> QED
    BY <1>1, <1>2, <1>3, <1>4 DEF SpikeTypeOK

\* An event that was open since the moment o was observed up to t.
WatchedTo(o, t, T, F) == \A y \in (o + 1) .. t : y \in T \cup F

\* What is known of a finished event and its evidence.
Attributed(a, r, T, F) ==
    /\ WatchedTo(a.ev.opened, a.ev.finished, T, F)
    /\ \/ a.snaps = {y \in T : a.ev.start - Window <= y /\ y <= a.ev.end + Window}
       \/ Len(r) = HistCap /\ r[1] > a.ev.start - Window

EvidenceInv ==
    /\ SpikeInv
    /\ RingHeld(ring, taken, now)
    /\ lastProcSnap \in 0 .. now /\ lastProcTick \in 0 .. now
    /\ \A k \in Keys : series[k].phase # "none" => WatchedTo(series[k].ev.opened, now, taken, fails)
    /\ \A a \in attributed : a.ev \in done /\ Attributed(a, ring, taken, fails)

LEMMA EvidenceInit == CaptureInit => EvidenceInv
<1> SUFFICES ASSUME CaptureInit PROVE EvidenceInv
    OBVIOUS
<1>1. /\ SpikeInit /\ ring = <<0>> /\ taken = {0} /\ lastProcSnap = 0 /\ lastProcTick = 0
      /\ attributed = {} /\ now = 0
    BY DEF CaptureInit, SpikeInit, NoTime
<1>2. SpikeInv
    BY <1>1, SpikeInitHolds
<1>3. \A k \in Keys : series[k].phase = "none"
    BY <1>1 DEF SpikeInit, Fresh
<1>4. RingHeld(<<0>>, {0}, 0)
    <2> DEFINE r == <<0>>
    <2>1. r \in Seq(Nat) /\ Len(r) = 1 /\ r[1] = 0 /\ \A i : i \in DOMAIN r <=> i = 1
        OBVIOUS
    <2>2. r # <<>> /\ HistCap \in Nat /\ HistCap >= 1
        BY CaptureAssumption DEF CaptureAssumption
    <2> HIDE DEF r
    <2>3. Range(r) = {0}
        BY <2>1 DEF Range
    <2>4. RingHeld(r, {0}, 0)
        BY <2>1, <2>2, <2>3 DEF RingHeld
    <2> QED
        BY <2>4 DEF r
<1> QED
    BY <1>1, <1>2, <1>3, <1>4 DEF EvidenceInv

\* What a snapshot at t, or none, does to the ring.
Snapped(t) ==
    /\ RingHeld(ring', taken', t)
    /\ taken \subseteq taken' /\ fails \subseteq fails'
    /\ \A y \in taken' : y \in taken \/ y = t
    /\ ring[1] <= ring'[1] /\ Len(ring) <= Len(ring')

LEMMA RingLater ==
    ASSUME NEW r, NEW T, NEW t0 \in Nat, RingHeld(r, T, t0), NEW t \in Nat, t0 <= t
    PROVE  RingHeld(r, T, t)
BY DEF RingHeld

LEMMA SnapshotSnaps ==
    ASSUME EvidenceInv, NEW t \in Nat, now <= t,
           Snapshot(t) \/ UNCHANGED <<ring, taken, fails>>
    PROVE  Snapped(t) /\ (Snapshot(t) => t \in taken' \cup fails')
<1>1. RingHeld(ring, taken, now) /\ now \in Nat
    BY DEF EvidenceInv, SpikeInv
<1>2. RingHeld(ring, taken, t)
    BY <1>1, RingLater
<1>3. Len(ring) \in Nat /\ ring[1] \in Nat
    <2>1. ring \in Seq(Nat) /\ ring # <<>>
        BY <1>1 DEF RingHeld
    <2> QED
        BY <2>1
<1>4. CASE UNCHANGED <<ring, taken, fails>>
    <2>1. Snapped(t)
        BY <1>2, <1>3, <1>4 DEF Snapped
    <2>2. ASSUME Snapshot(t) PROVE t \in taken' \cup fails'
        BY <2>2 DEF Snapshot
    <2> QED
        BY <2>1, <2>2
<1>5. CASE Snapshot(t)
    <2>1. CASE ring' = Latest(Append(ring, t), HistCap) /\ taken' = taken \cup {t} /\ UNCHANGED fails
        <3> DEFINE u == Latest(Append(ring, t), HistCap)
        <3>1. RingHeld(u, taken \cup {t}, t) /\ ring[1] <= u[1] /\ Len(ring) <= Len(u)
            BY <1>1, SnapshotIsHeld
        <3> HIDE DEF u
        <3>2. ring' = u
            BY <2>1 DEF u
        <3> QED
            BY <2>1, <3>1, <3>2 DEF Snapped
    <2>2. CASE fails' = fails \cup {t} /\ UNCHANGED <<ring, taken>>
        BY <1>2, <1>3, <2>2 DEF Snapped
    <2> QED
        BY <1>5, <2>1, <2>2 DEF Snapshot
<1> QED
    BY <1>4, <1>5

\* What an event got stays what there is.
LEMMA EvidenceStays ==
    ASSUME EvidenceInv, Window <= CloseBelow + PostCapture, NEW t \in Nat, now <= t, Snapped(t),
           NEW a \in attributed
    PROVE  Attributed(a, ring', taken', fails')
<1> DEFINE e == a.ev
           from == e.start - Window
           to == e.end + Window
<1>1. e \in done /\ WatchedTo(e.opened, e.finished, taken, fails)
      /\ \/ a.snaps = {y \in taken : from <= y /\ y <= to}
         \/ Len(ring) = HistCap /\ ring[1] > from
    BY DEF EvidenceInv, Attributed
<1>2. now \in Nat /\ DoneHolds(e, Range(seen[e.key]), series[e.key].hist, now)
    BY <1>1 DEF EvidenceInv, SpikeInv
<1> HIDE DEF e
<1>3. /\ e.closing - e.end >= CloseBelow /\ e.finished > e.closing + PostCapture /\ e.finished <= now
      /\ e.start \in Nat /\ e.end \in Nat /\ e.closing \in Nat /\ e.finished \in Nat
    BY <1>2, EventTypes DEF DoneHolds, HasEnded, Began
<1>4. Window \in Nat /\ CloseBelow \in Nat /\ PostCapture \in Nat
    BY SizesNat, CaptureAssumption DEF CaptureAssumption
<1>5. to < t /\ from \in Int /\ to \in Int
    BY <1>2, <1>3, <1>4
<1> HIDE DEF from, to
<1>6. {y \in taken' : from <= y /\ y <= to} = {y \in taken : from <= y /\ y <= to}
    BY <1>5 DEF Snapped
<1>7. WatchedTo(e.opened, e.finished, taken', fails')
    BY <1>1 DEF WatchedTo, Snapped
<1>8. ASSUME Len(ring) = HistCap, ring[1] > from PROVE Len(ring') = HistCap /\ ring'[1] > from
    <2>1. /\ ring \in Seq(Nat) /\ ring # <<>> /\ ring' \in Seq(Nat) /\ ring' # <<>>
          /\ Len(ring') <= HistCap /\ Len(ring) <= Len(ring') /\ ring[1] <= ring'[1]
        BY DEF EvidenceInv, RingHeld, Snapped
    <2>2. Len(ring) \in Nat /\ Len(ring') \in Nat /\ ring[1] \in Nat /\ ring'[1] \in Nat
        BY <2>1
    <2>3. Len(ring') <= Len(ring) /\ Len(ring) <= Len(ring')
        BY <1>8, <2>1
    <2>4. Len(ring') = Len(ring)
        BY <2>2, <2>3
    <2> QED
        BY <1>5, <1>8, <2>1, <2>2, <2>4
<1>9. \/ a.snaps = {y \in taken' : from <= y /\ y <= to}
      \/ Len(ring') = HistCap /\ ring'[1] > from
    BY <1>1, <1>6, <1>8
<1> QED
    BY <1>7, <1>9 DEF Attributed, e, from, to

\* The snapshots in the ring are all there is, if none of that time is lost.
LEMMA RingTells ==
    ASSUME NEW r, NEW T, NEW t, RingHeld(r, T, t), NEW from \in Int, NEW to \in Int
    PROVE  \/ {y \in Range(r) : from <= y /\ y <= to} = {y \in T : from <= y /\ y <= to}
           \/ Len(r) = HistCap /\ r[1] > from
<1>1. r \in Seq(Nat) /\ r # <<>> /\ Range(r) \subseteq T
    BY DEF RingHeld
<1>2. r[1] \in Nat
    BY <1>1
<1>3. \A y \in T : y \in Nat /\ (y \in Range(r) \/ (Len(r) = HistCap /\ y < r[1]))
    BY DEF RingHeld
<1>4. CASE Len(r) = HistCap /\ r[1] > from
    BY <1>4
<1>5. CASE ~(Len(r) = HistCap /\ r[1] > from)
    <2>1. \A y \in T : from <= y => y \in Range(r)
        BY <1>2, <1>3, <1>5
    <2> QED
        BY <1>1, <2>1
<1> QED
    BY <1>4, <1>5

LEMMA HostSampleKeeps ==
    ASSUME EvidenceInv, Window <= CloseBelow + PostCapture, HostSample
    PROVE  EvidenceInv'
<1> DEFINE t == now + 1
<1>1. /\ t <= Horizon /\ now' = t
      /\ IF BurstDue(t)
           THEN Snapshot(t) /\ lastProcSnap' = t
           ELSE UNCHANGED <<ring, taken, fails, lastProcSnap>>
      /\ \E values \in Readings : Offer(t, values)
      /\ attributed' = attributed \cup {Finish(ev) : ev \in done' \ done}
      /\ lastProcTick' = lastProcTick
    BY DEF HostSample
<1>2. SpikeInv /\ now \in Nat
    BY DEF EvidenceInv, SpikeInv
<1>3. PICK values \in Readings : Offer(t, values)
    BY <1>1
<1>4. PICK present \in SUBSET Keys :
          values \in [present -> UNION Range(Levels)] /\ \A k \in present : values[k] \in Levels[k]
    BY DEF Readings
<1>5. values \in [present -> Nat]
    BY <1>4, DetectorAssumption DEF DetectorAssumption
<1>6. t \in Nat /\ t > now /\ now <= t
    BY <1>2
<1> HIDE DEF t
<1>7. SpikeInv'
    BY <1>1, <1>2, <1>3, <1>5, <1>6, OfferHolds
<1>8. /\ \A k \in Keys : OpenSince(k, t)
      /\ \A e \in done' \ done : FinishedBy(e, t)
      /\ done \subseteq done'
    BY <1>2, <1>3, <1>5, <1>6, OfferOpens
<1>9. Snapped(t)
    BY <1>1, <1>6, SnapshotSnaps
\* While an event is open, the sample comes with a snapshot.
<1>10. ASSUME NEW k \in Keys, series[k].phase # "none" PROVE t \in taken' \cup fails'
    <2> DEFINE S == {j \in Keys : series[j].phase # "none"}
    <2>1. IsFiniteSet(S)
        <3>1. S \subseteq Keys /\ IsFiniteSet(Keys)
            BY DetectorAssumption DEF DetectorAssumption
        <3> QED
            BY <3>1, FS_Subset
    <2>2. k \in S
        BY <1>10
    <2>3. openCount = Cardinality(S)
        BY <1>2 DEF SpikeInv
    <2> HIDE DEF S
    <2>4. openCount \in Nat /\ openCount # 0
        BY <2>1, <2>2, <2>3, FS_CardinalityType, FS_EmptySet
    <2>5. lastProcSnap \in Nat /\ lastProcSnap <= now
        BY <1>2 DEF EvidenceInv
    <2>6. BurstDue(t)
        BY <1>2, <1>6, <2>4, <2>5 DEF BurstDue, t
    <2>7. Snapshot(t)
        BY <1>1, <2>6
    <2> QED
        BY <1>6, <2>7, SnapshotSnaps
<1>11. ASSUME NEW k \in Keys, series[k].phase # "none"
       PROVE  WatchedTo(series[k].ev.opened, t, taken', fails')
    <2> DEFINE o == series[k].ev.opened
    <2>1. WatchedTo(o, now, taken, fails) /\ t \in taken' \cup fails'
        BY <1>10, <1>11 DEF EvidenceInv
    <2>2. o \in Nat
        <3> DEFINE e == series[k].ev
        <3>1. Began(k, e, Range(seen[k]))
            BY <1>2, <1>11 DEF SpikeInv, KeyHolds, SeriesHolds
        <3> HIDE DEF e
        <3>2. e.opened \in Nat
            BY <3>1, EventTypes DEF Began
        <3> QED
            BY <3>2 DEF e
    <2> HIDE DEF o
    <2>3. ASSUME NEW y \in (o + 1) .. t PROVE y \in taken' \cup fails'
        <3>1. y = t \/ y \in (o + 1) .. now
            BY <1>2, <1>6, <2>2 DEF t
        <3> QED
            BY <1>9, <2>1, <3>1 DEF WatchedTo, Snapped
    <2> QED
        BY <2>3 DEF WatchedTo, o
<1>12. ASSUME NEW k \in Keys, series'[k].phase # "none"
       PROVE  WatchedTo(series'[k].ev.opened, t, taken', fails')
    <2>1. CASE series'[k].ev.opened = t
        <3>1. (t + 1) .. t = {}
            BY <1>6
        <3> QED
            BY <2>1, <3>1 DEF WatchedTo
    <2>2. CASE series[k].phase # "none" /\ series'[k].ev.opened = series[k].ev.opened
        BY <1>11, <2>2
    <2> QED
        BY <1>8, <1>12, <2>1, <2>2 DEF OpenSince
<1>13. ASSUME NEW a \in attributed' PROVE a.ev \in done' /\ Attributed(a, ring', taken', fails')
    <2>1. CASE a \in attributed
        <3>1. a.ev \in done
            BY <2>1 DEF EvidenceInv
        <3>2. Attributed(a, ring', taken', fails')
            BY <1>6, <1>9, <2>1, EvidenceStays
        <3> QED
            BY <1>8, <3>1, <3>2
    <2>2. CASE a \notin attributed
        <3>1. PICK e \in done' \ done : a = Finish(e)
            BY <1>1, <2>2
        <3>2. e \in Event
            <4>1. DoneHolds(e, Range(seen'[e.key]), series'[e.key].hist, now')
                BY <1>7, <3>1 DEF SpikeInv
            <4> QED
                BY <4>1 DEF DoneHolds, Began
        <3> DEFINE from == e.start - Window
                   to == e.end + Window
        <3>3. from \in Int /\ to \in Int
            BY <3>2, EventTypes, CaptureAssumption DEF CaptureAssumption
        <3>4. a.ev = e /\ a.snaps = {y \in Range(ring') : from <= y /\ y <= to}
            BY <3>1 DEF Finish, History
        <3>5. e.finished = t /\ \E k \in Keys : series[k].phase # "none" /\ e.opened = series[k].ev.opened
            BY <1>8, <3>1 DEF FinishedBy
        <3>6. WatchedTo(e.opened, e.finished, taken', fails')
            BY <1>11, <3>5
        <3> HIDE DEF from, to
        <3>7. \/ {y \in Range(ring') : from <= y /\ y <= to} = {y \in taken' : from <= y /\ y <= to}
              \/ Len(ring') = HistCap /\ ring'[1] > from
            <4>1. RingHeld(ring', taken', t)
                BY <1>9 DEF Snapped
            <4> QED
                BY <3>3, <4>1, RingTells
        <3>8. Attributed(a, ring', taken', fails')
            BY <3>4, <3>6, <3>7 DEF Attributed, from, to
        <3> QED
            BY <3>1, <3>4, <3>8
    <2> QED
        BY <2>1, <2>2
<1>14. RingHeld(ring', taken', now')
    BY <1>1, <1>9 DEF Snapped
<1>15. lastProcSnap' \in 0 .. now' /\ lastProcTick' \in 0 .. now'
    <2>1. lastProcSnap \in 0 .. now /\ lastProcTick \in 0 .. now
        BY DEF EvidenceInv
    <2>2. lastProcSnap' = t \/ lastProcSnap' = lastProcSnap
        BY <1>1
    <2> QED
        BY <1>1, <1>2, <1>6, <2>1, <2>2
<1> QED
    BY <1>1, <1>7, <1>12, <1>13, <1>14, <1>15 DEF EvidenceInv

LEMMA ProcTickKeeps ==
    ASSUME EvidenceInv, Window <= CloseBelow + PostCapture, ProcTick
    PROVE  EvidenceInv'
<1>1. /\ Snapshot(now) /\ lastProcTick' = now /\ lastProcSnap' = lastProcSnap
      /\ attributed' = attributed /\ UNCHANGED spikeVars
    BY DEF ProcTick
<1>2. /\ now' = now /\ series' = series /\ openCount' = openCount /\ done' = done /\ seen' = seen
    BY <1>1 DEF spikeVars
<1>3. SpikeInv /\ now \in Nat /\ now <= now
    BY DEF EvidenceInv, SpikeInv
<1>4. SpikeInv'
    BY <1>2, <1>3 DEF SpikeInv
<1>5. Snapped(now)
    BY <1>1, <1>3, SnapshotSnaps
<1>6. RingHeld(ring', taken', now')
    BY <1>2, <1>5 DEF Snapped
<1>7. ASSUME NEW k \in Keys, series'[k].phase # "none"
      PROVE  WatchedTo(series'[k].ev.opened, now', taken', fails')
    <2>1. WatchedTo(series[k].ev.opened, now, taken, fails)
        BY <1>2, <1>7 DEF EvidenceInv
    <2> QED
        BY <1>2, <1>5, <2>1 DEF WatchedTo, Snapped
<1>8. ASSUME NEW a \in attributed' PROVE a.ev \in done' /\ Attributed(a, ring', taken', fails')
    <2>1. a \in attributed /\ a.ev \in done
        BY <1>1 DEF EvidenceInv
    <2> QED
        BY <1>2, <1>3, <1>5, <2>1, EvidenceStays
<1>9. lastProcSnap' \in 0 .. now' /\ lastProcTick' \in 0 .. now'
    BY <1>1, <1>2, <1>3 DEF EvidenceInv
<1> QED
    BY <1>4, <1>6, <1>7, <1>8, <1>9 DEF EvidenceInv

LEMMA EvidenceStep ==
    ASSUME EvidenceInv, Window <= CloseBelow + PostCapture, [CaptureNext]_captureVars
    PROVE  EvidenceInv'
<1>1. CASE HostSample
    BY <1>1, HostSampleKeeps
<1>2. CASE ProcTick
    BY <1>2, ProcTickKeeps
<1>3. CASE UNCHANGED captureVars
    BY <1>3 DEF captureVars, spikeVars, EvidenceInv, SpikeInv
<1> QED
    BY <1>1, <1>2, <1>3 DEF CaptureNext

LEMMA EvidenceIsComplete ==
    ASSUME EvidenceInv
    PROVE  CaptureComplete
<1>1. SpikeTypeOK
    BY DetectorTyped DEF EvidenceInv
<1>2. CaptureTypeOK
    BY <1>1 DEF CaptureTypeOK, EvidenceInv, RingHeld
<1>3. CaptureObserved
    BY DEF CaptureObserved, EvidenceInv, Attributed, WatchedTo
<1>4. EvidenceComplete
    <2> SUFFICES ASSUME NEW a \in attributed, ring[1] <= a.ev.start - Window \/ Len(ring) < HistCap
                 PROVE  a.snaps = Overlapping(a.ev)
        BY DEF EvidenceComplete
    <2>1. \/ a.snaps = {y \in taken : a.ev.start - Window <= y /\ y <= a.ev.end + Window}
          \/ Len(ring) = HistCap /\ ring[1] > a.ev.start - Window
        BY DEF EvidenceInv, Attributed
    <2>2. ring \in Seq(Nat) /\ ring # <<>>
        BY DEF EvidenceInv, RingHeld
    <2>3. ring[1] \in Nat /\ Len(ring) \in Nat
        BY <2>2
    <2>4. a.ev.start \in Nat /\ Window \in Nat
        <3>1. a.ev \in Event
            BY DEF EvidenceInv, SpikeInv, DoneHolds, Began
        <3> QED
            BY <3>1, EventTypes, CaptureAssumption DEF CaptureAssumption
    <2>5. ~(Len(ring) = HistCap /\ ring[1] > a.ev.start - Window)
        BY <2>3, <2>4
    <2> QED
        BY <2>1, <2>5 DEF Overlapping
<1> QED
    BY <1>2, <1>3, <1>4 DEF CaptureComplete

\* An event is observed at every host sample from its opening to the one that
\* finishes it, and gets every snapshot that overlaps it, unless the ring is full
\* and begins after its start.  The tail of the event (the closing delay and the
\* post capture) must be as long as the window of the evidence: were it shorter,
\* the evidence would be collected before all of it is there.
THEOREM EvidenceIsKept ==
    ASSUME Window <= CloseBelow + PostCapture
    PROVE  CaptureSpec => []CaptureComplete
<1>1. CaptureInit => EvidenceInv
    BY EvidenceInit
<1>2. EvidenceInv /\ [CaptureNext]_captureVars => EvidenceInv'
    BY EvidenceStep
<1>3. EvidenceInv => CaptureComplete
    BY EvidenceIsComplete
<1> QED
    BY <1>1, <1>2, <1>3, PTL DEF CaptureSpec

-----------------------------------------------------------------------------
(***************************************************************************)
(* Proof that a process snapshot keeps who leads, by CPU time or by        *)
(* memory, and stays within its bound.                                     *)
(***************************************************************************)

LEMMA LargestIs ==
    ASSUME NEW S, IsFiniteSet(S), NEW n \in Nat, NEW measure, NEW T \in Largest(S, n, measure)
    PROVE  /\ T \subseteq S /\ IsFiniteSet(T) /\ Cardinality(T) \in Nat /\ Cardinality(T) <= n
           /\ Cardinality(T) = n \/ T = S
           /\ \A a \in T, b \in S \ T : measure[a] >= measure[b]
<1>1. /\ T \in SUBSET S /\ Cardinality(T) = IF Cardinality(S) < n THEN Cardinality(S) ELSE n
      /\ \A a \in T, b \in S \ T : measure[a] >= measure[b]
    BY DEF Largest
<1>2. IsFiniteSet(T) /\ Cardinality(T) \in Nat /\ Cardinality(S) \in Nat
    BY <1>1, FS_Subset, FS_CardinalityType
<1>3. Cardinality(S) = Cardinality(T) => S = T
    BY <1>1, FS_Subset
<1> QED
    BY <1>1, <1>2, <1>3

LEMMA SnapshotKeepsLeaders ==
    ASSUME NEW here \in SUBSET Pids, NEW procs, NEW top \in Kept({SampleOf(p, procs) : p \in here})
    PROVE  /\ Cardinality(top) <= 2 * TopN
           /\ \A p \in here :
                 Cardinality({q \in here : q # p /\ Programs[procs[q].name].rss >= Programs[procs[p].name].rss}) < TopN
                     => p \in {s.pid : s \in top}
<1> DEFINE all == {SampleOf(p, procs) : p \in here}
           cpuPct == [s \in all |-> s.cpuPct]
           rss == [s \in all |-> s.rss]
<1>1. IsFiniteSet(here) /\ TopN \in Nat /\ TopN > 0
    BY FS_Subset, AttributionAssumption DEF AttributionAssumption
<1>2. \A p \in here : SampleOf(p, procs).pid = p /\ SampleOf(p, procs).rss = Programs[procs[p].name].rss
    BY DEF SampleOf
<1>3. \A s \in all : s.pid \in here /\ s = SampleOf(s.pid, procs)
    BY <1>2
<1>4. IsFiniteSet(all)
    <2> DEFINE f == [p \in here |-> SampleOf(p, procs)]
    <2>1. f \in Surjection(here, all)
        BY DEF Surjection
    <2> HIDE DEF f, all
    <2> QED
        BY <1>1, <2>1, FS_Surjection
<1>5. PICK A \in Largest(all, TopN, cpuPct) : \E Z \in Largest(all \ A, TopN, rss) : top = A \cup Z
    BY DEF Kept
<1>6. PICK Z \in Largest(all \ A, TopN, rss) : top = A \cup Z
    BY <1>5
<1> HIDE DEF all, cpuPct
<1>7. A \subseteq all /\ IsFiniteSet(A) /\ Cardinality(A) \in Nat /\ Cardinality(A) <= TopN
    BY <1>1, <1>4, LargestIs
<1>8. IsFiniteSet(all \ A)
    BY <1>4, FS_Subset
<1>9. /\ Z \subseteq all \ A /\ IsFiniteSet(Z) /\ Cardinality(Z) \in Nat /\ Cardinality(Z) <= TopN
      /\ Cardinality(Z) = TopN \/ Z = all \ A
      /\ \A a \in Z, b \in (all \ A) \ Z : rss[a] >= rss[b]
    <2> HIDE DEF rss
    <2> QED
        BY <1>1, <1>8, LargestIs
<1>10. Cardinality(top) <= 2 * TopN
    <2>1. /\ Cardinality(A \cup Z) = Cardinality(A) + Cardinality(Z) - Cardinality(A \cap Z)
          /\ Cardinality(A \cap Z) \in Nat
        BY <1>7, <1>9, FS_Union, FS_Intersection, FS_CardinalityType
    <2> QED
        BY <1>1, <1>6, <1>7, <1>9, <2>1
<1>11. ASSUME NEW p \in here, p \notin {s.pid : s \in top}
       PROVE  Cardinality({q \in here : q # p /\ Programs[procs[q].name].rss >= Programs[procs[p].name].rss}) >= TopN
    <2> DEFINE x == SampleOf(p, procs)
               heavier == {q \in here : q # p /\ Programs[procs[q].name].rss >= Programs[procs[p].name].rss}
               number == [s \in Z |-> s.pid]
    <2>1. x \in (all \ A) \ Z
        BY <1>2, <1>6, <1>11 DEF all
    <2>2. Cardinality(Z) = TopN
        BY <1>9, <2>1
    <2>3. ASSUME NEW s \in Z PROVE s.pid \in heavier
        <3>1. s \in all /\ rss[s] >= rss[x] /\ s # x
            BY <1>9, <2>1
        <3>2. rss[s] = Programs[procs[s.pid].name].rss /\ rss[x] = Programs[procs[p].name].rss
            BY <1>2, <1>3, <2>1, <3>1
        <3>3. s.pid \in here /\ s.pid # p
            BY <1>3, <3>1
        <3> QED
            BY <3>1, <3>2, <3>3
    <2>4. \A s, t \in Z : s.pid = t.pid => s = t
        BY <1>3, <1>9
    <2> HIDE DEF heavier, x
    <2>5. number \in Injection(Z, heavier)
        BY <2>3, <2>4 DEF Injection, IsInjective
    <2>6. IsFiniteSet(heavier)
        BY <1>1, FS_Subset DEF heavier
    <2> HIDE DEF number
    <2>7. Cardinality(Z) <= Cardinality(heavier)
        BY <2>5, <2>6, FS_Injection
    <2>8. Cardinality(heavier) \in Nat
        BY <2>6, FS_CardinalityType
    <2> QED
        BY <1>1, <2>2, <2>7, <2>8 DEF heavier
<1>12. ASSUME NEW p \in here,
              Cardinality({q \in here : q # p /\ Programs[procs[q].name].rss >= Programs[procs[p].name].rss}) < TopN
       PROVE  p \in {s.pid : s \in top}
    <2> DEFINE heavier == {q \in here : q # p /\ Programs[procs[q].name].rss >= Programs[procs[p].name].rss}
    <2>1. Cardinality(heavier) \in Nat
        BY <1>1, FS_Subset, FS_CardinalityType
    <2>2. p \notin {s.pid : s \in top} => Cardinality(heavier) >= TopN
        BY <1>11
    <2>3. Cardinality(heavier) < TopN
        BY <1>12
    <2> HIDE DEF heavier
    <2> QED
        BY <1>1, <2>1, <2>2, <2>3
<1> QED
    BY <1>10, <1>12

\* The history is a list.
HistoryInv == history \in Seq(Range(history))

\* A snapshot has at most 2 * TopN processes, and every process that fewer than
\* TopN others match in memory is in it, whichever processes lead by CPU and
\* however ties are broken (Collector.Snapshot, proctop.go).
THEOREM LeadersAreKept == AttributionSpec => TopKept
<1>1. AttributionInit => HistoryInv
    BY DEF AttributionInit, HistoryInv, Range
<1>2. HistoryInv /\ [AttributionNext]_attributionVars => HistoryInv'
    <2> SUFFICES ASSUME HistoryInv, [AttributionNext]_attributionVars PROVE HistoryInv'
        OBVIOUS
    <2>1. CASE AttributionNext
        <3>1. PICK top : history' = Append(history, top)
            BY <2>1 DEF AttributionNext, TakeSnapshot
        <3> DEFINE T == Range(history) \cup {top}
        <3>2. history \in Seq(T) /\ top \in T
            BY DEF HistoryInv
        <3>3. history' \in Seq(T)
            BY <3>1, <3>2
        <3> HIDE DEF T
        <3>4. Len(history') \in Nat /\ DOMAIN history' = 1 .. Len(history') /\ history' = [i \in 1 .. Len(history') |-> history'[i]]
            BY <3>3
        <3>5. \A i \in 1 .. Len(history') : history'[i] \in Range(history')
            BY <3>4 DEF Range
        <3>6. history' \in Seq(Range(history'))
            BY <3>4, <3>5
        <3> QED
            BY <3>6 DEF HistoryInv, Range
    <2>2. CASE UNCHANGED attributionVars
        BY <2>2 DEF attributionVars, HistoryInv, Range
    <2> QED
        BY <2>1, <2>2
<1> DEFINE Good ==
        \A i \in DOMAIN history' \ DOMAIN history :
            LET top == history'[i]
                heavier(p) == {q \in DOMAIN live' : q # p /\
                    Programs[live'[q].name].rss >= Programs[live'[p].name].rss}
            IN  /\ Cardinality(top) <= 2 * TopN
                /\ \A p \in DOMAIN live' : Cardinality(heavier(p)) < TopN
                       => p \in {s.pid : s \in top}
<1>3. HistoryInv /\ [AttributionNext]_attributionVars => [Good]_history
    <2> SUFFICES ASSUME HistoryInv, AttributionNext PROVE Good
        BY DEF attributionVars
    <2>1. PICK here \in SUBSET Pids : \E procs \in [here -> UNION {Later(p) : p \in here}] :
              /\ live' = procs
              /\ \E top \in Kept({SampleOf(p, procs) : p \in here}) : history' = Append(history, top)
        BY DEF AttributionNext, TakeSnapshot
    <2>2. PICK procs \in [here -> UNION {Later(p) : p \in here}] :
              /\ live' = procs
              /\ \E top \in Kept({SampleOf(p, procs) : p \in here}) : history' = Append(history, top)
        BY <2>1
    <2>3. PICK top \in Kept({SampleOf(p, procs) : p \in here}) : history' = Append(history, top)
        BY <2>2
    <2>4. DOMAIN procs = here /\ live' = procs
        BY <2>2
    <2>5. ASSUME NEW i \in DOMAIN history' \ DOMAIN history PROVE history'[i] = top
        <3>1. history \in Seq(Range(history) \cup {top}) /\ top \in Range(history) \cup {top}
            BY DEF HistoryInv
        <3>2. DOMAIN history' = 1 .. (Len(history) + 1) /\ DOMAIN history = 1 .. Len(history) /\ Len(history) \in Nat
            BY <2>3, <3>1
        <3>3. i = Len(history) + 1
            BY <3>2
        <3> QED
            BY <2>3, <3>1, <3>3
    <2>6. /\ Cardinality(top) <= 2 * TopN
          /\ \A p \in here :
                Cardinality({q \in here : q # p /\ Programs[procs[q].name].rss >= Programs[procs[p].name].rss}) < TopN
                    => p \in {s.pid : s \in top}
        BY SnapshotKeepsLeaders
    <2>7. /\ Cardinality(top) <= 2 * TopN
          /\ \A p \in DOMAIN live' :
                Cardinality({q \in DOMAIN live' : q # p /\ Programs[live'[q].name].rss >= Programs[live'[p].name].rss}) < TopN
                    => p \in {s.pid : s \in top}
        BY <2>4, <2>6
    <2> QED
        BY <2>5, <2>7
<1>4. AttributionSpec => [][Good]_history
    BY <1>1, <1>2, <1>3, PTL DEF AttributionSpec
<1> QED
    BY <1>4 DEF TopKept

-----------------------------------------------------------------------------
(***************************************************************************)
(* Proof that a program is named for the work it did.                      *)
(***************************************************************************)

AttributionTypes ==
    /\ DOMAIN live \subseteq Pids /\ \A p \in DOMAIN live : live[p] \in Proc
    /\ DOMAIN prevProcs = DOMAIN live /\ \A p \in DOMAIN prevProcs : prevProcs[p] \in Nat
    /\ history \in Seq(SUBSET ProcSample)
    /\ born \subseteq Pids

LEMMA AttributionConstants ==
    /\ IsFiniteSet(Pids) /\ IsFiniteSet(Names) /\ Burst \in Nat
    /\ \A n \in Names : Programs[n].rss \in Nat /\ Programs[n].unit \in STRING
BY AttributionAssumption DEF AttributionAssumption, Names

LEMMA LaterTypes ==
    ASSUME NEW p, p \in DOMAIN live => live[p] \in Proc
    PROVE  Later(p) \subseteq Proc
<1>1. \A d \in {0, Burst} : p \in DOMAIN live => [live[p] EXCEPT !.cpu = @ + d] \in Proc
    BY AttributionConstants DEF Proc
<1>2. [name : Names, cpu : {0, Burst}] \subseteq Proc
    BY AttributionConstants DEF Proc
<1> QED
    BY <1>1, <1>2 DEF Later

\* What a snapshot keeps are samples of the processes that are there.
LEMMA KeptAreSamples ==
    ASSUME AttributionTypes, NEW here \in SUBSET Pids, NEW procs, \A p \in here : procs[p] \in Proc,
           NEW top \in Kept({SampleOf(p, procs) : p \in here})
    PROVE  \A s \in top :
              /\ s \in ProcSample /\ s.pid \in here /\ s = SampleOf(s.pid, procs)
              /\ s.name = procs[s.pid].name /\ s.cpuTime = procs[s.pid].cpu
<1> DEFINE all == {SampleOf(p, procs) : p \in here}
<1>1. top \subseteq all
    <2> DEFINE cpuPct == [s \in all |-> s.cpuPct]
               rss == [s \in all |-> s.rss]
    <2>1. PICK A \in Largest(all, TopN, cpuPct) : \E Z \in Largest(all \ A, TopN, rss) : top = A \cup Z
        BY DEF Kept
    <2>2. PICK Z \in Largest(all \ A, TopN, rss) : top = A \cup Z
        BY <2>1
    <2> HIDE DEF all, cpuPct, rss
    <2>3. A \subseteq all /\ Z \subseteq all \ A
        BY DEF Largest
    <2> QED
        BY <2>2, <2>3
<1>2. ASSUME NEW p \in here
      PROVE  /\ SampleOf(p, procs) \in ProcSample /\ SampleOf(p, procs).pid = p
             /\ SampleOf(p, procs).name = procs[p].name /\ SampleOf(p, procs).cpuTime = procs[p].cpu
    <2>1. procs[p].name \in Names /\ procs[p].cpu \in Nat
        BY <1>2 DEF Proc
    <2>2. CpuPct(p, procs) \in Nat
        <3>1. p \in DOMAIN prevProcs => prevProcs[p] \in Nat
            BY DEF AttributionTypes
        <3> QED
            BY <2>1, <3>1 DEF CpuPct
    <2>3. Programs[procs[p].name].rss \in Nat /\ Programs[procs[p].name].unit \in STRING
        BY <2>1, AttributionConstants
    <2> QED
        BY <2>1, <2>2, <2>3 DEF SampleOf, ProcSample
<1> QED
    BY <1>1, <1>2

LEMMA AttributionTypesStep ==
    AttributionTypes /\ [AttributionNext]_attributionVars => AttributionTypes'
<1> SUFFICES ASSUME AttributionTypes, [AttributionNext]_attributionVars PROVE AttributionTypes'
    OBVIOUS
<1>1. CASE AttributionNext
    <2>1. PICK here \in SUBSET Pids : \E procs \in [here -> UNION {Later(p) : p \in here}] :
              /\ \A p \in here : procs[p] \in Later(p)
              /\ live' = procs /\ prevProcs' = [p \in here |-> procs[p].cpu]
              /\ \E top \in Kept({SampleOf(p, procs) : p \in here}) : history' = Append(history, top)
              /\ born' = born \cup here
        BY <1>1 DEF AttributionNext, TakeSnapshot
    <2>2. PICK procs \in [here -> UNION {Later(p) : p \in here}] :
              /\ \A p \in here : procs[p] \in Later(p)
              /\ live' = procs /\ prevProcs' = [p \in here |-> procs[p].cpu]
              /\ \E top \in Kept({SampleOf(p, procs) : p \in here}) : history' = Append(history, top)
              /\ born' = born \cup here
        BY <2>1
    <2>3. PICK top \in Kept({SampleOf(p, procs) : p \in here}) : history' = Append(history, top)
        BY <2>2
    <2>4. DOMAIN procs = here /\ \A p \in here : procs[p] \in Proc
        BY <2>2, LaterTypes DEF AttributionTypes
    <2>5. top \in SUBSET ProcSample
        BY <2>4, KeptAreSamples
    <2>6. history' \in Seq(SUBSET ProcSample)
        BY <2>3, <2>5 DEF AttributionTypes
    <2>7. DOMAIN live' \subseteq Pids /\ \A p \in DOMAIN live' : live'[p] \in Proc
        BY <2>2, <2>4
    <2>8. DOMAIN prevProcs' = DOMAIN live' /\ \A p \in DOMAIN prevProcs' : prevProcs'[p] \in Nat
        BY <2>2, <2>4 DEF Proc
    <2>9. born' \subseteq Pids
        BY <2>2 DEF AttributionTypes
    <2> QED
        BY <2>6, <2>7, <2>8, <2>9 DEF AttributionTypes
<1>2. CASE UNCHANGED attributionVars
    BY <1>2 DEF attributionVars, AttributionTypes
<1> QED
    BY <1>1, <1>2

LEMMA SeenAre ==
    ASSUME AttributionTypes
    PROVE  /\ SeenPids(history) \subseteq Pids /\ IsFiniteSet(SeenPids(history))
           /\ \A p \in SeenPids(history) : \E i \in DOMAIN history : \E s \in history[i] : s.pid = p
<1>1. UNION Range(history) \subseteq ProcSample
    BY DEF AttributionTypes, Range
<1>2. \A s \in UNION Range(history) : \E i \in DOMAIN history : s \in history[i]
    BY DEF Range
<1>3. SeenPids(history) \subseteq Pids
    BY <1>1 DEF SeenPids, ProcSample
<1> QED
    BY <1>2, <1>3, AttributionConstants, FS_Subset DEF SeenPids

\* An accumulator is what the first and the last sample of its number say.
LEMMA MergedIs ==
    ASSUME AttributionTypes, NEW p \in SeenPids(history)
    PROVE  \E i, j \in DOMAIN history : \E s \in history[i], t \in history[j] :
              /\ i <= j /\ s.pid = p /\ t.pid = p /\ s \in ProcSample /\ t \in ProcSample
              /\ Merged(history, p).name = s.name
              /\ Merged(history, p).used = t.cpuTime - s.cpuTime
<1> DEFINE at == Sightings(history, p)
           i == Min(at)
           j == Max(at)
<1>1. DOMAIN history = 1 .. Len(history) /\ Len(history) \in Nat /\ \A k \in DOMAIN history : history[k] \subseteq ProcSample
    BY DEF AttributionTypes
<1>2. at \subseteq DOMAIN history /\ at # {} /\ \A k \in at : \E s \in history[k] : s.pid = p
    <2>1. \E k \in DOMAIN history : \E s \in history[k] : s.pid = p
        BY SeenAre
    <2>2. at = {k \in DOMAIN history : \E s \in history[k] : s.pid = p}
        BY DEF Sightings
    <2> HIDE DEF at
    <2> QED
        BY <2>1, <2>2
<1>3. IsFiniteSet(at)
    <2> HIDE DEF at
    <2>1. IsFiniteSet(DOMAIN history)
        <3>1. 1 \in Int /\ Len(history) \in Int
            BY <1>1
        <3>2. IsFiniteSet(1 .. Len(history))
            BY ONLY <3>1, FS_Interval
        <3> QED
            BY ONLY <1>1, <3>2
    <2> QED
        BY <1>2, <2>1, FS_Subset
<1>4. at \subseteq Nat /\ at \subseteq Int
    BY <1>1, <1>2
<1>5. i \in at /\ j \in at /\ i <= j
    <2> HIDE DEF at
    <2> QED
        BY <1>2, <1>3, <1>4, MinIsLeast, MaxIsGreatest
<1>6. \A k \in at : In(history[k], p) \in history[k] /\ In(history[k], p).pid = p
    BY <1>2 DEF In
<1>7. /\ Merged(history, p).name = In(history[i], p).name
      /\ Merged(history, p).used = In(history[j], p).cpuTime - In(history[i], p).cpuTime
    BY DEF Merged
<1> HIDE DEF at, i, j
<1> QED
    BY <1>1, <1>2, <1>5, <1>6, <1>7

LEMMA MergedTypes ==
    ASSUME AttributionTypes, NEW p \in SeenPids(history)
    PROVE  Merged(history, p).name \in Names /\ Merged(history, p).used \in Int
BY MergedIs DEF ProcSample

LEMMA CoreSecondsIs ==
    ASSUME AttributionTypes, NEW n
    PROVE  /\ CoreSeconds(history, n) \in Nat
           /\ CoreSeconds(history, n) > 0 => \E p \in SeenPids(history) : Merged(history, p).name = n
<1> DEFINE w == [p \in SeenPids(history) |-> Merged(history, p).used]
           S == {p \in SeenPids(history) : Merged(history, p).name = n /\ Merged(history, p).used > 0}
<1>1. CoreSeconds(history, n) = Total(w, S)
    BY DEF CoreSeconds, Total
<1>2. IsFiniteSet(S)
    BY SeenAre, FS_Subset
<1>3. \A p \in S : w[p] \in Nat
    BY MergedTypes
<1>4. S = {} => Total(w, S) = 0
    BY TotalEmpty
<1>5. S # {} => \E p \in SeenPids(history) : Merged(history, p).name = n
    OBVIOUS
<1> HIDE DEF w, S
<1>6. Total(w, S) \in Nat
    BY <1>2, <1>3, TotalNat
<1> QED
    BY <1>1, <1>4, <1>5, <1>6

\* Whoever has more than half of the core-seconds is ahead of every other.
LEMMA DominantComesFirst ==
    ASSUME AttributionTypes
    PROVE  DominantIsNamed
<1> SUFFICES ASSUME NEW n \in Names, Dominates(history, n), NEW r \in Attribute(history, FALSE, {})
             PROVE  r.name = n
    BY DEF DominantIsNamed
<1> DEFINE w == [m \in Names |-> CoreSeconds(history, m)]
<1>1. \A m \in Names : w[m] \in Nat /\ w[m] = CoreSeconds(history, m)
    BY CoreSecondsIs
<1>2. 2 * w[n] > Total(w, Names)
    BY <1>1, SumIsTotal DEF Dominates
<1>3. \A m \in Names : w[m] > 0 => \E p \in SeenPids(history) : Merged(history, p).name = m
    BY <1>1, CoreSecondsIs
<1>4. \A p \in Tops(history), q \in SeenPids(history) : w[Merged(history, p).name] >= w[Merged(history, q).name]
    BY MergedTypes DEF Tops
<1> HIDE DEF w
<1>5. Total(w, Names) \in Nat
    BY <1>1, AttributionConstants, TotalNat
<1>6. w[n] > 0
    BY <1>1, <1>2, <1>5
<1>7. PICK q \in SeenPids(history) : Merged(history, q).name = n
    BY <1>3, <1>6
<1>8. PICK p \in Tops(history) : r.name = Merged(history, p).name
    <2> DEFINE sum(p) == 30 + (IF Dominates(history, Merged(history, p).name) THEN 20 ELSE 0)
                            + (IF Merged(history, p).unit # "" THEN 15 ELSE 0) + (IF FALSE THEN 20 ELSE 0)
               conclude(p) == [name |-> Merged(history, p).name, unit |-> Merged(history, p).unit,
                               confidence |-> IF sum(p) > 90 THEN 90 ELSE sum(p),
                               sql |-> p \in {} \/ Merged(history, p).name = "sqlservr"]
    <2>1. SeenPids(history) # {}
        BY <1>7
    <2>2. r \in {conclude(p) : p \in Tops(history)}
        BY ONLY <2>1, r \in Attribute(history, FALSE, {}) DEF Attribute
    <2>3. \A p \in Tops(history) : conclude(p).name = Merged(history, p).name
        OBVIOUS
    <2> HIDE DEF conclude
    <2> QED
        BY <2>2, <2>3
<1>9. p \in SeenPids(history) /\ Merged(history, p).name \in Names
    BY MergedTypes DEF Tops
<1>10. w[Merged(history, p).name] >= w[n]
    BY <1>4, <1>7
<1>11. ASSUME Merged(history, p).name # n PROVE FALSE
    <2> DEFINE m == Merged(history, p).name
    <2>1. m \in Names \ {n} /\ w[m] >= w[n]
        BY <1>9, <1>10, <1>11
    <2> HIDE DEF m
    <2>2. w[n] + w[m] <= Total(w, Names)
        BY <1>1, <2>1, AttributionConstants, TotalTwo
    <2> QED
        BY <1>1, <1>2, <1>5, <2>1, <2>2
<1> QED
    BY <1>8, <1>11

\* Where no number is given twice, every number N names one program, and S is
\* the CPU time it consumed since the first snapshot.
Accounts(N, S) ==
    /\ \A p \in Pids : S[p] \in Nat /\ (p \notin born => S[p] = 0)
    /\ \A p \in DOMAIN live : p \in born /\ live[p].name = N[p]
    /\ \A i \in DOMAIN history : \A s \in history[i] :
          /\ s.pid \in born /\ s.name = N[s.pid]
          /\ \A t \in history[i] : t.pid = s.pid => t = s
          /\ s.pid \in DOMAIN live => live[s.pid].cpu <= s.cpuTime + S[s.pid]
    /\ \A i, j \in DOMAIN history : i <= j =>
          \A s \in history[i], t \in history[j] : s.pid = t.pid => t.cpuTime <= s.cpuTime + S[s.pid]
    /\ \A n \in Names : burnt[n] = Total([p \in Pids |-> IF N[p] = n THEN S[p] ELSE 0], Pids)

WorkInv == \E N, S : Accounts(N, S)

LEMMA WorkCovers ==
    ASSUME AttributionTypes, WorkInv
    PROVE  ChargedAtMostConsumed
<1> SUFFICES ASSUME NEW n \in Names PROVE CoreSeconds(history, n) <= burnt[n]
    BY DEF ChargedAtMostConsumed
<1>1. PICK N, S : Accounts(N, S)
    BY DEF WorkInv
<1> DEFINE w == [p \in SeenPids(history) |-> Merged(history, p).used]
           T == {p \in SeenPids(history) : Merged(history, p).name = n /\ Merged(history, p).used > 0}
           v == [p \in Pids |-> IF N[p] = n THEN S[p] ELSE 0]
           u == [p \in Pids |-> IF p \in T THEN w[p] ELSE 0]
<1>2. CoreSeconds(history, n) = Total(w, T) /\ burnt[n] = Total(v, Pids)
    BY <1>1 DEF CoreSeconds, Total, Accounts
<1>3. ASSUME NEW p \in T PROVE p \in Pids /\ w[p] \in Int /\ w[p] <= S[p] /\ N[p] = n /\ S[p] \in Nat
    <2>1. p \in SeenPids(history) /\ Merged(history, p).name = n /\ w[p] = Merged(history, p).used
        BY <1>3
    <2>2. PICK i \in DOMAIN history, j \in DOMAIN history :
              \E s \in history[i], t \in history[j] :
                  /\ i <= j /\ s.pid = p /\ t.pid = p /\ s \in ProcSample /\ t \in ProcSample
                  /\ Merged(history, p).name = s.name
                  /\ Merged(history, p).used = t.cpuTime - s.cpuTime
        BY <2>1, MergedIs
    <2>3. PICK s \in history[i], t \in history[j] :
                  /\ i <= j /\ s.pid = p /\ t.pid = p /\ s \in ProcSample /\ t \in ProcSample
                  /\ Merged(history, p).name = s.name
                  /\ Merged(history, p).used = t.cpuTime - s.cpuTime
        BY <2>2
    <2>4. t.cpuTime <= s.cpuTime + S[p] /\ s.name = N[p]
        BY <1>1, <2>3 DEF Accounts
    <2>5. p \in Pids /\ s.cpuTime \in Nat /\ t.cpuTime \in Nat
        BY <2>3 DEF ProcSample
    <2>6. S[p] \in Nat
        BY <1>1, <2>5 DEF Accounts
    <2> QED
        BY <2>1, <2>3, <2>4, <2>5, <2>6
<1>4. \A p \in Pids : v[p] \in Nat /\ u[p] \in Int /\ u[p] <= v[p]
    <2>1. \A p \in Pids : S[p] \in Nat
        BY <1>1 DEF Accounts
    <2> HIDE DEF T, w
    <2> QED
        BY <1>3, <2>1
<1>5. T \subseteq Pids /\ \A p \in T : w[p] \in Int
    BY <1>3
<1>6. \A p \in Pids : u[p] = IF p \in T THEN w[p] ELSE 0
    OBVIOUS
<1> HIDE DEF u, v, w, T
<1>7. Total(u, Pids) = Total(w, T)
    BY <1>5, <1>6, AttributionConstants, TotalWithin
<1>8. Total(u, Pids) <= Total(v, Pids)
    BY <1>4, AttributionConstants, TotalAtMost
<1> QED
    BY <1>2, <1>7, <1>8

LEMMA WorkInit ==
    AttributionInit => AttributionTypes /\ WorkInv
<1> SUFFICES ASSUME AttributionInit PROVE AttributionTypes /\ WorkInv
    OBVIOUS
<1>1. AttributionTypes
    BY DEF AttributionInit, AttributionTypes
<1> DEFINE S == [p \in Pids |-> 0]
<1>2. Accounts(S, S)
    <2>1. ASSUME NEW n \in Names PROVE burnt[n] = Total([p \in Pids |-> IF S[p] = n THEN S[p] ELSE 0], Pids)
        <3> DEFINE v == [p \in Pids |-> IF S[p] = n THEN S[p] ELSE 0]
        <3>1. \A p \in Pids : v[p] = 0
            OBVIOUS
        <3> HIDE DEF v
        <3>2. Total(v, Pids) = 0
            BY <3>1, AttributionConstants, TotalZero
        <3> QED
            BY <3>2 DEF AttributionInit, v
    <2>2. DOMAIN live = {} /\ DOMAIN history = {}
        BY DEF AttributionInit
    <2>3. \A p \in Pids : S[p] \in Nat /\ S[p] = 0
        OBVIOUS
    <2> HIDE DEF S
    <2> QED
        BY <2>1, <2>2, <2>3 DEF Accounts
<1> QED
    BY <1>1, <1>2 DEF WorkInv

\* A process that is there again has gone on, and its number is still its own.
LEMMA NumbersAreKept ==
    ASSUME AttributionTypes, ~Reuse, NEW N, NEW S, Accounts(N, S), NEW p \in Pids, NEW x \in Later(p)
    PROVE  /\ x \in Proc
           /\ p \in born => p \in DOMAIN live /\ x.name = live[p].name /\ live[p].cpu <= x.cpu
           /\ p \notin born => p \notin DOMAIN live
<1>1. x \in Proc /\ (p \in DOMAIN live => live[p] \in Proc /\ p \in born)
    BY LaterTypes DEF AttributionTypes, Accounts
<1>2. CASE p \in born
    <2>1. p \in DOMAIN live /\ \E d \in {0, Burst} : x = [live[p] EXCEPT !.cpu = @ + d]
        BY <1>2 DEF Later
    <2>2. PICK d \in {0, Burst} : x = [live[p] EXCEPT !.cpu = @ + d]
        BY <2>1
    <2> QED
        BY <1>1, <1>2, <2>1, <2>2, AttributionConstants DEF Proc
<1>3. CASE p \notin born
    BY <1>1, <1>3
<1> QED
    BY <1>1, <1>2, <1>3

LEMMA WorkStep ==
    ASSUME AttributionTypes, WorkInv, ~Reuse, TakeSnapshot
    PROVE  WorkInv'
<1>1. PICK N, S : Accounts(N, S)
    BY DEF WorkInv
<1>2. PICK here \in SUBSET Pids : \E procs \in [here -> UNION {Later(p) : p \in here}] :
          /\ \A p \in here : procs[p] \in Later(p)
          /\ live' = procs
          /\ \E top \in Kept({SampleOf(p, procs) : p \in here}) : history' = Append(history, top)
          /\ burnt' = [n \in Names |-> burnt[n] + Consumed(procs, n)]
          /\ born' = born \cup here
    BY DEF TakeSnapshot
<1>3. PICK procs \in [here -> UNION {Later(p) : p \in here}] :
          /\ \A p \in here : procs[p] \in Later(p)
          /\ live' = procs
          /\ \E top \in Kept({SampleOf(p, procs) : p \in here}) : history' = Append(history, top)
          /\ burnt' = [n \in Names |-> burnt[n] + Consumed(procs, n)]
          /\ born' = born \cup here
    BY <1>2
<1>4. PICK top \in Kept({SampleOf(p, procs) : p \in here}) : history' = Append(history, top)
    BY <1>3
<1>5. ASSUME NEW p \in here
      PROVE  /\ procs[p] \in Proc
             /\ p \in born => p \in DOMAIN live /\ procs[p].name = live[p].name /\ live[p].cpu <= procs[p].cpu
             /\ p \notin born => p \notin DOMAIN live
    <2>1. p \in Pids /\ procs[p] \in Later(p)
        BY <1>3
    <2> QED
        BY <1>1, <2>1, NumbersAreKept
<1>6. PICK add : add = [p \in Pids |-> IF history = <<>> \/ p \notin here THEN 0 ELSE Spent(procs, p)]
    OBVIOUS
<1>7. PICK N2 : N2 = [p \in Pids |-> IF p \in here THEN procs[p].name ELSE N[p]]
    OBVIOUS
<1>8. PICK S2 : S2 = [p \in Pids |-> S[p] + add[p]]
    OBVIOUS
<1>9. ASSUME NEW p \in Pids
      PROVE  /\ S[p] \in Nat /\ add[p] \in Nat /\ S2[p] \in Nat /\ S2[p] = S[p] + add[p]
             /\ p \notin born => S[p] = 0
             /\ p \notin born \cup here => S2[p] = 0
             /\ p \in born => N2[p] = N[p]
             /\ p \in here => N2[p] = procs[p].name
             /\ p \notin here => N2[p] = N[p] /\ add[p] = 0
             /\ p \in here /\ p \in born /\ history # <<>> => procs[p].cpu = live[p].cpu + add[p]
             /\ p \in here /\ history # <<>> => add[p] = Spent(procs, p)
             /\ history = <<>> => add[p] = 0
    <2>1. S[p] \in Nat /\ (p \notin born => S[p] = 0)
        BY <1>1 DEF Accounts
    <2>2. p \in DOMAIN live => live[p].cpu \in Nat /\ live[p].name = N[p]
        BY <1>1 DEF Accounts, AttributionTypes, Proc
    <2>3. p \in here => procs[p].cpu \in Nat
        BY <1>5 DEF Proc
    <2>4. p \in here => Spent(procs, p) \in Nat /\ (p \in born => procs[p].cpu = live[p].cpu + Spent(procs, p))
        BY <1>5, <2>2, <2>3 DEF Spent
    <2>5. add[p] = IF history = <<>> \/ p \notin here THEN 0 ELSE Spent(procs, p)
        BY <1>6
    <2>6. N2[p] = IF p \in here THEN procs[p].name ELSE N[p]
        BY <1>7
    <2>7. S2[p] = S[p] + add[p]
        BY <1>8
    <2>8. p \in here /\ p \in born => procs[p].name = N[p]
        BY <1>5, <2>2
    <2> QED
        BY <2>1, <2>4, <2>5, <2>6, <2>7, <2>8
<1>10. DOMAIN procs = here /\ live' = procs /\ born' = born \cup here
    BY <1>3
<1>11. /\ DOMAIN history = 1 .. Len(history) /\ Len(history) \in Nat
       /\ DOMAIN history' = 1 .. (Len(history) + 1)
       /\ \A i \in DOMAIN history : history'[i] = history[i] /\ history[i] \subseteq ProcSample
       /\ history'[Len(history) + 1] = top
       /\ DOMAIN history # {} => history # <<>>
    <2>1. top \in SUBSET ProcSample
        BY <1>5, KeptAreSamples
    <2> QED
        BY <1>4, <2>1 DEF AttributionTypes
<1>12. ASSUME NEW s \in top
       PROVE  /\ s.pid \in here /\ s.name = procs[s.pid].name /\ s.cpuTime = procs[s.pid].cpu
              /\ s.cpuTime \in Nat /\ \A t \in top : t.pid = s.pid => t = s
    BY <1>5, KeptAreSamples DEF Proc
<1>13. ASSUME NEW i \in DOMAIN history, NEW s \in history[i]
       PROVE  /\ s.pid \in Pids /\ s.pid \in born /\ s.name = N[s.pid] /\ s.cpuTime \in Nat
              /\ \A t \in history[i] : t.pid = s.pid => t = s
              /\ s.pid \in here => procs[s.pid].cpu <= s.cpuTime + S2[s.pid]
    <2>1. s \in ProcSample
        BY <1>11, <1>13
    <2>2. s.pid \in Pids /\ s.cpuTime \in Nat
        BY <2>1 DEF ProcSample
    <2>3. /\ s.pid \in born /\ s.name = N[s.pid] /\ \A t \in history[i] : t.pid = s.pid => t = s
          /\ s.pid \in DOMAIN live => live[s.pid].cpu <= s.cpuTime + S[s.pid]
        BY <1>1, <1>13 DEF Accounts
    <2>4. s.pid \in here => procs[s.pid].cpu <= s.cpuTime + S2[s.pid]
        <3> SUFFICES ASSUME s.pid \in here PROVE procs[s.pid].cpu <= s.cpuTime + S2[s.pid]
            OBVIOUS
        <3>1. history # <<>> /\ s.pid \in DOMAIN live
            BY <1>5, <1>11, <2>3
        <3>2. live[s.pid].cpu \in Nat
            BY <3>1 DEF AttributionTypes, Proc
        <3>3. /\ procs[s.pid].cpu = live[s.pid].cpu + add[s.pid]
              /\ S2[s.pid] = S[s.pid] + add[s.pid] /\ S[s.pid] \in Nat /\ add[s.pid] \in Nat
            BY <1>9, <2>2, <2>3, <3>1
        <3> QED
            BY <2>2, <2>3, <3>1, <3>2, <3>3
    <2> QED
        BY <2>2, <2>3, <2>4
<1>14. ASSUME NEW n \in Names
       PROVE  burnt'[n] = Total([p \in Pids |-> IF N2[p] = n THEN S2[p] ELSE 0], Pids)
    <2> DEFINE v == [p \in Pids |-> IF N[p] = n THEN S[p] ELSE 0]
               v2 == [p \in Pids |-> IF N2[p] = n THEN S2[p] ELSE 0]
               T == {p \in here : procs[p].name = n}
               c == [p \in Pids |-> IF p \in T THEN add[p] ELSE 0]
               w == [p \in here |-> Spent(procs, p)]
    <2>1. ASSUME NEW p \in Pids PROVE v[p] \in Int /\ c[p] \in Int /\ v2[p] = c[p] + v[p]
        <3>1. /\ v[p] = IF N[p] = n THEN S[p] ELSE 0
              /\ v2[p] = IF N2[p] = n THEN S2[p] ELSE 0
              /\ c[p] = IF p \in here /\ procs[p].name = n THEN add[p] ELSE 0
            OBVIOUS
        <3> HIDE DEF v, v2, c, T
        <3>2. CASE p \in here /\ p \in born
            BY <1>9, <3>1, <3>2
        <3>3. CASE p \in here /\ p \notin born
            BY <1>9, <3>1, <3>3
        <3>4. CASE p \notin here
            BY <1>9, <3>1, <3>4
        <3> QED
            BY <3>2, <3>3, <3>4
    <2>2. burnt'[n] = burnt[n] + Consumed(procs, n) /\ burnt[n] = Total(v, Pids)
        BY <1>1, <1>3 DEF Accounts
    <2>3. Consumed(procs, n) = Total(c, Pids)
        <3>1. CASE history = <<>>
            <4>1. \A p \in Pids : c[p] = 0
                BY <1>9, <3>1
            <4> HIDE DEF c
            <4>2. Total(c, Pids) = 0
                BY <4>1, AttributionConstants, TotalZero
            <4> QED
                BY <3>1, <4>2 DEF Consumed
        <3>2. CASE history # <<>>
            <4>1. Consumed(procs, n) = Total(w, T)
                BY <1>10, <3>2 DEF Consumed, Total
            <4>2. /\ T \subseteq Pids
                  /\ \A p \in T : p \in here /\ w[p] = add[p] /\ w[p] \in Int
                BY <1>9, <3>2
            <4>3. \A p \in Pids : c[p] = IF p \in T THEN w[p] ELSE 0
                <5> HIDE DEF T, w
                <5> QED
                    BY <4>2
            <4> HIDE DEF c, w, T
            <4>4. Total(c, Pids) = Total(w, T)
                BY <4>2, <4>3, AttributionConstants, TotalWithin
            <4> QED
                BY <4>1, <4>4
        <3> QED
            BY <3>1, <3>2
    <2> HIDE DEF v, v2, c, w, T
    <2>4. Total(v2, Pids) = Total(c, Pids) + Total(v, Pids)
        BY <2>1, AttributionConstants, TotalSum
    <2>5. Total(c, Pids) \in Int /\ Total(v, Pids) \in Int
        BY <2>1, AttributionConstants, TotalInt
    <2> QED
        BY <2>2, <2>3, <2>4, <2>5 DEF v2
<1> DEFINE m == Len(history) + 1
<1>15. \A i \in DOMAIN history' : i \in DOMAIN history \/ (i = m /\ history'[i] = top)
    BY <1>11
<1>16. \A p \in Pids : S2[p] \in Nat /\ (p \notin born' => S2[p] = 0)
    BY <1>9, <1>10
<1>17. \A p \in DOMAIN live' : p \in born' /\ live'[p].name = N2[p]
    BY <1>9, <1>10
<1>18. ASSUME NEW i \in DOMAIN history', NEW s \in history'[i]
       PROVE  /\ s.pid \in born' /\ s.name = N2[s.pid]
              /\ \A t \in history'[i] : t.pid = s.pid => t = s
              /\ s.pid \in DOMAIN live' => live'[s.pid].cpu <= s.cpuTime + S2[s.pid]
    <2>1. CASE i \in DOMAIN history
        <3>1. history'[i] = history[i] /\ s \in history[i]
            BY <1>11, <1>18, <2>1
        <3> QED
            BY <1>9, <1>10, <1>13, <2>1, <3>1
    <2>2. CASE history'[i] = top
        <3>1. s \in top /\ s.pid \in Pids
            BY <1>12, <1>18, <2>2
        <3>2. s.pid \in here /\ s.name = procs[s.pid].name /\ s.cpuTime = procs[s.pid].cpu
              /\ s.cpuTime \in Nat /\ S2[s.pid] \in Nat /\ N2[s.pid] = procs[s.pid].name
            BY <1>9, <1>12, <3>1
        <3>3. \A t \in history'[i] : t.pid = s.pid => t = s
            BY <1>12, <2>2, <3>1
        <3> QED
            BY <1>10, <3>2, <3>3
    <2> QED
        BY <1>15, <2>1, <2>2
<1>19. ASSUME NEW i \in DOMAIN history', NEW j \in DOMAIN history', i <= j,
              NEW s \in history'[i], NEW t \in history'[j], s.pid = t.pid
       PROVE  t.cpuTime <= s.cpuTime + S2[s.pid]
    <2>1. CASE i \in DOMAIN history /\ j \in DOMAIN history
        <3>1. s \in history[i] /\ t \in history[j]
            BY <1>11, <1>19, <2>1
        <3>2. t.cpuTime <= s.cpuTime + S[s.pid]
            BY <1>1, <1>19, <2>1, <3>1 DEF Accounts
        <3>3. s.cpuTime \in Nat /\ t.cpuTime \in Nat /\ s.pid \in Pids
            BY <1>13, <2>1, <3>1
        <3>4. S[s.pid] \in Nat /\ add[s.pid] \in Nat /\ S2[s.pid] = S[s.pid] + add[s.pid]
            BY <1>9, <3>3
        <3> QED
            BY <3>2, <3>3, <3>4
    <2>2. CASE i \in DOMAIN history /\ j = m
        <3>1. s \in history[i] /\ t \in top
            BY <1>11, <1>19, <2>2
        <3>2. t.pid \in here /\ t.cpuTime = procs[t.pid].cpu
            BY <1>12, <3>1
        <3> QED
            BY <1>13, <1>19, <2>2, <3>1, <3>2
    <2>3. CASE i = m
        <3>1. j = m
            BY <1>11, <1>19, <2>3
        <3>2. s \in top /\ t \in top
            BY <1>11, <1>19, <2>3, <3>1
        <3>3. t = s /\ s.cpuTime \in Nat /\ s.pid \in Pids
            BY <1>12, <1>19, <3>2
        <3>4. S2[s.pid] \in Nat
            BY <1>9, <3>3
        <3> QED
            BY <3>3, <3>4
    <2> QED
        BY <1>15, <2>1, <2>2, <2>3
<1>20. Accounts(N2, S2)'
    BY <1>14, <1>16, <1>17, <1>18, <1>19 DEF Accounts
<1> QED
    BY <1>20 DEF WorkInv

\* When no process number is given again while an event is observed, no program is
\* charged with more than its processes consumed, and one with more than half
\* of what was observed is named (rankProcesses and attribute, attribution.go).
THEOREM WorkIsNamed ==
    ASSUME ~Reuse
    PROVE  AttributionSpec => []NamedForItsWork
<1>1. AttributionInit => AttributionTypes /\ WorkInv
    BY WorkInit
<1>2. AttributionTypes /\ WorkInv /\ [AttributionNext]_attributionVars => (AttributionTypes /\ WorkInv)'
    <2> SUFFICES ASSUME AttributionTypes, WorkInv, [AttributionNext]_attributionVars PROVE WorkInv'
        BY AttributionTypesStep
    <2>1. CASE AttributionNext
        BY <2>1, WorkStep DEF AttributionNext
    <2>2. CASE UNCHANGED attributionVars
        BY <2>2 DEF attributionVars, WorkInv, Accounts
    <2> QED
        BY <2>1, <2>2
<1>3. AttributionTypes /\ WorkInv => NamedForItsWork
    <2> SUFFICES ASSUME AttributionTypes, WorkInv PROVE NamedForItsWork
        OBVIOUS
    <2>1. AttributionTypeOK
        BY DEF AttributionTypes, AttributionTypeOK
    <2> QED
        BY <2>1, WorkCovers, DominantComesFirst DEF NamedForItsWork
<1> QED
    BY <1>1, <1>2, <1>3, PTL DEF AttributionSpec

-----------------------------------------------------------------------------
(***************************************************************************)
(* Proof that a schedule entry matches exactly when it fired.              *)
(***************************************************************************)

LEMMA WeightsArePositive ==
    ASSUME NEW i \in 1 .. Len(Radix)
    PROVE  Weight[i] \in Nat \ {0}
<1> DEFINE n == Len(Radix)
           V == Nat \ {0}
           Is(f) == f = [k \in 1 .. n |-> IF k = 1 THEN 1 ELSE f[k - 1] * Radix[k - 1]]
           next == [x \in (1 .. n) \X V |-> IF x[1] = 1 THEN 1 ELSE x[2] * Radix[x[1] - 1]]
           w == CHOOSE f : Is(f)
<1>1. n \in Nat /\ \A k \in 1 .. n : Radix[k] \in V
    BY ScheduleAssumption DEF ScheduleAssumption
<1>2. Weight = w
    BY DEF Weight
<1> HIDE DEF w
<1>3. next \in [(1 .. n) \X V -> V]
    <2> SUFFICES ASSUME NEW k \in 1 .. n, NEW x \in V
                 PROVE  (IF k = 1 THEN 1 ELSE x * Radix[k - 1]) \in V
        OBVIOUS
    <2>1. CASE k = 1
        BY <2>1
    <2>2. CASE k # 1
        <3>1. Radix[k - 1] \in V
            BY <1>1, <2>2
        <3> DEFINE r == Radix[k - 1]
        <3>2. r \in V
            BY <3>1
        <3> HIDE DEF r, n
        <3>3. x * r \in V
            BY <3>2
        <3> QED
            BY <2>2, <3>3 DEF r
    <2> QED
        BY <2>1, <2>2
<1>4. PICK g \in [0 .. n -> V] : Recursive(n, 1, next, g)
    <2>1. 1 \in V
        OBVIOUS
    <2> HIDE DEF next, n, V
    <2> QED
        BY <1>1, <1>3, <2>1, RecursionExists
<1> DEFINE h == [k \in 1 .. n |-> g[k]]
<1>5. ASSUME NEW k \in 1 .. n
      PROVE  h[k] = IF k = 1 THEN 1 ELSE h[k - 1] * Radix[k - 1]
    <2>1. k \in 0 .. n /\ k - 1 \in 0 .. n /\ k # 0 /\ (k # 1 => k - 1 \in 1 .. n)
        BY <1>1
    <2>2. g[k] = next[<<k, g[k - 1]>>]
        <3> HIDE DEF next, n, V
        <3> QED
            BY <1>4, <2>1 DEF Recursive
    <2>3. g[k - 1] \in V
        BY <1>4, <2>1
    <2>4. next[<<k, g[k - 1]>>] = IF k = 1 THEN 1 ELSE g[k - 1] * Radix[k - 1]
        <3> HIDE DEF n, V
        <3> QED
            BY <2>3
    <2>5. h[k] = g[k] /\ (k # 1 => h[k - 1] = g[k - 1])
        <3> HIDE DEF n, V, next
        <3> QED
            BY <2>1
    <2> HIDE DEF h, n, V, next
    <2> QED
        BY <2>2, <2>4, <2>5
<1>6. Is(h)
    <2> HIDE DEF n, V, next
    <2>1. h = [k \in 1 .. n |-> h[k]]
        OBVIOUS
    <2> HIDE DEF h
    <2> QED
        BY <1>5, <2>1
<1>7. Is(w)
    <2> HIDE DEF Is
    <2> QED
        BY <1>6 DEF w
<1> HIDE DEF next, h
<1> DEFINE P == {k \in 0 .. n : k # 0 => w[k] \in V}
<1>8. ASSUME NEW k \in 1 .. n, (k - 1) \in P PROVE k \in P
    <2>1. w[k] = IF k = 1 THEN 1 ELSE w[k - 1] * Radix[k - 1]
        BY <1>7
    <2>2. CASE k = 1
        BY <1>1, <2>1, <2>2
    <2>3. CASE k # 1
        <3>1. w[k - 1] \in V /\ Radix[k - 1] \in V
            BY <1>1, <1>8, <2>3
        <3> DEFINE a == w[k - 1]
                   b == Radix[k - 1]
        <3>2. a \in Nat \ {0} /\ b \in Nat \ {0}
            BY <3>1
        <3>3. k \in 0 .. n
            BY <1>1
        <3> HIDE DEF a, b
        <3>4. a * b \in Nat \ {0}
            BY ONLY <3>2
        <3> QED
            BY <2>1, <2>3, <3>3, <3>4 DEF a, b
    <2> QED
        BY <2>2, <2>3
<1>9. 0 \in P
    BY <1>1
<1>10. 0 .. n \subseteq P
    <2> HIDE DEF P, n
    <2> QED
        BY <1>1, <1>8, <1>9, UpTo
<1> QED
    BY <1>1, <1>2, <1>10

LEMMA CalendarTypes ==
    /\ Day \in Nat \ {0} /\ Week \in Nat \ {0} /\ Tol \in Nat
    /\ \A t \in Int, i \in 1 .. Len(Radix) : Digit(t, i) \in Int
<1>1. Len(Radix) \in Nat /\ Len(Radix) >= 3 /\ Tol \in Nat /\ \A i \in 1 .. Len(Radix) : Radix[i] \in Nat \ {0}
    BY ScheduleAssumption DEF ScheduleAssumption
<1>2. Day \in Nat \ {0}
    BY <1>1, WeightsArePositive DEF Day
<1>3. Week \in Nat \ {0}
    <2> DEFINE a == Weight[Len(Radix)]
               b == Radix[Len(Radix)]
    <2>1. a \in Nat \ {0} /\ b \in Nat \ {0}
        BY <1>1, WeightsArePositive
    <2> HIDE DEF a, b
    <2>2. a * b \in Nat \ {0}
        BY ONLY <2>1
    <2> QED
        BY <2>2 DEF Week, a, b
<1>4. ASSUME NEW t \in Int, NEW i \in 1 .. Len(Radix) PROVE Digit(t, i) \in Int
    <2>1. Weight[i] \in Nat \ {0} /\ Radix[i] \in Nat \ {0}
        BY <1>1, WeightsArePositive
    <2>2. t \div Weight[i] \in Int
        BY <2>1
    <2> QED
        BY <2>1, <2>2 DEF Digit
<1> QED
    BY <1>1, <1>2, <1>3, <1>4

LEMMA Division ==
    ASSUME NEW a \in Nat, NEW b \in Nat \ {0}
    PROVE  a = b * (a \div b) + (a % b)
BY SMTT(30)

LEMMA NoRemainder ==
    ASSUME NEW a \in Nat, NEW b \in Nat \ {0}, a % b = 0
    PROVE  \E q \in Nat : a = b * q
OBVIOUS

LEMMA Multiple ==
    ASSUME NEW q \in Nat, NEW b \in Nat \ {0}
    PROVE  q * b \in Nat /\ (q * b) % b = 0
OBVIOUS

\* The remainder test and counting off from the start of a range agree.
LEMMA FieldExpansion ==
    ASSUME NEW c \in Crons, NEW i \in DOMAIN c, NEW v \in Int
    PROVE  CronFieldMatch(c[i], v) <=> v \in Expansion(c[i])
<1>1. \A part \in c[i] : part.lo \in Int /\ part.hi \in Int /\ part.step \in Nat \ {0}
    BY ScheduleAssumption DEF ScheduleAssumption
<1>2. ASSUME NEW lo \in Int, NEW hi \in Int, NEW step \in Nat \ {0}
      PROVE  lo <= v /\ v <= hi /\ (v - lo) % step = 0
                <=> v \in lo .. hi /\ \E n \in 0 .. (hi - lo) : v = lo + n * step
    <2> DEFINE rest == (v - lo) % step = 0
               count == \E n \in 0 .. (hi - lo) : v = lo + n * step
    <2>1. ASSUME lo <= v, v <= hi, rest PROVE count
        <3>1. v - lo \in Nat
            BY <2>1
        <3>2. PICK n \in Nat : v - lo = step * n
            BY <2>1, <3>1, NoRemainder
        <3>3. n <= step * n /\ step * n = n * step /\ step * n \in Nat
            BY ONLY <3>2, step \in Nat \ {0}
        <3>4. n \in 0 .. (hi - lo)
            BY <2>1, <3>2, <3>3
        <3>5. v = lo + step * n
            BY <3>2, <3>3
        <3> QED
            BY <3>3, <3>4, <3>5
    <2>2. ASSUME v \in lo .. hi, count PROVE rest
        <3>1. PICK n \in 0 .. (hi - lo) : v = lo + n * step
            BY <2>2
        <3>2. n * step \in Nat /\ (n * step) % step = 0
            BY Multiple
        <3> DEFINE m == n * step
        <3>3. v = lo + m /\ m \in Nat /\ m % step = 0
            BY <3>1, <3>2
        <3> HIDE DEF m
        <3>4. v - lo = m
            BY ONLY <3>3, lo \in Int
        <3> QED
            BY <3>3, <3>4
    <2> HIDE DEF rest, count
    <2>3. lo <= v /\ v <= hi /\ rest <=> v \in lo .. hi /\ count
        BY <2>1, <2>2
    <2> QED
        BY <2>3 DEF rest, count
<1> DEFINE Test(part) == part.lo <= v /\ v <= part.hi /\ (v - part.lo) % part.step = 0
           Counted(part) == v \in part.lo .. part.hi /\ \E n \in 0 .. (part.hi - part.lo) : v = part.lo + n * part.step
<1>3. \A part \in c[i] : Test(part) <=> Counted(part)
    BY <1>1, <1>2
<1>4. CronFieldMatch(c[i], v) <=> \E part \in c[i] : Test(part)
    BY DEF CronFieldMatch
<1>5. v \in Expansion(c[i]) <=> \E part \in c[i] : Counted(part)
    BY DEF Expansion
<1> QED
    BY <1>3, <1>4, <1>5

LEMMA CronMatch ==
    ASSUME NEW c \in Crons, NEW t \in Int
    PROVE  MatchesTime(c, t) <=> \E u \in t - Tol .. t + Tol : Fires(c, u)
<1>1. DOMAIN c = 1 .. Len(Radix)
    BY ScheduleAssumption DEF ScheduleAssumption
<1>2. ASSUME NEW u \in Int
      PROVE  (\A i \in DOMAIN c : CronFieldMatch(c[i], Digit(u, i))) <=> Fires(c, u)
    <2>1. \A i \in DOMAIN c : CronFieldMatch(c[i], Digit(u, i)) <=> Digit(u, i) \in Expansion(c[i])
        BY <1>1, CalendarTypes, FieldExpansion
    <2> QED
        BY <2>1 DEF Fires
<1>3. ASSUME NEW off \in -Tol .. Tol PROVE t + off \in Int /\ t + off \in t - Tol .. t + Tol
    BY CalendarTypes
<1>4. ASSUME NEW u \in t - Tol .. t + Tol PROVE u \in Int /\ u - t \in -Tol .. Tol /\ t + (u - t) = u
    BY CalendarTypes
<1>5. MatchesTime(c, t) <=> \E off \in -Tol .. Tol : Fires(c, t + off)
    BY <1>2, <1>3 DEF MatchesTime
<1> QED
    BY <1>3, <1>4, <1>5

\* Two times of day are within the tolerance on the clock's face exactly when
\* some whole number of days brings the moments that close.
LEMMA TimerMatch ==
    ASSUME NEW a \in Week .. (2 * Week - 1), NEW b \in Week .. (2 * Week - 1)
    PROVE  SameTimeOfDay(a, b) <=>
               \E n \in -Week .. Week : b - Tol <= a + n * Day /\ a + n * Day <= b + Tol
<1> DEFINE D == Day
           W == Week
           T == Tol
           qa == a \div D
           qb == b \div D
           ra == a % D
           rb == b % D
           half == D \div 2
           d == ra - rb
           apart == IF d < 0 THEN -d ELSE d
           near == IF apart > half THEN D - apart ELSE apart
<1>1. D \in Nat \ {0} /\ W \in Nat \ {0} /\ T \in Nat
    BY CalendarTypes
<1>2. SameTimeOfDay(a, b) <=> near <= T
    BY DEF SameTimeOfDay
<1>3. a \in Nat /\ b \in Nat /\ a - b <= W - 1 /\ b - a <= W - 1
    BY <1>1
<1> HIDE DEF D, W, T
<1>4. /\ ra \in 0 .. (D - 1) /\ rb \in 0 .. (D - 1)
      /\ qa \in Nat /\ qb \in Nat
    <2>1. ra \in 0 .. (D - 1) /\ rb \in 0 .. (D - 1)
        BY <1>1, <1>3
    <2>2. qa \in Nat /\ qb \in Nat
        <3> HIDE DEF ra, rb
        <3> QED
            BY <1>1, <1>3, Quotient
    <2> QED
        BY <2>1, <2>2
<1>5. a = D * qa + ra /\ b = D * qb + rb
    BY <1>1, <1>3, Division
<1>6. half \in Nat /\ 2 * half <= D /\ D <= 2 * half + 1
    BY <1>1
<1> HIDE DEF ra, rb, qa, qb, half
<1>7. d \in Int /\ -D < d /\ d < D /\ apart \in 0 .. (D - 1)
    BY <1>1, <1>4
<1>8. near \in Nat /\ near <= apart /\ near <= D - apart /\ near <= half
    BY <1>1, <1>6, <1>7
<1>9. a - b = D * (qa - qb) + d
    BY ONLY <1>1, <1>3, <1>4, <1>5
<1>10. ASSUME NEW k \in Int
       PROVE  D * k \in Int /\ (k >= 1 => D * k >= D) /\ (k <= -1 => D * k <= -D) /\ (k = 0 => D * k = 0)
    BY ONLY <1>1, <1>10
<1>11. ASSUME NEW n \in Int
       PROVE  a + n * D - b = D * (n + qa - qb) + d
    <2>1. D * (n + qa - qb) = n * D + D * (qa - qb) /\ n * D \in Int /\ D * (qa - qb) \in Int
        BY ONLY <1>1, <1>4, <1>11
    <2> QED
        BY ONLY <1>3, <1>7, <1>9, <2>1
<1> HIDE DEF d
<1>12. ASSUME NEW n \in Int, b - T <= a + n * D, a + n * D <= b + T
       PROVE  near <= T
    <2> DEFINE k == n + qa - qb
               p == D * k
               x == n * D
    <2>1. k \in Int
        BY <1>4
    <2>2. x \in Int
        BY ONLY <1>1, <1>12
    <2>3. a + x - b = p + d /\ b - T <= a + x /\ a + x <= b + T
        BY <1>11, <1>12
    <2> HIDE DEF k, x
    <2>4. p \in Int /\ (k >= 1 => p >= D) /\ (k <= -1 => p <= -D) /\ (k = 0 => p = 0)
        BY <1>10, <2>1
    <2> HIDE DEF p
    <2>5. p + d <= T /\ -T <= p + d
        BY <1>1, <1>3, <1>7, <2>2, <2>3, <2>4
    <2>6. near <= p + d \/ near <= -(p + d)
        BY <1>1, <1>7, <1>8, <2>1, <2>4
    <2> QED
        BY <1>1, <1>7, <1>8, <2>4, <2>5, <2>6
<1>13. ASSUME near <= T
       PROVE  \E n \in -W .. W : b - T <= a + n * D /\ a + n * D <= b + T
    <2> DEFINE k == IF apart <= half THEN 0 ELSE IF d < 0 THEN 1 ELSE -1
               n == k + qb - qa
    <2>1. k \in Int /\ n \in Int /\ n + qa - qb = k
        BY <1>4
    <2>2. D * k + d \in Int /\ -near <= D * k + d /\ D * k + d <= near
        <3>1. /\ D * 0 = 0 /\ D * 1 = D /\ D * (-1) = -D
            BY ONLY <1>1
        <3>2. CASE apart <= half
            <4>1. k = 0 /\ near = apart /\ apart = (IF d < 0 THEN -d ELSE d)
                BY <1>6, <1>7, <3>2
            <4> HIDE DEF k, near, apart, n
            <4>2. D * k + d = d
                BY <1>7, <3>1, <4>1
            <4> QED
                BY <1>7, <1>8, <4>1, <4>2
        <3>3. CASE ~(apart <= half) /\ d < 0
            <4>1. k = 1 /\ apart = -d /\ near = D + d
                BY <1>1, <1>6, <1>7, <3>3
            <4> HIDE DEF k, near, apart, n
            <4>2. D * k + d = near
                BY <3>1, <4>1
            <4> QED
                BY <1>8, <4>2
        <3>4. CASE ~(apart <= half) /\ ~(d < 0)
            <4>1. k = -1 /\ apart = d /\ near = D - d
                BY <1>1, <1>6, <1>7, <3>4
            <4> HIDE DEF k, near, apart, n
            <4>2. D * k + d = -near
                BY <1>1, <1>7, <3>1, <4>1
            <4> QED
                BY <1>8, <4>2
        <3> QED
            BY <3>2, <3>3, <3>4
    <2>3. a + n * D - b = D * k + d
        BY <1>11, <2>1
    <2> HIDE DEF k, n
    <2> DEFINE x == n * D
    <2>4. x \in Int
        BY ONLY <1>1, <2>1
    <2> DEFINE y == D * k + d
    <2>5. y \in Int /\ a + x - b = y /\ -near <= y /\ y <= near
        BY <2>2, <2>3
    <2> HIDE DEF y
    <2>6. x - W < D /\ -D < x + W
        BY <1>1, <1>3, <1>6, <1>7, <1>8, <2>4, <2>5
    <2>7. b - T <= a + x /\ a + x <= b + T
        BY <1>1, <1>3, <1>8, <1>13, <2>4, <2>5
    <2>8. n \in -W .. W
        <3>1. n >= W + 1 => x >= W + D
            <4>1. n >= W + 1 => n * D >= (W + 1) * D
                BY ONLY <1>1, <2>1
            <4>2. (W + 1) * D >= W + D
                BY ONLY <1>1
            <4> QED
                BY ONLY <1>1, <2>1, <4>1, <4>2 DEF x
        <3>2. n <= -(W + 1) => x <= -(W + D)
            <4>1. n <= -(W + 1) => n * D <= -((W + 1) * D)
                BY ONLY <1>1, <2>1
            <4>2. (W + 1) * D >= W + D
                BY ONLY <1>1
            <4> QED
                BY ONLY <1>1, <2>1, <4>1, <4>2 DEF x
        <3> HIDE DEF x
        <3> QED
            BY ONLY <1>1, <2>1, <2>4, <2>6, <3>1, <3>2
    <2> QED
        BY <2>7, <2>8
<1>14. near <= T <=> \E n \in -W .. W : b - T <= a + n * D /\ a + n * D <= b + T
    <2> HIDE DEF near
    <2>1. -W .. W \subseteq Int
        BY <1>1
    <2> QED
        BY <1>12, <1>13, <2>1
<1> HIDE DEF near
<1> QED
    BY <1>2, <1>14 DEF D, W, T

\* The entry is one of those enumerated, with a start in the second week.
ScheduleInv ==
    entry.kind # "none" => entry \in Entries /\ start \in Week .. (2 * Week - 1)

\* An entry is blamed for a spike exactly when it started something then: a cron
\* entry on a UTC host when one of its firing times is within the tolerance of
\* the start, a timer when some day's run is, also across midnight (MatchesTime,
\* sched.go; matchSchedule and sameTimeOfDay, attribution.go).
THEOREM BlameIsExact == ScheduleSpec => []ScheduleMatches
<1>1. ScheduleInit => ScheduleInv
    BY DEF ScheduleInit, ScheduleInv
<1>2. ScheduleInv /\ [ScheduleNext]_scheduleVars => ScheduleInv'
    <2> SUFFICES ASSUME ScheduleInv, [ScheduleNext]_scheduleVars PROVE ScheduleInv'
        OBVIOUS
    <2>1. CASE ScheduleNext
        BY <2>1 DEF ScheduleNext, ScheduleInv
    <2>2. CASE UNCHANGED scheduleVars
        BY <2>2 DEF scheduleVars, ScheduleInv
    <2> QED
        BY <2>1, <2>2
<1>3. ScheduleInv => ScheduleMatches
    <2> SUFFICES ASSUME ScheduleInv PROVE ScheduleMatches
        OBVIOUS
    <2>1. CronMatchesFiring
        <3> SUFFICES ASSUME entry.kind = "cron"
                     PROVE  MatchSchedule(entry, start) <=> \E t \in start - Tol .. start + Tol : Fires(entry.cron, t)
            BY DEF CronMatchesFiring
        <3>1. entry \in Entries /\ start \in Week .. (2 * Week - 1)
            BY DEF ScheduleInv
        <3>2. entry.cron \in Crons
            BY <3>1 DEF Entries
        <3>3. start \in Int
            BY <3>1, CalendarTypes
        <3>4. MatchSchedule(entry, start) <=> MatchesTime(entry.cron, start)
            BY DEF MatchSchedule
        <3> QED
            BY <3>2, <3>3, <3>4, CronMatch
    <2>2. TimerMatchesDaily
        <3> SUFFICES ASSUME entry.kind = "next"
                     PROVE  MatchSchedule(entry, start) <=>
                                \E n \in -Week .. Week : LET t == entry.at + n * Day
                                                         IN  start - Tol <= t /\ t <= start + Tol
            BY DEF TimerMatchesDaily
        <3>1. entry \in Entries /\ start \in Week .. (2 * Week - 1)
            BY DEF ScheduleInv
        <3>2. entry.at \in Week .. (2 * Week - 1)
            BY <3>1 DEF Entries
        <3>3. MatchSchedule(entry, start) <=> SameTimeOfDay(entry.at, start)
            BY DEF MatchSchedule
        <3> QED
            BY <3>1, <3>2, <3>3, TimerMatch
    <2> QED
        BY <2>1, <2>2 DEF ScheduleMatches
<1> QED
    BY <1>1, <1>2, <1>3, PTL DEF ScheduleSpec
=============================================================================
