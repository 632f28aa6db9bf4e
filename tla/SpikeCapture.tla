----------------------------- MODULE SpikeCapture -----------------------------
(***************************************************************************)
(* The capture of process evidence around a spike: the detector, the ring  *)
(* of process snapshots of internal/proctop/proctop.go, and the two        *)
(* handlers of internal/agent/agent.go that join them (onHostSample with   *)
(* finishSpike, and the process tick).  A snapshot is here only its time;  *)
(* what is in it and what is made of it is in Attribution.  The minute     *)
(* aggregate that onHostSample also feeds is in MinuteAgg, the spool its   *)
(* records go to in Spool: neither is read here.                           *)
(***************************************************************************)
EXTENDS SpikeDetector

CONSTANTS
    ProcEvery,  \* proc_interval, in host samples
    HistCap,    \* Collector.histCap
    Window,     \* the two minutes finishSpike adds on both sides
    MaxFails    \* bound: process listings that fail

ASSUME CaptureAssumption ==
    /\ ProcEvery \in Nat \ {0} /\ HistCap \in Nat \ {0}
    /\ Window \in Nat /\ MaxFails \in Nat

VARIABLES
    ring,          \* Collector.history, as times
    lastProcSnap,  \* Agent.lastProcSnap
    lastProcTick,  \* when procTick.C last fired
    taken,         \* history: the times of all snapshots
    fails,         \* history: the times at which the listing failed
    attributed     \* history: every finished event with the snapshots it got

captureVars == <<spikeVars, ring, lastProcSnap, lastProcTick, taken, fails, attributed>>

CaptureInit ==
    /\ SpikeInit
    /\ ring = <<0>> /\ taken = {0}          \* the priming snapshot of Run
    /\ lastProcSnap = NoTime /\ lastProcTick = 0
    /\ fails = {} /\ attributed = {}

\* Collector.Snapshot: a failed listing returns before the ring is touched.
Snapshot(t) ==
    \/ /\ ring' = Latest(Append(ring, t), HistCap)
       /\ taken' = taken \cup {t}
       /\ UNCHANGED fails
    \/ /\ Cardinality(fails) < MaxFails
       /\ fails' = fails \cup {t}
       /\ UNCHANGED <<ring, taken>>

\* Mutant: the window stops at the end of the event.
MutantTightWindow(r, from, to) == {t \in Range(r) : from <= t /\ t < to - Window}

History(r, from, to) == {t \in Range(r) : from <= t /\ t <= to}

Finish(ev) ==
    [ev |-> ev, snaps |-> History(ring', ev.start - Window, ev.end + Window)]

\* The test of onHostSample, before the sample is offered to the detector; one
\* host interval is the fifteen seconds it compares with.
BurstDue(t) == openCount > 0 /\ t - lastProcSnap >= 1

HostSample ==
    LET t == now + 1
    IN  /\ t <= Horizon /\ now' = t
        /\ IF BurstDue(t)
             THEN Snapshot(t) /\ lastProcSnap' = t
             ELSE UNCHANGED <<ring, taken, fails, lastProcSnap>>
        /\ \E values \in Readings : Offer(t, values)
        /\ attributed' = attributed \cup {Finish(ev) : ev \in done' \ done}
        /\ UNCHANGED lastProcTick

ProcTick ==
    /\ now - lastProcTick >= ProcEvery
    /\ Snapshot(now)
    /\ lastProcTick' = now
    /\ UNCHANGED <<spikeVars, lastProcSnap, attributed>>

CaptureNext == HostSample \/ ProcTick
CaptureSpec == CaptureInit /\ [][CaptureNext]_captureVars

-----------------------------------------------------------------------------
(* Properties.                                                             *)

Overlapping(ev) == {t \in taken : ev.start - Window <= t /\ t <= ev.end + Window}
TakenSince(t) == Cardinality({x \in taken : x >= t})

CaptureTypeOK ==
    /\ SpikeTypeOK
    /\ ring \in Seq(Nat) /\ Len(ring) <= HistCap /\ Range(ring) \subseteq taken
    /\ lastProcSnap \in 0..now /\ lastProcTick \in 0..now

\* While an event is open every host sample after the one that opened it comes
\* with a process snapshot, so that the event is observed at high resolution
\* up to the sample that finishes it; only a failed listing leaves a hole.
CaptureObserved ==
    \A a \in attributed :
        \A t \in (a.ev.opened + 1)..a.ev.finished : t \in taken \cup fails

\* An event gets every snapshot that overlaps it, up to two minutes on either
\* side, as long as the ring still holds what was taken since then.
EvidenceComplete ==
    \A a \in attributed :
        (ring[1] <= a.ev.start - Window \/ Len(ring) < HistCap)
            => a.snaps = Overlapping(a.ev)

\* What an event is attributed with is all there is about it (agent.go:185-210,
\* proctop.go:150-175).
CaptureComplete == CaptureTypeOK /\ CaptureObserved /\ EvidenceComplete

-----------------------------------------------------------------------------
(* A claim of the documentation that the code does not keep.               *)

\* attribution.go:89: "rankProcesses merges snapshots overlapping the event".
\* proctop.go:46 sizes the ring as "~30 min of minute snapshots", but a
\* capture fills it at the pace of the host samples: a long event is attributed
\* from its tail.
LongEventsComplete ==
    \A a \in attributed : Cardinality(a.snaps) <= HistCap /\ a.snaps = Overlapping(a.ev)
=============================================================================
