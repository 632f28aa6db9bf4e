-------------------------------- MODULE Spool --------------------------------
(***************************************************************************)
(* The agent's local telemetry spool, internal/store/store.go: one active  *)
(* segment per record kind (memory buffer plus an append-only file), and   *)
(* the directory of closed segments with their sidecar metadata.           *)
(*                                                                         *)
(* Every exported method runs under Store.mu, and the agent calls them     *)
(* from one goroutine, so an operation is one action.  What is not atomic  *)
(* is its effect on the disk: every system call in it can fail, with the   *)
(* return the code gives, and the process can die between any two of       *)
(* them.  Each helper therefore yields the SET of results it can have;     *)
(* those that need a fault exist only when Faults allows it:               *)
(*   "open"    opening the active file for append fails                    *)
(*   "short"   the append write stops part-way (disk full)                 *)
(*   "sync"    Sync or Close fails after a complete write                  *)
(*   "rename"  Stat or Rename of the active file into closed/ fails        *)
(*   "meta"    writing the sidecar, or renaming it into place, fails       *)
(*   "remove"  os.Remove of a data file fails                              *)
(*   "removeMeta"  os.Remove of a sidecar fails                            *)
(*   "crash"   the process dies, anywhere but inside Remove                *)
(*   "crashRemove"  the process dies between the two unlinks of Remove     *)
(***************************************************************************)
EXTENDS SegmentFile, FiniteSetsExt

CONSTANTS
    Kinds,       \* record kinds, numbered in the alphabetical order of names
    AutoFlush,   \* autoFlushRecords
    MaxSegment,  \* MaxSegmentBytes, in records
    MaxSpool,    \* retention.max_spool_mb, in records; 0 disables the cap
    MaxAge,      \* retention.max_age_days; 0 disables the age limit
    Faults,      \* the faults this instance can meet
    MaxRecs,     \* bound: records offered to Append
    MaxDay,      \* bound: the last day of the clock
    MaxMembers   \* bound: members in an active file after which no write fails

AllFaults == {"open", "short", "sync", "rename", "meta", "remove",
              "removeMeta", "crash", "crashRemove"}

ASSUME ConstantsAssumption ==
    /\ Kinds \subseteq Nat /\ IsFiniteSet(Kinds)
    /\ AutoFlush \in Nat \ {0}
    /\ MaxSegment \in Nat /\ MaxSpool \in Nat /\ MaxAge \in Nat
    /\ Faults \subseteq AllFaults
    /\ MaxRecs \in Nat /\ MaxDay \in Nat \ {0} /\ MaxMembers \in Nat

VARIABLES
    up,        \* a process has the store open
    today,     \* the UTC day
    active,    \* Store.active: the open segment of every kind (memory)
    disk,      \* per kind: the active file, closed/, and stray sidecars
    dropped,   \* Store.dropped
    offered,   \* number of records handed to Append so far
    flushed,   \* history: records flushLocked reported as written
    removed,   \* history: records deleted with a closed segment
    lost       \* history: the numbers of the records that were nowhere when the
               \* process last died, or that an Append refused

vars == <<up, today, active, disk, dropped, offered, flushed, removed, lost>>
history == <<flushed, removed, lost>>

-----------------------------------------------------------------------------
(* The shape of the state.                                                 *)

\* activeSeg.  An absent map entry is the segment that is not open.
Segment ==
    [open : BOOLEAN, date : Nat, buf : Seq(Record), records : Nat,
     minTS : Nat, maxTS : Nat, size : Nat, rawBuffered : Nat]

NoSegment ==
    [open |-> FALSE, date |-> 0, buf |-> <<>>, records |-> 0,
     minTS |-> 0, maxTS |-> 0, size |-> 0, rawBuffered |-> 0]

NewSegment(date) == [NoSegment EXCEPT !.open = TRUE, !.date = date]

\* SegmentInfo: the sidecar of a closed segment.
Sidecar ==
    [present : BOOLEAN, records : Nat, minTS : Nat, maxTS : Nat, size : Nat]

NoSidecar ==
    [present |-> FALSE, records |-> 0, minTS |-> 0, maxTS |-> 0, size |-> 0]

File == [present : BOOLEAN, members : Seq(Member)]

NoFile == [present |-> FALSE, members |-> <<>>]

\* seg-<kind>-<date>-<seq>.ndjson.gz, and its sidecar when there is one.
ClosedSegment ==
    [date : Nat, seq : Nat, members : Seq(Member), meta : Sidecar]

\* A sidecar whose data file is gone.
Stray == [date : Nat, seq : Nat, meta : Sidecar]

Disk == [file : File, closed : SUBSET ClosedSegment, stray : SUBSET Stray]

TypeOK ==
    /\ up \in BOOLEAN
    /\ today \in Nat \ {0}
    /\ active \in [Kinds -> Segment]
    /\ disk \in [Kinds -> Disk]
    /\ dropped \in Nat
    /\ offered \in Nat
    /\ flushed \subseteq Record /\ removed \subseteq Record
    /\ lost \subseteq Nat

-----------------------------------------------------------------------------
(* Writing a member: flushLocked.                                          *)

\* The result of a helper: the segment and disk it leaves, whether it returned
\* nil, and the records it reported as written.
Result(seg, d, ok, saved) ==
    [seg |-> seg, disk |-> d, ok |-> ok, saved |-> saved]

Opened(d) == [d EXCEPT !.file.present = TRUE]

Written(d, member) ==
    [d EXCEPT !.file = [present |-> TRUE, members |-> Append(@.members, member)]]

\* The disks an interrupted append write can leave: the file just created, or
\* extended by a torn member.
TornWrites(buf, d) == {Opened(d)} \cup {Written(d, m) : m \in TornMembers(buf)}

FailedWrites(buf, d) ==
    (IF "open" \in Faults THEN {d} ELSE {})
      \cup
    (IF Len(d.file.members) < MaxMembers
       THEN (IF "short" \in Faults THEN TornWrites(buf, d) ELSE {}) \cup
            (IF "sync" \in Faults THEN {Written(d, Whole(buf))} ELSE {})
       ELSE {})

CrashedWrites(buf, d) ==
    IF buf = <<>> THEN {d}
    ELSE {d, Written(d, Whole(buf))} \cup TornWrites(buf, d)

Emptied(seg) ==
    [seg EXCEPT !.size = @ + Len(seg.buf), !.buf = <<>>, !.rawBuffered = 0]

FlushLocked(seg, d) ==
    IF seg.buf = <<>>
      THEN {Result(seg, d, TRUE, {})}
      ELSE {Result(Emptied(seg), Written(d, Whole(seg.buf)), TRUE, Range(seg.buf))}
             \cup {Result(seg, e, FALSE, {}) : e \in FailedWrites(seg.buf, d)}

-----------------------------------------------------------------------------
(* Moving a file into closed/: closeFile and rotateLocked.                 *)

Named(date, n, s) == s.date = date /\ s.seq = n

\* Mutant: the name search stops at the first candidate.
MutantFirstSeq(d, date) == {0}

\* The first sequence number whose data file does not exist (a singleton).
FreeSeqs(d, date) ==
    LET taken(n) == \E s \in d.closed : Named(date, n, s)
    IN  {n \in 0 .. Cardinality(d.closed) :
            ~taken(n) /\ \A m \in 0 .. (n - 1) : taken(m)}

\* os.Rename replaces whatever has the name.
Moved(d, date, n, meta) ==
    [file   |-> NoFile,
     closed |-> {s \in d.closed : ~Named(date, n, s)} \cup
                {[date |-> date, seq |-> n, members |-> d.file.members,
                  meta |-> meta]},
     stray  |-> {s \in d.stray : ~Named(date, n, s)}]

SegmentDate(info) == IF info.minTS = 0 THEN today ELSE info.minTS

\* Data renamed, sidecar written.
ClosedFiles(d, info) ==
    {Moved(d, SegmentDate(info), n,
           [present |-> TRUE, records |-> info.records, minTS |-> info.minTS,
            maxTS |-> info.maxTS, size |-> Bytes(d.file.members)])
       : n \in FreeSeqs(d, SegmentDate(info))}

\* Data renamed, sidecar not: the segment has none, unless a stray sidecar
\* already bears its name.
UnlabelledFiles(d, info) ==
    UNION {LET left == {s \in d.stray : Named(SegmentDate(info), n, s)}
           IN  IF left = {}
                 THEN {Moved(d, SegmentDate(info), n, NoSidecar)}
                 ELSE {Moved(d, SegmentDate(info), n, s.meta) : s \in left}
             : n \in FreeSeqs(d, SegmentDate(info))}

CloseFile(d, info) ==
    LET failing(e) == Result(NoSegment, e, FALSE, {})
    IN  IF ~d.file.present
          THEN {failing(d)}
          ELSE {Result(NoSegment, e, TRUE, {}) : e \in ClosedFiles(d, info)}
                 \cup (IF "rename" \in Faults THEN {failing(d)} ELSE {})
                 \cup (IF "meta" \in Faults
                         THEN {failing(e) : e \in UnlabelledFiles(d, info)}
                         ELSE {})

WithoutFile(d) == [d EXCEPT !.file = NoFile]

\* What rotateLocked does once the buffer is flushed: the map entry goes, and
\* an empty segment's file is removed instead of closed.
CloseSegment(seg, d) ==
    IF seg.records = 0
      THEN {Result(NoSegment, WithoutFile(d), TRUE, {})}
             \cup (IF "remove" \in Faults
                     THEN {Result(NoSegment, d, TRUE, {})} ELSE {})
      ELSE CloseFile(d, seg)

RotateLocked(seg, d) ==
    IF ~seg.open
      THEN {Result(seg, d, TRUE, {})}
      ELSE UNION {IF r.ok
                    THEN {Result(c.seg, c.disk, c.ok, r.saved) :
                             c \in CloseSegment(r.seg, r.disk)}
                    ELSE {r}
                  : r \in FlushLocked(seg, d)}

\* The disks a process that dies inside rotateLocked can leave.
CrashedRotate(seg, d) ==
    IF ~seg.open
      THEN {d}
      ELSE CrashedWrites(seg.buf, d) \cup
           (IF seg.records = 0
              THEN {}
              ELSE UnlabelledFiles(
                     IF seg.buf = <<>> THEN d ELSE Written(d, Whole(seg.buf)),
                     seg))

-----------------------------------------------------------------------------
(* Append.                                                                 *)

NeedsRotation(seg, r) ==
    /\ seg.open
    /\ seg.date # r.ts \/ seg.size + seg.rawBuffered > MaxSegment

Buffered(seg, r) ==
    [seg EXCEPT !.buf = Append(@, r),
                !.rawBuffered = @ + 1,
                !.records = @ + 1,
                !.minTS = IF @ = 0 \/ r.ts < @ THEN r.ts ELSE @,
                !.maxTS = IF r.ts > @ THEN r.ts ELSE @]

\* The segment that takes the record once rotation, if due, has succeeded.
Accepting(seg, r) ==
    Buffered(IF seg.open THEN seg ELSE NewSegment(r.ts), r)

RotatedFor(seg, d, r) ==
    IF NeedsRotation(seg, r) THEN RotateLocked(seg, d)
                             ELSE {Result(seg, d, TRUE, {})}

\* Mutant: the segment's record count still includes the dropped batch.
MutantDropKeepsCount(seg) == [seg EXCEPT !.buf = <<>>]

\* A failed automatic flush drops the batch and counts it.
DropBatch(seg) == [seg EXCEPT !.records = @ - Len(seg.buf), !.buf = <<>>]

\* Mutants: the flush is due one record late; a dropped batch is not counted.
MutantLateFlush(seg, d, saved) ==
    IF Len(seg.buf) <= AutoFlush
      THEN {<<Result(seg, d, TRUE, saved), 0>>}
      ELSE {<<f, IF f.ok THEN 0 ELSE Len(f.seg.buf)>> : f \in FlushLocked(seg, d)}

MutantUncountedDrop(seg, d, saved) ==
    IF Len(seg.buf) < AutoFlush
      THEN {<<Result(seg, d, TRUE, saved), 0>>}
      ELSE {IF f.ok
              THEN <<Result(f.seg, f.disk, TRUE, saved \cup f.saved), 0>>
              ELSE <<Result(DropBatch(f.seg), f.disk, FALSE, saved), 0>>
            : f \in FlushLocked(seg, d)}

\* The results of buffering r in an accepting segment, with the number of
\* records added to Store.dropped.
AutoFlushed(seg, d, saved) ==
    IF Len(seg.buf) < AutoFlush
      THEN {<<Result(seg, d, TRUE, saved), 0>>}
      ELSE {IF f.ok
              THEN <<Result(f.seg, f.disk, TRUE, saved \cup f.saved), 0>>
              ELSE <<Result(DropBatch(f.seg), f.disk, FALSE, saved),
                     Len(f.seg.buf)>>
            : f \in FlushLocked(seg, d)}

\* A failed rotation returns at once: the record is neither kept nor counted.
Refused(k, r) ==
    /\ \E q \in RotatedFor(active[k], disk[k], r) :
          /\ ~q.ok
          /\ active' = [active EXCEPT ![k] = q.seg]
          /\ disk' = [disk EXCEPT ![k] = q.disk]
          /\ flushed' = flushed \cup q.saved
    /\ lost' = lost \cup {r.id}
    /\ UNCHANGED dropped

Taken(k, r) ==
    /\ \E q \in RotatedFor(active[k], disk[k], r) :
          /\ q.ok
          /\ \E f \in AutoFlushed(Accepting(q.seg, r), q.disk, q.saved) :
                /\ active' = [active EXCEPT ![k] = f[1].seg]
                /\ disk' = [disk EXCEPT ![k] = f[1].disk]
                /\ flushed' = flushed \cup f[1].saved
                /\ dropped' = dropped + f[2]
    /\ UNCHANGED lost

NextRecord(ts) == [id |-> offered + 1, ts |-> ts]

\* The records of a day still arrive on the next one: a minute or a spike is
\* stamped with its start and appended when it ends.
Timestamps == {today, today - 1} \ {0}

AppendRecord(k, ts) ==
    /\ up /\ offered < MaxRecs
    /\ offered' = offered + 1
    /\ Refused(k, NextRecord(ts)) \/ Taken(k, NextRecord(ts))
    /\ UNCHANGED <<up, today, removed>>

-----------------------------------------------------------------------------
(* Flush and Rotate: every kind, in map order, going on after an error.    *)

ForEachKind(results) ==
    /\ up
    /\ \E r \in [Kinds -> UNION {results[k] : k \in Kinds}] :
          /\ \A k \in Kinds : r[k] \in results[k]
          /\ active' = [k \in Kinds |-> r[k].seg]
          /\ disk' = [k \in Kinds |-> r[k].disk]
          /\ flushed' = flushed \cup UNION {r[k].saved : k \in Kinds}
    /\ UNCHANGED <<up, today, dropped, offered, removed, lost>>

Flush ==
    ForEachKind([k \in Kinds |-> FlushLocked(active[k], disk[k])])

Rotate ==
    ForEachKind([k \in Kinds |-> RotateLocked(active[k], disk[k])])

-----------------------------------------------------------------------------
(* Open: recover moves every leftover active file into closed/.            *)

\* Mutant: recovery counts gzip members instead of records.
MutantCountMembers(members) ==
    LET times == {r.ts : r \in ReadSegment(members)}
        info(lo, hi) == [records |-> Len(members), minTS |-> lo, maxTS |-> hi]
    IN  IF times = {}
          THEN {info(0, 0)}
          ELSE {info(p[1], p[2]) : p \in
                  {q \in times \X times : \A t \in times : q[1] <= t /\ t <= q[2]}}

\* The sidecar recover rebuilds from the records it can read (a singleton).
RecoveredInfo(members) ==
    LET times == {r.ts : r \in ReadSegment(members)}
        info(lo, hi) == [records |-> ReadCount(members),
                         minTS |-> lo, maxTS |-> hi]
    IN  IF times = {}
          THEN {info(0, 0)}
          ELSE {info(p[1], p[2]) : p \in
                  {q \in times \X times : \A t \in times : q[1] <= t /\ t <= q[2]}}

\* Mutant: recovery leaves a file alone when it holds no complete record.
MutantSkipsUnreadable(k) == ReadSegment(disk[k].file.members) # {}

Leftover(k) == disk[k].file.present

\* Mutant: recovery discards a file with a torn tail.
MutantDiscardsTorn(d) ==
    IF AllWhole(d.file.members)
      THEN UNION {ClosedFiles(d, i) : i \in RecoveredInfo(d.file.members)}
      ELSE {WithoutFile(d)}

Recovered(d) ==
    UNION {ClosedFiles(d, info) : info \in RecoveredInfo(d.file.members)}

\* Where a recovery of one file that fails, or dies, can leave it.
HalfRecovered(d) ==
    (IF {"rename", "crash"} \cap Faults # {} THEN {d} ELSE {})
      \cup
    (IF {"meta", "crash"} \cap Faults # {}
       THEN UNION {UnlabelledFiles(d, i) : i \in RecoveredInfo(d.file.members)}
       ELSE {})

Open ==
    /\ ~up
    /\ up' = TRUE
    /\ active' = [k \in Kinds |-> NoSegment]
    /\ disk' \in [Kinds -> UNION {Recovered(disk[k]) \cup {disk[k]} : k \in Kinds}]
    /\ \A k \in Kinds : IF Leftover(k) THEN disk'[k] \in Recovered(disk[k])
                                       ELSE disk'[k] = disk[k]
    /\ dropped' = 0
    /\ UNCHANGED <<today, offered, history>>

\* Open returns an error, or dies, at the file of kind c; the files before it
\* in directory order are recovered, those after it untouched.
OpenFails(c) ==
    /\ ~up /\ Leftover(c)
    /\ disk' \in [Kinds -> UNION {Recovered(disk[k]) \cup HalfRecovered(disk[k])
                                     \cup {disk[k]} : k \in Kinds}]
    /\ disk'[c] \in HalfRecovered(disk[c])
    /\ \A k \in Kinds \ {c} :
          IF k < c /\ Leftover(k) THEN disk'[k] \in Recovered(disk[k])
                                  ELSE disk'[k] = disk[k]
    /\ UNCHANGED <<up, today, active, dropped, offered, history>>

-----------------------------------------------------------------------------
(* Remove and EnforceRetention.                                            *)

\* ListClosed: the closed segments that have a sidecar, as <<kind, segment>>.
ListClosed ==
    UNION {{<<k, s>> : s \in {c \in disk[k].closed : c.meta.present}} : k \in Kinds}

\* The order of ListClosed: by file name, so by kind, then date, then number.
Before(x, y) ==
    \/ x[1] < y[1]
    \/ x[1] = y[1] /\ x[2].date < y[2].date
    \/ x[1] = y[1] /\ x[2].date = y[2].date /\ x[2].seq < y[2].seq

DiskBytes(d) ==
    Bytes(d.file.members) + SumFunction([s \in d.closed |-> Bytes(s.members)])

SpoolBytes == SumFunction([k \in Kinds |-> DiskBytes(disk[k])])

\* What the sidecars of the segments in xs say that removing them frees.
Freed(xs) == SumFunction([x \in xs |-> x[2].meta.size])

\* What is left of disk[k] when the segments in gone were removed, those in
\* stuck lost only their sidecar, and those in torn only their data file.
AfterRemoval(k, gone, stuck, torn) ==
    LET of(xs) == {x[2] : x \in {y \in xs : y[1] = k}}
        d == disk[k]
    IN  [d EXCEPT !.closed = (@ \ (of(gone) \cup of(stuck) \cup of(torn)))
                               \cup {[s EXCEPT !.meta = NoSidecar] : s \in of(stuck)},
                  !.stray = @ \cup {[date |-> s.date, seq |-> s.seq, meta |-> s.meta]
                                      : s \in of(torn)}]

RemoveSegments(gone, stuck, torn) ==
    /\ disk' = [k \in Kinds |-> AfterRemoval(k, gone, stuck, torn)]
    /\ removed' = removed \cup
                  UNION {ReadSegment(x[2].members) : x \in gone \cup torn}

\* The subsets of xs whose data file, or whose sidecar, cannot be removed.
Stuck(xs) == IF "remove" \in Faults THEN SUBSET xs ELSE {{}}

SidecarStuck(xs) == IF "removeMeta" \in Faults THEN SUBSET xs ELSE {{}}

\* Remove, called for each segment in xs: it goes on to the sidecar whether the
\* data file could be removed or not.
RemoveEach(xs, stuck, left) ==
    RemoveSegments(xs \ (stuck \cup left), stuck \ left, left \ stuck)

TooOld(x) ==
    MaxAge > 0 /\ x[2].meta.maxTS # 0 /\ x[2].meta.maxTS < today - MaxAge

\* Mutant: a segment goes only if the spool is over the cap without it.
MutantStopsEarly(xs, stuck) ==
    \A x \in ListClosed :
        x \in xs <=>
            \/ TooOld(x)
            \/ /\ MaxSpool > 0
               /\ SpoolBytes - x[2].meta.size
                    - Freed({y \in xs \ stuck : Before(y, x)}) > MaxSpool

\* The segments one pass of EnforceRetention deletes when removal fails on
\* those in stuck.  It runs through ListClosed in order: a segment goes if it
\* is too old, or if what was removed before it leaves the spool over the cap.
Chosen(xs, stuck) ==
    \A x \in ListClosed :
        x \in xs <=>
            \/ TooOld(x)
            \/ /\ MaxSpool > 0
               /\ SpoolBytes - Freed({y \in xs \ stuck : Before(y, x)}) > MaxSpool

EnforceRetention ==
    /\ up
    /\ \E xs \in SUBSET ListClosed : \E stuck \in Stuck(xs), left \in SidecarStuck(xs) :
          /\ xs # {} /\ Chosen(xs, stuck)
          /\ RemoveEach(xs, stuck, left)
    /\ UNCHANGED <<up, today, active, dropped, offered, flushed, lost>>

\* bundle.Export's cleanup: Remove of one listed segment, error ignored.
Remove ==
    /\ up
    /\ \E x \in ListClosed : \E stuck \in Stuck({x}), left \in SidecarStuck({x}) :
          RemoveEach({x}, stuck, left)
    /\ UNCHANGED <<up, today, active, dropped, offered, flushed, lost>>

-----------------------------------------------------------------------------
(* The process dies.                                                       *)

InMemory == UNION {Range(active[k].buf) : k \in Kinds}

OnDisk(d) ==
    ReadSegment(d.file.members) \cup UNION {ReadSegment(s.members) : s \in d.closed}

Stored == UNION {OnDisk(disk[k]) : k \in Kinds}

\* Memory is gone, the buffers and the drop counter with it.
Dies ==
    /\ up' = FALSE
    /\ active' = [k \in Kinds |-> NoSegment]
    /\ dropped' = 0
    /\ lost' = (1 .. offered') \
                 {r.id : r \in removed' \cup UNION {OnDisk(disk'[k]) : k \in Kinds}}
    /\ UNCHANGED <<today, flushed>>

\* In the middle of Flush or Rotate: some kinds done, one interrupted.
DiesWhile(done, interrupted) ==
    /\ up /\ "crash" \in Faults
    /\ \E c \in Kinds, complete \in SUBSET Kinds :
          /\ disk' \in [Kinds -> UNION {{r.disk : r \in done[k]} \cup interrupted[k]
                                           \cup {disk[k]} : k \in Kinds}]
          /\ disk'[c] \in interrupted[c]
          /\ \A k \in Kinds \ {c} :
                IF k \in complete THEN \E r \in done[k] : disk'[k] = r.disk
                                  ELSE disk'[k] = disk[k]
    /\ UNCHANGED <<offered, removed>>
    /\ Dies

CrashInFlush ==
    DiesWhile([k \in Kinds |-> FlushLocked(active[k], disk[k])],
              [k \in Kinds |-> CrashedWrites(active[k].buf, disk[k])])

CrashInRotate ==
    DiesWhile([k \in Kinds |-> RotateLocked(active[k], disk[k])],
              [k \in Kinds |-> CrashedRotate(active[k], disk[k])])

\* In the middle of Append: in its rotation, or in its automatic flush.  The
\* record itself dies with the caller.
CrashInAppend(k, ts) ==
    LET r == NextRecord(ts)
        rotated == {q \in RotatedFor(active[k], disk[k], r) : q.ok}
        flushing(q) == LET s == Accepting(q.seg, r)
                       IN  IF Len(s.buf) < AutoFlush
                             THEN {} ELSE CrashedWrites(s.buf, q.disk)
    IN  /\ up /\ "crash" \in Faults /\ offered < MaxRecs
        /\ \E d \in (IF NeedsRotation(active[k], r)
                       THEN CrashedRotate(active[k], disk[k]) ELSE {})
                      \cup UNION {flushing(q) : q \in rotated} :
              disk' = [disk EXCEPT ![k] = d]
        /\ offered' = offered + 1
        /\ UNCHANGED removed
        /\ Dies

\* Between two operations; also the exit after a clean shutdown.
Crash ==
    /\ up /\ "crash" \in Faults
    /\ UNCHANGED <<disk, offered, removed>>
    /\ Dies

\* In the middle of Remove, called by EnforceRetention at segment x: the
\* segments chosen before x are gone, x has lost its data file only.
CrashInRetention ==
    /\ up /\ "crashRemove" \in Faults
    /\ \E xs \in SUBSET ListClosed :
          \E stuck \in Stuck(xs), left \in SidecarStuck(xs), x \in xs :
              LET before == {y \in xs : Before(y, x)}
              IN  /\ Chosen(xs, stuck) /\ x \notin stuck
                  /\ RemoveSegments(before \ (stuck \cup left),
                                    (before \cap stuck) \ left,
                                    {x} \cup ((before \cap left) \ stuck))
    /\ UNCHANGED offered
    /\ Dies

\* The same, called by the export's cleanup.
CrashInRemove ==
    /\ up /\ "crashRemove" \in Faults
    /\ \E x \in ListClosed : RemoveSegments({}, {}, {x})
    /\ UNCHANGED offered
    /\ Dies

-----------------------------------------------------------------------------
NewDay ==
    /\ today < MaxDay
    /\ today' = today + 1
    /\ UNCHANGED <<up, active, disk, dropped, offered, history>>

Init ==
    /\ up = TRUE
    /\ today = 1
    /\ active = [k \in Kinds |-> NoSegment]
    /\ disk = [k \in Kinds |-> [file |-> NoFile, closed |-> {}, stray |-> {}]]
    /\ dropped = 0
    /\ offered = 0
    /\ flushed = {} /\ removed = {} /\ lost = {}

Operation ==
    \/ \E k \in Kinds, ts \in Timestamps : AppendRecord(k, ts)
    \/ Flush
    \/ Rotate
    \/ EnforceRetention
    \/ Remove
    \/ Open

Failure ==
    \/ \E k \in Kinds : OpenFails(k)
    \/ \E k \in Kinds, ts \in Timestamps : CrashInAppend(k, ts)
    \/ CrashInFlush
    \/ CrashInRotate
    \/ CrashInRetention
    \/ CrashInRemove
    \/ Crash

Next == Operation \/ Failure \/ NewDay

Spec == Init /\ [][Next]_vars

-----------------------------------------------------------------------------
(* Properties.                                                             *)

\* Between two calls the memory of every kind is bounded by the auto-flush
\* threshold (store.go:40-41), and its counters agree with its buffer: no
\* failed flush leaves the record count below what is still buffered, or the
\* rotation's size estimate below what the buffer holds.
BufferBounded ==
    \A k \in Kinds :
        /\ Len(active[k].buf) < AutoFlush
        /\ Len(active[k].buf) <= active[k].records
        /\ Len(active[k].buf) <= active[k].rawBuffered

\* Every record that a flush reported as written can be read from a spool file
\* until its segment is deleted, whatever crash or error comes after
\* (store.go:7-9, 13-14).
FlushedSurvive == flushed \subseteq Stored \cup removed

\* A torn member is the last of its file: nothing behind a tear is written
\* that no reader would reach (store.go:7-9).
TearsAreFinal ==
    \A k \in Kinds :
        /\ OnlyTailTorn(disk[k].file.members)
        /\ \A s \in disk[k].closed : OnlyTailTorn(s.members)

\* A listed segment decodes to at least the records its sidecar promises: the
\* count goes into the export manifest, and the analyzer takes it for what a
\* damaged segment has lost (store.go:11-12, bundle.go:121, dataset.go:87).
PromiseKept ==
    \A x \in ListClosed : x[2].meta.records <= ReadCount(x[2].members)

\* The sidecar is exact: record count and time range (store.go:11-12), on which
\* retention by age and the manifest's period rely.
SidecarExact ==
    \A x \in ListClosed :
        /\ x[2].meta.records = ReadCount(x[2].members)
        /\ x[2].meta.size = Bytes(x[2].members)
        /\ \A r \in ReadSegment(x[2].members) :
              x[2].meta.minTS <= r.ts /\ r.ts <= x[2].meta.maxTS

\* Records that are nowhere: given to Append, and in neither the memory, the
\* disk nor a deleted segment.
Missing ==
    (1 .. offered) \ {r.id : r \in InMemory \cup Stored \cup removed}

\* Every record that is nowhere was dropped by a failed automatic flush and
\* counted, was refused by an Append that returned an error, or died in memory
\* with the process.
LossExplained ==
    up => Cardinality(Missing \ lost) <= dropped

\* An open store shows all the data it holds: every closed data file has the
\* sidecar that makes ListClosed return it, so that it is exported and subject
\* to retention (store.go:226-228, 79-80).
ClosedIsListed ==
    up => \A k \in Kinds : \A s \in disk[k].closed : s.meta.present

\* A retention pass over a spool within its cap deletes only records that are
\* past the age limit (store.go:359-361).
RetentionSparesRecent ==
    [][EnforceRetention /\ SpoolBytes <= MaxSpool =>
          \A r \in removed' \ removed : r.ts < today - MaxAge]_vars

\* A retention pass in which every removal succeeds ends with a spool that fits
\* the cap, or with nothing left that it may delete (store.go:359-361).
RetentionReachesCap ==
    [][EnforceRetention /\ MaxSpool > 0 /\ "remove" \notin Faults =>
          SpoolBytes' <= MaxSpool \/ ListClosed' = {}]_vars

\* Retention deletes enough and no more.
RetentionIsRight == RetentionSparesRecent /\ RetentionReachesCap

\* The spool is a telemetry log: pending records are those in memory alone,
\* durable ones those that some spool file yields.
Log == INSTANCE TelemetryLog WITH
    Times <- 1 .. MaxDay,
    pending <- InMemory \ Stored,
    durable <- Stored,
    deleted <- removed,
    taken <- offered

ImplementsLog == Log!Spec

-----------------------------------------------------------------------------
(* Claims of the documentation that the code does not keep.                *)

\* No record is lost without being counted: what is nowhere is in the drop
\* counter (store.go:129-131).
LossCounted == Cardinality(Missing) <= dropped

\* Retention deletes the oldest closed segments first: a listed segment that
\* survives a pass is no older than one the pass deleted for the cap
\* (store.go:15-16, 359).
RetentionOldestFirst ==
    [][EnforceRetention =>
          \A x \in ListClosed \ ListClosed', y \in ListClosed' :
              TooOld(x) \/ x[2].meta.maxTS <= y[2].meta.maxTS]_vars
=============================================================================
