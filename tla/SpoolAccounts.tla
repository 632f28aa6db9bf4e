---------------------------- MODULE SpoolAccounts ----------------------------
(***************************************************************************)
(* Theorems about what the spool says of its own content: the counts and   *)
(* times in the sidecars, and the drop counter.  Both are about numbers of *)
(* records: of a file, of a buffer, of what is neither.                    *)
(***************************************************************************)
EXTENDS SpoolProofs, Lemmas

-----------------------------------------------------------------------------
(* A step as one kind sees it.                                             *)

Becomes(k, seg, d) == active'[k] = seg /\ disk'[k] = d

\* What a running store can do to kind k.
Serves(k) ==
    \/ Becomes(k, active[k], disk[k])
    \/ \E r \in FlushLocked(active[k], disk[k]) \cup RotateLocked(active[k], disk[k]) :
           Becomes(k, r.seg, r.disk)
    \/ \E r \in Record : \E q \in RotatedFor(active[k], disk[k], r) :
           \/ Becomes(k, q.seg, q.disk)
           \/ /\ q.ok
              /\ \E f \in AutoFlushed(Accepting(q.seg, r), q.disk, q.saved) :
                     Becomes(k, f[1].seg, f[1].disk)
    \/ \E gone, stuck, torn \in SUBSET ListClosed :
           /\ torn # {} => "removeMeta" \in Faults
           /\ Becomes(k, active[k], AfterRemoval(k, gone, stuck, torn))

\* Where a process that dies can leave kind k.
Abandons(k) ==
    \/ Becomes(k, NoSegment, disk[k])
    \/ \E r \in FlushLocked(active[k], disk[k]) \cup RotateLocked(active[k], disk[k]) :
           Becomes(k, NoSegment, r.disk)
    \/ /\ "crash" \in Faults
       /\ \E d \in CrashedWrites(active[k].buf, disk[k]) \cup CrashedRotate(active[k], disk[k]) :
              Becomes(k, NoSegment, d)
    \/ /\ "crash" \in Faults
       /\ \E r \in Record : \E q \in RotatedFor(active[k], disk[k], r) :
              /\ q.ok
              /\ \E d \in CrashedWrites(Accepting(q.seg, r).buf, q.disk) :
                     Becomes(k, NoSegment, d)
    \/ \E gone, stuck, torn \in SUBSET ListClosed :
           /\ "crashRemove" \in Faults
           /\ Becomes(k, NoSegment, AfterRemoval(k, gone, stuck, torn))

\* What Open makes of kind k, and what an Open that fails can.
Opens(k) ==
    /\ active'[k] = NoSegment
    /\ IF Leftover(k) THEN disk'[k] \in Recovered(disk[k]) ELSE disk'[k] = disk[k]

Fails(k) ==
    /\ active'[k] = active[k]
    /\ disk'[k] \in {disk[k]} \cup Recovered(disk[k]) \cup HalfRecovered(disk[k])

\* Every step does one of these to all the kinds.
ByKind ==
    \/ up /\ up' /\ \A k \in Kinds : Serves(k)
    \/ up /\ ~up' /\ \A k \in Kinds : Abandons(k)
    \/ ~up /\ up' /\ \A k \in Kinds : Opens(k)
    \/ ~up /\ ~up' /\ \A k \in Kinds : Fails(k)

LEMMA AppendByKind ==
    ASSUME IInv, NEW c \in Kinds, NEW ts \in Timestamps, AppendRecord(c, ts)
    PROVE  ByKind
<1> DEFINE r == NextRecord(ts)
<1>1. r \in Record /\ up /\ up' = up
    BY DEF IInv, TypeOK, NextRecord, Timestamps, Record, AppendRecord
<1>2. Refused(c, r) \/ Taken(c, r)
    BY DEF AppendRecord
<1> HIDE DEF r
<1>3. active \in [Kinds -> Segment] /\ disk \in [Kinds -> Disk]
    BY DEF IInv, TypeOK
<1>4. Serves(c)
    <2>1. CASE Refused(c, r)
        BY <1>1, <1>3, <2>1 DEF Refused, Serves, Becomes
    <2>2. CASE Taken(c, r)
        <3>1. PICK q \in RotatedFor(active[c], disk[c], r) :
                  /\ q.ok
                  /\ \E f \in AutoFlushed(Accepting(q.seg, r), q.disk, q.saved) :
                        /\ active' = [active EXCEPT ![c] = f[1].seg]
                        /\ disk' = [disk EXCEPT ![c] = f[1].disk]
            BY <2>2 DEF Taken
        <3>2. \E f \in AutoFlushed(Accepting(q.seg, r), q.disk, q.saved) :
                  Becomes(c, f[1].seg, f[1].disk)
            BY <1>3, <3>1 DEF Becomes
        <3> QED
            BY <1>1, <3>1, <3>2 DEF Serves
    <2> QED
        BY <1>2, <2>1, <2>2
<1>5. ASSUME NEW k \in Kinds, k # c PROVE Serves(k)
    BY <1>2, <1>3, <1>5 DEF Refused, Taken, Serves, Becomes
<1> QED
    BY <1>1, <1>4, <1>5 DEF ByKind

LEMMA FlushByKind ==
    ASSUME IInv, Flush \/ Rotate
    PROVE  ByKind
<1>1. CASE Flush
    <2>1. up /\ up' = up /\ \A k \in Kinds : \E r \in FlushLocked(active[k], disk[k]) :
              Becomes(k, r.seg, r.disk)
        BY <1>1 DEF Flush, ForEachKind, Becomes
    <2> QED
        BY <2>1 DEF ByKind, Serves
<1>2. CASE Rotate
    <2>1. up /\ up' = up /\ \A k \in Kinds : \E r \in RotateLocked(active[k], disk[k]) :
              Becomes(k, r.seg, r.disk)
        BY <1>2 DEF Rotate, ForEachKind, Becomes
    <2> QED
        BY <2>1 DEF ByKind, Serves
<1> QED
    BY <1>1, <1>2

LEMMA RemovalByKind ==
    ASSUME IInv, EnforceRetention \/ Remove
    PROVE  ByKind
<1>1. PICK xs \in SUBSET ListClosed : \E stuck \in Stuck(xs), left \in SidecarStuck(xs) :
          RemoveEach(xs, stuck, left)
    <2>1. CASE EnforceRetention
        BY <2>1 DEF EnforceRetention
    <2>2. CASE Remove
        <3>1. PICK x \in ListClosed :
                  \E stuck \in Stuck({x}), left \in SidecarStuck({x}) : RemoveEach({x}, stuck, left)
            BY <2>2 DEF Remove
        <3>2. {x} \in SUBSET ListClosed
            OBVIOUS
        <3> QED
            BY <3>1, <3>2
    <2> QED
        BY <2>1, <2>2
<1>2. PICK stuck \in Stuck(xs), left \in SidecarStuck(xs) : RemoveEach(xs, stuck, left)
    BY <1>1
<1>3. /\ stuck \subseteq xs /\ left \subseteq xs
      /\ left # {} => "removeMeta" \in Faults
    BY DEF Stuck, SidecarStuck
<1> DEFINE a == xs \ (stuck \cup left)
           b == stuck \ left
           c == left \ stuck
<1>4. /\ a \in SUBSET ListClosed /\ b \in SUBSET ListClosed /\ c \in SUBSET ListClosed
      /\ c # {} => "removeMeta" \in Faults
    BY <1>3
<1>5. disk' = [k \in Kinds |-> AfterRemoval(k, a, b, c)]
    BY <1>2 DEF RemoveEach, RemoveSegments
<1>6. up /\ up' = up /\ active' = active
    BY DEF EnforceRetention, Remove
<1> HIDE DEF a, b, c
<1>7. ASSUME NEW k \in Kinds PROVE Serves(k)
    <2>1. Becomes(k, active[k], AfterRemoval(k, a, b, c))
        BY <1>5, <1>6 DEF Becomes
    <2> QED
        BY <1>4, <2>1 DEF Serves
<1> QED
    BY <1>6, <1>7 DEF ByKind

LEMMA CrashByKind ==
    ASSUME IInv, CrashInFlush \/ CrashInRotate \/ Crash
    PROVE  ByKind
<1>1. ASSUME NEW done, NEW interrupted, DiesWhile(done, interrupted),
             \A k \in Kinds :
                 /\ done[k] \subseteq FlushLocked(active[k], disk[k]) \cup RotateLocked(active[k], disk[k])
                 /\ interrupted[k] \subseteq
                        CrashedWrites(active[k].buf, disk[k]) \cup CrashedRotate(active[k], disk[k])
      PROVE  ByKind
    <2>1. /\ up /\ ~up' /\ "crash" \in Faults
          /\ \A k \in Kinds : active'[k] = NoSegment
          /\ \A k \in Kinds : \/ disk'[k] = disk[k] \/ disk'[k] \in interrupted[k]
                              \/ \E r \in done[k] : disk'[k] = r.disk
        BY <1>1 DEF DiesWhile, Dies
    <2>2. ASSUME NEW k \in Kinds PROVE Abandons(k)
        BY <1>1, <2>1 DEF Abandons, Becomes
    <2> QED
        BY <2>1, <2>2 DEF ByKind
<1>2. CASE CrashInFlush
    <2> DEFINE done == [k \in Kinds |-> FlushLocked(active[k], disk[k])]
               interrupted == [k \in Kinds |-> CrashedWrites(active[k].buf, disk[k])]
    <2>1. DiesWhile(done, interrupted)
        BY <1>2 DEF CrashInFlush
    <2>2. \A k \in Kinds : /\ done[k] = FlushLocked(active[k], disk[k])
                           /\ interrupted[k] = CrashedWrites(active[k].buf, disk[k])
        OBVIOUS
    <2> HIDE DEF done, interrupted
    <2> QED
        BY <1>1, <2>1, <2>2
<1>3. CASE CrashInRotate
    <2> DEFINE done == [k \in Kinds |-> RotateLocked(active[k], disk[k])]
               interrupted == [k \in Kinds |-> CrashedRotate(active[k], disk[k])]
    <2>1. DiesWhile(done, interrupted)
        BY <1>3 DEF CrashInRotate
    <2>2. \A k \in Kinds : /\ done[k] = RotateLocked(active[k], disk[k])
                           /\ interrupted[k] = CrashedRotate(active[k], disk[k])
        OBVIOUS
    <2> HIDE DEF done, interrupted
    <2> QED
        BY <1>1, <2>1, <2>2
<1>4. CASE Crash
    BY <1>4 DEF Crash, Dies, ByKind, Abandons, Becomes
<1> QED
    BY <1>2, <1>3, <1>4

LEMMA CrashInAppendByKind ==
    ASSUME IInv, NEW c \in Kinds, NEW ts \in Timestamps, CrashInAppend(c, ts)
    PROVE  ByKind
<1> DEFINE r == NextRecord(ts)
           rotated == {q \in RotatedFor(active[c], disk[c], r) : q.ok}
           flushing(q) == IF Len(Accepting(q.seg, r).buf) < AutoFlush
                            THEN {} ELSE CrashedWrites(Accepting(q.seg, r).buf, q.disk)
           rotating == IF NeedsRotation(active[c], r)
                         THEN CrashedRotate(active[c], disk[c]) ELSE {}
<1>1. PICK d \in rotating \cup UNION {flushing(q) : q \in rotated} :
          disk' = [disk EXCEPT ![c] = d]
    BY DEF CrashInAppend
<1>2. r \in Record /\ up /\ ~up' /\ disk \in [Kinds -> Disk] /\ "crash" \in Faults
      /\ active' = [k \in Kinds |-> NoSegment]
    BY DEF IInv, TypeOK, NextRecord, Timestamps, Record, CrashInAppend, Dies
<1>3. \/ d \in CrashedRotate(active[c], disk[c])
      \/ \E q \in RotatedFor(active[c], disk[c], r) :
             q.ok /\ d \in CrashedWrites(Accepting(q.seg, r).buf, q.disk)
    OBVIOUS
<1> HIDE DEF r, rotated, flushing, rotating
<1>4. Becomes(c, NoSegment, d)
    BY <1>1, <1>2 DEF Becomes
<1>5. Abandons(c)
    BY <1>2, <1>3, <1>4 DEF Abandons
<1>6. ASSUME NEW k \in Kinds, k # c PROVE Abandons(k)
    BY <1>1, <1>2, <1>6 DEF Abandons, Becomes
<1> QED
    BY <1>2, <1>5, <1>6 DEF ByKind

LEMMA CrashInRemovalByKind ==
    ASSUME IInv, CrashInRetention \/ CrashInRemove
    PROVE  ByKind
<1>1. \E gone, stuck, torn \in SUBSET ListClosed : RemoveSegments(gone, stuck, torn)
    <2>1. CASE CrashInRetention
        <3>1. PICK xs \in SUBSET ListClosed :
                  \E stuck \in Stuck(xs), left \in SidecarStuck(xs), x \in xs :
                      LET before == {y \in xs : Before(y, x)}
                      IN  RemoveSegments(before \ (stuck \cup left),
                                         (before \cap stuck) \ left,
                                         {x} \cup ((before \cap left) \ stuck))
            BY <2>1 DEF CrashInRetention
        <3>2. PICK stuck \in Stuck(xs), left \in SidecarStuck(xs), x \in xs :
                  RemoveSegments({y \in xs : Before(y, x)} \ (stuck \cup left),
                                 ({y \in xs : Before(y, x)} \cap stuck) \ left,
                                 {x} \cup (({y \in xs : Before(y, x)} \cap left) \ stuck))
            BY <3>1
        <3>3. /\ {y \in xs : Before(y, x)} \ (stuck \cup left) \in SUBSET ListClosed
              /\ ({y \in xs : Before(y, x)} \cap stuck) \ left \in SUBSET ListClosed
              /\ {x} \cup (({y \in xs : Before(y, x)} \cap left) \ stuck) \in SUBSET ListClosed
            OBVIOUS
        <3> QED
            BY <3>2, <3>3
    <2>2. CASE CrashInRemove
        <3>1. PICK x \in ListClosed : RemoveSegments({}, {}, {x})
            BY <2>2 DEF CrashInRemove
        <3>2. {} \in SUBSET ListClosed /\ {x} \in SUBSET ListClosed
            OBVIOUS
        <3> QED
            BY <3>1, <3>2
    <2> QED
        BY <2>1, <2>2
<1>2. up /\ ~up' /\ "crashRemove" \in Faults /\ active' = [k \in Kinds |-> NoSegment]
    BY DEF CrashInRetention, CrashInRemove, Dies
<1>3. ASSUME NEW k \in Kinds PROVE Abandons(k)
    BY <1>1, <1>2 DEF RemoveSegments, Abandons, Becomes
<1> QED
    BY <1>2, <1>3 DEF ByKind

LEMMA OpenByKind ==
    ASSUME IInv, Open \/ \E c \in Kinds : OpenFails(c)
    PROVE  ByKind
<1>1. CASE Open
    BY <1>1 DEF Open, ByKind, Opens
<1>2. CASE \E c \in Kinds : OpenFails(c)
    <2>1. PICK c \in Kinds : OpenFails(c)
        BY <1>2
    <2>2. ~up /\ ~up' /\ active' = active
        BY <2>1 DEF OpenFails
    <2>3. ASSUME NEW k \in Kinds PROVE Fails(k)
        BY <2>1, <2>2 DEF OpenFails, Fails
    <2> QED
        BY <2>2, <2>3 DEF ByKind
<1> QED
    BY <1>1, <1>2

\* The frame of every step.
LEMMA NextByKind ==
    ASSUME IInv, [Next]_vars
    PROVE  ByKind
<1>1. CASE UNCHANGED <<up, active, disk>>
    BY <1>1 DEF ByKind, Serves, Fails, Becomes, IInv, TypeOK
<1>2. CASE Operation
    BY <1>2, AppendByKind, FlushByKind, RemovalByKind, OpenByKind DEF Operation
<1>3. CASE Failure
    BY <1>3, OpenByKind, CrashByKind, CrashInAppendByKind, CrashInRemovalByKind DEF Failure
<1> QED
    BY <1>1, <1>2, <1>3 DEF Next, NewDay, vars

-----------------------------------------------------------------------------
(* Counting the records of a file.                                         *)

LEMMA FileFacts ==
    ASSUME NEW members \in Seq(Member)
    PROVE  /\ Reached(members) \subseteq DOMAIN members
           /\ \A i \in DOMAIN members :
                 /\ members[i].recs \in Seq(Record)
                 /\ DOMAIN members[i].recs = 1 .. Len(members[i].recs)
                 /\ Len(members[i].recs) \in Nat
<1>1. ASSUME NEW i \in DOMAIN members PROVE members[i].recs \in Seq(Record)
    <2>1. members[i] \in Member
        BY ElementOfSeq
    <2> QED
        BY <2>1 DEF Member
<1> QED
    BY <1>1 DEF Reached

\* The places of one member of n records.
LEMMA Column ==
    ASSUME NEW i, NEW n \in Nat
    PROVE  IsFiniteSet({i} \X (1 .. n)) /\ Cardinality({i} \X (1 .. n)) = n
<1> DEFINE rows == 1 .. n
<1>1. IsFiniteSet(rows) /\ Cardinality(rows) = (IF 1 > n THEN 0 ELSE n - 1 + 1)
    BY FS_Interval, 1 \in Int, n \in Int
<1>2. Cardinality(rows) = n
    BY <1>1
<1> HIDE DEF rows
<1>3. IsFiniteSet({i}) /\ Cardinality({i}) = 1
    BY FS_Singleton
<1>4. IsFiniteSet({i} \X rows) /\ Cardinality({i} \X rows) = Cardinality({i}) * Cardinality(rows)
    BY <1>1, <1>3, FS_Product
<1> QED
    BY <1>2, <1>3, <1>4 DEF rows

\* A member appended to a whole file is counted in full.
LEMMA AppendCounts ==
    ASSUME NEW members \in Seq(Member), AllWhole(members), NEW recs \in Seq(Record)
    PROVE  LET more == Append(members, Whole(recs))
           IN  ReadCount(more) = ReadCount(members) + Len(recs)
<1> DEFINE m == Whole(recs)
           more == Append(members, m)
           last == Len(members) + 1
           tail == {last} \X DOMAIN recs
<1>1. m.whole = TRUE /\ m.recs = recs
    BY DEF Whole
<1>2. /\ DOMAIN members = 1 .. Len(members) /\ Len(members) \in Nat
      /\ DOMAIN more = 1 .. last
      /\ \A i \in 1 .. Len(members) : more[i] = members[i]
      /\ more[last] = m
    OBVIOUS
<1> HIDE DEF m
<1>3. Reached(more) = DOMAIN members \cup {last} /\ Reached(members) = DOMAIN members
    BY <1>1, <1>2 DEF Reached, AllWhole
<1>4. Places(more, Reached(more)) =
        (UNION {{i} \X DOMAIN more[i].recs : i \in DOMAIN members})
            \cup ({last} \X DOMAIN more[last].recs)
    BY <1>3 DEF Places
<1>5. (UNION {{i} \X DOMAIN more[i].recs : i \in DOMAIN members}) = Places(members, Reached(members))
    BY <1>2, <1>3 DEF Places
<1>6. Places(more, Reached(more)) = Places(members, Reached(members)) \cup tail
    BY <1>1, <1>2, <1>4, <1>5
<1>7. Places(members, Reached(members)) \cap tail = {}
    <2>1. \A p \in Places(members, Reached(members)) : p[1] \in DOMAIN members
        BY <1>3 DEF Places
    <2>2. \A p \in tail : p[1] = last
        OBVIOUS
    <2>3. last \notin DOMAIN members
        BY <1>2
    <2> QED
        BY <2>1, <2>2, <2>3
<1>8. IsFiniteSet(Places(members, Reached(members)))
    BY <1>3, PlacesFinite
<1>9. IsFiniteSet(tail) /\ Cardinality(tail) = Len(recs)
    <2>1. DOMAIN recs = 1 .. Len(recs) /\ Len(recs) \in Nat
        OBVIOUS
    <2>2. tail = {last} \X (1 .. Len(recs))
        BY <2>1
    <2> QED
        BY <2>1, <2>2, Column
<1> HIDE DEF tail, more
<1>10. Cardinality(Places(members, Reached(members)) \cup tail) =
         Cardinality(Places(members, Reached(members))) + Cardinality(tail)
           - Cardinality(Places(members, Reached(members)) \cap tail)
    BY <1>8, <1>9, FS_Union
<1>11. Cardinality(Places(members, Reached(members)) \cap tail) = 0
    BY <1>7, FS_EmptySet
<1>12. Cardinality(Places(members, Reached(members))) \in Nat
    BY <1>8, FS_CardinalityType
<1>13. ReadCount(more) = ReadCount(members) + Len(recs)
    BY <1>6, <1>9, <1>10, <1>11, <1>12 DEF ReadCount
<1> QED
    BY <1>13 DEF more, m

\* Nothing counted, nothing read, and the reverse.
LEMMA NoneCounted ==
    ASSUME NEW members \in Seq(Member)
    PROVE  ReadCount(members) = 0 <=> ReadSegment(members) = {}
<1> DEFINE places == Places(members, Reached(members))
<1>1. IsFiniteSet(places)
    BY FileFacts, PlacesFinite
<1>2. ReadCount(members) = 0 <=> places = {}
    BY <1>1, FS_EmptySet DEF ReadCount
<1>3. ASSUME NEW r \in ReadSegment(members) PROVE places # {}
    <2>1. PICK i \in Reached(members) : r \in Range(members[i].recs)
        BY <1>3 DEF ReadSegment
    <2>2. PICK n \in DOMAIN members[i].recs : r = members[i].recs[n]
        BY <2>1 DEF Range
    <2>3. <<i, n>> \in {i} \X DOMAIN members[i].recs
        BY <2>2
    <2>4. <<i, n>> \in places
        BY <2>3 DEF Places
    <2> QED
        BY <2>4
<1>4. ASSUME NEW p \in places PROVE ReadSegment(members) # {}
    <2>1. PICK i \in Reached(members) : p \in {i} \X DOMAIN members[i].recs
        BY <1>4 DEF Places
    <2>2. members[i].recs[p[2]] \in Range(members[i].recs)
        BY <2>1 DEF Range
    <2>3. members[i].recs[p[2]] \in ReadSegment(members)
        BY <2>2 DEF ReadSegment
    <2> QED
        BY <2>3
<1> HIDE DEF places
<1> QED
    BY <1>2, <1>3, <1>4

LEMMA EmptyCount == ReadCount(<<>>) = 0
<1>1. <<>> \in Seq(Member)
    OBVIOUS
<1> QED
    BY <1>1, NoneCounted, EmptyFile

-----------------------------------------------------------------------------
(* What a sidecar says.                                                    *)

\* No sidecar without a data file can come to label a file that got none: such
\* sidecars are left by a removal that is interrupted, such files by a closing
\* that is.
Unmixed ==
    Faults \cap {"removeMeta", "crashRemove"} = {} \/ Faults \cap {"meta", "crash"} = {}

\* No write is reported as failed that reached the file, and no file is left
\* behind by its segment.
Precise == Faults \cap {"sync", "rename"} = {}

\* The record counts and times in info are those of a file.
InfoRight(info, members) ==
    /\ info.records <= ReadCount(members)
    /\ Precise => /\ info.records = ReadCount(members)
                  /\ \A r \in ReadSegment(members) : info.minTS <= r.ts /\ r.ts <= info.maxTS

Labelled(s) ==
    s.meta.present => InfoRight(s.meta, s.members) /\ s.meta.size = Bytes(s.members)

Labels(d) ==
    /\ \A s \in d.closed : Labelled(s)
    /\ Faults \cap {"removeMeta", "crashRemove"} = {} => d.stray = {}

\* The counters of an open segment are ahead of the file by what is buffered.
Counted(seg, d) ==
    /\ ~seg.open => seg = NoSegment
    /\ seg.records <= ReadCount(d.file.members) + Len(seg.buf)
    /\ Precise =>
          /\ seg.records = ReadCount(d.file.members) + Len(seg.buf)
          /\ seg.minTS = 0 => Held(seg, d) = {}
          /\ \A r \in Held(seg, d) : seg.minTS <= r.ts /\ r.ts <= seg.maxTS

CountInv == \A k \in Kinds : Labels(disk[k]) /\ (up => Counted(active[k], disk[k]))

LEMMA ClosedFilesLabelled ==
    ASSUME NEW d \in Disk, Labels(d), NEW info, InfoRight(info, d.file.members),
           NEW e \in ClosedFiles(d, info)
    PROVE  Labels(e)
<1> DEFINE date == SegmentDate(info)
           meta == [present |-> TRUE, records |-> info.records, minTS |-> info.minTS,
                    maxTS |-> info.maxTS, size |-> Bytes(d.file.members)]
<1>1. PICK n \in FreeSeqs(d, date) : e = Moved(d, date, n, meta)
    BY DEF ClosedFiles
<1> DEFINE s == [date |-> date, seq |-> n, members |-> d.file.members, meta |-> meta]
<1>2. e.closed \subseteq d.closed \cup {s} /\ e.stray \subseteq d.stray
    BY <1>1 DEF Moved
<1>3. /\ s.members = d.file.members /\ s.meta = meta
      /\ meta.records = info.records /\ meta.minTS = info.minTS /\ meta.maxTS = info.maxTS
      /\ meta.size = Bytes(d.file.members)
    OBVIOUS
<1> HIDE DEF s, meta
<1>4. Labelled(s)
    BY <1>3 DEF Labelled, InfoRight
<1> QED
    BY <1>2, <1>4 DEF Labels

LEMMA UnlabelledFilesLabelled ==
    ASSUME Unmixed, Faults \cap {"meta", "crash"} # {}, NEW d \in Disk, Labels(d),
           NEW info, NEW e \in UnlabelledFiles(d, info)
    PROVE  Labels(e)
<1> DEFINE date == SegmentDate(info)
<1>1. d.stray = {}
    BY DEF Unmixed, Labels
<1>2. PICK n \in FreeSeqs(d, date) : e = Moved(d, date, n, NoSidecar)
    BY <1>1 DEF UnlabelledFiles
<1> DEFINE s == [date |-> date, seq |-> n, members |-> d.file.members, meta |-> NoSidecar]
<1>3. e.closed \subseteq d.closed \cup {s} /\ e.stray \subseteq d.stray
    BY <1>2 DEF Moved
<1>4. s.meta.present = FALSE
    BY DEF NoSidecar
<1> HIDE DEF s
<1>5. Labelled(s)
    BY <1>4 DEF Labelled
<1> QED
    BY <1>3, <1>5 DEF Labels

LEMMA WrittenLabels ==
    ASSUME NEW d \in Disk, Labels(d), NEW m
    PROVE  Labels(Written(d, m)) /\ Labels(Opened(d)) /\ Labels(WithoutFile(d))
<1>1. /\ Written(d, m).closed = d.closed /\ Written(d, m).stray = d.stray
      /\ Opened(d).closed = d.closed /\ Opened(d).stray = d.stray
      /\ WithoutFile(d).closed = d.closed /\ WithoutFile(d).stray = d.stray
    BY DEF Written, Opened, WithoutFile, Disk
<1> QED
    BY <1>1 DEF Labels

LEMMA CrashedWritesLabels ==
    ASSUME NEW buf, NEW d \in Disk, Labels(d), NEW e \in CrashedWrites(buf, d)
    PROVE  Labels(e)
<1>1. e = d \/ e = Opened(d) \/ \E m : e = Written(d, m)
    BY DEF CrashedWrites, TornWrites
<1> QED
    BY <1>1, WrittenLabels

\* The empty segment beside an empty file.
LEMMA NothingCounted ==
    ASSUME NEW d, d.file.members \in Seq(Member),
           \/ d.file.members = <<>>
           \/ ~Precise
           \/ ReadCount(d.file.members) = 0
    PROVE  Counted(NoSegment, d)
<1>1. /\ NoSegment.records = 0 /\ NoSegment.buf = <<>> /\ NoSegment.minTS = 0
      /\ Len(<<>>) = 0
    BY DEF NoSegment
<1>3. ReadCount(d.file.members) \in Nat
    BY CountTypes
<1>4. CASE ~Precise
    BY <1>1, <1>3, <1>4 DEF Counted
<1>5. CASE ReadCount(d.file.members) = 0
    <2>1. ReadSegment(d.file.members) = {}
        BY <1>5, NoneCounted
    <2>2. Held(NoSegment, d) = {}
        BY <1>1, <2>1, EmptyFile DEF Held
    <2> QED
        BY <1>1, <1>5, <2>2 DEF Counted
<1> QED
    BY <1>4, <1>5, EmptyCount

LEMMA EmptiedFields ==
    ASSUME NEW seg \in Segment
    PROVE  /\ Emptied(seg).open = seg.open /\ Emptied(seg).records = seg.records
           /\ Emptied(seg).minTS = seg.minTS /\ Emptied(seg).maxTS = seg.maxTS
           /\ Emptied(seg).buf = <<>>
BY DEF Emptied, Segment

\* A flush moves records from the buffer to the file, and a failed one may
\* leave them in both.
LEMMA FlushCounts ==
    ASSUME Smooth, NEW seg, Sound(seg), NEW d \in Disk, Tidy(d), Counted(seg, d), Labels(d),
           NEW r \in FlushLocked(seg, d)
    PROVE  Counted(r.seg, r.disk) /\ Labels(r.disk)
<1>1. /\ seg \in Segment /\ seg.buf \in Seq(Record) /\ Len(seg.buf) \in Nat /\ seg.records \in Nat
      /\ d.file.members \in Seq(Member) /\ Clean(d)
    BY DEF Sound, Segment, Disk, File, Tidy
<1>2. ReadCount(d.file.members) \in Nat
    BY <1>1, CountTypes
<1> DEFINE e == Written(d, Whole(seg.buf))
           s == Emptied(seg)
<1>3. /\ ReadCount(e.file.members) = ReadCount(d.file.members) + Len(seg.buf)
      /\ ReadSegment(e.file.members) = ReadSegment(d.file.members) \cup Range(seg.buf)
      /\ Labels(e)
    <2>1. e.file.members = Append(d.file.members, Whole(seg.buf))
        BY <1>1, WholeType, WrittenKeeps
    <2>2. AllWhole(d.file.members)
        BY <1>1 DEF Clean
    <2>3. ReadCount(Append(d.file.members, Whole(seg.buf))) = ReadCount(d.file.members) + Len(seg.buf)
        BY <1>1, <2>2, AppendCounts
    <2> QED
        BY <1>1, <2>1, <2>3, WholeWritten, WrittenLabels
<1>4. /\ s.open = seg.open /\ s.records = seg.records /\ s.minTS = seg.minTS
      /\ s.maxTS = seg.maxTS /\ s.buf = <<>>
    BY <1>1, EmptiedFields
<1> HIDE DEF e, s
<1>5. CASE r = Result(seg, d, TRUE, {})
    BY <1>5 DEF Result
<1>6. CASE seg.buf # <<>> /\ r = Result(s, e, TRUE, Range(seg.buf))
    <2>1. r.seg = s /\ r.disk = e
        BY <1>6 DEF Result
    <2>2. seg.open
        BY <1>6 DEF Counted, NoSegment
    <2>3. Held(s, e) = Held(seg, d)
        BY <1>3, <1>4, EmptyFile DEF Held
    <2>4. Len(s.buf) = 0
        BY <1>4
    <2>5. Counted(s, e)
        BY <1>1, <1>2, <1>3, <1>4, <2>2, <2>3, <2>4 DEF Counted
    <2> QED
        BY <1>3, <2>1, <2>5
<1>7. CASE \E x \in FailedWrites(seg.buf, d) : r = Result(seg, x, FALSE, {})
    <2>1. PICK x \in FailedWrites(seg.buf, d) : r = Result(seg, x, FALSE, {})
        BY <1>7
    <2>2. x = d \/ (x = e /\ ~Precise)
        BY DEF FailedWrites, Smooth, Precise, e
    <2>3. r.seg = seg /\ r.disk = x
        BY <2>1 DEF Result
    <2>4. CASE x = d
        BY <2>3, <2>4
    <2>5. CASE x = e /\ ~Precise
        <3>1. Counted(seg, e)
            BY <1>1, <1>2, <1>3, <2>5 DEF Counted
        <3> QED
            BY <1>3, <2>3, <2>5, <3>1
    <2> QED
        BY <2>2, <2>4, <2>5
<1> QED
    BY <1>5, <1>6, <1>7 DEF FlushLocked, e, s

\* A file is closed under the counts of its segment.
LEMMA CloseCounts ==
    ASSUME Unmixed, NEW seg, Sound(seg), seg.buf = <<>>,
           NEW d \in Disk, Tidy(d), Counted(seg, d), Labels(d), NEW r \in CloseSegment(seg, d)
    PROVE  r.seg = NoSegment /\ Counted(r.seg, r.disk) /\ Labels(r.disk)
<1>1. /\ d.file.members \in Seq(Member) /\ <<>> \in Seq(Member) /\ Len(<<>>) = 0
      /\ NoFile.members = <<>>
      /\ seg.records \in Nat
    BY DEF Disk, File, NoFile, Sound, Segment
<1>2. ReadCount(d.file.members) \in Nat
    BY <1>1, CountTypes
<1>3. InfoRight(seg, d.file.members)
    BY <1>1, <1>2, EmptyFile DEF Counted, InfoRight, Held
<1>4. r.seg = NoSegment
    BY DEF CloseSegment, CloseFile, Result
<1>5. CASE r.disk = d /\ seg.records = 0
    BY <1>1, <1>2, <1>4, <1>5, NothingCounted DEF Counted
<1>6. CASE r.disk = WithoutFile(d)
    <2>1. WithoutFile(d).file = NoFile
        BY DEF WithoutFile, Disk
    <2> QED
        BY <1>1, <1>4, <1>6, <2>1, WithoutFileType, NothingCounted, WrittenLabels
<1>7. CASE r.disk = d /\ (~d.file.present \/ ~Precise)
    BY <1>1, <1>4, <1>7, NothingCounted DEF Tidy, Intact, Sealed
<1>8. CASE r.disk \in ClosedFiles(d, seg)
    <2>1. r.disk.file.members = <<>>
        BY <1>1, <1>8, FilesMoved
    <2>2. Labels(r.disk)
        BY <1>3, <1>8, ClosedFilesLabelled
    <2> QED
        BY <1>1, <1>4, <2>1, <2>2, NothingCounted
<1>9. CASE r.disk \in UnlabelledFiles(d, seg) /\ "meta" \in Faults
    <2>1. r.disk.file.members = <<>>
        BY <1>1, <1>9, FilesMoved
    <2>2. Labels(r.disk)
        BY <1>9, UnlabelledFilesLabelled
    <2> QED
        BY <1>1, <1>4, <2>1, <2>2, NothingCounted
<1> QED
    BY <1>5, <1>6, <1>7, <1>8, <1>9 DEF CloseSegment, CloseFile, Result, Precise

LEMMA RotateCounts ==
    ASSUME Smooth, Unmixed, NEW seg, Sound(seg), NEW d \in Disk, Tidy(d), Counted(seg, d),
           Labels(d), NEW r \in RotateLocked(seg, d)
    PROVE  Counted(r.seg, r.disk) /\ Labels(r.disk)
<1>1. CASE ~seg.open
    BY <1>1 DEF RotateLocked, Result
<1>2. CASE seg.open
    <2>1. PICK f \in FlushLocked(seg, d) :
              \/ r = f
              \/ /\ f.ok
                 /\ \E c \in CloseSegment(f.seg, f.disk) :
                        r = Result(c.seg, c.disk, c.ok, f.saved)
        BY <1>2 DEF RotateLocked
    <2>2. /\ Counted(f.seg, f.disk) /\ Labels(f.disk) /\ Tidy(f.disk)
          /\ Sound(f.seg) /\ f.disk \in Disk /\ (f.ok => f.seg.buf = <<>>)
        BY FlushCounts, FlushTidy, FlushLockedOK DEF ResultOK, Sound, Segment
    <2>3. ASSUME f.ok, NEW c \in CloseSegment(f.seg, f.disk)
          PROVE  Counted(c.seg, c.disk) /\ Labels(c.disk)
        BY <2>2, <2>3, CloseCounts
    <2> QED
        BY <2>1, <2>2, <2>3 DEF Result
<1> QED
    BY <1>1, <1>2

\* What Append finds after the rotation, if one was due.
LEMMA RotatedForCounts ==
    ASSUME Smooth, Unmixed, NEW seg, Sound(seg), NEW d \in Disk, Tidy(d), Counted(seg, d),
           Labels(d), NEW r \in Record, NEW q \in RotatedFor(seg, d, r), today \in Nat
    PROVE  /\ Counted(q.seg, q.disk) /\ Labels(q.disk) /\ Tidy(q.disk)
           /\ Sound(q.seg) /\ q.disk \in Disk
<1>1. Counted(q.seg, q.disk) /\ Labels(q.disk)
    BY RotateCounts DEF RotatedFor, Result
<1>2. Sound(q.seg) /\ q.disk \in Disk /\ Tidy(q.disk)
    BY RotatedForOK, RotatedForTidy DEF ResultOK
<1> QED
    BY <1>1, <1>2

\* The record that is buffered is counted, and its time is in the range.
LEMMA AcceptingCounts ==
    ASSUME NEW seg, Sound(seg), NEW d \in Disk, Counted(seg, d), NEW r \in Record
    PROVE  Counted(Accepting(seg, r), d)
<1> DEFINE s == IF seg.open THEN seg ELSE NewSegment(r.ts)
           a == Buffered(s, r)
<1>1. r.ts \in Nat /\ r.ts # 0
    BY DEF Record
<1>2. /\ Sound(s) /\ s.buf = seg.buf /\ s.records = seg.records /\ s.open
      /\ s.minTS = seg.minTS /\ s.maxTS = seg.maxTS
    <2>1. CASE seg.open
        BY <2>1
    <2>2. CASE ~seg.open
        <3>1. s = NewSegment(r.ts) /\ seg = NoSegment
            BY <2>2 DEF Counted
        <3>2. /\ NewSegment(r.ts).records = NoSegment.records /\ NewSegment(r.ts).open
              /\ NewSegment(r.ts).minTS = NoSegment.minTS
              /\ NewSegment(r.ts).maxTS = NoSegment.maxTS
              /\ NewSegment(r.ts).buf = NoSegment.buf
            BY DEF NewSegment, NoSegment
        <3> QED
            BY <1>1, <3>1, <3>2, NewSegmentSound
    <2> QED
        BY <2>1, <2>2
<1> HIDE DEF s
<1>3. /\ s \in Segment /\ s.buf \in Seq(Record) /\ Len(s.buf) \in Nat /\ s.records \in Nat
      /\ s.minTS \in Nat /\ s.maxTS \in Nat
    BY <1>2 DEF Sound, Segment
<1>4. a.buf = Append(s.buf, r) /\ a.records = s.records + 1
    BY <1>2, BufferedSound
<1>5. /\ a.open = s.open
      /\ a.minTS = IF s.minTS = 0 \/ r.ts < s.minTS THEN r.ts ELSE s.minTS
      /\ a.maxTS = IF r.ts > s.maxTS THEN r.ts ELSE s.maxTS
    BY <1>3 DEF Buffered, Segment
<1> HIDE DEF a
<1>6. Len(a.buf) = Len(s.buf) + 1 /\ Range(a.buf) = Range(s.buf) \cup {r}
    <2>1. /\ Len(a.buf) = Len(s.buf) + 1
          /\ DOMAIN a.buf = 1 .. (Len(s.buf) + 1)
          /\ DOMAIN s.buf = 1 .. Len(s.buf)
          /\ \A i \in 1 .. Len(s.buf) : a.buf[i] = s.buf[i]
          /\ a.buf[Len(s.buf) + 1] = r
        BY <1>3, <1>4
    <2>2. Range(a.buf) \subseteq Range(s.buf) \cup {r}
        <3>1. ASSUME NEW i \in 1 .. (Len(s.buf) + 1)
              PROVE  a.buf[i] \in Range(s.buf) \cup {r}
            <4>1. i \in 1 .. Len(s.buf) \/ i = Len(s.buf) + 1
                BY <1>3
            <4> QED
                BY <2>1, <4>1 DEF Range
        <3> QED
            BY <2>1, <3>1 DEF Range
    <2>3. Range(s.buf) \subseteq Range(a.buf) /\ r \in Range(a.buf)
        BY <1>3, <2>1 DEF Range
    <2> QED
        BY <2>1, <2>2, <2>3
<1>7. Held(a, d) = Held(seg, d) \cup {r}
    BY <1>2, <1>6 DEF Held
<1>8. d.file.members \in Seq(Member) /\ ReadCount(d.file.members) \in Nat
    BY CountTypes DEF Disk, File
<1>9. a.open /\ a.records <= ReadCount(d.file.members) + Len(a.buf)
    BY <1>2, <1>3, <1>4, <1>5, <1>6, <1>8 DEF Counted
<1>10. ASSUME Precise
       PROVE  /\ a.records = ReadCount(d.file.members) + Len(a.buf)
              /\ a.minTS # 0
              /\ \A x \in Held(a, d) : a.minTS <= x.ts /\ x.ts <= a.maxTS
    <2>1. /\ seg.records = ReadCount(d.file.members) + Len(seg.buf)
          /\ seg.minTS = 0 => Held(seg, d) = {}
          /\ \A x \in Held(seg, d) : seg.minTS <= x.ts /\ x.ts <= seg.maxTS
        BY <1>10 DEF Counted
    <2>2. a.records = ReadCount(d.file.members) + Len(a.buf)
        BY <1>2, <1>3, <1>4, <1>6, <1>8, <2>1
    <2>3. a.minTS # 0 /\ a.minTS <= r.ts /\ r.ts <= a.maxTS
        BY <1>1, <1>3, <1>5
    <2>4. Held(seg, d) \subseteq Record
        <3>1. Range(seg.buf) \subseteq Record
            BY <1>2, <1>3, ElementOfSeq DEF Range
        <3> QED
            BY <1>8, <3>1, ReadSegmentType DEF Held
    <2>5. ASSUME NEW x \in Held(seg, d) PROVE a.minTS <= x.ts /\ x.ts <= a.maxTS
        <3>1. s.minTS # 0 /\ s.minTS <= x.ts /\ x.ts <= s.maxTS /\ x.ts \in Nat
            BY <1>2, <2>1, <2>4, <2>5 DEF Record
        <3> QED
            BY <1>1, <1>3, <1>5, <3>1
    <2> QED
        BY <1>7, <2>2, <2>3, <2>5
<1> QED
    BY <1>9, <1>10 DEF Counted, a, s, Accepting

LEMMA DropCounts ==
    ASSUME NEW seg, Sound(seg), NEW d \in Disk, Counted(seg, d)
    PROVE  Counted(DropBatch(seg), d)
<1> DEFINE s == DropBatch(seg)
<1>1. /\ seg \in Segment /\ seg.records \in Nat /\ Len(seg.buf) \in Nat
      /\ Len(seg.buf) <= seg.records
    BY DEF Sound, Segment
<1>2. /\ s.open = seg.open /\ s.buf = <<>> /\ s.records = seg.records - Len(seg.buf)
      /\ s.minTS = seg.minTS /\ s.maxTS = seg.maxTS
    BY <1>1 DEF DropBatch, Segment
<1>3. ReadCount(d.file.members) \in Nat
    BY CountTypes DEF Disk, File
<1>4. ~s.open => s = NoSegment
    <2>1. Len(<<>>) = 0 /\ 0 - 0 = 0
        OBVIOUS
    <2>2. DropBatch(NoSegment) = [NoSegment EXCEPT !.records = 0, !.buf = <<>>]
        BY <2>1 DEF DropBatch, NoSegment
    <2>3. DropBatch(NoSegment) = NoSegment
        BY <2>2 DEF NoSegment
    <2> QED
        BY <1>2, <2>3 DEF Counted
<1> HIDE DEF s
<1>5. Len(s.buf) = 0 /\ Held(s, d) \subseteq Held(seg, d)
    BY <1>2, EmptyFile DEF Held
<1>6. Counted(s, d)
    BY <1>1, <1>2, <1>3, <1>4, <1>5 DEF Counted
<1> QED
    BY <1>6 DEF s

LEMMA AutoFlushCounts ==
    ASSUME Smooth, NEW seg, Sound(seg), NEW d \in Disk, Tidy(d), Counted(seg, d), Labels(d),
           NEW saved, NEW f \in AutoFlushed(seg, d, saved)
    PROVE  Counted(f[1].seg, f[1].disk) /\ Labels(f[1].disk)
<1>1. CASE Len(seg.buf) < AutoFlush
    <2>1. f = <<Result(seg, d, TRUE, saved), 0>>
        BY <1>1 DEF AutoFlushed
    <2> QED
        BY <2>1 DEF Result
<1>2. CASE ~(Len(seg.buf) < AutoFlush)
    <2>1. PICK h \in FlushLocked(seg, d) :
              f = IF h.ok THEN <<Result(h.seg, h.disk, TRUE, saved \cup h.saved), 0>>
                  ELSE <<Result(DropBatch(h.seg), h.disk, FALSE, saved), Len(h.seg.buf)>>
        BY <1>2 DEF AutoFlushed
    <2>2. Counted(h.seg, h.disk) /\ Labels(h.disk) /\ Sound(h.seg) /\ h.disk \in Disk
        BY FlushCounts, FlushLockedOK DEF ResultOK
    <2>3. Counted(DropBatch(h.seg), h.disk)
        BY <2>2, DropCounts
    <2>4. f[1].disk = h.disk /\ f[1].seg \in {h.seg, DropBatch(h.seg)}
        BY <2>1 DEF Result
    <2> QED
        BY <2>2, <2>3, <2>4
<1> QED
    BY <1>1, <1>2

LEMMA CrashedRotateLabels ==
    ASSUME Unmixed, "crash" \in Faults, NEW seg, Sound(seg), NEW d \in Disk, Labels(d),
           NEW e \in CrashedRotate(seg, d)
    PROVE  Labels(e)
<1> DEFINE w == IF seg.buf = <<>> THEN d ELSE Written(d, Whole(seg.buf))
<1>1. w \in Disk /\ Labels(w)
    BY WholeType, WrittenType, WrittenLabels DEF Sound, Segment
<1>2. e = d \/ e \in CrashedWrites(seg.buf, d) \/ e \in UnlabelledFiles(w, seg)
    BY DEF CrashedRotate
<1> HIDE DEF w
<1> QED
    BY <1>1, <1>2, CrashedWritesLabels, UnlabelledFilesLabelled

\* What recovery rebuilds is what the file holds.
LEMMA RecoveredInfoRight ==
    ASSUME NEW members \in Seq(Member), NEW info \in RecoveredInfo(members)
    PROVE  InfoRight(info, members)
<1> DEFINE times == {r.ts : r \in ReadSegment(members)}
           info0(lo, hi) == [records |-> ReadCount(members), minTS |-> lo, maxTS |-> hi]
<1>1. ReadCount(members) \in Nat
    BY CountTypes
<1>2. CASE times = {}
    <2>1. info = info0(0, 0) /\ ReadSegment(members) = {}
        BY <1>2 DEF RecoveredInfo
    <2> QED
        BY <1>1, <2>1 DEF InfoRight
<1>3. CASE times # {}
    <2>1. PICK p \in times \X times :
              info = info0(p[1], p[2]) /\ \A t \in times : p[1] <= t /\ t <= p[2]
        BY <1>3 DEF RecoveredInfo
    <2>2. /\ info.records = ReadCount(members) /\ info.minTS = p[1] /\ info.maxTS = p[2]
          /\ \A r \in ReadSegment(members) : p[1] <= r.ts /\ r.ts <= p[2]
        BY <2>1
    <2> QED
        BY <1>1, <2>2 DEF InfoRight
<1> QED
    BY <1>2, <1>3

LEMMA RecoveredLabels ==
    ASSUME Unmixed, NEW d \in Disk, Labels(d)
    PROVE  /\ \A e \in Recovered(d) : Labels(e) /\ e.file = NoFile
           /\ \A e \in HalfRecovered(d) : Labels(e)
<1>1. d.file.members \in Seq(Member)
    BY DEF Disk, File
<1>2. ASSUME NEW e \in Recovered(d) PROVE Labels(e) /\ e.file = NoFile
    <2>1. PICK info \in RecoveredInfo(d.file.members) : e \in ClosedFiles(d, info)
        BY DEF Recovered
    <2> QED
        BY <1>1, <2>1, RecoveredInfoRight, ClosedFilesLabelled, FilesMoved
<1>3. ASSUME NEW e \in HalfRecovered(d) PROVE Labels(e)
    <2>1. \/ e = d
          \/ {"meta", "crash"} \cap Faults # {} /\ \E info : e \in UnlabelledFiles(d, info)
        BY DEF HalfRecovered
    <2>2. Faults \cap {"meta", "crash"} = {"meta", "crash"} \cap Faults
        OBVIOUS
    <2> QED
        BY <2>1, <2>2, UnlabelledFilesLabelled
<1> QED
    BY <1>2, <1>3

LEMMA RemovalLabels ==
    ASSUME IInv, NEW k \in Kinds, Labels(disk[k]),
           NEW gone \in SUBSET ListClosed, NEW stuck \in SUBSET ListClosed,
           NEW torn \in SUBSET ListClosed,
           torn # {} => Faults \cap {"removeMeta", "crashRemove"} # {}
    PROVE  LET e == AfterRemoval(k, gone, stuck, torn)
           IN  Labels(e) /\ e.file = disk[k].file
<1> DEFINE of(xs) == {x[2] : x \in {y \in xs : y[1] = k}}
           halves == {[s EXCEPT !.meta = NoSidecar] : s \in of(stuck)}
           closed == (disk[k].closed \ (of(gone) \cup of(stuck) \cup of(torn)))
                       \cup halves
           stray == disk[k].stray
                      \cup {[date |-> s.date, seq |-> s.seq, meta |-> s.meta]
                              : s \in of(torn)}
           e == AfterRemoval(k, gone, stuck, torn)
<1>1. disk[k] \in Disk
    BY DEF IInv, TypeOK
<1>2. of(stuck) \subseteq disk[k].closed
    BY DEF ListClosed
<1>3. e = [disk[k] EXCEPT !.closed = closed, !.stray = stray]
    BY DEF AfterRemoval
<1>4. e.file = disk[k].file /\ e.closed = closed /\ e.stray = stray
    <2> HIDE DEF closed, stray
    <2> QED
        BY <1>1, <1>3 DEF Disk
<1>5. ASSUME NEW s \in halves PROVE Labelled(s)
    <2>1. PICK t \in disk[k].closed : s = [t EXCEPT !.meta = NoSidecar]
        BY <1>2
    <2>2. s.meta = NoSidecar
        BY <1>1, <2>1 DEF Disk, ClosedSegment
    <2> QED
        BY <2>2 DEF Labelled, NoSidecar
<1>6. torn = {} => stray = disk[k].stray
    OBVIOUS
<1>7. closed \subseteq disk[k].closed \cup halves
    OBVIOUS
<1> HIDE DEF e, closed, stray, halves
<1>8. Labels(e)
    BY <1>4, <1>5, <1>6, <1>7 DEF Labels
<1> QED
    BY <1>4, <1>8 DEF e

-----------------------------------------------------------------------------
(* The steps.                                                              *)

LEMMA ServesCounts ==
    ASSUME Smooth, Unmixed, IInv, TearInv, CountInv, up, NEW k \in Kinds, Serves(k)
    PROVE  Counted(active'[k], disk'[k]) /\ Labels(disk'[k])
<1> DEFINE seg == active[k]
           d == disk[k]
<1>1. /\ Sound(seg) /\ d \in Disk /\ Tidy(d) /\ today \in Nat
      /\ Counted(seg, d) /\ Labels(d)
    BY TidyStart DEF CountInv
<1>2. CASE Becomes(k, seg, d)
    BY <1>1, <1>2 DEF Becomes
<1>3. ASSUME NEW r \in FlushLocked(seg, d) \cup RotateLocked(seg, d),
             Becomes(k, r.seg, r.disk)
      PROVE  Counted(active'[k], disk'[k]) /\ Labels(disk'[k])
    BY <1>1, <1>3, FlushCounts, RotateCounts DEF Becomes
<1>4. ASSUME NEW r \in Record, NEW q \in RotatedFor(seg, d, r),
             \/ Becomes(k, q.seg, q.disk)
             \/ \E f \in AutoFlushed(Accepting(q.seg, r), q.disk, q.saved) :
                    Becomes(k, f[1].seg, f[1].disk)
      PROVE  Counted(active'[k], disk'[k]) /\ Labels(disk'[k])
    <2>1. /\ Counted(q.seg, q.disk) /\ Labels(q.disk) /\ Tidy(q.disk)
          /\ Sound(q.seg) /\ q.disk \in Disk
        BY <1>1, <1>4, RotatedForCounts
    <2>2. Counted(Accepting(q.seg, r), q.disk) /\ Sound(Accepting(q.seg, r))
        BY <2>1, AcceptingCounts, AcceptingSound
    <2>3. ASSUME NEW f \in AutoFlushed(Accepting(q.seg, r), q.disk, q.saved)
          PROVE  Counted(f[1].seg, f[1].disk) /\ Labels(f[1].disk)
        BY <2>1, <2>2, AutoFlushCounts
    <2> QED
        BY <1>4, <2>1, <2>3 DEF Becomes
<1>5. ASSUME NEW gone \in SUBSET ListClosed, NEW stuck \in SUBSET ListClosed,
             NEW torn \in SUBSET ListClosed, torn # {} => "removeMeta" \in Faults,
             Becomes(k, seg, AfterRemoval(k, gone, stuck, torn))
      PROVE  Counted(active'[k], disk'[k]) /\ Labels(disk'[k])
    <2>1. torn # {} => Faults \cap {"removeMeta", "crashRemove"} # {}
        BY <1>5
    <2>2. /\ Labels(AfterRemoval(k, gone, stuck, torn))
          /\ AfterRemoval(k, gone, stuck, torn).file = d.file
        BY <1>1, <2>1, RemovalLabels
    <2> QED
        BY <1>1, <1>5, <2>2 DEF Becomes, Counted, Held
<1> HIDE DEF seg, d
<1> QED
    BY <1>2, <1>3, <1>4, <1>5 DEF Serves, seg, d

LEMMA AbandonsLabels ==
    ASSUME Smooth, Unmixed, IInv, TearInv, CountInv, up, NEW k \in Kinds, Abandons(k)
    PROVE  Labels(disk'[k])
<1> DEFINE seg == active[k]
           d == disk[k]
<1>1. /\ Sound(seg) /\ d \in Disk /\ Tidy(d) /\ today \in Nat
      /\ Counted(seg, d) /\ Labels(d)
    BY TidyStart DEF CountInv
<1>2. CASE Becomes(k, NoSegment, d)
    BY <1>1, <1>2 DEF Becomes
<1>3. ASSUME NEW r \in FlushLocked(seg, d) \cup RotateLocked(seg, d),
             Becomes(k, NoSegment, r.disk)
      PROVE  Labels(disk'[k])
    BY <1>1, <1>3, FlushCounts, RotateCounts DEF Becomes
<1>4. ASSUME "crash" \in Faults,
             NEW e \in CrashedWrites(seg.buf, d) \cup CrashedRotate(seg, d),
             Becomes(k, NoSegment, e)
      PROVE  Labels(disk'[k])
    BY <1>1, <1>4, CrashedWritesLabels, CrashedRotateLabels DEF Becomes
<1>5. ASSUME NEW r \in Record, NEW q \in RotatedFor(seg, d, r),
             NEW e \in CrashedWrites(Accepting(q.seg, r).buf, q.disk),
             Becomes(k, NoSegment, e)
      PROVE  Labels(disk'[k])
    <2>1. Labels(q.disk) /\ q.disk \in Disk
        BY <1>1, <1>5, RotatedForCounts
    <2> QED
        BY <1>5, <2>1, CrashedWritesLabels DEF Becomes
<1>6. ASSUME NEW gone \in SUBSET ListClosed, NEW stuck \in SUBSET ListClosed,
             NEW torn \in SUBSET ListClosed, "crashRemove" \in Faults,
             Becomes(k, NoSegment, AfterRemoval(k, gone, stuck, torn))
      PROVE  Labels(disk'[k])
    <2>1. Faults \cap {"removeMeta", "crashRemove"} # {}
        BY <1>6
    <2> QED
        BY <1>1, <1>6, <2>1, RemovalLabels DEF Becomes
<1> HIDE DEF seg, d
<1> QED
    BY <1>2, <1>3, <1>4, <1>5, <1>6 DEF Abandons, seg, d

LEMMA OpensCounts ==
    ASSUME Unmixed, IInv, TearInv, CountInv, NEW k \in Kinds, Opens(k)
    PROVE  Counted(active'[k], disk'[k]) /\ Labels(disk'[k])
<1>1. disk[k] \in Disk /\ Intact(disk[k]) /\ Labels(disk[k])
    BY TidyStart DEF CountInv
<1>2. Labels(disk'[k]) /\ disk'[k].file.members = <<>>
    <2>1. CASE Leftover(k)
        BY <1>1, <2>1, RecoveredLabels DEF Opens, NoFile
    <2>2. CASE ~Leftover(k)
        BY <1>1, <2>2 DEF Opens, Leftover, Intact, Sealed
    <2> QED
        BY <2>1, <2>2
<1>3. <<>> \in Seq(Member)
    OBVIOUS
<1> QED
    BY <1>2, <1>3, NothingCounted DEF Opens

LEMMA FailsLabels ==
    ASSUME Unmixed, IInv, CountInv, NEW k \in Kinds, Fails(k)
    PROVE  Labels(disk'[k])
<1>1. disk[k] \in Disk /\ Labels(disk[k])
    BY DEF CountInv, IInv, TypeOK
<1> QED
    BY <1>1, RecoveredLabels DEF Fails

LEMMA NextCounts ==
    ASSUME Smooth, Unmixed, IInv, TearInv, CountInv, [Next]_vars
    PROVE  CountInv'
<1>1. CASE up /\ up' /\ \A k \in Kinds : Serves(k)
    BY <1>1, ServesCounts DEF CountInv
<1>2. CASE up /\ ~up' /\ \A k \in Kinds : Abandons(k)
    BY <1>2, AbandonsLabels DEF CountInv
<1>3. CASE ~up /\ up' /\ \A k \in Kinds : Opens(k)
    BY <1>3, OpensCounts DEF CountInv
<1>4. CASE ~up /\ ~up' /\ \A k \in Kinds : Fails(k)
    BY <1>4, FailsLabels DEF CountInv
<1> QED
    BY <1>1, <1>2, <1>3, <1>4, NextByKind DEF ByKind

LEMMA InitCounts ==
    ASSUME Init
    PROVE  CountInv
<1>1. ASSUME NEW k \in Kinds
      PROVE  Labels(disk[k]) /\ Counted(active[k], disk[k])
    <2>1. /\ active[k] = NoSegment /\ disk[k].file = NoFile
          /\ disk[k].closed = {} /\ disk[k].stray = {}
        BY DEF Init
    <2>2. disk[k].file.members = <<>> /\ <<>> \in Seq(Member)
        BY <2>1 DEF NoFile
    <2> QED
        BY <2>1, <2>2, NothingCounted DEF Labels
<1> QED
    BY <1>1 DEF CountInv

CountsKept == IInv /\ TearInv /\ CountInv

LEMMA AlwaysCounted ==
    ASSUME Smooth, Unmixed
    PROVE  Spec => []CountsKept
<1>1. Init => CountsKept
    BY InitInv, InitTears, InitCounts DEF CountsKept
<1>2. CountsKept /\ [Next]_vars => CountsKept'
    BY NextInv, NextTears, NextCounts DEF CountsKept
<1> QED
    BY <1>1, <1>2, PTL DEF Spec

LEMMA ListedLabelled ==
    ASSUME CountsKept, NEW x \in ListClosed
    PROVE  /\ x[2].members \in Seq(Member)
           /\ InfoRight(x[2].meta, x[2].members)
           /\ x[2].meta.size = Bytes(x[2].members)
<1>1. PICK k \in Kinds : x \in {<<k, s>> : s \in {c \in disk[k].closed : c.meta.present}}
    BY DEF ListClosed
<1>2. PICK s \in disk[k].closed : x = <<k, s>> /\ s.meta.present
    BY <1>1
<1>3. s \in ClosedSegment /\ Labelled(s)
    BY DEF CountsKept, IInv, TypeOK, Disk, CountInv, Labels
<1> QED
    BY <1>2, <1>3 DEF Labelled, ClosedSegment

\* No closed segment promises records it does not hold: whatever is appended,
\* flushed, rotated, dropped, removed or recovered, over errors of the disk and
\* crashes, the count in a sidecar is never more than what the file decodes to
\* (store.go:11-12).
THEOREM PromisesHold ==
    ASSUME Smooth, Unmixed
    PROVE  Spec => []PromiseKept
<1>1. CountsKept => PromiseKept
    BY ListedLabelled DEF PromiseKept, InfoRight
<1> QED
    BY <1>1, AlwaysCounted, PTL

\* Where a failed write has not reached the file and no file is left behind, the
\* sidecar is exact: its count, its size and the range of times on which
\* retention by age relies (store.go:11-12).
THEOREM SidecarsExact ==
    ASSUME Smooth, Unmixed, Precise
    PROVE  Spec => []SidecarExact
<1>1. CountsKept => SidecarExact
    BY ListedLabelled DEF SidecarExact, InfoRight
<1> QED
    BY <1>1, AlwaysCounted, PTL

-----------------------------------------------------------------------------
(* Where every record went.                                                *)

Ids(records) == {x.id : x \in records}

\* The records that are where they stay: in memory, reported as written, in a
\* closed segment, or deleted with one.  What a failed flush left in an active
\* file is not among them, for the file may go with its segment.
Settled == InMemory \cup flushed \cup removed \cup UNION {Filed(disk[k]) : k \in Kinds}

\* The records for which the drop counter has to account.
Owed == (1 .. offered) \ (Ids(Settled) \cup lost)

LossInv ==
    /\ up => Cardinality(Owed) <= dropped
    /\ ~up => 1 .. offered \subseteq Ids(Stored \cup removed) \cup lost

\* A batch has at most as many record numbers as records.
LEMMA BatchIds ==
    ASSUME NEW batch \in Seq(Record)
    PROVE  IsFiniteSet(Ids(Range(batch))) /\ Cardinality(Ids(Range(batch))) <= Len(batch)
<1> DEFINE places == 1 .. Len(batch)
           number == [i \in places |-> batch[i].id]
<1>1. Len(batch) \in Nat /\ DOMAIN batch = places
    OBVIOUS
<1>2. IsFiniteSet(places) /\ Cardinality(places) = Len(batch)
    BY <1>1, FS_Interval, 1 \in Int
<1>3. number \in Surjection(places, Ids(Range(batch)))
    <2>1. \A i \in places : batch[i] \in Range(batch)
        BY <1>1 DEF Range
    <2>2. \A x \in Range(batch) : \E i \in places : x = batch[i]
        BY <1>1 DEF Range
    <2>3. number \in [places -> Ids(Range(batch))]
        BY <2>1 DEF Ids
    <2>4. \A n \in Ids(Range(batch)) : \E i \in places : number[i] = n
        BY <2>2 DEF Ids
    <2> HIDE DEF number, places
    <2> QED
        BY <2>3, <2>4 DEF Surjection
<1> HIDE DEF places, number
<1> QED
    BY <1>2, <1>3, FS_Surjection

LEMMA OwedFinite ==
    ASSUME IInv
    PROVE  IsFiniteSet(Owed) /\ Cardinality(Owed) \in Nat
<1>1. IsFiniteSet(1 .. offered)
    BY FS_Interval, 1 \in Int DEF IInv, TypeOK
<1>2. Owed \in SUBSET (1 .. offered)
    BY DEF Owed
<1> HIDE DEF Owed
<1>3. IsFiniteSet(Owed)
    BY <1>1, <1>2, FS_Subset
<1> QED
    BY <1>3, FS_CardinalityType

\* The drop counter grows by the batch that is dropped.
LEMMA OwedGrows ==
    ASSUME IInv, LossInv, up, up', NEW batch \in Seq(Record),
           Owed' \subseteq Owed \cup Ids(Range(batch)),
           dropped' = dropped + Len(batch)
    PROVE  LossInv'
<1> DEFINE more == Ids(Range(batch))
<1>1. IsFiniteSet(more) /\ Cardinality(more) <= Len(batch)
    BY BatchIds
<1>2. IsFiniteSet(Owed) /\ Cardinality(Owed) \in Nat /\ Cardinality(Owed) <= dropped
    BY OwedFinite DEF LossInv
<1>3. Owed' \in SUBSET (Owed \cup more)
    OBVIOUS
<1> DEFINE before == Owed
           after == Owed'
<1>4. after \in SUBSET (before \cup more) /\ IsFiniteSet(before)
    BY <1>2, <1>3
<1>5. Cardinality(before) <= dropped
    BY <1>2
<1>6. Cardinality(after) <= dropped + Len(batch)
    <2> HIDE DEF more, before, after
    <2>1. /\ IsFiniteSet(before \cup more)
          /\ Cardinality(before \cup more) =
               Cardinality(before) + Cardinality(more) - Cardinality(before \cap more)
        BY <1>1, <1>4, FS_Union
    <2>2. Cardinality(before \cap more) \in Nat
        <3>1. before \cap more \in SUBSET before
            OBVIOUS
        <3> QED
            BY <1>4, <3>1, FS_Subset, FS_CardinalityType
    <2>3. Cardinality(after) <= Cardinality(before \cup more)
        BY <1>4, <2>1, FS_Subset
    <2>4. IsFiniteSet(after)
        BY <1>4, <2>1, FS_Subset
    <2>5. /\ Cardinality(after) \in Nat /\ Cardinality(before) \in Nat
          /\ Cardinality(more) \in Nat
        BY <1>1, <1>4, <2>4, FS_CardinalityType
    <2>6. dropped \in Nat /\ Len(batch) \in Nat
        BY DEF IInv, TypeOK
    <2> QED
        BY <1>1, <1>5, <2>1, <2>2, <2>3, <2>5, <2>6
<1> QED
    BY <1>6 DEF LossInv

\* What is settled stays so, apart from a batch that is dropped.
LEMMA SettledStep ==
    ASSUME IInv, LossInv, up, up', NEW batch \in Seq(Record),
           \A k \in Kinds :
               Range(active[k].buf) \subseteq
                   Range(active'[k].buf) \cup flushed' \cup Range(batch),
           \A k \in Kinds : Filed(disk[k]) \subseteq Filed(disk'[k]) \cup removed',
           flushed \subseteq flushed', removed \subseteq removed', lost \subseteq lost',
           \A n \in (1 .. offered') \ (1 .. offered) :
               n \in Ids(Settled' \cup Range(batch)) \cup lost',
           dropped' = dropped + Len(batch)
    PROVE  LossInv'
<1>1. InMemory \subseteq Settled' \cup Range(batch)
    BY DEF InMemory, Settled
<1>2. UNION {Filed(disk[k]) : k \in Kinds} \subseteq Settled'
    BY DEF Settled
<1>3. Settled \subseteq Settled' \cup Range(batch)
    BY <1>1, <1>2 DEF Settled
<1>4. Ids(Settled) \subseteq Ids(Settled' \cup Range(batch))
    BY <1>3 DEF Ids
<1>5. Ids(Settled' \cup Range(batch)) = Ids(Settled') \cup Ids(Range(batch))
    BY DEF Ids
<1>6. Owed' \subseteq Owed \cup Ids(Range(batch))
    BY <1>4, <1>5 DEF Owed
<1> QED
    BY <1>6, OwedGrows

\* What a helper called with seg and d leaves settled.
Settles(seg, d, r) ==
    /\ Range(seg.buf) \subseteq Range(r.seg.buf) \cup r.saved
    /\ Filed(d) \subseteq Filed(r.disk)

LEMMA FlushSettles ==
    ASSUME NEW seg, NEW d \in Disk, NEW r \in FlushLocked(seg, d)
    PROVE  Settles(seg, d, r)
<1>1. CASE seg.buf = <<>> /\ r = Result(seg, d, TRUE, {})
    BY <1>1 DEF Settles, Result
<1>2. CASE r = Result(Emptied(seg), Written(d, Whole(seg.buf)), TRUE, Range(seg.buf))
    BY <1>2 DEF Settles, Result, Written, Disk, Filed
<1>3. CASE \E e \in FailedWrites(seg.buf, d) : r = Result(seg, e, FALSE, {})
    <2>1. PICK e \in FailedWrites(seg.buf, d) : r = Result(seg, e, FALSE, {})
        BY <1>3
    <2>2. \/ e = d \/ e = Opened(d) \/ \E m : e = Written(d, m)
        BY DEF FailedWrites, TornWrites
    <2>3. e.closed = d.closed
        BY <2>2 DEF Opened, Written, Disk
    <2> QED
        BY <2>1, <2>3 DEF Settles, Result, Filed
<1> QED
    BY <1>1, <1>2, <1>3 DEF FlushLocked

LEMMA CloseSettles ==
    ASSUME NEW seg, NEW d \in Disk, NEW r \in CloseSegment(seg, d)
    PROVE  Filed(d) \subseteq Filed(r.disk)
<1>1. \/ r.disk = d \/ r.disk = WithoutFile(d)
      \/ r.disk \in ClosedFiles(d, seg) \cup UnlabelledFiles(d, seg)
    BY DEF CloseSegment, CloseFile, Result
<1>2. CASE r.disk = WithoutFile(d)
    BY <1>2 DEF WithoutFile, Disk, Filed
<1>3. CASE r.disk \in ClosedFiles(d, seg) \cup UnlabelledFiles(d, seg)
    <2>1. OnDisk(d) \subseteq OnDisk(r.disk) /\ ReadSegment(r.disk.file.members) = {}
        BY <1>3, FilesMoved
    <2> QED
        BY <2>1 DEF OnDisk, Filed
<1> QED
    BY <1>1, <1>2, <1>3

LEMMA RotateSettles ==
    ASSUME NEW seg, Sound(seg), NEW d \in Disk, NEW r \in RotateLocked(seg, d)
    PROVE  Settles(seg, d, r)
<1>1. CASE ~seg.open
    BY <1>1 DEF RotateLocked, Result, Settles
<1>2. CASE seg.open
    <2>1. PICK f \in FlushLocked(seg, d) :
              \/ r = f
              \/ /\ f.ok
                 /\ \E c \in CloseSegment(f.seg, f.disk) :
                        r = Result(c.seg, c.disk, c.ok, f.saved)
        BY <1>2 DEF RotateLocked
    <2>2. Settles(seg, d, f) /\ f.disk \in Disk /\ (f.ok => f.seg.buf = <<>>)
        BY FlushSettles, FlushLockedOK DEF ResultOK
    <2>3. ASSUME f.ok, NEW c \in CloseSegment(f.seg, f.disk),
                 r = Result(c.seg, c.disk, c.ok, f.saved)
          PROVE  Settles(seg, d, r)
        <3>1. Filed(f.disk) \subseteq Filed(c.disk)
            BY <2>2, <2>3, CloseSettles
        <3>2. Range(seg.buf) \subseteq f.saved
            BY <2>2, <2>3, EmptyFile DEF Settles
        <3> QED
            BY <2>2, <2>3, <3>1, <3>2 DEF Settles, Result
    <2> QED
        BY <2>1, <2>2, <2>3
<1> QED
    BY <1>1, <1>2

\* The automatic flush writes the buffer, leaves it, or drops a batch.
LEMMA AutoFlushSettles ==
    ASSUME NEW seg, Sound(seg), NEW d \in Disk, NEW saved, NEW f \in AutoFlushed(seg, d, saved)
    PROVE  /\ Filed(d) \subseteq Filed(f[1].disk) /\ saved \subseteq f[1].saved
           /\ \E batch \in Seq(Record) :
                 /\ f[2] = Len(batch)
                 /\ Range(seg.buf) \subseteq
                        Range(f[1].seg.buf) \cup f[1].saved \cup Range(batch)
<1>1. <<>> \in Seq(Record) /\ Len(<<>>) = 0 /\ Range(<<>>) = {}
    BY EmptyFile
<1>2. CASE Len(seg.buf) < AutoFlush
    <2>1. f = <<Result(seg, d, TRUE, saved), 0>>
        BY <1>2 DEF AutoFlushed
    <2>2. f[1] = Result(seg, d, TRUE, saved) /\ f[2] = 0
        BY <2>1
    <2>3. f[1].seg = seg /\ f[1].disk = d /\ f[1].saved = saved
        BY <2>2 DEF Result
    <2> QED
        BY <1>1, <2>2, <2>3
<1>3. CASE ~(Len(seg.buf) < AutoFlush)
    <2>1. PICK h \in FlushLocked(seg, d) :
              f = IF h.ok THEN <<Result(h.seg, h.disk, TRUE, saved \cup h.saved), 0>>
                  ELSE <<Result(DropBatch(h.seg), h.disk, FALSE, saved), Len(h.seg.buf)>>
        BY <1>3 DEF AutoFlushed
    <2>2. Settles(seg, d, h)
        BY FlushSettles
    <2>3. Sound(h.seg) /\ IF h.ok THEN h.seg.buf = <<>> ELSE h.seg = seg
        BY FlushLockedOK DEF ResultOK
    <2>4. CASE h.ok
        <3>1. f[1] = Result(h.seg, h.disk, TRUE, saved \cup h.saved) /\ f[2] = 0
            BY <2>1, <2>4
        <3>2. f[1].seg = h.seg /\ f[1].disk = h.disk /\ f[1].saved = saved \cup h.saved
            BY <3>1 DEF Result
        <3> QED
            BY <1>1, <2>2, <3>1, <3>2 DEF Settles
    <2>5. CASE ~h.ok
        <3>1. /\ f[1] = Result(DropBatch(h.seg), h.disk, FALSE, saved)
              /\ f[2] = Len(h.seg.buf)
            BY <2>1, <2>5
        <3>2. f[1].disk = h.disk /\ f[1].saved = saved
            BY <3>1 DEF Result
        <3>3. h.seg.buf \in Seq(Record) /\ h.seg.buf = seg.buf
            BY <2>3, <2>5 DEF Sound, Segment
        <3> QED
            BY <2>2, <3>1, <3>2, <3>3 DEF Settles
    <2> QED
        BY <2>4, <2>5
<1> QED
    BY <1>2, <1>3

\* The record offered is in the buffer, beside those that were there.
LEMMA AcceptingHolds ==
    ASSUME NEW seg, Sound(seg), ~seg.open => seg.buf = <<>>, NEW r \in Record
    PROVE  Range(Accepting(seg, r).buf) = Range(seg.buf) \cup {r}
<1> DEFINE s == IF seg.open THEN seg ELSE NewSegment(r.ts)
<1>1. Sound(s) /\ s.buf = seg.buf
    BY NewSegmentSound DEF Record
<1> HIDE DEF s
<1>2. s.buf \in Seq(Record) /\ Len(s.buf) \in Nat
    BY <1>1 DEF Sound, Segment
<1>3. Buffered(s, r).buf = Append(s.buf, r)
    BY <1>1, BufferedSound
<1>4. /\ DOMAIN Append(s.buf, r) = 1 .. (Len(s.buf) + 1)
      /\ DOMAIN s.buf = 1 .. Len(s.buf)
      /\ \A i \in 1 .. Len(s.buf) : Append(s.buf, r)[i] = s.buf[i]
      /\ Append(s.buf, r)[Len(s.buf) + 1] = r
    BY <1>2
<1>5. Range(Append(s.buf, r)) \subseteq Range(s.buf) \cup {r}
    BY <1>2, <1>4 DEF Range
<1>6. Range(s.buf) \subseteq Range(Append(s.buf, r)) /\ r \in Range(Append(s.buf, r))
    BY <1>2, <1>4 DEF Range
<1> QED
    BY <1>1, <1>3, <1>5, <1>6 DEF Accepting, s

LEMMA AppendLoss ==
    ASSUME Gentle, IInv, DurInv, LossInv, NEW k \in Kinds, NEW ts \in Timestamps,
           AppendRecord(k, ts)
    PROVE  LossInv'
<1> DEFINE r == NextRecord(ts)
<1>1. r \in Record /\ r.id = offered + 1
    BY NextRecordNew
<1>2. /\ up /\ up' /\ removed' = removed /\ offered' = offered + 1 /\ offered \in Nat
      /\ active \in [Kinds -> Segment] /\ disk \in [Kinds -> Disk] /\ dropped \in Nat
    BY DEF AppendRecord, IInv, TypeOK
<1>3. Sound(active[k]) /\ disk[k] \in Disk
    BY IInvSound
<1>4. \A n \in (1 .. offered') \ (1 .. offered) : n = r.id
    BY <1>1, <1>2
<1>5. \A q \in RotatedFor(active[k], disk[k], r) :
          Settles(active[k], disk[k], q) /\ Sound(q.seg) /\ q.disk \in Disk
          /\ (~q.seg.open => q.seg.buf = <<>>)
    <2> SUFFICES ASSUME NEW q \in RotatedFor(active[k], disk[k], r)
                 PROVE  /\ Settles(active[k], disk[k], q) /\ Sound(q.seg) /\ q.disk \in Disk
                        /\ (~q.seg.open => q.seg.buf = <<>>)
        OBVIOUS
    <2>1. Settles(active[k], disk[k], q)
        BY <1>3, RotateSettles DEF RotatedFor, Settles, Result
    <2>2. Durable(active[k], disk[k], flushed, q) /\ Sound(q.seg) /\ q.disk \in Disk
        BY <1>2, AcceptingDurable
    <2> QED
        BY <2>1, <2>2 DEF Durable, Unsaved
<1>6. Refused(k, r) \/ Taken(k, r)
    BY DEF AppendRecord
<1> HIDE DEF r
<1>7. CASE Refused(k, r)
    <2>1. PICK q \in RotatedFor(active[k], disk[k], r) :
              /\ active' = [active EXCEPT ![k] = q.seg]
              /\ disk' = [disk EXCEPT ![k] = q.disk]
              /\ flushed' = flushed \cup q.saved
        BY <1>7 DEF Refused
    <2>2. lost' = lost \cup {r.id} /\ dropped' = dropped
        BY <1>7 DEF Refused
    <2>3. Settles(active[k], disk[k], q)
        BY <1>5
    <2>4. \A j \in Kinds :
              /\ Range(active[j].buf) \subseteq Range(active'[j].buf) \cup flushed'
              /\ Filed(disk[j]) \subseteq Filed(disk'[j])
        BY <1>2, <2>1, <2>3 DEF Settles
    <2> DEFINE none == <<>>
    <2>5. none \in Seq(Record) /\ dropped' = dropped + Len(none)
        BY <1>2, <2>2
    <2> HIDE DEF none
    <2> QED
        BY <1>2, <1>4, <2>1, <2>2, <2>4, <2>5, SettledStep
<1>8. CASE Taken(k, r)
    <2>1. PICK q \in RotatedFor(active[k], disk[k], r) :
          \E f \in AutoFlushed(Accepting(q.seg, r), q.disk, q.saved) :
              /\ active' = [active EXCEPT ![k] = f[1].seg]
              /\ disk' = [disk EXCEPT ![k] = f[1].disk]
              /\ flushed' = flushed \cup f[1].saved
              /\ dropped' = dropped + f[2]
        BY <1>8 DEF Taken
    <2>2. PICK f \in AutoFlushed(Accepting(q.seg, r), q.disk, q.saved) :
              /\ active' = [active EXCEPT ![k] = f[1].seg]
              /\ disk' = [disk EXCEPT ![k] = f[1].disk]
              /\ flushed' = flushed \cup f[1].saved
              /\ dropped' = dropped + f[2]
        BY <2>1
    <2>3. lost' = lost
        BY <1>8 DEF Taken
    <2>4. /\ Settles(active[k], disk[k], q) /\ Sound(q.seg) /\ q.disk \in Disk
          /\ ~q.seg.open => q.seg.buf = <<>>
        BY <1>5
    <2> DEFINE a == Accepting(q.seg, r)
    <2>5. Sound(a) /\ Range(a.buf) = Range(q.seg.buf) \cup {r}
        BY <1>1, <2>4, AcceptingSound, AcceptingHolds
    <2>6. f \in AutoFlushed(a, q.disk, q.saved)
        BY <2>2
    <2> HIDE DEF a
    <2>7. PICK batch \in Seq(Record) :
              /\ f[2] = Len(batch)
              /\ Range(a.buf) \subseteq Range(f[1].seg.buf) \cup f[1].saved \cup Range(batch)
        BY <2>4, <2>5, <2>6, AutoFlushSettles
    <2>8. Filed(q.disk) \subseteq Filed(f[1].disk) /\ q.saved \subseteq f[1].saved
        BY <2>4, <2>5, <2>6, AutoFlushSettles
    <2>9. \A j \in Kinds :
              /\ Range(active[j].buf) \subseteq
                     Range(active'[j].buf) \cup flushed' \cup Range(batch)
              /\ Filed(disk[j]) \subseteq Filed(disk'[j])
        <3> SUFFICES ASSUME NEW j \in Kinds
                     PROVE  /\ Range(active[j].buf) \subseteq
                                   Range(active'[j].buf) \cup flushed' \cup Range(batch)
                            /\ Filed(disk[j]) \subseteq Filed(disk'[j])
            OBVIOUS
        <3>1. CASE j = k
            BY <1>2, <2>2, <2>4, <2>5, <2>7, <2>8, <3>1 DEF Settles
        <3>2. CASE j # k
            BY <1>2, <2>2, <3>2
        <3> QED
            BY <3>1, <3>2
    <2>10. r \in Settled' \cup Range(batch)
        <3>1. r \in Range(active'[k].buf) \cup flushed' \cup Range(batch)
            BY <1>2, <2>2, <2>5, <2>7
        <3> QED
            BY <3>1 DEF Settled, InMemory
    <2>11. \A n \in (1 .. offered') \ (1 .. offered) : n \in Ids(Settled' \cup Range(batch))
        BY <1>4, <2>10 DEF Ids
    <2> QED
        BY <1>2, <2>2, <2>3, <2>7, <2>9, <2>11, SettledStep
<1> QED
    BY <1>6, <1>7, <1>8

LEMMA ForEachKindLoss ==
    ASSUME IInv, LossInv, NEW results, ForEachKind(results),
           \A k \in Kinds : \A r \in results[k] : Settles(active[k], disk[k], r)
    PROVE  LossInv'
<1>1. PICK r \in [Kinds -> UNION {results[k] : k \in Kinds}] :
          /\ \A k \in Kinds : r[k] \in results[k]
          /\ active' = [k \in Kinds |-> r[k].seg]
          /\ disk' = [k \in Kinds |-> r[k].disk]
          /\ flushed' = flushed \cup UNION {r[k].saved : k \in Kinds}
    BY DEF ForEachKind
<1>2. /\ up /\ up' /\ offered' = offered /\ removed' = removed /\ lost' = lost
      /\ dropped' = dropped /\ dropped \in Nat
    BY DEF ForEachKind, IInv, TypeOK
<1> DEFINE none == <<>>
<1>3. none \in Seq(Record) /\ dropped' = dropped + Len(none)
    BY <1>2
<1> HIDE DEF none
<1>4. \A k \in Kinds : Settles(active[k], disk[k], r[k])
    BY <1>1
<1>5. \A k \in Kinds :
          /\ Range(active[k].buf) \subseteq Range(active'[k].buf) \cup flushed'
          /\ Filed(disk[k]) \subseteq Filed(disk'[k])
    BY <1>1, <1>4 DEF Settles
<1>6. flushed \subseteq flushed'
    BY <1>1
<1> QED
    BY <1>2, <1>3, <1>5, <1>6, SettledStep

LEMMA FlushLoss ==
    ASSUME IInv, LossInv, Flush \/ Rotate
    PROVE  LossInv'
<1>1. CASE Flush
    <2> DEFINE results == [k \in Kinds |-> FlushLocked(active[k], disk[k])]
    <2>1. ForEachKind(results)
        BY <1>1 DEF Flush
    <2>2. \A k \in Kinds : \A r \in results[k] : Settles(active[k], disk[k], r)
        BY IInvSound, FlushSettles
    <2> HIDE DEF results
    <2> QED
        BY <2>1, <2>2, ForEachKindLoss
<1>2. CASE Rotate
    <2> DEFINE results == [k \in Kinds |-> RotateLocked(active[k], disk[k])]
    <2>1. ForEachKind(results)
        BY <1>2 DEF Rotate
    <2>2. \A k \in Kinds : \A r \in results[k] : Settles(active[k], disk[k], r)
        BY IInvSound, RotateSettles
    <2> HIDE DEF results
    <2> QED
        BY <2>1, <2>2, ForEachKindLoss
<1> QED
    BY <1>1, <1>2

LEMMA RemovalLoss ==
    ASSUME IInv, LossInv, EnforceRetention \/ Remove
    PROVE  LossInv'
<1>1. PICK xs \in SUBSET ListClosed :
          \E stuck \in Stuck(xs), left \in SidecarStuck(xs) : RemoveEach(xs, stuck, left)
    <2>1. CASE EnforceRetention
        BY <2>1 DEF EnforceRetention
    <2>2. CASE Remove
        <3>1. PICK x \in ListClosed :
                  \E stuck \in Stuck({x}), left \in SidecarStuck({x}) : RemoveEach({x}, stuck, left)
            BY <2>2 DEF Remove
        <3>2. {x} \in SUBSET ListClosed
            OBVIOUS
        <3> QED
            BY <3>1, <3>2
    <2> QED
        BY <2>1, <2>2
<1>2. PICK stuck \in Stuck(xs), left \in SidecarStuck(xs) : RemoveEach(xs, stuck, left)
    BY <1>1
<1>3. stuck \subseteq xs /\ left \subseteq xs
    BY DEF Stuck, SidecarStuck
<1> DEFINE a == xs \ (stuck \cup left)
           b == stuck \ left
           c == left \ stuck
<1>4. a \in SUBSET ListClosed /\ b \in SUBSET ListClosed /\ c \in SUBSET ListClosed
    BY <1>3
<1>5. RemoveSegments(a, b, c)
    BY <1>2 DEF RemoveEach
<1> HIDE DEF a, b, c
<1>6. \A k \in Kinds : Filed(disk[k]) \subseteq Filed(disk'[k]) \cup removed'
    BY <1>4, <1>5, RemovalKeeps
<1>7. /\ up /\ up' /\ active' = active /\ offered' = offered /\ flushed' = flushed
      /\ lost' = lost /\ dropped' = dropped /\ dropped \in Nat /\ removed \subseteq removed'
    BY <1>5 DEF EnforceRetention, Remove, IInv, TypeOK, RemoveSegments
<1> DEFINE none == <<>>
<1>8. none \in Seq(Record) /\ dropped' = dropped + Len(none)
    BY <1>7
<1> HIDE DEF none
<1> QED
    BY <1>6, <1>7, <1>8, SettledStep

\* What the process that died had, and no file yields, is lost.
LEMMA DiesLoss ==
    ASSUME Dies
    PROVE  LossInv'
<1>1. ~up' /\ Stored' = UNION {OnDisk(disk'[k]) : k \in Kinds}
    BY DEF Dies, Stored
<1>2. lost' = (1 .. offered') \ Ids(removed' \cup Stored')
    BY <1>1 DEF Dies, Ids
<1>3. removed' \cup Stored' = Stored' \cup removed'
    OBVIOUS
<1> QED
    BY <1>1, <1>2, <1>3 DEF LossInv

\* Recovery loses nothing, and leaves nothing in an active file.
LEMMA RecoveredFiles ==
    ASSUME IInv, NEW k \in Kinds
    PROVE  /\ \A e \in Recovered(disk[k]) : OnDisk(disk[k]) \subseteq Filed(e)
           /\ \A e \in HalfRecovered(disk[k]) : OnDisk(disk[k]) \subseteq OnDisk(e)
<1>1. disk[k] \in Disk
    BY DEF IInv, TypeOK
<1>2. ASSUME NEW info, NEW e \in ClosedFiles(disk[k], info) \cup UnlabelledFiles(disk[k], info)
      PROVE  OnDisk(disk[k]) \subseteq Filed(e) /\ OnDisk(disk[k]) \subseteq OnDisk(e)
    <2>1. OnDisk(disk[k]) \subseteq OnDisk(e) /\ ReadSegment(e.file.members) = {}
        BY <1>1, <1>2, FilesMoved
    <2> QED
        BY <2>1 DEF OnDisk, Filed
<1>3. ASSUME NEW e \in Recovered(disk[k]) PROVE OnDisk(disk[k]) \subseteq Filed(e)
    BY <1>2, <1>3 DEF Recovered
<1>4. ASSUME NEW e \in HalfRecovered(disk[k]) PROVE OnDisk(disk[k]) \subseteq OnDisk(e)
    <2>1. e = disk[k] \/ \E info : e \in UnlabelledFiles(disk[k], info)
        BY DEF HalfRecovered
    <2> QED
        BY <1>2, <2>1
<1> QED
    BY <1>3, <1>4

LEMMA OpenLoss ==
    ASSUME IInv, DurInv, LossInv, Open
    PROVE  LossInv'
<1>1. /\ 1 .. offered \subseteq Ids(Stored \cup removed) \cup lost
      /\ lost' = lost /\ offered' = offered /\ removed' = removed /\ up' /\ dropped' = 0
    BY DEF Open, LossInv, history
<1>2. ASSUME NEW k \in Kinds PROVE OnDisk(disk[k]) \subseteq Filed(disk'[k])
    <2>1. CASE Leftover(k)
        BY <2>1, RecoveredFiles DEF Open
    <2>2. CASE ~Leftover(k)
        <3>1. disk'[k] = disk[k] /\ disk[k].file.members = <<>>
            BY <2>2 DEF Open, Leftover, DurInv, Sealed
        <3> QED
            BY <3>1, EmptyFile DEF OnDisk, Filed
    <2> QED
        BY <2>1, <2>2
<1>3. Stored \cup removed \subseteq Settled'
    BY <1>1, <1>2 DEF Stored, Settled
<1>4. Ids(Stored \cup removed) \subseteq Ids(Settled')
    BY <1>3 DEF Ids
<1>5. Owed' = {}
    BY <1>1, <1>4 DEF Owed
<1>6. Cardinality(Owed') = 0
    BY <1>5, FS_EmptySet
<1> QED
    BY <1>1, <1>5, <1>6 DEF LossInv

LEMMA OpenFailsLoss ==
    ASSUME IInv, LossInv, NEW c \in Kinds, OpenFails(c)
    PROVE  LossInv'
<1>1. /\ 1 .. offered \subseteq Ids(Stored \cup removed) \cup lost
      /\ lost' = lost /\ offered' = offered /\ removed' = removed /\ ~up'
    BY DEF OpenFails, LossInv, history
<1>2. ASSUME NEW k \in Kinds PROVE OnDisk(disk[k]) \subseteq OnDisk(disk'[k])
    <2>1. \/ disk'[k] = disk[k] \/ disk'[k] \in Recovered(disk[k])
          \/ disk'[k] \in HalfRecovered(disk[k])
        BY DEF OpenFails
    <2> QED
        BY <2>1, RecoveredFiles DEF OnDisk, Filed
<1>3. Stored \cup removed \subseteq Stored' \cup removed'
    BY <1>1, <1>2 DEF Stored
<1>4. Ids(Stored \cup removed) \subseteq Ids(Stored' \cup removed')
    BY <1>3 DEF Ids
<1> QED
    BY <1>1, <1>4 DEF LossInv

LEMMA NextLoss ==
    ASSUME Gentle, IInv, DurInv, LossInv, [Next]_vars
    PROVE  LossInv'
<1>1. CASE UNCHANGED <<up, active, disk, dropped, offered, history>>
    BY <1>1 DEF LossInv, Owed, Settled, InMemory, Stored, history
<1>2. CASE Operation
    BY <1>2, AppendLoss, FlushLoss, RemovalLoss, OpenLoss DEF Operation
<1>3. CASE Failure
    <2>1. CASE \E k \in Kinds : OpenFails(k)
        BY <2>1, OpenFailsLoss
    <2>2. CASE ~\E k \in Kinds : OpenFails(k)
        BY <1>3, <2>2, DiesLoss
        DEF Failure, Crash, CrashInFlush, CrashInRotate, CrashInAppend,
            CrashInRetention, CrashInRemove, DiesWhile
    <2> QED
        BY <2>1, <2>2
<1> QED
    BY <1>1, <1>2, <1>3 DEF Next, NewDay, vars, history

LEMMA InitLoss ==
    ASSUME Init
    PROVE  LossInv
<1>1. Owed = {} /\ up /\ dropped = 0
    BY DEF Init, Owed
<1> QED
    BY <1>1, FS_EmptySet DEF LossInv

LEMMA LossAccounted ==
    ASSUME IInv, DurInv, LossInv
    PROVE  LossExplained
<1> SUFFICES ASSUME up PROVE Cardinality(Missing \ lost) <= dropped
    BY DEF LossExplained
<1>1. Settled \subseteq InMemory \cup Stored \cup removed
    <2>1. UNION {Filed(disk[k]) : k \in Kinds} \subseteq Stored
        BY DEF Stored, OnDisk, Filed
    <2>2. flushed \subseteq Stored \cup removed
        BY DEF DurInv, FlushedSurvive
    <2> QED
        BY <2>1, <2>2 DEF Settled
<1>2. Missing \ lost \in SUBSET Owed
    BY <1>1 DEF Missing, Owed, Ids
<1>3. IsFiniteSet(Owed) /\ Cardinality(Owed) \in Nat /\ Cardinality(Owed) <= dropped
    BY OwedFinite DEF LossInv
<1> DEFINE missing == Missing \ lost
           owed == Owed
<1>4. missing \in SUBSET owed /\ IsFiniteSet(owed)
    BY <1>2, <1>3
<1>5. Cardinality(missing) <= Cardinality(owed) /\ Cardinality(missing) \in Nat
    <2> HIDE DEF missing, owed
    <2> QED
        BY <1>4, FS_Subset, FS_CardinalityType
<1>6. Cardinality(owed) \in Nat /\ Cardinality(owed) <= dropped /\ dropped \in Nat
    BY <1>3 DEF IInv, TypeOK
<1>7. Cardinality(missing) <= dropped
    <2> HIDE DEF missing, owed
    <2> QED
        BY <1>5, <1>6
<1> QED
    BY <1>7

\* No record disappears unexplained: while the process runs, every record given
\* to Append that is in no buffer, no file and no deleted segment was refused
\* with an error, died with an earlier process, or is in the drop counter
\* (store.go:129-131), over any sequence of appends, failed flushes and closings,
\* removals, crashes and recoveries.
THEOREM LossesExplained ==
    ASSUME Gentle
    PROVE  Spec => []LossExplained
<1> DEFINE I == IInv /\ DurInv /\ LossInv
<1>1. Init => I
    BY InitInv, InitDur, InitLoss
<1>2. I /\ [Next]_vars => I'
    BY NextInv, NextDur, NextLoss
<1>3. I => LossExplained
    BY LossAccounted
<1> HIDE DEF I
<1> QED
    BY <1>1, <1>2, <1>3, PTL DEF Spec
-----------------------------------------------------------------------------
(* The closed segments of a kind are always finitely many, and what they   *)
(* hold is a sum.                                                          *)

\* The image of a finite set under a function.
LEMMA ImageFinite ==
    ASSUME NEW S, IsFiniteSet(S), NEW f
    PROVE  IsFiniteSet({f[x] : x \in S})
<1> DEFINE T == {f[x] : x \in S}
           g == [x \in S |-> f[x]]
<1>1. g \in Surjection(S, T)
    BY DEF Surjection
<1> HIDE DEF g, T
<1>2. IsFiniteSet(T)
    BY <1>1, FS_Surjection
<1> QED
    BY <1>2 DEF T

Few(d) == IsFiniteSet(d.closed)

LEMMA WrittenFew ==
    ASSUME NEW d \in Disk, Few(d), NEW m
    PROVE  Few(Opened(d)) /\ Few(Written(d, m)) /\ Few(WithoutFile(d))
BY DEF Few, Opened, Written, WithoutFile, Disk

LEMMA MovedFew ==
    ASSUME NEW d \in Disk, Few(d), NEW info,
           NEW e \in ClosedFiles(d, info) \cup UnlabelledFiles(d, info)
    PROVE  Few(e)
<1>1. \E n : \E meta : e = Moved(d, SegmentDate(info), n, meta)
    <2>1. CASE e \in ClosedFiles(d, info)
        BY <2>1 DEF ClosedFiles
    <2>2. CASE e \in UnlabelledFiles(d, info)
        BY <2>2 DEF UnlabelledFiles
    <2> QED
        BY <2>1, <2>2
<1>2. PICK n, meta : e = Moved(d, SegmentDate(info), n, meta)
    BY <1>1
<1> DEFINE kept == {s \in d.closed : ~Named(SegmentDate(info), n, s)}
           s == [date |-> SegmentDate(info), seq |-> n, members |-> d.file.members, meta |-> meta]
<1>3. e.closed = kept \cup {s}
    BY <1>2 DEF Moved
<1>4. IsFiniteSet(kept)
    <2>1. kept \in SUBSET d.closed
        OBVIOUS
    <2> HIDE DEF kept
    <2> QED
        BY <2>1, FS_Subset DEF Few
<1> HIDE DEF kept, s
<1>5. IsFiniteSet(kept \cup {s})
    BY <1>4, FS_AddElement
<1> QED
    BY <1>3, <1>5 DEF Few

LEMMA FlushFew ==
    ASSUME NEW seg, NEW d \in Disk, Few(d)
    PROVE  /\ \A r \in FlushLocked(seg, d) : Few(r.disk)
           /\ \A e \in CrashedWrites(seg.buf, d) : Few(e)
<1>1. ASSUME NEW e \in TornWrites(seg.buf, d) PROVE Few(e)
    BY WrittenFew DEF TornWrites
<1>2. ASSUME NEW e \in FailedWrites(seg.buf, d) PROVE Few(e)
    BY <1>1, WrittenFew DEF FailedWrites
<1>3. ASSUME NEW r \in FlushLocked(seg, d) PROVE Few(r.disk)
    BY <1>2, WrittenFew DEF FlushLocked, Result
<1>4. ASSUME NEW e \in CrashedWrites(seg.buf, d) PROVE Few(e)
    BY <1>1, WrittenFew DEF CrashedWrites
<1> QED
    BY <1>3, <1>4

LEMMA CloseFew ==
    ASSUME NEW seg, NEW d \in Disk, Few(d), NEW r \in CloseSegment(seg, d)
    PROVE  Few(r.disk)
<1>1. \/ r.disk = d \/ r.disk = WithoutFile(d)
      \/ r.disk \in ClosedFiles(d, seg) \cup UnlabelledFiles(d, seg)
    BY DEF CloseSegment, CloseFile, Result
<1> QED
    BY <1>1, WrittenFew, MovedFew

LEMMA RotateFew ==
    ASSUME NEW seg, Sound(seg), NEW d \in Disk, Few(d), today \in Nat,
           NEW r \in RotateLocked(seg, d)
    PROVE  Few(r.disk)
<1>1. CASE ~seg.open
    BY <1>1 DEF RotateLocked, Result
<1>2. CASE seg.open
    <2>1. PICK f \in FlushLocked(seg, d) :
              \/ r = f
              \/ \E c \in CloseSegment(f.seg, f.disk) : r = Result(c.seg, c.disk, c.ok, f.saved)
        BY <1>2 DEF RotateLocked
    <2>2. Few(f.disk) /\ f.disk \in Disk
        BY FlushFew, FlushLockedOK DEF ResultOK
    <2>3. ASSUME NEW c \in CloseSegment(f.seg, f.disk) PROVE Few(c.disk)
        BY <2>2, CloseFew
    <2> QED
        BY <2>1, <2>2, <2>3 DEF Result
<1> QED
    BY <1>1, <1>2

LEMMA RotatedForFew ==
    ASSUME NEW seg, Sound(seg), NEW d \in Disk, Few(d), today \in Nat, NEW r,
           NEW q \in RotatedFor(seg, d, r)
    PROVE  Few(q.disk) /\ q.disk \in Disk /\ Sound(q.seg)
<1>1. Few(q.disk)
    BY RotateFew DEF RotatedFor, Result
<1> QED
    BY <1>1, RotatedForOK DEF ResultOK

LEMMA AutoFlushFew ==
    ASSUME NEW seg, NEW d \in Disk, Few(d), NEW saved, NEW f \in AutoFlushed(seg, d, saved)
    PROVE  Few(f[1].disk)
<1>1. \A r \in FlushLocked(seg, d) : Few(r.disk)
    BY FlushFew
<1> QED
    BY <1>1 DEF AutoFlushed, Result

LEMMA CrashedRotateFew ==
    ASSUME NEW seg, Sound(seg), NEW d \in Disk, Few(d), NEW e \in CrashedRotate(seg, d)
    PROVE  Few(e)
<1> DEFINE w == IF seg.buf = <<>> THEN d ELSE Written(d, Whole(seg.buf))
<1>1. w \in Disk /\ Few(w)
    BY WholeType, WrittenType, WrittenFew DEF Sound, Segment
<1>2. e = d \/ e \in CrashedWrites(seg.buf, d) \/ e \in UnlabelledFiles(w, seg)
    BY DEF CrashedRotate
<1> HIDE DEF w
<1> QED
    BY <1>1, <1>2, FlushFew, MovedFew

LEMMA RecoveredFew ==
    ASSUME NEW d \in Disk, Few(d), NEW e \in Recovered(d) \cup HalfRecovered(d)
    PROVE  Few(e)
<1>1. e = d \/ \E info : e \in ClosedFiles(d, info) \cup UnlabelledFiles(d, info)
    BY DEF Recovered, HalfRecovered
<1> QED
    BY <1>1, MovedFew

LEMMA RemovalFew ==
    ASSUME IInv, NEW k \in Kinds, Few(disk[k]),
           NEW gone \in SUBSET ListClosed, NEW stuck \in SUBSET ListClosed,
           NEW torn \in SUBSET ListClosed
    PROVE  Few(AfterRemoval(k, gone, stuck, torn))
<1> DEFINE of(xs) == {x[2] : x \in {y \in xs : y[1] = k}}
           f == [s \in of(stuck) |-> [s EXCEPT !.meta = NoSidecar]]
           halves == {[s EXCEPT !.meta = NoSidecar] : s \in of(stuck)}
           left == disk[k].closed \ (of(gone) \cup of(stuck) \cup of(torn))
<1>1. disk[k] \in Disk
    BY DEF IInv, TypeOK
<1>2. of(stuck) \in SUBSET disk[k].closed
    BY DEF ListClosed
<1>3. IsFiniteSet(of(stuck))
    <2> HIDE DEF of
    <2> QED
        BY <1>2, FS_Subset DEF Few
<1>4. halves = {f[s] : s \in of(stuck)}
    <2> HIDE DEF of
    <2> QED
        OBVIOUS
<1>5. AfterRemoval(k, gone, stuck, torn).closed = left \cup halves
    <2> DEFINE stray == disk[k].stray \cup {[date |-> s.date, seq |-> s.seq, meta |-> s.meta]
                                              : s \in of(torn)}
               new == left \cup halves
    <2>1. AfterRemoval(k, gone, stuck, torn) = [disk[k] EXCEPT !.closed = new, !.stray = stray]
        BY DEF AfterRemoval
    <2> HIDE DEF new, stray
    <2>2. AfterRemoval(k, gone, stuck, torn).closed = new
        BY <1>1, <2>1 DEF Disk
    <2> QED
        BY <2>2 DEF new
<1>6. left \in SUBSET disk[k].closed
    OBVIOUS
<1> HIDE DEF f, of, halves, left
<1>7. IsFiniteSet(halves) /\ IsFiniteSet(left)
    BY <1>3, <1>4, <1>6, ImageFinite, FS_Subset DEF Few
<1> QED
    BY <1>5, <1>7, FS_Union DEF Few

FewInv == \A k \in Kinds : Few(disk[k])

LEMMA NextFew ==
    ASSUME IInv, FewInv, [Next]_vars
    PROVE  FewInv'
<1> SUFFICES ASSUME NEW k \in Kinds PROVE Few(disk'[k])
    BY DEF FewInv
<1> DEFINE seg == active[k]
           d == disk[k]
<1>1. Sound(seg) /\ d \in Disk /\ today \in Nat /\ Few(d)
    BY IInvSound DEF IInv, TypeOK, FewInv
<1>2. ASSUME NEW e,
             \/ e = d
             \/ \E r \in FlushLocked(seg, d) \cup RotateLocked(seg, d) : e = r.disk
             \/ e \in CrashedWrites(seg.buf, d) \cup CrashedRotate(seg, d)
             \/ e \in Recovered(d) \cup HalfRecovered(d)
             \/ \E gone, stuck, torn \in SUBSET ListClosed : e = AfterRemoval(k, gone, stuck, torn)
      PROVE  Few(e)
    BY <1>1, <1>2, FlushFew, RotateFew, CrashedRotateFew, RecoveredFew, RemovalFew
<1>3. ASSUME NEW r \in Record, NEW q \in RotatedFor(seg, d, r), NEW e,
             \/ e = q.disk
             \/ \E f \in AutoFlushed(Accepting(q.seg, r), q.disk, q.saved) : e = f[1].disk
             \/ e \in CrashedWrites(Accepting(q.seg, r).buf, q.disk)
      PROVE  Few(e)
    <2>1. Few(q.disk) /\ q.disk \in Disk
        BY <1>1, RotatedForFew
    <2> QED
        BY <1>3, <2>1, AutoFlushFew, FlushFew
<1>4. CASE Serves(k) \/ Abandons(k)
    <2> DEFINE e == disk'[k]
    <2>1. \/ e = d
          \/ \E r \in FlushLocked(seg, d) \cup RotateLocked(seg, d) : e = r.disk
          \/ e \in CrashedWrites(seg.buf, d) \cup CrashedRotate(seg, d)
          \/ \E gone, stuck, torn \in SUBSET ListClosed : e = AfterRemoval(k, gone, stuck, torn)
          \/ \E r \in Record : \E q \in RotatedFor(seg, d, r) :
                \/ e = q.disk
                \/ \E f \in AutoFlushed(Accepting(q.seg, r), q.disk, q.saved) : e = f[1].disk
                \/ e \in CrashedWrites(Accepting(q.seg, r).buf, q.disk)
        BY <1>4 DEF Serves, Abandons, Becomes
    <2> HIDE DEF e, seg, d
    <2>2. Few(e)
        BY <1>2, <1>3, <2>1
    <2> QED
        BY <2>2 DEF e
<1>5. CASE Opens(k) \/ Fails(k)
    <2>1. disk'[k] = d \/ disk'[k] \in Recovered(d) \cup HalfRecovered(d)
        BY <1>5 DEF Opens, Fails
    <2> QED
        BY <1>2, <2>1
<1> QED
    BY <1>4, <1>5, NextByKind DEF ByKind

LEMMA InitFew ==
    ASSUME Init
    PROVE  FewInv
BY FS_EmptySet DEF Init, FewInv, Few

\* The size of a closed segment, alone and as a member of ListClosed.
Weight == [s \in ClosedSegment |-> Bytes(s.members)]
Cost == [x \in Kinds \X ClosedSegment |-> Bytes(x[2].members)]

LEMMA WeightType ==
    /\ \A s \in ClosedSegment : Weight[s] = Bytes(s.members) /\ Weight[s] \in Nat
    /\ \A x \in Kinds \X ClosedSegment : Cost[x] = Weight[x[2]] /\ Cost[x] \in Nat
<1>1. \A s \in ClosedSegment : Bytes(s.members) \in Nat
    BY CountTypes DEF ClosedSegment
<1>2. \A x \in Kinds \X ClosedSegment : x[2] \in ClosedSegment
    OBVIOUS
<1> QED
    BY <1>1, <1>2 DEF Weight, Cost

LEMMA DiskSum ==
    ASSUME NEW d \in Disk, Few(d)
    PROVE  /\ DiskBytes(d) = Bytes(d.file.members) + Total(Weight, d.closed)
           /\ Bytes(d.file.members) \in Nat /\ Total(Weight, d.closed) \in Nat
<1> DEFINE f == [s \in d.closed |-> Bytes(s.members)]
<1>1. IsFiniteSet(d.closed) /\ d.closed \subseteq ClosedSegment
    BY DEF Few, Disk
<1>2. \A s \in d.closed : f[s] = Weight[s] /\ Weight[s] \in Nat
    BY <1>1, WeightType
<1>3. DOMAIN f = d.closed
    OBVIOUS
<1>4. DiskBytes(d) = Bytes(d.file.members) + SumFunction(f)
    BY DEF DiskBytes
<1> HIDE DEF f
<1>5. SumFunction(f) = Total(f, d.closed)
    BY <1>3, SumIsTotal
<1>6. Total(f, d.closed) = Total(Weight, d.closed)
    BY <1>1, <1>2, TotalSame
<1>7. Total(Weight, d.closed) \in Nat
    BY <1>1, <1>2, TotalNat
<1>8. Bytes(d.file.members) \in Nat
    BY CountTypes DEF Disk, File
<1> QED
    BY <1>4, <1>5, <1>6, <1>7, <1>8

LEMMA SpoolSum ==
    ASSUME IInv, FewInv
    PROVE  SpoolBytes = Total([k \in Kinds |-> DiskBytes(disk[k])], Kinds)
<1> DEFINE f == [k \in Kinds |-> DiskBytes(disk[k])]
<1>1. DOMAIN f = Kinds
    OBVIOUS
<1>2. SpoolBytes = SumFunction(f)
    BY DEF SpoolBytes
<1> HIDE DEF f
<1>3. SpoolBytes = Total(f, Kinds)
    BY <1>1, <1>2, SumIsTotal
<1> QED
    BY <1>3 DEF f

LEMMA ListedTypes ==
    ASSUME IInv, NEW x \in ListClosed
    PROVE  /\ x \in Kinds \X ClosedSegment /\ x = <<x[1], x[2]>>
           /\ x[2] \in disk[x[1]].closed
<1>1. PICK k \in Kinds : x \in {<<k, s>> : s \in {c \in disk[k].closed : c.meta.present}}
    BY DEF ListClosed
<1>2. PICK s \in disk[k].closed : x = <<k, s>>
    BY <1>1
<1>3. s \in ClosedSegment
    BY DEF IInv, TypeOK, Disk
<1> QED
    BY <1>2, <1>3

LEMMA ListedFinite ==
    ASSUME IInv, FewInv
    PROVE  IsFiniteSet(ListClosed)
<1> DEFINE f == [k \in Kinds |-> disk[k].closed]
           sets == {f[k] : k \in Kinds}
           all == UNION sets
<1>1. IsFiniteSet(Kinds)
    BY ConstantsAssumption
<1>2. \A S \in sets : IsFiniteSet(S)
    BY DEF FewInv, Few
<1>3. ListClosed \subseteq Kinds \X all
    <2>1. \A k \in Kinds : disk[k].closed \subseteq all
        OBVIOUS
    <2> HIDE DEF all
    <2>2. ASSUME NEW x \in ListClosed PROVE x \in Kinds \X all
        BY <2>1, ListedTypes
    <2> QED
        BY <2>2
<1>4. IsFiniteSet(sets)
    <2> HIDE DEF f
    <2> QED
        BY <1>1, ImageFinite
<1> HIDE DEF f, sets
<1>5. IsFiniteSet(all)
    BY <1>2, <1>4, FS_UNION
<1> HIDE DEF all
<1>6. IsFiniteSet(Kinds \X all)
    BY <1>1, <1>5, FS_Product
<1> QED
    BY <1>3, <1>6, FS_Subset

\* The sidecars say of what goes what its files hold.
LEMMA FreedSum ==
    ASSUME CountsKept, FewInv, NEW xs \in SUBSET ListClosed
    PROVE  /\ IsFiniteSet(xs)
           /\ \A x \in xs : Cost[x] \in Nat
           /\ Freed(xs) = Total(Cost, xs)
           /\ Freed(xs) \in Nat
<1> DEFINE f == [x \in xs |-> x[2].meta.size]
<1>1. IInv
    BY DEF CountsKept
<1>2. IsFiniteSet(xs)
    BY <1>1, ListedFinite, FS_Subset
<1>3. ASSUME NEW x \in xs PROVE x[2].meta.size = Cost[x] /\ Cost[x] \in Nat
    <2>1. x \in Kinds \X ClosedSegment /\ x[2].meta.size = Bytes(x[2].members)
        BY <1>1, ListedTypes, ListedLabelled
    <2> QED
        BY <2>1, WeightType DEF Cost
<1>4. DOMAIN f = xs /\ \A x \in xs : f[x] = Cost[x]
    BY <1>3
<1>5. Freed(xs) = SumFunction(f)
    BY DEF Freed
<1> HIDE DEF f
<1>6. Freed(xs) = Total(f, xs)
    BY <1>4, <1>5, SumIsTotal
<1>7. Total(f, xs) = Total(Cost, xs)
    BY <1>2, <1>4, TotalSame
<1>8. Total(Cost, xs) \in Nat
    BY <1>2, <1>3, TotalNat
<1> QED
    BY <1>2, <1>3, <1>6, <1>7, <1>8

\* What goes first is no more than what goes in all.
LEMMA FreedPart ==
    ASSUME CountsKept, FewInv, NEW xs \in SUBSET ListClosed, NEW ys \in SUBSET xs
    PROVE  Freed(ys) <= Freed(xs)
<1> DEFINE zs == xs \ ys
<1>1. /\ ys \in SUBSET ListClosed /\ zs \in SUBSET ListClosed
      /\ ys \cup zs = xs /\ ys \cap zs = {}
    OBVIOUS
<1> HIDE DEF zs
<1>2. /\ IsFiniteSet(ys) /\ IsFiniteSet(zs) /\ \A x \in ys \cup zs : Cost[x] \in Int
      /\ Freed(xs) = Total(Cost, xs)
      /\ Freed(ys) = Total(Cost, ys) /\ Freed(ys) \in Nat
      /\ Freed(zs) = Total(Cost, zs) /\ Freed(zs) \in Nat
    BY <1>1, FreedSum
<1>3. Total(Cost, xs) = Total(Cost, ys) + Total(Cost, zs)
    BY <1>1, <1>2, TotalUnion
<1> QED
    BY <1>2, <1>3

\* The segments of kind k among those in xs, and what the kind holds without.
Of(k, xs) == {x[2] : x \in {y \in xs : y[1] = k}}
Without(xs) ==
    [k \in Kinds |-> Bytes(disk[k].file.members) + Total(Weight, disk[k].closed \ Of(k, xs))]

LEMMA WithoutType ==
    ASSUME IInv, FewInv, NEW xs, NEW k \in Kinds
    PROVE  /\ IsFiniteSet(disk[k].closed \ Of(k, xs))
           /\ \A s \in disk[k].closed \ Of(k, xs) : Weight[s] \in Int
           /\ Bytes(disk[k].file.members) \in Nat
           /\ Total(Weight, disk[k].closed \ Of(k, xs)) \in Nat
           /\ Without(xs)[k] \in Int
<1> DEFINE rest == disk[k].closed \ Of(k, xs)
<1>1. disk[k] \in Disk /\ Few(disk[k])
    BY DEF IInv, TypeOK, FewInv
<1>2. rest \in SUBSET disk[k].closed
    OBVIOUS
<1>3. Without(xs)[k] = Bytes(disk[k].file.members) + Total(Weight, rest)
    BY DEF Without
<1> HIDE DEF rest
<1>4. IsFiniteSet(rest) /\ \A s \in rest : Weight[s] \in Nat
    BY <1>1, <1>2, WeightType, FS_Subset DEF Few, Disk
<1>5. Total(Weight, rest) \in Nat
    BY <1>4, TotalNat
<1>6. Bytes(disk[k].file.members) \in Nat
    BY <1>1, CountTypes DEF Disk, File
<1> QED
    BY <1>3, <1>4, <1>5, <1>6 DEF rest

\* One segment more that goes takes its size with it.
LEMMA OneLess ==
    ASSUME IInv, FewInv, NEW ys \in SUBSET ListClosed, NEW x \in ListClosed, x \notin ys
    PROVE  Total(Without(ys \cup {x}), Kinds) = Total(Without(ys), Kinds) - Cost[x]
<1> DEFINE c == x[1]
           s == x[2]
           rest == disk[c].closed \ Of(c, ys)
<1>1. /\ x \in Kinds \X ClosedSegment /\ x = <<c, s>> /\ c \in Kinds
      /\ s \in disk[c].closed
    BY ListedTypes
<1>2. s \notin Of(c, ys)
    <2> SUFFICES ASSUME NEW y \in ys, y[1] = c, y[2] = s PROVE FALSE
        BY DEF Of
    <2>1. y = <<y[1], y[2]>>
        BY ListedTypes
    <2> QED
        BY <1>1, <2>1
<1>3. /\ Of(c, ys \cup {x}) = Of(c, ys) \cup {s}
      /\ \A k \in Kinds \ {c} : Of(k, ys \cup {x}) = Of(k, ys)
    BY DEF Of
<1>4. s \in rest /\ disk[c].closed \ Of(c, ys \cup {x}) = rest \ {s}
    BY <1>1, <1>2, <1>3
<1>5. /\ IsFiniteSet(rest) /\ \A t \in rest : Weight[t] \in Int
      /\ Bytes(disk[c].file.members) \in Nat /\ Total(Weight, rest) \in Nat
    BY <1>1, WithoutType
<1>6. Weight[s] = Cost[x] /\ Cost[x] \in Nat
    BY <1>1, WeightType
<1> HIDE DEF rest
<1>7. Total(Weight, rest) = Weight[s] + Total(Weight, rest \ {s})
    BY <1>4, <1>5, TotalRemove
<1>8. Total(Weight, rest \ {s}) \in Nat
    BY <1>1, <1>4, WithoutType
<1>9. Without(ys \cup {x})[c] = Without(ys)[c] - Cost[x]
    <2>1. Without(ys)[c] = Bytes(disk[c].file.members) + Total(Weight, rest)
        BY <1>1 DEF Without, rest
    <2>2. Without(ys \cup {x})[c] = Bytes(disk[c].file.members) + Total(Weight, rest \ {s})
        BY <1>1, <1>4 DEF Without
    <2> QED
        BY <1>5, <1>6, <1>7, <1>8, <2>1, <2>2
<1>10. \A k \in Kinds \ {c} : Without(ys)[k] = Without(ys \cup {x})[k]
    BY <1>3 DEF Without
<1>11. \A k \in Kinds : Without(ys)[k] \in Int /\ Without(ys \cup {x})[k] \in Int
    BY WithoutType
<1> DEFINE u == Without(ys)
           w == Without(ys \cup {x})
<1>12. IsFiniteSet(Kinds)
    BY ConstantsAssumption
<1>a. c \in Kinds
    BY <1>1
<1> HIDE DEF u, w, c, s
<1>b. \A k \in Kinds : u[k] \in Int /\ w[k] \in Int
    BY <1>11 DEF u, w
<1>c. \A k \in Kinds \ {c} : u[k] = w[k]
    BY <1>10 DEF u, w
<1>13. Total(w, Kinds) = Total(u, Kinds) + w[c] - u[c]
    BY <1>12, <1>a, <1>b, <1>c, TotalBut
<1>14. Total(u, Kinds) \in Int /\ u[c] \in Int /\ Cost[x] \in Int
    BY <1>1, <1>6, <1>11, <1>12, TotalInt DEF u
<1>15. w[c] = u[c] - Cost[x]
    BY <1>9 DEF u, w
<1>16. Total(w, Kinds) = Total(u, Kinds) - Cost[x]
    BY <1>13, <1>14, <1>15
<1> QED
    BY <1>16 DEF u, w

\* A removal frees what it removes.
LEMMA RemovalFrees ==
    ASSUME IInv, FewInv, NEW xs \in SUBSET ListClosed
    PROVE  Total(Without(xs), Kinds) = Total(Without({}), Kinds) - Total(Cost, xs)
<1> DEFINE Right(ys) == Total(Without(ys), Kinds) = Total(Without({}), Kinds) - Total(Cost, ys)
           C == {ys \in SUBSET xs : ~Right(ys)}
<1> SUFFICES ASSUME ~Right(xs) PROVE FALSE
    OBVIOUS
<1>1. IsFiniteSet(xs) /\ IsFiniteSet(Kinds)
    BY ListedFinite, FS_Subset, ConstantsAssumption
<1>2. C # {} /\ \A ys \in C : IsFiniteSet(ys)
    <2>1. \A ys \in SUBSET xs : IsFiniteSet(ys)
        BY <1>1, FS_Subset
    <2>2. xs \in C
        OBVIOUS
    <2> QED
        BY <2>1, <2>2
<1>3. PICK ys \in C : \A zs \in C : zs \subseteq ys => zs = ys
    <2> HIDE DEF C
    <2> QED
        BY <1>2, SmallestSet
<1>4. ys \subseteq xs /\ ~Right(ys) /\ IsFiniteSet(ys)
    BY <1>2
<1>5. Total(Without({}), Kinds) \in Int
    <2>1. \A k \in Kinds : Without({})[k] \in Int
        BY WithoutType
    <2> QED
        BY <1>1, <2>1, TotalInt
<1>6. ys # {}
    <2>1. Total(Cost, {}) = 0
        BY TotalEmpty
    <2>2. Right({})
        BY <1>5, <2>1
    <2> QED
        BY <1>4, <2>2
<1>7. PICK x \in ys : TRUE
    BY <1>6
<1> DEFINE zs == ys \ {x}
<1>8. /\ zs \in SUBSET ListClosed /\ x \in ListClosed /\ x \notin zs /\ ys = zs \cup {x}
      /\ zs \subseteq ys /\ zs # ys /\ zs \in SUBSET xs
    BY <1>4, <1>7
<1>9. Right(zs)
    BY <1>3, <1>8
<1>10. Total(Without(ys), Kinds) = Total(Without(zs), Kinds) - Cost[x]
    <2> HIDE DEF zs
    <2> QED
        BY <1>8, OneLess
<1>11. \A y \in ys : Cost[y] \in Int
    BY <1>4, ListedTypes, WeightType
<1>12. Total(Cost, ys) = Cost[x] + Total(Cost, zs)
    BY <1>4, <1>7, <1>11, TotalRemove
<1>13. Total(Cost, zs) \in Int /\ Cost[x] \in Int
    <2>1. IsFiniteSet(zs)
        BY <1>4, FS_Subset
    <2> HIDE DEF zs
    <2> QED
        BY <1>8, <1>11, <2>1, TotalInt
<1> HIDE DEF zs
<1> QED
    BY <1>4, <1>5, <1>9, <1>10, <1>12, <1>13

LEMMA SpoolWithout ==
    ASSUME IInv, FewInv
    PROVE  SpoolBytes = Total(Without({}), Kinds) /\ SpoolBytes \in Nat
<1> DEFINE f == [k \in Kinds |-> DiskBytes(disk[k])]
<1>1. IsFiniteSet(Kinds)
    BY ConstantsAssumption
<1>2. ASSUME NEW k \in Kinds PROVE f[k] = Without({})[k] /\ f[k] \in Nat
    <2>1. disk[k].closed \ Of(k, {}) = disk[k].closed
        BY DEF Of
    <2>2. disk[k] \in Disk /\ Few(disk[k])
        BY DEF IInv, TypeOK, FewInv
    <2>3. Without({})[k] = Bytes(disk[k].file.members) + Total(Weight, disk[k].closed)
        BY <2>1 DEF Without
    <2> QED
        BY <2>2, <2>3, DiskSum
<1>3. SpoolBytes = Total(f, Kinds)
    BY SpoolSum
<1> HIDE DEF f
<1>4. Total(f, Kinds) = Total(Without({}), Kinds)
    BY <1>1, <1>2, TotalSame
<1>5. Total(f, Kinds) \in Nat
    BY <1>1, <1>2, TotalNat
<1> QED
    BY <1>3, <1>4, <1>5

\* What the spool holds when the segments in xs have left it.
LEMMA SpoolAfter ==
    ASSUME IInv, FewInv, IInv', FewInv', NEW xs \in SUBSET ListClosed,
           \A k \in Kinds : /\ disk'[k].file = disk[k].file
                            /\ disk'[k].closed = disk[k].closed \ Of(k, xs)
    PROVE  SpoolBytes' = Total(Without(xs), Kinds)
<1> DEFINE f == [k \in Kinds |-> DiskBytes(disk'[k])]
<1>1. IsFiniteSet(Kinds)
    BY ConstantsAssumption
<1>2. ASSUME NEW k \in Kinds PROVE f[k] = Without(xs)[k]
    <2>1. disk'[k] \in Disk /\ Few(disk'[k])
        BY DEF IInv, TypeOK, FewInv
    <2>2. DiskBytes(disk'[k]) = Bytes(disk'[k].file.members) + Total(Weight, disk'[k].closed)
        BY <2>1, DiskSum
    <2> QED
        BY <2>2 DEF Without
<1>3. SpoolBytes' = SumFunction(f) /\ DOMAIN f = Kinds
    BY DEF SpoolBytes
<1> HIDE DEF f
<1>4. SpoolBytes' = Total(f, Kinds)
    BY <1>3, SumIsTotal
<1> QED
    BY <1>1, <1>2, <1>4, TotalSame

-----------------------------------------------------------------------------
(* Retention.                                                              *)

PassInv == CountsKept /\ FewInv

\* A pass over a spool within its cap takes only what is too old.
LEMMA SparesRecent ==
    ASSUME Precise, PassInv, EnforceRetention, SpoolBytes <= MaxSpool
    PROVE  \A r \in removed' \ removed : r.ts < today - MaxAge
<1>1. PICK xs \in SUBSET ListClosed : \E stuck \in Stuck(xs), left \in SidecarStuck(xs) :
          Chosen(xs, stuck) /\ RemoveEach(xs, stuck, left)
    BY DEF EnforceRetention
<1>2. PICK stuck \in Stuck(xs), left \in SidecarStuck(xs) :
          Chosen(xs, stuck) /\ RemoveEach(xs, stuck, left)
    BY <1>1
<1>3. stuck \subseteq xs /\ left \subseteq xs
    BY DEF Stuck, SidecarStuck
<1>4. IInv /\ SpoolBytes \in Nat /\ MaxSpool \in Nat /\ MaxAge \in Nat /\ today \in Nat
    BY SpoolWithout, ConstantsAssumption DEF PassInv, CountsKept, IInv, TypeOK
<1>5. ASSUME NEW x \in xs PROVE TooOld(x)
    <2> DEFINE before == {y \in xs \ stuck : Before(y, x)}
    <2>1. before \in SUBSET ListClosed
        OBVIOUS
    <2>2. TooOld(x) \/ SpoolBytes - Freed(before) > MaxSpool
        BY <1>2 DEF Chosen
    <2> HIDE DEF before
    <2>3. Freed(before) \in Nat
        BY <2>1, FreedSum DEF PassInv
    <2> QED
        BY <1>4, <2>2, <2>3
<1>6. removed' = removed \cup UNION {ReadSegment(x[2].members) :
                     x \in (xs \ (stuck \cup left)) \cup (left \ stuck)}
    BY <1>2 DEF RemoveEach, RemoveSegments
<1> SUFFICES ASSUME NEW r \in removed' \ removed PROVE r.ts < today - MaxAge
    OBVIOUS
<1>7. PICK x \in xs : r \in ReadSegment(x[2].members)
    BY <1>3, <1>6
<1>8. /\ x[2].members \in Seq(Member)
      /\ InfoRight(x[2].meta, x[2].members)
      /\ x[2] \in ClosedSegment
    BY <1>4, ListedLabelled, ListedTypes DEF PassInv
<1>9. r.ts \in Nat /\ x[2].meta.maxTS \in Nat
    BY <1>7, <1>8, ReadSegmentType DEF ClosedSegment, Sidecar, Record
<1>10. r.ts <= x[2].meta.maxTS
    BY <1>7, <1>8 DEF InfoRight
<1>11. x[2].meta.maxTS < today - MaxAge
    BY <1>5, <1>7 DEF TooOld
<1> QED
    BY <1>4, <1>9, <1>10, <1>11

\* A pass that can remove what it chooses takes until the spool fits.
LEMMA ReachesCap ==
    ASSUME PassInv, PassInv', EnforceRetention, MaxSpool > 0, "remove" \notin Faults
    PROVE  SpoolBytes' <= MaxSpool \/ ListClosed' = {}
<1>1. PICK xs \in SUBSET ListClosed : \E stuck \in Stuck(xs), left \in SidecarStuck(xs) :
          Chosen(xs, stuck) /\ RemoveEach(xs, stuck, left)
    BY DEF EnforceRetention
<1>2. PICK stuck \in Stuck(xs), left \in SidecarStuck(xs) :
          Chosen(xs, stuck) /\ RemoveEach(xs, stuck, left)
    BY <1>1
<1>3. stuck = {} /\ left \subseteq xs
    BY DEF Stuck, SidecarStuck
<1>4. IInv /\ FewInv /\ IInv' /\ FewInv'
    BY DEF PassInv, CountsKept
<1>5. ASSUME NEW k \in Kinds
      PROVE  /\ disk'[k].file = disk[k].file
             /\ disk'[k].closed = disk[k].closed \ Of(k, xs)
    <2>1. disk[k] \in Disk
        BY <1>4 DEF IInv, TypeOK
    <2>2. disk'[k] = AfterRemoval(k, xs \ left, {}, left)
        <3>1. xs \ (stuck \cup left) = xs \ left /\ stuck \ left = {} /\ left \ stuck = left
            BY <1>3
        <3> QED
            BY <1>2, <3>1 DEF RemoveEach, RemoveSegments
    <2> DEFINE of(ys) == {x[2] : x \in {y \in ys : y[1] = k}}
               new == (disk[k].closed \ (of(xs \ left) \cup of({}) \cup of(left)))
                          \cup {[s EXCEPT !.meta = NoSidecar] : s \in of({})}
               stray == disk[k].stray \cup {[date |-> s.date, seq |-> s.seq, meta |-> s.meta]
                                              : s \in of(left)}
    <2>3. disk'[k] = [disk[k] EXCEPT !.closed = new, !.stray = stray]
        BY <2>2 DEF AfterRemoval
    <2>4. new = disk[k].closed \ Of(k, xs)
        BY <1>3 DEF Of
    <2> HIDE DEF new, stray
    <2> QED
        BY <2>1, <2>3, <2>4 DEF Disk
<1> SUFFICES ASSUME ListClosed' # {} PROVE SpoolBytes' <= MaxSpool
    OBVIOUS
<1>6. PICK x \in ListClosed : x \notin xs
    <2>1. PICK k \in Kinds : \E s \in disk'[k].closed : s.meta.present
        BY DEF ListClosed
    <2>a. PICK s \in disk'[k].closed : s.meta.present
        BY <2>1
    <2>2. s \in disk[k].closed /\ s \notin Of(k, xs)
        BY <1>5, <2>1
    <2>3. <<k, s>> \in ListClosed
        BY <2>2, <2>a DEF ListClosed
    <2>4. <<k, s>> \notin xs
        BY <2>2 DEF Of
    <2> QED
        BY <2>3, <2>4
<1> DEFINE before == {y \in xs \ stuck : Before(y, x)}
<1>7. ~(SpoolBytes - Freed(before) > MaxSpool)
    BY <1>2, <1>6 DEF Chosen
<1>8. before \in SUBSET xs
    OBVIOUS
<1> HIDE DEF before
<1>9. /\ Freed(before) <= Freed(xs) /\ Freed(before) \in Nat
      /\ Freed(xs) \in Nat /\ Freed(xs) = Total(Cost, xs)
    BY <1>8, FreedSum, FreedPart DEF PassInv
<1>10. SpoolBytes' = SpoolBytes - Freed(xs)
    <2>1. SpoolBytes' = Total(Without(xs), Kinds)
        BY <1>4, <1>5, SpoolAfter
    <2> QED
        BY <1>4, <1>9, <2>1, RemovalFrees, SpoolWithout
<1>11. SpoolBytes \in Nat /\ MaxSpool \in Nat
    BY <1>4, SpoolWithout, ConstantsAssumption
<1> QED
    BY <1>7, <1>9, <1>10, <1>11

\* Retention deletes enough and no more: over a spool within its cap only what
\* is past the age limit, and, where every removal succeeds, until the spool
\* fits or nothing is listed (store.go:359-361).  The deletions follow the
\* sidecars, so they must be right: no short write, no write that is reported
\* as failed, and no file without its sidecar next to a sidecar without its file.
THEOREM RetentionWorks ==
    ASSUME Smooth, Unmixed, Precise
    PROVE  Spec => RetentionIsRight
<1>1. Init => PassInv
    BY InitInv, InitTears, InitCounts, InitFew DEF PassInv, CountsKept
<1>2. PassInv /\ [Next]_vars => PassInv'
    BY NextInv, NextTears, NextCounts, NextFew DEF PassInv, CountsKept
<1>3. PassInv /\ PassInv' /\ [Next]_vars =>
          /\ [EnforceRetention /\ SpoolBytes <= MaxSpool =>
                 \A r \in removed' \ removed : r.ts < today - MaxAge]_vars
          /\ [EnforceRetention /\ MaxSpool > 0 /\ "remove" \notin Faults =>
                 SpoolBytes' <= MaxSpool \/ ListClosed' = {}]_vars
    BY SparesRecent, ReachesCap
<1> QED
    BY <1>1, <1>2, <1>3, PTL DEF Spec, RetentionIsRight, RetentionSparesRecent, RetentionReachesCap

=============================================================================
