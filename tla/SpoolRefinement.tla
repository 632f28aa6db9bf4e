--------------------------- MODULE SpoolRefinement ---------------------------
(***************************************************************************)
(* The spool is a telemetry log: Spec implements TelemetryLog under the    *)
(* mapping of Spool, for every instance in which a process meets no write  *)
(* error.  It may die anywhere, and a removal may fail: a record then      *)
(* leaves the spool only with the memory of a process or by deletion, and  *)
(* none comes back.                                                        *)
(***************************************************************************)
EXTENDS SpoolProofs

\* The faults an append of the log survives.
Quiet == Faults \subseteq {"crash", "crashRemove", "remove", "removeMeta"}

-----------------------------------------------------------------------------
(* One kind.                                                               *)

\* All that a segment and its disk hold.
All(seg, d) == Range(seg.buf) \cup OnDisk(d)

\* No record is in two files, so that a deletion takes its records away.
Disjoint(d) ==
    /\ \A s \in d.closed :
          ReadSegment(s.members) \cap ReadSegment(d.file.members) = {}
    /\ \A s, t \in d.closed :
          s # t => ReadSegment(s.members) \cap ReadSegment(t.members) = {}

\* Between two calls of a running store: nothing in memory is on the disk too,
\* a file exists if anything was flushed to it, and is empty otherwise.
Good(seg, d) ==
    /\ Clean(d) /\ Sealed(d) /\ Disjoint(d)
    /\ Range(seg.buf) \cap OnDisk(d) = {}
    /\ seg.records # Len(seg.buf) => d.file.present
    /\ seg.records = Len(seg.buf) => ReadSegment(d.file.members) = {}
    /\ ~seg.open => seg.records = 0 /\ seg.buf = <<>>

\* A helper that fails in nothing and loses nothing.
Faithful(seg, d, r) ==
    /\ r.ok /\ Good(r.seg, r.disk)
    /\ All(r.seg, r.disk) = All(seg, d)
    /\ OnDisk(d) \subseteq OnDisk(r.disk)

LEMMA WrittenExact ==
    ASSUME NEW d \in Disk, Clean(d), NEW m \in Member
    PROVE  LET e == Written(d, m)
           IN  /\ e.file.present /\ e.closed = d.closed
               /\ ReadSegment(e.file.members) =
                      ReadSegment(d.file.members) \cup Range(m.recs)
               /\ OnDisk(e) = OnDisk(d) \cup Range(m.recs)
<1> DEFINE e == Written(d, m)
<1>1. d.file.members \in Seq(Member) /\ AllWhole(d.file.members)
    BY DEF Disk, File, Clean
<1>2. /\ e.file = [present |-> TRUE, members |-> Append(d.file.members, m)]
      /\ e.closed = d.closed
    BY DEF Written, Disk
<1>3. ReadSegment(e.file.members) = ReadSegment(d.file.members) \cup Range(m.recs)
    BY <1>1, <1>2, AppendReads
<1> QED
    BY <1>2, <1>3 DEF OnDisk

LEMMA MovedExact ==
    ASSUME NEW d \in Disk, Disjoint(d), NEW info,
           NEW e \in ClosedFiles(d, info) \cup UnlabelledFiles(d, info)
    PROVE  /\ e.file = NoFile /\ OnDisk(e) = OnDisk(d)
           /\ Disjoint(e) /\ Clean(e) /\ Sealed(e)
<1>1. PICK n \in FreeSeqs(d, SegmentDate(info)) : \E meta :
          e = Moved(d, SegmentDate(info), n, meta)
    <2>1. CASE e \in ClosedFiles(d, info)
        BY <2>1 DEF ClosedFiles
    <2>2. CASE e \in UnlabelledFiles(d, info)
        BY <2>2 DEF UnlabelledFiles
    <2> QED
        BY <2>1, <2>2
<1>2. PICK meta : e = Moved(d, SegmentDate(info), n, meta)
    BY <1>1
<1> DEFINE s == [date |-> SegmentDate(info), seq |-> n,
                 members |-> d.file.members, meta |-> meta]
<1>3. s.members = d.file.members /\ e.closed \subseteq d.closed \cup {s}
    BY <1>2 DEF Moved
<1> HIDE DEF s
<1>4. /\ e.file = NoFile /\ Clean(e) /\ Sealed(e) /\ OnDisk(d) \subseteq OnDisk(e)
      /\ ReadSegment(e.file.members) = {}
    BY FilesMoved
<1>5. OnDisk(e) \subseteq OnDisk(d)
    BY <1>3, <1>4 DEF OnDisk
<1>6. Disjoint(e)
    BY <1>3, <1>4, SMTT(60) DEF Disjoint
<1> QED
    BY <1>4, <1>5, <1>6

LEMMA FlushFaithful ==
    ASSUME Quiet, NEW seg, Sound(seg), NEW d \in Disk, Good(seg, d),
           NEW r \in FlushLocked(seg, d)
    PROVE  Faithful(seg, d, r) /\ r.seg.buf = <<>>
<1>1. seg.buf \in Seq(Record) /\ Len(seg.buf) \in Nat /\ seg.records \in Nat
    BY DEF Sound, Segment
<1>2. CASE seg.buf = <<>>
    <2>1. r = Result(seg, d, TRUE, {})
        BY <1>2 DEF FlushLocked
    <2> QED
        BY <1>2, <2>1 DEF Result, Faithful
<1>3. CASE seg.buf # <<>>
    <2> DEFINE e == Written(d, Whole(seg.buf))
               s == Emptied(seg)
    <2>1. r = Result(s, e, TRUE, Range(seg.buf))
        BY <1>3 DEF FlushLocked, FailedWrites, Quiet
    <2>2. s.buf = <<>> /\ s.records = seg.records /\ s.open = seg.open
        BY EmptiedSound DEF Emptied, Sound, Segment
    <2>3. Whole(seg.buf) \in Member /\ Whole(seg.buf).recs = seg.buf
        BY <1>1, WholeType DEF Whole
    <2>4. /\ e.file.present /\ e.closed = d.closed
          /\ ReadSegment(e.file.members) =
                 ReadSegment(d.file.members) \cup Range(seg.buf)
          /\ OnDisk(e) = OnDisk(d) \cup Range(seg.buf)
        BY <2>3, WrittenExact DEF Good
    <2>5. Clean(e) /\ Sealed(e)
        BY <1>1, <2>4, WholeWritten DEF Good, Sealed
    <2>6. seg.records # 0 /\ Len(s.buf) = 0 /\ seg.open
        BY <1>1, <1>3, <2>2, EmptySeq DEF Sound, Good
    <2> HIDE DEF e, s
    <2>7. Disjoint(e)
        <3>1. \A c \in d.closed : ReadSegment(c.members) \cap Range(seg.buf) = {}
            BY DEF Good, OnDisk
        <3> QED
            BY <2>4, <3>1 DEF Good, Disjoint
    <2>8. Good(s, e)
        BY <2>2, <2>4, <2>5, <2>6, <2>7, EmptyFile DEF Good
    <2>9. All(s, e) = All(seg, d) /\ OnDisk(d) \subseteq OnDisk(e)
        BY <2>2, <2>4, EmptyFile DEF All
    <2> QED
        BY <2>1, <2>2, <2>8, <2>9 DEF Faithful, Result
<1> QED
    BY <1>2, <1>3

LEMMA CloseFaithful ==
    ASSUME Quiet, NEW seg, Sound(seg), seg.buf = <<>>, NEW d \in Disk, Good(seg, d),
           NEW r \in CloseSegment(seg, d)
    PROVE  Faithful(seg, d, r)
<1> DEFINE none == NoSegment
<1>1. /\ none.buf = <<>> /\ none.records = 0 /\ ~none.open /\ Range(none.buf) = {}
      /\ Len(none.buf) = 0
    BY EmptyFile DEF NoSegment
<1>2. Len(seg.buf) = 0 /\ Range(seg.buf) = {}
    BY EmptyFile
<1>3. CASE seg.records = 0
    <2>1. ReadSegment(d.file.members) = {}
        BY <1>2, <1>3 DEF Good
    <2>2. CASE r = Result(none, d, TRUE, {})
        <3> HIDE DEF none
        <3> QED
            BY <1>1, <1>2, <2>1, <2>2 DEF Faithful, Good, All, Result
    <2>3. CASE r = Result(none, WithoutFile(d), TRUE, {})
        <3> DEFINE e == WithoutFile(d)
        <3>1. e.file = NoFile /\ e.closed = d.closed
            BY DEF WithoutFile, Disk
        <3>2. /\ e.file.members = <<>> /\ ReadSegment(e.file.members) = {}
              /\ Clean(e) /\ Sealed(e)
            BY <3>1, EmptyFile DEF NoFile, Clean, Sealed
        <3>3. OnDisk(e) = OnDisk(d)
            BY <2>1, <3>1, <3>2 DEF OnDisk
        <3>4. Disjoint(e)
            BY <3>1, <3>2 DEF Good, Disjoint
        <3> HIDE DEF e, none
        <3> QED
            BY <1>1, <1>2, <2>3, <3>2, <3>3, <3>4
            DEF Faithful, Good, All, Result, e
    <2> QED
        BY <1>3, <2>2, <2>3 DEF CloseSegment
<1>4. CASE seg.records # 0
    <2>1. d.file.present
        BY <1>2, <1>4 DEF Good
    <2>2. PICK e \in ClosedFiles(d, seg) : r = Result(none, e, TRUE, {})
        BY <1>4, <2>1 DEF CloseSegment, CloseFile, Quiet
    <2>3. /\ e.file = NoFile /\ OnDisk(e) = OnDisk(d)
          /\ Disjoint(e) /\ Clean(e) /\ Sealed(e)
        BY MovedExact DEF Good
    <2>4. ReadSegment(e.file.members) = {}
        BY <2>3, EmptyFile DEF NoFile
    <2> HIDE DEF none
    <2> QED
        BY <1>1, <1>2, <2>2, <2>3, <2>4 DEF Faithful, Good, All, Result
<1> QED
    BY <1>3, <1>4

LEMMA RotateFaithful ==
    ASSUME Quiet, NEW seg, Sound(seg), NEW d \in Disk, Good(seg, d),
           NEW r \in RotateLocked(seg, d)
    PROVE  Faithful(seg, d, r)
<1>1. CASE ~seg.open
    BY <1>1 DEF RotateLocked, Result, Faithful
<1>2. CASE seg.open
    <2>1. PICK f \in FlushLocked(seg, d) :
              f.ok => \E c \in CloseSegment(f.seg, f.disk) :
                          r = Result(c.seg, c.disk, c.ok, f.saved)
        BY <1>2 DEF RotateLocked
    <2>2. Faithful(seg, d, f) /\ f.seg.buf = <<>>
        BY FlushFaithful
    <2>3. Sound(f.seg) /\ f.disk \in Disk
        BY FlushLockedOK DEF ResultOK
    <2>4. PICK c \in CloseSegment(f.seg, f.disk) :
              r = Result(c.seg, c.disk, c.ok, f.saved)
        BY <2>1, <2>2 DEF Faithful
    <2>5. Faithful(f.seg, f.disk, c)
        BY <2>2, <2>3, CloseFaithful DEF Faithful
    <2> QED
        BY <2>2, <2>4, <2>5 DEF Faithful, Result
<1> QED
    BY <1>1, <1>2

\* A record the store has never seen goes into the buffer.
LEMMA AcceptingGood ==
    ASSUME NEW seg, Sound(seg), NEW d, Good(seg, d), NEW r \in Record,
           r \notin All(seg, d)
    PROVE  /\ Good(Accepting(seg, r), d)
           /\ All(Accepting(seg, r), d) = All(seg, d) \cup {r}
<1> DEFINE s == IF seg.open THEN seg ELSE NewSegment(r.ts)
           a == Buffered(s, r)
<1>1. r.ts \in Nat
    BY DEF Record
<1>2. Sound(s) /\ s.buf = seg.buf /\ s.records = seg.records /\ s.open
    <2>1. CASE seg.open
        BY <2>1
    <2>2. CASE ~seg.open
        <3>1. s = NewSegment(r.ts) /\ seg.buf = <<>> /\ seg.records = 0
            BY <2>2 DEF Good
        <3>2. NewSegment(r.ts).records = 0 /\ NewSegment(r.ts).open
            BY DEF NewSegment, NoSegment
        <3> QED
            BY <1>1, <3>1, <3>2, NewSegmentSound
    <2> QED
        BY <2>1, <2>2
<1> HIDE DEF s
<1>3. s.buf \in Seq(Record) /\ Len(s.buf) \in Nat /\ s.records \in Nat
    BY <1>2 DEF Sound, Segment
<1>4. /\ a.buf = Append(s.buf, r) /\ a.records = s.records + 1
      /\ a.open = s.open
    BY <1>2, BufferedSound DEF Buffered, Sound, Segment
<1>5. Range(a.buf) = Range(s.buf) \cup {r} /\ Len(a.buf) = Len(s.buf) + 1
    <2>1. /\ Len(a.buf) = Len(s.buf) + 1
          /\ DOMAIN a.buf = 1 .. (Len(s.buf) + 1)
          /\ DOMAIN s.buf = 1 .. Len(s.buf)
          /\ \A i \in 1 .. Len(s.buf) : a.buf[i] = s.buf[i]
          /\ a.buf[Len(s.buf) + 1] = r
        BY <1>3, <1>4
    <2> HIDE DEF a
    <2>2. Range(a.buf) \subseteq Range(s.buf) \cup {r}
        BY <1>3, <2>1 DEF Range
    <2>3. Range(s.buf) \subseteq Range(a.buf) /\ r \in Range(a.buf)
        BY <1>3, <2>1 DEF Range
    <2> QED
        BY <2>1, <2>2, <2>3
<1> HIDE DEF a
<1>6. a.records = Len(a.buf) <=> seg.records = Len(seg.buf)
    BY <1>2, <1>3, <1>4, <1>5
<1>7. Range(a.buf) \cap OnDisk(d) = {}
    BY <1>2, <1>5 DEF Good, All
<1>8. Good(a, d)
    BY <1>2, <1>4, <1>6, <1>7 DEF Good
<1> QED
    BY <1>2, <1>5, <1>8 DEF All, a, s, Accepting

LEMMA AutoFlushFaithful ==
    ASSUME Quiet, NEW seg, Sound(seg), NEW d \in Disk, Good(seg, d), NEW saved,
           NEW f \in AutoFlushed(seg, d, saved)
    PROVE  Faithful(seg, d, f[1])
<1>1. CASE Len(seg.buf) < AutoFlush
    <2>1. f = <<Result(seg, d, TRUE, saved), 0>>
        BY <1>1 DEF AutoFlushed
    <2> QED
        BY <2>1 DEF Result, Faithful
<1>2. CASE ~(Len(seg.buf) < AutoFlush)
    <2>1. PICK h \in FlushLocked(seg, d) :
              h.ok => f = <<Result(h.seg, h.disk, TRUE, saved \cup h.saved), 0>>
        BY <1>2 DEF AutoFlushed
    <2>2. Faithful(seg, d, h)
        BY FlushFaithful
    <2>3. f = <<Result(h.seg, h.disk, TRUE, saved \cup h.saved), 0>>
        BY <2>1, <2>2 DEF Faithful
    <2> QED
        BY <2>2, <2>3 DEF Faithful, Result
<1> QED
    BY <1>1, <1>2

\* A disk that a death can leave: nothing that was on it is gone, and nothing is
\* there that the process did not have.
Left(seg, d, e) ==
    /\ Sealed(e) /\ Disjoint(e)
    /\ OnDisk(d) \subseteq OnDisk(e) /\ OnDisk(e) \subseteq All(seg, d)

LEMMA WriteLeaves ==
    ASSUME NEW seg, NEW d \in Disk, Good(seg, d), NEW m \in Member,
           Range(m.recs) \subseteq Range(seg.buf)
    PROVE  Left(seg, d, Written(d, m))
<1> DEFINE e == Written(d, m)
<1>1. /\ e.file.present /\ e.closed = d.closed
      /\ ReadSegment(e.file.members) = ReadSegment(d.file.members) \cup Range(m.recs)
      /\ OnDisk(e) = OnDisk(d) \cup Range(m.recs)
    BY WrittenExact DEF Good
<1> HIDE DEF e
<1>2. Disjoint(e)
    <2>1. \A s \in d.closed : ReadSegment(s.members) \cap Range(m.recs) = {}
        BY DEF Good, OnDisk
    <2> QED
        BY <1>1, <2>1 DEF Good, Disjoint
<1> QED
    BY <1>1, <1>2 DEF Left, All, Sealed, e

LEMMA CrashedWritesLeave ==
    ASSUME NEW seg, Sound(seg), NEW d \in Disk, Good(seg, d),
           NEW e \in CrashedWrites(seg.buf, d)
    PROVE  Left(seg, d, e)
<1>1. seg.buf \in Seq(Record)
    BY DEF Sound, Segment
<1>2. CASE e = d
    BY <1>2 DEF Left, Good, All
<1>3. CASE e = Opened(d)
    <2>1. e.file.members = d.file.members /\ e.closed = d.closed /\ e.file.present
        BY <1>3 DEF Opened, Disk, File
    <2> QED
        BY <2>1 DEF Left, Good, All, Disjoint, OnDisk, Sealed
<1>4. CASE e = Written(d, Whole(seg.buf))
    BY <1>1, <1>4, WholeType, WriteLeaves DEF Whole
<1>5. CASE \E m \in TornMembers(seg.buf) : e = Written(d, m)
    BY <1>1, <1>5, TornType, TornIsPrefix, WriteLeaves
<1> QED
    BY <1>2, <1>3, <1>4, <1>5 DEF CrashedWrites, TornWrites

LEMMA CrashedRotateLeaves ==
    ASSUME NEW seg, Sound(seg), NEW d \in Disk, Good(seg, d),
           NEW e \in CrashedRotate(seg, d)
    PROVE  Left(seg, d, e)
<1>1. seg.buf \in Seq(Record)
    BY DEF Sound, Segment
<1> DEFINE w == IF seg.buf = <<>> THEN d ELSE Written(d, Whole(seg.buf))
<1>2. w \in Disk
    BY <1>1, WholeType, WrittenType
<1>3. Left(seg, d, w)
    <2>1. Left(seg, d, d)
        BY DEF Left, Good, All
    <2>2. Left(seg, d, Written(d, Whole(seg.buf)))
        BY <1>1, WholeType, WriteLeaves DEF Whole
    <2> QED
        BY <2>1, <2>2
<1>4. e = d \/ e \in CrashedWrites(seg.buf, d) \/ e \in UnlabelledFiles(w, seg)
    BY DEF CrashedRotate
<1> HIDE DEF w
<1>5. CASE e = d
    BY <1>5 DEF Left, Good, All
<1>6. CASE e \in CrashedWrites(seg.buf, d)
    BY <1>6, CrashedWritesLeave
<1>7. CASE e \in UnlabelledFiles(w, seg)
    <2>1. OnDisk(e) = OnDisk(w) /\ Disjoint(e) /\ Sealed(e)
        BY <1>2, <1>3, <1>7, MovedExact DEF Left
    <2> QED
        BY <1>3, <2>1 DEF Left
<1> QED
    BY <1>4, <1>5, <1>6, <1>7

LEMMA RecoveredExact ==
    ASSUME NEW d \in Disk, Disjoint(d), Sealed(d)
    PROVE  /\ \A e \in Recovered(d) \cup HalfRecovered(d) :
                  OnDisk(e) = OnDisk(d) /\ Disjoint(e) /\ Sealed(e)
           /\ \A e \in Recovered(d) : Clean(e) /\ e.file = NoFile
<1>1. ASSUME NEW info, NEW e \in ClosedFiles(d, info) \cup UnlabelledFiles(d, info)
      PROVE  /\ OnDisk(e) = OnDisk(d) /\ Disjoint(e) /\ Sealed(e)
             /\ Clean(e) /\ e.file = NoFile
    BY MovedExact
<1>2. ASSUME NEW e \in Recovered(d)
      PROVE  /\ OnDisk(e) = OnDisk(d) /\ Disjoint(e) /\ Sealed(e)
             /\ Clean(e) /\ e.file = NoFile
    BY <1>1, <1>2 DEF Recovered
<1>3. ASSUME NEW e \in HalfRecovered(d)
      PROVE  OnDisk(e) = OnDisk(d) /\ Disjoint(e) /\ Sealed(e)
    <2>1. e = d \/ \E info : e \in UnlabelledFiles(d, info)
        BY DEF HalfRecovered
    <2> QED
        BY <1>1, <2>1
<1> QED
    BY <1>2, <1>3

-----------------------------------------------------------------------------
(* The invariant.                                                          *)

LogInv ==
    /\ today <= MaxDay
    /\ \A k \in Kinds : Sealed(disk[k]) /\ Disjoint(disk[k])
    /\ IF up THEN \A k \in Kinds : Good(active[k], disk[k])
             ELSE \A k \in Kinds : active[k] = NoSegment
    /\ \A k \in Kinds : \A x \in All(active[k], disk[k]) : x.id <= offered
    /\ \A j, k \in Kinds :
          j # k => All(active[j], disk[j]) \cap All(active[k], disk[k]) = {}

LEMMA LogStart ==
    ASSUME IInv, LogInv, NEW k \in Kinds
    PROVE  /\ Sound(active[k]) /\ disk[k] \in Disk /\ today \in Nat
           /\ Sealed(disk[k]) /\ Disjoint(disk[k])
           /\ up => Good(active[k], disk[k])
BY IInvSound DEF LogInv, IInv, TypeOK

\* The log as a union over the kinds.
LEMMA LogByKind ==
    /\ InMemory \cup Stored = UNION {All(active[k], disk[k]) : k \in Kinds}
    /\ InMemory' \cup Stored' = UNION {All(active'[k], disk'[k]) : k \in Kinds}
BY DEF InMemory, Stored, All

LEMMA NothingInMemory ==
    /\ Range(NoSegment.buf) = {}
    /\ \A d : All(NoSegment, d) = OnDisk(d)
    /\ \A d : Clean(d) /\ Sealed(d) /\ Disjoint(d) /\ d.file.members = <<>>
                  => Good(NoSegment, d)
<1> DEFINE none == NoSegment
<1>1. /\ none.buf = <<>> /\ none.records = 0 /\ Range(none.buf) = {}
      /\ Len(none.buf) = 0
    BY EmptyFile DEF NoSegment
<1> HIDE DEF none
<1>2. ReadSegment(<<>>) = {}
    BY EmptyFile
<1>3. \A d : All(none, d) = OnDisk(d)
    BY <1>1 DEF All
<1>4. ASSUME NEW d, Clean(d), Sealed(d), Disjoint(d), d.file.members = <<>>
      PROVE  Good(none, d)
    BY <1>1, <1>2, <1>4 DEF Good
<1> QED
    BY <1>1, <1>3, <1>4 DEF none

\* A closed store has nothing in memory, an open one nothing that is on the disk
\* too.
LEMMA MemoryApart ==
    ASSUME LogInv
    PROVE  /\ InMemory \cap Stored = {}
           /\ ~up => InMemory = {}
<1>1. CASE up
    <2>1. ASSUME NEW j \in Kinds, NEW k \in Kinds
          PROVE  Range(active[j].buf) \cap OnDisk(disk[k]) = {}
        BY <1>1 DEF LogInv, Good, All
    <2> QED
        BY <1>1, <2>1 DEF InMemory, Stored
<1>2. CASE ~up
    <2>1. \A k \in Kinds : Range(active[k].buf) = {}
        BY <1>2, NothingInMemory DEF LogInv
    <2> QED
        BY <2>1 DEF InMemory
<1> QED
    BY <1>1, <1>2

\* Records never offered before.
Fresh(X) == \A x \in X : x \in Record /\ offered < x.id /\ x.id <= offered'

\* The part of the invariant that speaks of all kinds, when kind k may gain the
\* records X.
LEMMA Separate ==
    ASSUME IInv, LogInv, offered' \in Nat, offered <= offered',
           NEW k, NEW X, Fresh(X),
           \A j \in Kinds : All(active'[j], disk'[j]) \subseteq
                 All(active[j], disk[j]) \cup (IF j = k THEN X ELSE {})
    PROVE  /\ \A j \in Kinds : \A x \in All(active'[j], disk'[j]) : x.id <= offered'
           /\ \A i, j \in Kinds :
                 i # j => All(active'[i], disk'[i]) \cap All(active'[j], disk'[j]) = {}
<1> DEFINE old(j) == All(active[j], disk[j])
           new(j) == All(active'[j], disk'[j])
           gain(j) == IF j = k THEN X ELSE {}
<1>1. ASSUME NEW j \in Kinds, NEW x \in old(j)
      PROVE  x \in Record /\ x.id \in Nat /\ x.id <= offered
    <2>1. Range(active[j].buf) \subseteq Record
        BY ElementOfSeq DEF IInv, TypeOK, Segment, Range
    <2>2. OnDisk(disk[j]) \subseteq Record
        BY ReadSegmentType DEF IInv, TypeOK, Disk, File, ClosedSegment, OnDisk
    <2>3. x.id <= offered
        BY DEF LogInv
    <2> QED
        BY <2>1, <2>2, <2>3 DEF All, Record
<1>2. \A x \in X : x.id \in Nat /\ offered < x.id /\ x.id <= offered'
    BY DEF Fresh, Record
<1>3. \A i, j \in Kinds : i # j => old(i) \cap old(j) = {}
    BY DEF LogInv
<1>4. \A j \in Kinds : new(j) \subseteq old(j) \cup gain(j)
    OBVIOUS
<1>5. offered \in Nat
    BY DEF IInv, TypeOK
<1>6. \A j \in Kinds : gain(j) \subseteq X
    OBVIOUS
<1>7. \A i, j \in Kinds : i # j => gain(i) \cap gain(j) = {}
    OBVIOUS
<1> HIDE DEF old, new, gain
<1>8. \A j \in Kinds : \A x \in new(j) : x.id <= offered'
    BY <1>1, <1>2, <1>4, <1>5, <1>6
<1>9. \A j \in Kinds : old(j) \cap X = {}
    BY <1>1, <1>2, <1>5
<1>10. \A i, j \in Kinds : i # j => new(i) \cap new(j) = {}
    BY <1>3, <1>4, <1>6, <1>7, <1>9
<1> QED
    BY <1>8, <1>10 DEF new

-----------------------------------------------------------------------------
(* Steps of a running store.                                               *)

LEMMA RunningStep ==
    ASSUME IInv, LogInv, up, up' = up, today' = today,
           offered' \in Nat, offered <= offered',
           NEW k, NEW X, Fresh(X), X # {} => k \in Kinds,
           \A j \in Kinds :
               /\ Good(active'[j], disk'[j])
               /\ All(active'[j], disk'[j]) =
                      All(active[j], disk[j]) \cup (IF j = k THEN X ELSE {})
               /\ OnDisk(disk[j]) \subseteq OnDisk(disk'[j])
    PROVE  /\ LogInv'
           /\ Stored \subseteq Stored'
           /\ InMemory' \cup Stored' = (InMemory \cup Stored) \cup X
<1>1. Stored \subseteq Stored'
    BY DEF Stored
<1>2. InMemory' \cup Stored' = (InMemory \cup Stored) \cup X
    <2>1. UNION {All(active'[j], disk'[j]) : j \in Kinds}
              = (UNION {All(active[j], disk[j]) : j \in Kinds}) \cup X
        <3> DEFINE old(j) == All(active[j], disk[j])
                   new(j) == All(active'[j], disk'[j])
        <3>1. \A j \in Kinds : new(j) = old(j) \cup (IF j = k THEN X ELSE {})
            OBVIOUS
        <3> HIDE DEF old, new
        <3>2. UNION {new(j) : j \in Kinds} = (UNION {old(j) : j \in Kinds}) \cup X
            <4>1. ASSUME NEW j \in Kinds
                  PROVE  new(j) \subseteq old(j) \cup X /\ old(j) \subseteq new(j)
                BY <3>1
            <4>2. ASSUME NEW x \in X
                  PROVE  \E j \in Kinds : x \in new(j)
                <5>1. k \in Kinds /\ x \in new(k)
                    BY <3>1
                <5> QED
                    BY <5>1
            <4> QED
                BY <4>1, <4>2
        <3> QED
            BY <3>2 DEF old, new
    <2> QED
        BY <2>1, LogByKind
<1>3. /\ \A j \in Kinds : \A x \in All(active'[j], disk'[j]) : x.id <= offered'
      /\ \A i, j \in Kinds :
            i # j => All(active'[i], disk'[i]) \cap All(active'[j], disk'[j]) = {}
    <2>1. \A j \in Kinds : All(active'[j], disk'[j]) \subseteq
                All(active[j], disk[j]) \cup (IF j = k THEN X ELSE {})
        OBVIOUS
    <2> QED
        BY ONLY IInv, LogInv, offered' \in Nat, offered <= offered', Fresh(X), <2>1, Separate
<1>4. \A j \in Kinds : Sealed(disk'[j]) /\ Disjoint(disk'[j])
    BY DEF Good
<1>5. LogInv'
    BY <1>3, <1>4 DEF LogInv
<1> QED
    BY <1>1, <1>2, <1>5

\* What every step must establish.
LogStep == LogInv' /\ [Log!Next]_(Log!logVars)

LEMMA AppendLogs ==
    ASSUME Quiet, IInv, LogInv, NEW k \in Kinds, NEW ts \in Timestamps,
           AppendRecord(k, ts)
    PROVE  LogStep
<1> DEFINE r == NextRecord(ts)
<1>1. /\ r \in Record /\ r.id = offered + 1 /\ offered \in Nat
      /\ ts \in 1 .. MaxDay
    BY ConstantsAssumption DEF IInv, TypeOK, NextRecord, Timestamps, Record, LogInv
<1>2. /\ up /\ up' = up /\ today' = today /\ offered' = offered + 1
      /\ removed' = removed /\ disk \in [Kinds -> Disk] /\ active \in [Kinds -> Segment]
    BY DEF AppendRecord, IInv, TypeOK
<1>3. Refused(k, r) \/ Taken(k, r)
    BY DEF AppendRecord
<1>4. \A j \in Kinds : Good(active[j], disk[j]) /\ Sound(active[j])
                           /\ disk[j] \in Disk /\ today \in Nat
    BY <1>2, LogStart
<1>5. r \notin All(active[k], disk[k])
    BY <1>1 DEF LogInv
<1>6. r = [id |-> offered', ts |-> ts]
    BY <1>2 DEF NextRecord
<1> HIDE DEF r
<1>7. \A q \in RotatedFor(active[k], disk[k], r) :
          /\ Faithful(active[k], disk[k], q)
          /\ Sound(q.seg) /\ q.disk \in Disk
    <2> SUFFICES ASSUME NEW q \in RotatedFor(active[k], disk[k], r)
                 PROVE  /\ Faithful(active[k], disk[k], q)
                        /\ Sound(q.seg) /\ q.disk \in Disk
        OBVIOUS
    <2>1. Faithful(active[k], disk[k], q)
        <3>1. CASE q = Result(active[k], disk[k], TRUE, {})
            BY <1>4, <3>1 DEF Result, Faithful
        <3>2. CASE q \in RotateLocked(active[k], disk[k])
            BY <1>4, <3>2, RotateFaithful
        <3> QED
            BY <3>1, <3>2 DEF RotatedFor
    <2> QED
        BY <1>4, <2>1, RotatedForOK DEF ResultOK
<1>8. PICK q \in RotatedFor(active[k], disk[k], r) :
          \E f \in AutoFlushed(Accepting(q.seg, r), q.disk, q.saved) :
              /\ active' = [active EXCEPT ![k] = f[1].seg]
              /\ disk' = [disk EXCEPT ![k] = f[1].disk]
    BY <1>3, <1>7 DEF Refused, Taken, Faithful
<1>9. PICK f \in AutoFlushed(Accepting(q.seg, r), q.disk, q.saved) :
          /\ active' = [active EXCEPT ![k] = f[1].seg]
          /\ disk' = [disk EXCEPT ![k] = f[1].disk]
    BY <1>8
<1>10. /\ Good(q.seg, q.disk) /\ Sound(q.seg) /\ q.disk \in Disk
       /\ All(q.seg, q.disk) = All(active[k], disk[k])
       /\ OnDisk(disk[k]) \subseteq OnDisk(q.disk)
    BY <1>7 DEF Faithful
<1>11. /\ Good(Accepting(q.seg, r), q.disk)
       /\ All(Accepting(q.seg, r), q.disk) = All(active[k], disk[k]) \cup {r}
       /\ Sound(Accepting(q.seg, r))
    BY <1>1, <1>5, <1>10, AcceptingGood, AcceptingSound
<1>12. Faithful(Accepting(q.seg, r), q.disk, f[1])
    BY <1>10, <1>11, AutoFlushFaithful
<1>13. /\ Good(active'[k], disk'[k])
       /\ All(active'[k], disk'[k]) = All(active[k], disk[k]) \cup {r}
       /\ OnDisk(disk[k]) \subseteq OnDisk(disk'[k])
    <2>1. active'[k] = f[1].seg /\ disk'[k] = f[1].disk
        BY <1>2, <1>9
    <2> QED
        BY <1>10, <1>11, <1>12, <2>1 DEF Faithful
<1>14. \A j \in Kinds : j # k => active'[j] = active[j] /\ disk'[j] = disk[j]
    BY <1>2, <1>9
<1>15. \A j \in Kinds :
           /\ Good(active'[j], disk'[j])
           /\ All(active'[j], disk'[j]) =
                  All(active[j], disk[j]) \cup (IF j = k THEN {r} ELSE {})
           /\ OnDisk(disk[j]) \subseteq OnDisk(disk'[j])
    BY <1>4, <1>13, <1>14
<1>16. Fresh({r})
    BY <1>1, <1>2 DEF Fresh
<1>17. /\ LogInv' /\ Stored \subseteq Stored'
       /\ InMemory' \cup Stored' = (InMemory \cup Stored) \cup {r}
    <2>1. offered' \in Nat /\ offered <= offered'
        BY <1>1, <1>2
    <2> HIDE DEF LogInv
    <2> QED
        BY <1>2, <1>15, <1>16, <2>1, RunningStep
<1>18. Log!Persist((InMemory \ Stored) \cup {[id |-> offered', ts |-> ts]})
    BY <1>6, <1>17 DEF Log!Persist
<1>19. Log!Take
    BY <1>1, <1>2, <1>18 DEF Log!Take
<1> QED
    BY <1>17, <1>19 DEF LogStep, Log!Next

LEMMA ForEachKindLogs ==
    ASSUME IInv, LogInv, NEW results, ForEachKind(results),
           \A k \in Kinds : \A r \in results[k] : Faithful(active[k], disk[k], r)
    PROVE  LogStep
<1>1. /\ up /\ up' = up /\ today' = today /\ offered' = offered /\ removed' = removed
      /\ offered \in Nat
    BY DEF ForEachKind, IInv, TypeOK
<1>2. PICK r \in [Kinds -> UNION {results[k] : k \in Kinds}] :
          /\ \A k \in Kinds : r[k] \in results[k]
          /\ active' = [k \in Kinds |-> r[k].seg]
          /\ disk' = [k \in Kinds |-> r[k].disk]
    BY DEF ForEachKind
<1>3. \A j \in Kinds :
          /\ Good(active'[j], disk'[j])
          /\ All(active'[j], disk'[j]) = All(active[j], disk[j])
          /\ OnDisk(disk[j]) \subseteq OnDisk(disk'[j])
    BY <1>2 DEF Faithful
<1>4. PICK k : TRUE
    OBVIOUS
<1>5. Fresh({}) /\ offered' \in Nat /\ offered <= offered'
    BY <1>1 DEF Fresh
<1>6. /\ LogInv' /\ Stored \subseteq Stored'
      /\ InMemory' \cup Stored' = (InMemory \cup Stored) \cup {}
    <2>1. \A j \in Kinds :
              All(active'[j], disk'[j]) =
                  All(active[j], disk[j]) \cup (IF j = k THEN {} ELSE {})
        BY <1>3
    <2> HIDE DEF LogInv
    <2> QED
        BY <1>1, <1>3, <1>5, <2>1, RunningStep
<1>7. Log!Flush
    BY <1>1, <1>6 DEF Log!Flush, Log!Persist
<1> QED
    BY <1>6, <1>7 DEF LogStep, Log!Next

LEMMA FlushLogs ==
    ASSUME Quiet, IInv, LogInv, Flush
    PROVE  LogStep
<1> DEFINE results == [k \in Kinds |-> FlushLocked(active[k], disk[k])]
<1>1. ForEachKind(results) /\ up
    BY DEF Flush, ForEachKind
<1>2. ASSUME NEW k \in Kinds, NEW r \in results[k]
      PROVE  Faithful(active[k], disk[k], r)
    BY <1>1, LogStart, FlushFaithful
<1> HIDE DEF results
<1> QED
    BY <1>1, <1>2, ForEachKindLogs

LEMMA RotateLogs ==
    ASSUME Quiet, IInv, LogInv, Rotate
    PROVE  LogStep
<1> DEFINE results == [k \in Kinds |-> RotateLocked(active[k], disk[k])]
<1>1. ForEachKind(results) /\ up
    BY DEF Rotate, ForEachKind
<1>2. ASSUME NEW k \in Kinds, NEW r \in results[k]
      PROVE  Faithful(active[k], disk[k], r)
    BY <1>1, LogStart, RotateFaithful
<1> HIDE DEF results
<1> QED
    BY <1>1, <1>2, ForEachKindLogs

-----------------------------------------------------------------------------
(* Steps after which the store is not open.                                *)

LEMMA StoppedStep ==
    ASSUME IInv, LogInv, up' = FALSE, today' = today,
           active' = [k \in Kinds |-> NoSegment],
           offered' \in Nat, offered <= offered', NEW k, NEW X, Fresh(X),
           \A j \in Kinds :
               /\ Sealed(disk'[j]) /\ Disjoint(disk'[j])
               /\ OnDisk(disk[j]) \subseteq OnDisk(disk'[j])
               /\ OnDisk(disk'[j]) \subseteq
                      All(active[j], disk[j]) \cup (IF j = k THEN X ELSE {})
    PROVE  /\ LogInv'
           /\ InMemory' = {} /\ Stored \subseteq Stored'
           /\ Stored' \subseteq (InMemory \cup Stored) \cup X
<1>1. \A j \in Kinds : /\ active'[j] = NoSegment
                       /\ All(active'[j], disk'[j]) = OnDisk(disk'[j])
    BY NothingInMemory
<1>2. /\ \A j \in Kinds : \A x \in All(active'[j], disk'[j]) : x.id <= offered'
      /\ \A i, j \in Kinds :
            i # j => All(active'[i], disk'[i]) \cap All(active'[j], disk'[j]) = {}
    <2>1. \A j \in Kinds : All(active'[j], disk'[j]) \subseteq
                All(active[j], disk[j]) \cup (IF j = k THEN X ELSE {})
        BY <1>1
    <2> QED
        BY ONLY IInv, LogInv, offered' \in Nat, offered <= offered', Fresh(X), <2>1, Separate
<1>3. LogInv'
    BY <1>1, <1>2 DEF LogInv
<1>4. InMemory' = {}
    BY <1>1, NothingInMemory DEF InMemory
<1>5. Stored \subseteq Stored'
    BY DEF Stored
<1>6. \A j \in Kinds : OnDisk(disk'[j]) \subseteq (InMemory \cup Stored) \cup X
    <2>1. \A j \in Kinds : All(active[j], disk[j]) \subseteq InMemory \cup Stored
        BY LogByKind
    <2> QED
        BY <2>1
<1>7. Stored' \subseteq (InMemory \cup Stored) \cup X
    BY <1>6 DEF Stored
<1> QED
    BY <1>3, <1>4, <1>5, <1>7

\* The process dies, or an Open that fails does, between two appends.
LEMMA StopLogs ==
    ASSUME IInv, LogInv, up' = FALSE, today' = today,
           active' = [k \in Kinds |-> NoSegment],
           offered' = offered, removed' = removed,
           \A j \in Kinds : Left(active[j], disk[j], disk'[j])
    PROVE  LogStep
<1>1. Fresh({}) /\ offered' \in Nat /\ offered <= offered'
    BY DEF Fresh, IInv, TypeOK
<1>2. PICK k : TRUE
    OBVIOUS
<1>3. \A j \in Kinds :
          /\ Sealed(disk'[j]) /\ Disjoint(disk'[j])
          /\ OnDisk(disk[j]) \subseteq OnDisk(disk'[j])
          /\ OnDisk(disk'[j]) \subseteq
                 All(active[j], disk[j]) \cup (IF j = k THEN {} ELSE {})
    BY DEF Left
<1>4. /\ LogInv' /\ InMemory' = {} /\ Stored \subseteq Stored'
      /\ Stored' \subseteq (InMemory \cup Stored) \cup {}
    <2> HIDE DEF LogInv, IInv
    <2> QED
        BY <1>1, <1>3, StoppedStep
<1>5. Log!Crash
    BY <1>4 DEF Log!Crash, Log!Lose
<1> QED
    BY <1>4, <1>5 DEF LogStep, Log!Next

LEMMA NothingLeft ==
    ASSUME IInv, LogInv, NEW k \in Kinds
    PROVE  Left(active[k], disk[k], disk[k])
BY LogStart DEF Left, All

LEMMA DiesWhileLogs ==
    ASSUME IInv, LogInv, NEW done, NEW interrupted, DiesWhile(done, interrupted),
           \A k \in Kinds :
               /\ \A r \in done[k] : Faithful(active[k], disk[k], r)
               /\ \A e \in interrupted[k] : Left(active[k], disk[k], e)
    PROVE  LogStep
<1>1. ASSUME NEW k \in Kinds PROVE Left(active[k], disk[k], disk'[k])
    <2>1. CASE disk'[k] = disk[k]
        BY <2>1, NothingLeft
    <2>2. CASE disk'[k] \in interrupted[k]
        BY <2>2
    <2>3. CASE \E r \in done[k] : disk'[k] = r.disk
        <3>1. PICK r \in done[k] : disk'[k] = r.disk
            BY <2>3
        <3>2. /\ Sealed(r.disk) /\ Disjoint(r.disk)
              /\ OnDisk(disk[k]) \subseteq OnDisk(r.disk)
              /\ All(r.seg, r.disk) = All(active[k], disk[k])
            BY DEF Faithful, Good
        <3> QED
            BY <3>1, <3>2 DEF Left, All
    <2> QED
        BY <2>1, <2>2, <2>3 DEF DiesWhile
<1>2. /\ up' = FALSE /\ today' = today /\ offered' = offered /\ removed' = removed
      /\ active' = [k \in Kinds |-> NoSegment]
    BY DEF DiesWhile, Dies
<1> HIDE DEF LogInv, IInv
<1> QED
    BY <1>1, <1>2, StopLogs

LEMMA CrashInFlushLogs ==
    ASSUME Quiet, IInv, LogInv, CrashInFlush
    PROVE  LogStep
<1> DEFINE done == [k \in Kinds |-> FlushLocked(active[k], disk[k])]
           interrupted == [k \in Kinds |-> CrashedWrites(active[k].buf, disk[k])]
<1>1. DiesWhile(done, interrupted) /\ up
    BY DEF CrashInFlush, DiesWhile
<1>2. ASSUME NEW k \in Kinds, NEW r \in done[k]
      PROVE  Faithful(active[k], disk[k], r)
    BY <1>1, LogStart, FlushFaithful
<1>3. ASSUME NEW k \in Kinds, NEW e \in interrupted[k]
      PROVE  Left(active[k], disk[k], e)
    BY <1>1, LogStart, CrashedWritesLeave
<1> HIDE DEF done, interrupted
<1> QED
    BY <1>1, <1>2, <1>3, DiesWhileLogs

LEMMA CrashInRotateLogs ==
    ASSUME Quiet, IInv, LogInv, CrashInRotate
    PROVE  LogStep
<1> DEFINE done == [k \in Kinds |-> RotateLocked(active[k], disk[k])]
           interrupted == [k \in Kinds |-> CrashedRotate(active[k], disk[k])]
<1>1. DiesWhile(done, interrupted) /\ up
    BY DEF CrashInRotate, DiesWhile
<1>2. ASSUME NEW k \in Kinds, NEW r \in done[k]
      PROVE  Faithful(active[k], disk[k], r)
    BY <1>1, LogStart, RotateFaithful
<1>3. ASSUME NEW k \in Kinds, NEW e \in interrupted[k]
      PROVE  Left(active[k], disk[k], e)
    BY <1>1, LogStart, CrashedRotateLeaves
<1> HIDE DEF done, interrupted
<1> QED
    BY <1>1, <1>2, <1>3, DiesWhileLogs

LEMMA CrashLogs ==
    ASSUME IInv, LogInv, Crash
    PROVE  LogStep
<1>1. /\ up' = FALSE /\ today' = today /\ offered' = offered /\ removed' = removed
      /\ active' = [k \in Kinds |-> NoSegment] /\ disk' = disk
    BY DEF Crash, Dies
<1>2. \A k \in Kinds : Left(active[k], disk[k], disk'[k])
    BY <1>1, NothingLeft
<1> HIDE DEF LogInv, IInv
<1> QED
    BY <1>1, <1>2, StopLogs

LEMMA OpenFailsLogs ==
    ASSUME IInv, LogInv, NEW c \in Kinds, OpenFails(c)
    PROVE  LogStep
<1>1. /\ up' = FALSE /\ ~up /\ today' = today /\ offered' = offered
      /\ removed' = removed /\ active' = active
    BY DEF OpenFails, history
<1>2. active' = [k \in Kinds |-> NoSegment]
    BY <1>1 DEF LogInv, IInv, TypeOK
<1>3. ASSUME NEW k \in Kinds PROVE Left(active[k], disk[k], disk'[k])
    <2>1. disk[k] \in Disk /\ Disjoint(disk[k]) /\ Sealed(disk[k])
        BY LogStart
    <2>2. disk'[k] = disk[k] \/ disk'[k] \in Recovered(disk[k]) \cup HalfRecovered(disk[k])
        BY DEF OpenFails
    <2>3. CASE disk'[k] = disk[k]
        BY <2>3, NothingLeft
    <2>4. CASE disk'[k] \in Recovered(disk[k]) \cup HalfRecovered(disk[k])
        BY <2>1, <2>4, RecoveredExact DEF Left, All
    <2> QED
        BY <2>2, <2>3, <2>4
<1> HIDE DEF LogInv, IInv
<1> QED
    BY <1>1, <1>2, <1>3, StopLogs

LEMMA OpenLogs ==
    ASSUME IInv, LogInv, Open
    PROVE  LogStep
<1>1. /\ up' = TRUE /\ ~up /\ today' = today /\ offered' = offered
      /\ removed' = removed /\ active' = [k \in Kinds |-> NoSegment]
    BY DEF Open, history
<1>2. ASSUME NEW k \in Kinds
      PROVE  /\ active[k] = NoSegment /\ active'[k] = NoSegment
             /\ Good(NoSegment, disk'[k]) /\ OnDisk(disk'[k]) = OnDisk(disk[k])
    <2>1. disk[k] \in Disk /\ Disjoint(disk[k]) /\ Sealed(disk[k])
        BY LogStart
    <2>2. /\ Clean(disk'[k]) /\ Sealed(disk'[k]) /\ Disjoint(disk'[k])
          /\ disk'[k].file.members = <<>> /\ OnDisk(disk'[k]) = OnDisk(disk[k])
        <3>1. CASE Leftover(k)
            BY <2>1, <3>1, RecoveredExact DEF Open, NoFile
        <3>2. CASE ~Leftover(k)
            <4>1. disk'[k] = disk[k] /\ disk[k].file.members = <<>>
                BY <2>1, <3>2 DEF Open, Leftover, Sealed
            <4> QED
                BY <2>1, <4>1, EmptyFile DEF Clean
        <3> QED
            BY <3>1, <3>2
    <2> QED
        BY <1>1, <2>2, NothingInMemory DEF LogInv
<1>3. \A k \in Kinds : All(active'[k], disk'[k]) = All(active[k], disk[k])
    BY <1>2 DEF All
<1>4. \A k \in Kinds : Sealed(disk'[k]) /\ Disjoint(disk'[k])
    BY <1>2 DEF Good
<1>5. LogInv'
    BY <1>1, <1>2, <1>3, <1>4 DEF LogInv
<1>6. InMemory' = InMemory /\ Stored' = Stored
    BY <1>2 DEF InMemory, Stored
<1> QED
    BY <1>1, <1>5, <1>6 DEF LogStep, Log!logVars

LEMMA CrashInAppendLogs ==
    ASSUME Quiet, IInv, LogInv, NEW k \in Kinds, NEW ts \in Timestamps,
           CrashInAppend(k, ts)
    PROVE  LogStep
<1> DEFINE r == NextRecord(ts)
           rotated == {q \in RotatedFor(active[k], disk[k], r) : q.ok}
           flushing(q) == IF Len(Accepting(q.seg, r).buf) < AutoFlush
                            THEN {} ELSE CrashedWrites(Accepting(q.seg, r).buf, q.disk)
           rotating == IF NeedsRotation(active[k], r)
                         THEN CrashedRotate(active[k], disk[k]) ELSE {}
           LeftBy(e) == /\ Sealed(e) /\ Disjoint(e)
                        /\ OnDisk(disk[k]) \subseteq OnDisk(e)
                        /\ OnDisk(e) \subseteq All(active[k], disk[k]) \cup {r}
<1>1. PICK d \in rotating \cup UNION {flushing(q) : q \in rotated} :
          disk' = [disk EXCEPT ![k] = d]
    BY DEF CrashInAppend
<1>2. /\ r \in Record /\ r.id = offered + 1 /\ offered \in Nat /\ ts \in 1 .. MaxDay
      /\ r = [id |-> offered + 1, ts |-> ts]
    BY ConstantsAssumption DEF IInv, TypeOK, NextRecord, Timestamps, Record, LogInv
<1>3. /\ up /\ up' = FALSE /\ today' = today /\ offered' = offered + 1
      /\ removed' = removed /\ active' = [j \in Kinds |-> NoSegment]
      /\ disk \in [Kinds -> Disk]
    BY DEF CrashInAppend, Dies, IInv, TypeOK
<1>4. /\ Good(active[k], disk[k]) /\ Sound(active[k])
      /\ disk[k] \in Disk /\ today \in Nat
    BY <1>3, LogStart
<1>5. r \notin All(active[k], disk[k])
    BY <1>2 DEF LogInv
<1> HIDE DEF r
<1>6. ASSUME NEW e \in rotating PROVE LeftBy(e)
    BY <1>4, CrashedRotateLeaves DEF Left
<1>7. ASSUME NEW q \in rotated, NEW e \in flushing(q) PROVE LeftBy(e)
    <2> DEFINE a == Accepting(q.seg, r)
    <2>1. Faithful(active[k], disk[k], q)
        <3>1. CASE q = Result(active[k], disk[k], TRUE, {})
            BY <1>4, <3>1 DEF Result, Faithful
        <3>2. CASE q \in RotateLocked(active[k], disk[k])
            BY <1>4, <3>2, RotateFaithful
        <3> QED
            BY <3>1, <3>2 DEF RotatedFor
    <2>2. Sound(q.seg) /\ q.disk \in Disk
        BY <1>4, RotatedForOK DEF ResultOK
    <2>3. /\ Good(a, q.disk) /\ Sound(a)
          /\ All(a, q.disk) = All(active[k], disk[k]) \cup {r}
        BY <1>2, <1>5, <2>1, <2>2, AcceptingGood, AcceptingSound DEF Faithful
    <2>4. e \in CrashedWrites(a.buf, q.disk)
        OBVIOUS
    <2> HIDE DEF a, rotated, flushing
    <2>5. Left(a, q.disk, e)
        BY <2>2, <2>3, <2>4, CrashedWritesLeave
    <2> QED
        BY <2>1, <2>3, <2>5 DEF Left, Faithful
<1> HIDE DEF rotated, flushing, rotating
<1>8. LeftBy(d)
    BY <1>1, <1>6, <1>7
<1>9. disk'[k] = d /\ \A j \in Kinds : j # k => disk'[j] = disk[j]
    BY <1>1, <1>3
<1>10. \A j \in Kinds :
           /\ Sealed(disk'[j]) /\ Disjoint(disk'[j])
           /\ OnDisk(disk[j]) \subseteq OnDisk(disk'[j])
           /\ OnDisk(disk'[j]) \subseteq
                  All(active[j], disk[j]) \cup (IF j = k THEN {r} ELSE {})
    BY <1>8, <1>9, NothingLeft DEF Left
<1>11. Fresh({r}) /\ offered' \in Nat /\ offered <= offered'
    BY <1>2, <1>3 DEF Fresh
<1>12. /\ LogInv' /\ InMemory' = {} /\ Stored \subseteq Stored'
       /\ Stored' \subseteq (InMemory \cup Stored) \cup {r}
    <2> HIDE DEF LogInv, IInv
    <2> QED
        BY <1>3, <1>10, <1>11, StoppedStep
<1>13. Log!Lose((InMemory \ Stored) \cup {[id |-> offered', ts |-> ts]})
    BY <1>2, <1>3, <1>12 DEF Log!Lose
<1>14. Log!CrashWhileTaking
    BY <1>2, <1>3, <1>13 DEF Log!CrashWhileTaking
<1> QED
    BY <1>12, <1>14 DEF LogStep, Log!Next

-----------------------------------------------------------------------------
(* Deletion.                                                               *)

\* One kind: what a removal leaves comes from segments that it spared, so the
\* records of the others are gone.
LEMMA RemovalExact ==
    ASSUME IInv, LogInv, NEW gone \in SUBSET ListClosed,
           NEW stuck \in SUBSET ListClosed, NEW torn \in SUBSET ListClosed,
           (gone \cup torn) \cap stuck = {}, RemoveSegments(gone, stuck, torn),
           NEW k \in Kinds
    PROVE  /\ disk'[k].file = disk[k].file
           /\ Disjoint(disk'[k]) /\ OnDisk(disk'[k]) \subseteq OnDisk(disk[k])
           /\ \A s \in disk[k].closed :
                 <<k, s>> \in gone \cup torn =>
                     ReadSegment(s.members) \cap OnDisk(disk'[k]) = {}
<1> DEFINE of(xs) == {x[2] : x \in {y \in xs : y[1] = k}}
           half(s) == [s EXCEPT !.meta = NoSidecar]
           spared == disk[k].closed \ (of(gone) \cup of(stuck) \cup of(torn))
           stray == disk[k].stray
                      \cup {[date |-> s.date, seq |-> s.seq, meta |-> s.meta]
                              : s \in of(torn)}
           closed == spared \cup {half(s) : s \in of(stuck)}
<1>1. disk[k] \in Disk /\ Disjoint(disk[k])
    BY LogStart
<1>2. \A xs \in SUBSET ListClosed : \A s : s \in of(xs) <=> <<k, s>> \in xs
    <2> SUFFICES ASSUME NEW xs \in SUBSET ListClosed, NEW s
                 PROVE  s \in of(xs) <=> <<k, s>> \in xs
        OBVIOUS
    <2>1. \A x \in xs : x = <<x[1], x[2]>>
        BY DEF ListClosed
    <2> QED
        BY <2>1
<1>3. of(stuck) \subseteq disk[k].closed
    BY DEF ListClosed
<1>4. disk'[k] = [disk[k] EXCEPT !.closed = closed, !.stray = stray]
    BY DEF RemoveSegments, AfterRemoval
<1>5. disk'[k].file = disk[k].file /\ disk'[k].closed = closed
    <2> HIDE DEF closed, stray
    <2> QED
        BY <1>1, <1>4 DEF Disk
<1>6. \A s \in of(stuck) : half(s).members = s.members
    BY <1>1, <1>3 DEF Disk, ClosedSegment
<1>7. of(gone) \cap of(stuck) = {} /\ of(torn) \cap of(stuck) = {}
    BY <1>2
<1> HIDE DEF of, half, stray
<1> DEFINE read(s) == ReadSegment(s.members)
           kept == spared \cup of(stuck)
\* Every segment left has the members of one that was spared, or kept its data;
\* two that are different come from two that are different.
<1>8. /\ kept \subseteq disk[k].closed
      /\ kept \cap (of(gone) \cup of(torn)) = {}
    BY <1>3, <1>7
<1>9. \A c \in closed : \E s \in kept :
          /\ c = s \/ c = half(s)
          /\ c.members = s.members
          /\ s \in spared => c = s
          /\ s \notin spared => c = half(s)
    <2> SUFFICES ASSUME NEW c \in closed
                 PROVE  \E s \in kept :
                            /\ c = s \/ c = half(s)
                            /\ c.members = s.members
                            /\ s \in spared => c = s
                            /\ s \notin spared => c = half(s)
        OBVIOUS
    <2>1. CASE c \in spared
        BY <2>1
    <2>2. CASE \E s \in of(stuck) : c = half(s)
        BY <1>6, <2>2
    <2> QED
        BY <2>1, <2>2
<1>10. \A s, t \in disk[k].closed : s # t => read(s) \cap read(t) = {}
    BY <1>1 DEF Disjoint
<1>11. \A s \in disk[k].closed : read(s) \cap ReadSegment(disk[k].file.members) = {}
    BY <1>1 DEF Disjoint
<1> HIDE DEF closed, kept, spared
<1>12. Disjoint(disk'[k])
    <2>1. \A c \in closed : read(c) \cap ReadSegment(disk[k].file.members) = {}
        BY <1>8, <1>9, <1>11
    <2>2. ASSUME NEW c \in closed, NEW e \in closed, c # e
          PROVE  read(c) \cap read(e) = {}
        <3>1. PICK s \in kept : /\ c.members = s.members
                                /\ s \in spared => c = s
                                /\ s \notin spared => c = half(s)
            BY <1>9
        <3>2. PICK t \in kept : /\ e.members = t.members
                                /\ t \in spared => e = t
                                /\ t \notin spared => e = half(t)
            BY <1>9
        <3>3. s # t
            BY <2>2, <3>1, <3>2
        <3>4. read(s) \cap read(t) = {}
            BY <1>8, <1>10, <3>3
        <3> QED
            BY <3>1, <3>2, <3>4
    <2> QED
        BY <1>5, <2>1, <2>2 DEF Disjoint
<1>13. OnDisk(disk'[k]) \subseteq OnDisk(disk[k])
    <2>1. \A c \in closed : \E s \in disk[k].closed : c.members = s.members
        BY <1>8, <1>9
    <2> QED
        BY <1>5, <2>1 DEF OnDisk
<1>14. ASSUME NEW s \in disk[k].closed, <<k, s>> \in gone \cup torn
       PROVE  read(s) \cap OnDisk(disk'[k]) = {}
    <2>1. s \notin kept
        BY <1>2, <1>8, <1>14
    <2>2. \A c \in closed : read(s) \cap ReadSegment(c.members) = {}
        BY <1>8, <1>9, <1>10, <2>1
    <2> QED
        BY <1>5, <1>11, <2>2 DEF OnDisk
<1> QED
    BY <1>5, <1>12, <1>13, <1>14

\* A record that leaves the disk was in a segment that was removed.
LEMMA RemovalSpares ==
    ASSUME IInv, NEW gone \in SUBSET ListClosed, NEW stuck \in SUBSET ListClosed,
           NEW torn \in SUBSET ListClosed, RemoveSegments(gone, stuck, torn),
           NEW k \in Kinds, NEW s \in disk[k].closed, <<k, s>> \notin gone \cup torn
    PROVE  ReadSegment(s.members) \subseteq OnDisk(disk'[k])
<1> DEFINE of(xs) == {x[2] : x \in {y \in xs : y[1] = k}}
           stray == disk[k].stray
                      \cup {[date |-> t.date, seq |-> t.seq, meta |-> t.meta]
                              : t \in of(torn)}
           closed == (disk[k].closed \ (of(gone) \cup of(stuck) \cup of(torn)))
                       \cup {[t EXCEPT !.meta = NoSidecar] : t \in of(stuck)}
<1>1. disk[k] \in Disk
    BY DEF IInv, TypeOK
<1>2. disk'[k] = [disk[k] EXCEPT !.closed = closed, !.stray = stray]
    BY DEF RemoveSegments, AfterRemoval
<1>3. disk'[k].closed = closed
    <2> HIDE DEF closed, stray
    <2> QED
        BY <1>1, <1>2 DEF Disk
<1>4. s \notin of(gone) /\ s \notin of(torn)
    <2>1. \A x \in gone \cup torn : x = <<x[1], x[2]>>
        BY DEF ListClosed
    <2> QED
        BY <2>1
<1>5. CASE s \in of(stuck)
    <2>1. [s EXCEPT !.meta = NoSidecar].members = s.members
        BY <1>1 DEF Disk, ClosedSegment
    <2>2. [s EXCEPT !.meta = NoSidecar] \in disk'[k].closed
        BY <1>3, <1>5
    <2> QED
        BY <2>1, <2>2 DEF OnDisk
<1>6. CASE s \notin of(stuck)
    BY <1>3, <1>4, <1>6 DEF OnDisk
<1> QED
    BY <1>5, <1>6

LEMMA RemovalLogs ==
    ASSUME IInv, LogInv, NEW gone \in SUBSET ListClosed,
           NEW stuck \in SUBSET ListClosed, NEW torn \in SUBSET ListClosed,
           (gone \cup torn) \cap stuck = {}, RemoveSegments(gone, stuck, torn),
           today' = today, offered' = offered,
           \/ up' = up /\ active' = active
           \/ up' = FALSE /\ active' = [k \in Kinds |-> NoSegment]
    PROVE  LogStep
<1>1. \A k \in Kinds :
          /\ disk'[k].file = disk[k].file
          /\ Disjoint(disk'[k]) /\ OnDisk(disk'[k]) \subseteq OnDisk(disk[k])
          /\ \A s \in disk[k].closed :
                <<k, s>> \in gone \cup torn =>
                    ReadSegment(s.members) \cap OnDisk(disk'[k]) = {}
    BY RemovalExact
<1>2. \A k \in Kinds : OnDisk(disk[k]) \subseteq OnDisk(disk'[k]) \cup removed'
    BY RemovalKeeps
<1> DEFINE R == UNION {ReadSegment(x[2].members) : x \in gone \cup torn}
<1>3. removed' = removed \cup R
    BY DEF RemoveSegments
<1>4. ASSUME NEW x \in gone \cup torn
      PROVE  /\ x[1] \in Kinds /\ x[2] \in disk[x[1]].closed
             /\ x = <<x[1], x[2]>>
    BY DEF ListClosed
<1>5. \A j, k \in Kinds : j # k => OnDisk(disk[j]) \cap OnDisk(disk[k]) = {}
    BY DEF LogInv, All
\* The records of the segments removed are those that left the disk.
<1>6. R \subseteq Stored
    <2>1. \A x \in gone \cup torn : ReadSegment(x[2].members) \subseteq Stored
        BY <1>4 DEF Stored, OnDisk
    <2> QED
        BY <2>1
<1>7. R \cap Stored' = {}
    <2>1. ASSUME NEW x \in gone \cup torn, NEW k \in Kinds
          PROVE  ReadSegment(x[2].members) \cap OnDisk(disk'[k]) = {}
        <3>1. CASE k = x[1]
            BY <1>1, <1>4, <3>1
        <3>2. CASE k # x[1]
            <4>1. ReadSegment(x[2].members) \subseteq OnDisk(disk[x[1]])
                BY <1>4 DEF OnDisk
            <4> QED
                BY <1>1, <1>4, <1>5, <3>2, <4>1
        <3> QED
            BY <3>1, <3>2
    <2> QED
        BY <2>1 DEF Stored
<1>8. Stored' \subseteq Stored
    BY <1>1 DEF Stored
<1>9. \A x \in gone \cup torn : ReadSegment(x[2].members) \subseteq R
    OBVIOUS
<1> HIDE DEF R
<1>10. Stored \subseteq Stored' \cup R
    <2>1. ASSUME NEW k \in Kinds, NEW y \in OnDisk(disk[k]), y \notin OnDisk(disk'[k])
          PROVE  y \in R
        <3>1. disk'[k].file = disk[k].file /\ disk[k] \in Disk
            BY <1>1, LogStart
        <3>2. PICK s \in disk[k].closed : y \in ReadSegment(s.members)
            BY <2>1, <3>1 DEF OnDisk
        <3>3. <<k, s>> \in gone \cup torn
            BY <2>1, <3>2, RemovalSpares
        <3> QED
            BY <1>9, <3>2, <3>3
    <2> QED
        BY <2>1 DEF Stored
<1>11. removed' = removed \cup (Stored \ Stored')
    BY <1>3, <1>6, <1>7, <1>10
<1>12. InMemory \cap Stored = {} /\ (~up => InMemory = {})
    BY MemoryApart
<1>13. InMemory' \ Stored' \in {InMemory \ Stored, {}}
    <2>1. CASE active' = active
        <3>1. InMemory' = InMemory
            BY <2>1 DEF InMemory
        <3> QED
            BY <1>8, <1>12, <3>1
    <2>2. CASE active' = [k \in Kinds |-> NoSegment]
        <3>1. InMemory' = {}
            BY <2>2, NothingInMemory DEF InMemory
        <3> QED
            BY <3>1
    <2> QED
        BY <2>1, <2>2
<1>14. Log!Delete
    BY <1>8, <1>11, <1>13 DEF Log!Delete
<1>15. \A k \in Kinds : All(active'[k], disk'[k]) \subseteq All(active[k], disk[k])
    BY <1>1, NothingInMemory DEF All
<1>16. ASSUME NEW k \in Kinds
       PROVE  /\ Sealed(disk'[k]) /\ Disjoint(disk'[k])
              /\ up => Good(active[k], disk'[k])
    BY <1>1, LogStart DEF Sealed, Good, Clean
<1>17. IF up' THEN \A k \in Kinds : Good(active'[k], disk'[k])
              ELSE \A k \in Kinds : active'[k] = NoSegment
    BY <1>16 DEF LogInv
<1>18. LogInv'
    BY <1>15, <1>16, <1>17 DEF LogInv
<1> QED
    BY <1>14, <1>18 DEF LogStep, Log!Next

LEMMA RemoveEachLogs ==
    ASSUME IInv, LogInv, NEW xs \in SUBSET ListClosed,
           NEW stuck \in Stuck(xs), NEW left \in SidecarStuck(xs),
           RemoveEach(xs, stuck, left),
           today' = today, offered' = offered, up' = up, active' = active
    PROVE  LogStep
<1>1. stuck \subseteq xs /\ left \subseteq xs
    BY DEF Stuck, SidecarStuck
<1> DEFINE gone == xs \ (stuck \cup left)
           half == stuck \ left
           torn == left \ stuck
<1>2. /\ gone \in SUBSET ListClosed /\ half \in SUBSET ListClosed
      /\ torn \in SUBSET ListClosed /\ (gone \cup torn) \cap half = {}
    BY <1>1
<1>3. RemoveSegments(gone, half, torn)
    BY DEF RemoveEach
<1> HIDE DEF gone, half, torn, LogInv, IInv
<1> QED
    BY <1>2, <1>3, RemovalLogs

LEMMA EnforceRetentionLogs ==
    ASSUME IInv, LogInv, EnforceRetention
    PROVE  LogStep
<1>1. PICK xs \in SUBSET ListClosed :
          \E stuck \in Stuck(xs), left \in SidecarStuck(xs) : RemoveEach(xs, stuck, left)
    BY DEF EnforceRetention
<1>2. today' = today /\ offered' = offered /\ up' = up /\ active' = active
    BY DEF EnforceRetention
<1> QED
    BY <1>1, <1>2, RemoveEachLogs

LEMMA RemoveLogs ==
    ASSUME IInv, LogInv, Remove
    PROVE  LogStep
<1>1. PICK x \in ListClosed :
          \E stuck \in Stuck({x}), left \in SidecarStuck({x}) : RemoveEach({x}, stuck, left)
    BY DEF Remove
<1>2. /\ today' = today /\ offered' = offered /\ up' = up /\ active' = active
      /\ {x} \in SUBSET ListClosed
    BY DEF Remove
<1> QED
    BY <1>1, <1>2, RemoveEachLogs

LEMMA CrashInRetentionLogs ==
    ASSUME IInv, LogInv, CrashInRetention
    PROVE  LogStep
<1>1. PICK xs \in SUBSET ListClosed :
          \E stuck \in Stuck(xs), left \in SidecarStuck(xs), x \in xs :
              LET before == {y \in xs : Before(y, x)}
              IN  /\ x \notin stuck
                  /\ RemoveSegments(before \ (stuck \cup left),
                                    (before \cap stuck) \ left,
                                    {x} \cup ((before \cap left) \ stuck))
    BY DEF CrashInRetention
<1>2. PICK stuck \in Stuck(xs), left \in SidecarStuck(xs), x \in xs :
          /\ x \notin stuck
          /\ RemoveSegments({y \in xs : Before(y, x)} \ (stuck \cup left),
                            ({y \in xs : Before(y, x)} \cap stuck) \ left,
                            {x} \cup (({y \in xs : Before(y, x)} \cap left) \ stuck))
    BY <1>1
<1> DEFINE gone == {y \in xs : Before(y, x)} \ (stuck \cup left)
           half == ({y \in xs : Before(y, x)} \cap stuck) \ left
           torn == {x} \cup (({y \in xs : Before(y, x)} \cap left) \ stuck)
<1>3. /\ gone \in SUBSET ListClosed /\ half \in SUBSET ListClosed
      /\ torn \in SUBSET ListClosed /\ (gone \cup torn) \cap half = {}
    BY <1>2
<1>4. RemoveSegments(gone, half, torn)
    BY <1>2
<1>5. /\ today' = today /\ offered' = offered /\ up' = FALSE
      /\ active' = [k \in Kinds |-> NoSegment]
    BY DEF CrashInRetention, Dies
<1> HIDE DEF gone, half, torn, LogInv, IInv
<1> QED
    BY <1>3, <1>4, <1>5, RemovalLogs

LEMMA CrashInRemoveLogs ==
    ASSUME IInv, LogInv, CrashInRemove
    PROVE  LogStep
<1>1. PICK x \in ListClosed : RemoveSegments({}, {}, {x})
    BY DEF CrashInRemove
<1>2. /\ {} \in SUBSET ListClosed /\ {x} \in SUBSET ListClosed
      /\ ({} \cup {x}) \cap {} = {}
    OBVIOUS
<1>3. /\ today' = today /\ offered' = offered /\ up' = FALSE
      /\ active' = [k \in Kinds |-> NoSegment]
    BY DEF CrashInRemove, Dies
<1> HIDE DEF LogInv, IInv
<1> QED
    BY <1>1, <1>2, <1>3, RemovalLogs

-----------------------------------------------------------------------------
(* The refinement.                                                         *)

LEMMA UnchangedLogs ==
    ASSUME LogInv, today' <= MaxDay, UNCHANGED <<up, active, disk, offered, removed>>
    PROVE  LogStep
<1>1. LogInv'
    BY DEF LogInv
<1>2. UNCHANGED Log!logVars
    BY DEF Log!logVars, InMemory, Stored
<1> QED
    BY <1>1, <1>2 DEF LogStep

LEMMA NextLogs ==
    ASSUME Quiet, IInv, LogInv, [Next]_vars
    PROVE  LogStep
<1>1. CASE UNCHANGED vars
    <2>1. today' <= MaxDay
        BY <1>1 DEF vars, LogInv
    <2> QED
        BY <1>1, <2>1, UnchangedLogs DEF vars
<1>2. CASE Operation
    BY <1>2, AppendLogs, FlushLogs, RotateLogs, EnforceRetentionLogs, RemoveLogs,
       OpenLogs DEF Operation
<1>3. CASE Failure
    BY <1>3, OpenFailsLogs, CrashInAppendLogs, CrashInFlushLogs, CrashInRotateLogs,
       CrashInRetentionLogs, CrashInRemoveLogs, CrashLogs DEF Failure
<1>4. CASE NewDay
    <2>1. today' <= MaxDay
        BY <1>4, ConstantsAssumption DEF NewDay, IInv, TypeOK
    <2> QED
        BY <1>4, <2>1, UnchangedLogs DEF NewDay, history
<1> QED
    BY <1>1, <1>2, <1>3, <1>4 DEF Next

LEMMA InitLogs ==
    ASSUME Init
    PROVE  LogInv /\ Log!Init
<1>1. \A k \in Kinds : /\ active[k] = NoSegment /\ disk[k].file = NoFile
                       /\ disk[k].closed = {}
    BY DEF Init
<1>2. NoFile.members = <<>>
    BY DEF NoFile
<1>3. ASSUME NEW k \in Kinds
      PROVE  /\ Sealed(disk[k]) /\ Disjoint(disk[k]) /\ Clean(disk[k])
             /\ OnDisk(disk[k]) = {} /\ disk[k].file.members = <<>>
    BY <1>1, <1>2, EmptyFile DEF Sealed, Disjoint, Clean, OnDisk
<1>4. ASSUME NEW k \in Kinds
      PROVE  /\ Good(active[k], disk[k]) /\ All(active[k], disk[k]) = {}
    BY <1>1, <1>3, NothingInMemory
<1>5. today <= MaxDay
    BY ConstantsAssumption DEF Init
<1>6. LogInv
    BY <1>3, <1>4, <1>5 DEF LogInv, Init
<1>7. InMemory = {} /\ Stored = {}
    BY <1>1, <1>3, NothingInMemory DEF InMemory, Stored
<1> QED
    BY <1>6, <1>7 DEF Init, Log!Init

\* The spool implements the log its package comment describes (store.go:1-16):
\* whatever dies when, what a crash costs was in memory only, and a record leaves
\* the disk by deletion and in no other way, if the process meets no write error.
THEOREM SpoolIsALog ==
    ASSUME Quiet
    PROVE  Spec => ImplementsLog
<1>1. Init => IInv /\ LogInv /\ Log!Init
    BY InitInv, InitLogs
<1>2. (IInv /\ LogInv) /\ [Next]_vars => (IInv /\ LogInv)' /\ [Log!Next]_(Log!logVars)
    BY NextInv, NextLogs DEF LogStep
<1> QED
    BY <1>1, <1>2, PTL DEF Spec, ImplementsLog, Log!Spec
=============================================================================
