----------------------------- MODULE SpoolProofs -----------------------------
(***************************************************************************)
(* Theorems about Spool, for every set of kinds, every limit and every set *)
(* of faults.  The lemmas follow the call graph of store.go from the write *)
(* of a member up to the actions.                                          *)
(***************************************************************************)
EXTENDS Spool, TLAPS, FiniteSetTheorems, SequenceTheorems

-----------------------------------------------------------------------------
(* What the operators of SegmentFile return and preserve, for files of any *)
(* length.                                                                 *)

\* The places of a file's records form a finite set, so the counts made of them
\* are numbers.
LEMMA PlacesFinite ==
    ASSUME NEW members \in Seq(Member), NEW among \in SUBSET DOMAIN members
    PROVE  IsFiniteSet(Places(members, among))
<1> DEFINE part(i) == {i} \X DOMAIN members[i].recs
           parts == {part(i) : i \in among}
<1>1. DOMAIN members = 1 .. Len(members) /\ Len(members) \in Nat
    OBVIOUS
<1>2. IsFiniteSet(among)
    <2>1. IsFiniteSet(1 .. Len(members))
        BY <1>1, FS_Interval, 1 \in Int, Len(members) \in Int
    <2> QED
        BY <1>1, <2>1, FS_Subset
<1>3. IsFiniteSet(parts)
    <2>1. [i \in among |-> part(i)] \in Surjection(among, parts)
        BY DEF Surjection
    <2> QED
        BY <1>2, <2>1, FS_Surjection
<1>4. ASSUME NEW i \in among PROVE IsFiniteSet(part(i))
    <2>1. members[i] \in Member
        BY ElementOfSeq
    <2>2. members[i].recs \in Seq(Record)
        BY <2>1 DEF Member
    <2>3. DOMAIN members[i].recs = 1 .. Len(members[i].recs)
          /\ Len(members[i].recs) \in Nat
        BY <2>2
    <2>4. IsFiniteSet({i}) /\ IsFiniteSet(DOMAIN members[i].recs)
        <3>1. IsFiniteSet(1 .. Len(members[i].recs))
            BY <2>3, FS_Interval, 1 \in Int, Len(members[i].recs) \in Int
        <3>2. IsFiniteSet({i})
            BY FS_Singleton
        <3> QED
            BY <2>3, <3>1, <3>2
    <2> QED
        BY <2>4, FS_Product
<1>5. \A P \in parts : IsFiniteSet(P)
    BY <1>4
<1>6. IsFiniteSet(UNION parts)
    BY <1>3, <1>5, FS_UNION
<1> QED
    BY <1>6 DEF Places

LEMMA CountTypes ==
    ASSUME NEW members \in Seq(Member)
    PROVE  ReadCount(members) \in Nat /\ Bytes(members) \in Nat
<1>1. Reached(members) \in SUBSET DOMAIN members
    BY DEF Reached
<1> QED
    BY <1>1, PlacesFinite, FS_CardinalityType DEF ReadCount, Bytes

\* A reader gets records out of a file.
LEMMA ReadSegmentType ==
    ASSUME NEW members \in Seq(Member)
    PROVE  ReadSegment(members) \subseteq Record
<1> SUFFICES ASSUME NEW i \in DOMAIN members
             PROVE  Range(members[i].recs) \subseteq Record
    BY DEF ReadSegment, Reached
<1>1. members[i] \in Member
    BY ElementOfSeq
<1>2. members[i].recs \in Seq(Record)
    BY <1>1 DEF Member
<1> QED
    BY <1>2, ElementOfSeq DEF Range

LEMMA WholeType ==
    ASSUME NEW recs \in Seq(Record)
    PROVE  Whole(recs) \in Member
BY DEF Whole, Member

LEMMA TornType ==
    ASSUME NEW recs \in Seq(Record), NEW m \in TornMembers(recs)
    PROVE  m \in Member
<1>1. PICK n \in 0 .. Len(recs) : m = [recs |-> SubSeq(recs, 1, n), whole |-> FALSE]
    BY DEF TornMembers
<1>2. SubSeq(recs, 1, n) \in Seq(Record)
    BY SubSeqProperties, n \in Int, Len(recs) \in Nat
<1> QED
    BY <1>1, <1>2 DEF Member

\* Appending a member never hides or loses what a reader found before ...
LEMMA AppendKeeps ==
    ASSUME NEW members \in Seq(Member), NEW m \in Member
    PROVE  ReadSegment(members) \subseteq ReadSegment(Append(members, m))
<1> DEFINE more == Append(members, m)
<1>1. /\ DOMAIN members = 1 .. Len(members) /\ Len(members) \in Nat
      /\ DOMAIN more = 1 .. (Len(members) + 1)
      /\ \A i \in 1 .. Len(members) : more[i] = members[i]
    OBVIOUS
<1>2. ASSUME NEW i \in Reached(members) PROVE i \in Reached(more)
    BY <1>1 DEF Reached
<1>3. ASSUME NEW i \in Reached(members)
      PROVE  Range(members[i].recs) = Range(more[i].recs)
    BY <1>1 DEF Reached
<1> QED
    BY <1>2, <1>3 DEF ReadSegment

\* ... and finds the new records too when no member before is torn.
LEMMA AppendReads ==
    ASSUME NEW members \in Seq(Member), AllWhole(members), NEW m \in Member
    PROVE  ReadSegment(Append(members, m)) =
               ReadSegment(members) \cup Range(m.recs)
<1> DEFINE more == Append(members, m)
           last == Len(members) + 1
<1>1. /\ DOMAIN members = 1 .. Len(members) /\ Len(members) \in Nat
      /\ DOMAIN more = 1 .. last
      /\ \A i \in 1 .. Len(members) : more[i] = members[i]
      /\ more[last] = m
    OBVIOUS
<1>2. Reached(more) = DOMAIN members \cup {last}
    BY <1>1 DEF Reached, AllWhole
<1>3. Reached(members) = DOMAIN members
    BY <1>1 DEF Reached, AllWhole
<1>4. ReadSegment(more) =
        (UNION {Range(more[i].recs) : i \in DOMAIN members}) \cup Range(more[last].recs)
    BY <1>2 DEF ReadSegment
<1>5. (UNION {Range(more[i].recs) : i \in DOMAIN members}) = ReadSegment(members)
    BY <1>1, <1>3 DEF ReadSegment
<1> HIDE DEF more
<1>6. Range(more[last].recs) = Range(m.recs)
    BY <1>1
<1>7. ReadSegment(more) = ReadSegment(members) \cup Range(m.recs)
    BY <1>4, <1>5, <1>6
<1> QED
    BY <1>7 DEF more

\* A reader of a file whose last member may be torn gets no record that was not
\* given to a write.
LEMMA TornIsPrefix ==
    ASSUME NEW recs \in Seq(Record), NEW m \in TornMembers(recs)
    PROVE  Range(m.recs) \subseteq Range(recs) /\ ~m.whole
<1>1. PICK n \in 0 .. Len(recs) : m = [recs |-> SubSeq(recs, 1, n), whole |-> FALSE]
    BY DEF TornMembers
<1>2. \A i \in 1 .. n : SubSeq(recs, 1, n)[i] = recs[i]
    BY SubSeqProperties, n \in Int, Len(recs) \in Nat
<1>3. DOMAIN SubSeq(recs, 1, n) = 1 .. n
    BY SubSeqProperties, n \in Int, Len(recs) \in Nat
<1> QED
    BY <1>1, <1>2, <1>3 DEF Range

-----------------------------------------------------------------------------
(* Types, and the bound on a buffer.                                       *)

\* A segment whose counters agree with its buffer.
Sound(seg) ==
    /\ seg \in Segment
    /\ Len(seg.buf) <= seg.records
    /\ Len(seg.buf) <= seg.rawBuffered

\* What every helper returns when it gets a sound segment and a disk.
ResultOK(r) ==
    /\ Sound(r.seg)
    /\ r.disk \in Disk
    /\ r.ok \in BOOLEAN
    /\ r.saved \subseteq Record

\* The fields of a sidecar that a caller of closeFile provides.
InfoOK(info) == info.records \in Nat /\ info.minTS \in Nat /\ info.maxTS \in Nat

LEMMA NoSegmentSound == Sound(NoSegment) /\ Len(NoSegment.buf) = 0
BY DEF Sound, NoSegment, Segment

LEMMA NewSegmentSound ==
    ASSUME NEW date \in Nat
    PROVE  Sound(NewSegment(date)) /\ NewSegment(date).buf = <<>>
<1>1. /\ NoSegment \in Segment
      /\ NoSegment.buf = <<>> /\ NoSegment.records = 0 /\ NoSegment.rawBuffered = 0
    BY DEF NoSegment, Segment
<1>2. NewSegment(date) = [NoSegment EXCEPT !.open = TRUE, !.date = date]
    BY DEF NewSegment
<1>3. /\ NewSegment(date) \in Segment
      /\ NewSegment(date).buf = NoSegment.buf
      /\ NewSegment(date).records = NoSegment.records
      /\ NewSegment(date).rawBuffered = NoSegment.rawBuffered
    BY <1>1, <1>2, ZenonT(30) DEF Segment
<1> QED
    BY <1>1, <1>3 DEF Sound

LEMMA EmptiedSound ==
    ASSUME NEW seg, Sound(seg)
    PROVE  /\ Sound(Emptied(seg))
           /\ Emptied(seg).buf = <<>> /\ Emptied(seg).records = seg.records
<1> DEFINE n == seg.size + Len(seg.buf)
           e == <<>>
<1>1. seg \in Segment /\ n \in Nat /\ e \in Seq(Record) /\ seg.records \in Nat
    BY DEF Sound, Segment
<1>2. Emptied(seg) = [seg EXCEPT !.size = n, !.buf = e, !.rawBuffered = 0]
    BY DEF Emptied
<1>3. /\ Emptied(seg) \in Segment
      /\ Emptied(seg).buf = e
      /\ Emptied(seg).rawBuffered = 0
      /\ Emptied(seg).records = seg.records
    <2> HIDE DEF n, e
    <2>1. Emptied(seg) \in Segment
        BY <1>1, <1>2, 0 \in Nat, ZenonT(30) DEF Segment
    <2> QED
        BY <1>1, <1>2, <2>1, SMTT(30) DEF Segment
<1> QED
    BY <1>1, <1>3 DEF Sound

\* The record count and the raw size grow with the buffer.
LEMMA BufferedSound ==
    ASSUME NEW seg, Sound(seg), NEW r \in Record
    PROVE  /\ Sound(Buffered(seg, r))
           /\ Buffered(seg, r).buf = Append(seg.buf, r)
           /\ Buffered(seg, r).records = seg.records + 1
<1> DEFINE e == Append(seg.buf, r)
           m == seg.rawBuffered + 1
           n == seg.records + 1
           lo == IF seg.minTS = 0 \/ r.ts < seg.minTS THEN r.ts ELSE seg.minTS
           hi == IF r.ts > seg.maxTS THEN r.ts ELSE seg.maxTS
<1>1. seg \in Segment /\ seg.buf \in Seq(Record) /\ Len(seg.buf) \in Nat
    BY DEF Sound, Segment
<1>2. m \in Nat /\ n \in Nat /\ lo \in Nat /\ hi \in Nat
    BY <1>1, SMTT(60) DEF Segment, Record
<1>3. e \in Seq(Record) /\ Len(e) = Len(seg.buf) + 1
    BY <1>1, AppendProperties
<1>4. Buffered(seg, r) = [seg EXCEPT !.buf = e, !.rawBuffered = m, !.records = n,
                                     !.minTS = lo, !.maxTS = hi]
    BY DEF Buffered
<1>5. /\ Buffered(seg, r) \in Segment
      /\ Buffered(seg, r).buf = e
      /\ Buffered(seg, r).rawBuffered = m
      /\ Buffered(seg, r).records = n
    <2> HIDE DEF e, m, n, lo, hi
    <2>1. Buffered(seg, r) \in Segment
        BY <1>1, <1>2, <1>3, <1>4, ZenonT(30) DEF Segment
    <2> QED
        BY <1>1, <1>4, <2>1, SMTT(30) DEF Segment
<1>6. Len(e) <= n /\ Len(e) <= m
    BY <1>1, <1>3 DEF Sound, Segment
<1> QED
    BY <1>5, <1>6 DEF Sound

LEMMA DropBatchSound ==
    ASSUME NEW seg, Sound(seg)
    PROVE  Sound(DropBatch(seg)) /\ DropBatch(seg).buf = <<>>
<1> DEFINE n == seg.records - Len(seg.buf)
           e == <<>>
<1>1. /\ seg \in Segment /\ n \in Nat /\ e \in Seq(Record)
      /\ seg.rawBuffered \in Nat /\ Len(seg.buf) \in Nat
    BY DEF Sound, Segment
<1>2. DropBatch(seg) = [seg EXCEPT !.records = n, !.buf = e]
    BY DEF DropBatch
<1>3. /\ DropBatch(seg) \in Segment
      /\ DropBatch(seg).buf = e
      /\ DropBatch(seg).records = n
      /\ DropBatch(seg).rawBuffered = seg.rawBuffered
    <2> HIDE DEF n, e
    <2>1. DropBatch(seg) \in Segment
        BY <1>1, <1>2, ZenonT(30) DEF Segment
    <2> QED
        BY <1>1, <1>2, <2>1, SMTT(30) DEF Segment
<1> QED
    BY <1>1, <1>3 DEF Sound

LEMMA WrittenType ==
    ASSUME NEW d \in Disk, NEW m \in Member
    PROVE  Written(d, m) \in Disk /\ Opened(d) \in Disk
<1>1. d.file.members \in Seq(Member)
    BY DEF Disk, File
<1>2. Append(d.file.members, m) \in Seq(Member)
    BY <1>1, AppendProperties
<1> QED
    BY <1>2 DEF Written, Opened, Disk, File

LEMMA InterruptedWriteTypes ==
    ASSUME NEW buf \in Seq(Record), NEW d \in Disk
    PROVE  /\ TornWrites(buf, d) \subseteq Disk
           /\ FailedWrites(buf, d) \subseteq Disk
           /\ CrashedWrites(buf, d) \subseteq Disk
<1>1. TornWrites(buf, d) \subseteq Disk
    BY WrittenType, WholeType, TornType DEF TornWrites
<1>2. Written(d, Whole(buf)) \in Disk
    BY WrittenType, WholeType
<1>3. FailedWrites(buf, d) \subseteq Disk
    BY <1>1, <1>2 DEF FailedWrites
<1>4. CrashedWrites(buf, d) \subseteq Disk
    BY <1>1, <1>2 DEF CrashedWrites
<1> QED
    BY <1>1, <1>3, <1>4

\* A flush leaves the segment sound and its buffer no longer than it was.
LEMMA FlushLockedOK ==
    ASSUME NEW seg, Sound(seg), NEW d \in Disk, NEW r \in FlushLocked(seg, d)
    PROVE  /\ ResultOK(r) /\ Len(r.seg.buf) <= Len(seg.buf)
           /\ IF r.ok THEN r.seg.buf = <<>> ELSE r.seg = seg
<1> seg.buf \in Seq(Record) /\ Len(seg.buf) \in Nat
    BY DEF Sound, Segment
<1>1. Range(seg.buf) \subseteq Record
    BY ElementOfSeq DEF Range
<1>2. CASE seg.buf = <<>> /\ r = Result(seg, d, TRUE, {})
    BY <1>2 DEF Result, ResultOK
<1>3. CASE r = Result(Emptied(seg), Written(d, Whole(seg.buf)), TRUE, Range(seg.buf))
    <2>1. Sound(r.seg) /\ r.seg.buf = <<>>
        BY <1>3, EmptiedSound DEF Result
    <2> QED
        <3>1. Written(d, Whole(seg.buf)) \in Disk
            BY WrittenType, WholeType
        <3> QED
            BY <1>1, <1>3, <2>1, <3>1 DEF Result, ResultOK
<1>4. CASE \E e \in FailedWrites(seg.buf, d) : r = Result(seg, e, FALSE, {})
    BY <1>4, InterruptedWriteTypes DEF Result, ResultOK
<1> QED
    BY <1>2, <1>3, <1>4 DEF FlushLocked

LEMMA MovedType ==
    ASSUME NEW d \in Disk, NEW date \in Nat, NEW n \in Nat, NEW meta \in Sidecar
    PROVE  Moved(d, date, n, meta) \in Disk
<1>1. [date |-> date, seq |-> n, members |-> d.file.members, meta |-> meta]
          \in ClosedSegment
    BY DEF Disk, File, ClosedSegment
<1>2. NoFile \in File
    BY DEF NoFile, File
<1> QED
    BY <1>1, <1>2 DEF Moved, Disk

LEMMA FreeSeqsType ==
    ASSUME NEW d, NEW date
    PROVE  FreeSeqs(d, date) \subseteq Nat
BY DEF FreeSeqs

LEMMA ClosedFilesType ==
    ASSUME NEW d \in Disk, NEW info, InfoOK(info), today \in Nat
    PROVE  ClosedFiles(d, info) \subseteq Disk
<1>1. SegmentDate(info) \in Nat
    BY DEF SegmentDate, InfoOK
<1>2. Bytes(d.file.members) \in Nat
    BY CountTypes DEF Disk, File
<1>3. [present |-> TRUE, records |-> info.records, minTS |-> info.minTS,
       maxTS |-> info.maxTS, size |-> Bytes(d.file.members)] \in Sidecar
    BY <1>2 DEF Sidecar, InfoOK
<1> QED
    BY <1>1, <1>3, MovedType, FreeSeqsType DEF ClosedFiles

LEMMA UnlabelledFilesType ==
    ASSUME NEW d \in Disk, NEW info, InfoOK(info), today \in Nat
    PROVE  UnlabelledFiles(d, info) \subseteq Disk
<1>1. SegmentDate(info) \in Nat
    BY DEF SegmentDate, InfoOK
<1>2. NoSidecar \in Sidecar
    BY DEF NoSidecar, Sidecar
<1>3. \A s \in d.stray : s.meta \in Sidecar
    BY DEF Disk, Stray
<1>4. \A n \in FreeSeqs(d, SegmentDate(info)) :
          /\ Moved(d, SegmentDate(info), n, NoSidecar) \in Disk
          /\ \A s \in d.stray : Moved(d, SegmentDate(info), n, s.meta) \in Disk
    BY <1>1, <1>2, <1>3, MovedType, FreeSeqsType
<1> QED
    BY <1>4 DEF UnlabelledFiles

LEMMA WithoutFileType ==
    ASSUME NEW d \in Disk
    PROVE  WithoutFile(d) \in Disk
<1>1. NoFile \in File
    BY DEF NoFile, File
<1> QED
    BY <1>1 DEF WithoutFile, Disk

LEMMA CloseSegmentOK ==
    ASSUME NEW seg, Sound(seg), NEW d \in Disk, today \in Nat,
           NEW r \in CloseSegment(seg, d)
    PROVE  \E e \in Disk, ok \in BOOLEAN : r = Result(NoSegment, e, ok, {})
<1>1. InfoOK(seg)
    BY DEF Sound, Segment, InfoOK
<1> QED
    BY <1>1, WithoutFileType, ClosedFilesType, UnlabelledFilesType
       DEF CloseSegment, CloseFile

LEMMA RotateLockedOK ==
    ASSUME NEW seg, Sound(seg), NEW d \in Disk, today \in Nat,
           NEW r \in RotateLocked(seg, d)
    PROVE  ResultOK(r) /\ Len(r.seg.buf) <= Len(seg.buf)
<1>1. CASE ~seg.open
    <2>1. r = Result(seg, d, TRUE, {})
        BY <1>1 DEF RotateLocked
    <2> QED
        BY <2>1 DEF Result, ResultOK, Sound, Segment
<1>2. CASE seg.open
    <2>1. PICK f \in FlushLocked(seg, d) :
              \/ ~f.ok /\ r = f
              \/ f.ok /\ \E c \in CloseSegment(f.seg, f.disk) :
                            r = Result(c.seg, c.disk, c.ok, f.saved)
        BY <1>2 DEF RotateLocked
    <2>2. ResultOK(f) /\ Len(f.seg.buf) <= Len(seg.buf)
        BY FlushLockedOK
    <2>3. CASE ~f.ok /\ r = f
        BY <2>2, <2>3
    <2>4. CASE f.ok /\ \E c \in CloseSegment(f.seg, f.disk) :
                          r = Result(c.seg, c.disk, c.ok, f.saved)
        <3>1. PICK c \in CloseSegment(f.seg, f.disk) :
                  r = Result(c.seg, c.disk, c.ok, f.saved)
            BY <2>4
        <3>2. Sound(f.seg) /\ f.disk \in Disk /\ f.saved \subseteq Record
            BY <2>2 DEF ResultOK
        <3>3. PICK e \in Disk, ok \in BOOLEAN : c = Result(NoSegment, e, ok, {})
            BY <3>2, CloseSegmentOK
        <3>4. r = Result(NoSegment, e, ok, f.saved)
            BY <3>1, <3>3 DEF Result
        <3>5. Len(seg.buf) \in Nat
            BY DEF Sound, Segment
        <3> QED
            BY <3>2, <3>4, <3>5, NoSegmentSound DEF ResultOK, Result
    <2> QED
        BY <2>1, <2>3, <2>4
<1> QED
    BY <1>1, <1>2

LEMMA RotatedForOK ==
    ASSUME NEW seg, Sound(seg), NEW d \in Disk, today \in Nat, NEW r,
           NEW q \in RotatedFor(seg, d, r)
    PROVE  ResultOK(q) /\ Len(q.seg.buf) <= Len(seg.buf)
<1>1. CASE NeedsRotation(seg, r)
    BY <1>1, RotateLockedOK DEF RotatedFor
<1>2. CASE ~NeedsRotation(seg, r)
    <2>1. q = Result(seg, d, TRUE, {})
        BY <1>2 DEF RotatedFor
    <2> QED
        BY <2>1 DEF Result, ResultOK, Sound, Segment
<1> QED
    BY <1>1, <1>2

LEMMA AcceptingSound ==
    ASSUME NEW seg, Sound(seg), NEW r \in Record
    PROVE  /\ Sound(Accepting(seg, r))
           /\ Len(Accepting(seg, r).buf) <= Len(seg.buf) + 1
<1> DEFINE s == IF seg.open THEN seg ELSE NewSegment(r.ts)
<1>1. r.ts \in Nat
    BY DEF Record
<1>2. Len(seg.buf) \in Nat /\ Len(<<>>) = 0
    BY DEF Sound, Segment
<1>3. Sound(s) /\ Len(s.buf) <= Len(seg.buf)
    BY <1>1, <1>2, NewSegmentSound
<1> HIDE DEF s
<1>4. s.buf \in Seq(Record) /\ Len(s.buf) \in Nat
    BY <1>3 DEF Sound, Segment
<1>5. Accepting(seg, r) = Buffered(s, r)
    BY DEF Accepting, s
<1>6. Len(Buffered(s, r).buf) = Len(s.buf) + 1
    BY <1>3, <1>4, BufferedSound, AppendProperties
<1> QED
    BY <1>2, <1>3, <1>4, <1>5, <1>6, BufferedSound

\* The automatic flush brings the buffer below its bound, by writing it or by
\* dropping it.
LEMMA AutoFlushedOK ==
    ASSUME NEW seg, Sound(seg), Len(seg.buf) <= AutoFlush, NEW d \in Disk,
           NEW saved \in SUBSET Record, NEW f \in AutoFlushed(seg, d, saved)
    PROVE  ResultOK(f[1]) /\ Len(f[1].seg.buf) < AutoFlush /\ f[2] \in Nat
<1>0. AutoFlush \in Nat /\ AutoFlush > 0 /\ Len(<<>>) = 0
    BY ConstantsAssumption
<1>1. CASE Len(seg.buf) < AutoFlush
    <2>1. f = <<Result(seg, d, TRUE, saved), 0>>
        BY <1>1 DEF AutoFlushed
    <2>2. f[1] = Result(seg, d, TRUE, saved) /\ f[2] = 0
        BY <2>1
    <2> QED
        BY <1>1, <2>2 DEF Result, ResultOK
<1>2. CASE ~(Len(seg.buf) < AutoFlush)
    <2>1. PICK g \in FlushLocked(seg, d) :
              f = IF g.ok THEN <<Result(g.seg, g.disk, TRUE, saved \cup g.saved), 0>>
                  ELSE <<Result(DropBatch(g.seg), g.disk, FALSE, saved),
                         Len(g.seg.buf)>>
        BY <1>2 DEF AutoFlushed
    <2>2. ResultOK(g) /\ (g.ok => g.seg.buf = <<>>)
        BY FlushLockedOK
    <2>3. CASE g.ok
        BY <1>0, <2>1, <2>2, <2>3 DEF Result, ResultOK
    <2>4. CASE ~g.ok
        <3>1. /\ f[1] = Result(DropBatch(g.seg), g.disk, FALSE, saved)
              /\ f[2] = Len(g.seg.buf)
            BY <2>1, <2>4
        <3>2. Sound(DropBatch(g.seg)) /\ DropBatch(g.seg).buf = <<>>
            BY <2>2, DropBatchSound DEF ResultOK
        <3>3. Len(g.seg.buf) \in Nat
            BY <2>2, SMTT(60) DEF ResultOK, Sound, Segment
        <3> QED
            BY <1>0, <2>2, <3>1, <3>2, <3>3 DEF Result, ResultOK
    <2> QED
        BY <2>3, <2>4
<1> QED
    BY <1>1, <1>2

-----------------------------------------------------------------------------
(* The invariant: BufferBounded is inductive together with the types.      *)

IInv == TypeOK /\ BufferBounded

LEMMA IInvSound ==
    ASSUME IInv, NEW k \in Kinds
    PROVE  Sound(active[k]) /\ Len(active[k].buf) < AutoFlush /\ disk[k] \in Disk
BY DEF IInv, TypeOK, BufferBounded, Sound

\* A step that gives one kind a sound segment with a short buffer.
LEMMA OneKind ==
    ASSUME IInv, NEW k \in Kinds, NEW s, Sound(s), Len(s.buf) < AutoFlush,
           NEW d \in Disk,
           active' = [active EXCEPT ![k] = s], disk' = [disk EXCEPT ![k] = d]
    PROVE  /\ active' \in [Kinds -> Segment] /\ disk' \in [Kinds -> Disk]
           /\ BufferBounded'
<1>1. active \in [Kinds -> Segment] /\ disk \in [Kinds -> Disk] /\ s \in Segment
    BY DEF IInv, TypeOK, Sound
<1>2. active' \in [Kinds -> Segment] /\ disk' \in [Kinds -> Disk]
    BY <1>1
<1>3. ASSUME NEW j \in Kinds
      PROVE  /\ Len(active'[j].buf) < AutoFlush
             /\ Len(active'[j].buf) <= active'[j].records
             /\ Len(active'[j].buf) <= active'[j].rawBuffered
    <2>1. CASE j = k
        <3>1. active'[j] = s
            BY <1>1, <2>1
        <3> QED
            BY <3>1 DEF Sound
    <2>2. CASE j # k
        <3>1. active'[j] = active[j]
            BY <1>1, <2>2
        <3> QED
            BY <3>1 DEF IInv, BufferBounded
    <2> QED
        BY <2>1, <2>2
<1> QED
    BY <1>2, <1>3 DEF BufferBounded

LEMMA AppendInv ==
    ASSUME IInv, NEW k \in Kinds, NEW ts \in Timestamps, AppendRecord(k, ts)
    PROVE  IInv'
<1> DEFINE r == NextRecord(ts)
<1>1. r \in Record
    BY DEF IInv, TypeOK, NextRecord, Timestamps, Record
<1>2. /\ Sound(active[k]) /\ Len(active[k].buf) < AutoFlush /\ disk[k] \in Disk
      /\ today \in Nat /\ AutoFlush \in Nat /\ Len(active[k].buf) \in Nat
    BY IInvSound, ConstantsAssumption, SMTT(60) DEF IInv, TypeOK, Sound, Segment
<1> HIDE DEF r
<1>3. CASE Refused(k, r)
    <2>1. PICK q \in RotatedFor(active[k], disk[k], r) :
              /\ active' = [active EXCEPT ![k] = q.seg]
              /\ disk' = [disk EXCEPT ![k] = q.disk]
              /\ flushed' = flushed \cup q.saved
        BY <1>3 DEF Refused
    <2>2. ResultOK(q) /\ Len(q.seg.buf) < AutoFlush
        <3>1. ResultOK(q) /\ Len(q.seg.buf) <= Len(active[k].buf)
            BY <1>2, RotatedForOK
        <3>2. Len(q.seg.buf) \in Nat
            BY <3>1 DEF ResultOK, Sound, Segment
        <3> QED
            BY <1>2, <3>1, <3>2
    <2>3. /\ active' \in [Kinds -> Segment] /\ disk' \in [Kinds -> Disk]
          /\ BufferBounded'
        BY <2>1, <2>2, OneKind DEF ResultOK
    <2>4. lost' \subseteq Nat /\ dropped' = dropped
        BY <1>1, <1>3 DEF Refused, Record, IInv, TypeOK
    <2>5. flushed' \subseteq Record
        BY <2>1, <2>2 DEF IInv, TypeOK, ResultOK
    <2> QED
        BY <2>3, <2>4, <2>5 DEF AppendRecord, IInv, TypeOK
<1>4. CASE Taken(k, r)
    <2>1. PICK q \in RotatedFor(active[k], disk[k], r) :
          \E f \in AutoFlushed(Accepting(q.seg, r), q.disk, q.saved) :
              /\ active' = [active EXCEPT ![k] = f[1].seg]
              /\ disk' = [disk EXCEPT ![k] = f[1].disk]
              /\ flushed' = flushed \cup f[1].saved
              /\ dropped' = dropped + f[2]
        BY <1>4 DEF Taken
    <2>2. PICK f \in AutoFlushed(Accepting(q.seg, r), q.disk, q.saved) :
              /\ active' = [active EXCEPT ![k] = f[1].seg]
              /\ disk' = [disk EXCEPT ![k] = f[1].disk]
              /\ flushed' = flushed \cup f[1].saved
              /\ dropped' = dropped + f[2]
        BY <2>1
    <2>3. ResultOK(q) /\ Len(q.seg.buf) <= Len(active[k].buf)
        BY <1>2, RotatedForOK
    <2>4. Len(q.seg.buf) \in Nat /\ Sound(q.seg) /\ q.disk \in Disk
          /\ q.saved \in SUBSET Record
        BY <2>3 DEF ResultOK, Sound, Segment
    <2>5. Sound(Accepting(q.seg, r)) /\ Len(Accepting(q.seg, r).buf) <= AutoFlush
        <3>1. Sound(Accepting(q.seg, r))
              /\ Len(Accepting(q.seg, r).buf) <= Len(q.seg.buf) + 1
            BY <1>1, <2>4, AcceptingSound
        <3>2. Len(Accepting(q.seg, r).buf) \in Nat
            BY <3>1 DEF Sound, Segment
        <3> QED
            BY <1>2, <2>3, <2>4, <3>1, <3>2, SMTT(60)
    <2>6. ResultOK(f[1]) /\ Len(f[1].seg.buf) < AutoFlush /\ f[2] \in Nat
        BY <2>4, <2>5, AutoFlushedOK
    <2>7. /\ active' \in [Kinds -> Segment] /\ disk' \in [Kinds -> Disk]
          /\ BufferBounded'
        BY <2>2, <2>6, OneKind DEF ResultOK
    <2>8. flushed' \subseteq Record /\ dropped' \in Nat /\ lost' = lost
        BY <1>4, <2>2, <2>6, SMTT(60) DEF Taken, IInv, TypeOK, ResultOK
    <2> QED
        BY <2>7, <2>8 DEF AppendRecord, IInv, TypeOK
<1> QED
    BY <1>3, <1>4 DEF AppendRecord, r

LEMMA ForEachKindInv ==
    ASSUME IInv, NEW results, ForEachKind(results),
           \A k \in Kinds : \A r \in results[k] :
               ResultOK(r) /\ Len(r.seg.buf) <= Len(active[k].buf)
    PROVE  IInv'
<1>1. PICK r \in [Kinds -> UNION {results[k] : k \in Kinds}] :
          /\ \A k \in Kinds : r[k] \in results[k]
          /\ active' = [k \in Kinds |-> r[k].seg]
          /\ disk' = [k \in Kinds |-> r[k].disk]
          /\ flushed' = flushed \cup UNION {r[k].saved : k \in Kinds}
    BY DEF ForEachKind
<1>2. \A k \in Kinds : ResultOK(r[k]) /\ Len(r[k].seg.buf) <= Len(active[k].buf)
    BY <1>1
<1>3. active' \in [Kinds -> Segment] /\ disk' \in [Kinds -> Disk]
    BY <1>1, <1>2 DEF ResultOK, Sound
<1>4. BufferBounded'
    <2> SUFFICES ASSUME NEW k \in Kinds
                 PROVE  /\ Len(active'[k].buf) < AutoFlush
                        /\ Len(active'[k].buf) <= active'[k].records
                        /\ Len(active'[k].buf) <= active'[k].rawBuffered
        BY DEF BufferBounded
    <2>1. active'[k] = r[k].seg
        BY <1>1
    <2>2. /\ Len(active[k].buf) < AutoFlush
          /\ Len(active[k].buf) \in Nat /\ Len(r[k].seg.buf) \in Nat
        BY <1>2, IInvSound, SMTT(60) DEF ResultOK, Sound, Segment
    <2> QED
        BY <1>2, <2>1, <2>2, ConstantsAssumption, SMTT(60) DEF ResultOK, Sound
<1>5. flushed' \subseteq Record
    BY <1>1, <1>2 DEF IInv, TypeOK, ResultOK
<1> QED
    BY <1>3, <1>4, <1>5 DEF ForEachKind, IInv, TypeOK

LEMMA FlushInv ==
    ASSUME IInv, Flush
    PROVE  IInv'
<1>1. ASSUME NEW k \in Kinds, NEW r \in FlushLocked(active[k], disk[k])
      PROVE  ResultOK(r) /\ Len(r.seg.buf) <= Len(active[k].buf)
    BY IInvSound, FlushLockedOK
<1> DEFINE results == [k \in Kinds |-> FlushLocked(active[k], disk[k])]
<1>2. ForEachKind(results)
    BY DEF Flush
<1>3. \A k \in Kinds : results[k] = FlushLocked(active[k], disk[k])
    OBVIOUS
<1> HIDE DEF results
<1> QED
    BY <1>1, <1>2, <1>3, ForEachKindInv

LEMMA RotateInv ==
    ASSUME IInv, Rotate
    PROVE  IInv'
<1>1. ASSUME NEW k \in Kinds, NEW r \in RotateLocked(active[k], disk[k])
      PROVE  ResultOK(r) /\ Len(r.seg.buf) <= Len(active[k].buf)
    BY IInvSound, RotateLockedOK DEF IInv, TypeOK
<1> DEFINE results == [k \in Kinds |-> RotateLocked(active[k], disk[k])]
<1>2. ForEachKind(results)
    BY DEF Rotate
<1>3. \A k \in Kinds : results[k] = RotateLocked(active[k], disk[k])
    OBVIOUS
<1> HIDE DEF results
<1> QED
    BY <1>1, <1>2, <1>3, ForEachKindInv

\* A step that leaves no open segment, in memory or because the process died.
LEMMA EmptyMemory ==
    ASSUME active' = [k \in Kinds |-> NoSegment]
    PROVE  active' \in [Kinds -> Segment] /\ BufferBounded'
<1>1. /\ NoSegment \in Segment
      /\ Len(NoSegment.buf) = 0 /\ NoSegment.records = 0 /\ NoSegment.rawBuffered = 0
    BY DEF NoSegment, Segment
<1>2. \A k \in Kinds : active'[k] = NoSegment
    OBVIOUS
<1> QED
    BY <1>1, <1>2, ConstantsAssumption DEF BufferBounded

LEMMA RecoveredInfoOK ==
    ASSUME NEW members \in Seq(Member), NEW info \in RecoveredInfo(members)
    PROVE  InfoOK(info)
<1>1. ReadCount(members) \in Nat
    BY CountTypes
<1>2. \A r \in ReadSegment(members) : r.ts \in Nat
    BY ReadSegmentType DEF Record
<1> DEFINE times == {r.ts : r \in ReadSegment(members)}
           info0(lo, hi) == [records |-> ReadCount(members), minTS |-> lo, maxTS |-> hi]
<1>3. \E lo \in times \cup {0}, hi \in times \cup {0} : info = info0(lo, hi)
    <2>1. CASE times = {}
        BY <2>1 DEF RecoveredInfo
    <2>2. CASE times # {}
        <3>1. PICK p \in times \X times : info = info0(p[1], p[2])
            BY <2>2 DEF RecoveredInfo
        <3>2. p[1] \in times /\ p[2] \in times
            BY <3>1
        <3> QED
            BY <3>1, <3>2
    <2> QED
        BY <2>1, <2>2
<1>4. PICK lo \in times \cup {0}, hi \in times \cup {0} : info = info0(lo, hi)
    BY <1>3
<1>5. lo \in Nat /\ hi \in Nat
    BY <1>2
<1> QED
    BY <1>1, <1>4, <1>5 DEF InfoOK

LEMMA RecoveredType ==
    ASSUME NEW d \in Disk, today \in Nat
    PROVE  Recovered(d) \subseteq Disk /\ HalfRecovered(d) \subseteq Disk
<1>1. d.file.members \in Seq(Member)
    BY DEF Disk, File
<1>2. \A info \in RecoveredInfo(d.file.members) :
          ClosedFiles(d, info) \subseteq Disk /\ UnlabelledFiles(d, info) \subseteq Disk
    BY <1>1, RecoveredInfoOK, ClosedFilesType, UnlabelledFilesType
<1> QED
    BY <1>2 DEF Recovered, HalfRecovered

LEMMA OpenInv ==
    ASSUME IInv, Open
    PROVE  IInv'
<1>1. \A k \in Kinds : Recovered(disk[k]) \subseteq Disk /\ disk[k] \in Disk
    BY RecoveredType DEF IInv, TypeOK
<1>2. disk' \in [Kinds -> Disk]
    BY <1>1 DEF Open
<1> QED
    BY <1>2, EmptyMemory DEF Open, IInv, TypeOK, history

LEMMA OpenFailsInv ==
    ASSUME IInv, NEW c \in Kinds, OpenFails(c)
    PROVE  IInv'
<1>1. \A k \in Kinds : /\ Recovered(disk[k]) \subseteq Disk /\ disk[k] \in Disk
                       /\ HalfRecovered(disk[k]) \subseteq Disk
    BY RecoveredType DEF IInv, TypeOK
<1>2. disk' \in [Kinds -> Disk]
    BY <1>1 DEF OpenFails
<1> QED
    BY <1>2 DEF OpenFails, IInv, TypeOK, BufferBounded, history

LEMMA RemovalTypes ==
    ASSUME IInv, NEW gone \in SUBSET ListClosed, NEW stuck \in SUBSET ListClosed,
           NEW torn \in SUBSET ListClosed, RemoveSegments(gone, stuck, torn)
    PROVE  disk' \in [Kinds -> Disk] /\ removed' \subseteq Record
<1>1. ASSUME NEW x \in ListClosed
      PROVE  /\ x[1] \in Kinds /\ x[2] \in disk[x[1]].closed
             /\ x[2] \in ClosedSegment
    <2>1. PICK k \in Kinds : x \in {<<k, s>> : s \in {c \in disk[k].closed : c.meta.present}}
        BY DEF ListClosed
    <2>2. PICK s \in disk[k].closed : x = <<k, s>>
        BY <2>1
    <2> QED
        BY <2>2 DEF IInv, TypeOK, Disk
<1>2. ASSUME NEW s \in ClosedSegment
      PROVE  /\ [s EXCEPT !.meta = NoSidecar] \in ClosedSegment
             /\ [date |-> s.date, seq |-> s.seq, meta |-> s.meta] \in Stray
             /\ ReadSegment(s.members) \subseteq Record
    <2>1. NoSidecar \in Sidecar
        BY DEF NoSidecar, Sidecar
    <2>2. [s EXCEPT !.meta = NoSidecar] \in ClosedSegment
        BY <2>1 DEF ClosedSegment
    <2>3. s.members \in Seq(Member)
        BY DEF ClosedSegment
    <2> QED
        BY <2>2, <2>3, ReadSegmentType DEF ClosedSegment, Stray
<1>3. ASSUME NEW k \in Kinds
      PROVE  AfterRemoval(k, gone, stuck, torn) \in Disk
    <2> DEFINE of(xs) == {x[2] : x \in {y \in xs : y[1] = k}}
               closed == (disk[k].closed \ (of(gone) \cup of(stuck) \cup of(torn)))
                           \cup {[s EXCEPT !.meta = NoSidecar] : s \in of(stuck)}
               stray == disk[k].stray
                          \cup {[date |-> s.date, seq |-> s.seq, meta |-> s.meta]
                                  : s \in of(torn)}
    <2>1. disk[k] \in Disk
        BY DEF IInv, TypeOK
    <2>2. of(stuck) \subseteq ClosedSegment /\ of(torn) \subseteq ClosedSegment
        BY <1>1
    <2>3. closed \subseteq ClosedSegment /\ stray \subseteq Stray
        BY <1>2, <2>1, <2>2 DEF Disk
    <2>4. AfterRemoval(k, gone, stuck, torn) =
              [disk[k] EXCEPT !.closed = closed, !.stray = stray]
        BY DEF AfterRemoval
    <2> HIDE DEF closed, stray
    <2> QED
        BY <2>1, <2>3, <2>4, ZenonT(30) DEF Disk
<1>4. disk' = [k \in Kinds |-> AfterRemoval(k, gone, stuck, torn)]
    BY DEF RemoveSegments
<1>5. \A x \in gone \cup torn : ReadSegment(x[2].members) \subseteq Record
    BY <1>1, <1>2
<1>6. removed' \subseteq Record
    BY <1>5 DEF RemoveSegments, IInv, TypeOK
<1> QED
    BY <1>3, <1>4, <1>6

LEMMA RemoveEachTypes ==
    ASSUME IInv, NEW xs \in SUBSET ListClosed,
           NEW stuck \in Stuck(xs), NEW left \in SidecarStuck(xs),
           RemoveEach(xs, stuck, left)
    PROVE  disk' \in [Kinds -> Disk] /\ removed' \subseteq Record
<1>1. stuck \subseteq xs /\ left \subseteq xs
    BY DEF Stuck, SidecarStuck
<1> QED
    BY <1>1, RemovalTypes, ZenonT(60) DEF RemoveEach

LEMMA EnforceRetentionInv ==
    ASSUME IInv, EnforceRetention
    PROVE  IInv'
<1>1. PICK xs \in SUBSET ListClosed :
          \E stuck \in Stuck(xs), left \in SidecarStuck(xs) : RemoveEach(xs, stuck, left)
    BY DEF EnforceRetention
<1>2. PICK stuck \in Stuck(xs), left \in SidecarStuck(xs) : RemoveEach(xs, stuck, left)
    BY <1>1
<1>3. disk' \in [Kinds -> Disk] /\ removed' \subseteq Record
    BY <1>2, RemoveEachTypes
<1> QED
    BY <1>3 DEF EnforceRetention, IInv, TypeOK, BufferBounded

LEMMA RemoveInv ==
    ASSUME IInv, Remove
    PROVE  IInv'
<1>1. PICK x \in ListClosed :
          \E stuck \in Stuck({x}), left \in SidecarStuck({x}) : RemoveEach({x}, stuck, left)
    BY DEF Remove
<1>2. PICK stuck \in Stuck({x}), left \in SidecarStuck({x}) :
          RemoveEach({x}, stuck, left)
    BY <1>1
<1>3. disk' \in [Kinds -> Disk] /\ removed' \subseteq Record
    BY <1>2, RemoveEachTypes
<1> QED
    BY <1>3 DEF Remove, IInv, TypeOK, BufferBounded

\* The process dies in a step that leaves well-typed disks.
LEMMA DiesInv ==
    ASSUME IInv, Dies, disk' \in [Kinds -> Disk], removed' \subseteq Record,
           offered' \in Nat
    PROVE  IInv'
<1>1. lost' \subseteq Nat
    BY DEF Dies
<1> QED
    BY <1>1, EmptyMemory DEF Dies, IInv, TypeOK

LEMMA CrashedRotateType ==
    ASSUME NEW seg, Sound(seg), NEW d \in Disk, today \in Nat
    PROVE  CrashedRotate(seg, d) \subseteq Disk
<1>1. seg.buf \in Seq(Record) /\ InfoOK(seg)
    BY DEF Sound, Segment, InfoOK
<1>2. CrashedWrites(seg.buf, d) \subseteq Disk
    BY <1>1, InterruptedWriteTypes
<1>3. Written(d, Whole(seg.buf)) \in Disk
    BY <1>1, WrittenType, WholeType
<1>4. \A e \in Disk : UnlabelledFiles(e, seg) \subseteq Disk
    BY <1>1, UnlabelledFilesType
<1> QED
    BY <1>2, <1>3, <1>4 DEF CrashedRotate

LEMMA DiesWhileInv ==
    ASSUME IInv, NEW done, NEW interrupted, DiesWhile(done, interrupted),
           \A k \in Kinds : /\ \A r \in done[k] : r.disk \in Disk
                            /\ interrupted[k] \subseteq Disk
    PROVE  IInv'
<1>1. \A k \in Kinds : disk[k] \in Disk
    BY DEF IInv, TypeOK
<1>2. disk' \in [Kinds -> Disk]
    BY <1>1 DEF DiesWhile
<1> QED
    BY <1>2, DiesInv DEF DiesWhile, IInv, TypeOK

LEMMA CrashInFlushInv ==
    ASSUME IInv, CrashInFlush
    PROVE  IInv'
<1> DEFINE done == [k \in Kinds |-> FlushLocked(active[k], disk[k])]
           interrupted == [k \in Kinds |-> CrashedWrites(active[k].buf, disk[k])]
<1>1. ASSUME NEW k \in Kinds
      PROVE  /\ \A r \in done[k] : r.disk \in Disk
             /\ interrupted[k] \subseteq Disk
    <2>1. Sound(active[k]) /\ disk[k] \in Disk /\ active[k].buf \in Seq(Record)
        BY IInvSound DEF Sound, Segment
    <2> QED
        BY <2>1, FlushLockedOK, InterruptedWriteTypes DEF ResultOK
<1>2. DiesWhile(done, interrupted)
    BY DEF CrashInFlush
<1> HIDE DEF done, interrupted
<1> QED
    BY <1>1, <1>2, DiesWhileInv

LEMMA CrashInRotateInv ==
    ASSUME IInv, CrashInRotate
    PROVE  IInv'
<1> DEFINE done == [k \in Kinds |-> RotateLocked(active[k], disk[k])]
           interrupted == [k \in Kinds |-> CrashedRotate(active[k], disk[k])]
<1>1. ASSUME NEW k \in Kinds
      PROVE  /\ \A r \in done[k] : r.disk \in Disk
             /\ interrupted[k] \subseteq Disk
    <2>1. Sound(active[k]) /\ disk[k] \in Disk /\ today \in Nat
        BY IInvSound DEF IInv, TypeOK
    <2> QED
        BY <2>1, RotateLockedOK, CrashedRotateType DEF ResultOK
<1>2. DiesWhile(done, interrupted)
    BY DEF CrashInRotate
<1> HIDE DEF done, interrupted
<1> QED
    BY <1>1, <1>2, DiesWhileInv

LEMMA CrashInAppendInv ==
    ASSUME IInv, NEW k \in Kinds, NEW ts \in Timestamps, CrashInAppend(k, ts)
    PROVE  IInv'
<1> DEFINE r == NextRecord(ts)
           rotated == {q \in RotatedFor(active[k], disk[k], r) : q.ok}
           flushing(q) == IF Len(Accepting(q.seg, r).buf) < AutoFlush
                            THEN {} ELSE CrashedWrites(Accepting(q.seg, r).buf, q.disk)
           rotating == IF NeedsRotation(active[k], r)
                         THEN CrashedRotate(active[k], disk[k]) ELSE {}
<1>1. r \in Record
    BY DEF IInv, TypeOK, NextRecord, Timestamps, Record
<1>2. Sound(active[k]) /\ disk[k] \in Disk /\ today \in Nat
    BY IInvSound DEF IInv, TypeOK
<1>3. PICK d \in rotating \cup UNION {flushing(q) : q \in rotated} :
          disk' = [disk EXCEPT ![k] = d]
    BY DEF CrashInAppend
<1>4. d \in Disk
    <2> HIDE DEF r
    <2>1. rotating \subseteq Disk
        BY <1>2, CrashedRotateType
    <2>2. ASSUME NEW q \in rotated PROVE flushing(q) \subseteq Disk
        <3>1. Sound(q.seg) /\ q.disk \in Disk
            BY <1>2, RotatedForOK DEF ResultOK
        <3>2. Accepting(q.seg, r).buf \in Seq(Record)
            BY <1>1, <3>1, AcceptingSound DEF Sound, Segment
        <3> QED
            BY <3>1, <3>2, InterruptedWriteTypes
    <2> HIDE DEF rotating, rotated, flushing
    <2> QED
        BY <1>3, <2>1, <2>2
<1>5. disk' \in [Kinds -> Disk]
    BY <1>3, <1>4 DEF IInv, TypeOK
<1> QED
    BY <1>5, DiesInv, SMTT(60) DEF CrashInAppend, IInv, TypeOK

LEMMA CrashInRetentionInv ==
    ASSUME IInv, CrashInRetention
    PROVE  IInv'
<1>1. PICK xs \in SUBSET ListClosed :
          \E stuck \in Stuck(xs), left \in SidecarStuck(xs), x \in xs :
              LET before == {y \in xs : Before(y, x)}
              IN  RemoveSegments(before \ (stuck \cup left),
                                 (before \cap stuck) \ left,
                                 {x} \cup ((before \cap left) \ stuck))
    BY DEF CrashInRetention
<1>2. PICK stuck \in Stuck(xs), left \in SidecarStuck(xs), x \in xs :
          RemoveSegments({y \in xs : Before(y, x)} \ (stuck \cup left),
                         ({y \in xs : Before(y, x)} \cap stuck) \ left,
                         {x} \cup (({y \in xs : Before(y, x)} \cap left) \ stuck))
    BY <1>1
<1> DEFINE gone == {y \in xs : Before(y, x)} \ (stuck \cup left)
           halfway == ({y \in xs : Before(y, x)} \cap stuck) \ left
           torn == {x} \cup (({y \in xs : Before(y, x)} \cap left) \ stuck)
<1>4. /\ gone \in SUBSET ListClosed /\ halfway \in SUBSET ListClosed
      /\ torn \in SUBSET ListClosed
    OBVIOUS
<1>5. RemoveSegments(gone, halfway, torn)
    BY <1>2
<1> HIDE DEF gone, halfway, torn
<1>3. disk' \in [Kinds -> Disk] /\ removed' \subseteq Record
    BY <1>4, <1>5, RemovalTypes
<1> QED
    BY <1>3, DiesInv DEF CrashInRetention, IInv, TypeOK

LEMMA CrashInRemoveInv ==
    ASSUME IInv, CrashInRemove
    PROVE  IInv'
<1>1. PICK x \in ListClosed : RemoveSegments({}, {}, {x})
    BY DEF CrashInRemove
<1>2. disk' \in [Kinds -> Disk] /\ removed' \subseteq Record
    BY <1>1, RemovalTypes
<1> QED
    BY <1>2, DiesInv DEF CrashInRemove, IInv, TypeOK

LEMMA CrashInv ==
    ASSUME IInv, Crash
    PROVE  IInv'
BY DiesInv DEF Crash, IInv, TypeOK

LEMMA NewDayInv ==
    ASSUME IInv, NewDay
    PROVE  IInv'
BY DEF NewDay, IInv, TypeOK, BufferBounded, history

LEMMA InitInv ==
    ASSUME Init
    PROVE  IInv
<1>1. NoSegment \in Segment /\ NoFile \in File
    BY DEF NoSegment, Segment, NoFile, File
<1>2. active \in [Kinds -> Segment] /\ disk \in [Kinds -> Disk]
    BY <1>1 DEF Init, Disk
<1>3. Len(NoSegment.buf) = 0 /\ NoSegment.records = 0 /\ NoSegment.rawBuffered = 0
    BY DEF NoSegment
<1>4. BufferBounded
    BY <1>3, ConstantsAssumption DEF Init, BufferBounded
<1>5. /\ up \in BOOLEAN /\ today \in Nat \ {0} /\ dropped \in Nat /\ offered \in Nat
      /\ flushed \subseteq Record /\ removed \subseteq Record /\ lost \subseteq Nat
    BY DEF Init
<1> QED
    BY <1>2, <1>4, <1>5 DEF IInv, TypeOK

LEMMA NextInv ==
    ASSUME IInv, [Next]_vars
    PROVE  IInv'
<1>1. CASE UNCHANGED vars
    BY <1>1 DEF vars, IInv, TypeOK, BufferBounded
<1>2. CASE Operation
    BY <1>2, AppendInv, FlushInv, RotateInv, EnforceRetentionInv, RemoveInv, OpenInv
       DEF Operation
<1>3. CASE Failure
    BY <1>3, OpenFailsInv, CrashInAppendInv, CrashInFlushInv, CrashInRotateInv,
       CrashInRetentionInv, CrashInRemoveInv, CrashInv DEF Failure
<1>4. CASE NewDay
    BY <1>4, NewDayInv
<1> QED
    BY <1>1, <1>2, <1>3, <1>4 DEF Next

\* Every state of the spool is well typed: no counter goes negative, every
\* sidecar and file has the shape its readers expect.
THEOREM TypeCorrect == Spec => []TypeOK
<1>1. Init => IInv
    BY InitInv
<1>2. IInv /\ [Next]_vars => IInv'
    BY NextInv
<1>3. IInv => TypeOK
    BY DEF IInv
<1> QED
    BY <1>1, <1>2, <1>3, PTL DEF Spec

\* Memory is bounded whatever the disk does (store.go:40-41, 128-131): between
\* two calls no kind buffers AutoFlush records, and no failed write, dropped
\* batch or rotation lets a segment's counters fall below its buffer.
THEOREM BufferIsBounded == Spec => []BufferBounded
<1>1. Init => IInv
    BY InitInv
<1>2. IInv /\ [Next]_vars => IInv'
    BY NextInv
<1>3. IInv => BufferBounded
    BY DEF IInv
<1> QED
    BY <1>1, <1>2, <1>3, PTL DEF Spec

-----------------------------------------------------------------------------
(***************************************************************************)
(* What a flush reported as written stays readable until it is deleted:    *)
(* FlushedSurvive holds for every instance of Spool in which an append     *)
(* write is not cut short and a rename into closed/ does not fail.  With   *)
(* either fault it does not: SpoolShortWrite shows it of a short write,    *)
(* and README.md names the change to SpoolErrors that shows it of a rename *)
(* that fails.  TearsAreFinal holds whatever fails, a short write apart.   *)
(***************************************************************************)

\* The faults excluded.
Gentle == "short" \notin Faults /\ "rename" \notin Faults

-----------------------------------------------------------------------------
(* One kind: its segment and its disk, given the set F of flushed records. *)

\* The active file of a running store has no tear, so that what is appended to
\* it is read.
Clean(d) == AllWhole(d.file.members)

\* A file that is not there has no content.
Sealed(d) == ~d.file.present => d.file.members = <<>>

\* What rotateLocked relies on when it removes the file of a segment without
\* records: nothing in the file was reported as written.  The buffer was not
\* either.
Unsaved(seg, d, F) ==
    /\ seg.records = Len(seg.buf) => F \cap ReadSegment(d.file.members) = {}
    /\ F \cap Range(seg.buf) = {}
    /\ ~seg.open => seg.records = 0 /\ seg.buf = <<>>

\* The records that can still get into the active file, or are in it.
Held(seg, d) == Range(seg.buf) \cup ReadSegment(d.file.members)

\* What a helper called with seg and d must return.
Durable(seg, d, F, r) ==
    /\ Clean(r.disk) /\ Sealed(r.disk)
    /\ Unsaved(r.seg, r.disk, F \cup r.saved)
    /\ Held(r.seg, r.disk) \subseteq Held(seg, d)
    /\ r.saved \subseteq Held(seg, d)
    /\ F \cap OnDisk(d) \subseteq OnDisk(r.disk)
    /\ r.saved \subseteq OnDisk(r.disk)

LEMMA EmptyFile == ReadSegment(<<>>) = {} /\ AllWhole(<<>>) /\ Range(<<>>) = {}
<1>1. DOMAIN <<>> = {}
    OBVIOUS
<1>2. Reached(<<>>) = {}
    BY <1>1 DEF Reached
<1>3. ReadSegment(<<>>) = {}
    BY <1>2 DEF ReadSegment
<1>4. AllWhole(<<>>)
    BY <1>1 DEF AllWhole
<1>5. Range(<<>>) = {}
    BY <1>1 DEF Range
<1> QED
    BY <1>3, <1>4, <1>5

\* A member that is appended leaves what was on the disk readable.
LEMMA WrittenKeeps ==
    ASSUME NEW d \in Disk, NEW m \in Member
    PROVE  /\ OnDisk(d) \subseteq OnDisk(Written(d, m)) /\ Sealed(Written(d, m))
           /\ Written(d, m).file.members = Append(d.file.members, m)
           /\ OnDisk(d) \subseteq OnDisk(Opened(d)) /\ Sealed(Opened(d))
<1>1. d.file.members \in Seq(Member)
    BY DEF Disk, File
<1>2. /\ Written(d, m).file = [present |-> TRUE, members |-> Append(d.file.members, m)]
      /\ Written(d, m).closed = d.closed
    BY DEF Written, Disk
<1>3. /\ Opened(d).file.present = TRUE /\ Opened(d).file.members = d.file.members
      /\ Opened(d).closed = d.closed
    BY DEF Opened, Disk, File
<1>4. ReadSegment(d.file.members) \subseteq ReadSegment(Append(d.file.members, m))
    BY <1>1, AppendKeeps
<1> QED
    BY <1>2, <1>3, <1>4, SMTT(60) DEF OnDisk, Sealed

\* A whole member appended to a clean file is read in full.
LEMMA WholeWritten ==
    ASSUME NEW d \in Disk, Clean(d), NEW buf \in Seq(Record)
    PROVE  LET e == Written(d, Whole(buf))
           IN  /\ Clean(e)
               /\ ReadSegment(e.file.members) =
                      ReadSegment(d.file.members) \cup Range(buf)
               /\ Range(buf) \subseteq OnDisk(e)
<1> DEFINE e == Written(d, Whole(buf))
           m == Whole(buf)
<1>1. d.file.members \in Seq(Member) /\ m \in Member
    BY WholeType DEF Disk, File
<1>2. m.whole = TRUE /\ m.recs = buf
    BY DEF Whole
<1>3. e.file.members = Append(d.file.members, m)
    BY <1>1, WrittenKeeps
<1> HIDE DEF e, m
<1>4. AllWhole(e.file.members)
    BY <1>1, <1>2, <1>3, SMTT(60) DEF Clean, AllWhole
<1>5. ReadSegment(e.file.members) = ReadSegment(d.file.members) \cup Range(buf)
    BY <1>1, <1>2, <1>3, AppendReads DEF Clean
<1> QED
    BY <1>4, <1>5 DEF Clean, OnDisk, e, m

LEMMA FlushDurable ==
    ASSUME Gentle, NEW seg, Sound(seg), NEW d \in Disk, Clean(d), Sealed(d),
           NEW F, Unsaved(seg, d, F), NEW r \in FlushLocked(seg, d)
    PROVE  Durable(seg, d, F, r)
<1>1. seg.buf \in Seq(Record) /\ Len(seg.buf) \in Nat /\ seg.records \in Nat
    BY DEF Sound, Segment
<1>2. CASE seg.buf = <<>> /\ r = Result(seg, d, TRUE, {})
    BY <1>2 DEF Result, Durable, Held
<1>3. CASE seg.buf # <<>>
           /\ r = Result(Emptied(seg), Written(d, Whole(seg.buf)), TRUE, Range(seg.buf))
    <2> DEFINE e == Written(d, Whole(seg.buf))
               s == Emptied(seg)
    <2>1. s.buf = <<>> /\ s.records = seg.records /\ s.open = seg.open
        BY EmptiedSound DEF Emptied, Sound, Segment
    <2>2. /\ Clean(e) /\ Sealed(e)
          /\ ReadSegment(e.file.members) = ReadSegment(d.file.members) \cup Range(seg.buf)
          /\ Range(seg.buf) \subseteq OnDisk(e) /\ OnDisk(d) \subseteq OnDisk(e)
        BY <1>1, WholeWritten, WrittenKeeps, WholeType
    <2>3. seg.records # 0
        BY <1>1, <1>3, EmptySeq DEF Sound
    <2>4. r.seg = s /\ r.disk = e /\ r.saved = Range(seg.buf)
        BY <1>3 DEF Result
    <2> HIDE DEF e, s
    <2>5. Unsaved(s, e, F \cup Range(seg.buf))
        BY <2>1, <2>3, EmptyFile DEF Unsaved
    <2>6. Held(s, e) \subseteq Held(seg, d)
        BY <2>1, <2>2, EmptyFile DEF Held
    <2> QED
        BY <2>2, <2>4, <2>5, <2>6 DEF Durable, Held
<1>4. CASE \E e \in FailedWrites(seg.buf, d) : r = Result(seg, e, FALSE, {})
    <2>1. PICK e \in FailedWrites(seg.buf, d) : r = Result(seg, e, FALSE, {})
        BY <1>4
    <2>2. e = d \/ e = Written(d, Whole(seg.buf))
        BY DEF FailedWrites, Gentle
    <2>3. r.seg = seg /\ r.disk = e /\ r.saved = {}
        BY <2>1 DEF Result
    <2>4. CASE e = d
        BY <2>3, <2>4 DEF Durable, Held
    <2>5. CASE e = Written(d, Whole(seg.buf))
        <3>1. /\ Clean(e) /\ Sealed(e)
              /\ ReadSegment(e.file.members) = ReadSegment(d.file.members) \cup Range(seg.buf)
              /\ OnDisk(d) \subseteq OnDisk(e)
            BY <1>1, <2>5, WholeWritten, WrittenKeeps, WholeType
        <3>2. Unsaved(seg, e, F)
            BY <3>1 DEF Unsaved
        <3> QED
            BY <2>3, <3>1, <3>2 DEF Durable, Held
    <2> QED
        BY <2>2, <2>4, <2>5
<1> QED
    BY <1>2, <1>3, <1>4 DEF FlushLocked

-----------------------------------------------------------------------------
(* The other helpers.                                                      *)

\* A file that moves into closed/ stays readable, and hides nothing: the name it
\* gets is free.
LEMMA MovedKeeps ==
    ASSUME NEW d \in Disk, NEW date, NEW n \in FreeSeqs(d, date), NEW meta
    PROVE  LET e == Moved(d, date, n, meta)
           IN  e.file = NoFile /\ OnDisk(d) \subseteq OnDisk(e)
<1> DEFINE e == Moved(d, date, n, meta)
           s == [date |-> date, seq |-> n, members |-> d.file.members, meta |-> meta]
<1>1. \A c \in d.closed : ~Named(date, n, c)
    BY DEF FreeSeqs
<1>2. e.closed = {c \in d.closed : ~Named(date, n, c)} \cup {s} /\ e.file = NoFile
    BY DEF Moved
<1>3. d.closed \subseteq e.closed /\ s \in e.closed
    BY <1>1, <1>2
<1>4. s.members = d.file.members
    OBVIOUS
<1> HIDE DEF e, s
<1>5. OnDisk(d) \subseteq OnDisk(e)
    BY <1>3, <1>4 DEF OnDisk
<1> QED
    BY <1>2, <1>5 DEF e

LEMMA FilesMoved ==
    ASSUME NEW d \in Disk, NEW info,
           NEW e \in ClosedFiles(d, info) \cup UnlabelledFiles(d, info)
    PROVE  /\ e.file = NoFile /\ OnDisk(d) \subseteq OnDisk(e)
           /\ Clean(e) /\ Sealed(e) /\ ReadSegment(e.file.members) = {}
<1>1. \E n \in FreeSeqs(d, SegmentDate(info)) : \E meta :
          e = Moved(d, SegmentDate(info), n, meta)
    <2>1. CASE e \in ClosedFiles(d, info)
        BY <2>1 DEF ClosedFiles
    <2>2. CASE e \in UnlabelledFiles(d, info)
        BY <2>2 DEF UnlabelledFiles
    <2> QED
        BY <2>1, <2>2
<1>2. e.file = NoFile /\ OnDisk(d) \subseteq OnDisk(e)
    BY <1>1, MovedKeeps
<1>3. NoFile.members = <<>>
    BY DEF NoFile
<1> QED
    BY <1>2, <1>3, EmptyFile DEF Clean, Sealed

LEMMA CloseDurable ==
    ASSUME Gentle, NEW seg, Sound(seg), seg.buf = <<>>,
           NEW d \in Disk, Clean(d), Sealed(d), NEW F, Unsaved(seg, d, F),
           NEW r \in CloseSegment(seg, d)
    PROVE  Durable(seg, d, F, r) /\ r.saved = {}
<1> DEFINE none == NoSegment
<1>1. none.buf = <<>> /\ none.records = 0 /\ Range(none.buf) = {}
    BY EmptyFile DEF NoSegment
<1>2. PICK e, ok : r = Result(NoSegment, e, ok, {})
                   /\ \/ e \in ClosedFiles(d, seg) \cup UnlabelledFiles(d, seg)
                      \/ e = d /\ ReadSegment(d.file.members) \cap F = {}
                      \/ e = WithoutFile(d) /\ ReadSegment(d.file.members) \cap F = {}
    <2>1. CASE seg.records = 0
        <3>1. F \cap ReadSegment(d.file.members) = {}
            BY <2>1, Len(<<>>) = 0 DEF Unsaved
        <3> QED
            BY <2>1, <3>1 DEF CloseSegment
    <2>2. CASE seg.records # 0 /\ ~d.file.present
        <3>1. ReadSegment(d.file.members) = {}
            BY <2>2, EmptyFile DEF Sealed
        <3> QED
            BY <2>2, <3>1 DEF CloseSegment, CloseFile
    <2>3. CASE seg.records # 0 /\ d.file.present
        BY <2>3 DEF CloseSegment, CloseFile, Gentle
    <2> QED
        BY <2>1, <2>2, <2>3
<1>3. r.seg = none /\ r.disk = e /\ r.saved = {}
    BY <1>2 DEF Result
<1> HIDE DEF none
<1>4. /\ Clean(e) /\ Sealed(e) /\ F \cap ReadSegment(e.file.members) = {}
      /\ F \cap OnDisk(d) \subseteq OnDisk(e)
      /\ ReadSegment(e.file.members) \subseteq ReadSegment(d.file.members)
    <2>1. CASE e \in ClosedFiles(d, seg) \cup UnlabelledFiles(d, seg)
        BY <2>1, FilesMoved
    <2>2. CASE e = d /\ ReadSegment(d.file.members) \cap F = {}
        BY <2>2
    <2>3. CASE e = WithoutFile(d) /\ ReadSegment(d.file.members) \cap F = {}
        <3>1. e.file.members = <<>> /\ e.closed = d.closed
            BY <2>3 DEF WithoutFile, NoFile, Disk
        <3> QED
            BY <2>3, <3>1, EmptyFile DEF Clean, Sealed, OnDisk
    <2> QED
        BY <1>2, <2>1, <2>2, <2>3
<1>5. Unsaved(none, e, F) /\ Held(none, e) \subseteq Held(seg, d)
    BY <1>1, <1>4 DEF Unsaved, Held
<1> QED
    BY <1>3, <1>4, <1>5 DEF Durable

\* Two durable steps in a row.
LEMMA DurableTwice ==
    ASSUME NEW seg, NEW d, NEW F, NEW f, NEW c, Durable(seg, d, F, f),
           Durable(f.seg, f.disk, F \cup f.saved, c), NEW ok
    PROVE  Durable(seg, d, F, Result(c.seg, c.disk, ok, f.saved \cup c.saved))
<1> DEFINE r == Result(c.seg, c.disk, ok, f.saved \cup c.saved)
<1>1. r.seg = c.seg /\ r.disk = c.disk /\ r.saved = f.saved \cup c.saved
    BY DEF Result
<1>2. (F \cup f.saved) \cup c.saved = F \cup (f.saved \cup c.saved)
    OBVIOUS
<1> HIDE DEF r
<1>3. Unsaved(r.seg, r.disk, F \cup r.saved)
    BY <1>1, <1>2 DEF Durable
<1>4. Durable(seg, d, F, r)
    BY <1>1, <1>3 DEF Durable
<1> QED
    BY <1>4 DEF r

LEMMA Nothing ==
    ASSUME NEW seg, NEW d, Clean(d), Sealed(d), NEW F, Unsaved(seg, d, F), NEW ok
    PROVE  Durable(seg, d, F, Result(seg, d, ok, {}))
BY DEF Durable, Result

LEMMA RotateDurable ==
    ASSUME Gentle, NEW seg, Sound(seg), NEW d \in Disk, Clean(d), Sealed(d),
           NEW F, Unsaved(seg, d, F), NEW r \in RotateLocked(seg, d), today \in Nat
    PROVE  Durable(seg, d, F, r)
<1>1. CASE ~seg.open
    BY <1>1, Nothing DEF RotateLocked
<1>2. CASE seg.open
    <2>1. PICK f \in FlushLocked(seg, d) :
              \/ ~f.ok /\ r = f
              \/ f.ok /\ \E c \in CloseSegment(f.seg, f.disk) :
                            r = Result(c.seg, c.disk, c.ok, f.saved)
        BY <1>2 DEF RotateLocked
    <2>2. Durable(seg, d, F, f)
        BY FlushDurable
    <2>3. CASE ~f.ok /\ r = f
        BY <2>2, <2>3
    <2>4. CASE f.ok /\ \E c \in CloseSegment(f.seg, f.disk) :
                          r = Result(c.seg, c.disk, c.ok, f.saved)
        <3>1. PICK c \in CloseSegment(f.seg, f.disk) :
                  r = Result(c.seg, c.disk, c.ok, f.saved)
            BY <2>4
        <3>2. Sound(f.seg) /\ f.disk \in Disk /\ f.seg.buf = <<>>
            BY <2>4, FlushLockedOK DEF ResultOK
        <3>3. /\ Clean(f.disk) /\ Sealed(f.disk)
              /\ Unsaved(f.seg, f.disk, F \cup f.saved)
            BY <2>2 DEF Durable
        <3>4. Durable(f.seg, f.disk, F \cup f.saved, c) /\ c.saved = {}
            BY <3>2, <3>3, CloseDurable
        <3>5. Durable(seg, d, F, Result(c.seg, c.disk, c.ok, f.saved \cup c.saved))
            BY <2>2, <3>4, DurableTwice
        <3>6. f.saved \cup c.saved = f.saved
            BY <3>4
        <3> QED
            BY <3>1, <3>5, <3>6
    <2> QED
        BY <2>1, <2>3, <2>4
<1> QED
    BY <1>1, <1>2

LEMMA RotatedForDurable ==
    ASSUME Gentle, NEW seg, Sound(seg), NEW d \in Disk, Clean(d), Sealed(d),
           NEW F, Unsaved(seg, d, F), NEW r, NEW q \in RotatedFor(seg, d, r),
           today \in Nat
    PROVE  Durable(seg, d, F, q)
BY RotateDurable, Nothing DEF RotatedFor

\* A record that was never stored goes into the buffer.
LEMMA AcceptingUnsaved ==
    ASSUME NEW seg, Sound(seg), NEW d, NEW F, Unsaved(seg, d, F),
           NEW r \in Record, r \notin F
    PROVE  /\ Unsaved(Accepting(seg, r), d, F)
           /\ Held(Accepting(seg, r), d) \subseteq Held(seg, d) \cup {r}
<1> DEFINE s == IF seg.open THEN seg ELSE NewSegment(r.ts)
           a == Buffered(s, r)
<1>1. r.ts \in Nat
    BY DEF Record
<1>3. Sound(s) /\ s.buf = seg.buf /\ s.records = seg.records /\ s.open
    <2>1. CASE seg.open
        BY <2>1
    <2>2. CASE ~seg.open
        <3>1. s = NewSegment(r.ts) /\ seg.buf = <<>> /\ seg.records = 0
            BY <2>2 DEF Unsaved
        <3>2. NewSegment(r.ts).records = 0 /\ NewSegment(r.ts).open
            BY DEF NewSegment, NoSegment
        <3> QED
            BY <1>1, <3>1, <3>2, NewSegmentSound
    <2> QED
        BY <2>1, <2>2
<1> HIDE DEF s
<1>4. s.buf \in Seq(Record) /\ Len(s.buf) \in Nat /\ s.records \in Nat
    BY <1>3 DEF Sound, Segment
<1>5. a.buf = Append(s.buf, r) /\ a.records = s.records + 1
    BY <1>3, BufferedSound
<1>6. a.open = s.open
    BY <1>3 DEF Buffered, Sound, Segment
<1>7. Range(Append(s.buf, r)) = Range(s.buf) \cup {r} /\ Len(Append(s.buf, r)) = Len(s.buf) + 1
    <2>1. /\ Len(Append(s.buf, r)) = Len(s.buf) + 1
          /\ DOMAIN Append(s.buf, r) = 1 .. (Len(s.buf) + 1)
          /\ DOMAIN s.buf = 1 .. Len(s.buf)
          /\ \A i \in 1 .. Len(s.buf) : Append(s.buf, r)[i] = s.buf[i]
          /\ Append(s.buf, r)[Len(s.buf) + 1] = r
        BY <1>4
    <2>2. Range(Append(s.buf, r)) \subseteq Range(s.buf) \cup {r}
        BY <1>4, <2>1 DEF Range
    <2>3. Range(s.buf) \subseteq Range(Append(s.buf, r)) /\ r \in Range(Append(s.buf, r))
        BY <1>4, <2>1 DEF Range
    <2> QED
        BY <2>1, <2>2, <2>3
<1> HIDE DEF a
<1>8. Unsaved(a, d, F)
    <2>1. a.records = Len(a.buf) => seg.records = Len(seg.buf)
        BY <1>3, <1>4, <1>5, <1>7
    <2>2. F \cap Range(a.buf) = {}
        BY <1>3, <1>5, <1>7 DEF Unsaved
    <2> QED
        BY <1>3, <1>6, <2>1, <2>2 DEF Unsaved
<1>9. Held(a, d) \subseteq Held(seg, d) \cup {r}
    BY <1>3, <1>5, <1>7 DEF Held
<1> QED
    BY <1>8, <1>9 DEF a, s, Accepting

\* A batch is dropped: what the active file holds was not reported as written
\* if the segment has no other records.
LEMMA DropDurable ==
    ASSUME NEW seg, NEW d, NEW F, NEW f, Durable(seg, d, F, f), Sound(f.seg), NEW ok,
           f.saved = {}
    PROVE  Durable(seg, d, F, Result(DropBatch(f.seg), f.disk, ok, {}))
<1> DEFINE s == DropBatch(f.seg)
           r == Result(s, f.disk, ok, {})
<1>1. /\ f.seg \in Segment /\ f.seg.buf \in Seq(Record)
      /\ f.seg.records \in Nat /\ Len(f.seg.buf) \in Nat
    BY DEF Sound, Segment
<1>2. /\ s.buf = <<>> /\ s.records = f.seg.records - Len(f.seg.buf)
      /\ s.open = f.seg.open
    BY <1>1 DEF DropBatch, Segment
<1>3. r.seg = s /\ r.disk = f.disk /\ r.saved = {} /\ Len(<<>>) = 0
    BY DEF Result
<1> HIDE DEF s, r
<1>4. Held(s, f.disk) \subseteq Held(f.seg, f.disk)
    BY <1>2, EmptyFile DEF Held
<1>5. Unsaved(s, f.disk, F)
    <2>1. Unsaved(f.seg, f.disk, F)
        BY DEF Durable
    <2>2. s.records = Len(s.buf) => f.seg.records = Len(f.seg.buf)
        BY <1>1, <1>2, <1>3
    <2>3. ~s.open => s.records = 0
        BY <1>1, <1>2, <1>3, <2>1 DEF Unsaved
    <2> QED
        BY <1>2, <2>1, <2>2, <2>3, EmptyFile DEF Unsaved
<1>6. Durable(seg, d, F, r)
    BY <1>3, <1>4, <1>5 DEF Durable
<1> QED
    BY <1>6 DEF r, s

\* The automatic flush that may follow: it writes the buffer or drops it.
LEMMA AutoFlushDurable ==
    ASSUME Gentle, NEW seg, Sound(seg), NEW d \in Disk, Clean(d), Sealed(d), NEW F,
           NEW saved, Unsaved(seg, d, F), NEW f \in AutoFlushed(seg, d, saved)
    PROVE  \E g : /\ Durable(seg, d, F, g)
                  /\ f[1].seg = g.seg /\ f[1].disk = g.disk
                  /\ f[1].saved = saved \cup g.saved
<1>1. CASE Len(seg.buf) < AutoFlush
    <2>0. f = <<Result(seg, d, TRUE, saved), 0>>
        BY <1>1 DEF AutoFlushed
    <2>1. f[1] = Result(seg, d, TRUE, saved)
        BY <2>0
    <2>2. Durable(seg, d, F, Result(seg, d, TRUE, {}))
        BY Nothing
    <2> QED
        BY <2>1, <2>2 DEF Result
<1>2. CASE ~(Len(seg.buf) < AutoFlush)
    <2>1. PICK h \in FlushLocked(seg, d) :
              f = IF h.ok THEN <<Result(h.seg, h.disk, TRUE, saved \cup h.saved), 0>>
                  ELSE <<Result(DropBatch(h.seg), h.disk, FALSE, saved),
                         Len(h.seg.buf)>>
        BY <1>2 DEF AutoFlushed
    <2>2. Durable(seg, d, F, h) /\ Sound(h.seg)
        BY FlushDurable, FlushLockedOK DEF ResultOK
    <2>3. CASE h.ok
        BY <2>1, <2>2, <2>3 DEF Result
    <2>4. CASE ~h.ok
        <3>1. h.saved = {}
            BY <2>4 DEF FlushLocked, Result
        <3>2. Durable(seg, d, F, Result(DropBatch(h.seg), h.disk, FALSE, {}))
            BY <2>2, <3>1, DropDurable
        <3>3. f[1] = Result(DropBatch(h.seg), h.disk, FALSE, saved)
            BY <2>1, <2>4
        <3> QED
            BY <3>2, <3>3 DEF Result
    <2> QED
        BY <2>3, <2>4
<1> QED
    BY <1>1, <1>2

-----------------------------------------------------------------------------
(* The invariant.                                                          *)

\* No two kinds hold the same record, so what one of them saves was not unsaved
\* in another.
Apart ==
    \A j, k \in Kinds :
        j # k => Held(active[j], disk[j]) \cap Held(active[k], disk[k]) = {}

DurInv ==
    /\ FlushedSurvive
    /\ \A k \in Kinds : Sealed(disk[k])
    /\ \A x \in flushed : x.id <= offered
    /\ up => /\ \A k \in Kinds :
                    /\ Clean(disk[k]) /\ Unsaved(active[k], disk[k], flushed)
                    /\ \A x \in Held(active[k], disk[k]) : x.id <= offered
             /\ Apart

LEMMA DurStart ==
    ASSUME IInv, DurInv, up, NEW k \in Kinds
    PROVE  /\ Sound(active[k]) /\ disk[k] \in Disk /\ today \in Nat
           /\ Clean(disk[k]) /\ Sealed(disk[k]) /\ Unsaved(active[k], disk[k], flushed)
BY IInvSound DEF DurInv, IInv, TypeOK

\* A step of a running store that gives kind k the records in new[k] and reports
\* those in saved[k] as written.
Kept(k, new, saved, seg, e) ==
    /\ Clean(e) /\ Sealed(e)
    /\ Unsaved(seg, e, flushed \cup saved)
    /\ Held(seg, e) \subseteq Held(active[k], disk[k]) \cup new
    /\ saved \subseteq Held(active[k], disk[k]) \cup new
    /\ flushed \cap OnDisk(disk[k]) \subseteq OnDisk(e)
    /\ saved \subseteq OnDisk(e)

LEMMA StepKeeps ==
    ASSUME IInv, DurInv, up, offered' \in Nat, offered <= offered', removed' = removed,
           NEW new, NEW saved,
           \A k \in Kinds : Kept(k, new[k], saved[k], active'[k], disk'[k]),
           \A k \in Kinds : \A x \in new[k] :
               x \in Record /\ offered < x.id /\ x.id <= offered',
           \A j, k \in Kinds : j # k => new[j] \cap new[k] = {},
           flushed' = flushed \cup UNION {saved[k] : k \in Kinds}
    PROVE  DurInv'
<1>1. offered \in Nat /\ \A x \in flushed : x \in Record /\ x.id \in Nat
    BY DEF IInv, TypeOK, Record
<1>2. ASSUME NEW k \in Kinds, NEW x \in Held(active[k], disk[k])
      PROVE  x \in Record /\ x.id \in Nat /\ x.id <= offered
    <2>1. Range(active[k].buf) \subseteq Record
        BY ElementOfSeq DEF IInv, TypeOK, Segment, Range
    <2>2. ReadSegment(disk[k].file.members) \subseteq Record
        BY ReadSegmentType DEF IInv, TypeOK, Disk, File
    <2>3. x.id <= offered
        BY DEF DurInv
    <2> QED
        BY <2>1, <2>2, <2>3 DEF Held, Record
<1>3. ASSUME NEW k \in Kinds, NEW x \in Held(active[k], disk[k]) \cup new[k]
      PROVE  x \in Record /\ x.id \in Nat /\ x.id <= offered'
    BY <1>1, <1>2 DEF Record
<1>4. ASSUME NEW j \in Kinds, NEW k \in Kinds, j # k
      PROVE  (Held(active[j], disk[j]) \cup new[j])
                 \cap (Held(active[k], disk[k]) \cup new[k]) = {}
    <2>1. Held(active[j], disk[j]) \cap Held(active[k], disk[k]) = {}
        BY <1>4 DEF DurInv, Apart
    <2>2. new[j] \cap new[k] = {}
        BY <1>4
    <2>3. \A i, l \in Kinds : Held(active[i], disk[i]) \cap new[l] = {}
        BY <1>1, <1>2
    <2> QED
        BY <2>1, <2>2, <2>3
<1>5. FlushedSurvive'
    <2>1. ASSUME NEW x \in flushed, x \notin removed
          PROVE  \E k \in Kinds : x \in OnDisk(disk'[k])
        <3>1. PICK k \in Kinds : x \in OnDisk(disk[k])
            BY <2>1 DEF DurInv, FlushedSurvive, Stored
        <3> QED
            BY <3>1 DEF Kept
    <2>2. ASSUME NEW k \in Kinds, NEW x \in saved[k]
          PROVE  x \in OnDisk(disk'[k])
        BY DEF Kept
    <2> QED
        BY <2>1, <2>2 DEF FlushedSurvive, Stored
<1>6. \A x \in flushed' : x.id <= offered'
    <2>1. \A x \in flushed : x.id <= offered'
        BY <1>1 DEF DurInv
    <2>2. \A k \in Kinds : saved[k] \subseteq Held(active[k], disk[k]) \cup new[k]
        BY DEF Kept
    <2> QED
        BY <1>3, <2>1, <2>2
<1>7. ASSUME NEW k \in Kinds
      PROVE  Unsaved(active'[k], disk'[k], flushed')
    <2>1. ASSUME NEW j \in Kinds, j # k
          PROVE  saved[j] \cap Held(active'[k], disk'[k]) = {}
        <3>1. saved[j] \subseteq Held(active[j], disk[j]) \cup new[j]
            BY DEF Kept
        <3>2. Held(active'[k], disk'[k]) \subseteq Held(active[k], disk[k]) \cup new[k]
            BY DEF Kept
        <3> QED
            BY <1>4, <2>1, <3>1, <3>2
    <2>2. flushed' \cap Held(active'[k], disk'[k])
              = (flushed \cup saved[k]) \cap Held(active'[k], disk'[k])
        BY <2>1
    <2>3. Unsaved(active'[k], disk'[k], flushed \cup saved[k])
        BY DEF Kept
    <2> HIDE DEF Kept
    <2> QED
        BY <2>2, <2>3 DEF Unsaved, Held
<1>8. Apart'
    <2> SUFFICES ASSUME NEW j \in Kinds, NEW k \in Kinds, j # k
                 PROVE  Held(active'[j], disk'[j]) \cap Held(active'[k], disk'[k]) = {}
        BY DEF Apart
    <2>1. /\ Held(active'[j], disk'[j]) \subseteq Held(active[j], disk[j]) \cup new[j]
          /\ Held(active'[k], disk'[k]) \subseteq Held(active[k], disk[k]) \cup new[k]
        BY DEF Kept
    <2> QED
        BY <1>4, <2>1
<1>9. ASSUME NEW k \in Kinds
      PROVE  /\ Clean(disk'[k]) /\ Sealed(disk'[k])
             /\ \A x \in Held(active'[k], disk'[k]) : x.id <= offered'
    BY <1>3 DEF Kept
<1> QED
    BY <1>5, <1>6, <1>7, <1>8, <1>9 DEF DurInv

LEMMA ForEachKindKeeps ==
    ASSUME IInv, DurInv, NEW results, ForEachKind(results),
           \A k \in Kinds : \A r \in results[k] :
               Durable(active[k], disk[k], flushed, r)
    PROVE  DurInv'
<1>1. PICK r \in [Kinds -> UNION {results[k] : k \in Kinds}] :
          /\ \A k \in Kinds : r[k] \in results[k]
          /\ active' = [k \in Kinds |-> r[k].seg]
          /\ disk' = [k \in Kinds |-> r[k].disk]
          /\ flushed' = flushed \cup UNION {r[k].saved : k \in Kinds}
    BY DEF ForEachKind
<1>2. up /\ up' = up /\ offered' = offered /\ removed' = removed /\ offered \in Nat
    BY DEF ForEachKind, IInv, TypeOK
<1> DEFINE new == [k \in Kinds |-> {}]
           saved == [k \in Kinds |-> r[k].saved]
<1>3. \A k \in Kinds : Kept(k, new[k], saved[k], active'[k], disk'[k])
    <2> SUFFICES ASSUME NEW k \in Kinds
                 PROVE  Kept(k, {}, r[k].saved, r[k].seg, r[k].disk)
        BY <1>1
    <2>1. Durable(active[k], disk[k], flushed, r[k])
        BY <1>1
    <2> QED
        BY <2>1 DEF Durable, Kept
<1>4. \A k \in Kinds : new[k] = {} /\ saved[k] = r[k].saved
    OBVIOUS
<1>5. flushed' = flushed \cup UNION {saved[k] : k \in Kinds}
    BY <1>1
<1> HIDE DEF new, saved
<1>6. /\ \A k \in Kinds : \A x \in new[k] :
             x \in Record /\ offered < x.id /\ x.id <= offered'
      /\ \A j, k \in Kinds : j # k => new[j] \cap new[k] = {}
    BY <1>4
<1> QED
    BY <1>2, <1>3, <1>5, <1>6, StepKeeps, SMTT(60)

LEMMA FlushKeeps ==
    ASSUME Gentle, IInv, DurInv, Flush
    PROVE  DurInv'
<1> DEFINE results == [k \in Kinds |-> FlushLocked(active[k], disk[k])]
<1>1. ForEachKind(results) /\ up
    BY DEF Flush, ForEachKind
<1>2. ASSUME NEW k \in Kinds, NEW r \in results[k]
      PROVE  Durable(active[k], disk[k], flushed, r)
    BY <1>1, DurStart, FlushDurable
<1> HIDE DEF results
<1> QED
    BY <1>1, <1>2, ForEachKindKeeps

LEMMA RotateKeeps ==
    ASSUME Gentle, IInv, DurInv, Rotate
    PROVE  DurInv'
<1> DEFINE results == [k \in Kinds |-> RotateLocked(active[k], disk[k])]
<1>1. ForEachKind(results) /\ up
    BY DEF Rotate, ForEachKind
<1>2. ASSUME NEW k \in Kinds, NEW r \in results[k]
      PROVE  Durable(active[k], disk[k], flushed, r)
    BY <1>1, DurStart, RotateDurable
<1> HIDE DEF results
<1> QED
    BY <1>1, <1>2, ForEachKindKeeps

LEMMA OneKindKeeps ==
    ASSUME IInv, DurInv, up, up' = up, removed' = removed, offered' = offered + 1,
           NEW k \in Kinds, NEW r \in Record, r.id = offered + 1, NEW sv,
           NEW s, NEW d, Kept(k, {r}, sv, s, d),
           active' = [active EXCEPT ![k] = s], disk' = [disk EXCEPT ![k] = d],
           flushed' = flushed \cup sv
    PROVE  DurInv'
<1> DEFINE new == [j \in Kinds |-> IF j = k THEN {r} ELSE {}]
           saved == [j \in Kinds |-> IF j = k THEN sv ELSE {}]
<1>1. offered \in Nat /\ active \in [Kinds -> Segment] /\ disk \in [Kinds -> Disk]
    BY DEF IInv, TypeOK
<1>2. ASSUME NEW j \in Kinds
      PROVE  Kept(j, new[j], saved[j], active'[j], disk'[j])
    <2>1. CASE j = k
        BY <1>1, <2>1
    <2>2. CASE j # k
        <3>1. active'[j] = active[j] /\ disk'[j] = disk[j]
            BY <1>1, <2>2
        <3>2. new[j] = {} /\ saved[j] = {} /\ flushed \cup {} = flushed
            BY <2>2
        <3> HIDE DEF new, saved
        <3> QED
            BY <3>1, <3>2, DurStart DEF Kept
    <2> QED
        BY <2>1, <2>2
<1>3. \A j \in Kinds : (j = k => new[j] = {r} /\ saved[j] = sv)
                       /\ (j # k => new[j] = {} /\ saved[j] = {})
    OBVIOUS
<1> HIDE DEF new, saved
<1>4. flushed' = flushed \cup UNION {saved[j] : j \in Kinds}
    BY <1>3
<1>5. \A j \in Kinds : \A x \in new[j] :
          x \in Record /\ offered < x.id /\ x.id <= offered'
    BY <1>1, <1>3
<1>6. \A j, l \in Kinds : j # l => new[j] \cap new[l] = {}
    BY <1>3
<1> QED
    BY <1>1, <1>2, <1>4, <1>5, <1>6, StepKeeps

LEMMA NextRecordNew ==
    ASSUME IInv, DurInv, NEW ts \in Timestamps
    PROVE  /\ NextRecord(ts) \in Record /\ NextRecord(ts).id = offered + 1
           /\ NextRecord(ts) \notin flushed
<1>1. NextRecord(ts) \in Record /\ NextRecord(ts).id = offered + 1
    BY DEF IInv, TypeOK, NextRecord, Timestamps, Record
<1>2. offered \in Nat
    BY DEF IInv, TypeOK
<1> QED
    BY <1>1, <1>2 DEF DurInv

\* What Append, once its rotation has succeeded, gives to the automatic flush.
LEMMA AcceptingDurable ==
    ASSUME Gentle, IInv, DurInv, up, NEW k \in Kinds, NEW ts \in Timestamps,
           NEW q \in RotatedFor(active[k], disk[k], NextRecord(ts))
    PROVE  LET r == NextRecord(ts)
               a == Accepting(q.seg, r)
           IN  /\ Durable(active[k], disk[k], flushed, q)
               /\ Sound(q.seg) /\ Sound(a) /\ q.disk \in Disk
               /\ (r \notin q.saved =>
                      /\ Unsaved(a, q.disk, flushed \cup q.saved)
                      /\ Held(a, q.disk) \subseteq Held(active[k], disk[k]) \cup {r})
<1> DEFINE r == NextRecord(ts)
<1>1. r \in Record /\ r \notin flushed
    BY NextRecordNew
<1> HIDE DEF r
<1>2. /\ Sound(active[k]) /\ disk[k] \in Disk /\ today \in Nat
      /\ Clean(disk[k]) /\ Sealed(disk[k]) /\ Unsaved(active[k], disk[k], flushed)
    BY DurStart
<1>3. q \in RotatedFor(active[k], disk[k], r)
    BY DEF r
<1>4. Durable(active[k], disk[k], flushed, q)
    BY <1>2, <1>3, RotatedForDurable
<1>5. Sound(q.seg) /\ q.disk \in Disk
    BY <1>2, <1>3, RotatedForOK DEF ResultOK
<1>6. Sound(Accepting(q.seg, r))
    BY <1>1, <1>5, AcceptingSound
<1>7. ASSUME r \notin q.saved
      PROVE  /\ Unsaved(Accepting(q.seg, r), q.disk, flushed \cup q.saved)
             /\ Held(Accepting(q.seg, r), q.disk) \subseteq
                    Held(active[k], disk[k]) \cup {r}
    <2>1. Unsaved(q.seg, q.disk, flushed \cup q.saved) /\ r \notin flushed \cup q.saved
        BY <1>1, <1>4, <1>7 DEF Durable
    <2>2. /\ Unsaved(Accepting(q.seg, r), q.disk, flushed \cup q.saved)
          /\ Held(Accepting(q.seg, r), q.disk) \subseteq Held(q.seg, q.disk) \cup {r}
        BY <1>1, <1>5, <2>1, AcceptingUnsaved
    <2>3. Held(q.seg, q.disk) \subseteq Held(active[k], disk[k])
        BY <1>4 DEF Durable
    <2> QED
        BY <2>2, <2>3
<1> QED
    BY <1>4, <1>5, <1>6, <1>7 DEF r

LEMMA AppendKeepsFlushed ==
    ASSUME Gentle, IInv, DurInv, NEW k \in Kinds, NEW ts \in Timestamps,
           AppendRecord(k, ts)
    PROVE  DurInv'
<1> DEFINE r == NextRecord(ts)
<1>1. r \in Record /\ r.id = offered + 1
    BY NextRecordNew
<1>2. up /\ up' = up /\ removed' = removed /\ offered' = offered + 1 /\ offered \in Nat
    BY DEF AppendRecord, IInv, TypeOK
<1>3. r \notin Held(active[k], disk[k])
    BY <1>1, <1>2 DEF DurInv
<1> HIDE DEF r
<1>4. CASE Refused(k, r)
    <2>1. PICK q \in RotatedFor(active[k], disk[k], r) :
              /\ active' = [active EXCEPT ![k] = q.seg]
              /\ disk' = [disk EXCEPT ![k] = q.disk]
              /\ flushed' = flushed \cup q.saved
        BY <1>4 DEF Refused
    <2>2. Durable(active[k], disk[k], flushed, q)
        BY <1>2, <2>1, AcceptingDurable DEF r
    <2>3. Kept(k, {r}, q.saved, q.seg, q.disk)
        BY <2>2 DEF Durable, Kept
    <2> QED
        BY <1>1, <1>2, <2>1, <2>3, OneKindKeeps
<1>5. CASE Taken(k, r)
    <2>1. PICK q \in RotatedFor(active[k], disk[k], r) :
          \E f \in AutoFlushed(Accepting(q.seg, r), q.disk, q.saved) :
              /\ active' = [active EXCEPT ![k] = f[1].seg]
              /\ disk' = [disk EXCEPT ![k] = f[1].disk]
              /\ flushed' = flushed \cup f[1].saved
        BY <1>5 DEF Taken
    <2>2. PICK f \in AutoFlushed(Accepting(q.seg, r), q.disk, q.saved) :
              /\ active' = [active EXCEPT ![k] = f[1].seg]
              /\ disk' = [disk EXCEPT ![k] = f[1].disk]
              /\ flushed' = flushed \cup f[1].saved
        BY <2>1
    <2> DEFINE a == Accepting(q.seg, r)
    <2>3. /\ Durable(active[k], disk[k], flushed, q)
          /\ Sound(a) /\ q.disk \in Disk
          /\ (r \notin q.saved =>
                 /\ Unsaved(a, q.disk, flushed \cup q.saved)
                 /\ Held(a, q.disk) \subseteq Held(active[k], disk[k]) \cup {r})
        BY <1>2, <2>1, AcceptingDurable DEF r
    <2>4. r \notin q.saved
        BY <1>3, <2>3 DEF Durable
    <2>5. f \in AutoFlushed(a, q.disk, q.saved)
        BY <2>2
    <2> HIDE DEF a
    <2>6. Clean(q.disk) /\ Sealed(q.disk)
        BY <2>3 DEF Durable
    <2>7. PICK g : /\ Durable(a, q.disk, flushed \cup q.saved, g)
                   /\ f[1].seg = g.seg /\ f[1].disk = g.disk
                   /\ f[1].saved = q.saved \cup g.saved
        <3>1. Sound(a) /\ q.disk \in Disk /\ Unsaved(a, q.disk, flushed \cup q.saved)
            BY <2>3, <2>4
        <3> QED
            BY <2>5, <2>6, <3>1, AutoFlushDurable
    <2> DEFINE sv == q.saved \cup g.saved
    <2>8. Kept(k, {r}, sv, g.seg, g.disk)
        <3>1. Held(a, q.disk) \subseteq Held(active[k], disk[k]) \cup {r}
            BY <2>3, <2>4
        <3>2. /\ Clean(g.disk) /\ Sealed(g.disk)
              /\ Held(g.seg, g.disk) \subseteq Held(a, q.disk)
              /\ g.saved \subseteq Held(a, q.disk)
              /\ (flushed \cup q.saved) \cap OnDisk(q.disk) \subseteq OnDisk(g.disk)
              /\ g.saved \subseteq OnDisk(g.disk)
            BY <2>7 DEF Durable
        <3>3. Unsaved(g.seg, g.disk, flushed \cup sv)
            <4>1. (flushed \cup q.saved) \cup g.saved = flushed \cup sv
                OBVIOUS
            <4>2. Unsaved(g.seg, g.disk, (flushed \cup q.saved) \cup g.saved)
                BY <2>7 DEF Durable
            <4> QED
                BY <4>1, <4>2
        <3>4. /\ q.saved \subseteq Held(active[k], disk[k])
              /\ flushed \cap OnDisk(disk[k]) \subseteq OnDisk(q.disk)
              /\ q.saved \subseteq OnDisk(q.disk)
            BY <2>3 DEF Durable
        <3> QED
            BY <3>1, <3>2, <3>3, <3>4 DEF Kept
    <2>9. /\ active' = [active EXCEPT ![k] = g.seg]
          /\ disk' = [disk EXCEPT ![k] = g.disk]
          /\ flushed' = flushed \cup sv
        BY <2>2, <2>7
    <2> HIDE DEF sv
    <2> QED
        BY <1>1, <1>2, <2>8, <2>9, OneKindKeeps
<1> QED
    BY <1>4, <1>5 DEF AppendRecord, r

-----------------------------------------------------------------------------
(* Removal, recovery and death.                                            *)

\* The records of the closed segments of one kind.
Filed(d) == UNION {ReadSegment(s.members) : s \in d.closed}

\* Removal of listed segments: what leaves a disk is counted as removed, and the
\* active files are not touched.
LEMMA RemovalKeeps ==
    ASSUME IInv, NEW gone \in SUBSET ListClosed, NEW stuck \in SUBSET ListClosed,
           NEW torn \in SUBSET ListClosed, RemoveSegments(gone, stuck, torn),
           NEW k \in Kinds
    PROVE  /\ disk'[k].file = disk[k].file
           /\ OnDisk(disk[k]) \subseteq OnDisk(disk'[k]) \cup removed'
           /\ Filed(disk[k]) \subseteq Filed(disk'[k]) \cup removed'
           /\ removed \subseteq removed'
<1> DEFINE of(xs) == {x[2] : x \in {y \in xs : y[1] = k}}
           halves == {[s EXCEPT !.meta = NoSidecar] : s \in of(stuck)}
           closed == (disk[k].closed \ (of(gone) \cup of(stuck) \cup of(torn)))
                       \cup halves
           stray == disk[k].stray
                      \cup {[date |-> s.date, seq |-> s.seq, meta |-> s.meta]
                              : s \in of(torn)}
<1>1. disk[k] \in Disk
    BY DEF IInv, TypeOK
<1>2. disk'[k] = [disk[k] EXCEPT !.closed = closed, !.stray = stray]
    BY DEF RemoveSegments, AfterRemoval
<1>3. removed \subseteq removed'
      /\ \A x \in gone \cup torn : ReadSegment(x[2].members) \subseteq removed'
    BY DEF RemoveSegments
<1>4. disk'[k].file = disk[k].file /\ disk'[k].closed = closed
    <2> HIDE DEF closed, stray
    <2> QED
        BY <1>1, <1>2 DEF Disk
<1>5. ASSUME NEW s \in disk[k].closed
      PROVE  ReadSegment(s.members) \subseteq Filed(disk'[k]) \cup removed'
    <2>1. CASE s \in of(gone) \cup of(torn)
        BY <1>3, <2>1
    <2>2. CASE s \in of(stuck)
        <3>1. PICK t \in disk'[k].closed : t = [s EXCEPT !.meta = NoSidecar]
            BY <1>4, <2>2
        <3>2. t.members = s.members
            BY <1>1, <3>1 DEF Disk, ClosedSegment
        <3> QED
            BY <3>1, <3>2 DEF Filed
    <2>3. CASE s \notin of(gone) \cup of(torn) \cup of(stuck)
        BY <1>4, <2>3 DEF Filed
    <2> QED
        BY <2>1, <2>2, <2>3
<1>6. Filed(disk[k]) \subseteq Filed(disk'[k]) \cup removed'
    BY <1>5 DEF Filed
<1>7. \A d : OnDisk(d) = ReadSegment(d.file.members) \cup Filed(d)
    BY DEF OnDisk, Filed
<1> QED
    BY <1>3, <1>4, <1>6, <1>7

LEMMA RemovalDur ==
    ASSUME IInv, DurInv, NEW gone \in SUBSET ListClosed,
           NEW stuck \in SUBSET ListClosed, NEW torn \in SUBSET ListClosed,
           RemoveSegments(gone, stuck, torn),
           UNCHANGED <<up, active, offered, flushed>>
    PROVE  DurInv'
<1>1. \A k \in Kinds : /\ disk'[k].file = disk[k].file
                       /\ OnDisk(disk[k]) \subseteq OnDisk(disk'[k]) \cup removed'
    BY RemovalKeeps
<1>2. removed \subseteq removed'
    BY DEF RemoveSegments
<1>3. FlushedSurvive'
    BY <1>1, <1>2 DEF DurInv, FlushedSurvive, Stored
<1>4. \A k \in Kinds : Sealed(disk'[k])
    BY <1>1 DEF DurInv, Sealed
<1>5. \A k \in Kinds : Held(active'[k], disk'[k]) = Held(active[k], disk[k])
    BY <1>1 DEF Held
<1>6. ASSUME up
      PROVE  /\ \A k \in Kinds :
                    /\ Clean(disk'[k]) /\ Unsaved(active'[k], disk'[k], flushed)
                    /\ \A x \in Held(active'[k], disk'[k]) : x.id <= offered
             /\ Apart'
    BY <1>1, <1>5, <1>6 DEF DurInv, Clean, Unsaved, Apart
<1> QED
    BY <1>3, <1>4, <1>6 DEF DurInv

LEMMA RemoveEachDur ==
    ASSUME IInv, DurInv, NEW xs \in SUBSET ListClosed,
           NEW stuck \in Stuck(xs), NEW left \in SidecarStuck(xs),
           RemoveEach(xs, stuck, left), UNCHANGED <<up, active, offered, flushed>>
    PROVE  DurInv'
<1>1. stuck \subseteq xs /\ left \subseteq xs
    BY DEF Stuck, SidecarStuck
<1> QED
    BY <1>1, RemovalDur DEF RemoveEach

LEMMA EnforceRetentionDur ==
    ASSUME IInv, DurInv, EnforceRetention
    PROVE  DurInv'
<1>1. PICK xs \in SUBSET ListClosed :
          \E stuck \in Stuck(xs), left \in SidecarStuck(xs) : RemoveEach(xs, stuck, left)
    BY DEF EnforceRetention
<1>2. PICK stuck \in Stuck(xs), left \in SidecarStuck(xs) : RemoveEach(xs, stuck, left)
    BY <1>1
<1>3. UNCHANGED <<up, active, offered, flushed>>
    BY DEF EnforceRetention
<1> QED
    BY <1>2, <1>3, RemoveEachDur

LEMMA RemoveDur ==
    ASSUME IInv, DurInv, Remove
    PROVE  DurInv'
<1>1. PICK x \in ListClosed :
          \E stuck \in Stuck({x}), left \in SidecarStuck({x}) : RemoveEach({x}, stuck, left)
    BY DEF Remove
<1>2. PICK stuck \in Stuck({x}), left \in SidecarStuck({x}) :
          RemoveEach({x}, stuck, left)
    BY <1>1
<1>3. UNCHANGED <<up, active, offered, flushed>> /\ {x} \in SUBSET ListClosed
    BY DEF Remove
<1> QED
    BY <1>2, <1>3, RemoveEachDur

\* A disk that a step may leave for kind k without losing a flushed record.
Spared(k, e) == Sealed(e) /\ flushed \cap OnDisk(disk[k]) \subseteq OnDisk(e)

LEMMA RecoveredSpared ==
    ASSUME IInv, DurInv, NEW k \in Kinds,
           NEW e \in Recovered(disk[k]) \cup HalfRecovered(disk[k])
    PROVE  Spared(k, e) /\ (e \in Recovered(disk[k]) => e.file = NoFile)
<1>1. disk[k] \in Disk /\ Sealed(disk[k])
    BY DEF IInv, TypeOK, DurInv
<1>2. ASSUME NEW info, e \in ClosedFiles(disk[k], info) \cup UnlabelledFiles(disk[k], info)
      PROVE  Spared(k, e) /\ e.file = NoFile
    BY <1>1, <1>2, FilesMoved DEF Spared
<1>3. CASE e \in Recovered(disk[k])
    BY <1>2, <1>3 DEF Recovered
<1>4. CASE e \in HalfRecovered(disk[k]) /\ e \notin Recovered(disk[k])
    <2>1. CASE e = disk[k]
        BY <1>1, <1>4, <2>1 DEF Spared
    <2>2. CASE \E info : e \in UnlabelledFiles(disk[k], info)
        BY <1>2, <1>4, <2>2
    <2> QED
        BY <1>4, <2>1, <2>2 DEF HalfRecovered
<1> QED
    BY <1>3, <1>4

\* The disks of a store that is not open, or no longer.
LEMMA SparedDur ==
    ASSUME IInv, DurInv, up' = FALSE, flushed' = flushed, offered' \in Nat,
           offered <= offered', removed \subseteq removed',
           \A k \in Kinds :
               /\ Sealed(disk'[k])
               /\ flushed \cap OnDisk(disk[k]) \subseteq OnDisk(disk'[k]) \cup removed'
    PROVE  DurInv'
<1>1. FlushedSurvive'
    BY DEF DurInv, FlushedSurvive, Stored
<1>2. \A x \in flushed : x.id <= offered'
    BY DEF DurInv, IInv, TypeOK, Record
<1> QED
    BY <1>1, <1>2 DEF DurInv

LEMMA SparedAll ==
    ASSUME IInv, DurInv, up' = FALSE, flushed' = flushed, removed' = removed,
           offered' = offered \/ offered' = offered + 1,
           \A k \in Kinds : Spared(k, disk'[k])
    PROVE  DurInv'
<1>1. offered' \in Nat /\ offered <= offered'
    BY DEF IInv, TypeOK
<1>2. removed \subseteq removed'
    OBVIOUS
<1>3. \A k \in Kinds :
          /\ Sealed(disk'[k])
          /\ flushed \cap OnDisk(disk[k]) \subseteq OnDisk(disk'[k]) \cup removed'
    BY DEF Spared
<1> QED
    BY <1>1, <1>2, <1>3, SparedDur

LEMMA OpenDur ==
    ASSUME IInv, DurInv, Open
    PROVE  DurInv'
<1>1. ASSUME NEW k \in Kinds
      PROVE  Spared(k, disk'[k]) /\ disk'[k].file.members = <<>>
    <2>1. CASE Leftover(k)
        <3>1. disk'[k] \in Recovered(disk[k])
            BY <2>1 DEF Open
        <3> QED
            BY <3>1, RecoveredSpared DEF NoFile
    <2>2. CASE ~Leftover(k)
        <3>1. disk'[k] = disk[k]
            BY <2>2 DEF Open
        <3> QED
            BY <2>2, <3>1 DEF DurInv, Sealed, Leftover, Spared
    <2> QED
        BY <2>1, <2>2
<1>2. /\ active' = [k \in Kinds |-> NoSegment]
      /\ removed' = removed /\ flushed' = flushed /\ offered' = offered
    BY DEF Open, history
<1>3. FlushedSurvive'
    BY <1>1, <1>2 DEF DurInv, FlushedSurvive, Stored, Spared
<1>4. /\ NoSegment.buf = <<>> /\ NoSegment.records = 0
    BY DEF NoSegment
<1>5. ASSUME NEW k \in Kinds
      PROVE  /\ Clean(disk'[k]) /\ Held(active'[k], disk'[k]) = {}
             /\ Unsaved(active'[k], disk'[k], flushed)
    <2>1. active'[k] = NoSegment
        BY <1>2
    <2> QED
        BY <1>1, <1>4, <2>1, EmptyFile DEF Clean, Held, Unsaved
<1>6. Apart'
    BY <1>5 DEF Apart
<1> QED
    BY <1>1, <1>2, <1>3, <1>5, <1>6 DEF DurInv, Spared

LEMMA OpenFailsDur ==
    ASSUME IInv, DurInv, NEW c \in Kinds, OpenFails(c)
    PROVE  DurInv'
<1>1. ASSUME NEW k \in Kinds
      PROVE  Spared(k, disk'[k])
    <2>1. disk'[k] = disk[k] \/ disk'[k] \in Recovered(disk[k]) \cup HalfRecovered(disk[k])
        BY DEF OpenFails
    <2> QED
        BY <2>1, RecoveredSpared DEF Spared, DurInv
<1>2. /\ up' = FALSE /\ flushed' = flushed /\ removed' = removed
      /\ offered' = offered
    BY DEF OpenFails, history
<1> QED
    BY <1>1, <1>2, SparedAll

LEMMA CrashedWritesKeep ==
    ASSUME NEW buf \in Seq(Record), NEW d \in Disk, Sealed(d),
           NEW e \in CrashedWrites(buf, d)
    PROVE  Sealed(e) /\ OnDisk(d) \subseteq OnDisk(e)
<1>1. \A m \in {Whole(buf)} \cup TornMembers(buf) : m \in Member
    BY WholeType, TornType
<1>2. \/ e = d \/ e = Opened(d)
      \/ \E m \in {Whole(buf)} \cup TornMembers(buf) : e = Written(d, m)
    BY DEF CrashedWrites, TornWrites
<1>3. Whole(buf) \in Member
    BY <1>1
<1> QED
    BY <1>1, <1>2, <1>3, WrittenKeeps

LEMMA CrashedRotateKeep ==
    ASSUME NEW seg, Sound(seg), NEW d \in Disk, Sealed(d), NEW e \in CrashedRotate(seg, d)
    PROVE  Sealed(e) /\ OnDisk(d) \subseteq OnDisk(e)
<1>1. seg.buf \in Seq(Record)
    BY DEF Sound, Segment
<1> DEFINE w == IF seg.buf = <<>> THEN d ELSE Written(d, Whole(seg.buf))
<1>2. w \in Disk /\ OnDisk(d) \subseteq OnDisk(w)
    BY <1>1, WholeType, WrittenType, WrittenKeeps
<1>3. e = d \/ e \in CrashedWrites(seg.buf, d) \/ e \in UnlabelledFiles(w, seg)
    BY DEF CrashedRotate
<1> HIDE DEF w
<1>4. CASE e = d
    BY <1>4
<1>5. CASE e \in CrashedWrites(seg.buf, d)
    BY <1>1, <1>5, CrashedWritesKeep
<1>6. CASE e \in UnlabelledFiles(w, seg)
    BY <1>2, <1>6, FilesMoved
<1> QED
    BY <1>3, <1>4, <1>5, <1>6

LEMMA DiesWhileDur ==
    ASSUME IInv, DurInv, NEW done, NEW interrupted, DiesWhile(done, interrupted),
           \A k \in Kinds : /\ \A r \in done[k] : Spared(k, r.disk)
                            /\ \A e \in interrupted[k] : Spared(k, e)
    PROVE  DurInv'
<1>1. ASSUME NEW k \in Kinds
      PROVE  Spared(k, disk'[k])
    <2>1. \/ disk'[k] = disk[k] \/ disk'[k] \in interrupted[k]
          \/ \E r \in done[k] : disk'[k] = r.disk
        BY DEF DiesWhile
    <2> QED
        BY <2>1 DEF Spared, DurInv
<1>2. /\ up' = FALSE /\ flushed' = flushed /\ removed' = removed
      /\ offered' = offered
    BY DEF DiesWhile, Dies
<1> QED
    BY <1>1, <1>2, SparedAll

LEMMA CrashInFlushDur ==
    ASSUME Gentle, IInv, DurInv, CrashInFlush
    PROVE  DurInv'
<1> DEFINE done == [k \in Kinds |-> FlushLocked(active[k], disk[k])]
           interrupted == [k \in Kinds |-> CrashedWrites(active[k].buf, disk[k])]
<1>1. DiesWhile(done, interrupted) /\ up
    BY DEF CrashInFlush, DiesWhile
<1>2. ASSUME NEW k \in Kinds, NEW r \in done[k]
      PROVE  Spared(k, r.disk)
    <2>1. Durable(active[k], disk[k], flushed, r)
        BY <1>1, DurStart, FlushDurable
    <2> QED
        BY <2>1 DEF Durable, Spared
<1>3. ASSUME NEW k \in Kinds, NEW e \in interrupted[k]
      PROVE  Spared(k, e)
    <2>1. active[k].buf \in Seq(Record) /\ disk[k] \in Disk /\ Sealed(disk[k])
        BY <1>1, DurStart DEF Sound, Segment
    <2> QED
        BY <2>1, CrashedWritesKeep DEF Spared
<1> HIDE DEF done, interrupted
<1> QED
    BY <1>1, <1>2, <1>3, DiesWhileDur

LEMMA CrashInRotateDur ==
    ASSUME Gentle, IInv, DurInv, CrashInRotate
    PROVE  DurInv'
<1> DEFINE done == [k \in Kinds |-> RotateLocked(active[k], disk[k])]
           interrupted == [k \in Kinds |-> CrashedRotate(active[k], disk[k])]
<1>1. DiesWhile(done, interrupted) /\ up
    BY DEF CrashInRotate, DiesWhile
<1>2. ASSUME NEW k \in Kinds, NEW r \in done[k]
      PROVE  Spared(k, r.disk)
    <2>1. Durable(active[k], disk[k], flushed, r)
        BY <1>1, DurStart, RotateDurable
    <2> QED
        BY <2>1 DEF Durable, Spared
<1>3. ASSUME NEW k \in Kinds, NEW e \in interrupted[k]
      PROVE  Spared(k, e)
    <2>1. Sound(active[k]) /\ disk[k] \in Disk /\ Sealed(disk[k])
        BY <1>1, DurStart
    <2> QED
        BY <2>1, CrashedRotateKeep DEF Spared
<1> HIDE DEF done, interrupted
<1> QED
    BY <1>1, <1>2, <1>3, DiesWhileDur

LEMMA CrashInAppendDur ==
    ASSUME Gentle, IInv, DurInv, NEW k \in Kinds, NEW ts \in Timestamps,
           CrashInAppend(k, ts)
    PROVE  DurInv'
<1> DEFINE r == NextRecord(ts)
           rotated == {q \in RotatedFor(active[k], disk[k], r) : q.ok}
           flushing(q) == IF Len(Accepting(q.seg, r).buf) < AutoFlush
                            THEN {} ELSE CrashedWrites(Accepting(q.seg, r).buf, q.disk)
           rotating == IF NeedsRotation(active[k], r)
                         THEN CrashedRotate(active[k], disk[k]) ELSE {}
<1>1. PICK d \in rotating \cup UNION {flushing(q) : q \in rotated} :
          disk' = [disk EXCEPT ![k] = d]
    BY DEF CrashInAppend
<1>2. up /\ disk \in [Kinds -> Disk]
    BY DEF CrashInAppend, IInv, TypeOK
<1>3. Spared(k, d)
    <2>1. ASSUME NEW e \in rotating PROVE Spared(k, e)
        <3>1. Sound(active[k]) /\ disk[k] \in Disk /\ Sealed(disk[k])
            BY <1>2, DurStart
        <3>2. e \in CrashedRotate(active[k], disk[k])
            OBVIOUS
        <3> QED
            BY <3>1, <3>2, CrashedRotateKeep DEF Spared
    <2>2. ASSUME NEW q \in rotated, NEW e \in flushing(q) PROVE Spared(k, e)
        <3> DEFINE a == Accepting(q.seg, r)
        <3>1. e \in CrashedWrites(a.buf, q.disk)
            OBVIOUS
        <3>2. /\ Durable(active[k], disk[k], flushed, q)
              /\ Sound(a) /\ q.disk \in Disk
            BY <1>2, AcceptingDurable
        <3> HIDE DEF a
        <3>3. a.buf \in Seq(Record) /\ Sealed(q.disk)
            BY <3>2 DEF Sound, Segment, Durable
        <3>4. Sealed(e) /\ OnDisk(q.disk) \subseteq OnDisk(e)
            BY <3>1, <3>2, <3>3, CrashedWritesKeep
        <3> QED
            BY <3>2, <3>4 DEF Durable, Spared
    <2> HIDE DEF rotating, rotated, flushing
    <2> QED
        BY <1>1, <2>1, <2>2
<1>4. ASSUME NEW j \in Kinds
      PROVE  Spared(j, disk'[j])
    <2>1. CASE j = k
        BY <1>1, <1>2, <1>3, <2>1
    <2>2. CASE j # k
        BY <1>1, <1>2, <2>2 DEF Spared, DurInv
    <2> QED
        BY <2>1, <2>2
<1>5. /\ up' = FALSE /\ flushed' = flushed /\ removed' = removed
      /\ offered' = offered + 1
    BY DEF CrashInAppend, Dies
<1> QED
    BY <1>4, <1>5, SparedAll

LEMMA CrashInRemovalDur ==
    ASSUME IInv, DurInv, NEW gone \in SUBSET ListClosed,
           NEW stuck \in SUBSET ListClosed, NEW torn \in SUBSET ListClosed,
           RemoveSegments(gone, stuck, torn), offered' = offered, Dies
    PROVE  DurInv'
<1>1. \A k \in Kinds : /\ disk'[k].file = disk[k].file
                       /\ OnDisk(disk[k]) \subseteq OnDisk(disk'[k]) \cup removed'
    BY RemovalKeeps
<1>2. removed \subseteq removed'
    BY DEF RemoveSegments
<1>3. \A k \in Kinds : Sealed(disk'[k])
    BY <1>1 DEF DurInv, Sealed
<1>4. up' = FALSE /\ flushed' = flushed /\ offered' \in Nat /\ offered <= offered'
    BY DEF Dies, IInv, TypeOK
<1> QED
    BY <1>1, <1>2, <1>3, <1>4, SparedDur

LEMMA CrashInRetentionDur ==
    ASSUME IInv, DurInv, CrashInRetention
    PROVE  DurInv'
<1>1. PICK xs \in SUBSET ListClosed :
          \E stuck \in Stuck(xs), left \in SidecarStuck(xs), x \in xs :
              LET before == {y \in xs : Before(y, x)}
              IN  RemoveSegments(before \ (stuck \cup left),
                                 (before \cap stuck) \ left,
                                 {x} \cup ((before \cap left) \ stuck))
    BY DEF CrashInRetention
<1>2. PICK stuck \in Stuck(xs), left \in SidecarStuck(xs), x \in xs :
          RemoveSegments({y \in xs : Before(y, x)} \ (stuck \cup left),
                         ({y \in xs : Before(y, x)} \cap stuck) \ left,
                         {x} \cup (({y \in xs : Before(y, x)} \cap left) \ stuck))
    BY <1>1
<1> DEFINE gone == {y \in xs : Before(y, x)} \ (stuck \cup left)
           halfway == ({y \in xs : Before(y, x)} \cap stuck) \ left
           torn == {x} \cup (({y \in xs : Before(y, x)} \cap left) \ stuck)
<1>3. /\ gone \in SUBSET ListClosed /\ halfway \in SUBSET ListClosed
      /\ torn \in SUBSET ListClosed
    OBVIOUS
<1>4. RemoveSegments(gone, halfway, torn)
    BY <1>2
<1> HIDE DEF gone, halfway, torn
<1>5. offered' = offered /\ Dies
    BY DEF CrashInRetention
<1> QED
    BY <1>3, <1>4, <1>5, CrashInRemovalDur

LEMMA CrashInRemoveDur ==
    ASSUME IInv, DurInv, CrashInRemove
    PROVE  DurInv'
<1>1. PICK x \in ListClosed : RemoveSegments({}, {}, {x})
    BY DEF CrashInRemove
<1>2. offered' = offered /\ Dies
    BY DEF CrashInRemove
<1> QED
    BY <1>1, <1>2, CrashInRemovalDur

LEMMA CrashDur ==
    ASSUME IInv, DurInv, Crash
    PROVE  DurInv'
<1>1. /\ up' = FALSE /\ flushed' = flushed /\ removed' = removed
      /\ offered' = offered /\ disk' = disk
    BY DEF Crash, Dies
<1>2. \A k \in Kinds : Spared(k, disk'[k])
    BY <1>1 DEF Spared, DurInv
<1> QED
    BY <1>1, <1>2, SparedAll

LEMMA UnchangedDur ==
    ASSUME DurInv, UNCHANGED <<up, active, disk, offered, flushed, removed>>
    PROVE  DurInv'
BY DEF DurInv, FlushedSurvive, Stored, Apart

LEMMA InitDur ==
    ASSUME Init
    PROVE  DurInv
<1>1. NoSegment.buf = <<>> /\ NoSegment.records = 0 /\ NoFile.members = <<>>
    BY DEF NoSegment, NoFile
<1>2. ASSUME NEW k \in Kinds
      PROVE  /\ Sealed(disk[k]) /\ Clean(disk[k])
             /\ Unsaved(active[k], disk[k], {}) /\ Held(active[k], disk[k]) = {}
    <2>1. active[k] = NoSegment /\ disk[k].file = NoFile
        BY DEF Init
    <2> QED
        BY <1>1, <2>1, EmptyFile DEF Sealed, Clean, Unsaved, Held
<1>3. flushed = {}
    BY DEF Init
<1> QED
    BY <1>2, <1>3 DEF DurInv, FlushedSurvive, Apart

LEMMA NextDur ==
    ASSUME Gentle, IInv, DurInv, [Next]_vars
    PROVE  DurInv'
<1>1. CASE UNCHANGED vars
    BY <1>1, UnchangedDur DEF vars
<1>2. CASE Operation
    BY <1>2, AppendKeepsFlushed, FlushKeeps, RotateKeeps, EnforceRetentionDur,
       RemoveDur, OpenDur DEF Operation
<1>3. CASE Failure
    BY <1>3, OpenFailsDur, CrashInAppendDur, CrashInFlushDur, CrashInRotateDur,
       CrashInRetentionDur, CrashInRemoveDur, CrashDur DEF Failure
<1>4. CASE NewDay
    BY <1>4, UnchangedDur DEF NewDay, history
<1> QED
    BY <1>1, <1>2, <1>3, <1>4 DEF Next

\* What Flush, Rotate or an automatic flush reported as written can be read from a
\* spool file until its segment is deleted, over any number of crashes, failed
\* syncs, failed sidecar writes, refused removals and recoveries (store.go:7-9,
\* 13-14), if no append write is cut short and no rename into closed/ fails.
THEOREM FlushedRecordsSurvive ==
    ASSUME Gentle
    PROVE  Spec => []FlushedSurvive
<1>1. Init => IInv /\ DurInv
    BY InitInv, InitDur
<1>2. (IInv /\ DurInv) /\ [Next]_vars => (IInv /\ DurInv)'
    BY NextInv, NextDur
<1>3. IInv /\ DurInv => FlushedSurvive
    BY DEF DurInv
<1> QED
    BY <1>1, <1>2, <1>3, PTL DEF Spec

-----------------------------------------------------------------------------
(* Where tears can be.                                                     *)

Smooth == "short" \notin Faults

\* On the disk of one kind, a tear is the last member of its file.
Intact(d) ==
    /\ Sealed(d) /\ OnlyTailTorn(d.file.members)
    /\ \A s \in d.closed : OnlyTailTorn(s.members)

\* A disk to which a running store may append.
Tidy(d) == Clean(d) /\ Intact(d)

TearInv == \A k \in Kinds : Intact(disk[k]) /\ (up => Clean(disk[k]))

LEMMA TidyStart ==
    ASSUME IInv, TearInv, NEW k \in Kinds
    PROVE  /\ Sound(active[k]) /\ active[k].buf \in Seq(Record)
           /\ disk[k] \in Disk /\ today \in Nat
           /\ Intact(disk[k]) /\ (up => Tidy(disk[k]))
BY IInvSound DEF TearInv, Tidy, IInv, TypeOK, Sound, Segment

LEMMA WrittenIntact ==
    ASSUME NEW d \in Disk, Tidy(d), NEW m \in Member
    PROVE  /\ Intact(Written(d, m)) /\ Intact(Opened(d))
           /\ m.whole => Tidy(Written(d, m))
<1>1. d.file.members \in Seq(Member) /\ AllWhole(d.file.members)
    BY DEF Disk, File, Tidy, Clean
<1> DEFINE more == Append(d.file.members, m)
<1>2. /\ Written(d, m).file.members = more /\ Written(d, m).closed = d.closed
      /\ Opened(d).file.members = d.file.members /\ Opened(d).closed = d.closed
      /\ Sealed(Written(d, m)) /\ Sealed(Opened(d))
    BY WrittenKeeps DEF Written, Opened, Disk, File
<1>3. /\ Len(more) = Len(d.file.members) + 1 /\ Len(d.file.members) \in Nat
      /\ DOMAIN more = 1 .. (Len(d.file.members) + 1)
      /\ DOMAIN d.file.members = 1 .. Len(d.file.members)
      /\ \A i \in 1 .. Len(d.file.members) : more[i] = d.file.members[i]
      /\ more[Len(d.file.members) + 1] = m
    BY <1>1
<1> HIDE DEF more
<1>4. \A i \in DOMAIN more : i < Len(more) => more[i].whole
    BY <1>1, <1>3, SMTT(60) DEF AllWhole
<1>5. m.whole => \A i \in DOMAIN more : more[i].whole
    BY <1>1, <1>3, SMTT(60) DEF AllWhole
<1> QED
    BY <1>2, <1>4, <1>5 DEF Tidy, Intact, Clean, OnlyTailTorn, AllWhole

LEMMA FilesIntact ==
    ASSUME NEW d \in Disk, Intact(d), NEW info,
           NEW e \in ClosedFiles(d, info) \cup UnlabelledFiles(d, info)
    PROVE  Tidy(e) /\ e.file = NoFile
<1>1. PICK n \in FreeSeqs(d, SegmentDate(info)) : \E meta :
          e = Moved(d, SegmentDate(info), n, meta)
    <2>1. CASE e \in ClosedFiles(d, info)
        BY <2>1 DEF ClosedFiles
    <2>2. CASE e \in UnlabelledFiles(d, info)
        BY <2>2 DEF UnlabelledFiles
    <2> QED
        BY <2>1, <2>2
<1>2. PICK meta : e = Moved(d, SegmentDate(info), n, meta)
    BY <1>1
<1> DEFINE s == [date |-> SegmentDate(info), seq |-> n,
                 members |-> d.file.members, meta |-> meta]
<1>3. /\ s.members = d.file.members
      /\ e.closed \subseteq d.closed \cup {s}
    BY <1>2 DEF Moved
<1> HIDE DEF s
<1>4. \A c \in e.closed : OnlyTailTorn(c.members)
    BY <1>3 DEF Intact
<1>5. e.file = NoFile /\ Clean(e) /\ Sealed(e)
    BY FilesMoved
<1> QED
    BY <1>4, <1>5 DEF Tidy, Intact, Clean, AllWhole, OnlyTailTorn

LEMMA FlushTidy ==
    ASSUME Smooth, NEW seg, seg.buf \in Seq(Record), NEW d \in Disk, Tidy(d),
           NEW r \in FlushLocked(seg, d)
    PROVE  Tidy(r.disk)
<1>1. r.disk = d \/ r.disk = Written(d, Whole(seg.buf))
    BY DEF FlushLocked, FailedWrites, Smooth, Result
<1>2. Tidy(Written(d, Whole(seg.buf)))
    BY WholeType, WrittenIntact DEF Whole
<1> QED
    BY <1>1, <1>2

LEMMA CloseTidy ==
    ASSUME NEW seg, NEW d \in Disk, Tidy(d), NEW r \in CloseSegment(seg, d)
    PROVE  Tidy(r.disk)
<1>1. CASE r.disk = d
    BY <1>1
<1>2. CASE r.disk = WithoutFile(d)
    <2>1. r.disk.file = NoFile /\ r.disk.closed = d.closed
        BY <1>2 DEF WithoutFile, Disk
    <2>2. NoFile.members = <<>>
        BY DEF NoFile
    <2> QED
        BY <2>1, <2>2, EmptyFile
        DEF Tidy, Intact, Clean, Sealed, AllWhole, OnlyTailTorn
<1>3. CASE r.disk \in ClosedFiles(d, seg) \cup UnlabelledFiles(d, seg)
    BY <1>3, FilesIntact DEF Tidy
<1> QED
    BY <1>1, <1>2, <1>3 DEF CloseSegment, CloseFile, Result

LEMMA RotateTidy ==
    ASSUME Smooth, NEW seg, Sound(seg), NEW d \in Disk, Tidy(d),
           NEW r \in RotateLocked(seg, d)
    PROVE  Tidy(r.disk)
<1>1. CASE ~seg.open
    BY <1>1 DEF RotateLocked, Result
<1>2. CASE seg.open
    <2>1. PICK f \in FlushLocked(seg, d) :
              \/ r = f
              \/ \E c \in CloseSegment(f.seg, f.disk) :
                     r = Result(c.seg, c.disk, c.ok, f.saved)
        BY <1>2 DEF RotateLocked
    <2>2. Tidy(f.disk) /\ f.disk \in Disk
        BY FlushTidy, FlushLockedOK DEF ResultOK, Sound, Segment
    <2>3. \A c \in CloseSegment(f.seg, f.disk) : Tidy(c.disk)
        BY <2>2, CloseTidy
    <2> QED
        BY <2>1, <2>2, <2>3 DEF Result
<1> QED
    BY <1>1, <1>2

LEMMA RotatedForTidy ==
    ASSUME Smooth, NEW seg, Sound(seg), NEW d \in Disk, Tidy(d), NEW r \in Record,
           NEW q \in RotatedFor(seg, d, r), today \in Nat
    PROVE  /\ Tidy(q.disk) /\ q.disk \in Disk
           /\ Accepting(q.seg, r).buf \in Seq(Record)
<1>1. Tidy(q.disk)
    BY RotateTidy DEF RotatedFor, Result
<1>2. Sound(q.seg) /\ q.disk \in Disk
    BY RotatedForOK DEF ResultOK
<1> QED
    BY <1>1, <1>2, AcceptingSound DEF Sound, Segment

LEMMA AutoFlushTidy ==
    ASSUME Smooth, NEW seg, seg.buf \in Seq(Record), NEW d \in Disk, Tidy(d),
           NEW saved, NEW f \in AutoFlushed(seg, d, saved)
    PROVE  Tidy(f[1].disk)
<1>1. CASE Len(seg.buf) < AutoFlush
    <2>1. f = <<Result(seg, d, TRUE, saved), 0>>
        BY <1>1 DEF AutoFlushed
    <2> QED
        BY <2>1 DEF Result
<1>2. CASE ~(Len(seg.buf) < AutoFlush)
    <2>1. PICK h \in FlushLocked(seg, d) :
              f = IF h.ok THEN <<Result(h.seg, h.disk, TRUE, saved \cup h.saved), 0>>
                  ELSE <<Result(DropBatch(h.seg), h.disk, FALSE, saved),
                         Len(h.seg.buf)>>
        BY <1>2 DEF AutoFlushed
    <2>2. f[1].disk = h.disk
        BY <2>1 DEF Result
    <2> QED
        BY <2>2, FlushTidy
<1> QED
    BY <1>1, <1>2

LEMMA CrashedWritesIntact ==
    ASSUME NEW buf \in Seq(Record), NEW d \in Disk, Tidy(d),
           NEW e \in CrashedWrites(buf, d)
    PROVE  Intact(e)
<1>1. \A m \in {Whole(buf)} \cup TornMembers(buf) : m \in Member
    BY WholeType, TornType
<1>2. \/ e = d \/ e = Opened(d)
      \/ \E m \in {Whole(buf)} \cup TornMembers(buf) : e = Written(d, m)
    BY DEF CrashedWrites, TornWrites
<1>3. Whole(buf) \in Member
    BY <1>1
<1> QED
    BY <1>1, <1>2, <1>3, WrittenIntact DEF Tidy

LEMMA CrashedRotateIntact ==
    ASSUME NEW seg, Sound(seg), NEW d \in Disk, Tidy(d), NEW e \in CrashedRotate(seg, d)
    PROVE  Intact(e)
<1>1. seg.buf \in Seq(Record)
    BY DEF Sound, Segment
<1> DEFINE w == IF seg.buf = <<>> THEN d ELSE Written(d, Whole(seg.buf))
<1>2. w \in Disk /\ Intact(w)
    BY <1>1, WholeType, WrittenType, WrittenIntact DEF Tidy
<1>3. e = d \/ e \in CrashedWrites(seg.buf, d) \/ e \in UnlabelledFiles(w, seg)
    BY DEF CrashedRotate
<1> HIDE DEF w
<1> QED
    BY <1>1, <1>2, <1>3, CrashedWritesIntact, FilesIntact DEF Tidy

LEMMA RecoveredIntact ==
    ASSUME NEW d \in Disk, Intact(d)
    PROVE  /\ \A e \in Recovered(d) : Tidy(e)
           /\ \A e \in HalfRecovered(d) : Intact(e)
<1>1. ASSUME NEW info, NEW e \in ClosedFiles(d, info) \cup UnlabelledFiles(d, info)
      PROVE  Tidy(e)
    BY FilesIntact
<1>2. ASSUME NEW e \in Recovered(d) PROVE Tidy(e)
    BY <1>1, <1>2 DEF Recovered
<1>3. ASSUME NEW e \in HalfRecovered(d) PROVE Intact(e)
    <2>1. e = d \/ \E info : e \in UnlabelledFiles(d, info)
        BY DEF HalfRecovered
    <2> QED
        BY <1>1, <2>1 DEF Tidy
<1> QED
    BY <1>2, <1>3

-----------------------------------------------------------------------------
(* The steps.                                                              *)

\* A step after which the store is not open.
LEMMA StoppedTears ==
    ASSUME up' = FALSE, \A k \in Kinds : Intact(disk'[k])
    PROVE  TearInv'
BY DEF TearInv

LEMMA RunningTears ==
    ASSUME \A k \in Kinds : Tidy(disk'[k])
    PROVE  TearInv'
BY DEF TearInv, Tidy

LEMMA AppendTears ==
    ASSUME Smooth, IInv, TearInv, NEW k \in Kinds, NEW ts \in Timestamps,
           AppendRecord(k, ts)
    PROVE  TearInv'
<1> DEFINE r == NextRecord(ts)
<1>1. r \in Record /\ up
    BY DEF IInv, TypeOK, NextRecord, Timestamps, Record, AppendRecord
<1>2. /\ Sound(active[k]) /\ disk[k] \in Disk /\ today \in Nat /\ Tidy(disk[k])
      /\ disk \in [Kinds -> Disk]
    BY <1>1, TidyStart DEF IInv, TypeOK
<1>3. Refused(k, r) \/ Taken(k, r)
    BY DEF AppendRecord
<1> HIDE DEF r
<1>4. PICK q \in RotatedFor(active[k], disk[k], r) :
          \/ disk' = [disk EXCEPT ![k] = q.disk]
          \/ \E f \in AutoFlushed(Accepting(q.seg, r), q.disk, q.saved) :
                 disk' = [disk EXCEPT ![k] = f[1].disk]
    BY <1>3 DEF Refused, Taken
<1>5. /\ Tidy(q.disk) /\ q.disk \in Disk
      /\ Accepting(q.seg, r).buf \in Seq(Record)
    BY <1>1, <1>2, RotatedForTidy
<1>6. \A f \in AutoFlushed(Accepting(q.seg, r), q.disk, q.saved) : Tidy(f[1].disk)
    BY <1>5, AutoFlushTidy
<1>7. Tidy(disk'[k])
    BY <1>2, <1>4, <1>5, <1>6
<1>8. \A j \in Kinds : j # k => disk'[j] = disk[j]
    BY <1>2, <1>4
<1>9. \A j \in Kinds : Tidy(disk[j])
    BY <1>1, TidyStart
<1> QED
    BY <1>7, <1>8, <1>9, RunningTears

LEMMA FlushTears ==
    ASSUME Smooth, IInv, TearInv, Flush
    PROVE  TearInv'
<1>1. up /\ \A k \in Kinds : \E r \in FlushLocked(active[k], disk[k]) :
                disk'[k] = r.disk
    BY DEF Flush, ForEachKind
<1>2. ASSUME NEW k \in Kinds PROVE Tidy(disk'[k])
    BY <1>1, TidyStart, FlushTidy
<1> QED
    BY <1>2, RunningTears

LEMMA RotateTears ==
    ASSUME Smooth, IInv, TearInv, Rotate
    PROVE  TearInv'
<1>1. up /\ \A k \in Kinds : \E r \in RotateLocked(active[k], disk[k]) :
                disk'[k] = r.disk
    BY DEF Rotate, ForEachKind
<1>2. ASSUME NEW k \in Kinds PROVE Tidy(disk'[k])
    BY <1>1, TidyStart, RotateTidy
<1> QED
    BY <1>2, RunningTears

LEMMA OpenTears ==
    ASSUME IInv, TearInv, Open
    PROVE  TearInv'
<1>1. ASSUME NEW k \in Kinds PROVE Tidy(disk'[k])
    <2>1. disk[k] \in Disk /\ Intact(disk[k])
        BY TidyStart
    <2>2. CASE Leftover(k)
        BY <2>1, <2>2, RecoveredIntact DEF Open
    <2>3. CASE ~Leftover(k)
        <3>1. disk'[k] = disk[k] /\ disk[k].file.members = <<>>
            BY <2>1, <2>3 DEF Open, Leftover, Intact, Sealed
        <3> QED
            BY <2>1, <3>1, EmptyFile DEF Tidy, Clean
    <2> QED
        BY <2>2, <2>3
<1> QED
    BY <1>1, RunningTears

LEMMA OpenFailsTears ==
    ASSUME IInv, TearInv, NEW c \in Kinds, OpenFails(c)
    PROVE  TearInv'
<1>1. ASSUME NEW k \in Kinds PROVE Intact(disk'[k])
    <2>1. disk'[k] = disk[k] \/ disk'[k] \in Recovered(disk[k]) \cup HalfRecovered(disk[k])
        BY DEF OpenFails
    <2> QED
        BY <2>1, TidyStart, RecoveredIntact DEF Tidy
<1>2. up' = FALSE
    BY DEF OpenFails
<1> QED
    BY <1>1, <1>2, StoppedTears

\* A removal leaves the active file alone and moves no member.
LEMMA RemovalTears ==
    ASSUME IInv, TearInv, NEW gone \in SUBSET ListClosed,
           NEW stuck \in SUBSET ListClosed, NEW torn \in SUBSET ListClosed,
           RemoveSegments(gone, stuck, torn), up' => up
    PROVE  TearInv'
<1>1. ASSUME NEW k \in Kinds
      PROVE  Intact(disk'[k]) /\ (up => Clean(disk'[k]))
    <2> DEFINE of(xs) == {x[2] : x \in {y \in xs : y[1] = k}}
               halves == {[s EXCEPT !.meta = NoSidecar] : s \in of(stuck)}
    <2>1. disk[k] \in Disk /\ Intact(disk[k]) /\ (up => Clean(disk[k]))
        BY TidyStart DEF Tidy
    <2>2. of(stuck) \subseteq disk[k].closed
        BY DEF ListClosed
    <2>3. disk'[k].file = disk[k].file
        BY RemovalKeeps
    <2>4. disk'[k].closed \subseteq disk[k].closed \cup halves
        BY <2>1 DEF RemoveSegments, AfterRemoval, Disk
    <2>5. \A h \in halves : \E s \in disk[k].closed : h.members = s.members
        BY <2>1, <2>2 DEF Disk, ClosedSegment
    <2> HIDE DEF halves
    <2>6. \A s \in disk'[k].closed : OnlyTailTorn(s.members)
        BY <2>1, <2>4, <2>5 DEF Intact
    <2> QED
        BY <2>1, <2>3, <2>6 DEF Intact, Sealed, Clean
<1> QED
    BY <1>1 DEF TearInv

LEMMA RemoveEachTears ==
    ASSUME IInv, TearInv, NEW xs \in SUBSET ListClosed,
           NEW stuck \in Stuck(xs), NEW left \in SidecarStuck(xs),
           RemoveEach(xs, stuck, left), up' = up
    PROVE  TearInv'
<1>1. stuck \subseteq xs /\ left \subseteq xs
    BY DEF Stuck, SidecarStuck
<1> QED
    BY <1>1, RemovalTears DEF RemoveEach

LEMMA EnforceRetentionTears ==
    ASSUME IInv, TearInv, EnforceRetention
    PROVE  TearInv'
<1>1. PICK xs \in SUBSET ListClosed :
          \E stuck \in Stuck(xs), left \in SidecarStuck(xs) : RemoveEach(xs, stuck, left)
    BY DEF EnforceRetention
<1>2. up' = up
    BY DEF EnforceRetention
<1> QED
    BY <1>1, <1>2, RemoveEachTears

LEMMA RemoveTears ==
    ASSUME IInv, TearInv, Remove
    PROVE  TearInv'
<1>1. PICK x \in ListClosed :
          \E stuck \in Stuck({x}), left \in SidecarStuck({x}) : RemoveEach({x}, stuck, left)
    BY DEF Remove
<1>2. up' = up /\ {x} \in SUBSET ListClosed
    BY DEF Remove
<1> QED
    BY <1>1, <1>2, RemoveEachTears

LEMMA DiesWhileTears ==
    ASSUME IInv, TearInv, NEW done, NEW interrupted, DiesWhile(done, interrupted),
           \A k \in Kinds : /\ \A r \in done[k] : Intact(r.disk)
                            /\ \A e \in interrupted[k] : Intact(e)
    PROVE  TearInv'
<1>1. ASSUME NEW k \in Kinds PROVE Intact(disk'[k])
    <2>1. \/ disk'[k] = disk[k] \/ disk'[k] \in interrupted[k]
          \/ \E r \in done[k] : disk'[k] = r.disk
        BY DEF DiesWhile
    <2> QED
        BY <2>1, TidyStart
<1>2. up' = FALSE
    BY DEF DiesWhile, Dies
<1> QED
    BY <1>1, <1>2, StoppedTears

LEMMA CrashInFlushTears ==
    ASSUME Smooth, IInv, TearInv, CrashInFlush
    PROVE  TearInv'
<1> DEFINE done == [k \in Kinds |-> FlushLocked(active[k], disk[k])]
           interrupted == [k \in Kinds |-> CrashedWrites(active[k].buf, disk[k])]
<1>1. DiesWhile(done, interrupted) /\ up
    BY DEF CrashInFlush, DiesWhile
<1>2. ASSUME NEW k \in Kinds, NEW r \in done[k] PROVE Intact(r.disk)
    BY <1>1, TidyStart, FlushTidy DEF Tidy
<1>3. ASSUME NEW k \in Kinds, NEW e \in interrupted[k] PROVE Intact(e)
    BY <1>1, TidyStart, CrashedWritesIntact
<1> HIDE DEF done, interrupted
<1> QED
    BY <1>1, <1>2, <1>3, DiesWhileTears

LEMMA CrashInRotateTears ==
    ASSUME Smooth, IInv, TearInv, CrashInRotate
    PROVE  TearInv'
<1> DEFINE done == [k \in Kinds |-> RotateLocked(active[k], disk[k])]
           interrupted == [k \in Kinds |-> CrashedRotate(active[k], disk[k])]
<1>1. DiesWhile(done, interrupted) /\ up
    BY DEF CrashInRotate, DiesWhile
<1>2. ASSUME NEW k \in Kinds, NEW r \in done[k] PROVE Intact(r.disk)
    BY <1>1, TidyStart, RotateTidy DEF Tidy
<1>3. ASSUME NEW k \in Kinds, NEW e \in interrupted[k] PROVE Intact(e)
    BY <1>1, TidyStart, CrashedRotateIntact
<1> HIDE DEF done, interrupted
<1> QED
    BY <1>1, <1>2, <1>3, DiesWhileTears

LEMMA CrashInAppendTears ==
    ASSUME Smooth, IInv, TearInv, NEW k \in Kinds, NEW ts \in Timestamps,
           CrashInAppend(k, ts)
    PROVE  TearInv'
<1> DEFINE r == NextRecord(ts)
           rotated == {q \in RotatedFor(active[k], disk[k], r) : q.ok}
           flushing(q) == IF Len(Accepting(q.seg, r).buf) < AutoFlush
                            THEN {} ELSE CrashedWrites(Accepting(q.seg, r).buf, q.disk)
           rotating == IF NeedsRotation(active[k], r)
                         THEN CrashedRotate(active[k], disk[k]) ELSE {}
<1>1. PICK d \in rotating \cup UNION {flushing(q) : q \in rotated} :
          disk' = [disk EXCEPT ![k] = d]
    BY DEF CrashInAppend
<1>2. r \in Record /\ up /\ up' = FALSE /\ disk \in [Kinds -> Disk]
    BY DEF IInv, TypeOK, NextRecord, Timestamps, Record, CrashInAppend, Dies
<1>3. Sound(active[k]) /\ disk[k] \in Disk /\ today \in Nat /\ Tidy(disk[k])
    BY <1>2, TidyStart
<1>4. ASSUME NEW e \in rotating PROVE Intact(e)
    BY <1>3, CrashedRotateIntact
<1>5. ASSUME NEW q \in rotated, NEW e \in flushing(q) PROVE Intact(e)
    <2>1. /\ Tidy(q.disk) /\ q.disk \in Disk
          /\ Accepting(q.seg, r).buf \in Seq(Record)
        <3> HIDE DEF r
        <3> QED
            BY <1>2, <1>3, RotatedForTidy
    <2>2. e \in CrashedWrites(Accepting(q.seg, r).buf, q.disk)
        OBVIOUS
    <2> QED
        BY <2>1, <2>2, CrashedWritesIntact
<1> HIDE DEF r, rotated, flushing, rotating
<1>6. Intact(d)
    BY <1>1, <1>4, <1>5
<1>7. ASSUME NEW j \in Kinds PROVE Intact(disk'[j])
    BY <1>1, <1>2, <1>6, TidyStart
<1> QED
    BY <1>2, <1>7, StoppedTears

LEMMA CrashInRetentionTears ==
    ASSUME IInv, TearInv, CrashInRetention
    PROVE  TearInv'
<1>1. PICK xs \in SUBSET ListClosed :
          \E stuck \in Stuck(xs), left \in SidecarStuck(xs), x \in xs :
              LET before == {y \in xs : Before(y, x)}
              IN  RemoveSegments(before \ (stuck \cup left),
                                 (before \cap stuck) \ left,
                                 {x} \cup ((before \cap left) \ stuck))
    BY DEF CrashInRetention
<1>2. \E gone, halfway, torn \in SUBSET ListClosed :
          RemoveSegments(gone, halfway, torn)
    <2>1. PICK stuck \in Stuck(xs), left \in SidecarStuck(xs), x \in xs :
              RemoveSegments({y \in xs : Before(y, x)} \ (stuck \cup left),
                             ({y \in xs : Before(y, x)} \cap stuck) \ left,
                             {x} \cup (({y \in xs : Before(y, x)} \cap left) \ stuck))
        BY <1>1
    <2>2. /\ {y \in xs : Before(y, x)} \ (stuck \cup left) \in SUBSET ListClosed
          /\ ({y \in xs : Before(y, x)} \cap stuck) \ left \in SUBSET ListClosed
          /\ {x} \cup (({y \in xs : Before(y, x)} \cap left) \ stuck) \in SUBSET ListClosed
        OBVIOUS
    <2> QED
        BY <2>1, <2>2
<1>3. up' = FALSE
    BY DEF CrashInRetention, Dies
<1> QED
    BY <1>2, <1>3, RemovalTears

LEMMA CrashInRemoveTears ==
    ASSUME IInv, TearInv, CrashInRemove
    PROVE  TearInv'
<1>1. PICK x \in ListClosed : RemoveSegments({}, {}, {x})
    BY DEF CrashInRemove
<1>2. up' = FALSE /\ {} \in SUBSET ListClosed /\ {x} \in SUBSET ListClosed
    BY DEF CrashInRemove, Dies
<1> QED
    BY <1>1, <1>2, RemovalTears

LEMMA NextTears ==
    ASSUME Smooth, IInv, TearInv, [Next]_vars
    PROVE  TearInv'
<1>1. CASE up' = up /\ disk' = disk
    BY <1>1 DEF TearInv
<1>2. CASE Crash
    <2>1. up' = FALSE /\ disk' = disk
        BY <1>2 DEF Crash, Dies
    <2> QED
        BY <2>1 DEF TearInv
<1>3. CASE Operation
    BY <1>3, AppendTears, FlushTears, RotateTears, EnforceRetentionTears,
       RemoveTears, OpenTears DEF Operation
<1>4. CASE Failure
    BY <1>2, <1>4, OpenFailsTears, CrashInAppendTears, CrashInFlushTears,
       CrashInRotateTears, CrashInRetentionTears, CrashInRemoveTears DEF Failure
<1> QED
    BY <1>1, <1>3, <1>4 DEF Next, NewDay, vars

LEMMA InitTears ==
    ASSUME Init
    PROVE  TearInv
<1>1. \A k \in Kinds : disk[k].file = NoFile /\ disk[k].closed = {}
    BY DEF Init
<1>2. NoFile.members = <<>>
    BY DEF NoFile
<1> QED
    BY <1>1, <1>2, EmptyFile
    DEF TearInv, Intact, Sealed, Clean, AllWhole, OnlyTailTorn

\* A tear is always the last member of its file: over any number of crashes in a
\* write, failed syncs, renames, sidecars and removals, and recoveries that fail
\* half-way, nothing is written behind a torn member (store.go:7-9), if no append
\* write of a process that goes on running is cut short.
THEOREM TearsStayFinal ==
    ASSUME Smooth
    PROVE  Spec => []TearsAreFinal
<1>1. Init => IInv /\ TearInv
    BY InitInv, InitTears
<1>2. (IInv /\ TearInv) /\ [Next]_vars => (IInv /\ TearInv)'
    BY NextInv, NextTears
<1>3. IInv /\ TearInv => TearsAreFinal
    BY DEF TearInv, Intact, TearsAreFinal
<1> QED
    BY <1>1, <1>2, <1>3, PTL DEF Spec
=============================================================================
