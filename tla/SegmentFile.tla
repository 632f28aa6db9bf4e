----------------------------- MODULE SegmentFile -----------------------------
(***************************************************************************)
(* The on-disk format of one telemetry segment (internal/store/store.go):  *)
(* a file of concatenated gzip members, each holding whole NDJSON records. *)
(* A member is abstracted to the records a reader gets out of it and       *)
(* whether it is whole.  A torn member (a short write, a crash during the  *)
(* write) yields some prefix of its records and ends the decoding: nothing *)
(* behind it is reached.                                                   *)
(***************************************************************************)
EXTENDS Integers, Sequences, FiniteSets, Functions

\* A record is a unique number and the UTC day of its Meta timestamp.  Day 0 is
\* Go's zero time: no record carries it.
Record == [id : Nat \ {0}, ts : Nat \ {0}]

Member == [recs : Seq(Record), whole : BOOLEAN]

Whole(recs) == [recs |-> recs, whole |-> TRUE]

\* What an interrupted write of recs can leave at the end of the file: the
\* prefix that a reader still decodes, possibly all of it (trailer missing).
TornMembers(recs) ==
    {[recs |-> SubSeq(recs, 1, n), whole |-> FALSE] : n \in 0 .. Len(recs)}

\* The members a reader reaches: it stops inside the first torn one.
Reached(members) ==
    {i \in DOMAIN members : \A j \in DOMAIN members : j < i => members[j].whole}

\* ReadSegment: the records decoded from a file ...
ReadSegment(members) ==
    UNION {Range(members[i].recs) : i \in Reached(members)}

\* ... and how many lines that is, repetitions included: the places, as <<member,
\* index>>, of the records a reader reaches ...
Places(members, among) ==
    UNION {{i} \X DOMAIN members[i].recs : i \in among}

ReadCount(members) == Cardinality(Places(members, Reached(members)))

\* ... and those of all that is in the file, its size.
Bytes(members) == Cardinality(Places(members, DOMAIN members))

\* "A crash can only tear the final member" (store.go:7-9).
OnlyTailTorn(members) ==
    \A i \in DOMAIN members : i < Len(members) => members[i].whole

AllWhole(members) == \A i \in DOMAIN members : members[i].whole
=============================================================================
