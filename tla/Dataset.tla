-------------------------------- MODULE Dataset --------------------------------
(***************************************************************************)
(* The analyzer's way in: Import of internal/bundle/bundle.go and          *)
(* LoadBundles, decodeInto and normalize of internal/analyzer/dataset.go.  *)
(*                                                                         *)
(* A ciphertext is a record [id, key, records, torn]: its identity stands  *)
(* for its SHA-256, key for the recipient it is encrypted to, records for  *)
(* the complete records inside, torn for a tail that the agent's crash cut *)
(* off.  A bundle pins the ciphertexts it was made with (pinned) and has,  *)
(* on the analyzer's disk, the entries that the transfer left of it.  Every*)
(* export encrypts anew, so a segment shipped twice is two ciphertexts.    *)
(***************************************************************************)
EXTENDS Common, Integers, Sequences, FiniteSets, SequencesExt, TLC

CONSTANTS
    Bundles,       \* the bundles as they were exported, in a sequence
    KeySets,       \* the sets of identities the analyzer may be given
    Garbage,       \* bytes that are no ciphertext; None is no entry
    MaxFaults      \* bound on what the transfer does to them

ASSUME DatasetAssumption ==
    /\ Bundles \in Seq(Range(Bundles))
    /\ \A b \in DOMAIN Bundles : Bundles[b].pinned \in Seq(Range(Bundles[b].pinned))
    /\ \A b \in DOMAIN Bundles : \A ct \in Range(Bundles[b].pinned) :
          /\ ct.records \in Seq(Range(ct.records))
          /\ \A r \in Range(ct.records) : r.ts \in Nat /\ r # None

KnownKinds == {"inventory", "minute", "spike", "sql"}

VARIABLES
    files,       \* for each bundle, [manifest, entries, cut]
    identities,  \* the analyzer's identities
    order,       \* the bundles in path order
    pos,         \* how many of them have been imported
    ds,          \* what is loaded: host -> HostData
    counts,      \* OKBundles, PartialBundles, RejectedBundles
    warnings,    \* the bundles that a warning names
    normal,      \* normalize has run
    faults

datasetVars == <<files, identities, order, pos, ds, counts, warnings, normal, faults>>

B == DOMAIN Bundles
HostNames == {Bundles[b].host : b \in B}
Ciphertexts == UNION {Range(Bundles[b].pinned) : b \in B}
EmptyHost == [inventory |-> None, minutes |-> <<>>, spikes |-> <<>>, sql |-> <<>>, problems |-> 0]

-----------------------------------------------------------------------------
(* Import.  Entry 0 of the tar is the manifest; cut is the first entry that *)
(* the file does not hold completely, and inside tells whether the file ends*)
(* within it (the tar reader fails) or before it (the reader sees the end). *)

Whole(b) == [manifest |-> TRUE, entries |-> Bundles[b].pinned,
             cut |-> Len(Bundles[b].pinned) + 1, inside |-> FALSE]

HasEntry(b, i) == i < files[b].cut /\ files[b].entries[i] # None

SegmentStatus(b, i) ==
    IF ~HasEntry(b, i) THEN "missing"
    ELSE IF files[b].entries[i] # Bundles[b].pinned[i] THEN "hash_mismatch"
    ELSE IF files[b].entries[i].key \notin identities THEN "decrypt_failed"
    ELSE IF files[b].entries[i].torn THEN "truncated_records" ELSE "ok"

\* The reasons for which LoadBundles rejects a bundle.
Fatal(b) ==
    \/ files[b].inside
    \/ files[b].cut = 0
    \/ ~files[b].manifest
    \/ Bundles[b].key \notin identities

Usable(b, i) == SegmentStatus(b, i) \in {"ok", "truncated_records"}

Damaged(b) == {i \in DOMAIN Bundles[b].pinned : SegmentStatus(b, i) # "ok"}

-----------------------------------------------------------------------------
(* The data set.                                                           *)

DecodeInto(h, r) ==
    CASE r.kind = "inventory" ->
            IF h.inventory = None \/ r.ts > h.inventory.ts THEN [h EXCEPT !.inventory = r] ELSE h
      [] r.kind = "minute" -> [h EXCEPT !.minutes = Append(@, r)]
      [] r.kind = "spike" -> [h EXCEPT !.spikes = Append(@, r)]
      [] r.kind = "sql" -> [h EXCEPT !.sql = Append(@, r)]
      [] OTHER -> h

\* decodeInto for one record after the other.
Decode(h, records) ==
    LET after[n \in 0..Len(records)] == IF n = 0 THEN h ELSE DecodeInto(after[n - 1], records[n])
    IN  after[Len(records)]

\* The orders sort.Slice can leave: it does not keep equal times as they were.
ByTime(s) ==
    {[i \in DOMAIN s |-> s[p[i]]] :
        p \in {q \in [DOMAIN s -> DOMAIN s] : /\ Range(q) = DOMAIN s
                                             /\ \A i, j \in DOMAIN s : i < j => s[q[i]].ts <= s[q[j]].ts}}

\* s without the places in drop.
Dropping(s, drop) ==
    LET kept[n \in 0..Len(s)] ==
            IF n = 0 THEN <<>> ELSE IF n \in drop THEN kept[n - 1] ELSE Append(kept[n - 1], s[n])
    IN  kept[Len(s)]

SameMinute(s) == {i \in DOMAIN s : i > 1 /\ s[i].ts = s[i - 1].ts}
SameEvent(s) == {i \in DOMAIN s : \E k \in 1..(i - 1) : s[k].id = s[i].id}

\* Mutant: minutes are compared before they are sorted.
MutantUnsorted(h) ==
    [inventory : {h.inventory}, minutes : ByTime(Dropping(h.minutes, SameMinute(h.minutes))),
     spikes : {Dropping(e, SameEvent(e)) : e \in ByTime(h.spikes)}, sql : ByTime(h.sql),
     problems : {h.problems}]

\* normalize: both loops write into the slice they read, never ahead of the
\* element they read, so they compare with what was read.
Normalize(h) ==
    [inventory : {h.inventory}, minutes : {Dropping(m, SameMinute(m)) : m \in ByTime(h.minutes)},
     spikes : {Dropping(e, SameEvent(e)) : e \in ByTime(h.spikes)}, sql : ByTime(h.sql),
     problems : {h.problems}]

-----------------------------------------------------------------------------
DatasetInit ==
    /\ files = [b \in B |-> Whole(b)] /\ identities \in KeySets
    /\ order \in SetToSeqs(B) /\ pos = 0 /\ ds = <<>>
    /\ counts = [ok |-> 0, partial |-> 0, rejected |-> 0]
    /\ warnings = {} /\ normal = FALSE /\ faults = 0

\* What transfer and storage do to a bundle before it is read.
Corrupt(b, f) ==
    /\ pos = 0 /\ faults < MaxFaults /\ faults' = faults + 1
    /\ files' = [files EXCEPT ![b] = f]
    /\ UNCHANGED <<identities, order, pos, ds, counts, warnings, normal>>

LoseManifest(b) == Corrupt(b, [files[b] EXCEPT !.manifest = FALSE])
Replace(b, i, ct) == /\ ct # files[b].entries[i]
                     /\ Corrupt(b, [files[b] EXCEPT !.entries[i] = ct])
Cut(b, i, inside) == /\ i < files[b].cut
                     /\ Corrupt(b, [files[b] EXCEPT !.cut = i, !.inside = inside])

ImportRejected(b) ==
    /\ Fatal(b)
    /\ counts' = [counts EXCEPT !.rejected = @ + 1] /\ warnings' = warnings \cup {b}
    /\ UNCHANGED ds

\* Mutant: the host is looked up once, before the loop.
MutantFirstHost(b) == Bundles[order[1]].host

\* The manifest names the host.
HostOf(b) == Bundles[b].host

\* What the loop over the segments makes of the host data h.
DecodeSegments(h, b) ==
    LET after[i \in 0..Len(Bundles[b].pinned)] ==
            IF i = 0 THEN h
            ELSE IF Usable(b, i) THEN Decode(after[i - 1], files[b].entries[i].records) ELSE after[i - 1]
    IN  [after[Len(Bundles[b].pinned)] EXCEPT !.problems = @ + Cardinality(Damaged(b))]

ImportSegments(b) ==
    /\ ~Fatal(b)
    /\ LET host == HostOf(b)
           h == IF host \in DOMAIN ds THEN ds[host] ELSE EmptyHost
       IN  ds' = [x \in DOMAIN ds \cup {host} |-> IF x = host THEN DecodeSegments(h, b) ELSE ds[x]]
    /\ IF Damaged(b) # {}
       THEN counts' = [counts EXCEPT !.partial = @ + 1] /\ warnings' = warnings \cup {b}
       ELSE counts' = [counts EXCEPT !.ok = @ + 1] /\ UNCHANGED warnings

LoadNext ==
    /\ pos < Len(order) /\ pos' = pos + 1
    /\ ImportRejected(order[pos + 1]) \/ ImportSegments(order[pos + 1])
    /\ UNCHANGED <<files, identities, order, normal, faults>>

NormalizeAll ==
    /\ pos = Len(order) /\ ~normal /\ normal' = TRUE
    /\ ds' \in [DOMAIN ds -> UNION {Normalize(ds[h]) : h \in DOMAIN ds}]
    /\ \A h \in DOMAIN ds : ds'[h] \in Normalize(ds[h])
    /\ UNCHANGED <<files, identities, order, pos, counts, warnings, faults>>

DatasetNext ==
    \/ \E b \in B : \/ LoseManifest(b)
                    \/ \E i \in DOMAIN Bundles[b].pinned, ct \in Ciphertexts \cup {None, Garbage} : Replace(b, i, ct)
                    \/ \E i \in 0..Len(Bundles[b].pinned), in \in BOOLEAN : Cut(b, i, in)
    \/ LoadNext
    \/ NormalizeAll

DatasetSpec == DatasetInit /\ [][DatasetNext]_datasetVars

-----------------------------------------------------------------------------
(* Properties.                                                             *)

Loaded(host) ==
    IF host \notin DOMAIN ds THEN {}
    ELSE LET h == ds[host] IN (({h.inventory} \ {None}) \cup Range(h.minutes)) \cup (Range(h.spikes) \cup Range(h.sql))

Shipped(b) == UNION {Range(ct.records) : ct \in Range(Bundles[b].pinned)}
Imported(b) == \E k \in 1..pos : order[k] = b

\* Every bundle read is counted as good, partial or rejected, once, and a host
\* appears only when one of its bundles was accepted.
DatasetTypeOK ==
    /\ counts.ok + counts.partial + counts.rejected = pos
    /\ Cardinality(warnings) = counts.partial + counts.rejected
    /\ \A h \in DOMAIN ds : \E b \in B : Imported(b) /\ Bundles[b].host = h /\ ~Fatal(b)

\* ARCHITECTURE.md:71-72 "segment substitution between bundles is detected":
\* whatever entries are swapped, a host's data set holds records of segments
\* that this host's own manifests pin, and of no other.
OnlyPinnedRecords ==
    \A h \in HostNames : Loaded(h) \subseteq UNION {Shipped(b) : b \in {x \in B : Bundles[x].host = h /\ Imported(x)}}

\* What takes the place of a record: an inventory that is no older, and once
\* overlaps are removed the record of the same minute or event.
StandsFor(x, r) ==
    /\ x.kind = r.kind
    /\ \/ r.kind = "inventory" /\ x.ts >= r.ts
       \/ r.kind = "minute" /\ normal /\ x.ts = r.ts
       \/ r.kind = "spike" /\ normal /\ x.id = r.id

\* bundle_test.go:145-146 "never silently complete": a record that a bundle was
\* exported with and that nothing in the data set stands for is in a bundle that
\* a warning names.  For kinds of a newer schema see UnknownKindsCounted.
NoSilentLoss ==
    \A b \in B : \A r \in Shipped(b) :
        Imported(b) /\ b \notin warnings /\ r.kind \in KnownKinds =>
            \E x \in Loaded(Bundles[b].host) : x = r \/ StandsFor(x, r)

\* A data set is what the bundles pin, and says what is missing.
ImportIsHonest == DatasetTypeOK /\ OnlyPinnedRecords /\ NoSilentLoss

\* dataset.go:167-168: however the bundles overlap and in whatever order they
\* are read, the data set ends with one record per minute and per spike event,
\* in time order, and with the newest inventory that was readable.
OverlapIsHarmless ==
    normal => \A h \in DOMAIN ds :
        /\ \A i, j \in DOMAIN ds[h].minutes : i < j => ds[h].minutes[i].ts < ds[h].minutes[j].ts
        /\ \A i, j \in DOMAIN ds[h].spikes : i < j => /\ ds[h].spikes[i].id # ds[h].spikes[j].id
                                                      /\ ds[h].spikes[i].ts <= ds[h].spikes[j].ts
        /\ \A b \in B : Bundles[b].host = h /\ ~Fatal(b) =>
              \A i \in DOMAIN Bundles[b].pinned : Usable(b, i) =>
                  \A r \in Range(Bundles[b].pinned[i].records) :
                      r.kind = "inventory" => ds[h].inventory.ts >= r.ts

-----------------------------------------------------------------------------
(* Claims of the documentation that the code does not keep.                *)

\* ARCHITECTURE.md:134 "unknown kinds are skipped and counted": a host whose
\* records were skipped has a problem or a warning that says so.
UnknownKindsCounted ==
    \A b \in B : \A r \in Shipped(b) :
        Imported(b) /\ r.kind \notin KnownKinds =>
            b \in warnings \/ (Bundles[b].host \in DOMAIN ds /\ ds[Bundles[b].host].problems > 0)

\* bundle.go:259-260 "Damaged segments ... never abort the whole bundle", and
\* bundle.go:281 "keep whatever entries were read before the corruption": a
\* segment that is there in full is in the data set, whatever happened to the
\* others, as long as the manifest can be read.
DamageIsIsolated ==
    \A b \in B : \A i \in DOMAIN Bundles[b].pinned :
        Imported(b) /\ files[b].manifest /\ files[b].cut > 0 /\ Bundles[b].key \in identities
            /\ Usable(b, i) /\ ~normal =>
        \A r \in Range(Bundles[b].pinned[i].records) : r.kind # "inventory" => r \in Loaded(Bundles[b].host)
=============================================================================
