------------------------------ MODULE AgentProofs ------------------------------
(***************************************************************************)
(* Theorems about Agent, for every set of kinds, every limit, every set of *)
(* faults of the spool and of the export: no record leaves the spool       *)
(* before a complete bundle holds it, except by expiring; the listing of a *)
(* running export stays accurate; the loop is a client the store supports; *)
(* a clean stop leaves everything in closed segments; a record is shipped  *)
(* once while the process does not die.                                    *)
(***************************************************************************)
EXTENDS Agent, SpoolAccounts

-----------------------------------------------------------------------------
(* The inductive invariant.  What a running export has still to remove is  *)
(* in a bundle already, and nothing is left to remove in any other phase.  *)

BundlesOK == \E S : bundles \in Seq(S)

ShipInv ==
    /\ BundlesOK
    /\ todo # {} => phase = "written"
    /\ RecordsOf(todo) \subseteq Bundled
    /\ ExportedBeforeRemoved

\* The step of an action that removes no segment and completes no bundle.
Calm ==
    /\ removed' = removed /\ bundles' = bundles /\ expired' = expired
    /\ todo' \subseteq todo
    /\ todo = {} \/ phase' = phase \/ todo' = {}

LEMMA RecordsOfSubset ==
    ASSUME NEW X, NEW Y, X \subseteq Y
    PROVE  RecordsOf(X) \subseteq RecordsOf(Y)
BY DEF RecordsOf

LEMMA RecordsOfEmpty == RecordsOf({}) = {}
BY DEF RecordsOf

LEMMA CalmInv ==
    ASSUME ShipInv, Calm
    PROVE  ShipInv'
<1>1. BundlesOK' /\ Bundled' = Bundled
    BY DEF ShipInv, BundlesOK, Calm, Bundled, RecordsOf
<1>2. todo' # {} => phase' = "written"
    BY DEF ShipInv, Calm
<1>3. RecordsOf(todo') \subseteq Bundled'
    BY <1>1, RecordsOfSubset DEF ShipInv, Calm
<1>4. ExportedBeforeRemoved'
    BY <1>1 DEF ShipInv, Calm, ExportedBeforeRemoved
<1> QED
    BY <1>1, <1>2, <1>3, <1>4 DEF ShipInv, RecordsOf

-----------------------------------------------------------------------------
(* The actions that neither complete a bundle nor remove a segment.        *)

LEMMA TicksAreCalm ==
    ASSUME ShipInv,
           \/ \E k \in Kinds, ts \in Timestamps : AppendTick(k, ts)
           \/ FlushTick \/ SkipExport \/ FirstRun
           \/ RotateForExport \/ RotateForExportFails
           \/ NothingToExport \/ WriteBundleFails \/ ExportDone \/ MarkExported
    PROVE  Calm
<1>1. CASE \E k \in Kinds, ts \in Timestamps : AppendTick(k, ts)
    BY <1>1 DEF AppendTick, AppendRecord, agentVars, Calm
<1>2. CASE FlushTick
    BY <1>2 DEF FlushTick, Flush, ForEachKind, ShipInv, Calm
<1>3. CASE SkipExport \/ FirstRun
    BY <1>3 DEF SkipExport, FirstRun, vars, history, ShipInv, Calm
<1>4. CASE RotateForExport \/ RotateForExportFails
    BY <1>4 DEF RotateForExport, RotateForExportFails, ExportDue, ForEachKind, ShipInv, Calm
<1>5. CASE NothingToExport \/ WriteBundleFails
    BY <1>5 DEF NothingToExport, WriteBundleFails, vars, history, ShipInv, Calm
<1>6. CASE ExportDone \/ MarkExported
    BY <1>6 DEF ExportDone, MarkExported, vars, history, ShipInv, Calm
<1> QED
    BY <1>1, <1>2, <1>3, <1>4, <1>5, <1>6

LEMMA StopIsCalm ==
    ASSUME ShipInv, StopStep
    PROVE  Calm
<1>1. CASE Shutdown
    BY <1>1 DEF Shutdown, AppendRecord, vars, history, ShipInv, Calm
<1>2. CASE StopFlush \/ StopFlushFails
    BY <1>2 DEF StopFlush, StopFlushFails, ForEachKind, ShipInv, Calm
<1>3. CASE StopRotate
    BY <1>3 DEF StopRotate, Rotate, ForEachKind, ShipInv, Calm
<1>4. CASE Exit
    BY <1>4 DEF Exit, Gone, Calm
<1> QED
    BY <1>1, <1>2, <1>3, <1>4 DEF StopStep

LEMMA DeathIsCalm ==
    ASSUME ShipInv, Killed
    PROVE  Calm
<1>1. removed' = removed
    BY DEF Killed, Crash, CrashInFlush, CrashInRotate, CrashInAppend, DiesWhile
<1> QED
    BY <1>1 DEF Killed, Gone, Calm

LEMMA StartIsCalm ==
    ASSUME ShipInv, Start \/ (\E c \in Kinds : StartFails(c)) \/ Midnight \/ TenPast
    PROVE  Calm
<1>1. CASE Start
    BY <1>1 DEF Start, Open, history, Calm
<1>2. CASE \E c \in Kinds : StartFails(c)
    BY <1>2 DEF StartFails, OpenFails, history, agentVars, Calm
<1>3. CASE Midnight
    BY <1>3 DEF Midnight, NewDay, history, Calm
<1>4. CASE TenPast
    BY <1>4 DEF TenPast, vars, history, Calm
<1> QED
    BY <1>1, <1>2, <1>3, <1>4

-----------------------------------------------------------------------------
(* The bundle, its cleanup, and retention.                                 *)

LEMMA WriteBundleInv ==
    ASSUME ShipInv, WriteBundle
    PROVE  ShipInv'
<1>1. PICK S : bundles \in Seq(S)
    BY DEF ShipInv, BundlesOK
<1> DEFINE X == ListClosed
           T == S \cup {X}
<1>2. bundles \in Seq(T) /\ X \in T /\ bundles' = Append(bundles, X)
    BY <1>1 DEF WriteBundle
<1> HIDE DEF X, T
<1>3. /\ bundles' \in Seq(T)
      /\ DOMAIN bundles' = DOMAIN bundles \cup {Len(bundles) + 1}
      /\ \A i \in DOMAIN bundles : bundles'[i] = bundles[i]
      /\ bundles'[Len(bundles) + 1] = X
    BY <1>2
<1>4. Bundled \subseteq Bundled' /\ RecordsOf(X) \subseteq Bundled'
    BY <1>3 DEF Bundled, RecordsOf
<1>5. todo' \subseteq X /\ phase' = "written" /\ removed' = removed /\ expired' = expired
    BY DEF WriteBundle, vars, history, X
<1>6. RecordsOf(todo') \subseteq Bundled'
    BY <1>4, <1>5, RecordsOfSubset
<1>7. ExportedBeforeRemoved'
    BY <1>4, <1>5 DEF ShipInv, ExportedBeforeRemoved
<1> QED
    BY <1>3, <1>5, <1>6, <1>7 DEF ShipInv, BundlesOK, RecordsOf

\* Removing some of what is to do, whatever becomes of the rest.
LEMMA CleanupInv ==
    ASSUME ShipInv, NEW X, X \subseteq todo,
           removed' \subseteq removed \cup RecordsOf(X),
           bundles' = bundles, expired' = expired, todo' \subseteq todo,
           phase' = phase \/ todo' = {}
    PROVE  ShipInv'
<1>1. BundlesOK' /\ Bundled' = Bundled
    BY DEF ShipInv, BundlesOK, Bundled, RecordsOf
<1>2. RecordsOf(X) \subseteq Bundled /\ RecordsOf(todo') \subseteq Bundled
    BY RecordsOfSubset DEF ShipInv
<1>3. ExportedBeforeRemoved'
    BY <1>1, <1>2 DEF ShipInv, ExportedBeforeRemoved
<1> QED
    BY <1>1, <1>2, <1>3 DEF ShipInv, RecordsOf

LEMMA RemoveExportedInv ==
    ASSUME ShipInv, RemoveExported
    PROVE  ShipInv'
<1>1. PICK x \in todo : \E stuck \in Stuck({x}), left \in SidecarStuck({x}) :
                              RemoveEach({x}, stuck, left)
    BY DEF RemoveExported
<1>2. PICK stuck \in Stuck({x}), left \in SidecarStuck({x}) : RemoveEach({x}, stuck, left)
    BY <1>1
<1> DEFINE kept == {x} \ (stuck \cup left)
           torn == left \ stuck
<1>3. removed' = removed \cup UNION {ReadSegment(y[2].members) : y \in kept \cup torn}
    BY <1>2 DEF RemoveEach, RemoveSegments
<1>4. removed' \subseteq removed \cup RecordsOf({x})
    <2>1. left \subseteq {x}
        BY <1>2 DEF SidecarStuck
    <2>2. kept \cup torn \subseteq {x}
        BY <2>1
    <2>3. RecordsOf(kept \cup torn) \subseteq RecordsOf({x})
        BY <2>2, RecordsOfSubset
    <2> QED
        BY <1>3, <2>3 DEF RecordsOf
<1>5. /\ bundles' = bundles /\ expired' = expired /\ phase' = phase
      /\ todo' \subseteq todo
    BY DEF RemoveExported
<1> QED
    BY <1>4, <1>5, CleanupInv

LEMMA KilledInRemoveInv ==
    ASSUME ShipInv, KilledInRemove
    PROVE  ShipInv'
<1>1. PICK x \in todo : RemoveSegments({}, {}, {x})
    BY DEF KilledInRemove
<1>2. removed' \subseteq removed \cup RecordsOf({x})
    BY <1>1 DEF RemoveSegments, RecordsOf
<1>3. bundles' = bundles /\ expired' = expired /\ todo' = {}
    BY DEF KilledInRemove, Gone
<1> QED
    BY <1>2, <1>3, CleanupInv

\* What retention deletes is expired.
LEMMA RetentionInv ==
    ASSUME ShipInv, RetentionTick \/ KilledInRetention
    PROVE  ShipInv'
<1>1. /\ expired' = expired \cup (removed' \ removed) /\ bundles' = bundles
      /\ todo' \subseteq todo /\ (phase' = phase \/ todo' = {})
    BY DEF RetentionTick, KilledInRetention, Gone
<1>2. BundlesOK' /\ Bundled' = Bundled
    BY <1>1 DEF ShipInv, BundlesOK, Bundled, RecordsOf
<1>3. RecordsOf(todo') \subseteq Bundled'
    BY <1>1, <1>2, RecordsOfSubset DEF ShipInv
<1>4. ExportedBeforeRemoved'
    BY <1>1, <1>2 DEF ShipInv, ExportedBeforeRemoved
<1> QED
    BY <1>1, <1>2, <1>3, <1>4 DEF ShipInv, RecordsOf

-----------------------------------------------------------------------------
LEMMA ShipInit ==
    ASSUME AgentInit
    PROVE  ShipInv
<1>1. bundles = <<>> /\ todo = {} /\ removed = {}
    BY DEF AgentInit, Init
<1>2. bundles \in Seq({})
    BY <1>1
<1> QED
    BY <1>1, <1>2, RecordsOfEmpty DEF ShipInv, BundlesOK, ExportedBeforeRemoved

LEMMA ShipStep ==
    ASSUME ShipInv, [AgentNext]_allVars
    PROVE  ShipInv'
<1>1. CASE UNCHANGED allVars
    BY <1>1, CalmInv DEF allVars, agentVars, vars, history, Calm
<1>2. CASE \/ \E k \in Kinds, ts \in Timestamps : AppendTick(k, ts)
           \/ FlushTick
    BY <1>2, TicksAreCalm, CalmInv
<1>3. CASE ExportStep
    BY <1>3, TicksAreCalm, CalmInv, WriteBundleInv, RemoveExportedInv DEF ExportStep
<1>4. CASE StopStep
    BY <1>4, StopIsCalm, CalmInv
<1>5. CASE Killed
    BY <1>5, DeathIsCalm, CalmInv
<1>6. CASE RetentionTick \/ KilledInRetention
    BY <1>6, RetentionInv
<1>7. CASE KilledInRemove
    BY <1>7, KilledInRemoveInv
<1>8. CASE Start \/ (\E c \in Kinds : StartFails(c)) \/ Midnight \/ TenPast
    BY <1>8, StartIsCalm, CalmInv
<1> QED
    BY <1>1, <1>2, <1>3, <1>4, <1>5, <1>6, <1>7, <1>8 DEF AgentNext

\* A record leaves the spool only by expiring or after a completed bundle holds
\* it: no failed export, failed removal, failed save of the state, death between
\* two steps or inside one, and no retention pass between two exports loses what
\* was not shipped (bundle.go:55-56, 165-174, agent.go:169-175).
THEOREM ShippedBeforeRemoval == AgentSpec => []ExportedBeforeRemoved
<1>1. AgentInit => ShipInv
    BY ShipInit
<1>2. ShipInv /\ [AgentNext]_allVars => ShipInv'
    BY ShipStep
<1>3. ShipInv => ExportedBeforeRemoved
    BY DEF ShipInv
<1> QED
    BY <1>1, <1>2, <1>3, PTL DEF AgentSpec
-----------------------------------------------------------------------------
(* A step of the agent is, for the spool, a step of the spool: the export  *)
(* and the shutdown call Rotate, Flush and Remove, and the cleanup removes *)
(* what is still listed.  Only the exit after a shutdown is none: it is a  *)
(* death that needs no fault.                                              *)

AgentInv ==
    /\ AgentTypeOK /\ BufferBounded
    /\ phase # "idle" => up
    /\ todo # {} => phase = "written"

Leaves == up /\ Dies /\ UNCHANGED <<disk, offered, removed>>

LEMMA SpoolInv ==
    ASSUME AgentInv
    PROVE  IInv
BY DEF AgentInv, AgentTypeOK, IInv

LEMMA ForEachKindWidens ==
    ASSUME NEW fewer, NEW more, ForEachKind(fewer),
           \A k \in Kinds : fewer[k] \subseteq more[k]
    PROVE  ForEachKind(more)
<1>1. PICK r \in [Kinds -> UNION {fewer[k] : k \in Kinds}] :
          /\ \A k \in Kinds : r[k] \in fewer[k]
          /\ active' = [k \in Kinds |-> r[k].seg]
          /\ disk' = [k \in Kinds |-> r[k].disk]
          /\ flushed' = flushed \cup UNION {r[k].saved : k \in Kinds}
    BY DEF ForEachKind
<1>2. \A k \in Kinds : r[k] \in more[k]
    BY <1>1
<1>3. r \in [Kinds -> UNION {more[k] : k \in Kinds}]
    BY <1>1, <1>2
<1> QED
    BY <1>1, <1>2, <1>3 DEF ForEachKind

LEMMA ExportRotates ==
    ASSUME RotateForExport \/ RotateForExportFails
    PROVE  Rotate
<1> DEFINE all == [k \in Kinds |-> RotateLocked(active[k], disk[k])]
<1>1. CASE RotateForExport
    <2> DEFINE some == [k \in Kinds |-> {r \in RotateLocked(active[k], disk[k]) : r.ok}]
    <2>1. ForEachKind(some) /\ \A k \in Kinds : some[k] \subseteq all[k]
        BY <1>1 DEF RotateForExport
    <2> HIDE DEF some, all
    <2>2. ForEachKind(all)
        BY <2>1, ForEachKindWidens
    <2> QED
        BY <2>2 DEF Rotate, all
<1>2. CASE RotateForExportFails
    <2>1. PICK c \in Kinds :
              ForEachKind([k \in Kinds |->
                              {r \in RotateLocked(active[k], disk[k]) : k = c => ~r.ok}])
        BY <1>2 DEF RotateForExportFails
    <2> DEFINE some == [k \in Kinds |->
                           {r \in RotateLocked(active[k], disk[k]) : k = c => ~r.ok}]
    <2>2. ForEachKind(some) /\ \A k \in Kinds : some[k] \subseteq all[k]
        BY <2>1
    <2> HIDE DEF some, all
    <2>3. ForEachKind(all)
        BY <2>2, ForEachKindWidens
    <2> QED
        BY <2>3 DEF Rotate, all
<1> QED
    BY <1>1, <1>2

LEMMA StopFlushes ==
    ASSUME StopFlush \/ StopFlushFails
    PROVE  Flush
<1> DEFINE all == [k \in Kinds |-> FlushLocked(active[k], disk[k])]
<1>1. CASE StopFlush
    <2> DEFINE some == [k \in Kinds |-> {r \in FlushLocked(active[k], disk[k]) : r.ok}]
    <2>1. ForEachKind(some) /\ \A k \in Kinds : some[k] \subseteq all[k]
        BY <1>1 DEF StopFlush
    <2> HIDE DEF some, all
    <2>2. ForEachKind(all)
        BY <2>1, ForEachKindWidens
    <2> QED
        BY <2>2 DEF Flush, all
<1>2. CASE StopFlushFails
    <2>1. PICK c \in Kinds :
              ForEachKind([k \in Kinds |->
                              {r \in FlushLocked(active[k], disk[k]) : k = c => ~r.ok}])
        BY <1>2 DEF StopFlushFails
    <2> DEFINE some == [k \in Kinds |->
                           {r \in FlushLocked(active[k], disk[k]) : k = c => ~r.ok}]
    <2>2. ForEachKind(some) /\ \A k \in Kinds : some[k] \subseteq all[k]
        BY <2>1
    <2> HIDE DEF some, all
    <2>3. ForEachKind(all)
        BY <2>2, ForEachKindWidens
    <2> QED
        BY <2>3 DEF Flush, all
<1> QED
    BY <1>1, <1>2

LEMMA SpoolStep ==
    ASSUME AgentInv, [AgentNext]_allVars
    PROVE  [Next]_vars \/ Leaves
<1>1. CASE UNCHANGED vars
    BY <1>1
<1>2. CASE \E k \in Kinds, ts \in Timestamps : AppendTick(k, ts)
    BY <1>2 DEF AppendTick, Next, Operation
<1>3. CASE FlushTick
    BY <1>3 DEF FlushTick, Next, Operation
<1>4. CASE RetentionTick
    BY <1>4 DEF RetentionTick, Next, Operation
<1>5. CASE ExportStep
    <2>1. CASE RotateForExport \/ RotateForExportFails
        BY <2>1, ExportRotates DEF Next, Operation
    <2>2. CASE RemoveExported
        <3>1. Remove
            BY <2>2 DEF RemoveExported, Remove, AgentInv, AgentTypeOK
        <3> QED
            BY <3>1 DEF Next, Operation
    <2>3. CASE SkipExport \/ FirstRun \/ NothingToExport \/ WriteBundle
               \/ WriteBundleFails \/ ExportDone \/ MarkExported
        BY <1>1, <2>3 DEF SkipExport, FirstRun, NothingToExport, WriteBundle,
                          WriteBundleFails, ExportDone, MarkExported
    <2> QED
        BY <1>5, <2>1, <2>2, <2>3 DEF ExportStep
<1>6. CASE StopStep
    <2>1. CASE Shutdown
        <3>1. today \in Timestamps
            BY DEF AgentInv, AgentTypeOK, TypeOK, Timestamps
        <3>2. (\E k \in Kinds : AppendRecord(k, today)) \/ UNCHANGED vars
            BY <2>1 DEF Shutdown
        <3> QED
            BY <3>1, <3>2 DEF Next, Operation
    <2>2. CASE StopFlush \/ StopFlushFails
        BY <2>2, StopFlushes DEF Next, Operation
    <2>3. CASE StopRotate
        BY <2>3 DEF StopRotate, Next, Operation
    <2>4. CASE Exit
        BY <2>4 DEF Exit, Leaves
    <2> QED
        BY <1>6, <2>1, <2>2, <2>3, <2>4 DEF StopStep
<1>7. CASE Killed
    BY <1>7 DEF Killed, Next, Failure
<1>8. CASE KilledInRetention
    BY <1>8 DEF KilledInRetention, Next, Failure
<1>9. CASE KilledInRemove
    <2>1. CrashInRemove
        BY <1>9 DEF KilledInRemove, CrashInRemove, AgentInv, AgentTypeOK
    <2> QED
        BY <2>1 DEF Next, Failure
<1>10. CASE Start \/ \E c \in Kinds : StartFails(c)
    BY <1>10 DEF Start, StartFails, Next, Operation, Failure
<1>11. CASE Midnight \/ TenPast
    BY <1>1, <1>11 DEF Midnight, TenPast, Next
<1> QED
    BY <1>1, <1>2, <1>3, <1>4, <1>5, <1>6, <1>7, <1>8, <1>9, <1>10, <1>11
       DEF AgentNext, allVars

LEMMA LeavesInv ==
    ASSUME IInv, Leaves
    PROVE  IInv'
BY DiesInv DEF Leaves, IInv, TypeOK

-----------------------------------------------------------------------------
(* The types of the agent's own variables, and what is to do is listed.    *)

LEMMA Listed ==
    ASSUME NEW x \in ListClosed
    PROVE  /\ x[1] \in Kinds /\ x[2] \in disk[x[1]].closed /\ x[2].meta.present
           /\ x = <<x[1], x[2]>>
<1>1. PICK k \in Kinds : x \in {<<k, s>> : s \in {c \in disk[k].closed : c.meta.present}}
    BY DEF ListClosed
<1>2. PICK s \in disk[k].closed : x = <<k, s>> /\ s.meta.present
    BY <1>1
<1> QED
    BY <1>2

LEMMA ListedType ==
    ASSUME IInv
    PROVE  ListClosed \subseteq Kinds \X ClosedSegment
<1> SUFFICES ASSUME NEW x \in ListClosed PROVE x \in Kinds \X ClosedSegment
    OBVIOUS
<1>1. /\ x[1] \in Kinds /\ x[2] \in disk[x[1]].closed /\ x = <<x[1], x[2]>>
    BY Listed
<1>2. x[2] \in ClosedSegment
    BY <1>1 DEF IInv, TypeOK, Disk
<1> QED
    BY <1>1, <1>2

\* Removing one listed segment leaves the others listed.
LEMMA OthersListed ==
    ASSUME IInv, NEW x \in ListClosed, NEW stuck \in Stuck({x}),
           NEW left \in SidecarStuck({x}), RemoveEach({x}, stuck, left)
    PROVE  ListClosed \ {x} \subseteq ListClosed'
<1> DEFINE gone == {x} \ (stuck \cup left)
           halves == stuck \ left
           torn == left \ stuck
<1>1. /\ gone \subseteq {x} /\ halves \subseteq {x} /\ torn \subseteq {x}
      /\ RemoveSegments(gone, halves, torn)
    BY DEF RemoveEach, Stuck, SidecarStuck
<1> HIDE DEF gone, halves, torn
<1> SUFFICES ASSUME NEW y \in ListClosed, y # x PROVE y \in ListClosed'
    OBVIOUS
<1>2. /\ y[1] \in Kinds /\ y[2] \in disk[y[1]].closed /\ y[2].meta.present
      /\ y = <<y[1], y[2]>>
    BY Listed
<1>3. x = <<x[1], x[2]>>
    BY Listed
<1> DEFINE k == y[1]
           of(xs) == {z[2] : z \in {w \in xs : w[1] = k}}
           closed == (disk[k].closed \ (of(gone) \cup of(halves) \cup of(torn)))
                       \cup {[s EXCEPT !.meta = NoSidecar] : s \in of(halves)}
           stray == disk[k].stray
                      \cup {[date |-> s.date, seq |-> s.seq, meta |-> s.meta]
                              : s \in of(torn)}
<1>4. disk'[k] = [disk[k] EXCEPT !.closed = closed, !.stray = stray]
    BY <1>1, <1>2 DEF RemoveSegments, AfterRemoval
<1>5. disk[k] \in Disk
    BY <1>2 DEF IInv, TypeOK
<1>6. disk'[k].closed = closed
    <2> HIDE DEF closed, stray
    <2> QED
        BY <1>4, <1>5 DEF Disk
<1>7. y[2] \notin of(gone) \cup of(halves) \cup of(torn)
    BY <1>1, <1>2, <1>3
<1>8. y[2] \in disk'[k].closed
    BY <1>2, <1>6, <1>7
<1> QED
    BY <1>2, <1>8 DEF ListClosed

\* What is to do after a step is listed.
LEMMA TodoListed ==
    ASSUME AgentInv, [AgentNext]_allVars, up'
    PROVE  todo' \subseteq ListClosed'
<1>1. CASE todo' = {}
    BY <1>1
<1>2. CASE todo' = todo /\ disk' = disk /\ up' = up
    BY <1>2 DEF AgentInv, AgentTypeOK, ListClosed
<1>3. CASE UNCHANGED allVars
    BY <1>2, <1>3 DEF allVars, agentVars, vars
<1>4. CASE phase # "written" /\ todo' = todo
    BY <1>1, <1>4 DEF AgentInv
<1>5. CASE \/ \E k \in Kinds, ts \in Timestamps : AppendTick(k, ts)
           \/ FlushTick \/ RetentionTick
    BY <1>4, <1>5 DEF AppendTick, FlushTick, RetentionTick, agentVars
<1>6. CASE ExportStep
    <2>1. CASE WriteBundle
        <3>1. todo' \subseteq ListClosed /\ disk' = disk
            BY <2>1 DEF WriteBundle, vars
        <3> QED
            BY <3>1 DEF ListClosed
    <2>2. CASE RemoveExported
        <3>1. PICK x \in todo :
                  /\ \E stuck \in Stuck({x}), left \in SidecarStuck({x}) :
                        RemoveEach({x}, stuck, left)
                  /\ todo' = todo \ {x}
            BY <2>2 DEF RemoveExported
        <3>2. todo \subseteq ListClosed
            BY <2>2 DEF RemoveExported, AgentInv, AgentTypeOK
        <3>3. ListClosed \ {x} \subseteq ListClosed'
            BY <3>1, <3>2, OthersListed, SpoolInv
        <3> QED
            BY <3>1, <3>2, <3>3
    <2>3. CASE ExportDone
        BY <1>2, <2>3 DEF ExportDone, vars
    <2>4. CASE SkipExport \/ FirstRun \/ RotateForExport \/ RotateForExportFails
               \/ NothingToExport \/ WriteBundleFails \/ MarkExported
        BY <1>4, <2>4 DEF SkipExport, FirstRun, RotateForExport, RotateForExportFails,
                          ExportDue, NothingToExport, WriteBundleFails, MarkExported
    <2> QED
        BY <1>6, <2>1, <2>2, <2>3, <2>4 DEF ExportStep
<1>7. CASE StopStep
    BY <1>1, <1>4, <1>7 DEF StopStep, Shutdown, StopFlush, StopFlushFails, StopRotate, Exit, Gone
<1>8. CASE Killed \/ KilledInRetention \/ KilledInRemove
    BY <1>1, <1>8 DEF Killed, KilledInRetention, KilledInRemove, Gone
<1>9. CASE Start \/ \E c \in Kinds : StartFails(c)
    <2>1. ~up /\ todo' = todo
        BY <1>9 DEF Start, Open, StartFails, OpenFails, agentVars
    <2> QED
        BY <1>4, <2>1 DEF AgentInv
<1>10. CASE Midnight \/ TenPast
    BY <1>2, <1>10 DEF Midnight, NewDay, TenPast, vars
<1> QED
    BY <1>3, <1>5, <1>6, <1>7, <1>8, <1>9, <1>10 DEF AgentNext

\* The other conjuncts of the types.
AgentTypes ==
    /\ phase \in Phases
    /\ early \in BOOLEAN
    /\ day \in Nat
    /\ todo \subseteq (Kinds \X ClosedSegment)
    /\ memLast \in Nat /\ diskLast \in Nat
    /\ bundles \in Seq(SUBSET (Kinds \X ClosedSegment))
    /\ expired \subseteq Record

\* The loop runs only in a process, and only the cleanup has something to do.
Handling ==
    /\ phase # "idle" => up
    /\ todo # {} => phase = "written"

LEMMA AgentTypesKept ==
    ASSUME AgentInv, [AgentNext]_allVars, removed' \subseteq Record, today' \in Nat
    PROVE  AgentTypes'
<1>0. AgentTypes /\ today \in Nat /\ 0 \in Nat
    BY DEF AgentInv, AgentTypeOK, AgentTypes, TypeOK
<1>1. CASE UNCHANGED agentVars
    BY <1>0, <1>1 DEF AgentTypes, agentVars
<1>2. CASE \/ \E k \in Kinds, ts \in Timestamps : AppendTick(k, ts)
           \/ \E c \in Kinds : StartFails(c)
    BY <1>1, <1>2 DEF AppendTick, StartFails
<1>3. CASE FlushTick \/ RetentionTick
    BY <1>0, <1>3 DEF FlushTick, RetentionTick, AgentTypes, Phases
<1>4. CASE ExportStep
    <2>1. CASE WriteBundle
        <3>1. ListClosed \subseteq Kinds \X ClosedSegment
            BY ListedType, SpoolInv
        <3>2. bundles' \in Seq(SUBSET (Kinds \X ClosedSegment))
            BY <1>0, <2>1, <3>1, AppendProperties DEF WriteBundle, AgentTypes
        <3>3. todo' \subseteq Kinds \X ClosedSegment
            BY <2>1, <3>1 DEF WriteBundle
        <3> QED
            BY <1>0, <2>1, <3>2, <3>3 DEF WriteBundle, AgentTypes, Phases
    <2>2. CASE RemoveExported
        BY <1>0, <2>2 DEF RemoveExported, AgentTypes
    <2>3. CASE SkipExport \/ FirstRun \/ MarkExported
        BY <1>0, <2>3 DEF SkipExport, FirstRun, MarkExported, SaveState, AgentTypes, Phases
    <2>4. CASE RotateForExport \/ RotateForExportFails \/ NothingToExport
               \/ WriteBundleFails \/ ExportDone
        BY <1>0, <2>4 DEF RotateForExport, RotateForExportFails, NothingToExport,
                          WriteBundleFails, ExportDone, AgentTypes, Phases
    <2> QED
        BY <1>4, <2>1, <2>2, <2>3, <2>4 DEF ExportStep
<1>5. CASE StopStep
    BY <1>0, <1>5 DEF StopStep, Shutdown, StopFlush, StopFlushFails, StopRotate, Exit, Gone,
                      AgentTypes, Phases
<1>6. CASE Killed \/ KilledInRetention \/ KilledInRemove
    BY <1>0, <1>6 DEF Killed, KilledInRetention, KilledInRemove, Gone, AgentTypes, Phases
<1>7. CASE Start \/ Midnight \/ TenPast
    BY <1>0, <1>7 DEF Start, Midnight, TenPast, AgentTypes
<1> QED
    BY <1>1, <1>2, <1>3, <1>4, <1>5, <1>6, <1>7 DEF AgentNext, allVars

LEMMA HandlingKept ==
    ASSUME AgentInv, [AgentNext]_allVars
    PROVE  Handling'
<1>0. Handling
    BY DEF AgentInv, Handling
<1>1. CASE UNCHANGED <<phase, todo, up>>
    BY <1>0, <1>1 DEF Handling
<1>2. CASE phase' = "idle" /\ todo' = {}
    BY <1>2 DEF Handling
<1>3. CASE UNCHANGED allVars
    BY <1>1, <1>3 DEF allVars, agentVars, vars
<1>4. CASE \/ \E k \in Kinds, ts \in Timestamps : AppendTick(k, ts)
           \/ FlushTick \/ RetentionTick
    BY <1>0, <1>4 DEF AppendTick, AppendRecord, FlushTick, Flush, ForEachKind, RetentionTick,
                      EnforceRetention, agentVars, Handling
<1>5. CASE ExportStep
    <2>1. CASE SkipExport \/ FirstRun \/ NothingToExport \/ WriteBundle
               \/ WriteBundleFails \/ ExportDone \/ MarkExported
        BY <1>0, <2>1 DEF SkipExport, FirstRun, NothingToExport, WriteBundle,
                          WriteBundleFails, ExportDone, MarkExported, vars, Handling
    <2>2. CASE RotateForExport \/ RotateForExportFails
        BY <1>0, <2>2 DEF RotateForExport, RotateForExportFails, ExportDue, ForEachKind, Handling
    <2>3. CASE RemoveExported
        BY <1>0, <2>3 DEF RemoveExported, Handling
    <2> QED
        BY <1>5, <2>1, <2>2, <2>3 DEF ExportStep
<1>6. CASE StopStep
    <2>1. CASE Shutdown
        BY <1>0, <2>1 DEF Shutdown, AppendRecord, vars, Handling
    <2>2. CASE StopFlush \/ StopFlushFails \/ StopRotate
        BY <1>0, <2>2 DEF StopFlush, StopFlushFails, StopRotate, Rotate, ForEachKind, Handling
    <2>3. CASE Exit
        BY <1>2, <2>3 DEF Exit, Gone
    <2> QED
        BY <1>6, <2>1, <2>2, <2>3 DEF StopStep
<1>7. CASE Killed \/ KilledInRetention \/ KilledInRemove
    BY <1>2, <1>7 DEF Killed, KilledInRetention, KilledInRemove, Gone
<1>8. CASE Start \/ \E c \in Kinds : StartFails(c)
    BY <1>0, <1>8 DEF Start, Open, StartFails, OpenFails, agentVars, Handling
<1>9. CASE Midnight \/ TenPast
    BY <1>1, <1>9 DEF Midnight, NewDay, TenPast, vars
<1> QED
    BY <1>3, <1>4, <1>5, <1>6, <1>7, <1>8, <1>9 DEF AgentNext

LEMMA AgentInvInit ==
    ASSUME AgentInit
    PROVE  AgentInv
<1>1. IInv
    BY InitInv DEF AgentInit
<1>2. <<>> \in Seq(SUBSET (Kinds \X ClosedSegment))
    OBVIOUS
<1> QED
    BY <1>1, <1>2 DEF AgentInit, AgentInv, AgentTypeOK, IInv, Phases

LEMMA AgentInvStep ==
    ASSUME AgentInv, [AgentNext]_allVars
    PROVE  AgentInv'
<1>1. IInv'
    BY SpoolInv, SpoolStep, NextInv, LeavesInv
<1>2. removed' \subseteq Record /\ today' \in Nat
    BY <1>1 DEF IInv, TypeOK
<1>3. AgentTypes' /\ Handling'
    BY <1>2, AgentTypesKept, HandlingKept
<1>4. up' => todo' \subseteq ListClosed'
    BY TodoListed
<1> QED
    BY <1>1, <1>3, <1>4 DEF AgentInv, AgentTypeOK, AgentTypes, Handling, IInv

\* The listing a running export works from stays accurate: whatever removals
\* fail, wherever the process dies and however time passes between two steps,
\* what it has still to remove is in the spool and listed (bundle.go:61,
\* 170-174).
THEOREM ListingStaysAccurate == AgentSpec => []AgentTypeOK
<1>1. AgentInit => AgentInv
    BY AgentInvInit
<1>2. AgentInv /\ [AgentNext]_allVars => AgentInv'
    BY AgentInvStep
<1>3. AgentInv => AgentTypeOK
    BY DEF AgentInv
<1> QED
    BY <1>1, <1>2, <1>3, PTL DEF AgentSpec

\* The loop uses the store as Spool says it can be used, so that every theorem
\* about Spool holds of the running agent: its exit is a death like another
\* where the process can die at all.
THEOREM AgentIsASpool ==
    ASSUME "crash" \in Faults
    PROVE  AgentSpec => Spec
<1>1. AgentInit => Init
    BY DEF AgentInit
<1>2. AgentInit => AgentInv
    BY AgentInvInit
<1>3. AgentInv /\ [AgentNext]_allVars => AgentInv'
    BY AgentInvStep
<1>4. AgentInv /\ [AgentNext]_allVars => [Next]_vars
    BY SpoolStep DEF Leaves, Next, Failure, Crash
<1> QED
    BY <1>1, <1>2, <1>3, <1>4, PTL DEF AgentSpec, Spec

-----------------------------------------------------------------------------
(* A clean stop.  Without a disk error an open segment has records, in its *)
(* buffer or in its file, and the file of a segment that is not open does  *)
(* not exist.                                                              *)

Undisturbed == Faults \subseteq {"crash", "crashRemove"}

Neat(seg, d) ==
    /\ seg.open => seg.records > 0 /\ (seg.buf = <<>> => d.file.present)
    /\ ~seg.open => seg.buf = <<>> /\ ~d.file.present

StopInv ==
    /\ up => \A k \in Kinds : Neat(active[k], disk[k])
    /\ phase = "stopping" => \A k \in Kinds : active[k].buf = <<>>
    /\ phase = "stopped" => \A k \in Kinds : ~active[k].open

LEMMA FlushNeat ==
    ASSUME Undisturbed, NEW seg, Sound(seg), NEW d \in Disk, Neat(seg, d),
           NEW r \in FlushLocked(seg, d)
    PROVE  r.ok /\ Neat(r.seg, r.disk) /\ r.seg.buf = <<>> /\ r.seg.open = seg.open
<1>1. FailedWrites(seg.buf, d) = {}
    BY DEF FailedWrites, Undisturbed
<1>2. CASE seg.buf = <<>>
    <2>1. r = Result(seg, d, TRUE, {})
        BY <1>2 DEF FlushLocked
    <2> QED
        BY <1>2, <2>1 DEF Result
<1>3. CASE seg.buf # <<>>
    <2>1. r = Result(Emptied(seg), Written(d, Whole(seg.buf)), TRUE, Range(seg.buf))
        BY <1>1, <1>3 DEF FlushLocked
    <2>2. Emptied(seg).buf = <<>> /\ Emptied(seg).records = seg.records
        BY EmptiedSound
    <2>3. Emptied(seg).open = seg.open
        BY DEF Emptied, Sound, Segment
    <2>4. Written(d, Whole(seg.buf)).file.present
        BY DEF Written, Disk
    <2>5. seg.open
        BY <1>3 DEF Neat
    <2> QED
        BY <2>1, <2>2, <2>3, <2>4, <2>5 DEF Result, Neat
<1> QED
    BY <1>2, <1>3

LEMMA RotateNeat ==
    ASSUME Undisturbed, NEW seg, Sound(seg), NEW d \in Disk, Neat(seg, d),
           NEW r \in RotateLocked(seg, d)
    PROVE  r.ok /\ Neat(r.seg, r.disk) /\ ~r.seg.open
<1>1. CASE ~seg.open
    BY <1>1 DEF RotateLocked, Result
<1>2. CASE seg.open
    <2>1. PICK f \in FlushLocked(seg, d) :
              \/ ~f.ok /\ r = f
              \/ f.ok /\ \E c \in CloseSegment(f.seg, f.disk) :
                            r = Result(c.seg, c.disk, c.ok, f.saved)
        BY <1>2 DEF RotateLocked
    <2>2. /\ f.ok /\ Neat(f.seg, f.disk) /\ f.seg.buf = <<>> /\ f.seg.open
          /\ f.disk \in Disk
        BY <1>2, <2>1, FlushNeat, FlushLockedOK DEF ResultOK
    <2>3. PICK c \in CloseSegment(f.seg, f.disk) : r = Result(c.seg, c.disk, c.ok, f.saved)
        BY <2>1, <2>2
    <2>4. f.seg.records # 0 /\ f.disk.file.present
        BY <2>2 DEF Neat
    <2>5. \E e \in ClosedFiles(f.disk, f.seg) : c = Result(NoSegment, e, TRUE, {})
        BY <2>4 DEF CloseSegment, CloseFile, Undisturbed
    <2>6. PICK e \in ClosedFiles(f.disk, f.seg) : c = Result(NoSegment, e, TRUE, {})
        BY <2>5
    <2>7. e.file = NoFile
        BY <2>2, FilesMoved
    <2> QED
        BY <2>3, <2>6, <2>7 DEF Result, Neat, NoSegment, NoFile
<1> QED
    BY <1>1, <1>2

LEMMA RotatedForNeat ==
    ASSUME Undisturbed, NEW seg, Sound(seg), NEW d \in Disk, Neat(seg, d),
           NEW r, NEW q \in RotatedFor(seg, d, r)
    PROVE  Neat(q.seg, q.disk)
<1>1. CASE NeedsRotation(seg, r)
    BY <1>1, RotateNeat DEF RotatedFor
<1>2. CASE ~NeedsRotation(seg, r)
    BY <1>2 DEF RotatedFor, Result
<1> QED
    BY <1>1, <1>2

LEMMA AcceptingNeat ==
    ASSUME NEW seg, Sound(seg), NEW d, NEW r \in Record
    PROVE  Neat(Accepting(seg, r), d)
<1> DEFINE s == IF seg.open THEN seg ELSE NewSegment(r.ts)
           b == Buffered(s, r)
<1>1. NewSegment(r.ts).open
    BY DEF NewSegment, NoSegment
<1>2. Sound(s) /\ s.open
    BY <1>1, NewSegmentSound DEF Record
<1> HIDE DEF s
<1>3. Sound(b) /\ b.buf = Append(s.buf, r) /\ b.records = s.records + 1
    BY <1>2, BufferedSound
<1>4. s.buf \in Seq(Record) /\ s.records \in Nat
    BY <1>2 DEF Sound, Segment
<1>5. b.buf # <<>> /\ b.records > 0
    BY <1>3, <1>4, AppendProperties
<1>6. b.open
    BY <1>2, SMTT(30) DEF Buffered, Sound, Segment
<1>7. Accepting(seg, r) = b
    BY DEF Accepting, s
<1> HIDE DEF b
<1> QED
    BY <1>5, <1>6, <1>7 DEF Neat

LEMMA AutoFlushNeat ==
    ASSUME Undisturbed, NEW seg, Sound(seg), NEW d \in Disk, Neat(seg, d), NEW saved,
           NEW f \in AutoFlushed(seg, d, saved)
    PROVE  Neat(f[1].seg, f[1].disk)
<1>1. CASE Len(seg.buf) < AutoFlush
    <2>1. f = <<Result(seg, d, TRUE, saved), 0>>
        BY <1>1 DEF AutoFlushed
    <2>2. f[1] = Result(seg, d, TRUE, saved)
        BY <2>1
    <2> QED
        BY <2>2 DEF Result
<1>2. CASE ~(Len(seg.buf) < AutoFlush)
    <2>1. PICK g \in FlushLocked(seg, d) :
              f = IF g.ok THEN <<Result(g.seg, g.disk, TRUE, saved \cup g.saved), 0>>
                  ELSE <<Result(DropBatch(g.seg), g.disk, FALSE, saved),
                         Len(g.seg.buf)>>
        BY <1>2 DEF AutoFlushed
    <2>2. g.ok /\ Neat(g.seg, g.disk)
        BY FlushNeat
    <2>3. f = <<Result(g.seg, g.disk, TRUE, saved \cup g.saved), 0>>
        BY <2>1, <2>2
    <2>4. f[1] = Result(g.seg, g.disk, TRUE, saved \cup g.saved)
        BY <2>3
    <2> QED
        BY <2>2, <2>4 DEF Result
<1> QED
    BY <1>1, <1>2

\* Removal touches no active file.
LEMMA RemovalFile ==
    ASSUME NEW k, disk[k] \in Disk, NEW gone, NEW stuck, NEW torn
    PROVE  AfterRemoval(k, gone, stuck, torn).file = disk[k].file
<1> DEFINE of(xs) == {x[2] : x \in {y \in xs : y[1] = k}}
           closed == (disk[k].closed \ (of(gone) \cup of(stuck) \cup of(torn)))
                       \cup {[s EXCEPT !.meta = NoSidecar] : s \in of(stuck)}
           stray == disk[k].stray
                      \cup {[date |-> s.date, seq |-> s.seq, meta |-> s.meta]
                              : s \in of(torn)}
<1>1. AfterRemoval(k, gone, stuck, torn) =
          [disk[k] EXCEPT !.closed = closed, !.stray = stray]
    BY DEF AfterRemoval
<1> HIDE DEF closed, stray
<1> QED
    BY <1>1 DEF Disk

LEMMA ServesNeat ==
    ASSUME Undisturbed, IInv, NEW k \in Kinds, Neat(active[k], disk[k]), Serves(k)
    PROVE  Neat(active[k], disk[k])'
<1>1. Sound(active[k]) /\ disk[k] \in Disk /\ today \in Nat
    BY IInvSound DEF IInv, TypeOK
<1>2. CASE Becomes(k, active[k], disk[k])
    BY <1>2 DEF Becomes, Neat
<1>3. ASSUME NEW r \in FlushLocked(active[k], disk[k]) \cup RotateLocked(active[k], disk[k]),
             Becomes(k, r.seg, r.disk)
      PROVE  Neat(active[k], disk[k])'
    <2>1. Neat(r.seg, r.disk)
        BY <1>1, FlushNeat, RotateNeat
    <2> QED
        BY <1>3, <2>1 DEF Becomes, Neat
<1>4. ASSUME NEW r \in Record, NEW q \in RotatedFor(active[k], disk[k], r)
      PROVE  /\ Becomes(k, q.seg, q.disk) => Neat(active[k], disk[k])'
             /\ \A f \in AutoFlushed(Accepting(q.seg, r), q.disk, q.saved) :
                    Becomes(k, f[1].seg, f[1].disk) => Neat(active[k], disk[k])'
    <2>1. Neat(q.seg, q.disk) /\ Sound(q.seg) /\ q.disk \in Disk
        BY <1>1, RotatedForNeat, RotatedForOK DEF ResultOK
    <2>2. Sound(Accepting(q.seg, r)) /\ Neat(Accepting(q.seg, r), q.disk)
        BY <2>1, AcceptingSound, AcceptingNeat
    <2>3. \A f \in AutoFlushed(Accepting(q.seg, r), q.disk, q.saved) :
              Neat(f[1].seg, f[1].disk)
        BY <2>1, <2>2, AutoFlushNeat
    <2> QED
        BY <2>1, <2>3 DEF Becomes, Neat
<1>5. ASSUME NEW gone, NEW stuck, NEW torn,
             Becomes(k, active[k], AfterRemoval(k, gone, stuck, torn))
      PROVE  Neat(active[k], disk[k])'
    BY <1>1, <1>5, RemovalFile DEF Becomes, Neat
<1> QED
    BY <1>2, <1>3, <1>4, <1>5 DEF Serves

LEMMA OpensNeat ==
    ASSUME IInv, NEW k \in Kinds, Opens(k)
    PROVE  Neat(active[k], disk[k])'
<1>1. disk[k] \in Disk
    BY DEF IInv, TypeOK
<1>2. ~disk'[k].file.present
    <2>1. CASE Leftover(k)
        <3>1. \E info : disk'[k] \in ClosedFiles(disk[k], info)
            BY <2>1 DEF Opens, Recovered
        <3> QED
            BY <1>1, <3>1, FilesMoved DEF NoFile
    <2>2. CASE ~Leftover(k)
        BY <2>2 DEF Opens, Leftover
    <2> QED
        BY <2>1, <2>2
<1> QED
    BY <1>2 DEF Opens, Neat, NoSegment

\* The frame, for a step of the agent.
LEMMA AgentByKind ==
    ASSUME AgentInv, [AgentNext]_allVars
    PROVE  ByKind
<1>1. CASE [Next]_vars
    BY <1>1, NextByKind, SpoolInv
<1>2. CASE Leaves
    BY <1>2 DEF Leaves, Dies, ByKind, Abandons, Becomes
<1> QED
    BY <1>1, <1>2, SpoolStep

\* Where a stop can come to its last two phases from.
LEMMA LastPhases ==
    ASSUME AgentInv, [AgentNext]_allVars, phase' \in {"stopping", "stopped"}
    PROVE  \/ StopFlush \/ StopFlushFails
           \/ StopRotate /\ phase' = "stopped"
           \/ phase' = phase /\ active' = active
<1>1. CASE UNCHANGED allVars
    BY <1>1 DEF allVars, agentVars, vars
<1>2. CASE \/ \E k \in Kinds, ts \in Timestamps : AppendTick(k, ts)
           \/ FlushTick \/ RetentionTick
    BY <1>2 DEF AppendTick, FlushTick, RetentionTick, agentVars
<1>3. CASE ExportStep
    BY <1>3 DEF ExportStep, SkipExport, FirstRun, RotateForExport, RotateForExportFails,
                NothingToExport, WriteBundle, WriteBundleFails, RemoveExported,
                ExportDone, MarkExported
<1>4. CASE StopStep
    BY <1>4 DEF StopStep, Shutdown, StopRotate, Exit, Gone
<1>5. CASE Killed \/ KilledInRetention \/ KilledInRemove
    BY <1>5 DEF Killed, KilledInRetention, KilledInRemove, Gone
<1>6. CASE Start \/ \E c \in Kinds : StartFails(c)
    BY <1>6 DEF Start, Open, StartFails, OpenFails, agentVars, AgentInv
<1>7. CASE Midnight \/ TenPast
    BY <1>7 DEF Midnight, NewDay, TenPast, vars
<1> QED
    BY <1>1, <1>2, <1>3, <1>4, <1>5, <1>6, <1>7 DEF AgentNext

LEMMA StopInvStep ==
    ASSUME Undisturbed, AgentInv, StopInv, [AgentNext]_allVars
    PROVE  StopInv'
<1>1. IInv /\ ByKind
    BY SpoolInv, AgentByKind
<1>2. ASSUME up' PROVE \A k \in Kinds : Neat(active[k], disk[k])'
    <2>1. CASE up /\ \A k \in Kinds : Serves(k)
        BY <1>1, <2>1, ServesNeat DEF StopInv
    <2>2. CASE ~up /\ \A k \in Kinds : Opens(k)
        BY <1>1, <2>2, OpensNeat
    <2> QED
        BY <1>1, <1>2, <2>1, <2>2 DEF ByKind
<1>3. ASSUME up, NEW k \in Kinds
      PROVE  /\ Sound(active[k]) /\ disk[k] \in Disk /\ Neat(active[k], disk[k])
             /\ \A r \in FlushLocked(active[k], disk[k]) : r.ok /\ r.seg.buf = <<>>
             /\ \A r \in RotateLocked(active[k], disk[k]) : ~r.seg.open
    <2>1. Sound(active[k]) /\ disk[k] \in Disk /\ Neat(active[k], disk[k])
        BY <1>1, <1>3, IInvSound DEF StopInv
    <2> QED
        BY <2>1, FlushNeat, RotateNeat
<1>4. ASSUME phase' = "stopping" PROVE \A k \in Kinds : active'[k].buf = <<>>
    <2>1. CASE StopFlush
        <3>1. up /\ \A k \in Kinds : \E r \in FlushLocked(active[k], disk[k]) :
                  active'[k] = r.seg
            BY <2>1 DEF StopFlush, ForEachKind
        <3> QED
            BY <1>3, <3>1
    <2>2. CASE phase = "stopping" /\ active' = active
        BY <2>2 DEF StopInv
    <2> QED
        BY <1>4, <2>1, <2>2, LastPhases DEF StopFlushFails
<1>5. ASSUME phase' = "stopped" PROVE \A k \in Kinds : ~active'[k].open
    <2>1. CASE StopFlushFails
        <3>1. PICK c \in Kinds :
                  ForEachKind([k \in Kinds |->
                                  {r \in FlushLocked(active[k], disk[k]) : k = c => ~r.ok}])
            BY <2>1 DEF StopFlushFails
        <3>2. up /\ \E r \in FlushLocked(active[c], disk[c]) : ~r.ok
            BY <3>1 DEF ForEachKind
        <3> QED
            BY <1>3, <3>2
    <2>2. CASE StopRotate
        <3>1. up /\ \A k \in Kinds : \E r \in RotateLocked(active[k], disk[k]) :
                  active'[k] = r.seg
            BY <2>2 DEF StopRotate, Rotate, ForEachKind
        <3> QED
            BY <1>3, <3>1
    <2>3. CASE phase = "stopped" /\ active' = active
        BY <2>3 DEF StopInv
    <2> QED
        BY <1>5, <2>1, <2>2, <2>3, LastPhases DEF StopFlush
<1> QED
    BY <1>2, <1>4, <1>5 DEF StopInv

\* A clean stop without a disk error leaves every record in a closed segment
\* (agent.go:287-298): whatever has been appended, exported, deleted and
\* recovered before, in this process or an earlier one that was killed, the
\* last Flush and Rotate leave no active file and nothing in memory.
THEOREM StopsClean == AgentSpec => []CleanStop
<1>1. CASE ~Undisturbed
    <2>1. CleanStop
        BY <1>1 DEF CleanStop, Undisturbed
    <2> QED
        BY <2>1, PTL
<1>2. CASE Undisturbed
    <2>1. AgentInit => AgentInv /\ StopInv
        <3>1. AgentInit => StopInv
            BY DEF AgentInit, Init, StopInv, Neat, NoSegment, NoFile
        <3> QED
            BY <3>1, AgentInvInit
    <2>2. AgentInv /\ StopInv /\ [AgentNext]_allVars => AgentInv' /\ StopInv'
        BY <1>2, AgentInvStep, StopInvStep
    <2>3. AgentInv /\ StopInv => CleanStop
        <3>1. ASSUME AgentInv, StopInv, phase = "stopped", NEW k \in Kinds
              PROVE  active[k].buf = <<>> /\ ~disk[k].file.present
            BY <3>1 DEF AgentInv, StopInv, Neat
        <3>2. ASSUME AgentInv, StopInv, phase = "stopped" PROVE InMemory = {}
            BY <3>1, <3>2, EmptyFile DEF InMemory
        <3> QED
            BY <3>1, <3>2 DEF CleanStop
    <2> QED
        BY <2>1, <2>2, <2>3, PTL DEF AgentSpec
<1> QED
    BY <1>1, <1>2

-----------------------------------------------------------------------------
(* One bundle per record.  Where the process does not die, every record is *)
(* in one place at a time: in the memory and the active file of one kind   *)
(* (Held), or in one listed segment; what an export is not still removing  *)
(* is in no bundle.                                                        *)

\* The agent removes what it exported; it does not die inside a handler; and a
\* removal does not fail twice, on the data file and on its sidecar.
OneShipment ==
    /\ RemoveAfter
    /\ Faults \cap {"crash", "crashRemove"} = {}
    /\ ~({"remove", "removeMeta"} \subseteq Faults)

\* Where no process runs, nothing is in memory.
Vacant == ~up => \A k \in Kinds : active[k].buf = <<>>

Reads(x) == ReadSegment(x[2].members)

OnceInv ==
    /\ Apart
    /\ \A x \in ListClosed :
          /\ \A k \in Kinds : Held(active[k], disk[k]) \cap Reads(x) = {}
          /\ \A y \in ListClosed : x # y => Reads(x) \cap Reads(y) = {}
          /\ x \notin todo => Reads(x) \cap Bundled = {}
          /\ \A r \in Reads(x) : r.id \in 1 .. offered
    /\ \A k \in Kinds :
          /\ Held(active[k], disk[k]) \cap Bundled = {}
          /\ \A r \in Held(active[k], disk[k]) : r.id \in 1 .. offered
    /\ \A r \in Bundled : r.id \in 1 .. offered
    /\ ShippedOnce

\* What a call that leaves seg2 and e can have done to seg and d: the listing is
\* not longer, or what was held has become one more closed segment.  The
\* records in new are added to what is held.
Labelling(d) == {s \in d.closed : s.meta.present}

Stays(seg, d, new, seg2, e) ==
    /\ Held(seg2, e) \subseteq Held(seg, d) \cup new
    /\ Labelling(e) \subseteq Labelling(d)

Closes(seg, d, new, seg2, e) ==
    /\ Held(seg2, e) \subseteq new
    /\ \E s : /\ ReadSegment(s.members) \subseteq Held(seg, d)
              /\ Labelling(e) \subseteq Labelling(d) \cup {s}

Flows(seg, d, new, seg2, e) == Stays(seg, d, new, seg2, e) \/ Closes(seg, d, new, seg2, e)

LEMMA FlowsAgain ==
    ASSUME NEW seg, NEW d, NEW seg1, NEW d1, NEW seg2, NEW d2, NEW old, NEW new,
           Flows(seg, d, old, seg1, d1), Stays(seg1, d1, new, seg2, d2)
    PROVE  Flows(seg, d, old \cup new, seg2, d2)
<1>1. CASE Stays(seg, d, old, seg1, d1)
    BY <1>1 DEF Flows, Stays
<1>2. CASE Closes(seg, d, old, seg1, d1)
    <2>1. PICK s : /\ ReadSegment(s.members) \subseteq Held(seg, d)
                   /\ Labelling(d1) \subseteq Labelling(d) \cup {s}
        BY <1>2 DEF Closes
    <2>2. /\ Held(seg2, d2) \subseteq old \cup new
          /\ Labelling(d2) \subseteq Labelling(d) \cup {s}
        BY <1>2, <2>1 DEF Stays, Closes
    <2> QED
        BY <2>1, <2>2 DEF Flows, Closes
<1> QED
    BY <1>1, <1>2 DEF Flows

\* A write adds at most what was in the buffer to what a reader of the file
\* finds.
LEMMA WriteReads ==
    ASSUME NEW d \in Disk, NEW m \in Member
    PROVE  /\ ReadSegment(Written(d, m).file.members) \subseteq
                  ReadSegment(d.file.members) \cup Range(m.recs)
           /\ Written(d, m).closed = d.closed
           /\ Opened(d).file.members = d.file.members /\ Opened(d).closed = d.closed
<1>1. d.file.members \in Seq(Member)
    BY DEF Disk, File
<1>2. Written(d, m).file.members = Append(d.file.members, m)
    BY WrittenKeeps
<1>3. /\ Written(d, m).closed = d.closed
      /\ Opened(d).file.members = d.file.members /\ Opened(d).closed = d.closed
    BY DEF Written, Opened, Disk, File
<1> DEFINE more == Append(d.file.members, m)
<1>4. /\ DOMAIN d.file.members = 1 .. Len(d.file.members) /\ Len(d.file.members) \in Nat
      /\ DOMAIN more = 1 .. (Len(d.file.members) + 1)
      /\ \A i \in 1 .. Len(d.file.members) : more[i] = d.file.members[i]
      /\ more[Len(d.file.members) + 1] = m
    BY <1>1
<1> HIDE DEF more
<1>5. ASSUME NEW i \in Reached(more)
      PROVE  Range(more[i].recs) \subseteq ReadSegment(d.file.members) \cup Range(m.recs)
    <2>1. CASE i = Len(d.file.members) + 1
        BY <1>4, <2>1
    <2>2. CASE i # Len(d.file.members) + 1
        <3>1. i \in DOMAIN d.file.members
            BY <1>4, <2>2 DEF Reached
        <3>2. i \in Reached(d.file.members)
            BY <1>4, <3>1 DEF Reached
        <3>3. more[i] = d.file.members[i]
            BY <1>4, <3>1
        <3> QED
            BY <3>2, <3>3 DEF ReadSegment
    <2> QED
        BY <2>1, <2>2
<1>6. ReadSegment(more) \subseteq ReadSegment(d.file.members) \cup Range(m.recs)
    BY <1>5 DEF ReadSegment
<1> QED
    BY <1>2, <1>3, <1>6 DEF more

LEMMA FlushStays ==
    ASSUME NEW seg, Sound(seg), NEW d \in Disk, NEW r \in FlushLocked(seg, d)
    PROVE  Stays(seg, d, {}, r.seg, r.disk)
<1>1. seg.buf \in Seq(Record)
    BY DEF Sound, Segment
<1>2. CASE seg.buf = <<>> /\ r = Result(seg, d, TRUE, {})
    BY <1>2 DEF Result, Stays
<1>3. ASSUME NEW m \in Member, Range(m.recs) \subseteq Range(seg.buf), NEW s,
             s = seg \/ s.buf = <<>>
      PROVE  Stays(seg, d, {}, s, Written(d, m)) /\ Stays(seg, d, {}, s, Opened(d))
    <2>1. Range(s.buf) \subseteq Range(seg.buf)
        BY <1>3, EmptyFile
    <2> QED
        BY <1>3, <2>1, WriteReads, SMTT(60) DEF Stays, Held, Labelling
<1>4. CASE r = Result(Emptied(seg), Written(d, Whole(seg.buf)), TRUE, Range(seg.buf))
    <2>1. Whole(seg.buf) \in Member /\ Whole(seg.buf).recs = seg.buf
        BY <1>1, WholeType DEF Whole
    <2>2. Emptied(seg).buf = <<>>
        BY EmptiedSound
    <2>3. Stays(seg, d, {}, Emptied(seg), Written(d, Whole(seg.buf)))
        BY <1>3, <2>1, <2>2
    <2> QED
        BY <1>4, <2>3 DEF Result
<1>5. CASE \E e \in FailedWrites(seg.buf, d) : r = Result(seg, e, FALSE, {})
    <2>1. PICK e \in FailedWrites(seg.buf, d) : r = Result(seg, e, FALSE, {})
        BY <1>5
    <2>2. \/ e = d \/ e = Opened(d) \/ e = Written(d, Whole(seg.buf))
          \/ \E m \in TornMembers(seg.buf) : e = Written(d, m)
        BY DEF FailedWrites, TornWrites
    <2>3. CASE e = d
        BY <2>1, <2>3 DEF Result, Stays
    <2>4. CASE e = Opened(d) \/ e = Written(d, Whole(seg.buf))
        <3>1. Whole(seg.buf) \in Member /\ Whole(seg.buf).recs = seg.buf
            BY <1>1, WholeType DEF Whole
        <3>2. Stays(seg, d, {}, seg, e)
            BY <1>3, <2>4, <3>1
        <3> QED
            BY <2>1, <3>2 DEF Result
    <2>5. CASE \E m \in TornMembers(seg.buf) : e = Written(d, m)
        <3>1. PICK m \in TornMembers(seg.buf) : e = Written(d, m)
            BY <2>5
        <3>2. m \in Member /\ Range(m.recs) \subseteq Range(seg.buf)
            BY <1>1, TornType, TornIsPrefix
        <3>3. Stays(seg, d, {}, seg, e)
            BY <1>3, <3>1, <3>2
        <3> QED
            BY <2>1, <3>3 DEF Result
    <2> QED
        BY <2>2, <2>3, <2>4, <2>5
<1> QED
    BY <1>2, <1>4, <1>5 DEF FlushLocked

\* Moving the active file away.
LEMMA FilesClose ==
    ASSUME NEW seg, NEW d \in Disk, NEW info, NEW none, none.buf = <<>>,
           NEW e \in ClosedFiles(d, info) \cup UnlabelledFiles(d, info)
    PROVE  Closes(seg, d, {}, none, e)
<1>1. \E n, meta : e = Moved(d, SegmentDate(info), n, meta)
    <2>1. CASE e \in ClosedFiles(d, info)
        BY <2>1 DEF ClosedFiles
    <2>2. CASE e \in UnlabelledFiles(d, info)
        BY <2>2 DEF UnlabelledFiles
    <2> QED
        BY <2>1, <2>2
<1>2. PICK n, meta : e = Moved(d, SegmentDate(info), n, meta)
    BY <1>1
<1> DEFINE s == [date |-> SegmentDate(info), seq |-> n,
                 members |-> d.file.members, meta |-> meta]
<1>3. s.members = d.file.members /\ e.closed \subseteq d.closed \cup {s}
    BY <1>2 DEF Moved
<1> HIDE DEF s
<1>4. Labelling(e) \subseteq Labelling(d) \cup {s}
    BY <1>3 DEF Labelling
<1>5. ReadSegment(s.members) \subseteq Held(seg, d)
    BY <1>3 DEF Held
<1>6. Held(none, e) = {}
    BY FilesMoved, EmptyFile DEF Held
<1> QED
    BY <1>4, <1>5, <1>6 DEF Closes

LEMMA CloseFlows ==
    ASSUME NEW seg, seg.buf = <<>>, NEW d \in Disk, NEW r \in CloseSegment(seg, d)
    PROVE  Flows(seg, d, {}, r.seg, r.disk)
<1> DEFINE none == NoSegment
<1>1. none.buf = <<>> /\ Range(none.buf) = {}
    BY EmptyFile DEF NoSegment
<1>2. PICK e, ok : r = Result(NoSegment, e, ok, {})
                   /\ \/ e = d \/ e = WithoutFile(d)
                      \/ e \in ClosedFiles(d, seg) \cup UnlabelledFiles(d, seg)
    BY DEF CloseSegment, CloseFile
<1>3. r.seg = none /\ r.disk = e
    BY <1>2 DEF Result
<1> HIDE DEF none
<1>4. CASE e = d
    BY <1>1, <1>3, <1>4 DEF Flows, Stays, Held
<1>5. CASE e = WithoutFile(d)
    <2>1. e.file.members = <<>> /\ e.closed = d.closed
        BY <1>5 DEF WithoutFile, NoFile, Disk
    <2>2. Held(none, e) = {}
        BY <1>1, <2>1, EmptyFile DEF Held
    <2> QED
        BY <1>3, <2>1, <2>2 DEF Flows, Stays, Labelling
<1>6. CASE e \in ClosedFiles(d, seg) \cup UnlabelledFiles(d, seg)
    BY <1>1, <1>3, <1>6, FilesClose DEF Flows
<1> QED
    BY <1>2, <1>4, <1>5, <1>6

LEMMA RotateFlows ==
    ASSUME NEW seg, Sound(seg), NEW d \in Disk, NEW r \in RotateLocked(seg, d)
    PROVE  Flows(seg, d, {}, r.seg, r.disk)
<1>1. CASE ~seg.open
    BY <1>1 DEF RotateLocked, Result, Flows, Stays
<1>2. CASE seg.open
    <2>1. PICK f \in FlushLocked(seg, d) :
              \/ ~f.ok /\ r = f
              \/ f.ok /\ \E c \in CloseSegment(f.seg, f.disk) :
                            r = Result(c.seg, c.disk, c.ok, f.saved)
        BY <1>2 DEF RotateLocked
    <2>2. Stays(seg, d, {}, f.seg, f.disk) /\ f.disk \in Disk /\ (f.ok => f.seg.buf = <<>>)
        BY FlushStays, FlushLockedOK DEF ResultOK
    <2>3. ASSUME f.ok, NEW c \in CloseSegment(f.seg, f.disk),
                 r = Result(c.seg, c.disk, c.ok, f.saved)
          PROVE  Flows(seg, d, {}, r.seg, r.disk)
        <3>1. Flows(f.seg, f.disk, {}, c.seg, c.disk)
            BY <2>2, <2>3, CloseFlows
        <3>2. Flows(seg, d, {}, c.seg, c.disk)
            BY <2>2, <3>1 DEF Flows, Stays, Closes
        <3> QED
            BY <2>3, <3>2 DEF Result
    <2> QED
        BY <2>1, <2>2, <2>3 DEF Flows
<1> QED
    BY <1>1, <1>2

LEMMA RotatedForFlows ==
    ASSUME NEW seg, Sound(seg), NEW d \in Disk, NEW r, NEW q \in RotatedFor(seg, d, r)
    PROVE  Flows(seg, d, {}, q.seg, q.disk)
<1>1. CASE NeedsRotation(seg, r)
    BY <1>1, RotateFlows DEF RotatedFor
<1>2. CASE ~NeedsRotation(seg, r)
    BY <1>2 DEF RotatedFor, Result, Flows, Stays
<1> QED
    BY <1>1, <1>2

LEMMA AcceptingStays ==
    ASSUME NEW seg, Sound(seg), NEW d, NEW r \in Record
    PROVE  Stays(seg, d, {r}, Accepting(seg, r), d)
<1> DEFINE s == IF seg.open THEN seg ELSE NewSegment(r.ts)
<1>1. Sound(s) /\ (s.buf = seg.buf \/ s.buf = <<>>)
    BY NewSegmentSound DEF Record
<1> HIDE DEF s
<1>2. Buffered(s, r).buf = Append(s.buf, r) /\ s.buf \in Seq(Record)
    BY <1>1, BufferedSound DEF Sound, Segment
<1>3. Range(Buffered(s, r).buf) \subseteq Range(s.buf) \cup {r}
    <2> DEFINE b == Append(s.buf, r)
    <2>1. /\ DOMAIN b = 1 .. (Len(s.buf) + 1) /\ DOMAIN s.buf = 1 .. Len(s.buf)
          /\ Len(s.buf) \in Nat
          /\ \A i \in 1 .. Len(s.buf) : b[i] = s.buf[i]
          /\ b[Len(s.buf) + 1] = r
        BY <1>2
    <2> HIDE DEF b
    <2>2. ASSUME NEW i \in DOMAIN b
          PROVE  b[i] = r \/ (i \in DOMAIN s.buf /\ b[i] = s.buf[i])
        <3>1. CASE i = Len(s.buf) + 1
            BY <2>1, <3>1
        <3>2. CASE i # Len(s.buf) + 1
            <4>1. i \in 1 .. Len(s.buf)
                BY <2>1, <3>2
            <4> QED
                BY <2>1, <4>1
        <3> QED
            BY <3>1, <3>2
    <2>3. Range(b) \subseteq Range(s.buf) \cup {r}
        BY <2>2 DEF Range
    <2> QED
        BY <1>2, <2>3 DEF b
<1>4. Accepting(seg, r) = Buffered(s, r)
    BY DEF Accepting, s
<1>5. Range(s.buf) \subseteq Range(seg.buf)
    BY <1>1, EmptyFile
<1> QED
    BY <1>3, <1>4, <1>5 DEF Stays, Held

LEMMA AutoFlushStays ==
    ASSUME NEW seg, Sound(seg), NEW d \in Disk, NEW saved,
           NEW f \in AutoFlushed(seg, d, saved)
    PROVE  Stays(seg, d, {}, f[1].seg, f[1].disk)
<1>1. CASE Len(seg.buf) < AutoFlush
    <2>1. f = <<Result(seg, d, TRUE, saved), 0>>
        BY <1>1 DEF AutoFlushed
    <2>2. f[1] = Result(seg, d, TRUE, saved)
        BY <2>1
    <2> QED
        BY <2>2 DEF Result, Stays
<1>2. CASE ~(Len(seg.buf) < AutoFlush)
    <2>1. PICK g \in FlushLocked(seg, d) :
              f = IF g.ok THEN <<Result(g.seg, g.disk, TRUE, saved \cup g.saved), 0>>
                  ELSE <<Result(DropBatch(g.seg), g.disk, FALSE, saved),
                         Len(g.seg.buf)>>
        BY <1>2 DEF AutoFlushed
    <2>2. Stays(seg, d, {}, g.seg, g.disk) /\ Sound(g.seg)
        BY FlushStays, FlushLockedOK DEF ResultOK
    <2>3. CASE g.ok
        <3>1. f = <<Result(g.seg, g.disk, TRUE, saved \cup g.saved), 0>>
            BY <2>1, <2>3
        <3>2. f[1] = Result(g.seg, g.disk, TRUE, saved \cup g.saved)
            BY <3>1
        <3> QED
            BY <2>2, <3>2 DEF Result
    <2>4. CASE ~g.ok
        <3>1. f = <<Result(DropBatch(g.seg), g.disk, FALSE, saved), Len(g.seg.buf)>>
            BY <2>1, <2>4
        <3>2. f[1] = Result(DropBatch(g.seg), g.disk, FALSE, saved)
            BY <3>1
        <3>3. Range(DropBatch(g.seg).buf) = {}
            BY <2>2, DropBatchSound, EmptyFile
        <3>4. Stays(seg, d, {}, DropBatch(g.seg), g.disk)
            BY <2>2, <3>3 DEF Stays, Held
        <3> QED
            BY <3>2, <3>4 DEF Result
    <2> QED
        BY <2>3, <2>4
<1> QED
    BY <1>1, <1>2

LEMMA RemovalStays ==
    ASSUME IInv, NEW k \in Kinds, NEW gone, NEW stuck \in SUBSET ListClosed, NEW torn
    PROVE  Stays(active[k], disk[k], {}, active[k], AfterRemoval(k, gone, stuck, torn))
<1> DEFINE of(xs) == {x[2] : x \in {y \in xs : y[1] = k}}
           closed == (disk[k].closed \ (of(gone) \cup of(stuck) \cup of(torn)))
                       \cup {[s EXCEPT !.meta = NoSidecar] : s \in of(stuck)}
           stray == disk[k].stray
                      \cup {[date |-> s.date, seq |-> s.seq, meta |-> s.meta]
                              : s \in of(torn)}
           e == AfterRemoval(k, gone, stuck, torn)
<1>0. disk[k] \in Disk
    BY DEF IInv, TypeOK
<1>1. e = [disk[k] EXCEPT !.closed = closed, !.stray = stray]
    BY DEF AfterRemoval
<1>2. e.closed = closed
    <2> HIDE DEF closed, stray, e
    <2> QED
        BY <1>0, <1>1 DEF Disk
<1>3. ASSUME NEW s \in of(stuck) PROVE ~[s EXCEPT !.meta = NoSidecar].meta.present
    <2>1. s \in disk[k].closed
        BY Listed
    <2>2. s \in ClosedSegment
        BY <1>0, <2>1 DEF Disk
    <2> QED
        BY <2>2 DEF ClosedSegment, NoSidecar
<1>4. Labelling(e) \subseteq Labelling(disk[k])
    BY <1>2, <1>3 DEF Labelling
<1>5. e.file = disk[k].file
    BY <1>0, RemovalFile
<1> QED
    BY <1>4, <1>5 DEF Stays, Held

\* The flow of one step into every kind.
FlowsAll(new) ==
    /\ \A k \in Kinds : Flows(active[k], disk[k], new[k], active'[k], disk'[k])
    /\ \A j, k \in Kinds : j # k => new[j] \cap new[k] = {}
    /\ \A k \in Kinds : \A r \in new[k] :
          r.id \in Nat /\ offered < r.id /\ r.id <= offered'

LEMMA NothingNew ==
    ASSUME \A k \in Kinds : Flows(active[k], disk[k], {}, active'[k], disk'[k])
    PROVE  \E new : FlowsAll(new)
<1> DEFINE new == [k \in Kinds |-> {}]
<1>1. \A k \in Kinds : new[k] = {}
    OBVIOUS
<1> HIDE DEF new
<1>2. FlowsAll(new)
    BY <1>1 DEF FlowsAll
<1> QED
    BY <1>2

LEMMA AppendFlows ==
    ASSUME IInv, NEW c \in Kinds, NEW ts \in Timestamps, AppendRecord(c, ts)
    PROVE  \E new : FlowsAll(new)
<1> DEFINE r == NextRecord(ts)
           new == [k \in Kinds |-> IF k = c THEN {r} ELSE {}]
<1>1. /\ r \in Record /\ r.id = offered + 1 /\ offered' = offered + 1 /\ offered \in Nat
      /\ active \in [Kinds -> Segment] /\ disk \in [Kinds -> Disk] /\ today \in Nat
      /\ Sound(active[c])
    BY IInvSound DEF IInv, TypeOK, NextRecord, Timestamps, Record, AppendRecord
<1>2. Refused(c, r) \/ Taken(c, r)
    BY DEF AppendRecord
<1>3. /\ new[c] = {r}
      /\ \A k \in Kinds : k # c => new[k] = {}
    OBVIOUS
<1> HIDE DEF r, new
<1>4. \E seg, d : /\ active' = [active EXCEPT ![c] = seg] /\ disk' = [disk EXCEPT ![c] = d]
                  /\ Flows(active[c], disk[c], {r}, seg, d)
    <2>1. CASE Refused(c, r)
        <3>1. PICK q \in RotatedFor(active[c], disk[c], r) :
                  /\ active' = [active EXCEPT ![c] = q.seg]
                  /\ disk' = [disk EXCEPT ![c] = q.disk]
            BY <2>1 DEF Refused
        <3>2. Flows(active[c], disk[c], {}, q.seg, q.disk)
            BY <1>1, RotatedForFlows
        <3>3. Flows(active[c], disk[c], {r}, q.seg, q.disk)
            BY <3>2 DEF Flows, Stays, Closes
        <3> QED
            BY <3>1, <3>3
    <2>2. CASE Taken(c, r)
        <3>1. PICK q \in RotatedFor(active[c], disk[c], r) :
              \E f \in AutoFlushed(Accepting(q.seg, r), q.disk, q.saved) :
                  /\ active' = [active EXCEPT ![c] = f[1].seg]
                  /\ disk' = [disk EXCEPT ![c] = f[1].disk]
            BY <2>2 DEF Taken
        <3>2. PICK f \in AutoFlushed(Accepting(q.seg, r), q.disk, q.saved) :
                  /\ active' = [active EXCEPT ![c] = f[1].seg]
                  /\ disk' = [disk EXCEPT ![c] = f[1].disk]
            BY <3>1
        <3>3. /\ Flows(active[c], disk[c], {}, q.seg, q.disk)
              /\ Sound(q.seg) /\ q.disk \in Disk
            BY <1>1, RotatedForFlows, RotatedForOK DEF ResultOK
        <3>4. Stays(q.seg, q.disk, {r}, Accepting(q.seg, r), q.disk)
            BY <1>1, <3>3, AcceptingStays
        <3>5. Stays(Accepting(q.seg, r), q.disk, {}, f[1].seg, f[1].disk)
            BY <1>1, <3>3, AcceptingSound, AutoFlushStays
        <3>6. Stays(q.seg, q.disk, {r}, f[1].seg, f[1].disk)
            BY <3>4, <3>5 DEF Stays
        <3>7. Flows(active[c], disk[c], {} \cup {r}, f[1].seg, f[1].disk)
            BY <3>3, <3>6, FlowsAgain
        <3>8. {} \cup {r} = {r}
            OBVIOUS
        <3> QED
            BY <3>2, <3>7, <3>8
    <2> QED
        BY <1>2, <2>1, <2>2
<1>5. PICK seg, d : /\ active' = [active EXCEPT ![c] = seg] /\ disk' = [disk EXCEPT ![c] = d]
                    /\ Flows(active[c], disk[c], {r}, seg, d)
    BY <1>4
<1>6. \A k \in Kinds : Flows(active[k], disk[k], new[k], active'[k], disk'[k])
    <2>1. ASSUME NEW k \in Kinds, k = c
          PROVE  Flows(active[k], disk[k], new[k], active'[k], disk'[k])
        BY <1>1, <1>3, <1>5, <2>1
    <2>2. ASSUME NEW k \in Kinds, k # c
          PROVE  Flows(active[k], disk[k], new[k], active'[k], disk'[k])
        <3>1. active'[k] = active[k] /\ disk'[k] = disk[k] /\ new[k] = {}
            BY <1>1, <1>3, <1>5, <2>2
        <3> QED
            BY <3>1 DEF Flows, Stays
    <2> QED
        BY <2>1, <2>2
<1>7. FlowsAll(new)
    BY <1>1, <1>3, <1>6 DEF FlowsAll, Record
<1> QED
    BY <1>7

LEMMA SpoolFlows ==
    ASSUME IInv, Vacant, Faults \cap {"crash", "crashRemove"} = {}, [Next]_vars \/ Leaves
    PROVE  \E new : FlowsAll(new)
<1>0. \A k \in Kinds : Sound(active[k]) /\ disk[k] \in Disk
    BY IInvSound
<1>1. CASE UNCHANGED <<active, disk>>
    BY <1>1, NothingNew DEF Flows, Stays
<1>2. CASE \E k \in Kinds, ts \in Timestamps : AppendRecord(k, ts)
    BY <1>2, AppendFlows
<1>3. CASE Flush \/ Rotate
    <2>1. ASSUME NEW k \in Kinds
          PROVE  \E r \in FlushLocked(active[k], disk[k]) \cup RotateLocked(active[k], disk[k]) :
                     active'[k] = r.seg /\ disk'[k] = r.disk
        BY <1>3 DEF Flush, Rotate, ForEachKind
    <2>2. \A k \in Kinds : Flows(active[k], disk[k], {}, active'[k], disk'[k])
        BY <1>0, <2>1, FlushStays, RotateFlows DEF Flows
    <2> QED
        BY <2>2, NothingNew
<1>4. CASE EnforceRetention \/ Remove
    <2>1. /\ active' = active
          /\ \E xs \in SUBSET ListClosed :
                \E stuck \in Stuck(xs), left \in SidecarStuck(xs) : RemoveEach(xs, stuck, left)
        <3>1. CASE EnforceRetention
            BY <3>1 DEF EnforceRetention
        <3>2. CASE Remove
            <4>1. PICK x \in ListClosed :
                      \E stuck \in Stuck({x}), left \in SidecarStuck({x}) : RemoveEach({x}, stuck, left)
                BY <3>2 DEF Remove
            <4>2. {x} \in SUBSET ListClosed /\ active' = active
                BY <3>2 DEF Remove
            <4> QED
                BY <4>1, <4>2
        <3> QED
            BY <1>4, <3>1, <3>2
    <2>2. PICK xs \in SUBSET ListClosed :
              \E stuck \in Stuck(xs), left \in SidecarStuck(xs) : RemoveEach(xs, stuck, left)
        BY <2>1
    <2>3. PICK stuck \in Stuck(xs), left \in SidecarStuck(xs) : RemoveEach(xs, stuck, left)
        BY <2>2
    <2>4. stuck \ left \in SUBSET ListClosed
        BY DEF Stuck
    <2>5. ASSUME NEW k \in Kinds
          PROVE  disk'[k] = AfterRemoval(k, xs \ (stuck \cup left), stuck \ left, left \ stuck)
        BY <2>3 DEF RemoveEach, RemoveSegments
    <2>6. \A k \in Kinds : Flows(active[k], disk[k], {}, active'[k], disk'[k])
        BY <2>1, <2>4, <2>5, RemovalStays DEF Flows
    <2> QED
        BY <2>6, NothingNew
<1>5. CASE Open \/ \E c \in Kinds : OpenFails(c)
    <2>1. ASSUME NEW k \in Kinds
          PROVE  Flows(active[k], disk[k], {}, active'[k], disk'[k])
        <3>1. /\ ~up /\ active[k].buf = <<>> /\ active'[k].buf = <<>>
              /\ disk'[k] \in {disk[k]} \cup Recovered(disk[k]) \cup HalfRecovered(disk[k])
            BY <1>5 DEF Open, OpenFails, NoSegment, Vacant
        <3>2. CASE disk'[k] = disk[k]
            BY <3>1, <3>2 DEF Flows, Stays, Held
        <3>3. CASE disk'[k] # disk[k]
            <4>1. \E info : disk'[k] \in ClosedFiles(disk[k], info) \cup UnlabelledFiles(disk[k], info)
                BY <3>1, <3>3 DEF Recovered, HalfRecovered
            <4>2. Closes(active[k], disk[k], {}, active'[k], disk'[k])
                BY <1>0, <3>1, <4>1, FilesClose
            <4> QED
                BY <4>2 DEF Flows
        <3> QED
            BY <3>2, <3>3
    <2> QED
        BY <2>1, NothingNew
<1>6. CASE Leaves
    <2>1. ASSUME NEW k \in Kinds
          PROVE  active'[k].buf = <<>> /\ disk'[k] = disk[k]
        BY <1>6 DEF Leaves, Dies, NoSegment
    <2>2. \A k \in Kinds : Flows(active[k], disk[k], {}, active'[k], disk'[k])
        BY <2>1, EmptyFile DEF Flows, Stays, Held
    <2> QED
        BY <2>2, NothingNew
<1>7. CASE Failure /\ ~\E c \in Kinds : OpenFails(c)
    BY <1>7 DEF Failure, CrashInAppend, CrashInFlush, CrashInRotate, DiesWhile,
                CrashInRetention, CrashInRemove, Crash
<1> QED
    BY <1>1, <1>2, <1>3, <1>4, <1>5, <1>6, <1>7 DEF Next, Operation, NewDay, vars

LEMMA VacantStep ==
    ASSUME AgentInv, Vacant, [AgentNext]_allVars
    PROVE  Vacant'
<1>1. ASSUME ~up', NEW k \in Kinds PROVE active'[k] = NoSegment \/ (~up /\ active'[k] = active[k])
    BY <1>1, AgentByKind DEF ByKind, Abandons, Becomes, Fails
<1> QED
    BY <1>1 DEF Vacant, NoSegment

\* Records that flow leave the places they were in.
LEMMA FlowsOnce ==
    ASSUME IInv, OnceInv, offered' \in Nat, offered <= offered', NEW new, FlowsAll(new),
           bundles' = bundles, \A x \in ListClosed' : x \in todo => x \in todo'
    PROVE  OnceInv'
<1> DEFINE held(k) == Held(active[k], disk[k])
           after(k) == Held(active'[k], disk'[k])
<1>1. offered \in Nat
    BY DEF IInv, TypeOK
<1>2. \A k \in Kinds : after(k) \subseteq held(k) \cup new[k]
    BY DEF FlowsAll, Flows, Stays, Closes
<1>3. ASSUME NEW k \in Kinds, NEW r \in new[k]
      PROVE  /\ r \notin Bundled
             /\ \A j \in Kinds : r \notin held(j)
             /\ \A x \in ListClosed : r \notin Reads(x)
    <2>1. r.id \in Nat /\ offered < r.id
        BY DEF FlowsAll
    <2>2. r.id \notin 1 .. offered
        BY <1>1, <2>1
    <2> QED
        BY <2>2 DEF OnceInv
<1>4. Bundled' = Bundled
    BY DEF Bundled, RecordsOf
\* The old places.
<1>5. /\ \A j, k \in Kinds : j # k => held(j) \cap held(k) = {}
      /\ \A k \in Kinds : held(k) \cap Bundled = {}
      /\ \A x \in ListClosed : \A k \in Kinds : held(k) \cap Reads(x) = {}
      /\ \A x, y \in ListClosed : x # y => Reads(x) \cap Reads(y) = {}
      /\ \A x \in ListClosed : x \notin todo => Reads(x) \cap Bundled = {}
      /\ \A j, k \in Kinds : j # k => new[j] \cap new[k] = {}
    BY DEF OnceInv, Apart, FlowsAll
\* A segment that is listed after the step was listed, or holds what was held.
<1>6. ASSUME NEW x \in ListClosed', x \notin ListClosed
      PROVE  /\ x[1] \in Kinds /\ x = <<x[1], x[2]>>
             /\ Reads(x) \subseteq held(x[1]) /\ after(x[1]) \subseteq new[x[1]]
             /\ \A y \in ListClosed' : y \notin ListClosed /\ y[1] = x[1] => y = x
    <2>1. ASSUME NEW y \in ListClosed'
          PROVE  /\ y[1] \in Kinds /\ y = <<y[1], y[2]>>
                 /\ y[2] \in Labelling(disk'[y[1]])
                 /\ y[2] \in Labelling(disk[y[1]]) => y \in ListClosed
        <3>1. PICK k \in Kinds :
                  y \in {<<k, s>> : s \in {c \in disk'[k].closed : c.meta.present}}
            BY DEF ListClosed
        <3>2. PICK s \in disk'[k].closed : y = <<k, s>> /\ s.meta.present
            BY <3>1
        <3> QED
            BY <3>2 DEF ListClosed, Labelling
    <2> DEFINE k == x[1]
    <2>2. k \in Kinds /\ x[2] \in Labelling(disk'[k]) /\ x[2] \notin Labelling(disk[k])
        BY <1>6, <2>1
    <2>3. Closes(active[k], disk[k], new[k], active'[k], disk'[k])
        BY <2>2 DEF FlowsAll, Flows, Stays
    <2>4. PICK s : /\ ReadSegment(s.members) \subseteq held(k)
                   /\ Labelling(disk'[k]) \subseteq Labelling(disk[k]) \cup {s}
        BY <2>3 DEF Closes
    <2>5. x[2] = s
        BY <2>2, <2>4
    <2>6. ASSUME NEW y \in ListClosed', y \notin ListClosed, y[1] = k PROVE y = x
        <3>1. y[2] = s
            BY <2>1, <2>4, <2>6
        <3> QED
            BY <1>6, <2>1, <2>5, <2>6, <3>1
    <2>7. after(k) \subseteq new[k]
        BY <2>3 DEF Closes
    <2> QED
        BY <1>6, <2>1, <2>4, <2>5, <2>6, <2>7 DEF Reads
<1> HIDE DEF held, after
<1>7. \A j, k \in Kinds : j # k => after(j) \cap after(k) = {}
    BY <1>2, <1>3, <1>5
<1>8. ASSUME NEW x \in ListClosed'
      PROVE  /\ \A k \in Kinds : after(k) \cap Reads(x) = {}
             /\ \A y \in ListClosed' : x # y => Reads(x) \cap Reads(y) = {}
             /\ x \notin todo' => Reads(x) \cap Bundled = {}
             /\ \A r \in Reads(x) : r.id \in 1 .. offered
    <2>1. CASE x \in ListClosed
        <3>1. \A k \in Kinds : after(k) \cap Reads(x) = {}
            BY <1>2, <1>3, <1>5, <2>1
        <3>2. \A y \in ListClosed' : x # y => Reads(x) \cap Reads(y) = {}
            BY <1>5, <1>6, <2>1
        <3>3. x \notin todo' => Reads(x) \cap Bundled = {}
            BY <1>5, <2>1
        <3>4. \A r \in Reads(x) : r.id \in 1 .. offered
            BY <2>1 DEF OnceInv
        <3> QED
            BY <3>1, <3>2, <3>3, <3>4
    <2>2. CASE x \notin ListClosed
        <3> DEFINE c == x[1]
        <3>1. /\ c \in Kinds /\ Reads(x) \subseteq held(c) /\ after(c) \subseteq new[c]
              /\ \A y \in ListClosed' : y \notin ListClosed /\ y[1] = c => y = x
            BY <1>6, <2>2
        <3> HIDE DEF c
        <3>2. ASSUME NEW k \in Kinds PROVE after(k) \cap Reads(x) = {}
            <4>1. CASE k = c
                BY <1>3, <3>1, <4>1
            <4>2. CASE k # c
                BY <1>2, <1>3, <1>5, <3>1, <4>2
            <4> QED
                BY <4>1, <4>2
        <3>3. ASSUME NEW y \in ListClosed', x # y PROVE Reads(x) \cap Reads(y) = {}
            <4>1. CASE y \in ListClosed
                BY <1>5, <3>1, <4>1
            <4>2. CASE y \notin ListClosed
                <5>1. y[1] \in Kinds /\ y[1] # c /\ Reads(y) \subseteq held(y[1])
                    BY <1>6, <3>1, <3>3, <4>2
                <5> QED
                    BY <1>5, <3>1, <5>1
            <4> QED
                BY <4>1, <4>2
        <3>4. Reads(x) \cap Bundled = {}
            BY <1>5, <3>1
        <3>5. \A r \in Reads(x) : r.id \in 1 .. offered
            BY <3>1 DEF OnceInv, held
        <3> QED
            BY <3>2, <3>3, <3>4, <3>5
    <2> QED
        BY <2>1, <2>2
<1>9. ASSUME NEW k \in Kinds
      PROVE  /\ after(k) \cap Bundled = {}
             /\ \A r \in after(k) : r.id \in 1 .. offered'
    <2>1. \A r \in held(k) : r.id \in 1 .. offered
        BY DEF OnceInv, held
    <2>2. \A r \in new[k] : r.id \in 1 .. offered'
        BY <1>1 DEF FlowsAll
    <2>3. 1 .. offered \subseteq 1 .. offered'
        BY <1>1
    <2> QED
        BY <1>2, <1>3, <1>5, <2>1, <2>2, <2>3
<1>10. 1 .. offered \subseteq 1 .. offered'
    BY <1>1
<1>11. Apart' /\ \A k \in Kinds : /\ Held(active[k], disk[k])' \cap Bundled' = {}
                                  /\ \A r \in Held(active[k], disk[k])' : r.id \in 1 .. offered'
    BY <1>4, <1>7, <1>9 DEF Apart, after, Held
<1>12. ShippedOnce'
    BY DEF OnceInv, ShippedOnce, RecordsOf
<1>13. \A r \in Bundled' : r.id \in 1 .. offered'
    BY <1>4, <1>10 DEF OnceInv
<1>14. \A x \in ListClosed' :
          /\ \A k \in Kinds : Held(active[k], disk[k])' \cap Reads(x) = {}
          /\ \A y \in ListClosed' : x # y => Reads(x) \cap Reads(y) = {}
          /\ x \notin todo' => Reads(x) \cap Bundled' = {}
          /\ \A r \in Reads(x) : r.id \in 1 .. offered'
    BY <1>4, <1>8, <1>10 DEF after, Held
<1>15. \A x : Reads(x)' = Reads(x)
    BY DEF Reads
<1> QED
    BY <1>11, <1>12, <1>13, <1>14, <1>15 DEF OnceInv, Reads

\* The bundle takes what is listed; nothing of it is in a bundle before.
LEMMA WriteBundleOnce ==
    ASSUME IInv, OnceInv, RemoveAfter, WriteBundle, todo = {}, BundlesOK
    PROVE  OnceInv'
<1> DEFINE n == Len(bundles)
<1>1. PICK S : bundles \in Seq(S)
    BY DEF BundlesOK
<1> DEFINE X == ListClosed
           T == S \cup {X}
<1>2. bundles \in Seq(T) /\ X \in T /\ bundles' = Append(bundles, X)
    BY <1>1 DEF WriteBundle
<1>3. /\ DOMAIN bundles' = DOMAIN bundles \cup {n + 1}
      /\ \A i \in DOMAIN bundles : bundles'[i] = bundles[i]
      /\ bundles'[n + 1] = X /\ n + 1 \notin DOMAIN bundles
    <2> HIDE DEF X, T
    <2> QED
        BY <1>2
<1>4. todo' = X /\ UNCHANGED <<disk, active, offered>> /\ ListClosed' = X
    BY DEF WriteBundle, vars, ListClosed
<1> HIDE DEF n
<1>5. Bundled' = Bundled \cup RecordsOf(X)
    <2> HIDE DEF X
    <2> QED
        BY <1>3 DEF Bundled, RecordsOf
<1>6. RecordsOf(X) = UNION {Reads(x) : x \in ListClosed}
    BY DEF RecordsOf, Reads
<1>7. /\ RecordsOf(X) \cap Bundled = {}
      /\ \A k \in Kinds : Held(active[k], disk[k]) \cap RecordsOf(X) = {}
      /\ \A r \in RecordsOf(X) : r.id \in 1 .. offered
    BY <1>6 DEF OnceInv
<1>8. ShippedOnce'
    <2>1. \A i \in DOMAIN bundles : RecordsOf(bundles[i]) \cap RecordsOf(X) = {}
        BY <1>7 DEF Bundled
    <2>2. \A i, j \in DOMAIN bundles :
              i # j => RecordsOf(bundles[i]) \cap RecordsOf(bundles[j]) = {}
        BY DEF OnceInv, ShippedOnce
    <2> HIDE DEF X
    <2>3. \A i, j \in DOMAIN bundles' :
              i # j => RecordsOf(bundles'[i]) \cap RecordsOf(bundles'[j]) = {}
        BY <1>3, <2>1, <2>2
    <2> QED
        BY <2>3 DEF ShippedOnce, RecordsOf
<1>9. \A k \in Kinds : Held(active[k], disk[k])' = Held(active[k], disk[k])
    BY <1>4
<1>10. Apart'
    BY <1>9 DEF OnceInv, Apart
<1>11. \A x \in ListClosed' :
          /\ \A k \in Kinds : Held(active[k], disk[k])' \cap Reads(x) = {}
          /\ \A y \in ListClosed' : x # y => Reads(x) \cap Reads(y) = {}
          /\ x \in todo'
          /\ \A r \in Reads(x) : r.id \in 1 .. offered'
    BY <1>4, <1>9 DEF OnceInv
<1>12. \A k \in Kinds : /\ Held(active[k], disk[k])' \cap Bundled' = {}
                        /\ \A r \in Held(active[k], disk[k])' : r.id \in 1 .. offered'
    BY <1>4, <1>5, <1>7, <1>9 DEF OnceInv
<1>13. \A r \in Bundled' : r.id \in 1 .. offered'
    BY <1>4, <1>5, <1>7 DEF OnceInv
<1> QED
    BY <1>8, <1>10, <1>11, <1>12, <1>13 DEF OnceInv, Reads

\* A removal whose data file or sidecar goes takes the segment off the listing.
LEMMA RemovedUnlisted ==
    ASSUME IInv, OneShipment, NEW x \in ListClosed, NEW stuck \in Stuck({x}),
           NEW left \in SidecarStuck({x}), RemoveEach({x}, stuck, left)
    PROVE  x \notin ListClosed'
<1> DEFINE gone == {x} \ (stuck \cup left)
           halves == stuck \ left
           torn == left \ stuck
<1>1. /\ gone \cup halves \cup torn = {x} /\ halves \subseteq {x}
      /\ RemoveSegments(gone, halves, torn)
    <2>1. stuck = {} \/ left = {}
        BY DEF Stuck, SidecarStuck, OneShipment
    <2>2. stuck \subseteq {x} /\ left \subseteq {x}
        BY DEF Stuck, SidecarStuck
    <2> QED
        BY <2>1, <2>2 DEF RemoveEach
<1> HIDE DEF gone, halves, torn
<1> DEFINE k == x[1]
           of(xs) == {z[2] : z \in {w \in xs : w[1] = k}}
           closed == (disk[k].closed \ (of(gone) \cup of(halves) \cup of(torn)))
                       \cup {[s EXCEPT !.meta = NoSidecar] : s \in of(halves)}
           stray == disk[k].stray
                      \cup {[date |-> s.date, seq |-> s.seq, meta |-> s.meta]
                              : s \in of(torn)}
<1>2. /\ k \in Kinds /\ x[2] \in disk[k].closed /\ x[2].meta.present
      /\ x = <<x[1], x[2]>> /\ disk[k] \in Disk
    BY Listed DEF IInv, TypeOK
<1>3. disk'[k] = [disk[k] EXCEPT !.closed = closed, !.stray = stray]
    BY <1>1, <1>2 DEF RemoveSegments, AfterRemoval
<1>4. disk'[k].closed = closed
    <2> HIDE DEF closed, stray
    <2> QED
        BY <1>2, <1>3 DEF Disk
<1>5. ASSUME NEW s \in of(halves) PROVE ~[s EXCEPT !.meta = NoSidecar].meta.present
    <2>1. s = x[2]
        BY <1>1
    <2>2. s \in ClosedSegment
        BY <1>2, <2>1 DEF Disk
    <2> QED
        BY <2>2 DEF ClosedSegment, NoSidecar
<1>6. x[2] \in of(gone) \cup of(halves) \cup of(torn)
    <2>1. x \in gone \/ x \in halves \/ x \in torn
        BY <1>1
    <2> QED
        BY <2>1
<1>7. x[2] \notin closed
    BY <1>2, <1>5, <1>6
<1>8. ASSUME x \in ListClosed' PROVE FALSE
    <2>1. PICK c \in Kinds :
              x \in {<<c, s>> : s \in {q \in disk'[c].closed : q.meta.present}}
        BY <1>8 DEF ListClosed
    <2>2. PICK s \in disk'[c].closed : x = <<c, s>>
        BY <2>1
    <2>3. x[1] = c /\ x[2] = s
        BY <2>2
    <2> QED
        BY <1>4, <1>7, <2>2, <2>3
<1> QED
    BY <1>8

\* What becomes of the bundles and of what is to do.
LEMMA TodoStep ==
    ASSUME AgentInv, OneShipment, [AgentNext]_allVars, ~WriteBundle
    PROVE  bundles' = bundles /\ \A x \in ListClosed' : x \in todo => x \in todo'
<1>1. CASE UNCHANGED allVars
    BY <1>1 DEF allVars, agentVars
<1>2. CASE \/ \E k \in Kinds, ts \in Timestamps : AppendTick(k, ts)
           \/ FlushTick \/ RetentionTick
    BY <1>2 DEF AppendTick, FlushTick, RetentionTick, agentVars
<1>3. CASE ExportStep
    <2>1. CASE RemoveExported
        <3>1. PICK x \in todo :
                  /\ \E stuck \in Stuck({x}), left \in SidecarStuck({x}) :
                        RemoveEach({x}, stuck, left)
                  /\ todo' = todo \ {x}
            BY <2>1 DEF RemoveExported
        <3>2. x \in ListClosed
            BY <2>1 DEF RemoveExported, AgentInv, AgentTypeOK
        <3>3. x \notin ListClosed'
            BY <3>1, <3>2, RemovedUnlisted, SpoolInv
        <3>4. bundles' = bundles
            BY <2>1 DEF RemoveExported
        <3> QED
            BY <3>1, <3>3, <3>4
    <2> QED
        BY <1>3, <2>1 DEF ExportStep, SkipExport, FirstRun, RotateForExport,
                          RotateForExportFails, NothingToExport, WriteBundleFails,
                          ExportDone, MarkExported
<1>4. CASE StopStep
    BY <1>4 DEF StopStep, Shutdown, StopFlush, StopFlushFails, StopRotate, Exit, Gone, AgentInv
<1>5. CASE Killed \/ KilledInRetention \/ KilledInRemove
    BY <1>5 DEF Killed, KilledInRetention, KilledInRemove, Crash, CrashInFlush, CrashInRotate,
                CrashInAppend, DiesWhile, CrashInRetention, OneShipment
<1>6. CASE Start \/ (\E c \in Kinds : StartFails(c)) \/ Midnight \/ TenPast
    BY <1>6 DEF Start, StartFails, agentVars, Midnight, TenPast
<1> QED
    BY <1>1, <1>2, <1>3, <1>4, <1>5, <1>6 DEF AgentNext

LEMMA OnceStep ==
    ASSUME OneShipment, AgentInv, Vacant, OnceInv, [AgentNext]_allVars
    PROVE  OnceInv'
<1>1. IInv /\ BundlesOK
    BY SpoolInv DEF AgentInv, AgentTypeOK, BundlesOK
<1>2. CASE WriteBundle
    <2>1. todo = {}
        BY <1>2 DEF WriteBundle, AgentInv
    <2> QED
        BY <1>1, <1>2, <2>1, WriteBundleOnce DEF OneShipment
<1>3. CASE ~WriteBundle
    <2>1. PICK new : FlowsAll(new)
        BY <1>1, SpoolStep, SpoolFlows DEF OneShipment
    <2>2. offered \in Nat /\ offered' \in Nat
        BY <1>1, AgentInvStep, SpoolInv DEF AgentInv, AgentTypeOK, TypeOK
    <2>3. offered <= offered'
        <3>1. offered' = offered \/ offered' = offered + 1
            <4>1. CASE Leaves
                BY <4>1 DEF Leaves
            <4>2. CASE [Next]_vars
                BY <4>2 DEF Next, Operation, Failure, AppendRecord, Flush, Rotate, ForEachKind,
                            EnforceRetention, Remove, Open, OpenFails, CrashInAppend, CrashInFlush,
                            CrashInRotate, DiesWhile, CrashInRetention, CrashInRemove, Crash,
                            NewDay, vars
            <4> QED
                BY <4>1, <4>2, SpoolStep
        <3> QED
            BY <2>2, <3>1
    <2>4. bundles' = bundles /\ \A x \in ListClosed' : x \in todo => x \in todo'
        BY <1>3, TodoStep
    <2> QED
        BY <1>1, <2>1, <2>2, <2>3, <2>4, FlowsOnce
<1> QED
    BY <1>2, <1>3

\* No record is shipped in two bundles while the process does not die
\* (bundle.go:170-174, dataset.go:167-196): neither a failed write or sync that
\* leaves a batch both in the file and in the buffer, nor a failed rotation, a
\* batch that is dropped, a restart after a stop or a removal that fails on the
\* data file or on the sidecar brings it back into a listed segment.
THEOREM ShippedAtMostOnce ==
    ASSUME OneShipment
    PROVE  AgentSpec => []ShippedOnce
<1>1. AgentInit => AgentInv /\ Vacant /\ OnceInv
    <2>1. ASSUME AgentInit PROVE Vacant /\ OnceInv
        <3>1. \A k \in Kinds : active[k].buf = <<>> /\ disk[k].file.members = <<>>
                               /\ disk[k].closed = {}
            BY <2>1 DEF AgentInit, Init, NoSegment, NoFile
        <3>2. ListClosed = {} /\ \A k \in Kinds : Held(active[k], disk[k]) = {}
            BY <3>1, EmptyFile DEF ListClosed, Held
        <3>3. DOMAIN bundles = {}
            BY <2>1 DEF AgentInit
        <3>4. Bundled = {} /\ ShippedOnce
            BY <3>3 DEF Bundled, ShippedOnce
        <3> QED
            BY <3>1, <3>2, <3>4 DEF Vacant, OnceInv, Apart
    <2> QED
        BY <2>1, AgentInvInit
<1>2. AgentInv /\ Vacant /\ OnceInv /\ [AgentNext]_allVars => AgentInv' /\ Vacant' /\ OnceInv'
    BY AgentInvStep, VacantStep, OnceStep
<1>3. OnceInv => ShippedOnce
    BY DEF OnceInv
<1> QED
    BY <1>1, <1>2, <1>3, PTL DEF AgentSpec
=============================================================================
