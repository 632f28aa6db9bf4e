-------------------------------- MODULE Agent --------------------------------
(***************************************************************************)
(* The agent's main loop as far as the spool and the export directory are  *)
(* concerned: Agent.Run, maybeAutoExport, Export and shutdown of           *)
(* internal/agent/agent.go, bundle.Export of internal/bundle/bundle.go and *)
(* the persisted state.json, composed with Spool.                          *)
(*                                                                         *)
(* Run is one select loop: a handler runs to its end before the next tick  *)
(* is served, so while phase is not "idle" nothing but the handler's next  *)
(* step, the passing of time and the death of the process can happen.      *)
(***************************************************************************)
EXTENDS Spool

CONSTANTS
    AutoDaily,     \* export.auto_daily
    RemoveAfter,   \* not retention.keep_after_export
    ExportFaults,  \* subset of {"bundle", "state"}: writing the bundle fails,
                   \* saving state.json fails
    MaxBundles     \* bound: completed bundles

ASSUME ExportAssumption ==
    /\ AutoDaily \in BOOLEAN /\ RemoveAfter \in BOOLEAN
    /\ ExportFaults \subseteq {"bundle", "state"}
    /\ MaxBundles \in Nat

VARIABLES
    phase,     \* where the running handler is
    early,     \* it is before 00:10 UTC
    day,       \* the day maybeAutoExport computed when it was called
    todo,      \* ListClosed as the running export read it
    memLast,   \* a.state.LastExportDay; 0 is ""
    diskLast,  \* LastExportDay in state.json
    bundles,   \* completed .urab files, oldest first: the segments they hold
    expired    \* history: records deleted by retention

agentVars == <<phase, early, day, todo, memLast, diskLast, bundles, expired>>
allVars == <<vars, agentVars>>

Phases == {"idle", "check", "rotated", "written", "saving",
           "closing", "stopping", "stopped"}

\* The types; and the listing a running export works from stays accurate: what
\* it has still to remove is in the spool and listed.  ListClosed is read
\* outside the later calls' lock, so this rests on the loop running one handler
\* at a time (bundle.go:61, 170-174).
AgentTypeOK ==
    /\ TypeOK
    /\ phase \in Phases
    /\ early \in BOOLEAN
    /\ day \in Nat
    /\ todo \subseteq (Kinds \X ClosedSegment)
    /\ memLast \in Nat /\ diskLast \in Nat
    /\ bundles \in Seq(SUBSET (Kinds \X ClosedSegment))
    /\ expired \subseteq Record
    /\ up => todo \subseteq ListClosed

-----------------------------------------------------------------------------
(* The ticks.                                                              *)

\* a.append of any handler: an error is reported to health and forgotten.
AppendTick(k, ts) ==
    /\ phase = "idle"
    /\ AppendRecord(k, ts)
    /\ UNCHANGED agentVars

\* flushTick: Flush, then maybeAutoExport whether it failed or not.
FlushTick ==
    /\ phase = "idle"
    /\ Flush
    /\ phase' = "check"
    /\ UNCHANGED <<early, day, todo, memLast, diskLast, bundles, expired>>

\* Mutant: retention runs beside the main loop.
MutantRetentionBeside ==
    /\ EnforceRetention
    /\ expired' = expired \cup (removed' \ removed)
    /\ UNCHANGED <<phase, early, day, todo, memLast, diskLast, bundles>>

RetentionTick ==
    /\ phase = "idle"
    /\ EnforceRetention
    /\ expired' = expired \cup (removed' \ removed)
    /\ UNCHANGED <<phase, early, day, todo, memLast, diskLast, bundles>>

-----------------------------------------------------------------------------
(* maybeAutoExport.                                                        *)

NotDue == ~AutoDaily \/ memLast = today \/ early

SkipExport ==
    /\ phase = "check" /\ up
    /\ NotDue
    /\ phase' = "idle"
    /\ UNCHANGED <<vars, early, day, todo, memLast, diskLast, bundles, expired>>

\* saveState: a failure goes unnoticed and the file keeps what it had.
SaveState(last) ==
    /\ memLast' = last
    /\ \/ diskLast' = last
       \/ "state" \in ExportFaults /\ diskLast' = diskLast

\* First run: skip today, export tomorrow.
FirstRun ==
    /\ phase = "check" /\ up
    /\ ~NotDue /\ memLast = 0
    /\ SaveState(today)
    /\ phase' = "idle"
    /\ UNCHANGED <<vars, early, day, todo, bundles, expired>>

ExportDue == phase = "check" /\ ~NotDue /\ memLast # 0

\* bundle.Export begins with Rotate; an error of any kind ends the export, to
\* be tried again at the next flush tick.
RotateForExport ==
    /\ ExportDue
    /\ ForEachKind([k \in Kinds |->
                       {r \in RotateLocked(active[k], disk[k]) : r.ok}])
    /\ day' = today
    /\ phase' = "rotated"
    /\ UNCHANGED <<early, todo, memLast, diskLast, bundles, expired>>

RotateForExportFails ==
    /\ ExportDue
    /\ \E c \in Kinds :
          ForEachKind([k \in Kinds |->
                          {r \in RotateLocked(active[k], disk[k]) : k = c => ~r.ok}])
    /\ phase' = "idle"
    /\ UNCHANGED <<early, day, todo, memLast, diskLast, bundles, expired>>

\* "nothing to export" is an error: the day is not marked as exported.
NothingToExport ==
    /\ phase = "rotated" /\ up
    /\ ListClosed = {}
    /\ phase' = "idle" /\ day' = 0
    /\ UNCHANGED <<vars, early, todo, memLast, diskLast, bundles, expired>>

\* Mutant: what was exported stays in the spool.
MutantKeepsExported ==
    /\ phase = "rotated" /\ up
    /\ ListClosed # {} /\ Len(bundles) < MaxBundles
    /\ bundles' = Append(bundles, ListClosed)
    /\ todo' = {}
    /\ phase' = "written"
    /\ UNCHANGED <<vars, early, day, memLast, diskLast, expired>>

\* Every listed segment is encrypted into one tar, renamed into place when it
\* is complete and synced.
WriteBundle ==
    /\ phase = "rotated" /\ up
    /\ ListClosed # {} /\ Len(bundles) < MaxBundles
    /\ bundles' = Append(bundles, ListClosed)
    /\ todo' = IF RemoveAfter THEN ListClosed ELSE {}
    /\ phase' = "written"
    /\ UNCHANGED <<vars, early, day, memLast, diskLast, expired>>

\* Mutants: a failed export still cleans up the spool; it counts as the day's.
MutantCleansAfterFailure ==
    /\ phase = "rotated" /\ up
    /\ "bundle" \in ExportFaults
    /\ todo' = IF RemoveAfter THEN ListClosed ELSE {}
    /\ phase' = "written"
    /\ UNCHANGED <<vars, early, day, memLast, diskLast, bundles, expired>>

MutantMarksFailure ==
    /\ phase = "rotated" /\ up
    /\ "bundle" \in ExportFaults
    /\ SaveState(day)
    /\ phase' = "idle" /\ day' = 0
    /\ UNCHANGED <<vars, early, todo, bundles, expired>>

\* Any error before the rename removes the temporary file and ends the export.
WriteBundleFails ==
    /\ phase = "rotated" /\ up
    /\ "bundle" \in ExportFaults
    /\ phase' = "idle" /\ day' = 0
    /\ UNCHANGED <<vars, early, todo, memLast, diskLast, bundles, expired>>

\* The cleanup removes the exported segments one by one, ignoring errors.
RemoveExported ==
    /\ phase = "written" /\ up
    /\ \E x \in todo :
          /\ \A y \in todo : y = x \/ Before(x, y)
          /\ \E stuck \in Stuck({x}), left \in SidecarStuck({x}) :
                RemoveEach({x}, stuck, left)
          /\ todo' = todo \ {x}
    /\ UNCHANGED <<up, today, active, dropped, offered, flushed, lost>>
    /\ UNCHANGED <<phase, early, day, memLast, diskLast, bundles, expired>>

ExportDone ==
    /\ phase = "written" /\ up
    /\ todo = {}
    /\ phase' = "saving"
    /\ UNCHANGED <<vars, early, day, todo, memLast, diskLast, bundles, expired>>

MarkExported ==
    /\ phase = "saving" /\ up
    /\ SaveState(day)
    /\ phase' = "idle" /\ day' = 0
    /\ UNCHANGED <<vars, early, todo, bundles, expired>>

-----------------------------------------------------------------------------
(* Shutdown, death and start.                                              *)

\* shutdown first appends a last health record (and the partial minute: an
\* AppendTick just before stands for it), unless MaxRecs leaves none.
Shutdown ==
    /\ phase = "idle" /\ up
    /\ \/ \E k \in Kinds : AppendRecord(k, today)
       \/ offered = MaxRecs /\ UNCHANGED vars
    /\ phase' = "closing"
    /\ UNCHANGED <<early, day, todo, memLast, diskLast, bundles, expired>>

\* Then Flush; if it fails the agent exits without rotating.
StopFlush ==
    /\ phase = "closing"
    /\ ForEachKind([k \in Kinds |->
                       {r \in FlushLocked(active[k], disk[k]) : r.ok}])
    /\ phase' = "stopping"
    /\ UNCHANGED <<early, day, todo, memLast, diskLast, bundles, expired>>

StopFlushFails ==
    /\ phase = "closing"
    /\ \E c \in Kinds :
          ForEachKind([k \in Kinds |->
                          {r \in FlushLocked(active[k], disk[k]) : k = c => ~r.ok}])
    /\ phase' = "stopped"
    /\ UNCHANGED <<early, day, todo, memLast, diskLast, bundles, expired>>

\* Mutant: shutdown is content with the flush.
MutantStopWithoutRotate ==
    /\ phase = "stopping" /\ up
    /\ phase' = "stopped"
    /\ UNCHANGED <<vars, early, day, todo, memLast, diskLast, bundles, expired>>

StopRotate ==
    /\ phase = "stopping"
    /\ Rotate
    /\ phase' = "stopped"
    /\ UNCHANGED <<early, day, todo, memLast, diskLast, bundles, expired>>

Gone ==
    /\ phase' = "idle" /\ todo' = {} /\ memLast' = 0 /\ day' = 0
    /\ UNCHANGED <<early, diskLast, bundles>>

Exit ==
    /\ phase = "stopped" /\ up
    /\ UNCHANGED <<disk, offered, removed>>
    /\ Dies
    /\ Gone
    /\ UNCHANGED expired

\* The process dies: between two steps of any handler, or inside one of the
\* store's operations.
Killed ==
    /\ \/ Crash
       \/ phase \in {"idle", "closing"} /\ CrashInFlush
       \/ phase = "idle" /\ \E k \in Kinds, ts \in Timestamps : CrashInAppend(k, ts)
       \/ ExportDue /\ CrashInRotate
       \/ phase = "stopping" /\ CrashInRotate
    /\ Gone
    /\ UNCHANGED expired

KilledInRetention ==
    /\ phase = "idle"
    /\ CrashInRetention
    /\ expired' = expired \cup (removed' \ removed)
    /\ Gone

KilledInRemove ==
    /\ phase = "written" /\ up /\ "crashRemove" \in Faults
    /\ \E x \in todo :
          /\ \A y \in todo : y = x \/ Before(x, y)
          /\ RemoveSegments({}, {}, {x})
    /\ UNCHANGED offered
    /\ Dies
    /\ Gone
    /\ UNCHANGED expired

\* New: open the store, load state.json.
Start ==
    /\ Open
    /\ memLast' = diskLast
    /\ UNCHANGED <<phase, early, day, todo, diskLast, bundles, expired>>

StartFails(c) ==
    /\ OpenFails(c)
    /\ UNCHANGED agentVars

-----------------------------------------------------------------------------
(* Time.                                                                   *)

Midnight ==
    /\ NewDay
    /\ early' = TRUE
    /\ UNCHANGED <<phase, day, todo, memLast, diskLast, bundles, expired>>

TenPast ==
    /\ early
    /\ early' = FALSE
    /\ UNCHANGED <<vars, phase, day, todo, memLast, diskLast, bundles, expired>>

-----------------------------------------------------------------------------
AgentInit ==
    /\ Init
    /\ phase = "idle"
    /\ early = FALSE
    /\ day = 0
    /\ todo = {}
    /\ memLast = 0 /\ diskLast = 0
    /\ bundles = <<>>
    /\ expired = {}

ExportStep ==
    \/ SkipExport \/ FirstRun
    \/ RotateForExport \/ RotateForExportFails
    \/ NothingToExport \/ WriteBundle \/ WriteBundleFails
    \/ RemoveExported \/ ExportDone \/ MarkExported

StopStep == Shutdown \/ StopFlush \/ StopFlushFails \/ StopRotate \/ Exit

AgentNext ==
    \/ \E k \in Kinds, ts \in Timestamps : AppendTick(k, ts)
    \/ FlushTick
    \/ RetentionTick
    \/ ExportStep
    \/ StopStep
    \/ Killed \/ KilledInRetention \/ KilledInRemove
    \/ Start
    \/ \E c \in Kinds : StartFails(c)
    \/ Midnight
    \/ TenPast

AgentSpec == AgentInit /\ [][AgentNext]_allVars

\* The loop serves its ticks and finishes its handlers, the service manager
\* restarts the process, time passes; and a failing disk does not fail every
\* attempt for ever.
Fairness ==
    /\ SF_allVars(FlushTick)
    /\ WF_allVars(SkipExport \/ FirstRun \/ NothingToExport
                     \/ RemoveExported \/ ExportDone \/ MarkExported)
    /\ SF_allVars(RotateForExport)
    /\ SF_allVars(WriteBundle)
    /\ WF_allVars(StopFlush \/ StopFlushFails \/ StopRotate \/ Exit)
    /\ WF_allVars(Start)
    /\ WF_allVars(Midnight)
    /\ WF_allVars(TenPast)

FairAgentSpec == AgentSpec /\ Fairness

-----------------------------------------------------------------------------
(* Properties.                                                             *)

RecordsOf(segments) == UNION {ReadSegment(x[2].members) : x \in segments}

Bundled == UNION {RecordsOf(bundles[i]) : i \in DOMAIN bundles}

\* A record leaves the spool only by expiring or after a completed bundle holds
\* it, wherever the export is interrupted (bundle.go:55-56, 165-174).
ExportedBeforeRemoved == removed \subseteq Bundled \cup expired

\* As long as the process does not die, no record is shipped in two bundles:
\* the analyzer would count a SQL sample or a health record twice
\* (bundle.go:170-174, dataset.go:167-196).
ShippedOnce ==
    \A i, j \in DOMAIN bundles :
        i # j => RecordsOf(bundles[i]) \cap RecordsOf(bundles[j]) = {}

\* A clean stop without a disk error leaves nothing behind: every record is in
\* a closed segment that the next export lists (agent.go:287-298).
CleanStop ==
    phase = "stopped" /\ Faults \subseteq {"crash", "crashRemove"} =>
        /\ InMemory = {}
        /\ \A k \in Kinds : ~disk[k].file.present

\* Once the first day is behind it, the agent exports what it has: a record in
\* its hands before the last midnight is eventually in a bundle, unless it
\* expires or is lost, however often exports fail or the agent is stopped
\* (agent.go:239-262).
EventuallyShipped ==
    \A i \in 1 .. MaxRecs :
        (diskLast # 0 /\ today < MaxDay /\ i <= offered)
           ~> \/ i \in Missing
              \/ \E r \in Bundled \cup expired : r.id = i
=============================================================================
