------------------------------- MODULE Settings -------------------------------
(***************************************************************************)
(* Which settings produced the data: Load, Validate and Hash of            *)
(* internal/config/config.go, and the inventory records and manifests that *)
(* carry the hash (internal/agent/agent.go).  The file may be edited at    *)
(* any time; a process reads it when it starts.                            *)
(* A configuration is the recipient, whether the fields Validate looks at  *)
(* are in range, whether the intervals it does not look at are positive,   *)
(* and one setting more that stands for the rest.  Records are written to  *)
(* the spool in order; the flush that a new day forces on one kind alone   *)
(* is left out.                                                            *)
(***************************************************************************)
EXTENDS Common, Naturals, Sequences, SequencesExt

CONSTANTS
    Files,    \* what agent.yaml may say: functions from some of Field to values
    MaxLog    \* bound: records written

Field == {"recipient", "ranged", "ticks", "rest"}
Config == [recipient : {"", "malformed", "age1"}, ranged : BOOLEAN, ticks : BOOLEAN, rest : {1, 2}]

ASSUME SettingsAssumption == MaxLog \in Nat /\ None \notin Config

VARIABLES
    file,     \* agent.yaml
    cfg,      \* Agent.cfg of the running agent, None when it does not run
    log,      \* the records handed to Append that no crash took, in order
    flushed,  \* how many of them are on disk
    sent,     \* how many are in a bundle
    bundles,  \* history: the finished bundles
    panicked  \* history: Run has panicked

settingsVars == <<file, cfg, log, flushed, sent, bundles, panicked>>

SettingsTypeOK ==
    /\ cfg \in Config \cup {None}
    /\ log \in Seq([kind : {"inventory", "data"}, cfg : Config]) /\ Len(log) <= MaxLog
    /\ sent <= flushed /\ flushed <= Len(log)

-----------------------------------------------------------------------------
Default == [recipient |-> "", ranged |-> TRUE, ticks |-> TRUE, rest |-> 1]

Over(defaults, f) == [k \in Field |-> IF k \in DOMAIN f THEN f[k] ELSE defaults[k]]

ASSUME FilesAssumption == \A f \in Files : Over(Default, f) \in Config

Validate(c) == c.recipient # "" /\ c.ranged

\* A SHA-256 of all of it: two configurations have the same hash when they are
\* the same.
Hash(c) == c

Inventory(c) == [kind |-> "inventory", cfg |-> Hash(c)]
Data(c) == [kind |-> "data", cfg |-> c]

-----------------------------------------------------------------------------
SettingsInit ==
    /\ file \in Files /\ cfg = None /\ log = <<>> /\ flushed = 0 /\ sent = 0
    /\ bundles = <<>> /\ panicked = FALSE

Edit(f) ==
    /\ f # file /\ file' = f
    /\ UNCHANGED <<cfg, log, flushed, sent, bundles, panicked>>

\* Mutant: the inventory is written by its daily tick only.
MutantNoInventory ==
    /\ cfg = None /\ Validate(Over(Default, file)) /\ Len(log) < MaxLog
    /\ LET c == Over(Default, file) IN
         IF c.ticks THEN cfg' = c /\ log' = Append(log, Data(c)) /\ UNCHANGED panicked
                    ELSE panicked' = TRUE /\ UNCHANGED <<cfg, log>>
    /\ UNCHANGED <<file, flushed, sent, bundles>>

\* Load, New and Run up to the tickers.  NewTicker panics when an interval is
\* not positive, and the inventory in the buffer is gone.
StartAgent ==
    /\ cfg = None /\ Validate(Over(Default, file)) /\ Len(log) < MaxLog
    /\ LET c == Over(Default, file) IN
         IF c.ticks THEN cfg' = c /\ log' = Append(log, Inventory(c)) /\ UNCHANGED panicked
                    ELSE panicked' = TRUE /\ UNCHANGED <<cfg, log>>
    /\ UNCHANGED <<file, flushed, sent, bundles>>

InventoryTick ==
    /\ cfg # None /\ Len(log) < MaxLog
    /\ log' = Append(log, Inventory(cfg))
    /\ UNCHANGED <<file, cfg, flushed, sent, bundles, panicked>>

\* Any other handler that appends.
Collect ==
    /\ cfg # None /\ Len(log) < MaxLog
    /\ log' = Append(log, Data(cfg))
    /\ UNCHANGED <<file, cfg, flushed, sent, bundles, panicked>>

FlushTick ==
    /\ cfg # None /\ flushed' = Len(log)
    /\ UNCHANGED <<file, cfg, log, sent, bundles, panicked>>

\* A bundle of what is on disk, when the recipient parses.
Bundle(c, upTo) ==
    /\ c.recipient = "age1" /\ upTo > sent
    /\ bundles' = Append(bundles, [hash |-> Hash(c), recs |-> SubSeq(log, sent + 1, upTo)])
    /\ sent' = upTo

DailyExport ==
    /\ cfg # None /\ Bundle(cfg, Len(log)) /\ flushed' = Len(log)
    /\ UNCHANGED <<file, cfg, log, panicked>>

\* "ura-agent export" reads the file as it is now.
ManualExport ==
    /\ Validate(Over(Default, file)) /\ Bundle(Over(Default, file), flushed)
    /\ UNCHANGED <<file, cfg, log, flushed, panicked>>

Shutdown ==
    /\ cfg # None /\ cfg' = None /\ flushed' = Len(log)
    /\ UNCHANGED <<file, log, sent, bundles, panicked>>

Crash ==
    /\ cfg # None /\ cfg' = None /\ log' = SubSeq(log, 1, flushed)
    /\ UNCHANGED <<file, flushed, sent, bundles, panicked>>

SettingsNext ==
    \/ \E f \in Files : Edit(f)
    \/ StartAgent \/ InventoryTick \/ Collect \/ FlushTick \/ DailyExport \/ ManualExport
    \/ Shutdown \/ Crash

SettingsSpec == SettingsInit /\ [][SettingsNext]_settingsVars

-----------------------------------------------------------------------------
(* Properties.                                                             *)

\* config.go:178-180: the inventory records prove which settings produced the
\* data: the last one before a record has the configuration that was at work,
\* whenever the file is edited and wherever the agent stops or dies.
InventoryProves ==
    \A i \in DOMAIN log : log[i].kind = "data" =>
        \E j \in 1..(i - 1) :
            /\ log[j] = Inventory(log[i].cfg)
            /\ \A k \in j..i : log[k].cfg = log[i].cfg

\* The log is well formed and its inventories are proof (config.go:178-180).
InventoryIsProof == SettingsTypeOK /\ InventoryProves

-----------------------------------------------------------------------------
(* Claims of the documentation that the code does not keep.                *)

\* config.go:179-180, CONFIGURATION.md:4-6: stamped into "bundle manifest, so
\* reports can prove which settings produced the data".
ManifestProves == \A b \in Range(bundles) : \A r \in Range(b.recs) : r.cfg = b.hash

\* main.go:71 "validate the configuration file": what Validate accepts runs.
AcceptedRuns == ~panicked

\* agent.go:74 "The recipient must parse before we collect anything."
RecipientParses == cfg # None => cfg.recipient = "age1"
=============================================================================
