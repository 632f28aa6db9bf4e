------------------------------- MODULE Identity -------------------------------
(***************************************************************************)
(* Who a bundle says it is from, and since when: host.id (Load of          *)
(* internal/hostid/hostid.go) and the first start in state.json            *)
(* (loadState, saveState and the head of Run in internal/agent/agent.go),  *)
(* as agent.New of "ura-agent run" and of "ura-agent export" use them.     *)
(* Neither file is synced before it is renamed: a power loss may leave the *)
(* old file, the new one, or the new name with nothing in it.              *)
(* The spool that New opens in between is in SharedSpool.                  *)
(***************************************************************************)
EXTENDS Common, Naturals, FiniteSets

CONSTANTS
    Faults,   \* subset of {"read", "save", "power", "together"}: host.id cannot be
              \* read, state.json cannot be written, the power fails, and both
              \* processes may be in their first Load at once
    MaxIds,   \* bound: identities generated
    MaxDay,   \* bound: the last day
    Torn      \* the content of a file that was renamed and not synced

ASSUME IdentityAssumption ==
    /\ Faults \subseteq {"read", "save", "power", "together"}
    /\ MaxIds \in Nat /\ MaxDay \in Nat \ {0} /\ None \notin Nat /\ Torn \notin Nat

Command == {"run", "export"}
File == {"host", "state"}

VARIABLES
    disk,     \* host.id and state.json: what a reader sees now, what a power loss spares
    hostTmp,      \* host.id.tmp, or None
    stage, id,   \* where a process is, and the identity it holds
    first,    \* a.state.FirstStart of a process, 0 when it is zero
    day,      \* the clock
    made,     \* identities generated so far
    shipped,  \* history: the identities in finished bundles
    began,    \* history: the day of the first Run, 0 before it
    met       \* history: the faults so far that left something behind

identityVars == <<disk, hostTmp, stage, id, first, day, made, shipped, began, met>>
memory == <<id, first>>
identityHistory == <<shipped, began, met>>

Reach(p, where) == stage' = [stage EXCEPT ![p] = where]
Meet(fault, now) == met' = IF now THEN met \cup {fault} ELSE met

-----------------------------------------------------------------------------
(* hostid.Load.                                                            *)

Launch(p) ==
    /\ stage[p] = "off"
    /\ LET both == disk["host"].now = None /\ \E q \in Command : stage[q] # "off"
       IN  (both => "together" \in Faults) /\ Meet("together", both)
    /\ Reach(p, "load")
    /\ UNCHANGED <<disk, hostTmp, memory, day, made, shipped, began>>

Accepted(content) == content \notin {None, Torn}

\* The file is read; only a file that cannot be read is made anew.
UseHostID(p) ==
    /\ stage[p] = "load" /\ Accepted(disk["host"].now)
    /\ id' = [id EXCEPT ![p] = disk["host"].now] /\ Reach(p, "state")
    /\ UNCHANGED <<disk, hostTmp, first, day, made, identityHistory>>

RefuseHostID(p) ==
    /\ stage[p] = "load" /\ disk["host"].now # None /\ ~Accepted(disk["host"].now)
    /\ Reach(p, "off")
    /\ UNCHANGED <<disk, hostTmp, memory, day, made, identityHistory>>

NewHostID(p) ==
    /\ stage[p] = "load" /\ made < MaxIds
    /\ disk["host"].now = None \/ "read" \in Faults
    /\ Meet("read", disk["host"].now # None)
    /\ made' = made + 1
    /\ id' = [id EXCEPT ![p] = made + 1] /\ Reach(p, "write")
    /\ UNCHANGED <<disk, hostTmp, first, day, shipped, began>>

WriteTmp(p) ==
    /\ stage[p] = "write"
    /\ hostTmp' = id[p] /\ Reach(p, "rename")
    /\ UNCHANGED <<disk, memory, day, made, identityHistory>>

\* Mutant: the identity stays in the temporary file.
MutantNotRenamed(p) ==
    /\ stage[p] = "rename" /\ hostTmp # None /\ Reach(p, "state")
    /\ UNCHANGED <<disk, hostTmp, memory, day, made, identityHistory>>

\* What is renamed is what the name stands for by now; when the other process
\* has moved it, Load fails.
RenameTmp(p) ==
    /\ stage[p] = "rename"
    /\ IF hostTmp = None THEN Reach(p, "off") /\ UNCHANGED <<disk, hostTmp>>
       ELSE disk' = [disk EXCEPT !["host"].now = hostTmp] /\ hostTmp' = None /\ Reach(p, "state")
    /\ UNCHANGED <<memory, day, made, identityHistory>>

-----------------------------------------------------------------------------
(* state.json.                                                             *)

LoadState(p) ==
    /\ stage[p] = "state"
    /\ first' = [first EXCEPT ![p] = IF Accepted(disk["state"].now) THEN disk["state"].now ELSE 0]
    /\ Reach(p, "ready")
    /\ UNCHANGED <<disk, hostTmp, id, day, made, identityHistory>>

SaveState(value) ==
    \/ disk' = [disk EXCEPT !["state"].now = value] /\ UNCHANGED met
    \/ "save" \in Faults /\ Meet("save", TRUE) /\ UNCHANGED disk

\* The head of Run.
BeginRun ==
    /\ stage["run"] = "ready" /\ Reach("run", "up")
    /\ IF first["run"] = 0 THEN first' = [first EXCEPT !["run"] = day] /\ SaveState(day)
                           ELSE UNCHANGED <<first, disk, met>>
    /\ began' = IF began = 0 THEN day ELSE began
    /\ UNCHANGED <<hostTmp, id, day, made, shipped>>

\* maybeAutoExport saves the state when it has exported, a manual export does not.
DailyBundle ==
    /\ stage["run"] = "up"
    /\ shipped' = shipped \cup {id["run"]} /\ SaveState(first["run"])
    /\ UNCHANGED <<hostTmp, stage, memory, day, made, began>>

ManualBundle ==
    /\ stage["export"] = "ready"
    /\ shipped' = shipped \cup {id["export"]} /\ Reach("export", "off")
    /\ UNCHANGED <<disk, hostTmp, memory, day, made, began, met>>

-----------------------------------------------------------------------------
(* The host.                                                               *)

\* A process is stopped or killed.
End(p) ==
    /\ stage[p] # "off" /\ Reach(p, "off")
    /\ UNCHANGED <<disk, hostTmp, memory, day, made, identityHistory>>

\* The kernel writes a file back in its own time.
Writeback(f) ==
    /\ disk[f].safe # disk[f].now
    /\ disk' = [disk EXCEPT ![f].safe = disk[f].now]
    /\ UNCHANGED <<hostTmp, stage, memory, day, made, identityHistory>>

Left(f) == {disk[f].now, disk[f].safe} \cup (IF disk[f].now # disk[f].safe THEN {Torn} ELSE {})

\* What a file held is gone when the power fails before it is written back.
PowerLoss ==
    /\ "power" \in Faults
    /\ stage' = [p \in Command |-> "off"] /\ hostTmp' = None
    /\ \E h \in Left("host"), s \in Left("state") :
          /\ disk' = [host |-> [now |-> h, safe |-> h], state |-> [now |-> s, safe |-> s]]
          /\ Meet("power", <<h, s>> # <<disk["host"].now, disk["state"].now>>)
    /\ UNCHANGED <<memory, day, made, shipped, began>>

NextDay ==
    /\ day < MaxDay /\ day' = day + 1
    /\ UNCHANGED <<disk, hostTmp, stage, memory, made, identityHistory>>

IdentityInit ==
    /\ disk = [f \in File |-> [now |-> None, safe |-> None]] /\ hostTmp = None
    /\ stage = [p \in Command |-> "off"] /\ id = [p \in Command |-> None] /\ first = [p \in Command |-> 0]
    /\ day = 1 /\ made = 0 /\ shipped = {} /\ began = 0 /\ met = {}

IdentityNext ==
    \/ \E p \in Command : \/ Launch(p) \/ UseHostID(p) \/ RefuseHostID(p) \/ NewHostID(p)
                          \/ WriteTmp(p) \/ RenameTmp(p) \/ LoadState(p) \/ End(p)
    \/ BeginRun \/ DailyBundle \/ ManualBundle
    \/ \E f \in File : Writeback(f)
    \/ PowerLoss \/ NextDay

IdentitySpec == IdentityInit /\ [][IdentityNext]_identityVars

-----------------------------------------------------------------------------
(* Properties.                                                             *)

\* A process past Load has a whole identity, whatever a power loss left in the
\* file, so that no bundle is from nobody (hostid.go:24-30).
IdentityTypeOK ==
    /\ \A p \in Command : stage[p] \in {"state", "ready", "up"} => id[p] \in 1..made
    /\ shipped \subseteq 1..made
    /\ first \in [Command -> 0..MaxDay] /\ disk["state"].now \in 1..MaxDay \cup {None, Torn}

\* hostid.go:3-5 "generated once and persisted in the agent data directory so it
\* survives restarts and re-exports": all bundles of one directory are from one
\* host, wherever a process is killed, whatever cannot be saved, and after a power
\* loss that finds the file written back.  What breaks it: host.id cannot be read
\* once, two first starts at a time, a power loss soon after the first start.
OneIdentity == met \cap {"read", "together", "power"} = {} => Cardinality(shipped) <= 1

\* DEPLOY_LINUX.md:55-56 "monitoring start date persist": the minutes an export
\* expects count from the first start ever, also after kills and under another
\* identity.  A state.json that was not saved, or left empty, is a first start.
StartKept == met \cap {"save", "power"} = {} => (stage["run"] = "up" => first["run"] = began)

\* What identifies the deployment stays: a whole identity, the same one in every
\* bundle, and the start of the monitoring.
DeploymentKept == IdentityTypeOK /\ OneIdentity /\ StartKept

-----------------------------------------------------------------------------
(* A claim of the documentation that the code does not keep.               *)

\* DEPLOY_LINUX.md:56-57 "handles reboots; no operator action needed": no start
\* is refused because of what a power loss left.
NoOperatorNeeded == disk["host"].now # Torn
=============================================================================
