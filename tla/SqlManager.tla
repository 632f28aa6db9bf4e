------------------------------ MODULE SqlManager ------------------------------
(***************************************************************************)
(* The SQL Server manager of the agent: internal/agent/sqlmanager.go, with *)
(* DetectInstances of internal/sqlserver/detect.go, Connect of querier.go  *)
(* and what CollectInventory decides about the record as a whole           *)
(* (SqlCollect has its contents).  Instances start, stop and come back     *)
(* under another process number; their logins are granted and revoked.     *)
(* The handlers of Agent.Run that reach the manager are one action each:   *)
(* they run on one goroutine, so the mutex never waits.                    *)
(***************************************************************************)
EXTENDS Common, Naturals, Sequences, FiniteSets, SequencesExt

CONSTANTS
    Names,   \* instance names
    Pids     \* process numbers of the host

ASSUME SqlManagerAssumption == IsFiniteSet(Names) /\ None \notin Names \cup Pids

VARIABLES
    running,    \* the host: the sqlservr processes, [name, pid]
    access,     \* what the agent's login may do: see Access
    instances,  \* m.instances: what the last scan found, in its order
    queriers,   \* m.queriers: the names with a connection
    invCache,   \* m.invCache: the inventory of each name, or None
    invDirty,   \* m.invDirty
    spool       \* the last inventory record appended for each name

vars == <<running, access, instances, queriers, invCache, invDirty, spool>>
manager == <<instances, queriers, invCache, invDirty>>

(* "refused": the ping fails.  "drops": the ping succeeds and every query  *)
(* fails.  "login": connected without VIEW SERVER STATE, so that only      *)
(* SERVERPROPERTY answers.  "full": the grants of SQL_PERMISSIONS.md.      *)
Access == {"refused", "drops", "login", "full"}
Process == [name : Names, pid : Pids]

\* fresh: read in the handler that appends the record, not before.
Inventory == [name : Names, pid : Pids \cup {0}, level : {"deep", "process_only"},
              views : BOOLEAN, fresh : BOOLEAN]
ASSUME NoneAssumption == None \notin Inventory

TypeOK ==
    /\ running \subseteq Process
    /\ access \in [Names -> Access]
    /\ instances \in Seq(Process)
    /\ queriers \subseteq Names
    /\ invCache \in [Names -> Inventory \cup {None}]
    /\ invDirty \in BOOLEAN
    /\ spool \in [Names -> Inventory \cup {None}]
    /\ \A n \in Names : /\ invCache[n] # None => invCache[n].name = n
                        /\ spool[n] # None => spool[n].name = n

-----------------------------------------------------------------------------
(* The operations.                                                         *)

\* A process scan reports the instances in no particular order.
DetectInstances == SetToSeqs(running)

\* Does a query on the connection of n return rows?
Answers(n) == access[n] \in {"login", "full"} /\ \E p \in running : p.name = n

Connects(n) == access[n] # "refused" /\ \E p \in running : p.name = n

\* Mutant: the first entry of the list, whatever its name.
MutantFirst(n, insts) == IF insts = <<>> THEN [name |-> n, pid |-> 0] ELSE Head(insts)

\* The PID is 0 when the last scan did not see n.
FindInstance(n, insts) ==
    IF \E i \in DOMAIN insts : insts[i].name = n
    THEN insts[CHOOSE i \in DOMAIN insts : /\ insts[i].name = n
                                           /\ \A j \in 1..(i - 1) : insts[j].name # n]
    ELSE [name |-> n, pid |-> 0]

ProcessOnlyInventory(inst) ==
    [name |-> inst.name, pid |-> inst.pid, level |-> "process_only", views |-> FALSE, fresh |-> TRUE]

\* CollectInventory of an instance that answers.  The level is "deep" as soon
\* as SERVERPROPERTY is read; server_services supplies a PID that is missing.
DeepInventory(inst) ==
    [name |-> inst.name, level |-> "deep", views |-> access[inst.name] = "full", fresh |-> TRUE,
     pid |-> IF inst.pid = 0 /\ access[inst.name] = "full"
             THEN (CHOOSE p \in running : p.name = inst.name).pid ELSE inst.pid]

\* Mutant: a failed connection caches its note and forgets to mark it.
MutantNotDirty(m, inst) ==
    IF inst.name \in m.queriers THEN m
    ELSE IF ~Connects(inst.name)
    THEN [m EXCEPT !.cache[inst.name] = ProcessOnlyInventory(inst)]
    ELSE [queriers |-> m.queriers \cup {inst.name}, dirty |-> m.dirty \/ Answers(inst.name),
          cache |-> [m.cache EXCEPT ![inst.name] = IF Answers(inst.name) THEN DeepInventory(inst) ELSE @]]

\* One instance of the scan: m is the manager's [queriers, cache, dirty].
ScanOne(m, inst) ==
    IF inst.name \in m.queriers THEN m
    ELSE IF ~Connects(inst.name)
    THEN [m EXCEPT !.cache[inst.name] = ProcessOnlyInventory(inst), !.dirty = TRUE]
    ELSE [queriers |-> m.queriers \cup {inst.name}, dirty |-> m.dirty \/ Answers(inst.name),
          cache |-> [m.cache EXCEPT ![inst.name] = IF Answers(inst.name) THEN DeepInventory(inst) ELSE @]]

Aged(cache) == [n \in Names |-> IF cache[n] = None THEN None ELSE [cache[n] EXCEPT !.fresh = FALSE]]

Rescan(m, insts) == FoldLeft(ScanOne, [m EXCEPT !.cache = Aged(@)], insts)

\* The spool after every record of cache is appended.
Written(cache) == [n \in Names |-> IF cache[n] = None THEN spool[n] ELSE cache[n]]

\* Collect again on every connection, then append everything cached.
WriteInventories(m, insts) ==
    LET cache == [n \in Names |-> IF n \in m.queriers /\ Answers(n)
                                  THEN DeepInventory(FindInstance(n, insts)) ELSE m.cache[n]]
    IN  [cache |-> cache, written |-> Written(cache)]

PidToInstance(insts) == [p \in {insts[i].pid : i \in DOMAIN insts} |->
                            (CHOOSE r \in Range(insts) : r.pid = p).name]

-----------------------------------------------------------------------------
(* The handlers.                                                           *)

\* newSQLManager, and the rescan with which Agent.Run starts.
Init ==
    /\ running \in {R \in SUBSET Process : \A p, q \in R : p.pid = q.pid \/ p.name = q.name => p = q}
    /\ access \in [Names -> Access]
    /\ \E insts \in DetectInstances :
        LET none == [n \in Names |-> None]
            m == Rescan([queriers |-> {}, cache |-> none, dirty |-> FALSE], insts)
        IN  /\ instances = insts
            /\ queriers = m.queriers /\ invCache = m.cache /\ invDirty = m.dirty
            /\ spool = none

\* Mutant: the tick does nothing unless a record is marked.
MutantOnlyMarked ==
    /\ invDirty
    /\ \E insts \in DetectInstances :
        LET m == Rescan([queriers |-> queriers, cache |-> invCache, dirty |-> invDirty], insts)
            w == WriteInventories(m, insts)
        IN  /\ instances' = insts
            /\ queriers' = m.queriers
            /\ invCache' = w.cache
            /\ spool' = w.written
    /\ invDirty' = FALSE
    /\ UNCHANGED <<running, access>>

\* sqlInvTick: rescan, then writeInventories.
InventoryTick ==
    /\ \E insts \in DetectInstances :
        LET m == Rescan([queriers |-> queriers, cache |-> invCache, dirty |-> invDirty], insts)
            w == WriteInventories(m, insts)
        IN  /\ instances' = insts
            /\ queriers' = m.queriers
            /\ invCache' = w.cache
            /\ spool' = w.written
    /\ invDirty' = FALSE
    /\ UNCHANGED <<running, access>>

\* sqlTick: sample.  CollectSample returns a sample even when every query fails,
\* so that one is appended for every connection.
Samples == [n \in queriers |-> [rows |-> Answers(n)]]

SampleTick ==
    /\ spool' = IF invDirty THEN Written(invCache) ELSE spool
    /\ invDirty' = FALSE
    /\ UNCHANGED <<running, access, instances, queriers, invCache>>

\* finishSpike for an event whose top process is pid changes no state: attribute
\* names the instance by PID, and spikeContext picks the connection to ask.
Said(pid, insts) ==
    LET map == PidToInstance(insts) IN IF pid \in DOMAIN map THEN map[pid] ELSE None

SpikeContext(said) ==
    IF said # None THEN (IF said \in queriers THEN said ELSE None)
    ELSE IF Cardinality(queriers) = 1 THEN CHOOSE n \in queriers : TRUE ELSE None

(* The host. *)
Start(n, pid) ==
    /\ \A p \in running : p.name # n /\ p.pid # pid
    /\ running' = running \cup {[name |-> n, pid |-> pid]}
    /\ UNCHANGED <<access, manager, spool>>

Stop(p) ==
    /\ running' = running \ {p}
    /\ UNCHANGED <<access, manager, spool>>

Grant(n, a) ==
    /\ a # access[n]
    /\ access' = [access EXCEPT ![n] = a]
    /\ UNCHANGED <<running, manager, spool>>

Next ==
    \/ InventoryTick \/ SampleTick
    \/ \E n \in Names, pid \in Pids : Start(n, pid)
    \/ \E p \in running : Stop(p)
    \/ \E n \in Names, a \in Access : Grant(n, a)

Spec == Init /\ [][Next]_vars

\* Go's tickers fire for ever and the loop takes every channel that is ready.
FairSpec == Spec /\ WF_vars(InventoryTick) /\ WF_vars(SampleTick)

-----------------------------------------------------------------------------
(* Properties.                                                             *)

\* Whatever rescan put into the cache reaches the spool or is still marked to
\* go there: the mark set in one handler is never lost to the other's reset.
WrittenOrMarked ==
    \A n \in Names : invCache[n] # None =>
        invDirty \/ (spool[n] # None /\ Aged(spool)[n] = Aged(invCache)[n])

\* sqlmanager.go:18-21: an instance that is detected and cannot be reached has
\* its process_only record, unless there is a connection from better days.
UnreachableIsNoted ==
    \A i \in DOMAIN instances :
        instances[i].name \in queriers \/ invCache[instances[i].name] # None

\* What a scan found is on record: in the spool or marked for it, and with a
\* record for what cannot be reached.
ScanIsRecorded == TypeOK /\ WrittenOrMarked /\ UnreachableIsNoted

\* After sqlInvTick every instance that answers has a fresh deep record with
\* its own process number, also after a refusal or a restart; and a spike of
\* its process is attributed to it, and asked of it.
TickSeesInstance ==
    [][InventoryTick => \A p \in running :
            /\ Said(p.pid, instances') = p.name
            /\ Answers(p.name) =>
                  LET r == spool'[p.name]
                  IN  /\ r # None /\ r.level = "deep" /\ r.fresh /\ r.pid = p.pid
                      /\ SpikeContext(p.name)' = p.name]_vars

\* An instance that keeps running and granting access is exported at the deep
\* level in the end, and one that keeps refusing is exported as process_only
\* unless it was connected before.
InstanceIsExported ==
    \A n \in Names :
        /\ <>[]Answers(n) => <>[](spool[n] # None /\ spool[n].level = "deep")
        /\ <>[](~Connects(n) /\ \E p \in running : p.name = n) =>
                <>[](n \in queriers \/ (spool[n] # None /\ spool[n].level = "process_only"))

-----------------------------------------------------------------------------
(* Claims of the documentation that the code does not keep.                *)

\* SQL_PERMISSIONS.md:36-38: "Missing VIEW SERVER STATE entirely -> the instance
\* is exported at collection level process_only".
MissingStateIsProcessOnly == \A n \in Names : spool[n] # None /\ spool[n].level = "deep" => spool[n].views

\* sqlmanager.go:99: "cached inventories (refreshed on rescan)".
WrittenIsRefreshed == [][InventoryTick => \A n \in Names : invCache'[n] # None => invCache'[n].fresh]_vars

\* sqlmanager.go:163: "maps sqlservr PIDs to instance names for attribution":
\* the instance said to have caused a spike owns the process that did.
SaidIsOwner == \A p \in running : Said(p.pid, instances) \in {None, p.name}

\* sqlmanager.go:117: "collects the periodic light SQL sample for each
\* connected instance": a sample holds what some query returned.
SampleHasRows == \A n \in queriers : Samples[n].rows
=============================================================================
