------------------------------ MODULE SharedSpool ------------------------------
(***************************************************************************)
(* Two processes, one spool: "ura-agent export" (cmd/ura-agent/main.go)    *)
(* beside the running agent.  Its agent.New opens the spool, and Open      *)
(* recovers the active files as if their process were gone; its Export     *)
(* then ships and removes what is closed.  No lock is shared, so the two   *)
(* interleave between any two file operations.  One record kind, records   *)
(* are numbers, all of the same date.  Disk errors and crashes of the      *)
(* agent are Spool's subject and left out.                                 *)
(***************************************************************************)
EXTENDS Naturals, Sequences, FiniteSets

CONSTANTS
    AutoDaily,    \* the agent exports on its own as well
    RemoveAfter,  \* not retention.keep_after_export
    Windows,      \* subset of {"flush", "close", "second"}: the other process
                  \* may run between the open and the write of a flush, between
                  \* the name and the rename of a close, and export in the same
                  \* second
    MaxRecs, MaxSec, MaxFiles  \* bounds: records, seconds, files created

ASSUME SharedAssumption ==
    /\ AutoDaily \in BOOLEAN /\ RemoveAfter \in BOOLEAN
    /\ Windows \subseteq {"flush", "close", "second"}
    /\ MaxRecs \in Nat /\ MaxSec \in Nat /\ MaxFiles \in Nat

Proc == {"agent", "cli"}

VARIABLES
    files,    \* the inodes of the spool: the records in each
    actv,     \* the inode at activePath, 0 when there is none
    closed,   \* the data files of closed/: [name, ino]
    meta,     \* the sidecars: [name, count]
    seg,      \* the agent's activeSeg
    offered,  \* records handed to Append
    refused,  \* those it returned an error for
    pc, op,   \* where a process is, and in which operation
    at,       \* what it holds: the open file, or the name it will give
    count,    \* the record count of the segment it is closing
    list, todo, got, \* ListClosed as read, what is still to do, the ciphertexts
    sec, now, \* the second in a process's file name, and the clock
    tmp, urab,\* second -> the inode with that name, 0 when there is none
    outs,     \* the inodes of the export directory: what was written to each
    taken,    \* history: active files that the manual export took
    failures  \* history: rotations of the agent that failed

spool == <<files, actv, closed, meta>>
export == <<tmp, urab, outs>>
local == <<at, count, list, todo, got, sec>>
history == <<offered, refused, taken, failures>>
sharedVars == <<spool, seg, pc, op, local, now, export, history>>

Other(p) == IF p = "agent" THEN "cli" ELSE "agent"
Window(q) == CASE pc[q] = "write" -> "flush" [] pc[q] = "move" -> "close" [] OTHER -> "none"
At(p, where) == pc[p] = where /\ Window(Other(p)) \in Windows \cup {"none"}
Go(p, where) == pc' = [pc EXCEPT ![p] = where]

-----------------------------------------------------------------------------
(* The store.                                                              *)

NoSeg == [open |-> FALSE, buf |-> {}, records |-> 0]

Add(s, r) == [open |-> TRUE, buf |-> s.buf \cup {r}, records |-> s.records + 1]

AppendRecord ==
    /\ At("agent", "idle") /\ offered < MaxRecs
    /\ seg' = Add(seg, offered + 1) /\ offered' = offered + 1
    /\ UNCHANGED <<spool, pc, op, local, now, export, refused, taken, failures>>

\* A flush tick, an Append whose rotation is due, the Rotate of an export.
Begin(o) ==
    /\ At("agent", "idle") /\ seg.open
    /\ o = "flush" => seg.buf # {}
    /\ o = "append" => offered < MaxRecs
    /\ o = "export" => AutoDaily
    /\ op' = [op EXCEPT !["agent"] = o]
    /\ Go("agent", IF seg.buf # {} THEN "flush" ELSE "name")
    /\ UNCHANGED <<spool, seg, local, now, export, history>>

\* Mutant: the agent keeps its file open from one flush to the next.
MutantKeepsOpen ==
    /\ At("agent", "flush") /\ (actv = 0 /\ at["agent"] = 0 => Len(files) < MaxFiles)
    /\ IF at["agent"] # 0 THEN UNCHANGED <<files, actv, at>>
       ELSE /\ files' = IF actv = 0 THEN Append(files, {}) ELSE files
            /\ actv' = IF actv = 0 THEN Len(files) + 1 ELSE actv
            /\ at' = [at EXCEPT !["agent"] = actv']
    /\ Go("agent", "write")
    /\ UNCHANGED <<closed, meta, seg, op, count, list, todo, got, sec, now, export, history>>

\* OpenFile with O_CREATE and O_APPEND.
FlushOpen ==
    /\ At("agent", "flush") /\ (actv = 0 => Len(files) < MaxFiles)
    /\ files' = IF actv = 0 THEN Append(files, {}) ELSE files
    /\ actv' = IF actv = 0 THEN Len(files) + 1 ELSE actv
    /\ at' = [at EXCEPT !["agent"] = actv'] /\ Go("agent", "write")
    /\ UNCHANGED <<closed, meta, seg, op, count, list, todo, got, sec, now, export, history>>

FlushWrite ==
    /\ At("agent", "write")
    /\ files' = [files EXCEPT ![at["agent"]] = @ \cup seg.buf]
    /\ seg' = [seg EXCEPT !.buf = {}]
    /\ Go("agent", IF op["agent"] = "flush" THEN "idle" ELSE "name")
    /\ UNCHANGED <<actv, closed, meta, op, local, now, export, history>>

Taken(n) == \E f \in closed : f.name = n

\* Mutant: the search for a name stops at the first.
MutantFirstName == 0

FreeName == CHOOSE n \in 0 .. MaxFiles : ~Taken(n) /\ \A m \in 0 .. (n - 1) : Taken(m)

\* Mutant: the map entry goes once the segment is closed.
MutantKeepsEntry(p) == seg

Forget(p) == IF p = "agent" THEN NoSeg ELSE seg

\* rotateLocked drops its map entry, closeFile looks for a name.
CloseName(p) ==
    /\ At(p, "name")
    /\ at' = [at EXCEPT ![p] = FreeName]
    /\ count' = [count EXCEPT ![p] = IF p = "agent" THEN seg.records ELSE @]
    /\ seg' = Forget(p) /\ Go(p, "move")
    /\ UNCHANGED <<spool, op, list, todo, got, sec, now, export, history>>

\* A record whose rotation failed is refused; any other operation just ends.
CloseFails(p) ==
    /\ At(p, "move") /\ actv = 0
    /\ failures' = IF p = "agent" THEN failures + 1 ELSE failures
    /\ IF op[p] = "append" THEN refused' = refused \cup {offered + 1} /\ offered' = offered + 1
                           ELSE UNCHANGED <<refused, offered>>
    /\ Go(p, "idle")
    /\ UNCHANGED <<spool, seg, op, local, now, export, taken>>

\* The file is there: Rename replaces whatever has the name by now.
CloseMove(p) ==
    /\ At(p, "move") /\ actv # 0
    /\ closed' = {f \in closed : f.name # at[p]} \cup {[name |-> at[p], ino |-> actv]}
    /\ actv' = 0 /\ Go(p, "sidecar")
    /\ taken' = IF p = "cli" THEN taken + 1 ELSE taken
    /\ UNCHANGED <<files, meta, seg, op, local, now, export, offered, refused, failures>>

Sidecar(p) ==
    /\ At(p, "sidecar")
    /\ meta' = {m \in meta : m.name # at[p]} \cup {[name |-> at[p], count |-> count[p]]}
    /\ IF op[p] = "append" THEN seg' = Add(NoSeg, offered + 1) /\ offered' = offered + 1
                           ELSE UNCHANGED <<seg, offered>>
    /\ Go(p, IF op[p] = "export" THEN "list" ELSE "idle")
    /\ UNCHANGED <<files, actv, closed, op, local, now, export, refused, taken, failures>>

-----------------------------------------------------------------------------
(* The export.                                                             *)

\* The manual export starts: it recovers an active file by reading it first.
Start ==
    /\ At("cli", "idle")
    /\ op' = [op EXCEPT !["cli"] = "export"]
    /\ count' = [count EXCEPT !["cli"] = IF actv = 0 THEN 0 ELSE Cardinality(files[actv])]
    /\ Go("cli", IF actv = 0 THEN "list" ELSE "name")
    /\ UNCHANGED <<spool, seg, at, list, todo, got, sec, now, export, history>>

\* The agent has nothing open and exports what is closed.
BeginEmpty ==
    /\ At("agent", "idle") /\ AutoDaily /\ ~seg.open
    /\ op' = [op EXCEPT !["agent"] = "export"] /\ Go("agent", "list")
    /\ UNCHANGED <<spool, seg, local, now, export, history>>

ListClosed == {m \in meta : Taken(m.name)}

List(p) ==
    /\ At(p, "list")
    /\ list' = [list EXCEPT ![p] = ListClosed] /\ todo' = [todo EXCEPT ![p] = ListClosed]
    /\ got' = [got EXCEPT ![p] = {}]
    /\ Go(p, IF ListClosed = {} THEN "idle" ELSE "tmp")
    /\ UNCHANGED <<spool, seg, op, at, count, sec, now, export, history>>

Exporting(q) == pc[q] \in {"encrypt", "tar", "rename"}

Truncated(old) == {}

\* OpenFile with O_CREATE and O_TRUNC on the name of this second.
OpenTmp(p) ==
    /\ At(p, "tmp") /\ now <= MaxSec
    /\ "second" \in Windows \/ (urab[now] = 0 /\ ~(Exporting(Other(p)) /\ sec[Other(p)] = now))
    /\ sec' = [sec EXCEPT ![p] = now]
    /\ outs' = IF tmp[now] = 0 THEN Append(outs, {})
               ELSE [outs EXCEPT ![tmp[now]] = Truncated(@)]
    /\ tmp' = [tmp EXCEPT ![now] = IF @ = 0 THEN Len(outs) + 1 ELSE @]
    /\ at' = [at EXCEPT ![p] = tmp'[now]] /\ Go(p, "encrypt")
    /\ UNCHANGED <<spool, seg, op, count, list, todo, got, now, urab, history>>

Next1(S) == CHOOSE x \in S : \A y \in S : x.name <= y.name

\* The data file of the next segment is read; when it is gone the export fails,
\* and the temporary file goes by its name.
Encrypt(p) ==
    /\ At(p, "encrypt") /\ todo[p] # {}
    /\ LET m == Next1(todo[p])
           data == {f \in closed : f.name = m.name}
       IN  IF data = {}
             THEN /\ tmp' = [tmp EXCEPT ![sec[p]] = 0] /\ Go(p, "idle")
                  /\ UNCHANGED <<todo, got>>
             ELSE /\ got' = [got EXCEPT ![p] = @ \cup {[count |-> m.count, recs |-> files[f.ino]] : f \in data}]
                  /\ todo' = [todo EXCEPT ![p] = @ \ {m}]
                  /\ UNCHANGED <<pc, tmp>>
    /\ UNCHANGED <<spool, seg, op, at, count, list, sec, now, urab, outs, history>>

Fill(p) == outs' = [outs EXCEPT ![at[p]] = @ \cup {[by |-> p, segs |-> got[p]]}] /\ UNCHANGED <<tmp, urab>>

WriteTar(p) ==
    /\ At(p, "encrypt") /\ todo[p] = {}
    /\ Fill(p) /\ Go(p, "rename")
    /\ UNCHANGED <<spool, seg, op, local, now, history>>

\* The rename fails when the other process has removed or renamed the file.
Rename(p) ==
    /\ At(p, "rename")
    /\ urab' = [urab EXCEPT ![sec[p]] = IF tmp[sec[p]] = 0 THEN @ ELSE tmp[sec[p]]]
    /\ tmp' = [tmp EXCEPT ![sec[p]] = 0]
    /\ todo' = [todo EXCEPT ![p] = list[p]]
    /\ Go(p, IF RemoveAfter /\ tmp[sec[p]] # 0 THEN "remove" ELSE "idle")
    /\ UNCHANGED <<spool, seg, op, at, count, list, got, sec, now, outs, history>>

RemoveClosed(p) ==
    /\ At(p, "remove")
    /\ IF todo[p] = {} THEN Go(p, "idle") /\ UNCHANGED <<closed, meta, todo>>
       ELSE LET n == Next1(todo[p]).name IN
            /\ closed' = {f \in closed : f.name # n} /\ meta' = {m \in meta : m.name # n}
            /\ todo' = [todo EXCEPT ![p] = {m \in @ : m.name # n}]
            /\ UNCHANGED pc
    /\ UNCHANGED <<files, actv, seg, op, at, count, list, got, sec, now, export, history>>

\* The manual export is killed and leaves its temporary file.
Killed ==
    /\ pc["cli"] # "idle"
    /\ Go("cli", "idle")
    /\ UNCHANGED <<spool, seg, op, local, now, export, history>>

Tick ==
    /\ now < MaxSec /\ now' = now + 1
    /\ UNCHANGED <<spool, seg, pc, op, local, export, history>>

-----------------------------------------------------------------------------
SharedInit ==
    /\ files = <<>> /\ actv = 0 /\ closed = {} /\ meta = {} /\ seg = NoSeg
    /\ offered = 0 /\ refused = {} /\ taken = 0 /\ failures = 0
    /\ pc = [p \in Proc |-> "idle"] /\ op = [p \in Proc |-> "none"]
    /\ at = [p \in Proc |-> 0] /\ count = [p \in Proc |-> 0] /\ sec = [p \in Proc |-> 0]
    /\ list = [p \in Proc |-> {}] /\ todo = [p \in Proc |-> {}] /\ got = [p \in Proc |-> {}]
    /\ now = 1 /\ outs = <<>>
    /\ tmp = [s \in 1 .. MaxSec |-> 0] /\ urab = [s \in 1 .. MaxSec |-> 0]

Step(p) ==
    \/ CloseName(p) \/ CloseFails(p) \/ CloseMove(p) \/ Sidecar(p)
    \/ List(p) \/ OpenTmp(p) \/ Encrypt(p) \/ WriteTar(p) \/ Rename(p) \/ RemoveClosed(p)

SharedNext ==
    \/ AppendRecord \/ \E o \in {"flush", "append", "export"} : Begin(o)
    \/ BeginEmpty \/ FlushOpen \/ FlushWrite
    \/ Start \/ Killed \/ Tick
    \/ \E p \in Proc : Step(p)

SharedSpec == SharedInit /\ [][SharedNext]_sharedVars

-----------------------------------------------------------------------------
(* Properties.                                                             *)

Bundles == {outs[urab[s]] : s \in {t \in 1 .. MaxSec : urab[t] # 0}}
Contents(b) == UNION {UNION {x.recs : x \in w.segs} : w \in b}
Spooled == (UNION {files[f.ino] : f \in closed}) \cup (IF actv = 0 THEN {} ELSE files[actv])

SharedTypeOK ==
    /\ actv \in 0 .. Len(files) /\ files \in Seq(SUBSET (1 .. MaxRecs))
    /\ \A f \in closed : f.ino \in DOMAIN files
    /\ seg.buf \subseteq 1 .. offered /\ Cardinality(seg.buf) <= seg.records

\* bundle.go:51 "RemoveAfter deletes exported segments", store.go:258 "unique
\* sequenced name": whatever the two processes do, a record that Append took is
\* in the agent's buffer, in the spool or in a bundle.
NothingLost ==
    (1 .. offered) \ refused \subseteq
        seg.buf \cup Spooled \cup UNION {Contents(b) : b \in Bundles}

\* bundle.go:56 "writes a single .urab file atomically": a file with that name is
\* the complete work of one export, also after an earlier one was killed.
BundleIsWhole == \A b \in Bundles : Cardinality(b) = 1

\* With two processes at the spool no record is lost and no bundle is in parts.
BundlesHoldAll == SharedTypeOK /\ NothingLost /\ BundleIsWhole

\* store.go:249: a manual export that takes the agent's file costs the agent one
\* rotation at most, not every later one.
OneFailurePerTake == failures <= taken

\* ARCHITECTURE.md:46 "finalized by atomic rename": nothing is written to a segment
\* once it is in closed/, although the agent goes on flushing to the same path.
ClosedIsFinal ==
    [][\A i \in DOMAIN files : (\E f \in closed : f.ino = i) => files'[i] = files[i]]_sharedVars

-----------------------------------------------------------------------------
(* Claims of the documentation that the code does not keep.                *)

\* store.go:79-80 "recovers any segments left active by a previous run": a file the
\* agent is still writing to stays where it is.
OpenHasFile == seg.open /\ seg.records > Cardinality(seg.buf) => actv # 0

\* DATA_DICTIONARY.md:12 "record counts" per segment: those of the manifest are
\* the numbers of records in the segments.
CountsAreExact == \A b \in Bundles : \A w \in b : \A x \in w.segs : x.count = Cardinality(x.recs)
=============================================================================
