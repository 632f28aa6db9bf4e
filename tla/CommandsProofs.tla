---------------------------- MODULE CommandsProofs ----------------------------
(***************************************************************************)
(* Theorems about what the commands of ura-agent keep on disk: the spool   *)
(* that run and export share, the two identity files, the configuration.   *)
(***************************************************************************)
EXTENDS SharedSpool, Identity, Settings, Lemmas

-----------------------------------------------------------------------------
(***************************************************************************)
(* Theorems about SharedSpool: for every number of records, seconds and    *)
(* files, whether the agent exports or not and whether it keeps what it    *)
(* exported.                                                               *)
(***************************************************************************)

-----------------------------------------------------------------------------
(* What a process is and where it is.                                      *)

Places ==
    /\ DOMAIN pc = Proc /\ DOMAIN op = Proc /\ DOMAIN at = Proc
    /\ op["cli"] # "append"

FilesOK == \E S : files \in Seq(S)

LEMMA PlacesInit == ASSUME SharedInit PROVE Places /\ FilesOK
<1>1. files \in Seq({})
    BY DEF SharedInit
<1> QED
    BY <1>1 DEF SharedInit, Places, FilesOK, Proc

LEMMA FilesSame ==
    ASSUME FilesOK, files' = files
    PROVE  FilesOK'
BY DEF FilesOK

\* What every step of a process leaves alone.
LEMMA StepKeeps ==
    ASSUME NEW p \in Proc, Step(p)
    PROVE  /\ DOMAIN pc' = DOMAIN pc /\ op' = op /\ DOMAIN at' = DOMAIN at
           /\ files' = files
<1> USE DEF Go, local, spool
<1>1. CASE CloseName(p)
    BY <1>1 DEF CloseName
<1>2. CASE CloseFails(p)
    BY <1>2 DEF CloseFails
<1>3. CASE CloseMove(p)
    BY <1>3 DEF CloseMove
<1>4. CASE Sidecar(p)
    BY <1>4 DEF Sidecar
<1>5. CASE List(p)
    BY <1>5 DEF List
<1>6. CASE OpenTmp(p)
    BY <1>6 DEF OpenTmp
<1>7. CASE Encrypt(p)
    BY <1>7 DEF Encrypt
<1>8. CASE WriteTar(p)
    BY <1>8 DEF WriteTar
<1>9. CASE Rename(p)
    BY <1>9 DEF Rename
<1>10. CASE RemoveClosed(p)
    BY <1>10 DEF RemoveClosed
<1> QED
    BY <1>1, <1>2, <1>3, <1>4, <1>5, <1>6, <1>7, <1>8, <1>9, <1>10 DEF Step

\* Where a step starts: never between the open and the write of a flush.
LEMMA StepStarts ==
    ASSUME NEW p \in Proc, Step(p)
    PROVE  /\ Window(Other(p)) \in Windows \cup {"none"}
           /\ pc[p] # "write" /\ pc[p] # "idle"
<1>1. CASE CloseName(p) \/ CloseFails(p) \/ CloseMove(p) \/ Sidecar(p)
    BY <1>1 DEF CloseName, CloseFails, CloseMove, Sidecar, At
<1>2. CASE List(p) \/ OpenTmp(p) \/ Encrypt(p) \/ WriteTar(p) \/ Rename(p) \/ RemoveClosed(p)
    BY <1>2 DEF List, OpenTmp, Encrypt, WriteTar, Rename, RemoveClosed, At
<1> QED
    BY <1>1, <1>2 DEF Step

\* Nor does one end there: that is the agent's FlushOpen alone.
LEMMA StepEnds ==
    ASSUME Places, NEW p \in Proc, Step(p), NEW q \in Proc
    PROVE  pc'[q] = "write" => pc[q] = "write"
<1> DEFINE To(where) == pc' = [pc EXCEPT ![p] = where]
<1>1. CASE CloseName(p) \/ CloseFails(p) \/ CloseMove(p)
    BY <1>1 DEF CloseName, CloseFails, CloseMove, Go, Places
<1>2. CASE Sidecar(p) \/ List(p)
    <2>1. To("list") \/ To("idle") \/ To("tmp")
        BY <1>2 DEF Sidecar, List, Go
    <2> QED
        BY <2>1 DEF Places
<1>3. CASE OpenTmp(p) \/ WriteTar(p)
    BY <1>3 DEF OpenTmp, WriteTar, Go, Places
<1>4. CASE Encrypt(p) \/ RemoveClosed(p)
    <2>1. To("idle") \/ pc' = pc
        BY <1>4 DEF Encrypt, RemoveClosed, Go
    <2> QED
        BY <2>1 DEF Places
<1>5. CASE Rename(p)
    <2>1. To("idle") \/ To("remove")
        BY <1>5 DEF Rename, Go
    <2> QED
        BY <2>1 DEF Places
<1> QED
    BY <1>1, <1>2, <1>3, <1>4, <1>5 DEF Step

LEMMA PlacesStep ==
    ASSUME Places, NEW p \in Proc, Step(p)
    PROVE  Places'
BY StepKeeps DEF Places

LEMMA FlushPlaces ==
    ASSUME Places, FlushOpen \/ FlushWrite
    PROVE  Places' /\ (FlushOpen => at'["agent"] = actv')
BY DEF FlushOpen, FlushWrite, Go, local, Places, Proc

LEMMA FlushOpenFiles ==
    ASSUME FilesOK, FlushOpen
    PROVE  /\ FilesOK' /\ \A i \in DOMAIN files : files'[i] = files[i]
           /\ Len(files) \in Nat /\ Len(files') \in Nat /\ Len(files) <= Len(files')
           /\ actv = 0 => actv' = Len(files) + 1 /\ Len(files') = Len(files) + 1
           /\ actv # 0 => actv' = actv
<1>1. PICK S : files \in Seq(S)
    BY DEF FilesOK
<1> DEFINE T == S \cup {{}}
<1>2. files \in Seq(T) /\ {} \in T
    BY <1>1
<1> HIDE DEF T
<1>3. /\ files' \in Seq(T)
      /\ \A i \in DOMAIN files : files'[i] = files[i]
      /\ Len(files) \in Nat /\ Len(files') \in Nat /\ Len(files) <= Len(files')
      /\ actv = 0 => Len(files') = Len(files) + 1
    BY <1>2 DEF FlushOpen
<1>4. FilesOK'
    BY <1>3 DEF FilesOK
<1> QED
    BY <1>3, <1>4 DEF FlushOpen

LEMMA FlushWriteFiles ==
    ASSUME FilesOK, FlushWrite
    PROVE  /\ FilesOK' /\ Len(files') = Len(files)
           /\ \A i \in DOMAIN files : i # at["agent"] => files'[i] = files[i]
<1>1. PICK S : files \in Seq(S)
    BY DEF FilesOK
<1> DEFINE X == files[at["agent"]] \cup seg.buf
           T == S \cup {X}
           n == Len(files)
<1>2. files' = [files EXCEPT ![at["agent"]] = X]
    BY DEF FlushWrite
<1>3. files \in Seq(T) /\ X \in T
    BY <1>1
<1> HIDE DEF X, T
<1>4. n \in Nat /\ files \in [1 .. n -> T]
    BY <1>3
<1> HIDE DEF n
<1>5. files' \in [1 .. n -> T]
    BY <1>2, <1>3, <1>4
<1>6. files' \in Seq(T) /\ Len(files') = n
    BY <1>4, <1>5
<1>7. FilesOK'
    BY <1>6 DEF FilesOK
<1> QED
    BY <1>2, <1>4, <1>6, <1>7 DEF n

LEMMA PlacesNext ==
    ASSUME Places, FilesOK, [SharedNext]_sharedVars
    PROVE  Places' /\ FilesOK'
<1>1. CASE AppendRecord \/ Tick \/ UNCHANGED sharedVars
    BY <1>1, FilesSame DEF AppendRecord, Tick, sharedVars, Places, local, spool
<1>2. CASE \E o \in {"flush", "append", "export"} : Begin(o)
    BY <1>2, FilesSame DEF Begin, Go, Places, Proc, local, spool
<1>3. CASE BeginEmpty \/ Start \/ Killed
    BY <1>3, FilesSame DEF BeginEmpty, Start, Killed, Go, local, spool, Places, Proc
<1>4. CASE FlushOpen \/ FlushWrite
    BY <1>4, FlushPlaces, FlushOpenFiles, FlushWriteFiles
<1>5. CASE \E p \in Proc : Step(p)
    BY <1>5, PlacesStep, StepKeeps, FilesSame
<1> QED
    BY <1>1, <1>2, <1>3, <1>4, <1>5 DEF SharedNext

-----------------------------------------------------------------------------
(* A closed segment is final.                                              *)

\* The agent writes to the active file only, and that is not in closed/.
FinalInv ==
    /\ Places /\ FilesOK
    /\ actv \in 0 .. Len(files)
    /\ \A f \in closed : f.ino \in 1 .. Len(files) /\ f.ino # actv
    /\ pc["agent"] = "write" => at["agent"] = actv

LEMMA FinalInit == ASSUME SharedInit PROVE FinalInv
BY PlacesInit DEF SharedInit, FinalInv, Proc

\* While the agent has its file open, the manual export does not run.
LEMMA NobodyRuns ==
    ASSUME "flush" \notin Windows, NEW p \in Proc, Step(p)
    PROVE  pc["agent"] # "write"
<1>1. Window("agent") = "flush" <=> pc["agent"] = "write"
    BY DEF Window
<1>2. CASE p = "agent"
    BY <1>2, StepStarts
<1>3. CASE p = "cli"
    BY <1>1, <1>3, StepStarts DEF Other
<1> QED
    BY <1>2, <1>3 DEF Proc

\* A step that touches neither the files nor the names of the spool.
LEMMA FinalSame ==
    ASSUME FinalInv, Places', FilesOK', UNCHANGED <<files, actv>>, closed' \subseteq closed,
           pc'["agent"] = "write" => pc["agent"] = "write" /\ at'["agent"] = at["agent"]
    PROVE  FinalInv'
BY DEF FinalInv

LEMMA FinalMove ==
    ASSUME "flush" \notin Windows, FinalInv, Places', FilesOK', NEW p \in Proc, CloseMove(p)
    PROVE  FinalInv' /\ files' = files
<1>1. /\ files' = files /\ actv' = 0 /\ actv # 0 /\ at' = at
      /\ closed' \subseteq closed \cup {[name |-> at[p], ino |-> actv]}
    BY DEF CloseMove, local
<1>2. pc["agent"] # "write"
    BY NobodyRuns DEF Step
<1>3. pc'["agent"] # "write"
    BY <1>2, StepEnds DEF Step, FinalInv, Proc
<1>4. PICK S : files \in Seq(S)
    BY DEF FinalInv, FilesOK
<1>5. Len(files) \in Nat
    BY <1>4
<1>6. \A f \in closed' : f.ino \in 1 .. Len(files) /\ f.ino # 0
    BY <1>1, <1>5 DEF FinalInv
<1> QED
    BY <1>1, <1>3, <1>5, <1>6 DEF FinalInv

LEMMA FinalStep ==
    ASSUME "flush" \notin Windows, FinalInv, NEW p \in Proc, Step(p)
    PROVE  FinalInv' /\ files' = files
<1>1. Places' /\ FilesOK' /\ files' = files
    BY PlacesStep, StepKeeps, FilesSame DEF FinalInv
<1>2. CASE CloseMove(p)
    BY <1>1, <1>2, FinalMove
<1>3. CASE ~CloseMove(p)
    <2>1. actv' = actv /\ closed' \subseteq closed
        BY <1>3 DEF Step, CloseName, CloseFails, Sidecar, List, OpenTmp, Encrypt, WriteTar,
                    Rename, RemoveClosed, spool
    <2>2. pc'["agent"] # "write"
        BY NobodyRuns, StepEnds DEF FinalInv, Proc
    <2> QED
        BY <1>1, <2>1, <2>2, FinalSame
<1> QED
    BY <1>2, <1>3

LEMMA FinalFlush ==
    ASSUME FinalInv, FlushOpen \/ FlushWrite
    PROVE  /\ FinalInv'
           /\ \A i \in DOMAIN files : (\E f \in closed : f.ino = i) => files'[i] = files[i]
<1>1. Places /\ FilesOK /\ Places'
    BY FlushPlaces DEF FinalInv
<1>2. CASE FlushOpen
    <2>1. closed' = closed /\ at'["agent"] = actv'
        BY <1>1, <1>2, FlushPlaces DEF FlushOpen
    <2>2. actv' \in 0 .. Len(files')
        BY <1>1, <1>2, FlushOpenFiles DEF FinalInv
    <2>3. \A f \in closed' : f.ino \in 1 .. Len(files') /\ f.ino # actv'
        BY <1>1, <1>2, <2>1, FlushOpenFiles DEF FinalInv
    <2> QED
        BY <1>1, <1>2, <2>1, <2>2, <2>3, FlushOpenFiles DEF FinalInv
<1>3. CASE FlushWrite
    <2>1. /\ closed' = closed /\ actv' = actv /\ at' = at /\ pc["agent"] = "write"
          /\ pc'["agent"] # "write"
        BY <1>1, <1>3 DEF FlushWrite, At, Go, local, Places, Proc
    <2>2. at["agent"] = actv
        BY <2>1 DEF FinalInv
    <2> QED
        BY <1>1, <1>3, <2>1, <2>2, FlushWriteFiles DEF FinalInv
<1> QED
    BY <1>2, <1>3

LEMMA FinalNext ==
    ASSUME "flush" \notin Windows, FinalInv, [SharedNext]_sharedVars
    PROVE  /\ FinalInv'
           /\ \A i \in DOMAIN files : (\E f \in closed : f.ino = i) => files'[i] = files[i]
<1>1. Places' /\ FilesOK'
    BY PlacesNext DEF FinalInv
<1>2. CASE AppendRecord \/ Tick \/ UNCHANGED sharedVars
    BY <1>1, <1>2, FinalSame DEF AppendRecord, Tick, sharedVars, spool, local
<1>3. CASE \E o \in {"flush", "append", "export"} : Begin(o)
    <2>1. /\ UNCHANGED <<spool, local>> /\ pc'["agent"] # "write"
        BY <1>3 DEF Begin, Go, FinalInv, Places, Proc
    <2> QED
        BY <1>1, <2>1, FinalSame DEF spool, local
<1>4. CASE BeginEmpty \/ Start \/ Killed
    <2>1. /\ UNCHANGED <<spool, at>> /\ (pc'["agent"] = "write" => pc["agent"] = "write")
        BY <1>4 DEF BeginEmpty, Start, Killed, Go, local, FinalInv, Places, Proc
    <2> QED
        BY <1>1, <2>1, FinalSame DEF spool
<1>5. CASE FlushOpen \/ FlushWrite
    BY <1>5, FinalFlush
<1>6. CASE \E p \in Proc : Step(p)
    BY <1>6, FinalStep
<1> QED
    BY <1>2, <1>3, <1>4, <1>5, <1>6 DEF SharedNext

\* As long as the manual export does not run between the open and the write of one
\* flush, no segment changes once it is in closed/, so what is encrypted is what
\* is removed (store.go:204-209, 279; ARCHITECTURE.md:46).
THEOREM ClosedSegmentsAreFinal ==
    ASSUME "flush" \notin Windows
    PROVE  SharedSpec => ClosedIsFinal
<1>1. SharedInit => FinalInv
    BY FinalInit
<1>2. FinalInv /\ [SharedNext]_sharedVars => FinalInv'
    BY FinalNext
<1>3. FinalInv /\ [SharedNext]_sharedVars =>
          [\A i \in DOMAIN files : (\E f \in closed : f.ino = i) => files'[i] = files[i]]_sharedVars
    BY FinalNext
<1> QED
    BY <1>1, <1>2, <1>3, PTL DEF SharedSpec, ClosedIsFinal
-----------------------------------------------------------------------------
(* A taken file costs one rotation.                                        *)

\* The agent counts on a file that is not there: it has flushed all it has, or is
\* about to write or to close, and the manual export has taken the file.
Robbed ==
    /\ actv = 0
    /\ pc["agent"] \in {"write", "name", "move"} \/ (seg.open /\ seg.buf = {})

\* Each take is good for one failure, and one of them is still to come while the
\* agent is robbed: rotateLocked has dropped its entry before it fails.
OneInv ==
    /\ Places /\ FilesOK
    /\ failures \in Nat /\ taken \in Nat
    /\ pc["agent"] \in {"move", "sidecar"} => ~seg.open
    /\ failures <= taken
    /\ Robbed => failures + 1 <= taken

LEMMA OneInit == ASSUME SharedInit PROVE OneInv
BY PlacesInit DEF SharedInit, OneInv, Robbed, NoSeg, Proc

\* A step that takes nothing and does not fail.
LEMMA OneCalm ==
    ASSUME OneInv, Places', FilesOK', UNCHANGED <<failures, taken>>, Robbed' => Robbed,
           pc'["agent"] \in {"move", "sidecar"} => ~seg'.open
    PROVE  OneInv'
BY DEF OneInv

LEMMA OneBegin ==
    ASSUME OneInv, Places', FilesOK', NEW o \in {"flush", "append", "export"}, Begin(o)
    PROVE  OneInv'
<1>1. /\ UNCHANGED <<failures, taken, actv, seg>> /\ seg.open
      /\ pc'["agent"] = IF seg.buf # {} THEN "flush" ELSE "name"
    BY DEF Begin, Go, spool, history, OneInv, Places, Proc
<1> QED
    BY <1>1, OneCalm DEF Robbed

LEMMA OneFlush ==
    ASSUME OneInv, Places', FilesOK', FlushOpen \/ FlushWrite
    PROVE  OneInv'
<1>1. CASE FlushOpen
    <2>1. actv' # 0
        BY <1>1, FlushOpenFiles DEF OneInv
    <2>2. UNCHANGED <<failures, taken, seg>> /\ pc'["agent"] = "write"
        BY <1>1 DEF FlushOpen, Go, history, OneInv, Places, Proc
    <2> QED
        BY <2>1, <2>2, OneCalm DEF Robbed
<1>2. CASE FlushWrite
    <2>1. UNCHANGED <<failures, taken, actv>> /\ pc["agent"] = "write"
        BY <1>2 DEF FlushWrite, At, history
    <2>2. pc'["agent"] \notin {"move", "sidecar"}
        BY <1>2 DEF FlushWrite, Go, OneInv, Places, Proc
    <2> QED
        BY <2>1, <2>2, OneCalm DEF Robbed
<1> QED
    BY <1>1, <1>2

LEMMA OneName ==
    ASSUME OneInv, Places', FilesOK', NEW p \in Proc, CloseName(p)
    PROVE  OneInv'
<1>1. UNCHANGED <<failures, taken, actv>> /\ pc' = [pc EXCEPT ![p] = "move"] /\ pc[p] = "name"
    BY DEF CloseName, At, Go, spool, history
<1>2. CASE p = "agent"
    <2>1. seg' = NoSeg /\ pc'["agent"] = "move"
        BY <1>1, <1>2 DEF CloseName, Forget, OneInv, Places
    <2> QED
        BY <1>1, <1>2, <2>1, OneCalm DEF Robbed, NoSeg
<1>3. CASE p = "cli"
    <2>1. seg' = seg /\ pc'["agent"] = pc["agent"]
        BY <1>1, <1>3 DEF CloseName, Forget, OneInv, Places, Proc
    <2> QED
        BY <1>1, <2>1, OneCalm DEF Robbed, OneInv
<1> QED
    BY <1>2, <1>3 DEF Proc

LEMMA OneFails ==
    ASSUME OneInv, Places', FilesOK', NEW p \in Proc, CloseFails(p)
    PROVE  OneInv'
<1>1. /\ UNCHANGED <<taken, actv, seg>> /\ actv = 0
      /\ pc' = [pc EXCEPT ![p] = "idle"] /\ pc[p] = "move"
      /\ failures' = IF p = "agent" THEN failures + 1 ELSE failures
    BY DEF CloseFails, At, Go, spool
<1>2. CASE p = "agent"
    <2>1. Robbed /\ ~seg.open /\ pc'["agent"] = "idle" /\ failures' = failures + 1
        BY <1>1, <1>2 DEF Robbed, OneInv, Places
    <2>2. ~Robbed'
        BY <1>1, <2>1 DEF Robbed
    <2> QED
        BY <1>1, <2>1, <2>2 DEF OneInv
<1>3. CASE p = "cli"
    <2>1. pc'["agent"] = pc["agent"] /\ failures' = failures
        BY <1>1, <1>3 DEF OneInv, Places, Proc
    <2> QED
        BY <1>1, <2>1, OneCalm DEF Robbed, OneInv
<1> QED
    BY <1>2, <1>3 DEF Proc

LEMMA OneMove ==
    ASSUME OneInv, Places', FilesOK', NEW p \in Proc, CloseMove(p)
    PROVE  OneInv'
<1>1. /\ UNCHANGED <<failures, seg>> /\ pc' = [pc EXCEPT ![p] = "sidecar"] /\ pc[p] = "move"
      /\ taken' = IF p = "cli" THEN taken + 1 ELSE taken
    BY DEF CloseMove, At, Go
<1>2. CASE p = "agent"
    <2>1. pc'["agent"] = "sidecar" /\ ~seg.open /\ taken' = taken
        BY <1>1, <1>2 DEF OneInv, Places
    <2> QED
        BY <1>1, <2>1, OneCalm DEF Robbed
<1>3. CASE p = "cli"
    <2>1. pc'["agent"] = pc["agent"] /\ taken' = taken + 1
        BY <1>1, <1>3 DEF OneInv, Places, Proc
    <2> QED
        BY <1>1, <2>1 DEF OneInv
<1> QED
    BY <1>2, <1>3 DEF Proc

LEMMA OneSidecar ==
    ASSUME OneInv, Places', FilesOK', NEW p \in Proc, Sidecar(p)
    PROVE  OneInv'
<1>1. /\ UNCHANGED <<failures, taken, actv>> /\ pc[p] = "sidecar"
      /\ pc' = [pc EXCEPT ![p] = "list"] \/ pc' = [pc EXCEPT ![p] = "idle"]
      /\ seg' = seg \/ (op[p] = "append" /\ seg' = Add(NoSeg, offered + 1))
    BY DEF Sidecar, At, Go
<1>2. CASE p = "agent"
    <2>1. ~seg.open /\ pc'["agent"] \in {"list", "idle"}
        BY <1>1, <1>2 DEF OneInv, Places
    <2>2. ~(seg'.open /\ seg'.buf = {})
        BY <1>1, <2>1 DEF Add, NoSeg
    <2> QED
        BY <1>1, <2>1, <2>2, OneCalm DEF Robbed
<1>3. CASE p = "cli"
    <2>1. pc'["agent"] = pc["agent"] /\ seg' = seg
        BY <1>1, <1>3 DEF OneInv, Places, Proc
    <2> QED
        BY <1>1, <2>1, OneCalm DEF Robbed, OneInv
<1> QED
    BY <1>2, <1>3 DEF Proc

\* The steps of an export, by whichever process.
LEMMA OneExport ==
    ASSUME OneInv, Places', FilesOK', NEW p \in Proc,
           List(p) \/ OpenTmp(p) \/ Encrypt(p) \/ WriteTar(p) \/ Rename(p) \/ RemoveClosed(p)
    PROVE  OneInv'
<1> DEFINE To(where) == pc' = [pc EXCEPT ![p] = where]
<1>1. UNCHANGED <<failures, taken, actv, seg>>
    BY DEF List, OpenTmp, Encrypt, WriteTar, Rename, RemoveClosed, spool, history
<1>2. pc' = pc \/ To("idle") \/ To("tmp") \/ To("encrypt") \/ To("rename") \/ To("remove")
    <2>1. CASE List(p) \/ Rename(p)
        BY <2>1 DEF List, Rename, Go
    <2>2. CASE OpenTmp(p) \/ Encrypt(p) \/ WriteTar(p) \/ RemoveClosed(p)
        BY <2>2 DEF OpenTmp, Encrypt, WriteTar, RemoveClosed, Go
    <2> QED
        BY <2>1, <2>2
<1>3. pc'["agent"] = pc["agent"] \/ pc'["agent"] \in {"idle", "tmp", "encrypt", "rename", "remove"}
    BY <1>2 DEF OneInv, Places, Proc
<1> QED
    BY <1>1, <1>3, OneCalm DEF Robbed, OneInv

LEMMA OneNext ==
    ASSUME OneInv, [SharedNext]_sharedVars
    PROVE  OneInv'
<1>1. Places' /\ FilesOK'
    BY PlacesNext DEF OneInv
<1>2. CASE AppendRecord
    <2>1. UNCHANGED <<failures, taken, actv, pc>> /\ pc["agent"] = "idle"
        BY <1>2 DEF AppendRecord, At, spool
    <2>2. seg'.buf # {}
        BY <1>2 DEF AppendRecord, Add
    <2> QED
        BY <1>1, <2>1, <2>2, OneCalm DEF Robbed
<1>3. CASE Tick \/ UNCHANGED sharedVars
    BY <1>1, <1>3, OneCalm DEF Tick, sharedVars, spool, history, Robbed, OneInv
<1>4. CASE \E o \in {"flush", "append", "export"} : Begin(o)
    BY <1>1, <1>4, OneBegin
<1>5. CASE BeginEmpty \/ Start \/ Killed
    <2>1. /\ UNCHANGED <<failures, taken, actv, seg>>
          /\ pc'["agent"] = pc["agent"] \/ pc'["agent"] = "list"
        BY <1>5 DEF BeginEmpty, Start, Killed, Go, spool, history, OneInv, Places, Proc
    <2> QED
        BY <1>1, <2>1, OneCalm DEF Robbed, OneInv
<1>6. CASE FlushOpen \/ FlushWrite
    BY <1>1, <1>6, OneFlush
<1>7. CASE \E p \in Proc : Step(p)
    BY <1>1, <1>7, OneName, OneFails, OneMove, OneSidecar, OneExport DEF Step
<1> QED
    BY <1>2, <1>3, <1>4, <1>5, <1>6, <1>7 DEF SharedNext

\* However often a manual export takes the file the running agent writes to, in
\* whatever window, each take costs at most one failed rotation, so at most one
\* refused record: the agent recovers by itself (store.go:246-255).
THEOREM OneFailureEach == SharedSpec => []OneFailurePerTake
<1>1. SharedInit => OneInv
    BY OneInit
<1>2. OneInv /\ [SharedNext]_sharedVars => OneInv'
    BY OneNext
<1>3. OneInv => OneFailurePerTake
    BY DEF OneInv, OneFailurePerTake
<1> QED
    BY <1>1, <1>2, <1>3, PTL DEF SharedSpec

-----------------------------------------------------------------------------
(* The smallest of some numbers, and what is found with it.                *)

\* Next1 takes one of the segments when they have numbers for names.
LEMMA NextIsOne ==
    ASSUME NEW S, S # {}, \A x \in S : x.name \in Nat
    PROVE  Next1(S) \in S
<1> DEFINE X == {x.name : x \in S}
<1>1. \E n \in X : \A m \in X : n <= m
    BY LeastNumber
<1>2. \E x \in S : \A y \in S : x.name <= y.name
    BY <1>1
<1> QED
    BY <1>2 DEF Next1

Segments == [name : 0 .. MaxFiles, ino : 1 .. Len(files)]

\* No two names, no two files are one.
Distinct ==
    /\ closed \subseteq Segments
    /\ \A f, g \in closed : f.name = g.name \/ f.ino = g.ino => f = g

\* There are fewer files than names, so the search for a name ends at a free one.
LEMMA NameIsFree ==
    ASSUME Distinct, Len(files) \in Nat, Len(files) <= MaxFiles
    PROVE  FreeName \in 0 .. MaxFiles /\ ~Taken(FreeName)
<1> DEFINE N == 0 .. MaxFiles
           X == {n \in N : ~Taken(n)}
<1>0. MaxFiles \in Nat
    BY SharedAssumption
<1>1. X # {}
    <2> SUFFICES ASSUME \A n \in N : Taken(n) PROVE FALSE
        OBVIOUS
    <2> DEFINE T == 1 .. Len(files)
               g == [n \in N |-> (CHOOSE f \in closed : f.name = n).ino]
    <2>1. \A n \in N : (CHOOSE f \in closed : f.name = n) \in closed
                       /\ (CHOOSE f \in closed : f.name = n).name = n
        BY DEF Taken
    <2>2. g \in [N -> T]
        BY <2>1 DEF Distinct, Segments
    <2>3. \A m, n \in N : g[m] = g[n] => m = n
        <3> SUFFICES ASSUME NEW m \in N, NEW n \in N, g[m] = g[n] PROVE m = n
            OBVIOUS
        <3>1. (CHOOSE f \in closed : f.name = m) = (CHOOSE f \in closed : f.name = n)
            BY <2>1 DEF Distinct
        <3> QED
            BY <2>1, <3>1
    <2>4. IsFiniteSet(N) /\ Cardinality(N) = MaxFiles + 1
        BY <1>0, FS_Interval
    <2>5. IsFiniteSet(T) /\ Cardinality(T) = Len(files)
        <3> DEFINE n == Len(files)
        <3>1. n \in Nat
            OBVIOUS
        <3> HIDE DEF n
        <3>2. IsFiniteSet(1 .. n) /\ Cardinality(1 .. n) = IF 1 > n THEN 0 ELSE n - 1 + 1
            BY <3>1, FS_Interval
        <3>3. Cardinality(1 .. n) = n
            BY <3>1, <3>2
        <3> QED
            BY <3>2, <3>3 DEF n
    <2>6. Cardinality(T) < Cardinality(N)
        BY <1>0, <2>4, <2>5
    <2> HIDE DEF g, N, T
    <2>7. \E x, y \in N : x # y /\ g[x] = g[y]
        BY <2>2, <2>4, <2>5, <2>6, FS_PigeonHole
    <2> QED
        BY <2>3, <2>7
<1>2. PICK n \in X : \A m \in X : n <= m
    <2>1. X \subseteq Nat
        BY <1>0
    <2> HIDE DEF X
    <2> QED
        BY <1>1, <2>1, LeastNumber
<1>3. n \in N /\ ~Taken(n) /\ \A m \in 0 .. (n - 1) : Taken(m)
    BY <1>0, <1>2
<1>4. \E k \in N : ~Taken(k) /\ \A m \in 0 .. (k - 1) : Taken(m)
    BY <1>3
<1> HIDE DEF N
<1> QED
    BY <1>4 DEF FreeName, N

-----------------------------------------------------------------------------
(* The inductive invariant of a spool whose agent does not export and that *)
(* no process enters while the other is inside a file operation of two     *)
(* parts.                                                                  *)

Roles ==
    /\ Places
    /\ pc["agent"] \in {"idle", "flush", "write", "name", "move", "sidecar"}
    /\ pc["cli"] \in {"idle", "name", "move", "sidecar", "list", "tmp", "encrypt", "rename", "remove"}
    /\ op["agent"] \in {"none", "flush", "append"}
    /\ pc["agent"] # "idle" => op["agent"] # "none"
    /\ pc["cli"] # "idle" => op["cli"] = "export"
    /\ pc["agent"] \in {"name", "move", "sidecar"} => op["agent"] = "append"
    /\ pc["agent"] # "idle" /\ op["agent"] = "append" => offered < MaxRecs

Buffered ==
    /\ offered \in 0 .. MaxRecs
    /\ seg \in [open : BOOLEAN, buf : SUBSET (1 .. offered), records : Nat]
    /\ Cardinality(seg.buf) <= seg.records
    /\ pc["agent"] \in {"name", "move", "sidecar"} => seg.buf = {}

Filed ==
    /\ files \in Seq(SUBSET (1 .. MaxRecs)) /\ Len(files) <= MaxFiles
    /\ actv \in 0 .. Len(files)
    /\ Distinct /\ \A f \in closed : f.ino # actv
    /\ pc["agent"] = "write" => at["agent"] = actv /\ actv # 0
    /\ \A p \in Proc : pc[p] = "move" => at[p] \in 0 .. MaxFiles /\ ~Taken(at[p])

\* What the manual export has read of the segment named n.
Read(n) == \A f \in closed : f.name = n => \E x \in got["cli"] : files[f.ino] \subseteq x.recs

\* A finished bundle is never opened again: no name of a temporary file stands
\* for it, and its second is not used twice.
Finished ==
    /\ now \in Nat \ {0}
    /\ \E X : outs \in Seq(X)
    /\ tmp \in [1 .. MaxSec -> 0 .. Len(outs)] /\ urab \in [1 .. MaxSec -> 0 .. Len(outs)]
    /\ \A s, t \in 1 .. MaxSec : tmp[s] # 0 => urab[t] # tmp[s] /\ (tmp[t] = tmp[s] => s = t)
    /\ \A s \in 1 .. MaxSec : urab[s] # 0 => \E w : outs[urab[s]] = {w}

\* The manual export, from its list to its last removal.
Shipping ==
    LET p == "cli" IN
    /\ DOMAIN list = Proc /\ DOMAIN todo = Proc /\ DOMAIN got = Proc /\ DOMAIN sec = Proc
    /\ todo[p] \subseteq list[p]
    /\ pc[p] \in {"tmp", "encrypt", "rename"} => \A m \in list[p] : Taken(m.name)
    /\ pc[p] = "remove" => \A m \in todo[p] : Taken(m.name)
    /\ pc[p] = "tmp" => todo[p] = list[p]
    /\ pc[p] \in {"encrypt", "rename", "remove"} => sec[p] \in 1 .. MaxSec
    /\ pc[p] = "encrypt" => /\ tmp[sec[p]] = at[p] /\ at[p] # 0 /\ urab[sec[p]] = 0
                            /\ outs[at[p]] = {}
                            /\ \A m \in list[p] \ todo[p] : Read(m.name)
    /\ pc[p] = "rename" => /\ tmp[sec[p]] = at[p] /\ at[p] # 0 /\ urab[sec[p]] = 0
                           /\ outs[at[p]] = {[by |-> p, segs |-> got[p]]}
                           /\ \A m \in list[p] : Read(m.name)
    /\ pc[p] = "remove" => /\ urab[sec[p]] # 0
                           /\ outs[urab[sec[p]]] = {[by |-> p, segs |-> got[p]]}
                           /\ \A m \in todo[p] : Read(m.name)

BundleInv == Roles /\ Buffered /\ Filed /\ Finished /\ Shipping /\ NothingLost

Alone == AutoDaily = FALSE /\ Windows = {}

LEMMA BundleStart ==
    ASSUME SharedInit PROVE BundleInv
<1> USE DEF Proc
<1>1. MaxRecs \in Nat /\ MaxSec \in Nat /\ MaxFiles \in Nat
    BY SharedAssumption
<1>2. Roles
    BY PlacesInit DEF SharedInit, Roles
<1>3. Buffered
    BY <1>1, FS_EmptySet DEF SharedInit, Buffered, NoSeg
<1>4. Filed
    BY <1>1 DEF SharedInit, Filed, Distinct
<1>5. Finished
    <2>1. outs \in Seq({}) /\ Len(outs) = 0
        BY DEF SharedInit
    <2> QED
        BY <1>1, <2>1 DEF SharedInit, Finished
<1>6. Shipping
    BY DEF SharedInit, Shipping
<1>7. NothingLost
    BY DEF SharedInit, NothingLost
<1> QED
    BY <1>2, <1>3, <1>4, <1>5, <1>6, <1>7 DEF BundleInv

\* No process runs while the other writes or renames.
LEMMA AtAlone ==
    ASSUME Alone, NEW p \in Proc, NEW where, At(p, where)
    PROVE  pc[p] = where /\ pc[Other(p)] \notin {"write", "move"}
BY DEF Alone, At, Window

\* The steps of an export are the manual export's.
LEMMA ExportIsManual ==
    ASSUME Roles, NEW p \in Proc,
           List(p) \/ OpenTmp(p) \/ Encrypt(p) \/ WriteTar(p) \/ Rename(p) \/ RemoveClosed(p)
    PROVE  p = "cli" /\ pc["cli"] \in {"list", "tmp", "encrypt", "rename", "remove"}
<1>1. pc[p] \in {"list", "tmp", "encrypt", "rename", "remove"}
    BY DEF List, OpenTmp, Encrypt, WriteTar, Rename, RemoveClosed, At
<1> QED
    BY <1>1 DEF Roles, Proc

LEMMA ExportPlaces ==
    ASSUME Roles, NEW p \in Proc,
           List(p) \/ OpenTmp(p) \/ Encrypt(p) \/ WriteTar(p) \/ Rename(p) \/ RemoveClosed(p)
    PROVE  /\ UNCHANGED <<op, files, actv, seg, history>>
           /\ pc' = pc \/ \E where \in {"idle", "tmp", "encrypt", "rename", "remove"} :
                              pc' = [pc EXCEPT !["cli"] = where]
           /\ pc'["agent"] = pc["agent"]
<1>1. p = "cli" /\ DOMAIN pc = Proc
    BY ExportIsManual DEF Roles, Places
<1>2. UNCHANGED <<op, files, actv, seg, history>>
    BY DEF List, OpenTmp, Encrypt, WriteTar, Rename, RemoveClosed, history, local, spool
<1>3. pc' = pc \/ \E where \in {"idle", "tmp", "encrypt", "rename", "remove"} :
                      pc' = [pc EXCEPT !["cli"] = where]
    <2>1. CASE List(p) \/ OpenTmp(p) \/ WriteTar(p)
        BY <1>1, <2>1 DEF List, OpenTmp, WriteTar, Go
    <2>2. CASE Encrypt(p) \/ Rename(p) \/ RemoveClosed(p)
        BY <1>1, <2>2 DEF Encrypt, Rename, RemoveClosed, Go
    <2> QED
        BY <2>1, <2>2
<1> QED
    BY <1>1, <1>2, <1>3 DEF Proc

LEMMA RolesNext ==
    ASSUME Alone, Roles, FilesOK, [SharedNext]_sharedVars
    PROVE  Roles'
<1> USE DEF Proc
<1>0. Places' /\ DOMAIN pc = {"agent", "cli"} /\ DOMAIN op = {"agent", "cli"}
    BY PlacesNext DEF Roles, Places
<1>1. CASE AppendRecord
    BY <1>0, <1>1 DEF AppendRecord, At, Roles
<1>2. ASSUME NEW o \in {"flush", "append", "export"}, Begin(o)
      PROVE  Roles'
    <2>1. /\ o \in {"flush", "append"} /\ (o = "append" => offered < MaxRecs)
          /\ o = "flush" => seg.buf # {}
          /\ op' = [op EXCEPT !["agent"] = o] /\ offered' = offered
          /\ pc' = [pc EXCEPT !["agent"] = IF seg.buf # {} THEN "flush" ELSE "name"]
        BY <1>2 DEF Begin, Go, Alone, history
    <2> QED
        BY <1>0, <2>1 DEF Roles
<1>3. CASE BeginEmpty
    BY <1>3 DEF BeginEmpty, Alone
<1>4. CASE FlushOpen
    BY <1>0, <1>4 DEF FlushOpen, At, Go, history, Roles
<1>5. CASE FlushWrite
    BY <1>0, <1>5 DEF FlushWrite, At, Go, history, Roles
<1>6. CASE Start
    BY <1>0, <1>6 DEF Start, At, Go, history, Roles
<1>7. CASE Killed \/ Tick \/ UNCHANGED sharedVars
    BY <1>0, <1>7 DEF Killed, Tick, Go, history, Roles, sharedVars, local
<1>8. ASSUME NEW p \in Proc, CloseName(p) \/ CloseFails(p) \/ CloseMove(p) \/ Sidecar(p)
      PROVE  Roles'
    <2>1. CASE CloseName(p) \/ CloseMove(p)
        BY <1>0, <2>1 DEF CloseName, CloseMove, At, Go, history, Roles
    <2>2. CASE CloseFails(p)
        <3>1. /\ op' = op /\ pc' = [pc EXCEPT ![p] = "idle"]
              /\ offered' = offered \/ (p = "agent" /\ pc[p] = "move")
            BY <2>2 DEF CloseFails, At, Go, history, local, Roles, Places
        <3> QED
            BY <1>0, <3>1 DEF Roles
    <2>3. CASE Sidecar(p)
        <3>1. /\ op' = op /\ pc' = [pc EXCEPT ![p] = IF op[p] = "export" THEN "list" ELSE "idle"]
              /\ pc[p] = "sidecar"
              /\ offered' = offered \/ p = "agent"
            BY <2>3 DEF Sidecar, At, Go, history, local, Roles, Places
        <3> QED
            BY <1>0, <3>1 DEF Roles
    <2> QED
        BY <1>8, <2>1, <2>2, <2>3
<1>9. ASSUME NEW p \in Proc,
             List(p) \/ OpenTmp(p) \/ Encrypt(p) \/ WriteTar(p) \/ Rename(p) \/ RemoveClosed(p)
      PROVE  Roles'
    <2>1. p = "cli" /\ pc["cli"] # "idle"
        BY <1>9, ExportIsManual
    <2>2. op' = op /\ offered' = offered
        BY <1>9 DEF List, OpenTmp, Encrypt, WriteTar, Rename, RemoveClosed, history, local
    <2>3. pc' = pc \/ \E where \in {"idle", "tmp", "encrypt", "rename", "remove"} :
                         pc' = [pc EXCEPT !["cli"] = where]
        BY <1>9, ExportPlaces
    <2> QED
        BY <1>0, <2>1, <2>2, <2>3 DEF Roles
<1> QED
    BY <1>1, <1>2, <1>3, <1>4, <1>5, <1>6, <1>7, <1>8, <1>9 DEF SharedNext, Step

\* One record more in the buffer.
LEMMA AddOne ==
    ASSUME offered \in Nat,
           NEW s \in [open : BOOLEAN, buf : SUBSET (1 .. offered), records : Nat],
           Cardinality(s.buf) <= s.records
    PROVE  LET t == Add(s, offered + 1) IN
             /\ t \in [open : BOOLEAN, buf : SUBSET (1 .. (offered + 1)), records : Nat]
             /\ Cardinality(t.buf) <= t.records
<1>1. s.buf \subseteq 1 .. offered /\ s.records \in Nat
    OBVIOUS
<1>2. IsFiniteSet(1 .. offered)
    BY FS_Interval
<1>3. IsFiniteSet(s.buf) /\ offered + 1 \notin s.buf
    BY <1>1, <1>2, FS_Subset
<1>4. Cardinality(s.buf) \in Nat /\ Cardinality(s.buf \cup {offered + 1}) = Cardinality(s.buf) + 1
    BY <1>3, FS_CardinalityType, FS_AddElement
<1>5. s.buf \cup {offered + 1} \subseteq 1 .. (offered + 1)
    BY <1>1
<1> QED
    BY <1>1, <1>4, <1>5 DEF Add

LEMMA BufferedNext ==
    ASSUME Alone, Roles, Buffered, [SharedNext]_sharedVars
    PROVE  Buffered'
<1> USE DEF Proc
<1>0. /\ MaxRecs \in Nat /\ offered \in Nat /\ offered <= MaxRecs
      /\ DOMAIN pc = {"agent", "cli"}
    BY SharedAssumption DEF Buffered, Roles, Places
<1>e. NoSeg \in [open : BOOLEAN, buf : SUBSET (1 .. offered), records : Nat]
      /\ NoSeg.buf = {} /\ NoSeg.records = 0 /\ Cardinality({}) = 0
    BY FS_EmptySet DEF NoSeg
<1>1. CASE AppendRecord
    <2>1. /\ seg' = Add(seg, offered + 1) /\ offered' = offered + 1 /\ offered < MaxRecs
          /\ pc["agent"] = "idle" /\ pc' = pc
        BY <1>1 DEF AppendRecord, At
    <2> QED
        BY <1>0, <2>1, AddOne DEF Buffered
<1>2. ASSUME NEW p \in Proc, Sidecar(p)
      PROVE  Buffered'
    <2>1. CASE p = "agent"
        <3>1. /\ seg' = Add(NoSeg, offered + 1) /\ offered' = offered + 1 /\ offered < MaxRecs
              /\ pc' = [pc EXCEPT !["agent"] = "idle"]
            BY <1>2, <2>1 DEF Sidecar, At, Go, Roles
        <3>2. Cardinality(NoSeg.buf) <= NoSeg.records
            BY <1>e
        <3>3. /\ seg' \in [open : BOOLEAN, buf : SUBSET (1 .. offered'), records : Nat]
              /\ Cardinality(seg'.buf) <= seg'.records
            BY <1>0, <1>e, <3>1, <3>2, AddOne
        <3> QED
            BY <1>0, <3>1, <3>3 DEF Buffered
    <2>2. CASE p = "cli"
        <3>1. UNCHANGED <<seg, offered>> /\ pc'["agent"] = pc["agent"]
            BY <1>2, <2>2 DEF Sidecar, Go, Roles, Places
        <3> QED
            BY <3>1 DEF Buffered
    <2> QED
        BY <2>1, <2>2
<1>3. ASSUME NEW p \in Proc, CloseFails(p)
      PROVE  Buffered'
    <2>1. /\ seg' = seg
          /\ offered' = offered \/ (offered' = offered + 1 /\ p = "agent" /\ offered < MaxRecs)
          /\ pc'["agent"] \in {pc["agent"], "idle"}
        BY <1>3 DEF CloseFails, At, Go, Roles, Places
    <2>2. offered' \in 0 .. MaxRecs /\ (1 .. offered) \subseteq (1 .. offered')
        BY <1>0, <2>1
    <2>3. seg \in [open : BOOLEAN, buf : SUBSET (1 .. offered'), records : Nat]
        <3> DEFINE A == 1 .. offered
                   B == 1 .. offered'
        <3>1. seg \in [open : BOOLEAN, buf : SUBSET A, records : Nat] /\ A \subseteq B
            BY <2>2 DEF Buffered
        <3> HIDE DEF A, B
        <3>2. seg \in [open : BOOLEAN, buf : SUBSET B, records : Nat]
            BY <3>1
        <3> QED
            BY <3>2 DEF B
    <2>4. seg' = seg
        BY <1>3 DEF CloseFails
    <2> QED
        BY <2>1, <2>2, <2>3, <2>4 DEF Buffered
<1>4. ASSUME NEW p \in Proc, CloseName(p)
      PROVE  Buffered'
    <2>1. CASE p = "agent"
        <3>1. seg' = NoSeg /\ offered' = offered /\ pc'["agent"] = "move"
            BY <1>0, <1>4, <2>1 DEF CloseName, At, Go, Forget, history
        <3> QED
            BY <1>e, <3>1 DEF Buffered
    <2>2. CASE p = "cli"
        <3>1. UNCHANGED <<seg, offered>> /\ pc'["agent"] = pc["agent"]
            BY <1>4, <2>2 DEF CloseName, Go, Forget, history
        <3> QED
            BY <3>1 DEF Buffered
    <2> QED
        BY <2>1, <2>2
<1>5. CASE FlushWrite
    <2>1. /\ seg' = [seg EXCEPT !.buf = {}] /\ offered' = offered
        BY <1>5 DEF FlushWrite, history
    <2> QED
        BY <1>e, <2>1 DEF Buffered
<1>6. ASSUME NEW o \in {"flush", "append", "export"}, Begin(o)
      PROVE  Buffered'
    <2>1. UNCHANGED <<seg, offered>> /\ pc'["agent"] = IF seg.buf # {} THEN "flush" ELSE "name"
        BY <1>0, <1>6 DEF Begin, Go, history
    <2> QED
        BY <2>1 DEF Buffered
<1>7. CASE FlushOpen \/ Start \/ Killed \/ Tick \/ BeginEmpty \/ UNCHANGED sharedVars
    <2>1. /\ UNCHANGED <<seg, offered>>
          /\ pc'["agent"] \in {pc["agent"], "write", "list"}
        BY <1>0, <1>7 DEF FlushOpen, Start, Killed, Tick, BeginEmpty, sharedVars, Go, history
    <2> QED
        BY <2>1 DEF Buffered
<1>8. ASSUME NEW p \in Proc, CloseMove(p)
      PROVE  Buffered'
    <2>1. /\ UNCHANGED <<seg, offered>> /\ pc[p] = "move"
          /\ pc'["agent"] = (IF p = "agent" THEN "sidecar" ELSE pc["agent"])
        BY <1>0, <1>8 DEF CloseMove, At, Go, history
    <2> QED
        BY <2>1 DEF Buffered
<1>9. ASSUME NEW p \in Proc,
             List(p) \/ OpenTmp(p) \/ Encrypt(p) \/ WriteTar(p) \/ Rename(p) \/ RemoveClosed(p)
      PROVE  Buffered'
    <2>1. p = "cli"
        BY <1>9, ExportIsManual
    <2>2. UNCHANGED <<seg, offered>> /\ pc'["agent"] = pc["agent"]
        BY <1>9, ExportPlaces DEF history
    <2> QED
        BY <2>2 DEF Buffered
<1> QED
    BY <1>1, <1>2, <1>3, <1>4, <1>5, <1>6, <1>7, <1>8, <1>9 DEF SharedNext, Step

LEMMA FiledIsFinal ==
    ASSUME Roles, Filed
    PROVE  FinalInv /\ FilesOK /\ Len(files) \in Nat
<1>1. FilesOK /\ Len(files) \in Nat
    BY DEF Filed, FilesOK
<1> QED
    BY <1>1 DEF Roles, Filed, FinalInv, Distinct, Segments

LEMMA FiledSame ==
    ASSUME Filed, UNCHANGED <<files, actv>>, closed' \subseteq closed,
           \A p \in Proc : pc'[p] \in {"write", "move"} => pc[p] = pc'[p] /\ at'[p] = at[p]
    PROVE  Filed'
<1>1. Distinct'
    BY DEF Filed, Distinct, Segments
<1>2. \A n : Taken(n)' => Taken(n)
    BY DEF Taken
<1>3. \A p \in Proc : pc'[p] = "move" => at'[p] \in 0 .. MaxFiles /\ ~Taken(at[p])'
    <2> SUFFICES ASSUME NEW p \in Proc, pc'[p] = "move"
                 PROVE  at'[p] \in 0 .. MaxFiles /\ ~\E f \in closed' : f.name = at'[p]
        BY DEF Taken
    <2> QED
        BY DEF Filed, Taken
<1>4. pc'["agent"] = "write" => at'["agent"] = actv' /\ actv' # 0
    BY DEF Filed, Proc
<1> QED
    BY <1>1, <1>3, <1>4 DEF Filed, Taken

LEMMA FiledNext ==
    ASSUME Alone, Roles, Buffered, Filed, [SharedNext]_sharedVars
    PROVE  Filed'
<1> USE DEF Proc
<1>0. /\ DOMAIN pc = {"agent", "cli"} /\ DOMAIN at = {"agent", "cli"}
      /\ Len(files) \in Nat /\ MaxFiles \in Nat /\ FilesOK /\ FinalInv
    BY SharedAssumption, FiledIsFinal DEF Roles, Places
<1>1. CASE AppendRecord \/ Tick \/ UNCHANGED sharedVars
    <2>1. UNCHANGED <<files, actv, closed, pc, at>>
        BY <1>1 DEF AppendRecord, Tick, sharedVars, spool, local
    <2> QED
        BY <2>1, FiledSame
<1>2. ASSUME NEW o \in {"flush", "append", "export"}, Begin(o)
      PROVE  Filed'
    <2>1. UNCHANGED <<files, actv, closed, at>>
          /\ pc' = [pc EXCEPT !["agent"] = IF seg.buf # {} THEN "flush" ELSE "name"]
        BY <1>2 DEF Begin, Go, spool, local
    <2> QED
        BY <1>0, <2>1, FiledSame
<1>3. CASE BeginEmpty \/ Start \/ Killed
    <2>1. /\ UNCHANGED <<files, actv, closed, at>>
          /\ \E p \in Proc : \E where \in {"idle", "list", "name"} : pc' = [pc EXCEPT ![p] = where]
        BY <1>3 DEF BeginEmpty, Start, Killed, Go, spool, local
    <2> QED
        BY <1>0, <2>1, FiledSame
<1>4. ASSUME NEW p \in Proc, CloseFails(p) \/ Sidecar(p)
      PROVE  Filed'
    <2>1. /\ UNCHANGED <<files, actv, closed, at>>
          /\ \E where \in {"idle", "list"} : pc' = [pc EXCEPT ![p] = where]
        BY <1>4 DEF CloseFails, Sidecar, Go, spool, local
    <2> QED
        BY <1>0, <2>1, FiledSame
<1>5. ASSUME NEW p \in Proc,
             List(p) \/ OpenTmp(p) \/ Encrypt(p) \/ WriteTar(p) \/ Rename(p) \/ RemoveClosed(p)
      PROVE  Filed'
    <2>1. p = "cli" /\ pc["cli"] \notin {"write", "move"}
        BY <1>5, ExportIsManual
    <2>2. UNCHANGED <<files, actv>> /\ closed' \subseteq closed /\ at'["agent"] = at["agent"]
        BY <1>0, <1>5, <2>1 DEF List, OpenTmp, Encrypt, WriteTar, Rename, RemoveClosed, spool, local
    <2>3. pc' = pc \/ \E where \in {"idle", "tmp", "encrypt", "rename", "remove"} :
                         pc' = [pc EXCEPT !["cli"] = where]
        BY <1>5, ExportPlaces
    <2> QED
        BY <1>0, <2>1, <2>2, <2>3, FiledSame
<1>6. ASSUME NEW p \in Proc, CloseName(p)
      PROVE  Filed'
    <2>1. /\ UNCHANGED <<files, actv, closed>> /\ pc' = [pc EXCEPT ![p] = "move"]
          /\ at' = [at EXCEPT ![p] = FreeName] /\ pc[Other(p)] \notin {"write", "move"}
          /\ pc[p] = "name"
        BY <1>6, AtAlone DEF CloseName, Go, spool
    <2>2. FreeName \in 0 .. MaxFiles /\ ~Taken(FreeName)
        BY <1>0, NameIsFree DEF Filed
    <2>3. \A q \in Proc : q # p => q = Other(p)
        BY DEF Other
    <2>4. pc'["agent"] # "write"
        BY <1>0, <2>1, <2>3
    <2>5. \A q \in Proc : pc'[q] = "move" => at'[q] \in 0 .. MaxFiles /\ ~Taken(at'[q])
        BY <1>0, <2>1, <2>2, <2>3
    <2>6. \A n : Taken(n)' = Taken(n)
        BY <2>1 DEF Taken
    <2> HIDE DEF Proc
    <2> QED
        BY <2>1, <2>4, <2>5, <2>6 DEF Filed, Distinct, Segments, Taken
<1>7. ASSUME NEW p \in Proc, CloseMove(p)
      PROVE  Filed'
    <2>1. /\ files' = files /\ actv' = 0 /\ actv # 0 /\ at' = at
          /\ pc[p] = "move" /\ pc' = [pc EXCEPT ![p] = "sidecar"]
          /\ pc[Other(p)] \notin {"write", "move"}
          /\ closed' = {f \in closed : f.name # at[p]} \cup {[name |-> at[p], ino |-> actv]}
        BY <1>7, AtAlone DEF CloseMove, Go, local
    <2>2. at[p] \in 0 .. MaxFiles /\ ~Taken(at[p]) /\ actv \in 1 .. Len(files)
        BY <1>0, <2>1 DEF Filed
    <2>3. Distinct'
        <3> DEFINE g == [name |-> at[p], ino |-> actv]
        <3>1. closed' \subseteq closed \cup {g} /\ g \in Segments /\ g.name = at[p] /\ g.ino = actv
            BY <2>1, <2>2 DEF Segments
        <3>2. \A f \in closed : f.name # at[p] /\ f.ino # actv
            BY <2>2 DEF Taken, Filed
        <3> HIDE DEF g
        <3>3. closed' \subseteq Segments
            BY <3>1 DEF Filed, Distinct
        <3>4. \A f, h \in closed' : f.name = h.name \/ f.ino = h.ino => f = h
            BY <3>1, <3>2 DEF Filed, Distinct
        <3> QED
            BY <2>1, <3>3, <3>4 DEF Distinct, Segments
    <2>4. \A q \in Proc : q # p => q = Other(p)
        BY DEF Other
    <2>5. \A q \in Proc : pc'[q] \notin {"write", "move"}
        BY <1>0, <2>1, <2>4
    <2>6. \A f \in closed' : f.ino # 0
        BY <2>3, <2>1, <1>0 DEF Distinct, Segments
    <2> QED
        BY <1>0, <2>1, <2>3, <2>5, <2>6 DEF Filed
<1>8. CASE FlushOpen
    <2>1. /\ closed' = closed /\ at' = [at EXCEPT !["agent"] = actv']
          /\ pc' = [pc EXCEPT !["agent"] = "write"] /\ pc["cli"] # "move"
          /\ files' = IF actv = 0 THEN Append(files, {}) ELSE files
          /\ actv' = IF actv = 0 THEN Len(files) + 1 ELSE actv
          /\ actv = 0 => Len(files) < MaxFiles
        BY <1>8, AtAlone DEF FlushOpen, Go, Other
    <2>2. files' \in Seq(SUBSET (1 .. MaxRecs)) /\ Len(files') <= MaxFiles
          /\ Len(files') \in Nat /\ Len(files) <= Len(files')
          /\ actv' \in 1 .. Len(files')
          /\ \A f \in closed : f.ino # actv'
        <3>1. CASE actv = 0
            BY <1>0, <2>1, <3>1 DEF Filed, Distinct, Segments
        <3>2. CASE actv # 0
            BY <1>0, <2>1, <3>2 DEF Filed
        <3> QED
            BY <3>1, <3>2
    <2>3. Distinct'
        BY <1>0, <2>1, <2>2 DEF Filed, Distinct, Segments
    <2>4. pc'["agent"] = "write" /\ pc'["cli"] # "move" /\ at'["agent"] = actv'
        BY <1>0, <2>1
    <2> QED
        BY <2>1, <2>2, <2>3, <2>4 DEF Filed
<1>9. CASE FlushWrite
    <2>1. /\ UNCHANGED <<closed, actv, at>> /\ pc["cli"] # "move" /\ pc["agent"] = "write"
          /\ files' = [files EXCEPT ![at["agent"]] = files[at["agent"]] \cup seg.buf]
          /\ pc' = [pc EXCEPT !["agent"] = IF op["agent"] = "flush" THEN "idle" ELSE "name"]
        BY <1>9, AtAlone DEF FlushWrite, Go, Other, local
    <2>2. at["agent"] = actv /\ actv \in 1 .. Len(files)
        BY <1>0, <2>1 DEF Filed
    <2>3. seg.buf \subseteq 1 .. MaxRecs
        BY SharedAssumption DEF Buffered
    <2>4. files' \in Seq(SUBSET (1 .. MaxRecs)) /\ Len(files') = Len(files)
        BY <2>1, <2>2, <2>3 DEF Filed
    <2>5. pc'["agent"] \notin {"write", "move"} /\ pc'["cli"] # "move"
        BY <1>0, <2>1
    <2>6. Distinct'
        BY <2>1, <2>4 DEF Filed, Distinct, Segments
    <2> QED
        BY <2>1, <2>4, <2>5, <2>6 DEF Filed
<1> QED
    BY <1>1, <1>2, <1>3, <1>4, <1>5, <1>6, <1>7, <1>8, <1>9 DEF SharedNext, Step

\* What a name in closed/ stands for, as long as nothing is removed.
Keeps ==
    \A n : Taken(n) => /\ Taken(n)'
                       /\ \A f \in closed' : f.name = n => f \in closed /\ files'[f.ino] = files[f.ino]

LEMMA KeepsNext ==
    ASSUME Alone, Roles, Buffered, Filed, [SharedNext]_sharedVars, ~RemoveClosed("cli")
    PROVE  Keeps
<1>1. FinalInv /\ \A f \in closed : files'[f.ino] = files[f.ino]
    <2>1. FinalInv /\ "flush" \notin Windows
        BY FiledIsFinal DEF Alone
    <2>2. \A i \in DOMAIN files : (\E f \in closed : f.ino = i) => files'[i] = files[i]
        BY <2>1, FinalNext
    <2>3. \A f \in closed : f.ino \in DOMAIN files
        BY FiledIsFinal DEF Filed, Distinct, Segments
    <2> QED
        BY <2>1, <2>2, <2>3
<1>2. ASSUME closed' = closed PROVE Keeps
    BY <1>1, <1>2 DEF Keeps, Taken
<1>3. ASSUME NEW p \in Proc, CloseMove(p) PROVE Keeps
    <2>1. /\ closed' = {f \in closed : f.name # at[p]} \cup {[name |-> at[p], ino |-> actv]}
          /\ ~Taken(at[p])
        BY <1>3, AtAlone DEF CloseMove, Filed
    <2>2. closed' = closed \cup {[name |-> at[p], ino |-> actv]}
        BY <2>1 DEF Taken
    <2> QED
        BY <1>1, <2>1, <2>2 DEF Keeps, Taken
<1>4. ASSUME NEW p \in Proc, RemoveClosed(p) PROVE FALSE
    BY <1>4, ExportIsManual
<1>5. CASE AppendRecord \/ (\E o \in {"flush", "append", "export"} : Begin(o)) \/ BeginEmpty
           \/ FlushOpen \/ FlushWrite \/ Start \/ Killed \/ Tick \/ UNCHANGED sharedVars
    BY <1>2, <1>5 DEF AppendRecord, Begin, BeginEmpty, FlushOpen, FlushWrite, Start, Killed, Tick,
                      sharedVars, spool
<1>6. ASSUME NEW p \in Proc, CloseName(p) \/ CloseFails(p) \/ Sidecar(p)
      PROVE  Keeps
    BY <1>2, <1>6 DEF CloseName, CloseFails, Sidecar, spool
<1>7. ASSUME NEW p \in Proc,
             List(p) \/ OpenTmp(p) \/ Encrypt(p) \/ WriteTar(p) \/ Rename(p)
      PROVE  Keeps
    BY <1>2, <1>7 DEF List, OpenTmp, Encrypt, WriteTar, Rename, spool
<1> QED
    BY <1>3, <1>4, <1>5, <1>6, <1>7 DEF SharedNext, Step

LEMMA ReadKept ==
    ASSUME Keeps, got'["cli"] = got["cli"], NEW n, Taken(n), Read(n)
    PROVE  Read(n)'
BY DEF Keeps, Read

LEMMA ShippingSame ==
    ASSUME Shipping, Keeps, UNCHANGED <<list, todo, got, sec, tmp, urab, outs>>,
           \/ (pc'["cli"] = pc["cli"] /\ at'["cli"] = at["cli"])
           \/ pc'["cli"] \in {"idle", "name", "move", "sidecar", "list"}
    PROVE  Shipping'
<1>1. \A n : Taken(n) => Taken(n)'
    BY DEF Keeps
<1>2. \A n : Taken(n) /\ Read(n) => Read(n)'
    BY ReadKept
<1>3. CASE pc'["cli"] \in {"idle", "name", "move", "sidecar", "list"}
    BY <1>3 DEF Shipping
<1>4. CASE pc'["cli"] = pc["cli"] /\ at'["cli"] = at["cli"]
    <2>1. CASE pc["cli"] = "tmp"
        BY <1>1, <1>4, <2>1 DEF Shipping
    <2>2. CASE pc["cli"] = "encrypt"
        BY <1>1, <1>2, <1>4, <2>2 DEF Shipping
    <2>3. CASE pc["cli"] = "rename"
        BY <1>1, <1>2, <1>4, <2>3 DEF Shipping
    <2>4. CASE pc["cli"] = "remove"
        BY <1>1, <1>2, <1>4, <2>4 DEF Shipping
    <2>5. CASE pc["cli"] \notin {"tmp", "encrypt", "rename", "remove"}
        BY <1>4, <2>5 DEF Shipping
    <2> QED
        BY <2>1, <2>2, <2>3, <2>4, <2>5
<1> QED
    BY <1>3, <1>4

LEMMA FinishedSame ==
    ASSUME Finished, UNCHANGED <<tmp, urab, outs>>, now' \in {now, now + 1}
    PROVE  Finished'
<1>1. now' \in Nat \ {0}
    BY DEF Finished
<1>2. PICK X : outs \in Seq(X)
    BY DEF Finished
<1>3. outs' \in Seq(X)
    BY <1>2
<1> QED
    BY <1>1, <1>3 DEF Finished

\* The steps that are not the export's.
LEMMA OutsideShips ==
    ASSUME Alone, Roles, Buffered, Filed, Finished, Shipping, SharedNext \/ UNCHANGED sharedVars,
           ~List("cli"), ~OpenTmp("cli"), ~Encrypt("cli"), ~WriteTar("cli"), ~Rename("cli"),
           ~RemoveClosed("cli")
    PROVE  Finished' /\ Shipping'
<1> USE DEF Proc
<1>0. DOMAIN pc = {"agent", "cli"} /\ DOMAIN at = {"agent", "cli"} /\ Keeps
    BY KeepsNext DEF Roles, Places
<1>1. ASSUME UNCHANGED <<list, todo, got, sec, tmp, urab, outs>>, now' \in {now, now + 1},
             \/ (pc'["cli"] = pc["cli"] /\ at'["cli"] = at["cli"])
             \/ pc'["cli"] \in {"idle", "name", "move", "sidecar", "list"}
      PROVE  Finished' /\ Shipping'
    BY <1>0, <1>1, ShippingSame, FinishedSame
<1>2. CASE AppendRecord \/ (\E o \in {"flush", "append", "export"} : Begin(o)) \/ BeginEmpty
           \/ FlushOpen \/ FlushWrite
    <2>1. UNCHANGED <<list, todo, got, sec, tmp, urab, outs, now>>
        BY <1>2 DEF AppendRecord, Begin, BeginEmpty, FlushOpen, FlushWrite, local, export
    <2>2. pc'["cli"] = pc["cli"] /\ at'["cli"] = at["cli"]
        BY <1>0, <1>2 DEF AppendRecord, Begin, BeginEmpty, FlushOpen, FlushWrite, local, Go
    <2> QED
        BY <1>1, <2>1, <2>2
<1>3. CASE Start \/ Killed \/ Tick \/ UNCHANGED sharedVars
    <2>1. UNCHANGED <<list, todo, got, sec, tmp, urab, outs>> /\ now' \in {now, now + 1}
        BY <1>3 DEF Start, Killed, Tick, sharedVars, local, export
    <2>2. \/ pc'["cli"] = pc["cli"] /\ at'["cli"] = at["cli"]
          \/ pc'["cli"] \in {"idle", "name", "list"}
        BY <1>0, <1>3 DEF Start, Killed, Tick, sharedVars, local, Go
    <2> QED
        BY <1>1, <2>1, <2>2
<1>4. ASSUME NEW p \in Proc, CloseName(p) \/ CloseFails(p) \/ CloseMove(p) \/ Sidecar(p)
      PROVE  Finished' /\ Shipping'
    <2>1. UNCHANGED <<list, todo, got, sec, tmp, urab, outs, now>>
        BY <1>4 DEF CloseName, CloseFails, CloseMove, Sidecar, local, export
    <2>2. \/ pc'["cli"] = pc["cli"] /\ at'["cli"] = at["cli"]
          \/ pc'["cli"] \in {"idle", "name", "move", "sidecar", "list"}
        <3>1. CASE CloseName(p)
            BY <1>0, <3>1 DEF CloseName, Go
        <3>2. CASE CloseFails(p) \/ CloseMove(p) \/ Sidecar(p)
            <4>1. at' = at /\ \E where \in {"idle", "sidecar", "list"} : pc' = [pc EXCEPT ![p] = where]
                BY <3>2 DEF CloseFails, CloseMove, Sidecar, local, Go
            <4> QED
                BY <1>0, <4>1
        <3> QED
            BY <1>4, <3>1, <3>2
    <2> QED
        BY <1>1, <2>1, <2>2
<1>5. ASSUME NEW p \in Proc,
             List(p) \/ OpenTmp(p) \/ Encrypt(p) \/ WriteTar(p) \/ Rename(p) \/ RemoveClosed(p)
      PROVE  FALSE
    BY <1>5, ExportIsManual
<1> QED
    BY <1>2, <1>3, <1>4, <1>5 DEF SharedNext, Step

LEMMA ListShips ==
    ASSUME Roles, Filed, Finished, Shipping, List("cli")
    PROVE  Finished' /\ Shipping'
<1> USE DEF Proc
<1>1. /\ UNCHANGED <<closed, files, tmp, urab, outs, now, sec>>
      /\ list' = [list EXCEPT !["cli"] = ListClosed] /\ todo' = [todo EXCEPT !["cli"] = ListClosed]
      /\ got' = [got EXCEPT !["cli"] = {}]
      /\ pc' = [pc EXCEPT !["cli"] = IF ListClosed = {} THEN "idle" ELSE "tmp"]
    BY DEF List, Go, spool, export
<1>2. \A m \in ListClosed : Taken(m.name)
    BY DEF ListClosed
<1>3. pc'["cli"] \in {"idle", "tmp"} /\ list'["cli"] = ListClosed /\ todo'["cli"] = ListClosed
    BY <1>1 DEF Roles, Places, Shipping
<1>4. \A n : Taken(n)' = Taken(n)
    BY <1>1 DEF Taken
<1>5. DOMAIN list' = Proc /\ DOMAIN todo' = Proc /\ DOMAIN got' = Proc /\ DOMAIN sec' = Proc
    BY <1>1 DEF Shipping
<1>6. Shipping'
    BY <1>2, <1>3, <1>4, <1>5 DEF Shipping
<1> QED
    BY <1>1, <1>6, FinishedSame

LEMMA OpenTmpShips ==
    ASSUME Alone, Roles, Filed, Finished, Shipping, OpenTmp("cli")
    PROVE  Finished' /\ Shipping'
           /\ \A s \in 1 .. MaxSec : urab[s] # 0 => outs'[urab[s]] = outs[urab[s]]
<1> USE DEF Proc
<1>1. /\ pc["cli"] = "tmp" /\ now <= MaxSec /\ urab[now] = 0
      /\ UNCHANGED <<closed, files, urab, now, list, todo, got>>
      /\ sec' = [sec EXCEPT !["cli"] = now]
      /\ outs' = IF tmp[now] = 0 THEN Append(outs, {}) ELSE [outs EXCEPT ![tmp[now]] = {}]
      /\ tmp' = [tmp EXCEPT ![now] = IF tmp[now] = 0 THEN Len(outs) + 1 ELSE tmp[now]]
      /\ at' = [at EXCEPT !["cli"] = tmp'[now]] /\ pc' = [pc EXCEPT !["cli"] = "encrypt"]
    BY DEF OpenTmp, At, Alone, Go, spool, Truncated
<1>2. /\ now \in 1 .. MaxSec /\ DOMAIN tmp = 1 .. MaxSec
      /\ DOMAIN pc = Proc /\ DOMAIN at = Proc /\ DOMAIN sec = Proc
    BY <1>1, SharedAssumption DEF Finished, Shipping, Roles, Places
<1>3. PICK X : outs \in Seq(X)
    BY DEF Finished
<1> DEFINE Y == X \cup {{}}
<1>4. outs \in Seq(Y) /\ Len(outs) \in Nat /\ {} \in Y
    BY <1>3
<1> HIDE DEF Y
<1> DEFINE i == tmp'[now]
<1>5. /\ i = (IF tmp[now] = 0 THEN Len(outs) + 1 ELSE tmp[now])
      /\ tmp[now] \in 0 .. Len(outs)
      /\ \A s \in 1 .. MaxSec : s # now => tmp'[s] = tmp[s]
    BY <1>1, <1>2 DEF Finished
<1>6. /\ i \in 1 .. Len(outs') /\ outs' \in Seq(Y) /\ outs'[i] = {}
      /\ Len(outs') \in Nat /\ Len(outs) <= Len(outs')
      /\ \A j \in 1 .. Len(outs) : j # i => outs'[j] = outs[j]
      /\ \A s \in 1 .. MaxSec : urab[s] # i /\ (s # now => tmp[s] # i)
    <2>1. CASE tmp[now] = 0
        <3>1. i = Len(outs) + 1 /\ outs' = Append(outs, {})
            BY <1>1, <1>5, <2>1
        <3>2. /\ outs' \in Seq(Y) /\ Len(outs') = Len(outs) + 1 /\ outs'[Len(outs) + 1] = {}
              /\ \A j \in 1 .. Len(outs) : outs'[j] = outs[j]
            BY <1>4, <3>1
        <3>3. \A s \in 1 .. MaxSec : urab[s] \in 0 .. Len(outs) /\ tmp[s] \in 0 .. Len(outs)
            BY DEF Finished
        <3> HIDE DEF i
        <3> QED
            BY <1>4, <3>1, <3>2, <3>3
    <2>2. CASE tmp[now] # 0
        <3>1. i = tmp[now] /\ outs' = [outs EXCEPT ![i] = {}] /\ i \in 1 .. Len(outs)
            BY <1>1, <1>4, <1>5, <2>2
        <3>2. \A s \in 1 .. MaxSec : urab[s] # i /\ (s # now => tmp[s] # i)
            BY <1>2, <2>2, <3>1 DEF Finished
        <3> HIDE DEF i
        <3>3. /\ outs' \in Seq(Y) /\ Len(outs') = Len(outs) /\ outs'[i] = {}
              /\ \A j \in 1 .. Len(outs) : j # i => outs'[j] = outs[j]
            BY <1>4, <3>1
        <3> QED
            BY <1>4, <3>1, <3>2, <3>3
    <2> QED
        BY <2>1, <2>2
<1> HIDE DEF i
<1>7. \A s \in 1 .. MaxSec : tmp'[s] = IF s = now THEN i ELSE tmp[s]
    BY <1>5 DEF i
<1>8. \A s \in 1 .. MaxSec : urab[s] # 0 => outs'[urab[s]] = outs[urab[s]]
    BY <1>6 DEF Finished
<1>9. Finished'
    <2>1. /\ tmp' \in [1 .. MaxSec -> 0 .. Len(outs')]
          /\ urab' \in [1 .. MaxSec -> 0 .. Len(outs')]
        <3>1. (0 .. Len(outs)) \subseteq (0 .. Len(outs')) /\ i \in 0 .. Len(outs')
            BY <1>4, <1>6
        <3>2. tmp' = [s \in 1 .. MaxSec |-> IF s = now THEN i ELSE tmp[s]]
            BY <1>1, <1>2, <1>5, <1>7 DEF i, Finished
        <3> QED
            BY <1>1, <3>1, <3>2 DEF Finished
    <2>2. \A s, t \in 1 .. MaxSec : tmp'[s] # 0 => urab'[t] # tmp'[s] /\ (tmp'[t] = tmp'[s] => s = t)
        BY <1>1, <1>6, <1>7 DEF Finished
    <2>3. \A s \in 1 .. MaxSec : urab'[s] # 0 => \E w : outs'[urab'[s]] = {w}
        <3> SUFFICES ASSUME NEW s \in 1 .. MaxSec, urab[s] # 0
                     PROVE  \E w : outs'[urab[s]] = {w}
            BY <1>1
        <3>1. \E w : outs[urab[s]] = {w}
            BY DEF Finished
        <3> QED
            BY <1>8, <3>1
    <2>4. now' \in Nat \ {0}
        BY <1>1 DEF Finished
    <2> QED
        BY <1>6, <2>1, <2>2, <2>3, <2>4 DEF Finished
<1>10. Shipping'
    <2>1. /\ pc'["cli"] = "encrypt" /\ sec'["cli"] = now /\ at'["cli"] = i
        BY <1>1, <1>2 DEF i
    <2>2. \A n : Taken(n)' = Taken(n)
        BY <1>1 DEF Taken
    <2>3. todo'["cli"] = list'["cli"] /\ \A m \in list'["cli"] : Taken(m.name)
        BY <1>1 DEF Shipping
    <2>4. tmp'[now] = i /\ i # 0 /\ urab'[now] = 0 /\ outs'[i] = {}
        BY <1>1, <1>6 DEF i
    <2>5. DOMAIN list' = Proc /\ DOMAIN todo' = Proc /\ DOMAIN got' = Proc /\ DOMAIN sec' = Proc
        BY <1>1 DEF Shipping
    <2> QED
        BY <1>2, <2>1, <2>2, <2>3, <2>4, <2>5 DEF Shipping
<1> QED
    BY <1>8, <1>9, <1>10

LEMMA EncryptShips ==
    ASSUME Roles, Filed, Finished, Shipping, Encrypt("cli")
    PROVE  Finished' /\ Shipping'
<1> USE DEF Proc
<1> PICK m : m = Next1(todo["cli"])
    OBVIOUS
<1> DEFINE data == {f \in closed : f.name = m.name}
           more == {[count |-> m.count, recs |-> files[f.ino]] : f \in data}
<1>1. /\ pc["cli"] = "encrypt" /\ todo["cli"] # {}
      /\ UNCHANGED <<closed, files, urab, outs, now, list, at, sec>>
    BY DEF Encrypt, At, spool
<1>2. m \in todo["cli"] /\ m \in list["cli"] /\ Taken(m.name)
    <2>1. \A x \in todo["cli"] : Taken(x.name)
        BY <1>1 DEF Shipping
    <2>2. \A x \in todo["cli"] : x.name \in Nat
        BY <2>1, SharedAssumption DEF Taken, Filed, Distinct, Segments
    <2> QED
        BY <1>1, <2>1, <2>2, NextIsOne DEF Shipping
<1>3. data # {}
    BY <1>2 DEF Taken
<1>4. /\ got' = [got EXCEPT !["cli"] = got["cli"] \cup more]
      /\ todo' = [todo EXCEPT !["cli"] = todo["cli"] \ {m}]
      /\ pc' = pc /\ tmp' = tmp
    BY <1>3 DEF Encrypt
<1>5. got'["cli"] = got["cli"] \cup more /\ todo'["cli"] = todo["cli"] \ {m}
    BY <1>4 DEF Shipping
<1>6. Read(m.name)'
    <2> SUFFICES ASSUME NEW f \in closed, f.name = m.name
                 PROVE  \E x \in got'["cli"] : files[f.ino] \subseteq x.recs
        BY <1>1 DEF Read
    <2>1. [count |-> m.count, recs |-> files[f.ino]] \in more
        OBVIOUS
    <2>2. [count |-> m.count, recs |-> files[f.ino]] \in got'["cli"]
        BY <1>5, <2>1
    <2> QED
        BY <2>2
<1>7. \A n : Read(n) => Read(n)'
    BY <1>1, <1>5 DEF Read
<1>8. \A n : Taken(n)' = Taken(n)
    BY <1>1 DEF Taken
<1> HIDE DEF data, more
<1>9. \A x \in list["cli"] \ todo'["cli"] : Read(x.name)'
    <2>1. \A x \in list["cli"] \ todo["cli"] : Read(x.name)
        BY <1>1 DEF Shipping
    <2> QED
        BY <1>5, <1>6, <1>7, <2>1
<1>10. DOMAIN list' = Proc /\ DOMAIN todo' = Proc /\ DOMAIN got' = Proc /\ DOMAIN sec' = Proc
    BY <1>1, <1>4 DEF Shipping
<1>11. Shipping'
    BY <1>1, <1>4, <1>5, <1>8, <1>9, <1>10 DEF Shipping
<1> QED
    BY <1>1, <1>4, <1>11, FinishedSame

LEMMA WriteTarShips ==
    ASSUME Roles, Filed, Finished, Shipping, WriteTar("cli")
    PROVE  Finished' /\ Shipping'
           /\ \A s \in 1 .. MaxSec : urab[s] # 0 => outs'[urab[s]] = outs[urab[s]]
<1> USE DEF Proc
<1> DEFINE i == at["cli"]
           w == [by |-> "cli", segs |-> got["cli"]]
<1>1. /\ pc["cli"] = "encrypt" /\ todo["cli"] = {}
      /\ UNCHANGED <<closed, files, urab, tmp, now, list, todo, got, sec, at>>
      /\ outs' = [outs EXCEPT ![i] = outs[i] \cup {w}]
      /\ pc' = [pc EXCEPT !["cli"] = "rename"]
    BY DEF WriteTar, At, Fill, Go, spool, local
<1>2. /\ tmp[sec["cli"]] = i /\ i # 0 /\ urab[sec["cli"]] = 0 /\ outs[i] = {}
      /\ sec["cli"] \in 1 .. MaxSec
      /\ \A m \in list["cli"] : Read(m.name)
    BY <1>1 DEF Shipping
<1>3. PICK X : outs \in Seq(X)
    BY DEF Finished
<1>4. i \in 1 .. Len(outs) /\ Len(outs) \in Nat
    BY <1>2, <1>3 DEF Finished
<1> DEFINE Y == X \cup {{w}}
<1>5. outs \in Seq(Y) /\ {w} \in Y
    BY <1>3
<1> HIDE DEF Y, w, i
<1>6. outs' = [outs EXCEPT ![i] = {w}]
    BY <1>1, <1>2
<1>7. /\ outs' \in Seq(Y) /\ Len(outs') = Len(outs) /\ outs'[i] = {w}
      /\ \A j \in 1 .. Len(outs) : j # i => outs'[j] = outs[j]
    BY <1>4, <1>5, <1>6
<1>8. \A s \in 1 .. MaxSec : urab[s] # 0 => outs'[urab[s]] = outs[urab[s]]
    <2>1. \A s \in 1 .. MaxSec : urab[s] # i /\ urab[s] \in 0 .. Len(outs)
        BY <1>2 DEF Finished
    <2> QED
        BY <1>4, <1>7, <2>1
<1>9. Finished'
    <2>1. \A s \in 1 .. MaxSec : urab'[s] # 0 => \E v : outs'[urab'[s]] = {v}
        <3> SUFFICES ASSUME NEW s \in 1 .. MaxSec, urab[s] # 0
                     PROVE  \E v : outs'[urab[s]] = {v}
            BY <1>1
        <3>1. \E v : outs[urab[s]] = {v}
            BY DEF Finished
        <3> QED
            BY <1>8, <3>1
    <2>2. \E Z : outs' \in Seq(Z)
        BY <1>7
    <2> QED
        BY <1>1, <1>7, <2>1, <2>2 DEF Finished
<1>10. Shipping'
    <2>1. pc'["cli"] = "rename" /\ \A n : Taken(n)' = Taken(n)
        BY <1>1 DEF Roles, Places, Taken
    <2>2. \A m \in list["cli"] : Taken(m.name)
        BY <1>1 DEF Shipping
    <2>3. \A n : Read(n)' = Read(n)
        BY <1>1 DEF Read
    <2>4. outs'[at'["cli"]] = {[by |-> "cli", segs |-> got'["cli"]]}
        BY <1>1, <1>7 DEF w, i
    <2>5. /\ tmp'[sec'["cli"]] = at'["cli"] /\ at'["cli"] # 0 /\ urab'[sec'["cli"]] = 0
          /\ sec'["cli"] \in 1 .. MaxSec
        BY <1>1, <1>2 DEF i
    <2>6. \A m \in list'["cli"] : Read(m.name)' /\ Taken(m.name)'
        BY <1>1, <1>2, <2>1, <2>2, <2>3
    <2>7. todo'["cli"] \subseteq list'["cli"]
          /\ DOMAIN list' = Proc /\ DOMAIN todo' = Proc /\ DOMAIN got' = Proc /\ DOMAIN sec' = Proc
        BY <1>1 DEF Shipping
    <2> QED
        BY <2>1, <2>4, <2>5, <2>6, <2>7 DEF Shipping
<1> QED
    BY <1>8, <1>9, <1>10

LEMMA RenameShips ==
    ASSUME Roles, Filed, Finished, Shipping, Rename("cli")
    PROVE  Finished' /\ Shipping'
           /\ outs' = outs /\ \A s \in 1 .. MaxSec : urab[s] # 0 => urab'[s] = urab[s]
<1> USE DEF Proc
<1> DEFINE s0 == sec["cli"]
<1>1. /\ pc["cli"] = "rename"
      /\ UNCHANGED <<closed, files, outs, now, list, got, sec, at>>
      /\ urab' = [urab EXCEPT ![s0] = IF tmp[s0] = 0 THEN urab[s0] ELSE tmp[s0]]
      /\ tmp' = [tmp EXCEPT ![s0] = 0]
      /\ todo' = [todo EXCEPT !["cli"] = list["cli"]]
      /\ \E where \in {"remove", "idle"} : pc' = [pc EXCEPT !["cli"] = where]
    BY DEF Rename, At, Go, spool
<1>2. /\ tmp[s0] = at["cli"] /\ at["cli"] # 0 /\ urab[s0] = 0
      /\ outs[at["cli"]] = {[by |-> "cli", segs |-> got["cli"]]}
      /\ s0 \in 1 .. MaxSec
      /\ \A m \in list["cli"] : Read(m.name) /\ Taken(m.name)
    BY <1>1 DEF Shipping
<1> HIDE DEF s0
<1>3. /\ tmp \in [1 .. MaxSec -> 0 .. Len(outs)] /\ urab \in [1 .. MaxSec -> 0 .. Len(outs)]
      /\ \A s, t \in 1 .. MaxSec : tmp[s] # 0 => urab[t] # tmp[s] /\ (tmp[t] = tmp[s] => s = t)
      /\ \A s \in 1 .. MaxSec : urab[s] # 0 => \E w : outs[urab[s]] = {w}
      /\ \E X : outs \in Seq(X)
    BY DEF Finished
<1>4. /\ urab' \in [1 .. MaxSec -> 0 .. Len(outs)] /\ tmp' \in [1 .. MaxSec -> 0 .. Len(outs)]
      /\ urab'[s0] = at["cli"] /\ tmp'[s0] = 0
      /\ \A s \in 1 .. MaxSec : s # s0 => urab'[s] = urab[s] /\ tmp'[s] = tmp[s]
    <2>1. 0 \in 0 .. Len(outs) /\ tmp[s0] \in 0 .. Len(outs)
        BY <1>2, <1>3
    <2> QED
        BY <1>1, <1>2, <1>3, <2>1
<1>5. Finished'
    <2>1. \A s, t \in 1 .. MaxSec : tmp'[s] # 0 => urab'[t] # tmp'[s] /\ (tmp'[t] = tmp'[s] => s = t)
        <3> SUFFICES ASSUME NEW s \in 1 .. MaxSec, NEW t \in 1 .. MaxSec, tmp'[s] # 0
                     PROVE  urab'[t] # tmp'[s] /\ (tmp'[t] = tmp'[s] => s = t)
            OBVIOUS
        <3>1. s # s0 /\ tmp'[s] = tmp[s]
            BY <1>4
        <3>2. CASE t = s0
            BY <1>2, <1>3, <1>4, <3>1, <3>2
        <3>3. CASE t # s0
            BY <1>3, <1>4, <3>1, <3>3
        <3> QED
            BY <3>2, <3>3
    <2>2. \A s \in 1 .. MaxSec : urab'[s] # 0 => \E w : outs'[urab'[s]] = {w}
        <3> SUFFICES ASSUME NEW s \in 1 .. MaxSec, urab'[s] # 0
                     PROVE  \E w : outs[urab'[s]] = {w}
            BY <1>1
        <3>1. CASE s = s0
            BY <1>2, <1>4, <3>1
        <3>2. CASE s # s0
            <4>1. urab'[s] = urab[s]
                BY <1>4, <3>2
            <4> QED
                BY <1>3, <4>1
        <3> QED
            BY <3>1, <3>2
    <2>3. now' \in Nat \ {0}
        BY <1>1 DEF Finished
    <2> QED
        BY <1>1, <1>3, <1>4, <2>1, <2>2, <2>3 DEF Finished
<1>6. Shipping'
    <2>1. pc'["cli"] \in {"remove", "idle"} /\ \A n : Taken(n)' = Taken(n)
        BY <1>1 DEF Roles, Places, Taken
    <2>2. \A n : Read(n)' = Read(n)
        BY <1>1 DEF Read
    <2>3. todo'["cli"] = list'["cli"]
          /\ DOMAIN list' = Proc /\ DOMAIN todo' = Proc /\ DOMAIN got' = Proc /\ DOMAIN sec' = Proc
        BY <1>1 DEF Shipping
    <2>4. \A m \in todo'["cli"] : Read(m.name)' /\ Taken(m.name)'
        BY <1>1, <1>2, <2>1, <2>2, <2>3
    <2>5. /\ sec'["cli"] \in 1 .. MaxSec /\ urab'[sec'["cli"]] # 0
          /\ outs'[urab'[sec'["cli"]]] = {[by |-> "cli", segs |-> got'["cli"]]}
        BY <1>1, <1>2, <1>4 DEF s0
    <2> QED
        BY <2>1, <2>3, <2>4, <2>5 DEF Shipping
<1>7. \A s \in 1 .. MaxSec : urab[s] # 0 => urab'[s] = urab[s]
    BY <1>2, <1>4
<1> QED
    BY <1>1, <1>5, <1>6, <1>7

LEMMA RemoveShips ==
    ASSUME Roles, Filed, Finished, Shipping, RemoveClosed("cli")
    PROVE  /\ Finished' /\ Shipping'
           /\ UNCHANGED <<urab, outs>>
           /\ \A f \in closed : f \in closed' \/ (todo["cli"] # {} /\ f.name = Next1(todo["cli"]).name)
<1> USE DEF Proc
<1>1. /\ pc["cli"] = "remove"
      /\ UNCHANGED <<files, tmp, urab, outs, now, list, got, sec, at>>
    BY DEF RemoveClosed, At, export
<1>2. CASE todo["cli"] = {}
    <2>1. pc' = [pc EXCEPT !["cli"] = "idle"] /\ UNCHANGED <<closed, todo>>
        BY <1>2 DEF RemoveClosed, Go
    <2>2. pc'["cli"] = "idle"
        BY <2>1 DEF Roles, Places
    <2>3. Shipping'
        BY <1>1, <2>1, <2>2 DEF Shipping
    <2> QED
        BY <1>1, <2>1, <2>3, FinishedSame
<1>3. CASE todo["cli"] # {}
    <2> PICK n : n = Next1(todo["cli"]).name
        OBVIOUS
    <2>1. /\ closed' = {f \in closed : f.name # n}
          /\ todo' = [todo EXCEPT !["cli"] = {m \in todo["cli"] : m.name # n}]
          /\ pc' = pc
        BY <1>3 DEF RemoveClosed
    <2>2. todo'["cli"] = {m \in todo["cli"] : m.name # n}
          /\ DOMAIN list' = Proc /\ DOMAIN todo' = Proc /\ DOMAIN got' = Proc /\ DOMAIN sec' = Proc
        BY <1>1, <2>1 DEF Shipping
    <2>3. \A k : k # n /\ Taken(k) => Taken(k)'
        BY <2>1 DEF Taken
    <2>4. \A k : Read(k) => Read(k)'
        BY <1>1, <2>1 DEF Read
    <2>5. \A m \in todo'["cli"] : Taken(m.name)' /\ Read(m.name)'
        BY <1>1, <2>2, <2>3, <2>4 DEF Shipping
    <2>6. Shipping'
        BY <1>1, <2>1, <2>2, <2>5 DEF Shipping
    <2>7. \A f \in closed : f \in closed' \/ f.name = n
        BY <2>1
    <2> QED
        BY <1>1, <1>3, <2>6, <2>7, FinishedSame
<1> QED
    BY <1>2, <1>3

\* Where a record can be.
InBundle(x) ==
    \E s \in 1 .. MaxSec :
        urab[s] # 0 /\ \E w \in outs[urab[s]] : \E y \in w.segs : x \in y.recs

InSpool(x) == (\E f \in closed : x \in files[f.ino]) \/ (actv # 0 /\ x \in files[actv])

Somewhere(x) == x \in seg.buf \/ InSpool(x) \/ InBundle(x)

LEMMA NothingLostIff ==
    NothingLost <=> \A x \in 1 .. offered : x \in refused \/ Somewhere(x)
<1>1. \A x : x \in UNION {Contents(b) : b \in Bundles} <=> InBundle(x)
    <2>1. \A x, b : x \in Contents(b) <=> \E w \in b : \E y \in w.segs : x \in y.recs
        BY DEF Contents
    <2>2. \A x : x \in UNION {Contents(b) : b \in Bundles} <=> \E b \in Bundles : x \in Contents(b)
        OBVIOUS
    <2>3. ASSUME NEW x
          PROVE  (\E b \in Bundles : x \in Contents(b)) <=> InBundle(x)
        <3>1. (\E b \in Bundles : x \in Contents(b)) <=>
                  \E s \in {t \in 1 .. MaxSec : urab[t] # 0} : x \in Contents(outs[urab[s]])
            BY DEF Bundles
        <3>2. \A s : x \in Contents(outs[urab[s]]) <=>
                        \E w \in outs[urab[s]] : \E y \in w.segs : x \in y.recs
            BY <2>1
        <3> QED
            BY <3>1, <3>2 DEF InBundle
    <2> QED
        BY <2>2, <2>3
<1>2. \A x : x \in Spooled <=> InSpool(x)
    <2>1. \A x : x \in UNION {files[f.ino] : f \in closed} <=> \E f \in closed : x \in files[f.ino]
        OBVIOUS
    <2>2. \A x : x \in (IF actv = 0 THEN {} ELSE files[actv]) <=> actv # 0 /\ x \in files[actv]
        OBVIOUS
    <2> DEFINE A == UNION {files[f.ino] : f \in closed}
               B == IF actv = 0 THEN {} ELSE files[actv]
    <2>3. Spooled = A \cup B
        BY DEF Spooled
    <2>4. \A x : x \in A <=> \E f \in closed : x \in files[f.ino]
        BY <2>1
    <2>5. \A x : x \in B <=> actv # 0 /\ x \in files[actv]
        BY <2>2
    <2> HIDE DEF A, B
    <2> QED
        BY <2>3, <2>4, <2>5 DEF InSpool
<1> QED
    BY <1>1, <1>2 DEF NothingLost, Somewhere

\* What is in a finished bundle stays there.
LEMMA BundlesKept ==
    ASSUME \A s \in 1 .. MaxSec : urab[s] # 0 => urab'[s] = urab[s] /\ outs'[urab[s]] = outs[urab[s]],
           NEW x, InBundle(x)
    PROVE  InBundle(x)'
BY DEF InBundle

LEMMA LostSame ==
    ASSUME NothingLost, \A x \in 1 .. offered : Somewhere(x) => Somewhere(x)',
           \A x \in 1 .. offered' : x \in 1 .. offered \/ x \in refused' \/ Somewhere(x)',
           refused \subseteq refused'
    PROVE  NothingLost'
<1>1. \A x \in 1 .. offered : x \in refused \/ Somewhere(x)
    BY NothingLostIff
<1>2. \A x \in 1 .. offered' : x \in refused' \/ Somewhere(x)'
    BY <1>1
<1>3. (\A x \in 1 .. offered : x \in refused \/ Somewhere(x))'
    BY <1>2
<1>4. NothingLost' <=> (\A x \in 1 .. offered : x \in refused \/ Somewhere(x))'
    BY NothingLostIff, PTL
<1> QED
    BY <1>3, <1>4

LEMMA NothingLostNext ==
    ASSUME Alone, Roles, Buffered, Filed, Finished, Shipping, NothingLost,
           SharedNext \/ UNCHANGED sharedVars
    PROVE  NothingLost'
<1> USE DEF Proc
<1>0. /\ DOMAIN pc = {"agent", "cli"} /\ DOMAIN at = {"agent", "cli"}
      /\ Len(files) \in Nat /\ offered \in Nat /\ op["cli"] # "append"
    BY FiledIsFinal DEF Roles, Places, Buffered
\* A step that leaves the bundles alone.
<1>1. ASSUME UNCHANGED <<urab, outs>>, refused \subseteq refused',
             \A x \in 1 .. offered' : x \in 1 .. offered \/ x \in refused' \/ x \in seg'.buf,
             \A x \in 1 .. offered : x \in seg.buf \/ InSpool(x) => x \in seg'.buf \/ InSpool(x)'
      PROVE  NothingLost'
    <2>1. \A x : InBundle(x) => InBundle(x)'
        BY <1>1 DEF InBundle
    <2> QED
        BY <1>1, <2>1, LostSame DEF Somewhere
\* A step that touches neither the records of the spool nor the buffer.
<1>2. ASSUME UNCHANGED <<files, actv, closed, seg, offered, refused>>,
             \A s \in 1 .. MaxSec : urab[s] # 0 => urab'[s] = urab[s] /\ outs'[urab[s]] = outs[urab[s]]
      PROVE  NothingLost'
    <2>1. \A x : InBundle(x) => InBundle(x)'
        BY <1>2, BundlesKept
    <2>2. \A x : InSpool(x) => InSpool(x)'
        BY <1>2 DEF InSpool
    <2> QED
        BY <1>2, <2>1, <2>2, LostSame DEF Somewhere
<1>3. CASE AppendRecord
    <2>1. /\ UNCHANGED <<files, actv, closed, urab, outs, refused>> /\ offered' = offered + 1
          /\ seg'.buf = seg.buf \cup {offered + 1}
        BY <1>3 DEF AppendRecord, Add, spool, export
    <2>2. \A x : InSpool(x) => InSpool(x)'
        BY <2>1 DEF InSpool
    <2> QED
        BY <1>0, <1>1, <2>1, <2>2
<1>4. ASSUME NEW p \in Proc, Sidecar(p)
      PROVE  NothingLost'
    <2>1. UNCHANGED <<files, actv, closed, urab, outs, refused>>
        BY <1>4 DEF Sidecar, export
    <2>2. \A x : InSpool(x) => InSpool(x)'
        BY <2>1 DEF InSpool
    <2>3. CASE op[p] = "append"
        <3>1. p = "agent" /\ pc["agent"] = "sidecar" /\ seg.buf = {}
            BY <1>0, <1>4, <2>3 DEF Sidecar, At, Buffered
        <3>2. offered' = offered + 1 /\ seg'.buf = {offered + 1}
            BY <1>4, <2>3 DEF Sidecar, Add, NoSeg
        <3> QED
            BY <1>0, <1>1, <2>1, <2>2, <3>1, <3>2
    <2>4. CASE op[p] # "append"
        <3>1. UNCHANGED <<seg, offered>>
            BY <1>4, <2>4 DEF Sidecar
        <3> QED
            BY <1>2, <2>1, <3>1
    <2> QED
        BY <2>3, <2>4
<1>5. ASSUME NEW p \in Proc, CloseFails(p)
      PROVE  NothingLost'
    <2>1. UNCHANGED <<files, actv, closed, urab, outs, seg>>
        BY <1>5 DEF CloseFails, export, spool
    <2>2. \/ refused' = refused \cup {offered + 1} /\ offered' = offered + 1
          \/ UNCHANGED <<refused, offered>>
        BY <1>5 DEF CloseFails
    <2>3. \A x : InSpool(x) => InSpool(x)'
        BY <2>1 DEF InSpool
    <2> QED
        BY <1>0, <1>1, <2>1, <2>2, <2>3
<1>6. ASSUME NEW p \in Proc, CloseName(p)
      PROVE  NothingLost'
    <2>1. UNCHANGED <<files, actv, closed, urab, outs, offered, refused>>
        BY <1>6 DEF CloseName, export, spool, history
    <2>2. \A x : InSpool(x) => InSpool(x)'
        BY <2>1 DEF InSpool
    <2>3. seg' = seg \/ seg.buf = {}
        BY <1>6 DEF CloseName, Forget, At, Buffered
    <2> QED
        BY <1>1, <2>1, <2>2, <2>3
<1>7. ASSUME NEW p \in Proc, CloseMove(p)
      PROVE  NothingLost'
    <2>1. /\ UNCHANGED <<files, urab, outs, offered, refused, seg>>
          /\ pc[p] = "move" /\ actv # 0 /\ actv' = 0
          /\ closed' = {f \in closed : f.name # at[p]} \cup {[name |-> at[p], ino |-> actv]}
        BY <1>7 DEF CloseMove, At, export, history
    <2>2. ~Taken(at[p])
        BY <2>1 DEF Filed
    <2> DEFINE g == [name |-> at[p], ino |-> actv]
    <2>3. g \in closed' /\ g.ino = actv /\ closed \subseteq closed'
        BY <2>1, <2>2 DEF Taken
    <2> HIDE DEF g
    <2>4. ASSUME NEW x, InSpool(x) PROVE InSpool(x)'
        <3>1. (\E f \in closed : x \in files[f.ino]) \/ x \in files[g.ino]
            BY <2>3, <2>4 DEF InSpool
        <3>2. \E f \in closed' : x \in files[f.ino]
            BY <2>3, <3>1
        <3> QED
            BY <2>1, <3>2 DEF InSpool
    <2> QED
        BY <1>1, <2>1, <2>4
<1>8. CASE FlushOpen
    <2>1. UNCHANGED <<closed, urab, outs, offered, refused, seg>>
        BY <1>8 DEF FlushOpen, export, history
    <2>2. /\ \A i \in 1 .. Len(files) : files'[i] = files[i]
          /\ actv # 0 => actv' = actv
        BY <1>0, <1>8 DEF FlushOpen, Filed
    <2>3. ASSUME NEW x, InSpool(x) PROVE InSpool(x)'
        <3>1. CASE \E f \in closed : x \in files[f.ino]
            <4>1. PICK f \in closed : x \in files[f.ino]
                BY <3>1
            <4>2. f \in closed' /\ x \in files'[f.ino]
                BY <2>1, <2>2, <4>1 DEF Filed, Distinct, Segments
            <4> QED
                BY <4>2 DEF InSpool
        <3>2. CASE actv # 0 /\ x \in files[actv]
            BY <1>0, <2>2, <3>2 DEF InSpool, Filed
        <3> QED
            BY <2>3, <3>1, <3>2 DEF InSpool
    <2> QED
        BY <1>1, <2>1, <2>3
<1>9. CASE FlushWrite
    <2>1. /\ UNCHANGED <<closed, actv, urab, outs, offered, refused>>
          /\ pc["agent"] = "write"
          /\ files' = [files EXCEPT ![at["agent"]] = files[at["agent"]] \cup seg.buf]
        BY <1>9 DEF FlushWrite, At, export, history
    <2>2. at["agent"] = actv /\ actv \in DOMAIN files /\ actv # 0
        BY <1>0, <2>1 DEF Filed
    <2>3. files'[actv] = files[actv] \cup seg.buf /\ \A i \in DOMAIN files : files[i] \subseteq files'[i]
        BY <2>1, <2>2
    <2>4. \A f \in closed : f.ino \in DOMAIN files
        BY FiledIsFinal DEF Filed, Distinct, Segments
    <2>5. \A x : x \in seg.buf \/ InSpool(x) => InSpool(x)'
        BY <2>1, <2>2, <2>3, <2>4 DEF InSpool
    <2> QED
        BY <1>1, <2>1, <2>5
<1>10. CASE (\E o \in {"flush", "append", "export"} : Begin(o)) \/ BeginEmpty \/ Start \/ Killed \/ Tick
            \/ UNCHANGED sharedVars
    <2>1. UNCHANGED <<files, actv, closed, seg, offered, refused, urab, outs>>
        BY <1>10 DEF Begin, BeginEmpty, Start, Killed, Tick, sharedVars, spool, export, history
    <2> QED
        BY <1>2, <2>1
<1>11. CASE RemoveClosed("cli")
    <2>1. UNCHANGED <<files, actv, seg, offered, refused, urab, outs>> /\ pc["cli"] = "remove"
        BY <1>11, RemoveShips DEF RemoveClosed, At, history
    <2>2. \A f \in closed : f \in closed' \/ (todo["cli"] # {} /\ f.name = Next1(todo["cli"]).name)
        BY <1>11, RemoveShips
    <2>3. ASSUME NEW f \in closed, f \notin closed', NEW x \in files[f.ino]
          PROVE  InBundle(x)
        <3>1. \A m \in todo["cli"] : Taken(m.name) /\ Read(m.name)
            BY <2>1 DEF Shipping
        <3>2. \A m \in todo["cli"] : m.name \in Nat
            BY <3>1, SharedAssumption DEF Taken, Filed, Distinct, Segments
        <3>3. Read(f.name)
            BY <2>2, <2>3, <3>1, <3>2, NextIsOne
        <3>4. PICK y \in got["cli"] : x \in y.recs
            BY <3>3 DEF Read
        <3>5. /\ sec["cli"] \in 1 .. MaxSec /\ urab[sec["cli"]] # 0
              /\ outs[urab[sec["cli"]]] = {[by |-> "cli", segs |-> got["cli"]]}
            BY <2>1 DEF Shipping
        <3> QED
            BY <3>4, <3>5 DEF InBundle
    <2>4. ASSUME NEW x, Somewhere(x) PROVE Somewhere(x)'
        <3>1. InBundle(x) => InBundle(x)'
            BY <2>1 DEF InBundle
        <3>2. InSpool(x) => InSpool(x)' \/ InBundle(x)
            BY <2>1, <2>3 DEF InSpool
        <3> QED
            BY <2>1, <2>4, <3>1, <3>2 DEF Somewhere
    <2> QED
        BY <2>1, <2>4, LostSame
<1>12. CASE List("cli") \/ Encrypt("cli")
    <2>1. UNCHANGED <<files, actv, closed, seg, offered, refused, urab, outs>>
        BY <1>12 DEF List, Encrypt, spool, export, history
    <2> QED
        BY <1>2, <2>1
<1>13. CASE OpenTmp("cli") \/ WriteTar("cli") \/ Rename("cli")
    <2>1. UNCHANGED <<files, actv, closed, seg, offered, refused>>
        BY <1>13 DEF OpenTmp, WriteTar, Rename, spool, history
    <2>2. \A s \in 1 .. MaxSec : urab[s] # 0 => urab'[s] = urab[s] /\ outs'[urab[s]] = outs[urab[s]]
        <3>1. CASE OpenTmp("cli")
            BY <3>1, OpenTmpShips DEF OpenTmp
        <3>2. CASE WriteTar("cli")
            BY <3>2, WriteTarShips DEF WriteTar, Fill
        <3>3. CASE Rename("cli")
            BY <3>3, RenameShips
        <3> QED
            BY <1>13, <3>1, <3>2, <3>3
    <2> QED
        BY <1>2, <2>1, <2>2
<1>14. ASSUME NEW p \in Proc,
              List(p) \/ OpenTmp(p) \/ Encrypt(p) \/ WriteTar(p) \/ Rename(p) \/ RemoveClosed(p)
       PROVE  p = "cli"
    BY <1>14, ExportIsManual
<1> QED
    BY <1>3, <1>4, <1>5, <1>6, <1>7, <1>8, <1>9, <1>10, <1>11, <1>12, <1>13, <1>14 DEF SharedNext, Step

LEMMA BundleNext ==
    ASSUME Alone, BundleInv, [SharedNext]_sharedVars
    PROVE  BundleInv'
<1>1. Roles' /\ Buffered' /\ Filed'
    BY FiledIsFinal, RolesNext, BufferedNext, FiledNext DEF BundleInv
<1>2. Finished' /\ Shipping'
    <2>1. CASE List("cli")
        BY <2>1, ListShips DEF BundleInv
    <2>2. CASE OpenTmp("cli")
        BY <2>2, OpenTmpShips DEF BundleInv
    <2>3. CASE Encrypt("cli")
        BY <2>3, EncryptShips DEF BundleInv
    <2>4. CASE WriteTar("cli")
        BY <2>4, WriteTarShips DEF BundleInv
    <2>5. CASE Rename("cli")
        BY <2>5, RenameShips DEF BundleInv
    <2>6. CASE RemoveClosed("cli")
        BY <2>6, RemoveShips DEF BundleInv
    <2> QED
        BY <2>1, <2>2, <2>3, <2>4, <2>5, <2>6, OutsideShips DEF BundleInv
<1>3. NothingLost'
    BY NothingLostNext DEF BundleInv
<1> QED
    BY <1>1, <1>2, <1>3 DEF BundleInv

\* When the agent leaves the exports to "ura-agent export", and neither process
\* runs inside a file operation of the other, a record that Append took is in the
\* buffer, in the spool or in a finished bundle, and each bundle is the complete
\* work of one export (bundle.go:51-56, store.go:246-258).
THEOREM BundlesHoldEverything ==
    ASSUME AutoDaily = FALSE, Windows = {}
    PROVE  SharedSpec => []BundlesHoldAll
<1>1. Alone
    BY DEF Alone
<1>2. SharedInit => BundleInv
    BY BundleStart
<1>3. BundleInv /\ [SharedNext]_sharedVars => BundleInv'
    BY <1>1, BundleNext
<1>4. BundleInv => BundlesHoldAll
    <2> SUFFICES ASSUME BundleInv PROVE BundlesHoldAll
        OBVIOUS
    <2>1. SharedTypeOK
        <3>1. \A f \in closed : f.ino \in DOMAIN files
            BY DEF BundleInv, Filed, Distinct, Segments
        <3>2. seg.buf \subseteq 1 .. offered
            BY DEF BundleInv, Buffered
        <3> QED
            BY <3>1, <3>2 DEF BundleInv, Filed, Buffered, SharedTypeOK
    <2>2. BundleIsWhole
        <3> SUFFICES ASSUME NEW s \in 1 .. MaxSec, urab[s] # 0
                     PROVE  Cardinality(outs[urab[s]]) = 1
            BY DEF BundleIsWhole, Bundles
        <3>1. PICK w : outs[urab[s]] = {w}
            BY DEF BundleInv, Finished
        <3> QED
            BY <3>1, FS_Singleton
    <2> QED
        BY <2>1, <2>2 DEF BundleInv, BundlesHoldAll
<1> QED
    BY <1>2, <1>3, <1>4, PTL DEF SharedSpec

-----------------------------------------------------------------------------
(***************************************************************************)
(* A theorem about Identity, for every set of faults, every number of      *)
(* identities and days.                                                    *)
(***************************************************************************)

-----------------------------------------------------------------------------
(* The inductive invariant.                                                *)

Ids == 1..made

IdentityTypes ==
    /\ made \in Nat /\ day \in 1..MaxDay /\ began \in 0..MaxDay
    /\ DOMAIN disk = File
    /\ disk["host"] \in [now : Ids \cup {None, Torn}, safe : Ids \cup {None, Torn}]
    /\ disk["state"] \in [now : 1..MaxDay \cup {None, Torn}, safe : 1..MaxDay \cup {None, Torn}]
    /\ hostTmp \in Ids \cup {None}
    /\ stage \in [Command -> {"off", "load", "write", "rename", "state", "ready", "up"}]
    /\ DOMAIN id = Command /\ first \in [Command -> 0..MaxDay]
    /\ \A p \in Command : stage[p] \in {"write", "rename", "state", "ready", "up"} => id[p] \in Ids
    /\ stage["run"] = "up" => first["run"] # 0
    /\ shipped \subseteq Ids

\* One process at a time until host.id has a content, then that content for all.
OneHost ==
    \/ /\ disk["host"].now = None
       /\ \A p \in Command : stage[p] \in {"off", "load", "write", "rename"}
       /\ \A p, q \in Command : stage[p] # "off" /\ stage[q] # "off" => p = q
       /\ \A p \in Command : stage[p] = "rename" => id[p] = hostTmp
       /\ shipped = {}
    \/ /\ disk["host"].now # None
       /\ \A p \in Command : stage[p] \notin {"write", "rename"}
       /\ \A p \in Command : stage[p] \in {"state", "ready", "up"} => id[p] = disk["host"].now
       /\ shipped \subseteq {disk["host"].now}

\* state.json has the day of the first Run, and so has who read or wrote it.
OneStart ==
    /\ disk["state"].now = IF began = 0 THEN None ELSE began
    /\ stage["run"] \in {"ready", "up"} => first["run"] = began
    /\ stage["run"] = "up" => began # 0

IdentityInv ==
    /\ IdentityTypes
    /\ met \cap {"read", "together", "power"} = {} => OneHost
    /\ met \cap {"save", "power"} = {} => OneStart

LEMMA IdentityStart == IdentityInit => IdentityInv
<1> SUFFICES ASSUME IdentityInit PROVE IdentityInv
    OBVIOUS
<1>1. IdentityTypes
    BY IdentityAssumption DEF IdentityInit, IdentityTypes, File, Command, Ids
<1>2. OneHost /\ OneStart
    BY DEF IdentityInit, OneHost, OneStart, File, Command
<1> QED
    BY <1>1, <1>2 DEF IdentityInv

\* A process alone that changes nothing on disk and has at most a new place.
LEMMA IdentityTypesNext ==
    ASSUME IdentityTypes, [IdentityNext]_identityVars
    PROVE  IdentityTypes'
<1> USE IdentityAssumption DEF IdentityTypes, Ids, File, Command, Reach, Meet
<1>1. ASSUME NEW p \in Command, Launch(p) \/ RefuseHostID(p) \/ UseHostID(p) \/ NewHostID(p)
      PROVE  IdentityTypes'
    <2>1. CASE Launch(p) \/ RefuseHostID(p)
        <3>1. /\ stage' = [stage EXCEPT ![p] = "load"] \/ stage' = [stage EXCEPT ![p] = "off"]
              /\ UNCHANGED <<disk, hostTmp, id, first, day, made, shipped, began>>
            BY <2>1 DEF Launch, RefuseHostID, memory, identityHistory
        <3> QED
            BY <3>1
    <2>2. CASE UseHostID(p)
        <3>1. /\ stage' = [stage EXCEPT ![p] = "state"] /\ id' = [id EXCEPT ![p] = disk["host"].now]
              /\ disk["host"].now \in Ids
              /\ UNCHANGED <<disk, hostTmp, first, day, made, shipped, began>>
            BY <2>2 DEF UseHostID, Accepted, identityHistory
        <3> QED
            BY <3>1
    <2>3. CASE NewHostID(p)
        <3>1. /\ stage' = [stage EXCEPT ![p] = "write"] /\ id' = [id EXCEPT ![p] = made + 1]
              /\ made' = made + 1
              /\ UNCHANGED <<disk, hostTmp, first, day, shipped, began>>
            BY <2>3 DEF NewHostID
        <3>2. Ids \subseteq Ids' /\ made + 1 \in Ids' /\ made' \in Nat
            BY <3>1
        <3> HIDE DEF Ids
        <3>3. /\ disk'["host"] \in [now : Ids' \cup {None, Torn}, safe : Ids' \cup {None, Torn}]
              /\ hostTmp' \in Ids' \cup {None} /\ shipped' \subseteq Ids'
            BY <3>1, <3>2
        <3>4. \A q \in Command : stage'[q] \in {"write", "rename", "state", "ready", "up"} => id'[q] \in Ids'
            <4>1. \A q \in Command : q # p => stage'[q] = stage[q] /\ id'[q] = id[q]
                BY <3>1
            <4>2. id'[p] = made + 1
                BY <3>1
            <4> QED
                BY <3>2, <4>1, <4>2
        <3>5. stage'["run"] = "up" => first'["run"] # 0
            BY <3>1
        <3>6. /\ stage' \in [Command -> {"off", "load", "write", "rename", "state", "ready", "up"}]
              /\ DOMAIN disk' = File /\ DOMAIN id' = Command
              /\ disk'["state"] = disk["state"]
              /\ day' = day /\ began' = began /\ first' = first
            BY <3>1
        <3> QED
            BY <3>2, <3>3, <3>4, <3>5, <3>6
    <2> HIDE DEF IdentityTypes
    <2> QED
        BY <1>1, <2>1, <2>2, <2>3
<1>2. ASSUME NEW p \in Command, WriteTmp(p) \/ RenameTmp(p) \/ LoadState(p) \/ End(p)
      PROVE  IdentityTypes'
    <2>1. CASE WriteTmp(p) \/ End(p)
        <3>1. /\ \/ stage[p] = "write" /\ stage' = [stage EXCEPT ![p] = "rename"] /\ hostTmp' = id[p]
                 \/ stage' = [stage EXCEPT ![p] = "off"] /\ hostTmp' = hostTmp
              /\ UNCHANGED <<disk, id, first, day, made, shipped, began>>
            BY <2>1 DEF WriteTmp, End, memory, identityHistory
        <3>2. hostTmp' \in Ids' \cup {None}
            BY <3>1
        <3>3. /\ stage' \in [Command -> {"off", "load", "write", "rename", "state", "ready", "up"}]
              /\ stage'["run"] = "up" => stage["run"] = "up"
              /\ \A q \in Command : stage'[q] \in {"write", "rename", "state", "ready", "up"} =>
                        stage[q] \in {"write", "rename", "state", "ready", "up"}
            BY <3>1
        <3> QED
            BY <3>1, <3>2, <3>3
    <2>2. CASE RenameTmp(p)
        <3>1. CASE hostTmp = None
            BY <2>2, <3>1 DEF RenameTmp, memory, identityHistory
        <3>2. CASE hostTmp # None
            <4>1. /\ DOMAIN disk' = DOMAIN disk /\ disk'["state"] = disk["state"]
                  /\ disk'["host"] = [disk["host"] EXCEPT !.now = hostTmp]
                BY <2>2, <3>2 DEF RenameTmp
            <4> QED
                BY <2>2, <3>2, <4>1 DEF RenameTmp, memory, identityHistory
        <3> QED
            BY <3>1, <3>2
    <2>3. CASE LoadState(p)
        <3>1. CASE Accepted(disk["state"].now)
            BY <2>3, <3>1 DEF LoadState, Accepted, identityHistory
        <3>2. CASE ~Accepted(disk["state"].now)
            BY <2>3, <3>2 DEF LoadState, identityHistory
        <3> QED
            BY <3>1, <3>2
    <2> HIDE DEF IdentityTypes
    <2> QED
        BY <1>2, <2>1, <2>2, <2>3
<1>3. ASSUME NEW value \in 1..MaxDay, SaveState(value)
      PROVE  /\ DOMAIN disk' = File /\ disk'["host"] = disk["host"]
             /\ disk'["state"] \in [now : 1..MaxDay \cup {None, Torn}, safe : 1..MaxDay \cup {None, Torn}]
    BY <1>3 DEF SaveState
<1>4. CASE BeginRun
    BY <1>3, <1>4 DEF BeginRun
<1>5. CASE DailyBundle
    <2>1. first["run"] \in 1..MaxDay /\ SaveState(first["run"])
        BY <1>5 DEF DailyBundle
    <2>2. /\ DOMAIN disk' = File /\ disk'["host"] = disk["host"]
          /\ disk'["state"] \in [now : 1..MaxDay \cup {None, Torn}, safe : 1..MaxDay \cup {None, Torn}]
        BY <1>3, <2>1
    <2>3. shipped' \subseteq Ids /\ UNCHANGED <<hostTmp, stage, id, first, day, made, began>>
        BY <1>5 DEF DailyBundle, memory
    <2> QED
        BY <2>2, <2>3
<1>6. CASE ManualBundle
    BY <1>6 DEF ManualBundle, memory
<1>7. ASSUME NEW f \in File, Writeback(f)
      PROVE  IdentityTypes'
    BY <1>7 DEF Writeback, memory, identityHistory
<1>8. CASE PowerLoss
    <2>1. PICK h \in Left("host"), s \in Left("state") :
            disk' = [host |-> [now |-> h, safe |-> h], state |-> [now |-> s, safe |-> s]]
        BY <1>8 DEF PowerLoss
    <2>2. h \in Ids \cup {None, Torn} /\ s \in 1..MaxDay \cup {None, Torn}
        BY DEF Left
    <2> QED
        BY <1>8, <2>1, <2>2 DEF PowerLoss, memory
<1>9. CASE NextDay \/ UNCHANGED identityVars
    <2>1. /\ day' \in 1..MaxDay
          /\ UNCHANGED <<disk, hostTmp, stage, id, first, made, shipped, began>>
        BY <1>9 DEF NextDay, identityVars, memory, identityHistory
    <2> QED
        BY <2>1
<1> QED
    BY <1>1, <1>2, <1>4, <1>5, <1>6, <1>7, <1>8, <1>9 DEF IdentityNext

\* A step that leaves host.id, the identities and the bundles alone, and no
\* process anywhere it was not, except off.
LEMMA OneHostKept ==
    ASSUME IdentityTypes, OneHost, disk'["host"].now = disk["host"].now,
           UNCHANGED <<id, shipped>>,
           hostTmp' = hostTmp \/ (\A p \in Command : stage'[p] = "off"),
           \A p \in Command : \/ stage'[p] \in {"off", stage[p]}
                              \/ stage[p] \in {"state", "ready", "up"} /\ stage'[p] \in {"state", "ready", "up"}
    PROVE  OneHost'
<1>1. CASE disk["host"].now = None
    BY <1>1 DEF OneHost
<1>2. CASE disk["host"].now # None
    BY <1>2 DEF OneHost
<1> QED
    BY <1>1, <1>2

LEMMA OneHostNext ==
    ASSUME IdentityTypes, OneHost, [IdentityNext]_identityVars,
           met' \cap {"read", "together", "power"} = {}
    PROVE  OneHost'
<1> USE DEF Reach, Meet, File, Command
<1>0. stage \in [Command -> {"off", "load", "write", "rename", "state", "ready", "up"}]
      /\ DOMAIN id = Command /\ DOMAIN disk = File
      /\ made \in Nat /\ None \notin Nat /\ hostTmp \in 1..made \cup {None}
    BY IdentityAssumption DEF IdentityTypes, Ids
<1>1. ASSUME NEW p \in Command, Launch(p)
      PROVE  OneHost'
    <2>1. ~(disk["host"].now = None /\ \E q \in Command : stage[q] # "off")
        BY <1>1 DEF Launch
    <2>2. stage' = [stage EXCEPT ![p] = "load"] /\ UNCHANGED <<disk, hostTmp, id, shipped>>
        BY <1>1 DEF Launch, memory
    <2> QED
        BY <1>0, <2>1, <2>2 DEF OneHost
<1>2. ASSUME NEW p \in Command, UseHostID(p)
      PROVE  OneHost'
    <2>1. /\ disk["host"].now # None /\ disk' = disk /\ shipped' = shipped
          /\ hostTmp' = hostTmp
          /\ id' = [id EXCEPT ![p] = disk["host"].now] /\ stage' = [stage EXCEPT ![p] = "state"]
        BY <1>2 DEF UseHostID, Accepted, identityHistory
    <2> QED
        BY <1>0, <2>1 DEF OneHost
<1>3. ASSUME NEW p \in Command, NewHostID(p)
      PROVE  OneHost'
    <2>1. /\ disk["host"].now = None /\ disk' = disk /\ shipped' = shipped /\ stage[p] = "load" /\ hostTmp' = hostTmp
          /\ id' = [id EXCEPT ![p] = made + 1] /\ stage' = [stage EXCEPT ![p] = "write"]
        BY <1>3 DEF NewHostID
    <2> QED
        BY <1>0, <2>1 DEF OneHost
<1>4. ASSUME NEW p \in Command, WriteTmp(p)
      PROVE  OneHost'
    <2>1. /\ disk' = disk /\ shipped' = shipped /\ stage[p] = "write" /\ id' = id /\ hostTmp' = id[p]
          /\ stage' = [stage EXCEPT ![p] = "rename"]
        BY <1>4 DEF WriteTmp, memory, identityHistory
    <2> QED
        BY <1>0, <2>1 DEF OneHost
<1>5. CASE PowerLoss
    <2>1. PICK h \in Left("host"), s \in Left("state") :
            /\ disk' = [host |-> [now |-> h, safe |-> h], state |-> [now |-> s, safe |-> s]]
            /\ Meet("power", <<h, s>> # <<disk["host"].now, disk["state"].now>>)
        BY <1>5 DEF PowerLoss
    <2>2. disk'["host"].now = disk["host"].now
        BY <2>1
    <2> QED
        BY <1>0, <1>5, <2>2, OneHostKept DEF PowerLoss, memory
<1>6. CASE ManualBundle
    <2>1. /\ disk' = disk /\ shipped' = shipped \cup {id["export"]} /\ stage["export"] = "ready" /\ id' = id
          /\ hostTmp' = hostTmp
          /\ stage' = [stage EXCEPT !["export"] = "off"]
        BY <1>6 DEF ManualBundle, memory
    <2> QED
        BY <1>0, <2>1 DEF OneHost
<1>7. ASSUME NEW value, SaveState(value)
      PROVE  disk'["host"] = disk["host"]
    BY <1>0, <1>7 DEF SaveState
<1>8. CASE DailyBundle
    <2>1. /\ disk'["host"] = disk["host"] /\ shipped' = shipped \cup {id["run"]}
          /\ stage["run"] = "up" /\ UNCHANGED <<id, stage, hostTmp>>
        BY <1>7, <1>8 DEF DailyBundle, memory
    <2> QED
        BY <1>0, <2>1 DEF OneHost
<1>9. CASE BeginRun
    <2>1. /\ disk'["host"] = disk["host"] /\ UNCHANGED <<id, shipped, hostTmp>>
          /\ stage["run"] = "ready" /\ stage' = [stage EXCEPT !["run"] = "up"]
        BY <1>7, <1>9 DEF BeginRun
    <2> QED
        BY <1>0, <2>1, OneHostKept
<1>10. ASSUME NEW p \in Command, RefuseHostID(p) \/ LoadState(p) \/ End(p)
       PROVE  OneHost'
    <2>1. /\ UNCHANGED <<disk, hostTmp, id, shipped>>
          /\ stage' = [stage EXCEPT ![p] = "off"]
             \/ (stage[p] = "state" /\ stage' = [stage EXCEPT ![p] = "ready"])
        BY <1>10 DEF RefuseHostID, LoadState, End, memory, identityHistory
    <2> QED
        BY <1>0, <2>1, OneHostKept
<1>11. ASSUME NEW p \in Command, RenameTmp(p)
       PROVE  OneHost'
    <2>1. CASE hostTmp = None
        <3>1. stage' = [stage EXCEPT ![p] = "off"] /\ UNCHANGED <<disk, hostTmp, id, shipped>>
            BY <1>11, <2>1 DEF RenameTmp, memory, identityHistory
        <3> QED
            BY <1>0, <3>1, OneHostKept
    <2>2. CASE hostTmp # None
        <3>1. /\ disk'["host"].now = hostTmp /\ UNCHANGED <<id, shipped>> /\ stage[p] = "rename"
              /\ stage' = [stage EXCEPT ![p] = "state"]
            BY <1>0, <1>11, <2>2 DEF RenameTmp, memory, identityHistory, IdentityTypes
        <3>2. /\ disk["host"].now = None /\ shipped = {} /\ id[p] = hostTmp
              /\ \A q \in Command : stage[q] # "off" => p = q
            BY <3>1 DEF OneHost
        <3>3. \A q \in Command : q # p => stage'[q] = "off"
            BY <1>0, <3>1, <3>2
        <3>4. stage'[p] = "state" /\ shipped' = {} /\ id'[p] = disk'["host"].now
            BY <1>0, <3>1, <3>2
        <3> QED
            BY <2>2, <3>1, <3>3, <3>4 DEF OneHost
    <2> QED
        BY <2>1, <2>2
<1>12. ASSUME NEW f \in File, Writeback(f)
       PROVE  OneHost'
    <2>1. disk'["host"].now = disk["host"].now /\ UNCHANGED <<id, shipped, stage, hostTmp>>
        BY <1>0, <1>12 DEF Writeback, memory, identityHistory, IdentityTypes
    <2> QED
        BY <2>1, OneHostKept
<1>13. CASE NextDay \/ UNCHANGED identityVars
    <2>1. UNCHANGED <<id, shipped, stage, disk, hostTmp>>
        BY <1>13 DEF NextDay, identityVars, memory, identityHistory
    <2> QED
        BY <2>1, OneHostKept
<1> QED
    BY <1>1, <1>2, <1>3, <1>4, <1>5, <1>6, <1>8, <1>9, <1>10, <1>11, <1>12, <1>13 DEF IdentityNext

\* A step that leaves state.json, the first starts and the run process alone; the
\* process may end, or start anew.
LEMMA OneStartKept ==
    ASSUME OneStart, disk'["state"].now = disk["state"].now, UNCHANGED <<first, began>>,
           stage'["run"] \in {stage["run"], "off", "load", "write", "rename", "state"}
    PROVE  OneStart'
BY DEF OneStart

LEMMA OneStartNext ==
    ASSUME IdentityTypes, OneStart, [IdentityNext]_identityVars,
           met' \cap {"save", "power"} = {}
    PROVE  OneStart'
<1> USE DEF Reach, Meet, File, Command
<1>0. /\ stage \in [Command -> {"off", "load", "write", "rename", "state", "ready", "up"}]
      /\ DOMAIN disk = File /\ first \in [Command -> 0..MaxDay]
      /\ day \in 1..MaxDay /\ began \in 0..MaxDay /\ None \notin Nat /\ Torn \notin Nat
    BY IdentityAssumption DEF IdentityTypes
<1>1. ASSUME NEW p \in Command,
             \/ Launch(p) \/ UseHostID(p) \/ RefuseHostID(p) \/ NewHostID(p)
             \/ WriteTmp(p) \/ End(p)
      PROVE  OneStart'
    <2>1. UNCHANGED <<disk, first, began>>
        BY <1>1 DEF Launch, UseHostID, RefuseHostID, NewHostID, WriteTmp, End, memory, identityHistory
    <2>2. \E where \in {"off", "load", "write", "rename", "state"} : stage' = [stage EXCEPT ![p] = where]
        BY <1>1 DEF Launch, UseHostID, RefuseHostID, NewHostID, WriteTmp, End
    <2> QED
        BY <1>0, <2>1, <2>2, OneStartKept
<1>2. ASSUME NEW p \in Command, RenameTmp(p)
      PROVE  OneStart'
    <2>1. disk'["state"] = disk["state"] /\ UNCHANGED <<first, began>>
        BY <1>0, <1>2 DEF RenameTmp, memory, identityHistory
    <2>2. \E where \in {"off", "state"} : stage' = [stage EXCEPT ![p] = where]
        BY <1>2 DEF RenameTmp
    <2> QED
        BY <1>0, <2>1, <2>2, OneStartKept
<1>3. ASSUME NEW p \in Command, LoadState(p)
      PROVE  OneStart'
    <2>1. /\ UNCHANGED <<disk, began>> /\ stage[p] = "state" /\ stage' = [stage EXCEPT ![p] = "ready"]
          /\ first' = [first EXCEPT ![p] = IF Accepted(disk["state"].now) THEN disk["state"].now ELSE 0]
        BY <1>3 DEF LoadState, identityHistory
    <2>2. CASE p = "run"
        <3>1. first'["run"] = began
            <4>1. CASE began = 0
                BY <1>0, <2>1, <2>2, <4>1 DEF OneStart, Accepted
            <4>2. CASE began # 0
                BY <1>0, <2>1, <2>2, <4>2 DEF OneStart, Accepted
            <4> QED
                BY <4>1, <4>2
        <3> QED
            BY <1>0, <2>1, <2>2, <3>1 DEF OneStart
    <2>3. CASE p # "run"
        BY <1>0, <2>1, <2>3 DEF OneStart
    <2> QED
        BY <2>2, <2>3
<1>4. ASSUME NEW value, SaveState(value)
      PROVE  disk'["state"].now = value
    <2>1. disk' = [disk EXCEPT !["state"].now = value]
        BY <1>4 DEF SaveState
    <2> QED
        BY <1>0, <2>1 DEF IdentityTypes
<1>5. CASE BeginRun
    <2>1. /\ stage["run"] = "ready" /\ stage' = [stage EXCEPT !["run"] = "up"] /\ first["run"] = began
          /\ began' = IF began = 0 THEN day ELSE began
        BY <1>5 DEF BeginRun, OneStart
    <2>2. CASE first["run"] = 0
        <3>1. first' = [first EXCEPT !["run"] = day] /\ disk'["state"].now = day
            BY <1>4, <1>5, <2>2 DEF BeginRun
        <3> QED
            BY <1>0, <2>1, <2>2, <3>1 DEF OneStart
    <2>3. CASE first["run"] # 0
        <3>1. UNCHANGED <<first, disk>>
            BY <1>5, <2>3 DEF BeginRun
        <3> QED
            BY <1>0, <2>1, <2>3, <3>1 DEF OneStart
    <2> QED
        BY <2>2, <2>3
<1>6. CASE DailyBundle
    <2>1. /\ disk'["state"].now = first["run"] /\ UNCHANGED <<first, began, stage>> /\ stage["run"] = "up"
        BY <1>4, <1>6 DEF DailyBundle, memory
    <2> QED
        BY <2>1 DEF OneStart
<1>7. CASE ManualBundle
    <2>1. /\ UNCHANGED <<disk, first, began>> /\ stage' = [stage EXCEPT !["export"] = "off"]
        BY <1>7 DEF ManualBundle, memory
    <2> QED
        BY <1>0, <2>1, OneStartKept
<1>8. ASSUME NEW f \in File, Writeback(f)
      PROVE  OneStart'
    <2>1. disk'["state"].now = disk["state"].now /\ UNCHANGED <<first, began, stage>>
        BY <1>0, <1>8 DEF Writeback, memory, identityHistory, IdentityTypes
    <2> QED
        BY <2>1, OneStartKept
<1>9. CASE PowerLoss
    <2>1. PICK h \in Left("host"), s \in Left("state") :
            /\ disk' = [host |-> [now |-> h, safe |-> h], state |-> [now |-> s, safe |-> s]]
            /\ Meet("power", <<h, s>> # <<disk["host"].now, disk["state"].now>>)
        BY <1>9 DEF PowerLoss
    <2>2. disk'["state"].now = disk["state"].now
        BY <2>1
    <2>3. stage'["run"] = "off" /\ UNCHANGED <<first, began>>
        BY <1>9 DEF PowerLoss, memory
    <2> QED
        BY <2>2, <2>3, OneStartKept
<1>10. CASE NextDay \/ UNCHANGED identityVars
    <2>1. UNCHANGED <<disk, first, began, stage>>
        BY <1>10 DEF NextDay, identityVars, memory, identityHistory
    <2> QED
        BY <2>1, OneStartKept
<1> QED
    BY <1>1, <1>2, <1>3, <1>5, <1>6, <1>7, <1>8, <1>9, <1>10 DEF IdentityNext

\* What a fault left behind is never forgotten.
LEMMA MetGrows == [IdentityNext]_identityVars => met \subseteq met'
<1> SUFFICES ASSUME [IdentityNext]_identityVars PROVE met \subseteq met'
    OBVIOUS
<1> USE DEF Meet, identityHistory
<1>1. ASSUME NEW p \in Command,
             \/ Launch(p) \/ UseHostID(p) \/ RefuseHostID(p) \/ NewHostID(p)
      PROVE  met \subseteq met'
    BY <1>1 DEF Launch, UseHostID, RefuseHostID, NewHostID
<1>2. ASSUME NEW p \in Command,
             \/ WriteTmp(p) \/ RenameTmp(p) \/ LoadState(p) \/ End(p)
      PROVE  met \subseteq met'
    BY <1>2 DEF WriteTmp, RenameTmp, LoadState, End
<1>3. CASE BeginRun \/ DailyBundle \/ ManualBundle
    <2>1. ASSUME NEW value, SaveState(value) PROVE met \subseteq met'
        BY <2>1 DEF SaveState
    <2>2. CASE BeginRun
        BY <2>1, <2>2 DEF BeginRun
    <2>3. CASE DailyBundle \/ ManualBundle
        BY <2>1, <2>3 DEF DailyBundle, ManualBundle
    <2> QED
        BY <1>3, <2>2, <2>3
<1>4. CASE (\E f \in File : Writeback(f)) \/ NextDay \/ UNCHANGED identityVars
    BY <1>4 DEF Writeback, NextDay, identityVars
<1>5. CASE PowerLoss
    BY <1>5 DEF PowerLoss
<1> QED
    BY <1>1, <1>2, <1>3, <1>4, <1>5 DEF IdentityNext

LEMMA IdentityNextInv ==
    ASSUME IdentityInv, [IdentityNext]_identityVars
    PROVE  IdentityInv'
<1>1. met \subseteq met'
    BY MetGrows
<1>2. met' \cap {"read", "together", "power"} = {} => OneHost'
    BY <1>1, OneHostNext DEF IdentityInv
<1>3. met' \cap {"save", "power"} = {} => OneStart'
    BY <1>1, OneStartNext DEF IdentityInv
<1> QED
    BY <1>2, <1>3, IdentityTypesNext DEF IdentityInv

\* All bundles of one data directory are from one host, which is a whole identity,
\* and count from the first start ever: wherever a process is killed, whatever is
\* not saved, unless one of the faults named has left something behind
\* (hostid.go:3-5, DEPLOY_LINUX.md:55-56).
THEOREM DeploymentIsKept == IdentitySpec => []DeploymentKept
<1>1. IdentityInv => DeploymentKept
    <2> SUFFICES ASSUME IdentityInv PROVE DeploymentKept
        OBVIOUS
    <2>1. IdentityTypeOK
        BY DEF IdentityInv, IdentityTypes, IdentityTypeOK, Ids
    <2>2. OneIdentity
        <3> SUFFICES ASSUME met \cap {"read", "together", "power"} = {}
                     PROVE  Cardinality(shipped) <= 1
            BY DEF OneIdentity
        <3>1. PICK h : shipped = {} \/ shipped = {h}
            BY DEF IdentityInv, OneHost
        <3>2. Cardinality({}) = 0 /\ Cardinality({h}) = 1
            BY FS_EmptySet, FS_Singleton
        <3> QED
            BY <3>1, <3>2
    <2>3. StartKept
        BY DEF IdentityInv, OneStart, StartKept
    <2> QED
        BY <2>1, <2>2, <2>3 DEF DeploymentKept
<1> QED
    BY <1>1, IdentityStart, IdentityNextInv, PTL DEF IdentitySpec

-----------------------------------------------------------------------------
(***************************************************************************)
(* A theorem about Settings, for every set of files an editor may leave.   *)
(***************************************************************************)

-----------------------------------------------------------------------------
(* The inductive invariant.  A record is proved by the inventory before it *)
(* when no other configuration came between; the agent that runs has such  *)
(* an inventory behind everything it has still to write.                   *)

Proved(l, i, c) ==
    \E j \in 1..i : l[j] = Inventory(c) /\ \A k \in j..i : l[k].cfg = c

RunningProved == cfg # None => Proved(log, Len(log), cfg)

SettingsInv ==
    /\ SettingsTypeOK /\ InventoryProves /\ RunningProved
    /\ file \in Files /\ flushed \in Nat /\ sent \in Nat

LogEntry == [kind : {"inventory", "data"}, cfg : Config]

LEMMA SettingsStart == SettingsInit => SettingsInv
<1> SUFFICES ASSUME SettingsInit PROVE SettingsInv
    OBVIOUS
<1>1. log \in Seq(LogEntry) /\ Len(log) = 0 /\ DOMAIN log = {}
    BY DEF SettingsInit
<1>2. InventoryProves
    BY <1>1 DEF InventoryProves
<1> QED
    BY <1>1, <1>2, SettingsAssumption
    DEF SettingsInit, SettingsInv, SettingsTypeOK, RunningProved, LogEntry

\* A record more: what was proved stays so, and the record itself is proved when
\* it is an inventory or comes behind one of its configuration.
LEMMA AppendProves ==
    ASSUME NEW l \in Seq(LogEntry), NEW e \in LogEntry,
           \A i \in DOMAIN l : l[i].kind = "data" => Proved(l, i, l[i].cfg),
           e = Inventory(e.cfg) \/ (Proved(l, Len(l), e.cfg))
    PROVE  LET m == Append(l, e) IN
             /\ m \in Seq(LogEntry) /\ Len(m) = Len(l) + 1
             /\ Proved(m, Len(m), e.cfg)
             /\ \A i \in DOMAIN m : m[i].kind = "data" => Proved(m, i, m[i].cfg)
<1> DEFINE m == Append(l, e)
           n == Len(l)
<1>1. /\ m \in Seq(LogEntry) /\ Len(m) = n + 1 /\ n \in Nat
      /\ DOMAIN m = 1..(n + 1) /\ DOMAIN l = 1..n
      /\ m[n + 1] = e /\ \A i \in 1..n : m[i] = l[i]
    OBVIOUS
<1> HIDE DEF m, n
<1>2. \A i \in 1..n : \A c : Proved(l, i, c) => Proved(m, i, c)
    <2> SUFFICES ASSUME NEW i \in 1..n, NEW c, Proved(l, i, c)
                 PROVE  Proved(m, i, c)
        OBVIOUS
    <2>1. PICK j \in 1..i : l[j] = Inventory(c) /\ \A k \in j..i : l[k].cfg = c
        BY DEF Proved
    <2>2. m[j] = Inventory(c) /\ \A k \in j..i : m[k].cfg = c
        BY <1>1, <2>1
    <2> QED
        BY <2>2 DEF Proved
<1>3. Proved(m, n + 1, e.cfg)
    <2>1. CASE e = Inventory(e.cfg)
        <3>1. m[n + 1] = Inventory(e.cfg) /\ \A k \in (n + 1)..(n + 1) : m[k].cfg = e.cfg
            BY <1>1, <2>1
        <3>2. n + 1 \in 1..(n + 1)
            BY <1>1
        <3> QED
            BY <3>1, <3>2 DEF Proved
    <2>2. CASE Proved(l, n, e.cfg)
        <3>1. PICK j \in 1..n : l[j] = Inventory(e.cfg) /\ \A k \in j..n : l[k].cfg = e.cfg
            BY <2>2 DEF Proved
        <3>2. m[j] = Inventory(e.cfg) /\ j \in 1..(n + 1)
            BY <1>1, <3>1
        <3>3. ASSUME NEW k \in j..(n + 1) PROVE m[k].cfg = e.cfg
            <4>1. k = n + 1 \/ (k \in j..n /\ k \in 1..n)
                BY <1>1, <3>1, <3>3
            <4> QED
                BY <1>1, <3>1, <4>1
        <3> QED
            BY <3>2, <3>3 DEF Proved
    <2> QED
        BY <2>1, <2>2 DEF n
<1>4. ASSUME NEW i \in DOMAIN m, m[i].kind = "data" PROVE Proved(m, i, m[i].cfg)
    <2>1. CASE i = n + 1
        BY <1>1, <1>3, <2>1
    <2>2. CASE i # n + 1
        <3>1. i \in 1..n /\ m[i] = l[i]
            BY <1>1, <2>2
        <3> QED
            BY <1>1, <1>2, <1>4, <3>1
    <2> QED
        BY <2>1, <2>2
<1> QED
    BY <1>1, <1>3, <1>4 DEF m, n

\* InventoryProves asks for an inventory before the record: a data record is not
\* its own.
LEMMA ProvesIffProved ==
    ASSUME log \in Seq(LogEntry)
    PROVE  InventoryProves <=> \A i \in DOMAIN log : log[i].kind = "data" => Proved(log, i, log[i].cfg)
<1>1. Len(log) \in Nat /\ DOMAIN log = 1..Len(log)
    OBVIOUS
<1>2. ASSUME NEW i \in DOMAIN log, log[i].kind = "data", Proved(log, i, log[i].cfg)
      PROVE  \E j \in 1..(i - 1) : log[j] = Inventory(log[i].cfg) /\ \A k \in j..i : log[k].cfg = log[i].cfg
    <2>1. PICK j \in 1..i : log[j] = Inventory(log[i].cfg) /\ \A k \in j..i : log[k].cfg = log[i].cfg
        BY <1>2 DEF Proved
    <2>2. j # i
        BY <1>2, <2>1 DEF Inventory
    <2>3. j \in 1..(i - 1)
        BY <1>1, <2>1, <2>2
    <2> QED
        BY <2>1, <2>3
<1>3. ASSUME NEW i \in DOMAIN log,
             \E j \in 1..(i - 1) : log[j] = Inventory(log[i].cfg) /\ \A k \in j..i : log[k].cfg = log[i].cfg
      PROVE  Proved(log, i, log[i].cfg)
    <2>1. i \in Nat /\ 1..(i - 1) \subseteq 1..i
        BY <1>1
    <2> QED
        BY <1>3, <2>1 DEF Proved
<1> QED
    BY <1>2, <1>3 DEF InventoryProves

LEMMA SettingsNextInv ==
    ASSUME SettingsInv, [SettingsNext]_settingsVars
    PROVE  SettingsInv'
<1>0. /\ log \in Seq(LogEntry) /\ Len(log) \in Nat /\ Len(log) <= MaxLog
      /\ cfg \in Config \cup {None} /\ sent \in Nat /\ flushed \in Nat
      /\ sent <= flushed /\ flushed <= Len(log)
      /\ file \in Files /\ Over(Default, file) \in Config
      /\ MaxLog \in Nat /\ None \notin Config
    BY SettingsAssumption, FilesAssumption DEF SettingsInv, SettingsTypeOK, LogEntry
<1>1. ASSUME NEW e \in LogEntry, log' = Append(log, e), cfg' \in Config \cup {None},
             e.cfg = cfg', Len(log) < MaxLog,
             e = Inventory(e.cfg) \/ (cfg' = cfg /\ cfg # None),
             UNCHANGED <<file, flushed, sent>>
      PROVE  SettingsInv'
    <2>1. \A i \in DOMAIN log : log[i].kind = "data" => Proved(log, i, log[i].cfg)
        BY <1>0, ProvesIffProved DEF SettingsInv
    <2>2. e = Inventory(e.cfg) \/ (Proved(log, Len(log), e.cfg))
        BY <1>1 DEF SettingsInv, RunningProved
    <2>3. /\ log' \in Seq(LogEntry) /\ Len(log') = Len(log) + 1
          /\ Proved(log', Len(log'), e.cfg)
          /\ \A i \in DOMAIN log' : log'[i].kind = "data" => Proved(log', i, log'[i].cfg)
        BY <1>0, <1>1, <2>1, <2>2, AppendProves
    <2>4. InventoryProves'
        <3>1. \A i \in DOMAIN log' : log'[i].kind = "data" =>
                \E j \in 1..i : j # i /\ log'[j] = Inventory(log'[i].cfg)
                                /\ \A k \in j..i : log'[k].cfg = log'[i].cfg
            BY <2>3 DEF Proved, Inventory
        <3>2. \A i \in DOMAIN log' : i \in Nat /\ \A j \in 1..i : j # i => j \in 1..(i - 1)
            BY <2>3
        <3> HIDE DEF Inventory
        <3> QED
            BY <3>1, <3>2 DEF InventoryProves
    <2> QED
        BY <1>0, <1>1, <2>3, <2>4 DEF SettingsInv, SettingsTypeOK, RunningProved, LogEntry
<1>2. ASSUME UNCHANGED log, cfg' = cfg \/ cfg' = None, file' \in Files,
             flushed' \in Nat, sent' \in Nat, sent' <= flushed', flushed' <= Len(log)
      PROVE  SettingsInv'
    BY <1>0, <1>2 DEF SettingsInv, SettingsTypeOK, InventoryProves, RunningProved
<1>3. CASE \E f \in Files : Edit(f)
    BY <1>0, <1>2, <1>3 DEF Edit
<1>4. CASE StartAgent
    <2> DEFINE c == Over(Default, file)
    <2>1. CASE c.ticks
        <3>1. Inventory(c) \in LogEntry /\ Inventory(c).cfg = c
            BY <1>0 DEF Inventory, Hash, LogEntry
        <3> HIDE DEF c
        <3> QED
            BY <1>0, <1>1, <1>4, <2>1, <3>1 DEF StartAgent, c
    <2>2. CASE ~c.ticks
        BY <1>0, <1>2, <1>4, <2>2 DEF StartAgent
    <2> QED
        BY <2>1, <2>2
<1>5. CASE InventoryTick
    <2>1. Inventory(cfg) \in LogEntry /\ Inventory(cfg).cfg = cfg /\ cfg \in Config
        BY <1>0, <1>5 DEF InventoryTick, Inventory, Hash, LogEntry
    <2> QED
        BY <1>1, <1>5, <2>1 DEF InventoryTick
<1>6. CASE Collect
    <2>1. Data(cfg) \in LogEntry /\ Data(cfg).cfg = cfg /\ cfg \in Config
        BY <1>0, <1>6 DEF Collect, Data, LogEntry
    <2> QED
        BY <1>1, <1>6, <2>1 DEF Collect
<1>7. CASE FlushTick
    BY <1>0, <1>2, <1>7 DEF FlushTick
<1>8. CASE DailyExport
    BY <1>0, <1>2, <1>8 DEF DailyExport, Bundle
<1>9. CASE ManualExport
    <2>1. UNCHANGED <<file, cfg, log, flushed>> /\ sent' = flushed
        BY <1>9 DEF ManualExport, Bundle
    <2> QED
        BY <1>0, <1>2, <2>1
<1>10. CASE Shutdown
    BY <1>0, <1>2, <1>10 DEF Shutdown
<1>11. CASE Crash
    <2>1. /\ log' = SubSeq(log, 1, flushed) /\ cfg' = None /\ UNCHANGED <<file, flushed, sent>>
        BY <1>11 DEF Crash
    <2>2. /\ log' \in Seq(LogEntry) /\ Len(log') = flushed
          /\ DOMAIN log' = 1..flushed /\ \A i \in 1..flushed : log'[i] = log[i]
        BY <1>0, <2>1
    <2>3. InventoryProves'
        <3> SUFFICES ASSUME NEW i \in 1..flushed, log'[i].kind = "data"
                     PROVE  \E j \in 1..(i - 1) : /\ log'[j] = Inventory(log'[i].cfg)
                                                  /\ \A k \in j..i : log'[k].cfg = log'[i].cfg
            BY <2>2 DEF InventoryProves
        <3>1. i \in DOMAIN log /\ log[i].kind = "data"
            BY <1>0, <2>2
        <3>2. PICK j \in 1..(i - 1) : /\ log[j] = Inventory(log[i].cfg)
                                      /\ \A k \in j..i : log[k].cfg = log[i].cfg
            BY <3>1 DEF SettingsInv, InventoryProves
        <3>3. j \in 1..flushed /\ \A k \in j..i : k \in 1..flushed
            BY <1>0, <3>2
        <3>4. log'[j] = Inventory(log'[i].cfg) /\ \A k \in j..i : log'[k].cfg = log'[i].cfg
            BY <2>2, <3>2, <3>3
        <3> QED
            BY <3>2, <3>4
    <2>4. RunningProved'
        BY <2>1 DEF RunningProved
    <2> QED
        BY <1>0, <2>1, <2>2, <2>3, <2>4 DEF SettingsInv, SettingsTypeOK, LogEntry
<1>12. CASE UNCHANGED settingsVars
    BY <1>0, <1>2, <1>12 DEF settingsVars
<1> QED
    BY <1>3, <1>4, <1>5, <1>6, <1>7, <1>8, <1>9, <1>10, <1>11, <1>12 DEF SettingsNext

\* Whatever agent.yaml says and whenever it is edited, the last inventory record
\* before a record has the configuration that was at work, also across shutdowns
\* and deaths of the agent (config.go:178-180).
THEOREM InventoriesProve == SettingsSpec => []InventoryIsProof
<1>1. SettingsInv => InventoryIsProof
    BY DEF SettingsInv, InventoryIsProof
<1> QED
    BY <1>1, SettingsStart, SettingsNextInv, PTL DEF SettingsSpec
=============================================================================
