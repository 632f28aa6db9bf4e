---------------------------- MODULE AnalyzerProofs ----------------------------
(***************************************************************************)
(* Theorems about what is collected from SQL Server and what the analyzer  *)
(* makes of it, for every set of names, process numbers, bundles and hosts.*)
(***************************************************************************)
EXTENDS SqlManager, SqlCollect, Dataset, Recommend, Recurrence, Stats, Lemmas

-----------------------------------------------------------------------------
(***************************************************************************)
(* Theorems about SqlManager.  A scan is a fold over the instances in the  *)
(* order they were found; what the proofs need of it is that no instance   *)
(* undoes what an earlier one did.                                         *)
(***************************************************************************)

-----------------------------------------------------------------------------
(* The manager's state.                                                    *)

Caches == {c \in [Names -> Inventory \cup {None}] : \A n \in Names : c[n] # None => c[n].name = n}
Managers == [queriers : SUBSET Names, cache : Caches, dirty : BOOLEAN]

\* The process numbers and the names of the running instances are unique.
Unique == \A p, q \in running : p.pid = q.pid \/ p.name = q.name => p = q

ManagerTypes ==
    /\ running \subseteq Process /\ Unique
    /\ access \in [Names -> Access]

\* Every record of a scan is about the instance it was made for.
LEMMA ProcessOnlyRecord ==
    ASSUME NEW inst \in Process
    PROVE  /\ ProcessOnlyInventory(inst) \in Inventory
           /\ ProcessOnlyInventory(inst).name = inst.name
BY DEF ProcessOnlyInventory, Inventory, Process

LEMMA DeepRecord ==
    ASSUME ManagerTypes, NEW inst \in [name : Names, pid : Pids \cup {0}], Answers(inst.name)
    PROVE  /\ DeepInventory(inst) \in Inventory
           /\ DeepInventory(inst).name = inst.name /\ DeepInventory(inst).level = "deep"
           /\ DeepInventory(inst).fresh = TRUE
           /\ inst \in running => DeepInventory(inst).pid = inst.pid
<1>1. PICK p0 \in running : p0.name = inst.name
    BY DEF Answers
<1> DEFINE q == CHOOSE p \in running : p.name = inst.name
           pid == IF inst.pid = 0 /\ access[inst.name] = "full" THEN q.pid ELSE inst.pid
<1>2. q \in running /\ q.name = inst.name
    BY <1>1
<1>3. q \in Process /\ q.pid \in Pids
    BY <1>2 DEF ManagerTypes, Process
<1>4. inst \in running => q = inst
    BY <1>2 DEF ManagerTypes, Unique
<1>5. DeepInventory(inst) = [name |-> inst.name, level |-> "deep", views |-> access[inst.name] = "full",
                             fresh |-> TRUE, pid |-> pid]
    BY DEF DeepInventory
<1>6. pid \in Pids \cup {0} /\ (inst \in running => pid = inst.pid)
    BY <1>3, <1>4
<1> HIDE DEF pid, q
<1>7. (access[inst.name] = "full") \in BOOLEAN
    OBVIOUS
<1> QED
    BY <1>5, <1>6, <1>7 DEF Inventory

\* One instance of a scan: nothing that was connected or recorded is lost, and the
\* instance is one or the other.
NoWorse(m, r) ==
    /\ m.queriers \subseteq r.queriers
    /\ \A n \in Names : m.cache[n] # None => r.cache[n] # None
    /\ (\A n \in Names : m.cache[n] # None => m.dirty) => (\A n \in Names : r.cache[n] # None => r.dirty)

Noted(r, name) ==
    /\ name \in r.queriers \/ r.cache[name] # None
    /\ Connects(name) => name \in r.queriers

LEMMA ScanOneKeeps ==
    ASSUME ManagerTypes, NEW m \in Managers, NEW inst \in Process
    PROVE  /\ ScanOne(m, inst) \in Managers
           /\ NoWorse(m, ScanOne(m, inst))
           /\ Noted(ScanOne(m, inst), inst.name)
<1> DEFINE n == inst.name
<1>0. n \in Names /\ inst \in [name : Names, pid : Pids \cup {0}]
    BY DEF Process
<1>1. m.queriers \in SUBSET Names /\ m.cache \in Caches /\ m.dirty \in BOOLEAN
      /\ m = [queriers |-> m.queriers, cache |-> m.cache, dirty |-> m.dirty]
    BY DEF Managers
<1>2. CASE n \in m.queriers
    <2>1. ScanOne(m, inst) = m
        BY <1>2 DEF ScanOne
    <2> QED
        BY <1>2, <2>1 DEF NoWorse, Noted
<1>3. CASE n \notin m.queriers /\ ~Connects(n)
    <2> DEFINE i == ProcessOnlyInventory(inst)
               c == [m.cache EXCEPT ![n] = i]
    <2>1. i \in Inventory /\ i.name = n /\ i # None
        BY ProcessOnlyRecord, NoneAssumption
    <2>2. ScanOne(m, inst) = [queriers |-> m.queriers, cache |-> c, dirty |-> TRUE]
        BY <1>1, <1>3 DEF ScanOne
    <2> HIDE DEF i
    <2>3. /\ c \in Caches /\ c[n] = i
          /\ \A k \in Names : k # n => c[k] = m.cache[k]
        BY <1>0, <1>1, <2>1 DEF Caches
    <2> HIDE DEF c, n
    <2> QED
        BY <1>1, <1>3, <2>1, <2>2, <2>3 DEF NoWorse, Noted, Managers, n
<1>4. CASE n \notin m.queriers /\ Connects(n)
    <2> DEFINE i == DeepInventory(inst)
               c == [m.cache EXCEPT ![n] = IF Answers(n) THEN i ELSE @]
               d == m.dirty \/ Answers(n)
    <2>1. ScanOne(m, inst) = [queriers |-> m.queriers \cup {n}, dirty |-> d, cache |-> c]
        BY <1>4 DEF ScanOne
    <2>2. Answers(n) => i \in Inventory /\ i.name = n /\ i # None
        BY <1>0, DeepRecord, NoneAssumption
    <2> HIDE DEF i
    <2>3. /\ c \in Caches
          /\ \A k \in Names : k # n => c[k] = m.cache[k]
          /\ Answers(n) => c[n] = i
          /\ ~Answers(n) => c[n] = m.cache[n]
        BY <1>0, <1>1, <2>2 DEF Caches
    <2>4. d \in BOOLEAN /\ (Answers(n) => d) /\ (m.dirty => d)
        BY <1>1
    <2> HIDE DEF c, n, d
    <2>5. NoWorse(m, ScanOne(m, inst))
        BY <1>0, <1>1, <2>1, <2>2, <2>3, <2>4 DEF NoWorse
    <2> QED
        BY <1>0, <1>1, <1>4, <2>1, <2>3, <2>4, <2>5 DEF Noted, Managers, n
<1> QED
    BY <1>2, <1>3, <1>4

-----------------------------------------------------------------------------
(* A whole scan.                                                           *)

\* The managers between the instances of a scan, by the instances done so far.
Scans(m, insts, g) ==
    /\ g \in [SUBSET DOMAIN insts -> Managers]
    /\ g[{}] = m
    /\ \A s \in SUBSET DOMAIN insts : s # {} => g[s] = ScanOne(g[s \ {Max(s)}], insts[Max(s)])

LEMMA LastOf ==
    ASSUME NEW insts \in Seq(Process), NEW s \in SUBSET DOMAIN insts
    PROVE  IsFiniteSet(DOMAIN insts) /\ IsFiniteSet(s) /\ (s # {} => Max(s) \in s)
<1>1. DOMAIN insts = 1 .. Len(insts) /\ Len(insts) \in Nat
    OBVIOUS
<1>2. IsFiniteSet(DOMAIN insts)
    BY <1>1, FS_Interval
<1>3. IsFiniteSet(s)
    BY <1>2, FS_Subset
<1>4. s \subseteq Int
    BY <1>1
<1> QED
    BY <1>2, <1>3, <1>4, MaxIsGreatest

LEMMA ScanFold ==
    ASSUME ManagerTypes, NEW m \in Managers, NEW insts \in Seq(Process)
    PROVE  \E g : Scans(m, insts, g) /\ FoldLeft(ScanOne, m, insts) = g[DOMAIN insts]
<1> DEFINE D == DOMAIN insts
           last == [s \in SUBSET D |-> Max(s)]
           step == [x \in D \X Managers |-> ScanOne(x[2], insts[x[1]])]
           Is(g) == g = [s \in SUBSET D |-> IF s = {} THEN m ELSE ScanOne(g[s \ {Max(s)}], insts[Max(s)])]
<1>1. IsFiniteSet(D) /\ \A s \in SUBSET D : s # {} => Max(s) \in s
    BY LastOf
<1>2. \A s \in SUBSET D : s # {} => last[s] \in s /\ last[s] = Max(s)
    BY <1>1
<1>3. \A i \in D, r \in Managers : ScanOne(r, insts[i]) \in Managers
    <2>1. \A i \in D : insts[i] \in Process
        OBVIOUS
    <2> QED
        BY <2>1, ScanOneKeeps
<1>4. step \in [D \X Managers -> Managers]
    BY <1>3
<1>5. \E g \in [SUBSET D -> Managers] : FoldOf(D, m, last, step, g)
    <2> HIDE DEF D, last, step
    <2> QED
        BY <1>1, <1>2, <1>4, FoldExists
<1>6. ASSUME NEW g \in [SUBSET D -> Managers]
      PROVE  FoldOf(D, m, last, step, g) <=> Is(g)
    <2>1. \A s \in SUBSET D : s # {} =>
             step[<<last[s], g[s \ {last[s]}]>>] = ScanOne(g[s \ {Max(s)}], insts[Max(s)])
        <3> SUFFICES ASSUME NEW s \in SUBSET D, s # {}
                     PROVE  step[<<last[s], g[s \ {last[s]}]>>] = ScanOne(g[s \ {Max(s)}], insts[Max(s)])
            OBVIOUS
        <3>1. last[s] \in D /\ last[s] = Max(s)
            BY <1>2
        <3>2. g[s \ {last[s]}] \in Managers
            OBVIOUS
        <3> HIDE DEF last, D
        <3> QED
            BY <3>1, <3>2
    <2> HIDE DEF step, last, D
    <2> QED
        BY <2>1 DEF FoldOf
<1>7. \E g : Is(g)
    <2> HIDE DEF Is, D, last, step
    <2> QED
        BY <1>5, <1>6
<1> DEFINE it == CHOOSE g : Is(g)
<1>8. FoldLeft(ScanOne, m, insts) = it[D]
    BY DEF FoldLeft, MapThenFoldSet
<1>9. Is(it)
    <2> HIDE DEF Is
    <2> QED
        BY <1>7
<1>10. PICK h \in [SUBSET D -> Managers] : Is(h)
    <2> HIDE DEF Is, D, last, step
    <2> QED
        BY <1>5, <1>6
<1> HIDE DEF it
\* The recursion determines the function.
<1>11. \A s \in SUBSET D : it[s] = h[s]
    <2> SUFFICES ASSUME ~\A s \in SUBSET D : it[s] = h[s] PROVE FALSE
        OBVIOUS
    <2> DEFINE X == {s \in SUBSET D : it[s] # h[s]}
    <2>1. X # {} /\ \A s \in X : IsFiniteSet(s)
        BY <1>1, FS_Subset
    <2>2. PICK s \in X : \A t \in X : t \subseteq s => t = s
        <3> HIDE DEF X
        <3> QED
            BY <2>1, SmallestSet
    <2>3. s \in SUBSET D /\ it[s] # h[s]
        OBVIOUS
    <2>4. s # {}
        BY <1>9, <1>10, <2>3
    <2>5. Max(s) \in s
        BY <1>1, <2>3, <2>4
    <2>6. it[s \ {Max(s)}] = h[s \ {Max(s)}]
        <3>1. (s \ {Max(s)}) \notin X
            <4> HIDE DEF X
            <4> QED
                BY <2>2, <2>5
        <3> QED
            BY <2>3, <3>1
    <2> HIDE DEF D, last, step, X
    <2>7. /\ it[s] = ScanOne(it[s \ {Max(s)}], insts[Max(s)])
          /\ h[s] = ScanOne(h[s \ {Max(s)}], insts[Max(s)])
        BY <1>9, <1>10, <2>3, <2>4
    <2> QED
        BY <2>3, <2>6, <2>7
<1>12. Scans(m, insts, h)
    BY <1>10 DEF Scans
<1>13. D \in SUBSET D
    OBVIOUS
<1> QED
    BY <1>8, <1>11, <1>12, <1>13

\* No instance undoes what an earlier one did.
LEMMA ScansKeep ==
    ASSUME ManagerTypes, NEW m \in Managers, NEW insts \in Seq(Process), NEW g, Scans(m, insts, g)
    PROVE  \A s \in SUBSET DOMAIN insts :
              NoWorse(m, g[s]) /\ \A i \in s : Noted(g[s], insts[i].name)
<1> DEFINE D == DOMAIN insts
           Kept(s) == NoWorse(m, g[s]) /\ \A i \in s : Noted(g[s], insts[i].name)
           X == {s \in SUBSET D : ~Kept(s)}
<1> SUFFICES ASSUME X # {} PROVE FALSE
    OBVIOUS
<1>1. \A s \in X : IsFiniteSet(s)
    BY LastOf
<1>2. PICK s \in X : \A t \in X : t \subseteq s => t = s
    <2> HIDE DEF X
    <2> QED
        BY <1>1, SmallestSet
<1>3. s \in SUBSET D /\ ~Kept(s)
    OBVIOUS
<1>4. s # {}
    <2>1. NoWorse(m, m)
        BY DEF NoWorse
    <2> QED
        BY <1>3, <2>1 DEF Scans
<1> DEFINE x == Max(s)
           t == s \ {x}
<1>5. x \in s /\ x \in D
    BY <1>3, <1>4, LastOf
<1>6. t \in SUBSET D /\ Kept(t)
    <2>1. t \notin X
        <3> HIDE DEF X
        <3> QED
            BY <1>2, <1>5
    <2> QED
        BY <1>3, <2>1
<1>7. g[t] \in Managers /\ g[s] = ScanOne(g[t], insts[x])
    BY <1>3, <1>4, <1>6 DEF Scans
<1>8. insts[x] \in Process /\ \A i \in D : insts[i].name \in Names
    <2>1. \A i \in D : insts[i] \in Process
        OBVIOUS
    <2>2. \A i \in D : insts[i].name \in Names
        BY <2>1 DEF Process
    <2> HIDE DEF x, X
    <2> QED
        BY <1>5, <2>1, <2>2
<1>9. g[s] \in Managers /\ NoWorse(g[t], g[s]) /\ Noted(g[s], insts[x].name)
    <2> HIDE DEF x, t
    <2> QED
        BY <1>7, <1>8, ScanOneKeeps
<1>10. Kept(t) /\ s = t \cup {x}
    BY <1>5, <1>6
<1> HIDE DEF x, t, X
<1>11. NoWorse(m, g[s])
    BY <1>9, <1>10 DEF NoWorse
<1>12. ASSUME NEW i \in t PROVE Noted(g[s], insts[i].name)
    <2>1. insts[i].name \in Names
        BY <1>6, <1>8
    <2> QED
        BY <1>9, <1>10, <2>1 DEF NoWorse, Noted
<1> QED
    BY <1>3, <1>9, <1>10, <1>11, <1>12

\* What a rescan leaves: every instance it found is connected or recorded.
LEMMA RescanKeeps ==
    ASSUME ManagerTypes, NEW m \in Managers, NEW insts \in Seq(Process)
    PROVE  LET r == Rescan(m, insts)
           IN  /\ r \in Managers
               /\ NoWorse(m, r)
               /\ \A i \in DOMAIN insts : Noted(r, insts[i].name)
<1> DEFINE a == Aged(m.cache)
           m1 == [m EXCEPT !.cache = a]
           r == Rescan(m, insts)
<1>1. m.queriers \in SUBSET Names /\ m.cache \in Caches /\ m.dirty \in BOOLEAN
      /\ m = [queriers |-> m.queriers, cache |-> m.cache, dirty |-> m.dirty]
    BY DEF Managers
<1>2. \A n \in Names : /\ a[n] = None <=> m.cache[n] = None
                       /\ a[n] # None => a[n] \in Inventory /\ a[n].name = n
    <2> SUFFICES ASSUME NEW n \in Names
                 PROVE  /\ a[n] = None <=> m.cache[n] = None
                        /\ a[n] # None => a[n] \in Inventory /\ a[n].name = n
        OBVIOUS
    <2>1. CASE m.cache[n] = None
        BY <2>1 DEF Aged
    <2>2. CASE m.cache[n] # None
        <3> DEFINE c == m.cache[n]
        <3>1. c \in Inventory /\ c.name = n
            BY <1>1, <2>2 DEF Caches
        <3>2. a[n] = [c EXCEPT !.fresh = FALSE]
            BY <2>2 DEF Aged
        <3> HIDE DEF c, a
        <3>3. a[n] \in Inventory /\ a[n].name = n
            BY <3>1, <3>2 DEF Inventory
        <3> QED
            BY <2>2, <3>3, NoneAssumption
    <2> QED
        BY <2>1, <2>2
<1>3. a \in Caches
    <2>1. a = [n \in Names |-> a[n]]
        BY DEF Aged
    <2> HIDE DEF a
    <2> QED
        BY <1>2, <2>1 DEF Caches
<1>4. m1 = [queriers |-> m.queriers, cache |-> a, dirty |-> m.dirty]
    BY <1>1
<1>5. m1 \in Managers /\ NoWorse(m, m1)
    <2> HIDE DEF a, m1
    <2> QED
        BY <1>1, <1>2, <1>3, <1>4 DEF Managers, NoWorse
<1>6. PICK g : Scans(m1, insts, g) /\ r = g[DOMAIN insts]
    <2>1. r = FoldLeft(ScanOne, m1, insts)
        BY DEF Rescan
    <2> HIDE DEF m1, r
    <2> QED
        BY <1>5, <2>1, ScanFold
<1>7. NoWorse(m1, r) /\ (\A i \in DOMAIN insts : Noted(r, insts[i].name)) /\ r \in Managers
    <2>1. DOMAIN insts \in SUBSET DOMAIN insts
        OBVIOUS
    <2> HIDE DEF m1, r
    <2> QED
        BY <1>5, <1>6, <2>1, ScansKeep DEF Scans
<1> HIDE DEF m1, r
<1>8. NoWorse(m, r)
    BY <1>5, <1>7 DEF NoWorse
<1> QED
    BY <1>7, <1>8 DEF r

-----------------------------------------------------------------------------
(* What the manager looks up.                                              *)

\* A scan finds every running instance and nothing else.
LEMMA FoundAll ==
    ASSUME ManagerTypes, NEW insts \in DetectInstances
    PROVE  /\ insts \in Seq(Process)
           /\ \A i \in DOMAIN insts : insts[i] \in running
           /\ \A p \in running : \E i \in DOMAIN insts : insts[i] = p
<1> DEFINE D == 1 .. Cardinality(running)
           names == [p \in running |-> p.name]
<1>1. names \in Injection(running, Names)
    <2>1. \A p \in running : p.name \in Names
        BY DEF ManagerTypes, Process
    <2>2. \A p, q \in running : names[p] = names[q] => p = q
        BY DEF ManagerTypes, Unique
    <2> QED
        BY <2>1, <2>2 DEF Injection, IsInjective
<1>2. IsFiniteSet(running) /\ Cardinality(running) \in Nat
    BY <1>1, SqlManagerAssumption, FS_Injection, FS_CardinalityType
<1>3. insts \in [D -> running] /\ \A i, j \in D : i # j => insts[i] # insts[j]
    BY DEF DetectInstances, SetToSeqs
<1>4. DOMAIN insts = D
    BY <1>3
<1>5. insts \in Injection(D, running)
    BY <1>3 DEF Injection, IsInjective
<1>6. Cardinality(D) = Cardinality(running)
    BY <1>2, FS_Interval
<1>7. insts \in Surjection(D, running)
    <2> HIDE DEF D
    <2> QED
        BY <1>2, <1>5, <1>6, FS_Injection
<1>8. \A p \in running : \E i \in D : insts[i] = p
    <2> HIDE DEF D
    <2> QED
        BY <1>7 DEF Surjection
<1>9. insts \in Seq(Process)
    <2>1. insts \in [D -> Process]
        BY <1>3 DEF ManagerTypes
    <2>2. insts \in [1 .. Cardinality(running) -> Process]
        BY <2>1
    <2> QED
        BY <1>2, <2>2
<1> QED
    BY <1>3, <1>4, <1>8, <1>9

LEMMA FindIsNamed ==
    ASSUME NEW insts \in Seq(Process), NEW n \in Names
    PROVE  /\ FindInstance(n, insts) \in [name : Names, pid : Pids \cup {0}]
           /\ FindInstance(n, insts).name = n
           /\ (\E i \in DOMAIN insts : insts[i].name = n) =>
                 \E i \in DOMAIN insts : FindInstance(n, insts) = insts[i]
<1> DEFINE X == {i \in DOMAIN insts : insts[i].name = n}
<1>1. CASE X = {}
    <2>1. FindInstance(n, insts) = [name |-> n, pid |-> 0]
        BY <1>1 DEF FindInstance
    <2> QED
        BY <1>1, <2>1
<1>2. CASE X # {}
    <2>1. DOMAIN insts = 1 .. Len(insts) /\ Len(insts) \in Nat
        OBVIOUS
    <2>2. X \subseteq Nat
        BY <2>1
    <2>3. PICK k \in X : \A m \in X : k <= m
        <3> HIDE DEF X
        <3> QED
            BY <1>2, <2>2, LeastNumber
    <2>4. \A j \in 1 .. (k - 1) : insts[j].name # n
        <3> SUFFICES ASSUME NEW j \in 1 .. (k - 1), insts[j].name = n PROVE FALSE
            OBVIOUS
        <3>1. k \in 1 .. Len(insts) /\ j < k /\ j \in 1 .. Len(insts)
            BY <2>1, <2>3
        <3>2. j \in X
            BY <2>1, <3>1
        <3> HIDE DEF X
        <3> QED
            BY <2>2, <2>3, <3>1, <3>2
    <2> DEFINE c == CHOOSE i \in DOMAIN insts : /\ insts[i].name = n
                                                /\ \A j \in 1..(i - 1) : insts[j].name # n
    <2>5. c \in DOMAIN insts /\ insts[c].name = n
        BY <2>3, <2>4
    <2>6. FindInstance(n, insts) = insts[c]
        BY <1>2 DEF FindInstance
    <2>7. insts[c] \in Process
        <3> HIDE DEF c
        <3> QED
            BY <2>5
    <2> HIDE DEF c
    <2> QED
        BY <2>5, <2>6, <2>7 DEF Process
<1> QED
    BY <1>1, <1>2

\* What is appended after a rescan r: the records are typed, none is lost, and a
\* connection that answers has a fresh one.
LEMMA WritesKeep ==
    ASSUME ManagerTypes, NEW r \in Managers, NEW insts \in Seq(Process)
    PROVE  LET w == WriteInventories(r, insts)
           IN  /\ w.cache \in Caches
               /\ w.written = Written(w.cache)
               /\ \A n \in Names : r.cache[n] # None => w.cache[n] # None
               /\ \A n \in Names : n \in r.queriers /\ Answers(n) =>
                     w.cache[n] = DeepInventory(FindInstance(n, insts)) /\ w.cache[n] # None
<1> DEFINE w == WriteInventories(r, insts)
           found(n) == DeepInventory(FindInstance(n, insts))
           c == [n \in Names |-> IF n \in r.queriers /\ Answers(n) THEN found(n) ELSE r.cache[n]]
<1>1. w = [cache |-> c, written |-> Written(c)]
    BY DEF WriteInventories
<1>2. \A n \in Names : Answers(n) => found(n) \in Inventory /\ found(n).name = n /\ found(n) # None
    <2> SUFFICES ASSUME NEW n \in Names, Answers(n)
                 PROVE  found(n) \in Inventory /\ found(n).name = n /\ found(n) # None
        OBVIOUS
    <2>1. /\ FindInstance(n, insts) \in [name : Names, pid : Pids \cup {0}]
          /\ FindInstance(n, insts).name = n
        BY FindIsNamed
    <2> QED
        BY <2>1, DeepRecord, NoneAssumption
<1>3. r.cache \in Caches
    BY DEF Managers
<1> HIDE DEF found
<1>4. \A n \in Names : c[n] = IF n \in r.queriers /\ Answers(n) THEN found(n) ELSE r.cache[n]
    OBVIOUS
<1>5. c \in Caches
    <2>1. c = [n \in Names |-> c[n]]
        OBVIOUS
    <2>2. \A n \in Names : c[n] \in Inventory \cup {None} /\ (c[n] # None => c[n].name = n)
        BY <1>2, <1>3, <1>4 DEF Caches
    <2> HIDE DEF c
    <2> QED
        BY <2>1, <2>2 DEF Caches
<1> HIDE DEF c
<1> QED
    BY <1>1, <1>2, <1>4, <1>5 DEF found

\* The spool takes every record that is there and keeps the rest.
LEMMA WrittenKeeps ==
    ASSUME NEW cache \in Caches, spool \in Caches
    PROVE  /\ Written(cache) \in Caches
           /\ \A n \in Names : cache[n] # None => Written(cache)[n] = cache[n]
<1> DEFINE u == Written(cache)
<1>1. \A n \in Names : u[n] = IF cache[n] = None THEN spool[n] ELSE cache[n]
    BY DEF Written
<1>2. u = [n \in Names |-> u[n]]
    BY DEF Written
<1> HIDE DEF u
<1>3. u \in Caches
    <2>1. \A n \in Names : u[n] \in Inventory \cup {None} /\ (u[n] # None => u[n].name = n)
        BY <1>1 DEF Caches
    <2> QED
        BY <1>2, <2>1 DEF Caches
<1>4. \A n \in Names : cache[n] # None => u[n] = cache[n]
    BY <1>1
<1> QED
    BY <1>3, <1>4 DEF u

-----------------------------------------------------------------------------
(* The invariant: besides what ScanIsRecorded says, the host runs no two   *)
(* instances of one name or with one process number.                       *)

SqlInv ==
    /\ TypeOK /\ Unique
    /\ WrittenOrMarked
    /\ UnreachableIsNoted

LEMMA SqlTypes ==
    ASSUME TypeOK, Unique
    PROVE  /\ ManagerTypes
           /\ invCache \in Caches /\ spool \in Caches
           /\ [queriers |-> queriers, cache |-> invCache, dirty |-> invDirty] \in Managers
BY DEF TypeOK, ManagerTypes, Caches, Managers

\* A cache that was written as it is has nothing left to mark.
LEMMA WrittenIsNotOwed ==
    ASSUME spool \in Caches, invCache \in Caches,
           \A n \in Names : invCache[n] # None => spool[n] = invCache[n]
    PROVE  WrittenOrMarked
<1> SUFFICES ASSUME NEW n \in Names, invCache[n] # None
             PROVE  spool[n] # None /\ Aged(spool)[n] = Aged(invCache)[n]
    BY DEF WrittenOrMarked
<1>1. spool[n] = invCache[n]
    OBVIOUS
<1> QED
    BY <1>1 DEF Aged

LEMMA SqlInit == Init => SqlInv
<1> SUFFICES ASSUME Init PROVE SqlInv
    OBVIOUS
<1> DEFINE none == [n \in Names |-> None]
           m == [queriers |-> {}, cache |-> none, dirty |-> FALSE]
<1>1. running \subseteq Process /\ Unique /\ access \in [Names -> Access]
    BY DEF Init, Unique
<1>2. ManagerTypes
    BY <1>1 DEF ManagerTypes
<1>3. PICK insts \in DetectInstances :
          LET r == Rescan(m, insts)
          IN  /\ instances = insts
              /\ queriers = r.queriers /\ invCache = r.cache /\ invDirty = r.dirty
              /\ spool = none
    BY DEF Init
<1> DEFINE r == Rescan(m, insts)
<1>4. none \in Caches /\ m \in Managers /\ \A n \in Names : m.cache[n] = None
    BY DEF Caches, Managers
<1>5. insts \in Seq(Process)
    BY <1>2, FoundAll
<1> HIDE DEF m
<1>6. r \in Managers /\ NoWorse(m, r) /\ \A i \in DOMAIN insts : Noted(r, insts[i].name)
    BY <1>2, <1>4, <1>5, RescanKeeps
<1>7. instances = insts /\ queriers = r.queriers /\ invCache = r.cache /\ invDirty = r.dirty /\ spool = none
    BY <1>3
<1> HIDE DEF r, none
<1>8. TypeOK
    <2>1. queriers \subseteq Names /\ invCache \in Caches /\ invDirty \in BOOLEAN /\ spool \in Caches
        BY <1>4, <1>6, <1>7 DEF Managers
    <2> QED
        BY <1>1, <1>5, <1>7, <2>1 DEF TypeOK, Caches
<1>9. WrittenOrMarked
    BY <1>4, <1>6, <1>7 DEF NoWorse, WrittenOrMarked
<1>10. UnreachableIsNoted
    BY <1>6, <1>7 DEF Noted, UnreachableIsNoted
<1> QED
    BY <1>1, <1>8, <1>9, <1>10 DEF SqlInv

\* What sqlInvTick leaves, whatever the scan's order.
LEMMA TickLeaves ==
    ASSUME SqlInv, InventoryTick
    PROVE  \E insts \in DetectInstances, r \in Managers :
              /\ insts \in Seq(Process) /\ instances' = insts /\ queriers' = r.queriers
              /\ \A i \in DOMAIN insts : Noted(r, insts[i].name)
              /\ invCache' \in Caches /\ spool' \in Caches
              /\ \A n \in Names : r.cache[n] # None => invCache'[n] # None
              /\ \A n \in Names : invCache'[n] # None => spool'[n] = invCache'[n]
              /\ \A n \in Names : n \in r.queriers /\ Answers(n) =>
                    /\ invCache'[n] = DeepInventory(FindInstance(n, insts))
                    /\ invCache'[n] # None
<1> DEFINE m == [queriers |-> queriers, cache |-> invCache, dirty |-> invDirty]
<1>1. ManagerTypes /\ invCache \in Caches /\ spool \in Caches /\ m \in Managers
    BY SqlTypes DEF SqlInv
<1>2. PICK insts \in DetectInstances :
          LET r == Rescan(m, insts)
              w == WriteInventories(r, insts)
          IN  /\ instances' = insts
              /\ queriers' = r.queriers
              /\ invCache' = w.cache
              /\ spool' = w.written
    BY DEF InventoryTick
<1>3. insts \in Seq(Process)
    BY <1>1, FoundAll
<1> DEFINE r == Rescan(m, insts)
           w == WriteInventories(r, insts)
<1>4. instances' = insts /\ queriers' = r.queriers /\ invCache' = w.cache /\ spool' = w.written
    BY <1>2
<1> HIDE DEF m
<1>5. r \in Managers /\ \A i \in DOMAIN insts : Noted(r, insts[i].name)
    BY <1>1, <1>3, RescanKeeps
<1> HIDE DEF r
<1>6. /\ w.cache \in Caches
      /\ w.written = Written(w.cache)
      /\ \A n \in Names : r.cache[n] # None => w.cache[n] # None
      /\ \A n \in Names : n \in r.queriers /\ Answers(n) =>
            w.cache[n] = DeepInventory(FindInstance(n, insts)) /\ w.cache[n] # None
    BY <1>1, <1>3, <1>5, WritesKeep
<1> HIDE DEF w
<1>7. w.written \in Caches /\ \A n \in Names : w.cache[n] # None => w.written[n] = w.cache[n]
    BY <1>1, <1>6, WrittenKeeps
<1> QED
    BY <1>3, <1>4, <1>5, <1>6, <1>7

LEMMA SqlNext == SqlInv /\ [Next]_vars => SqlInv'
<1> SUFFICES ASSUME SqlInv, [Next]_vars PROVE SqlInv'
    OBVIOUS
<1> USE DEF SqlInv
<1>0. ManagerTypes /\ invCache \in Caches /\ spool \in Caches
    BY SqlTypes
<1>1. CASE InventoryTick
    <2>1. UNCHANGED <<running, access>> /\ invDirty' = FALSE
        BY <1>1 DEF InventoryTick
    <2>2. PICK insts \in DetectInstances, r \in Managers :
              /\ insts \in Seq(Process) /\ instances' = insts /\ queriers' = r.queriers
              /\ \A i \in DOMAIN insts : Noted(r, insts[i].name)
              /\ invCache' \in Caches /\ spool' \in Caches
              /\ \A n \in Names : r.cache[n] # None => invCache'[n] # None
              /\ \A n \in Names : invCache'[n] # None => spool'[n] = invCache'[n]
        BY <1>1, TickLeaves
    <2>3. TypeOK'
        BY <2>1, <2>2 DEF TypeOK, Caches, Managers
    <2>4. Unique'
        BY <2>1 DEF Unique
    <2>5. WrittenOrMarked'
        <3> SUFFICES ASSUME NEW n \in Names, invCache'[n] # None
                     PROVE  spool'[n] # None /\ Aged(spool)'[n] = Aged(invCache)'[n]
            BY DEF WrittenOrMarked
        <3>1. spool'[n] = invCache'[n]
            BY <2>2
        <3> QED
            BY <3>1 DEF Aged
    <2>6. UnreachableIsNoted'
        <3> SUFFICES ASSUME NEW i \in DOMAIN instances'
                     PROVE  instances'[i].name \in queriers' \/ invCache'[instances'[i].name] # None
            BY DEF UnreachableIsNoted
        <3>1. insts[i] \in Process /\ insts[i].name \in Names
            <4>1. i \in DOMAIN insts
                BY <2>2
            <4>2. insts[i] \in Process
                BY <2>2, <4>1
            <4> QED
                BY <4>2 DEF Process
        <3> QED
            BY <2>2, <3>1 DEF Noted
    <2> QED
        BY <2>3, <2>4, <2>5, <2>6
<1>2. CASE SampleTick
    <2>1. /\ UNCHANGED <<running, access, instances, queriers, invCache>> /\ invDirty' = FALSE
          /\ invDirty => spool' = Written(invCache)
          /\ ~invDirty => spool' = spool
        BY <1>2 DEF SampleTick
    <2>2. spool' \in Caches
        BY <1>0, <2>1, WrittenKeeps
    <2>3. TypeOK'
        BY <2>1, <2>2 DEF TypeOK, Caches
    <2>4. WrittenOrMarked'
        <3> SUFFICES ASSUME NEW n \in Names, invCache'[n] # None
                     PROVE  spool'[n] # None /\ Aged(spool)'[n] = Aged(invCache)'[n]
            BY DEF WrittenOrMarked
        <3>1. CASE invDirty
            <4>1. spool'[n] = invCache'[n]
                BY <1>0, <2>1, <3>1, WrittenKeeps
            <4> QED
                BY <4>1 DEF Aged
        <3>2. CASE ~invDirty
            BY <2>1, <3>2 DEF WrittenOrMarked, Aged
        <3> QED
            BY <3>1, <3>2
    <2>5. Unique' /\ UnreachableIsNoted'
        BY <2>1 DEF Unique, UnreachableIsNoted
    <2> QED
        BY <2>3, <2>4, <2>5
<1>3. ASSUME UNCHANGED <<manager, spool>>
      PROVE  WrittenOrMarked' /\ UnreachableIsNoted'
    BY <1>3 DEF manager, WrittenOrMarked, UnreachableIsNoted, Aged
<1>4. ASSUME NEW n \in Names, NEW pid \in Pids, Start(n, pid)
      PROVE  SqlInv'
    <2>1. /\ running' = running \cup {[name |-> n, pid |-> pid]} /\ UNCHANGED <<access, manager, spool>>
          /\ \A q \in running : q.name # n /\ q.pid # pid
        BY <1>4 DEF Start
    <2>2. TypeOK'
        BY <2>1 DEF TypeOK, manager, Process
    <2>3. Unique'
        BY <2>1 DEF Unique
    <2> QED
        BY <1>3, <2>1, <2>2, <2>3
<1>5. ASSUME NEW q \in running, Stop(q)
      PROVE  SqlInv'
    <2>1. running' \subseteq running /\ UNCHANGED <<access, manager, spool>>
        BY <1>5 DEF Stop
    <2>2. TypeOK'
        BY <2>1 DEF TypeOK, manager
    <2>3. Unique'
        BY <2>1 DEF Unique
    <2> QED
        BY <1>3, <2>1, <2>2, <2>3
<1>6. ASSUME NEW n \in Names, NEW a \in Access, Grant(n, a)
      PROVE  SqlInv'
    <2>1. UNCHANGED <<running, manager, spool>> /\ access' = [access EXCEPT ![n] = a]
        BY <1>6 DEF Grant
    <2>2. TypeOK'
        BY <2>1 DEF TypeOK, manager
    <2>3. Unique'
        BY <2>1 DEF Unique
    <2> QED
        BY <1>3, <2>1, <2>2, <2>3
<1>7. CASE UNCHANGED vars
    BY <1>3, <1>7 DEF vars, manager, TypeOK, Unique
<1> QED
    BY <1>1, <1>2, <1>4, <1>5, <1>6, <1>7 DEF Next

\* rescan, writeInventories and sample: the mark that one handler sets is never
\* lost to the reset of another, and no instance the last scan found is left
\* without a connection and without a record.
THEOREM ScansAreRecorded == Spec => []ScanIsRecorded
<1>1. SqlInv => ScanIsRecorded
    BY DEF SqlInv, ScanIsRecorded
<1> QED
    BY <1>1, SqlInit, SqlNext, PTL DEF Spec

-----------------------------------------------------------------------------
(* The tick.                                                               *)

LEMMA TickSees ==
    ASSUME SqlInv, InventoryTick, NEW p \in running
    PROVE  /\ Said(p.pid, instances') = p.name
           /\ Answers(p.name) =>
                 LET r == spool'[p.name]
                 IN  /\ r # None /\ r.level = "deep" /\ r.fresh /\ r.pid = p.pid
                     /\ SpikeContext(p.name)' = p.name
<1>1. ManagerTypes
    BY SqlTypes DEF SqlInv
<1>2. PICK insts \in DetectInstances, r \in Managers :
          /\ insts \in Seq(Process) /\ instances' = insts /\ queriers' = r.queriers
          /\ \A i \in DOMAIN insts : Noted(r, insts[i].name)
          /\ \A n \in Names : invCache'[n] # None => spool'[n] = invCache'[n]
          /\ \A n \in Names : n \in r.queriers /\ Answers(n) =>
                invCache'[n] = DeepInventory(FindInstance(n, insts)) /\ invCache'[n] # None
    BY TickLeaves
<1>3. /\ \A i \in DOMAIN insts : insts[i] \in running
      /\ \A q \in running : \E i \in DOMAIN insts : insts[i] = q
    BY <1>1, FoundAll
<1>4. PICK k \in DOMAIN insts : insts[k] = p
    BY <1>3
<1>5. p \in Process /\ p.name \in Names /\ p.pid \in Pids /\ p.name # None
    BY <1>1, SqlManagerAssumption DEF ManagerTypes, Process
<1>6. \A q \in running : (q.pid = p.pid \/ q.name = p.name) => q = p
    BY <1>1 DEF ManagerTypes, Unique
<1>7. Said(p.pid, insts) = p.name
    <2> DEFINE D == {insts[i].pid : i \in DOMAIN insts}
               c == CHOOSE x \in Range(insts) : x.pid = p.pid
    <2>1. p.pid \in D
        BY <1>4
    <2>2. \A x \in Range(insts) : x \in running
        BY <1>3 DEF Range
    <2>3. p \in Range(insts)
        BY <1>4 DEF Range
    <2>4. c \in Range(insts) /\ c.pid = p.pid
        BY <2>3
    <2>5. c = p
        <3> HIDE DEF c
        <3> QED
            BY <1>6, <2>2, <2>4
    <2>6. p.pid \in DOMAIN PidToInstance(insts) /\ PidToInstance(insts)[p.pid] = c.name
        BY <2>1 DEF PidToInstance
    <2> HIDE DEF c
    <2> QED
        BY <2>5, <2>6 DEF Said
<1>8. ASSUME Answers(p.name)
      PROVE  LET x == spool'[p.name]
             IN  /\ x # None /\ x.level = "deep" /\ x.fresh /\ x.pid = p.pid
                 /\ SpikeContext(p.name)' = p.name
    <2>1. Connects(p.name)
        BY <1>8 DEF Connects, Answers
    <2>2. p.name \in r.queriers
        BY <1>2, <1>4, <2>1 DEF Noted
    <2>3. FindInstance(p.name, insts) = p
        <3>1. /\ FindInstance(p.name, insts).name = p.name
              /\ \E i \in DOMAIN insts : FindInstance(p.name, insts) = insts[i]
            BY <1>2, <1>4, <1>5, FindIsNamed
        <3> QED
            BY <1>3, <1>6, <3>1
    <2>4. spool'[p.name] = DeepInventory(p) /\ spool'[p.name] # None
        BY <1>2, <1>5, <1>8, <2>2, <2>3
    <2>5. p \in [name : Names, pid : Pids \cup {0}]
        BY <1>5 DEF Process
    <2>6. DeepInventory(p).level = "deep" /\ DeepInventory(p).fresh = TRUE /\ DeepInventory(p).pid = p.pid
        BY <1>1, <1>8, <2>5, DeepRecord
    <2>7. SpikeContext(p.name)' = p.name
        BY <1>2, <1>5, <2>2 DEF SpikeContext
    <2> QED
        BY <2>4, <2>6, <2>7
<1> QED
    BY <1>2, <1>7, <1>8

\* writeInventories asks every connection again: after sqlInvTick every instance
\* that answers has a fresh deep record with the process number it has now, also
\* after a refusal or a restart, and its spikes are attributed to it and asked
\* of it.
THEOREM TicksSeeInstances == Spec => TickSeesInstance
<1>1. SqlInv /\ [Next]_vars =>
          [InventoryTick => \A p \in running :
              /\ Said(p.pid, instances') = p.name
              /\ Answers(p.name) =>
                    LET r == spool'[p.name]
                    IN  /\ r # None /\ r.level = "deep" /\ r.fresh /\ r.pid = p.pid
                        /\ SpikeContext(p.name)' = p.name]_vars
    BY TickSees
<1> QED
    BY <1>1, SqlInit, SqlNext, PTL DEF Spec, TickSeesInstance
-----------------------------------------------------------------------------
(***************************************************************************)
(* Theorems about SqlCollect.                                              *)
(***************************************************************************)

-----------------------------------------------------------------------------
(* The inductive invariant.                                                *)

Counter == {"batch", "waitMS", "waits", "reads", "writes", "stall"}

\* The counter f as it was read with the last sample is behind the engine by no
\* more than the work since; it is ahead when the engine was restarted.
Behind(query, f) ==
    prev # None /\ prev[query] # None =>
        prev[query][f] \in Nat /\ engine[f] - prev[query][f] <= work[f]

CountersInv ==
    /\ engine \in [Counter -> Nat] /\ work \in [Counter -> Nat]
    /\ Behind("perf_counters", "batch")
    /\ Behind("wait_stats", "waitMS") /\ Behind("wait_stats", "waits")
    /\ Behind("file_io", "reads") /\ Behind("file_io", "writes")
    /\ role \in {"", "PRIMARY", "SECONDARY"}

LEMMA ZeroCounts == Zero \in [Counter -> Nat] /\ \A f \in Counter : Zero[f] = 0
<1>1. DOMAIN Zero = Counter /\ \A f \in Counter : Zero[f] = 0
    BY DEF Zero, Counter
<1>2. Zero = [f \in Counter |-> Zero[f]]
    BY <1>1 DEF Zero
<1> QED
    BY <1>1, <1>2

LEMMA CountersStart == CollectInit => CountersInv /\ SamplesAreReal /\ SilenceIsNoEvidence
<1> SUFFICES ASSUME CollectInit PROVE CountersInv /\ SamplesAreReal /\ SilenceIsNoEvidence
    OBVIOUS
<1>1. CountersInv
    BY ZeroCounts DEF CollectInit, CountersInv, Behind
<1>2. SamplesAreReal /\ SilenceIsNoEvidence
    BY DEF CollectInit, SamplesAreReal, CollectTypeOK, NeverOverstated, SilenceIsNoEvidence,
           LevelIsEvidence, HoleIsNoAdvice
<1> QED
    BY <1>1, <1>2

LEMMA WorkAdds ==
    ASSUME NEW c \in [Counter -> Nat], NEW fs,
           \/ fs = [batch |-> 1] \/ fs = [waits |-> 1, waitMS |-> 1] \/ fs = [waits |-> 1, waitMS |-> 4]
           \/ fs = [reads |-> 1, stall |-> 1] \/ fs = [reads |-> 1, stall |-> 4] \/ fs = [writes |-> 1]
    PROVE  /\ Add(c, fs) \in [Counter -> Nat]
           /\ \A f \in Counter : Add(c, fs)[f] = c[f] + (IF f \in DOMAIN fs THEN fs[f] ELSE 0)
           /\ \A f \in DOMAIN fs : fs[f] \in Nat
<1>1. \A f \in DOMAIN fs : fs[f] \in Nat
    OBVIOUS
<1>2. \A f \in Counter : c[f] \in Nat
    OBVIOUS
<1>3. \A f \in Counter : Add(c, fs)[f] = c[f] + (IF f \in DOMAIN fs THEN fs[f] ELSE 0)
    BY <1>2 DEF Add
<1>4. DOMAIN Add(c, fs) = Counter /\ Add(c, fs) = [f \in Counter |-> Add(c, fs)[f]]
    BY DEF Add
<1>5. \A f \in Counter : Add(c, fs)[f] \in Nat
    BY <1>1, <1>2, <1>3
<1> QED
    BY <1>1, <1>3, <1>4, <1>5

LEMMA WorkKeepsCounters ==
    ASSUME CountersInv, Work
    PROVE  CountersInv'
<1>1. PICK fs : /\ \/ fs = [batch |-> 1] \/ fs = [waits |-> 1, waitMS |-> 1] \/ fs = [waits |-> 1, waitMS |-> 4]
                   \/ fs = [reads |-> 1, stall |-> 1] \/ fs = [reads |-> 1, stall |-> 4] \/ fs = [writes |-> 1]
                /\ engine' = Add(engine, fs) /\ work' = Add(work, fs)
    BY DEF Work
<1>2. prev' = prev /\ role' = role
    BY DEF Work
<1>3. engine' \in [Counter -> Nat] /\ work' \in [Counter -> Nat]
    BY <1>1, WorkAdds DEF CountersInv
<1>4. ASSUME NEW query, NEW f \in Counter, Behind(query, f)
      PROVE  Behind(query, f)'
    <2> DEFINE d == IF f \in DOMAIN fs THEN fs[f] ELSE 0
    <2>0. engine \in [Counter -> Nat] /\ work \in [Counter -> Nat]
        BY DEF CountersInv
    <2>1. engine'[f] = engine[f] + d /\ work'[f] = work[f] + d /\ d \in Nat
        <3>1. /\ Add(engine, fs)[f] = engine[f] + d /\ Add(work, fs)[f] = work[f] + d
              /\ f \in DOMAIN fs => fs[f] \in Nat
            BY <1>1, <2>0, WorkAdds
        <3> QED
            BY <1>1, <3>1
    <2>2. engine[f] \in Nat /\ work[f] \in Nat
        BY DEF CountersInv
    <2> HIDE DEF d
    <2> QED
        BY <1>2, <1>4, <2>1, <2>2 DEF Behind
<1> QED
    BY <1>2, <1>3, <1>4 DEF CountersInv, Counter

\* After a sample nothing has been done, and what could be read is up to date.
LEMMA SampleKeepsCounters ==
    ASSUME CountersInv, CollectSample
    PROVE  CountersInv'
<1>1. engine' = engine /\ role' = role /\ work' = Zero /\ prev' = State
    BY DEF CollectSample
<1>2. work' \in [Counter -> Nat] /\ \A f \in Counter : work'[f] = 0 /\ engine[f] \in Nat
    BY <1>1, ZeroCounts DEF CountersInv
<1>3. ASSUME NEW query, NEW fields, NEW f \in fields \cap Counter, State[query] = Remember(query, fields)
      PROVE  Behind(query, f)'
    <2>1. CASE query \in failed'
        BY <1>1, <1>3, <2>1 DEF Behind, Remember
    <2>2. CASE query \notin failed'
        <3>1. prev'[query][f] = engine[f]
            BY <1>1, <1>3, <2>2 DEF Remember
        <3> QED
            BY <1>1, <1>2, <3>1 DEF Behind
    <2> QED
        BY <2>1, <2>2
<1>4. /\ State["perf_counters"] = Remember("perf_counters", {"batch"})
      /\ State["wait_stats"] = Remember("wait_stats", {"waitMS", "waits"})
      /\ State["file_io"] = Remember("file_io", {"reads", "writes", "stall"})
    BY DEF State
<1>5. Behind("perf_counters", "batch")'
    BY <1>3, <1>4 DEF Counter
<1>6. Behind("wait_stats", "waitMS")' /\ Behind("wait_stats", "waits")'
    BY <1>3, <1>4 DEF Counter
<1>7. Behind("file_io", "reads")' /\ Behind("file_io", "writes")'
    BY <1>3, <1>4 DEF Counter
<1> QED
    BY <1>1, <1>2, <1>5, <1>6, <1>7 DEF CountersInv

LEMMA CountersNext == CountersInv /\ [CollectNext]_collectVars => CountersInv'
<1> SUFFICES ASSUME CountersInv, [CollectNext]_collectVars PROVE CountersInv'
    OBVIOUS
<1>1. CASE CollectSample
    BY <1>1, SampleKeepsCounters
<1>2. CASE CollectInventory \/ CollectSpikeContext \/ UNCHANGED collectVars
    BY <1>2 DEF CollectInventory, CollectSpikeContext, collectVars, CountersInv, Behind
<1>3. CASE Work
    BY <1>3, WorkKeepsCounters
<1>4. CASE EngineRestart
    <2>1. /\ engine' = Zero /\ UNCHANGED <<work, prev, role>>
          /\ engine' \in [Counter -> Nat] /\ \A f \in Counter : engine'[f] = 0 /\ work[f] \in Nat
        BY <1>4, ZeroCounts DEF EngineRestart, CountersInv
    <2>2. ASSUME NEW query, NEW f \in Counter, Behind(query, f)
          PROVE  Behind(query, f)'
        BY <2>1, <2>2 DEF Behind
    <2> QED
        BY <2>1, <2>2 DEF CountersInv, Counter
<1>5. CASE Failover
    BY <1>5 DEF Failover, CountersInv, Behind
<1>6. CASE AgentRestart
    BY <1>6, ZeroCounts DEF AgentRestart, CountersInv, Behind
<1> QED
    BY <1>1, <1>2, <1>3, <1>4, <1>5, <1>6 DEF CollectNext

-----------------------------------------------------------------------------
(* What a sample says.                                                     *)

\* Every query's figure is no more than the work that the sample is about.
LEMMA SampleIsReal ==
    ASSUME CountersInv, CollectSample
    PROVE  SamplesAreReal'
<1> DEFINE batch == Delta("perf_counters", "batch")
           ms == Delta("wait_stats", "waitMS")
           reads == Delta("file_io", "reads")
           writes == Delta("file_io", "writes")
<1>1. /\ sample' = [batch |-> PerfRate, wait |-> WaitDelta, io |-> FileIO, done |-> work]
      /\ inv' = None
      /\ failed' \subseteq {"perf_counters", "wait_stats", "file_io", "memory_grants"}
      /\ issues' \subseteq failed'
    BY DEF CollectSample
<1>2. /\ work.batch \in Nat /\ work.waitMS \in Nat /\ work.reads \in Nat /\ work.writes \in Nat
      /\ engine.batch \in Nat /\ engine.waitMS \in Nat /\ engine.reads \in Nat /\ engine.writes \in Nat
    BY DEF CountersInv, Counter
<1>3. PerfRate \in Nat /\ PerfRate <= work.batch
    <2>1. CASE Both("perf_counters") /\ batch >= 0
        <3>1. prev["perf_counters"]["batch"] \in Nat /\ batch <= work.batch
            BY <2>1 DEF Both, Delta, CountersInv, Behind
        <3>2. batch \in Int
            BY <1>2, <3>1 DEF Delta
        <3>3. PerfRate = batch
            BY <2>1 DEF PerfRate
        <3> HIDE DEF batch
        <3> QED
            BY <2>1, <3>1, <3>2, <3>3
    <2>2. CASE ~(Both("perf_counters") /\ batch >= 0)
        BY <1>2, <2>2 DEF PerfRate
    <2> QED
        BY <2>1, <2>2
<1>4. WaitDelta # None => WaitDelta.ms > 0 /\ WaitDelta.ms <= work.waitMS
    <2> SUFFICES ASSUME WaitDelta # None PROVE WaitDelta.ms > 0 /\ WaitDelta.ms <= work.waitMS
        OBVIOUS
    <2>1. Both("wait_stats") /\ ms > 0 /\ WaitDelta.ms = ms
        BY DEF WaitDelta
    <2>2. ms <= work.waitMS
        BY <2>1 DEF Both, Delta, CountersInv, Behind
    <2> HIDE DEF ms
    <2> QED
        BY <2>1, <2>2
<1>5. FileIO # None => FileIO.reads <= work.reads /\ FileIO.writes <= work.writes
    <2> SUFFICES ASSUME FileIO # None PROVE FileIO.reads <= work.reads /\ FileIO.writes <= work.writes
        OBVIOUS
    <2>1. Both("file_io") /\ FileIO.reads = reads /\ FileIO.writes = writes
        BY DEF FileIO
    <2>2. reads <= work.reads /\ writes <= work.writes
        BY <2>1 DEF Both, Delta, CountersInv, Behind
    <2> HIDE DEF reads, writes
    <2> QED
        BY <2>1, <2>2
<1>6. /\ sample'.batch = PerfRate /\ sample'.wait = WaitDelta /\ sample'.io = FileIO
      /\ sample'.done = work
    BY <1>1
<1>7. CollectTypeOK'
    BY <1>1, <1>3, <1>4, <1>6 DEF CollectTypeOK, Queries
<1>8. NeverOverstated'
    BY <1>3, <1>4, <1>5, <1>6 DEF NeverOverstated
<1> QED
    BY <1>7, <1>8 DEF SamplesAreReal

LEMMA SamplesNext ==
    ASSUME CountersInv, SamplesAreReal, [CollectNext]_collectVars
    PROVE  SamplesAreReal'
<1>1. CASE CollectSample
    BY <1>1, SampleIsReal
<1>2. CASE CollectInventory
    <2>1. /\ sample' = None
          /\ failed' \subseteq {"server_props", "sys_info", "configurations", "ag_replicas"}
          /\ issues' \subseteq failed'
        BY <1>2 DEF CollectInventory
    <2>2. inv' # None => /\ inv'.roles = (IF role = "" \/ "ag_replicas" \in failed' THEN <<>> ELSE <<role>>)
                         /\ inv'.uptime = Uptime
        BY <1>2 DEF CollectInventory
    <2>3. Uptime \in Nat
        BY DEF Uptime
    <2>4. inv' # None => inv'.roles \in Seq({"PRIMARY", "SECONDARY"})
        <3>1. role = "" \/ <<role>> \in Seq({"PRIMARY", "SECONDARY"})
            <4>1. role # "" => role \in {"PRIMARY", "SECONDARY"}
                BY DEF CountersInv
            <4>2. \A r \in {"PRIMARY", "SECONDARY"} : <<r>> \in Seq({"PRIMARY", "SECONDARY"})
                OBVIOUS
            <4> QED
                BY <4>1, <4>2
        <3>2. <<>> \in Seq({"PRIMARY", "SECONDARY"})
            OBVIOUS
        <3> QED
            BY <2>2, <3>1, <3>2
    <2> QED
        BY <2>1, <2>2, <2>3, <2>4 DEF SamplesAreReal, CollectTypeOK, NeverOverstated, Queries
<1>3. CASE CollectSpikeContext
    <2>1. /\ sample' = None /\ inv' = None
          /\ failed' \subseteq {"active_requests", "agent_jobs"} /\ issues' = failed'
        BY <1>3 DEF CollectSpikeContext
    <2> QED
        BY <2>1 DEF SamplesAreReal, CollectTypeOK, NeverOverstated, Queries
<1>4. CASE Work \/ EngineRestart \/ Failover \/ UNCHANGED collectVars
    <2>1. UNCHANGED <<sample, inv, failed, issues>>
        BY <1>4 DEF Work, EngineRestart, Failover, collectVars, outputs
    <2> QED
        BY <2>1 DEF SamplesAreReal, CollectTypeOK, NeverOverstated
<1>5. CASE AgentRestart
    BY <1>5 DEF AgentRestart, SamplesAreReal, CollectTypeOK, NeverOverstated
<1> QED
    BY <1>1, <1>2, <1>3, <1>4, <1>5 DEF CollectNext

\* Whatever query fails, however often the engine and the agent restart, a sample
\* is of its types and reports no more than was done since the sample before
\* (CollectSample, collect.go).
THEOREM SamplesAreTrue == CollectSpec => []SamplesAreReal
<1>1. CollectInit => CountersInv /\ SamplesAreReal
    BY CountersStart
<1>2. CountersInv /\ SamplesAreReal /\ [CollectNext]_collectVars => CountersInv' /\ SamplesAreReal'
    BY CountersNext, SamplesNext
<1> QED
    BY <1>1, <1>2, PTL DEF CollectSpec

-----------------------------------------------------------------------------
(* What is concluded without an answer.                                    *)

LEMMA SilenceNext ==
    ASSUME SilenceIsNoEvidence, [CollectNext]_collectVars
    PROVE  SilenceIsNoEvidence'
<1>1. CASE CollectSample
    BY <1>1 DEF CollectSample, SilenceIsNoEvidence, LevelIsEvidence, HoleIsNoAdvice
<1>2. CASE CollectInventory
    <2>1. context' = None
        BY <1>2 DEF CollectInventory
    <2>2. ASSUME inv' # None, inv'.unread \cap {"sys_info", "configurations"} # {}
          PROVE  (Ladder!ClassifySQL(Quiet) # "possible_rightsizing_candidate")'
        <3>1. /\ inv'.unread = failed'
              /\ inv'.uptime = Uptime
              /\ inv'.max = IF "configurations" \in failed' THEN 0 ELSE 32
            BY <1>2, <2>2 DEF CollectInventory
        <3>2. CASE "sys_info" \in failed'
            <4>1. inv'.uptime = 0
                BY <3>1, <3>2 DEF Uptime
            <4>2. Quiet'.uptime = 0
                BY <4>1 DEF Quiet
            <4> QED
                BY <4>2 DEF Ladder!ClassifySQL
        <3>3. CASE "configurations" \in failed'
            <4>1. inv'.max = 0
                BY <3>1, <3>3
            <4>2. Quiet'.max = 0
                BY <4>1 DEF Quiet
            <4>3. Ladder!PctOfMax(Quiet') = 0
                BY <4>2 DEF Ladder!PctOfMax
            <4> QED
                BY <4>3 DEF Ladder!ClassifySQL
        <3> QED
            BY <2>2, <3>1, <3>2, <3>3
    <2> QED
        BY <2>1, <2>2 DEF SilenceIsNoEvidence, LevelIsEvidence, HoleIsNoAdvice
<1>3. CASE CollectSpikeContext
    <2>1. PICK requests \in BOOLEAN, rows \in JobLists :
            LET jobs == IF "agent_jobs" \in failed' THEN <<>> ELSE rows
                seen == requests /\ "active_requests" \notin failed'
            IN  context' = [level |-> CorrelationLevel(seen, jobs), requests |-> seen, jobs |-> jobs]
        BY <1>3 DEF CollectSpikeContext
    <2> DEFINE jobs == IF "agent_jobs" \in failed' THEN <<>> ELSE rows
               seen == requests /\ "active_requests" \notin failed'
    <2>2. context'.level = CorrelationLevel(seen, jobs) /\ context'.requests = seen /\ context'.jobs = jobs
        BY <2>1
    <2>3. inv' = None
        BY <1>3 DEF CollectSpikeContext
    <2> HIDE DEF jobs, seen
    <2>4. /\ CorrelationLevel(seen, jobs) = "agent_job" <=> \E j \in Range(jobs) : j.running
          /\ CorrelationLevel(seen, jobs) = "active_request" => seen
        BY DEF CorrelationLevel
    <2> QED
        BY <2>2, <2>3, <2>4 DEF SilenceIsNoEvidence, LevelIsEvidence, HoleIsNoAdvice
<1>4. CASE Work \/ EngineRestart \/ Failover \/ AgentRestart \/ UNCHANGED collectVars
    <2>1. UNCHANGED <<inv, context>>
        BY <1>4 DEF Work, EngineRestart, Failover, AgentRestart, collectVars, outputs
    <2> QED
        BY <2>1 DEF SilenceIsNoEvidence, LevelIsEvidence, HoleIsNoAdvice, Quiet
<1> QED
    BY <1>1, <1>2, <1>3, <1>4 DEF CollectNext

\* A denied query is not taken for an answer: the level of a spike context is what
\* its own rows show, and an inventory with a hole leads to no advice to give the
\* instance less memory (CollectSpikeContext and CollectInventory, collect.go).
THEOREM SilenceProvesNothing == CollectSpec => []SilenceIsNoEvidence
<1>1. CollectInit => SilenceIsNoEvidence
    BY CountersStart
<1>2. SilenceIsNoEvidence /\ [CollectNext]_collectVars => SilenceIsNoEvidence'
    BY SilenceNext
<1> QED
    BY <1>1, <1>2, PTL DEF CollectSpec

-----------------------------------------------------------------------------
(***************************************************************************)
(* Theorems about Recommend: a behaviour takes one step, so what is proved *)
(* is what the two ladders say of every host and instance.                 *)
(***************************************************************************)

-----------------------------------------------------------------------------
(* Arithmetic.                                                             *)

LEMMA CeilIs ==
    ASSUME NEW a \in Nat, NEW b \in Nat \ {0}
    PROVE  Ceil(a, b) \in Nat /\ a <= b * Ceil(a, b) /\ (a > 0 => Ceil(a, b) > 0)
<1> DEFINE q == (-a) \div b
<1>1. q \in Int /\ b * q <= -a
    OBVIOUS
<1>2. Ceil(a, b) = -q
    BY DEF Ceil
<1> HIDE DEF q
<1>3. b * (-q) = -(b * q) /\ b * q \in Int
    BY <1>1
<1>4. q > 0 => b * q > 0
    BY <1>1
<1>5. q = 0 => b * q = 0
    BY <1>1
<1>6. q <= 0 /\ (a > 0 => q < 0)
    BY <1>1, <1>3, <1>4, <1>5
<1> QED
    BY <1>1, <1>2, <1>3, <1>6

LEMMA Max2Is ==
    ASSUME NEW a \in Int, NEW b \in Int
    PROVE  Max2(a, b) = IF a < b THEN b ELSE a
<1>1. IsFiniteSet({a, b}) /\ {a, b} \subseteq Int
    <2>1. IsFiniteSet({a})
        BY FS_Singleton
    <2>2. IsFiniteSet({a} \cup {b})
        BY <2>1, FS_AddElement
    <2>3. {a, b} = {a} \cup {b}
        OBVIOUS
    <2> QED
        BY <2>2, <2>3
<1>2. CASE a < b
    BY <1>1, <1>2, MaxIs DEF Max2
<1>3. CASE ~(a < b)
    BY <1>1, <1>3, MaxIs DEF Max2
<1> QED
    BY <1>2, <1>3

-----------------------------------------------------------------------------
(* The host ladder.                                                        *)

\* The least number of CPUs carries the P95 load at the target and the P99 peak.
LEMMA NeededIs ==
    ASSUME NEW h \in HostFields
    PROVE  /\ NeededVCPU(h) \in Nat /\ NeededVCPU(h) >= MinVCPU
           /\ h.vcpu * h.cpu95 <= CpuTarget * NeededVCPU(h)
           /\ h.vcpu * h.peak99 <= 100 * NeededVCPU(h)
<1> DEFINE load == h.vcpu * h.cpu95
           peak == h.vcpu * h.peak99
           a == Ceil(load, CpuTarget)
           b == Ceil(peak, 100)
           m == Max2(a, b)
           n == NeededVCPU(h)
<1>1. load \in Nat /\ peak \in Nat /\ CpuTarget \in Nat \ {0} /\ 100 \in Nat \ {0}
    <2>1. h.vcpu \in Nat /\ h.cpu95 \in Nat /\ h.peak99 \in Nat
        BY DEF HostFields
    <2>2. \A x, y \in Nat : x * y \in Nat
        OBVIOUS
    <2>3. load \in Nat /\ peak \in Nat
        BY <2>1, <2>2
    <2> QED
        BY <2>3 DEF CpuTarget
<1>2. n = Max2(m, MinVCPU)
    BY DEF NeededVCPU
<1> HIDE DEF load, peak
<1>3. a \in Nat /\ load <= CpuTarget * a /\ b \in Nat /\ peak <= 100 * b
    BY <1>1, CeilIs
<1> HIDE DEF a, b
<1>4. m \in Nat /\ a <= m /\ b <= m
    BY <1>3, Max2Is
<1> HIDE DEF m, n
<1>5. n \in Nat /\ m <= n /\ MinVCPU <= n
    BY <1>2, <1>4, Max2Is DEF MinVCPU
<1>6. load <= CpuTarget * n /\ peak <= 100 * n
    BY <1>1, <1>3, <1>4, <1>5 DEF CpuTarget
<1> QED
    BY <1>5, <1>6 DEF load, peak, n

\* What is proposed is a machine with fewer CPUs that carries the load.
LEMMA CapacityHolds ==
    ASSUME NEW h \in HostFields, SuggestCapacity(h) # None
    PROVE  LET s == SuggestCapacity(h)
           IN  /\ s.minVCPU \in Nat /\ s.maxVCPU \in Nat /\ s.minRAM \in Nat /\ s.maxRAM \in Nat
               /\ s.minVCPU >= MinVCPU /\ s.minVCPU <= s.maxVCPU /\ s.maxVCPU <= h.vcpu
               /\ h.vcpu * h.cpu95 <= CpuTarget * s.minVCPU
               /\ h.vcpu * h.peak99 <= 100 * s.minVCPU
               /\ s.minRAM > 0 => /\ s.minRAM * 100 >= h.used95 * 130
                                  /\ s.minRAM <= s.maxRAM /\ s.minRAM < h.ram
<1> DEFINE s == SuggestCapacity(h)
           lo == NeededVCPU(h)
           third == (h.vcpu - lo) \div 3
           hi == lo + third
           need == Ceil(h.used95 * 130, 100)
           more == Ceil(h.used95 * 1625, 1000)
           ramLo == Max2(4, need)
           ramHi == Max2(ramLo + 2, more)
<1>1. /\ lo < h.vcpu
      /\ s.minVCPU = lo /\ s.maxVCPU = IF hi <= lo THEN lo + 1 ELSE hi
      /\ s.minRAM = IF ramLo >= h.ram THEN 0 ELSE ramLo
      /\ s.maxRAM = IF ramLo >= h.ram THEN 0 ELSE ramHi
    <2>1. h.vcpu \in Nat /\ lo \in Nat
        BY NeededIs DEF HostFields
    <2>2. ~(h.vcpu = 0 \/ h.ram = 0 \/ lo >= h.vcpu)
        BY DEF SuggestCapacity
    <2>3. s = [minVCPU |-> lo, maxVCPU |-> IF hi <= lo THEN lo + 1 ELSE hi,
               minRAM |-> IF ramLo >= h.ram THEN 0 ELSE ramLo,
               maxRAM |-> IF ramLo >= h.ram THEN 0 ELSE ramHi]
        BY <2>2 DEF SuggestCapacity
    <2> HIDE DEF s, lo, hi, ramLo, ramHi
    <2> QED
        BY <2>1, <2>2, <2>3
<1>2. /\ lo \in Nat /\ lo >= MinVCPU
      /\ h.vcpu * h.cpu95 <= CpuTarget * lo /\ h.vcpu * h.peak99 <= 100 * lo
    BY NeededIs
<1>3. h.vcpu \in Nat /\ h.ram \in Nat /\ h.used95 \in Nat
    BY DEF HostFields
<1> HIDE DEF s, lo
<1>4. third \in Nat /\ lo + third <= h.vcpu
    <2>1. h.vcpu - lo \in Nat
        BY <1>1, <1>2, <1>3
    <2>2. third \in Nat /\ third <= h.vcpu - lo
        BY <2>1, Quotient, QuotientAtMost
    <2> HIDE DEF third
    <2> QED
        BY <1>2, <1>3, <2>2
<1>5. /\ need \in Nat /\ h.used95 * 130 <= 100 * need /\ more \in Nat
    <2>1. h.used95 * 130 \in Nat /\ h.used95 * 1625 \in Nat
        BY <1>3
    <2>2. \A b \in {100, 1000} : b \in Nat \ {0}
        OBVIOUS
    <2> DEFINE a == h.used95 * 130
               c == h.used95 * 1625
    <2> HIDE DEF a, c
    <2>3. Ceil(a, 100) \in Nat /\ a <= 100 * Ceil(a, 100)
        BY <2>1, <2>2, CeilIs DEF a
    <2>4. Ceil(c, 1000) \in Nat
        BY <2>1, <2>2, CeilIs DEF c
    <2> QED
        BY <2>3, <2>4 DEF a, c
<1> HIDE DEF third, need, more
<1>6. ramLo \in Nat /\ need <= ramLo
    BY <1>5, Max2Is
<1> HIDE DEF ramLo
<1>7. ramHi \in Nat /\ ramLo <= ramHi
    BY <1>5, <1>6, Max2Is
<1> HIDE DEF ramHi
<1>8. ramLo * 100 >= h.used95 * 130
    BY <1>3, <1>5, <1>6
<1>9. /\ s.minVCPU \in Nat /\ s.maxVCPU \in Nat
      /\ s.minVCPU >= MinVCPU /\ s.minVCPU <= s.maxVCPU /\ s.maxVCPU <= h.vcpu
      /\ h.vcpu * h.cpu95 <= CpuTarget * s.minVCPU
      /\ h.vcpu * h.peak99 <= 100 * s.minVCPU
    <2>1. s.minVCPU = lo /\ (s.maxVCPU = lo + 1 \/ s.maxVCPU = lo + third)
          /\ lo <= s.maxVCPU
        BY <1>1, <1>2, <1>4
    <2> QED
        BY <1>1, <1>2, <1>3, <1>4, <2>1
<1>10. /\ s.minRAM \in Nat /\ s.maxRAM \in Nat
       /\ s.minRAM > 0 => /\ s.minRAM * 100 >= h.used95 * 130
                          /\ s.minRAM <= s.maxRAM /\ s.minRAM < h.ram
    BY <1>1, <1>3, <1>6, <1>7, <1>8
<1> QED
    BY <1>9, <1>10 DEF s

LEMMA HostLadder ==
    ASSUME NEW h \in HostFields
    PROVE  LET r == ClassifyHost(h)
           IN  /\ r.category \in Categories
               /\ r.suggested # None =>
                      /\ r.suggested = SuggestCapacity(h)
                      /\ h.memPct < 80 /\ ~h.pressure /\ ~h.paging /\ h.days >= 7 /\ h.coverage >= 50
<1> DEFINE rung == Rung(h)
           r == ClassifyHost(h)
<1>1. /\ r.category = IF rung = "likely_rightsizing_candidate" /\ h.steal > 5
                      THEN "possible_rightsizing_candidate" ELSE rung
      /\ r.suggested = IF rung \in Reductions THEN SuggestCapacity(h) ELSE None
    BY DEF ClassifyHost
<1>2. rung \in Categories
    BY DEF Rung, Categories, Reductions
<1>3. rung \in Reductions => ~(h.days < 3 \/ h.coverage < 50) /\ ~(h.days < 7) /\ ~MemHigh(h)
    BY DEF Rung, Reductions
<1>4. /\ h.memPct \in Nat /\ h.days \in Nat /\ h.coverage \in Nat
      /\ h.pressure \in BOOLEAN /\ h.paging \in BOOLEAN
    BY DEF HostFields
<1> HIDE DEF rung, r
<1>5. r.category \in Categories
    BY <1>1, <1>2 DEF Categories, Reductions
<1>6. ~MemHigh(h) => h.memPct < 80 /\ ~h.pressure /\ ~h.paging
    BY <1>4 DEF MemHigh
<1>7. ASSUME r.suggested # None
      PROVE  /\ r.suggested = SuggestCapacity(h)
             /\ h.memPct < 80 /\ ~h.pressure /\ ~h.paging /\ h.days >= 7 /\ h.coverage >= 50
    <2>1. rung \in Reductions /\ r.suggested = SuggestCapacity(h)
        BY <1>1, <1>7
    <2> QED
        BY <1>3, <1>4, <1>6, <2>1
<1> QED
    BY <1>5, <1>7 DEF r

-----------------------------------------------------------------------------
(* The ladder of an instance.                                              *)

LEMMA SqlLadder ==
    ASSUME NEW q \in InstanceFields, q.total <= q.peak
    PROVE  /\ ClassifySQL(q) \in Categories
           /\ ClassifySQL(q) = "possible_rightsizing_candidate" =>
                  /\ ~q.pressure /\ q.grants = 0 /\ ~q.processOnly
                  /\ q.uptime >= 3 /\ q.total * 100 >= q.target * 95
                  /\ PctOfMax(q) > 95
<1>1. ClassifySQL(q) \in Categories
    BY DEF ClassifySQL, Categories, Reductions
<1>2. ASSUME ClassifySQL(q) = "possible_rightsizing_candidate"
      PROVE  /\ ~q.processOnly /\ ~(q.pressure \/ q.grants > 0)
             /\ ~(q.uptime >= 3 /\ q.total * 100 < q.target * 95) /\ ~(q.uptime < 3)
             /\ q.grants = 0 /\ PctOfMax(q) > 95
    BY <1>2 DEF ClassifySQL
<1>3. q.uptime \in Nat /\ q.total \in Nat /\ q.target \in Nat
    BY DEF InstanceFields
<1>4. q.total * 100 \in Nat /\ q.target * 95 \in Nat
    BY ONLY <1>3
<1> QED
    BY <1>1, <1>2, <1>3, <1>4

\* A memory range is one, and of a GB at least.
LEMMA MemoryHolds ==
    ASSUME NEW q \in InstanceFields, q.total <= q.peak, SuggestMemory(q) # None
    PROVE  LET s == SuggestMemory(q)
           IN  s.min \in Nat /\ s.max \in Nat /\ 1 <= s.min /\ s.min <= s.max
<1> DEFINE s == SuggestMemory(q)
           lo == Ceil(q.peak * 120, 100)
           hi == Ceil(lo * 125, 100)
<1>a. q.peak \in Nat /\ q.total \in Nat /\ q.ram \in Nat /\ q.max \in Nat
    BY DEF InstanceFields
<1>b. q.peak * 120 \in Nat /\ q.total * 100 \in Nat
    BY ONLY <1>a
<1>0. /\ q.peak \in Nat /\ q.total \in Nat /\ q.ram \in Nat /\ q.max \in Nat
      /\ q.peak * 120 \in Nat /\ q.total * 100 \in Nat
    BY <1>a, <1>b
<1>1. CASE ClassifySQL(q) = "sql_memory_configuration_issue"
    <2> DEFINE x == SuggestedMaxMem(q.ram)
               tenth == Ceil(q.ram, 10)
    <2>1. s.min = x /\ s.max = x
        BY <1>1 DEF SuggestMemory
    <2>2. tenth \in Nat
        BY <1>0, CeilIs
    <2> HIDE DEF tenth
    <2>3. OsReserve(q.ram) \in Nat
        BY <2>2, Max2Is DEF OsReserve, OsReserveMinGB, tenth
    <2>4. x \in Nat /\ 1 <= x
        BY <1>0, <2>3, Max2Is DEF SuggestedMaxMem
    <2> HIDE DEF x, s
    <2>5. s.min \in Nat /\ s.max \in Nat /\ 1 <= s.min /\ s.min <= s.max
        BY <2>1, <2>4
    <2> QED
        BY <2>5 DEF s
<1>2. CASE ClassifySQL(q) = "possible_rightsizing_candidate"
    <2>1. s.min = lo /\ s.max = hi
        BY <1>2 DEF SuggestMemory
    <2>2. q.total > 0
        <3>1. PctOfMax(q) > 95
            BY <1>2, SqlLadder
        <3>2. q.max # 0 /\ (q.total * 100) \div q.max > 95
            BY <3>1 DEF PctOfMax
        <3>3. q.total = 0 => (q.total * 100) \div q.max = 0
            BY <1>0, <3>2
        <3> QED
            BY <1>0, <3>2, <3>3
    <2>3. q.peak * 120 > 0
        BY <1>0, <2>2
    <2>4. lo \in Nat /\ lo > 0
        <3>1. 100 \in Nat \ {0}
            OBVIOUS
        <3> QED
            BY <1>0, <2>3, <3>1, CeilIs
    <2> HIDE DEF lo
    <2>5. hi \in Nat /\ lo * 125 <= 100 * hi
        <3>1. lo * 125 \in Nat
            BY <2>4
        <3> QED
            BY <3>1, CeilIs
    <2> HIDE DEF hi
    <2>6. lo <= hi
        BY <2>4, <2>5
    <2> HIDE DEF s
    <2>7. s.min \in Nat /\ s.max \in Nat /\ 1 <= s.min /\ s.min <= s.max
        BY <2>1, <2>4, <2>5, <2>6
    <2> QED
        BY <2>7 DEF s
<1>3. CASE /\ ClassifySQL(q) # "sql_memory_configuration_issue"
           /\ ClassifySQL(q) # "possible_rightsizing_candidate"
    BY <1>3 DEF SuggestMemory
<1> QED
    BY <1>1, <1>2, <1>3

-----------------------------------------------------------------------------
(* The report.                                                             *)

LEMMA HostAdvice ==
    ASSUME AssessHost
    PROVE  AdviceHolds'
<1> DEFINE h == host'
           s == SuggestCapacity(h)
<1>1. h \in HostFields /\ sql' = None /\ report' = ClassifyHost(h)
    BY RecommendAssumption DEF AssessHost
<1>2. /\ report'.category \in Categories
      /\ report'.suggested # None =>
            /\ report'.suggested = s
            /\ h.memPct < 80 /\ ~h.pressure /\ ~h.paging /\ h.days >= 7 /\ h.coverage >= 50
    BY <1>1, HostLadder
<1>3. ASSUME report'.suggested # None
      PROVE  /\ s.minVCPU \in Nat /\ s.maxVCPU \in Nat /\ s.minRAM \in Nat /\ s.maxRAM \in Nat
             /\ s.minVCPU >= MinVCPU /\ s.minVCPU <= s.maxVCPU /\ s.maxVCPU <= h.vcpu
             /\ h.vcpu * h.cpu95 <= CpuTarget * s.minVCPU
             /\ h.vcpu * h.peak99 <= 100 * s.minVCPU
             /\ s.minRAM > 0 => /\ s.minRAM * 100 >= h.used95 * 130
                                /\ s.minRAM <= s.maxRAM /\ s.minRAM < h.ram
    BY <1>1, <1>2, <1>3, CapacityHolds
<1>4. ASSUME report'.suggested # None
      PROVE  Potential(h, s).vcpu >= 0
    <2>1. h.vcpu \in Nat
        BY <1>1 DEF HostFields
    <2>2. Potential(h, s).vcpu \in {0, h.vcpu - s.maxVCPU}
        BY DEF Potential
    <2> HIDE DEF s
    <2> QED
        BY <1>3, <1>4, <2>1, <2>2
<1> HIDE DEF s
<1>5. HostSuggestion' => host' # None /\ report'.suggested # None
    BY DEF HostSuggestion
<1>6. ~SqlReduction'
    BY <1>1 DEF SqlReduction
<1>7. RecommendTypeOK'
    <2>1. report'.suggested # None => s.minRAM >= 0
        BY <1>3
    <2> QED
        BY <1>1, <1>2, <1>3, <1>4, <1>5, <2>1 DEF RecommendTypeOK
<1>8. NoReductionUnderPressure'
    BY <1>2, <1>5, <1>6 DEF NoReductionUnderPressure
<1>9. SuggestionHolds'
    BY <1>2, <1>3, <1>5 DEF SuggestionHolds
<1> QED
    BY <1>7, <1>8, <1>9 DEF AdviceHolds

LEMMA SqlAdvice ==
    ASSUME AssessSQL
    PROVE  AdviceHolds'
<1>1. /\ sql' \in InstanceFields /\ sql'.total <= sql'.peak /\ host' = None
      /\ report'.category = ClassifySQL(sql') /\ report'.suggested = SuggestMemory(sql')
    BY RecommendAssumption DEF AssessSQL
<1>2. ~HostSuggestion'
    BY <1>1 DEF HostSuggestion
<1>3. RecommendTypeOK'
    <2>1. report'.category \in Categories
        BY <1>1, SqlLadder
    <2>2. report'.suggested # None => 1 <= report'.suggested.min /\ report'.suggested.min <= report'.suggested.max
        BY <1>1, MemoryHolds
    <2> QED
        BY <1>1, <1>2, <2>1, <2>2 DEF RecommendTypeOK
<1>4. NoReductionUnderPressure'
    BY <1>1, <1>2, SqlLadder DEF NoReductionUnderPressure, SqlReduction
<1>5. SuggestionHolds'
    BY <1>2 DEF SuggestionHolds
<1> QED
    BY <1>3, <1>4, <1>5 DEF AdviceHolds

\* Nothing smaller is proposed under pressure or on a short history, and what is
\* proposed carries the load that was seen, for every host and every instance
\* (classifyHost, suggestCapacity and classifySQL).
THEOREM AdviceIsSafe == RecommendSpec => []AdviceHolds
<1>1. RecommendInit => AdviceHolds
    BY DEF RecommendInit, AdviceHolds, RecommendTypeOK, NoReductionUnderPressure, SuggestionHolds,
           HostSuggestion, SqlReduction
<1>2. ASSUME AdviceHolds, [RecommendNext]_recommendVars
      PROVE  AdviceHolds'
    <2>1. CASE AssessHost
        BY <2>1, HostAdvice
    <2>2. CASE AssessSQL
        BY <2>2, SqlAdvice
    <2>3. CASE UNCHANGED recommendVars
        BY <1>2, <2>3 DEF recommendVars, AdviceHolds, RecommendTypeOK, NoReductionUnderPressure, SuggestionHolds,
           HostSuggestion, SqlReduction
    <2> QED
        BY <1>2, <2>1, <2>2, <2>3 DEF RecommendNext
<1> QED
    BY <1>1, <1>2, PTL DEF RecommendSpec

-----------------------------------------------------------------------------
(***************************************************************************)
(* Theorems about Dataset: what the loops over segments, records and lists *)
(* leave, and what an import does with it.                                 *)
(***************************************************************************)

-----------------------------------------------------------------------------
(* Lists.                                                                  *)

\* What is left of s without the places in drop, as an increasing choice of the
\* others.
Chooses(u, s, rest, w) ==
    /\ w \in [DOMAIN u -> rest]
    /\ \A i, j \in DOMAIN u : i < j => w[i] < w[j]
    /\ \A i \in DOMAIN u : u[i] = s[w[i]]
    /\ \A k \in rest : \E i \in DOMAIN u : w[i] = k

LEMMA ChoosesOneMore ==
    ASSUME NEW T, NEW s \in Seq(T), NEW drop, NEW n \in 1 .. Len(s), NEW u \in Seq(T), NEW w,
           Chooses(u, s, (1 .. (n - 1)) \ drop, w)
    PROVE  /\ n \in drop => Chooses(u, s, (1 .. n) \ drop, w)
           /\ n \notin drop => \E v : Chooses(Append(u, s[n]), s, (1 .. n) \ drop, v)
<1>1. n \in Nat /\ 1 .. n = (1 .. (n - 1)) \cup {n} /\ s[n] \in T
    OBVIOUS
<1>2. CASE n \in drop
    <2>1. (1 .. n) \ drop = (1 .. (n - 1)) \ drop
        BY <1>1, <1>2
    <2> QED
        BY <1>2, <2>1
<1>3. CASE n \notin drop
    <2> DEFINE old == (1 .. (n - 1)) \ drop
               new == (1 .. n) \ drop
               m == Len(u)
               t == Append(u, s[n])
               v == [i \in 1 .. (m + 1) |-> IF i = m + 1 THEN n ELSE w[i]]
    <2>1. new = old \cup {n} /\ (\A k \in old : k \in Nat /\ k < n)
        BY <1>1, <1>3
    <2>2. m \in Nat /\ DOMAIN u = 1 .. m
        OBVIOUS
    <2>3. t \in Seq(T) /\ DOMAIN t = 1 .. (m + 1) /\ t[m + 1] = s[n] /\ \A i \in 1 .. m : t[i] = u[i]
        BY <1>1
    <2> HIDE DEF t, m, old, new
    <2>4. /\ w \in [1 .. m -> old] /\ \A i, j \in 1 .. m : i < j => w[i] < w[j]
          /\ \A i \in 1 .. m : u[i] = s[w[i]]
          /\ \A k \in old : \E i \in 1 .. m : w[i] = k
        BY <2>2 DEF Chooses, old
    <2>5. /\ v[m + 1] = n /\ m + 1 \in 1 .. (m + 1)
          /\ \A i \in 1 .. m : v[i] = w[i] /\ i \in 1 .. (m + 1)
          /\ \A i \in 1 .. (m + 1) : i = m + 1 \/ i \in 1 .. m
        BY <2>2
    <2>a. DOMAIN v = 1 .. (m + 1) /\ v = [i \in 1 .. (m + 1) |-> v[i]]
        OBVIOUS
    <2> HIDE DEF v
    <2>6. v \in [1 .. (m + 1) -> new]
        BY <2>1, <2>4, <2>5, <2>a
    <2>7. ASSUME NEW i \in 1 .. (m + 1), NEW j \in 1 .. (m + 1), i < j PROVE v[i] < v[j]
        <3>1. i \in 1 .. m /\ v[i] = w[i] /\ w[i] \in old
            BY <2>2, <2>4, <2>5, <2>7
        <3>2. CASE j = m + 1
            BY <2>1, <2>5, <3>1, <3>2
        <3>3. CASE j \in 1 .. m
            BY <2>4, <2>5, <2>7, <3>1, <3>3
        <3> QED
            BY <2>5, <3>2, <3>3
    <2>8. \A i \in 1 .. (m + 1) : t[i] = s[v[i]]
        BY <2>3, <2>4, <2>5
    <2>9. \A k \in new : \E i \in 1 .. (m + 1) : v[i] = k
        BY <2>1, <2>4, <2>5
    <2>10. Chooses(t, s, new, v)
        BY <2>3, <2>6, <2>7, <2>8, <2>9 DEF Chooses
    <2> QED
        BY <1>3, <2>10 DEF t, new
<1> QED
    BY <1>2, <1>3

LEMMA DroppingChooses ==
    ASSUME NEW T, NEW s \in Seq(T), NEW drop
    PROVE  /\ Dropping(s, drop) \in Seq(T)
           /\ \E w : Chooses(Dropping(s, drop), s, DOMAIN s \ drop, w)
<1> DEFINE n == Len(s)
           Is(f) == f = [i \in 0 .. n |-> IF i = 0 THEN <<>>
                            ELSE IF i \in drop THEN f[i - 1] ELSE Append(f[i - 1], s[i])]
           step == [x \in (1 .. n) \X Seq(T) |-> IF x[1] \in drop THEN x[2] ELSE Append(x[2], s[x[1]])]
           it == CHOOSE f : Is(f)
<1>1. n \in Nat /\ DOMAIN s = 1 .. n /\ \A i \in 1 .. n : s[i] \in T
    OBVIOUS
<1>2. Dropping(s, drop) = it[n]
    BY DEF Dropping
<1> HIDE DEF it
<1>3. step \in [(1 .. n) \X Seq(T) -> Seq(T)]
    <2> SUFFICES ASSUME NEW i \in 1 .. n, NEW u \in Seq(T)
                 PROVE  (IF i \in drop THEN u ELSE Append(u, s[i])) \in Seq(T)
        OBVIOUS
    <2> QED
        BY <1>1
<1>4. <<>> \in Seq(T)
    OBVIOUS
<1>5. PICK g \in [0 .. n -> Seq(T)] : Recursive(n, <<>>, step, g)
    <2> HIDE DEF step, n
    <2> QED
        BY <1>1, <1>3, <1>4, RecursionExists
<1>6. Is(g)
    <2>1. ASSUME NEW i \in 1 .. n
          PROVE  step[<<i, g[i - 1]>>] = IF i \in drop THEN g[i - 1] ELSE Append(g[i - 1], s[i])
        <3>1. i - 1 \in 0 .. n
            OBVIOUS
        <3>2. g[i - 1] \in Seq(T)
            BY <3>1
        <3>3. <<i, g[i - 1]>> \in (1 .. n) \X Seq(T)
            BY <3>2
        <3> QED
            BY <3>3
    <2>2. \A i \in 0 .. n : i # 0 => i \in 1 .. n
        BY <1>1
    <2> HIDE DEF step, n
    <2> QED
        BY <1>5, <2>1, <2>2 DEF Recursive
<1>7. Is(it)
    <2> HIDE DEF Is
    <2> QED
        BY <1>6 DEF it
<1>a. 0 \in 0 .. n /\ \A i \in 1 .. n : i \in 0 .. n /\ i # 0
    BY <1>1
<1> HIDE DEF step, n
<1>8. /\ it[0] = <<>>
      /\ \A i \in 1 .. n : it[i] = IF i \in drop THEN it[i - 1] ELSE Append(it[i - 1], s[i])
    BY <1>7, <1>a
<1> DEFINE P == {i \in 0 .. n : it[i] \in Seq(T) /\ \E w : Chooses(it[i], s, (1 .. i) \ drop, w)}
<1>9. 0 \in P
    <2>1. Chooses(<<>>, s, {}, <<>>)
        BY DEF Chooses
    <2>2. (1 .. 0) \ drop = {}
        OBVIOUS
    <2> QED
        BY <1>4, <1>8, <1>a, <2>1, <2>2
<1>10. ASSUME NEW i \in 1 .. n, (i - 1) \in P PROVE i \in P
    <2>1. it[i - 1] \in Seq(T)
        BY <1>10
    <2>2. PICK w : Chooses(it[i - 1], s, (1 .. (i - 1)) \ drop, w)
        BY <1>10
    <2>3. /\ i \in drop => Chooses(it[i - 1], s, (1 .. i) \ drop, w)
          /\ i \notin drop => \E v : Chooses(Append(it[i - 1], s[i]), s, (1 .. i) \ drop, v)
        BY <2>1, <2>2, ChoosesOneMore DEF n
    <2>a. s[i] \in T /\ i \in 0 .. n
        BY <1>1, <1>a
    <2>b. \A u \in Seq(T), x \in T : Append(u, x) \in Seq(T)
        OBVIOUS
    <2>4. it[i] \in Seq(T)
        BY <1>8, <2>1, <2>a, <2>b
    <2> QED
        BY <1>8, <2>3, <2>4, <2>a
<1>11. n \in P
    <2> HIDE DEF P, n
    <2>1. 0 .. n \subseteq P
        BY <1>1, <1>9, <1>10, UpTo
    <2> QED
        BY <1>1, <2>1
<1> QED
    BY <1>1, <1>2, <1>11 DEF n

LEMMA ByTimeSorts ==
    ASSUME NEW T, NEW s \in Seq(T), NEW t \in ByTime(s)
    PROVE  /\ t \in Seq(T) /\ DOMAIN t = DOMAIN s /\ Range(t) = Range(s)
           /\ \A i, j \in DOMAIN t : i < j => t[i].ts <= t[j].ts
<1>1. PICK p \in [DOMAIN s -> DOMAIN s] :
          /\ t = [i \in DOMAIN s |-> s[p[i]]] /\ Range(p) = DOMAIN s
          /\ \A i, j \in DOMAIN s : i < j => s[p[i]].ts <= s[p[j]].ts
    BY DEF ByTime
<1>2. \A w \in DOMAIN s : \E v \in DOMAIN s : p[v] = w
    BY <1>1 DEF Range
<1>3. t \in Seq(T) /\ DOMAIN t = DOMAIN s
    <2>1. Len(s) \in Nat /\ DOMAIN s = 1 .. Len(s) /\ \A i \in DOMAIN s : s[i] \in T
        OBVIOUS
    <2>2. t \in [1 .. Len(s) -> T]
        BY <1>1, <2>1
    <2> QED
        BY <2>1, <2>2
<1>4. Range(t) = Range(s)
    BY <1>1, <1>2 DEF Range
<1> QED
    BY <1>1, <1>3, <1>4

-----------------------------------------------------------------------------
(* What a host's data hold.                                                *)

OfKind(k, R) == {r \in R : r.kind = k}

\* Host data made of the records in R.
HostData(R) ==
    [inventory : OfKind("inventory", R) \cup {None}, minutes : Seq(OfKind("minute", R)),
     spikes : Seq(OfKind("spike", R)), sql : Seq(OfKind("sql", R)), problems : Nat]

Timed(R) == \A r \in R : r.ts \in Nat /\ r # None

\* A record is there, an inventory perhaps in a newer form.
Present(r, h) ==
    /\ r.kind = "inventory" => h.inventory # None /\ r.ts <= h.inventory.ts
    /\ r.kind = "minute" => r \in Range(h.minutes)
    /\ r.kind = "spike" => r \in Range(h.spikes)
    /\ r.kind = "sql" => r \in Range(h.sql)

\* What e has lost of h: nothing.
Keeps(h, e) ==
    /\ h.inventory # None => e.inventory # None /\ h.inventory.ts <= e.inventory.ts
    /\ Range(h.minutes) \subseteq Range(e.minutes)
    /\ Range(h.spikes) \subseteq Range(e.spikes)
    /\ Range(h.sql) \subseteq Range(e.sql)

LEMMA InventoryTime ==
    ASSUME NEW R, Timed(R), NEW h \in HostData(R), h.inventory # None
    PROVE  h.inventory.ts \in Nat
BY DEF HostData, OfKind, Timed

LEMMA KeepsAll ==
    ASSUME NEW R, Timed(R), NEW h \in HostData(R), NEW e \in HostData(R), Keeps(h, e)
    PROVE  /\ Keeps(h, h)
           /\ \A r \in R : Present(r, h) => Present(r, e)
           /\ \A f \in HostData(R) : Keeps(e, f) => Keeps(h, f)
<1>1. /\ h.inventory # None => h.inventory.ts \in Nat
      /\ e.inventory # None => e.inventory.ts \in Nat
    BY InventoryTime
<1>2. ASSUME NEW r \in R, Present(r, h) PROVE Present(r, e)
    BY <1>1, <1>2 DEF Present, Keeps, Timed
<1>3. ASSUME NEW f \in HostData(R), Keeps(e, f) PROVE Keeps(h, f)
    <2>1. f.inventory # None => f.inventory.ts \in Nat
        BY InventoryTime
    <2> QED
        BY <1>1, <1>3, <2>1 DEF Keeps
<1>4. Keeps(h, h)
    BY <1>1 DEF Keeps
<1> QED
    BY <1>2, <1>3, <1>4

LEMMA AppendRange ==
    ASSUME NEW T, NEW s \in Seq(T), NEW x \in T
    PROVE  Append(s, x) \in Seq(T) /\ Range(Append(s, x)) = Range(s) \cup {x}
<1> DEFINE n == Len(s)
           t == Append(s, x)
<1>1. /\ n \in Nat /\ DOMAIN s = 1 .. n /\ DOMAIN t = 1 .. (n + 1) /\ t[n + 1] = x
      /\ \A i \in 1 .. n : t[i] = s[i]
      /\ t \in Seq(T)
    OBVIOUS
<1> HIDE DEF n, t
<1>2. \A i \in 1 .. (n + 1) : i = n + 1 \/ i \in 1 .. n
    BY <1>1
<1>3. (n + 1) \in 1 .. (n + 1) /\ \A i \in 1 .. n : i \in 1 .. (n + 1)
    BY <1>1
<1>4. Range(t) = Range(s) \cup {x}
    BY <1>1, <1>2, <1>3 DEF Range
<1> QED
    BY <1>1, <1>4 DEF t

LEMMA DecodeIntoKeeps ==
    ASSUME NEW R, Timed(R), NEW h \in HostData(R), NEW r \in R
    PROVE  LET e == DecodeInto(h, r)
           IN  e \in HostData(R) /\ Keeps(h, e) /\ Present(r, e)
<1> DEFINE e == DecodeInto(h, r)
<1>1. /\ h.inventory # None => h.inventory.ts \in Nat
      /\ r.ts \in Nat /\ r # None
    BY InventoryTime DEF Timed
<1>2. CASE r.kind = "inventory"
    <2>1. r \in OfKind("inventory", R)
        BY <1>2 DEF OfKind
    <2>2. e = IF h.inventory = None \/ r.ts > h.inventory.ts THEN [h EXCEPT !.inventory = r] ELSE h
        BY <1>2 DEF DecodeInto
    <2> HIDE DEF e
    <2>3. CASE h.inventory = None \/ r.ts > h.inventory.ts
        <3>1. /\ e \in HostData(R) /\ e.inventory = r
              /\ e.minutes = h.minutes /\ e.spikes = h.spikes /\ e.sql = h.sql
            BY <2>1, <2>2, <2>3 DEF HostData
        <3> QED
            BY <1>1, <1>2, <2>3, <3>1 DEF Keeps, Present, e
    <2>4. CASE ~(h.inventory = None \/ r.ts > h.inventory.ts)
        BY <1>1, <1>2, <2>2, <2>4 DEF Keeps, Present, e
    <2> QED
        BY <2>3, <2>4
<1>3. CASE r.kind = "minute"
    <2>1. r \in OfKind("minute", R) /\ h.minutes \in Seq(OfKind("minute", R))
        BY <1>3 DEF OfKind, HostData
    <2> DEFINE s == Append(h.minutes, r)
    <2>2. s \in Seq(OfKind("minute", R)) /\ Range(s) = Range(h.minutes) \cup {r}
        BY <2>1, AppendRange
    <2>3. e = [h EXCEPT !.minutes = s]
        BY <1>3 DEF DecodeInto
    <2> HIDE DEF e, s
    <2>4. /\ e \in HostData(R) /\ e.minutes = s
          /\ e.inventory = h.inventory /\ e.spikes = h.spikes /\ e.sql = h.sql
        BY <2>2, <2>3 DEF HostData
    <2> QED
        BY <1>1, <1>3, <2>2, <2>4 DEF Keeps, Present, e
<1>4. CASE r.kind = "spike"
    <2>1. r \in OfKind("spike", R) /\ h.spikes \in Seq(OfKind("spike", R))
        BY <1>4 DEF OfKind, HostData
    <2> DEFINE s == Append(h.spikes, r)
    <2>2. s \in Seq(OfKind("spike", R)) /\ Range(s) = Range(h.spikes) \cup {r}
        BY <2>1, AppendRange
    <2>3. e = [h EXCEPT !.spikes = s]
        BY <1>4 DEF DecodeInto
    <2> HIDE DEF e, s
    <2>4. /\ e \in HostData(R) /\ e.spikes = s
          /\ e.inventory = h.inventory /\ e.minutes = h.minutes /\ e.sql = h.sql
        BY <2>2, <2>3 DEF HostData
    <2> QED
        BY <1>1, <1>4, <2>2, <2>4 DEF Keeps, Present, e
<1>5. CASE r.kind = "sql"
    <2>1. r \in OfKind("sql", R) /\ h.sql \in Seq(OfKind("sql", R))
        BY <1>5 DEF OfKind, HostData
    <2> DEFINE s == Append(h.sql, r)
    <2>2. s \in Seq(OfKind("sql", R)) /\ Range(s) = Range(h.sql) \cup {r}
        BY <2>1, AppendRange
    <2>3. e = [h EXCEPT !.sql = s]
        BY <1>5 DEF DecodeInto
    <2> HIDE DEF e, s
    <2>4. /\ e \in HostData(R) /\ e.sql = s
          /\ e.inventory = h.inventory /\ e.minutes = h.minutes /\ e.spikes = h.spikes
        BY <2>2, <2>3 DEF HostData
    <2> QED
        BY <1>1, <1>5, <2>2, <2>4 DEF Keeps, Present, e
<1>6. CASE r.kind \notin {"inventory", "minute", "spike", "sql"}
    <2>1. e = h
        BY <1>6 DEF DecodeInto
    <2> HIDE DEF e
    <2> QED
        BY <1>1, <1>6, <2>1 DEF Keeps, Present, e
<1> QED
    BY <1>2, <1>3, <1>4, <1>5, <1>6

\* The loop over the records of a segment.
LEMMA DecodeKeeps ==
    ASSUME NEW R, Timed(R), NEW h \in HostData(R), NEW records \in Seq(R)
    PROVE  LET e == Decode(h, records)
           IN  e \in HostData(R) /\ Keeps(h, e) /\ \A r \in Range(records) : Present(r, e)
<1> DEFINE n == Len(records)
           V == HostData(R)
           Is(f) == f = [i \in 0 .. n |-> IF i = 0 THEN h ELSE DecodeInto(f[i - 1], records[i])]
           step == [x \in (1 .. n) \X V |-> DecodeInto(x[2], records[x[1]])]
           it == CHOOSE f : Is(f)
<1>1. n \in Nat /\ DOMAIN records = 1 .. n /\ \A i \in 1 .. n : records[i] \in R
    OBVIOUS
<1>2. Decode(h, records) = it[n]
    BY DEF Decode
<1>a. 0 \in 0 .. n /\ \A i \in 1 .. n : i \in 0 .. n /\ i # 0 /\ i - 1 \in 0 .. n
    BY <1>1
<1>b. \A i \in 0 .. n : i # 0 => i \in 1 .. n
    BY <1>1
<1> HIDE DEF it, n, V
<1>3. \A i \in 1 .. n, x \in V : DecodeInto(x, records[i]) \in V
    BY <1>1, DecodeIntoKeeps DEF V
<1>4. step \in [(1 .. n) \X V -> V]
    BY <1>3
<1>c. \A i \in 1 .. n, x \in V : step[<<i, x>>] = DecodeInto(x, records[i])
    OBVIOUS
<1> HIDE DEF step
<1>5. PICK g \in [0 .. n -> V] : Recursive(n, h, step, g)
    BY <1>1, <1>4, RecursionExists DEF V
<1>6. Is(g)
    <2>1. \A i \in 1 .. n : step[<<i, g[i - 1]>>] = DecodeInto(g[i - 1], records[i])
        BY <1>a, <1>c
    <2> QED
        BY <1>5, <1>b, <2>1 DEF Recursive
<1>7. Is(it)
    <2> HIDE DEF Is
    <2> QED
        BY <1>6 DEF it
<1>8. it[0] = h /\ \A i \in 1 .. n : it[i] = DecodeInto(it[i - 1], records[i])
    BY <1>7, <1>a
<1> DEFINE P == {i \in 0 .. n : /\ it[i] \in V /\ Keeps(h, it[i])
                                /\ \A k \in 1 .. i : Present(records[k], it[i])}
<1>9. 0 \in P
    <2>1. Keeps(h, h)
        BY InventoryTime DEF Keeps
    <2> QED
        BY <1>8, <1>a, <2>1 DEF V
<1>10. ASSUME NEW i \in 1 .. n, (i - 1) \in P PROVE i \in P
    <2> DEFINE d == it[i - 1]
               e == it[i]
    <2>1. d \in V /\ Keeps(h, d) /\ \A k \in 1 .. (i - 1) : Present(records[k], d)
        BY <1>10
    <2>2. e = DecodeInto(d, records[i]) /\ records[i] \in R
        BY <1>1, <1>8
    <2> HIDE DEF d, e
    <2>3. e \in V /\ Keeps(d, e) /\ Present(records[i], e)
        BY <2>1, <2>2, DecodeIntoKeeps DEF V
    <2>4. Keeps(h, e) /\ \A r \in R : Present(r, d) => Present(r, e)
        BY <2>1, <2>3, KeepsAll DEF V
    <2>5. \A k \in 1 .. i : k = i \/ (k \in 1 .. (i - 1) /\ k \in 1 .. n)
        BY <1>1
    <2>6. \A k \in 1 .. i : Present(records[k], e)
        BY <1>1, <2>1, <2>3, <2>4, <2>5
    <2> QED
        BY <1>a, <2>3, <2>4, <2>6 DEF e
<1>11. n \in P
    <2> HIDE DEF P
    <2>1. 0 .. n \subseteq P
        BY <1>1, <1>9, <1>10, UpTo
    <2> QED
        BY <1>1, <2>1
<1> QED
    BY <1>1, <1>2, <1>11 DEF V, Range

\* A segment that is used is the one that was exported.
LEMMA UsedAsExported ==
    ASSUME NEW b, NEW i, Usable(b, i)
    PROVE  files[b].entries[i] = Bundles[b].pinned[i]
BY DEF Usable, SegmentStatus

LEMMA DamagedIsFinite ==
    ASSUME DatasetAssumption, NEW b \in B
    PROVE  IsFiniteSet(Damaged(b)) /\ Cardinality(Damaged(b)) \in Nat
<1>1. Bundles[b].pinned \in Seq(Range(Bundles[b].pinned))
    BY DEF DatasetAssumption, B
<1>2. PICK n \in Nat : DOMAIN Bundles[b].pinned = 1 .. n
    BY <1>1
<1>3. IsFiniteSet(1 .. n)
    BY FS_Interval
<1>4. Damaged(b) \subseteq 1 .. n
    BY <1>2 DEF Damaged
<1>5. IsFiniteSet(Damaged(b))
    BY <1>3, <1>4, FS_Subset
<1> QED
    BY <1>5, FS_CardinalityType

\* The loop over the segments of a bundle.
LEMMA DecodeSegmentsKeeps ==
    ASSUME DatasetAssumption, NEW b \in B, NEW R, Timed(R), Shipped(b) \subseteq R,
           NEW h \in HostData(R)
    PROVE  LET e == DecodeSegments(h, b)
           IN  /\ e \in HostData(R) /\ Keeps(h, e)
               /\ \A i \in DOMAIN Bundles[b].pinned : Usable(b, i) =>
                     \A r \in Range(Bundles[b].pinned[i].records) : Present(r, e)
<1> DEFINE pinned == Bundles[b].pinned
           n == Len(pinned)
           V == HostData(R)
           Is(f) == f = [i \in 0 .. n |->
                            IF i = 0 THEN h
                            ELSE IF Usable(b, i) THEN Decode(f[i - 1], files[b].entries[i].records) ELSE f[i - 1]]
           Loop(x, i) == IF Usable(b, i) THEN Decode(x, files[b].entries[i].records) ELSE x
           step == [x \in (1 .. n) \X V |-> Loop(x[2], x[1])]
           it == CHOOSE f : Is(f)
<1>1. n \in Nat /\ DOMAIN pinned = 1 .. n
    <2>1. pinned \in Seq(Range(pinned))
        BY DEF DatasetAssumption, B
    <2> QED
        BY <2>1
<1>2. DecodeSegments(h, b) = [it[n] EXCEPT !.problems = @ + Cardinality(Damaged(b))]
    BY DEF DecodeSegments
<1>d. \A i \in 1 .. n : pinned[i].records \in Seq(R)
    <2> SUFFICES ASSUME NEW i \in 1 .. n PROVE pinned[i].records \in Seq(R)
        OBVIOUS
    <2>1. pinned[i] \in Range(pinned)
        BY <1>1 DEF Range
    <2>2. pinned[i].records \in Seq(Range(pinned[i].records))
        BY <2>1 DEF DatasetAssumption, B
    <2>3. Range(pinned[i].records) \subseteq R
        BY <2>1 DEF Shipped
    <2> QED
        BY <2>2, <2>3
<1>a. 0 \in 0 .. n /\ \A i \in 1 .. n : i \in 0 .. n /\ i # 0 /\ i - 1 \in 0 .. n
    BY <1>1
<1>b. \A i \in 0 .. n : i # 0 => i \in 1 .. n
    BY <1>1
<1> HIDE DEF it, n, V, pinned
<1>3. \A i \in 1 .. n, x \in V : Usable(b, i) =>
          LET e == Loop(x, i)
          IN  e \in V /\ Keeps(x, e) /\ \A r \in Range(pinned[i].records) : Present(r, e)
    BY <1>d, UsedAsExported, DecodeKeeps DEF V, pinned
<1>k. \A x \in V : Keeps(x, x)
    BY InventoryTime DEF Keeps, V
<1>4. \A i \in 1 .. n, x \in V : Loop(x, i) \in V /\ Keeps(x, Loop(x, i))
    BY <1>3, <1>k
<1>e. step \in [(1 .. n) \X V -> V]
    <2> HIDE DEF Loop
    <2> QED
        BY <1>4
<1>c. \A i \in 1 .. n, x \in V : step[<<i, x>>] = Loop(x, i)
    OBVIOUS
<1> HIDE DEF step
<1>5. PICK g \in [0 .. n -> V] : Recursive(n, h, step, g)
    BY <1>1, <1>e, RecursionExists DEF V
<1>6. Is(g)
    <2>1. \A i \in 1 .. n : step[<<i, g[i - 1]>>] = Loop(g[i - 1], i)
        BY <1>a, <1>c
    <2> QED
        BY <1>5, <1>b, <2>1 DEF Recursive
<1>7. Is(it)
    <2> HIDE DEF Is
    <2> QED
        BY <1>6 DEF it
<1>8. it[0] = h /\ \A i \in 1 .. n : it[i] = Loop(it[i - 1], i)
    BY <1>7, <1>a
<1> HIDE DEF Loop, Is
<1> DEFINE Here(i, e) == \A r \in Range(pinned[i].records) : Present(r, e)
           P == {i \in 0 .. n : /\ it[i] \in V /\ Keeps(h, it[i])
                                /\ \A k \in 1 .. i : Usable(b, k) => Here(k, it[i])}
<1>f. \A k \in 1 .. n, d \in V, e \in V : Keeps(d, e) /\ Here(k, d) => Here(k, e)
    <2> SUFFICES ASSUME NEW k \in 1 .. n, NEW d \in V, NEW e \in V, Keeps(d, e), Here(k, d) PROVE Here(k, e)
        OBVIOUS
    <2>1. \A r \in R : Present(r, d) => Present(r, e)
        BY KeepsAll DEF V
    <2>2. Range(pinned[k].records) \subseteq R
        BY <1>d DEF Range
    <2> QED
        BY <2>1, <2>2
<1>9. 0 \in P
    BY <1>8, <1>a, <1>k DEF V
<1>10. ASSUME NEW i \in 1 .. n, (i - 1) \in P PROVE i \in P
    <2> DEFINE d == it[i - 1]
               e == it[i]
    <2>1. d \in V /\ Keeps(h, d) /\ \A k \in 1 .. (i - 1) : Usable(b, k) => Here(k, d)
        BY <1>10
    <2>2. e = Loop(d, i)
        BY <1>8
    <2> HIDE DEF d, e
    <2>3. e \in V /\ Keeps(d, e)
        BY <1>4, <2>1, <2>2
    <2>4. Keeps(h, e)
        BY <2>1, <2>3, KeepsAll DEF V
    <2>5. \A k \in 1 .. i : k = i \/ (k \in 1 .. (i - 1) /\ k \in 1 .. n)
        BY <1>1
    <2>6. Usable(b, i) => Here(i, e)
        BY <1>3, <2>1, <2>2
    <2> HIDE DEF Here
    <2>7. \A k \in 1 .. i : Usable(b, k) => Here(k, e)
        BY <1>1, <1>f, <2>1, <2>3, <2>5, <2>6
    <2> QED
        BY <1>a, <2>3, <2>4, <2>7 DEF e
<1>11. n \in P
    <2> HIDE DEF P
    <2>1. 0 .. n \subseteq P
        BY <1>1, <1>9, <1>10, UpTo
    <2> QED
        BY <1>1, <2>1
<1>12. Cardinality(Damaged(b)) \in Nat
    BY DamagedIsFinite
<1> DEFINE d == it[n]
           e == [d EXCEPT !.problems = @ + Cardinality(Damaged(b))]
<1>13. d \in V /\ Keeps(h, d) /\ \A k \in 1 .. n : Usable(b, k) => Here(k, d)
    BY <1>11
<1> HIDE DEF d
<1>14. /\ e \in V /\ e.inventory = d.inventory /\ e.minutes = d.minutes /\ e.spikes = d.spikes /\ e.sql = d.sql
    <2> DEFINE c == Cardinality(Damaged(b))
    <2>1. c \in Nat
        BY <1>12
    <2> HIDE DEF c
    <2>2. d \in V
        BY <1>13
    <2>3. d.problems \in Nat /\ d.problems + c \in Nat
        BY <2>1, <2>2 DEF V, HostData
    <2>4. e = [d EXCEPT !.problems = d.problems + c]
        BY <2>2 DEF c, V, HostData
    <2> HIDE DEF e
    <2> QED
        BY <2>2, <2>3, <2>4 DEF V, HostData
<1> HIDE DEF e
<1>15. \A r : Present(r, d) => Present(r, e)
    BY <1>14 DEF Present
<1>16. Keeps(h, e)
    BY <1>13, <1>14 DEF Keeps
<1> QED
    BY <1>1, <1>2, <1>13, <1>14, <1>15, <1>16 DEF V, pinned, d, e

-----------------------------------------------------------------------------
(* What normalize leaves.                                                  *)

LEMMA MinutesOnce ==
    ASSUME NEW T, \A x \in T : x.ts \in Nat, NEW s \in Seq(T), NEW m \in ByTime(s)
    PROVE  LET t == Dropping(m, SameMinute(m))
           IN  /\ t \in Seq(T)
               /\ \A i, j \in DOMAIN t : i < j => t[i].ts < t[j].ts
               /\ \A r \in Range(s) : \E x \in Range(t) : x.ts = r.ts
<1> DEFINE t == Dropping(m, SameMinute(m))
           n == Len(m)
<1>1. /\ m \in Seq(T) /\ Range(m) = Range(s)
      /\ \A i, j \in DOMAIN m : i < j => m[i].ts <= m[j].ts
    BY ByTimeSorts
<1>2. n \in Nat /\ DOMAIN m = 1 .. n /\ \A i \in 1 .. n : m[i].ts \in Nat
    BY <1>1
<1>3. t \in Seq(T)
    BY <1>1, DroppingChooses
<1>4. PICK w : Chooses(t, m, DOMAIN m \ SameMinute(m), w)
    BY <1>1, DroppingChooses
<1> HIDE DEF t, n
<1>5. /\ \A i \in DOMAIN t : w[i] \in 1 .. n /\ w[i] \notin SameMinute(m) /\ t[i] = m[w[i]]
      /\ \A i, j \in DOMAIN t : i < j => w[i] < w[j]
      /\ \A k \in (1 .. n) \ SameMinute(m) : \E i \in DOMAIN t : w[i] = k
    BY <1>2, <1>4 DEF Chooses
<1>6. ASSUME NEW i \in DOMAIN t, NEW j \in DOMAIN t, i < j PROVE t[i].ts < t[j].ts
    <2> DEFINE a == w[i]
               b == w[j]
    <2>1. a \in 1 .. n /\ b \in 1 .. n /\ a < b /\ b \notin SameMinute(m) /\ t[i] = m[a] /\ t[j] = m[b]
        BY <1>5, <1>6
    <2> HIDE DEF a, b
    <2>2. b > 1 /\ b - 1 \in 1 .. n /\ (a = b - 1 \/ a < b - 1) /\ b - 1 < b
        BY <1>2, <2>1
    <2>3. m[b].ts # m[b - 1].ts
        BY <1>2, <2>1, <2>2 DEF SameMinute
    <2>4. m[a].ts \in Nat /\ m[b - 1].ts \in Nat /\ m[b].ts \in Nat
        BY <1>2, <2>1, <2>2
    <2>5. m[b - 1].ts <= m[b].ts
        BY <1>1, <1>2, <2>1, <2>2
    <2>6. a < b - 1 => m[a].ts <= m[b - 1].ts
        BY <1>1, <1>2, <2>1, <2>2
    <2> QED
        BY <2>1, <2>2, <2>3, <2>4, <2>5, <2>6
<1> DEFINE P == {k \in 0 .. n : k = 0 \/ \E i \in DOMAIN t : t[i].ts = m[k].ts}
<1>7. 0 \in P
    BY <1>2
<1>8. ASSUME NEW k \in 1 .. n, (k - 1) \in P PROVE k \in P
    <2>1. k \in 0 .. n /\ k \in Nat
        BY <1>2
    <2>2. CASE k \in SameMinute(m)
        <3>1. k > 1 /\ m[k].ts = m[k - 1].ts
            BY <2>2 DEF SameMinute
        <3>2. \E i \in DOMAIN t : t[i].ts = m[k - 1].ts
            BY <1>8, <2>1, <3>1
        <3> QED
            BY <2>1, <3>1, <3>2
    <2>3. CASE k \notin SameMinute(m)
        BY <1>5, <2>1, <2>3
    <2> QED
        BY <2>2, <2>3
<1>9. 0 .. n \subseteq P
    <2> HIDE DEF P
    <2> QED
        BY <1>2, <1>7, <1>8, UpTo
<1>10. ASSUME NEW r \in Range(s) PROVE \E x \in Range(t) : x.ts = r.ts
    <2>1. PICK k \in 1 .. n : r = m[k]
        BY <1>1, <1>2 DEF Range
    <2>2. k \in P /\ k # 0
        BY <1>2, <1>9
    <2> QED
        BY <2>1, <2>2 DEF Range
<1> QED
    BY <1>3, <1>6, <1>10 DEF t

LEMMA EventsOnce ==
    ASSUME NEW T, \A x \in T : x.ts \in Nat, NEW s \in Seq(T), NEW m \in ByTime(s)
    PROVE  LET t == Dropping(m, SameEvent(m))
           IN  /\ t \in Seq(T)
               /\ \A i, j \in DOMAIN t : i < j => t[i].id # t[j].id /\ t[i].ts <= t[j].ts
               /\ \A r \in Range(s) : \E x \in Range(t) : x.id = r.id
<1> DEFINE t == Dropping(m, SameEvent(m))
           n == Len(m)
<1>1. /\ m \in Seq(T) /\ Range(m) = Range(s)
      /\ \A i, j \in DOMAIN m : i < j => m[i].ts <= m[j].ts
    BY ByTimeSorts
<1>2. n \in Nat /\ DOMAIN m = 1 .. n
    BY <1>1
<1>3. t \in Seq(T)
    BY <1>1, DroppingChooses
<1>4. PICK w : Chooses(t, m, DOMAIN m \ SameEvent(m), w)
    BY <1>1, DroppingChooses
<1> HIDE DEF t, n
<1>5. /\ \A i \in DOMAIN t : w[i] \in 1 .. n /\ w[i] \notin SameEvent(m) /\ t[i] = m[w[i]]
      /\ \A i, j \in DOMAIN t : i < j => w[i] < w[j]
      /\ \A k \in (1 .. n) \ SameEvent(m) : \E i \in DOMAIN t : w[i] = k
    BY <1>2, <1>4 DEF Chooses
<1>6. ASSUME NEW i \in DOMAIN t, NEW j \in DOMAIN t, i < j PROVE t[i].id # t[j].id /\ t[i].ts <= t[j].ts
    <2> DEFINE a == w[i]
               b == w[j]
    <2>1. a \in 1 .. n /\ b \in 1 .. n /\ a < b /\ b \notin SameEvent(m) /\ t[i] = m[a] /\ t[j] = m[b]
        BY <1>5, <1>6
    <2> HIDE DEF a, b
    <2>2. a \in 1 .. (b - 1)
        BY <1>2, <2>1
    <2>3. m[a].id # m[b].id
        BY <1>2, <2>1, <2>2 DEF SameEvent
    <2> QED
        BY <1>1, <1>2, <2>1, <2>3
<1>7. ASSUME NEW r \in Range(s) PROVE \E x \in Range(t) : x.id = r.id
    <2>1. PICK k \in 1 .. n : r = m[k]
        BY <1>1, <1>2 DEF Range
    <2> DEFINE X == {c \in 1 .. n : m[c].id = r.id}
    <2>2. X \subseteq Nat /\ X # {}
        BY <1>2, <2>1
    <2>3. PICK c \in X : \A d \in X : c <= d
        <3> HIDE DEF X
        <3> QED
            BY <2>2, LeastNumber
    <2>4. ASSUME NEW d \in 1 .. (c - 1), m[d].id = m[c].id PROVE FALSE
        <3>1. d \in X /\ d < c
            BY <1>2, <2>4
        <3> HIDE DEF X
        <3>2. c <= d /\ c \in Nat /\ d \in Nat
            BY <2>2, <2>3, <3>1
        <3> QED
            BY <3>1, <3>2
    <2>5. c \notin SameEvent(m)
        BY <2>4 DEF SameEvent
    <2>6. PICK i \in DOMAIN t : w[i] = c
        BY <1>5, <2>5
    <2> QED
        BY <1>5, <2>6 DEF Range
<1> QED
    BY <1>3, <1>6, <1>7 DEF t

\* One record per minute and per event, in time order.
Clean(e) ==
    /\ \A i, j \in DOMAIN e.minutes : i < j => e.minutes[i].ts < e.minutes[j].ts
    /\ \A i, j \in DOMAIN e.spikes : i < j => e.spikes[i].id # e.spikes[j].id /\ e.spikes[i].ts <= e.spikes[j].ts

\* A record, or one of the same minute or event, is there.
Remains(r, e) ==
    /\ r.kind = "inventory" => e.inventory # None /\ r.ts <= e.inventory.ts
    /\ r.kind = "minute" => \E x \in Range(e.minutes) : x.ts = r.ts
    /\ r.kind = "spike" => \E x \in Range(e.spikes) : x.id = r.id
    /\ r.kind = "sql" => r \in Range(e.sql)

LEMMA NormalizeCleans ==
    ASSUME NEW R, Timed(R), NEW h \in HostData(R), NEW e \in Normalize(h)
    PROVE  e \in HostData(R) /\ Clean(e) /\ \A r : Present(r, h) => Remains(r, e)
<1>1. /\ e.inventory = h.inventory /\ e.problems = h.problems /\ e.sql \in ByTime(h.sql)
      /\ e = [inventory |-> e.inventory, minutes |-> e.minutes, spikes |-> e.spikes, sql |-> e.sql,
              problems |-> e.problems]
      /\ e.minutes \in {Dropping(m, SameMinute(m)) : m \in ByTime(h.minutes)}
      /\ e.spikes \in {Dropping(v, SameEvent(v)) : v \in ByTime(h.spikes)}
    BY DEF Normalize
<1>a. PICK m \in ByTime(h.minutes) : e.minutes = Dropping(m, SameMinute(m))
    BY <1>1
<1>b. PICK v \in ByTime(h.spikes) : e.spikes = Dropping(v, SameEvent(v))
    BY <1>1
<1> DEFINE ms == Dropping(m, SameMinute(m))
           es == Dropping(v, SameEvent(v))
<1>2. /\ h.minutes \in Seq(OfKind("minute", R)) /\ h.spikes \in Seq(OfKind("spike", R))
      /\ h.sql \in Seq(OfKind("sql", R))
    BY DEF HostData
<1>3. \A k : \A x \in OfKind(k, R) : x.ts \in Nat
    BY DEF OfKind, Timed
<1>4. /\ ms \in Seq(OfKind("minute", R))
      /\ \A i, j \in DOMAIN ms : i < j => ms[i].ts < ms[j].ts
      /\ \A r \in Range(h.minutes) : \E x \in Range(ms) : x.ts = r.ts
    BY <1>2, <1>3, MinutesOnce
<1>5. /\ es \in Seq(OfKind("spike", R))
      /\ \A i, j \in DOMAIN es : i < j => es[i].id # es[j].id /\ es[i].ts <= es[j].ts
      /\ \A r \in Range(h.spikes) : \E x \in Range(es) : x.id = r.id
    <2> DEFINE T == OfKind("spike", R)
    <2>1. (\A x \in T : x.ts \in Nat) /\ h.spikes \in Seq(T)
        BY <1>2, <1>3
    <2> HIDE DEF T
    <2> QED
        BY ONLY <2>1, v \in ByTime(h.spikes), EventsOnce DEF T
<1>6. e.sql \in Seq(OfKind("sql", R)) /\ Range(e.sql) = Range(h.sql)
    BY <1>1, <1>2, ByTimeSorts
<1> HIDE DEF ms, es
<1>7. e.minutes = ms /\ e.spikes = es
    BY <1>a, <1>b DEF ms, es
<1>8. e \in HostData(R)
    <2>1. h.inventory \in OfKind("inventory", R) \cup {None} /\ h.problems \in Nat
        BY DEF HostData
    <2>2. /\ e.inventory \in OfKind("inventory", R) \cup {None} /\ e.problems \in Nat
          /\ e.minutes \in Seq(OfKind("minute", R)) /\ e.spikes \in Seq(OfKind("spike", R))
          /\ e.sql \in Seq(OfKind("sql", R))
        BY <1>1, <1>4, <1>5, <1>6, <1>7, <2>1
    <2>3. e = [inventory |-> e.inventory, minutes |-> e.minutes, spikes |-> e.spikes, sql |-> e.sql,
               problems |-> e.problems]
        BY <1>1
    <2> QED
        BY ONLY <2>2, <2>3 DEF HostData
<1>9. Clean(e)
    BY <1>4, <1>5, <1>7 DEF Clean
<1>10. ASSUME NEW r, Present(r, h) PROVE Remains(r, e)
    BY <1>1, <1>4, <1>5, <1>6, <1>7, <1>10 DEF Present, Remains
<1> QED
    BY <1>8, <1>9, <1>10

-----------------------------------------------------------------------------
(* The inductive invariant of the import.                                  *)

\* The records of the bundles of a host that have been read.
Sources(h) == UNION {Shipped(b) : b \in {x \in B : Bundles[x].host = h /\ Imported(x)}}

Placed ==
    /\ order \in SetToSeqs(B) /\ pos \in 0 .. Len(order) /\ normal \in BOOLEAN
    /\ normal => pos = Len(order)

Counted ==
    /\ counts \in [ok : Nat, partial : Nat, rejected : Nat]
    /\ counts.ok + counts.partial + counts.rejected = pos
    /\ IsFiniteSet(warnings) /\ Cardinality(warnings) = counts.partial + counts.rejected
    /\ \A b \in warnings : Imported(b)

Warned == \A b \in B : Imported(b) /\ (Fatal(b) \/ Damaged(b) # {}) => b \in warnings

Sourced ==
    \A h \in DOMAIN ds : /\ \E b \in B : Imported(b) /\ Bundles[b].host = h /\ ~Fatal(b)
                         /\ ds[h] \in HostData(Sources(h))
                         /\ normal => Clean(ds[h])

\* Whatever an accepted bundle still held of its segments was kept.
Kept ==
    \A b \in B : Imported(b) /\ ~Fatal(b) =>
        /\ Bundles[b].host \in DOMAIN ds
        /\ \A i \in DOMAIN Bundles[b].pinned : Usable(b, i) =>
              \A r \in Range(Bundles[b].pinned[i].records) :
                  /\ ~normal => Present(r, ds[Bundles[b].host])
                  /\ normal => Remains(r, ds[Bundles[b].host])

ImportInv == Placed /\ Counted /\ Warned /\ Sourced /\ Kept

LEMMA ShippedTimed ==
    ASSUME DatasetAssumption
    PROVE  \A b \in B : Timed(Shipped(b))
BY DEF DatasetAssumption, B, Timed, Shipped

LEMMA SegmentShipped ==
    ASSUME NEW b \in B, NEW i \in DOMAIN Bundles[b].pinned
    PROVE  Range(Bundles[b].pinned[i].records) \subseteq Shipped(b)
BY DEF Shipped, Range

LEMMA HostDataGrows ==
    ASSUME NEW R, NEW Q, R \subseteq Q
    PROVE  HostData(R) \subseteq HostData(Q) /\ EmptyHost \in HostData(Q)
<1>1. \A k : OfKind(k, R) \subseteq OfKind(k, Q)
    BY DEF OfKind
<1>2. \A k : Seq(OfKind(k, R)) \subseteq Seq(OfKind(k, Q)) /\ <<>> \in Seq(OfKind(k, Q))
    BY <1>1
<1>3. HostData(R) \subseteq HostData(Q)
    BY <1>1, <1>2 DEF HostData
<1>4. EmptyHost \in HostData(Q)
    BY <1>2 DEF HostData, EmptyHost
<1> QED
    BY <1>3, <1>4

\* Every bundle has one place in the order.
LEMMA EveryBundleOnce ==
    ASSUME DatasetAssumption, order \in SetToSeqs(B)
    PROVE  /\ Len(order) \in Nat
           /\ \A k \in 1 .. Len(order) : order[k] \in B
           /\ \A j, k \in 1 .. Len(order) : order[j] = order[k] => j = k
           /\ \A b \in B : \E k \in 1 .. Len(order) : order[k] = b
<1> DEFINE n == Cardinality(B)
<1>1. IsFiniteSet(B)
    <2>1. Bundles \in Seq(Range(Bundles))
        BY DEF DatasetAssumption
    <2>2. PICK m \in Nat : B = 1 .. m
        BY <2>1 DEF B
    <2>3. IsFiniteSet(1 .. m)
        BY FS_Interval
    <2> QED
        BY <2>2, <2>3
<1>2. n \in Nat
    BY <1>1, FS_CardinalityType
<1>3. order \in [1 .. n -> B] /\ \A j, k \in 1 .. n : j # k => order[j] # order[k]
    BY DEF SetToSeqs
<1> HIDE DEF n
<1>4. order \in Seq(B) /\ Len(order) = n
    BY <1>2, <1>3
<1>5. order \in Injection(1 .. n, B)
    BY <1>3 DEF Injection, IsInjective
<1>6. IsFiniteSet(1 .. n) /\ Cardinality(1 .. n) = n
    BY <1>2, FS_Interval
<1>7. order \in Surjection(1 .. n, B)
    BY <1>1, <1>5, <1>6, FS_Injection DEF n
<1>8. \A b \in B : \E k \in 1 .. n : order[k] = b
    BY <1>7 DEF Surjection
<1> QED
    BY <1>2, <1>3, <1>4, <1>8

LEMMA ImportStarts ==
    ASSUME DatasetAssumption, DatasetInit
    PROVE  ImportInv
<1>1. \A b \in B : ~Imported(b)
    BY DEF DatasetInit, Imported
<1>2. Placed
    <2>1. order \in SetToSeqs(B) /\ pos = 0 /\ normal = FALSE
        BY DEF DatasetInit
    <2>2. Len(order) \in Nat
        BY <2>1, EveryBundleOnce
    <2>3. pos \in 0 .. Len(order)
        BY <2>1, <2>2
    <2>4. normal \in BOOLEAN /\ ~normal
        BY <2>1
    <2> QED
        BY <2>1, <2>3, <2>4, Zenon DEF Placed
<1>3. Counted
    BY FS_EmptySet DEF DatasetInit, Counted
<1>4. DOMAIN ds = {}
    BY DEF DatasetInit
<1> QED
    BY <1>1, <1>2, <1>3, <1>4 DEF ImportInv, Warned, Sourced, Kept

LEMMA CorruptKeepsInv ==
    ASSUME DatasetAssumption, ImportInv, NEW b, NEW f, Corrupt(b, f)
    PROVE  ImportInv'
<1>1. pos = 0 /\ UNCHANGED <<identities, order, pos, ds, counts, warnings, normal>>
    BY DEF Corrupt
<1>2. \A x : ~Imported(x) /\ ~Imported(x)'
    BY <1>1 DEF Imported
<1>3. DOMAIN ds = {}
    BY <1>2 DEF ImportInv, Sourced
<1>4. Placed'
    BY <1>1 DEF ImportInv, Placed
<1>5. Counted'
    BY <1>1, <1>2 DEF ImportInv, Counted
<1>6. Sourced'
    BY <1>1, <1>3 DEF Sourced
<1>7. Warned' /\ Kept'
    BY <1>2 DEF Warned, Kept
<1> QED
    BY <1>4, <1>5, <1>6, <1>7 DEF ImportInv

LEMMA LoadKeepsInv ==
    ASSUME DatasetAssumption, ImportInv, LoadNext
    PROVE  ImportInv'
<1>1. pos < Len(order) /\ pos' = pos + 1 /\ UNCHANGED <<files, identities, order, normal, faults>>
    BY DEF LoadNext
<1>2. /\ Len(order) \in Nat /\ pos \in Nat /\ order \in SetToSeqs(B)
      /\ \A k \in 1 .. Len(order) : order[k] \in B
      /\ \A j, k \in 1 .. Len(order) : order[j] = order[k] => j = k
    <2>1. order \in SetToSeqs(B) /\ pos \in 0 .. Len(order)
        BY DEF ImportInv, Placed
    <2>2. Len(order) \in Nat
        BY <2>1, EveryBundleOnce
    <2> QED
        BY <2>1, <2>2, EveryBundleOnce
<1>3. ~normal /\ normal' = normal
    BY <1>1, <1>2 DEF ImportInv, Placed
<1>4. pos + 1 \in 1 .. Len(order) /\ order[pos + 1] \in B
    BY <1>1, <1>2
<1>c. PICK c \in B : c = order[pos + 1]
    BY <1>4
<1>d. ImportRejected(c) \/ ImportSegments(c)
    BY <1>c DEF LoadNext
<1> DEFINE owner == Bundles[c].host
<1>5. ~Imported(c)
    <2> SUFFICES ASSUME NEW k \in 1 .. pos, order[k] = c PROVE FALSE
        BY DEF Imported
    <2>1. k \in 1 .. Len(order) /\ k # pos + 1
        BY <1>1, <1>2
    <2> QED
        BY <1>2, <1>4, <1>c, <2>1
<1>6. \A b : Imported(b)' <=> Imported(b) \/ b = c
    <2>1. 1 .. pos' = (1 .. pos) \cup {pos + 1}
        BY <1>1, <1>2
    <2> QED
        BY <1>1, <1>c, <2>1 DEF Imported
<1>7. /\ \A b : Fatal(b)' <=> Fatal(b)
      /\ \A b, i : Usable(b, i)' <=> Usable(b, i)
      /\ \A b : Damaged(b)' = Damaged(b)
    BY <1>1 DEF Fatal, Usable, Damaged, SegmentStatus, HasEntry
<1>8. Placed'
    <2>1. pos' \in 0 .. Len(order')
        BY <1>1, <1>2
    <2>2. normal' \in BOOLEAN /\ ~normal'
        BY <1>3 DEF ImportInv, Placed
    <2>3. order' \in SetToSeqs(B)
        BY <1>1, <1>2
    <2> QED
        BY <2>1, <2>2, <2>3, Zenon DEF Placed
<1>9. \A h : Sources(h) \subseteq Sources(h)'
    BY <1>6 DEF Sources
<1>e. Shipped(c) \subseteq Sources(owner)'
    BY <1>6 DEF Sources
<1>f. /\ counts \in [ok : Nat, partial : Nat, rejected : Nat]
      /\ counts.ok + counts.partial + counts.rejected = pos
      /\ IsFiniteSet(warnings) /\ Cardinality(warnings) = counts.partial + counts.rejected
      /\ \A b \in warnings : Imported(b)
    BY DEF ImportInv, Counted
<1>g. IsFiniteSet(warnings \cup {c}) /\ Cardinality(warnings \cup {c}) = Cardinality(warnings) + 1
    <2>1. c \notin warnings
        BY <1>5, <1>f
    <2> QED
        BY <1>f, <2>1, FS_AddElement
<1>h. ASSUME \/ warnings' = warnings \cup {c} /\ counts' = [counts EXCEPT !.rejected = @ + 1]
             \/ warnings' = warnings \cup {c} /\ counts' = [counts EXCEPT !.partial = @ + 1]
             \/ warnings' = warnings /\ counts' = [counts EXCEPT !.ok = @ + 1]
      PROVE  Counted'
    <2>1. /\ counts' \in [ok : Nat, partial : Nat, rejected : Nat]
          /\ counts'.ok + counts'.partial + counts'.rejected = pos'
          /\ \/ warnings' = warnings \cup {c} /\ counts'.partial + counts'.rejected = counts.partial + counts.rejected + 1
             \/ warnings' = warnings /\ counts'.partial + counts'.rejected = counts.partial + counts.rejected
        <3>1. /\ counts.ok \in Nat /\ counts.partial \in Nat /\ counts.rejected \in Nat
              /\ counts.ok + counts.partial + counts.rejected = pos /\ pos' = pos + 1
              /\ counts \in [ok : Nat, partial : Nat, rejected : Nat]
            BY <1>1, <1>f
        <3>2. CASE warnings' = warnings \cup {c} /\ counts' = [counts EXCEPT !.rejected = @ + 1]
            BY ONLY <3>1, <3>2
        <3>3. CASE warnings' = warnings \cup {c} /\ counts' = [counts EXCEPT !.partial = @ + 1]
            BY ONLY <3>1, <3>3
        <3>4. CASE warnings' = warnings /\ counts' = [counts EXCEPT !.ok = @ + 1]
            BY ONLY <3>1, <3>4
        <3> QED
            BY <1>h, <3>2, <3>3, <3>4
    <2>2. IsFiniteSet(warnings') /\ Cardinality(warnings') = counts'.partial + counts'.rejected
        BY <1>f, <1>g, <2>1
    <2>3. \A b \in warnings' : Imported(b)'
        BY <1>6, <1>f, <1>h
    <2>4. counts' \in [ok : Nat, partial : Nat, rejected : Nat] /\ counts'.ok + counts'.partial + counts'.rejected = pos'
        BY <2>1
    <2> QED
        BY ONLY <2>2, <2>3, <2>4, Zenon DEF Counted
<1>10. \A h : \A r \in Sources(h)' : r.ts \in Nat /\ r # None
    BY ShippedTimed DEF Timed, Sources
<1>11. CASE ImportRejected(c)
    <2>1. /\ Fatal(c) /\ ds' = ds /\ warnings' = warnings \cup {c}
          /\ counts' = [counts EXCEPT !.rejected = @ + 1]
        BY <1>11 DEF ImportRejected
    <2>4. Counted'
        BY <1>h, <2>1
    <2>5. Warned'
        BY <1>6, <1>7, <2>1 DEF ImportInv, Warned
    <2>6. Kept'
        BY <1>3, <1>6, <1>7, <2>1 DEF ImportInv, Kept
    <2>7. ASSUME NEW h \in DOMAIN ds
          PROVE  /\ \E b \in B : Imported(b)' /\ Bundles[b].host = h /\ ~Fatal(b)'
                 /\ ds[h] \in HostData(Sources(h)')
        <3>1. ds[h] \in HostData(Sources(h))
            BY DEF ImportInv, Sourced
        <3>2. ds[h] \in HostData(Sources(h)')
            BY <1>9, <3>1, HostDataGrows
        <3>3. PICK b \in B : Imported(b) /\ Bundles[b].host = h /\ ~Fatal(b)
            BY DEF ImportInv, Sourced
        <3> QED
            BY <1>6, <1>7, <3>2, <3>3
    <2>8. Sourced'
        BY <1>3, <2>1, <2>7 DEF Sourced
    <2> QED
        BY <1>8, <2>4, <2>5, <2>6, <2>8 DEF ImportInv
<1>12. CASE ImportSegments(c)
    <2> DEFINE h0 == IF owner \in DOMAIN ds THEN ds[owner] ELSE EmptyHost
               e == DecodeSegments(h0, c)
               R == Sources(owner)'
    <2>1. /\ ~Fatal(c)
          /\ ds' = [x \in DOMAIN ds \cup {owner} |-> IF x = owner THEN e ELSE ds[x]]
        BY <1>12 DEF ImportSegments, HostOf
    <2>2. Shipped(c) \subseteq R /\ Sources(owner) \subseteq R
        BY <1>9, <1>e
    <2>3. Timed(R)
        BY <1>10 DEF Timed
    <2>4. h0 \in HostData(R)
        <3>1. owner \in DOMAIN ds => ds[owner] \in HostData(Sources(owner))
            BY DEF ImportInv, Sourced
        <3> QED
            BY <2>2, <3>1, HostDataGrows
    <2>5. /\ e \in HostData(R) /\ Keeps(h0, e)
          /\ \A i \in DOMAIN Bundles[c].pinned : Usable(c, i) =>
                \A r \in Range(Bundles[c].pinned[i].records) : Present(r, e)
        <3> HIDE DEF R, h0
        <3> QED
            BY <2>2, <2>3, <2>4, DecodeSegmentsKeeps
    <2> HIDE DEF e
    <2>6. DOMAIN ds' = DOMAIN ds \cup {owner} /\ ds'[owner] = e /\ \A x \in DOMAIN ds : x # owner => ds'[x] = ds[x]
        BY <2>1
    <2>7. IF Damaged(c) # {}
          THEN counts' = [counts EXCEPT !.partial = @ + 1] /\ warnings' = warnings \cup {c}
          ELSE counts' = [counts EXCEPT !.ok = @ + 1] /\ warnings' = warnings
        BY <1>12 DEF ImportSegments
    <2>8. Counted'
        BY <1>h, <2>7
    <2>9. Warned'
        BY <1>6, <1>7, <2>1, <2>7 DEF ImportInv, Warned
    <2>10. ASSUME NEW h \in DOMAIN ds \cup {owner}
           PROVE  /\ \E b \in B : Imported(b)' /\ Bundles[b].host = h /\ ~Fatal(b)'
                  /\ ds'[h] \in HostData(Sources(h)')
        <3>1. CASE h = owner
            BY <1>6, <1>7, <2>1, <2>5, <2>6, <3>1
        <3>2. CASE h # owner
            <4>1. h \in DOMAIN ds /\ ds[h] \in HostData(Sources(h))
                BY <3>2 DEF ImportInv, Sourced
            <4>2. ds[h] \in HostData(Sources(h)')
                BY <1>9, <4>1, HostDataGrows
            <4>3. PICK b \in B : Imported(b) /\ Bundles[b].host = h /\ ~Fatal(b)
                BY <4>1 DEF ImportInv, Sourced
            <4> QED
                BY <1>6, <1>7, <2>6, <3>2, <4>1, <4>2, <4>3
        <3> QED
            BY <3>1, <3>2
    <2>11. Sourced'
        BY <1>3, <2>6, <2>10 DEF Sourced
    <2>12. ASSUME NEW b \in B, Imported(b)', ~Fatal(b)
           PROVE  /\ Bundles[b].host \in DOMAIN ds'
                  /\ \A i \in DOMAIN Bundles[b].pinned : Usable(b, i) =>
                        \A r \in Range(Bundles[b].pinned[i].records) : Present(r, ds'[Bundles[b].host])
        <3>1. CASE b = c
            BY <2>5, <2>6, <3>1
        <3>2. CASE b # c
            <4>1. /\ Bundles[b].host \in DOMAIN ds
                  /\ \A i \in DOMAIN Bundles[b].pinned : Usable(b, i) =>
                        \A r \in Range(Bundles[b].pinned[i].records) : Present(r, ds[Bundles[b].host])
                BY <1>3, <1>6, <2>12, <3>2 DEF ImportInv, Kept
            <4>2. CASE Bundles[b].host = owner
                <5>1. h0 = ds[owner]
                    BY <4>1, <4>2
                <5>2. \A r \in R : Present(r, h0) => Present(r, e)
                    <6> HIDE DEF R, h0
                    <6> QED
                        BY <2>3, <2>4, <2>5, KeepsAll
                <5>3. \A i \in DOMAIN Bundles[b].pinned : Range(Bundles[b].pinned[i].records) \subseteq R
                    <6>1. Shipped(b) \subseteq R
                        BY <2>12, <4>2 DEF Sources
                    <6> HIDE DEF R
                    <6> QED
                        BY <6>1, SegmentShipped
                <5> HIDE DEF R, h0
                <5> QED
                    BY <2>6, <4>1, <4>2, <5>1, <5>2, <5>3
            <4>3. CASE Bundles[b].host # owner
                BY <2>6, <4>1, <4>3
            <4> QED
                BY <4>2, <4>3
        <3> QED
            BY <3>1, <3>2
    <2>13. Kept'
        BY <1>3, <1>7, <2>12 DEF Kept
    <2> QED
        BY <1>8, <2>8, <2>9, <2>11, <2>13 DEF ImportInv
<1> QED
    BY <1>d, <1>11, <1>12

LEMMA NormalizeKeepsInv ==
    ASSUME DatasetAssumption, ImportInv, NormalizeAll
    PROVE  ImportInv'
<1>1. /\ ~normal /\ normal' = TRUE /\ pos = Len(order)
      /\ UNCHANGED <<files, identities, order, pos, counts, warnings, faults>>
      /\ DOMAIN ds' = DOMAIN ds /\ \A h \in DOMAIN ds : ds'[h] \in Normalize(ds[h])
    BY DEF NormalizeAll
<1>2. /\ \A b : Imported(b)' <=> Imported(b)
      /\ \A b : Fatal(b)' <=> Fatal(b)
      /\ \A b, i : Usable(b, i)' <=> Usable(b, i)
      /\ \A b : Damaged(b)' = Damaged(b)
    BY <1>1 DEF Imported, Fatal, Usable, Damaged, SegmentStatus, HasEntry
<1>3. Placed'
    BY <1>1 DEF ImportInv, Placed
<1>4. Counted'
    <2>1. counts' = counts /\ warnings' = warnings /\ pos' = pos
        BY <1>1
    <2>2. \A b \in warnings' : Imported(b)'
        BY <1>2, <2>1 DEF ImportInv, Counted
    <2> QED
        BY <2>1, <2>2 DEF ImportInv, Counted
<1>5. Warned'
    BY <1>1, <1>2 DEF ImportInv, Warned
<1>6. \A h : Sources(h)' = Sources(h)
    BY <1>2 DEF Sources
<1>7. \A h : Timed(Sources(h))
    BY ShippedTimed DEF Timed, Sources
<1>8. ASSUME NEW h \in DOMAIN ds
      PROVE  /\ ds'[h] \in HostData(Sources(h)) /\ Clean(ds'[h])
             /\ \A r : Present(r, ds[h]) => Remains(r, ds'[h])
    <2>1. ds[h] \in HostData(Sources(h)) /\ ds'[h] \in Normalize(ds[h])
        BY <1>1 DEF ImportInv, Sourced
    <2> QED
        BY <1>7, <2>1, NormalizeCleans
<1>9. Sourced'
    <2> SUFFICES ASSUME NEW h \in DOMAIN ds'
                 PROVE  /\ \E b \in B : Imported(b)' /\ Bundles[b].host = h /\ ~Fatal(b)'
                        /\ ds'[h] \in HostData(Sources(h)')
                        /\ Clean(ds'[h])
        BY DEF Sourced
    <2>1. h \in DOMAIN ds
        BY <1>1
    <2>2. PICK b \in B : Imported(b) /\ Bundles[b].host = h /\ ~Fatal(b)
        BY <2>1 DEF ImportInv, Sourced
    <2> QED
        BY <1>2, <1>6, <1>8, <2>1, <2>2
<1>10. Kept'
    <2> SUFFICES ASSUME NEW b \in B, Imported(b)', ~Fatal(b)'
                 PROVE  /\ Bundles[b].host \in DOMAIN ds'
                        /\ \A i \in DOMAIN Bundles[b].pinned : Usable(b, i)' =>
                              \A r \in Range(Bundles[b].pinned[i].records) : Remains(r, ds'[Bundles[b].host])
        BY <1>1 DEF Kept
    <2>1. /\ Bundles[b].host \in DOMAIN ds
          /\ \A i \in DOMAIN Bundles[b].pinned : Usable(b, i) =>
                \A r \in Range(Bundles[b].pinned[i].records) : Present(r, ds[Bundles[b].host])
        BY <1>1, <1>2 DEF ImportInv, Kept
    <2> QED
        BY <1>1, <1>2, <1>8, <2>1
<1> QED
    BY <1>3, <1>4, <1>5, <1>9, <1>10 DEF ImportInv

LEMMA ImportInvariant ==
    ASSUME DatasetAssumption
    PROVE  DatasetSpec => []ImportInv
<1>1. DatasetInit => ImportInv
    BY ImportStarts
<1>2. ImportInv /\ [DatasetNext]_datasetVars => ImportInv'
    <2> SUFFICES ASSUME ImportInv, [DatasetNext]_datasetVars PROVE ImportInv'
        OBVIOUS
    <2>1. CASE \E b, f : Corrupt(b, f)
        BY <2>1, CorruptKeepsInv
    <2>2. CASE LoadNext
        BY <2>2, LoadKeepsInv
    <2>3. CASE NormalizeAll
        BY <2>3, NormalizeKeepsInv
    <2>4. CASE UNCHANGED datasetVars
        <3>1. UNCHANGED <<files, identities, order, pos, ds, counts, warnings, normal>>
            BY <2>4 DEF datasetVars
        <3>2. /\ \A b : Imported(b)' <=> Imported(b)
              /\ \A b : Fatal(b)' <=> Fatal(b)
              /\ \A b, i : Usable(b, i)' <=> Usable(b, i)
              /\ \A b : Damaged(b)' = Damaged(b)
            BY <3>1 DEF Imported, Fatal, Usable, Damaged, SegmentStatus, HasEntry
        <3>3. Placed'
            BY <3>1 DEF ImportInv, Placed
        <3>4. Counted'
            BY <3>1, <3>2 DEF ImportInv, Counted
        <3>5. Warned'
            BY <3>1, <3>2 DEF ImportInv, Warned
        <3>6. \A h : Sources(h)' = Sources(h)
            BY <3>2 DEF Sources
        <3>7. Sourced'
            BY <3>1, <3>2, <3>6 DEF ImportInv, Sourced
        <3>8. Kept'
            BY <3>1, <3>2 DEF ImportInv, Kept
        <3> QED
            BY <3>3, <3>4, <3>5, <3>7, <3>8 DEF ImportInv
    <2>5. (\E b, f : Corrupt(b, f)) \/ LoadNext \/ NormalizeAll \/ UNCHANGED datasetVars
        BY DEF DatasetNext, LoseManifest, Replace, Cut
    <2> QED
        BY <2>1, <2>2, <2>3, <2>4, <2>5
<1> QED
    BY <1>1, <1>2, PTL DEF DatasetSpec

-----------------------------------------------------------------------------
(* Theorems.                                                               *)

LEMMA NothingIsLost ==
    ASSUME DatasetAssumption, ImportInv
    PROVE  NoSilentLoss
<1> SUFFICES ASSUME NEW b \in B, NEW r \in Shipped(b), Imported(b), b \notin warnings, r.kind \in KnownKinds
             PROVE  \E x \in Loaded(Bundles[b].host) : x = r \/ StandsFor(x, r)
    BY DEF NoSilentLoss
<1> DEFINE owner == Bundles[b].host
           e == ds[owner]
<1>1. ~Fatal(b) /\ Damaged(b) = {}
    BY DEF ImportInv, Warned
<1>2. PICK i \in DOMAIN Bundles[b].pinned : r \in Range(Bundles[b].pinned[i].records)
    BY DEF Shipped, Range
<1>3. Usable(b, i)
    BY <1>1, <1>2 DEF Damaged, Usable
<1>4. /\ owner \in DOMAIN ds
      /\ ~normal => Present(r, e)
      /\ normal => Remains(r, e)
    BY <1>1, <1>2, <1>3 DEF ImportInv, Kept
<1>5. e \in HostData(Sources(owner))
    BY <1>4 DEF ImportInv, Sourced
<1>6. Loaded(owner) = (({e.inventory} \ {None}) \cup Range(e.minutes)) \cup (Range(e.spikes) \cup Range(e.sql))
    BY <1>4 DEF Loaded
<1> HIDE DEF owner, e
<1>7. CASE r.kind = "inventory"
    <2>1. e.inventory # None /\ r.ts <= e.inventory.ts
        BY <1>4, <1>7 DEF Present, Remains
    <2>2. e.inventory.kind = "inventory"
        BY <1>5, <2>1 DEF HostData, OfKind
    <2>3. r.ts \in Nat /\ e.inventory.ts \in Nat
        <3>1. Timed(Sources(owner)) /\ Timed(Shipped(b))
            BY ShippedTimed DEF Timed, Sources
        <3> QED
            BY <1>5, <2>1, <3>1, InventoryTime DEF Timed
    <2>4. StandsFor(e.inventory, r)
        BY <1>7, <2>1, <2>2, <2>3 DEF StandsFor
    <2> QED
        BY <1>6, <2>1, <2>4 DEF owner
<1>8. CASE r.kind = "minute"
    <2>1. CASE ~normal
        BY <1>4, <1>6, <1>8, <2>1 DEF Present, owner
    <2>2. CASE normal
        <3>1. PICK x \in Range(e.minutes) : x.ts = r.ts
            BY <1>4, <1>8, <2>2 DEF Remains
        <3>2. x.kind = "minute"
            BY <1>5, <3>1 DEF HostData, OfKind, Range
        <3> QED
            BY <1>6, <1>8, <2>2, <3>1, <3>2 DEF StandsFor, owner
    <2> QED
        BY <2>1, <2>2
<1>9. CASE r.kind = "spike"
    <2>1. CASE ~normal
        BY <1>4, <1>6, <1>9, <2>1 DEF Present, owner
    <2>2. CASE normal
        <3>1. PICK x \in Range(e.spikes) : x.id = r.id
            BY <1>4, <1>9, <2>2 DEF Remains
        <3>2. x.kind = "spike"
            BY <1>5, <3>1 DEF HostData, OfKind, Range
        <3> QED
            BY <1>6, <1>9, <2>2, <3>1, <3>2 DEF StandsFor, owner
    <2> QED
        BY <2>1, <2>2
<1>10. CASE r.kind = "sql"
    BY <1>4, <1>6, <1>10 DEF Present, Remains, owner
<1> QED
    BY <1>7, <1>8, <1>9, <1>10 DEF KnownKinds

LEMMA OnlyPinned ==
    ASSUME DatasetAssumption, ImportInv
    PROVE  OnlyPinnedRecords
<1> SUFFICES ASSUME NEW h \in HostNames PROVE Loaded(h) \subseteq Sources(h)
    BY DEF OnlyPinnedRecords, Sources
<1>1. CASE h \notin DOMAIN ds
    BY <1>1 DEF Loaded
<1>2. CASE h \in DOMAIN ds
    <2> DEFINE e == ds[h]
               R == Sources(h)
    <2>1. e \in HostData(R)
        BY <1>2 DEF ImportInv, Sourced
    <2>2. Loaded(h) = (({e.inventory} \ {None}) \cup Range(e.minutes)) \cup (Range(e.spikes) \cup Range(e.sql))
        BY <1>2 DEF Loaded
    <2> HIDE DEF e, R
    <2>3. \A k : OfKind(k, R) \subseteq R
        BY DEF OfKind
    <2>4. /\ e.inventory \in R \cup {None} /\ e.minutes \in Seq(R)
          /\ e.spikes \in Seq(R) /\ e.sql \in Seq(R)
        BY <2>1, <2>3 DEF HostData
    <2>5. Range(e.minutes) \subseteq R /\ Range(e.spikes) \subseteq R /\ Range(e.sql) \subseteq R
        BY <2>4 DEF Range
    <2> QED
        BY <2>2, <2>4, <2>5 DEF R
<1> QED
    BY <1>1, <1>2

\* Whatever the transfer did to the bundles and in whatever order they are
\* read: every bundle is counted once, a host's data are records that its own
\* bundles pin, and a record that is missing without anything in its place is
\* in a bundle that a warning names (LoadBundles, Import).
THEOREM ImportsAreHonest ==
    ASSUME DatasetAssumption
    PROVE  DatasetSpec => []ImportIsHonest
<1>1. ImportInv => ImportIsHonest
    <2> SUFFICES ASSUME ImportInv PROVE ImportIsHonest
        OBVIOUS
    <2>1. DatasetTypeOK
        BY DEF ImportInv, Counted, Sourced, DatasetTypeOK
    <2> QED
        BY <2>1, OnlyPinned, NothingIsLost DEF ImportIsHonest
<1> QED
    BY <1>1, ImportInvariant, PTL

\* Bundles may overlap and come in any order: the data set ends with one record
\* per minute and per event, in time order, and with an inventory no older than
\* any that was readable (normalize, decodeInto).
THEOREM OverlapsAreHarmless ==
    ASSUME DatasetAssumption
    PROVE  DatasetSpec => []OverlapIsHarmless
<1>1. ImportInv => OverlapIsHarmless
    <2> SUFFICES ASSUME ImportInv, normal, NEW h \in DOMAIN ds
                 PROVE  /\ Clean(ds[h])
                        /\ \A b \in B : Bundles[b].host = h /\ ~Fatal(b) =>
                              \A i \in DOMAIN Bundles[b].pinned : Usable(b, i) =>
                                  \A r \in Range(Bundles[b].pinned[i].records) :
                                      r.kind = "inventory" => ds[h].inventory.ts >= r.ts
        BY DEF OverlapIsHarmless, Clean
    <2>1. Clean(ds[h])
        BY DEF ImportInv, Sourced
    <2>2. \A b \in B : Imported(b)
        BY EveryBundleOnce DEF ImportInv, Placed, Imported
    <2>3. ASSUME NEW b \in B, Bundles[b].host = h, ~Fatal(b), NEW i \in DOMAIN Bundles[b].pinned, Usable(b, i),
                 NEW r \in Range(Bundles[b].pinned[i].records), r.kind = "inventory"
          PROVE  ds[h].inventory.ts >= r.ts
        <3>1. Remains(r, ds[h])
            BY <2>2, <2>3 DEF ImportInv, Kept
        <3>2. ds[h].inventory # None /\ r.ts <= ds[h].inventory.ts
            BY <2>3, <3>1 DEF Remains
        <3>3. Timed(Sources(h)) /\ Timed(Shipped(b))
            BY ShippedTimed DEF Timed, Sources
        <3>4. r.ts \in Nat
            BY <3>3, SegmentShipped DEF Timed
        <3>5. ds[h].inventory.ts \in Nat
            BY <3>2, <3>3, InventoryTime DEF ImportInv, Sourced
        <3> QED
            BY <3>2, <3>4, <3>5
    <2> QED
        BY <2>1, <2>3
<1> QED
    BY <1>1, ImportInvariant, PTL

-----------------------------------------------------------------------------
(***************************************************************************)
(* Theorem about the statistics: percentiles, runs and coverage are those  *)
(* of the minutes.                                                         *)
(***************************************************************************)

\* The minutes are in the order of time.
MinutesInv ==
    /\ minutes \in Seq([ts : Nat \ {0}, v : Values])
    /\ \A i \in 2 .. Len(minutes) : minutes[i].ts > minutes[i - 1].ts

LEMMA MinuteTypes ==
    ASSUME MinutesInv
    PROVE  /\ Len(minutes) \in Nat /\ DOMAIN minutes = 1 .. Len(minutes)
           /\ \A i \in 1 .. Len(minutes) : minutes[i].ts \in Nat \ {0} /\ minutes[i].v \in Values /\ minutes[i].v \in Nat
<1> DEFINE T == [ts : Nat \ {0}, v : Values]
<1>1. minutes \in Seq(T)
    BY DEF MinutesInv
<1>2. \A m \in T : m.ts \in Nat \ {0} /\ m.v \in Values /\ m.v \in Nat
    BY StatsAssumption DEF StatsAssumption
<1> HIDE DEF T
<1>3. /\ Len(minutes) \in Nat /\ DOMAIN minutes = 1 .. Len(minutes)
      /\ \A i \in 1 .. Len(minutes) : minutes[i] \in T
    BY <1>1
<1> QED
    BY <1>2, <1>3

LEMMA MinutesStep ==
    MinutesInv /\ [StatsNext]_statsVars => MinutesInv'
<1> SUFFICES ASSUME MinutesInv, [StatsNext]_statsVars PROVE MinutesInv'
    OBVIOUS
<1>1. CASE StatsNext
    <2>1. PICK g \in Gaps, v \in Values :
              minutes' = Append(minutes, [ts |-> IF minutes = <<>> THEN 1 ELSE Last(minutes).ts + g, v |-> v])
        BY <1>1 DEF StatsNext, Minute
    <2> DEFINE m == [ts |-> IF minutes = <<>> THEN 1 ELSE Last(minutes).ts + g, v |-> v]
               n == Len(minutes)
    <2>2. g \in Nat /\ g > 0
        BY StatsAssumption DEF StatsAssumption
    <2>3. n \in Nat /\ DOMAIN minutes = 1 .. n /\ (n > 0 => minutes # <<>> /\ Last(minutes) = minutes[n] /\ minutes[n].ts \in Nat \ {0})
          /\ (n = 0 => minutes = <<>>)
        BY MinuteTypes DEF Last, MinutesInv
    <2>4. m.ts \in Nat \ {0} /\ m.v \in Values /\ (n > 0 => m.ts > minutes[n].ts)
        BY <2>2, <2>3
    <2>5. m \in [ts : Nat \ {0}, v : Values]
        BY <2>4
    <2> HIDE DEF m
    <2>6. /\ minutes' \in Seq([ts : Nat \ {0}, v : Values]) /\ Len(minutes') = n + 1
          /\ minutes'[n + 1] = m /\ \A i \in 1 .. n : minutes'[i] = minutes[i]
        BY <2>1, <2>5 DEF m, MinutesInv
    <2>7. ASSUME NEW i \in 2 .. (n + 1) PROVE minutes'[i].ts > minutes'[i - 1].ts
        <3>1. CASE i = n + 1
            <4>1. n > 0 /\ i - 1 = n /\ n \in 1 .. n
                BY <2>3, <3>1
            <4> QED
                BY <2>4, <2>6, <3>1, <4>1
        <3>2. CASE i # n + 1
            <4>1. i \in 2 .. n /\ i \in 1 .. n /\ i - 1 \in 1 .. n
                BY <2>3, <3>2
            <4> QED
                BY <2>6, <4>1 DEF MinutesInv
        <3> QED
            BY <3>1, <3>2
    <2> QED
        BY <2>6, <2>7 DEF MinutesInv
<1>2. CASE UNCHANGED statsVars
    BY <1>2 DEF statsVars, MinutesInv
<1> QED
    BY <1>1, <1>2

\* From one minute to a later one at least as much time passes as there are
\* records between them, and no more if none is missing.
LEMMA TimesRise ==
    ASSUME MinutesInv, NEW i \in 1 .. Len(minutes), NEW j \in i .. Len(minutes)
    PROVE  /\ minutes[j].ts - minutes[i].ts >= j - i
           /\ (\A k \in 2 .. Len(minutes) : minutes[k].ts = minutes[k - 1].ts + 1)
                  => minutes[j].ts - minutes[i].ts = j - i
<1> DEFINE n == Len(minutes)
           t == [k \in 1 .. n |-> minutes[k].ts]
           whole == \A k \in 2 .. n : minutes[k].ts = minutes[k - 1].ts + 1
           P == {k \in 0 .. (n - i) : t[i + k] - t[i] >= k /\ (whole => t[i + k] - t[i] = k)}
<1>1. n \in Nat /\ \A k \in 1 .. n : t[k] \in Nat
    BY MinuteTypes
<1>2. ASSUME NEW k \in 2 .. n PROVE t[k] >= t[k - 1] + 1 /\ (whole => t[k] = t[k - 1] + 1)
    <2>1. k \in 1 .. n /\ k - 1 \in 1 .. n /\ minutes[k].ts > minutes[k - 1].ts
        BY <1>1 DEF MinutesInv
    <2>2. t[k] = minutes[k].ts /\ t[k - 1] = minutes[k - 1].ts
        BY <2>1
    <2>3. t[k] \in Nat /\ t[k - 1] \in Nat
        BY <1>1, <2>1
    <2> HIDE DEF t
    <2> QED
        BY <2>1, <2>2, <2>3
<1>3. t[i] = minutes[i].ts /\ t[j] = minutes[j].ts
    BY <1>1
<1>4. n - i \in Nat /\ i \in 1 .. n
    BY <1>1
<1> HIDE DEF t, n, whole
<1>5. 0 \in P
    BY <1>1, <1>4
<1>6. ASSUME NEW k \in 1 .. (n - i), (k - 1) \in P PROVE k \in P
    <2>1. i + k \in 2 .. n /\ i + k \in 1 .. n /\ i + (k - 1) \in 1 .. n /\ i + (k - 1) = (i + k) - 1
        BY <1>1, <1>4
    <2>2. t[i + k] >= t[i + (k - 1)] + 1 /\ (whole => t[i + k] = t[i + (k - 1)] + 1)
        BY <1>2, <2>1
    <2>3. t[i + k] \in Nat /\ t[i + (k - 1)] \in Nat /\ t[i] \in Nat
        BY <1>1, <1>4, <2>1
    <2>4. t[i + (k - 1)] - t[i] >= k - 1 /\ (whole => t[i + (k - 1)] - t[i] = k - 1)
        BY <1>6
    <2> QED
        BY <2>2, <2>3, <2>4
<1>7. 0 .. (n - i) \subseteq P
    <2> HIDE DEF P
    <2> QED
        BY <1>4, <1>5, <1>6, UpTo
<1>8. j - i \in 0 .. (n - i) /\ i + (j - i) = j
    BY <1>1, <1>4 DEF n
<1>9. t[j] - t[i] >= j - i /\ (whole => t[j] - t[i] = j - i)
    BY <1>7, <1>8
<1> QED
    BY <1>3, <1>9 DEF n, whole

LEMMA CoverageIsExact ==
    ASSUME MinutesInv
    PROVE  StatsTypeOK
<1> SUFFICES ASSUME minutes # <<>>
             PROVE  /\ CoveragePct(minutes) = 100 <=> \A i \in 2 .. Len(minutes) : minutes[i].ts = minutes[i - 1].ts + 1
                    /\ (ObservedDays(minutes) - 1) * DayLen <= Span(minutes)
    BY DEF StatsTypeOK
<1> DEFINE n == Len(minutes)
           t == [k \in 1 .. n |-> minutes[k].ts]
           span == Span(minutes)
           whole == \A k \in 2 .. n : minutes[k].ts = minutes[k - 1].ts + 1
           q == (n * 100) \div (span + 1)
<1>1. n \in Nat \ {0} /\ 1 \in 1 .. n /\ n \in 1 .. n
    BY MinuteTypes DEF MinutesInv
<1>2. \A k \in 1 .. n : t[k] \in Nat /\ t[k] = minutes[k].ts
    BY MinuteTypes
<1>3. span = t[n] - t[1]
    <2>1. Last(minutes) = minutes[n] /\ Head(minutes) = minutes[1]
        BY DEF Last
    <2> QED
        BY <1>1, <2>1 DEF Span
<1>4. \A i \in 1 .. n, j \in 1 .. n : i <= j => t[j] - t[i] >= j - i /\ (whole => t[j] - t[i] = j - i)
    BY <1>1, TimesRise
<1> HIDE DEF t, span
<1>5. span \in Nat /\ span >= n - 1 /\ (whole => span = n - 1)
    <2>1. t[n] - t[1] >= n - 1 /\ (whole => t[n] - t[1] = n - 1)
        BY <1>1, <1>4
    <2> HIDE DEF whole, n
    <2> QED
        BY <1>1, <1>2, <1>3, <2>1
<1>6. span = n - 1 => whole
    <2> SUFFICES ASSUME span = n - 1, NEW k \in 2 .. n PROVE minutes[k].ts = minutes[k - 1].ts + 1
        OBVIOUS
    <2>1. k \in 1 .. n /\ k - 1 \in 1 .. n
        BY <1>1
    <2>2. t[n] - t[k] >= n - k /\ t[k] - t[k - 1] >= 1 /\ t[k - 1] - t[1] >= k - 2
        <3>1. t[k] - t[k - 1] >= k - (k - 1) /\ t[k - 1] - t[1] >= (k - 1) - 1
            BY <1>1, <1>4, <2>1
        <3>2. t[n] - t[k] >= n - k
            BY <1>1, <1>4, <2>1
        <3> QED
            BY <1>1, <3>1, <3>2
    <2>3. t[n] \in Nat /\ t[k] \in Nat /\ t[k - 1] \in Nat /\ t[1] \in Nat
        BY <1>1, <1>2, <2>1
    <2>4. span = n - 1 /\ n \in Int /\ k \in Int
        BY <1>1
    <2>5. t[k] = t[k - 1] + 1
        <3>1. ASSUME NEW a \in Nat, NEW b \in Nat, NEW c \in Nat, NEW d \in Nat, NEW m \in Int, NEW j \in Int,
                     d - a = m - 1, d - c >= m - j, c - b >= 1, b - a >= j - 2
              PROVE  c = b + 1
            BY ONLY <3>1
        <3> HIDE DEF n
        <3>2. t[n] - t[1] = n - 1
            BY <1>3, <2>4
        <3> QED
            BY <2>2, <2>3, <2>4, <3>1, <3>2
    <2> QED
        BY <1>2, <2>1, <2>5
<1>7. q \in Nat /\ (span + 1) * q <= n * 100 /\ n * 100 < (span + 1) * q + (span + 1)
    <2>1. n * 100 \in Nat /\ span + 1 \in Nat \ {0}
        BY <1>1, <1>5
    <2> HIDE DEF n
    <2> QED
        BY <2>1, Quotient
<1>8. CoveragePct(minutes) = 100 <=> q >= 100
    <2>1. CoveragePct(minutes) = Min({100, q})
        BY DEF CoveragePct, span
    <2> HIDE DEF q
    <2> DEFINE two == {100, q}
    <2>2. two \subseteq Nat /\ two # {}
        BY <1>7
    <2>3. Min(two) \in two /\ \A x \in two : Min(two) <= x
        <3> HIDE DEF two
        <3> QED
            BY <2>2, MinIsLeast
    <2> QED
        BY <1>7, <2>1, <2>3
<1> HIDE DEF q, n, whole
<1>9. q >= 100 => span + 1 <= n
    <2>1. q >= 100 => (span + 1) * 100 <= (span + 1) * q
        BY ONLY <1>5, <1>7
    <2>2. (span + 1) * q \in Nat
        BY ONLY <1>5, <1>7
    <2> QED
        BY <1>1, <1>5, <1>7, <2>1, <2>2
<1>10. span = n - 1 => q >= 100
    <2>1. span = n - 1 => n * 100 < n * q + n
        BY <1>1, <1>7
    <2>2. q < 100 => n * (q + 1) <= n * 100
        BY ONLY <1>1, <1>7
    <2>3. n * (q + 1) = n * q + n /\ n * q \in Nat
        BY ONLY <1>1, <1>7
    <2> QED
        BY <1>1, <1>7, <2>1, <2>2, <2>3
<1>11. q >= 100 <=> whole
    BY <1>1, <1>5, <1>6, <1>9, <1>10
<1>12. (ObservedDays(minutes) - 1) * DayLen <= span
    <2> DEFINE d == span \div DayLen
    <2>1. DayLen \in Nat \ {0}
        BY StatsAssumption DEF StatsAssumption
    <2>2. d \in Nat /\ DayLen * d <= span
        BY <1>5, <2>1, Quotient
    <2>3. ObservedDays(minutes) = d + 1
        BY DEF ObservedDays, span
    <2> HIDE DEF d
    <2>4. (d + 1) - 1 = d /\ d * DayLen = DayLen * d
        BY ONLY <2>1, <2>2
    <2> QED
        BY <2>2, <2>3, <2>4
<1> QED
    BY <1>8, <1>11, <1>12 DEF n, whole, span

\* The order statistics: at most n - i elements are above place i, and at most
\* i - 1 below.
LEMMA SortedIs ==
    ASSUME NEW s \in Seq(Nat), s # <<>>
    PROVE  /\ DOMAIN Sorted(s) = 1 .. Len(s)
           /\ \A i \in 1 .. Len(s) :
                 /\ Sorted(s)[i] \in Range(s) /\ Sorted(s)[i] \in Nat
                 /\ Cardinality({k \in 1 .. Len(s) : s[k] > Sorted(s)[i]}) <= Len(s) - i
                 /\ Cardinality({k \in 1 .. Len(s) : s[k] < Sorted(s)[i]}) <= i - 1
                 /\ \A j \in i .. Len(s) : Sorted(s)[i] <= Sorted(s)[j]
<1> DEFINE n == Len(s)
           R == Range(s)
           upTo(v) == {k \in 1 .. n : s[k] <= v}
           V(i) == {v \in R : Cardinality(upTo(v)) >= i}
           t == Sorted(s)
<1>1. n \in Nat \ {0} /\ DOMAIN s = 1 .. n /\ \A k \in 1 .. n : s[k] \in Nat /\ s[k] \in R
    BY DEF Range
<1>2. R \subseteq Nat /\ R # {} /\ \A v \in R : \E k \in 1 .. n : s[k] = v
    BY <1>1 DEF Range
<1>3. DOMAIN t = 1 .. n /\ \A i \in 1 .. n : t[i] = Min(V(i))
    BY <1>1 DEF Sorted
<1> HIDE DEF n, R, t
<1>4. IsFiniteSet(1 .. n) /\ Cardinality(1 .. n) = n
    BY <1>1, FS_Interval
<1>5. \A X \in SUBSET (1 .. n) : IsFiniteSet(X) /\ Cardinality(X) \in Nat
    BY <1>4, FS_Subset, FS_CardinalityType
<1>6. IsFiniteSet(R)
    <2> DEFINE f == [k \in 1 .. n |-> s[k]]
    <2>1. f \in Surjection(1 .. n, R)
        BY <1>1, <1>2 DEF Surjection
    <2> HIDE DEF f
    <2> QED
        BY <1>4, <2>1, FS_Surjection
<1>7. Max(R) \in R /\ \A v \in R : v <= Max(R)
    <2>1. R \subseteq Int
        BY <1>2
    <2> QED
        BY <1>2, <1>6, <2>1, MaxIsGreatest
<1>8. ASSUME NEW i \in 1 .. n
      PROVE  t[i] \in R /\ t[i] \in Nat /\ Cardinality(upTo(t[i])) >= i /\ \A v \in R : Cardinality(upTo(v)) >= i => t[i] <= v
    <2>1. upTo(Max(R)) = 1 .. n
        BY <1>1, <1>7
    <2>2. Max(R) \in V(i)
        <3> HIDE DEF upTo
        <3>1. Cardinality(upTo(Max(R))) >= i
            BY <1>1, <1>4, <2>1
        <3> QED
            BY <1>7, <3>1
    <2>3. V(i) \subseteq Nat /\ V(i) # {}
        BY <1>2, <2>2
    <2> DEFINE W == V(i)
    <2>4. Min(W) \in W /\ \A v \in W : Min(W) <= v
        <3> HIDE DEF W
        <3>1. W \subseteq Nat /\ W # {}
            BY <2>3 DEF W
        <3> QED
            BY <3>1, MinIsLeast
    <2>5. t[i] = Min(W)
        BY <1>3
    <2> HIDE DEF upTo
    <2>6. t[i] \in W /\ \A v \in W : t[i] <= v
        <3> HIDE DEF W
        <3> QED
            BY <2>4, <2>5
    <2> QED
        BY <1>2, <2>6
<1>9. ASSUME NEW i \in 1 .. n PROVE Cardinality({k \in 1 .. n : s[k] > t[i]}) <= n - i
    <2> DEFINE A == upTo(t[i])
               other == {k \in 1 .. n : s[k] > t[i]}
    <2>1. A \cup other = 1 .. n /\ A \cap other = {} /\ A \in SUBSET (1 .. n) /\ other \in SUBSET (1 .. n)
        <3>1. \A k \in 1 .. n : s[k] \in Nat /\ t[i] \in Nat
            BY <1>1, <1>8
        <3>2. \A k \in 1 .. n : (k \in A <=> s[k] <= t[i]) /\ (k \in other <=> ~(s[k] <= t[i]))
            BY <3>1
        <3>3. A \in SUBSET (1 .. n) /\ other \in SUBSET (1 .. n)
            OBVIOUS
        <3> HIDE DEF A, other
        <3> QED
            BY <3>2, <3>3
    <2>2. Cardinality(A) >= i
        BY <1>8
    <2> HIDE DEF A, other
    <2>3. IsFiniteSet(A) /\ IsFiniteSet(other) /\ Cardinality(A) \in Nat /\ Cardinality(other) \in Nat
        BY <1>5, <2>1
    <2>4. Cardinality(A \cup other) = Cardinality(A) + Cardinality(other) - Cardinality(A \cap other)
        BY <2>3, FS_Union
    <2>5. Cardinality(A \cap other) = 0
        BY <2>1, FS_EmptySet
    <2>6. Cardinality(A \cup other) = n
        BY <1>4, <2>1
    <2>7. Cardinality(other) <= n - i
        BY ONLY <1>1, <2>2, <2>3, <2>4, <2>5, <2>6, i \in 1 .. n
    <2> QED
        BY <2>7 DEF other
<1>10. ASSUME NEW i \in 1 .. n PROVE Cardinality({k \in 1 .. n : s[k] < t[i]}) <= i - 1
    <2> DEFINE other == {k \in 1 .. n : s[k] < t[i]}
               U == {v \in R : v < t[i]}
    <2>1. CASE other = {}
        <3>1. Cardinality(other) = 0
            BY <2>1, FS_EmptySet
        <3> HIDE DEF other
        <3>2. Cardinality(other) <= i - 1
            BY <1>1, <3>1
        <3> QED
            BY <3>2 DEF other
    <2>2. CASE other # {}
        <3>1. U # {} /\ U \subseteq R /\ U \subseteq Int
            <4>1. PICK k \in 1 .. n : s[k] < t[i]
                BY <2>2
            <4>2. s[k] \in U
                BY <1>1, <4>1
            <4>3. U \subseteq R
                OBVIOUS
            <4> HIDE DEF U
            <4> QED
                BY <1>2, <4>2, <4>3
        <3>2. \A v \in U : v \in R /\ v < t[i]
            OBVIOUS
        <3>3. \A k \in other : s[k] \in U
            BY <1>1
        <3> DEFINE m == Max(U)
        <3>4. m \in U /\ \A v \in U : v <= m
            <4> HIDE DEF U
            <4>1. IsFiniteSet(U)
                BY <1>6, <3>1, FS_Subset
            <4> QED
                BY <3>1, <4>1, MaxIsGreatest
        <3> HIDE DEF m, U
        <3>5. m \in R /\ m < t[i] /\ m \in Nat
            BY <1>2, <3>2, <3>4
        <3>6. other \subseteq upTo(m)
            BY <3>3, <3>4
        <3>7. upTo(m) \in SUBSET (1 .. n) /\ other \in SUBSET (1 .. n)
            OBVIOUS
        <3>8. ~(Cardinality(upTo(m)) >= i)
            <4> HIDE DEF upTo
            <4>1. Cardinality(upTo(m)) >= i => t[i] <= m
                BY <1>8, <3>5
            <4>2. t[i] \in Nat
                BY <1>8
            <4> QED
                BY <3>5, <4>1, <4>2
        <3> HIDE DEF upTo, other
        <3>9. Cardinality(other) <= Cardinality(upTo(m))
            BY <1>5, <3>6, <3>7, FS_Subset
        <3>10. Cardinality(other) \in Nat /\ Cardinality(upTo(m)) \in Nat
            BY <1>5, <3>7
        <3>11. Cardinality(other) <= i - 1
            BY <1>1, <3>8, <3>9, <3>10
        <3> QED
            BY <3>11 DEF other
    <2> QED
        BY <2>1, <2>2
<1>11. ASSUME NEW i \in 1 .. n, NEW j \in i .. n PROVE t[i] <= t[j]
    <2>1. j \in 1 .. n /\ i <= j
        BY <1>1
    <2>2. t[j] \in R /\ Cardinality(upTo(t[j])) >= j
        BY <1>8, <2>1
    <2>3. Cardinality(upTo(t[j])) \in Nat
        BY <1>5
    <2> HIDE DEF upTo
    <2>4. Cardinality(upTo(t[j])) >= i
        BY <2>1, <2>2, <2>3
    <2> QED
        BY <1>8, <2>2, <2>4
<1> QED
    BY <1>3, <1>8, <1>9, <1>10, <1>11 DEF n, R, t

\* The percentile q lies between the places lo + 1 and lo + 2 of t.
Between(t, n, q, lo, frac) ==
    /\ q * (n - 1) = 100 * lo + frac /\ Quantile(t, q) \in Nat
    /\ 100 * t[lo + 1] <= Quantile(t, q) /\ Quantile(t, q) <= 100 * t[n]
    /\ frac = 0 => Quantile(t, q) = 100 * t[lo + 1]
    /\ frac > 0 => /\ lo + 2 \in 1 .. n /\ Quantile(t, q) <= 100 * t[lo + 2]
                   /\ Quantile(t, q) = 100 * t[lo + 1] + frac * (t[lo + 2] - t[lo + 1])

\* Every percentile of a sorted series lies between two neighbours.
LEMMA QuantileIs ==
    ASSUME NEW t \in Seq(Nat), NEW n \in Nat \ {0}, Len(t) = n, \A i \in 1 .. n : \A j \in i .. n : t[i] <= t[j],
           NEW q \in 0 .. 100
    PROVE  \E lo \in 0 .. (n - 1) : \E frac \in 0 .. 99 : Between(t, n, q, lo, frac)
<1> DEFINE place == q * (n - 1)
           lo == place \div 100
           frac == place % 100
           x == Quantile(t, q)
<1>1. place \in Nat /\ place <= 100 * (n - 1)
    <2>1. n - 1 \in Nat /\ q \in Nat /\ q <= 100
        OBVIOUS
    <2> DEFINE m == n - 1
    <2> HIDE DEF m
    <2>2. m \in Nat
        BY <2>1 DEF m
    <2>3. q * m \in Nat /\ q * m <= 100 * m
        BY ONLY <2>1, <2>2
    <2> QED
        BY <2>3 DEF m
<1>2. /\ frac = 0 => x = 100 * t[lo + 1]
      /\ frac # 0 => x = t[lo + 1] * (100 - frac) + t[lo + 2] * frac
    <2>1. t # <<>>
        OBVIOUS
    <2> QED
        BY <2>1 DEF Quantile
<1> HIDE DEF x
<1> HIDE DEF place
<1>3. lo \in Nat /\ frac \in 0 .. 99
    <2>0. place \in Nat
        BY <1>1
    <2>1. frac \in 0 .. 99
        BY ONLY <2>0
    <2>2. lo \in Nat
        <3> HIDE DEF frac
        <3> QED
            BY <1>1, Quotient
    <2> QED
        BY <2>1, <2>2
<1>4. place = 100 * lo + frac
    BY <1>1
<1> HIDE DEF lo, frac
<1>5. lo <= n - 1 /\ (frac > 0 => lo <= n - 2)
    BY <1>1, <1>3, <1>4
<1>6. lo \in 0 .. (n - 1) /\ lo + 1 \in 1 .. n /\ n \in (lo + 1) .. n /\ (frac > 0 => lo + 2 \in 1 .. n /\ n \in (lo + 2) .. n /\ lo + 2 \in (lo + 1) .. n)
    BY <1>3, <1>5
<1>7. \A i \in 1 .. n : t[i] \in Nat
    OBVIOUS
<1> DEFINE a == t[lo + 1]
           b == t[lo + 2]
           c == t[n]
<1>8. a \in Nat /\ c \in Nat /\ a <= c /\ (frac > 0 => b \in Nat /\ a <= b /\ b <= c)
    <2>1. n \in 1 .. n
        OBVIOUS
    <2> QED
        BY <1>6, <1>7, <2>1
<1>9. (frac = 0 => x = 100 * a) /\ (frac # 0 => x = a * (100 - frac) + b * frac)
    BY <1>2
<1> HIDE DEF a, b, c
<1>10. /\ x \in Nat /\ 100 * a <= x /\ x <= 100 * c
       /\ frac > 0 => x <= 100 * b /\ x = 100 * a + frac * (b - a)
    <2>1. CASE frac = 0
        BY <1>8, <1>9, <2>1
    <2>2. CASE frac > 0
        <3> DEFINE d == b - a
                   e == 100 - frac
        <3>1. d \in Nat /\ frac \in Nat /\ e \in Nat /\ b = a + d /\ e + frac = 100
            BY <1>3, <1>8, <2>2
        <3>2. x = a * e + b * frac
            BY <1>9, <2>2
        <3> HIDE DEF d, e
        <3>3. a * e + b * frac = 100 * a + frac * d /\ frac * d \in Nat /\ frac * d + e * d = 100 * d /\ e * d \in Nat
            <4>1. b * frac = a * frac + frac * d /\ a * e + a * frac = a * (e + frac) /\ frac * d + e * d = (e + frac) * d
                BY ONLY <1>8, <3>1
            <4>2. a * e \in Nat /\ a * frac \in Nat /\ frac * d \in Nat /\ e * d \in Nat
                BY ONLY <1>8, <3>1
            <4>3. a * (e + frac) = 100 * a /\ (e + frac) * d = 100 * d
                BY ONLY <1>8, <3>1
            <4> QED
                BY ONLY <4>1, <4>2, <4>3
        <3>4. x = 100 * a + frac * d /\ 100 * b = 100 * a + 100 * d
            BY ONLY <1>8, <3>1, <3>2, <3>3
        <3>5. frac * (b - a) = frac * d
            BY DEF d
        <3> QED
            BY ONLY <1>8, <2>2, <3>1, <3>3, <3>4, <3>5
    <2> QED
        BY <1>3, <2>1, <2>2
<1> QED
    <2>1. Between(t, n, q, lo, frac)
        BY <1>3, <1>4, <1>6, <1>9, <1>10 DEF a, b, c, x, place, Between
    <2>2. lo \in 0 .. (n - 1) /\ frac \in 0 .. 99
        BY <1>3, <1>5
    <2> QED
        BY <2>1, <2>2

LEMMA QuantilesRise ==
    ASSUME NEW t \in Seq(Nat), NEW n \in Nat \ {0}, Len(t) = n, \A i \in 1 .. n : \A j \in i .. n : t[i] <= t[j],
           NEW q \in 0 .. 100, NEW r \in q .. 100
    PROVE  Quantile(t, q) <= Quantile(t, r)
<1>1. r \in 0 .. 100 /\ q <= r
    OBVIOUS
<1>a. PICK lo \in 0 .. (n - 1) : \E frac \in 0 .. 99 : Between(t, n, q, lo, frac)
    BY QuantileIs
<1>b. PICK frac \in 0 .. 99 : Between(t, n, q, lo, frac)
    BY <1>a
<1>c. PICK lo2 \in 0 .. (n - 1) : \E z \in 0 .. 99 : Between(t, n, r, lo2, z)
    BY <1>1, QuantileIs
<1>d. PICK frac2 \in 0 .. 99 : Between(t, n, r, lo2, frac2)
    BY <1>c
<1>2. /\ q * (n - 1) = 100 * lo + frac /\ Quantile(t, q) \in Nat
      /\ 100 * t[lo + 1] <= Quantile(t, q) /\ Quantile(t, q) <= 100 * t[n]
      /\ frac = 0 => Quantile(t, q) = 100 * t[lo + 1]
      /\ frac > 0 => /\ lo + 2 \in 1 .. n /\ Quantile(t, q) <= 100 * t[lo + 2]
                     /\ Quantile(t, q) = 100 * t[lo + 1] + frac * (t[lo + 2] - t[lo + 1])
    BY <1>b DEF Between
<1>3. /\ r * (n - 1) = 100 * lo2 + frac2 /\ Quantile(t, r) \in Nat
      /\ 100 * t[lo2 + 1] <= Quantile(t, r) /\ Quantile(t, r) <= 100 * t[n]
      /\ frac2 = 0 => Quantile(t, r) = 100 * t[lo2 + 1]
      /\ frac2 > 0 => /\ lo2 + 2 \in 1 .. n /\ Quantile(t, r) <= 100 * t[lo2 + 2]
                     /\ Quantile(t, r) = 100 * t[lo2 + 1] + frac2 * (t[lo2 + 2] - t[lo2 + 1])
    BY <1>d DEF Between
<1> DEFINE x == Quantile(t, q)
           y == Quantile(t, r)
<1>4. q * (n - 1) <= r * (n - 1)
    <2> DEFINE m == n - 1
    <2>1. m \in Nat /\ q \in Nat /\ r \in Nat
        OBVIOUS
    <2>2. PICK k \in Nat : r = q + k
        <3>1. r - q \in Nat /\ r = q + (r - q)
            BY <1>1, <2>1
        <3> QED
            BY <3>1
    <2> HIDE DEF m
    <2>3. (q + k) * m = q * m + k * m /\ q * m \in Nat /\ k * m \in Nat
        BY ONLY <2>1, <2>2
    <2>4. q * m <= r * m
        BY ONLY <2>1, <2>2, <2>3
    <2> QED
        BY <2>4 DEF m
<1>5. 100 * lo + frac <= 100 * lo2 + frac2
    BY <1>2, <1>3, <1>4
<1>6. lo < lo2 \/ (lo = lo2 /\ frac <= frac2)
    <2>1. lo \in Nat /\ lo2 \in Nat /\ frac \in 0 .. 99 /\ frac2 \in 0 .. 99
        BY <1>2, <1>3
    <2> QED
        BY ONLY <1>5, <2>1
<1>7. \A i \in 1 .. n : t[i] \in Nat
    OBVIOUS
<1>8. CASE lo < lo2
    <2>1. /\ lo + 1 \in 1 .. n /\ lo2 + 1 \in (lo + 1) .. n
          /\ lo2 + 1 \in 1 .. n /\ (lo + 2 \in 1 .. n => lo2 + 1 \in (lo + 2) .. n)
        BY <1>8
    <2>2. t[lo + 1] <= t[lo2 + 1] /\ (lo + 2 \in 1 .. n => t[lo + 2] <= t[lo2 + 1] /\ t[lo + 2] \in Nat)
        BY <1>7, <2>1
    <2>3. t[lo + 1] \in Nat /\ t[lo2 + 1] \in Nat
        BY <1>7, <2>1
    <2> HIDE DEF x, y
    <2>4. x \in Nat /\ y \in Nat /\ 100 * t[lo2 + 1] <= y
        BY <1>2, <1>3 DEF x, y
    <2>5. CASE frac = 0
        <3>1. x = 100 * t[lo + 1]
            BY <1>2, <2>5 DEF x
        <3> QED
            BY <2>2, <2>3, <2>4, <3>1 DEF x, y
    <2>6. CASE frac > 0
        <3>1. x <= 100 * t[lo + 2] /\ lo + 2 \in 1 .. n
            BY <1>2, <2>6 DEF x
        <3> QED
            BY <2>2, <2>3, <2>4, <3>1 DEF x, y
    <2> QED
        BY <2>5, <2>6
<1>9. CASE lo = lo2 /\ frac <= frac2
    <2>1. lo + 1 \in 1 .. n /\ t[lo + 1] \in Nat
        BY <1>7
    <2>2. CASE frac = 0
        BY <1>2, <1>3, <1>9, <2>2
    <2>3. CASE frac > 0
        <3>1. frac2 > 0
            BY <1>9, <2>3
        <3> DEFINE a == t[lo + 1]
                   d == t[lo + 2] - t[lo + 1]
        <3>2. x = 100 * a + frac * d /\ y = 100 * a + frac2 * d /\ lo + 2 \in (lo + 1) .. n /\ lo + 2 \in 1 .. n
            BY <1>2, <1>3, <1>9, <2>3, <3>1
        <3>3. d \in Nat /\ a \in Nat
            <4>1. t[lo + 1] <= t[lo + 2]
                BY <2>1, <3>2
            <4>2. t[lo + 1] \in Nat /\ t[lo + 2] \in Nat
                BY <1>7, <2>1, <3>2
            <4> QED
                BY <4>1, <4>2
        <3> HIDE DEF a, d, x, y
        <3> DEFINE e == frac2 - frac
        <3>6. e \in Nat /\ frac \in Nat /\ frac2 = frac + e
            BY <1>9
        <3> HIDE DEF e
        <3>7. (frac + e) * d = frac * d + e * d /\ frac * d \in Nat /\ e * d \in Nat
            BY ONLY <3>3, <3>6
        <3>4. frac * d <= frac2 * d /\ frac * d \in Nat /\ frac2 * d \in Nat
            BY ONLY <3>6, <3>7
        <3>5. x <= y
            BY ONLY <3>2, <3>3, <3>4
        <3> QED
            BY <3>5 DEF x, y
    <2> QED
        BY <2>2, <2>3
<1> QED
    BY <1>6, <1>8, <1>9

LEMMA VsAre ==
    ASSUME MinutesInv, minutes # <<>>
    PROVE  /\ Vs \in Seq(Nat) /\ Len(Vs) = Len(minutes) /\ Vs # <<>> /\ Len(minutes) \in Nat \ {0}
           /\ \A k \in 1 .. Len(minutes) : Vs[k] = minutes[k].v
<1>1. /\ Len(minutes) \in Nat /\ DOMAIN minutes = 1 .. Len(minutes)
      /\ \A i \in 1 .. Len(minutes) : minutes[i].v \in Nat
    BY MinuteTypes
<1>2. Len(minutes) # 0
    BY DEF MinutesInv
<1>3. Vs = [k \in 1 .. Len(minutes) |-> minutes[k].v]
    BY <1>1 DEF Vs
<1> DEFINE n == Len(minutes)
           f == [k \in 1 .. n |-> minutes[k].v]
<1>4. f \in Seq(Nat) /\ Len(f) = n /\ \A k \in 1 .. n : f[k] = minutes[k].v
    <2>1. n \in Nat /\ \A k \in 1 .. n : minutes[k].v \in Nat
        BY <1>1
    <2> HIDE DEF n
    <2> QED
        BY <2>1
<1>5. f # <<>>
    <2> HIDE DEF f
    <2> QED
        BY <1>1, <1>2, <1>4
<1> QED
    BY <1>1, <1>2, <1>3, <1>4, <1>5

LEMMA QuantilesHold ==
    ASSUME MinutesInv
    PROVE  QuantilesSplit
<1> SUFFICES ASSUME minutes # <<>> PROVE QuantilesSplit
    BY DEF QuantilesSplit
<1> DEFINE n == Len(minutes)
           t == Sorted(Vs)
           above(x) == Cardinality({i \in DOMAIN minutes : 100 * minutes[i].v > x})
           below(x) == Cardinality({i \in DOMAIN minutes : 100 * minutes[i].v < x})
<1>1. n \in Nat \ {0} /\ DOMAIN minutes = 1 .. n
      /\ \A i \in 1 .. n : minutes[i].v \in Nat /\ Vs[i] = minutes[i].v
    BY VsAre, MinuteTypes
<1>2. /\ DOMAIN t = 1 .. n
      /\ \A i \in 1 .. n :
            /\ t[i] \in Nat /\ \A j \in i .. n : t[i] <= t[j]
            /\ Cardinality({k \in 1 .. n : Vs[k] > t[i]}) <= n - i
            /\ Cardinality({k \in 1 .. n : Vs[k] < t[i]}) <= i - 1
    <2>1. Vs \in Seq(Nat) /\ Vs # <<>> /\ Len(Vs) = n
        BY VsAre
    <2> QED
        BY <2>1, SortedIs
<1>3. t \in Seq(Nat) /\ Len(t) = n
    <2>1. t = [i \in 1 .. n |-> t[i]]
        <3> DEFINE g(i) == Min({v \in Range(Vs) : Cardinality({k \in DOMAIN Vs : Vs[k] <= v}) >= i})
        <3>1. t = [i \in DOMAIN Vs |-> g(i)]
            BY DEF Sorted
        <3> HIDE DEF t, g, n
        <3> QED
            BY <1>2, <3>1
    <2> HIDE DEF t, n
    <2>2. n \in Nat /\ \A i \in 1 .. n : t[i] \in Nat
        BY <1>1, <1>2
    <2>3. [i \in 1 .. n |-> t[i]] \in Seq(Nat) /\ Len([i \in 1 .. n |-> t[i]]) = n
        BY ONLY <2>2
    <2> QED
        BY <2>1, <2>3
<1> HIDE DEF t, n
<1>4. ASSUME NEW q \in 0 .. 100
      PROVE  /\ 100 * (above(Quantile(t, q)) - 1) < (n - 1) * (100 - q)
             /\ 100 * (below(Quantile(t, q)) - 1) < (n - 1) * q \/ q = 0
             /\ Quantile(t, q) <= 100 * t[n] /\ Quantile(t, q) \in Nat
    <2>a. PICK lo \in 0 .. (n - 1) : \E frac \in 0 .. 99 : Between(t, n, q, lo, frac)
        <3>1. \A i \in 1 .. n : \A j \in i .. n : t[i] <= t[j]
            BY <1>2
        <3> QED
            BY <1>1, <1>3, <3>1, QuantileIs
    <2>b. PICK frac \in 0 .. 99 : Between(t, n, q, lo, frac)
        BY <2>a
    <2>1. /\ q * (n - 1) = 100 * lo + frac /\ Quantile(t, q) \in Nat
          /\ 100 * t[lo + 1] <= Quantile(t, q) /\ Quantile(t, q) <= 100 * t[n]
          /\ frac = 0 => Quantile(t, q) = 100 * t[lo + 1]
          /\ frac > 0 => lo + 2 \in 1 .. n /\ Quantile(t, q) <= 100 * t[lo + 2]
        BY <2>b DEF Between
    <2> DEFINE x == Quantile(t, q)
               A == {i \in DOMAIN minutes : 100 * minutes[i].v > x}
               L == {i \in DOMAIN minutes : 100 * minutes[i].v < x}
               over(i) == {k \in 1 .. n : Vs[k] > t[i]}
               under(i) == {k \in 1 .. n : Vs[k] < t[i]}
    <2>2. lo + 1 \in 1 .. n
        BY <1>1
    <2>3. A \subseteq over(lo + 1)
        <3> SUFFICES ASSUME NEW i \in A PROVE i \in over(lo + 1)
            OBVIOUS
        <3>1. i \in 1 .. n /\ 100 * Vs[i] > x /\ Vs[i] \in Nat /\ t[lo + 1] \in Nat
            BY <1>1, <1>2, <2>2
        <3>2. Vs[i] > t[lo + 1]
            BY <2>1, <3>1
        <3> QED
            BY <3>1, <3>2
    <2>4. ASSUME NEW j \in 1 .. n, x <= 100 * t[j] PROVE L \subseteq under(j)
        <3> SUFFICES ASSUME NEW i \in L PROVE i \in under(j)
            OBVIOUS
        <3>1. i \in 1 .. n /\ 100 * Vs[i] < x /\ Vs[i] \in Nat /\ t[j] \in Nat
            BY <1>1, <1>2
        <3>2. Vs[i] < t[j]
            BY <2>1, <2>4, <3>1
        <3> QED
            BY <3>1, <3>2
    <2>5. \A X \in SUBSET (1 .. n) : IsFiniteSet(X) /\ Cardinality(X) \in Nat
        <3>1. IsFiniteSet(1 .. n)
            BY <1>1, FS_Interval
        <3> QED
            BY <3>1, FS_Subset, FS_CardinalityType
    <2>6. A \in SUBSET (1 .. n) /\ L \in SUBSET (1 .. n) /\ \A i \in 1 .. n : over(i) \in SUBSET (1 .. n) /\ under(i) \in SUBSET (1 .. n)
        BY <1>1
    <2>7. \A i \in 1 .. n : Cardinality(over(i)) <= n - i /\ Cardinality(under(i)) <= i - 1
        BY <1>2
    <2>8. above(x) = Cardinality(A) /\ below(x) = Cardinality(L)
        OBVIOUS
    <2> HIDE DEF A, L, over, under, x, above, below
    <2>9. Cardinality(A) \in Nat /\ Cardinality(A) <= n - (lo + 1)
        <3>1. Cardinality(A) <= Cardinality(over(lo + 1)) /\ Cardinality(A) \in Nat /\ Cardinality(over(lo + 1)) \in Nat
            BY <2>2, <2>3, <2>5, <2>6, FS_Subset
        <3>2. Cardinality(over(lo + 1)) <= n - (lo + 1)
            BY <2>2, <2>7
        <3> QED
            BY <1>1, <2>2, <3>1, <3>2
    <2>10. ASSUME NEW j \in 1 .. n, x <= 100 * t[j] PROVE Cardinality(L) \in Nat /\ Cardinality(L) <= j - 1
        <3>1. Cardinality(L) <= Cardinality(under(j)) /\ Cardinality(L) \in Nat /\ Cardinality(under(j)) \in Nat
            BY <2>4, <2>5, <2>6, <2>10, FS_Subset
        <3>2. Cardinality(under(j)) <= j - 1
            BY <2>7
        <3> QED
            BY <1>1, <3>1, <3>2
    <2> DEFINE p == (n - 1) * q
    <2>11. p = 100 * lo + frac /\ (n - 1) * (100 - q) = 100 * (n - 1) - p /\ p \in Nat
        <3> DEFINE m == n - 1
        <3>1. m \in Nat /\ q \in Nat
            BY <1>1
        <3> HIDE DEF m
        <3>2. m * q = q * m /\ m * (100 - q) = 100 * m - m * q /\ m * q \in Nat
            BY ONLY <3>1
        <3> QED
            BY <2>1, <3>2 DEF m
    <2> HIDE DEF p
    <2>12. 100 * (Cardinality(A) - 1) < 100 * (n - 1) - p
        BY <1>1, <2>2, <2>9, <2>11
    <2>13. 100 * (Cardinality(L) - 1) < p
        <3>1. CASE frac = 0
            <4>1. x <= 100 * t[lo + 1]
                BY <1>2, <2>1, <2>2, <3>1 DEF x
            <4>2. Cardinality(L) \in Nat /\ Cardinality(L) <= (lo + 1) - 1
                BY <2>2, <2>10, <4>1
            <4> QED
                BY <2>11, <3>1, <4>2
        <3>2. CASE frac > 0
            <4>1. Cardinality(L) \in Nat /\ Cardinality(L) <= (lo + 2) - 1
                BY <2>1, <2>10, <3>2 DEF x
            <4> QED
                BY <2>11, <3>2, <4>1
        <3> QED
            BY <3>1, <3>2
    <2> QED
        BY <2>1, <2>8, <2>11, <2>12, <2>13 DEF x, p
<1>5. Quantile(t, 50) <= Quantile(t, 95) /\ Quantile(t, 95) <= Quantile(t, 99)
    <2>1. 50 \in 0 .. 100 /\ 95 \in 0 .. 100 /\ 95 \in 50 .. 100 /\ 99 \in 95 .. 100
        OBVIOUS
    <2> QED
        BY <1>1, <1>2, <1>3, <2>1, QuantilesRise
<1> DEFINE sm == Summarize(Vs)
<1>6. sm.p50 = Quantile(t, 50) /\ sm.p95 = Quantile(t, 95) /\ sm.p99 = Quantile(t, 99) /\ sm.max = 100 * t[n]
    <2>1. t # <<>> /\ Last(t) = t[n]
        BY <1>1, <1>3 DEF Last
    <2> QED
        BY <2>1 DEF Summarize, t
<1> HIDE DEF sm
<1>7. 50 \in 0 .. 100 /\ 95 \in 0 .. 100 /\ 99 \in 0 .. 100
    OBVIOUS
<1>8. /\ 100 * (above(sm.p50) - 1) < (n - 1) * (100 - 50) /\ 100 * (below(sm.p50) - 1) < (n - 1) * 50
      /\ 100 * (above(sm.p95) - 1) < (n - 1) * (100 - 95) /\ 100 * (below(sm.p95) - 1) < (n - 1) * 95
      /\ 100 * (above(sm.p99) - 1) < (n - 1) * (100 - 99) /\ 100 * (below(sm.p99) - 1) < (n - 1) * 99
      /\ sm.p99 <= sm.max
    <2> HIDE DEF above, below
    <2>1. /\ 100 * (above(Quantile(t, 50)) - 1) < (n - 1) * (100 - 50)
          /\ 100 * (below(Quantile(t, 50)) - 1) < (n - 1) * 50 \/ 50 = 0
        BY <1>4, <1>7, Zenon
    <2>2. /\ 100 * (above(Quantile(t, 95)) - 1) < (n - 1) * (100 - 95)
          /\ 100 * (below(Quantile(t, 95)) - 1) < (n - 1) * 95 \/ 95 = 0
        BY <1>4, <1>7, Zenon
    <2>3. /\ 100 * (above(Quantile(t, 99)) - 1) < (n - 1) * (100 - 99)
          /\ 100 * (below(Quantile(t, 99)) - 1) < (n - 1) * 99 \/ 99 = 0
          /\ Quantile(t, 99) <= 100 * t[n]
        BY <1>4, <1>7, Zenon
    <2>4. 50 # 0 /\ 95 # 0 /\ 99 # 0
        OBVIOUS
    <2> QED
        BY <1>6, <2>1, <2>2, <2>3, <2>4, ZenonT(40)
<1> QED
    BY <1>5, <1>6, <1>8 DEF QuantilesSplit, sm, n
(* The loop of Sustained: what it holds after the first minutes. *)
RunRecord == [start : Nat, end : Nat, minutes : Nat, peak : Nat]

\* The record r is that of the minutes a to e.
RunOf(r, a, e) ==
    /\ r.start = minutes[a].ts /\ r.end = minutes[e].ts /\ r.minutes = e - a + 1
    /\ \A k \in a .. e : minutes[k].v <= r.peak
    /\ \E k \in a .. e : minutes[k].v = r.peak

\* No run of the first e minutes is longer than r, and r is the first of that length.
FirstLongest(r, e, threshold) ==
    /\ \A a \in 1 .. e : \A z \in a .. e : IsRun(a, z, threshold) => z - a + 1 <= r.minutes
    /\ \/ r = NoRun
       \/ \E a \in 1 .. e : \E z \in a .. e :
             /\ IsRun(a, z, threshold) /\ RunOf(r, a, z)
             /\ \A c \in 1 .. e : \A d \in c .. e : IsRun(c, d, threshold) /\ d - c = z - a => a <= c

\* The current run is the one that ends at minute i, from as early as it can start;
\* the best is that of the minutes before it.
Scanned(x, i, threshold) ==
    /\ x.total = Cardinality({k \in 1 .. i : minutes[k].v >= threshold})
    /\ \/ x.cur = NoRun /\ FirstLongest(x.best, i, threshold) /\ (i = 0 \/ minutes[i].v < threshold)
       \/ \E a \in 1 .. i :
             /\ IsRun(a, i, threshold) /\ RunOf(x.cur, a, i) /\ FirstLongest(x.best, a - 1, threshold)
             /\ \A c \in 1 .. i : IsRun(c, i, threshold) => a <= c

\* Two runs that overlap are one.
LEMMA RunsJoin ==
    ASSUME MinutesInv, NEW th, NEW i \in 1 .. Len(minutes), NEW c \in 1 .. i, NEW a \in c .. i, NEW d \in a .. i,
           IsRun(c, d, th), IsRun(a, i, th)
    PROVE  IsRun(c, i, th)
<1>1. Len(minutes) \in Nat
    BY MinuteTypes
<1>2. i \in Nat /\ c \in Nat /\ a \in Nat /\ d \in Nat /\ c <= a /\ a <= d /\ d <= i
    BY <1>1
<1>3. ASSUME NEW k \in c .. i PROVE minutes[k].v >= th
    <2>1. k \in c .. d \/ k \in a .. i
        BY <1>2
    <2> QED
        BY <2>1 DEF IsRun
<1>4. ASSUME NEW k \in (c + 1) .. i PROVE minutes[k].ts - minutes[k - 1].ts <= GapTolerance
    <2>1. k \in (c + 1) .. d \/ k \in (a + 1) .. i
        BY <1>2
    <2> QED
        BY <2>1 DEF IsRun
<1> QED
    BY <1>3, <1>4 DEF IsRun

\* A run without its last minute is one.
LEMMA RunShortens ==
    ASSUME MinutesInv, NEW th, NEW i \in 1 .. Len(minutes), NEW c \in 1 .. (i - 1), IsRun(c, i, th)
    PROVE  /\ IsRun(c, i - 1, th) /\ minutes[i - 1].v >= th /\ minutes[i].v >= th
           /\ minutes[i].ts - minutes[i - 1].ts <= GapTolerance
<1>1. Len(minutes) \in Nat
    BY MinuteTypes
<1>2. i \in Nat /\ c \in Nat /\ c <= i - 1
    BY <1>1
<1>3. /\ i - 1 \in c .. i /\ i \in c .. i /\ i \in (c + 1) .. i
      /\ \A k \in c .. (i - 1) : k \in c .. i
      /\ \A k \in (c + 1) .. (i - 1) : k \in (c + 1) .. i
    BY <1>2
<1> QED
    BY <1>3 DEF IsRun

\* The better of the current run and the best is the longest so far.
LEMMA ScanCloses ==
    ASSUME MinutesInv, NEW th \in Nat, NEW i \in 0 .. Len(minutes),
           NEW x, x.best \in RunRecord, x.cur \in RunRecord, Scanned(x, i, th)
    PROVE  Better(x.cur, x.best) \in RunRecord /\ FirstLongest(Better(x.cur, x.best), i, th)
<1> DEFINE r == Better(x.cur, x.best)
<1>1. Len(minutes) \in Nat /\ i \in Nat /\ x.best.minutes \in Nat /\ x.cur.minutes \in Nat
    BY MinuteTypes DEF RunRecord
<1>2. r \in RunRecord
    BY DEF Better
<1>3. CASE x.cur = NoRun /\ FirstLongest(x.best, i, th)
    <2>1. x.cur.minutes = 0
        BY <1>3 DEF NoRun
    <2>2. r = x.best
        BY <1>1, <2>1 DEF Better
    <2> QED
        BY <1>2, <1>3, <2>2
<1>4. ASSUME NEW a \in 1 .. i, IsRun(a, i, th), RunOf(x.cur, a, i), FirstLongest(x.best, a - 1, th),
             \A c \in 1 .. i : IsRun(c, i, th) => a <= c
      PROVE  FirstLongest(r, i, th)
    <2>1. x.cur.minutes = i - a + 1 /\ a \in Nat /\ a >= 1 /\ a <= i
        BY <1>1, <1>4 DEF RunOf
    <2>2. ASSUME NEW c \in 1 .. i, NEW d \in c .. i, IsRun(c, d, th), d >= a
          PROVE  a <= c
        <3> SUFFICES ASSUME c < a PROVE FALSE
            BY <1>1, <2>1
        <3>1. a \in c .. i /\ d \in a .. i /\ i \in 1 .. Len(minutes)
            BY <1>1, <2>1, <2>2
        <3>2. IsRun(c, i, th)
            BY <1>4, <2>2, <3>1, RunsJoin
        <3> QED
            BY <1>1, <1>4, <2>1, <3>2
    <2>3. ASSUME NEW c \in 1 .. i, NEW d \in c .. i, IsRun(c, d, th), d < a
          PROVE  c \in 1 .. (a - 1) /\ d \in c .. (a - 1) /\ d - c + 1 <= x.best.minutes
        <3>1. c \in 1 .. (a - 1) /\ d \in c .. (a - 1)
            BY <1>1, <2>1, <2>3
        <3> QED
            BY <1>4, <2>3, <3>1 DEF FirstLongest
    <2>4. CASE x.cur.minutes > x.best.minutes
        <3>1. r = x.cur
            BY <2>4 DEF Better
        <3>2. ASSUME NEW c \in 1 .. i, NEW d \in c .. i, IsRun(c, d, th)
              PROVE  d - c + 1 <= x.cur.minutes /\ (d - c = i - a => a <= c)
            <4>1. CASE d >= a
                BY <1>1, <2>1, <2>2, <3>2, <4>1
            <4>2. CASE d < a
                <5>1. d - c + 1 <= x.best.minutes
                    BY <2>3, <3>2, <4>2
                <5> QED
                    BY <1>1, <2>1, <2>4, <5>1
            <4> QED
                BY <1>1, <2>1, <4>1, <4>2
        <3>3. a \in 1 .. i /\ i \in a .. i
            BY <1>1, <2>1
        <3> QED
            BY <1>4, <3>1, <3>2, <3>3 DEF FirstLongest
    <2>5. CASE ~(x.cur.minutes > x.best.minutes)
        <3>1. r = x.best
            BY <2>5 DEF Better
        <3>2. ASSUME NEW c \in 1 .. i, NEW d \in c .. i, IsRun(c, d, th)
              PROVE  d - c + 1 <= x.best.minutes
            <4>1. CASE d >= a
                BY <1>1, <2>1, <2>2, <2>5, <3>2, <4>1
            <4>2. CASE d < a
                BY <2>3, <3>2, <4>2
            <4> QED
                BY <1>1, <2>1, <4>1, <4>2
        <3>3. x.best # NoRun
            <4>1. x.best.minutes # 0
                BY <1>1, <2>1, <2>5
            <4> QED
                BY <4>1 DEF NoRun
        <3>4. PICK b \in 1 .. (a - 1) : \E z \in b .. (a - 1) :
                 /\ IsRun(b, z, th) /\ RunOf(x.best, b, z)
                 /\ \A c \in 1 .. (a - 1) : \A d \in c .. (a - 1) : IsRun(c, d, th) /\ d - c = z - b => b <= c
            BY <1>4, <3>3 DEF FirstLongest
        <3>5. PICK z \in b .. (a - 1) :
                 /\ IsRun(b, z, th) /\ RunOf(x.best, b, z)
                 /\ \A c \in 1 .. (a - 1) : \A d \in c .. (a - 1) : IsRun(c, d, th) /\ d - c = z - b => b <= c
            BY <3>4
        <3>6. b \in 1 .. i /\ z \in b .. i /\ b < a
            BY <1>1, <2>1
        <3>7. ASSUME NEW c \in 1 .. i, NEW d \in c .. i, IsRun(c, d, th), d - c = z - b
              PROVE  b <= c
            <4>1. CASE d >= a
                <5>1. a <= c
                    BY <2>2, <3>7, <4>1
                <5> QED
                    BY <1>1, <2>1, <3>6, <5>1
            <4>2. CASE d < a
                <5>1. c \in 1 .. (a - 1) /\ d \in c .. (a - 1)
                    BY <2>3, <3>7, <4>2
                <5> QED
                    BY <3>5, <3>7, <5>1
            <4> QED
                BY <1>1, <2>1, <4>1, <4>2
        <3> QED
            BY <3>1, <3>2, <3>5, <3>6, <3>7 DEF FirstLongest
    <2> QED
        BY <2>4, <2>5
<1>5. CASE \E a \in 1 .. i :
             /\ IsRun(a, i, th) /\ RunOf(x.cur, a, i) /\ FirstLongest(x.best, a - 1, th)
             /\ \A c \in 1 .. i : IsRun(c, i, th) => a <= c
    BY <1>2, <1>4, <1>5
<1> QED
    BY <1>3, <1>5 DEF Scanned

\* A minute below the threshold is in no run.
LEMMA LongestSkips ==
    ASSUME MinutesInv, NEW th \in Nat, NEW i \in 1 .. Len(minutes), NEW r \in RunRecord,
           FirstLongest(r, i - 1, th), minutes[i].v < th
    PROVE  FirstLongest(r, i, th)
<1>1. Len(minutes) \in Nat /\ i \in Nat /\ i >= 1
    BY MinuteTypes
<1>2. minutes[i].v \in Nat
    BY MinuteTypes
<1>3. ASSUME NEW c \in 1 .. i, NEW d \in c .. i, IsRun(c, d, th)
      PROVE  c \in 1 .. (i - 1) /\ d \in c .. (i - 1)
    <2>1. d # i
        <3> SUFFICES ASSUME d = i PROVE FALSE
            OBVIOUS
        <3>1. i \in c .. d
            BY <1>1
        <3>2. minutes[i].v >= th
            BY <1>3, <3>1 DEF IsRun
        <3> QED
            BY <1>2, <3>2
    <2> QED
        BY <1>1, <2>1
<1>4. \A c \in 1 .. i : \A d \in c .. i : IsRun(c, d, th) => d - c + 1 <= r.minutes
    BY <1>3 DEF FirstLongest
<1>5. CASE r = NoRun
    BY <1>4, <1>5 DEF FirstLongest
<1>6. CASE r # NoRun
    <2>1. PICK a \in 1 .. (i - 1) : \E z \in a .. (i - 1) :
             /\ IsRun(a, z, th) /\ RunOf(r, a, z)
             /\ \A c \in 1 .. (i - 1) : \A d \in c .. (i - 1) : IsRun(c, d, th) /\ d - c = z - a => a <= c
        BY <1>6 DEF FirstLongest
    <2>2. PICK z \in a .. (i - 1) :
             /\ IsRun(a, z, th) /\ RunOf(r, a, z)
             /\ \A c \in 1 .. (i - 1) : \A d \in c .. (i - 1) : IsRun(c, d, th) /\ d - c = z - a => a <= c
        BY <2>1
    <2>3. a \in 1 .. i /\ z \in a .. i
        BY <1>1
    <2>4. \A c \in 1 .. i : \A d \in c .. i : IsRun(c, d, th) /\ d - c = z - a => a <= c
        BY <1>3, <2>2
    <2> QED
        BY <1>4, <2>2, <2>3, <2>4 DEF FirstLongest
<1> QED
    BY <1>5, <1>6
\* One more minute counts, or does not, towards the total.
LEMMA TotalRises ==
    ASSUME MinutesInv, NEW th \in Nat, NEW i \in 1 .. Len(minutes)
    PROVE  LET above(j) == Cardinality({k \in 1 .. j : minutes[k].v >= th})
           IN  /\ above(i - 1) \in Nat
               /\ above(i) = IF minutes[i].v < th THEN above(i - 1) ELSE above(i - 1) + 1
<1> DEFINE S == {k \in 1 .. (i - 1) : minutes[k].v >= th}
           U == {k \in 1 .. i : minutes[k].v >= th}
<1>1. Len(minutes) \in Nat /\ i \in Nat /\ i >= 1 /\ minutes[i].v \in Nat
    BY MinuteTypes
<1>2. IsFiniteSet(S) /\ Cardinality(S) \in Nat
    <2>1. 1 \in Int /\ i - 1 \in Int /\ S \subseteq 1 .. (i - 1)
        BY <1>1
    <2>2. IsFiniteSet(1 .. (i - 1))
        BY ONLY <2>1, FS_Interval
    <2> HIDE DEF S
    <2> QED
        BY <2>1, <2>2, FS_Subset, FS_CardinalityType
<1>3. \A k \in 1 .. i : k = i \/ k \in 1 .. (i - 1)
    BY <1>1
<1>4. i \notin 1 .. (i - 1) /\ \A k \in 1 .. (i - 1) : k \in 1 .. i
    BY <1>1
<1>5. CASE minutes[i].v < th
    <2>1. ~(minutes[i].v >= th)
        BY <1>1, <1>5
    <2>2. U = S
        BY <1>3, <1>4, <2>1
    <2> QED
        BY <1>2, <1>5, <2>2
<1>6. CASE ~(minutes[i].v < th)
    <2>1. minutes[i].v >= th
        BY <1>1, <1>6
    <2>2. U = S \cup {i} /\ i \notin S
        BY <1>1, <1>3, <1>4, <2>1
    <2> HIDE DEF S, U
    <2>3. Cardinality(S \cup {i}) = Cardinality(S) + 1
        BY <1>2, <2>2, FS_AddElement
    <2> QED
        BY <1>2, <1>6, <2>2, <2>3 DEF S, U
<1> QED
    BY <1>5, <1>6

\* One iteration of the loop.
LEMMA ScanSteps ==
    ASSUME MinutesInv, NEW th \in Nat, NEW i \in 1 .. Len(minutes),
           NEW x \in [best : RunRecord, cur : RunRecord, total : Nat], Scanned(x, i - 1, th)
    PROVE  Scanned(Step(x, minutes[i], th), i, th)
<1> DEFINE y == Step(x, minutes[i], th)
           v == minutes[i].v
           ts == minutes[i].ts
           fresh == [start |-> ts, end |-> ts, minutes |-> 1, peak |-> v]
           longer == [x.cur EXCEPT !.end = ts, !.minutes = @ + 1, !.peak = Max({@, v})]
           extends == x.cur # NoRun /\ ts - x.cur.end <= GapTolerance
<1>1. Len(minutes) \in Nat /\ i \in Nat /\ i >= 1 /\ v \in Nat /\ ts \in Nat /\ i - 1 \in 0 .. Len(minutes)
    BY MinuteTypes
<1>2. x.best \in RunRecord /\ x.cur \in RunRecord /\ x.total \in Nat
    OBVIOUS
<1>3. Better(x.cur, x.best) \in RunRecord /\ FirstLongest(Better(x.cur, x.best), i - 1, th)
    BY <1>1, <1>2, ScanCloses
<1>4. /\ v < th => y.total = x.total /\ y.best = Better(x.cur, x.best) /\ y.cur = NoRun
      /\ ~(v < th) /\ extends => y.total = x.total + 1 /\ y.best = x.best /\ y.cur = longer
      /\ ~(v < th) /\ ~extends => y.total = x.total + 1 /\ y.best = Better(x.cur, x.best) /\ y.cur = fresh
    <2> HIDE DEF longer, fresh
    <2>1. CASE v < th
        BY <2>1 DEF Step
    <2>2. CASE ~(v < th) /\ extends
        <3> DEFINE two == [x EXCEPT !.total = @ + 1, !.cur = longer]
                   three == [total |-> x.total + 1, best |-> Better(x.cur, x.best), cur |-> fresh]
        <3>1. y = IF v < th THEN [x EXCEPT !.best = Better(x.cur, x.best), !.cur = NoRun]
                  ELSE IF extends THEN two ELSE three
            BY Zenon DEF Step, longer, fresh
        <3>2. y = two
            <4> HIDE DEF y, v, extends, two, three
            <4> QED
                BY <2>2, <3>1
        <3>3. two.total = x.total + 1 /\ two.best = x.best /\ two.cur = longer
            OBVIOUS
        <3> HIDE DEF y, two
        <3> QED
            BY <2>2, <3>2, <3>3
    <2>3. CASE ~(v < th) /\ ~extends
        BY <2>3 DEF Step, fresh
    <2> QED
        BY <2>1, <2>2, <2>3
<1>5. y.total = Cardinality({k \in 1 .. i : minutes[k].v >= th})
    <2> DEFINE above(j) == Cardinality({k \in 1 .. j : minutes[k].v >= th})
    <2>1. above(i - 1) \in Nat /\ above(i) = IF v < th THEN above(i - 1) ELSE above(i - 1) + 1
        BY TotalRises
    <2>2. x.total = above(i - 1)
        BY DEF Scanned
    <2> HIDE DEF above, y, v, extends
    <2>3. y.total = above(i)
        BY <1>4, <2>1, <2>2
    <2> QED
        BY <2>3 DEF above
<1> HIDE DEF y, v, ts, longer, fresh, extends
<1>6. CASE v < th
    <2>1. FirstLongest(Better(x.cur, x.best), i, th)
        BY <1>3, <1>6, LongestSkips DEF v
    <2> QED
        BY <1>4, <1>5, <1>6, <2>1 DEF Scanned, y, v
<1>7. IsRun(i, i, th) \/ v < th
    <2>1. \A k \in i .. i : k = i
        BY <1>1
    <2>2. \A k \in (i + 1) .. i : FALSE
        BY <1>1
    <2>3. ~(v < th) => v >= th
        BY <1>1
    <2> QED
        BY <2>1, <2>2, <2>3 DEF IsRun, v
<1>8. CASE ~(v < th) /\ extends
    <2>1. x.cur # NoRun /\ ts - x.cur.end <= GapTolerance
        BY <1>8 DEF extends
    <2>2. PICK a \in 1 .. (i - 1) :
             /\ IsRun(a, i - 1, th) /\ RunOf(x.cur, a, i - 1) /\ FirstLongest(x.best, a - 1, th)
             /\ \A c \in 1 .. (i - 1) : IsRun(c, i - 1, th) => a <= c
        BY <2>1 DEF Scanned
    <2>3. a \in Nat /\ a >= 1 /\ a <= i - 1 /\ a \in 1 .. i
        BY <1>1
    <2>4. IsRun(a, i, th)
        <3>1. \A k \in a .. i : k = i \/ k \in a .. (i - 1)
            BY <1>1, <2>3
        <3>2. \A k \in (a + 1) .. i : k = i \/ k \in (a + 1) .. (i - 1)
            BY <1>1, <2>3
        <3>3. x.cur.end = minutes[i - 1].ts
            BY <2>2 DEF RunOf
        <3>4. v >= th
            BY <1>1, <1>8
        <3> QED
            BY <2>1, <2>2, <3>1, <3>2, <3>3, <3>4 DEF IsRun, v, ts
    <2>5. RunOf(y.cur, a, i)
        <3>1. y.cur = longer
            BY <1>4, <1>8
        <3> DEFINE peak == Max({x.cur.peak, v})
        <3>2. x.cur.peak \in Nat /\ x.cur.minutes = (i - 1) - a + 1 /\ x.cur.start = minutes[a].ts
            BY <2>2 DEF RunOf, RunRecord
        <3>3. peak \in {x.cur.peak, v} /\ x.cur.peak <= peak /\ v <= peak
            <4> DEFINE both == {x.cur.peak, v}
            <4>1. both \subseteq Int /\ both # {}
                BY <1>1, <3>2
            <4>2. IsFiniteSet({x.cur.peak}) /\ both = {x.cur.peak} \cup {v}
                BY FS_Singleton
            <4>3. IsFiniteSet(both)
                <5> HIDE DEF both
                <5> QED
                    BY <4>2, FS_AddElement
            <4>4. peak = Max(both) /\ x.cur.peak \in both /\ v \in both
                OBVIOUS
            <4> HIDE DEF both, peak
            <4>5. peak \in both /\ \A z \in both : z <= peak
                BY <4>1, <4>3, <4>4, MaxIsGreatest
            <4> QED
                BY <4>4, <4>5 DEF both
        <3> HIDE DEF peak
        <3>4. longer.start = minutes[a].ts /\ longer.end = ts /\ longer.minutes = i - a + 1 /\ longer.peak = peak
            <4>1. longer = [x.cur EXCEPT !.end = ts, !.minutes = @ + 1, !.peak = peak]
                BY DEF longer, peak
            <4>2. /\ longer.start = x.cur.start /\ longer.end = ts /\ longer.minutes = x.cur.minutes + 1
                  /\ longer.peak = peak
                BY <4>1 DEF RunRecord
            <4> QED
                BY <1>1, <2>3, <3>2, <4>2
        <3>5. ASSUME NEW k \in a .. i PROVE minutes[k].v <= peak
            <4>1. CASE k = i
                BY <3>3, <4>1 DEF v
            <4>2. CASE k # i
                <5>1. k \in a .. (i - 1) /\ k \in 1 .. Len(minutes)
                    BY <1>1, <2>3, <4>2
                <5>2. minutes[k].v <= x.cur.peak /\ minutes[k].v \in Nat
                    BY <2>2, <5>1, MinuteTypes DEF RunOf
                <5> QED
                    BY <1>1, <3>2, <3>3, <5>2
            <4> QED
                BY <4>1, <4>2
        <3>6. \E k \in a .. i : minutes[k].v = peak
            <4>1. i \in a .. i /\ \A k \in a .. (i - 1) : k \in a .. i
                BY <1>1, <2>3
            <4>2. \E k \in a .. (i - 1) : minutes[k].v = x.cur.peak
                BY <2>2 DEF RunOf
            <4> QED
                BY <3>3, <4>1, <4>2 DEF v
        <3> QED
            BY <3>1, <3>4, <3>5, <3>6 DEF RunOf, ts
    <2>6. ASSUME NEW c \in 1 .. i, IsRun(c, i, th) PROVE a <= c
        <3>1. CASE c = i
            BY <1>1, <2>3, <3>1
        <3>2. CASE c # i
            <4>1. c \in 1 .. (i - 1)
                BY <1>1, <3>2
            <4>2. IsRun(c, i - 1, th)
                BY <2>6, <4>1, RunShortens
            <4> QED
                BY <2>2, <4>1, <4>2
        <3> QED
            BY <3>1, <3>2
    <2>7. y.best = x.best
        BY <1>4, <1>8
    <2> QED
        BY <1>5, <2>2, <2>3, <2>4, <2>5, <2>6, <2>7 DEF Scanned, y
<1>9. CASE ~(v < th) /\ ~extends
    <2>1. RunOf(y.cur, i, i)
        <3>1. y.cur = fresh
            BY <1>4, <1>9
        <3>2. fresh.start = ts /\ fresh.end = ts /\ fresh.minutes = 1 /\ fresh.peak = v
            BY DEF fresh
        <3>3. \A k \in i .. i : k = i
            BY <1>1
        <3>4. i \in i .. i /\ i - i + 1 = 1 /\ v <= v
            BY <1>1
        <3> QED
            BY <3>1, <3>2, <3>3, <3>4 DEF RunOf, v, ts
    <2>2. ASSUME NEW c \in 1 .. i, IsRun(c, i, th) PROVE i <= c
        <3> SUFFICES ASSUME c \in 1 .. (i - 1) PROVE FALSE
            BY <1>1
        <3>1. IsRun(c, i - 1, th) /\ minutes[i - 1].v >= th /\ ts - minutes[i - 1].ts <= GapTolerance
            BY <2>2, RunShortens DEF ts
        <3>2. i - 1 # 0 /\ i - 1 \in 1 .. Len(minutes)
            BY <1>1
        <3>3. minutes[i - 1].v \in Nat
            BY <3>2, MinuteTypes
        <3>4. ~(minutes[i - 1].v < th)
            BY <3>1, <3>3
        <3>5. PICK a \in 1 .. (i - 1) : IsRun(a, i - 1, th) /\ RunOf(x.cur, a, i - 1)
            BY <3>2, <3>4 DEF Scanned
        <3>6. x.cur.minutes = (i - 1) - a + 1 /\ x.cur.end = minutes[i - 1].ts
            BY <3>5 DEF RunOf
        <3>7. x.cur.minutes # 0
            BY <1>1, <3>6
        <3>8. x.cur # NoRun
            BY <3>7 DEF NoRun
        <3> QED
            BY <1>9, <3>1, <3>6, <3>8 DEF extends
    <2>3. y.best = Better(x.cur, x.best)
        BY <1>4, <1>9
    <2>4. IsRun(i, i, th) /\ i \in 1 .. i
        BY <1>1, <1>7, <1>9
    <2> QED
        BY <1>3, <1>5, <2>1, <2>2, <2>3, <2>4 DEF Scanned, y
<1> QED
    BY <1>6, <1>8, <1>9
\* The loop keeps its types.
LEMMA ScanTypes ==
    ASSUME MinutesInv, NEW th, NEW i \in 1 .. Len(minutes),
           NEW x \in [best : RunRecord, cur : RunRecord, total : Nat]
    PROVE  Step(x, minutes[i], th) \in [best : RunRecord, cur : RunRecord, total : Nat]
<1> DEFINE v == minutes[i].v
           ts == minutes[i].ts
           p == x.cur.peak
           peak == Max({p, v})
           longer == [x.cur EXCEPT !.end = ts, !.minutes = @ + 1, !.peak = peak]
           fresh == [start |-> ts, end |-> ts, minutes |-> 1, peak |-> v]
           extends == x.cur # NoRun /\ ts - x.cur.end <= GapTolerance
           V == [best : RunRecord, cur : RunRecord, total : Nat]
           one == [x EXCEPT !.best = Better(x.cur, x.best), !.cur = NoRun]
           two == [x EXCEPT !.total = @ + 1, !.cur = longer]
           three == [total |-> x.total + 1, best |-> Better(x.cur, x.best), cur |-> fresh]
<1>1. v \in Nat /\ ts \in Nat
    BY MinuteTypes
<1>2. x.best \in RunRecord /\ x.cur \in RunRecord /\ x.total \in Nat /\ p \in Nat
    BY DEF RunRecord
<1>3. NoRun \in RunRecord
    BY DEF NoRun, RunRecord
<1>4. Better(x.cur, x.best) \in RunRecord
    BY <1>2 DEF Better
<1>5. Step(x, minutes[i], th) = IF v < th THEN one ELSE IF extends THEN two ELSE three
    BY Zenon DEF Step
<1> HIDE DEF v, ts, p
<1>6. peak \in Nat
    <2> DEFINE both == {p, v}
    <2>1. both \subseteq Int /\ both # {} /\ both \subseteq Nat
        BY <1>1, <1>2
    <2>2. IsFiniteSet({p}) /\ both = {p} \cup {v}
        BY FS_Singleton
    <2> HIDE DEF both
    <2>3. IsFiniteSet(both)
        BY <2>2, FS_AddElement
    <2>4. Max(both) \in both
        BY <2>1, <2>3, MaxIsGreatest
    <2> QED
        BY <2>1, <2>4 DEF both
<1> HIDE DEF peak
<1>7. longer \in RunRecord /\ fresh \in RunRecord
    <2>1. x.cur \in [start : Nat, end : Nat, minutes : Nat, peak : Nat]
        BY <1>2 DEF RunRecord
    <2>2. x.cur.minutes + 1 \in Nat /\ 1 \in Nat
        BY <2>1
    <2>3. longer \in [start : Nat, end : Nat, minutes : Nat, peak : Nat]
        BY <1>1, <1>6, <2>1, <2>2
    <2>4. fresh \in [start : Nat, end : Nat, minutes : Nat, peak : Nat]
        BY <1>1, <2>2
    <2> QED
        BY <2>3, <2>4 DEF RunRecord
<1> HIDE DEF longer, fresh, extends
<1>8. one \in V /\ two \in V /\ three \in V
    <2>1. x.total + 1 \in Nat
        BY <1>2
    <2> QED
        BY <1>3, <1>4, <1>7, <2>1
<1> QED
    BY <1>5, <1>8

\* What the loop returns.
LEMMA SustainedIs ==
    ASSUME MinutesInv, NEW th \in Values
    PROVE  LET r == Sustained(minutes, th)
           IN  /\ r.longest \in RunRecord /\ FirstLongest(r.longest, Len(minutes), th)
               /\ r.total = Cardinality({k \in 1 .. Len(minutes) : minutes[k].v >= th})
<1> DEFINE n == Len(minutes)
           V == [best : RunRecord, cur : RunRecord, total : Nat]
           base == [best |-> NoRun, cur |-> NoRun, total |-> 0]
           Is(f) == f = [i \in 0 .. n |-> IF i = 0 THEN base ELSE Step(f[i - 1], minutes[i], th)]
           turn == [x \in (1 .. n) \X V |-> Step(x[2], minutes[x[1]], th)]
           it == CHOOSE f : Is(f)
           r == it[n]
<1>1. n \in Nat /\ th \in Nat
    BY MinuteTypes, StatsAssumption DEF StatsAssumption
<1>2. Sustained(minutes, th) = [longest |-> Better(r.cur, r.best), total |-> r.total]
    BY DEF Sustained
<1>a. 0 \in 0 .. n /\ \A i \in 1 .. n : i \in 0 .. n /\ i # 0 /\ i - 1 \in 0 .. n
    BY <1>1
<1>b. \A i \in 0 .. n : i # 0 => i \in 1 .. n
    BY <1>1
<1>3. base \in V
    BY DEF RunRecord, NoRun
<1> HIDE DEF it, n, V, base
<1>4. \A i \in 1 .. n, x \in V : Step(x, minutes[i], th) \in V
    BY ScanTypes DEF V, n
<1>5. turn \in [(1 .. n) \X V -> V]
    BY <1>4
<1>6. \A i \in 1 .. n, x \in V : turn[<<i, x>>] = Step(x, minutes[i], th)
    OBVIOUS
<1> HIDE DEF turn
<1>7. PICK g \in [0 .. n -> V] : Recursive(n, base, turn, g)
    BY <1>1, <1>3, <1>5, RecursionExists
<1>8. Is(g)
    <2>1. ASSUME NEW i \in 1 .. n PROVE turn[<<i, g[i - 1]>>] = Step(g[i - 1], minutes[i], th)
        <3>1. g[i - 1] \in V
            BY <1>a, <1>7
        <3> QED
            BY <1>6, <3>1
    <2> QED
        BY <1>b, <1>7, <2>1 DEF Recursive
<1>9. Is(it)
    <2> HIDE DEF Is
    <2> QED
        BY <1>8 DEF it
<1>10. it[0] = base /\ \A i \in 1 .. n : it[i] = Step(it[i - 1], minutes[i], th)
    BY <1>9, <1>a
<1> DEFINE P == {i \in 0 .. n : it[i] \in V /\ Scanned(it[i], i, th)}
<1>11. 0 \in P
    <2>1. base.best = NoRun /\ base.cur = NoRun /\ base.total = 0
        BY DEF base
    <2>2. Cardinality({k \in 1 .. 0 : minutes[k].v >= th}) = 0
        <3>1. {k \in 1 .. 0 : minutes[k].v >= th} = {}
            OBVIOUS
        <3> QED
            BY <3>1, FS_EmptySet
    <2>3. FirstLongest(NoRun, 0, th)
        <3>1. \A a \in 1 .. 0 : FALSE
            OBVIOUS
        <3> QED
            BY <3>1 DEF FirstLongest
    <2>4. Scanned(base, 0, th)
        BY <2>1, <2>2, <2>3 DEF Scanned
    <2> QED
        BY <1>3, <1>10, <1>a, <2>4
<1>12. ASSUME NEW i \in 1 .. n, (i - 1) \in P PROVE i \in P
    <2>1. it[i - 1] \in V /\ Scanned(it[i - 1], i - 1, th)
        BY <1>12
    <2>2. Scanned(Step(it[i - 1], minutes[i], th), i, th)
        BY <1>1, <2>1, ScanSteps DEF V, n
    <2>3. Step(it[i - 1], minutes[i], th) \in V
        BY <1>4, <2>1
    <2> QED
        BY <1>10, <1>a, <2>2, <2>3
<1>13. r \in V /\ Scanned(r, n, th)
    <2> HIDE DEF P
    <2>1. 0 .. n \subseteq P
        BY <1>1, <1>11, <1>12, UpTo
    <2>2. n \in P
        BY <1>1, <2>1
    <2> QED
        BY <2>2 DEF P
<1> HIDE DEF r
<1>14. r.best \in RunRecord /\ r.cur \in RunRecord /\ n \in 0 .. Len(minutes)
    BY <1>1, <1>13 DEF V, n
<1>15. Better(r.cur, r.best) \in RunRecord /\ FirstLongest(Better(r.cur, r.best), n, th)
    BY <1>1, <1>13, <1>14, ScanCloses
<1>16. r.total = Cardinality({k \in 1 .. n : minutes[k].v >= th})
    BY <1>13 DEF Scanned
<1> QED
    BY <1>2, <1>15, <1>16 DEF n

LEMMA LongestHolds ==
    ASSUME MinutesInv
    PROVE  LongestIsLongest
<1> SUFFICES ASSUME NEW th \in Values
             PROVE  LET r == Sustained(minutes, th)
                        runs == {p \in (DOMAIN minutes) \X (DOMAIN minutes) : p[1] <= p[2] /\ IsRun(p[1], p[2], th)}
                        best == Max({0} \cup {p[2] - p[1] + 1 : p \in runs})
                    IN  /\ r.longest.minutes = best
                        /\ r.total = Cardinality({i \in DOMAIN minutes : minutes[i].v >= th})
                        /\ best > 0 => \E p \in runs :
                              /\ p[2] - p[1] + 1 = best /\ \A q \in runs : q[2] - q[1] + 1 = best => p[1] <= q[1]
                              /\ r.longest.start = minutes[p[1]].ts /\ r.longest.end = minutes[p[2]].ts
                              /\ r.longest.peak = Max({minutes[k].v : k \in p[1] .. p[2]})
    BY DEF LongestIsLongest
<1> DEFINE n == Len(minutes)
           w == Sustained(minutes, th).longest
           runs == {p \in (DOMAIN minutes) \X (DOMAIN minutes) : p[1] <= p[2] /\ IsRun(p[1], p[2], th)}
           lengths == {p[2] - p[1] + 1 : p \in runs}
<1>1. n \in Nat /\ DOMAIN minutes = 1 .. n /\ \A k \in 1 .. n : minutes[k].v \in Nat
    BY MinuteTypes
<1>2. /\ w \in RunRecord /\ FirstLongest(w, n, th)
      /\ Sustained(minutes, th).total = Cardinality({k \in 1 .. n : minutes[k].v >= th})
    BY SustainedIs
<1> HIDE DEF w, n
<1>3. w.minutes \in Nat
    BY <1>2 DEF RunRecord
<1>4. ASSUME NEW p \in runs
      PROVE  p[1] \in 1 .. n /\ p[2] \in p[1] .. n /\ IsRun(p[1], p[2], th) /\ p[2] - p[1] + 1 \in 1 .. n
    BY <1>1
<1>5. ASSUME NEW a \in 1 .. n, NEW z \in a .. n, IsRun(a, z, th) PROVE <<a, z>> \in runs
    BY <1>1, <1>5
<1> HIDE DEF runs
<1>6. \A p \in runs : p[2] - p[1] + 1 <= w.minutes
    BY <1>2, <1>4 DEF FirstLongest
<1>7. \/ w = NoRun
      \/ \E a \in 1 .. n : \E z \in a .. n :
            /\ IsRun(a, z, th) /\ RunOf(w, a, z)
            /\ \A c \in 1 .. n : \A d \in c .. n : IsRun(c, d, th) /\ d - c = z - a => a <= c
    BY <1>2 DEF FirstLongest
<1>8. ASSUME NEW a \in 1 .. n, NEW z \in a .. n, RunOf(w, a, z)
      PROVE  w.peak = Max({minutes[k].v : k \in a .. z})
    <2> DEFINE X == {minutes[k].v : k \in a .. z}
    <2>1. \A k \in a .. z : k \in 1 .. n
        BY <1>1
    <2>2. X \subseteq Int
        BY <1>1, <2>1
    <2>3. w.peak \in X /\ \A x \in X : x <= w.peak
        BY <1>8 DEF RunOf
    <2>4. IsFiniteSet(X)
        <3>1. X \subseteq 0 .. w.peak
            <4>1. w.peak \in Nat
                BY <1>2 DEF RunRecord
            <4>2. \A k \in a .. z : minutes[k].v \in Nat /\ minutes[k].v <= w.peak
                BY <1>1, <1>8, <2>1 DEF RunOf
            <4> QED
                BY <4>1, <4>2
        <3>2. 0 \in Int /\ w.peak \in Int
            BY <1>2 DEF RunRecord
        <3>3. IsFiniteSet(0 .. w.peak)
            BY ONLY <3>2, FS_Interval
        <3> HIDE DEF X
        <3> QED
            BY <3>1, <3>3, FS_Subset
    <2> HIDE DEF X
    <2>5. Max(X) = w.peak
        BY <2>2, <2>3, <2>4, MaxIs
    <2> QED
        BY <2>5 DEF X
<1>9. Max({0} \cup lengths) = w.minutes
    <2> DEFINE X == {0} \cup lengths
    <2>1. X \subseteq 0 .. n
        BY <1>1, <1>4
    <2>2. IsFiniteSet(X) /\ X \subseteq Int
        <3>1. 0 \in Int /\ n \in Int
            BY <1>1
        <3>2. IsFiniteSet(0 .. n)
            BY ONLY <3>1, FS_Interval
        <3>3. 0 .. n \subseteq Int
            OBVIOUS
        <3> HIDE DEF X
        <3>4. IsFiniteSet(X)
            BY <2>1, <3>2, FS_Subset
        <3> QED
            BY <2>1, <3>3, <3>4
    <2>3. \A x \in X : x <= w.minutes
        BY <1>3, <1>6
    <2>4. w.minutes \in X
        <3>1. CASE w = NoRun
            BY <3>1 DEF NoRun
        <3>2. ASSUME NEW a \in 1 .. n, NEW z \in a .. n, IsRun(a, z, th), RunOf(w, a, z) PROVE w.minutes \in X
            <4>1. <<a, z>> \in runs
                BY <1>5, <3>2
            <4>2. w.minutes = z - a + 1 /\ <<a, z>>[1] = a /\ <<a, z>>[2] = z
                BY <3>2 DEF RunOf
            <4> QED
                BY <4>1, <4>2
        <3> QED
            BY <1>7, <3>1, <3>2
    <2> HIDE DEF X
    <2>5. Max(X) = w.minutes
        BY <2>2, <2>3, <2>4, MaxIs
    <2> QED
        BY <2>5 DEF X
<1>10. ASSUME w.minutes > 0
       PROVE  \E p \in runs :
                 /\ p[2] - p[1] + 1 = w.minutes /\ \A q \in runs : q[2] - q[1] + 1 = w.minutes => p[1] <= q[1]
                 /\ w.start = minutes[p[1]].ts /\ w.end = minutes[p[2]].ts
                 /\ w.peak = Max({minutes[k].v : k \in p[1] .. p[2]})
    <2>1. w # NoRun
        BY <1>10 DEF NoRun
    <2>2. PICK a \in 1 .. n : \E z \in a .. n :
            /\ IsRun(a, z, th) /\ RunOf(w, a, z)
            /\ \A c \in 1 .. n : \A d \in c .. n : IsRun(c, d, th) /\ d - c = z - a => a <= c
        BY <1>7, <2>1
    <2>3. PICK z \in a .. n :
            /\ IsRun(a, z, th) /\ RunOf(w, a, z)
            /\ \A c \in 1 .. n : \A d \in c .. n : IsRun(c, d, th) /\ d - c = z - a => a <= c
        BY <2>2
    <2> DEFINE p == <<a, z>>
    <2>4. p \in runs /\ p[1] = a /\ p[2] = z
        BY <1>5, <2>3
    <2>5. w.minutes = z - a + 1 /\ w.start = minutes[a].ts /\ w.end = minutes[z].ts
        BY <2>3 DEF RunOf
    <2>6. w.peak = Max({minutes[k].v : k \in a .. z})
        BY <1>8, <2>3
    <2>7. ASSUME NEW q \in runs, q[2] - q[1] + 1 = w.minutes PROVE a <= q[1]
        <3>1. q[1] \in 1 .. n /\ q[2] \in q[1] .. n /\ IsRun(q[1], q[2], th)
            BY <1>4
        <3> DEFINE c == q[1]
                   d == q[2]
        <3>2. c \in Nat /\ d \in Nat /\ a \in Nat /\ z \in Nat
            BY <1>1, <3>1
        <3>3. d - c = z - a
            BY <2>5, <2>7, <3>2
        <3> QED
            BY <2>3, <3>1, <3>3
    <2> HIDE DEF p
    <2> QED
        BY <2>4, <2>5, <2>6, <2>7
<1> QED
    BY <1>1, <1>2, <1>9, <1>10 DEF w, runs, lengths

\* stats.go, recommend.go:187-188: the figures of the report are those of the minutes,
\* whatever their values and gaps.
THEOREM FiguresAreRight ==
    StatsSpec => []FiguresHold
<1>1. StatsInit => MinutesInv
    BY DEF StatsInit, MinutesInv
<1>2. MinutesInv /\ [StatsNext]_statsVars => MinutesInv'
    BY MinutesStep
<1>3. MinutesInv => FiguresHold
    BY CoverageIsExact, QuantilesHold, LongestHolds DEF FiguresHold
<1> QED
    BY <1>1, <1>2, <1>3, PTL DEF StatsSpec
-----------------------------------------------------------------------------
(***************************************************************************)
(* Theorem about the patterns.  What the proofs need of the loop is that   *)
(* an event starts a cluster exactly when no earlier start is near it.     *)
(***************************************************************************)
Events == [key : Keys, day : 1 .. MaxDays, min : Minutes]

IsTime(m) == m \in Nat /\ m < 1440

LEMMA EventsAre ==
    ASSUME NEW evs \in Seq(Events)
    PROVE  /\ Len(evs) \in Nat /\ DOMAIN evs = 1 .. Len(evs)
           /\ \A i \in 1 .. Len(evs) : evs[i].key \in Keys /\ evs[i].day \in 1 .. MaxDays /\ IsTime(evs[i].min)
<1>1. \A e \in Events : e.key \in Keys /\ e.day \in 1 .. MaxDays /\ IsTime(e.min)
    <2>1. \A m \in Minutes : IsTime(m)
        BY RecurrenceAssumption DEF RecurrenceAssumption, IsTime
    <2>2. \A e \in Events : e.key \in Keys /\ e.day \in 1 .. MaxDays /\ e.min \in Minutes
        BY DEF Events
    <2> QED
        BY <2>1, <2>2
<1>2. Len(evs) \in Nat /\ DOMAIN evs = 1 .. Len(evs) /\ \A i \in 1 .. Len(evs) : evs[i] \in Events
    OBVIOUS
<1> QED
    BY <1>1, <1>2

\* A total of bounded numbers is bounded.
LEMMA TotalBounded ==
    ASSUME NEW w, NEW S, IsFiniteSet(S), NEW m \in Nat, \A x \in S : w[x] \in 0 .. m
    PROVE  Total(w, S) \in Nat /\ Total(w, S) <= m * Cardinality(S)
<1> DEFINE Over(T) == ~(Total(w, T) \in Nat /\ Total(w, T) <= m * Cardinality(T))
           C == {T \in SUBSET S : Over(T)}
<1> SUFFICES ASSUME Over(S) PROVE FALSE
    OBVIOUS
<1>1. C # {} /\ \A T \in C : IsFiniteSet(T)
    <2> HIDE DEF Over
    <2>1. S \in C
        OBVIOUS
    <2>2. \A T \in SUBSET S : IsFiniteSet(T)
        BY FS_Subset
    <2> QED
        BY <2>1, <2>2
<1>2. PICK T \in C : \A U \in C : U \subseteq T => U = T
    <2> HIDE DEF C
    <2> QED
        BY <1>1, SmallestSet
<1>3. T \subseteq S /\ IsFiniteSet(T) /\ Over(T)
    BY <1>1
<1>4. T # {}
    <2> SUFFICES ASSUME T = {} PROVE FALSE
        OBVIOUS
    <2>1. Total(w, {}) = 0 /\ Cardinality({}) = 0 /\ m * 0 = 0
        BY TotalEmpty, FS_EmptySet
    <2> QED
        BY <1>3, <2>1
<1> DEFINE U == T \ {One(T)}
           total == Total(w, U)
           card == Cardinality(U)
           last == w[One(T)]
<1>5. One(T) \in T /\ IsFiniteSet(U) /\ Total(w, T) = last + total
    BY <1>3, <1>4, TotalOne
<1>6. U \subseteq T /\ U # T /\ U \in SUBSET S
    BY <1>3, <1>5
<1>7. ~Over(U)
    <2> HIDE DEF Over, U
    <2> QED
        BY <1>2, <1>6
<1>8. total \in Nat /\ total <= m * card
    BY <1>7
<1>9. last \in 0 .. m
    BY <1>3, <1>5
<1>10. card \in Nat /\ Cardinality(T) = card + 1
    <2>1. T = U \cup {One(T)} /\ One(T) \notin U
        BY <1>5
    <2> HIDE DEF U
    <2>2. Cardinality(U \cup {One(T)}) = Cardinality(U) + 1
        BY <1>5, <2>1, FS_AddElement
    <2> QED
        BY <1>5, <2>1, <2>2, FS_CardinalityType
<1> HIDE DEF total, card, last
<1>11. m * (card + 1) = m * card + m /\ m * card \in Nat
    BY ONLY <1>10, m \in Nat
<1>12. last + total \in Nat /\ last + total <= m * card + m
    BY ONLY <1>8, <1>9, <1>11, m \in Nat
<1>13. Total(w, T) \in Nat /\ Total(w, T) <= m * Cardinality(T)
    BY <1>5, <1>10, <1>11, <1>12
<1> QED
    BY <1>3, <1>13

\* An event of the group starts a cluster when no earlier start is near it.
LEMMA BasesAre ==
    ASSUME NEW evs \in Seq(Events), NEW k
    PROVE  /\ Bases(evs, k) \subseteq 1 .. Len(evs)
           /\ \A i \in 1 .. Len(evs) :
                 i \in Bases(evs, k) <=> evs[i].key = k /\ \A b \in Bases(evs, k) : b < i => ~Near(evs, b, i)
<1> DEFINE n == Len(evs)
           V == SUBSET (1 .. n)
           step(s, i) == IF evs[i].key = k /\ \A b \in s : ~Near(evs, b, i) THEN s \cup {i} ELSE s
           Is(f) == f = [i \in 0 .. n |-> IF i = 0 THEN {}
                                          ELSE IF evs[i].key = k /\ \A b \in f[i - 1] : ~Near(evs, b, i)
                                               THEN f[i - 1] \cup {i}
                                          ELSE f[i - 1]]
           turn == [x \in (1 .. n) \X V |-> step(x[2], x[1])]
           it == CHOOSE f : Is(f)
<1>1. n \in Nat
    OBVIOUS
<1>2. Bases(evs, k) = it[n]
    BY DEF Bases
<1>a. 0 \in 0 .. n /\ \A i \in 1 .. n : i \in 0 .. n /\ i # 0 /\ i - 1 \in 0 .. n
    BY <1>1
<1>b. \A i \in 0 .. n : i # 0 => i \in 1 .. n
    BY <1>1
<1> HIDE DEF it, n
<1>3. \A i \in 1 .. n, s \in V : step(s, i) \in V
    OBVIOUS
<1>4. Is(it)
    <2> HIDE DEF step
    <2>1. turn \in [(1 .. n) \X V -> V]
        BY <1>3
    <2>2. \A i \in 1 .. n, s \in V : turn[<<i, s>>] = step(s, i)
        OBVIOUS
    <2>3. {} \in V
        OBVIOUS
    <2> HIDE DEF turn, V
    <2>4. PICK g \in [0 .. n -> V] : Recursive(n, {}, turn, g)
        BY <1>1, <2>1, <2>3, RecursionExists
    <2>5. ASSUME NEW i \in 1 .. n PROVE turn[<<i, g[i - 1]>>] = step(g[i - 1], i)
        <3>1. g[i - 1] \in V
            BY <1>a, <2>4
        <3> QED
            BY <2>2, <3>1
    <2>6. g = [i \in 0 .. n |-> IF i = 0 THEN {} ELSE step(g[i - 1], i)]
        BY <1>b, <2>4, <2>5 DEF Recursive
    <2>7. Is(g)
        BY <2>6, Zenon DEF step
    <2> HIDE DEF Is
    <2> QED
        BY <2>7 DEF it
<1>5. it[0] = {} /\ \A i \in 1 .. n : it[i] = step(it[i - 1], i)
    BY <1>4, <1>a
<1> DEFINE Starts(s, i) ==
               /\ s \subseteq 1 .. i
               /\ \A j \in 1 .. i : j \in s <=> evs[j].key = k /\ \A b \in s : b < j => ~Near(evs, b, j)
           P == {i \in 0 .. n : Starts(it[i], i)}
<1>6. 0 \in P
    <2>1. \A j \in 1 .. 0 : FALSE
        OBVIOUS
    <2> QED
        BY <1>5, <1>a, <2>1
<1>7. ASSUME NEW i \in 1 .. n, (i - 1) \in P PROVE i \in P
    <2> DEFINE s == it[i - 1]
               t == it[i]
    <2>1. s \subseteq 1 .. (i - 1)
          /\ \A j \in 1 .. (i - 1) : j \in s <=> evs[j].key = k /\ \A b \in s : b < j => ~Near(evs, b, j)
        BY <1>7
    <2>2. t = step(s, i)
        BY <1>5
    <2> HIDE DEF s, t
    <2>3. i \in Nat /\ i >= 1 /\ \A b \in s : b \in Nat /\ b < i /\ b \in 1 .. i
        BY <1>1, <2>1
    <2>4. t \subseteq 1 .. i /\ s \subseteq t /\ t \subseteq s \cup {i}
        BY <2>2, <2>3
    <2>5. i \in t <=> evs[i].key = k /\ \A b \in t : b < i => ~Near(evs, b, i)
        <3>1. i \notin s /\ ~(i < i)
            BY <2>3
        <3>2. i \in t <=> evs[i].key = k /\ \A b \in s : ~Near(evs, b, i)
            BY <2>2, <3>1
        <3>3. (\A b \in s : ~Near(evs, b, i)) <=> (\A b \in t : b < i => ~Near(evs, b, i))
            BY <2>3, <2>4, <3>1
        <3> QED
            BY <3>2, <3>3
    <2>6. ASSUME NEW j \in 1 .. (i - 1)
          PROVE  j \in t <=> evs[j].key = k /\ \A b \in t : b < j => ~Near(evs, b, j)
        <3>1. j # i /\ ~(i < j)
            BY <2>3
        <3>2. j \in t <=> j \in s
            BY <2>4, <3>1
        <3>3. (\A b \in s : b < j => ~Near(evs, b, j)) <=> (\A b \in t : b < j => ~Near(evs, b, j))
            BY <2>4, <3>1
        <3> QED
            BY <2>1, <3>2, <3>3
    <2>7. \A j \in 1 .. i : j = i \/ j \in 1 .. (i - 1)
        BY <2>3
    <2>8. Starts(t, i)
        BY <2>4, <2>5, <2>6, <2>7
    <2> QED
        BY <1>a, <2>8 DEF t
<1>8. n \in P
    <2> HIDE DEF P
    <2>1. 0 .. n \subseteq P
        BY <1>1, <1>6, <1>7, UpTo
    <2> QED
        BY <1>1, <2>1
<1> QED
    BY <1>2, <1>8 DEF n

\* The distance on the clock.
LEMMA DistIs ==
    ASSUME NEW a, NEW b, IsTime(a), IsTime(b)
    PROVE  /\ MinuteDist(a, b) \in Nat /\ MinuteDist(a, a) = 0
           /\ \/ MinuteDist(a, b) = a - b \/ MinuteDist(a, b) = b - a
              \/ MinuteDist(a, b) = 1440 + a - b \/ MinuteDist(a, b) = 1440 + b - a
    BY DEF MinuteDist, IsTime

\* Every event of a group has a start near it, and not after it.
LEMMA BaseOf ==
    ASSUME NEW evs \in Seq(Events), NEW k, NEW i \in 1 .. Len(evs), evs[i].key = k
    PROVE  \E b \in Bases(evs, k) : b <= i /\ Near(evs, b, i)
<1>1. Bases(evs, k) \subseteq 1 .. Len(evs) /\ Len(evs) \in Nat
    BY BasesAre
<1>2. CASE i \in Bases(evs, k)
    <2>1. IsTime(evs[i].min)
        BY EventsAre
    <2>2. Near(evs, i, i)
        <3> DEFINE m == evs[i].min
        <3>1. IsTime(m)
            BY <2>1
        <3> HIDE DEF m
        <3>2. MinuteDist(m, m) = 0
            BY <3>1, DistIs
        <3> QED
            BY <3>2 DEF Near, Tol, m
    <2>3. i <= i
        OBVIOUS
    <2> QED
        BY <1>2, <2>2, <2>3
<1>3. CASE i \notin Bases(evs, k)
    <2>1. PICK b \in Bases(evs, k) : b < i /\ Near(evs, b, i)
        BY <1>3, BasesAre
    <2>2. b <= i
        BY <1>1, <2>1
    <2> QED
        BY <2>1, <2>2
<1> QED
    BY <1>2, <1>3

\* What a cluster is: its days are no more than its events.
LEMMA ClusterIs ==
    ASSUME NEW evs \in Seq(Events), NEW c \in SUBSET (1 .. Len(evs))
    PROVE  /\ IsFiniteSet(c) /\ Cardinality(c) \in Nat
           /\ IsFiniteSet(Days(evs, c)) /\ Cardinality(Days(evs, c)) \in Nat
           /\ Cardinality(Days(evs, c)) <= Cardinality(c)
<1>1. Len(evs) \in Int /\ 1 \in Int
    OBVIOUS
<1>2. IsFiniteSet(1 .. Len(evs))
    BY ONLY <1>1, FS_Interval
<1>3. IsFiniteSet(c) /\ Cardinality(c) \in Nat
    BY <1>2, FS_Subset, FS_CardinalityType
<1> DEFINE f == [i \in c |-> evs[i].day]
           D == Days(evs, c)
<1>4. f \in Surjection(c, D)
    BY DEF Surjection, Days
<1> HIDE DEF f, D
<1>5. IsFiniteSet(D) /\ Cardinality(D) <= Cardinality(c)
    BY <1>3, <1>4, FS_Surjection
<1>6. Cardinality(D) \in Nat
    BY <1>5, FS_CardinalityType
<1> QED
    BY <1>3, <1>5, <1>6 DEF D

\* The mean of times of day is a time of day.
LEMMA MeanIs ==
    ASSUME NEW evs \in Seq(Events), NEW c \in SUBSET (1 .. Len(evs)), c # {}
    PROVE  IsTime(MeanMin(evs, c))
<1> DEFINE w == [i \in c |-> evs[i].min]
           total == Total(w, c)
           card == Cardinality(c)
           q == total \div card
<1>1. IsFiniteSet(c) /\ card \in Nat /\ card # 0
    BY ClusterIs, FS_EmptySet
<1>2. \A i \in c : IsTime(w[i])
    <2>1. \A i \in 1 .. Len(evs) : IsTime(evs[i].min)
        BY EventsAre
    <2> QED
        BY <2>1
<1>3. total \in Nat /\ total <= 1439 * card
    <2> DEFINE m == 1439
    <2>1. m \in Nat /\ \A i : IsTime(i) => i \in Nat /\ i <= m
        BY DEF IsTime
    <2> HIDE DEF w, m
    <2>2. \A i \in c : w[i] \in 0 .. m
        BY <1>2, <2>1
    <2>3. Total(w, c) \in Nat /\ Total(w, c) <= m * Cardinality(c)
        BY ONLY <1>1, <2>1, <2>2, TotalBounded
    <2> QED
        BY <2>3 DEF m
<1>4. MeanMin(evs, c) = q
    BY DEF MeanMin, Total
<1> HIDE DEF total, card, w
<1>5. q \in Nat /\ card * q <= total
    <2>1. card \in Nat \ {0}
        BY <1>1
    <2> QED
        BY <1>3, <2>1, Quotient
<1> HIDE DEF q
<1>6. q <= 1439
    <2> SUFFICES ASSUME q >= 1440 PROVE FALSE
        BY <1>5
    <2>1. PICK x \in Nat : q = 1440 + x
        <3>1. q - 1440 \in Nat /\ q = 1440 + (q - 1440)
            BY <1>5
        <3> QED
            BY <3>1
    <2>2. card * (1440 + x) = 1440 * card + card * x /\ card * x \in Nat
        BY ONLY <1>1, <2>1
    <2> QED
        BY ONLY <1>1, <1>3, <1>5, <2>1, <2>2
<1> QED
    BY <1>4, <1>5, <1>6 DEF IsTime
\* The pattern of the cluster c of group k.
PatternOf(evs, k, c) == [key |-> k, ids |-> c, timeOfDay |-> MeanMin(evs, c), days |-> Cardinality(Days(evs, c))]

\* A pattern is a cluster with enough events on enough days, and every such is one.
LEMMA PatternsAre ==
    ASSUME NEW evs \in Seq(Events)
    PROVE  /\ \A p \in DetectPatterns(evs) : \E k \in Keys : \E b \in Bases(evs, k) :
                 LET c == Cluster(evs, Bases(evs, k), b)
                 IN  Cardinality(c) >= 3 /\ Cardinality(Days(evs, c)) >= 3 /\ p = PatternOf(evs, k, c)
           /\ \A k \in Keys : \A b \in Bases(evs, k) :
                 LET c == Cluster(evs, Bases(evs, k), b)
                 IN  Cardinality(c) >= 3 /\ Cardinality(Days(evs, c)) >= 3 => PatternOf(evs, k, c) \in DetectPatterns(evs)
<1> DEFINE many(c) == Cardinality(c) >= 3 /\ Cardinality(Days(evs, c)) >= 3
           found(k) == {PatternOf(evs, k, c) : c \in {x \in Clusters(evs, k) : many(x)}}
<1>1. DetectPatterns(evs) = UNION {found(k) : k \in Keys}
    BY DEF DetectPatterns, PatternOf
<1>2. \A k : Clusters(evs, k) = {Cluster(evs, Bases(evs, k), b) : b \in Bases(evs, k)}
    BY DEF Clusters
<1> HIDE DEF many
<1>3. ASSUME NEW p \in DetectPatterns(evs)
      PROVE  \E k \in Keys : \E b \in Bases(evs, k) :
                 LET c == Cluster(evs, Bases(evs, k), b) IN many(c) /\ p = PatternOf(evs, k, c)
    <2>1. PICK k \in Keys : p \in found(k)
        BY <1>1, <1>3
    <2>2. PICK c \in Clusters(evs, k) : many(c) /\ p = PatternOf(evs, k, c)
        BY <2>1
    <2>3. PICK b \in Bases(evs, k) : c = Cluster(evs, Bases(evs, k), b)
        BY <1>2, <2>2
    <2> QED
        BY <2>2, <2>3
<1>4. ASSUME NEW k \in Keys, NEW b \in Bases(evs, k), many(Cluster(evs, Bases(evs, k), b))
      PROVE  PatternOf(evs, k, Cluster(evs, Bases(evs, k), b)) \in DetectPatterns(evs)
    <2> DEFINE c == Cluster(evs, Bases(evs, k), b)
    <2>1. c \in Clusters(evs, k) /\ many(c)
        BY <1>2, <1>4
    <2> HIDE DEF c
    <2>2. PatternOf(evs, k, c) \in found(k)
        BY <2>1
    <2> HIDE DEF found
    <2>3. PatternOf(evs, k, c) \in DetectPatterns(evs)
        BY <1>1, <2>2
    <2> QED
        BY <2>3 DEF c
<1> QED
    BY <1>3, <1>4 DEF many

\* The events of a cluster are of its group, near its start, and near no earlier one.
LEMMA MembersAre ==
    ASSUME NEW evs \in Seq(Events), NEW k, NEW b \in Bases(evs, k)
    PROVE  /\ b \in 1 .. Len(evs) /\ evs[b].key = k
           /\ Cluster(evs, Bases(evs, k), b) \in SUBSET (1 .. Len(evs))
           /\ \A i \in 1 .. Len(evs) :
                 i \in Cluster(evs, Bases(evs, k), b) <=>
                     /\ b <= i /\ evs[i].key = k /\ Near(evs, b, i)
                     /\ \A c \in Bases(evs, k) : c < b => ~Near(evs, c, i)
<1>1. b \in 1 .. Len(evs) /\ evs[b].key = k /\ Len(evs) \in Nat
    BY BasesAre
<1> DEFINE X == Bases(evs, k)
<1> HIDE DEF X
<1>2. \A i \in 1 .. Len(evs) : b <= i <=> i \in b .. Len(evs)
    BY <1>1
<1>3. b .. Len(evs) \subseteq 1 .. Len(evs)
    BY <1>1
<1>4. Cluster(evs, X, b) = {i \in b .. Len(evs) : evs[i].key = evs[b].key /\ Near(evs, b, i) /\ \A c \in X : c < b => ~Near(evs, c, i)}
    BY DEF Cluster
<1> QED
    BY <1>1, <1>2, <1>3, <1>4 DEF X

LEMMA PatternsTyped ==
    ASSUME spikes \in Seq(Events)
    PROVE  RecurrenceTypeOK
<1>1. ASSUME NEW p \in DetectPatterns(spikes)
      PROVE  p.timeOfDay \in Nat /\ p.timeOfDay < 1440 /\ Cardinality(p.ids) >= p.days
    <2>1. PICK k \in Keys : \E b \in Bases(spikes, k) :
              LET c == Cluster(spikes, Bases(spikes, k), b)
              IN  Cardinality(c) >= 3 /\ Cardinality(Days(spikes, c)) >= 3 /\ p = PatternOf(spikes, k, c)
        BY <1>1, PatternsAre
    <2>2. PICK b \in Bases(spikes, k) :
              LET c == Cluster(spikes, Bases(spikes, k), b)
              IN  Cardinality(c) >= 3 /\ Cardinality(Days(spikes, c)) >= 3 /\ p = PatternOf(spikes, k, c)
        BY <2>1
    <2> DEFINE c == Cluster(spikes, Bases(spikes, k), b)
    <2>3. c \in SUBSET (1 .. Len(spikes))
        BY MembersAre
    <2>4. p.timeOfDay = MeanMin(spikes, c) /\ p.ids = c /\ p.days = Cardinality(Days(spikes, c)) /\ Cardinality(c) >= 3
        BY <2>2 DEF PatternOf
    <2> HIDE DEF c
    <2>5. c # {}
        <3> SUFFICES ASSUME c = {} PROVE FALSE
            OBVIOUS
        <3>1. Cardinality(c) = 0
            BY FS_EmptySet
        <3> QED
            BY <2>4, <3>1
    <2>6. IsTime(MeanMin(spikes, c))
        BY <2>3, <2>5, MeanIs
    <2>7. Cardinality(Days(spikes, c)) <= Cardinality(c) /\ Cardinality(c) \in Nat /\ Cardinality(Days(spikes, c)) \in Nat
        BY <2>3, ClusterIs
    <2> QED
        BY <2>4, <2>6, <2>7 DEF IsTime
<1>2. ASSUME NEW p \in DetectPatterns(spikes), NEW q \in DetectPatterns(spikes), p # q
      PROVE  p.ids \cap q.ids = {}
    <2>1. PICK k \in Keys : \E b \in Bases(spikes, k) :
              LET c == Cluster(spikes, Bases(spikes, k), b)
              IN  Cardinality(c) >= 3 /\ Cardinality(Days(spikes, c)) >= 3 /\ p = PatternOf(spikes, k, c)
        BY <1>2, PatternsAre
    <2>2. PICK b \in Bases(spikes, k) : p = PatternOf(spikes, k, Cluster(spikes, Bases(spikes, k), b))
        BY <2>1
    <2>3. PICK l \in Keys : \E b_1 \in Bases(spikes, l) :
              LET c == Cluster(spikes, Bases(spikes, l), b_1)
              IN  Cardinality(c) >= 3 /\ Cardinality(Days(spikes, c)) >= 3 /\ q = PatternOf(spikes, l, c)
        BY <1>2, PatternsAre
    <2>4. PICK d \in Bases(spikes, l) : q = PatternOf(spikes, l, Cluster(spikes, Bases(spikes, l), d))
        BY <2>3
    <2>5. SUFFICES ASSUME NEW i \in p.ids \cap q.ids PROVE FALSE
        OBVIOUS
    <2>6. i \in Cluster(spikes, Bases(spikes, k), b) /\ i \in Cluster(spikes, Bases(spikes, l), d)
        BY <2>2, <2>4, <2>5 DEF PatternOf
    <2>7. i \in 1 .. Len(spikes) /\ b \in 1 .. Len(spikes) /\ d \in 1 .. Len(spikes)
        BY <2>6, MembersAre
    <2>8. spikes[i].key = k /\ Near(spikes, b, i) /\ \A c \in Bases(spikes, k) : c < b => ~Near(spikes, c, i)
        BY <2>6, <2>7, MembersAre
    <2>9. spikes[i].key = l /\ Near(spikes, d, i) /\ \A c \in Bases(spikes, l) : c < d => ~Near(spikes, c, i)
        BY <2>6, <2>7, MembersAre
    <2>10. k = l /\ ~(b < d) /\ ~(d < b)
        BY <2>8, <2>9
    <2>11. b = d
        BY <2>7, <2>10
    <2> QED
        BY <1>2, <2>2, <2>4, <2>10, <2>11
<1> QED
    BY <1>1, <1>2 DEF RecurrenceTypeOK

\* Two times near a third are within twice the tolerance of one another, on the clock.
LEMMA NearTwice ==
    ASSUME NEW a, NEW b, NEW m, IsTime(a), IsTime(b), IsTime(m), MinuteDist(m, a) <= Tol, MinuteDist(m, b) <= Tol
    PROVE  Min({(a - b) % 1440, (b - a) % 1440}) <= 2 * Tol
<1> DEFINE x == (a - b) % 1440
           y == (b - a) % 1440
<1>1. a \in Nat /\ b \in Nat /\ m \in Nat /\ a < 1440 /\ b < 1440 /\ m < 1440
    BY DEF IsTime
<1>2. x = (IF a >= b THEN a - b ELSE a - b + 1440) /\ y = (IF b >= a THEN b - a ELSE b - a + 1440)
    BY ONLY <1>1
<1>3. /\ \/ MinuteDist(m, a) = m - a \/ MinuteDist(m, a) = a - m
         \/ MinuteDist(m, a) = 1440 + m - a \/ MinuteDist(m, a) = 1440 + a - m
      /\ \/ MinuteDist(m, b) = m - b \/ MinuteDist(m, b) = b - m
         \/ MinuteDist(m, b) = 1440 + m - b \/ MinuteDist(m, b) = 1440 + b - m
      /\ MinuteDist(m, a) \in Nat /\ MinuteDist(m, b) \in Nat
    BY DistIs
<1> DEFINE e == MinuteDist(m, a)
           f == MinuteDist(m, b)
<1>4. e <= 20 /\ f <= 20 /\ 2 * Tol = 40
    BY DEF Tol
<1> HIDE DEF x, y, e, f
<1>5. x \in Nat /\ y \in Nat /\ (x <= 40 \/ y <= 40)
    BY <1>1, <1>2, <1>3, <1>4 DEF e, f
<1>6. Min({x, y}) <= x /\ Min({x, y}) <= y /\ Min({x, y}) \in Nat
    <2> DEFINE both == {x, y}
    <2>1. both \subseteq Nat /\ both # {} /\ x \in both /\ y \in both
        BY <1>5
    <2> HIDE DEF both
    <2>2. Min(both) \in both /\ \A z \in both : Min(both) <= z
        BY <2>1, MinIsLeast
    <2> QED
        BY <2>1, <2>2 DEF both
<1> DEFINE least == Min({x, y})
<1> HIDE DEF least
<1>7. least <= x /\ least <= y /\ least \in Nat
    BY <1>6 DEF least
<1>8. least <= 40
    BY ONLY <1>5, <1>7
<1> QED
    BY <1>4, <1>8 DEF least, x, y

LEMMA PatternsTight ==
    ASSUME spikes \in Seq(Events)
    PROVE  PatternIsTight
<1> SUFFICES ASSUME NEW p \in DetectPatterns(spikes), NEW i \in p.ids, NEW j \in p.ids
             PROVE  /\ spikes[i].key = spikes[j].key
                    /\ Min({(spikes[i].min - spikes[j].min) % 1440, (spikes[j].min - spikes[i].min) % 1440}) <= 2 * Tol
    BY DEF PatternIsTight
<1>1. PICK k \in Keys : \E b \in Bases(spikes, k) :
          LET c == Cluster(spikes, Bases(spikes, k), b)
          IN  Cardinality(c) >= 3 /\ Cardinality(Days(spikes, c)) >= 3 /\ p = PatternOf(spikes, k, c)
    BY PatternsAre
<1>2. PICK b \in Bases(spikes, k) : p = PatternOf(spikes, k, Cluster(spikes, Bases(spikes, k), b))
    BY <1>1
<1>3. i \in Cluster(spikes, Bases(spikes, k), b) /\ j \in Cluster(spikes, Bases(spikes, k), b)
    BY <1>2 DEF PatternOf
<1>4. i \in 1 .. Len(spikes) /\ j \in 1 .. Len(spikes) /\ b \in 1 .. Len(spikes)
    BY <1>3, MembersAre
<1>5. spikes[i].key = k /\ spikes[j].key = k /\ Near(spikes, b, i) /\ Near(spikes, b, j)
    BY <1>3, <1>4, MembersAre
<1> DEFINE a == spikes[i].min
           z == spikes[j].min
           m == spikes[b].min
<1>6. IsTime(a) /\ IsTime(z) /\ IsTime(m)
    BY <1>4, EventsAre
<1>7. MinuteDist(m, a) <= Tol /\ MinuteDist(m, z) <= Tol
    BY <1>5 DEF Near
<1> HIDE DEF a, z, m
<1>8. Min({(a - z) % 1440, (z - a) % 1440}) <= 2 * Tol
    BY <1>6, <1>7, NearTwice
<1> QED
    BY <1>5, <1>8 DEF a, z
LEMMA JobsFound ==
    ASSUME spikes \in Seq(Events)
    PROVE  RegularJobIsFound
<1> SUFFICES ASSUME NEW k \in Keys, NEW m \in Minutes,
                    Cardinality({spikes[i].day : i \in {i \in DOMAIN spikes : spikes[i].key = k /\ spikes[i].min = m}}) >= 3
             PROVE  \E p \in DetectPatterns(spikes) :
                       p.key = k /\ {i \in DOMAIN spikes : spikes[i].key = k /\ spikes[i].min = m} \subseteq p.ids
    BY DEF RegularJobIsFound
<1> DEFINE job == {i \in DOMAIN spikes : spikes[i].key = k /\ spikes[i].min = m}
           starts == Bases(spikes, k)
           near == {b \in starts : MinuteDist(spikes[b].min, m) <= Tol}
           n == Len(spikes)
<1>1. n \in Nat /\ DOMAIN spikes = 1 .. n
    BY EventsAre
<1>2. job \in SUBSET (1 .. n) /\ \A i \in job : i \in 1 .. n /\ spikes[i].key = k /\ spikes[i].min = m
    BY <1>1
<1>3. Days(spikes, job) = {spikes[i].day : i \in job}
    BY DEF Days
<1>4. Cardinality(Days(spikes, job)) >= 3
    BY <1>3
<1> HIDE DEF job, starts
<1>5. starts \subseteq 1 .. n
    BY BasesAre DEF starts
<1>6. \A i \in job : \E b \in near : b <= i
    <2> SUFFICES ASSUME NEW i \in job PROVE \E b \in near : b <= i
        OBVIOUS
    <2>1. PICK b \in starts : b <= i /\ Near(spikes, b, i)
        BY <1>2, BaseOf DEF starts
    <2>2. MinuteDist(spikes[b].min, m) <= Tol
        BY <1>2, <2>1 DEF Near
    <2> QED
        BY <2>1, <2>2
<1>7. job # {}
    <2> SUFFICES ASSUME job = {} PROVE FALSE
        OBVIOUS
    <2>1. Days(spikes, job) = {}
        BY <1>3
    <2>2. Cardinality(Days(spikes, job)) = 0
        BY <2>1, FS_EmptySet
    <2> QED
        BY <1>4, <2>2
<1>8. near # {} /\ near \subseteq Nat
    <2>1. near \subseteq 1 .. n
        BY <1>5
    <2>2. \E i \in job : TRUE
        BY <1>7
    <2> HIDE DEF near
    <2> QED
        BY <1>1, <1>6, <2>1, <2>2
<1> DEFINE b == Min(near)
           c == Cluster(spikes, starts, b)
<1>9. b \in near /\ \A d \in near : b <= d
    <2> HIDE DEF near
    <2> QED
        BY <1>8, MinIsLeast
<1> HIDE DEF b
<1>10. b \in starts /\ b \in 1 .. n
    BY <1>5, <1>9
<1>11. job \subseteq c
    <2> SUFFICES ASSUME NEW i \in job PROVE i \in c
        OBVIOUS
    <2>1. PICK d \in near : d <= i
        BY <1>6
    <2>2. i \in 1 .. n /\ spikes[i].key = k /\ spikes[i].min = m
        BY <1>2
    <2>3. d \in Nat /\ b <= d
        BY <1>8, <1>9
    <2>4. b <= i
        BY <1>10, <2>1, <2>2, <2>3
    <2>5. Near(spikes, b, i)
        BY <1>9, <2>2 DEF Near
    <2>6. ASSUME NEW e \in starts, e < b, Near(spikes, e, i) PROVE FALSE
        <3>1. e \in near
            BY <2>2, <2>6 DEF Near
        <3>2. b <= e /\ e \in Nat
            BY <1>8, <1>9, <3>1
        <3> QED
            BY <1>10, <2>6, <3>2
    <2> QED
        BY <1>10, <2>2, <2>4, <2>5, <2>6, MembersAre DEF starts
<1>12. c \in SUBSET (1 .. n)
    BY <1>10, MembersAre DEF starts
<1> HIDE DEF c
<1>13. Cardinality(Days(spikes, c)) >= 3 /\ Cardinality(c) >= 3
    <2>1. Days(spikes, job) \subseteq Days(spikes, c)
        BY <1>11 DEF Days
    <2>2. /\ IsFiniteSet(Days(spikes, c)) /\ Cardinality(Days(spikes, c)) \in Nat /\ Cardinality(c) \in Nat
          /\ Cardinality(Days(spikes, c)) <= Cardinality(c)
        BY <1>12, ClusterIs
    <2>3. Cardinality(Days(spikes, job)) \in Nat
        BY <1>2, ClusterIs
    <2>4. Cardinality(Days(spikes, job)) <= Cardinality(Days(spikes, c))
        BY <2>1, <2>2, FS_Subset
    <2> QED
        BY <1>4, <2>2, <2>3, <2>4
<1>14. PatternOf(spikes, k, c) \in DetectPatterns(spikes)
    BY <1>10, <1>13, PatternsAre DEF c, starts
<1>15. PatternOf(spikes, k, c).key = k /\ PatternOf(spikes, k, c).ids = c
    BY DEF PatternOf
<1> QED
    BY <1>11, <1>14, <1>15 DEF job

\* All but the last event.
LEMMA FrontIs ==
    ASSUME NEW S, NEW s \in Seq(S), s # <<>>
    PROVE  /\ Front(s) \in Seq(S) /\ Len(Front(s)) = Len(s) - 1
           /\ \A i \in 1 .. (Len(s) - 1) : Front(s)[i] = s[i]
<1> DEFINE m == Len(s) - 1
<1>1. Len(s) \in Nat /\ Len(s) # 0
    OBVIOUS
<1>2. m \in Nat /\ \A i \in 1 .. m : s[i] \in S
    BY <1>1
<1>3. Front(s) = SubSeq(s, 1, m)
    BY DEF Front
<1> HIDE DEF m
<1>4. SubSeq(s, 1, m) = [i \in 1 .. m |-> s[i]]
    BY <1>2
<1> DEFINE f == [i \in 1 .. m |-> s[i]]
<1>5. f \in Seq(S) /\ Len(f) = m /\ \A i \in 1 .. m : f[i] = s[i]
    BY <1>2
<1> QED
    BY <1>3, <1>4, <1>5 DEF m

\* The starts of a prefix are those among its events.
LEMMA BasesOfFront ==
    ASSUME NEW evs \in Seq(Events), evs # <<>>, NEW k
    PROVE  \A i \in 1 .. (Len(evs) - 1) : i \in Bases(Front(evs), k) <=> i \in Bases(evs, k)
<1> DEFINE n == Len(evs) - 1
           front == Front(evs)
           A == Bases(front, k)
           Z == Bases(evs, k)
<1>1. Len(evs) \in Nat /\ n \in Nat /\ n < Len(evs)
    <2>1. Len(evs) \in Nat /\ Len(evs) # 0
        OBVIOUS
    <2> QED
        BY <2>1
<1>2. front \in Seq(Events) /\ Len(front) = n /\ \A i \in 1 .. n : front[i] = evs[i]
    BY FrontIs
<1>3. \A i \in 1 .. n : i \in Nat /\ i \in 1 .. Len(evs)
    BY <1>1
<1> HIDE DEF n, front
<1>4. A \subseteq 1 .. n /\ \A i \in 1 .. n : i \in A <=> front[i].key = k /\ \A b \in A : b < i => ~Near(front, b, i)
    BY <1>2, BasesAre
<1>5. Z \subseteq 1 .. Len(evs) /\ \A i \in 1 .. n : i \in Z <=> evs[i].key = k /\ \A b \in Z : b < i => ~Near(evs, b, i)
    BY <1>3, BasesAre
<1>6. \A i, j \in 1 .. n : Near(front, i, j) <=> Near(evs, i, j)
    BY <1>2 DEF Near
<1> HIDE DEF A, Z
<1> DEFINE X == {i \in 1 .. n : ~(i \in A <=> i \in Z)}
<1> SUFFICES ASSUME X # {} PROVE FALSE
    BY DEF n, front, A, Z
<1>7. X \subseteq Nat
    BY <1>3
<1>8. PICK i \in X : \A j \in X : i <= j
    <2> HIDE DEF X
    <2> QED
        BY <1>7, LeastNumber
<1>9. i \in 1 .. n /\ ~(i \in A <=> i \in Z)
    OBVIOUS
<1>10. ASSUME NEW b, b \in Nat, b < i, b > 0 PROVE (b \in A <=> b \in Z) /\ b \in 1 .. n
    <2>1. b \in 1 .. n
        BY <1>1, <1>3, <1>9, <1>10
    <2>2. b \notin X
        BY <1>3, <1>8, <1>9, <1>10
    <2> QED
        BY <2>1, <2>2
<1>11. (\A b \in A : b < i => ~Near(front, b, i)) <=> (\A b \in Z : b < i => ~Near(evs, b, i))
    <2>1. \A b \in A : b \in Nat /\ b > 0
        BY <1>1, <1>4
    <2>2. \A b \in Z : b \in Nat /\ b > 0
        BY <1>1, <1>5
    <2> QED
        BY <1>6, <1>9, <1>10, <2>1, <2>2
<1>12. front[i].key = evs[i].key
    BY <1>2, <1>9
<1> QED
    BY <1>4, <1>5, <1>9, <1>11, <1>12

LEMMA PatternsGrow ==
    ASSUME spikes \in Seq(Events)
    PROVE  PatternsOnlyGrow
<1> DEFINE front == Front(spikes)
           n == Len(spikes) - 1
<1> SUFFICES ASSUME spikes # <<>>, NEW p \in DetectPatterns(front)
             PROVE  \E q \in DetectPatterns(spikes) : q.key = p.key /\ p.ids \subseteq q.ids
    BY DEF PatternsOnlyGrow
<1>1. Len(spikes) \in Nat /\ n \in Nat /\ n < Len(spikes)
    <2>1. Len(spikes) \in Nat /\ Len(spikes) # 0
        OBVIOUS
    <2> QED
        BY <2>1
<1>2. front \in Seq(Events) /\ Len(front) = n /\ \A i \in 1 .. n : front[i] = spikes[i]
    BY FrontIs
<1>3. \A i \in 1 .. n : i \in Nat /\ i \in 1 .. Len(spikes)
    BY <1>1
<1>a. \A k : \A i \in 1 .. n : i \in Bases(front, k) <=> i \in Bases(spikes, k)
    BY BasesOfFront
<1> HIDE DEF n, front
<1>4. PICK k \in Keys : \E b \in Bases(front, k) :
          LET c == Cluster(front, Bases(front, k), b)
          IN  Cardinality(c) >= 3 /\ Cardinality(Days(front, c)) >= 3 /\ p = PatternOf(front, k, c)
    BY <1>2, PatternsAre
<1>5. PICK b \in Bases(front, k) :
          LET c == Cluster(front, Bases(front, k), b)
          IN  Cardinality(c) >= 3 /\ Cardinality(Days(front, c)) >= 3 /\ p = PatternOf(front, k, c)
    BY <1>4
<1> DEFINE c == Cluster(front, Bases(front, k), b)
           d == Cluster(spikes, Bases(spikes, k), b)
<1>6. b \in 1 .. n /\ c \in SUBSET (1 .. n) /\ Bases(front, k) \subseteq 1 .. n
    BY <1>2, MembersAre, BasesAre
<1>7. b \in Bases(spikes, k)
    BY <1>a, <1>6
<1>8. d \in SUBSET (1 .. Len(spikes)) /\ Bases(spikes, k) \subseteq 1 .. Len(spikes)
    BY <1>7, MembersAre, BasesAre
<1>9. Cardinality(c) >= 3 /\ Cardinality(Days(front, c)) >= 3 /\ p.key = k /\ p.ids = c
    BY <1>5 DEF PatternOf
<1>10. \A i, j \in 1 .. n : Near(front, i, j) <=> Near(spikes, i, j)
    BY <1>2 DEF Near
<1>11. c \subseteq d
    <2> SUFFICES ASSUME NEW i \in c PROVE i \in d
        OBVIOUS
    <2>1. i \in 1 .. n /\ i \in 1 .. Len(spikes)
        BY <1>3, <1>6
    <2>2. b <= i /\ front[i].key = k /\ Near(front, b, i) /\ \A e \in Bases(front, k) : e < b => ~Near(front, e, i)
        BY <1>2, <2>1, MembersAre
    <2>3. spikes[i].key = k /\ Near(spikes, b, i)
        BY <1>2, <1>6, <1>10, <2>1, <2>2
    <2>4. ASSUME NEW e \in Bases(spikes, k), e < b PROVE ~Near(spikes, e, i)
        <3>1. e \in 1 .. n
            BY <1>1, <1>3, <1>6, <1>8, <2>4
        <3>2. e \in Bases(front, k)
            BY <1>a, <3>1
        <3> QED
            BY <1>10, <2>1, <2>2, <2>4, <3>1, <3>2
    <2> QED
        BY <1>7, <2>1, <2>2, <2>3, <2>4, MembersAre
<1> HIDE DEF c, d
<1>12. Days(front, c) \subseteq Days(spikes, d)
    <2>1. \A i \in c : i \in d /\ front[i].day = spikes[i].day
        BY <1>2, <1>6, <1>11 DEF c
    <2> QED
        BY <2>1 DEF Days
<1>13. Cardinality(d) >= 3 /\ Cardinality(Days(spikes, d)) >= 3
    <2>1. /\ IsFiniteSet(d) /\ Cardinality(d) \in Nat
          /\ IsFiniteSet(Days(spikes, d)) /\ Cardinality(Days(spikes, d)) \in Nat
        BY <1>8, ClusterIs DEF d
    <2>2. Cardinality(c) \in Nat /\ Cardinality(Days(front, c)) \in Nat
        BY <1>2, <1>6, ClusterIs DEF c
    <2>3. Cardinality(c) <= Cardinality(d) /\ Cardinality(Days(front, c)) <= Cardinality(Days(spikes, d))
        BY <1>11, <1>12, <2>1, FS_Subset
    <2> QED
        BY <1>9, <2>1, <2>2, <2>3
<1>14. PatternOf(spikes, k, d) \in DetectPatterns(spikes)
    BY <1>7, <1>13, PatternsAre DEF d
<1>15. PatternOf(spikes, k, d).key = k /\ PatternOf(spikes, k, d).ids = d
    BY DEF PatternOf
<1> QED
    BY <1>9, <1>11, <1>14, <1>15

\* recurrence.go:28-29: a pattern is events near in time of day on three days at least, a
\* job that is regular is found, and a later export keeps what was found, whatever the
\* groups, the times of day and the number of events.
THEOREM PatternsAreRight ==
    RecurrenceSpec => []PatternsHold
<1> DEFINE Typed == spikes \in Seq(Events)
<1>1. RecurrenceInit => Typed
    BY DEF RecurrenceInit
<1>2. Typed /\ [RecurrenceNext]_recurrenceVars => Typed'
    <2> SUFFICES ASSUME Typed, [RecurrenceNext]_recurrenceVars PROVE Typed'
        OBVIOUS
    <2>1. CASE RecurrenceNext
        <3>1. PICK e \in [key : Keys, day : 1 .. MaxDays, min : Minutes] : spikes' = Append(spikes, e)
            BY <2>1 DEF RecurrenceNext, NewSpike
        <3>2. e \in Events
            BY DEF Events
        <3> QED
            BY <3>1, <3>2
    <2>2. CASE UNCHANGED recurrenceVars
        BY <2>2 DEF recurrenceVars
    <2> QED
        BY <2>1, <2>2
<1>3. Typed => PatternsHold
    BY PatternsTyped, PatternsTight, JobsFound, PatternsGrow DEF PatternsHold
<1> QED
    BY <1>1, <1>2, <1>3, PTL DEF RecurrenceSpec
=============================================================================
