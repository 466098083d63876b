----------------------------- MODULE M3BatchProofs -----------------------------
(***************************************************************************)
(* Proofs about M3Batch, for any lanes, registries, ids, oracles, any      *)
(* answers of the provider, any number of invocations and kills.           *)
(*                                                                         *)
(* The argument: an accepted job plans 3 * Len(PrimaryLanes) cells, all    *)
(* different (PlanIsGood).  What an invocation knows names each cell it    *)
(* probed once (Remembers); while it runs, the directory holds just that,  *)
(* and no summary (DirectoryFollows), the sweep has probed the V1 cells in *)
(* order and the loop every cell before its cursor (LoopsFollow).  So the  *)
(* matrix is written of all the planned cells, and the summary of a        *)
(* directory that has them; the next invocation removes it last            *)
(* (SummaryGoesLast).                                                      *)
(***************************************************************************)
EXTENDS M3Batch, FiniteSetTheorems, TLAPS

IsSeq(s) == s \in Seq(Range(s))

IsAppended(t, s, x) == t = Append(s, x)

NumLanes == Len(PrimaryLanes)

Planned == PlannedCells(job.registry)

Running == pc \notin {"idle", "clearing"}

Types ==
    /\ pc \in {"idle", "clearing", "qualifying", "unqualified", "materializing", "matrix",
               "aggregating", "summarizing", "scanning"}
    /\ runs \in Nat
    /\ job \in GoodJobs \/ (pc = "idle" /\ documents = <<>> /\ qualified = {})
    /\ lanesTried \in 0 .. NumLanes
    /\ cursor \in 1 .. 3 * NumLanes + 1
    /\ IsSeq(executed) /\ IsSeq(documents)
    /\ disk = [probes |-> disk.probes, qualification |-> disk.qualification,
               qualifiedFile |-> disk.qualifiedFile, staging |-> disk.staging,
               matrix |-> disk.matrix, summary |-> disk.summary]

\* What the invocation remembers, killed or not.
Remembers ==
    /\ Len(executed) = Len(documents)
    /\ \A i \in DOMAIN documents :
        /\ executed[i] = CellOf(documents[i])
        /\ executed[i] \in Range(Planned)
        /\ ProbeMatches(documents[i], job.registry, FALSE)
        /\ documents[i].answer \in Answers
        /\ pc # "idle" => documents[i].commit = runs
    /\ IsInjective(executed)
    /\ \A d \in qualified :
        d \in Range(documents) /\ Qualifies(d, job.registry, QUALIFICATION_CASE)
    /\ (\E i \in DOMAIN executed : executed[i].class # QUALIFICATION_CASE) => qualified # {}

\* Where the two loops are.
LoopsFollow ==
    /\ pc = "clearing" => documents = <<>> /\ lanesTried = 0 /\ cursor = 1
    /\ pc \in {"qualifying", "unqualified", "materializing"} =>
        /\ Len(documents) = lanesTried /\ cursor = 1
        /\ \A i \in DOMAIN executed :
            executed[i] = [class |-> QUALIFICATION_CASE, lane |-> PrimaryLanes[i]]
    /\ pc = "qualifying" => lanesTried < NumLanes
    /\ pc \in {"materializing", "matrix", "aggregating", "summarizing"} => qualified # {}
    /\ pc = "matrix" => cursor <= 3 * NumLanes
    /\ pc = "matrix" => \A k \in 1 .. cursor - 1 : Planned[k] \in Range(executed)
    /\ pc \in {"aggregating", "summarizing"} =>
        \A k \in DOMAIN Planned : Planned[k] \in Range(executed)

ToClear == <<"probes", "qualification", "aggregate", "staging", "summary">>

\* The directory while an invocation clears it, and while it runs.
DirectoryFollows ==
    /\ pc = "clearing" /\ toClear # ToClear => disk.probes = {}
    /\ Running => disk.probes = Range(documents)
    /\ Running /\ pc # "scanning" => disk.summary = NoSummary
    /\ pc \in {"matrix", "aggregating"} => disk.staging = qualified
    /\ pc \in {"matrix", "aggregating", "summarizing"} => disk.qualifiedFile = qualified
    /\ pc = "summarizing" => disk.matrix = Aggregate(job.registry, Range(documents))

SummaryGoesLast ==
    /\ toClear \in {<<>>, <<"summary">>, <<"staging", "summary">>,
                    <<"aggregate", "staging", "summary">>,
                    <<"qualification", "aggregate", "staging", "summary">>, ToClear}
    /\ Running => toClear = <<>>
    /\ pc = "clearing" => toClear # <<>>

IInv ==
    /\ Types
    /\ Remembers
    /\ LoopsFollow
    /\ DirectoryFollows
    /\ SummaryGoesLast
    /\ CompleteSummaryIsBacked

-------------------------------------------------------------------------------
(* Lemmas about sequences and division *)

\* What Append() does, for a sequence of anything.
LEMMA Appended ==
    ASSUME NEW s, NEW x, NEW t, IsSeq(s), IsAppended(t, s, x)
    PROVE  /\ IsSeq(t)
           /\ Len(s) \in Nat /\ Len(t) = Len(s) + 1
           /\ DOMAIN s = 1 .. Len(s) /\ DOMAIN t = 1 .. Len(t)
           /\ \A i \in DOMAIN s : t[i] = s[i]
           /\ t[Len(s) + 1] = x
           /\ Range(t) = Range(s) \union {x}
<1>1. s \in Seq(Range(s)) /\ t = Append(s, x)
  BY DEF IsSeq, IsAppended
<1>2. t \in Seq(Range(s) \union {x})
  BY <1>1
<1>3. /\ Len(s) \in Nat /\ DOMAIN s = 1 .. Len(s)
      /\ Len(t) = Len(s) + 1 /\ DOMAIN t = 1 .. Len(t)
  BY <1>1, <1>2
<1>4. \A i \in DOMAIN s : t[i] = s[i]
  BY <1>1, <1>3
<1>5. t[Len(s) + 1] = x
  BY <1>1, <1>3
<1>6. Range(t) = Range(s) \union {x}
  BY <1>3, <1>4, <1>5 DEF Range
<1>7. t \in Seq(Range(t))
  BY <1>2, <1>6
<1>. QED
  BY <1>3, <1>4, <1>5, <1>6, <1>7 DEF IsSeq

\* A sequence without repetitions has as many elements as positions.
LEMMA RangeOfInjective ==
    ASSUME NEW s, IsSeq(s), IsInjective(s)
    PROVE  IsFiniteSet(Range(s)) /\ Cardinality(Range(s)) = Len(s)
<1>1. Len(s) \in Nat /\ s \in [1 .. Len(s) -> Range(s)]
  BY DEF IsSeq
<1>2. s \in Bijection(1 .. Len(s), Range(s))
  BY <1>1 DEF Bijection, Injection, Surjection, IsInjective, Range
<1>3. IsFiniteSet(1 .. Len(s)) /\ Cardinality(1 .. Len(s)) = Len(s)
  <2>1. \A n \in Nat : IsFiniteSet(1 .. n) /\ Cardinality(1 .. n) = n
    BY FS_Interval
  <2>. QED
    BY <1>1, <2>1
<1>. QED
  BY <1>2, <1>3, FS_Bijection DEF ExistsBijection

\* An index is told apart by its quotient and its remainder.
LEMMA Division ==
    ASSUME NEW n \in Nat \ {0}, NEW m \in Nat, m < 3 * n
    PROVE  /\ m \div n \in 0 .. 2
           /\ m % n \in 0 .. n - 1
           /\ m = n * (m \div n) + (m % n)
<1>1. m = n * (m \div n) + (m % n) /\ m % n \in 0 .. n - 1 /\ m \div n \in Int
  OBVIOUS
<1>2. m \div n \in 0 .. 2
  BY <1>1
<1>. QED
  BY <1>1, <1>2

\* The second turn of a lane, among the turns of all lanes.
LEMMA SecondTurn ==
    ASSUME NEW n \in Nat \ {0}, NEW k \in 0 .. n - 1
    PROVE  (n + k) \div n = 1 /\ (n + k) % n = k
OBVIOUS

-------------------------------------------------------------------------------
(* The plan of an accepted job *)

\* An accepted job has the plan of its registry, which is the frozen one.
LEMMA JobFacts ==
    ASSUME NEW j \in GoodJobs
    PROVE  /\ j.registry \in Registries
           /\ RegistryOk(j.registry)
           /\ j.plan = BuildPlan(j.registry)
           /\ PreflightOk(j)
           /\ j.plan.orderedLanes = PrimaryLanes
           /\ DOMAIN j.registry.cases = 1 .. 3
           /\ \A i \in 1 .. 3 : j.registry.cases[i].class = CaseClasses[i]
<1>1. JobOk(j) /\ j.registry \in Registries
  BY DEF GoodJobs, Jobs
<1>2. RegistryOk(j.registry) /\ j.plan = BuildPlan(j.registry) /\ PreflightOk(j)
  BY <1>1 DEF JobOk, PlanOk
<1>3. j.plan.orderedLanes = PrimaryLanes
  BY <1>2 DEF PreflightOk, RegistryOk
<1>4. DOMAIN j.registry.cases = 1 .. 3
  <2>1. j.registry.cases \in Seq(Range(j.registry.cases))
    BY <1>1, BatchAssumption
  <2>2. Len(j.registry.cases) = 3
    BY <1>2 DEF RegistryOk
  <2>. QED
    BY <2>1, <2>2
<1>. QED
  BY <1>1, <1>2, <1>3, <1>4 DEF RegistryOk

\* There is a lane, and lanes are numbered.
LEMMA LanesAreSome == NumLanes \in Nat \ {0} /\ DOMAIN PrimaryLanes = 1 .. NumLanes
BY MatrixAssumption DEF NumLanes

\* Its cells, at their places: case by case, lane by lane.
LEMMA CellsOfJob ==
    ASSUME NEW j \in GoodJobs, NEW cells, cells = PlannedCells(j.registry)
    PROVE  /\ DOMAIN cells = 1 .. 3 * NumLanes
           /\ DOMAIN j.plan.cells = 1 .. 3 * NumLanes
           /\ Len(j.plan.cells) = 3 * NumLanes
           /\ \A i \in 1 .. 3 * NumLanes :
                /\ CellOf(j.plan.cells[i]) = cells[i]
                /\ cells[i].class = CaseClasses[((i - 1) \div NumLanes) + 1]
                /\ cells[i].lane = PrimaryLanes[((i - 1) % NumLanes) + 1]
                /\ cells[i] = [class |-> cells[i].class, lane |-> cells[i].lane]
                /\ j.plan.cells[i].fingerprint = CaseOf(j.registry, cells[i].class).fingerprint
<1>. DEFINE r == j.registry
<1>1. r.primaryLanes = PrimaryLanes /\ Len(r.cases) = 3
  BY JobFacts DEF RegistryOk
<1>2. cells = [i \in 1 .. 3 * NumLanes |->
                [class |-> r.cases[((i - 1) \div NumLanes) + 1].class,
                 lane |-> PrimaryLanes[((i - 1) % NumLanes) + 1]]]
  BY <1>1 DEF PlannedCells, NumLanes
<1>3. Len(j.plan.cells) = 3 * NumLanes
  BY JobFacts DEF PreflightOk, NumLanes
<1>4. j.plan.cells = [i \in DOMAIN cells |->
                        [class |-> cells[i].class, lane |-> cells[i].lane,
                         revision |-> CaseOf(r, cells[i].class).revision,
                         fingerprint |-> CaseOf(r, cells[i].class).fingerprint]]
  <2>1. j.plan = BuildPlan(r)
    BY JobFacts
  <2>. QED
    BY <2>1 DEF BuildPlan
<1>5. ASSUME NEW i \in 1 .. 3 * NumLanes
      PROVE  /\ cells[i].class = CaseClasses[((i - 1) \div NumLanes) + 1]
             /\ cells[i].lane = PrimaryLanes[((i - 1) % NumLanes) + 1]
             /\ cells[i] = [class |-> cells[i].class, lane |-> cells[i].lane]
  <2>1. ((i - 1) \div NumLanes) + 1 \in 1 .. 3
    <3>1. i - 1 \in Nat /\ i - 1 < 3 * NumLanes
      BY LanesAreSome
    <3>2. (i - 1) \div NumLanes \in 0 .. 2
      BY <3>1, LanesAreSome, Division, Zenon
    <3>. QED
      BY <3>2
  <2>2. r.cases[((i - 1) \div NumLanes) + 1].class = CaseClasses[((i - 1) \div NumLanes) + 1]
    BY <2>1, JobFacts
  <2>. QED
    BY <1>2, <2>2
<1>6. ASSUME NEW i \in 1 .. 3 * NumLanes
      PROVE  /\ CellOf(j.plan.cells[i]) = cells[i]
             /\ j.plan.cells[i].fingerprint = CaseOf(r, cells[i].class).fingerprint
  <2>1. j.plan.cells[i] = [class |-> cells[i].class, lane |-> cells[i].lane,
                           revision |-> CaseOf(r, cells[i].class).revision,
                           fingerprint |-> CaseOf(r, cells[i].class).fingerprint]
    BY <1>2, <1>4
  <2>. QED
    BY <2>1, <1>5 DEF CellOf
<1>. QED
  BY <1>2, <1>3, <1>4, <1>5, <1>6

\* The V1 cell of a lane is where the second case's turn comes for it.
LEMMA QualificationCells ==
    ASSUME NEW j \in GoodJobs, NEW k \in 1 .. NumLanes
    PROVE  /\ NumLanes + k \in 1 .. 3 * NumLanes
           /\ CellOf(j.plan.cells[NumLanes + k]) =
                    [class |-> QUALIFICATION_CASE, lane |-> PrimaryLanes[k]]
<1>1. NumLanes + k \in 1 .. 3 * NumLanes
  BY LanesAreSome
<1>2. (NumLanes + k) - 1 = NumLanes + (k - 1) /\ k - 1 \in 0 .. NumLanes - 1
  BY LanesAreSome
<1>3. ((NumLanes + k) - 1) \div NumLanes = 1 /\ ((NumLanes + k) - 1) % NumLanes = k - 1
  BY <1>2, LanesAreSome, SecondTurn
<1>4. PICK cells : cells = PlannedCells(j.registry)
  OBVIOUS
<1>5. /\ cells[NumLanes + k].class = CaseClasses[1 + 1]
      /\ cells[NumLanes + k].lane = PrimaryLanes[(k - 1) + 1]
      /\ cells[NumLanes + k] = [class |-> cells[NumLanes + k].class,
                                lane |-> cells[NumLanes + k].lane]
      /\ CellOf(j.plan.cells[NumLanes + k]) = cells[NumLanes + k]
  BY <1>1, <1>3, <1>4, CellsOfJob
<1>. QED
  BY <1>1, <1>5 DEF CaseClasses, QUALIFICATION_CASE

\* Preflight finds each lane once among the V1 cells, so that the lanes differ.
LEMMA LanesDiffer ==
    ASSUME NEW j \in GoodJobs,
           NEW k \in 1 .. NumLanes, NEW l \in 1 .. NumLanes, PrimaryLanes[k] = PrimaryLanes[l]
    PROVE  k = l
<1>. DEFINE S == {i \in DOMAIN j.plan.cells :
                    /\ j.plan.cells[i].class = QUALIFICATION_CASE
                    /\ j.plan.cells[i].lane = PrimaryLanes[k]}
<1>1. Cardinality(S) = 1
  <2>1. PrimaryLanes[k] \in Range(j.plan.orderedLanes)
    BY LanesAreSome, JobFacts DEF Range
  <2>. QED
    BY <2>1, JobFacts DEF PreflightOk
<1>2. IsFiniteSet(S)
  <2>1. S \subseteq 1 .. 3 * NumLanes
    BY CellsOfJob
  <2>2. IsFiniteSet(1 .. 3 * NumLanes)
    BY LanesAreSome, FS_Interval
  <2>. QED
    BY <2>1, <2>2, FS_Subset
<1>3. NumLanes + k \in S /\ NumLanes + l \in S
  BY QualificationCells, CellsOfJob DEF CellOf
<1>. HIDE DEF S
<1>4. NumLanes + k = NumLanes + l
  BY <1>1, <1>2, <1>3, FS_Singleton
<1>. QED
  BY <1>4, LanesAreSome

\* Preflight finds each lane once among the V1 cells, so that no cell is planned twice.
LEMMA PlanIsInjective ==
    ASSUME NEW j \in GoodJobs, NEW cells, cells = PlannedCells(j.registry),
           NEW a \in 1 .. 3 * NumLanes, NEW b \in 1 .. 3 * NumLanes, cells[a] = cells[b]
    PROVE  a = b
<1>. DEFINE Quot(i) == (i - 1) \div NumLanes
            Rem(i) == (i - 1) % NumLanes
<1>1. \A i \in 1 .. 3 * NumLanes :
        /\ Quot(i) \in 0 .. 2 /\ Rem(i) \in 0 .. NumLanes - 1
        /\ i - 1 = NumLanes * Quot(i) + Rem(i)
  <2>1. \A i \in 1 .. 3 * NumLanes : i - 1 \in Nat /\ i - 1 < 3 * NumLanes
    BY LanesAreSome
  <2>. QED
    BY <2>1, LanesAreSome, Division, Zenon
<1>2. \A i \in 1 .. 3 * NumLanes :
        /\ cells[i].class = CaseClasses[Quot(i) + 1]
        /\ cells[i].lane = PrimaryLanes[Rem(i) + 1]
  BY CellsOfJob
<1>. HIDE DEF Quot, Rem
<1>3. Quot(a) = Quot(b)
  BY <1>1, <1>2 DEF CaseClasses
<1>4. \A k, l \in 1 .. NumLanes : PrimaryLanes[k] = PrimaryLanes[l] => k = l
  BY LanesDiffer
<1>5. Rem(a) = Rem(b)
  <2>1. Rem(a) + 1 \in 1 .. NumLanes /\ Rem(b) + 1 \in 1 .. NumLanes
    BY <1>1, LanesAreSome
  <2>2. Rem(a) + 1 = Rem(b) + 1
    BY <2>1, <1>2, <1>4
  <2>. QED
    BY <2>2, <1>1, LanesAreSome
<1>. QED
  BY <1>1, <1>3, <1>5

-------------------------------------------------------------------------------
(* Steps of an invocation that keep a cell *)

\* The sweep asks about the V1 cell of the next lane.
LEMMA NextLane ==
    ASSUME job \in GoodJobs, lanesTried \in 0 .. NumLanes, lanesTried < NumLanes
    PROVE  \E i \in 1 .. 3 * NumLanes :
            /\ QualificationCell = job.plan.cells[i]
            /\ CellOf(job.plan.cells[i]) =
                    [class |-> QUALIFICATION_CASE, lane |-> PrimaryLanes[lanesTried + 1]]
<1>. DEFINE S == {i \in DOMAIN job.plan.cells :
                    /\ job.plan.cells[i].class = QUALIFICATION_CASE
                    /\ job.plan.cells[i].lane = PrimaryLanes[lanesTried + 1]}
<1>1. lanesTried + 1 \in 1 .. NumLanes /\ DOMAIN job.plan.cells = 1 .. 3 * NumLanes
  BY LanesAreSome, CellsOfJob
<1>2. NumLanes + (lanesTried + 1) \in S
  BY <1>1, QualificationCells DEF CellOf
<1>3. QualificationCell = job.plan.cells[CHOOSE i \in S : TRUE]
  <2>1. QualificationCell =
            job.plan.cells[CHOOSE i \in DOMAIN job.plan.cells :
                job.plan.cells[i].class = QUALIFICATION_CASE
                /\ job.plan.cells[i].lane = PrimaryLanes[lanesTried + 1]]
    BY JobFacts DEF QualificationCell
  <2>2. (CHOOSE i \in DOMAIN job.plan.cells :
                job.plan.cells[i].class = QUALIFICATION_CASE
                /\ job.plan.cells[i].lane = PrimaryLanes[lanesTried + 1])
        = (CHOOSE i \in S : TRUE)
    OBVIOUS
  <2>. QED
    BY <2>1, <2>2
<1>4. (CHOOSE i \in S : TRUE) \in S
  BY <1>2
<1>. QED
  BY <1>1, <1>3, <1>4 DEF CellOf

\* keys and docs are what was executed and documented so far, and d for the cell key.
Kept(keys, docs, key, d) ==
    /\ IsSeq(keys) /\ IsSeq(docs)
    /\ Len(documents) \in Nat /\ Len(docs) = Len(documents) + 1 /\ Len(keys) = Len(docs)
    /\ DOMAIN docs = 1 .. Len(docs) /\ DOMAIN keys = 1 .. Len(docs)
    /\ DOMAIN executed = 1 .. Len(documents)
    /\ keys[Len(docs)] = key
    /\ \A k \in DOMAIN executed : keys[k] = executed[k]
    /\ \A k \in DOMAIN docs :
        /\ keys[k] = CellOf(docs[k])
        /\ keys[k] \in Range(Planned)
        /\ ProbeMatches(docs[k], job.registry, FALSE)
        /\ docs[k].answer \in Answers /\ docs[k].commit = runs
    /\ IsInjective(keys)
    /\ Range(docs) = Range(documents) \union {d}
    /\ Range(keys) = Range(executed) \union {key}

\* What a cell that fits leaves behind, when none like it was probed.
LEMMA CellKept ==
    ASSUME Types, Remembers, pc # "idle", job \in GoodJobs,
           NEW i \in 1 .. 3 * NumLanes, NEW cell, cell = job.plan.cells[i],
           NEW answer \in Answers, NEW d, d = Artifact(cell, answer), Fits(d, cell),
           CellOf(cell) \notin Range(executed),
           NEW keys, keys = Append(executed, CellOf(cell)),
           NEW docs, docs = Append(documents, d)
    PROVE  Kept(keys, docs, CellOf(cell), d)
<1>0. IsAppended(keys, executed, CellOf(cell)) /\ IsAppended(docs, documents, d)
  BY DEF IsAppended
<1>1. /\ IsSeq(keys) /\ Len(keys) = Len(executed) + 1
      /\ DOMAIN executed = 1 .. Len(executed) /\ DOMAIN keys = 1 .. Len(keys)
      /\ \A k \in DOMAIN executed : keys[k] = executed[k]
      /\ keys[Len(executed) + 1] = CellOf(cell)
      /\ Range(keys) = Range(executed) \union {CellOf(cell)}
  <2>1. IsSeq(executed)
    BY DEF Types
  <2>. QED
    BY ONLY <2>1, <1>0, Appended
<1>2. /\ IsSeq(docs) /\ Len(docs) = Len(documents) + 1
      /\ DOMAIN documents = 1 .. Len(documents) /\ DOMAIN docs = 1 .. Len(docs)
      /\ \A k \in DOMAIN documents : docs[k] = documents[k]
      /\ docs[Len(documents) + 1] = d
      /\ Range(docs) = Range(documents) \union {d}
  <2>1. IsSeq(documents)
    BY DEF Types
  <2>. QED
    BY ONLY <2>1, <1>0, Appended
<1>3. Len(executed) = Len(documents) /\ Len(documents) \in Nat
  BY Appended, <1>0 DEF Remembers, Types
<1>4. CellOf(d) = CellOf(cell)
  BY DEF Artifact, CellOf
<1>5. CellOf(cell) \in Range(Planned)
  <2>1. i \in DOMAIN Planned /\ CellOf(cell) = Planned[i]
    BY ONLY job \in GoodJobs, i \in 1 .. 3 * NumLanes, cell = job.plan.cells[i], CellsOfJob
       DEF Planned
  <2>. QED
    BY <2>1 DEF Range
<1>6. ProbeMatches(d, job.registry, FALSE) /\ d.answer \in Answers /\ d.commit = runs
  BY DEF Fits, Artifact
<1>7. ASSUME NEW k \in DOMAIN docs
      PROVE  /\ keys[k] = CellOf(docs[k]) /\ keys[k] \in Range(Planned)
             /\ ProbeMatches(docs[k], job.registry, FALSE)
             /\ docs[k].answer \in Answers /\ docs[k].commit = runs
  <2>1. CASE k \in DOMAIN documents
    BY <2>1, <1>1, <1>2, <1>3 DEF Remembers
  <2>2. CASE k = Len(documents) + 1
    BY <2>2, <1>1, <1>2, <1>3, <1>4, <1>5, <1>6
  <2>3. k \in DOMAIN documents \/ k = Len(documents) + 1
    BY <1>2, <1>3
  <2>. QED
    BY <2>1, <2>2, <2>3
<1>8. IsInjective(keys)
  <2>1. ASSUME NEW a \in DOMAIN keys, NEW b \in DOMAIN keys, keys[a] = keys[b]
        PROVE  a = b
    <3>1. \A k \in DOMAIN executed : keys[k] # CellOf(cell)
      BY <1>1 DEF Range
    <3>2. IsInjective(executed)
      BY DEF Remembers
    <3>. QED
      BY <2>1, <3>1, <3>2, <1>1, <1>3 DEF IsInjective
  <2>. QED
    BY <2>1 DEF IsInjective
<1>. QED
  BY <1>1, <1>2, <1>3, <1>7, <1>8 DEF Kept

\* A step of the sweep probes the next lane's V1 cell, and goes on as it qualifies or not.
LEMMA SweepStep ==
    ASSUME IInv, QualifyLane
    PROVE  /\ pc = "qualifying" /\ job \in GoodJobs /\ lanesTried' = lanesTried + 1
           /\ UNCHANGED <<runs, exit, job, cursor, toClear, foreign>>
           /\ \E d :
                /\ Kept(executed', documents',
                        [class |-> QUALIFICATION_CASE, lane |-> PrimaryLanes[lanesTried + 1]], d)
                /\ disk' = [disk EXCEPT !.probes = @ \union {d}, !.qualification = @ \union {d}]
                /\ \/ /\ qualified' = {} /\ pc' \in {"qualifying", "unqualified"}
                      /\ pc' = "qualifying" => lanesTried + 1 # NumLanes
                   \/ /\ qualified' = {d} /\ pc' = "materializing"
                      /\ Qualifies(d, job.registry, QUALIFICATION_CASE)
<1>. DEFINE key == [class |-> QUALIFICATION_CASE, lane |-> PrimaryLanes[lanesTried + 1]]
<1>1. /\ pc = "qualifying" /\ job \in GoodJobs /\ lanesTried \in 0 .. NumLanes
      /\ lanesTried < NumLanes /\ Len(documents) = lanesTried
      /\ \A i \in DOMAIN executed :
            executed[i] = [class |-> QUALIFICATION_CASE, lane |-> PrimaryLanes[i]]
  BY DEF QualifyLane, IInv, Types, LoopsFollow
<1>2. PICK i \in 1 .. 3 * NumLanes :
        QualificationCell = job.plan.cells[i] /\ CellOf(job.plan.cells[i]) = key
  BY <1>1, NextLane
<1>3. key \notin Range(executed)
  <2>1. ASSUME NEW k \in DOMAIN executed, executed[k] = key
        PROVE  FALSE
    <3>1. k \in 1 .. lanesTried
      BY <1>1 DEF IInv, Types, Remembers, IsSeq
    <3>2. PrimaryLanes[k] = PrimaryLanes[lanesTried + 1]
      BY <1>1, <2>1
    <3>3. k \in 1 .. NumLanes /\ lanesTried + 1 \in 1 .. NumLanes
      BY <1>1, <3>1, LanesAreSome
    <3>4. k = lanesTried + 1
      BY ONLY <1>1, <3>2, <3>3, LanesDiffer
    <3>. QED
      BY <3>1, <3>4, <1>1
  <2>. QED
    BY <2>1 DEF Range
<1>4. PICK answer \in Answers :
        LET cell == QualificationCell
            d == Artifact(cell, answer)
            accepted == Qualifies(d, job.registry, QUALIFICATION_CASE)
        IN  /\ Fits(d, cell)
            /\ Keeps(cell, d)
            /\ disk' = [disk EXCEPT !.probes = @ \union {d}, !.qualification = @ \union {d}]
            /\ lanesTried' = lanesTried + 1
            /\ qualified' = IF accepted THEN {d} ELSE {}
            /\ pc' = IF accepted THEN "materializing"
                     ELSE IF lanesTried + 1 = Len(job.plan.orderedLanes) THEN "unqualified"
                     ELSE pc
  BY DEF QualifyLane
<1>5. PICK d : d = Artifact(QualificationCell, answer)
  OBVIOUS
<1>6. Kept(executed', documents', key, d)
  <2>1. /\ Types /\ Remembers /\ pc # "idle" /\ Fits(d, QualificationCell)
        /\ executed' = Append(executed, CellOf(QualificationCell))
        /\ documents' = Append(documents, d)
    BY <1>1, <1>4, <1>5 DEF IInv, Keeps
  <2>2. PICK cell, keys, docs :
            cell = QualificationCell /\ keys = executed' /\ docs = documents'
    OBVIOUS
  <2>3. Kept(keys, docs, CellOf(cell), d)
    BY ONLY <1>1, <1>2, <1>3, <1>5, <2>1, <2>2, CellKept
  <2>. QED
    BY <2>2, <2>3, <1>2
<1>7. Len(job.plan.orderedLanes) = NumLanes
  BY <1>1, JobFacts DEF NumLanes
<1>8. /\ UNCHANGED <<runs, exit, job, cursor, toClear, foreign>> /\ lanesTried' = lanesTried + 1
      /\ disk' = [disk EXCEPT !.probes = @ \union {d}, !.qualification = @ \union {d}]
  BY <1>4, <1>5 DEF QualifyLane
<1>9. \/ /\ qualified' = {} /\ pc' \in {"qualifying", "unqualified"}
         /\ pc' = "qualifying" => lanesTried + 1 # NumLanes
      \/ /\ qualified' = {d} /\ pc' = "materializing"
         /\ Qualifies(d, job.registry, QUALIFICATION_CASE)
  BY <1>1, <1>4, <1>5, <1>7
<1>. QED
  BY <1>1, <1>6, <1>8, <1>9

\* A step of the loop that probes the cell at the cursor.
LEMMA LoopStep ==
    ASSUME IInv, MatrixCell
    PROVE  /\ pc = "matrix" /\ job \in GoodJobs
           /\ \E d : /\ Kept(executed', documents', Planned[cursor], d)
                     /\ disk' = [disk EXCEPT !.probes = @ \union {d}]
<1>1. /\ pc = "matrix" /\ job \in GoodJobs /\ cursor \in 1 .. 3 * NumLanes
      /\ ~Executed(job.plan.cells[cursor])
  BY LanesAreSome DEF MatrixCell, IInv, Types, LoopsFollow
<1>2. CellOf(job.plan.cells[cursor]) = Planned[cursor]
  BY ONLY <1>1, CellsOfJob DEF Planned
<1>3. PICK answer \in Answers :
        LET cell == job.plan.cells[cursor]
            d == Artifact(cell, answer)
        IN  /\ Fits(d, cell)
            /\ Keeps(cell, d)
            /\ disk' = [disk EXCEPT !.probes = @ \union {d}]
  BY DEF MatrixCell
<1>4. PICK cell, d, keys, docs :
        /\ cell = job.plan.cells[cursor] /\ d = Artifact(cell, answer)
        /\ keys = executed' /\ docs = documents'
  OBVIOUS
<1>5. /\ Types /\ Remembers /\ pc # "idle" /\ Fits(d, cell)
      /\ keys = Append(executed, CellOf(cell)) /\ docs = Append(documents, d)
      /\ CellOf(cell) \notin Range(executed)
  BY <1>1, <1>3, <1>4 DEF IInv, Keeps, Executed
<1>6. Kept(keys, docs, CellOf(cell), d)
  BY ONLY <1>1, <1>4, <1>5, CellKept
<1>. QED
  BY <1>1, <1>2, <1>3, <1>4, <1>6

-------------------------------------------------------------------------------
(* Every step keeps the invariant *)

\* What the loop does with its cursor.
LEMMA CursorMoves ==
    ASSUME IInv, pc = "matrix", job \in GoodJobs, Advance
    PROVE  /\ cursor \in 1 .. 3 * NumLanes /\ cursor' = cursor + 1
           /\ cursor' \in 1 .. 3 * NumLanes + 1
           /\ \/ pc' = "aggregating" /\ cursor = 3 * NumLanes
              \/ pc' = "matrix" /\ cursor' <= 3 * NumLanes
<1>1. Len(job.plan.cells) = 3 * NumLanes
  BY CellsOfJob
<1>2. cursor \in 1 .. 3 * NumLanes
  BY LanesAreSome DEF IInv, Types, LoopsFollow
<1>. QED
  BY <1>1, <1>2, LanesAreSome DEF Advance

\* No step takes a variable out of its type.
LEMMA TypesStep ==
    ASSUME IInv, Next
    PROVE  Types'
<1>. USE LanesAreSome DEF IInv, Types, memory, vars, Ends, IsSeq
<1>1. CASE StartRefused
  BY <1>1 DEF StartRefused
<1>2. CASE Start
  <2>1. /\ job' \in GoodJobs /\ executed' = <<>> /\ documents' = <<>>
        /\ <<>> \in Seq(Range(<<>>))
    BY <1>2 DEF Start
  <2>. QED
    BY <2>1, <1>2 DEF Start
<1>3. CASE Clear
  BY <1>3 DEF Clear, Cleared
<1>4. CASE QualifyLane
  <2>1. lanesTried < NumLanes
    BY <1>4 DEF QualifyLane, LoopsFollow
  <2>2. IsSeq(executed') /\ IsSeq(documents')
    BY <1>4, SweepStep DEF Kept
  <2>3. /\ job \in GoodJobs /\ lanesTried' = lanesTried + 1 /\ UNCHANGED <<runs, job, cursor>>
        /\ pc' \in {"qualifying", "unqualified", "materializing"}
    BY <1>4, SweepStep
  <2>4. PICK d : disk' = [disk EXCEPT !.probes = @ \union {d}, !.qualification = @ \union {d}]
    BY <1>4, SweepStep
  <2>5. disk' = [probes |-> disk'.probes, qualification |-> disk'.qualification,
                 qualifiedFile |-> disk'.qualifiedFile, staging |-> disk'.staging,
                 matrix |-> disk'.matrix, summary |-> disk'.summary]
    BY <2>4
  <2>6. lanesTried' \in 0 .. NumLanes
    BY <2>1, <2>3
  <2>. QED
    BY <2>2, <2>3, <2>5, <2>6
<1>5. CASE QualifyLaneFails
  BY <1>5 DEF QualifyLaneFails, RunCellFails
<1>6. CASE NotQualified
  BY <1>6 DEF NotQualified
<1>7. CASE Materialize
  BY <1>7 DEF Materialize
<1>8. CASE SkipExecutedCell
  BY <1>8, CursorMoves DEF SkipExecutedCell
<1>9. CASE MatrixCell
  <2>1. IsSeq(executed') /\ IsSeq(documents')
    BY <1>9, LoopStep DEF Kept
  <2>2. Advance /\ UNCHANGED <<runs, exit, job, lanesTried, qualified, toClear, foreign>>
    BY <1>9 DEF MatrixCell
  <2>. QED
    BY <2>1, <2>2, <1>9, LoopStep, CursorMoves
<1>10. CASE MatrixCellFails
  BY <1>10 DEF MatrixCellFails, RunCellFails
<1>11. CASE WriteMatrix
  BY <1>11 DEF WriteMatrix
<1>12. CASE WriteSummary
  BY <1>12 DEF WriteSummary
<1>13. CASE Scan
  BY <1>13 DEF Scan
<1>14. CASE Kill
  BY <1>14 DEF Kill
<1>. QED
  BY <1>1, <1>2, <1>3, <1>4, <1>5, <1>6, <1>7, <1>8, <1>9, <1>10, <1>11, <1>12, <1>13,
     <1>14 DEF Next

\* Steps that leave what the invocation remembers, and do not begin one.
LEMMA RemembersKept ==
    ASSUME IInv, UNCHANGED memory, pc' # "idle" => pc # "idle" /\ UNCHANGED runs
    PROVE  Remembers'
<1>1. UNCHANGED <<job, qualified, executed, documents>>
  BY DEF memory
<1>. QED
  BY <1>1 DEF IInv, Remembers, Planned

\* No step loses what the invocation remembers.
LEMMA RemembersStep ==
    ASSUME IInv, Next
    PROVE  Remembers'
<1>1. CASE StartRefused
  BY <1>1, RemembersKept DEF StartRefused, Ends
<1>2. CASE Start
  BY <1>2 DEF Start, Remembers, IsInjective
<1>3. CASE Clear
  BY <1>3, RemembersKept DEF Clear
<1>4. CASE QualifyLane
  <2>1. PICK d :
            /\ Kept(executed', documents',
                    [class |-> QUALIFICATION_CASE, lane |-> PrimaryLanes[lanesTried + 1]], d)
            /\ qualified' = {} \/ (qualified' = {d}
                                   /\ Qualifies(d, job.registry, QUALIFICATION_CASE))
    BY <1>4, SweepStep
  <2>2. UNCHANGED <<job, runs>> /\ pc = "qualifying"
    BY <1>4, SweepStep
  <2>3. Planned' = Planned
    BY <2>2 DEF Planned
  <2>4. \A k \in DOMAIN executed' : executed'[k].class = QUALIFICATION_CASE
    <3>1. \A k \in DOMAIN executed : executed'[k].class = QUALIFICATION_CASE
      BY <2>1, <2>2 DEF Kept, IInv, LoopsFollow
    <3>2. executed'[Len(documents')].class = QUALIFICATION_CASE
      BY <2>1 DEF Kept
    <3>3. \A k \in DOMAIN executed' : k \in DOMAIN executed \/ k = Len(documents')
      BY <2>1 DEF Kept
    <3>. QED
      BY <3>1, <3>2, <3>3
  <2>. QED
    BY <2>1, <2>2, <2>3, <2>4 DEF Kept, Remembers
<1>5. CASE QualifyLaneFails
  BY <1>5, RemembersKept DEF QualifyLaneFails, RunCellFails, Ends
<1>6. CASE NotQualified
  BY <1>6, RemembersKept DEF NotQualified, Ends
<1>7. CASE Materialize
  BY <1>7, RemembersKept DEF Materialize
<1>8. CASE SkipExecutedCell
  BY <1>8 DEF SkipExecutedCell, IInv, Remembers, Planned
<1>9. CASE MatrixCell
  <2>1. PICK d : Kept(executed', documents', Planned[cursor], d)
    BY <1>9, LoopStep
  <2>2. UNCHANGED <<job, runs, qualified>> /\ qualified # {}
    BY <1>9 DEF MatrixCell, IInv, LoopsFollow
  <2>3. Planned' = Planned
    BY <2>2 DEF Planned
  <2>4. \A e \in qualified :
            e \in Range(documents') /\ Qualifies(e, job.registry, QUALIFICATION_CASE)
    BY <2>1 DEF Kept, IInv, Remembers
  <2>. QED
    BY <2>1, <2>2, <2>3, <2>4 DEF Kept, Remembers
<1>10. CASE MatrixCellFails
  BY <1>10, RemembersKept DEF MatrixCellFails, RunCellFails, Ends
<1>11. CASE WriteMatrix
  BY <1>11, RemembersKept DEF WriteMatrix
<1>12. CASE WriteSummary
  BY <1>12, RemembersKept DEF WriteSummary
<1>13. CASE Scan
  BY <1>13, RemembersKept DEF Scan, Ends
<1>14. CASE Kill
  BY <1>14, RemembersKept DEF Kill, Ends
<1>. QED
  BY <1>1, <1>2, <1>3, <1>4, <1>5, <1>6, <1>7, <1>8, <1>9, <1>10, <1>11, <1>12, <1>13,
     <1>14 DEF Next

\* Steps that leave the invocation's memory and its place, or end it.
LEMMA LoopsKept ==
    ASSUME IInv, UNCHANGED memory,
           pc' = pc \/ pc' \in {"idle", "scanning"}
           \/ (pc = "aggregating" /\ pc' = "summarizing")
    PROVE  LoopsFollow'
<1>1. UNCHANGED <<job, lanesTried, qualified, cursor, executed, documents>>
  BY DEF memory
<1>2. Planned' = Planned
  BY <1>1 DEF Planned
<1>. QED
  BY <1>1, <1>2 DEF IInv, LoopsFollow

\* The two loops go on as LoopsFollow says, whatever step is taken.
LEMMA LoopsStep ==
    ASSUME IInv, Next
    PROVE  LoopsFollow'
<1>. USE DEF Ends
<1>1. CASE StartRefused
  BY <1>1, LoopsKept DEF StartRefused
<1>2. CASE Start
  BY <1>2 DEF Start, LoopsFollow
<1>3. CASE Clear
  <2>1. /\ pc = "clearing" /\ pc' \in {"clearing", "qualifying"}
        /\ UNCHANGED <<job, lanesTried, qualified, cursor, executed, documents>>
    BY <1>3 DEF Clear, memory
  <2>2. documents = <<>> /\ lanesTried = 0 /\ cursor = 1
    BY <2>1 DEF IInv, LoopsFollow
  <2>3. DOMAIN executed = {}
    <3>1. Len(executed) = 0 /\ executed \in Seq(Range(executed))
      BY <2>2 DEF IInv, Remembers, Types, IsSeq
    <3>. QED
      BY <3>1
  <2>. QED
    BY <2>1, <2>2, <2>3, LanesAreSome DEF LoopsFollow
<1>4. CASE QualifyLane
  <2>. DEFINE Key(k) == [class |-> QUALIFICATION_CASE, lane |-> PrimaryLanes[k]]
  <2>0. pc = "qualifying" /\ lanesTried' = lanesTried + 1 /\ cursor' = cursor
    BY <1>4, SweepStep
  <2>1. /\ lanesTried \in Nat /\ lanesTried < NumLanes
        /\ Len(documents) = lanesTried /\ cursor = 1
        /\ \A k \in DOMAIN executed : executed[k] = Key(k)
    BY <2>0 DEF IInv, Types, LoopsFollow
  <2>2. PICK d :
            /\ Kept(executed', documents', Key(lanesTried + 1), d)
            /\ \/ /\ qualified' = {} /\ pc' \in {"qualifying", "unqualified"}
                  /\ pc' = "qualifying" => lanesTried + 1 # NumLanes
               \/ qualified' = {d} /\ pc' = "materializing"
    BY <1>4, SweepStep
  <2>. HIDE DEF Key
  <2>3. \A k \in DOMAIN executed' : executed'[k] = Key(k)
    BY <2>1, <2>2 DEF Kept
  <2>4. Len(documents') = lanesTried'
    BY <2>0, <2>1, <2>2 DEF Kept
  <2>5. pc' = "qualifying" => lanesTried' < NumLanes
    BY <2>0, <2>1, <2>2, LanesAreSome
  <2>. QED
    BY <2>0, <2>1, <2>2, <2>3, <2>4, <2>5 DEF LoopsFollow, Key
<1>5. CASE QualifyLaneFails
  BY <1>5, LoopsKept DEF QualifyLaneFails, RunCellFails
<1>6. CASE NotQualified
  BY <1>6, LoopsKept DEF NotQualified
<1>7. CASE Materialize
  <2>1. /\ pc = "materializing" /\ pc' = "matrix"
        /\ UNCHANGED <<job, lanesTried, qualified, cursor, executed, documents>>
    BY <1>7 DEF Materialize, memory
  <2>2. cursor = 1 /\ qualified # {}
    BY <2>1 DEF IInv, LoopsFollow
  <2>. QED
    BY <2>1, <2>2, LanesAreSome DEF LoopsFollow
<1>8. CASE SkipExecutedCell
  <2>1. /\ pc = "matrix" /\ job \in GoodJobs /\ Advance /\ Executed(job.plan.cells[cursor])
        /\ UNCHANGED <<job, lanesTried, qualified, executed, documents>>
    BY <1>8 DEF SkipExecutedCell, IInv, Types
  <2>2. /\ cursor \in 1 .. 3 * NumLanes /\ cursor' = cursor + 1
        /\ \/ pc' = "aggregating" /\ cursor = 3 * NumLanes
           \/ pc' = "matrix" /\ cursor' <= 3 * NumLanes
    BY <2>1, CursorMoves
  <2>3. Planned[cursor] \in Range(executed)
    <3>1. job \in GoodJobs /\ cursor \in 1 .. 3 * NumLanes
      BY <2>1, <2>2
    <3>2. CellOf(job.plan.cells[cursor]) = Planned[cursor]
      BY ONLY <3>1, CellsOfJob DEF Planned
    <3>. QED
      BY <3>2, <2>1 DEF Executed
  <2>4. \A k \in 1 .. cursor : Planned[k] \in Range(executed)
    BY <2>1, <2>2, <2>3 DEF IInv, LoopsFollow
  <2>5. DOMAIN Planned = 1 .. 3 * NumLanes
    BY ONLY <2>1, CellsOfJob DEF Planned
  <2>6. Planned' = Planned /\ qualified # {}
    BY <2>1 DEF Planned, IInv, LoopsFollow
  <2>. QED
    BY <2>1, <2>2, <2>4, <2>5, <2>6, LanesAreSome DEF LoopsFollow
<1>9. CASE MatrixCell
  <2>1. /\ pc = "matrix" /\ job \in GoodJobs /\ Advance
        /\ UNCHANGED <<job, lanesTried, qualified>>
    BY <1>9, LoopStep DEF MatrixCell
  <2>2. /\ cursor \in 1 .. 3 * NumLanes /\ cursor' = cursor + 1
        /\ \/ pc' = "aggregating" /\ cursor = 3 * NumLanes
           \/ pc' = "matrix" /\ cursor' <= 3 * NumLanes
    BY <2>1, CursorMoves
  <2>3. Range(executed') = Range(executed) \union {Planned[cursor]}
    BY <1>9, LoopStep DEF Kept
  <2>4. \A k \in 1 .. cursor : Planned[k] \in Range(executed')
    BY <2>1, <2>2, <2>3 DEF IInv, LoopsFollow
  <2>5. DOMAIN Planned = 1 .. 3 * NumLanes
    BY ONLY <2>1, CellsOfJob DEF Planned
  <2>6. Planned' = Planned /\ qualified # {}
    BY <2>1 DEF Planned, IInv, LoopsFollow
  <2>. QED
    BY <2>1, <2>2, <2>4, <2>5, <2>6, LanesAreSome DEF LoopsFollow
<1>10. CASE MatrixCellFails
  BY <1>10, LoopsKept DEF MatrixCellFails, RunCellFails
<1>11. CASE WriteMatrix
  BY <1>11, LoopsKept DEF WriteMatrix
<1>12. CASE WriteSummary
  BY <1>12, LoopsKept DEF WriteSummary
<1>13. CASE Scan
  BY <1>13, LoopsKept DEF Scan
<1>14. CASE Kill
  BY <1>14, LoopsKept DEF Kill
<1>. QED
  BY <1>1, <1>2, <1>3, <1>4, <1>5, <1>6, <1>7, <1>8, <1>9, <1>10, <1>11, <1>12, <1>13,
     <1>14 DEF Next

\* Removing what is first in the list leaves a list that ends alike.
LEMMA ClearOrder ==
    ASSUME SummaryGoesLast, pc = "clearing"
    PROVE  /\ toClear = ToClear => Head(toClear) = "probes"
           /\ toClear # ToClear => Head(toClear) # "probes"
           /\ Tail(toClear) # ToClear
           /\ \/ /\ toClear = <<"summary">> /\ toClear # ToClear
                 /\ Tail(toClear) = <<>> /\ Head(toClear) = "summary"
              \/ /\ toClear # <<"summary">> /\ Tail(toClear) # <<>>
                 /\ Tail(toClear) \in {<<"summary">>, <<"staging", "summary">>,
                                       <<"aggregate", "staging", "summary">>,
                                       <<"qualification", "aggregate", "staging", "summary">>}
<1>1. CASE toClear = <<"summary">>
  BY <1>1 DEF ToClear
<1>2. CASE toClear = <<"staging", "summary">>
  BY <1>2 DEF ToClear
<1>3. CASE toClear = <<"aggregate", "staging", "summary">>
  BY <1>3 DEF ToClear
<1>4. CASE toClear = <<"qualification", "aggregate", "staging", "summary">>
  BY <1>4 DEF ToClear
<1>5. CASE toClear = ToClear
  BY <1>5 DEF ToClear
<1>. QED
  BY <1>1, <1>2, <1>3, <1>4, <1>5 DEF SummaryGoesLast

\* The summary stays the last file of the list to remove.
LEMMA SummaryStep ==
    ASSUME IInv, Next
    PROVE  SummaryGoesLast'
<1>. USE DEF IInv, SummaryGoesLast, Running, ToClear, Ends
<1>1. CASE StartRefused
  BY <1>1 DEF StartRefused
<1>2. CASE Start
  BY <1>2 DEF Start
<1>3. CASE Clear
  BY ONLY IInv, <1>3, ClearOrder DEF IInv, SummaryGoesLast, Running, Clear
<1>4. CASE QualifyLane
  BY <1>4, SweepStep
<1>5. CASE QualifyLaneFails
  BY <1>5 DEF QualifyLaneFails, RunCellFails
<1>6. CASE NotQualified
  BY <1>6 DEF NotQualified
<1>7. CASE Materialize
  BY <1>7 DEF Materialize
<1>8. CASE SkipExecutedCell
  BY <1>8 DEF SkipExecutedCell, Advance
<1>9. CASE MatrixCell
  BY <1>9 DEF MatrixCell, Advance
<1>10. CASE MatrixCellFails
  BY <1>10 DEF MatrixCellFails, RunCellFails
<1>11. CASE WriteMatrix
  BY <1>11 DEF WriteMatrix
<1>12. CASE WriteSummary
  BY <1>12 DEF WriteSummary
<1>13. CASE Scan
  BY <1>13 DEF Scan
<1>14. CASE Kill
  BY <1>14 DEF Kill
<1>. QED
  BY <1>1, <1>2, <1>3, <1>4, <1>5, <1>6, <1>7, <1>8, <1>9, <1>10, <1>11, <1>12, <1>13,
     <1>14 DEF Next

\* The directory follows the invocation, whatever step is taken.
LEMMA DirectoryStep ==
    ASSUME IInv, Next
    PROVE  DirectoryFollows'
<1>. USE DEF IInv, DirectoryFollows, Running, Ends, memory
<1>1. CASE StartRefused
  BY <1>1 DEF StartRefused
<1>2. CASE Start
  BY <1>2 DEF Start, ToClear
<1>3. CASE Clear
  <2>1. CASE Tail(toClear) # <<>>
    <3>1. /\ pc = "clearing" /\ pc' = "clearing" /\ disk' = Cleared(Head(toClear))
      BY <1>3, <2>1 DEF Clear
    <3>2. disk'.probes = {}
      <4>1. CASE toClear = ToClear
        <5>1. Head(toClear) = "probes"
          BY ONLY IInv, <3>1, <4>1, ClearOrder DEF IInv
        <5>. QED
          BY <5>1, <3>1 DEF Cleared, Types
      <4>2. CASE toClear # ToClear
        <5>1. disk.probes = {}
          BY <3>1, <4>2
        <5>. QED
          BY <5>1, <3>1 DEF Cleared, Types
      <4>. QED
        BY <4>1, <4>2
    <3>. QED
      BY <3>1, <3>2
  <2>2. CASE Tail(toClear) = <<>>
    <3>1. pc = "clearing" /\ pc' = "qualifying" /\ documents = <<>> /\ documents' = documents
      BY <1>3, <2>2 DEF Clear, LoopsFollow
    <3>2. toClear = <<"summary">>
      BY ONLY IInv, <2>2, <3>1, ClearOrder DEF IInv
    <3>3. Head(toClear) = "summary"
      BY ONLY IInv, <2>2, <3>1, ClearOrder DEF IInv
    <3>4. disk' = [disk EXCEPT !.summary = NoSummary]
      BY <1>3, <3>3 DEF Clear, Cleared
    <3>5. disk'.summary = NoSummary /\ disk'.probes = disk.probes
      BY <3>4 DEF Types
    <3>6. disk.probes = {}
      <4>1. toClear # ToClear
        BY ONLY IInv, <2>2, <3>1, ClearOrder DEF IInv
      <4>. QED
        BY <3>1, <4>1
    <3>7. Range(documents') = {}
      BY <3>1 DEF Range
    <3>. QED
      BY <3>1, <3>5, <3>6, <3>7
  <2>. QED
    BY <2>1, <2>2
<1>4. CASE QualifyLane
  <2>1. PICK d :
            /\ Range(documents') = Range(documents) \union {d}
            /\ disk' = [disk EXCEPT !.probes = @ \union {d}, !.qualification = @ \union {d}]
    BY <1>4, SweepStep DEF Kept
  <2>2. pc = "qualifying" /\ pc' \in {"qualifying", "unqualified", "materializing"}
    BY <1>4, SweepStep
  <2>3. disk'.probes = disk.probes \union {d} /\ disk'.summary = disk.summary
    BY <2>1 DEF Types
  <2>. QED
    BY <2>1, <2>2, <2>3
<1>5. CASE QualifyLaneFails
  BY <1>5 DEF QualifyLaneFails, RunCellFails
<1>6. CASE NotQualified
  BY <1>6 DEF NotQualified
<1>7. CASE Materialize
  BY <1>7 DEF Materialize, Types
<1>8. CASE SkipExecutedCell
  BY <1>8 DEF SkipExecutedCell, Advance
<1>9. CASE MatrixCell
  <2>1. PICK d : /\ Range(documents') = Range(documents) \union {d}
                 /\ disk' = [disk EXCEPT !.probes = @ \union {d}]
    BY <1>9, LoopStep DEF Kept
  <2>2. /\ pc = "matrix" /\ pc' \in {"matrix", "aggregating"}
        /\ UNCHANGED <<job, qualified>>
    BY <1>9 DEF MatrixCell, Advance
  <2>3. /\ disk'.probes = disk.probes \union {d} /\ disk'.summary = disk.summary
        /\ disk'.staging = disk.staging /\ disk'.qualifiedFile = disk.qualifiedFile
    BY <2>1 DEF Types
  <2>. QED
    BY <2>1, <2>2, <2>3
<1>10. CASE MatrixCellFails
  BY <1>10 DEF MatrixCellFails, RunCellFails
<1>11. CASE WriteMatrix
  BY <1>11 DEF WriteMatrix, Types
<1>12. CASE WriteSummary
  BY <1>12 DEF WriteSummary, Types
<1>13. CASE Scan
  BY <1>13 DEF Scan
<1>14. CASE Kill
  BY <1>14 DEF Kill
<1>. QED
  BY <1>1, <1>2, <1>3, <1>4, <1>5, <1>6, <1>7, <1>8, <1>9, <1>10, <1>11, <1>12, <1>13,
     <1>14 DEF Next

\* Once the loop is through, the artifacts are those of all the planned cells.
LEMMA AllCellsObserved ==
    ASSUME IInv, pc \in {"aggregating", "summarizing"}
    PROVE  /\ job \in GoodJobs /\ DOMAIN Planned = 1 .. 3 * NumLanes
           /\ Len(documents) = 3 * NumLanes
           /\ Cardinality(Range(documents)) = 3 * NumLanes
           /\ \A k \in DOMAIN Planned : \E d \in Range(documents) : CellOf(d) = Planned[k]
<1>1. job \in GoodJobs /\ IsSeq(executed) /\ IsSeq(documents) /\ IsInjective(executed)
  BY DEF IInv, Types, Remembers
<1>2. DOMAIN Planned = 1 .. 3 * NumLanes
  BY ONLY <1>1, CellsOfJob DEF Planned
<1>3. Len(executed) = Len(documents) /\ Len(executed) \in Nat
  BY DEF IInv, Remembers, Types, IsSeq
<1>4. DOMAIN executed = 1 .. Len(documents) /\ DOMAIN documents = 1 .. Len(documents)
  BY <1>1, <1>3 DEF IsSeq
<1>5. Range(executed) = Range(Planned)
  <2>1. \A k \in DOMAIN executed : executed[k] \in Range(Planned)
    BY <1>4 DEF IInv, Remembers
  <2>2. \A k \in DOMAIN Planned : Planned[k] \in Range(executed)
    BY DEF IInv, LoopsFollow
  <2>. QED
    BY <2>1, <2>2 DEF Range
<1>6. IsInjective(Planned)
  <2>1. \A a, b \in 1 .. 3 * NumLanes : Planned[a] = Planned[b] => a = b
    BY ONLY <1>1, PlanIsInjective DEF Planned
  <2>. QED
    BY <2>1, <1>2 DEF IsInjective
<1>7. Planned \in Seq(Range(Planned)) /\ Len(Planned) = 3 * NumLanes
  <2>1. Planned \in [1 .. 3 * NumLanes -> Range(Planned)]
    BY <1>2 DEF Planned, PlannedCells, Range
  <2>2. 3 * NumLanes \in Nat
    BY LanesAreSome
  <2>. QED
    BY <2>1, <2>2
<1>8. Len(documents) = 3 * NumLanes
  <2>1. Cardinality(Range(executed)) = Len(executed)
    BY ONLY <1>1, RangeOfInjective
  <2>2. Cardinality(Range(Planned)) = 3 * NumLanes
    BY ONLY <1>6, <1>7, RangeOfInjective DEF IsSeq
  <2>. QED
    BY <2>1, <2>2, <1>5, <1>3
<1>9. \A k \in DOMAIN documents : executed[k] = CellOf(documents[k])
  BY DEF IInv, Remembers
<1>10. IsInjective(documents)
  BY <1>1, <1>4, <1>9 DEF IsInjective
<1>11. Cardinality(Range(documents)) = Len(documents)
  BY ONLY <1>1, <1>10, RangeOfInjective
<1>12. \A k \in DOMAIN Planned : \E d \in Range(documents) : CellOf(d) = Planned[k]
  BY <1>5, <1>4, <1>9 DEF Range
<1>. QED
  BY <1>1, <1>2, <1>8, <1>11, <1>12

\* The aggregator accepts what the loops have gathered.
LEMMA NothingRefused ==
    ASSUME IInv, pc = "aggregating"
    PROVE  AggregateOk(job.registry, documents, disk.staging)
<1>1. job \in GoodJobs /\ disk.staging = qualified /\ qualified # {} /\ DOMAIN executed = DOMAIN documents
  BY DEF IInv, Types, Remembers, LoopsFollow, DirectoryFollows, IsSeq
<1>2. \A i \in DOMAIN documents : ProbeMatches(documents[i], job.registry, FALSE)
  BY DEF IInv, Remembers
<1>3. ASSUME NEW i \in DOMAIN documents
      PROVE  CaseQualified(job.registry, documents[i].class, disk.staging)
  <2>. DEFINE class == documents[i].class
  <2>1. class \in Classes(job.registry)
    BY <1>2 DEF ProbeMatches
  <2>2. DOMAIN job.registry.cases = 1 .. 3 /\ RegistryOk(job.registry)
    BY ONLY <1>1, JobFacts
  <2>3. PICK k \in 1 .. 3 :
            /\ CaseOf(job.registry, class) = job.registry.cases[k]
            /\ job.registry.cases[k].class = class
    <3>1. \E k \in 1 .. 3 : job.registry.cases[k].class = class
      BY <2>1, <2>2 DEF Classes
    <3>. QED
      BY <3>1, <2>2 DEF CaseOf
  <2>4. CaseOf(job.registry, class).mode = QualificationMode(class)
    BY <2>2, <2>3 DEF RegistryOk
  <2>5. CaseOf(job.registry, class).mode = "PROBE_EVIDENCE" => class = QUALIFICATION_CASE
    BY <2>4 DEF QualificationMode, QUALIFICATION_CASE
  <2>6. \A d \in qualified : Qualifies(d, job.registry, QUALIFICATION_CASE)
    BY DEF IInv, Remembers
  <2>. QED
    BY <1>1, <2>5, <2>6 DEF CaseQualified
<1>4. \A i, j \in DOMAIN documents :
        /\ documents[i].commit = documents[j].commit
        /\ CellOf(documents[i]) = CellOf(documents[j]) => i = j
  BY <1>1 DEF IInv, Remembers, IsInjective
<1>5. Len(documents) = Len(PlannedCells(job.registry))
  <2>1. DOMAIN Planned = 1 .. 3 * NumLanes /\ Len(documents) = 3 * NumLanes
    BY AllCellsObserved
  <2>2. Planned \in [1 .. 3 * NumLanes -> Range(Planned)]
    BY <2>1 DEF Planned, PlannedCells, Range
  <2>3. 3 * NumLanes \in Nat
    BY LanesAreSome
  <2>4. Len(Planned) = 3 * NumLanes
    BY <2>2, <2>3
  <2>. QED
    BY <2>1, <2>4 DEF Planned
<1>. QED
  BY <1>2, <1>3, <1>4, <1>5 DEF AggregateOk

\* A summary stays as true as it was while what it speaks of is left alone.
LEMMA BackedKept ==
    ASSUME IInv, disk'.summary.status = "COMPLETE" /\ toClear' = <<>> => UNCHANGED <<disk, toClear>>
    PROVE  CompleteSummaryIsBacked'
BY DEF IInv, CompleteSummaryIsBacked

\* The summary of a complete run speaks of what is on disk when it is written.
LEMMA SummaryWritten ==
    ASSUME IInv, WriteSummary
    PROVE  CompleteSummaryIsBacked'
<1>1. pc = "summarizing" /\ runs \in Nat
  BY DEF WriteSummary, IInv, Types
<1>2. /\ disk'.probes = Range(documents) /\ disk'.matrix = Aggregate(job.registry, Range(documents))
      /\ disk'.qualifiedFile = qualified /\ disk'.summary.commit = runs
  BY <1>1 DEF WriteSummary, IInv, Types, DirectoryFollows, Running
<1>3. \A d \in Range(documents) : d.commit = runs
  BY <1>1 DEF IInv, Remembers, Range
<1>4. \E d \in qualified : d \in Range(documents)
  BY <1>1 DEF IInv, Remembers, LoopsFollow
<1>5. /\ job \in GoodJobs /\ Cardinality(Range(documents)) = 3 * NumLanes
      /\ \A k \in DOMAIN Planned : \E d \in Range(documents) : CellOf(d) = Planned[k]
  BY <1>1, AllCellsObserved
<1>6. job.registry \in Registries
  BY ONLY <1>5, JobFacts
<1>. QED
  BY <1>2, <1>3, <1>4, <1>5, <1>6 DEF CompleteSummaryIsBacked, Planned, NumLanes

\* No step leaves a complete summary without the artifacts it speaks of.
LEMMA BackedStep ==
    ASSUME IInv, Next
    PROVE  CompleteSummaryIsBacked'
<1>. USE DEF NoSummary
<1>1. CASE StartRefused
  BY <1>1, BackedKept DEF StartRefused
<1>2. CASE Start
  BY <1>2, BackedKept DEF Start
<1>3. CASE Clear
  <2>1. CASE Tail(toClear) # <<>>
    BY <1>3, <2>1, BackedKept DEF Clear
  <2>2. CASE Tail(toClear) = <<>>
    <3>1. pc = "clearing" /\ disk' = Cleared(Head(toClear))
      BY <1>3 DEF Clear
    <3>2. Head(toClear) = "summary"
      BY ONLY IInv, <2>2, <3>1, ClearOrder DEF IInv
    <3>3. disk'.summary = NoSummary
      BY <3>1, <3>2 DEF Cleared, IInv, Types
    <3>. QED
      BY <3>3, BackedKept
  <2>. QED
    BY <2>1, <2>2
<1>4. ASSUME QualifyLane \/ MatrixCell \/ Materialize \/ WriteMatrix \/ SkipExecutedCell
      PROVE  CompleteSummaryIsBacked'
  <2>1. disk.summary = NoSummary
    BY <1>4 DEF QualifyLane, MatrixCell, Materialize, WriteMatrix, SkipExecutedCell, IInv,
                DirectoryFollows, Running
  <2>2. disk'.summary = disk.summary
    BY <1>4, SweepStep, LoopStep
       DEF Materialize, WriteMatrix, SkipExecutedCell, IInv, Types
  <2>. QED
    BY <2>1, <2>2, BackedKept
<1>5. CASE QualifyLaneFails
  BY <1>5, BackedKept DEF QualifyLaneFails, RunCellFails
<1>6. CASE NotQualified
  BY <1>6, BackedKept DEF NotQualified, IInv, Types
<1>7. CASE MatrixCellFails
  BY <1>7, BackedKept DEF MatrixCellFails, RunCellFails
<1>8. CASE WriteSummary
  BY <1>8, SummaryWritten
<1>9. CASE Scan
  BY <1>9, BackedKept DEF Scan
<1>10. CASE Kill
  BY <1>10, BackedKept DEF Kill
<1>. QED
  BY <1>1, <1>2, <1>3, <1>4, <1>5, <1>6, <1>7, <1>8, <1>9, <1>10 DEF Next

-------------------------------------------------------------------------------
(* The invariant *)

\* Nothing has run, and the directory is empty.
LEMMA InitIsGood ==
    ASSUME Init
    PROVE  IInv
<1>. USE DEF Init, EmptyDisk, NoSummary
<1>1. Types
  BY LanesAreSome DEF Types, IsSeq
<1>2. Remembers /\ LoopsFollow /\ DirectoryFollows /\ SummaryGoesLast
  BY DEF Remembers, LoopsFollow, DirectoryFollows, SummaryGoesLast, Running, IsInjective
<1>3. CompleteSummaryIsBacked
  BY DEF CompleteSummaryIsBacked
<1>. QED
  BY <1>1, <1>2, <1>3 DEF IInv

\* A step that changes nothing.
LEMMA StutterKeeps ==
    ASSUME IInv, UNCHANGED vars
    PROVE  IInv'
<1>1. UNCHANGED memory /\ UNCHANGED <<pc, runs, exit, toClear, disk, foreign>>
  BY DEF vars
<1>2. Types' /\ DirectoryFollows' /\ SummaryGoesLast'
  BY <1>1 DEF IInv, Types, DirectoryFollows, SummaryGoesLast, Running, memory
<1>3. Remembers' /\ LoopsFollow' /\ CompleteSummaryIsBacked'
  BY <1>1, RemembersKept, LoopsKept, BackedKept
<1>. QED
  BY <1>2, <1>3 DEF IInv

\* The inductive invariant: the initial state has it and every step keeps it.
LEMMA Invariance == Spec => []IInv
<1>1. ASSUME IInv, [Next]_vars
      PROVE  IInv'
  <2>1. CASE Next
    BY <1>1, <2>1, TypesStep, RemembersStep, LoopsStep, DirectoryStep, SummaryStep, BackedStep
       DEF IInv
  <2>. QED
    BY <1>1, <2>1, StutterKeeps
<1>. QED
  BY <1>1, InitIsGood, PTL DEF Spec

\* What the invocation remembers and where its loops are, for all lanes and registries:
\* execute_batch() probes each planned cell once, the V1 cells first.
THEOREM BatchInvariant == Spec => [](Types /\ Remembers /\ LoopsFollow)
<1>1. IInv => Types /\ Remembers /\ LoopsFollow
  BY DEF IInv
<1>. QED
  BY <1>1, Invariance, PTL

\* Both loops of execute_batch() walk over the V1 cells, and no cell is probed twice; V0
\* and V2 are left alone until a V1 artifact has qualified.
THEOREM EachCellOnce == Spec => []OneProbePerCell
<1>1. ASSUME IInv
      PROVE  OneProbePerCell
  <2>1. IsInjective(executed)
    BY <1>1 DEF IInv, Remembers
  <2>2. ASSUME Done("V0") \union Done("V2") # {}
        PROVE  \E d \in qualified : d \in Range(documents) /\ Qualifies(d, job.registry, "V1")
    <3>1. \E i \in DOMAIN executed : executed[i].class # QUALIFICATION_CASE
      BY <2>2 DEF Done, QUALIFICATION_CASE
    <3>. QED
      BY <1>1, <3>1 DEF IInv, Remembers, QUALIFICATION_CASE
  <2>. QED
    BY <2>1, <2>2 DEF OneProbePerCell
<1>. QED
  BY <1>1, Invariance, PTL

\* However invocations are refused, fail or are killed, a COMPLETE summary found in the
\* directory is that of the artifacts and the matrix beside it.
THEOREM SummaryIsBacked == Spec => []CompleteSummaryIsBacked
<1>1. IInv => CompleteSummaryIsBacked
  BY DEF IInv
<1>. QED
  BY <1>1, Invariance, PTL

\* aggregate_probes() does not refuse what execute_batch() has gathered and staged.
THEOREM MatrixIsWritten == Spec => []AggregatorAgrees
<1>1. IInv => AggregatorAgrees
  BY NothingRefused DEF AggregatorAgrees
<1>. QED
  BY <1>1, Invariance, PTL

-------------------------------------------------------------------------------
(* What an artifact tells of what was seen *)

\* The probes made in the rounds for the purposes asked, one for each at most.
GoodProbes(results, asked, reply) ==
    /\ IsSeq(results) /\ Len(results) <= MediaProbeLimit
    /\ \A i \in DOMAIN results :
        /\ results[i].purpose \in asked
        /\ results[i] = MediaProbe(results[i].purpose, reply[results[i].purpose])
    /\ \A i, j \in DOMAIN results : results[i].purpose = results[j].purpose => i = j

\* One round of the media loop: a format is probed when the bounds allow it.
LEMMA Round ==
    ASSUME NEW formats, NEW reply, NEW results, NEW asked, NEW purpose, purpose \notin asked,
           GoodProbes(results, asked, reply),
           NEW next, next = Probed(formats, reply, results, purpose)
    PROVE  GoodProbes(next, asked \union {purpose}, reply)
<1>. DEFINE probe == MediaProbe(purpose, reply[purpose])
<1>1. CASE next = results
  BY <1>1 DEF GoodProbes
<1>2. CASE next # results
  <2>1. Len(results) < MediaProbeLimit /\ IsAppended(next, results, probe)
    BY <1>2 DEF Probed, IsAppended
  <2>2. probe.purpose = purpose
    BY DEF MediaProbe
  <2>. HIDE DEF probe
  <2>3. IsSeq(results)
    BY DEF GoodProbes
  <2>4. /\ IsSeq(next) /\ Len(results) \in Nat /\ Len(next) = Len(results) + 1
        /\ DOMAIN results = 1 .. Len(results) /\ DOMAIN next = 1 .. Len(next)
        /\ \A i \in DOMAIN results : next[i] = results[i]
        /\ next[Len(results) + 1] = probe
    BY ONLY <2>1, <2>3, Appended
  <2>5. \A i \in DOMAIN next : i \in DOMAIN results \/ i = Len(results) + 1
    BY <2>4
  <2>6. ASSUME NEW i \in DOMAIN next
        PROVE  /\ next[i].purpose \in asked \union {purpose}
               /\ next[i] = MediaProbe(next[i].purpose, reply[next[i].purpose])
    <3>1. CASE i \in DOMAIN results
      BY <3>1, <2>4 DEF GoodProbes
    <3>2. CASE i = Len(results) + 1
      BY <3>2, <2>2, <2>4 DEF probe
    <3>. QED
      BY <3>1, <3>2, <2>5
  <2>7. ASSUME NEW i \in DOMAIN next, NEW j \in DOMAIN next, next[i].purpose = next[j].purpose
        PROVE  i = j
    <3>1. \A k \in DOMAIN results : next[k].purpose \in asked
      BY <2>4 DEF GoodProbes
    <3>2. \A k, l \in DOMAIN results : next[k].purpose = next[l].purpose => k = l
      BY <2>4 DEF GoodProbes
    <3>3. next[Len(results) + 1].purpose = purpose
      BY <2>2, <2>4
    <3>. QED
      BY <2>7, <2>5, <3>1, <3>2, <3>3
  <2>8. Len(next) <= MediaProbeLimit
    BY <2>1, <2>4, ProbeAssumption
  <2>. QED
    BY <2>4, <2>6, <2>7, <2>8 DEF GoodProbes
<1>. QED
  BY <1>1, <1>2

\* The loop of _run_media_probes() keeps the two bounds of the contract.
LEMMA ProbesAreGood ==
    ASSUME NEW formats, NEW reply
    PROVE  GoodProbes(MediaProbes(formats, reply), Purposes, reply)
<1>. DEFINE startup == Probed(formats, reply, <<>>, "STARTUP")
            video == Probed(formats, reply, startup, "VIDEO")
            audio == Probed(formats, reply, video, "AUDIO")
            continuation == Probed(formats, reply, audio, "CONTINUATION")
            seek == Probed(formats, reply, continuation, "SEEK")
<1>1. GoodProbes(<<>>, {}, reply)
  BY ProbeAssumption DEF GoodProbes, IsSeq
<1>2. GoodProbes(startup, {"STARTUP"}, reply)
  <2>1. GoodProbes(startup, {} \union {"STARTUP"}, reply)
    BY <1>1, Round
  <2>. QED
    BY <2>1
<1>3. GoodProbes(video, {"STARTUP", "VIDEO"}, reply)
  <2>. HIDE DEF startup
  <2>1. GoodProbes(video, {"STARTUP"} \union {"VIDEO"}, reply)
    BY <1>2, Round
  <2>. QED
    BY <2>1
<1>4. GoodProbes(audio, {"STARTUP", "VIDEO", "AUDIO"}, reply)
  <2>. HIDE DEF video
  <2>1. GoodProbes(audio, {"STARTUP", "VIDEO"} \union {"AUDIO"}, reply)
    BY <1>3, Round
  <2>. QED
    BY <2>1
<1>5. GoodProbes(continuation, {"STARTUP", "VIDEO", "AUDIO", "CONTINUATION"}, reply)
  <2>. HIDE DEF audio
  <2>1. GoodProbes(continuation, {"STARTUP", "VIDEO", "AUDIO"} \union {"CONTINUATION"}, reply)
    BY <1>4, Round
  <2>. QED
    BY <2>1
<1>6. GoodProbes(seek, Purposes, reply)
  <2>. HIDE DEF continuation
  <2>1. GoodProbes(seek, {"STARTUP", "VIDEO", "AUDIO", "CONTINUATION"} \union {"SEEK"}, reply)
    BY <1>5, Round
  <2>. QED
    BY <2>1 DEF Purposes
<1>7. seek = MediaProbes(formats, reply)
  BY DEF MediaProbes
<1>. HIDE DEF seek
<1>. QED
  BY <1>6, <1>7

\* No more bytes are counted than were asked for.
LEMMA ProbeReads ==
    ASSUME NEW answer, AnswerOk(answer), NEW probes, GoodProbes(probes, Purposes, answer.reply),
           NEW i \in DOMAIN probes
    PROVE  probes[i].bytesRead <= ProbeBytes
<1>1. PICK p \in Purposes : probes[i] = MediaProbe(p, answer.reply[p])
  BY DEF GoodProbes
<1>2. answer.reply[p].status \in Nat /\ answer.reply[p].body \in Nat
  BY DEF AnswerOk
<1>. QED
  BY <1>1, <1>2, ProbeAssumption DEF MediaProbe

\* The extractor's side of an observation.
LEMMA ExtractionFacts ==
    ASSUME NEW answer, AnswerOk(answer), NEW x, x = Extraction(answer)
    PROVE  /\ x.used <= MetadataLimit
           /\ Some(x.formats, LAMBDA f : f.missingPot) => x.completed
<1>1. x.used <= MetadataLimit
  BY ProbeAssumption DEF Extraction, AnswerOk
<1>2. ~x.completed => x.formats = <<>>
  BY DEF Extraction
<1>. QED
  BY <1>1, <1>2 DEF Some

\* No outcome that _summary_from_extraction() concludes says more than the artifact's
\* observations, in an artifact of a provider that serves HTTPS.
LEMMA OutcomeIsBacked ==
    ASSUME NEW x, NEW probes, NEW s, s = Summary(x, probes),
           s.capabilities.https = "PRESENT",
           Some(x.formats, LAMBDA f : f.missingPot) => x.completed
    PROVE  OutcomeClaimOk(s)
<1>. DEFINE started == StartupSuccess(probes)
            gated == Some(x.formats, LAMBDA f : f.missingPot)
            required == Requirements(x, probes)
            signals == ProviderSignals(x, probes)
<1>1. /\ s.outcome = Classification(x, probes) /\ s.requirements = required
      /\ s.providerSignals = signals /\ s.capabilities = Capabilities(x)
      /\ s.delivery = Delivery(x, probes)
  BY DEF Summary
<1>2. s.delivery.startup = Observation(started)
  BY <1>1 DEF Delivery
<1>3. /\ required.gvsPoToken =
            IF started THEN "NOT_REQUIRED" ELSE IF gated THEN "REQUIRED" ELSE "UNKNOWN"
      /\ required.playerPoToken = IF x.completed /\ started THEN "NOT_REQUIRED" ELSE "UNKNOWN"
      /\ x.completed /\ started => required.challengeRuntime = "NOT_REQUIRED"
  BY DEF Requirements
<1>4. Viable(x, probes) <=> /\ started
                            /\ required.gvsPoToken = "NOT_REQUIRED"
                            /\ required.playerPoToken = "NOT_REQUIRED"
                            /\ required.challengeRuntime = "NOT_REQUIRED"
  BY <1>1 DEF Viable
<1>5. gated => x.completed
  OBVIOUS
<1>6. /\ s.outcome = IF Viable(x, probes) THEN "VIABLE_ANONYMOUS"
                     ELSE IF signals.throttling = "PRESENT" THEN "PROVIDER_RATE_LIMITED"
                     ELSE IF gated THEN "TOKEN_GATED"
                     ELSE IF required.challengeRuntime = "REQUIRED" THEN "CHALLENGE_GATED"
                     ELSE IF signals.rejection = "PRESENT" THEN "PROVIDER_REJECTED"
                     ELSE "INCONCLUSIVE"
  BY <1>1 DEF Classification
<1>. HIDE DEF started, gated, required, signals
<1>7. CASE Viable(x, probes)
  BY <1>7, <1>1, <1>2, <1>4, <1>6 DEF OutcomeClaimOk, Observation
<1>8. CASE ~Viable(x, probes) /\ s.outcome = "TOKEN_GATED"
  <2>1. gated
    BY <1>8, <1>6
  <2>2. ~started
    BY <2>1, <1>3, <1>4, <1>5, <1>8
  <2>. QED
    BY <1>8, <2>1, <2>2, <1>1, <1>3 DEF OutcomeClaimOk
<1>9. CASE ~Viable(x, probes) /\ s.outcome # "TOKEN_GATED"
  BY <1>9, <1>1, <1>6 DEF OutcomeClaimOk
<1>. QED
  BY <1>7, <1>8, <1>9

\* An artifact of a provider that serves HTTPS keeps its contract, whatever it answers.
LEMMA ContractKept ==
    ASSUME NEW answer, AnswerOk(answer), NEW s, s = Observe(answer),
           s.capabilities.https = "PRESENT"
    PROVE  DocumentOk(s)
<1>1. PICK x : x = Extraction(answer)
  OBVIOUS
<1>2. PICK probes : probes = MediaProbes(x.formats, answer.reply)
  OBVIOUS
<1>3. s = Summary(x, probes)
  BY <1>1, <1>2 DEF Observe
<1>4. x.used <= MetadataLimit /\ (Some(x.formats, LAMBDA f : f.missingPot) => x.completed)
  BY <1>1, ExtractionFacts
<1>5. GoodProbes(probes, Purposes, answer.reply)
  BY <1>2, ProbesAreGood
<1>6. s.mediaProbes = probes /\ s.metadataRequestsUsed = x.used
  BY <1>3 DEF Summary
<1>7. \A i \in DOMAIN probes : probes[i].bytesRead <= ProbeBytes
  BY <1>5, ProbeReads
<1>8. BudgetOk(s)
  BY <1>4, <1>5, <1>6, <1>7 DEF BudgetOk, GoodProbes
<1>9. OutcomeClaimOk(s)
  BY <1>3, <1>4, OutcomeIsBacked
<1>. QED
  BY <1>8, <1>9 DEF DocumentOk

\* Its artifact read something of a STARTUP probe.
ReadAtStartup(d) ==
    \E p \in DOMAIN Told(d).mediaProbes :
        Told(d).mediaProbes[p].purpose = "STARTUP" /\ ReadSomething(Told(d).mediaProbes[p])

\* What the matrix tells of a cell was seen in its artifact.
SeenIn(d) ==
    /\ CellAssumptions(d).range = "REJECTED" =>
            \E p \in DOMAIN Told(d).mediaProbes : Told(d).mediaProbes[p].status = 200
    /\ CellAssumptions(d).anonymousStartup = "ACCEPTED" => ReadAtStartup(d)
    /\ CellAssumptions(d).anonymousStartup = "REJECTED" =>
            "ACCEPTED" \in {CellAssumptions(d).gvsPoTokenRequired,
                           CellAssumptions(d).challengeRuntimeRequired}
    /\ CellAssumptions(d).gvsPoTokenRequired = "ACCEPTED" => ~ReadAtStartup(d)

\* What an artifact shows is what its probe has seen.
LEMMA SeenInArtifact ==
    ASSUME NEW d, d.answer \in DOMAIN AnswerOf, DocumentOk(Told(d))
    PROVE  SeenIn(d)
<1>0. PICK s, told : s = Told(d) /\ told = CellAssumptions(d)
  OBVIOUS
<1>1. PICK answer : answer = AnswerOf[d.answer] /\ AnswerOk(answer)
  BY MatrixAssumption
<1>2. s = Observe(answer)
  BY <1>0, <1>1 DEF Told, Observed
<1>3. PICK x : x = Extraction(answer)
  OBVIOUS
<1>4. PICK probes : probes = MediaProbes(x.formats, answer.reply)
  OBVIOUS
<1>5. s = Summary(x, probes)
  BY <1>2, <1>3, <1>4 DEF Observe
<1>6. /\ s.mediaProbes = probes /\ s.requirements = Requirements(x, probes)
      /\ s.delivery = Delivery(x, probes) /\ s.outcome = Classification(x, probes)
  BY <1>5 DEF Summary
<1>7. ReadAtStartup(d) <=> StartupSuccess(probes)
  BY <1>0, <1>6 DEF ReadAtStartup, StartupSuccess, Of
<1>8. /\ told.range = TriState(s.delivery.range)
      /\ told.anonymousStartup = AnonymousState(s.outcome)
      /\ told.gvsPoTokenRequired = RequirementState(s.requirements.gvsPoToken)
      /\ told.challengeRuntimeRequired = RequirementState(s.requirements.challengeRuntime)
  BY <1>0 DEF CellAssumptions
<1>9. told.range = "REJECTED" => \E p \in DOMAIN s.mediaProbes : s.mediaProbes[p].status = 200
  BY <1>6, <1>8 DEF TriState, Delivery, Some
<1>10. told.anonymousStartup = "ACCEPTED" => ReadAtStartup(d)
  BY <1>6, <1>7, <1>8 DEF AnonymousState, Classification, Viable
<1>11. told.gvsPoTokenRequired = "ACCEPTED" => ~ReadAtStartup(d)
  BY <1>6, <1>7, <1>8 DEF RequirementState, Requirements
<1>12. ASSUME told.anonymousStartup = "REJECTED"
       PROVE  "ACCEPTED" \in {told.gvsPoTokenRequired, told.challengeRuntimeRequired}
  <2>1. s.outcome \in {"TOKEN_GATED", "CHALLENGE_GATED"}
    BY <1>12, <1>6, <1>8 DEF AnonymousState, Classification
  <2>2. s.outcome = "TOKEN_GATED" =>
            "REQUIRED" \in {s.requirements.gvsPoToken, s.requirements.playerPoToken}
    BY <1>0 DEF DocumentOk, OutcomeClaimOk
  <2>3. s.outcome = "CHALLENGE_GATED" => s.requirements.challengeRuntime = "REQUIRED"
    BY <1>0 DEF DocumentOk, OutcomeClaimOk
  <2>4. s.requirements.playerPoToken # "REQUIRED"
    BY <1>6 DEF Requirements
  <2>. QED
    BY <2>1, <2>2, <2>3, <2>4, <1>8 DEF RequirementState
<1>. QED
  BY <1>0, <1>9, <1>10, <1>11, <1>12 DEF SeenIn

\* main() is not left by the contract's exception for a provider that serves HTTPS, and no
\* cell of the matrix says more, or less, than what its artifact shows.
THEOREM SeenIsTold == Spec => []ArtifactsTellWhatWasSeen
<1>1. ASSUME IInv
      PROVE  ArtifactsTellWhatWasSeen
  <2>1. ASSUME NEW a \in DOMAIN AnswerOf, a \notin Lost, Observed[a].capabilities.https = "PRESENT"
        PROVE  DocumentOk(Observed[a])
    <3>1. Observed[a] = Observe(AnswerOf[a]) /\ AnswerOk(AnswerOf[a])
      BY MatrixAssumption DEF Observed
    <3>. QED
      BY <2>1, <3>1, ContractKept
  <2>2. \A i \in DOMAIN documents :
            documents[i].answer \in DOMAIN AnswerOf /\ DocumentOk(Told(documents[i]))
    BY <1>1, BatchAssumption DEF IInv, Remembers, ProbeMatches
  <2>3. \A i \in DOMAIN documents : SeenIn(documents[i])
    BY <2>2, SeenInArtifact
  <2>. QED
    BY <2>1, <2>3 DEF ArtifactsTellWhatWasSeen, SeenIn, ReadAtStartup
<1>. QED
  BY <1>1, Invariance, PTL
===============================================================================
