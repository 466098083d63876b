-------------------------------- MODULE M3Batch --------------------------------
(***************************************************************************)
(* m3_batch.py: one invocation probes the qualification lanes, then every  *)
(* other planned cell, each once, aggregates the matrix and writes its     *)
(* summary, all under one output directory that an earlier invocation may  *)
(* have left in any state.                                                 *)
(*                                                                         *)
(* An action is a step of execute_batch() between two points where the     *)
(* process can usefully be killed; the files it writes are part of it.     *)
(* The commit an invocation runs at is its number.                         *)
(***************************************************************************)
EXTENDS M3Matrix

CONSTANTS
    Registries,     \* registries a caller may load
    IdChoices,      \* V0/V1/V2 ids a caller may give, as [class -> id]
    Answers,        \* names of the answers the provider gives in a batch
    InstalledOracles,   \* revisions of the extractor a runner may have installed
    MaxRuns         \* bound on the number of invocations

\* A registry is a JSON document that lists its cases.
ASSUME BatchAssumption ==
    /\ MaxRuns \in Nat
    /\ Answers \subseteq DOMAIN AnswerOf
    /\ \A r \in Registries : r.cases \in Seq(Range(r.cases))

QUALIFICATION_CASE == "V1"

VARIABLES
    pc, runs, exit,
    job,            \* registry, plan, ids and installed oracle of this invocation
    toClear,        \* what execute_batch() still has to remove
    lanesTried,     \* of the qualification sweep
    qualified,      \* the qualifying artifact, if any
    cursor,         \* the loop over the plan's cells
    executed,       \* keys in the order they were probed
    documents,      \* the artifacts, in the same order
    disk,           \* the output directory
    foreign         \* some file there that is not the batch's holds a raw id

memory == <<job, lanesTried, qualified, cursor, executed, documents>>
vars == <<pc, runs, exit, memory, toClear, disk, foreign>>

NoSummary == [status |-> "none"]
EmptyDisk == [probes |-> {}, qualification |-> {}, qualifiedFile |-> {}, staging |-> {},
              matrix |-> <<>>, summary |-> NoSummary]

Init ==
    /\ pc = "idle" /\ runs = 0 /\ exit = "none"
    /\ job = [registry |-> <<>>]
    /\ toClear = <<>> /\ lanesTried = 0 /\ qualified = {} /\ cursor = 1
    /\ executed = <<>> /\ documents = <<>>
    /\ disk = EmptyDisk
    /\ foreign \in BOOLEAN

Ends(how) == pc' = "idle" /\ exit' = how

-------------------------------------------------------------------------------
(* Preflight *)

\* derive_case_inputs_from_source(): candidates are the ids quoted in the source.
DerivedIds(r, candidates) ==
    [class \in Classes(r) |-> {id \in candidates : Sha256(id) = CaseOf(r, class).fingerprint}]

\* _preflight_inputs()
PreflightOk(j) ==
    /\ \A class \in Range(CaseClasses) :
        CaseInputOk(j.registry, class, CaseOf(j.registry, class).revision, j.ids[class])
    /\ Len(j.plan.cells) = 3 * Len(PrimaryLanes)
    /\ j.plan.orderedLanes = j.registry.primaryLanes
    /\ \A lane \in Range(j.plan.orderedLanes) :
        Cardinality({i \in DOMAIN j.plan.cells :
            j.plan.cells[i].class = QUALIFICATION_CASE /\ j.plan.cells[i].lane = lane}) = 1

JobOk(j) == RegistryOk(j.registry) /\ PlanOk(j.plan, j.registry) /\ PreflightOk(j)

Jobs ==
    {[registry |-> r, plan |-> BuildPlan(q), ids |-> ids, oracle |-> oracle] :
        r \in Registries, q \in Registries, ids \in IdChoices, oracle \in InstalledOracles}

GoodJobs == {j \in Jobs : JobOk(j)}

\* The output directory is left as it is, the summary of an earlier run included.
StartRefused ==
    /\ pc = "idle" /\ runs < MaxRuns
    /\ Jobs \ GoodJobs # {}
    /\ runs' = runs + 1
    /\ Ends("failed")
    /\ UNCHANGED <<memory, toClear, disk, foreign>>

\* Mutant of Start: a summary of an earlier invocation is left where it is.
StartKeepingSummary ==
    /\ pc = "idle" /\ runs < MaxRuns
    /\ job' \in GoodJobs
    /\ runs' = runs + 1
    /\ exit' = "none"
    /\ pc' = "clearing"
    /\ toClear' = <<"probes", "qualification", "aggregate", "staging">>
    /\ lanesTried' = 0 /\ qualified' = {} /\ cursor' = 1
    /\ executed' = <<>> /\ documents' = <<>>
    /\ UNCHANGED <<disk, foreign>>

Start ==
    /\ pc = "idle" /\ runs < MaxRuns
    /\ job' \in GoodJobs
    /\ runs' = runs + 1
    /\ exit' = "none"
    /\ pc' = "clearing"
    /\ toClear' = <<"probes", "qualification", "aggregate", "staging", "summary">>
    /\ lanesTried' = 0 /\ qualified' = {} /\ cursor' = 1
    /\ executed' = <<>> /\ documents' = <<>>
    /\ UNCHANGED <<disk, foreign>>

Cleared(what) ==
    CASE what = "probes" -> [disk EXCEPT !.probes = {}]
      [] what = "qualification" -> [disk EXCEPT !.qualification = {}, !.qualifiedFile = {}]
      [] what = "aggregate" -> [disk EXCEPT !.matrix = <<>>]
      [] what = "staging" -> [disk EXCEPT !.staging = {}]
      [] OTHER -> [disk EXCEPT !.summary = NoSummary]

Clear ==
    /\ pc = "clearing"
    /\ disk' = Cleared(Head(toClear))
    /\ toClear' = Tail(toClear)
    /\ pc' = IF Tail(toClear) = <<>> THEN "qualifying" ELSE pc
    /\ UNCHANGED <<runs, exit, memory, foreign>>

-------------------------------------------------------------------------------
(* Cells *)

\* run_live_probe() and _build_artifact() for a cell.
Artifact(cell, answer) ==
    [class |-> cell.class, lane |-> cell.lane, profile |-> cell.lane,
     revision |-> cell.revision, fingerprint |-> Sha256(job.ids[cell.class]),
     commit |-> runs, producerRevision |-> runs, oracleRevision |-> job.oracle,
     answer |-> answer]

\* There is no artifact, or one that breaks its own contract: main() catches neither
\* what a lost response raises nor M3ContractError.
Uncaught(d) == d.answer \in Lost \/ ~DocumentOk(Told(d))

\* _run_cell(): the probe returns an artifact, and it is the registry's and the plan's.
Fits(d, cell) ==
    /\ d.answer \notin Lost
    /\ ProbeMatches(d, job.registry, FALSE)
    /\ d.commit = runs
    /\ d.fingerprint = cell.fingerprint
    /\ d.profile = cell.lane

RunCellFails(cell) ==
    /\ \E answer \in Answers :
        LET d == Artifact(cell, answer) IN
        /\ ~Fits(d, cell)
        /\ Ends(IF Uncaught(d) THEN "traceback" ELSE "failed")
    /\ UNCHANGED <<runs, memory, toClear, disk, foreign>>

Keeps(cell, d) ==
    /\ executed' = Append(executed, CellOf(cell))
    /\ documents' = Append(documents, d)

QualificationCell ==
    LET lane == job.plan.orderedLanes[lanesTried + 1] IN
    job.plan.cells[CHOOSE i \in DOMAIN job.plan.cells :
        job.plan.cells[i].class = QUALIFICATION_CASE /\ job.plan.cells[i].lane = lane]

\* The sweep over the V1 lanes ends with the first that qualifies.
QualifyLane ==
    /\ pc = "qualifying"
    /\ \E answer \in Answers :
        LET cell == QualificationCell
            d == Artifact(cell, answer)
            accepted == Qualifies(d, job.registry, QUALIFICATION_CASE)
        IN  /\ Fits(d, cell)
            /\ Keeps(cell, d)
            /\ disk' = [disk EXCEPT !.probes = @ \union {d}, !.qualification = @ \union {d}]
            /\ lanesTried' = lanesTried + 1
            /\ qualified' = IF accepted THEN {d} ELSE {}
            /\ pc' = IF accepted THEN "materializing"
                     ELSE IF lanesTried + 1 = Len(job.plan.orderedLanes) THEN "unqualified"
                     ELSE pc
    /\ UNCHANGED <<runs, exit, job, cursor, toClear, foreign>>

QualifyLaneFails == pc = "qualifying" /\ RunCellFails(QualificationCell)

\* A summary is written, and the invocation fails all the same.
NotQualified ==
    /\ pc = "unqualified"
    /\ disk' = [disk EXCEPT !.staging = {},
                            !.summary = [status |-> "QUALIFICATION_NOT_MET", commit |-> runs,
                                         probes |-> Len(documents)]]
    /\ Ends("failed")
    /\ UNCHANGED <<runs, memory, toClear, foreign>>

\* Mutant of Materialize: what the aggregator is shown is the first lane's artifact.
MaterializeFirst ==
    /\ pc = "materializing"
    /\ disk' = [disk EXCEPT !.qualifiedFile = qualified, !.staging = {Head(documents)}]
    /\ pc' = "matrix"
    /\ UNCHANGED <<runs, exit, memory, toClear, foreign>>

\* _materialize_qualification_for_aggregator()
Materialize ==
    /\ pc = "materializing"
    /\ disk' = [disk EXCEPT !.qualifiedFile = qualified, !.staging = qualified]
    /\ pc' = "matrix"
    /\ UNCHANGED <<runs, exit, memory, toClear, foreign>>

\* Mutant of Executed: the qualification attempts are not taken for matrix cells.
ExecutedAsMatrix(cell) ==
    \E i \in DOMAIN executed : i > lanesTried /\ executed[i] = CellOf(cell)

Executed(cell) == CellOf(cell) \in Range(executed)

Advance ==
    /\ cursor' = cursor + 1
    /\ pc' = IF cursor = Len(job.plan.cells) THEN "aggregating" ELSE pc

SkipExecutedCell ==
    /\ pc = "matrix"
    /\ Executed(job.plan.cells[cursor])
    /\ Advance
    /\ UNCHANGED <<runs, exit, job, lanesTried, qualified, executed, documents>>
    /\ UNCHANGED <<toClear, disk, foreign>>

MatrixCell ==
    /\ pc = "matrix"
    /\ ~Executed(job.plan.cells[cursor])
    /\ \E answer \in Answers :
        LET cell == job.plan.cells[cursor]
            d == Artifact(cell, answer)
        IN  /\ Fits(d, cell)
            /\ Keeps(cell, d)
            /\ disk' = [disk EXCEPT !.probes = @ \union {d}]
    /\ Advance
    /\ UNCHANGED <<runs, exit, job, lanesTried, qualified, toClear, foreign>>

MatrixCellFails ==
    /\ pc = "matrix"
    /\ ~Executed(job.plan.cells[cursor])
    /\ RunCellFails(job.plan.cells[cursor])

-------------------------------------------------------------------------------
(* The matrix and the summary *)

WriteMatrix ==
    /\ pc = "aggregating"
    /\ Len(documents) = 3 * Len(PrimaryLanes)
    /\ AggregateOk(job.registry, documents, disk.staging)
    /\ disk' = [disk EXCEPT !.matrix = Aggregate(job.registry, Range(documents))]
    /\ pc' = "summarizing"
    /\ UNCHANGED <<runs, exit, memory, toClear, foreign>>

WriteSummary ==
    /\ pc = "summarizing"
    /\ disk' = [disk EXCEPT !.staging = {},
                            !.summary = [status |-> "COMPLETE", commit |-> runs,
                                         probes |-> Len(documents)]]
    /\ pc' = "scanning"
    /\ UNCHANGED <<runs, exit, memory, toClear, foreign>>

\* _scan_bundle_for_raw_ids() reads everything in the directory, after the summary.
Scan ==
    /\ pc = "scanning"
    /\ Ends(IF foreign THEN "failed" ELSE "ok")
    /\ UNCHANGED <<runs, memory, toClear, disk, foreign>>

\* The job is cancelled; its output directory is found again by the next invocation.
Kill ==
    /\ pc # "idle"
    /\ Ends("killed")
    /\ UNCHANGED <<runs, memory, toClear, disk, foreign>>

Next ==
    \/ StartRefused \/ Start \/ Clear
    \/ QualifyLane \/ QualifyLaneFails \/ NotQualified \/ Materialize
    \/ SkipExecutedCell \/ MatrixCell \/ MatrixCellFails
    \/ WriteMatrix \/ WriteSummary \/ Scan
    \/ Kill

Spec == Init /\ [][Next]_vars

-------------------------------------------------------------------------------
(* Properties *)

Done(class) == {executed[i].lane : i \in {j \in DOMAIN executed : executed[j].class = class}}

\* The provider is asked about a cell at most once in an invocation, although two
\* loops walk over the V1 cells ("every not-yet-observed matrix cell exactly once"),
\* and about V0 and V2 not before a V1 artifact among those retained has qualified.
OneProbePerCell ==
    /\ IsInjective(executed)
    /\ Done("V0") \union Done("V2") # {} =>
        \E d \in qualified : d \in Range(documents) /\ Qualifies(d, job.registry, "V1")

\* A COMPLETE summary found on disk is that of the probes beside it: all the planned
\* cells, observed by the one invocation the summary names, with the matrix of them.
\* An invocation that is refused, fails or is killed leaves it so, unless it is killed
\* while it clears the directory: the summary is the last thing removed.
CompleteSummaryIsBacked ==
    disk.summary.status = "COMPLETE" /\ toClear = <<>> =>
        /\ Cardinality(disk.probes) = 3 * Len(PrimaryLanes)
        /\ \A d \in disk.probes : d.commit = disk.summary.commit
        /\ \E r \in Registries :
            /\ \A i \in DOMAIN PlannedCells(r) : \E d \in disk.probes :
                CellOf(d) = PlannedCells(r)[i]
            /\ disk.matrix = Aggregate(r, disk.probes)
        /\ \E d \in disk.qualifiedFile : d \in disk.probes

\* The sweep and the aggregator judge the qualification by two paths, one in memory and
\* one through the staged file: once every cell is probed the matrix is not refused.
AggregatorAgrees ==
    pc = "aggregating" => AggregateOk(job.registry, documents, disk.staging)

\* Whatever a provider that serves HTTPS answers, the artifact made of it, if none of its
\* responses is lost, keeps its contract, which is a table of its own: of a lost response
\* alone does the batch end by an exception that main() does not catch.  And what the matrix tells of a cell
\* was seen there: nothing is rejected for want of an observation ("UNKNOWN is never
\* coerced to ABSENT or REJECTED"), and a path that was seen to work is not reported as
\* gated because its siblings are.
ArtifactsTellWhatWasSeen ==
    /\ pc \in {"qualifying", "matrix"} => \A answer \in DOMAIN AnswerOf :
        answer \notin Lost /\ Observed[answer].capabilities.https = "PRESENT" =>
            DocumentOk(Observed[answer])
    /\ \A i \in DOMAIN documents :
        LET s == Told(documents[i])
            told == CellAssumptions(documents[i])
            started == \E p \in DOMAIN s.mediaProbes :
                s.mediaProbes[p].purpose = "STARTUP" /\ ReadSomething(s.mediaProbes[p])
        IN  /\ told.range = "REJECTED" =>
                \E p \in DOMAIN s.mediaProbes : s.mediaProbes[p].status = 200
            /\ told.anonymousStartup = "ACCEPTED" => started
            /\ told.anonymousStartup = "REJECTED" =>
                "ACCEPTED" \in {told.gvsPoTokenRequired, told.challengeRuntimeRequired}
            /\ told.gvsPoTokenRequired = "ACCEPTED" => ~started
===============================================================================
