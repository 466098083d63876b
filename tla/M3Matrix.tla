------------------------------- MODULE M3Matrix -------------------------------
(***************************************************************************)
(* m3_matrix.py: the frozen registry of cases, the plan it expands to,     *)
(* which probe artifacts belong to it, the qualification of case V1, and   *)
(* the aggregation of artifacts into one matrix.                           *)
(*                                                                         *)
(* A registry is a record; ids, revisions, lanes and commits are values.   *)
(* Left out: the spelling of its fields and of paths, and the digests,     *)
(* which stand for what they digest.                                       *)
(***************************************************************************)
EXTENDS M3Probe, SequencesExt

CONSTANTS
    PrimaryLanes,       \* EXPECTED_PRIMARY_LANES, in order
    DeferredLanes,
    OracleRevision,     \* EXPECTED_ORACLE_REVISION
    AnswerOf            \* what a provider may answer to a probe, by name, see M3Probe

ASSUME MatrixAssumption ==
    /\ PrimaryLanes \in Seq(Range(PrimaryLanes)) /\ PrimaryLanes # <<>>
    /\ \A a \in DOMAIN AnswerOf : AnswerOk(AnswerOf[a])

CaseClasses == <<"V0", "V1", "V2">>

\* The digest of an id tells ids apart and is none of them.
Sha256(id) == <<"sha256", id>>

-------------------------------------------------------------------------------
(* The registry and its plan *)

QualificationMode(class) == IF class = "V1" THEN "PROBE_EVIDENCE" ELSE "REFERENCE_FIXTURE"

RequiredLayouts(class) == IF class = "V1" THEN {"SPLIT_AV", "MULTIPLE"} ELSE {}

\* validate_registry()
RegistryOk(r) ==
    /\ r.oracleRevision = OracleRevision
    /\ r.primaryLanes = PrimaryLanes
    /\ r.deferredLanes = DeferredLanes
    /\ Len(r.cases) = 3
    /\ \A i \in 1 .. 3 :
        /\ r.cases[i].class = CaseClasses[i]
        /\ r.cases[i].mode = QualificationMode(CaseClasses[i])
        /\ r.cases[i].layouts = RequiredLayouts(CaseClasses[i])
    /\ \A i, j \in 1 .. 3 :
        i # j => /\ r.cases[i].revision # r.cases[j].revision
                 /\ r.cases[i].fingerprint # r.cases[j].fingerprint

CaseOf(r, class) == r.cases[CHOOSE i \in DOMAIN r.cases : r.cases[i].class = class]

Classes(r) == {r.cases[i].class : i \in DOMAIN r.cases}

\* planned_cells(): case by case, lane by lane.
PlannedCells(r) ==
    LET n == Len(r.primaryLanes) IN
    [i \in 1 .. Len(r.cases) * n |->
        [class |-> r.cases[((i - 1) \div n) + 1].class,
         lane |-> r.primaryLanes[((i - 1) % n) + 1]]]

\* build_plan()
BuildPlan(r) ==
    [registry |-> r,
     cells |-> [i \in DOMAIN PlannedCells(r) |->
        LET cell == PlannedCells(r)[i] IN
        [class |-> cell.class,
         lane |-> cell.lane,
         revision |-> CaseOf(r, cell.class).revision,
         fingerprint |-> CaseOf(r, cell.class).fingerprint]],
     orderedLanes |-> r.primaryLanes]

\* validate_plan(): exactly the expansion of the registry.
PlanOk(plan, r) == plan = BuildPlan(r)

-------------------------------------------------------------------------------
(* Which artifacts belong to the matrix *)

\* An artifact names the answer it was made of; this is what it says of it.
Observed == [a \in DOMAIN AnswerOf |-> Observe(AnswerOf[a])]
Told(d) == Observed[d.answer]

\* The answers of which the probe makes no artifact.
Lost == {a \in DOMAIN AnswerOf : ResponseLost(AnswerOf[a])}

\* validate_probe_against_registry()
ProbeMatches(d, r, allowDeferred) ==
    /\ DocumentOk(Told(d))
    /\ d.producerRevision = d.commit
    /\ d.oracleRevision = r.oracleRevision
    /\ d.class \in Classes(r)
    /\ d.revision = CaseOf(r, d.class).revision
    /\ d.fingerprint = CaseOf(r, d.class).fingerprint
    /\ d.lane \in Range(r.primaryLanes)
                  \union (IF allowDeferred THEN Range(r.deferredLanes) ELSE {})
    /\ d.profile = d.lane

\* validate_case_input(), called without a lane.
CaseInputOk(r, class, revision, id) ==
    /\ class \in Classes(r)
    /\ revision = CaseOf(r, class).revision
    /\ Sha256(id) = CaseOf(r, class).fingerprint

ReadFor(d, purpose) ==
    \E i \in DOMAIN Told(d).mediaProbes :
        /\ Told(d).mediaProbes[i].purpose = purpose
        /\ Told(d).mediaProbes[i].bytesRead > 0

\* validate_qualification_document()
Qualifies(d, r, class) ==
    /\ class \in Classes(r)
    /\ CaseOf(r, class).mode = "PROBE_EVIDENCE"
    /\ ProbeMatches(d, r, TRUE)
    /\ d.class = class
    /\ d.lane \in Range(r.primaryLanes)
    /\ Told(d).delivery.mediaLayout \in CaseOf(r, class).layouts
    /\ Told(d).capabilities.https = "PRESENT"
    /\ \A purpose \in {"VIDEO", "AUDIO"} : ReadFor(d, purpose)

\* ensure_case_qualified(): retained is the artifact at the evidence path, or none.
CaseQualified(r, class, retained) ==
    CaseOf(r, class).mode = "PROBE_EVIDENCE" =>
        retained # {} /\ \A d \in retained : Qualifies(d, r, class)

-------------------------------------------------------------------------------
(* Aggregation *)

TriState(value) ==
    CASE value = "PRESENT" -> "ACCEPTED"
      [] value = "ABSENT" -> "REJECTED"
      [] OTHER -> "UNKNOWN"

RequirementState(value) ==
    CASE value = "REQUIRED" -> "ACCEPTED"
      [] value \in {"NOT_REQUIRED", "NOT_APPLICABLE"} -> "REJECTED"
      [] OTHER -> "UNKNOWN"

AnonymousState(outcome) ==
    CASE outcome = "VIABLE_ANONYMOUS" -> "ACCEPTED"
      [] outcome \in {"TOKEN_GATED", "CHALLENGE_GATED", "DRM_GATED", "UNSUPPORTED_DELIVERY"} ->
            "REJECTED"
      [] OTHER -> "UNKNOWN"

\* _cell_assumptions()
CellAssumptions(d) ==
    LET s == Told(d) IN
    [anonymousStartup |-> AnonymousState(s.outcome),
     directHttps |-> TriState(s.capabilities.https),
     range |-> TriState(s.delivery.range),
     gvsPoTokenRequired |-> RequirementState(s.requirements.gvsPoToken),
     playerPoTokenRequired |-> RequirementState(s.requirements.playerPoToken),
     challengeRuntimeRequired |-> RequirementState(s.requirements.challengeRuntime),
     sabrObserved |-> TriState(s.capabilities.sabr),
     drmObserved |-> TriState(s.capabilities.drm)]

CellOf(d) == [class |-> d.class, lane |-> d.lane]

\* The documents that aggregate_probes() accepts, retained being the qualification
\* artifact it finds on disk.
AggregateOk(r, documents, retained) ==
    /\ \A i \in DOMAIN documents :
        /\ ProbeMatches(documents[i], r, FALSE)
        /\ CaseQualified(r, documents[i].class, retained)
    /\ \A i, j \in DOMAIN documents :
        /\ documents[i].commit = documents[j].commit
        /\ CellOf(documents[i]) = CellOf(documents[j]) => i = j
    /\ Len(documents) = Len(PlannedCells(r))

\* The report of a complete matrix: what is told of each planned cell.
Aggregate(r, observed) ==
    [i \in DOMAIN PlannedCells(r) |->
        LET cell == PlannedCells(r)[i]
            d == CHOOSE o \in observed : CellOf(o) = cell
        IN  [class |-> cell.class, lane |-> cell.lane, outcome |-> Told(d).outcome,
             assumptions |-> CellAssumptions(d)]]
===============================================================================
