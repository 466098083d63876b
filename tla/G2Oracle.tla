-------------------------------- MODULE G2Oracle --------------------------------
(***************************************************************************)
(* The oracle of a paired transport evaluation: what a document of trials  *)
(* proves about two backends, and how much a summary may claim of it.      *)
(*                                                                         *)
(* A trial row is a record.  A count or a duration that is null is -1.     *)
(***************************************************************************)
EXTENDS G2Plan

Null == -1

CorrectnessFields == {"range", "contentRange", "responseBounds", "publishedBytes"}
AllOf(status) == [field \in CorrectnessFields |-> status]

\* The visibility label is an observation, not an outcome.
RecoveryTuple(row) ==
    <<row.recovery.chains, row.recovery.owners, row.recovery.originRequests, row.recovery.retries>>

PerformanceMetricsPresent(row) == \E metric \in DOMAIN row.metrics : row.metrics[metric] # Null

PerformanceSampleContract(row) ==
    /\ row.eligibility = "ELIGIBLE"
    /\ row.result = "SUCCESS"
    /\ row.exactNetworkBound
    /\ row.correctness = AllOf("PASS")
    /\ row.recovery.chains >= 1 /\ row.recovery.owners >= 1
    /\ row.recovery.visibility # "OPAQUE"
    /\ row.recovery.visibility = "PROVEN_ZERO" => row.recovery.retries = 0

-------------------------------------------------------------------------------
(* analyze_trials(): what it refuses *)

EligibilityOk(row) ==
    IF row.eligibility = "ELIGIBLE"
    THEN row.exactNetworkBound /\ row.permitRouteEpoch # Null /\ row.result # "UNAVAILABLE"
    ELSE ~row.performanceSampleEligible

UnavailableOk(row) ==
    row.eligibility = "UNAVAILABLE_ON_DEVICE" =>
        /\ row.result = "UNAVAILABLE"
        /\ ~PerformanceMetricsPresent(row)
        /\ row.recovery.chains = 0 /\ row.recovery.owners = 0 /\ row.recovery.originRequests = 0
        /\ row.correctness = AllOf("NOT_APPLICABLE")

VisibilityOk(row) ==
    CASE row.recovery.visibility = "PROVEN_ZERO" -> row.recovery.retries = 0
      [] row.recovery.visibility = "OBSERVABLE" -> row.recovery.retries # Null
      [] OTHER -> row.recovery.retries = Null

SampleOk(row) ==
    /\ row.performanceSampleEligible = PerformanceSampleContract(row)
    /\ PerformanceSampleContract(row) =>
        /\ Null \notin {row.metrics[metric] : metric \in {"firstByteUs", "completionUs", "bytesRequested",
                                                          "bytesReceived", "bytesPublished"}}
        /\ row.metrics.firstByteUs <= row.metrics.completionUs
        /\ row.metrics.bytesPublished <= row.metrics.bytesReceived

ComparedBackends(trials) == {trials[i].backendId : i \in DOMAIN trials}
Block(trials, block) == {i \in DOMAIN trials : trials[i].orderingBlock = block}
BlockIds(trials) == {trials[i].orderingBlock : i \in DOMAIN trials}
Positions(trials, backend, position) ==
    Cardinality({i \in DOMAIN trials :
                    trials[i].backendId = backend /\ trials[i].positionInBlock = position})

BackendsConsistent(trials) ==
    \A i, j \in DOMAIN trials : trials[i].backendId = trials[j].backendId =>
        /\ trials[i].eligibility = trials[j].eligibility
        /\ trials[i].backendVersion = trials[j].backendVersion
        /\ trials[i].implementationId = trials[j].implementationId

\* Both protocols ask for one row of every backend in every block; they differ
\* in the positions they balance.
Balanced(trials, protocol) ==
    LET backends == ComparedBackends(trials)
        balancedAt(position) ==
            \A b, c \in backends : Positions(trials, b, position) - Positions(trials, c, position) <= 1
    IN  /\ protocol = "COUNTERBALANCED_PAIRS" => Cardinality(backends) = 2
        /\ \A block \in BlockIds(trials) :
            /\ Cardinality(Block(trials, block)) = Cardinality(backends)
            /\ {trials[i].backendId : i \in Block(trials, block)} = backends
            /\ {trials[i].positionInBlock : i \in Block(trials, block)} = 1 .. Cardinality(backends)
        /\ balancedAt(1)
        /\ protocol # "COUNTERBALANCED_PAIRS" => \A position \in 1 .. Cardinality(backends) : balancedAt(position)

AnalyzesTrials(document) ==
    LET trials == document.trials
    IN  /\ \A i, j \in DOMAIN trials : trials[i].trialId = trials[j].trialId => i = j
        /\ Cardinality(ComparedBackends(trials)) >= 2
        /\ \A i \in DOMAIN trials : trials[i].comparison = trials[1].comparison
        /\ BackendsConsistent(trials)
        /\ \A i \in DOMAIN trials :
            EligibilityOk(trials[i]) /\ UnavailableOk(trials[i]) /\ VisibilityOk(trials[i]) /\ SampleOk(trials[i])
        /\ Balanced(trials, document.orderingProtocol)

-------------------------------------------------------------------------------
(* analyze_trials(): what it concludes *)

EligibleTrials(trials) == {i \in DOMAIN trials : trials[i].eligibility = "ELIGIBLE"}
PairedEligible(trials) == Cardinality({trials[i].backendId : i \in EligibleTrials(trials)}) >= 2

CorrectnessEquivalent(trials) ==
    /\ PairedEligible(trials)
    /\ \A i \in EligibleTrials(trials) : trials[i].correctness = AllOf("PASS") /\ trials[i].result = "SUCCESS"

RecoveryEquivalent(trials) ==
    /\ PairedEligible(trials)
    /\ \A i, j \in EligibleTrials(trials) : RecoveryTuple(trials[i]) = RecoveryTuple(trials[j])
    /\ \A i \in EligibleTrials(trials) : trials[i].recovery.visibility # "OPAQUE"

RouteEquivalent(trials) ==
    PairedEligible(trials) /\ \A i \in EligibleTrials(trials) : trials[i].exactNetworkBound

PairedPerformanceBlocks(trials) ==
    Cardinality({block \in BlockIds(trials) :
        /\ {trials[i].backendId : i \in Block(trials, block)} = ComparedBackends(trials)
        /\ \A i \in Block(trials, block) : trials[i].performanceSampleEligible})

===============================================================================
