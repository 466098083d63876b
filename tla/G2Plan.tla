--------------------------------- MODULE G2Plan ---------------------------------
(***************************************************************************)
(* The frozen plan of a paired transport experiment (M2-G2): which         *)
(* scenario is replayed, over which inputs, in which counterbalanced order *)
(* the two backends take their turns, and how results are bound to it.     *)
(*                                                                         *)
(* A hash or a fingerprint is the value it is made of: two are equal when  *)
(* what they stand for is.  A field of an input file is "frozen" (the      *)
(* value the experiment was defined with), "other" (a value of the right   *)
(* form) or "absent".                                                      *)
(***************************************************************************)
EXTENDS Integers, Sequences, FiniteSets

CONSTANT FirstBackend   \* the backend the ordering seed puts first, by profile

BACKENDS == <<"HTTP_URL_CONNECTION_ROUTE_BOUND", "PLATFORM_HTTP_ENGINE">>
Backends == {BACKENDS[1], BACKENDS[2]}
Profiles == {"N0", "N2", "N3", "N5", "N5GE", "N6", "N6R"}

NoSeed == 0
FrozenSeed == 424242
OrderingSeed == 20261001

ASSUME FirstBackendAssumption == FirstBackend \in [Profiles -> Backends]

-------------------------------------------------------------------------------
(* Scenarios *)

Family == [p \in Profiles |-> CASE p = "N5GE" -> "N5" [] p = "N6R" -> "N6" [] OTHER -> p]
Variant ==
    [N0 |-> "CONTROL", N2 |-> "HIGH_RTT_JITTER", N3 |-> "BURST_PACKET_LOSS", N5 |-> "BURST_LOSS",
     N5GE |-> "BURST_LOSS_GE_MOMENT_MATCH", N6 |-> "TRANSPORT_RESET", N6R |-> "DEFAULT_ROUTE_LOSS_RESTORE"]

\* FROZEN_STOCHASTIC_SEEDS
Stochastic == {"N2", "N5", "N5GE"}

\* G2_SCENARIO_HASHES: the documents with these hashes.  "faults" is the rest of
\* the document.
FrozenScenario(profile) ==
    [family |-> Family[profile], variant |-> Variant[profile],
     seed |-> IF profile \in Stochastic THEN FrozenSeed ELSE NoSeed,
     stochastic |-> profile \in Stochastic, faults |-> "frozen"]

ScenarioHash(scenario) == scenario

ProfileOf(scenario) ==
    CHOOSE p \in Profiles : Family[p] = scenario.family /\ Variant[p] = scenario.variant

ValidateG2Scenario(scenario) ==
    /\ \E p \in Profiles : Family[p] = scenario.family /\ Variant[p] = scenario.variant
    /\ ScenarioHash(scenario) = ScenarioHash(FrozenScenario(ProfileOf(scenario)))
    /\ IF ProfileOf(scenario) \in Stochastic
       THEN scenario.stochastic /\ scenario.seed = FrozenSeed
       ELSE ~scenario.stochastic => scenario.seed = NoSeed

-------------------------------------------------------------------------------
(* Inputs of the comparison *)

WorkFields == {"fixtureId", "trackId", "representationId", "byteStart", "byteEndExclusive", "expectedSha256"}
DeviceFields == {"androidApi", "deviceClass", "abi", "batteryPolicy"}
CacheFields == {"extentStore", "httpCache"}
RecoveryFields ==
    {"policyId", "remoteAttemptLimit", "deliveryBindingRefreshLimit", "backoffBaseMs", "backoffCapMs",
     "backoffAlgorithm", "jitterProtocol", "jitterSeed"}
RouteFields == {"defaultRouteRequired", "ambientFallback", "processWideBinding"}

InputFields ==
    [work |-> WorkFields, deviceState |-> DeviceFields, cacheState |-> CacheFields,
     recoveryPolicy |-> RecoveryFields, routePolicy |-> RouteFields]
InputNames == DOMAIN InputFields

FrozenInputs == [name \in InputNames |-> [field \in InputFields[name] |-> "frozen"]]

RequireKeys(input) == \A field \in DOMAIN input : input[field] # "absent"
Fixed(input, fields) == \A field \in fields : input[field] = "frozen"

\* Any named unit of work will do here: the verifiers pin it (FrozenWork).
WorkOk(work) == RequireKeys(work)
DeviceOk(device) == RequireKeys(device) /\ Fixed(device, {"androidApi", "deviceClass"})
CacheOk(cache) == RequireKeys(cache) /\ Fixed(cache, CacheFields)
RecoveryOk(recovery) == RequireKeys(recovery) /\ Fixed(recovery, RecoveryFields)
RouteOk(route) == RequireKeys(route) /\ Fixed(route, RouteFields)

InputSemantics(inputs) ==
    /\ WorkOk(inputs.work)
    /\ DeviceOk(inputs.deviceState)
    /\ CacheOk(inputs.cacheState)
    /\ RecoveryOk(inputs.recoveryPolicy)
    /\ RouteOk(inputs.routePolicy)

\* validate_frozen_work() of every verifier
FrozenWork(work) == work = FrozenInputs.work

Comparison(scenario, inputs) ==
    [scenarioHash |-> ScenarioHash(scenario), inputs |-> inputs, playbackMode |-> "SPONGE",
     connectionState |-> "COLD"]

-------------------------------------------------------------------------------
(* The plan *)

OtherBackend(backend) == IF backend = BACKENDS[1] THEN BACKENDS[2] ELSE BACKENDS[1]

ExpectedOrder(scenario, block) ==
    LET drawn == FirstBackend[ProfileOf(scenario)]
        first == IF block % 2 = 0 THEN OtherBackend(drawn) ELSE drawn
    IN  <<first, OtherBackend(first)>>

PlannedRow(scenario, inputs, block, position) ==
    [trialId |-> <<block, position>>, backendId |-> ExpectedOrder(scenario, block)[position],
     positionInBlock |-> position, comparison |-> Comparison(scenario, inputs)]

PlanBlocks == 2

BuildPlan(runId, scenario, inputs) ==
    [runId |-> runId, scenario |-> scenario, comparison |-> Comparison(scenario, inputs),
     orderingSeed |-> OrderingSeed, orderingProtocol |-> "COUNTERBALANCED_PAIRS",
     blocks |-> [block \in 1 .. PlanBlocks |->
                    [position \in 1 .. 2 |-> PlannedRow(scenario, inputs, block, position)]],
     stochasticReset |-> scenario.stochastic]

PlanIdentity(plan, scenario, inputs) ==
    /\ ValidateG2Scenario(scenario)
    /\ InputSemantics(inputs)
    /\ plan.orderingProtocol = "COUNTERBALANCED_PAIRS"
    /\ Len(plan.blocks) >= 2 /\ Len(plan.blocks) % 2 = 0
    /\ plan.scenario = scenario
    /\ plan.comparison = Comparison(scenario, inputs)
    /\ plan.stochasticReset = scenario.stochastic

FirstPositions(plan, backend) ==
    {block \in DOMAIN plan.blocks : plan.blocks[block][1].backendId = backend}

PlanOrder(plan, scenario, inputs) ==
    /\ \A block \in DOMAIN plan.blocks :
        /\ Len(plan.blocks[block]) = 2
        /\ \A position \in 1 .. 2 :
            /\ plan.blocks[block][position].backendId = ExpectedOrder(scenario, block)[position]
            /\ plan.blocks[block][position].trialId = <<block, position>>
            /\ plan.blocks[block][position].positionInBlock = position
            /\ plan.blocks[block][position].comparison = Comparison(scenario, inputs)
    /\ Cardinality(FirstPositions(plan, BACKENDS[1])) = Cardinality(FirstPositions(plan, BACKENDS[2]))

ValidatePlan(plan, scenario, inputs) ==
    PlanIdentity(plan, scenario, inputs) /\ PlanOrder(plan, scenario, inputs)

\* The trials in the order they are run.
PlannedTrialSchedule(plan) ==
    [i \in 1 .. 2 * Len(plan.blocks) |->
        LET block == (i + 1) \div 2
            row == plan.blocks[block][2 - (i % 2)]
        IN  [trialId |-> row.trialId, orderingBlock |-> block, positionInBlock |-> row.positionInBlock,
             backendId |-> row.backendId]]

-------------------------------------------------------------------------------
(* Results *)

ScheduleFields(row) == <<row.trialId, row.orderingBlock, row.positionInBlock, row.backendId>>

ValidateTrialsAgainstPlan(plan, document, scenario, inputs) ==
    /\ ValidatePlan(plan, scenario, inputs)
    /\ document.runId = plan.runId
    /\ document.orderingProtocol = plan.orderingProtocol /\ document.orderingSeed = plan.orderingSeed
    /\ document.deviceClass = inputs.deviceState.deviceClass
    /\ document.androidApi = inputs.deviceState.androidApi
    /\ [i \in DOMAIN document.trials |-> ScheduleFields(document.trials[i])]
           = [i \in DOMAIN PlannedTrialSchedule(plan) |-> ScheduleFields(PlannedTrialSchedule(plan)[i])]
    /\ \A i \in DOMAIN document.trials : document.trials[i].comparison = plan.comparison

\* recovery_jitter_sample(): what the seed gives for the i-th backoff of a trial.
JitterSample(index, window) == <<index, window>>
===============================================================================
