------------------------------- MODULE G2Evidence -------------------------------
(***************************************************************************)
(* The evidence of one trial of a paired transport experiment, and what    *)
(* the verifiers check of it on its own: the raw document the device       *)
(* writes, the state and the lifecycle the fault harness retains, the      *)
(* rows of the Media Lab's trace, the environment.                         *)
(*                                                                         *)
(* A value that is only ever compared with a frozen one is "frozen" or     *)
(* "other".  Instants are small integers.  A correlation id that is absent *)
(* is Null.  The length of the resource is ResourceLength units.           *)
(***************************************************************************)
EXTENDS G2Oracle

ResourceLength == 2
BackoffBaseMs == 500
BackoffCapMs == 5000
RemoteAttemptLimit == 4

Sorted(s) == \A i, j \in DOMAIN s : i < j => s[i] <= s[j]
Distinct(s) == \A i, j \in DOMAIN s : s[i] = s[j] => i = j
Elements(s) == {s[i] : i \in DOMAIN s}

\* The elements of s that are in S, in their order, and the sum of a sequence of numbers.
Among(s, S) ==
    LET chosen[i \in 0 .. Len(s)] ==
            IF i = 0 THEN << >> ELSE IF s[i] \in S THEN Append(chosen[i - 1], s[i]) ELSE chosen[i - 1]
    IN  chosen[Len(s)]
SumOf(s) ==
    LET sum[i \in 0 .. Len(s)] == IF i = 0 THEN 0 ELSE sum[i - 1] + s[i]
    IN  sum[Len(s)]

Present(s) == Among(s, Nat)

-------------------------------------------------------------------------------
(* The raw document of a trial: check_raw() of the network verifier, which *)
(* the transport and the route verifiers use too.                          *)

Identity(raw, phase, scenario, plan, expected) ==
    /\ raw.phase = phase /\ raw.family = scenario.family /\ raw.variant = scenario.variant
    /\ raw.runId = plan.runId
    /\ \A field \in {"trialId", "orderingBlock", "positionInBlock", "backendId"} : raw.row[field] = expected[field]
    /\ raw.row.comparison = plan.comparison
    /\ raw.row.eligibility = "ELIGIBLE" /\ raw.row.result = "SUCCESS"

RouteProof(raw) == raw.row.exactNetworkBound /\ raw.row.permitRouteEpoch > 0

\* A raw row may not certify its own retries, nor that it is a sample.
NotSelfCertified(raw) ==
    /\ raw.row.recovery.visibility = "OPAQUE" /\ raw.row.recovery.retries = Null
    /\ ~raw.row.performanceSampleEligible
    /\ raw.row.disclosed

RecoveryRow(raw) ==
    /\ raw.row.recovery.chains = 1 /\ raw.row.recovery.owners >= 1
    /\ raw.row.recovery.originRequests = Len(raw.proof.correlated)

Metrics(raw) ==
    /\ \A metric \in {"firstByteUs", "completionUs", "cpuTimeUs", "bytesRequested", "bytesReceived", "bytesPublished"} :
        raw.row.metrics[metric] >= 0
    /\ raw.row.metrics.firstByteUs <= raw.row.metrics.completionUs
    /\ raw.row.metrics.bytesRequested = ResourceLength /\ raw.row.metrics.bytesPublished = ResourceLength
    /\ raw.row.metrics.bytesReceived >= ResourceLength
    /\ raw.row.metrics.cancellationLatencyUs = Null

\* Mutant of Cold: a warm session goes unnoticed.
ColdOrReused(raw, inputs) ==
    /\ raw.proof.committed = "frozen"
    /\ raw.proof.storeEmpty
    /\ raw.proof.bindingRevision = "frozen"
    /\ raw.proof.androidApi = inputs.deviceState.androidApi /\ raw.proof.abi = inputs.deviceState.abi

Cold(raw, inputs) ==
    /\ raw.proof.committed = "frozen"
    /\ raw.proof.storeEmpty /\ raw.proof.sessionFresh
    /\ raw.proof.bindingRevision = "frozen"
    /\ raw.proof.androidApi = inputs.deviceState.androidApi /\ raw.proof.abi = inputs.deviceState.abi

RouteEpochs(raw, replaced) ==
    LET proof == raw.proof
        permit == raw.row.permitRouteEpoch
    IN  /\ proof.routeBefore = permit
        /\ Len(proof.permitEpochs) = raw.row.recovery.owners
        /\ IF replaced
           THEN proof.routeAfter > permit /\ proof.permitEpochs = <<permit, proof.routeAfter>>
           ELSE proof.routeAfter = permit /\ Elements(proof.permitEpochs) \subseteq {permit}

Anchors(raw) ==
    LET proof == raw.proof
    IN  /\ Sorted(<<proof.chainStart, proof.firstProgress, proof.chainEnd>>)
        /\ raw.row.metrics.firstByteUs = proof.firstProgress - proof.chainStart
        /\ raw.row.metrics.completionUs = proof.chainEnd - proof.chainStart

AttemptSequence(raw) ==
    LET attempts == raw.proof.attempts
    IN  /\ Len(attempts) = raw.row.recovery.owners /\ attempts # << >>
        /\ raw.proof.resolutions = Len(attempts)
        /\ \A i \in DOMAIN attempts :
            attempts[i].terminal = IF i = Len(attempts) THEN "ATTEMPT_COMPLETED" ELSE "ATTEMPT_FAILED"

AttemptTimes(raw) ==
    LET attempts == raw.proof.attempts
        times == [i \in 1 .. 2 * Len(attempts) |->
                    IF i % 2 = 1 THEN attempts[(i + 1) \div 2].start ELSE attempts[i \div 2].end]
    IN  Sorted(<<raw.proof.chainStart>> \o times \o <<raw.proof.chainEnd>>)

ByteAccounting(raw) ==
    SumOf([i \in DOMAIN raw.proof.attempts |-> raw.proof.attempts[i].bytes]) = raw.row.metrics.bytesReceived

CorrelationLineage(raw) ==
    LET attempts == raw.proof.attempts
    IN  /\ Distinct(raw.proof.correlated)
        /\ Present([i \in DOMAIN attempts |-> attempts[i].correlation]) = raw.proof.correlated
        /\ attempts[Len(attempts)].correlation # Null

PhaseOrder == <<"RESPONSE_HEADERS", "FIRST_BODY_BYTES", "RESPONSE_BODY_COMPLETE">>
Owned(raw, attempt) ==
    Among(raw.proof.phases, {phase \in Elements(raw.proof.phases) : attempt.start <= phase.at /\ phase.at <= attempt.end})
Kinds(phases) == [i \in DOMAIN phases |-> phases[i].kind]

Phases(raw) ==
    /\ Sorted([i \in DOMAIN raw.proof.phases |-> raw.proof.phases[i].at])
    /\ \A i \in DOMAIN raw.proof.attempts :
        LET kinds == Kinds(Owned(raw, raw.proof.attempts[i]))
        IN  /\ Len(kinds) <= Len(PhaseOrder) /\ kinds = SubSeq(PhaseOrder, 1, Len(kinds))
            /\ (Len(kinds) = Len(PhaseOrder)) = (raw.proof.attempts[i].terminal = "ATTEMPT_COMPLETED")

\* The first chunk the broker accepted comes from exactly one owner's body.
ProgressOwner(raw) ==
    Cardinality({i \in DOMAIN raw.proof.attempts :
        LET attempt == raw.proof.attempts[i]
            owned == Owned(raw, attempt)
        IN  /\ attempt.start <= raw.proof.firstProgress /\ raw.proof.firstProgress <= attempt.end
            /\ attempt.bytes > 0
            /\ \E p \in DOMAIN owned : owned[p].kind = "FIRST_BODY_BYTES" /\ owned[p].at <= raw.proof.firstProgress}) = 1

FailureLineage(raw) ==
    LET failures == raw.proof.failures
    IN  /\ Len(failures) = Len(raw.proof.attempts) - 1 /\ raw.proof.failureCount = Len(failures)
        /\ \A i \in DOMAIN failures :
            /\ failures[i].observation = "TRANSPORT_IO"
            /\ failures[i].classification = "TRANSIENT_TRANSPORT"
            /\ failures[i].decision = "RETRY_AFTER_BACKOFF"
            /\ failures[i].fetchId = raw.proof.attempts[i].fetchId

Window(ordinal) ==
    LET doubled == BackoffBaseMs * 2 ^ (ordinal - 1) IN IF doubled < BackoffCapMs THEN doubled ELSE BackoffCapMs

Backoffs(raw) ==
    LET backoffs == raw.proof.backoffs
    IN  /\ Len(backoffs) = Len(raw.proof.failures)
        /\ \A i \in DOMAIN backoffs :
            /\ backoffs[i].ordinal = i /\ backoffs[i].window = Window(i)
            /\ backoffs[i].delay = JitterSample(i - 1, Window(i))
        /\ raw.proof.jitter = "frozen"
        /\ raw.proof.samples = [i \in DOMAIN backoffs |-> backoffs[i].delay]

Policy(raw) ==
    /\ raw.proof.timeouts = "frozen" /\ raw.proof.policy = "frozen"
    /\ raw.row.recovery.owners <= RemoteAttemptLimit

CheckRaw(raw, phase, scenario, plan, expected, inputs, replaced) ==
    /\ Identity(raw, phase, scenario, plan, expected) /\ RouteProof(raw)
    /\ raw.row.correctness = AllOf("PASS")
    /\ RecoveryRow(raw) /\ NotSelfCertified(raw) /\ Metrics(raw)
    /\ Cold(raw, inputs) /\ RouteEpochs(raw, replaced) /\ Anchors(raw)
    /\ AttemptSequence(raw) /\ AttemptTimes(raw) /\ ByteAccounting(raw) /\ CorrelationLineage(raw)
    /\ Phases(raw) /\ ProgressOwner(raw) /\ FailureLineage(raw) /\ Backoffs(raw) /\ Policy(raw)

\* check_raw() of the N0 verifier: one owner, one request, no jitter.  Its
\* document names the parts of the one attempt one by one.
CheckRawN0(raw, scenario, plan, expected, inputs) ==
    /\ Identity(raw, "M2-G2-B-N0", scenario, plan, expected) /\ RouteProof(raw)
    /\ raw.row.correctness = AllOf("PASS")
    /\ raw.row.recovery.owners = 1 /\ Len(raw.proof.correlated) = 1
    /\ RecoveryRow(raw) /\ NotSelfCertified(raw) /\ Metrics(raw)
    /\ raw.row.metrics.bytesReceived = ResourceLength
    /\ Cold(raw, inputs) /\ RouteEpochs(raw, FALSE) /\ Anchors(raw)
    /\ AttemptSequence(raw) /\ AttemptTimes(raw) /\ raw.proof.attempts[1].correlation = raw.proof.correlated[1]
    /\ Phases(raw) /\ Len(raw.proof.phases) = 3
    /\ raw.proof.attempts[1].start <= raw.proof.firstProgress /\ raw.proof.firstProgress <= raw.proof.attempts[1].end
    /\ raw.proof.phases[2].at <= raw.proof.firstProgress
    /\ raw.proof.jitter = "frozen" /\ raw.proof.samples = << >>
    /\ raw.proof.timeouts = "frozen" /\ raw.proof.policy = "frozen"

SuccessfulRequest(raw) == raw.proof.attempts[Len(raw.proof.attempts)].correlation

-------------------------------------------------------------------------------
(* The replay count a partition of the trace shows *)

\* Mutant of DerivedRetries: an uncorrelated owner is taken for silent.
DerivedRetriesAssumingSilence(owners, correlated, origin) ==
    [visibility |-> "OBSERVABLE", retries |-> origin - correlated]

DerivedRetries(owners, correlated, origin) ==
    IF origin = correlated THEN [visibility |-> "OBSERVABLE", retries |-> 0]
    ELSE IF owners = correlated THEN [visibility |-> "OBSERVABLE", retries |-> origin - correlated]
    ELSE [visibility |-> "OPAQUE", retries |-> Null]

OriginRowOk(row) ==
    /\ row.plane = "data" /\ row.range = "frozen"
    /\ row.outcome \in {"SUCCESS", "CLIENT_DISCONNECTED", "SERVER_IO_ERROR"}
    /\ 0 <= row.body /\ row.body <= ResourceLength
    /\ row.outcome = "SUCCESS" => row.body = ResourceLength

SuccessfulRowOk(row) == row.outcome = "SUCCESS" /\ row.body = ResourceLength

-------------------------------------------------------------------------------
(* The network harness: its readback, its lifecycle, its counters *)

Lifecycle == <<"HARNESS_STARTED", "FAULT_ARMED", "FAULT_APPLIED", "FAULT_REMOVED", "HARNESS_STOPPED">>

\* The harness' operations among the events of the host's log, which is in the
\* order of the host's clock.
Operations(log) == Among(log, Elements(Lifecycle))

HarnessIdentity(harness, plan) ==
    harness.runId = plan.runId /\ harness.scenarioHash = ScenarioHash(plan.scenario)

NetworkHarnessOk(profile, harness, plan) ==
    /\ harness.active = "frozen" /\ harness.clean = "clean"
    /\ HarnessIdentity(harness, plan)
    /\ Operations(harness.log) = Lifecycle
    /\ harness.options = "frozen" /\ harness.filter = "frozen"
    /\ IF profile = "N3" THEN harness.finalDrops > 0 ELSE harness.packets > 0
    /\ harness.scopeAdvanced
    /\ profile = "N3" => harness.baselineDrops > 0 /\ harness.finalDrops >= harness.baselineDrops
    /\ profile = "N5GE" => harness.finalDrops > harness.baselineDrops

-------------------------------------------------------------------------------
(* The transport harness and the barrier that removes its reset *)

At(log, event) == CHOOSE i \in DOMAIN log : log[i] = event

TransportHarnessOk(harness, plan) ==
    /\ harness.active = "frozen" /\ harness.disarmed = "frozen" /\ harness.clean = "clean"
    /\ HarnessIdentity(harness, plan)
    /\ Operations(harness.log) = Lifecycle

TriggerOk(trigger, log, trialId) ==
    /\ trigger.trialId = trialId /\ trigger.signal = "ATTEMPT_FAILED"
    /\ trigger.attempt = trigger.fetchId
    /\ trigger.before < trigger.at
    /\ Len(trigger.ids) = trigger.at - trigger.before /\ Distinct(trigger.ids)
    /\ {"OBSERVED", "DISARMED"} \subseteq Elements(log)
    /\ Sorted([i \in 1 .. 4 |-> At(log, <<"FAULT_APPLIED", "OBSERVED", "FAULT_REMOVED", "DISARMED">>[i])])

ResetKinds == {"CONNECTION_RESET", "PREMATURE_EOF", "IO"}

\* A timeout of the connection is a reset only when every request of the first
\* owner was cut off before a byte of its body.
ResetObserved(kind, firstOwnerRows) ==
    kind \in ResetKinds \/
    /\ kind = "CONNECT_TIMEOUT"
    /\ firstOwnerRows # << >>
    /\ \A i \in DOMAIN firstOwnerRows :
        /\ firstOwnerRows[i].plane = "data" /\ firstOwnerRows[i].range = "frozen"
        /\ firstOwnerRows[i].outcome = "CLIENT_DISCONNECTED" /\ firstOwnerRows[i].body = 0

-------------------------------------------------------------------------------
(* The route's own evidence: the events of the monitor, the evaluations of *)
(* the policy, each evaluation with the number of events before it.        *)

Least(S) == CHOOSE x \in S : \A y \in S : x <= y
Greatest(S) == CHOOSE x \in S : \A y \in S : y <= x

\* Mutant of OwnersAroundReplacement: the first owner may have ended before the
\* route was lost, or begun after.
LossUnattributed(first, second, lost, replaced) ==
    first.end < replaced /\ Sorted(<<replaced, second.start, second.end>>)

OwnersAroundReplacement(first, second, lost, replaced) ==
    /\ Sorted(<<first.start, lost, first.end>>)
    /\ first.end < replaced
    /\ Sorted(<<replaced, second.start, second.end>>)

Signalled(events, signal, epoch) == {i \in DOMAIN events : events[i].signal = signal /\ events[i].epoch = epoch}

RouteEvidenceOk(proof) ==
    LET route == proof.route
        events == route.events
        first == proof.attempts[1]
        second == proof.attempts[2]
        established == Signalled(events, "AVAILABLE", proof.routeBefore)
        lost == Signalled(events, "LOST", proof.routeBefore)
        replaced == Signalled(events, "AVAILABLE", proof.routeAfter)
        validated(epoch) == Signalled(events, "CAPABILITIES", epoch)
        time(is) == events[Least(is)].at
        evaluations == route.evaluations
        pauses == {i \in DOMAIN evaluations :
                    /\ evaluations[i].decision = "PAUSE"
                    /\ Least(lost) <= evaluations[i].watermark /\ evaluations[i].watermark < Least(replaced)}
        allows == {i \in DOMAIN evaluations :
                    /\ evaluations[i].decision = "ALLOW" /\ evaluations[i].epoch = proof.routeAfter
                    /\ evaluations[i].watermark >= Least(replaced)}
    IN  /\ 0 < proof.routeBefore /\ proof.routeBefore < proof.routeAfter
        /\ route.lossObserved /\ route.rendezvousObserved
        /\ route.chargesBeforeRestore = 1 /\ route.attemptsBeforeRestore = 1 /\ route.gateCalls = 2
        /\ Len(proof.attempts) = 2
        /\ events # << >> /\ evaluations # << >>
        /\ Sorted([i \in DOMAIN events |-> events[i].at])
        /\ events[1].signal = "MONITOR_STARTED" /\ events[Len(events)].signal = "MONITOR_STOPPED"
        /\ established # {} /\ lost # {} /\ replaced # {}
        /\ Least(established) < Least(lost) /\ Least(lost) < Least(replaced)
        /\ OwnersAroundReplacement(first, second, time(lost), time(replaced))
        /\ validated(proof.routeBefore) # {} /\ validated(proof.routeAfter) # {}
        /\ Sorted(<<time(replaced), time(validated(proof.routeAfter)), second.start>>)
        /\ evaluations[1].decision = "ALLOW" /\ evaluations[1].epoch = proof.routeBefore
        /\ Least(established) <= evaluations[1].watermark /\ evaluations[1].watermark < Least(lost)
        /\ pauses # {} /\ allows # {}
        /\ Least(pauses) < Greatest(allows)

-------------------------------------------------------------------------------
(* The environment the experiment was run in *)

MtuOf(profile) == IF profile = "N5GE" THEN 512 ELSE 1500

LinkOk(link) == link.mtu \in {512, 1500} /\ link.offloads = "disabled"
DeviceRuntimeOk(runtime) == \A field \in DOMAIN runtime : runtime[field] = "frozen"

\* m2_transport_environment: verify(), and what the network verifier adds.
NetworkEnvironmentOk(profile, environment, readback, plan) ==
    /\ environment.runId = plan.runId
    /\ readback.offloads = "disabled" /\ LinkOk(readback.link) /\ DeviceRuntimeOk(readback.runtime)
    /\ environment.faultEngine = readback.faultEngine
    /\ environment.link = readback.link
    /\ environment.runtime = readback.runtime
    /\ environment.code = readback.code
    /\ environment.link.mtu = MtuOf(profile)

\* m2_transport_reset_environment: verify().  Nothing compares its run.
ResetEnvironmentOk(environment, readback) ==
    /\ DeviceRuntimeOk(readback.runtime)
    /\ environment.binary = "frozen"
    /\ environment.runtime = readback.runtime
    /\ environment.code = readback.code
===============================================================================
