-------------------------------- MODULE G2Verify --------------------------------
(***************************************************************************)
(* The host verifiers of the paired transport experiments (N0, the network *)
(* faults, the transport reset, the route replacement): from the evidence  *)
(* of a whole run to the finalized trials, or a refusal.                   *)
(*                                                                         *)
(* An evidence is a record: plan, scenario, inputs; raws, harnesses,       *)
(* triggers, before and after (the counts of trace lines), by trial in the *)
(* order of the plan; trace; environment and readback.                     *)
(***************************************************************************)
EXTENDS G2Evidence

Phase ==
    [p \in Profiles |-> CASE p = "N6" -> "M2-G2-D-TRANSPORT_RESET" [] p = "N6R" -> "M2-G2-E-ROUTE_REPLACEMENT"
                          [] OTHER -> "M2-G2-C-NETWORK"]

Trials == 1 .. 4
Schedule(evidence) == PlannedTrialSchedule(evidence.plan)

\* The rows a trial added to the trace, by the counts around it.
Partition(evidence, t) == SubSeq(evidence.trace, evidence.before[t] + 1, evidence.after[t])
RequestIds(rows) == [i \in DOMAIN rows |-> rows[i].id]
RowOf(rows, id) == rows[CHOOSE i \in DOMAIN rows : rows[i].id = id]

-------------------------------------------------------------------------------
(* What every verifier checks *)

PlanChecked(evidence) ==
    /\ FrozenWork(evidence.inputs.work)
    /\ ValidatePlan(evidence.plan, evidence.scenario, evidence.inputs)
    /\ DOMAIN Schedule(evidence) = Trials /\ DOMAIN evidence.raws = Trials

\* One row before the first trial, the readiness request; the partitions follow
\* one another and leave no row behind.
PartitionsOk(evidence) ==
    /\ evidence.before[1] = 1 /\ evidence.trace[1].plane = "control"
    /\ \A t \in Trials :
        /\ evidence.before[t] = IF t = 1 THEN 1 ELSE evidence.after[t - 1]
        /\ evidence.before[t] < evidence.after[t] /\ evidence.after[t] <= Len(evidence.trace)
    /\ evidence.after[4] = Len(evidence.trace)

ProcessesDistinct(evidence) ==
    /\ Distinct([t \in Trials |-> evidence.raws[t].proof.instance])
    /\ Distinct([t \in Trials |-> evidence.raws[t].proof.process])

Finalized(row, requests, derived) ==
    [row EXCEPT !.recovery.originRequests = requests, !.recovery.visibility = derived.visibility,
                !.recovery.retries = derived.retries,
                !.performanceSampleEligible = derived.visibility = "OBSERVABLE"]

TrialsDocument(evidence, rows) ==
    [runId |-> evidence.plan.runId, orderingProtocol |-> evidence.plan.orderingProtocol,
     orderingSeed |-> evidence.plan.orderingSeed, deviceClass |-> evidence.inputs.deviceState.deviceClass,
     androidApi |-> evidence.inputs.deviceState.androidApi, trials |-> rows]

Conclusive(evidence, rows) ==
    LET document == TrialsDocument(evidence, rows)
    IN  /\ ValidateTrialsAgainstPlan(evidence.plan, document, evidence.scenario, evidence.inputs)
        /\ AnalyzesTrials(document)
        /\ CorrectnessEquivalent(rows) /\ RecoveryEquivalent(rows) /\ RouteEquivalent(rows)
        /\ PairedPerformanceBlocks(rows) = PlanBlocks
        /\ EligibleTrials(rows) = DOMAIN rows

-------------------------------------------------------------------------------
(* verify_network() *)

NetworkTrialOk(evidence, profile, t) ==
    LET rows == Partition(evidence, t)
        raw == evidence.raws[t]
    IN  /\ NetworkHarnessOk(profile, evidence.harnesses[t], evidence.plan)
        /\ \A i \in DOMAIN rows : OriginRowOk(rows[i])
        /\ CheckRaw(raw, Phase[profile], evidence.scenario, evidence.plan, Schedule(evidence)[t], evidence.inputs, FALSE)
        /\ Distinct(RequestIds(rows))
        /\ Elements(raw.proof.correlated) \subseteq Elements(RequestIds(rows))
        /\ SuccessfulRowOk(RowOf(rows, SuccessfulRequest(raw)))

NetworkRows(evidence) ==
    [t \in Trials |->
        LET raw == evidence.raws[t]
            requests == Len(Partition(evidence, t))
        IN  Finalized(raw.row, requests,
                      DerivedRetries(Len(raw.proof.attempts), Len(raw.proof.correlated), requests))]

VerifyNetwork(evidence, profile) ==
    /\ PlanChecked(evidence)
    /\ NetworkEnvironmentOk(profile, evidence.environment, evidence.readback, evidence.plan)
    /\ PartitionsOk(evidence)
    /\ \A t \in Trials : NetworkTrialOk(evidence, profile, t)
    /\ ProcessesDistinct(evidence)
    /\ Conclusive(evidence, NetworkRows(evidence))

-------------------------------------------------------------------------------
(* verify() of the transport reset *)

FirstOwnerRows(evidence, t) == SubSeq(evidence.trace, evidence.before[t] + 1, evidence.triggers[t].at)
SecondOwnerRows(evidence, t) == SubSeq(evidence.trace, evidence.triggers[t].at + 1, evidence.after[t])

OneFailureThenSuccess(raw) ==
    Len(raw.proof.attempts) = 2 /\ raw.proof.samples = <<JitterSample(0, Window(1))>>

ResetTrialOk(evidence, t) ==
    LET rows == Partition(evidence, t)
        raw == evidence.raws[t]
        trigger == evidence.triggers[t]
        log == evidence.harnesses[t].log
    IN  /\ TransportHarnessOk(evidence.harnesses[t], evidence.plan)
        /\ TriggerOk(trigger, log, Schedule(evidence)[t].trialId)
        /\ trigger.before = evidence.before[t] /\ trigger.at < evidence.after[t]
        /\ RequestIds(FirstOwnerRows(evidence, t)) = trigger.ids
        /\ Distinct(RequestIds(rows))
        /\ \A i \in DOMAIN rows : OriginRowOk(rows[i])
        /\ CheckRaw(raw, Phase["N6"], evidence.scenario, evidence.plan, Schedule(evidence)[t], evidence.inputs, FALSE)
        /\ raw.proof.failures # << >>
        /\ raw.proof.attempts[1].fetchId = trigger.fetchId /\ raw.proof.failures[1].fetchId = trigger.fetchId
        /\ ResetObserved(raw.proof.failures[1].kind, FirstOwnerRows(evidence, t))
        /\ OneFailureThenSuccess(raw)
        /\ SuccessfulRequest(raw) \in Elements(RequestIds(SecondOwnerRows(evidence, t)))
        /\ SuccessfulRowOk(RowOf(rows, SuccessfulRequest(raw)))

\* finalize_retry_visibility(): each owner makes one request, what is more in
\* its partition is a replay.
ResetRows(evidence) ==
    [t \in Trials |->
        LET requests == Len(Partition(evidence, t))
        IN  Finalized(evidence.raws[t].row, requests, [visibility |-> "OBSERVABLE", retries |-> requests - 2])]

VerifyReset(evidence) ==
    /\ PlanChecked(evidence)
    /\ ResetEnvironmentOk(evidence.environment, evidence.readback)
    /\ PartitionsOk(evidence)
    /\ \A t \in Trials : ResetTrialOk(evidence, t)
    /\ ProcessesDistinct(evidence)
    /\ Conclusive(evidence, ResetRows(evidence))

-------------------------------------------------------------------------------
(* verify() of the route replacement *)

\* finalize_row(): the owner of the old route is proven silent.
OldRouteSilent(evidence, t) ==
    LET rows == Partition(evidence, t)
        attempts == evidence.raws[t].proof.attempts
    IN  /\ RequestIds(rows) = <<SuccessfulRequest(evidence.raws[t])>>
        /\ OriginRowOk(rows[1]) /\ SuccessfulRowOk(rows[1])
        /\ Len(attempts) = 2 /\ attempts[1].correlation = Null
        /\ evidence.raws[t].proof.correlated = <<rows[1].id>>

RouteTrialOk(evidence, t) ==
    LET raw == evidence.raws[t]
    IN  /\ CheckRaw(raw, Phase["N6R"], evidence.scenario, evidence.plan, Schedule(evidence)[t], evidence.inputs, TRUE)
        /\ RouteEvidenceOk(raw.proof)
        /\ OneFailureThenSuccess(raw)
        /\ OldRouteSilent(evidence, t)

OneRequestRows(evidence) ==
    [t \in Trials |-> Finalized(evidence.raws[t].row, 1, [visibility |-> "OBSERVABLE", retries |-> 0])]

VerifyRoute(evidence) ==
    /\ PlanChecked(evidence)
    /\ PartitionsOk(evidence)
    /\ \A t \in Trials : RouteTrialOk(evidence, t)
    /\ ProcessesDistinct(evidence)
    /\ Conclusive(evidence, OneRequestRows(evidence))

-------------------------------------------------------------------------------
(* verify() of the control experiment: no partitions, a bijection of the    *)
(* four trials and the four measured requests, in order.                    *)

MeasuredRequests(evidence) == Among(evidence.trace, {row \in Elements(evidence.trace) : row.plane = "data"})

RequestsBijective(evidence) ==
    LET ids == [t \in Trials |-> evidence.raws[t].proof.correlated[1]]
        data == MeasuredRequests(evidence)
    IN  /\ Distinct(ids) /\ Sorted(ids)
        /\ Len(data) = 4 /\ Elements(RequestIds(data)) = Elements(ids)
        /\ \A i \in DOMAIN data : data[i].range = "frozen" /\ SuccessfulRowOk(data[i])

VerifyN0(evidence) ==
    /\ PlanChecked(evidence)
    /\ \A t \in Trials :
        CheckRawN0(evidence.raws[t], evidence.scenario, evidence.plan, Schedule(evidence)[t], evidence.inputs)
    /\ ProcessesDistinct(evidence)
    /\ RequestsBijective(evidence)
    /\ DeviceRuntimeOk(evidence.readback.runtime)
    /\ Conclusive(evidence, OneRequestRows(evidence))

-------------------------------------------------------------------------------
Verified(evidence, profile) ==
    CASE profile = "N0" -> VerifyN0(evidence)
      [] profile = "N6" -> VerifyReset(evidence)
      [] profile = "N6R" -> VerifyRoute(evidence)
      [] OTHER -> VerifyNetwork(evidence, profile)

FinalizedRows(evidence, profile) ==
    CASE profile = "N6" -> ResetRows(evidence)
      [] profile \in {"N0", "N6R"} -> OneRequestRows(evidence)
      [] OTHER -> NetworkRows(evidence)
===============================================================================
