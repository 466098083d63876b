-------------------------------- MODULE G2Trials --------------------------------
(***************************************************************************)
(* A paired transport experiment as it runs: the job's script takes the    *)
(* four trials of the plan in turn; the fault harness arms and removes its *)
(* fault, in step with the script (start, stop), beside it (the pulse of   *)
(* N3) or at the device's call (the reset controller of N6); the device's  *)
(* owners make their requests; the Media Lab writes a row of its trace     *)
(* when a request has ended, which may be long after.  At the end the      *)
(* verifier judges the evidence that was kept.                             *)
(*                                                                         *)
(* The script runs under set -e: a step that fails ends the job through    *)
(* its EXIT trap.                                                          *)
(***************************************************************************)
EXTENDS G2Verify

CONSTANTS Instances,     \* what may happen, with the bounds on it: see the MC module
          MaxDrops       \* packets the network faults drop in a trial

\* An id has a digit for the trial, for the owner and for the request.
MaxReplays == 8

VARIABLES
    instance,
    trial, step,         \* the script
    job,                 \* "running" | "verified" | "failed" | "ok" | "red"
    fault,               \* "off" | "armed": netem on the link, or the toxic
    cleanup,             \* how far cleanup() is: "none" | "killed" | "removed", then whether it took the
                         \* link down: "done" | "ignored"
    pulse, controller,   \* the processes beside the script
    log,                 \* the host's log of this trial, in its clock's order
    drops,               \* [baseline, now, own] of this trial
    trigger,             \* the controller's boundary of the trace
    owners,              \* what the owners of each trial's device did
    device,              \* "idle" | "running" | "posted" | "done"
    pending, trace,      \* the Media Lab: requests that have not ended; its trace
    before, after,       \* the counts around the trials
    kept,                \* what the harness retained of the trials
    late,                \* the rows that missed the count of their own trial
    failures

\* What one device's document, or what else is kept, may say that is not so.
RawMisreports ==
    {"hash", "warm", "session", "process", "certified", "sample", "received", "progress", "early", "jitter",
     "epoch", "backend", "version", "correlation", "observation", "cpu"}
Misreports ==
    RawMisreports \cup {"none", "readback", "unclean", "otherRun", "trigger", "environmentRun", "code"}

RouteTokens ==
    {"START", "UP1", "CAPS1", "ALLOW1", "OWN1", "LOST", "FAIL1", "PAUSE", "UP2", "ALLOW2", "CAPS2", "OWN2", "DONE2", "STOP"}

\* An instance: an experiment, how many owners of each trial fail and what reaches
\* the origin of them, how often a served one's request is replayed, the order of
\* the route's timeline, one misreport, and bounds on the late rows and the failures.
InstanceRecord ==
    [profile : Profiles, fails : [1 .. 4 -> Nat], kind : {"silent", "reached", "correlated"},
     replays : [1 .. 4 -> 0 .. MaxReplays], error : STRING, order : Seq(RouteTokens),
     misreport : Misreports, late : Nat, failures : Nat]

ASSUME InstancesAssumption ==
    /\ Instances \subseteq InstanceRecord
    /\ \A i \in Instances : Distinct(i.order) /\ Elements(i.order) = RouteTokens

vars == <<instance, trial, step, job, fault, cleanup, pulse, controller, log, drops, trigger, owners, device, pending,
          trace, before, after, kept, late, failures>>
lab == <<pending, trace>>
harnessVars == <<fault, pulse, controller, log, drops, trigger>>
books == <<before, after, kept, late>>

Profile == instance.profile

-------------------------------------------------------------------------------
(* The scripts.  Steps that only read (the snapshots of the link's         *)
(* counters, the copy of the raw document, adb get-state) are left out.    *)

NetworkScript == <<"CLEAN", "BEFORE", "START", "DEVICE", "STOP", "AFTER">>
Script ==
    CASE Profile = "N0" -> <<"DEVICE">>
      [] Profile = "N3" -> <<"CLEAN", "BEFORE", "PULSE", "AWAIT_ARMED", "DEVICE", "WAIT_PULSE", "AFTER">>
      [] Profile = "N6" -> <<"CLEAN", "BEFORE", "START", "LISTEN", "DEVICE", "WAIT_CONTROLLER", "AFTER", "STOP">>
      [] Profile = "N6R" -> <<"BEFORE", "DEVICE", "AFTER">>
      [] OTHER -> NetworkScript

Doing(name) == job = "running" /\ trial \in Trials /\ Script[step] = name

Advance ==
    IF step < Len(Script) THEN trial' = trial /\ step' = step + 1
    ELSE trial' = trial + 1 /\ step' = 1

NoDrops == [baseline |-> 0, now |-> 0, own |-> FALSE]
NoTrigger == [at |-> 0, ids |-> << >>]

Init ==
    /\ instance \in Instances
    /\ trial = 1 /\ step = 1 /\ job = "running"
    /\ fault = "off" /\ cleanup = "none" /\ pulse = "none" /\ controller = "none"
    /\ log = << >> /\ drops = NoDrops /\ trigger = NoTrigger
    /\ owners = [t \in Trials |-> << >>] /\ device = "idle"
    /\ pending = {} /\ trace = <<[trial |-> 0, owner |-> 0, n |-> 0, cut |-> FALSE]>>
    /\ before = << >> /\ after = << >> /\ kept = << >> /\ late = {}
    /\ failures = 0

-------------------------------------------------------------------------------
(* The Media Lab *)

Requests(owner, count, served) ==
    {[trial |-> trial, owner |-> owner, n |-> n, cut |-> n < count \/ ~served] : n \in 1 .. count}
Id(row) == row.trial * 100 + row.owner * 10 + row.n

\* A request ends and its row is appended, in whatever order they end.
RowWritten ==
    /\ job \in {"running", "verified"}
    /\ \E row \in pending : pending' = pending \ {row} /\ trace' = Append(trace, row)
    /\ UNCHANGED <<instance, cleanup, trial, step, job, harnessVars, owners, device, books, failures>>

-------------------------------------------------------------------------------
(* The script and the harness commands it waits for *)

\* netem_control remove || true, assert-clean; for N6 only the assertion.
Clean ==
    /\ Doing("CLEAN")
    /\ Profile = "N6" => fault = "off"
    /\ fault' = "off" /\ log' = << >> /\ drops' = NoDrops /\ trigger' = NoTrigger
    /\ Advance
    /\ UNCHANGED <<instance, cleanup, job, pulse, controller, owners, device, lab, books, failures>>

Before ==
    /\ Doing("BEFORE")
    /\ before' = Append(before, Len(trace))
    /\ Advance
    /\ UNCHANGED <<instance, cleanup, job, harnessVars, owners, device, lab, after, kept, late, failures>>

\* start(): the fault is on before its readback is compared, and the evidence
\* is written last.
Start ==
    /\ Doing("START")
    /\ fault' = "armed"
    /\ log' = <<"HARNESS_STARTED", "FAULT_ARMED", "FAULT_APPLIED">>
    /\ Advance
    /\ UNCHANGED <<instance, cleanup, job, pulse, controller, drops, trigger, owners, device, lab, books, failures>>

StartMisread ==
    /\ Doing("START") /\ failures < instance.failures
    /\ fault' = "armed" /\ failures' = failures + 1 /\ job' = "failed"
    /\ UNCHANGED <<instance, cleanup, trial, step, pulse, controller, log, drops, trigger, owners, device, lab, books>>

\* finish() of the network harness: inspect, remove, assert-clean, record.
Retained == [log |-> log, baseline |-> drops.baseline, final |-> drops.now, own |-> drops.own, trigger |-> trigger]

FinishFault == fault' = "off" /\ log' = log \o <<"FAULT_REMOVED", "HARNESS_STOPPED">>

Stop ==
    /\ Doing("STOP") /\ Profile # "N6"
    /\ log = <<"HARNESS_STARTED", "FAULT_ARMED", "FAULT_APPLIED">>
    /\ FinishFault
    /\ Advance
    /\ UNCHANGED <<instance, cleanup, job, pulse, controller, drops, trigger, owners, device, lab, books, failures>>

\* stop() of the transport harness: the toxic has been removed and recorded, or
\* it is removed here; then the proxy is deleted.
StopTransport ==
    /\ Doing("STOP") /\ Profile = "N6"
    /\ (fault = "off") = ("FAULT_REMOVED" \in Elements(log))
    /\ fault' = "off"
    /\ log' = IF fault = "off" THEN Append(log, "HARNESS_STOPPED")
              ELSE log \o <<"FAULT_REMOVED", "HARNESS_STOPPED">>
    /\ kept' = Append(kept, [Retained EXCEPT !.log = log'])
    /\ Advance
    /\ UNCHANGED <<instance, cleanup, job, pulse, controller, drops, trigger, owners, device, lab, before, after, late, failures>>

\* await_trace_settle(): the rows of the correlated requests are there and
\* nothing has moved for a while.  A request still in flight misses the count.
Correlated(t) == Present([i \in DOMAIN owners[t] |-> owners[t][i].correlation])
NewRows == {trace[i] : i \in before[trial] + 1 .. Len(trace)}

Settled ==
    LET ids == {Id(row) : row \in NewRows}
    IN  IF Profile = "N6R" THEN ids = Elements(Correlated(trial)) /\ Len(trace) = before[trial] + 1
        ELSE Elements(Correlated(trial)) \subseteq ids

After ==
    /\ Doing("AFTER")
    /\ Settled
    /\ Cardinality(late \cup pending) <= instance.late
    /\ late' = late \cup pending
    /\ after' = Append(after, Len(trace))
    /\ kept' = IF Profile = "N6" THEN kept ELSE Append(kept, Retained)
    /\ Advance
    /\ UNCHANGED <<instance, cleanup, job, harnessVars, owners, device, lab, before, failures>>

\* Any other failure of a step: of a command, of the device, of adb, of a wait.
StepFails ==
    /\ job = "running" /\ failures < instance.failures
    /\ failures' = failures + 1 /\ job' = "failed"
    /\ UNCHANGED <<instance, cleanup, trial, step, harnessVars, owners, device, lab, books>>

\* The step refuses the state it finds: the toxic is still on, the pulse is not
\* waiting any more, a process failed, the trace does not settle.
Refuses ==
    \/ Doing("CLEAN") /\ Profile = "N6" /\ fault = "armed"
    \/ Doing("AWAIT_ARMED") /\ pulse \notin {"starting", "waiting"}
    \/ Doing("WAIT_PULSE") /\ pulse = "failed"
    \/ Doing("WAIT_CONTROLLER") /\ controller = "failed"
    \/ Doing("STOP") /\ Profile = "N6" /\ (fault = "off") # ("FAULT_REMOVED" \in Elements(log))
    \/ Doing("AFTER") /\ pending = {} /\ ~Settled

StepRefuses ==
    /\ Refuses = TRUE
    /\ job' = "failed"
    /\ UNCHANGED <<instance, cleanup, trial, step, harnessVars, owners, device, lab, books, failures>>

-------------------------------------------------------------------------------
(* The pulse of N3, in the background: armed, it waits for the first drop,   *)
(* holds the blackout for its time and removes it.                           *)

LaunchPulse ==
    /\ Doing("PULSE")
    /\ pulse' = "starting"
    /\ Advance
    /\ UNCHANGED <<instance, cleanup, job, fault, controller, log, drops, trigger, owners, device, lab, books, failures>>

PulseAlive == pulse \in {"starting", "waiting", "holding"}

PulseArms ==
    /\ pulse = "starting"
    /\ pulse' = "waiting" /\ fault' = "armed" /\ log' = <<"HARNESS_STARTED", "FAULT_ARMED">>
    /\ UNCHANGED <<instance, cleanup, trial, step, job, controller, drops, trigger, owners, device, lab, books, failures>>

PulseSeesDrop ==
    /\ pulse = "waiting" /\ drops.now > 0
    /\ pulse' = "holding"
    /\ drops' = [drops EXCEPT !.baseline = drops.now]
    /\ log' = Append(log, "FAULT_APPLIED")
    /\ UNCHANGED <<instance, cleanup, trial, step, job, fault, controller, trigger, owners, device, lab, books, failures>>

PulseFinishes ==
    /\ pulse = "holding"
    /\ pulse' = "done"
    /\ FinishFault
    /\ UNCHANGED <<instance, cleanup, trial, step, job, controller, drops, trigger, owners, device, lab, books, failures>>

\* start_common() is outside its try: when the readback is not the one asked for
\* the netem it applied stays.
PulseFailsToArm ==
    /\ pulse = "starting"
    /\ failures < instance.failures /\ failures' = failures + 1
    /\ pulse' = "failed" /\ fault' \in {"off", "armed"}
    /\ UNCHANGED <<instance, cleanup, trial, step, job, controller, log, drops, trigger, owners, device, lab, books>>

\* No drop within the time, or a failure of its own: it removes what it armed.
PulseFails ==
    /\ pulse \in {"waiting", "holding"}
    /\ failures < instance.failures /\ failures' = failures + 1
    /\ pulse' = "failed" /\ fault' = "off"
    /\ UNCHANGED <<instance, cleanup, trial, step, job, controller, log, drops, trigger, owners, device, lab, books>>

\* The script polls for the last event to be FAULT_ARMED.
AwaitArmed ==
    /\ Doing("AWAIT_ARMED") /\ pulse = "waiting"
    /\ Advance
    /\ UNCHANGED <<instance, cleanup, job, harnessVars, owners, device, lab, books, failures>>

WaitPulse ==
    /\ Doing("WAIT_PULSE") /\ pulse = "done"
    /\ pulse' = "none"
    /\ Advance
    /\ UNCHANGED <<instance, cleanup, job, fault, controller, log, drops, trigger, owners, device, lab, books, failures>>

\* The link drops a packet the server sends: of this trial's device, or of an
\* earlier trial's request that has not ended.
LossyProfiles == {"N3", "N5", "N5GE"}
PacketDropped ==
    /\ Profile \in LossyProfiles /\ fault = "armed" /\ drops.now < MaxDrops
    /\ \E own \in BOOLEAN :
        /\ own => device = "running"
        /\ ~own => \E row \in pending : row.trial # trial
        /\ drops' = [drops EXCEPT !.now = drops.now + 1, !.own = drops.own \/ own]
    /\ UNCHANGED <<instance, cleanup, trial, step, job, fault, pulse, controller, log, trigger, owners, device, lab, books, failures>>

-------------------------------------------------------------------------------
(* The reset controller of N6: one request of the device, answered when the  *)
(* first owner's rows have settled and the toxic is gone.                    *)

Listen ==
    /\ Doing("LISTEN")
    /\ controller' = "listening"
    /\ Advance
    /\ UNCHANGED <<instance, cleanup, job, fault, pulse, log, drops, trigger, owners, device, lab, books, failures>>

FirstOwnerSettled == Len(trace) > before[trial]

ControllerSettles ==
    /\ controller = "asked"
    /\ FirstOwnerSettled
    /\ late' = late \cup {row \in pending : row.trial = trial /\ row.owner = 1}
    /\ Cardinality(late') <= instance.late
    /\ trigger' = [at |-> Len(trace), ids |-> [i \in 1 .. Len(trace) - before[trial] |-> Id(trace[before[trial] + i])]]
    /\ controller' = "settled"
    /\ UNCHANGED <<instance, cleanup, trial, step, job, fault, pulse, log, drops, owners, device, lab, before, after, kept, failures>>

\* disarm(), then the trigger is written and the device answered.
ControllerDisarms ==
    /\ controller = "settled" /\ fault = "armed"
    /\ fault' = "off" /\ log' = log \o <<"FAULT_REMOVED", "DISARMED">>
    /\ controller' = "done"
    /\ UNCHANGED <<instance, cleanup, trial, step, job, pulse, drops, trigger, owners, device, lab, books, failures>>

\* The rows never settle, or the harness refuses: the device is told 409.
ControllerFails ==
    /\ controller \in {"asked", "settled"}
    /\ \/ failures < instance.failures /\ failures' = failures + 1
       \/ pending = {} /\ ~FirstOwnerSettled /\ failures' = failures
    /\ controller' = "failed"
    /\ UNCHANGED <<instance, cleanup, trial, step, job, fault, pulse, log, drops, trigger, owners, device, lab, books>>

WaitController ==
    /\ Doing("WAIT_CONTROLLER") /\ controller = "done"
    /\ controller' = "none"
    /\ Advance
    /\ UNCHANGED <<instance, cleanup, job, fault, pulse, log, drops, trigger, owners, device, lab, books, failures>>

-------------------------------------------------------------------------------
(* The device: one chain of owners, each one request and the replays its   *)
(* transport makes of it.                                                  *)

LaunchDevice ==
    /\ Doing("DEVICE") /\ device = "idle"
    /\ device' = "running"
    /\ UNCHANGED <<instance, cleanup, trial, step, job, harnessVars, owners, lab, books, failures>>

Number == Len(owners[trial]) + 1
Owner(requests, correlation) == [requests |-> requests, correlation |-> correlation, armed |-> fault = "armed"]
OwnerEnds(requests, correlation, served) ==
    /\ owners' = [owners EXCEPT ![trial] = Append(@, Owner(requests, correlation))]
    /\ pending' = pending \cup Requests(Number, requests, served)
    /\ UNCHANGED trace

\* An owner of N6 whose connection is opened while the toxic is on is cut; of
\* the other profiles the first owner fails when the instance says so.
MustFail == IF Profile = "N6" THEN fault = "armed" ELSE Number <= instance.fails[trial]
MaxOwners == 4

OwnerFails ==
    /\ job = "running" /\ device = "running" /\ MustFail /\ Number < MaxOwners
    /\ Profile = "N3" => instance.kind = "silent" \/ fault = "off"
    /\ LET requests == IF instance.kind = "silent" THEN 0
                       ELSE 1 + (IF Profile = "N6" /\ Number = 1 THEN instance.replays[trial] ELSE 0)
           correlation == IF instance.kind = "correlated" THEN trial * 100 + Number * 10 + 1 ELSE Null
       IN  OwnerEnds(requests, correlation, FALSE)
    /\ device' = IF Profile = "N6" THEN "posted" ELSE "running"
    /\ controller' = IF Profile = "N6" /\ controller = "listening" THEN "asked" ELSE controller
    /\ log' = IF Profile = "N6" /\ controller = "listening" THEN Append(log, "OBSERVED") ELSE log
    /\ UNCHANGED <<instance, cleanup, trial, step, job, fault, pulse, drops, trigger, books, failures>>

\* The listener's call returns: answered, refused, or its read timed out; in
\* each case the recovery goes on (FetchBroker swallows what a listener throws).
CallReturns ==
    /\ job = "running" /\ device = "posted"
    /\ \/ controller \in {"done", "failed"} /\ failures' = failures
       \/ controller \in {"asked", "settled"} /\ failures < instance.failures /\ failures' = failures + 1
    /\ device' = "running"
    /\ UNCHANGED <<instance, cleanup, trial, step, job, harnessVars, owners, lab, books>>

OwnerServed ==
    /\ job = "running" /\ device = "running" /\ ~MustFail
    /\ Profile = "N3" => fault = "off"
    /\ LET requests == 1 + (IF Profile = "N6" THEN 0 ELSE instance.replays[trial])
       IN  OwnerEnds(requests, trial * 100 + Number * 10 + requests, TRUE)
    /\ device' = "done"
    /\ UNCHANGED <<instance, cleanup, trial, step, job, harnessVars, books, failures>>

DeviceReturns ==
    /\ Doing("DEVICE") /\ device = "done"
    /\ device' = "idle"
    /\ Advance
    /\ UNCHANGED <<instance, cleanup, job, harnessVars, owners, lab, books, failures>>

\* The chain runs out of owners: the instrumentation fails.
DeviceGivesUp ==
    /\ Doing("DEVICE") /\ device = "running" /\ MustFail /\ Number = MaxOwners
    /\ job' = "failed"
    /\ UNCHANGED <<instance, cleanup, trial, step, harnessVars, owners, device, lab, books, failures>>

-------------------------------------------------------------------------------
(* The evidence, from what happened *)

Plan == BuildPlan("run", FrozenScenario(Profile), FrozenInputs)

\* The tokens of the route's timeline are ten instants apart.
Time(token) == 10 * At(instance.order, token)
RouteEvent == [START |-> <<"MONITOR_STARTED", 0>>, UP1 |-> <<"AVAILABLE", 1>>, CAPS1 |-> <<"CAPABILITIES", 1>>,
               LOST |-> <<"LOST", 1>>, UP2 |-> <<"AVAILABLE", 2>>, CAPS2 |-> <<"CAPABILITIES", 2>>,
               STOP |-> <<"MONITOR_STOPPED", 0>>]
Evaluation == [ALLOW1 |-> <<"ALLOW", 1>>, PAUSE |-> <<"PAUSE", Null>>, ALLOW2 |-> <<"ALLOW", 2>>]

EventTokens == Among(instance.order, DOMAIN RouteEvent)
EvaluationTokens == Among(instance.order, DOMAIN Evaluation)

RouteDocument ==
    [events |-> [i \in DOMAIN EventTokens |->
        [signal |-> RouteEvent[EventTokens[i]][1], epoch |-> RouteEvent[EventTokens[i]][2], at |-> Time(EventTokens[i])]],
     evaluations |-> [i \in DOMAIN EvaluationTokens |->
        [decision |-> Evaluation[EvaluationTokens[i]][1], epoch |-> Evaluation[EvaluationTokens[i]][2],
         watermark |-> Cardinality({k \in DOMAIN EventTokens : Time(EventTokens[k]) < Time(EvaluationTokens[i])})]],
     lossObserved |-> TRUE, rendezvousObserved |-> TRUE,
     chargesBeforeRestore |-> 1, attemptsBeforeRestore |-> 1, gateCalls |-> 2]

StartOf(i) == IF Profile = "N6R" THEN Time(<<"OWN1", "OWN2">>[i]) ELSE 10 * i
EndOf(i) == IF Profile = "N6R" THEN Time(<<"FAIL1", "DONE2">>[i]) ELSE 10 * i + 8

Attempt(t, i) ==
    LET last == i = Len(owners[t])
    IN  [start |-> StartOf(i), end |-> EndOf(i), fetchId |-> <<t, i>>,
         bytes |-> IF last THEN ResourceLength ELSE 0, correlation |-> owners[t][i].correlation,
         terminal |-> IF last THEN "ATTEMPT_COMPLETED" ELSE "ATTEMPT_FAILED"]

PhasesOf(t) ==
    LET n == Len(owners[t])
        whole == [k \in 1 .. 3 |-> [kind |-> PhaseOrder[k], at |-> StartOf(n) + k + 1]]
    IN  IF n > 1 /\ owners[t][1].correlation # Null
        THEN <<[kind |-> PhaseOrder[1], at |-> StartOf(1) + 2]>> \o whole ELSE whole

ChainStart == 5
FirstProgress(t) == StartOf(Len(owners[t])) + 4
ChainEnd(t) == EndOf(Len(owners[t])) + 1

Row(t) ==
    LET planned == PlannedTrialSchedule(Plan)[t]
    IN  [trialId |-> planned.trialId, orderingBlock |-> planned.orderingBlock, positionInBlock |-> planned.positionInBlock,
         backendId |-> planned.backendId, comparison |-> Plan.comparison,
         eligibility |-> "ELIGIBLE", result |-> "SUCCESS", backendVersion |-> "frozen", implementationId |-> "frozen",
         exactNetworkBound |-> TRUE, permitRouteEpoch |-> 1, correctness |-> AllOf("PASS"),
         recovery |-> [chains |-> 1, owners |-> Len(owners[t]), originRequests |-> Len(Correlated(t)),
                       retries |-> Null, visibility |-> "OPAQUE"],
         metrics |-> [firstByteUs |-> FirstProgress(t) - ChainStart, completionUs |-> ChainEnd(t) - ChainStart,
                      cpuTimeUs |-> 1, bytesRequested |-> ResourceLength, bytesReceived |-> ResourceLength,
                      bytesPublished |-> ResourceLength, cancellationLatencyUs |-> Null, maxRssBytes |-> Null],
         performanceSampleEligible |-> FALSE, disclosed |-> TRUE]

Proof(t) ==
    LET n == Len(owners[t])
    IN  [correlated |-> Correlated(t), committed |-> "frozen", storeEmpty |-> TRUE, sessionFresh |-> TRUE,
         routeBefore |-> 1, routeAfter |-> IF Profile = "N6R" THEN 2 ELSE 1,
         permitEpochs |-> [i \in 1 .. n |-> IF Profile = "N6R" THEN i ELSE 1],
         bindingRevision |-> "frozen", androidApi |-> "frozen", abi |-> "frozen",
         instance |-> t, process |-> t,
         chainStart |-> ChainStart, firstProgress |-> FirstProgress(t), chainEnd |-> ChainEnd(t),
         attempts |-> [i \in 1 .. n |-> Attempt(t, i)], resolutions |-> n, phases |-> PhasesOf(t),
         failures |-> [i \in 1 .. n - 1 |->
            [observation |-> "TRANSPORT_IO", classification |-> "TRANSIENT_TRANSPORT",
             decision |-> "RETRY_AFTER_BACKOFF", fetchId |-> <<t, i>>, kind |-> instance.error]],
         failureCount |-> n - 1,
         backoffs |-> [i \in 1 .. n - 1 |->
            [ordinal |-> i, window |-> Window(i), delay |-> JitterSample(i - 1, Window(i))]],
         samples |-> [i \in 1 .. n - 1 |-> JitterSample(i - 1, Window(i))],
         jitter |-> "frozen", timeouts |-> "frozen", policy |-> "frozen",
         route |-> IF Profile = "N6R" THEN RouteDocument ELSE [events |-> << >>]]

RawPhase == IF Profile = "N0" THEN "M2-G2-B-N0" ELSE Phase[Profile]
TrueRaw(t) ==
    [phase |-> RawPhase, family |-> Family[Profile], variant |-> Variant[Profile], runId |-> "run",
     row |-> Row(t), proof |-> Proof(t)]

\* One thing the document of the second trial says that is not so.
RawSaying(raw, misreport) ==
    CASE misreport = "hash" -> [raw EXCEPT !.proof.committed = "other"]
      [] misreport = "warm" -> [raw EXCEPT !.proof.storeEmpty = FALSE]
      [] misreport = "session" -> [raw EXCEPT !.proof.sessionFresh = FALSE]
      [] misreport = "process" -> [raw EXCEPT !.proof.process = 1]
      [] misreport = "certified" -> [raw EXCEPT !.row.recovery.visibility = "OBSERVABLE", !.row.recovery.retries = 0]
      [] misreport = "sample" -> [raw EXCEPT !.row.performanceSampleEligible = TRUE]
      [] misreport = "received" -> [raw EXCEPT !.row.metrics.bytesReceived = ResourceLength + 1]
      [] misreport = "progress" -> [raw EXCEPT !.proof.firstProgress = raw.proof.firstProgress + 3,
                                               !.row.metrics.firstByteUs = raw.row.metrics.firstByteUs + 3]
      [] misreport = "early" -> [raw EXCEPT !.proof.firstProgress = ChainStart, !.row.metrics.firstByteUs = 0]
      [] misreport = "jitter" -> [raw EXCEPT !.proof.samples = <<JitterSample(1, Window(1))>>]
      [] misreport = "epoch" -> [raw EXCEPT !.proof.routeAfter = 1 + raw.proof.routeAfter]
      [] misreport = "backend" -> [raw EXCEPT !.row.backendId = OtherBackend(raw.row.backendId)]
      [] misreport = "version" -> [raw EXCEPT !.row.backendVersion = "other"]
      [] misreport = "correlation" -> [raw EXCEPT !.proof.correlated = <<raw.proof.attempts[Len(raw.proof.attempts)].correlation - 100>>]
      [] misreport = "observation" -> [raw EXCEPT !.proof.failures[1].observation = "HTTP_STATUS"]
      [] misreport = "cpu" -> [raw EXCEPT !.row.metrics.cpuTimeUs = 0]
      [] OTHER -> raw

HarnessRecord(t) ==
    LET says == IF t = 2 THEN instance.misreport ELSE "none"
    IN  [log |-> kept[t].log, baselineDrops |-> kept[t].baseline, finalDrops |-> kept[t].final,
         packets |-> 1, scopeAdvanced |-> TRUE,
         active |-> IF says = "readback" THEN "other" ELSE "frozen", options |-> "frozen", filter |-> "frozen",
         disarmed |-> "frozen", clean |-> IF says = "unclean" THEN "left" ELSE "clean",
         runId |-> IF says = "otherRun" THEN "other" ELSE "run", scenarioHash |-> ScenarioHash(FrozenScenario(Profile))]

TriggerRecord(t) ==
    [trialId |-> PlannedTrialSchedule(Plan)[IF t = 2 /\ instance.misreport = "trigger" THEN 1 ELSE t].trialId,
     signal |-> "ATTEMPT_FAILED", fetchId |-> <<t, 1>>, attempt |-> <<t, 1>>,
     before |-> before[t], at |-> kept[t].trigger.at, ids |-> kept[t].trigger.ids]

TraceRow(row) ==
    [id |-> Id(row), plane |-> IF row.trial = 0 THEN "control" ELSE "data", range |-> "frozen",
     outcome |-> IF row.cut THEN "CLIENT_DISCONNECTED" ELSE "SUCCESS", body |-> IF row.cut THEN 0 ELSE ResourceLength]

Runtime == [deviceClass |-> "frozen", androidApi |-> "frozen", abi |-> "frozen",
            batteryPolicy |-> "frozen", acPowered |-> "frozen"]
Readback == [offloads |-> "disabled", link |-> [mtu |-> MtuOf(Profile), offloads |-> "disabled"], runtime |-> Runtime,
             faultEngine |-> "frozen", code |-> "frozen"]
Environment ==
    [runId |-> IF instance.misreport = "environmentRun" THEN "other" ELSE "run", faultEngine |-> "frozen",
     link |-> Readback.link, runtime |-> Runtime, binary |-> "frozen",
     code |-> IF instance.misreport = "code" THEN "other" ELSE "frozen"]

HarnessProfiles == Profiles \ {"N0", "N6R"}

Evidence ==
    [plan |-> Plan, scenario |-> FrozenScenario(Profile), inputs |-> FrozenInputs,
     raws |-> [t \in Trials |-> RawSaying(TrueRaw(t), IF t = 2 THEN instance.misreport ELSE "none")],
     harnesses |-> IF Profile \in HarnessProfiles THEN [t \in Trials |-> HarnessRecord(t)] ELSE << >>,
     triggers |-> IF Profile = "N6" THEN [t \in Trials |-> TriggerRecord(t)] ELSE << >>,
     before |-> before, after |-> after,
     trace |-> [i \in DOMAIN trace |-> TraceRow(trace[i])],
     environment |-> Environment, readback |-> Readback]

-------------------------------------------------------------------------------
(* The end of the job *)

Verify ==
    /\ job = "running" /\ trial \notin Trials
    /\ job' = IF Verified(Evidence, Profile) THEN "verified" ELSE "failed"
    /\ late' = IF Profile = "N0" THEN pending ELSE late
    /\ UNCHANGED <<instance, cleanup, trial, step, harnessVars, owners, device, lab, before, after, kept, failures>>

\* cleanup(), from the end of the script or from its EXIT trap.  It is the
\* harness' interpreter that is killed: the command it was waiting for, which
\* applies the netem, goes on.
Cleaning(place) == job \in {"verified", "failed"} /\ cleanup = place

KillProcesses ==
    /\ Cleaning("none") /\ cleanup' = "killed"
    /\ controller' = "none"
    /\ pulse' \in IF pulse = "starting" THEN {"none", "stray"} ELSE {"none"}
    /\ UNCHANGED <<instance, trial, step, job, fault, log, drops, trigger, owners, device, lab, books, failures>>

StrayArms ==
    /\ pulse = "stray"
    /\ pulse' = "none" /\ fault' = "armed"
    /\ UNCHANGED <<instance, cleanup, trial, step, job, controller, log, drops, trigger, owners, device, lab, books, failures>>

\* The failures of its commands are ignored.  N6 has no netem to remove.
RemoveNetem ==
    /\ Cleaning("killed") /\ cleanup' = "removed"
    /\ \/ fault' = (IF Profile = "N6" THEN fault ELSE "off") /\ failures' = failures
       \/ Profile # "N6" /\ failures < instance.failures /\ failures' = failures + 1 /\ fault' = fault
    /\ UNCHANGED <<instance, trial, step, job, pulse, controller, log, drops, trigger, owners, device, lab, books>>

\* Mutant of TearDown: a job that failed leaves the link up.
TearDownVerified ==
    /\ Cleaning("removed") /\ cleanup' = "done"
    /\ job' = IF job = "verified" THEN "ok" ELSE "red"
    /\ IF job = "verified" THEN fault' = "off" /\ pulse' = "none" ELSE UNCHANGED <<fault, pulse>>
    /\ UNCHANGED <<instance, trial, step, controller, log, drops, trigger, owners, device, lab, books, failures>>

\* The namespace goes, with the link, the proxy and what still runs in it.
TearDown ==
    /\ Cleaning("removed") /\ cleanup' = "done"
    /\ job' = IF job = "verified" THEN "ok" ELSE "red"
    /\ fault' = "off" /\ pulse' = "none"
    /\ UNCHANGED <<instance, trial, step, controller, log, drops, trigger, owners, device, lab, books, failures>>

\* In a verified job the assertion that follows fails, and is passed over: errexit
\* has been off since cleanup().
TearDownFails ==
    /\ Cleaning("removed") /\ failures < instance.failures
    /\ cleanup' = "ignored" /\ failures' = failures + 1
    /\ job' = IF job = "verified" THEN "ok" ELSE "red"
    /\ UNCHANGED <<instance, trial, step, fault, pulse, controller, log, drops, trigger, owners, device, lab, books>>

Ended == job \in {"ok", "red"} /\ UNCHANGED vars

Next ==
    \/ RowWritten \/ PacketDropped
    \/ Clean \/ Before \/ Start \/ StartMisread \/ Stop \/ StopTransport \/ After
    \/ StepFails \/ StepRefuses
    \/ LaunchPulse \/ PulseArms \/ PulseSeesDrop \/ PulseFinishes \/ PulseFails \/ PulseFailsToArm \/ AwaitArmed \/ WaitPulse
    \/ Listen \/ ControllerSettles \/ ControllerDisarms \/ ControllerFails \/ WaitController
    \/ LaunchDevice \/ OwnerFails \/ CallReturns \/ OwnerServed \/ DeviceReturns \/ DeviceGivesUp
    \/ Verify \/ KillProcesses \/ StrayArms \/ RemoveNetem \/ TearDown \/ TearDownFails \/ Ended

Spec == Init /\ [][Next]_vars

-------------------------------------------------------------------------------
(* Properties *)

Accepted == job \in {"verified", "ok"}

TrueRequests(t) == SumOf([i \in DOMAIN owners[t] |-> owners[t][i].requests])
Reaching(t) == Cardinality({i \in DOMAIN owners[t] : owners[t][i].requests > 0})
LateUpTo(t) == \E row \in late : row.trial <= t
FewLate == Cardinality(late) < Cardinality(Trials)
Alike == \A t, u \in Trials : TrueRequests(t) = TrueRequests(u) /\ Reaching(t) = Reaching(u)

ReportsTruly(row, t) ==
    /\ row.recovery.originRequests = TrueRequests(t)
    /\ row.recovery.retries = TrueRequests(t) - Reaching(t)

\* The request and replay counts a verified experiment reports for its trials
\* are those its owners made, unless a request outlived the wait for the trace
\* to settle (await_trace_settle()) in that trial or before it; and when the
\* four trials were alike they are right even then, since the verifiers ask
\* the trials to agree, unless as many requests outlived it as there are trials.
AcceptedRunReportsItsRequests ==
    Accepted =>
        LET rows == FinalizedRows(Evidence, Profile)
        IN  \A t \in Trials : ReportsTruly(rows[t], t) \/ (LateUpTo(t) /\ ~(Alike /\ FewLate))

\* Where the fault of a trial was.
FaultReal(t) ==
    CASE Profile = "N6" ->
            \/ /\ owners[t][1].armed /\ owners[t][1].requests > 0
               /\ ~owners[t][Len(owners[t])].armed /\ Len(owners[t]) = 2
            \/ LateUpTo(t - 1)
      [] Profile = "N3" -> kept[t].own \/ LateUpTo(t - 1)
      [] Profile = "N6R" ->
            /\ Time("OWN1") < Time("LOST") /\ Time("LOST") < Time("FAIL1")
            /\ Time("UP2") < Time("OWN2") /\ Time("CAPS2") < Time("OWN2")
            /\ Time("LOST") < Time("PAUSE") /\ Time("PAUSE") < Time("UP2")
            /\ owners[t][1].requests = 0 \/ LateUpTo(t)
      [] OTHER -> TRUE

\* A verified experiment put its fault where it says: each N6 trial's first
\* owner was reset on its way to the origin and the next one opened its
\* connection after the removal; each N3 blackout dropped the device's own
\* traffic; in each N6R trial the old route's owner was lost with its route
\* and sent nothing, and the next began on the validated replacement - unless
\* a request of an earlier trial (of this one, for N6R) was still in flight.
AcceptedFaultIsReal == Accepted => \A t \in Trials : FaultReal(t)

\* The harness' evidence and the fault agree: what it recorded as removed is
\* gone; no fault and no pulse of one trial is there when the next counts its
\* trace.  Whichever step a job ended at, and whatever was still at work beside
\* it, no pulse outlives it; no fault does if it was verified, whatever becomes
\* of cleanup(), and none if it failed, unless the link could not be taken down.
FaultStaysInItsTrial ==
    /\ "FAULT_REMOVED" \in Elements(log) => fault = "off"
    /\ Doing("BEFORE") => fault = "off" /\ ~PulseAlive
    /\ job \in {"ok", "red"} => ~PulseAlive
    /\ job = "ok" => fault = "off"
    /\ job = "red" /\ fault = "armed" => cleanup = "ignored"

\* What a document may say that is not so without being refused: a processor
\* time, which nothing can contradict; a first byte that came later within its
\* attempt; the run of a reset environment; where no environment is verified, its
\* code; and what is said of a trigger or of a failure where there was none.
Unchecked ==
    {"none", "cpu", "progress"} \cup (IF Profile = "N6" THEN {"environmentRun"} ELSE {"trigger"})
        \cup (IF Profile \in {"N0", "N6R"} THEN {"environmentRun", "code", "readback", "unclean", "otherRun"} ELSE {})
        \cup (IF Len(owners[2]) = 1 THEN {"observation"} ELSE {})

\* A document that misreports one thing about a trial makes the verifier refuse
\* the whole experiment.
MisreportsAreCaught == Accepted => instance.misreport \in Unchecked
===============================================================================
