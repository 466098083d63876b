---------------------------- MODULE RecoveryEvidence ----------------------------
(***************************************************************************)
(* A recovery coordinator with the evidence it writes, replayed by the     *)
(* oracle as it is written: every step of RecoveryCoordinator with the     *)
(* calls of emitBudget() and emitFailure() in it.                          *)
(*                                                                         *)
(* An event is written under the coordinator's lock, with the ledger read  *)
(* there.  The ledger is charged before and outside of it, by the callback *)
(* of the attempt's admission or of the refresh's, and so the events of    *)
(* that charge are steps of their own (WritesCharge).                      *)
(***************************************************************************)
EXTENDS RecoveryCoordinator, RecoveryOracle, RecoveryTables

VARIABLES
    replay,     \* what the oracle makes of each chain's evidence
    log,        \* what the chain's admission has still to write, or has written
    waitRuns    \* the provider wait of the chain's last row has not elapsed

evidenceVars == <<replay, log, waitRuns>>

EvidenceInit ==
    /\ Init
    /\ replay = [h \in Calls |-> NoChain]
    /\ log = [h \in Calls |-> "none"]
    /\ waitRuns = [h \in Calls |-> FALSE]

Written(h) == log[h] \notin {"charge", "started", "refresh"}

Budget(h) == Spent(attempts[h], refreshes[h])
Left(h) == Spent(Remaining(h), RefreshLimit - refreshes[h])

\* emitBudget(): the ledger and the priority are those of the moment of writing.
Emits(h, kind, detail) == Event(kind, Budget(h), priority[h], detail)

Writes(h, events) == replay' = [replay EXCEPT ![h] = ReplayAll(@, events)]

Silently == UNCHANGED evidenceVars

Also(h, events) == Writes(h, events) /\ UNCHANGED <<log, waitRuns>>

-------------------------------------------------------------------------------
(* Callers *)

\* CHAIN_STARTED, which must be the only open chain of its key, and CONSUMER_JOINED.
StartsChain(c) ==
    LET born == NewChain(Spent(AttemptLimit, RefreshLimit),
                    Event("CHAIN_STARTED", Spent(0, 0), Request[c].priority, None))
        second == \E g \in Calls : /\ KeyOf(g) = KeyOf(c)
                                   /\ replay[g].broken = {} /\ replay[g].terminal = "none"
        joined == Event("CONSUMER_JOINED", Spent(0, 0), Request[c].priority, Request[c].consumer)
    IN  /\ AcquireNewChain(c)
        /\ replay' = [replay EXCEPT ![c] =
                IF second THEN [born EXCEPT !.broken = {"SECOND_OPEN_CHAIN"}]
                          ELSE Replay(born, joined)]
        /\ UNCHANGED <<log, waitRuns>>

JoinsChain(c) ==
    LET h == active[KeyOf(c)]
        joined == Emits(h, "CONSUMER_JOINED", Request[c].consumer)
        raised == Event("PRIORITY_RAISED", Budget(h), Request[c].priority, None)
    IN  /\ AcquireJoins(c)
        /\ Also(h, IF Request[c].priority > priority[h] THEN <<joined, raised>> ELSE <<joined>>)

\* Mutant of LeavesChain: only the last consumer's release is written.
LastLeavesChain(c) ==
    \/ ReleaseNotLast(c) /\ Silently
    \/ ReleaseLast(c) /\ Also(on[c], <<Emits(on[c], "CONSUMER_RELEASED", Request[c].consumer)>>)

LeavesChain(c) ==
    /\ ReleaseNotLast(c) \/ ReleaseLast(c)
    /\ Also(on[c], <<Emits(on[c], "CONSUMER_RELEASED", Request[c].consumer)>>)

SilentCall(c) ==
    /\ \/ AcquireOnClosing(c) \/ AcquireConflicts(c)
       \/ StartDriver(c) \/ RaiseOwner(c) \/ AcquireReturns(c)
       \/ AwaitReturns(c) \/ ReleaseOfTerminal(c) \/ CloseHandle(c)
    /\ Silently

-------------------------------------------------------------------------------
(* The driver *)

Terminated(h, named) == Emits(h, "CHAIN_TERMINATED", End(reason'[h], named))
Failed(h, row) == Emits(h, "FAILURE", row)

\* A row whose action ends the chain, and the chain's end, which names it.
EndsByRow(h, row) == <<Failed(h, row), Terminated(h, TRUE)>>

EndsWithoutRow(h) ==
    /\ EndsAtHead(h) \/ EndsPermitted(h)
    /\ Also(h, <<Terminated(h, FALSE)>>)

WritesPermit(h) ==
    \/ GateOpen(h) /\ Also(h, <<Emits(h, "ATTEMPT_PERMIT_WAIT", None),
                               Emits(h, "ATTEMPT_PERMIT_GRANTED", None)>>)
    \/ GateShut(h) /\ Also(h, <<Emits(h, "ATTEMPT_PERMIT_WAIT", None)>>)
    \/ GateOpens(h) /\ Also(h, <<Emits(h, "ATTEMPT_PERMIT_GRANTED", None)>>)

\* What recordInternalFailure() derives from its observation.
InternalAction(h) ==
    ActionFor(Decide("INTERNAL", Observation("INTERNAL", "INTERNAL_FAILURE", 0, "ABSENT", "NONE", FALSE),
                     [demand |-> Demanded(h), closing |-> closing, remaining |-> 1]),
              [retryAfter |-> "ABSENT"], [remaining |-> 1])

\* A gate that throws at once has had its wait written.
WritesInternalFailure(h) ==
    LET wait == Emits(h, "ATTEMPT_PERMIT_WAIT", None)
        action == InternalAction(h)
        row == Row(action, FALSE, Left(h), AppliedTerminal(action))
    IN  /\ GateFails(h)
        /\ Also(h, IF at[h] = "gate" THEN <<wait, Failed(h, row), Terminated(h, TRUE)>>
                                     ELSE EndsByRow(h, row))

WritesOwnerFinished(h) ==
    /\ OwnerFinished(h)
    /\ Writes(h, <<Emits(h, "OWNER_FINISHED",
                        Finish(log[h] = "admitted", verdict[h] = "SUCCESS"))>>)
    /\ log' = [log EXCEPT ![h] = "none"]
    /\ UNCHANGED waitRuns

WritesDecision(h) ==
    \/ /\ DecidesToEnd(h)
       /\ Also(h, IF verdict[h] = "SUCCESS" THEN <<Terminated(h, FALSE)>>
                  ELSE EndsByRow(h, Row("TERMINATE", TRUE, Left(h), EndingReason(h))))
    \/ /\ SchedulesBackoff(h)
       /\ Also(h, <<Failed(h, Row("SCHEDULE_BACKOFF", TRUE, Left(h), "none")),
                    Emits(h, "BACKOFF_SCHEDULED", None)>>)
    \/ /\ StartsNextOwner(h)
       /\ Also(h, <<Failed(h, Row("START_NEXT_OWNER", TRUE, Left(h), "none"))>>)
    \/ /\ WaitsForProvider(h)
       /\ Writes(h, <<Failed(h, Row("WAIT_PROVIDER", TRUE, Left(h), "none"))>>)
       /\ waitRuns' = [waitRuns EXCEPT ![h] = TRUE]
       /\ UNCHANGED log
    \/ /\ Reconciled(h)
       /\ Also(h, EndsByRow(h, Row("RECONCILE", TRUE, Left(h), reason'[h])))

WritesWakeUp(h) ==
    /\ SleepEnds(h)
    /\ Also(h, IF state[h] = "WAITING_BACKOFF" THEN <<Emits(h, "BACKOFF_COMPLETED", None)>>
                                               ELSE <<>>)

\* The row of a refresh has the context of the decision, from before its charge.
RefreshRow(h, ends) ==
    LET charged == log[h] = "refreshed" IN
    [Row("REFRESH_DELIVERY_BINDING", TRUE,
         [Left(h) EXCEPT !.refreshes = IF charged THEN @ + 1 ELSE @], ends)
     EXCEPT !.result = verdict[h], !.charged = charged]

WritesRefresh(h) ==
    /\ \/ RefreshApplied(h) /\ Writes(h, <<Failed(h, RefreshRow(h, "none"))>>)
       \/ EndsAfterRefresh(h)
            /\ Writes(h, EndsByRow(h, RefreshRow(h,
                    OracleTerminal("REFRESH_DELIVERY_BINDING", verdict[h]))))
    /\ log' = [log EXCEPT ![h] = "none"]
    /\ UNCHANGED waitRuns

SilentDrive(h) ==
    /\ \/ PassesHead(h) \/ PassesPermitted(h) \/ BecomeActive(h)
       \/ AcquireOwner(h) \/ StoreHandle(h) \/ DriverCloses(h)
       \/ Reconciles(h) \/ DecidesToRefresh(h)
       \/ WaitStops(h) \/ RefreshAnswers(h) \/ CompleteChain(h)
    /\ Silently

-------------------------------------------------------------------------------
(* Charges *)

\* The admission charges the ledger; what it has to write of it follows.
Charges(h) ==
    /\ \/ /\ Admission(h)
          /\ log' = [log EXCEPT ![h] = IF attempts'[h] > attempts[h] THEN "charge" ELSE @]
       \/ /\ RefreshWaits(h)
          /\ log' = [log EXCEPT ![h] = IF refreshes'[h] > refreshes[h] THEN "refresh" ELSE @]
    /\ UNCHANGED <<replay, waitRuns>>

NextToWrite == [charge |-> "started", started |-> "admitted", refresh |-> "refreshed"]

WritesCharge(h) ==
    /\ ~Written(h)
    /\ Writes(h, <<CASE log[h] = "charge" -> Emits(h, "CHARGE", ChargeOf("attempts", waitRuns[h]))
                     [] log[h] = "refresh" -> Emits(h, "CHARGE", ChargeOf("refreshes", waitRuns[h]))
                     [] log[h] = "started" -> Emits(h, "OWNER_STARTED", None)>>)
    /\ log' = [log EXCEPT ![h] = NextToWrite[@]]
    /\ UNCHANGED <<vars, waitRuns>>

\* Mutant of EndsOnceWritten: an attempt ends while its admission is still writing.
EndsBeforeWritten(h) ==
    /\ AttemptEnds(h) \/ OwnerCancelled(h) \/ RefreshEnds(h) \/ RefreshAbandoned(h)
    /\ Silently

\* What was admitted ends after its admission has returned.
EndsOnceWritten(h) ==
    /\ AttemptEnds(h) \/ OwnerCancelled(h) \/ RefreshEnds(h) \/ RefreshAbandoned(h)
    /\ Written(h)
    /\ Silently

FailsUnadmitted(h) == FailsInPreflight(h) /\ Silently

\* The provider's time runs on, also when the chain does not wait for it any more.
TimePasses(h) ==
    /\ waitRuns[h]
    /\ waitRuns' = [waitRuns EXCEPT ![h] = FALSE]
    /\ IF throttled[h] THEN RetryAfterPasses(h) ELSE UNCHANGED vars
    /\ UNCHANGED <<replay, log>>

SilentShutdown == (BeginShutdown \/ Shutdown) /\ Silently

EvidenceNext ==
    \/ \E h \in Calls :
        \/ StartsChain(h) \/ JoinsChain(h) \/ LeavesChain(h) \/ SilentCall(h)
        \/ EndsWithoutRow(h) \/ WritesPermit(h) \/ WritesInternalFailure(h)
        \/ WritesOwnerFinished(h) \/ WritesDecision(h) \/ WritesWakeUp(h)
        \/ WritesRefresh(h) \/ SilentDrive(h)
        \/ Charges(h) \/ WritesCharge(h) \/ EndsOnceWritten(h)
        \/ FailsUnadmitted(h) \/ TimePasses(h)
    \/ SilentShutdown

EvidenceSpec == EvidenceInit /\ [][EvidenceNext]_<<vars, evidenceVars>>

-------------------------------------------------------------------------------
(* Properties *)

\* The verification of a document ends with the first requirement that is broken.
Verifying == \A h \in Calls : replay[h].broken = {}

\* The only evidence of the coordinator's that is rejected is that of three races: a
\* caller's event written between the charge of the ledger and the event of the charge
\* (LEDGER: "{kind} changed the ledger"), a chain that goes on after its backoff was
\* abandoned (PERMIT_WAIT), and one that goes on after its provider wait was
\* (EARLY_REQUEST).
RejectsOnlyKnownRaces ==
    \A h \in Calls :
        replay[h].broken \subseteq {"LEDGER", "PERMIT_WAIT_DURING_BACKOFF", "EARLY_REQUEST"}

\* Evidence that is not rejected tells the truth: the demand, the ledger, the end and
\* the number of physical requests of each chain are those of the replay, and when the
\* chain has delivered its outcome, the oracle accepts it as complete.
EvidenceTellsTheTruth ==
    \A h \in Calls :
        state[h] # "UNBORN" /\ replay[h].broken = {} /\ Written(h) =>
            /\ replay[h].spent = Budget(h)
            /\ replay[h].charges = requests[h]
            /\ replay[h].terminal = reason[h]
            /\ state[h] # "TERMINAL" =>
                replay[h].consumers = consumers[h] /\ replay[h].priority = priority[h]
            /\ result[h] => Accepts(replay[h], requests[h])

\* The verdicts of RecoveryCoordinator, by observation.
VerdictOf(o) ==
    LET class == Classify(o) IN
    CASE class \in {"TRANSIENT_TRANSPORT", "PROVIDER_TRANSIENT_RESPONSE"} -> "TRANSIENT"
      [] class = "PROVIDER_RATE_LIMITED" ->
            IF o.retryAfter \in {"DELAY_SECONDS", "HTTP_DATE"} THEN "THROTTLED" ELSE "UNACTIONABLE"
      [] class = "DELIVERY_BINDING_STALE" ->
            IF o.refreshable THEN "STALE" ELSE "UNACTIONABLE"
      [] class = "PUBLICATION_CONFLICT" -> "CONFLICT"
      [] class = "CANCELLED" -> "CANCELLED"
      [] OTHER -> "REJECTED"

\* How a chain's end is derived by the tables for each verdict and context.  The broker
\* cancels for its shutdown only while the session is closing.
DerivedEnds ==
    [p \in Verdicts \X Contexts |->
        LET seen == {o \in Observations :
                        VerdictOf(o) = p[1] /\ (o.kind = "SESSION_SHUTDOWN" => p[2].closing)}
        IN  IF \A o \in seen : TablesAgreeOn(o, p[2])
            THEN {AppliedTerminal(ActionOf(o, p[2])) : o \in seen}
            ELSE {"disagreement"}]

\* Whatever a failed attempt observed, in whatever situation its chain decides about
\* it, the runtime's tables and the oracle's, written apart from each other, derive the
\* same classification, decision and action, the frozen anchors hold of it, and the
\* chain ends as RecoveryCoordinator has it.
TablesAgree ==
    /\ \A h \in Calls : at[h] = "deciding" /\ verdict[h] # "SUCCESS" =>
        LET context == [demand |-> Demanded(h), closing |-> closing,
                        remaining |-> IF Remaining(h) = 0 THEN 0 ELSE 1]
        IN  DerivedEnds[<<verdict[h], context>>] = {EndingReason(h)}
    /\ closing => ArithmeticAgrees
===============================================================================
