----------------------------- MODULE RecoveryTables -----------------------------
(***************************************************************************)
(* The decision tables of recovery, twice: as FailureClassifier.kt,        *)
(* RecoveryPolicy.kt and RecoveryCoordinator.kt have them, and as          *)
(* m2_recovery_oracle.py ("Oracle...") and m2_contracts.py ("Anchor...")   *)
(* derive them again to verify the evidence of a run.                      *)
(*                                                                         *)
(* A status stands for its class.  A Retry-After value and the limits of a *)
(* policy are small numbers.                                               *)
(***************************************************************************)
EXTENDS Integers, FiniteSets, FiniteSetsExt

-------------------------------------------------------------------------------
(* Observations and contexts *)

\* type -> (plane, kinds)
OBSERVATION_TYPES ==
    [TRANSPORT_IO |->
        [plane |-> "TRANSPORT", kinds |-> {"CONNECT_TIMEOUT", "READ_TIMEOUT",
            "CONNECTION_RESET", "PREMATURE_EOF", "IO", "TARGET_UNRESOLVED"}],
     HTTP_RESPONSE |-> [plane |-> "PROVIDER", kinds |-> {"HTTP_STATUS"}],
     DELIVERY_DESCRIPTOR |-> [plane |-> "PROVIDER", kinds |-> {"DESCRIPTOR_STALE"}],
     RANGE_PROTOCOL |->
        [plane |-> "RESPONSE_CONTRACT", kinds |-> {"FULL_BODY_FOR_RANGE_REQUEST",
            "CONTENT_RANGE_MISSING", "CONTENT_RANGE_MISMATCH", "RESPONSE_LENGTH_MISMATCH",
            "RESPONSE_BYTES_OUTSIDE_RANGE", "REQUEST_OUTSIDE_RESOURCE"}],
     CONTENT_INTEGRITY |->
        [plane |-> "RESPONSE_CONTRACT", kinds |-> {"DIGEST_OR_LENGTH_MISMATCH"}],
     STORAGE |-> [plane |-> "STORAGE", kinds |-> {"NO_SPACE", "IO", "CONFLICT"}],
     CANCELLATION |-> [plane |-> "LOCAL", kinds |-> {"NO_CONSUMERS", "SESSION_SHUTDOWN"}],
     INTERNAL |-> [plane |-> "LOCAL", kinds |-> {"INTERNAL_FAILURE"}]]

Statuses == {302, 400, 403, 404, 408, 416, 429, 500, 503, 599}
RawKinds == {"ABSENT", "DELAY_SECONDS", "HTTP_DATE", "MALFORMED"}
Signals == {"NONE", "BINDING_STALE_CONFIRMED"}

\* "refreshable": the response names the binding revision selected for its owner.
Observation(type, kind, status, raw, signal, refreshable) ==
    [type |-> type, kind |-> kind, status |-> status, retryAfter |-> raw,
     signal |-> signal, refreshable |-> refreshable]

Responses(statuses) ==
    [type: {"HTTP_RESPONSE"}, kind: {"HTTP_STATUS"}, status: statuses,
     retryAfter: RawKinds, signal: Signals, refreshable: BOOLEAN]

Observations ==
    Responses(Statuses)
    \union
    UNION {[type: {type}, kind: OBSERVATION_TYPES[type].kinds, status: {0},
            retryAfter: {"ABSENT"}, signal: {"NONE"}, refreshable: {FALSE}] :
           type \in DOMAIN OBSERVATION_TYPES \ {"HTTP_RESPONSE"}}

Contexts == [demand: BOOLEAN, closing: BOOLEAN, remaining: {0, 1}]

-------------------------------------------------------------------------------
(* FailureClassifier.kt and RecoveryPolicy.kt *)

ClassifyHttpStatus(status, signal) ==
    CASE status = 429 -> "PROVIDER_RATE_LIMITED"
      [] status = 408 \/ status \in 500 .. 599 -> "PROVIDER_TRANSIENT_RESPONSE"
      [] status \in (400 .. 499) \ {408, 429} ->
            IF signal = "BINDING_STALE_CONFIRMED" THEN "DELIVERY_BINDING_STALE"
                                                  ELSE "PROVIDER_REJECTED"
      [] OTHER -> "UNKNOWN"

\* Mutant of Classify: any 403 is taken for a stale binding.
ClassifyBare403(o) ==
    IF o.status = 403 THEN "DELIVERY_BINDING_STALE"
    ELSE IF o.type = "HTTP_RESPONSE" THEN ClassifyHttpStatus(o.status, o.signal)
    ELSE "UNKNOWN"

Classify(o) ==
    CASE o.type = "TRANSPORT_IO" ->
            IF o.kind = "TARGET_UNRESOLVED" THEN "TERMINAL_TRANSPORT" ELSE "TRANSIENT_TRANSPORT"
      [] o.type = "HTTP_RESPONSE" -> ClassifyHttpStatus(o.status, o.signal)
      [] o.type = "DELIVERY_DESCRIPTOR" -> "DELIVERY_BINDING_STALE"
      [] o.type = "RANGE_PROTOCOL" -> "RANGE_REJECTED"
      [] o.type = "CONTENT_INTEGRITY" -> "CONTENT_INTEGRITY"
      [] o.type = "STORAGE" ->
            IF o.kind = "CONFLICT" THEN "PUBLICATION_CONFLICT" ELSE "STORAGE_FAILURE"
      [] o.type = "CANCELLATION" -> "CANCELLED"
      [] o.type = "INTERNAL" -> "INTERNAL"

\* retryIfDemanded() and the other decisions that need demand.
IfDemanded(context, decision) == IF context.demand THEN decision ELSE "COMPLETE_NO_DEMAND"

DecideRateLimited(o, context) ==
    IfDemanded(context,
        IF context.remaining > 0 /\ o.retryAfter \in {"ABSENT", "MALFORMED"}
        THEN "FAIL_TERMINAL" ELSE "WAIT_UNTIL_PROVIDER")

ShutDown(o, context) ==
    context.closing \/ (o.type = "CANCELLATION" /\ o.kind = "SESSION_SHUTDOWN")

\* RecoveryPolicy.decide()
Decide(class, o, context) ==
    IF ShutDown(o, context) THEN "COMPLETE_SESSION"
    ELSE CASE class \in {"TRANSIENT_TRANSPORT", "PROVIDER_TRANSIENT_RESPONSE"} ->
                IfDemanded(context, "RETRY_AFTER_BACKOFF")
           [] class = "PROVIDER_RATE_LIMITED" -> DecideRateLimited(o, context)
           [] class = "DELIVERY_BINDING_STALE" ->
                IfDemanded(context, "REFRESH_DELIVERY_BINDING")
           [] class = "PUBLICATION_CONFLICT" -> "RECONCILE_LOCAL_COVERAGE"
           [] class = "CANCELLED" -> IfDemanded(context, "CONTINUE_FOR_DEMAND")
           [] OTHER -> "FAIL_TERMINAL"

\* actionFor(), waitUntilProvider() and refreshDecision(); a reconciliation that is
\* still to be made, like a refresh, is an action without a result.
ActionFor(decision, o, context) ==
    CASE decision \in {"RETRY_AFTER_BACKOFF", "CONTINUE_FOR_DEMAND",
                       "WAIT_UNTIL_PROVIDER", "REFRESH_DELIVERY_BINDING"}
            /\ context.remaining = 0 -> "TERMINATE_BUDGET_EXHAUSTED"
      [] decision = "RETRY_AFTER_BACKOFF" /\ context.remaining > 0 -> "SCHEDULE_BACKOFF"
      [] decision = "CONTINUE_FOR_DEMAND" /\ context.remaining > 0 -> "START_NEXT_OWNER"
      [] decision = "WAIT_UNTIL_PROVIDER" /\ context.remaining > 0 ->
            IF o.retryAfter \in {"DELAY_SECONDS", "HTTP_DATE"}
            THEN "WAIT_PROVIDER" ELSE "FAIL_CLOSED_ACTION_UNAVAILABLE"
      [] decision = "REFRESH_DELIVERY_BINDING" /\ context.remaining > 0 ->
            IF o.type = "HTTP_RESPONSE" /\ o.refreshable
            THEN "REFRESH_DELIVERY_BINDING" ELSE "FAIL_CLOSED_ACTION_UNAVAILABLE"
      [] decision = "FAIL_TERMINAL" -> "TERMINATE_FAILURE"
      [] decision = "COMPLETE_NO_DEMAND" -> "TERMINATE_NO_DEMAND"
      [] decision = "COMPLETE_SESSION" -> "TERMINATE_SESSION"
      [] decision = "RECONCILE_LOCAL_COVERAGE" -> "RECONCILE"

LocalReconciliations == {"COVERAGE_PRESENT", "IDENTITY_CONFLICT", "ABSENT", "FAILED"}

ReconciledAction(reconciliation) ==
    CASE reconciliation = "COVERAGE_PRESENT" -> "LOCAL_COVERAGE_READY"
      [] reconciliation = "IDENTITY_CONFLICT" -> "FAIL_CLOSED_IDENTITY_CONFLICT"
      [] OTHER -> "TERMINATE_FAILURE"

\* applyLocked(): the terminal reason of an action, or "none".
AppliedTerminal(action) ==
    CASE action = "LOCAL_COVERAGE_READY" -> "SUCCESS"
      [] action = "TERMINATE_BUDGET_EXHAUSTED" -> "BUDGET_EXHAUSTED"
      [] action = "TERMINATE_NO_DEMAND" -> "NO_REMAINING_DEMAND"
      [] action = "TERMINATE_SESSION" -> "SESSION_TERMINATION"
      [] action \in {"TERMINATE_FAILURE", "FAIL_CLOSED_ACTION_UNAVAILABLE",
                     "FAIL_CLOSED_IDENTITY_CONFLICT"} -> "TERMINAL_FAILURE"
      [] OTHER -> "none"

\* RecoveryBackoff.windowMs(): doubled until the cap, which no overflow passes.
WindowMs(base, cap, ordinal) ==
    LET window[n \in 1 .. ordinal] ==
            IF n = 1 THEN base
            ELSE IF window[n - 1] >= cap \/ window[n - 1] > cap \div 2 THEN cap
            ELSE window[n - 1] * 2
    IN  IF window[ordinal] < cap THEN window[ordinal] ELSE cap

\* RetryAfter.waitMs(), in seconds.
WaitMs(raw, value, now) ==
    CASE raw = "DELAY_SECONDS" -> value
      [] raw = "HTTP_DATE" -> IF value <= now THEN 0 ELSE value - now
      [] OTHER -> -1

LegacyOutcomeKind(o) ==
    CASE o.type = "TRANSPORT_IO" ->
            IF o.kind = "TARGET_UNRESOLVED" THEN "TERMINAL_TRANSPORT_FAILURE"
                                            ELSE "RETRYABLE_TRANSPORT_FAILURE"
      [] o.type = "HTTP_RESPONSE" ->
            IF o.status \in {408, 429} \/ o.status >= 500 THEN "RETRYABLE_TRANSPORT_FAILURE"
                                                          ELSE "TERMINAL_TRANSPORT_FAILURE"
      [] o.type = "DELIVERY_DESCRIPTOR" -> "DESCRIPTOR_STALE"
      [] o.type = "RANGE_PROTOCOL" -> "RANGE_REJECTED"
      [] o.type = "CONTENT_INTEGRITY" -> "CONTENT_INTEGRITY_REJECTED"
      [] o.type = "INTERNAL" -> "INTERNAL_FAILURE"
      [] OTHER ->
            CASE o.kind = "NO_SPACE" -> "STORAGE_NO_SPACE"
              [] o.kind = "IO" -> "STORAGE_IO"
              [] o.kind = "CONFLICT" -> "STORAGE_CONFLICT"
              [] o.kind = "NO_CONSUMERS" -> "CANCELLED_NO_CONSUMERS"
              [] o.kind = "SESSION_SHUTDOWN" -> "CANCELLED_BROKER_SHUTDOWN"

-------------------------------------------------------------------------------
(* m2_recovery_oracle.py *)

\* classify(): a chain of cases, the first of which decides.
OracleClassify(o) ==
    LET is(type) == o.type = type
        clientError == o.status \in 400 .. 499
    IN  IF is("TRANSPORT_IO") /\ o.kind = "TARGET_UNRESOLVED" THEN "TERMINAL_TRANSPORT"
        ELSE IF is("TRANSPORT_IO") THEN "TRANSIENT_TRANSPORT"
        ELSE IF is("HTTP_RESPONSE") THEN
            IF o.status = 429 THEN "PROVIDER_RATE_LIMITED"
            ELSE IF o.status = 408 \/ o.status \in 500 .. 599 THEN "PROVIDER_TRANSIENT_RESPONSE"
            ELSE IF clientError /\ o.signal = "BINDING_STALE_CONFIRMED" THEN "DELIVERY_BINDING_STALE"
            ELSE IF clientError THEN "PROVIDER_REJECTED"
            ELSE "UNKNOWN"
        ELSE IF is("DELIVERY_DESCRIPTOR") THEN "DELIVERY_BINDING_STALE"
        ELSE IF is("RANGE_PROTOCOL") THEN "RANGE_REJECTED"
        ELSE IF is("CONTENT_INTEGRITY") THEN "CONTENT_INTEGRITY"
        ELSE IF is("STORAGE") /\ o.kind = "CONFLICT" THEN "PUBLICATION_CONFLICT"
        ELSE IF is("STORAGE") THEN "STORAGE_FAILURE"
        ELSE IF is("CANCELLATION") THEN "CANCELLED"
        ELSE IF is("INTERNAL") THEN "INTERNAL"
        ELSE "UNKNOWN"

\* legacy_outcome(): a table by type, then one by type and kind.
OracleLegacyOutcome(o) ==
    LET byType == [DELIVERY_DESCRIPTOR |-> "DESCRIPTOR_STALE", RANGE_PROTOCOL |-> "RANGE_REJECTED",
                   CONTENT_INTEGRITY |-> "CONTENT_INTEGRITY_REJECTED", INTERNAL |-> "INTERNAL_FAILURE"]
        byKind == [NO_SPACE |-> "STORAGE_NO_SPACE", IO |-> "STORAGE_IO",
                   CONFLICT |-> "STORAGE_CONFLICT", NO_CONSUMERS |-> "CANCELLED_NO_CONSUMERS",
                   SESSION_SHUTDOWN |-> "CANCELLED_BROKER_SHUTDOWN"]
        retryable == IF o.type = "TRANSPORT_IO" THEN o.kind # "TARGET_UNRESOLVED"
                     ELSE o.status \in {408, 429} \/ o.status >= 500
    IN  IF o.type \in {"TRANSPORT_IO", "HTTP_RESPONSE"}
        THEN IF retryable THEN "RETRYABLE_TRANSPORT_FAILURE" ELSE "TERMINAL_TRANSPORT_FAILURE"
        ELSE IF o.type \in DOMAIN byType THEN byType[o.type]
        ELSE byKind[o.kind]

\* decide(), table v2.
OracleDecide(class, o, context) ==
    CASE ShutDown(o, context) -> "COMPLETE_SESSION"
      [] ~ShutDown(o, context) /\ ~context.demand
            /\ class \in {"TRANSIENT_TRANSPORT", "PROVIDER_TRANSIENT_RESPONSE",
                          "PROVIDER_RATE_LIMITED", "DELIVERY_BINDING_STALE", "CANCELLED"} ->
            "COMPLETE_NO_DEMAND"
      [] OTHER ->
            IF class \in {"TRANSIENT_TRANSPORT", "PROVIDER_TRANSIENT_RESPONSE"}
            THEN "RETRY_AFTER_BACKOFF"
            ELSE IF class = "PROVIDER_RATE_LIMITED"
                    /\ (context.remaining = 0 \/ o.retryAfter \notin {"ABSENT", "MALFORMED"})
            THEN "WAIT_UNTIL_PROVIDER"
            ELSE IF class = "DELIVERY_BINDING_STALE" THEN "REFRESH_DELIVERY_BINDING"
            ELSE IF class = "PUBLICATION_CONFLICT" THEN "RECONCILE_LOCAL_COVERAGE"
            ELSE IF class = "CANCELLED" THEN "CONTINUE_FOR_DEMAND"
            ELSE "FAIL_TERMINAL"

\* expected_action_v2(), under a policy that declares both dimensions.
OracleAction(decision, o, context) ==
    LET spends == decision \in {"RETRY_AFTER_BACKOFF", "CONTINUE_FOR_DEMAND",
                                "WAIT_UNTIL_PROVIDER", "REFRESH_DELIVERY_BINDING"}
        possible ==
            /\ decision = "WAIT_UNTIL_PROVIDER" => o.retryAfter \in {"DELAY_SECONDS", "HTTP_DATE"}
            /\ decision = "REFRESH_DELIVERY_BINDING" => o.refreshable
        executed == [RETRY_AFTER_BACKOFF |-> "SCHEDULE_BACKOFF",
                     CONTINUE_FOR_DEMAND |-> "START_NEXT_OWNER",
                     WAIT_UNTIL_PROVIDER |-> "WAIT_PROVIDER",
                     REFRESH_DELIVERY_BINDING |-> "REFRESH_DELIVERY_BINDING"]
        ends == [FAIL_TERMINAL |-> "TERMINATE_FAILURE", COMPLETE_NO_DEMAND |-> "TERMINATE_NO_DEMAND",
                 COMPLETE_SESSION |-> "TERMINATE_SESSION", RECONCILE_LOCAL_COVERAGE |-> "RECONCILE"]
    IN  IF ~spends THEN ends[decision]
        ELSE IF context.remaining = 0 THEN "TERMINATE_BUDGET_EXHAUSTED"
        ELSE IF possible THEN executed[decision]
        ELSE "FAIL_CLOSED_ACTION_UNAVAILABLE"

\* expected_action_kind(), for a reconciliation.
OracleReconciled ==
    [COVERAGE_PRESENT |-> "LOCAL_COVERAGE_READY",
     IDENTITY_CONFLICT |-> "FAIL_CLOSED_IDENTITY_CONFLICT",
     ABSENT |-> "TERMINATE_FAILURE", FAILED |-> "TERMINATE_FAILURE"]

TERMINAL_OF_ACTION ==
    [LOCAL_COVERAGE_READY |-> "SUCCESS", TERMINATE_BUDGET_EXHAUSTED |-> "BUDGET_EXHAUSTED",
     TERMINATE_NO_DEMAND |-> "NO_REMAINING_DEMAND", TERMINATE_SESSION |-> "SESSION_TERMINATION",
     TERMINATE_FAILURE |-> "TERMINAL_FAILURE",
     FAIL_CLOSED_ACTION_UNAVAILABLE |-> "TERMINAL_FAILURE",
     FAIL_CLOSED_IDENTITY_CONFLICT |-> "TERMINAL_FAILURE"]

\* terminal_of_action(), with the result of a refresh, if it is one.
OracleTerminal(action, result) ==
    IF action = "REFRESH_DELIVERY_BINDING"
    THEN CASE result = "FAILED" -> "TERMINAL_FAILURE"
           [] result = "NOT_ADMITTED" -> "BUDGET_EXHAUSTED"
           [] result = "CLOSED" -> "SESSION_TERMINATION"
           [] OTHER -> "none"
    ELSE IF action \in DOMAIN TERMINAL_OF_ACTION THEN TERMINAL_OF_ACTION[action] ELSE "none"

OracleWindowMs(base, cap, ordinal) ==
    LET power[n \in 0 .. ordinal - 1] == IF n = 0 THEN 1 ELSE 2 * power[n - 1]
    IN  Min({cap, base * power[ordinal - 1]})

OracleWaitMs(raw, value, now) ==
    IF raw = "DELAY_SECONDS" THEN value
    ELSE IF raw = "HTTP_DATE" THEN Max({0, value - now})
    ELSE -1

-------------------------------------------------------------------------------
(* m2_contracts.py *)

\* _CONTRACT_KIND: the rows that have a kind in the frozen vocabulary.
Anchored(o) ==
    \/ o.type = "HTTP_RESPONSE"
    \/ o.type = "TRANSPORT_IO" /\ o.kind \notin {"IO", "TARGET_UNRESOLVED"}
    \/ o.type = "STORAGE" /\ o.kind # "CONFLICT"

\* validate_failure_record(), for a row with such a kind and a decision among those
\* of _CONTRACT_DECISION; evidence of the provider is its explicit signal.
AnchorHolds(o, class, decision) ==
    LET rebinds == decision \in {"REFRESH_DELIVERY_BINDING", "RERESOLVE_PROVIDER"}
        signalled == o.signal = "BINDING_STALE_CONFIRMED"
    IN  /\ (o.type = "STORAGE") = (class = "STORAGE_FAILURE")
        /\ o.type = "STORAGE" => ~rebinds
        /\ o.type = "TRANSPORT_IO" =>
            class \notin {"PROVIDER_RATE_LIMITED", "PROVIDER_REJECTED", "DELIVERY_BINDING_STALE"}
        /\ o.type = "HTTP_RESPONSE" =>
            /\ class # "TRANSIENT_TRANSPORT"
            /\ o.status = 429 => class = "PROVIDER_RATE_LIMITED"
            /\ o.status = 403 /\ ~signalled => class = "PROVIDER_REJECTED" /\ ~rebinds

\* _check_frozen_anchors(): only decisions with a name in the frozen vocabulary.
FrozenAnchorsHold(o, class, decision) ==
    decision \in {"RETRY_AFTER_BACKOFF", "WAIT_UNTIL_PROVIDER",
                  "REFRESH_DELIVERY_BINDING", "FAIL_TERMINAL"} /\ Anchored(o) =>
        AnchorHolds(o, class, decision)

-------------------------------------------------------------------------------
(* The two against each other *)

ActionOf(o, context) == ActionFor(Decide(Classify(o), o, context), o, context)

\* Everything the oracle derives of a failure from its observation and context.
TablesAgreeOn(o, context) ==
    LET class == Classify(o)
        decision == Decide(class, o, context)
    IN  /\ OracleClassify(o) = class
        /\ OracleDecide(class, o, context) = decision
        /\ OracleAction(decision, o, context) = ActionFor(decision, o, context)
        /\ OracleTerminal(ActionFor(decision, o, context), "none") = AppliedTerminal(ActionFor(decision, o, context))
        /\ OracleLegacyOutcome(o) = LegacyOutcomeKind(o)
        /\ FrozenAnchorsHold(o, class, decision)

ArithmeticAgrees ==
    /\ \A base \in 1 .. 4, cap \in 1 .. 12, ordinal \in 1 .. 6 :
        cap >= base => WindowMs(base, cap, ordinal) = OracleWindowMs(base, cap, ordinal)
    /\ \A raw \in RawKinds, value \in 0 .. 4, now \in 0 .. 4 :
        WaitMs(raw, value, now) = OracleWaitMs(raw, value, now)
    /\ \A r \in LocalReconciliations : OracleReconciled[r] = ReconciledAction(r)
===============================================================================
