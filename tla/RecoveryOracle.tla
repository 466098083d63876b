----------------------------- MODULE RecoveryOracle -----------------------------
(***************************************************************************)
(* m2_recovery_oracle.py: the replay of the evidence of one RecoveryChain, *)
(* an event at a time.  A chain's record is what _Chain and the joins of   *)
(* _verify_failure_lineage() and _verify_budget_exhausted() need; its      *)
(* field broken names the requirements that the first bad event breaks.    *)
(*                                                                         *)
(* The rows of failure-decision-events are taken where they are written,   *)
(* between the budget events, to which the oracle joins them by their ids. *)
(* Left out: schemas, privacy, ids and ordinals, which only number what    *)
(* the record counts.  What a row derives from its observation and context *)
(* is in RecoveryTables.                                                   *)
(***************************************************************************)
EXTENDS Naturals, Sequences

Spent(attempts, refreshes) == [attempts |-> attempts, refreshes |-> refreshes]

\* Every event carries the ledger and the priority of its chain when it was written.
Event(kind, spent, priority, detail) ==
    [kind |-> kind, spent |-> spent, priority |-> priority, detail |-> detail]

\* Details.  "early": the provider wait of the last row is still running; "left": the
\* budget that the context of the row has left; "ends": the terminal reason of its
\* action; "named": the terminal event names the failure.
ChargeOf(dimension, early) == [dimension |-> dimension, early |-> early]
Finish(admitted, success) == [admitted |-> admitted, success |-> success]
Row(action, owned, left, ends) ==
    [action |-> action, owned |-> owned, left |-> left, ends |-> ends,
     result |-> "none", charged |-> FALSE]
End(reason, named) == [reason |-> reason, named |-> named]

\* What of a row is looked at again.
Kept(row) == [action |-> row.action, ends |-> row.ends, result |-> row.result]
NoRow == [action |-> "none", ends |-> "none", result |-> "none"]

NoChain == [terminal |-> "unborn", broken |-> {}]

\* _Chain.__init__()
NewChain(limits, event) ==
    [limits |-> limits, spent |-> event.spent, priority |-> event.priority,
     terminal |-> "none", consumers |-> {},
     open |-> FALSE,        \* open_owner
     pending |-> FALSE,     \* pending_charge
     permit |-> FALSE,      \* permit_granted
     backoff |-> FALSE,     \* backoff_open
     charges |-> 0,         \* len(charges)
     refreshCharged |-> FALSE,  \* by a charge whose row is still to come
     failed |-> FALSE,      \* the last owner failed and has no row yet
     atFinish |-> event.spent,
     row |-> NoRow,         \* the last, until the owner it led to starts
     broken |-> {}]

Require(name, condition) == IF condition THEN {} ELSE {name}

AttemptsLeft(k) == k.limits.attempts - k.spent.attempts

\* The ledger of any event but a charge is that of the event before it.
LedgerHolds(k, e) ==
    IF e.kind # "CHARGE" THEN e.spent = k.spent
    ELSE e.spent = [k.spent EXCEPT ![e.detail.dimension] = @ + 1]

WithinLimits(k, e) == \A d \in DOMAIN k.limits : e.spent[d] <= k.limits[d]

BrokenByCharge(k, e) ==
    IF e.detail.dimension = "attempts"
    THEN Require("CHARGE_WITHOUT_PERMIT", k.permit)
            \union Require("CHARGE_WITH_OPEN_OWNER", ~k.open)
            \union Require("CHARGE_DURING_BACKOFF", ~k.backoff)
            \union Require("CHARGE_WITHOUT_OWNER", ~k.pending)
    ELSE Require("CHARGE_WITH_OPEN_OWNER", ~k.open)
            \union Require("TWO_REFRESH_CHARGES", ~k.refreshCharged)

\* A charge after the last row: its action ended the chain, or told it to wait.  The
\* charge of a refresh comes before the row that executed it.
BrokenByRequest(k, e) ==
    Require("REQUEST_AFTER_TERMINAL_DECISION", k.row.ends = "none")
        \union Require("EARLY_REQUEST", k.row.action = "WAIT_PROVIDER" => ~e.detail.early)

BrokenByFinish(k, e) ==
    Require("CHARGE_WITHOUT_OWNER", ~k.pending)
        \union Require("OVERLAPPING_OWNER", e.detail.admitted <=> k.open)
        \union Require("TWO_FAILURES", ~k.failed)

\* _verify_failures() and _verify_failure_lineage() of one row.
BrokenByRow(k, e) ==
    LET row == e.detail
        refresh == row.action = "REFRESH_DELIVERY_BINDING"
    IN  Require("ROW_WITHOUT_FAILED_OWNER", row.owned => k.failed)
            \union Require("CONTEXT_NOT_LEDGER", row.owned =>
                \A d \in DOMAIN k.limits : row.left[d] = k.limits[d] - k.atFinish[d])
            \union Require("CHARGED_ROW", row.charged <=> k.refreshCharged)
            \union Require("REFRESH_RESULT",
                row.result \in {"NOT_ADMITTED", "CLOSED"} => ~row.charged)
            \union Require("NOT_ADMITTED_WITH_BUDGET",
                refresh /\ row.result = "NOT_ADMITTED" => row.left.refreshes = 0)

\* The end of a chain, with _verify_budget_exhausted().
BrokenByEnd(k, e) ==
    LET reason == e.detail.reason IN
    Require("END_WITH_OPEN_OWNER", ~k.open)
        \union Require("UNUSED_CHARGE", ~k.pending)
        \union Require("END_NOT_DECIDED",
            IF e.detail.named THEN k.row.ends = reason ELSE k.row.ends = "none")
        \union Require("BUDGET_NOT_EXHAUSTED", reason = "BUDGET_EXHAUSTED" =>
            AttemptsLeft(k) = 0 \/ (e.detail.named /\ k.row.result = "NOT_ADMITTED"))
        \union Require("FAILURE_WITHOUT_ROW", ~k.failed)

BrokenByKind(k, e) ==
    CASE e.kind = "CHARGE" -> BrokenByCharge(k, e) \union BrokenByRequest(k, e)
      [] e.kind = "OWNER_STARTED" -> Require("OWNER_WITHOUT_CHARGE", k.pending)
      [] e.kind = "OWNER_FINISHED" -> BrokenByFinish(k, e)
      [] e.kind = "ATTEMPT_PERMIT_WAIT" ->
            Require("PERMIT_WAIT_WITH_OPEN_OWNER", ~k.open)
                \union Require("PERMIT_WAIT_DURING_BACKOFF", ~k.backoff)
      [] e.kind = "BACKOFF_SCHEDULED" ->
            Require("BACKOFF_NOT_DECIDED", k.row.action = "SCHEDULE_BACKOFF")
      [] e.kind = "BACKOFF_COMPLETED" -> Require("BACKOFF_NOT_SCHEDULED", k.backoff)
      [] e.kind = "CONSUMER_JOINED" -> Require("BAD_JOIN", e.detail \notin k.consumers)
      [] e.kind = "CONSUMER_RELEASED" -> Require("BAD_RELEASE", e.detail \in k.consumers)
      [] e.kind = "PRIORITY_RAISED" -> Require("BAD_RAISE", e.priority > k.priority)
      [] e.kind = "FAILURE" -> BrokenByRow(k, e)
      [] e.kind = "CHAIN_TERMINATED" -> BrokenByEnd(k, e)
      [] OTHER -> {}

BrokenBy(k, e) ==
    Require("AFTER_TERMINAL", k.terminal = "none")
        \union Require("LEDGER", LedgerHolds(k, e))
        \union Require("OVER_LIMIT", WithinLimits(k, e))
        \union BrokenByKind(k, e)
        \union Require("PRIORITY",
            e.kind \notin {"PRIORITY_RAISED", "CONSUMER_JOINED"} => e.priority = k.priority)

\* The row kept is that of the latest failure.  The oracle checks each row against all
\* charges after it, which differs for a provider wait alone, and only where a failure
\* without a charge comes between the wait and the charge.
Applied(k, e) ==
    CASE e.kind = "CHARGE" ->
            IF e.detail.dimension = "attempts"
            THEN [k EXCEPT !.pending = TRUE, !.permit = FALSE, !.charges = @ + 1]
            ELSE [k EXCEPT !.refreshCharged = TRUE]
      [] e.kind = "OWNER_STARTED" -> [k EXCEPT !.pending = FALSE, !.open = TRUE, !.row = NoRow]
      [] e.kind = "OWNER_FINISHED" ->
            [k EXCEPT !.open = FALSE, !.permit = FALSE, !.atFinish = e.spent,
                      !.failed = ~e.detail.success]
      [] e.kind = "ATTEMPT_PERMIT_GRANTED" -> [k EXCEPT !.permit = TRUE]
      [] e.kind = "BACKOFF_SCHEDULED" -> [k EXCEPT !.backoff = TRUE]
      [] e.kind = "BACKOFF_COMPLETED" -> [k EXCEPT !.backoff = FALSE]
      [] e.kind = "CONSUMER_JOINED" -> [k EXCEPT !.consumers = @ \union {e.detail}]
      [] e.kind = "CONSUMER_RELEASED" -> [k EXCEPT !.consumers = @ \ {e.detail}]
      [] e.kind = "FAILURE" ->
            [k EXCEPT !.row = Kept(e.detail), !.refreshCharged = FALSE,
                      !.failed = IF e.detail.owned THEN FALSE ELSE @]
      [] e.kind = "CHAIN_TERMINATED" ->
            [k EXCEPT !.terminal = e.detail.reason, !.backoff = FALSE]
      [] OTHER -> k

\* _replay_budget(), one event: the verification stops where a requirement is broken.
Replay(k, e) ==
    LET bad == BrokenBy(k, e) IN
    IF k.broken # {} THEN k
    ELSE IF bad # {} THEN [k EXCEPT !.broken = bad]
    ELSE [Applied(k, e) EXCEPT !.spent = e.spent, !.priority = e.priority]

ReplayAll(k, events) ==
    LET upTo[n \in 0 .. Len(events)] == IF n = 0 THEN k ELSE Replay(upTo[n - 1], events[n])
    IN  upTo[Len(events)]

\* verify_recovery(): a complete document, whose charges are the physical attempts of
\* the fetch evidence.
Accepts(k, physicalAttempts) ==
    /\ k.broken = {}
    /\ k.terminal # "none"
    /\ ~k.failed /\ ~k.refreshCharged
    /\ k.charges = physicalAttempts
===============================================================================
