-------------------------- MODULE RecoveryCoordinator --------------------------
(***************************************************************************)
(* RecoveryCoordinator.kt: recovery chains, each a sequence of fetch       *)
(* owners that its driver coroutine opens one after the other for as long  *)
(* as someone wants the extent and the budget lasts.                       *)
(*                                                                         *)
(* Each action is one critical section of the coordinator's lock, or one   *)
(* call to another component, with the thread-local code around it.  One   *)
(* element of Calls is one execution of acquire() and what its caller does *)
(* with the handle; it starts at most one chain, which has its name.       *)
(*                                                                         *)
(* The broker's side is FetchBroker's contract: one owner per key, which   *)
(* ends, and as CANCELLED only when nobody holds its handle.  The binding  *)
(* coordinator's side is what a refresh can answer.  Abstracted: evidence, *)
(* the jitter of a backoff, and classifications the policy treats alike.   *)
(***************************************************************************)
EXTENDS Naturals

CONSTANTS
    Calls,          \* executions of acquire(), each by one caller
    Keys,           \* FetchKeys
    Consumers,      \* RecoveryConsumerIds
    Specs,          \* immutable ExtentSpecs, equal iff isSameWorkAs
    Request,        \* what each call asks for, see RequestRecord
    AttemptLimit,   \* REMOTE_ATTEMPT budget of a chain
    RefreshLimit,   \* DELIVERY_BINDING_REFRESH budget of a chain
    None            \* no chain

RESERVE == 0
PLAYBACK == 1
Priorities == {RESERVE, PLAYBACK}

RequestRecord ==
    [key: Keys, spec: Specs, consumer: Consumers, priority: Priorities]

ASSUME RequestAssumption == Request \in [Calls -> RequestRecord]
ASSUME LimitAssumption ==
    AttemptLimit \in Nat \ {0} /\ RefreshLimit \in Nat \ {0}
ASSUME NoneAssumption == None \notin Calls

VARIABLES
    \* the fields of RecoveryChain, by the call that starts the chain
    state, consumers, priority, stopWaiting, settled, reason, result,
    handle,         \* brokerHandle is stored
    attempts,       \* spent on REMOTE_ATTEMPT
    refreshes,      \* spent on DELIVERY_BINDING_REFRESH
    \* its driver: where it stands, and the outcome it is about to act on
    at, verdict,
    \* its current FetchBroker owner, the chain's lease on it, its priority
    owner, leased, ownerPriority,
    \* the world: physical requests made, and whether the provider's Retry-After
    \* still asks the chain to hold back; no longer once its demand has lapsed
    requests, throttled,
    \* the coordinator
    active,         \* activeChains: key -> chain or None
    closing,
    \* the callers
    pc, on,
    shutdown        \* where shutdown() stands, chains to join, handles to close

demandVars == <<consumers, stopWaiting, priority>>
endVars == <<settled, reason, result>>
ledgerVars == <<attempts, refreshes, requests>>
ownerVars == <<owner, leased, ownerPriority>>
driverVars == <<at, verdict>>
callVars == <<pc, on>>
vars == <<state, demandVars, endVars, handle, ledgerVars, ownerVars, driverVars,
          throttled, active, closing, callVars, shutdown>>

KeyOf(c) == Request[c].key
SameWork(c, h) == Request[c].spec = Request[h].spec

States == {"UNBORN", "ACTIVE", "WAITING_ATTEMPT_PERMIT", "WAITING_BACKOFF",
           "WAITING_PROVIDER", "REFRESHING_BINDING", "CANCELLING", "TERMINAL"}

Reasons == {"SUCCESS", "TERMINAL_FAILURE", "BUDGET_EXHAUSTED",
            "NO_REMAINING_DEMAND", "SESSION_TERMINATION"}

\* What an owner's outcome is to the policy.  "UNACTIONABLE" is a rate limit without
\* a usable Retry-After, or a stale binding that cannot be refreshed; "REJECTED" is
\* every classification that is never retried.
Verdicts == {"SUCCESS", "TRANSIENT", "THROTTLED", "STALE", "CONFLICT",
             "CANCELLED", "UNACTIONABLE", "REJECTED"}

\* "GO_ON" is REFRESHED, ALREADY_ADVANCED, JOINED_REFRESH or ABANDONED;
\* "FAILED" is FAILED or INCOMPATIBLE.
RefreshResults == {"GO_ON", "FAILED", "NOT_ADMITTED", "CLOSED"}

Positions == {"none", "lazy", "head", "gate", "gating", "permitted", "cleared",
              "acquiring", "storing", "closing", "awaiting", "deciding", "sleeping",
              "reconciling", "refresh", "refreshing", "applying", "completing", "done"}

Owners == {"none", "preflight", "inflight", "ended"}

\* "raising" has joined and not raised the chain's owner yet; "closing" has left as
\* the last consumer and not closed the chain's handle yet.
Places == {"new", "starting", "raising", "settling", "holding", "closing", "ended"}

ShutdownRecord ==
    [pc: {"idle", "stopping", "closing", "joining", "returned"},
     chains: SUBSET Calls,
     handles: SUBSET Calls]

TypeOK ==
    /\ state \in [Calls -> States]
    /\ consumers \in [Calls -> SUBSET Consumers]
    /\ priority \in [Calls -> Priorities]
    /\ stopWaiting \in [Calls -> BOOLEAN]
    /\ settled \in [Calls -> BOOLEAN]
    /\ reason \in [Calls -> Reasons \union {"none"}]
    /\ result \in [Calls -> BOOLEAN]
    /\ handle \in [Calls -> BOOLEAN]
    /\ attempts \in [Calls -> 0 .. AttemptLimit]
    /\ refreshes \in [Calls -> 0 .. RefreshLimit]
    /\ at \in [Calls -> Positions]
    /\ verdict \in [Calls -> Verdicts \union RefreshResults \union {"none"}]
    /\ owner \in [Calls -> Owners]
    /\ leased \in [Calls -> BOOLEAN]
    /\ ownerPriority \in [Calls -> Priorities]
    /\ requests \in [Calls -> Nat]
    /\ throttled \in [Calls -> BOOLEAN]
    /\ active \in [Keys -> Calls \union {None}]
    /\ closing \in BOOLEAN
    /\ pc \in [Calls -> Places]
    /\ on \in [Calls -> Calls \union {None}]
    /\ shutdown \in ShutdownRecord

Init ==
    /\ state = [h \in Calls |-> "UNBORN"]
    /\ consumers = [h \in Calls |-> {}]
    /\ priority = [h \in Calls |-> RESERVE]
    /\ stopWaiting = [h \in Calls |-> FALSE]
    /\ settled = [h \in Calls |-> FALSE]
    /\ reason = [h \in Calls |-> "none"]
    /\ result = [h \in Calls |-> FALSE]
    /\ handle = [h \in Calls |-> FALSE]
    /\ attempts = [h \in Calls |-> 0]
    /\ refreshes = [h \in Calls |-> 0]
    /\ at = [h \in Calls |-> "none"]
    /\ verdict = [h \in Calls |-> "none"]
    /\ owner = [h \in Calls |-> "none"]
    /\ leased = [h \in Calls |-> FALSE]
    /\ ownerPriority = [h \in Calls |-> RESERVE]
    /\ requests = [h \in Calls |-> 0]
    /\ throttled = [h \in Calls |-> FALSE]
    /\ active = [k \in Keys |-> None]
    /\ closing = FALSE
    /\ pc = [c \in Calls |-> "new"]
    /\ on = [c \in Calls |-> None]
    /\ shutdown = [pc |-> "idle", chains |-> {}, handles |-> {}]

-------------------------------------------------------------------------------
(* acquire() *)

GoTo(c, place, h) ==
    /\ pc' = [pc EXCEPT ![c] = place]
    /\ on' = [on EXCEPT ![c] = h]

Drives(h, position) == at' = [at EXCEPT ![h] = position]

Higher(p, q) == IF p > q THEN p ELSE q

\* FetchBroker.raisePriority() through the chain's handle, once it is stored: only
\* an owner that still has its consumer, the chain, is raised.
Raised(h, p) ==
    IF leased[h] /\ owner[h] # "ended"
    THEN [ownerPriority EXCEPT ![h] = Higher(@, p)]
    ELSE ownerPriority

\* Mutant of Admits: the closing check is not made under the lock.
AdmitsAlways(c) == pc[c] = "new"

Admits(c) == pc[c] = "new" /\ ~closing

AcquireOnClosing(c) ==
    /\ pc[c] = "new"
    /\ closing
    /\ GoTo(c, "ended", None)
    /\ UNCHANGED <<state, demandVars, endVars, handle, ledgerVars, ownerVars>>
    /\ UNCHANGED <<driverVars, throttled, active, closing, shutdown>>

\* A new chain is ACTIVE, with its driver not started yet.
AcquireNewChain(c) ==
    /\ Admits(c)
    /\ active[KeyOf(c)] = None
    /\ state' = [state EXCEPT ![c] = "ACTIVE"]
    /\ consumers' = [consumers EXCEPT ![c] = {Request[c].consumer}]
    /\ priority' = [priority EXCEPT ![c] = Request[c].priority]
    /\ active' = [active EXCEPT ![KeyOf(c)] = c]
    /\ Drives(c, "lazy")
    /\ GoTo(c, "starting", c)
    /\ UNCHANGED <<stopWaiting, endVars, handle, ledgerVars, ownerVars>>
    /\ UNCHANGED <<verdict, throttled, closing, shutdown>>

Joinable(c, h) == SameWork(c, h) /\ Request[c].consumer \notin consumers[h]

\* A join revives a chain that has been told to stop waiting.  When it raises the
\* chain's priority it reads the stored handle, to raise the owner after the lock.
AcquireJoins(c) == \E h \in Calls :
    /\ Admits(c)
    /\ active[KeyOf(c)] = h
    /\ Joinable(c, h)
    /\ consumers' = [consumers EXCEPT ![h] = @ \union {Request[c].consumer}]
    /\ stopWaiting' = [stopWaiting EXCEPT ![h] = FALSE]
    /\ priority' = [priority EXCEPT ![h] = Higher(@, Request[c].priority)]
    /\ GoTo(c, IF handle[h] /\ Request[c].priority > priority[h]
               THEN "raising" ELSE "settling", h)
    /\ UNCHANGED <<state, endVars, handle, ledgerVars, ownerVars>>
    /\ UNCHANGED <<driverVars, throttled, active, closing, shutdown>>

\* handleToRaise?.raisePriority(), by the joining caller after it left the lock.
RaiseOwner(c) ==
    /\ pc[c] = "raising"
    /\ ownerPriority' = Raised(on[c], Request[c].priority)
    /\ GoTo(c, "settling", on[c])
    /\ UNCHANGED <<state, demandVars, endVars, handle, ledgerVars, owner, leased>>
    /\ UNCHANGED <<driverVars, throttled, active, closing, shutdown>>

AcquireConflicts(c) == \E h \in Calls :
    /\ Admits(c)
    /\ active[KeyOf(c)] = h
    /\ ~Joinable(c, h)
    /\ GoTo(c, "ended", None)
    /\ UNCHANGED <<state, demandVars, endVars, handle, ledgerVars, ownerVars>>
    /\ UNCHANGED <<driverVars, throttled, active, closing, shutdown>>

\* Job.start(), by the creating caller after it left the lock.
StartDriver(c) ==
    /\ pc[c] = "starting"
    /\ at' = IF at[c] = "lazy" THEN [at EXCEPT ![c] = "head"] ELSE at
    /\ GoTo(c, "settling", c)
    /\ UNCHANGED <<state, demandVars, endVars, handle, ledgerVars, ownerVars>>
    /\ UNCHANGED <<verdict, throttled, active, closing, shutdown>>

AcquireReturns(c) == \E h \in Calls :
    /\ pc[c] = "settling" /\ on[c] = h
    /\ settled[h]
    /\ GoTo(c, "holding", h)
    /\ UNCHANGED <<state, demandVars, endVars, handle, ledgerVars, ownerVars>>
    /\ UNCHANGED <<driverVars, throttled, active, closing, shutdown>>

-------------------------------------------------------------------------------
(* RecoveryHandle: a caller leaves when it closes its handle, when it is cancelled *)
(* in await(), and when it is cancelled while acquire() waits for the chain.       *)

MayLeave(c, h) == pc[c] \in {"settling", "holding"} /\ on[c] = h

IsLast(c, h) == consumers[h] = {Request[c].consumer}

\* await() returns the outcome and its release() finds the chain TERMINAL.
AwaitReturns(c) == \E h \in Calls :
    /\ pc[c] = "holding" /\ on[c] = h
    /\ result[h]
    /\ GoTo(c, "ended", None)
    /\ UNCHANGED <<state, demandVars, endVars, handle, ledgerVars, ownerVars>>
    /\ UNCHANGED <<driverVars, throttled, active, closing, shutdown>>

ReleaseOfTerminal(c) == \E h \in Calls :
    /\ MayLeave(c, h)
    /\ state[h] = "TERMINAL"
    /\ GoTo(c, "ended", None)
    /\ UNCHANGED <<state, demandVars, endVars, handle, ledgerVars, ownerVars>>
    /\ UNCHANGED <<driverVars, throttled, active, closing, shutdown>>

\* Mutant of ReleaseNotLast: stopWaiting is set whoever leaves.
StopsWhoeverLeaves(c) == \E h \in Calls :
    /\ MayLeave(c, h)
    /\ state[h] # "TERMINAL"
    /\ ~IsLast(c, h)
    /\ consumers' = [consumers EXCEPT ![h] = @ \ {Request[c].consumer}]
    /\ stopWaiting' = [stopWaiting EXCEPT ![h] = TRUE]
    /\ GoTo(c, "ended", None)
    /\ UNCHANGED <<state, priority, endVars, handle, ledgerVars>>
    /\ UNCHANGED <<ownerVars, driverVars, throttled, active, closing, shutdown>>

ReleaseNotLast(c) == \E h \in Calls :
    /\ MayLeave(c, h)
    /\ state[h] # "TERMINAL"
    /\ ~IsLast(c, h)
    /\ consumers' = [consumers EXCEPT ![h] = @ \ {Request[c].consumer}]
    /\ GoTo(c, "ended", None)
    /\ UNCHANGED <<state, stopWaiting, priority, endVars, handle, ledgerVars>>
    /\ UNCHANGED <<ownerVars, driverVars, throttled, active, closing, shutdown>>

\* The last consumer stops the chain's waits.  It takes the chain from ACTIVE to
\* CANCELLING, and then has the stored handle, if there is one, to close.
ReleaseLast(c) == \E h \in Calls :
    /\ MayLeave(c, h)
    /\ state[h] # "TERMINAL"
    /\ IsLast(c, h)
    /\ consumers' = [consumers EXCEPT ![h] = {}]
    /\ stopWaiting' = [stopWaiting EXCEPT ![h] = TRUE]
    /\ state' = IF state[h] = "ACTIVE" THEN [state EXCEPT ![h] = "CANCELLING"] ELSE state
    /\ IF state[h] = "ACTIVE" /\ handle[h]
       THEN GoTo(c, "closing", h)
       ELSE GoTo(c, "ended", None)
    /\ throttled' = [throttled EXCEPT ![h] = FALSE]
    /\ UNCHANGED <<priority, endVars, handle, ledgerVars, ownerVars>>
    /\ UNCHANGED <<driverVars, active, closing, shutdown>>

\* FetchHandle.close(): the broker owner loses its only consumer.
GivesUpLease(h) == leased' = [leased EXCEPT ![h] = FALSE]

CloseHandle(c) ==
    /\ pc[c] = "closing"
    /\ GivesUpLease(on[c])
    /\ GoTo(c, "ended", None)
    /\ UNCHANGED <<state, demandVars, endVars, handle, ledgerVars, owner, ownerPriority>>
    /\ UNCHANGED <<driverVars, throttled, active, closing, shutdown>>

-------------------------------------------------------------------------------
(* drive(): the loop up to the physical owner *)

\* terminateLocked()
Terminate(h, r) ==
    /\ state' = [state EXCEPT ![h] = "TERMINAL"]
    /\ reason' = [reason EXCEPT ![h] = r]
    /\ consumers' = [consumers EXCEPT ![h] = {}]
    /\ stopWaiting' = [stopWaiting EXCEPT ![h] = TRUE]
    /\ active' = [active EXCEPT ![KeyOf(h)] = IF @ = h THEN None ELSE @]
    /\ verdict' = [verdict EXCEPT ![h] = "none"]
    /\ throttled' = [throttled EXCEPT ![h] = FALSE]
    /\ Drives(h, "completing")
    /\ UNCHANGED <<priority, settled, result, handle, ledgerVars, ownerVars>>
    /\ UNCHANGED <<closing, callVars, shutdown>>

\* Mutant of Demanded: a chain being cancelled is taken to be unwanted for good.
DemandedBeforeCancelling(h) == consumers[h] # {} /\ state[h] # "CANCELLING"

Demanded(h) == consumers[h] # {}

Remaining(h) == AttemptLimit - attempts[h]

\* terminateIfNoAttemptPossible(): why no attempt may start, or "none".
NoAttemptReason(h, checkBudget) ==
    IF closing THEN "SESSION_TERMINATION"
    ELSE IF ~Demanded(h) THEN "NO_REMAINING_DEMAND"
    ELSE IF checkBudget /\ Remaining(h) = 0 THEN "BUDGET_EXHAUSTED"
    ELSE "none"

EndsAtHead(h) ==
    /\ at[h] = "head"
    /\ NoAttemptReason(h, FALSE) # "none"
    /\ Terminate(h, NoAttemptReason(h, FALSE))

PassesHead(h) ==
    /\ at[h] = "head"
    /\ NoAttemptReason(h, FALSE) = "none"
    /\ Drives(h, "gate")
    /\ UNCHANGED <<state, demandVars, endVars, handle, ledgerVars, ownerVars, verdict>>
    /\ UNCHANGED <<throttled, active, closing, callVars, shutdown>>

\* The attempt gate grants its permit at once ...
GateOpen(h) ==
    /\ at[h] = "gate"
    /\ state' = [state EXCEPT ![h] = "WAITING_ATTEMPT_PERMIT"]
    /\ Drives(h, "permitted")
    /\ UNCHANGED <<demandVars, endVars, handle, ledgerVars, ownerVars, verdict>>
    /\ UNCHANGED <<throttled, active, closing, callVars, shutdown>>

\* Mutant of GateShut: acquire() is not let go when the chain begins to wait.
GateShutUnsettled(h) ==
    /\ at[h] = "gate"
    /\ state' = [state EXCEPT ![h] = "WAITING_ATTEMPT_PERMIT"]
    /\ Drives(h, "gating")
    /\ UNCHANGED <<demandVars, endVars, handle, ledgerVars, ownerVars, verdict>>
    /\ UNCHANGED <<throttled, active, closing, callVars, shutdown>>

\* ... or the chain waits for it, and lets acquire() return.
GateShut(h) ==
    /\ at[h] = "gate"
    /\ state' = [state EXCEPT ![h] = "WAITING_ATTEMPT_PERMIT"]
    /\ settled' = [settled EXCEPT ![h] = TRUE]
    /\ Drives(h, "gating")
    /\ UNCHANGED <<demandVars, reason, result, handle, ledgerVars, ownerVars, verdict>>
    /\ UNCHANGED <<throttled, active, closing, callVars, shutdown>>

GateOpens(h) ==
    /\ at[h] = "gating"
    /\ Drives(h, "permitted")
    /\ UNCHANGED <<state, demandVars, endVars, handle, ledgerVars, ownerVars, verdict>>
    /\ UNCHANGED <<throttled, active, closing, callVars, shutdown>>

\* recordInternalFailure(): the gate threw.
GateFails(h) ==
    /\ at[h] \in {"gate", "gating"}
    /\ Terminate(h, IF closing THEN "SESSION_TERMINATION" ELSE "TERMINAL_FAILURE")

EndsPermitted(h) ==
    /\ at[h] = "permitted"
    /\ NoAttemptReason(h, TRUE) # "none"
    /\ Terminate(h, NoAttemptReason(h, TRUE))

PassesPermitted(h) ==
    /\ at[h] = "permitted"
    /\ NoAttemptReason(h, TRUE) = "none"
    /\ Drives(h, "cleared")
    /\ UNCHANGED <<state, demandVars, endVars, handle, ledgerVars, ownerVars, verdict>>
    /\ UNCHANGED <<throttled, active, closing, callVars, shutdown>>

\* Demand is not looked at again here; the owner will have the priority read now.
BecomeActive(h) ==
    /\ at[h] = "cleared"
    /\ state' = [state EXCEPT ![h] = "ACTIVE"]
    /\ ownerPriority' = [ownerPriority EXCEPT ![h] = priority[h]]
    /\ Drives(h, "acquiring")
    /\ UNCHANGED <<demandVars, endVars, handle, ledgerVars, owner, leased, verdict>>
    /\ UNCHANGED <<throttled, active, closing, callVars, shutdown>>

-------------------------------------------------------------------------------
(* runOwner(): one FetchBroker owner, from its acquisition to its end *)

AtWork(h) == owner[h] \in {"preflight", "inflight"}

\* FetchBroker.acquire() with no owner of the key in the registry: NEW_OWNER.  That
\* it is never anything else is AlwaysNewOwner.
AcquireOwner(h) ==
    /\ at[h] = "acquiring"
    /\ \A g \in Calls : KeyOf(g) = KeyOf(h) => ~AtWork(g)
    /\ owner' = [owner EXCEPT ![h] = "preflight"]
    /\ leased' = [leased EXCEPT ![h] = TRUE]
    /\ Drives(h, "storing")
    /\ UNCHANGED <<state, demandVars, endVars, handle, ledgerVars, ownerPriority, verdict>>
    /\ UNCHANGED <<throttled, active, closing, callVars, shutdown>>

\* Mutant of CloseNow: shutdown() is left to find the handle.
CloseNowIfUnwanted(h) == ~Demanded(h)

CloseNow(h) == closing \/ ~Demanded(h)

\* Mutant of RaiseTo: the owner keeps the priority it was acquired with.
RaiseToNothing(h) == ownerPriority[h]

RaiseTo(h) == priority[h]

\* The handle is stored, the owner raised to what joined meanwhile (after the lock, but
\* whoever joins by then raises it too), and acquire() let go.  The lease is given up
\* again (DriverCloses) when it is not wanted.
StoreHandle(h) ==
    /\ at[h] = "storing"
    /\ handle' = [handle EXCEPT ![h] = TRUE]
    /\ state' = IF CloseNow(h) /\ state[h] = "ACTIVE"
                THEN [state EXCEPT ![h] = "CANCELLING"]
                ELSE state
    /\ ownerPriority' = Raised(h, RaiseTo(h))
    /\ settled' = [settled EXCEPT ![h] = TRUE]
    /\ Drives(h, IF CloseNow(h) THEN "closing" ELSE "awaiting")
    /\ UNCHANGED <<demandVars, reason, result, ledgerVars, owner, leased, verdict>>
    /\ UNCHANGED <<throttled, active, closing, callVars, shutdown>>

DriverCloses(h) ==
    /\ at[h] = "closing"
    /\ GivesUpLease(h)
    /\ Drives(h, "awaiting")
    /\ UNCHANGED <<state, demandVars, endVars, handle, ledgerVars, owner, ownerPriority>>
    /\ UNCHANGED <<verdict, throttled, active, closing, callVars, shutdown>>

\* Mutant of OwnerFinished: a chain that gave up its lease does not wait.
LeavesBarrier(h) ==
    /\ at[h] = "awaiting"
    /\ owner[h] = "ended" \/ ~leased[h]
    /\ handle' = [handle EXCEPT ![h] = FALSE]
    /\ verdict' = [verdict EXCEPT ![h] = IF owner[h] = "ended" THEN @ ELSE "CANCELLED"]
    /\ Drives(h, "deciding")
    /\ UNCHANGED <<state, demandVars, endVars, ledgerVars, ownerVars>>
    /\ UNCHANGED <<throttled, active, closing, callVars, shutdown>>

\* Raising or closing the handle of an owner that has gone does nothing.
AfterOwner(place) ==
    CASE place = "closing" -> "ended"
      [] place = "raising" -> "settling"
      [] OTHER -> place

\* awaitTerminal() returns and the handle is released.
OwnerFinished(h) ==
    /\ at[h] = "awaiting"
    /\ owner[h] = "ended"
    /\ owner' = [owner EXCEPT ![h] = "none"]
    /\ leased' = [leased EXCEPT ![h] = FALSE]
    /\ handle' = [handle EXCEPT ![h] = FALSE]
    /\ pc' = [c \in Calls |-> IF on[c] # h THEN pc[c] ELSE AfterOwner(pc[c])]
    /\ shutdown' = [shutdown EXCEPT !.handles = @ \ {h}]
    /\ Drives(h, "deciding")
    /\ UNCHANGED <<state, demandVars, endVars, ledgerVars, ownerPriority, verdict>>
    /\ UNCHANGED <<throttled, active, closing, on>>

-------------------------------------------------------------------------------
(* The broker owner, by FetchBroker's contract *)

OwnerEnds(h, v) ==
    /\ owner' = [owner EXCEPT ![h] = "ended"]
    /\ verdict' = [verdict EXCEPT ![h] = v]
    /\ UNCHANGED <<state, demandVars, endVars, handle, attempts, refreshes>>
    /\ UNCHANGED <<leased, ownerPriority, at>>
    /\ UNCHANGED <<throttled, active, closing, callVars, shutdown>>

\* Mutant of Charge: an attempt that is under cancellation already is not charged.
ChargeLeased(h) == IF leased[h] THEN [attempts EXCEPT ![h] = @ + 1] ELSE attempts

Charge(h) == [attempts EXCEPT ![h] = @ + 1]

\* The admission callback: the ledger is charged and the request made, or the
\* charge is refused and the owner ends without one.
Admission(h) ==
    /\ owner[h] = "preflight"
    /\ IF Remaining(h) = 0
       THEN OwnerEnds(h, "REJECTED") /\ UNCHANGED requests
       ELSE /\ attempts' = Charge(h)
            /\ requests' = [requests EXCEPT ![h] = @ + 1]
            /\ owner' = [owner EXCEPT ![h] = "inflight"]
            /\ UNCHANGED <<state, demandVars, endVars, handle, refreshes>>
            /\ UNCHANGED <<leased, ownerPriority, driverVars>>
            /\ UNCHANGED <<throttled, active, closing, callVars, shutdown>>

FailsInPreflight(h) ==
    /\ owner[h] = "preflight"
    /\ \E v \in {"CONFLICT", "REJECTED"} : OwnerEnds(h, v)
    /\ UNCHANGED requests

AttemptEnds(h) ==
    /\ owner[h] = "inflight"
    /\ \E v \in Verdicts \ {"CANCELLED"} : OwnerEnds(h, v)
    /\ UNCHANGED requests

OwnerCancelled(h) ==
    /\ AtWork(h)
    /\ ~leased[h]
    /\ OwnerEnds(h, "CANCELLED")
    /\ UNCHANGED requests

-------------------------------------------------------------------------------
(* decideAndAct(): the policy's decision and what the coordinator does about it, *)
(* in one critical section unless it must wait for somebody.                     *)

\* RecoveryPolicy.decide() and actionFor(), and a SUCCESS before them: the reason to
\* end the chain, or "none".
EndingReason(h) ==
    IF verdict[h] = "SUCCESS" THEN "SUCCESS"
    ELSE IF closing THEN "SESSION_TERMINATION"
    ELSE IF verdict[h] = "REJECTED" THEN "TERMINAL_FAILURE"
    ELSE IF verdict[h] = "CONFLICT" THEN "none"
    ELSE IF ~Demanded(h) THEN "NO_REMAINING_DEMAND"
    ELSE IF Remaining(h) = 0 THEN "BUDGET_EXHAUSTED"
    ELSE IF verdict[h] = "UNACTIONABLE" THEN "TERMINAL_FAILURE"
    ELSE "none"

DecidesToEnd(h) ==
    /\ at[h] = "deciding"
    /\ EndingReason(h) # "none"
    /\ Terminate(h, EndingReason(h))

GoesOn(h, v) ==
    /\ at[h] = "deciding"
    /\ EndingReason(h) = "none"
    /\ verdict[h] = v
    /\ verdict' = [verdict EXCEPT ![h] = "none"]
    /\ UNCHANGED <<demandVars, endVars, handle, ledgerVars, ownerVars>>
    /\ UNCHANGED <<active, closing, callVars, shutdown>>

SchedulesBackoff(h) ==
    /\ GoesOn(h, "TRANSIENT")
    /\ state' = [state EXCEPT ![h] = "WAITING_BACKOFF"]
    /\ Drives(h, "sleeping")
    /\ UNCHANGED throttled

WaitsForProvider(h) ==
    /\ GoesOn(h, "THROTTLED")
    /\ state' = [state EXCEPT ![h] = "WAITING_PROVIDER"]
    /\ throttled' = [throttled EXCEPT ![h] = TRUE]
    /\ Drives(h, "sleeping")

\* CONTINUE_FOR_DEMAND: cancelled for want of demand that has come back.
StartsNextOwner(h) ==
    /\ GoesOn(h, "CANCELLED")
    /\ Drives(h, "head")
    /\ UNCHANGED <<state, throttled>>

Reconciles(h) ==
    /\ GoesOn(h, "CONFLICT")
    /\ Drives(h, "reconciling")
    /\ UNCHANGED <<state, throttled>>

DecidesToRefresh(h) ==
    /\ GoesOn(h, "STALE")
    /\ Drives(h, "refresh")
    /\ UNCHANGED <<state, throttled>>

\* The extent is there after all, or the conflict is final.
Reconciled(h) ==
    /\ at[h] = "reconciling"
    /\ \E r \in {"SUCCESS", "TERMINAL_FAILURE"} : Terminate(h, r)

\* The provider's Retry-After runs out; time passes whatever the chain does.
RetryAfterPasses(h) ==
    /\ throttled[h]
    /\ throttled' = [throttled EXCEPT ![h] = FALSE]
    /\ UNCHANGED <<state, demandVars, endVars, handle, ledgerVars, ownerVars, driverVars>>
    /\ UNCHANGED <<active, closing, callVars, shutdown>>

Wakes(h) ==
    /\ Drives(h, "head")
    /\ UNCHANGED <<state, demandVars, endVars, handle, ledgerVars, ownerVars, verdict>>
    /\ UNCHANGED <<throttled, active, closing, callVars, shutdown>>

SleepEnds(h) ==
    /\ at[h] = "sleeping"
    /\ state[h] = "WAITING_PROVIDER" => ~throttled[h]
    /\ Wakes(h)

\* awaitWhileDemanded() sees stopWaiting.  Demand is looked at again at the head of
\* the loop, so a consumer that joins before that lets the chain go on.
WaitStops(h) ==
    /\ at[h] \in {"gating", "sleeping"}
    /\ stopWaiting[h]
    /\ Wakes(h)

-------------------------------------------------------------------------------
(* executeRefresh(): one call of DeliveryBindingCoordinator.refresh() *)

BindingsClosed == shutdown.pc \in {"joining", "returned"}

\* It answers at once when it is closed, when the revision has already advanced,
\* or when this chain would have to start a refresh and cannot be charged.
RefreshAnswers(h) ==
    /\ at[h] = "refresh"
    /\ state' = [state EXCEPT ![h] = "REFRESHING_BINDING"]
    /\ \E answer \in RefreshResults :
        /\ CASE answer = "CLOSED" -> BindingsClosed
             [] answer = "GO_ON" -> ~BindingsClosed
             [] answer = "NOT_ADMITTED" -> ~BindingsClosed /\ refreshes[h] = RefreshLimit
             [] OTHER -> FALSE
        /\ verdict' = [verdict EXCEPT ![h] = answer]
    /\ Drives(h, "applying")
    /\ UNCHANGED <<demandVars, endVars, handle, ledgerVars, ownerVars>>
    /\ UNCHANGED <<throttled, active, closing, callVars, shutdown>>

\* Otherwise the chain joins the operation in flight, or is charged for a new one.
\* The call is made even when the chain has been told to stop waiting meanwhile.
RefreshWaits(h) ==
    /\ at[h] = "refresh"
    /\ ~BindingsClosed
    /\ state' = [state EXCEPT ![h] = "REFRESHING_BINDING"]
    /\ \/ UNCHANGED refreshes
       \/ /\ refreshes[h] < RefreshLimit
          /\ refreshes' = [refreshes EXCEPT ![h] = @ + 1]
    /\ Drives(h, "refreshing")
    /\ UNCHANGED <<demandVars, endVars, handle, attempts, requests, ownerVars, verdict>>
    /\ UNCHANGED <<throttled, active, closing, callVars, shutdown>>

RefreshReturns(h, answer) ==
    /\ at[h] = "refreshing"
    /\ verdict' = [verdict EXCEPT ![h] = answer]
    /\ Drives(h, "applying")
    /\ UNCHANGED <<state, demandVars, endVars, handle, ledgerVars, ownerVars>>
    /\ UNCHANGED <<throttled, active, closing, callVars, shutdown>>

RefreshEnds(h) == \E answer \in {"GO_ON", "FAILED"} : RefreshReturns(h, answer)

\* ABANDONED: the chain stopped waiting, or shutdown cancelled the operation.
RefreshAbandoned(h) ==
    /\ stopWaiting[h]
    /\ RefreshReturns(h, "GO_ON")

RefreshApplied(h) ==
    /\ at[h] = "applying"
    /\ verdict[h] = "GO_ON"
    /\ verdict' = [verdict EXCEPT ![h] = "none"]
    /\ Drives(h, "head")
    /\ UNCHANGED <<state, demandVars, endVars, handle, ledgerVars, ownerVars>>
    /\ UNCHANGED <<throttled, active, closing, callVars, shutdown>>

EndsAfterRefresh(h) ==
    /\ at[h] = "applying"
    /\ \/ verdict[h] = "FAILED" /\ Terminate(h, "TERMINAL_FAILURE")
       \/ verdict[h] = "NOT_ADMITTED" /\ Terminate(h, "BUDGET_EXHAUSTED")
       \/ verdict[h] = "CLOSED" /\ Terminate(h, "SESSION_TERMINATION")

\* complete(): outside the lock, after terminateLocked().
CompleteChain(h) ==
    /\ at[h] = "completing"
    /\ result' = [result EXCEPT ![h] = TRUE]
    /\ settled' = [settled EXCEPT ![h] = TRUE]
    /\ Drives(h, "done")
    /\ UNCHANGED <<state, demandVars, reason, handle, ledgerVars, ownerVars, verdict>>
    /\ UNCHANGED <<throttled, active, closing, callVars, shutdown>>

-------------------------------------------------------------------------------
(* shutdown() *)

BeginShutdown ==
    /\ ~closing
    /\ closing' = TRUE
    /\ shutdown' = [shutdown EXCEPT !.pc = "stopping"]
    /\ UNCHANGED <<state, demandVars, endVars, handle, ledgerVars, ownerVars>>
    /\ UNCHANGED <<driverVars, throttled, active, callVars>>

ShutdownStops ==
    LET chains == {h \in Calls : \E k \in Keys : active[k] = h} IN
    /\ shutdown.pc = "stopping"
    /\ stopWaiting' = [h \in Calls |-> stopWaiting[h] \/ h \in chains]
    /\ shutdown' = [pc |-> "closing", chains |-> chains,
                    handles |-> {h \in chains : handle[h]}]
    /\ UNCHANGED <<state, consumers, priority, endVars, handle, ledgerVars, ownerVars>>
    /\ UNCHANGED <<driverVars, throttled, active, closing, callVars>>

ShutdownClosesHandle(h) ==
    /\ h \in shutdown.handles
    /\ GivesUpLease(h)
    /\ shutdown' = [shutdown EXCEPT !.handles = @ \ {h}]
    /\ UNCHANGED <<state, demandVars, endVars, handle, ledgerVars, owner, ownerPriority>>
    /\ UNCHANGED <<driverVars, throttled, active, closing, callVars>>

ShutdownClosesBindings ==
    /\ shutdown.pc = "closing"
    /\ shutdown.handles = {}
    /\ shutdown' = [shutdown EXCEPT !.pc = "joining"]
    /\ UNCHANGED <<state, demandVars, endVars, handle, ledgerVars, ownerVars>>
    /\ UNCHANGED <<driverVars, throttled, active, closing, callVars>>

\* Job.join() starts a driver its creator has not started yet.
ShutdownStartsDriver(h) ==
    /\ shutdown.pc = "joining"
    /\ h \in shutdown.chains
    /\ at[h] = "lazy"
    /\ Drives(h, "head")
    /\ UNCHANGED <<state, demandVars, endVars, handle, ledgerVars, ownerVars, verdict>>
    /\ UNCHANGED <<throttled, active, closing, callVars, shutdown>>

ShutdownReturns ==
    /\ shutdown.pc = "joining"
    /\ \A h \in shutdown.chains : at[h] = "done"
    /\ shutdown' = [shutdown EXCEPT !.pc = "returned", !.chains = {}]
    /\ UNCHANGED <<state, demandVars, endVars, handle, ledgerVars, ownerVars>>
    /\ UNCHANGED <<driverVars, throttled, active, closing, callVars>>

-------------------------------------------------------------------------------
Acquire(c) ==
    \/ AcquireOnClosing(c)
    \/ AcquireNewChain(c)
    \/ AcquireJoins(c)
    \/ AcquireConflicts(c)

Handle(c) ==
    \/ AwaitReturns(c)
    \/ ReleaseOfTerminal(c)
    \/ ReleaseNotLast(c)
    \/ ReleaseLast(c)

Prepare(h) ==
    \/ EndsAtHead(h)
    \/ PassesHead(h)
    \/ GateOpen(h)
    \/ GateShut(h)
    \/ EndsPermitted(h)
    \/ PassesPermitted(h)
    \/ BecomeActive(h)

RunOwner(h) ==
    \/ AcquireOwner(h)
    \/ StoreHandle(h)
    \/ DriverCloses(h)
    \/ OwnerFinished(h)

DecideAndAct(h) ==
    \/ DecidesToEnd(h)
    \/ SchedulesBackoff(h)
    \/ WaitsForProvider(h)
    \/ StartsNextOwner(h)
    \/ Reconciles(h)
    \/ DecidesToRefresh(h)
    \/ Reconciled(h)

Wait(h) ==
    \/ WaitStops(h)
    \/ RefreshAnswers(h)
    \/ RefreshWaits(h)
    \/ RefreshAbandoned(h)
    \/ RefreshApplied(h)
    \/ EndsAfterRefresh(h)

\* What the driver does once it can; what it waits for is in World.
Drive(h) == Prepare(h) \/ RunOwner(h) \/ DecideAndAct(h) \/ Wait(h) \/ CompleteChain(h)

World(h) ==
    \/ GateOpens(h)
    \/ GateFails(h)
    \/ SleepEnds(h)
    \/ RefreshEnds(h)
    \/ RetryAfterPasses(h)
    \/ Admission(h)
    \/ FailsInPreflight(h)
    \/ AttemptEnds(h)
    \/ OwnerCancelled(h)

Shutdown ==
    \/ ShutdownStops
    \/ ShutdownClosesBindings
    \/ ShutdownReturns
    \/ \E h \in Calls : ShutdownClosesHandle(h) \/ ShutdownStartsDriver(h)

Next ==
    \/ \E c \in Calls :
        \/ Acquire(c) \/ StartDriver(c) \/ RaiseOwner(c) \/ AcquireReturns(c)
        \/ Handle(c) \/ CloseHandle(c)
        \/ Drive(c) \/ World(c)
    \/ BeginShutdown
    \/ Shutdown

SafeSpec == Init /\ [][Next]_vars

(* Fairness: threads run on, and an owner the chain has given up ends, which     *)
(* FetchBroker promises.  No caller has to acquire or leave; a closed gate, an   *)
(* attempt that is not cancelled and a provider may keep a chain waiting.        *)
CallerRuns(c) == StartDriver(c) \/ RaiseOwner(c) \/ AcquireReturns(c) \/ CloseHandle(c)

Spec ==
    /\ Init
    /\ [][Next]_vars
    /\ \A c \in Calls :
        WF_vars(CallerRuns(c)) /\ WF_vars(Drive(c)) /\ WF_vars(OwnerCancelled(c))
    /\ WF_vars(Shutdown)

-------------------------------------------------------------------------------
(* Safety *)

\* c's acquire() or handle counts as demand for chain h.
Aboard(c, h) == on[c] = h /\ pc[c] \in {"starting", "raising", "settling", "holding"}

\* The error "recovery chain did not receive a new FetchBroker owner" never happens:
\* whoever goes to the broker finds no earlier owner of the key there, neither its
\* own chain's nor that of a chain before it.
AlwaysNewOwner ==
    \A g, h \in Calls :
        KeyOf(g) = KeyOf(h) /\ at[h] = "acquiring" => ~AtWork(g)

\* However its demand comes and goes and its owners end, a chain makes no more
\* physical requests than its REMOTE_ATTEMPT budget.
RequestsWithinBudget == \A h \in Calls : requests[h] <= AttemptLimit

\* decideAndAct() promises a consumer that "it never receives a NO_REMAINING_DEMAND
\* that it did not cause".
NobodyDenied ==
    \A c, h \in Calls : Aboard(c, h) => reason[h] # "NO_REMAINING_DEMAND"

\* Whether the urgent consumer came before, between or after the driver's two steps,
\* an owner the driver waits for and holds has the chain's priority, or else the very
\* caller whose join raised the chain's is between the lock and its raisePriority().
PriorityReachesOwner ==
    \A h \in Calls :
        at[h] = "awaiting" /\ leased[h] /\ AtWork(h) =>
            \/ ownerPriority[h] >= priority[h]
            \/ \E c \in Calls :
                pc[c] = "raising" /\ on[c] = h /\ Request[c].priority = priority[h]

\* "No chain starts an attempt after this returns": when shutdown() has returned,
\* every driver is past its last decision and no owner is at work.
QuietAfterShutdown ==
    shutdown.pc = "returned" =>
        \A h \in Calls : at[h] \in {"none", "completing", "done"} /\ owner[h] = "none"

\* A chain that stays in demand makes no request before the provider's Retry-After
\* has run out, whoever joins or leaves during the wait.  (When demand lapses and
\* returns the wait is not resumed: awaitWhileDemanded() says a late join simply
\* continues the chain.)
RetryAfterRespected == \A h \in Calls : throttled[h] => owner[h] # "inflight"

\* M2.md says that the last consumer leaving cancels the current owner.  It fails
\* when the chain is CANCELLING already, left and joined again before its handle was
\* stored: release() closes the handle of an ACTIVE chain only.
LastLeaverCancels ==
    \A h \in Calls :
        at[h] = "awaiting" /\ AtWork(h) /\ leased[h] /\ ~Demanded(h) =>
            \/ \E c \in Calls : pc[c] = "closing" /\ on[c] = h
            \/ h \in shutdown.handles

-------------------------------------------------------------------------------
(* Liveness *)

\* acquire() returns, at the latest when the chain begins to wait for something.
AcquireSettles ==
    \A c \in Calls : pc[c] \in {"starting", "raising", "settling"} ~>
                        pc[c] \in {"holding", "closing", "ended"}

\* shutdown() returns, and every chain has delivered its outcome by then or soon after.
ShutdownEndsEverything ==
    closing ~> /\ shutdown.pc = "returned"
               /\ \A h \in Calls : state[h] # "UNBORN" => result[h]
===============================================================================
