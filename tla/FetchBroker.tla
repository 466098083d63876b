----------------------------- MODULE FetchBroker ------------------------------
(***************************************************************************)
(* FetchBroker.kt: the single-flight registry of physical fetch owners.    *)
(*                                                                         *)
(* Threads interleave between the critical sections of registryLock, so    *)
(* each action is one critical section together with the thread-local code *)
(* around it.  One element of Calls is one execution of acquire() and what *)
(* its caller later does with the handle; an acquire() creates at most one *)
(* owner, so the owner it creates has the call's name (the code draws      *)
(* "fetch-N" from a counter).  Requests are fixed per call by Request.     *)
(*                                                                         *)
(* Abstracted: the bytes and their accounting, events, and which raw       *)
(* failure an attempt reports ("FAILED" is any of them).  A shutdown()     *)
(* that finds the broker closed returns and changes nothing, so one        *)
(* shutdown caller is modelled.                                            *)
(***************************************************************************)
EXTENDS Naturals

CONSTANTS
    Calls,      \* executions of acquire(), each by one caller
    Keys,       \* FetchKeys
    Consumers,  \* FetchConsumerIds
    Specs,      \* immutable ExtentSpecs, equal iff isCompatibleWith
    Request,    \* what each call asks for, see RequestRecord
    None        \* no fetch

RESERVE == 0
PLAYBACK == 1
Priorities == {RESERVE, PLAYBACK}

RequestRecord ==
    [key: Keys, spec: Specs, consumer: Consumers, priority: Priorities]

ASSUME RequestAssumption == Request \in [Calls -> RequestRecord]
ASSUME NoneAssumption == None \notin Calls

VARIABLES
    \* the fields of SharedFetch, by the call that creates the fetch
    state, consumers, priority, cancelOutcome,
    \* its owner: the coroutine, how far its work has got, how it ended
    job, cancelled, stage, outcome,
    \* the broker
    active,     \* the registry: key -> fetch or None
    closed,
    \* the callers
    pc,         \* where each acquire(), and then its handle, stands
    on,         \* the fetch it waits for or has a handle on
    shutdown    \* where shutdown() stands, and the owners it has yet to end

fetchVars == <<state, consumers, priority, cancelOutcome>>
ownerVars == <<job, cancelled, stage, outcome>>
brokerVars == <<active, closed>>
callVars == <<pc, on>>
vars == <<fetchVars, ownerVars, brokerVars, callVars, shutdown>>

KeyOf(c) == Request[c].key
Compatible(c, f) == Request[c].spec = Request[f].spec

CancellationKinds == {"CANCELLED_NO_CONSUMERS", "CANCELLED_BROKER_SHUTDOWN"}
OutcomeKinds == CancellationKinds \union {"SUCCESS", "FAILED"}

\* "UNBORN" is a fetch that does not exist yet.
States == {"UNBORN", "RUNNING", "CANCELLING", "TERMINAL"}

\* The owner coroutine: "lazy" once ownerJob is stored, "queued" once its completion
\* hook is installed and it is started, "running" in its body.
Jobs == {"none", "lazy", "queued", "running", "complete"}

\* "settling" has an outcome that completeTerminal() has not recorded, "publishing"
\* is TERMINAL but still registered, "done" is unregistered, its result complete.
Stages == {"idle", "preflight", "inflight", "settling", "publishing", "done"}

\* A call is "ended" when acquire() threw or was cancelled, when it returned a
\* TerminalHandle, and when its handle is released: nothing it does matters then.
Places == {"new", "starting", "arming", "hooking", "holding", "cancelling",
           "blocked", "retrying", "ended"}

ShutdownRecord ==
    [pc: {"idle", "closing", "returned"},
     cancels: SUBSET Calls,
     joins: SUBSET Calls,
     orphans: SUBSET Calls]

TypeOK ==
    /\ state \in [Calls -> States]
    /\ consumers \in [Calls -> SUBSET Consumers]
    /\ priority \in [Calls -> Priorities]
    /\ cancelOutcome \in [Calls -> CancellationKinds \union {"none"}]
    /\ job \in [Calls -> Jobs]
    /\ cancelled \in [Calls -> BOOLEAN]
    /\ stage \in [Calls -> Stages]
    /\ outcome \in [Calls -> OutcomeKinds \union {"none"}]
    /\ active \in [Keys -> Calls \union {None}]
    /\ closed \in BOOLEAN
    /\ pc \in [Calls -> Places]
    /\ on \in [Calls -> Calls \union {None}]
    /\ shutdown \in ShutdownRecord

Init ==
    /\ state = [f \in Calls |-> "UNBORN"]
    /\ consumers = [f \in Calls |-> {}]
    /\ priority = [f \in Calls |-> RESERVE]
    /\ cancelOutcome = [f \in Calls |-> "none"]
    /\ job = [f \in Calls |-> "none"]
    /\ cancelled = [f \in Calls |-> FALSE]
    /\ stage = [f \in Calls |-> "idle"]
    /\ outcome = [f \in Calls |-> "none"]
    /\ active = [k \in Keys |-> None]
    /\ closed = FALSE
    /\ pc = [c \in Calls |-> "new"]
    /\ on = [c \in Calls |-> None]
    /\ shutdown = [pc |-> "idle", cancels |-> {}, joins |-> {}, orphans |-> {}]

-------------------------------------------------------------------------------
(* acquire() *)

GoTo(c, place, f) ==
    /\ pc' = [pc EXCEPT ![c] = place]
    /\ on' = [on EXCEPT ![c] = f]

InAcquireLoop(c) == pc[c] \in {"new", "retrying"}

\* Mutant of Vacant: a cancelling owner no longer holds its place in the registry.
VacantUnlessRunning(k) ==
    IF active[k] = None THEN TRUE ELSE state[active[k]] # "RUNNING"

Vacant(k) == active[k] = None

\* Mutant of AlreadyAboard: the duplicate consumer id check is missing.
NeverAboard(c, f) == FALSE

AlreadyAboard(c, f) == Request[c].consumer \in consumers[f]

\* Mutant of PriorityAfterJoin: a join does not raise the priority.
PriorityKept(c, f) == priority[f]

PriorityAfterJoin(c, f) ==
    IF Request[c].priority > priority[f] THEN Request[c].priority ELSE priority[f]

AcquireOnClosed(c) ==
    /\ InAcquireLoop(c)
    /\ closed
    /\ GoTo(c, "ended", None)
    /\ UNCHANGED <<fetchVars, ownerVars, brokerVars, shutdown>>

\* SharedFetch's constructor: RUNNING, with its first consumer aboard.
AcquireNewOwner(c) ==
    /\ InAcquireLoop(c)
    /\ ~closed
    /\ Vacant(KeyOf(c))
    /\ state' = [state EXCEPT ![c] = "RUNNING"]
    /\ consumers' = [consumers EXCEPT ![c] = {Request[c].consumer}]
    /\ priority' = [priority EXCEPT ![c] = Request[c].priority]
    /\ active' = [active EXCEPT ![KeyOf(c)] = c]
    /\ GoTo(c, "starting", c)
    /\ UNCHANGED <<cancelOutcome, ownerVars, closed, shutdown>>

\* The registered fetch of c's key, when there is one and c may use the registry.
Finds(c, f) ==
    /\ InAcquireLoop(c)
    /\ ~closed
    /\ active[KeyOf(c)] = f

AcquireJoinsRunning(c) == \E f \in Calls :
    /\ Finds(c, f)
    /\ state[f] = "RUNNING"
    /\ Compatible(c, f)
    /\ ~AlreadyAboard(c, f)
    /\ consumers' = [consumers EXCEPT ![f] = @ \union {Request[c].consumer}]
    /\ priority' = [priority EXCEPT ![f] = PriorityAfterJoin(c, f)]
    /\ GoTo(c, "holding", f)
    /\ UNCHANGED <<state, cancelOutcome, ownerVars, brokerVars, shutdown>>

\* FetchIdentityConflictException: another spec, or a consumer id already aboard.
AcquireConflicts(c) == \E f \in Calls :
    /\ Finds(c, f)
    /\ ~Compatible(c, f) \/ (state[f] = "RUNNING" /\ AlreadyAboard(c, f))
    /\ GoTo(c, "ended", None)
    /\ UNCHANGED <<fetchVars, ownerVars, brokerVars, shutdown>>

AcquireWaitsAtBarrier(c) == \E f \in Calls :
    /\ Finds(c, f)
    /\ state[f] # "RUNNING"
    /\ Compatible(c, f)
    /\ GoTo(c, "blocked", f)
    /\ UNCHANGED <<fetchVars, ownerVars, brokerVars, shutdown>>

\* shouldRestartAfterCancellationBarrier(): only an abandoned owner is replaced;
\* any other outcome is handed to the waiter in a TerminalHandle.
BarrierLifted(c) == \E f \in Calls :
    /\ pc[c] = "blocked" /\ on[c] = f
    /\ stage[f] = "done"
    /\ GoTo(c, IF outcome[f] = "CANCELLED_NO_CONSUMERS" THEN "retrying" ELSE "ended", None)
    /\ UNCHANGED <<fetchVars, ownerVars, brokerVars, shutdown>>

\* The caller's coroutine is cancelled while it waits, or by the ensureActive() of
\* its next round.
BarrierAbandoned(c) ==
    /\ pc[c] \in {"blocked", "retrying"}
    /\ GoTo(c, "ended", None)
    /\ UNCHANGED <<fetchVars, ownerVars, brokerVars, shutdown>>

-------------------------------------------------------------------------------
(* startOwner(): the creating caller stores the lazy job, then installs its    *)
(* completion hook and starts it.  shutdown() can overtake it at each step.    *)

CancelKind(f) ==
    IF cancelOutcome[f] # "none" THEN cancelOutcome[f]
    ELSE IF closed THEN "CANCELLED_BROKER_SHUTDOWN" ELSE "CANCELLED_NO_CONSUMERS"

\* An end of the owner has decided its outcome and calls completeTerminal().
Settle(f, o) ==
    /\ stage' = [stage EXCEPT ![f] = "settling"]
    /\ outcome' = [outcome EXCEPT ![f] = o]

\* Mutant of ShouldStart: the owner is started without looking again.
AlwaysStart(c) == TRUE

ShouldStart(c) ==
    /\ ~closed
    /\ state[c] = "RUNNING"
    /\ active[KeyOf(c)] = c

StoreOwnerJob(c) ==
    /\ pc[c] = "starting"
    /\ job' = IF ShouldStart(c) THEN [job EXCEPT ![c] = "lazy"] ELSE job
    /\ GoTo(c, IF ShouldStart(c) THEN "arming" ELSE "holding", c)
    /\ UNCHANGED <<fetchVars, cancelled, stage, outcome, brokerVars, shutdown>>

StartOwnerJob(c) ==
    /\ pc[c] = "arming"
    /\ ~cancelled[c]
    /\ job' = [job EXCEPT ![c] = "queued"]
    /\ GoTo(c, "holding", c)
    /\ UNCHANGED <<fetchVars, cancelled, stage, outcome, brokerVars, shutdown>>

\* A lazy job cancelled before its hook is installed is complete: installing the
\* hook runs it at once, in this thread.
HookRunsAtOnce(c) ==
    /\ pc[c] = "arming"
    /\ cancelled[c]
    /\ job' = [job EXCEPT ![c] = "complete"]
    /\ Settle(c, CancelKind(c))
    /\ GoTo(c, "hooking", c)
    /\ UNCHANGED <<fetchVars, cancelled, brokerVars, shutdown>>

HookReturns(c) ==
    /\ pc[c] = "hooking"
    /\ stage[c] = "done"
    /\ GoTo(c, "holding", c)
    /\ UNCHANGED <<fetchVars, ownerVars, brokerVars, shutdown>>

-------------------------------------------------------------------------------
(* runOwner() and runAttempt(), and completeTerminal() which ends them.        *)

\* Mutant of CancelledBeforeBody: there is no completion hook.
CompletesUnnoticed(f) ==
    /\ job[f] = "queued"
    /\ cancelled[f]
    /\ job' = [job EXCEPT ![f] = "complete"]
    /\ UNCHANGED <<fetchVars, cancelled, stage, outcome, brokerVars, callVars, shutdown>>

\* Cancelled before its body is dispatched (the hook settles), or at the body's
\* first ensureActive() (runOwner's catch settles): the same outcome.
CancelledBeforeBody(f) ==
    /\ job[f] = "queued"
    /\ cancelled[f]
    /\ job' = [job EXCEPT ![f] = "complete"]
    /\ Settle(f, CancelKind(f))
    /\ UNCHANGED <<fetchVars, cancelled, brokerVars, callVars, shutdown>>

BodyBegins(f) ==
    /\ job[f] = "queued"
    /\ ~cancelled[f]
    /\ job' = [job EXCEPT ![f] = "running"]
    /\ stage' = [stage EXCEPT ![f] = "preflight"]
    /\ UNCHANGED <<fetchVars, cancelled, outcome, brokerVars, callVars, shutdown>>

\* startPhysicalAttempt: admission, then the attempt, with no cancellation check
\* in between, so it may still happen after the last consumer has left.
StartPhysicalAttempt(f) ==
    /\ stage[f] = "preflight"
    /\ stage' = [stage EXCEPT ![f] = "inflight"]
    /\ UNCHANGED <<fetchVars, job, cancelled, outcome, brokerVars, callVars, shutdown>>

Ends(f, from, o) ==
    /\ stage[f] \in from
    /\ Settle(f, o)
    /\ UNCHANGED <<fetchVars, job, cancelled, brokerVars, callVars, shutdown>>

\* Writer, preflight or admission failure: no physical attempt was made.
FailsInPreflight(f) == Ends(f, {"preflight"}, "FAILED")

AttemptSucceeds(f) == Ends(f, {"inflight"}, "SUCCESS")

AttemptFails(f) == Ends(f, {"inflight"}, "FAILED")

ObservesCancellation(f) ==
    cancelled[f] /\ Ends(f, {"preflight", "inflight"}, CancelKind(f))

\* First critical section of completeTerminal().
BecomeTerminal(f) ==
    /\ stage[f] = "settling"
    /\ state' = [state EXCEPT ![f] = "TERMINAL"]
    /\ stage' = [stage EXCEPT ![f] = "publishing"]
    /\ UNCHANGED <<consumers, priority, cancelOutcome, job, cancelled, outcome>>
    /\ UNCHANGED <<brokerVars, callVars, shutdown>>

\* Second critical section of completeTerminal(); a body then returns.
PublishResult(f) ==
    /\ stage[f] = "publishing"
    /\ active' = IF active[KeyOf(f)] = f
                 THEN [active EXCEPT ![KeyOf(f)] = None]
                 ELSE active
    /\ consumers' = [consumers EXCEPT ![f] = {}]
    /\ stage' = [stage EXCEPT ![f] = "done"]
    /\ job' = [job EXCEPT ![f] = IF @ = "none" THEN @ ELSE "complete"]
    /\ UNCHANGED <<state, priority, cancelOutcome, cancelled, outcome>>
    /\ UNCHANGED <<closed, callVars, shutdown>>

-------------------------------------------------------------------------------
(* Handles *)

HasHandle(c, f) == pc[c] = "holding" /\ on[c] = f

\* await() returns the result; its release() then finds the fetch TERMINAL.
AwaitReturns(c) == \E f \in Calls :
    /\ HasHandle(c, f)
    /\ stage[f] = "done"
    /\ GoTo(c, "ended", None)
    /\ UNCHANGED <<fetchVars, ownerVars, brokerVars, shutdown>>

\* close(), or await() cancelled: release() finds the fetch TERMINAL, or not.
ReleaseOfTerminal(c) == \E f \in Calls :
    /\ HasHandle(c, f)
    /\ state[f] = "TERMINAL"
    /\ GoTo(c, "ended", None)
    /\ UNCHANGED <<fetchVars, ownerVars, brokerVars, shutdown>>

\* Mutant of IsLast: any consumer that leaves cancels the owner.
EveryoneIsLast(c, f) == state[f] = "RUNNING"

IsLast(c, f) ==
    /\ consumers[f] = {Request[c].consumer}
    /\ state[f] = "RUNNING"

ReleaseNotLast(c) == \E f \in Calls :
    /\ HasHandle(c, f)
    /\ state[f] # "TERMINAL"
    /\ ~IsLast(c, f)
    /\ consumers' = [consumers EXCEPT ![f] = @ \ {Request[c].consumer}]
    /\ GoTo(c, "ended", None)
    /\ UNCHANGED <<state, priority, cancelOutcome, ownerVars, brokerVars, shutdown>>

\* The last consumer leaving makes a RUNNING fetch CANCELLING.  It cancels the job
\* outside the lock (CancelOwner), or completes a fetch that has no job itself.
ReleaseLast(c) == \E f \in Calls :
    /\ HasHandle(c, f)
    /\ IsLast(c, f)
    /\ state' = [state EXCEPT ![f] = "CANCELLING"]
    /\ cancelOutcome' = [cancelOutcome EXCEPT ![f] = "CANCELLED_NO_CONSUMERS"]
    /\ consumers' = [consumers EXCEPT ![f] = {}]
    /\ IF job[f] = "none"
       THEN Settle(f, "CANCELLED_NO_CONSUMERS") /\ GoTo(c, "ended", None)
       ELSE UNCHANGED <<stage, outcome>> /\ GoTo(c, "cancelling", f)
    /\ UNCHANGED <<priority, job, cancelled, brokerVars, shutdown>>

\* Job.cancel(): a complete job ignores it.
CancelJob(f) ==
    cancelled' = IF job[f] = "complete" THEN cancelled ELSE [cancelled EXCEPT ![f] = TRUE]

\* Mutant of CancelOwner: the job the last consumer leaves is not cancelled.
LeavesOwnerRunning(c) ==
    /\ pc[c] = "cancelling"
    /\ GoTo(c, "ended", None)
    /\ UNCHANGED <<fetchVars, ownerVars, brokerVars, shutdown>>

CancelOwner(c) ==
    /\ pc[c] = "cancelling"
    /\ CancelJob(on[c])
    /\ GoTo(c, "ended", None)
    /\ UNCHANGED <<fetchVars, job, stage, outcome, brokerVars, shutdown>>

RaisePriority(c) == \E f \in Calls :
    /\ HasHandle(c, f)
    /\ state[f] = "RUNNING"
    /\ priority[f] < PLAYBACK
    /\ priority' = [priority EXCEPT ![f] = PLAYBACK]
    /\ UNCHANGED <<state, consumers, cancelOutcome, ownerVars, brokerVars, callVars, shutdown>>

-------------------------------------------------------------------------------
(* shutdown() *)

Open(f) == (\E k \in Keys : active[k] = f) /\ state[f] # "TERMINAL"

BeginShutdown ==
    LET open == {f \in Calls : Open(f)}
        jobs == {f \in open : job[f] # "none"}
    IN
    /\ ~closed
    /\ closed' = TRUE
    /\ state' = [f \in Calls |-> IF f \in open THEN "CANCELLING" ELSE state[f]]
    /\ cancelOutcome' = [f \in Calls |->
            IF f \in open THEN "CANCELLED_BROKER_SHUTDOWN" ELSE cancelOutcome[f]]
    /\ shutdown' = [pc |-> "closing", cancels |-> jobs, joins |-> jobs,
                    orphans |-> open \ jobs]
    /\ UNCHANGED <<consumers, priority, ownerVars, active, callVars>>

ShutdownCancels(f) ==
    /\ f \in shutdown.cancels
    /\ CancelJob(f)
    /\ shutdown' = [shutdown EXCEPT !.cancels = @ \ {f}]
    /\ UNCHANGED <<fetchVars, job, stage, outcome, brokerVars, callVars>>

\* Mutant of ShutdownSettlesOrphan: nobody completes an owner without a job.
ShutdownForgetsOrphan(f) == FALSE

\* An owner whose job was never stored is completed by shutdown() itself.
ShutdownSettlesOrphan(f) ==
    /\ shutdown.cancels = {}
    /\ f \in shutdown.orphans
    /\ stage[f] = "idle"
    /\ Settle(f, "CANCELLED_BROKER_SHUTDOWN")
    /\ UNCHANGED <<fetchVars, job, cancelled, brokerVars, callVars, shutdown>>

\* joinAll(): a lazy job is complete as soon as it is cancelled.
JobComplete(f) == job[f] = "complete" \/ (job[f] = "lazy" /\ cancelled[f])

ShutdownReturns ==
    /\ shutdown.pc = "closing"
    /\ shutdown.cancels = {}
    /\ \A f \in shutdown.orphans : stage[f] = "done"
    /\ \A f \in shutdown.joins : JobComplete(f)
    /\ shutdown' = [pc |-> "returned", cancels |-> {}, joins |-> {}, orphans |-> {}]
    /\ UNCHANGED <<fetchVars, ownerVars, brokerVars, callVars>>

-------------------------------------------------------------------------------
Acquire(c) ==
    \/ AcquireOnClosed(c)
    \/ AcquireNewOwner(c)
    \/ AcquireJoinsRunning(c)
    \/ AcquireConflicts(c)
    \/ AcquireWaitsAtBarrier(c)

StartOwner(c) ==
    \/ StoreOwnerJob(c)
    \/ StartOwnerJob(c)
    \/ HookRunsAtOnce(c)
    \/ HookReturns(c)

Handle(c) ==
    \/ AwaitReturns(c)
    \/ ReleaseOfTerminal(c)
    \/ ReleaseNotLast(c)
    \/ ReleaseLast(c)
    \/ CancelOwner(c)
    \/ RaisePriority(c)

Owner(f) ==
    \/ CancelledBeforeBody(f)
    \/ BodyBegins(f)
    \/ StartPhysicalAttempt(f)
    \/ FailsInPreflight(f)
    \/ AttemptSucceeds(f)
    \/ AttemptFails(f)
    \/ ObservesCancellation(f)
    \/ BecomeTerminal(f)
    \/ PublishResult(f)

Shutdown ==
    \/ BeginShutdown
    \/ ShutdownReturns
    \/ \E f \in Calls : ShutdownCancels(f) \/ ShutdownSettlesOrphan(f)

Next ==
    \/ \E c \in Calls :
        Acquire(c) \/ BarrierLifted(c) \/ BarrierAbandoned(c)
        \/ StartOwner(c) \/ Handle(c) \/ Owner(c)
    \/ Shutdown

SafeSpec == Init /\ [][Next]_vars

(* Fairness: threads run on, dispatched coroutines run, and a cancelled owner's  *)
(* I/O gives up (its suspension points are cancellable).  Nothing makes a caller *)
(* acquire or release, nor an attempt that is not cancelled ever end.            *)
CallerRuns(c) ==
    \/ pc[c] = "retrying" /\ Acquire(c)
    \/ BarrierLifted(c)
    \/ StartOwner(c)
    \/ CancelOwner(c)

OwnerRuns(f) ==
    \/ CancelledBeforeBody(f)
    \/ BodyBegins(f)
    \/ ObservesCancellation(f)
    \/ BecomeTerminal(f)
    \/ PublishResult(f)

ShutdownRuns ==
    \/ ShutdownReturns
    \/ \E f \in Calls : ShutdownCancels(f) \/ ShutdownSettlesOrphan(f)

Spec ==
    /\ Init
    /\ [][Next]_vars
    /\ \A c \in Calls : WF_vars(CallerRuns(c)) /\ WF_vars(OwnerRuns(c))
    /\ WF_vars(ShutdownRuns)

-------------------------------------------------------------------------------
(* Safety *)

Unfinished(f) == state[f] # "UNBORN" /\ stage[f] # "done"
AtWork(f) == stage[f] \in {"preflight", "inflight"}
\* c's acquire() has put its consumer aboard f and c has not released it.
Aboard(c, f) == on[c] = f /\ pc[c] \in {"starting", "arming", "hooking", "holding"}

\* Owners of one key never overlap, neither while they work nor while a cancelled
\* one winds down behind the barrier of acquire().
OwnersNeverOverlap ==
    \A f, g \in Calls :
        KeyOf(f) = KeyOf(g) /\ Unfinished(f) /\ Unfinished(g) => f = g

\* A caller aboard a RUNNING fetch is registered as its consumer, in a place no
\* other caller shares: releasing one handle cannot drop another caller's demand.
PlacesAreExclusive ==
    \A f \in Calls : state[f] = "RUNNING" =>
        /\ \A c \in Calls : Aboard(c, f) => Request[c].consumer \in consumers[f]
        /\ \A c, d \in Calls :
            Aboard(c, f) /\ Aboard(d, f) /\ Request[c].consumer = Request[d].consumer
                => c = d

\* Work nobody wants is under cancellation: an owner at work has a consumer, or
\* its job is cancelled, or the caller or shutdown() about to cancel it is known.
NoUnwantedWork ==
    \A f \in Calls : AtWork(f) =>
        \/ \E c \in Calls : Aboard(c, f)
        \/ cancelled[f]
        \/ f \in shutdown.cancels
        \/ \E c \in Calls : pc[c] = "cancelling" /\ on[c] = f

\* An owner ends as CANCELLED_NO_CONSUMERS only when nobody is aboard, so no
\* caller is told that its own demand was absent.
NobodyAbandoned ==
    \A c, f \in Calls : Aboard(c, f) => outcome[f] # "CANCELLED_NO_CONSUMERS"

\* While a fetch runs, its priority is at least that of everyone aboard.
PriorityCoversEveryone ==
    \A c, f \in Calls :
        Aboard(c, f) /\ state[f] = "RUNNING" => priority[f] >= Request[c].priority

\* Once shutdown() has returned, no owner works and none ever starts to, though
\* callers overtaken in startOwner() still run.
QuietAfterShutdown ==
    shutdown.pc = "returned" => \A f \in Calls : ~AtWork(f)

-------------------------------------------------------------------------------
(* Liveness *)

\* acquire() returns: behind the barrier it waits only for owners that end.
AcquireReturns ==
    \A c \in Calls :
        pc[c] \in {"starting", "arming", "hooking", "blocked", "retrying"}
            ~> pc[c] \in {"holding", "cancelling", "ended"}

\* shutdown() returns, and everyone aboard any fetch gets a result.
ShutdownEndsEverything ==
    closed ~> /\ shutdown.pc = "returned"
              /\ \A f \in Calls : ~Unfinished(f)

-------------------------------------------------------------------------------
(* Refinement: a TERMINAL fetch that is still registered is not landed yet.    *)

FlightPhase(f) ==
    IF state[f] = "UNBORN" THEN "planned"
    ELSE IF state[f] = "RUNNING" THEN "open"
    ELSE IF stage[f] = "done" THEN "landed"
    ELSE "draining"

Flight == INSTANCE SingleFlight WITH
    Flights <- Calls,
    Riders <- Calls,
    Outcomes <- OutcomeKinds,
    Abandoned <- "CANCELLED_NO_CONSUMERS",
    phase <- [f \in Calls |-> FlightPhase(f)],
    riders <- [f \in Calls |-> {c \in Calls : Aboard(c, f)}],
    outcome <- [f \in Calls |-> IF stage[f] = "done" THEN outcome[f] ELSE "none"]

\* The broker is a single-flight registry: whatever its locks, jobs and threads
\* do, its callers see flights that open, take riders, drain and land once.
ImplementsSingleFlight == Flight!Spec
===============================================================================
