---------------------------- MODULE DeliveryBinding ----------------------------
(***************************************************************************)
(* DeliveryBindingCoordinator.kt: the current delivery binding of a        *)
(* session and the single-flight refresh of it.                            *)
(*                                                                         *)
(* Each action is one critical section of the coordinator's lock, or one   *)
(* step of a coroutine outside it.  One element of Calls is one failed     *)
(* attempt: the binding selected for it and the one refresh() it asks for. *)
(* A refresh() starts at most one operation, which has the call's name     *)
(* (the code draws "refresh-N" from a counter); revision N is "binding-N". *)
(*                                                                         *)
(* Abstracted: the material, the evidence, and who declines the admission  *)
(* and why.  The scope is the coordinator's own.  A second shutdown()      *)
(* waits for the first and changes nothing, so one is modelled.            *)
(***************************************************************************)
EXTENDS Naturals, FiniteSets

CONSTANTS
    Calls,      \* executions of refresh(), each by one caller
    None        \* no operation

ASSUME CallsAssumption == IsFiniteSet(Calls)
ASSUME NoneAssumption == None \notin Calls

VARIABLES
    revision,       \* the number of the current revision
    inFlight,       \* the operation in the slot, or None
    closed,
    \* the fields of InFlightRefresh, by the call that starts it: its coroutine,
    \* whether that is cancelled, what it completes with, what it came to
    job, cancelled, completion, waiters, outcome, installed,
    \* the callers: where each stands, the revision it asks to move on from, the
    \* operation it waits for, what it was told
    pc, expected, on, answer,
    shutdown        \* where shutdown() stands, and the operation it joins

operationVars == <<job, cancelled, completion, waiters, outcome, installed>>
callVars == <<pc, expected, on, answer>>
vars == <<revision, inFlight, closed, operationVars, callVars, shutdown>>

Completions == {"MATERIAL", "INCOMPATIBLE", "FAILED", "CANCELLED", "FATAL"}

\* "FATAL" is an Error that every waiter is thrown.
Outcomes == {"SUCCEEDED", "INCOMPATIBLE", "FAILED", "CANCELLED", "FATAL"}

\* "ABANDONED" is a Failed that says the operation was cancelled.
Answers == {"CLOSED", "ALREADY_ADVANCED", "NOT_ADMITTED", "REFRESHED",
            "JOINED_REFRESH", "INCOMPATIBLE", "FAILED", "ABANDONED", "FATAL"}

TypeOK ==
    /\ revision \in Nat \ {0}
    /\ inFlight \in Calls \union {None}
    /\ closed \in BOOLEAN
    /\ job \in [Calls -> {"none", "queued", "asking", "answered", "ended"}]
    /\ cancelled \in [Calls -> BOOLEAN]
    /\ completion \in [Calls -> Completions \union {"none"}]
    /\ waiters \in [Calls -> Nat]
    /\ outcome \in [Calls -> Outcomes \union {"none"}]
    /\ installed \in [Calls -> Nat]
    /\ pc \in [Calls -> {"new", "selected", "awaiting", "joining", "left", "told"}]
    /\ expected \in [Calls -> Nat]
    /\ on \in [Calls -> Calls \union {None}]
    /\ answer \in [Calls -> Answers \union {"none"}]
    /\ shutdown \in [pc: {"idle", "closing", "joining", "returned"},
                     joins: Calls \union {None}]

Init ==
    /\ revision = 1
    /\ inFlight = None
    /\ closed = FALSE
    /\ job = [o \in Calls |-> "none"]
    /\ cancelled = [o \in Calls |-> FALSE]
    /\ completion = [o \in Calls |-> "none"]
    /\ waiters = [o \in Calls |-> 0]
    /\ outcome = [o \in Calls |-> "none"]
    /\ installed = [o \in Calls |-> 0]
    /\ pc = [c \in Calls |-> "new"]
    /\ expected = [c \in Calls |-> 0]
    /\ on = [c \in Calls |-> None]
    /\ answer = [c \in Calls |-> "none"]
    /\ shutdown = [pc |-> "idle", joins |-> None]

-------------------------------------------------------------------------------
(* refresh() up to the end of its first critical section *)

\* current(): the attempt that is going to fail is made with the binding of now.
SelectBinding(c) ==
    /\ pc[c] = "new"
    /\ pc' = [pc EXCEPT ![c] = "selected"]
    /\ expected' = [expected EXCEPT ![c] = revision]
    /\ UNCHANGED <<revision, inFlight, closed, operationVars, on, answer, shutdown>>

Told(c, a) ==
    /\ pc' = [pc EXCEPT ![c] = "told"]
    /\ answer' = [answer EXCEPT ![c] = a]
    /\ UNCHANGED <<revision, inFlight, closed, operationVars, expected, on, shutdown>>

Awaits(c, o) ==
    /\ pc' = [pc EXCEPT ![c] = "awaiting"]
    /\ on' = [on EXCEPT ![c] = o]

RefreshOnClosed(c) ==
    /\ pc[c] = "selected"
    /\ closed
    /\ Told(c, "CLOSED")

RefreshAlreadyAdvanced(c) ==
    /\ pc[c] = "selected"
    /\ ~closed
    /\ revision # expected[c]
    /\ Told(c, "ALREADY_ADVANCED")

\* Mutant of AsksForCurrent: nobody looks whether the binding has advanced already.
AsksForAny(c) == pc[c] = "selected" /\ ~closed

AsksForCurrent(c) == pc[c] = "selected" /\ ~closed /\ revision = expected[c]

\* Mutant of RefreshJoins: a joiner is not counted.
JoinsUncounted(c) ==
    /\ AsksForCurrent(c)
    /\ inFlight # None
    /\ Awaits(c, inFlight)
    /\ UNCHANGED <<revision, inFlight, closed, operationVars, expected, answer, shutdown>>

RefreshJoins(c) ==
    /\ AsksForCurrent(c)
    /\ inFlight # None
    /\ waiters' = [waiters EXCEPT ![inFlight] = @ + 1]
    /\ Awaits(c, inFlight)
    /\ UNCHANGED <<revision, inFlight, closed, job, cancelled, completion, outcome,
                   installed, expected, answer, shutdown>>

RefreshNotAdmitted(c) ==
    /\ AsksForCurrent(c)
    /\ inFlight = None
    /\ Told(c, "NOT_ADMITTED")

RefreshStarts(c) ==
    /\ AsksForCurrent(c)
    /\ inFlight = None
    /\ inFlight' = c
    /\ job' = [job EXCEPT ![c] = "queued"]
    /\ waiters' = [waiters EXCEPT ![c] = 1]
    /\ Awaits(c, c)
    /\ UNCHANGED <<revision, closed, cancelled, completion, outcome, installed,
                   expected, answer, shutdown>>

-------------------------------------------------------------------------------
(* The rest of refresh() *)

AnswerTo(c) ==
    CASE outcome[on[c]] = "SUCCEEDED" -> IF on[c] = c THEN "REFRESHED" ELSE "JOINED_REFRESH"
      [] outcome[on[c]] = "CANCELLED" -> "ABANDONED"
      [] OTHER -> outcome[on[c]]

AwaitReturns(c) ==
    /\ pc[c] = "awaiting"
    /\ outcome[on[c]] # "none"
    /\ Told(c, AnswerTo(c))

\* Mutant of IsLast: the caller that leaves is still counted when it looks.
NobodyIsLast(c) == waiters[on[c]] <= 0 /\ outcome[on[c]] = "none"

IsLast(c) == waiters[on[c]] <= 1 /\ outcome[on[c]] = "none"

\* The caller is cancelled while it waits, whether or not the result is there.
AbandonWaiter(c) ==
    /\ pc[c] = "awaiting"
    /\ waiters' = [waiters EXCEPT ![on[c]] = @ - 1]
    /\ cancelled' = IF IsLast(c) THEN [cancelled EXCEPT ![on[c]] = TRUE] ELSE cancelled
    /\ pc' = [pc EXCEPT ![c] = IF IsLast(c) THEN "joining" ELSE "left"]
    /\ UNCHANGED <<revision, inFlight, closed, job, completion, outcome, installed,
                   expected, on, answer, shutdown>>

JoinReturns(c) ==
    /\ pc[c] = "joining"
    /\ job[on[c]] = "ended"
    /\ pc' = [pc EXCEPT ![c] = "left"]
    /\ UNCHANGED <<revision, inFlight, closed, operationVars, expected, on, answer,
                   shutdown>>

-------------------------------------------------------------------------------
(* The operation *)

\* finishOperation(); the body and the completion hook of one job both call it, and
\* the second call finds the operation finished.
Finish(o, result) ==
    /\ job' = [job EXCEPT ![o] = "ended"]
    /\ outcome' = [outcome EXCEPT ![o] = result]
    /\ inFlight' = IF inFlight = o THEN None ELSE inFlight
    /\ IF result = "SUCCEEDED"
       THEN /\ revision' = revision + 1
            /\ installed' = [installed EXCEPT ![o] = revision + 1]
       ELSE UNCHANGED <<revision, installed>>
    /\ UNCHANGED <<closed, cancelled, completion, waiters, callVars, shutdown>>

\* Mutant of CancelledBeforeBody: there is no completion hook.
EndsUnnoticed(o) ==
    /\ job[o] = "queued"
    /\ cancelled[o]
    /\ job' = [job EXCEPT ![o] = "ended"]
    /\ UNCHANGED <<revision, inFlight, closed, cancelled, completion, waiters, outcome,
                   installed, callVars, shutdown>>

CancelledBeforeBody(o) ==
    /\ job[o] = "queued"
    /\ cancelled[o]
    /\ Finish(o, "CANCELLED")

OperationMoves(o, place) ==
    /\ job' = [job EXCEPT ![o] = place]
    /\ UNCHANGED <<revision, inFlight, closed, cancelled, waiters, outcome, installed,
                   callVars, shutdown>>

BodyBegins(o) ==
    /\ job[o] = "queued"
    /\ ~cancelled[o]
    /\ OperationMoves(o, "asking")
    /\ UNCHANGED completion

\* The answer may be there although the job has been cancelled.
ProviderAnswers(o) ==
    /\ job[o] = "asking"
    /\ \E result \in Completions \ {"CANCELLED"} :
        completion' = [completion EXCEPT ![o] = result]
    /\ OperationMoves(o, "answered")

ObservesCancellation(o) ==
    /\ job[o] = "asking"
    /\ cancelled[o]
    /\ completion' = [completion EXCEPT ![o] = "CANCELLED"]
    /\ OperationMoves(o, "answered")

FinishOperation(o) ==
    /\ job[o] = "answered"
    /\ Finish(o, IF completion[o] = "MATERIAL" THEN "SUCCEEDED" ELSE completion[o])

-------------------------------------------------------------------------------
(* shutdown() *)

BeginShutdown ==
    /\ shutdown.pc = "idle"
    /\ closed' = TRUE
    /\ shutdown' = [pc |-> "closing", joins |-> None]
    /\ UNCHANGED <<revision, inFlight, operationVars, callVars>>

ShutdownFindsNothing ==
    /\ shutdown.pc = "closing"
    /\ inFlight = None
    /\ shutdown' = [pc |-> "returned", joins |-> None]
    /\ UNCHANGED <<revision, inFlight, closed, operationVars, callVars>>

ShutdownCancels ==
    /\ shutdown.pc = "closing"
    /\ inFlight # None
    /\ cancelled' = [cancelled EXCEPT ![inFlight] = TRUE]
    /\ shutdown' = [pc |-> "joining", joins |-> inFlight]
    /\ UNCHANGED <<revision, inFlight, closed, job, completion, waiters, outcome,
                   installed, callVars>>

ShutdownReturns ==
    /\ shutdown.pc = "joining"
    /\ job[shutdown.joins] = "ended"
    /\ shutdown' = [pc |-> "returned", joins |-> None]
    /\ UNCHANGED <<revision, inFlight, closed, operationVars, callVars>>

-------------------------------------------------------------------------------
Caller(c) ==
    \/ SelectBinding(c)
    \/ RefreshOnClosed(c)
    \/ RefreshAlreadyAdvanced(c)
    \/ RefreshJoins(c)
    \/ RefreshNotAdmitted(c)
    \/ RefreshStarts(c)
    \/ AwaitReturns(c)
    \/ AbandonWaiter(c)
    \/ JoinReturns(c)

Operation(o) ==
    \/ CancelledBeforeBody(o)
    \/ BodyBegins(o)
    \/ ProviderAnswers(o)
    \/ ObservesCancellation(o)
    \/ FinishOperation(o)

Shutdown ==
    \/ BeginShutdown
    \/ ShutdownFindsNothing
    \/ ShutdownCancels
    \/ ShutdownReturns

Next ==
    \/ \E c \in Calls : Caller(c) \/ Operation(c)
    \/ Shutdown

SafeSpec == Init /\ [][Next]_vars

(* Fairness: coroutines that can run do, and an operation whose job is cancelled  *)
(* stops waiting for the provider.  Nothing makes the provider answer, a caller   *)
(* ask or leave, or the session shut down.                                        *)
OperationRuns(o) ==
    \/ CancelledBeforeBody(o)
    \/ BodyBegins(o)
    \/ ObservesCancellation(o)
    \/ FinishOperation(o)

Spec ==
    /\ Init
    /\ [][Next]_vars
    /\ \A c \in Calls :
        /\ WF_vars(AwaitReturns(c))
        /\ WF_vars(JoinReturns(c))
        /\ WF_vars(OperationRuns(c))
    /\ WF_vars(ShutdownFindsNothing \/ ShutdownCancels \/ ShutdownReturns)

-------------------------------------------------------------------------------
(* Properties *)

Unfinished(o) == job[o] \in {"queued", "asking", "answered"}

\* Of all the callers that fail on one revision, however late they ask, at most one
\* operation at a time goes to the provider, none for a revision that is no longer
\* current, and no two ever replace the same one; and whoever is told that the binding
\* has moved on asked about one older than the current, and not newer than that.
RevisionsRefreshedOnce ==
    /\ \A o \in Calls : Unfinished(o) => inFlight = o /\ expected[o] = revision
    /\ \A o, p \in Calls :
        outcome[o] = "SUCCEEDED" /\ outcome[p] = "SUCCEEDED" /\ expected[o] = expected[p]
            => o = p
    /\ \A c \in Calls :
        /\ answer[c] \in {"REFRESHED", "JOINED_REFRESH"} =>
            installed[on[c]] = expected[c] + 1 /\ installed[on[c]] <= revision
        /\ answer[c] = "ALREADY_ADVANCED" => expected[c] < revision

\* "the cancelled caller never leaves an orphan operation behind": while an operation is
\* under way a caller waits for its result, or for its end because it left last.
NoOrphanRefresh ==
    \A o \in Calls : Unfinished(o) =>
        \E c \in Calls : on[c] = o /\ pc[c] \in {"awaiting", "joining"}

\* Nobody's refresh is cancelled under them by a caller that leaves: a job is cancelled
\* when no caller is left waiting for it, or by shutdown().
WaitersKeepTheirRefresh ==
    [][\A o \in Calls : ~cancelled[o] /\ cancelled'[o] =>
           \/ closed
           \/ \A c \in Calls : ~(on'[c] = o /\ pc'[c] = "awaiting")]_vars

\* A refresh that is cancelled ends, and everybody is gone from it: the last to leave
\* gets away, and a caller that joined it late is told.  shutdown() returns, and leaves
\* nobody waiting.
EveryoneIsAnswered ==
    /\ \A o \in Calls :
        cancelled[o] ~> /\ job[o] = "ended"
                        /\ \A c \in Calls : on[c] = o => pc[c] \notin {"awaiting", "joining"}
    /\ closed ~> /\ shutdown.pc = "returned"
                 /\ \A c \in Calls : pc[c] \notin {"awaiting", "joining"}

================================================================================
