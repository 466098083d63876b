-------------------------- MODULE FetchBrokerProofs ---------------------------
(***************************************************************************)
(* Proofs about FetchBroker, for every set of calls, keys and requests.    *)
(* RegistryInv says how a fetch's registration, state, job and stage hang  *)
(* together; OwnersNeverOverlap follows from its Registered conjuncts.     *)
(* DrainInv adds what shutdown() has still to join; QuietAfterShutdown     *)
(* follows from both.                                                      *)
(*                                                                         *)
(* DemandInv says who is aboard a fetch, in which place, and what becomes  *)
(* of its owner when the last one leaves; the four invariants about that   *)
(* rest on each other in it.  With the outcome an owner settles with, this *)
(* shows that every step is one of SingleFlight's, or none.                *)
(***************************************************************************)
EXTENDS FetchBroker, TLAPS

Born(f) == state[f] # "UNBORN"

\* How the parts of one SharedFetch fit together.
FetchShape(f) ==
    /\ ~Born(f) => job[f] = "none" /\ stage[f] = "idle"
    /\ state[f] = "TERMINAL" <=> stage[f] \in {"publishing", "done"}
    /\ job[f] \in {"lazy", "queued"} => stage[f] = "idle"
    /\ AtWork(f) => job[f] = "running"
    /\ job[f] = "none" /\ stage[f] # "idle" => state[f] # "RUNNING"

\* Before its call has created it a fetch is unborn; the creating call starts it.
CallShape(c) ==
    /\ pc[c] \in {"new", "retrying", "blocked"} => ~Born(c)
    /\ pc[c] \in {"starting", "arming", "hooking"} => on[c] = c /\ Born(c)
    /\ pc[c] = "starting" => job[c] = "none"
    /\ pc[c] = "arming" => job[c] = "lazy"

\* The registry holds exactly the unfinished fetches, each under its key.
RegistryShape ==
    /\ \A f \in Calls : Unfinished(f) => active[KeyOf(f)] = f
    /\ \A k \in Keys : active[k] # None =>
            KeyOf(active[k]) = k /\ Unfinished(active[k])

\* What shutdown() completes itself has no job and never gets one.
OrphanShape(f) ==
    closed /\ job[f] = "none" /\ state[f] \in {"CANCELLING", "TERMINAL"}

RegistryInv ==
    /\ TypeOK
    /\ \A f \in Calls : FetchShape(f)
    /\ \A c \in Calls : CallShape(c)
    /\ RegistryShape
    /\ \A f \in shutdown.orphans : OrphanShape(f)

\* A job that may still run its body.
JobPending(f) ==
    job[f] \in {"lazy", "queued", "running"} /\ ~JobComplete(f)

\* Once closed, shutdown() knows every job that may still run before a terminal state.
DrainInv ==
    /\ closed <=> shutdown.pc # "idle"
    /\ closed => \A f \in Calls :
            JobPending(f) /\ state[f] # "TERMINAL"
                => shutdown.pc = "closing" /\ f \in shutdown.joins

-------------------------------------------------------------------------------
LEMMA RequestType ==
    ASSUME NEW c \in Calls
    PROVE  /\ Request[c].key \in Keys
           /\ Request[c].consumer \in Consumers
           /\ Request[c].priority \in Priorities
BY RequestAssumption DEF RequestRecord

\* One step per action: each keeps the types of the state it writes.
LEMMA TypeStep == TypeOK /\ [Next]_vars => TypeOK'
<1> USE DEF TypeOK, States, Jobs, Stages, Places, ShutdownRecord, OutcomeKinds,
            CancellationKinds, GoTo, fetchVars, ownerVars, brokerVars, callVars
<1>1. ASSUME TypeOK, NEW c \in Calls, AcquireOnClosed(c) PROVE TypeOK'
  BY <1>1 DEF AcquireOnClosed
<1>2. ASSUME TypeOK, NEW c \in Calls, AcquireNewOwner(c) PROVE TypeOK'
  BY <1>2, RequestType DEF AcquireNewOwner, KeyOf
<1>3. ASSUME TypeOK, NEW c \in Calls, AcquireJoinsRunning(c) PROVE TypeOK'
  BY <1>3, RequestType DEF AcquireJoinsRunning, PriorityAfterJoin
<1>4. ASSUME TypeOK, NEW c \in Calls, AcquireConflicts(c) PROVE TypeOK'
  BY <1>4 DEF AcquireConflicts
<1>5. ASSUME TypeOK, NEW c \in Calls, AcquireWaitsAtBarrier(c) PROVE TypeOK'
  BY <1>5 DEF AcquireWaitsAtBarrier
<1>6. ASSUME TypeOK, NEW c \in Calls, BarrierLifted(c) PROVE TypeOK'
  BY <1>6 DEF BarrierLifted
<1>7. ASSUME TypeOK, NEW c \in Calls, BarrierAbandoned(c) PROVE TypeOK'
  BY <1>7 DEF BarrierAbandoned
<1>8. ASSUME TypeOK, NEW c \in Calls, StoreOwnerJob(c) PROVE TypeOK'
  BY <1>8 DEF StoreOwnerJob
<1>9. ASSUME TypeOK, NEW c \in Calls, StartOwnerJob(c) PROVE TypeOK'
  BY <1>9 DEF StartOwnerJob
<1>10. ASSUME TypeOK, NEW c \in Calls, HookRunsAtOnce(c) PROVE TypeOK'
  BY <1>10 DEF HookRunsAtOnce, Settle, CancelKind
<1>11. ASSUME TypeOK, NEW c \in Calls, HookReturns(c) PROVE TypeOK'
  BY <1>11 DEF HookReturns
<1>12. ASSUME TypeOK, NEW c \in Calls, AwaitReturns(c) PROVE TypeOK'
  BY <1>12 DEF AwaitReturns
<1>13. ASSUME TypeOK, NEW c \in Calls, ReleaseOfTerminal(c) PROVE TypeOK'
  BY <1>13 DEF ReleaseOfTerminal
<1>14. ASSUME TypeOK, NEW c \in Calls, ReleaseNotLast(c) PROVE TypeOK'
  BY <1>14 DEF ReleaseNotLast
<1>15. ASSUME TypeOK, NEW c \in Calls, ReleaseLast(c) PROVE TypeOK'
  BY <1>15 DEF ReleaseLast, Settle
<1>16. ASSUME TypeOK, NEW c \in Calls, CancelOwner(c) PROVE TypeOK'
  BY <1>16 DEF CancelOwner, CancelJob
<1>17. ASSUME TypeOK, NEW c \in Calls, RaisePriority(c) PROVE TypeOK'
  BY <1>17 DEF RaisePriority, Priorities
<1>18. ASSUME TypeOK, NEW f \in Calls, CancelledBeforeBody(f) PROVE TypeOK'
  BY <1>18 DEF CancelledBeforeBody, Settle, CancelKind
<1>19. ASSUME TypeOK, NEW f \in Calls, BodyBegins(f) PROVE TypeOK'
  BY <1>19 DEF BodyBegins
<1>20. ASSUME TypeOK, NEW f \in Calls, StartPhysicalAttempt(f) PROVE TypeOK'
  BY <1>20 DEF StartPhysicalAttempt
<1>21. ASSUME TypeOK, NEW f \in Calls, FailsInPreflight(f) PROVE TypeOK'
  BY <1>21 DEF FailsInPreflight, Ends, Settle
<1>22. ASSUME TypeOK, NEW f \in Calls, AttemptSucceeds(f) PROVE TypeOK'
  BY <1>22 DEF AttemptSucceeds, Ends, Settle
<1>23. ASSUME TypeOK, NEW f \in Calls, AttemptFails(f) PROVE TypeOK'
  BY <1>23 DEF AttemptFails, Ends, Settle
<1>24. ASSUME TypeOK, NEW f \in Calls, ObservesCancellation(f) PROVE TypeOK'
  BY <1>24 DEF ObservesCancellation, Ends, Settle, CancelKind
<1>25. ASSUME TypeOK, NEW f \in Calls, BecomeTerminal(f) PROVE TypeOK'
  BY <1>25 DEF BecomeTerminal
<1>26. ASSUME TypeOK, NEW f \in Calls, PublishResult(f) PROVE TypeOK'
  BY <1>26 DEF PublishResult
<1>27. ASSUME TypeOK, BeginShutdown PROVE TypeOK'
  BY <1>27 DEF BeginShutdown, Open
<1>28. ASSUME TypeOK, NEW f \in Calls, ShutdownCancels(f) PROVE TypeOK'
  BY <1>28 DEF ShutdownCancels, CancelJob
<1>29. ASSUME TypeOK, NEW f \in Calls, ShutdownSettlesOrphan(f) PROVE TypeOK'
  BY <1>29 DEF ShutdownSettlesOrphan, Settle
<1>30. ASSUME TypeOK, ShutdownReturns PROVE TypeOK'
  BY <1>30 DEF ShutdownReturns
<1>31. ASSUME TypeOK, UNCHANGED vars PROVE TypeOK'
  BY <1>31 DEF vars
<1> QED
  BY <1>1, <1>2, <1>3, <1>4, <1>5, <1>6, <1>7, <1>8, <1>9, <1>10, <1>11, <1>12, <1>13, <1>14, <1>15, <1>16, <1>17, <1>18, <1>19, <1>20, <1>21, <1>22, <1>23, <1>24, <1>25, <1>26, <1>27, <1>28, <1>29, <1>30, <1>31
     DEF Next, Acquire, StartOwner, Handle, Owner, Shutdown

LEMMA RegistryStep == RegistryInv /\ [Next]_vars => RegistryInv'
<1> USE RequestType, NoneAssumption
        DEF RegistryInv, TypeOK, States, Jobs, Stages, Places, ShutdownRecord,
            FetchShape, CallShape, RegistryShape, OrphanShape, Born, AtWork, Unfinished, KeyOf,
            GoTo, fetchVars, ownerVars, brokerVars, callVars
<1>1. ASSUME RegistryInv, TypeOK', NEW c \in Calls, AcquireOnClosed(c) PROVE RegistryInv'
  BY <1>1 DEF AcquireOnClosed
<1>2. ASSUME RegistryInv, TypeOK', NEW c \in Calls, AcquireNewOwner(c) PROVE RegistryInv'
  BY <1>2 DEF AcquireNewOwner, Vacant, InAcquireLoop
<1>3. ASSUME RegistryInv, TypeOK', NEW c \in Calls, AcquireJoinsRunning(c) PROVE RegistryInv'
  BY <1>3 DEF AcquireJoinsRunning, Finds, InAcquireLoop
<1>4. ASSUME RegistryInv, TypeOK', NEW c \in Calls, AcquireConflicts(c) PROVE RegistryInv'
  BY <1>4 DEF AcquireConflicts
<1>5. ASSUME RegistryInv, TypeOK', NEW c \in Calls, AcquireWaitsAtBarrier(c) PROVE RegistryInv'
  BY <1>5 DEF AcquireWaitsAtBarrier, Finds, InAcquireLoop
<1>6. ASSUME RegistryInv, TypeOK', NEW c \in Calls, BarrierLifted(c) PROVE RegistryInv'
  BY <1>6 DEF BarrierLifted
<1>7. ASSUME RegistryInv, TypeOK', NEW c \in Calls, BarrierAbandoned(c) PROVE RegistryInv'
  BY <1>7 DEF BarrierAbandoned
<1>8. ASSUME RegistryInv, TypeOK', NEW c \in Calls, StoreOwnerJob(c) PROVE RegistryInv'
  BY <1>8 DEF StoreOwnerJob, ShouldStart
<1>9. ASSUME RegistryInv, TypeOK', NEW c \in Calls, StartOwnerJob(c) PROVE RegistryInv'
  BY <1>9 DEF StartOwnerJob
<1>10. ASSUME RegistryInv, TypeOK', NEW c \in Calls, HookRunsAtOnce(c) PROVE RegistryInv'
  BY <1>10 DEF HookRunsAtOnce, Settle
<1>11. ASSUME RegistryInv, TypeOK', NEW c \in Calls, HookReturns(c) PROVE RegistryInv'
  BY <1>11 DEF HookReturns
<1>12. ASSUME RegistryInv, TypeOK', NEW c \in Calls, AwaitReturns(c) PROVE RegistryInv'
  BY <1>12 DEF AwaitReturns
<1>13. ASSUME RegistryInv, TypeOK', NEW c \in Calls, ReleaseOfTerminal(c) PROVE RegistryInv'
  BY <1>13 DEF ReleaseOfTerminal
<1>14. ASSUME RegistryInv, TypeOK', NEW c \in Calls, ReleaseNotLast(c) PROVE RegistryInv'
  BY <1>14 DEF ReleaseNotLast
<1>15. ASSUME RegistryInv, TypeOK', NEW c \in Calls, ReleaseLast(c) PROVE RegistryInv'
  BY <1>15 DEF ReleaseLast, Settle, HasHandle, IsLast
<1>16. ASSUME RegistryInv, TypeOK', NEW c \in Calls, CancelOwner(c) PROVE RegistryInv'
  BY <1>16 DEF CancelOwner, CancelJob
<1>17. ASSUME RegistryInv, TypeOK', NEW c \in Calls, RaisePriority(c) PROVE RegistryInv'
  BY <1>17 DEF RaisePriority, HasHandle
<1>18. ASSUME RegistryInv, TypeOK', NEW f \in Calls, CancelledBeforeBody(f) PROVE RegistryInv'
  BY <1>18 DEF CancelledBeforeBody, Settle
<1>19. ASSUME RegistryInv, TypeOK', NEW f \in Calls, BodyBegins(f) PROVE RegistryInv'
  BY <1>19 DEF BodyBegins
<1>20. ASSUME RegistryInv, TypeOK', NEW f \in Calls, StartPhysicalAttempt(f) PROVE RegistryInv'
  BY <1>20 DEF StartPhysicalAttempt
<1>21. ASSUME RegistryInv, TypeOK', NEW f \in Calls, FailsInPreflight(f) PROVE RegistryInv'
  BY <1>21 DEF FailsInPreflight, Ends, Settle
<1>22. ASSUME RegistryInv, TypeOK', NEW f \in Calls, AttemptSucceeds(f) PROVE RegistryInv'
  BY <1>22 DEF AttemptSucceeds, Ends, Settle
<1>23. ASSUME RegistryInv, TypeOK', NEW f \in Calls, AttemptFails(f) PROVE RegistryInv'
  BY <1>23 DEF AttemptFails, Ends, Settle
<1>24. ASSUME RegistryInv, TypeOK', NEW f \in Calls, ObservesCancellation(f) PROVE RegistryInv'
  BY <1>24 DEF ObservesCancellation, Ends, Settle
<1>25. ASSUME RegistryInv, TypeOK', NEW f \in Calls, BecomeTerminal(f) PROVE RegistryInv'
  BY <1>25 DEF BecomeTerminal
<1>26. ASSUME RegistryInv, TypeOK', NEW f \in Calls, PublishResult(f) PROVE RegistryInv'
  BY <1>26 DEF PublishResult
<1>27. ASSUME RegistryInv, TypeOK', BeginShutdown PROVE RegistryInv'
  BY <1>27 DEF BeginShutdown, Open
<1>28. ASSUME RegistryInv, TypeOK', NEW f \in Calls, ShutdownCancels(f) PROVE RegistryInv'
  BY <1>28 DEF ShutdownCancels, CancelJob
<1>29. ASSUME RegistryInv, TypeOK', NEW f \in Calls, ShutdownSettlesOrphan(f) PROVE RegistryInv'
  BY <1>29 DEF ShutdownSettlesOrphan, Settle
<1>30. ASSUME RegistryInv, TypeOK', ShutdownReturns PROVE RegistryInv'
  BY <1>30 DEF ShutdownReturns
<1>31. ASSUME RegistryInv, TypeOK', UNCHANGED vars PROVE RegistryInv'
  BY <1>31 DEF vars
<1> QED
  BY TypeStep, <1>1, <1>2, <1>3, <1>4, <1>5, <1>6, <1>7, <1>8, <1>9, <1>10, <1>11, <1>12, <1>13, <1>14, <1>15, <1>16, <1>17, <1>18, <1>19, <1>20, <1>21, <1>22, <1>23, <1>24, <1>25, <1>26, <1>27, <1>28, <1>29, <1>30, <1>31
     DEF Next, Acquire, StartOwner, Handle, Owner, Shutdown

LEMMA TypeInit == Init => TypeOK
<1> SUFFICES ASSUME Init PROVE TypeOK
  OBVIOUS
<1> USE DEF Init
<1>1. /\ state \in [Calls -> States]
      /\ consumers \in [Calls -> SUBSET Consumers]
      /\ priority \in [Calls -> Priorities]
  BY DEF States, Priorities, RESERVE, PLAYBACK
<1>2. /\ cancelOutcome \in [Calls -> CancellationKinds \union {"none"}]
      /\ outcome \in [Calls -> OutcomeKinds \union {"none"}]
  OBVIOUS
<1>3. /\ job \in [Calls -> Jobs]
      /\ cancelled \in [Calls -> BOOLEAN]
      /\ stage \in [Calls -> Stages]
  BY DEF Jobs, Stages
<1>4. /\ active \in [Keys -> Calls \union {None}]
      /\ closed \in BOOLEAN
  OBVIOUS
<1>5. /\ pc \in [Calls -> Places]
      /\ on \in [Calls -> Calls \union {None}]
      /\ shutdown \in ShutdownRecord
  BY DEF Places, ShutdownRecord
<1> QED
  BY <1>1, <1>2, <1>3, <1>4, <1>5 DEF TypeOK

\* The types of the state, for every set of calls, keys and consumers.
THEOREM TypeCorrect == SafeSpec => []TypeOK
BY TypeInit, TypeStep, PTL DEF SafeSpec

LEMMA RegistryCorrect == SafeSpec => []RegistryInv
<1>1. Init => RegistryInv
  BY TypeInit DEF Init, RegistryInv, FetchShape, CallShape, RegistryShape, OrphanShape,
                  Born, AtWork, Unfinished
<1>2. QED
  BY <1>1, RegistryStep, PTL DEF SafeSpec

\* Two fetches of one key are never both unfinished: owners of a key neither work
\* at the same time nor start before a cancelled one has left the registry.
THEOREM SingleOwner == SafeSpec => []OwnersNeverOverlap
<1>1. RegistryInv => OwnersNeverOverlap
  BY DEF RegistryInv, RegistryShape, OwnersNeverOverlap
<1>2. QED
  BY <1>1, RegistryCorrect, PTL

LEMMA DrainStep ==
    RegistryInv /\ RegistryInv' /\ DrainInv /\ [Next]_vars => DrainInv'
<1> USE DEF DrainInv, JobPending, JobComplete, RegistryInv, TypeOK, Jobs, ShutdownRecord,
            FetchShape, RegistryShape, AtWork, Unfinished,
            GoTo, fetchVars, ownerVars, brokerVars, callVars
<1>1. ASSUME RegistryInv, DrainInv, NEW c \in Calls, AcquireOnClosed(c) PROVE DrainInv'
  BY <1>1 DEF AcquireOnClosed
<1>2. ASSUME RegistryInv, DrainInv, NEW c \in Calls, AcquireNewOwner(c) PROVE DrainInv'
  BY <1>2 DEF AcquireNewOwner
<1>3. ASSUME RegistryInv, DrainInv, NEW c \in Calls, AcquireJoinsRunning(c) PROVE DrainInv'
  BY <1>3 DEF AcquireJoinsRunning
<1>4. ASSUME RegistryInv, DrainInv, NEW c \in Calls, AcquireConflicts(c) PROVE DrainInv'
  BY <1>4 DEF AcquireConflicts
<1>5. ASSUME RegistryInv, DrainInv, NEW c \in Calls, AcquireWaitsAtBarrier(c) PROVE DrainInv'
  BY <1>5 DEF AcquireWaitsAtBarrier
<1>6. ASSUME RegistryInv, DrainInv, NEW c \in Calls, BarrierLifted(c) PROVE DrainInv'
  BY <1>6 DEF BarrierLifted
<1>7. ASSUME RegistryInv, DrainInv, NEW c \in Calls, BarrierAbandoned(c) PROVE DrainInv'
  BY <1>7 DEF BarrierAbandoned
<1>8. ASSUME RegistryInv, DrainInv, NEW c \in Calls, StoreOwnerJob(c) PROVE DrainInv'
  BY <1>8 DEF StoreOwnerJob, ShouldStart
<1>9. ASSUME RegistryInv, DrainInv, NEW c \in Calls, StartOwnerJob(c) PROVE DrainInv'
  BY <1>9 DEF StartOwnerJob, CallShape
<1>10. ASSUME RegistryInv, DrainInv, NEW c \in Calls, HookRunsAtOnce(c) PROVE DrainInv'
  BY <1>10 DEF HookRunsAtOnce, Settle
<1>11. ASSUME RegistryInv, DrainInv, NEW c \in Calls, HookReturns(c) PROVE DrainInv'
  BY <1>11 DEF HookReturns
<1>12. ASSUME RegistryInv, DrainInv, NEW c \in Calls, AwaitReturns(c) PROVE DrainInv'
  BY <1>12 DEF AwaitReturns
<1>13. ASSUME RegistryInv, DrainInv, NEW c \in Calls, ReleaseOfTerminal(c) PROVE DrainInv'
  BY <1>13 DEF ReleaseOfTerminal
<1>14. ASSUME RegistryInv, DrainInv, NEW c \in Calls, ReleaseNotLast(c) PROVE DrainInv'
  BY <1>14 DEF ReleaseNotLast
<1>15. ASSUME RegistryInv, DrainInv, NEW c \in Calls, ReleaseLast(c) PROVE DrainInv'
  BY <1>15 DEF ReleaseLast, Settle, HasHandle, IsLast
<1>16. ASSUME RegistryInv, DrainInv, NEW c \in Calls, CancelOwner(c) PROVE DrainInv'
  BY <1>16 DEF CancelOwner, CancelJob
<1>17. ASSUME RegistryInv, DrainInv, NEW c \in Calls, RaisePriority(c) PROVE DrainInv'
  BY <1>17 DEF RaisePriority
<1>18. ASSUME RegistryInv, DrainInv, NEW f \in Calls, CancelledBeforeBody(f) PROVE DrainInv'
  BY <1>18 DEF CancelledBeforeBody, Settle
<1>19. ASSUME RegistryInv, DrainInv, NEW f \in Calls, BodyBegins(f) PROVE DrainInv'
  BY <1>19 DEF BodyBegins
<1>20. ASSUME RegistryInv, DrainInv, NEW f \in Calls, StartPhysicalAttempt(f) PROVE DrainInv'
  BY <1>20 DEF StartPhysicalAttempt
<1>21. ASSUME RegistryInv, DrainInv, NEW f \in Calls, FailsInPreflight(f) PROVE DrainInv'
  BY <1>21 DEF FailsInPreflight, Ends, Settle
<1>22. ASSUME RegistryInv, DrainInv, NEW f \in Calls, AttemptSucceeds(f) PROVE DrainInv'
  BY <1>22 DEF AttemptSucceeds, Ends, Settle
<1>23. ASSUME RegistryInv, DrainInv, NEW f \in Calls, AttemptFails(f) PROVE DrainInv'
  BY <1>23 DEF AttemptFails, Ends, Settle
<1>24. ASSUME RegistryInv, DrainInv, NEW f \in Calls, ObservesCancellation(f) PROVE DrainInv'
  BY <1>24 DEF ObservesCancellation, Ends, Settle
<1>25. ASSUME RegistryInv, DrainInv, NEW f \in Calls, BecomeTerminal(f) PROVE DrainInv'
  BY <1>25 DEF BecomeTerminal
<1>26. ASSUME RegistryInv, DrainInv, NEW f \in Calls, PublishResult(f) PROVE DrainInv'
  BY <1>26 DEF PublishResult
<1>27. ASSUME RegistryInv, DrainInv, BeginShutdown PROVE DrainInv'
  <2> SUFFICES ASSUME NEW f \in Calls, JobPending(f)', state'[f] # "TERMINAL"
               PROVE  f \in shutdown'.joins
    BY <1>27, RequestType DEF BeginShutdown
  <2>1. job[f] # "none" /\ state[f] # "TERMINAL"
    BY <1>27 DEF BeginShutdown, Open
  <2>2. Unfinished(f)
    BY <1>27, <2>1 DEF Born, Stages
  <2>3. Open(f)
    BY <1>27, <2>1, <2>2, RequestType DEF Open, KeyOf
  <2> QED
    BY <1>27, <2>1, <2>3 DEF BeginShutdown
<1>28. ASSUME RegistryInv, DrainInv, NEW f \in Calls, ShutdownCancels(f) PROVE DrainInv'
  BY <1>28 DEF ShutdownCancels, CancelJob
<1>29. ASSUME RegistryInv, DrainInv, NEW f \in Calls, ShutdownSettlesOrphan(f) PROVE DrainInv'
  BY <1>29 DEF ShutdownSettlesOrphan, Settle
<1>30. ASSUME RegistryInv, DrainInv, ShutdownReturns PROVE DrainInv'
  BY <1>30 DEF ShutdownReturns
<1>31. ASSUME RegistryInv, DrainInv, UNCHANGED vars PROVE DrainInv'
  BY <1>31 DEF vars
<1> QED
  BY <1>1, <1>2, <1>3, <1>4, <1>5, <1>6, <1>7, <1>8, <1>9, <1>10, <1>11, <1>12, <1>13, <1>14, <1>15, <1>16, <1>17, <1>18, <1>19, <1>20, <1>21, <1>22, <1>23, <1>24, <1>25, <1>26, <1>27, <1>28, <1>29, <1>30, <1>31
     DEF Next, Acquire, StartOwner, Handle, Owner, Shutdown

\* After shutdown() has returned no owner is at work, ever: it knew every job that
\* could still run, and a caller it overtook does not store another.
THEOREM ShutdownQuiet == SafeSpec => []QuietAfterShutdown
<1>1. Init => DrainInv
  BY DEF Init, DrainInv
<1>2. RegistryInv /\ DrainInv => QuietAfterShutdown
  BY DEF RegistryInv, TypeOK, Stages, FetchShape, AtWork, DrainInv, JobPending,
         JobComplete, QuietAfterShutdown
<1>3. QED
  BY <1>1, <1>2, RegistryCorrect, DrainStep, PTL DEF SafeSpec

-------------------------------------------------------------------------------
(* Demand.  Each place of a RUNNING fetch belongs to one caller and there is   *)
(* at least one (PlacesAreTaken), so that the handle that finds itself last    *)
(* is the last; a fetch that stops RUNNING has its reason recorded before its  *)
(* job is cancelled (CancelHasReason), and somebody to cancel the job          *)
(* (CancelIsComing); and it is never boarded again (LeftByAll).                *)

NoConsumers == "CANCELLED_NO_CONSUMERS"

\* Every place aboard a RUNNING fetch is somebody's, and there is at least one.
PlacesAreTaken ==
    \A f \in Calls : state[f] = "RUNNING" =>
        /\ consumers[f] # {}
        /\ \A x \in consumers[f] :
            \E c \in Calls : Aboard(c, f) /\ Request[c].consumer = x

\* Nobody is aboard a fetch that does not exist yet.
AboardIsBorn == \A c, f \in Calls : Aboard(c, f) => Born(f)

\* A fetch is cancelled for a reason, which is known before its job is.
CancelHasReason ==
    \A f \in Calls :
        /\ cancelled[f] \/ f \in shutdown.cancels
               \/ (\E c \in Calls : pc[c] = "cancelling" /\ on[c] = f)
           => cancelOutcome[f] # "none"
        /\ state[f] \in {"UNBORN", "RUNNING"} =>
               cancelOutcome[f] = "none" /\ outcome[f] # NoConsumers

\* A CANCELLING fetch with a job has somebody who has cancelled it or will.
CancelIsComing ==
    \A f \in Calls : state[f] = "CANCELLING" /\ job[f] \in {"lazy", "queued", "running"} =>
        \/ cancelled[f]
        \/ f \in shutdown.cancels
        \/ \E c \in Calls : pc[c] = "cancelling" /\ on[c] = f

\* A fetch that was left by everyone is not boarded again.
LeftByAll ==
    \A c, f \in Calls :
        cancelOutcome[f] = NoConsumers \/ outcome[f] = NoConsumers => ~Aboard(c, f)

DemandInv ==
    /\ AboardIsBorn
    /\ PlacesAreExclusive
    /\ PlacesAreTaken
    /\ PriorityCoversEveryone
    /\ CancelHasReason
    /\ CancelIsComing
    /\ LeftByAll

-------------------------------------------------------------------------------
\* A caller boards a fetch that is registered, or the one it creates.
LEMMA BornStep ==
    ASSUME RegistryInv, DemandInv, [Next]_vars
    PROVE  AboardIsBorn'
<1>. USE DEF RegistryInv, DemandInv, TypeOK, AboardIsBorn, Aboard, Born, CallShape,
             GoTo, fetchVars, ownerVars, brokerVars, callVars
<1>1. CASE UNCHANGED <<state, pc, on>>
  BY <1>1
<1>2. ASSUME NEW c \in Calls, AcquireOnClosed(c) PROVE AboardIsBorn'
  BY <1>2 DEF AcquireOnClosed, InAcquireLoop
<1>3. ASSUME NEW c \in Calls, AcquireNewOwner(c) PROVE AboardIsBorn'
  BY <1>3 DEF AcquireNewOwner, InAcquireLoop, Vacant, KeyOf
<1>4. ASSUME NEW c \in Calls, AcquireJoinsRunning(c) PROVE AboardIsBorn'
  BY <1>4 DEF AcquireJoinsRunning, Finds, InAcquireLoop, KeyOf
<1>5. ASSUME NEW c \in Calls, AcquireConflicts(c) PROVE AboardIsBorn'
  BY <1>5 DEF AcquireConflicts, Finds, InAcquireLoop
<1>6. ASSUME NEW c \in Calls, AcquireWaitsAtBarrier(c) PROVE AboardIsBorn'
  BY <1>6 DEF AcquireWaitsAtBarrier, Finds, InAcquireLoop
<1>7. ASSUME NEW c \in Calls, BarrierLifted(c) PROVE AboardIsBorn'
  BY <1>7 DEF BarrierLifted
<1>8. ASSUME NEW c \in Calls, BarrierAbandoned(c) PROVE AboardIsBorn'
  BY <1>8 DEF BarrierAbandoned
<1>9. ASSUME NEW c \in Calls, StoreOwnerJob(c) PROVE AboardIsBorn'
  BY <1>9 DEF StoreOwnerJob, ShouldStart
<1>10. ASSUME NEW c \in Calls, StartOwnerJob(c) PROVE AboardIsBorn'
  BY <1>10 DEF StartOwnerJob
<1>11. ASSUME NEW c \in Calls, HookRunsAtOnce(c) PROVE AboardIsBorn'
  BY <1>11 DEF HookRunsAtOnce, Settle
<1>12. ASSUME NEW c \in Calls, HookReturns(c) PROVE AboardIsBorn'
  BY <1>12 DEF HookReturns
<1>13. ASSUME NEW c \in Calls, AwaitReturns(c) PROVE AboardIsBorn'
  BY <1>13 DEF AwaitReturns, HasHandle
<1>14. ASSUME NEW c \in Calls, ReleaseOfTerminal(c) PROVE AboardIsBorn'
  BY <1>14 DEF ReleaseOfTerminal, HasHandle
<1>15. ASSUME NEW c \in Calls, ReleaseNotLast(c) PROVE AboardIsBorn'
  BY <1>15 DEF ReleaseNotLast, HasHandle, IsLast
<1>16. ASSUME NEW c \in Calls, ReleaseLast(c) PROVE AboardIsBorn'
  BY <1>16 DEF ReleaseLast, HasHandle, IsLast, Settle
<1>17. ASSUME NEW c \in Calls, CancelOwner(c) PROVE AboardIsBorn'
  BY <1>17 DEF CancelOwner, CancelJob
<1>18. ASSUME NEW f \in Calls, BecomeTerminal(f) PROVE AboardIsBorn'
  BY <1>18 DEF BecomeTerminal
<1>19. ASSUME BeginShutdown PROVE AboardIsBorn'
  BY <1>19 DEF BeginShutdown, Open
<1>. QED
  BY <1>1, <1>2, <1>3, <1>4, <1>5, <1>6, <1>7, <1>8, <1>9, <1>10, <1>11, <1>12, <1>13,
     <1>14, <1>15, <1>16, <1>17, <1>18, <1>19
  DEF vars, Next, Acquire, StartOwner, Handle, Owner, Shutdown, RaisePriority,
      CancelledBeforeBody, Settle, BodyBegins, StartPhysicalAttempt, FailsInPreflight,
      Ends, AttemptSucceeds, AttemptFails, ObservesCancellation, PublishResult,
      ShutdownReturns, ShutdownCancels, CancelJob, ShutdownSettlesOrphan

\* A join is refused to a consumer that is aboard, and a release gives up one place.
LEMMA ExclusiveStep ==
    ASSUME RegistryInv, DemandInv, [Next]_vars
    PROVE  PlacesAreExclusive'
<1>. USE RequestType DEF RegistryInv, DemandInv, TypeOK, PlacesAreExclusive, Aboard,
                         GoTo, fetchVars, ownerVars, brokerVars, callVars
<1>1. CASE UNCHANGED <<state, consumers, pc, on>>
  BY <1>1
<1>2. ASSUME NEW c \in Calls, AcquireOnClosed(c) PROVE PlacesAreExclusive'
  BY <1>2 DEF AcquireOnClosed, InAcquireLoop
<1>3. ASSUME NEW c \in Calls, AcquireNewOwner(c) PROVE PlacesAreExclusive'
  BY <1>3
  DEF AcquireNewOwner, InAcquireLoop, Vacant, KeyOf, AboardIsBorn, Born, CallShape
<1>4. ASSUME NEW c \in Calls, AcquireJoinsRunning(c) PROVE PlacesAreExclusive'
  BY <1>4 DEF AcquireJoinsRunning, Finds, InAcquireLoop, KeyOf, AlreadyAboard
<1>5. ASSUME NEW c \in Calls, AcquireConflicts(c) PROVE PlacesAreExclusive'
  BY <1>5 DEF AcquireConflicts, Finds, InAcquireLoop
<1>6. ASSUME NEW c \in Calls, AcquireWaitsAtBarrier(c) PROVE PlacesAreExclusive'
  BY <1>6 DEF AcquireWaitsAtBarrier, Finds, InAcquireLoop
<1>7. ASSUME NEW c \in Calls, BarrierLifted(c) PROVE PlacesAreExclusive'
  BY <1>7 DEF BarrierLifted
<1>8. ASSUME NEW c \in Calls, BarrierAbandoned(c) PROVE PlacesAreExclusive'
  BY <1>8 DEF BarrierAbandoned
<1>9. ASSUME NEW c \in Calls, StoreOwnerJob(c) PROVE PlacesAreExclusive'
  BY <1>9 DEF StoreOwnerJob, ShouldStart, CallShape
<1>10. ASSUME NEW c \in Calls, StartOwnerJob(c) PROVE PlacesAreExclusive'
  BY <1>10 DEF StartOwnerJob, CallShape
<1>11. ASSUME NEW c \in Calls, HookRunsAtOnce(c) PROVE PlacesAreExclusive'
  BY <1>11 DEF HookRunsAtOnce, Settle, CallShape
<1>12. ASSUME NEW c \in Calls, HookReturns(c) PROVE PlacesAreExclusive'
  BY <1>12 DEF HookReturns, CallShape
<1>13. ASSUME NEW c \in Calls, AwaitReturns(c) PROVE PlacesAreExclusive'
  BY <1>13 DEF AwaitReturns, HasHandle
<1>14. ASSUME NEW c \in Calls, ReleaseOfTerminal(c) PROVE PlacesAreExclusive'
  BY <1>14 DEF ReleaseOfTerminal, HasHandle
<1>15. ASSUME NEW c \in Calls, ReleaseNotLast(c) PROVE PlacesAreExclusive'
  BY <1>15 DEF ReleaseNotLast, HasHandle, IsLast
<1>16. ASSUME NEW c \in Calls, ReleaseLast(c) PROVE PlacesAreExclusive'
  <2>1. \A g \in Calls : state'[g] = "RUNNING" =>
            state[g] = "RUNNING" /\ consumers'[g] = consumers[g]
    BY <1>16 DEF ReleaseLast
  <2>2. \A d, g \in Calls : Aboard(d, g)' => Aboard(d, g)
    BY <1>16 DEF ReleaseLast
  <2>. QED
    BY <2>1, <2>2
<1>17. ASSUME NEW c \in Calls, CancelOwner(c) PROVE PlacesAreExclusive'
  BY <1>17 DEF CancelOwner, CancelJob
<1>18. ASSUME NEW f \in Calls, BecomeTerminal(f) PROVE PlacesAreExclusive'
  BY <1>18 DEF BecomeTerminal
<1>19. ASSUME NEW f \in Calls, PublishResult(f) PROVE PlacesAreExclusive'
  BY <1>19 DEF PublishResult, FetchShape
<1>20. ASSUME BeginShutdown PROVE PlacesAreExclusive'
  BY <1>20 DEF BeginShutdown, Open
<1>. QED
  BY <1>1, <1>2, <1>3, <1>4, <1>5, <1>6, <1>7, <1>8, <1>9, <1>10, <1>11, <1>12, <1>13,
     <1>14, <1>15, <1>16, <1>17, <1>18, <1>19, <1>20
  DEF vars, Next, Acquire, StartOwner, Handle, Owner, Shutdown, RaisePriority,
      CancelledBeforeBody, Settle, BodyBegins, StartPhysicalAttempt, FailsInPreflight,
      Ends, AttemptSucceeds, AttemptFails, ObservesCancellation, ShutdownReturns,
      ShutdownCancels, CancelJob, ShutdownSettlesOrphan

\* A place is taken with its caller and given up with it; the last one ends the RUNNING state.
LEMMA TakenStep ==
    ASSUME RegistryInv, DemandInv, [Next]_vars
    PROVE  PlacesAreTaken'
<1>. USE RequestType DEF RegistryInv, DemandInv, TypeOK, PlacesAreTaken, Aboard, GoTo,
                         fetchVars, ownerVars, brokerVars, callVars
<1>1. CASE UNCHANGED <<state, consumers, pc, on>>
  BY <1>1
<1>2. ASSUME NEW c \in Calls, AcquireOnClosed(c) PROVE PlacesAreTaken'
  BY <1>2 DEF AcquireOnClosed, InAcquireLoop
<1>3. ASSUME NEW c \in Calls, AcquireNewOwner(c) PROVE PlacesAreTaken'
  <2>1. Aboard(c, c)' /\ consumers'[c] = {Request[c].consumer}
    BY <1>3 DEF AcquireNewOwner
  <2>2. \A g \in Calls \ {c} : state'[g] = state[g] /\ consumers'[g] = consumers[g]
    BY <1>3 DEF AcquireNewOwner
  <2>3. \A d, g \in Calls : Aboard(d, g) => Aboard(d, g)'
    BY <1>3 DEF AcquireNewOwner, InAcquireLoop
  <2>. SUFFICES ASSUME NEW g \in Calls, state'[g] = "RUNNING"
                PROVE  /\ consumers'[g] # {}
                       /\ \A x \in consumers'[g] :
                           \E d \in Calls : Aboard(d, g)' /\ Request[d].consumer = x
    BY Zenon
  <2>4. CASE g = c
    BY <2>1, <2>4
  <2>5. CASE g # c
    BY <2>2, <2>3, <2>5
  <2>. QED
    BY <2>4, <2>5
<1>4. ASSUME NEW c \in Calls, AcquireJoinsRunning(c) PROVE PlacesAreTaken'
  BY <1>4 DEF AcquireJoinsRunning, Finds, InAcquireLoop, KeyOf
<1>5. ASSUME NEW c \in Calls, AcquireConflicts(c) PROVE PlacesAreTaken'
  BY <1>5 DEF AcquireConflicts, Finds, InAcquireLoop
<1>6. ASSUME NEW c \in Calls, AcquireWaitsAtBarrier(c) PROVE PlacesAreTaken'
  BY <1>6 DEF AcquireWaitsAtBarrier, Finds, InAcquireLoop
<1>7. ASSUME NEW c \in Calls, BarrierLifted(c) PROVE PlacesAreTaken'
  BY <1>7 DEF BarrierLifted
<1>8. ASSUME NEW c \in Calls, BarrierAbandoned(c) PROVE PlacesAreTaken'
  BY <1>8 DEF BarrierAbandoned
<1>9. ASSUME NEW c \in Calls, StoreOwnerJob(c) PROVE PlacesAreTaken'
  BY <1>9 DEF StoreOwnerJob, ShouldStart, CallShape
<1>10. ASSUME NEW c \in Calls, StartOwnerJob(c) PROVE PlacesAreTaken'
  BY <1>10 DEF StartOwnerJob, CallShape
<1>11. ASSUME NEW c \in Calls, HookRunsAtOnce(c) PROVE PlacesAreTaken'
  BY <1>11 DEF HookRunsAtOnce, Settle, CallShape
<1>12. ASSUME NEW c \in Calls, HookReturns(c) PROVE PlacesAreTaken'
  BY <1>12 DEF HookReturns, CallShape
<1>13. ASSUME NEW c \in Calls, AwaitReturns(c) PROVE PlacesAreTaken'
  BY <1>13 DEF AwaitReturns, HasHandle, FetchShape
<1>14. ASSUME NEW c \in Calls, ReleaseOfTerminal(c) PROVE PlacesAreTaken'
  BY <1>14 DEF ReleaseOfTerminal, HasHandle
<1>15. ASSUME NEW c \in Calls, ReleaseNotLast(c) PROVE PlacesAreTaken'
  BY <1>15 DEF ReleaseNotLast, HasHandle, IsLast
<1>16. ASSUME NEW c \in Calls, ReleaseLast(c) PROVE PlacesAreTaken'
  BY <1>16 DEF ReleaseLast, HasHandle, IsLast, Settle
<1>17. ASSUME NEW c \in Calls, CancelOwner(c) PROVE PlacesAreTaken'
  BY <1>17 DEF CancelOwner, CancelJob
<1>18. ASSUME NEW f \in Calls, BecomeTerminal(f) PROVE PlacesAreTaken'
  BY <1>18 DEF BecomeTerminal
<1>19. ASSUME NEW f \in Calls, PublishResult(f) PROVE PlacesAreTaken'
  BY <1>19 DEF PublishResult, FetchShape
<1>20. ASSUME BeginShutdown PROVE PlacesAreTaken'
  BY <1>20 DEF BeginShutdown, Open
<1>. QED
  BY <1>1, <1>2, <1>3, <1>4, <1>5, <1>6, <1>7, <1>8, <1>9, <1>10, <1>11, <1>12, <1>13,
     <1>14, <1>15, <1>16, <1>17, <1>18, <1>19, <1>20
  DEF vars, Next, Acquire, StartOwner, Handle, Owner, Shutdown, RaisePriority,
      CancelledBeforeBody, Settle, BodyBegins, StartPhysicalAttempt, FailsInPreflight,
      Ends, AttemptSucceeds, AttemptFails, ObservesCancellation, ShutdownReturns,
      ShutdownCancels, CancelJob, ShutdownSettlesOrphan

\* A join raises the priority to its own, and nothing lowers it.
LEMMA PriorityStep ==
    ASSUME RegistryInv, DemandInv, [Next]_vars
    PROVE  PriorityCoversEveryone'
<1>. USE RequestType DEF RegistryInv, DemandInv, TypeOK, PriorityCoversEveryone, Aboard,
                         Priorities, RESERVE, PLAYBACK, GoTo, fetchVars, ownerVars,
                         brokerVars, callVars
<1>1. CASE UNCHANGED <<state, priority, pc, on>>
  BY <1>1
<1>2. ASSUME NEW c \in Calls, AcquireOnClosed(c) PROVE PriorityCoversEveryone'
  BY <1>2 DEF AcquireOnClosed, InAcquireLoop
<1>3. ASSUME NEW c \in Calls, AcquireNewOwner(c) PROVE PriorityCoversEveryone'
  BY <1>3
  DEF AcquireNewOwner, InAcquireLoop, Vacant, KeyOf, AboardIsBorn, Born, CallShape
<1>4. ASSUME NEW c \in Calls, AcquireJoinsRunning(c) PROVE PriorityCoversEveryone'
  BY <1>4 DEF AcquireJoinsRunning, Finds, InAcquireLoop, KeyOf, PriorityAfterJoin
<1>5. ASSUME NEW c \in Calls, AcquireConflicts(c) PROVE PriorityCoversEveryone'
  BY <1>5 DEF AcquireConflicts, Finds, InAcquireLoop
<1>6. ASSUME NEW c \in Calls, AcquireWaitsAtBarrier(c) PROVE PriorityCoversEveryone'
  BY <1>6 DEF AcquireWaitsAtBarrier, Finds, InAcquireLoop
<1>7. ASSUME NEW c \in Calls, BarrierLifted(c) PROVE PriorityCoversEveryone'
  BY <1>7 DEF BarrierLifted
<1>8. ASSUME NEW c \in Calls, BarrierAbandoned(c) PROVE PriorityCoversEveryone'
  BY <1>8 DEF BarrierAbandoned
<1>9. ASSUME NEW c \in Calls, StoreOwnerJob(c) PROVE PriorityCoversEveryone'
  BY <1>9 DEF StoreOwnerJob, ShouldStart, CallShape
<1>10. ASSUME NEW c \in Calls, StartOwnerJob(c) PROVE PriorityCoversEveryone'
  BY <1>10 DEF StartOwnerJob, CallShape
<1>11. ASSUME NEW c \in Calls, HookRunsAtOnce(c) PROVE PriorityCoversEveryone'
  BY <1>11 DEF HookRunsAtOnce, Settle, CallShape
<1>12. ASSUME NEW c \in Calls, HookReturns(c) PROVE PriorityCoversEveryone'
  BY <1>12 DEF HookReturns, CallShape
<1>13. ASSUME NEW c \in Calls, AwaitReturns(c) PROVE PriorityCoversEveryone'
  BY <1>13 DEF AwaitReturns, HasHandle
<1>14. ASSUME NEW c \in Calls, ReleaseOfTerminal(c) PROVE PriorityCoversEveryone'
  BY <1>14 DEF ReleaseOfTerminal, HasHandle
<1>15. ASSUME NEW c \in Calls, ReleaseNotLast(c) PROVE PriorityCoversEveryone'
  BY <1>15 DEF ReleaseNotLast, HasHandle, IsLast
<1>16. ASSUME NEW c \in Calls, ReleaseLast(c) PROVE PriorityCoversEveryone'
  BY <1>16 DEF ReleaseLast, HasHandle, IsLast, Settle
<1>17. ASSUME NEW c \in Calls, CancelOwner(c) PROVE PriorityCoversEveryone'
  BY <1>17 DEF CancelOwner, CancelJob
<1>18. ASSUME NEW c \in Calls, RaisePriority(c) PROVE PriorityCoversEveryone'
  BY <1>18 DEF RaisePriority, HasHandle
<1>19. ASSUME NEW f \in Calls, BecomeTerminal(f) PROVE PriorityCoversEveryone'
  BY <1>19 DEF BecomeTerminal
<1>20. ASSUME BeginShutdown PROVE PriorityCoversEveryone'
  BY <1>20 DEF BeginShutdown, Open
<1>. QED
  BY <1>1, <1>2, <1>3, <1>4, <1>5, <1>6, <1>7, <1>8, <1>9, <1>10, <1>11, <1>12, <1>13,
     <1>14, <1>15, <1>16, <1>17, <1>18, <1>19, <1>20
  DEF vars, Next, Acquire, StartOwner, Handle, Owner, Shutdown, CancelledBeforeBody,
      Settle, BodyBegins, StartPhysicalAttempt, FailsInPreflight, Ends, AttemptSucceeds,
      AttemptFails, ObservesCancellation, PublishResult, ShutdownReturns,
      ShutdownCancels, CancelJob, ShutdownSettlesOrphan

\* The reason is recorded with the state, before the job is cancelled outside the lock.
LEMMA ReasonStep ==
    ASSUME RegistryInv, DemandInv, [Next]_vars
    PROVE  CancelHasReason'
<1>. USE DEF RegistryInv, DemandInv, TypeOK, CancelHasReason, NoConsumers,
             CancellationKinds, OutcomeKinds, GoTo, fetchVars, ownerVars, brokerVars,
             callVars
<1>1. CASE UNCHANGED <<cancelled, shutdown, pc, on, cancelOutcome, state, outcome>>
  BY <1>1
<1>2. ASSUME NEW c \in Calls, AcquireOnClosed(c) PROVE CancelHasReason'
  BY <1>2 DEF AcquireOnClosed, InAcquireLoop
<1>3. ASSUME NEW c \in Calls, AcquireNewOwner(c) PROVE CancelHasReason'
  BY <1>3 DEF AcquireNewOwner, InAcquireLoop, Vacant, KeyOf, CallShape, Born
<1>4. ASSUME NEW c \in Calls, AcquireJoinsRunning(c) PROVE CancelHasReason'
  BY <1>4 DEF AcquireJoinsRunning, Finds, InAcquireLoop, KeyOf
<1>5. ASSUME NEW c \in Calls, AcquireConflicts(c) PROVE CancelHasReason'
  BY <1>5 DEF AcquireConflicts, Finds, InAcquireLoop
<1>6. ASSUME NEW c \in Calls, AcquireWaitsAtBarrier(c) PROVE CancelHasReason'
  BY <1>6 DEF AcquireWaitsAtBarrier, Finds, InAcquireLoop
<1>7. ASSUME NEW c \in Calls, BarrierLifted(c) PROVE CancelHasReason'
  BY <1>7 DEF BarrierLifted
<1>8. ASSUME NEW c \in Calls, BarrierAbandoned(c) PROVE CancelHasReason'
  BY <1>8 DEF BarrierAbandoned
<1>9. ASSUME NEW c \in Calls, StoreOwnerJob(c) PROVE CancelHasReason'
  BY <1>9 DEF StoreOwnerJob, ShouldStart
<1>10. ASSUME NEW c \in Calls, StartOwnerJob(c) PROVE CancelHasReason'
  BY <1>10 DEF StartOwnerJob
<1>11. ASSUME NEW c \in Calls, HookRunsAtOnce(c) PROVE CancelHasReason'
  BY <1>11 DEF HookRunsAtOnce, Settle, CancelKind
<1>12. ASSUME NEW c \in Calls, HookReturns(c) PROVE CancelHasReason'
  BY <1>12 DEF HookReturns
<1>13. ASSUME NEW c \in Calls, AwaitReturns(c) PROVE CancelHasReason'
  BY <1>13 DEF AwaitReturns, HasHandle
<1>14. ASSUME NEW c \in Calls, ReleaseOfTerminal(c) PROVE CancelHasReason'
  BY <1>14 DEF ReleaseOfTerminal, HasHandle
<1>15. ASSUME NEW c \in Calls, ReleaseNotLast(c) PROVE CancelHasReason'
  BY <1>15 DEF ReleaseNotLast, HasHandle, IsLast
<1>16. ASSUME NEW c \in Calls, ReleaseLast(c) PROVE CancelHasReason'
  BY <1>16 DEF ReleaseLast, HasHandle, IsLast, Settle
<1>17. ASSUME NEW c \in Calls, CancelOwner(c) PROVE CancelHasReason'
  BY <1>17 DEF CancelOwner, CancelJob
<1>18. ASSUME NEW f \in Calls, CancelledBeforeBody(f) PROVE CancelHasReason'
  BY <1>18 DEF CancelledBeforeBody, Settle, CancelKind
<1>19. ASSUME NEW f \in Calls, FailsInPreflight(f) PROVE CancelHasReason'
  BY <1>19 DEF FailsInPreflight, Ends, Settle
<1>20. ASSUME NEW f \in Calls, AttemptSucceeds(f) PROVE CancelHasReason'
  BY <1>20 DEF AttemptSucceeds, Ends, Settle
<1>21. ASSUME NEW f \in Calls, AttemptFails(f) PROVE CancelHasReason'
  BY <1>21 DEF AttemptFails, Ends, Settle
<1>22. ASSUME NEW f \in Calls, ObservesCancellation(f) PROVE CancelHasReason'
  BY <1>22 DEF ObservesCancellation, Ends, Settle, CancelKind
<1>23. ASSUME NEW f \in Calls, BecomeTerminal(f) PROVE CancelHasReason'
  BY <1>23 DEF BecomeTerminal
<1>24. ASSUME BeginShutdown PROVE CancelHasReason'
  BY <1>24 DEF BeginShutdown, Open
<1>25. ASSUME ShutdownReturns PROVE CancelHasReason'
  BY <1>25 DEF ShutdownReturns
<1>26. ASSUME NEW f \in Calls, ShutdownCancels(f) PROVE CancelHasReason'
  BY <1>26 DEF ShutdownCancels, CancelJob
<1>27. ASSUME NEW f \in Calls, ShutdownSettlesOrphan(f) PROVE CancelHasReason'
  BY <1>27 DEF ShutdownSettlesOrphan, Settle
<1>. QED
  BY <1>1, <1>2, <1>3, <1>4, <1>5, <1>6, <1>7, <1>8, <1>9, <1>10, <1>11, <1>12, <1>13,
     <1>14, <1>15, <1>16, <1>17, <1>18, <1>19, <1>20, <1>21, <1>22, <1>23, <1>24, <1>25,
     <1>26, <1>27
  DEF vars, Next, Acquire, StartOwner, Handle, Owner, Shutdown, RaisePriority,
      BodyBegins, StartPhysicalAttempt, PublishResult

\* The last caller, or shutdown(), is on its way to cancel the job of a fetch it made CANCELLING.
LEMMA ComingStep ==
    ASSUME RegistryInv, DemandInv, [Next]_vars
    PROVE  CancelIsComing'
<1>. USE RequestType DEF RegistryInv, DemandInv, TypeOK, CancelIsComing, Jobs, GoTo,
                         fetchVars, ownerVars, brokerVars, callVars
<1>1. CASE UNCHANGED <<state, job, cancelled, shutdown, pc, on>>
  BY <1>1
<1>2. ASSUME NEW c \in Calls, AcquireOnClosed(c) PROVE CancelIsComing'
  BY <1>2 DEF AcquireOnClosed, InAcquireLoop
<1>3. ASSUME NEW c \in Calls, AcquireNewOwner(c) PROVE CancelIsComing'
  BY <1>3 DEF AcquireNewOwner, InAcquireLoop, Vacant, KeyOf
<1>4. ASSUME NEW c \in Calls, AcquireJoinsRunning(c) PROVE CancelIsComing'
  BY <1>4 DEF AcquireJoinsRunning, Finds, InAcquireLoop, KeyOf
<1>5. ASSUME NEW c \in Calls, AcquireConflicts(c) PROVE CancelIsComing'
  BY <1>5 DEF AcquireConflicts, Finds, InAcquireLoop
<1>6. ASSUME NEW c \in Calls, AcquireWaitsAtBarrier(c) PROVE CancelIsComing'
  BY <1>6 DEF AcquireWaitsAtBarrier, Finds, InAcquireLoop
<1>7. ASSUME NEW c \in Calls, BarrierLifted(c) PROVE CancelIsComing'
  BY <1>7 DEF BarrierLifted
<1>8. ASSUME NEW c \in Calls, BarrierAbandoned(c) PROVE CancelIsComing'
  BY <1>8 DEF BarrierAbandoned
<1>9. ASSUME NEW c \in Calls, StoreOwnerJob(c) PROVE CancelIsComing'
  BY <1>9 DEF StoreOwnerJob, ShouldStart
<1>10. ASSUME NEW c \in Calls, StartOwnerJob(c) PROVE CancelIsComing'
  BY <1>10 DEF StartOwnerJob, CallShape
<1>11. ASSUME NEW c \in Calls, HookRunsAtOnce(c) PROVE CancelIsComing'
  BY <1>11 DEF HookRunsAtOnce, Settle
<1>12. ASSUME NEW c \in Calls, HookReturns(c) PROVE CancelIsComing'
  BY <1>12 DEF HookReturns
<1>13. ASSUME NEW c \in Calls, AwaitReturns(c) PROVE CancelIsComing'
  BY <1>13 DEF AwaitReturns, HasHandle
<1>14. ASSUME NEW c \in Calls, ReleaseOfTerminal(c) PROVE CancelIsComing'
  BY <1>14 DEF ReleaseOfTerminal, HasHandle
<1>15. ASSUME NEW c \in Calls, ReleaseNotLast(c) PROVE CancelIsComing'
  BY <1>15 DEF ReleaseNotLast, HasHandle, IsLast
<1>16. ASSUME NEW c \in Calls, ReleaseLast(c) PROVE CancelIsComing'
  BY <1>16 DEF ReleaseLast, HasHandle, IsLast, Settle
<1>17. ASSUME NEW c \in Calls, CancelOwner(c) PROVE CancelIsComing'
  BY <1>17 DEF CancelOwner, CancelJob
<1>18. ASSUME NEW f \in Calls, CancelledBeforeBody(f) PROVE CancelIsComing'
  BY <1>18 DEF CancelledBeforeBody, Settle
<1>19. ASSUME NEW f \in Calls, BodyBegins(f) PROVE CancelIsComing'
  BY <1>19 DEF BodyBegins
<1>20. ASSUME NEW f \in Calls, BecomeTerminal(f) PROVE CancelIsComing'
  BY <1>20 DEF BecomeTerminal
<1>21. ASSUME NEW f \in Calls, PublishResult(f) PROVE CancelIsComing'
  BY <1>21 DEF PublishResult
<1>22. ASSUME BeginShutdown PROVE CancelIsComing'
  <2>1. ASSUME NEW f \in Calls, state[f] = "CANCELLING" PROVE Open(f)
    BY <2>1 DEF Open, FetchShape, RegistryShape, Unfinished, KeyOf, Stages
  <2>2. ASSUME NEW f \in Calls, Open(f), job[f] # "none" PROVE f \in shutdown'.cancels
    BY <1>22, <2>2 DEF BeginShutdown
  <2>. QED
    BY <1>22, <2>1, <2>2 DEF BeginShutdown
<1>23. ASSUME ShutdownReturns PROVE CancelIsComing'
  BY <1>23 DEF ShutdownReturns
<1>24. ASSUME NEW f \in Calls, ShutdownCancels(f) PROVE CancelIsComing'
  BY <1>24 DEF ShutdownCancels, CancelJob
<1>. QED
  BY <1>1, <1>2, <1>3, <1>4, <1>5, <1>6, <1>7, <1>8, <1>9, <1>10, <1>11, <1>12, <1>13,
     <1>14, <1>15, <1>16, <1>17, <1>18, <1>19, <1>20, <1>21, <1>22, <1>23, <1>24
  DEF vars, Next, Acquire, StartOwner, Handle, Owner, Shutdown, RaisePriority,
      StartPhysicalAttempt, FailsInPreflight, Ends, Settle, AttemptSucceeds,
      AttemptFails, ObservesCancellation, ShutdownSettlesOrphan

\* Only the last one to leave records that nobody is left, and after that nobody boards.
LEMMA LeftStep ==
    ASSUME RegistryInv, DemandInv, [Next]_vars
    PROVE  LeftByAll'
<1>. USE DEF RegistryInv, DemandInv, TypeOK, LeftByAll, Aboard, NoConsumers, GoTo,
             fetchVars, ownerVars, brokerVars, callVars
<1>1. CASE UNCHANGED <<cancelOutcome, outcome, pc, on>>
  BY <1>1
<1>2. ASSUME NEW c \in Calls, AcquireOnClosed(c) PROVE LeftByAll'
  BY <1>2 DEF AcquireOnClosed, InAcquireLoop
<1>3. ASSUME NEW c \in Calls, AcquireNewOwner(c) PROVE LeftByAll'
  BY <1>3
  DEF AcquireNewOwner, InAcquireLoop, Vacant, KeyOf, CancelHasReason, CallShape, Born
<1>4. ASSUME NEW c \in Calls, AcquireJoinsRunning(c) PROVE LeftByAll'
  BY <1>4 DEF AcquireJoinsRunning, Finds, InAcquireLoop, KeyOf, CancelHasReason
<1>5. ASSUME NEW c \in Calls, AcquireConflicts(c) PROVE LeftByAll'
  BY <1>5 DEF AcquireConflicts, Finds, InAcquireLoop
<1>6. ASSUME NEW c \in Calls, AcquireWaitsAtBarrier(c) PROVE LeftByAll'
  BY <1>6 DEF AcquireWaitsAtBarrier, Finds, InAcquireLoop
<1>7. ASSUME NEW c \in Calls, BarrierLifted(c) PROVE LeftByAll'
  BY <1>7 DEF BarrierLifted
<1>8. ASSUME NEW c \in Calls, BarrierAbandoned(c) PROVE LeftByAll'
  BY <1>8 DEF BarrierAbandoned
<1>9. ASSUME NEW c \in Calls, StoreOwnerJob(c) PROVE LeftByAll'
  BY <1>9 DEF StoreOwnerJob, ShouldStart, CallShape
<1>10. ASSUME NEW c \in Calls, StartOwnerJob(c) PROVE LeftByAll'
  BY <1>10 DEF StartOwnerJob, CallShape
<1>11. ASSUME NEW c \in Calls, HookRunsAtOnce(c) PROVE LeftByAll'
  BY <1>11 DEF HookRunsAtOnce, Settle, CallShape, CancelKind, CancelHasReason
<1>12. ASSUME NEW c \in Calls, HookReturns(c) PROVE LeftByAll'
  BY <1>12 DEF HookReturns, CallShape
<1>13. ASSUME NEW c \in Calls, AwaitReturns(c) PROVE LeftByAll'
  BY <1>13 DEF AwaitReturns, HasHandle
<1>14. ASSUME NEW c \in Calls, ReleaseOfTerminal(c) PROVE LeftByAll'
  BY <1>14 DEF ReleaseOfTerminal, HasHandle
<1>15. ASSUME NEW c \in Calls, ReleaseNotLast(c) PROVE LeftByAll'
  BY <1>15 DEF ReleaseNotLast, HasHandle, IsLast
<1>16. ASSUME NEW c \in Calls, ReleaseLast(c) PROVE LeftByAll'
  BY <1>16 DEF ReleaseLast, HasHandle, IsLast, Settle, PlacesAreExclusive
<1>17. ASSUME NEW c \in Calls, CancelOwner(c) PROVE LeftByAll'
  BY <1>17 DEF CancelOwner, CancelJob
<1>18. ASSUME NEW f \in Calls, CancelledBeforeBody(f) PROVE LeftByAll'
  BY <1>18 DEF CancelledBeforeBody, Settle, CancelKind, CancelHasReason
<1>19. ASSUME NEW f \in Calls, FailsInPreflight(f) PROVE LeftByAll'
  BY <1>19 DEF FailsInPreflight, Ends, Settle
<1>20. ASSUME NEW f \in Calls, AttemptSucceeds(f) PROVE LeftByAll'
  BY <1>20 DEF AttemptSucceeds, Ends, Settle
<1>21. ASSUME NEW f \in Calls, AttemptFails(f) PROVE LeftByAll'
  BY <1>21 DEF AttemptFails, Ends, Settle
<1>22. ASSUME NEW f \in Calls, ObservesCancellation(f) PROVE LeftByAll'
  BY <1>22 DEF ObservesCancellation, Ends, Settle, CancelKind, CancelHasReason
<1>23. ASSUME BeginShutdown PROVE LeftByAll'
  BY <1>23 DEF BeginShutdown, Open
<1>24. ASSUME NEW f \in Calls, ShutdownSettlesOrphan(f) PROVE LeftByAll'
  BY <1>24 DEF ShutdownSettlesOrphan, Settle
<1>. QED
  BY <1>1, <1>2, <1>3, <1>4, <1>5, <1>6, <1>7, <1>8, <1>9, <1>10, <1>11, <1>12, <1>13,
     <1>14, <1>15, <1>16, <1>17, <1>18, <1>19, <1>20, <1>21, <1>22, <1>23, <1>24
  DEF vars, Next, Acquire, StartOwner, Handle, Owner, Shutdown, RaisePriority,
      BodyBegins, StartPhysicalAttempt, BecomeTerminal, PublishResult, ShutdownReturns,
      ShutdownCancels, CancelJob

LEMMA DemandInit == Init => DemandInv
BY DEF Init, DemandInv, AboardIsBorn, PlacesAreExclusive, PlacesAreTaken,
       PriorityCoversEveryone, CancelHasReason, CancelIsComing, LeftByAll, Aboard, NoConsumers

LEMMA DemandCorrect == SafeSpec => [](RegistryInv /\ DemandInv)
<1>1. RegistryInv /\ DemandInv /\ [Next]_vars => DemandInv'
  BY BornStep, ExclusiveStep, TakenStep, PriorityStep, ReasonStep, ComingStep, LeftStep
  DEF DemandInv
<1>2. Init => DemandInv
  BY DemandInit
<1>. QED
  BY <1>1, <1>2, RegistryCorrect, PTL DEF SafeSpec

\* Two handles never share a place aboard a RUNNING fetch, and each has one: releasing a
\* handle cannot drop another caller's demand.
THEOREM ExclusivePlaces == SafeSpec => []PlacesAreExclusive
<1>1. DemandInv => PlacesAreExclusive
  BY DEF DemandInv
<1>. QED
  BY <1>1, DemandCorrect, PTL

\* A RUNNING fetch has the priority of the most urgent caller aboard, whoever joined,
\* left or raised it in whatever order.
THEOREM PriorityCovers == SafeSpec => []PriorityCoversEveryone
<1>1. DemandInv => PriorityCoversEveryone
  BY DEF DemandInv
<1>. QED
  BY <1>1, DemandCorrect, PTL

\* Nobody aboard a fetch is told that there was nobody.
THEOREM NobodyIsAbandoned == SafeSpec => []NobodyAbandoned
<1>1. DemandInv => NobodyAbandoned
  BY DEF DemandInv, LeftByAll, NobodyAbandoned, NoConsumers
<1>. QED
  BY <1>1, DemandCorrect, PTL

\* An owner at work is wanted by somebody aboard, or its cancellation has come or is
\* on its way: no fetch is left running for nobody.
THEOREM WorkIsWanted == SafeSpec => []NoUnwantedWork
<1>1. ASSUME RegistryInv, DemandInv, NEW f \in Calls, AtWork(f)
      PROVE  \/ \E c \in Calls : Aboard(c, f)
             \/ cancelled[f]
             \/ f \in shutdown.cancels
             \/ \E c \in Calls : pc[c] = "cancelling" /\ on[c] = f
  <2>1. job[f] = "running" /\ state[f] \in {"RUNNING", "CANCELLING"}
    BY <1>1 DEF RegistryInv, TypeOK, States, FetchShape, Born, AtWork
  <2>2. CASE state[f] = "RUNNING"
    BY <1>1, <2>2 DEF DemandInv, PlacesAreTaken, RegistryInv, TypeOK
  <2>3. CASE state[f] = "CANCELLING"
    BY <1>1, <2>1, <2>3 DEF DemandInv, CancelIsComing
  <2>. QED
    BY <2>1, <2>2, <2>3
<1>2. RegistryInv /\ DemandInv => NoUnwantedWork
  BY <1>1 DEF NoUnwantedWork
<1>. QED
  BY <1>2, DemandCorrect, PTL

-------------------------------------------------------------------------------
(* FetchBroker implements SingleFlight: the initial state is one of a registry *)
(* without flights, and every step of a caller, an owner or shutdown() opens,  *)
(* boards, leaves, drains or lands a flight, or changes nothing that           *)
(* SingleFlight speaks of.                                                     *)

phaseOf == [f \in Calls |-> FlightPhase(f)]
ridersOf == [f \in Calls |-> {c \in Calls : Aboard(c, f)}]
OutcomeOf(f) == IF stage[f] = "done" THEN outcome[f] ELSE "none"
outcomeOf == [f \in Calls |-> OutcomeOf(f)]

\* An owner that has settled has an outcome.
OutcomeKnown ==
    \A f \in Calls : stage[f] \in {"settling", "publishing", "done"} => outcome[f] \in OutcomeKinds

RefinementInv == RegistryInv /\ DemandInv /\ OutcomeKnown

-------------------------------------------------------------------------------
\* An owner settles with one of the kinds of outcome, and publishes that.
LEMMA OutcomeStep ==
    ASSUME RegistryInv, OutcomeKnown, [Next]_vars
    PROVE  OutcomeKnown'
<1>. USE DEF RegistryInv, TypeOK, OutcomeKnown, OutcomeKinds,
             CancellationKinds, GoTo, fetchVars, ownerVars, brokerVars, callVars
<1>1. CASE UNCHANGED <<stage, outcome>>
  BY <1>1
<1>2. ASSUME NEW c \in Calls, HookRunsAtOnce(c) PROVE OutcomeKnown'
  BY <1>2 DEF HookRunsAtOnce, Settle, CancelKind
<1>3. ASSUME NEW c \in Calls, ReleaseLast(c) PROVE OutcomeKnown'
  BY <1>3 DEF ReleaseLast, HasHandle, IsLast, Settle
<1>4. ASSUME NEW f \in Calls, CancelledBeforeBody(f) PROVE OutcomeKnown'
  BY <1>4 DEF CancelledBeforeBody, Settle, CancelKind
<1>5. ASSUME NEW f \in Calls, BodyBegins(f) PROVE OutcomeKnown'
  BY <1>5 DEF BodyBegins
<1>6. ASSUME NEW f \in Calls, StartPhysicalAttempt(f) PROVE OutcomeKnown'
  BY <1>6 DEF StartPhysicalAttempt
<1>7. ASSUME NEW f \in Calls, FailsInPreflight(f) PROVE OutcomeKnown'
  BY <1>7 DEF FailsInPreflight, Ends, Settle
<1>8. ASSUME NEW f \in Calls, AttemptSucceeds(f) PROVE OutcomeKnown'
  BY <1>8 DEF AttemptSucceeds, Ends, Settle
<1>9. ASSUME NEW f \in Calls, AttemptFails(f) PROVE OutcomeKnown'
  BY <1>9 DEF AttemptFails, Ends, Settle
<1>10. ASSUME NEW f \in Calls, ObservesCancellation(f) PROVE OutcomeKnown'
  BY <1>10 DEF ObservesCancellation, Ends, Settle, CancelKind
<1>11. ASSUME NEW f \in Calls, BecomeTerminal(f) PROVE OutcomeKnown'
  BY <1>11 DEF BecomeTerminal
<1>12. ASSUME NEW f \in Calls, PublishResult(f) PROVE OutcomeKnown'
  BY <1>12 DEF PublishResult
<1>13. ASSUME NEW f \in Calls, ShutdownSettlesOrphan(f) PROVE OutcomeKnown'
  BY <1>13 DEF ShutdownSettlesOrphan, Settle
<1>. QED
  BY <1>1, <1>2, <1>3, <1>4, <1>5, <1>6, <1>7, <1>8, <1>9, <1>10, <1>11, <1>12, <1>13
  DEF vars, Next, Acquire, StartOwner, Handle, Owner, Shutdown, AcquireOnClosed,
      AcquireNewOwner, AcquireJoinsRunning, AcquireConflicts, AcquireWaitsAtBarrier,
      BarrierLifted, BarrierAbandoned, StoreOwnerJob, StartOwnerJob, HookReturns,
      AwaitReturns, ReleaseOfTerminal, ReleaseNotLast, CancelOwner, CancelJob,
      RaisePriority, BeginShutdown, ShutdownReturns, ShutdownCancels

LEMMA RefinementInvariant == SafeSpec => []RefinementInv
<1>1. Init => OutcomeKnown
  BY DEF Init, OutcomeKnown
<1>2. RegistryInv /\ OutcomeKnown /\ [Next]_vars => OutcomeKnown'
  BY OutcomeStep
<1>. QED
  BY <1>1, <1>2, RegistryCorrect, DemandCorrect, PTL DEF SafeSpec, RefinementInv

\* What a step leaves alone, seen through the mapping.
LEMMA Silent ==
    ASSUME \A f \in Calls : FlightPhase(f)' = FlightPhase(f) /\ OutcomeOf(f)' = OutcomeOf(f),
           \A c, f \in Calls : Aboard(c, f)' <=> Aboard(c, f)
    PROVE  UNCHANGED <<phaseOf, ridersOf, outcomeOf>>
BY DEF phaseOf, ridersOf, outcomeOf

\* A caller whose place and fetch stay those of somebody aboard, or of nobody aboard.
LEMMA AboardAfterMove ==
    ASSUME TypeOK, NEW c \in Calls, NEW place, NEW f, GoTo(c, place, f)
    PROVE  \A d, g \in Calls :
               Aboard(d, g)' <=>
                   IF d = c THEN f = g /\ place \in {"starting", "arming", "hooking", "holding"}
                   ELSE Aboard(d, g)
BY DEF TypeOK, GoTo, Aboard

\* A fetch that nobody else is aboard of.
LEMMA LastIsAlone ==
    ASSUME RefinementInv, NEW c \in Calls, NEW f \in Calls, HasHandle(c, f), IsLast(c, f)
    PROVE  ridersOf[f] = {c}
<1>1. \A d \in Calls : Aboard(d, f) => Request[d].consumer \in consumers[f]
  BY DEF RefinementInv, DemandInv, PlacesAreExclusive, IsLast
<1>2. \A d \in Calls : Aboard(d, f) => d = c
  BY <1>1 DEF RefinementInv, DemandInv, PlacesAreExclusive, IsLast, HasHandle, Aboard
<1>3. Aboard(c, f)
  BY DEF HasHandle, Aboard
<1>. QED
  BY <1>2, <1>3 DEF ridersOf

-------------------------------------------------------------------------------
(* The steps that are steps of SingleFlight *)

LEMMA NewOwnerOpens ==
    ASSUME RefinementInv, NEW c \in Calls, AcquireNewOwner(c)
    PROVE  Flight!Open(c, c)
<1>. USE DEF RefinementInv, RegistryInv, TypeOK
<1>1. ~Born(c)
  BY DEF AcquireNewOwner, InAcquireLoop, CallShape
<1>2. stage[c] = "idle" /\ phaseOf[c] = "planned"
  BY <1>1 DEF FetchShape, Born, phaseOf, FlightPhase
<1>3. \A g \in Calls : KeyOf(g) = KeyOf(c) => phaseOf[g] \notin {"open", "draining"}
  <2>. SUFFICES ASSUME NEW g \in Calls, KeyOf(g) = KeyOf(c)
                PROVE  phaseOf[g] \notin {"open", "draining"}
    OBVIOUS
  <2>1. ~Unfinished(g)
    BY NoneAssumption DEF AcquireNewOwner, Vacant, RegistryShape
  <2>2. FetchShape(g)
    OBVIOUS
  <2>. QED
    BY <2>1, <2>2 DEF phaseOf, FlightPhase, Unfinished, FetchShape
<1>4. phaseOf' = [phaseOf EXCEPT ![c] = "open"]
  <2>1. FlightPhase(c)' = "open"
    BY DEF AcquireNewOwner, FlightPhase
  <2>2. \A g \in Calls \ {c} : FlightPhase(g)' = FlightPhase(g)
    BY DEF AcquireNewOwner, FlightPhase, ownerVars
  <2>. QED
    BY <2>1, <2>2 DEF phaseOf
<1>5. outcomeOf' = outcomeOf
  BY DEF AcquireNewOwner, outcomeOf, OutcomeOf, ownerVars
<1>6. \A d \in Calls : ~Aboard(d, c)
  BY <1>1 DEF DemandInv, AboardIsBorn
<1>7. \A d, g \in Calls : Aboard(d, g)' <=> IF d = c THEN c = g ELSE Aboard(d, g)
  BY AboardAfterMove DEF AcquireNewOwner
<1>8. \A g \in Calls : ~Aboard(c, g)
  BY DEF AcquireNewOwner, InAcquireLoop, Aboard
<1>9. ridersOf' = [ridersOf EXCEPT ![c] = {c}]
  <2>1. {d \in Calls : Aboard(d, c)}' = {c}
    BY <1>6, <1>7
  <2>2. ASSUME NEW g \in Calls, g # c
        PROVE  {d \in Calls : Aboard(d, g)}' = {d \in Calls : Aboard(d, g)}
    <3>1. \A d \in Calls : Aboard(d, g)' <=> Aboard(d, g)
      BY <1>7, <1>8, <2>2
    <3>. QED
      BY <3>1
  <2>. QED
    BY <2>1, <2>2 DEF ridersOf
<1>. QED
  BY <1>2, <1>3, <1>4, <1>5, <1>9
  DEF Flight!Open, Flight!InAir, phaseOf, ridersOf, outcomeOf, OutcomeOf

LEMMA JoinBoards ==
    ASSUME RefinementInv, NEW c \in Calls, AcquireJoinsRunning(c)
    PROVE  \E f \in Calls : Flight!Board(f, c)
<1>1. PICK f \in Calls : /\ Finds(c, f)
                         /\ state[f] = "RUNNING"
                         /\ GoTo(c, "holding", f)
                         /\ UNCHANGED <<state, ownerVars>>
  BY DEF AcquireJoinsRunning
<1>2. \A d, g \in Calls : Aboard(d, g)' <=> IF d = c THEN f = g ELSE Aboard(d, g)
  BY <1>1, AboardAfterMove DEF RefinementInv, RegistryInv
<1>3. \A g \in Calls : ~Aboard(c, g)
  BY <1>1 DEF Finds, InAcquireLoop, Aboard
<1>4. phaseOf' = phaseOf /\ outcomeOf' = outcomeOf
  BY <1>1 DEF phaseOf, outcomeOf, OutcomeOf, FlightPhase, ownerVars
<1>5. phaseOf[f] = "open"
  BY <1>1 DEF phaseOf, FlightPhase
<1>6. ridersOf' = [ridersOf EXCEPT ![f] = @ \union {c}]
  BY <1>2, <1>3 DEF ridersOf
<1>. QED
  BY <1>4, <1>5, <1>6 DEF Flight!Board, phaseOf, ridersOf, outcomeOf, OutcomeOf

\* A caller that gives up its handle leaves its flight, which drains if it was the last.
LEMMA GivingUpLeaves ==
    ASSUME RefinementInv, NEW c \in Calls, NEW f \in Calls, HasHandle(c, f),
           NEW place \in {"cancelling", "ended"}, NEW g, GoTo(c, place, g),
           outcomeOf' = outcomeOf,
           phaseOf' = IF phaseOf[f] = "open" /\ ridersOf[f] = {c}
                      THEN [phaseOf EXCEPT ![f] = "draining"]
                      ELSE phaseOf
    PROVE  Flight!Leave(f, c)
<1>1. \A d, h \in Calls : Aboard(d, h)' <=> d # c /\ Aboard(d, h)
  BY AboardAfterMove DEF RefinementInv, RegistryInv
<1>2. \A h \in Calls : Aboard(c, h) <=> h = f
  BY DEF HasHandle, Aboard
<1>3. ridersOf' = [ridersOf EXCEPT ![f] = @ \ {c}] /\ c \in ridersOf[f]
  BY <1>1, <1>2 DEF ridersOf
<1>. QED
  BY <1>3 DEF Flight!Leave, phaseOf, ridersOf, outcomeOf, OutcomeOf

LEMMA ReturnOrReleaseLeaves ==
    ASSUME RefinementInv, NEW c \in Calls, AwaitReturns(c) \/ ReleaseOfTerminal(c)
    PROVE  \E f \in Calls : Flight!Leave(f, c)
<1>1. PICK f \in Calls : /\ HasHandle(c, f)
                         /\ stage[f] = "done" \/ state[f] = "TERMINAL"
                         /\ GoTo(c, "ended", None)
                         /\ UNCHANGED <<fetchVars, ownerVars>>
  BY DEF AwaitReturns, ReleaseOfTerminal
<1>2. phaseOf' = phaseOf /\ outcomeOf' = outcomeOf
  BY <1>1 DEF phaseOf, outcomeOf, OutcomeOf, FlightPhase, fetchVars, ownerVars
<1>3. state[f] = "TERMINAL"
  BY <1>1 DEF RefinementInv, RegistryInv, FetchShape
<1>4. phaseOf[f] # "open"
  BY <1>3 DEF phaseOf, FlightPhase
<1>. QED
  BY <1>1, <1>2, <1>4, GivingUpLeaves

LEMMA ReleaseNotLastLeaves ==
    ASSUME RefinementInv, NEW c \in Calls, ReleaseNotLast(c)
    PROVE  \E f \in Calls : Flight!Leave(f, c)
<1>1. PICK f \in Calls : /\ HasHandle(c, f)
                         /\ ~IsLast(c, f)
                         /\ GoTo(c, "ended", None)
                         /\ UNCHANGED <<state, ownerVars>>
  BY DEF ReleaseNotLast
<1>2. phaseOf' = phaseOf /\ outcomeOf' = outcomeOf
  BY <1>1 DEF phaseOf, outcomeOf, OutcomeOf, FlightPhase, ownerVars
<1>3. ASSUME phaseOf[f] = "open" PROVE ridersOf[f] # {c}
  <2>1. state[f] = "RUNNING"
    BY <1>3 DEF phaseOf, FlightPhase
  <2>2. PICK x \in consumers[f] : x # Request[c].consumer
    BY <1>1, <2>1 DEF IsLast, RefinementInv, DemandInv, PlacesAreTaken
  <2>3. PICK d \in Calls : Aboard(d, f) /\ Request[d].consumer = x
    BY <2>1, <2>2 DEF RefinementInv, DemandInv, PlacesAreTaken
  <2>. QED
    BY <2>2, <2>3 DEF ridersOf
<1>. QED
  BY <1>1, <1>2, <1>3, GivingUpLeaves

LEMMA ReleaseLastLeaves ==
    ASSUME RefinementInv, NEW c \in Calls, ReleaseLast(c)
    PROVE  \E f \in Calls : Flight!Leave(f, c)
<1>. USE DEF RefinementInv, RegistryInv, TypeOK
<1>1. PICK f \in Calls : /\ HasHandle(c, f)
                         /\ IsLast(c, f)
                         /\ state' = [state EXCEPT ![f] = "CANCELLING"]
                         /\ \/ Settle(f, "CANCELLED_NO_CONSUMERS") /\ GoTo(c, "ended", None)
                            \/ UNCHANGED <<stage, outcome>> /\ GoTo(c, "cancelling", f)
  BY DEF ReleaseLast
<1>2. state[f] = "RUNNING" /\ stage[f] # "done" /\ stage'[f] # "done"
  BY <1>1 DEF IsLast, FetchShape, Settle
<1>3. \A g \in Calls \ {f} : stage'[g] = stage[g] /\ outcome'[g] = outcome[g]
  BY <1>1 DEF Settle
<1>4. outcomeOf' = outcomeOf
  <2>1. \A g \in Calls : OutcomeOf(g)' = OutcomeOf(g)
    BY <1>2, <1>3 DEF OutcomeOf
  <2>. QED
    BY <2>1 DEF outcomeOf
<1>5. phaseOf' = [phaseOf EXCEPT ![f] = "draining"]
  <2>1. FlightPhase(f)' = "draining"
    BY <1>1, <1>2 DEF FlightPhase
  <2>2. \A g \in Calls \ {f} : FlightPhase(g)' = FlightPhase(g)
    BY <1>1, <1>3 DEF FlightPhase
  <2>. QED
    BY <2>1, <2>2 DEF phaseOf
<1>6. phaseOf[f] = "open" /\ ridersOf[f] = {c}
  BY <1>1, <1>2, LastIsAlone DEF phaseOf, FlightPhase
<1>. QED
  BY <1>1, <1>4, <1>5, <1>6, GivingUpLeaves

LEMMA TerminalDrains ==
    ASSUME RefinementInv, NEW f \in Calls, BecomeTerminal(f)
    PROVE  Flight!Drain({f}) \/ UNCHANGED <<phaseOf, ridersOf, outcomeOf>>
<1>. USE DEF RefinementInv, RegistryInv, TypeOK
<1>1. ridersOf' = ridersOf /\ outcomeOf' = outcomeOf
  BY DEF BecomeTerminal, callVars, ridersOf, outcomeOf, OutcomeOf, Aboard
<1>2. FlightPhase(f)' = "draining" /\ FlightPhase(f) \in {"open", "draining"}
  BY DEF BecomeTerminal, FlightPhase, FetchShape, Born
<1>3. \A g \in Calls \ {f} : FlightPhase(g)' = FlightPhase(g)
  BY DEF BecomeTerminal, FlightPhase
<1>4. CASE FlightPhase(f) = "open"
  BY <1>1, <1>2, <1>3, <1>4 DEF Flight!Drain, phaseOf, ridersOf, outcomeOf, OutcomeOf
<1>5. CASE FlightPhase(f) = "draining"
  BY <1>1, <1>2, <1>3, <1>5 DEF phaseOf
<1>. QED
  BY <1>2, <1>4, <1>5

LEMMA PublicationLands ==
    ASSUME RefinementInv, NEW f \in Calls, PublishResult(f)
    PROVE  outcome[f] \in OutcomeKinds /\ Flight!Land(f, outcome[f])
<1>. USE DEF RefinementInv, RegistryInv, TypeOK
<1>1. outcome[f] \in OutcomeKinds
  BY DEF PublishResult, OutcomeKnown
<1>2. state[f] = "TERMINAL" /\ stage[f] = "publishing"
  BY DEF PublishResult, FetchShape
<1>3. outcome[f] = "CANCELLED_NO_CONSUMERS" => ridersOf[f] = {}
  BY DEF DemandInv, LeftByAll, NoConsumers, ridersOf
<1>4. ridersOf' = ridersOf
  BY DEF PublishResult, callVars, ridersOf, Aboard
<1>5. phaseOf[f] = "draining" /\ phaseOf' = [phaseOf EXCEPT ![f] = "landed"]
  <2>1. FlightPhase(f) = "draining" /\ FlightPhase(f)' = "landed"
    BY <1>2 DEF PublishResult, FlightPhase
  <2>2. \A g \in Calls \ {f} : FlightPhase(g)' = FlightPhase(g)
    BY DEF PublishResult, FlightPhase
  <2>. QED
    BY <2>1, <2>2 DEF phaseOf
<1>6. outcomeOf' = [outcomeOf EXCEPT ![f] = outcome[f]]
  BY DEF PublishResult, outcomeOf, OutcomeOf
<1>. QED
  BY <1>1, <1>3, <1>4, <1>5, <1>6 DEF Flight!Land, phaseOf, ridersOf, outcomeOf, OutcomeOf

LEMMA ShutdownDrains ==
    ASSUME RefinementInv, BeginShutdown
    PROVE  \/ \E F \in SUBSET Calls : Flight!Drain(F)
           \/ UNCHANGED <<phaseOf, ridersOf, outcomeOf>>
<1>. USE DEF RefinementInv, RegistryInv, TypeOK
<1>. DEFINE F == {f \in Calls : state[f] = "RUNNING"}
<1>1. ridersOf' = ridersOf /\ outcomeOf' = outcomeOf
  BY DEF BeginShutdown, callVars, ownerVars, ridersOf, outcomeOf, OutcomeOf, Aboard
<1>2. \A f \in Calls : state'[f] = IF Open(f) THEN "CANCELLING" ELSE state[f]
  BY DEF BeginShutdown
<1>3. \A f \in F : Open(f) /\ stage[f] # "done"
  BY RequestType DEF Open, FetchShape, RegistryShape, Unfinished, KeyOf
<1>4. \A f \in Calls : Open(f) => state[f] \in {"RUNNING", "CANCELLING"}
  BY NoneAssumption DEF Open, RegistryShape, Unfinished, States
<1>5. \A f \in Calls : phaseOf'[f] = IF f \in F THEN "draining" ELSE phaseOf[f]
  BY <1>2, <1>3, <1>4 DEF BeginShutdown, ownerVars, phaseOf, FlightPhase
<1>6. \A f \in F : phaseOf[f] = "open"
  BY DEF phaseOf, FlightPhase
<1>7. phaseOf' = [f \in Calls |-> IF f \in F THEN "draining" ELSE phaseOf[f]]
  BY <1>5 DEF phaseOf
<1>8. CASE F = {}
  <2>1. phaseOf' = phaseOf
    BY <1>7, <1>8 DEF phaseOf
  <2>. QED
    BY <1>1, <2>1
<1>9. CASE F # {}
  <2>. HIDE DEF F
  <2>1. Flight!Drain(F)
    BY <1>1, <1>6, <1>7, <1>9 DEF Flight!Drain, phaseOf, ridersOf, outcomeOf, OutcomeOf
  <2>. QED
    BY <2>1 DEF F
<1>. QED
  BY <1>8, <1>9

-------------------------------------------------------------------------------
(* The others are silent *)

\* A caller that moves on the same side of aboard, and owners that change their stage
\* before the result is complete.
LEMMA OthersAreSilent ==
    ASSUME RefinementInv, NEW c \in Calls,
           \/ AcquireOnClosed(c) \/ AcquireConflicts(c) \/ AcquireWaitsAtBarrier(c)
           \/ BarrierLifted(c) \/ BarrierAbandoned(c) \/ StartOwner(c)
           \/ CancelOwner(c) \/ RaisePriority(c)
           \/ CancelledBeforeBody(c) \/ BodyBegins(c) \/ StartPhysicalAttempt(c)
           \/ FailsInPreflight(c) \/ AttemptSucceeds(c) \/ AttemptFails(c)
           \/ ObservesCancellation(c) \/ ShutdownCancels(c) \/ ShutdownSettlesOrphan(c)
    PROVE  UNCHANGED <<phaseOf, ridersOf, outcomeOf>>
<1>. USE DEF RefinementInv, RegistryInv, TypeOK
<1>1. UNCHANGED state
  BY DEF AcquireOnClosed, AcquireConflicts, AcquireWaitsAtBarrier, BarrierLifted,
         BarrierAbandoned, StartOwner, StoreOwnerJob, StartOwnerJob, HookRunsAtOnce,
         HookReturns, CancelOwner, RaisePriority, CancelledBeforeBody, BodyBegins,
         StartPhysicalAttempt, FailsInPreflight, AttemptSucceeds, AttemptFails,
         ObservesCancellation, Ends, ShutdownCancels, ShutdownSettlesOrphan, fetchVars
<1>2. \A f \in Calls : OutcomeOf(f)' = OutcomeOf(f) /\ (stage'[f] = "done" <=> stage[f] = "done")
  <2>1. CASE UNCHANGED <<stage, outcome>>
    BY <2>1 DEF OutcomeOf
  <2>2. ASSUME stage[c] # "done",
               NEW s \in Stages \ {"done"}, stage' = [stage EXCEPT ![c] = s],
               \A f \in Calls \ {c} : outcome'[f] = outcome[f]
        PROVE  \A f \in Calls : /\ OutcomeOf(f)' = OutcomeOf(f)
                                /\ stage'[f] = "done" <=> stage[f] = "done"
    BY <2>2 DEF OutcomeOf
  <2>3. CASE HookRunsAtOnce(c)
    BY <2>2, <2>3 DEF HookRunsAtOnce, Settle, CallShape, FetchShape, Stages
  <2>4. CASE CancelledBeforeBody(c)
    BY <2>2, <2>4 DEF CancelledBeforeBody, Settle, FetchShape, Stages
  <2>5. CASE BodyBegins(c)
    BY <2>2, <2>5 DEF BodyBegins, FetchShape, Stages
  <2>6. CASE StartPhysicalAttempt(c)
    BY <2>2, <2>6 DEF StartPhysicalAttempt, Stages
  <2>7. CASE FailsInPreflight(c) \/ AttemptSucceeds(c) \/ AttemptFails(c) \/ ObservesCancellation(c)
    BY <2>2, <2>7
    DEF FailsInPreflight, AttemptSucceeds, AttemptFails, ObservesCancellation, Ends, Settle,
        Stages
  <2>8. CASE ShutdownSettlesOrphan(c)
    BY <2>2, <2>8 DEF ShutdownSettlesOrphan, Settle, Stages
  <2>. QED
    BY <2>1, <2>3, <2>4, <2>5, <2>6, <2>7, <2>8
    DEF AcquireOnClosed, AcquireConflicts, AcquireWaitsAtBarrier, BarrierLifted,
        BarrierAbandoned, StartOwner, StoreOwnerJob, StartOwnerJob, HookReturns,
        CancelOwner, RaisePriority, ShutdownCancels, ownerVars
<1>3. \A d, f \in Calls : Aboard(d, f)' <=> Aboard(d, f)
  <2>1. CASE UNCHANGED callVars
    BY <2>1 DEF callVars, Aboard
  <2>2. CASE AcquireOnClosed(c) \/ AcquireConflicts(c) \/ AcquireWaitsAtBarrier(c)
    <3>1. /\ pc[c] \in {"new", "retrying"}
          /\ \E place \in {"ended", "blocked"}, f \in Calls \union {None} : GoTo(c, place, f)
      BY <2>2
      DEF AcquireOnClosed, AcquireConflicts, AcquireWaitsAtBarrier, Finds, InAcquireLoop
    <3>. QED
      BY <3>1, AboardAfterMove DEF Aboard
  <2>3. CASE BarrierLifted(c) \/ BarrierAbandoned(c) \/ CancelOwner(c)
    <3>1. /\ pc[c] \in {"blocked", "retrying", "cancelling"}
          /\ GoTo(c, "ended", None) \/ GoTo(c, "retrying", None)
      BY <2>3 DEF BarrierLifted, BarrierAbandoned, CancelOwner
    <3>. QED
      BY <3>1, AboardAfterMove DEF Aboard
  <2>4. CASE StartOwner(c)
    <3>1. /\ pc[c] \in {"starting", "arming", "hooking"}
          /\ on[c] = c
          /\ \E place \in {"arming", "hooking", "holding"} : GoTo(c, place, c)
      BY <2>4 DEF StartOwner, StoreOwnerJob, StartOwnerJob, HookRunsAtOnce, HookReturns, CallShape
    <3>. QED
      BY <3>1, AboardAfterMove DEF Aboard
  <2>. QED
    BY <2>1, <2>2, <2>3, <2>4
    DEF RaisePriority, CancelledBeforeBody, BodyBegins, StartPhysicalAttempt,
        FailsInPreflight, AttemptSucceeds, AttemptFails, ObservesCancellation, Ends,
        ShutdownCancels, ShutdownSettlesOrphan
<1>4. \A f \in Calls : FlightPhase(f)' = FlightPhase(f)
  BY <1>1, <1>2 DEF FlightPhase
<1>. QED
  BY <1>2, <1>3, <1>4, Silent

LEMMA FlightStep ==
    ASSUME RefinementInv, [Next]_vars
    PROVE  [Flight!Next]_<<phaseOf, ridersOf, outcomeOf>>
<1>1. CASE UNCHANGED vars
  BY <1>1, Silent
  DEF vars, fetchVars, ownerVars, callVars, FlightPhase, OutcomeOf, Aboard
<1>2. ASSUME NEW c \in Calls, Acquire(c) \/ Handle(c)
      PROVE  \/ \E f, r \in Calls : Flight!Open(f, r) \/ Flight!Board(f, r) \/ Flight!Leave(f, r)
             \/ UNCHANGED <<phaseOf, ridersOf, outcomeOf>>
  BY <1>2, NewOwnerOpens, JoinBoards, ReturnOrReleaseLeaves, ReleaseNotLastLeaves,
     ReleaseLastLeaves, OthersAreSilent
  DEF Acquire, Handle
<1>3. ASSUME NEW f \in Calls, Owner(f)
      PROVE  \/ Flight!Drain({f})
             \/ outcome[f] \in OutcomeKinds /\ Flight!Land(f, outcome[f])
             \/ UNCHANGED <<phaseOf, ridersOf, outcomeOf>>
  BY <1>3, TerminalDrains, PublicationLands, OthersAreSilent DEF Owner
<1>4. CASE ShutdownReturns
  BY <1>4, Silent
  DEF ShutdownReturns, fetchVars, ownerVars, callVars, FlightPhase, OutcomeOf, Aboard
<1>5. ASSUME NEW f \in Calls, Flight!Drain({f}) PROVE Flight!Next
  BY <1>5 DEF Flight!Next
<1>6. ASSUME NEW f \in Calls, NEW o \in OutcomeKinds, Flight!Land(f, o) PROVE Flight!Next
  BY <1>6 DEF Flight!Next
<1>7. CASE Shutdown
  <2>1. CASE BeginShutdown
    BY <2>1, ShutdownDrains DEF Flight!Next
  <2>2. CASE \E f \in Calls : ShutdownCancels(f) \/ ShutdownSettlesOrphan(f)
    BY <2>2, OthersAreSilent
  <2>. QED
    BY <1>4, <1>7, <2>1, <2>2 DEF Shutdown
<1>8. CASE \E c \in Calls : Acquire(c) \/ Handle(c)
  BY <1>2, <1>8 DEF Flight!Next
<1>9. CASE \E c \in Calls : BarrierLifted(c) \/ BarrierAbandoned(c) \/ StartOwner(c)
  BY <1>9, OthersAreSilent
<1>10. CASE \E f \in Calls : Owner(f)
  <2>1. PICK f \in Calls : Owner(f)
    BY <1>10
  <2>2. CASE Flight!Drain({f})
    BY <1>5, <2>2
  <2>3. CASE outcome[f] \in OutcomeKinds /\ Flight!Land(f, outcome[f])
    <3>1. PICK o \in OutcomeKinds : Flight!Land(f, o)
      BY <2>3 DEF Flight!Land
    <3>. QED
      BY <1>6, <3>1
  <2>. QED
    BY <1>3, <2>1, <2>2, <2>3
<1>. QED
  BY <1>1, <1>7, <1>8, <1>9, <1>10 DEF Next

LEMMA FlightInit == Init => Flight!Init
BY DEF Init, Flight!Init, FlightPhase, Aboard

\* Whatever its locks, jobs and threads do, the broker is a single-flight registry.
THEOREM BrokerImplementsSingleFlight == SafeSpec => ImplementsSingleFlight
<1>1. RefinementInv /\ [Next]_vars => [Flight!Next]_Flight!flightVars
  BY FlightStep DEF Flight!flightVars, phaseOf, ridersOf, outcomeOf, OutcomeOf
<1>. QED
  BY <1>1, FlightInit, RefinementInvariant, PTL
  DEF SafeSpec, ImplementsSingleFlight, Flight!Spec
===============================================================================
