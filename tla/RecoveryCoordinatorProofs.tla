---------------------- MODULE RecoveryCoordinatorProofs ----------------------
(***************************************************************************)
(* Proofs about RecoveryCoordinator, for every set of calls, keys and      *)
(* requests and every budget.  ChainInv ties a chain's state to where its  *)
(* driver stands, to its owner and to the registry; AlwaysNewOwner and     *)
(* RequestsWithinBudget follow from it.  DemandInv adds whose demand a     *)
(* chain counts (NobodyDenied), WaitInv when a chain is told to stop       *)
(* waiting (RetryAfterRespected), RaiseInv what a stored handle has been   *)
(* raised to (PriorityReachesOwner), DrainInv what shutdown() has to join  *)
(* (QuietAfterShutdown).                                                   *)
(***************************************************************************)
EXTENDS RecoveryCoordinator, TLAPS

Live(h) == state[h] \notin {"UNBORN", "TERMINAL"}

\* A chain that has begun and is not TERMINAL has a driver on its way; only while it
\* stands at its owner does the chain have one.
ChainShape(h) ==
    /\ at[h] = "none" <=> state[h] = "UNBORN"
    /\ at[h] \in {"completing", "done"} <=> state[h] = "TERMINAL"
    /\ reason[h] # "none" => state[h] = "TERMINAL"
    /\ owner[h] # "none" => at[h] \in {"storing", "closing", "awaiting"}
    /\ at[h] \in {"closing", "awaiting"} => handle[h]
    /\ requests[h] = attempts[h]

\* A call that has not acquired has no chain yet; the creating call starts it.
CallShape(c) ==
    /\ pc[c] = "new" => state[c] = "UNBORN"
    /\ pc[c] = "starting" => on[c] = c /\ state[c] # "UNBORN"

\* activeChains holds exactly the live chains, each under its key.
RegistryShape ==
    /\ \A h \in Calls : Live(h) => active[KeyOf(h)] = h
    /\ \A k \in Keys : active[k] # None => KeyOf(active[k]) = k /\ Live(active[k])

ChainInv ==
    /\ TypeOK
    /\ \A h \in Calls : ChainShape(h)
    /\ \A c \in Calls : CallShape(c)
    /\ RegistryShape

\* Who is aboard of a live chain is one of its consumers, under an id of its own.
DemandInv ==
    /\ \A c, h \in Calls : Aboard(c, h) /\ Live(h) => Request[c].consumer \in consumers[h]
    /\ \A c, d, h \in Calls :
        Aboard(c, h) /\ Aboard(d, h) /\ c # d /\ Live(h) =>
            Request[c].consumer # Request[d].consumer
    /\ \A c, h \in Calls : Aboard(c, h) => state[h] # "UNBORN"
    /\ NobodyDenied

\* A chain is told to stop waiting once it is born, and while it lives only when nobody
\* wants it or all must end; so one that holds back for its provider goes on sleeping,
\* or ends for shutdown().
WaitInv ==
    /\ shutdown.pc # "idle" => closing
    /\ \A h \in Calls : state[h] = "UNBORN" => ~stopWaiting[h]
    /\ \A h \in Calls : Live(h) /\ stopWaiting[h] => closing \/ ~Demanded(h)
    /\ \A h \in Calls : throttled[h] =>
        \/ at[h] = "sleeping" /\ state[h] = "WAITING_PROVIDER" /\ Demanded(h)
        \/ at[h] = "head" /\ closing

\* The chain's handle is stored and its owner, which it leases, at work.
Held(h) == at[h] \in {"closing", "awaiting"} /\ leased[h] /\ AtWork(h)

\* While it is leased an owner whose handle is stored has been raised to the chain's
\* priority, or c, whose join gave the chain this priority, is about to raise it.
AboutToRaise(c, h) ==
    pc[c] = "raising" /\ on[c] = h /\ Request[c].priority = priority[h]

RaiseInv ==
    \A h \in Calls : Held(h) =>
        \/ ownerPriority[h] >= priority[h]
        \/ \E c \in Calls : AboutToRaise(c, h)

\* What an ended owner leaves to its driver is an outcome, until the driver decides.
VerdictInv ==
    \A h \in Calls : owner[h] = "ended" \/ at[h] = "deciding" => verdict[h] \in Verdicts

\* Once shutdown() has collected the chains it knows every live one, and none is left
\* when it has returned.
DrainInv ==
    /\ shutdown.pc # "idle" => closing
    /\ shutdown.pc \in {"closing", "joining"} =>
        \A h \in Calls : Live(h) => h \in shutdown.chains
    /\ shutdown.pc = "returned" => \A h \in Calls : ~Live(h)

-------------------------------------------------------------------------------
LEMMA RequestType ==
    ASSUME NEW c \in Calls
    PROVE  /\ Request[c].key \in Keys
           /\ Request[c].consumer \in Consumers
           /\ Request[c].priority \in Priorities
BY RequestAssumption DEF RequestRecord

\* An admission that is not refused: one charge and one request.
Admitted(h) ==
    /\ Remaining(h) # 0
    /\ attempts' = [attempts EXCEPT ![h] = @ + 1]
    /\ requests' = [requests EXCEPT ![h] = @ + 1]
    /\ owner' = [owner EXCEPT ![h] = "inflight"]
    /\ UNCHANGED <<state, demandVars, endVars, handle, refreshes>>
    /\ UNCHANGED <<leased, ownerPriority, driverVars>>
    /\ UNCHANGED <<throttled, active, closing, callVars, shutdown>>

LEMMA AdmissionCases ==
    ASSUME NEW h \in Calls, Admission(h)
    PROVE  /\ owner[h] = "preflight"
           /\ (OwnerEnds(h, "REJECTED") /\ UNCHANGED requests) \/ Admitted(h)
BY Zenon DEF Admission, Charge, Admitted

LEMMA TerminateType ==
    ASSUME TypeOK, NEW h \in Calls, NEW r \in Reasons, Terminate(h, r)
    PROVE  TypeOK'
BY DEF TypeOK, States, Reasons, Verdicts, Positions, Terminate, Drives,
       endVars, ledgerVars, ownerVars, callVars

\* One step per action: each keeps the types of the state it writes.
LEMMA TypeStep ==
    TypeOK /\ [Next]_vars => TypeOK'
<1> SUFFICES ASSUME TypeOK, [Next]_vars PROVE TypeOK'
  OBVIOUS
<1> USE LimitAssumption
        DEF TypeOK, States, Reasons, Verdicts, RefreshResults, Positions, Owners,
            Places, ShutdownRecord, Priorities, RESERVE, PLAYBACK, GoTo,
            Drives, demandVars, endVars, ledgerVars, ownerVars, driverVars,
            callVars
<1>1. ASSUME NEW c \in Calls, AcquireOnClosing(c) PROVE TypeOK'
  BY <1>1 DEF AcquireOnClosing
<1>2. ASSUME NEW c \in Calls, AcquireNewChain(c) PROVE TypeOK'
  BY <1>2, RequestType DEF AcquireNewChain, Admits, KeyOf
<1>3. ASSUME NEW c \in Calls, AcquireJoins(c) PROVE TypeOK'
  BY <1>3, RequestType DEF AcquireJoins, Admits, Joinable, Raised, Higher, SameWork
<1>4. ASSUME NEW c \in Calls, AcquireConflicts(c) PROVE TypeOK'
  BY <1>4 DEF AcquireConflicts, Admits, Joinable
<1>5. ASSUME NEW c \in Calls, StartDriver(c) PROVE TypeOK'
  BY <1>5 DEF StartDriver
<1>6. ASSUME NEW c \in Calls, AcquireReturns(c) PROVE TypeOK'
  BY <1>6 DEF AcquireReturns
<1>7. ASSUME NEW c \in Calls, AwaitReturns(c) PROVE TypeOK'
  BY <1>7 DEF AwaitReturns
<1>8. ASSUME NEW c \in Calls, ReleaseOfTerminal(c) PROVE TypeOK'
  BY <1>8 DEF ReleaseOfTerminal, MayLeave
<1>9. ASSUME NEW c \in Calls, ReleaseNotLast(c) PROVE TypeOK'
  BY <1>9 DEF ReleaseNotLast, MayLeave, IsLast
<1>10. ASSUME NEW c \in Calls, ReleaseLast(c) PROVE TypeOK'
  <2>1. PICK h \in Calls : ReleaseLast(c)!(h)
    BY <1>10 DEF ReleaseLast
  <2>2. pc' \in [Calls -> Places] /\ on' \in [Calls -> Calls \union {None}]
    <3>1. GoTo(c, "closing", h) \/ GoTo(c, "ended", None)
      BY ONLY <2>1
    <3>2. pc \in [Calls -> Places] /\ on \in [Calls -> Calls \union {None}]
      BY <1>10
    <3> QED
      BY ONLY <3>1, <3>2, c \in Calls, h \in Calls DEF GoTo, Places
  <2>3. /\ state' \in [Calls -> States]
        /\ stopWaiting' \in [Calls -> BOOLEAN]
        /\ throttled' \in [Calls -> BOOLEAN]
    BY <1>10, <2>1
  <2>4. consumers' \in [Calls -> SUBSET Consumers]
    BY <1>10, <2>1
  <2> QED
    BY <1>10, <2>1, <2>2, <2>3, <2>4
<1>11. ASSUME NEW c \in Calls, CloseHandle(c) PROVE TypeOK'
  BY <1>11 DEF CloseHandle, GivesUpLease
<1>12. ASSUME NEW h \in Calls, EndsAtHead(h) PROVE TypeOK'
  <2>1. PICK r \in Reasons : Terminate(h, r)
    BY <1>12 DEF EndsAtHead, NoAttemptReason
  <2> HIDE DEF TypeOK
  <2> QED
    BY <1>12, <2>1, TerminateType
<1>13. ASSUME NEW h \in Calls, PassesHead(h) PROVE TypeOK'
  BY <1>13 DEF PassesHead, NoAttemptReason
<1>14. ASSUME NEW h \in Calls, GateOpen(h) PROVE TypeOK'
  BY <1>14 DEF GateOpen
<1>15. ASSUME NEW h \in Calls, GateShut(h) PROVE TypeOK'
  BY <1>15 DEF GateShut
<1>16. ASSUME NEW h \in Calls, GateOpens(h) PROVE TypeOK'
  BY <1>16 DEF GateOpens
<1>17. ASSUME NEW h \in Calls, GateFails(h) PROVE TypeOK'
  <2>1. PICK r \in Reasons : Terminate(h, r)
    BY <1>17 DEF GateFails
  <2> HIDE DEF TypeOK
  <2> QED
    BY <1>17, <2>1, TerminateType
<1>18. ASSUME NEW h \in Calls, EndsPermitted(h) PROVE TypeOK'
  <2>1. PICK r \in Reasons : Terminate(h, r)
    BY <1>18 DEF EndsPermitted, NoAttemptReason
  <2> HIDE DEF TypeOK
  <2> QED
    BY <1>18, <2>1, TerminateType
<1>19. ASSUME NEW h \in Calls, PassesPermitted(h) PROVE TypeOK'
  BY <1>19 DEF PassesPermitted, NoAttemptReason
<1>20. ASSUME NEW h \in Calls, BecomeActive(h) PROVE TypeOK'
  BY <1>20 DEF BecomeActive
<1>21. ASSUME NEW h \in Calls, AcquireOwner(h) PROVE TypeOK'
  BY <1>21 DEF AcquireOwner
<1>22. ASSUME NEW h \in Calls, StoreHandle(h) PROVE TypeOK'
  BY <1>22 DEF StoreHandle, CloseNow, RaiseTo, Raised, Higher
<1>23. ASSUME NEW h \in Calls, DriverCloses(h) PROVE TypeOK'
  BY <1>23 DEF DriverCloses, GivesUpLease
<1>24. ASSUME NEW h \in Calls, OwnerFinished(h) PROVE TypeOK'
  BY <1>24 DEF OwnerFinished, AfterOwner
<1>25. ASSUME NEW h \in Calls, Admission(h) PROVE TypeOK'
  <2>1. CASE OwnerEnds(h, "REJECTED") /\ UNCHANGED requests
    BY <1>25, <2>1 DEF OwnerEnds
  <2>2. CASE Admitted(h)
    <3>1. attempts' \in [Calls -> 0 .. AttemptLimit]
      <4>1. attempts \in [Calls -> 0 .. AttemptLimit] /\ AttemptLimit \in Nat
        OBVIOUS
      <4>2. /\ AttemptLimit - attempts[h] # 0
            /\ attempts' = [attempts EXCEPT ![h] = @ + 1]
        BY <2>2 DEF Remaining, Admitted
      <4> QED
        BY ONLY <4>1, <4>2, h \in Calls
    <3> QED
      BY <2>2, <3>1 DEF Admitted
  <2> QED
    BY <1>25, <2>1, <2>2, AdmissionCases
<1>26. ASSUME NEW h \in Calls, FailsInPreflight(h) PROVE TypeOK'
  BY <1>26 DEF FailsInPreflight, OwnerEnds
<1>27. ASSUME NEW h \in Calls, AttemptEnds(h) PROVE TypeOK'
  BY <1>27 DEF AttemptEnds, OwnerEnds
<1>28. ASSUME NEW h \in Calls, OwnerCancelled(h) PROVE TypeOK'
  BY <1>28 DEF OwnerCancelled, OwnerEnds, AtWork
<1>29. ASSUME NEW h \in Calls, DecidesToEnd(h) PROVE TypeOK'
  <2>1. PICK r \in Reasons : Terminate(h, r)
    BY <1>29 DEF DecidesToEnd, EndingReason
  <2> HIDE DEF TypeOK
  <2> QED
    BY <1>29, <2>1, TerminateType
<1>30. ASSUME NEW h \in Calls, SchedulesBackoff(h) PROVE TypeOK'
  BY <1>30 DEF SchedulesBackoff, GoesOn, EndingReason
<1>31. ASSUME NEW h \in Calls, WaitsForProvider(h) PROVE TypeOK'
  BY <1>31 DEF WaitsForProvider, GoesOn, EndingReason
<1>32. ASSUME NEW h \in Calls, StartsNextOwner(h) PROVE TypeOK'
  BY <1>32 DEF StartsNextOwner, GoesOn, EndingReason
<1>33. ASSUME NEW h \in Calls, Reconciles(h) PROVE TypeOK'
  BY <1>33 DEF Reconciles, GoesOn, EndingReason
<1>34. ASSUME NEW h \in Calls, DecidesToRefresh(h) PROVE TypeOK'
  BY <1>34 DEF DecidesToRefresh, GoesOn, EndingReason
<1>35. ASSUME NEW h \in Calls, Reconciled(h) PROVE TypeOK'
  <2>1. PICK r \in Reasons : Terminate(h, r)
    BY <1>35 DEF Reconciled
  <2> HIDE DEF TypeOK
  <2> QED
    BY <1>35, <2>1, TerminateType
<1>36. ASSUME NEW h \in Calls, RetryAfterPasses(h) PROVE TypeOK'
  BY <1>36 DEF RetryAfterPasses
<1>37. ASSUME NEW h \in Calls, SleepEnds(h) PROVE TypeOK'
  BY <1>37 DEF SleepEnds, Wakes
<1>38. ASSUME NEW h \in Calls, WaitStops(h) PROVE TypeOK'
  BY <1>38 DEF WaitStops, Wakes
<1>39. ASSUME NEW h \in Calls, RefreshAnswers(h) PROVE TypeOK'
  BY <1>39 DEF RefreshAnswers
<1>40. ASSUME NEW h \in Calls, RefreshWaits(h) PROVE TypeOK'
  <2>1. refreshes' \in [Calls -> 0 .. RefreshLimit]
    <3>1. UNCHANGED refreshes \/ (/\ refreshes[h] < RefreshLimit
                                 /\ refreshes' = [refreshes EXCEPT ![h] = @ + 1])
      BY <1>40 DEF RefreshWaits
    <3>2. refreshes \in [Calls -> 0 .. RefreshLimit] /\ RefreshLimit \in Nat
      BY <1>40
    <3> QED
      BY ONLY <3>1, <3>2, h \in Calls
  <2>2. /\ state' \in [Calls -> States] /\ at' \in [Calls -> Positions]
        /\ UNCHANGED <<demandVars, endVars, handle, attempts, requests, ownerVars, verdict>>
        /\ UNCHANGED <<throttled, active, closing, callVars, shutdown>>
    BY <1>40 DEF RefreshWaits
  <2> QED
    BY <1>40, <2>1, <2>2
<1>41. ASSUME NEW h \in Calls, RefreshEnds(h) PROVE TypeOK'
  BY <1>41 DEF RefreshEnds, RefreshReturns
<1>42. ASSUME NEW h \in Calls, RefreshAbandoned(h) PROVE TypeOK'
  BY <1>42 DEF RefreshAbandoned, RefreshReturns
<1>43. ASSUME NEW h \in Calls, RefreshApplied(h) PROVE TypeOK'
  BY <1>43 DEF RefreshApplied
<1>44. ASSUME NEW h \in Calls, EndsAfterRefresh(h) PROVE TypeOK'
  <2>1. PICK r \in Reasons : Terminate(h, r)
    BY <1>44 DEF EndsAfterRefresh
  <2> HIDE DEF TypeOK
  <2> QED
    BY <1>44, <2>1, TerminateType
<1>45. ASSUME NEW h \in Calls, CompleteChain(h) PROVE TypeOK'
  BY <1>45 DEF CompleteChain
<1>46. ASSUME BeginShutdown PROVE TypeOK'
  BY <1>46 DEF BeginShutdown
<1>47. ASSUME ShutdownStops PROVE TypeOK'
  BY <1>47 DEF ShutdownStops
<1>48. ASSUME NEW h \in Calls, ShutdownClosesHandle(h) PROVE TypeOK'
  BY <1>48 DEF ShutdownClosesHandle, GivesUpLease
<1>49. ASSUME ShutdownClosesBindings PROVE TypeOK'
  BY <1>49 DEF ShutdownClosesBindings
<1>50. ASSUME NEW h \in Calls, ShutdownStartsDriver(h) PROVE TypeOK'
  BY <1>50 DEF ShutdownStartsDriver
<1>51. ASSUME ShutdownReturns PROVE TypeOK'
  BY <1>51 DEF ShutdownReturns
<1>53. ASSUME NEW c \in Calls, RaiseOwner(c) PROVE TypeOK'
  <2>1. CASE on[c] = None
    <3>1. \A x : [ownerPriority EXCEPT ![None] = x] = ownerPriority
      BY <1>53, NoneAssumption
    <3>2. ownerPriority' = ownerPriority
      BY <1>53, <2>1, <3>1 DEF RaiseOwner, Raised
    <3> QED
      BY <1>53, <2>1, <3>2 DEF RaiseOwner
  <2>2. CASE on[c] \in Calls
    BY <1>53, <2>2, RequestType DEF RaiseOwner, Raised, Higher
  <2> QED
    BY <1>53, <2>1, <2>2
<1>52. ASSUME UNCHANGED vars PROVE TypeOK'
  BY <1>52 DEF vars
<1> HIDE DEF TypeOK
<1> QED
  BY <1>1, <1>2, <1>3, <1>4, <1>5, <1>6, <1>7, <1>8, <1>9, <1>10, <1>11,
     <1>12, <1>13, <1>14, <1>15, <1>16, <1>17, <1>18, <1>19, <1>20, <1>21,
     <1>22, <1>23, <1>24, <1>25, <1>26, <1>27, <1>28, <1>29, <1>30, <1>31,
     <1>32, <1>33, <1>34, <1>35, <1>36, <1>37, <1>38, <1>39, <1>40, <1>41,
     <1>42, <1>43, <1>44, <1>45, <1>46, <1>47, <1>48, <1>49, <1>50, <1>51,
     <1>52, <1>53
     DEF Next, Acquire, Handle, Prepare, RunOwner, DecideAndAct, Wait, Drive, World, Shutdown

LEMMA TerminateChain ==
    ASSUME ChainInv, TypeOK', NEW h \in Calls, NEW r \in Reasons, Terminate(h, r),
           at[h] \notin {"none", "completing", "done", "storing", "closing", "awaiting"}
    PROVE  ChainInv'
<1>1. /\ \A g \in Calls \ {h} :
            state'[g] = state[g] /\ reason'[g] = reason[g] /\ at'[g] = at[g]
      /\ state'[h] = "TERMINAL" /\ reason'[h] = r /\ at'[h] = "completing"
      /\ active' = [active EXCEPT ![KeyOf(h)] = IF @ = h THEN None ELSE @]
      /\ UNCHANGED <<owner, handle, requests, attempts, pc, on>>
  BY DEF ChainInv, TypeOK, Terminate, Drives, ledgerVars, ownerVars, callVars
<1>2. /\ state[h] \notin {"UNBORN", "TERMINAL"}
      /\ \A g \in Calls : ChainShape(g)
  BY DEF ChainInv, ChainShape
<1>3. \A g \in Calls : ChainShape(g)'
  BY <1>1, <1>2 DEF ChainShape
<1>4. \A c \in Calls : CallShape(c)'
  BY <1>1, <1>2 DEF ChainInv, CallShape
<1>5. /\ \A g \in Calls : Live(g)' <=> g # h /\ Live(g)
      /\ Live(h)
  BY <1>1, <1>2 DEF Live
<1>6. active'[KeyOf(h)] = None /\ \A k \in Keys \ {KeyOf(h)} : active'[k] = active[k]
  BY <1>1, <1>5, RequestType DEF ChainInv, TypeOK, RegistryShape, KeyOf
<1>7. RegistryShape'
  <2>1. /\ \A g \in Calls : Live(g) => active[KeyOf(g)] = g
        /\ \A k \in Keys : active[k] # None =>
                active[k] \in Calls /\ KeyOf(active[k]) = k /\ Live(active[k])
        /\ \A g \in Calls : KeyOf(g) \in Keys
    BY RequestType DEF ChainInv, TypeOK, RegistryShape, KeyOf
  <2>2. ASSUME NEW g \in Calls, Live(g)' PROVE active'[KeyOf(g)] = g
    BY <2>1, <2>2, <1>5, <1>6
  <2>3. ASSUME NEW k \in Keys, active'[k] # None
        PROVE  (KeyOf(active[k]) = k /\ Live(active[k]))'
    <3>1. active'[k] = active[k] /\ k # KeyOf(h)
      BY <2>3, <1>6
    <3>2. PICK g \in Calls : g = active[k] /\ KeyOf(g) = k /\ Live(g)
      BY <3>1, <2>1, <2>3
    <3>3. state'[g] = state[g]
      BY <3>1, <3>2, <1>1
    <3> QED
      BY <3>1, <3>2, <3>3 DEF Live, KeyOf
  <2> QED
    BY <2>2, <2>3 DEF RegistryShape, KeyOf, Live
<1> QED
  BY <1>3, <1>4, <1>7 DEF ChainInv

\* The shape of chains, their drivers, owners and places in the registry.
LEMMA ChainStep ==
    ChainInv /\ TypeOK' /\ [Next]_vars => ChainInv'
<1> SUFFICES ASSUME ChainInv, TypeOK', [Next]_vars PROVE ChainInv'
  OBVIOUS
<1> USE RequestType, NoneAssumption
        DEF ChainInv, TypeOK, States, Reasons, Verdicts, RefreshResults, Positions,
            Owners, Places, ShutdownRecord, Priorities, RESERVE, PLAYBACK,
            ChainShape, CallShape, RegistryShape, Live, KeyOf, AtWork, GoTo,
            Drives, demandVars, endVars, ledgerVars, ownerVars, driverVars,
            callVars
<1>1. ASSUME NEW c \in Calls, AcquireOnClosing(c) PROVE ChainInv'
  BY <1>1 DEF AcquireOnClosing
<1>2. ASSUME NEW c \in Calls, AcquireNewChain(c) PROVE ChainInv'
  <2>1. /\ \A g \in Calls \ {c} :
            state'[g] = state[g] /\ at'[g] = at[g] /\ pc'[g] = pc[g] /\ on'[g] = on[g]
        /\ state'[c] = "ACTIVE" /\ at'[c] = "lazy" /\ pc'[c] = "starting" /\ on'[c] = c
        /\ active' = [active EXCEPT ![KeyOf(c)] = c] /\ active[KeyOf(c)] = None
        /\ UNCHANGED <<owner, handle, requests, attempts, reason>>
        /\ state[c] = "UNBORN"
    BY <1>2 DEF AcquireNewChain, Admits
  <2>2. \A h \in Calls : ChainShape(h)'
    BY <1>2, <2>1
  <2>3. \A d \in Calls : CallShape(d)'
    <3>1. \A d \in Calls : CallShape(d)
      BY <1>2
    <3> QED
      BY ONLY <2>1, <3>1 DEF CallShape
  <2>4. RegistryShape'
    <3>1. /\ RegistryShape /\ KeyOf(c) \in Keys
          /\ active \in [Keys -> Calls \union {None}]
      BY <1>2, RequestType
    <3>2. \A k \in Keys : active'[k] = IF k = KeyOf(c) THEN c ELSE active[k]
      BY ONLY <2>1, <3>1
    <3> QED
      BY ONLY <2>1, <3>1, <3>2, RequestType, NoneAssumption, c \in Calls
         DEF RegistryShape, Live, KeyOf
  <2> HIDE DEF TypeOK, ChainShape, CallShape, RegistryShape
  <2> QED
    BY <1>2, <2>2, <2>3, <2>4
<1>3. ASSUME NEW c \in Calls, AcquireJoins(c) PROVE ChainInv'
  BY <1>3 DEF AcquireJoins, Admits, Joinable, Raised, Higher, SameWork
<1>4. ASSUME NEW c \in Calls, AcquireConflicts(c) PROVE ChainInv'
  BY <1>4 DEF AcquireConflicts, Admits, Joinable
<1>5. ASSUME NEW c \in Calls, StartDriver(c) PROVE ChainInv'
  BY <1>5 DEF StartDriver
<1>6. ASSUME NEW c \in Calls, AcquireReturns(c) PROVE ChainInv'
  BY <1>6 DEF AcquireReturns
<1>7. ASSUME NEW c \in Calls, AwaitReturns(c) PROVE ChainInv'
  BY <1>7 DEF AwaitReturns
<1>8. ASSUME NEW c \in Calls, ReleaseOfTerminal(c) PROVE ChainInv'
  BY <1>8 DEF ReleaseOfTerminal, MayLeave
<1>9. ASSUME NEW c \in Calls, ReleaseNotLast(c) PROVE ChainInv'
  BY <1>9 DEF ReleaseNotLast, MayLeave, IsLast
<1>10. ASSUME NEW c \in Calls, ReleaseLast(c) PROVE ChainInv'
  BY <1>10 DEF ReleaseLast, MayLeave, IsLast
<1>11. ASSUME NEW c \in Calls, CloseHandle(c) PROVE ChainInv'
  BY <1>11 DEF CloseHandle, GivesUpLease
<1>12. ASSUME NEW h \in Calls, EndsAtHead(h) PROVE ChainInv'
  <2>1. PICK r \in Reasons : Terminate(h, r)
    BY <1>12 DEF EndsAtHead, NoAttemptReason
  <2>2. at[h] \notin {"none", "completing", "done", "storing", "closing", "awaiting"}
    BY <1>12 DEF EndsAtHead
  <2> HIDE DEF TypeOK, ChainInv, ChainShape, CallShape, RegistryShape, Live
  <2> QED
    BY <1>12, <2>1, <2>2, TerminateChain
<1>13. ASSUME NEW h \in Calls, PassesHead(h) PROVE ChainInv'
  BY <1>13 DEF PassesHead, NoAttemptReason
<1>14. ASSUME NEW h \in Calls, GateOpen(h) PROVE ChainInv'
  BY <1>14 DEF GateOpen
<1>15. ASSUME NEW h \in Calls, GateShut(h) PROVE ChainInv'
  BY <1>15 DEF GateShut
<1>16. ASSUME NEW h \in Calls, GateOpens(h) PROVE ChainInv'
  BY <1>16 DEF GateOpens
<1>17. ASSUME NEW h \in Calls, GateFails(h) PROVE ChainInv'
  <2>1. PICK r \in Reasons : Terminate(h, r)
    BY <1>17 DEF GateFails
  <2>2. at[h] \notin {"none", "completing", "done", "storing", "closing", "awaiting"}
    BY <1>17 DEF GateFails
  <2> HIDE DEF TypeOK, ChainInv, ChainShape, CallShape, RegistryShape, Live
  <2> QED
    BY <1>17, <2>1, <2>2, TerminateChain
<1>18. ASSUME NEW h \in Calls, EndsPermitted(h) PROVE ChainInv'
  <2>1. PICK r \in Reasons : Terminate(h, r)
    BY <1>18 DEF EndsPermitted, NoAttemptReason
  <2>2. at[h] \notin {"none", "completing", "done", "storing", "closing", "awaiting"}
    BY <1>18 DEF EndsPermitted
  <2> HIDE DEF TypeOK, ChainInv, ChainShape, CallShape, RegistryShape, Live
  <2> QED
    BY <1>18, <2>1, <2>2, TerminateChain
<1>19. ASSUME NEW h \in Calls, PassesPermitted(h) PROVE ChainInv'
  BY <1>19 DEF PassesPermitted, NoAttemptReason
<1>20. ASSUME NEW h \in Calls, BecomeActive(h) PROVE ChainInv'
  BY <1>20 DEF BecomeActive
<1>21. ASSUME NEW h \in Calls, AcquireOwner(h) PROVE ChainInv'
  BY <1>21 DEF AcquireOwner
<1>22. ASSUME NEW h \in Calls, StoreHandle(h) PROVE ChainInv'
  BY <1>22 DEF StoreHandle, CloseNow, RaiseTo, Raised, Higher
<1>23. ASSUME NEW h \in Calls, DriverCloses(h) PROVE ChainInv'
  BY <1>23 DEF DriverCloses, GivesUpLease
<1>24. ASSUME NEW h \in Calls, OwnerFinished(h) PROVE ChainInv'
  <2>1. /\ \A g \in Calls \ {h} : at'[g] = at[g] /\ owner'[g] = owner[g] /\ handle'[g] = handle[g]
        /\ at[h] = "awaiting" /\ at'[h] = "deciding" /\ owner'[h] = "none"
        /\ \A c \in Calls : pc'[c] = pc[c] \/ pc'[c] \in {"settling", "ended"}
        /\ UNCHANGED <<state, reason, requests, attempts, active, on>>
    BY <1>24 DEF OwnerFinished, AfterOwner
  <2>2. \A g \in Calls : ChainShape(g)'
    BY <1>24, <2>1
  <2>3. (\A c \in Calls : CallShape(c)') /\ RegistryShape'
    BY <1>24, <2>1
  <2> HIDE DEF TypeOK, ChainShape, CallShape, RegistryShape
  <2> QED
    BY <1>24, <2>2, <2>3
<1>25. ASSUME NEW h \in Calls, Admission(h) PROVE ChainInv'
  <2>1. CASE OwnerEnds(h, "REJECTED") /\ UNCHANGED requests
    <3>1. /\ owner[h] = "preflight" /\ owner' = [owner EXCEPT ![h] = "ended"]
          /\ UNCHANGED <<state, active, pc, on, at, handle, reason, attempts, requests>>
      BY <1>25, <2>1, AdmissionCases DEF OwnerEnds
    <3>2. \A g \in Calls : ChainShape(g)'
      BY <3>1
    <3>3. (\A c \in Calls : CallShape(c)') /\ RegistryShape'
      BY <3>1
    <3> HIDE DEF TypeOK, ChainShape, CallShape, RegistryShape
    <3> QED
      BY <3>2, <3>3
  <2>2. CASE Admitted(h)
    <3>1. owner[h] = "preflight"
      BY <1>25, AdmissionCases
    <3> QED
      BY <2>2, <3>1 DEF Admitted
  <2> QED
    BY <1>25, <2>1, <2>2, AdmissionCases
<1>26. ASSUME NEW h \in Calls, FailsInPreflight(h) PROVE ChainInv'
  BY <1>26 DEF FailsInPreflight, OwnerEnds
<1>27. ASSUME NEW h \in Calls, AttemptEnds(h) PROVE ChainInv'
  BY <1>27 DEF AttemptEnds, OwnerEnds
<1>28. ASSUME NEW h \in Calls, OwnerCancelled(h) PROVE ChainInv'
  BY <1>28 DEF OwnerCancelled, OwnerEnds, AtWork
<1>29. ASSUME NEW h \in Calls, DecidesToEnd(h) PROVE ChainInv'
  <2>1. PICK r \in Reasons : Terminate(h, r)
    BY <1>29 DEF DecidesToEnd, EndingReason
  <2>2. at[h] \notin {"none", "completing", "done", "storing", "closing", "awaiting"}
    BY <1>29 DEF DecidesToEnd
  <2> HIDE DEF TypeOK, ChainInv, ChainShape, CallShape, RegistryShape, Live
  <2> QED
    BY <1>29, <2>1, <2>2, TerminateChain
<1>30. ASSUME NEW h \in Calls, SchedulesBackoff(h) PROVE ChainInv'
  BY <1>30 DEF SchedulesBackoff, GoesOn, EndingReason
<1>31. ASSUME NEW h \in Calls, WaitsForProvider(h) PROVE ChainInv'
  BY <1>31 DEF WaitsForProvider, GoesOn, EndingReason
<1>32. ASSUME NEW h \in Calls, StartsNextOwner(h) PROVE ChainInv'
  BY <1>32 DEF StartsNextOwner, GoesOn, EndingReason
<1>33. ASSUME NEW h \in Calls, Reconciles(h) PROVE ChainInv'
  BY <1>33 DEF Reconciles, GoesOn, EndingReason
<1>34. ASSUME NEW h \in Calls, DecidesToRefresh(h) PROVE ChainInv'
  BY <1>34 DEF DecidesToRefresh, GoesOn, EndingReason
<1>35. ASSUME NEW h \in Calls, Reconciled(h) PROVE ChainInv'
  <2>1. PICK r \in Reasons : Terminate(h, r)
    BY <1>35 DEF Reconciled
  <2>2. at[h] \notin {"none", "completing", "done", "storing", "closing", "awaiting"}
    BY <1>35 DEF Reconciled
  <2> HIDE DEF TypeOK, ChainInv, ChainShape, CallShape, RegistryShape, Live
  <2> QED
    BY <1>35, <2>1, <2>2, TerminateChain
<1>36. ASSUME NEW h \in Calls, RetryAfterPasses(h) PROVE ChainInv'
  BY <1>36 DEF RetryAfterPasses
<1>37. ASSUME NEW h \in Calls, SleepEnds(h) PROVE ChainInv'
  BY <1>37 DEF SleepEnds, Wakes
<1>38. ASSUME NEW h \in Calls, WaitStops(h) PROVE ChainInv'
  BY <1>38 DEF WaitStops, Wakes
<1>39. ASSUME NEW h \in Calls, RefreshAnswers(h) PROVE ChainInv'
  BY <1>39 DEF RefreshAnswers
<1>40. ASSUME NEW h \in Calls, RefreshWaits(h) PROVE ChainInv'
  BY <1>40 DEF RefreshWaits
<1>41. ASSUME NEW h \in Calls, RefreshEnds(h) PROVE ChainInv'
  BY <1>41 DEF RefreshEnds, RefreshReturns
<1>42. ASSUME NEW h \in Calls, RefreshAbandoned(h) PROVE ChainInv'
  BY <1>42 DEF RefreshAbandoned, RefreshReturns
<1>43. ASSUME NEW h \in Calls, RefreshApplied(h) PROVE ChainInv'
  BY <1>43 DEF RefreshApplied
<1>44. ASSUME NEW h \in Calls, EndsAfterRefresh(h) PROVE ChainInv'
  <2>1. PICK r \in Reasons : Terminate(h, r)
    BY <1>44 DEF EndsAfterRefresh
  <2>2. at[h] \notin {"none", "completing", "done", "storing", "closing", "awaiting"}
    BY <1>44 DEF EndsAfterRefresh
  <2> HIDE DEF TypeOK, ChainInv, ChainShape, CallShape, RegistryShape, Live
  <2> QED
    BY <1>44, <2>1, <2>2, TerminateChain
<1>45. ASSUME NEW h \in Calls, CompleteChain(h) PROVE ChainInv'
  BY <1>45 DEF CompleteChain
<1>46. ASSUME BeginShutdown PROVE ChainInv'
  BY <1>46 DEF BeginShutdown
<1>47. ASSUME ShutdownStops PROVE ChainInv'
  BY <1>47 DEF ShutdownStops
<1>48. ASSUME NEW h \in Calls, ShutdownClosesHandle(h) PROVE ChainInv'
  BY <1>48 DEF ShutdownClosesHandle, GivesUpLease
<1>49. ASSUME ShutdownClosesBindings PROVE ChainInv'
  BY <1>49 DEF ShutdownClosesBindings
<1>50. ASSUME NEW h \in Calls, ShutdownStartsDriver(h) PROVE ChainInv'
  BY <1>50 DEF ShutdownStartsDriver
<1>51. ASSUME ShutdownReturns PROVE ChainInv'
  BY <1>51 DEF ShutdownReturns
<1>53. ASSUME NEW c \in Calls, RaiseOwner(c) PROVE ChainInv'
  BY <1>53 DEF RaiseOwner, Raised, Higher
<1>52. ASSUME UNCHANGED vars PROVE ChainInv'
  BY <1>52 DEF vars
<1> HIDE DEF ChainInv, TypeOK, ChainShape, CallShape, RegistryShape, Live
<1> QED
  BY <1>1, <1>2, <1>3, <1>4, <1>5, <1>6, <1>7, <1>8, <1>9, <1>10, <1>11,
     <1>12, <1>13, <1>14, <1>15, <1>16, <1>17, <1>18, <1>19, <1>20, <1>21,
     <1>22, <1>23, <1>24, <1>25, <1>26, <1>27, <1>28, <1>29, <1>30, <1>31,
     <1>32, <1>33, <1>34, <1>35, <1>36, <1>37, <1>38, <1>39, <1>40, <1>41,
     <1>42, <1>43, <1>44, <1>45, <1>46, <1>47, <1>48, <1>49, <1>50, <1>51,
     <1>52, <1>53
     DEF Next, Acquire, Handle, Prepare, RunOwner, DecideAndAct, Wait, Drive, World, Shutdown

\* Who is aboard of a chain is no longer aboard of a live one when it ends, and it
\* ends for want of demand only when nobody is.
LEMMA TerminateDemand ==
    ASSUME DemandInv, NEW h \in Calls, NEW r \in Reasons, Terminate(h, r),
           Live(h), r = "NO_REMAINING_DEMAND" => consumers[h] = {}, ChainInv, ChainInv'
    PROVE  DemandInv'
<1> USE DEF DemandInv, Aboard, Live
<1>1. /\ state' = [state EXCEPT ![h] = "TERMINAL"]
      /\ consumers' = [consumers EXCEPT ![h] = {}]
      /\ reason' = [reason EXCEPT ![h] = r]
      /\ pc' = pc /\ on' = on
  BY DEF Terminate, callVars
<1>2. /\ state \in [Calls -> States] /\ consumers \in [Calls -> SUBSET Consumers]
      /\ reason \in [Calls -> Reasons \union {"none"}]
  BY DEF ChainInv, TypeOK
<1>3. \A c, g \in Calls : Aboard(c, g)' /\ Live(g)' => Request[c].consumer \in consumers'[g]
  BY <1>1, <1>2
<1>4. \A c, d, g \in Calls :
        Aboard(c, g)' /\ Aboard(d, g)' /\ c # d /\ Live(g)' =>
            Request[c].consumer # Request[d].consumer
  BY <1>1, <1>2
<1>5. \A c, g \in Calls : Aboard(c, g)' => state'[g] # "UNBORN"
  BY <1>1, <1>2
<1>6. r = "NO_REMAINING_DEMAND" => \A c \in Calls : ~Aboard(c, h)
  OBVIOUS
<1>7. NobodyDenied'
  BY <1>1, <1>2, <1>6 DEF NobodyDenied
<1> QED
  BY <1>3, <1>4, <1>5, <1>7

\* A chain counts the demand of everyone aboard of it, under an id of its own.
LEMMA DemandStep ==
    ChainInv /\ ChainInv' /\ DemandInv /\ [Next]_vars => DemandInv'
<1> SUFFICES ASSUME ChainInv, ChainInv', DemandInv, [Next]_vars PROVE DemandInv'
  OBVIOUS
<1> USE RequestType, NoneAssumption
        DEF ChainInv, TypeOK, ChainShape, CallShape, RegistryShape, Live, AtWork,
            States, Reasons, Verdicts, RefreshResults, Positions, Owners,
            Places, ShutdownRecord, Priorities, RESERVE, PLAYBACK, DemandInv,
            Aboard, NobodyDenied, KeyOf, GoTo, Drives, demandVars, endVars,
            ledgerVars, ownerVars, driverVars, callVars
<1>1. ASSUME NEW c \in Calls, AcquireOnClosing(c) PROVE DemandInv'
  BY <1>1 DEF AcquireOnClosing
<1>2. ASSUME NEW c \in Calls, AcquireNewChain(c) PROVE DemandInv'
  BY <1>2 DEF AcquireNewChain, Admits
<1>3. ASSUME NEW c \in Calls, AcquireJoins(c) PROVE DemandInv'
  BY <1>3 DEF AcquireJoins, Admits, Joinable, Raised, Higher, SameWork
<1>4. ASSUME NEW c \in Calls, AcquireConflicts(c) PROVE DemandInv'
  BY <1>4 DEF AcquireConflicts, Admits, Joinable
<1>5. ASSUME NEW c \in Calls, StartDriver(c) PROVE DemandInv'
  BY <1>5 DEF StartDriver
<1>6. ASSUME NEW c \in Calls, AcquireReturns(c) PROVE DemandInv'
  BY <1>6 DEF AcquireReturns
<1>7. ASSUME NEW c \in Calls, AwaitReturns(c) PROVE DemandInv'
  BY <1>7 DEF AwaitReturns
<1>8. ASSUME NEW c \in Calls, ReleaseOfTerminal(c) PROVE DemandInv'
  BY <1>8 DEF ReleaseOfTerminal, MayLeave
<1>9. ASSUME NEW c \in Calls, ReleaseNotLast(c) PROVE DemandInv'
  BY <1>9 DEF ReleaseNotLast, MayLeave, IsLast
<1>10. ASSUME NEW c \in Calls, ReleaseLast(c) PROVE DemandInv'
  <2>1. PICK h \in Calls : ReleaseLast(c)!(h)
    BY <1>10 DEF ReleaseLast
  <2>2. \A d \in Calls : Aboard(d, h) => d = c
    <3>1. /\ Aboard(c, h) /\ state[h] # "TERMINAL"
          /\ consumers[h] = {Request[c].consumer}
      BY <1>10, <2>1 DEF MayLeave, IsLast
    <3>2. Live(h)
      BY <3>1, <1>10
    <3>3. \A d \in Calls : Aboard(d, h) => Request[d].consumer \in consumers[h]
      BY <3>2, <1>10
    <3>4. \A d \in Calls : Aboard(d, h) /\ d # c => Request[d].consumer # Request[c].consumer
      BY <3>1, <3>2, <1>10
    <3> QED
      BY ONLY <3>1, <3>3, <3>4
  <2>3. /\ \A d \in Calls \ {c} : pc'[d] = pc[d] /\ on'[d] = on[d]
        /\ pc'[c] \in {"closing", "ended"}
    BY <1>10, <2>1
  <2>4. /\ \A g \in Calls \ {h} : consumers'[g] = consumers[g]
        /\ \A g \in Calls : (state[g] = "UNBORN" <=> state'[g] = "UNBORN")
        /\ \A g \in Calls : (Live(g) <=> Live(g)')
        /\ reason' = reason
    BY <1>10, <2>1
  <2>5. \A d, g \in Calls : Aboard(d, g)' => d # c /\ g # h /\ Aboard(d, g)
    BY <2>2, <2>3
  <2> HIDE DEF ChainInv, TypeOK, Live, Aboard, ChainShape, CallShape, RegistryShape
  <2>6. NobodyDenied'
    BY <1>10, <2>4, <2>5
  <2> QED
    BY <1>10, <2>4, <2>5, <2>6
<1>11. ASSUME NEW c \in Calls, CloseHandle(c) PROVE DemandInv'
  BY <1>11 DEF CloseHandle, GivesUpLease
<1>12. ASSUME NEW h \in Calls, EndsAtHead(h) PROVE DemandInv'
  <2>1. Live(h)
    BY <1>12 DEF EndsAtHead
  <2>2. PICK r \in Reasons : Terminate(h, r) /\ (r = "NO_REMAINING_DEMAND" => consumers[h] = {})
    BY <1>12 DEF EndsAtHead, NoAttemptReason, Demanded
  <2> HIDE DEF ChainInv, TypeOK, DemandInv, ChainShape, CallShape, RegistryShape, NobodyDenied
  <2> QED
    BY <1>12, <2>1, <2>2, TerminateDemand
<1>13. ASSUME NEW h \in Calls, PassesHead(h) PROVE DemandInv'
  BY <1>13 DEF PassesHead, NoAttemptReason
<1>14. ASSUME NEW h \in Calls, GateOpen(h) PROVE DemandInv'
  <2>1. Live(h)
    BY <1>14 DEF GateOpen
  <2>2. \A g \in Calls : Live(g)' => Live(g)
    BY <1>14, <2>1 DEF GateOpen
  <2>3. /\ UNCHANGED <<consumers, reason, pc, on>>
        /\ \A g \in Calls : state[g] # "UNBORN" => state'[g] # "UNBORN"
    BY <1>14 DEF GateOpen
  <2> HIDE DEF ChainInv, TypeOK, Live, ChainShape, CallShape, RegistryShape
  <2> QED
    BY <1>14, <2>2, <2>3
<1>15. ASSUME NEW h \in Calls, GateShut(h) PROVE DemandInv'
  <2>1. Live(h)
    BY <1>15 DEF GateShut
  <2>2. \A g \in Calls : Live(g)' => Live(g)
    BY <1>15, <2>1 DEF GateShut
  <2>3. /\ UNCHANGED <<consumers, reason, pc, on>>
        /\ \A g \in Calls : state[g] # "UNBORN" => state'[g] # "UNBORN"
    BY <1>15 DEF GateShut
  <2> HIDE DEF ChainInv, TypeOK, Live, ChainShape, CallShape, RegistryShape
  <2> QED
    BY <1>15, <2>2, <2>3
<1>16. ASSUME NEW h \in Calls, GateOpens(h) PROVE DemandInv'
  BY <1>16 DEF GateOpens
<1>17. ASSUME NEW h \in Calls, GateFails(h) PROVE DemandInv'
  <2>1. Live(h)
    BY <1>17 DEF GateFails
  <2>2. PICK r \in Reasons : Terminate(h, r) /\ (r = "NO_REMAINING_DEMAND" => consumers[h] = {})
    BY <1>17 DEF GateFails, Demanded
  <2> HIDE DEF ChainInv, TypeOK, DemandInv, ChainShape, CallShape, RegistryShape, NobodyDenied
  <2> QED
    BY <1>17, <2>1, <2>2, TerminateDemand
<1>18. ASSUME NEW h \in Calls, EndsPermitted(h) PROVE DemandInv'
  <2>1. Live(h)
    BY <1>18 DEF EndsPermitted
  <2>2. PICK r \in Reasons : Terminate(h, r) /\ (r = "NO_REMAINING_DEMAND" => consumers[h] = {})
    BY <1>18 DEF EndsPermitted, NoAttemptReason, Demanded
  <2> HIDE DEF ChainInv, TypeOK, DemandInv, ChainShape, CallShape, RegistryShape, NobodyDenied
  <2> QED
    BY <1>18, <2>1, <2>2, TerminateDemand
<1>19. ASSUME NEW h \in Calls, PassesPermitted(h) PROVE DemandInv'
  BY <1>19 DEF PassesPermitted, NoAttemptReason
<1>20. ASSUME NEW h \in Calls, BecomeActive(h) PROVE DemandInv'
  <2>1. Live(h)
    BY <1>20 DEF BecomeActive
  <2>2. \A g \in Calls : Live(g)' => Live(g)
    BY <1>20, <2>1 DEF BecomeActive
  <2>3. /\ UNCHANGED <<consumers, reason, pc, on>>
        /\ \A g \in Calls : state[g] # "UNBORN" => state'[g] # "UNBORN"
    BY <1>20 DEF BecomeActive
  <2> HIDE DEF ChainInv, TypeOK, Live, ChainShape, CallShape, RegistryShape
  <2> QED
    BY <1>20, <2>2, <2>3
<1>21. ASSUME NEW h \in Calls, AcquireOwner(h) PROVE DemandInv'
  BY <1>21 DEF AcquireOwner
<1>22. ASSUME NEW h \in Calls, StoreHandle(h) PROVE DemandInv'
  <2>1. Live(h)
    BY <1>22 DEF StoreHandle, CloseNow, RaiseTo, Raised, Higher
  <2>2. \A g \in Calls : Live(g)' => Live(g)
    BY <1>22, <2>1 DEF StoreHandle, CloseNow, RaiseTo, Raised, Higher
  <2>3. /\ UNCHANGED <<consumers, reason, pc, on>>
        /\ \A g \in Calls : state[g] # "UNBORN" => state'[g] # "UNBORN"
    BY <1>22 DEF StoreHandle, CloseNow, RaiseTo, Raised, Higher
  <2> HIDE DEF ChainInv, TypeOK, Live, ChainShape, CallShape, RegistryShape
  <2> QED
    BY <1>22, <2>2, <2>3
<1>23. ASSUME NEW h \in Calls, DriverCloses(h) PROVE DemandInv'
  BY <1>23 DEF DriverCloses, GivesUpLease
<1>24. ASSUME NEW h \in Calls, OwnerFinished(h) PROVE DemandInv'
  BY <1>24 DEF OwnerFinished, AfterOwner
<1>25. ASSUME NEW h \in Calls, Admission(h) PROVE DemandInv'
  BY <1>25 DEF Admission, OwnerEnds, Charge, Remaining, AtWork
<1>26. ASSUME NEW h \in Calls, FailsInPreflight(h) PROVE DemandInv'
  BY <1>26 DEF FailsInPreflight, OwnerEnds
<1>27. ASSUME NEW h \in Calls, AttemptEnds(h) PROVE DemandInv'
  BY <1>27 DEF AttemptEnds, OwnerEnds
<1>28. ASSUME NEW h \in Calls, OwnerCancelled(h) PROVE DemandInv'
  BY <1>28 DEF OwnerCancelled, OwnerEnds, AtWork
<1>29. ASSUME NEW h \in Calls, DecidesToEnd(h) PROVE DemandInv'
  <2>1. Live(h)
    BY <1>29 DEF DecidesToEnd
  <2>2. PICK r \in Reasons : Terminate(h, r) /\ (r = "NO_REMAINING_DEMAND" => consumers[h] = {})
    BY <1>29 DEF DecidesToEnd, EndingReason, Demanded
  <2> HIDE DEF ChainInv, TypeOK, DemandInv, ChainShape, CallShape, RegistryShape, NobodyDenied
  <2> QED
    BY <1>29, <2>1, <2>2, TerminateDemand
<1>30. ASSUME NEW h \in Calls, SchedulesBackoff(h) PROVE DemandInv'
  <2>1. Live(h)
    BY <1>30 DEF SchedulesBackoff, GoesOn, EndingReason
  <2>2. \A g \in Calls : Live(g)' => Live(g)
    BY <1>30, <2>1 DEF SchedulesBackoff, GoesOn, EndingReason
  <2>3. /\ UNCHANGED <<consumers, reason, pc, on>>
        /\ \A g \in Calls : state[g] # "UNBORN" => state'[g] # "UNBORN"
    BY <1>30 DEF SchedulesBackoff, GoesOn, EndingReason
  <2> HIDE DEF ChainInv, TypeOK, Live, ChainShape, CallShape, RegistryShape
  <2> QED
    BY <1>30, <2>2, <2>3
<1>31. ASSUME NEW h \in Calls, WaitsForProvider(h) PROVE DemandInv'
  <2>1. Live(h)
    BY <1>31 DEF WaitsForProvider, GoesOn, EndingReason
  <2>2. \A g \in Calls : Live(g)' => Live(g)
    BY <1>31, <2>1 DEF WaitsForProvider, GoesOn, EndingReason
  <2>3. /\ UNCHANGED <<consumers, reason, pc, on>>
        /\ \A g \in Calls : state[g] # "UNBORN" => state'[g] # "UNBORN"
    BY <1>31 DEF WaitsForProvider, GoesOn, EndingReason
  <2> HIDE DEF ChainInv, TypeOK, Live, ChainShape, CallShape, RegistryShape
  <2> QED
    BY <1>31, <2>2, <2>3
<1>32. ASSUME NEW h \in Calls, StartsNextOwner(h) PROVE DemandInv'
  BY <1>32 DEF StartsNextOwner, GoesOn, EndingReason
<1>33. ASSUME NEW h \in Calls, Reconciles(h) PROVE DemandInv'
  BY <1>33 DEF Reconciles, GoesOn, EndingReason
<1>34. ASSUME NEW h \in Calls, DecidesToRefresh(h) PROVE DemandInv'
  BY <1>34 DEF DecidesToRefresh, GoesOn, EndingReason
<1>35. ASSUME NEW h \in Calls, Reconciled(h) PROVE DemandInv'
  <2>1. Live(h)
    BY <1>35 DEF Reconciled
  <2>2. PICK r \in Reasons : Terminate(h, r) /\ (r = "NO_REMAINING_DEMAND" => consumers[h] = {})
    BY <1>35 DEF Reconciled, Demanded
  <2> HIDE DEF ChainInv, TypeOK, DemandInv, ChainShape, CallShape, RegistryShape, NobodyDenied
  <2> QED
    BY <1>35, <2>1, <2>2, TerminateDemand
<1>36. ASSUME NEW h \in Calls, RetryAfterPasses(h) PROVE DemandInv'
  BY <1>36 DEF RetryAfterPasses
<1>37. ASSUME NEW h \in Calls, SleepEnds(h) PROVE DemandInv'
  BY <1>37 DEF SleepEnds, Wakes
<1>38. ASSUME NEW h \in Calls, WaitStops(h) PROVE DemandInv'
  BY <1>38 DEF WaitStops, Wakes
<1>39. ASSUME NEW h \in Calls, RefreshAnswers(h) PROVE DemandInv'
  <2>1. Live(h)
    BY <1>39 DEF RefreshAnswers
  <2>2. \A g \in Calls : Live(g)' => Live(g)
    BY <1>39, <2>1 DEF RefreshAnswers
  <2>3. /\ UNCHANGED <<consumers, reason, pc, on>>
        /\ \A g \in Calls : state[g] # "UNBORN" => state'[g] # "UNBORN"
    BY <1>39 DEF RefreshAnswers
  <2> HIDE DEF ChainInv, TypeOK, Live, ChainShape, CallShape, RegistryShape
  <2> QED
    BY <1>39, <2>2, <2>3
<1>40. ASSUME NEW h \in Calls, RefreshWaits(h) PROVE DemandInv'
  <2>1. Live(h)
    BY <1>40 DEF RefreshWaits
  <2>2. \A g \in Calls : Live(g)' => Live(g)
    BY <1>40, <2>1 DEF RefreshWaits
  <2>3. /\ UNCHANGED <<consumers, reason, pc, on>>
        /\ \A g \in Calls : state[g] # "UNBORN" => state'[g] # "UNBORN"
    BY <1>40 DEF RefreshWaits
  <2> HIDE DEF ChainInv, TypeOK, Live, ChainShape, CallShape, RegistryShape
  <2> QED
    BY <1>40, <2>2, <2>3
<1>41. ASSUME NEW h \in Calls, RefreshEnds(h) PROVE DemandInv'
  BY <1>41 DEF RefreshEnds, RefreshReturns
<1>42. ASSUME NEW h \in Calls, RefreshAbandoned(h) PROVE DemandInv'
  BY <1>42 DEF RefreshAbandoned, RefreshReturns
<1>43. ASSUME NEW h \in Calls, RefreshApplied(h) PROVE DemandInv'
  BY <1>43 DEF RefreshApplied
<1>44. ASSUME NEW h \in Calls, EndsAfterRefresh(h) PROVE DemandInv'
  <2>1. Live(h)
    BY <1>44 DEF EndsAfterRefresh
  <2>2. PICK r \in Reasons : Terminate(h, r) /\ (r = "NO_REMAINING_DEMAND" => consumers[h] = {})
    BY <1>44 DEF EndsAfterRefresh, Demanded
  <2> HIDE DEF ChainInv, TypeOK, DemandInv, ChainShape, CallShape, RegistryShape, NobodyDenied
  <2> QED
    BY <1>44, <2>1, <2>2, TerminateDemand
<1>45. ASSUME NEW h \in Calls, CompleteChain(h) PROVE DemandInv'
  BY <1>45 DEF CompleteChain
<1>46. ASSUME BeginShutdown PROVE DemandInv'
  BY <1>46 DEF BeginShutdown
<1>47. ASSUME ShutdownStops PROVE DemandInv'
  BY <1>47 DEF ShutdownStops
<1>48. ASSUME NEW h \in Calls, ShutdownClosesHandle(h) PROVE DemandInv'
  BY <1>48 DEF ShutdownClosesHandle, GivesUpLease
<1>49. ASSUME ShutdownClosesBindings PROVE DemandInv'
  BY <1>49 DEF ShutdownClosesBindings
<1>50. ASSUME NEW h \in Calls, ShutdownStartsDriver(h) PROVE DemandInv'
  BY <1>50 DEF ShutdownStartsDriver
<1>51. ASSUME ShutdownReturns PROVE DemandInv'
  BY <1>51 DEF ShutdownReturns
<1>53. ASSUME NEW c \in Calls, RaiseOwner(c) PROVE DemandInv'
  BY <1>53 DEF RaiseOwner, Raised, Higher
<1>52. ASSUME UNCHANGED vars PROVE DemandInv'
  BY <1>52 DEF vars
<1> HIDE DEF ChainInv, TypeOK, DemandInv, ChainShape, CallShape, RegistryShape, NobodyDenied
<1> QED
  BY <1>1, <1>2, <1>3, <1>4, <1>5, <1>6, <1>7, <1>8, <1>9, <1>10, <1>11,
     <1>12, <1>13, <1>14, <1>15, <1>16, <1>17, <1>18, <1>19, <1>20, <1>21,
     <1>22, <1>23, <1>24, <1>25, <1>26, <1>27, <1>28, <1>29, <1>30, <1>31,
     <1>32, <1>33, <1>34, <1>35, <1>36, <1>37, <1>38, <1>39, <1>40, <1>41,
     <1>42, <1>43, <1>44, <1>45, <1>46, <1>47, <1>48, <1>49, <1>50, <1>51,
     <1>52, <1>53
     DEF Next, Acquire, Handle, Prepare, RunOwner, DecideAndAct, Wait, Drive, World, Shutdown

LEMMA TerminateWait ==
    ASSUME WaitInv, NEW h \in Calls, NEW r \in Reasons, Terminate(h, r), ChainInv
    PROVE  WaitInv'
BY DEF ChainInv, TypeOK, WaitInv, Demanded, Live, Terminate, Drives

\* A live chain is told to stop waiting only when it is unwanted or all must end.
LEMMA WaitStep ==
    ChainInv /\ ChainInv' /\ DemandInv /\ WaitInv /\ [Next]_vars => WaitInv'
<1> SUFFICES ASSUME ChainInv, ChainInv', DemandInv, WaitInv, [Next]_vars PROVE WaitInv'
  OBVIOUS
<1> USE NoneAssumption
        DEF ChainInv, TypeOK, ChainShape, CallShape, RegistryShape, Live, AtWork,
            States, Reasons, Verdicts, RefreshResults, Positions, Owners,
            Places, ShutdownRecord, Priorities, RESERVE, PLAYBACK, WaitInv,
            Demanded, GoTo, Drives, demandVars, endVars, ledgerVars,
            ownerVars, driverVars, callVars
<1>1. ASSUME NEW c \in Calls, AcquireOnClosing(c) PROVE WaitInv'
  BY <1>1 DEF AcquireOnClosing
<1>2. ASSUME NEW c \in Calls, AcquireNewChain(c) PROVE WaitInv'
  <2>1. state[c] = "UNBORN" /\ ~throttled[c] /\ ~stopWaiting[c]
    BY <1>2 DEF AcquireNewChain, Admits
  <2>2. \A g \in Calls \ {c} : state'[g] = state[g] /\ consumers'[g] = consumers[g] /\ at'[g] = at[g]
    BY <1>2 DEF AcquireNewChain
  <2>3. consumers'[c] # {}
    <3>1. consumers' = [consumers EXCEPT ![c] = {Request[c].consumer}]
      BY <1>2 DEF AcquireNewChain
    <3>2. consumers \in [Calls -> SUBSET Consumers]
      BY <1>2
    <3> QED
      BY ONLY <3>1, <3>2, c \in Calls
  <2>4. UNCHANGED <<stopWaiting, throttled, closing, shutdown>>
    BY <1>2 DEF AcquireNewChain
  <2>5. (shutdown.pc # "idle" => closing)'
    BY <1>2, <2>4
  <2> HIDE DEF ChainInv, TypeOK, ChainShape, CallShape, RegistryShape
  <2> QED
    BY <1>2, <2>1, <2>2, <2>3, <2>4, <2>5
<1>3. ASSUME NEW c \in Calls, AcquireJoins(c) PROVE WaitInv'
  BY <1>3 DEF AcquireJoins, Admits, Joinable, Raised, Higher, SameWork
<1>4. ASSUME NEW c \in Calls, AcquireConflicts(c) PROVE WaitInv'
  BY <1>4 DEF AcquireConflicts, Admits, Joinable
<1>5. ASSUME NEW c \in Calls, StartDriver(c) PROVE WaitInv'
  BY <1>5 DEF StartDriver
<1>6. ASSUME NEW c \in Calls, AcquireReturns(c) PROVE WaitInv'
  BY <1>6 DEF AcquireReturns
<1>7. ASSUME NEW c \in Calls, AwaitReturns(c) PROVE WaitInv'
  BY <1>7 DEF AwaitReturns
<1>8. ASSUME NEW c \in Calls, ReleaseOfTerminal(c) PROVE WaitInv'
  BY <1>8 DEF ReleaseOfTerminal, MayLeave
<1>9. ASSUME NEW c \in Calls, ReleaseNotLast(c) PROVE WaitInv'
  BY <1>9 DEF ReleaseNotLast, MayLeave, IsLast
<1>10. ASSUME NEW c \in Calls, ReleaseLast(c) PROVE WaitInv'
  <2>1. PICK h \in Calls : ReleaseLast(c)!(h)
    BY <1>10 DEF ReleaseLast
  <2>2. state[h] # "UNBORN"
    BY <1>10, <2>1 DEF MayLeave, DemandInv, Aboard
  <2>3. /\ \A g \in Calls \ {h} :
            /\ state'[g] = state[g] /\ consumers'[g] = consumers[g]
            /\ stopWaiting'[g] = stopWaiting[g] /\ throttled'[g] = throttled[g]
        /\ state'[h] # "UNBORN" /\ ~throttled'[h]
        /\ at' = at /\ closing' = closing /\ shutdown' = shutdown
    BY <1>10, <2>1, <2>2
  <2>4. ~Demanded(h)'
    BY <1>10, <2>1
  <2> HIDE DEF ChainInv, TypeOK, ChainShape, CallShape, RegistryShape
  <2> QED
    BY <1>10, <2>3, <2>4
<1>11. ASSUME NEW c \in Calls, CloseHandle(c) PROVE WaitInv'
  BY <1>11 DEF CloseHandle, GivesUpLease
<1>12. ASSUME NEW h \in Calls, EndsAtHead(h) PROVE WaitInv'
  <2>1. PICK r \in Reasons : Terminate(h, r)
    BY <1>12 DEF EndsAtHead, NoAttemptReason
  <2> HIDE DEF ChainInv, TypeOK, WaitInv
  <2> QED
    BY <1>12, <2>1, TerminateWait
<1>13. ASSUME NEW h \in Calls, PassesHead(h) PROVE WaitInv'
  BY <1>13 DEF PassesHead, NoAttemptReason
<1>14. ASSUME NEW h \in Calls, GateOpen(h) PROVE WaitInv'
  BY <1>14 DEF GateOpen
<1>15. ASSUME NEW h \in Calls, GateShut(h) PROVE WaitInv'
  BY <1>15 DEF GateShut
<1>16. ASSUME NEW h \in Calls, GateOpens(h) PROVE WaitInv'
  BY <1>16 DEF GateOpens
<1>17. ASSUME NEW h \in Calls, GateFails(h) PROVE WaitInv'
  <2>1. PICK r \in Reasons : Terminate(h, r)
    BY <1>17 DEF GateFails
  <2> HIDE DEF ChainInv, TypeOK, WaitInv
  <2> QED
    BY <1>17, <2>1, TerminateWait
<1>18. ASSUME NEW h \in Calls, EndsPermitted(h) PROVE WaitInv'
  <2>1. PICK r \in Reasons : Terminate(h, r)
    BY <1>18 DEF EndsPermitted, NoAttemptReason
  <2> HIDE DEF ChainInv, TypeOK, WaitInv
  <2> QED
    BY <1>18, <2>1, TerminateWait
<1>19. ASSUME NEW h \in Calls, PassesPermitted(h) PROVE WaitInv'
  BY <1>19 DEF PassesPermitted, NoAttemptReason
<1>20. ASSUME NEW h \in Calls, BecomeActive(h) PROVE WaitInv'
  BY <1>20 DEF BecomeActive
<1>21. ASSUME NEW h \in Calls, AcquireOwner(h) PROVE WaitInv'
  BY <1>21 DEF AcquireOwner
<1>22. ASSUME NEW h \in Calls, StoreHandle(h) PROVE WaitInv'
  BY <1>22 DEF StoreHandle, CloseNow, RaiseTo, Raised, Higher
<1>23. ASSUME NEW h \in Calls, DriverCloses(h) PROVE WaitInv'
  BY <1>23 DEF DriverCloses, GivesUpLease
<1>24. ASSUME NEW h \in Calls, OwnerFinished(h) PROVE WaitInv'
  BY <1>24 DEF OwnerFinished, AfterOwner
<1>25. ASSUME NEW h \in Calls, Admission(h) PROVE WaitInv'
  BY <1>25 DEF Admission, OwnerEnds, Charge, Remaining, AtWork
<1>26. ASSUME NEW h \in Calls, FailsInPreflight(h) PROVE WaitInv'
  BY <1>26 DEF FailsInPreflight, OwnerEnds
<1>27. ASSUME NEW h \in Calls, AttemptEnds(h) PROVE WaitInv'
  BY <1>27 DEF AttemptEnds, OwnerEnds
<1>28. ASSUME NEW h \in Calls, OwnerCancelled(h) PROVE WaitInv'
  BY <1>28 DEF OwnerCancelled, OwnerEnds, AtWork
<1>29. ASSUME NEW h \in Calls, DecidesToEnd(h) PROVE WaitInv'
  <2>1. PICK r \in Reasons : Terminate(h, r)
    BY <1>29 DEF DecidesToEnd, EndingReason
  <2> HIDE DEF ChainInv, TypeOK, WaitInv
  <2> QED
    BY <1>29, <2>1, TerminateWait
<1>30. ASSUME NEW h \in Calls, SchedulesBackoff(h) PROVE WaitInv'
  BY <1>30 DEF SchedulesBackoff, GoesOn, EndingReason
<1>31. ASSUME NEW h \in Calls, WaitsForProvider(h) PROVE WaitInv'
  BY <1>31 DEF WaitsForProvider, GoesOn, EndingReason
<1>32. ASSUME NEW h \in Calls, StartsNextOwner(h) PROVE WaitInv'
  BY <1>32 DEF StartsNextOwner, GoesOn, EndingReason
<1>33. ASSUME NEW h \in Calls, Reconciles(h) PROVE WaitInv'
  BY <1>33 DEF Reconciles, GoesOn, EndingReason
<1>34. ASSUME NEW h \in Calls, DecidesToRefresh(h) PROVE WaitInv'
  BY <1>34 DEF DecidesToRefresh, GoesOn, EndingReason
<1>35. ASSUME NEW h \in Calls, Reconciled(h) PROVE WaitInv'
  <2>1. PICK r \in Reasons : Terminate(h, r)
    BY <1>35 DEF Reconciled
  <2> HIDE DEF ChainInv, TypeOK, WaitInv
  <2> QED
    BY <1>35, <2>1, TerminateWait
<1>36. ASSUME NEW h \in Calls, RetryAfterPasses(h) PROVE WaitInv'
  BY <1>36 DEF RetryAfterPasses
<1>37. ASSUME NEW h \in Calls, SleepEnds(h) PROVE WaitInv'
  BY <1>37 DEF SleepEnds, Wakes
<1>38. ASSUME NEW h \in Calls, WaitStops(h) PROVE WaitInv'
  BY <1>38 DEF WaitStops, Wakes
<1>39. ASSUME NEW h \in Calls, RefreshAnswers(h) PROVE WaitInv'
  BY <1>39 DEF RefreshAnswers
<1>40. ASSUME NEW h \in Calls, RefreshWaits(h) PROVE WaitInv'
  BY <1>40 DEF RefreshWaits
<1>41. ASSUME NEW h \in Calls, RefreshEnds(h) PROVE WaitInv'
  BY <1>41 DEF RefreshEnds, RefreshReturns
<1>42. ASSUME NEW h \in Calls, RefreshAbandoned(h) PROVE WaitInv'
  BY <1>42 DEF RefreshAbandoned, RefreshReturns
<1>43. ASSUME NEW h \in Calls, RefreshApplied(h) PROVE WaitInv'
  BY <1>43 DEF RefreshApplied
<1>44. ASSUME NEW h \in Calls, EndsAfterRefresh(h) PROVE WaitInv'
  <2> HIDE DEF ChainInv, TypeOK, WaitInv
  <2> QED
    BY <1>44, TerminateWait DEF EndsAfterRefresh
<1>45. ASSUME NEW h \in Calls, CompleteChain(h) PROVE WaitInv'
  BY <1>45 DEF CompleteChain
<1>46. ASSUME BeginShutdown PROVE WaitInv'
  BY <1>46 DEF BeginShutdown
<1>47. ASSUME ShutdownStops PROVE WaitInv'
  BY <1>47 DEF ShutdownStops
<1>48. ASSUME NEW h \in Calls, ShutdownClosesHandle(h) PROVE WaitInv'
  BY <1>48 DEF ShutdownClosesHandle, GivesUpLease
<1>49. ASSUME ShutdownClosesBindings PROVE WaitInv'
  BY <1>49 DEF ShutdownClosesBindings
<1>50. ASSUME NEW h \in Calls, ShutdownStartsDriver(h) PROVE WaitInv'
  BY <1>50 DEF ShutdownStartsDriver
<1>51. ASSUME ShutdownReturns PROVE WaitInv'
  BY <1>51 DEF ShutdownReturns
<1>53. ASSUME NEW c \in Calls, RaiseOwner(c) PROVE WaitInv'
  BY <1>53 DEF RaiseOwner, Raised, Higher
<1>52. ASSUME UNCHANGED vars PROVE WaitInv'
  BY <1>52 DEF vars
<1> HIDE DEF ChainInv, TypeOK, ChainShape, CallShape, RegistryShape, Live, WaitInv
<1> QED
  BY <1>1, <1>2, <1>3, <1>4, <1>5, <1>6, <1>7, <1>8, <1>9, <1>10, <1>11,
     <1>12, <1>13, <1>14, <1>15, <1>16, <1>17, <1>18, <1>19, <1>20, <1>21,
     <1>22, <1>23, <1>24, <1>25, <1>26, <1>27, <1>28, <1>29, <1>30, <1>31,
     <1>32, <1>33, <1>34, <1>35, <1>36, <1>37, <1>38, <1>39, <1>40, <1>41,
     <1>42, <1>43, <1>44, <1>45, <1>46, <1>47, <1>48, <1>49, <1>50, <1>51,
     <1>52, <1>53
     DEF Next, Acquire, Handle, Prepare, RunOwner, DecideAndAct, Wait, Drive, World, Shutdown

\* What most steps do: no owner comes to be held, and none that is changes its priority,
\* its chain's or who is about to raise it.
RaiseStays ==
    \A h \in Calls : Held(h)' =>
        /\ Held(h) /\ ownerPriority'[h] = ownerPriority[h] /\ priority'[h] = priority[h]
        /\ \A c \in Calls : AboutToRaise(c, h) => AboutToRaise(c, h)'

LEMMA RaiseKept ==
    RaiseInv /\ RaiseStays => RaiseInv'
<1> SUFFICES ASSUME RaiseInv, RaiseStays, NEW h \in Calls, Held(h)'
    PROVE  \/ ownerPriority'[h] >= priority'[h]
           \/ \E c \in Calls : AboutToRaise(c, h)'
  BY DEF RaiseInv
<1> QED
  BY DEF RaiseInv, RaiseStays

\* The driver and those who join see to the priority of a stored handle.
LEMMA RaiseStep ==
    ChainInv /\ ChainInv' /\ RaiseInv /\ [Next]_vars => RaiseInv'
<1> SUFFICES ASSUME ChainInv, ChainInv', RaiseInv, [Next]_vars PROVE RaiseInv'
  OBVIOUS
<1> USE RequestType
        DEF ChainInv, TypeOK, ChainShape, CallShape, RegistryShape, Live, AtWork,
            States, Reasons, Verdicts, RefreshResults, Positions, Owners,
            Places, ShutdownRecord, Priorities, RESERVE, PLAYBACK, RaiseStays,
            Held, AboutToRaise, GoTo, Drives, demandVars, endVars, ledgerVars, ownerVars,
            driverVars, callVars
<1>1. ASSUME NEW c \in Calls, AcquireOnClosing(c) PROVE RaiseStays
  BY <1>1 DEF AcquireOnClosing
<1>2. ASSUME NEW c \in Calls, AcquireNewChain(c) PROVE RaiseStays
  BY <1>2 DEF AcquireNewChain, Admits
<1>3. ASSUME NEW c \in Calls, AcquireJoins(c) PROVE RaiseInv'
  <2>1. PICK h \in Calls : AcquireJoins(c)!(h)
    BY <1>3 DEF AcquireJoins
  <2>2. /\ \A g \in Calls \ {h} : priority'[g] = priority[g]
        /\ priority'[h] = Higher(priority[h], Request[c].priority)
        /\ UNCHANGED <<ownerPriority, at, leased, owner>>
        /\ pc[c] = "new" /\ on'[c] = h
        /\ pc'[c] = IF handle[h] /\ Request[c].priority > priority[h]
                    THEN "raising" ELSE "settling"
        /\ \A d \in Calls \ {c} : pc'[d] = pc[d] /\ on'[d] = on[d]
    BY <1>3, <2>1 DEF Admits
  <2>3. \A g \in Calls : Held(g)' <=> Held(g)
    BY <2>2
  <2>4. ASSUME NEW g \in Calls, g # h \/ ~(Request[c].priority > priority[h])
        PROVE  /\ priority'[g] = priority[g]
               /\ \A d \in Calls : AboutToRaise(d, g) => AboutToRaise(d, g)'
    <3>1. priority'[g] = priority[g]
      BY <2>2, <2>4 DEF Higher
    <3>2. ASSUME NEW d \in Calls, AboutToRaise(d, g) PROVE AboutToRaise(d, g)'
      BY ONLY <2>2, <3>1, <3>2 DEF AboutToRaise
    <3> QED
      BY <3>1, <3>2
  <2>5. ASSUME Held(h), Request[c].priority > priority[h] PROVE AboutToRaise(c, h)'
    <3>1. handle[h]
      BY <2>5
    <3> QED
      BY <2>2, <2>5, <3>1 DEF Higher
  <2> HIDE DEF ChainInv, TypeOK, ChainShape, CallShape, RegistryShape, Held, AboutToRaise
  <2> QED
    BY <2>2, <2>3, <2>4, <2>5 DEF RaiseInv
<1>4. ASSUME NEW c \in Calls, AcquireConflicts(c) PROVE RaiseStays
  BY <1>4 DEF AcquireConflicts, Admits, Joinable
<1>5. ASSUME NEW c \in Calls, StartDriver(c) PROVE RaiseStays
  BY <1>5 DEF StartDriver
<1>6. ASSUME NEW c \in Calls, AcquireReturns(c) PROVE RaiseStays
  BY <1>6 DEF AcquireReturns
<1>7. ASSUME NEW c \in Calls, AwaitReturns(c) PROVE RaiseStays
  BY <1>7 DEF AwaitReturns
<1>8. ASSUME NEW c \in Calls, ReleaseOfTerminal(c) PROVE RaiseStays
  BY <1>8 DEF ReleaseOfTerminal, MayLeave
<1>9. ASSUME NEW c \in Calls, ReleaseNotLast(c) PROVE RaiseStays
  BY <1>9 DEF ReleaseNotLast, MayLeave, IsLast
<1>10. ASSUME NEW c \in Calls, ReleaseLast(c) PROVE RaiseStays
  BY <1>10 DEF ReleaseLast, MayLeave, IsLast
<1>11. ASSUME NEW c \in Calls, CloseHandle(c) PROVE RaiseStays
  BY <1>11 DEF CloseHandle, GivesUpLease
<1>12. ASSUME NEW h \in Calls, EndsAtHead(h) PROVE RaiseStays
  BY <1>12 DEF EndsAtHead, NoAttemptReason, Terminate
<1>13. ASSUME NEW h \in Calls, PassesHead(h) PROVE RaiseStays
  BY <1>13 DEF PassesHead, NoAttemptReason
<1>14. ASSUME NEW h \in Calls, GateOpen(h) PROVE RaiseStays
  BY <1>14 DEF GateOpen
<1>15. ASSUME NEW h \in Calls, GateShut(h) PROVE RaiseStays
  BY <1>15 DEF GateShut
<1>16. ASSUME NEW h \in Calls, GateOpens(h) PROVE RaiseStays
  BY <1>16 DEF GateOpens
<1>17. ASSUME NEW h \in Calls, GateFails(h) PROVE RaiseStays
  BY <1>17 DEF GateFails, Terminate
<1>18. ASSUME NEW h \in Calls, EndsPermitted(h) PROVE RaiseStays
  BY <1>18 DEF EndsPermitted, NoAttemptReason, Terminate
<1>19. ASSUME NEW h \in Calls, PassesPermitted(h) PROVE RaiseStays
  BY <1>19 DEF PassesPermitted, NoAttemptReason
<1>20. ASSUME NEW h \in Calls, BecomeActive(h) PROVE RaiseStays
  BY <1>20 DEF BecomeActive
<1>21. ASSUME NEW h \in Calls, AcquireOwner(h) PROVE RaiseStays
  BY <1>21 DEF AcquireOwner
<1>22. ASSUME NEW h \in Calls, StoreHandle(h) PROVE RaiseInv'
  <2>1. ASSUME NEW g \in Calls, Held(g)', g # h
        PROVE  /\ Held(g) /\ ownerPriority'[g] = ownerPriority[g] /\ priority'[g] = priority[g]
               /\ \A c \in Calls : AboutToRaise(c, g) => AboutToRaise(c, g)'
    BY <1>22, <2>1 DEF StoreHandle, RaiseTo, Raised
  <2>2. ASSUME Held(h)' PROVE ownerPriority'[h] >= priority'[h]
    BY <1>22, <2>2 DEF StoreHandle, RaiseTo, Raised, Higher
  <2> HIDE DEF ChainInv, TypeOK, ChainShape, CallShape, RegistryShape, Held, AboutToRaise
  <2> QED
    BY <2>1, <2>2 DEF RaiseInv
<1>23. ASSUME NEW h \in Calls, DriverCloses(h) PROVE RaiseStays
  BY <1>23 DEF DriverCloses, GivesUpLease
<1>24. ASSUME NEW h \in Calls, OwnerFinished(h) PROVE RaiseStays
  BY <1>24 DEF OwnerFinished, AfterOwner
<1>25. ASSUME NEW h \in Calls, Admission(h) PROVE RaiseStays
  BY <1>25 DEF Admission, OwnerEnds, Charge, Remaining, AtWork
<1>26. ASSUME NEW h \in Calls, FailsInPreflight(h) PROVE RaiseStays
  BY <1>26 DEF FailsInPreflight, OwnerEnds
<1>27. ASSUME NEW h \in Calls, AttemptEnds(h) PROVE RaiseStays
  BY <1>27 DEF AttemptEnds, OwnerEnds
<1>28. ASSUME NEW h \in Calls, OwnerCancelled(h) PROVE RaiseStays
  BY <1>28 DEF OwnerCancelled, OwnerEnds, AtWork
<1>29. ASSUME NEW h \in Calls, DecidesToEnd(h) PROVE RaiseStays
  BY <1>29 DEF DecidesToEnd, EndingReason, Terminate
<1>30. ASSUME NEW h \in Calls, SchedulesBackoff(h) PROVE RaiseStays
  BY <1>30 DEF SchedulesBackoff, GoesOn, EndingReason
<1>31. ASSUME NEW h \in Calls, WaitsForProvider(h) PROVE RaiseStays
  BY <1>31 DEF WaitsForProvider, GoesOn, EndingReason
<1>32. ASSUME NEW h \in Calls, StartsNextOwner(h) PROVE RaiseStays
  BY <1>32 DEF StartsNextOwner, GoesOn, EndingReason
<1>33. ASSUME NEW h \in Calls, Reconciles(h) PROVE RaiseStays
  BY <1>33 DEF Reconciles, GoesOn, EndingReason
<1>34. ASSUME NEW h \in Calls, DecidesToRefresh(h) PROVE RaiseStays
  BY <1>34 DEF DecidesToRefresh, GoesOn, EndingReason
<1>35. ASSUME NEW h \in Calls, Reconciled(h) PROVE RaiseStays
  BY <1>35 DEF Reconciled, Terminate
<1>36. ASSUME NEW h \in Calls, RetryAfterPasses(h) PROVE RaiseStays
  BY <1>36 DEF RetryAfterPasses
<1>37. ASSUME NEW h \in Calls, SleepEnds(h) PROVE RaiseStays
  BY <1>37 DEF SleepEnds, Wakes
<1>38. ASSUME NEW h \in Calls, WaitStops(h) PROVE RaiseStays
  BY <1>38 DEF WaitStops, Wakes
<1>39. ASSUME NEW h \in Calls, RefreshAnswers(h) PROVE RaiseStays
  BY <1>39 DEF RefreshAnswers
<1>40. ASSUME NEW h \in Calls, RefreshWaits(h) PROVE RaiseStays
  BY <1>40 DEF RefreshWaits
<1>41. ASSUME NEW h \in Calls, RefreshEnds(h) PROVE RaiseStays
  BY <1>41 DEF RefreshEnds, RefreshReturns
<1>42. ASSUME NEW h \in Calls, RefreshAbandoned(h) PROVE RaiseStays
  BY <1>42 DEF RefreshAbandoned, RefreshReturns
<1>43. ASSUME NEW h \in Calls, RefreshApplied(h) PROVE RaiseStays
  BY <1>43 DEF RefreshApplied
<1>44. ASSUME NEW h \in Calls, EndsAfterRefresh(h) PROVE RaiseStays
  BY <1>44 DEF EndsAfterRefresh, Terminate
<1>45. ASSUME NEW h \in Calls, CompleteChain(h) PROVE RaiseStays
  BY <1>45 DEF CompleteChain
<1>46. ASSUME BeginShutdown PROVE RaiseStays
  BY <1>46 DEF BeginShutdown
<1>47. ASSUME ShutdownStops PROVE RaiseStays
  BY <1>47 DEF ShutdownStops
<1>48. ASSUME NEW h \in Calls, ShutdownClosesHandle(h) PROVE RaiseStays
  BY <1>48 DEF ShutdownClosesHandle, GivesUpLease
<1>49. ASSUME ShutdownClosesBindings PROVE RaiseStays
  BY <1>49 DEF ShutdownClosesBindings
<1>50. ASSUME NEW h \in Calls, ShutdownStartsDriver(h) PROVE RaiseStays
  BY <1>50 DEF ShutdownStartsDriver
<1>51. ASSUME ShutdownReturns PROVE RaiseStays
  BY <1>51 DEF ShutdownReturns
<1>53. ASSUME NEW c \in Calls, RaiseOwner(c) PROVE RaiseInv'
  <2>1. /\ pc[c] = "raising"
        /\ UNCHANGED <<at, leased, owner, priority>>
        /\ ownerPriority' = Raised(on[c], Request[c].priority)
        /\ \A d \in Calls \ {c} : pc'[d] = pc[d] /\ on'[d] = on[d]
    BY <1>53 DEF RaiseOwner
  <2>2. \A g \in Calls : Held(g)' <=> Held(g)
    BY <2>1
  <2>3. \A g \in Calls \ {on[c]} : ownerPriority'[g] = ownerPriority[g]
    BY <2>1 DEF Raised
  <2>4. ASSUME Held(on[c]), on[c] \in Calls
        PROVE  /\ ownerPriority'[on[c]] >= ownerPriority[on[c]]
               /\ ownerPriority'[on[c]] >= Request[c].priority
    BY <2>1, <2>4 DEF Raised, Higher
  <2>5. ASSUME NEW g \in Calls, NEW d \in Calls, AboutToRaise(d, g)
        PROVE  AboutToRaise(d, g)' \/ (d = c /\ g = on[c] /\ Request[c].priority = priority[g])
    BY <2>1, <2>5
  <2>6. \A g \in Calls : priority[g] \in {0, 1} /\ ownerPriority[g] \in {0, 1}
                         /\ ownerPriority'[g] \in {0, 1} /\ priority'[g] = priority[g]
    BY <2>1
  <2> HIDE DEF ChainInv, TypeOK, ChainShape, CallShape, RegistryShape, Held, AboutToRaise
  <2> QED
    BY <2>2, <2>3, <2>4, <2>5, <2>6 DEF RaiseInv
<1>52. ASSUME UNCHANGED vars PROVE RaiseStays
  BY <1>52 DEF vars
<1> HIDE DEF ChainInv, TypeOK, ChainShape, CallShape, RegistryShape, Live, RaiseStays, Held
<1> QED
  BY RaiseKept, <1>1, <1>2, <1>3, <1>4, <1>5, <1>6, <1>7, <1>8, <1>9, <1>10, <1>11,
     <1>12, <1>13, <1>14, <1>15, <1>16, <1>17, <1>18, <1>19, <1>20, <1>21,
     <1>22, <1>23, <1>24, <1>25, <1>26, <1>27, <1>28, <1>29, <1>30, <1>31,
     <1>32, <1>33, <1>34, <1>35, <1>36, <1>37, <1>38, <1>39, <1>40, <1>41,
     <1>42, <1>43, <1>44, <1>45, <1>46, <1>47, <1>48, <1>49, <1>50, <1>51,
     <1>52, <1>53
     DEF Next, Acquire, Handle, Prepare, RunOwner, DecideAndAct, Wait, Drive, World, Shutdown

\* shutdown() collects every live chain, and no chain begins after that.
LEMMA DrainStep ==
    ChainInv /\ ChainInv' /\ DrainInv /\ [Next]_vars => DrainInv'
<1> SUFFICES ASSUME ChainInv, ChainInv', DrainInv, [Next]_vars PROVE DrainInv'
  OBVIOUS
<1> USE NoneAssumption
        DEF ChainInv, TypeOK, ChainShape, CallShape, RegistryShape, Live, AtWork,
            States, Reasons, Verdicts, RefreshResults, Positions, Owners,
            Places, ShutdownRecord, Priorities, RESERVE, PLAYBACK, DrainInv,
            GoTo, Drives, demandVars, endVars, ledgerVars, ownerVars,
            driverVars, callVars
<1>1. ASSUME NEW c \in Calls, AcquireOnClosing(c) PROVE DrainInv'
  BY <1>1 DEF AcquireOnClosing
<1>2. ASSUME NEW c \in Calls, AcquireNewChain(c) PROVE DrainInv'
  BY <1>2 DEF AcquireNewChain, Admits
<1>3. ASSUME NEW c \in Calls, AcquireJoins(c) PROVE DrainInv'
  BY <1>3 DEF AcquireJoins, Admits, Joinable, Raised, Higher, SameWork
<1>4. ASSUME NEW c \in Calls, AcquireConflicts(c) PROVE DrainInv'
  BY <1>4 DEF AcquireConflicts, Admits, Joinable
<1>5. ASSUME NEW c \in Calls, StartDriver(c) PROVE DrainInv'
  BY <1>5 DEF StartDriver
<1>6. ASSUME NEW c \in Calls, AcquireReturns(c) PROVE DrainInv'
  BY <1>6 DEF AcquireReturns
<1>7. ASSUME NEW c \in Calls, AwaitReturns(c) PROVE DrainInv'
  BY <1>7 DEF AwaitReturns
<1>8. ASSUME NEW c \in Calls, ReleaseOfTerminal(c) PROVE DrainInv'
  BY <1>8 DEF ReleaseOfTerminal, MayLeave
<1>9. ASSUME NEW c \in Calls, ReleaseNotLast(c) PROVE DrainInv'
  BY <1>9 DEF ReleaseNotLast, MayLeave, IsLast
<1>10. ASSUME NEW c \in Calls, ReleaseLast(c) PROVE DrainInv'
  BY <1>10 DEF ReleaseLast, MayLeave, IsLast
<1>11. ASSUME NEW c \in Calls, CloseHandle(c) PROVE DrainInv'
  BY <1>11 DEF CloseHandle, GivesUpLease
<1>12. ASSUME NEW h \in Calls, EndsAtHead(h) PROVE DrainInv'
  BY <1>12 DEF EndsAtHead, NoAttemptReason, Terminate
<1>13. ASSUME NEW h \in Calls, PassesHead(h) PROVE DrainInv'
  BY <1>13 DEF PassesHead, NoAttemptReason
<1>14. ASSUME NEW h \in Calls, GateOpen(h) PROVE DrainInv'
  BY <1>14 DEF GateOpen
<1>15. ASSUME NEW h \in Calls, GateShut(h) PROVE DrainInv'
  BY <1>15 DEF GateShut
<1>16. ASSUME NEW h \in Calls, GateOpens(h) PROVE DrainInv'
  BY <1>16 DEF GateOpens
<1>17. ASSUME NEW h \in Calls, GateFails(h) PROVE DrainInv'
  BY <1>17 DEF GateFails, Terminate
<1>18. ASSUME NEW h \in Calls, EndsPermitted(h) PROVE DrainInv'
  BY <1>18 DEF EndsPermitted, NoAttemptReason, Terminate
<1>19. ASSUME NEW h \in Calls, PassesPermitted(h) PROVE DrainInv'
  BY <1>19 DEF PassesPermitted, NoAttemptReason
<1>20. ASSUME NEW h \in Calls, BecomeActive(h) PROVE DrainInv'
  BY <1>20 DEF BecomeActive
<1>21. ASSUME NEW h \in Calls, AcquireOwner(h) PROVE DrainInv'
  BY <1>21 DEF AcquireOwner
<1>22. ASSUME NEW h \in Calls, StoreHandle(h) PROVE DrainInv'
  BY <1>22 DEF StoreHandle, CloseNow, RaiseTo, Raised, Higher
<1>23. ASSUME NEW h \in Calls, DriverCloses(h) PROVE DrainInv'
  BY <1>23 DEF DriverCloses, GivesUpLease
<1>24. ASSUME NEW h \in Calls, OwnerFinished(h) PROVE DrainInv'
  BY <1>24 DEF OwnerFinished, AfterOwner
<1>25. ASSUME NEW h \in Calls, Admission(h) PROVE DrainInv'
  BY <1>25 DEF Admission, OwnerEnds, Charge, Remaining, AtWork
<1>26. ASSUME NEW h \in Calls, FailsInPreflight(h) PROVE DrainInv'
  BY <1>26 DEF FailsInPreflight, OwnerEnds
<1>27. ASSUME NEW h \in Calls, AttemptEnds(h) PROVE DrainInv'
  BY <1>27 DEF AttemptEnds, OwnerEnds
<1>28. ASSUME NEW h \in Calls, OwnerCancelled(h) PROVE DrainInv'
  BY <1>28 DEF OwnerCancelled, OwnerEnds, AtWork
<1>29. ASSUME NEW h \in Calls, DecidesToEnd(h) PROVE DrainInv'
  BY <1>29 DEF DecidesToEnd, EndingReason, Terminate
<1>30. ASSUME NEW h \in Calls, SchedulesBackoff(h) PROVE DrainInv'
  BY <1>30 DEF SchedulesBackoff, GoesOn, EndingReason
<1>31. ASSUME NEW h \in Calls, WaitsForProvider(h) PROVE DrainInv'
  BY <1>31 DEF WaitsForProvider, GoesOn, EndingReason
<1>32. ASSUME NEW h \in Calls, StartsNextOwner(h) PROVE DrainInv'
  BY <1>32 DEF StartsNextOwner, GoesOn, EndingReason
<1>33. ASSUME NEW h \in Calls, Reconciles(h) PROVE DrainInv'
  BY <1>33 DEF Reconciles, GoesOn, EndingReason
<1>34. ASSUME NEW h \in Calls, DecidesToRefresh(h) PROVE DrainInv'
  BY <1>34 DEF DecidesToRefresh, GoesOn, EndingReason
<1>35. ASSUME NEW h \in Calls, Reconciled(h) PROVE DrainInv'
  BY <1>35 DEF Reconciled, Terminate
<1>36. ASSUME NEW h \in Calls, RetryAfterPasses(h) PROVE DrainInv'
  BY <1>36 DEF RetryAfterPasses
<1>37. ASSUME NEW h \in Calls, SleepEnds(h) PROVE DrainInv'
  BY <1>37 DEF SleepEnds, Wakes
<1>38. ASSUME NEW h \in Calls, WaitStops(h) PROVE DrainInv'
  BY <1>38 DEF WaitStops, Wakes
<1>39. ASSUME NEW h \in Calls, RefreshAnswers(h) PROVE DrainInv'
  BY <1>39 DEF RefreshAnswers
<1>40. ASSUME NEW h \in Calls, RefreshWaits(h) PROVE DrainInv'
  BY <1>40 DEF RefreshWaits
<1>41. ASSUME NEW h \in Calls, RefreshEnds(h) PROVE DrainInv'
  BY <1>41 DEF RefreshEnds, RefreshReturns
<1>42. ASSUME NEW h \in Calls, RefreshAbandoned(h) PROVE DrainInv'
  BY <1>42 DEF RefreshAbandoned, RefreshReturns
<1>43. ASSUME NEW h \in Calls, RefreshApplied(h) PROVE DrainInv'
  BY <1>43 DEF RefreshApplied
<1>44. ASSUME NEW h \in Calls, EndsAfterRefresh(h) PROVE DrainInv'
  <2>1. at[h] = "applying" /\ \E r \in Reasons : Terminate(h, r)
    BY <1>44 DEF EndsAfterRefresh
  <2> QED
    BY <2>1 DEF Terminate
<1>45. ASSUME NEW h \in Calls, CompleteChain(h) PROVE DrainInv'
  BY <1>45 DEF CompleteChain
<1>46. ASSUME BeginShutdown PROVE DrainInv'
  BY <1>46 DEF BeginShutdown
<1>47. ASSUME ShutdownStops PROVE DrainInv'
  BY <1>47, RequestType DEF ShutdownStops, KeyOf
<1>48. ASSUME NEW h \in Calls, ShutdownClosesHandle(h) PROVE DrainInv'
  BY <1>48 DEF ShutdownClosesHandle, GivesUpLease
<1>49. ASSUME ShutdownClosesBindings PROVE DrainInv'
  BY <1>49 DEF ShutdownClosesBindings
<1>50. ASSUME NEW h \in Calls, ShutdownStartsDriver(h) PROVE DrainInv'
  BY <1>50 DEF ShutdownStartsDriver
<1>51. ASSUME ShutdownReturns PROVE DrainInv'
  BY <1>51 DEF ShutdownReturns
<1>53. ASSUME NEW c \in Calls, RaiseOwner(c) PROVE DrainInv'
  BY <1>53 DEF RaiseOwner, Raised, Higher
<1>52. ASSUME UNCHANGED vars PROVE DrainInv'
  BY <1>52 DEF vars
<1> HIDE DEF ChainInv, TypeOK, ChainShape, CallShape, RegistryShape, Live, DrainInv
<1> QED
  BY <1>1, <1>2, <1>3, <1>4, <1>5, <1>6, <1>7, <1>8, <1>9, <1>10, <1>11,
     <1>12, <1>13, <1>14, <1>15, <1>16, <1>17, <1>18, <1>19, <1>20, <1>21,
     <1>22, <1>23, <1>24, <1>25, <1>26, <1>27, <1>28, <1>29, <1>30, <1>31,
     <1>32, <1>33, <1>34, <1>35, <1>36, <1>37, <1>38, <1>39, <1>40, <1>41,
     <1>42, <1>43, <1>44, <1>45, <1>46, <1>47, <1>48, <1>49, <1>50, <1>51,
     <1>52, <1>53
     DEF Next, Acquire, Handle, Prepare, RunOwner, DecideAndAct, Wait, Drive, World, Shutdown

\* An outcome is not overwritten before it is decided about.
LEMMA VerdictStep ==
    ChainInv /\ ChainInv' /\ VerdictInv /\ [Next]_vars => VerdictInv'
<1> SUFFICES ASSUME ChainInv, ChainInv', VerdictInv, [Next]_vars PROVE VerdictInv'
  OBVIOUS
<1> USE NoneAssumption
        DEF ChainInv, TypeOK, ChainShape, CallShape, RegistryShape, Live, AtWork,
            States, Reasons, Verdicts, RefreshResults, Positions, Owners,
            Places, ShutdownRecord, Priorities, RESERVE, PLAYBACK, VerdictInv,
            GoTo, Drives, demandVars, endVars, ledgerVars, ownerVars,
            driverVars, callVars
<1>1. ASSUME NEW c \in Calls, AcquireOnClosing(c) PROVE VerdictInv'
  BY <1>1 DEF AcquireOnClosing
<1>2. ASSUME NEW c \in Calls, AcquireNewChain(c) PROVE VerdictInv'
  BY <1>2 DEF AcquireNewChain, Admits
<1>3. ASSUME NEW c \in Calls, AcquireJoins(c) PROVE VerdictInv'
  BY <1>3 DEF AcquireJoins, Admits, Joinable, Raised, Higher, SameWork
<1>4. ASSUME NEW c \in Calls, AcquireConflicts(c) PROVE VerdictInv'
  BY <1>4 DEF AcquireConflicts, Admits, Joinable
<1>5. ASSUME NEW c \in Calls, StartDriver(c) PROVE VerdictInv'
  BY <1>5 DEF StartDriver
<1>6. ASSUME NEW c \in Calls, AcquireReturns(c) PROVE VerdictInv'
  BY <1>6 DEF AcquireReturns
<1>7. ASSUME NEW c \in Calls, AwaitReturns(c) PROVE VerdictInv'
  BY <1>7 DEF AwaitReturns
<1>8. ASSUME NEW c \in Calls, ReleaseOfTerminal(c) PROVE VerdictInv'
  BY <1>8 DEF ReleaseOfTerminal, MayLeave
<1>9. ASSUME NEW c \in Calls, ReleaseNotLast(c) PROVE VerdictInv'
  BY <1>9 DEF ReleaseNotLast, MayLeave, IsLast
<1>10. ASSUME NEW c \in Calls, ReleaseLast(c) PROVE VerdictInv'
  BY <1>10 DEF ReleaseLast, MayLeave, IsLast
<1>11. ASSUME NEW c \in Calls, CloseHandle(c) PROVE VerdictInv'
  BY <1>11 DEF CloseHandle, GivesUpLease
<1>12. ASSUME NEW h \in Calls, EndsAtHead(h) PROVE VerdictInv'
  BY <1>12 DEF EndsAtHead, NoAttemptReason, Terminate
<1>13. ASSUME NEW h \in Calls, PassesHead(h) PROVE VerdictInv'
  BY <1>13 DEF PassesHead, NoAttemptReason
<1>14. ASSUME NEW h \in Calls, GateOpen(h) PROVE VerdictInv'
  BY <1>14 DEF GateOpen
<1>15. ASSUME NEW h \in Calls, GateShut(h) PROVE VerdictInv'
  BY <1>15 DEF GateShut
<1>16. ASSUME NEW h \in Calls, GateOpens(h) PROVE VerdictInv'
  BY <1>16 DEF GateOpens
<1>17. ASSUME NEW h \in Calls, GateFails(h) PROVE VerdictInv'
  BY <1>17 DEF GateFails, Terminate
<1>18. ASSUME NEW h \in Calls, EndsPermitted(h) PROVE VerdictInv'
  BY <1>18 DEF EndsPermitted, NoAttemptReason, Terminate
<1>19. ASSUME NEW h \in Calls, PassesPermitted(h) PROVE VerdictInv'
  BY <1>19 DEF PassesPermitted, NoAttemptReason
<1>20. ASSUME NEW h \in Calls, BecomeActive(h) PROVE VerdictInv'
  BY <1>20 DEF BecomeActive
<1>21. ASSUME NEW h \in Calls, AcquireOwner(h) PROVE VerdictInv'
  BY <1>21 DEF AcquireOwner
<1>22. ASSUME NEW h \in Calls, StoreHandle(h) PROVE VerdictInv'
  BY <1>22 DEF StoreHandle, CloseNow, RaiseTo, Raised, Higher
<1>23. ASSUME NEW h \in Calls, DriverCloses(h) PROVE VerdictInv'
  BY <1>23 DEF DriverCloses, GivesUpLease
<1>24. ASSUME NEW h \in Calls, OwnerFinished(h) PROVE VerdictInv'
  BY <1>24 DEF OwnerFinished, AfterOwner
<1>25. ASSUME NEW h \in Calls, Admission(h) PROVE VerdictInv'
  BY <1>25 DEF Admission, OwnerEnds, Charge, Remaining, AtWork
<1>26. ASSUME NEW h \in Calls, FailsInPreflight(h) PROVE VerdictInv'
  BY <1>26 DEF FailsInPreflight, OwnerEnds
<1>27. ASSUME NEW h \in Calls, AttemptEnds(h) PROVE VerdictInv'
  BY <1>27 DEF AttemptEnds, OwnerEnds
<1>28. ASSUME NEW h \in Calls, OwnerCancelled(h) PROVE VerdictInv'
  BY <1>28 DEF OwnerCancelled, OwnerEnds, AtWork
<1>29. ASSUME NEW h \in Calls, DecidesToEnd(h) PROVE VerdictInv'
  BY <1>29 DEF DecidesToEnd, EndingReason, Terminate
<1>30. ASSUME NEW h \in Calls, SchedulesBackoff(h) PROVE VerdictInv'
  BY <1>30 DEF SchedulesBackoff, GoesOn, EndingReason
<1>31. ASSUME NEW h \in Calls, WaitsForProvider(h) PROVE VerdictInv'
  BY <1>31 DEF WaitsForProvider, GoesOn, EndingReason
<1>32. ASSUME NEW h \in Calls, StartsNextOwner(h) PROVE VerdictInv'
  BY <1>32 DEF StartsNextOwner, GoesOn, EndingReason
<1>33. ASSUME NEW h \in Calls, Reconciles(h) PROVE VerdictInv'
  BY <1>33 DEF Reconciles, GoesOn, EndingReason
<1>34. ASSUME NEW h \in Calls, DecidesToRefresh(h) PROVE VerdictInv'
  BY <1>34 DEF DecidesToRefresh, GoesOn, EndingReason
<1>35. ASSUME NEW h \in Calls, Reconciled(h) PROVE VerdictInv'
  BY <1>35 DEF Reconciled, Terminate
<1>36. ASSUME NEW h \in Calls, RetryAfterPasses(h) PROVE VerdictInv'
  BY <1>36 DEF RetryAfterPasses
<1>37. ASSUME NEW h \in Calls, SleepEnds(h) PROVE VerdictInv'
  BY <1>37 DEF SleepEnds, Wakes
<1>38. ASSUME NEW h \in Calls, WaitStops(h) PROVE VerdictInv'
  BY <1>38 DEF WaitStops, Wakes
<1>39. ASSUME NEW h \in Calls, RefreshAnswers(h) PROVE VerdictInv'
  BY <1>39 DEF RefreshAnswers
<1>40. ASSUME NEW h \in Calls, RefreshWaits(h) PROVE VerdictInv'
  BY <1>40 DEF RefreshWaits
<1>41. ASSUME NEW h \in Calls, RefreshEnds(h) PROVE VerdictInv'
  BY <1>41 DEF RefreshEnds, RefreshReturns
<1>42. ASSUME NEW h \in Calls, RefreshAbandoned(h) PROVE VerdictInv'
  BY <1>42 DEF RefreshAbandoned, RefreshReturns
<1>43. ASSUME NEW h \in Calls, RefreshApplied(h) PROVE VerdictInv'
  BY <1>43 DEF RefreshApplied
<1>44. ASSUME NEW h \in Calls, EndsAfterRefresh(h) PROVE VerdictInv'
  BY <1>44 DEF EndsAfterRefresh, Terminate
<1>45. ASSUME NEW h \in Calls, CompleteChain(h) PROVE VerdictInv'
  BY <1>45 DEF CompleteChain
<1>46. ASSUME BeginShutdown PROVE VerdictInv'
  BY <1>46 DEF BeginShutdown
<1>47. ASSUME ShutdownStops PROVE VerdictInv'
  BY <1>47, RequestType DEF ShutdownStops, KeyOf
<1>48. ASSUME NEW h \in Calls, ShutdownClosesHandle(h) PROVE VerdictInv'
  BY <1>48 DEF ShutdownClosesHandle, GivesUpLease
<1>49. ASSUME ShutdownClosesBindings PROVE VerdictInv'
  BY <1>49 DEF ShutdownClosesBindings
<1>50. ASSUME NEW h \in Calls, ShutdownStartsDriver(h) PROVE VerdictInv'
  BY <1>50 DEF ShutdownStartsDriver
<1>51. ASSUME ShutdownReturns PROVE VerdictInv'
  BY <1>51 DEF ShutdownReturns
<1>53. ASSUME NEW c \in Calls, RaiseOwner(c) PROVE VerdictInv'
  BY <1>53 DEF RaiseOwner, Raised, Higher
<1>52. ASSUME UNCHANGED vars PROVE VerdictInv'
  BY <1>52 DEF vars
<1> HIDE DEF ChainInv, TypeOK, ChainShape, CallShape, RegistryShape, Live, VerdictInv
<1> QED
  BY <1>1, <1>2, <1>3, <1>4, <1>5, <1>6, <1>7, <1>8, <1>9, <1>10, <1>11,
     <1>12, <1>13, <1>14, <1>15, <1>16, <1>17, <1>18, <1>19, <1>20, <1>21,
     <1>22, <1>23, <1>24, <1>25, <1>26, <1>27, <1>28, <1>29, <1>30, <1>31,
     <1>32, <1>33, <1>34, <1>35, <1>36, <1>37, <1>38, <1>39, <1>40, <1>41,
     <1>42, <1>43, <1>44, <1>45, <1>46, <1>47, <1>48, <1>49, <1>50, <1>51,
     <1>52, <1>53
     DEF Next, Acquire, Handle, Prepare, RunOwner, DecideAndAct, Wait, Drive, World, Shutdown

LEMMA TypeInit == Init => TypeOK
<1> SUFFICES ASSUME Init PROVE TypeOK
  OBVIOUS
<1> USE LimitAssumption DEF Init
<1>1. /\ state \in [Calls -> States]
      /\ consumers \in [Calls -> SUBSET Consumers]
      /\ priority \in [Calls -> Priorities]
      /\ stopWaiting \in [Calls -> BOOLEAN]
  BY DEF States, Priorities, RESERVE, PLAYBACK
<1>2. /\ settled \in [Calls -> BOOLEAN]
      /\ reason \in [Calls -> Reasons \union {"none"}]
      /\ result \in [Calls -> BOOLEAN]
      /\ handle \in [Calls -> BOOLEAN]
  OBVIOUS
<1>3. /\ attempts \in [Calls -> 0 .. AttemptLimit]
      /\ refreshes \in [Calls -> 0 .. RefreshLimit]
      /\ requests \in [Calls -> Nat]
  OBVIOUS
<1>4. /\ at \in [Calls -> Positions]
      /\ verdict \in [Calls -> Verdicts \union RefreshResults \union {"none"}]
      /\ throttled \in [Calls -> BOOLEAN]
  BY DEF Positions
<1>5. /\ owner \in [Calls -> Owners]
      /\ leased \in [Calls -> BOOLEAN]
      /\ ownerPriority \in [Calls -> Priorities]
  BY DEF Owners, Priorities, RESERVE, PLAYBACK
<1>6. /\ active \in [Keys -> Calls \union {None}]
      /\ closing \in BOOLEAN
      /\ pc \in [Calls -> Places]
      /\ on \in [Calls -> Calls \union {None}]
      /\ shutdown \in ShutdownRecord
  BY DEF Places, ShutdownRecord
<1> QED
  BY <1>1, <1>2, <1>3, <1>4, <1>5, <1>6 DEF TypeOK

\* The types of the state, for every set of calls and every budget.
THEOREM TypeCorrect == SafeSpec => []TypeOK
BY TypeInit, TypeStep, PTL DEF SafeSpec

LEMMA ChainCorrect == SafeSpec => []ChainInv
<1>1. Init => ChainInv
  BY TypeInit DEF Init, ChainInv, ChainShape, CallShape, RegistryShape, Live
<1>2. ChainInv => TypeOK
  BY DEF ChainInv
<1>3. QED
  BY <1>1, <1>2, TypeStep, ChainStep, PTL DEF SafeSpec

\* A driver that goes to the broker meets no owner of its key: neither its chain's
\* last one, which it has waited for, nor one of another chain, which is over.
THEOREM NewOwnerAlways == SafeSpec => []AlwaysNewOwner
<1>1. ChainInv => AlwaysNewOwner
  BY RequestType
     DEF ChainInv, TypeOK, States, ChainShape, RegistryShape, Live, AtWork, AlwaysNewOwner
<1>2. QED
  BY <1>1, ChainCorrect, PTL

\* A chain makes no more requests than its budget has attempts: every request is
\* charged, and the ledger never exceeds its limit.
THEOREM WithinBudget == SafeSpec => []RequestsWithinBudget
<1>1. ChainInv => RequestsWithinBudget
  <2> SUFFICES ASSUME ChainInv, NEW h \in Calls PROVE requests[h] <= AttemptLimit
    BY DEF RequestsWithinBudget
  <2>1. requests[h] = attempts[h]
    BY DEF ChainInv, ChainShape
  <2>2. attempts[h] \in 0 .. AttemptLimit
    BY DEF ChainInv, TypeOK
  <2> QED
    BY <2>1, <2>2, LimitAssumption
<1>2. QED
  BY <1>1, ChainCorrect, PTL

LEMMA DemandCorrect == SafeSpec => []DemandInv
<1>1. Init => DemandInv
  BY DEF Init, DemandInv, Aboard, NobodyDenied
<1>2. QED
  BY <1>1, ChainCorrect, DemandStep, PTL DEF SafeSpec

\* No consumer aboard of a chain is told that nobody wanted it.
THEOREM NoneDenied == SafeSpec => []NobodyDenied
<1>1. DemandInv => NobodyDenied
  BY DEF DemandInv
<1>2. QED
  BY <1>1, DemandCorrect, PTL

\* A chain that stays in demand makes no request before Retry-After has run out.
THEOREM RetryAfterHeld == SafeSpec => []RetryAfterRespected
<1>1. Init => WaitInv
  BY DEF Init, WaitInv, Live
<1>2. ChainInv /\ WaitInv => RetryAfterRespected
  BY DEF ChainInv, ChainShape, WaitInv, RetryAfterRespected
<1>3. QED
  BY <1>1, <1>2, ChainCorrect, DemandCorrect, WaitStep, PTL DEF SafeSpec

\* An urgent consumer's priority reaches the owner at work, whenever it joins.
THEOREM PriorityArrives == SafeSpec => []PriorityReachesOwner
<1>1. Init => RaiseInv
  BY DEF Init, RaiseInv, Held
<1>2. RaiseInv => PriorityReachesOwner
  BY DEF RaiseInv, PriorityReachesOwner, AboutToRaise, Held
<1>3. QED
  BY <1>1, <1>2, ChainCorrect, RaiseStep, PTL DEF SafeSpec

\* When shutdown() has returned no chain is on its way and no owner is at work.
THEOREM ShutdownQuiet == SafeSpec => []QuietAfterShutdown
<1>1. Init => DrainInv
  BY DEF Init, DrainInv
<1>2. ChainInv /\ DrainInv => QuietAfterShutdown
  BY DEF ChainInv, TypeOK, Owners, ChainShape, Live, DrainInv, QuietAfterShutdown
<1>3. QED
  BY <1>1, <1>2, ChainCorrect, DrainStep, PTL DEF SafeSpec
===============================================================================
