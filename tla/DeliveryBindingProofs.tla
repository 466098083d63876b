------------------------- MODULE DeliveryBindingProofs -------------------------
(***************************************************************************)
(* Proofs about DeliveryBinding, for every finite set of calls.            *)
(* FlightInv says how the slot, the operations and the calls hang          *)
(* together; RevisionsRefreshedOnce is part of it.  DemandInv adds that an *)
(* operation under way counts exactly those who wait for it, from which    *)
(* follow NoOrphanRefresh and WaitersKeepTheirRefresh.                     *)
(***************************************************************************)
EXTENDS DeliveryBinding, FiniteSetTheorems, TLAPS

Waiting(o) == {c \in Calls : on[c] = o /\ pc[c] = "awaiting"}

\* How the parts of one operation fit together.
OperationShape(o) ==
    /\ job[o] # "none" => pc[o] \notin {"new", "selected"}
    /\ job[o] = "answered" => completion[o] # "none"
    /\ outcome[o] # "none" <=> job[o] = "ended"
    /\ outcome[o] = "SUCCEEDED" => installed[o] = expected[o] + 1 /\ installed[o] <= revision
    /\ Unfinished(o) <=> inFlight = o
    /\ Unfinished(o) => expected[o] = revision

\* What a call waits for or waited for, and what it was told.
CallShape(c) ==
    /\ expected[c] <= revision
    /\ pc[c] \in {"new", "selected"} => on[c] = None
    /\ pc[c] \in {"awaiting", "joining"} => on[c] # None
    /\ on[c] # None => job[on[c]] # "none" /\ expected[on[c]] = expected[c]
    /\ answer[c] # "none" => pc[c] = "told"
    /\ answer[c] \in {"REFRESHED", "JOINED_REFRESH"} =>
        on[c] # None /\ outcome[on[c]] = "SUCCEEDED"
    /\ answer[c] = "ALREADY_ADVANCED" => expected[c] < revision

FlightInv ==
    /\ TypeOK
    /\ \A c \in Calls : OperationShape(c) /\ CallShape(c)
    /\ \A o, p \in Calls :
        outcome[o] = "SUCCEEDED" /\ outcome[p] = "SUCCEEDED" /\ expected[o] = expected[p]
            => o = p
    /\ shutdown.pc # "idle" => closed

\* The counter of an operation under way is the number of those who wait for it.
WaitersCounted ==
    \A o \in Calls :
        /\ waiters[o] >= Cardinality(Waiting(o))
        /\ Unfinished(o) => waiters[o] = Cardinality(Waiting(o))

DemandInv == FlightInv /\ WaitersCounted /\ NoOrphanRefresh

\* Who waits is one of finitely many.
LEMMA WaitingFinite ==
    ASSUME NEW o
    PROVE  IsFiniteSet(Waiting(o)) /\ Cardinality(Waiting(o)) \in Nat
BY CallsAssumption, FS_Subset, FS_CardinalityType DEF Waiting

\* A caller that waits is counted, and one that waits alone is all there is.
LEMMA WaitersAreCounted ==
    ASSUME DemandInv, NEW c \in Calls, pc[c] = "awaiting"
    PROVE  /\ on[c] \in Calls
           /\ waiters[on[c]] >= 1
           /\ IsLast(c) => Unfinished(on[c]) /\ Waiting(on[c]) = {c}
<1>1. on[c] \in Calls /\ job[on[c]] # "none"
  BY DEF DemandInv, FlightInv, TypeOK, CallShape
<1>2. c \in Waiting(on[c])
  BY <1>1 DEF Waiting
<1>. DEFINE W == Waiting(on[c])
<1>3. IsFiniteSet(W) /\ Cardinality(W) \in Nat
  BY WaitingFinite
<1>4. Cardinality(W) >= 1
  BY <1>2, <1>3, FS_EmptySet
<1>5. waiters[on[c]] \in Nat /\ waiters[on[c]] >= Cardinality(W)
  BY <1>1 DEF DemandInv, FlightInv, TypeOK, WaitersCounted
<1>6. ASSUME IsLast(c) PROVE Unfinished(on[c]) /\ W = {c}
  <2>1. Unfinished(on[c])
    BY <1>1, <1>6 DEF IsLast, DemandInv, FlightInv, TypeOK, OperationShape, Unfinished
  <2>2. Cardinality(W) = 1
    BY <1>1, <1>3, <1>4, <1>5, <1>6 DEF IsLast
  <2>. QED
    BY <1>2, <1>3, <2>1, <2>2, FS_Singleton
<1>. QED
  BY <1>1, <1>3, <1>4, <1>5, <1>6

LEMMA FlightStep ==
    ASSUME DemandInv, [Next]_vars
    PROVE  FlightInv'
<1>. USE NoneAssumption
     DEF DemandInv, FlightInv, TypeOK, OperationShape, CallShape, Unfinished, Completions,
         Outcomes, Answers
<1>1. CASE UNCHANGED vars
  BY <1>1 DEF vars, operationVars, callVars
<1>2. ASSUME NEW c \in Calls, SelectBinding(c) PROVE FlightInv'
  BY <1>2 DEF SelectBinding, operationVars
<1>3. ASSUME NEW c \in Calls, RefreshOnClosed(c) PROVE FlightInv'
  BY <1>3 DEF RefreshOnClosed, Told, operationVars
<1>4. ASSUME NEW c \in Calls, RefreshAlreadyAdvanced(c) PROVE FlightInv'
  <2>1. expected[c] < revision
    BY <1>4 DEF RefreshAlreadyAdvanced
  <2>. QED
    BY <1>4, <2>1 DEF RefreshAlreadyAdvanced, Told, operationVars
<1>5. ASSUME NEW c \in Calls, RefreshJoins(c) PROVE FlightInv'
  BY <1>5 DEF RefreshJoins, AsksForCurrent, Awaits
<1>6. ASSUME NEW c \in Calls, RefreshNotAdmitted(c) PROVE FlightInv'
  BY <1>6 DEF RefreshNotAdmitted, Told, operationVars
<1>7. ASSUME NEW c \in Calls, RefreshStarts(c) PROVE FlightInv'
  BY <1>7 DEF RefreshStarts, AsksForCurrent, Awaits
<1>8. ASSUME NEW c \in Calls, AwaitReturns(c) PROVE FlightInv'
  BY <1>8 DEF AwaitReturns, AnswerTo, Told, operationVars
<1>9. ASSUME NEW c \in Calls, AbandonWaiter(c) PROVE FlightInv'
  BY <1>9, WaitersAreCounted DEF AbandonWaiter
<1>10. ASSUME NEW c \in Calls, JoinReturns(c) PROVE FlightInv'
  BY <1>10 DEF JoinReturns, operationVars
<1>11. ASSUME NEW c \in Calls, CancelledBeforeBody(c) PROVE FlightInv'
  BY <1>11 DEF CancelledBeforeBody, Finish, callVars
<1>12. ASSUME NEW c \in Calls, BodyBegins(c) PROVE FlightInv'
  BY <1>12 DEF BodyBegins, OperationMoves, callVars
<1>13. ASSUME NEW c \in Calls, ProviderAnswers(c) PROVE FlightInv'
  BY <1>13 DEF ProviderAnswers, OperationMoves, callVars
<1>14. ASSUME NEW c \in Calls, ObservesCancellation(c) PROVE FlightInv'
  BY <1>14 DEF ObservesCancellation, OperationMoves, callVars
<1>15. ASSUME NEW c \in Calls, FinishOperation(c) PROVE FlightInv'
  BY <1>15 DEF FinishOperation, Finish, callVars
<1>16. CASE BeginShutdown
  BY <1>16 DEF BeginShutdown, operationVars, callVars
<1>17. CASE ShutdownFindsNothing
  BY <1>17 DEF ShutdownFindsNothing, operationVars, callVars
<1>18. CASE ShutdownCancels
  BY <1>18 DEF ShutdownCancels, callVars
<1>19. CASE ShutdownReturns
  BY <1>19 DEF ShutdownReturns, operationVars, callVars
<1>. QED
  BY <1>1, <1>2, <1>3, <1>4, <1>5, <1>6, <1>7, <1>8, <1>9, <1>10, <1>11, <1>12, <1>13, <1>14, <1>15, <1>16, <1>17, <1>18, <1>19
  DEF Next, Caller, Operation, Shutdown

\* A call that does not wait, before or after, changes nobody's count.
LEMMA CountKept ==
    ASSUME WaitersCounted, UNCHANGED waiters,
           \A o \in Calls : Unfinished(o)' => Unfinished(o),
           \A c, o \in Calls : (on'[c] = o /\ pc'[c] = "awaiting") <=> (on[c] = o /\ pc[c] = "awaiting")
    PROVE  WaitersCounted'
<1>1. \A o \in Calls : Waiting(o)' = Waiting(o)
  BY DEF Waiting
<1>. QED
  BY <1>1 DEF WaitersCounted

LEMMA CountStep ==
    ASSUME DemandInv, [Next]_vars
    PROVE  WaitersCounted'
<1>. USE NoneAssumption DEF DemandInv, FlightInv, TypeOK
<1>1. CASE UNCHANGED vars
  BY <1>1, CountKept DEF vars, operationVars, callVars, Unfinished
<1>2. ASSUME NEW c \in Calls, SelectBinding(c) PROVE WaitersCounted'
  BY <1>2, CountKept DEF SelectBinding, operationVars, AsksForCurrent, Unfinished
<1>3. ASSUME NEW c \in Calls, RefreshOnClosed(c) PROVE WaitersCounted'
  BY <1>3, CountKept DEF RefreshOnClosed, Told, operationVars, AsksForCurrent, Unfinished
<1>4. ASSUME NEW c \in Calls, RefreshAlreadyAdvanced(c) PROVE WaitersCounted'
  BY <1>4, CountKept DEF RefreshAlreadyAdvanced, Told, operationVars, AsksForCurrent, Unfinished
<1>5. ASSUME NEW c \in Calls, RefreshNotAdmitted(c) PROVE WaitersCounted'
  BY <1>5, CountKept DEF RefreshNotAdmitted, Told, operationVars, AsksForCurrent, Unfinished
<1>6. ASSUME NEW c \in Calls, JoinReturns(c) PROVE WaitersCounted'
  BY <1>6, CountKept DEF JoinReturns, operationVars, AsksForCurrent, Unfinished
<1>7. ASSUME NEW c \in Calls, CancelledBeforeBody(c) PROVE WaitersCounted'
  BY <1>7, CountKept DEF CancelledBeforeBody, Finish, callVars, Unfinished
<1>8. ASSUME NEW c \in Calls, BodyBegins(c) PROVE WaitersCounted'
  BY <1>8, CountKept DEF BodyBegins, OperationMoves, callVars, Unfinished
<1>9. ASSUME NEW c \in Calls, ProviderAnswers(c) PROVE WaitersCounted'
  BY <1>9, CountKept DEF ProviderAnswers, OperationMoves, callVars, Unfinished
<1>10. ASSUME NEW c \in Calls, ObservesCancellation(c) PROVE WaitersCounted'
  BY <1>10, CountKept DEF ObservesCancellation, OperationMoves, callVars, Unfinished
<1>11. ASSUME NEW c \in Calls, FinishOperation(c) PROVE WaitersCounted'
  BY <1>11, CountKept DEF FinishOperation, Finish, callVars, Unfinished
<1>12. CASE BeginShutdown
  BY <1>12, CountKept DEF BeginShutdown, operationVars, callVars, Unfinished
<1>13. CASE ShutdownFindsNothing
  BY <1>13, CountKept DEF ShutdownFindsNothing, operationVars, callVars, Unfinished
<1>14. CASE ShutdownCancels
  BY <1>14, CountKept DEF ShutdownCancels, callVars, Unfinished
<1>15. CASE ShutdownReturns
  BY <1>15, CountKept DEF ShutdownReturns, operationVars, callVars, Unfinished
<1>16. ASSUME NEW c \in Calls, RefreshJoins(c) PROVE WaitersCounted'
  <2>1. PICK f \in Calls : f = inFlight /\ Unfinished(f) /\ c \notin Waiting(f)
    BY <1>16 DEF RefreshJoins, AsksForCurrent, OperationShape, Waiting
  <2>2. Waiting(f)' = Waiting(f) \union {c}
    BY <1>16, <2>1 DEF RefreshJoins, AsksForCurrent, Awaits, Waiting
  <2>3. \A o \in Calls \ {f} : Waiting(o)' = Waiting(o)
    BY <1>16, <2>1 DEF RefreshJoins, AsksForCurrent, Awaits, Waiting
  <2>4. Cardinality(Waiting(f)') = Cardinality(Waiting(f)) + 1
    BY <2>1, <2>2, WaitingFinite, FS_AddElement
  <2>5. Cardinality(Waiting(f)) \in Nat
    BY WaitingFinite
  <2>6. waiters'[f] = waiters[f] + 1
    BY <1>16, <2>1 DEF RefreshJoins
  <2>7. \A o \in Calls \ {f} : waiters'[o] = waiters[o] /\ (Unfinished(o)' <=> Unfinished(o))
    BY <1>16, <2>1 DEF RefreshJoins, Unfinished
  <2>8. waiters'[f] = Cardinality(Waiting(f)')
    BY <2>1, <2>4, <2>6 DEF WaitersCounted
  <2>9. waiters'[f] \in Nat
    BY <2>4, <2>5, <2>8
  <2>10. ASSUME NEW o \in Calls \ {f}
         PROVE  /\ waiters'[o] >= Cardinality(Waiting(o)')
                /\ Unfinished(o)' => waiters'[o] = Cardinality(Waiting(o)')
    BY <2>3, <2>7, <2>10 DEF WaitersCounted
  <2>. QED
    BY <2>8, <2>9, <2>10 DEF WaitersCounted
<1>17. ASSUME NEW c \in Calls, RefreshStarts(c) PROVE WaitersCounted'
  <2>1. job[c] = "none" /\ \A d \in Calls : on[d] # c
    BY <1>17 DEF RefreshStarts, AsksForCurrent, OperationShape, CallShape
  <2>2. Waiting(c)' = {c}
    BY <1>17, <2>1 DEF RefreshStarts, Awaits, Waiting
  <2>3. \A o \in Calls \ {c} : Waiting(o)' = Waiting(o)
    BY <1>17 DEF RefreshStarts, AsksForCurrent, Awaits, Waiting
  <2>4. Cardinality(Waiting(c)') = 1
    BY <2>2, FS_Singleton
  <2>5. waiters'[c] = 1
    BY <1>17 DEF RefreshStarts
  <2>6. \A o \in Calls \ {c} : waiters'[o] = waiters[o] /\ (Unfinished(o)' <=> Unfinished(o))
    BY <1>17 DEF RefreshStarts, Unfinished
  <2>. QED
    BY <2>3, <2>4, <2>5, <2>6 DEF WaitersCounted
<1>18. ASSUME NEW c \in Calls, AwaitReturns(c) PROVE WaitersCounted'
  <2>1. PICK f \in Calls : f = on[c] /\ ~Unfinished(f)
    BY <1>18, WaitersAreCounted DEF AwaitReturns, OperationShape, Unfinished
  <2>2. Waiting(f)' = Waiting(f) \ {c}
    BY <1>18, <2>1 DEF AwaitReturns, Told, Waiting
  <2>3. \A o \in Calls \ {f} : Waiting(o)' = Waiting(o)
    BY <1>18, <2>1 DEF AwaitReturns, Told, Waiting
  <2>4. Cardinality(Waiting(f)') <= Cardinality(Waiting(f))
    BY <2>2, WaitingFinite, FS_Subset
  <2>5. Cardinality(Waiting(f)) \in Nat /\ Cardinality(Waiting(f)') \in Nat
    BY <2>2, WaitingFinite, FS_Subset, FS_CardinalityType
  <2>6. waiters' = waiters /\ \A o \in Calls : Unfinished(o)' <=> Unfinished(o)
    BY <1>18, <2>1 DEF AwaitReturns, Told, operationVars, Unfinished
  <2>7. waiters'[f] >= Cardinality(Waiting(f)')
    BY <2>1, <2>4, <2>5, <2>6 DEF WaitersCounted
  <2>8. ASSUME NEW o \in Calls \ {f}
        PROVE  /\ waiters'[o] >= Cardinality(Waiting(o)')
               /\ Unfinished(o)' => waiters'[o] = Cardinality(Waiting(o)')
    BY <2>3, <2>6, <2>8 DEF WaitersCounted
  <2>. QED
    BY <2>1, <2>6, <2>7, <2>8 DEF WaitersCounted
<1>19. ASSUME NEW c \in Calls, AbandonWaiter(c) PROVE WaitersCounted'
  <2>1. PICK f \in Calls : f = on[c] /\ c \in Waiting(f)
    BY <1>19, WaitersAreCounted DEF AbandonWaiter, Waiting
  <2>2. Waiting(f)' = Waiting(f) \ {c}
    BY <1>19, <2>1 DEF AbandonWaiter, Waiting
  <2>3. \A o \in Calls \ {f} : Waiting(o)' = Waiting(o)
    BY <1>19, <2>1 DEF AbandonWaiter, Waiting
  <2>4. Cardinality(Waiting(f)') = Cardinality(Waiting(f)) - 1
    <3>1. IsFiniteSet(Waiting(f))
      BY WaitingFinite
    <3>2. Cardinality(Waiting(f) \ {c}) = Cardinality(Waiting(f)) - 1
      BY <2>1, <3>1, FS_RemoveElement
    <3>. QED
      BY <2>2, <3>2
  <2>5. Cardinality(Waiting(f)) \in Nat
    BY WaitingFinite
  <2>6. /\ waiters'[f] = waiters[f] - 1
        /\ \A o \in Calls \ {f} : waiters'[o] = waiters[o]
        /\ \A o \in Calls : Unfinished(o)' <=> Unfinished(o)
    BY <1>19, <2>1 DEF AbandonWaiter, Unfinished
  <2>7. ASSUME NEW o \in Calls \ {f}
        PROVE  /\ waiters'[o] >= Cardinality(Waiting(o)')
               /\ Unfinished(o)' => waiters'[o] = Cardinality(Waiting(o)')
    BY <2>3, <2>6, <2>7 DEF WaitersCounted
  <2>8. /\ waiters'[f] >= Cardinality(Waiting(f)')
        /\ Unfinished(f)' => waiters'[f] = Cardinality(Waiting(f)')
    BY <2>1, <2>4, <2>5, <2>6 DEF WaitersCounted
  <2>. QED
    BY <2>7, <2>8 DEF WaitersCounted
<1>. QED
  BY <1>1, <1>2, <1>3, <1>4, <1>5, <1>6, <1>7, <1>8, <1>9, <1>10, <1>11, <1>12, <1>13, <1>14, <1>15, <1>16, <1>17, <1>18, <1>19
  DEF Next, Caller, Operation, Shutdown

LEMMA NoOrphanStep ==
    ASSUME DemandInv, [Next]_vars
    PROVE  NoOrphanRefresh'
<1>. USE NoneAssumption DEF DemandInv, FlightInv, TypeOK
<1>1. CASE UNCHANGED vars
  BY <1>1 DEF vars, operationVars, callVars, NoOrphanRefresh, Unfinished
<1>2. ASSUME NEW c \in Calls, SelectBinding(c) PROVE NoOrphanRefresh'
  BY <1>2 DEF SelectBinding, operationVars, AsksForCurrent, NoOrphanRefresh, Unfinished
<1>3. ASSUME NEW c \in Calls, RefreshOnClosed(c) PROVE NoOrphanRefresh'
  BY <1>3 DEF RefreshOnClosed, Told, operationVars, AsksForCurrent, NoOrphanRefresh, Unfinished
<1>4. ASSUME NEW c \in Calls, RefreshAlreadyAdvanced(c) PROVE NoOrphanRefresh'
  BY <1>4 DEF RefreshAlreadyAdvanced, Told, operationVars, AsksForCurrent, NoOrphanRefresh, Unfinished
<1>5. ASSUME NEW c \in Calls, RefreshNotAdmitted(c) PROVE NoOrphanRefresh'
  BY <1>5 DEF RefreshNotAdmitted, Told, operationVars, AsksForCurrent, NoOrphanRefresh, Unfinished
<1>6. ASSUME NEW c \in Calls, JoinReturns(c) PROVE NoOrphanRefresh'
  BY <1>6 DEF JoinReturns, operationVars, AsksForCurrent, NoOrphanRefresh, Unfinished
<1>7. ASSUME NEW c \in Calls, CancelledBeforeBody(c) PROVE NoOrphanRefresh'
  BY <1>7 DEF CancelledBeforeBody, Finish, callVars, NoOrphanRefresh, Unfinished
<1>8. ASSUME NEW c \in Calls, BodyBegins(c) PROVE NoOrphanRefresh'
  BY <1>8 DEF BodyBegins, OperationMoves, callVars, NoOrphanRefresh, Unfinished
<1>9. ASSUME NEW c \in Calls, ProviderAnswers(c) PROVE NoOrphanRefresh'
  BY <1>9 DEF ProviderAnswers, OperationMoves, callVars, NoOrphanRefresh, Unfinished
<1>10. ASSUME NEW c \in Calls, ObservesCancellation(c) PROVE NoOrphanRefresh'
  BY <1>10 DEF ObservesCancellation, OperationMoves, callVars, NoOrphanRefresh, Unfinished
<1>11. ASSUME NEW c \in Calls, FinishOperation(c) PROVE NoOrphanRefresh'
  BY <1>11 DEF FinishOperation, Finish, callVars, NoOrphanRefresh, Unfinished
<1>12. CASE BeginShutdown
  BY <1>12 DEF BeginShutdown, operationVars, callVars, NoOrphanRefresh, Unfinished
<1>13. CASE ShutdownFindsNothing
  BY <1>13 DEF ShutdownFindsNothing, operationVars, callVars, NoOrphanRefresh, Unfinished
<1>14. CASE ShutdownCancels
  BY <1>14 DEF ShutdownCancels, callVars, NoOrphanRefresh, Unfinished
<1>15. CASE ShutdownReturns
  BY <1>15 DEF ShutdownReturns, operationVars, callVars, NoOrphanRefresh, Unfinished
<1>16. ASSUME NEW c \in Calls, RefreshJoins(c) PROVE NoOrphanRefresh'
  BY <1>16 DEF RefreshJoins, AsksForCurrent, Awaits, NoOrphanRefresh, Unfinished, OperationShape, CallShape
<1>17. ASSUME NEW c \in Calls, RefreshStarts(c) PROVE NoOrphanRefresh'
  BY <1>17 DEF RefreshStarts, AsksForCurrent, Awaits, NoOrphanRefresh, Unfinished, OperationShape, CallShape
<1>18. ASSUME NEW c \in Calls, AwaitReturns(c) PROVE NoOrphanRefresh'
  BY <1>18 DEF AwaitReturns, Told, operationVars, NoOrphanRefresh, Unfinished, OperationShape, CallShape
<1>19. ASSUME NEW c \in Calls, AbandonWaiter(c) PROVE NoOrphanRefresh'
  <2>1. on[c] \in Calls
    BY <1>19, WaitersAreCounted DEF AbandonWaiter
  <2>2. \A o \in Calls : Unfinished(o)' <=> Unfinished(o)
    BY <1>19 DEF AbandonWaiter, Unfinished
  <2>3. \A d \in Calls \ {c} : on'[d] = on[d] /\ pc'[d] = pc[d]
    BY <1>19 DEF AbandonWaiter
  <2>4. CASE IsLast(c)
    BY <1>19, <2>2, <2>3, <2>4 DEF AbandonWaiter, NoOrphanRefresh
  <2>5. CASE ~IsLast(c)
    <3>1. ASSUME Unfinished(on[c])
          PROVE  \E d \in Calls \ {c} : on[d] = on[c] /\ pc[d] = "awaiting"
      <4>1. waiters[on[c]] > 1 /\ waiters[on[c]] = Cardinality(Waiting(on[c]))
        BY <2>1, <2>5, <3>1 DEF IsLast, WaitersCounted, OperationShape, Unfinished
      <4>2. Waiting(on[c]) # {c}
        <5>1. Cardinality(Waiting(on[c])) # 1
          BY <4>1
        <5>. QED
          BY <5>1, FS_Singleton, WaitingFinite, Zenon
      <4>3. c \in Waiting(on[c])
        BY <1>19 DEF AbandonWaiter, Waiting
      <4>. QED
        BY <4>2, <4>3 DEF Waiting
    <3>2. \A o \in Calls \ {on[c]} : Unfinished(o) =>
            \E d \in Calls \ {c} : on[d] = o /\ pc[d] \in {"awaiting", "joining"}
      BY DEF NoOrphanRefresh
    <3>. QED
      BY <2>1, <2>2, <2>3, <3>1, <3>2 DEF NoOrphanRefresh
  <2>. QED
    BY <2>4, <2>5
<1>. QED
  BY <1>1, <1>2, <1>3, <1>4, <1>5, <1>6, <1>7, <1>8, <1>9, <1>10, <1>11, <1>12, <1>13, <1>14, <1>15, <1>16, <1>17, <1>18, <1>19
  DEF Next, Caller, Operation, Shutdown

LEMMA DemandCorrect == SafeSpec => []DemandInv
<1>1. ASSUME Init PROVE DemandInv
  <2>1. TypeOK
    <3>1. shutdown \in [pc: {"idle", "closing", "joining", "returned"},
                       joins: Calls \union {None}]
      BY <1>1 DEF Init
    <3>2. inFlight \in Calls \union {None} /\ on \in [Calls -> Calls \union {None}]
      BY <1>1 DEF Init
    <3>3. /\ completion \in [Calls -> Completions \union {"none"}]
          /\ outcome \in [Calls -> Outcomes \union {"none"}]
          /\ answer \in [Calls -> Answers \union {"none"}]
      BY <1>1 DEF Init
    <3>4. cancelled \in [Calls -> BOOLEAN]
      BY <1>1, Zenon DEF Init
    <3>5. closed \in BOOLEAN
      BY <1>1 DEF Init
    <3>6. revision \in Nat \ {0}
      BY <1>1 DEF Init
    <3>7. /\ job \in [Calls -> {"none", "queued", "asking", "answered", "ended"}]
          /\ pc \in [Calls -> {"new", "selected", "awaiting", "joining", "left", "told"}]
      BY <1>1 DEF Init
    <3>8. \A f \in {waiters, installed, expected} : f \in [Calls -> Nat]
      BY <1>1 DEF Init
    <3>. QED
      BY <3>1, <3>2, <3>3, <3>4, <3>5, <3>6, <3>7, <3>8 DEF TypeOK
  <2>2. FlightInv /\ NoOrphanRefresh
    BY <1>1, <2>1, NoneAssumption
    DEF Init, FlightInv, OperationShape, CallShape, NoOrphanRefresh, Unfinished
  <2>3. \A o \in Calls : Waiting(o) = {} /\ waiters[o] = 0 /\ ~Unfinished(o)
    BY <1>1 DEF Init, Waiting, Unfinished
  <2>. QED
    BY <2>2, <2>3, FS_EmptySet DEF DemandInv, WaitersCounted
<1>2. DemandInv /\ [Next]_vars => DemandInv'
  BY FlightStep, CountStep, NoOrphanStep DEF DemandInv
<1>. QED
  BY <1>1, <1>2, PTL DEF SafeSpec

-------------------------------------------------------------------------------
\* Every variable keeps its type: the counter of those who wait never falls below zero.
THEOREM TypeCorrect == SafeSpec => []TypeOK
<1>1. DemandInv => TypeOK
  BY DEF DemandInv, FlightInv
<1>. QED
  BY <1>1, DemandCorrect, PTL

\* However late the failures on a revision ask, it is refreshed by one operation at a
\* time and replaced once, and whoever is told so has a newer one to go on with.
THEOREM RefreshedOnce == SafeSpec => []RevisionsRefreshedOnce
<1>1. DemandInv => RevisionsRefreshedOnce
  BY NoneAssumption
  DEF DemandInv, FlightInv, TypeOK, RevisionsRefreshedOnce, OperationShape, CallShape
<1>. QED
  BY <1>1, DemandCorrect, PTL

\* A refresh under way has somebody who waits for its result or for its end.
THEOREM NoOrphans == SafeSpec => []NoOrphanRefresh
<1>1. DemandInv => NoOrphanRefresh
  BY DEF DemandInv
<1>. QED
  BY <1>1, DemandCorrect, PTL

\* A caller that leaves takes the refresh away from nobody who waits for it.
THEOREM LeaversTakeNothing == SafeSpec => WaitersKeepTheirRefresh
<1>. DEFINE Keeps ==
       \A o \in Calls : ~cancelled[o] /\ cancelled'[o] =>
           \/ closed
           \/ \A c \in Calls : ~(on'[c] = o /\ pc'[c] = "awaiting")
<1>1. ASSUME DemandInv, [Next]_vars PROVE Keeps \/ UNCHANGED vars
  <2>. USE DEF DemandInv, FlightInv, TypeOK
  <2>1. ASSUME NEW c \in Calls, AbandonWaiter(c) PROVE Keeps
    <3>1. on[c] \in Calls /\ (IsLast(c) => Waiting(on[c]) = {c})
      BY <1>1, <2>1, WaitersAreCounted DEF AbandonWaiter
    <3>2. CASE ~IsLast(c)
      BY <2>1, <3>2 DEF AbandonWaiter
    <3>3. CASE IsLast(c)
      <4>1. \A d \in Calls : ~(on'[d] = on[c] /\ pc'[d] = "awaiting")
        BY <1>1, <2>1, <3>1, <3>3 DEF AbandonWaiter, Waiting
      <4>2. \A o \in Calls \ {on[c]} : cancelled'[o] = cancelled[o]
        BY <1>1, <2>1, <3>1, <3>3 DEF AbandonWaiter
      <4>. QED
        BY <4>1, <4>2
    <3>. QED
      BY <3>2, <3>3
  <2>2. CASE ShutdownCancels
    BY <1>1, <2>2 DEF ShutdownCancels
  <2>3. CASE UNCHANGED cancelled
    BY <2>3
  <2>. QED
    BY <1>1, <2>1, <2>2, <2>3
    DEF Next, Caller, Operation, Shutdown, SelectBinding, RefreshOnClosed,
        RefreshAlreadyAdvanced, RefreshJoins, RefreshNotAdmitted, RefreshStarts, Told,
        AwaitReturns, JoinReturns, CancelledBeforeBody, Finish, BodyBegins, ProviderAnswers,
        ObservesCancellation, FinishOperation, OperationMoves, BeginShutdown,
        ShutdownFindsNothing, ShutdownReturns, operationVars
<1>2. DemandInv /\ [Next]_vars => [Keeps]_vars
  BY <1>1
<1>. QED
  BY <1>2, DemandCorrect, PTL DEF SafeSpec, WaitersKeepTheirRefresh
===============================================================================
