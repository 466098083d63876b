----------------------- MODULE RecoveryEvidenceProofs -----------------------
(***************************************************************************)
(* Proofs about RecoveryEvidence, for every set of calls, keys and         *)
(* requests and every budget: the evidence of a recovery coordinator is    *)
(* rejected for three races only, and what is not rejected tells the truth.*)
(*                                                                         *)
(* ToldInv says for each chain what the oracle has made of its evidence as *)
(* a function of the chain's state: of where its driver stands, of its     *)
(* owner, and of what the admission has still to write (log).              *)
(*                                                                         *)
(* The tables agree for every response and budget; the backoff windows, of *)
(* two different recursions, for every base, cap and ordinal.              *)
(***************************************************************************)
EXTENDS RecoveryEvidence, RecoveryCoordinatorProofs, WellFoundedInduction

KnownRaces == {"LEDGER", "PERMIT_WAIT_DURING_BACKOFF", "EARLY_REQUEST"}

Spendings == [attempts: Nat, refreshes: Nat]

RowActions == {"none", "TERMINATE", "SCHEDULE_BACKOFF", "START_NEXT_OWNER", "WAIT_PROVIDER",
               "RECONCILE", "REFRESH_DELIVERY_BINDING", "TERMINATE_SESSION", "TERMINATE_FAILURE"}

\* A chain's record while no requirement is broken.
ChainRecord ==
    [limits: Spendings, spent: Spendings, priority: Priorities,
     terminal: Reasons \union {"none"}, consumers: SUBSET Consumers,
     open: BOOLEAN, pending: BOOLEAN, permit: BOOLEAN, backoff: BOOLEAN,
     charges: Nat, refreshCharged: BOOLEAN, failed: BOOLEAN, atFinish: Spendings,
     row: [action: RowActions, ends: Reasons \union {"none"},
           result: RefreshResults \union {"none"}],
     broken: {{}}]

Rejected(k) == k.broken # {} /\ k.broken \subseteq KnownRaces

\* The replay k2 of an event e after k: a rejection for a known race, or what e means.
Read(k, e, k2) ==
    k2 = [Applied(k, e) EXCEPT !.spent = e.spent, !.priority = e.priority]

\* What the admission of a chain's owner, or of its refresh, has to write or has written.
LogStates == {"none", "charge", "started", "admitted", "refresh", "refreshed"}

EvidenceTypes ==
    /\ DOMAIN replay = Calls
    /\ log \in [Calls -> LogStates]
    /\ waitRuns \in [Calls -> BOOLEAN]

\* An attempt is written while it is in flight and its refresh while the chain waits for
\* it; before an answer of the binding coordinator's is applied, all of it is.
LogShape(h) ==
    /\ log[h] \in {"charge", "started"} => owner[h] = "inflight"
    /\ log[h] = "admitted" => owner[h] \in {"inflight", "ended"}
    /\ owner[h] = "inflight" => log[h] \in {"charge", "started", "admitted"}
    /\ log[h] = "refresh" => at[h] = "refreshing"
    /\ log[h] = "refreshed" => at[h] \in {"refreshing", "applying"}
    /\ at[h] = "applying" => verdict[h] \in RefreshResults
    /\ at[h] = "applying" /\ verdict[h] \in {"NOT_ADMITTED", "CLOSED"} => log[h] = "none"
    /\ at[h] = "applying" /\ verdict[h] = "NOT_ADMITTED" => refreshes[h] = RefreshLimit
    /\ result[h] => at[h] = "done"
    /\ state[h] = "TERMINAL" => reason[h] # "none"
    /\ state[h] = "UNBORN" => attempts[h] = 0 /\ refreshes[h] = 0 /\ log[h] = "none"

\* A charge of the ledger that is not written yet.
Unwritten(h, entry) == IF log[h] = entry THEN 1 ELSE 0

ToldChain(h, k) ==
    /\ k.limits = Spent(AttemptLimit, RefreshLimit)
    /\ k.spent = Spent(attempts[h] - Unwritten(h, "charge"),
                       refreshes[h] - Unwritten(h, "refresh"))
    /\ k.charges = attempts[h] - Unwritten(h, "charge")
    /\ k.priority = priority[h]
    /\ k.terminal = reason[h]
    /\ state[h] # "TERMINAL" => k.consumers = consumers[h] /\ k.row.ends = "none"

\* The owner, its permit, and the backoff, which is left open when it is abandoned.
ToldOwner(h, k) ==
    /\ k.open <=> log[h] = "admitted"
    /\ k.pending <=> log[h] = "started"
    /\ k.refreshCharged <=> log[h] = "refreshed"
    /\ \/ at[h] \in {"permitted", "cleared", "acquiring"}
       \/ owner[h] = "preflight"
       \/ log[h] = "charge"
       => k.permit
    /\ at[h] = "sleeping" /\ state[h] = "WAITING_BACKOFF" => k.backoff
    /\ k.backoff => at[h] \in {"sleeping", "head", "gate"}

Deciding == {"reconciling", "refresh", "refreshing", "applying"}

\* A failure has no row until what is decided about it is done; its context is the ledger
\* of the decision, from before the charge of a refresh.
ToldFailure(h, k) ==
    /\ k.failed <=> \/ at[h] = "deciding" /\ verdict[h] # "SUCCESS"
                    \/ at[h] \in Deciding
    /\ at[h] \in {"deciding"} \union Deciding =>
        k.atFinish = Spent(attempts[h], refreshes[h]
                            - (IF log[h] \in {"refresh", "refreshed"} THEN 1 ELSE 0))

Told(h) ==
    IF state[h] = "UNBORN" THEN replay[h] = NoChain
    ELSE \/ Rejected(replay[h])
         \/ /\ replay[h] \in ChainRecord
            /\ ToldChain(h, replay[h])
            /\ ToldOwner(h, replay[h])
            /\ ToldFailure(h, replay[h])

ToldInv ==
    /\ EvidenceTypes
    /\ \A h \in Calls : LogShape(h) /\ Told(h)

-------------------------------------------------------------------------------
(* A chain's record after each event that is not rejected *)

AfterGrant(k) == [k EXCEPT !.permit = TRUE]
AfterStart(k) == [k EXCEPT !.pending = FALSE, !.open = TRUE, !.row = NoRow]
AfterFinish(k, spent, finish) ==
    [k EXCEPT !.open = FALSE, !.permit = FALSE, !.atFinish = spent, !.failed = ~finish.success]
AfterBackoff(k) == [k EXCEPT !.backoff = TRUE]
AfterWakeUp(k) == [k EXCEPT !.backoff = FALSE]
AfterRow(k, row) ==
    [k EXCEPT !.row = Kept(row), !.refreshCharged = FALSE,
              !.failed = IF row.owned THEN FALSE ELSE @]
AfterEnd(k, r) == [k EXCEPT !.terminal = r, !.backoff = FALSE]
AfterJoin(k, u, p) == [k EXCEPT !.consumers = @ \union {u}, !.priority = p]
AfterRaise(k, p) == [k EXCEPT !.priority = p]
AfterRelease(k, u) == [k EXCEPT !.consumers = @ \ {u}]
AfterAttempt(k, spent) ==
    [k EXCEPT !.pending = TRUE, !.permit = FALSE, !.charges = @ + 1, !.spent = spent]
AfterRefresh(k, spent) == [k EXCEPT !.refreshCharged = TRUE, !.spent = spent]

-------------------------------------------------------------------------------
(* Replaying up to three events *)

\* The replay of one event is that of the event.
LEMMA ReplayOne ==
  ASSUME NEW k, NEW e
  PROVE  ReplayAll(k, <<e>>) = Replay(k, e)
<1> DEFINE s == <<e>>
           Up(g) == g = [n \in 0 .. Len(s) |-> IF n = 0 THEN k ELSE Replay(g[n - 1], s[n])]
           u == CHOOSE g : Up(g)
           w == [n \in 0 .. Len(s) |-> IF n = 0 THEN k ELSE Replay(k, e)]
<1>1. Up(w)
  OBVIOUS
<1>2. Up(u)
  BY <1>1
<1>3. ReplayAll(k, s) = u[Len(s)]
  BY DEF ReplayAll
<1>4. PICK f : f = u /\ Up(f)
  BY <1>2
<1>5. f[1] = Replay(k, e)
  <2> HIDE DEF u, w
  <2>1. f = [n \in 0 .. 1 |-> IF n = 0 THEN k ELSE Replay(f[n - 1], s[n])]
    BY <1>4
  <2>2. 0 \in 0 .. 1 /\ 1 \in 0 .. 1
    OBVIOUS
  <2>3. f[0] = k
    BY ONLY <2>1, <2>2
  <2>4. f[1] = Replay(f[0], s[1])
    BY ONLY <2>1, <2>2
  <2> QED
    BY <2>3, <2>4
<1> QED
  BY <1>3, <1>4, <1>5

\* Two events are replayed one after the other.
LEMMA ReplayTwo ==
  ASSUME NEW k, NEW e, NEW d
  PROVE  ReplayAll(k, <<e, d>>) = Replay(Replay(k, e), d)
<1> DEFINE s == <<e, d>>
           Up(g) == g = [n \in 0 .. Len(s) |-> IF n = 0 THEN k ELSE Replay(g[n - 1], s[n])]
           u == CHOOSE g : Up(g)
           w == [n \in 0 .. Len(s) |->
                    IF n = 0 THEN k ELSE IF n = 1 THEN Replay(k, e) ELSE Replay(Replay(k, e), d)]
<1>1. Up(w)
  OBVIOUS
<1>2. Up(u)
  BY <1>1
<1>3. ReplayAll(k, s) = u[Len(s)]
  BY DEF ReplayAll
<1>4. PICK f : f = u /\ Up(f)
  BY <1>2
<1>5. f[2] = Replay(Replay(k, e), d)
  <2> HIDE DEF u, w
  <2>1. f = [n \in 0 .. 2 |-> IF n = 0 THEN k ELSE Replay(f[n - 1], s[n])]
    BY <1>4
  <2>2. 0 \in 0 .. 2 /\ 1 \in 0 .. 2 /\ 2 \in 0 .. 2
    OBVIOUS
  <2>3. f[0] = k
    BY ONLY <2>1, <2>2
  <2>4. f[1] = Replay(f[0], s[1])
    BY ONLY <2>1, <2>2
  <2>5. f[2] = Replay(f[1], s[2])
    BY ONLY <2>1, <2>2
  <2> QED
    BY <2>3, <2>4, <2>5
<1> QED
  BY <1>3, <1>4, <1>5

\* So are three.
LEMMA ReplayThree ==
  ASSUME NEW k, NEW e, NEW d, NEW c
  PROVE  ReplayAll(k, <<e, d, c>>) = Replay(Replay(Replay(k, e), d), c)
<1> DEFINE s == <<e, d, c>>
           Up(g) == g = [n \in 0 .. Len(s) |-> IF n = 0 THEN k ELSE Replay(g[n - 1], s[n])]
           u == CHOOSE g : Up(g)
           w == [n \in 0 .. Len(s) |->
                    IF n = 0 THEN k ELSE IF n = 1 THEN Replay(k, e)
                    ELSE IF n = 2 THEN Replay(Replay(k, e), d)
                    ELSE Replay(Replay(Replay(k, e), d), c)]
<1>1. Up(w)
  OBVIOUS
<1>2. Up(u)
  BY <1>1
<1>3. ReplayAll(k, s) = u[Len(s)]
  BY DEF ReplayAll
<1>4. PICK f : f = u /\ Up(f)
  BY <1>2
<1>5. f[3] = Replay(Replay(Replay(k, e), d), c)
  <2> HIDE DEF u, w
  <2>1. f = [n \in 0 .. 3 |-> IF n = 0 THEN k ELSE Replay(f[n - 1], s[n])]
    BY <1>4
  <2>2. 0 \in 0 .. 3 /\ 1 \in 0 .. 3 /\ 2 \in 0 .. 3 /\ 3 \in 0 .. 3
    OBVIOUS
  <2>3. f[0] = k
    BY ONLY <2>1, <2>2
  <2>4. f[1] = Replay(f[0], s[1])
    BY ONLY <2>1, <2>2
  <2>5. f[2] = Replay(f[1], s[2])
    BY ONLY <2>1, <2>2
  <2>6. f[3] = Replay(f[2], s[3])
    BY ONLY <2>1, <2>2
  <2> QED
    BY <2>3, <2>4, <2>5, <2>6
<1> QED
  BY <1>3, <1>4, <1>5

-------------------------------------------------------------------------------
(* What the oracle makes of an event *)

\* A verification that has ended stays as it is.
LEMMA RejectedStays ==
  ASSUME NEW k, NEW e, k.broken # {}
  PROVE  Replay(k, e) = k
BY DEF Replay

\* An event that breaks nothing but what a known race breaks.
LEMMA ReplayKnown ==
  ASSUME NEW k \in ChainRecord, NEW e, BrokenBy(k, e) \subseteq KnownRaces
  PROVE  \/ Rejected(Replay(k, e))
         \/ BrokenBy(k, e) = {} /\ Read(k, e, Replay(k, e))
<1>1. CASE BrokenBy(k, e) = {}
  BY <1>1 DEF Replay, Read, ChainRecord
<1>2. CASE BrokenBy(k, e) # {}
  <2>1. Replay(k, e) = [k EXCEPT !.broken = BrokenBy(k, e)]
    BY <1>2 DEF Replay, ChainRecord
  <2>2. Replay(k, e).broken = BrokenBy(k, e)
    BY <2>1 DEF ChainRecord
  <2> QED
    BY <1>2, <2>2 DEF Rejected
<1> QED
  BY <1>1, <1>2

\* A chain that is not terminal and has the ledger of e, within its limits.
Fits(k, e) ==
    /\ k \in ChainRecord
    /\ k.terminal = "none"
    /\ e.spent \in Spendings
    /\ \A d \in DOMAIN k.limits : e.spent[d] <= k.limits[d]

\* An event of no charge, written with the ledger and the priority of the event before it.
Follows(k, e) ==
    /\ Fits(k, e)
    /\ e.spent = k.spent
    /\ e.priority = k.priority

\* What such an event breaks is left to its kind.
LEMMA FollowsKeeps ==
  ASSUME NEW k, NEW kind, NEW spent, NEW p, NEW detail,
         Follows(k, Event(kind, spent, p, detail)),
         kind # "CHARGE"
  PROVE  BrokenBy(k, Event(kind, spent, p, detail))
            = BrokenByKind(k, Event(kind, spent, p, detail))
BY DEF Follows, Fits, Event, BrokenBy, Require, LedgerHolds, WithinLimits

\* An event that changes nothing of the ledger and that its kind allows is applied.
LEMMA FollowsIsRead ==
  ASSUME NEW k, NEW kind, NEW spent, NEW p, NEW detail,
         Follows(k, Event(kind, spent, p, detail)),
         kind # "CHARGE",
         BrokenByKind(k, Event(kind, spent, p, detail)) = {},
         Applied(k, Event(kind, spent, p, detail)) \in ChainRecord,
         Applied(k, Event(kind, spent, p, detail)).spent = k.spent,
         Applied(k, Event(kind, spent, p, detail)).priority = k.priority
  PROVE  Replay(k, Event(kind, spent, p, detail)) = Applied(k, Event(kind, spent, p, detail))
<1> DEFINE e == Event(kind, spent, p, detail)
<1>1. BrokenBy(k, e) = {} /\ k.broken = {} /\ e.spent = k.spent /\ e.priority = k.priority
  BY FollowsKeeps DEF Follows, Fits, ChainRecord
<1>2. PICK k2 \in ChainRecord : k2 = Applied(k, e)
  OBVIOUS
<1>3. Replay(k, e) = [k2 EXCEPT !.spent = k2.spent, !.priority = k2.priority]
  BY <1>1, <1>2 DEF Replay
<1>4. [k2 EXCEPT !.spent = k2.spent, !.priority = k2.priority] = k2
  BY DEF ChainRecord
<1> QED
  BY <1>2, <1>3, <1>4

\* The wait for a permit, which a backoff that was left open makes a known race.
LEMMA PermitWaitIsRead ==
  ASSUME NEW k, NEW spent, NEW p, NEW detail,
         Follows(k, Event("ATTEMPT_PERMIT_WAIT", spent, p, detail)),
         ~k.open
  PROVE  \/ Rejected(Replay(k, Event("ATTEMPT_PERMIT_WAIT", spent, p, detail)))
         \/ ~k.backoff /\ Replay(k, Event("ATTEMPT_PERMIT_WAIT", spent, p, detail)) = k
<1> DEFINE e == Event("ATTEMPT_PERMIT_WAIT", spent, p, detail)
<1>1. BrokenBy(k, e) = Require("PERMIT_WAIT_DURING_BACKOFF", ~k.backoff)
  <2>1. BrokenBy(k, e) = BrokenByKind(k, e)
    BY FollowsKeeps
  <2>2. BrokenByKind(k, e) = Require("PERMIT_WAIT_WITH_OPEN_OWNER", ~k.open)
                                \union Require("PERMIT_WAIT_DURING_BACKOFF", ~k.backoff)
    BY DEF BrokenByKind, Event
  <2> QED
    BY <2>1, <2>2 DEF Require
<1>2. k \in ChainRecord /\ Applied(k, e) = k
  BY DEF Follows, Fits, Applied, Event
<1>3. CASE k.backoff
  BY <1>1, <1>2, <1>3, ReplayKnown DEF Require, KnownRaces
<1>4. CASE ~k.backoff
  <2>1. BrokenByKind(k, e) = {}
    BY <1>1, <1>4, FollowsKeeps DEF Require
  <2> QED
    BY <1>2, <1>4, <2>1, FollowsIsRead DEF Follows, Fits
<1> QED
  BY <1>3, <1>4

\* A permit is granted.
LEMMA PermitGrantIsRead ==
  ASSUME NEW k, NEW spent, NEW p, NEW detail,
         Follows(k, Event("ATTEMPT_PERMIT_GRANTED", spent, p, detail))
  PROVE  Replay(k, Event("ATTEMPT_PERMIT_GRANTED", spent, p, detail))
            = AfterGrant(k)
<1> DEFINE e == Event("ATTEMPT_PERMIT_GRANTED", spent, p, detail)
           k2 == [k EXCEPT !.permit = TRUE]
<1>1. k \in ChainRecord /\ Applied(k, e) = k2 /\ BrokenByKind(k, e) = {}
  BY DEF Follows, Fits, Applied, Event, BrokenByKind
<1>2. k2 \in ChainRecord /\ k2.spent = k.spent /\ k2.priority = k.priority
  BY <1>1 DEF ChainRecord
<1>3. Replay(k, e) = Applied(k, e)
  <2> HIDE DEF k2
  <2> QED
    BY <1>1, <1>2, FollowsIsRead
<1> QED
  BY <1>1, <1>2, <1>3 DEF AfterGrant

\* An owner starts, for a charge that is waiting for one; the row that led to it is done with.
LEMMA StartIsRead ==
  ASSUME NEW k, NEW spent, NEW p, NEW detail,
         Follows(k, Event("OWNER_STARTED", spent, p, detail)), k.pending
  PROVE  Replay(k, Event("OWNER_STARTED", spent, p, detail))
            = AfterStart(k)
<1> DEFINE e == Event("OWNER_STARTED", spent, p, detail)
           k2 == [k EXCEPT !.pending = FALSE, !.open = TRUE, !.row = NoRow]
<1>1. k \in ChainRecord /\ Applied(k, e) = k2 /\ BrokenByKind(k, e) = {}
  BY DEF Follows, Fits, Applied, Event, BrokenByKind, Require
<1>2. k2 \in ChainRecord /\ k2.spent = k.spent /\ k2.priority = k.priority
  BY <1>1 DEF ChainRecord, NoRow, RowActions
<1>3. Replay(k, e) = Applied(k, e)
  <2> HIDE DEF k2
  <2> QED
    BY <1>1, <1>2, FollowsIsRead
<1> QED
  BY <1>1, <1>2, <1>3 DEF AfterStart

\* An owner finishes; the ledger of now is the context of what is decided about it.
LEMMA FinishIsRead ==
  ASSUME NEW k, NEW spent, NEW p, NEW detail,
         Follows(k, Event("OWNER_FINISHED", spent, p, detail)),
         ~k.pending, ~k.failed, k.open <=> detail.admitted
  PROVE  Replay(k, Event("OWNER_FINISHED", spent, p, detail))
            = AfterFinish(k, spent, detail)
<1> DEFINE e == Event("OWNER_FINISHED", spent, p, detail)
           k2 == [k EXCEPT !.open = FALSE, !.permit = FALSE, !.atFinish = spent,
                           !.failed = ~detail.success]
<1>1. k \in ChainRecord /\ spent \in Spendings
  BY DEF Follows, Fits, Event
<1>2. Applied(k, e) = k2
  BY DEF Applied, Event
<1>3. BrokenByKind(k, e) = {}
  BY DEF Event, BrokenByKind, BrokenByFinish, Require
<1>4. k2 \in ChainRecord /\ k2.spent = k.spent /\ k2.priority = k.priority
  BY <1>1 DEF ChainRecord
<1>5. Replay(k, e) = Applied(k, e)
  <2> HIDE DEF k2
  <2> QED
    BY <1>2, <1>3, <1>4, FollowsIsRead
<1> QED
  BY <1>1, <1>2, <1>5 DEF AfterFinish

\* The backoff that the last row has decided.
LEMMA BackoffIsRead ==
  ASSUME NEW k, NEW spent, NEW p, NEW detail,
         Follows(k, Event("BACKOFF_SCHEDULED", spent, p, detail)),
         k.row.action = "SCHEDULE_BACKOFF"
  PROVE  Replay(k, Event("BACKOFF_SCHEDULED", spent, p, detail)) = AfterBackoff(k)
<1> DEFINE e == Event("BACKOFF_SCHEDULED", spent, p, detail)
           k2 == [k EXCEPT !.backoff = TRUE]
<1>1. k \in ChainRecord /\ Applied(k, e) = k2 /\ BrokenByKind(k, e) = {}
  BY DEF Follows, Fits, Applied, Event, BrokenByKind, Require
<1>2. k2 \in ChainRecord /\ k2.spent = k.spent /\ k2.priority = k.priority
  BY <1>1 DEF ChainRecord
<1>3. Replay(k, e) = Applied(k, e)
  <2> HIDE DEF k2
  <2> QED
    BY <1>1, <1>2, FollowsIsRead
<1> QED
  BY <1>1, <1>2, <1>3 DEF AfterBackoff

\* The end of a backoff that is open.
LEMMA WakeUpIsRead ==
  ASSUME NEW k, NEW spent, NEW p, NEW detail,
         Follows(k, Event("BACKOFF_COMPLETED", spent, p, detail)), k.backoff
  PROVE  Replay(k, Event("BACKOFF_COMPLETED", spent, p, detail)) = AfterWakeUp(k)
<1> DEFINE e == Event("BACKOFF_COMPLETED", spent, p, detail)
           k2 == [k EXCEPT !.backoff = FALSE]
<1>1. k \in ChainRecord /\ Applied(k, e) = k2 /\ BrokenByKind(k, e) = {}
  BY DEF Follows, Fits, Applied, Event, BrokenByKind, Require
<1>2. k2 \in ChainRecord /\ k2.spent = k.spent /\ k2.priority = k.priority
  BY <1>1 DEF ChainRecord
<1>3. Replay(k, e) = Applied(k, e)
  <2> HIDE DEF k2
  <2> QED
    BY <1>1, <1>2, FollowsIsRead
<1> QED
  BY <1>1, <1>2, <1>3 DEF AfterWakeUp

\* The row of a failure: of the owner that failed and has none yet, or of none.
RowFits(k, row) ==
    /\ row.action \in RowActions /\ row.ends \in Reasons \union {"none"}
    /\ row.result \in RefreshResults \union {"none"}
    /\ row.owned => k.failed
    /\ row.owned => row.left = Spent(k.limits.attempts - k.atFinish.attempts,
                                     k.limits.refreshes - k.atFinish.refreshes)
    /\ row.charged <=> k.refreshCharged
    /\ row.result \in {"NOT_ADMITTED", "CLOSED"} => ~row.charged
    /\ row.result = "NOT_ADMITTED" => row.left.refreshes = 0

\* A row that fits is the chain's last, and has taken the failure and the refresh's charge.
LEMMA RowIsRead ==
  ASSUME NEW k, NEW spent, NEW p, NEW row,
         Follows(k, Event("FAILURE", spent, p, row)), RowFits(k, row)
  PROVE  Replay(k, Event("FAILURE", spent, p, row))
            = AfterRow(k, row)
<1> DEFINE e == Event("FAILURE", spent, p, row)
           k2 == [k EXCEPT !.row = Kept(row), !.refreshCharged = FALSE,
                           !.failed = IF row.owned THEN FALSE ELSE @]
<1>1. k \in ChainRecord
  BY DEF Follows, Fits
<1>2. Applied(k, e) = k2
  BY DEF Applied, Event
<1>3. BrokenByRow(k, e) = {}
  <2>1. row.owned => \A d \in DOMAIN k.limits : row.left[d] = k.limits[d] - k.atFinish[d]
    BY <1>1 DEF RowFits, Spent, ChainRecord, Spendings
  <2> QED
    BY <2>1 DEF RowFits, BrokenByRow, Event, Require
<1>4. BrokenByKind(k, e) = {}
  BY <1>3 DEF Event, BrokenByKind
<1>5. k2 \in ChainRecord /\ k2.spent = k.spent /\ k2.priority = k.priority
  BY <1>1 DEF ChainRecord, Kept, RowFits
<1>6. Replay(k, e) = Applied(k, e)
  <2> HIDE DEF k2
  <2> QED
    BY <1>2, <1>4, <1>5, FollowsIsRead
<1> QED
  BY <1>1, <1>2, <1>6 DEF AfterRow

\* The end of a chain is the one its last row decided, if the end names the row.
EndFits(k, end) ==
    /\ end.reason \in Reasons
    /\ ~k.open /\ ~k.pending /\ ~k.failed
    /\ IF end.named THEN k.row.ends = end.reason ELSE k.row.ends = "none"
    /\ end.reason = "BUDGET_EXHAUSTED" =>
        \/ k.limits.attempts - k.spent.attempts = 0
        \/ end.named /\ k.row.result = "NOT_ADMITTED"

\* An end that fits.
LEMMA EndIsRead ==
  ASSUME NEW k, NEW spent, NEW p, NEW end,
         Follows(k, Event("CHAIN_TERMINATED", spent, p, end)), EndFits(k, end)
  PROVE  Replay(k, Event("CHAIN_TERMINATED", spent, p, end))
            = AfterEnd(k, end.reason)
<1> DEFINE e == Event("CHAIN_TERMINATED", spent, p, end)
           k2 == [k EXCEPT !.terminal = end.reason, !.backoff = FALSE]
<1>1. k \in ChainRecord
  BY DEF Follows, Fits
<1>2. Applied(k, e) = k2
  BY DEF Applied, Event
<1>3. BrokenByEnd(k, e) = {}
  BY DEF EndFits, BrokenByEnd, Event, Require, AttemptsLeft
<1>4. BrokenByKind(k, e) = {}
  BY <1>3 DEF Event, BrokenByKind
<1>5. k2 \in ChainRecord /\ k2.spent = k.spent /\ k2.priority = k.priority
  BY <1>1 DEF ChainRecord, EndFits
<1>6. Replay(k, e) = Applied(k, e)
  <2> HIDE DEF k2
  <2> QED
    BY <1>2, <1>4, <1>5, FollowsIsRead
<1> QED
  BY <1>1, <1>2, <1>6 DEF AfterEnd

\* A caller's event, written with the chain's priority or before it is raised: all that
\* can be wrong with it is that a charge of the ledger has not been written yet.
LEMMA JoinIsRead ==
  ASSUME NEW k, NEW spent, NEW p \in Priorities, NEW u \in Consumers,
         Fits(k, Event("CONSUMER_JOINED", spent, p, u)), u \notin k.consumers
  PROVE  \/ Rejected(Replay(k, Event("CONSUMER_JOINED", spent, p, u)))
         \/ /\ spent = k.spent
            /\ Replay(k, Event("CONSUMER_JOINED", spent, p, u))
                = AfterJoin(k, u, p)
<1> DEFINE e == Event("CONSUMER_JOINED", spent, p, u)
<1>1. k \in ChainRecord
  BY DEF Fits
<1>2. BrokenBy(k, e) = Require("LEDGER", spent = k.spent)
  <2>1. BrokenByKind(k, e) = {}
    BY DEF BrokenByKind, Event, Require
  <2> QED
    BY <2>1 DEF BrokenBy, Event, LedgerHolds, WithinLimits, Fits, Require
<1>3. Applied(k, e) = [k EXCEPT !.consumers = @ \union {u}]
  BY DEF Applied, Event
<1>4. Read(k, e, Replay(k, e)) => Replay(k, e)
        = [k EXCEPT !.consumers = @ \union {u}, !.priority = p, !.spent = spent]
  <2>1. Read(k, e, Replay(k, e)) => Replay(k, e)
            = [[k EXCEPT !.consumers = @ \union {u}] EXCEPT !.spent = spent, !.priority = p]
    BY <1>3 DEF Read, Event
  <2>2. [[k EXCEPT !.consumers = @ \union {u}] EXCEPT !.spent = spent, !.priority = p]
            = [k EXCEPT !.consumers = @ \union {u}, !.priority = p, !.spent = spent]
    BY ONLY <1>1 DEF ChainRecord
  <2> QED
    BY <2>1, <2>2
<1>5. spent = k.spent => [k EXCEPT !.consumers = @ \union {u}, !.priority = p, !.spent = spent]
                            = [k EXCEPT !.consumers = @ \union {u}, !.priority = p]
  <2> SUFFICES ASSUME spent = k.spent
               PROVE  [k EXCEPT !.consumers = @ \union {u}, !.priority = p, !.spent = spent]
                        = [k EXCEPT !.consumers = @ \union {u}, !.priority = p]
    OBVIOUS
  <2>1. PICK k2 \in ChainRecord :
            k2 = [k EXCEPT !.consumers = @ \union {u}, !.priority = p] /\ k2.spent = k.spent
    <3>1. PICK all \in SUBSET Consumers : all = k.consumers \union {u}
      BY <1>1 DEF ChainRecord
    <3>2. [k EXCEPT !.consumers = @ \union {u}, !.priority = p]
            = [k EXCEPT !.consumers = all, !.priority = p]
      BY <3>1
    <3>3. /\ [k EXCEPT !.consumers = all, !.priority = p] \in ChainRecord
          /\ [k EXCEPT !.consumers = all, !.priority = p].spent = k.spent
      BY <1>1 DEF ChainRecord
    <3> QED
      BY <3>2, <3>3
  <2>2. [k2 EXCEPT !.spent = k2.spent] = k2
    BY DEF ChainRecord
  <2> QED
    BY <2>1, <2>2
<1>6. Rejected(Replay(k, e)) \/ (BrokenBy(k, e) = {} /\ Read(k, e, Replay(k, e)))
  BY <1>1, <1>2, ReplayKnown DEF Require, KnownRaces
<1>7. BrokenBy(k, e) = {} => spent = k.spent
  BY <1>2 DEF Require
<1> HIDE DEF e
<1> QED
  BY <1>4, <1>5, <1>6, <1>7 DEF e, AfterJoin

\* The same of a raise of the priority.
LEMMA RaiseIsRead ==
  ASSUME NEW k, NEW spent, NEW p \in Priorities, NEW detail,
         Fits(k, Event("PRIORITY_RAISED", spent, p, detail)), p > k.priority
  PROVE  \/ Rejected(Replay(k, Event("PRIORITY_RAISED", spent, p, detail)))
         \/ /\ spent = k.spent
            /\ Replay(k, Event("PRIORITY_RAISED", spent, p, detail)) = AfterRaise(k, p)
<1> DEFINE e == Event("PRIORITY_RAISED", spent, p, detail)
<1>1. k \in ChainRecord
  BY DEF Fits
<1>2. BrokenBy(k, e) = Require("LEDGER", spent = k.spent)
  <2>1. BrokenByKind(k, e) = {}
    BY DEF BrokenByKind, Event, Require
  <2> QED
    BY <2>1 DEF BrokenBy, Event, LedgerHolds, WithinLimits, Fits, Require
<1>3. Applied(k, e) = k
  BY DEF Applied, Event
<1>4. Read(k, e, Replay(k, e)) => Replay(k, e) = [k EXCEPT !.priority = p, !.spent = spent]
  <2>1. Read(k, e, Replay(k, e)) => Replay(k, e) = [k EXCEPT !.spent = spent, !.priority = p]
    BY <1>3 DEF Read, Event
  <2>2. [k EXCEPT !.spent = spent, !.priority = p] = [k EXCEPT !.priority = p, !.spent = spent]
    BY ONLY <1>1 DEF ChainRecord
  <2> QED
    BY <2>1, <2>2
<1>5. spent = k.spent => [k EXCEPT !.priority = p, !.spent = spent] = [k EXCEPT !.priority = p]
  BY <1>1 DEF ChainRecord
<1>6. Rejected(Replay(k, e)) \/ (BrokenBy(k, e) = {} /\ Read(k, e, Replay(k, e)))
  BY <1>1, <1>2, ReplayKnown DEF Require, KnownRaces
<1>7. BrokenBy(k, e) = {} => spent = k.spent
  BY <1>2 DEF Require
<1> HIDE DEF e
<1> QED
  BY <1>4, <1>5, <1>6, <1>7 DEF e, AfterRaise

\* The same of a release.
LEMMA ReleaseIsRead ==
  ASSUME NEW k, NEW spent, NEW u \in Consumers,
         Fits(k, Event("CONSUMER_RELEASED", spent, k.priority, u)), u \in k.consumers
  PROVE  \/ Rejected(Replay(k, Event("CONSUMER_RELEASED", spent, k.priority, u)))
         \/ /\ spent = k.spent
            /\ Replay(k, Event("CONSUMER_RELEASED", spent, k.priority, u))
                = AfterRelease(k, u)
<1> DEFINE e == Event("CONSUMER_RELEASED", spent, k.priority, u)
<1>1. k \in ChainRecord
  BY DEF Fits
<1>2. BrokenBy(k, e) = Require("LEDGER", spent = k.spent)
  <2>1. BrokenByKind(k, e) = {}
    BY DEF BrokenByKind, Event, Require
  <2> QED
    BY <2>1 DEF BrokenBy, Event, LedgerHolds, WithinLimits, Fits, Require
<1>3. Applied(k, e) = [k EXCEPT !.consumers = @ \ {u}]
  BY DEF Applied, Event
<1>4. Read(k, e, Replay(k, e)) /\ spent = k.spent =>
        Replay(k, e) = [k EXCEPT !.consumers = @ \ {u}]
  <2>1. PICK k2 \in ChainRecord :
            /\ k2 = [k EXCEPT !.consumers = @ \ {u}]
            /\ k2.priority = k.priority /\ k2.spent = k.spent
    <3>1. PICK rest \in SUBSET Consumers : rest = k.consumers \ {u}
      BY <1>1 DEF ChainRecord
    <3>2. [k EXCEPT !.consumers = @ \ {u}] = [k EXCEPT !.consumers = rest]
      BY <3>1
    <3>3. /\ [k EXCEPT !.consumers = rest] \in ChainRecord
          /\ [k EXCEPT !.consumers = rest].spent = k.spent
          /\ [k EXCEPT !.consumers = rest].priority = k.priority
      BY <1>1 DEF ChainRecord
    <3> QED
      BY <3>2, <3>3
  <2>2. [k2 EXCEPT !.spent = k2.spent, !.priority = k2.priority] = k2
    BY DEF ChainRecord
  <2>3. Read(k, e, Replay(k, e)) => Replay(k, e)
            = [[k EXCEPT !.consumers = @ \ {u}] EXCEPT !.spent = spent, !.priority = k.priority]
    BY <1>3 DEF Read, Event
  <2> QED
    BY <2>1, <2>2, <2>3
<1>5. Rejected(Replay(k, e)) \/ (BrokenBy(k, e) = {} /\ Read(k, e, Replay(k, e)))
  BY <1>1, <1>2, ReplayKnown DEF Require, KnownRaces
<1>6. BrokenBy(k, e) = {} => spent = k.spent
  BY <1>2 DEF Require
<1> HIDE DEF e
<1> QED
  BY <1>4, <1>5, <1>6 DEF e, AfterRelease

\* A charge, which may come before the provider's wait has elapsed.
LEMMA AttemptChargeIsRead ==
  ASSUME NEW k, NEW spent, NEW early \in BOOLEAN,
         Fits(k, Event("CHARGE", spent, k.priority, ChargeOf("attempts", early))),
         spent = [k.spent EXCEPT !.attempts = @ + 1],
         k.permit, ~k.open, ~k.pending, ~k.backoff, k.row.ends = "none"
  PROVE  \/ Rejected(Replay(k, Event("CHARGE", spent, k.priority, ChargeOf("attempts", early))))
         \/ Replay(k, Event("CHARGE", spent, k.priority, ChargeOf("attempts", early)))
                = AfterAttempt(k, spent)
<1> DEFINE e == Event("CHARGE", spent, k.priority, ChargeOf("attempts", early))
<1>1. k \in ChainRecord
  BY DEF Fits
<1>2. BrokenBy(k, e) = Require("EARLY_REQUEST", k.row.action = "WAIT_PROVIDER" => ~early)
  <2>1. BrokenByKind(k, e) = BrokenByCharge(k, e) \union BrokenByRequest(k, e)
    BY DEF BrokenByKind, Event
  <2>2. BrokenByCharge(k, e) = {}
    BY DEF BrokenByCharge, Event, ChargeOf, Require
  <2>3. BrokenByRequest(k, e)
            = Require("EARLY_REQUEST", k.row.action = "WAIT_PROVIDER" => ~early)
    BY DEF BrokenByRequest, Event, ChargeOf, Require
  <2>4. LedgerHolds(k, e)
    BY DEF LedgerHolds, Event, ChargeOf
  <2> QED
    BY <2>1, <2>2, <2>3, <2>4 DEF BrokenBy, Event, WithinLimits, Fits, Require
<1>3. Applied(k, e) = [k EXCEPT !.pending = TRUE, !.permit = FALSE, !.charges = @ + 1]
  BY DEF Applied, Event, ChargeOf
<1>4. Read(k, e, Replay(k, e)) => Replay(k, e)
        = [k EXCEPT !.pending = TRUE, !.permit = FALSE, !.charges = @ + 1, !.spent = spent]
  <2>1. PICK k2 \in ChainRecord :
            /\ k2 = [k EXCEPT !.pending = TRUE, !.permit = FALSE, !.charges = @ + 1,
                             !.spent = spent]
            /\ k2.priority = k.priority
    <3>1. PICK n \in Nat : n = k.charges + 1
      BY <1>1 DEF ChainRecord
    <3>2. spent \in Spendings
      BY DEF Fits, Event
    <3> DEFINE t == [k EXCEPT !.pending = TRUE, !.permit = FALSE, !.charges = n, !.spent = spent]
    <3>3. t = [k EXCEPT !.pending = TRUE, !.permit = FALSE, !.charges = @ + 1, !.spent = spent]
      BY <3>1
    <3>4. t \in ChainRecord /\ t.priority = k.priority
      BY ONLY <1>1, <3>2, n \in Nat DEF ChainRecord
    <3> QED
      BY <3>3, <3>4
  <2>2. [k2 EXCEPT !.priority = k2.priority] = k2
    BY DEF ChainRecord
  <2>3. Read(k, e, Replay(k, e)) => Replay(k, e)
            = [[k EXCEPT !.pending = TRUE, !.permit = FALSE, !.charges = @ + 1]
                EXCEPT !.spent = spent, !.priority = k.priority]
    BY <1>3 DEF Read, Event
  <2> QED
    BY <2>1, <2>2, <2>3
<1>5. Rejected(Replay(k, e)) \/ Read(k, e, Replay(k, e))
  BY <1>1, <1>2, ReplayKnown DEF Require, KnownRaces
<1> HIDE DEF e
<1> QED
  BY <1>4, <1>5 DEF e, AfterAttempt

\* The charge of a refresh, too.
LEMMA RefreshChargeIsRead ==
  ASSUME NEW k, NEW spent, NEW early \in BOOLEAN,
         Fits(k, Event("CHARGE", spent, k.priority, ChargeOf("refreshes", early))),
         spent = [k.spent EXCEPT !.refreshes = @ + 1],
         ~k.open, ~k.refreshCharged, k.row.ends = "none"
  PROVE  \/ Rejected(Replay(k, Event("CHARGE", spent, k.priority, ChargeOf("refreshes", early))))
         \/ Replay(k, Event("CHARGE", spent, k.priority, ChargeOf("refreshes", early)))
                = AfterRefresh(k, spent)
<1> DEFINE e == Event("CHARGE", spent, k.priority, ChargeOf("refreshes", early))
<1>1. k \in ChainRecord
  BY DEF Fits
<1>2. BrokenBy(k, e) = Require("EARLY_REQUEST", k.row.action = "WAIT_PROVIDER" => ~early)
  <2>1. BrokenByKind(k, e) = BrokenByCharge(k, e) \union BrokenByRequest(k, e)
    BY DEF BrokenByKind, Event
  <2>2. BrokenByCharge(k, e) = {}
    BY DEF BrokenByCharge, Event, ChargeOf, Require
  <2>3. BrokenByRequest(k, e)
            = Require("EARLY_REQUEST", k.row.action = "WAIT_PROVIDER" => ~early)
    BY DEF BrokenByRequest, Event, ChargeOf, Require
  <2>4. LedgerHolds(k, e)
    BY DEF LedgerHolds, Event, ChargeOf
  <2> QED
    BY <2>1, <2>2, <2>3, <2>4 DEF BrokenBy, Event, WithinLimits, Fits, Require
<1>3. Applied(k, e) = [k EXCEPT !.refreshCharged = TRUE]
  BY DEF Applied, Event, ChargeOf
<1>4. Read(k, e, Replay(k, e)) =>
        Replay(k, e) = [k EXCEPT !.refreshCharged = TRUE, !.spent = spent]
  <2>1. PICK k2 \in ChainRecord :
            k2 = [k EXCEPT !.refreshCharged = TRUE, !.spent = spent] /\ k2.priority = k.priority
    <3>1. spent \in Spendings
      BY DEF Fits, Event
    <3> DEFINE t == [k EXCEPT !.refreshCharged = TRUE, !.spent = spent]
    <3>2. t \in ChainRecord /\ t.priority = k.priority
      BY ONLY <1>1, <3>1 DEF ChainRecord
    <3> QED
      BY <3>2
  <2>2. [k2 EXCEPT !.priority = k2.priority] = k2
    BY DEF ChainRecord
  <2>3. Read(k, e, Replay(k, e)) => Replay(k, e)
            = [[k EXCEPT !.refreshCharged = TRUE] EXCEPT !.spent = spent, !.priority = k.priority]
    BY <1>3 DEF Read, Event
  <2> QED
    BY <2>1, <2>2, <2>3
<1>5. Rejected(Replay(k, e)) \/ Read(k, e, Replay(k, e))
  BY <1>1, <1>2, ReplayKnown DEF Require, KnownRaces
<1> HIDE DEF e
<1> QED
  BY <1>4, <1>5 DEF e, AfterRefresh

-------------------------------------------------------------------------------
(* What a step leaves alone *)

SameChain(h) ==
    /\ state'[h] = state[h] /\ reason'[h] = reason[h] /\ result'[h] = result[h]
    /\ consumers'[h] = consumers[h] /\ priority'[h] = priority[h]
    /\ attempts'[h] = attempts[h] /\ refreshes'[h] = refreshes[h]
    /\ at'[h] = at[h] /\ verdict'[h] = verdict[h] /\ owner'[h] = owner[h]
    /\ replay'[h] = replay[h] /\ log'[h] = log[h]

\* A chain of which nothing has changed.
LEMMA SameChainTold ==
  ASSUME NEW h \in Calls, SameChain(h), LogShape(h), Told(h)
  PROVE  LogShape(h)' /\ Told(h)'
BY DEF SameChain, LogShape, Told, ToldChain, ToldOwner, ToldFailure, Unwritten

\* A step of one chain that writes nothing.
LEMMA QuietStep ==
  ASSUME ToldInv, NEW h \in Calls, UNCHANGED <<replay, log>>, waitRuns' \in [Calls -> BOOLEAN],
         \A g \in Calls \ {h} : SameChain(g),
         LogShape(h)', Told(h)'
  PROVE  ToldInv'
BY SameChainTold DEF ToldInv, EvidenceTypes

\* A step that no chain's evidence depends on.
LEMMA NothingTold ==
  ASSUME ToldInv, UNCHANGED <<replay, log>>, waitRuns' \in [Calls -> BOOLEAN],
         \A g \in Calls : SameChain(g)
  PROVE  ToldInv'
BY SameChainTold DEF ToldInv, EvidenceTypes

\* The steps of callers, of shutdown() and of the provider that concern no chain's evidence.
LEMMA BystanderStep ==
  ASSUME ChainInv, ToldInv, UNCHANGED <<replay, log>>, waitRuns' \in [Calls -> BOOLEAN],
         \/ UNCHANGED vars
         \/ BeginShutdown \/ ShutdownStops \/ ShutdownClosesBindings \/ ShutdownReturns
         \/ \E c \in Calls :
              \/ AcquireOnClosing(c) \/ AcquireConflicts(c) \/ AcquireReturns(c)
              \/ AwaitReturns(c) \/ ReleaseOfTerminal(c) \/ CloseHandle(c) \/ RaiseOwner(c)
              \/ ShutdownClosesHandle(c) \/ RetryAfterPasses(c)
  PROVE  ToldInv'
<1>1. UNCHANGED <<state, reason, result, consumers, priority, attempts, refreshes, at,
                  verdict, owner>>
  BY DEF vars, BeginShutdown, ShutdownStops, ShutdownClosesBindings, ShutdownReturns,
         AcquireOnClosing, AcquireConflicts, AcquireReturns, AwaitReturns, ReleaseOfTerminal,
         CloseHandle, RaiseOwner, ShutdownClosesHandle, RetryAfterPasses, GivesUpLease,
         demandVars, endVars, ledgerVars, ownerVars, driverVars, callVars
<1>2. \A g \in Calls : SameChain(g)
  BY <1>1 DEF SameChain
<1> QED
  BY <1>2, NothingTold

\* The steps of a chain's driver that write nothing.
LEMMA SilentDriveStep ==
  ASSUME ChainInv, ToldInv, NEW h \in Calls, UNCHANGED evidenceVars,
         \/ StartDriver(h) \/ ShutdownStartsDriver(h)
         \/ PassesHead(h) \/ PassesPermitted(h) \/ BecomeActive(h) \/ AcquireOwner(h)
         \/ StoreHandle(h) \/ DriverCloses(h) \/ Reconciles(h) \/ DecidesToRefresh(h)
         \/ WaitStops(h) \/ RefreshAnswers(h) \/ CompleteChain(h)
  PROVE  ToldInv'
<1> SUFFICES LogShape(h)' /\ Told(h)' /\ \A g \in Calls \ {h} : SameChain(g)
  BY QuietStep DEF evidenceVars, ToldInv, EvidenceTypes
<1> USE DEF ChainInv, ChainShape, TypeOK, ToldInv, SameChain, Drives, demandVars, endVars,
            ledgerVars, ownerVars, driverVars, callVars, evidenceVars, LogShape, Told,
            ToldChain, ToldOwner, ToldFailure, Unwritten, Deciding
<1>1. CASE StartDriver(h)
  BY <1>1 DEF StartDriver
<1>2. CASE ShutdownStartsDriver(h)
  BY <1>2 DEF ShutdownStartsDriver
<1>3. CASE PassesHead(h)
  BY <1>3 DEF PassesHead
<1>4. CASE PassesPermitted(h)
  BY <1>4 DEF PassesPermitted
<1>5. CASE BecomeActive(h)
  BY <1>5 DEF BecomeActive
<1>6. CASE AcquireOwner(h)
  BY <1>6 DEF AcquireOwner
<1>7. CASE StoreHandle(h)
  BY <1>7 DEF StoreHandle
<1>8. CASE DriverCloses(h)
  BY <1>8 DEF DriverCloses, GivesUpLease
<1>9. CASE Reconciles(h)
  BY <1>9 DEF Reconciles, GoesOn
<1>10. CASE DecidesToRefresh(h)
  BY <1>10 DEF DecidesToRefresh, GoesOn
<1>11. CASE WaitStops(h)
  BY <1>11 DEF WaitStops, Wakes
<1>12. CASE RefreshAnswers(h)
  <2>1. PICK answer \in RefreshResults :
            /\ verdict' = [verdict EXCEPT ![h] = answer]
            /\ answer = "NOT_ADMITTED" => refreshes[h] = RefreshLimit
    BY <1>12 DEF RefreshAnswers, RefreshResults
  <2>2. verdict'[h] \in RefreshResults /\ verdict'[h] = answer
    BY <2>1
  <2>3. at[h] = "refresh" /\ at'[h] = "applying" /\ owner[h] = "none"
    BY <1>12 DEF RefreshAnswers
  <2>4. /\ UNCHANGED <<demandVars, endVars, ledgerVars, ownerVars, replay, log>>
        /\ state'[h] = "REFRESHING_BINDING" /\ state[h] \notin {"UNBORN", "TERMINAL"}
        /\ \A g \in Calls \ {h} : state'[g] = state[g] /\ verdict'[g] = verdict[g] /\ at'[g] = at[g]
    BY <1>12, <2>1 DEF RefreshAnswers
  <2>5. log[h] = "none" /\ result[h] = FALSE
    BY <2>3 DEF LogStates, EvidenceTypes
  <2>6. LogShape(h)'
    BY <2>1, <2>2, <2>3, <2>4, <2>5
  <2>7. Told(h)'
    BY <2>3, <2>4, <2>5
  <2> QED
    BY <2>4, <2>6, <2>7
<1>13. CASE CompleteChain(h)
  BY <1>13 DEF CompleteChain
<1> QED
  BY <1>1, <1>2, <1>3, <1>4, <1>5, <1>6, <1>7, <1>8, <1>9, <1>10, <1>11, <1>12, <1>13

\* What was admitted ends, once all of it is written, or fails without having been.
LEMMA EndOfWorkStep ==
  ASSUME ChainInv, ToldInv, NEW h \in Calls, UNCHANGED evidenceVars,
         \/ (AttemptEnds(h) \/ OwnerCancelled(h) \/ RefreshEnds(h) \/ RefreshAbandoned(h))
              /\ Written(h)
         \/ FailsInPreflight(h)
  PROVE  ToldInv'
<1> SUFFICES LogShape(h)' /\ Told(h)' /\ \A g \in Calls \ {h} : SameChain(g)
  BY QuietStep DEF evidenceVars, ToldInv, EvidenceTypes
<1> USE DEF ChainInv, ChainShape, TypeOK, ToldInv, SameChain, Drives, demandVars, endVars,
            ledgerVars, ownerVars, driverVars, callVars, evidenceVars, LogShape, Told,
            ToldChain, ToldOwner, ToldFailure, Unwritten, Deciding, Written
<1>1. CASE AttemptEnds(h) /\ Written(h)
  BY <1>1 DEF AttemptEnds, OwnerEnds
<1>2. CASE OwnerCancelled(h) /\ Written(h)
  BY <1>2 DEF OwnerCancelled, OwnerEnds, AtWork
<1>3. CASE RefreshEnds(h) /\ Written(h)
  BY <1>3 DEF RefreshEnds, RefreshReturns, RefreshResults
<1>4. CASE RefreshAbandoned(h) /\ Written(h)
  BY <1>4 DEF RefreshAbandoned, RefreshReturns, RefreshResults
<1>5. CASE FailsInPreflight(h)
  BY <1>5 DEF FailsInPreflight, OwnerEnds
<1> QED
  BY <1>1, <1>2, <1>3, <1>4, <1>5

\* A charge of the ledger: what is to be written of it is what has not been.
LEMMA ChargesStep ==
  ASSUME ChainInv, ToldInv, NEW h \in Calls, Charges(h)
  PROVE  ToldInv'
<1> SUFFICES LogShape(h)' /\ Told(h)' /\ log' \in [Calls -> LogStates]
             /\ \A g \in Calls \ {h} : SameChain(g)
  BY SameChainTold DEF ToldInv, EvidenceTypes, Charges
<1>1. /\ UNCHANGED <<replay, waitRuns>>
      /\ attempts[h] \in Nat /\ refreshes[h] \in Nat
      /\ log \in [Calls -> LogStates] /\ LogShape(h) /\ Told(h) /\ ChainShape(h)
  BY DEF Charges, ChainInv, TypeOK, ToldInv, EvidenceTypes
<1>2. ASSUME Admission(h),
             log' = [log EXCEPT ![h] = IF attempts'[h] > attempts[h] THEN "charge" ELSE @]
      PROVE  LogShape(h)' /\ Told(h)' /\ log' \in [Calls -> LogStates]
             /\ \A g \in Calls \ {h} : SameChain(g)
  <2>1. owner[h] = "preflight" /\ log[h] = "none"
    BY <1>1, <1>2, AdmissionCases DEF LogShape, ChainShape, LogStates
  <2>2. CASE OwnerEnds(h, "REJECTED") /\ UNCHANGED requests
    <3>1. log' = log
      BY <1>1, <1>2, <2>2 DEF OwnerEnds
    <3> QED
      BY <1>1, <2>1, <2>2, <3>1
         DEF OwnerEnds, ChainInv, TypeOK, ChainShape, SameChain, demandVars, endVars, LogShape,
             Told, ToldChain, ToldOwner, ToldFailure, Unwritten, Deciding
  <2>3. CASE Admitted(h)
    <3>1. attempts'[h] = attempts[h] + 1 /\ owner'[h] = "inflight"
      BY <2>3 DEF Admitted, ChainInv, TypeOK
    <3>2. log' = [log EXCEPT ![h] = "charge"]
      <4>1. attempts'[h] > attempts[h]
        BY <1>1, <3>1
      <4> QED
        BY <4>1, <1>2, Zenon
    <3>3. log'[h] = "charge" /\ log' \in [Calls -> LogStates]
      BY <1>1, <3>2 DEF LogStates
    <3>4. /\ UNCHANGED <<state, reason, result, consumers, priority, refreshes, at, verdict>>
          /\ \A g \in Calls \ {h} : SameChain(g)
      BY <1>1, <2>3, <3>2
         DEF Admitted, ChainInv, TypeOK, SameChain, demandVars, endVars, driverVars
    <3>5. at[h] \in {"storing", "closing", "awaiting"} /\ state[h] # "UNBORN"
      BY <1>1, <2>1 DEF ChainShape
    <3>6. LogShape(h)'
      BY <1>1, <3>1, <3>3, <3>4, <3>5 DEF LogShape
    <3>7. Told(h)'
      BY <1>1, <2>1, <3>1, <3>3, <3>4, <3>5
         DEF Told, ToldChain, ToldOwner, ToldFailure, Unwritten, Deciding
    <3> QED
      BY <3>3, <3>4, <3>6, <3>7
  <2> QED
    BY <1>2, <2>2, <2>3, AdmissionCases
<1>3. ASSUME RefreshWaits(h),
             log' = [log EXCEPT ![h] = IF refreshes'[h] > refreshes[h] THEN "refresh" ELSE @]
      PROVE  LogShape(h)' /\ Told(h)' /\ log' \in [Calls -> LogStates]
             /\ \A g \in Calls \ {h} : SameChain(g)
  <2>1. /\ at[h] = "refresh" /\ owner[h] = "none" /\ log[h] = "none"
        /\ state[h] \notin {"UNBORN", "TERMINAL"} /\ ~result[h]
    BY <1>1, <1>3 DEF RefreshWaits, LogShape, ChainShape, LogStates
  <2>2. /\ at'[h] = "refreshing" /\ state'[h] = "REFRESHING_BINDING"
        /\ UNCHANGED <<reason, result, consumers, priority, attempts, verdict, owner>>
        /\ \A g \in Calls \ {h} : at'[g] = at[g] /\ state'[g] = state[g]
    BY <1>3 DEF RefreshWaits, Drives, ChainInv, TypeOK, demandVars, endVars, ownerVars
  <2>3. \/ refreshes' = refreshes
        \/ refreshes' = [refreshes EXCEPT ![h] = @ + 1]
    BY <1>3 DEF RefreshWaits
  <2>4. CASE refreshes' = refreshes
    <3>1. log' = log
      BY <1>1, <1>3, <2>4
    <3>2. LogShape(h)' /\ \A g \in Calls \ {h} : SameChain(g)
      BY <1>1, <2>1, <2>2, <2>4, <3>1 DEF LogShape, SameChain
    <3>3. Told(h)'
      BY <1>1, <2>1, <2>2, <2>4, <3>1
         DEF Told, ToldChain, ToldOwner, ToldFailure, Unwritten, Deciding
    <3> QED
      BY <1>1, <3>1, <3>2, <3>3
  <2>5. CASE refreshes' = [refreshes EXCEPT ![h] = @ + 1]
    <3>1. /\ refreshes'[h] = refreshes[h] + 1
          /\ \A g \in Calls \ {h} : refreshes'[g] = refreshes[g]
      BY <2>5 DEF ChainInv, TypeOK
    <3>2. log' = [log EXCEPT ![h] = "refresh"]
      <4>1. refreshes'[h] > refreshes[h]
        BY <1>1, <3>1
      <4> QED
        BY <4>1, <1>3, Zenon
    <3>3. log'[h] = "refresh" /\ log' \in [Calls -> LogStates]
      BY <1>1, <3>2 DEF LogStates
    <3>4. LogShape(h)' /\ \A g \in Calls \ {h} : SameChain(g)
      BY <1>1, <2>1, <2>2, <3>1, <3>2, <3>3 DEF LogShape, SameChain
    <3>5. Told(h)'
      BY <1>1, <2>1, <2>2, <3>1, <3>3
         DEF Told, ToldChain, ToldOwner, ToldFailure, Unwritten, Deciding
    <3> QED
      BY <3>3, <3>4, <3>5
  <2> QED
    BY <2>3, <2>4, <2>5
<1> QED
  BY <1>2, <1>3 DEF Charges

-------------------------------------------------------------------------------
(* What a step writes *)

\* A record that is up to date with a live chain's ledger and priority.
Current(h, k) ==
    /\ k \in ChainRecord
    /\ k.limits = Spent(AttemptLimit, RefreshLimit)
    /\ k.spent = Budget(h)
    /\ k.priority = priority[h]
    /\ k.terminal = "none"

\* The record of a live chain, up to date when no charge is left to be written.
LEMMA LiveTold ==
  ASSUME ChainInv, ToldInv, NEW h \in Calls, Live(h), log[h] \notin {"charge", "refresh"},
         ~Rejected(replay[h])
  PROVE  /\ Current(h, replay[h])
         /\ ToldOwner(h, replay[h]) /\ ToldFailure(h, replay[h])
         /\ replay[h].consumers = consumers[h]
         /\ replay[h].row.ends = "none"
         /\ replay[h].charges = attempts[h]
<1>1. /\ replay[h] \in ChainRecord
      /\ ToldChain(h, replay[h]) /\ ToldOwner(h, replay[h]) /\ ToldFailure(h, replay[h])
  BY DEF ToldInv, Told, Live
<1>2. Unwritten(h, "charge") = 0 /\ Unwritten(h, "refresh") = 0
  BY DEF Unwritten
<1>3. /\ attempts[h] \in Nat /\ refreshes[h] \in Nat
      /\ reason[h] = "none"
  BY DEF ChainInv, TypeOK, ChainShape, Live
<1> QED
  BY <1>1, <1>2, <1>3 DEF Current, ToldChain, Budget, Live

\* What such a chain writes follows what it has written.
LEMMA CurrentFollows ==
  ASSUME TypeOK, NEW h \in Calls, NEW k, Current(h, k), NEW kind, NEW detail
  PROVE  Follows(k, Emits(h, kind, detail))
<1>1. /\ attempts[h] \in 0 .. AttemptLimit /\ refreshes[h] \in 0 .. RefreshLimit
      /\ AttemptLimit \in Nat /\ RefreshLimit \in Nat
  BY LimitAssumption DEF TypeOK
<1> QED
  BY <1>1 DEF Current, Follows, Fits, Emits, Event, Budget, Spent, Spendings

\* Whatever is written after a rejection is not looked at.
LEMMA RejectedReplays ==
  ASSUME NEW k, Rejected(k)
  PROVE  /\ \A e : ReplayAll(k, <<e>>) = k
         /\ \A e, d : ReplayAll(k, <<e, d>>) = k
         /\ \A e, d, c : ReplayAll(k, <<e, d, c>>) = k
<1>1. \A e : Replay(k, e) = k
  BY RejectedStays DEF Rejected
<1> QED
  BY <1>1, ReplayOne, ReplayTwo, ReplayThree

\* A step of one chain that writes.
LEMMA WritingStep ==
  ASSUME ToldInv, NEW h \in Calls, NEW x, replay' = [replay EXCEPT ![h] = x],
         log' \in [Calls -> LogStates], waitRuns' \in [Calls -> BOOLEAN],
         \A g \in Calls \ {h} :
            replay'[g] = replay[g] => SameChain(g),
         LogShape(h)', Told(h)'
  PROVE  ToldInv'
<1>1. DOMAIN replay' = Calls /\ \A g \in Calls \ {h} : replay'[g] = replay[g]
  BY DEF ToldInv, EvidenceTypes
<1> QED
  BY <1>1, SameChainTold DEF ToldInv, EvidenceTypes

\* Nothing is left to be said of the chain but its end.
Settled(h, k) ==
    /\ Current(h, k)
    /\ k.charges = attempts[h]
    /\ ~k.open /\ ~k.pending /\ ~k.failed /\ ~k.refreshCharged

\* A chain ends, and the oracle knows it has ended for the chain's reason.
LEMMA EndIsTold ==
  ASSUME ChainInv, ToldInv, NEW h \in Calls, NEW r \in Reasons, Terminate(h, r),
         owner[h] = "none", at[h] # "done",
         NEW x, replay' = [replay EXCEPT ![h] = x],
         Rejected(x) \/ \E k : Settled(h, k) /\ x = AfterEnd(k, r),
         log' = [log EXCEPT ![h] = "none"], UNCHANGED waitRuns
  PROVE  ToldInv'
<1>1. /\ state'[h] = "TERMINAL" /\ reason'[h] = r /\ at'[h] = "completing"
      /\ UNCHANGED <<owner, attempts, refreshes, priority, result>>
      /\ \A g \in Calls \ {h} : replay'[g] = replay[g] => SameChain(g)
      /\ log' \in [Calls -> LogStates] /\ log'[h] = "none" /\ waitRuns' \in [Calls -> BOOLEAN]
  BY DEF ToldInv, EvidenceTypes, LogStates, ChainInv, TypeOK, Terminate, Drives, SameChain,
         ledgerVars, ownerVars
<1>2. ~result[h] /\ attempts[h] \in Nat /\ refreshes[h] \in Nat /\ r # "none"
  <2>1. LogShape(h)
    BY DEF ToldInv
  <2>2. attempts[h] \in Nat /\ refreshes[h] \in Nat /\ r # "none"
    <3>1. attempts[h] \in Nat /\ refreshes[h] \in Nat
      BY LimitAssumption DEF ChainInv, TypeOK
    <3>2. r # "none"
      BY DEF Reasons
    <3> QED
      BY <3>1, <3>2
  <2> QED
    BY <2>1, <2>2 DEF LogShape
<1>3. LogShape(h)'
  BY <1>1, <1>2 DEF LogShape
<1>4. replay'[h] = x
  BY DEF ToldInv, EvidenceTypes
<1>5. CASE Rejected(x)
  <2>1. Told(h)'
    BY <1>1, <1>4, <1>5 DEF Told
  <2> QED
    BY <1>1, <1>3, <2>1, WritingStep
<1>6. ASSUME NEW k, Settled(h, k), x = AfterEnd(k, r)
      PROVE  ToldInv'
  <2>1. /\ x \in ChainRecord /\ x.terminal = r /\ ~x.backoff
        /\ x.limits = k.limits /\ x.spent = k.spent /\ x.charges = k.charges
        /\ x.priority = k.priority
        /\ ~x.open /\ ~x.pending /\ ~x.refreshCharged /\ ~x.failed
    BY <1>6 DEF Settled, Current, ChainRecord, AfterEnd
  <2>2. ToldChain(h, x)'
    <3>1. Unwritten(h, "charge")' = 0 /\ Unwritten(h, "refresh")' = 0
      BY <1>1 DEF Unwritten
    <3>2. /\ x.limits = Spent(AttemptLimit, RefreshLimit)
          /\ x.spent = Spent(attempts[h], refreshes[h])
          /\ x.charges = attempts[h] /\ x.priority = priority[h]
      BY <1>6, <2>1 DEF Settled, Current, Budget
    <3>3. attempts'[h] - 0 = attempts[h] /\ refreshes'[h] - 0 = refreshes[h]
      <4>1. attempts' = attempts /\ refreshes' = refreshes
        BY <1>1
      <4> QED
        BY ONLY <1>2, <4>1
    <3>4. state'[h] = "TERMINAL" /\ reason'[h] = r /\ priority'[h] = priority[h]
      BY <1>1
    <3> QED
      BY ONLY <2>1, <3>1, <3>2, <3>3, <3>4 DEF ToldChain
  <2>3. ToldOwner(h, x)' /\ ToldFailure(h, x)'
    BY <1>1, <2>1 DEF ToldOwner, ToldFailure, Deciding
  <2>4. Told(h)'
    BY <1>1, <1>4, <2>1, <2>2, <2>3 DEF Told
  <2> QED
    BY <1>1, <1>3, <2>4, WritingStep
<1> QED
  BY <1>5, <1>6

\* A chain whose last row is not its end, and which ends without another.
LEMMA EndsUnnamed ==
  ASSUME TypeOK, NEW h \in Calls, NEW k, Settled(h, k), NEW r \in Reasons,
         k.row.ends = "none", r = "BUDGET_EXHAUSTED" => Remaining(h) = 0
  PROVE  ReplayAll(k, <<Emits(h, "CHAIN_TERMINATED", End(r, FALSE))>>)
            = AfterEnd(k, r)
<1>1. PICK end : end = End(r, FALSE)
  OBVIOUS
<1>2. end.reason = r /\ end.named = FALSE
  BY <1>1 DEF End
<1>3. Follows(k, Emits(h, "CHAIN_TERMINATED", end))
  BY CurrentFollows DEF Settled
<1>4. EndFits(k, end)
  BY <1>2 DEF EndFits, Settled, Current, Spent, Budget, Remaining
<1>5. Replay(k, Emits(h, "CHAIN_TERMINATED", end)) = AfterEnd(k, r)
  BY <1>2, <1>3, <1>4, EndIsRead DEF Emits
<1> QED
  BY <1>1, <1>5, ReplayOne

\* The end of a chain that its last row has decided.
EndByRow(r) == End(r, TRUE)

\* A chain that ends by a row, of the failure of its owner or of none.
LEMMA EndsNamed ==
  ASSUME TypeOK, NEW h \in Calls, NEW k, Current(h, k), k.charges = attempts[h],
         ~k.open, ~k.pending,
         NEW row, RowFits(k, row), ~k.failed \/ row.owned,
         NEW r \in Reasons, row.ends = r,
         r = "BUDGET_EXHAUSTED" => Remaining(h) = 0 \/ row.result = "NOT_ADMITTED",
         NEW failure, failure = Emits(h, "FAILURE", row),
         NEW ended, ended = Emits(h, "CHAIN_TERMINATED", EndByRow(r))
  PROVE  \E k2 : Settled(h, k2) /\ ReplayAll(k, <<failure, ended>>) = AfterEnd(k2, r)
<1>1. k \in ChainRecord /\ Follows(k, Emits(h, "FAILURE", row))
  BY CurrentFollows DEF Current
<1>2. PICK k2 : k2 = AfterRow(k, row)
  OBVIOUS
<1>3. Replay(k, Emits(h, "FAILURE", row)) = k2
  BY <1>1, <1>2, RowIsRead DEF Emits
<1>4. /\ k2 \in ChainRecord
      /\ k2.limits = k.limits /\ k2.spent = k.spent /\ k2.charges = k.charges
      /\ k2.priority = k.priority /\ k2.terminal = k.terminal
      /\ ~k2.open /\ ~k2.pending /\ ~k2.refreshCharged /\ ~k2.failed
      /\ k2.row = Kept(row)
  BY <1>1, <1>2 DEF ChainRecord, RowFits, Kept, AfterRow
<1>5. Settled(h, k2)
  BY <1>4 DEF Settled, Current
<1>6. PICK end : end = EndByRow(r)
  OBVIOUS
<1>7. end.reason = r /\ end.named = TRUE
  BY <1>6 DEF End, EndByRow
<1>8. Follows(k2, Emits(h, "CHAIN_TERMINATED", end))
  BY <1>5, CurrentFollows DEF Settled
<1>9. EndFits(k2, end)
  BY <1>4, <1>5, <1>7 DEF EndFits, Settled, Current, Spent, Budget, Remaining, Kept
<1>10. Replay(k2, Emits(h, "CHAIN_TERMINATED", end))
        = AfterEnd(k2, r)
  BY <1>7, <1>8, <1>9, EndIsRead DEF Emits
<1>11. ReplayAll(k, <<Emits(h, "FAILURE", row), Emits(h, "CHAIN_TERMINATED", end)>>)
        = Replay(k2, Emits(h, "CHAIN_TERMINATED", end))
  BY <1>3, ReplayTwo
<1> QED
  BY <1>5, <1>6, <1>10, <1>11

-------------------------------------------------------------------------------
(* The driver's steps *)

\* The log of a chain without an owner, but while it refreshes, is empty.
LEMMA NothingLogged ==
  ASSUME ToldInv, NEW h \in Calls, owner[h] = "none", at[h] \notin {"refreshing", "applying"}
  PROVE  log[h] = "none" /\ log = [log EXCEPT ![h] = "none"]
BY DEF ToldInv, EvidenceTypes, LogShape, LogStates

\* Where the driver stands, its chain is live.
LEMMA DriverIsLive ==
  ASSUME ChainInv, NEW h \in Calls, at[h] \notin {"none", "completing", "done"}
  PROVE  /\ Live(h) /\ (at[h] \notin {"storing", "closing", "awaiting"} => owner[h] = "none")
BY DEF ChainInv, ChainShape, Live, TypeOK, Owners

\* A chain that may not start an attempt ends without a row.
LEMMA EndsWithoutRowStep ==
  ASSUME ChainInv, ToldInv, NEW h \in Calls, EndsWithoutRow(h)
  PROVE  ToldInv'
<1>1. /\ at[h] \in {"head", "permitted"}
      /\ EndsAtHead(h) \/ EndsPermitted(h)
  BY DEF EndsWithoutRow, EndsAtHead, EndsPermitted
<1>2. PICK r \in Reasons : Terminate(h, r) /\ (r = "BUDGET_EXHAUSTED" => Remaining(h) = 0)
  BY <1>1 DEF EndsAtHead, EndsPermitted, NoAttemptReason, Reasons
<1>3. Live(h) /\ owner[h] = "none"
  BY <1>1, DriverIsLive
<1>4. log[h] = "none" /\ log = [log EXCEPT ![h] = "none"]
  BY <1>1, <1>3, NothingLogged
<1>5. PICK k : k = replay[h]
  OBVIOUS
<1>6. PICK x : x = ReplayAll(k, <<Emits(h, "CHAIN_TERMINATED", End(r, FALSE))>>)
  OBVIOUS
<1>7. replay' = [replay EXCEPT ![h] = x] /\ log' = log /\ UNCHANGED waitRuns
  <2>1. reason'[h] = r
    BY <1>2 DEF Terminate, ChainInv, TypeOK
  <2> QED
    BY <1>5, <1>6, <2>1 DEF EndsWithoutRow, Also, Writes, Terminated
<1>8. Rejected(x) \/ \E k2 : Settled(h, k2) /\ x = AfterEnd(k2, r)
  <2>1. CASE Rejected(k)
    BY <1>6, <2>1, RejectedReplays
  <2>2. CASE ~Rejected(k)
    <3>1. /\ Current(h, k) /\ ToldOwner(h, k) /\ ToldFailure(h, k)
          /\ k.row.ends = "none" /\ k.charges = attempts[h]
      BY <1>3, <1>4, <1>5, <2>2, LiveTold
    <3>2. Settled(h, k)
      BY <1>1, <1>4, <3>1 DEF Settled, ToldOwner, ToldFailure, Deciding
    <3> QED
      BY <1>2, <1>6, <3>1, <3>2, EndsUnnamed DEF ChainInv
  <2> QED
    BY <2>1, <2>2
<1> QED
  BY <1>1, <1>2, <1>3, <1>4, <1>7, <1>8, EndIsTold

\* It ends the chain for the reason it derives.
LEMMA InternalFailureEnds ==
  ASSUME NEW h, closing \in BOOLEAN
  PROVE  /\ InternalAction(h) \in {"TERMINATE_SESSION", "TERMINATE_FAILURE"}
         /\ AppliedTerminal(InternalAction(h))
                = IF closing THEN "SESSION_TERMINATION" ELSE "TERMINAL_FAILURE"
<1>1. CASE closing
  BY <1>1 DEF InternalAction, Decide, ShutDown, Observation, ActionFor, AppliedTerminal
<1>2. CASE ~closing
  BY <1>2 DEF InternalAction, Decide, ShutDown, Observation, ActionFor, AppliedTerminal
<1> QED
  BY <1>1, <1>2

\* The row of an internal failure, of no owner.
LEMMA InternalRowFits ==
  ASSUME TypeOK, NEW h \in Calls, NEW k, Current(h, k), ~k.refreshCharged,
         NEW row, row = Row(InternalAction(h), FALSE, Left(h), AppliedTerminal(InternalAction(h)))
  PROVE  RowFits(k, row) /\ ~row.owned
         /\ row.ends = IF closing THEN "SESSION_TERMINATION" ELSE "TERMINAL_FAILURE"
<1>1. /\ InternalAction(h) \in {"TERMINATE_SESSION", "TERMINATE_FAILURE"}
      /\ AppliedTerminal(InternalAction(h))
                = IF closing THEN "SESSION_TERMINATION" ELSE "TERMINAL_FAILURE"
  BY InternalFailureEnds DEF TypeOK
<1>2. /\ row.action = InternalAction(h) /\ row.owned = FALSE /\ row.charged = FALSE
      /\ row.ends = AppliedTerminal(InternalAction(h)) /\ row.result = "none"
  BY DEF Row
<1> QED
  BY <1>1, <1>2 DEF RowFits, RowActions, Reasons, RefreshResults

\* A chain ends because its gate threw, with or without having waited for it.
LEMMA InternalFailureStep ==
  ASSUME ChainInv, ToldInv, NEW h \in Calls, WritesInternalFailure(h)
  PROVE  ToldInv'
<1>1. at[h] \in {"gate", "gating"} /\ GateFails(h)
  BY DEF WritesInternalFailure, GateFails
<1>2. PICK r \in Reasons : Terminate(h, r)
            /\ r = IF closing THEN "SESSION_TERMINATION" ELSE "TERMINAL_FAILURE"
  BY <1>1 DEF GateFails, Reasons
<1>3. Live(h) /\ owner[h] = "none"
  BY <1>1, DriverIsLive
<1>4. log[h] = "none" /\ log = [log EXCEPT ![h] = "none"]
  BY <1>1, <1>3, NothingLogged
<1>5. PICK k : k = replay[h]
  OBVIOUS
<1>6. PICK row : row = Row(InternalAction(h), FALSE, Left(h), AppliedTerminal(InternalAction(h)))
  OBVIOUS
<1>wait. PICK wait : wait = Emits(h, "ATTEMPT_PERMIT_WAIT", None)
  OBVIOUS
<1>row. PICK failure : failure = Emits(h, "FAILURE", row)
  OBVIOUS
<1>end. PICK ended : ended = Emits(h, "CHAIN_TERMINATED", EndByRow(r))
  OBVIOUS
<1>7. PICK x : x = IF at[h] = "gate" THEN ReplayAll(k, <<wait, failure, ended>>)
                                     ELSE ReplayAll(k, <<failure, ended>>)
  OBVIOUS
<1>8. replay' = [replay EXCEPT ![h] = x] /\ log' = log /\ UNCHANGED waitRuns
  <2>1. reason'[h] = r
    BY <1>2 DEF Terminate, ChainInv, TypeOK
  <2>2. /\ replay' = [replay EXCEPT ![h] =
                ReplayAll(@, IF at[h] = "gate" THEN <<wait, failure, ended>> ELSE <<failure, ended>>)]
        /\ log' = log /\ UNCHANGED waitRuns
    BY <1>6, <1>wait, <1>row, <1>end, <2>1
       DEF WritesInternalFailure, Also, Writes, Terminated, Failed, EndsByRow, EndByRow
  <2> QED
    BY <1>5, <1>7, <2>2
<1>9. Rejected(x) \/ \E k2 : Settled(h, k2) /\ x = AfterEnd(k2, r)
  <2>1. CASE Rejected(k)
    BY <1>7, <2>1, RejectedReplays
  <2>2. CASE ~Rejected(k)
    <3>1. /\ Current(h, k) /\ ToldOwner(h, k) /\ ToldFailure(h, k)
          /\ k.charges = attempts[h]
      BY <1>3, <1>4, <1>5, <2>2, LiveTold
    <3>2. ~k.open /\ ~k.pending /\ ~k.failed /\ ~k.refreshCharged
      BY <1>1, <1>4, <3>1 DEF ToldOwner, ToldFailure, Deciding
    <3>3. RowFits(k, row) /\ row.ends = r
      BY <1>2, <1>6, <3>1, <3>2, InternalRowFits DEF ChainInv
    <3>4. r # "BUDGET_EXHAUSTED"
      BY <1>2
    <3>5. \E k2 : Settled(h, k2) /\ ReplayAll(k, <<failure, ended>>) = AfterEnd(k2, r)
      <4>1. TypeOK
        BY DEF ChainInv
      <4> QED
        BY <1>row, <1>end, <3>1, <3>2, <3>3, <3>4, <4>1, EndsNamed
    <3>6. CASE at[h] = "gating"
      BY <1>7, <3>5, <3>6
    <3>7. CASE at[h] = "gate"
      <4>1. Rejected(Replay(k, wait)) \/ Replay(k, wait) = k
        <5>1. Follows(k, wait)
          BY <1>wait, <3>1, CurrentFollows DEF ChainInv
        <5> QED
          BY <1>wait, <3>2, <5>1, PermitWaitIsRead DEF Emits
      <4>2. x = Replay(Replay(Replay(k, wait), failure), ended)
        BY <1>7, <3>7, ReplayThree
      <4>3. CASE Rejected(Replay(k, wait))
        BY <4>2, <4>3, RejectedStays DEF Rejected
      <4>4. CASE Replay(k, wait) = k
        BY <3>5, <4>2, <4>4, ReplayTwo
      <4> QED
        BY <4>1, <4>3, <4>4
    <3> QED
      BY <1>1, <3>6, <3>7
  <2> QED
    BY <2>1, <2>2
<1> QED
  BY <1>1, <1>2, <1>3, <1>4, <1>8, <1>9, EndIsTold

\* The row of the owner that has just failed, in the context of the chain's ledger.
OwnedRow(h, action, ends) == Row(action, TRUE, Left(h), ends)

\* Such a row fits a record that has seen the owner fail.
LEMMA OwnedRowFits ==
  ASSUME NEW h \in Calls, NEW k, Current(h, k), k.failed, ~k.refreshCharged,
         k.atFinish = Spent(attempts[h], refreshes[h]),
         NEW action \in RowActions, NEW ends \in Reasons \union {"none"},
         NEW row, row = OwnedRow(h, action, ends)
  PROVE  /\ RowFits(k, row) /\ row.owned
         /\ row.ends = ends /\ row.action = action
<1>1. /\ row.action = action /\ row.owned = TRUE /\ row.charged = FALSE
      /\ row.ends = ends /\ row.result = "none" /\ row.left = Left(h)
  BY DEF OwnedRow, Row
<1>2. row.left = Spent(k.limits.attempts - k.atFinish.attempts,
                       k.limits.refreshes - k.atFinish.refreshes)
  BY <1>1 DEF Left, Remaining, Current, Spent
<1> QED
  BY <1>1, <1>2 DEF RowFits

\* What LiveTold says of a chain that decides about a failure, or has left to the store
\* what has become of it.
LEMMA DecidingTold ==
  ASSUME ChainInv, ToldInv, NEW h \in Calls, at[h] \in {"deciding", "reconciling"},
         ~Rejected(replay[h])
  PROVE  /\ Current(h, replay[h])
         /\ replay[h].charges = attempts[h] /\ replay[h].consumers = consumers[h]
         /\ replay[h].row.ends = "none"
         /\ ~replay[h].open /\ ~replay[h].pending /\ ~replay[h].refreshCharged
         /\ ~replay[h].backoff
         /\ replay[h].failed <=> at[h] = "reconciling" \/ verdict[h] # "SUCCESS"
         /\ replay[h].atFinish = Spent(attempts[h], refreshes[h])
<1>1. Live(h) /\ owner[h] = "none"
  BY DriverIsLive
<1>2. log[h] = "none"
  BY <1>1, NothingLogged
<1>3. /\ Current(h, replay[h])
      /\ ToldOwner(h, replay[h]) /\ ToldFailure(h, replay[h])
      /\ replay[h].consumers = consumers[h]
      /\ replay[h].row.ends = "none"
      /\ replay[h].charges = attempts[h]
  BY <1>1, <1>2, LiveTold
<1>4. refreshes[h] \in Nat
  BY LimitAssumption DEF ChainInv, TypeOK
<1> QED
  BY <1>2, <1>3, <1>4 DEF ToldOwner, ToldFailure, Deciding

\* A chain ends by a row of its owner's failure.
LEMMA EndsByOwnedRow ==
  ASSUME ChainInv, ToldInv, NEW h \in Calls, at[h] \in {"deciding", "reconciling"},
         verdict[h] # "SUCCESS" \/ at[h] = "reconciling",
         NEW r \in Reasons, Terminate(h, r), r = "BUDGET_EXHAUSTED" => Remaining(h) = 0,
         NEW action \in RowActions,
         Also(h, EndsByRow(h, OwnedRow(h, action, r)))
  PROVE  ToldInv'
<1>1. PICK k : k = replay[h]
  OBVIOUS
<1>2. PICK row : row = OwnedRow(h, action, r)
  OBVIOUS
<1>3. PICK failure : failure = Emits(h, "FAILURE", row)
  OBVIOUS
<1>4. PICK ended : ended = Emits(h, "CHAIN_TERMINATED", EndByRow(r))
  OBVIOUS
<1>5. PICK x : x = ReplayAll(k, <<failure, ended>>)
  OBVIOUS
<1>6. replay' = [replay EXCEPT ![h] = x] /\ log' = log /\ UNCHANGED waitRuns
  <2>1. reason'[h] = r
    BY DEF Terminate, ChainInv, TypeOK
  <2> QED
    BY <1>1, <1>2, <1>3, <1>4, <1>5, <2>1
       DEF Also, Writes, Terminated, Failed, EndsByRow, EndByRow
<1>7. owner[h] = "none" /\ log = [log EXCEPT ![h] = "none"]
  BY DriverIsLive, NothingLogged
<1>8. Rejected(x) \/ \E k2 : Settled(h, k2) /\ x = AfterEnd(k2, r)
  <2>1. CASE Rejected(k)
    BY <1>5, <2>1, RejectedReplays
  <2>2. CASE ~Rejected(k)
    <3>1. /\ Current(h, k) /\ k.charges = attempts[h]
          /\ ~k.open /\ ~k.pending /\ ~k.refreshCharged /\ k.failed
          /\ k.atFinish = Spent(attempts[h], refreshes[h])
      BY <1>1, <2>2, DecidingTold
    <3>2. RowFits(k, row) /\ row.owned /\ row.ends = r
      BY <1>2, <3>1, OwnedRowFits
    <3>3. TypeOK
      BY DEF ChainInv
    <3> QED
      BY <1>3, <1>4, <1>5, <3>1, <3>2, <3>3, EndsNamed
  <2> QED
    BY <2>1, <2>2
<1> QED
  BY <1>6, <1>7, <1>8, EndIsTold

\* A row of a failure, or of its refresh, after which the chain goes on.
LEMMA RowGoesOn ==
  ASSUME TypeOK, NEW h \in Calls, NEW k, Current(h, k),
         k.charges = attempts[h], k.consumers = consumers[h],
         ~k.open, ~k.pending, ~k.backoff,
         NEW row, RowFits(k, row), row.owned, row.ends = "none",
         NEW k2, k2 = Replay(k, Emits(h, "FAILURE", row))
  PROVE  /\ Current(h, k2)
         /\ k2.charges = attempts[h] /\ k2.consumers = consumers[h]
         /\ k2.row.ends = "none" /\ k2.row.action = row.action
         /\ ~k2.open /\ ~k2.pending /\ ~k2.refreshCharged /\ ~k2.backoff /\ ~k2.failed
<1>1. Follows(k, Emits(h, "FAILURE", row))
  BY CurrentFollows
<1>2. k2 = AfterRow(k, row)
  BY <1>1, RowIsRead DEF Emits
<1>3. k \in ChainRecord
  BY DEF Current
<1>4. k2 \in ChainRecord /\ k2.row = Kept(row) /\ k2.failed = FALSE
  <2>1. PICK kept \in [action: RowActions, ends: Reasons \union {"none"},
                        result: RefreshResults \union {"none"}] : kept = Kept(row)
    BY DEF RowFits, Kept
  <2>2. k2 = [k EXCEPT !.row = kept, !.refreshCharged = FALSE, !.failed = FALSE]
    BY <1>2, <2>1 DEF AfterRow
  <2> QED
    BY <1>3, <2>1, <2>2 DEF ChainRecord
<1>5. /\ k2.limits = k.limits /\ k2.spent = k.spent /\ k2.charges = k.charges
      /\ k2.priority = k.priority /\ k2.terminal = k.terminal
      /\ k2.consumers = k.consumers
  BY <1>2, <1>3 DEF ChainRecord, AfterRow
<1>6. ~k2.open /\ ~k2.pending /\ ~k2.refreshCharged /\ ~k2.backoff
  BY <1>2, <1>3 DEF ChainRecord, AfterRow
<1> QED
  BY <1>4, <1>5, <1>6 DEF Current, Kept

\* A row of the owner's failure after which the chain goes on.
LEMMA GoesOnRead ==
  ASSUME ChainInv, ToldInv, NEW h \in Calls, at[h] = "deciding", verdict[h] # "SUCCESS",
         NEW action \in RowActions, NEW k, k = replay[h], ~Rejected(k),
         NEW k2, k2 = Replay(k, Emits(h, "FAILURE", OwnedRow(h, action, "none")))
  PROVE  /\ Current(h, k2)
         /\ k2.charges = attempts[h] /\ k2.consumers = consumers[h]
         /\ k2.row.ends = "none" /\ k2.row.action = action
         /\ ~k2.open /\ ~k2.pending /\ ~k2.refreshCharged /\ ~k2.backoff /\ ~k2.failed
<1>1. /\ Current(h, k) /\ k.charges = attempts[h] /\ k.consumers = consumers[h]
      /\ ~k.open /\ ~k.pending /\ ~k.refreshCharged /\ ~k.backoff /\ k.failed
      /\ k.atFinish = Spent(attempts[h], refreshes[h])
  BY DecidingTold
<1>2. PICK row : row = OwnedRow(h, action, "none")
  OBVIOUS
<1>3. RowFits(k, row) /\ row.owned /\ row.ends = "none" /\ row.action = action
  BY <1>1, <1>2, OwnedRowFits
<1>4. TypeOK
  BY DEF ChainInv
<1> QED
  BY <1>1, <1>2, <1>3, <1>4, RowGoesOn

\* A record of a live chain with nothing at work.
Lively(h, k) ==
    Settled(h, k) /\ k.consumers = consumers[h] /\ k.row.ends = "none"

\* A step by which the driver stands at one of the places where nothing is at work.
MovesOn(h, position) ==
    /\ at'[h] = position
    /\ state'[h] \notin {"UNBORN", "TERMINAL"}
    /\ UNCHANGED <<consumers, priority, attempts, refreshes, owner, reason, result>>
    /\ \A g \in Calls \ {h} :
        at'[g] = at[g] /\ state'[g] = state[g] /\ verdict'[g] = verdict[g]

\* A chain that goes on with nothing at work, as the oracle knows.
LEMMA MovesOnTold ==
  ASSUME ChainInv, ToldInv, NEW h \in Calls, Live(h), owner[h] = "none",
         NEW position \in {"head", "gating", "permitted", "sleeping"}, MovesOn(h, position),
         NEW x, replay' = [replay EXCEPT ![h] = x],
         \/ Rejected(x)
         \/ /\ Lively(h, x)
            /\ position = "permitted" => x.permit
            /\ position = "sleeping" /\ state'[h] = "WAITING_BACKOFF" => x.backoff
            /\ x.backoff => position \in {"sleeping", "head"},
         log' = [log EXCEPT ![h] = "none"], waitRuns' \in [Calls -> BOOLEAN]
  PROVE  ToldInv'
<1>1. /\ log' \in [Calls -> LogStates] /\ log'[h] = "none"
      /\ \A g \in Calls \ {h} : log'[g] = log[g]
      /\ replay'[h] = x
  BY DEF ToldInv, EvidenceTypes, LogStates
<1>2. \A g \in Calls \ {h} : replay'[g] = replay[g] => SameChain(g)
  BY <1>1 DEF MovesOn, SameChain
<1>3. ~result[h] /\ reason[h] = "none"
  <2>1. LogShape(h) /\ ChainShape(h)
    BY DEF ToldInv, ChainInv
  <2> QED
    BY <2>1 DEF LogShape, ChainShape, Live
<1>4. attempts[h] \in Nat /\ refreshes[h] \in Nat
  BY LimitAssumption DEF ChainInv, TypeOK
<1>5. LogShape(h)'
  BY <1>1, <1>3 DEF LogShape, MovesOn
<1>6. CASE Rejected(x)
  <2>1. Told(h)'
    BY <1>1, <1>6 DEF Told, MovesOn
  <2> QED
    BY <1>1, <1>2, <1>5, <2>1, WritingStep
<1>7. CASE /\ Lively(h, x)
           /\ position = "permitted" => x.permit
           /\ position = "sleeping" /\ state'[h] = "WAITING_BACKOFF" => x.backoff
           /\ x.backoff => position \in {"sleeping", "head"}
  <2>1. /\ x \in ChainRecord
        /\ x.limits = Spent(AttemptLimit, RefreshLimit)
        /\ x.spent = Spent(attempts[h], refreshes[h])
        /\ x.charges = attempts[h] /\ x.priority = priority[h] /\ x.terminal = "none"
        /\ x.consumers = consumers[h] /\ x.row.ends = "none"
        /\ ~x.open /\ ~x.pending /\ ~x.failed /\ ~x.refreshCharged
    BY <1>7 DEF Lively, Settled, Current, Budget
  <2>2. ToldChain(h, x)'
    <3>1. Unwritten(h, "charge")' = 0 /\ Unwritten(h, "refresh")' = 0
      BY <1>1 DEF Unwritten
    <3>2. attempts'[h] - 0 = attempts[h] /\ refreshes'[h] - 0 = refreshes[h]
      <4>1. attempts' = attempts /\ refreshes' = refreshes
        BY DEF MovesOn
      <4> QED
        BY ONLY <1>4, <4>1
    <3>3. reason'[h] = "none" /\ priority'[h] = priority[h] /\ consumers'[h] = consumers[h]
      BY <1>3 DEF MovesOn
    <3> QED
      BY ONLY <2>1, <3>1, <3>2, <3>3 DEF ToldChain
  <2>3. ToldOwner(h, x)' /\ ToldFailure(h, x)'
    BY <1>1, <1>7, <2>1 DEF ToldOwner, ToldFailure, Deciding, MovesOn
  <2>4. Told(h)'
    BY <1>1, <2>1, <2>2, <2>3 DEF Told, MovesOn
  <2> QED
    BY <1>1, <1>2, <1>5, <2>4, WritingStep
<1> QED
  BY <1>6, <1>7

\* The decision about an attempt's outcome, and what reconciliation answers.
LEMMA DecisionStep ==
  ASSUME ChainInv, ToldInv, NEW h \in Calls, WritesDecision(h)
  PROVE  ToldInv'
<1>1. PICK k : k = replay[h]
  OBVIOUS
<1>2. at[h] \in {"deciding", "reconciling"} /\ Live(h) /\ owner[h] = "none"
  <2>1. at[h] \in {"deciding", "reconciling"}
    BY DEF WritesDecision, DecidesToEnd, SchedulesBackoff, StartsNextOwner, WaitsForProvider,
           GoesOn, Reconciled
  <2> QED
    BY <2>1, DriverIsLive
<1>3. log[h] = "none" /\ log = [log EXCEPT ![h] = "none"] /\ waitRuns \in [Calls -> BOOLEAN]
  BY <1>2, NothingLogged DEF ToldInv, EvidenceTypes
<1>4. /\ state \in [Calls -> States] /\ at \in [Calls -> Positions]
      /\ verdict \in [Calls -> Verdicts \union RefreshResults \union {"none"}]
      /\ TypeOK
  BY DEF ChainInv, TypeOK
<1>5. ASSUME DecidesToEnd(h),
             Also(h, IF verdict[h] = "SUCCESS" THEN <<Terminated(h, FALSE)>>
                     ELSE EndsByRow(h, Row("TERMINATE", TRUE, Left(h), EndingReason(h))))
      PROVE  ToldInv'
  <2>1. PICK r \in Reasons : r = EndingReason(h) /\ Terminate(h, r)
    BY <1>5 DEF DecidesToEnd, EndingReason, Reasons
  <2>2. at[h] = "deciding" /\ (r = "BUDGET_EXHAUSTED" => Remaining(h) = 0)
    BY <1>5, <2>1 DEF DecidesToEnd, EndingReason
  <2>3. CASE verdict[h] = "SUCCESS"
    <3>1. PICK x : x = ReplayAll(k, <<Emits(h, "CHAIN_TERMINATED", End(r, FALSE))>>)
      OBVIOUS
    <3>2. replay' = [replay EXCEPT ![h] = x] /\ log' = log /\ UNCHANGED waitRuns
      <4>1. reason'[h] = r
        BY <2>1 DEF Terminate, ChainInv, TypeOK
      <4> QED
        BY <1>1, <1>5, <2>3, <3>1, <4>1 DEF Also, Writes, Terminated
    <3>3. Rejected(x) \/ \E k2 : Settled(h, k2) /\ x = AfterEnd(k2, r)
      <4>1. CASE Rejected(k)
        BY <3>1, <4>1, RejectedReplays
      <4>2. CASE ~Rejected(k)
        <5>1. Settled(h, k) /\ k.row.ends = "none"
          BY <1>1, <1>2, <2>2, <2>3, <4>2, DecidingTold DEF Settled
        <5> QED
          BY <1>4, <2>2, <3>1, <5>1, EndsUnnamed
      <4> QED
        BY <4>1, <4>2
    <3> QED
      BY <1>2, <1>3, <2>1, <3>2, <3>3, EndIsTold
  <2>4. CASE verdict[h] # "SUCCESS"
    <3>1. Also(h, EndsByRow(h, OwnedRow(h, "TERMINATE", r)))
      BY <1>5, <2>1, <2>4 DEF OwnedRow
    <3>2. "TERMINATE" \in RowActions
      BY DEF RowActions
    <3> QED
      BY <2>1, <2>2, <2>4, <3>1, <3>2, EndsByOwnedRow
  <2> QED
    BY <2>3, <2>4
<1>6. ASSUME SchedulesBackoff(h),
             Also(h, <<Failed(h, Row("SCHEDULE_BACKOFF", TRUE, Left(h), "none")),
                       Emits(h, "BACKOFF_SCHEDULED", None)>>)
      PROVE  ToldInv'
  <2>1. /\ at[h] = "deciding" /\ verdict[h] # "SUCCESS"
        /\ MovesOn(h, "sleeping") /\ state'[h] = "WAITING_BACKOFF"
    BY <1>4, <1>6 DEF SchedulesBackoff, GoesOn, Drives, MovesOn, demandVars, endVars,
                      ledgerVars, ownerVars, States
  <2>2. PICK failure : failure = Emits(h, "FAILURE", OwnedRow(h, "SCHEDULE_BACKOFF", "none"))
    OBVIOUS
  <2>3. PICK backoff : backoff = Emits(h, "BACKOFF_SCHEDULED", None)
    OBVIOUS
  <2>4. PICK x : x = ReplayAll(k, <<failure, backoff>>)
    OBVIOUS
  <2>5. replay' = [replay EXCEPT ![h] = x] /\ log' = log /\ UNCHANGED waitRuns
    BY <1>1, <1>6, <2>2, <2>3, <2>4 DEF Also, Writes, Failed, OwnedRow
  <2>6. Rejected(x) \/ (Lively(h, x) /\ x.backoff)
    <3>1. CASE Rejected(k)
      <4>1. x = k
        BY <2>4, <3>1, RejectedReplays
      <4>2. Rejected(x)
        BY ONLY <3>1, <4>1
      <4> QED
        BY ONLY <4>2
    <3>2. CASE ~Rejected(k)
      <4>1. PICK k2 : k2 = Replay(k, failure)
        OBVIOUS
      <4>2. "SCHEDULE_BACKOFF" \in RowActions
        BY DEF RowActions
      <4>3. /\ Current(h, k2)
            /\ k2.charges = attempts[h] /\ k2.consumers = consumers[h]
            /\ k2.row.ends = "none" /\ k2.row.action = "SCHEDULE_BACKOFF"
            /\ ~k2.open /\ ~k2.pending /\ ~k2.refreshCharged /\ ~k2.backoff /\ ~k2.failed
        BY <1>1, <2>1, <2>2, <3>2, <4>1, <4>2, GoesOnRead
      <4>4. Follows(k2, backoff)
        BY <1>4, <2>3, <4>3, CurrentFollows
      <4>5. Replay(k2, backoff) = AfterBackoff(k2)
        BY <2>3, <4>3, <4>4, BackoffIsRead DEF Emits
      <4>6. x = AfterBackoff(k2)
        BY <2>4, <4>1, <4>5, ReplayTwo
      <4>7. k2 \in ChainRecord
        BY <4>3 DEF Current
      <4>8. /\ x \in ChainRecord /\ x.backoff
            /\ x.limits = k2.limits /\ x.spent = k2.spent /\ x.charges = k2.charges
            /\ x.priority = k2.priority /\ x.terminal = k2.terminal
            /\ x.consumers = k2.consumers /\ x.row = k2.row
            /\ ~x.open /\ ~x.pending /\ ~x.refreshCharged /\ ~x.failed
        BY <4>3, <4>6, <4>7 DEF ChainRecord, AfterBackoff
      <4> QED
        BY <4>3, <4>8 DEF Lively, Settled, Current
    <3> QED
      BY <3>1, <3>2
  <2> QED
    BY <1>2, <1>3, <2>1, <2>5, <2>6, MovesOnTold
<1>7. ASSUME NEW action \in {"START_NEXT_OWNER", "WAIT_PROVIDER"},
             NEW position \in {"head", "sleeping"}, MovesOn(h, position),
             at[h] = "deciding", verdict[h] # "SUCCESS",
             position = "sleeping" => state'[h] # "WAITING_BACKOFF",
             Writes(h, <<Emits(h, "FAILURE", OwnedRow(h, action, "none"))>>),
             log' = log, waitRuns' \in [Calls -> BOOLEAN]
      PROVE  ToldInv'
  <2>1. PICK failure : failure = Emits(h, "FAILURE", OwnedRow(h, action, "none"))
    OBVIOUS
  <2>2. PICK x : x = Replay(k, failure)
    OBVIOUS
  <2>3. replay' = [replay EXCEPT ![h] = x]
    BY <1>1, <1>7, <2>1, <2>2, ReplayOne DEF Writes
  <2>4. Rejected(x) \/ (Lively(h, x) /\ ~x.backoff)
    <3>1. CASE Rejected(k)
      <4>1. x = k
        BY <2>2, <3>1, RejectedStays DEF Rejected
      <4>2. Rejected(x)
        BY ONLY <3>1, <4>1
      <4> QED
        BY ONLY <4>2
    <3>2. CASE ~Rejected(k)
      <4>1. action \in RowActions
        BY <1>7 DEF RowActions
      <4> QED
        BY <1>1, <1>7, <2>1, <2>2, <3>2, <4>1, GoesOnRead DEF Lively, Settled
    <3> QED
      BY <3>1, <3>2
  <2> QED
    BY <1>2, <1>3, <1>7, <2>3, <2>4, MovesOnTold
<1>8. ASSUME StartsNextOwner(h),
             Also(h, <<Failed(h, Row("START_NEXT_OWNER", TRUE, Left(h), "none"))>>)
      PROVE  ToldInv'
  <2>1. at[h] = "deciding" /\ verdict[h] # "SUCCESS" /\ MovesOn(h, "head")
    BY <1>2, <1>4, <1>8 DEF StartsNextOwner, GoesOn, Drives, MovesOn, demandVars, endVars,
                      ledgerVars, ownerVars, States, Live
  <2>2. /\ Writes(h, <<Emits(h, "FAILURE", OwnedRow(h, "START_NEXT_OWNER", "none"))>>)
        /\ log' = log /\ waitRuns' \in [Calls -> BOOLEAN]
    BY <1>3, <1>8 DEF Also, Failed, OwnedRow
  <2> QED
    BY <1>7, <2>1, <2>2
<1>9. ASSUME WaitsForProvider(h),
             Writes(h, <<Failed(h, Row("WAIT_PROVIDER", TRUE, Left(h), "none"))>>),
             waitRuns' = [waitRuns EXCEPT ![h] = TRUE], UNCHANGED log
      PROVE  ToldInv'
  <2>1. /\ at[h] = "deciding" /\ verdict[h] # "SUCCESS" /\ MovesOn(h, "sleeping")
        /\ state'[h] = "WAITING_PROVIDER"
    BY <1>4, <1>9 DEF WaitsForProvider, GoesOn, Drives, MovesOn, demandVars, endVars,
                      ledgerVars, ownerVars, States
  <2>2. /\ Writes(h, <<Emits(h, "FAILURE", OwnedRow(h, "WAIT_PROVIDER", "none"))>>)
        /\ log' = log /\ waitRuns' \in [Calls -> BOOLEAN]
    BY <1>3, <1>9 DEF Failed, OwnedRow
  <2> QED
    BY <1>7, <2>1, <2>2
<1>10. ASSUME Reconciled(h), Also(h, EndsByRow(h, Row("RECONCILE", TRUE, Left(h), reason'[h])))
       PROVE  ToldInv'
  <2>1. PICK r \in {"SUCCESS", "TERMINAL_FAILURE"} : Terminate(h, r)
    BY <1>10 DEF Reconciled
  <2>2. reason'[h] = r /\ r \in Reasons /\ at[h] = "reconciling"
    BY <1>10, <2>1 DEF Terminate, ChainInv, TypeOK, Reasons, Reconciled
  <2>3. Also(h, EndsByRow(h, OwnedRow(h, "RECONCILE", r)))
    BY <1>10, <2>2 DEF OwnedRow
  <2>4. "RECONCILE" \in RowActions
    BY DEF RowActions
  <2> QED
    BY <2>1, <2>2, <2>3, <2>4, EndsByOwnedRow
<1> QED
  BY <1>5, <1>6, <1>8, <1>9, <1>10 DEF WritesDecision

\* The wait for a permit, and its grant.
LEMMA PermitStep ==
  ASSUME ChainInv, ToldInv, NEW h \in Calls, WritesPermit(h)
  PROVE  ToldInv'
<1>1. at[h] \in {"gate", "gating"}
  BY DEF WritesPermit, GateOpen, GateShut, GateOpens
<1>2. Live(h) /\ owner[h] = "none"
  BY <1>1, DriverIsLive
<1>3. log[h] = "none" /\ log = [log EXCEPT ![h] = "none"] /\ waitRuns \in [Calls -> BOOLEAN]
  BY <1>1, <1>2, NothingLogged DEF ToldInv, EvidenceTypes
<1>4. /\ state \in [Calls -> States] /\ at \in [Calls -> Positions] /\ TypeOK
  BY DEF ChainInv, TypeOK
<1>5. PICK k : k = replay[h]
  OBVIOUS
<1>6. PICK wait : wait = Emits(h, "ATTEMPT_PERMIT_WAIT", None)
  OBVIOUS
<1>7. PICK granted : granted = Emits(h, "ATTEMPT_PERMIT_GRANTED", None)
  OBVIOUS
<1>8. ASSUME ~Rejected(k)
      PROVE  Lively(h, k) /\ (at[h] = "gating" => ~k.backoff)
  <2>1. /\ Current(h, k) /\ ToldOwner(h, k) /\ ToldFailure(h, k)
        /\ k.consumers = consumers[h] /\ k.row.ends = "none" /\ k.charges = attempts[h]
    BY <1>2, <1>3, <1>5, <1>8, LiveTold
  <2> QED
    BY <1>1, <1>3, <2>1 DEF Lively, Settled, ToldOwner, ToldFailure, Deciding
<1>9. ASSUME NEW y, Lively(h, y), ~y.backoff
      PROVE  /\ Lively(h, Replay(y, granted))
             /\ Replay(y, granted).permit /\ ~Replay(y, granted).backoff
  <2>1. Follows(y, granted)
    BY <1>4, <1>7, <1>9, CurrentFollows DEF Lively, Settled
  <2>2. PICK z : z = Replay(y, granted) /\ z = AfterGrant(y)
    BY <1>7, <2>1, PermitGrantIsRead DEF Emits
  <2>3. y \in ChainRecord
    BY <1>9 DEF Lively, Settled, Current
  <2>4. /\ z \in ChainRecord /\ z.permit /\ ~z.backoff
        /\ z.limits = y.limits /\ z.spent = y.spent /\ z.charges = y.charges
        /\ z.priority = y.priority /\ z.terminal = y.terminal
        /\ z.consumers = y.consumers /\ z.row = y.row
        /\ z.open = y.open /\ z.pending = y.pending /\ z.failed = y.failed
        /\ z.refreshCharged = y.refreshCharged
    BY <1>9, <2>2, <2>3 DEF ChainRecord, AfterGrant
  <2>5. Lively(h, z)
    BY <1>9, <2>4 DEF Lively, Settled, Current
  <2> QED
    BY <2>2, <2>4, <2>5
<1>10. ASSUME ~Rejected(k)
       PROVE  \/ Rejected(Replay(k, wait))
              \/ Lively(h, Replay(k, wait)) /\ ~Replay(k, wait).backoff
  <2>1. Lively(h, k)
    BY <1>8, <1>10
  <2>2. Follows(k, wait) /\ ~k.open
    BY <1>4, <1>6, <2>1, CurrentFollows DEF Lively, Settled
  <2>3. Rejected(Replay(k, wait)) \/ (~k.backoff /\ Replay(k, wait) = k)
    BY <1>6, <2>2, PermitWaitIsRead DEF Emits
  <2> QED
    BY <2>1, <2>3
<1>11. CASE GateOpen(h)
  <2>1. MovesOn(h, "permitted") /\ at[h] = "gate"
    BY <1>4, <1>11 DEF GateOpen, MovesOn, Drives, demandVars, endVars, ledgerVars, ownerVars
  <2>2. PICK x : x = ReplayAll(k, <<wait, granted>>)
    OBVIOUS
  <2>3. replay' = [replay EXCEPT ![h] = x] /\ log' = log /\ UNCHANGED waitRuns
    <3>1. Also(h, <<wait, granted>>)
      BY <1>4, <1>6, <1>7, <2>1 DEF WritesPermit, GateShut, GateOpens, MovesOn, Drives
    <3> QED
      BY <1>5, <2>2, <3>1 DEF Also, Writes
  <2>4. Rejected(x) \/ (Lively(h, x) /\ x.permit /\ ~x.backoff)
    <3>1. CASE Rejected(k)
      BY <2>2, <3>1, RejectedReplays
    <3>2. CASE ~Rejected(k)
      <4>1. x = Replay(Replay(k, wait), granted)
        BY <2>2, ReplayTwo
      <4>2. PICK y : y = Replay(k, wait)
        OBVIOUS
      <4>3. CASE Rejected(y)
        BY <4>1, <4>2, <4>3, RejectedStays DEF Rejected
      <4>4. CASE Lively(h, y) /\ ~y.backoff
        BY <1>9, <4>1, <4>2, <4>4
      <4> QED
        BY <1>10, <3>2, <4>2, <4>3, <4>4
    <3> QED
      BY <3>1, <3>2
  <2> QED
    BY <1>2, <1>3, <2>1, <2>3, <2>4, MovesOnTold
<1>12. CASE GateShut(h)
  <2>1. MovesOn(h, "gating") /\ at[h] = "gate"
    BY <1>4, <1>12 DEF GateShut, MovesOn, Drives, demandVars, endVars, ledgerVars, ownerVars
  <2>2. PICK x : x = Replay(k, wait)
    OBVIOUS
  <2>3. replay' = [replay EXCEPT ![h] = x] /\ log' = log /\ UNCHANGED waitRuns
    <3>1. Also(h, <<wait>>)
      BY <1>4, <1>6, <2>1 DEF WritesPermit, GateOpen, GateOpens, MovesOn, Drives
    <3> QED
      BY <1>5, <2>2, <3>1, ReplayOne DEF Also, Writes
  <2>4. Rejected(x) \/ (Lively(h, x) /\ ~x.backoff)
    <3>1. CASE Rejected(k)
      BY <2>2, <3>1, RejectedStays DEF Rejected
    <3>2. CASE ~Rejected(k)
      BY <1>10, <2>2, <3>2
    <3> QED
      BY <3>1, <3>2
  <2> QED
    BY <1>2, <1>3, <2>1, <2>3, <2>4, MovesOnTold
<1>13. CASE GateOpens(h)
  <2>1. MovesOn(h, "permitted") /\ at[h] = "gating"
    BY <1>2, <1>4, <1>13
       DEF GateOpens, MovesOn, Drives, Live, demandVars, endVars, ledgerVars, ownerVars
  <2>2. PICK x : x = Replay(k, granted)
    OBVIOUS
  <2>3. replay' = [replay EXCEPT ![h] = x] /\ log' = log /\ UNCHANGED waitRuns
    BY <1>5, <1>7, <1>13, <2>1, <2>2, ReplayOne
       DEF WritesPermit, Also, Writes, GateOpen, GateShut, MovesOn
  <2>4. Rejected(x) \/ (Lively(h, x) /\ x.permit /\ ~x.backoff)
    <3>1. CASE Rejected(k)
      BY <2>2, <3>1, RejectedStays DEF Rejected
    <3>2. CASE ~Rejected(k)
      BY <1>8, <1>9, <2>1, <2>2, <3>2
    <3> QED
      BY <3>1, <3>2
  <2> QED
    BY <1>2, <1>3, <2>1, <2>3, <2>4, MovesOnTold
<1> QED
  BY <1>11, <1>12, <1>13 DEF WritesPermit

\* The end of an attempt, of which all has been written.
LEMMA OwnerFinishedStep ==
  ASSUME ChainInv, ToldInv, NEW h \in Calls, WritesOwnerFinished(h)
  PROVE  ToldInv'
<1>1. at[h] = "awaiting" /\ owner[h] = "ended" /\ OwnerFinished(h)
  BY DEF WritesOwnerFinished, OwnerFinished
<1>2. Live(h) /\ log[h] \in {"none", "admitted"} /\ ~result[h] /\ reason[h] = "none"
  <2>1. LogShape(h) /\ log[h] \in LogStates /\ ChainShape(h)
    BY DEF ToldInv, EvidenceTypes, ChainInv
  <2>2. Live(h)
    BY <1>1, DriverIsLive
  <2> QED
    BY <1>1, <2>1, <2>2 DEF LogShape, LogStates, ChainShape, Live
<1>3. PICK k : k = replay[h]
  OBVIOUS
<1>4. PICK detail : detail = Finish(log[h] = "admitted", verdict[h] = "SUCCESS")
  OBVIOUS
<1>5. /\ detail.admitted <=> log[h] = "admitted"
      /\ detail.success <=> verdict[h] = "SUCCESS"
  BY <1>4 DEF Finish
<1>6. PICK x : x = Replay(k, Emits(h, "OWNER_FINISHED", detail))
  OBVIOUS
<1>7. /\ replay' = [replay EXCEPT ![h] = x] /\ waitRuns' \in [Calls -> BOOLEAN]
      /\ log' \in [Calls -> LogStates] /\ log'[h] = "none"
      /\ \A g \in Calls \ {h} : log'[g] = log[g]
  <2>1. /\ Writes(h, <<Emits(h, "OWNER_FINISHED", detail)>>)
        /\ log' = [log EXCEPT ![h] = "none"] /\ UNCHANGED waitRuns
    BY <1>4 DEF WritesOwnerFinished
  <2>2. replay' = [replay EXCEPT ![h] = x]
    BY <1>3, <1>6, <2>1, ReplayOne DEF Writes
  <2> QED
    BY <2>1, <2>2 DEF ToldInv, EvidenceTypes, LogStates
<1>8. /\ at'[h] = "deciding" /\ owner'[h] = "none"
      /\ UNCHANGED <<state, consumers, priority, reason, result, attempts, refreshes, verdict>>
      /\ \A g \in Calls \ {h} : replay'[g] = replay[g] => SameChain(g)
  BY <1>1, <1>7 DEF OwnerFinished, Drives, SameChain, ChainInv, TypeOK, demandVars, endVars, ledgerVars
<1>9. LogShape(h)'
  BY <1>2, <1>7, <1>8 DEF LogShape, Live
<1>10. replay'[h] = x
  BY <1>7 DEF ToldInv, EvidenceTypes
<1>11. CASE Rejected(k)
  <2>1. Rejected(x)
    BY <1>6, <1>11, RejectedStays DEF Rejected
  <2>2. Told(h)'
    BY <1>2, <1>8, <1>10, <2>1 DEF Told, Live
  <2> QED
    BY <1>7, <1>8, <1>9, <2>2, WritingStep
<1>12. CASE ~Rejected(k)
  <2>1. /\ Current(h, k) /\ ToldOwner(h, k) /\ ToldFailure(h, k)
        /\ k.consumers = consumers[h] /\ k.row.ends = "none" /\ k.charges = attempts[h]
    BY <1>2, <1>3, <1>12, LiveTold
  <2>2. /\ k.open <=> detail.admitted
        /\ ~k.pending /\ ~k.failed /\ ~k.refreshCharged /\ ~k.backoff
    BY <1>1, <1>2, <1>5, <2>1 DEF ToldOwner, ToldFailure, Deciding
  <2>3. Follows(k, Emits(h, "OWNER_FINISHED", detail))
    BY <2>1, CurrentFollows DEF ChainInv
  <2>4. x = AfterFinish(k, Budget(h), detail)
    BY <1>6, <2>2, <2>3, FinishIsRead DEF Emits
  <2>5. k \in ChainRecord /\ Budget(h) \in Spendings
    BY <2>1 DEF Current, ChainRecord
  <2>6. /\ x \in ChainRecord
        /\ x.limits = k.limits /\ x.spent = k.spent /\ x.charges = k.charges
        /\ x.priority = k.priority /\ x.terminal = k.terminal
        /\ x.consumers = k.consumers /\ x.row = k.row
        /\ ~x.open /\ x.pending = k.pending /\ x.refreshCharged = k.refreshCharged
        /\ x.backoff = k.backoff
        /\ x.failed = ~detail.success /\ x.atFinish = Budget(h)
    BY <2>4, <2>5 DEF ChainRecord, AfterFinish
  <2>7. ToldChain(h, x)'
    <3>1. Unwritten(h, "charge")' = 0 /\ Unwritten(h, "refresh")' = 0
      BY <1>7 DEF Unwritten
    <3>2. attempts'[h] - 0 = attempts[h] /\ refreshes'[h] - 0 = refreshes[h]
      <4>1. attempts[h] \in Nat /\ refreshes[h] \in Nat
        BY LimitAssumption DEF ChainInv, TypeOK
      <4>2. attempts' = attempts /\ refreshes' = refreshes
        BY <1>8
      <4> QED
        BY ONLY <4>1, <4>2
    <3> QED
      BY <1>2, <1>8, <2>1, <2>6, <3>1, <3>2 DEF ToldChain, Current, Budget
  <2>8. ToldOwner(h, x)'
    BY <1>7, <1>8, <2>2, <2>6 DEF ToldOwner
  <2>9. ToldFailure(h, x)'
    <3>1. refreshes'[h] - 0 = refreshes[h]
      <4>1. refreshes[h] \in Nat /\ refreshes' = refreshes
        BY <1>8, LimitAssumption DEF ChainInv, TypeOK
      <4> QED
        BY ONLY <4>1
    <3> QED
      BY <1>5, <1>7, <1>8, <2>6, <3>1 DEF ToldFailure, Deciding, Budget
  <2>10. Told(h)'
    BY <1>2, <1>8, <1>10, <2>6, <2>7, <2>8, <2>9 DEF Told, Live
  <2> QED
    BY <1>7, <1>8, <1>9, <2>10, WritingStep
<1> QED
  BY <1>11, <1>12

\* Nothing is written at the end of a provider's wait.
LEMMA ReplayNone ==
  ASSUME NEW k
  PROVE  ReplayAll(k, <<>>) = k
<1> DEFINE s == <<>>
           Up(g) == g = [n \in 0 .. Len(s) |-> IF n = 0 THEN k ELSE Replay(g[n - 1], s[n])]
           u == CHOOSE g : Up(g)
           w == [n \in 0 .. Len(s) |-> k]
<1>1. Up(w)
  OBVIOUS
<1>2. Up(u)
  BY <1>1
<1>3. ReplayAll(k, s) = u[Len(s)]
  BY DEF ReplayAll
<1>4. PICK f : f = u /\ Up(f)
  BY <1>2
<1>5. f[0] = k
  <2> HIDE DEF u, w
  <2>1. f = [n \in 0 .. 0 |-> IF n = 0 THEN k ELSE Replay(f[n - 1], s[n])]
    BY <1>4
  <2>2. 0 \in 0 .. 0
    OBVIOUS
  <2> QED
    BY ONLY <2>1, <2>2
<1> QED
  BY <1>3, <1>4, <1>5

\* The end of a wait: only that of a backoff is written.
LEMMA WakeUpStep ==
  ASSUME ChainInv, ToldInv, NEW h \in Calls, WritesWakeUp(h)
  PROVE  ToldInv'
<1>1. at[h] = "sleeping" /\ SleepEnds(h)
  BY DEF WritesWakeUp, SleepEnds
<1>2. Live(h) /\ owner[h] = "none"
  BY <1>1, DriverIsLive
<1>3. log[h] = "none" /\ log = [log EXCEPT ![h] = "none"] /\ waitRuns \in [Calls -> BOOLEAN]
  BY <1>1, <1>2, NothingLogged DEF ToldInv, EvidenceTypes
<1>4. MovesOn(h, "head")
  BY <1>1, <1>2 DEF SleepEnds, Wakes, MovesOn, Drives, Live, ChainInv, TypeOK, demandVars,
                    endVars, ledgerVars, ownerVars
<1>5. PICK k : k = replay[h]
  OBVIOUS
<1>6. ASSUME ~Rejected(k)
      PROVE  Lively(h, k) /\ (state[h] = "WAITING_BACKOFF" => k.backoff)
  <2>1. /\ Current(h, k) /\ ToldOwner(h, k) /\ ToldFailure(h, k)
        /\ k.consumers = consumers[h] /\ k.row.ends = "none" /\ k.charges = attempts[h]
    BY <1>2, <1>3, <1>5, <1>6, LiveTold
  <2> QED
    BY <1>1, <1>3, <2>1 DEF Lively, Settled, ToldOwner, ToldFailure, Deciding
<1>7. CASE state[h] # "WAITING_BACKOFF"
  <2>1. replay' = [replay EXCEPT ![h] = k] /\ log' = log /\ UNCHANGED waitRuns
    BY <1>5, <1>7, ReplayNone DEF WritesWakeUp, Also, Writes
  <2>2. Rejected(k) \/ Lively(h, k)
    BY <1>6
  <2> QED
    BY <1>2, <1>3, <1>4, <2>1, <2>2, MovesOnTold
<1>8. CASE state[h] = "WAITING_BACKOFF"
  <2>1. PICK woken : woken = Emits(h, "BACKOFF_COMPLETED", None)
    OBVIOUS
  <2>2. PICK x : x = Replay(k, woken)
    OBVIOUS
  <2>3. replay' = [replay EXCEPT ![h] = x] /\ log' = log /\ UNCHANGED waitRuns
    BY <1>5, <1>8, <2>1, <2>2, ReplayOne DEF WritesWakeUp, Also, Writes
  <2>4. CASE Rejected(k)
    <3>1. Rejected(x)
      BY <2>2, <2>4, RejectedStays DEF Rejected
    <3> QED
      BY <1>2, <1>3, <1>4, <2>3, <3>1, MovesOnTold
  <2>5. CASE ~Rejected(k)
    <3>1. Lively(h, k) /\ k.backoff
      BY <1>6, <1>8, <2>5
    <3>2. Follows(k, woken)
      BY <2>1, <3>1, CurrentFollows DEF Lively, Settled, ChainInv
    <3>3. x = AfterWakeUp(k)
      BY <2>1, <2>2, <3>1, <3>2, WakeUpIsRead DEF Emits
    <3>4. k \in ChainRecord
      BY <3>1 DEF Lively, Settled, Current
    <3>5. /\ x \in ChainRecord /\ ~x.backoff
          /\ x.limits = k.limits /\ x.spent = k.spent /\ x.charges = k.charges
          /\ x.priority = k.priority /\ x.terminal = k.terminal
          /\ x.consumers = k.consumers /\ x.row = k.row
          /\ x.open = k.open /\ x.pending = k.pending /\ x.failed = k.failed
          /\ x.refreshCharged = k.refreshCharged
      BY <3>3, <3>4 DEF ChainRecord, AfterWakeUp
    <3>6. Lively(h, x)
      BY <3>1, <3>5 DEF Lively, Settled, Current
    <3> QED
      BY <1>2, <1>3, <1>4, <2>3, <3>5, <3>6, MovesOnTold
  <2> QED
    BY <2>4, <2>5
<1> QED
  BY <1>7, <1>8

\* The row of a refresh has the context of before its charge.
LEMMA RefreshRowFits ==
  ASSUME ChainInv, ToldInv, NEW h \in Calls, at[h] = "applying", ~Rejected(replay[h]),
         NEW ends \in Reasons \union {"none"},
         NEW k, k = replay[h], NEW row, row = RefreshRow(h, ends)
  PROVE  /\ Current(h, k) /\ k.charges = attempts[h] /\ k.consumers = consumers[h]
         /\ ~k.open /\ ~k.pending /\ ~k.backoff
         /\ RowFits(k, row) /\ row.owned /\ row.ends = ends /\ row.result = verdict[h]
<1>1. Live(h) /\ owner[h] = "none"
  BY DriverIsLive
<1>2. /\ log[h] \in {"none", "refreshed"} /\ verdict[h] \in RefreshResults
      /\ verdict[h] \in {"NOT_ADMITTED", "CLOSED"} => log[h] = "none"
      /\ verdict[h] = "NOT_ADMITTED" => refreshes[h] = RefreshLimit
  BY <1>1 DEF ToldInv, EvidenceTypes, LogShape, LogStates
<1>3. /\ Current(h, k) /\ ToldOwner(h, k) /\ ToldFailure(h, k)
      /\ k.consumers = consumers[h] /\ k.row.ends = "none" /\ k.charges = attempts[h]
  BY <1>1, <1>2, LiveTold
<1>4. /\ ~k.open /\ ~k.pending /\ ~k.backoff /\ k.failed
      /\ k.refreshCharged <=> log[h] = "refreshed"
      /\ k.atFinish = Spent(attempts[h], refreshes[h] - (IF log[h] = "refreshed" THEN 1 ELSE 0))
  BY <1>2, <1>3 DEF ToldOwner, ToldFailure, Deciding
<1>5. /\ row.action = "REFRESH_DELIVERY_BINDING" /\ row.owned = TRUE /\ row.ends = ends
      /\ row.result = verdict[h] /\ (row.charged <=> log[h] = "refreshed")
      /\ row.left = [Left(h) EXCEPT !.refreshes = IF log[h] = "refreshed" THEN @ + 1 ELSE @]
  BY DEF RefreshRow, Row
<1>6. /\ refreshes[h] \in Nat /\ RefreshLimit \in Nat
      /\ attempts[h] \in Nat /\ AttemptLimit \in Nat
  BY LimitAssumption DEF ChainInv, TypeOK
<1>7. row.left = Spent(AttemptLimit - attempts[h],
                       RefreshLimit - (refreshes[h] - (IF log[h] = "refreshed" THEN 1 ELSE 0)))
  <2>1. Left(h) = Spent(AttemptLimit - attempts[h], RefreshLimit - refreshes[h])
    BY DEF Left, Remaining
  <2>2. CASE log[h] = "refreshed"
    <3>1. (RefreshLimit - refreshes[h]) + 1 = RefreshLimit - (refreshes[h] - 1)
      BY <1>6
    <3> QED
      BY <1>5, <2>1, <2>2, <3>1 DEF Spent
  <2>3. CASE log[h] # "refreshed"
    <3>1. RefreshLimit - refreshes[h] = RefreshLimit - (refreshes[h] - 0)
      BY <1>6
    <3> QED
      BY <1>5, <2>1, <2>3, <3>1 DEF Spent
  <2> QED
    BY <2>2, <2>3
<1>8. row.left = Spent(k.limits.attempts - k.atFinish.attempts,
                       k.limits.refreshes - k.atFinish.refreshes)
  BY <1>3, <1>4, <1>7 DEF Current, Spent
<1>9. row.result = "NOT_ADMITTED" => row.left.refreshes = 0
  <2> SUFFICES ASSUME verdict[h] = "NOT_ADMITTED" PROVE row.left.refreshes = 0
    BY <1>5
  <2>1. log[h] = "none" /\ refreshes[h] = RefreshLimit
    BY <1>2
  <2>2. RefreshLimit - (RefreshLimit - 0) = 0
    BY <1>6
  <2> QED
    BY <1>7, <2>1, <2>2 DEF Spent
<1>10. RowFits(k, row)
  <2>1. row.action \in RowActions
    BY <1>5 DEF RowActions
  <2> QED
    BY <1>2, <1>4, <1>5, <1>8, <1>9, <2>1 DEF RowFits
<1> QED
  BY <1>3, <1>4, <1>5, <1>10

\* The row of a refresh, after which the chain goes on or ends.
LEMMA RefreshStep ==
  ASSUME ChainInv, ToldInv, NEW h \in Calls, WritesRefresh(h)
  PROVE  ToldInv'
<1>1. at[h] = "applying"
  BY DEF WritesRefresh, RefreshApplied, EndsAfterRefresh
<1>2. Live(h) /\ owner[h] = "none" /\ TypeOK
  BY <1>1, DriverIsLive DEF ChainInv
<1>3. log' = [log EXCEPT ![h] = "none"] /\ waitRuns' \in [Calls -> BOOLEAN] /\ UNCHANGED waitRuns
  BY DEF WritesRefresh, ToldInv, EvidenceTypes
<1>4. PICK k : k = replay[h]
  OBVIOUS
<1>5. ASSUME RefreshApplied(h), Writes(h, <<Failed(h, RefreshRow(h, "none"))>>)
      PROVE  ToldInv'
  <2>1. MovesOn(h, "head")
    BY <1>2, <1>5 DEF RefreshApplied, MovesOn, Drives, Live, TypeOK, demandVars, endVars,
                      ledgerVars, ownerVars
  <2>2. PICK row : row = RefreshRow(h, "none")
    OBVIOUS
  <2>3. PICK x : x = Replay(k, Emits(h, "FAILURE", row))
    OBVIOUS
  <2>4. replay' = [replay EXCEPT ![h] = x]
    BY <1>4, <1>5, <2>2, <2>3, ReplayOne DEF Writes, Failed
  <2>5. CASE Rejected(k)
    <3>1. Rejected(x)
      BY <2>3, <2>5, RejectedStays DEF Rejected
    <3> QED
      BY <1>2, <1>3, <2>1, <2>4, <3>1, MovesOnTold
  <2>6. CASE ~Rejected(k)
    <3>1. /\ Current(h, k) /\ k.charges = attempts[h] /\ k.consumers = consumers[h]
          /\ ~k.open /\ ~k.pending /\ ~k.backoff
          /\ RowFits(k, row) /\ row.owned /\ row.ends = "none"
      BY <1>1, <1>4, <2>2, <2>6, RefreshRowFits
    <3>2. Lively(h, x) /\ ~x.backoff
      BY <1>2, <2>3, <3>1, RowGoesOn DEF Lively, Settled
    <3> QED
      BY <1>2, <1>3, <2>1, <2>4, <3>2, MovesOnTold
  <2> QED
    BY <2>5, <2>6
<1>6. ASSUME EndsAfterRefresh(h),
             Writes(h, EndsByRow(h, RefreshRow(h,
                        OracleTerminal("REFRESH_DELIVERY_BINDING", verdict[h]))))
      PROVE  ToldInv'
  <2>1. PICK r \in Reasons :
            /\ Terminate(h, r) /\ r = OracleTerminal("REFRESH_DELIVERY_BINDING", verdict[h])
            /\ r = "BUDGET_EXHAUSTED" => verdict[h] = "NOT_ADMITTED"
    BY <1>6 DEF EndsAfterRefresh, OracleTerminal, Reasons
  <2>2. reason'[h] = r
    BY <2>1 DEF Terminate, ChainInv, TypeOK
  <2>3. PICK row : row = RefreshRow(h, r)
    OBVIOUS
  <2>4. PICK failure : failure = Emits(h, "FAILURE", row)
    OBVIOUS
  <2>5. PICK ended : ended = Emits(h, "CHAIN_TERMINATED", EndByRow(r))
    OBVIOUS
  <2>6. PICK x : x = ReplayAll(k, <<failure, ended>>)
    OBVIOUS
  <2>7. replay' = [replay EXCEPT ![h] = x]
    BY <1>4, <1>6, <2>1, <2>2, <2>3, <2>4, <2>5, <2>6
       DEF Writes, Terminated, Failed, EndsByRow, EndByRow
  <2>8. Rejected(x) \/ \E k2 : Settled(h, k2) /\ x = AfterEnd(k2, r)
    <3>1. CASE Rejected(k)
      BY <2>6, <3>1, RejectedReplays
    <3>2. CASE ~Rejected(k)
      <4>1. /\ Current(h, k) /\ k.charges = attempts[h]
            /\ ~k.open /\ ~k.pending
            /\ RowFits(k, row) /\ row.owned /\ row.ends = r /\ row.result = verdict[h]
        BY <1>1, <1>4, <2>3, <3>2, RefreshRowFits
      <4> QED
        BY <1>2, <2>1, <2>4, <2>5, <2>6, <4>1, EndsNamed
    <3> QED
      BY <3>1, <3>2
  <2> QED
    BY <1>1, <1>2, <1>3, <2>1, <2>7, <2>8, EndIsTold
<1> QED
  BY <1>5, <1>6 DEF WritesRefresh

\* A record's event may be the charge that it still has to take.
LEMMA ChargeFits ==
  ASSUME TypeOK, NEW h \in Calls, NEW k \in ChainRecord,
         k.limits = Spent(AttemptLimit, RefreshLimit), k.terminal = "none",
         k.priority = priority[h], NEW kind, NEW detail
  PROVE  Fits(k, Event(kind, Budget(h), k.priority, detail))
<1>1. /\ attempts[h] \in 0 .. AttemptLimit /\ refreshes[h] \in 0 .. RefreshLimit
      /\ AttemptLimit \in Nat /\ RefreshLimit \in Nat
  BY LimitAssumption DEF TypeOK
<1> QED
  BY <1>1 DEF Fits, Event, Budget, Spent, Spendings

\* A charge is written, and the owner that it is for.
LEMMA WritesChargeStep ==
  ASSUME ChainInv, ToldInv, NEW h \in Calls, WritesCharge(h)
  PROVE  ToldInv'
<1>1. log[h] \in {"charge", "started", "refresh"} /\ UNCHANGED <<vars, waitRuns>>
  BY DEF WritesCharge, Written
<1>2. /\ UNCHANGED <<state, consumers, priority, reason, result, attempts, refreshes, verdict,
                     at, owner>>
      /\ waitRuns' \in [Calls -> BOOLEAN] /\ waitRuns[h] \in BOOLEAN
  BY <1>1 DEF vars, demandVars, endVars, ledgerVars, ownerVars, driverVars, ToldInv, EvidenceTypes
<1>3. /\ log \in [Calls -> LogStates] /\ LogShape(h) /\ Told(h) /\ ChainShape(h) /\ TypeOK
  BY DEF ToldInv, EvidenceTypes, ChainInv
<1>4. /\ log[h] \in {"charge", "started"} => owner[h] = "inflight"
      /\ log[h] = "refresh" => at[h] = "refreshing"
      /\ at[h] \in {"storing", "closing", "awaiting", "refreshing"}
  BY <1>1, <1>3 DEF LogShape, ChainShape
<1>5. Live(h) /\ ~result[h]
  <2>1. Live(h)
    BY <1>4, DriverIsLive
  <2> QED
    BY <1>3, <1>4, <2>1 DEF LogShape
<1>6. PICK k : k = replay[h]
  OBVIOUS
<1>7. PICK e : e = CASE log[h] = "charge" -> Emits(h, "CHARGE", ChargeOf("attempts", waitRuns[h]))
                     [] log[h] = "refresh" -> Emits(h, "CHARGE", ChargeOf("refreshes", waitRuns[h]))
                     [] log[h] = "started" -> Emits(h, "OWNER_STARTED", None)
  OBVIOUS
<1>8. PICK x : x = Replay(k, e)
  OBVIOUS
<1>9. replay' = [replay EXCEPT ![h] = x] /\ replay'[h] = x
  BY <1>6, <1>7, <1>8, ReplayOne DEF WritesCharge, Writes, ToldInv, EvidenceTypes
<1>10. /\ log' \in [Calls -> LogStates]
       /\ log[h] = "charge" => log'[h] = "started"
       /\ log[h] = "started" => log'[h] = "admitted"
       /\ log[h] = "refresh" => log'[h] = "refreshed"
       /\ \A g \in Calls \ {h} : log'[g] = log[g]
  <2>1. log' = [log EXCEPT ![h] = NextToWrite[log[h]]]
    BY DEF WritesCharge
  <2>2. /\ NextToWrite["charge"] = "started" /\ NextToWrite["started"] = "admitted"
        /\ NextToWrite["refresh"] = "refreshed"
    BY DEF NextToWrite
  <2>3. NextToWrite[log[h]] \in LogStates
    BY <1>1, <2>2 DEF LogStates
  <2> QED
    BY <1>3, <2>1, <2>2, <2>3
<1>11. LogShape(h)'
  BY <1>1, <1>2, <1>3, <1>4, <1>10 DEF LogShape
<1>12. \A g \in Calls \ {h} : replay'[g] = replay[g] => SameChain(g)
  BY <1>2, <1>10 DEF SameChain
<1> SUFFICES Told(h)'
  BY <1>2, <1>9, <1>10, <1>11, <1>12, WritingStep
<1>13. CASE Rejected(k)
  <2>1. Rejected(x)
    BY <1>8, <1>13, RejectedStays DEF Rejected
  <2> QED
    BY <1>2, <1>5, <1>9, <2>1 DEF Told, Live
<1>14. ASSUME ~Rejected(k)
       PROVE  k \in ChainRecord /\ ToldChain(h, k) /\ ToldOwner(h, k) /\ ToldFailure(h, k)
  BY <1>3, <1>5, <1>6, <1>14 DEF Told, Live
<1>15. /\ attempts[h] \in Nat /\ refreshes[h] \in Nat /\ reason[h] = "none"
       /\ state[h] \notin {"UNBORN", "TERMINAL"}
  BY <1>3, <1>5, LimitAssumption DEF TypeOK, Live, ChainShape
<1>16. ASSUME ~Rejected(k), log[h] = "charge"
       PROVE  Told(h)'
  <2>1. k \in ChainRecord /\ ToldChain(h, k) /\ ToldOwner(h, k) /\ ToldFailure(h, k)
    BY <1>14, <1>16
  <2>2. /\ k.limits = Spent(AttemptLimit, RefreshLimit) /\ k.charges = attempts[h] - 1
        /\ k.spent = Spent(attempts[h] - 1, refreshes[h]) /\ k.priority = priority[h]
        /\ k.terminal = "none" /\ k.consumers = consumers[h] /\ k.row.ends = "none"
        /\ k.permit /\ ~k.open /\ ~k.pending /\ ~k.backoff /\ ~k.refreshCharged
    <3>1. Unwritten(h, "charge") = 1 /\ Unwritten(h, "refresh") = 0
      BY <1>16 DEF Unwritten
    <3> QED
      BY <1>4, <1>15, <1>16, <2>1, <3>1 DEF ToldChain, ToldOwner
  <2>3. (attempts[h] - 1) + 1 = attempts[h]
    BY <1>15
  <2>4. Budget(h) = [k.spent EXCEPT !.attempts = @ + 1]
    BY <2>2, <2>3 DEF Budget, Spent
  <2>5. PICK early \in BOOLEAN : early = waitRuns[h]
    BY <1>2
  <2>6. e = Event("CHARGE", Budget(h), k.priority, ChargeOf("attempts", early))
    BY <1>7, <1>16, <2>2, <2>5 DEF Emits
  <2>7. Fits(k, Event("CHARGE", Budget(h), k.priority, ChargeOf("attempts", early)))
    BY <1>3, <2>1, <2>2, ChargeFits
  <2>8. Rejected(x) \/ x = AfterAttempt(k, Budget(h))
    BY <1>8, <2>2, <2>4, <2>6, <2>7, AttemptChargeIsRead
  <2>9. CASE Rejected(x)
    BY <1>2, <1>9, <1>15, <2>9 DEF Told
  <2>10. CASE x = AfterAttempt(k, Budget(h))
    <3>1. Budget(h) \in Spendings /\ k.charges + 1 \in Nat
      BY <1>15, <2>1 DEF Budget, Spent, Spendings, ChainRecord
    <3>2. /\ x \in ChainRecord
          /\ x.limits = k.limits /\ x.spent = Budget(h) /\ x.charges = k.charges + 1
          /\ x.priority = k.priority /\ x.terminal = k.terminal
          /\ x.consumers = k.consumers /\ x.row = k.row
          /\ x.open = k.open /\ x.pending /\ x.failed = k.failed
          /\ x.refreshCharged = k.refreshCharged /\ x.backoff = k.backoff
          /\ x.atFinish = k.atFinish
      BY <2>1, <2>10, <3>1 DEF ChainRecord, AfterAttempt
    <3>3. Unwritten(h, "charge")' = 0 /\ Unwritten(h, "refresh")' = 0
      BY <1>10, <1>16 DEF Unwritten
    <3>4. /\ attempts'[h] - 0 = attempts[h] /\ refreshes'[h] - 0 = refreshes[h]
          /\ x.charges = attempts[h]
      <4>1. attempts' = attempts /\ refreshes' = refreshes
        BY <1>2
      <4> QED
        BY ONLY <1>15, <2>2, <3>2, <4>1
    <3>5. ToldChain(h, x)'
      BY <1>2, <1>15, <2>2, <3>2, <3>3, <3>4 DEF ToldChain, Budget
    <3>6. ToldOwner(h, x)' /\ ToldFailure(h, x)'
      BY <1>2, <1>4, <1>10, <1>16, <2>1, <2>2, <3>2 DEF ToldOwner, ToldFailure, Deciding
    <3> QED
      BY <1>2, <1>9, <1>15, <3>2, <3>5, <3>6 DEF Told
  <2> QED
    BY <2>8, <2>9, <2>10
<1>17. ASSUME ~Rejected(k), log[h] = "started"
       PROVE  Told(h)'
  <2>1. /\ Current(h, k) /\ ToldOwner(h, k) /\ ToldFailure(h, k)
        /\ k.consumers = consumers[h] /\ k.row.ends = "none" /\ k.charges = attempts[h]
    BY <1>5, <1>6, <1>17, LiveTold
  <2>2. k.pending /\ ~k.backoff /\ ~k.refreshCharged /\ k \in ChainRecord
    BY <1>4, <1>17, <2>1 DEF ToldOwner, Current
  <2>3. Follows(k, Emits(h, "OWNER_STARTED", None))
    BY <1>3, <2>1, CurrentFollows
  <2>4. x = AfterStart(k)
    BY <1>7, <1>8, <1>17, <2>2, <2>3, StartIsRead DEF Emits
  <2>5. /\ x \in ChainRecord
        /\ x.limits = k.limits /\ x.spent = k.spent /\ x.charges = k.charges
        /\ x.priority = k.priority /\ x.terminal = k.terminal
        /\ x.consumers = k.consumers /\ x.row.ends = "none"
        /\ x.open /\ ~x.pending /\ x.failed = k.failed
        /\ x.refreshCharged = k.refreshCharged /\ x.backoff = k.backoff
        /\ x.atFinish = k.atFinish
    <3>1. PICK none \in [action: RowActions, ends: Reasons \union {"none"},
                         result: RefreshResults \union {"none"}] : none = NoRow
      BY DEF NoRow, RowActions
    <3>2. none.ends = "none"
      BY <3>1 DEF NoRow
    <3>3. x = [k EXCEPT !.pending = FALSE, !.open = TRUE, !.row = none]
      BY <2>4, <3>1 DEF AfterStart
    <3> QED
      BY <2>2, <3>1, <3>2, <3>3 DEF ChainRecord
  <2>6. Unwritten(h, "charge")' = 0 /\ Unwritten(h, "refresh")' = 0
    BY <1>10, <1>17 DEF Unwritten
  <2>7. attempts'[h] - 0 = attempts[h] /\ refreshes'[h] - 0 = refreshes[h]
    <3>1. attempts' = attempts /\ refreshes' = refreshes
      BY <1>2
    <3> QED
      BY ONLY <1>15, <3>1
  <2>8. ToldChain(h, x)'
    BY <1>2, <1>15, <2>1, <2>5, <2>6, <2>7 DEF ToldChain, Current, Budget
  <2>9. ToldOwner(h, x)' /\ ToldFailure(h, x)'
    BY <1>2, <1>4, <1>10, <1>17, <2>1, <2>2, <2>5 DEF ToldOwner, ToldFailure, Deciding
  <2> QED
    BY <1>2, <1>9, <1>15, <2>5, <2>8, <2>9 DEF Told
<1>18. ASSUME ~Rejected(k), log[h] = "refresh"
       PROVE  Told(h)'
  <2>1. k \in ChainRecord /\ ToldChain(h, k) /\ ToldOwner(h, k) /\ ToldFailure(h, k)
    BY <1>14, <1>18
  <2>2. owner[h] = "none" /\ at[h] = "refreshing"
    BY <1>3, <1>4, <1>18, DriverIsLive
  <2>3. /\ k.limits = Spent(AttemptLimit, RefreshLimit) /\ k.charges = attempts[h]
        /\ k.spent = Spent(attempts[h], refreshes[h] - 1) /\ k.priority = priority[h]
        /\ k.terminal = "none" /\ k.consumers = consumers[h] /\ k.row.ends = "none"
        /\ ~k.open /\ ~k.pending /\ ~k.backoff /\ ~k.refreshCharged
    <3>1. Unwritten(h, "charge") = 0 /\ Unwritten(h, "refresh") = 1
      BY <1>18 DEF Unwritten
    <3>2. attempts[h] - 0 = attempts[h]
      BY <1>15
    <3> QED
      BY <1>15, <1>18, <2>1, <2>2, <3>1, <3>2 DEF ToldChain, ToldOwner
  <2>4. (refreshes[h] - 1) + 1 = refreshes[h]
    BY <1>15
  <2>5. Budget(h) = [k.spent EXCEPT !.refreshes = @ + 1]
    BY <2>3, <2>4 DEF Budget, Spent
  <2>6. PICK early \in BOOLEAN : early = waitRuns[h]
    BY <1>2
  <2>7. e = Event("CHARGE", Budget(h), k.priority, ChargeOf("refreshes", early))
    BY <1>7, <1>18, <2>3, <2>6 DEF Emits
  <2>8. Fits(k, Event("CHARGE", Budget(h), k.priority, ChargeOf("refreshes", early)))
    BY <1>3, <2>1, <2>3, ChargeFits
  <2>9. Rejected(x) \/ x = AfterRefresh(k, Budget(h))
    BY <1>8, <2>3, <2>5, <2>7, <2>8, RefreshChargeIsRead
  <2>10. CASE Rejected(x)
    BY <1>2, <1>9, <1>15, <2>10 DEF Told
  <2>11. CASE x = AfterRefresh(k, Budget(h))
    <3>1. Budget(h) \in Spendings
      BY <1>15 DEF Budget, Spent, Spendings
    <3>2. /\ x \in ChainRecord
          /\ x.limits = k.limits /\ x.spent = Budget(h) /\ x.charges = k.charges
          /\ x.priority = k.priority /\ x.terminal = k.terminal
          /\ x.consumers = k.consumers /\ x.row = k.row
          /\ x.open = k.open /\ x.pending = k.pending /\ x.failed = k.failed
          /\ x.refreshCharged /\ x.backoff = k.backoff
          /\ x.atFinish = k.atFinish
      BY <2>1, <2>11, <3>1 DEF ChainRecord, AfterRefresh
    <3>3. Unwritten(h, "charge")' = 0 /\ Unwritten(h, "refresh")' = 0
      BY <1>10, <1>18 DEF Unwritten
    <3>4. attempts'[h] - 0 = attempts[h] /\ refreshes'[h] - 0 = refreshes[h]
      <4>1. attempts' = attempts /\ refreshes' = refreshes
        BY <1>2
      <4> QED
        BY ONLY <1>15, <4>1
    <3>5. ToldChain(h, x)'
      BY <1>2, <1>15, <2>3, <3>2, <3>3, <3>4 DEF ToldChain, Budget
    <3>6. ToldOwner(h, x)' /\ ToldFailure(h, x)'
      BY <1>2, <1>10, <1>18, <2>1, <2>2, <2>3, <3>2 DEF ToldOwner, ToldFailure, Deciding
    <3> QED
      BY <1>2, <1>9, <1>15, <3>2, <3>5, <3>6 DEF Told
  <2> QED
    BY <2>9, <2>10, <2>11
<1> QED
  BY <1>1, <1>13, <1>16, <1>17, <1>18

-------------------------------------------------------------------------------
(* The callers' steps *)

\* What a caller's event changes of a record.
Redemanded(k, all, p) == [k EXCEPT !.consumers = all, !.priority = p]

\* A change of a live chain's demand, as the oracle knows it.
LEMMA DemandTold ==
  ASSUME ChainInv, ToldInv, NEW h \in Calls, Live(h),
         state'[h] \notin {"UNBORN", "TERMINAL"},
         state'[h] = "WAITING_BACKOFF" => state[h] = "WAITING_BACKOFF",
         consumers'[h] \in SUBSET Consumers, priority'[h] \in Priorities,
         UNCHANGED <<attempts, refreshes, owner, reason, result, at, verdict, log, waitRuns>>,
         \A g \in Calls \ {h} : /\ state'[g] = state[g] /\ consumers'[g] = consumers[g]
                                /\ priority'[g] = priority[g],
         NEW x, replay' = [replay EXCEPT ![h] = x],
         \/ Rejected(x)
         \/ ~Rejected(replay[h]) /\ x = Redemanded(replay[h], consumers'[h], priority'[h])
  PROVE  ToldInv'
<1>1. /\ log' \in [Calls -> LogStates] /\ waitRuns' \in [Calls -> BOOLEAN]
      /\ replay'[h] = x /\ LogShape(h) /\ Told(h)
  BY DEF ToldInv, EvidenceTypes
<1>2. \A g \in Calls \ {h} : replay'[g] = replay[g] => SameChain(g)
  BY DEF SameChain
<1>3. LogShape(h)'
  BY <1>1 DEF LogShape
<1>4. CASE Rejected(x)
  <2>1. Told(h)'
    BY <1>1, <1>4 DEF Told
  <2> QED
    BY <1>1, <1>2, <1>3, <2>1, WritingStep
<1>5. CASE ~Rejected(replay[h]) /\ x = Redemanded(replay[h], consumers'[h], priority'[h])
  <2>1. PICK k \in ChainRecord : k = replay[h]
            /\ ToldChain(h, k) /\ ToldOwner(h, k) /\ ToldFailure(h, k)
    BY <1>1, <1>5 DEF Told, Live
  <2>2. /\ x \in ChainRecord /\ x.consumers = consumers'[h] /\ x.priority = priority'[h]
        /\ x.limits = k.limits /\ x.spent = k.spent /\ x.charges = k.charges
        /\ x.terminal = k.terminal /\ x.row = k.row /\ x.permit = k.permit
        /\ x.open = k.open /\ x.pending = k.pending /\ x.failed = k.failed
        /\ x.refreshCharged = k.refreshCharged /\ x.backoff = k.backoff
        /\ x.atFinish = k.atFinish
    <3>1. PICK all \in SUBSET Consumers, p \in Priorities : all = consumers'[h] /\ p = priority'[h]
      OBVIOUS
    <3>2. x = [k EXCEPT !.consumers = all, !.priority = p]
      BY <1>5, <2>1, <3>1 DEF Redemanded
    <3> QED
      BY <3>1, <3>2 DEF ChainRecord
  <2>3. ToldChain(h, x)'
    BY <2>1, <2>2 DEF ToldChain, Unwritten, Live
  <2>4. ToldOwner(h, x)' /\ ToldFailure(h, x)'
    BY <2>1, <2>2 DEF ToldOwner, ToldFailure, Deciding
  <2>5. Told(h)'
    BY <1>1, <2>2, <2>3, <2>4 DEF Told
  <2> QED
    BY <1>1, <1>2, <1>3, <2>5, WritingStep
<1> QED
  BY <1>4, <1>5

\* What a caller's event of a live chain can be.
LEMMA CallerFits ==
  ASSUME ChainInv, ToldInv, NEW h \in Calls, Live(h), ~Rejected(replay[h]),
         NEW k, k = replay[h], NEW kind, NEW p, NEW detail
  PROVE  /\ k \in ChainRecord /\ k.priority = priority[h] /\ k.consumers = consumers[h]
         /\ Fits(k, Event(kind, Budget(h), p, detail))
<1>1. /\ k \in ChainRecord /\ ToldChain(h, k)
  BY DEF ToldInv, Told, Live
<1>2. /\ k.priority = priority[h] /\ k.consumers = consumers[h]
      /\ k.limits = Spent(AttemptLimit, RefreshLimit) /\ k.terminal = "none"
  BY <1>1 DEF ToldChain, Live, ChainInv, ChainShape
<1>3. /\ attempts[h] \in 0 .. AttemptLimit /\ refreshes[h] \in 0 .. RefreshLimit
      /\ AttemptLimit \in Nat /\ RefreshLimit \in Nat
  BY LimitAssumption DEF ChainInv, TypeOK
<1> QED
  BY <1>1, <1>2, <1>3 DEF Fits, Event, Budget, Spent, Spendings

\* A consumer leaves.
LEMMA LeavesStep ==
  ASSUME ChainInv, DemandInv, ToldInv, NEW c \in Calls, LeavesChain(c)
  PROVE  ToldInv'
<1>1. PICK h \in Calls :
            /\ MayLeave(c, h) /\ state[h] # "TERMINAL"
            /\ ReleaseNotLast(c)!(h) \/ ReleaseLast(c)!(h)
  BY DEF LeavesChain, ReleaseNotLast, ReleaseLast
<1>2. on[c] = h /\ Live(h) /\ Request[c].consumer \in consumers[h]
  BY <1>1 DEF MayLeave, DemandInv, Aboard, Live
<1>3. PICK u \in Consumers : u = Request[c].consumer /\ u \in consumers[h]
  BY <1>2, RequestType
<1>4. /\ state \in [Calls -> States] /\ consumers \in [Calls -> SUBSET Consumers]
      /\ priority \in [Calls -> Priorities]
  BY DEF ChainInv, TypeOK
<1>5. /\ state'[h] \notin {"UNBORN", "TERMINAL"}
      /\ state'[h] = "WAITING_BACKOFF" => state[h] = "WAITING_BACKOFF"
      /\ consumers'[h] = consumers[h] \ {u} /\ consumers'[h] \in SUBSET Consumers
      /\ UNCHANGED <<priority, attempts, refreshes, owner, reason, result, at, verdict>>
      /\ \A g \in Calls \ {h} : state'[g] = state[g] /\ consumers'[g] = consumers[g]
  <2>1. CASE ReleaseNotLast(c)!(h)
    BY <1>2, <1>3, <1>4, <2>1 DEF Live, endVars, ledgerVars, ownerVars, driverVars
  <2>2. CASE ReleaseLast(c)!(h)
    BY <1>2, <1>3, <1>4, <2>2 DEF Live, IsLast, endVars, ledgerVars, ownerVars, driverVars
  <2> QED
    BY <1>1, <2>1, <2>2
<1>6. PICK k : k = replay[h]
  OBVIOUS
<1>7. PICK x : x = Replay(k, Event("CONSUMER_RELEASED", Budget(h), priority[h], u))
  OBVIOUS
<1>8. replay' = [replay EXCEPT ![h] = x] /\ UNCHANGED <<log, waitRuns>>
  BY <1>2, <1>3, <1>6, <1>7, ReplayOne DEF LeavesChain, Also, Writes, Emits
<1>9. priority'[h] \in Priorities /\ \A g \in Calls : priority'[g] = priority[g]
  BY <1>4, <1>5
<1>10. CASE Rejected(k)
  <2>1. Rejected(x)
    BY <1>7, <1>10, RejectedStays DEF Rejected
  <2> QED
    BY <1>2, <1>5, <1>8, <1>9, <2>1, DemandTold
<1>11. CASE ~Rejected(k)
  <2>1. k \in ChainRecord /\ k.priority = priority[h] /\ k.consumers = consumers[h]
    BY <1>2, <1>6, <1>11, CallerFits
  <2>2. Fits(k, Event("CONSUMER_RELEASED", Budget(h), k.priority, u))
    BY <1>2, <1>6, <1>11, CallerFits
  <2>3. Rejected(x) \/ x = AfterRelease(k, u)
    BY <1>3, <1>7, <2>1, <2>2, ReleaseIsRead
  <2>4. AfterRelease(k, u) = Redemanded(k, consumers'[h], priority'[h])
    <3>1. PICK all \in SUBSET Consumers : all = k.consumers \ {u} /\ all = consumers'[h]
      BY <1>5, <2>1
    <3>2. AfterRelease(k, u) = [k EXCEPT !.consumers = all]
      BY <3>1 DEF AfterRelease
    <3>3. [k EXCEPT !.consumers = all] = [k EXCEPT !.consumers = all, !.priority = k.priority]
      BY ONLY <2>1, <3>1 DEF ChainRecord
    <3> QED
      BY <1>9, <2>1, <3>1, <3>2, <3>3 DEF Redemanded
  <2> QED
    BY <1>2, <1>5, <1>6, <1>8, <1>9, <1>11, <2>3, <2>4, DemandTold
<1> QED
  BY <1>10, <1>11

\* A consumer joins, and may raise the chain's priority.
LEMMA JoinsStep ==
  ASSUME ChainInv, ToldInv, NEW c \in Calls, JoinsChain(c)
  PROVE  ToldInv'
<1>1. PICK h \in Calls : AcquireJoins(c)!(h)
  BY DEF JoinsChain, AcquireJoins
<1>2. active[KeyOf(c)] = h /\ Live(h)
  BY <1>1, RequestType, NoneAssumption DEF ChainInv, RegistryShape, KeyOf
<1>3. PICK u \in Consumers, p \in Priorities :
            u = Request[c].consumer /\ p = Request[c].priority /\ u \notin consumers[h]
  BY <1>1, RequestType DEF Joinable
<1>4. /\ state \in [Calls -> States] /\ consumers \in [Calls -> SUBSET Consumers]
      /\ priority \in [Calls -> Priorities] /\ priority[h] \in Priorities
  BY DEF ChainInv, TypeOK
<1>5. /\ consumers'[h] = consumers[h] \union {u} /\ consumers'[h] \in SUBSET Consumers
      /\ priority'[h] = Higher(priority[h], p)
      /\ UNCHANGED <<state, attempts, refreshes, owner, reason, result, at, verdict>>
      /\ \A g \in Calls \ {h} : /\ state'[g] = state[g] /\ consumers'[g] = consumers[g]
                                /\ priority'[g] = priority[g]
  BY <1>1, <1>3, <1>4 DEF endVars, ledgerVars, ownerVars, driverVars
<1>6. /\ state'[h] \notin {"UNBORN", "TERMINAL"} /\ state'[h] = state[h]
      /\ priority'[h] \in Priorities
      /\ p > priority[h] => priority'[h] = p
      /\ ~(p > priority[h]) => priority'[h] = priority[h]
  <2>1. state'[h] = state[h]
    BY <1>5
  <2>2. /\ p > priority[h] => priority'[h] = p
        /\ ~(p > priority[h]) => priority'[h] = priority[h]
    BY <1>3, <1>4, <1>5 DEF Higher, Priorities, RESERVE, PLAYBACK
  <2> QED
    BY <1>2, <1>4, <2>1, <2>2 DEF Live
<1>7. PICK k : k = replay[h]
  OBVIOUS
<1>8. PICK joined : joined = Event("CONSUMER_JOINED", Budget(h), priority[h], u)
  OBVIOUS
<1>9. PICK raised : raised = Event("PRIORITY_RAISED", Budget(h), p, None)
  OBVIOUS
<1>10. PICK y : y = Replay(k, joined)
  OBVIOUS
<1>11. PICK x : x = IF p > priority[h] THEN Replay(y, raised) ELSE y
  OBVIOUS
<1>12. replay' = [replay EXCEPT ![h] = x] /\ UNCHANGED <<log, waitRuns>>
  <2> DEFINE written == IF p > priority[h] THEN <<joined, raised>> ELSE <<joined>>
  <2>1. /\ replay' = [replay EXCEPT ![h] = ReplayAll(@, written)]
        /\ UNCHANGED <<log, waitRuns>>
    BY <1>2, <1>3, <1>8, <1>9 DEF JoinsChain, Also, Writes, Emits
  <2>4. /\ p > priority[h] => written = <<joined, raised>>
        /\ ~(p > priority[h]) => written = <<joined>>
    OBVIOUS
  <2> HIDE DEF written
  <2>2. CASE p > priority[h]
    <3>1. x = Replay(y, raised) /\ written = <<joined, raised>>
      BY <1>11, <2>2, <2>4
    <3>2. ReplayAll(k, <<joined, raised>>) = x
      BY <1>10, <3>1, ReplayTwo
    <3> QED
      BY <1>7, <2>1, <3>1, <3>2
  <2>3. CASE ~(p > priority[h])
    BY <1>7, <1>10, <1>11, <2>1, <2>3, <2>4, ReplayOne
  <2> QED
    BY <2>2, <2>3
<1>13. CASE Rejected(k)
  <2>1. Rejected(x)
    BY <1>10, <1>11, <1>13, RejectedStays DEF Rejected
  <2> QED
    BY <1>2, <1>5, <1>6, <1>12, <2>1, DemandTold
<1>14. CASE ~Rejected(k)
  <2>1. k \in ChainRecord /\ k.priority = priority[h] /\ k.consumers = consumers[h]
    BY <1>2, <1>7, <1>14, CallerFits
  <2>2. Fits(k, joined)
    BY <1>2, <1>7, <1>8, <1>14, CallerFits
  <2>3. Rejected(y) \/ (Budget(h) = k.spent /\ y = AfterJoin(k, u, priority[h]))
    BY <1>3, <1>4, <1>8, <1>10, <2>1, <2>2, JoinIsRead
  <2>4. CASE Rejected(y)
    <3>1. Rejected(x)
      BY <1>11, <2>4, RejectedStays DEF Rejected
    <3> QED
      BY <1>2, <1>5, <1>6, <1>12, <3>1, DemandTold
  <2>5. CASE Budget(h) = k.spent /\ y = AfterJoin(k, u, priority[h])
    <3>1. PICK all \in SUBSET Consumers : all = k.consumers \union {u} /\ all = consumers'[h]
      BY <1>5, <2>1
    <3>2. y = [k EXCEPT !.consumers = all, !.priority = priority[h]]
      BY <2>5, <3>1 DEF AfterJoin
    <3>3. /\ y \in ChainRecord /\ y.priority = priority[h]
          /\ y.limits = k.limits /\ y.terminal = k.terminal /\ y.spent = k.spent
      BY ONLY <1>4, <2>1, <3>1, <3>2 DEF ChainRecord
    <3>4. CASE ~(p > priority[h])
      <4>1. x = Redemanded(k, consumers'[h], priority'[h])
        BY <1>6, <1>11, <3>1, <3>2, <3>4 DEF Redemanded
      <4> QED
        BY <1>2, <1>5, <1>6, <1>7, <1>12, <1>14, <4>1, DemandTold
    <3>5. CASE p > priority[h]
      <4>1. Fits(y, raised)
        BY <1>8, <1>9, <2>2, <3>3 DEF Fits, Event
      <4>2. Rejected(x) \/ x = AfterRaise(y, p)
        BY <1>3, <1>9, <1>11, <3>3, <3>5, <4>1, RaiseIsRead
      <4>3. AfterRaise(y, p) = Redemanded(k, consumers'[h], priority'[h])
        <5>1. AfterRaise(y, p) = [y EXCEPT !.priority = p]
          BY DEF AfterRaise
        <5>2. [y EXCEPT !.priority = p] = [k EXCEPT !.consumers = all, !.priority = p]
          BY ONLY <2>1, <3>1, <3>2 DEF ChainRecord
        <5> QED
          BY <1>6, <3>1, <3>5, <5>1, <5>2 DEF Redemanded
      <4> QED
        BY <1>2, <1>5, <1>6, <1>7, <1>12, <1>14, <4>2, <4>3, DemandTold
    <3> QED
      BY <3>4, <3>5
  <2> QED
    BY <2>3, <2>4, <2>5
<1> QED
  BY <1>13, <1>14

\* The record of a chain that has begun, with no consumer yet.
Born(p) == NewChain(Spent(AttemptLimit, RefreshLimit),
                    Event("CHAIN_STARTED", Spent(0, 0), p, None))

\* It has the budget before it and nothing else.
LEMMA BornRecord ==
  ASSUME NEW p \in Priorities, NEW k, k = Born(p)
  PROVE  /\ k \in ChainRecord /\ k.terminal = "none" /\ k.consumers = {} /\ k.priority = p
         /\ k.limits = Spent(AttemptLimit, RefreshLimit) /\ k.spent = Spent(0, 0)
         /\ k.charges = 0 /\ k.row.ends = "none"
         /\ ~k.open /\ ~k.pending /\ ~k.permit /\ ~k.backoff /\ ~k.refreshCharged /\ ~k.failed
<1>1. PICK none \in [action: RowActions, ends: Reasons \union {"none"},
                     result: RefreshResults \union {"none"}] : none = NoRow
  BY DEF NoRow, RowActions
<1>2. none.ends = "none"
  BY <1>1 DEF NoRow
<1>3. PICK limits \in Spendings : limits = Spent(AttemptLimit, RefreshLimit)
  BY LimitAssumption DEF Spendings, Spent
<1>4. PICK spent \in Spendings : spent = Spent(0, 0)
  BY DEF Spendings, Spent
<1>5. k = [limits |-> limits, spent |-> spent, priority |-> p, terminal |-> "none",
           consumers |-> {}, open |-> FALSE, pending |-> FALSE, permit |-> FALSE,
           backoff |-> FALSE, charges |-> 0, refreshCharged |-> FALSE, failed |-> FALSE,
           atFinish |-> spent, row |-> none, broken |-> {}]
  BY <1>1, <1>3, <1>4 DEF Born, NewChain, Event
<1>6. k \in ChainRecord
  BY <1>1, <1>3, <1>4, <1>5 DEF ChainRecord
<1> QED
  BY <1>2, <1>3, <1>4, <1>5, <1>6

\* Only a chain that is not over is open in the oracle's eyes, and the registry knows it.
LEMMA NoSecondChain ==
  ASSUME ChainInv, ToldInv, NEW g \in Calls, replay[g].broken = {}, replay[g].terminal = "none"
  PROVE  active[KeyOf(g)] = g
<1>1. LogShape(g) /\ Told(g) /\ ChainShape(g) /\ state[g] \in States
  BY DEF ToldInv, ChainInv, TypeOK
<1>2. state[g] # "UNBORN"
  BY <1>1 DEF Told, NoChain
<1>3. ToldChain(g, replay[g])
  BY <1>1, <1>2 DEF Told, Rejected
<1>4. Live(g)
  BY <1>1, <1>2, <1>3 DEF ToldChain, LogShape, Live
<1> QED
  BY <1>4 DEF ChainInv, RegistryShape

\* A chain begins, and no other of its key is open.
LEMMA StartsStep ==
  ASSUME ChainInv, ToldInv, NEW c \in Calls, StartsChain(c)
  PROVE  ToldInv'
<1>1. AcquireNewChain(c) /\ state[c] = "UNBORN" /\ active[KeyOf(c)] = None
  BY DEF StartsChain, AcquireNewChain, Admits, ChainInv, CallShape
<1>2. PICK u \in Consumers, p \in Priorities :
            u = Request[c].consumer /\ p = Request[c].priority
  BY RequestType
<1>3. ~\E g \in Calls : /\ KeyOf(g) = KeyOf(c)
                        /\ replay[g].broken = {} /\ replay[g].terminal = "none"
  BY <1>1, NoSecondChain, NoneAssumption
<1>4. PICK k : k = Born(p)
  OBVIOUS
<1>born. /\ k \in ChainRecord /\ k.terminal = "none" /\ k.consumers = {} /\ k.priority = p
      /\ k.limits = Spent(AttemptLimit, RefreshLimit) /\ k.spent = Spent(0, 0)
      /\ k.charges = 0 /\ k.row.ends = "none"
      /\ ~k.open /\ ~k.pending /\ ~k.permit /\ ~k.backoff /\ ~k.refreshCharged /\ ~k.failed
  BY <1>4, BornRecord
<1>5. PICK x : x = Replay(k, Event("CONSUMER_JOINED", Spent(0, 0), p, u))
  OBVIOUS
<1>6. replay' = [replay EXCEPT ![c] = x] /\ replay'[c] = x /\ UNCHANGED <<log, waitRuns>>
  BY <1>2, <1>3, <1>4, <1>5 DEF StartsChain, Born, ToldInv, EvidenceTypes
<1>7. /\ log' \in [Calls -> LogStates] /\ waitRuns' \in [Calls -> BOOLEAN]
      /\ LogShape(c) /\ ChainShape(c)
  BY <1>6 DEF ToldInv, EvidenceTypes, ChainInv
<1>8. /\ state'[c] = "ACTIVE" /\ consumers'[c] = {u} /\ priority'[c] = p /\ at'[c] = "lazy"
      /\ UNCHANGED <<reason, result, attempts, refreshes, owner, verdict, log>>
      /\ \A g \in Calls \ {c} : replay'[g] = replay[g] => SameChain(g)
  BY <1>1, <1>2, <1>6 DEF AcquireNewChain, Drives, SameChain, ChainInv, TypeOK, endVars,
                          ledgerVars, ownerVars
<1>9. /\ log[c] = "none" /\ owner[c] = "none" /\ ~result[c] /\ reason[c] = "none"
      /\ attempts[c] = 0 /\ refreshes[c] = 0
  BY <1>1, <1>7 DEF LogShape, ChainShape
<1>10. LogShape(c)'
  BY <1>8, <1>9 DEF LogShape
<1>11. CASE Rejected(x)
  <2>1. Told(c)'
    BY <1>6, <1>8, <1>11 DEF Told
  <2> QED
    BY <1>6, <1>7, <1>8, <1>10, <2>1, WritingStep
<1>12. ASSUME x = AfterJoin(k, u, p)
       PROVE  ToldInv'
  <2>1. PICK all \in SUBSET Consumers : all = {u} /\ all = k.consumers \union {u}
    BY <1>born
  <2>2. x = [k EXCEPT !.consumers = all, !.priority = p]
    BY <1>12, <2>1 DEF AfterJoin
  <2>3. /\ x \in ChainRecord /\ x.consumers = {u} /\ x.priority = p
        /\ x.limits = k.limits /\ x.spent = k.spent /\ x.charges = k.charges
        /\ x.terminal = k.terminal /\ x.row = k.row /\ x.permit = k.permit
        /\ x.open = k.open /\ x.pending = k.pending /\ x.failed = k.failed
        /\ x.refreshCharged = k.refreshCharged /\ x.backoff = k.backoff
    BY <1>2, <1>born, <2>1, <2>2 DEF ChainRecord
  <2>4. Unwritten(c, "charge")' = 0 /\ Unwritten(c, "refresh")' = 0
    BY <1>8, <1>9 DEF Unwritten
  <2>5. attempts'[c] - 0 = 0 /\ refreshes'[c] - 0 = 0
    BY <1>8, <1>9
  <2>6. ToldChain(c, x)'
    BY <1>8, <1>9, <1>born, <2>3, <2>4, <2>5 DEF ToldChain
  <2>7. ToldOwner(c, x)' /\ ToldFailure(c, x)'
    BY <1>8, <1>9, <1>born, <2>3 DEF ToldOwner, ToldFailure, Deciding
  <2>8. Told(c)'
    BY <1>6, <1>8, <2>3, <2>6, <2>7 DEF Told
  <2> QED
    BY <1>6, <1>7, <1>8, <1>10, <2>8, WritingStep
<1>13. Fits(k, Event("CONSUMER_JOINED", Spent(0, 0), p, u)) /\ u \notin k.consumers
  BY <1>born, LimitAssumption DEF Fits, Event, Spent, Spendings
<1> QED
  BY <1>2, <1>5, <1>11, <1>12, <1>13, JoinIsRead

-------------------------------------------------------------------------------
(* The theorems *)

\* Nothing is written of a chain that has not begun.
LEMMA ToldInit ==
  EvidenceInit => ToldInv
<1> SUFFICES ASSUME EvidenceInit PROVE ToldInv
  OBVIOUS
<1>1. EvidenceTypes
  BY DEF EvidenceInit, EvidenceTypes, LogStates
<1>2. ASSUME NEW h \in Calls
      PROVE  LogShape(h) /\ Told(h)
  BY <1>2 DEF EvidenceInit, Init, LogShape, Told
<1> QED
  BY <1>1, <1>2 DEF ToldInv

\* Every step of RecoveryEvidence is one of RecoveryCoordinator, or none of its variables
\* changes.
LEMMA EvidenceSteps ==
  EvidenceNext => [Next]_vars
<1> SUFFICES ASSUME EvidenceNext PROVE [Next]_vars
  OBVIOUS
<1>1. CASE SilentShutdown
  BY <1>1 DEF SilentShutdown, Next
<1>2. ASSUME NEW h \in Calls,
             \/ StartsChain(h) \/ JoinsChain(h) \/ LeavesChain(h) \/ SilentCall(h)
      PROVE  [Next]_vars
  BY <1>2 DEF StartsChain, JoinsChain, LeavesChain, SilentCall, Next, Acquire, Handle
<1>3. ASSUME NEW h \in Calls,
             \/ EndsWithoutRow(h) \/ WritesPermit(h) \/ WritesInternalFailure(h)
             \/ WritesOwnerFinished(h)
      PROVE  [Next]_vars
  <2>1. Drive(h) \/ World(h)
    BY <1>3 DEF EndsWithoutRow, WritesPermit, WritesInternalFailure, WritesOwnerFinished,
                Drive, World, Prepare, RunOwner
  <2> QED
    BY <2>1 DEF Next
<1>4. ASSUME NEW h \in Calls,
             WritesDecision(h) \/ WritesWakeUp(h) \/ WritesRefresh(h) \/ SilentDrive(h)
      PROVE  [Next]_vars
  <2>1. Drive(h) \/ World(h)
    BY <1>4 DEF WritesDecision, WritesWakeUp, WritesRefresh, SilentDrive,
                Drive, World, Prepare, RunOwner, DecideAndAct, Wait
  <2> QED
    BY <2>1 DEF Next
<1>5. ASSUME NEW h \in Calls,
             Charges(h) \/ EndsOnceWritten(h) \/ FailsUnadmitted(h)
      PROVE  [Next]_vars
  <2>1. Drive(h) \/ World(h)
    BY <1>5 DEF Charges, EndsOnceWritten, FailsUnadmitted, Drive, World, Wait
  <2> QED
    BY <2>1 DEF Next
<1>6. ASSUME NEW h \in Calls, WritesCharge(h)
      PROVE  [Next]_vars
  BY <1>6 DEF WritesCharge
<1>7. ASSUME NEW h \in Calls, TimePasses(h)
      PROVE  [Next]_vars
  <2>1. World(h) \/ UNCHANGED vars
    BY <1>7 DEF TimePasses, World
  <2> QED
    BY <2>1 DEF Next
<1> QED
  BY <1>1, <1>2, <1>3, <1>4, <1>5, <1>6, <1>7 DEF EvidenceNext

\* One step per action of RecoveryEvidence.
LEMMA ToldStep ==
  ChainInv /\ DemandInv /\ ToldInv /\ [EvidenceNext]_<<vars, evidenceVars>> => ToldInv'
<1> SUFFICES ASSUME ChainInv, DemandInv, ToldInv, [EvidenceNext]_<<vars, evidenceVars>>
             PROVE  ToldInv'
  OBVIOUS
<1>1. ASSUME NEW h \in Calls, SilentCall(h) PROVE ToldInv'
  <2>1. UNCHANGED evidenceVars /\ waitRuns' \in [Calls -> BOOLEAN]
    BY <1>1 DEF SilentCall, Silently, evidenceVars, ToldInv, EvidenceTypes
  <2>2. CASE StartDriver(h)
    BY <2>1, <2>2, SilentDriveStep
  <2>3. CASE ~StartDriver(h)
    <3>1. \/ AcquireOnClosing(h) \/ AcquireConflicts(h) \/ AcquireReturns(h)
          \/ AwaitReturns(h) \/ ReleaseOfTerminal(h) \/ CloseHandle(h) \/ RaiseOwner(h)
      BY <1>1, <2>3 DEF SilentCall
    <3> QED
      BY <2>1, <3>1, BystanderStep DEF evidenceVars
  <2> QED
    BY <2>2, <2>3
<1>2. ASSUME NEW h \in Calls, SilentDrive(h) PROVE ToldInv'
  BY <1>2, SilentDriveStep DEF SilentDrive, Silently
<1>3. ASSUME NEW h \in Calls, EndsOnceWritten(h) \/ FailsUnadmitted(h) PROVE ToldInv'
  BY <1>3, EndOfWorkStep DEF EndsOnceWritten, FailsUnadmitted, Silently
<1>4. ASSUME NEW h \in Calls, TimePasses(h) PROVE ToldInv'
  <2>1. /\ UNCHANGED <<replay, log>> /\ waitRuns' \in [Calls -> BOOLEAN]
        /\ RetryAfterPasses(h) \/ UNCHANGED vars
    BY <1>4 DEF TimePasses, ToldInv, EvidenceTypes
  <2> QED
    BY <2>1, BystanderStep
<1>5. CASE SilentShutdown
  <2>1. UNCHANGED evidenceVars /\ waitRuns' \in [Calls -> BOOLEAN]
    BY <1>5 DEF SilentShutdown, Silently, evidenceVars, ToldInv, EvidenceTypes
  <2>2. ASSUME NEW h \in Calls, ShutdownStartsDriver(h) PROVE ToldInv'
    BY <2>1, <2>2, SilentDriveStep
  <2>3. ASSUME NEW h \in Calls, ShutdownClosesHandle(h) PROVE ToldInv'
    BY <2>1, <2>3, BystanderStep DEF evidenceVars
  <2>4. CASE BeginShutdown \/ ShutdownStops \/ ShutdownClosesBindings \/ ShutdownReturns
    BY <2>1, <2>4, BystanderStep DEF evidenceVars
  <2> QED
    BY <1>5, <2>2, <2>3, <2>4 DEF SilentShutdown, Shutdown
<1>6. CASE UNCHANGED <<vars, evidenceVars>>
  <2>1. UNCHANGED vars /\ UNCHANGED <<replay, log>> /\ waitRuns' \in [Calls -> BOOLEAN]
    BY <1>6 DEF evidenceVars, ToldInv, EvidenceTypes
  <2> QED
    BY <2>1, BystanderStep
<1>7. ASSUME NEW h \in Calls, StartsChain(h) \/ JoinsChain(h) \/ LeavesChain(h) PROVE ToldInv'
  BY <1>7, StartsStep, JoinsStep, LeavesStep
<1>8. ASSUME NEW h \in Calls,
             \/ EndsWithoutRow(h) \/ WritesPermit(h) \/ WritesInternalFailure(h)
             \/ WritesOwnerFinished(h) \/ WritesDecision(h)
      PROVE  ToldInv'
  BY <1>8, EndsWithoutRowStep, PermitStep, InternalFailureStep, OwnerFinishedStep, DecisionStep
<1>9. ASSUME NEW h \in Calls,
             WritesWakeUp(h) \/ WritesRefresh(h) \/ Charges(h) \/ WritesCharge(h)
      PROVE  ToldInv'
  BY <1>9, WakeUpStep, RefreshStep, ChargesStep, WritesChargeStep
<1> QED
  BY <1>1, <1>2, <1>3, <1>4, <1>5, <1>6, <1>7, <1>8, <1>9 DEF EvidenceNext

\* What RecoveryCoordinatorProofs proves of a coordinator holds of one that writes evidence.
LEMMA EvidenceKeepsChains ==
  EvidenceSpec => [](ChainInv /\ DemandInv)
<1>1. EvidenceInit => ChainInv /\ DemandInv
  BY TypeInit DEF EvidenceInit, Init, ChainInv, ChainShape, CallShape, RegistryShape, Live,
                  DemandInv, Aboard, NobodyDenied
<1>2. ChainInv /\ DemandInv /\ [EvidenceNext]_<<vars, evidenceVars>> => (ChainInv /\ DemandInv)'
  <2>1. [EvidenceNext]_<<vars, evidenceVars>> => [Next]_vars
    BY EvidenceSteps
  <2>2. ChainInv => TypeOK
    BY DEF ChainInv
  <2> QED
    BY <2>1, <2>2, TypeStep, ChainStep, DemandStep
<1> QED
  BY <1>1, <1>2, PTL DEF EvidenceSpec

\* The invariant: the replay of each chain's evidence is what its state says it is.
LEMMA ToldCorrect ==
  EvidenceSpec => [](ChainInv /\ ToldInv)
BY ToldInit, ToldStep, EvidenceKeepsChains, PTL DEF EvidenceSpec

\* Whatever the callers, the broker, the bindings and the provider do, the oracle
\* rejects a coordinator's evidence for the three known races only.
THEOREM OnlyKnownRaces == EvidenceSpec => []RejectsOnlyKnownRaces
<1>1. ToldInv => RejectsOnlyKnownRaces
  <2> SUFFICES ASSUME ToldInv, NEW h \in Calls
               PROVE  replay[h].broken \subseteq KnownRaces
    BY DEF RejectsOnlyKnownRaces, KnownRaces
  <2>1. Told(h)
    BY DEF ToldInv
  <2> QED
    BY <2>1 DEF Told, NoChain, Rejected, ChainRecord
<1> QED
  BY <1>1, ToldCorrect, PTL

\* Evidence that is not rejected tells the demand, the ledger, the end and the number of
\* requests of its chain, and is accepted once the chain has delivered its outcome.
THEOREM EvidenceIsTrue == EvidenceSpec => []EvidenceTellsTheTruth
<1>1. ChainInv /\ ToldInv => EvidenceTellsTheTruth
  <2> SUFFICES ASSUME ChainInv, ToldInv, NEW h \in Calls,
                      state[h] # "UNBORN", replay[h].broken = {}, Written(h)
               PROVE  /\ replay[h].spent = Budget(h)
                      /\ replay[h].charges = requests[h]
                      /\ replay[h].terminal = reason[h]
                      /\ state[h] # "TERMINAL" =>
                            replay[h].consumers = consumers[h] /\ replay[h].priority = priority[h]
                      /\ result[h] => Accepts(replay[h], requests[h])
    BY DEF EvidenceTellsTheTruth
  <2>1. PICK k : k = replay[h]
    OBVIOUS
  <2>2. ToldChain(h, k) /\ ToldOwner(h, k) /\ ToldFailure(h, k) /\ k.broken = {}
    BY <2>1 DEF ToldInv, Told, Rejected
  <2>3. /\ attempts[h] \in Nat /\ refreshes[h] \in Nat /\ requests[h] = attempts[h]
        /\ Unwritten(h, "charge") = 0 /\ Unwritten(h, "refresh") = 0
    BY LimitAssumption DEF ChainInv, TypeOK, ChainShape, Unwritten, Written
  <2>4. /\ k.spent = Budget(h) /\ k.charges = requests[h] /\ k.terminal = reason[h]
        /\ state[h] # "TERMINAL" => k.consumers = consumers[h] /\ k.priority = priority[h]
    BY <2>2, <2>3 DEF ToldChain, Budget
  <2>5. result[h] => reason[h] # "none" /\ ~k.failed /\ ~k.refreshCharged
    <3> SUFFICES ASSUME result[h] PROVE reason[h] # "none" /\ ~k.failed /\ ~k.refreshCharged
      OBVIOUS
    <3>1. LogShape(h) /\ ChainShape(h)
      BY DEF ToldInv, ChainInv
    <3>2. at[h] = "done" /\ state[h] = "TERMINAL" /\ reason[h] # "none" /\ log[h] # "refreshed"
      BY <3>1 DEF LogShape, ChainShape
    <3> QED
      BY <2>2, <3>2 DEF ToldOwner, ToldFailure, Deciding
  <2> QED
    BY <2>1, <2>2, <2>4, <2>5 DEF Accepts
<1> QED
  BY <1>1, ToldCorrect, PTL

-------------------------------------------------------------------------------
(* The tables *)

\* A response of any status, in a situation with any budget left.
AnyResponse == Responses(Int)

AnyContext == [demand: BOOLEAN, closing: BOOLEAN, remaining: Nat]

Classes == {"TRANSIENT_TRANSPORT", "TERMINAL_TRANSPORT", "PROVIDER_TRANSIENT_RESPONSE",
            "PROVIDER_RATE_LIMITED", "PROVIDER_REJECTED", "DELIVERY_BINDING_STALE",
            "RANGE_REJECTED", "CONTENT_INTEGRITY", "STORAGE_FAILURE", "PUBLICATION_CONFLICT",
            "CANCELLED", "INTERNAL", "UNKNOWN"}

OtherTypes == {"TRANSPORT_IO", "DELIVERY_DESCRIPTOR", "RANGE_PROTOCOL", "CONTENT_INTEGRITY",
               "STORAGE", "CANCELLATION", "INTERNAL"}

\* An observation that is no response.
IsOther(o) ==
    /\ o.type \in OtherTypes
    /\ o.kind \in OBSERVATION_TYPES[o.type].kinds
    /\ o.status = 0 /\ o.retryAfter = "ABSENT" /\ o.signal = "NONE" /\ o.refreshable = FALSE

\* An observation is a response or has one of the other types, with a kind of its own.
LEMMA ObservationIs ==
    ASSUME NEW o \in Observations
    PROVE  o \in AnyResponse \/ IsOther(o)
<1>1. Statuses \subseteq Int
  BY DEF Statuses
<1>2. CASE o \in Responses(Statuses)
  BY <1>1, <1>2 DEF AnyResponse, Responses
<1>3. ASSUME o \notin Responses(Statuses) PROVE IsOther(o)
  <2>1. PICK type \in DOMAIN OBSERVATION_TYPES \ {"HTTP_RESPONSE"} :
            o \in [type: {type}, kind: OBSERVATION_TYPES[type].kinds, status: {0},
                  retryAfter: {"ABSENT"}, signal: {"NONE"}, refreshable: {FALSE}]
    BY <1>3 DEF Observations
  <2>2. type \in OtherTypes
    BY DEF OBSERVATION_TYPES, OtherTypes
  <2>. QED  BY <2>1, <2>2 DEF IsOther
<1>. QED  BY <1>2, <1>3

\* The classifier's cases and the oracle's chain of tests are one function.
LEMMA ClassAgrees ==
    ASSUME NEW o, o \in Observations \/ o \in AnyResponse
    PROVE  OracleClassify(o) = Classify(o) /\ Classify(o) \in Classes
<1>1. CASE o \in AnyResponse
  BY <1>1 DEF AnyResponse, Responses, OracleClassify, Classify, ClassifyHttpStatus, Classes
<1>2. CASE o \in Observations /\ o \notin AnyResponse
  BY <1>2, ObservationIs DEF IsOther, OtherTypes, OracleClassify, Classify, Classes, OBSERVATION_TYPES
<1>. QED  BY <1>1, <1>2

\* So are the two derivations of the legacy outcome.
LEMMA LegacyAgrees ==
    ASSUME NEW o, o \in Observations \/ o \in AnyResponse
    PROVE  OracleLegacyOutcome(o) = LegacyOutcomeKind(o)
<1>1. CASE o \in AnyResponse
  BY <1>1 DEF AnyResponse, Responses, OracleLegacyOutcome, LegacyOutcomeKind
<1>2. CASE o \in Observations /\ o \notin AnyResponse
  <2>1. IsOther(o)
    BY <1>2, ObservationIs
  <2>2. CASE o.type = "TRANSPORT_IO"
    BY <2>1, <2>2 DEF OracleLegacyOutcome, LegacyOutcomeKind
  <2>3. CASE o.type \in {"DELIVERY_DESCRIPTOR", "RANGE_PROTOCOL", "CONTENT_INTEGRITY", "INTERNAL"}
    BY <2>3 DEF OracleLegacyOutcome, LegacyOutcomeKind
  <2>4. CASE o.type = "STORAGE"
    <3>1. o.kind \in {"NO_SPACE", "IO", "CONFLICT"}
      BY <2>1, <2>4 DEF IsOther, OBSERVATION_TYPES
    <3>. QED  BY <2>4, <3>1 DEF OracleLegacyOutcome, LegacyOutcomeKind
  <2>5. CASE o.type = "CANCELLATION"
    <3>1. o.kind \in {"NO_CONSUMERS", "SESSION_SHUTDOWN"}
      BY <2>1, <2>5 DEF IsOther, OBSERVATION_TYPES
    <3>. QED  BY <2>5, <3>1 DEF OracleLegacyOutcome, LegacyOutcomeKind
  <2>. QED  BY <2>1, <2>2, <2>3, <2>4, <2>5 DEF IsOther, OtherTypes
<1>. QED  BY <1>1, <1>2

Decisions == {"COMPLETE_SESSION", "COMPLETE_NO_DEMAND", "RETRY_AFTER_BACKOFF", "FAIL_TERMINAL",
    "WAIT_UNTIL_PROVIDER", "REFRESH_DELIVERY_BINDING", "RECONCILE_LOCAL_COVERAGE", "CONTINUE_FOR_DEMAND"}

\* RecoveryPolicy.decide() and the oracle's decision table, for any class.
LEMMA DecisionAgrees ==
    ASSUME NEW o, NEW context \in AnyContext, NEW class \in Classes
    PROVE  OracleDecide(class, o, context) = Decide(class, o, context) /\ Decide(class, o, context) \in Decisions
BY DEF OracleDecide, Decide, IfDemanded, DecideRateLimited, AnyContext, Classes, Decisions

\* The fields of an observation.
LEMMA Observed ==
    ASSUME NEW o, o \in Observations \/ o \in AnyResponse
    PROVE  o.retryAfter \in RawKinds /\ o.refreshable \in BOOLEAN
           /\ (o.type # "HTTP_RESPONSE" => ~o.refreshable)
<1>1. CASE o \in AnyResponse
  BY <1>1 DEF AnyResponse, Responses
<1>2. CASE o \in Observations /\ o \notin AnyResponse
  BY <1>2, ObservationIs DEF IsOther, OtherTypes, RawKinds
<1>. QED  BY <1>1, <1>2

\* actionFor() and the oracle's expected action, for any decision.
LEMMA ActionAgrees ==
    ASSUME NEW o, o \in Observations \/ o \in AnyResponse, NEW context \in AnyContext,
           NEW decision \in Decisions
    PROVE  OracleAction(decision, o, context) = ActionFor(decision, o, context)
<1>1. context.remaining \in Nat
  BY DEF AnyContext
<1>2. CASE decision \in {"COMPLETE_SESSION", "COMPLETE_NO_DEMAND", "FAIL_TERMINAL", "RECONCILE_LOCAL_COVERAGE"}
  BY <1>2 DEF OracleAction, ActionFor
<1>3. CASE decision \in {"RETRY_AFTER_BACKOFF", "CONTINUE_FOR_DEMAND", "WAIT_UNTIL_PROVIDER",
                        "REFRESH_DELIVERY_BINDING"} /\ context.remaining = 0
  BY <1>3 DEF OracleAction, ActionFor
<1>4. CASE decision \in {"RETRY_AFTER_BACKOFF", "CONTINUE_FOR_DEMAND"} /\ context.remaining > 0
  BY <1>1, <1>4 DEF OracleAction, ActionFor
<1>5. CASE decision = "WAIT_UNTIL_PROVIDER" /\ context.remaining > 0
  <2>1. CASE o.retryAfter \in {"DELAY_SECONDS", "HTTP_DATE"}
    BY <1>1, <1>5, <2>1 DEF OracleAction, ActionFor
  <2>2. CASE o.retryAfter \notin {"DELAY_SECONDS", "HTTP_DATE"}
    BY <1>1, <1>5, <2>2 DEF OracleAction, ActionFor
  <2>. QED  BY <2>1, <2>2
<1>6. CASE decision = "REFRESH_DELIVERY_BINDING" /\ context.remaining > 0
  BY <1>1, <1>6, Observed DEF OracleAction, ActionFor
<1>. QED  BY <1>1, <1>2, <1>3, <1>4, <1>5, <1>6 DEF Decisions

\* What an action that is no refresh makes of the chain.
LEMMA TerminalAgrees ==
    ASSUME NEW action
    PROVE  OracleTerminal(action, "none") = AppliedTerminal(action)
BY DEF OracleTerminal, AppliedTerminal, TERMINAL_OF_ACTION

\* The frozen anchors of m2_contracts.py hold of whatever the runtime decides.
LEMMA AnchorsHold ==
    ASSUME NEW o, o \in Observations \/ o \in AnyResponse, NEW context \in AnyContext
    PROVE  FrozenAnchorsHold(o, Classify(o), Decide(Classify(o), o, context))
<1>1. CASE o \in AnyResponse
  <2>1. /\ o.type = "HTTP_RESPONSE" /\ o.status \in Int
        /\ Classify(o) = ClassifyHttpStatus(o.status, o.signal)
    BY <1>1 DEF AnyResponse, Responses, Classify
  <2>2. CASE o.status = 429
    BY <2>1, <2>2 DEF FrozenAnchorsHold, AnchorHolds, ClassifyHttpStatus
  <2>3. CASE o.status = 403 /\ o.signal # "BINDING_STALE_CONFIRMED"
    <3>1. Classify(o) = "PROVIDER_REJECTED"
      BY <2>1, <2>3 DEF ClassifyHttpStatus
    <3>2. Decide(Classify(o), o, context) \in {"COMPLETE_SESSION", "FAIL_TERMINAL"}
      BY <3>1 DEF Decide
    <3>. QED  BY <2>1, <2>3, <3>1, <3>2 DEF FrozenAnchorsHold, AnchorHolds
  <2>4. CASE ~(o.status = 429) /\ ~(o.status = 403 /\ o.signal # "BINDING_STALE_CONFIRMED")
    BY <2>1, <2>4 DEF FrozenAnchorsHold, AnchorHolds, ClassifyHttpStatus
  <2>. QED  BY <2>2, <2>3, <2>4
<1>2. CASE o \in Observations /\ o \notin AnyResponse
  <2>1. IsOther(o)
    BY <1>2, ObservationIs
  <2>2. CASE o.type = "STORAGE" /\ o.kind # "CONFLICT"
    <3>1. Classify(o) = "STORAGE_FAILURE"
      BY <2>2 DEF Classify
    <3>2. Decide(Classify(o), o, context) \in {"COMPLETE_SESSION", "FAIL_TERMINAL"}
      BY <3>1 DEF Decide
    <3>. QED  BY <2>2, <3>1, <3>2 DEF FrozenAnchorsHold, AnchorHolds
  <2>3. CASE o.type = "TRANSPORT_IO"
    <3>1. Classify(o) \in {"TERMINAL_TRANSPORT", "TRANSIENT_TRANSPORT"}
      BY <2>3 DEF Classify
    <3>. QED  BY <2>3, <3>1 DEF FrozenAnchorsHold, AnchorHolds
  <2>. QED  BY <2>1, <2>2, <2>3 DEF IsOther, OtherTypes, FrozenAnchorsHold, Anchored
<1>. QED  BY <1>1, <1>2

\* For every status a response can have, every budget left and every situation of the
\* chain, the runtime's tables and the oracle's derive the same classification, decision
\* and action, and the anchors hold of them.
THEOREM TablesAgreeEverywhere ==
    ASSUME NEW o, o \in Observations \/ o \in AnyResponse, NEW context \in AnyContext
    PROVE  TablesAgreeOn(o, context)
BY ClassAgrees, LegacyAgrees, DecisionAgrees, ActionAgrees, TerminalAgrees, AnchorsHold DEF TablesAgreeOn

\* The end of RecoveryCoordinator's for a verdict, in a context.
EndFor(v, context) ==
    IF context.closing THEN "SESSION_TERMINATION"
    ELSE IF v = "REJECTED" THEN "TERMINAL_FAILURE"
    ELSE IF v = "CONFLICT" THEN "none"
    ELSE IF ~context.demand THEN "NO_REMAINING_DEMAND"
    ELSE IF context.remaining = 0 THEN "BUDGET_EXHAUSTED"
    ELSE IF v = "UNACTIONABLE" THEN "TERMINAL_FAILURE"
    ELSE "none"

\* The tables end a chain as its verdict says, whatever was observed that has it.
LEMMA VerdictIsApplied ==
    ASSUME NEW o, o \in Observations \/ o \in AnyResponse, NEW context \in AnyContext,
           o.kind = "SESSION_SHUTDOWN" => context.closing
    PROVE  AppliedTerminal(ActionOf(o, context)) = EndFor(VerdictOf(o), context)
<1> DEFINE class == Classify(o)
           decision == Decide(class, o, context)
           action == ActionFor(decision, o, context)
<1>1. class \in Classes /\ context.remaining \in Nat
  BY ClassAgrees DEF AnyContext
<1>2. CASE context.closing
  <2>1. decision = "COMPLETE_SESSION"
    BY <1>2 DEF Decide, ShutDown
  <2>2. action = "TERMINATE_SESSION"
    BY <2>1 DEF ActionFor
  <2>. QED  BY <1>2, <2>2 DEF ActionOf, AppliedTerminal, EndFor
<1>3. CASE ~context.closing
  <2>1. ~ShutDown(o, context)
    BY <1>3 DEF ShutDown
  <2>2. CASE class \in {"TERMINAL_TRANSPORT", "PROVIDER_REJECTED", "RANGE_REJECTED", "CONTENT_INTEGRITY",
                        "STORAGE_FAILURE", "INTERNAL", "UNKNOWN"}
    <3>1. decision = "FAIL_TERMINAL" /\ VerdictOf(o) = "REJECTED"
      BY <2>1, <2>2 DEF Decide, VerdictOf
    <3>2. action = "TERMINATE_FAILURE"
      BY <3>1 DEF ActionFor
    <3>. QED  BY <1>3, <3>1, <3>2 DEF ActionOf, AppliedTerminal, EndFor
  <2>3. CASE class = "PUBLICATION_CONFLICT"
    <3>1. decision = "RECONCILE_LOCAL_COVERAGE" /\ VerdictOf(o) = "CONFLICT"
      BY <2>1, <2>3 DEF Decide, VerdictOf
    <3>2. action = "RECONCILE"
      BY <3>1 DEF ActionFor
    <3>. QED  BY <1>3, <3>1, <3>2 DEF ActionOf, AppliedTerminal, EndFor
  <2>4. CASE class \in {"TRANSIENT_TRANSPORT", "PROVIDER_TRANSIENT_RESPONSE", "PROVIDER_RATE_LIMITED",
                        "DELIVERY_BINDING_STALE", "CANCELLED"}
    <3>1. VerdictOf(o) \notin {"REJECTED", "CONFLICT"}
      BY <2>4 DEF VerdictOf
    <3>2. CASE ~context.demand
      <4>1. decision = "COMPLETE_NO_DEMAND"
        BY <2>1, <2>4, <3>2 DEF Decide, IfDemanded, DecideRateLimited
      <4>2. action = "TERMINATE_NO_DEMAND"
        BY <4>1 DEF ActionFor
      <4>. QED  BY <1>3, <3>1, <3>2, <4>2 DEF ActionOf, AppliedTerminal, EndFor
    <3>3. CASE context.demand /\ context.remaining = 0
      <4>1. decision \in {"RETRY_AFTER_BACKOFF", "CONTINUE_FOR_DEMAND", "WAIT_UNTIL_PROVIDER",
                          "REFRESH_DELIVERY_BINDING"}
        BY <2>1, <2>4, <3>3 DEF Decide, IfDemanded, DecideRateLimited
      <4>2. action = "TERMINATE_BUDGET_EXHAUSTED"
        BY <3>3, <4>1 DEF ActionFor
      <4>. QED  BY <1>3, <3>1, <3>3, <4>2 DEF ActionOf, AppliedTerminal, EndFor
    <3>4. CASE context.demand /\ context.remaining > 0
      <4>1. EndFor(VerdictOf(o), context) = (IF VerdictOf(o) = "UNACTIONABLE" THEN "TERMINAL_FAILURE" ELSE "none")
        BY <1>1, <1>3, <3>1, <3>4 DEF EndFor
      <4>2. CASE class \in {"TRANSIENT_TRANSPORT", "PROVIDER_TRANSIENT_RESPONSE"}
        <5>1. decision = "RETRY_AFTER_BACKOFF" /\ VerdictOf(o) = "TRANSIENT"
          BY <2>1, <3>4, <4>2 DEF Decide, IfDemanded, VerdictOf
        <5>2. action = "SCHEDULE_BACKOFF"
          BY <1>1, <3>4, <5>1 DEF ActionFor
        <5>. QED  BY <4>1, <5>1, <5>2 DEF ActionOf, AppliedTerminal
      <4>3. CASE class = "CANCELLED"
        <5>1. decision = "CONTINUE_FOR_DEMAND" /\ VerdictOf(o) = "CANCELLED"
          BY <2>1, <3>4, <4>3 DEF Decide, IfDemanded, VerdictOf
        <5>2. action = "START_NEXT_OWNER"
          BY <1>1, <3>4, <5>1 DEF ActionFor
        <5>. QED  BY <4>1, <5>1, <5>2 DEF ActionOf, AppliedTerminal
      <4>4. CASE class = "PROVIDER_RATE_LIMITED" /\ o.retryAfter \in {"DELAY_SECONDS", "HTTP_DATE"}
        <5>1. decision = "WAIT_UNTIL_PROVIDER" /\ VerdictOf(o) = "THROTTLED"
          BY <2>1, <3>4, <4>4 DEF Decide, IfDemanded, DecideRateLimited, VerdictOf
        <5>2. action = "WAIT_PROVIDER"
          BY <1>1, <3>4, <4>4, <5>1 DEF ActionFor
        <5>. QED  BY <4>1, <5>1, <5>2 DEF ActionOf, AppliedTerminal
      <4>5. CASE class = "PROVIDER_RATE_LIMITED" /\ o.retryAfter \notin {"DELAY_SECONDS", "HTTP_DATE"}
        <5>1. o.retryAfter \in {"ABSENT", "MALFORMED"}
          BY <4>5, Observed DEF RawKinds
        <5>2. decision = "FAIL_TERMINAL" /\ VerdictOf(o) = "UNACTIONABLE"
          BY <2>1, <3>4, <4>5, <5>1 DEF Decide, IfDemanded, DecideRateLimited, VerdictOf
        <5>3. action = "TERMINATE_FAILURE"
          BY <5>2 DEF ActionFor
        <5>. QED  BY <4>1, <5>2, <5>3 DEF ActionOf, AppliedTerminal
      <4>6. CASE class = "DELIVERY_BINDING_STALE" /\ o.refreshable
        <5>1. decision = "REFRESH_DELIVERY_BINDING" /\ VerdictOf(o) = "STALE"
          BY <2>1, <3>4, <4>6 DEF Decide, IfDemanded, VerdictOf
        <5>2. o.type = "HTTP_RESPONSE"
          BY <4>6, Observed
        <5>3. action = "REFRESH_DELIVERY_BINDING"
          BY <1>1, <3>4, <4>6, <5>1, <5>2 DEF ActionFor
        <5>. QED  BY <4>1, <5>1, <5>3 DEF ActionOf, AppliedTerminal
      <4>7. CASE class = "DELIVERY_BINDING_STALE" /\ ~o.refreshable
        <5>1. decision = "REFRESH_DELIVERY_BINDING" /\ VerdictOf(o) = "UNACTIONABLE"
          BY <2>1, <3>4, <4>7 DEF Decide, IfDemanded, VerdictOf
        <5>2. action = "FAIL_CLOSED_ACTION_UNAVAILABLE"
          BY <1>1, <3>4, <4>7, <5>1 DEF ActionFor
        <5>. QED  BY <4>1, <5>1, <5>2 DEF ActionOf, AppliedTerminal
      <4>. QED  BY <2>4, <4>2, <4>3, <4>4, <4>5, <4>6, <4>7
    <3>. QED  BY <1>1, <3>2, <3>3, <3>4
  <2>. QED  BY <1>1, <2>2, <2>3, <2>4 DEF Classes
<1>. QED  BY <1>2, <1>3

\* Each verdict but a success has an observation the broker can make at any time.
LEMMA EveryVerdictObserved ==
    ASSUME NEW v \in Verdicts \ {"SUCCESS"}
    PROVE  \E o \in Observations : VerdictOf(o) = v /\ o.kind # "SESSION_SHUTDOWN"
<1> DEFINE Response(status, raw, signal, refreshable) ==
              Observation("HTTP_RESPONSE", "HTTP_STATUS", status, raw, signal, refreshable)
           Other(type, kind) == Observation(type, kind, 0, "ABSENT", "NONE", FALSE)
<1>1. ASSUME NEW type \in DOMAIN OBSERVATION_TYPES \ {"HTTP_RESPONSE"},
             NEW kind \in OBSERVATION_TYPES[type].kinds, kind # "SESSION_SHUTDOWN"
      PROVE  Other(type, kind) \in Observations /\ Other(type, kind).kind # "SESSION_SHUTDOWN"
  BY <1>1 DEF Observation, Observations
<1>3. CASE v = "TRANSIENT"
  <2>1. Other("TRANSPORT_IO", "IO") \in Observations /\ Other("TRANSPORT_IO", "IO").kind # "SESSION_SHUTDOWN"
    BY <1>1 DEF OBSERVATION_TYPES
  <2>2. VerdictOf(Other("TRANSPORT_IO", "IO")) = v
    BY <1>3 DEF VerdictOf, Classify, Observation
  <2>. QED  BY <2>1, <2>2
<1>4. CASE v = "CONFLICT"
  <2>1. Other("STORAGE", "CONFLICT") \in Observations /\ Other("STORAGE", "CONFLICT").kind # "SESSION_SHUTDOWN"
    BY <1>1 DEF OBSERVATION_TYPES
  <2>2. VerdictOf(Other("STORAGE", "CONFLICT")) = v
    BY <1>4 DEF VerdictOf, Classify, Observation
  <2>. QED  BY <2>1, <2>2
<1>5. CASE v = "CANCELLED"
  <2>1. /\ Other("CANCELLATION", "NO_CONSUMERS") \in Observations
        /\ Other("CANCELLATION", "NO_CONSUMERS").kind # "SESSION_SHUTDOWN"
    BY <1>1 DEF OBSERVATION_TYPES
  <2>2. VerdictOf(Other("CANCELLATION", "NO_CONSUMERS")) = v
    BY <1>5 DEF VerdictOf, Classify, Observation
  <2>. QED  BY <2>1, <2>2
<1>6. CASE v = "REJECTED"
  <2>1. Other("STORAGE", "IO") \in Observations /\ Other("STORAGE", "IO").kind # "SESSION_SHUTDOWN"
    BY <1>1 DEF OBSERVATION_TYPES
  <2>2. VerdictOf(Other("STORAGE", "IO")) = v
    BY <1>6 DEF VerdictOf, Classify, Observation
  <2>. QED  BY <2>1, <2>2
<1>7. CASE v \in {"THROTTLED", "UNACTIONABLE"}
  <2>6. PICK raw : raw = IF v = "THROTTLED" THEN "HTTP_DATE" ELSE "ABSENT"
    OBVIOUS
  <2>0. PICK o : o = Response(429, raw, "NONE", FALSE)
    OBVIOUS
  <2>1. 429 \in Statuses /\ raw \in RawKinds /\ "NONE" \in Signals
    BY <2>6 DEF Statuses, RawKinds, Signals
  <2>2. o \in Observations /\ o.kind # "SESSION_SHUTDOWN"
    <3>1. /\ Response(429, raw, "NONE", FALSE) \in Observations
          /\ Response(429, raw, "NONE", FALSE).kind # "SESSION_SHUTDOWN"
      BY <2>1 DEF Observation, Observations, Responses
    <3>. QED  BY <2>0, <3>1
  <2>3. o.type = "HTTP_RESPONSE" /\ o.status = 429 /\ o.retryAfter = raw
    BY <2>0 DEF Observation
  <2>4. Classify(o) = "PROVIDER_RATE_LIMITED"
    BY <2>3 DEF Classify, ClassifyHttpStatus
  <2>5. VerdictOf(o) = v
    BY <1>7, <2>3, <2>4, <2>6 DEF VerdictOf
  <2>. QED  BY <2>2, <2>5
<1>8. CASE v = "STALE"
  <2>0. PICK o : o = Response(403, "ABSENT", "BINDING_STALE_CONFIRMED", TRUE)
    OBVIOUS
  <2>1. 403 \in Statuses /\ "ABSENT" \in RawKinds /\ "BINDING_STALE_CONFIRMED" \in Signals
    BY DEF Statuses, RawKinds, Signals
  <2>2. o \in Observations /\ o.kind # "SESSION_SHUTDOWN"
    <3>1. /\ Response(403, "ABSENT", "BINDING_STALE_CONFIRMED", TRUE) \in Observations
          /\ Response(403, "ABSENT", "BINDING_STALE_CONFIRMED", TRUE).kind # "SESSION_SHUTDOWN"
      BY <2>1 DEF Observation, Observations, Responses
    <3>. QED  BY <2>0, <3>1
  <2>3. o.type = "HTTP_RESPONSE" /\ o.status = 403 /\ o.signal = "BINDING_STALE_CONFIRMED" /\ o.refreshable
    BY <2>0 DEF Observation
  <2>4. Classify(o) = "DELIVERY_BINDING_STALE"
    BY <2>3 DEF Classify, ClassifyHttpStatus
  <2>5. VerdictOf(o) = v
    BY <1>8, <2>3, <2>4 DEF VerdictOf
  <2>. QED  BY <2>2, <2>5
<1>. QED  BY <1>3, <1>4, <1>5, <1>6, <1>7, <1>8 DEF Verdicts

\* So the ends the tables derive for a verdict are one, and the coordinator's.
LEMMA EndsDerived ==
    ASSUME NEW v \in Verdicts \ {"SUCCESS"}, NEW context \in Contexts
    PROVE  DerivedEnds[<<v, context>>] = {EndFor(v, context)}
<1> DEFINE seen == {o \in Observations : VerdictOf(o) = v /\ (o.kind = "SESSION_SHUTDOWN" => context.closing)}
<1>1. context \in AnyContext
  BY DEF Contexts, AnyContext
<1>2. \A o \in seen : TablesAgreeOn(o, context)
  BY <1>1, TablesAgreeEverywhere
<1>3. \A o \in seen : AppliedTerminal(ActionOf(o, context)) = EndFor(v, context)
  BY <1>1, VerdictIsApplied
<1>4. seen # {}
  BY EveryVerdictObserved
<1>5. DerivedEnds[<<v, context>>] =
        IF \A o \in seen : TablesAgreeOn(o, context)
        THEN {AppliedTerminal(ActionOf(o, context)) : o \in seen}
        ELSE {"disagreement"}
  BY DEF DerivedEnds
<1> HIDE DEF seen
<1>6. {AppliedTerminal(ActionOf(o, context)) : o \in seen} = {EndFor(v, context)}
  BY <1>3, <1>4
<1>. QED  BY <1>2, <1>5, <1>6

-------------------------------------------------------------------------------
(* The arithmetic *)

\* What holds of 0, and of n + 1 whenever it holds of n, holds of every number.
LEMMA Induction ==
    ASSUME NEW S, 0 \in S, \A n \in Nat : n \in S => n + 1 \in S
    PROVE  Nat \subseteq S
<1> SUFFICES ASSUME Nat \ S # {} PROVE FALSE
  OBVIOUS
<1> DEFINE Less == OpToRel(<, Nat)
<1>1. \A x, y \in Nat : x < y => <<x, y>> \in Less
  BY DEF OpToRel
<1>2. IsWellFoundedOn(Less, Nat)
  BY NatLessThanWellFounded
<1> HIDE DEF Less
<1>3. PICK x \in Nat \ S : \A y \in Nat \ S : <<y, x>> \notin Less
  <2>1. Nat \ S \subseteq Nat
    OBVIOUS
  <2>. QED  BY <1>2, <2>1, WFMin
<1>4. x # 0 /\ x - 1 \in Nat /\ x - 1 < x /\ x - 1 + 1 = x
  BY <1>3
<1>5. x - 1 \in S
  BY <1>1, <1>3, <1>4
<1>. QED  BY <1>3, <1>4, <1>5

\* f is what m steps make of the first value.
IsRun(f, S, step, first, m) ==
    f \in [0 .. m -> S] /\ f[0] = first /\ \A i \in 1 .. m : f[i] = step[f[i - 1]]

\* From a first value a step may be taken any number of times.
LEMMA Iterated ==
    ASSUME NEW S, NEW step \in [S -> S], NEW first \in S, NEW m \in Nat
    PROVE  \E f : IsRun(f, S, step, first, m)
<1> DEFINE N == {n \in Nat : \E f : IsRun(f, S, step, first, n)}
<1>1. 0 \in N
  <2>1. IsRun([i \in 0 .. 0 |-> first], S, step, first, 0)
    BY DEF IsRun
  <2>. QED  BY <2>1
<1>2. ASSUME NEW n \in Nat, n \in N PROVE n + 1 \in N
  <2>1. PICK f : IsRun(f, S, step, first, n)
    BY <1>2
  <2>2. PICK g : g = [i \in 0 .. n + 1 |-> IF i = n + 1 THEN step[f[n]] ELSE f[i]]
    OBVIOUS
  <2>3. g \in [0 .. n + 1 -> S]
    BY <2>1, <2>2 DEF IsRun
  <2>4. ASSUME NEW i \in 1 .. n + 1 PROVE g[i] = step[g[i - 1]]
    <3>1. i - 1 \in 0 .. n /\ g[i - 1] = f[i - 1]
      BY <2>2
    <3>2. CASE i = n + 1
      BY <2>2, <3>1, <3>2
    <3>3. CASE i # n + 1
      <4>1. i \in 1 .. n /\ g[i] = f[i]
        BY <2>2, <3>3
      <4>. QED  BY <2>1, <3>1, <4>1 DEF IsRun
    <3>. QED  BY <3>2, <3>3
  <2>5. g[0] = first
    BY <2>1, <2>2 DEF IsRun
  <2>. QED  BY <2>3, <2>4, <2>5 DEF IsRun
<1> HIDE DEF N
<1>3. Nat \subseteq N
  BY <1>1, <1>2, Induction
<1>. QED  BY <1>3 DEF N

\* 2 ** n, by its recursion.
LEMMA PowersOfTwo ==
    ASSUME NEW n \in Nat
    PROVE  \E f : f = [i \in 0 .. n |-> IF i = 0 THEN 1 ELSE 2 * f[i - 1]]
<1>1. PICK step : step = [x \in Nat |-> 2 * x]
  OBVIOUS
<1>2. step \in [Nat -> Nat] /\ 1 \in Nat /\ n \in Nat
  BY <1>1
<1>3. PICK f : IsRun(f, Nat, step, 1, n)
  BY <1>2, Iterated
<1>4. ASSUME NEW i \in 0 .. n
      PROVE  f[i] = IF i = 0 THEN 1 ELSE 2 * f[i - 1]
  <2>1. CASE i = 0
    BY <1>3, <2>1 DEF IsRun
  <2>2. CASE i # 0
    <3>1. i \in 1 .. n /\ i - 1 \in 0 .. n
      BY <2>2
    <3>2. f[i - 1] \in Nat /\ f[i] = step[f[i - 1]]
      BY <1>3, <3>1 DEF IsRun
    <3>. QED  BY <1>1, <2>2, <3>2
  <2>. QED  BY <2>1, <2>2
<1>5. f = [i \in 0 .. n |-> IF i = 0 THEN 1 ELSE 2 * f[i - 1]]
  BY <1>3, <1>4 DEF IsRun
<1>. QED  BY <1>5

\* windowMs(), by its loop.
LEMMA Windows ==
    ASSUME NEW base \in Nat, NEW cap \in Nat, NEW n \in Nat \ {0}
    PROVE  \E f : f = [i \in 1 .. n |->
                        IF i = 1 THEN base
                        ELSE IF f[i - 1] >= cap \/ f[i - 1] > cap \div 2 THEN cap
                        ELSE f[i - 1] * 2]
<1>1. PICK step : step = [x \in Nat |-> IF x >= cap \/ x > cap \div 2 THEN cap ELSE x * 2]
  OBVIOUS
<1>2. step \in [Nat -> Nat] /\ n \in Nat
  BY <1>1
<1>3. PICK f : IsRun(f, Nat, step, base, n)
  BY <1>2, Iterated
<1>4. PICK g : g = [i \in 1 .. n |-> f[i - 1]]
  OBVIOUS
<1>5. ASSUME NEW i \in 1 .. n
      PROVE  g[i] = (IF i = 1 THEN base
                     ELSE IF g[i - 1] >= cap \/ g[i - 1] > cap \div 2 THEN cap
                     ELSE g[i - 1] * 2)
  <2>1. CASE i = 1
    BY <1>3, <1>4, <2>1 DEF IsRun
  <2>2. CASE i # 1
    <3>1. PICK j : j = i - 1 /\ j \in 1 .. n /\ j - 1 \in 0 .. n
      BY <2>2
    <3>2. g[i] = f[j] /\ g[j] = f[j - 1]
      BY <1>4, <3>1
    <3>3. f[j - 1] \in Nat /\ f[j] = step[f[j - 1]]
      BY <1>3, <3>1 DEF IsRun
    <3>. QED  BY <1>1, <2>2, <3>1, <3>2, <3>3
  <2>. QED  BY <2>1, <2>2
<1>6. g = [i \in 1 .. n |-> IF i = 1 THEN base
                            ELSE IF g[i - 1] >= cap \/ g[i - 1] > cap \div 2 THEN cap
                            ELSE g[i - 1] * 2]
  BY <1>4, <1>5
<1>. QED  BY <1>6

\* Doubling before the cap and capping after it are the same.
LEMMA WindowDoubles ==
    ASSUME NEW cap \in Nat, NEW b \in Nat, NEW w \in Nat, w = (IF b < cap THEN b ELSE cap)
    PROVE  (IF w >= cap \/ w > cap \div 2 THEN cap ELSE w * 2) = (IF 2 * b < cap THEN 2 * b ELSE cap)
OBVIOUS

\* The window of the oracle doubles with its power of two.
LEMMA Product ==
    ASSUME NEW a \in Nat, NEW b \in Nat
    PROVE  a * b \in Nat /\ a * (2 * b) = 2 * (a * b)
OBVIOUS

\* RecoveryBackoff.windowMs(), which stops doubling at the cap, is the oracle's power of
\* two cut off at the cap, for every base, cap and ordinal.
THEOREM WindowsAgree ==
    ASSUME NEW base \in Nat, NEW cap \in Nat, base <= cap, NEW ordinal \in Nat \ {0}
    PROVE  WindowMs(base, cap, ordinal) = OracleWindowMs(base, cap, ordinal)
<1> DEFINE Window(f) == f = [i \in 1 .. ordinal |-> IF i = 1 THEN base
                                      ELSE IF f[i - 1] >= cap \/ f[i - 1] > cap \div 2 THEN cap
                                      ELSE f[i - 1] * 2]
           Power(f) == f = [i \in 0 .. ordinal - 1 |-> IF i = 0 THEN 1 ELSE 2 * f[i - 1]]
           u == CHOOSE f : Window(f)
           v == CHOOSE f : Power(f)
           Least(x) == IF x < cap THEN x ELSE cap
<1>1. ordinal - 1 \in Nat
  OBVIOUS
<1>2. Window(u)
  <2>1. \E f : Window(f)
    BY Windows
  <2>. QED  BY <2>1
<1>3. Power(v)
  <2>1. \E f : Power(f)
    BY <1>1, PowersOfTwo
  <2>. QED  BY <2>1
<1>4. WindowMs(base, cap, ordinal) = Least(u[ordinal])
  BY DEF WindowMs
<1>5. OracleWindowMs(base, cap, ordinal) = Min({cap, base * v[ordinal - 1]})
  BY DEF OracleWindowMs
<1>6. PICK w : w = u /\ Window(w)
  BY <1>2
<1>7. PICK p : p = v /\ Power(p)
  BY <1>3
<1> HIDE DEF u, v
<1>8. \A i \in 1 .. ordinal : w[i] = (IF i = 1 THEN base
                                      ELSE IF w[i - 1] >= cap \/ w[i - 1] > cap \div 2 THEN cap
                                      ELSE w[i - 1] * 2)
  BY ONLY <1>6
<1>9. \A i \in 0 .. ordinal - 1 : p[i] = IF i = 0 THEN 1 ELSE 2 * p[i - 1]
  BY ONLY <1>7
<1> DEFINE N == {k \in Nat : k < ordinal => p[k] \in Nat /\ w[k + 1] = Least(base * p[k])}
<1>10. 0 \in N
  <2>1. p[0] = 1 /\ w[0 + 1] = base
    BY <1>1, <1>8, <1>9
  <2>. QED  BY <2>1
<1>11. ASSUME NEW k \in Nat, k \in N PROVE k + 1 \in N
  <2> SUFFICES ASSUME k + 1 < ordinal PROVE p[k + 1] \in Nat /\ w[k + 1 + 1] = Least(base * p[k + 1])
    OBVIOUS
  <2>1. p[k] \in Nat /\ w[k + 1] = Least(base * p[k])
    BY <1>11
  <2>2. k + 1 \in 0 .. ordinal - 1 /\ k + 1 # 0 /\ k + 1 - 1 = k
    OBVIOUS
  <2>3. k + 1 + 1 \in 1 .. ordinal /\ k + 1 + 1 # 1 /\ k + 1 + 1 - 1 = k + 1
    OBVIOUS
  <2>4. p[k + 1] = 2 * p[k]
    BY <1>9, <2>2
  <2>5. w[k + 1 + 1] = IF w[k + 1] >= cap \/ w[k + 1] > cap \div 2 THEN cap ELSE w[k + 1] * 2
    BY <1>8, <2>3
  <2>6. base * p[k] \in Nat /\ base * p[k + 1] = 2 * (base * p[k])
    BY <2>1, <2>4, Product
  <2>7. w[k + 1] \in Nat
    BY <2>1, <2>6
  <2>8. w[k + 1 + 1] = Least(2 * (base * p[k]))
    BY <2>1, <2>5, <2>6, <2>7, WindowDoubles
  <2>. QED  BY <2>1, <2>4, <2>6, <2>8
<1> HIDE DEF N
<1>12. Nat \subseteq N
  BY <1>10, <1>11, Induction
<1>13. p[ordinal - 1] \in Nat /\ w[ordinal] = Least(base * p[ordinal - 1])
  <2>1. ordinal - 1 \in N /\ ordinal - 1 + 1 = ordinal /\ ordinal - 1 < ordinal
    BY <1>1, <1>12
  <2>. QED  BY <2>1 DEF N
<1>14. PICK x \in Nat : x = base * p[ordinal - 1]
  BY <1>13, Product
<1>15. Min({cap, x}) = Least(x)
  BY DEF Min
<1>16. Least(Least(x)) = Least(x)
  OBVIOUS
<1>17. WindowMs(base, cap, ordinal) = Least(x)
  BY <1>4, <1>6, <1>13, <1>14, <1>16
<1>18. OracleWindowMs(base, cap, ordinal) = Least(x)
  BY <1>5, <1>7, <1>14, <1>15
<1>. QED  BY <1>17, <1>18

\* A Retry-After that has passed asks for no wait, on both sides.
LEMMA WaitsAgree ==
    ASSUME NEW raw \in RawKinds, NEW value \in Int, NEW now \in Int
    PROVE  WaitMs(raw, value, now) = OracleWaitMs(raw, value, now)
<1>1. PICK x \in Int : x = value - now
  OBVIOUS
<1>2. Max({0, x}) = IF value <= now THEN 0 ELSE x
  BY <1>1 DEF Max
<1>. QED  BY <1>1, <1>2 DEF WaitMs, OracleWaitMs, RawKinds

\* A reconciliation's result leads to one action.
LEMMA ReconciledAgrees ==
    ASSUME NEW r \in LocalReconciliations
    PROVE  OracleReconciled[r] = ReconciledAction(r)
BY DEF LocalReconciliations, OracleReconciled, ReconciledAction

\* What the run checks of the arithmetic is an instance.
LEMMA ArithmeticDoesAgree == ArithmeticAgrees
<1>1. \A base \in 1 .. 4, cap \in 1 .. 12, ordinal \in 1 .. 6 :
        cap >= base => WindowMs(base, cap, ordinal) = OracleWindowMs(base, cap, ordinal)
  BY WindowsAgree
<1>. QED  BY <1>1, WaitsAgree, ReconciledAgrees DEF ArithmeticAgrees

-------------------------------------------------------------------------------
(* The tables at each decision *)

\* A chain decides about an outcome, and never with its budget overspent.
LEMMA EvidenceKeepsVerdicts ==
  EvidenceSpec => [](ChainInv /\ VerdictInv)
<1>1. EvidenceInit => VerdictInv
  BY DEF EvidenceInit, Init, VerdictInv
<1>2. ChainInv /\ ChainInv' /\ VerdictInv /\ [EvidenceNext]_<<vars, evidenceVars>> => VerdictInv'
  <2>1. EvidenceNext => [Next]_vars
    BY EvidenceSteps
  <2>. QED  BY <2>1, VerdictStep
<1>. QED  BY <1>1, <1>2, EvidenceKeepsChains, PTL DEF EvidenceSpec

\* Whatever a failed attempt observed, when its chain decides about it the runtime's
\* tables and the oracle's derive the same, and the chain ends as the coordinator has it.
THEOREM TablesTellTheSame == EvidenceSpec => []TablesAgree
<1>1. ChainInv /\ VerdictInv => TablesAgree
  <2> SUFFICES ASSUME ChainInv, VerdictInv, NEW h \in Calls, at[h] = "deciding", verdict[h] # "SUCCESS",
                      NEW context, context = [demand |-> Demanded(h), closing |-> closing,
                                              remaining |-> IF Remaining(h) = 0 THEN 0 ELSE 1]
               PROVE  DerivedEnds[<<verdict[h], context>>] = {EndingReason(h)}
    BY ArithmeticDoesAgree DEF TablesAgree
  <2>1. verdict[h] \in Verdicts \ {"SUCCESS"} /\ closing \in BOOLEAN
    BY DEF VerdictInv, ChainInv, TypeOK
  <2>2. context \in Contexts
    BY <2>1 DEF Contexts, Demanded
  <2>3. EndFor(verdict[h], context) = EndingReason(h)
    BY <2>1 DEF EndFor, EndingReason
  <2>. QED  BY <2>1, <2>2, <2>3, EndsDerived
<1>. QED  BY <1>1, EvidenceKeepsVerdicts, PTL

=============================================================================
