------------------------------ MODULE C2RunProofs ------------------------------
(***************************************************************************)
(* That no request of a C2 run leaves unvetted or uncounted, that a bundle *)
(* which verify_bundle() accepts accounts for the requests of the          *)
(* invocation that wrote it, that an honest document is rejected in the    *)
(* known cases only, and that the stop gate is right about how its         *)
(* controls ended, for any plan, any number of clients and any bounds of   *)
(* the probes.                                                             *)
(***************************************************************************)
EXTENDS C2Run, SequenceTheorems, FiniteSetTheorems, TLAPS

Points == {"none", "construct", "extract", "inside", "process", "exit", "finished"}
Event == Stages \X {"ENTER", "RETURN", "RAISE"}
Frame == [name : Stages, next : Nat \ {0}]

\* The last event of an extraction whose exception D4 saw leave YoutubeIE.
Raised == <<"VIDEO_EXTRACT", "RAISE">>

Unraised(trace) == \A i \in DOMAIN trace : trace[i] # Raised

\* What the probes of D7 kept of the responses is what there was.
Copied(s, w) == script = 7 => s.initial = w.initial /\ s.api = w.api

TypeInv ==
    /\ script \in Scripts /\ clients \in Nat
    /\ point \in Points
    /\ DOMAIN seen = DOMAIN NothingSeen /\ DOMAIN world = DOMAIN NothingHappened
    /\ seen.trace \in Seq(Event)
    /\ stack \in Seq(Frame)

CountInv ==
    /\ world.sent \in 0 .. MAX_METADATA_REQUESTS
    /\ seen.requests = world.sent
    /\ point = "none" => world.sent = 0

\* YoutubeIE's own call is the outermost one, and its exit is not traced before it.
StackInv ==
    /\ point \in {"none", "construct", "extract"} => stack = <<>>
    /\ \A i \in DOMAIN stack : (stack[i].name = "VIDEO_EXTRACT") <=> (i = 1)
    /\ point \in {"none", "construct", "extract", "inside"} => Unraised(seen.trace)
    /\ point \in {"extract", "inside"} => stage = "EXTRACT_INFO_RAISED"

CopyInv ==
    \/ point \in {"none", "construct", "extract"}
    \/ point = "inside" /\ error # "CONTRACT"
    => Copied(seen, world)

\* Once the extractor has said that there are no formats only its exception is
\* left, which D4 saw leave YoutubeIE unless its trace was full.
VerdictInv ==
    /\ seen.noFormats # 0 => world.verdict
    /\ world.verdict =>
        /\ Copied(seen, world)
        /\ stage = "EXTRACT_INFO_RAISED"
        /\ \/ point = "inside" /\ error = "EXTRACTOR" /\ Len(stack) = 1
           \/ /\ point \in {"exit", "finished"}
              /\ \/ error \in {"EXTRACTOR", "OTHER"}
                 \/ seen.trace # <<>> /\ Last(seen.trace) # Raised

ExtractionInv == TypeInv /\ CountInv /\ StackInv /\ CopyInv /\ VerdictInv

-------------------------------------------------------------------------------
(* Sequences *)

\* What Append() does to a sequence.
LEMMA AppendOne ==
  ASSUME NEW S, NEW s \in Seq(S), NEW e \in S, NEW t, t = Append(s, e)
  PROVE  /\ t \in Seq(S) /\ Len(t) = Len(s) + 1 /\ t # <<>>
         /\ DOMAIN t = 1 .. Len(s) + 1 /\ DOMAIN s = 1 .. Len(s) /\ Len(s) \in Nat
         /\ \A i \in 1 .. Len(s) : t[i] = s[i]
         /\ t[Len(s) + 1] = e /\ Last(t) = e
<1>1. t \in Seq(S) /\ Len(t) = Len(s) + 1 /\ Len(s) \in Nat
  OBVIOUS
<1>2. (\A i \in 1 .. Len(s) : t[i] = s[i]) /\ t[Len(s) + 1] = e
  OBVIOUS
<1> QED
  BY <1>1, <1>2 DEF Last

\* What Front() leaves of one.
LEMMA FrontOne ==
  ASSUME NEW S, NEW s \in Seq(S), s # <<>>, NEW t, t = Front(s)
  PROVE  /\ t \in Seq(S) /\ Len(t) = Len(s) - 1 /\ Len(s) \in Nat \ {0}
         /\ DOMAIN t = 1 .. Len(s) - 1 /\ DOMAIN s = 1 .. Len(s)
         /\ \A i \in 1 .. Len(s) - 1 : t[i] = s[i]
         /\ Last(s) = s[Len(s)] /\ Last(s) \in S
<1>1. Len(s) \in Nat \ {0}
  OBVIOUS
<1>2. PICK n : n = Len(s) - 1
  OBVIOUS
<1>3. n \in Int /\ \A i \in 1 .. n : s[i] \in S
  BY <1>1, <1>2
<1>4. t = SubSeq(s, 1, n)
  BY <1>2 DEF Front
<1>5. /\ t \in Seq(S) /\ Len(t) = IF 1 <= n THEN n - 1 + 1 ELSE 0
      /\ \A i \in 1 .. n - 1 + 1 : t[i] = s[1 + i - 1]
  BY <1>3, <1>4, SubSeqProperties
<1>6. Len(t) = n /\ \A i \in 1 .. n : t[i] = s[i]
  BY <1>1, <1>2, <1>5
<1> QED
  BY <1>1, <1>2, <1>5, <1>6 DEF Last

-------------------------------------------------------------------------------
(* The steps of an extraction *)

\* What D4's observer adds to what was seen.
LEMMA TracedAdds ==
  ASSUME NEW s, DOMAIN s = DOMAIN NothingSeen, s.trace \in Seq(Event),
         NEW name \in Stages, NEW outcome \in {"ENTER", "RETURN", "RAISE"},
         NEW e, e = <<name, outcome>>,
         NEW t, t = Traced(s, name, outcome), script \in Scripts
  PROVE  /\ DOMAIN t = DOMAIN NothingSeen /\ t.trace \in Seq(Event)
         /\ t.requests = s.requests /\ t.noFormats = s.noFormats
         /\ t.initial = s.initial /\ t.api = s.api
         /\ Unraised(s.trace) /\ e # Raised => Unraised(t.trace)
<1>1. e \in Event
  BY DEF Event
<1>2. CASE script < 4
  BY <1>2 DEF Traced
<1>3. CASE ~ script < 4
  <2>1. PICK u : u = Append(s.trace, e)
    OBVIOUS
  <2>2. t = [s EXCEPT !.trace = u]
    BY <1>3, <2>1 DEF Traced
  <2>3. t.trace = u
    BY <2>2 DEF NothingSeen
  <2>5. /\ u \in Seq(Event) /\ DOMAIN u = 1 .. Len(s.trace) + 1 /\ DOMAIN s.trace = 1 .. Len(s.trace)
        /\ Len(s.trace) \in Nat
        /\ \A i \in 1 .. Len(s.trace) : u[i] = s.trace[i]
        /\ u[Len(s.trace) + 1] = e
    BY <1>1, <2>1, AppendOne
  <2>6. Unraised(s.trace) /\ e # Raised => Unraised(u)
    BY <2>5 DEF Unraised
  <2> QED
    BY <2>2, <2>3, <2>5, <2>6 DEF NothingSeen
<1> QED
  BY <1>2, <1>3

\* The with statement around extract_info() sends and traces nothing.
LEMMA ConstructKeeps ==
  ASSUME ExtractionInv, Construct, UNCHANGED <<script, clients>>
  PROVE  ExtractionInv'
<1>1. \/ point' = "extract" /\ stage' = "EXTRACT_INFO_RAISED"
      \/ point' = "finished"
  BY DEF Construct
<1>2. point = "construct" /\ UNCHANGED <<stack, seen, world>>
  BY DEF Construct
<1>3. TypeInv' /\ CountInv'
  BY <1>1, <1>2 DEF ExtractionInv, TypeInv, CountInv, Points
<1>4. ~ world.verdict
  BY <1>2 DEF ExtractionInv, VerdictInv
<1>5. StackInv' /\ CopyInv' /\ VerdictInv'
  BY <1>1, <1>2, <1>4 DEF ExtractionInv, StackInv, CopyInv, VerdictInv, Copied
<1> QED
  BY <1>3, <1>5 DEF ExtractionInv

\* extract_info() gives up before YoutubeIE is entered.
LEMMA FailsEarlyKeeps ==
  ASSUME ExtractionInv, FailsEarly, UNCHANGED <<script, clients>>
  PROVE  ExtractionInv'
<1>1. point = "extract" /\ point' = "exit" /\ UNCHANGED <<stack, stage, completed, seen, world>>
  BY DEF FailsEarly
<1>2. TypeInv' /\ CountInv'
  BY <1>1 DEF ExtractionInv, TypeInv, CountInv, Points
<1>3. ~ world.verdict
  BY <1>1 DEF ExtractionInv, VerdictInv
<1>4. StackInv' /\ CopyInv' /\ VerdictInv'
  BY <1>1, <1>3 DEF ExtractionInv, StackInv, CopyInv, VerdictInv
<1> QED
  BY <1>2, <1>4 DEF ExtractionInv

\* What extract_info() makes of a result comes after any verdict of YoutubeIE.
LEMMA ProcessKeeps ==
  ASSUME ExtractionInv, Process, UNCHANGED <<script, clients>>
  PROVE  ExtractionInv'
<1>1. point = "process" /\ point' = "exit" /\ UNCHANGED <<stack, seen, world>>
  BY DEF Process
<1>2. TypeInv' /\ CountInv'
  BY <1>1 DEF ExtractionInv, TypeInv, CountInv, Points
<1>3. ~ world.verdict
  BY <1>1 DEF ExtractionInv, VerdictInv
<1>4. StackInv' /\ CopyInv' /\ VerdictInv'
  BY <1>1, <1>3 DEF ExtractionInv, StackInv, CopyInv, VerdictInv
<1> QED
  BY <1>2, <1>4 DEF ExtractionInv

\* The end of the with statement may replace the exception, not what was seen.
LEMMA ExitKeeps ==
  ASSUME ExtractionInv, Exit, UNCHANGED <<script, clients>>
  PROVE  ExtractionInv'
<1>1. /\ point = "exit" /\ point' = "finished" /\ UNCHANGED <<stack, stage, completed, seen, world>>
      /\ error' = error \/ error' = "OTHER"
  BY DEF Exit
<1>2. TypeInv' /\ CountInv'
  BY <1>1 DEF ExtractionInv, TypeInv, CountInv, Points
<1>3. StackInv' /\ CopyInv'
  BY <1>1 DEF ExtractionInv, StackInv, CopyInv
<1>4. VerdictInv'
  BY <1>1 DEF ExtractionInv, VerdictInv, Copied
<1> QED
  BY <1>2, <1>3, <1>4 DEF ExtractionInv

\* A request is counted when it is sent.
LEMMA RequestKeeps ==
  ASSUME ExtractionInv, Request, UNCHANGED <<script, clients>>
  PROVE  ExtractionInv' /\ world'.sent - world.sent \in 0 .. 1
<1>1. /\ point = "inside" /\ error = "NONE"
      /\ UNCHANGED <<point, stack, stage, completed>>
  BY DEF Request, Running
<1>2. ~ world.verdict /\ seen.noFormats = 0
  BY <1>1 DEF ExtractionInv, VerdictInv
<1>3. CASE seen.requests >= MAX_METADATA_REQUESTS
  <2>1. error' = "CONTRACT" /\ UNCHANGED <<seen, world>>
    BY <1>3 DEF Request
  <2>2. TypeInv' /\ CountInv' /\ StackInv'
    BY <1>1, <2>1 DEF ExtractionInv, TypeInv, CountInv, StackInv
  <2>3. CopyInv' /\ VerdictInv'
    BY <1>1, <1>2, <2>1 DEF CopyInv, VerdictInv
  <2>4. world'.sent - world.sent \in 0 .. 1
    BY <2>1, BoundsAreNatural DEF ExtractionInv, CountInv
  <2> QED
    BY <2>2, <2>3, <2>4 DEF ExtractionInv
<1>4. CASE ~ seen.requests >= MAX_METADATA_REQUESTS
  <2>1. PICK answers : seen' = [seen EXCEPT !.requests = @ + 1, !.answers = answers]
    BY <1>4 DEF Request
  <2>2. world' = [world EXCEPT !.sent = @ + 1]
    BY <1>4 DEF Request
  <2>3. /\ DOMAIN seen' = DOMAIN NothingSeen /\ seen'.requests = seen.requests + 1
        /\ seen'.trace = seen.trace /\ seen'.noFormats = seen.noFormats
        /\ seen'.initial = seen.initial /\ seen'.api = seen.api
    BY <2>1 DEF ExtractionInv, TypeInv, NothingSeen
  <2>4. /\ DOMAIN world' = DOMAIN NothingHappened /\ world'.sent = world.sent + 1
        /\ world'.verdict = world.verdict
        /\ world'.initial = world.initial /\ world'.api = world.api
    BY <2>2 DEF ExtractionInv, TypeInv, NothingHappened
  <2>5. TypeInv'
    BY <1>1, <2>3, <2>4 DEF ExtractionInv, TypeInv
  <2>6. CountInv' /\ world'.sent - world.sent \in 0 .. 1
    BY <1>1, <1>4, <2>3, <2>4, BoundsAreNatural DEF ExtractionInv, CountInv
  <2>7. StackInv'
    BY <1>1, <2>3 DEF ExtractionInv, StackInv, Unraised
  <2>8. CopyInv' /\ VerdictInv'
    BY <1>1, <1>2, <2>3, <2>4 DEF ExtractionInv, CopyInv, VerdictInv, Copied
  <2> QED
    BY <2>5, <2>6, <2>7, <2>8 DEF ExtractionInv
<1> QED
  BY <1>3, <1>4

\* What leaves the requests, the trace, the responses and the verdict as they are.
Quiet ==
    /\ DOMAIN seen' = DOMAIN NothingSeen /\ DOMAIN world' = DOMAIN NothingHappened
    /\ seen'.requests = seen.requests /\ seen'.trace = seen.trace
    /\ seen'.initial = seen.initial /\ seen'.api = seen.api
    /\ world'.sent = world.sent
    /\ world'.initial = world.initial /\ world'.api = world.api

\* The formats counted are no part of the invariant.
LEMMA EmitKeeps ==
  ASSUME ExtractionInv, Emit, UNCHANGED <<script, clients>>
  PROVE  ExtractionInv' /\ world'.sent = world.sent
<1>1. /\ point = "inside" /\ error = "NONE"
      /\ UNCHANGED <<point, stack, stage, completed>>
  BY DEF Emit, Running
<1>2. ~ world.verdict /\ seen.noFormats = 0
  BY <1>1 DEF ExtractionInv, VerdictInv
<1>3. \/ UNCHANGED <<seen, world>>
      \/ \E yields : /\ seen' = [seen EXCEPT !.yields = yields]
                     /\ world' = [world EXCEPT !.emitted = @ + 1]
  BY DEF Emit
<1>4. Quiet /\ seen'.noFormats = seen.noFormats /\ world'.verdict = world.verdict
  BY <1>3 DEF ExtractionInv, TypeInv, Quiet, NothingSeen, NothingHappened
<1>5. TypeInv' /\ CountInv' /\ StackInv'
  BY <1>1, <1>4 DEF ExtractionInv, TypeInv, CountInv, StackInv, Quiet, Unraised
<1>6. CopyInv' /\ VerdictInv'
  BY <1>1, <1>2, <1>4 DEF ExtractionInv, CopyInv, VerdictInv, Copied, Quiet
<1> QED
  BY <1>4, <1>5, <1>6 DEF ExtractionInv, Quiet

\* Nor are the reports of formats skipped.
LEMMA SkipKeeps ==
  ASSUME ExtractionInv, ReportSkip, UNCHANGED <<script, clients>>
  PROVE  ExtractionInv' /\ world'.sent = world.sent
<1>1. /\ point = "inside" /\ error = "NONE"
      /\ UNCHANGED <<point, stack, stage, completed, world>>
  BY DEF ReportSkip, Running
<1>2. ~ world.verdict /\ seen.noFormats = 0
  BY <1>1 DEF ExtractionInv, VerdictInv
<1>3. UNCHANGED seen \/ \E skips : seen' = [seen EXCEPT !.skips = skips]
  BY DEF ReportSkip
<1>4. Quiet /\ seen'.noFormats = seen.noFormats
  BY <1>1, <1>3 DEF ExtractionInv, TypeInv, Quiet, NothingSeen
<1>5. TypeInv' /\ CountInv' /\ StackInv'
  BY <1>1, <1>4 DEF ExtractionInv, TypeInv, CountInv, StackInv, Quiet, Unraised
<1>6. CopyInv' /\ VerdictInv'
  BY <1>1, <1>2, <1>4 DEF ExtractionInv, CopyInv, VerdictInv, Copied, Quiet
<1> QED
  BY <1>1, <1>5, <1>6 DEF ExtractionInv

\* A phase fails before the extractor has given its verdict.
LEMMA FailsKeeps ==
  ASSUME ExtractionInv, Fails, UNCHANGED <<script, clients>>
  PROVE  ExtractionInv'
<1>1. /\ point = "inside" /\ error = "NONE"
      /\ UNCHANGED <<point, stack, stage, completed, seen, world>>
  BY DEF Fails
<1>2. ~ world.verdict /\ seen.noFormats = 0
  BY <1>1 DEF ExtractionInv, VerdictInv
<1>3. TypeInv' /\ CountInv' /\ StackInv'
  BY <1>1 DEF ExtractionInv, TypeInv, CountInv, StackInv
<1>4. CopyInv' /\ VerdictInv'
  BY <1>1, <1>2 DEF ExtractionInv, CopyInv, VerdictInv, Copied
<1> QED
  BY <1>3, <1>4 DEF ExtractionInv

\* The extractor's verdict is its own call's, with nothing else in progress.
LEMMA NoFormatsKeeps ==
  ASSUME ExtractionInv, NoFormats, UNCHANGED <<script, clients>>
  PROVE  ExtractionInv' /\ world'.sent = world.sent
<1>1. /\ point = "inside" /\ error = "NONE" /\ error' = "EXTRACTOR"
      /\ stack # <<>> /\ Top.name = "VIDEO_EXTRACT"
      /\ UNCHANGED <<point, stack, stage, completed>>
      /\ world' = [world EXCEPT !.verdict = TRUE]
  BY DEF NoFormats, Running
<1>2. PICK noFormats, drm : seen' = [seen EXCEPT !.noFormats = noFormats, !.drm = drm]
  BY DEF NoFormats
<1>3. Quiet
  BY <1>1, <1>2 DEF ExtractionInv, TypeInv, Quiet, NothingSeen, NothingHappened
<1>4. world'.verdict
  BY <1>1 DEF ExtractionInv, TypeInv, NothingHappened
<1>5. Len(stack) = 1
  <2>1. /\ Len(stack) \in Nat \ {0} /\ DOMAIN stack = 1 .. Len(stack) /\ Top = stack[Len(stack)]
    BY <1>1, FrontOne DEF ExtractionInv, TypeInv, Top
  <2> QED
    BY <1>1, <2>1 DEF ExtractionInv, StackInv
<1>6. Copied(seen, world) /\ stage = "EXTRACT_INFO_RAISED"
  BY <1>1 DEF ExtractionInv, CopyInv, StackInv
<1>7. TypeInv' /\ CountInv' /\ StackInv'
  BY <1>1, <1>3 DEF ExtractionInv, TypeInv, CountInv, StackInv, Quiet, Unraised
<1>8. CopyInv' /\ VerdictInv'
  BY <1>1, <1>3, <1>4, <1>5, <1>6 DEF CopyInv, VerdictInv, Copied, Quiet
<1> QED
  BY <1>3, <1>7, <1>8 DEF ExtractionInv, Quiet

\* The call of _list_formats is counted, and what it is given copied, apart from
\* what the invariant is about.
LEMMA SelectionSeenKeeps ==
  ASSUME NEW s, DOMAIN s = DOMAIN NothingSeen, NEW t, t = SelectionSeen(s) \/ t = s
  PROVE  /\ DOMAIN t = DOMAIN NothingSeen /\ t.trace = s.trace
         /\ t.requests = s.requests /\ t.noFormats = s.noFormats
         /\ t.initial = s.initial /\ t.api = s.api
<1>1. CASE t = s
  BY <1>1
<1>2. CASE t = SelectionSeen(s)
  <2>1. PICK a, b, c, d :
          t = [s EXCEPT !.selections = a, !.selected = b, !.calls = c, !.chosen = d]
    BY <1>2 DEF SelectionSeen
  <2> QED
    BY <2>1 DEF NothingSeen
<1> QED
  BY <1>1, <1>2

\* YoutubeIE's own call is in no phase.
LEMMA CallsAreInner ==
  ASSUME clients \in Nat, NEW top \in Frame, top.next <= Len(Calls(top.name)),
         NEW name, name = Calls(top.name)[top.next]
  PROVE  name # "VIDEO_EXTRACT"
<1>1. top.next \in Nat \ {0} /\ top.name \in Stages
  BY DEF Frame
<1>2. CASE top.name = "VIDEO_EXTRACT"
  <2>1. Calls(top.name) = <<"INITIAL_EXTRACT", "FORMAT_SELECTION">>
    BY <1>2 DEF Calls
  <2>2. top.next \in 1 .. 2
    BY <1>1, <2>1
  <2> QED
    BY <2>1, <2>2
<1>3. CASE top.name = "INITIAL_EXTRACT"
  <2>1. Calls(top.name) = <<"WEBPAGE_FETCH", "INITIAL_DATA", "CLIENT_SELECTION", "PLAYER_RESPONSES">>
    BY <1>3 DEF Calls
  <2>2. top.next \in 1 .. 4
    BY <1>1, <2>1
  <2> QED
    BY <2>1, <2>2
<1>4. CASE top.name = "PLAYER_RESPONSES"
  <2>1. Calls(top.name) = [i \in 1 .. clients |-> "PLAYER_RESPONSE"]
    BY <1>4 DEF Calls
  <2>2. Len(Calls(top.name)) = clients
    BY <2>1
  <2>3. top.next \in 1 .. clients
    BY <1>1, <2>2
  <2> QED
    BY <2>1, <2>3
<1>5. CASE top.name \notin {"VIDEO_EXTRACT", "INITIAL_EXTRACT", "PLAYER_RESPONSES"}
  <2>1. Calls(top.name) = <<>>
    BY <1>5 DEF Calls
  <2> QED
    BY <1>1, <2>1
<1> QED
  BY <1>2, <1>3, <1>4, <1>5

\* A call that is entered is not YoutubeIE's own, unless it is the first.
LEMMA EnterKeeps ==
  ASSUME ExtractionInv, NEW name \in Stages, Enter(name), UNCHANGED <<script, clients>>
  PROVE  ExtractionInv' /\ world'.sent = world.sent
<1> DEFINE caller == IF stack = <<>> THEN <<>>
                     ELSE Append(Front(stack), [Top EXCEPT !.next = @ + 1])
<1>1. PICK before : before = IF name = "FORMAT_SELECTION" THEN SelectionSeen(seen) ELSE seen
  OBVIOUS
<1>2. PICK called : called = caller
  OBVIOUS
<1>3. /\ \/ point = "extract" /\ name = "VIDEO_EXTRACT"
         \/ point = "inside" /\ error = "NONE" /\ stack # <<>> /\ ~CalledAll
            /\ name = Calls(Top.name)[Top.next]
      /\ point' = "inside" /\ UNCHANGED <<stage, completed>>
  BY DEF Enter
<1>4. \/ /\ error' = "CONTRACT" /\ world' = Hits(world) /\ seen' = before /\ stack' = called
      \/ /\ stack' = Append(called, [name |-> name, next |-> 1])
         /\ error' = error
         /\ \/ \E initial :
                  /\ world' = [world EXCEPT !.initial = initial]
                  /\ seen' = InitialSeen(Traced(before, name, "ENTER"), initial)
            \/ /\ seen' = Traced(before, name, "ENTER")
               /\ \/ world' = [world EXCEPT !.selection = "ENTERED"]
                  \/ world' = [world EXCEPT !.ie = "ENTERED"]
                  \/ world' = world
  BY <1>1, <1>2 DEF Enter
<1>5. /\ DOMAIN before = DOMAIN NothingSeen /\ before.trace = seen.trace
      /\ before.requests = seen.requests /\ before.noFormats = seen.noFormats
      /\ before.initial = seen.initial /\ before.api = seen.api
  BY <1>1, SelectionSeenKeeps DEF ExtractionInv, TypeInv
<1>6. ~ world.verdict /\ seen.noFormats = 0 /\ Copied(seen, world) /\ Unraised(seen.trace)
  BY <1>3 DEF ExtractionInv, VerdictInv, CopyInv, StackInv
<1>7. /\ called \in Seq(Frame)
      /\ \A i \in DOMAIN called : (called[i].name = "VIDEO_EXTRACT") <=> (i = 1)
      /\ (called = <<>>) <=> (name = "VIDEO_EXTRACT")
  <2>1. CASE point = "extract" /\ name = "VIDEO_EXTRACT"
    BY <1>2, <2>1 DEF ExtractionInv, StackInv
  <2>2. CASE point = "inside" /\ stack # <<>> /\ ~CalledAll /\ name = Calls(Top.name)[Top.next]
    <3>1. PICK front : front = Front(stack)
      OBVIOUS
    <3>2. PICK top : top = Top
      OBVIOUS
    <3>3. /\ front \in Seq(Frame) /\ Len(front) = Len(stack) - 1 /\ Len(stack) \in Nat \ {0}
          /\ DOMAIN stack = 1 .. Len(stack)
          /\ \A i \in 1 .. Len(stack) - 1 : front[i] = stack[i]
          /\ top = stack[Len(stack)] /\ top \in Frame
      BY <2>2, <3>1, <3>2, FrontOne DEF ExtractionInv, TypeInv, Top
    <3>4. PICK frame : frame = [top EXCEPT !.next = @ + 1]
      OBVIOUS
    <3>5. frame \in Frame /\ frame.name = top.name
      <4>1. top \in [name : Stages, next : Nat \ {0}]
        BY ONLY <3>3 DEF Frame
      <4>2. top.next + 1 \in Nat \ {0}
        BY ONLY <4>1
      <4>3. frame \in [name : Stages, next : Nat \ {0}] /\ frame.name = top.name
        BY ONLY <3>4, <4>1, <4>2
      <4> QED
        BY ONLY <4>3 DEF Frame
    <3>6. called = Append(front, frame)
      BY <1>2, <2>2, <3>1, <3>2, <3>4
    <3>7. /\ called \in Seq(Frame) /\ called # <<>>
          /\ DOMAIN called = 1 .. Len(stack)
          /\ \A i \in 1 .. Len(stack) - 1 : called[i] = stack[i]
          /\ called[Len(stack)] = frame
      BY <3>3, <3>5, <3>6, AppendOne
    <3>8. \A i \in DOMAIN called : called[i].name = stack[i].name
      BY <3>3, <3>5, <3>7
    <3>9. top.next <= Len(Calls(top.name))
      <4>1. top.next \in Nat /\ ~ top.next > Len(Calls(top.name))
        BY <2>2, <3>2, <3>3 DEF CalledAll, Frame
      <4>2. Len(Calls(top.name)) \in Nat
        BY DEF Calls, ExtractionInv, TypeInv
      <4> QED
        BY <4>1, <4>2
    <3>10. name # "VIDEO_EXTRACT"
      BY <2>2, <3>2, <3>3, <3>9, CallsAreInner DEF ExtractionInv, TypeInv
    <3> QED
      BY <3>3, <3>7, <3>8, <3>10 DEF ExtractionInv, StackInv
  <2> QED
    BY <1>3, <2>1, <2>2
<1>8. CASE error' = "CONTRACT" /\ world' = Hits(world) /\ seen' = before /\ stack' = called
  <2>1. /\ DOMAIN world' = DOMAIN NothingHappened /\ world'.sent = world.sent
        /\ world'.verdict = world.verdict
    BY <1>8 DEF ExtractionInv, TypeInv, Hits, NothingHappened
  <2>2. TypeInv' /\ CountInv' /\ StackInv'
    BY <1>3, <1>5, <1>6, <1>7, <1>8, <2>1
       DEF ExtractionInv, TypeInv, CountInv, StackInv, Points, Unraised
  <2>3. CopyInv' /\ VerdictInv'
    BY <1>3, <1>5, <1>6, <1>8, <2>1 DEF CopyInv, VerdictInv
  <2> QED
    BY <2>1, <2>2, <2>3 DEF ExtractionInv
<1>9. CASE /\ stack' = Append(called, [name |-> name, next |-> 1])
           /\ \/ \E initial :
                    /\ world' = [world EXCEPT !.initial = initial]
                    /\ seen' = InitialSeen(Traced(before, name, "ENTER"), initial)
              \/ /\ seen' = Traced(before, name, "ENTER")
                 /\ \/ world' = [world EXCEPT !.selection = "ENTERED"]
                    \/ world' = [world EXCEPT !.ie = "ENTERED"]
                    \/ world' = world
  <2>1. PICK frame \in Frame : frame = [name |-> name, next |-> 1]
    <3>1. [name |-> name, next |-> 1] \in [name : Stages, next : Nat \ {0}]
      OBVIOUS
    <3> QED
      BY <3>1 DEF Frame
  <2>2. /\ stack' \in Seq(Frame) /\ DOMAIN stack' = 1 .. Len(called) + 1 /\ Len(called) \in Nat
        /\ DOMAIN called = 1 .. Len(called)
        /\ \A i \in 1 .. Len(called) : stack'[i] = called[i]
        /\ stack'[Len(called) + 1] = frame
    BY <1>7, <1>9, <2>1, AppendOne
  <2>3. (Len(called) = 0) <=> (name = "VIDEO_EXTRACT")
    BY <1>7
  <2>4. \A i \in DOMAIN stack' : (stack'[i].name = "VIDEO_EXTRACT") <=> (i = 1)
    BY <1>7, <2>1, <2>2, <2>3
  <2>5. PICK t : t = Traced(before, name, "ENTER")
    OBVIOUS
  <2>6. PICK event : event = <<name, "ENTER">> /\ event # Raised
    <3>1. <<name, "ENTER">> # Raised
      BY DEF Raised
    <3> QED
      BY <3>1
  <2>7. /\ DOMAIN t = DOMAIN NothingSeen /\ t.trace \in Seq(Event)
        /\ t.requests = seen.requests /\ t.noFormats = seen.noFormats
        /\ t.initial = seen.initial /\ t.api = seen.api
        /\ Unraised(t.trace)
    <3>1. Unraised(before.trace) /\ before.trace \in Seq(Event) /\ script \in Scripts
      BY <1>5, <1>6 DEF ExtractionInv, TypeInv
    <3>2. /\ DOMAIN t = DOMAIN NothingSeen /\ t.trace \in Seq(Event)
          /\ t.requests = before.requests /\ t.noFormats = before.noFormats
          /\ t.initial = before.initial /\ t.api = before.api
          /\ Unraised(before.trace) /\ event # Raised => Unraised(t.trace)
      BY <1>5, <2>5, <2>6, <3>1, TracedAdds
    <3> QED
      BY <1>5, <2>6, <3>1, <3>2
  <2>8. /\ DOMAIN seen' = DOMAIN NothingSeen /\ seen'.trace \in Seq(Event)
        /\ seen'.requests = seen.requests /\ seen'.noFormats = seen.noFormats
        /\ Unraised(seen'.trace)
        /\ DOMAIN world' = DOMAIN NothingHappened /\ world'.sent = world.sent
        /\ world'.verdict = world.verdict
        /\ Copied(seen', world')
    <3>1. CASE \E initial : /\ world' = [world EXCEPT !.initial = initial]
                            /\ seen' = InitialSeen(t, initial)
      <4>1. PICK initial : /\ world' = [world EXCEPT !.initial = initial]
                           /\ seen' = InitialSeen(t, initial)
        BY <3>1
      <4>2. /\ DOMAIN world' = DOMAIN NothingHappened /\ world'.sent = world.sent
            /\ world'.verdict = world.verdict
            /\ world'.initial = initial /\ world'.api = world.api
        BY <4>1 DEF ExtractionInv, TypeInv, NothingHappened
      <4>3. /\ DOMAIN seen' = DOMAIN NothingSeen /\ seen'.trace = t.trace
            /\ seen'.requests = t.requests /\ seen'.noFormats = t.noFormats
            /\ script = 7 => seen'.initial = initial
            /\ seen'.api = t.api
        BY <4>1, <2>7 DEF InitialSeen, NothingSeen
      <4> QED
        BY <1>6, <2>7, <4>2, <4>3 DEF Copied
    <3>2. CASE /\ seen' = t
               /\ \/ world' = [world EXCEPT !.selection = "ENTERED"]
                  \/ world' = [world EXCEPT !.ie = "ENTERED"]
                  \/ world' = world
      <4>1. /\ DOMAIN world' = DOMAIN NothingHappened /\ world'.sent = world.sent
            /\ world'.verdict = world.verdict
            /\ world'.initial = world.initial /\ world'.api = world.api
        BY <3>2 DEF ExtractionInv, TypeInv, NothingHappened
      <4> QED
        BY <1>6, <2>7, <3>2, <4>1 DEF Copied
    <3> QED
      BY <1>9, <2>5, <3>1, <3>2
  <2>9. TypeInv' /\ CountInv' /\ StackInv'
    BY <1>3, <2>2, <2>4, <2>8 DEF ExtractionInv, TypeInv, CountInv, StackInv, Points
  <2>10. CopyInv' /\ VerdictInv'
    BY <1>3, <1>6, <2>8 DEF CopyInv, VerdictInv, Copied
  <2> QED
    BY <2>8, <2>9, <2>10 DEF ExtractionInv
<1> QED
  BY <1>4, <1>8, <1>9

\* A full trace has a last event, as any event in it.
LEMMA FullHasLast ==
  ASSUME TypeInv, TraceFull
  PROVE  seen.trace # <<>> /\ \E i \in DOMAIN seen.trace : Last(seen.trace) = seen.trace[i]
<1>1. Len(seen.trace) >= 1 /\ Len(seen.trace) \in Nat
  BY BoundsAreNatural DEF TraceFull, TypeInv
<1>2. DOMAIN seen.trace = 1 .. Len(seen.trace)
  BY DEF TypeInv
<1> QED
  BY <1>1, <1>2 DEF Last

\* What Popped leaves of the calls in progress.
LEMMA PoppedKeeps ==
  ASSUME ExtractionInv, stack # <<>>, NEW popped, popped = Popped
  PROVE  /\ popped \in Seq(Frame)
         /\ \A i \in DOMAIN popped : (popped[i].name = "VIDEO_EXTRACT") <=> (i = 1)
         /\ Top.name \in Stages /\ Len(stack) \in Nat /\ Top = stack[Len(stack)]
         /\ DOMAIN stack = 1 .. Len(stack)
<1>1. /\ popped \in Seq(Frame) /\ Len(stack) \in Nat \ {0}
      /\ DOMAIN popped = 1 .. Len(stack) - 1 /\ DOMAIN stack = 1 .. Len(stack)
      /\ \A i \in 1 .. Len(stack) - 1 : popped[i] = stack[i]
      /\ Top = stack[Len(stack)] /\ Top \in Frame
  <2>1. stack \in Seq(Frame)
    BY DEF ExtractionInv, TypeInv
  <2>2. popped = Front(stack) /\ Top = Last(stack)
    BY DEF Popped, Top
  <2> QED
    BY <2>1, <2>2, FrontOne
<1> QED
  BY <1>1 DEF ExtractionInv, StackInv, Frame

\* What a call returns is copied as it was, or an exception follows.
LEMMA ReturnKeeps ==
  ASSUME ExtractionInv, Return, UNCHANGED <<script, clients>>
  PROVE  ExtractionInv' /\ world'.sent = world.sent
<1>1. PICK name : name = Top.name
  OBVIOUS
<1>2. PICK s : s = Traced(seen, name, "RETURN")
  OBVIOUS
<1>3. /\ point = "inside" /\ error = "NONE" /\ stack # <<>>
      /\ stack' = Popped /\ point' \in {"inside", "exit", "process"}
      /\ UNCHANGED <<stage, completed>>
  BY DEF Return
<1>4. \/ error' = "CONTRACT" /\ world' = Hits(world) /\ seen' = seen
      \/ \E shape :
            /\ world' = [world EXCEPT !.api = Append(@, shape)]
            /\ \/ seen' = s /\ error' = "CONTRACT"
               \/ seen' = ResponseSeen(s, shape)
      \/ /\ world' = world
         /\ seen' = s \/ \E responses : seen' = ResponsesSeen(s, responses)
      \/ seen' = FormatsSeen(s) /\ world' = [world EXCEPT !.selection = "RETURNED"]
      \/ seen' = s /\ \E ie : world' = [world EXCEPT !.ie = ie]
  BY <1>1, <1>2 DEF Return
<1>5. /\ stack' \in Seq(Frame) /\ name \in Stages
      /\ \A i \in DOMAIN stack' : (stack'[i].name = "VIDEO_EXTRACT") <=> (i = 1)
  BY <1>1, <1>3, PoppedKeeps
<1>6. ~ world.verdict /\ seen.noFormats = 0 /\ Copied(seen, world) /\ Unraised(seen.trace)
  BY <1>3 DEF ExtractionInv, VerdictInv, CopyInv, StackInv
<1>7. PICK event : event = <<name, "RETURN">> /\ event # Raised
  <2>1. <<name, "RETURN">> # Raised
    BY DEF Raised
  <2> QED
    BY <2>1
<1>8. /\ DOMAIN s = DOMAIN NothingSeen /\ s.trace \in Seq(Event)
      /\ s.requests = seen.requests /\ s.noFormats = seen.noFormats
      /\ s.initial = seen.initial /\ s.api = seen.api
      /\ Unraised(s.trace)
  <2>1. /\ DOMAIN seen = DOMAIN NothingSeen /\ seen.trace \in Seq(Event) /\ script \in Scripts
    BY DEF ExtractionInv, TypeInv
  <2>2. /\ DOMAIN s = DOMAIN NothingSeen /\ s.trace \in Seq(Event)
        /\ s.requests = seen.requests /\ s.noFormats = seen.noFormats
        /\ s.initial = seen.initial /\ s.api = seen.api
        /\ Unraised(seen.trace) /\ event # Raised => Unraised(s.trace)
    BY <1>2, <1>5, <1>7, <2>1, TracedAdds
  <2> QED
    BY <1>6, <1>7, <2>2
<1>9. /\ DOMAIN seen' = DOMAIN NothingSeen /\ seen'.trace \in Seq(Event)
      /\ seen'.requests = seen.requests /\ seen'.noFormats = seen.noFormats
      /\ Unraised(seen'.trace)
      /\ DOMAIN world' = DOMAIN NothingHappened /\ world'.sent = world.sent
      /\ world'.verdict = world.verdict
      /\ error' # "CONTRACT" => Copied(seen', world')
  <2>1. CASE error' = "CONTRACT" /\ world' = Hits(world) /\ seen' = seen
    BY <1>6, <2>1 DEF ExtractionInv, TypeInv, Hits, NothingHappened
  <2>2. CASE \E shape :
               /\ world' = [world EXCEPT !.api = Append(@, shape)]
               /\ \/ seen' = s /\ error' = "CONTRACT"
                  \/ seen' = ResponseSeen(s, shape)
    <3>1. PICK shape :
            /\ world' = [world EXCEPT !.api = Append(@, shape)]
            /\ \/ seen' = s /\ error' = "CONTRACT"
               \/ seen' = ResponseSeen(s, shape)
      BY <2>2
    <3>2. /\ DOMAIN world' = DOMAIN NothingHappened /\ world'.sent = world.sent
          /\ world'.verdict = world.verdict
          /\ world'.initial = world.initial /\ world'.api = Append(world.api, shape)
      BY <3>1 DEF ExtractionInv, TypeInv, NothingHappened
    <3>3. CASE seen' = s /\ error' = "CONTRACT"
      BY <1>8, <3>2, <3>3
    <3>4. CASE seen' = ResponseSeen(s, shape)
      <4>1. /\ DOMAIN seen' = DOMAIN NothingSeen /\ seen'.trace = s.trace
            /\ seen'.requests = s.requests /\ seen'.noFormats = s.noFormats
            /\ seen'.initial = s.initial
            /\ script = 7 => seen'.api = Append(s.api, shape)
        BY <1>8, <3>4 DEF ResponseSeen, NothingSeen
      <4> QED
        BY <1>6, <1>8, <3>2, <4>1 DEF Copied
    <3> QED
      BY <3>1, <3>3, <3>4
  <2>3. CASE /\ world' = world
             /\ seen' = s \/ \E responses : seen' = ResponsesSeen(s, responses)
    <3>1. /\ DOMAIN seen' = DOMAIN NothingSeen /\ seen'.trace = s.trace
          /\ seen'.requests = s.requests /\ seen'.noFormats = s.noFormats
          /\ seen'.initial = s.initial /\ seen'.api = s.api
      BY <1>8, <2>3 DEF ResponsesSeen, NothingSeen
    <3> QED
      BY <1>6, <1>8, <2>3, <3>1 DEF ExtractionInv, TypeInv, Copied
  <2>4. CASE seen' = FormatsSeen(s) /\ world' = [world EXCEPT !.selection = "RETURNED"]
    <3>1. /\ DOMAIN seen' = DOMAIN NothingSeen /\ seen'.trace = s.trace
          /\ seen'.requests = s.requests /\ seen'.noFormats = s.noFormats
          /\ seen'.initial = s.initial /\ seen'.api = s.api
      BY <1>8, <2>4 DEF FormatsSeen, NothingSeen
    <3>2. /\ DOMAIN world' = DOMAIN NothingHappened /\ world'.sent = world.sent
          /\ world'.verdict = world.verdict
          /\ world'.initial = world.initial /\ world'.api = world.api
      BY <2>4 DEF ExtractionInv, TypeInv, NothingHappened
    <3> QED
      BY <1>6, <1>8, <3>1, <3>2 DEF Copied
  <2>5. CASE seen' = s /\ \E ie : world' = [world EXCEPT !.ie = ie]
    <3>1. /\ DOMAIN world' = DOMAIN NothingHappened /\ world'.sent = world.sent
          /\ world'.verdict = world.verdict
          /\ world'.initial = world.initial /\ world'.api = world.api
      BY <2>5 DEF ExtractionInv, TypeInv, NothingHappened
    <3> QED
      BY <1>6, <1>8, <2>5, <3>1 DEF Copied
  <2> QED
    BY <1>4, <2>1, <2>2, <2>3, <2>4, <2>5
<1>10. TypeInv' /\ CountInv' /\ StackInv'
  BY <1>3, <1>5, <1>9 DEF ExtractionInv, TypeInv, CountInv, StackInv, Points
<1>11. CopyInv' /\ VerdictInv'
  BY <1>3, <1>6, <1>9 DEF CopyInv, VerdictInv, Copied
<1> QED
  BY <1>9, <1>10, <1>11 DEF ExtractionInv

\* The exception leaves the call in progress, and the extractor's verdict YoutubeIE.
LEMMA UnwindKeeps ==
  ASSUME ExtractionInv, Unwind, UNCHANGED <<script, clients>>
  PROVE  ExtractionInv' /\ world'.sent = world.sent
<1>1. PICK name : name = Top.name
  OBVIOUS
<1>2. PICK s : s = Traced(seen, name, "RAISE")
  OBVIOUS
<1>3. /\ point = "inside" /\ error # "NONE" /\ stack # <<>>
      /\ stack' = Popped /\ point' = IF name = "VIDEO_EXTRACT" THEN "exit" ELSE "inside"
      /\ UNCHANGED <<stage, completed>>
  BY <1>1 DEF Unwind
<1>4. \/ TraceFull /\ error' = "CONTRACT" /\ world' = Hits(world) /\ seen' = seen
      \/ /\ seen' = s
         /\ \/ error' = error
            \/ name # "VIDEO_EXTRACT" /\ error # "CONTRACT"
         /\ \E swallowed, selection :
                world' = [world EXCEPT !.swallowed = swallowed, !.selection = selection]
  BY <1>1, <1>2 DEF Unwind, ExtractorErrors
<1>5. /\ stack' \in Seq(Frame) /\ name \in Stages
      /\ \A i \in DOMAIN stack' : (stack'[i].name = "VIDEO_EXTRACT") <=> (i = 1)
  BY <1>1, <1>3, PoppedKeeps
<1>6. Unraised(seen.trace) /\ (error # "CONTRACT" => Copied(seen, world))
  BY <1>3 DEF ExtractionInv, CopyInv, StackInv
<1>7. world.verdict => /\ name = "VIDEO_EXTRACT" /\ error = "EXTRACTOR"
                       /\ stage = "EXTRACT_INFO_RAISED" /\ Copied(seen, world)
  <2>1. Len(stack) \in Nat /\ Top = stack[Len(stack)] /\ DOMAIN stack = 1 .. Len(stack)
    BY <1>3, PoppedKeeps
  <2> QED
    BY <1>1, <1>3, <2>1 DEF ExtractionInv, VerdictInv, StackInv
<1>8. CASE TraceFull /\ error' = "CONTRACT" /\ world' = Hits(world) /\ seen' = seen
  <2>1. /\ DOMAIN world' = DOMAIN NothingHappened /\ world'.sent = world.sent
        /\ world'.verdict = world.verdict
        /\ world'.initial = world.initial /\ world'.api = world.api
    BY <1>8 DEF ExtractionInv, TypeInv, Hits, NothingHappened
  <2>2. TypeInv' /\ CountInv' /\ StackInv'
    BY <1>3, <1>5, <1>6, <1>8, <2>1 DEF ExtractionInv, TypeInv, CountInv, StackInv, Points
  <2>3. seen.trace # <<>> /\ Last(seen.trace) # Raised
    BY <1>6, <1>8, FullHasLast DEF ExtractionInv, Unraised
  <2>4. CopyInv'
    BY <1>3, <1>8 DEF CopyInv
  <2>5. VerdictInv'
    BY <1>3, <1>7, <1>8, <2>1, <2>3 DEF ExtractionInv, VerdictInv, Copied
  <2> QED
    BY <2>1, <2>2, <2>4, <2>5 DEF ExtractionInv
<1>9. CASE /\ seen' = s
           /\ \/ error' = error
              \/ name # "VIDEO_EXTRACT" /\ error # "CONTRACT"
           /\ \E swallowed, selection :
                  world' = [world EXCEPT !.swallowed = swallowed, !.selection = selection]
  <2>1. /\ DOMAIN world' = DOMAIN NothingHappened /\ world'.sent = world.sent
        /\ world'.verdict = world.verdict
        /\ world'.initial = world.initial /\ world'.api = world.api
    BY <1>9 DEF ExtractionInv, TypeInv, NothingHappened
  <2>2. PICK event : event = <<name, "RAISE">> /\ (name # "VIDEO_EXTRACT" => event # Raised)
    <3>1. name # "VIDEO_EXTRACT" => <<name, "RAISE">> # Raised
      BY DEF Raised
    <3> QED
      BY <3>1
  <2>3. /\ DOMAIN seen' = DOMAIN NothingSeen /\ seen'.trace \in Seq(Event)
        /\ seen'.requests = seen.requests /\ seen'.noFormats = seen.noFormats
        /\ seen'.initial = seen.initial /\ seen'.api = seen.api
        /\ name # "VIDEO_EXTRACT" => Unraised(seen'.trace)
    <3>1. /\ DOMAIN seen = DOMAIN NothingSeen /\ seen.trace \in Seq(Event) /\ script \in Scripts
      BY DEF ExtractionInv, TypeInv
    <3>2. /\ DOMAIN s = DOMAIN NothingSeen /\ s.trace \in Seq(Event)
          /\ s.requests = seen.requests /\ s.noFormats = seen.noFormats
          /\ s.initial = seen.initial /\ s.api = seen.api
          /\ Unraised(seen.trace) /\ event # Raised => Unraised(s.trace)
      BY <1>2, <1>5, <2>2, <3>1, TracedAdds
    <3> QED
      BY <1>6, <1>9, <2>2, <3>2
  <2>4. TypeInv' /\ CountInv' /\ StackInv'
    BY <1>3, <1>5, <2>1, <2>3 DEF ExtractionInv, TypeInv, CountInv, StackInv, Points
  <2>5. CopyInv'
    BY <1>3, <1>6, <1>9, <2>1, <2>3 DEF CopyInv, Copied
  <2>6. VerdictInv'
    BY <1>3, <1>7, <1>9, <2>1, <2>3 DEF ExtractionInv, VerdictInv, Copied
  <2> QED
    BY <2>1, <2>4, <2>5, <2>6 DEF ExtractionInv
<1> QED
  BY <1>4, <1>8, <1>9

\* Every step of an extraction keeps the invariant, and sends at most one request.
LEMMA ExtractionKeeps ==
  ASSUME ExtractionInv, ExtractionStep, UNCHANGED <<script, clients>>
  PROVE  ExtractionInv' /\ world'.sent - world.sent \in 0 .. 1
<1>1. world'.sent = world.sent => world'.sent - world.sent \in 0 .. 1
  BY BoundsAreNatural DEF ExtractionInv, CountInv
<1>2. CASE Construct
  BY <1>1, <1>2, ConstructKeeps DEF Construct
<1>3. CASE FailsEarly
  BY <1>1, <1>3, FailsEarlyKeeps DEF FailsEarly
<1>4. CASE Process
  BY <1>1, <1>4, ProcessKeeps DEF Process
<1>5. CASE Exit
  BY <1>1, <1>5, ExitKeeps DEF Exit
<1>6. CASE \E name \in Stages : Enter(name)
  BY <1>1, <1>6, EnterKeeps
<1>7. CASE Request
  BY <1>7, RequestKeeps
<1>8. CASE Emit
  BY <1>1, <1>8, EmitKeeps
<1>9. CASE Fails
  BY <1>1, <1>9, FailsKeeps DEF Fails
<1>10. CASE NoFormats
  BY <1>1, <1>10, NoFormatsKeeps
<1>11. CASE Return
  BY <1>1, <1>11, ReturnKeeps
<1>12. CASE Unwind
  BY <1>1, <1>12, UnwindKeeps
<1>13. CASE ReportSkip
  BY <1>1, <1>13, SkipKeeps
<1> QED
  BY <1>2, <1>3, <1>4, <1>5, <1>6, <1>7, <1>8, <1>9, <1>10, <1>11, <1>12, <1>13 DEF ExtractionStep

\* An extraction that has not begun.
LEMMA FreshKeeps ==
  ASSUME ExtractionInv, NEW where \in {"none", "construct"}, FreshExtraction(where),
         UNCHANGED <<script, clients>>
  PROVE  ExtractionInv' /\ point' = where /\ world'.sent = 0
<1>1. /\ point' = where /\ stack' = <<>> /\ error' = "NONE"
      /\ seen' = NothingSeen /\ world' = NothingHappened
  BY DEF FreshExtraction, Fresh
<1>2. /\ seen'.requests = 0 /\ seen'.trace = <<>> /\ seen'.noFormats = 0
      /\ seen'.initial = <<>> /\ seen'.api = <<>>
      /\ world'.sent = 0 /\ world'.initial = <<>> /\ world'.api = <<>> /\ ~ world'.verdict
  BY <1>1 DEF NothingSeen, NothingHappened
<1>3. TypeInv'
  BY <1>1, <1>2 DEF ExtractionInv, TypeInv, Points
<1>4. CountInv'
  BY <1>2, BoundsAreNatural DEF CountInv
<1>5. StackInv' /\ CopyInv' /\ VerdictInv'
  BY <1>1, <1>2 DEF StackInv, CopyInv, VerdictInv, Copied, Unraised
<1> QED
  BY <1>1, <1>2, <1>3, <1>4, <1>5 DEF ExtractionInv

-------------------------------------------------------------------------------
(* The steps of the scripts *)

\* Where a script's steps are.
InProcess == script <= 2
CellsAt == IF InProcess THEN 4 ELSE 6
CellsKeptAt == IF InProcess THEN 7 ELSE 6
SummaryAt == IF InProcess THEN 8 ELSE 7
ManifestAt == SummaryAt + 1
PrivacyAt == SummaryAt + 2

\* And those of an observation.
OracleAt == IF InProcess THEN 1 ELSE IF script <= 4 THEN 4 ELSE 2
ObserveAt == IF InProcess THEN 2 ELSE IF script = 3 THEN 5 ELSE 6
LastChild == IF InProcess THEN ObserveAt + 1 ELSE ObserveAt + 2

\* Every script has the same step at the same place, but for the two kinds.
LEMMA WhichStep ==
  ASSUME script \in Scripts, at \in 1 .. PrivacyAt
  PROVE  /\ (Step = "PLAN") <=> (at = 1)
         /\ (Step = "IDS") <=> (at = 2)
         /\ (Step = "EMPTY") <=> (at = 3)
         /\ (Step = "CHILD") <=> (~InProcess /\ at = 4)
         /\ (Step = "CELLS") <=> (at = CellsAt)
         /\ (Step = "BUDGET") <=> (InProcess /\ at = 5)
         /\ (Step = "MKDIR") <=> (at = IF InProcess THEN 6 ELSE 5)
         /\ (Step = "WRITE") <=> (InProcess /\ at = 7)
         /\ (Step = "SUMMARY") <=> (at = SummaryAt)
         /\ (Step = "MANIFEST") <=> (at = ManifestAt)
         /\ (Step = "PRIVACY") <=> (at = PrivacyAt)
<1>1. CASE InProcess
  <2>1. script \in 0 .. 2 /\ at \in 1 .. 10
    BY <1>1 DEF InProcess, Scripts, PrivacyAt, SummaryAt
  <2>2. PICK steps : steps = Steps
    OBVIOUS
  <2>3. steps = <<"PLAN", "IDS", "EMPTY", "CELLS", "BUDGET", "MKDIR", "WRITE", "SUMMARY", "MANIFEST",
                  "PRIVACY">>
    BY <2>1, <2>2 DEF Steps, RunD0, RunD1, RunD2
  <2>4. Step = steps[at]
    BY <2>2 DEF Step
  <2> QED
    BY <1>1, <2>1, <2>3, <2>4 DEF CellsAt, SummaryAt, ManifestAt, PrivacyAt
<1>2. CASE ~InProcess
  <2>1. script \in 3 .. 7 /\ at \in 1 .. 9
    BY <1>2 DEF InProcess, Scripts, PrivacyAt, SummaryAt
  <2>2. PICK steps : steps = Steps
    OBVIOUS
  <2>3. steps = <<"PLAN", "IDS", "EMPTY", "CHILD", "MKDIR", "CELLS", "SUMMARY", "MANIFEST", "PRIVACY">>
    BY <2>1, <2>2 DEF Steps, RunD3, RunD4, RunD5, RunD6, RunD7
  <2>4. Step = steps[at]
    BY <2>2 DEF Step
  <2> QED
    BY <1>2, <2>1, <2>3, <2>4 DEF CellsAt, SummaryAt, ManifestAt, PrivacyAt
<1> QED
  BY <1>1, <1>2

\* So has every observation.
LEMMA WhichChildStep ==
  ASSUME script \in Scripts, child \in 1 .. LastChild
  PROVE  /\ (ChildStep = "OBSERVE") <=> (child = ObserveAt)
         /\ (ChildStep = "VALIDATE") <=> (child = ObserveAt + 1)
         /\ (ChildStep = "WRITE") <=> (~InProcess /\ child = ObserveAt + 2)
         /\ (ChildStep = "ORACLE") <=> (child = OracleAt)
         /\ (ChildStep = "HOOKS") <=> (script >= 4 /\ child = 5)
<1>1. PICK steps : steps = ObserveSteps
  OBVIOUS
<1>2. ChildStep = steps[child]
  BY <1>1 DEF ChildStep
<1>3. CASE script \in 0 .. 2
  <2>1. steps = <<"ORACLE", "OBSERVE", "VALIDATE">>
    BY <1>1, <1>3 DEF ObserveSteps, ObserveD0, ObserveD1, ObserveD2
  <2>2. InProcess /\ child \in 1 .. 3
    BY <1>3 DEF InProcess, LastChild, ObserveAt
  <2> QED
    BY <1>2, <1>3, <2>1, <2>2 DEF OracleAt, ObserveAt
<1>4. CASE script = 3
  <2>1. steps = <<"PLAN", "IDS", "ABSENT", "ORACLE", "OBSERVE", "VALIDATE", "WRITE">>
    BY <1>1, <1>4 DEF ObserveSteps, ObserveD3
  <2>2. ~InProcess /\ child \in 1 .. 7
    BY <1>4 DEF InProcess, LastChild, ObserveAt
  <2> QED
    BY <1>2, <1>4, <2>1, <2>2 DEF OracleAt, ObserveAt
<1>5. CASE script = 4
  <2>1. steps = <<"PLAN", "IDS", "ABSENT", "ORACLE", "HOOKS", "OBSERVE", "VALIDATE", "WRITE">>
    BY <1>1, <1>5 DEF ObserveSteps, ObserveD4
  <2>2. ~InProcess /\ child \in 1 .. 8
    BY <1>5 DEF InProcess, LastChild, ObserveAt
  <2> QED
    BY <1>2, <1>5, <2>1, <2>2 DEF OracleAt, ObserveAt
<1>6. CASE script \in 5 .. 7
  <2>1. steps = <<"PLAN", "ORACLE", "IDS", "ABSENT", "HOOKS", "OBSERVE", "VALIDATE", "WRITE">>
    BY <1>1, <1>6 DEF ObserveSteps, ObserveD5, ObserveD6, ObserveD7
  <2>2. ~InProcess /\ child \in 1 .. 8
    BY <1>6 DEF InProcess, LastChild, ObserveAt
  <2> QED
    BY <1>2, <1>6, <2>1, <2>2 DEF OracleAt, ObserveAt
<1> QED
  BY <1>3, <1>4, <1>5, <1>6 DEF Scripts

-------------------------------------------------------------------------------
(* Sums *)

\* g has the requests of each prefix of the documents.
Adds(g, docs) == g = [n \in 0 .. Len(docs) |-> IF n = 0 THEN 0 ELSE g[n - 1] + docs[n].told.requests]

\* What TotalRequests() adds up is total, whatever function it takes for its own.
SumsTo(docs, total) ==
    /\ \E g : Adds(g, docs)
    /\ \A g : Adds(g, docs) => g[Len(docs)] = total

IsSequence(s) == \E S : s \in Seq(S)

\* TotalRequests() is that total.
LEMMA TotalIsSum ==
  ASSUME NEW docs, NEW total, SumsTo(docs, total)
  PROVE  TotalRequests(docs) = total
<1> DEFINE u == CHOOSE g : Adds(g, docs)
<1>1. Adds(u, docs)
  BY DEF SumsTo
<1>2. TotalRequests(docs) = u[Len(docs)]
  BY DEF TotalRequests, Adds
<1> QED
  BY <1>1, <1>2 DEF SumsTo

\* No document, no request.
LEMMA EmptySum ==
  SumsTo(<<>>, 0)
<1> DEFINE w == [n \in 0 .. 0 |-> 0]
<1>1. Adds(w, <<>>)
  BY DEF Adds
<1>2. ASSUME NEW g, Adds(g, <<>>)
      PROVE  g[Len(<<>>)] = 0
  BY <1>2 DEF Adds
<1> QED
  BY <1>1, <1>2 DEF SumsTo

\* What Append() does to any sequence.
LEMMA AppendAny ==
  ASSUME NEW s, IsSequence(s), NEW e, NEW t, t = Append(s, e)
  PROVE  /\ IsSequence(t) /\ Len(t) = Len(s) + 1 /\ Len(s) \in Nat
         /\ DOMAIN t = 1 .. Len(s) + 1 /\ DOMAIN s = 1 .. Len(s)
         /\ \A i \in 1 .. Len(s) : t[i] = s[i]
         /\ t[Len(s) + 1] = e
<1>1. PICK S : s \in Seq(S)
  BY DEF IsSequence
<1>2. PICK T : T = S \cup {e}
  OBVIOUS
<1>3. s \in Seq(T) /\ e \in T
  BY <1>1, <1>2, SeqMonotonic
<1>4. /\ t \in Seq(T) /\ Len(t) = Len(s) + 1 /\ Len(s) \in Nat
      /\ DOMAIN t = 1 .. Len(s) + 1 /\ DOMAIN s = 1 .. Len(s)
      /\ \A i \in 1 .. Len(s) : t[i] = s[i]
      /\ t[Len(s) + 1] = e
  BY <1>3, AppendOne
<1> QED
  BY <1>4 DEF IsSequence

\* One more document adds its requests.
LEMMA AppendSum ==
  ASSUME NEW docs, IsSequence(docs), NEW total, SumsTo(docs, total),
         NEW doc, NEW n, doc.told.requests = n, NEW more, more = Append(docs, doc)
  PROVE  SumsTo(more, total + n)
<1>1. PICK k : k = Len(docs)
  OBVIOUS
<1>2. /\ Len(more) = k + 1 /\ k \in Nat
      /\ \A i \in 1 .. k : more[i] = docs[i]
      /\ more[k + 1] = doc
  BY <1>1, AppendAny
<1>3. \E g : Adds(g, more)
  <2>1. PICK f : Adds(f, docs) /\ f[k] = total
    BY <1>1 DEF SumsTo
  <2>2. f = [i \in 0 .. k |-> IF i = 0 THEN 0 ELSE f[i - 1] + docs[i].told.requests]
    BY <1>1, <2>1 DEF Adds
  <2>3. PICK g : g = [i \in 0 .. k + 1 |-> IF i = k + 1 THEN total + n ELSE f[i]]
    OBVIOUS
  <2>4. ASSUME NEW i \in 0 .. k + 1
        PROVE  g[i] = IF i = 0 THEN 0 ELSE g[i - 1] + more[i].told.requests
    <3>1. CASE i = k + 1
      <4>1. g[i] = total + n /\ i - 1 = k /\ k \in 0 .. k + 1 /\ k # k + 1
        BY <1>2, <2>3, <3>1
      <4>2. g[i - 1] = total
        BY <2>1, <2>3, <4>1
      <4>3. more[i].told.requests = n /\ i # 0
        BY <1>2, <3>1
      <4> QED
        BY <4>1, <4>2, <4>3
    <3>2. CASE i = 0
      BY <1>2, <2>2, <2>3, <3>2
    <3>3. CASE i \in 1 .. k
      <4>1. g[i] = f[i] /\ g[i - 1] = f[i - 1] /\ more[i] = docs[i] /\ i # 0 /\ i \in 0 .. k
        BY <1>2, <2>3, <3>3
      <4>2. f[i] = f[i - 1] + docs[i].told.requests
        BY <2>2, <4>1
      <4> QED
        BY <4>1, <4>2
    <3> QED
      BY <1>2, <3>1, <3>2, <3>3
  <2>5. g = [i \in 0 .. k + 1 |-> IF i = 0 THEN 0 ELSE g[i - 1] + more[i].told.requests]
    BY <2>3, <2>4
  <2> QED
    BY <1>2, <2>5 DEF Adds
<1>4. ASSUME NEW g, Adds(g, more)
      PROVE  g[Len(more)] = total + n
  <2>1. g = [i \in 0 .. k + 1 |-> IF i = 0 THEN 0 ELSE g[i - 1] + more[i].told.requests]
    BY <1>2, <1>4 DEF Adds
  <2>2. PICK f : f = [i \in 0 .. k |-> g[i]]
    OBVIOUS
  <2>3. ASSUME NEW i \in 0 .. k
        PROVE  f[i] = IF i = 0 THEN 0 ELSE f[i - 1] + docs[i].told.requests
    <3>1. f[i] = g[i] /\ i \in 0 .. k + 1
      BY <1>2, <2>2
    <3>2. g[i] = IF i = 0 THEN 0 ELSE g[i - 1] + more[i].told.requests
      BY <2>1, <3>1
    <3>3. i # 0 => f[i - 1] = g[i - 1] /\ more[i] = docs[i]
      BY <1>2, <2>2
    <3> QED
      BY <3>1, <3>2, <3>3
  <2>4. f = [i \in 0 .. k |-> IF i = 0 THEN 0 ELSE f[i - 1] + docs[i].told.requests]
    BY <2>2, <2>3
  <2>5. f[k] = total
    BY <1>1, <2>4 DEF Adds, SumsTo
  <2>6. k \in 0 .. k /\ k + 1 \in 0 .. k + 1 /\ k + 1 # 0 /\ k + 1 - 1 = k
    BY <1>2
  <2>7. g[k + 1] = g[k] + more[k + 1].told.requests
    <3>1. \A i \in 0 .. k + 1 : g[i] = IF i = 0 THEN 0 ELSE g[i - 1] + more[i].told.requests
      BY ONLY <2>1
    <3> QED
      BY ONLY <2>6, <3>1
  <2> QED
    BY <1>2, <2>2, <2>5, <2>6, <2>7
<1> QED
  BY <1>3, <1>4 DEF SumsTo

-------------------------------------------------------------------------------
(* The invariant of a run *)

RunInv ==
    /\ cells \in Nat \ {0}
    /\ invocation \in 0 .. MaxInvocations /\ at \in 0 .. PrivacyAt /\ child \in 0 .. LastChild
    /\ cell \in 1 .. cells + 1
    /\ at > 0 => invocation > 0
    /\ child > 0 => at = CellsAt /\ cell <= cells
    /\ child < ObserveAt => point = "none"
    /\ child > ObserveAt => point = "finished"

\* What has been found to be the frozen one.
VettedInv ==
    /\ at > 1 => PlanOk(script, drifted)
    /\ at > 2 => "source" \notin drifted
    /\ ~InProcess /\ at > 4 => "interpreter" \notin drifted
    /\ child > OracleAt => "oracle" \notin drifted
    /\ script >= 4 /\ child > 5 => "hooks" \notin drifted

\* Requests of the documents kept, where the observation in progress has sent some.
Settled == sentBy[invocation] - world.sent

SpentInv ==
    /\ sentBy \in [1 .. MaxInvocations -> Nat]
    /\ \A i \in 1 .. MaxInvocations : i > invocation => sentBy[i] = 0
    /\ at > 0 =>
        /\ SumsTo(records, Settled)
        /\ Settled \in Nat /\ Settled <= Len(records) * MAX_METADATA_REQUESTS
        /\ \A i \in DOMAIN records : records[i].commit = invocation

KeptInv ==
    /\ IsSequence(records)
    /\ at < CellsAt => records = <<>>
    /\ at = CellsAt => Len(records) = cell - 1
    /\ at > CellsAt => Len(records) = cells

OnDisk(i) == disk.cells[i] = Whole(records[i])

\* The files of the invocation that found the directory empty.
WrittenInv ==
    /\ DOMAIN disk = {"cells", "summary", "manifest"} /\ DOMAIN disk.cells = 1 .. cells
    /\ at > 3 /\ at <= ManifestAt => disk.manifest.kind # "whole"
    /\ at = CellsKeptAt => \A i \in 1 .. cell - 1 : OnDisk(i)
    /\ at > CellsKeptAt => \A i \in 1 .. cells : OnDisk(i)
    /\ at > SummaryAt => disk.summary = Whole(BundleSummary(records))
    /\ at > ManifestAt => disk.manifest = Whole(Digests)

SealedBy(c) ==
    /\ \A i \in 1 .. cells : disk.cells[i].value.commit = c
    /\ SumsTo(CellDocs, sentBy[c])

\* A manifest that is whole is the last file of one invocation, whose requests
\* the documents account for.
SealedInv ==
    /\ disk.manifest.kind = "whole" => \E c \in 1 .. invocation : SealedBy(c)
    /\ exit = "ok" => at = 0 /\ (script > 0 => VerifyBundle(invocation))

Inv == ExtractionInv /\ RunInv /\ VettedInv /\ SpentInv /\ KeptInv /\ WrittenInv /\ SealedInv

\* Where the steps of any script are.
Places ==
    /\ CellsAt \in {4, 6} /\ SummaryAt \in {7, 8} /\ ManifestAt = SummaryAt + 1 /\ PrivacyAt = SummaryAt + 2
    /\ InProcess => CellsAt = 4 /\ CellsKeptAt = 7 /\ SummaryAt = 8
    /\ ~InProcess => CellsAt = 6 /\ CellsKeptAt = 6 /\ SummaryAt = 7
    /\ OracleAt \in {1, 2, 4} /\ ObserveAt \in {2, 5, 6} /\ OracleAt < ObserveAt
    /\ LastChild \in {ObserveAt + 1, ObserveAt + 2}

\* That is where they are.
LEMMA StepsHavePlaces ==
  ASSUME script \in Scripts
  PROVE  Places
BY DEF Places, CellsAt, CellsKeptAt, SummaryAt, ManifestAt, PrivacyAt, OracleAt, ObserveAt, LastChild,
       InProcess, Scripts

\* They stay where they are.
LEMMA PlacesStay ==
  ASSUME script \in Scripts, UNCHANGED script
  PROVE  /\ Places /\ (InProcess' <=> InProcess)
         /\ CellsAt' = CellsAt /\ CellsKeptAt' = CellsKeptAt /\ SummaryAt' = SummaryAt
         /\ ManifestAt' = ManifestAt /\ PrivacyAt' = PrivacyAt /\ OracleAt' = OracleAt /\ ObserveAt' = ObserveAt
         /\ LastChild' = LastChild
<1>1. Places
  BY StepsHavePlaces
<1>2. (InProcess' <=> InProcess)
  BY DEF InProcess
<1>3. /\ CellsAt' = CellsAt /\ CellsKeptAt' = CellsKeptAt /\ SummaryAt' = SummaryAt
      /\ ObserveAt' = ObserveAt /\ OracleAt' = OracleAt
  BY <1>2 DEF CellsAt, CellsKeptAt, SummaryAt, ObserveAt, OracleAt
<1> QED
  BY <1>1, <1>2, <1>3 DEF ManifestAt, PrivacyAt, LastChild

\* No run has begun, and the directory is empty.
LEMMA InvInit ==
  Init => Inv
<1> SUFFICES ASSUME Init
             PROVE  Inv
  OBVIOUS
<1> USE DEF Init
<1>1. /\ script \in Scripts /\ cells \in Nat \ {0} /\ clients \in Nat /\ MaxInvocations \in Nat
  BY InstancesAssumption
<1>2. Places
  BY <1>1, StepsHavePlaces
<1>3. /\ point = "none" /\ stack = <<>> /\ error = "NONE"
      /\ seen = NothingSeen /\ world = NothingHappened
  BY DEF Fresh
<1>4. /\ seen.requests = 0 /\ seen.trace = <<>> /\ seen.noFormats = 0
      /\ seen.initial = <<>> /\ seen.api = <<>>
      /\ world.sent = 0 /\ world.initial = <<>> /\ world.api = <<>> /\ ~ world.verdict
  BY <1>3 DEF NothingSeen, NothingHappened
<1>5. ExtractionInv
  <2>1. TypeInv
    BY <1>1, <1>3, <1>4 DEF TypeInv, Points
  <2>2. CountInv
    BY <1>4, BoundsAreNatural DEF CountInv
  <2>3. StackInv /\ CopyInv /\ VerdictInv
    BY <1>3, <1>4 DEF StackInv, CopyInv, VerdictInv, Copied, Unraised
  <2> QED
    BY <2>1, <2>2, <2>3 DEF ExtractionInv
<1>6. RunInv /\ VettedInv
  BY <1>1, <1>2, <1>3 DEF RunInv, VettedInv, Places
<1>7. SpentInv
  BY <1>1 DEF SpentInv
<1>8. KeptInv
  BY <1>2 DEF KeptInv, IsSequence, Places
<1>9. WrittenInv
  <2>1. disk = EmptyDisk /\ at = 0
    OBVIOUS
  <2>2. /\ DOMAIN disk = {"cells", "summary", "manifest"}
        /\ disk.cells = [i \in 1 .. cells |-> Absent]
    BY ONLY <2>1 DEF EmptyDisk
  <2> QED
    BY ONLY <1>2, <2>1, <2>2 DEF WrittenInv, Places
<1>10. SealedInv
  BY DEF SealedInv, EmptyDisk, Absent
<1> QED
  BY <1>5, <1>6, <1>7, <1>8, <1>9, <1>10 DEF Inv

\* A bundle that is whole stays as it was while no request is sent or file written.
LEMMA SealStays ==
  ASSUME RunInv, SealedInv, UNCHANGED <<cells, disk, sentBy>>, invocation' \in {invocation, invocation + 1}
  PROVE  disk'.manifest.kind = "whole" => \E c \in 1 .. invocation' : SealedBy(c)'
<1> SUFFICES ASSUME disk.manifest.kind = "whole"
             PROVE  \E c \in 1 .. invocation' : SealedBy(c)'
  OBVIOUS
<1>1. PICK c \in 1 .. invocation : SealedBy(c)
  BY DEF SealedInv
<1>2. SealedBy(c)'
  BY <1>1 DEF SealedBy, CellDocs
<1>3. c \in 1 .. invocation'
  BY <1>1 DEF RunInv
<1> QED
  BY <1>2, <1>3

\* A run that stops leaves its files, and nothing else.
LEMMA StopsKeeps ==
  ASSUME Inv, NEW how, Stops(how), UNCHANGED sentBy
  PROVE  /\ ExtractionInv' /\ RunInv' /\ VettedInv' /\ SpentInv' /\ KeptInv' /\ WrittenInv'
         /\ disk'.manifest.kind = "whole" => \E c \in 1 .. invocation' : SealedBy(c)'
<1>1. /\ at' = 0 /\ child' = 0 /\ cell' = 1 /\ records' = <<>>
      /\ UNCHANGED <<cells, script, clients, drifted, invocation, disk, sentBy>>
  BY DEF Stops, run
<1>2. script \in Scripts /\ ExtractionInv /\ RunInv /\ SpentInv /\ WrittenInv /\ SealedInv
  BY DEF Inv, ExtractionInv, TypeInv
<1>3. ExtractionInv' /\ point' = "none"
  <2>1. FreshExtraction("none")
    BY DEF Stops
  <2>2. PICK where \in {"none", "construct"} : where = "none" /\ FreshExtraction(where)
    BY <2>1
  <2> QED
    BY <1>1, <1>2, <2>2, FreshKeeps
<1>4. /\ Places /\ (InProcess' <=> InProcess)
      /\ CellsAt' = CellsAt /\ CellsKeptAt' = CellsKeptAt /\ SummaryAt' = SummaryAt
      /\ ManifestAt' = ManifestAt /\ PrivacyAt' = PrivacyAt /\ OracleAt' = OracleAt /\ ObserveAt' = ObserveAt
      /\ LastChild' = LastChild
  BY <1>1, <1>2, PlacesStay
<1>5. RunInv' /\ VettedInv'
  BY <1>1, <1>2, <1>3, <1>4 DEF RunInv, VettedInv, Places
<1>6. SpentInv' /\ KeptInv'
  BY <1>1, <1>2, <1>4 DEF SpentInv, KeptInv, IsSequence, Places
<1>7. WrittenInv'
  BY <1>1, <1>2, <1>4 DEF WrittenInv, Places
<1> QED
  BY <1>1, <1>2, <1>3, <1>5, <1>6, <1>7, SealStays DEF RunInv

\* A run that does not end well.
LEMMA FailureKeeps ==
  ASSUME Inv, NEW how, how # "ok", Stops(how), UNCHANGED sentBy
  PROVE  Inv'
<1>1. exit' = how
  BY DEF Stops
<1> QED
  BY <1>1, StopsKeeps DEF Inv, SealedInv

-------------------------------------------------------------------------------
(* The actions *)

\* What no action changes, and where its steps are.
LEMMA Standing ==
  ASSUME Inv, UNCHANGED run
  PROVE  /\ script \in Scripts /\ Places /\ cells \in Nat \ {0}
         /\ UNCHANGED <<cells, script, clients, drifted>>
         /\ (InProcess' <=> InProcess)
         /\ CellsAt' = CellsAt /\ CellsKeptAt' = CellsKeptAt /\ SummaryAt' = SummaryAt
         /\ ManifestAt' = ManifestAt /\ PrivacyAt' = PrivacyAt
         /\ OracleAt' = OracleAt /\ ObserveAt' = ObserveAt /\ LastChild' = LastChild
<1>1. script \in Scripts /\ cells \in Nat \ {0}
  BY DEF Inv, ExtractionInv, TypeInv, RunInv
<1>2. UNCHANGED <<cells, script, clients, drifted>>
  BY DEF run
<1> QED
  BY <1>1, <1>2, PlacesStay

\* An extraction nothing happens to.
LEMMA ExtractionStays ==
  ASSUME Inv, UNCHANGED <<run, extraction>>
  PROVE  ExtractionInv' /\ point' = point /\ world' = world
BY DEF Inv, ExtractionInv, TypeInv, CountInv, StackInv, CopyInv, VerdictInv, Copied, Unraised, run, extraction

\* An invocation starts with no request sent, over the files of those before it.
LEMMA StartKeeps ==
  ASSUME Inv, Start
  PROVE  Inv'
<1>1. /\ at = 0 /\ invocation < MaxInvocations /\ invocation' = invocation + 1
      /\ exit' = "none" /\ at' = 1 /\ cell' = 1 /\ records' = <<>>
      /\ UNCHANGED <<run, extraction, child, opened, disk, sentBy>>
  BY DEF Start
<1>2. /\ script \in Scripts /\ Places /\ cells \in Nat \ {0}
      /\ UNCHANGED <<cells, script, clients, drifted>>
      /\ (InProcess' <=> InProcess)
      /\ CellsAt' = CellsAt /\ CellsKeptAt' = CellsKeptAt /\ SummaryAt' = SummaryAt
      /\ ManifestAt' = ManifestAt /\ PrivacyAt' = PrivacyAt
      /\ OracleAt' = OracleAt /\ ObserveAt' = ObserveAt /\ LastChild' = LastChild
  BY <1>1, Standing
<1>3. ExtractionInv' /\ point' = point /\ world' = world
  BY <1>1, ExtractionStays
<1>4. RunInv /\ VettedInv /\ SpentInv /\ KeptInv /\ WrittenInv /\ SealedInv /\ MaxInvocations \in Nat
  BY InstancesAssumption DEF Inv
<1>5. child = 0 /\ point = "none" /\ world.sent = 0
  BY <1>1, <1>2, <1>4 DEF RunInv, Places, Inv, ExtractionInv, CountInv
<1>6. RunInv'
  BY <1>1, <1>2, <1>3, <1>4, <1>5 DEF RunInv, Places
<1>7. VettedInv'
  BY <1>1, <1>2, <1>4, <1>5 DEF VettedInv, Places
<1>8. SpentInv'
  <2>1. sentBy[invocation'] = 0 /\ Settled' = 0
    BY <1>1, <1>3, <1>4, <1>5 DEF SpentInv, RunInv, Settled
  <2>2. SumsTo(records', Settled')
    BY <1>1, <2>1, EmptySum
  <2>3. Len(records') = 0 /\ DOMAIN records' = {}
    BY <1>1
  <2>4. Settled' \in Nat /\ Settled' <= Len(records') * MAX_METADATA_REQUESTS
    BY <2>1, <2>3, BoundsAreNatural
  <2> QED
    BY <1>1, <1>4, <2>2, <2>3, <2>4 DEF SpentInv, RunInv
<1>9. KeptInv' /\ WrittenInv'
  BY <1>1, <1>2, <1>4 DEF KeptInv, WrittenInv, IsSequence, Places
<1>10. SealedInv'
  BY <1>1, <1>2, <1>4, SealStays DEF SealedInv
<1> QED
  BY <1>3, <1>6, <1>7, <1>8, <1>9, <1>10 DEF Inv

\* The next step of the run, or its end.
LEMMA CheckKeeps ==
  ASSUME Inv, Check
  PROVE  Inv'
<1>1. at > 0 /\ child = 0 /\ Step \in {"PLAN", "IDS", "EMPTY", "CHILD", "BUDGET", "MKDIR"}
  BY DEF Check
<1>2. CASE ~ Holds(Step)
  <2>1. Stops("failed") /\ UNCHANGED sentBy
    BY <1>2 DEF Check
  <2>2. PICK how : how = "failed" /\ Stops(how) /\ how # "ok"
    BY <2>1
  <2> QED
    BY <2>1, <2>2, FailureKeeps
<1>3. CASE Holds(Step)
  <2>1. /\ at' = at + 1 /\ cell' = 1
        /\ UNCHANGED <<run, extraction, invocation, exit, child, opened, records, disk, sentBy>>
    BY <1>3 DEF Check, Advance
  <2>2. /\ script \in Scripts /\ Places /\ cells \in Nat \ {0}
        /\ UNCHANGED <<cells, script, clients, drifted>>
        /\ (InProcess' <=> InProcess)
        /\ CellsAt' = CellsAt /\ CellsKeptAt' = CellsKeptAt /\ SummaryAt' = SummaryAt
        /\ ManifestAt' = ManifestAt /\ PrivacyAt' = PrivacyAt
        /\ OracleAt' = OracleAt /\ ObserveAt' = ObserveAt /\ LastChild' = LastChild
    BY <2>1, Standing
  <2>3. ExtractionInv' /\ point' = point /\ world' = world
    BY <2>1, ExtractionStays
  <2>4. RunInv /\ VettedInv /\ SpentInv /\ KeptInv /\ WrittenInv /\ SealedInv
    BY DEF Inv
  <2>5. /\ at \in 1 .. PrivacyAt /\ at # CellsAt /\ at # CellsKeptAt /\ at < SummaryAt
        /\ (Step = "PLAN") <=> (at = 1)
        /\ (Step = "IDS") <=> (at = 2)
        /\ (Step = "EMPTY") <=> (at = 3)
        /\ (Step = "CHILD") <=> (~InProcess /\ at = 4)
    <3>1. at \in 1 .. PrivacyAt
      BY <1>1, <2>2, <2>4 DEF RunInv, Places
    <3> QED
      BY <1>1, <2>2, <3>1, WhichStep DEF Places
  <2>6. RunInv'
    BY <2>1, <2>2, <2>3, <2>4, <2>5, <1>1 DEF RunInv, Places
  <2>7. VettedInv'
    <3>1. at = 1 => PlanOk(script, drifted)
      BY <1>3, <2>5 DEF Holds
    <3>2. at = 2 => "source" \notin drifted
      BY <1>3, <2>5 DEF Holds
    <3>3. ~InProcess /\ at = 4 => "interpreter" \notin drifted
      BY <1>3, <2>5 DEF Holds
    <3> QED
      BY <1>1, <2>1, <2>2, <2>4, <2>5, <3>1, <3>2, <3>3 DEF VettedInv, Places
  <2>8. SpentInv'
    BY <2>1, <2>3, <2>4, <2>5 DEF SpentInv, Settled
  <2>9. KeptInv'
    BY <2>1, <2>2, <2>4, <2>5 DEF KeptInv, Places
  <2>10. at = 3 => disk.manifest.kind # "whole"
    BY <1>3, <2>5 DEF Holds, EmptyDisk, Absent
  <2>11. WrittenInv'
    BY <2>1, <2>2, <2>4, <2>5, <2>10 DEF WrittenInv, OnDisk, Places
  <2>12. SealedInv'
    BY <2>1, <2>2, <2>4, <1>1, SealStays DEF SealedInv
  <2> QED
    BY <2>3, <2>6, <2>7, <2>8, <2>9, <2>11, <2>12 DEF Inv
<1> QED
  BY <1>2, <1>3

\* The next cell, or the end of the loop.
LEMMA ObserveKeeps ==
  ASSUME Inv, Observe
  PROVE  Inv'
<1>1. /\ at > 0 /\ child = 0 /\ Step = "CELLS"
      /\ UNCHANGED <<run, extraction, invocation, exit, opened, records, disk, sentBy>>
  BY DEF Observe, At
<1>2. /\ script \in Scripts /\ Places /\ cells \in Nat \ {0}
      /\ UNCHANGED <<cells, script, clients, drifted>>
      /\ (InProcess' <=> InProcess)
      /\ CellsAt' = CellsAt /\ CellsKeptAt' = CellsKeptAt /\ SummaryAt' = SummaryAt
      /\ ManifestAt' = ManifestAt /\ PrivacyAt' = PrivacyAt
      /\ OracleAt' = OracleAt /\ ObserveAt' = ObserveAt /\ LastChild' = LastChild
  BY <1>1, Standing
<1>3. ExtractionInv' /\ point' = point /\ world' = world
  BY <1>1, ExtractionStays
<1>4. RunInv /\ VettedInv /\ SpentInv /\ KeptInv /\ WrittenInv /\ SealedInv
  BY DEF Inv
<1>5. at = CellsAt
  <2>1. at \in 1 .. PrivacyAt
    BY <1>1, <1>2, <1>4 DEF RunInv, Places
  <2> QED
    BY <1>1, <1>2, <2>1, WhichStep
<1>6. SealedInv'
  BY <1>1, <1>2, <1>4, SealStays DEF SealedInv
<1>7. CASE cell > cells
  <2>1. at' = at + 1 /\ cell' = 1 /\ child' = child
    BY <1>7 DEF Observe, Advance
  <2>2. RunInv' /\ VettedInv'
    BY <1>1, <1>2, <1>3, <1>4, <1>5, <2>1 DEF RunInv, VettedInv, Places
  <2>3. SpentInv'
    BY <1>1, <1>3, <1>4, <1>5, <2>1 DEF SpentInv, Settled
  <2>4. cell = cells + 1
    BY <1>2, <1>4, <1>7 DEF RunInv
  <2>5. KeptInv'
    BY <1>1, <1>2, <1>4, <1>5, <2>1, <2>4 DEF KeptInv, Places
  <2>6. WrittenInv'
    BY <1>1, <1>2, <1>4, <1>5, <2>1, <2>4 DEF WrittenInv, OnDisk, Places
  <2> QED
    BY <1>3, <1>6, <2>2, <2>3, <2>5, <2>6 DEF Inv
<1>8. CASE ~ cell > cells
  <2>1. child' = 1 /\ at' = at /\ cell' = cell
    BY <1>8 DEF Observe
  <2>2. RunInv' /\ VettedInv'
    BY <1>1, <1>2, <1>3, <1>4, <1>5, <1>8, <2>1 DEF RunInv, VettedInv, Places
  <2>3. SpentInv' /\ KeptInv'
    BY <1>1, <1>2, <1>3, <1>4, <2>1 DEF SpentInv, KeptInv, Settled
  <2>4. WrittenInv'
    BY <1>1, <1>2, <1>4, <2>1 DEF WrittenInv, OnDisk, Digests
  <2> QED
    BY <1>3, <1>6, <2>2, <2>3, <2>4 DEF Inv
<1> QED
  BY <1>7, <1>8

\* A step of a child's own is where the run observes a cell.
LEMMA ChildStands ==
  ASSUME Inv, child > 0
  PROVE  /\ child \in 1 .. LastChild /\ at = CellsAt /\ cell \in 1 .. cells
         /\ (ChildStep = "OBSERVE") <=> (child = ObserveAt)
         /\ (ChildStep = "VALIDATE") <=> (child = ObserveAt + 1)
         /\ (ChildStep = "WRITE") <=> (~InProcess /\ child = ObserveAt + 2)
         /\ (ChildStep = "ORACLE") <=> (child = OracleAt)
         /\ (ChildStep = "HOOKS") <=> (script >= 4 /\ child = 5)
         /\ at > 0 /\ invocation \in 1 .. MaxInvocations /\ MaxInvocations \in Nat
<1>1. /\ script \in Scripts /\ RunInv /\ MaxInvocations \in Nat
  BY InstancesAssumption DEF Inv, ExtractionInv, TypeInv
<1>2. Places
  BY <1>1, StepsHavePlaces
<1>3. child \in 1 .. LastChild
  BY <1>1, <1>2 DEF RunInv, Places
<1> QED
  BY <1>1, <1>2, <1>3, WhichChildStep DEF RunInv, Places

\* The next check of an observation, or the end of the run.
LEMMA ChildCheckKeeps ==
  ASSUME Inv, ChildCheck
  PROVE  Inv'
<1>1. child > 0 /\ ChildStep \in {"PLAN", "IDS", "ABSENT", "ORACLE", "HOOKS"}
  BY DEF ChildCheck
<1>2. CASE ~ ChildHolds(ChildStep)
  <2>1. Stops("failed") /\ UNCHANGED sentBy
    BY <1>2 DEF ChildCheck
  <2>2. PICK how : how = "failed" /\ Stops(how) /\ how # "ok"
    BY <2>1
  <2> QED
    BY <2>1, <2>2, FailureKeeps
<1>3. CASE ChildHolds(ChildStep)
  <2>1. /\ child' = child + 1
        /\ UNCHANGED <<run, extraction, invocation, exit, at, cell, opened, records, disk, sentBy>>
    BY <1>3 DEF ChildCheck, ChildAdvance
  <2>2. /\ script \in Scripts /\ Places /\ cells \in Nat \ {0}
        /\ UNCHANGED <<cells, script, clients, drifted>>
        /\ (InProcess' <=> InProcess)
        /\ CellsAt' = CellsAt /\ CellsKeptAt' = CellsKeptAt /\ SummaryAt' = SummaryAt
        /\ ManifestAt' = ManifestAt /\ PrivacyAt' = PrivacyAt
        /\ OracleAt' = OracleAt /\ ObserveAt' = ObserveAt /\ LastChild' = LastChild
    BY <2>1, Standing
  <2>3. ExtractionInv' /\ point' = point /\ world' = world
    BY <2>1, ExtractionStays
  <2>4. RunInv /\ VettedInv /\ SpentInv /\ KeptInv /\ WrittenInv /\ SealedInv
    BY DEF Inv
  <2>5. /\ child \in 1 .. LastChild /\ at = CellsAt /\ child < ObserveAt
        /\ (ChildStep = "ORACLE") <=> (child = OracleAt)
        /\ (ChildStep = "HOOKS") <=> (script >= 4 /\ child = 5)
    <3>1. LastChild = IF InProcess THEN ObserveAt + 1 ELSE ObserveAt + 2
      BY DEF LastChild
    <3> QED
      BY <1>1, <2>2, <3>1, ChildStands DEF Places
  <2>6. RunInv'
    BY <2>1, <2>2, <2>3, <2>4, <2>5 DEF RunInv, Places
  <2>7. VettedInv'
    <3>1. child = OracleAt => "oracle" \notin drifted
      BY <1>3, <2>5 DEF ChildHolds
    <3>2. script >= 4 /\ child = 5 => "hooks" \notin drifted
      BY <1>3, <2>5 DEF ChildHolds
    <3> QED
      BY <2>1, <2>2, <2>4, <2>5, <3>1, <3>2 DEF VettedInv, Places
  <2>8. SpentInv' /\ KeptInv'
    BY <2>1, <2>2, <2>3, <2>4 DEF SpentInv, KeptInv, Settled
  <2>9. WrittenInv'
    BY <2>1, <2>2, <2>4 DEF WrittenInv, OnDisk, Digests
  <2>10. SealedInv'
    BY <2>1, <2>2, <2>4, <2>5, SealStays DEF SealedInv, RunInv, Places
  <2> QED
    BY <2>3, <2>6, <2>7, <2>8, <2>9, <2>10 DEF Inv
<1> QED
  BY <1>2, <1>3

\* Every request an extraction sends is the invocation's.
LEMMA ExtractKeeps ==
  ASSUME Inv, Extract
  PROVE  Inv'
<1>1. /\ child > 0 /\ ChildStep = "OBSERVE"
      /\ sentBy' = [sentBy EXCEPT ![invocation] = @ + world'.sent - world.sent]
      /\ UNCHANGED <<run, invocation, exit, at, cell, opened, records, disk>>
      /\ \/ point = "none" /\ FreshExtraction("construct") /\ child' = child
         \/ ExtractionStep /\ child' = child
         \/ point = "finished" /\ child' = child + 1 /\ UNCHANGED extraction
  BY DEF Extract, ChildAt, ChildAdvance
<1>2. /\ script \in Scripts /\ Places /\ cells \in Nat \ {0}
      /\ UNCHANGED <<cells, script, clients, drifted>>
      /\ (InProcess' <=> InProcess)
      /\ CellsAt' = CellsAt /\ CellsKeptAt' = CellsKeptAt /\ SummaryAt' = SummaryAt
      /\ ManifestAt' = ManifestAt /\ PrivacyAt' = PrivacyAt
      /\ OracleAt' = OracleAt /\ ObserveAt' = ObserveAt /\ LastChild' = LastChild
  BY <1>1, Standing
<1>3. /\ RunInv /\ VettedInv /\ SpentInv /\ KeptInv /\ WrittenInv /\ SealedInv
      /\ ExtractionInv /\ point \in Points /\ world.sent \in Nat
  BY BoundsAreNatural DEF Inv, ExtractionInv, TypeInv, CountInv
<1>4. /\ child = ObserveAt /\ at = CellsAt /\ at > 0 /\ cell \in 1 .. cells
      /\ invocation \in 1 .. MaxInvocations /\ MaxInvocations \in Nat
  BY <1>1, ChildStands
<1>5. ExtractionInv' /\ world'.sent - world.sent \in 0 .. 1
  <2>1. CASE point = "none" /\ FreshExtraction("construct")
    <3>1. PICK where \in {"none", "construct"} : where = "construct" /\ FreshExtraction(where)
      BY <2>1
    <3>2. ExtractionInv' /\ world'.sent = 0
      BY <1>2, <1>3, <3>1, FreshKeeps
    <3>3. world.sent = 0
      BY <1>3, <2>1 DEF ExtractionInv, CountInv
    <3> QED
      BY <3>2, <3>3
  <2>2. CASE ExtractionStep
    BY <1>2, <1>3, <2>2, ExtractionKeeps
  <2>3. CASE UNCHANGED extraction
    BY <1>1, <1>3, <2>3, ExtractionStays
  <2> QED
    BY <1>1, <2>1, <2>2, <2>3
<1>6. child' = child \/ (child' = child + 1 /\ point' = "finished")
  BY <1>1 DEF extraction
<1>7. RunInv'
  <2>1. child' \in 0 .. LastChild
    BY <1>2, <1>3, <1>4, <1>6 DEF RunInv, Places
  <2> QED
    BY <1>1, <1>2, <1>3, <1>4, <1>6, <2>1 DEF RunInv, Places
<1>8. VettedInv'
  <2>1. script >= 4 => ObserveAt = 6
    BY <1>2 DEF ObserveAt, InProcess, Scripts
  <2> QED
    BY <1>1, <1>2, <1>3, <1>4, <1>6, <2>1 DEF VettedInv, Places
<1>9. SpentInv'
  <2>1. world'.sent \in Nat
    BY <1>5, BoundsAreNatural DEF ExtractionInv, CountInv
  <2>2. sentBy[invocation] + world'.sent - world.sent \in Nat
    BY <1>3, <1>4, <1>5, <2>1 DEF SpentInv
  <2>3. /\ sentBy' \in [1 .. MaxInvocations -> Nat]
        /\ sentBy'[invocation] = sentBy[invocation] + world'.sent - world.sent
        /\ \A i \in 1 .. MaxInvocations : i # invocation => sentBy'[i] = sentBy[i]
    BY <1>1, <1>3, <1>4, <2>2 DEF SpentInv
  <2>4. Settled' = Settled
    <3>1. PICK total \in Nat : total = sentBy[invocation]
      BY <1>3, <1>4 DEF SpentInv
    <3>2. Settled' = (total + world'.sent - world.sent) - world'.sent
      BY <1>1, <2>3, <3>1 DEF Settled
    <3> QED
      BY <1>3, <2>1, <3>1, <3>2 DEF Settled
  <2> QED
    BY <1>1, <1>3, <1>4, <2>3, <2>4 DEF SpentInv
<1>10. KeptInv'
  BY <1>1, <1>2, <1>3 DEF KeptInv
<1>11. WrittenInv'
  BY <1>1, <1>2, <1>3 DEF WrittenInv, OnDisk, Digests
<1>12. SealedInv'
  BY <1>1, <1>2, <1>3, <1>4 DEF SealedInv, WrittenInv, Places
<1> QED
  BY <1>5, <1>7, <1>8, <1>9, <1>10, <1>11, <1>12 DEF Inv

\* A document tells how many requests there were, whatever else its summary does.
LEMMA DocumentTells ==
  ASSUME script \in Scripts
  PROVE  CellDocument.told.requests = seen.requests /\ CellDocument.commit = invocation
<1>1. PICK d : d = Document
  OBVIOUS
<1>2. d.requests = seen.requests
  BY <1>1 DEF Document
<1>3. Summary(script, d).requests = d.requests
  <2>1. CASE script = 0
    BY <2>1 DEF Summary, SummaryD0
  <2>2. CASE script = 1
    BY <2>2 DEF Summary, SummaryD1
  <2>3. CASE script = 2
    BY <2>3 DEF Summary, SummaryD2
  <2>4. CASE script = 3
    BY <2>4 DEF Summary, SummaryD3
  <2>5. CASE script = 4
    BY <2>5 DEF Summary, SummaryD4
  <2>6. CASE script = 5
    BY <2>6 DEF Summary, SummaryD5
  <2>7. CASE script = 6
    BY <2>7 DEF Summary, SummaryD6
  <2>8. CASE script = 7
    BY <2>8 DEF Summary, SummaryD7
  <2> QED
    BY <2>1, <2>2, <2>3, <2>4, <2>5, <2>6, <2>7, <2>8 DEF Scripts
<1> QED
  BY <1>1, <1>2, <1>3 DEF CellDocument

\* A cell is done when its document is kept, and the requests it sent are told by it.
LEMMA KeepingKeeps ==
  ASSUME Inv, child > ObserveAt, NEW doc, doc = CellDocument,
         records' = Append(records, doc), cell' = cell + 1, child' = 0,
         FreshExtraction("none"), UNCHANGED <<run, invocation, at, sentBy>>
  PROVE  /\ ExtractionInv' /\ RunInv' /\ VettedInv' /\ SpentInv' /\ KeptInv'
         /\ \A i \in 1 .. cell - 1 : records'[i] = records[i]
         /\ records'[cell] = doc
<1>1. UNCHANGED run
  OBVIOUS
<1>2. /\ script \in Scripts /\ Places /\ cells \in Nat \ {0}
      /\ UNCHANGED <<cells, script, clients, drifted>>
      /\ (InProcess' <=> InProcess)
      /\ CellsAt' = CellsAt /\ CellsKeptAt' = CellsKeptAt /\ SummaryAt' = SummaryAt
      /\ ManifestAt' = ManifestAt /\ PrivacyAt' = PrivacyAt
      /\ OracleAt' = OracleAt /\ ObserveAt' = ObserveAt /\ LastChild' = LastChild
  BY <1>1, Standing
<1>3. /\ RunInv /\ VettedInv /\ SpentInv /\ KeptInv /\ ExtractionInv
      /\ world.sent \in 0 .. MAX_METADATA_REQUESTS /\ seen.requests = world.sent
  BY DEF Inv, ExtractionInv, CountInv
<1>4. /\ at = CellsAt /\ at > 0 /\ cell \in 1 .. cells
      /\ invocation \in 1 .. MaxInvocations /\ MaxInvocations \in Nat
  BY <1>2, <1>3, ChildStands DEF RunInv, Places
<1>5. ExtractionInv' /\ point' = "none" /\ world'.sent = 0
  <2>1. PICK where \in {"none", "construct"} : where = "none" /\ FreshExtraction(where)
    OBVIOUS
  <2> QED
    BY <1>2, <1>3, <2>1, FreshKeeps
<1>6. RunInv'
  BY <1>2, <1>3, <1>4, <1>5 DEF RunInv, Places
<1>7. VettedInv'
  BY <1>2, <1>3, <1>4 DEF VettedInv, Places
<1>8. /\ IsSequence(records') /\ Len(records') = Len(records) + 1 /\ Len(records) \in Nat
      /\ DOMAIN records' = 1 .. Len(records) + 1 /\ DOMAIN records = 1 .. Len(records)
      /\ \A i \in 1 .. Len(records) : records'[i] = records[i]
      /\ records'[Len(records) + 1] = doc
  <2>1. PICK s, t : s = records /\ t = records'
    OBVIOUS
  <2>2. IsSequence(s) /\ t = Append(s, doc)
    BY <1>3, <2>1 DEF KeptInv
  <2>3. IsSequence(t) /\ Len(t) = Len(s) + 1 /\ Len(s) \in Nat
    BY ONLY <2>2, AppendAny
  <2>4. DOMAIN t = 1 .. Len(s) + 1 /\ \A i \in 1 .. Len(s) : t[i] = s[i]
    BY ONLY <2>2, AppendAny
  <2>5. DOMAIN s = 1 .. Len(s) /\ t[Len(s) + 1] = doc
    BY ONLY <2>2, AppendAny
  <2> QED
    BY <2>1, <2>3, <2>4, <2>5
<1>9. Len(records) = cell - 1
  BY <1>3, <1>4 DEF KeptInv
<1>10. KeptInv'
  BY <1>2, <1>3, <1>4, <1>8, <1>9 DEF KeptInv, Places
<1>11. SpentInv'
  <2>1. PICK n : n = world.sent
    OBVIOUS
  <2>2. doc.told.requests = n /\ doc.commit = invocation
    BY <1>2, <1>3, <2>1, DocumentTells
  <2>3. SumsTo(records', Settled + n)
    BY <1>3, <1>4, <2>2, AppendSum DEF SpentInv, KeptInv
  <2>4. Settled \in Nat /\ n \in Nat /\ sentBy[invocation] \in Nat
    BY <1>3, <1>4, <2>1, BoundsAreNatural DEF SpentInv
  <2>5. Settled' = Settled + n
    BY <1>5, <2>1, <2>4 DEF Settled
  <2>6. Settled' <= Len(records') * MAX_METADATA_REQUESTS
    <3>1. PICK k \in Nat, m \in Nat : k = Len(records) /\ m = MAX_METADATA_REQUESTS
      BY <1>8, BoundsAreNatural
    <3>2. (k + 1) * m = k * m + m
      OBVIOUS
    <3>3. Settled <= k * m /\ n <= m
      BY <1>3, <1>4, <2>1, <3>1, BoundsAreNatural DEF SpentInv
    <3>4. PICK p \in Nat : p = k * m
      OBVIOUS
    <3>5. Settled + n <= p + m
      BY <2>4, <3>1, <3>3, <3>4
    <3> QED
      BY <1>8, <2>5, <3>1, <3>2, <3>4, <3>5
  <2>7. \A i \in DOMAIN records' : records'[i].commit = invocation'
    BY <1>3, <1>4, <1>8, <2>2 DEF SpentInv
  <2> QED
    BY <1>3, <2>3, <2>4, <2>5, <2>6, <2>7 DEF SpentInv
<1>12. cell = Len(records) + 1
  BY <1>4, <1>8, <1>9
<1> QED
  BY <1>5, <1>6, <1>7, <1>8, <1>9, <1>10, <1>11, <1>12

\* An accepted document is kept, or goes on to be written.
LEMMA ValidateKeeps ==
  ASSUME Inv, Validate
  PROVE  Inv'
<1>1. child > 0 /\ ChildStep = "VALIDATE" /\ UNCHANGED sentBy
  BY DEF Validate, ChildAt
<1>2. child = ObserveAt + 1 /\ at = CellsAt /\ at > 0
  BY <1>1, ChildStands
<1>3. /\ RunInv /\ VettedInv /\ SpentInv /\ KeptInv /\ WrittenInv /\ SealedInv /\ script \in Scripts
  BY DEF Inv, ExtractionInv, TypeInv
<1>4. CASE ~Accepted
  <2>1. PICK how : how = "failed" /\ Stops(how) /\ how # "ok"
    BY <1>4 DEF Validate
  <2> QED
    BY <1>1, <2>1, FailureKeeps
<1>5. CASE Accepted /\ script <= 2
  <2>1. /\ records' = Append(records, CellDocument)
        /\ cell' = cell + 1 /\ child' = 0 /\ FreshExtraction("none")
        /\ UNCHANGED <<run, invocation, exit, at, opened, disk>>
    BY <1>5 DEF Validate
  <2>2. PICK doc : doc = CellDocument
    OBVIOUS
  <2>3. Places /\ UNCHANGED <<cells, script>> /\ (InProcess' <=> InProcess) /\ CellsKeptAt' = CellsKeptAt
        /\ SummaryAt' = SummaryAt /\ ManifestAt' = ManifestAt
    BY <2>1, Standing
  <2>4. ExtractionInv' /\ RunInv' /\ VettedInv' /\ SpentInv' /\ KeptInv'
    BY <1>1, <1>2, <2>1, <2>2, <2>3, KeepingKeeps DEF Places
  <2>5. WrittenInv'
    BY <1>2, <1>3, <1>5, <2>1, <2>3 DEF WrittenInv, InProcess, Places
  <2>6. SealedInv'
    BY <1>1, <1>2, <1>3, <2>1, <2>3, SealStays DEF SealedInv
  <2> QED
    BY <2>4, <2>5, <2>6 DEF Inv
<1>6. CASE Accepted /\ ~ script <= 2
  <2>1. /\ child' = child + 1
        /\ UNCHANGED <<run, extraction, records, cell, invocation, exit, at, opened, disk, sentBy>>
    BY <1>1, <1>6 DEF Validate, ChildAdvance
  <2>2. /\ script \in Scripts /\ Places /\ cells \in Nat \ {0}
        /\ UNCHANGED <<cells, script, clients, drifted>>
        /\ (InProcess' <=> InProcess)
        /\ CellsAt' = CellsAt /\ CellsKeptAt' = CellsKeptAt /\ SummaryAt' = SummaryAt
        /\ ManifestAt' = ManifestAt /\ PrivacyAt' = PrivacyAt
        /\ OracleAt' = OracleAt /\ ObserveAt' = ObserveAt /\ LastChild' = LastChild
    BY <2>1, Standing
  <2>3. ExtractionInv' /\ point' = point /\ world' = world
    BY <2>1, ExtractionStays
  <2>4. RunInv'
    <3>1. LastChild = ObserveAt + 2
      BY <1>6 DEF LastChild, InProcess
    <3> QED
      BY <1>2, <1>3, <2>1, <2>2, <2>3, <3>1 DEF RunInv, Places
  <2>5. VettedInv'
    <3>1. script >= 4 => ObserveAt = 6
      BY <2>2 DEF ObserveAt, InProcess, Scripts
    <3> QED
      BY <1>2, <1>3, <2>1, <2>2, <3>1 DEF VettedInv, Places
  <2>6. SpentInv' /\ KeptInv'
    BY <1>3, <2>1, <2>2, <2>3 DEF SpentInv, KeptInv, Settled
  <2>7. WrittenInv'
    BY <1>3, <2>1, <2>2 DEF WrittenInv, OnDisk, Digests
  <2>8. SealedInv'
    BY <1>2, <1>3, <2>1, <2>2, SealStays DEF SealedInv
  <2> QED
    BY <2>3, <2>4, <2>5, <2>6, <2>7, <2>8 DEF Inv
<1> QED
  BY <1>4, <1>5, <1>6

\* A child's file is its document's once it is written to its end.
LEMMA ChildWriteKeeps ==
  ASSUME Inv, ChildWrite
  PROVE  Inv'
<1>1. /\ child > 0 /\ ChildStep = "WRITE"
      /\ UNCHANGED <<run, invocation, exit, at, sentBy>>
  BY DEF ChildWrite, ChildAt
<1>2. /\ script \in Scripts /\ Places /\ cells \in Nat \ {0}
      /\ UNCHANGED <<cells, script, clients, drifted>>
      /\ (InProcess' <=> InProcess)
      /\ CellsAt' = CellsAt /\ CellsKeptAt' = CellsKeptAt /\ SummaryAt' = SummaryAt
      /\ ManifestAt' = ManifestAt /\ PrivacyAt' = PrivacyAt
      /\ OracleAt' = OracleAt /\ ObserveAt' = ObserveAt /\ LastChild' = LastChild
  BY <1>1, Standing
<1>3. /\ RunInv /\ VettedInv /\ SpentInv /\ KeptInv /\ WrittenInv /\ SealedInv
  BY DEF Inv
<1>4. /\ ~InProcess /\ child > ObserveAt /\ at = CellsAt /\ at > 0 /\ cell \in 1 .. cells
  BY <1>1, <1>2, ChildStands DEF Places
<1>5. disk.manifest.kind # "whole"
  BY <1>2, <1>3, <1>4 DEF WrittenInv, Places
<1>6. CASE ~opened
  <2>1. /\ disk' = [disk EXCEPT !.cells[cell] = Partial]
        /\ UNCHANGED <<extraction, child, cell, records>>
    BY <1>6 DEF ChildWrite
  <2>2. ExtractionInv' /\ point' = point /\ world' = world
    BY <1>1, <2>1, ExtractionStays
  <2>3. RunInv' /\ VettedInv' /\ KeptInv'
    BY <1>1, <1>2, <1>3, <2>1, <2>2 DEF RunInv, VettedInv, KeptInv
  <2>4. SpentInv'
    BY <1>1, <1>3, <2>1, <2>2 DEF SpentInv, Settled
  <2>5. /\ DOMAIN disk' = DOMAIN disk /\ disk'.manifest = disk.manifest
        /\ disk'.cells = [disk.cells EXCEPT ![cell] = Partial]
    BY <1>3, <2>1 DEF WrittenInv
  <2>6. WrittenInv'
    BY <1>1, <1>2, <1>3, <1>4, <2>1, <2>5 DEF WrittenInv, OnDisk, Places
  <2>7. SealedInv'
    BY <1>1, <1>3, <1>4, <1>5, <2>5 DEF SealedInv
  <2> QED
    BY <2>2, <2>3, <2>4, <2>6, <2>7 DEF Inv
<1>7. CASE opened
  <2>1. PICK doc : doc = CellDocument
    OBVIOUS
  <2>2. /\ disk' = [disk EXCEPT !.cells[cell] = Whole(doc)]
        /\ records' = Append(records, doc)
        /\ cell' = cell + 1 /\ child' = 0 /\ FreshExtraction("none")
    BY <1>7, <2>1 DEF ChildWrite
  <2>3. /\ ExtractionInv' /\ RunInv' /\ VettedInv' /\ SpentInv' /\ KeptInv'
        /\ \A i \in 1 .. cell - 1 : records'[i] = records[i]
        /\ records'[cell] = doc
    BY <1>1, <1>4, <2>1, <2>2, KeepingKeeps
  <2>4. /\ DOMAIN disk' = DOMAIN disk /\ disk'.manifest = disk.manifest
        /\ disk'.cells = [disk.cells EXCEPT ![cell] = Whole(doc)]
    BY <1>3, <2>2 DEF WrittenInv
  <2>5. \A i \in 1 .. cell' - 1 : OnDisk(i)'
    <3>1. \A i \in 1 .. cell - 1 : disk'.cells[i] = Whole(records'[i])
      BY <1>2, <1>3, <1>4, <2>3, <2>4 DEF WrittenInv, OnDisk, Places
    <3>2. disk'.cells[cell] = Whole(records'[cell])
      BY <1>3, <1>4, <2>3, <2>4 DEF WrittenInv
    <3>3. cell' - 1 = cell
      BY <1>4, <2>2
    <3> QED
      BY <1>4, <3>1, <3>2, <3>3 DEF OnDisk
  <2>6. WrittenInv'
    BY <1>1, <1>2, <1>3, <1>4, <2>4, <2>5 DEF WrittenInv, Places
  <2>7. SealedInv'
    BY <1>1, <1>3, <1>4, <1>5, <2>4 DEF SealedInv
  <2> QED
    BY <2>3, <2>6, <2>7 DEF Inv
<1> QED
  BY <1>6, <1>7

-------------------------------------------------------------------------------
(* The files at the end of a run *)

\* The documents that were kept are written one after the other.
LEMMA WriteCellsKeeps ==
  ASSUME Inv, WriteCells
  PROVE  Inv'
<1>1. /\ at > 0 /\ child = 0 /\ Step = "WRITE"
      /\ UNCHANGED <<run, extraction, invocation, exit, child, records, sentBy>>
  BY DEF WriteCells, At
<1>2. /\ script \in Scripts /\ Places /\ cells \in Nat \ {0}
      /\ UNCHANGED <<cells, script, clients, drifted>>
      /\ (InProcess' <=> InProcess)
      /\ CellsAt' = CellsAt /\ CellsKeptAt' = CellsKeptAt /\ SummaryAt' = SummaryAt
      /\ ManifestAt' = ManifestAt /\ PrivacyAt' = PrivacyAt
      /\ OracleAt' = OracleAt /\ ObserveAt' = ObserveAt /\ LastChild' = LastChild
  BY <1>1, Standing
<1>3. ExtractionInv' /\ point' = point /\ world' = world
  BY <1>1, ExtractionStays
<1>4. RunInv /\ VettedInv /\ SpentInv /\ KeptInv /\ WrittenInv /\ SealedInv
  BY DEF Inv
<1>5. InProcess /\ at = 7
  <2>1. at \in 1 .. PrivacyAt
    BY <1>1, <1>2, <1>4 DEF RunInv, Places
  <2> QED
    BY <1>1, <1>2, <2>1, WhichStep
<1>6. disk.manifest.kind # "whole" /\ at = CellsKeptAt /\ at > CellsAt
  BY <1>2, <1>4, <1>5 DEF WrittenInv, Places
<1>7. SpentInv'
  <2>1. at' > 0
    BY <1>5 DEF WriteCells, Advance
  <2> QED
    BY <1>1, <1>3, <1>4, <2>1 DEF SpentInv, Settled
<1>8. CASE cell > cells
  <2>1. at' = at + 1 /\ cell' = 1 /\ UNCHANGED disk
    BY <1>8 DEF WriteCells, Advance
  <2>2. cell = cells + 1
    BY <1>2, <1>4, <1>8 DEF RunInv
  <2>3. RunInv' /\ VettedInv' /\ KeptInv'
    BY <1>1, <1>2, <1>3, <1>4, <1>5, <2>1 DEF RunInv, VettedInv, KeptInv, Places
  <2>4. WrittenInv'
    BY <1>1, <1>2, <1>4, <1>5, <1>6, <2>1, <2>2 DEF WrittenInv, OnDisk, Places
  <2>5. SealedInv'
    BY <1>1, <1>2, <1>4, <2>1, SealStays DEF SealedInv
  <2> QED
    BY <1>3, <1>7, <2>3, <2>4, <2>5 DEF Inv
<1>9. CASE ~ cell > cells
  <2>1. PICK file : /\ file = IF opened THEN Whole(records[cell]) ELSE Partial
                    /\ disk' = [disk EXCEPT !.cells[cell] = file]
    BY <1>9 DEF WriteCells
  <2>2. at' = at /\ cell' = IF opened THEN cell + 1 ELSE cell
    BY <1>9 DEF WriteCells
  <2>3. cell \in 1 .. cells
    BY <1>2, <1>4, <1>9 DEF RunInv
  <2>4. RunInv' /\ VettedInv' /\ KeptInv'
    BY <1>1, <1>2, <1>3, <1>4, <1>5, <1>6, <2>2, <2>3 DEF RunInv, VettedInv, KeptInv, Places
  <2>5. /\ DOMAIN disk' = DOMAIN disk /\ disk'.manifest = disk.manifest
        /\ disk'.cells = [disk.cells EXCEPT ![cell] = file]
    BY <1>4, <2>1 DEF WrittenInv
  <2>6. \A i \in 1 .. cell' - 1 : OnDisk(i)'
    <3>1. \A i \in 1 .. cell - 1 : disk'.cells[i] = Whole(records'[i])
      BY <1>1, <1>4, <1>6, <2>3, <2>5 DEF WrittenInv, OnDisk
    <3>2. opened => disk'.cells[cell] = Whole(records'[cell])
      BY <1>1, <1>4, <2>1, <2>3, <2>5 DEF WrittenInv
    <3>3. CASE opened
      <4>1. cell' - 1 = cell
        BY <2>2, <2>3, <3>3
      <4> QED
        BY <2>3, <3>1, <3>2, <3>3, <4>1 DEF OnDisk
    <3>4. CASE ~opened
      <4>1. cell' = cell
        BY <2>2, <3>4
      <4> QED
        BY <3>1, <4>1 DEF OnDisk
    <3> QED
      BY <3>3, <3>4
  <2>7. WrittenInv'
    BY <1>2, <1>4, <1>5, <1>6, <2>2, <2>5, <2>6 DEF WrittenInv, Places
  <2>8. SealedInv'
    BY <1>1, <1>4, <1>6, <2>5 DEF SealedInv
  <2> QED
    BY <1>3, <1>7, <2>4, <2>7, <2>8 DEF Inv
<1> QED
  BY <1>8, <1>9

\* The summary is that of the documents the run has kept.
LEMMA WriteSummaryKeeps ==
  ASSUME Inv, WriteSummary
  PROVE  Inv'
<1>1. /\ at > 0 /\ child = 0 /\ Step = "SUMMARY"
      /\ UNCHANGED <<run, extraction, invocation, exit, child, records, sentBy>>
      /\ IF opened THEN at' = at + 1 /\ cell' = 1 ELSE at' = at /\ cell' = cell
  BY DEF WriteSummary, At, Advance
<1>2. /\ script \in Scripts /\ Places /\ cells \in Nat \ {0}
      /\ UNCHANGED <<cells, script, clients, drifted>>
      /\ (InProcess' <=> InProcess)
      /\ CellsAt' = CellsAt /\ CellsKeptAt' = CellsKeptAt /\ SummaryAt' = SummaryAt
      /\ ManifestAt' = ManifestAt /\ PrivacyAt' = PrivacyAt
      /\ OracleAt' = OracleAt /\ ObserveAt' = ObserveAt /\ LastChild' = LastChild
  BY <1>1, Standing
<1>3. ExtractionInv' /\ point' = point /\ world' = world
  BY <1>1, ExtractionStays
<1>4. RunInv /\ VettedInv /\ SpentInv /\ KeptInv /\ WrittenInv /\ SealedInv
  BY DEF Inv
<1>5. at = SummaryAt
  <2>1. at \in 1 .. PrivacyAt
    BY <1>1, <1>2, <1>4 DEF RunInv, Places
  <2> QED
    BY <1>1, <1>2, <2>1, WhichStep
<1>6. PICK file : /\ file = IF opened THEN Whole(BundleSummary(records)) ELSE Partial
                  /\ disk' = [disk EXCEPT !.summary = file]
  BY DEF WriteSummary
<1>7. /\ DOMAIN disk' = DOMAIN disk /\ disk'.manifest = disk.manifest
      /\ disk'.cells = disk.cells /\ disk'.summary = file
  BY <1>4, <1>6 DEF WrittenInv
<1>8. disk.manifest.kind # "whole" /\ at > CellsKeptAt /\ at > CellsAt
  BY <1>2, <1>4, <1>5 DEF WrittenInv, Places
<1>9. RunInv' /\ VettedInv' /\ KeptInv'
  BY <1>1, <1>2, <1>3, <1>4, <1>5, <1>8 DEF RunInv, VettedInv, KeptInv, Places
<1>10. SpentInv'
  BY <1>1, <1>2, <1>3, <1>4, <1>5 DEF SpentInv, Settled, Places
<1>11. WrittenInv'
  <2>1. \A i \in 1 .. cells : disk'.cells[i] = Whole(records'[i])
    BY <1>1, <1>4, <1>7, <1>8 DEF WrittenInv, OnDisk
  <2>2. opened => disk'.summary = Whole(BundleSummary(records'))
    BY <1>1, <1>6, <1>7
  <2>3. BundleSummary(records') = BundleSummary(records)'
    BY DEF BundleSummary, TotalRequests
  <2> QED
    BY <1>1, <1>2, <1>4, <1>5, <1>7, <1>8, <2>1, <2>2, <2>3 DEF WrittenInv, OnDisk, Places
<1>12. SealedInv'
  BY <1>1, <1>4, <1>7, <1>8 DEF SealedInv
<1> QED
  BY <1>3, <1>9, <1>10, <1>11, <1>12 DEF Inv

\* A file that is whole has its value.
LEMMA WholeHas ==
  ASSUME NEW file, NEW value, file = Whole(value)
  PROVE  file.kind = "whole" /\ file.value = value
BY DEF Whole

\* The documents on the disk are then those the run has kept.
LEMMA FilesAreRecords ==
  ASSUME Inv, at > CellsKeptAt
  PROVE  /\ CellDocs = records /\ Len(records) = cells
         /\ \A i \in 1 .. cells : /\ disk.cells[i] = Whole(records[i])
                                  /\ CellDocs[i].commit = invocation
         /\ SumsTo(CellDocs, sentBy[invocation])
         /\ sentBy[invocation] <= cells * MAX_METADATA_REQUESTS
<1>1. /\ RunInv /\ SpentInv /\ KeptInv /\ WrittenInv /\ ExtractionInv /\ script \in Scripts
      /\ MaxInvocations \in Nat
  BY InstancesAssumption DEF Inv, ExtractionInv, TypeInv
<1>2. Places
  BY <1>1, StepsHavePlaces
<1>3. at > CellsAt /\ at > 0 /\ invocation \in 1 .. MaxInvocations
  BY <1>1, <1>2 DEF RunInv, Places
<1>4. child = 0 /\ world.sent = 0
  BY <1>1, <1>2, <1>3 DEF RunInv, Places, ExtractionInv, CountInv
<1>5. Len(records) = cells
  BY <1>1, <1>2, <1>3 DEF KeptInv, RunInv
<1>6. \A i \in 1 .. cells : disk.cells[i] = Whole(records[i])
  BY <1>1 DEF WrittenInv, OnDisk
<1>7. DOMAIN records = 1 .. cells /\ records = [i \in 1 .. cells |-> records[i]]
  <2>1. PICK S : records \in Seq(S)
    BY <1>1 DEF KeptInv, IsSequence
  <2>2. records \in [1 .. Len(records) -> S]
    BY <2>1, LenProperties
  <2> QED
    BY <1>5, <2>2
<1>8. \A i \in 1 .. cells : disk.cells[i].value = records[i]
  <2> TAKE i \in 1 .. cells
  <2> QED
    BY <1>6, WholeHas
<1>9. CellDocs = records
  BY <1>7, <1>8 DEF CellDocs
<1>10. Settled = sentBy[invocation]
  BY <1>1, <1>3, <1>4 DEF Settled, SpentInv
<1>11. \A i \in 1 .. cells : CellDocs[i].commit = invocation
  BY <1>1, <1>3, <1>7, <1>9 DEF SpentInv
<1>12. SumsTo(CellDocs, sentBy[invocation])
  BY <1>1, <1>3, <1>9, <1>10 DEF SpentInv
<1>13. sentBy[invocation] <= cells * MAX_METADATA_REQUESTS
  BY <1>1, <1>3, <1>5, <1>10 DEF SpentInv
<1> QED
  BY <1>5, <1>6, <1>9, <1>11, <1>12, <1>13

\* The manifest seals the work of this invocation.
LEMMA WriteManifestKeeps ==
  ASSUME Inv, WriteManifest
  PROVE  Inv'
<1>1. /\ at > 0 /\ child = 0 /\ Step = "MANIFEST"
      /\ UNCHANGED <<run, extraction, invocation, exit, child, records, sentBy>>
      /\ IF opened THEN at' = at + 1 /\ cell' = 1 ELSE at' = at /\ cell' = cell
  BY DEF WriteManifest, At, Advance
<1>2. /\ script \in Scripts /\ Places /\ cells \in Nat \ {0}
      /\ UNCHANGED <<cells, script, clients, drifted>>
      /\ (InProcess' <=> InProcess)
      /\ CellsAt' = CellsAt /\ CellsKeptAt' = CellsKeptAt /\ SummaryAt' = SummaryAt
      /\ ManifestAt' = ManifestAt /\ PrivacyAt' = PrivacyAt
      /\ OracleAt' = OracleAt /\ ObserveAt' = ObserveAt /\ LastChild' = LastChild
  BY <1>1, Standing
<1>3. ExtractionInv' /\ point' = point /\ world' = world
  BY <1>1, ExtractionStays
<1>4. RunInv /\ VettedInv /\ SpentInv /\ KeptInv /\ WrittenInv /\ SealedInv
  BY DEF Inv
<1>5. at = ManifestAt
  <2>1. at \in 1 .. PrivacyAt
    BY <1>1, <1>2, <1>4 DEF RunInv, Places
  <2> QED
    BY <1>1, <1>2, <2>1, WhichStep
<1>6. PICK file : /\ file = IF opened THEN Whole(Digests) ELSE Partial
                  /\ disk' = [disk EXCEPT !.manifest = file]
  BY DEF WriteManifest
<1>7. /\ DOMAIN disk' = DOMAIN disk /\ disk'.manifest = file
      /\ disk'.cells = disk.cells /\ disk'.summary = disk.summary
  BY <1>4, <1>6 DEF WrittenInv
<1>8. at > CellsKeptAt /\ at > CellsAt
  BY <1>2, <1>5 DEF Places
<1>9. RunInv' /\ VettedInv' /\ KeptInv'
  BY <1>1, <1>2, <1>3, <1>4, <1>5, <1>8 DEF RunInv, VettedInv, KeptInv, Places
<1>10. SpentInv'
  BY <1>1, <1>2, <1>3, <1>4, <1>5 DEF SpentInv, Settled, Places
<1>11. WrittenInv'
  <2>1. \A i \in 1 .. cells : disk'.cells[i] = Whole(records'[i])
    BY <1>1, <1>4, <1>7, <1>8 DEF WrittenInv, OnDisk
  <2>2. disk'.summary = Whole(BundleSummary(records'))
    BY <1>1, <1>2, <1>4, <1>5, <1>7 DEF WrittenInv, Places
  <2>3. opened => disk'.manifest = Whole(Digests')
    BY <1>6, <1>7 DEF Digests
  <2>4. ~opened => disk'.manifest.kind # "whole"
    BY <1>6, <1>7 DEF Partial
  <2> QED
    BY <1>1, <1>2, <1>4, <1>5, <1>7, <1>8, <2>1, <2>2, <2>3, <2>4
       DEF WrittenInv, OnDisk, BundleSummary, TotalRequests, Places
<1>12. SealedInv'
  <2>1. SealedBy(invocation)'
    <3>1. CellDocs' = CellDocs
      BY <1>2, <1>7 DEF CellDocs
    <3>2. /\ \A i \in 1 .. cells : disk.cells[i] = Whole(records[i]) /\ CellDocs[i].commit = invocation
          /\ CellDocs = records /\ SumsTo(CellDocs, sentBy[invocation])
      BY <1>8, FilesAreRecords
    <3>3. \A i \in 1 .. cells : disk.cells[i].value.commit = invocation
      BY <3>2 DEF CellDocs
    <3> QED
      BY <1>1, <1>2, <1>7, <3>1, <3>2, <3>3 DEF SealedBy
  <2>2. invocation \in 1 .. invocation
    BY <1>1, <1>4 DEF RunInv
  <2> QED
    BY <1>1, <1>4, <2>1, <2>2 DEF SealedInv
<1> QED
  BY <1>3, <1>9, <1>10, <1>11, <1>12 DEF Inv

\* What any script's verification checks, and what all of them do.
LEMMA WhichChecks ==
  ASSUME script \in Scripts, script > 0
  PROVE  /\ VerifyChecks \subseteq {"PLAN", "FILES", "MANIFEST", "DIGESTS", "DOCUMENTS", "ONE_COMMIT",
                                   "COMMIT", "BUDGET", "SUMMARY", "PRIVACY"}
         /\ {"COMMIT", "SUMMARY"} \subseteq VerifyChecks
<1>1. script \in 1 .. 7
  BY DEF Scripts
<1> QED
  BY <1>1 DEF VerifyChecks, VerifyD1, VerifyD2, VerifyD3, VerifyD4, VerifyD5, VerifyD6, VerifyD7

\* A run that has written everything passes its own verification.
LEMMA CheckPrivacyKeeps ==
  ASSUME Inv, CheckPrivacy
  PROVE  Inv'
<1>1. /\ at > 0 /\ child = 0 /\ Step = "PRIVACY" /\ Stops("ok") /\ UNCHANGED sentBy
      /\ UNCHANGED <<run, invocation, disk>> /\ at' = 0
  BY DEF CheckPrivacy, At, Stops
<1>2. /\ script \in Scripts /\ Places /\ UNCHANGED <<script, cells, drifted>>
  BY <1>1, Standing
<1>3. RunInv /\ VettedInv /\ SpentInv /\ KeptInv /\ WrittenInv /\ SealedInv
  BY DEF Inv
<1>4. at = PrivacyAt
  <2>1. at \in 1 .. PrivacyAt
    BY <1>1, <1>2, <1>3 DEF RunInv, Places
  <2> QED
    BY <1>1, <1>2, <2>1, WhichStep
<1>5. at > 1 /\ at > CellsKeptAt /\ at > SummaryAt /\ at > ManifestAt
  BY <1>2, <1>4 DEF Places
<1>6. /\ CellDocs = records
      /\ \A i \in 1 .. cells : disk.cells[i] = Whole(records[i]) /\ CellDocs[i].commit = invocation
      /\ SumsTo(CellDocs, sentBy[invocation])
      /\ sentBy[invocation] <= cells * MAX_METADATA_REQUESTS
  BY <1>5, FilesAreRecords
<1>7. disk.summary = Whole(BundleSummary(CellDocs)) /\ disk.manifest = Whole(Digests)
  BY <1>3, <1>5, <1>6 DEF WrittenInv
<1>8. WholeBundle
  <2>1. \A i \in 1 .. cells : disk.cells[i].kind = "whole"
    <3> TAKE i \in 1 .. cells
    <3> QED
      BY <1>6, WholeHas
  <2> QED
    BY <1>7, <2>1, WholeHas DEF WholeBundle
<1>9. /\ disk.manifest.value = Digests
      /\ disk.summary.value = BundleSummary(CellDocs)
      /\ TotalRequests(CellDocs) <= cells * MAX_METADATA_REQUESTS
      /\ PlanOk(script, drifted)
  <2>1. TotalRequests(CellDocs) = sentBy[invocation]
    BY <1>6, TotalIsSum
  <2> QED
    BY <1>3, <1>5, <1>6, <1>7, <2>1 DEF VettedInv, Whole
<1>10. script > 0 => VerifyBundle(invocation)
  <2> SUFFICES ASSUME script > 0, NEW check \in VerifyChecks
               PROVE  Passes(check, invocation)
    BY <1>8 DEF VerifyBundle
  <2>1. check \in {"PLAN", "FILES", "MANIFEST", "DIGESTS", "DOCUMENTS", "ONE_COMMIT",
                   "COMMIT", "BUDGET", "SUMMARY", "PRIVACY"}
    BY <1>2, WhichChecks
  <2>2. CASE check \in {"PLAN", "FILES", "MANIFEST", "DIGESTS"}
    BY <1>8, <1>9, <2>2 DEF Passes
  <2>3. CASE check \in {"ONE_COMMIT", "COMMIT"}
    BY <1>6, <2>3 DEF Passes
  <2>4. CASE check \in {"BUDGET", "SUMMARY"}
    BY <1>9, <2>4 DEF Passes
  <2>5. CASE check \in {"DOCUMENTS", "PRIVACY"}
    BY <2>5 DEF Passes
  <2> QED
    BY <2>1, <2>2, <2>3, <2>4, <2>5
<1>11. VerifyBundle(invocation)' <=> VerifyBundle(invocation)
  BY <1>1, <1>2 DEF VerifyBundle, WholeBundle, VerifyChecks, Passes, Digests, CellDocs, BundleSummary,
                    TotalRequests
<1>12. PICK how : how = "ok" /\ Stops(how)
  BY <1>1
<1>13. /\ ExtractionInv' /\ RunInv' /\ VettedInv' /\ SpentInv' /\ KeptInv' /\ WrittenInv'
       /\ disk'.manifest.kind = "whole" => \E c \in 1 .. invocation' : SealedBy(c)'
  BY <1>1, <1>12, StopsKeeps
<1> QED
  BY <1>1, <1>2, <1>10, <1>11, <1>13 DEF Inv, SealedInv

-------------------------------------------------------------------------------
(* The theorems *)

\* Every step of a run keeps the invariant.
LEMMA InvNext ==
  Inv /\ [Next]_vars => Inv'
<1> SUFFICES ASSUME Inv, [Next]_vars
             PROVE  Inv'
  OBVIOUS
<1>1. ASSUME UNCHANGED vars
      PROVE  Inv'
  <2>1. UNCHANGED <<run, extraction, invocation, exit, at, cell, child, opened, records, disk, sentBy>>
    BY <1>1 DEF vars
  <2>2. /\ script \in Scripts /\ Places /\ cells \in Nat \ {0}
        /\ UNCHANGED <<cells, script, clients, drifted>>
        /\ (InProcess' <=> InProcess)
        /\ CellsAt' = CellsAt /\ CellsKeptAt' = CellsKeptAt /\ SummaryAt' = SummaryAt
        /\ ManifestAt' = ManifestAt /\ PrivacyAt' = PrivacyAt
        /\ OracleAt' = OracleAt /\ ObserveAt' = ObserveAt /\ LastChild' = LastChild
    BY <2>1, Standing
  <2>3. ExtractionInv' /\ point' = point /\ world' = world
    BY <2>1, ExtractionStays
  <2>4. RunInv /\ VettedInv /\ SpentInv /\ KeptInv /\ WrittenInv /\ SealedInv
    BY DEF Inv
  <2>5. RunInv' /\ VettedInv'
    BY <2>1, <2>2, <2>3, <2>4 DEF RunInv, VettedInv
  <2>6. SpentInv' /\ KeptInv'
    BY <2>1, <2>2, <2>3, <2>4 DEF SpentInv, KeptInv, Settled
  <2>7. WrittenInv'
    BY <2>1, <2>2, <2>4 DEF WrittenInv, OnDisk, Digests
  <2>8. VerifyBundle(invocation)' <=> VerifyBundle(invocation)
    BY <2>1, <2>2 DEF VerifyBundle, WholeBundle, VerifyChecks, Passes, Digests, CellDocs, BundleSummary,
                      TotalRequests
  <2>9. SealedInv'
    BY <2>1, <2>2, <2>4, <2>8, SealStays DEF SealedInv
  <2> QED
    BY <2>3, <2>5, <2>6, <2>7, <2>9 DEF Inv
<1>2. ASSUME Next
      PROVE  Inv'
  <2>1. CASE Start
    BY <2>1, StartKeeps
  <2>2. CASE Check
    BY <2>2, CheckKeeps
  <2>3. CASE Observe
    BY <2>3, ObserveKeeps
  <2>4. CASE ChildCheck
    BY <2>4, ChildCheckKeeps
  <2>5. CASE Extract
    BY <2>5, ExtractKeeps
  <2>6. CASE Validate
    BY <2>6, ValidateKeeps
  <2>7. CASE ChildWrite
    BY <2>7, ChildWriteKeeps
  <2>8. CASE Timeout
    <3>1. PICK how : how = "failed" /\ Stops(how) /\ how # "ok"
      BY <2>8 DEF Timeout
    <3> QED
      BY <2>8, <3>1, FailureKeeps DEF Timeout
  <2>9. CASE WriteCells
    BY <2>9, WriteCellsKeeps
  <2>10. CASE WriteSummary
    BY <2>10, WriteSummaryKeeps
  <2>11. CASE WriteManifest
    BY <2>11, WriteManifestKeeps
  <2>12. CASE CheckPrivacy
    BY <2>12, CheckPrivacyKeeps
  <2>13. CASE Kill
    <3>1. PICK how : how = "killed" /\ Stops(how) /\ how # "ok"
      BY <2>13 DEF Kill
    <3> QED
      BY <2>13, <3>1, FailureKeeps DEF Kill
  <2>14. CASE Done
    BY <1>1, <2>14 DEF Done
  <2> QED
    BY <1>2, <2>1, <2>2, <2>3, <2>4, <2>5, <2>6, <2>7, <2>8, <2>9, <2>10, <2>11, <2>12, <2>13, <2>14 DEF Next
<1> QED
  BY <1>1, <1>2

\* No run leaves the invariant.
LEMMA InvAlways ==
  Spec => []Inv
BY InvInit, InvNext, PTL DEF Spec

\* No request leaves an observation before its plan, its fixture, its release and
\* its hooks were found to be the frozen ones, none is beyond its budget, and an
\* accepted document has counted each (DiagnosticCapture.next_request()).
THEOREM RequestsVettedAndCounted ==
  Spec => []RequestsAreAccountedFor
<1>1. Inv => RequestsAreAccountedFor
  <2> SUFFICES ASSUME Inv
               PROVE  RequestsAreAccountedFor
    OBVIOUS
  <2>1. ExtractionInv /\ RunInv /\ VettedInv /\ script \in Scripts
    BY DEF Inv, ExtractionInv, TypeInv
  <2>2. Places
    BY <2>1, StepsHavePlaces
  <2>3. ASSUME world.sent > 0
        PROVE  /\ PlanOk(script, drifted) /\ "source" \notin drifted /\ "oracle" \notin drifted
               /\ script >= 3 => "interpreter" \notin drifted
               /\ script >= 4 => "hooks" \notin drifted
    <3>1. point # "none"
      BY <2>1, <2>3 DEF ExtractionInv, CountInv
    <3>2. child >= ObserveAt /\ child > OracleAt /\ at = CellsAt
      BY <2>1, <2>2, <3>1 DEF RunInv, Places
    <3>3. script >= 3 => ~InProcess /\ at > 4
      BY <2>1, <2>2, <3>2 DEF InProcess, Scripts, Places
    <3>4. script >= 4 => child > 5
      <4>1. script >= 4 => ObserveAt = 6
        BY <2>1 DEF ObserveAt, InProcess, Scripts
      <4> QED
        BY <2>1, <2>2, <3>2, <4>1 DEF RunInv, Places
    <3>5. at > 2
      BY <2>2, <3>2 DEF Places
    <3> QED
      BY <2>1, <3>2, <3>3, <3>4, <3>5 DEF VettedInv, RunInv
  <2>4. world.sent <= MAX_METADATA_REQUESTS
    BY <2>1, BoundsAreNatural DEF ExtractionInv, CountInv
  <2>5. Document.requests = world.sent
    BY <2>1 DEF Document, ExtractionInv, CountInv
  <2> QED
    BY <2>3, <2>4, <2>5 DEF RequestsAreAccountedFor
<1> QED
  BY <1>1, InvAlways, PTL

\* A run that ends well has left a bundle that verify_bundle() accepts for its
\* commit, and any bundle it accepts has all the requests of the invocation whose
\* commit it is given, whatever others did in the same directory.
THEOREM BundlesAreOfOneRun ==
  Spec => []BundleAgreesWithRun
<1>1. Inv => BundleAgreesWithRun
  <2> SUFFICES ASSUME Inv
               PROVE  BundleAgreesWithRun
    OBVIOUS
  <2>1. SealedInv /\ RunInv /\ script \in Scripts
    BY DEF Inv, ExtractionInv, TypeInv
  <2>2. ASSUME NEW commit \in 1 .. invocation, VerifyBundle(commit)
        PROVE  disk.summary.value.requests = sentBy[commit]
    <3>1. script > 0 /\ disk.manifest.kind = "whole"
      BY <2>2 DEF VerifyBundle, WholeBundle
    <3>2. PICK c \in 1 .. invocation : SealedBy(c)
      BY <2>1, <3>1 DEF SealedInv
    <3>3. "COMMIT" \in VerifyChecks /\ "SUMMARY" \in VerifyChecks
      BY <2>1, <3>1, WhichChecks
    <3>4. Passes("COMMIT", commit) /\ Passes("SUMMARY", commit)
      BY <2>2, <3>3 DEF VerifyBundle
    <3>5. CellDocs[1].commit = commit /\ 1 \in 1 .. cells
      BY <2>1, <3>4 DEF Passes, RunInv
    <3>6. c = commit
      BY <3>2, <3>5 DEF SealedBy, CellDocs
    <3>7. TotalRequests(CellDocs) = sentBy[commit]
      BY <3>2, <3>6, TotalIsSum DEF SealedBy
    <3>8. disk.summary.value = BundleSummary(CellDocs)
      BY <3>4 DEF Passes
    <3> QED
      BY <3>7, <3>8 DEF BundleSummary
  <2> QED
    BY <2>1, <2>2 DEF SealedInv, BundleAgreesWithRun
<1> QED
  BY <1>1, InvAlways, PTL

-------------------------------------------------------------------------------
(* What an extraction shows of itself, in the document as in what happened *)

\* What may be in flight.
Errors == {"NONE", "CONTRACT", "OTHER"} \cup ExtractorErrors

\* D4's first event, and its last of a call of YoutubeIE that returned.
Began == <<"VIDEO_EXTRACT", "ENTER">>
Returned == <<"VIDEO_EXTRACT", "RETURN">>

\* How far the extraction got, and what observe_cell() makes of its end.
StageInv ==
    /\ stage \in ExtractorStages /\ error \in Errors /\ completed \in BOOLEAN
    /\ completed <=> stage = "MAPPING_RETURNED"
    /\ point \in {"none", "construct"} => stage = "INITIALIZATION_FAILED"
    /\ point \in {"extract", "inside", "process"} => stage = "EXTRACT_INFO_RAISED"
    /\ point \in {"none", "construct", "extract", "process"} => error = "NONE"
    /\ point \in {"exit", "finished"} /\ error = "NONE"
        => stage \in {"MAPPING_RETURNED", "NON_MAPPING_RETURNED"}
    /\ world.ie \in {"NONE", "ENTERED", "RETURNED"}
    /\ point \in {"none", "construct", "extract"} \/ stage = "INITIALIZATION_FAILED" => world.ie = "NONE"
    /\ point = "inside" => world.ie = "ENTERED"
    /\ point = "process" \/ stage \in {"MAPPING_RETURNED", "NON_MAPPING_RETURNED"} => world.ie = "RETURNED"
    /\ world.ie = "NONE" => seen = NothingSeen /\ world = NothingHappened
    /\ seen.answers \in Seq(Answers) /\ Len(seen.answers) = seen.requests

\* YoutubeIE extracts, then selects; nothing is called by the selection.
Nested(frames) ==
    /\ frames # <<>> => frames[1].next \in 1 .. 3
    /\ Len(frames) > 1 =>
        \/ frames[1].next = 2 /\ frames[2].name = "INITIAL_EXTRACT"
        \/ frames[1].next = 3 /\ frames[2].name = "FORMAT_SELECTION" /\ Len(frames) = 2
    /\ \A i \in 3 .. Len(frames) : frames[i].name \notin {"INITIAL_EXTRACT", "FORMAT_SELECTION"}

\* Calls are in progress inside extract_info() only.
NestInv == ((stack = <<>>) <=> (point # "inside")) /\ Nested(stack)

\* g[n] is what the first n events leave.
Follows(g, trace) ==
    g = [n \in 0 .. Len(trace) |-> IF n = 0 THEN <<>> ELSE AfterEvent(g[n - 1], trace[n])]

\* What Unwound() finds of a trace, whatever function it takes for its own.
UnwindsTo(trace, names) ==
    /\ \E g : Follows(g, trace)
    /\ \A g : Follows(g, trace) => g[Len(trace)] = names
Raises(event) == event[2] = "RAISE"
RaiseIn(trace) == \E i \in DOMAIN trace : Raises(trace[i])

\* What D5 has observed, as D4 traced it.
Selected == <<"FORMAT_SELECTION", "RETURN">>
Selections(trace) == {i \in DOMAIN trace : trace[i] = Selected}
SelectedOnce(trace) == \E i \in DOMAIN trace : Selections(trace) = {i}

\* The phases that are entered are the calls in progress, unless an event had no
\* place: then the trace stays full, and what it shows as entered stays entered.
Names(frames) == [i \in DOMAIN frames |-> frames[i].name]

TraceInv ==
    script >= 4 =>
    /\ Len(seen.trace) <= MAX_STAGE_EVENTS
    /\ ~world.ceiling => UnwindsTo(seen.trace, Names(stack))
    /\ world.ceiling =>
        /\ TraceFull /\ world.ie = "ENTERED"
        /\ point = "inside" => error = "CONTRACT"
        /\ \E names : names # <<>> /\ UnwindsTo(seen.trace, names)
    /\ world.ie # "NONE" => seen.trace # <<>> /\ seen.trace[1] = Began
    /\ world.ie = "RETURNED" => Last(seen.trace) = Returned
    /\ point \in {"exit", "finished"} /\ world.ie = "ENTERED" /\ ~world.ceiling
        => Last(seen.trace) = Raised
    /\ world.swallowed => RaiseIn(seen.trace)
    /\ RaiseIn(seen.trace) /\ ~world.swallowed =>
        /\ ~completed
        /\ point \in {"inside", "process"} => error # "NONE"
    /\ IF world.selection = "RETURNED" THEN SelectedOnce(seen.trace)
       ELSE Selections(seen.trace) = {}

\* What became of the selection of formats, by the place of the calls in progress.
SelectInv ==
    /\ world.selection \in {"NONE", "ENTERED", "RETURNED", "RAISED"}
    /\ world.emitted \in Nat
    /\ world.emitted > 0 => world.selection # "NONE"
    /\ point = "inside" =>
        /\ stack[1].next <= 2 => world.selection = "NONE" /\ seen.selections = 0
        /\ stack[1].next = 3 /\ Len(stack) = 2 => world.selection = "ENTERED"
        /\ stack[1].next = 3 /\ Len(stack) = 1 /\ error = "NONE" => world.selection = "RETURNED"
    /\ world.verdict => world.selection = "RETURNED" /\ world.emitted = 0

\* D5 counts a selection once it has returned, and the verdict when it is given.
FormatsInv ==
    script >= 5 =>
    /\ seen.observations = IF world.selection = "RETURNED" THEN 1 ELSE 0
    /\ seen.population = IF world.selection # "RETURNED" THEN "UNKNOWN"
                         ELSE IF world.emitted = 0 THEN "EMPTY" ELSE "NONEMPTY"
    /\ seen.noFormats \in Nat /\ seen.drm \in Nat /\ seen.drm <= seen.noFormats

\* D6 and D7 count the selection when it is called, and hold what they copied.
ShapesInv ==
    /\ world.initial \in Seq(Shapes) /\ Len(world.initial) <= 1 /\ world.api \in Seq(Shapes)
    /\ script >= 6 =>
        /\ seen.yields = world.emitted /\ seen.yields <= MAX_FORMAT_YIELDS
        /\ seen.selections \in {0, 1}
        /\ world.selection # "NONE" => seen.selections = 1
        /\ seen.selections = 1 => world.selection # "NONE" \/ world.ceiling
        /\ seen.selected = IF seen.selections = 1 THEN seen.post ELSE <<>>
        /\ seen.pre \in Seq(Shapes) /\ Len(seen.pre) <= MAX_RESPONSES
        /\ seen.post \in Seq(Shapes) /\ Len(seen.post) <= MAX_RESPONSES
    /\ script = 7 =>
        /\ seen.calls = seen.selections
        /\ Len(seen.initial) <= 1
        /\ seen.api \in Seq(Shapes) /\ seen.normalized \in Seq(Shapes)
        /\ seen.pre = D6Views(seen.api) /\ seen.post = D6Views(seen.normalized)
        /\ seen.chosen = IF seen.selections = 1 THEN seen.normalized ELSE <<>>

DocInv == StageInv /\ NestInv /\ TraceInv /\ SelectInv /\ FormatsInv /\ ShapesInv

\* D6's copy of what the API's parser returned is complete, up to a limit of the probe.
Parsed == script >= 6 => seen.pre = D6Views(world.api)

ParsedInv ==
    /\ seen.skips \in 0 .. MAX_POT_REPORTS
    /\ point \in {"none", "construct", "extract"} => Parsed
    /\ point = "inside" /\ error # "CONTRACT" => Parsed
    /\ world.verdict => Parsed

ObservedInv == DocInv /\ ParsedInv

-------------------------------------------------------------------------------
(* Traces *)

\* Unwound() is that sequence.
LEMMA UnwoundIs ==
  ASSUME NEW trace, NEW names, UnwindsTo(trace, names)
  PROVE  Unwound(trace) = names
<1> DEFINE u == CHOOSE g : Follows(g, trace)
<1>1. Follows(u, trace)
  BY DEF UnwindsTo
<1>2. Unwound(trace) = u[Len(trace)]
  BY DEF Unwound, Follows
<1> QED
  BY <1>1, <1>2 DEF UnwindsTo

\* Nothing is entered before the first event.
LEMMA NothingEntered ==
  UnwindsTo(<<>>, <<>>)
<1> DEFINE w == [n \in 0 .. 0 |-> <<>>]
<1>1. Follows(w, <<>>)
  BY DEF Follows
<1>2. ASSUME NEW g, Follows(g, <<>>)
      PROVE  g[Len(<<>>)] = <<>>
  BY <1>2 DEF Follows
<1> QED
  BY <1>1, <1>2 DEF UnwindsTo

\* One more event enters or leaves one phase.
LEMMA EventUnwinds ==
  ASSUME NEW trace \in Seq(Event), NEW names, UnwindsTo(trace, names),
         NEW event \in Event, NEW more, more = Append(trace, event),
         NEW left, left = AfterEvent(names, event)
  PROVE  UnwindsTo(more, left)
<1>1. PICK k : k = Len(trace)
  OBVIOUS
<1>2. /\ Len(more) = k + 1 /\ k \in Nat
      /\ \A i \in 1 .. k : more[i] = trace[i]
      /\ more[k + 1] = event
  BY <1>1, AppendOne
<1>3. \E g : Follows(g, more)
  <2>1. PICK f : Follows(f, trace) /\ f[k] = names
    BY <1>1 DEF UnwindsTo
  <2>2. f = [i \in 0 .. k |-> IF i = 0 THEN <<>> ELSE AfterEvent(f[i - 1], trace[i])]
    BY <1>1, <2>1 DEF Follows
  <2>3. PICK g : g = [i \in 0 .. k + 1 |-> IF i = k + 1 THEN left ELSE f[i]]
    OBVIOUS
  <2>4. ASSUME NEW i \in 0 .. k + 1
        PROVE  g[i] = IF i = 0 THEN <<>> ELSE AfterEvent(g[i - 1], more[i])
    <3>1. CASE i = k + 1
      <4>1. g[i] = left /\ i - 1 = k /\ k \in 0 .. k + 1 /\ k # k + 1
        BY <1>2, <2>3, <3>1
      <4>2. g[i - 1] = names
        BY <2>1, <2>3, <4>1
      <4>3. more[i] = event /\ i # 0
        BY <1>2, <3>1
      <4> QED
        BY <4>1, <4>2, <4>3
    <3>2. CASE i = 0
      BY <1>2, <2>2, <2>3, <3>2
    <3>3. CASE i \in 1 .. k
      <4>1. g[i] = f[i] /\ g[i - 1] = f[i - 1] /\ more[i] = trace[i] /\ i # 0 /\ i \in 0 .. k
        BY <1>2, <2>3, <3>3
      <4>2. f[i] = AfterEvent(f[i - 1], trace[i])
        BY <2>2, <4>1
      <4> QED
        BY <4>1, <4>2
    <3> QED
      BY <1>2, <3>1, <3>2, <3>3
  <2>5. g = [i \in 0 .. k + 1 |-> IF i = 0 THEN <<>> ELSE AfterEvent(g[i - 1], more[i])]
    BY <2>3, <2>4
  <2> QED
    BY <1>2, <2>5 DEF Follows
<1>4. ASSUME NEW g, Follows(g, more)
      PROVE  g[Len(more)] = left
  <2>1. g = [i \in 0 .. k + 1 |-> IF i = 0 THEN <<>> ELSE AfterEvent(g[i - 1], more[i])]
    BY <1>2, <1>4 DEF Follows
  <2>2. PICK f : f = [i \in 0 .. k |-> g[i]]
    OBVIOUS
  <2>3. ASSUME NEW i \in 0 .. k
        PROVE  f[i] = IF i = 0 THEN <<>> ELSE AfterEvent(f[i - 1], trace[i])
    <3>1. f[i] = g[i] /\ i \in 0 .. k + 1
      BY <1>2, <2>2
    <3>2. g[i] = IF i = 0 THEN <<>> ELSE AfterEvent(g[i - 1], more[i])
      BY <2>1, <3>1
    <3>3. i # 0 => f[i - 1] = g[i - 1] /\ more[i] = trace[i]
      BY <1>2, <2>2
    <3> QED
      BY <3>1, <3>2, <3>3
  <2>4. f = [i \in 0 .. k |-> IF i = 0 THEN <<>> ELSE AfterEvent(f[i - 1], trace[i])]
    BY <2>2, <2>3
  <2>5. f[k] = names
    BY <1>1, <2>4 DEF Follows, UnwindsTo
  <2>6. k \in 0 .. k /\ k + 1 \in 0 .. k + 1 /\ k + 1 # 0 /\ k + 1 - 1 = k
    BY <1>2
  <2>7. g[k + 1] = AfterEvent(g[k], more[k + 1])
    <3>1. \A i \in 0 .. k + 1 : g[i] = IF i = 0 THEN <<>> ELSE AfterEvent(g[i - 1], more[i])
      BY ONLY <2>1
    <3> QED
      BY ONLY <2>6, <3>1
  <2> QED
    BY <1>2, <2>2, <2>5, <2>6, <2>7
<1> QED
  BY <1>3, <1>4 DEF UnwindsTo

\* The names of calls in progress.
LEMMA NamesOf ==
  ASSUME NEW frames \in Seq(Frame), NEW names, names = Names(frames)
  PROVE  /\ names \in Seq(Stages) /\ Len(names) = Len(frames) /\ DOMAIN names = 1 .. Len(frames)
         /\ \A i \in 1 .. Len(frames) : names[i] = frames[i].name
         /\ frames # <<>> => names # <<>>
<1>1. DOMAIN frames = 1 .. Len(frames) /\ Len(frames) \in Nat
  OBVIOUS
<1>2. \A i \in 1 .. Len(frames) : frames[i].name \in Stages
  <2>1. \A i \in 1 .. Len(frames) : frames[i] \in Frame
    BY ElementOfSeq
  <2> QED
    BY <2>1 DEF Frame
<1>3. names = [i \in 1 .. Len(frames) |-> frames[i].name]
  BY <1>1 DEF Names
<1>4. names \in Seq(Stages) /\ Len(names) = Len(frames) /\ \A i \in 1 .. Len(frames) : names[i] = frames[i].name
  BY <1>1, <1>2, <1>3
<1>5. frames # <<>> => Len(frames) # 0
  OBVIOUS
<1> QED
  BY <1>3, <1>4, <1>5

\* Once one more is entered.
LEMMA NamesEnter ==
  ASSUME NEW frames \in Seq(Frame), NEW frame \in Frame, NEW more, more = Append(frames, frame)
  PROVE  Names(more) = Append(Names(frames), frame.name)
<1>1. /\ more \in Seq(Frame) /\ DOMAIN more = 1 .. Len(frames) + 1 /\ DOMAIN frames = 1 .. Len(frames)
      /\ Len(frames) \in Nat
      /\ \A i \in 1 .. Len(frames) : more[i] = frames[i]
      /\ more[Len(frames) + 1] = frame
  BY AppendOne
<1>2. PICK names : names = Names(frames)
  OBVIOUS
<1>3. names \in Seq(Stages) /\ Len(names) = Len(frames) /\ \A i \in 1 .. Len(frames) : names[i] = frames[i].name
  BY <1>2, NamesOf
<1>4. PICK u : u = Append(names, frame.name)
  OBVIOUS
<1>5. /\ u \in Seq(Stages) /\ DOMAIN u = 1 .. Len(frames) + 1
      /\ \A i \in 1 .. Len(frames) : u[i] = frames[i].name
      /\ u[Len(frames) + 1] = frame.name
  <2>1. frame.name \in Stages
    BY DEF Frame
  <2> QED
    BY <1>3, <1>4, <2>1, AppendOne
<1>6. u = [i \in 1 .. Len(frames) + 1 |-> more[i].name]
  <2>1. \A i \in 1 .. Len(frames) + 1 : u[i] = more[i].name
    BY <1>1, <1>5
  <2>2. u = [i \in 1 .. Len(frames) + 1 |-> u[i]]
    BY <1>5
  <2> QED
    BY <2>1, <2>2
<1> QED
  BY <1>1, <1>2, <1>4, <1>6 DEF Names

\* And once the innermost is left.
LEMMA NamesLeave ==
  ASSUME NEW frames \in Seq(Frame), frames # <<>>, NEW rest, rest = Front(frames), NEW top, top = Last(frames)
  PROVE  Last(Names(frames)) = top.name /\ Names(rest) = Front(Names(frames))
<1>1. /\ rest \in Seq(Frame) /\ DOMAIN rest = 1 .. Len(frames) - 1 /\ DOMAIN frames = 1 .. Len(frames)
      /\ Len(frames) \in Nat \ {0} /\ top = frames[Len(frames)]
      /\ \A i \in 1 .. Len(frames) - 1 : rest[i] = frames[i]
  BY FrontOne
<1>2. PICK names : names = Names(frames)
  OBVIOUS
<1>3. Len(names) = Len(frames) /\ \A i \in 1 .. Len(frames) : names[i] = frames[i].name
  BY <1>2, NamesOf
<1>4. names \in Seq(Stages) /\ names # <<>>
  BY <1>2, NamesOf
<1>5. PICK u : u = Front(names)
  OBVIOUS
<1>6. /\ u \in Seq(Stages) /\ DOMAIN u = 1 .. Len(names) - 1
      /\ \A i \in 1 .. Len(names) - 1 : u[i] = names[i]
      /\ Last(names) = names[Len(names)]
  BY ONLY <1>4, <1>5, FrontOne
<1>7. u = [i \in 1 .. Len(frames) - 1 |-> rest[i].name]
  <2>1. \A i \in 1 .. Len(frames) - 1 : u[i] = rest[i].name
    BY <1>1, <1>3, <1>6
  <2>2. u = [i \in 1 .. Len(frames) - 1 |-> u[i]]
    BY <1>3, <1>6
  <2> QED
    BY <2>1, <2>2
<1>8. Names(rest) = u
  BY <1>1, <1>7 DEF Names
<1>9. Last(names) = top.name
  BY <1>1, <1>3, <1>6
<1> QED
  BY <1>2, <1>5, <1>8, <1>9

-------------------------------------------------------------------------------
(* Calls in progress *)

\* What each phase calls: only YoutubeIE's own call extracts and selects.
LEMMA CallsNest ==
  ASSUME clients \in Nat, NEW top \in Frame, top.next <= Len(Calls(top.name)),
         NEW name, name = Calls(top.name)[top.next]
  PROVE  /\ top.name = "VIDEO_EXTRACT" =>
              \/ top.next = 1 /\ name = "INITIAL_EXTRACT"
              \/ top.next = 2 /\ name = "FORMAT_SELECTION"
         /\ top.name # "VIDEO_EXTRACT" =>
              name \notin {"INITIAL_EXTRACT", "FORMAT_SELECTION"} /\ top.name # "FORMAT_SELECTION"
<1>1. top.next \in Nat \ {0} /\ top.name \in Stages
  BY DEF Frame
<1>2. CASE top.name = "VIDEO_EXTRACT"
  <2>1. Calls(top.name) = <<"INITIAL_EXTRACT", "FORMAT_SELECTION">>
    BY <1>2 DEF Calls
  <2>2. top.next \in 1 .. 2
    BY <1>1, <2>1
  <2> QED
    BY <1>2, <2>1, <2>2
<1>3. CASE top.name = "INITIAL_EXTRACT"
  <2>1. Calls(top.name) = <<"WEBPAGE_FETCH", "INITIAL_DATA", "CLIENT_SELECTION", "PLAYER_RESPONSES">>
    BY <1>3 DEF Calls
  <2>2. top.next \in 1 .. 4
    BY <1>1, <2>1
  <2> QED
    BY <1>3, <2>1, <2>2
<1>4. CASE top.name = "PLAYER_RESPONSES"
  <2>1. Calls(top.name) = [i \in 1 .. clients |-> "PLAYER_RESPONSE"]
    BY <1>4 DEF Calls
  <2>2. Len(Calls(top.name)) = clients
    BY <2>1
  <2>3. top.next \in 1 .. clients
    BY <1>1, <2>2
  <2> QED
    BY <1>4, <2>1, <2>3
<1>5. CASE top.name \notin {"VIDEO_EXTRACT", "INITIAL_EXTRACT", "PLAYER_RESPONSES"}
  <2>1. Calls(top.name) = <<>>
    BY <1>5 DEF Calls
  <2> QED
    BY <1>1, <2>1
<1> QED
  BY <1>2, <1>3, <1>4, <1>5

\* The calls in progress once one is entered.
LEMMA EnterNests ==
  ASSUME ExtractionInv, StageInv, NestInv, NEW name \in Stages, Enter(name)
  PROVE  /\ NestInv'
         /\ (stack = <<>>) <=> (name = "VIDEO_EXTRACT")
         /\ stack # <<>> => stack[1].next \in 1 .. 2 /\ point = "inside" /\ error = "NONE"
         /\ stack = <<>> => point = "extract" /\ ~TraceFull
         /\ Names(stack) \in Seq(Stages)
         /\ IF TraceFull THEN error' = "CONTRACT"
            ELSE error' = error /\ Names(stack') = Append(Names(stack), name)
         /\ stack' # <<>> =>
             IF name = "FORMAT_SELECTION" THEN stack'[1].next = 3 /\ Len(stack') = (IF TraceFull THEN 1 ELSE 2)
             ELSE stack'[1].next \in 1 .. 2
<1>1. PICK called : called = IF stack = <<>> THEN <<>>
                             ELSE Append(Front(stack), [Top EXCEPT !.next = @ + 1])
  OBVIOUS
<1>2. /\ \/ point = "extract" /\ name = "VIDEO_EXTRACT"
         \/ point = "inside" /\ error = "NONE" /\ stack # <<>> /\ ~CalledAll
            /\ name = Calls(Top.name)[Top.next]
      /\ point' = "inside"
      /\ \/ TraceFull /\ error' = "CONTRACT" /\ stack' = called
         \/ ~TraceFull /\ error' = error /\ stack' = Append(called, [name |-> name, next |-> 1])
  BY <1>1 DEF Enter
<1>3. stack \in Seq(Frame) /\ clients \in Nat /\ ((stack = <<>>) <=> (point # "inside"))
  BY DEF ExtractionInv, TypeInv, NestInv
<1>4. PICK frame \in Frame : frame = [name |-> name, next |-> 1]
  <2>1. [name |-> name, next |-> 1] \in [name : Stages, next : Nat \ {0}]
    OBVIOUS
  <2> QED
    BY <2>1 DEF Frame
<1>5. frame.name = name /\ frame.next = 1
  BY <1>4
<1>6. CASE point = "extract" /\ name = "VIDEO_EXTRACT"
  <2>1. stack = <<>> /\ called = <<>> /\ called \in Seq(Frame)
    BY <1>1, <1>3, <1>6
  <2>2. Names(stack) = <<>>
    BY <2>1 DEF Names
  <2>3. ~TraceFull
    <3>1. seen.trace = <<>>
      BY <1>6 DEF StageInv, NothingSeen
    <3> QED
      BY <3>1, BoundsAreNatural DEF TraceFull
  <2>4. CASE ~TraceFull
    <3>1. stack' = Append(called, frame)
      BY <1>2, <1>4, <2>4
    <3>2. Len(stack') = 1 /\ stack' # <<>> /\ stack'[1] = frame
      BY <2>1, <3>1, AppendOne
    <3>3. Names(stack') = Append(Names(called), frame.name)
      BY <2>1, <3>1, NamesEnter
    <3>4. NestInv'
      BY <1>2, <1>5, <3>2 DEF NestInv, Nested
    <3>5. stack'[1].next \in 1 .. 2 /\ Names(stack) \in Seq(Stages)
      BY <1>5, <2>2, <3>2
    <3>6. Names(stack') = Append(Names(stack), name) /\ error' = error
      BY <1>2, <1>5, <2>1, <2>4, <3>3
    <3> QED
      BY <1>6, <2>1, <2>3, <3>4, <3>5, <3>6
  <2> QED
    BY <2>3, <2>4
<1>7. CASE point = "inside" /\ error = "NONE" /\ stack # <<>> /\ ~CalledAll /\ name = Calls(Top.name)[Top.next]
  <2>1. PICK front : front = Front(stack)
    OBVIOUS
  <2>2. PICK top : top = Top
    OBVIOUS
  <2>3. /\ front \in Seq(Frame) /\ Len(front) = Len(stack) - 1 /\ Len(stack) \in Nat \ {0}
        /\ DOMAIN stack = 1 .. Len(stack)
        /\ \A i \in 1 .. Len(stack) - 1 : front[i] = stack[i]
        /\ top = stack[Len(stack)] /\ top \in Frame
    <3>1. stack \in Seq(Frame) /\ stack # <<>>
      BY <1>3, <1>7
    <3>2. top = Last(stack)
      BY <2>2 DEF Top
    <3> QED
      BY ONLY <2>1, <3>1, <3>2, FrontOne
  <2>4. PICK calling : calling = [top EXCEPT !.next = @ + 1]
    OBVIOUS
  <2>5. calling \in Frame /\ calling.name = top.name /\ calling.next = top.next + 1 /\ top.next \in Nat \ {0}
    <3>1. top \in [name : Stages, next : Nat \ {0}]
      BY ONLY <2>3 DEF Frame
    <3>2. top.next + 1 \in Nat \ {0} /\ top.next \in Nat \ {0}
      BY ONLY <3>1
    <3>3. /\ calling \in [name : Stages, next : Nat \ {0}] /\ calling.name = top.name
          /\ calling.next = top.next + 1
      BY ONLY <2>4, <3>1, <3>2
    <3> QED
      BY ONLY <3>2, <3>3 DEF Frame
  <2>6. called = Append(front, calling)
    BY <1>1, <1>7, <2>1, <2>2, <2>4
  <2>7. /\ called \in Seq(Frame) /\ called # <<>> /\ Len(called) = Len(stack)
        /\ \A i \in 1 .. Len(stack) - 1 : called[i] = stack[i]
        /\ called[Len(stack)] = calling
    BY <2>3, <2>5, <2>6, AppendOne
  <2>8. Names(called) = Names(stack) /\ Names(stack) \in Seq(Stages)
    <3>1. \A i \in 1 .. Len(stack) : called[i].name = stack[i].name
      BY <2>3, <2>5, <2>7
    <3>2. DOMAIN called = 1 .. Len(stack)
      BY <2>7
    <3>3. Names(called) = Names(stack)
      BY <2>3, <3>1, <3>2 DEF Names
    <3> QED
      BY <1>3, <3>3, NamesOf
  <2>9. /\ top.name = "VIDEO_EXTRACT" =>
              \/ top.next = 1 /\ name = "INITIAL_EXTRACT"
              \/ top.next = 2 /\ name = "FORMAT_SELECTION"
        /\ top.name # "VIDEO_EXTRACT" =>
              name \notin {"INITIAL_EXTRACT", "FORMAT_SELECTION"} /\ top.name # "FORMAT_SELECTION"
        /\ name # "VIDEO_EXTRACT"
    <3>1. top.next <= Len(Calls(top.name))
      <4>1. ~ top.next > Len(Calls(top.name))
        BY <1>7, <2>2 DEF CalledAll
      <4>2. Len(Calls(top.name)) \in Nat
        BY DEF Calls, ExtractionInv, TypeInv
      <4> QED
        BY <2>5, <4>1, <4>2
    <3>2. name = Calls(top.name)[top.next]
      BY <1>7, <2>2
    <3>3. name # "VIDEO_EXTRACT"
      BY <1>3, <2>3, <3>1, <3>2, CallsAreInner
    <3> QED
      BY <1>3, <2>3, <3>1, <3>2, <3>3, CallsNest
  <2>10. (top.name = "VIDEO_EXTRACT") <=> (Len(stack) = 1)
    BY <2>3 DEF ExtractionInv, StackInv
  <2>11. /\ called[1].next = IF Len(stack) = 1 THEN stack[1].next + 1 ELSE stack[1].next
         /\ \A i \in 2 .. Len(stack) : called[i].name = stack[i].name
    BY <2>3, <2>5, <2>7
  <2>12. /\ stack[1].next \in 1 .. 2
         /\ called[1].next = IF name = "FORMAT_SELECTION" THEN 3 ELSE 2
         /\ name \in {"INITIAL_EXTRACT", "FORMAT_SELECTION"} => Len(stack) = 1
         /\ name = "INITIAL_EXTRACT" => stack[1].next = 1
         /\ name \notin {"INITIAL_EXTRACT", "FORMAT_SELECTION"} => Len(stack) > 1
    BY <1>7, <2>3, <2>9, <2>10, <2>11 DEF NestInv, Nested
  <2>13. Nested(called)
    BY <1>7, <2>3, <2>7, <2>11, <2>12 DEF NestInv, Nested
  <2>14. CASE TraceFull
    <3>1. stack' = called /\ error' = "CONTRACT" /\ (name = "FORMAT_SELECTION" => Len(stack') = 1)
      BY <1>2, <2>7, <2>12, <2>14
    <3> QED
      BY <1>2, <1>7, <2>7, <2>8, <2>9, <2>12, <2>13, <2>14, <3>1 DEF NestInv
  <2>15. CASE ~TraceFull
    <3>1. stack' = Append(called, frame)
      BY <1>2, <1>4, <2>15
    <3>2. /\ stack' # <<>> /\ Len(stack') = Len(stack) + 1
          /\ \A i \in 1 .. Len(stack) : stack'[i] = called[i]
          /\ stack'[Len(stack) + 1] = frame
      BY <2>7, <3>1, AppendOne
    <3>4. Names(stack') = Append(Names(called), name)
      BY <1>5, <2>7, <3>1, NamesEnter
    <3>5. \A i \in 3 .. Len(stack') : stack'[i].name \notin {"INITIAL_EXTRACT", "FORMAT_SELECTION"}
      BY <1>5, <2>3, <2>7, <2>12, <2>13, <3>2 DEF Nested
    <3>6. Len(stack) = 1 => stack'[2] = frame /\ stack'[1] = called[1] /\ Len(stack') = 2
      BY <2>3, <3>2
    <3>7. Len(stack) > 1 => stack'[2] = called[2] /\ stack'[1] = called[1] /\ name # "FORMAT_SELECTION"
      BY <2>3, <2>12, <3>2
    <3>3. Nested(stack')
      BY <1>5, <2>3, <2>7, <2>12, <2>13, <3>2, <3>5, <3>6, <3>7 DEF Nested
    <3> QED
      BY <1>2, <1>7, <2>3, <2>8, <2>9, <2>12, <2>15, <3>2, <3>3, <3>4, <3>6, <3>7 DEF NestInv
  <2> QED
    BY <2>14, <2>15
<1> QED
  BY <1>2, <1>6, <1>7

\* And once the innermost is left.
LEMMA LeaveNests ==
  ASSUME ExtractionInv, NestInv, stack # <<>>, stack' = Popped,
         (point' = "inside") <=> (Top.name # "VIDEO_EXTRACT")
  PROVE  /\ NestInv'
         /\ Names(stack) \in Seq(Stages) /\ Names(stack) # <<>>
         /\ Last(Names(stack)) = Top.name /\ Names(stack') = Front(Names(stack))
         /\ Top.name \in Stages /\ stack[1].next \in 1 .. 3
         /\ stack' # <<>> =>
              /\ stack'[1].next = stack[1].next
              /\ Top.name # "FORMAT_SELECTION" => stack[1].next = 2
         /\ stack' = <<>> => Top = stack[1]
         /\ Top.name = "FORMAT_SELECTION" => Len(stack) = 2 /\ stack[1].next = 3
         /\ (Top.name = "VIDEO_EXTRACT") <=> (Len(stack) = 1)
         /\ (Top.name = "VIDEO_EXTRACT") <=> (stack' = <<>>)
         /\ Len(stack') = Len(stack) - 1 /\ Len(stack) \in Nat
<1>1. /\ stack' \in Seq(Frame) /\ Len(stack') = Len(stack) - 1 /\ Len(stack) \in Nat \ {0}
      /\ DOMAIN stack = 1 .. Len(stack)
      /\ \A i \in 1 .. Len(stack) - 1 : stack'[i] = stack[i]
      /\ Top = stack[Len(stack)] /\ Top \in Frame
  <2>1. stack \in Seq(Frame)
    BY DEF ExtractionInv, TypeInv
  <2>2. stack' = Front(stack) /\ Top = Last(stack)
    BY DEF Popped, Top
  <2> QED
    BY <2>1, <2>2, FrontOne
<1>2. /\ Names(stack) \in Seq(Stages) /\ Names(stack) # <<>>
      /\ Last(Names(stack)) = Top.name /\ Names(stack') = Front(Names(stack))
  <2>1. stack \in Seq(Frame)
    BY DEF ExtractionInv, TypeInv
  <2>2. stack' = Front(stack) /\ Top = Last(stack)
    BY DEF Popped, Top
  <2>3. Last(Names(stack)) = Top.name /\ Names(stack') = Front(Names(stack))
    BY <2>1, <2>2, NamesLeave
  <2> QED
    BY <2>1, <2>3, NamesOf
<1>3. (Top.name = "VIDEO_EXTRACT") <=> (Len(stack) = 1)
  BY <1>1 DEF ExtractionInv, StackInv
<1>4. (stack' = <<>>) <=> (Len(stack) = 1)
  BY <1>1
<1>5. Top.name \in Stages
  BY <1>1 DEF Frame
<1>6. Nested(stack')
  BY <1>1 DEF NestInv, Nested
<1>7. Top.name = "FORMAT_SELECTION" => Len(stack) = 2 /\ stack[1].next = 3
  BY <1>1, <1>3 DEF NestInv, Nested
<1>8. Top.name # "FORMAT_SELECTION" /\ Len(stack) > 1 => stack[1].next = 2
  BY <1>1, <1>3 DEF NestInv, Nested
<1>9. stack[1].next \in 1 .. 3
  BY DEF NestInv, Nested
<1>10. NestInv'
  BY <1>3, <1>4, <1>6 DEF NestInv
<1> QED
  BY <1>1, <1>2, <1>3, <1>4, <1>5, <1>7, <1>8, <1>9, <1>10

-------------------------------------------------------------------------------
(* Entering a call *)

\* t is s but for these fields.
Apart(s, t, fields) == DOMAIN t = DOMAIN s /\ \A f \in DOMAIN s \ fields : t[f] = s[f]

\* What is appended comes last.
LEMMA LastAppended ==
  ASSUME NEW S, NEW s \in Seq(S), NEW e \in S, NEW t, t = Append(s, e)
  PROVE  Last(t) = e
<1>1. Len(t) = Len(s) + 1 /\ t[Len(s) + 1] = e
  BY AppendOne
<1> QED
  BY <1>1 DEF Last

\* One more event of a trace.
LEMMA EventAdds ==
  ASSUME NEW trace \in Seq(Event), NEW event \in Event, NEW more, more = Append(trace, event)
  PROVE  /\ more # <<>> /\ Len(more) = Len(trace) + 1
         /\ more[1] = IF trace = <<>> THEN event ELSE trace[1]
         /\ RaiseIn(more) <=> RaiseIn(trace) \/ Raises(event)
         /\ event # Selected => Selections(more) = Selections(trace)
         /\ event = Selected /\ Selections(trace) = {} =>
                SelectedOnce(more)
<1>1. /\ Len(more) = Len(trace) + 1 /\ more # <<>>
      /\ DOMAIN more = 1 .. Len(trace) + 1 /\ DOMAIN trace = 1 .. Len(trace) /\ Len(trace) \in Nat
      /\ \A i \in 1 .. Len(trace) : more[i] = trace[i]
      /\ more[Len(trace) + 1] = event
  <2>1. /\ Len(more) = Len(trace) + 1 /\ more # <<>>
        /\ DOMAIN more = 1 .. Len(trace) + 1 /\ DOMAIN trace = 1 .. Len(trace)
    BY AppendOne
  <2>2. Len(trace) \in Nat /\ more[Len(trace) + 1] = event
    BY AppendOne
  <2>3. \A i \in 1 .. Len(trace) : more[i] = trace[i]
    BY AppendOne
  <2> QED
    BY <2>1, <2>2, <2>3
<1>2. more[1] = IF trace = <<>> THEN event ELSE trace[1]
  BY <1>1
<1>3. RaiseIn(more) <=> RaiseIn(trace) \/ Raises(event)
  BY <1>1 DEF RaiseIn
<1>4. event # Selected => Selections(more) = Selections(trace)
  <2> SUFFICES ASSUME event # Selected
               PROVE  \A i : i \in Selections(more) <=> i \in Selections(trace)
    BY DEF Selections
  <2> TAKE i
  <2>1. i \in Selections(more) <=> i \in DOMAIN more /\ more[i] = Selected
    BY DEF Selections
  <2>2. i \in Selections(trace) <=> i \in DOMAIN trace /\ trace[i] = Selected
    BY DEF Selections
  <2>3. i \in DOMAIN more => (i \in DOMAIN trace /\ more[i] = trace[i]) \/ more[i] = event
    BY <1>1
  <2>4. i \in DOMAIN trace => i \in DOMAIN more /\ more[i] = trace[i]
    BY <1>1
  <2> QED
    BY <2>1, <2>2, <2>3, <2>4
<1>5. ASSUME event = Selected, Selections(trace) = {}
      PROVE  SelectedOnce(more)
  <2>1. \A i \in 1 .. Len(trace) : trace[i] # Selected
    BY <1>1, <1>5 DEF Selections
  <2>2. Selections(more) = {Len(trace) + 1}
    BY <1>1, <1>5, <2>1 DEF Selections
  <2> QED
    BY <1>1, <2>2 DEF SelectedOnce
<1> QED
  BY <1>1, <1>2, <1>3, <1>4, <1>5

\* What D4's observer adds, and no more.
LEMMA TracedDoes ==
  ASSUME NEW s, DOMAIN s = DOMAIN NothingSeen, NEW name, NEW outcome, NEW t, t = Traced(s, name, outcome)
  PROVE  /\ Apart(s, t, {"trace"})
         /\ t.trace = IF script < 4 THEN s.trace ELSE Append(s.trace, <<name, outcome>>)
BY DEF Traced, NothingSeen, Apart

\* And D6 and D7 of a selection that is called.
LEMMA SelectionDoes ==
  ASSUME script \in Scripts, NEW s, DOMAIN s = DOMAIN NothingSeen, NEW t, t = SelectionSeen(s)
  PROVE  /\ Apart(s, t, {"selections", "selected", "calls", "chosen"})
         /\ script >= 6 => t.selections = s.selections + 1 /\ t.selected = s.post
         /\ script >= 7 => t.calls = s.calls + 1 /\ t.chosen = s.normalized
         /\ script < 6 => t.selections = s.selections
<1>1. PICK a, b, c, d :
        /\ t = [s EXCEPT !.selections = a, !.selected = b, !.calls = c, !.chosen = d]
        /\ a = IF script >= 6 THEN s.selections + 1 ELSE s.selections
        /\ b = IF script >= 6 THEN s.post ELSE s.selected
        /\ c = IF script >= 7 THEN s.calls + 1 ELSE s.calls
        /\ d = IF script >= 7 THEN s.normalized ELSE s.chosen
  BY DEF SelectionSeen
<1>2. /\ Apart(s, t, {"selections", "selected", "calls", "chosen"})
      /\ t.selections = a /\ t.selected = b /\ t.calls = c /\ t.chosen = d
  BY <1>1 DEF NothingSeen, Apart
<1> QED
  BY <1>1, <1>2 DEF Scripts

\* What a webpage may hold of a player response.
InitialShapes == {<<>>, <<"ABSENT">>, <<"MANIFEST">>, <<"CANDIDATES">>}

\* Each is one response at most.
LEMMA InitialIsOne ==
  ASSUME NEW initial \in InitialShapes
  PROVE  initial \in Seq(Shapes) /\ Len(initial) <= 1
<1>1. CASE initial = <<>>
  BY <1>1
<1>2. CASE \E shape \in Shapes : initial = <<shape>>
  BY <1>2
<1> QED
  BY <1>1, <1>2 DEF InitialShapes, Shapes

\* What entering a call changes of what is seen and of what has happened.
LEMMA EnterDoes ==
  ASSUME TypeInv, NEW name, Enter(name)
  PROVE  /\ point' = "inside" /\ UNCHANGED <<stage, completed>>
         /\ Apart(seen, seen', {"trace", "selections", "selected", "calls", "chosen", "initial"})
         /\ seen'.trace = IF script < 4 \/ TraceFull THEN seen.trace ELSE Append(seen.trace, <<name, "ENTER">>)
         /\ name # "FORMAT_SELECTION" => Apart(seen, seen', {"trace", "initial"})
         /\ name = "FORMAT_SELECTION" =>
              /\ script >= 6 => seen'.selections = seen.selections + 1 /\ seen'.selected = seen.post
              /\ script >= 7 => seen'.calls = seen.calls + 1 /\ seen'.chosen = seen.normalized
         /\ seen'.initial \in {seen.initial} \cup InitialShapes
         /\ Apart(world, world', {"ceiling", "selection", "ie", "initial"})
         /\ world'.ceiling = IF TraceFull THEN TRUE ELSE world.ceiling
         /\ world'.selection = IF name = "FORMAT_SELECTION" /\ ~TraceFull THEN "ENTERED" ELSE world.selection
         /\ world'.ie = IF name = "VIDEO_EXTRACT" /\ ~TraceFull THEN "ENTERED" ELSE world.ie
         /\ world'.initial \in {world.initial} \cup InitialShapes
<1>1. PICK before : before = IF name = "FORMAT_SELECTION" THEN SelectionSeen(seen) ELSE seen
  OBVIOUS
<1>2. PICK t : t = Traced(before, name, "ENTER")
  OBVIOUS
<1>3. /\ point' = "inside" /\ UNCHANGED <<stage, completed>>
      /\ \/ TraceFull /\ world' = Hits(world) /\ seen' = before
         \/ /\ ~TraceFull
            /\ \/ /\ name = "PLAYER_RESPONSES"
                  /\ \E initial \in InitialShapes :
                        /\ world' = [world EXCEPT !.initial = initial]
                        /\ seen' = InitialSeen(t, initial)
               \/ /\ seen' = t /\ name # "PLAYER_RESPONSES"
                  /\ world' = IF name = "FORMAT_SELECTION" THEN [world EXCEPT !.selection = "ENTERED"]
                              ELSE IF name = "VIDEO_EXTRACT" THEN [world EXCEPT !.ie = "ENTERED"]
                              ELSE world
  BY <1>1, <1>2 DEF Enter, InitialShapes
<1>4. DOMAIN seen = DOMAIN NothingSeen /\ DOMAIN world = DOMAIN NothingHappened /\ script \in Scripts
  BY DEF TypeInv
<1>5. /\ Apart(seen, before, {"selections", "selected", "calls", "chosen"})
      /\ name # "FORMAT_SELECTION" => before = seen
      /\ name = "FORMAT_SELECTION" =>
           /\ script >= 6 => before.selections = seen.selections + 1 /\ before.selected = seen.post
           /\ script >= 7 => before.calls = seen.calls + 1 /\ before.chosen = seen.normalized
      /\ before.trace = seen.trace
  <2>1. CASE name = "FORMAT_SELECTION"
    <3>1. before = SelectionSeen(seen)
      BY <1>1, <2>1
    <3>2. /\ Apart(seen, before, {"selections", "selected", "calls", "chosen"})
          /\ script >= 6 => before.selections = seen.selections + 1 /\ before.selected = seen.post
          /\ script >= 7 => before.calls = seen.calls + 1 /\ before.chosen = seen.normalized
      BY <1>4, <3>1, SelectionDoes
    <3>3. before.trace = seen.trace
      BY <1>4, <3>2 DEF Apart, NothingSeen
    <3> QED
      BY <2>1, <3>2, <3>3
  <2>2. CASE name # "FORMAT_SELECTION"
    BY <1>1, <2>2 DEF Apart
  <2> QED
    BY <2>1, <2>2
<1>6. /\ Apart(before, t, {"trace"})
      /\ t.trace = IF script < 4 THEN before.trace ELSE Append(before.trace, <<name, "ENTER">>)
  <2>1. DOMAIN before = DOMAIN NothingSeen
    BY <1>4, <1>5 DEF Apart
  <2> QED
    BY <1>2, <2>1, TracedDoes
<1>7. CASE TraceFull /\ world' = Hits(world) /\ seen' = before
  <2>1. /\ Apart(world, world', {"ceiling"}) /\ world'.ceiling = TRUE
        /\ world'.selection = world.selection /\ world'.ie = world.ie /\ world'.initial = world.initial
    BY <1>4, <1>7 DEF Apart, Hits, NothingHappened
  <2>2. seen'.initial = seen.initial
    BY <1>4, <1>5, <1>7 DEF Apart, NothingSeen
  <2> QED
    BY <1>3, <1>5, <1>7, <2>1, <2>2 DEF Apart
<1>8. CASE ~TraceFull
  <2>1. /\ Apart(before, seen', {"trace", "initial"}) /\ seen'.trace = t.trace
        /\ seen'.initial \in {before.initial} \cup InitialShapes
        /\ Apart(world, world', {"selection", "ie", "initial"})
        /\ world'.ceiling = world.ceiling
        /\ world'.selection = IF name = "FORMAT_SELECTION" THEN "ENTERED" ELSE world.selection
        /\ world'.ie = IF name = "VIDEO_EXTRACT" THEN "ENTERED" ELSE world.ie
        /\ world'.initial \in {world.initial} \cup InitialShapes
    <3>1. CASE name = "PLAYER_RESPONSES"
      <4>1. PICK initial \in InitialShapes :
               /\ world' = [world EXCEPT !.initial = initial]
               /\ seen' = InitialSeen(t, initial)
        BY <1>3, <1>8, <3>1
      <4>2. /\ Apart(world, world', {"initial"}) /\ world'.initial = initial
            /\ world'.ceiling = world.ceiling /\ world'.selection = world.selection /\ world'.ie = world.ie
        BY <1>4, <4>1 DEF Apart, NothingHappened
      <4>3. /\ Apart(t, seen', {"initial"}) /\ seen'.initial \in {t.initial, initial}
            /\ seen'.trace = t.trace /\ t.initial = before.initial
        BY <1>4, <1>5, <1>6, <4>1 DEF Apart, InitialSeen, NothingSeen
      <4> QED
        BY <1>6, <3>1, <4>2, <4>3 DEF Apart
    <3>2. CASE name # "PLAYER_RESPONSES"
      <4>1. seen' = t /\ t.initial = before.initial
        BY <1>3, <1>4, <1>5, <1>6, <1>8, <3>2 DEF Apart, NothingSeen
      <4>2. /\ Apart(world, world', {"selection", "ie", "initial"})
            /\ world'.ceiling = world.ceiling
            /\ world'.selection = IF name = "FORMAT_SELECTION" THEN "ENTERED" ELSE world.selection
            /\ world'.ie = IF name = "VIDEO_EXTRACT" THEN "ENTERED" ELSE world.ie
            /\ world'.initial = world.initial
        BY <1>3, <1>4, <1>8, <3>2 DEF Apart, NothingHappened
      <4> QED
        BY <1>6, <4>1, <4>2 DEF Apart
    <3> QED
      BY <3>1, <3>2
  <2>2. /\ seen'.selections = before.selections /\ seen'.selected = before.selected
        /\ seen'.calls = before.calls /\ seen'.chosen = before.chosen
        /\ before.initial = seen.initial
    BY <1>4, <1>5, <2>1 DEF Apart, NothingSeen
  <2>3. /\ seen'.trace = IF script < 4 THEN seen.trace ELSE Append(seen.trace, <<name, "ENTER">>)
        /\ Apart(seen, seen', {"trace", "selections", "selected", "calls", "chosen", "initial"})
        /\ name # "FORMAT_SELECTION" => Apart(seen, seen', {"trace", "initial"})
    BY <1>5, <1>6, <2>1 DEF Apart
  <2>4. Apart(world, world', {"ceiling", "selection", "ie", "initial"})
    BY <2>1 DEF Apart
  <2> QED
    BY <1>3, <1>5, <1>8, <2>1, <2>2, <2>3, <2>4
<1> QED
  BY <1>3, <1>7, <1>8

\* A call that is entered is traced, or stops everything at the ceiling.
LEMMA EnterObserved ==
  ASSUME ExtractionInv, DocInv, NEW name \in Stages, Enter(name), UNCHANGED <<script, clients>>
  PROVE  DocInv'
<1>1. /\ TypeInv /\ StageInv /\ NestInv /\ TraceInv /\ SelectInv /\ FormatsInv /\ ShapesInv
      /\ script \in Scripts /\ seen.trace \in Seq(Event) /\ script' = script
      /\ DOMAIN seen = DOMAIN NothingSeen /\ DOMAIN world = DOMAIN NothingHappened
  BY DEF DocInv, ExtractionInv, TypeInv
<1>2. /\ NestInv'
      /\ (stack = <<>>) <=> (name = "VIDEO_EXTRACT")
      /\ stack # <<>> => stack[1].next \in 1 .. 2 /\ point = "inside" /\ error = "NONE"
      /\ stack = <<>> => point = "extract" /\ ~TraceFull
      /\ Names(stack) \in Seq(Stages)
      /\ IF TraceFull THEN error' = "CONTRACT"
         ELSE error' = error /\ Names(stack') = Append(Names(stack), name)
      /\ stack' # <<>> =>
          IF name = "FORMAT_SELECTION" THEN stack'[1].next = 3 /\ Len(stack') = (IF TraceFull THEN 1 ELSE 2)
          ELSE stack'[1].next \in 1 .. 2
  BY <1>1, EnterNests
<1>3. /\ point' = "inside" /\ UNCHANGED <<stage, completed>>
      /\ Apart(seen, seen', {"trace", "selections", "selected", "calls", "chosen", "initial"})
      /\ seen'.trace = IF script < 4 \/ TraceFull THEN seen.trace ELSE Append(seen.trace, <<name, "ENTER">>)
      /\ name # "FORMAT_SELECTION" => Apart(seen, seen', {"trace", "initial"})
      /\ name = "FORMAT_SELECTION" =>
           /\ script >= 6 => seen'.selections = seen.selections + 1 /\ seen'.selected = seen.post
           /\ script >= 7 => seen'.calls = seen.calls + 1 /\ seen'.chosen = seen.normalized
      /\ seen'.initial \in {seen.initial} \cup InitialShapes
      /\ Apart(world, world', {"ceiling", "selection", "ie", "initial"})
      /\ world'.ceiling = IF TraceFull THEN TRUE ELSE world.ceiling
      /\ world'.selection = IF name = "FORMAT_SELECTION" /\ ~TraceFull THEN "ENTERED" ELSE world.selection
      /\ world'.ie = IF name = "VIDEO_EXTRACT" /\ ~TraceFull THEN "ENTERED" ELSE world.ie
      /\ world'.initial \in {world.initial} \cup InitialShapes
  BY <1>1, EnterDoes
<1>4. /\ world'.swallowed = world.swallowed /\ world'.emitted = world.emitted
      /\ world'.verdict = world.verdict /\ world'.api = world.api
  BY <1>1, <1>3 DEF Apart, NothingHappened
<1>5. /\ seen'.requests = seen.requests /\ seen'.answers = seen.answers
      /\ seen'.population = seen.population /\ seen'.observations = seen.observations
      /\ seen'.noFormats = seen.noFormats /\ seen'.drm = seen.drm
      /\ seen'.pre = seen.pre /\ seen'.post = seen.post /\ seen'.yields = seen.yields
      /\ seen'.api = seen.api /\ seen'.normalized = seen.normalized
  BY <1>1, <1>3 DEF Apart, NothingSeen
<1>6. name # "FORMAT_SELECTION" =>
        /\ seen'.selections = seen.selections /\ seen'.selected = seen.selected
        /\ seen'.calls = seen.calls /\ seen'.chosen = seen.chosen
  BY <1>1, <1>3 DEF Apart, NothingSeen
<1>7. StageInv'
  BY <1>1, <1>2, <1>3, <1>5 DEF StageInv, Errors
<1>8. /\ world.selection = "NONE" /\ world.ie = IF stack = <<>> THEN "NONE" ELSE "ENTERED"
      /\ seen.selections = 0
      /\ stack # <<>> => ~world.ceiling \/ script < 4
      /\ stack = <<>> => seen = NothingSeen /\ world = NothingHappened
      /\ error = "NONE" /\ ~world.verdict
  <2>1. CASE stack = <<>>
    <3>1. point = "extract" /\ seen = NothingSeen /\ world = NothingHappened
      BY <1>1, <1>2, <2>1 DEF StageInv
    <3> QED
      BY <1>1, <2>1, <3>1 DEF StageInv, NothingSeen, NothingHappened
  <2>2. CASE stack # <<>>
    <3>1. stack[1].next <= 2 /\ point = "inside"
      BY <1>2, <2>2
    <3> QED
      BY <1>1, <1>2, <2>2, <3>1 DEF StageInv, SelectInv, TraceInv, Scripts
  <2> QED
    BY <2>1, <2>2
<1>9. SelectInv'
  <2>1. CASE name = "FORMAT_SELECTION"
    <3>1. stack' # <<>>
      BY <1>2, <1>3 DEF NestInv
    <3>2. stack'[1].next = 3 /\ Len(stack') = (IF TraceFull THEN 1 ELSE 2)
      BY <1>2, <2>1, <3>1
    <3>3. TraceFull => error' = "CONTRACT" /\ world'.selection = "NONE"
      BY <1>2, <1>3, <1>8
    <3>4. ~TraceFull => world'.selection = "ENTERED"
      BY <1>3, <2>1
    <3> QED
      BY <1>1, <1>4, <1>8, <3>2, <3>3, <3>4 DEF SelectInv
  <2>2. CASE name # "FORMAT_SELECTION"
    <3>1. stack' # <<>>
      BY <1>2, <1>3 DEF NestInv
    <3> QED
      BY <1>1, <1>2, <1>3, <1>4, <1>6, <1>8, <2>2, <3>1 DEF SelectInv
  <2> QED
    BY <2>1, <2>2
<1>10. FormatsInv'
  BY <1>1, <1>3, <1>4, <1>5, <1>8 DEF FormatsInv
<1>11. ShapesInv'
  <2>1. world'.initial \in Seq(Shapes) /\ Len(world'.initial) <= 1 /\ world'.api \in Seq(Shapes)
    BY <1>1, <1>3, <1>4, InitialIsOne DEF ShapesInv
  <2>2. script = 7 => Len(seen'.initial) <= 1
    BY <1>1, <1>3, InitialIsOne DEF ShapesInv
  <2>3. CASE name = "FORMAT_SELECTION"
    <3>1. script >= 6 =>
            /\ seen'.selections = 1 /\ seen'.selected = seen'.post
            /\ world'.selection # "NONE" \/ world'.ceiling
      BY <1>3, <1>5, <1>8, <2>3
    <3>2. script = 7 =>
            /\ seen'.calls = 1 /\ seen'.chosen = seen'.normalized
      BY <1>1, <1>3, <1>5, <1>8, <2>3 DEF ShapesInv
    <3> QED
      BY <1>1, <1>4, <1>5, <1>8, <2>1, <2>2, <3>1, <3>2 DEF ShapesInv
  <2>4. CASE name # "FORMAT_SELECTION"
    BY <1>1, <1>3, <1>4, <1>5, <1>6, <1>8, <2>1, <2>2, <2>4 DEF ShapesInv
  <2> QED
    BY <2>3, <2>4
<1>12. ASSUME script >= 4
       PROVE  TraceInv'
  <2>1. CASE TraceFull
    <3>1. /\ seen'.trace = seen.trace /\ world'.ceiling /\ error' = "CONTRACT" /\ stack # <<>>
          /\ world'.ie = "ENTERED" /\ world'.selection = world.selection
      BY <1>2, <1>3, <1>8, <2>1
    <3>2. TraceFull' /\ UnwindsTo(seen.trace, Names(stack)) /\ Names(stack) # <<>>
      <4>1. stack \in Seq(Frame)
        BY <1>1 DEF TypeInv
      <4>2. Names(stack) # <<>>
        BY <3>1, <4>1, NamesOf
      <4> QED
        BY <1>1, <1>8, <1>12, <2>1, <3>1, <4>2 DEF TraceInv, TraceFull, Scripts
    <3> QED
      BY <1>1, <1>3, <1>4, <1>8, <1>12, <3>1, <3>2 DEF TraceInv
  <2>2. CASE ~TraceFull
    <3>1. PICK event \in Event : event = <<name, "ENTER">>
      BY DEF Event
    <3>2. seen'.trace = Append(seen.trace, event)
      BY <1>1, <1>3, <1>12, <2>2, <3>1 DEF Scripts
    <3>3. /\ seen'.trace # <<>> /\ Len(seen'.trace) = Len(seen.trace) + 1
          /\ seen'.trace[1] = IF seen.trace = <<>> THEN event ELSE seen.trace[1]
          /\ RaiseIn(seen'.trace) <=> RaiseIn(seen.trace) \/ Raises(event)
          /\ event # Selected => Selections(seen'.trace) = Selections(seen.trace)
      BY <1>1, <3>2, EventAdds
    <3>4. ~world.ceiling /\ ~world'.ceiling
      <4>1. stack = <<>> => ~world.ceiling
        BY <1>8 DEF NothingHappened
      <4> QED
        BY <1>1, <1>3, <1>8, <1>12, <2>2, <4>1 DEF Scripts
    <3>5. UnwindsTo(seen'.trace, Names(stack'))
      <4>1. PICK left : left = AfterEvent(Names(stack), event)
        OBVIOUS
      <4>2. left = Append(Names(stack), name)
        BY <3>1, <4>1 DEF AfterEvent
      <4>3. UnwindsTo(seen.trace, Names(stack))
        BY <1>1, <1>12, <3>4 DEF TraceInv
      <4>4. UnwindsTo(seen'.trace, left)
        BY <1>1, <3>2, <4>1, <4>3, EventUnwinds
      <4> QED
        BY <1>2, <2>2, <4>2, <4>4
    <3>6. Len(seen'.trace) <= MAX_STAGE_EVENTS
      BY <1>1, <1>12, <2>2, <3>3, BoundsAreNatural DEF TraceFull
    <3>7. /\ ~Raises(event) /\ event # Selected
          /\ stack = <<>> => event = Began /\ seen.trace = <<>>
      BY <1>2, <1>8, <3>1 DEF Began, NothingSeen, Raises, Selected
    <3>8. stack # <<>> => seen.trace # <<>> /\ seen.trace[1] = Began
      BY <1>1, <1>8, <1>12 DEF TraceInv
    <3>9. seen'.trace[1] = Began
      BY <3>3, <3>7, <3>8
    <3>10. Selections(seen.trace) = {} /\ world'.selection # "RETURNED"
      BY <1>1, <1>3, <1>8, <1>12 DEF TraceInv
    <3>11. RaiseIn(seen.trace) /\ ~world.swallowed => FALSE
      <4>1. stack = <<>> => ~RaiseIn(seen.trace)
        BY <3>7 DEF RaiseIn
      <4> QED
        BY <1>1, <1>2, <1>8, <1>12, <4>1 DEF TraceInv
    <3>12. world'.ie # "RETURNED"
      BY <1>3, <1>8
    <3>13. world'.swallowed => RaiseIn(seen'.trace)
      BY <1>1, <1>4, <1>12, <3>3 DEF TraceInv
    <3> QED
      BY <1>3, <1>4, <3>3, <3>4, <3>5, <3>6, <3>7, <3>9, <3>10, <3>11, <3>12, <3>13 DEF TraceInv
  <2> QED
    BY <2>1, <2>2
<1> QED
  BY <1>1, <1>2, <1>7, <1>9, <1>10, <1>11, <1>12 DEF DocInv, TraceInv

-------------------------------------------------------------------------------
(* Leaving one *)

\* What D6 makes of the shapes of some responses.
LEMMA ViewsOf ==
  ASSUME NEW shapes \in Seq(Shapes), NEW views, views = D6Views(shapes)
  PROVE  /\ views \in Seq(Shapes) /\ Len(views) = Len(shapes)
         /\ \A i \in 1 .. Len(shapes) : views[i] = D6View(shapes[i])
<1>1. DOMAIN shapes = 1 .. Len(shapes) /\ Len(shapes) \in Nat
  OBVIOUS
<1>2. \A i \in 1 .. Len(shapes) : D6View(shapes[i]) \in Shapes
  <2>1. \A i \in 1 .. Len(shapes) : shapes[i] \in Shapes
    BY ElementOfSeq
  <2> QED
    BY <2>1 DEF D6View, Shapes
<1>3. views = [i \in 1 .. Len(shapes) |-> D6View(shapes[i])]
  BY <1>1 DEF D6Views
<1> QED
  BY <1>1, <1>2, <1>3

\* And of one more.
LEMMA ViewsAppend ==
  ASSUME NEW shapes \in Seq(Shapes), NEW shape \in Shapes, NEW more, more = Append(shapes, shape)
  PROVE  /\ more \in Seq(Shapes)
         /\ D6Views(more) = Append(D6Views(shapes), D6View(shape))
<1>1. /\ more \in Seq(Shapes) /\ Len(more) = Len(shapes) + 1 /\ Len(shapes) \in Nat
      /\ \A i \in 1 .. Len(shapes) : more[i] = shapes[i]
      /\ more[Len(shapes) + 1] = shape
  BY AppendOne
<1>2. PICK v, w : v = D6Views(shapes) /\ w = D6Views(more)
  OBVIOUS
<1>3. /\ v \in Seq(Shapes) /\ Len(v) = Len(shapes)
      /\ \A i \in 1 .. Len(shapes) : v[i] = D6View(shapes[i])
  BY <1>2, ViewsOf
<1>4. /\ w \in Seq(Shapes) /\ Len(w) = Len(shapes) + 1
      /\ \A i \in 1 .. Len(shapes) + 1 : w[i] = D6View(more[i])
  <2>1. /\ w \in Seq(Shapes) /\ Len(w) = Len(more)
        /\ \A i \in 1 .. Len(more) : w[i] = D6View(more[i])
    BY <1>1, <1>2, ViewsOf
  <2> QED
    BY <1>1, <2>1
<1>5. PICK u : u = Append(v, D6View(shape))
  OBVIOUS
<1>6. /\ DOMAIN u = 1 .. Len(shapes) + 1
      /\ \A i \in 1 .. Len(shapes) : u[i] = v[i]
      /\ u[Len(shapes) + 1] = D6View(shape)
      /\ u \in Seq(Shapes)
  <2>1. D6View(shape) \in Shapes
    BY DEF D6View, Shapes
  <2> QED
    BY <1>3, <1>5, <2>1, AppendOne
<1>7. \A i \in 1 .. Len(shapes) + 1 : u[i] = w[i]
  BY <1>1, <1>3, <1>4, <1>6
<1>8. u = [i \in 1 .. Len(shapes) + 1 |-> u[i]] /\ w = [i \in 1 .. Len(shapes) + 1 |-> w[i]]
  BY <1>4, <1>6
<1>9. u = w
  BY <1>7, <1>8
<1> QED
  BY <1>1, <1>2, <1>5, <1>9

\* yt-dlp fills in responses, it does not add any.
LEMMA NormalizedOf ==
  ASSUME NEW initial \in Seq(Shapes), NEW api \in Seq(Shapes)
  PROVE  Normalized(initial, api) \in Seq(Shapes)
<1>1. PICK u : u = [i \in DOMAIN initial |-> IF initial[i] = "ABSENT" THEN "NULL" ELSE initial[i]]
  OBVIOUS
<1>2. PICK v : v = [i \in DOMAIN api |-> IF api[i] = "ABSENT" THEN "BARE" ELSE api[i]]
  OBVIOUS
<1>3. u \in Seq(Shapes)
  <2>1. DOMAIN initial = 1 .. Len(initial) /\ Len(initial) \in Nat
    OBVIOUS
  <2>2. \A i \in 1 .. Len(initial) : initial[i] \in Shapes
    BY ElementOfSeq
  <2>3. \A i \in 1 .. Len(initial) : u[i] \in Shapes
    BY <1>1, <2>1, <2>2 DEF Shapes
  <2> QED
    BY <1>1, <2>1, <2>3
<1>4. v \in Seq(Shapes)
  <2>1. DOMAIN api = 1 .. Len(api) /\ Len(api) \in Nat
    OBVIOUS
  <2>2. \A i \in 1 .. Len(api) : api[i] \in Shapes
    BY ElementOfSeq
  <2>3. \A i \in 1 .. Len(api) : v[i] \in Shapes
    BY <1>2, <2>1, <2>2 DEF Shapes
  <2> QED
    BY <1>2, <2>1, <2>3
<1>5. Normalized(initial, api) = u \o v
  BY <1>1, <1>2 DEF Normalized
<1> QED
  BY <1>3, <1>4, <1>5, ConcatProperties

\* What a call that returns changes of what is seen and of what has happened.
LEMMA ReturnDoes ==
  ASSUME TypeInv, Return, ~TraceFull, NEW name, name = Top.name
  PROVE  /\ seen'.trace = IF script < 4 THEN seen.trace ELSE Append(seen.trace, <<name, "RETURN">>)
         /\ \/ /\ name = "PLAYER_RESPONSE" /\ Apart(world, world', {"api"})
               /\ Apart(seen, seen', {"trace", "pre", "api"})
               /\ \E shape \in Shapes :
                    /\ world'.api = Append(world.api, shape)
                    /\ \/ error' = "CONTRACT" /\ seen'.pre = seen.pre /\ seen'.api = seen.api
                       \/ /\ error' = error
                          /\ script >= 6 => /\ seen'.pre = Append(seen.pre, D6View(shape))
                                            /\ ~ Len(seen.pre) >= MAX_RESPONSES
                          /\ script >= 7 => seen'.api = Append(seen.api, shape)
            \/ /\ name = "PLAYER_RESPONSES" /\ world' = world
               /\ Apart(seen, seen', {"trace", "post", "normalized"})
               /\ \/ error' = "CONTRACT" /\ seen'.post = seen.post /\ seen'.normalized = seen.normalized
                  \/ /\ error' = error
                     /\ \E responses : /\ responses = Normalized(world.initial, world.api)
                                       /\ script >= 6 => /\ seen'.post = D6Views(responses)
                                                         /\ ~ Len(responses) > MAX_RESPONSES
                                       /\ script >= 7 => seen'.normalized = responses
            \/ /\ name = "FORMAT_SELECTION" /\ error' = error
               /\ Apart(seen, seen', {"trace", "observations", "population"})
               /\ script >= 5 => /\ seen'.observations = seen.observations + 1
                                 /\ seen'.population = IF world.emitted = 0 THEN "EMPTY" ELSE "NONEMPTY"
               /\ Apart(world, world', {"selection"}) /\ world'.selection = "RETURNED"
            \/ /\ name \notin {"PLAYER_RESPONSE", "PLAYER_RESPONSES", "FORMAT_SELECTION"}
               /\ error' = error /\ Apart(seen, seen', {"trace"})
               /\ Apart(world, world', {"ie"})
               /\ world'.ie = IF name = "VIDEO_EXTRACT" THEN "RETURNED" ELSE world.ie
<1>1. PICK s : s = Traced(seen, name, "RETURN")
  OBVIOUS
<1>2. DOMAIN seen = DOMAIN NothingSeen /\ DOMAIN world = DOMAIN NothingHappened /\ script \in Scripts
  BY DEF TypeInv
<1>3. /\ Apart(seen, s, {"trace"})
      /\ s.trace = IF script < 4 THEN seen.trace ELSE Append(seen.trace, <<name, "RETURN">>)
  BY <1>1, <1>2, TracedDoes
<1>4. DOMAIN s = DOMAIN NothingSeen
  BY <1>2, <1>3 DEF Apart
<1>5. s.pre = seen.pre /\ s.api = seen.api /\ s.post = seen.post /\ s.normalized = seen.normalized
      /\ s.observations = seen.observations
  BY <1>2, <1>3 DEF Apart, NothingSeen
<1>6. CASE name = "PLAYER_RESPONSE"
  <2>1. PICK shape \in Shapes :
          /\ world' = [world EXCEPT !.api = Append(@, shape)]
          /\ \/ seen' = s /\ error' = "CONTRACT"
             \/ /\ seen' = ResponseSeen(s, shape) /\ error' = error
                /\ script >= 6 => ~ Len(s.pre) >= MAX_RESPONSES
    BY <1>1, <1>6 DEF Return, Shapes
  <2>2. Apart(world, world', {"api"}) /\ world'.api = Append(world.api, shape)
    BY <1>2, <2>1 DEF Apart, NothingHappened
  <2>3. CASE seen' = s /\ error' = "CONTRACT"
    BY <1>3, <1>5, <1>6, <2>2, <2>3 DEF Apart
  <2>4. CASE /\ seen' = ResponseSeen(s, shape) /\ error' = error
             /\ script >= 6 => ~ Len(s.pre) >= MAX_RESPONSES
    <3>1. /\ Apart(s, seen', {"pre", "api"}) /\ seen'.trace = s.trace
          /\ script >= 6 => seen'.pre = Append(s.pre, D6View(shape))
          /\ script >= 7 => seen'.api = Append(s.api, shape)
      <4>1. CASE script < 6
        BY <1>2, <2>4, <4>1 DEF Apart, ResponseSeen, Scripts
      <4>2. CASE ~ script < 6
        <5>1. PICK pre, api : /\ seen' = [s EXCEPT !.pre = pre, !.api = api]
                              /\ pre = Append(s.pre, D6View(shape))
                              /\ api = IF script >= 7 THEN Append(s.api, shape) ELSE s.api
          BY <2>4, <4>2 DEF ResponseSeen
        <5>2. Apart(s, seen', {"pre", "api"}) /\ seen'.trace = s.trace /\ seen'.pre = pre /\ seen'.api = api
          BY <1>4, <5>1 DEF Apart, NothingSeen
        <5> QED
          BY <5>1, <5>2
      <4> QED
        BY <4>1, <4>2
    <3>2. Apart(seen, seen', {"trace", "pre", "api"})
      BY <1>3, <3>1 DEF Apart
    <3> QED
      BY <1>3, <1>5, <1>6, <2>2, <2>4, <3>1, <3>2
  <2> QED
    BY <2>1, <2>3, <2>4
<1>7. CASE name = "PLAYER_RESPONSES"
  <2>1. PICK responses : responses = Normalized(world.initial, world.api)
    OBVIOUS
  <2>2. /\ world' = world
        /\ \/ seen' = s /\ error' = "CONTRACT"
           \/ /\ seen' = ResponsesSeen(s, responses) /\ error' = error
              /\ script >= 6 => ~ Len(responses) > MAX_RESPONSES
    BY <1>1, <1>7, <2>1 DEF Return
  <2>3. CASE seen' = s /\ error' = "CONTRACT"
    BY <1>3, <1>5, <1>7, <2>2, <2>3 DEF Apart
  <2>4. CASE /\ seen' = ResponsesSeen(s, responses) /\ error' = error
             /\ script >= 6 => ~ Len(responses) > MAX_RESPONSES
    <3>1. /\ Apart(s, seen', {"post", "normalized"}) /\ seen'.trace = s.trace
          /\ script >= 6 => seen'.post = D6Views(responses)
          /\ script >= 7 => seen'.normalized = responses
      <4>1. CASE script < 6
        BY <1>2, <2>4, <4>1 DEF Apart, ResponsesSeen, Scripts
      <4>2. CASE ~ script < 6
        <5>1. PICK post, normalized : /\ seen' = [s EXCEPT !.post = post, !.normalized = normalized]
                                      /\ post = D6Views(responses)
                                      /\ normalized = IF script >= 7 THEN responses ELSE s.normalized
          BY <2>4, <4>2 DEF ResponsesSeen
        <5>2. /\ Apart(s, seen', {"post", "normalized"}) /\ seen'.trace = s.trace
              /\ seen'.post = post /\ seen'.normalized = normalized
          BY <1>4, <5>1 DEF Apart, NothingSeen
        <5> QED
          BY <5>1, <5>2
      <4> QED
        BY <4>1, <4>2
    <3>2. Apart(seen, seen', {"trace", "post", "normalized"})
      BY <1>3, <3>1 DEF Apart
    <3> QED
      BY <1>3, <1>7, <2>1, <2>2, <2>4, <3>1, <3>2
  <2> QED
    BY <2>2, <2>3, <2>4
<1>8. CASE name = "FORMAT_SELECTION"
  <2>1. seen' = FormatsSeen(s) /\ world' = [world EXCEPT !.selection = "RETURNED"] /\ error' = error
    BY <1>1, <1>8 DEF Return
  <2>2. Apart(world, world', {"selection"}) /\ world'.selection = "RETURNED"
    BY <1>2, <2>1 DEF Apart, NothingHappened
  <2>3. /\ Apart(s, seen', {"observations", "population"}) /\ seen'.trace = s.trace
        /\ script >= 5 => /\ seen'.observations = s.observations + 1
                          /\ seen'.population = IF world.emitted = 0 THEN "EMPTY" ELSE "NONEMPTY"
    <3>1. CASE script < 5
      BY <1>2, <2>1, <3>1 DEF Apart, FormatsSeen, Scripts
    <3>2. CASE ~ script < 5
      <4>1. PICK count, population : /\ seen' = [s EXCEPT !.observations = count, !.population = population]
                                     /\ count = s.observations + 1
                                     /\ population = IF world.emitted = 0 THEN "EMPTY" ELSE "NONEMPTY"
        BY <2>1, <3>2 DEF FormatsSeen
      <4>2. /\ Apart(s, seen', {"observations", "population"}) /\ seen'.trace = s.trace
            /\ seen'.observations = count /\ seen'.population = population
        BY <1>4, <4>1 DEF Apart, NothingSeen
      <4> QED
        BY <4>1, <4>2
    <3> QED
      BY <3>1, <3>2
  <2>4. Apart(seen, seen', {"trace", "observations", "population"})
    BY <1>3, <2>3 DEF Apart
  <2> QED
    BY <1>3, <1>5, <1>8, <2>1, <2>2, <2>3, <2>4
<1>9. CASE name \notin {"PLAYER_RESPONSE", "PLAYER_RESPONSES", "FORMAT_SELECTION"}
  <2>1. /\ seen' = s /\ error' = error
        /\ world' = [world EXCEPT !.ie = IF name = "VIDEO_EXTRACT" THEN "RETURNED" ELSE @]
    BY <1>1, <1>9 DEF Return
  <2>2. Apart(world, world', {"ie"}) /\ world'.ie = IF name = "VIDEO_EXTRACT" THEN "RETURNED" ELSE world.ie
    BY <1>2, <2>1 DEF Apart, NothingHappened
  <2> QED
    BY <1>3, <1>9, <2>1, <2>2
<1> QED
  BY <1>6, <1>7, <1>8, <1>9

\* An event by which a call is left, and not entered.
Leaves(event, name) == event \in Event /\ event[1] = name /\ event[2] # "ENTER"

\* The exit of the innermost call, traced.
LEMMA ExitTraced ==
  ASSUME NEW trace \in Seq(Event), NEW names \in Seq(Stages), names # <<>>, UnwindsTo(trace, names),
         NEW event, Leaves(event, Last(names)), NEW more, more = Append(trace, event)
  PROVE  /\ more # <<>> /\ Len(more) = Len(trace) + 1 /\ Last(more) = event
         /\ trace # <<>> => more[1] = trace[1]
         /\ UnwindsTo(more, Front(names))
         /\ RaiseIn(more) <=> RaiseIn(trace) \/ Raises(event)
         /\ event # Selected => Selections(more) = Selections(trace)
         /\ event = Selected /\ Selections(trace) = {} => SelectedOnce(more)
         /\ DOMAIN trace \subseteq DOMAIN more
<1>1. event \in Event
  BY DEF Leaves
<1>2. PICK left : left = AfterEvent(names, event)
  OBVIOUS
<1>3. left = Front(names)
  BY <1>2 DEF AfterEvent, Leaves
<1>4. UnwindsTo(more, left)
  BY <1>1, <1>2, EventUnwinds
<1>5. Last(more) = event
  <2>1. \A e \in Event : \A t : t = Append(trace, e) => Last(t) = e
    BY ONLY trace \in Seq(Event), LastAppended
  <2> QED
    BY ONLY <1>1, <2>1, more = Append(trace, event)
<1>6. /\ more # <<>> /\ Len(more) = Len(trace) + 1
      /\ more[1] = IF trace = <<>> THEN event ELSE trace[1]
      /\ RaiseIn(more) <=> RaiseIn(trace) \/ Raises(event)
      /\ event # Selected => Selections(more) = Selections(trace)
      /\ event = Selected /\ Selections(trace) = {} => SelectedOnce(more)
  BY ONLY <1>1, trace \in Seq(Event), more = Append(trace, event), EventAdds
<1>7. DOMAIN trace \subseteq DOMAIN more
  <2>1. DOMAIN trace = 1 .. Len(trace) /\ Len(trace) \in Nat /\ DOMAIN more = 1 .. Len(trace) + 1
    BY <1>1, AppendOne
  <2> QED
    BY <2>1
<1> QED
  BY <1>3, <1>4, <1>5, <1>6, <1>7

\* At the ceiling nothing is traced, and what is in progress stays entered in the trace.
LEMMA CeilingObserved ==
  ASSUME ExtractionInv, DocInv, UNCHANGED <<script, clients, stage, completed>>, TraceFull,
         point = "inside", point' \in {"inside", "exit"}, stack # <<>>, NestInv', 
         stack' # <<>> => stack'[1].next = stack[1].next /\ (Top.name # "FORMAT_SELECTION" => stack[1].next = 2),
         Top.name = "FORMAT_SELECTION" => stack[1].next = 3 /\ Len(stack) = 2,
         Len(stack') = Len(stack) - 1,
         error' = "CONTRACT", world' = Hits(world), seen' = seen
  PROVE  DocInv'
<1>1. /\ TypeInv /\ StageInv /\ NestInv /\ TraceInv /\ SelectInv /\ FormatsInv /\ ShapesInv
      /\ script \in Scripts /\ stack \in Seq(Frame) /\ seen.trace \in Seq(Event)
      /\ DOMAIN world = DOMAIN NothingHappened
  BY DEF DocInv, ExtractionInv, TypeInv
<1>2. /\ world'.ceiling = TRUE /\ world'.swallowed = world.swallowed /\ world'.emitted = world.emitted
      /\ world'.verdict = world.verdict /\ world'.initial = world.initial /\ world'.api = world.api
      /\ world'.selection = world.selection /\ world'.ie = world.ie
  BY <1>1 DEF Hits, NothingHappened
<1>3. StageInv'
  BY <1>1, <1>2 DEF StageInv, Errors
<1>4. Len(stack) \in Nat \ {0} /\ stack[1].next \in 1 .. 3
  BY <1>1 DEF NestInv, Nested
<1>5. SelectInv'
  <2>1. world'.verdict => world'.selection = "RETURNED" /\ world'.emitted = 0
    BY <1>1, <1>2 DEF SelectInv
  <2>2. ASSUME point' = "inside"
        PROVE  /\ stack'[1].next <= 2 => world'.selection = "NONE" /\ seen'.selections = 0
               /\ ~ (stack'[1].next = 3 /\ Len(stack') = 2)
    <3>1. stack' # <<>>
      BY <2>2 DEF NestInv
    <3> QED
      BY <1>1, <1>2, <1>4, <3>1 DEF SelectInv
  <2> QED
    BY <1>1, <1>2, <2>1, <2>2 DEF SelectInv
<1>6. FormatsInv' /\ ShapesInv'
  BY <1>1, <1>2 DEF FormatsInv, ShapesInv
<1>7. TraceInv'
  <2>1. PICK names : names # <<>> /\ UnwindsTo(seen.trace, names)
    <3>1. Names(stack) # <<>>
      BY <1>1, NamesOf
    <3> QED
      BY <1>1, <3>1 DEF TraceInv, TraceFull
  <2>2. TraceFull' /\ script >= 4
    BY DEF TraceFull
  <2>3. world.ie = "ENTERED" /\ ~completed
    BY <1>1 DEF StageInv
  <2> QED
    BY <1>1, <1>2, <2>1, <2>2, <2>3 DEF TraceInv
<1> QED
  BY <1>3, <1>5, <1>6, <1>7 DEF DocInv

\* The fields that a return may change, and how.
LEMMA ReturnFields ==
  ASSUME TypeInv, ShapesInv, Return, ~TraceFull, error = "NONE", NEW name, name = Top.name
  PROVE  /\ world'.ceiling = world.ceiling /\ world'.swallowed = world.swallowed
         /\ world'.emitted = world.emitted /\ world'.verdict = world.verdict /\ world'.initial = world.initial
         /\ seen'.requests = seen.requests /\ seen'.answers = seen.answers
         /\ seen'.noFormats = seen.noFormats /\ seen'.drm = seen.drm
         /\ seen'.selections = seen.selections /\ seen'.selected = seen.selected
         /\ seen'.yields = seen.yields /\ seen'.initial = seen.initial
         /\ seen'.calls = seen.calls /\ seen'.chosen = seen.chosen
         /\ seen'.trace = IF script < 4 THEN seen.trace ELSE Append(seen.trace, <<name, "RETURN">>)
         /\ error' \in {"NONE", "CONTRACT"}
         /\ error' = "CONTRACT" => name \in {"PLAYER_RESPONSE", "PLAYER_RESPONSES"}
         /\ world'.ie = IF name = "VIDEO_EXTRACT" THEN "RETURNED" ELSE world.ie
         /\ world'.selection = IF name = "FORMAT_SELECTION" THEN "RETURNED" ELSE world.selection
         /\ name = "FORMAT_SELECTION" /\ script >= 5 =>
              /\ seen'.observations = seen.observations + 1
              /\ seen'.population = IF world.emitted = 0 THEN "EMPTY" ELSE "NONEMPTY"
         /\ name # "FORMAT_SELECTION" =>
              seen'.observations = seen.observations /\ seen'.population = seen.population
         /\ world'.api = world.api \/ \E shape \in Shapes : world'.api = Append(world.api, shape)
         /\ \/ seen'.pre = seen.pre /\ seen'.api = seen.api
            \/ \E shape \in Shapes :
                 /\ script >= 6 => seen'.pre = Append(seen.pre, D6View(shape)) /\ ~ Len(seen.pre) >= MAX_RESPONSES
                 /\ script >= 7 => seen'.api = Append(seen.api, shape)
         /\ \/ seen'.post = seen.post /\ seen'.normalized = seen.normalized
            \/ /\ name = "PLAYER_RESPONSES"
               /\ \E responses \in Seq(Shapes) :
                    /\ script >= 6 => seen'.post = D6Views(responses) /\ ~ Len(responses) > MAX_RESPONSES
                    /\ script >= 7 => seen'.normalized = responses
<1>1. DOMAIN seen = DOMAIN NothingSeen /\ DOMAIN world = DOMAIN NothingHappened
  BY DEF TypeInv
<1>2. seen'.trace = IF script < 4 THEN seen.trace ELSE Append(seen.trace, <<name, "RETURN">>)
  BY ReturnDoes
<1>3. /\ seen'.trace = IF script < 4 THEN seen.trace ELSE Append(seen.trace, <<name, "RETURN">>)
      /\ \/ /\ name = "PLAYER_RESPONSE" /\ Apart(world, world', {"api"})
            /\ Apart(seen, seen', {"trace", "pre", "api"})
            /\ \E shape \in Shapes :
                 /\ world'.api = Append(world.api, shape)
                 /\ \/ error' = "CONTRACT" /\ seen'.pre = seen.pre /\ seen'.api = seen.api
                    \/ /\ error' = error
                       /\ script >= 6 => /\ seen'.pre = Append(seen.pre, D6View(shape))
                                         /\ ~ Len(seen.pre) >= MAX_RESPONSES
                       /\ script >= 7 => seen'.api = Append(seen.api, shape)
         \/ /\ name = "PLAYER_RESPONSES" /\ world' = world
            /\ Apart(seen, seen', {"trace", "post", "normalized"})
            /\ \/ error' = "CONTRACT" /\ seen'.post = seen.post /\ seen'.normalized = seen.normalized
               \/ /\ error' = error
                  /\ \E responses : /\ responses = Normalized(world.initial, world.api)
                                    /\ script >= 6 => /\ seen'.post = D6Views(responses)
                                                      /\ ~ Len(responses) > MAX_RESPONSES
                                    /\ script >= 7 => seen'.normalized = responses
         \/ /\ name = "FORMAT_SELECTION" /\ error' = error
            /\ Apart(seen, seen', {"trace", "observations", "population"})
            /\ script >= 5 => /\ seen'.observations = seen.observations + 1
                              /\ seen'.population = IF world.emitted = 0 THEN "EMPTY" ELSE "NONEMPTY"
            /\ Apart(world, world', {"selection"}) /\ world'.selection = "RETURNED"
         \/ /\ name \notin {"PLAYER_RESPONSE", "PLAYER_RESPONSES", "FORMAT_SELECTION"}
            /\ error' = error /\ Apart(seen, seen', {"trace"})
            /\ Apart(world, world', {"ie"})
            /\ world'.ie = IF name = "VIDEO_EXTRACT" THEN "RETURNED" ELSE world.ie
  BY ReturnDoes
<1>4. /\ world'.ceiling = world.ceiling /\ world'.swallowed = world.swallowed
      /\ world'.emitted = world.emitted /\ world'.verdict = world.verdict /\ world'.initial = world.initial
  BY <1>1, <1>3 DEF Apart, NothingHappened
<1>5. /\ seen'.requests = seen.requests /\ seen'.answers = seen.answers
      /\ seen'.noFormats = seen.noFormats /\ seen'.drm = seen.drm
      /\ seen'.selections = seen.selections /\ seen'.selected = seen.selected
      /\ seen'.yields = seen.yields /\ seen'.initial = seen.initial
      /\ seen'.calls = seen.calls /\ seen'.chosen = seen.chosen
  BY <1>1, <1>3 DEF Apart, NothingSeen
<1>6. CASE name = "PLAYER_RESPONSE"
  <2>1. world'.ie = world.ie /\ world'.selection = world.selection
    BY <1>1, <1>3, <1>6 DEF Apart, NothingHappened
  <2>2. /\ seen'.observations = seen.observations /\ seen'.population = seen.population
        /\ seen'.post = seen.post /\ seen'.normalized = seen.normalized
    BY <1>1, <1>3, <1>6 DEF Apart, NothingSeen
  <2> QED
    BY <1>3, <1>4, <1>5, <1>6, <2>1, <2>2
<1>7. CASE name = "PLAYER_RESPONSES"
  <2>1. /\ seen'.observations = seen.observations /\ seen'.population = seen.population
        /\ seen'.pre = seen.pre /\ seen'.api = seen.api
    BY <1>1, <1>3, <1>7 DEF Apart, NothingSeen
  <2>2. Normalized(world.initial, world.api) \in Seq(Shapes)
    <3>1. world.initial \in Seq(Shapes) /\ world.api \in Seq(Shapes)
      BY DEF ShapesInv
    <3> QED
      BY ONLY <3>1, NormalizedOf
  <2>3. /\ world' = world
        /\ \/ error' = "CONTRACT" /\ seen'.post = seen.post /\ seen'.normalized = seen.normalized
           \/ /\ error' = error
              /\ \E responses \in Seq(Shapes) :
                   /\ script >= 6 => seen'.post = D6Views(responses) /\ ~ Len(responses) > MAX_RESPONSES
                   /\ script >= 7 => seen'.normalized = responses
    BY <1>3, <1>7, <2>2
  <2> QED
    BY <1>2, <1>4, <1>5, <1>7, <2>1, <2>3
<1>8. CASE name = "FORMAT_SELECTION"
  <2>1. world'.ie = world.ie /\ world'.api = world.api
    BY <1>1, <1>3, <1>8 DEF Apart, NothingHappened
  <2>2. /\ seen'.pre = seen.pre /\ seen'.api = seen.api
        /\ seen'.post = seen.post /\ seen'.normalized = seen.normalized
    BY <1>1, <1>3, <1>8 DEF Apart, NothingSeen
  <2> QED
    BY <1>3, <1>4, <1>5, <1>8, <2>1, <2>2
<1>9. CASE name \notin {"PLAYER_RESPONSE", "PLAYER_RESPONSES", "FORMAT_SELECTION"}
  <2>1. world'.selection = world.selection /\ world'.api = world.api
    BY <1>1, <1>3, <1>9 DEF Apart, NothingHappened
  <2>2. /\ seen'.pre = seen.pre /\ seen'.api = seen.api
        /\ seen'.post = seen.post /\ seen'.normalized = seen.normalized
        /\ seen'.observations = seen.observations /\ seen'.population = seen.population
    BY <1>1, <1>3, <1>9 DEF Apart, NothingSeen
  <2> QED
    BY <1>3, <1>4, <1>5, <1>9, <2>1, <2>2
<1> QED
  BY <1>6, <1>7, <1>8, <1>9

\* A call that returns is traced, and what it returned is seen as it was.
LEMMA ReturnObserved ==
  ASSUME ExtractionInv, DocInv, Return, UNCHANGED <<script, clients>>
  PROVE  DocInv'
<1>1. /\ TypeInv /\ StageInv /\ NestInv /\ TraceInv /\ SelectInv /\ FormatsInv /\ ShapesInv
      /\ script \in Scripts /\ stack \in Seq(Frame) /\ seen.trace \in Seq(Event) /\ script' = script
  BY DEF DocInv, ExtractionInv, TypeInv
<1>2. PICK name : name = Top.name
  OBVIOUS
<1>3. /\ point = "inside" /\ error = "NONE" /\ stack # <<>>
      /\ name = "VIDEO_EXTRACT" => world.emitted > 0
      /\ stack' = Popped /\ UNCHANGED <<stage, completed>>
      /\ point' = IF name # "VIDEO_EXTRACT" THEN "inside" ELSE IF TraceFull THEN "exit" ELSE "process"
  BY <1>2 DEF Return
<1>4. /\ NestInv'
      /\ Names(stack) \in Seq(Stages) /\ Names(stack) # <<>>
      /\ Last(Names(stack)) = name /\ Names(stack') = Front(Names(stack))
      /\ name \in Stages /\ stack[1].next \in 1 .. 3
      /\ stack' # <<>> =>
           /\ stack'[1].next = stack[1].next
           /\ name # "FORMAT_SELECTION" => stack[1].next = 2
      /\ name = "FORMAT_SELECTION" => Len(stack) = 2 /\ stack[1].next = 3
      /\ (name = "VIDEO_EXTRACT") <=> (stack' = <<>>)
      /\ Len(stack') = Len(stack) - 1 /\ Len(stack) \in Nat
  <2>1. (point' = "inside") <=> (Top.name # "VIDEO_EXTRACT")
    BY <1>2, <1>3
  <2> QED
    BY <1>1, <1>2, <1>3, <2>1, LeaveNests
<1>5. CASE TraceFull
  <2>1. error' = "CONTRACT" /\ world' = Hits(world) /\ seen' = seen /\ point' \in {"inside", "exit"}
    BY <1>3, <1>5 DEF Return
  <2> QED
    BY <1>2, <1>3, <1>4, <1>5, <2>1, CeilingObserved
<1>6. CASE ~TraceFull
  <2>1. /\ world'.ceiling = world.ceiling /\ world'.swallowed = world.swallowed
        /\ world'.emitted = world.emitted /\ world'.verdict = world.verdict /\ world'.initial = world.initial
        /\ seen'.requests = seen.requests /\ seen'.answers = seen.answers
        /\ seen'.noFormats = seen.noFormats /\ seen'.drm = seen.drm
        /\ seen'.selections = seen.selections /\ seen'.selected = seen.selected
        /\ seen'.yields = seen.yields /\ seen'.initial = seen.initial
        /\ seen'.calls = seen.calls /\ seen'.chosen = seen.chosen
        /\ seen'.trace = IF script < 4 THEN seen.trace ELSE Append(seen.trace, <<name, "RETURN">>)
        /\ error' \in {"NONE", "CONTRACT"}
        /\ error' = "CONTRACT" => name \in {"PLAYER_RESPONSE", "PLAYER_RESPONSES"}
        /\ world'.ie = IF name = "VIDEO_EXTRACT" THEN "RETURNED" ELSE world.ie
        /\ world'.selection = IF name = "FORMAT_SELECTION" THEN "RETURNED" ELSE world.selection
        /\ name = "FORMAT_SELECTION" /\ script >= 5 =>
             /\ seen'.observations = seen.observations + 1
             /\ seen'.population = IF world.emitted = 0 THEN "EMPTY" ELSE "NONEMPTY"
        /\ name # "FORMAT_SELECTION" =>
             seen'.observations = seen.observations /\ seen'.population = seen.population
        /\ world'.api = world.api \/ \E shape \in Shapes : world'.api = Append(world.api, shape)
        /\ \/ seen'.pre = seen.pre /\ seen'.api = seen.api
           \/ \E shape \in Shapes :
                /\ script >= 6 => seen'.pre = Append(seen.pre, D6View(shape)) /\ ~ Len(seen.pre) >= MAX_RESPONSES
                /\ script >= 7 => seen'.api = Append(seen.api, shape)
        /\ \/ seen'.post = seen.post /\ seen'.normalized = seen.normalized
           \/ /\ name = "PLAYER_RESPONSES"
              /\ \E responses \in Seq(Shapes) :
                   /\ script >= 6 => seen'.post = D6Views(responses) /\ ~ Len(responses) > MAX_RESPONSES
                   /\ script >= 7 => seen'.normalized = responses
    BY <1>1, <1>2, <1>3, <1>6, ReturnFields
  <2>2. ~world.verdict /\ world.ie = "ENTERED" /\ (script >= 4 => ~world.ceiling)
    <3>1. ~world.verdict
      BY <1>3 DEF ExtractionInv, VerdictInv
    <3> QED
      BY <1>1, <1>3, <1>6, <3>1 DEF StageInv, TraceInv
  <2>3. StageInv'
    <3>1. seen'.answers \in Seq(Answers) /\ Len(seen'.answers) = seen'.requests
      BY <1>1, <2>1 DEF StageInv
    <3>2. stage' = "EXTRACT_INFO_RAISED" /\ completed' = FALSE
      BY <1>1, <1>3 DEF StageInv
    <3>3. error' \in Errors /\ (point' = "process" => error' = "NONE")
      BY <1>3, <1>6, <2>1 DEF Errors
    <3>4. /\ point' = "inside" => world'.ie = "ENTERED"
          /\ point' = "process" => world'.ie = "RETURNED"
          /\ world'.ie \in {"ENTERED", "RETURNED"} /\ point' \in {"inside", "process"}
      BY <1>3, <1>6, <2>1, <2>2
    <3> QED
      BY <3>1, <3>2, <3>3, <3>4 DEF StageInv, ExtractorStages
  <2>4. /\ name = "FORMAT_SELECTION" => world.selection = "ENTERED"
        /\ name # "FORMAT_SELECTION" /\ stack' # <<>> => world.selection = "NONE" /\ seen.selections = 0
        /\ name = "PLAYER_RESPONSES" => world.selection = "NONE" /\ seen.selections = 0
    BY <1>1, <1>3, <1>4 DEF SelectInv
  <2>5. SelectInv'
    <3>1. point' = "inside" => stack' # <<>>
      BY <1>4 DEF NestInv
    <3>2. /\ world'.selection \in {"NONE", "ENTERED", "RETURNED", "RAISED"}
          /\ world'.emitted \in Nat /\ ~world'.verdict
          /\ world'.emitted > 0 => world'.selection # "NONE"
      BY <1>1, <2>1, <2>2 DEF SelectInv
    <3>3. CASE name = "FORMAT_SELECTION"
      <4>1. Len(stack') = 1 /\ world'.selection = "RETURNED" /\ (stack' # <<>> => stack'[1].next = 3)
        BY <1>4, <2>1, <3>3
      <4> QED
        BY <3>1, <3>2, <4>1 DEF SelectInv
    <3>4. CASE name # "FORMAT_SELECTION"
      <4>1. stack' # <<>> => stack'[1].next = 2 /\ world'.selection = "NONE" /\ seen'.selections = 0
        BY <1>4, <2>1, <2>4, <3>4
      <4> QED
        BY <3>1, <3>2, <4>1 DEF SelectInv
    <3> QED
      BY <3>3, <3>4
  <2>6. FormatsInv'
    BY <1>1, <2>1, <2>4 DEF FormatsInv
  <2>7. ShapesInv'
    <3>1. world'.initial \in Seq(Shapes) /\ Len(world'.initial) <= 1 /\ world'.api \in Seq(Shapes)
      BY <1>1, <2>1, ViewsAppend DEF ShapesInv
    <3>2. script >= 6 =>
            /\ seen'.yields = world'.emitted /\ seen'.yields <= MAX_FORMAT_YIELDS
            /\ seen'.selections \in {0, 1}
            /\ world'.selection # "NONE" => seen'.selections = 1
            /\ seen'.selections = 1 => world'.selection # "NONE" \/ world'.ceiling
      BY <1>1, <2>1, <2>4 DEF ShapesInv
    <3>3. ASSUME script >= 6
          PROVE  /\ seen'.pre \in Seq(Shapes) /\ Len(seen'.pre) <= MAX_RESPONSES
                 /\ script = 7 => seen'.api \in Seq(Shapes) /\ seen'.pre = D6Views(seen'.api)
      <4>1. /\ seen.pre \in Seq(Shapes) /\ Len(seen.pre) <= MAX_RESPONSES
            /\ script = 7 => seen.api \in Seq(Shapes) /\ seen.pre = D6Views(seen.api)
        BY <1>1, <3>3 DEF ShapesInv
      <4>2. CASE seen'.pre = seen.pre /\ seen'.api = seen.api
        BY <4>1, <4>2
      <4>3. ASSUME NEW shape \in Shapes,
                   seen'.pre = Append(seen.pre, D6View(shape)), ~ Len(seen.pre) >= MAX_RESPONSES,
                   script >= 7 => seen'.api = Append(seen.api, shape)
            PROVE  /\ seen'.pre \in Seq(Shapes) /\ Len(seen'.pre) <= MAX_RESPONSES
                   /\ script = 7 => seen'.api \in Seq(Shapes) /\ seen'.pre = D6Views(seen'.api)
        <5>1. D6View(shape) \in Shapes
          BY DEF D6View, Shapes
        <5>2. seen'.pre \in Seq(Shapes) /\ Len(seen'.pre) = Len(seen.pre) + 1 /\ Len(seen.pre) \in Nat
          BY <4>1, <4>3, <5>1, AppendOne
        <5>3. Len(seen'.pre) <= MAX_RESPONSES
          BY <4>3, <5>2, BoundsAreNatural
        <5>4. ASSUME script = 7
              PROVE  seen'.api \in Seq(Shapes) /\ D6Views(seen'.api) = Append(D6Views(seen.api), D6View(shape))
          <6>1. seen.api \in Seq(Shapes) /\ seen'.api = Append(seen.api, shape)
            BY <4>1, <4>3, <5>4
          <6> QED
            BY ONLY <4>3, <6>1, ViewsAppend
        <5> QED
          BY <4>1, <4>3, <5>2, <5>3, <5>4
      <4> QED
        BY <1>1, <2>1, <3>3, <4>2, <4>3 DEF Scripts
    <3>4. ASSUME script >= 6
          PROVE  /\ seen'.post \in Seq(Shapes) /\ Len(seen'.post) <= MAX_RESPONSES
                 /\ script = 7 => seen'.normalized \in Seq(Shapes) /\ seen'.post = D6Views(seen'.normalized)
                 /\ seen'.selections = 1 => seen'.post = seen.post /\ seen'.normalized = seen.normalized
      <4>1. /\ seen.post \in Seq(Shapes) /\ Len(seen.post) <= MAX_RESPONSES
            /\ script = 7 => seen.normalized \in Seq(Shapes) /\ seen.post = D6Views(seen.normalized)
        BY <1>1, <3>4 DEF ShapesInv
      <4>2. CASE seen'.post = seen.post /\ seen'.normalized = seen.normalized
        BY <4>1, <4>2
      <4>3. ASSUME name = "PLAYER_RESPONSES", NEW responses \in Seq(Shapes),
                   seen'.post = D6Views(responses), ~ Len(responses) > MAX_RESPONSES,
                   script >= 7 => seen'.normalized = responses
            PROVE  /\ seen'.post \in Seq(Shapes) /\ Len(seen'.post) <= MAX_RESPONSES
                   /\ script = 7 => seen'.normalized \in Seq(Shapes) /\ seen'.post = D6Views(seen'.normalized)
                   /\ seen'.selections # 1
        <5>1. seen'.post \in Seq(Shapes) /\ Len(seen'.post) = Len(responses) /\ Len(responses) \in Nat
          BY <4>3, ViewsOf
        <5>2. Len(seen'.post) <= MAX_RESPONSES
          BY <4>3, <5>1, BoundsAreNatural
        <5> QED
          BY <2>1, <2>4, <4>3, <5>1, <5>2
      <4> QED
        BY <1>1, <2>1, <3>4, <4>2, <4>3 DEF Scripts
    <3>5. script >= 6 => seen'.selected = IF seen'.selections = 1 THEN seen'.post ELSE <<>>
      BY <1>1, <2>1, <3>4 DEF ShapesInv
    <3>6. script = 7 =>
            /\ seen'.calls = seen'.selections /\ Len(seen'.initial) <= 1
            /\ seen'.chosen = IF seen'.selections = 1 THEN seen'.normalized ELSE <<>>
      BY <1>1, <2>1, <3>4 DEF ShapesInv
    <3> QED
      BY <1>1, <3>1, <3>2, <3>3, <3>4, <3>5, <3>6 DEF ShapesInv
  <2>8. ASSUME script >= 4
        PROVE  TraceInv'
    <3>1. PICK event : event = <<name, "RETURN">>
      OBVIOUS
    <3>2. PICK trace : trace = Append(seen.trace, event)
      OBVIOUS
    <3>3. seen'.trace = trace
      BY <1>1, <2>1, <2>8, <3>1, <3>2 DEF Scripts
    <3>4. UnwindsTo(seen.trace, Names(stack))
      BY <1>1, <2>2, <2>8 DEF TraceInv
    <3>5. /\ trace # <<>> /\ Len(trace) = Len(seen.trace) + 1 /\ Last(trace) = event
          /\ seen.trace # <<>> => trace[1] = seen.trace[1]
          /\ UnwindsTo(trace, Front(Names(stack)))
          /\ RaiseIn(trace) <=> RaiseIn(seen.trace) \/ Raises(event)
          /\ event # Selected => Selections(trace) = Selections(seen.trace)
          /\ event = Selected /\ Selections(seen.trace) = {} => SelectedOnce(trace)
          /\ DOMAIN seen.trace \subseteq DOMAIN trace
      <4>1. Leaves(event, Last(Names(stack)))
        BY <1>4, <3>1 DEF Leaves, Event
      <4>2. seen.trace \in Seq(Event) /\ Names(stack) \in Seq(Stages) /\ Names(stack) # <<>>
        BY <1>1, <1>4
      <4>3. PICK old, names : old = seen.trace /\ names = Names(stack)
        OBVIOUS
      <4>4. /\ old \in Seq(Event) /\ names \in Seq(Stages) /\ names # <<>> /\ UnwindsTo(old, names)
            /\ Leaves(event, Last(names)) /\ trace = Append(old, event)
        BY ONLY <3>2, <3>4, <4>1, <4>2, <4>3
      <4>5. /\ trace # <<>> /\ Len(trace) = Len(old) + 1 /\ Last(trace) = event
            /\ old # <<>> => trace[1] = old[1]
            /\ UnwindsTo(trace, Front(names))
            /\ RaiseIn(trace) <=> RaiseIn(old) \/ Raises(event)
            /\ event # Selected => Selections(trace) = Selections(old)
            /\ event = Selected /\ Selections(old) = {} => SelectedOnce(trace)
            /\ DOMAIN old \subseteq DOMAIN trace
        BY ONLY <4>4, ExitTraced
      <4> QED
        BY ONLY <4>3, <4>5
    <3>6. Len(trace) <= MAX_STAGE_EVENTS
      <4>1. Len(seen.trace) \in Nat
        BY <1>1
      <4> QED
        BY <1>6, <2>8, <3>5, <4>1, BoundsAreNatural DEF TraceFull
    <3>7. UnwindsTo(trace, Names(stack'))
      BY <1>4, <3>5
    <3>8. (event = Selected) <=> (name = "FORMAT_SELECTION")
      BY <3>1 DEF Selected
    <3>9. name = "VIDEO_EXTRACT" => event = Returned
      BY <3>1 DEF Returned
    <3>10. seen.trace # <<>> /\ seen.trace[1] = Began
      BY <1>1, <2>2, <2>8 DEF TraceInv
    <3>11. IF world'.selection = "RETURNED" THEN SelectedOnce(trace)
           ELSE Selections(trace) = {}
      <4>1. IF world.selection = "RETURNED" THEN SelectedOnce(seen.trace)
            ELSE Selections(seen.trace) = {}
        BY <1>1, <2>8 DEF TraceInv
      <4>3. CASE name = "FORMAT_SELECTION"
        BY <2>1, <2>4, <3>5, <3>8, <4>1, <4>3
      <4>4. CASE name # "FORMAT_SELECTION"
        BY <2>1, <3>5, <3>8, <4>1, <4>4 DEF SelectedOnce
      <4> QED
        BY <4>3, <4>4
    <3>12. /\ world'.swallowed => RaiseIn(trace)
           /\ RaiseIn(trace) /\ ~world'.swallowed => FALSE
      <4>1. ~Raises(event)
        BY <3>1 DEF Raises
      <4> QED
        BY <1>1, <1>3, <2>1, <2>8, <3>5, <4>1 DEF TraceInv
    <3>13. world'.ie = "RETURNED" => Last(trace) = Returned
      BY <2>1, <2>2, <3>5, <3>9
    <3>14. point' \notin {"exit", "finished"} /\ ~world'.ceiling
      BY <1>3, <1>6, <2>1, <2>2, <2>8
    <3> QED
      BY <1>1, <3>3, <3>5, <3>6, <3>7, <3>10, <3>11, <3>12, <3>13, <3>14 DEF TraceInv
  <2> QED
    BY <1>1, <1>4, <2>3, <2>5, <2>6, <2>7, <2>8 DEF DocInv, TraceInv
<1> QED
  BY <1>5, <1>6

\* An exception that leaves a call is traced, and one client's may be swallowed.
LEMMA UnwindObserved ==
  ASSUME ExtractionInv, DocInv, Unwind, UNCHANGED <<script, clients>>
  PROVE  DocInv'
<1>1. /\ TypeInv /\ StageInv /\ NestInv /\ TraceInv /\ SelectInv /\ FormatsInv /\ ShapesInv
      /\ script \in Scripts /\ stack \in Seq(Frame) /\ seen.trace \in Seq(Event) /\ script' = script
      /\ DOMAIN seen = DOMAIN NothingSeen /\ DOMAIN world = DOMAIN NothingHappened
  BY DEF DocInv, ExtractionInv, TypeInv
<1>2. PICK name : name = Top.name
  OBVIOUS
<1>3. /\ point = "inside" /\ error # "NONE" /\ stack # <<>>
      /\ stack' = Popped /\ UNCHANGED <<stage, completed>>
      /\ point' = IF name = "VIDEO_EXTRACT" THEN "exit" ELSE "inside"
  BY <1>2 DEF Unwind
<1>4. /\ NestInv'
      /\ Names(stack) \in Seq(Stages) /\ Names(stack) # <<>>
      /\ Last(Names(stack)) = name /\ Names(stack') = Front(Names(stack))
      /\ name \in Stages /\ stack[1].next \in 1 .. 3
      /\ stack' # <<>> =>
           /\ stack'[1].next = stack[1].next
           /\ name # "FORMAT_SELECTION" => stack[1].next = 2
      /\ name = "FORMAT_SELECTION" => Len(stack) = 2 /\ stack[1].next = 3
      /\ (name = "VIDEO_EXTRACT") <=> (stack' = <<>>)
      /\ Len(stack') = Len(stack) - 1 /\ Len(stack) \in Nat
  <2>1. (point' = "inside") <=> (Top.name # "VIDEO_EXTRACT")
    BY <1>2, <1>3
  <2> QED
    BY <1>1, <1>2, <1>3, <2>1, LeaveNests
<1>5. CASE TraceFull
  <2>1. error' = "CONTRACT" /\ world' = Hits(world) /\ seen' = seen /\ point' \in {"inside", "exit"}
    BY <1>3, <1>5 DEF Unwind
  <2> QED
    BY <1>2, <1>3, <1>4, <1>5, <2>1, CeilingObserved
<1>6. CASE ~TraceFull
  <2>1. PICK goOn \in BOOLEAN :
          /\ goOn => name = "PLAYER_RESPONSE"
          /\ error' = IF goOn THEN "NONE" ELSE error
          /\ world' = [world EXCEPT !.swallowed = @ \/ goOn,
                                    !.selection = IF name = "FORMAT_SELECTION" THEN "RAISED" ELSE @]
    BY <1>2, <1>6 DEF Unwind
  <2>2. /\ world'.ceiling = world.ceiling /\ world'.emitted = world.emitted /\ world'.verdict = world.verdict
        /\ world'.initial = world.initial /\ world'.api = world.api /\ world'.ie = world.ie
        /\ world'.selection = IF name = "FORMAT_SELECTION" THEN "RAISED" ELSE world.selection
        /\ world'.swallowed <=> world.swallowed \/ goOn
    <3>1. PICK swallowed, selection :
            /\ world' = [world EXCEPT !.swallowed = swallowed, !.selection = selection]
            /\ swallowed = (world.swallowed \/ goOn)
            /\ selection = IF name = "FORMAT_SELECTION" THEN "RAISED" ELSE world.selection
      BY <2>1
    <3>2. /\ world'.ceiling = world.ceiling /\ world'.emitted = world.emitted /\ world'.verdict = world.verdict
          /\ world'.initial = world.initial /\ world'.api = world.api /\ world'.ie = world.ie
          /\ world'.selection = selection /\ world'.swallowed = swallowed
      BY <1>1, <3>1 DEF NothingHappened
    <3> QED
      BY <3>1, <3>2
  <2>3. seen' = Traced(seen, name, "RAISE")
    BY <1>2, <1>6 DEF Unwind
  <2>4. /\ Apart(seen, seen', {"trace"})
        /\ seen'.trace = IF script < 4 THEN seen.trace ELSE Append(seen.trace, <<name, "RAISE">>)
    BY <1>1, <2>3, TracedDoes
  <2>5. /\ seen'.requests = seen.requests /\ seen'.answers = seen.answers
        /\ seen'.population = seen.population /\ seen'.observations = seen.observations
        /\ seen'.noFormats = seen.noFormats /\ seen'.drm = seen.drm
        /\ seen'.pre = seen.pre /\ seen'.post = seen.post /\ seen'.selected = seen.selected
        /\ seen'.selections = seen.selections /\ seen'.yields = seen.yields
        /\ seen'.initial = seen.initial /\ seen'.api = seen.api /\ seen'.normalized = seen.normalized
        /\ seen'.chosen = seen.chosen /\ seen'.calls = seen.calls
    BY <1>1, <2>4 DEF Apart, NothingSeen
  <2>6. /\ world.ie = "ENTERED" /\ (script >= 4 => ~world.ceiling) /\ completed = FALSE
        /\ stage = "EXTRACT_INFO_RAISED" /\ error \in Errors
    BY <1>1, <1>3, <1>6 DEF StageInv, TraceInv
  <2>7. /\ name = "FORMAT_SELECTION" => world.selection = "ENTERED" /\ ~world.verdict
        /\ name # "FORMAT_SELECTION" /\ stack' # <<>> => world.selection = "NONE" /\ seen.selections = 0
    <3>1. world.verdict => Len(stack) = 1
      BY <1>3 DEF ExtractionInv, VerdictInv
    <3> QED
      BY <1>1, <1>3, <1>4, <3>1 DEF SelectInv
  <2>8. StageInv'
    <3>1. seen'.answers \in Seq(Answers) /\ Len(seen'.answers) = seen'.requests
      BY <1>1, <2>5 DEF StageInv
    <3>2. error' \in Errors /\ (point' = "exit" => error' # "NONE")
      BY <1>3, <2>1, <2>6 DEF Errors
    <3> QED
      BY <1>3, <2>2, <2>6, <3>1, <3>2 DEF StageInv, ExtractorStages
  <2>9. SelectInv'
    <3>1. point' = "inside" => stack' # <<>>
      BY <1>4 DEF NestInv
    <3>2. /\ world'.selection \in {"NONE", "ENTERED", "RETURNED", "RAISED"}
          /\ world'.emitted \in Nat
          /\ world'.emitted > 0 => world'.selection # "NONE"
          /\ world'.verdict => world'.selection = "RETURNED" /\ world'.emitted = 0
      BY <1>1, <2>2, <2>7 DEF SelectInv
    <3>3. CASE name = "FORMAT_SELECTION"
      <4>1. Len(stack') = 1 /\ error' # "NONE" /\ (stack' # <<>> => stack'[1].next = 3)
        BY <1>3, <1>4, <2>1, <3>3
      <4> QED
        BY <3>1, <3>2, <4>1 DEF SelectInv
    <3>4. CASE name # "FORMAT_SELECTION"
      <4>1. stack' # <<>> => stack'[1].next = 2 /\ world'.selection = "NONE" /\ seen'.selections = 0
        BY <1>4, <2>2, <2>5, <2>7, <3>4
      <4> QED
        BY <3>1, <3>2, <4>1 DEF SelectInv
    <3> QED
      BY <3>3, <3>4
  <2>10. FormatsInv'
    BY <1>1, <2>2, <2>5, <2>7 DEF FormatsInv
  <2>11. ShapesInv'
    BY <1>1, <2>2, <2>5, <2>7 DEF ShapesInv
  <2>12. ASSUME script >= 4
         PROVE  TraceInv'
    <3>1. PICK event : event = <<name, "RAISE">>
      OBVIOUS
    <3>2. PICK trace : trace = Append(seen.trace, event)
      OBVIOUS
    <3>3. seen'.trace = trace
      BY <1>1, <2>4, <2>12, <3>1, <3>2 DEF Scripts
    <3>4. UnwindsTo(seen.trace, Names(stack))
      BY <1>1, <2>6, <2>12 DEF TraceInv
    <3>5. /\ trace # <<>> /\ Len(trace) = Len(seen.trace) + 1 /\ Last(trace) = event
          /\ seen.trace # <<>> => trace[1] = seen.trace[1]
          /\ UnwindsTo(trace, Front(Names(stack)))
          /\ RaiseIn(trace) <=> RaiseIn(seen.trace) \/ Raises(event)
          /\ event # Selected => Selections(trace) = Selections(seen.trace)
          /\ event = Selected /\ Selections(seen.trace) = {} => SelectedOnce(trace)
          /\ DOMAIN seen.trace \subseteq DOMAIN trace
      <4>1. Leaves(event, Last(Names(stack)))
        BY <1>4, <3>1 DEF Leaves, Event
      <4>2. seen.trace \in Seq(Event) /\ Names(stack) \in Seq(Stages) /\ Names(stack) # <<>>
        BY <1>1, <1>4
      <4>3. PICK old, names : old = seen.trace /\ names = Names(stack)
        OBVIOUS
      <4>4. /\ old \in Seq(Event) /\ names \in Seq(Stages) /\ names # <<>> /\ UnwindsTo(old, names)
            /\ Leaves(event, Last(names)) /\ trace = Append(old, event)
        BY ONLY <3>2, <3>4, <4>1, <4>2, <4>3
      <4>5. /\ trace # <<>> /\ Len(trace) = Len(old) + 1 /\ Last(trace) = event
            /\ old # <<>> => trace[1] = old[1]
            /\ UnwindsTo(trace, Front(names))
            /\ RaiseIn(trace) <=> RaiseIn(old) \/ Raises(event)
            /\ event # Selected => Selections(trace) = Selections(old)
            /\ event = Selected /\ Selections(old) = {} => SelectedOnce(trace)
            /\ DOMAIN old \subseteq DOMAIN trace
        BY ONLY <4>4, ExitTraced
      <4> QED
        BY ONLY <4>3, <4>5
    <3>6. Len(trace) <= MAX_STAGE_EVENTS
      <4>1. Len(seen.trace) \in Nat
        BY <1>1
      <4> QED
        BY <1>6, <2>12, <3>5, <4>1, BoundsAreNatural DEF TraceFull
    <3>7. UnwindsTo(trace, Names(stack'))
      BY <1>4, <3>5
    <3>8. event # Selected /\ Raises(event) /\ (name = "VIDEO_EXTRACT" => event = Raised)
      BY <3>1 DEF Selected, Raises, Raised
    <3>9. seen.trace # <<>> /\ seen.trace[1] = Began
      BY <1>1, <2>6, <2>12 DEF TraceInv
    <3>10. IF world'.selection = "RETURNED" THEN SelectedOnce(trace) ELSE Selections(trace) = {}
      <4>1. IF world.selection = "RETURNED" THEN SelectedOnce(seen.trace) ELSE Selections(seen.trace) = {}
        BY <1>1, <2>12 DEF TraceInv
      <4>2. Selections(trace) = Selections(seen.trace) /\ (SelectedOnce(seen.trace) => SelectedOnce(trace))
        BY <3>5, <3>8 DEF SelectedOnce
      <4> QED
        BY <2>2, <2>7, <4>1, <4>2
    <3>11. /\ RaiseIn(trace)
           /\ ~world'.swallowed /\ point' = "inside" => error' # "NONE"
      BY <1>3, <2>1, <2>2, <3>5, <3>8
    <3>12. /\ point' \in {"inside", "exit"} /\ ~world'.ceiling /\ world'.ie = "ENTERED"
           /\ point' = "exit" => Last(trace) = Raised
           /\ completed' = FALSE
      BY <1>3, <2>2, <2>6, <2>12, <3>5, <3>8
    <3> QED
      BY <1>1, <3>3, <3>5, <3>6, <3>7, <3>9, <3>10, <3>11, <3>12 DEF TraceInv
  <2> QED
    BY <1>1, <1>4, <2>8, <2>9, <2>10, <2>11, <2>12 DEF DocInv, TraceInv
<1> QED
  BY <1>5, <1>6

-------------------------------------------------------------------------------
(* Everything else that happens *)

\* Around YoutubeIE nothing is traced or copied.
LEMMA BoundaryObserved ==
  ASSUME ExtractionInv, DocInv, Construct \/ FailsEarly \/ Process \/ Exit, UNCHANGED <<script, clients>>
  PROVE  DocInv'
<1>1. /\ TypeInv /\ StageInv /\ NestInv /\ TraceInv /\ SelectInv /\ FormatsInv /\ ShapesInv
      /\ script \in Scripts /\ script' = script
  BY DEF DocInv, ExtractionInv, TypeInv
<1>2. /\ UNCHANGED <<stack, seen, world>> /\ point # "inside" /\ point' # "inside"
      /\ point \in {"construct", "extract", "process", "exit"}
  BY DEF Construct, FailsEarly, Process, Exit
<1>3. NestInv' /\ SelectInv' /\ FormatsInv' /\ ShapesInv'
  BY <1>1, <1>2 DEF NestInv, SelectInv, FormatsInv, ShapesInv
<1>4. CASE Construct
  <2>1. /\ point = "construct" /\ UNCHANGED completed
        /\ \/ point' = "extract" /\ stage' = "EXTRACT_INFO_RAISED" /\ error' = error
           \/ point' = "finished" /\ error' = "OTHER" /\ stage' = stage
    BY <1>4 DEF Construct
  <2>2. world.ie = "NONE"
    BY <1>1, <2>1 DEF StageInv
  <2>3. StageInv'
    BY <1>1, <1>2, <2>1, <2>2 DEF StageInv, ExtractorStages, Errors
  <2>4. TraceInv'
    BY <1>1, <1>2, <2>1, <2>2 DEF TraceInv, TraceFull
  <2> QED
    BY <1>3, <2>3, <2>4 DEF DocInv
<1>5. CASE FailsEarly
  <2>1. point = "extract" /\ point' = "exit" /\ error' = "EXTRACTOR" /\ UNCHANGED <<stage, completed>>
    BY <1>5 DEF FailsEarly
  <2>2. world.ie = "NONE"
    BY <1>1, <2>1 DEF StageInv
  <2>3. StageInv'
    BY <1>1, <1>2, <2>1, <2>2 DEF StageInv, Errors, ExtractorErrors
  <2>4. TraceInv'
    BY <1>1, <1>2, <2>1, <2>2 DEF TraceInv, TraceFull
  <2> QED
    BY <1>3, <2>3, <2>4 DEF DocInv
<1>6. CASE Process
  <2>1. /\ point = "process" /\ point' = "exit"
        /\ \/ error' = "EXTRACTOR" /\ UNCHANGED <<stage, completed>>
           \/ completed' = TRUE /\ stage' = "MAPPING_RETURNED" /\ error' = error
           \/ stage' = "NON_MAPPING_RETURNED" /\ UNCHANGED <<error, completed>>
    BY <1>6 DEF Process
  <2>2. world.ie = "RETURNED" /\ error = "NONE" /\ stage = "EXTRACT_INFO_RAISED" /\ completed = FALSE
    BY <1>1, <2>1 DEF StageInv
  <2>3. StageInv'
    BY <1>1, <1>2, <2>1, <2>2 DEF StageInv, ExtractorStages, Errors, ExtractorErrors
  <2>4. TraceInv'
    BY <1>1, <1>2, <2>1, <2>2 DEF TraceInv, TraceFull
  <2> QED
    BY <1>3, <2>3, <2>4 DEF DocInv
<1>7. CASE Exit
  <2>1. /\ point = "exit" /\ point' = "finished" /\ UNCHANGED <<stage, completed>>
        /\ error' = error \/ error' = "OTHER"
    BY <1>7 DEF Exit
  <2>2. StageInv'
    BY <1>1, <1>2, <2>1 DEF StageInv, Errors
  <2>3. TraceInv'
    BY <1>1, <1>2, <2>1 DEF TraceInv, TraceFull
  <2> QED
    BY <1>3, <2>2, <2>3 DEF DocInv
<1> QED
  BY <1>4, <1>5, <1>6, <1>7

\* Within a phase the trace stays, and so does what is in progress.
LEMMA WithinObserved ==
  ASSUME ExtractionInv, DocInv, UNCHANGED <<script, clients, point, stack, stage, completed>>,
         point = "inside", error = "NONE", error' \in Errors, seen'.trace = seen.trace,
         seen'.answers \in Seq(Answers), Len(seen'.answers) = seen'.requests,
         world'.ceiling = world.ceiling, world'.swallowed = world.swallowed,
         world'.ie = world.ie, world'.selection = world.selection,
         seen'.selections = seen.selections,
         world'.emitted \in Nat, world'.emitted > 0 => world.selection # "NONE",
         world'.verdict => world.selection = "RETURNED" /\ world'.emitted = 0
  PROVE  StageInv' /\ NestInv' /\ TraceInv' /\ SelectInv'
<1>1. /\ TypeInv /\ StageInv /\ NestInv /\ TraceInv /\ SelectInv
      /\ script \in Scripts /\ script' = script
  BY DEF DocInv, ExtractionInv, TypeInv
<1>2. NestInv' /\ SelectInv'
  BY <1>1 DEF NestInv, SelectInv
<1>3. world.ie = "ENTERED"
  BY <1>1 DEF StageInv
<1>4. StageInv'
  BY <1>1, <1>3 DEF StageInv
<1>5. TraceInv'
  <2>1. script >= 4 => ~world.ceiling
    BY <1>1 DEF TraceInv
  <2> QED
    BY <1>1, <1>3, <2>1 DEF TraceInv
<1> QED
  BY <1>2, <1>4, <1>5

\* A request is kept with what became of it.
LEMMA RequestObserved ==
  ASSUME ExtractionInv, DocInv, Request, UNCHANGED <<script, clients>>
  PROVE  DocInv'
<1>1. /\ TypeInv /\ StageInv /\ NestInv /\ TraceInv /\ SelectInv /\ FormatsInv /\ ShapesInv
      /\ script \in Scripts /\ script' = script
      /\ DOMAIN seen = DOMAIN NothingSeen /\ DOMAIN world = DOMAIN NothingHappened
  BY DEF DocInv, ExtractionInv, TypeInv
<1>2. /\ point = "inside" /\ error = "NONE" /\ UNCHANGED <<point, stack, stage, completed>>
  BY DEF Request, Running
<1>3. \/ error' = "CONTRACT" /\ UNCHANGED <<seen, world>>
      \/ \E answer \in Answers :
            /\ seen' = [seen EXCEPT !.requests = @ + 1, !.answers = Append(@, answer)]
            /\ world' = [world EXCEPT !.sent = @ + 1]
            /\ error' \in {answer, "NONE"} /\ (error' = "NONE" \/ Failed(answer))
  BY DEF Request
<1>4. seen.requests \in Nat /\ seen.answers \in Seq(Answers) /\ Len(seen.answers) = seen.requests
  BY <1>1, BoundsAreNatural DEF ExtractionInv, CountInv, StageInv
<1>5. CASE error' = "CONTRACT" /\ UNCHANGED <<seen, world>>
  <2>1. StageInv' /\ NestInv' /\ TraceInv' /\ SelectInv'
    <3>1. /\ world.emitted \in Nat /\ (world.emitted > 0 => world.selection # "NONE")
          /\ world.verdict => world.selection = "RETURNED" /\ world.emitted = 0
      BY <1>1 DEF SelectInv
    <3>2. error' \in Errors
      BY <1>5 DEF Errors
    <3> QED
      BY <1>2, <1>4, <1>5, <3>1, <3>2, WithinObserved
  <2>2. FormatsInv' /\ ShapesInv'
    BY <1>1, <1>5 DEF FormatsInv, ShapesInv
  <2> QED
    BY <2>1, <2>2 DEF DocInv
<1>6. ASSUME NEW answer \in Answers,
             seen' = [seen EXCEPT !.requests = @ + 1, !.answers = Append(@, answer)],
             world' = [world EXCEPT !.sent = @ + 1],
             error' \in {answer, "NONE"}, error' = "NONE" \/ Failed(answer)
      PROVE  DocInv'
  <2>1. PICK answers, requests :
          /\ seen' = [seen EXCEPT !.requests = requests, !.answers = answers]
          /\ answers = Append(seen.answers, answer) /\ requests = seen.requests + 1
    BY <1>6
  <2>2. /\ seen'.requests = requests /\ seen'.answers = answers
        /\ Apart(seen, seen', {"requests", "answers"})
    BY <1>1, <2>1 DEF Apart, NothingSeen
  <2>3. answers \in Seq(Answers) /\ Len(answers) = requests
    BY <1>4, <2>1, AppendOne
  <2>4. /\ seen'.trace = seen.trace /\ seen'.selections = seen.selections
        /\ seen'.population = seen.population /\ seen'.observations = seen.observations
        /\ seen'.noFormats = seen.noFormats /\ seen'.drm = seen.drm
        /\ seen'.pre = seen.pre /\ seen'.post = seen.post /\ seen'.selected = seen.selected
        /\ seen'.yields = seen.yields
        /\ seen'.initial = seen.initial /\ seen'.api = seen.api /\ seen'.normalized = seen.normalized
        /\ seen'.chosen = seen.chosen /\ seen'.calls = seen.calls
    BY <1>1, <2>2 DEF Apart, NothingSeen
  <2>5. /\ world'.ceiling = world.ceiling /\ world'.swallowed = world.swallowed
        /\ world'.ie = world.ie /\ world'.selection = world.selection
        /\ world'.emitted = world.emitted /\ world'.verdict = world.verdict
        /\ world'.initial = world.initial /\ world'.api = world.api
    BY <1>1, <1>6 DEF NothingHappened
  <2>6. StageInv' /\ NestInv' /\ TraceInv' /\ SelectInv'
    <3>1. /\ world.emitted \in Nat /\ (world.emitted > 0 => world.selection # "NONE")
          /\ world.verdict => world.selection = "RETURNED" /\ world.emitted = 0
      BY <1>1 DEF SelectInv
    <3>2. error' \in Errors
      BY <1>6 DEF Errors, ExtractorErrors, Answers, Failed
    <3> QED
      BY <1>2, <2>2, <2>3, <2>4, <2>5, <3>1, <3>2, WithinObserved
  <2>7. FormatsInv' /\ ShapesInv'
    BY <1>1, <2>4, <2>5 DEF FormatsInv, ShapesInv
  <2> QED
    BY <2>6, <2>7 DEF DocInv
<1> QED
  BY <1>3, <1>5, <1>6

\* The innermost of the calls, by its place.
LEMMA TopNests ==
  ASSUME ExtractionInv, NestInv, stack # <<>>
  PROVE  /\ Top.name = "FORMAT_SELECTION" => Len(stack) = 2 /\ stack[1].next = 3
         /\ Top.name = "VIDEO_EXTRACT" => Len(stack) = 1 /\ Top = stack[1]
<1>1. stack \in Seq(Frame) /\ Top = Last(stack)
  BY DEF ExtractionInv, TypeInv, Top
<1>2. Len(stack) \in Nat \ {0} /\ DOMAIN stack = 1 .. Len(stack) /\ Top = stack[Len(stack)]
  BY <1>1, FrontOne
<1>3. (Top.name = "VIDEO_EXTRACT") <=> (Len(stack) = 1)
  BY <1>2 DEF ExtractionInv, StackInv
<1> QED
  BY <1>2, <1>3 DEF NestInv, Nested

\* A format that is emitted is counted, up to the bound of D6.
LEMMA EmitObserved ==
  ASSUME ExtractionInv, DocInv, Emit, UNCHANGED <<script, clients>>
  PROVE  DocInv'
<1>1. /\ TypeInv /\ StageInv /\ NestInv /\ TraceInv /\ SelectInv /\ FormatsInv /\ ShapesInv
      /\ script \in Scripts /\ script' = script
      /\ DOMAIN seen = DOMAIN NothingSeen /\ DOMAIN world = DOMAIN NothingHappened
  BY DEF DocInv, ExtractionInv, TypeInv
<1>2. /\ point = "inside" /\ error = "NONE" /\ stack # <<>> /\ Top.name = "FORMAT_SELECTION"
      /\ UNCHANGED <<point, stack, stage, completed>>
  BY DEF Emit, Running
<1>3. /\ world.selection = "ENTERED" /\ world.emitted \in Nat /\ ~world.verdict
      /\ seen.answers \in Seq(Answers) /\ Len(seen.answers) = seen.requests
  <2>1. ~world.verdict
    BY <1>2 DEF ExtractionInv, VerdictInv
  <2>2. Len(stack) = 2 /\ stack[1].next = 3
    BY <1>1, <1>2, TopNests
  <2> QED
    BY <1>1, <1>2, <2>1, <2>2 DEF SelectInv, StageInv
<1>4. CASE error' = "CONTRACT" /\ UNCHANGED <<seen, world>>
  <2>1. StageInv' /\ NestInv' /\ TraceInv' /\ SelectInv'
    <3>1. error' \in Errors
      BY <1>4 DEF Errors
    <3> QED
      BY <1>2, <1>3, <1>4, <3>1, WithinObserved
  <2>2. FormatsInv' /\ ShapesInv'
    BY <1>1, <1>4 DEF FormatsInv, ShapesInv
  <2> QED
    BY <2>1, <2>2 DEF DocInv
<1>5. CASE /\ script >= 6 => ~ seen.yields >= MAX_FORMAT_YIELDS
           /\ seen' = [seen EXCEPT !.yields = IF script >= 6 THEN @ + 1 ELSE @]
           /\ world' = [world EXCEPT !.emitted = @ + 1]
           /\ error' = error
  <2>1. PICK yields : /\ seen' = [seen EXCEPT !.yields = yields]
                      /\ yields = IF script >= 6 THEN seen.yields + 1 ELSE seen.yields
    BY <1>5
  <2>2. /\ seen'.yields = yields
        /\ seen'.trace = seen.trace /\ seen'.selections = seen.selections
        /\ seen'.answers = seen.answers /\ seen'.requests = seen.requests
        /\ seen'.population = seen.population /\ seen'.observations = seen.observations
        /\ seen'.noFormats = seen.noFormats /\ seen'.drm = seen.drm
        /\ seen'.pre = seen.pre /\ seen'.post = seen.post /\ seen'.selected = seen.selected
        /\ seen'.initial = seen.initial /\ seen'.api = seen.api /\ seen'.normalized = seen.normalized
        /\ seen'.chosen = seen.chosen /\ seen'.calls = seen.calls
    BY <1>1, <2>1 DEF NothingSeen
  <2>3. /\ world'.ceiling = world.ceiling /\ world'.swallowed = world.swallowed
        /\ world'.ie = world.ie /\ world'.selection = world.selection
        /\ world'.emitted = world.emitted + 1 /\ world'.verdict = world.verdict
        /\ world'.initial = world.initial /\ world'.api = world.api
    BY <1>1, <1>5 DEF NothingHappened
  <2>4. StageInv' /\ NestInv' /\ TraceInv' /\ SelectInv'
    <3>1. error' \in Errors /\ world'.emitted \in Nat
      BY <1>2, <1>3, <1>5, <2>3 DEF Errors
    <3> QED
      BY <1>2, <1>3, <2>2, <2>3, <3>1, WithinObserved
  <2>5. FormatsInv'
    BY <1>1, <1>3, <2>2, <2>3 DEF FormatsInv
  <2>6. ShapesInv'
    <3>1. script >= 6 => seen'.yields = world'.emitted /\ seen'.yields <= MAX_FORMAT_YIELDS
      BY <1>1, <1>3, <1>5, <2>1, <2>2, <2>3, BoundsAreNatural DEF ShapesInv
    <3> QED
      BY <1>1, <2>2, <2>3, <3>1 DEF ShapesInv
  <2> QED
    BY <2>4, <2>5, <2>6 DEF DocInv
<1> QED
  BY <1>4, <1>5 DEF Emit

\* A report of a skipped format is apart from all of it.
LEMMA SkipObserved ==
  ASSUME ExtractionInv, DocInv, ReportSkip, UNCHANGED <<script, clients>>
  PROVE  DocInv'
<1>1. /\ TypeInv /\ StageInv /\ NestInv /\ TraceInv /\ SelectInv /\ FormatsInv /\ ShapesInv
      /\ script \in Scripts /\ script' = script
      /\ DOMAIN seen = DOMAIN NothingSeen
  BY DEF DocInv, ExtractionInv, TypeInv
<1>2. /\ point = "inside" /\ error = "NONE" /\ error' \in Errors
      /\ UNCHANGED <<point, stack, stage, completed, world>>
  BY DEF ReportSkip, Running, Errors
<1>3. Apart(seen, seen', {"skips"})
  <2>1. UNCHANGED seen \/ \E skips : seen' = [seen EXCEPT !.skips = skips]
    BY DEF ReportSkip
  <2> QED
    BY <1>1, <2>1 DEF Apart, NothingSeen
<1>4. /\ seen'.trace = seen.trace /\ seen'.selections = seen.selections
      /\ seen'.answers = seen.answers /\ seen'.requests = seen.requests
      /\ seen'.population = seen.population /\ seen'.observations = seen.observations
      /\ seen'.noFormats = seen.noFormats /\ seen'.drm = seen.drm
      /\ seen'.pre = seen.pre /\ seen'.post = seen.post /\ seen'.selected = seen.selected
      /\ seen'.yields = seen.yields
      /\ seen'.initial = seen.initial /\ seen'.api = seen.api /\ seen'.normalized = seen.normalized
      /\ seen'.chosen = seen.chosen /\ seen'.calls = seen.calls
  BY <1>1, <1>3 DEF Apart, NothingSeen
<1>5. StageInv' /\ NestInv' /\ TraceInv' /\ SelectInv'
  <2>1. /\ world.emitted \in Nat /\ (world.emitted > 0 => world.selection # "NONE")
        /\ world.verdict => world.selection = "RETURNED" /\ world.emitted = 0
    BY <1>1 DEF SelectInv
  <2>2. seen'.answers \in Seq(Answers) /\ Len(seen'.answers) = seen'.requests
    BY <1>1, <1>4 DEF StageInv
  <2> QED
    BY <1>2, <1>4, <2>1, <2>2, WithinObserved
<1>6. FormatsInv'
  BY <1>1, <1>2, <1>4 DEF FormatsInv
<1>7. ShapesInv'
  BY <1>1, <1>2, <1>4 DEF ShapesInv
<1> QED
  BY <1>5, <1>6, <1>7 DEF DocInv

\* A phase that fails has nothing of its own to show for it yet.
LEMMA FailsObserved ==
  ASSUME ExtractionInv, DocInv, Fails, UNCHANGED <<script, clients>>
  PROVE  DocInv'
<1>1. /\ TypeInv /\ StageInv /\ NestInv /\ TraceInv /\ SelectInv /\ FormatsInv /\ ShapesInv
      /\ script \in Scripts /\ script' = script
  BY DEF DocInv, ExtractionInv, TypeInv
<1>2. /\ point = "inside" /\ error = "NONE" /\ error' = "EXTRACTOR"
      /\ UNCHANGED <<point, stack, stage, completed, seen, world>>
  BY DEF Fails
<1>3. StageInv' /\ NestInv' /\ TraceInv' /\ SelectInv'
  <2>1. /\ world.emitted \in Nat /\ (world.emitted > 0 => world.selection # "NONE")
        /\ world.verdict => world.selection = "RETURNED" /\ world.emitted = 0
    BY <1>1 DEF SelectInv
  <2>2. seen.answers \in Seq(Answers) /\ Len(seen.answers) = seen.requests /\ error' \in Errors
    BY <1>1, <1>2 DEF StageInv, Errors, ExtractorErrors
  <2> QED
    BY <1>2, <2>1, <2>2, WithinObserved
<1>4. FormatsInv' /\ ShapesInv'
  BY <1>1, <1>2 DEF FormatsInv, ShapesInv
<1> QED
  BY <1>3, <1>4 DEF DocInv

\* The verdict comes after a selection that returned and found nothing.
LEMMA NoFormatsObserved ==
  ASSUME ExtractionInv, DocInv, NoFormats, UNCHANGED <<script, clients>>
  PROVE  DocInv'
<1>1. /\ TypeInv /\ StageInv /\ NestInv /\ TraceInv /\ SelectInv /\ FormatsInv /\ ShapesInv
      /\ script \in Scripts /\ script' = script
      /\ DOMAIN seen = DOMAIN NothingSeen /\ DOMAIN world = DOMAIN NothingHappened
  BY DEF DocInv, ExtractionInv, TypeInv
<1>2. /\ point = "inside" /\ error = "NONE" /\ error' = "EXTRACTOR"
      /\ stack # <<>> /\ Top.name = "VIDEO_EXTRACT" /\ CalledAll /\ world.emitted = 0
      /\ UNCHANGED <<point, stack, stage, completed>>
      /\ world' = [world EXCEPT !.verdict = TRUE]
  BY DEF NoFormats, Running
<1>3. world.selection = "RETURNED"
  <2>1. Len(stack) = 1 /\ Top = stack[1]
    BY <1>1, <1>2, TopNests
  <2>2. Top.next > 2
    <3>1. Len(Calls(Top.name)) = 2
      BY <1>2 DEF Calls
    <3> QED
      BY <1>2, <3>1 DEF CalledAll
  <2>3. stack[1].next = 3
    BY <1>1, <1>2, <2>1, <2>2 DEF NestInv, Nested
  <2> QED
    BY <1>1, <1>2, <2>1, <2>3 DEF SelectInv
<1>4. PICK d \in {0, 1} :
        seen' = [seen EXCEPT !.noFormats = IF script >= 5 THEN @ + 1 ELSE @, !.drm = @ + d]
  BY DEF NoFormats
<1>5. PICK noFormats, drm :
        /\ seen' = [seen EXCEPT !.noFormats = noFormats, !.drm = drm]
        /\ noFormats = IF script >= 5 THEN seen.noFormats + 1 ELSE seen.noFormats
        /\ drm = seen.drm + d
  BY <1>4
<1>6. /\ seen'.noFormats = noFormats /\ seen'.drm = drm
      /\ seen'.trace = seen.trace /\ seen'.selections = seen.selections
      /\ seen'.answers = seen.answers /\ seen'.requests = seen.requests
      /\ seen'.population = seen.population /\ seen'.observations = seen.observations
      /\ seen'.pre = seen.pre /\ seen'.post = seen.post /\ seen'.selected = seen.selected
      /\ seen'.yields = seen.yields
      /\ seen'.initial = seen.initial /\ seen'.api = seen.api /\ seen'.normalized = seen.normalized
      /\ seen'.chosen = seen.chosen /\ seen'.calls = seen.calls
  BY <1>1, <1>5 DEF NothingSeen
<1>7. /\ world'.ceiling = world.ceiling /\ world'.swallowed = world.swallowed
      /\ world'.ie = world.ie /\ world'.selection = world.selection
      /\ world'.emitted = world.emitted
      /\ world'.initial = world.initial /\ world'.api = world.api
  BY <1>1, <1>2 DEF NothingHappened
<1>8. StageInv' /\ NestInv' /\ TraceInv' /\ SelectInv'
  <2>1. seen'.answers \in Seq(Answers) /\ Len(seen'.answers) = seen'.requests
    BY <1>1, <1>6 DEF StageInv
  <2>2. error' \in Errors /\ world'.emitted \in Nat
    BY <1>2, <1>7 DEF Errors, ExtractorErrors
  <2> QED
    BY <1>2, <1>3, <1>6, <1>7, <2>1, <2>2, WithinObserved
<1>9. FormatsInv'
  <2>1. script >= 5 => seen'.noFormats \in Nat /\ seen'.drm \in Nat /\ seen'.drm <= seen'.noFormats
    BY <1>1, <1>5, <1>6, <1>4 DEF FormatsInv
  <2> QED
    BY <1>1, <1>6, <1>7, <2>1 DEF FormatsInv
<1>10. ShapesInv'
  BY <1>1, <1>6, <1>7 DEF ShapesInv
<1> QED
  BY <1>8, <1>9, <1>10 DEF DocInv

\* Whatever an extraction does.
LEMMA ExtractionObserved ==
  ASSUME ExtractionInv, DocInv, ExtractionStep, UNCHANGED <<script, clients>>
  PROVE  DocInv'
<1>1. CASE Construct \/ FailsEarly \/ Process \/ Exit
  BY <1>1, BoundaryObserved
<1>2. CASE \E name \in Stages : Enter(name)
  BY <1>2, EnterObserved
<1>3. CASE Request
  BY <1>3, RequestObserved
<1>4. CASE Emit
  BY <1>4, EmitObserved
<1>5. CASE Fails
  BY <1>5, FailsObserved
<1>6. CASE NoFormats
  BY <1>6, NoFormatsObserved
<1>7. CASE Return
  BY <1>7, ReturnObserved
<1>8. CASE Unwind
  BY <1>8, UnwindObserved
<1>9. CASE ReportSkip
  BY <1>9, SkipObserved
<1> QED
  BY <1>1, <1>2, <1>3, <1>4, <1>5, <1>6, <1>7, <1>8, <1>9 DEF ExtractionStep

\* What leaves the copies and the reports alone, and starts nothing anew.
LEMMA ParsedStays ==
  ASSUME ParsedInv, script' = script, seen'.skips = seen.skips, seen'.pre = seen.pre,
         world'.api = world.api,
         point' \in {"none", "construct", "extract"} => point \in {"none", "construct", "extract"},
         point' = "inside" /\ error' # "CONTRACT" =>
            point = "extract" \/ (point = "inside" /\ error # "CONTRACT"),
         world'.verdict => world.verdict \/ (point = "inside" /\ error # "CONTRACT")
  PROVE  ParsedInv'
BY DEF ParsedInv, Parsed

\* An API response is copied as it is returned.
LEMMA ParsedReturn ==
  ASSUME ExtractionInv, DocInv, ParsedInv, Return, UNCHANGED <<script, clients>>
  PROVE  ParsedInv'
<1>1. /\ TypeInv /\ ShapesInv /\ script \in Scripts
      /\ DOMAIN seen = DOMAIN NothingSeen /\ DOMAIN world = DOMAIN NothingHappened
  BY DEF DocInv, ExtractionInv, TypeInv
<1>2. /\ point = "inside" /\ error = "NONE" /\ point' \in {"inside", "exit", "process"}
      /\ ~world.verdict
  BY DEF Return, ExtractionInv, VerdictInv
<1>3. CASE TraceFull
  <2>1. error' = "CONTRACT" /\ world' = Hits(world) /\ seen' = seen
    BY <1>3 DEF Return
  <2>2. world'.api = world.api /\ world'.verdict = world.verdict
    BY <1>1, <2>1 DEF Hits, NothingHappened
  <2> QED
    BY <1>2, <2>1, <2>2, ParsedStays
<1>4. CASE ~TraceFull
  <2>1. PICK name : name = Top.name
    OBVIOUS
  <2>2. CASE /\ Apart(world, world', {"api"})
             /\ Apart(seen, seen', {"trace", "pre", "api"})
             /\ \E shape \in Shapes :
                  /\ world'.api = Append(world.api, shape)
                  /\ \/ error' = "CONTRACT"
                     \/ script >= 6 => seen'.pre = Append(seen.pre, D6View(shape))
    <3>1. PICK shape \in Shapes :
            /\ world'.api = Append(world.api, shape)
            /\ \/ error' = "CONTRACT"
               \/ script >= 6 => seen'.pre = Append(seen.pre, D6View(shape))
      BY <2>2
    <3>2. seen'.skips = seen.skips /\ world'.verdict = world.verdict
      BY <1>1, <2>2 DEF Apart, NothingSeen, NothingHappened
    <3>3. script >= 6 => seen.pre = D6Views(world.api)
      BY <1>2 DEF ParsedInv, Parsed
    <3>4. D6Views(world'.api) = Append(D6Views(world.api), D6View(shape))
      BY <1>1, <3>1, ViewsAppend DEF ShapesInv
    <3>5. error' # "CONTRACT" => Parsed'
      BY <3>1, <3>3, <3>4 DEF Parsed
    <3> QED
      BY <1>2, <3>2, <3>5 DEF ParsedInv
  <2>3. CASE /\ seen'.skips = seen.skips /\ seen'.pre = seen.pre
             /\ world'.api = world.api /\ world'.verdict = world.verdict
    BY <1>2, <2>3, ParsedStays
  <2>4. \/ /\ Apart(world, world', {"api"})
           /\ Apart(seen, seen', {"trace", "pre", "api"})
           /\ \E shape \in Shapes :
                /\ world'.api = Append(world.api, shape)
                /\ \/ error' = "CONTRACT"
                   \/ script >= 6 => seen'.pre = Append(seen.pre, D6View(shape))
        \/ /\ Apart(world, world', {"selection", "ie"}) \/ world' = world
           /\ Apart(seen, seen', {"trace", "post", "normalized", "observations", "population"})
    <3>1. \/ /\ Apart(world, world', {"api"})
             /\ Apart(seen, seen', {"trace", "pre", "api"})
             /\ \E shape \in Shapes :
                  /\ world'.api = Append(world.api, shape)
                  /\ \/ error' = "CONTRACT"
                     \/ script >= 6 => seen'.pre = Append(seen.pre, D6View(shape))
          \/ world' = world /\ Apart(seen, seen', {"trace", "post", "normalized"})
          \/ /\ Apart(seen, seen', {"trace", "observations", "population"})
             /\ Apart(world, world', {"selection"})
          \/ Apart(seen, seen', {"trace"}) /\ Apart(world, world', {"ie"})
      BY <1>1, <1>4, <2>1, ReturnDoes
    <3> QED
      BY <3>1 DEF Apart
  <2>5. /\ Apart(world, world', {"selection", "ie"}) \/ world' = world
        /\ Apart(seen, seen', {"trace", "post", "normalized", "observations", "population"})
        => /\ seen'.skips = seen.skips /\ seen'.pre = seen.pre
           /\ world'.api = world.api /\ world'.verdict = world.verdict
    BY <1>1 DEF Apart, NothingSeen, NothingHappened
  <2> QED
    BY <2>2, <2>3, <2>4, <2>5
<1> QED
  BY <1>3, <1>4

\* No other step touches the copies, and none the reports but their own.
LEMMA ExtractionParsed ==
  ASSUME ExtractionInv, DocInv, ParsedInv, ExtractionStep, UNCHANGED <<script, clients>>
  PROVE  ParsedInv'
<1>1. /\ TypeInv /\ script \in Scripts
      /\ DOMAIN seen = DOMAIN NothingSeen /\ DOMAIN world = DOMAIN NothingHappened
  BY DEF ExtractionInv, TypeInv
<1>2. CASE Construct \/ FailsEarly \/ Process \/ Exit \/ Fails
  <2>1. /\ UNCHANGED <<seen, world>>
        /\ point' \in {"none", "construct", "extract"} => point = "construct"
        /\ point' = "inside" => point = "inside" /\ error = "NONE"
    BY <1>2 DEF Construct, FailsEarly, Process, Exit, Fails
  <2> QED
    BY <2>1, ParsedStays
<1>3. CASE \E name \in Stages : Enter(name)
  <2>1. PICK name \in Stages : Enter(name)
    BY <1>3
  <2>2. /\ point' = "inside"
        /\ Apart(seen, seen', {"trace", "selections", "selected", "calls", "chosen", "initial"})
        /\ Apart(world, world', {"ceiling", "selection", "ie", "initial"})
    BY <1>1, <2>1, EnterDoes
  <2>3. /\ seen'.skips = seen.skips /\ seen'.pre = seen.pre
        /\ world'.api = world.api /\ world'.verdict = world.verdict
    BY <1>1, <2>2 DEF Apart, NothingSeen, NothingHappened
  <2>4. point = "extract" \/ (point = "inside" /\ error = "NONE")
    BY <2>1 DEF Enter
  <2> QED
    BY <2>2, <2>3, <2>4, ParsedStays
<1>4. CASE Request \/ Emit \/ NoFormats
  <2>1. point = "inside" /\ error = "NONE" /\ point' = point
    BY <1>4 DEF Request, Emit, NoFormats, Running
  <2>2. seen'.skips = seen.skips /\ seen'.pre = seen.pre
    <3>1. \/ seen' = seen
          \/ \E requests, answers : seen' = [seen EXCEPT !.requests = requests, !.answers = answers]
          \/ \E yields : seen' = [seen EXCEPT !.yields = yields]
          \/ \E noFormats, drm : seen' = [seen EXCEPT !.noFormats = noFormats, !.drm = drm]
      <4>1. CASE Request
        BY <4>1 DEF Request
      <4>2. CASE Emit
        BY <4>2 DEF Emit
      <4>3. CASE NoFormats
        BY <4>3 DEF NoFormats
      <4> QED
        BY <1>4, <4>1, <4>2, <4>3
    <3> QED
      BY <1>1, <3>1 DEF NothingSeen
  <2>3. world'.api = world.api
    <3>1. \/ world' = world
          \/ \E sent : world' = [world EXCEPT !.sent = sent]
          \/ \E emitted : world' = [world EXCEPT !.emitted = emitted]
          \/ \E verdict : world' = [world EXCEPT !.verdict = verdict]
      BY <1>4 DEF Request, Emit, NoFormats
    <3> QED
      BY <1>1, <3>1 DEF NothingHappened
  <2> QED
    BY <2>1, <2>2, <2>3, ParsedStays
<1>5. CASE ReportSkip
  <2>1. point = "inside" /\ error = "NONE" /\ UNCHANGED <<point, world>>
    BY <1>5 DEF ReportSkip, Running
  <2>2. \/ seen' = seen
        \/ ~ seen.skips >= MAX_POT_REPORTS /\ seen' = [seen EXCEPT !.skips = @ + 1]
    BY <1>5 DEF ReportSkip
  <2>3. seen'.pre = seen.pre /\ seen'.skips \in 0 .. MAX_POT_REPORTS
    <3>1. seen.skips \in 0 .. MAX_POT_REPORTS
      BY DEF ParsedInv
    <3>2. CASE seen' = seen
      BY <3>1, <3>2
    <3>3. CASE ~ seen.skips >= MAX_POT_REPORTS /\ seen' = [seen EXCEPT !.skips = @ + 1]
      <4>1. seen'.skips = seen.skips + 1 /\ seen'.pre = seen.pre
        BY <1>1, <3>3 DEF NothingSeen
      <4> QED
        BY <3>1, <3>3, <4>1, BoundsAreNatural
    <3> QED
      BY <2>2, <3>2, <3>3
  <2>4. Parsed'
    BY <2>1, <2>3 DEF ParsedInv, Parsed
  <2> QED
    BY <2>3, <2>4 DEF ParsedInv
<1>6. CASE Return
  BY <1>6, ParsedReturn
<1>7. CASE Unwind
  <2>1. /\ point = "inside" /\ point' \in {"inside", "exit"}
        /\ error' # "CONTRACT" => error # "CONTRACT"
    BY <1>7 DEF Unwind, ExtractorErrors
  <2>2. seen'.skips = seen.skips /\ seen'.pre = seen.pre
    <3>1. PICK name : seen' = seen \/ seen' = Traced(seen, name, "RAISE")
      BY <1>7 DEF Unwind
    <3>2. CASE seen' = seen
      BY <3>2
    <3>3. CASE seen' = Traced(seen, name, "RAISE")
      <4>1. Apart(seen, seen', {"trace"})
        <5>1. PICK t : t = Traced(seen, name, "RAISE")
          OBVIOUS
        <5>2. Apart(seen, t, {"trace"})
          BY <1>1, <5>1, TracedDoes
        <5> QED
          BY <3>3, <5>1, <5>2
      <4> QED
        BY <1>1, <4>1 DEF Apart, NothingSeen
    <3> QED
      BY <3>1, <3>2, <3>3
  <2>3. world'.api = world.api /\ world'.verdict = world.verdict
    <3>1. \/ world' = Hits(world)
          \/ \E swallowed, selection :
                world' = [world EXCEPT !.swallowed = swallowed, !.selection = selection]
      BY <1>7 DEF Unwind
    <3> QED
      BY <1>1, <3>1 DEF Hits, NothingHappened
  <2> QED
    BY <2>1, <2>2, <2>3, ParsedStays
<1> QED
  BY <1>2, <1>3, <1>4, <1>5, <1>6, <1>7 DEF ExtractionStep

\* No responses are seen as none.
LEMMA NoViews ==
  D6Views(<<>>) = <<>>
BY DEF D6Views

\* An extraction that has not begun.
Untouched ==
    /\ point \in {"none", "construct"} /\ stack = <<>> /\ error = "NONE"
    /\ stage = "INITIALIZATION_FAILED" /\ completed = FALSE
    /\ seen = NothingSeen /\ world = NothingHappened

\* Nothing is observed of it.
LEMMA NothingObserved ==
  Untouched => ObservedInv
<1> SUFFICES ASSUME point \in {"none", "construct"}, stack = <<>>, error = "NONE",
                    stage = "INITIALIZATION_FAILED", completed = FALSE,
                    seen = NothingSeen, world = NothingHappened
             PROVE  ObservedInv
  BY DEF Untouched
<1>1. /\ seen.answers = <<>> /\ seen.requests = 0 /\ seen.trace = <<>>
      /\ seen.population = "UNKNOWN" /\ seen.observations = 0 /\ seen.noFormats = 0 /\ seen.drm = 0
      /\ seen.pre = <<>> /\ seen.post = <<>> /\ seen.selected = <<>> /\ seen.selections = 0
      /\ seen.yields = 0 /\ seen.initial = <<>> /\ seen.api = <<>> /\ seen.normalized = <<>>
      /\ seen.chosen = <<>> /\ seen.calls = 0 /\ seen.skips = 0
  BY DEF NothingSeen
<1>2. /\ world.ceiling = FALSE /\ world.swallowed = FALSE /\ world.emitted = 0 /\ world.verdict = FALSE
      /\ world.initial = <<>> /\ world.api = <<>> /\ world.selection = "NONE" /\ world.ie = "NONE"
  BY DEF NothingHappened
<1>3. StageInv
  <2>1. <<>> \in Seq(Answers) /\ Len(<<>>) = 0
    OBVIOUS
  <2>2. stage \in ExtractorStages /\ error \in Errors
    BY DEF ExtractorStages, Errors
  <2> QED
    BY <1>1, <1>2, <2>1, <2>2 DEF StageInv
<1>4. NestInv
  BY DEF NestInv, Nested
<1>5. TraceInv
  <2>1. UnwindsTo(<<>>, Names(stack))
    <3>1. Names(stack) = <<>>
      BY DEF Names
    <3> QED
      BY <3>1, NothingEntered
  <2>2. ~RaiseIn(<<>>) /\ Selections(<<>>) = {}
    BY DEF RaiseIn, Selections
  <2>3. Len(seen.trace) <= MAX_STAGE_EVENTS
    BY <1>1, BoundsAreNatural
  <2> QED
    BY <1>1, <1>2, <2>1, <2>2, <2>3 DEF TraceInv
<1>6. SelectInv /\ FormatsInv
  BY <1>1, <1>2 DEF SelectInv, FormatsInv
<1>7. ShapesInv
  <2>1. <<>> \in Seq(Shapes) /\ Len(<<>>) = 0
    OBVIOUS
  <2> QED
    BY <1>1, <1>2, <2>1, NoViews, BoundsAreNatural DEF ShapesInv
<1>8. ParsedInv
  BY <1>1, <1>2, NoViews, BoundsAreNatural DEF ParsedInv, Parsed
<1> QED
  BY <1>3, <1>4, <1>5, <1>6, <1>7, <1>8 DEF DocInv, ObservedInv

\* Nor has one whose run has stopped, or gone on to its next cell.
LEMMA FreshObserved ==
  ASSUME NEW where \in {"none", "construct"}, FreshExtraction(where)
  PROVE  ObservedInv'
<1>1. /\ point' \in {"none", "construct"} /\ stack' = <<>> /\ error' = "NONE"
      /\ stage' = "INITIALIZATION_FAILED" /\ completed' = FALSE
      /\ seen' = NothingSeen /\ world' = NothingHappened
  BY DEF FreshExtraction, Fresh
<1>2. Untouched'
  BY <1>1 DEF Untouched, NothingSeen, NothingHappened
<1> QED
  BY <1>2, NothingObserved, PTL

\* A run that leaves the extraction alone leaves what it observed alone.
LEMMA ObservedStays ==
  ASSUME ObservedInv, UNCHANGED <<script, extraction>>
  PROVE  ObservedInv'
<1>1. UNCHANGED <<script, point, stack, error, stage, completed, seen, world>>
  BY DEF extraction
<1>2. StageInv' /\ NestInv' /\ SelectInv'
  BY <1>1 DEF ObservedInv, DocInv, StageInv, NestInv, SelectInv
<1>3. TraceInv'
  BY <1>1 DEF ObservedInv, DocInv, TraceInv, TraceFull
<1>4. FormatsInv' /\ ShapesInv'
  BY <1>1 DEF ObservedInv, DocInv, FormatsInv, ShapesInv
<1>5. ParsedInv'
  BY <1>1 DEF ObservedInv, ParsedInv, Parsed
<1> QED
  BY <1>2, <1>3, <1>4, <1>5 DEF ObservedInv, DocInv

\* No step of a run leaves it.
LEMMA DocNext ==
  ASSUME Inv, ObservedInv, [Next]_vars
  PROVE  ObservedInv'
<1>1. ExtractionInv
  BY DEF Inv
<1>2. CASE UNCHANGED vars
  <2>1. UNCHANGED <<script, extraction>>
    BY <1>2 DEF vars, run
  <2> QED
    BY <2>1, ObservedStays
<1>3. ASSUME NEW how, Stops(how)
      PROVE  ObservedInv'
  BY <1>3, FreshObserved DEF Stops
<1>4. CASE Start \/ Observe \/ WriteCells \/ WriteSummary \/ WriteManifest
  <2>1. UNCHANGED <<script, extraction>>
    BY <1>4 DEF Start, Observe, WriteCells, WriteSummary, WriteManifest, run
  <2> QED
    BY <2>1, ObservedStays
<1>5. CASE Check
  <2>1. UNCHANGED <<run, extraction>> \/ Stops("failed")
    BY <1>5 DEF Check
  <2> QED
    BY <1>3, <2>1, ObservedStays DEF run
<1>6. CASE ChildCheck
  <2>1. UNCHANGED <<run, extraction>> \/ Stops("failed")
    BY <1>6 DEF ChildCheck
  <2> QED
    BY <1>3, <2>1, ObservedStays DEF run
<1>7. CASE Extract
  <2>1. UNCHANGED <<script, clients>>
    BY <1>7 DEF Extract, run
  <2>2. FreshExtraction("construct") \/ ExtractionStep \/ UNCHANGED extraction
    BY <1>7 DEF Extract
  <2>3. CASE FreshExtraction("construct")
    BY <2>3, FreshObserved
  <2>4. CASE ExtractionStep
    BY <1>1, <2>1, <2>4, ExtractionObserved, ExtractionParsed DEF ObservedInv
  <2>5. CASE UNCHANGED extraction
    BY <2>1, <2>5, ObservedStays
  <2> QED
    BY <2>2, <2>3, <2>4, <2>5
<1>8. CASE Validate
  <2>1. Stops("failed") \/ FreshExtraction("none") \/ UNCHANGED <<run, extraction>>
    BY <1>8 DEF Validate
  <2>2. CASE FreshExtraction("none")
    BY <2>2, FreshObserved
  <2> QED
    BY <1>3, <2>1, <2>2, ObservedStays DEF run
<1>9. CASE ChildWrite
  <2>1. FreshExtraction("none") \/ UNCHANGED <<run, extraction>>
    BY <1>9 DEF ChildWrite
  <2>2. CASE FreshExtraction("none")
    BY <2>2, FreshObserved
  <2> QED
    BY <2>1, <2>2, ObservedStays DEF run
<1>10. CASE Timeout \/ CheckPrivacy \/ Kill
  BY <1>3, <1>10 DEF Timeout, CheckPrivacy, Kill
<1>11. CASE Done
  BY <1>2, <1>11 DEF Done
<1> QED
  BY <1>2, <1>4, <1>5, <1>6, <1>7, <1>8, <1>9, <1>10, <1>11 DEF Next

\* What every run has observed of the extraction it is at.
LEMMA DocAlways ==
  Spec => [](ExtractionInv /\ ObservedInv)
<1>1. Init => ObservedInv
  <2> SUFFICES ASSUME Init
               PROVE  ObservedInv
    OBVIOUS
  <2>1. Untouched
    BY DEF Init, Fresh, Untouched
  <2> QED
    BY <2>1, NothingObserved
<1>2. Inv /\ ObservedInv /\ [Next]_vars => ObservedInv'
  BY DocNext
<1>3. Inv => ExtractionInv
  BY DEF Inv
<1> QED
  BY <1>1, <1>2, <1>3, InvAlways, PTL DEF Spec

-------------------------------------------------------------------------------
(* What the documents are accepted for *)

\* An exception of the extraction has a class in the document, and none has none.
LEMMA ErrorsTell ==
  ASSUME error \in Errors
  PROVE  /\ (ErrorType(error) = "NONE") <=> (error = "NONE")
         /\ error = "NONE" => NestedCause(error) = "NONE"
         /\ completed => Terminal(completed, error) = "NONE"
         /\ ~completed => Terminal(completed, error) # "NONE"
         /\ ~completed /\ error = "NONE" => Terminal(completed, error) = "UNCLASSIFIED"
BY DEF Errors, ExtractorErrors, ErrorType, NestedCause, Terminal, ClassifyException

\* The counts of a document agree, whatever the extraction did.
LEMMA CountsHold ==
  ASSUME ExtractionInv, DocInv, NEW d, d = Document
  PROVE  /\ d.requests <= MAX_METADATA_REQUESTS /\ Len(d.answers) = d.requests
         /\ DOMAIN d.failures \subseteq 1 .. d.requests
         /\ \A i \in DOMAIN d.answers :
              /\ Failed(d.answers[i]) <=> (i \in DOMAIN d.failures)
              /\ i \in DOMAIN d.failures => d.failures[i] = NetworkCategory(d.answers[i])
<1>1. /\ seen.answers \in Seq(Answers) /\ Len(seen.answers) = seen.requests
      /\ seen.requests <= MAX_METADATA_REQUESTS
  BY BoundsAreNatural DEF DocInv, StageInv, ExtractionInv, CountInv
<1>2. PICK answers : answers = seen.answers
  OBVIOUS
<1>3. PICK failures : failures = [i \in {j \in DOMAIN answers : Failed(answers[j])} |-> NetworkCategory(answers[i])]
  OBVIOUS
<1>4. d.requests = seen.requests /\ d.answers = answers /\ d.failures = failures
  BY <1>2, <1>3 DEF Document
<1>5. DOMAIN answers = 1 .. Len(answers)
  BY <1>1, <1>2
<1>6. /\ DOMAIN failures \subseteq DOMAIN answers
      /\ \A i \in DOMAIN answers :
           /\ Failed(answers[i]) <=> (i \in DOMAIN failures)
           /\ i \in DOMAIN failures => failures[i] = NetworkCategory(answers[i])
  BY <1>3
<1> QED
  BY <1>1, <1>2, <1>4, <1>5, <1>6

\* What a document tells of the end of the extraction.
LEMMA StagesTell ==
  ASSUME DocInv, NEW d, d = Document
  PROVE  /\ d.completed = completed /\ d.stage = stage /\ completed \in BOOLEAN /\ stage \in ExtractorStages
         /\ completed <=> stage = "MAPPING_RETURNED"
         /\ (d.errorType = "NONE") <=> (error = "NONE")
         /\ error = "NONE" => d.nested = "NONE"
         /\ (d.terminal = "NONE") <=> completed
         /\ ~completed /\ error = "NONE" => d.terminal = "UNCLASSIFIED"
         /\ point = "finished" /\ error = "NONE" => stage \in {"MAPPING_RETURNED", "NON_MAPPING_RETURNED"}
         /\ d.trace = seen.trace
<1>1. /\ stage \in ExtractorStages /\ error \in Errors /\ completed \in BOOLEAN
      /\ completed <=> stage = "MAPPING_RETURNED"
      /\ point = "finished" /\ error = "NONE" => stage \in {"MAPPING_RETURNED", "NON_MAPPING_RETURNED"}
  BY DEF DocInv, StageInv
<1>2. /\ d.completed = completed /\ d.stage = stage
      /\ d.errorType = ErrorType(error) /\ d.nested = NestedCause(error)
      /\ d.terminal = Terminal(completed, error) /\ d.trace = seen.trace
  BY DEF Document
<1> QED
  BY <1>1, <1>2, ErrorsTell

\* D0 to D3 refuse a result that something else ended in an exception, and nothing more.
LEMMA StagesHold ==
  ASSUME ExtractionInv, DocInv, point = "finished", NEW d, d = Document
  PROVE  /\ ValidD0(d)
         /\ ValidD1(d) <=> error = "NONE" \/ stage \notin {"MAPPING_RETURNED", "NON_MAPPING_RETURNED"}
         /\ ValidD2(d) <=> error = "NONE" \/ stage \notin {"MAPPING_RETURNED", "NON_MAPPING_RETURNED"}
         /\ ValidD3(d) <=> error = "NONE" \/ stage \notin {"MAPPING_RETURNED", "NON_MAPPING_RETURNED"}
<1>1. /\ d.requests <= MAX_METADATA_REQUESTS /\ Len(d.answers) = d.requests
      /\ DOMAIN d.failures \subseteq 1 .. d.requests
      /\ \A i \in DOMAIN d.answers :
           /\ Failed(d.answers[i]) <=> (i \in DOMAIN d.failures)
           /\ i \in DOMAIN d.failures => d.failures[i] = NetworkCategory(d.answers[i])
  BY CountsHold
<1>2. /\ d.completed = completed /\ d.stage = stage /\ completed \in BOOLEAN /\ stage \in ExtractorStages
      /\ completed <=> stage = "MAPPING_RETURNED"
      /\ (d.errorType = "NONE") <=> (error = "NONE")
      /\ error = "NONE" => d.nested = "NONE"
      /\ (d.terminal = "NONE") <=> completed
      /\ ~completed /\ error = "NONE" => d.terminal = "UNCLASSIFIED"
      /\ error = "NONE" => stage \in {"MAPPING_RETURNED", "NON_MAPPING_RETURNED"}
  BY StagesTell
<1>3. ValidD0(d)
  BY <1>1, <1>2 DEF ValidD0
<1>4. \A i \in DOMAIN d.answers : Failed(d.answers[i]) = (i \in DOMAIN d.failures)
  BY <1>1 DEF Failed
<1>5. ValidD1(d) <=> error = "NONE" \/ stage \notin {"MAPPING_RETURNED", "NON_MAPPING_RETURNED"}
  <2>1. ValidD1(d) <=> /\ d.completed = (d.stage = "MAPPING_RETURNED")
                       /\ (d.errorType = "NONE") = (d.stage \in {"MAPPING_RETURNED", "NON_MAPPING_RETURNED"})
                       /\ d.stage = "NON_MAPPING_RETURNED" => d.terminal = "UNCLASSIFIED"
    BY <1>1, <1>2, <1>3, <1>4 DEF ValidD1
  <2> QED
    BY <1>2, <2>1
<1>6. ValidD2(d) <=> ValidD1(d)
  BY <1>2 DEF ValidD2
<1>7. ValidD3(d) <=> error = "NONE" \/ stage \notin {"MAPPING_RETURNED", "NON_MAPPING_RETURNED"}
  <2>1. ValidD3(d) <=>
          /\ d.completed = (d.stage = "MAPPING_RETURNED")
          /\ d.stage = "MAPPING_RETURNED" => d.errorType = "NONE" /\ d.nested = "NONE" /\ d.terminal = "NONE"
          /\ d.stage = "NON_MAPPING_RETURNED" =>
               d.errorType = "NONE" /\ d.nested = "NONE" /\ d.terminal = "UNCLASSIFIED"
          /\ d.stage \in {"EXTRACT_INFO_RAISED", "INITIALIZATION_FAILED"} => d.errorType # "NONE"
    BY <1>1, <1>2, <1>4 DEF ValidD3
  <2> QED
    BY <1>2, <2>1 DEF ExtractorStages
<1> QED
  BY <1>3, <1>5, <1>6, <1>7

\* D4 refuses what happened at its ceiling, an exception that left YoutubeIE's caller
\* and a client's failure that was made good.
LEMMA TraceHolds ==
  ASSUME ExtractionInv, DocInv, point = "finished", script >= 4
  PROVE  TraceOk(seen.trace, completed, stage) <=>
            /\ ~world.ceiling
            /\ ~(stage = "EXTRACT_INFO_RAISED" /\ world.ie # "ENTERED")
            /\ ~(completed /\ world.swallowed)
<1>1. PICK trace : trace = seen.trace
  OBVIOUS
<1>2. /\ trace \in Seq(Event) /\ Len(trace) <= MAX_STAGE_EVENTS /\ stack = <<>>
      /\ StageInv /\ TraceInv
  <2>1. stack = <<>>
    BY DEF DocInv, NestInv
  <2> QED
    BY <1>1, <2>1 DEF DocInv, TraceInv, ExtractionInv, TypeInv
<1>3. (Unwound(trace) = <<>>) <=> ~world.ceiling
  <2>1. CASE world.ceiling
    <3>1. PICK names : names # <<>> /\ UnwindsTo(trace, names)
      BY <1>1, <1>2, <2>1 DEF TraceInv
    <3> QED
      BY <2>1, <3>1, UnwoundIs
  <2>2. CASE ~world.ceiling
    <3>1. Names(stack) = <<>>
      BY <1>2 DEF Names
    <3>2. UnwindsTo(trace, <<>>)
      BY <1>1, <1>2, <2>2, <3>1 DEF TraceInv
    <3> QED
      BY <2>2, <3>2, UnwoundIs
  <2> QED
    BY <2>1, <2>2
<1>4. (\A i \in DOMAIN trace : trace[i][2] # "RAISE") <=> ~RaiseIn(trace)
  BY DEF RaiseIn, Raises
<1>5. completed /\ ~world.ceiling => (RaiseIn(trace) <=> world.swallowed)
  BY <1>1, <1>2 DEF TraceInv
<1>6. /\ world.ie # "NONE" => trace # <<>> /\ trace[1] = Began
      /\ world.ie = "RETURNED" => Last(trace) = Returned
      /\ world.ie = "ENTERED" /\ ~world.ceiling => Last(trace) = Raised
      /\ world.ie = "NONE" => trace = <<>>
      /\ world.ie \in {"NONE", "ENTERED", "RETURNED"}
      /\ stage \in {"MAPPING_RETURNED", "NON_MAPPING_RETURNED"} => world.ie = "RETURNED"
      /\ stage = "INITIALIZATION_FAILED" => world.ie = "NONE"
      /\ stage \in ExtractorStages
  <2>1. /\ world.ie # "NONE" => trace # <<>> /\ trace[1] = Began
        /\ world.ie = "RETURNED" => Last(trace) = Returned
        /\ world.ie = "ENTERED" /\ ~world.ceiling => Last(trace) = Raised
    BY <1>1, <1>2 DEF TraceInv
  <2>2. world.ie = "NONE" => trace = <<>>
    BY <1>1, <1>2 DEF StageInv, NothingSeen
  <2> QED
    BY <1>2, <2>1, <2>2 DEF StageInv
<1>7. Returned # Raised
  BY DEF Returned, Raised
<1>8. TraceOk(trace, completed, stage) <=>
        /\ Unwound(trace) = <<>>
        /\ stage # "INITIALIZATION_FAILED" =>
             /\ trace # <<>> /\ trace[1] = Began
             /\ Last(trace) = IF stage = "EXTRACT_INFO_RAISED" THEN Raised ELSE Returned
        /\ completed => ~RaiseIn(trace)
  <2>1. Head(trace) = trace[1]
    BY <1>2 DEF Head
  <2>2. <<"VIDEO_EXTRACT", IF stage = "EXTRACT_INFO_RAISED" THEN "RAISE" ELSE "RETURN">>
          = IF stage = "EXTRACT_INFO_RAISED" THEN Raised ELSE Returned
    BY DEF Raised, Returned
  <2> QED
    BY <1>2, <1>4, <2>1, <2>2 DEF TraceOk, Began
<1> QED
  BY <1>1, <1>3, <1>5, <1>6, <1>7, <1>8 DEF ExtractorStages

\* What D5 observed of the formats is what D4 traced of their selection.
LEMMA FormatsHold ==
  ASSUME ExtractionInv, DocInv, script >= 5, NEW d, d = Document
  PROVE  ValidD5(d) <=> ValidD4(d)
<1>1. /\ d.trace = seen.trace /\ d.observations = seen.observations /\ d.population = seen.population
      /\ d.noFormats = seen.noFormats /\ d.drm = seen.drm
  BY DEF Document
<1>2. /\ seen.observations = IF world.selection = "RETURNED" THEN 1 ELSE 0
      /\ seen.population = IF world.selection # "RETURNED" THEN "UNKNOWN"
                           ELSE IF world.emitted = 0 THEN "EMPTY" ELSE "NONEMPTY"
      /\ seen.noFormats \in Nat /\ seen.drm \in Nat /\ seen.drm <= seen.noFormats
      /\ IF world.selection = "RETURNED" THEN SelectedOnce(seen.trace) ELSE Selections(seen.trace) = {}
      /\ world.verdict => world.selection = "RETURNED" /\ world.emitted = 0
      /\ script \in Scripts
  BY DEF DocInv, FormatsInv, TraceInv, SelectInv, ExtractionInv, TypeInv, Scripts
<1>3. Cardinality(Selections(seen.trace)) = IF world.selection = "RETURNED" THEN 1 ELSE 0
  <2>1. CASE world.selection = "RETURNED"
    <3>1. PICK i : Selections(seen.trace) = {i}
      BY <1>2, <2>1 DEF SelectedOnce
    <3> QED
      BY <2>1, <3>1, FS_Singleton
  <2>2. CASE world.selection # "RETURNED"
    BY <1>2, <2>2, FS_EmptySet
  <2> QED
    BY <2>1, <2>2
<1>4. d.observations = Cardinality({i \in DOMAIN d.trace : d.trace[i] = <<"FORMAT_SELECTION", "RETURN">>})
  BY <1>1, <1>2, <1>3 DEF Selections, Selected
<1>5. d.observations # 1 => d.population = "UNKNOWN"
  BY <1>1, <1>2
<1>6. d.drm <= d.noFormats
  BY <1>1, <1>2
<1>7. d.drm > 0 => d.population = "EMPTY"
  <2>1. seen.drm > 0 => seen.noFormats # 0
    BY <1>2
  <2>2. seen.noFormats # 0 => world.verdict
    BY DEF ExtractionInv, VerdictInv
  <2> QED
    BY <1>1, <1>2, <2>1, <2>2
<1> QED
  BY <1>4, <1>5, <1>6, <1>7 DEF ValidD5

\* D6 refuses a selection of formats that did not return.
LEMMA SamplesHold ==
  ASSUME ExtractionInv, ObservedInv, script >= 6, ~world.ceiling, NEW d, d = Document
  PROVE  ValidD6(d) <=> ValidD5(d) /\ world.selection \notin {"ENTERED", "RAISED"}
<1>1. /\ d.pre = seen.pre /\ d.post = seen.post /\ d.selected = seen.selected
      /\ d.selections = seen.selections /\ d.observations = seen.observations
      /\ d.yields = seen.yields /\ d.skips = seen.skips /\ d.population = seen.population
  BY DEF Document
<1>2. /\ seen.yields = world.emitted /\ seen.yields <= MAX_FORMAT_YIELDS
      /\ seen.selections \in {0, 1}
      /\ (seen.selections = 1) <=> (world.selection # "NONE")
      /\ seen.selected = IF seen.selections = 1 THEN seen.post ELSE <<>>
      /\ Len(seen.pre) <= MAX_RESPONSES /\ Len(seen.post) <= MAX_RESPONSES
  BY DEF ObservedInv, DocInv, ShapesInv
<1>3. /\ seen.observations = IF world.selection = "RETURNED" THEN 1 ELSE 0
      /\ seen.population = IF world.selection # "RETURNED" THEN "UNKNOWN"
                           ELSE IF world.emitted = 0 THEN "EMPTY" ELSE "NONEMPTY"
      /\ script \in Scripts
  BY DEF ObservedInv, DocInv, FormatsInv, ExtractionInv, TypeInv, Scripts
<1>4. /\ world.selection \in {"NONE", "ENTERED", "RETURNED", "RAISED"}
      /\ world.emitted \in Nat /\ (world.emitted > 0 => world.selection # "NONE")
  BY DEF ObservedInv, DocInv, SelectInv
<1>5. \A samples \in {d.pre, d.post, d.selected} : Len(samples) <= MAX_RESPONSES
  <2>1. Len(<<>>) <= MAX_RESPONSES
    BY BoundsAreNatural
  <2>2. Len(d.selected) <= MAX_RESPONSES
    <3>1. CASE seen.selections = 1
      BY <1>1, <1>2, <3>1
    <3>2. CASE seen.selections # 1
      BY <1>1, <1>2, <2>1, <3>2
    <3> QED
      BY <3>1, <3>2
  <2> QED
    BY <1>1, <1>2, <2>2
<1>6. /\ d.selections \in {0, 1} /\ d.yields <= MAX_FORMAT_YIELDS
      /\ d.selections # 0 => Len(d.selected) = Len(d.post)
      /\ d.population = "EMPTY" => d.yields = 0
      /\ d.selections = 0 => d.yields = 0 /\ d.selected = <<>>
  BY <1>1, <1>2, <1>3, <1>4
<1>7. (d.selections = d.observations) <=> (world.selection \notin {"ENTERED", "RAISED"})
  BY <1>1, <1>2, <1>3, <1>4
<1>8. d.skips <= MAX_POT_REPORTS
  BY <1>1, BoundsAreNatural DEF ObservedInv, ParsedInv
<1> QED
  BY <1>5, <1>6, <1>7, <1>8 DEF ValidD6

\* D7 saw the same responses as D6.
LEMMA CopiesHold ==
  ASSUME DocInv, script = 7, NEW d, d = Document
  PROVE  ValidD7(d) <=> ValidD6(d)
<1>1. /\ d.pre = seen.pre /\ d.post = seen.post /\ d.selected = seen.selected
      /\ d.selections = seen.selections /\ d.calls = seen.calls /\ d.initial = seen.initial
      /\ d.api = seen.api /\ d.normalized = seen.normalized /\ d.chosen = seen.chosen
  BY DEF Document
<1>2. /\ seen.calls = seen.selections /\ Len(seen.initial) <= 1
      /\ seen.pre = D6Views(seen.api) /\ seen.post = D6Views(seen.normalized)
      /\ seen.chosen = IF seen.selections = 1 THEN seen.normalized ELSE <<>>
      /\ seen.selected = IF seen.selections = 1 THEN seen.post ELSE <<>>
  BY DEF DocInv, ShapesInv
<1>3. D6Views(seen.chosen) = seen.selected
  BY <1>2, NoViews
<1> QED
  BY <1>1, <1>2, <1>3 DEF ValidD7

\* Every layer of every script together.
LEMMA DocumentsHold ==
  ASSUME ExtractionInv, ObservedInv, point = "finished"
  PROVE  Accepted <=> ~Rejected
<1> DEFINE failedResult == stage \in {"MAPPING_RETURNED", "NON_MAPPING_RETURNED"} /\ error # "NONE"
           badTrace == \/ world.ceiling
                       \/ stage = "EXTRACT_INFO_RAISED" /\ world.ie # "ENTERED"
                       \/ completed /\ world.swallowed
           badSelection == world.selection \in {"ENTERED", "RAISED"}
<1>0. DocInv
  BY DEF ObservedInv
<1>1. PICK d : d = Document
  OBVIOUS
<1>2. /\ ValidD0(d) /\ (ValidD1(d) <=> ~failedResult) /\ (ValidD2(d) <=> ~failedResult)
      /\ (ValidD3(d) <=> ~failedResult)
  BY <1>0, <1>1, StagesHold
<1>3. script >= 4 => (ValidD4(d) <=> ~failedResult /\ ~badTrace)
  <2>1. d.trace = seen.trace /\ d.completed = completed /\ d.stage = stage
    BY <1>1 DEF Document
  <2> QED
    BY <1>0, <1>2, <2>1, TraceHolds DEF ValidD4
<1>4. script >= 5 => (ValidD5(d) <=> ValidD4(d))
  BY <1>0, <1>1, FormatsHold
<1>5. script >= 6 /\ ~world.ceiling => (ValidD6(d) <=> ValidD5(d) /\ ~badSelection)
  BY <1>1, SamplesHold
<1>6. script >= 6 /\ world.ceiling => ~ValidD6(d)
  BY <1>3, <1>4 DEF ValidD6, ExtractionInv, TypeInv, Scripts
<1>7. script = 7 => (ValidD7(d) <=> ValidD6(d))
  BY <1>0, <1>1, CopiesHold
<1>8. script \in Scripts /\ (completed <=> stage = "MAPPING_RETURNED")
  BY <1>0 DEF ExtractionInv, TypeInv, DocInv, StageInv
<1>9. Rejected <=> \/ completed /\ error # "NONE"
                   \/ script >= 1 /\ stage = "NON_MAPPING_RETURNED" /\ error # "NONE"
                   \/ script >= 4 /\ badTrace
                   \/ script >= 6 /\ badSelection
  BY DEF Rejected
<1>10. Accepted <=> (script <= 2 => FinishOk(completed, error)) /\ Valid(script, d)
  BY <1>1 DEF Accepted
<1>11. FinishOk(completed, error) <=> ~(completed /\ error # "NONE")
  BY DEF FinishOk
<1>12. /\ script = 0 => (Valid(script, d) <=> ValidD0(d))
       /\ script = 1 => (Valid(script, d) <=> ValidD1(d))
       /\ script = 2 => (Valid(script, d) <=> ValidD2(d))
       /\ script = 3 => (Valid(script, d) <=> ValidD3(d))
       /\ script = 4 => (Valid(script, d) <=> ValidD4(d))
       /\ script = 5 => (Valid(script, d) <=> ValidD5(d))
       /\ script = 6 => (Valid(script, d) <=> ValidD6(d))
       /\ script = 7 => (Valid(script, d) <=> ValidD7(d))
  <2>1. ASSUME script = 0 PROVE Valid(script, d) <=> ValidD0(d)
    BY <2>1 DEF Valid
  <2>2. ASSUME script = 1 PROVE Valid(script, d) <=> ValidD1(d)
    BY <2>2 DEF Valid
  <2>3. ASSUME script = 2 PROVE Valid(script, d) <=> ValidD2(d)
    BY <2>3 DEF Valid
  <2>4. ASSUME script = 3 PROVE Valid(script, d) <=> ValidD3(d)
    BY <2>4 DEF Valid
  <2>5. ASSUME script = 4 PROVE Valid(script, d) <=> ValidD4(d)
    BY <2>5 DEF Valid
  <2>6. ASSUME script = 5 PROVE Valid(script, d) <=> ValidD5(d)
    BY <2>6 DEF Valid
  <2>7. ASSUME script = 6 PROVE Valid(script, d) <=> ValidD6(d)
    BY <2>7 DEF Valid
  <2>8. ASSUME script = 7 PROVE Valid(script, d) <=> ValidD7(d)
    BY <2>8 DEF Valid
  <2> QED
    BY <2>1, <2>2, <2>3, <2>4, <2>5, <2>6, <2>7, <2>8
<1> HIDE DEF failedResult, badTrace, badSelection
<1>13. failedResult <=> (completed /\ error # "NONE") \/ (stage = "NON_MAPPING_RETURNED" /\ error # "NONE")
  BY <1>8 DEF failedResult
<1>14. world.ceiling => badTrace
  BY DEF badTrace
<1>15. CASE script = 0
  BY <1>2, <1>9, <1>10, <1>11, <1>12, <1>15
<1>16. CASE script \in 1 .. 3
  BY <1>2, <1>9, <1>10, <1>11, <1>12, <1>13, <1>16
<1>17. CASE script \in 4 .. 5
  BY <1>3, <1>4, <1>9, <1>10, <1>12, <1>13, <1>17
<1>18. CASE script \in 6 .. 7
  BY <1>3, <1>4, <1>5, <1>6, <1>7, <1>9, <1>10, <1>12, <1>13, <1>14, <1>18
<1> QED
  BY <1>8, <1>15, <1>16, <1>17, <1>18 DEF Scripts

\* An honest observation is rejected in the known cases and in no others, however
\* failures, retries and swallowed errors combine, for any number of clients and
\* any bounds of the probes (validate_document() of each script).
THEOREM DocumentsAreRejectedAsKnown ==
  Spec => []RejectsOnlyKnownCases
<1>1. ExtractionInv /\ ObservedInv => RejectsOnlyKnownCases
  <2> SUFFICES ASSUME ExtractionInv, ObservedInv, point = "finished"
               PROVE  Accepted = ~Rejected
    BY DEF RejectsOnlyKnownCases
  <2>1. Accepted <=> ~Rejected
    BY DocumentsHold
  <2>2. Accepted \in BOOLEAN
    BY DEF Accepted
  <2> QED
    BY <2>1, <2>2
<1> QED
  BY <1>1, DocAlways, PTL

-------------------------------------------------------------------------------
(* What the stop gate takes from a ledger *)

\* A single response that is absent offers nothing.
LEMMA AbsentOffersNothing ==
  ASSUME NEW responses, responses = <<"ABSENT">>
  PROVE  ~Offers(responses)
BY DEF Offers

\* What D6 saw as absent was.
LEMMA AbsentWasAbsent ==
  ASSUME NEW shapes \in Seq(Shapes), D6Views(shapes) = <<"ABSENT">>
  PROVE  shapes = <<"ABSENT">>
<1>1. PICK views : views = D6Views(shapes)
  OBVIOUS
<1>2. /\ Len(views) = Len(shapes) /\ Len(views) = 1 /\ views[1] = "ABSENT"
      /\ \A i \in 1 .. Len(shapes) : views[i] = D6View(shapes[i])
  BY <1>1, ViewsOf
<1>3. D6View(shapes[1]) = "ABSENT"
  BY <1>2
<1>4. shapes[1] = "ABSENT"
  BY <1>3 DEF D6View
<1>5. PICK s \in Seq(Shapes) : s = shapes
  OBVIOUS
<1>6. Len(s) = 1 /\ s[1] = "ABSENT"
  BY <1>2, <1>4, <1>5
<1>7. s = <<"ABSENT">>
  BY <1>6
<1> QED
  BY <1>5, <1>7

\* The checks of the three slices, over what the observation kept.
LEMMA LedgerTells ==
  ASSUME script \in Slices, PassesGate(script, Document)
  PROVE  /\ seen.noFormats = 1 /\ seen.requests = GATE_REQUESTS
         /\ script = 6 => seen.pre = <<"ABSENT">>
         /\ script = 7 => seen.initial = <<"ABSENT">> /\ seen.api = <<"ABSENT">>
<1>1. PICK d : d = Document
  OBVIOUS
<1>2. /\ d.requests = seen.requests /\ d.noFormats = seen.noFormats
      /\ d.pre = seen.pre /\ d.initial = seen.initial /\ d.api = seen.api
  BY <1>1 DEF Document
<1>3. PassesGate(script, d)
  BY <1>1
<1>4. CASE script = 5
  BY <1>2, <1>3, <1>4 DEF PassesGate, CheckD5, AllAnswered
<1>5. CASE script = 6
  BY <1>2, <1>3, <1>5 DEF PassesGate, CheckD6, AllAnswered
<1>6. CASE script = 7
  BY <1>2, <1>3, <1>6 DEF PassesGate, CheckD7, AllAnswered
<1> QED
  BY <1>4, <1>5, <1>6 DEF Slices

\* The control of a ledger that passes ended as the ledger says.
LEMMA GateFromObservation ==
  ASSUME ExtractionInv, ObservedInv
  PROVE  GateTellsHowItEnded
<1> SUFFICES ASSUME script \in Slices, Accepted, PassesGate(script, Document)
             PROVE  /\ world.verdict /\ world.emitted = 0 /\ error # "CONTRACT"
                    /\ world.sent = GATE_REQUESTS
                    /\ script >= 6 => ~Offers(world.api)
                    /\ script >= 7 => ~Offers(world.initial)
  BY DEF GateTellsHowItEnded
<1>1. /\ seen.noFormats = 1 /\ seen.requests = GATE_REQUESTS
      /\ script = 6 => seen.pre = <<"ABSENT">>
      /\ script = 7 => seen.initial = <<"ABSENT">> /\ seen.api = <<"ABSENT">>
  BY LedgerTells
<1>2. world.verdict /\ world.sent = GATE_REQUESTS /\ stage = "EXTRACT_INFO_RAISED"
  BY <1>1 DEF ExtractionInv, VerdictInv, CountInv
<1>3. world.emitted = 0
  BY <1>2 DEF ObservedInv, DocInv, SelectInv
<1>4. error # "CONTRACT"
  <2>1. PICK d : d = Document
    OBVIOUS
  <2>2. d.trace = seen.trace /\ d.completed = completed /\ d.stage = stage
    BY <2>1 DEF Document
  <2>3. ValidD4(d)
    <3>1. Valid(script, d) /\ script \in {5, 6, 7}
      BY <2>1 DEF Accepted, Slices
    <3>2. CASE script = 5
      BY <3>1, <3>2 DEF Valid, ValidD5
    <3>3. CASE script = 6
      BY <3>1, <3>3 DEF Valid, ValidD6, ValidD5
    <3>4. CASE script = 7
      BY <3>1, <3>4 DEF Valid, ValidD7, ValidD6, ValidD5
    <3> QED
      BY <3>1, <3>2, <3>3, <3>4
  <2>4. TraceOk(seen.trace, completed, stage)
    BY <2>2, <2>3 DEF ValidD4
  <2>5. Last(seen.trace) = Raised
    BY <1>2, <2>4 DEF TraceOk, Raised
  <2> QED
    BY <1>2, <2>3, <2>5 DEF ExtractionInv, VerdictInv
<1>5. script = 6 => world.api = <<"ABSENT">>
  <2>1. ASSUME script = 6
        PROVE  world.api = <<"ABSENT">>
    <3>1. seen.pre = D6Views(world.api)
      BY <1>2, <2>1 DEF ObservedInv, ParsedInv, Parsed
    <3>2. world.api \in Seq(Shapes)
      BY DEF ObservedInv, DocInv, ShapesInv
    <3>3. D6Views(world.api) = <<"ABSENT">>
      BY <1>1, <2>1, <3>1
    <3> QED
      BY <3>2, <3>3, AbsentWasAbsent
  <2> QED
    BY <2>1
<1>6. script = 7 => world.api = <<"ABSENT">> /\ world.initial = <<"ABSENT">>
  BY <1>1, <1>2 DEF ExtractionInv, VerdictInv, Copied
<1>7. (script >= 6 => ~Offers(world.api)) /\ (script >= 7 => ~Offers(world.initial))
  <2>1. CASE script = 5
    BY <2>1
  <2>2. CASE script = 6
    BY <1>5, <2>2, AbsentOffersNothing
  <2>3. CASE script = 7
    BY <1>6, <2>3, AbsentOffersNothing
  <2> QED
    BY <2>1, <2>2, <2>3 DEF Slices
<1> QED
  BY <1>2, <1>3, <1>4, <1>7

\* A ledger that passes its slice's check is of an observation that sent what it tells
\* of and ended in the extractor's own verdict over a selection that emitted nothing, not
\* in a limit of the probes, and whose parsed responses, as far as the slice looks at
\* them, held neither candidate nor manifest (build_checkpoint()).
THEOREM GateIsRightAboutTheEnd ==
  Spec => []GateTellsHowItEnded
<1>1. ExtractionInv /\ ObservedInv => GateTellsHowItEnded
  BY GateFromObservation
<1> QED
  BY <1>1, DocAlways, PTL

================================================================================
