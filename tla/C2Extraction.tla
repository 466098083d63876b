----------------------------- MODULE C2Extraction -----------------------------
(***************************************************************************)
(* One extraction of a C2 diagnostic script, from the construction of      *)
(* InstrumentedYoutubeDL to the end of its with statement: the calls of    *)
(* yt-dlp's YoutubeIE as a stack, and around each of them what the script  *)
(* has wrapped it in: D0's request counter, D4's StageObserver, D5's       *)
(* TerminalProbe, D6's ShapeProbe and D7's ManifestProbe, the later        *)
(* outside the earlier.                                                    *)
(*                                                                         *)
(* What yt-dlp does between its calls is not in the repository: it is any  *)
(* order of requests, failures and results the scripts' hooks allow for.   *)
(* world is what really happened in the process, seen is what the probes   *)
(* kept of it.  Responses are what yt-dlp's parsers returned: what was on  *)
(* the wire before them no script looks at, and the model does not have.   *)
(***************************************************************************)
EXTENDS C2Documents

VARIABLES
    script, clients,    \* which script, and how many player clients yt-dlp asks
    point,              \* where observe_cell() is
    stack,              \* YoutubeIE's calls in progress: [name, next]
    error,              \* the exception in flight, or "NONE"
    stage, completed,   \* locals of observe_cell()
    seen,               \* what the probes hold
    world               \* what really happened

extraction == <<point, stack, error, stage, completed, seen, world>>

\* The calls a phase makes, in order; a client each for PLAYER_RESPONSES.
Calls(name) ==
    CASE name = "VIDEO_EXTRACT" -> <<"INITIAL_EXTRACT", "FORMAT_SELECTION">>
      [] name = "INITIAL_EXTRACT" ->
            <<"WEBPAGE_FETCH", "INITIAL_DATA", "CLIENT_SELECTION", "PLAYER_RESPONSES">>
      [] name = "PLAYER_RESPONSES" -> [i \in 1 .. clients |-> "PLAYER_RESPONSE"]
      [] OTHER -> <<>>

Requesting == {"WEBPAGE_FETCH", "PLAYER_RESPONSE"}

NothingSeen ==
    [answers |-> <<>>, requests |-> 0, trace |-> <<>>,
     population |-> "UNKNOWN", observations |-> 0, noFormats |-> 0, drm |-> 0,
     pre |-> <<>>, post |-> <<>>, selected |-> <<>>, selections |-> 0, yields |-> 0, skips |-> 0,
     initial |-> <<>>, api |-> <<>>, normalized |-> <<>>, chosen |-> <<>>, calls |-> 0]

NothingHappened ==
    [sent |-> 0, ceiling |-> FALSE, swallowed |-> FALSE, emitted |-> 0, verdict |-> FALSE,
     initial |-> <<>>, api |-> <<>>, selection |-> "NONE", ie |-> "NONE"]

Fresh ==
    [point |-> "none", stack |-> <<>>, error |-> "NONE", stage |-> "INITIALIZATION_FAILED",
     completed |-> FALSE, seen |-> NothingSeen, world |-> NothingHappened]

Top == Last(stack)
Running(name) == point = "inside" /\ error = "NONE" /\ stack # <<>> /\ Top.name = name
CalledAll == Top.next > Len(Calls(Top.name))

-------------------------------------------------------------------------------
(* The with statement around extract_info() *)

Construct ==
    /\ point = "construct"
    /\ \/ point' = "extract" /\ stage' = "EXTRACT_INFO_RAISED" /\ UNCHANGED error
       \/ point' = "finished" /\ error' = "OTHER" /\ UNCHANGED stage
    /\ UNCHANGED <<stack, completed, seen, world>>

\* extract_info() gives up before it has entered YoutubeIE.
FailsEarly ==
    /\ point = "extract"
    /\ point' = "exit" /\ error' = "EXTRACTOR"
    /\ UNCHANGED <<stack, stage, completed, seen, world>>

\* What extract_info() does with the result of YoutubeIE.
Process ==
    /\ point = "process"
    /\ point' = "exit"
    /\ \/ error' = "EXTRACTOR" /\ UNCHANGED <<stage, completed>>
       \/ completed' = TRUE /\ stage' = "MAPPING_RETURNED" /\ UNCHANGED error
       \/ stage' = "NON_MAPPING_RETURNED" /\ UNCHANGED <<error, completed>>
    /\ UNCHANGED <<stack, seen, world>>

\* __exit__ may raise too, in the place of what was in flight.
Exit ==
    /\ point = "exit"
    /\ point' = "finished"
    /\ error' \in {error, "OTHER"}
    /\ UNCHANGED <<stack, stage, completed, seen, world>>

-------------------------------------------------------------------------------
(* Calls and returns, with D4's StageObserver around each *)

TraceFull == script >= 4 /\ Len(seen.trace) >= MAX_STAGE_EVENTS

\* event(): an event past the ceiling is an exception in the wrapper.
Traced(s, name, outcome) ==
    IF script < 4 THEN s ELSE [s EXCEPT !.trace = Append(@, <<name, outcome>>)]

Hits(w) == [w EXCEPT !.ceiling = TRUE]

\* D6 and D7 count the call of _list_formats, and copy its input, before it runs.
SelectionSeen(s) ==
    [s EXCEPT !.selections = IF script >= 6 THEN @ + 1 ELSE @,
              !.selected = IF script >= 6 THEN s.post ELSE @,
              !.calls = IF script >= 7 THEN @ + 1 ELSE @,
              !.chosen = IF script >= 7 THEN s.normalized ELSE @]

\* _search_json() for the initial player response, where the webpage has one.
InitialSeen(s, initial) == IF script >= 7 THEN [s EXCEPT !.initial = initial] ELSE s

Enter(name) ==
    LET before == IF name = "FORMAT_SELECTION" THEN SelectionSeen(seen) ELSE seen
        caller == IF stack = <<>> THEN <<>>
                  ELSE Append(Front(stack), [Top EXCEPT !.next = @ + 1])
    IN
    /\ \/ point = "extract" /\ name = "VIDEO_EXTRACT"
       \/ point = "inside" /\ error = "NONE" /\ stack # <<>> /\ ~CalledAll
          /\ name = Calls(Top.name)[Top.next]
    /\ point' = "inside"
    /\ IF TraceFull
       THEN /\ error' = "CONTRACT" /\ world' = Hits(world) /\ seen' = before /\ stack' = caller
       ELSE /\ stack' = Append(caller, [name |-> name, next |-> 1])
            /\ UNCHANGED error
            /\ IF name = "PLAYER_RESPONSES"
               THEN \E initial \in IF script >= 6 THEN {<<>>, <<"ABSENT">>, <<"MANIFEST">>, <<"CANDIDATES">>}
                                   ELSE {<<>>, <<"CANDIDATES">>} :
                     /\ world' = [world EXCEPT !.initial = initial]
                     /\ seen' = InitialSeen(Traced(before, name, "ENTER"), initial)
               ELSE /\ seen' = Traced(before, name, "ENTER")
                    /\ world' = IF name = "FORMAT_SELECTION" THEN [world EXCEPT !.selection = "ENTERED"]
                                ELSE IF name = "VIDEO_EXTRACT" THEN [world EXCEPT !.ie = "ENTERED"]
                                ELSE world
    /\ UNCHANGED <<stage, completed>>

\* Mutant of Request: the budget is checked after the request is sent.
RequestThenCount ==
    /\ \E name \in Requesting : Running(name)
    /\ world.sent <= MAX_METADATA_REQUESTS
    /\ world' = [world EXCEPT !.sent = @ + 1]
    /\ IF seen.requests >= MAX_METADATA_REQUESTS
       THEN error' = "CONTRACT" /\ UNCHANGED seen
       ELSE \E answer \in Answers :
            /\ seen' = [seen EXCEPT !.requests = @ + 1, !.answers = Append(@, answer)]
            /\ error' \in IF Failed(answer) THEN {answer, "NONE"} ELSE {"NONE"}
    /\ UNCHANGED <<point, stack, stage, completed>>

\* urlopen(): the budget is spent before the request is sent; a failure may stay
\* inside the phase, which then does without the answer.
Request ==
    /\ \E name \in Requesting : Running(name)
    /\ IF seen.requests >= MAX_METADATA_REQUESTS
       THEN error' = "CONTRACT" /\ UNCHANGED <<seen, world>>
       ELSE \E answer \in Answers :
            /\ seen' = [seen EXCEPT !.requests = @ + 1, !.answers = Append(@, answer)]
            /\ world' = [world EXCEPT !.sent = @ + 1]
            /\ error' \in IF Failed(answer) THEN {answer, "NONE"} ELSE {"NONE"}
    /\ UNCHANGED <<point, stack, stage, completed>>

\* The generator of formats, from what was selected.  D6 counts what it yields.
Offers(shapes) == \E i \in DOMAIN shapes : shapes[i] \in {"MANIFEST", "CANDIDATES"}

Emit ==
    /\ Running("FORMAT_SELECTION")
    /\ Offers(world.initial \o world.api)
    /\ world.emitted <= IF script >= 6 THEN MAX_FORMAT_YIELDS ELSE 0
    /\ IF script >= 6 /\ seen.yields >= MAX_FORMAT_YIELDS
       THEN error' = "CONTRACT" /\ UNCHANGED <<seen, world>>
       ELSE /\ seen' = [seen EXCEPT !.yields = IF script >= 6 THEN @ + 1 ELSE @]
            /\ world' = [world EXCEPT !.emitted = @ + 1]
            /\ UNCHANGED error
    /\ UNCHANGED <<point, stack, stage, completed>>

\* A format that is there is skipped for want of a PO token, and D6 counts the report.
ReportSkip ==
    /\ script >= 6
    /\ Running("FORMAT_SELECTION")
    /\ Offers(world.initial \o world.api)
    /\ IF seen.skips >= MAX_POT_REPORTS
       THEN error' = "CONTRACT" /\ UNCHANGED seen
       ELSE seen' = [seen EXCEPT !.skips = @ + 1] /\ UNCHANGED error
    /\ UNCHANGED <<point, stack, stage, completed, world>>

\* A phase fails on its own.
Fails ==
    /\ point = "inside" /\ error = "NONE" /\ stack # <<>>
    /\ error' = "EXTRACTOR"
    /\ UNCHANGED <<point, stack, stage, completed, seen, world>>

\* raise_no_formats(), through report_drm() or not: D5 counts the call and the
\* method raises.
NoFormats ==
    /\ Running("VIDEO_EXTRACT") /\ CalledAll
    /\ world.emitted = 0
    /\ \E drm \in IF script >= 5 THEN {0, 1} ELSE {0} :
        seen' = [seen EXCEPT !.noFormats = IF script >= 5 THEN @ + 1 ELSE @, !.drm = @ + drm]
    /\ error' = "EXTRACTOR"
    /\ world' = [world EXCEPT !.verdict = TRUE]
    /\ UNCHANGED <<point, stack, stage, completed>>

-------------------------------------------------------------------------------
(* Returns *)

\* yt-dlp fills in streamingData where a response has none.
Normalized(initial, api) ==
    [i \in DOMAIN initial |-> IF initial[i] = "ABSENT" THEN "NULL" ELSE initial[i]]
    \o [i \in DOMAIN api |-> IF api[i] = "ABSENT" THEN "BARE" ELSE api[i]]

\* checked_formats(), of D5
FormatsSeen(s) ==
    IF script < 5 THEN s
    ELSE [s EXCEPT !.observations = @ + 1,
                   !.population = IF world.emitted = 0 THEN "EMPTY" ELSE "NONEMPTY"]

\* one() and many() of D6 and D7; a bound they find exceeded is an exception.
ResponseSeen(s, shape) ==
    IF script < 6 THEN s
    ELSE [s EXCEPT !.pre = Append(@, D6View(shape)),
                   !.api = IF script >= 7 THEN Append(@, shape) ELSE @]
ResponsesSeen(s, shapes) ==
    IF script < 6 THEN s
    ELSE [s EXCEPT !.post = D6Views(shapes),
                   !.normalized = IF script >= 7 THEN shapes ELSE @]

Popped == Front(stack)

\* A phase that has made its calls returns: its D4 event, then the later probes.
Return ==
    LET name == Top.name
        s == Traced(seen, name, "RETURN")
        responses == Normalized(world.initial, world.api)
    IN
    /\ point = "inside" /\ error = "NONE" /\ stack # <<>> /\ CalledAll
    /\ name = "VIDEO_EXTRACT" => world.emitted > 0
    /\ stack' = Popped
    /\ point' = IF name # "VIDEO_EXTRACT" THEN "inside" ELSE IF TraceFull THEN "exit" ELSE "process"
    /\ IF TraceFull THEN error' = "CONTRACT" /\ world' = Hits(world) /\ UNCHANGED seen
       ELSE CASE name = "PLAYER_RESPONSE" ->
                  \E shape \in IF script >= 6 THEN {"ABSENT", "MANIFEST", "CANDIDATES"} ELSE {"CANDIDATES"} :
                    /\ world' = [world EXCEPT !.api = Append(@, shape)]
                    /\ IF script >= 6 /\ Len(s.pre) >= MAX_RESPONSES
                       THEN seen' = s /\ error' = "CONTRACT"
                       ELSE seen' = ResponseSeen(s, shape) /\ UNCHANGED error
              [] name = "PLAYER_RESPONSES" ->
                    /\ UNCHANGED world
                    /\ IF script >= 6 /\ Len(responses) > MAX_RESPONSES
                       THEN seen' = s /\ error' = "CONTRACT"
                       ELSE seen' = ResponsesSeen(s, responses) /\ UNCHANGED error
              [] name = "FORMAT_SELECTION" ->
                    /\ seen' = FormatsSeen(s)
                    /\ world' = [world EXCEPT !.selection = "RETURNED"]
                    /\ UNCHANGED error
              [] OTHER ->
                    /\ seen' = s /\ UNCHANGED error
                    /\ world' = [world EXCEPT !.ie = IF name = "VIDEO_EXTRACT" THEN "RETURNED" ELSE @]
    /\ UNCHANGED <<stage, completed>>

\* The exception leaves the innermost phase; PLAYER_RESPONSES goes on to its next
\* client after an error of the extractor's own in this one.
Unwind ==
    LET name == Top.name IN
    /\ point = "inside" /\ error # "NONE" /\ stack # <<>>
    /\ stack' = Popped
    /\ point' = IF name = "VIDEO_EXTRACT" THEN "exit" ELSE "inside"
    /\ IF TraceFull THEN error' = "CONTRACT" /\ world' = Hits(world) /\ UNCHANGED seen
       ELSE /\ seen' = Traced(seen, name, "RAISE")
            /\ \E goOn \in IF name = "PLAYER_RESPONSE" /\ error \in ExtractorErrors
                           THEN BOOLEAN ELSE {FALSE} :
                /\ error' = IF goOn THEN "NONE" ELSE error
                /\ world' = [world EXCEPT !.swallowed = @ \/ goOn,
                                          !.selection = IF name = "FORMAT_SELECTION" THEN "RAISED" ELSE @]
    /\ UNCHANGED <<stage, completed>>

ExtractionStep ==
    \/ Construct \/ FailsEarly \/ Process \/ Exit
    \/ \E name \in Stages : Enter(name)
    \/ Request \/ Emit \/ ReportSkip \/ Fails \/ NoFormats \/ Return \/ Unwind

-------------------------------------------------------------------------------
(* The document *)

Document ==
    [requests |-> seen.requests,
     failures |-> [i \in {j \in DOMAIN seen.answers : Failed(seen.answers[j])} |->
                      NetworkCategory(seen.answers[i])],
     completed |-> completed, stage |-> stage,
     terminal |-> Terminal(completed, error),
     errorType |-> ErrorType(error), nested |-> NestedCause(error),
     answers |-> seen.answers, trace |-> seen.trace,
     population |-> seen.population, observations |-> seen.observations,
     noFormats |-> seen.noFormats, drm |-> seen.drm,
     pre |-> seen.pre, post |-> seen.post, selected |-> seen.selected,
     selections |-> seen.selections, yields |-> seen.yields, skips |-> seen.skips,
     initial |-> seen.initial, api |-> seen.api,
     normalized |-> seen.normalized, chosen |-> seen.chosen, calls |-> seen.calls]

\* What observe_cell() or observe-one makes of it.
Accepted == point = "finished" /\ (script <= 2 => FinishOk(completed, error)) /\ Valid(script, Document)

================================================================================
