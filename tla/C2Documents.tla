------------------------------ MODULE C2Documents ------------------------------
(***************************************************************************)
(* m3_c2_contracts.py, m3_c2_d0.py ... m3_c2_d7.py and m3_c2_stop_gate.py: *)
(* what each of the eight diagnostic scripts may put in the document of    *)
(* one observation, when it accepts it, what its summary tells of it, and  *)
(* which frozen plans it descends from.                                    *)
(*                                                                         *)
(* A script is its number.  One record stands for the nested documents of  *)
(* all of them: script n uses the fields of the scripts it nests.  A       *)
(* response is told apart only by what it offers (Shapes), an answer to a  *)
(* request and an exception only by their class.                           *)
(***************************************************************************)
EXTENDS Integers, Sequences, FiniteSets, SequencesExt

CONSTANTS
    MAX_METADATA_REQUESTS,  \* requests of one observation
    MAX_STAGE_EVENTS,       \* events of one D4 trace
    MAX_RESPONSES,          \* player responses D6 and D7 take a snapshot of
    MAX_FORMAT_YIELDS,      \* format mappings D6 counts
    MAX_POT_REPORTS,        \* reports of a skipped format D6 counts
    GATE_REQUESTS           \* requests of a control the stop gate expects

ASSUME BoundsAreNatural ==
    /\ MAX_METADATA_REQUESTS \in Nat /\ MAX_STAGE_EVENTS \in Nat \ {0}
    /\ MAX_RESPONSES \in Nat /\ MAX_FORMAT_YIELDS \in Nat
    /\ MAX_POT_REPORTS \in Nat /\ GATE_REQUESTS \in Nat

Scripts == 0 .. 7

-------------------------------------------------------------------------------
(* Plans: a script's plan is rebuilt from the registry and the plans it     *)
(* descends from; drifted is the set of those that are not the frozen ones. *)

PlanDocs == {"registry", "c1", "d0", "d1", "d2", "d3", "d4", "d5", "d6", "d7"}

PlanD0(drifted) == drifted \cap {"registry", "c1", "d0"} = {}
PlanD1(drifted) == PlanD0(drifted) /\ "d1" \notin drifted
PlanD2(drifted) == PlanD1(drifted) /\ "d2" \notin drifted
PlanD3(drifted) == PlanD2(drifted) /\ "d3" \notin drifted
PlanD4(drifted) == PlanD3(drifted) /\ "d4" \notin drifted
PlanD5(drifted) == PlanD4(drifted) /\ "d5" \notin drifted
PlanD6(drifted) == PlanD5(drifted) /\ "d6" \notin drifted
PlanD7(drifted) == PlanD6(drifted) /\ "d7" \notin drifted

PlanOk(script, drifted) ==
    CASE script = 0 -> PlanD0(drifted) [] script = 1 -> PlanD1(drifted)
      [] script = 2 -> PlanD2(drifted) [] script = 3 -> PlanD3(drifted)
      [] script = 4 -> PlanD4(drifted) [] script = 5 -> PlanD5(drifted)
      [] script = 6 -> PlanD6(drifted) [] script = 7 -> PlanD7(drifted)

-------------------------------------------------------------------------------
(* Answers and exceptions *)

\* RETURNED answers keep their status class, exceptions the class below.
Answers == {"HTTP_2XX", "HTTP_403", "TIMED_OUT"}
Failed(answer) == answer # "HTTP_2XX"

\* Exceptions that leave extract_info(): one of the extractor's own, with the
\* failed request that caused it where there is one; a check of the
\* instrumentation; anything else.
ExtractorErrors == {"EXTRACTOR", "HTTP_403", "TIMED_OUT"}

\* typed_network_category(): a transport error of yt-dlp has no class of its own.
NetworkCategory(answer) == IF answer = "HTTP_403" THEN "HTTP_403" ELSE "UNCLASSIFIED"

\* classify_exception() follows the causes down to a builtin exception, and
\* does not know those of yt-dlp.
ClassifyException(error) == IF error = "TIMED_OUT" THEN "TIMEOUT" ELSE "UNCLASSIFIED"

\* extractor_exception_type()
ErrorType(error) ==
    CASE error = "NONE" -> "NONE"
      [] error \in ExtractorErrors -> "YTDLP_DOWNLOAD_ERROR"
      [] OTHER -> "OTHER_EXCEPTION"

\* nested_cause_class(): the first link with a class of its own.
NestedCause(error) ==
    CASE error \in {"NONE", "CONTRACT", "OTHER"} -> "NONE"
      [] error = "EXTRACTOR" -> "YTDLP_EXTRACTOR_ERROR"
      [] error = "HTTP_403" -> "HTTP_403"
      [] error = "TIMED_OUT" -> "OTHER_NETWORK"

-------------------------------------------------------------------------------
(* Documents *)

ExtractorStages ==
    {"MAPPING_RETURNED", "NON_MAPPING_RETURNED", "EXTRACT_INFO_RAISED", "INITIALIZATION_FAILED"}

Stages == {"VIDEO_EXTRACT", "INITIAL_EXTRACT", "WEBPAGE_FETCH", "INITIAL_DATA",
           "CLIENT_SELECTION", "PLAYER_RESPONSES", "PLAYER_RESPONSE", "FORMAT_SELECTION"}

\* D6's shape() and D7's snapshot(): nothing, a null or an empty streamingData,
\* manifests only, candidate formats.
Shapes == {"ABSENT", "NULL", "BARE", "MANIFEST", "CANDIDATES"}
D6View(shape) == IF shape = "MANIFEST" THEN "BARE" ELSE shape
D6Views(shapes) == [i \in DOMAIN shapes |-> D6View(shapes[i])]

\* DiagnosticCapture.finish() refuses to call an extraction both complete and failed.
FinishOk(completed, error) == ~(completed /\ error # "NONE")
Terminal(completed, error) ==
    IF completed THEN "NONE" ELSE IF error = "NONE" THEN "UNCLASSIFIED" ELSE ClassifyException(error)

\* validate_document() of the offline contract
ValidD0(d) ==
    /\ d.requests <= MAX_METADATA_REQUESTS
    /\ DOMAIN d.failures \subseteq 1 .. d.requests
    /\ d.completed = (d.terminal = "NONE")

ValidD1(d) ==
    /\ ValidD0(d)
    /\ d.stage \in ExtractorStages
    /\ d.completed = (d.stage = "MAPPING_RETURNED")
    /\ (d.errorType = "NONE") = (d.stage \in {"MAPPING_RETURNED", "NON_MAPPING_RETURNED"})
    /\ d.stage = "NON_MAPPING_RETURNED" => d.terminal = "UNCLASSIFIED"
    /\ Len(d.answers) = d.requests
    /\ \A i \in DOMAIN d.answers :
        /\ Failed(d.answers[i]) = (i \in DOMAIN d.failures)
        /\ i \in DOMAIN d.failures => d.failures[i] = NetworkCategory(d.answers[i])

\* Mutant of ValidD2: a failed request is taken for a failed extraction.
ValidD2FailureFails(d) ==
    /\ ValidD1(d) /\ (d.errorType = "NONE" => d.nested = "NONE")
    /\ DOMAIN d.failures # {} => d.errorType # "NONE"

ValidD2(d) == ValidD1(d) /\ (d.errorType = "NONE" => d.nested = "NONE")

\* validate_typed_reference(): an independent schema, with no FinishOk before it.
ValidD3(d) ==
    /\ d.requests <= MAX_METADATA_REQUESTS
    /\ d.stage \in ExtractorStages
    /\ d.completed = (d.stage = "MAPPING_RETURNED")
    /\ d.stage = "MAPPING_RETURNED" => d.errorType = "NONE" /\ d.nested = "NONE" /\ d.terminal = "NONE"
    /\ d.stage = "NON_MAPPING_RETURNED" =>
        d.errorType = "NONE" /\ d.nested = "NONE" /\ d.terminal = "UNCLASSIFIED"
    /\ d.stage \in {"EXTRACT_INFO_RAISED", "INITIALIZATION_FAILED"} => d.errorType # "NONE"
    /\ Len(d.answers) = d.requests
    /\ DOMAIN d.failures \subseteq 1 .. d.requests
    /\ \A i \in DOMAIN d.answers :
        /\ Failed(d.answers[i]) = (i \in DOMAIN d.failures)
        /\ i \in DOMAIN d.failures => d.failures[i] = NetworkCategory(d.answers[i])

\* What an event leaves of the phases still entered, innermost last: <<"forged">>
\* once an exit is not that of the innermost.
AfterEvent(entered, event) ==
    IF event[2] = "ENTER" THEN Append(entered, event[1])
    ELSE IF entered # <<>> /\ Last(entered) = event[1] THEN Front(entered)
    ELSE <<"forged">>

\* What a trace leaves of them.
Unwound(trace) ==
    LET entered[n \in 0 .. Len(trace)] == IF n = 0 THEN <<>> ELSE AfterEvent(entered[n - 1], trace[n])
    IN  entered[Len(trace)]

\* validate_trace()
TraceOk(trace, completed, stage) ==
    /\ Len(trace) <= MAX_STAGE_EVENTS
    /\ Unwound(trace) = <<>>
    /\ stage # "INITIALIZATION_FAILED" =>
        /\ trace # <<>>
        /\ Head(trace) = <<"VIDEO_EXTRACT", "ENTER">>
        /\ Last(trace) = <<"VIDEO_EXTRACT", IF stage = "EXTRACT_INFO_RAISED" THEN "RAISE" ELSE "RETURN">>
    /\ completed => \A i \in DOMAIN trace : trace[i][2] # "RAISE"

ValidD4(d) == ValidD3(d) /\ TraceOk(d.trace, d.completed, d.stage)

ValidD5(d) ==
    /\ ValidD4(d)
    /\ d.observations = Cardinality({i \in DOMAIN d.trace : d.trace[i] = <<"FORMAT_SELECTION", "RETURN">>})
    /\ d.observations # 1 => d.population = "UNKNOWN"
    /\ d.drm <= d.noFormats
    /\ d.drm > 0 => d.population = "EMPTY"

ValidD6(d) ==
    /\ ValidD5(d)
    /\ \A samples \in {d.pre, d.post, d.selected} : Len(samples) <= MAX_RESPONSES
    /\ d.selections \in {0, 1} /\ d.selections = d.observations
    /\ d.yields <= MAX_FORMAT_YIELDS /\ d.skips <= MAX_POT_REPORTS
    /\ d.selections # 0 => Len(d.selected) = Len(d.post)
    /\ d.population = "EMPTY" => d.yields = 0
    /\ d.selections = 0 => d.yields = 0 /\ d.selected = <<>>

ValidD7(d) ==
    /\ ValidD6(d)
    /\ Len(d.initial) <= 1
    /\ d.calls = d.selections
    /\ D6Views(d.api) = d.pre /\ D6Views(d.normalized) = d.post /\ D6Views(d.chosen) = d.selected

Valid(script, d) ==
    CASE script = 0 -> ValidD0(d) [] script = 1 -> ValidD1(d)
      [] script = 2 -> ValidD2(d) [] script = 3 -> ValidD3(d)
      [] script = 4 -> ValidD4(d) [] script = 5 -> ValidD5(d)
      [] script = 6 -> ValidD6(d) [] script = 7 -> ValidD7(d)

-------------------------------------------------------------------------------
(* Summaries: what summary-v1.json tells of a document *)

ReturnedAnswers(d) == SelectSeq(d.answers, LAMBDA answer : ~Failed(answer))

SummaryD0(d) ==
    [requests |-> d.requests, failures |-> d.failures, terminal |-> d.terminal, completed |-> d.completed]
SummaryD1(d) ==
    [requests |-> d.requests, returned |-> ReturnedAnswers(d), stage |-> d.stage, errorType |-> d.errorType]
SummaryD2(d) ==
    [requests |-> d.requests, returned |-> ReturnedAnswers(d), stage |-> d.stage, errorType |-> d.errorType,
     nested |-> d.nested]
SummaryD3(d) ==
    [requests |-> d.requests, returned |-> ReturnedAnswers(d), stage |-> d.stage, errorType |-> d.errorType,
     nested |-> d.nested, completed |-> d.completed]

FirstRaised(trace) ==
    LET raised == SelectSeq(trace, LAMBDA event : event[2] = "RAISE")
    IN IF raised = <<>> THEN "NONE" ELSE Head(raised)[1]

SummaryD4(d) ==
    [requests |-> d.requests, completed |-> d.completed, nested |-> d.nested,
     firstRaised |-> FirstRaised(d.trace),
     entered |-> SelectSeq(d.trace, LAMBDA event : event[2] = "ENTER")]
SummaryD5(d) ==
    [requests |-> d.requests, completed |-> d.completed, population |-> d.population,
     noFormats |-> d.noFormats, drm |-> d.drm]

\* selected_population(): of what the extractor selected from, not of the wire.
SelectedPopulation(samples) ==
    IF samples = <<>> THEN "UNKNOWN"
    ELSE IF Contains(samples, "CANDIDATES") THEN "PRESENT"
    ELSE "NO_CANDIDATES_IN_SELECTED_INPUT"

SummaryD6(d) ==
    [requests |-> d.requests, pre |-> Len(d.pre), post |-> Len(d.post),
     state |-> SelectedPopulation(d.selected), yields |-> d.yields, skips |-> d.skips,
     population |-> d.population]

ManifestStatus(samples) ==
    IF samples = <<>> THEN "UNOBSERVED"
    ELSE IF Contains(samples, "MANIFEST") THEN "PRESENT"
    ELSE "NO_MANIFEST_FIELDS_OBSERVED"

SummaryD7(d) ==
    [requests |-> d.requests, initial |-> ManifestStatus(d.initial), api |-> ManifestStatus(d.api),
     selected |-> ManifestStatus(d.chosen), state |-> SelectedPopulation(d.selected)]

Summary(script, d) ==
    CASE script = 0 -> SummaryD0(d) [] script = 1 -> SummaryD1(d)
      [] script = 2 -> SummaryD2(d) [] script = 3 -> SummaryD3(d)
      [] script = 4 -> SummaryD4(d) [] script = 5 -> SummaryD5(d)
      [] script = 6 -> SummaryD6(d) [] script = 7 -> SummaryD7(d)

-------------------------------------------------------------------------------
(* The stop gate takes three ledgers, one for each slice D5, D6 and D7: three *)
(* runs, at three commits, of the slice's own script.  A ledger's entry for a *)
(* control tells of the document of that script's observation.                *)

Slices == 5 .. 7

AllAnswered(d) == d.requests = GATE_REQUESTS /\ Len(ReturnedAnswers(d)) = GATE_REQUESTS

CheckD5(d) ==
    /\ d.population = "EMPTY" /\ d.observations = 1
    /\ d.noFormats = 1 /\ d.drm = 0
    /\ AllAnswered(d) /\ ~d.completed

CheckD6(d) ==
    /\ d.pre = <<"ABSENT">> /\ d.post = <<"NULL", "BARE">>
    /\ SelectedPopulation(d.selected) = "NO_CANDIDATES_IN_SELECTED_INPUT"
    /\ d.selected = d.post
    /\ d.yields = 0 /\ d.skips = 0 /\ d.population = "EMPTY"
    /\ d.noFormats = 1 /\ d.drm = 0
    /\ AllAnswered(d) /\ ~d.completed

CheckD7(d) ==
    /\ d.initial = <<"ABSENT">> /\ ManifestStatus(d.initial) = "NO_MANIFEST_FIELDS_OBSERVED"
    /\ d.api = <<"ABSENT">> /\ ManifestStatus(d.api) = "NO_MANIFEST_FIELDS_OBSERVED"
    /\ D6Views(d.normalized) = <<"NULL", "BARE">>
    /\ ManifestStatus(d.chosen) = "NO_MANIFEST_FIELDS_OBSERVED"
    /\ SelectedPopulation(d.selected) = "NO_CANDIDATES_IN_SELECTED_INPUT"
    /\ d.yields = 0 /\ d.skips = 0 /\ d.population = "EMPTY" /\ d.noFormats = 1
    /\ AllAnswered(d)

\* Mutant of PassesGate: every ledger is held to what D5's is.
PassesAsD5(slice, d) == CheckD5(d)

\* build_checkpoint(), for one control: each ledger passes the check of its slice,
\* and with it has the requests of the others.
PassesGate(slice, d) ==
    CASE slice = 5 -> CheckD5(d) [] slice = 6 -> CheckD6(d) [] slice = 7 -> CheckD7(d)

================================================================================
