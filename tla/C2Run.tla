--------------------------------- MODULE C2Run ---------------------------------
(***************************************************************************)
(* A C2 diagnostic run: the cells of the plan one after the other, each    *)
(* observed once (in the run's own process by D0, D1 and D2, in a child    *)
(* with a deadline from D3 on), then the summary and the manifest; and     *)
(* verify_bundle(), which reads what is left in the output directory.      *)
(*                                                                         *)
(* The order of a script's steps is data (RunD0 ... RunD7, ObserveD0 ...): *)
(* the actions below carry the steps out.  A file is written in two steps, *)
(* and the job may be cancelled between any two.  Every invocation runs at *)
(* a commit of its own, which is its number.                               *)
(***************************************************************************)
EXTENDS C2Extraction

CONSTANTS
    Instances,      \* [script, cells, clients] to explore
    Drifts,         \* what may be other than frozen, as sets of PlanDocs and Surroundings
    MaxInvocations

\* The video id fixture, the child's interpreter, the release it has installed
\* and the methods of that release.
Surroundings == {"source", "interpreter", "oracle", "hooks"}

ASSUME InstancesAssumption ==
    /\ Instances \subseteq [script : Scripts, cells : Nat \ {0}, clients : Nat]
    /\ MaxInvocations \in Nat

ASSUME DriftsAssumption == Drifts \subseteq SUBSET (PlanDocs \cup Surroundings)

VARIABLES
    cells,          \* number of cells of the plan
    drifted,
    invocation, exit,
    at,             \* step of the run, 0 when none runs
    cell,           \* the cell being observed or written
    child,          \* step of its observation, 0 when none runs
    opened,         \* the file being written is there in part
    records,        \* what the run keeps of the cells it has observed
    disk,
    sentBy          \* requests really sent by each invocation

run == <<cells, script, clients, drifted>>
vars == <<run, extraction, invocation, exit, at, cell, child, opened, records, disk, sentBy>>

-------------------------------------------------------------------------------
(* The scripts *)

\* Mutant of RunD5: the manifest before the summary it should name.
RunD5ManifestFirst ==
    <<"PLAN", "IDS", "EMPTY", "CHILD", "MKDIR", "CELLS", "MANIFEST", "SUMMARY", "PRIVACY">>

\* run_d0() ... run_d7().  The scripts that observe in their own process keep all
\* they see in memory and write it at the end; the others make the directory
\* first, and each child writes its own file.
RunD0 == <<"PLAN", "IDS", "EMPTY", "CELLS", "BUDGET", "MKDIR", "WRITE", "SUMMARY", "MANIFEST", "PRIVACY">>
RunD1 == <<"PLAN", "IDS", "EMPTY", "CELLS", "BUDGET", "MKDIR", "WRITE", "SUMMARY", "MANIFEST", "PRIVACY">>
RunD2 == <<"PLAN", "IDS", "EMPTY", "CELLS", "BUDGET", "MKDIR", "WRITE", "SUMMARY", "MANIFEST", "PRIVACY">>
RunD3 == <<"PLAN", "IDS", "EMPTY", "CHILD", "MKDIR", "CELLS", "SUMMARY", "MANIFEST", "PRIVACY">>
RunD4 == <<"PLAN", "IDS", "EMPTY", "CHILD", "MKDIR", "CELLS", "SUMMARY", "MANIFEST", "PRIVACY">>
RunD5 == <<"PLAN", "IDS", "EMPTY", "CHILD", "MKDIR", "CELLS", "SUMMARY", "MANIFEST", "PRIVACY">>
RunD6 == <<"PLAN", "IDS", "EMPTY", "CHILD", "MKDIR", "CELLS", "SUMMARY", "MANIFEST", "PRIVACY">>
RunD7 == <<"PLAN", "IDS", "EMPTY", "CHILD", "MKDIR", "CELLS", "SUMMARY", "MANIFEST", "PRIVACY">>

Steps == CASE script = 0 -> RunD0 [] script = 1 -> RunD1 [] script = 2 -> RunD2 [] script = 3 -> RunD3
           [] script = 4 -> RunD4 [] script = 5 -> RunD5 [] script = 6 -> RunD6 [] script = 7 -> RunD7

\* observe_cell(), then from D3 on the observe-one command around it
ObserveD0 == <<"ORACLE", "OBSERVE", "VALIDATE">>
ObserveD1 == <<"ORACLE", "OBSERVE", "VALIDATE">>
ObserveD2 == <<"ORACLE", "OBSERVE", "VALIDATE">>
ObserveD3 == <<"PLAN", "IDS", "ABSENT", "ORACLE", "OBSERVE", "VALIDATE", "WRITE">>
ObserveD4 == <<"PLAN", "IDS", "ABSENT", "ORACLE", "HOOKS", "OBSERVE", "VALIDATE", "WRITE">>
ObserveD5 == <<"PLAN", "ORACLE", "IDS", "ABSENT", "HOOKS", "OBSERVE", "VALIDATE", "WRITE">>
ObserveD6 == <<"PLAN", "ORACLE", "IDS", "ABSENT", "HOOKS", "OBSERVE", "VALIDATE", "WRITE">>
ObserveD7 == <<"PLAN", "ORACLE", "IDS", "ABSENT", "HOOKS", "OBSERVE", "VALIDATE", "WRITE">>

ObserveSteps ==
    CASE script = 0 -> ObserveD0 [] script = 1 -> ObserveD1 [] script = 2 -> ObserveD2 [] script = 3 -> ObserveD3
      [] script = 4 -> ObserveD4 [] script = 5 -> ObserveD5 [] script = 6 -> ObserveD6 [] script = 7 -> ObserveD7

-------------------------------------------------------------------------------
(* Files *)

Absent == [kind |-> "absent"]
Partial == [kind |-> "partial"]
Whole(value) == [kind |-> "whole", value |-> value]
EmptyDisk == [cells |-> [i \in 1 .. cells |-> Absent], summary |-> Absent, manifest |-> Absent]

TotalRequests(docs) ==
    LET upTo[n \in 0 .. Len(docs)] == IF n = 0 THEN 0 ELSE upTo[n - 1] + docs[n].told.requests
    IN  upTo[Len(docs)]
BundleSummary(docs) == [cells |-> docs, requests |-> TotalRequests(docs)]

\* The manifest has the digest of every file there when it is made.
Digests == [cells |-> disk.cells, summary |-> disk.summary]

CellDocs == [i \in 1 .. cells |-> disk.cells[i].value]

-------------------------------------------------------------------------------
(* verify_bundle(): the checks each script makes, for the commit it is given *)

VerifyD1 == {"FILES", "MANIFEST", "DIGESTS", "DOCUMENTS", "ONE_COMMIT", "SUMMARY", "PRIVACY", "COMMIT"}
VerifyD2 == {"FILES", "MANIFEST", "DIGESTS", "DOCUMENTS", "ONE_COMMIT", "BUDGET", "SUMMARY", "PRIVACY", "COMMIT"}
VerifyD3 == {"FILES", "MANIFEST", "DIGESTS", "DOCUMENTS", "COMMIT", "BUDGET", "SUMMARY", "PRIVACY"}
VerifyD4 == {"PLAN", "FILES", "MANIFEST", "DIGESTS", "DOCUMENTS", "COMMIT", "SUMMARY", "BUDGET", "PRIVACY"}
VerifyD5 == {"PLAN", "FILES", "MANIFEST", "DIGESTS", "DOCUMENTS", "COMMIT", "SUMMARY", "BUDGET", "PRIVACY"}
VerifyD6 == {"PLAN", "FILES", "MANIFEST", "DIGESTS", "DOCUMENTS", "COMMIT", "SUMMARY", "BUDGET", "PRIVACY"}
VerifyD7 == {"PLAN", "FILES", "MANIFEST", "DIGESTS", "DOCUMENTS", "COMMIT", "SUMMARY", "BUDGET", "PRIVACY"}

\* D0 has none.
VerifyChecks ==
    CASE script = 1 -> VerifyD1 [] script = 2 -> VerifyD2 [] script = 3 -> VerifyD3 [] script = 4 -> VerifyD4
      [] script = 5 -> VerifyD5 [] script = 6 -> VerifyD6 [] script = 7 -> VerifyD7

\* A file that was not written to its end is not JSON.  A document does not hold
\* an id, only its digest, so the privacy check has nothing to find here.
WholeBundle ==
    /\ disk.manifest.kind = "whole" /\ disk.summary.kind = "whole"
    /\ \A i \in 1 .. cells : disk.cells[i].kind = "whole"

Passes(check, commit) ==
    CASE check = "PLAN" -> PlanOk(script, drifted)
      [] check \in {"FILES", "MANIFEST"} -> WholeBundle
      [] check = "DIGESTS" -> disk.manifest.value = Digests
      [] check = "ONE_COMMIT" -> \A i, j \in 1 .. cells : CellDocs[i].commit = CellDocs[j].commit
      [] check = "COMMIT" -> \A i \in 1 .. cells : CellDocs[i].commit = commit
      [] check = "BUDGET" -> TotalRequests(CellDocs) <= cells * MAX_METADATA_REQUESTS
      [] check = "SUMMARY" -> disk.summary.value = BundleSummary(CellDocs)
      [] check \in {"DOCUMENTS", "PRIVACY"} -> TRUE

VerifyBundle(commit) ==
    /\ script > 0
    /\ WholeBundle
    /\ \A check \in VerifyChecks : Passes(check, commit)

-------------------------------------------------------------------------------
(* The run *)

Init ==
    /\ \E instance \in Instances :
        script = instance.script /\ cells = instance.cells /\ clients = instance.clients
    /\ drifted \in Drifts
    /\ invocation = 0 /\ exit = "none"
    /\ at = 0 /\ cell = 1 /\ child = 0 /\ opened = FALSE
    /\ records = <<>> /\ disk = EmptyDisk
    /\ sentBy = [i \in 1 .. MaxInvocations |-> 0]
    /\ point = Fresh.point /\ stack = Fresh.stack /\ error = Fresh.error
    /\ stage = Fresh.stage /\ completed = Fresh.completed
    /\ seen = Fresh.seen /\ world = Fresh.world

FreshExtraction(where) ==
    /\ point' = where /\ stack' = Fresh.stack /\ error' = Fresh.error
    /\ stage' = Fresh.stage /\ completed' = Fresh.completed
    /\ seen' = Fresh.seen /\ world' = Fresh.world

Step == Steps[at]
ChildStep == ObserveSteps[child]
At(step) == at > 0 /\ child = 0 /\ Step = step
ChildAt(step) == child > 0 /\ ChildStep = step

Start ==
    /\ at = 0 /\ invocation < MaxInvocations
    /\ invocation' = invocation + 1
    /\ exit' = "none" /\ at' = 1 /\ cell' = 1 /\ records' = <<>>
    /\ UNCHANGED <<run, extraction, child, opened, disk, sentBy>>

Stops(how) ==
    /\ at' = 0 /\ child' = 0 /\ cell' = 1 /\ opened' = FALSE /\ records' = <<>>
    /\ exit' = how
    /\ FreshExtraction("none")
    /\ UNCHANGED <<run, invocation, disk>>

Advance == at' = at + 1 /\ cell' = 1
Holds(check) ==
    CASE check = "PLAN" -> PlanOk(script, drifted)
      [] check = "IDS" -> "source" \notin drifted
      [] check = "EMPTY" -> disk = EmptyDisk
      [] check = "CHILD" -> "interpreter" \notin drifted
      [] check = "BUDGET" -> TotalRequests(records) <= cells * MAX_METADATA_REQUESTS
      [] check = "MKDIR" -> TRUE

Check ==
    /\ at > 0 /\ child = 0
    /\ Step \in {"PLAN", "IDS", "EMPTY", "CHILD", "BUDGET", "MKDIR"}
    /\ IF Holds(Step)
       THEN Advance /\ UNCHANGED <<run, extraction, invocation, exit, child, opened, records, disk, sentBy>>
       ELSE Stops("failed") /\ UNCHANGED sentBy

\* The next cell, or the end of the loop.
Observe ==
    /\ At("CELLS")
    /\ IF cell > cells THEN Advance /\ UNCHANGED child ELSE child' = 1 /\ UNCHANGED <<at, cell>>
    /\ UNCHANGED <<run, extraction, invocation, exit, opened, records, disk, sentBy>>

-------------------------------------------------------------------------------
(* The observation of a cell *)

ChildAdvance == child' = child + 1

ChildHolds(check) ==
    CASE check = "PLAN" -> PlanOk(script, drifted)
      [] check = "IDS" -> "source" \notin drifted
      [] check = "ABSENT" -> disk.cells[cell] = Absent
      [] check = "ORACLE" -> "oracle" \notin drifted
      [] check = "HOOKS" -> "hooks" \notin drifted

ChildCheck ==
    /\ child > 0
    /\ ChildStep \in {"PLAN", "IDS", "ABSENT", "ORACLE", "HOOKS"}
    /\ IF ChildHolds(ChildStep)
       THEN ChildAdvance /\ UNCHANGED <<run, extraction, invocation, exit, at, cell, opened, records, disk, sentBy>>
       ELSE Stops("failed") /\ UNCHANGED sentBy

Extract ==
    /\ ChildAt("OBSERVE")
    /\ \/ /\ point = "none"
          /\ FreshExtraction("construct")
          /\ UNCHANGED child
       \/ ExtractionStep /\ UNCHANGED child
       \/ point = "finished" /\ ChildAdvance /\ UNCHANGED extraction
    /\ sentBy' = [sentBy EXCEPT ![invocation] = @ + world'.sent - world.sent]
    /\ UNCHANGED <<run, invocation, exit, at, cell, opened, records, disk>>

CellDocument == [told |-> Summary(script, Document), commit |-> invocation]

\* Its own process keeps the document, a child goes on to write it.
Validate ==
    /\ ChildAt("VALIDATE")
    /\ IF ~Accepted THEN Stops("failed")
       ELSE /\ IF script <= 2
               THEN /\ records' = Append(records, CellDocument)
                    /\ cell' = cell + 1 /\ child' = 0
                    /\ FreshExtraction("none")
               ELSE ChildAdvance /\ UNCHANGED <<records, cell, extraction>>
            /\ UNCHANGED <<run, invocation, exit, at, opened, disk>>
    /\ UNCHANGED sentBy

\* The child opens its file, writes it and exits; the run reads it, validates it
\* once more and has the next cell observed.
ChildWrite ==
    /\ ChildAt("WRITE")
    /\ IF ~opened
       THEN /\ opened' = TRUE
            /\ disk' = [disk EXCEPT !.cells[cell] = Partial]
            /\ UNCHANGED <<extraction, child, cell, records>>
       ELSE /\ opened' = FALSE
            /\ disk' = [disk EXCEPT !.cells[cell] = Whole(CellDocument)]
            /\ records' = Append(records, CellDocument)
            /\ cell' = cell + 1 /\ child' = 0
            /\ FreshExtraction("none")
    /\ UNCHANGED <<run, invocation, exit, at, sentBy>>

\* The run kills a child after its deadline, and fails.
Timeout ==
    /\ script >= 3 /\ child > 0
    /\ Stops("failed")
    /\ UNCHANGED sentBy

-------------------------------------------------------------------------------
(* The end of a run *)

\* D0, D1 and D2 write the documents they kept.
WriteCells ==
    /\ At("WRITE")
    /\ IF cell > cells THEN Advance /\ UNCHANGED <<opened, disk>>
       ELSE /\ opened' = ~opened
            /\ disk' = [disk EXCEPT !.cells[cell] = IF opened THEN Whole(records[cell]) ELSE Partial]
            /\ cell' = IF opened THEN cell + 1 ELSE cell
            /\ UNCHANGED at
    /\ UNCHANGED <<run, extraction, invocation, exit, child, records, sentBy>>

WriteSummary ==
    /\ At("SUMMARY")
    /\ opened' = ~opened
    /\ disk' = [disk EXCEPT !.summary = IF opened THEN Whole(BundleSummary(records)) ELSE Partial]
    /\ IF opened THEN Advance ELSE UNCHANGED <<at, cell>>
    /\ UNCHANGED <<run, extraction, invocation, exit, child, records, sentBy>>

WriteManifest ==
    /\ At("MANIFEST")
    /\ opened' = ~opened
    /\ disk' = [disk EXCEPT !.manifest = IF opened THEN Whole(Digests) ELSE Partial]
    /\ IF opened THEN Advance ELSE UNCHANGED <<at, cell>>
    /\ UNCHANGED <<run, extraction, invocation, exit, child, records, sentBy>>

CheckPrivacy ==
    /\ At("PRIVACY")
    /\ Stops("ok")
    /\ UNCHANGED sentBy

\* The job is cancelled.
Kill == at > 0 /\ Stops("killed") /\ UNCHANGED sentBy

Done == at = 0 /\ invocation = MaxInvocations /\ UNCHANGED vars

Next ==
    \/ Start \/ Check \/ Observe \/ ChildCheck \/ Extract \/ Validate \/ ChildWrite \/ Timeout
    \/ WriteCells \/ WriteSummary \/ WriteManifest \/ CheckPrivacy \/ Kill \/ Done

Spec == Init /\ [][Next]_vars

-------------------------------------------------------------------------------
(* Properties *)

\* No request leaves before everything the observation depends on was found to be
\* the frozen one, none beyond the budget of the observation, by whichever
\* exception it is stopped (DiagnosticCapture.next_request()); and a document that is
\* accepted has counted each of them.
RequestsAreAccountedFor ==
    /\ world.sent <= MAX_METADATA_REQUESTS
    /\ world.sent > 0 =>
        /\ PlanOk(script, drifted) /\ {"source", "oracle"} \cap drifted = {}
        /\ script >= 3 => "interpreter" \notin drifted
        /\ script >= 4 => "hooks" \notin drifted
    /\ Accepted => Document.requests = world.sent

\* What an honest observation may be rejected for, by the script that first does.
Rejected ==
    \/ completed /\ error # "NONE"                          \* the end of the with statement raised
    \/ script >= 1 /\ stage = "NON_MAPPING_RETURNED" /\ error # "NONE"
    \/ /\ script >= 4
       /\ \/ world.ceiling
          \/ stage = "EXTRACT_INFO_RAISED" /\ world.ie # "ENTERED"    \* before or after YoutubeIE
          \/ completed /\ world.swallowed                  \* a client failed, another did
    \/ script >= 6 /\ world.selection \in {"ENTERED", "RAISED"}     \* a failing format selection

\* The validators reject what an honest extraction can produce in these cases and
\* in no others, however its failures, retries and swallowed errors combine: none
\* accepts a document once an event had no place in D4's trace ("stage event ceiling
\* reached (abort; no partial evidence)").
RejectsOnlyKnownCases == point = "finished" => Accepted = ~Rejected

\* The stop gate is right about how its controls ended.  A ledger that passes the check
\* of its slice is of an observation that sent the requests it tells of and ended in
\* raise_no_formats(), after a selection that emitted nothing, and in no limit of the
\* probes; D6's is of one whose parsed API return held neither candidate nor manifest,
\* D7's of one whose embedded response did not either, as it was parsed.  What the
\* provider had sent is no conclusion of it ("WIRE_STREAMING_DATA_ABSENT").
GateTellsHowItEnded ==
    script \in Slices /\ Accepted /\ PassesGate(script, Document) =>
        /\ world.verdict /\ world.emitted = 0 /\ error # "CONTRACT"
        /\ world.sent = GATE_REQUESTS
        /\ script >= 6 => ~Offers(world.api)
        /\ script >= 7 => ~Offers(world.initial)

\* verify_bundle() accepts what a run that ended well left behind, and whatever it
\* accepts, after any number of failed, killed or refused invocations over the
\* same directory, is the work of one of them and accounts for all its requests.
BundleAgreesWithRun ==
    /\ exit = "ok" /\ script > 0 => VerifyBundle(invocation)
    /\ \A commit \in 1 .. invocation :
        VerifyBundle(commit) => disk.summary.value.requests = sentBy[commit]

================================================================================
