-------------------------------- MODULE M3Probe --------------------------------
(***************************************************************************)
(* m3_probe.py and m3_contracts.py: what one bounded probe of a provider   *)
(* makes of the answers it gets, and the contract its artifact must meet.  *)
(*                                                                         *)
(* An answer of the provider is a record: the requests the reference       *)
(* extractor wants to make, the failures it sees, what it logs, and the    *)
(* formats it returns; reply says how a media request for a purpose ends:  *)
(* with a status and a body, or, lost, in the middle of its response.      *)
(* Abstracted: URLs, headers, text.  A format keeps its codecs, the scheme *)
(* of its URL, its protocol and its two flags.                             *)
(***************************************************************************)
EXTENDS Naturals, Sequences, FiniteSets

CONSTANTS
    MetadataLimit,      \* MAX_METADATA_REQUESTS
    MediaProbeLimit,    \* MAX_MEDIA_PROBES
    ProbeBytes          \* _MEDIA_PROBE_LENGTH, in units of a read

ASSUME ProbeAssumption ==
    /\ MetadataLimit \in Nat /\ MediaProbeLimit \in Nat
    /\ ProbeBytes \in Nat \ {0}

Purposes == {"STARTUP", "VIDEO", "AUDIO", "CONTINUATION", "SEEK"}

\* What an answer is made of, as far as it matters here.
AnswerOk(answer) ==
    /\ answer.wanted \in Nat
    /\ \A p \in Purposes : /\ answer.reply[p].status \in Nat /\ answer.reply[p].body \in Nat
                           /\ answer.reply[p].lost \in BOOLEAN

Observation(present) == IF present THEN "PRESENT" ELSE "UNKNOWN"

-------------------------------------------------------------------------------
(* The reference extractor behind its request budget *)

\* BudgetedYoutubeDL.urlopen(): a failure leaves its typed signals.  saw_retry_after
\* is assigned, not accumulated: the last failure with headers decides it.
FailureSignals(failures) ==
    LET withHeaders == {i \in DOMAIN failures : failures[i].retryAfter # "noHeaders"}
        last == CHOOSE i \in withHeaders : \A j \in withHeaders : j <= i
    IN  (IF \E i \in DOMAIN failures : failures[i].status = 403 THEN {"rejection"} ELSE {})
        \union (IF \E i \in DOMAIN failures : failures[i].status = 429 THEN {"throttling"} ELSE {})
        \union (IF withHeaders # {} /\ failures[last].retryAfter = "yes"
                THEN {"retryAfter"} ELSE {})

\* _extract_with_yt_dlp()
Extraction(answer) ==
    LET exhausted == answer.wanted > MetadataLimit
        completed == answer.returns /\ ~exhausted
    IN  [used |-> IF exhausted THEN MetadataLimit ELSE answer.wanted,
         exhausted |-> exhausted,
         completed |-> completed,
         signals |-> answer.logged \union FailureSignals(answer.failures),
         formats |-> IF completed THEN answer.formats ELSE <<>>]

-------------------------------------------------------------------------------
(* Formats *)

VideoOnly(f) == f.vcodec = "coded" /\ f.acodec = "none"
AudioOnly(f) == f.acodec = "coded" /\ f.vcodec = "none"
Muxed(f) == f.vcodec = "coded" /\ f.acodec = "coded"

Some(formats, P(_)) == \E i \in DOMAIN formats : P(formats[i])

\* _media_layout()
MediaLayout(formats) ==
    CASE Some(formats, Muxed) /\ Some(formats, VideoOnly) /\ Some(formats, AudioOnly) -> "MULTIPLE"
      [] ~Some(formats, Muxed) /\ Some(formats, VideoOnly) /\ Some(formats, AudioOnly) -> "SPLIT_AV"
      [] Some(formats, Muxed) /\ ~(Some(formats, VideoOnly) /\ Some(formats, AudioOnly)) -> "MUXED"
      [] OTHER -> "UNKNOWN"

\* _usable_direct_formats()
Direct(f) == f.scheme \in {"https", "http"} /\ ~f.drm /\ ~f.missingPot

\* _select_probe_format(): the first candidate, or none.
Candidates(formats, purpose) ==
    LET direct == SelectSeq(formats, Direct)
        muxed == SelectSeq(direct, Muxed)
    IN  CASE purpose = "VIDEO" -> SelectSeq(direct, VideoOnly)
          [] purpose = "AUDIO" -> SelectSeq(direct, AudioOnly)
          [] OTHER -> IF muxed # <<>> THEN muxed ELSE direct

-------------------------------------------------------------------------------
(* Media probes *)

\* _bounded_http_probe(), when it returns: status 0 stands for an URLError, a request
\* that could not be sent, and an HTTPError is told by its status.
MediaProbe(purpose, reply) ==
    LET answered == reply.status \in 200 .. 299 IN
    [purpose |-> purpose,
     status |-> reply.status,
     bytesRead |-> IF ~answered THEN 0
                   ELSE IF reply.body < ProbeBytes THEN reply.body ELSE ProbeBytes,
     rangeHonored |-> reply.status = 206 /\ reply.contentRange,
     retryAfter |-> reply.status # 0 /\ reply.retryAfter,
     rejection |-> reply.status = 403,
     throttling |-> reply.status = 429]

\* One round of the loop of _run_media_probes(), results being what it has so far.
Probed(formats, reply, results, purpose) ==
    IF Len(results) < MediaProbeLimit /\ Candidates(formats, purpose) # <<>>
    THEN Append(results, MediaProbe(purpose, reply[purpose]))
    ELSE results

\* _run_media_probes() in mode "range-set": a round for each purpose, in this order.
MediaProbes(formats, reply) ==
    LET startup == Probed(formats, reply, <<>>, "STARTUP")
        video == Probed(formats, reply, startup, "VIDEO")
        audio == Probed(formats, reply, video, "AUDIO")
        continuation == Probed(formats, reply, audio, "CONTINUATION")
    IN  Probed(formats, reply, continuation, "SEEK")

\* A response that times out, is reset or is cut short while it is awaited or read raises
\* neither: the exception leaves _run_media_probes() and run_live_probe() with it.
ResponseLost(answer) ==
    LET probes == MediaProbes(Extraction(answer).formats, answer.reply) IN
    \E i \in DOMAIN probes : answer.reply[probes[i].purpose].lost

-------------------------------------------------------------------------------
(* _summary_from_extraction() *)

ReadSomething(p) == p.bytesRead > 0 /\ p.status \in {200, 206}

Of(probes, purpose) == {i \in DOMAIN probes : probes[i].purpose = purpose}

StartupSuccess(probes) == \E i \in Of(probes, "STARTUP") : ReadSomething(probes[i])

Requirements(extraction, probes) ==
    LET started == StartupSuccess(probes) IN
    [gvsPoToken |->
        IF started THEN "NOT_REQUIRED"
        ELSE IF Some(extraction.formats, LAMBDA f : f.missingPot) THEN "REQUIRED"
        ELSE "UNKNOWN",
     playerPoToken |->
        IF extraction.completed /\ started THEN "NOT_REQUIRED" ELSE "UNKNOWN",
     challengeRuntime |->
        IF extraction.completed /\ started THEN "NOT_REQUIRED"
        ELSE IF "js" \in extraction.signals THEN "REQUIRED"
        ELSE "UNKNOWN",
     sessionContext |-> "UNKNOWN"]

Capabilities(extraction) ==
    LET formats == extraction.formats IN
    [https |-> Observation(Some(formats, LAMBDA f : f.protocol = "https" \/ f.scheme = "https")),
     dash |-> Observation(Some(formats, LAMBDA f : f.protocol = "dash")),
     hls |-> Observation(Some(formats, LAMBDA f : f.protocol = "hls")),
     sabr |-> Observation("sabr" \in extraction.signals
                          \/ Some(formats, LAMBDA f : f.protocol = "sabr")),
     drm |-> Observation("drm" \in extraction.signals \/ Some(formats, LAMBDA f : f.drm))]

ProviderSignals(extraction, probes) ==
    [rejection |-> Observation("rejection" \in extraction.signals
                               \/ Some(probes, LAMBDA p : p.rejection)),
     throttling |-> Observation("throttling" \in extraction.signals
                                \/ Some(probes, LAMBDA p : p.throttling)),
     retryAfter |-> Observation("retryAfter" \in extraction.signals
                                \/ Some(probes, LAMBDA p : p.retryAfter))]

RangeSeen(probes, purpose) ==
    \E i \in Of(probes, purpose) : probes[i].rangeHonored /\ probes[i].bytesRead > 0

\* The fields that the probe always leaves UNKNOWN are left out.
Delivery(extraction, probes) ==
    [mediaLayout |-> MediaLayout(extraction.formats),
     range |-> IF Some(probes, LAMBDA p : p.rangeHonored) THEN "PRESENT"
               ELSE IF Some(probes, LAMBDA p : p.status = 200) THEN "ABSENT"
               ELSE "UNKNOWN",
     continuation |-> Observation(RangeSeen(probes, "CONTINUATION")),
     startup |-> Observation(StartupSuccess(probes)),
     seek |-> Observation(RangeSeen(probes, "SEEK"))]

\* Siblings of the selected path may be gated without erasing a path that works.
Viable(extraction, probes) ==
    LET required == Requirements(extraction, probes) IN
    /\ StartupSuccess(probes)
    /\ Capabilities(extraction).https = "PRESENT"
    /\ required.gvsPoToken = "NOT_REQUIRED"
    /\ required.playerPoToken = "NOT_REQUIRED"
    /\ required.challengeRuntime = "NOT_REQUIRED"

\* Mutant of Classification: gated siblings decide before the path that works.
GatedFirst(extraction, probes) ==
    LET signals == ProviderSignals(extraction, probes)
        required == Requirements(extraction, probes)
    IN  IF signals.throttling = "PRESENT" THEN "PROVIDER_RATE_LIMITED"
        ELSE IF Some(extraction.formats, LAMBDA f : f.missingPot) THEN "TOKEN_GATED"
        ELSE IF required.challengeRuntime = "REQUIRED" THEN "CHALLENGE_GATED"
        ELSE IF Viable(extraction, probes) THEN "VIABLE_ANONYMOUS"
        ELSE "INCONCLUSIVE"

Classification(extraction, probes) ==
    LET signals == ProviderSignals(extraction, probes)
        required == Requirements(extraction, probes)
    IN  IF Viable(extraction, probes) THEN "VIABLE_ANONYMOUS"
        ELSE IF signals.throttling = "PRESENT" THEN "PROVIDER_RATE_LIMITED"
        ELSE IF Some(extraction.formats, LAMBDA f : f.missingPot) THEN "TOKEN_GATED"
        ELSE IF required.challengeRuntime = "REQUIRED" THEN "CHALLENGE_GATED"
        ELSE IF signals.rejection = "PRESENT" THEN "PROVIDER_REJECTED"
        ELSE "INCONCLUSIVE"

Summary(extraction, probes) ==
    [capabilities |-> Capabilities(extraction),
     requirements |-> Requirements(extraction, probes),
     providerSignals |-> ProviderSignals(extraction, probes),
     delivery |-> Delivery(extraction, probes),
     outcome |-> Classification(extraction, probes),
     metadataRequestsUsed |-> extraction.used,
     mediaProbes |-> probes]

\* run_live_probe(), when no response is lost: extraction, media probes, summary.
Observe(answer) ==
    LET extraction == Extraction(answer) IN
    Summary(extraction, MediaProbes(extraction.formats, answer.reply))

-------------------------------------------------------------------------------
(* m3_contracts.py *)

\* validate_budget(); a probe's id is its purpose here.
BudgetOk(s) ==
    /\ s.metadataRequestsUsed <= MetadataLimit
    /\ Len(s.mediaProbes) <= MediaProbeLimit
    /\ \A i, j \in DOMAIN s.mediaProbes :
        s.mediaProbes[i].purpose = s.mediaProbes[j].purpose => i = j
    /\ \A i \in DOMAIN s.mediaProbes : s.mediaProbes[i].bytesRead <= ProbeBytes

\* _validate_outcome_claim(): no claim stronger than the recorded observations.
OutcomeClaimOk(s) ==
    CASE s.outcome = "VIABLE_ANONYMOUS" ->
            /\ s.capabilities.https = "PRESENT"
            /\ s.delivery.startup = "PRESENT"
            /\ {s.requirements.gvsPoToken, s.requirements.playerPoToken,
                s.requirements.challengeRuntime} \subseteq {"NOT_REQUIRED", "NOT_APPLICABLE"}
      [] s.outcome = "TOKEN_GATED" ->
            "REQUIRED" \in {s.requirements.gvsPoToken, s.requirements.playerPoToken}
      [] s.outcome = "CHALLENGE_GATED" -> s.requirements.challengeRuntime = "REQUIRED"
      [] s.outcome = "SABR_ONLY" ->
            /\ s.capabilities.sabr = "PRESENT"
            /\ s.capabilities.dash = "ABSENT" /\ s.capabilities.hls = "ABSENT"
      [] s.outcome = "DRM_GATED" -> s.capabilities.drm = "PRESENT"
      [] s.outcome = "PROVIDER_REJECTED" -> s.providerSignals.rejection = "PRESENT"
      [] s.outcome = "PROVIDER_RATE_LIMITED" -> s.providerSignals.throttling = "PRESENT"
      [] OTHER -> s.outcome \in {"UNSUPPORTED_DELIVERY", "INCONCLUSIVE"}

\* validate_probe_document(), of which the schema and the privacy scan are left out.
DocumentOk(s) == BudgetOk(s) /\ OutcomeClaimOk(s)
===============================================================================
