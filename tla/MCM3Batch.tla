------------------------------ MODULE MCM3Batch ------------------------------
(* Instance of M3Batch: two primary lanes, a good registry and one with a case    *)
(* entered twice, and provider answers of each kind the classifier tells apart.  *)
EXTENDS M3Batch, TLC

CaseRecord(class, revision, id) ==
    [class |-> class, revision |-> revision, fingerprint |-> Sha256(id),
     mode |-> QualificationMode(class), layouts |-> RequiredLayouts(class)]

RegistryWith(id2) ==
    [oracleRevision |-> OracleRevision, primaryLanes |-> PrimaryLanes,
     deferredLanes |-> DeferredLanes,
     cases |-> <<CaseRecord("V0", "r0", "id0"), CaseRecord("V1", "r1", "id1"),
                 CaseRecord("V2", "r2", id2)>>]

MCRegistries == {RegistryWith("id2"), RegistryWith("id1")}

\* Derived from a source that quotes one id too many, and the wrong way round.
MCIdChoices ==
    LET derived == DerivedIds(RegistryWith("id2"), {"id0", "id1", "id2", "id3"}) IN
    {[class \in {"V0", "V1", "V2"} |-> CHOOSE id \in derived[class] : TRUE]}
    \union {"V0" :> "id1" @@ "V1" :> "id0" @@ "V2" :> "id2"}

MCPrimaryLanes == <<"WEB_EMBEDDED", "TV">>
MCDeferredLanes == <<"IOS">>

Format(v, a, scheme, pot) ==
    [vcodec |-> v, acodec |-> a, scheme |-> scheme, protocol |-> scheme,
     drm |-> FALSE, missingPot |-> pot]
Both(scheme) == Format("coded", "coded", scheme, FALSE)
Video == Format("coded", "none", "https", FALSE)
Audio == Format("none", "coded", "https", FALSE)
Gated(scheme) == Format("coded", "coded", scheme, TRUE)

Reply(status) == [status |-> status, body |-> 2, contentRange |-> TRUE,
                  retryAfter |-> status = 429, lost |-> FALSE]
Replies(status) == [p \in Purposes |-> Reply(status)]

Answer(wanted, logged, failures, formats, status) ==
    [wanted |-> wanted, returns |-> TRUE, logged |-> logged, failures |-> failures,
     formats |-> formats, reply |-> Replies(status)]

Failure(status, after) == [status |-> status, retryAfter |-> after]

\* "plain" breaks the contract: plain HTTP that plays, beside a gated sibling.  "cut"
\* loses the second media response; "gated" would lose one that is never asked for.
MCAnswerOf ==
    "split" :> Answer(1, {"rejection"}, <<>>, <<Video, Audio, Gated("https")>>, 206) @@
    "limited" :> Answer(1, {}, <<Failure(429, "yes"), Failure(429, "noHeaders")>>, <<Both("https")>>, 429) @@
    "gated" :> [Answer(1, {}, <<>>, <<Gated("https")>>, 0) EXCEPT !.reply["STARTUP"].lost = TRUE] @@
    "cut" :> [Answer(1, {}, <<>>, <<Both("https"), Video>>, 206) EXCEPT !.reply["VIDEO"].lost = TRUE] @@
    "challenged" :> [Answer(1, {"js"}, <<>>, <<>>, 0) EXCEPT !.returns = FALSE] @@
    "exhausted" :> Answer(3, {}, <<Failure(403, "no")>>, <<Both("https")>>, 206) @@
    "unranged" :> Answer(1, {}, <<>>, <<Both("https"), Audio>>, 200) @@
    "plain" :> Answer(1, {}, <<>>, <<Both("http"), Gated("http")>>, 206)
===============================================================================
