------------------------------- MODULE MCG2Trials -------------------------------
(* Every profile with trials that are alike and trials that are not, rows late   *)
(* where they can matter; failed steps, of the cleanup too; the route's orders of *)
(* events that two of its sources can produce; and one misreport at a time.      *)
EXTENDS G2Trials

\* One of the two backends; the other is the same with the names exchanged.
FrozenFirstBackend == [p \in Profiles |-> BACKENDS[1]]

None == <<0, 0, 0, 0>>
All == <<1, 1, 1, 1>>
First == <<1, 0, 0, 0>>
Uneven == <<2, 0, 1, 1>>

Canonical == <<"START", "UP1", "CAPS1", "ALLOW1", "OWN1", "LOST", "FAIL1", "PAUSE",
               "UP2", "ALLOW2", "CAPS2", "OWN2", "DONE2", "STOP">>
\* Two neighbours that come from different sources in the other order.
Swappable == {<<"CAPS1", "ALLOW1">>, <<"OWN1", "LOST">>, <<"LOST", "FAIL1">>, <<"FAIL1", "PAUSE">>,
              <<"PAUSE", "UP2">>, <<"CAPS2", "OWN2">>, <<"ALLOW2", "CAPS2">>}
Swapped(pair) ==
    LET i == CHOOSE k \in DOMAIN Canonical : Canonical[k] = pair[1]
    IN  [Canonical EXCEPT ![i] = pair[2], ![i + 1] = pair[1]]
Orders == {Canonical} \cup {Swapped(pair) : pair \in Swappable}

Honest(profile, fails, kind, replays, lateRows, failedSteps) ==
    [profile |-> profile, fails |-> fails, kind |-> kind, replays |-> replays, error |-> "CONNECTION_RESET",
     order |-> Canonical, misreport |-> "none", late |-> lateRows, failures |-> failedSteps]

Misreporting(profile, fails, kind, misreport) ==
    [Honest(profile, fails, kind, None, 0, 0) EXCEPT !.misreport = misreport]

NetworkInstances ==
    {Honest("N2", fails, kind, replays, lateRows, 0) :
        fails \in {None, All, First}, kind \in {"silent", "correlated"}, replays \in {None, All, First, Uneven}, lateRows \in 0 .. 1}
    \cup {Honest("N2", fails, "silent", None, 3, 0) : fails \in {None, All}}
    \cup {Honest("N2", fails, "silent", None, 0, 0) : fails \in {<<3, 3, 3, 3>>, <<0, 4, 0, 0>>}}
    \cup {Honest("N2", All, "reached", None, 0, 0), Honest("N2", None, "silent", All, 4, 0)}
    \cup {Honest("N5", All, "silent", None, 0, 1)}
    \cup {Honest("N5GE", None, "reached", None, 1, 0)}

PulseInstances ==
    {Honest("N3", fails, "silent", replays, 1, 0) : fails \in {None, First}, replays \in {None, All}}
    \cup {Honest("N3", None, "silent", None, 0, failedSteps) : failedSteps \in {1, 3}}
    \cup {Honest("N3", None, "silent", Uneven, 1, 0)}

ResetInstances ==
    {Honest("N6", All, kind, replays, lateRows, 0) :
        kind \in {"silent", "reached", "correlated"}, replays \in {None, All, First}, lateRows \in 0 .. 2}
    \cup {Honest("N6", All, "reached", None, 0, 1)}

RouteInstances ==
    {[Honest("N6R", All, "silent", None, 0, 0) EXCEPT !.order = order] : order \in Orders}
    \cup {Honest("N6R", All, "reached", None, 1, 0), Honest("N6R", All, "silent", All, 1, 0)}

ControlInstances == {Honest("N0", None, "silent", replays, 0, failedSteps) : replays \in {None, First}, failedSteps \in 0 .. 1}

MisreportInstances ==
    {Misreporting("N2", All, "silent", m) :
        m \in RawMisreports \cup {"readback", "unclean", "otherRun", "environmentRun", "code"}}
    \cup {Misreporting("N6", All, "reached", m) :
        m \in RawMisreports \cup {"readback", "unclean", "otherRun", "trigger", "environmentRun", "code"}}
    \cup {Misreporting("N6R", All, "silent", m) : m \in RawMisreports}
    \cup {Misreporting("N0", None, "silent", m) : m \in RawMisreports \ {"jitter", "observation"}}

SmallInstances ==
    NetworkInstances \cup PulseInstances \cup ResetInstances \cup RouteInstances \cup ControlInstances
        \cup MisreportInstances

================================================================================
