----------------------------- MODULE G2TrialsProofs -----------------------------
(***************************************************************************)
(* Proofs about G2Trials, for any set of instances.                        *)
(*                                                                         *)
(* 1. A trial's fault is tied to the place of the script: the processes    *)
(*    beside it live between their launch and their wait, and what Clean() *)
(*    leaves is still so when the trace is counted and the fault armed     *)
(*    (FaultIsContained).                                                  *)
(* 2. What the verifiers accept of the documents (MisreportsAreRefused).   *)
(* 3. The inductive invariant, Whole: what the owners, the trace, the      *)
(*    counts, the link and the reset controller have to do with each       *)
(*    other, but for the requests that outlived the wait for the trace.    *)
(* 4. With it, that the fault of an accepted job is real (FaultsAreReal)   *)
(*    and that its report is true (ReportIsTrue).                          *)
(***************************************************************************)
EXTENDS G2Trials, TLAPS, FiniteSetTheorems, WellFoundedInduction

-------------------------------------------------------------------------------
(* The faults *)

Events == {"HARNESS_STARTED", "FAULT_ARMED", "FAULT_APPLIED", "FAULT_REMOVED", "HARNESS_STOPPED",
           "OBSERVED", "DISARMED"}
Removed == "FAULT_REMOVED" \in Elements(log)

Types ==
    /\ instance \in Instances
    /\ trial \in 1 .. 5
    /\ step \in 1 .. Len(Script)
    /\ log \in Seq(Events)

\* Only the profile that launches a process has it, and only one of the faults
\* of the harness is ever armed.
ByProfile ==
    /\ pulse # "none" => Profile = "N3"
    /\ controller # "none" => Profile = "N6"
    /\ Profile \in {"N0", "N6R"} => fault = "off"

\* The places of the script with no fault: where a trial begins, and what follows
\* the removal in it.
NoFaultHere ==
    \/ step = 1
    \/ step = 6 /\ Profile \notin {"N0", "N3", "N6", "N6R"}
    \/ step = 7 /\ Profile = "N3"

\* While the script runs, its place says what is there.
ByPlace ==
    job = "running" =>
        /\ trial \notin Trials => step = 1
        /\ pulse # "none" => trial \in Trials /\ step \in 4 .. 6
        /\ controller # "none" => trial \in Trials /\ step \in 5 .. 6
        /\ trial \in Trials /\ step \in 2 .. 3 /\ Profile \notin {"N0", "N6R"} => fault = "off" /\ ~Removed
        /\ NoFaultHere => fault = "off"

\* What was removed is off; a pulse that has not armed has removed nothing, and
\* one that is done has; what cleanup() killed does not come back, but for the
\* command it leaves behind.
Contained ==
    /\ Removed => fault = "off"
    /\ pulse \in {"starting", "stray"} => ~Removed
    /\ pulse = "done" => fault = "off"
    /\ cleanup # "none" => pulse \in {"none", "stray"}
    /\ job \in {"ok", "red"} <=> cleanup \in {"done", "ignored"}
    /\ job = "running" => cleanup = "none"
    /\ job \in {"verified", "ok"} => fault = "off" /\ pulse = "none"
    /\ cleanup = "done" => fault = "off" /\ pulse = "none"

IInv == Types /\ ByProfile /\ ByPlace /\ Contained

-------------------------------------------------------------------------------
(* The scripts *)

\* Where the steps that matter stand in the script of a profile.
LEMMA ScriptPlaces ==
    ASSUME Types
    PROVE  /\ Profile \in Profiles
           /\ Len(Script) \in 1 .. 8
           /\ Script[step] = "CLEAN" => step = 1 /\ Len(Script) > 1
           /\ Script[step] = "BEFORE" => Profile = "N6R" \/ (step = 2 /\ Profile # "N0")
           /\ Script[step] = "START" => step = 3 /\ Profile \notin {"N0", "N3", "N6R"}
           /\ Script[step] = "STOP" => step \notin 1 .. 3 /\ (Profile \in {"N3", "N6"} => step \notin 1 .. 6)
           /\ Script[step] = "PULSE" => step = 3 /\ Profile = "N3" /\ Len(Script) = 7
           /\ Script[step] = "AWAIT_ARMED" => step = 4
           /\ Script[step] = "WAIT_PULSE" => step = 6
           /\ Script[step] = "LISTEN" => step = 4 /\ Profile = "N6" /\ Len(Script) = 8
           /\ Script[step] = "WAIT_CONTROLLER" => step = 6
           /\ Script[step] = "DEVICE" =>
                \/ Profile \in {"N0", "N6R"}
                \/ step = 5 /\ Len(Script) > 5
                \/ step = 4 /\ Profile \notin {"N3", "N6"}
           /\ Script[step] = "AFTER" => Profile = "N6R" \/ step \notin 1 .. 5
           /\ Profile = "N3" => Len(Script) = 7
           /\ Profile = "N6" => Len(Script) = 8
           /\ Profile \notin {"N0", "N3", "N6", "N6R"} => Len(Script) = 6
           /\ Script[step] = "STOP" => step = (IF Profile = "N6" THEN 8 ELSE 5)
           /\ step = 8 => Script[step] = "STOP"
           /\ step = 5 /\ Profile \notin {"N3", "N6"} => Script[step] = "STOP"
           /\ step = 1 /\ Profile \notin {"N0", "N6R"} => Script[step] = "CLEAN"
           /\ step = 6 /\ Profile = "N3" => Script[step] = "WAIT_PULSE"
           /\ step = 6 /\ Profile = "N6" => Script[step] = "WAIT_CONTROLLER"
<1>1. Profile \in Profiles
  BY InstancesAssumption DEF Types, Profile, InstanceRecord
<1>2. CASE Profile = "N0"
  <2>1. Script = <<"DEVICE">>
    BY <1>2 DEF Script
  <2>. QED  BY <1>1, <1>2, <2>1 DEF Types
<1>3. CASE Profile = "N3"
  <2>1. Script = <<"CLEAN", "BEFORE", "PULSE", "AWAIT_ARMED", "DEVICE", "WAIT_PULSE", "AFTER">>
    BY <1>3 DEF Script
  <2>. QED  BY <1>1, <1>3, <2>1 DEF Types
<1>4. CASE Profile = "N6"
  <2>1. Script = <<"CLEAN", "BEFORE", "START", "LISTEN", "DEVICE", "WAIT_CONTROLLER", "AFTER", "STOP">>
    BY <1>4 DEF Script
  <2>. QED  BY <1>1, <1>4, <2>1 DEF Types
<1>5. CASE Profile = "N6R"
  <2>1. Script = <<"BEFORE", "DEVICE", "AFTER">>
    BY <1>5 DEF Script
  <2>. QED  BY <1>1, <1>5, <2>1 DEF Types
<1>6. CASE Profile \notin {"N0", "N3", "N6", "N6R"}
  <2>1. Script = <<"CLEAN", "BEFORE", "START", "DEVICE", "STOP", "AFTER">>
    BY <1>6 DEF Script, NetworkScript
  <2>. QED  BY <1>1, <1>6, <2>1 DEF Types
<1>. QED  BY <1>2, <1>3, <1>4, <1>5, <1>6

\* How long the scripts with a fault are.
LEMMA ScriptLengths ==
    ASSUME Types
    PROVE  /\ Profile = "N3" => Len(Script) = 7
           /\ Profile = "N6" => Len(Script) = 8
           /\ Profile \notin {"N0", "N3", "N6", "N6R"} => Len(Script) = 6
BY ScriptPlaces

\* The script goes on to its next step, or to the first of the next trial.
LEMMA Advanced ==
    ASSUME Types, trial \in Trials, Advance, UNCHANGED instance
    PROVE  /\ trial' \in 1 .. 5 /\ step' \in 1 .. Len(Script)' /\ Profile' = Profile
           /\ step < Len(Script) => trial' = trial /\ step' = step + 1
           /\ step = Len(Script) => trial' = trial + 1 /\ step' = 1
<1>1. Script' = Script /\ Profile' = Profile
  BY DEF Script, Profile
<1>2. Len(Script) \in 1 .. 8 /\ step \in 1 .. Len(Script)
  BY ScriptPlaces DEF Types
<1>. QED  BY <1>1, <1>2 DEF Types, Advance, Trials

\* The script stays where it is.
LEMMA Stayed ==
    ASSUME Types, UNCHANGED <<instance, trial, step>>
    PROVE  trial' \in 1 .. 5 /\ step' \in 1 .. Len(Script)' /\ Profile' = Profile
<1>1. Script' = Script /\ Profile' = Profile
  BY DEF Script, Profile
<1>. QED  BY <1>1 DEF Types

\* What an event adds to a log.
LEMMA LogGrows ==
    ASSUME NEW l \in Seq(Events), NEW event \in Events
    PROVE  /\ Append(l, event) \in Seq(Events)
           /\ "FAULT_REMOVED" \in Elements(Append(l, event)) =>
                "FAULT_REMOVED" \in Elements(l) \/ event = "FAULT_REMOVED"
BY DEF Elements

\* Logs are sequences of events.
LEMMA Logs ==
    /\ << >> \in Seq(Events)
    /\ <<"HARNESS_STARTED", "FAULT_ARMED">> \in Seq(Events)
    /\ <<"HARNESS_STARTED", "FAULT_ARMED", "FAULT_APPLIED">> \in Seq(Events)
    /\ <<"FAULT_REMOVED", "HARNESS_STOPPED">> \in Seq(Events)
    /\ <<"FAULT_REMOVED", "DISARMED">> \in Seq(Events)
    /\ \A l, m \in Seq(Events) : l \o m \in Seq(Events)
<1>1. \A S : \A a, b \in S : <<a, b>> \in Seq(S)
  OBVIOUS
<1>2. \A S : \A a, b, c \in S : <<a, b, c>> \in Seq(S)
  OBVIOUS
<1>3. \A l, m \in Seq(Events) : l \o m \in Seq(Events)
  OBVIOUS
<1>. QED  BY <1>1, <1>2, <1>3 DEF Events

\* The logs that the starts of the harness leave have no removal in them.
LEMMA FreshLogs ==
    /\ "FAULT_REMOVED" \notin Elements(<< >>)
    /\ "FAULT_REMOVED" \notin Elements(<<"HARNESS_STARTED", "FAULT_ARMED">>)
    /\ "FAULT_REMOVED" \notin Elements(<<"HARNESS_STARTED", "FAULT_ARMED", "FAULT_APPLIED">>)
BY DEF Elements

-------------------------------------------------------------------------------
(* The steps *)

\* No step takes the script out of its places, or a variable out of its type.
LEMMA TypesStep == Types /\ [Next]_vars => Types'
<1> SUFFICES ASSUME Types, [Next]_vars PROVE Types'
  OBVIOUS
<1>1. ASSUME instance' = instance, Advance, trial \in Trials, log' \in Seq(Events) PROVE Types'
  BY <1>1, Advanced DEF Types
<1>2. ASSUME UNCHANGED <<instance, trial, step>>, log' \in Seq(Events) PROVE Types'
  BY <1>2, Stayed DEF Types
<1>3. log \in Seq(Events) /\ log \o <<"FAULT_REMOVED", "HARNESS_STOPPED">> \in Seq(Events)
  BY Logs DEF Types
<1>4. /\ Append(log, "HARNESS_STOPPED") \in Seq(Events)
      /\ Append(log, "OBSERVED") \in Seq(Events)
      /\ Append(log, "FAULT_APPLIED") \in Seq(Events)
      /\ log \o <<"FAULT_REMOVED", "DISARMED">> \in Seq(Events)
  BY Logs, LogGrows DEF Types, Events
<1>5. CASE Clean
  BY <1>1, <1>5, Logs DEF Clean, Doing
<1>6. CASE Before \/ After \/ LaunchPulse \/ AwaitArmed \/ WaitPulse \/ Listen \/ WaitController \/ DeviceReturns
  BY <1>1, <1>3, <1>6
     DEF Before, After, LaunchPulse, AwaitArmed, WaitPulse, Listen, WaitController, DeviceReturns, Doing, harnessVars
<1>7. CASE Start
  BY <1>1, <1>7, Logs DEF Start, Doing
<1>8. CASE Stop
  BY <1>1, <1>3, <1>8 DEF Stop, Doing, FinishFault
<1>9. CASE StopTransport
  BY <1>1, <1>3, <1>4, <1>9 DEF StopTransport, Doing
<1>10. CASE RowWritten \/ PacketDropped \/ StartMisread \/ StepFails \/ StepRefuses \/ PulseFails \/ PulseFailsToArm
  BY <1>2, <1>3, <1>10
     DEF RowWritten, PacketDropped, StartMisread, StepFails, StepRefuses, PulseFails, PulseFailsToArm, harnessVars
<1>11. CASE ControllerSettles \/ ControllerFails \/ LaunchDevice \/ CallReturns \/ OwnerServed \/ DeviceGivesUp
  BY <1>2, <1>3, <1>11
     DEF ControllerSettles, ControllerFails, LaunchDevice, CallReturns, OwnerServed, DeviceGivesUp, harnessVars
<1>12. CASE \/ Verify \/ KillProcesses \/ StrayArms \/ RemoveNetem \/ TearDown \/ TearDownFails \/ Ended \/ UNCHANGED vars
  BY <1>2, <1>3, <1>12 DEF Verify, KillProcesses, StrayArms, RemoveNetem, TearDown, TearDownFails, Cleaning, Ended, harnessVars, vars
<1>13. CASE PulseArms
  BY <1>2, <1>13, Logs DEF PulseArms
<1>14. CASE PulseSeesDrop
  BY <1>2, <1>4, <1>14 DEF PulseSeesDrop
<1>15. CASE PulseFinishes
  BY <1>2, <1>3, <1>15 DEF PulseFinishes, FinishFault
<1>16. CASE ControllerDisarms
  BY <1>2, <1>4, <1>16 DEF ControllerDisarms
<1>17. CASE OwnerFails
  BY <1>2, <1>3, <1>4, <1>17 DEF OwnerFails
<1>. QED
  BY <1>5, <1>6, <1>7, <1>8, <1>9, <1>10, <1>11, <1>12, <1>13, <1>14, <1>15, <1>16, <1>17 DEF Next

\* Steps that leave the fault, its log, the processes beside the script and cleanup().
LEMMA QuietStep ==
    ASSUME IInv, Types', UNCHANGED <<instance, fault, cleanup, pulse, controller, log>>,
           \/ /\ UNCHANGED <<trial, step>>
              /\ \/ job' = job
                 \/ job = "running" /\ job' = "failed"
                 \/ job = "running" /\ job' = "verified" /\ trial \notin Trials
           \/ /\ Doing(Script[step]) /\ Advance /\ job' = job
              /\ Script[step] \in {"BEFORE", "AFTER", "AWAIT_ARMED", "DEVICE"}
    PROVE  IInv'
<1> USE DEF IInv, ByProfile, ByPlace, NoFaultHere, Contained
<1>1. Profile' = Profile /\ Removed' = Removed
  BY DEF Profile, Removed
<1>2. CASE UNCHANGED <<trial, step>> /\ job' = job
  BY <1>1, <1>2
<1>3. CASE UNCHANGED <<trial, step>> /\ job = "running" /\ job' = "failed"
  BY <1>1, <1>3
<1>4. CASE UNCHANGED <<trial, step>> /\ job = "running" /\ job' = "verified" /\ trial \notin Trials
  BY <1>1, <1>4
<1>5. CASE Doing(Script[step]) /\ Advance /\ job' = job
           /\ Script[step] \in {"BEFORE", "AFTER", "AWAIT_ARMED", "DEVICE"}
  <2>1. trial \in Trials /\ job = "running"
    BY <1>5 DEF Doing
  <2>2. /\ step < Len(Script) => trial' = trial /\ step' = step + 1
        /\ step = Len(Script) => trial' = trial + 1 /\ step' = 1
    BY <1>5, <2>1, Advanced
  <2>3. step \in 1 .. Len(Script) /\ Len(Script) \in 1 .. 8
    BY ScriptPlaces DEF Types
  <2>4. ByProfile' /\ Contained'
    BY <1>1, <1>5
  <2>5. CASE Profile \in {"N0", "N6R"}
    BY <1>1, <1>5, <2>1, <2>2, <2>3, <2>4, <2>5
  <2>6. CASE Profile = "N3"
    <3>1. Len(Script) = 7 /\ step \notin {1, 6}
      BY <1>5, <2>6, ScriptPlaces
    <3>. QED  BY <1>1, <1>5, <2>1, <2>2, <2>3, <2>4, <2>6, <3>1
  <2>7. CASE Profile = "N6"
    <3>1. Len(Script) = 8 /\ step \notin {1, 6, 8}
      BY <1>5, <2>7, ScriptPlaces
    <3>. QED  BY <1>1, <1>5, <2>1, <2>2, <2>3, <2>4, <2>7, <3>1
  <2>8. CASE Profile \notin {"N0", "N3", "N6", "N6R"}
    <3>1. Len(Script) = 6 /\ step \notin {1, 3, 5}
      BY <1>5, <2>8, ScriptPlaces
    <3>. QED  BY <1>1, <1>5, <2>1, <2>2, <2>3, <2>4, <2>8, <3>1
  <2>. QED  BY <2>5, <2>6, <2>7, <2>8
<1>. QED  BY <1>2, <1>3, <1>4, <1>5

\* The inductive step: one step per action that touches the fault, its log or a
\* process beside the script.
LEMMA ContainedStep == IInv /\ [Next]_vars => IInv'
<1> SUFFICES ASSUME IInv, [Next]_vars PROVE IInv'
  OBVIOUS
<1> USE DEF IInv, ByProfile, ByPlace, NoFaultHere, Contained
<1>1. Types'
  BY TypesStep
<1>2. Profile' = Profile
  BY DEF Profile, Next, vars, Clean, Before, Start, StartMisread, Stop, StopTransport, After, StepFails, StepRefuses,
         LaunchPulse, PulseArms, PulseSeesDrop, PulseFinishes, PulseFails, PulseFailsToArm, AwaitArmed, WaitPulse, Listen,
         ControllerSettles, ControllerDisarms, ControllerFails, WaitController, LaunchDevice, OwnerFails, CallReturns,
         OwnerServed, DeviceReturns, DeviceGivesUp, Verify, KillProcesses, StrayArms, RemoveNetem, TearDown, TearDownFails, Cleaning, Ended, RowWritten, PacketDropped
<1>3. CASE Clean
  <2>1. trial \in Trials /\ step = 1 /\ trial' = trial /\ step' = 2
    BY <1>3, Advanced, ScriptPlaces DEF Clean, Doing
  <2>2. ~Removed'
    BY <1>3, FreshLogs DEF Clean, Removed
  <2>. QED  BY <1>1, <1>2, <1>3, <2>1, <2>2 DEF Clean, Doing
<1>4. CASE Start
  <2>1. trial \in Trials /\ step = 3 /\ Profile \notin {"N0", "N3", "N6R"} /\ job = "running"
    BY <1>4, ScriptPlaces DEF Start, Doing
  <2>2. trial' = trial /\ step' = 4
    <3>1. Advance /\ UNCHANGED instance
      BY <1>4 DEF Start
    <3>2. Types /\ Len(Script) \in 6 .. 8 /\ 3 < Len(Script)
      <4>1. Types
        OBVIOUS
      <4>. QED  BY <2>1, <4>1, ScriptLengths
    <3>3. step < Len(Script) => trial' = trial /\ step' = step + 1
      BY <2>1, <3>1, <3>2, Advanced
    <3>. QED  BY <2>1, <3>2, <3>3
  <2>3. ~Removed'
    BY <1>4, FreshLogs DEF Start, Removed
  <2>. QED  BY <1>1, <1>2, <1>4, <2>1, <2>2, <2>3 DEF Start
<1>5. CASE StartMisread
  <2>1. trial \in Trials /\ step = 3 /\ Profile \notin {"N0", "N3", "N6R"} /\ Removed' = Removed
    BY <1>5, ScriptPlaces DEF StartMisread, Doing, Removed
  <2>. QED  BY <1>1, <1>2, <1>5, <2>1 DEF StartMisread, Doing
<1>6. CASE Stop \/ StopTransport
  <2>1. trial \in Trials /\ step \notin 1 .. 3 /\ job = "running"
    BY <1>6, ScriptPlaces DEF Stop, StopTransport, Doing
  <2>2. step' \notin 2 .. 3 /\ pulse' = pulse /\ controller' = controller /\ fault' = "off" /\ job' = job
    BY <1>6, <2>1, Advanced, ScriptPlaces DEF Stop, StopTransport, FinishFault, Types
  <2>3. /\ step < Len(Script) => trial' = trial /\ step' = step + 1
        /\ step = Len(Script) => trial' = trial + 1 /\ step' = 1
    BY <1>6, <2>1, Advanced DEF Stop, StopTransport
  <2>. QED  BY <1>1, <1>2, <1>6, <2>1, <2>2, <2>3, ScriptPlaces DEF Stop, StopTransport, Doing, Types
<1>7. CASE LaunchPulse
  <2>1. trial \in Trials /\ step = 3 /\ Profile = "N3" /\ trial' = trial /\ step' = 4 /\ job = "running"
    BY <1>7, Advanced, ScriptPlaces DEF LaunchPulse, Doing
  <2>. QED  BY <1>1, <1>2, <1>7, <2>1 DEF LaunchPulse, Removed
<1>8. CASE PulseArms
  <2>1. pulse # "none" /\ Profile = "N3" /\ ~Removed'
    BY <1>8, FreshLogs DEF PulseArms, Removed
  <2>. QED  BY <1>1, <1>2, <1>8, <2>1 DEF PulseArms
<1>9. CASE PulseSeesDrop
  <2>1. Removed' => Removed
    BY <1>9, LogGrows DEF PulseSeesDrop, Removed, Types, Events
  <2>. QED  BY <1>1, <1>2, <1>9, <2>1 DEF PulseSeesDrop
<1>10. CASE PulseFinishes
  BY <1>1, <1>2, <1>10 DEF PulseFinishes, FinishFault
<1>11. CASE PulseFails \/ PulseFailsToArm
  BY <1>1, <1>2, <1>11 DEF PulseFails, PulseFailsToArm, Removed
<1>12. CASE WaitPulse
  <2>1. trial \in Trials /\ step = 6 /\ job = "running" /\ Profile = "N3" /\ fault = "off"
    BY <1>12, ScriptPlaces DEF WaitPulse, Doing
  <2>2. trial' = trial /\ step' = 7
    <3>1. Advance /\ UNCHANGED instance
      BY <1>12 DEF WaitPulse
    <3>2. Types /\ Len(Script) \in 6 .. 8 /\ 6 < Len(Script)
      <4>1. Types
        OBVIOUS
      <4>. QED  BY <2>1, <4>1, ScriptLengths
    <3>3. step < Len(Script) => trial' = trial /\ step' = step + 1
      BY <2>1, <3>1, <3>2, Advanced
    <3>. QED  BY <2>1, <3>2, <3>3
  <2>3. Removed' = Removed
    BY <1>12 DEF WaitPulse, Removed
  <2>. QED  BY <1>1, <1>2, <1>12, <2>1, <2>2, <2>3 DEF WaitPulse
<1>13. CASE Listen
  <2>1. trial \in Trials /\ step = 4 /\ Profile = "N6" /\ job = "running"
    BY <1>13, ScriptPlaces DEF Listen, Doing
  <2>2. trial' = trial /\ step' = 5
    <3>1. Advance /\ UNCHANGED instance
      BY <1>13 DEF Listen
    <3>2. Types /\ Len(Script) \in 6 .. 8 /\ 4 < Len(Script)
      <4>1. Types
        OBVIOUS
      <4>2. Len(Script) = 8
        BY <2>1, <4>1, ScriptLengths, Zenon
      <4>. QED  BY <4>1, <4>2
    <3>3. step < Len(Script) => trial' = trial /\ step' = step + 1
      BY <2>1, <3>1, <3>2, Advanced
    <3>. QED  BY <2>1, <3>2, <3>3
  <2>3. Removed' = Removed
    BY <1>13 DEF Listen, Removed
  <2>. QED  BY <1>1, <1>2, <1>13, <2>1, <2>2, <2>3 DEF Listen
<1>14. CASE ControllerSettles \/ ControllerFails
  BY <1>1, <1>2, <1>14 DEF ControllerSettles, ControllerFails, Removed
<1>15. CASE ControllerDisarms
  BY <1>1, <1>2, <1>15 DEF ControllerDisarms
<1>16. CASE WaitController
  <2>1. trial \in Trials /\ step = 6 /\ job = "running" /\ Profile = "N6"
    BY <1>16, ScriptPlaces DEF WaitController, Doing
  <2>2. trial' = trial /\ step' = 7
    <3>1. Advance /\ UNCHANGED instance
      BY <1>16 DEF WaitController
    <3>2. Types /\ Len(Script) \in 6 .. 8 /\ 6 < Len(Script)
      <4>1. Types
        OBVIOUS
      <4>2. Len(Script) = 8
        BY <2>1, <4>1, ScriptLengths, Zenon
      <4>. QED  BY <4>1, <4>2
    <3>3. step < Len(Script) => trial' = trial /\ step' = step + 1
      BY <2>1, <3>1, <3>2, Advanced
    <3>. QED  BY <2>1, <3>2, <3>3
  <2>3. Removed' = Removed
    BY <1>16 DEF WaitController, Removed
  <2>. QED  BY <1>1, <1>2, <1>16, <2>1, <2>2, <2>3 DEF WaitController
<1>17. CASE OwnerFails
  <2>1. Removed' => Removed
    BY <1>17, LogGrows DEF OwnerFails, Removed, Types, Events
  <2>. QED  BY <1>1, <1>2, <1>17, <2>1 DEF OwnerFails
<1>18. CASE KillProcesses \/ StrayArms \/ RemoveNetem \/ TearDown \/ TearDownFails
  <2>1. Removed' = Removed
    BY <1>18 DEF KillProcesses, StrayArms, RemoveNetem, TearDown, TearDownFails, Removed
  <2>2. CASE KillProcesses
    BY <1>1, <1>2, <2>1, <2>2 DEF KillProcesses, Cleaning
  <2>3. CASE StrayArms
    BY <1>1, <1>2, <2>1, <2>3 DEF StrayArms
  <2>4. CASE RemoveNetem
    BY <1>1, <1>2, <2>1, <2>4 DEF RemoveNetem, Cleaning
  <2>5. CASE TearDown
    BY <1>1, <1>2, <2>1, <2>5 DEF TearDown, Cleaning
  <2>6. CASE TearDownFails
    BY <1>1, <1>2, <2>1, <2>6 DEF TearDownFails, Cleaning
  <2>. QED  BY <1>18, <2>2, <2>3, <2>4, <2>5, <2>6
<1>19. CASE Before \/ After \/ AwaitArmed \/ DeviceReturns
  <2>1. Doing(Script[step]) /\ Script[step] \in {"BEFORE", "AFTER", "AWAIT_ARMED", "DEVICE"}
    BY <1>19 DEF Before, After, AwaitArmed, DeviceReturns, Doing
  <2>2. Advance /\ UNCHANGED <<instance, cleanup, job, harnessVars>>
    BY <1>19 DEF Before, After, AwaitArmed, DeviceReturns
  <2>. QED  BY <1>1, <2>1, <2>2, QuietStep DEF harnessVars
<1>20. CASE \/ RowWritten \/ PacketDropped \/ StepFails \/ StepRefuses \/ LaunchDevice \/ CallReturns \/ OwnerServed
            \/ DeviceGivesUp \/ Verify \/ Ended \/ UNCHANGED vars
  <2>1. /\ UNCHANGED <<instance, trial, step, fault, cleanup, pulse, controller, log>>
        /\ \/ job' = job
           \/ job = "running" /\ job' = "failed"
           \/ job = "running" /\ job' = "verified" /\ trial \notin Trials
    BY <1>20 DEF RowWritten, PacketDropped, StepFails, StepRefuses, Refuses, LaunchDevice, CallReturns, OwnerServed,
                 DeviceGivesUp, Verify, Ended, Doing, harnessVars, vars
  <2>. QED  BY <1>1, <2>1, QuietStep
<1>. QED
  BY <1>3, <1>4, <1>5, <1>6, <1>7, <1>8, <1>9, <1>10, <1>11, <1>12, <1>13, <1>14, <1>15, <1>16, <1>17, <1>18, <1>19,
     <1>20 DEF Next

\* Nothing is armed when a job begins.
LEMMA InitIsContained == Init => IInv
<1> SUFFICES ASSUME Init PROVE IInv
  OBVIOUS
<1>1. Profile \in Profiles
  BY InstancesAssumption DEF Init, Profile, InstanceRecord
<1>2. Len(Script) \in Nat /\ Len(Script) >= 1
  BY <1>1 DEF Script, NetworkScript, Profiles
<1>3. Types
  BY <1>2, Logs DEF Init, Types
<1>4. ~Removed
  BY FreshLogs DEF Init, Removed
<1>. QED  BY <1>3, <1>4 DEF Init, IInv, ByProfile, ByPlace, NoFaultHere, Contained, Trials

\* What the invariant says of the place where the trace is counted.
LEMMA NothingArmedBefore ==
    ASSUME IInv
    PROVE  FaultStaysInItsTrial
<1>1. ASSUME Doing("BEFORE") PROVE fault = "off" /\ pulse = "none"
  <2>1. job = "running" /\ trial \in Trials /\ (Profile = "N6R" \/ (step = 2 /\ Profile # "N0"))
    BY <1>1, ScriptPlaces DEF IInv, Doing
  <2>. QED  BY <2>1 DEF IInv, ByPlace, ByProfile
<1>2. PulseAlive => pulse # "none"
  BY DEF PulseAlive
<1>3. job \in {"ok", "red"} => ~PulseAlive
  BY DEF IInv, Contained, PulseAlive
<1>4. job = "red" /\ fault = "armed" => cleanup = "ignored"
  BY DEF IInv, Contained
<1>. QED  BY <1>1, <1>2, <1>3, <1>4 DEF IInv, Contained, Removed, FaultStaysInItsTrial

\* The fault and the pulse of a trial are gone when the next one's trace is
\* counted, and what the harness recorded as removed is (its finish()).  No pulse
\* outlives the job, no fault a job that was verified, and none one that failed,
\* at whichever step, unless cleanup() could not take the link down.
THEOREM FaultIsContained == Spec => []FaultStaysInItsTrial
<1>1. Spec => []IInv
  BY InitIsContained, ContainedStep, PTL DEF Spec
<1>. QED  BY <1>1, NothingArmedBefore, PTL

\* What holds of 0, and of n + 1 whenever it holds of n, holds of every number.
LEMMA Induction ==
    ASSUME NEW S, 0 \in S, \A n \in Nat : n \in S => n + 1 \in S
    PROVE  Nat \subseteq S
<1> SUFFICES ASSUME Nat \ S # {} PROVE FALSE
  OBVIOUS
<1> DEFINE Less == OpToRel(<, Nat)
<1>1. \A x, y \in Nat : x < y => <<x, y>> \in Less
  BY DEF OpToRel
<1>2. IsWellFoundedOn(Less, Nat)
  BY NatLessThanWellFounded
<1> HIDE DEF Less
<1>3. PICK x \in Nat \ S : \A y \in Nat \ S : <<y, x>> \notin Less
  <2>1. Nat \ S \subseteq Nat
    OBVIOUS
  <2>. QED  BY <1>2, <2>1, WFMin
<1>4. x # 0 /\ x - 1 \in Nat /\ x - 1 < x /\ x - 1 + 1 = x
  BY <1>3
<1>5. x - 1 \in S
  BY <1>1, <1>3, <1>4
<1>. QED  BY <1>3, <1>4, <1>5

-------------------------------------------------------------------------------
(* Sums *)

\* f adds up the first k numbers of s.
AddsUp(f, s, k) ==
    \A i \in 0 .. k : f[i] \in Nat /\ f[i] = (IF i = 0 THEN 0 ELSE f[i - 1] + s[i])

\* Some function does.
LEMMA SumExists ==
    ASSUME NEW s \in Seq(Nat)
    PROVE  \A k \in 0 .. Len(s) : \E f : f \in [0 .. k -> Nat] /\ AddsUp(f, s, k)
<1> DEFINE S == {k \in Nat : k <= Len(s) => \E f : f \in [0 .. k -> Nat] /\ AddsUp(f, s, k)}
<1>1. 0 \in S
  <2>1. [i \in 0 .. 0 |-> 0] \in [0 .. 0 -> Nat] /\ AddsUp([i \in 0 .. 0 |-> 0], s, 0)
    BY DEF AddsUp
  <2>. QED  BY <2>1
<1>2. ASSUME NEW k \in Nat, k \in S, k + 1 <= Len(s)
      PROVE  \E f : f \in [0 .. k + 1 -> Nat] /\ AddsUp(f, s, k + 1)
  <2>1. PICK f : f \in [0 .. k -> Nat] /\ AddsUp(f, s, k)
    BY <1>2
  <2>2. PICK g : g = [i \in 0 .. k + 1 |-> IF i = k + 1 THEN f[k] + s[k + 1] ELSE f[i]]
    OBVIOUS
  <2>3. s[k + 1] \in Nat /\ f[k] \in Nat
    BY <1>2, <2>1
  <2>4. g \in [0 .. k + 1 -> Nat]
    BY <2>1, <2>2, <2>3
  <2>5. ASSUME NEW i \in 0 .. k + 1
        PROVE  g[i] \in Nat /\ g[i] = (IF i = 0 THEN 0 ELSE g[i - 1] + s[i])
    <3>1. CASE i = k + 1
      BY <2>2, <2>3, <3>1
    <3>2. CASE i # k + 1
      <4>1. i \in 0 .. k /\ g[i] = f[i] /\ (i # 0 => i - 1 \in 0 .. k /\ g[i - 1] = f[i - 1])
        BY <2>2, <3>2
      <4>. QED  BY <2>1, <4>1 DEF AddsUp
    <3>. QED  BY <3>1, <3>2
  <2>. QED  BY <2>4, <2>5 DEF AddsUp
<1>3. ASSUME NEW k \in Nat, k \in S PROVE k + 1 \in S
  <2>1. k + 1 \in Nat
    OBVIOUS
  <2>2. k + 1 <= Len(s) => \E f : f \in [0 .. k + 1 -> Nat] /\ AddsUp(f, s, k + 1)
    BY <1>2, <1>3
  <2>. QED  BY <2>1, <2>2
<1> HIDE DEF S
<1>4. Nat \subseteq S
  BY <1>1, <1>3, Induction
<1>. QED  BY <1>4 DEF S

\* Two that do agree.
LEMMA SumUnique ==
    ASSUME NEW s \in Seq(Nat), NEW n \in Nat, n <= Len(s), NEW f, NEW g, AddsUp(f, s, n), AddsUp(g, s, n)
    PROVE  f[n] = g[n]
<1> DEFINE S == {k \in Nat : k <= n => f[k] = g[k]}
<1>1. 0 \in S
  BY DEF AddsUp
<1>2. ASSUME NEW k \in Nat, k \in S PROVE k + 1 \in S
  <2> SUFFICES ASSUME k + 1 <= n PROVE f[k + 1] = g[k + 1]
    OBVIOUS
  <2>1. f[k] = g[k] /\ k + 1 \in 0 .. n /\ k + 1 # 0 /\ k + 1 - 1 = k
    BY <1>2
  <2>2. f[k + 1] = f[k] + s[k + 1] /\ g[k + 1] = g[k] + s[k + 1]
    BY <2>1 DEF AddsUp
  <2>. QED  BY <2>1, <2>2
<1> HIDE DEF S
<1>3. Nat \subseteq S
  BY <1>1, <1>2, Induction
<1>. QED  BY <1>3 DEF S

\* SumOf() is where such a function ends.
LEMMA SumIs ==
    ASSUME NEW s \in Seq(Nat), NEW f, AddsUp(f, s, Len(s))
    PROVE  SumOf(s) = f[Len(s)]
<1> DEFINE Rec(g) == g = [i \in 0 .. Len(s) |-> IF i = 0 THEN 0 ELSE g[i - 1] + s[i]]
           h == CHOOSE g : Rec(g)
<1>1. PICK g : g \in [0 .. Len(s) -> Nat] /\ AddsUp(g, s, Len(s))
  BY SumExists
<1>2. Rec(g)
  BY <1>1 DEF AddsUp
<1>3. Rec(h)
  BY <1>2
<1>4. SumOf(s) = h[Len(s)]
  BY DEF SumOf
<1> HIDE DEF h
<1>5. AddsUp(h, s, Len(s))
  <2> DEFINE S == {k \in Nat : k <= Len(s) => h[k] \in Nat}
  <2>0. \A i \in 0 .. Len(s) : h[i] = (IF i = 0 THEN 0 ELSE h[i - 1] + s[i])
    BY <1>3
  <2>1. 0 \in S
    BY <2>0
  <2>2. ASSUME NEW k \in Nat, k \in S PROVE k + 1 \in S
    <3> SUFFICES ASSUME k + 1 <= Len(s) PROVE h[k + 1] \in Nat
      OBVIOUS
    <3>1. h[k] \in Nat /\ k + 1 \in 0 .. Len(s) /\ k + 1 # 0 /\ k + 1 - 1 = k /\ s[k + 1] \in Nat
      BY <2>2
    <3>. QED  BY <2>0, <3>1
  <2> HIDE DEF S
  <2>3. Nat \subseteq S
    BY <2>1, <2>2, Induction
  <2>. QED  BY <2>0, <2>3 DEF S, AddsUp
<1>. QED  BY <1>4, <1>5, SumUnique

\* The sum of nothing, of one more number, and that it is a number.
LEMMA Sums ==
    /\ SumOf(<< >>) = 0
    /\ \A s \in Seq(Nat) : SumOf(s) \in Nat
    /\ \A s \in Seq(Nat), x \in Nat : SumOf(Append(s, x)) = SumOf(s) + x
<1>1. SumOf(<< >>) = 0
  <2>1. << >> \in Seq(Nat) /\ Len(<< >>) = 0 /\ 0 \in 0 .. Len(<< >>)
    OBVIOUS
  <2>2. PICK f : f \in [0 .. 0 -> Nat] /\ AddsUp(f, << >>, 0)
    BY <2>1, SumExists
  <2>. QED  BY <2>1, <2>2, SumIs DEF AddsUp
<1>2. ASSUME NEW s \in Seq(Nat), NEW x \in Nat
      PROVE  SumOf(s) \in Nat /\ SumOf(Append(s, x)) = SumOf(s) + x
  <2>1. PICK f : f \in [0 .. Len(s) + 1 -> Nat] /\ AddsUp(f, Append(s, x), Len(s) + 1)
    <3>1. Append(s, x) \in Seq(Nat) /\ Len(s) + 1 \in 0 .. Len(Append(s, x))
      OBVIOUS
    <3>. QED  BY <3>1, SumExists
  <2>2. SumOf(Append(s, x)) = f[Len(s) + 1]
    <3>1. Append(s, x) \in Seq(Nat) /\ Len(Append(s, x)) = Len(s) + 1
      OBVIOUS
    <3>. QED  BY <2>1, <3>1, SumIs
  <2>3. AddsUp(f, s, Len(s))
    <3>1. \A i \in 1 .. Len(s) : Append(s, x)[i] = s[i]
      OBVIOUS
    <3>. QED  BY <2>1, <3>1 DEF AddsUp
  <2>4. SumOf(s) = f[Len(s)]
    BY <2>3, SumIs
  <2>5. f[Len(s) + 1] = f[Len(s)] + x /\ f[Len(s)] \in Nat
    <3>1. Append(s, x)[Len(s) + 1] = x /\ Len(s) + 1 # 0 /\ Len(s) + 1 - 1 = Len(s)
      OBVIOUS
    <3>2. Len(s) + 1 \in 0 .. Len(s) + 1 /\ Len(s) \in 0 .. Len(s) + 1
      OBVIOUS
    <3>3. f[Len(s) + 1] = f[Len(s) + 1 - 1] + Append(s, x)[Len(s) + 1]
      BY ONLY <2>1, <3>1, <3>2 DEF AddsUp
    <3>. QED  BY <2>1, <3>1, <3>2, <3>3
  <2>. QED  BY <2>2, <2>4, <2>5
<1>. QED  BY <1>1, <1>2
-------------------------------------------------------------------------------
(* The elements of a sequence that are in a set *)

\* f[i] are those among the first i elements of s, for i up to k.
Chooses(f, s, S, k) ==
    \A i \in 0 .. k :
        f[i] = (IF i = 0 THEN << >> ELSE IF s[i] \in S THEN Append(f[i - 1], s[i]) ELSE f[i - 1])

PlacesIn(s, S, k) == {i \in 1 .. k : s[i] \in S}

\* Some function chooses them.
LEMMA ChoiceExists ==
    ASSUME NEW T, NEW s \in Seq(T), NEW S
    PROVE  \A k \in 0 .. Len(s) : \E f : f \in [0 .. k -> Seq(T)] /\ Chooses(f, s, S, k)
<1> DEFINE N == {k \in Nat : k <= Len(s) => \E f : f \in [0 .. k -> Seq(T)] /\ Chooses(f, s, S, k)}
<1>1. 0 \in N
  <2>1. << >> \in Seq(T)
    OBVIOUS
  <2>2. [i \in 0 .. 0 |-> << >>] \in [0 .. 0 -> Seq(T)] /\ Chooses([i \in 0 .. 0 |-> << >>], s, S, 0)
    BY <2>1 DEF Chooses
  <2>. QED  BY <2>2
<1>2. ASSUME NEW k \in Nat, k \in N, k + 1 <= Len(s)
      PROVE  \E f : f \in [0 .. k + 1 -> Seq(T)] /\ Chooses(f, s, S, k + 1)
  <2>1. PICK f : f \in [0 .. k -> Seq(T)] /\ Chooses(f, s, S, k)
    BY <1>2
  <2>2. PICK last : last = (IF s[k + 1] \in S THEN Append(f[k], s[k + 1]) ELSE f[k])
    OBVIOUS
  <2>3. s[k + 1] \in T /\ f[k] \in Seq(T)
    BY <1>2, <2>1
  <2>4. last \in Seq(T)
    BY <2>2, <2>3
  <2>5. PICK g : g = [i \in 0 .. k + 1 |-> IF i = k + 1 THEN last ELSE f[i]]
    OBVIOUS
  <2>6. g \in [0 .. k + 1 -> Seq(T)]
    BY <2>1, <2>4, <2>5
  <2>7. ASSUME NEW i \in 0 .. k + 1
        PROVE  g[i] = (IF i = 0 THEN << >> ELSE IF s[i] \in S THEN Append(g[i - 1], s[i]) ELSE g[i - 1])
    <3>1. CASE i = k + 1
      <4>1. g[i] = last /\ g[i - 1] = f[k] /\ i # 0
        BY <2>5, <3>1
      <4>. QED  BY <2>2, <3>1, <4>1
    <3>2. CASE i # k + 1
      <4>1. i \in 0 .. k /\ g[i] = f[i] /\ (i # 0 => i - 1 \in 0 .. k /\ g[i - 1] = f[i - 1])
        BY <2>5, <3>2
      <4>. QED  BY <2>1, <4>1 DEF Chooses
    <3>. QED  BY <3>1, <3>2
  <2>. QED  BY <2>6, <2>7 DEF Chooses
<1>3. ASSUME NEW k \in Nat, k \in N PROVE k + 1 \in N
  <2>1. k + 1 \in Nat
    OBVIOUS
  <2>2. k + 1 <= Len(s) => \E f : f \in [0 .. k + 1 -> Seq(T)] /\ Chooses(f, s, S, k + 1)
    BY <1>2, <1>3
  <2>. QED  BY <2>1, <2>2
<1> HIDE DEF N
<1>4. Nat \subseteq N
  BY <1>1, <1>3, Induction
<1>. QED  BY <1>4 DEF N

\* The sequence a holds the first k elements of s that are in S.
Chosen(a, s, S, T, k) ==
    /\ a \in Seq(S \cap T)
    /\ \A i \in PlacesIn(s, S, k) : \E j \in DOMAIN a : a[j] = s[i]
    /\ \A j \in DOMAIN a : \E i \in PlacesIn(s, S, k) : a[j] = s[i]
    /\ Len(a) = Cardinality(PlacesIn(s, S, k)) /\ IsFiniteSet(PlacesIn(s, S, k))

\* One step of the choice.
LEMMA ChoiceStep ==
    ASSUME NEW T, NEW s \in Seq(T), NEW S, NEW k \in Nat, k + 1 <= Len(s), NEW a, Chosen(a, s, S, T, k)
    PROVE  Chosen(IF s[k + 1] \in S THEN Append(a, s[k + 1]) ELSE a, s, S, T, k + 1)
<1> DEFINE b == IF s[k + 1] \in S THEN Append(a, s[k + 1]) ELSE a
<1>0. /\ a \in Seq(S \cap T)
      /\ \A i \in PlacesIn(s, S, k) : \E j \in DOMAIN a : a[j] = s[i]
      /\ \A j \in DOMAIN a : \E i \in PlacesIn(s, S, k) : a[j] = s[i]
      /\ Len(a) = Cardinality(PlacesIn(s, S, k)) /\ IsFiniteSet(PlacesIn(s, S, k))
  BY DEF Chosen
<1>1. CASE s[k + 1] \notin S
  <2>1. PlacesIn(s, S, k + 1) = PlacesIn(s, S, k) /\ b = a
    BY <1>1 DEF PlacesIn
  <2>. QED  BY <2>1 DEF Chosen
<1>2. CASE s[k + 1] \in S
  <2>1. PlacesIn(s, S, k + 1) = PlacesIn(s, S, k) \cup {k + 1} /\ k + 1 \notin PlacesIn(s, S, k)
    BY <1>2 DEF PlacesIn
  <2>2. s[k + 1] \in S \cap T /\ b = Append(a, s[k + 1])
    BY <1>2
  <2>3. b \in Seq(S \cap T) /\ Len(b) = Len(a) + 1 /\ DOMAIN a = 1 .. Len(a) /\ DOMAIN b = 1 .. Len(a) + 1
    BY <1>0, <2>2
  <2>4. b[Len(a) + 1] = s[k + 1] /\ \A j \in DOMAIN a : b[j] = a[j]
    BY <1>0, <2>2
  <2>5. IsFiniteSet(PlacesIn(s, S, k + 1)) /\ Cardinality(PlacesIn(s, S, k + 1)) = Cardinality(PlacesIn(s, S, k)) + 1
    BY <1>0, <2>1, FS_AddElement
  <2> HIDE DEF b
  <2>6. ASSUME NEW i \in PlacesIn(s, S, k + 1) PROVE \E j \in DOMAIN b : b[j] = s[i]
    <3>1. CASE i = k + 1
      <4>1. Len(a) + 1 \in DOMAIN b
        BY <1>0, <2>3
      <4>. QED  BY <2>4, <3>1, <4>1
    <3>2. CASE i \in PlacesIn(s, S, k)
      <4>1. PICK j \in DOMAIN a : a[j] = s[i]
        BY <1>0, <3>2
      <4>2. j \in DOMAIN b /\ b[j] = a[j]
        BY <1>0, <2>3, <2>4
      <4>. QED  BY <4>1, <4>2
    <3>. QED  BY <2>1, <3>1, <3>2
  <2>7. ASSUME NEW j \in DOMAIN b PROVE \E i \in PlacesIn(s, S, k + 1) : b[j] = s[i]
    <3>1. CASE j = Len(a) + 1
      BY <2>1, <2>4, <3>1
    <3>2. CASE j \in DOMAIN a
      <4>1. PICK i \in PlacesIn(s, S, k) : a[j] = s[i]
        BY <1>0, <3>2
      <4>. QED  BY <2>1, <2>4, <3>2, <4>1
    <3>. QED  BY <1>0, <2>3, <3>1, <3>2
  <2>8. Chosen(b, s, S, T, k + 1)
    BY <1>0, <2>3, <2>5, <2>6, <2>7 DEF Chosen
  <2>. QED  BY <2>8 DEF b
<1>. QED  BY <1>1, <1>2

\* What Among() returns: elements of both, each of them, as many as there are.
LEMMA AmongIs ==
    ASSUME NEW T, NEW s \in Seq(T), NEW S
    PROVE  /\ Among(s, S) \in Seq(S \cap T)
           /\ \A i \in DOMAIN s : s[i] \in S => \E j \in DOMAIN Among(s, S) : Among(s, S)[j] = s[i]
           /\ \A j \in DOMAIN Among(s, S) : \E i \in DOMAIN s : s[i] \in S /\ Among(s, S)[j] = s[i]
           /\ Len(Among(s, S)) = Cardinality({i \in DOMAIN s : s[i] \in S})
<1> DEFINE Rec(g) == g = [i \in 0 .. Len(s) |-> IF i = 0 THEN << >>
                            ELSE IF s[i] \in S THEN Append(g[i - 1], s[i]) ELSE g[i - 1]]
           h == CHOOSE g : Rec(g)
           N == {k \in Nat : k <= Len(s) => Chosen(h[k], s, S, T, k)}
<1>1. PICK g : g \in [0 .. Len(s) -> Seq(T)] /\ Chooses(g, s, S, Len(s))
  <2>1. Len(s) \in 0 .. Len(s)
    OBVIOUS
  <2>. QED  BY <2>1, ChoiceExists
<1>2. Rec(g)
  BY <1>1 DEF Chooses
<1>3. Rec(h)
  BY <1>2
<1>4. Among(s, S) = h[Len(s)]
  BY DEF Among
<1> HIDE DEF h
<1>5. \A i \in 0 .. Len(s) : h[i] = (IF i = 0 THEN << >> ELSE IF s[i] \in S THEN Append(h[i - 1], s[i]) ELSE h[i - 1])
  BY <1>3
<1>6. 0 \in N
  <2>1. PlacesIn(s, S, 0) = {} /\ h[0] = << >>
    BY <1>5 DEF PlacesIn
  <2>2. IsFiniteSet({}) /\ Cardinality({}) = 0
    BY FS_EmptySet
  <2>3. << >> \in Seq(S \cap T) /\ Len(<< >>) = 0 /\ DOMAIN << >> = {}
    OBVIOUS
  <2>. QED  BY <2>1, <2>2, <2>3 DEF Chosen
<1>7. ASSUME NEW k \in Nat, k \in N PROVE k + 1 \in N
  <2> SUFFICES ASSUME k + 1 <= Len(s) PROVE Chosen(h[k + 1], s, S, T, k + 1)
    OBVIOUS
  <2>1. Chosen(h[k], s, S, T, k)
    BY <1>7
  <2>2. k + 1 \in 0 .. Len(s) /\ k + 1 # 0 /\ k + 1 - 1 = k
    BY <1>7
  <2>3. h[k + 1] = (IF s[k + 1] \in S THEN Append(h[k], s[k + 1]) ELSE h[k])
    BY <1>5, <2>2
  <2>. QED  BY <2>1, <2>3, ChoiceStep
<1> HIDE DEF N
<1>8. Nat \subseteq N
  BY <1>6, <1>7, Induction
<1>9. Chosen(h[Len(s)], s, S, T, Len(s))
  BY <1>8 DEF N
<1>10. PlacesIn(s, S, Len(s)) = {i \in DOMAIN s : s[i] \in S} /\ DOMAIN s = 1 .. Len(s)
  BY DEF PlacesIn
<1>11. Chosen(Among(s, S), s, S, T, Len(s))
  BY <1>4, <1>9
<1>. QED  BY <1>10, <1>11 DEF Chosen

\* What the verifier looked at.
LEMMA EvidenceIs ==
    /\ Evidence.plan = Plan /\ Evidence.scenario = FrozenScenario(Profile) /\ Evidence.inputs = FrozenInputs
    /\ Evidence.raws = [t \in Trials |-> RawSaying(TrueRaw(t), IF t = 2 THEN instance.misreport ELSE "none")]
    /\ Profile \in HarnessProfiles => Evidence.harnesses = [t \in Trials |-> HarnessRecord(t)]
    /\ Profile = "N6" => Evidence.triggers = [t \in Trials |-> TriggerRecord(t)]
    /\ Evidence.before = before /\ Evidence.after = after
    /\ Evidence.trace = [i \in DOMAIN trace |-> TraceRow(trace[i])]
    /\ Evidence.environment = Environment /\ Evidence.readback = Readback
BY DEF Evidence

\* What a verified experiment has passed, whichever its verifier.
LEMMA Judged ==
    ASSUME Profile \in Profiles, Verified(Evidence, Profile)
    PROVE  /\ Profile = "N0" => VerifyN0(Evidence)
           /\ Profile = "N6" => VerifyReset(Evidence)
           /\ Profile = "N6R" => VerifyRoute(Evidence)
           /\ Profile \notin {"N0", "N6", "N6R"} => VerifyNetwork(Evidence, Profile)
           /\ Profile # "N0" => PartitionsOk(Evidence)
           /\ ProcessesDistinct(Evidence) /\ Conclusive(Evidence, FinalizedRows(Evidence, Profile))
<1>1. CASE Profile = "N0"
  BY <1>1 DEF Verified, FinalizedRows, VerifyN0
<1>2. CASE Profile = "N6"
  BY <1>2 DEF Verified, FinalizedRows, VerifyReset
<1>3. CASE Profile = "N6R"
  BY <1>3 DEF Verified, FinalizedRows, VerifyRoute
<1>4. CASE Profile \notin {"N0", "N6", "N6R"}
  BY <1>4 DEF Verified, FinalizedRows, VerifyNetwork
<1>. QED  BY <1>1, <1>2, <1>3, <1>4

\* What it has passed of each raw document.
LEMMA RawsJudged ==
    ASSUME Profile \in Profiles, Verified(Evidence, Profile), NEW t \in Trials
    PROVE  /\ Profile = "N0" => CheckRawN0(Evidence.raws[t], Evidence.scenario, Evidence.plan, Schedule(Evidence)[t], Evidence.inputs)
           /\ Profile # "N0" => CheckRaw(Evidence.raws[t], Phase[Profile], Evidence.scenario, Evidence.plan,
                                         Schedule(Evidence)[t], Evidence.inputs, Profile = "N6R")
<1>1. CASE Profile = "N0"
  BY <1>1, Judged DEF VerifyN0
<1>2. CASE Profile = "N6"
  BY <1>2, Judged DEF VerifyReset, ResetTrialOk
<1>3. CASE Profile = "N6R"
  BY <1>3, Judged DEF VerifyRoute, RouteTrialOk
<1>4. CASE Profile \notin {"N0", "N6", "N6R"}
  BY <1>4, Judged DEF VerifyNetwork, NetworkTrialOk
<1>. QED  BY <1>1, <1>2, <1>3, <1>4

\* The parts of a raw document.
LEMMA RawIs ==
    ASSUME NEW t \in Trials
    PROVE  /\ TrueRaw(t).row = Row(t) /\ TrueRaw(t).proof = Proof(t)
           /\ {"row", "proof"} \subseteq DOMAIN TrueRaw(t)
BY DEF TrueRaw

-------------------------------------------------------------------------------
(* Misreports *)

\* What Present() returns.
LEMMA PresentIs ==
    ASSUME NEW s \in Seq(Nat \cup {Null})
    PROVE  /\ Present(s) \in Seq(Nat)
           /\ \A i \in DOMAIN s : s[i] # Null => \E j \in DOMAIN Present(s) : Present(s)[j] = s[i]
           /\ \A j \in DOMAIN Present(s) : \E i \in DOMAIN s : s[i] # Null /\ Present(s)[j] = s[i]
           /\ Len(Present(s)) = Cardinality({i \in DOMAIN s : s[i] # Null})
<1>1. PICK T, S, z : T = Nat \cup {Null} /\ S = Nat /\ z = s
  OBVIOUS
<1>2. \A i \in DOMAIN z : z[i] \in S <=> z[i] # Null
  BY <1>1 DEF Null
<1>3. z \in Seq(T)
  BY <1>1
<1>4. S \cap T = Nat /\ Present(z) = Among(z, S)
  BY <1>1 DEF Present
<1>5. {i \in DOMAIN z : z[i] \in S} = {i \in DOMAIN z : z[i] # Null}
  BY <1>2
<1>6. /\ Among(z, S) \in Seq(S \cap T)
      /\ \A i \in DOMAIN z : z[i] \in S => \E j \in DOMAIN Among(z, S) : Among(z, S)[j] = z[i]
      /\ \A j \in DOMAIN Among(z, S) : \E i \in DOMAIN z : z[i] \in S /\ Among(z, S)[j] = z[i]
      /\ Len(Among(z, S)) = Cardinality({i \in DOMAIN z : z[i] \in S})
  BY ONLY <1>3, AmongIs, ZenonT(40)
<1>7. /\ Present(z) \in Seq(Nat)
      /\ \A i \in DOMAIN z : z[i] # Null => \E j \in DOMAIN Present(z) : Present(z)[j] = z[i]
      /\ \A j \in DOMAIN Present(z) : \E i \in DOMAIN z : z[i] # Null /\ Present(z)[j] = z[i]
      /\ Len(Present(z)) = Cardinality({i \in DOMAIN z : z[i] # Null})
  BY ONLY <1>2, <1>4, <1>5, <1>6
<1>. QED  BY <1>1, <1>7

\* What each misreport puts in the document.
Saying(misreport) == RawSaying(TrueRaw(2), misreport)

LEMMA MisreportsSay ==
    /\ Saying("hash").proof.committed = "other"
    /\ Saying("warm").proof.storeEmpty = FALSE
    /\ Saying("session").proof.sessionFresh = FALSE
    /\ Saying("process").proof.process = 1
    /\ Saying("certified").row.recovery.visibility = "OBSERVABLE"
    /\ Saying("sample").row.performanceSampleEligible = TRUE
    /\ Saying("received").row.metrics.bytesReceived = ResourceLength + 1
    /\ Saying("received").proof = Proof(2)
    /\ Saying("early").proof.firstProgress = ChainStart
    /\ Saying("early").proof.attempts = Proof(2).attempts
    /\ Saying("jitter").proof.samples = <<JitterSample(1, Window(1))>>
    /\ Saying("jitter").proof.backoffs = Proof(2).backoffs
    /\ Saying("jitter").proof.attempts = Proof(2).attempts
    /\ Saying("epoch").proof.routeAfter = 1 + Proof(2).routeAfter
    /\ Saying("epoch").row = Row(2)
    /\ Saying("epoch").proof.permitEpochs = Proof(2).permitEpochs
    /\ Saying("backend").row.backendId = OtherBackend(Row(2).backendId)
    /\ Saying("version").row.backendVersion = "other"
    /\ Saying("version").row.backendId = Row(2).backendId
    /\ Saying("correlation").proof.correlated = <<Proof(2).attempts[Len(Proof(2).attempts)].correlation - 100>>
    /\ Saying("correlation").proof.attempts = Proof(2).attempts
    /\ Len(owners[2]) \in Nat /\ Len(owners[2]) > 1 =>
         /\ Saying("observation").row = Row(2)
         /\ Saying("observation").proof.failures[1].observation = "HTTP_STATUS"
         /\ DOMAIN Saying("observation").proof.failures = 1 .. Len(owners[2]) - 1
<1> DEFINE raw == TrueRaw(2)
<1>1. {"row", "proof"} \subseteq DOMAIN raw /\ raw.row = Row(2) /\ raw.proof = Proof(2)
  BY DEF TrueRaw
<1>2. {"committed", "storeEmpty", "sessionFresh", "process", "firstProgress", "attempts", "samples", "backoffs", "routeAfter",
       "permitEpochs", "correlated", "failures"} \subseteq DOMAIN raw.proof
  BY <1>1 DEF Proof
<1>3. {"recovery", "performanceSampleEligible", "metrics", "backendId", "backendVersion"} \subseteq DOMAIN raw.row
  BY <1>1 DEF Row
<1>4. "visibility" \in DOMAIN raw.row.recovery /\ "retries" \in DOMAIN raw.row.recovery
  BY <1>1 DEF Row
<1>5. "bytesReceived" \in DOMAIN raw.row.metrics /\ "firstByteUs" \in DOMAIN raw.row.metrics
  BY <1>1 DEF Row
<1>6. DOMAIN raw.proof.failures = 1 .. Len(owners[2]) - 1
  BY <1>1 DEF Proof
<1>61. \A i \in 1 .. Len(owners[2]) - 1 : "observation" \in DOMAIN raw.proof.failures[i]
  BY <1>1 DEF Proof
<1>62. \A m : Saying(m) = RawSaying(raw, m)
  BY DEF Saying
<1> HIDE DEF raw
<1>7. /\ RawSaying(raw, "hash").proof.committed = "other"
      /\ RawSaying(raw, "warm").proof.storeEmpty = FALSE
      /\ RawSaying(raw, "session").proof.sessionFresh = FALSE
      /\ RawSaying(raw, "process").proof.process = 1
  BY <1>1, <1>2 DEF RawSaying
<1>8. /\ RawSaying(raw, "certified").row.recovery.visibility = "OBSERVABLE"
      /\ RawSaying(raw, "sample").row.performanceSampleEligible = TRUE
  BY <1>1, <1>2, <1>3, <1>4 DEF RawSaying
<1>9. /\ RawSaying(raw, "received").row.metrics.bytesReceived = ResourceLength + 1
      /\ RawSaying(raw, "received").proof = raw.proof
  BY <1>1, <1>2, <1>3, <1>5 DEF RawSaying
<1>10. /\ RawSaying(raw, "early").proof.firstProgress = ChainStart
       /\ RawSaying(raw, "early").proof.attempts = raw.proof.attempts
  BY <1>1, <1>2, <1>3, <1>5 DEF RawSaying
<1>11. /\ RawSaying(raw, "jitter").proof.samples = <<JitterSample(1, Window(1))>>
       /\ RawSaying(raw, "jitter").proof.backoffs = raw.proof.backoffs
       /\ RawSaying(raw, "jitter").proof.attempts = raw.proof.attempts
  BY <1>1, <1>2 DEF RawSaying
<1>12. /\ RawSaying(raw, "epoch").proof.routeAfter = 1 + raw.proof.routeAfter
       /\ RawSaying(raw, "epoch").row = raw.row
       /\ RawSaying(raw, "epoch").proof.permitEpochs = raw.proof.permitEpochs
  BY <1>1, <1>2 DEF RawSaying
<1>13. /\ RawSaying(raw, "backend").row.backendId = OtherBackend(raw.row.backendId)
       /\ RawSaying(raw, "version").row.backendVersion = "other"
       /\ RawSaying(raw, "version").row.backendId = raw.row.backendId
  BY <1>1, <1>2, <1>3 DEF RawSaying
<1>14. /\ RawSaying(raw, "correlation").proof.correlated = <<raw.proof.attempts[Len(raw.proof.attempts)].correlation - 100>>
       /\ RawSaying(raw, "correlation").proof.attempts = raw.proof.attempts
  BY <1>1, <1>2 DEF RawSaying
<1>15. ASSUME Len(owners[2]) \in Nat, Len(owners[2]) > 1
       PROVE  /\ RawSaying(raw, "observation").row = Row(2)
              /\ RawSaying(raw, "observation").proof.failures[1].observation = "HTTP_STATUS"
              /\ DOMAIN RawSaying(raw, "observation").proof.failures = 1 .. Len(owners[2]) - 1
  <2>1. 1 \in DOMAIN raw.proof.failures /\ DOMAIN raw.proof.failures = 1 .. Len(owners[2]) - 1
    BY <1>6, <1>15
  <2>2. "observation" \in DOMAIN raw.proof.failures[1]
    BY <1>6, <1>61, <2>1
  <2>. QED  BY <1>1, <1>2, <2>1, <2>2 DEF RawSaying
<1>. QED  BY <1>1, <1>2, <1>62, <1>7, <1>8, <1>9, <1>10, <1>11, <1>12, <1>13, <1>14, <1>15

\* The bytes of a trial's attempts: the last one's.
LEMMA BytesOf ==
    ASSUME NEW x \in Nat, NEW s \in Seq(Nat), s # << >>, \A i \in DOMAIN s : s[i] = IF i = Len(s) THEN x ELSE 0
    PROVE  SumOf(s) = x
<1> DEFINE f == [i \in 0 .. Len(s) |-> IF i = Len(s) THEN x ELSE 0]
<1>1. Len(s) \in Nat \ {0} /\ DOMAIN s = 1 .. Len(s)
  OBVIOUS
<1>2. AddsUp(f, s, Len(s))
  <2>1. ASSUME NEW i \in 0 .. Len(s) PROVE f[i] \in Nat /\ f[i] = (IF i = 0 THEN 0 ELSE f[i - 1] + s[i])
    <3>1. CASE i = 0
      BY <1>1, <3>1
    <3>2. CASE i # 0
      <4>1. i \in DOMAIN s /\ i - 1 \in 0 .. Len(s) /\ i - 1 # Len(s)
        BY <1>1, <3>2
      <4>2. f[i - 1] = 0 /\ f[i] = s[i]
        BY <4>1
      <4>. QED  BY <3>2, <4>2
    <3>. QED  BY <3>1, <3>2
  <2>. QED  BY <2>1 DEF AddsUp
<1>3. f[Len(s)] = x
  BY <1>1
<1> HIDE DEF f
<1>. QED  BY <1>2, <1>3, SumIs

\* Every token of the route's timeline has an instant of its own.
LEMMA Times ==
    ASSUME instance \in Instances
    PROVE  /\ \A token \in RouteTokens : At(instance.order, token) \in DOMAIN instance.order /\ Time(token) \in Nat /\ Time(token) >= 10
           /\ \A a, b \in RouteTokens : Time(a) = Time(b) => a = b
<1>1. instance.order \in Seq(RouteTokens) /\ Elements(instance.order) = RouteTokens
  BY InstancesAssumption DEF InstanceRecord
<1>2. ASSUME NEW token \in RouteTokens
      PROVE  At(instance.order, token) \in DOMAIN instance.order /\ instance.order[At(instance.order, token)] = token
  <2>1. \E i \in DOMAIN instance.order : instance.order[i] = token
    BY <1>1 DEF Elements
  <2>. QED  BY <2>1 DEF At
<1>3. DOMAIN instance.order \subseteq Nat \ {0}
  BY <1>1
<1>4. ASSUME NEW token \in RouteTokens PROVE Time(token) = 10 * At(instance.order, token) /\ At(instance.order, token) \in Nat \ {0}
  BY <1>2, <1>3 DEF Time
<1>5. ASSUME NEW a \in RouteTokens, NEW b \in RouteTokens, Time(a) = Time(b) PROVE a = b
  <2>1. At(instance.order, a) = At(instance.order, b)
    BY <1>4, <1>5
  <2>. QED  BY <1>2, <2>1
<1>. QED  BY <1>2, <1>4, <1>5

\* What each verifier has checked of the second document, part by part.
LEMMA SecondDocument ==
    ASSUME Profile \in Profiles, Verified(Evidence, Profile), NEW raw, raw = Evidence.raws[2]
    PROVE  /\ raw = Saying(instance.misreport)
           /\ raw.row.backendId = PlannedTrialSchedule(Plan)[2].backendId
           /\ NotSelfCertified(raw) /\ Cold(raw, FrozenInputs) /\ RouteEpochs(raw, Profile = "N6R")
           /\ Profile = "N0" => CheckRawN0(raw, Evidence.scenario, Evidence.plan, Schedule(Evidence)[2], Evidence.inputs)
           /\ Profile # "N0" => /\ ByteAccounting(raw) /\ CorrelationLineage(raw) /\ ProgressOwner(raw)
                                /\ AttemptSequence(raw) /\ FailureLineage(raw) /\ Backoffs(raw) /\ Policy(raw)
<1>1. 2 \in Trials
  BY DEF Trials
<1>2. raw = Saying(instance.misreport)
  BY <1>1, EvidenceIs DEF Saying
<1>3. Schedule(Evidence)[2].backendId = PlannedTrialSchedule(Plan)[2].backendId
  BY EvidenceIs DEF Schedule
<1>4. CASE Profile = "N0"
  <2>1. CheckRawN0(raw, Evidence.scenario, Evidence.plan, Schedule(Evidence)[2], Evidence.inputs)
    BY <1>1, <1>2, <1>4, RawsJudged
  <2>2. raw.row.backendId = Schedule(Evidence)[2].backendId
    BY <2>1 DEF CheckRawN0, Identity
  <2>. QED  BY <1>2, <1>3, <1>4, <2>1, <2>2, EvidenceIs DEF CheckRawN0
<1>5. CASE Profile # "N0"
  <2>1. CheckRaw(raw, Phase[Profile], Evidence.scenario, Evidence.plan, Schedule(Evidence)[2], Evidence.inputs, Profile = "N6R")
    BY <1>1, <1>2, <1>5, RawsJudged
  <2>2. raw.row.backendId = Schedule(Evidence)[2].backendId
    BY <2>1 DEF CheckRaw, Identity
  <2>. QED  BY <1>2, <1>3, <1>5, <2>1, <2>2, EvidenceIs DEF CheckRaw
<1>. QED  BY <1>4, <1>5

OwnerRecord == [requests : 0 .. 9, correlation : Nat \cup {Null}, armed : BOOLEAN]

\* The attempts the second document tells of are those of its owners.
LEMMA SecondAttempts ==
    ASSUME owners \in [Trials -> Seq(OwnerRecord)]
    PROVE  /\ Len(owners[2]) \in Nat
           /\ Len(Proof(2).attempts) = Len(owners[2]) /\ DOMAIN Proof(2).attempts = 1 .. Len(owners[2])
           /\ \A i \in 1 .. Len(owners[2]) :
                /\ Proof(2).attempts[i].bytes = IF i = Len(owners[2]) THEN ResourceLength ELSE 0
                /\ Proof(2).attempts[i].start = StartOf(i)
                /\ Proof(2).attempts[i].correlation = owners[2][i].correlation
           /\ Row(2).recovery.owners = Len(owners[2])
           /\ Row(2).permitRouteEpoch = 1
           /\ Proof(2).routeAfter = IF Profile = "N6R" THEN 2 ELSE 1
           /\ Proof(2).permitEpochs = [i \in 1 .. Len(owners[2]) |-> IF Profile = "N6R" THEN i ELSE 1]
<1>1. Len(owners[2]) \in Nat
  BY DEF Trials
<1>2. Proof(2).attempts = [i \in 1 .. Len(owners[2]) |-> Attempt(2, i)]
  BY DEF Proof
<1>3. \A i \in 1 .. Len(owners[2]) :
         /\ Attempt(2, i).bytes = IF i = Len(owners[2]) THEN ResourceLength ELSE 0
         /\ Attempt(2, i).start = StartOf(i)
         /\ Attempt(2, i).correlation = owners[2][i].correlation
  BY DEF Attempt
<1>4. Row(2).recovery.owners = Len(owners[2]) /\ Row(2).permitRouteEpoch = 1
  BY DEF Row
<1>5. /\ Proof(2).routeAfter = IF Profile = "N6R" THEN 2 ELSE 1
      /\ Proof(2).permitEpochs = [i \in 1 .. Len(owners[2]) |-> IF Profile = "N6R" THEN i ELSE 1]
  BY DEF Proof
<1>. QED  BY <1>1, <1>2, <1>3, <1>4, <1>5

\* The owner of the first progress had begun by then.
LEMMA ProgressHasOwner ==
    ASSUME NEW raw, ProgressOwner(raw)
    PROVE  \E i \in DOMAIN raw.proof.attempts : raw.proof.attempts[i].start <= raw.proof.firstProgress
<1>1. \A S : Cardinality(S) = 1 => S # {}
  BY FS_EmptySet
<1>. QED  BY <1>1 DEF ProgressOwner

\* Each part of the document that says what is not so is refused.
LEMMA DocumentRefused ==
    ASSUME Profile \in Profiles, Verified(Evidence, Profile), owners \in [Trials -> Seq(OwnerRecord)],
           instance \in Instances
    PROVE  /\ instance.misreport \notin {"hash", "warm", "session", "certified", "sample", "received", "early", "jitter", "epoch",
                                         "backend", "correlation"}
           /\ instance.misreport = "observation" => Len(owners[2]) <= 1
<1> DEFINE raw == Evidence.raws[2]
           n == Len(owners[2])
<1>1. /\ raw = Saying(instance.misreport)
      /\ raw.row.backendId = PlannedTrialSchedule(Plan)[2].backendId
      /\ NotSelfCertified(raw) /\ Cold(raw, FrozenInputs) /\ RouteEpochs(raw, Profile = "N6R")
      /\ Profile = "N0" => CheckRawN0(raw, Evidence.scenario, Evidence.plan, Schedule(Evidence)[2], Evidence.inputs)
      /\ Profile # "N0" => /\ ByteAccounting(raw) /\ CorrelationLineage(raw) /\ ProgressOwner(raw)
                           /\ AttemptSequence(raw) /\ FailureLineage(raw) /\ Backoffs(raw) /\ Policy(raw)
  BY SecondDocument
<1>2. TrueRaw(2).row = Row(2) /\ TrueRaw(2).proof = Proof(2)
  BY DEF TrueRaw
<1> HIDE DEF raw
<1>0. \A i \in 1 .. n : owners[2][i].correlation \in Nat \cup {Null}
  <2>1. owners[2] \in Seq(OwnerRecord)
    BY DEF Trials
  <2>2. \A i \in 1 .. Len(owners[2]) : owners[2][i] \in OwnerRecord
    BY <2>1
  <2>. QED  BY <2>2 DEF OwnerRecord
<1>3. ASSUME instance.misreport \in {"hash", "warm", "session"} PROVE FALSE
  BY <1>1, <1>2, <1>3, MisreportsSay DEF Cold
<1>4. ASSUME instance.misreport \in {"certified", "sample"} PROVE FALSE
  BY <1>1, <1>2, <1>4, MisreportsSay DEF NotSelfCertified
<1>5. ASSUME instance.misreport = "received" PROVE FALSE
  <2>1. raw.row.metrics.bytesReceived = ResourceLength + 1 /\ raw.proof = Proof(2)
    BY <1>1, <1>2, <1>5, MisreportsSay
  <2>2. CASE Profile = "N0"
    BY <1>1, <2>1, <2>2 DEF CheckRawN0, ResourceLength
  <2>3. CASE Profile # "N0"
    <3>1. n \in Nat /\ n # 0 /\ DOMAIN Proof(2).attempts = 1 .. n
      BY <1>1, <2>1, <2>3, SecondAttempts DEF AttemptSequence
    <3>2. PICK s : s = [i \in DOMAIN raw.proof.attempts |-> raw.proof.attempts[i].bytes]
      OBVIOUS
    <3>3. DOMAIN s = 1 .. n /\ \A i \in 1 .. n : s[i] = IF i = n THEN ResourceLength ELSE 0
      BY <2>1, <3>1, <3>2, SecondAttempts
    <3>4. s \in Seq(Nat) /\ Len(s) = n /\ s # << >>
      <4>1. s = [i \in 1 .. n |-> s[i]]
        BY <2>1, <3>1, <3>2
      <4>2. \A i \in 1 .. n : s[i] \in Nat
        BY <3>3 DEF ResourceLength
      <4>3. s \in [1 .. n -> Nat]
        BY ONLY <4>1, <4>2, SMTT(30)
      <4>4. s \in Seq(Nat)
        BY <3>1, <4>3
      <4>. QED  BY <3>1, <4>3, <4>4
    <3>5. SumOf(s) = ResourceLength
      BY <3>3, <3>4, BytesOf DEF ResourceLength
    <3>6. SumOf(s) = raw.row.metrics.bytesReceived
      BY <1>1, <2>3, <3>2 DEF ByteAccounting
    <3>. QED  BY <2>1, <3>5, <3>6 DEF ResourceLength
  <2>. QED  BY <2>2, <2>3
<1>6. ASSUME instance.misreport = "jitter" PROVE FALSE
  <2>1. raw.proof.samples = <<JitterSample(1, Window(1))>>
    BY <1>1, <1>2, <1>6, MisreportsSay
  <2>2. CASE Profile = "N0"
    BY <1>1, <2>1, <2>2 DEF CheckRawN0
  <2>3. CASE Profile # "N0"
    <3>1. /\ DOMAIN raw.proof.samples = DOMAIN raw.proof.backoffs
          /\ \A i \in DOMAIN raw.proof.backoffs : raw.proof.samples[i] = JitterSample(i - 1, Window(i))
      BY <1>1, <2>3 DEF Backoffs
    <3>2. raw.proof.samples[1] = JitterSample(0, Window(1))
      BY <2>1, <3>1
    <3>. QED  BY <2>1, <3>2 DEF JitterSample
  <2>. QED  BY <2>2, <2>3
<1>7. ASSUME instance.misreport = "epoch" PROVE FALSE
  <2>1. raw.proof.routeAfter = 1 + Proof(2).routeAfter /\ raw.row = Row(2) /\ raw.proof.permitEpochs = Proof(2).permitEpochs
    BY <1>1, <1>2, <1>7, MisreportsSay
  <2>2. CASE Profile = "N6R"
    <3>1. raw.proof.routeAfter = 3 /\ raw.row.permitRouteEpoch = 1
      BY <2>1, <2>2, SecondAttempts
    <3>2. raw.proof.permitEpochs = <<1, 3>>
      BY <1>1, <2>2, <3>1 DEF RouteEpochs
    <3>3. raw.proof.permitEpochs = [i \in 1 .. n |-> i]
      BY <2>1, <2>2, SecondAttempts
    <3>4. 2 \in DOMAIN raw.proof.permitEpochs /\ raw.proof.permitEpochs[2] = 3
      BY <3>2
    <3>. QED  BY <3>3, <3>4
  <2>3. CASE Profile # "N6R"
    BY <1>1, <2>1, <2>3, SecondAttempts DEF RouteEpochs
  <2>. QED  BY <2>2, <2>3
<1>8. ASSUME instance.misreport = "backend" PROVE FALSE
  <2>1. raw.row.backendId = OtherBackend(Row(2).backendId)
    BY <1>1, <1>2, <1>8, MisreportsSay
  <2>2. Row(2).backendId = PlannedTrialSchedule(Plan)[2].backendId
    BY DEF Row
  <2>. QED  BY <1>1, <2>1, <2>2 DEF OtherBackend, BACKENDS
<1>9. ASSUME instance.misreport = "correlation" PROVE FALSE
  <2>1. raw.proof.correlated = <<Proof(2).attempts[Len(Proof(2).attempts)].correlation - 100>> /\ raw.proof.attempts = Proof(2).attempts
    BY <1>1, <1>2, <1>9, MisreportsSay
  <2>2. CASE Profile = "N0"
    <3>1. n \in Nat /\ Len(raw.proof.attempts) = n /\ raw.row.recovery.owners = 1 /\ AttemptSequence(raw)
      BY <1>1, <2>1, <2>2, SecondAttempts DEF CheckRawN0
    <3>2. n = 1
      BY <3>1 DEF AttemptSequence
    <3>3. Proof(2).attempts[1].correlation \in Nat \cup {Null}
      BY <3>2, <1>0, SecondAttempts
    <3>4. raw.proof.correlated[1] = Proof(2).attempts[1].correlation - 100
      BY <2>1, <3>1, <3>2
    <3>5. raw.proof.attempts[1].correlation = raw.proof.correlated[1]
      BY <1>1, <2>2 DEF CheckRawN0
    <3>. QED  BY <2>1, <3>3, <3>4, <3>5 DEF Null
  <2>3. CASE Profile # "N0"
    <3>1. n \in Nat /\ n # 0 /\ DOMAIN Proof(2).attempts = 1 .. n /\ Len(Proof(2).attempts) = n
      BY <1>1, <2>1, <2>3, SecondAttempts DEF AttemptSequence
    <3>2. PICK c : c = [i \in DOMAIN raw.proof.attempts |-> raw.proof.attempts[i].correlation]
      OBVIOUS
    <3>3. Present(c) = raw.proof.correlated /\ raw.proof.attempts[n].correlation # Null
      BY <1>1, <2>1, <2>3, <3>1, <3>2 DEF CorrelationLineage
    <3>4. c = [i \in 1 .. n |-> c[i]] /\ \A i \in 1 .. n : c[i] = owners[2][i].correlation
      BY <2>1, <3>1, <3>2, SecondAttempts
    <3>5. \A i \in 1 .. n : c[i] \in Nat \cup {Null}
      BY <3>1, <3>4, <1>0
    <3>6. c \in Seq(Nat \cup {Null}) /\ DOMAIN c = 1 .. n
      BY ONLY <3>1, <3>4, <3>5
    <3>7. c[n] = Proof(2).attempts[n].correlation /\ c[n] \in Nat /\ c[n] # Null
      <4>1. n \in DOMAIN raw.proof.attempts
        BY <2>1, <3>1
      <4>2. c[n] = raw.proof.attempts[n].correlation
        BY <3>2, <4>1
      <4>. QED  BY <2>1, <3>1, <3>3, <3>5, <4>2
    <3>8. PICK j \in DOMAIN Present(c) : Present(c)[j] = c[n]
      <4>1. n \in DOMAIN c
        BY <3>1, <3>6
      <4>. QED  BY <3>6, <3>7, <4>1, PresentIs
    <3>9. Present(c) = <<c[n] - 100>>
      BY <2>1, <3>1, <3>3, <3>7
    <3>10. j = 1 /\ Present(c)[1] = c[n] - 100
      BY <3>8, <3>9
    <3>. QED  BY <3>7, <3>8, <3>10
  <2>. QED  BY <2>2, <2>3
<1>10. ASSUME instance.misreport = "early" PROVE FALSE
  <2>1. raw.proof.firstProgress = 5 /\ raw.proof.attempts = Proof(2).attempts
    BY <1>1, <1>2, <1>10, MisreportsSay DEF ChainStart
  <2>2. CASE Profile = "N0"
    <3>1. n \in Nat /\ Len(raw.proof.attempts) = n /\ raw.row.recovery.owners = 1 /\ AttemptSequence(raw)
      BY <1>1, <2>1, <2>2, SecondAttempts DEF CheckRawN0
    <3>2. n = 1
      BY <3>1 DEF AttemptSequence
    <3>3. raw.proof.attempts[1].start = 10
      BY <2>1, <2>2, <3>2, SecondAttempts DEF StartOf
    <3>4. raw.proof.attempts[1].start <= raw.proof.firstProgress
      BY <1>1, <2>2 DEF CheckRawN0
    <3>. QED  BY <2>1, <3>3, <3>4
  <2>3. CASE Profile # "N0"
    <3>1. n \in Nat /\ DOMAIN raw.proof.attempts = 1 .. n
      BY <2>1, SecondAttempts
    <3>2. \A i \in 1 .. n : StartOf(i) \in Nat /\ StartOf(i) >= 10
      <4>1. CASE Profile = "N6R"
        <5>1. n = 2
          <6>1. 2 \in Trials /\ RouteTrialOk(Evidence, 2)
            BY <4>1, Judged DEF VerifyRoute, Trials
          <6>2. Len(raw.proof.attempts) = 2
            BY <6>1 DEF RouteTrialOk, OneFailureThenSuccess, raw
          <6>. QED  BY <2>1, <6>2, SecondAttempts
        <5>. QED  BY <4>1, <5>1, Times, SMTT(30) DEF StartOf, RouteTokens
      <4>2. CASE Profile # "N6R"
        BY <3>1, <4>2 DEF StartOf
      <4>. QED  BY <4>1, <4>2
    <3>3. \A i \in DOMAIN raw.proof.attempts : ~(raw.proof.attempts[i].start <= raw.proof.firstProgress)
      BY <2>1, <3>1, <3>2, SecondAttempts
    <3>. QED  BY <1>1, <2>3, <3>3, ProgressHasOwner
  <2>. QED  BY <2>2, <2>3
<1>11. ASSUME instance.misreport = "observation", Len(owners[2]) > 1 PROVE FALSE
  <2>1. /\ raw.proof.failures[1].observation = "HTTP_STATUS" /\ raw.row = Row(2)
        /\ DOMAIN raw.proof.failures = 1 .. n - 1
    BY <1>1, <1>11, MisreportsSay, SecondAttempts
  <2>2. CASE Profile = "N0"
    BY <1>1, <1>11, <2>1, <2>2, SecondAttempts DEF CheckRawN0
  <2>3. CASE Profile # "N0"
    <3>1. 1 \in DOMAIN raw.proof.failures
      BY <1>11, <2>1, SecondAttempts
    <3>. QED  BY <1>1, <2>1, <2>3, <3>1 DEF FailureLineage
  <2>. QED  BY <2>2, <2>3
<1>12. Len(owners[2]) \in Nat
  BY SecondAttempts
<1>. QED  BY <1>3, <1>4, <1>5, <1>6, <1>7, <1>8, <1>9, <1>10, <1>11, <1>12

\* Whatever is misreported, a row has the parts the finalizer fills in.
LEMMA RowShape ==
    ASSUME NEW t \in Trials
    PROVE  /\ {"recovery", "performanceSampleEligible", "metrics", "backendId", "backendVersion", "eligibility"}
                  \subseteq DOMAIN Evidence.raws[t].row
           /\ {"originRequests", "visibility", "retries"} \subseteq DOMAIN Evidence.raws[t].row.recovery
<1> DEFINE raw == TrueRaw(t)
<1>1. {"row", "proof"} \subseteq DOMAIN raw /\ raw.row = Row(t)
  BY DEF TrueRaw
<1>2. {"recovery", "performanceSampleEligible", "metrics", "backendId", "backendVersion", "eligibility"} \subseteq DOMAIN raw.row
  BY <1>1 DEF Row
<1>3. {"originRequests", "visibility", "retries"} \subseteq DOMAIN raw.row.recovery
  BY <1>1 DEF Row
<1> HIDE DEF raw
<1>4. ASSUME NEW m
      PROVE  /\ DOMAIN RawSaying(raw, m).row = DOMAIN raw.row
             /\ DOMAIN RawSaying(raw, m).row.recovery = DOMAIN raw.row.recovery
  BY <1>1, <1>2, <1>3 DEF RawSaying
<1>5. \E m : Evidence.raws[t] = RawSaying(raw, m)
  BY EvidenceIs DEF raw
<1>. QED  BY <1>2, <1>3, <1>4, <1>5

\* A finalized row is the trial's own, but for what the trace says of its requests.
LEMMA FinalizedIs ==
    ASSUME Profile \in Profiles
    PROVE  /\ DOMAIN FinalizedRows(Evidence, Profile) = Trials
           /\ \A t \in Trials : \E requests, derived :
                FinalizedRows(Evidence, Profile)[t] = Finalized(Evidence.raws[t].row, requests, derived)
<1>1. CASE Profile = "N6"
  <2>1. FinalizedRows(Evidence, Profile) = ResetRows(Evidence)
    BY <1>1 DEF FinalizedRows
  <2>. QED  BY <2>1 DEF ResetRows
<1>2. CASE Profile \in {"N0", "N6R"}
  <2>1. FinalizedRows(Evidence, Profile) = OneRequestRows(Evidence)
    BY <1>2 DEF FinalizedRows
  <2>. QED  BY <2>1 DEF OneRequestRows
<1>3. CASE Profile \notin {"N0", "N6", "N6R"}
  <2>1. FinalizedRows(Evidence, Profile) = NetworkRows(Evidence)
    BY <1>3 DEF FinalizedRows
  <2>. QED  BY <2>1 DEF NetworkRows
<1>. QED  BY <1>1, <1>2, <1>3

\* The second and the third trial are of one backend: the blocks are mirrored.
LEMMA Mirrored == PlannedTrialSchedule(Plan)[2].backendId = PlannedTrialSchedule(Plan)[3].backendId
<1> DEFINE blocks == Plan.blocks
           scenario == FrozenScenario(Profile)
           drawn == FirstBackend[ProfileOf(scenario)]
<1>1. blocks = [block \in 1 .. 2 |-> [position \in 1 .. 2 |-> PlannedRow(scenario, FrozenInputs, block, position)]]
  BY DEF Plan, BuildPlan, PlanBlocks
<1>2. Len(blocks) = 2
  BY <1>1
<1>3. blocks[1][2].backendId = ExpectedOrder(scenario, 1)[2] /\ blocks[2][1].backendId = ExpectedOrder(scenario, 2)[1]
  BY <1>1 DEF PlannedRow
<1>4. ExpectedOrder(scenario, 1)[2] = OtherBackend(drawn) /\ ExpectedOrder(scenario, 2)[1] = OtherBackend(drawn)
  BY DEF ExpectedOrder
<1> HIDE DEF blocks
<1>5. /\ PlannedTrialSchedule(Plan)[2].backendId = blocks[1][2].backendId
      /\ PlannedTrialSchedule(Plan)[3].backendId = blocks[2][1].backendId
  <2>1. 2 \in 1 .. 2 * Len(blocks) /\ 3 \in 1 .. 2 * Len(blocks)
    BY <1>2
  <2>2. (2 + 1) \div 2 = 1 /\ 2 - (2 % 2) = 2 /\ (3 + 1) \div 2 = 2 /\ 2 - (3 % 2) = 1
    OBVIOUS
  <2>. QED  BY <2>1, <2>2 DEF PlannedTrialSchedule, blocks
<1>. QED  BY <1>3, <1>4, <1>5

\* The first two trials have names of their own.
LEMMA PlannedIds == PlannedTrialSchedule(Plan)[1].trialId # PlannedTrialSchedule(Plan)[2].trialId
<1> DEFINE blocks == Plan.blocks
           scenario == FrozenScenario(Profile)
<1>1. blocks = [block \in 1 .. 2 |-> [position \in 1 .. 2 |-> PlannedRow(scenario, FrozenInputs, block, position)]]
  BY DEF Plan, BuildPlan, PlanBlocks
<1>2. Len(blocks) = 2
  BY <1>1
<1>3. blocks[1][1].trialId = <<1, 1>> /\ blocks[1][2].trialId = <<1, 2>>
  BY <1>1 DEF PlannedRow
<1> HIDE DEF blocks
<1>4. /\ PlannedTrialSchedule(Plan)[1].trialId = blocks[1][1].trialId
      /\ PlannedTrialSchedule(Plan)[2].trialId = blocks[1][2].trialId
  <2>1. 1 \in 1 .. 2 * Len(blocks) /\ 2 \in 1 .. 2 * Len(blocks)
    BY <1>2
  <2>2. (1 + 1) \div 2 = 1 /\ 2 - (1 % 2) = 1 /\ (2 + 1) \div 2 = 1 /\ 2 - (2 % 2) = 2
    OBVIOUS
  <2>. QED  BY <2>1, <2>2 DEF PlannedTrialSchedule, blocks
<1>. QED  BY <1>3, <1>4

\* Two documents of one process, and two rows of one backend that name another
\* version of it, are refused.
LEMMA OthersContradict ==
    ASSUME Profile \in Profiles, Verified(Evidence, Profile)
    PROVE  instance.misreport \notin {"process", "version"}
<1>1. /\ Evidence.raws[2] = Saying(instance.misreport)
      /\ \A t \in Trials : t # 2 => Evidence.raws[t] = TrueRaw(t)
  <2>1. \A raw : RawSaying(raw, "none") = raw
    BY DEF RawSaying
  <2>. QED  BY <2>1, EvidenceIs DEF Saying, Trials
<1>2. ASSUME instance.misreport = "process" PROVE FALSE
  <2>1. Evidence.raws[1].proof.process = 1
    BY <1>1 DEF TrueRaw, Proof, Trials
  <2>2. Evidence.raws[2].proof.process = 1
    BY <1>1, <1>2, MisreportsSay
  <2>3. Distinct([t \in Trials |-> Evidence.raws[t].proof.process])
    BY Judged DEF ProcessesDistinct
  <2>4. PICK p : p = [t \in Trials |-> Evidence.raws[t].proof.process]
    OBVIOUS
  <2>5. 1 \in DOMAIN p /\ 2 \in DOMAIN p /\ p[1] = p[2]
    BY <2>1, <2>2, <2>4 DEF Trials
  <2>6. Distinct(p)
    BY <2>3, <2>4
  <2>. QED  BY <2>5, <2>6 DEF Distinct
<1>3. ASSUME instance.misreport = "version" PROVE FALSE
  <2> DEFINE rows == FinalizedRows(Evidence, Profile)
  <2>1. BackendsConsistent(rows)
    BY Judged DEF Conclusive, AnalyzesTrials, TrialsDocument
  <2>2. /\ DOMAIN rows = Trials
        /\ \A t \in Trials : rows[t].backendId = Evidence.raws[t].row.backendId
                             /\ rows[t].backendVersion = Evidence.raws[t].row.backendVersion
    <3>1. ASSUME NEW t \in Trials, NEW requests, NEW derived
          PROVE  /\ Finalized(Evidence.raws[t].row, requests, derived).backendId = Evidence.raws[t].row.backendId
                 /\ Finalized(Evidence.raws[t].row, requests, derived).backendVersion = Evidence.raws[t].row.backendVersion
      BY RowShape DEF Finalized
    <3>. QED  BY <3>1, FinalizedIs
  <2>3. Evidence.raws[2].row.backendVersion = "other" /\ Evidence.raws[2].row.backendId = Row(2).backendId
    BY <1>1, <1>3, MisreportsSay
  <2>4. Evidence.raws[3].row = Row(3)
    BY <1>1 DEF TrueRaw, Trials
  <2>5. Row(3).backendVersion = "frozen" /\ Row(2).backendId = Row(3).backendId
    BY Mirrored DEF Row
  <2> HIDE DEF rows
  <2>. QED  BY <2>1, <2>2, <2>3, <2>4, <2>5 DEF BackendsConsistent, Trials
<1>. QED  BY <1>2, <1>3

\* What the harness and the environment say is compared with the plan and with
\* what was read back, where a verifier looks at them.
LEMMA SurroundingsRefused ==
    ASSUME Profile \in Profiles, Verified(Evidence, Profile)
    PROVE  /\ Profile \notin {"N0", "N6R"} => instance.misreport \notin {"readback", "unclean", "otherRun", "code"}
           /\ Profile \notin {"N0", "N6", "N6R"} => instance.misreport # "environmentRun"
           /\ Profile = "N6" => instance.misreport # "trigger"
<1>1. Plan.runId = "run"
  BY DEF Plan, BuildPlan
<1>2. 2 \in Trials
  BY DEF Trials
<1>3. ASSUME Profile \notin {"N0", "N6R"}
      PROVE  /\ Evidence.harnesses[2].active = "frozen" /\ Evidence.harnesses[2].clean = "clean"
             /\ Evidence.harnesses[2].runId = "run"
             /\ Evidence.environment.code = Evidence.readback.code
  <2>1. CASE Profile = "N6"
    BY <1>1, <1>2, <2>1, Judged, EvidenceIs DEF VerifyReset, ResetTrialOk, TransportHarnessOk, HarnessIdentity, ResetEnvironmentOk
  <2>2. CASE Profile # "N6"
    BY <1>1, <1>2, <1>3, <2>2, Judged, EvidenceIs
       DEF VerifyNetwork, NetworkTrialOk, NetworkHarnessOk, HarnessIdentity, NetworkEnvironmentOk
  <2>. QED  BY <2>1, <2>2
<1>4. ASSUME Profile \notin {"N0", "N6R"} PROVE instance.misreport \notin {"readback", "unclean", "otherRun", "code"}
  <2>1. Evidence.harnesses[2] = HarnessRecord(2)
    BY <1>2, <1>4, EvidenceIs DEF HarnessProfiles
  <2>2. HarnessRecord(2).active = "frozen" /\ HarnessRecord(2).clean = "clean" /\ HarnessRecord(2).runId = "run"
    BY <1>3, <1>4, <2>1
  <2>3. Environment.code = "frozen"
    BY <1>3, <1>4, EvidenceIs DEF Readback
  <2>. QED  BY <2>2, <2>3 DEF HarnessRecord, Environment
<1>5. ASSUME Profile \notin {"N0", "N6", "N6R"} PROVE instance.misreport # "environmentRun"
  <2>1. Evidence.environment.runId = "run"
    BY <1>1, <1>5, Judged, EvidenceIs DEF VerifyNetwork, NetworkEnvironmentOk
  <2>. QED  BY <2>1, EvidenceIs DEF Environment
<1>6. ASSUME Profile = "N6", instance.misreport = "trigger" PROVE FALSE
  <2>1. TriggerRecord(2).trialId = PlannedTrialSchedule(Plan)[2].trialId
    <3>1. ResetTrialOk(Evidence, 2)
      BY <1>2, <1>6, Judged DEF VerifyReset
    <3>2. Evidence.triggers[2].trialId = Schedule(Evidence)[2].trialId
      BY <3>1 DEF ResetTrialOk, TriggerOk
    <3>. QED  BY <1>2, <1>6, <3>2, EvidenceIs DEF Schedule
  <2>2. TriggerRecord(2).trialId = PlannedTrialSchedule(Plan)[1].trialId
    BY <1>6 DEF TriggerRecord
  <2>. QED  BY <2>1, <2>2, PlannedIds
<1>. QED  BY <1>4, <1>5, <1>6

-------------------------------------------------------------------------------
(* What the owners and the Media Lab leave *)

RowRecord == [trial : 0 .. 4, owner : Nat, n : Nat, cut : BOOLEAN]

DeviceAt == CASE Profile = "N0" -> 1 [] Profile \in {"N3", "N6"} -> 5 [] Profile = "N6R" -> 2 [] OTHER -> 4
BeforeAt == IF Profile = "N6R" THEN 1 ELSE 2
AfterAt == CASE Profile \in {"N3", "N6"} -> 7 [] Profile = "N6R" -> 3 [] OTHER -> 6

Typed ==
    /\ owners \in [Trials -> Seq(OwnerRecord)]
    /\ device \in {"idle", "running", "posted", "done"}
    /\ pending \subseteq RowRecord /\ IsFiniteSet(pending)
    /\ trace \in Seq(RowRecord)
    /\ before \in Seq(Nat) /\ after \in Seq(Nat)
    /\ late \subseteq RowRecord /\ IsFiniteSet(late)
    /\ \E S : kept \in Seq(S)

\* The owners of a trial run at its DEVICE step, and no other.
Turn ==
    /\ device # "idle" => trial \in Trials /\ step = DeviceAt
    /\ \A t \in Trials :
        t > trial \/ (t = trial /\ (step < DeviceAt \/ (step = DeviceAt /\ device = "idle"))) => owners[t] = << >>

\* The last owner of a trial that came back was served.
Served(t) ==
    /\ owners[t] # << >>
    /\ owners[t][Len(owners[t])].requests > 0
    /\ Profile = "N6" => ~owners[t][Len(owners[t])].armed
AllServed ==
    /\ \A t \in Trials : t < trial \/ (t = trial /\ step > DeviceAt) => Served(t)
    /\ device = "done" => Served(trial)

\* What is known of an owner's requests: one of them bears its correlation, and
\* what its failure under the armed toxic leaves is of the instance's kind.
OwnersTell ==
    \A t \in Trials : \A i \in DOMAIN owners[t] :
        LET owner == owners[t][i]
        IN  /\ owner.correlation # Null => \E n \in 1 .. owner.requests : owner.correlation = t * 100 + i * 10 + n
            /\ Profile = "N6" /\ owner.armed => (owner.requests > 0 <=> instance.kind # "silent")

\* A row is one of an owner's requests, and each of them is a row or will be one.
IsRequest(row) ==
    /\ row.trial \in Trials /\ row.owner \in DOMAIN owners[row.trial]
    /\ row.n \in 1 .. owners[row.trial][row.owner].requests
Asked(s) == SumOf([i \in DOMAIN s |-> s[i].requests])
Upto(t, u) == IF u <= t THEN Asked(owners[u]) ELSE 0
Made(t) == Upto(t, 1) + Upto(t, 2) + Upto(t, 3) + Upto(t, 4)
Counted ==
    /\ trace # << >> /\ trace[1].trial = 0
    /\ \A row \in pending : IsRequest(row)
    /\ \A i \in DOMAIN trace : i # 1 => IsRequest(trace[i])
    /\ Len(trace) + Cardinality(pending) = 1 + Made(4)
NothingLost ==
    \A t \in Trials : \A i \in DOMAIN owners[t] : \A n \in 1 .. owners[t][i].requests :
        \E row \in pending \cup Elements(trace) : row.trial = t /\ row.owner = i /\ row.n = n

\* A request that is in flight when its trial's rows are counted is late.
Late ==
    /\ \A row \in late : row.trial \in Trials
    /\ \A row \in pending : row.trial <= Len(after) => row \in late
    /\ Profile = "N0" /\ Accepted => pending \subseteq late

\* The counts around a trial: of the requests made so far, but for the late ones.
Books ==
    /\ Profile = "N0" => before = << >> /\ after = << >>
    /\ Profile # "N0" =>
        /\ Len(before) = IF step > BeforeAt THEN trial ELSE trial - 1
        /\ Len(after) = IF step > AfterAt THEN trial ELSE trial - 1
        /\ Len(kept) = trial - 1
    /\ \A t \in DOMAIN after : LateUpTo(t) \/ after[t] = 1 + Made(t)
    /\ \A t \in DOMAIN before : \A i \in DOMAIN trace :
        i > before[t] /\ i # 1 => trace[i].trial >= t \/ trace[i] \in late

\* The readiness request is counted before every trial.
Begun == \A t \in DOMAIN before : before[t] >= 1

ResetSeen(t) == LateUpTo(t - 1) \/ (owners[t] # << >> /\ owners[t][1].requests > 0)
FirstReset(t) == owners[t] # << >> /\ owners[t][1].armed

\* What N3's link dropped while the device was elsewhere was a late request's.
Dropped ==
    Profile = "N3" =>
        /\ drops \in [baseline : Nat, now : Nat, own : BOOLEAN]
        /\ trial \in Trials /\ step > 1 => drops.now = 0 \/ drops.own \/ LateUpTo(trial - 1)
        /\ \A t \in DOMAIN kept : kept[t].final = 0 \/ kept[t].own \/ LateUpTo(t - 1)

\* The controller of N6 is asked by the first owner, whose connection the toxic
\* cut, and what it sees of the trace is of that owner or late.
ToxicOn == job = "running" /\ ((trial \in Trials /\ step = 4) \/ controller \in {"listening", "asked"}) => fault = "armed"
FirstHeard == job = "running" /\ controller = "listening" => owners[trial] = << >>
HeardArmed == controller = "asked" => \A i \in DOMAIN owners[trial] : owners[trial][i].armed
TriggerTells ==
    job = "running" /\ trial \in Trials /\ step > 1 =>
        /\ trigger.at # 0 => ResetSeen(trial)
        /\ "OBSERVED" \in Elements(log) => FirstReset(trial)
KeptTells ==
    \A t \in DOMAIN kept :
        /\ kept[t].trigger.at # 0 => ResetSeen(t)
        /\ "OBSERVED" \in Elements(kept[t].log) => FirstReset(t)
Reset == Profile = "N6" => ToxicOn /\ FirstHeard /\ HeardArmed /\ TriggerTells /\ KeptTells

-------------------------------------------------------------------------------
(* Requests *)

\* The places of the script.
LEMMA Places ==
    ASSUME Types
    PROVE  /\ Profile \in Profiles
           /\ Script[step] = "DEVICE" <=> step = DeviceAt
           /\ Script[step] = "BEFORE" <=> Profile # "N0" /\ step = BeforeAt
           /\ Script[step] = "AFTER" <=> Profile # "N0" /\ step = AfterAt
           /\ Profile = "N6" => /\ Script[step] = "STOP" <=> step = 8
                                /\ Script[step] = "START" <=> step = 3
                                /\ Script[step] = "LISTEN" <=> step = 4
           /\ Script[step] = "CLEAN" => step = 1 /\ Len(Script) > 1
           /\ Len(Script) = IF Profile = "N0" THEN 1 ELSE IF Profile = "N6" THEN 8 ELSE AfterAt
           /\ DeviceAt \in Nat /\ BeforeAt \in Nat /\ AfterAt \in Nat
           /\ Profile # "N0" => BeforeAt < DeviceAt /\ DeviceAt < AfterAt /\ BeforeAt >= 1
           /\ Profile = "N6" => AfterAt = 7
<1>1. Profile \in Profiles
  BY InstancesAssumption DEF Types, Profile, InstanceRecord
<1>2. CASE Profile = "N0"
  <2>1. Script = <<"DEVICE">> /\ DeviceAt = 1 /\ BeforeAt = 2 /\ AfterAt = 6
    BY <1>2 DEF Script, DeviceAt, BeforeAt, AfterAt
  <2>. QED  BY <1>1, <1>2, <2>1 DEF Types
<1>3. CASE Profile = "N3"
  <2>1. Script = <<"CLEAN", "BEFORE", "PULSE", "AWAIT_ARMED", "DEVICE", "WAIT_PULSE", "AFTER">>
    BY <1>3 DEF Script
  <2>2. DeviceAt = 5 /\ BeforeAt = 2 /\ AfterAt = 7
    BY <1>3 DEF DeviceAt, BeforeAt, AfterAt
  <2>. QED  BY <1>1, <1>3, <2>1, <2>2 DEF Types
<1>4. CASE Profile = "N6"
  <2>1. Script = <<"CLEAN", "BEFORE", "START", "LISTEN", "DEVICE", "WAIT_CONTROLLER", "AFTER", "STOP">>
    BY <1>4 DEF Script
  <2>2. DeviceAt = 5 /\ BeforeAt = 2 /\ AfterAt = 7
    BY <1>4 DEF DeviceAt, BeforeAt, AfterAt
  <2>. QED  BY <1>1, <1>4, <2>1, <2>2 DEF Types
<1>5. CASE Profile = "N6R"
  <2>1. Script = <<"BEFORE", "DEVICE", "AFTER">> /\ DeviceAt = 2 /\ BeforeAt = 1 /\ AfterAt = 3
    BY <1>5 DEF Script, DeviceAt, BeforeAt, AfterAt
  <2>. QED  BY <1>1, <1>5, <2>1 DEF Types
<1>6. CASE Profile \notin {"N0", "N3", "N6", "N6R"}
  <2>1. Script = <<"CLEAN", "BEFORE", "START", "DEVICE", "STOP", "AFTER">>
    BY <1>6 DEF Script, NetworkScript
  <2>2. DeviceAt = 4 /\ BeforeAt = 2 /\ AfterAt = 6
    BY <1>6 DEF DeviceAt, BeforeAt, AfterAt
  <2>. QED  BY <1>1, <1>6, <2>1, <2>2 DEF Types
<1>. QED  BY <1>2, <1>3, <1>4, <1>5, <1>6

\* The requests of one more owner.
LEMMA AskedIs ==
    /\ Asked(<< >>) = 0
    /\ \A s \in Seq(OwnerRecord) : Asked(s) \in Nat
    /\ \A s \in Seq(OwnerRecord), o \in OwnerRecord : Asked(Append(s, o)) = Asked(s) + o.requests
<1> DEFINE counts(s) == [i \in DOMAIN s |-> s[i].requests]
<1>1. counts(<< >>) = << >>
  OBVIOUS
<1>2. ASSUME NEW s \in Seq(OwnerRecord) PROVE counts(s) \in Seq(Nat)
  <2>1. \A i \in 1 .. Len(s) : s[i] \in OwnerRecord
    OBVIOUS
  <2>2. \A i \in 1 .. Len(s) : s[i].requests \in Nat
    BY <2>1 DEF OwnerRecord
  <2>. QED  BY <2>2
<1>3. ASSUME NEW s \in Seq(OwnerRecord), NEW o \in OwnerRecord
      PROVE  counts(Append(s, o)) = Append(counts(s), o.requests)
  OBVIOUS
<1>4. \A o \in OwnerRecord : o.requests \in Nat
  BY DEF OwnerRecord
<1>5. \A s : Asked(s) = SumOf(counts(s))
  BY DEF Asked
<1> HIDE DEF counts
<1>. QED  BY <1>1, <1>2, <1>3, <1>4, <1>5, Sums

\* As many owners reached the origin as there are requests, at the most.
LEMMA ReachingAtMost ==
    ASSUME NEW s \in Seq(OwnerRecord)
    PROVE  /\ Cardinality({i \in DOMAIN s : s[i].requests > 0}) <= Asked(s)
           /\ Cardinality({i \in DOMAIN s : s[i].requests > 0}) <= Len(s)
           /\ IsFiniteSet({i \in DOMAIN s : s[i].requests > 0})
           /\ Cardinality({i \in DOMAIN s : s[i].requests > 0}) \in Nat
<1> DEFINE f == [i \in DOMAIN s |-> s[i].requests]
           P(k) == {i \in 1 .. k : f[i] > 0}
<1>1. f \in Seq(Nat) /\ Len(f) = Len(s) /\ DOMAIN s = 1 .. Len(s)
  <2>1. \A i \in 1 .. Len(s) : s[i] \in OwnerRecord
    OBVIOUS
  <2>2. \A i \in 1 .. Len(s) : s[i].requests \in Nat
    BY <2>1 DEF OwnerRecord
  <2>. QED  BY <2>2
<1>2. {i \in DOMAIN s : s[i].requests > 0} = P(Len(s))
  BY <1>1
<1>3. Asked(s) = SumOf(f)
  BY DEF Asked
<1> HIDE DEF f
<1>4. PICK g : g \in [0 .. Len(f) -> Nat] /\ AddsUp(g, f, Len(f))
  <2>1. Len(f) \in 0 .. Len(f)
    BY <1>1
  <2>. QED  BY <1>1, <2>1, SumExists
<1>5. SumOf(f) = g[Len(f)]
  BY <1>1, <1>4, SumIs
<1>a. P(0) = {}
  OBVIOUS
<1>b. \A k \in Nat : /\ f[k + 1] > 0 => P(k + 1) = P(k) \cup {k + 1} /\ k + 1 \notin P(k)
                     /\ ~(f[k + 1] > 0) => P(k + 1) = P(k)
  OBVIOUS
<1> HIDE DEF P
<1> DEFINE N == {k \in Nat : k <= Len(f) => IsFiniteSet(P(k)) /\ Cardinality(P(k)) <= g[k] /\ Cardinality(P(k)) <= k}
<1>6. 0 \in N
  <2>1. IsFiniteSet(P(0)) /\ Cardinality(P(0)) = 0
    BY <1>a, FS_EmptySet
  <2>2. g[0] \in Nat
    BY <1>1, <1>4
  <2>. QED  BY <2>1, <2>2
<1>7. ASSUME NEW k \in Nat, k \in N PROVE k + 1 \in N
  <2> SUFFICES ASSUME k + 1 <= Len(f)
               PROVE  IsFiniteSet(P(k + 1)) /\ Cardinality(P(k + 1)) <= g[k + 1] /\ Cardinality(P(k + 1)) <= k + 1
    OBVIOUS
  <2>1. IsFiniteSet(P(k)) /\ Cardinality(P(k)) <= g[k] /\ Cardinality(P(k)) <= k
    BY <1>7
  <2>2. Cardinality(P(k)) \in Nat
    BY <2>1, FS_CardinalityType
  <2>3. g[k + 1] = g[k] + f[k + 1] /\ g[k] \in Nat /\ f[k + 1] \in Nat
    <3>1. k + 1 \in 0 .. Len(f) /\ k + 1 # 0 /\ k + 1 - 1 = k /\ k \in 0 .. Len(f)
      BY <1>1
    <3>2. g[k + 1] = g[k] + f[k + 1]
      BY <1>4, <3>1, SMTT(30) DEF AddsUp
    <3>. QED  BY <1>1, <1>4, <3>1, <3>2, SMTT(30)
  <2>4. CASE f[k + 1] > 0
    <3>1. P(k + 1) = P(k) \cup {k + 1} /\ k + 1 \notin P(k)
      BY <1>b, <2>4
    <3>2. IsFiniteSet(P(k + 1)) /\ Cardinality(P(k + 1)) = Cardinality(P(k)) + 1
      BY <2>1, <3>1, FS_AddElement
    <3>. QED  BY <2>1, <2>2, <2>3, <2>4, <3>2
  <2>5. CASE ~(f[k + 1] > 0)
    <3>1. P(k + 1) = P(k)
      BY <1>b, <2>5
    <3>. QED  BY <2>1, <2>2, <2>3, <3>1
  <2>. QED  BY <2>4, <2>5
<1> HIDE DEF N
<1>8. Nat \subseteq N
  BY <1>6, <1>7, Induction
<1>9. IsFiniteSet(P(Len(s))) /\ Cardinality(P(Len(s))) <= g[Len(s)] /\ Cardinality(P(Len(s))) <= Len(s)
  BY <1>1, <1>8 DEF N
<1>10. Cardinality(P(Len(s))) \in Nat
  BY <1>9, FS_CardinalityType
<1>. QED  BY <1>1, <1>2, <1>3, <1>5, <1>9, <1>10

\* What the owners and the Media Lab leave is left alone.
Quiet == UNCHANGED <<owners, pending, trace, before, after, kept, late>>

\* The script goes on past a step that is not one of the device, nor of the books.
GoesOn ==
    /\ Quiet /\ device' = device /\ job = "running" /\ job' = job
    /\ trial \in Trials /\ Advance
    /\ Script[step] \notin {"DEVICE", "BEFORE", "AFTER"} /\ (Profile = "N6" => Script[step] # "STOP")

\* A step beside the script, or one that ends it.
Passes ==
    /\ Quiet /\ UNCHANGED <<trial, step, device>>
    /\ (Accepted' => Accepted) /\ (job' = "running" => job = "running")

-------------------------------------------------------------------------------
(* The steps, by what they leave of the owners and of the trace *)

\* Which steps are left, apart from those that do not touch the rows or the owners.
LEMMA StepKinds ==
    ASSUME Types, [Next]_vars
    PROVE  /\ instance' = instance /\ Profile' = Profile
           /\ \/ Passes \/ GoesOn
              \/ RowWritten \/ Before \/ After \/ StopTransport \/ ControllerSettles
              \/ LaunchDevice \/ OwnerFails \/ CallReturns \/ OwnerServed \/ DeviceReturns \/ Verify
<1>1. CASE Clean \/ Start \/ Stop \/ LaunchPulse \/ AwaitArmed \/ WaitPulse \/ Listen \/ WaitController
  <2>1. GoesOn /\ instance' = instance
    BY <1>1 DEF GoesOn, Quiet, Clean, Start, Stop, LaunchPulse, AwaitArmed, WaitPulse, Listen, WaitController, Doing, lab, books
  <2>. QED  BY <2>1 DEF Profile
<1>2. CASE \/ PacketDropped \/ StartMisread \/ StepFails \/ StepRefuses \/ PulseArms \/ PulseSeesDrop \/ PulseFinishes
           \/ PulseFails \/ PulseFailsToArm \/ ControllerDisarms \/ ControllerFails \/ DeviceGivesUp
  <2>1. Passes /\ instance' = instance
    BY <1>2 DEF Passes, Quiet, PacketDropped, StartMisread, StepFails, StepRefuses, PulseArms, PulseSeesDrop, PulseFinishes,
                PulseFails, PulseFailsToArm, ControllerDisarms, ControllerFails, DeviceGivesUp, Accepted, Doing, lab, books
  <2>. QED  BY <2>1 DEF Profile
<1>3. CASE \/ KillProcesses \/ StrayArms \/ RemoveNetem \/ TearDown \/ TearDownFails \/ Ended \/ UNCHANGED vars
  <2>1. Passes /\ instance' = instance
    BY <1>3 DEF Passes, Quiet, KillProcesses, StrayArms, RemoveNetem, TearDown, TearDownFails, Cleaning, Ended, vars, Accepted, lab, books
  <2>. QED  BY <2>1 DEF Profile
<1>4. CASE \/ RowWritten \/ Before \/ After \/ StopTransport \/ ControllerSettles
           \/ LaunchDevice \/ OwnerFails \/ CallReturns \/ OwnerServed \/ DeviceReturns \/ Verify
  <2>1. instance' = instance
    BY <1>4 DEF RowWritten, Before, After, StopTransport, ControllerSettles, LaunchDevice, OwnerFails, CallReturns,
                OwnerServed, DeviceReturns, Verify
  <2>. QED  BY <1>4, <2>1 DEF Profile
<1>. QED  BY <1>1, <1>2, <1>3, <1>4 DEF Next

\* A step of the script that is not its last one is followed by the next one.
LEMMA GoesOnHere ==
    ASSUME Types, GoesOn, instance' = instance
    PROVE  /\ Profile # "N0" /\ step < Len(Script) /\ trial' = trial /\ step' = step + 1
           /\ step # DeviceAt /\ step # BeforeAt /\ step # AfterAt
           /\ step \in Nat /\ trial \in Nat
<1>1. Script[step] \notin {"DEVICE", "BEFORE", "AFTER"} /\ (Profile = "N6" => Script[step] # "STOP") /\ trial \in Trials /\ Advance
  BY DEF GoesOn
<1>2. step # DeviceAt /\ (Profile # "N0" => step # BeforeAt /\ step # AfterAt) /\ (Profile = "N6" => step # 8)
  BY <1>1, Places
<1>3. step \in 1 .. Len(Script) /\ Len(Script) \in 1 .. 8 /\ trial \in Nat
  BY ScriptPlaces DEF Types
<1>4. ASSUME Profile = "N0" PROVE FALSE
  <2>1. DeviceAt = 1 /\ Len(Script) = 1
    BY <1>4, Places DEF DeviceAt
  <2>2. step = 1
    BY <1>3, <2>1
  <2>. QED  BY <1>2, <2>1, <2>2
<1>5. step < Len(Script)
  <2>1. Len(Script) = IF Profile = "N6" THEN 8 ELSE AfterAt
    BY <1>4, Places
  <2>2. step # Len(Script)
    BY <1>2, <1>4, <2>1
  <2>. QED  BY <1>3, <2>2
<1>. QED  BY <1>1, <1>2, <1>3, <1>4, <1>5, Advanced

\* What an owner that ends leaves.
LEMMA OwnerMade ==
    ASSUME Types, Typed, Turn, OwnerFails \/ OwnerServed
    PROVE  /\ trial \in Trials /\ step = DeviceAt /\ device = "running" /\ job = "running" /\ job' = job
           /\ UNCHANGED <<instance, trial, step, fault, trigger, drops, trace, before, after, kept, late>>
           /\ Number = Len(owners[trial]) + 1 /\ Len(owners[trial]) \in Nat
           /\ \E o \in OwnerRecord, served \in BOOLEAN :
                /\ owners' = [owners EXCEPT ![trial] = Append(@, o)]
                /\ pending' = pending \cup Requests(Number, o.requests, served)
                /\ o.correlation # Null => \E n \in 1 .. o.requests : o.correlation = trial * 100 + Number * 10 + n
                /\ o.armed <=> fault = "armed"
                /\ Profile = "N6" => (o.armed <=> OwnerFails)
                /\ Profile = "N6" /\ o.armed => (o.requests > 0 <=> instance.kind # "silent")
                /\ OwnerServed => o.requests > 0 /\ device' = "done"
                /\ OwnerFails => device' \in {"running", "posted"}
<1>1. device = "running" /\ job = "running" /\ job' = job
  BY DEF OwnerFails, OwnerServed
<1>2. trial \in Trials /\ step = DeviceAt
  BY <1>1 DEF Turn
<1>3. owners[trial] \in Seq(OwnerRecord) /\ Len(owners[trial]) \in Nat /\ Number = Len(owners[trial]) + 1
  BY <1>2 DEF Typed, Number
<1>4. instance.replays[trial] \in 0 .. 8
  BY <1>2, InstancesAssumption DEF Types, InstanceRecord, Trials, MaxReplays
<1>5. UNCHANGED <<instance, trial, step, fault, trigger, drops, trace, before, after, kept, late>>
  BY DEF OwnerFails, OwnerServed, OwnerEnds, books, harnessVars
<1>6. CASE OwnerFails
  <2> DEFINE requests == IF instance.kind = "silent" THEN 0
                         ELSE 1 + (IF Profile = "N6" /\ Number = 1 THEN instance.replays[trial] ELSE 0)
             correlation == IF instance.kind = "correlated" THEN trial * 100 + Number * 10 + 1 ELSE Null
             o == Owner(requests, correlation)
  <2>1. requests \in 0 .. 9 /\ (requests > 0 <=> instance.kind # "silent")
    BY <1>4
  <2>2. correlation \in Nat \cup {Null}
    <3>1. trial \in Nat /\ Number \in Nat
      BY <1>2, <1>3 DEF Trials
    <3>2. trial * 100 + Number * 10 + 1 \in Nat
      BY <3>1
    <3>. QED  BY <3>2
  <2>3. o.requests = requests /\ o.correlation = correlation /\ o.armed = (fault = "armed") /\ o \in OwnerRecord
    BY <2>1, <2>2 DEF Owner, OwnerRecord
  <2>4. OwnerEnds(requests, correlation, FALSE)
    BY <1>6 DEF OwnerFails
  <2>5. correlation # Null => requests \in 1 .. 9 /\ 1 \in 1 .. requests /\ correlation = trial * 100 + Number * 10 + 1
    BY <2>1
  <2>6. Profile = "N6" => fault = "armed"
    BY <1>6 DEF OwnerFails, MustFail
  <2>7. ~OwnerServed
    BY <1>6 DEF OwnerFails, OwnerServed
  <2>8. device' \in {"running", "posted"}
    BY <1>6 DEF OwnerFails
  <2>9. /\ owners' = [owners EXCEPT ![trial] = Append(@, o)]
        /\ pending' = pending \cup Requests(Number, requests, FALSE)
    BY <2>4 DEF OwnerEnds
  <2> HIDE DEF requests, correlation, o
  <2>. QED  BY <1>1, <1>2, <1>3, <1>5, <1>6, <2>1, <2>3, <2>5, <2>6, <2>7, <2>8, <2>9
<1>7. CASE OwnerServed
  <2> DEFINE requests == 1 + (IF Profile = "N6" THEN 0 ELSE instance.replays[trial])
             correlation == trial * 100 + Number * 10 + requests
             o == Owner(requests, correlation)
  <2>1. requests \in 1 .. 9
    BY <1>4
  <2>2. correlation \in Nat
    <3>1. trial \in Nat /\ Number \in Nat /\ requests \in Nat
      <4>1. trial \in Nat /\ Number \in Nat
        BY <1>2, <1>3 DEF Trials
      <4>2. \A k \in 1 .. 9 : k \in Nat
        OBVIOUS
      <4>. QED  BY <2>1, <4>1, <4>2
    <3> HIDE DEF requests
    <3>. QED  BY <3>1
  <2>3. o.requests = requests /\ o.correlation = correlation /\ o.armed = (fault = "armed") /\ o \in OwnerRecord
    BY <2>1, <2>2 DEF Owner, OwnerRecord
  <2>4. OwnerEnds(requests, correlation, TRUE)
    BY <1>7 DEF OwnerServed
  <2>5. requests \in 1 .. requests /\ correlation = trial * 100 + Number * 10 + requests
    BY <2>1
  <2>6. Profile = "N6" => fault # "armed"
    BY <1>7 DEF OwnerServed, MustFail
  <2>7. ~OwnerFails /\ device' = "done"
    BY <1>7 DEF OwnerFails, OwnerServed
  <2>8. requests > 0
    BY <2>1
  <2>9. /\ owners' = [owners EXCEPT ![trial] = Append(@, o)]
        /\ pending' = pending \cup Requests(Number, requests, TRUE)
    BY <2>4 DEF OwnerEnds
  <2> HIDE DEF requests, correlation, o
  <2>. QED  BY <1>1, <1>2, <1>3, <1>5, <1>7, <2>3, <2>5, <2>6, <2>7, <2>8, <2>9
<1>. QED  BY <1>6, <1>7

\* One owner more, on the trial that runs.
LEMMA OneMore ==
    ASSUME Typed, NEW t \in Trials, NEW o \in OwnerRecord, owners' = [owners EXCEPT ![t] = Append(@, o)]
    PROVE  /\ owners' \in [Trials -> Seq(OwnerRecord)]
           /\ \A u \in Trials : u # t => owners'[u] = owners[u]
           /\ owners'[t] = Append(owners[t], o) /\ Len(owners'[t]) = Len(owners[t]) + 1
           /\ owners'[t][Len(owners[t]) + 1] = o
           /\ DOMAIN owners'[t] = 1 .. Len(owners[t]) + 1 /\ DOMAIN owners[t] = 1 .. Len(owners[t])
           /\ \A i \in DOMAIN owners[t] : owners'[t][i] = owners[t][i]
           /\ Len(owners[t]) \in Nat
<1>1. owners[t] \in Seq(OwnerRecord) /\ Len(owners[t]) \in Nat /\ DOMAIN owners[t] = 1 .. Len(owners[t])
  BY DEF Typed
<1>2. owners'[t] = Append(owners[t], o) /\ \A u \in Trials : u # t => owners'[u] = owners[u]
  BY DEF Typed
<1>3. Append(owners[t], o) \in Seq(OwnerRecord) /\ Len(Append(owners[t], o)) = Len(owners[t]) + 1
  BY <1>1
<1>4. owners' \in [Trials -> Seq(OwnerRecord)]
  BY <1>3 DEF Typed
<1>5. /\ Append(owners[t], o)[Len(owners[t]) + 1] = o
      /\ \A i \in DOMAIN owners[t] : Append(owners[t], o)[i] = owners[t][i]
      /\ DOMAIN Append(owners[t], o) = 1 .. Len(owners[t]) + 1
  BY <1>1
<1>. QED  BY <1>1, <1>2, <1>3, <1>4, <1>5

\* The requests of an owner: as many rows as it made.
LEMMA RequestsAre ==
    ASSUME trial \in Trials, NEW owner \in Nat, NEW count \in 0 .. 9, NEW served
    PROVE  /\ Requests(owner, count, served) \subseteq RowRecord
           /\ \A row \in Requests(owner, count, served) : row.trial = trial /\ row.owner = owner /\ row.n \in 1 .. count
           /\ \A n \in 1 .. count : \E row \in Requests(owner, count, served) : row.trial = trial /\ row.owner = owner /\ row.n = n
           /\ IsFiniteSet(Requests(owner, count, served)) /\ Cardinality(Requests(owner, count, served)) = count
<1> DEFINE f == [n \in 1 .. count |-> [trial |-> trial, owner |-> owner, n |-> n, cut |-> n < count \/ ~served]]
           S == Requests(owner, count, served)
<1>1. \A n \in 1 .. count : f[n] \in S /\ f[n].trial = trial /\ f[n].owner = owner /\ f[n].n = n
  BY DEF Requests
<1>2. \A row \in S : \E n \in 1 .. count : row = f[n]
  BY DEF Requests
<1>3. \A n \in 1 .. count : f[n] \in RowRecord
  BY DEF RowRecord, Trials
<1>4. f \in Bijection(1 .. count, S)
  <2>1. f \in [1 .. count -> S]
    BY <1>1
  <2>2. \A m, n \in 1 .. count : f[m] = f[n] => m = n
    BY <1>1
  <2> HIDE DEF f, S
  <2>. QED  BY <1>2, <2>1, <2>2 DEF Bijection, Injection, Surjection, IsInjective
<1>5. IsFiniteSet(1 .. count) /\ Cardinality(1 .. count) = count
  <2>1. 1 \in Int /\ count \in Int
    OBVIOUS
  <2>2. IsFiniteSet(1 .. count) /\ Cardinality(1 .. count) = IF 1 > count THEN 0 ELSE count - 1 + 1
    BY <2>1, FS_Interval
  <2>. QED  BY <2>2
<1>6. IsFiniteSet(S) /\ Cardinality(S) = count
  <2> HIDE DEF f, S
  <2>1. ExistsBijection(1 .. count, S)
    BY <1>4 DEF ExistsBijection
  <2>. QED  BY <1>5, <2>1, FS_Bijection
<1> HIDE DEF f
<1>. QED  BY <1>1, <1>2, <1>3, <1>6

\* The variables keep their types.
LEMMA TypedStep == ASSUME Types, Typed, Turn, [Next]_vars PROVE Typed'
<1>1. CASE Passes \/ GoesOn
  BY <1>1 DEF Typed, Passes, GoesOn, Quiet
<1>2. CASE RowWritten
  <2>1. PICK row \in pending : pending' = pending \ {row} /\ trace' = Append(trace, row)
    BY <1>2 DEF RowWritten
  <2>2. row \in RowRecord /\ IsFiniteSet(pending')
    BY <2>1, FS_RemoveElement DEF Typed
  <2>3. UNCHANGED <<owners, device, before, after, kept, late>>
    BY <1>2 DEF RowWritten, books
  <2>4. trace' \in Seq(RowRecord) /\ pending' \subseteq RowRecord
    BY <2>1, <2>2 DEF Typed
  <2>. QED  BY <2>2, <2>3, <2>4 DEF Typed
<1>3. CASE Before
  <2>1. Len(trace) \in Nat
    BY DEF Typed
  <2>2. before' \in Seq(Nat)
    BY <1>3, <2>1 DEF Before, Typed
  <2>. QED  BY <1>3, <2>2 DEF Before, Typed, lab
<1>4. ASSUME NEW r, kept' = Append(kept, r) PROVE \E S : kept' \in Seq(S)
  <2>1. PICK S : kept \in Seq(S)
    BY DEF Typed
  <2>2. PICK T : T = S \cup {r}
    OBVIOUS
  <2>3. kept \in Seq(T) /\ r \in T
    <3>1. \A i \in 1 .. Len(kept) : kept[i] \in T
      BY <2>1, <2>2
    <3>. QED  BY <2>1, <2>2, <3>1
  <2>. QED  BY <1>4, <2>3
<1>5. CASE After
  <2>1. Len(trace) \in Nat
    BY DEF Typed
  <2>2. after' \in Seq(Nat)
    BY <1>5, <2>1 DEF After, Typed
  <2>3. late' \subseteq RowRecord /\ IsFiniteSet(late')
    <3>1. late' = late \cup pending
      BY <1>5 DEF After
    <3>. QED  BY <3>1, FS_Union DEF Typed
  <2>4. \E S : kept' \in Seq(S)
    <3>1. CASE Profile = "N6"
      BY <1>5, <3>1 DEF After, Typed
    <3>2. CASE Profile # "N6"
      BY <1>4, <1>5, <3>2 DEF After
    <3>. QED  BY <3>1, <3>2
  <2>5. UNCHANGED <<owners, device, pending, trace, before>>
    BY <1>5 DEF After, lab
  <2>. QED  BY <2>2, <2>3, <2>4, <2>5 DEF Typed
<1>6. CASE StopTransport
  <2>1. \E S : kept' \in Seq(S)
    BY <1>4, <1>6 DEF StopTransport
  <2>2. UNCHANGED <<owners, device, pending, trace, before, after, late>>
    BY <1>6 DEF StopTransport, lab
  <2>. QED  BY <2>1, <2>2 DEF Typed
<1>7. CASE ControllerSettles
  <2>1. PICK S : S \subseteq pending /\ late' = late \cup S
    BY <1>7 DEF ControllerSettles
  <2>2. IsFiniteSet(S) /\ IsFiniteSet(late') /\ late' \subseteq RowRecord
    BY <2>1, FS_Subset, FS_Union DEF Typed
  <2>3. UNCHANGED <<owners, device, pending, trace, before, after, kept>>
    BY <1>7 DEF ControllerSettles, lab
  <2>. QED  BY <2>2, <2>3 DEF Typed
<1>8. CASE LaunchDevice \/ CallReturns \/ DeviceReturns
  BY <1>8 DEF LaunchDevice, CallReturns, DeviceReturns, Typed, lab, books
<1>9. CASE OwnerFails \/ OwnerServed
  <2>1. PICK o \in OwnerRecord, served \in BOOLEAN :
            /\ owners' = [owners EXCEPT ![trial] = Append(@, o)]
            /\ pending' = pending \cup Requests(Number, o.requests, served)
            /\ OwnerServed => device' = "done"
            /\ OwnerFails => device' \in {"running", "posted"}
    BY <1>9, OwnerMade
  <2>2. trial \in Trials /\ Number \in Nat /\ o.requests \in 0 .. 9
    BY <1>9, OwnerMade DEF OwnerRecord
  <2>3. owners' \in [Trials -> Seq(OwnerRecord)]
    BY <2>1, <2>2, OneMore
  <2>4. pending' \subseteq RowRecord /\ IsFiniteSet(pending')
    BY <2>1, <2>2, RequestsAre, FS_Union DEF Typed
  <2>5. UNCHANGED <<trace, before, after, kept, late>>
    BY <1>9, OwnerMade
  <2>6. device' \in {"running", "posted", "done"}
    BY <1>9, <2>1
  <2>. QED  BY <2>3, <2>4, <2>5, <2>6 DEF Typed
<1>10. CASE Verify
  <2>1. late' = IF Profile = "N0" THEN pending ELSE late
    BY <1>10 DEF Verify
  <2>2. UNCHANGED <<owners, device, pending, trace, before, after, kept>>
    BY <1>10 DEF Verify, lab
  <2>. QED  BY <2>1, <2>2 DEF Typed
<1>. QED  BY <1>1, <1>2, <1>3, <1>5, <1>6, <1>7, <1>8, <1>9, <1>10, StepKinds

\* Where the script stands, as numbers.
LEMMA PlaceIs ==
    ASSUME Types
    PROVE  /\ trial \in Nat /\ step \in Nat /\ step >= 1 /\ step <= Len(Script) /\ trial \in 1 .. 5 /\ Len(Script) \in Nat
           /\ DeviceAt \in Nat /\ BeforeAt \in Nat /\ AfterAt \in Nat
           /\ DeviceAt >= 1 /\ BeforeAt >= 1
           /\ Profile # "N0" => BeforeAt < DeviceAt /\ DeviceAt < AfterAt /\ AfterAt <= Len(Script)
           /\ Profile \notin {"N0", "N6"} => AfterAt = Len(Script)
           /\ Profile = "N6" => AfterAt = 7 /\ Len(Script) = 8 /\ DeviceAt = 5
           /\ Profile = "N0" => DeviceAt = 1 /\ Len(Script) = 1
<1>1. Len(Script) \in 1 .. 8 /\ step \in 1 .. Len(Script) /\ trial \in 1 .. 5
  BY ScriptPlaces DEF Types
<1>2. /\ DeviceAt \in Nat /\ BeforeAt \in Nat /\ AfterAt \in Nat /\ DeviceAt >= 1 /\ BeforeAt >= 1
      /\ Profile = "N6" => DeviceAt = 5
      /\ Profile = "N0" => DeviceAt = 1
  BY DEF DeviceAt, BeforeAt, AfterAt
<1>3. /\ Profile # "N0" => BeforeAt < DeviceAt /\ DeviceAt < AfterAt
      /\ Profile = "N6" => AfterAt = 7
      /\ Len(Script) = IF Profile = "N0" THEN 1 ELSE IF Profile = "N6" THEN 8 ELSE AfterAt
  BY Places
<1>. QED  BY <1>1, <1>2, <1>3

\* The places do not move.
LEMMA PlacesStay ==
    ASSUME instance' = instance
    PROVE  Profile' = Profile /\ DeviceAt' = DeviceAt /\ BeforeAt' = BeforeAt /\ AfterAt' = AfterAt /\ Script' = Script
<1>1. Profile' = Profile
  BY DEF Profile
<1>. QED  BY <1>1 DEF DeviceAt, BeforeAt, AfterAt, Script

\* Where the steps that are named stand.
LEMMA NamedPlaces ==
    ASSUME Types, instance' = instance
    PROVE  /\ DeviceReturns => /\ step = DeviceAt /\ trial \in Trials /\ job = "running" /\ job' = job /\ device = "done" /\ device' = "idle"
                               /\ Profile # "N0" => trial' = trial /\ step' = step + 1
                               /\ Profile = "N0" => trial' = trial + 1 /\ step' = 1
           /\ LaunchDevice => /\ step = DeviceAt /\ trial \in Trials /\ job = "running" /\ job' = job /\ device' = "running"
                              /\ UNCHANGED <<trial, step>>
           /\ Before => /\ Profile # "N0" /\ step = BeforeAt /\ trial \in Trials /\ job = "running" /\ job' = job
                        /\ trial' = trial /\ step' = step + 1
           /\ After => /\ Profile # "N0" /\ step = AfterAt /\ trial \in Trials /\ job = "running" /\ job' = job
                       /\ Profile = "N6" => trial' = trial /\ step' = step + 1
                       /\ Profile # "N6" => trial' = trial + 1 /\ step' = 1
           /\ StopTransport => /\ Profile = "N6" /\ step = 8 /\ trial \in Trials /\ job = "running" /\ job' = job
                               /\ trial' = trial + 1 /\ step' = 1
<1>1. ASSUME NEW name, Doing(name) PROVE trial \in Trials /\ job = "running" /\ Script[step] = name
  BY <1>1 DEF Doing
<1>2. ASSUME trial \in Trials, Advance
      PROVE  /\ step < Len(Script) => trial' = trial /\ step' = step + 1
             /\ step = Len(Script) => trial' = trial + 1 /\ step' = 1
  BY <1>2, Advanced
<1>3. ASSUME DeviceReturns
      PROVE  /\ step = DeviceAt /\ trial \in Trials /\ job = "running" /\ job' = job /\ device = "done" /\ device' = "idle"
             /\ Profile # "N0" => trial' = trial /\ step' = step + 1
             /\ Profile = "N0" => trial' = trial + 1 /\ step' = 1
  <2>1. Doing("DEVICE") /\ Advance /\ job' = job /\ device = "done" /\ device' = "idle"
    BY <1>3 DEF DeviceReturns
  <2>2. step = DeviceAt /\ trial \in Trials /\ job = "running"
    BY <1>1, <2>1, Places
  <2>3. DeviceAt \in Nat /\ AfterAt \in Nat /\ Len(Script) \in Nat
    BY PlaceIs
  <2>4. Profile # "N0" => DeviceAt < AfterAt /\ AfterAt <= Len(Script)
    BY PlaceIs
  <2>5. Profile = "N0" => DeviceAt = 1 /\ Len(Script) = 1
    BY PlaceIs
  <2>6. (Profile # "N0" => step < Len(Script)) /\ (Profile = "N0" => step = Len(Script))
    <3>1. ASSUME Profile # "N0" PROVE step < Len(Script)
      BY <2>2, <2>3, <2>4, <3>1
    <3>2. ASSUME Profile = "N0" PROVE step = Len(Script)
      BY <2>2, <2>5, <3>2
    <3>. QED  BY <3>1, <3>2
  <2>. QED  BY <1>2, <2>1, <2>2, <2>6
<1>4. ASSUME LaunchDevice
      PROVE  /\ step = DeviceAt /\ trial \in Trials /\ job = "running" /\ job' = job /\ device' = "running"
             /\ UNCHANGED <<trial, step>>
  <2>1. Doing("DEVICE") /\ job' = job /\ device' = "running" /\ UNCHANGED <<trial, step>>
    BY <1>4 DEF LaunchDevice
  <2>. QED  BY <1>1, <2>1, Places
<1>5. ASSUME Before
      PROVE  /\ Profile # "N0" /\ step = BeforeAt /\ trial \in Trials /\ job = "running" /\ job' = job
             /\ trial' = trial /\ step' = step + 1
  <2>1. Doing("BEFORE") /\ Advance /\ job' = job
    BY <1>5 DEF Before
  <2>2. step = BeforeAt /\ Profile # "N0"
    BY <1>1, <2>1, Places
  <2>. QED  BY <1>1, <1>2, <2>1, <2>2, PlaceIs
<1>6. ASSUME After
      PROVE  /\ Profile # "N0" /\ step = AfterAt /\ trial \in Trials /\ job = "running" /\ job' = job
             /\ Profile = "N6" => trial' = trial /\ step' = step + 1
             /\ Profile # "N6" => trial' = trial + 1 /\ step' = 1
  <2>1. Doing("AFTER") /\ Advance /\ job' = job
    BY <1>6 DEF After
  <2>2. step = AfterAt /\ Profile # "N0" /\ trial \in Trials /\ job = "running"
    BY <1>1, <2>1, Places
  <2>3. Profile = "N6" => AfterAt = 7 /\ Len(Script) = 8
    BY PlaceIs
  <2>4. Profile \notin {"N0", "N6"} => AfterAt = Len(Script)
    BY PlaceIs
  <2>6. (Profile = "N6" => step < Len(Script)) /\ (Profile # "N6" => step = Len(Script))
    BY <2>2, <2>3, <2>4
  <2>. QED  BY <1>2, <2>1, <2>2, <2>6
<1>7. ASSUME StopTransport
      PROVE  /\ Profile = "N6" /\ step = 8 /\ trial \in Trials /\ job = "running" /\ job' = job
             /\ trial' = trial + 1 /\ step' = 1
  <2>1. Doing("STOP") /\ Advance /\ job' = job /\ Profile = "N6"
    BY <1>7 DEF StopTransport
  <2>2. step = 8
    BY <1>1, <2>1, Places
  <2>. QED  BY <1>1, <1>2, <2>1, <2>2, PlaceIs
<1>. QED  BY <1>3, <1>4, <1>5, <1>6, <1>7

\* Owners run at the step of the device.
LEMMA TurnStep == ASSUME Types, Typed, Turn, [Next]_vars PROVE Turn'
<1>1. instance' = instance /\ DeviceAt' = DeviceAt
  BY StepKinds, PlacesStay
<1>2. CASE Passes
  BY <1>1, <1>2 DEF Turn, Passes, Quiet
<1>3. CASE GoesOn
  <2>1. /\ trial' = trial /\ step' = step + 1 /\ step # DeviceAt /\ step \in Nat /\ trial \in Nat
        /\ device' = device /\ owners' = owners /\ DeviceAt \in Nat
    BY <1>1, <1>3, GoesOnHere, PlaceIs DEF GoesOn, Quiet
  <2>. QED  BY <1>1, <2>1 DEF Turn, Trials
<1>4. CASE RowWritten \/ ControllerSettles \/ Verify
  <2>1. UNCHANGED <<trial, step, device, owners>>
    BY <1>4 DEF RowWritten, ControllerSettles, Verify
  <2>. QED  BY <1>1, <2>1 DEF Turn
<1>5. CASE Before \/ After \/ StopTransport
  <2>1. UNCHANGED <<device, owners>>
    BY <1>5 DEF Before, After, StopTransport
  <2>2. device = "idle"
    BY <1>1, <1>5, NamedPlaces, PlaceIs DEF Turn
  <2>3. trial \in Nat /\ step \in Nat /\ DeviceAt \in Nat
    BY PlaceIs
  <2>4. \/ trial' = trial /\ step' = step + 1 /\ step # DeviceAt
        \/ trial' = trial + 1
    BY <1>1, <1>5, NamedPlaces, PlaceIs
  <2>. QED  BY <1>1, <2>1, <2>2, <2>3, <2>4 DEF Turn, Trials
<1>6. CASE LaunchDevice \/ CallReturns
  <2>1. UNCHANGED <<trial, step, owners>> /\ (device' # "idle" => trial \in Trials /\ step = DeviceAt)
    BY <1>1, <1>6, NamedPlaces DEF LaunchDevice, CallReturns, Turn
  <2>2. \A t \in Trials : t > trial \/ (t = trial /\ (step < DeviceAt \/ (step = DeviceAt /\ device' = "idle"))) => owners[t] = << >>
    BY <1>6 DEF LaunchDevice, CallReturns, Turn
  <2>. QED  BY <1>1, <2>1, <2>2 DEF Turn
<1>7. CASE OwnerFails \/ OwnerServed
  <2>1. PICK o \in OwnerRecord : owners' = [owners EXCEPT ![trial] = Append(@, o)]
    BY <1>7, OwnerMade
  <2>2. trial \in Trials /\ step = DeviceAt /\ UNCHANGED <<trial, step>> /\ device' # "idle"
    BY <1>7, OwnerMade
  <2>3. \A u \in Trials : u # trial => owners'[u] = owners[u]
    BY <2>1, <2>2, OneMore
  <2>4. DeviceAt \in Nat /\ trial \in Nat
    BY PlaceIs
  <2>. QED  BY <1>1, <2>2, <2>3, <2>4 DEF Turn, Trials
<1>8. CASE DeviceReturns
  <2>1. owners' = owners /\ step = DeviceAt /\ device' = "idle" /\ trial \in Nat /\ DeviceAt \in Nat
    BY <1>1, <1>8, NamedPlaces, PlaceIs DEF DeviceReturns
  <2>2. (trial' = trial /\ step' = step + 1) \/ trial' = trial + 1
    BY <1>1, <1>8, NamedPlaces
  <2>. QED  BY <1>1, <2>1, <2>2 DEF Turn, Trials
<1>. QED  BY <1>2, <1>3, <1>4, <1>5, <1>6, <1>7, <1>8, StepKinds

\* An owner of a trial that came back was served: it asked the origin, past the toxic.
LEMMA AllServedStep == ASSUME Types, Typed, Turn, AllServed, [Next]_vars PROVE AllServed'
<1>1. instance' = instance /\ DeviceAt' = DeviceAt /\ Profile' = Profile
  BY StepKinds, PlacesStay
<1>2. owners' = owners => \A t : Served(t)' = Served(t)
  BY <1>1 DEF Served
<1>3. CASE Passes
  <2>1. UNCHANGED <<owners, trial, step, device>>
    BY <1>3 DEF Passes, Quiet
  <2>. QED  BY <1>1, <1>2, <2>1 DEF AllServed
<1>4. CASE GoesOn
  <2>1. /\ trial' = trial /\ step' = step + 1 /\ step # DeviceAt /\ step \in Nat /\ trial \in Nat
        /\ device' = device /\ owners' = owners /\ DeviceAt \in Nat
    BY <1>1, <1>4, GoesOnHere, PlaceIs DEF GoesOn, Quiet
  <2>. QED  BY <1>1, <1>2, <2>1 DEF AllServed, Trials
<1>5. CASE RowWritten \/ ControllerSettles \/ Verify
  <2>1. UNCHANGED <<trial, step, device, owners>>
    BY <1>5 DEF RowWritten, ControllerSettles, Verify
  <2>. QED  BY <1>1, <1>2, <2>1 DEF AllServed
<1>6. CASE Before \/ After \/ StopTransport
  <2>1. UNCHANGED <<device, owners>>
    BY <1>6 DEF Before, After, StopTransport
  <2>2. device = "idle"
    BY <1>1, <1>6, NamedPlaces, PlaceIs DEF Turn
  <2>3. trial \in Nat /\ step \in Nat /\ DeviceAt \in Nat
    BY PlaceIs
  <2>4. \/ trial' = trial /\ step' = step + 1 /\ step # DeviceAt
        \/ trial' = trial + 1 /\ step' = 1 /\ step > DeviceAt /\ DeviceAt >= 1
    BY <1>1, <1>6, NamedPlaces, PlaceIs
  <2>. QED  BY <1>1, <1>2, <2>1, <2>2, <2>3, <2>4 DEF AllServed, Trials
<1>7. CASE LaunchDevice \/ CallReturns
  <2>1. UNCHANGED <<trial, step, owners>> /\ device' = "running"
    BY <1>1, <1>7, NamedPlaces DEF LaunchDevice, CallReturns
  <2>. QED  BY <1>1, <1>2, <2>1 DEF AllServed
<1>8. CASE OwnerFails \/ OwnerServed
  <2>1. PICK o \in OwnerRecord :
            /\ owners' = [owners EXCEPT ![trial] = Append(@, o)]
            /\ Profile = "N6" => (o.armed <=> OwnerFails)
            /\ OwnerServed => o.requests > 0 /\ device' = "done"
            /\ OwnerFails => device' \in {"running", "posted"}
    BY <1>8, OwnerMade
  <2>2. trial \in Trials /\ step = DeviceAt /\ UNCHANGED <<trial, step>>
    BY <1>8, OwnerMade
  <2>3. \A u \in Trials : u # trial => Served(u)' = Served(u)
    BY <1>1, <2>1, <2>2, OneMore DEF Served
  <2>4. \A t \in Trials : t < trial => t # trial /\ Served(t)'
    BY <2>3, PlaceIs DEF AllServed, Trials
  <2>5. ASSUME device' = "done" PROVE Served(trial)'
    <3>1. OwnerServed /\ ~OwnerFails
      BY <1>8, <2>1, <2>5
    <3>2. owners'[trial] # << >> /\ owners'[trial][Len(owners'[trial])] = o
      <4>1. Len(owners'[trial]) = Len(owners[trial]) + 1 /\ owners'[trial][Len(owners[trial]) + 1] = o /\ Len(owners[trial]) \in Nat
        BY <2>1, <2>2, OneMore
      <4>2. Len(owners'[trial]) # 0
        BY <4>1
      <4>. QED  BY <4>1, <4>2
    <3>. QED  BY <1>1, <2>1, <2>2, <3>1, <3>2 DEF Served
  <2>6. step = DeviceAt /\ DeviceAt \in Nat
    BY <2>2, PlaceIs
  <2>. QED  BY <1>1, <2>2, <2>4, <2>5, <2>6 DEF AllServed
<1>9. CASE DeviceReturns
  <2>1. owners' = owners /\ step = DeviceAt /\ device = "done" /\ device' = "idle" /\ trial \in Nat /\ DeviceAt \in Nat /\ DeviceAt >= 1
    BY <1>1, <1>9, NamedPlaces, PlaceIs DEF DeviceReturns
  <2>2. (trial' = trial /\ step' = step + 1) \/ (trial' = trial + 1 /\ step' = 1)
    BY <1>1, <1>9, NamedPlaces
  <2>3. Served(trial)
    BY <2>1 DEF AllServed
  <2>. QED  BY <1>1, <1>2, <2>1, <2>2, <2>3 DEF AllServed, Trials
<1>. QED  BY <1>3, <1>4, <1>5, <1>6, <1>7, <1>8, <1>9, StepKinds

\* What an owner tells stays told.
LEMMA OwnersTellStep == ASSUME Types, Typed, Turn, OwnersTell, [Next]_vars PROVE OwnersTell'
<1>1. instance' = instance /\ Profile' = Profile
  BY StepKinds
<1>2. CASE owners' = owners
  BY <1>1, <1>2 DEF OwnersTell
<1>3. CASE OwnerFails \/ OwnerServed
  <2>1. PICK o \in OwnerRecord :
            /\ owners' = [owners EXCEPT ![trial] = Append(@, o)]
            /\ o.correlation # Null => \E n \in 1 .. o.requests : o.correlation = trial * 100 + Number * 10 + n
            /\ Profile = "N6" /\ o.armed => (o.requests > 0 <=> instance.kind # "silent")
    BY <1>3, OwnerMade
  <2>2. trial \in Trials /\ Number = Len(owners[trial]) + 1
    BY <1>3, OwnerMade
  <2>3. ASSUME NEW t \in Trials, NEW i \in DOMAIN owners'[t]
        PROVE  /\ owners'[t][i].correlation # Null =>
                    \E n \in 1 .. owners'[t][i].requests : owners'[t][i].correlation = t * 100 + i * 10 + n
               /\ Profile = "N6" /\ owners'[t][i].armed => (owners'[t][i].requests > 0 <=> instance.kind # "silent")
    <3>1. CASE t = trial /\ i = Number
      <4>1. owners'[t][i] = o
        BY <2>1, <2>2, <3>1, OneMore
      <4>. QED  BY <2>1, <3>1, <4>1
    <3>2. CASE ~(t = trial /\ i = Number)
      <4>1. i \in DOMAIN owners[t] /\ owners'[t][i] = owners[t][i]
        BY <2>1, <2>2, <2>3, <3>2, OneMore
      <4>. QED  BY <4>1 DEF OwnersTell
    <3>. QED  BY <3>1, <3>2
  <2>. QED  BY <1>1, <2>3 DEF OwnersTell
<1>4. \/ owners' = owners \/ OwnerFails \/ OwnerServed
  BY StepKinds DEF Passes, GoesOn, Quiet, RowWritten, Before, After, StopTransport, ControllerSettles, LaunchDevice,
                   CallReturns, DeviceReturns, Verify
<1>. QED  BY <1>2, <1>3, <1>4

-------------------------------------------------------------------------------
(* What the trials have made so far *)

\* What the trials made so far, when one of them makes more.
LEMMA MadeIs ==
    ASSUME Typed
    PROVE  /\ \A t \in Trials : Asked(owners[t]) \in Nat
           /\ \A t \in 0 .. 4 : Made(t) \in Nat
           /\ \A t \in 1 .. 4 : Made(t) = Made(t - 1) + Asked(owners[t])
           /\ Made(0) = 0
<1>1. \A t \in Trials : Asked(owners[t]) \in Nat
  BY AskedIs DEF Typed
<1>2. \A t, u \in 0 .. 4 : Upto(t, u) = IF u <= t THEN Asked(owners[u]) ELSE 0
  BY DEF Upto
<1>3. 1 \in Trials /\ 2 \in Trials /\ 3 \in Trials /\ 4 \in Trials
  BY DEF Trials
<1>4. /\ Made(0) = 0 /\ Made(1) = Asked(owners[1]) /\ Made(2) = Asked(owners[1]) + Asked(owners[2])
      /\ Made(3) = Asked(owners[1]) + Asked(owners[2]) + Asked(owners[3])
      /\ Made(4) = Asked(owners[1]) + Asked(owners[2]) + Asked(owners[3]) + Asked(owners[4])
  BY <1>1, <1>2, <1>3 DEF Made
<1>. QED  BY <1>1, <1>3, <1>4

\* One owner more adds its requests to those of its trial, and of the later ones.
LEMMA MadeMore ==
    ASSUME Typed, NEW t \in Trials, NEW o \in OwnerRecord, owners' = [owners EXCEPT ![t] = Append(@, o)]
    PROVE  /\ \A u \in 0 .. 4 : u < t => Made(u)' = Made(u)
           /\ Made(4)' = Made(4) + o.requests
<1>1. \A u \in Trials : Asked(owners[u]) \in Nat
  BY AskedIs DEF Typed
<1>2. /\ \A u \in Trials : u # t => owners'[u] = owners[u]
      /\ owners'[t] = Append(owners[t], o) /\ owners[t] \in Seq(OwnerRecord)
  BY OneMore DEF Typed
<1>3. Asked(owners'[t]) = Asked(owners[t]) + o.requests /\ o.requests \in Nat
  <2>1. o.requests \in Nat
    BY DEF OwnerRecord
  <2>2. Asked(Append(owners[t], o)) = Asked(owners[t]) + o.requests
    BY <1>2, AskedIs
  <2>. QED  BY <1>2, <2>1, <2>2
<1>4. \A u \in Trials : Asked(owners'[u]) = IF u = t THEN Asked(owners[t]) + o.requests ELSE Asked(owners[u])
  BY <1>2, <1>3
<1>5. \A u, v \in 0 .. 4 : /\ Upto(u, v) = IF v <= u THEN Asked(owners[v]) ELSE 0
                           /\ Upto(u, v)' = IF v <= u THEN Asked(owners'[v]) ELSE 0
  BY DEF Upto, Asked
<1>6. 1 \in Trials /\ 2 \in Trials /\ 3 \in Trials /\ 4 \in Trials /\ t \in {1, 2, 3, 4}
  BY DEF Trials
<1>7. \A u \in 0 .. 4 : /\ Made(u) = Upto(u, 1) + Upto(u, 2) + Upto(u, 3) + Upto(u, 4)
                        /\ Made(u)' = Upto(u, 1)' + Upto(u, 2)' + Upto(u, 3)' + Upto(u, 4)'
  BY DEF Made
<1>8. ASSUME NEW u \in 0 .. 4, u < t PROVE Made(u)' = Made(u)
  <2>1. ASSUME NEW v \in 1 .. 4 PROVE Upto(u, v)' = Upto(u, v)
    <3>1. v <= u => v # t /\ v \in Trials
      BY <1>6, <1>8 DEF Trials
    <3>. QED  BY <1>4, <1>5, <3>1
  <2>. QED  BY <1>7, <2>1
<1>9. Made(4)' = Made(4) + o.requests
  <2>1. \A v \in Trials : Upto(4, v) = Asked(owners[v]) /\ Upto(4, v)' = Asked(owners'[v])
    BY <1>5 DEF Trials
  <2>2. PICK a, b, c, d \in Nat : /\ a = Asked(owners[1]) /\ b = Asked(owners[2])
                                 /\ c = Asked(owners[3]) /\ d = Asked(owners[4])
    BY <1>1, <1>6
  <2>3. Made(4) = a + b + c + d
    BY <1>6, <1>7, <2>1, <2>2
  <2>4. Made(4)' = Asked(owners'[1]) + Asked(owners'[2]) + Asked(owners'[3]) + Asked(owners'[4])
    BY <1>6, <1>7, <2>1
  <2>5. /\ Asked(owners'[1]) = IF t = 1 THEN a + o.requests ELSE a
        /\ Asked(owners'[2]) = IF t = 2 THEN b + o.requests ELSE b
        /\ Asked(owners'[3]) = IF t = 3 THEN c + o.requests ELSE c
        /\ Asked(owners'[4]) = IF t = 4 THEN d + o.requests ELSE d
    BY <1>4, <1>6, <2>2
  <2>. QED  BY <1>3, <1>6, <2>3, <2>4, <2>5, SMTT(30)
<1>. QED  BY <1>8, <1>9

\* A row of a trial is there once its owner is.
LEMMA RequestsOfStarted ==
    ASSUME Types, Typed, Turn, NEW row, IsRequest(row)
    PROVE  row.trial \in Trials /\ row.trial <= trial
<1>1. row.trial \in Trials /\ owners[row.trial] # << >>
  BY DEF IsRequest
<1>2. ~(row.trial > trial)
  BY <1>1 DEF Turn
<1>. QED  BY <1>1, <1>2, PlaceIs DEF Trials

\* Requests stay what they are when another owner ends.
LEMMA IsRequestStays ==
    ASSUME Typed, Typed', NEW t \in Trials, NEW o \in OwnerRecord, owners' = [owners EXCEPT ![t] = Append(@, o)],
           NEW row, IsRequest(row)
    PROVE  IsRequest(row)'
<1>1. row.trial \in Trials /\ row.owner \in DOMAIN owners[row.trial] /\ row.n \in 1 .. owners[row.trial][row.owner].requests
  BY DEF IsRequest
<1>2. row.owner \in DOMAIN owners'[row.trial] /\ owners'[row.trial][row.owner] = owners[row.trial][row.owner]
  BY <1>1, OneMore
<1>. QED  BY <1>1, <1>2 DEF IsRequest

\* Every request is a row of the trace or will be one: the Media Lab invents and
\* loses none.
LEMMA CountedStep == ASSUME Types, Typed, Typed', Turn, Counted, [Next]_vars PROVE Counted'
<1>1. CASE UNCHANGED <<owners, pending, trace>>
  <2>1. Made(4)' = Made(4)
    BY <1>1 DEF Made, Upto, Asked
  <2>2. \A row : IsRequest(row)' = IsRequest(row)
    BY <1>1 DEF IsRequest
  <2>. QED  BY <1>1, <2>1, <2>2 DEF Counted
<1>2. CASE RowWritten
  <2>1. PICK row \in pending : pending' = pending \ {row} /\ trace' = Append(trace, row)
    BY <1>2 DEF RowWritten
  <2>2. owners' = owners
    BY <1>2 DEF RowWritten
  <2>3. Made(4)' = Made(4)
    BY <2>2 DEF Made, Upto, Asked
  <2>4. \A r : IsRequest(r)' = IsRequest(r)
    BY <2>2 DEF IsRequest
  <2>5. Cardinality(pending') = Cardinality(pending) - 1 /\ Cardinality(pending) \in Nat
    BY <2>1, FS_RemoveElement, FS_CardinalityType DEF Typed
  <2>6. trace \in Seq(RowRecord) /\ row \in RowRecord /\ Len(trace') = Len(trace) + 1 /\ Len(trace) \in Nat
    BY <2>1 DEF Typed
  <2>7. /\ \A i \in DOMAIN trace' : (i \in DOMAIN trace /\ trace'[i] = trace[i]) \/ trace'[i] = row
        /\ trace # << >> => trace' # << >> /\ trace'[1] = trace[1]
    BY <2>1, <2>6
  <2>8. Len(trace') + Cardinality(pending') = Len(trace) + Cardinality(pending)
    BY <2>5, <2>6
  <2>. QED  BY <2>1, <2>3, <2>4, <2>7, <2>8 DEF Counted
<1>3. CASE OwnerFails \/ OwnerServed
  <2>1. PICK o \in OwnerRecord, served \in BOOLEAN :
            /\ owners' = [owners EXCEPT ![trial] = Append(@, o)]
            /\ pending' = pending \cup Requests(Number, o.requests, served)
    BY <1>3, OwnerMade
  <2>2. /\ trial \in Trials /\ Number = Len(owners[trial]) + 1 /\ Number \in Nat /\ o.requests \in 0 .. 9 /\ trace' = trace
        /\ Len(owners[trial]) \in Nat
    BY <1>3, OwnerMade DEF OwnerRecord
  <2> DEFINE R == Requests(Number, o.requests, served)
  <2>3. /\ \A row \in R : row.trial = trial /\ row.owner = Number /\ row.n \in 1 .. o.requests
        /\ IsFiniteSet(R) /\ Cardinality(R) = o.requests
    <3>1. PICK c \in 0 .. 9 : c = o.requests
      BY <2>2
    <3>2. /\ \A row \in Requests(Number, c, served) : row.trial = trial /\ row.owner = Number /\ row.n \in 1 .. c
          /\ IsFiniteSet(Requests(Number, c, served)) /\ Cardinality(Requests(Number, c, served)) = c
      BY <2>2, RequestsAre
    <3>. QED  BY <3>1, <3>2
  <2>4. \A row : IsRequest(row) => IsRequest(row)'
    BY <2>1, <2>2, IsRequestStays
  <2>5. \A row \in R : IsRequest(row)'
    <3>1. Number \in DOMAIN owners'[trial] /\ owners'[trial][Number] = o
      <4>1. owners'[trial][Len(owners[trial]) + 1] = o /\ DOMAIN owners'[trial] = 1 .. Len(owners[trial]) + 1
        BY <2>1, <2>2, OneMore
      <4>. QED  BY <2>2, <4>1
    <3>. QED  BY <2>2, <2>3, <3>1 DEF IsRequest
  <2>6. pending \cap R = {}
    <3>1. ASSUME NEW row \in pending, row \in R PROVE FALSE
      <4>1. row.owner \in DOMAIN owners[trial] /\ row.owner = Number
        BY <2>3, <3>1 DEF Counted, IsRequest
      <4>. QED  BY <2>1, <2>2, <4>1, OneMore
    <3>. QED  BY <3>1
  <2> HIDE DEF R
  <2>7. Cardinality(pending') = Cardinality(pending) + o.requests
    <3>1. Cardinality(pending \cup R) = Cardinality(pending) + Cardinality(R) - Cardinality(pending \cap R)
      BY <2>3, FS_Union DEF Typed
    <3>2. Cardinality(pending \cap R) = 0 /\ Cardinality(pending) \in Nat
      BY <2>6, FS_EmptySet, FS_CardinalityType DEF Typed
    <3>3. pending' = pending \cup R
      BY <2>1 DEF R
    <3>. QED  BY <2>2, <2>3, <3>1, <3>2, <3>3
  <2>8. Made(4)' = Made(4) + o.requests
    BY <2>1, <2>2, MadeMore
  <2>9. Len(trace) + Cardinality(pending) = 1 + Made(4) /\ Len(trace) \in Nat /\ Cardinality(pending) \in Nat /\ Made(4) \in Nat
    <3>1. Made(4) \in Nat
      BY MadeIs
    <3>. QED  BY <3>1, FS_CardinalityType DEF Counted, Typed
  <2>10. Len(trace') + Cardinality(pending') = 1 + Made(4)'
    <3>1. PICK r \in Nat : r = o.requests
      BY <2>2
    <3>2. Cardinality(pending') = Cardinality(pending) + r /\ Made(4)' = Made(4) + r /\ Len(trace') = Len(trace)
      BY <2>2, <2>7, <2>8, <3>1
    <3>. QED  BY <2>9, <3>2
  <2>11. \A row \in pending' : IsRequest(row)'
    BY <2>1, <2>4, <2>5 DEF Counted, R
  <2>. QED  BY <2>2, <2>4, <2>10, <2>11 DEF Counted
<1>4. UNCHANGED <<owners, pending, trace>> \/ RowWritten \/ OwnerFails \/ OwnerServed
  BY StepKinds DEF Passes, GoesOn, Quiet, Before, After, StopTransport, ControllerSettles, LaunchDevice,
                   CallReturns, DeviceReturns, Verify, lab
<1>. QED  BY <1>1, <1>2, <1>3, <1>4

\* No request is lost.
LEMMA NothingLostStep == ASSUME Types, Typed, Turn, NothingLost, [Next]_vars PROVE NothingLost'
<1>1. CASE UNCHANGED <<owners, pending, trace>>
  BY <1>1 DEF NothingLost, Elements
<1>2. CASE RowWritten
  <2>1. PICK row \in pending : pending' = pending \ {row} /\ trace' = Append(trace, row)
    BY <1>2 DEF RowWritten
  <2>2. owners' = owners
    BY <1>2 DEF RowWritten
  <2>3. trace \in Seq(RowRecord) /\ row \in RowRecord
    BY <2>1 DEF Typed
  <2>4. \A r \in Elements(trace) \cup {row} : r \in Elements(trace')
    <3>1. DOMAIN trace' = 1 .. Len(trace) + 1 /\ trace'[Len(trace) + 1] = row /\ Len(trace) \in Nat
      BY <2>1, <2>3
    <3>2. \A i \in DOMAIN trace : i \in DOMAIN trace' /\ trace'[i] = trace[i]
      BY <2>1, <2>3
    <3>3. Len(trace) + 1 \in DOMAIN trace'
      BY <3>1
    <3>. QED  BY <3>1, <3>2, <3>3 DEF Elements
  <2>5. \A r \in pending \cup Elements(trace) : r \in pending' \cup Elements(trace')
    BY <2>1, <2>4
  <2>. QED  BY <2>2, <2>5 DEF NothingLost
<1>3. CASE OwnerFails \/ OwnerServed
  <2>1. PICK o \in OwnerRecord, served \in BOOLEAN :
            /\ owners' = [owners EXCEPT ![trial] = Append(@, o)]
            /\ pending' = pending \cup Requests(Number, o.requests, served)
    BY <1>3, OwnerMade
  <2>2. /\ trial \in Trials /\ Number = Len(owners[trial]) + 1 /\ Number \in Nat /\ o.requests \in 0 .. 9 /\ trace' = trace
    BY <1>3, OwnerMade DEF OwnerRecord
  <2>3. \A n \in 1 .. o.requests : \E row \in Requests(Number, o.requests, served) : row.trial = trial /\ row.owner = Number /\ row.n = n
    <3> SUFFICES ASSUME NEW n \in 1 .. o.requests
                 PROVE  \E row \in Requests(Number, o.requests, served) : row.trial = trial /\ row.owner = Number /\ row.n = n
      OBVIOUS
    <3>1. PICK row : row = [trial |-> trial, owner |-> Number, n |-> n, cut |-> n < o.requests \/ ~served]
      OBVIOUS
    <3>2. row \in Requests(Number, o.requests, served)
      BY <3>1 DEF Requests
    <3>. QED  BY <3>1, <3>2
  <2>4. ASSUME NEW t \in Trials, NEW i \in DOMAIN owners'[t], NEW n \in 1 .. owners'[t][i].requests
        PROVE  \E row \in pending' \cup Elements(trace') : row.trial = t /\ row.owner = i /\ row.n = n
    <3>1. CASE t = trial /\ i = Number
      <4>1. owners'[t][i] = o
        BY <2>1, <2>2, <3>1, OneMore
      <4>. QED  BY <2>1, <2>3, <2>4, <3>1, <4>1
    <3>2. CASE ~(t = trial /\ i = Number)
      <4>1. i \in DOMAIN owners[t] /\ owners'[t][i] = owners[t][i]
        BY <2>1, <2>2, <2>4, <3>2, OneMore
      <4>2. \E row \in pending \cup Elements(trace) : row.trial = t /\ row.owner = i /\ row.n = n
        BY <2>4, <4>1 DEF NothingLost
      <4>3. pending \cup Elements(trace) \subseteq pending' \cup Elements(trace')
        BY <2>1, <2>2
      <4>. QED  BY <4>2, <4>3
    <3>. QED  BY <3>1, <3>2
  <2>. QED  BY <2>4 DEF NothingLost
<1>4. UNCHANGED <<owners, pending, trace>> \/ RowWritten \/ OwnerFails \/ OwnerServed
  BY StepKinds DEF Passes, GoesOn, Quiet, Before, After, StopTransport, ControllerSettles, LaunchDevice,
                   CallReturns, DeviceReturns, Verify, lab
<1>. QED  BY <1>1, <1>2, <1>3, <1>4

-------------------------------------------------------------------------------
(* Late requests, and the counts around the trials *)

\* What was late stays so.
LEMMA LateStays ==
    ASSUME late \subseteq late', NEW t, LateUpTo(t)
    PROVE  LateUpTo(t)'
BY DEF LateUpTo

\* Which requests a step adds to the late ones.
LEMMA LateGrows ==
    ASSUME Types, [Next]_vars, Typed, Turn
    PROVE  /\ Profile # "N0" => late \subseteq late'
           /\ \/ late' = late
              \/ ControllerSettles /\ late' \subseteq late \cup pending
              \/ After /\ late' = late \cup pending
              \/ Verify /\ Profile = "N0" /\ late' = pending
<1>1. CASE Passes \/ GoesOn
  BY <1>1 DEF Passes, GoesOn, Quiet
<1>2. CASE RowWritten \/ Before \/ StopTransport \/ LaunchDevice \/ CallReturns \/ DeviceReturns
  BY <1>2 DEF RowWritten, Before, StopTransport, LaunchDevice, CallReturns, DeviceReturns, books
<1>3. CASE OwnerFails \/ OwnerServed
  BY <1>3, OwnerMade
<1>4. CASE After \/ ControllerSettles \/ Verify
  BY <1>4 DEF After, ControllerSettles, Verify
<1>. QED  BY <1>1, <1>2, <1>3, <1>4, StepKinds

\* The books as numbers: how far the counts are.
LEMMA BooksAre ==
    ASSUME Types, Typed, Books
    PROVE  /\ Len(before) \in Nat /\ Len(after) \in Nat /\ Len(kept) \in Nat
           /\ DOMAIN before = 1 .. Len(before) /\ DOMAIN after = 1 .. Len(after) /\ DOMAIN kept = 1 .. Len(kept)
           /\ Len(after) <= trial /\ Len(before) <= trial
           /\ Profile = "N0" => Len(before) = 0 /\ Len(after) = 0
           /\ Profile # "N0" => /\ Len(before) <= Len(after) + 1 /\ Len(kept) = trial - 1 /\ Len(after) >= trial - 1
                                /\ step > BeforeAt => Len(before) = trial
                                /\ step <= BeforeAt => Len(before) = trial - 1
                                /\ step > AfterAt => Len(after) = trial
                                /\ step <= AfterAt => Len(after) = trial - 1
<1>1. /\ Len(before) \in Nat /\ Len(after) \in Nat /\ Len(kept) \in Nat
      /\ DOMAIN before = 1 .. Len(before) /\ DOMAIN after = 1 .. Len(after) /\ DOMAIN kept = 1 .. Len(kept)
  BY DEF Typed
<1>2. Profile = "N0" => Len(before) = 0 /\ Len(after) = 0
  BY DEF Books
<1>3. Profile # "N0" => /\ Len(before) = IF step > BeforeAt THEN trial ELSE trial - 1
                        /\ Len(after) = IF step > AfterAt THEN trial ELSE trial - 1
                        /\ Len(kept) = trial - 1
  BY DEF Books
<1>4. trial \in 1 .. 5 /\ step \in Nat /\ BeforeAt \in Nat /\ AfterAt \in Nat
  BY PlaceIs
<1>5. CASE Profile = "N0"
  BY <1>1, <1>2, <1>4, <1>5
<1>6. CASE Profile # "N0"
  <2>1. /\ Len(before) = IF step > BeforeAt THEN trial ELSE trial - 1
        /\ Len(after) = IF step > AfterAt THEN trial ELSE trial - 1
        /\ Len(kept) = trial - 1
    BY <1>3, <1>6
  <2>2. PICK b \in Nat, a \in Nat, s \in Nat, d \in Nat : b = BeforeAt /\ a = AfterAt /\ s = step /\ d = trial
    BY <1>4
  <2>3. Len(before) = (IF s > b THEN d ELSE d - 1) /\ Len(after) = (IF s > a THEN d ELSE d - 1) /\ Len(kept) = d - 1
    BY <2>1, <2>2
  <2>4. /\ s > b => Len(before) = d
        /\ s <= b => Len(before) = d - 1
        /\ s > a => Len(after) = d
        /\ s <= a => Len(after) = d - 1
    BY <2>3
  <2>5. Len(after) <= d /\ Len(before) <= d /\ Len(before) <= Len(after) + 1 /\ Len(after) >= d - 1
    BY <2>3
  <2>. QED  BY <1>1, <1>6, <2>2, <2>3, <2>4, <2>5
<1>. QED  BY <1>5, <1>6

\* A request in flight when its trial's rows are counted is late.
LEMMA LateStep == ASSUME Types, Typed, Turn, Counted, Books, Late, [Next]_vars PROVE Late'
<1>1. instance' = instance /\ Profile' = Profile
  BY StepKinds
<1>2. \A row \in pending : row.trial \in Trials /\ row.trial <= trial
  BY RequestsOfStarted DEF Counted
<1>3. \A row \in late' : row.trial \in Trials
  BY <1>2, LateGrows DEF Late
<1>4. \A row \in pending' : row.trial <= Len(after') => row \in late'
  <2>1. CASE After
    <3>1. pending' = pending /\ late' = late \cup pending
      BY <2>1 DEF After, lab
    <3>. QED  BY <3>1
  <2>2. CASE OwnerFails \/ OwnerServed
    <3>1. PICK o \in OwnerRecord, served \in BOOLEAN :
              /\ owners' = [owners EXCEPT ![trial] = Append(@, o)]
              /\ pending' = pending \cup Requests(Number, o.requests, served)
      BY <2>2, OwnerMade
    <3>2. UNCHANGED <<after, late>> /\ trial \in Trials /\ step = DeviceAt
      BY <2>2, OwnerMade
    <3>3. \A row \in Requests(Number, o.requests, served) : row.trial = trial
      BY DEF Requests
    <3>4. Len(after) < trial
      <4>1. CASE Profile = "N0"
        BY <3>2, <4>1, BooksAre DEF Trials
      <4>2. CASE Profile # "N0"
        <5>1. step <= AfterAt /\ trial \in Nat
          <6>1. DeviceAt \in Nat /\ AfterAt \in Nat /\ DeviceAt < AfterAt /\ trial \in Nat
            BY <4>2, PlaceIs
          <6>. QED  BY <3>2, <6>1
        <5>2. Len(after) = trial - 1
          BY <4>2, <5>1, BooksAre
        <5>. QED  BY <5>1, <5>2
      <4>. QED  BY <4>1, <4>2
    <3>5. trial \in Nat /\ Len(after) \in Nat
      BY PlaceIs, BooksAre
    <3>. QED  BY <3>1, <3>2, <3>3, <3>4, <3>5 DEF Late
  <2>3. CASE Verify
    <3>1. after' = after /\ pending' = pending /\ (late' = late \/ late' = pending)
      BY <2>3, LateGrows DEF Verify, lab
    <3>. QED  BY <3>1 DEF Late
  <2>4. CASE RowWritten
    <3>1. pending' \subseteq pending /\ after' = after /\ late' = late
      BY <2>4 DEF RowWritten, books
    <3>. QED  BY <3>1 DEF Late
  <2>5. CASE Passes \/ GoesOn \/ Before \/ StopTransport \/ ControllerSettles \/ LaunchDevice \/ CallReturns \/ DeviceReturns
    <3>1. pending' = pending /\ after' = after /\ late \subseteq late'
      BY <2>5 DEF Passes, GoesOn, Quiet, Before, StopTransport, ControllerSettles, LaunchDevice, CallReturns, DeviceReturns, lab, books
    <3>. QED  BY <3>1 DEF Late
  <2>. QED  BY <2>1, <2>2, <2>3, <2>4, <2>5, StepKinds
<1>5. Profile = "N0" /\ Accepted' => pending' \subseteq late'
  <2> SUFFICES ASSUME Profile = "N0", Accepted' PROVE pending' \subseteq late'
    OBVIOUS
  <2>1. CASE Verify
    BY <2>1 DEF Verify, lab
  <2>2. CASE RowWritten
    <3>1. Accepted /\ pending' \subseteq pending /\ late' = late
      BY <2>2 DEF RowWritten, books, Accepted
    <3>. QED  BY <3>1 DEF Late
  <2>3. CASE Passes
    BY <2>3 DEF Passes, Quiet, Late
  <2>4. CASE GoesOn \/ Before \/ After \/ StopTransport \/ LaunchDevice \/ DeviceReturns \/ OwnerFails \/ OwnerServed \/ CallReturns
    <3>1. job' = "running"
      BY <1>1, <2>4, NamedPlaces, OwnerMade DEF GoesOn, CallReturns
    <3>. QED  BY <3>1 DEF Accepted
  <2>5. CASE ControllerSettles
    <3>1. job' = job /\ pending' = pending /\ late \subseteq late'
      BY <2>5 DEF ControllerSettles, lab
    <3>. QED  BY <3>1 DEF Late, Accepted
  <2>. QED  BY <2>1, <2>2, <2>3, <2>4, <2>5, StepKinds
<1>. QED  BY <1>1, <1>3, <1>4, <1>5 DEF Late

\* How far the counts are stays in step with the script.
LEMMA BooksLengthStep ==
    ASSUME Types, Typed, Turn, Books, [Next]_vars
    PROVE  /\ Profile = "N0" => before' = << >> /\ after' = << >>
           /\ Profile # "N0" =>
                /\ Len(before') = IF step' > BeforeAt THEN trial' ELSE trial' - 1
                /\ Len(after') = IF step' > AfterAt THEN trial' ELSE trial' - 1
                /\ Len(kept') = trial' - 1
<1>1. instance' = instance
  BY StepKinds
<1>2. Profile = "N0" => before = << >> /\ after = << >>
  BY DEF Books
<1>3. /\ trial \in Nat /\ step \in Nat /\ BeforeAt \in Nat /\ AfterAt \in Nat /\ BeforeAt >= 1
      /\ Profile # "N0" => BeforeAt < DeviceAt /\ DeviceAt < AfterAt /\ DeviceAt \in Nat
      /\ Profile = "N6" => AfterAt = 7
  BY PlaceIs
<1>4. /\ Len(before) \in Nat /\ Len(after) \in Nat /\ Len(kept) \in Nat
      /\ Profile # "N0" => /\ Len(before) = IF step > BeforeAt THEN trial ELSE trial - 1
                           /\ Len(after) = IF step > AfterAt THEN trial ELSE trial - 1
                           /\ Len(kept) = trial - 1
  BY BooksAre DEF Books
<1>5. CASE UNCHANGED <<before, after, kept, trial, step>>
  BY <1>2, <1>4, <1>5
<1>6. CASE GoesOn
  <2>1. UNCHANGED <<before, after, kept>>
    BY <1>6 DEF GoesOn, Quiet
  <2>2. Profile # "N0" /\ trial' = trial /\ step' = step + 1 /\ step # BeforeAt /\ step # AfterAt
    BY <1>1, <1>6, GoesOnHere
  <2>. QED  BY <1>3, <1>4, <2>1, <2>2
<1>7. CASE Before
  <2>1. UNCHANGED <<after, kept>> /\ before' = Append(before, Len(trace))
    BY <1>7 DEF Before
  <2>2. Len(before') = Len(before) + 1
    BY <2>1 DEF Typed
  <2>3. Profile # "N0" /\ trial' = trial /\ step' = step + 1 /\ step = BeforeAt
    BY <1>1, <1>7, NamedPlaces
  <2>. QED  BY <1>3, <1>4, <2>1, <2>2, <2>3
<1>8. CASE After
  <2>1. before' = before /\ after' = Append(after, Len(trace))
    BY <1>8 DEF After
  <2>2. Len(after') = Len(after) + 1
    BY <2>1 DEF Typed
  <2>3. /\ Profile # "N0" /\ step = AfterAt
        /\ Profile = "N6" => trial' = trial /\ step' = step + 1
        /\ Profile # "N6" => trial' = trial + 1 /\ step' = 1
    BY <1>1, <1>8, NamedPlaces
  <2>4. CASE Profile = "N6"
    <3>1. kept' = kept
      BY <1>8, <2>4 DEF After
    <3>. QED  BY <1>3, <1>4, <2>1, <2>2, <2>3, <2>4, <3>1
  <2>5. CASE Profile # "N6"
    <3>1. kept' = Append(kept, Retained)
      BY <1>8, <2>5 DEF After
    <3>2. Len(kept') = Len(kept) + 1
      BY <3>1 DEF Typed
    <3>. QED  BY <1>3, <1>4, <2>1, <2>2, <2>3, <2>5, <3>2
  <2>. QED  BY <2>4, <2>5
<1>9. CASE StopTransport
  <2>1. UNCHANGED <<before, after>> /\ \E r : kept' = Append(kept, r)
    BY <1>9 DEF StopTransport
  <2>2. Len(kept') = Len(kept) + 1
    BY <2>1 DEF Typed
  <2>3. Profile = "N6" /\ step = 8 /\ trial' = trial + 1 /\ step' = 1
    BY <1>1, <1>9, NamedPlaces
  <2>. QED  BY <1>3, <1>4, <2>1, <2>2, <2>3
<1>10. CASE DeviceReturns
  <2>1. UNCHANGED <<before, after, kept>>
    BY <1>10 DEF DeviceReturns, books
  <2>2. step = DeviceAt /\ (Profile # "N0" => trial' = trial /\ step' = step + 1)
    BY <1>1, <1>10, NamedPlaces
  <2>. QED  BY <1>2, <1>3, <1>4, <2>1, <2>2
<1>11. CASE Passes \/ RowWritten \/ ControllerSettles \/ LaunchDevice \/ CallReturns \/ Verify
  BY <1>5, <1>11 DEF Passes, Quiet, RowWritten, ControllerSettles, LaunchDevice, CallReturns, Verify, books
<1>12. CASE OwnerFails \/ OwnerServed
  BY <1>5, <1>12, OwnerMade
<1>. QED  BY <1>6, <1>7, <1>8, <1>9, <1>10, <1>11, <1>12, StepKinds

\* The trials that have not begun have made no request.
LEMMA MadeSoFar ==
    ASSUME Types, Typed, Turn, trial \in Trials
    PROVE  Made(4) = Made(trial)
<1>1. \A t \in Trials : t > trial => Asked(owners[t]) = 0
  <2>1. \A t \in Trials : t > trial => owners[t] = << >>
    BY DEF Turn
  <2>. QED  BY <2>1, AskedIs
<1>2. \A t \in 1 .. 4 : Made(t) = Made(t - 1) + Asked(owners[t])
  BY MadeIs
<1>3. Made(1) \in Nat /\ Made(2) \in Nat /\ Made(3) \in Nat /\ Made(4) \in Nat
  BY MadeIs
<1>4. /\ 1 < 2 => 2 - 1 = 1 /\ 3 - 1 = 2 /\ 4 - 1 = 3
      /\ Made(2) = Made(2 - 1) + Asked(owners[2]) /\ Made(3) = Made(3 - 1) + Asked(owners[3]) /\ Made(4) = Made(4 - 1) + Asked(owners[4])
  BY <1>2
<1>5. Made(2) = Made(1) + Asked(owners[2]) /\ Made(3) = Made(2) + Asked(owners[3]) /\ Made(4) = Made(3) + Asked(owners[4])
  BY <1>4
<1>6. trial \in {1, 2, 3, 4} /\ 2 \in Trials /\ 3 \in Trials /\ 4 \in Trials
  BY DEF Trials
<1>7. CASE trial = 4
  BY <1>7
<1>8. CASE trial = 3
  <2>1. Asked(owners[4]) = 0
    BY <1>1, <1>6, <1>8
  <2>. QED  BY <1>3, <1>5, <1>8, <2>1
<1>9. CASE trial = 2
  <2>1. Asked(owners[4]) = 0 /\ Asked(owners[3]) = 0
    BY <1>1, <1>6, <1>9
  <2>. QED  BY <1>3, <1>5, <1>9, <2>1
<1>10. CASE trial = 1
  <2>1. Asked(owners[4]) = 0 /\ Asked(owners[3]) = 0 /\ Asked(owners[2]) = 0
    BY <1>1, <1>6, <1>10
  <2>. QED  BY <1>3, <1>5, <1>10, <2>1
<1>. QED  BY <1>6, <1>7, <1>8, <1>9, <1>10

\* The count after a trial is of the requests made so far, but for the late ones.
LEMMA AfterTellsStep ==
    ASSUME Types, Typed, Turn, Counted, Books, [Next]_vars
    PROVE  \A t \in DOMAIN after' : LateUpTo(t)' \/ after'[t] = 1 + Made(t)'
<1>1. \A t \in DOMAIN after : LateUpTo(t) \/ after[t] = 1 + Made(t)
  BY DEF Books
<1>2. instance' = instance
  BY StepKinds
<1>3. CASE owners' = owners /\ after' = after /\ Profile # "N0"
  <2>1. \A t : Made(t)' = Made(t)
    BY <1>3 DEF Made, Upto, Asked
  <2>2. late \subseteq late'
    BY <1>3, LateGrows
  <2>. QED  BY <1>1, <1>3, <2>1, <2>2, LateStays
<1>4. CASE owners' = owners /\ after' = after /\ Profile = "N0"
  <2>1. DOMAIN after' = {}
    BY <1>4 DEF Books
  <2>. QED  BY <2>1
<1>5. CASE OwnerFails \/ OwnerServed
  <2>1. PICK o \in OwnerRecord : owners' = [owners EXCEPT ![trial] = Append(@, o)]
    BY <1>5, OwnerMade
  <2>2. UNCHANGED <<after, late>> /\ trial \in Trials /\ step = DeviceAt
    BY <1>5, OwnerMade
  <2>3. \A t \in DOMAIN after : t \in 0 .. 4 /\ t < trial
    <3>1. DOMAIN after = 1 .. Len(after) /\ Len(after) \in Nat
      BY BooksAre
    <3>2. Len(after) < trial
      <4>1. CASE Profile = "N0"
        BY <2>2, <4>1, BooksAre DEF Trials
      <4>2. CASE Profile # "N0"
        <5>1. step <= AfterAt /\ trial \in Nat
          <6>1. DeviceAt \in Nat /\ AfterAt \in Nat /\ DeviceAt < AfterAt /\ trial \in Nat
            BY <4>2, PlaceIs
          <6>. QED  BY <2>2, <6>1
        <5>2. Len(after) = trial - 1
          BY <4>2, <5>1, BooksAre
        <5>. QED  BY <5>1, <5>2
      <4>. QED  BY <4>1, <4>2
    <3>. QED  BY <2>2, <3>1, <3>2 DEF Trials
  <2>4. \A t \in 0 .. 4 : t < trial => Made(t)' = Made(t)
    BY <2>1, <2>2, MadeMore
  <2>5. \A t : LateUpTo(t)' = LateUpTo(t)
    BY <2>2 DEF LateUpTo
  <2>. QED  BY <1>1, <2>2, <2>3, <2>4, <2>5
<1>6. CASE After
  <2>1. after' = Append(after, Len(trace)) /\ late' = late \cup pending /\ owners' = owners
    BY <1>6 DEF After
  <2>2. Profile # "N0" /\ trial \in Trials /\ step = AfterAt
    BY <1>2, <1>6, NamedPlaces
  <2>3. PICK k \in Trials : k = trial
    BY <2>2
  <2>4. Len(after) = k - 1 /\ k \in Nat
    BY <2>2, <2>3, BooksAre, PlaceIs
  <2>5. \A t : Made(t)' = Made(t)
    BY <2>1 DEF Made, Upto, Asked
  <2>6. DOMAIN after' = DOMAIN after \cup {k} /\ after'[k] = Len(trace) /\ \A t \in DOMAIN after : after'[t] = after[t]
    <3>1. after \in Seq(Nat) /\ Len(trace) \in Nat
      BY DEF Typed
    <3>2. DOMAIN after' = 1 .. Len(after) + 1 /\ after'[Len(after) + 1] = Len(trace) /\ \A t \in DOMAIN after : after'[t] = after[t]
      BY <2>1, <3>1
    <3>. QED  BY <2>4, <3>1, <3>2
  <2>7. ASSUME ~LateUpTo(k)' PROVE Len(trace) = 1 + Made(k)'
    <3>1. pending = {}
      <4>1. ASSUME NEW row \in pending PROVE FALSE
        <5>1. row.trial <= k /\ row \in late'
          BY <2>1, <2>3, RequestsOfStarted DEF Counted
        <5>2. \A r \in late' : ~(r.trial <= k)
          BY <2>7 DEF LateUpTo
        <5>. QED  BY <5>1, <5>2
      <4>. QED  BY <4>1
    <3>2. Cardinality(pending) = 0
      BY <3>1, FS_EmptySet
    <3>3. Len(trace) + Cardinality(pending) = 1 + Made(4) /\ Len(trace) \in Nat
      BY DEF Counted, Typed
    <3>4. Made(4) = Made(k)
      BY <2>3, MadeSoFar
    <3>5. Made(k)' = Made(k)
      BY <2>5
    <3>. QED  BY <3>2, <3>3, <3>4, <3>5
  <2>8. \A t : LateUpTo(t) => LateUpTo(t)'
    BY <2>1 DEF LateUpTo
  <2>. QED  BY <1>1, <2>5, <2>6, <2>7, <2>8
<1>7. \/ owners' = owners /\ after' = after
      \/ OwnerFails \/ OwnerServed \/ After
  BY StepKinds DEF Passes, GoesOn, Quiet, RowWritten, Before, StopTransport, ControllerSettles, LaunchDevice, CallReturns,
                   DeviceReturns, Verify, books
<1>. QED  BY <1>3, <1>4, <1>5, <1>6, <1>7

\* The rows beyond the count before a trial are not of an earlier one, but for the late ones.
LEMMA BeyondStep ==
    ASSUME Types, Typed, Turn, Counted, Late, Books, [Next]_vars
    PROVE  \A t \in DOMAIN before' : \A i \in DOMAIN trace' :
                i > before'[t] /\ i # 1 => trace'[i].trial >= t \/ trace'[i] \in late'
<1>1. \A t \in DOMAIN before : \A i \in DOMAIN trace : i > before[t] /\ i # 1 => trace[i].trial >= t \/ trace[i] \in late
  BY DEF Books
<1>2. instance' = instance
  BY StepKinds
<1>3. CASE UNCHANGED <<before, trace>> /\ Profile # "N0"
  <2>1. late \subseteq late'
    BY <1>3, LateGrows
  <2>. QED  BY <1>1, <1>3, <2>1
<1>4. CASE before' = before /\ Profile = "N0"
  <2>1. DOMAIN before' = {}
    BY <1>4 DEF Books
  <2>. QED  BY <2>1
<1>5. CASE RowWritten /\ Profile # "N0"
  <2>1. PICK row \in pending : trace' = Append(trace, row)
    BY <1>5 DEF RowWritten
  <2>2. UNCHANGED <<before, late>>
    BY <1>5 DEF RowWritten, books
  <2>3. trace \in Seq(RowRecord) /\ row \in RowRecord
    BY <2>1 DEF Typed
  <2>4. \A i \in DOMAIN trace' : (i \in DOMAIN trace /\ trace'[i] = trace[i]) \/ trace'[i] = row
    BY <2>1, <2>3
  <2>5. ASSUME NEW t \in DOMAIN before PROVE row.trial >= t \/ row \in late
    <3>1. t <= Len(after) + 1 /\ Len(after) \in Nat /\ t \in Nat
      <4>1. DOMAIN before = 1 .. Len(before) /\ Len(before) \in Nat /\ Len(before) <= Len(after) + 1 /\ Len(after) \in Nat
        BY <1>5, BooksAre
      <4>. QED  BY <4>1
    <3>2. row.trial \in Nat
      BY RequestsOfStarted DEF Counted, Trials
    <3>3. row.trial <= Len(after) => row \in late
      BY DEF Late
    <3>. QED  BY <3>1, <3>2, <3>3
  <2>. QED  BY <1>1, <2>2, <2>4, <2>5
<1>6. CASE Before
  <2>1. before' = Append(before, Len(trace)) /\ UNCHANGED <<trace, late>>
    BY <1>6 DEF Before, lab
  <2>2. before \in Seq(Nat) /\ Len(trace) \in Nat /\ DOMAIN trace = 1 .. Len(trace)
    BY DEF Typed
  <2>3. \A t \in DOMAIN before' : (t \in DOMAIN before /\ before'[t] = before[t]) \/ before'[t] = Len(trace)
    BY <2>1, <2>2
  <2>4. \A i \in DOMAIN trace : ~(i > Len(trace))
    BY <2>2
  <2>. QED  BY <1>1, <2>1, <2>3, <2>4
<1>7. UNCHANGED <<before, trace>> \/ (RowWritten /\ before' = before) \/ Before
  <2>1. OwnerFails \/ OwnerServed => UNCHANGED <<before, trace>>
    BY OwnerMade
  <2>. QED  BY <2>1, StepKinds DEF Passes, GoesOn, Quiet, RowWritten, After, StopTransport, ControllerSettles, LaunchDevice, CallReturns,
                   DeviceReturns, Verify, lab, books
<1>. QED  BY <1>3, <1>4, <1>5, <1>6, <1>7

\* The books stay in step.
LEMMA BooksStep == ASSUME Types, Typed, Turn, Counted, Late, Books, [Next]_vars PROVE Books'
<1>1. Profile' = Profile /\ BeforeAt' = BeforeAt /\ AfterAt' = AfterAt
  BY StepKinds, PlacesStay
<1>2. /\ Profile = "N0" => before' = << >> /\ after' = << >>
      /\ Profile # "N0" =>
            /\ Len(before') = IF step' > BeforeAt THEN trial' ELSE trial' - 1
            /\ Len(after') = IF step' > AfterAt THEN trial' ELSE trial' - 1
            /\ Len(kept') = trial' - 1
  BY BooksLengthStep
<1>3. \A t \in DOMAIN after' : LateUpTo(t)' \/ after'[t] = 1 + Made(t)'
  BY AfterTellsStep
<1>4. \A t \in DOMAIN before' : \A i \in DOMAIN trace' :
            i > before'[t] /\ i # 1 => trace'[i].trial >= t \/ trace'[i] \in late'
  BY BeyondStep
<1>. QED  BY <1>1, <1>2, <1>3, <1>4 DEF Books

-------------------------------------------------------------------------------
(* Accepted jobs *)

\* What is so of the owners and the rows when a job begins.
LEMMA FirstOwners ==
    ASSUME Init
    PROVE  Types /\ Typed /\ Turn /\ AllServed /\ OwnersTell
<1>1. Types
  BY InitIsContained DEF IInv
<1>2. Typed
  <2>1. IsFiniteSet({}) /\ << >> \in Seq(Nat) /\ \E S : << >> \in Seq(S)
    BY FS_EmptySet
  <2>2. owners \in [Trials -> Seq(OwnerRecord)]
    BY DEF Init
  <2>3. <<[trial |-> 0, owner |-> 0, n |-> 0, cut |-> FALSE]>> \in Seq(RowRecord)
    <3>1. [trial |-> 0, owner |-> 0, n |-> 0, cut |-> FALSE] \in RowRecord
      BY DEF RowRecord
    <3>2. \A row \in RowRecord : <<row>> \in Seq(RowRecord)
      OBVIOUS
    <3>. QED  BY <3>1, <3>2
  <2>. QED  BY <2>1, <2>2, <2>3 DEF Init, Typed
<1>3. Turn
  BY DEF Init, Turn
<1>4. AllServed
  <2>1. DeviceAt >= 1 /\ DeviceAt \in Nat
    BY <1>1, PlaceIs
  <2>. QED  BY <2>1 DEF Init, AllServed, Trials
<1>5. OwnersTell
  BY DEF Init, OwnersTell
<1>. QED  BY <1>1, <1>2, <1>3, <1>4, <1>5

\* What every step leaves of the owners.
LEMMA OwnersStep ==
    ASSUME Types, Typed, Turn, [Next]_vars
    PROVE  Types' /\ Typed' /\ Turn'
BY TypesStep, TypedStep, TurnStep

\* Once a job is accepted its controller is gone, with its script.
Idle == Accepted => controller = "none" /\ trial \notin Trials

\* Nothing brings the controller back.
LEMMA IdleStep == ASSUME IInv, Typed, Turn, Idle, [Next]_vars PROVE Idle'
<1>0. Types
  BY DEF IInv
<1>1. CASE Accepted
  <2>1. job # "running" /\ controller = "none" /\ trial \notin Trials
    BY <1>1 DEF Accepted, Idle
  <2>2. trial' = trial
    <3>1. OwnerFails \/ OwnerServed => trial' = trial
      BY <1>0, OwnerMade
    <3>. QED  BY <2>1, <3>1, <1>0, StepKinds DEF Passes, GoesOn, RowWritten, Before, After, StopTransport, ControllerSettles,
                       LaunchDevice, CallReturns, DeviceReturns, Verify, Doing
  <2>3. controller' = "none"
    <3>1. CASE \/ Clean \/ Before \/ Start \/ StartMisread \/ Stop \/ StopTransport \/ After \/ StepFails
               \/ LaunchPulse \/ AwaitArmed \/ WaitPulse \/ Listen \/ WaitController \/ LaunchDevice
               \/ OwnerFails \/ CallReturns \/ OwnerServed \/ DeviceReturns \/ DeviceGivesUp \/ Verify
      BY <2>1, <3>1 DEF Clean, Before, Start, StartMisread, Stop, StopTransport, After, StepFails, LaunchPulse,
           AwaitArmed, WaitPulse, Listen, WaitController, LaunchDevice, OwnerFails, CallReturns, OwnerServed, DeviceReturns,
           DeviceGivesUp, Verify, Doing
    <3>2. CASE \/ RowWritten \/ PacketDropped \/ StepRefuses \/ PulseArms \/ PulseSeesDrop \/ PulseFinishes \/ PulseFails \/ PulseFailsToArm
               \/ KillProcesses \/ StrayArms \/ RemoveNetem \/ TearDown \/ TearDownFails \/ Ended \/ UNCHANGED vars
      BY <2>1, <3>2 DEF RowWritten, PacketDropped, StepRefuses, PulseArms, PulseSeesDrop, PulseFinishes, PulseFails, PulseFailsToArm, KillProcesses,
           StrayArms, RemoveNetem, TearDown, TearDownFails, Cleaning, Ended, vars, harnessVars
    <3>3. CASE ControllerSettles \/ ControllerDisarms \/ ControllerFails
      BY <2>1, <3>3 DEF ControllerSettles, ControllerDisarms, ControllerFails
    <3>. QED  BY <3>1, <3>2, <3>3 DEF Next
  <2>. QED  BY <2>1, <2>2, <2>3 DEF Idle
<1>2. CASE ~Accepted
  <2>1. CASE Verify
    <3>1. controller' = controller /\ trial' = trial /\ trial \notin Trials /\ job = "running"
      BY <2>1 DEF Verify, harnessVars
    <3>2. controller = "none"
      BY <3>1 DEF IInv, ByPlace
    <3>. QED  BY <3>1, <3>2 DEF Idle
  <2>2. CASE RowWritten \/ ControllerSettles
    BY <1>2, <2>2 DEF RowWritten, ControllerSettles, Accepted, Idle
  <2>3. CASE Passes
    BY <1>2, <2>3 DEF Passes, Idle
  <2>4. CASE GoesOn \/ Before \/ After \/ StopTransport \/ LaunchDevice \/ OwnerFails \/ CallReturns \/ OwnerServed \/ DeviceReturns
    <3>1. job' = "running"
      <4>1. instance' = instance
        BY <1>0, StepKinds
      <4>. QED  BY <1>0, <2>4, <4>1, NamedPlaces, OwnerMade DEF GoesOn, CallReturns
    <3>. QED  BY <3>1 DEF Accepted, Idle
  <2>. QED  BY <1>0, <2>1, <2>2, <2>3, <2>4, StepKinds
<1>. QED  BY <1>1, <1>2

\* A job that was accepted was verified by this step or before, and its owners
\* and its instance are those it was verified with.
LEMMA AcceptedBefore ==
    ASSUME Types, Typed, Turn, Idle, [Next]_vars, Accepted'
    PROVE  /\ UNCHANGED <<instance, owners, before, after, kept>>
           /\ \/ /\ Accepted /\ late' = late
                 /\ UNCHANGED <<trace, pending>> \/ (\E row \in pending : trace' = Append(trace, row) /\ pending' = pending \ {row})
              \/ Verify /\ Verified(Evidence, Profile) /\ trial \notin Trials /\ UNCHANGED <<trace, pending>>
<1>1. instance' = instance
  BY StepKinds
<1>2. CASE Passes
  BY <1>1, <1>2 DEF Passes, Quiet
<1>3. CASE RowWritten
  <2>1. Accepted
    BY <1>3 DEF RowWritten, Accepted
  <2>. QED  BY <1>1, <1>3, <2>1 DEF RowWritten, books
<1>4. CASE Verify
  BY <1>1, <1>4 DEF Verify, Accepted, lab
<1>5. CASE ControllerSettles
  <2>1. controller # "none" /\ job' = job
    BY <1>5 DEF ControllerSettles
  <2>2. Accepted
    BY <2>1 DEF Accepted
  <2>. QED  BY <2>1, <2>2 DEF Idle
<1>6. CASE GoesOn \/ Before \/ After \/ StopTransport \/ LaunchDevice \/ OwnerFails \/ CallReturns \/ OwnerServed \/ DeviceReturns
  <2>1. job' = "running"
    BY <1>1, <1>6, NamedPlaces, OwnerMade DEF GoesOn, CallReturns
  <2>. QED  BY <2>1 DEF Accepted
<1>. QED  BY <1>2, <1>3, <1>4, <1>5, <1>6, StepKinds

\* What a verified document may misreport.
LEMMA CaughtAtVerify ==
    ASSUME Types, Typed, AllServed, trial \notin Trials, Verified(Evidence, Profile)
    PROVE  instance.misreport \in Unchecked
<1>1. Profile \in Profiles /\ instance \in Instances /\ owners \in [Trials -> Seq(OwnerRecord)]
  BY Places DEF Types, Typed
<1>2. instance.misreport \in Misreports
  BY <1>1, InstancesAssumption DEF InstanceRecord
<1>3. /\ instance.misreport \notin {"hash", "warm", "session", "certified", "sample", "received", "early", "jitter", "epoch",
                                    "backend", "correlation"}
      /\ instance.misreport = "observation" => Len(owners[2]) <= 1
  BY <1>1, DocumentRefused
<1>4. instance.misreport \notin {"process", "version"}
  BY <1>1, OthersContradict
<1>5. /\ Profile \notin {"N0", "N6R"} => instance.misreport \notin {"readback", "unclean", "otherRun", "code"}
      /\ Profile \notin {"N0", "N6", "N6R"} => instance.misreport # "environmentRun"
      /\ Profile = "N6" => instance.misreport # "trigger"
  BY <1>1, SurroundingsRefused
<1>6. instance.misreport = "observation" => Len(owners[2]) = 1
  <2>1. trial > 2 /\ 2 < trial /\ 2 \in Trials
    BY DEF Types, Trials
  <2>2. Served(2)
    BY <2>1 DEF AllServed
  <2>3. owners[2] # << >> /\ owners[2] \in Seq(OwnerRecord)
    BY <2>1, <2>2 DEF Served, Typed
  <2>4. PICK n \in Nat : n = Len(owners[2])
    BY <2>3
  <2>5. n # 0
    BY <2>3, <2>4
  <2>6. instance.misreport = "observation" => n <= 1
    BY <1>3, <2>4
  <2>7. n <= 1 => n = 1
    BY <2>5
  <2>. QED  BY <2>4, <2>6, <2>7
<1>. QED  BY <1>2, <1>3, <1>4, <1>5, <1>6 DEF Misreports, RawMisreports, Unchecked

\* What is misreported in an accepted job stays among what is not checked.
LEMMA CaughtStep ==
    ASSUME Types, Typed, Turn, AllServed, Idle, MisreportsAreCaught, [Next]_vars
    PROVE  MisreportsAreCaught'
<1>1. SUFFICES ASSUME Accepted' PROVE instance'.misreport \in Unchecked'
  BY DEF MisreportsAreCaught
<1>2. instance' = instance /\ owners' = owners
  BY <1>1, AcceptedBefore
<1>3. Unchecked' = Unchecked
  BY <1>2 DEF Unchecked, Profile
<1>4. Accepted \/ (Verified(Evidence, Profile) /\ trial \notin Trials)
  BY <1>1, AcceptedBefore
<1>. QED  BY <1>2, <1>3, <1>4, CaughtAtVerify DEF MisreportsAreCaught

\* A document that misreports one thing about a trial makes the verifiers
\* (check_raw() and the comparison of the four rows) refuse the experiment.
THEOREM MisreportsAreRefused == Spec => []MisreportsAreCaught
<1> DEFINE Inv == IInv /\ Typed /\ Turn /\ AllServed /\ Idle /\ MisreportsAreCaught
<1>1. Init => Inv
  <2> SUFFICES ASSUME Init PROVE Inv
    OBVIOUS
  <2>1. ~Accepted
    BY DEF Init, Accepted
  <2>. QED  BY <2>1, InitIsContained, FirstOwners DEF Idle, MisreportsAreCaught
<1>2. Inv /\ [Next]_vars => Inv'
  <2> SUFFICES ASSUME Inv, [Next]_vars PROVE Inv'
    OBVIOUS
  <2>1. Types
    BY DEF IInv
  <2>. QED  BY <2>1, ContainedStep, OwnersStep, AllServedStep, IdleStep, CaughtStep
<1>3. Inv => MisreportsAreCaught
  OBVIOUS
<1>. QED  BY <1>1, <1>2, <1>3, PTL DEF Spec

-------------------------------------------------------------------------------
(* The link's drops *)

\* A step of the script that does not end a trial goes to the next place.
LEMMA NextPlace ==
    ASSUME Types, [Next]_vars, instance' = instance, Profile \in {"N3", "N6"}
    PROVE  \/ UNCHANGED <<trial, step>>
           \/ /\ job = "running" /\ job' = job /\ trial \in Trials /\ trial' = trial /\ step' = step + 1 /\ step < Len(Script)
              /\ step = 1 => Clean
              /\ step = 3 /\ Profile = "N6" => Start
              /\ step = 4 /\ Profile = "N6" => Listen
           \/ /\ job = "running" /\ job' = job /\ trial \in Trials /\ trial' = trial + 1 /\ step' = 1 /\ step = Len(Script)
<1>1. step \in 1 .. Len(Script) /\ Len(Script) \in Nat /\ (step = 1 => Script[step] = "CLEAN")
      /\ (step = 3 /\ Profile = "N6" => Script[step] = "START") /\ (step = 4 /\ Profile = "N6" => Script[step] = "LISTEN")
  BY ScriptPlaces, Places DEF Types
<1> DEFINE Named == /\ step = 1 => Clean
                    /\ step = 3 /\ Profile = "N6" => Start
                    /\ step = 4 /\ Profile = "N6" => Listen
<1>2. ASSUME trial \in Trials, Advance, job = "running", job' = job, Named
      PROVE  \/ trial' = trial /\ step' = step + 1 /\ step < Len(Script) /\ Named
             \/ trial' = trial + 1 /\ step' = 1 /\ step = Len(Script)
  BY <1>1, <1>2, Advanced
<1>3. CASE Clean \/ Start \/ Stop \/ LaunchPulse \/ AwaitArmed \/ WaitPulse \/ Listen \/ WaitController
  <2>1. trial \in Trials /\ Advance /\ job = "running" /\ job' = job
    BY <1>3 DEF Clean, Start, Stop, LaunchPulse, AwaitArmed, WaitPulse, Listen, WaitController, Doing
  <2>2. (Clean \/ Script[step] # "CLEAN") /\ (Start \/ Script[step] # "START") /\ (Listen \/ Script[step] # "LISTEN")
    BY <1>3 DEF Clean, Start, Stop, LaunchPulse, AwaitArmed, WaitPulse, Listen, WaitController, Doing
  <2>. QED  BY <1>1, <1>2, <2>1, <2>2
<1>4. CASE Before \/ After \/ DeviceReturns \/ StopTransport
  <2>1. trial \in Trials /\ Advance /\ job = "running" /\ job' = job
    BY <1>4 DEF Before, After, DeviceReturns, StopTransport, Doing
  <2>2. Script[step] \notin {"CLEAN", "START", "LISTEN"}
    BY <1>4 DEF Before, After, DeviceReturns, StopTransport, Doing
  <2>. QED  BY <1>1, <1>2, <2>1, <2>2
<1>5. CASE \/ PacketDropped \/ StartMisread \/ StepFails \/ StepRefuses \/ PulseArms \/ PulseSeesDrop \/ PulseFinishes
           \/ PulseFails \/ PulseFailsToArm \/ ControllerDisarms \/ ControllerFails \/ DeviceGivesUp
  BY <1>5 DEF PacketDropped, StartMisread, StepFails, StepRefuses, PulseArms, PulseSeesDrop, PulseFinishes,
                PulseFails, PulseFailsToArm, ControllerDisarms, ControllerFails, DeviceGivesUp
<1>6. CASE \/ KillProcesses \/ StrayArms \/ RemoveNetem \/ TearDown \/ TearDownFails \/ Ended \/ UNCHANGED vars \/ RowWritten \/ ControllerSettles \/ LaunchDevice \/ Verify
  BY <1>6 DEF KillProcesses, StrayArms, RemoveNetem, TearDown, TearDownFails, Cleaning, Ended, vars, RowWritten, ControllerSettles, LaunchDevice, Verify
<1>7. CASE OwnerFails \/ OwnerServed \/ CallReturns
  BY <1>7 DEF OwnerFails, OwnerServed, CallReturns
<1>. QED  BY <1>3, <1>4, <1>5, <1>6, <1>7 DEF Next

\* What changes the drops, and what is kept of them.
LEMMA DropsChange ==
    ASSUME Types, [Next]_vars, Profile = "N3"
    PROVE  /\ drops' = drops \/ (Clean /\ drops' = NoDrops) \/ (PulseSeesDrop /\ drops' = [drops EXCEPT !.baseline = drops.now])
              \/ PacketDropped
           /\ kept' = kept \/ (After /\ kept' = Append(kept, Retained) /\ drops' = drops)
<1>1. CASE Clean \/ Start \/ Stop \/ LaunchPulse
  <2>1. CASE Clean
    BY <2>1 DEF Clean, books
  <2>2. CASE Start \/ Stop \/ LaunchPulse
    BY <2>2 DEF Start, Stop, LaunchPulse, books
  <2>. QED  BY <1>1, <2>1, <2>2
<1>7. CASE AwaitArmed \/ WaitPulse \/ Listen \/ WaitController
  BY <1>7 DEF AwaitArmed, WaitPulse, Listen, WaitController, books, harnessVars
<1>2. CASE Before \/ After \/ DeviceReturns
  BY <1>2 DEF Before, After, DeviceReturns, books, harnessVars
<1>3. CASE StopTransport
  BY <1>3 DEF StopTransport
<1>4. CASE \/ PacketDropped \/ StartMisread \/ StepFails \/ StepRefuses \/ PulseArms \/ PulseSeesDrop \/ PulseFinishes
           \/ PulseFails \/ PulseFailsToArm \/ ControllerDisarms \/ ControllerFails \/ DeviceGivesUp
  BY <1>4 DEF PacketDropped, StartMisread, StepFails, StepRefuses, PulseArms, PulseSeesDrop, PulseFinishes,
                PulseFails, PulseFailsToArm, ControllerDisarms, ControllerFails, DeviceGivesUp, books, harnessVars
<1>5. CASE \/ KillProcesses \/ StrayArms \/ RemoveNetem \/ TearDown \/ TearDownFails \/ Ended \/ UNCHANGED vars \/ RowWritten \/ ControllerSettles \/ LaunchDevice \/ Verify
  BY <1>5 DEF KillProcesses, StrayArms, RemoveNetem, TearDown, TearDownFails, Cleaning, Ended, vars, RowWritten, ControllerSettles, LaunchDevice, Verify, books, harnessVars
<1>6. CASE OwnerFails \/ OwnerServed \/ CallReturns
  BY <1>6 DEF OwnerFails, OwnerServed, CallReturns, books, harnessVars
<1>. QED  BY <1>1, <1>2, <1>3, <1>4, <1>5, <1>6, <1>7 DEF Next

\* A drop in N3 is of the trial's own device or of a late request.
LEMMA DroppedStep == ASSUME Types, Typed, Turn, Counted, Late, Books, Dropped, [Next]_vars PROVE Dropped'
<1>1. instance' = instance /\ Profile' = Profile
  BY StepKinds
<1>2. SUFFICES ASSUME Profile = "N3"
      PROVE  /\ drops' \in [baseline : Nat, now : Nat, own : BOOLEAN]
             /\ trial' \in Trials /\ step' > 1 => drops'.now = 0 \/ drops'.own \/ LateUpTo(trial - 1)'
             /\ \A t \in DOMAIN kept' : kept'[t].final = 0 \/ kept'[t].own \/ LateUpTo(t - 1)'
  BY <1>1 DEF Dropped
<1>3. /\ drops \in [baseline : Nat, now : Nat, own : BOOLEAN]
      /\ trial \in Trials /\ step > 1 => drops.now = 0 \/ drops.own \/ LateUpTo(trial - 1)
      /\ \A t \in DOMAIN kept : kept[t].final = 0 \/ kept[t].own \/ LateUpTo(t - 1)
  BY <1>2 DEF Dropped
<1>4. late \subseteq late'
  BY <1>2, LateGrows
<1>5. \A t : LateUpTo(t) => LateUpTo(t)'
  BY <1>4, LateStays
<1>6. trial \in Nat /\ step \in Nat /\ step >= 1
  BY PlaceIs
<1>7. drops' \in [baseline : Nat, now : Nat, own : BOOLEAN]
  <2>1. CASE PacketDropped
    <3>1. PICK own \in BOOLEAN : drops' = [drops EXCEPT !.now = drops.now + 1, !.own = drops.own \/ own]
      BY <2>1 DEF PacketDropped
    <3>2. drops.now + 1 \in Nat /\ (drops.own \/ own) \in BOOLEAN
      BY <1>3
    <3>. QED  BY <1>3, <3>1, <3>2
  <2>2. CASE drops' = drops \/ drops' = NoDrops \/ drops' = [drops EXCEPT !.baseline = drops.now]
    <3>1. NoDrops \in [baseline : Nat, now : Nat, own : BOOLEAN]
      BY DEF NoDrops
    <3>. QED  BY <1>3, <2>2, <3>1
  <2>. QED  BY <1>2, <2>1, <2>2, DropsChange
<1>8. ASSUME trial' \in Trials, step' > 1
      PROVE  drops'.now = 0 \/ drops'.own \/ LateUpTo(trial - 1)'
  <2>1. PICK k \in Nat : k = trial /\ k = trial'
    <3>1. trial' = trial
      BY <1>1, <1>2, <1>8, NextPlace
    <3>. QED  BY <1>6, <3>1
  <2>2. CASE PacketDropped
    <3>1. PICK own \in BOOLEAN : /\ ~own => \E row \in pending : row.trial # trial
                                 /\ drops' = [drops EXCEPT !.now = drops.now + 1, !.own = drops.own \/ own]
      BY <2>2 DEF PacketDropped
    <3>2. drops'.own = (drops.own \/ own)
      BY <1>3, <3>1
    <3>3. CASE own
      BY <3>2, <3>3
    <3>4. CASE ~own
      <4>1. PICK row \in pending : row.trial # k
        BY <2>1, <3>1, <3>4
      <4>2. row.trial \in Trials /\ row.trial <= k
        BY <2>1, RequestsOfStarted DEF Counted
      <4>3. Len(after) >= k - 1 /\ Len(after) \in Nat
        BY <1>2, <2>1, BooksAre
      <4>4. row.trial <= Len(after) /\ row.trial <= k - 1
        BY <4>1, <4>2, <4>3 DEF Trials
      <4>5. row \in late'
        BY <1>4, <4>4 DEF Late
      <4>6. LateUpTo(k - 1)'
        BY <4>4, <4>5 DEF LateUpTo
      <4>. QED  BY <2>1, <4>6
    <3>. QED  BY <3>3, <3>4
  <2>3. CASE Clean /\ drops' = NoDrops
    BY <2>3 DEF NoDrops
  <2>4. CASE drops' = drops \/ drops' = [drops EXCEPT !.baseline = drops.now]
    <3>1. drops'.now = drops.now /\ drops'.own = drops.own
      BY <1>3, <2>4
    <3>2. CASE step > 1
      <4>1. drops.now = 0 \/ drops.own \/ LateUpTo(k - 1)
        BY <1>3, <1>8, <2>1, <3>2
      <4>2. LateUpTo(k - 1) => LateUpTo(k - 1)'
        BY <1>5
      <4>. QED  BY <2>1, <3>1, <4>1, <4>2
    <3>3. CASE ~(step > 1)
      <4>1. step = 1 /\ step' # step
        BY <1>6, <1>8, <3>3
      <4>2. Clean
        BY <1>1, <1>2, <1>8, <4>1, NextPlace
      <4>. QED  BY <4>2 DEF Clean, NoDrops
    <3>. QED  BY <3>2, <3>3
  <2>. QED  BY <1>2, <2>2, <2>3, <2>4, DropsChange
<1>9. ASSUME NEW t \in DOMAIN kept' PROVE kept'[t].final = 0 \/ kept'[t].own \/ LateUpTo(t - 1)'
  <2>1. LateUpTo(t - 1) => LateUpTo(t - 1)'
    BY <1>5
  <2>2. CASE kept' = kept
    BY <1>3, <2>1, <2>2
  <2>3. CASE After /\ kept' = Append(kept, Retained)
    <3>1. PICK S : kept \in Seq(S)
      BY DEF Typed
    <3>2. Len(kept) = trial - 1 /\ trial \in Trials /\ step = 7
      <4>1. AfterAt = 7
        BY <1>2 DEF AfterAt
      <4>. QED  BY <1>1, <1>2, <2>3, <4>1, BooksAre, NamedPlaces
    <3>3. (t \in DOMAIN kept /\ kept'[t] = kept[t]) \/ (t = Len(kept) + 1 /\ kept'[t] = Retained)
      BY <2>3, <3>1
    <3>4. CASE t \in DOMAIN kept /\ kept'[t] = kept[t]
      BY <1>3, <2>1, <3>4
    <3>5. CASE t = Len(kept) + 1 /\ kept'[t] = Retained
      <4>1. t = trial
        BY <1>6, <3>2, <3>5
      <4>2. drops.now = 0 \/ drops.own \/ LateUpTo(t - 1)
        BY <1>3, <3>2, <4>1
      <4>3. Retained.final = drops.now /\ Retained.own = drops.own
        BY DEF Retained
      <4>. QED  BY <2>1, <3>5, <4>2, <4>3
    <3>. QED  BY <3>3, <3>4, <3>5
  <2>. QED  BY <1>2, <2>2, <2>3, DropsChange
<1>. QED  BY <1>7, <1>8, <1>9

-------------------------------------------------------------------------------
(* The reset controller *)

\* The readiness request stays first.
LEMMA BegunStep == ASSUME Typed, Counted, Begun, [Next]_vars, Types, Turn PROVE Begun'
<1>1. CASE Before
  <2>1. before' = Append(before, Len(trace)) /\ before \in Seq(Nat) /\ Len(trace) \in Nat /\ Len(trace) # 0
    BY <1>1 DEF Before, Typed, Counted
  <2>2. \A t \in DOMAIN before' : (t \in DOMAIN before /\ before'[t] = before[t]) \/ before'[t] = Len(trace)
    BY <2>1
  <2>. QED  BY <2>1, <2>2 DEF Begun
<1>2. CASE before' = before
  BY <1>2 DEF Begun
<1>3. Before \/ before' = before
  <2>1. OwnerFails \/ OwnerServed => before' = before
    BY OwnerMade
  <2>. QED  BY <2>1, StepKinds DEF Passes, GoesOn, Quiet, RowWritten, After, StopTransport, ControllerSettles, LaunchDevice,
                   CallReturns, DeviceReturns, Verify, lab, books
<1>. QED  BY <1>1, <1>2, <1>3

\* A log that grows by other events has no more of the controller's.
LEMMA ObservedIn ==
    ASSUME log \in Seq(Events)
    PROVE  /\ "OBSERVED" \in Elements(log \o <<"FAULT_REMOVED", "DISARMED">>) => "OBSERVED" \in Elements(log)
           /\ "OBSERVED" \in Elements(log \o <<"FAULT_REMOVED", "HARNESS_STOPPED">>) => "OBSERVED" \in Elements(log)
           /\ "OBSERVED" \in Elements(Append(log, "HARNESS_STOPPED")) => "OBSERVED" \in Elements(log)
           /\ "OBSERVED" \notin Elements(<< >>)
           /\ "OBSERVED" \notin Elements(<<"HARNESS_STARTED", "FAULT_ARMED", "FAULT_APPLIED">>)
<1>1. ASSUME NEW x, NEW y, x # "OBSERVED", y # "OBSERVED"
      PROVE  "OBSERVED" \in Elements(log \o <<x, y>>) => "OBSERVED" \in Elements(log)
  <2>1. \A i \in DOMAIN (log \o <<x, y>>) :
            (i \in DOMAIN log /\ (log \o <<x, y>>)[i] = log[i]) \/ (log \o <<x, y>>)[i] \in {x, y}
    OBVIOUS
  <2>. QED  BY <1>1, <2>1 DEF Elements
<1>2. "OBSERVED" \in Elements(Append(log, "HARNESS_STOPPED")) => "OBSERVED" \in Elements(log)
  <2>1. \A i \in DOMAIN Append(log, "HARNESS_STOPPED") :
            (i \in DOMAIN log /\ Append(log, "HARNESS_STOPPED")[i] = log[i]) \/ Append(log, "HARNESS_STOPPED")[i] = "HARNESS_STOPPED"
    OBVIOUS
  <2>. QED  BY <2>1 DEF Elements
<1>3. "OBSERVED" \notin Elements(<< >>) /\ "OBSERVED" \notin Elements(<<"HARNESS_STARTED", "FAULT_ARMED", "FAULT_APPLIED">>)
  BY DEF Elements
<1>. QED  BY <1>1, <1>2, <1>3

\* What was seen of a reset stays so.
LEMMA ResetStays ==
    ASSUME Types, Typed, Turn, [Next]_vars, Profile = "N6", NEW t \in Trials
    PROVE  (ResetSeen(t) => ResetSeen(t)') /\ (FirstReset(t) => FirstReset(t)')
<1>1. LateUpTo(t - 1) => LateUpTo(t - 1)'
  BY LateGrows, LateStays
<1>2. owners[t] # << >> => owners'[t] # << >> /\ owners'[t][1] = owners[t][1]
  <2>1. CASE owners' = owners
    BY <2>1
  <2>2. CASE OwnerFails \/ OwnerServed
    <3>1. PICK o \in OwnerRecord : owners' = [owners EXCEPT ![trial] = Append(@, o)]
      BY <2>2, OwnerMade
    <3>2. owners \in [Trials -> Seq(OwnerRecord)]
      BY DEF Typed
    <3>3. owners'[t] = owners[t] \/ owners'[t] = Append(owners[t], o)
      BY <3>1, <3>2
    <3>4. owners[t] \in Seq(OwnerRecord)
      BY <3>2
    <3>. QED  BY <3>3, <3>4
  <2>3. owners' = owners \/ OwnerFails \/ OwnerServed
    BY StepKinds DEF Passes, GoesOn, Quiet, RowWritten, Before, After, StopTransport, ControllerSettles, LaunchDevice,
                     CallReturns, DeviceReturns, Verify
  <2>. QED  BY <2>1, <2>2, <2>3
<1>. QED  BY <1>1, <1>2 DEF ResetSeen, FirstReset

\* What moves the controller of N6, its toxic, its trigger and its log.
LEMMA ControllerMoves ==
    ASSUME IInv, [Next]_vars, Profile = "N6"
    PROVE  /\ \/ UNCHANGED <<fault, controller, log, trigger, kept>>
              \/ /\ ControllerFails \/ WaitController
                 /\ controller' \in {"failed", "none"} /\ UNCHANGED <<fault, log, trigger, kept, owners>>
              \/ /\ job' # "running" /\ controller' \in {controller, "none"} /\ UNCHANGED <<trigger, kept, owners, trial>>
              \/ Clean \/ Start \/ StopTransport \/ Listen \/ ControllerSettles \/ ControllerDisarms \/ OwnerFails
           /\ job' = "running" => job = "running"
<1>1. pulse = "none"
  BY DEF IInv, ByProfile
<1>2. CASE Clean \/ Start \/ Listen
  BY <1>2 DEF Clean, Start, Listen, Doing
<1>3. CASE StopTransport \/ ControllerSettles \/ ControllerDisarms \/ OwnerFails
  BY <1>3 DEF StopTransport, ControllerSettles, ControllerDisarms, OwnerFails, Doing
<1>4. CASE \/ Stop \/ LaunchPulse \/ PulseArms \/ PulseSeesDrop \/ PulseFinishes \/ PulseFails \/ PulseFailsToArm
           \/ WaitPulse \/ StrayArms
  <2>1. LaunchPulse \/ WaitPulse => FALSE
    <3>1. IInv => Types
      BY DEF IInv
    <3>2. Script[step] # "PULSE"
      BY <3>1, ScriptPlaces
    <3>. QED  BY <1>1, <3>2 DEF LaunchPulse, WaitPulse, Doing
  <2>. QED  BY <1>1, <1>4, <2>1 DEF Stop, PulseArms, PulseSeesDrop, PulseFinishes, PulseFails, PulseFailsToArm, StrayArms
<1>5. CASE ControllerFails \/ WaitController
  <2>1. controller' \in {"failed", "none"} /\ UNCHANGED <<fault, log, trigger, kept, owners>> /\ job' = job
    BY <1>5 DEF ControllerFails, WaitController, books
  <2>. QED  BY <1>5, <2>1
<1>6. CASE StartMisread \/ KillProcesses \/ RemoveNetem \/ TearDown \/ TearDownFails
  <2>1. job' # "running" /\ controller' \in {controller, "none"} /\ UNCHANGED <<trigger, kept, owners, trial>>
    BY <1>6 DEF StartMisread, KillProcesses, RemoveNetem, TearDown, TearDownFails, Cleaning, books
  <2>. QED  BY <2>1
<1>7. CASE Before \/ After \/ StepFails \/ StepRefuses \/ AwaitArmed \/ LaunchDevice \/ CallReturns
  BY <1>7 DEF Before, After, StepFails, StepRefuses, AwaitArmed, LaunchDevice, CallReturns, harnessVars, books, Doing
<1>8. CASE OwnerServed \/ DeviceReturns \/ DeviceGivesUp \/ Verify \/ RowWritten \/ PacketDropped \/ Ended \/ UNCHANGED vars
  BY <1>8 DEF OwnerServed, DeviceReturns, DeviceGivesUp, Verify, RowWritten, PacketDropped, Ended, vars, harnessVars, books, Doing
<1>. QED  BY <1>2, <1>3, <1>4, <1>5, <1>6, <1>7, <1>8 DEF Next

\* The toxic is on from its arming to the controller's answer.
LEMMA ToxicOnStep == ASSUME IInv, Types, Profile = "N6", ToxicOn, [Next]_vars PROVE ToxicOn'
<1>1. SUFFICES ASSUME job' = "running", (trial' \in Trials /\ step' = 4) \/ controller' \in {"listening", "asked"}
      PROVE  fault' = "armed"
  BY DEF ToxicOn
<1>2. job = "running" /\ instance' = instance /\ step \in Nat
  BY <1>1, ControllerMoves, StepKinds, PlaceIs
<1>3. ((trial \in Trials /\ step = 4) \/ controller \in {"listening", "asked"}) => fault = "armed"
  BY <1>2 DEF ToxicOn
<1>4. controller # "none" => trial \in Trials /\ step \in 5 .. 6
  BY <1>2 DEF IInv, ByPlace
<1>5. Len(Script) = 8
  BY PlaceIs
<1>6. CASE UNCHANGED <<fault, controller, log, trigger, kept>> \/ ControllerFails \/ WaitController
  <2>1. fault' = fault /\ (controller' = controller \/ controller' \notin {"listening", "asked"})
    BY <1>6 DEF ControllerFails, WaitController
  <2>2. CASE controller' \in {"listening", "asked"}
    BY <1>3, <2>1, <2>2
  <2>3. CASE trial' \in Trials /\ step' = 4
    <3>1. Start \/ (trial = trial' /\ step = 4)
      BY <1>2, <2>3, NextPlace
    <3>. QED  BY <1>3, <2>1, <2>3, <3>1 DEF Start
  <2>. QED  BY <1>1, <2>2, <2>3
<1>7. CASE Clean
  <2>1. step = 1 /\ controller' = controller
    BY <1>7, Places DEF Clean, Doing
  <2>2. step' # 4
    BY <1>2, <1>5, <1>7, <2>1, NextPlace DEF Clean, Advance
  <2>. QED  BY <1>1, <1>4, <2>1, <2>2
<1>8. CASE Start
  BY <1>8 DEF Start
<1>9. CASE StopTransport
  <2>1. step = 8 /\ step' = 1 /\ controller' = controller
    BY <1>2, <1>9, NamedPlaces DEF StopTransport
  <2>. QED  BY <1>1, <1>4, <2>1
<1>10. CASE Listen
  <2>1. step = 4 /\ trial \in Trials /\ fault' = fault
    BY <1>10, Places DEF Listen, Doing
  <2>. QED  BY <1>3, <2>1
<1>11. CASE ControllerSettles
  <2>1. controller = "asked" /\ fault' = fault
    BY <1>11 DEF ControllerSettles
  <2>. QED  BY <1>3, <2>1
<1>12. CASE ControllerDisarms
  <2>1. controller # "none" /\ controller' = "done" /\ step' = step
    BY <1>12 DEF ControllerDisarms
  <2>. QED  BY <1>1, <1>4, <2>1
<1>13. CASE OwnerFails
  <2>1. fault = "armed" /\ fault' = fault
    BY <1>13 DEF OwnerFails, MustFail
  <2>. QED  BY <2>1
<1>. QED  BY <1>1, <1>6, <1>7, <1>8, <1>9, <1>10, <1>11, <1>12, <1>13, ControllerMoves

\* It is the first owner the controller hears of.
LEMMA FirstHeardStep == ASSUME IInv, Types, Typed, Turn, Profile = "N6", ToxicOn, FirstHeard, [Next]_vars PROVE FirstHeard'
<1>1. SUFFICES ASSUME job' = "running", controller' = "listening"
      PROVE  owners'[trial'] = << >>
  BY DEF FirstHeard
<1>2. job = "running" /\ instance' = instance /\ step \in Nat
  BY <1>1, ControllerMoves, StepKinds, PlaceIs
<1>3. controller # "none" => trial \in Trials /\ step \in 5 .. 6
  BY <1>2 DEF IInv, ByPlace
<1>4. CASE Listen
  <2>1. step = 4 /\ trial \in Trials /\ owners' = owners
    BY <1>4, Places DEF Listen, Doing
  <2>2. DeviceAt = 5 /\ trial' = trial
    <3>1. Len(Script) = 8 /\ DeviceAt = 5
      BY PlaceIs
    <3>. QED  BY <1>2, <1>4, <2>1, <3>1, NextPlace
  <2>3. owners[trial] = << >>
    BY <2>1, <2>2 DEF Turn
  <2>. QED  BY <2>1, <2>2, <2>3
<1>5. CASE ~Listen
  <2>1. controller = "listening" \/ OwnerFails
    BY <1>1, <1>5, ControllerMoves DEF Clean, Start, StopTransport, ControllerSettles, ControllerDisarms
  <2>2. ~OwnerFails
    BY <1>1 DEF OwnerFails
  <2>3. controller = "listening" /\ owners[trial] = << >> /\ fault = "armed" /\ trial \in Trials /\ step \in 5 .. 6
    BY <1>2, <1>3, <2>1, <2>2 DEF FirstHeard, ToxicOn
  <2>4. trial' = trial
    <3>1. Len(Script) = 8
      BY PlaceIs
    <3>. QED  BY <1>2, <2>3, <3>1, NextPlace
  <2>5. ~OwnerServed
    BY <2>3 DEF OwnerServed, MustFail
  <2>6. owners' = owners
    BY <2>2, <2>5, StepKinds DEF Passes, GoesOn, Quiet, RowWritten, Before, After, StopTransport, ControllerSettles, LaunchDevice,
                     CallReturns, DeviceReturns, Verify
  <2>. QED  BY <2>3, <2>4, <2>6
<1>. QED  BY <1>4, <1>5

\* What it hears of was cut by the toxic.
LEMMA HeardArmedStep ==
    ASSUME IInv, Types, Typed, Turn, Profile = "N6", ToxicOn, FirstHeard, HeardArmed, [Next]_vars
    PROVE  HeardArmed'
<1>1. SUFFICES ASSUME controller' = "asked"
      PROVE  \A i \in DOMAIN owners'[trial'] : owners'[trial'][i].armed
  BY DEF HeardArmed
<1>2. instance' = instance /\ step \in Nat /\ Len(Script) = 8
  BY StepKinds, PlaceIs
<1>3. CASE OwnerFails
  <2>1. PICK o \in OwnerRecord : owners' = [owners EXCEPT ![trial] = Append(@, o)] /\ (o.armed <=> fault = "armed")
    BY <1>3, OwnerMade
  <2>2. trial' = trial /\ trial \in Trials /\ job = "running"
    BY <1>3, OwnerMade
  <2>3. o.armed
    BY <1>3, <2>1 DEF OwnerFails, MustFail
  <2>4. owners[trial] = << >> \/ controller = "asked"
    BY <1>1, <1>3, <2>2 DEF OwnerFails, FirstHeard
  <2>5. owners'[trial] = Append(owners[trial], o) /\ owners[trial] \in Seq(OwnerRecord)
    BY <2>1, <2>2 DEF Typed
  <2>6. \A i \in DOMAIN owners[trial] : owners[trial][i].armed
    BY <2>4 DEF HeardArmed
  <2>7. \A i \in DOMAIN owners'[trial] : (i \in DOMAIN owners[trial] /\ owners'[trial][i] = owners[trial][i]) \/ owners'[trial][i] = o
    BY <2>5
  <2>. QED  BY <2>2, <2>3, <2>6, <2>7
<1>4. CASE ~OwnerFails
  <2>1. controller = "asked"
    BY <1>1, <1>4, ControllerMoves DEF Clean, Start, StopTransport, Listen, ControllerSettles, ControllerDisarms
  <2>2. job = "running" => fault = "armed" /\ step \in 5 .. 6
    BY <2>1 DEF ToxicOn, IInv, ByPlace
  <2>3. trial' = trial
    BY <1>2, <2>2, NextPlace
  <2>4. ~OwnerServed
    BY <2>2 DEF OwnerServed, MustFail
  <2>5. owners' = owners
    BY <1>4, <2>4, StepKinds DEF Passes, GoesOn, Quiet, RowWritten, Before, After, StopTransport, ControllerSettles, LaunchDevice,
                     CallReturns, DeviceReturns, Verify
  <2>. QED  BY <2>1, <2>3, <2>5 DEF HeardArmed
<1>. QED  BY <1>3, <1>4

\* The row the controller sees is of the first owner, which reached the origin,
\* or a late one's.
LEMMA SeenAtSettle ==
    ASSUME IInv, Types, Typed, Turn, Profile = "N6", OwnersTell, Counted, Books, Begun, HeardArmed,
           ControllerSettles, job = "running", trial \in Trials
    PROVE  ResetSeen(trial)
<1>1. PICK k \in Trials : k = trial
  OBVIOUS
<1>2. step \in 5 .. 6 /\ controller = "asked" /\ Len(trace) > before[k]
  BY <1>1 DEF IInv, ByPlace, ControllerSettles, FirstOwnerSettled
<1>3. k \in DOMAIN before
  <2>1. BeforeAt = 2
    BY DEF BeforeAt
  <2>2. Len(before) = k
    BY <1>1, <1>2, <2>1 DEF Books
  <2>. QED  BY <2>2 DEF Typed, Trials
<1>4. Len(trace) \in DOMAIN trace /\ Len(trace) # 1 /\ Len(trace) \in Nat
  <2>1. before[k] >= 1 /\ before[k] \in Nat
    BY <1>3 DEF Begun, Typed
  <2>2. Len(trace) \in Nat /\ DOMAIN trace = 1 .. Len(trace)
    BY DEF Typed
  <2>. QED  BY <1>2, <2>1, <2>2
<1>5. PICK row : row = trace[Len(trace)]
  OBVIOUS
<1>6. IsRequest(row) /\ row.trial \in Trials /\ row.trial <= k
  <2>1. IsRequest(row)
    BY <1>4, <1>5 DEF Counted
  <2>. QED  BY <1>1, <2>1, RequestsOfStarted
<1>7. row.trial >= k \/ row \in late
  BY <1>2, <1>3, <1>4, <1>5 DEF Books
<1>8. CASE row.trial = k
  <2>1. PICK i \in DOMAIN owners[k] : i = row.owner /\ row.n \in 1 .. owners[k][i].requests
    BY <1>6, <1>8 DEF IsRequest
  <2>2. owners[k] \in Seq(OwnerRecord) /\ DOMAIN owners[k] = 1 .. Len(owners[k]) /\ Len(owners[k]) \in Nat
    BY DEF Typed
  <2>3. owners[k] # << >> /\ 1 \in DOMAIN owners[k]
    BY <2>1, <2>2
  <2>4. owners[k][i].armed /\ owners[k][1].armed
    BY <1>1, <1>2, <2>1, <2>3 DEF HeardArmed
  <2>5. owners[k][i].requests > 0
    <3>1. owners[k][i] \in OwnerRecord
      BY <2>1, <2>2
    <3>2. owners[k][i].requests \in Nat
      BY <3>1 DEF OwnerRecord
    <3>. QED  BY <2>1, <3>2
  <2>6. instance.kind # "silent"
    BY <2>1, <2>4, <2>5 DEF OwnersTell
  <2>7. owners[k][1].requests > 0
    BY <2>3, <2>4, <2>6 DEF OwnersTell
  <2>. QED  BY <1>1, <2>3, <2>7 DEF ResetSeen
<1>9. CASE row.trial # k
  <2>1. row \in late /\ row.trial <= k - 1
    BY <1>6, <1>7, <1>9 DEF Trials
  <2>2. LateUpTo(k - 1)
    BY <2>1 DEF LateUpTo
  <2>. QED  BY <1>1, <2>2 DEF ResetSeen
<1>. QED  BY <1>8, <1>9

\* What the trigger and the log of a running trial tell is of its first owner.
LEMMA TriggerTellsStep ==
    ASSUME IInv, Types, Typed, Turn, Profile = "N6", OwnersTell, Counted, Books, Begun, FirstHeard, HeardArmed,
           TriggerTells, [Next]_vars
    PROVE  TriggerTells'
<1>1. SUFFICES ASSUME job' = "running", trial' \in Trials, step' > 1
      PROVE  /\ trigger'.at # 0 => ResetSeen(trial)'
             /\ "OBSERVED" \in Elements(log') => FirstReset(trial)'
  BY DEF TriggerTells
<1>2. job = "running" /\ instance' = instance /\ step \in Nat /\ step >= 1
  BY <1>1, ControllerMoves, StepKinds, PlaceIs
<1>3. PICK k \in Trials : k = trial /\ k = trial'
  <2>1. trial' = trial
    BY <1>1, <1>2, NextPlace
  <2>. QED  BY <1>1, <2>1
<1>4. (ResetSeen(k) => ResetSeen(k)') /\ (FirstReset(k) => FirstReset(k)')
  BY ResetStays
<1>5. SUFFICES /\ trigger'.at # 0 => ResetSeen(k)'
               /\ "OBSERVED" \in Elements(log') => FirstReset(k)'
  BY <1>3
<1>6. CASE Clean
  <2>1. log \in Seq(Events)
    BY DEF Types
  <2>. QED  BY <1>6, <2>1, ObservedIn DEF Clean, NoTrigger
<1>7. CASE ~Clean
  <2>1. step > 1
    <3>1. step # 1
      BY <1>1, <1>2, <1>7, NextPlace
    <3>. QED  BY <1>2, <3>1
  <2>2. /\ trigger.at # 0 => ResetSeen(k)
        /\ "OBSERVED" \in Elements(log) => FirstReset(k)
    BY <1>2, <1>3, <2>1 DEF TriggerTells
  <2>3. log \in Seq(Events)
    BY DEF Types
  <2>4. CASE UNCHANGED <<log, trigger>>
    BY <1>4, <2>2, <2>4
  <2>5. CASE Start
    BY <1>4, <2>2, <2>3, <2>5, ObservedIn DEF Start
  <2>6. CASE StopTransport
    BY <1>1, <1>2, <2>6, NamedPlaces
  <2>7. CASE ControllerSettles
    <3>1. ResetSeen(k)
      BY <1>2, <1>3, <2>7, SeenAtSettle
    <3>2. log' = log
      BY <2>7 DEF ControllerSettles
    <3>. QED  BY <1>4, <2>2, <3>1, <3>2
  <2>8. CASE ControllerDisarms
    <3>1. trigger' = trigger /\ ("OBSERVED" \in Elements(log') => "OBSERVED" \in Elements(log))
      BY <2>3, <2>8, ObservedIn DEF ControllerDisarms
    <3>. QED  BY <1>4, <2>2, <3>1
  <2>9. CASE OwnerFails
    <3>1. trigger' = trigger
      BY <2>9 DEF OwnerFails
    <3>2. CASE controller # "listening"
      <4>1. log' = log
        BY <2>9, <3>2 DEF OwnerFails
      <4>. QED  BY <1>4, <2>2, <3>1, <4>1
    <3>3. CASE controller = "listening"
      <4>1. owners[k] = << >>
        BY <1>2, <1>3, <3>3 DEF FirstHeard
      <4>2. PICK o \in OwnerRecord : owners' = [owners EXCEPT ![trial] = Append(@, o)] /\ (o.armed <=> fault = "armed")
        BY <2>9, OwnerMade
      <4>3. owners'[k] = Append(<< >>, o)
        BY <1>3, <4>1, <4>2 DEF Typed
      <4>4. o.armed
        BY <2>9, <4>2 DEF OwnerFails, MustFail
      <4>5. owners'[k] # << >> /\ owners'[k][1] = o
        BY <4>3
      <4>6. FirstReset(k)'
        BY <4>4, <4>5 DEF FirstReset
      <4>. QED  BY <1>4, <2>2, <3>1, <4>6
    <3>. QED  BY <3>2, <3>3
  <2>. QED
    <3>1. ControllerFails \/ WaitController \/ Listen => UNCHANGED <<log, trigger>>
      BY DEF ControllerFails, WaitController, Listen
    <3>. QED  BY <1>1, <1>7, <2>4, <2>5, <2>6, <2>7, <2>8, <2>9, <3>1, ControllerMoves
<1>. QED  BY <1>6, <1>7

\* What is kept of a trial tells it too.
LEMMA KeptTellsStep ==
    ASSUME IInv, Types, Typed, Turn, Profile = "N6", Books, TriggerTells, KeptTells, [Next]_vars
    PROVE  KeptTells'
<1>1. instance' = instance
  BY StepKinds
<1>2. PICK S : kept \in Seq(S)
  BY DEF Typed
<1>3. DOMAIN kept \subseteq Trials /\ Len(kept) = trial - 1 /\ Len(kept) \in Nat /\ trial \in Nat /\ DOMAIN kept = 1 .. Len(kept)
  <2>1. trial \in 1 .. 5 /\ Len(kept) = trial - 1 /\ DOMAIN kept = 1 .. Len(kept)
    BY BooksAre DEF Types
  <2>. QED  BY <2>1 DEF Trials
<1>4. \A t \in DOMAIN kept : (ResetSeen(t) => ResetSeen(t)') /\ (FirstReset(t) => FirstReset(t)')
  BY <1>3, ResetStays
<1>5. CASE kept' = kept
  BY <1>4, <1>5 DEF KeptTells
<1>6. CASE StopTransport
  <2>1. step = 8 /\ trial \in Trials /\ job = "running"
    BY <1>1, <1>6, NamedPlaces
  <2>2. PICK k \in Trials : k = trial
    BY <2>1
  <2>3. PICK r : r = [Retained EXCEPT !.log = log'] /\ kept' = Append(kept, r)
    BY <1>6 DEF StopTransport
  <2>4. r.log = log' /\ r.trigger = trigger
    BY <2>3 DEF Retained
  <2>5. log \in Seq(Events)
    BY DEF Types
  <2>6. "OBSERVED" \in Elements(log') => "OBSERVED" \in Elements(log)
    BY <1>6, <2>5, ObservedIn DEF StopTransport
  <2>7. /\ trigger.at # 0 => ResetSeen(k)
        /\ "OBSERVED" \in Elements(log) => FirstReset(k)
    BY <2>1, <2>2 DEF TriggerTells
  <2>8. (ResetSeen(k) => ResetSeen(k)') /\ (FirstReset(k) => FirstReset(k)')
    BY ResetStays
  <2>9. \A t \in DOMAIN kept' : (t \in DOMAIN kept /\ kept'[t] = kept[t]) \/ (t = k /\ kept'[t] = r)
    BY <1>2, <1>3, <2>2, <2>3
  <2>10. ASSUME NEW t \in DOMAIN kept'
         PROVE  /\ kept'[t].trigger.at # 0 => ResetSeen(t)'
                /\ "OBSERVED" \in Elements(kept'[t].log) => FirstReset(t)'
    <3>1. CASE t \in DOMAIN kept /\ kept'[t] = kept[t]
      BY <1>4, <3>1 DEF KeptTells
    <3>2. CASE t = k /\ kept'[t] = r
      BY <2>4, <2>6, <2>7, <2>8, <3>2
    <3>. QED  BY <2>9, <3>1, <3>2
  <2>. QED  BY <2>10 DEF KeptTells
<1>7. CASE Clean \/ Start \/ Listen \/ ControllerSettles \/ ControllerDisarms \/ OwnerFails
  <2>1. kept' = kept
    BY <1>7 DEF Clean, Start, Listen, ControllerSettles, ControllerDisarms, OwnerFails, books
  <2>. QED  BY <1>5, <2>1
<1>. QED  BY <1>5, <1>6, <1>7, ControllerMoves

\* The reset's part of the invariant.
LEMMA ResetStep ==
    ASSUME IInv, Types, Typed, Turn, OwnersTell, Counted, Books, Begun, Reset, [Next]_vars
    PROVE  Reset'
<1>1. SUFFICES ASSUME Profile = "N6" PROVE (ToxicOn /\ FirstHeard /\ HeardArmed /\ TriggerTells /\ KeptTells)'
  BY StepKinds DEF Reset
<1>2. ToxicOn /\ FirstHeard /\ HeardArmed /\ TriggerTells /\ KeptTells
  BY <1>1 DEF Reset
<1>. QED  BY <1>1, <1>2, ToxicOnStep, FirstHeardStep, HeardArmedStep, TriggerTellsStep, KeptTellsStep

-------------------------------------------------------------------------------
(* The inductive invariant *)

\* The inductive invariant.
Whole ==
    /\ IInv /\ Typed /\ Turn /\ AllServed /\ OwnersTell /\ Counted /\ NothingLost /\ Late /\ Books /\ Begun
    /\ Dropped /\ Reset /\ Idle

\* It is so when a job begins.
LEMMA WholeAtFirst == ASSUME Init PROVE Whole
<1>1. IInv /\ Types /\ Typed /\ Turn /\ AllServed /\ OwnersTell
  BY InitIsContained, FirstOwners
<1>2. \A t \in Trials : owners[t] = << >>
  BY DEF Init
<1>3. Counted
  <2>1. PICK row : row = [trial |-> 0, owner |-> 0, n |-> 0, cut |-> FALSE]
    OBVIOUS
  <2>2. trace = <<row>> /\ row.trial = 0 /\ pending = {}
    BY <2>1 DEF Init
  <2>3. trace # << >> /\ trace[1] = row /\ Len(trace) = 1 /\ DOMAIN trace = {1}
    BY <2>2
  <2>4. Cardinality(pending) = 0
    BY <2>2, FS_EmptySet
  <2>5. Made(4) = 0
    <3>1. \A t \in Trials : Asked(owners[t]) = 0
      BY <1>2, AskedIs
    <3>2. Upto(4, 1) = 0 /\ Upto(4, 2) = 0 /\ Upto(4, 3) = 0 /\ Upto(4, 4) = 0
      BY <3>1 DEF Upto, Trials
    <3>. QED  BY <3>2 DEF Made
  <2>. QED  BY <2>2, <2>3, <2>4, <2>5 DEF Counted
<1>4. NothingLost
  BY <1>2 DEF NothingLost
<1>5. Late
  BY DEF Init, Late
<1>6. Books /\ Begun
  <2>1. BeforeAt >= 1 /\ AfterAt >= 1
    BY DEF BeforeAt, AfterAt
  <2>2. BeforeAt \in Nat /\ AfterAt \in Nat
    BY DEF BeforeAt, AfterAt
  <2>3. before = << >> /\ after = << >> /\ kept = << >> /\ trial = 1 /\ step = 1
    BY DEF Init
  <2>. QED  BY <2>1, <2>2, <2>3 DEF Books, Begun
<1>7. Dropped
  BY DEF Init, Dropped, NoDrops
<1>8. Reset
  BY DEF Init, Reset, ToxicOn, FirstHeard, HeardArmed, TriggerTells, KeptTells
<1>9. Idle
  BY DEF Init, Idle, Accepted
<1>. QED  BY <1>1, <1>3, <1>4, <1>5, <1>6, <1>7, <1>8, <1>9 DEF Whole

\* And stays so.
LEMMA WholeStep == ASSUME Whole, [Next]_vars PROVE Whole'
<1>1. Types /\ IInv /\ Typed /\ Turn /\ AllServed /\ OwnersTell /\ Counted /\ NothingLost /\ Late /\ Books /\ Begun
  BY DEF Whole, IInv
<1>2. Dropped /\ Reset /\ Idle
  BY DEF Whole
<1>3. IInv' /\ Typed' /\ Turn'
  BY <1>1, ContainedStep, OwnersStep
<1>4. AllServed' /\ OwnersTell' /\ NothingLost'
  BY <1>1, AllServedStep, OwnersTellStep, NothingLostStep
<1>5. Counted' /\ Late' /\ Books' /\ Begun'
  BY <1>1, <1>3, CountedStep, LateStep, BooksStep, BegunStep
<1>6. Dropped' /\ Reset' /\ Idle'
  BY <1>1, <1>2, DroppedStep, ResetStep, IdleStep
<1>. QED  BY <1>3, <1>4, <1>5, <1>6 DEF Whole

\* So it holds throughout.
LEMMA Throughout == Spec => []Whole
<1>1. Init => Whole
  BY WholeAtFirst
<1>2. Whole /\ [Next]_vars => Whole'
  BY WholeStep
<1>. QED  BY <1>1, <1>2, PTL DEF Spec

-------------------------------------------------------------------------------
(* What was verified *)

\* What the documents of an accepted job tell of their owners, their correlated
\* requests and the route is so.
LEMMA RawsTell ==
    ASSUME NEW t \in Trials, instance.misreport \in Unchecked
    PROVE  /\ Evidence.raws[t].proof.attempts = Proof(t).attempts
           /\ Evidence.raws[t].proof.correlated = Correlated(t)
           /\ Evidence.raws[t].proof.route = Proof(t).route
           /\ Evidence.raws[t].proof.routeBefore = Proof(t).routeBefore
           /\ Evidence.raws[t].proof.routeAfter = Proof(t).routeAfter
           /\ Evidence.raws[t].row.recovery = Row(t).recovery
<1> DEFINE raw == TrueRaw(t)
<1>1. {"row", "proof"} \subseteq DOMAIN raw /\ raw.row = Row(t) /\ raw.proof = Proof(t) /\ Proof(t).correlated = Correlated(t)
  BY DEF TrueRaw, Proof
<1>2. {"firstProgress", "failures", "attempts", "correlated", "route", "routeBefore", "routeAfter"} \subseteq DOMAIN raw.proof
  BY <1>1 DEF Proof
<1>3. {"metrics", "recovery"} \subseteq DOMAIN raw.row
  BY <1>1 DEF Row
<1>4. PICK m : Evidence.raws[t] = RawSaying(raw, m) /\ m \in Unchecked \cup {"none"}
  BY EvidenceIs
<1>5. m \in {"none", "cpu", "progress", "environmentRun", "trigger", "code", "readback", "unclean", "otherRun", "observation"}
  BY <1>4 DEF Unchecked
<1> HIDE DEF raw
<1>6. CASE m = "cpu"
  <2>1. RawSaying(raw, "cpu") = [raw EXCEPT !.row.metrics.cpuTimeUs = 0]
    BY DEF RawSaying
  <2>2. /\ [raw EXCEPT !.row.metrics.cpuTimeUs = 0].proof = raw.proof
        /\ [raw EXCEPT !.row.metrics.cpuTimeUs = 0].row.recovery = raw.row.recovery
    BY <1>1, <1>3
  <2>. QED  BY <1>1, <1>4, <1>6, <2>1, <2>2
<1>7. CASE m = "progress"
  <2> DEFINE x == raw.proof.firstProgress + 3
             y == raw.row.metrics.firstByteUs + 3
             says == [raw EXCEPT !.proof.firstProgress = x, !.row.metrics.firstByteUs = y]
  <2>1. RawSaying(raw, "progress") = says
    BY DEF RawSaying
  <2> HIDE DEF x, y
  <2>2. /\ says.proof.attempts = raw.proof.attempts /\ says.proof.correlated = raw.proof.correlated
        /\ says.proof.route = raw.proof.route /\ says.proof.routeBefore = raw.proof.routeBefore
        /\ says.proof.routeAfter = raw.proof.routeAfter /\ says.row.recovery = raw.row.recovery
    BY <1>1, <1>2, <1>3
  <2> HIDE DEF says
  <2>. QED  BY <1>1, <1>4, <1>7, <2>1, <2>2
<1>8. CASE m = "observation"
  <2> DEFINE says == [raw EXCEPT !.proof.failures[1].observation = "HTTP_STATUS"]
  <2>1. RawSaying(raw, "observation") = says
    BY DEF RawSaying
  <2>2. /\ says.proof.attempts = raw.proof.attempts /\ says.proof.correlated = raw.proof.correlated
        /\ says.proof.route = raw.proof.route /\ says.proof.routeBefore = raw.proof.routeBefore
        /\ says.proof.routeAfter = raw.proof.routeAfter /\ says.row = raw.row
    BY <1>1, <1>2
  <2> HIDE DEF says
  <2>. QED  BY <1>1, <1>4, <1>8, <2>1, <2>2
<1>9. CASE m \in {"none", "environmentRun", "trigger", "code", "readback", "unclean", "otherRun"}
  <2>1. RawSaying(raw, m) = raw
    BY <1>9 DEF RawSaying
  <2>. QED  BY <1>1, <1>4, <2>1
<1>. QED  BY <1>5, <1>6, <1>7, <1>8, <1>9

\* The attempts of a trial are its owners'.
LEMMA AttemptsAre ==
    ASSUME Typed, NEW t \in Trials
    PROVE  /\ Len(Proof(t).attempts) = Len(owners[t]) /\ Len(owners[t]) \in Nat
           /\ \A i \in 1 .. Len(owners[t]) : Proof(t).attempts[i] = Attempt(t, i)
           /\ Row(t).recovery.owners = Len(owners[t])
<1>1. Len(owners[t]) \in Nat
  BY DEF Typed
<1>2. Proof(t).attempts = [i \in 1 .. Len(owners[t]) |-> Attempt(t, i)]
  BY DEF Proof
<1>3. Row(t).recovery.owners = Len(owners[t])
  BY DEF Row
<1>. QED  BY <1>1, <1>2, <1>3

\* At the end of the script there is an entry of the books for each trial.
LEMMA AtTheEnd ==
    ASSUME Whole, trial \notin Trials
    PROVE  /\ Profile # "N0" => Trials \subseteq DOMAIN before /\ Trials \subseteq DOMAIN after /\ Trials \subseteq DOMAIN kept
           /\ Profile # "N0" => Len(after) >= 4 /\ Len(after) \in Nat
           /\ \A t \in Trials : Served(t)
<1>1. Types /\ Typed /\ Books /\ AllServed
  BY DEF Whole, IInv
<1>2. trial = 5
  BY <1>1 DEF Types, Trials
<1>3. /\ Len(before) \in Nat /\ Len(after) \in Nat /\ Len(kept) \in Nat
      /\ DOMAIN before = 1 .. Len(before) /\ DOMAIN after = 1 .. Len(after) /\ DOMAIN kept = 1 .. Len(kept)
  BY <1>1, BooksAre
<1>4. ASSUME Profile # "N0" PROVE Len(before) >= 4 /\ Len(after) >= 4 /\ Len(kept) = 4
  <2>1. /\ Len(before) = trial \/ Len(before) = trial - 1
        /\ Len(after) = trial \/ Len(after) = trial - 1
        /\ Len(kept) = trial - 1
    BY <1>1, <1>4 DEF Books
  <2>. QED  BY <1>2, <2>1
<1>5. \A t \in Trials : Served(t)
  BY <1>1, <1>2 DEF AllServed, Trials
<1>. QED  BY <1>3, <1>4, <1>5 DEF Trials

\* The counts follow one another.
LEMMA PartitionsAre ==
    ASSUME Whole, trial \notin Trials, Verified(Evidence, Profile), Profile # "N0"
    PROVE  /\ before[1] = 1 /\ \A t \in Trials : t > 1 => before[t] = after[t - 1]
           /\ \A t \in Trials : before[t] < after[t] /\ after[t] <= Len(trace) /\ before[t] \in Nat /\ after[t] \in Nat
           /\ after[4] = Len(trace)
           /\ \A t \in Trials : Len(Partition(Evidence, t)) = after[t] - before[t]
<1>1. Typed /\ Types
  BY DEF Whole, IInv
<1>2. PartitionsOk(Evidence)
  BY <1>1, Judged, Places
<1>3. Len(Evidence.trace) = Len(trace) /\ Evidence.before = before /\ Evidence.after = after
  BY <1>1, EvidenceIs DEF Typed
<1>4. \A t \in Trials : before[t] \in Nat /\ after[t] \in Nat
  <2>1. Trials \subseteq DOMAIN before /\ Trials \subseteq DOMAIN after
    BY AtTheEnd
  <2>. QED  BY <1>1, <2>1 DEF Typed
<1>5. before[1] = 1 /\ after[4] = Len(trace)
  BY <1>2, <1>3 DEF PartitionsOk
<1>6. \A t \in Trials : before[t] < after[t] /\ after[t] <= Len(trace) /\ (t > 1 => before[t] = after[t - 1])
  BY <1>2, <1>3 DEF PartitionsOk, Trials
<1>7. ASSUME NEW t \in Trials PROVE Len(Partition(Evidence, t)) = after[t] - before[t]
  <2>1. PICK b, a \in Nat : b = before[t] /\ a = after[t]
    BY <1>4
  <2>2. b < a /\ a <= Len(trace) /\ Len(trace) \in Nat
    BY <1>1, <1>6, <2>1 DEF Typed
  <2>3. PICK s : s = Evidence.trace
    OBVIOUS
  <2>4. PICK S : s \in Seq(S)
    <3>1. s = [i \in DOMAIN trace |-> TraceRow(trace[i])] /\ DOMAIN trace = 1 .. Len(trace) /\ Len(trace) \in Nat
      BY <1>1, <2>3, EvidenceIs DEF Typed
    <3>2. PICK n \in Nat : n = Len(trace)
      BY <3>1
    <3>3. s \in Seq({TraceRow(trace[i]) : i \in 1 .. n})
      BY <3>1, <3>2
    <3>. QED  BY <3>3
  <2>5. Len(SubSeq(s, b + 1, a)) = a - (b + 1) + 1
    BY <1>3, <2>2, <2>3, <2>4
  <2>. QED  BY <1>3, <2>1, <2>3, <2>5 DEF Partition
<1>. QED  BY <1>4, <1>5, <1>6, <1>7

\* What is counted between the two counts of a trial, but for the late requests.
LEMMA OriginCounted ==
    ASSUME Whole, trial \notin Trials, Verified(Evidence, Profile), Profile # "N0", NEW t \in Trials, ~LateUpTo(t)
    PROVE  after[t] - before[t] = Asked(owners[t])
<1>1. Typed /\ Books
  BY DEF Whole
<1>2. t \in DOMAIN after /\ (t > 1 => t - 1 \in DOMAIN after)
  BY AtTheEnd DEF Trials
<1>3. ~LateUpTo(t - 1)
  <2>1. \A row \in late : ~(row.trial <= t)
    BY DEF LateUpTo
  <2>2. \A row \in late : row.trial \in 0 .. 4
    BY <1>1 DEF Typed, RowRecord
  <2>. QED  BY <2>1, <2>2 DEF LateUpTo, Trials
<1>4. after[t] = 1 + Made(t) /\ (t > 1 => after[t - 1] = 1 + Made(t - 1))
  BY <1>1, <1>2, <1>3 DEF Books
<1>5. before[1] = 1 /\ (t > 1 => before[t] = after[t - 1])
  BY PartitionsAre
<1>6. Made(t) = Made(t - 1) + Asked(owners[t]) /\ Made(0) = 0 /\ Made(t) \in Nat /\ Made(t - 1) \in Nat /\ Asked(owners[t]) \in Nat
  BY <1>1, MadeIs DEF Trials
<1>7. CASE t = 1
  <2>1. Made(t - 1) = 0
    BY <1>6, <1>7
  <2>. QED  BY <1>4, <1>5, <1>6, <1>7, <2>1
<1>8. CASE t # 1
  <2>1. before[t] = 1 + Made(t - 1)
    BY <1>4, <1>5, <1>8 DEF Trials
  <2>. QED  BY <1>4, <1>6, <2>1
<1>. QED  BY <1>7, <1>8

-------------------------------------------------------------------------------
(* The fault of an accepted job *)

\* The reset cut the first owner of each trial on its way to the origin.
LEMMA ResetIsReal ==
    ASSUME Whole, trial \notin Trials, Verified(Evidence, Profile), Profile = "N6", instance.misreport \in Unchecked,
           NEW t \in Trials
    PROVE  /\ ResetSeen(t) /\ FirstReset(t)
           /\ Len(owners[t]) = 2 /\ ~owners[t][2].armed /\ owners[t][2].requests > 0
<1>1. Typed /\ Reset
  BY DEF Whole
<1>2. ResetTrialOk(Evidence, t)
  BY Judged DEF VerifyReset, Profiles
<1>3. Evidence.triggers[t] = TriggerRecord(t) /\ Evidence.harnesses[t] = HarnessRecord(t)
  BY EvidenceIs DEF HarnessProfiles, Profiles
<1>4. TriggerRecord(t).before = before[t] /\ TriggerRecord(t).at = kept[t].trigger.at /\ HarnessRecord(t).log = kept[t].log
  BY DEF TriggerRecord, HarnessRecord
<1>5. TriggerOk(TriggerRecord(t), kept[t].log, Schedule(Evidence)[t].trialId)
  BY <1>2, <1>3, <1>4 DEF ResetTrialOk
<1>6. before[t] < kept[t].trigger.at /\ "OBSERVED" \in Elements(kept[t].log)
  BY <1>4, <1>5 DEF TriggerOk
<1>7. t \in DOMAIN kept /\ before[t] \in Nat
  BY AtTheEnd, PartitionsAre
<1>8. KeptTells
  BY <1>1 DEF Reset
<1>9. FirstReset(t)
  BY <1>6, <1>7, <1>8 DEF KeptTells
<1>10. ResetSeen(t)
  <2>1. kept[t].trigger.at # 0
    BY <1>6, <1>7
  <2>. QED  BY <1>7, <1>8, <2>1 DEF KeptTells
<1>11. Len(owners[t]) = 2
  <2>1. Len(Evidence.raws[t].proof.attempts) = 2
    BY <1>2 DEF ResetTrialOk, OneFailureThenSuccess
  <2>. QED  BY <1>1, <2>1, RawsTell, AttemptsAre
<1>12. Served(t)
  BY AtTheEnd
<1>. QED  BY <1>9, <1>10, <1>11, <1>12 DEF Served

\* What N3's link dropped was of the trial, or a late request's.
LEMMA DropIsReal ==
    ASSUME Whole, trial \notin Trials, Verified(Evidence, Profile), Profile = "N3", NEW t \in Trials
    PROVE  kept[t].own \/ LateUpTo(t - 1)
<1>1. NetworkHarnessOk(Profile, Evidence.harnesses[t], Evidence.plan)
  BY Judged DEF VerifyNetwork, NetworkTrialOk, Profiles
<1>2. Evidence.harnesses[t].finalDrops = kept[t].final
  <2>1. Evidence.harnesses[t] = HarnessRecord(t)
    BY EvidenceIs DEF HarnessProfiles, Profiles
  <2>. QED  BY <2>1 DEF HarnessRecord
<1>3. kept[t].final > 0
  BY <1>1, <1>2 DEF NetworkHarnessOk
<1>4. kept[t].final = 0 \/ kept[t].own \/ LateUpTo(t - 1)
  BY AtTheEnd DEF Whole, Dropped
<1>. QED  BY <1>3, <1>4

\* The least of some numbers.
LEMMA LeastIs ==
    ASSUME NEW S \in SUBSET Nat, S # {}
    PROVE  Least(S) \in S /\ \A y \in S : Least(S) <= y
<1> DEFINE Less == OpToRel(<, Nat)
<1>1. \A x, y \in Nat : x < y => <<x, y>> \in Less
  BY DEF OpToRel
<1>2. IsWellFoundedOn(Less, Nat)
  BY NatLessThanWellFounded
<1> HIDE DEF Less
<1>3. PICK x \in S : \A y \in S : <<y, x>> \notin Less
  BY <1>2, WFMin
<1>4. \A y \in S : x <= y
  <2>1. \A y \in S : ~(y < x)
    BY <1>1, <1>3
  <2>. QED  BY <2>1
<1>. QED  BY <1>3, <1>4 DEF Least

\* What an event or an evaluation of the route says is of one token.
LEMMA TokensAre ==
    ASSUME instance \in Instances
    PROVE  /\ EventTokens \in Seq(RouteTokens) /\ DOMAIN RouteDocument.events = 1 .. Len(EventTokens) /\ Len(EventTokens) \in Nat
           /\ \A i \in 1 .. Len(EventTokens) :
                LET event == RouteDocument.events[i]
                IN  /\ event.at = Time(EventTokens[i]) /\ event.at \in Nat
                    /\ event.signal = "LOST" => event.at = Time("LOST")
                    /\ event.signal = "AVAILABLE" /\ event.epoch = 2 => event.at = Time("UP2")
                    /\ event.signal = "CAPABILITIES" /\ event.epoch = 2 => event.at = Time("CAPS2")
           /\ \A i \in DOMAIN RouteDocument.evaluations :
                LET evaluation == RouteDocument.evaluations[i]
                IN  evaluation.decision = "PAUSE" =>
                        evaluation.watermark = Cardinality({k \in DOMAIN EventTokens : Time(EventTokens[k]) < Time("PAUSE")})
<1>1. instance.order \in Seq(RouteTokens)
  BY InstancesAssumption DEF InstanceRecord
<1>2. DOMAIN RouteEvent = {"START", "UP1", "CAPS1", "LOST", "UP2", "CAPS2", "STOP"} /\ DOMAIN Evaluation = {"ALLOW1", "PAUSE", "ALLOW2"}
  BY DEF RouteEvent, Evaluation
<1>3. PICK E, V, T : E = DOMAIN RouteEvent /\ V = DOMAIN Evaluation /\ T = RouteTokens
  OBVIOUS
<1>4. EventTokens \in Seq(E \cap T) /\ EvaluationTokens \in Seq(V \cap T)
  BY <1>1, <1>3, AmongIs DEF EventTokens, EvaluationTokens
<1>5. /\ EventTokens \in Seq(RouteTokens) /\ Len(EventTokens) \in Nat /\ DOMAIN EventTokens = 1 .. Len(EventTokens)
      /\ \A i \in 1 .. Len(EventTokens) : EventTokens[i] \in DOMAIN RouteEvent /\ EventTokens[i] \in RouteTokens
      /\ \A i \in DOMAIN EvaluationTokens : EvaluationTokens[i] \in DOMAIN Evaluation
  BY <1>3, <1>4
<1>6. /\ DOMAIN RouteDocument.events = DOMAIN EventTokens
      /\ \A i \in DOMAIN EventTokens : /\ RouteDocument.events[i].signal = RouteEvent[EventTokens[i]][1]
                                       /\ RouteDocument.events[i].epoch = RouteEvent[EventTokens[i]][2]
                                       /\ RouteDocument.events[i].at = Time(EventTokens[i])
  BY DEF RouteDocument
<1>7. ASSUME NEW i \in 1 .. Len(EventTokens)
      PROVE  LET event == RouteDocument.events[i]
             IN  /\ event.at = Time(EventTokens[i]) /\ event.at \in Nat
                 /\ event.signal = "LOST" => event.at = Time("LOST")
                 /\ event.signal = "AVAILABLE" /\ event.epoch = 2 => event.at = Time("UP2")
                 /\ event.signal = "CAPABILITIES" /\ event.epoch = 2 => event.at = Time("CAPS2")
  <2>1. PICK token \in DOMAIN RouteEvent : token = EventTokens[i] /\ token \in RouteTokens
    BY <1>5
  <2>2. /\ RouteEvent[token][1] = "LOST" => token = "LOST"
        /\ RouteEvent[token][1] = "AVAILABLE" /\ RouteEvent[token][2] = 2 => token = "UP2"
        /\ RouteEvent[token][1] = "CAPABILITIES" /\ RouteEvent[token][2] = 2 => token = "CAPS2"
    BY <1>2 DEF RouteEvent
  <2>3. Time(token) \in Nat
    BY <2>1, Times
  <2>. QED  BY <1>5, <1>6, <2>1, <2>2, <2>3
<1>8. ASSUME NEW i \in DOMAIN RouteDocument.evaluations, RouteDocument.evaluations[i].decision = "PAUSE"
      PROVE  RouteDocument.evaluations[i].watermark = Cardinality({k \in DOMAIN EventTokens : Time(EventTokens[k]) < Time("PAUSE")})
  <2>1. /\ DOMAIN RouteDocument.evaluations = DOMAIN EvaluationTokens
        /\ \A j \in DOMAIN EvaluationTokens :
              /\ RouteDocument.evaluations[j].decision = Evaluation[EvaluationTokens[j]][1]
              /\ RouteDocument.evaluations[j].watermark =
                    Cardinality({k \in DOMAIN EventTokens : Time(EventTokens[k]) < Time(EvaluationTokens[j])})
    BY DEF RouteDocument
  <2>2. PICK token \in DOMAIN Evaluation : token = EvaluationTokens[i]
    BY <1>5, <2>1
  <2>3. Evaluation[token][1] = "PAUSE" => token = "PAUSE"
    BY <1>2 DEF Evaluation
  <2>. QED  BY <1>8, <2>1, <2>2, <2>3
<1>. QED  BY <1>5, <1>6, <1>7, <1>8

\* The owners of a trial of N6R, in time with the route.
LEMMA RouteIsReal ==
    ASSUME Whole, trial \notin Trials, Verified(Evidence, Profile), Profile = "N6R", instance.misreport \in Unchecked,
           NEW t \in Trials
    PROVE  /\ Time("OWN1") < Time("LOST") /\ Time("LOST") < Time("FAIL1")
           /\ Time("UP2") < Time("OWN2") /\ Time("CAPS2") < Time("OWN2")
           /\ Time("LOST") < Time("PAUSE") /\ Time("PAUSE") < Time("UP2")
<1>1. Typed /\ instance \in Instances
  BY DEF Whole, IInv, Types
<1>2. RouteTrialOk(Evidence, t)
  BY Judged DEF VerifyRoute, Profiles
<1>3. PICK proof : proof = Evidence.raws[t].proof
  OBVIOUS
<1>4. RouteEvidenceOk(proof) /\ OneFailureThenSuccess(Evidence.raws[t])
  BY <1>2, <1>3 DEF RouteTrialOk
<1>5. /\ proof.attempts = Proof(t).attempts /\ proof.route = RouteDocument
      /\ proof.routeBefore = 1 /\ proof.routeAfter = 2
  BY <1>3, RawsTell DEF Proof
<1>6. Len(owners[t]) = 2
  BY <1>1, <1>3, <1>4, <1>5, AttemptsAre DEF OneFailureThenSuccess
<1>7. /\ proof.attempts[1].start = Time("OWN1") /\ proof.attempts[1].end = Time("FAIL1")
      /\ proof.attempts[2].start = Time("OWN2")
  <2>1. proof.attempts[1] = Attempt(t, 1) /\ proof.attempts[2] = Attempt(t, 2)
    BY <1>1, <1>5, <1>6, AttemptsAre
  <2>2. \A i : Attempt(t, i).start = StartOf(i) /\ Attempt(t, i).end = EndOf(i)
    BY DEF Attempt
  <2>3. StartOf(1) = Time("OWN1") /\ StartOf(2) = Time("OWN2") /\ EndOf(1) = Time("FAIL1")
    BY DEF StartOf, EndOf
  <2>. QED  BY <2>1, <2>2, <2>3
<1> DEFINE events == RouteDocument.events
           evaluations == RouteDocument.evaluations
           lost == Signalled(events, "LOST", 1)
           replaced == Signalled(events, "AVAILABLE", 2)
           validated == Signalled(events, "CAPABILITIES", 2)
           W == {k \in DOMAIN EventTokens : Time(EventTokens[k]) < Time("PAUSE")}
<1>8. /\ Sorted([i \in DOMAIN events |-> events[i].at])
      /\ lost # {} /\ replaced # {} /\ validated # {}
      /\ OwnersAroundReplacement(proof.attempts[1], proof.attempts[2], events[Least(lost)].at, events[Least(replaced)].at)
      /\ Sorted(<<events[Least(replaced)].at, events[Least(validated)].at, proof.attempts[2].start>>)
  BY <1>4, <1>5 DEF RouteEvidenceOk
<1>9. \E p \in DOMAIN evaluations : /\ evaluations[p].decision = "PAUSE"
                                    /\ Least(lost) <= evaluations[p].watermark /\ evaluations[p].watermark < Least(replaced)
  BY <1>4, <1>5 DEF RouteEvidenceOk
<1>10. PICK n \in Nat : n = Len(EventTokens) /\ DOMAIN events = 1 .. n /\ DOMAIN EventTokens = 1 .. n
  BY <1>1, TokensAre
<1>11. \A i \in 1 .. n :
          /\ events[i].at = Time(EventTokens[i]) /\ events[i].at \in Nat
          /\ events[i].signal = "LOST" => events[i].at = Time("LOST")
          /\ events[i].signal = "AVAILABLE" /\ events[i].epoch = 2 => events[i].at = Time("UP2")
          /\ events[i].signal = "CAPABILITIES" /\ events[i].epoch = 2 => events[i].at = Time("CAPS2")
  BY <1>1, <1>10, TokensAre
<1>12. Least(lost) <= Cardinality(W) /\ Cardinality(W) < Least(replaced)
  BY <1>1, <1>9, TokensAre
<1> HIDE DEF events, evaluations
<1>13. lost \in SUBSET Nat /\ replaced \in SUBSET Nat /\ validated \in SUBSET Nat
  BY <1>10 DEF Signalled
<1>14. /\ Least(lost) \in lost /\ Least(replaced) \in replaced /\ Least(validated) \in validated
  BY <1>8, <1>13, LeastIs
<1>15. PICK l, r, v \in 1 .. n : l = Least(lost) /\ r = Least(replaced) /\ v = Least(validated)
  BY <1>10, <1>14 DEF Signalled
<1>16. events[l].at = Time("LOST") /\ events[r].at = Time("UP2") /\ events[v].at = Time("CAPS2")
  BY <1>11, <1>14, <1>15 DEF Signalled
<1>17. \A i, j \in 1 .. n : i < j => events[i].at <= events[j].at
  BY <1>8, <1>10 DEF Sorted
<1>18. \A a, b, c : Sorted(<<a, b, c>>) => a <= b /\ b <= c
  <2>. SUFFICES ASSUME NEW a, NEW b, NEW c, Sorted(<<a, b, c>>) PROVE a <= b /\ b <= c
    OBVIOUS
  <2>1. DOMAIN <<a, b, c>> = 1 .. 3 /\ <<a, b, c>>[1] = a /\ <<a, b, c>>[2] = b /\ <<a, b, c>>[3] = c
    OBVIOUS
  <2>2. 1 \in 1 .. 3 /\ 2 \in 1 .. 3 /\ 3 \in 1 .. 3 /\ 1 < 2 /\ 2 < 3
    OBVIOUS
  <2>. QED  BY <2>1, <2>2 DEF Sorted
<1>19. /\ Time("OWN1") <= Time("LOST") /\ Time("LOST") <= Time("FAIL1")
       /\ Time("UP2") <= Time("OWN2")
  BY <1>7, <1>8, <1>15, <1>16, <1>18 DEF OwnersAroundReplacement
<1>20. Time("CAPS2") <= Time("OWN2")
  BY <1>7, <1>8, <1>15, <1>16, <1>18
<1>21. /\ \A token \in RouteTokens : Time(token) \in Nat
       /\ \A a, b \in RouteTokens : Time(a) = Time(b) => a = b
  BY <1>1, Times
<1>22. {"OWN1", "LOST", "FAIL1", "UP2", "OWN2", "CAPS2", "PAUSE"} \subseteq RouteTokens
  BY DEF RouteTokens
<1>23. W \in SUBSET (1 .. n)
  BY <1>10
<1>24. ASSUME ~(Time("LOST") < Time("PAUSE")) PROVE FALSE
  <2>1. W \subseteq 1 .. l - 1
    <3>1. ASSUME NEW k \in W, k >= l PROVE FALSE
      <4>1. k \in 1 .. n /\ events[k].at < Time("PAUSE")
        BY <1>10, <1>11, <3>1
      <4>2. events[l].at <= events[k].at
        BY <1>11, <1>15, <1>17, <3>1, <4>1
      <4>3. events[k].at \in Nat /\ Time("LOST") \in Nat /\ Time("PAUSE") \in Nat
        BY <1>11, <1>21, <1>22, <4>1
      <4>. QED  BY <1>16, <1>24, <4>1, <4>2, <4>3
    <3>. QED  BY <1>23, <3>1
  <2>2. l - 1 \in Nat /\ 1 \in Int /\ l - 1 \in Int
    BY <1>15
  <2>3. IsFiniteSet(1 .. l - 1) /\ Cardinality(1 .. l - 1) = l - 1
    BY <2>2, FS_Interval
  <2>4. Cardinality(W) <= l - 1 /\ Cardinality(W) \in Nat
    <3> HIDE DEF W
    <3>1. IsFiniteSet(W) /\ Cardinality(W) <= Cardinality(1 .. l - 1)
      BY <2>1, <2>3, FS_Subset
    <3>. QED  BY <2>3, <3>1, FS_CardinalityType
  <2> HIDE DEF W
  <2>. QED  BY <1>12, <1>15, <2>2, <2>4
<1>25. ASSUME ~(Time("PAUSE") < Time("UP2")) PROVE FALSE
  <2>1. Time("UP2") < Time("PAUSE")
    <3>1. Time("UP2") # Time("PAUSE")
      BY <1>21, <1>22
    <3>. QED  BY <1>21, <1>22, <1>25, <3>1
  <2>2. 1 .. r \subseteq W
    <3>1. ASSUME NEW k \in 1 .. r PROVE k \in W
      <4>1. k \in 1 .. n
        BY <1>15
      <4>2. events[k].at <= events[r].at
        BY <1>11, <1>15, <1>17, <4>1
      <4>3. events[k].at \in Nat /\ Time("UP2") \in Nat /\ Time("PAUSE") \in Nat
        BY <1>11, <1>21, <1>22, <4>1
      <4>4. events[k].at < Time("PAUSE")
        BY <1>16, <2>1, <4>2, <4>3
      <4>. QED  BY <1>10, <1>11, <4>1, <4>4
    <3>. QED  BY <3>1
  <2>3. 1 \in Int /\ r \in Int /\ n \in Int /\ r \in Nat /\ r >= 1
    BY <1>15
  <2>4. IsFiniteSet(1 .. r) /\ Cardinality(1 .. r) = r /\ IsFiniteSet(1 .. n)
    BY <2>3, FS_Interval
  <2>5. r <= Cardinality(W) /\ Cardinality(W) \in Nat
    <3> HIDE DEF W
    <3>1. IsFiniteSet(W)
      BY <1>23, <2>4, FS_Subset
    <3>2. Cardinality(1 .. r) <= Cardinality(W)
      BY <2>2, <3>1, FS_Subset
    <3>. QED  BY <2>4, <3>1, <3>2, FS_CardinalityType
  <2> HIDE DEF W
  <2>. QED  BY <1>12, <1>15, <2>3, <2>5
<1>26. /\ Time("OWN1") # Time("LOST") /\ Time("LOST") # Time("FAIL1") /\ Time("UP2") # Time("OWN2") /\ Time("CAPS2") # Time("OWN2")
  BY <1>21, <1>22
<1>. QED  BY <1>19, <1>20, <1>21, <1>22, <1>24, <1>25, <1>26

\* The requests of two owners.
LEMMA TwoAsked ==
    ASSUME NEW s \in Seq(OwnerRecord), Len(s) = 2
    PROVE  Asked(s) = s[1].requests + s[2].requests /\ s[1].requests \in Nat /\ s[2].requests \in Nat
<1>1. PICK a, b \in OwnerRecord : a = s[1] /\ b = s[2]
  <2>1. 1 \in 1 .. Len(s) /\ 2 \in 1 .. Len(s)
    OBVIOUS
  <2>2. \A i \in 1 .. Len(s) : s[i] \in OwnerRecord
    OBVIOUS
  <2>3. s[1] \in OwnerRecord /\ s[2] \in OwnerRecord
    BY <2>1, <2>2
  <2>. QED  BY <2>3
<1>2. s = Append(Append(<< >>, a), b)
  BY <1>1
<1>3. << >> \in Seq(OwnerRecord) /\ Append(<< >>, a) \in Seq(OwnerRecord)
  OBVIOUS
<1>4. Asked(Append(<< >>, a)) = 0 + a.requests /\ Asked(s) = Asked(Append(<< >>, a)) + b.requests
  BY <1>2, <1>3, AskedIs
<1>5. a.requests \in Nat /\ b.requests \in Nat
  BY DEF OwnerRecord
<1>. QED  BY <1>1, <1>4, <1>5

\* The trace of a trial of N6R has one row.
LEMMA OneRow ==
    ASSUME Whole, trial \notin Trials, Verified(Evidence, Profile), Profile = "N6R", NEW t \in Trials
    PROVE  after[t] - before[t] = 1
<1>1. RouteTrialOk(Evidence, t)
  BY Judged DEF VerifyRoute, Profiles
<1>2. PICK rows : rows = Partition(Evidence, t)
  OBVIOUS
<1>3. RequestIds(rows) = <<SuccessfulRequest(Evidence.raws[t])>>
  BY <1>1, <1>2 DEF RouteTrialOk, OldRouteSilent
<1>4. DOMAIN RequestIds(rows) = 1 .. 1
  BY <1>3
<1>5. DOMAIN rows = 1 .. 1
  BY <1>4 DEF RequestIds
<1>6. before[t] \in Nat /\ after[t] \in Nat /\ before[t] < after[t]
  BY PartitionsAre
<1>7. DOMAIN rows = 1 .. (after[t] - before[t])
  <2>1. PICK s, b, a : s = Evidence.trace /\ b = before[t] + 1 /\ a = after[t]
    OBVIOUS
  <2>2. b \in Int /\ a \in Int
    BY <1>6, <2>1
  <2>3. DOMAIN SubSeq(s, b, a) = 1 .. (a - b + 1)
    BY <2>2
  <2>4. a - b + 1 = after[t] - before[t]
    BY <1>6, <2>1
  <2>5. rows = SubSeq(s, b, a)
    BY <1>2, <2>1, EvidenceIs DEF Partition
  <2>. QED  BY <2>3, <2>4, <2>5
<1>8. PICK n \in Nat : n = after[t] - before[t]
  BY <1>6
<1>9. 1 .. n = 1 .. 1 => n = 1
  OBVIOUS
<1>. QED  BY <1>5, <1>7, <1>8, <1>9

\* The owner of the old route of a trial of N6R sent nothing, but for late requests.
LEMMA OldOwnerSilent ==
    ASSUME Whole, trial \notin Trials, Verified(Evidence, Profile), Profile = "N6R", instance.misreport \in Unchecked,
           NEW t \in Trials
    PROVE  owners[t][1].requests = 0 \/ LateUpTo(t)
<1> SUFFICES ASSUME ~LateUpTo(t) PROVE owners[t][1].requests = 0
  OBVIOUS
<1>1. Typed
  BY DEF Whole
<1>2. RouteTrialOk(Evidence, t)
  BY Judged DEF VerifyRoute, Profiles
<1>3. after[t] - before[t] = 1
  BY OneRow
<1>4. Asked(owners[t]) = 1
  BY <1>3, OriginCounted
<1>5. Len(owners[t]) = 2
  <2>1. Len(Evidence.raws[t].proof.attempts) = 2
    BY <1>2 DEF RouteTrialOk, OneFailureThenSuccess
  <2>. QED  BY <1>1, <2>1, RawsTell, AttemptsAre
<1>6. owners[t][2].requests > 0
  BY <1>5, AtTheEnd DEF Served
<1>7. owners[t] \in Seq(OwnerRecord)
  BY <1>1 DEF Typed
<1>8. Asked(owners[t]) = owners[t][1].requests + owners[t][2].requests
      /\ owners[t][1].requests \in Nat /\ owners[t][2].requests \in Nat
  BY <1>5, <1>7, TwoAsked
<1>. QED  BY <1>4, <1>6, <1>8

\* The verifiers see to it.
LEMMA FaultVerified ==
    ASSUME Whole, trial \notin Trials, Verified(Evidence, Profile), NEW t \in Trials
    PROVE  FaultReal(t)
<1>1. instance.misreport \in Unchecked
  BY CaughtAtVerify DEF Whole, IInv
<1>2. CASE Profile = "N6"
  <2>1. ResetSeen(t) /\ FirstReset(t) /\ Len(owners[t]) = 2 /\ ~owners[t][2].armed
    BY <1>1, <1>2, ResetIsReal
  <2>2. owners[t][1].armed /\ ~owners[t][Len(owners[t])].armed
    BY <2>1 DEF FirstReset
  <2>3. LateUpTo(t - 1) \/ owners[t][1].requests > 0
    BY <2>1 DEF ResetSeen
  <2>. QED  BY <1>2, <2>1, <2>2, <2>3 DEF FaultReal
<1>3. CASE Profile = "N3"
  <2>1. kept[t].own \/ LateUpTo(t - 1)
    BY <1>3, DropIsReal
  <2>. QED  BY <1>3, <2>1 DEF FaultReal
<1>4. CASE Profile = "N6R"
  BY <1>1, <1>4, RouteIsReal, OldOwnerSilent DEF FaultReal
<1>5. CASE Profile \notin {"N3", "N6", "N6R"}
  BY <1>5 DEF FaultReal
<1>. QED  BY <1>2, <1>3, <1>4, <1>5

\* The fault of an accepted job stays where it was verified.
LEMMA FaultStep ==
    ASSUME Whole, Accepted => \A t \in Trials : FaultReal(t), [Next]_vars, Accepted', NEW t \in Trials
    PROVE  FaultReal(t)'
<1>1. Types /\ Typed /\ Turn /\ Idle
  BY DEF Whole, IInv
<1>2. UNCHANGED <<instance, owners, before, after, kept>>
  BY <1>1, AcceptedBefore
<1>3. Profile' = Profile /\ \A token : Time(token)' = Time(token)
  BY <1>2 DEF Profile, Time
<1>4. \/ Accepted /\ late' = late
      \/ Verify /\ Verified(Evidence, Profile) /\ trial \notin Trials
  BY <1>1, AcceptedBefore
<1>5. FaultReal(t)
  BY <1>4, FaultVerified
<1>6. late' = late \/ Profile = "N0"
  BY <1>4 DEF Verify
<1>7. CASE Profile = "N0"
  BY <1>3, <1>7 DEF FaultReal
<1>8. CASE Profile # "N0"
  <2>1. late' = late
    BY <1>6, <1>8
  <2>2. LateUpTo(t)' = LateUpTo(t) /\ LateUpTo(t - 1)' = LateUpTo(t - 1)
    BY <2>1 DEF LateUpTo
  <2>. QED  BY <1>2, <1>3, <1>5, <2>2 DEF FaultReal
<1>. QED  BY <1>7, <1>8

\* An experiment that is accepted put its fault where it says (the evidence
\* verify_network(), verify() of the reset and of the route replacement ask for).
THEOREM FaultsAreReal == Spec => []AcceptedFaultIsReal
<1> DEFINE Real == Accepted => \A t \in Trials : FaultReal(t)
           Inv == Whole /\ Real
<1>1. Init => Inv
  BY WholeAtFirst DEF Init, Accepted
<1>2. Inv /\ [Next]_vars => Inv'
  BY WholeStep, FaultStep DEF Trials
<1>3. Inv => AcceptedFaultIsReal
  BY DEF AcceptedFaultIsReal
<1>. QED  BY <1>1, <1>2, <1>3, PTL DEF Spec

-------------------------------------------------------------------------------
(* What the finalized rows tell *)

\* The requests and the replays a finalized row tells of.
Counts(t) == after[t] - before[t]
Told(t) == IF Profile \in {"N0", "N6R"} THEN 1 ELSE Counts(t)
Derived(t) ==
    CASE Profile = "N6" -> [visibility |-> "OBSERVABLE", retries |-> Counts(t) - 2]
      [] Profile \in {"N0", "N6R"} -> [visibility |-> "OBSERVABLE", retries |-> 0]
      [] OTHER -> DerivedRetries(Len(owners[t]), Len(Correlated(t)), Counts(t))
Bounds ==
    Profile # "N0" =>
        \A t \in Trials : /\ before[t] \in Nat /\ after[t] \in Nat
                          /\ before[t] < after[t] /\ after[t] <= Len(trace)

\* A trial's rows of the trace are as many as its counts say.
LEMMA PartitionIs ==
    ASSUME Typed, NEW t \in Trials, NEW b \in Nat, NEW a \in Nat, b = before[t], a = after[t], b < a, a <= Len(trace)
    PROVE  Len(Partition(Evidence, t)) = a - b
<1>1. Len(trace) \in Nat /\ Evidence.before = before /\ Evidence.after = after
  BY EvidenceIs DEF Typed
<1>2. PICK s : s = Evidence.trace
  OBVIOUS
<1>3. PICK S : s \in Seq(S) /\ Len(s) = Len(trace)
  <2>1. s = [i \in DOMAIN trace |-> TraceRow(trace[i])] /\ DOMAIN trace = 1 .. Len(trace)
    BY <1>2, EvidenceIs DEF Typed
  <2>2. PICK n \in Nat : n = Len(trace)
    BY <1>1
  <2>3. s \in Seq({TraceRow(trace[i]) : i \in 1 .. n}) /\ Len(s) = n
    BY <2>1, <2>2
  <2>. QED  BY <2>2, <2>3
<1>4. Len(SubSeq(s, b + 1, a)) = a - (b + 1) + 1
  BY <1>1, <1>3
<1>. QED  BY <1>1, <1>2, <1>4 DEF Partition

\* What a finalized row says of the requests is what it was given.
LEMMA FinalizedTells ==
    ASSUME NEW t \in Trials, NEW requests, NEW derived
    PROVE  LET row == Finalized(Evidence.raws[t].row, requests, derived)
           IN  /\ row.recovery.originRequests = requests
               /\ row.recovery.retries = derived.retries
               /\ row.recovery.visibility = derived.visibility
               /\ row.eligibility = Evidence.raws[t].row.eligibility
<1>1. PICK row : row = Evidence.raws[t].row
  OBVIOUS
<1>2. /\ {"recovery", "performanceSampleEligible", "eligibility"} \subseteq DOMAIN row
      /\ {"originRequests", "visibility", "retries"} \subseteq DOMAIN row.recovery
  BY <1>1, RowShape
<1>. QED  BY <1>1, <1>2 DEF Finalized

\* Each finalized row tells of what is counted around its trial.
LEMMA RowsAre ==
    ASSUME Types, Typed, Bounds, instance.misreport \in Unchecked, NEW t \in Trials
    PROVE  LET row == FinalizedRows(Evidence, Profile)[t]
           IN  /\ row.recovery.originRequests = Told(t)
               /\ row.recovery.retries = Derived(t).retries
               /\ row.recovery.visibility = Derived(t).visibility
               /\ row.eligibility = Evidence.raws[t].row.eligibility
<1>1. Profile \in Profiles
  BY Places
<1>2. Profile # "N0" => Len(Partition(Evidence, t)) = Counts(t)
  BY PartitionIs DEF Bounds, Counts
<1>3. FinalizedRows(Evidence, Profile)[t] = Finalized(Evidence.raws[t].row, Told(t), Derived(t))
  <2>1. CASE Profile = "N6"
    BY <1>2, <2>1 DEF FinalizedRows, ResetRows, Told, Derived
  <2>2. CASE Profile \in {"N0", "N6R"}
    BY <2>2 DEF FinalizedRows, OneRequestRows, Told, Derived
  <2>3. CASE Profile \notin {"N0", "N6", "N6R"}
    <3>1. Len(Evidence.raws[t].proof.attempts) = Len(owners[t]) /\ Evidence.raws[t].proof.correlated = Correlated(t)
      BY RawsTell, AttemptsAre
    <3>2. FinalizedRows(Evidence, Profile) = NetworkRows(Evidence)
      BY <2>3 DEF FinalizedRows
    <3>3. Told(t) = Counts(t) /\ Derived(t) = DerivedRetries(Len(owners[t]), Len(Correlated(t)), Counts(t))
      BY <2>3 DEF Told, Derived
    <3>. QED  BY <1>2, <2>3, <3>1, <3>2, <3>3 DEF NetworkRows
  <2>. QED  BY <2>1, <2>2, <2>3
<1>. QED  BY <1>3, FinalizedTells

\* A row of the trace that is not the first is of a trial, and so is one to come.
LEMMA RowsOfTrials ==
    ASSUME Whole
    PROVE  /\ \A row \in pending : row.trial \in Trials
           /\ \A i \in DOMAIN trace : i # 1 => trace[i].trial \in Trials
           /\ Len(trace) \in Nat /\ Len(trace) >= 1 /\ DOMAIN trace = 1 .. Len(trace) /\ trace[1].trial = 0
           /\ IsFiniteSet(pending) /\ Cardinality(pending) \in Nat
           /\ Len(trace) + Cardinality(pending) = 1 + Made(4)
<1>1. Counted /\ Typed
  BY DEF Whole
<1>2. /\ \A row \in pending : row.trial \in Trials
      /\ \A i \in DOMAIN trace : i # 1 => trace[i].trial \in Trials
  BY <1>1 DEF Counted, IsRequest
<1>3. IsFiniteSet(pending) /\ Cardinality(pending) \in Nat
  BY <1>1, FS_CardinalityType DEF Typed
<1>4. Len(trace) \in Nat /\ Len(trace) >= 1 /\ DOMAIN trace = 1 .. Len(trace)
  <2>1. trace \in Seq(RowRecord) /\ trace # << >>
    BY <1>1 DEF Typed, Counted
  <2>. QED  BY <2>1
<1>. QED  BY <1>1, <1>2, <1>3, <1>4 DEF Counted

\* When the owners of the four trials ask as much, so much is asked four times.
LEMMA AskedAlike ==
    ASSUME Typed, NEW r, \A t \in Trials : Asked(owners[t]) = r
    PROVE  r \in Nat /\ Made(4) = 4 * r
<1>1. r \in Nat
  BY MadeIs DEF Trials
<1>2. /\ Made(1) = Made(0) + Asked(owners[1]) /\ Made(2) = Made(1) + Asked(owners[2])
      /\ Made(3) = Made(2) + Asked(owners[3]) /\ Made(4) = Made(3) + Asked(owners[4]) /\ Made(0) = 0
  BY MadeIs
<1>3. Asked(owners[1]) = r /\ Asked(owners[2]) = r /\ Asked(owners[3]) = r /\ Asked(owners[4]) = r
  BY DEF Trials
<1>. QED  BY <1>1, <1>2, <1>3

\* The correlated requests of a trial are of owners that reached the origin.
LEMMA CorrelatedReach ==
    ASSUME Typed, OwnersTell, NEW t \in Trials
    PROVE  /\ Len(Correlated(t)) <= Reaching(t) /\ Len(Correlated(t)) \in Nat /\ Reaching(t) \in Nat
           /\ Reaching(t) <= Asked(owners[t]) /\ Reaching(t) <= Len(owners[t])
           /\ Asked(owners[t]) \in Nat /\ Len(owners[t]) \in Nat
           /\ Asked(owners[t]) = TrueRequests(t)
<1>1. owners[t] \in Seq(OwnerRecord) /\ Len(owners[t]) \in Nat
  BY DEF Typed
<1> DEFINE s == owners[t]
           c == [i \in DOMAIN s |-> s[i].correlation]
           C == {i \in DOMAIN c : c[i] # Null}
           R == {i \in DOMAIN s : s[i].requests > 0}
<1>2. Reaching(t) = Cardinality(R) /\ Asked(s) = TrueRequests(t) /\ Correlated(t) = Present(c)
  BY DEF Reaching, Asked, TrueRequests, Correlated
<1>3. IsFiniteSet(R) /\ Cardinality(R) \in Nat /\ Cardinality(R) <= Asked(s) /\ Cardinality(R) <= Len(s)
  BY <1>1, ReachingAtMost
<1>4. c \in Seq(Nat \cup {Null})
  <2>1. \A i \in 1 .. Len(s) : s[i] \in OwnerRecord
    BY <1>1
  <2>2. \A i \in 1 .. Len(s) : s[i].correlation \in Nat \cup {Null}
    BY <2>1 DEF OwnerRecord
  <2>3. DOMAIN s = 1 .. Len(s)
    BY <1>1
  <2>. QED  BY <1>1, <2>2, <2>3
<1>5. Len(Present(c)) = Cardinality(C)
  BY <1>4, PresentIs
<1>6. C \subseteq R
  <2>1. ASSUME NEW i \in DOMAIN s, s[i].correlation # Null PROVE s[i].requests > 0
    <3>1. s[i].requests \in Nat
      <4>1. s[i] \in OwnerRecord
        BY <1>1
      <4>. QED  BY <4>1 DEF OwnerRecord
    <3>2. \E n \in 1 .. s[i].requests : TRUE
      BY <2>1 DEF OwnersTell
    <3>. QED  BY <3>1, <3>2
  <2>. QED  BY <2>1
<1>7. Asked(s) \in Nat
  BY <1>1, AskedIs
<1> HIDE DEF C, R, c
<1>8. IsFiniteSet(C) /\ Cardinality(C) <= Cardinality(R)
  BY <1>3, <1>6, FS_Subset
<1>9. Cardinality(C) \in Nat
  BY <1>8, FS_CardinalityType
<1>. QED  BY <1>1, <1>2, <1>3, <1>5, <1>7, <1>8, <1>9

-------------------------------------------------------------------------------
(* The control experiment *)

\* A sequence of one owner.
LEMMA OneOwner ==
    ASSUME NEW s \in Seq(OwnerRecord), Len(s) = 1
    PROVE  DOMAIN s = {1} /\ s[1] \in OwnerRecord /\ s = Append(<< >>, s[1])
<1>1. DOMAIN s = 1 .. 1
  OBVIOUS
<1>2. \A i \in 1 .. 1 : s[i] \in OwnerRecord
  BY <1>1
<1>3. DOMAIN s = {1} /\ s[1] \in OwnerRecord
  BY <1>1, <1>2
<1>4. s = Append(<< >>, s[1])
  OBVIOUS
<1>. QED  BY <1>3, <1>4

\* Each trial of an accepted N0 had one owner, whose request is the one correlated.
LEMMA ControlTrials ==
    ASSUME Whole, trial \notin Trials, Verified(Evidence, Profile), Profile = "N0", instance.misreport \in Unchecked,
           NEW t \in Trials
    PROVE  /\ Len(owners[t]) = 1
           /\ \E n \in 1 .. 9 : Evidence.raws[t].proof.correlated[1] = t * 100 + 10 + n
<1>1. Typed /\ OwnersTell
  BY DEF Whole
<1>2. CheckRawN0(Evidence.raws[t], Evidence.scenario, Evidence.plan, Schedule(Evidence)[t], Evidence.inputs)
  BY RawsJudged, Places DEF Whole, IInv
<1>3. Evidence.raws[t].row.recovery.owners = 1 /\ Len(Evidence.raws[t].proof.correlated) = 1
  BY <1>2 DEF CheckRawN0
<1>4. Len(owners[t]) = 1
  BY <1>1, <1>3, RawsTell, AttemptsAre
<1>5. owners[t] \in Seq(OwnerRecord) /\ DOMAIN owners[t] = {1} /\ owners[t][1] \in OwnerRecord
  BY <1>1, <1>4, OneOwner DEF Typed
<1> DEFINE c == [i \in DOMAIN owners[t] |-> owners[t][i].correlation]
<1>6. c \in Seq(Nat \cup {Null}) /\ DOMAIN c = {1} /\ c[1] = owners[t][1].correlation
  <2>1. owners[t][1].correlation \in Nat \cup {Null}
    BY <1>5 DEF OwnerRecord
  <2>2. c = <<owners[t][1].correlation>>
    BY <1>5
  <2>. QED  BY <2>1, <2>2
<1>7. Evidence.raws[t].proof.correlated = Present(c)
  BY RawsTell DEF Correlated
<1> HIDE DEF c
<1>8. Present(c) \in Seq(Nat) /\ Len(Present(c)) = 1
  BY <1>3, <1>6, <1>7, PresentIs
<1>9. 1 \in DOMAIN Present(c)
  BY <1>8
<1>10. Present(c)[1] = owners[t][1].correlation /\ owners[t][1].correlation # Null
  <2>1. PICK i \in DOMAIN c : c[i] # Null /\ Present(c)[1] = c[i]
    BY <1>6, <1>9, PresentIs
  <2>. QED  BY <1>6, <2>1
<1>11. PICK n \in 1 .. owners[t][1].requests : owners[t][1].correlation = t * 100 + 1 * 10 + n
  BY <1>1, <1>5, <1>10 DEF OwnersTell
<1>12. n \in 1 .. 9 /\ owners[t][1].correlation = t * 100 + 10 + n
  <2>1. owners[t][1].requests \in 0 .. 9
    BY <1>5 DEF OwnerRecord
  <2>2. t \in Nat
    BY DEF Trials
  <2>. QED  BY <1>11, <2>1, <2>2
<1>. QED  BY <1>4, <1>7, <1>10, <1>12

\* The trace of an accepted N0 has a row before and four of the trials, whose
\* ids are those that are correlated.
LEMMA ControlTrace ==
    ASSUME Whole, trial \notin Trials, Verified(Evidence, Profile), Profile = "N0"
    PROVE  /\ Len(trace) = 5
           /\ \A i \in DOMAIN trace : i # 1 => \E u \in Trials : Id(trace[i]) = Evidence.raws[u].proof.correlated[1]
<1>1. RequestsBijective(Evidence)
  BY Judged DEF VerifyN0, Profiles
<1>2. PICK s : s = Evidence.trace
  OBVIOUS
<1>3. PICK n \in Nat : n = Len(trace) /\ n >= 1 /\ DOMAIN trace = 1 .. n /\ trace[1].trial = 0
                       /\ \A i \in DOMAIN trace : i # 1 => trace[i].trial \in Trials
  BY RowsOfTrials
<1>4. s = [i \in 1 .. n |-> TraceRow(trace[i])]
  BY <1>2, <1>3, EvidenceIs
<1>5. PICK T : T = {s[i] : i \in 1 .. n}
  OBVIOUS
<1>6. s \in Seq(T) /\ DOMAIN s = 1 .. n /\ Len(s) = n
  BY <1>4, <1>5
<1>7. PICK S : S = {row \in Elements(s) : row.plane = "data"}
  OBVIOUS
<1>8. \A i \in 1 .. n : s[i] \in S <=> i # 1
  <2>1. ASSUME NEW i \in 1 .. n PROVE s[i].plane = (IF trace[i].trial = 0 THEN "control" ELSE "data")
    BY <1>4 DEF TraceRow
  <2>2. ASSUME NEW i \in 1 .. n PROVE trace[i].trial = 0 <=> i = 1
    BY <1>3 DEF Trials
  <2>. QED  BY <1>6, <1>7, <2>1, <2>2 DEF Elements
<1>9. PICK data : data = Among(s, S)
  OBVIOUS
<1>10. /\ \A i \in DOMAIN s : s[i] \in S => \E j \in DOMAIN data : data[j] = s[i]
       /\ Len(data) = Cardinality({i \in DOMAIN s : s[i] \in S})
  <2>a. s \in Seq(T)
    BY <1>6
  <2>0. /\ Among(s, S) \in Seq(S \cap T)
        /\ \A i \in DOMAIN s : s[i] \in S => \E j \in DOMAIN Among(s, S) : Among(s, S)[j] = s[i]
        /\ \A j \in DOMAIN Among(s, S) : \E i \in DOMAIN s : s[i] \in S /\ Among(s, S)[j] = s[i]
        /\ Len(Among(s, S)) = Cardinality({i \in DOMAIN s : s[i] \in S})
    BY ONLY <2>a, AmongIs, ZenonT(40)
  <2>1. \A i \in DOMAIN s : s[i] \in S => \E j \in DOMAIN data : data[j] = s[i]
    BY ONLY <1>9, <2>0
  <2>2. Len(data) = Cardinality({i \in DOMAIN s : s[i] \in S})
    BY ONLY <1>6, <1>9, AmongIs
  <2>. QED  BY <2>1, <2>2
<1>11. data = MeasuredRequests(Evidence)
  BY <1>2, <1>7, <1>9 DEF MeasuredRequests
<1>12. /\ Len(data) = 4
       /\ Elements(RequestIds(data)) = Elements([t \in Trials |-> Evidence.raws[t].proof.correlated[1]])
  BY <1>1, <1>11 DEF RequestsBijective
<1>13. {i \in DOMAIN s : s[i] \in S} = 2 .. n
  BY <1>3, <1>6, <1>8
<1>14. Cardinality(2 .. n) = n - 1
  <2>1. 2 \in Int /\ n \in Int
    BY <1>3
  <2>. QED  BY <1>3, <2>1, FS_Interval
<1>15. n = 5
  <2>1. Len(data) = Cardinality(2 .. n)
    BY <1>10, <1>13
  <2>. QED  BY <1>3, <1>12, <1>14, <2>1
<1>16. ASSUME NEW i \in DOMAIN trace, i # 1
       PROVE  \E u \in Trials : Id(trace[i]) = Evidence.raws[u].proof.correlated[1]
  <2>1. PICK j \in DOMAIN data : data[j] = s[i]
    BY <1>3, <1>6, <1>8, <1>10, <1>16
  <2>2. data[j].id \in Elements(RequestIds(data))
    BY DEF Elements, RequestIds
  <2>3. s[i].id = Id(trace[i])
    BY <1>3, <1>4 DEF TraceRow
  <2>. QED  BY <1>12, <2>1, <2>2, <2>3 DEF Elements
<1>. QED  BY <1>3, <1>15, <1>16

\* A trial of an accepted N0 asked once, but for what has not ended.
LEMMA ControlAsks ==
    ASSUME Whole, trial \notin Trials, Verified(Evidence, Profile), Profile = "N0", instance.misreport \in Unchecked,
           NEW t \in Trials, \A row \in pending : ~(row.trial <= t)
    PROVE  Asked(owners[t]) = 1
<1>1. Typed /\ NothingLost
  BY DEF Whole
<1>2. Len(owners[t]) = 1
  BY ControlTrials
<1>3. owners[t] \in Seq(OwnerRecord) /\ DOMAIN owners[t] = {1} /\ owners[t][1] \in OwnerRecord
  BY <1>1, <1>2, OneOwner DEF Typed
<1>4. PICK o \in OwnerRecord : o = owners[t][1]
  BY <1>3
<1>5. owners[t] = Append(<< >>, o)
  BY <1>2, <1>3, <1>4, OneOwner
<1>6. Asked(owners[t]) = o.requests /\ o.requests \in 0 .. 9
  <2>1. << >> \in Seq(OwnerRecord)
    OBVIOUS
  <2>2. o.requests \in 0 .. 9
    BY DEF OwnerRecord
  <2>3. Asked(owners[t]) = 0 + o.requests
    BY <1>5, <2>1, AskedIs
  <2>. QED  BY <2>2, <2>3
<1>7. o.requests > 0
  <2>1. Served(t)
    BY AtTheEnd
  <2>. QED  BY <1>2, <1>4, <2>1 DEF Served
<1>8. PICK known \in 1 .. 9 : Evidence.raws[t].proof.correlated[1] = t * 100 + 10 + known
  BY ControlTrials
<1>9. ASSUME NEW n \in 1 .. o.requests PROVE n = known
  <2>1. PICK row \in pending \cup Elements(trace) : row.trial = t /\ row.owner = 1 /\ row.n = n
    BY <1>1, <1>3, <1>4 DEF NothingLost
  <2>2. t \in Nat /\ t # 0
    BY DEF Trials
  <2>3. row \in Elements(trace)
    BY <2>1, <2>2
  <2>4. PICK i \in DOMAIN trace : row = trace[i]
    BY <2>3 DEF Elements
  <2>5. i # 1
    BY <2>1, <2>2, <2>4, RowsOfTrials
  <2>6. PICK u \in Trials : Id(trace[i]) = Evidence.raws[u].proof.correlated[1]
    BY <2>5, ControlTrace
  <2>7. PICK m \in 1 .. 9 : Evidence.raws[u].proof.correlated[1] = u * 100 + 10 + m
    BY ControlTrials
  <2>8. Id(trace[i]) = t * 100 + 1 * 10 + n
    BY <2>1, <2>4 DEF Id
  <2>9. t * 100 + 10 + n = u * 100 + 10 + m
    BY <2>2, <2>6, <2>7, <2>8
  <2>10. n \in 1 .. 9 /\ u \in 1 .. 4 /\ t \in 1 .. 4
    BY <1>6 DEF Trials
  <2>11. u = t /\ m = n
    BY <2>9, <2>10
  <2>12. ASSUME NEW v \in Trials, NEW a \in 1 .. 9, v * 100 + 10 + a = t * 100 + 10 + known PROVE v = t => a = known
    BY <2>12, <2>2
  <2>. QED  BY <1>8, <2>7, <2>11, <2>12, <2>2
<1>10. o.requests = 1
  <2>1. 1 = known
    BY <1>6, <1>7, <1>9
  <2>2. o.requests = known
    BY <1>6, <1>7, <1>9
  <2>. QED  BY <2>1, <2>2
<1>. QED  BY <1>6, <1>10

-------------------------------------------------------------------------------
(* The requests of an accepted job *)

\* As many numbers as the last of them.
LEMMA UpToCounts ==
    ASSUME NEW n \in Nat
    PROVE  IsFiniteSet(1 .. n) /\ Cardinality(1 .. n) = n
<1>1. 1 \in Int /\ n \in Int
  OBVIOUS
<1>. QED  BY <1>1, FS_Interval

\* There are four trials.
LEMMA FourTrials == Cardinality(Trials) = 4
<1>1. PICK n \in Nat : n = 4
  OBVIOUS
<1>2. Cardinality(1 .. n) = n
  BY UpToCounts
<1>. QED  BY <1>1, <1>2 DEF Trials

\* What the verifiers ask of the four finalized rows together.
LEMMA RowsAgree ==
    ASSUME Whole, trial \notin Trials, Verified(Evidence, Profile), instance.misreport \in Unchecked
    PROVE  /\ Bounds
           /\ \A t, u \in Trials : Told(t) = Told(u)
           /\ \A t \in Trials : Derived(t).visibility # "OPAQUE"
<1>1. Types /\ Typed /\ Profile \in Profiles
  BY Places DEF Whole, IInv
<1>2. Bounds
  BY PartitionsAre DEF Bounds
<1>3. PICK rows : rows = FinalizedRows(Evidence, Profile)
  OBVIOUS
<1>4. RecoveryEquivalent(rows) /\ EligibleTrials(rows) = DOMAIN rows
  BY <1>1, <1>3, Judged DEF Conclusive
<1>5. DOMAIN rows = Trials
  BY <1>1, <1>3, FinalizedIs
<1>6. /\ \A t, u \in Trials : RecoveryTuple(rows[t]) = RecoveryTuple(rows[u])
      /\ \A t \in Trials : rows[t].recovery.visibility # "OPAQUE"
  BY <1>4, <1>5 DEF RecoveryEquivalent
<1>7. \A t, u \in Trials : rows[t].recovery.originRequests = rows[u].recovery.originRequests
  BY <1>6 DEF RecoveryTuple
<1>8. \A t \in Trials : rows[t].recovery.originRequests = Told(t) /\ rows[t].recovery.visibility = Derived(t).visibility
  BY <1>1, <1>2, <1>3, RowsAre
<1>. QED  BY <1>2, <1>6, <1>7, <1>8

\* What a row tells of a trial, when no request was late, is what was asked.
LEMMA CountsAsked ==
    ASSUME Whole, trial \notin Trials, Verified(Evidence, Profile), instance.misreport \in Unchecked,
           Profile # "N0", NEW t \in Trials, ~LateUpTo(t)
    PROVE  Counts(t) = Asked(owners[t]) /\ Told(t) = Asked(owners[t])
<1>1. Counts(t) = Asked(owners[t])
  BY OriginCounted DEF Counts
<1>2. Profile = "N6R" => Counts(t) = 1
  BY OneRow DEF Counts
<1>. QED  BY <1>1, <1>2 DEF Told

\* What is counted of trials that were alike is what each asked, when fewer
\* requests were late than there are trials: else the counts would not be the same.
LEMMA AlikeCounts ==
    ASSUME Whole, trial \notin Trials, Verified(Evidence, Profile), instance.misreport \in Unchecked,
           Profile # "N0", Alike, FewLate, NEW t \in Trials
    PROVE  Counts(t) = Asked(owners[t]) /\ Told(t) = Asked(owners[t])
<1>1. Typed /\ OwnersTell /\ Late
  BY DEF Whole
<1>2. \A u \in Trials : Counts(u) = Counts(t) /\ Told(u) = Counts(u)
  <2>1. Profile = "N6R" => \A u \in Trials : Counts(u) = 1
    BY OneRow DEF Counts
  <2>2. \A u \in Trials : Told(u) = Told(t)
    BY RowsAgree
  <2>. QED  BY <2>1, <2>2 DEF Told
<1>3. PICK r : r = Asked(owners[t])
  OBVIOUS
<1>4. \A u \in Trials : Asked(owners[u]) = r
  BY <1>1, <1>3, CorrelatedReach DEF Alike
<1>5. r \in Nat /\ Made(4) = 4 * r
  BY <1>1, <1>4, AskedAlike
<1>6. /\ before[1] = 1 /\ before[2] = after[1] /\ before[3] = after[2] /\ before[4] = after[3] /\ after[4] = Len(trace)
      /\ \A u \in Trials : before[u] \in Nat /\ after[u] \in Nat
  BY PartitionsAre DEF Trials
<1>7. PICK c \in Int : c = Counts(t)
  BY <1>6 DEF Counts
<1>8. after[1] - before[1] = c /\ after[2] - before[2] = c /\ after[3] - before[3] = c /\ after[4] - before[4] = c
  BY <1>2, <1>7 DEF Counts, Trials
<1>9. Len(trace) = 1 + 4 * c
  <2>1. before[1] \in Nat /\ before[2] \in Nat /\ before[3] \in Nat /\ before[4] \in Nat /\ after[4] \in Nat
    BY <1>6 DEF Trials
  <2>. QED  BY <1>6, <1>8, <2>1, SMTT(30)
<1>10. PICK p \in Nat : p = Cardinality(pending) /\ Len(trace) + p = 1 + 4 * r
  BY <1>5, RowsOfTrials
<1>11. p < 4
  <2>1. pending \subseteq late
    <3>1. \A row \in pending : row.trial \in Trials
      BY RowsOfTrials
    <3>2. Len(after) >= 4 /\ Len(after) \in Nat
      BY AtTheEnd
    <3>3. \A row \in pending : row.trial <= Len(after)
      BY <3>1, <3>2 DEF Trials
    <3>. QED  BY <1>1, <3>3 DEF Late
  <2>2. IsFiniteSet(late)
    BY <1>1 DEF Typed
  <2>3. Cardinality(pending) <= Cardinality(late) /\ Cardinality(late) \in Nat
    BY <2>1, <2>2, FS_Subset, FS_CardinalityType
  <2>4. Cardinality(Trials) = 4
    BY FourTrials
  <2>. QED  BY <1>10, <2>3, <2>4 DEF FewLate
<1>12. c = r
  <2>1. 4 * c + p = 4 * r
    BY <1>5, <1>7, <1>9, <1>10
  <2>. QED  BY <1>5, <1>7, <1>10, <1>11, <2>1, SMTT(30)
<1>. QED  BY <1>2, <1>3, <1>7, <1>12

\* The replays a row tells of are those the owners made, when its requests are.
LEMMA ReplaysAre ==
    ASSUME Whole, trial \notin Trials, Verified(Evidence, Profile), instance.misreport \in Unchecked,
           Profile # "N0", NEW t \in Trials, Counts(t) = Asked(owners[t]), Told(t) = Asked(owners[t]),
           Profile = "N6" => ~LateUpTo(t) \/ Alike
    PROVE  Told(t) = TrueRequests(t) /\ Derived(t).retries = TrueRequests(t) - Reaching(t)
<1>1. Typed /\ OwnersTell /\ Late
  BY DEF Whole
<1>2. PICK r, n, c, l \in Nat : /\ r = Asked(owners[t]) /\ r = TrueRequests(t) /\ n = Reaching(t) /\ c = Len(Correlated(t)) /\ l = Len(owners[t])
                                /\ c <= n /\ n <= r /\ n <= l
  BY <1>1, CorrelatedReach
<1>3. CASE Profile = "N6"
  <2>1. ASSUME NEW u \in Trials, owners[u][1].requests > 0 PROVE Reaching(u) = 2
    <3>1. Len(owners[u]) = 2 /\ owners[u][2].requests > 0
      BY <1>3, ResetIsReal
    <3>2. DOMAIN owners[u] = {1, 2}
      BY <1>1, <3>1 DEF Typed
    <3>3. {i \in DOMAIN owners[u] : owners[u][i].requests > 0} = 1 .. 2
      BY <2>1, <3>1, <3>2
    <3>4. Cardinality(1 .. 2) = 2
      <4>1. PICK k \in Nat : k = 2
        OBVIOUS
      <4>2. Cardinality(1 .. k) = k
        BY UpToCounts
      <4>. QED  BY <4>1, <4>2
    <3>. QED  BY <3>3, <3>4 DEF Reaching
  <2>2. n = 2
    <3>1. CASE ~LateUpTo(t)
      <4>1. ~LateUpTo(t - 1)
        <5>1. \A row \in late : row.trial \in Nat /\ ~(row.trial <= t)
          BY <1>1, <3>1 DEF Late, LateUpTo, Trials
        <5>. QED  BY <5>1 DEF LateUpTo, Trials
      <4>2. owners[t][1].requests > 0
        BY <1>3, <4>1, ResetIsReal DEF ResetSeen
      <4>. QED  BY <1>2, <2>1, <4>2
    <3>2. CASE Alike
      <4>1. 1 \in Trials /\ 1 - 1 = 0
        BY DEF Trials
      <4>2. ~LateUpTo(1 - 1)
        BY <1>1 DEF Late, LateUpTo, Trials
      <4>3. owners[1][1].requests > 0
        BY <1>3, <4>1, <4>2, ResetIsReal DEF ResetSeen
      <4>4. Reaching(1) = 2
        BY <2>1, <4>1, <4>3
      <4>. QED  BY <1>2, <3>2, <4>1, <4>4 DEF Alike
    <3>. QED  BY <1>3, <3>1, <3>2
  <2>3. Derived(t).retries = r - 2
    BY <1>2, <1>3 DEF Derived
  <2>. QED  BY <1>2, <2>2, <2>3
<1>4. CASE Profile = "N6R"
  <2>1. r = 1
    BY <1>2, <1>4, OneRow DEF Counts
  <2>2. n # 0
    <3>1. Served(t)
      BY AtTheEnd
    <3>2. Len(owners[t]) \in {i \in DOMAIN owners[t] : owners[t][i].requests > 0}
      BY <1>1, <3>1 DEF Served, Typed
    <3>3. IsFiniteSet({i \in DOMAIN owners[t] : owners[t][i].requests > 0})
      BY <1>1, ReachingAtMost DEF Typed
    <3>. QED  BY <1>2, <3>2, <3>3, FS_EmptySet DEF Reaching
  <2>3. Derived(t).retries = 0
    BY <1>4 DEF Derived
  <2>. QED  BY <1>2, <2>1, <2>2, <2>3
<1>5. CASE Profile \notin {"N0", "N6", "N6R"}
  <2>1. Derived(t) = DerivedRetries(l, c, r)
    BY <1>2, <1>5 DEF Derived
  <2>2. Derived(t).visibility # "OPAQUE"
    BY RowsAgree
  <2>3. \/ r = c /\ Derived(t).retries = 0
        \/ l = c /\ Derived(t).retries = r - c
    BY <2>1, <2>2 DEF DerivedRetries
  <2>. QED  BY <1>2, <2>3
<1>. QED  BY <1>3, <1>4, <1>5

\* What the rows of a trial tell is so, but for requests among L.
RowTrue(t, L) ==
    \/ Told(t) = TrueRequests(t) /\ Derived(t).retries = TrueRequests(t) - Reaching(t)
    \/ (\E row \in L : row.trial <= t) /\ ~(Alike /\ Cardinality(L) < Cardinality(Trials))

\* Of a control experiment they tell of one request, and no replay.
LEMMA ControlTells ==
    ASSUME Whole, trial \notin Trials, Verified(Evidence, Profile), instance.misreport \in Unchecked,
           Profile = "N0", NEW t \in Trials
    PROVE  RowTrue(t, pending)
<1>1. Typed /\ OwnersTell
  BY DEF Whole
<1>2. Told(t) = 1 /\ Derived(t).retries = 0
  BY DEF Told, Derived
<1>3. ASSUME Asked(owners[t]) = 1 PROVE RowTrue(t, pending)
  <2>1. TrueRequests(t) = 1 /\ Reaching(t) \in Nat /\ Reaching(t) <= 1
    BY <1>1, <1>3, CorrelatedReach
  <2>2. Reaching(t) # 0
    <3>1. Served(t)
      BY AtTheEnd
    <3>2. Len(owners[t]) \in {i \in DOMAIN owners[t] : owners[t][i].requests > 0}
      BY <1>1, <3>1 DEF Served, Typed
    <3>3. IsFiniteSet({i \in DOMAIN owners[t] : owners[t][i].requests > 0})
      BY <1>1, ReachingAtMost DEF Typed
    <3>. QED  BY <3>2, <3>3, FS_EmptySet DEF Reaching
  <2>3. Reaching(t) = 1
    BY <2>1, <2>2
  <2>. QED  BY <1>2, <2>1, <2>3 DEF RowTrue
<1>4. CASE ~(\E row \in pending : row.trial <= t)
  BY <1>3, <1>4, ControlAsks
<1>5. CASE Alike /\ Cardinality(pending) < Cardinality(Trials)
  <2>1. PICK r : r = Asked(owners[t])
    OBVIOUS
  <2>2. \A u \in Trials : Asked(owners[u]) = r
    BY <1>1, <1>5, <2>1, CorrelatedReach DEF Alike
  <2>3. r \in Nat /\ Made(4) = 4 * r
    BY <1>1, <2>2, AskedAlike
  <2>4. Len(trace) = 5
    BY ControlTrace
  <2>5. PICK p \in Nat : p = Cardinality(pending) /\ 5 + p = 1 + 4 * r
    BY <2>3, <2>4, RowsOfTrials
  <2>6. Cardinality(Trials) = 4
    BY FourTrials
  <2>7. r = 1
    BY <1>5, <2>3, <2>5, <2>6
  <2>. QED  BY <1>3, <2>1, <2>7
<1>. QED  BY <1>4, <1>5 DEF RowTrue

\* Of the others, what their owners made.
LEMMA OthersTell ==
    ASSUME Whole, trial \notin Trials, Verified(Evidence, Profile), instance.misreport \in Unchecked,
           Profile # "N0", NEW t \in Trials
    PROVE  RowTrue(t, late)
<1>1. CASE ~LateUpTo(t)
  <2>1. Counts(t) = Asked(owners[t]) /\ Told(t) = Asked(owners[t])
    BY <1>1, CountsAsked
  <2>. QED  BY <1>1, <2>1, ReplaysAre DEF RowTrue
<1>2. CASE Alike /\ FewLate
  <2>1. Counts(t) = Asked(owners[t]) /\ Told(t) = Asked(owners[t])
    BY <1>2, AlikeCounts
  <2>. QED  BY <1>2, <2>1, ReplaysAre DEF RowTrue
<1>. QED  BY <1>1, <1>2 DEF RowTrue, LateUpTo, FewLate

\* What is told of an accepted job stays so.
LEMMA ToldStep ==
    ASSUME Whole, MisreportsAreCaught, Accepted => Bounds /\ \A t \in Trials : RowTrue(t, late), [Next]_vars, Accepted'
    PROVE  Bounds' /\ \A t \in Trials : RowTrue(t, late)'
<1>1. Types /\ Typed /\ Turn /\ Idle /\ AllServed
  BY DEF Whole, IInv
<1>2. UNCHANGED <<instance, owners, before, after, kept>>
  BY <1>1, AcceptedBefore
<1>3. Profile' = Profile /\ Alike' = Alike
  BY <1>2 DEF Profile, Alike, TrueRequests, Reaching
<1>4. ASSUME NEW t \in Trials, NEW L
      PROVE  /\ Told(t)' = Told(t) /\ Derived(t)' = Derived(t)
             /\ TrueRequests(t)' = TrueRequests(t) /\ Reaching(t)' = Reaching(t)
  BY <1>2, <1>3 DEF Told, Derived, Counts, TrueRequests, Reaching, Correlated
<1>5. CASE Accepted
  <2>1. late' = late /\ Len(trace') >= Len(trace) /\ Len(trace') \in Nat
    <3>1. late' = late \/ Verify
      BY <1>1, AcceptedBefore
    <3>2. ~Verify
      BY <1>5 DEF Verify, Accepted
    <3>3. UNCHANGED <<trace, pending>> \/ (\E row \in pending : trace' = Append(trace, row))
      BY <1>1, AcceptedBefore
    <3>4. trace \in Seq(RowRecord) /\ pending \subseteq RowRecord
      BY <1>1 DEF Typed
    <3>. QED  BY <3>1, <3>2, <3>3, <3>4
  <2>2. Bounds'
    <3>1. Len(trace) \in Nat
      BY <1>1 DEF Typed
    <3>2. \A t \in Trials : Profile # "N0" => /\ before[t] \in Nat /\ after[t] \in Nat
                                              /\ before[t] < after[t] /\ after[t] <= Len(trace')
      BY <1>5, <2>1, <3>1 DEF Bounds
    <3>. QED  BY <1>2, <1>3, <3>2 DEF Bounds
  <2>3. \A t \in Trials : RowTrue(t, late)'
    BY <1>3, <1>4, <1>5, <2>1 DEF RowTrue
  <2>. QED  BY <2>2, <2>3
<1>6. CASE ~Accepted
  <2>1. Verify /\ Verified(Evidence, Profile) /\ trial \notin Trials /\ trace' = trace
    BY <1>1, <1>6, AcceptedBefore
  <2>2. instance.misreport \in Unchecked
    BY <1>1, <2>1, CaughtAtVerify
  <2>3. Bounds
    BY <2>1, <2>2, RowsAgree
  <2>4. Bounds'
    BY <1>2, <1>3, <2>1, <2>3 DEF Bounds
  <2>5. late' = IF Profile = "N0" THEN pending ELSE late
    BY <2>1 DEF Verify
  <2>6. \A t \in Trials : RowTrue(t, late')
    BY <2>1, <2>2, <2>5, ControlTells, OthersTell
  <2>7. \A t \in Trials : RowTrue(t, late)'
    BY <1>3, <1>4, <2>6 DEF RowTrue
  <2>. QED  BY <2>4, <2>7
<1>. QED  BY <1>5, <1>6

\* What the invariant says of an accepted job is what its report is to say.
LEMMA ReportIs ==
    ASSUME Whole, MisreportsAreCaught, Accepted => Bounds /\ \A t \in Trials : RowTrue(t, late)
    PROVE  AcceptedRunReportsItsRequests
<1> SUFFICES ASSUME Accepted, NEW t \in Trials
             PROVE  ReportsTruly(FinalizedRows(Evidence, Profile)[t], t) \/ (LateUpTo(t) /\ ~(Alike /\ FewLate))
  BY DEF AcceptedRunReportsItsRequests
<1>1. Types /\ Typed /\ Bounds /\ instance.misreport \in Unchecked
  BY DEF Whole, IInv, MisreportsAreCaught
<1>2. /\ FinalizedRows(Evidence, Profile)[t].recovery.originRequests = Told(t)
      /\ FinalizedRows(Evidence, Profile)[t].recovery.retries = Derived(t).retries
  BY <1>1, RowsAre
<1>. QED  BY <1>2 DEF RowTrue, ReportsTruly, LateUpTo, FewLate

\* The request and replay counts an accepted experiment reports are those its
\* owners made (the partitions of the trace and derived_retries() of the verifiers,
\* the comparison of the four rows), but for requests that outlived the wait.
THEOREM ReportIsTrue == Spec => []AcceptedRunReportsItsRequests
<1> DEFINE Inv == Whole /\ MisreportsAreCaught /\ (Accepted => Bounds /\ \A t \in Trials : RowTrue(t, late))
<1>1. Init => Inv
  BY WholeAtFirst DEF Init, Accepted, MisreportsAreCaught
<1>2. Inv /\ [Next]_vars => Inv'
  <2> SUFFICES ASSUME Inv, [Next]_vars PROVE Inv'
    OBVIOUS
  <2>1. Whole'
    BY WholeStep
  <2>2. MisreportsAreCaught'
    BY CaughtStep DEF Whole, IInv
  <2>3. (Accepted => Bounds /\ \A t \in Trials : RowTrue(t, late))'
    BY ToldStep DEF Trials
  <2>. QED  BY <2>1, <2>2, <2>3
<1>3. Inv => AcceptedRunReportsItsRequests
  BY ReportIs
<1>. QED  BY <1>1, <1>2, <1>3, PTL DEF Spec
===============================================================================
