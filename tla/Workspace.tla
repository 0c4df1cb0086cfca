----------------------------- MODULE Workspace -----------------------------
(***************************************************************************)
(* What the operator promises about the place where the user of a DevEnv   *)
(* works: its volume is filled only before the DevEnv counts as running,   *)
(* is there for as long as an IDE is, and when it was lost everything      *)
(* starts over before there is another one.  Namespaces, temporary pods,   *)
(* copies and caches do not exist here; Operator.tla implements this       *)
(* module as long as no call fails.                                        *)
(***************************************************************************)

VARIABLES
    phase,  \* Status.Build, or "none" without a DevEnv
    disk,   \* the VM volume: "none", "raw", or "filled"
    ide     \* the IDE pod is "on" or "off"

vars == <<phase, disk, ide>>

Init == phase = "none" /\ disk = "none" /\ ide = "off"

Appear == phase = "none" /\ phase' = "" /\ UNCHANGED <<disk, ide>>

Vanish == phase # "none" /\ phase' = "none" /\ UNCHANGED <<disk, ide>>

\* An image is built, if there is a Builder; a lost pod is made again.
Advance ==
    /\ <<phase, phase'>> \in {<<"", "Building">>, <<"", "WaitForInitializion">>,
                             <<"Building", "WaitForInitializion">>,
                             <<"WaitForInitializion", "Initializing">>,
                             <<"Initializing", "WaitForInitializion">>}
    /\ UNCHANGED <<disk, ide>>

\* Unless it has been lost meanwhile the volume is filled.
Finish ==
    /\ phase = "Initializing" /\ disk # "raw"
    /\ phase' = "Running"
    /\ UNCHANGED <<disk, ide>>

\* What has been built is only built again for another volume.
StartOver ==
    /\ phase # "none" /\ (phase = "Building" \/ disk = "none")
    /\ phase' = ""
    /\ UNCHANGED <<disk, ide>>

Claim ==
    /\ phase \notin {"none", "Running"} /\ disk = "none"
    /\ disk' = "raw"
    /\ UNCHANGED <<phase, ide>>

Fill ==
    /\ phase # "Running" /\ disk = "raw"
    /\ disk' = "filled"
    /\ UNCHANGED <<phase, ide>>

\* With its owner or its namespace, but under nobody's feet.
Drop == ide = "off" /\ disk' = "none" /\ UNCHANGED <<phase, ide>>

TurnOn ==
    /\ phase = "Running" /\ disk = "filled"
    /\ ide' = "on"
    /\ UNCHANGED <<phase, disk>>

TurnOff == ide' = "off" /\ UNCHANGED <<phase, disk>>

Next ==
    \/ Appear \/ Vanish \/ Advance \/ Finish \/ StartOver
    \/ Claim \/ Fill \/ Drop \/ TurnOn \/ TurnOff

Spec == Init /\ [][Next]_vars

-----------------------------------------------------------------------------

\* The promise has this invariant, which every implementation inherits: an IDE
\* has a filled volume, and a DevEnv that counts as running does not have one
\* that is still to be filled.
UsesFilled ==
    /\ ide = "on" => disk = "filled"
    /\ phase = "Running" => disk # "raw"
=============================================================================
