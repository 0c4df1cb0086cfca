---------------------------- MODULE Provisioning ----------------------------
(***************************************************************************)
(* The provisioning half of Reconcile: the namespace, the claims, and the  *)
(* phases of Status.Build, in which a build pod makes the image, an init   *)
(* pod fills the VM volume and the IDE pod is started on it.               *)
(*                                                                         *)
(* A step of the worker is a read of the cache together with the one write *)
(* that follows from it.  Realm and user are taken to exist (Identity.tla),*)
(* and so no finalizer is set: a deleted DevEnv is gone at once.           *)
(***************************************************************************)
EXTENDS Cluster

ProvisioningTypeOK == ControllerTypeOK /\ ClusterTypeOK

ProvisioningInit ==
    /\ crLog = <<Absent>>
    /\ devenv = Absent /\ fresh = FALSE /\ usedBuilder = "absent"
    /\ pc = "idle" /\ queued = FALSE /\ timer = FALSE
    /\ budget = Budget
    /\ builder = "ok"
    /\ ns = "absent" /\ volume = "none" /\ pods = NothingThere
    /\ seen = [ns |-> FALSE, pvc |-> FALSE, pods |-> NothingThere]
    /\ orphans = {}

IdentityDone ==
    /\ pc = "identity"
    /\ Goto("namespace")
    /\ UNCHANGED <<local, crLog, budget, cluster>>

\* setDevEnvStatus, and the return that follows when nothing else does.
WritesPhase(phase) ==
    /\ \/ SetDevEnvStatus(phase) /\ ReturnAfter
       \/ SetDevEnvStatusFails(phase) /\ ReturnRequeue
    /\ UNCHANGED cluster

-----------------------------------------------------------------------------
(* Namespace.  A new one resets the status, for its volumes are new too.   *)

MakesNamespace == ns = "absent" /\ ns' = "active" /\ CreatedFor("namespace")

CreateNamespace ==
    /\ ~seen.ns
    /\ \/ MakesNamespace /\ Goto("resetStatus") /\ UNCHANGED <<local, budget>>
       \/ ns # "absent" /\ ReturnRequeue /\ UNCHANGED <<ns, orphans, budget>>
       \/ ns = "terminating" /\ ReturnAfter /\ UNCHANGED <<ns, orphans, budget>>
       \/ Spend("fault") /\ ReturnRequeue /\ UNCHANGED <<ns, orphans>>
       \/ Spend("fault") /\ ReturnRequeue /\ MakesNamespace

Namespace ==
    /\ pc = "namespace"
    /\ \/ CreateNamespace
       \/ seen.ns /\ Goto("ensure") /\ UNCHANGED <<local, budget, ns, orphans>>
    /\ UNCHANGED <<crLog, builder, volume, pods, seen>>

\* Mutant of ResetStatus: the reset is not written.
ResetStatusLocally ==
    /\ pc = "resetStatus"
    /\ ReturnAfter
    /\ UNCHANGED <<crLog, budget, cluster>>

ResetStatus == pc = "resetStatus" /\ WritesPhase(BuildPhaseInitial)

MakesClaim ==
    /\ ns = "active" /\ volume = "none"
    /\ volume' = "empty" /\ CreatedFor("pvc")

\* Service account, bindings and claims, of which the VM volume's is kept.
\* Each is created when the cache does not have it; AlreadyExists is an error,
\* and so is a namespace that is not there or terminating.
Ensure ==
    /\ pc = "ensure"
    /\ \/ seen.pvc /\ Goto("build") /\ UNCHANGED <<local, budget, volume, orphans>>
       \/ ~seen.pvc /\ MakesClaim /\ Goto("build") /\ UNCHANGED <<local, budget>>
       \/ /\ ns # "active" \/ (~seen.pvc /\ volume # "none")
          /\ ReturnRequeue /\ UNCHANGED <<budget, volume, orphans>>
       \/ Spend("fault") /\ ReturnRequeue /\ UNCHANGED <<volume, orphans>>
       \/ Spend("fault") /\ ReturnRequeue /\ ~seen.pvc /\ MakesClaim
    /\ UNCHANGED <<crLog, builder, ns, pods, seen>>

-----------------------------------------------------------------------------
(* What the build pod and the init pod have in common.                     *)

\* Create: the phase is written next; a pod of the name is deleted first.
CreatesPod(p, statusLabel, replaceLabel) ==
    /\ \/ CanCreate(p) /\ CreatePod(p) /\ Goto(statusLabel) /\ UNCHANGED <<local, budget>>
       \/ /\ pods[p] # "absent" /\ (p = "build" \/ ns = "active")
          /\ Goto(replaceLabel) /\ UNCHANGED <<local, budget, pods>>
       \/ p = "init" /\ ns # "active" /\ ReturnRequeue /\ UNCHANGED <<budget, pods>>
       \/ Spend("fault") /\ ReturnRequeue /\ UNCHANGED pods
       \/ Spend("fault") /\ ReturnRequeue /\ CanCreate(p) /\ CreatePod(p)
    /\ UNCHANGED <<crLog, builder, ns, volume, seen, orphans>>

\* Delete: NotFound is an error like any other.
DropsPod(p) ==
    /\ \/ pods[p] # "absent" /\ DeletePod(p) /\ ReturnAfter /\ UNCHANGED budget
       \/ pods[p] = "absent" /\ ReturnRequeue /\ UNCHANGED <<pods, budget>>
       \/ Spend("fault") /\ ReturnRequeue /\ UNCHANGED pods
       \/ Spend("fault") /\ ReturnRequeue /\ DeletePod(p)
    /\ UNCHANGED <<crLog, builder, ns, volume, seen, orphans>>

\* Mutant of Watches: a missing pod is waited for.
WatchesForever(p, back, next, dropLabel) ==
    \/ /\ seen.pods[p] \in {"succeeded", "finished"}
       /\ \/ /\ SetDevEnvStatus(next) /\ Keep(WithBuild(next))
             /\ Goto(dropLabel)
          \/ SetDevEnvStatusFails(next) /\ ReturnRequeue
       /\ UNCHANGED cluster
    \/ /\ seen.pods[p] \notin {"succeeded", "finished"}
       /\ ReturnAfter /\ UNCHANGED <<crLog, budget, cluster>>

\* The pod is looked up in the cache: a missing one leads back, a finished one
\* on to the next phase and then to the pod's deletion, a failed one nowhere.
\* Nobody looks whether it is being deleted.
Watches(p, back, next, dropLabel) ==
    \/ seen.pods[p] = "absent" /\ WritesPhase(back)
    \/ /\ seen.pods[p] \in {"succeeded", "finished"}
       /\ \/ /\ SetDevEnvStatus(next) /\ Keep(WithBuild(next))
             /\ Goto(dropLabel)
          \/ SetDevEnvStatusFails(next) /\ ReturnRequeue
       /\ UNCHANGED cluster
    \/ /\ seen.pods[p] \in {"failed", "killed"}
       /\ ReturnDone /\ UNCHANGED <<crLog, budget, cluster>>
    \/ /\ seen.pods[p] \in {"pending", "copying", "running", "terminating", "stopping"}
       /\ ReturnAfter /\ UNCHANGED <<crLog, budget, cluster>>

-----------------------------------------------------------------------------
(* Build.                                                                  *)

\* A Builder without containers is indexed out of range: the process ends.
BuildPanics ==
    /\ pc = "build" /\ usedBuilder = "empty"
    /\ devenv.build = BuildPhaseInitial
    /\ Relisted
    /\ UNCHANGED budget

BuildInitial ==
    /\ pc = "build" /\ usedBuilder = "ok"
    /\ devenv.build = BuildPhaseInitial
    /\ CreatesPod("build", "statusBuilding", "replaceBuildPod")

\* Mutant of StatusBuilding: the pod's phase instead of the build's.  The
\* constants of BuildPhase are untyped strings.
StatusPending == pc = "statusBuilding" /\ WritesPhase("Pending")

StatusBuilding == pc = "statusBuilding" /\ WritesPhase(BuildPhaseBuilding)

ReplaceBuildPod == pc = "replaceBuildPod" /\ DropsPod("build")

\* Mutant of BuildBuilding: the wait for the init pod is skipped.
BuildSkipsWaiting ==
    /\ pc = "build" /\ hasBuilder
    /\ devenv.build = BuildPhaseBuilding
    /\ Watches("build", BuildPhaseInitial, BuildPhaseInitializing, "dropBuildPod")

BuildBuilding ==
    /\ pc = "build" /\ hasBuilder
    /\ devenv.build = BuildPhaseBuilding
    /\ Watches("build", BuildPhaseInitial, BuildPhaseWaitForInitializion, "dropBuildPod")

\* Mutant of DropBuildPod: the finished pod is left.
DropNoBuildPod == pc = "dropBuildPod" /\ ReturnAfter /\ UNCHANGED <<crLog, budget, cluster>>

DropBuildPod == pc = "dropBuildPod" /\ DropsPod("build")

BuildWithoutBuilder ==
    /\ pc = "build" /\ ~hasBuilder
    /\ devenv.build = BuildPhaseInitial
    /\ \/ SetDevEnvStatus(BuildPhaseWaitForInitializion)
       \/ SetDevEnvStatusFails(BuildPhaseWaitForInitializion)
    /\ ReturnRequeue
    /\ UNCHANGED cluster

\* Any other phase is none of the build's business.  Without a Builder that
\* includes Building.
BuildPassed ==
    /\ pc = "build"
    /\ devenv.build # BuildPhaseInitial
    /\ hasBuilder => devenv.build # BuildPhaseBuilding
    /\ Goto("init")
    /\ UNCHANGED <<local, crLog, budget, cluster>>

-----------------------------------------------------------------------------
(* Initialization of the volume.                                           *)

InitWaiting ==
    /\ pc = "init"
    /\ devenv.build = BuildPhaseWaitForInitializion
    /\ CreatesPod("init", "statusInitializing", "replaceInitPod")

StatusInitializing == pc = "statusInitializing" /\ WritesPhase(BuildPhaseInitializing)

ReplaceInitPod == pc = "replaceInitPod" /\ DropsPod("init")

\* Mutant of InitInitializing: a missing pod starts everything over.
InitStartsOver ==
    /\ pc = "init"
    /\ devenv.build = BuildPhaseInitializing
    /\ Watches("init", BuildPhaseInitial, BuildPhaseRunning, "dropInitPod")

InitInitializing ==
    /\ pc = "init"
    /\ devenv.build = BuildPhaseInitializing
    /\ Watches("init", BuildPhaseWaitForInitializion, BuildPhaseRunning, "dropInitPod")

DropInitPod == pc = "dropInitPod" /\ DropsPod("init")

\* Mutant of InitPassed: a running init pod is not waited for.
InitPassedEarly ==
    /\ pc = "init"
    /\ devenv.build # BuildPhaseWaitForInitializion
    /\ Goto("ide")
    /\ UNCHANGED <<local, crLog, budget, cluster>>

InitPassed ==
    /\ pc = "init"
    /\ devenv.build \notin {BuildPhaseWaitForInitializion, BuildPhaseInitializing}
    /\ Goto("ide")
    /\ UNCHANGED <<local, crLog, budget, cluster>>

-----------------------------------------------------------------------------
(* The IDE pod, and what follows once it has an address.                   *)

\* Services, endpoints, ingresses, the proxy's pod and its secret: none of them
\* is kept here.  One that is there but not in the cache yet is an error.
Proxy == ReturnDone \/ ReturnRequeue

CreateIde ==
    /\ seen.pods["ide"] = "absent"
    /\ ReturnRequeue
    /\ \/ CanCreate("ide") /\ CreatePod("ide") /\ CreatedFor("ide") /\ UNCHANGED budget
       \/ ~CanCreate("ide") /\ UNCHANGED <<pods, orphans, budget>>
       \/ Spend("fault") /\ UNCHANGED <<pods, orphans>>
       \/ Spend("fault") /\ CanCreate("ide") /\ CreatePod("ide") /\ CreatedFor("ide")

\* A pod without an address is asked for again at once; its phase does not
\* matter, and one that has failed may have an address or not.
Ide ==
    /\ pc = "ide"
    /\ \/ CreateIde
       \/ /\ seen.pods["ide"] = "pending"
          /\ ReturnRequeue /\ UNCHANGED <<pods, orphans, budget>>
       \/ /\ seen.pods["ide"] \in {"running", "terminating", "killed", "failed"}
          /\ Proxy /\ UNCHANGED <<pods, orphans, budget>>
    /\ UNCHANGED <<crLog, builder, ns, volume, seen>>

-----------------------------------------------------------------------------

\* Lines 218-582, everything in the cluster.
Provisions ==
    \/ Namespace \/ ResetStatus \/ Ensure
    \/ BuildPanics \/ BuildInitial \/ StatusBuilding \/ ReplaceBuildPod
    \/ BuildBuilding \/ DropBuildPod \/ BuildWithoutBuilder \/ BuildPassed
    \/ InitWaiting \/ StatusInitializing \/ ReplaceInitPod
    \/ InitInitializing \/ DropInitPod \/ InitPassed
    \/ Ide

ProvisioningReconcile ==
    \/ GetFindsNothing \/ GetFindsDevEnv \/ GetBuilder
    \/ IdentityDone \/ Provisions

ProvisioningNext == ProvisioningReconcile \/ Crash \/ Surroundings

\* As in Identity.tla, and the cluster's own controllers do their work.
ProvisioningFairness ==
    /\ WF_clusterVars(ProvisioningReconcile)
    /\ WF_clusterVars(DevEnvEvent /\ UNCHANGED cluster)
    /\ WF_clusterVars(NamespaceEvent /\ ObjectEvent)
    /\ WF_clusterVars(ClaimEvent /\ ObjectEvent)
    /\ WF_clusterVars(PodEvent /\ ObjectEvent)
    /\ WF_clusterVars(Delay)
    /\ WF_clusterVars(Kubelet)
    /\ WF_clusterVars(Collector)
    /\ WF_clusterVars(NamespaceDrains \/ NamespaceGoes)

ProvisioningSpec     == ProvisioningInit /\ [][ProvisioningNext]_clusterVars
ProvisioningFairSpec == ProvisioningSpec /\ ProvisioningFairness

-----------------------------------------------------------------------------
(* Properties.                                                             *)

PhaseStep ==
    {<<BuildPhaseInitial, BuildPhaseBuilding>>,
     <<BuildPhaseInitial, BuildPhaseWaitForInitializion>>,
     <<BuildPhaseBuilding, BuildPhaseWaitForInitializion>>,
     <<BuildPhaseWaitForInitializion, BuildPhaseInitializing>>,
     <<BuildPhaseInitializing, BuildPhaseRunning>>,
     <<BuildPhaseInitializing, BuildPhaseWaitForInitializion>>}

MoveOfPhase ==
    Stored.exists /\ Stored'.exists /\ Stored.build # Stored'.build
        => \/ Stored'.build = BuildPhaseInitial
           \/ <<Stored.build, Stored'.build>> \in PhaseStep

\* Status.Build of a DevEnv moves along the phases, or back to have a lost pod
\* made again, or to Initial; no write of a stale copy sets it aside
\* (setDevEnvStatus at each of its places in Reconcile).
PhaseOrder == [][MoveOfPhase]_clusterVars

BuildIsOver ==
    Stored.build \in {BuildPhaseWaitForInitializion, BuildPhaseInitializing,
                     BuildPhaseRunning}

StartsOverWithoutVolume ==
    Stored.exists /\ Stored'.exists /\ BuildIsOver /\ Stored'.build = BuildPhaseInitial
        => volume = "none"

\* A DevEnv whose build is over is sent back to Initial only when its volume is
\* gone: what is on a volume is never built again on top of itself, however
\* stale the cache is that the namespace was not found in (lines 219-237).
FinishedVolumeKept == [][StartsOverWithoutVolume]_clusterVars

\* The IDE pod is only made for a DevEnv that went through all phases.
IdeOnlyWhenRunning ==
    [][pods["ide"] = "absent" /\ pods'["ide"] = "pending" /\ Stored.exists
           => Stored.build = BuildPhaseRunning]_clusterVars

\* The IDE runs on a volume that has been filled and handed to its user, also
\* after the namespace was lost with everything in it.
IdeOnlyOnReadyVolume == pods["ide"] = "running" => volume = "ready"

\* A new namespace resets the status: as long as a volume is empty its DevEnv
\* does not count as running.
NewNamespaceResetsStatus ==
    Stored.exists /\ volume = "empty" => Stored.build # BuildPhaseRunning

\* Running is reached when initialization has succeeded: the volume, if it is
\* still there, is complete.
RunningMeansReady ==
    Settled /\ Stored.exists /\ Stored.build = BuildPhaseRunning
        => volume \in {"none", "ready"}

\* A provisioned DevEnv leaves no build pod and no init pod behind.
NoStrayPods ==
    Settled /\ Stored.exists /\ Stored.build = BuildPhaseRunning
        => \A p \in {"build", "init"} : pods[p] \in Going \cup {"absent"}

\* What Reconcile does not recover from: a build or init pod that has failed, or
\* is shown as failed while it is being deleted, and an IDE pod that stays failed.
ShownFailure ==
    \/ \E p \in {"build", "init"} : seen.pods[p] \in {"failed", "killed"}
    \/ seen.pods["ide"] = "failed"

\* A DevEnv gets its IDE, and gets it back when pod or namespace are lost, unless
\* it is deleted, its Builder is of no use, or Reconcile was shown a failed pod.
IdeRuns ==
    []~ShownFailure =>
        (Stored.exists
            ~> \/ pods["ide"] = "running" \/ ~Stored.exists
               \/ Stored.builderName /\ builder # "ok")

=============================================================================
