------------------------- MODULE ProvisioningProofs -------------------------
(***************************************************************************)
(* Type correctness of Provisioning, and the two action properties that    *)
(* say how Status.Build moves, for every lag of the caches and any number  *)
(* of faults, crashes and writes of others.                                *)
(***************************************************************************)
EXTENDS Provisioning, ClusterProofs

-----------------------------------------------------------------------------
(* Type correctness.                                                       *)

\* A write of a phase, accepted or not, and a return.
WritesAndReturns(phase) ==
    /\ SetDevEnvStatus(phase) \/ SetDevEnvStatusFails(phase)
    /\ ReturnRequeue \/ ReturnAfter
    /\ UNCHANGED cluster

\* WritesPhase is such a write.
LEMMA WritesPhaseReturns ==
    ASSUME NEW phase, WritesPhase(phase)
    PROVE  WritesAndReturns(phase)
  BY DEF WritesPhase, WritesAndReturns

\* What such a write does to types, worker and stored object.
LEMMA WritesPhaseTypes ==
    ASSUME ProvisioningTypeOK, NEW phase \in BuildPhase, WritesAndReturns(phase)
    PROVE  /\ ProvisioningTypeOK'
           /\ pc' = "idle" /\ fresh' = FALSE
           /\ Stored' = Stored \/ (fresh /\ Stored' = WithBuild(phase))
           /\ UNCHANGED cluster
<1>1. WithBuild(phase) \in DevEnvObject
  BY ObjectTypes DEF WithBuild, ProvisioningTypeOK, ControllerTypeOK
<1>2. Accepted(WithBuild(phase)) \/ Rejected(WithBuild(phase))
  BY DEF WritesAndReturns, SetDevEnvStatus, SetDevEnvStatusFails
<1>3. ReturnDone \/ ReturnRequeue \/ ReturnAfter
  BY DEF WritesAndReturns
<1>4. /\ crLog' \in Seq(DevEnvObject) /\ crLog' # <<>>
      /\ budget' \in [Disturbances -> Nat]
      /\ Stored' = Stored \/ (fresh /\ Stored' = WithBuild(phase))
  BY <1>1, <1>2, WriteTypes DEF ProvisioningTypeOK
<1>5. UNCHANGED cluster
  BY DEF WritesAndReturns
<1>6. ControllerTypeOK'
  BY <1>3, <1>4, ReturnTypes DEF ProvisioningTypeOK, ControllerTypeOK
<1>7. ClusterTypeOK'
  BY <1>5 DEF cluster, ProvisioningTypeOK, ClusterTypeOK
<1> QED
  BY <1>3, <1>4, <1>5, <1>6, <1>7, ReturnTypes DEF ProvisioningTypeOK

\* Creating a pod (CreatesPod) keeps types and leaves the DevEnv alone.
LEMMA CreatesPodTypes ==
    ASSUME ProvisioningTypeOK, NEW p \in PodNames, NEW s \in Labels, NEW r \in Labels,
           CreatesPod(p, s, r)
    PROVE  /\ ProvisioningTypeOK'
           /\ \/ pc' \in {s, r} /\ UNCHANGED local
              \/ pc' = "idle" /\ fresh' = FALSE
           /\ UNCHANGED <<crLog, ns, volume>>
<1>1. pods' \in [PodNames -> PodStates]
  BY PodTypes DEF CreatesPod, ProvisioningTypeOK, ClusterTypeOK
<1>2. budget' \in [Disturbances -> Nat]
  BY SpendTypes DEF CreatesPod, ProvisioningTypeOK, ControllerTypeOK, Disturbances
<1>3. UNCHANGED <<crLog, builder, ns, volume, seen, orphans>>
  BY DEF CreatesPod
<1>4. CASE ReturnRequeue
  BY <1>1, <1>2, <1>3, <1>4, ReturnTypes DEF ProvisioningTypeOK, ControllerTypeOK, ClusterTypeOK
<1>5. CASE pc' \in {s, r} /\ UNCHANGED <<local, queued, timer>>
  BY <1>1, <1>2, <1>3, <1>5 DEF local, ProvisioningTypeOK, ControllerTypeOK, ClusterTypeOK
<1> QED
  BY <1>4, <1>5 DEF CreatesPod, Goto

\* Deleting a pod (DropsPod) keeps types and ends the reconcile.
LEMMA DropsPodTypes ==
    ASSUME ProvisioningTypeOK, NEW p \in PodNames, DropsPod(p)
    PROVE  /\ ProvisioningTypeOK'
           /\ pc' = "idle" /\ fresh' = FALSE
           /\ UNCHANGED <<crLog, ns, volume>>
<1>1. pods' \in [PodNames -> PodStates]
  BY PodTypes DEF DropsPod, ProvisioningTypeOK, ClusterTypeOK
<1>2. budget' \in [Disturbances -> Nat]
  BY SpendTypes DEF DropsPod, ProvisioningTypeOK, ControllerTypeOK, Disturbances
<1>3. UNCHANGED <<crLog, builder, ns, volume, seen, orphans>>
  BY DEF DropsPod
<1>4. ReturnRequeue \/ ReturnAfter
  BY DEF DropsPod
<1> QED
  BY <1>1, <1>2, <1>3, <1>4, ReturnTypes DEF ProvisioningTypeOK, ControllerTypeOK, ClusterTypeOK

\* The same for a look at a pod: the phase is written when the pod is missing
\* or has succeeded, and only in the latter case Reconcile goes on.
LEMMA WatchesTypes ==
    ASSUME ProvisioningTypeOK, NEW p \in PodNames, NEW back \in BuildPhase,
           NEW next \in BuildPhase, NEW d \in Labels,
           Watches(p, back, next, d)
    PROVE  /\ ProvisioningTypeOK'
           /\ \/ pc' = d /\ devenv' = Stored'
              \/ pc' = "idle" /\ fresh' = FALSE
           /\ \/ Stored' = Stored
              \/ fresh /\ Stored' \in {WithBuild(back), WithBuild(next)}
           /\ UNCHANGED cluster
<1>1. CASE WritesPhase(back)
  BY <1>1, WritesPhaseTypes, WritesPhaseReturns
<1>2. ASSUME SetDevEnvStatus(next), Keep(WithBuild(next)), Goto(d), UNCHANGED cluster
      PROVE  /\ ProvisioningTypeOK'
             /\ pc' = d /\ devenv' = Stored'
             /\ fresh /\ Stored' = WithBuild(next)
  <2>1. WithBuild(next) \in DevEnvObject
    BY ObjectTypes DEF WithBuild, ProvisioningTypeOK, ControllerTypeOK
  <2>2. /\ crLog' \in Seq(DevEnvObject) /\ crLog' # <<>>
        /\ budget' \in [Disturbances -> Nat]
        /\ Stored' = WithBuild(next)
    BY <1>2, <2>1, WriteTypes DEF SetDevEnvStatus, ProvisioningTypeOK
  <2>3. ControllerTypeOK'
    BY <1>2, <2>1, <2>2 DEF Keep, Goto, ProvisioningTypeOK, ControllerTypeOK
  <2>4. ClusterTypeOK'
    BY <1>2 DEF cluster, ProvisioningTypeOK, ClusterTypeOK
  <2> QED
    BY <1>2, <2>2, <2>3, <2>4 DEF Keep, Goto, SetDevEnvStatus, Accepted, ProvisioningTypeOK
<1>3. CASE SetDevEnvStatusFails(next) /\ ReturnRequeue /\ UNCHANGED cluster
  <2>1. WritesAndReturns(next)
    BY <1>3 DEF WritesAndReturns
  <2> QED
    BY <2>1, WritesPhaseTypes
<1>4. CASE (ReturnDone \/ ReturnAfter) /\ UNCHANGED <<crLog, budget, cluster>>
  <2>1. Stored' = Stored
    BY <1>4 DEF Stored
  <2> QED
    BY <1>4, <2>1, ReturnTypes DEF cluster, ProvisioningTypeOK, ControllerTypeOK, ClusterTypeOK
<1> QED
  BY <1>1, <1>2, <1>3, <1>4 DEF Watches

-----------------------------------------------------------------------------
(* The inductive invariant.                                                *)

\* What the worker believes is what is stored, as long as its copy is fresh;
\* a namespace takes its claims along; and at the labels where a phase is
\* about to be written, the guards under which they were reached still hold.
CopyIsCurrent     == fresh => devenv = Stored
ClaimsNeedNs      == ns = "absent" => volume = "none"
ResetWithoutClaim == pc = "resetStatus" => volume = "none"
PhaseAtWrite      ==
    /\ pc = "statusBuilding" => devenv.build = BuildPhaseInitial
    /\ pc = "statusInitializing" => devenv.build = BuildPhaseWaitForInitializion

ProvisioningInv ==
    ProvisioningTypeOK /\ CopyIsCurrent /\ ClaimsNeedNs /\ ResetWithoutClaim /\ PhaseAtWrite

\* What a step of the worker may do to the stored object.
LegalWrite(phase) ==
    \/ phase = BuildPhaseInitial
    \/ <<Stored.build, phase>> \in PhaseStep

StoredMoves ==
    \/ Stored' = Stored
    \/ \E phase \in BuildPhase :
           /\ Stored' = [Stored EXCEPT !.build = phase]
           /\ Stored.build = phase \/ LegalWrite(phase)
           /\ phase = BuildPhaseInitial /\ BuildIsOver => volume = "none"

\* The phases, one by one.
LEMMA PhaseTypes ==
    /\ BuildPhase = {BuildPhaseInitial, BuildPhaseBuilding,
                     BuildPhaseWaitForInitializion, BuildPhaseInitializing,
                     BuildPhaseRunning}
    /\ PhaseStep \subseteq BuildPhase \X BuildPhase
  BY DEF BuildPhase, PhaseStep

\* No step of others makes a volume, and one that takes the namespace away has
\* taken the volume.
LEMMA VolumeOfOthers ==
    ASSUME Surroundings
    PROVE  /\ volume = "none" => volume' = "none"
           /\ ns' = "absent" => ns = "absent" \/ volume' = "none"
<1>1. CASE User \/ Events \/ Delay
  BY <1>1 DEF User, Events, Delay, cluster
<1>2. CASE Kubelet \/ PodTrouble
  BY <1>2 DEF Kubelet, PodTrouble, BuildSucceeds, InitKeepsVolume, InitCopies,
     InitMarks, InitChowns, IdeStarts, PodStops, PodFails, InitCopyBreaks, PodLost
<1>3. CASE ObjectEvent \/ AdminDeletesNamespace \/ NamespaceDrains \/ NamespaceGoes
  BY <1>3 DEF ObjectEvent, AdminDeletesNamespace, NamespaceDrains, NamespaceGoes
<1>4. CASE Collector \/ BuilderChanges
  BY <1>4 DEF Collector, CollectNamespace, CollectClaim, CollectIde, BuilderChanges
<1> QED
  BY <1>1, <1>2, <1>3, <1>4 DEF Surroundings

\* The invariant holds before the DevEnv is created.
LEMMA ProvisioningInvInit == ProvisioningInit => ProvisioningInv
<1> SUFFICES ASSUME ProvisioningInit PROVE ProvisioningInv
  OBVIOUS
<1>1. crLog \in Seq(DevEnvObject) /\ crLog # <<>>
  BY ObjectTypes DEF ProvisioningInit
<1>2. ControllerTypeOK
  BY <1>1, ObjectTypes, ConstantsAssumption DEF ProvisioningInit, ControllerTypeOK, BuilderStates, Labels
<1>3. ClusterTypeOK
  BY DEF ProvisioningInit, ClusterTypeOK, NothingThere, BuilderStates, VolumeStates, PodStates
<1> QED
  BY <1>2, <1>3 DEF ProvisioningInit, ProvisioningInv, ProvisioningTypeOK, CopyIsCurrent, ClaimsNeedNs,
     ResetWithoutClaim, PhaseAtWrite

\* Steps after which the worker is idle or at a label where nothing is written
\* keep the invariant, if they keep types, the stored object and the volume.
LEMMA ProvisioningAtRest ==
    ASSUME ProvisioningInv, ProvisioningTypeOK', CopyIsCurrent', UNCHANGED <<ns, volume>>,
           pc' \notin {"resetStatus", "statusBuilding", "statusInitializing"}
    PROVE  ProvisioningInv'
  BY DEF ProvisioningInv, ClaimsNeedNs, ResetWithoutClaim, PhaseAtWrite

-----------------------------------------------------------------------------
(* One lemma per group of actions of Reconcile.                            *)

\* Reading the DevEnv and its Builder, and the steps that only go on.
LEMMA ProvisioningReading ==
    ASSUME ProvisioningInv, GetFindsNothing \/ GetFindsDevEnv \/ GetBuilder \/ IdentityDone
                \/ BuildPassed \/ InitPassed
    PROVE  ProvisioningInv' /\ StoredMoves
<1> USE DEF ProvisioningInv, ProvisioningTypeOK
<1>0. UNCHANGED <<crLog, budget, cluster>>
  BY DEF GetFindsNothing, GetFindsDevEnv, ReconcileStarts, GetBuilder, IdentityDone,
     BuildPassed, InitPassed
<1>1. Stored' = Stored /\ ClusterTypeOK'
  BY <1>0 DEF Stored, cluster, ClusterTypeOK
<1>2. CASE GetFindsNothing \/ IdentityDone \/ BuildPassed \/ InitPassed
  <2>1. /\ UNCHANGED local
        /\ pc' \in {"namespace", "init", "ide"} \/ pc' = pc
        /\ pc' \in Labels /\ queued' \in BOOLEAN /\ timer' = timer
    BY <1>2 DEF GetFindsNothing, ReconcileStarts, IdentityDone, BuildPassed, InitPassed,
       Goto, ControllerTypeOK, Labels
  <2>2. ControllerTypeOK'
    BY <1>0, <2>1 DEF local, ControllerTypeOK
  <2> QED
    BY <1>0, <1>1, <2>1, <2>2 DEF local, cluster, CopyIsCurrent, ClaimsNeedNs,
       ResetWithoutClaim, PhaseAtWrite, StoredMoves
<1>3. CASE GetFindsDevEnv
  <2>1. /\ devenv' = Cached /\ fresh' = (Len(crLog) = 1)
        /\ pc' \in {"deleteRealm", "getBuilder"}
        /\ UNCHANGED <<usedBuilder, timer>> /\ queued' = FALSE
    BY <1>3 DEF GetFindsDevEnv, ReconcileStarts
  <2>2. ControllerTypeOK'
    BY <1>0, <2>1, LogOfObjects DEF ControllerTypeOK, Labels
  <2>3. CopyIsCurrent'
    BY <1>1, <2>1, StoredAfter DEF CopyIsCurrent, ControllerTypeOK
  <2> QED
    BY <1>0, <1>1, <2>1, <2>2, <2>3, ProvisioningAtRest DEF cluster, StoredMoves
<1>4. CASE GetBuilder
  <2>1. \/ ReturnRequeue
        \/ /\ UNCHANGED <<devenv, fresh, queued, timer>> /\ pc' = "identity"
           /\ usedBuilder' \in BuilderStates
    BY <1>4 DEF GetBuilder, Goto, ClusterTypeOK, BuilderStates
  <2>2. ControllerTypeOK'
    BY <1>0, <2>1, ReturnTypes DEF ControllerTypeOK, Labels
  <2>3. CopyIsCurrent' /\ pc' \in {"idle", "identity"}
    <3>1. CASE ReturnRequeue
      BY <3>1, ReturnTypes DEF CopyIsCurrent
    <3>2. CASE UNCHANGED <<devenv, fresh>> /\ pc' = "identity"
      BY <1>1, <3>2 DEF CopyIsCurrent
    <3> QED
      BY <2>1, <3>1, <3>2
  <2> QED
    BY <1>0, <1>1, <2>2, <2>3, ProvisioningAtRest DEF cluster, StoredMoves
<1> QED
  BY <1>2, <1>3, <1>4

\* The namespace and the claims.
LEMMA NamespaceSteps ==
    ASSUME ProvisioningInv, Namespace \/ Ensure
    PROVE  ProvisioningInv' /\ StoredMoves
<1> USE DEF ProvisioningInv, ProvisioningTypeOK
<1>0. UNCHANGED <<crLog, builder, pods, seen>> /\ Stored' = Stored
  BY DEF Namespace, Ensure, Stored
<1>01. orphans' \subseteq {"namespace", "pvc", "ide"}
  BY DEF Namespace, CreateNamespace, MakesNamespace, Ensure, MakesClaim, CreatedFor, ClusterTypeOK
<1>1. budget' \in [Disturbances -> Nat]
  BY SpendTypes DEF Namespace, CreateNamespace, Ensure, ControllerTypeOK, Disturbances
<1>2. \/ ReturnRequeue \/ ReturnAfter
      \/ UNCHANGED <<local, queued, timer>> /\ pc' \in {"ensure", "build", "resetStatus"}
  BY DEF Namespace, CreateNamespace, Ensure, Goto
<1>3. ControllerTypeOK'
  BY <1>0, <1>1, <1>2, ReturnTypes DEF local, ControllerTypeOK, Labels
<1>4. CopyIsCurrent'
  BY <1>0, <1>2, ReturnTypes DEF local, CopyIsCurrent
<1>5. ns' \in {"absent", "active", "terminating"} /\ volume' \in VolumeStates
  BY DEF Namespace, CreateNamespace, MakesNamespace, Ensure, MakesClaim, ClusterTypeOK, VolumeStates
<1>6. ClusterTypeOK'
  BY <1>0, <1>01, <1>5 DEF ClusterTypeOK
<1>7. CASE Namespace
  <2>1. volume' = volume
    BY <1>7 DEF Namespace
  <2>2. ns' = ns \/ ns' = "active"
    BY <1>7 DEF Namespace, CreateNamespace, MakesNamespace
  <2>3. pc' = "resetStatus" => ns = "absent"
    BY <1>7, <1>2, ReturnTypes DEF Namespace, CreateNamespace, MakesNamespace, Goto
  <2> QED
    BY <1>0, <1>2, <1>3, <1>4, <1>6, <2>1, <2>2, <2>3, ReturnTypes
    DEF ClaimsNeedNs, ResetWithoutClaim, PhaseAtWrite, StoredMoves
<1>8. CASE Ensure
  <2>1. ns' = ns /\ (volume' = volume \/ ns = "active")
    BY <1>8 DEF Ensure, MakesClaim
  <2>2. pc' \in {"idle", "build"}
    BY <1>8, ReturnTypes DEF Ensure, Goto
  <2> QED
    BY <1>0, <1>3, <1>4, <1>6, <2>1, <2>2
    DEF ClaimsNeedNs, ResetWithoutClaim, PhaseAtWrite, StoredMoves
<1> QED
  BY <1>7, <1>8

\* The steps that write a phase and return.
LEMMA PhaseWritingSteps ==
    ASSUME ProvisioningInv, ResetStatus \/ StatusBuilding \/ BuildWithoutBuilder \/ StatusInitializing
    PROVE  ProvisioningInv' /\ StoredMoves
<1> USE DEF ProvisioningInv
<1>1. PICK phase \in BuildPhase :
          /\ WritesAndReturns(phase)
          /\ <<devenv.build, phase>> \in PhaseStep
             \/ (phase = BuildPhaseInitial /\ volume = "none")
  <2>1. CASE ResetStatus
    BY <2>1, PhaseTypes, WritesPhaseReturns DEF ResetStatus, ResetWithoutClaim
  <2>2. CASE StatusBuilding
    BY <2>2, PhaseTypes, WritesPhaseReturns DEF StatusBuilding, PhaseAtWrite, PhaseStep
  <2>3. CASE BuildWithoutBuilder
    BY <2>3, PhaseTypes DEF BuildWithoutBuilder, WritesAndReturns, PhaseStep
  <2>4. CASE StatusInitializing
    BY <2>4, PhaseTypes, WritesPhaseReturns DEF StatusInitializing, PhaseAtWrite, PhaseStep
  <2> QED
    BY <2>1, <2>2, <2>3, <2>4
<1>2. /\ ProvisioningTypeOK' /\ pc' = "idle" /\ fresh' = FALSE
      /\ Stored' = Stored \/ (fresh /\ Stored' = WithBuild(phase))
      /\ UNCHANGED <<ns, volume>>
  BY <1>1, WritesPhaseTypes DEF cluster
<1>3. StoredMoves
  <2>1. CASE Stored' = Stored
    BY <2>1 DEF StoredMoves
  <2>2. CASE fresh /\ Stored' = WithBuild(phase)
    <3>1. devenv = Stored
      BY <2>2 DEF CopyIsCurrent
    <3>2. phase = BuildPhaseInitial /\ BuildIsOver => volume = "none"
      BY <1>1, <3>1 DEF BuildIsOver, PhaseStep, BuildPhaseInitial, BuildPhaseBuilding,
         BuildPhaseWaitForInitializion, BuildPhaseInitializing, BuildPhaseRunning
    <3> QED
      BY <1>1, <2>2, <3>1, <3>2 DEF WithBuild, StoredMoves, LegalWrite
  <2> QED
    BY <1>2, <2>1, <2>2
<1> QED
  BY <1>2, <1>3, ProvisioningAtRest DEF CopyIsCurrent

\* The steps that create or delete a pod and leave the DevEnv alone.
LEMMA PodSteps ==
    ASSUME ProvisioningInv, BuildInitial \/ InitWaiting \/ ReplaceBuildPod \/ ReplaceInitPod
                \/ DropBuildPod \/ DropInitPod \/ Ide
    PROVE  ProvisioningInv' /\ StoredMoves
<1> USE DEF ProvisioningInv
<1>1. CASE BuildInitial
  <2>1. /\ CreatesPod("build", "statusBuilding", "replaceBuildPod")
        /\ devenv.build = BuildPhaseInitial
    BY <1>1 DEF BuildInitial
  <2>2. /\ ProvisioningTypeOK'
        /\ \/ pc' \in {"statusBuilding", "replaceBuildPod"} /\ UNCHANGED local
           \/ pc' = "idle" /\ fresh' = FALSE
        /\ UNCHANGED <<crLog, ns, volume>>
    BY <2>1, CreatesPodTypes DEF PodNames, Labels
  <2> QED
    BY <2>1, <2>2 DEF local, Stored, CopyIsCurrent, ClaimsNeedNs, ResetWithoutClaim,
       PhaseAtWrite, StoredMoves
<1>2. CASE InitWaiting
  <2>1. /\ CreatesPod("init", "statusInitializing", "replaceInitPod")
        /\ devenv.build = BuildPhaseWaitForInitializion
    BY <1>2 DEF InitWaiting
  <2>2. /\ ProvisioningTypeOK'
        /\ \/ pc' \in {"statusInitializing", "replaceInitPod"} /\ UNCHANGED local
           \/ pc' = "idle" /\ fresh' = FALSE
        /\ UNCHANGED <<crLog, ns, volume>>
    BY <2>1, CreatesPodTypes DEF PodNames, Labels
  <2> QED
    BY <2>1, <2>2 DEF local, Stored, CopyIsCurrent, ClaimsNeedNs, ResetWithoutClaim,
       PhaseAtWrite, StoredMoves
<1>3. CASE ReplaceBuildPod \/ ReplaceInitPod \/ DropBuildPod \/ DropInitPod
  <2>1. PICK p \in PodNames : DropsPod(p)
    BY <1>3 DEF ReplaceBuildPod, ReplaceInitPod, DropBuildPod, DropInitPod, PodNames
  <2>2. ProvisioningTypeOK' /\ pc' = "idle" /\ fresh' = FALSE /\ UNCHANGED <<crLog, ns, volume>>
    BY <2>1, DropsPodTypes
  <2> QED
    BY <2>2, ProvisioningAtRest DEF Stored, CopyIsCurrent, StoredMoves
<1>4. CASE Ide
  <2>1. UNCHANGED <<crLog, builder, ns, volume, seen>> /\ Stored' = Stored
    BY <1>4 DEF Ide, Stored
  <2>6. orphans' \subseteq {"namespace", "pvc", "ide"}
    BY <1>4 DEF Ide, CreateIde, CreatedFor, ProvisioningTypeOK, ClusterTypeOK
  <2>2. ReturnRequeue \/ ReturnDone
    BY <1>4 DEF Ide, CreateIde, Proxy
  <2>3. pods' \in [PodNames -> PodStates]
    BY <1>4, PodTypes DEF Ide, CreateIde, ProvisioningTypeOK, ClusterTypeOK, PodNames
  <2>4. budget' \in [Disturbances -> Nat]
    BY <1>4, SpendTypes DEF Ide, CreateIde, ProvisioningTypeOK, ControllerTypeOK, Disturbances
  <2>5. ProvisioningTypeOK' /\ pc' = "idle" /\ fresh' = FALSE
    BY <2>1, <2>2, <2>3, <2>4, <2>6, ReturnTypes DEF ProvisioningTypeOK, ControllerTypeOK, ClusterTypeOK
  <2> QED
    BY <2>1, <2>5, ProvisioningAtRest DEF CopyIsCurrent, StoredMoves
<1> QED
  BY <1>1, <1>2, <1>3, <1>4

\* Looking at the build pod and at the init pod.
LEMMA WatchingSteps ==
    ASSUME ProvisioningInv, BuildBuilding \/ InitInitializing
    PROVE  ProvisioningInv' /\ StoredMoves
<1> USE DEF ProvisioningInv
<1>1. PICK p \in PodNames, back \in BuildPhase, next \in BuildPhase,
           d \in {"dropBuildPod", "dropInitPod"} :
          /\ Watches(p, back, next, d)
          /\ <<devenv.build, next>> \in PhaseStep /\ next # BuildPhaseInitial
          /\ \/ <<devenv.build, back>> \in PhaseStep /\ back # BuildPhaseInitial
             \/ back = BuildPhaseInitial /\ devenv.build = BuildPhaseBuilding
  <2>1. CASE BuildBuilding
    <3>1. /\ Watches("build", BuildPhaseInitial, BuildPhaseWaitForInitializion, "dropBuildPod")
          /\ devenv.build = BuildPhaseBuilding
      BY <2>1 DEF BuildBuilding
    <3>2. BuildPhaseWaitForInitializion # BuildPhaseInitial
      BY DEF BuildPhaseWaitForInitializion, BuildPhaseInitial
    <3>3. <<BuildPhaseBuilding, BuildPhaseWaitForInitializion>> \in PhaseStep
      BY DEF PhaseStep
    <3> QED
      BY <3>1, <3>2, <3>3, PhaseTypes DEF PodNames
  <2>2. CASE InitInitializing
    <3>1. /\ Watches("init", BuildPhaseWaitForInitializion, BuildPhaseRunning, "dropInitPod")
          /\ devenv.build = BuildPhaseInitializing
      BY <2>2 DEF InitInitializing
    <3>2. /\ BuildPhaseWaitForInitializion # BuildPhaseInitial
          /\ BuildPhaseRunning # BuildPhaseInitial
      BY DEF BuildPhaseWaitForInitializion, BuildPhaseInitial, BuildPhaseRunning
    <3>3. /\ <<BuildPhaseInitializing, BuildPhaseRunning>> \in PhaseStep
          /\ <<BuildPhaseInitializing, BuildPhaseWaitForInitializion>> \in PhaseStep
      BY DEF PhaseStep
    <3> QED
      BY <3>1, <3>2, <3>3, PhaseTypes DEF PodNames
  <2> QED
    BY <2>1, <2>2
<1>2. /\ ProvisioningTypeOK'
      /\ \/ pc' = d /\ devenv' = Stored'
         \/ pc' = "idle" /\ fresh' = FALSE
      /\ \/ Stored' = Stored
         \/ fresh /\ Stored' \in {WithBuild(back), WithBuild(next)}
      /\ UNCHANGED <<ns, volume>>
  BY <1>1, WatchesTypes DEF Labels, cluster
<1>3. CopyIsCurrent'
  BY <1>2 DEF CopyIsCurrent
<1>4. ProvisioningInv'
  BY <1>2, <1>3, ProvisioningAtRest
<1>5. ASSUME fresh, NEW phase \in {back, next}, Stored' = WithBuild(phase)
      PROVE  StoredMoves
  <2>1. devenv = Stored
    BY <1>5 DEF CopyIsCurrent
  <2>2. LegalWrite(phase)
    BY <1>1, <1>5, <2>1 DEF LegalWrite
  <2>3. phase = BuildPhaseInitial => ~BuildIsOver
    BY <1>1, <1>5, <2>1 DEF BuildIsOver, BuildPhaseBuilding, BuildPhaseInitializing,
       BuildPhaseWaitForInitializion, BuildPhaseRunning
  <2> QED
    BY <1>1, <1>5, <2>1, <2>2, <2>3 DEF WithBuild, StoredMoves
<1> QED
  BY <1>2, <1>4, <1>5 DEF StoredMoves

\* A process that ends, by itself or not, and starts again.
LEMMA RestartSteps ==
    ASSUME ProvisioningInv, Crash \/ BuildPanics
    PROVE  ProvisioningInv' /\ Stored' = Stored
<1> USE DEF ProvisioningInv
<1>1. Relisted /\ budget' \in [Disturbances -> Nat]
  BY SpendTypes DEF Crash, BuildPanics, ProvisioningTypeOK, ControllerTypeOK, Disturbances
<1>2. ProvisioningTypeOK' /\ pc' = "idle" /\ fresh' = FALSE /\ Stored' = Stored
  BY <1>1, RelistedSteps DEF ProvisioningTypeOK
<1>3. UNCHANGED <<ns, volume>>
  BY <1>1 DEF Relisted
<1> QED
  BY <1>2, <1>3, ProvisioningAtRest DEF CopyIsCurrent

\* All steps of Reconcile together.
LEMMA ProvisioningSteps ==
    ASSUME ProvisioningInv, ProvisioningReconcile
    PROVE  ProvisioningInv' /\ StoredMoves
<1>1. CASE BuildPanics
  BY <1>1, RestartSteps DEF StoredMoves
<1>2. CASE \/ GetFindsNothing \/ GetFindsDevEnv \/ GetBuilder \/ IdentityDone
           \/ BuildPassed \/ InitPassed
  BY <1>2, ProvisioningReading
<1>3. CASE Namespace \/ Ensure
  BY <1>3, NamespaceSteps
<1>4. CASE ResetStatus \/ StatusBuilding \/ BuildWithoutBuilder \/ StatusInitializing
  BY <1>4, PhaseWritingSteps
<1>5. CASE \/ BuildInitial \/ InitWaiting \/ ReplaceBuildPod \/ ReplaceInitPod
           \/ DropBuildPod \/ DropInitPod \/ Ide
  BY <1>5, PodSteps
<1>6. CASE BuildBuilding \/ InitInitializing
  BY <1>6, WatchingSteps
<1> QED
  BY <1>1, <1>2, <1>3, <1>4, <1>5, <1>6 DEF ProvisioningReconcile, Provisions

\* No step of users, events, kubelet, administrators or collector breaks the
\* invariant.
LEMMA ProvisioningSurroundings ==
    ASSUME ProvisioningInv, Surroundings
    PROVE  ProvisioningInv'
<1> USE DEF ProvisioningInv
<1>1. /\ ProvisioningTypeOK'
      /\ UNCHANGED <<devenv, usedBuilder, pc>>
      /\ fresh' => fresh /\ Stored' = Stored
  BY SurroundingsSteps DEF ProvisioningTypeOK
<1>2. /\ volume = "none" => volume' = "none"
      /\ ns' = "absent" => ns = "absent" \/ volume' = "none"
  BY VolumeOfOthers
<1>3. CopyIsCurrent'
  BY <1>1 DEF CopyIsCurrent
<1> QED
  BY <1>1, <1>2, <1>3 DEF ClaimsNeedNs, ResetWithoutClaim, PhaseAtWrite

\* The invariant is inductive.
LEMMA ProvisioningInvNext == ProvisioningInv /\ [ProvisioningNext]_clusterVars => ProvisioningInv'
<1> SUFFICES ASSUME ProvisioningInv, [ProvisioningNext]_clusterVars PROVE ProvisioningInv'
  OBVIOUS
<1>1. CASE ProvisioningReconcile
  BY <1>1, ProvisioningSteps
<1>2. CASE Crash
  BY <1>2, RestartSteps
<1>3. CASE Surroundings
  BY <1>3, ProvisioningSurroundings
<1>4. CASE UNCHANGED clusterVars
  BY <1>4 DEF clusterVars, controllerVars, cluster, ProvisioningInv, ProvisioningTypeOK, ControllerTypeOK,
     ClusterTypeOK, CopyIsCurrent, Stored, ClaimsNeedNs, ResetWithoutClaim, PhaseAtWrite
<1> QED
  BY <1>1, <1>2, <1>3, <1>4 DEF ProvisioningNext

-----------------------------------------------------------------------------
(* Theorems.                                                               *)

\* Users leave the phase of a DevEnv alone.
LEMMA UserKeepsPhase ==
    ASSUME ProvisioningInv, User, Stored.exists, Stored'.exists
    PROVE  Stored'.build = Stored.build
<1>1. crLog \in Seq(DevEnvObject) /\ crLog # <<>> /\ Stored \in DevEnvObject
  BY LogOfObjects DEF ProvisioningInv, ProvisioningTypeOK, ControllerTypeOK
<1>2. CASE UserCreates
  BY <1>2 DEF UserCreates
<1>3. CASE UserDeletes
  <2>1. \/ crLog' = Append(crLog, [Stored EXCEPT !.deleting = TRUE])
        \/ crLog' = Append(crLog, Absent)
    BY <1>3 DEF UserDeletes, ForeignWrite
  <2>2. \/ Stored' = [Stored EXCEPT !.deleting = TRUE]
        \/ Stored' = Absent
    BY <1>1, <2>1, StoredAfter, ObjectTypes
  <2> QED
    BY <1>1, <2>2 DEF Absent, DevEnvObject
<1>4. CASE UserEdits
  <2>1. PICK b \in BOOLEAN : crLog' = Append(crLog, [Stored EXCEPT !.builderName = b])
    BY <1>4 DEF UserEdits, ForeignWrite
  <2>2. Stored' = [Stored EXCEPT !.builderName = b]
    BY <1>1, <2>1, StoredAfter, ObjectTypes
  <2> QED
    BY <1>1, <2>2 DEF DevEnvObject
<1> QED
  BY <1>2, <1>3, <1>4 DEF User

\* Every step keeps the stored phase or moves it legally.
LEMMA EveryStepMovesLegally ==
    ASSUME ProvisioningInv, [ProvisioningNext]_clusterVars, Stored.exists, Stored'.exists
    PROVE  \/ Stored'.build = Stored.build
           \/ /\ LegalWrite(Stored'.build)
              /\ Stored'.build = BuildPhaseInitial /\ BuildIsOver => volume = "none"
<1>1. Stored \in DevEnvObject
  BY LogOfObjects DEF ProvisioningInv, ProvisioningTypeOK, ControllerTypeOK
<1>2. CASE ProvisioningReconcile
  <2>1. StoredMoves
    BY <1>2, ProvisioningSteps
  <2> QED
    BY <1>1, <2>1 DEF StoredMoves, LegalWrite, DevEnvObject
<1>3. CASE Crash
  BY <1>3, RestartSteps
<1>4. CASE User
  BY <1>4, UserKeepsPhase
<1>5. CASE Events \/ Delay
  BY <1>5, EventSteps DEF ProvisioningInv, ProvisioningTypeOK
<1>6. CASE ClusterSteps
  BY <1>6, ClusterStepsFrame
<1>7. CASE UNCHANGED clusterVars
  BY <1>7 DEF clusterVars, controllerVars, Stored
<1> QED
  BY <1>2, <1>3, <1>4, <1>5, <1>6, <1>7 DEF ProvisioningNext, Surroundings, ClusterSteps

\* Inv is an invariant of the provisioning part of Reconcile: copy, stored
\* object, volume and phase stay in step through every stale read and crash.
THEOREM ProvisioningInvariance == ProvisioningSpec => []ProvisioningInv
<1>1. ProvisioningInit => ProvisioningInv
  BY ProvisioningInvInit
<1>2. ProvisioningInv /\ [ProvisioningNext]_clusterVars => ProvisioningInv'
  BY ProvisioningInvNext
<1> QED
  BY <1>1, <1>2, PTL DEF ProvisioningSpec

\* Every variable of Provisioning keeps its type, for every bound on the log and
\* every budget of disturbances.
THEOREM ProvisioningTypeCorrect == ProvisioningSpec => []ProvisioningTypeOK
<1>1. ProvisioningInv => ProvisioningTypeOK
  BY DEF ProvisioningInv
<1> QED
  BY <1>1, ProvisioningInvariance, PTL

\* Status.Build never makes a move that Reconcile does not intend, although each
\* move is computed from a cached copy: the resourceVersion check turns away
\* every copy that is not the stored one.
THEOREM PhaseOrderHolds == ProvisioningSpec => PhaseOrder
<1>1. ProvisioningInv /\ [ProvisioningNext]_clusterVars => [MoveOfPhase]_clusterVars
  <2> SUFFICES ASSUME ProvisioningInv, [ProvisioningNext]_clusterVars PROVE MoveOfPhase
    OBVIOUS
  <2> QED
    BY EveryStepMovesLegally DEF MoveOfPhase, LegalWrite
<1> QED
  BY <1>1, ProvisioningInvariance, PTL DEF ProvisioningSpec, PhaseOrder

\* What is on a volume is never built again on top of itself: a DevEnv whose
\* build is over starts over only in a namespace without its volume.
THEOREM FinishedVolumeKeptHolds == ProvisioningSpec => FinishedVolumeKept
<1>1. ProvisioningInv /\ [ProvisioningNext]_clusterVars => [StartsOverWithoutVolume]_clusterVars
  <2> SUFFICES ASSUME ProvisioningInv, [ProvisioningNext]_clusterVars, Stored.exists, Stored'.exists, BuildIsOver,
                      Stored'.build = BuildPhaseInitial
               PROVE  volume = "none"
    BY DEF StartsOverWithoutVolume
  <2>1. Stored'.build # Stored.build
    BY DEF BuildIsOver, BuildPhaseInitial, BuildPhaseWaitForInitializion,
       BuildPhaseInitializing, BuildPhaseRunning
  <2> QED
    BY <2>1, EveryStepMovesLegally
<1> QED
  BY <1>1, ProvisioningInvariance, PTL DEF ProvisioningSpec, FinishedVolumeKept

=============================================================================
