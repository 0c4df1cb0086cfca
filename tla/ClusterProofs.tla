--------------------------- MODULE ClusterProofs ---------------------------
(***************************************************************************)
(* Type lemmas about what Identity.tla and Provisioning.tla share: the log *)
(* of the DevEnv, the returns of Reconcile, the worker's writes, and the   *)
(* steps of everybody else.                                                *)
(***************************************************************************)
EXTENDS Cluster, TLAPS

-----------------------------------------------------------------------------
(* The log.                                                                *)

\* The cached and the stored version are DevEnv objects, and appending one or
\* dropping the head of a longer log keeps a log.
LEMMA LogOfObjects ==
    ASSUME crLog \in Seq(DevEnvObject), crLog # <<>>
    PROVE  /\ Len(crLog) \in Nat \ {0}
           /\ Stored \in DevEnvObject
           /\ Cached \in DevEnvObject
           /\ <<Stored>> \in Seq(DevEnvObject)
           /\ \A new \in DevEnvObject :
                  /\ Append(crLog, new) \in Seq(DevEnvObject)
                  /\ Append(crLog, new) # <<>>
           /\ Len(crLog) > 1 => Tail(crLog) \in Seq(DevEnvObject) /\ Tail(crLog) # <<>>
  BY SMT DEF Stored, Cached

\* After an append the stored version is the one that was appended; dropping
\* the head of a longer log does not change it.
LEMMA StoredAfter ==
    ASSUME crLog \in Seq(DevEnvObject), crLog # <<>>
    PROVE  /\ \A new \in DevEnvObject : crLog' = Append(crLog, new) => Stored' = new
           /\ Len(crLog) > 1 /\ crLog' = Tail(crLog) => Stored' = Stored
           /\ crLog' = <<Stored>> => Stored' = Stored
           /\ crLog' = crLog => Stored' = Stored
           /\ Len(crLog) = 1 => Cached = Stored
<1>1. ASSUME NEW new \in DevEnvObject, crLog' = Append(crLog, new)
      PROVE  Stored' = new
  BY <1>1 DEF Stored
<1>2. ASSUME Len(crLog) > 1, crLog' = Tail(crLog)
      PROVE  Stored' = Stored
  <2>1. Len(Tail(crLog)) = Len(crLog) - 1
    BY <1>2
  <2>2. Len(crLog) - 1 \in 1 .. Len(Tail(crLog))
    BY <1>2, <2>1
  <2>3. Tail(crLog)[Len(crLog) - 1] = crLog[Len(crLog)]
    BY <1>2, <2>1, <2>2
  <2> QED
    BY <1>2, <2>1, <2>3 DEF Stored
<1>3. ASSUME crLog' = <<Stored>>
      PROVE  Stored' = Stored
  <2>1. Len(crLog') = 1 /\ crLog'[1] = Stored
    BY <1>3
  <2> QED
    BY <2>1 DEF Stored
<1>4. crLog' = crLog => Stored' = Stored
  BY DEF Stored
<1>5. Len(crLog) = 1 => Cached = Stored
  BY DEF Stored, Cached
<1> QED
  BY <1>1, <1>2, <1>3, <1>4, <1>5

\* The objects the model writes.
LEMMA ObjectTypes ==
    /\ Absent \in DevEnvObject
    /\ budget \in [Disturbances -> Nat] => \A b \in BOOLEAN : Created(b) \in DevEnvObject
    /\ \A o \in DevEnvObject, b \in BOOLEAN :
           /\ [o EXCEPT !.deleting = b] \in DevEnvObject
           /\ [o EXCEPT !.builderName = b] \in DevEnvObject
           /\ [o EXCEPT !.realm = b] \in DevEnvObject
           /\ [o EXCEPT !.user = b] \in DevEnvObject
           /\ [o EXCEPT !.finalizer = b] \in DevEnvObject
    /\ \A o \in DevEnvObject, b \in BuildPhase : [o EXCEPT !.build = b] \in DevEnvObject
  BY DEF Absent, Created, DevEnvObject, BuildPhase, BuildPhaseInitial, Disturbances

-----------------------------------------------------------------------------
(* The worker.                                                             *)

\* Whatever Reconcile returns, the local variables and the queue keep their
\* types.
LEMMA ReturnTypes ==
    ASSUME ControllerTypeOK, ReturnDone \/ ReturnRequeue \/ ReturnAfter
    PROVE  /\ devenv' = Absent /\ devenv' \in DevEnvObject
           /\ fresh' = FALSE
           /\ usedBuilder' \in BuilderStates
           /\ pc' = "idle" /\ pc' \in Labels
           /\ queued' \in BOOLEAN
           /\ timer' \in BOOLEAN
  BY ObjectTypes DEF ReturnDone, ReturnRequeue, ReturnAfter, Forget,
     ControllerTypeOK, Labels, BuilderStates

\* A disturbance leaves a budget.
LEMMA SpendTypes ==
    ASSUME budget \in [Disturbances -> Nat], NEW d \in Disturbances, Spend(d)
    PROVE  budget' \in [Disturbances -> Nat]
  BY DEF Spend

\* A write, accepted or not, leaves a log that ends in the old stored version
\* or in the written one.
LEMMA WriteTypes ==
    ASSUME ControllerTypeOK, NEW new \in DevEnvObject, Accepted(new) \/ Rejected(new)
    PROVE  /\ crLog' \in Seq(DevEnvObject) /\ crLog' # <<>>
           /\ budget' \in [Disturbances -> Nat]
           /\ Stored' = Stored \/ (fresh /\ Stored' = new)
           /\ Accepted(new) => Stored' = new
<1>1. budget' \in [Disturbances -> Nat]
  <2>1. "fault" \in Disturbances
    BY DEF Disturbances
  <2>2. Spend("fault") \/ UNCHANGED budget
    BY DEF Accepted, Rejected
  <2> QED
    BY <2>1, <2>2, SpendTypes DEF ControllerTypeOK
<1>2. CASE crLog' = crLog
  <2>1. Stored' = Stored
    BY <1>2 DEF Stored
  <2>2. Accepted(new) => new = Stored
    BY <1>2, LogOfObjects DEF Accepted, ControllerTypeOK
  <2> QED
    BY <1>1, <1>2, <2>1, <2>2 DEF ControllerTypeOK
<1>3. CASE fresh /\ crLog' = Append(crLog, new)
  BY <1>1, <1>3, LogOfObjects, StoredAfter DEF ControllerTypeOK
<1> QED
  BY <1>2, <1>3 DEF Accepted, Rejected

-----------------------------------------------------------------------------
(* Everybody else.                                                         *)

\* Creating a pod, deleting one and moving one on keep the types of pods.
LEMMA PodTypes ==
    ASSUME pods \in [PodNames -> PodStates], NEW p \in PodNames
    PROVE  /\ CreatePod(p) => pods' \in [PodNames -> PodStates]
           /\ DeletePod(p) => pods' \in [PodNames -> PodStates]
           /\ \A from, to \in PodStates :
                  PodMoves(p, from, to) => pods' \in [PodNames -> PodStates]
           /\ pods' = [pods EXCEPT ![p] = "absent"] => pods' \in [PodNames -> PodStates]
<1>1. Deleted(p) \in PodStates /\ "pending" \in PodStates /\ "absent" \in PodStates
  BY DEF Deleted, PodStates, Going
<1> QED
  BY <1>1 DEF CreatePod, DeletePod, PodMoves

\* A pod that is alive is moved on, one that is going ends or goes.
LiveMoves(p) == \E from \in {"pending", "copying", "running"}, to \in PodStates \ {"pending"} :
                    PodMoves(p, from, to)

GoingMoves(p) ==
    \/ \E from \in Going : PodMoves(p, from, "absent")
    \/ \E from \in {"terminating", "stopping"}, to \in {"finished", "killed"} :
           PodMoves(p, from, to)

\* Kubelet moves one pod on, to a state that no pod is made in.
LEMMA KubeletMoves ==
    ASSUME Kubelet
    PROVE  pods' = pods \/ \E p \in PodNames : LiveMoves(p) \/ GoingMoves(p)
<1>1. CASE PodStops
  <2>1. CASE \E p \in PodNames, from \in Going : PodMoves(p, from, "absent")
    BY <2>1 DEF GoingMoves
  <2>2. CASE \E p \in {"build", "init"}, from \in {"terminating", "stopping"} :
                 PodMoves(p, from, "killed")
    BY <2>2 DEF PodNames, GoingMoves
  <2> QED
    BY <1>1, <2>1, <2>2 DEF PodStops
<1>2. CASE BuildSucceeds \/ InitEnds
  BY <1>2 DEF BuildSucceeds, InitEnds, PodNames, PodStates, LiveMoves, GoingMoves
<1>3. CASE InitKeepsVolume \/ InitCopies \/ IdeStarts
  BY <1>3 DEF InitKeepsVolume, InitCopies, IdeStarts, PodNames, PodStates, LiveMoves
<1> QED
  BY <1>1, <1>2, <1>3 DEF Kubelet, InitMarks, InitChowns

\* What befalls pods deletes one or moves it, to a state that no pod is made in.
LEMMA TroubleMoves ==
    ASSUME PodTrouble
    PROVE  \E p \in PodNames : DeletePod(p) \/ LiveMoves(p) \/ GoingMoves(p)
<1>1. CASE PodLost
  BY <1>1 DEF PodLost, PodStates, LiveMoves
<1>2. CASE PodFails \/ InitCopyBreaks
  BY <1>2 DEF PodFails, InitCopyBreaks, InitEnds, PodNames, PodStates, LiveMoves, GoingMoves
<1> QED
  BY <1>1, <1>2 DEF PodTrouble

\* Both end in a state that there is, and that no pod is made in.
LEMMA MovesFromTo ==
    ASSUME NEW p \in PodNames, LiveMoves(p) \/ GoingMoves(p)
    PROVE  \E from \in PodStates, to \in PodStates \ {"pending"} : PodMoves(p, from, to)
  BY DEF LiveMoves, GoingMoves, PodStates, Going

\* Users and events of the DevEnv change the log; the worker's copy is fresh
\* afterwards only if it was and the stored version is the one it was.
LEMMA UserSteps ==
    ASSUME ControllerTypeOK, ClusterTypeOK, User
    PROVE  /\ ControllerTypeOK' /\ ClusterTypeOK'
           /\ fresh' = FALSE
           /\ UNCHANGED <<devenv, usedBuilder, pc, builder, ns, volume, pods, seen>>
<1>1. PICK new \in DevEnvObject, d \in Disturbances : Spend(d) /\ ForeignWrite(new)
  <2>1. CASE UserCreates
    BY <2>1, ObjectTypes DEF UserCreates, Disturbances, ControllerTypeOK
  <2>2. CASE UserDeletes
    BY <2>2, ObjectTypes, LogOfObjects DEF UserDeletes, Disturbances, ControllerTypeOK
  <2>3. CASE UserEdits
    BY <2>3, ObjectTypes, LogOfObjects DEF UserEdits, Disturbances, ControllerTypeOK
  <2> QED
    BY <2>1, <2>2, <2>3 DEF User
<1>2. orphans' \subseteq {"namespace", "pvc", "ide"}
  BY DEF User, LeavesOrphans, Owned, ClusterTypeOK
<1>3. budget' \in [Disturbances -> Nat]
  BY <1>1, SpendTypes DEF ControllerTypeOK
<1>4. crLog' \in Seq(DevEnvObject) /\ crLog' # <<>>
  BY <1>1, LogOfObjects DEF ForeignWrite, ControllerTypeOK
<1> QED
  BY <1>1, <1>2, <1>3, <1>4 DEF User, ForeignWrite, ControllerTypeOK, ClusterTypeOK

\* Events and timers of the DevEnv queue it and may move the cache on.
LEMMA EventSteps ==
    ASSUME ControllerTypeOK, ClusterTypeOK, Events \/ Delay
    PROVE  /\ ControllerTypeOK' /\ ClusterTypeOK'
           /\ Stored' = Stored
           /\ UNCHANGED <<devenv, fresh, usedBuilder, pc, cluster>>
<1>1. CASE Events /\ DevEnvEvent
  <2>1. Len(crLog) > 1 /\ crLog' = Tail(crLog)
    BY <1>1 DEF DevEnvEvent
  <2>2. Stored' = Stored /\ crLog' \in Seq(DevEnvObject) /\ crLog' # <<>>
    BY <2>1, LogOfObjects, StoredAfter DEF ControllerTypeOK
  <2> QED
    BY <1>1, <2>2 DEF Events, DevEnvEvent, cluster, ControllerTypeOK, ClusterTypeOK
<1>2. CASE Events /\ OtherEvent
  <2>1. budget' \in [Disturbances -> Nat]
    BY <1>2, SpendTypes DEF OtherEvent, Disturbances, ControllerTypeOK
  <2>2. Stored' = Stored
    BY <1>2, StoredAfter DEF OtherEvent, ControllerTypeOK
  <2> QED
    BY <1>2, <2>1, <2>2 DEF Events, OtherEvent, cluster, ControllerTypeOK, ClusterTypeOK
<1>3. CASE Delay
  <2>1. Stored' = Stored
    BY <1>3, StoredAfter DEF Delay, TimerFires, ControllerTypeOK
  <2> QED
    BY <1>3, <2>1 DEF Delay, TimerFires, cluster, ControllerTypeOK, ClusterTypeOK
<1> QED
  BY <1>1, <1>2, <1>3 DEF Events

\* The steps of the cluster leave the DevEnv and the worker alone.
ClusterSteps ==
    \/ Kubelet \/ PodTrouble \/ AdminDeletesNamespace \/ NamespaceDrains
    \/ NamespaceGoes \/ Collector \/ BuilderChanges \/ ObjectEvent

\* They do not change what is stored either.
LEMMA ClusterStepsFrame ==
    ASSUME ClusterSteps
    PROVE  /\ UNCHANGED <<crLog, devenv, fresh, usedBuilder, pc, timer>>
           /\ Stored' = Stored
<1>1. UNCHANGED <<crLog, devenv, fresh, usedBuilder, pc, timer>>
  BY DEF ClusterSteps, Kubelet, PodTrouble, AdminDeletesNamespace, NamespaceDrains,
     NamespaceGoes, Collector, CollectNamespace, CollectClaim, CollectIde,
     BuilderChanges, ObjectEvent, local, controllerVars
<1> QED
  BY <1>1 DEF Stored

\* Kubelet and what befalls pods keep the types of pods, volume and budget.
LEMMA KubeletTypes ==
    ASSUME ControllerTypeOK, ClusterTypeOK, Kubelet \/ PodTrouble
    PROVE  /\ pods' \in [PodNames -> PodStates]
           /\ volume' \in VolumeStates
           /\ budget' \in [Disturbances -> Nat]
<1> USE DEF PodNames, PodStates, VolumeStates
<1>1. CASE Kubelet
  <2>1. budget' = budget
    BY <1>1 DEF Kubelet, BuildSucceeds, InitKeepsVolume, InitCopies, InitMarks,
       InitChowns, IdeStarts, PodStops
  <2>2. volume' \in VolumeStates
    BY <1>1 DEF Kubelet, BuildSucceeds, InitKeepsVolume, InitCopies, InitMarks,
       InitChowns, IdeStarts, PodStops, ClusterTypeOK
  <2>3. \/ UNCHANGED pods
        \/ \E p \in PodNames, from, to \in PodStates : PodMoves(p, from, to)
    BY <1>1, KubeletMoves, MovesFromTo
  <2>4. pods' \in [PodNames -> PodStates]
    BY <2>3, PodTypes DEF ClusterTypeOK
  <2> QED
    BY <2>1, <2>2, <2>4 DEF ControllerTypeOK
<1>2. CASE PodTrouble
  <2>1. \E d \in Disturbances : Spend(d)
    BY <1>2 DEF PodTrouble, PodFails, InitCopyBreaks, PodLost, Disturbances
  <2>2. volume' \in VolumeStates
    BY <1>2 DEF PodTrouble, PodFails, InitCopyBreaks, PodLost, ClusterTypeOK
  <2>3. \/ \E p \in PodNames : DeletePod(p)
        \/ \E p \in PodNames, from, to \in PodStates : PodMoves(p, from, to)
    BY <1>2, TroubleMoves, MovesFromTo
  <2>4. pods' \in [PodNames -> PodStates]
    BY <2>3, PodTypes DEF ClusterTypeOK
  <2> QED
    BY <2>1, <2>2, <2>4, SpendTypes DEF ControllerTypeOK
<1> QED
  BY <1>1, <1>2

\* The steps of the cluster keep all types.
LEMMA ClusterStepsTypes ==
    ASSUME ControllerTypeOK, ClusterTypeOK, ClusterSteps
    PROVE  ControllerTypeOK' /\ ClusterTypeOK'
<1>1. UNCHANGED <<crLog, devenv, fresh, usedBuilder, pc, timer>>
  BY ClusterStepsFrame
<1>2. CASE Kubelet \/ PodTrouble
  <2>1. UNCHANGED <<queued, builder, ns, seen>>
    BY <1>2 DEF Kubelet, PodTrouble
  <2>2. orphans' \subseteq {"namespace", "pvc", "ide"}
    BY <1>2 DEF Kubelet, PodTrouble, OrphansRemain, ClusterTypeOK
  <2> QED
    BY <1>1, <1>2, <2>1, <2>2, KubeletTypes DEF ControllerTypeOK, ClusterTypeOK
<1>3. CASE AdminDeletesNamespace \/ BuilderChanges
  <2>1. budget' \in [Disturbances -> Nat]
    BY <1>3, SpendTypes DEF AdminDeletesNamespace, BuilderChanges, Disturbances,
       ControllerTypeOK
  <2> QED
    BY <1>1, <1>3, <2>1 DEF AdminDeletesNamespace, BuilderChanges,
       ControllerTypeOK, ClusterTypeOK
<1>4. CASE NamespaceDrains \/ NamespaceGoes
  <2>1. orphans' \subseteq {"namespace", "pvc", "ide"}
    BY <1>4 DEF NamespaceDrains, NamespaceGoes, OrphansRemain, ClusterTypeOK
  <2>2. pods' \in [PodNames -> PodStates]
    BY <1>4, PodTypes DEF NamespaceDrains, NamespaceGoes, ClusterTypeOK, PodNames
  <2> QED
    BY <1>1, <1>4, <2>1, <2>2 DEF NamespaceDrains, NamespaceGoes, controllerVars,
       ControllerTypeOK, ClusterTypeOK, VolumeStates
<1>5. CASE Collector
  <2>1. pods' \in [PodNames -> PodStates]
    BY <1>5, PodTypes DEF Collector, CollectNamespace, CollectClaim, CollectIde,
       ClusterTypeOK, PodNames
  <2> QED
    BY <1>1, <1>5, <2>1 DEF Collector, CollectNamespace, CollectClaim, CollectIde,
       controllerVars, ControllerTypeOK, ClusterTypeOK, VolumeStates
<1>6. CASE ObjectEvent
  <2>1. queued' \in BOOLEAN
    BY <1>6 DEF ObjectEvent, NamespaceEvent, ClaimEvent, PodEvent, ControllerTypeOK
  <2>2. seen' \in [ns : BOOLEAN, pvc : BOOLEAN, pods : [PodNames -> PodStates]]
    BY <1>6 DEF ObjectEvent, NamespaceEvent, ClaimEvent, PodEvent, Current, ClusterTypeOK
  <2> QED
    BY <1>1, <1>6, <2>1, <2>2 DEF ObjectEvent, ControllerTypeOK, ClusterTypeOK
<1> QED
  BY <1>2, <1>3, <1>4, <1>5, <1>6 DEF ClusterSteps

\* What is known of a step of the surroundings whatever the worker does: types
\* are kept, the worker's copy and its place in Reconcile are left alone, and
\* the copy is fresh afterwards only if the stored version stayed the same.
LEMMA SurroundingsSteps ==
    ASSUME ControllerTypeOK, ClusterTypeOK, Surroundings
    PROVE  /\ ControllerTypeOK' /\ ClusterTypeOK'
           /\ UNCHANGED <<devenv, usedBuilder, pc>>
           /\ fresh' => fresh /\ Stored' = Stored
<1>1. CASE User
  BY <1>1, UserSteps
<1>2. CASE Events \/ Delay
  BY <1>2, EventSteps
<1>3. CASE ClusterSteps
  BY <1>3, ClusterStepsFrame, ClusterStepsTypes
<1> QED
  BY <1>1, <1>2, <1>3 DEF Surroundings, ClusterSteps

\* A restart forgets the worker's copy and keeps what is stored.
LEMMA RelistedSteps ==
    ASSUME ControllerTypeOK, ClusterTypeOK, Relisted, budget' \in [Disturbances -> Nat]
    PROVE  /\ ControllerTypeOK' /\ ClusterTypeOK'
           /\ pc' = "idle" /\ fresh' = FALSE
           /\ Stored' = Stored
<1>1. Stored' = Stored /\ crLog' \in Seq(DevEnvObject) /\ crLog' # <<>>
  BY LogOfObjects, StoredAfter DEF Relisted, Restarted, ControllerTypeOK
<1>2. queued' \in BOOLEAN
  BY LogOfObjects DEF Relisted, Restarted, ControllerTypeOK, DevEnvObject
<1>3. seen' \in [ns : BOOLEAN, pvc : BOOLEAN, pods : [PodNames -> PodStates]]
  BY DEF Relisted, Current, ClusterTypeOK
<1>4. ControllerTypeOK'
  BY <1>1, <1>2, ObjectTypes DEF Relisted, Restarted, Forget, ControllerTypeOK,
     BuilderStates, Labels
<1>5. ClusterTypeOK'
  BY <1>3 DEF Relisted, ClusterTypeOK
<1> QED
  BY <1>1, <1>4, <1>5 DEF Relisted, Restarted, Forget

=============================================================================
