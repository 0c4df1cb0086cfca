------------------------------ MODULE Cluster ------------------------------
(***************************************************************************)
(* The Kubernetes objects that Reconcile builds for one DevEnv, and the    *)
(* actors that change them without asking the operator: kubelet, namespace *)
(* controller, informers and administrators.  The namespace, the VM volume *)
(* (the claim and what is on it) and the three pods are kept; the objects  *)
(* that are only created and never read back are left to other modules.    *)
(*                                                                         *)
(* Also the part of Reconcile that every other part starts from: reading   *)
(* the DevEnv and its Builder.                                             *)
(***************************************************************************)
EXTENDS Controller

CONSTANT DeleteVolumes  \* Spec.DeleteVolumes: namespace and claims are owned

VARIABLES
    builder,  \* the Builder that Spec.BuilderName names
    ns,       \* the namespace of the DevEnv
    volume,   \* the VM volume
    pods,     \* the build, init and IDE pods
    seen,     \* the operator's caches of namespace, claim and pods
    orphans   \* objects whose owner, a DevEnv, is gone

cluster == <<builder, ns, volume, pods, seen, orphans>>
clusterVars == <<controllerVars, cluster>>

ASSUME DeleteVolumesAssumption == DeleteVolumes \in BOOLEAN

PodNames     == {"build", "init", "ide"}

\* A pod with a deletion timestamp: "terminating" before or while its containers
\* run, "stopping" while the init script still does, and then, for as long as it
\* is still shown, "finished" in phase Succeeded or "killed" in phase Failed.
Going        == {"terminating", "stopping", "finished", "killed"}
PodStates    == {"absent", "pending", "copying", "running", "succeeded", "failed"} \cup Going
VolumeStates == {"none", "empty", "marked", "ready"}

ClusterTypeOK ==
    /\ builder \in BuilderStates
    /\ ns \in {"absent", "active", "terminating"}
    /\ volume \in VolumeStates
    /\ pods \in [PodNames -> PodStates]
    /\ seen \in [ns : BOOLEAN, pvc : BOOLEAN, pods : [PodNames -> PodStates]]
    /\ orphans \subseteq {"namespace", "pvc", "ide"}

\* hasBuilder is set exactly when a Builder was found.
hasBuilder == usedBuilder # "absent"

NothingThere == [p \in PodNames |-> "absent"]

\* What the informers' caches hold when they have caught up.
Current == [ns |-> ns # "absent", pvc |-> volume # "none", pods |-> pods]

InSync(i) ==
    CASE i = "devenv"    -> Len(crLog) = 1
      [] i = "namespace" -> seen.ns = Current.ns
      [] i = "pvc"       -> seen.pvc = Current.pvc
      [] i = "pods"      -> seen.pods = pods

CachesInSync == \A i \in Informers : InSync(i)

\* The operator has nothing left to do and nothing left to learn.
Settled == pc = "idle" /\ CachesInSync /\ ~queued /\ ~timer

-----------------------------------------------------------------------------
(* Pods as the API server keeps them.                                      *)

\* The build pod runs in the manager's namespace, the others in the DevEnv's.
CanCreate(p) == pods[p] = "absent" /\ (p = "build" \/ ns = "active")

CreatePod(p) == pods' = [pods EXCEPT ![p] = "pending"]

\* Delete by name: a pod that has ended is gone at once, a live one terminates.
Deleted(p) ==
    CASE pods[p] \in {"pending", "running", "terminating"} -> "terminating"
      [] pods[p] \in {"copying", "stopping"}               -> "stopping"
      [] OTHER                                             -> "absent"

DeletePod(p) == pods' = [pods EXCEPT ![p] = Deleted(p)]

-----------------------------------------------------------------------------
(* Owner references.  The IDE pod always has one, the namespace and the    *)
(* claims when Spec.DeleteVolumes is set.                                  *)

There(o) == CASE o = "namespace" -> ns # "absent"
              [] o = "pvc"       -> volume # "none"
              [] o = "ide"       -> pods["ide"] # "absent"

HasOwner(o) == o = "ide" \/ DeleteVolumes

Owned == {o \in {"namespace", "pvc", "ide"} : There(o) /\ HasOwner(o)}

\* Goes with every write of the DevEnv that may remove it.
LeavesOrphans ==
    orphans' = IF Stored.exists /\ ~Stored'.exists THEN orphans \cup Owned
                                                  ELSE orphans

\* Goes with every Create of the worker: the DevEnv that it works on, and that
\* becomes the owner, may be gone, whether or not there is a new one.
CreatedFor(o) ==
    orphans' = IF HasOwner(o) /\ devenv.uid # Stored.uid THEN orphans \cup {o}
                                                         ELSE orphans

\* Goes with every step that may remove an object.
OrphansRemain == orphans' = {o \in orphans : There(o)'}

-----------------------------------------------------------------------------
(* Kubelet.                                                                *)

PodMoves(p, from, to) == pods[p] = from /\ pods' = [pods EXCEPT ![p] = to]

BuildSucceeds ==
    /\ PodMoves("build", "pending", "succeeded") \/ PodMoves("build", "terminating", "finished")
    /\ UNCHANGED <<volume, budget>>

PodFails ==
    /\ \/ PodMoves("build", "pending", "failed")
       \/ PodMoves("init", "copying", "failed")
    /\ Spend("fault")
    /\ UNCHANGED volume

\* The script of the init-chroot container: it keeps a volume that carries
\* the file .cnde; otherwise it copies the image, writes .cnde, and chowns.
InitKeepsVolume ==
    /\ volume \in {"marked", "ready"}
    /\ PodMoves("init", "pending", "succeeded")
    /\ UNCHANGED <<volume, budget>>

InitCopies ==
    /\ volume = "empty"
    /\ PodMoves("init", "pending", "copying")
    /\ UNCHANGED <<volume, budget>>

\* The grace period of a deleted pod lets its script go on, and even end.
InitMarks ==
    /\ pods["init"] \in {"copying", "stopping"} /\ volume = "empty"
    /\ volume' = "marked"
    /\ UNCHANGED <<pods, budget>>

InitEnds == PodMoves("init", "copying", "succeeded") \/ PodMoves("init", "stopping", "finished")

InitChowns ==
    /\ volume = "marked"
    /\ InitEnds
    /\ volume' = "ready"
    /\ UNCHANGED budget

\* docker create or export fails: nothing stops the script, .cnde is written
\* all the same and the last command succeeds.
InitCopyBreaks ==
    /\ volume = "empty"
    /\ InitEnds
    /\ volume' = "marked"
    /\ Spend("fault")

\* The IDE pod starts and has an address.
IdeStarts ==
    /\ volume # "none"
    /\ PodMoves("ide", "pending", "running")
    /\ UNCHANGED <<volume, budget>>

\* Kubelet may report a pod that it kills as Failed before the pod is gone; of
\* the IDE pod Reconcile does not read the phase.
PodStops ==
    /\ \/ \E p \in PodNames, from \in Going : PodMoves(p, from, "absent")
       \/ \E p \in {"build", "init"}, from \in {"terminating", "stopping"} :
              PodMoves(p, from, "killed")
    /\ UNCHANGED <<volume, budget>>

\* An administrator's delete, or an eviction, which leaves the pod Failed.
PodLost ==
    /\ \E p \in PodNames :
           \/ pods[p] # "absent" /\ DeletePod(p)
           \/ \E from \in {"pending", "copying", "running"} : PodMoves(p, from, "failed")
    /\ Spend("podloss")
    /\ UNCHANGED volume

Kubelet ==
    /\ \/ BuildSucceeds \/ InitKeepsVolume \/ InitCopies \/ InitMarks
       \/ InitChowns \/ IdeStarts \/ PodStops
    /\ UNCHANGED <<crLog, local, pc, queued, timer, builder, ns, seen>>
    /\ OrphansRemain

PodTrouble ==
    /\ PodFails \/ InitCopyBreaks \/ PodLost
    /\ UNCHANGED <<crLog, local, pc, queued, timer, builder, ns, seen, orphans>>

-----------------------------------------------------------------------------
(* Namespace and Builder.                                                  *)

AdminDeletesNamespace ==
    /\ ns = "active" /\ ns' = "terminating"
    /\ Spend("nsdelete")
    /\ UNCHANGED <<crLog, local, pc, queued, timer, builder, volume, pods, seen, orphans>>

\* The namespace controller deletes the content and, when that is gone, the
\* namespace.
NamespaceDrains ==
    /\ ns = "terminating"
    /\ \E p \in {"init", "ide"} : pods[p] \notin Going \cup {"absent"} /\ DeletePod(p)
    /\ UNCHANGED <<controllerVars, builder, ns, volume, seen>>
    /\ OrphansRemain

NamespaceGoes ==
    /\ ns = "terminating"
    /\ pods["init"] = "absent" /\ pods["ide"] = "absent"
    /\ ns' = "absent" /\ volume' = "none"
    /\ UNCHANGED <<controllerVars, builder, pods, seen>>
    /\ OrphansRemain

\* The garbage collector deletes what is orphaned, each object by itself; a
\* claim stays while a pod uses it.
CollectNamespace ==
    /\ "namespace" \in orphans
    /\ ns' = "terminating" /\ orphans' = orphans \ {"namespace"}
    /\ UNCHANGED <<controllerVars, builder, volume, pods, seen>>

CollectClaim ==
    /\ "pvc" \in orphans
    /\ pods["init"] = "absent" /\ pods["ide"] = "absent"
    /\ volume' = "none" /\ orphans' = orphans \ {"pvc"}
    /\ UNCHANGED <<controllerVars, builder, ns, pods, seen>>

CollectIde ==
    /\ "ide" \in orphans
    /\ DeletePod("ide") /\ orphans' = orphans \ {"ide"}
    /\ UNCHANGED <<controllerVars, builder, ns, volume, seen>>

Collector == CollectNamespace \/ CollectClaim \/ CollectIde

\* A Builder may be deleted or lose its containers, and be made or put right.
BuilderChanges ==
    /\ builder' \in BuilderStates \ {builder}
    /\ IF builder' = "ok" THEN UNCHANGED budget ELSE Spend("builder")
    /\ UNCHANGED <<crLog, local, pc, queued, timer, ns, volume, pods, seen, orphans>>

-----------------------------------------------------------------------------
(* Informers of the other kinds.  Events of owned objects queue the DevEnv;*)
(* the build and init pods have no owner.                                  *)

NamespaceEvent ==
    /\ ~InSync("namespace")
    /\ seen' = [seen EXCEPT !.ns = Current.ns]
    /\ queued' = (queued \/ DeleteVolumes)

ClaimEvent ==
    /\ ~InSync("pvc")
    /\ seen' = [seen EXCEPT !.pvc = Current.pvc]
    /\ queued' = (queued \/ DeleteVolumes)

PodEvent ==
    /\ ~InSync("pods")
    /\ seen' = [seen EXCEPT !.pods = pods]
    /\ queued' = (queued \/ seen.pods["ide"] # pods["ide"])

ObjectEvent ==
    /\ NamespaceEvent \/ ClaimEvent \/ PodEvent
    /\ UNCHANGED <<crLog, local, pc, timer, budget, builder, ns, volume, pods, orphans>>

-----------------------------------------------------------------------------
(* Reconcile, lines shared by all parts.                                   *)

ReconcileStarts == /\ pc = "idle" /\ queued
                   /\ \A i \in Informers \ Lagging : InSync(i)
                   /\ queued' = FALSE
                   /\ UNCHANGED <<timer, crLog, budget, cluster>>

\* r.Get finds no DevEnv: nothing to do.
GetFindsNothing ==
    /\ ReconcileStarts
    /\ ~Cached.exists
    /\ UNCHANGED <<pc, local>>

GetFindsDevEnv ==
    /\ ReconcileStarts
    /\ Cached.exists
    /\ devenv' = Cached
    /\ fresh' = (Len(crLog) = 1)
    /\ pc' = IF Cached.deleting THEN "deleteRealm" ELSE "getBuilder"
    /\ UNCHANGED usedBuilder

\* The Builder is looked up when one is named; a missing one is an error.
GetBuilder ==
    /\ pc = "getBuilder"
    /\ \/ /\ devenv.builderName /\ builder = "absent"
          /\ ReturnRequeue
       \/ /\ devenv.builderName => builder # "absent"
          /\ usedBuilder' = IF devenv.builderName THEN builder ELSE "absent"
          /\ UNCHANGED <<devenv, fresh>>
          /\ Goto("identity")
    /\ UNCHANGED <<crLog, budget, cluster>>

Delay == TimerFires /\ (DelaysOutlastLag => CachesInSync) /\ UNCHANGED cluster

Relisted == Restarted /\ seen' = Current /\ UNCHANGED <<builder, ns, volume, pods, orphans>>

Crash == Spend("crash") /\ Relisted

User ==
    /\ UserCreates \/ UserDeletes \/ UserEdits
    /\ LeavesOrphans
    /\ UNCHANGED <<builder, ns, volume, pods, seen>>

Events == (DevEnvEvent \/ OtherEvent) /\ UNCHANGED cluster

Surroundings ==
    \/ User \/ Events \/ ObjectEvent \/ Delay
    \/ Kubelet \/ PodTrouble \/ AdminDeletesNamespace \/ NamespaceDrains
    \/ NamespaceGoes \/ Collector \/ BuilderChanges

=============================================================================
