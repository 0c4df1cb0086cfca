------------------------------- MODULE Operator -------------------------------
(***************************************************************************)
(* The whole of Reconcile for one DevEnv: the steps of Identity.tla up to  *)
(* the user, and those of Provisioning.tla in place of RestOfReconcile and *)
(* IdentityDone.  Both act on one DevEnv object, one queue, one cache and  *)
(* one cluster, so nothing is taken for granted of the other half here.    *)
(***************************************************************************)
EXTENDS Identity, Provisioning

CONSTANT PromptCollector  \* TRUE: orphans are gone before a pod that was made starts

ASSUME PromptCollectorAssumption == PromptCollector \in BOOLEAN

WholeReconcile == Reads \/ TakesDown \/ Identifies \/ (Provisions /\ UNCHANGED kc)

\* A garbage collector that is faster than a pod of the next DevEnv starts, which
\* is usual but nowhere guaranteed.
CollectorIsPrompt ==
    PromptCollector /\ orphans # {} => \A p \in PodNames :
        pods[p] = "pending" => pods'[p] \in {"pending", "terminating", "failed", "absent"}

Elsewhere == (Surroundings \/ Crash) /\ CollectorIsPrompt /\ UNCHANGED kc

OperatorNext == WholeReconcile \/ Elsewhere

\* The worker runs what is queued; informers, timers and the controllers of the
\* cluster do their work.  Nothing is assumed of users and administrators.
OperatorFairness ==
    /\ WF_vars(WholeReconcile)
    /\ WF_vars(DevEnvEvent /\ UNCHANGED <<cluster, kc>>)
    /\ WF_vars(NamespaceEvent /\ ObjectEvent /\ UNCHANGED kc)
    /\ WF_vars(ClaimEvent /\ ObjectEvent /\ UNCHANGED kc)
    /\ WF_vars(PodEvent /\ ObjectEvent /\ UNCHANGED kc)
    /\ WF_vars(Delay /\ UNCHANGED kc)
    /\ WF_vars(Kubelet /\ CollectorIsPrompt /\ UNCHANGED kc)
    /\ WF_vars(Collector /\ UNCHANGED kc)
    /\ WF_vars((NamespaceDrains \/ NamespaceGoes) /\ UNCHANGED kc)

OperatorSpec     == Init /\ [][OperatorNext]_vars
OperatorFairSpec == OperatorSpec /\ OperatorFairness

-----------------------------------------------------------------------------
(* Properties.  Those of the two halves hold of the whole; these need it.  *)

\* Nobody gets an IDE before there is a user to log in with, and none is made
\* by a reconcile that was overtaken by the deletion of the realm (the guard on
\* Status.User, the client that is made anew in every reconcile, and the one
\* worker).
IdeIsForUser ==
    pods["ide"] = "absent" /\ pods'["ide"] = "pending"
        => {"realm", "client", "user", "password"} \subseteq kc

IdeOnlyForUser == [][IdeIsForUser]_vars

\* From the creation of a DevEnv to an IDE that its user can log in to, also
\* when the namespace is lost on the way.
GetsUsable ==
    Stored.exists /\ ~Stored.deleting
        ~> \/ "password" \in kc /\ pods["ide"] = "running"
           \/ Stored.deleting \/ ~Stored.exists
           \/ Stored.builderName /\ builder = "absent"

\* With Spec.DeleteVolumes a DevEnv that is gone leaves nothing in the cluster,
\* at whatever point of its provisioning it was deleted.
EverythingGoes ==
    ~Stored.exists
        ~> Stored.exists \/ (ns = "absent" /\ volume = "none" /\ pods = NothingThere)

Space == INSTANCE Workspace WITH
    phase <- IF Stored.exists THEN Stored.build ELSE "none",
    disk  <- CASE volume = "none"  -> "none"
               [] volume = "ready" -> "filled"
               [] OTHER            -> "raw",
    ide   <- IF pods["ide"] \in {"pending", "running"} THEN "on" ELSE "off"

\* Where no call fails and no pod is lost, all of Reconcile with the namespace,
\* the temporary pods and the collector at work does what Workspace.tla promises
\* (lines 219-465).
ImplementsWorkspace == Space!Spec

=============================================================================
