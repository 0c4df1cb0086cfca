------------------------------ MODULE Identity ------------------------------
(***************************************************************************)
(* The OAuth half of Reconcile: the realm, the client and the user of a    *)
(* DevEnv in Keycloak, the status fields and the finalizer that record     *)
(* them, and the path that takes them down when the DevEnv is deleted.     *)
(*                                                                         *)
(* Every step is one call to Keycloak or to the API server.  What Reconcile*)
(* does after the user exists is one step here, RestOfReconcile, that may  *)
(* leave a build pod behind; Provisioning.tla has it in detail.            *)
(***************************************************************************)
EXTENDS Cluster, Keycloak

vars == <<clusterVars, kc>>

TypeOK == ControllerTypeOK /\ ClusterTypeOK /\ KeycloakTypeOK

\* A DevEnv is about to be created; its Builder, if it names one, may be there.
Init ==
    /\ crLog = <<Absent>>
    /\ devenv = Absent /\ fresh = FALSE /\ usedBuilder = "absent"
    /\ pc = "idle" /\ queued = FALSE /\ timer = FALSE
    /\ budget = Budget
    /\ builder \in {"absent", "ok"}
    /\ ns = "absent" /\ volume = "none" /\ pods = NothingThere
    /\ seen = [ns |-> FALSE, pvc |-> FALSE, pods |-> NothingThere]
    /\ orphans = {}
    /\ kc = {}

-----------------------------------------------------------------------------
(* Deletion: the realm, the build pod, then the finalizer.                 *)

\* Mutant of DeleteRealm: an error does not end the reconcile.
DeleteRealmIgnoringErrors ==
    /\ pc = "deleteRealm"
    /\ \/ DeleteRealmOk /\ UNCHANGED budget
       \/ DeleteRealmNotFound /\ UNCHANGED budget
       \/ DeleteRealmError /\ Spend("fault")
    /\ Goto("deleteBuildPod")
    /\ UNCHANGED <<crLog, local, cluster>>

\* A realm that is not there is an error like any other: the error of the
\* Keycloak client is not one that errors.IsNotFound recognises.
DeleteRealm ==
    /\ pc = "deleteRealm"
    /\ \/ DeleteRealmOk /\ Goto("deleteBuildPod") /\ UNCHANGED <<local, budget>>
       \/ DeleteRealmNotFound /\ ReturnRequeue /\ UNCHANGED budget
       \/ DeleteRealmError /\ Spend("fault") /\ ReturnRequeue
    /\ UNCHANGED <<crLog, cluster>>

\* Mutant of DeleteBuildPod: the build pod is left alone.
DeleteNoBuildPod ==
    /\ pc = "deleteBuildPod"
    /\ Goto("removeFinalizer")
    /\ UNCHANGED <<crLog, local, budget, kc, cluster>>

\* An error of this Delete is logged and ignored.
DeleteBuildPod ==
    /\ pc = "deleteBuildPod"
    /\ \/ seen.pods["build"] = "absent" /\ UNCHANGED <<pods, budget>>
       \/ seen.pods["build"] # "absent" /\ DeletePod("build") /\ UNCHANGED budget
       \/ seen.pods["build"] # "absent" /\ Spend("fault") /\ UNCHANGED pods
    /\ Goto("removeFinalizer")
    /\ UNCHANGED <<crLog, local, kc, builder, ns, volume, seen, orphans>>

\* Mutant of RemoveFinalizer: the object is changed but not written back.
RemoveFinalizerLocally ==
    /\ pc = "removeFinalizer"
    /\ ReturnDone
    /\ UNCHANGED <<crLog, budget, kc, cluster>>

\* Without finalizers the marked object is gone.
RemoveFinalizer ==
    /\ pc = "removeFinalizer"
    /\ \/ Accepted(Absent) /\ ReturnDone
       \/ Rejected(Absent) /\ ReturnRequeue
    /\ LeavesOrphans
    /\ UNCHANGED <<kc, builder, ns, volume, pods, seen>>

-----------------------------------------------------------------------------
(* Creation: realm, its status and the finalizer, client, user.            *)

\* Mutant of NewRealm: its error is not looked at.
NewRealmIgnoringErrors ==
    /\ pc = "identity" /\ ~devenv.realm
    /\ \/ NewRealmOk /\ UNCHANGED budget
       \/ NewRealmError /\ Spend("fault")
    /\ Goto("statusRealm")
    /\ UNCHANGED <<crLog, local, cluster>>

NewRealm ==
    /\ pc = "identity" /\ ~devenv.realm
    /\ \/ NewRealmOk /\ Goto("statusRealm") /\ UNCHANGED <<local, budget>>
       \/ NewRealmError /\ Spend("fault") /\ ReturnRequeue
    /\ UNCHANGED <<crLog, cluster>>

StatusRealm ==
    LET new == [devenv EXCEPT !.realm = TRUE]
    IN /\ pc = "statusRealm"
       /\ \/ Accepted(new) /\ Keep(new) /\ Goto("setFinalizer")
          \/ Rejected(new) /\ ReturnRequeue
       /\ UNCHANGED <<kc, cluster>>

SetFinalizer ==
    LET new == [devenv EXCEPT !.finalizer = TRUE]
    IN /\ pc = "setFinalizer"
       /\ \/ Accepted(new) /\ Keep(new) /\ Goto("createClient")
          \/ Rejected(new) /\ ReturnRequeue
       /\ UNCHANGED <<kc, cluster>>

\* Mutant of NeedsUser: the realm's field is looked at.
NeedsUserOfRealm == ~devenv.realm

NeedsUser == ~devenv.user

\* Runs in every reconcile.  An error of GetClients leaves an empty list, and
\* an empty list is tried again in two seconds; an error of GetClientSecret is
\* logged and then the missing answer is dereferenced, which ends the process.
CreateClient ==
    /\ pc = "createClient" \/ (pc = "identity" /\ devenv.realm)
    /\ \/ CreateClientOk
          /\ Goto(IF NeedsUser THEN "createUser" ELSE "namespace")
          /\ UNCHANGED <<local, crLog, budget, seen>>
       \/ CreateClientNotFound /\ ReturnRequeue /\ UNCHANGED <<crLog, budget, seen>>
       \/ CreateClientError /\ Spend("fault") /\ ReturnRequeue /\ UNCHANGED <<crLog, seen>>
       \/ CreateClientOk /\ Spend("fault") /\ ReturnAfter /\ UNCHANGED <<crLog, seen>>
       \/ CreateClientOk /\ Spend("fault") /\ Restarted /\ seen' = Current
    /\ UNCHANGED <<builder, ns, volume, pods, orphans>>

\* Mutant of CreateUser: the status is written before the password is set.
CreateUserShownEarly ==
    /\ pc = "createUser"
    /\ \/ CreateUserOk /\ Goto("statusUser") /\ UNCHANGED <<local, budget>>
       \/ CreateUserRefused /\ ReturnRequeue /\ UNCHANGED budget
       \/ CreateUserError /\ Spend("fault") /\ ReturnRequeue
    /\ UNCHANGED <<crLog, cluster>>

CreateUser ==
    /\ pc = "createUser"
    /\ \/ CreateUserOk /\ Goto("setPassword") /\ UNCHANGED <<local, budget>>
       \/ CreateUserRefused /\ ReturnRequeue /\ UNCHANGED budget
       \/ CreateUserError /\ Spend("fault") /\ ReturnRequeue
    /\ UNCHANGED <<crLog, cluster>>

\* Mutant of SetPassword: its error is not looked at.
SetPasswordIgnoringErrors ==
    /\ pc = "setPassword"
    /\ \/ SetPasswordOk /\ UNCHANGED budget
       \/ SetPasswordRefused /\ UNCHANGED budget
       \/ SetPasswordError /\ Spend("fault")
    /\ Goto("statusUser")
    /\ UNCHANGED <<crLog, local, cluster>>

SetPassword ==
    /\ pc = "setPassword"
    /\ \/ SetPasswordOk /\ Goto("statusUser") /\ UNCHANGED <<local, budget>>
       \/ SetPasswordRefused /\ ReturnRequeue /\ UNCHANGED budget
       \/ SetPasswordError /\ Spend("fault") /\ ReturnRequeue
    /\ UNCHANGED <<crLog, cluster>>

\* Mutant of StatusUser: the user's name is not written back.
StatusUserLocally ==
    /\ pc = "statusUser"
    /\ ReturnRequeue
    /\ UNCHANGED <<crLog, budget, kc, cluster>>

\* Accepted or not, the request comes back at once: Requeue, or the error.
StatusUser ==
    LET new == [devenv EXCEPT !.user = TRUE]
    IN /\ pc = "statusUser"
       /\ Accepted(new) \/ Rejected(new)
       /\ ReturnRequeue
       /\ UNCHANGED <<kc, cluster>>

\* Everything below "status update" in Reconcile, as far as Identity sees it.
RestOfReconcile ==
    /\ pc = "namespace"
    /\ ReturnDone \/ ReturnAfter \/ ReturnRequeue
    /\ \/ UNCHANGED pods
       \/ hasBuilder /\ CanCreate("build") /\ CreatePod("build")
    /\ UNCHANGED <<crLog, budget, kc, builder, ns, volume, seen, orphans>>

-----------------------------------------------------------------------------

\* Lines 109-164, whatever the DevEnv is.
Reads == (GetFindsNothing \/ GetFindsDevEnv \/ GetBuilder) /\ UNCHANGED kc

\* Lines 126-148, for a DevEnv that is marked for deletion.
TakesDown == DeleteRealm \/ DeleteBuildPod \/ RemoveFinalizer

\* Lines 166-214: realm, finalizer, client and user.
Identifies ==
    \/ NewRealm \/ StatusRealm \/ SetFinalizer
    \/ CreateClient \/ CreateUser \/ SetPassword \/ StatusUser

Reconcile == Reads \/ TakesDown \/ Identifies \/ RestOfReconcile

Next ==
    \/ Reconcile
    \/ Crash /\ UNCHANGED kc
    \/ Surroundings /\ UNCHANGED kc

\* The worker runs what is queued, informers and timers deliver, and a missing
\* Builder is a matter of the administrators: no fairness for it.
Fairness ==
    /\ WF_vars(Reconcile)
    /\ WF_vars(DevEnvEvent /\ UNCHANGED <<cluster, kc>>)
    /\ WF_vars(ObjectEvent /\ UNCHANGED kc)
    /\ WF_vars(Delay /\ UNCHANGED kc)
    /\ WF_vars(Kubelet /\ UNCHANGED kc)

Spec     == Init /\ [][Next]_vars
FairSpec == Spec /\ Fairness

-----------------------------------------------------------------------------
(* Properties.                                                             *)

\* An object that is protected by the finalizer goes away only after its realm
\* has been deleted, however stale the copy was that Reconcile worked on and
\* whichever call failed (Reconcile, the deletion branch).
RealmGoesFirst ==
    Stored.exists /\ Stored.finalizer /\ ~Stored'.exists => "realm" \notin kc

FinalizerGuardsRealm == [][RealmGoesFirst]_vars

\* The realm of a DevEnv that nobody deleted is never taken away: not by a
\* reconcile that still works on the previous object of the same name, nor
\* after a crash (the deletion branch, and the order of NewRealm and status).
LiveRealmStays ==
    Stored.exists /\ Stored.realm /\ ~Stored.deleting => "realm" \in kc

\* A DevEnv whose status names a user can be logged in to: the user is there
\* with the initial password set, whatever failed before (CreateUser).
RecordedUserCanLogIn ==
    Stored.exists /\ Stored.user /\ ~Stored.deleting
        => {"user", "password"} \subseteq kc

Life == INSTANCE Lifecycle WITH
    life    <- IF ~Stored.exists THEN "none" ELSE IF Stored.deleting THEN "marked" ELSE "live",
    guarded <- Stored.exists /\ Stored.finalizer,
    shown   <- {field \in {"realm", "user"} : Stored.exists /\ Stored[field]},
    backing <- kc

\* Seen from outside, through stale copies, retries and crashes of Reconcile, a
\* DevEnv does what Lifecycle.tla promises.
ImplementsLifecycle == Life!Spec

\* No realm is left in Keycloak for a DevEnv that is gone.
NoRealmLeft == Settled /\ ~Stored.exists => kc = {}

\* A DevEnv that is marked as deleted eventually goes away.
DeletionCompletes == Stored.deleting ~> ~Stored.exists

\* A DevEnv eventually gets its user, unless it is deleted or its Builder is
\* missing.
IdentityCompletes ==
    Stored.exists /\ ~Stored.deleting
        ~> \/ Stored.user \/ Stored.deleting \/ ~Stored.exists
           \/ Stored.builderName /\ builder = "absent"

=============================================================================
