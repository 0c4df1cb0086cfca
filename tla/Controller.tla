----------------------------- MODULE Controller -----------------------------
(***************************************************************************)
(* The DevEnv object in the API server, the informer that copies it into   *)
(* the operator's cache, the work queue and the single worker that runs    *)
(* DevEnvReconciler.Reconcile.                                             *)
(*                                                                         *)
(* The manager's client reads from the cache and writes to the API server. *)
(* crLog holds the versions of the object from the one in the cache (the   *)
(* first) to the one in the API server (the last): a write appends, the    *)
(* informer drops the head.  A write that carries an older resourceVersion *)
(* than the stored one is refused, so all the model keeps of the version   *)
(* in the worker's copy is whether it is still the stored one (fresh).     *)
(***************************************************************************)
EXTENDS Integers, Sequences

CONSTANTS
    MaxLag,           \* bound on Len(crLog): how far the informer may be behind
    Budget,           \* bound on the disturbances of each kind in a behaviour
    Lagging,          \* informers that may be behind when a reconcile starts
    DelaysOutlastLag  \* TRUE: a RequeueAfter timer outlasts the informers' lag

VARIABLES
    crLog,       \* versions of the DevEnv: Head is cached, the last is stored
    devenv,      \* the worker's copy of the DevEnv (local variable devenv)
    fresh,       \* the copy's resourceVersion is the stored one
    usedBuilder, \* the worker's copy of the Builder (local variable builder)
    pc,          \* where the worker stands in Reconcile, "idle" between calls
    queued,      \* the DevEnv's request is in the work queue
    timer,       \* a RequeueAfter of the request is pending
    budget       \* disturbances left

local == <<devenv, fresh, usedBuilder>>
controllerVars == <<crLog, devenv, fresh, usedBuilder, pc, queued, timer, budget>>

-----------------------------------------------------------------------------
(* The DevEnv object.                                                      *)

BuildPhaseInitial             == ""
BuildPhaseBuilding            == "Building"
BuildPhaseWaitForInitializion == "WaitForInitializion"
BuildPhaseInitializing        == "Initializing"
BuildPhaseRunning             == "Running"

BuildPhase == {BuildPhaseInitial, BuildPhaseBuilding,
               BuildPhaseWaitForInitializion, BuildPhaseInitializing,
               BuildPhaseRunning}

\* Spec.BuilderName, Status.Realm and Status.User are kept as "is set".
DevEnvObject == [exists : BOOLEAN, builderName : BOOLEAN, realm : BOOLEAN,
                 user : BOOLEAN, build : BuildPhase, finalizer : BOOLEAN,
                 deleting : BOOLEAN, uid : Nat]

Absent == [exists |-> FALSE, builderName |-> FALSE, realm |-> FALSE,
           user |-> FALSE, build |-> BuildPhaseInitial, finalizer |-> FALSE,
           deleting |-> FALSE, uid |-> 0]

\* Every object has its own UID; the creations that are left number them.
Created(hasName) == [Absent EXCEPT !.exists = TRUE, !.builderName = hasName,
                                   !.uid = budget["create"]]

\* The Builder that Spec.BuilderName names: not there, there without any
\* container in its pod template, or usable.
BuilderStates == {"absent", "empty", "ok"}

Cached == Head(crLog)
Stored == crLog[Len(crLog)]

Disturbances == {"create", "delete", "edit", "fault", "crash", "event",
                 "nsdelete", "podloss", "builder"}

Informers == {"devenv", "namespace", "pvc", "pods"}

ASSUME ConstantsAssumption ==
    /\ MaxLag \in Nat \ {0}
    /\ Budget \in [Disturbances -> Nat]
    /\ Lagging \subseteq Informers
    /\ DelaysOutlastLag \in BOOLEAN

\* The points of Reconcile between two calls that other actors can observe.
Labels == {"idle", "deleteRealm", "deleteBuildPod", "removeFinalizer",
           "getBuilder", "identity", "statusRealm", "setFinalizer",
           "createClient", "createUser", "setPassword", "statusUser",
           "namespace", "resetStatus", "ensure", "build", "replaceBuildPod",
           "statusBuilding", "dropBuildPod", "init", "replaceInitPod",
           "statusInitializing", "dropInitPod", "ide"}

ControllerTypeOK ==
    /\ crLog \in Seq(DevEnvObject) /\ crLog # <<>>
    /\ devenv \in DevEnvObject
    /\ fresh \in BOOLEAN
    /\ usedBuilder \in BuilderStates
    /\ pc \in Labels
    /\ queued \in BOOLEAN
    /\ timer \in BOOLEAN
    /\ budget \in [Disturbances -> Nat]

Spend(d) == budget[d] > 0 /\ budget' = [budget EXCEPT ![d] = @ - 1]

-----------------------------------------------------------------------------
(* What a call of Reconcile does to the work queue when it goes on or      *)
(* returns.  On return the local variables go out of scope.                *)

Goto(label) == pc' = label /\ UNCHANGED <<queued, timer>>

Forget == devenv' = Absent /\ fresh' = FALSE /\ usedBuilder' = "absent"

\* return Result{}, nil
ReturnDone == pc' = "idle" /\ Forget /\ UNCHANGED <<queued, timer>>

\* return Result{}, err and return Result{Requeue: true}, nil: both are put
\* back by the rate limiter, after a delay too short to wait for a cache.
ReturnRequeue == pc' = "idle" /\ Forget /\ queued' = TRUE /\ UNCHANGED timer

\* return Result{RequeueAfter: ...}, nil
ReturnAfter == pc' = "idle" /\ Forget /\ timer' = TRUE /\ UNCHANGED queued

-----------------------------------------------------------------------------
(* Writes of the worker: Status().Update and Update.                       *)

\* The write is accepted.  One that changes nothing makes no new version.
Accepted(new) ==
    /\ fresh
    /\ new = Stored \/ Len(crLog) < MaxLag
    /\ crLog' = IF new = Stored THEN crLog ELSE Append(crLog, new)
    /\ UNCHANGED budget

\* The worker sees an error: a conflict, a request that did not arrive, or an
\* answer that did not come back from a write that was carried out.
Rejected(new) ==
    \/ ~fresh /\ UNCHANGED <<crLog, budget>>
    \/ Spend("fault") /\ UNCHANGED crLog
    \/ Spend("fault") /\ fresh /\ new # Stored /\ Len(crLog) < MaxLag
       /\ crLog' = Append(crLog, new)

\* After an accepted write the worker's copy is the stored object.
Keep(new) == devenv' = new /\ fresh' = TRUE /\ UNCHANGED usedBuilder

WithBuild(phase) == [devenv EXCEPT !.build = phase]
SetDevEnvStatus(phase)      == Accepted(WithBuild(phase))
SetDevEnvStatusFails(phase) == Rejected(WithBuild(phase))

-----------------------------------------------------------------------------
(* The other actors: users of the API, the informer, the queue's timer and *)
(* the process itself.                                                     *)

ForeignWrite(new) ==
    /\ Len(crLog) < MaxLag
    /\ crLog' = Append(crLog, new)
    /\ fresh' = FALSE
    /\ UNCHANGED <<devenv, usedBuilder, pc, queued, timer>>

UserCreates ==
    /\ ~Stored.exists
    /\ Spend("create")
    /\ \E b \in BOOLEAN : ForeignWrite(Created(b))

\* Without a finalizer the object is gone at once, with one it is marked.
UserDeletes ==
    /\ Stored.exists /\ ~Stored.deleting
    /\ Spend("delete")
    /\ ForeignWrite(IF Stored.finalizer THEN [Stored EXCEPT !.deleting = TRUE]
                                        ELSE Absent)

\* Any write of the object by somebody else; it may change BuilderName.
UserEdits ==
    /\ Stored.exists
    /\ Spend("edit")
    /\ \E b \in BOOLEAN : ForeignWrite([Stored EXCEPT !.builderName = b])

\* The informer moves the cache on by one version and queues the request.
DevEnvEvent ==
    /\ Len(crLog) > 1
    /\ crLog' = Tail(crLog)
    /\ queued' = TRUE
    /\ UNCHANGED <<devenv, fresh, usedBuilder, pc, timer, budget>>

\* A resync, or an event of an owned object that the model does not carry.
OtherEvent ==
    /\ Spend("event")
    /\ Stored.exists
    /\ queued' = TRUE
    /\ UNCHANGED <<crLog, devenv, fresh, usedBuilder, pc, timer>>

TimerFires ==
    /\ timer
    /\ timer' = FALSE
    /\ queued' = TRUE
    /\ UNCHANGED <<crLog, devenv, fresh, usedBuilder, pc, budget>>

\* The process starts again: queue and local variables are lost, the cache is
\* listed afresh, and every DevEnv in the list is queued.
Restarted ==
    /\ pc' = "idle"
    /\ Forget
    /\ crLog' = <<Stored>>
    /\ queued' = Stored.exists
    /\ timer' = FALSE

=============================================================================
