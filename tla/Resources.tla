------------------------------ MODULE Resources ------------------------------
(***************************************************************************)
(* The Kubernetes objects that Reconcile gets or creates one after the     *)
(* other, for several DevEnvs that share the reconciler: its worker, its   *)
(* queue and the fields of the struct DevEnvReconciler.                    *)
(*                                                                         *)
(* Here a DevEnv is an identity, its UID: the realm and the client exist   *)
(* as long as it does (Identity.tla), its namespace exists and Status.Build*)
(* is Running (Provisioning.tla).  The finalizer lets a DevEnv go only     *)
(* between two reconciles.  The client of each DevEnv has a secret of its  *)
(* own, so secrets are numbered like UIDs.                                 *)
(***************************************************************************)
EXTENDS Naming

CONSTANTS
    DevEnvs,        \* names of the DevEnvs
    Steps,          \* the kinds that an instance keeps, in Reconcile's order
    Addresses,      \* addresses that an IDE pod may get, 0 is none
    Lagging,        \* kinds of which the informer may be behind
    DeleteVolumes,  \* Spec.DeleteVolumes: claims are owned
    Budget          \* bound on the disturbances of each kind in a behaviour

VARIABLES
    uid,     \* UID of the DevEnv of a name, 0 when there is none
    objects, \* what the API server has under a key
    seen,    \* what the operator's cache has
    current, \* the DevEnv that the worker is on
    todo,    \* the steps of Reconcile that are left
    oauthClientSecret, DevEnvPodIP,  \* fields of DevEnvReconciler
    queue,   \* requests in the work queue
    overlap, \* the DevEnv was created while objects of another one were left
    budget   \* disturbances left

fields == <<oauthClientSecret, DevEnvPodIP>>
worker == <<current, todo, fields>>
vars == <<uid, objects, seen, worker, queue, overlap, budget>>

-----------------------------------------------------------------------------

Order == <<"serviceAccount", "roleBinding", "clusterRoleBinding", "vmClaim",
           "homeClaim", "dockerClaim", "ide", "service", "endpoints",
           "uiIngress", "oauthIngress", "proxyPod", "proxySecret", "proxyService">>

Position(kind) == CHOOSE p \in DOMAIN Order : Order[p] = kind

Kinds        == {Steps[i] : i \in DOMAIN Steps}
key          == [kind \in Kinds |-> [d \in DevEnvs |-> Key(kind, d)]]
Keys         == {key[kind][d] : kind \in Kinds, d \in DevEnvs}
Disturbances == {"create", "delete", "fault", "update", "crash", "podloss", "event"}

ASSUME ResourcesAssumption ==
    /\ DevEnvs \subseteq DevEnvNames \ {<<>>}
    /\ \A m, n \in DevEnvs : ~Clash(m, n)
    /\ Steps \in Seq(AllKinds \ {"build", "init"})
    /\ \A i, j \in DOMAIN Steps : i < j => Position(Steps[i]) < Position(Steps[j])
    /\ {"ide", "endpoints", "proxyPod", "proxySecret"} \subseteq Kinds
    /\ Addresses \subseteq Nat \ {0}
    /\ Lagging \subseteq Kinds
    /\ DeleteVolumes \in BOOLEAN
    /\ Budget \in [Disturbances -> Nat]

NoOne == <<>>

\* An object with the owner reference that SetControllerReference gave it: the
\* name and the UID of a DevEnv.  val is the address of an IDE pod or in the
\* endpoints, the client secret in the proxy's secret or in a started proxy.
Object == [there : BOOLEAN, owner : DevEnvs \cup {NoOne}, uid : Nat, val : Nat]

Nothing == [there |-> FALSE, owner |-> NoOne, uid |-> 0, val |-> 0]

TypeOK ==
    /\ uid \in [DevEnvs -> Nat]
    /\ objects \in [Keys -> Object]
    /\ seen \in [Keys -> Object]
    /\ current \in DevEnvs \cup {NoOne}
    /\ todo \in Seq(Kinds)
    /\ current = NoOne <=> todo = <<>>
    /\ oauthClientSecret \in Nat
    /\ DevEnvPodIP \in Nat
    /\ queue \subseteq DevEnvs
    /\ overlap \in [DevEnvs -> BOOLEAN]
    /\ budget \in [Disturbances -> Nat]

Init ==
    /\ uid = [d \in DevEnvs |-> 0]
    /\ objects = [k \in Keys |-> Nothing]
    /\ seen = objects
    /\ current = NoOne /\ todo = <<>>
    /\ oauthClientSecret = 0 /\ DevEnvPodIP = 0
    /\ queue = {}
    /\ overlap = [d \in DevEnvs |-> FALSE]
    /\ budget = Budget

Spend(what) == budget[what] > 0 /\ budget' = [budget EXCEPT ![what] = @ - 1]

InSync  == seen = objects
Settled == current = NoOne /\ queue = {} /\ InSync

-----------------------------------------------------------------------------
(* What a change of an object sets off.                                    *)

\* Mutant of Owners: the controller does not watch what it makes.
OwnersUnwatched(object) == {}

\* The watches of SetupWithManager map an object to the owner's name.
Owners(object) == {object.owner} \ {NoOne}

\* The event of a kind that does not lag arrives with the change.  called is
\* what the worker puts back into the queue by itself.
Changes(kind, d, new, called) ==
    LET k == key[kind][d]
    IN /\ objects' = [objects EXCEPT ![k] = new]
       /\ IF kind \in Lagging
          THEN seen' = seen /\ queue' = queue \cup called
          ELSE /\ seen' = [seen EXCEPT ![k] = new]
               /\ queue' = queue \cup called \cup Owners(objects[k]) \cup Owners(new)

Event(k) ==
    /\ seen[k] # objects[k]
    /\ seen' = [seen EXCEPT ![k] = objects[k]]
    /\ queue' = queue \cup Owners(seen[k]) \cup Owners(objects[k])
    /\ UNCHANGED <<uid, objects, worker, overlap, budget>>

-----------------------------------------------------------------------------
(* Reconcile.                                                              *)

\* Mutant of Starts: the client's secret is fetched once for the reconciler.
StartsWithOldSecret(d) ==
    /\ current = NoOne /\ d \in queue
    /\ queue' = queue \ {d}
    /\ IF uid[d] = 0 THEN UNCHANGED worker
       ELSE /\ current' = d /\ todo' = Steps
            /\ oauthClientSecret' = IF oauthClientSecret = 0 THEN uid[d] ELSE oauthClientSecret
            /\ UNCHANGED DevEnvPodIP
    /\ UNCHANGED <<uid, objects, seen, overlap, budget>>

\* A DevEnv that is gone is forgotten; for one that is there initStruct sets
\* the names and CreateClient returns the secret of its client.
Starts(d) ==
    /\ current = NoOne /\ d \in queue
    /\ queue' = queue \ {d}
    /\ IF uid[d] = 0 THEN UNCHANGED worker
       ELSE /\ current' = d /\ todo' = Steps
            /\ oauthClientSecret' = uid[d]
            /\ UNCHANGED DevEnvPodIP
    /\ UNCHANGED <<uid, objects, seen, overlap, budget>>

\* An error of CreateClient: the field is cleared, the request stays.
StartFails(d) ==
    /\ current = NoOne /\ d \in queue /\ uid[d] # 0
    /\ Spend("fault")
    /\ oauthClientSecret' = 0
    /\ UNCHANGED <<uid, objects, seen, current, todo, DevEnvPodIP, queue, overlap>>

\* On to the next object, or to the return at the end.
Advance ==
    /\ todo' = Tail(todo)
    /\ current' = IF Tail(todo) = <<>> THEN NoOne ELSE current

\* return Result{}, err and return Result{Requeue: true}, nil
Return == current' = NoOne /\ todo' = <<>>

\* Mutant of HasOwner: the secret is made without an owner.
HasOwnerButSecret(kind) ==
    kind \notin {"vmClaim", "homeClaim", "dockerClaim", "proxySecret"} \/ DeleteVolumes

HasOwner(kind) == kind \notin {"vmClaim", "homeClaim", "dockerClaim"} \/ DeleteVolumes

\* What the constructors of k8s.go put into an object.
New(kind) ==
    [there |-> TRUE,
     owner |-> IF HasOwner(kind) THEN current ELSE NoOne,
     uid   |-> IF HasOwner(kind) THEN uid[current] ELSE 0,
     val   |-> CASE kind = "endpoints"   -> DevEnvPodIP
                 [] kind = "proxySecret" -> oauthClientSecret
                 [] OTHER                -> 0]

View(kind) == seen[key[kind][current]]

\* r.Get finds it, and nobody looks what it is.
Found(kind) ==
    /\ kind \notin {"ide", "endpoints"} /\ View(kind).there
    /\ Advance
    /\ UNCHANGED <<uid, objects, seen, fields, queue, overlap, budget>>

\* r.Get finds nothing and r.Create makes it.  After the IDE pod the reconcile
\* starts over, to get its address.
Creates(kind) ==
    /\ ~View(kind).there /\ ~objects[key[kind][current]].there
    /\ IF kind = "ide" THEN Return ELSE Advance
    /\ Changes(kind, current, New(kind), IF kind = "ide" THEN {current} ELSE {})
    /\ UNCHANGED <<uid, fields, overlap, budget>>

\* Every error of r.Create ends the reconcile: AlreadyExists, which the cache
\* did not know of; a request that did not arrive; an answer that was lost.
CreateFails(kind) ==
    /\ ~View(kind).there
    /\ Return
    /\ \/ /\ objects[key[kind][current]].there
          /\ queue' = queue \cup {current}
          /\ UNCHANGED <<objects, seen, budget>>
       \/ /\ Spend("fault")
          /\ queue' = queue \cup {current}
          /\ UNCHANGED <<objects, seen>>
       \/ /\ ~objects[key[kind][current]].there /\ Spend("fault")
          /\ Changes(kind, current, New(kind), {current})
    /\ UNCHANGED <<uid, fields, overlap>>

\* Mutant of IdeFound: the address is taken as it is.
IdeFoundAnyhow ==
    /\ View("ide").there
    /\ DevEnvPodIP' = View("ide").val
    /\ Advance
    /\ UNCHANGED <<uid, objects, seen, oauthClientSecret, queue, overlap, budget>>

\* The IDE pod is there: without an address the reconcile starts over.
IdeFound ==
    /\ View("ide").there
    /\ DevEnvPodIP' = View("ide").val
    /\ IF View("ide").val = 0 THEN Return /\ queue' = queue \cup {current}
                              ELSE Advance /\ UNCHANGED queue
    /\ UNCHANGED <<uid, objects, seen, oauthClientSecret, overlap, budget>>

\* Mutant of EndpointsFound: what is there is taken for right.
EndpointsNotCompared ==
    /\ View("endpoints").there
    /\ Advance
    /\ UNCHANGED <<uid, objects, seen, fields, queue, overlap, budget>>

\* Endpoints that the cache shows with another address are written anew, with
\* the owner reference of the DevEnv at hand; the API server takes an Update of
\* endpoints that are gone for a Create.  An error is only logged.
EndpointsFound ==
    /\ View("endpoints").there
    /\ Advance
    /\ \/ /\ View("endpoints").val = DevEnvPodIP
          /\ UNCHANGED <<objects, seen, queue, budget>>
       \/ /\ View("endpoints").val # DevEnvPodIP
          /\ Changes("endpoints", current, New("endpoints"), {})
          /\ UNCHANGED budget
       \/ /\ View("endpoints").val # DevEnvPodIP
          /\ Spend("update")
          /\ UNCHANGED <<objects, seen, queue>>
    /\ UNCHANGED <<uid, fields, overlap>>

Step ==
    /\ current # NoOne
    /\ \/ \E kind \in {Head(todo)} : Found(kind) \/ Creates(kind) \/ CreateFails(kind)
       \/ Head(todo) = "ide" /\ IdeFound
       \/ Head(todo) = "endpoints" /\ EndpointsFound

Crash ==
    /\ Spend("crash")
    /\ current' = NoOne /\ todo' = <<>>
    /\ oauthClientSecret' = 0 /\ DevEnvPodIP' = 0
    /\ seen' = objects
    /\ queue' = {d \in DevEnvs : uid[d] # 0}
    /\ UNCHANGED <<uid, objects, overlap>>

-----------------------------------------------------------------------------
(* Users, kubelet and the garbage collector.                               *)

UserCreates(d) ==
    /\ uid[d] = 0 /\ Spend("create")
    /\ uid' = [uid EXCEPT ![d] = budget["create"]]
    /\ overlap' = [overlap EXCEPT ![d] = \E k \in Keys : objects[k].owner = d]
    /\ queue' = queue \cup {d}
    /\ UNCHANGED <<objects, seen, worker>>

\* The reconcile that removes the finalizer, for a user who deleted the DevEnv.
Leaves(d) ==
    /\ uid[d] # 0 /\ current = NoOne /\ Spend("delete")
    /\ uid' = [uid EXCEPT ![d] = 0]
    /\ overlap' = [overlap EXCEPT ![d] = FALSE]
    /\ UNCHANGED <<objects, seen, worker, queue>>

OtherEvent(d) ==
    /\ uid[d] # 0 /\ Spend("event")
    /\ queue' = queue \cup {d}
    /\ UNCHANGED <<uid, objects, seen, worker, overlap>>

\* An object whose owner is gone is collected.
Orphan(kind, d) ==
    LET o == objects[key[kind][d]]
    IN o.owner # NoOne /\ o.uid # uid[o.owner]

Collect(kind, d) ==
    /\ Orphan(kind, d)
    /\ Changes(kind, d, Nothing, {})
    /\ UNCHANGED <<uid, worker, overlap, budget>>

\* No two pods have one address at one time.
IdeGetsAddress(d) ==
    /\ objects[key["ide"][d]].there /\ objects[key["ide"][d]].val = 0
    /\ \E ip \in Addresses :
           /\ \A e \in DevEnvs : objects[key["ide"][e]].val # ip
           /\ Changes("ide", d, [objects[key["ide"][d]] EXCEPT !.val = ip], {})
    /\ UNCHANGED <<uid, worker, overlap, budget>>

\* The proxy reads the secret when its container starts, and never again.
ProxyStarts(d) ==
    /\ objects[key["proxyPod"][d]].there /\ objects[key["proxyPod"][d]].val = 0
    /\ objects[key["proxySecret"][d]].there
    /\ Changes("proxyPod", d,
               [objects[key["proxyPod"][d]] EXCEPT !.val = objects[key["proxySecret"][d]].val], {})
    /\ UNCHANGED <<uid, worker, overlap, budget>>

Kubelet   == \E d \in DevEnvs : IdeGetsAddress(d) \/ ProxyStarts(d)
Collector == \E kind \in Kinds, d \in DevEnvs : Collect(kind, d)

PodLost(kind, d) ==
    /\ kind \in {"ide", "proxyPod"} /\ objects[key[kind][d]].there
    /\ Spend("podloss")
    /\ Changes(kind, d, Nothing, {})
    /\ UNCHANGED <<uid, worker, overlap>>

Next ==
    \/ Step \/ Crash
    \/ \E k \in Keys : Event(k)
    \/ \E d \in DevEnvs :
           \/ Starts(d) \/ StartFails(d) \/ UserCreates(d) \/ Leaves(d) \/ OtherEvent(d)
           \/ \E kind \in Kinds : PodLost(kind, d)
    \/ Kubelet \/ Collector

\* The work queue is first in, first out: every request has its turn, however
\* often another one is put back.
Fairness ==
    /\ WF_vars(Step)
    /\ \A d \in DevEnvs : SF_vars(Starts(d))
    /\ WF_vars(\E k \in Keys : Event(k))
    /\ WF_vars(Kubelet)
    /\ WF_vars(Collector)

Spec     == Init /\ [][Next]_vars
FairSpec == Spec /\ Fairness

-----------------------------------------------------------------------------
(* Properties.                                                             *)

\* Whatever DevEnvs come and go, the object under a name that was derived for
\* one of them is not owned by another one (initStruct and the constructors).
OwnObjects ==
    \A kind \in Kinds, d \in DevEnvs : objects[key[kind][d]].owner \in {d, NoOne}

\* The fields of DevEnvReconciler are shared by all DevEnvs and outlive the
\* reconcile that set them; still a secret is made from the client of the very
\* DevEnv that owns it, and not from that of another or of a predecessor.
OwnSecret ==
    \A d \in DevEnvs :
        LET secret == objects[key["proxySecret"][d]]
        IN secret.there => secret.val = secret.uid

\* When the operator is through, what leads users to the IDE leads to the pod
\* that is there (lines 457-504).
RoutesAreCurrent ==
    Settled => \A d \in DevEnvs :
        LET ide == objects[key["ide"][d]]
        IN uid[d] # 0 /\ ide.there /\ ide.val # 0
               => objects[key["endpoints"][d]].val = ide.val

\* Endpoints are only written with an address: not before the pod has one, nor
\* from the field as a restart or a reconcile of another DevEnv left it.  The
\* comparison at line 498 indexes their first address (lines 461-465).
EndpointsHaveAddress ==
    \A d \in DevEnvs :
        LET endpoints == objects[key["endpoints"][d]]
        IN endpoints.there => endpoints.val # 0

\* The proxy of a DevEnv logs in with the secret of the DevEnv's client, also
\* after lost pods, failed calls and crashes, unless the DevEnv was created
\* before the objects of its predecessor were collected.
ProxyLogsIn ==
    Settled => \A d \in DevEnvs :
        LET proxy == objects[key["proxyPod"][d]]
        IN uid[d] # 0 /\ ~overlap[d] /\ proxy.val # 0 => proxy.val = uid[d]

Complete(d) ==
    /\ uid[d] # 0
    /\ \A kind \in Kinds :
           /\ objects[key[kind][d]].there
           /\ objects[key[kind][d]].uid \in {0, uid[d]}
    /\ objects[key["ide"][d]].val # 0
    /\ objects[key["endpoints"][d]].val = objects[key["ide"][d]].val
    /\ objects[key["proxyPod"][d]].val # 0

\* Every DevEnv gets all its objects, with the endpoints on its pod and its
\* proxy started, also when it finds those of a predecessor that are collected
\* one by one behind its back, and when another DevEnv keeps the worker busy.
GetsComplete == \A d \in DevEnvs : uid[d] # 0 ~> Complete(d) \/ uid[d] = 0

=============================================================================
