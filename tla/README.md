# A verification project for the c-n-d-e operator

The operator (`src/controllers`, `src/oauth`, `src/api`) turns a `DevEnv`
resource into a running in-cluster IDE: a Keycloak realm with client and user, a
namespace with volumes, an image build, a pod that fills a volume, the IDE pod,
and an OAuth proxy in front of it. All of that is one function,
`DevEnvReconciler.Reconcile`, that is called again and again, works on cached
copies, may fail after each of its calls, and keeps what it has achieved in
`DevEnv.Status`. The modules here model that function call by call, together
with the parties it races with.

## 1. Inventory

| Component | State | Operations | Modelled in |
|---|---|---|---|
| Reconcile, identity (`devenv_controller.go:109-214`) | `Status.Realm`, `Status.User`, finalizer | delete realm, delete build pod, remove finalizer; new realm, client, user, status writes | `Identity` |
| Reconcile, provisioning (219-465) | `Status.Build` | namespace, status reset, claims, build pod, init pod, IDE pod | `Provisioning` |
| Reconcile as a whole (109-582) | both | both, over one DevEnv and one cluster | `Operator` |
| Reconcile, objects and proxy (243-331, 445-582) | fields `oauthClientSecret`, `DevEnvPodIP`; endpoints, secret, ingresses | create if missing, update endpoints | `Resources` |
| derived names (`initStruct`, 602-662) | - | concatenation | `Naming` |
| Keycloak provider (`oauth/keycloak`) | realm, client, user, password in Keycloak | `NewRealm`, `DeleteRealm`, `CreateClient`, `CreateUser` | `Keycloak` |
| DevEnv and Builder API objects (`api/v1alpha1`) | spec, status, metadata | writes with a resourceVersion | `Controller`, `Cluster` |
| controller-runtime | work queue, caches, timers | events, requeue, restart | `Controller`, `Cluster`, `Resources` |
| Kubernetes objects (`k8s.go`, `build.go`) | pods, claims, namespace, owner references | built by Reconcile; changed by kubelet, namespace controller, garbage collector | `Cluster`, `Resources` |
| init script (`k8s.go:200-207`) | content of the VM volume | copy, mark, chown | `Cluster` |
| `main.go`, generated code, images, manifests | - | - | not modelled: no state of the operator's own |

**How they interact.** Reconcile reads DevEnv, Builder, namespace, claims and
pods from informer caches and writes to the API server; events of the DevEnv and
of owned objects, timers and errors put the request back into the queue. Users
write and delete the DevEnv at any time. Keycloak is called synchronously.
Kubelet moves pods, the namespace controller drains namespaces, the garbage
collector removes what a deleted DevEnv owned. All DevEnvs share one worker and
the fields of one `DevEnvReconciler`.

**What is hard.** Every read may be stale. Every call may fail before or after
it was carried out, and the process may end between any two. Realm and namespace
are written before the status that records them. A DevEnv may be deleted, and
created again under its name, in the middle of a reconcile, and the collector
takes the objects of the old one while Reconcile makes those of the new. A pod
may be lost in each phase. The build and init pods have no owner, so no event
reports them. The API object is protected by a resourceVersion; Keycloak, the
pods and the endpoints are not. What one reconcile leaves in the struct is there
when the next one, for another DevEnv, begins.

**What makes the components correct.** Identity: the realm is taken down before
the object goes, never while a live object relies on it, and whatever was
interrupted is made up for (for each of these one of the runs below shows a case
that the code misses). Provisioning: the phases move in order, nothing is
built over a finished volume, the IDE runs on a complete volume only, temporary
pods disappear, and the IDE comes back after losses. The whole: an IDE is made
for a user only, every DevEnv becomes usable, and one that goes leaves nothing.
Resources: an object belongs to the DevEnv it is named for, the secret is that
of its client, the endpoints end up at the pod, and every object comes and goes
with its DevEnv. `PROJECT.json` has the hazards at their lines with the
properties that stand for them.

## 2. Modules

- **`Controller`**: the DevEnv object, the informer, the queue and the worker.
  `crLog` is the list of versions from the cached one (first) to the stored one
  (last): a write appends, `DevEnvEvent` drops the head. Of the resourceVersion
  of the worker's copy only "is it still the stored one" is kept (`fresh`); of
  the UID, which incarnation it is. `Accepted`/`Rejected` are the outcomes of
  `Update` and `Status().Update`, with a rejected write that was carried out all
  the same. `ReturnDone`, `ReturnRequeue` and `ReturnAfter` are the three kinds
  of return.
- **`Keycloak`**: the outcomes of the provider's calls, as operators.
- **`Cluster`**: namespace, VM volume, the three pods, their caches (`seen`),
  owner references (`orphans`: what has an owner that is gone, by UID), and
  everybody who changes them; and the lines at which every reconcile starts. A
  pod that is deleted goes by stages (`Going`): its containers may still end,
  well or killed, and Reconcile may be shown that; an eviction leaves a pod
  Failed for good.
- **`Identity`** (`EXTENDS Cluster, Keycloak`): one action per call of lines
  109-214. The rest of Reconcile is one step that may leave a build pod.
- **`Lifecycle`**: the abstract specification of the identity part, without
  copies, caches, retries and crashes: what the status of a live DevEnv shows is
  in Keycloak, and a DevEnv with the finalizer leaves nothing there when it
  goes. `Identity!ImplementsLifecycle` is the refinement (`INSTANCE ... WITH`);
  `Operator` implements it through the same mapping.
- **`Provisioning`** (`EXTENDS Cluster`): one action per write of lines 219-465.
  A read of the cache and the branch it decides are one step with the write
  that follows; the write itself is a step of its own wherever another call
  came before it. Identity is taken as done, and no finalizer is set.
- **`Operator`** (`EXTENDS Identity, Provisioning`): `WholeReconcile`, the steps
  of both over the same variables, with neither stand-in for the other half.
  Its constant `PromptCollector` chooses the speed of the collector.
- **`Workspace`**: the abstract specification of the provisioning part, without
  namespaces, temporary pods, copies and caches: three variables, the phase, the
  disk and the IDE, of which each step changes one. The disk is filled before
  the DevEnv counts as running, what was built is only built again for another
  disk, and the disk is not taken from under an IDE.
  `Operator!ImplementsWorkspace` is the refinement.
- **`Naming`**: the names of `initStruct` as sequences of the words between the
  dashes, and `Key`, by which the API server tells objects apart.
- **`Resources`** (`EXTENDS Naming`): the sequence of Get and Create of lines
  243-331 and 445-582 for several DevEnvs at once, with the shared fields,
  owner references by UID, the endpoints and the proxy's secret. Here realm,
  namespace and phase are settled; a DevEnv is its UID. `Steps` selects the
  kinds that an instance keeps, in Reconcile's order: the others are created and
  found in the same way.
- **`MCIdentity`, `MCProvisioning`, `MCOperator`, `MCResources`**: budgets of
  disturbances, names and kinds for TLC.
- **`ClusterProofs`, `IdentityProofs`, `ProvisioningProofs`, `OperatorProofs`,
  `CalmProofs`, `NamingProofs`, `ResourcesProofs`**: lemmas, inductive
  invariants, theorems. Each extends the module it is about; `CalmProofs` is
  about `Operator` where nothing fails.

Definitions named `...IgnoringErrors`, `...Locally`, `...Early` and the like,
marked "Mutant of", are plausible mistakes. No action refers to them; each is
put in the place of the action it is named after to see a property fail.

Abstractions that matter: strings are "set" or "not set"; `Spec.BuilderName` may
be changed by anyone; the Builder is absent, without containers, or usable; a
volume is `none`, `empty`, `marked` (`.cnde` written, not complete) or `ready`.
`Identity`, `Provisioning` and `Operator` have one DevEnv and the incarnations
that follow it under the same name; of the objects of lines 243-331 they keep
the VM claim, and lines 467-582 are one step. One worker (the controller's
default). In `Resources` the secret of a client is numbered by the UID of its
DevEnv, for the client is made and deleted with its realm.

## 3. Runs

Disturbances are limited by `Budget` (creations, deletions, foreign writes,
faults, crashes, extra events, namespace deletions, pod losses, Builder
changes). A fault is a failed call, or a build or init pod that fails of itself;
a pod loss is somebody's deletion of a pod, or an eviction; a Builder that is
created late or put right costs nothing, only one that is lost or spoilt. In
`Resources` a refused Update of the endpoints has a budget of its own. `MaxLag` bounds the versions between cache and API
server; `Lagging` names the informers that may be behind when a reconcile
starts. Once a budget is used up the system is left to itself, which is what the
liveness properties are about. Deadlock checking is off: a DevEnv that is gone
or provisioned leaves nothing to do.

| Run | Setting | Shows |
|---|---|---|
| `identity_storm` | 2 incarnations, deletion, foreign write, 2 failed calls, crash; DevEnv and pod caches lag | `FinalizerGuardsRealm`, `LiveRealmStays`, `RecordedUserCanLogIn`, `ImplementsLifecycle` |
| `provisioning_storm` | 2 incarnations, deletion with garbage collection, crash; DevEnv and namespace caches lag | `PhaseOrder`, `FinishedVolumeKept`, `ProvisioningTypeOK` |
| `provisioning_recovery` | failed call or pod, crash, lost or evicted pod, lost namespace, Builder late, lost, spoilt and repaired | `IdeRuns` |
| `operator_calm` | 2 incarnations, a deletion and a namespace deletion at any moment, Builder late, prompt collector, no failure, no lag | `IdeOnlyForUser`, `IdeOnlyOnReadyVolume`, `IdeOnlyWhenRunning`, `NoStrayPods`, `GetsUsable`, `DeletionCompletes`, `EverythingGoes`, `ImplementsWorkspace` |
| `resources_storm` | 2 DevEnvs named `a` and `a-oauth`, deletion, lost pod, failed Create, failed Update; endpoints' cache lags | `OwnObjects`, `OwnSecret`, `ProxyLogsIn` |
| `resources_calm` | 2 creations of 2 DevEnvs, deletion, crash, extra event; IDE pod cache lags | `RoutesAreCurrent`, `EndpointsHaveAddress`, `GetsComplete` |
| `identity_realm_left` | one deletion | violates `NoRealmLeft` |
| `identity_stuck_deletion` | one deletion, one foreign write | violates `DeletionCompletes` |
| `identity_stuck_user` | one failed call | violates `IdentityCompletes` |
| `provisioning_lost_reset` | one namespace deletion, one crash | violates `NewNamespaceResetsStatus` |
| `provisioning_half_volume` | one lost pod | violates `RunningMeansReady` |
| `provisioning_skipped_build` | one change of `BuilderName` | violates `IdeOnlyWhenRunning` |

The storms look for safety under many disturbances at once (failed calls are not in
`provisioning_storm`, where they would triple the states, but its theorems hold
for any number of them); the calm runs establish
what holds when nothing fails, and the violations below them show the single
disturbance that breaks it: `DeletionCompletes` and `IdeOnlyWhenRunning` hold in
`operator_calm` and are lost to one foreign write. **Why the bounds are enough
to be of interest**: two incarnations are the least number at which a stale copy
can hit its successor, two DevEnvs the least at which one can leave something in
the reconciler's fields for the other, and two versions behind (`MaxLag` 2 or 3)
the least at which a cache shows neither the present nor the previous object;
each failure of a single call is repeated once in `identity_storm`, so that a
retry may fail too. `resources_storm` keeps a claim, the IDE pod, the endpoints,
the proxy pod and its secret: one kind of each way in which an object is made,
owned and used. What the storms check, and all safety that the calm runs check,
is also proved for every bound (section 5).

**Fairness.** `WF(Reconcile)`: the worker takes what is queued, and a call
returns. `WF` of the informers, timers and kubelet: watches deliver, timers
fire, pods start and stop, and so for the namespace controller and the
collector. In `Resources` the start of a reconcile has `SF` for each DevEnv: the
work queue is first in, first out, so that a request is served even if the
worker is busy with the other DevEnv again and again. No fairness for users,
administrators, failures or crashes.

**Assumptions on speed.** `DelaysOutlastLag`: a delay of 2 to 10 seconds outlasts
the informers' lag; the runs for liveness and quiet states use it, the storms do
not. `PromptCollector` (in `Operator`): the garbage collector is faster than the
start of a pod. Nothing guarantees that; it is a setting of `operator_calm` and a
hypothesis of four theorems, not a part of the specification. With
`PromptCollector = FALSE` TLC finds `IdeOnlyOnReadyVolume` violated: the claim of
a predecessor is collected when its successor is already `Running`, and is made
anew, empty, without a reset of the status.

**What is excepted.** `IdeRuns` is about behaviours in which Reconcile is never
shown a failed pod (`ShownFailure`): on one it gives up, by 379-381 and 438-440.
A pod that failed and was gone before Reconcile looked is not excepted. What
`operator_calm` says of the volume is for `DeleteVolumes`.

## 4. What the violations say

Each is a finding in `PROJECT.json`, with the line that says otherwise.

1. The finalizer is set after the realm exists; a DevEnv deleted in between
   leaves its realm (`identity_realm_left`).
2. `errors.IsNotFound` (line 129) never recognises an error of the Keycloak
   client: once the realm is deleted and the finalizer's removal is refused,
   the deletion can never end (`identity_stuck_deletion`).
3. `CreateUser` refuses an existing user; an interruption between it and the
   status write is permanent (`identity_stuck_user`).
4. The status reset after a new namespace is a second write and may be lost: the
   IDE starts on an empty volume (`provisioning_lost_reset`).
5. The init script writes its marker before `chown` (`provisioning_half_volume`).
6. Without a Builder, phase `Building` has no case: the IDE is started without
   build and initialization (`provisioning_skipped_build`).

More were met and are not runs:

- `Status.Realm` is written (178) before the finalizer (185) and guards both
  (170): when the second write fails, the finalizer is never registered, and
  the DevEnv leaves its realm when it goes, as in 1 but for good.
- A build or init pod that Reconcile is shown in phase Failed ends it without a
  requeue (379-381, 438-440). That is meant for a script that failed, but an
  eviction ends there too, and so does a deletion by somebody else if the pod
  shows Failed before it is gone, although lines 360 and 420 make up for a pod
  that is gone: no event of that pod comes back (it has no owner). An IDE pod
  that was evicted stays where it is, and is never replaced. `IdeRuns` excepts
  these.
- The Delete of a finished build or init pod (373, 432) comes after the phase was
  written; if it fails, the pod stays. `NoStrayPods` holds where nothing fails.
- With a DevEnv cache that lags, no failure is needed for 3: a reconcile of a
  deleted DevEnv creates the user in the realm that was left, and the next
  incarnation is refused.
- With a pod cache that lags behind the DevEnv cache every time, a pod just
  created is taken for lost, the phase goes back, and the running pod is deleted
  and made again, possibly for ever; `IdeRuns` therefore holds only for pod
  caches that are current when a reconcile starts.
- An `Update` of the endpoints that fails (501) is only logged. No event follows,
  so the endpoints stay at the old address: `RoutesAreCurrent` is checked
  without such failures.
- A proxy pod is made before its secret and reads whatever secret of the name is
  there when it starts. If a DevEnv is created again while the secret of its
  predecessor is still there, its proxy may keep that one: `ProxyLogsIn` excepts
  a DevEnv that overlaps with the objects of another one (`overlap`).
- Without `Spec.DeleteVolumes`, `IdeOnlyOnReadyVolume` does not need a failure to
  break: a DevEnv is deleted while its init pod fills the volume and created
  again, and the init pod of the new one finds `.cnde` (`k8s.go:206`) on the
  half-filled volume, keeps it, and the IDE is started on it. `operator_calm`
  and the theorems about the volume therefore have `DeleteVolumes`.
- A DevEnv named like another one with `-oauth-proxy` appended shares the name
  of its Service with the other's proxy Service (`Clash`).

## 5. Proofs

The assumptions are those on the constants: `MaxLag` is positive, the budgets
are natural numbers, `Lagging` is any set of informers (`ConstantsAssumption`,
`DeleteVolumesAssumption`); the words of the suffixes are words, and the
manager's namespace does not begin with `cnde` (`NamingAssumption`); no two
DevEnvs clash, and `Steps` is in Reconcile's order (`ResourcesAssumption`). So
the theorems hold for any number of disturbances, any lag, and any DevEnvs,
but for those of `CalmProofs` and `RoutesAreCurrentHolds`, whose further
hypotheses are part of their statements.

- `ClusterProofs`: what an append, the informer and a restart do to the stored
  version; what a write, a return and each step of others does to types and to
  the worker's copy.
- `ProvisioningProofs`: `ProvisioningTypeCorrect`, `PhaseOrderHolds`,
  `FinishedVolumeKeptHolds`. The properties are not inductive: a phase is
  computed from the copy, so `ProvisioningInv` adds that a fresh copy is the
  stored object (`CopyIsCurrent`), which phase the copy has where one is about to
  be written (`PhaseAtWrite`), and, for the reset, that a missing namespace has
  no volume (`ClaimsNeedNs`) and none appears before the reset
  (`ResetWithoutClaim`). Every step of Reconcile is then shown to move the
  stored phase legally (`StoredMoves`), everybody else's to leave it alone.
- `IdentityProofs`: `TypeCorrect`, `LiveRealmStaysHolds`,
  `RecordedUserCanLogInHolds`, `FinalizerGuardsRealmHolds`,
  `ImplementsLifecycleHolds`. The argument is about stale copies: a DevEnv gets a
  status only by a write on a fresh copy, and at that moment all versions in the
  log are of that same live incarnation (`CopyIsStored`, `Backed`). So a
  reconcile that finds a deletion mark in the cache cannot coexist with a live
  DevEnv that has a realm (`NobodyRelies`), which is why `DeleteRealm` never
  takes a realm in use. `KeycloakAtWrite` says what Keycloak holds where it is
  recorded, and that it is empty when the finalizer goes. With these, each step
  maps to a step of `Lifecycle` or to none: a status write to `Show`, the
  carried-out `DeleteRealm` to `TakeDown`, the removal of the finalizer to
  `Leave`; `Lifecycle` has its own invariant, `ShownIsBackedHolds`.
- `OperatorProofs`: `IdeOnlyForUserHolds`, `OperatorKeepsRealmAndUser`,
  `OperatorImplementsLifecycle`, `OperatorMovesPhases`. Each half's invariant is
  kept by the other half's steps, which only write the phase, or only the rest.
  `IdeOnlyForUser` needs more (`Served`): in the log a version with a user has
  only live versions before it (`OlderLive`), so that a reconcile that takes a
  realm down has read past all of them (`NoneTakenDown`); hence what the copy
  says of the user is still true when the reconcile reaches the IDE pod
  (`CopyBacked`, `UserServed`), for all that happened since it was read.
- `CalmProofs` is about what holds only while nothing fails, for any number of
  deletions, re-creations, namespace losses, lost pods and Builder changes.
  Hypotheses are stated over the budgets that are left: `NoEdit`, no foreign
  write so far; `Calm`, nor a failed call or pod, nor a crash; `Kept`, no pod
  lost or evicted. The theorems about the volume also assume `PromptCollector`
  and `DeleteVolumes`. The
  cache of the DevEnv (for pods and volume that of the pods, too) is current when a
  reconcile starts, and may be behind at once after that; namespace and claim
  caches may lag. The violation runs and the list in section 4 show what a
  foreign write, a crash, a lost pod and kept volumes break.
  - `IdeOnlyForItsDevEnv` has `NoEdit` only. `Tracked`: UIDs tell incarnations
    apart, and as long as the DevEnv that was read is the stored one, phase and
    Builder of the copy are those stored (`CopyFollows`).
  - `CalmInvariance`, `IdeOnlyWhenRunningHolds`: `Protected` says that where
    more than a realm is made for a DevEnv, or it is taken down, it has the
    finalizer, so that it cannot be replaced under the worker; only then is the
    phase in the copy that of the DevEnv that gets the IDE.
  - `NoStrayPodsHolds`: `PodsInUse` says which phases a build or init pod can
    meet, and that what the worker has seen of a pod is still so until the
    worker makes one itself (`SeenSince`): the phase that follows a pod is only
    written when the pod is finished, and the next step deletes it.
  - `IdeOnlyOnReadyVolumeHolds`, from `VolumeInvariance`. The hard part is a
    predecessor's init pod that still writes on a volume which the next DevEnv
    finds, even while it is being deleted. `VolumeInUse` says that an init pod
    that is not the DevEnv's own, one that is stopping, or a half-filled volume
    with nobody filling it, is doomed, that is, its namespace or its claim is
    being collected (`InitPodLeft`, `InitStops`, `HalfFilled`); that nothing is
    collected any more once the DevEnv's own init pod runs, for the pod could not
    start before (`NothingOrphaned`, which is where `PromptCollector` is
    needed); that a finished init pod, seen or present, has left a complete
    volume (`InitDone`, `SeenReady`); and that a DevEnv that is running has no
    init pod under way (`RunningReady`).
  - `OperatorImplementsWorkspace`: with these, each step maps to one of
    `Workspace` or to none, as each changes only one of phase, volume and IDE.
    A status write maps to a move of the phase, the init pod's last line to
    `Fill`, the collector and the namespace controller to `Drop`. `Workspace`
    has its own invariant (`WorkspaceUsesFilled`); carried back by the
    refinement it gives `RunningVolumeHolds`: the two properties that a crash
    (`provisioning_lost_reset`) and a lost pod (`provisioning_half_volume`)
    break hold without them.
- `NamingProofs`: `KeysApart`. Resource names are injective, each suffix is cut
  off from the end, and a suffix that is the end of another's name is the only
  way to meet: exactly one pair of kinds leaves such a case, `Clash`.
- `ResourcesProofs`: `ResourcesTypeCorrect`, `OwnObjectsHolds`,
  `OwnSecretHolds`. Both rest on `KeysApart`, as a Create writes one object and
  no other, and on the field `oauthClientSecret` being that of the current
  DevEnv for as long as a reconcile is under way, whose DevEnv cannot go
  meanwhile. `ProxyLogsInHolds` needs besides that every object, stored or
  cached, has the owner its kind calls for (`Shaped`), and that a DevEnv which
  found nothing of a predecessor has only objects with its own UID (`Unmixed`).
  `EndpointsHaveAddressHolds` needs that past the IDE pod the field `DevEnvPodIP`
  is set (`AddressAtHand`): a restart begins anew, and so does the next DevEnv. `RoutesAreCurrentHolds`, for as long as no Update of
  endpoints has failed, follows every DevEnv through its reconcile (`Routed`):
  one that is not queued is on its way to the IDE pod, or has read the pod's
  address and is on its way to the endpoints, or its endpoints are those of the
  pod in the cache, or the cache is behind with them and an event is to come.

Only model-checked: liveness (`GetsUsable`, `DeletionCompletes`,
`EverythingGoes`, `IdeRuns`, `GetsComplete`), which is
out of the prover's reach.

## 6. Not modelled, and what is left

- Flag parsing, scheme registration and leader election (`main.go`): library
  code. The controller runs one worker, so reconciles never overlap.
- Generated code, manifests, images: no behaviour of the operator.
- The contents of the objects that nothing reads back: images, resource
  requests, probes, mounts, ingress rules, labels; sizes of the volumes (the
  assignments in lines 664-665 exchange two of them); the OAuth settings.
- The Keycloak server beyond the calls made.

Left to do: `NoStrayPods` and the volume with a pod cache that lags, where the
worker may delete a pod that runs and make it again; the reset after a lost
namespace under crashes, as far as it holds; an abstract specification of
`Resources`, in which a DevEnv simply has its objects or not.
