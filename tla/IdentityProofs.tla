--------------------------- MODULE IdentityProofs ---------------------------
(***************************************************************************)
(* Type correctness of Identity, that the finalizer guards the realm, and  *)
(* that a live DevEnv keeps realm and user, for every lag of the caches    *)
(* and any number of faults, crashes, deletions and re-creations.          *)
(***************************************************************************)
EXTENDS Identity, ClusterProofs

-----------------------------------------------------------------------------
(* The inductive invariant.                                                *)

\* A version of the DevEnv that nobody has marked as deleted.
Live(o) == o.exists /\ ~o.deleting

\* What the cache holds or has still to hear of.
Versions == {crLog[i] : i \in 1 .. Len(crLog)}

\* While the copy is fresh it is the stored object, and every version between
\* cache and API server is one of the same incarnation.
CopyIsStored ==
    fresh => /\ devenv = Stored
             /\ \A v \in Versions : v.exists /\ v.deleting = devenv.deleting

\* Reconcile takes down what is deleted and builds up what is not.
Creating == Labels \ {"idle", "deleteRealm", "deleteBuildPod", "removeFinalizer"}

CopyIsLive ==
    /\ pc \in Creating => Live(devenv)
    /\ pc \in {"deleteRealm", "deleteBuildPod", "removeFinalizer"} => devenv.deleting

\* A live DevEnv whose status promises something.
Relied(o) == Live(o) /\ (o.realm \/ o.user)

\* What the status of a live DevEnv promises is in Keycloak, and the cache has
\* nothing older than that DevEnv.
Backed ==
    Relied(Stored) => /\ \A v \in Versions : Live(v)
                      /\ Stored.realm => "realm" \in kc
                      /\ Stored.user => {"user", "password"} \subseteq kc

\* A realm is taken down only while no live DevEnv relies on it.
NobodyRelies == pc = "deleteRealm" => ~Relied(Stored)

\* What Keycloak holds at the places where that is recorded.
KeycloakAtWrite ==
    /\ pc = "statusRealm" => "realm" \in kc
    /\ pc = "statusUser" => {"user", "password"} \subseteq kc
    /\ pc \in {"deleteBuildPod", "removeFinalizer"} => kc = {}

Inv == /\ TypeOK /\ CopyIsStored /\ CopyIsLive /\ Backed /\ NobodyRelies
       /\ KeycloakAtWrite

\* What a step of the worker may do to the stored object.
GoesLast == Stored.exists /\ ~Stored'.exists => kc = {}

-----------------------------------------------------------------------------
(* The versions of the log.                                                *)

\* The cached and the stored version are versions of the log.
LEMMA VersionsOfLog ==
    ASSUME crLog \in Seq(DevEnvObject), crLog # <<>>
    PROVE  /\ Cached \in Versions /\ Stored \in Versions
           /\ Len(crLog) = 1 => Versions = {Stored}
<1>1. Len(crLog) \in Nat \ {0}
  BY LogOfObjects
<1> QED
  BY <1>1 DEF Versions, Cached, Stored

\* What the informer and the writers do to the versions of the log: an append
\* adds one, dropping the head adds none, a restart leaves the stored one.
LEMMA VersionsAfter ==
    ASSUME crLog \in Seq(DevEnvObject), crLog # <<>>
    PROVE  /\ \A new \in DevEnvObject :
                  crLog' = Append(crLog, new) => Versions' \subseteq Versions \cup {new}
           /\ Len(crLog) > 1 /\ crLog' = Tail(crLog) => Versions' \subseteq Versions
           /\ crLog' = <<Stored>> => Versions' = {Stored}
           /\ crLog' = crLog => Versions' = Versions
<1>1. Len(crLog) \in Nat \ {0}
  BY LogOfObjects
<1>2. ASSUME NEW new \in DevEnvObject, crLog' = Append(crLog, new)
      PROVE  Versions' \subseteq Versions \cup {new}
  <2>1. \A i \in 1 .. Len(crLog') : crLog'[i] = new \/ (i \in 1 .. Len(crLog) /\ crLog'[i] = crLog[i])
    BY <1>1, <1>2
  <2> QED
    BY <2>1 DEF Versions
<1>3. ASSUME Len(crLog) > 1, crLog' = Tail(crLog)
      PROVE  Versions' \subseteq Versions
  <2>1. \A i \in 1 .. Len(crLog') : i + 1 \in 1 .. Len(crLog) /\ crLog'[i] = crLog[i + 1]
    BY <1>1, <1>3
  <2> QED
    BY <2>1 DEF Versions
<1>4. ASSUME crLog' = <<Stored>>
      PROVE  Versions' = {Stored}
  <2>1. Len(crLog') = 1 /\ crLog'[1] = Stored
    BY <1>4
  <2> QED
    BY <2>1 DEF Versions
<1>5. crLog' = crLog => Versions' = Versions
  BY DEF Versions
<1> QED
  BY <1>2, <1>3, <1>4, <1>5

\* A log that stays, or loses its older versions.
Shortened == Stored' = Stored /\ Versions' \subseteq Versions

\* A step that leaves the log alone shortens it in the sense above.
LEMMA UnchangedLog ==
    ASSUME Inv, UNCHANGED crLog
    PROVE  Shortened
  BY VersionsAfter, StoredAfter DEF Shortened, Inv, TypeOK, ControllerTypeOK

\* So does a restart, which lists the stored version afresh.
LEMMA RelistedLog ==
    ASSUME Inv, Relisted
    PROVE  Shortened
<1>1. crLog' = <<Stored>>
  BY DEF Relisted, Restarted
<1> QED
  BY <1>1, VersionsOfLog, VersionsAfter, StoredAfter
  DEF Shortened, Inv, TypeOK, ControllerTypeOK

-----------------------------------------------------------------------------
(* Two ways of keeping the invariant.                                      *)

\* The worker returns or the process ends.
LEMMA InvAtRest ==
    ASSUME Inv, TypeOK', pc' = "idle", fresh' = FALSE, Shortened,
           kc \subseteq kc' \/ ~Relied(Stored)
    PROVE  Inv'
<1>1. (CopyIsStored /\ CopyIsLive /\ NobodyRelies /\ KeycloakAtWrite)'
  BY DEF CopyIsStored, CopyIsLive, NobodyRelies, KeycloakAtWrite, Creating, Labels
<1>2. Backed'
  BY DEF Inv, Shortened, Backed, Relied
<1> QED
  BY <1>1, <1>2 DEF Inv

\* The worker goes on and has written nothing to the API server.
LEMMA InvGoesOn ==
    ASSUME Inv, TypeOK', UNCHANGED <<crLog, devenv, fresh>>,
           kc \subseteq kc' \/ ~Relied(Stored),
           CopyIsLive', KeycloakAtWrite', NobodyRelies'
    PROVE  Inv'
<1>1. Stored' = Stored /\ Versions' = Versions
  BY DEF Stored, Versions
<1>2. CopyIsStored'
  BY <1>1 DEF Inv, CopyIsStored
<1>3. Backed'
  BY <1>1 DEF Inv, Backed, Relied
<1> QED
  BY <1>2, <1>3 DEF Inv

-----------------------------------------------------------------------------
(* One lemma per group of actions.                                         *)

\* The invariant holds before the DevEnv is created.
LEMMA InvInit == Init => Inv
<1> SUFFICES ASSUME Init PROVE Inv
  OBVIOUS
<1>1. crLog \in Seq(DevEnvObject) /\ crLog # <<>> /\ Stored = Absent
  BY ObjectTypes DEF Init, Stored
<1>2. ControllerTypeOK
  BY <1>1, ObjectTypes, ConstantsAssumption DEF Init, ControllerTypeOK, BuilderStates, Labels
<1>3. ClusterTypeOK
  BY DEF Init, ClusterTypeOK, NothingThere, BuilderStates, VolumeStates, PodStates
<1>4. KeycloakTypeOK
  BY DEF Init, KeycloakTypeOK
<1>5. Backed
  BY <1>1 DEF Backed, Relied, Live, Absent
<1> QED
  BY <1>2, <1>3, <1>4, <1>5 DEF Init, Inv, TypeOK, CopyIsStored, CopyIsLive,
     NobodyRelies, KeycloakAtWrite, Creating, Labels

\* Reading the DevEnv and its Builder.
LEMMA ReadingSteps ==
    ASSUME Inv, GetFindsNothing \/ GetFindsDevEnv \/ GetBuilder, UNCHANGED kc
    PROVE  Inv' /\ Stored' = Stored
<1> USE DEF Inv, TypeOK
<1>0. UNCHANGED <<crLog, budget, cluster>>
  BY DEF GetFindsNothing, GetFindsDevEnv, ReconcileStarts, GetBuilder
<1>1. ClusterTypeOK' /\ KeycloakTypeOK' /\ Shortened /\ Stored' = Stored
  BY <1>0, UnchangedLog DEF cluster, ClusterTypeOK, KeycloakTypeOK, Shortened
<1>2. CASE GetFindsNothing
  <2>1. ControllerTypeOK' /\ pc' = pc /\ UNCHANGED <<devenv, fresh>>
    BY <1>0, <1>2 DEF GetFindsNothing, ReconcileStarts, local, ControllerTypeOK
  <2> QED
    BY <1>0, <1>1, <2>1, InvGoesOn DEF CopyIsLive, KeycloakAtWrite, NobodyRelies
<1>3. CASE GetFindsDevEnv
  <2>1. /\ Cached.exists /\ devenv' = Cached /\ fresh' = (Len(crLog) = 1)
        /\ pc' = IF Cached.deleting THEN "deleteRealm" ELSE "getBuilder"
        /\ UNCHANGED <<usedBuilder, timer>> /\ queued' = FALSE
    BY <1>3 DEF GetFindsDevEnv, ReconcileStarts
  <2>2. ControllerTypeOK'
    BY <1>0, <2>1, LogOfObjects DEF ControllerTypeOK, Labels
  <2>3. CopyIsStored'
    <3>1. fresh' => devenv' = Stored' /\ Versions' = {Stored}
      BY <1>0, <1>1, <2>1, StoredAfter, VersionsOfLog, VersionsAfter DEF ControllerTypeOK
    <3> QED
      BY <1>1, <2>1, <3>1 DEF CopyIsStored
  <2>4. CopyIsLive' /\ KeycloakAtWrite'
    BY <2>1 DEF CopyIsLive, Live, Creating, Labels, KeycloakAtWrite
  <2>5. Backed' /\ NobodyRelies'
    <3>1. Backed'
      BY <1>1 DEF Backed, Relied, Shortened
    <3>2. Cached \in Versions
      BY VersionsOfLog DEF ControllerTypeOK
    <3> QED
      BY <1>1, <2>1, <3>1, <3>2 DEF Backed, NobodyRelies, Relied, Live
  <2> QED
    BY <1>1, <2>2, <2>3, <2>4, <2>5
<1>4. CASE GetBuilder /\ ReturnRequeue
  <2>1. ControllerTypeOK' /\ pc' = "idle" /\ fresh' = FALSE
    BY <1>0, <1>4, ReturnTypes DEF ControllerTypeOK
  <2> QED
    BY <1>1, <2>1, InvAtRest
<1>5. CASE GetBuilder /\ Goto("identity")
  <2>1. /\ UNCHANGED <<devenv, fresh, queued, timer>> /\ pc' = "identity"
        /\ usedBuilder' \in BuilderStates /\ pc = "getBuilder"
    BY <1>5 DEF GetBuilder, Goto, ClusterTypeOK, BuilderStates, ReturnRequeue
  <2>2. ControllerTypeOK'
    BY <1>0, <2>1 DEF ControllerTypeOK, Labels
  <2>3. CopyIsLive' /\ KeycloakAtWrite' /\ NobodyRelies'
    BY <2>1 DEF CopyIsLive, Creating, Labels, KeycloakAtWrite, NobodyRelies
  <2> QED
    BY <1>0, <1>1, <2>1, <2>2, <2>3, InvGoesOn
<1> QED
  BY <1>2, <1>3, <1>4, <1>5 DEF GetBuilder

\* What a write of the worker does that keeps the incarnation: the object it
\* writes is as live as its copy.
LEMMA LiveWrite ==
    ASSUME Inv, NEW new \in DevEnvObject, Accepted(new) \/ Rejected(new),
           Live(devenv), Live(new),
           new.realm => "realm" \in kc \/ devenv.realm,
           new.user => {"user", "password"} \subseteq kc \/ devenv.user,
           kc' = kc
    PROVE  /\ Backed'
           /\ Stored' = Stored \/ Stored'.exists
           /\ Accepted(new) => \A v \in Versions' : Live(v)
           /\ Accepted(new) => Stored' = new
<1> USE DEF Inv, TypeOK
<1>1. CASE crLog' = crLog
  <2>1. Stored' = Stored /\ Versions' = Versions
    BY <1>1, UnchangedLog, VersionsAfter DEF Shortened, ControllerTypeOK
  <2>2. Accepted(new) => Stored' = new
    BY WriteTypes
  <2>3. Accepted(new) => \A v \in Versions' : Live(v)
    BY <2>1 DEF Accepted, CopyIsStored, Live
  <2> QED
    BY <2>1, <2>2, <2>3 DEF Backed, Relied
<1>2. CASE fresh /\ crLog' = Append(crLog, new)
  <2>1. Stored' = new /\ Versions' \subseteq Versions \cup {new}
    BY <1>2, StoredAfter, VersionsAfter DEF ControllerTypeOK
  <2>2. \A v \in Versions' : Live(v)
    BY <1>2, <2>1 DEF CopyIsStored, Live
  <2>3. devenv = Stored
    BY <1>2 DEF CopyIsStored
  <2>4. Stored.realm => "realm" \in kc
    BY <2>3 DEF Backed, Relied
  <2>5. Stored.user => {"user", "password"} \subseteq kc
    BY <2>3 DEF Backed, Relied
  <2> QED
    BY <2>1, <2>2, <2>3, <2>4, <2>5 DEF Backed, Live
<1> QED
  BY <1>1, <1>2 DEF Accepted, Rejected

\* A write that returns, and one after which Reconcile goes on.
LEMMA StatusWriteSteps ==
    ASSUME Inv, StatusRealm \/ SetFinalizer \/ StatusUser
    PROVE  Inv' /\ GoesLast
<1> USE DEF Inv, TypeOK
<1>1. PICK new \in DevEnvObject :
          /\ Accepted(new) \/ Rejected(new)
          /\ \/ ReturnRequeue
             \/ Accepted(new) /\ Keep(new) /\ Goto("setFinalizer")
             \/ Accepted(new) /\ Keep(new) /\ Goto("createClient")
          /\ Live(new)
          /\ new.realm => "realm" \in kc \/ devenv.realm
          /\ new.user => {"user", "password"} \subseteq kc \/ devenv.user
  <2> devenv \in DevEnvObject
    BY DEF ControllerTypeOK
  <2>1. CASE StatusRealm
    <3>1. [devenv EXCEPT !.realm = TRUE] \in DevEnvObject
      BY ObjectTypes
    <3> QED
      BY <2>1, <3>1 DEF StatusRealm, DevEnvObject, Live, CopyIsLive, Creating, Labels, KeycloakAtWrite
  <2>2. CASE SetFinalizer
    <3>1. [devenv EXCEPT !.finalizer = TRUE] \in DevEnvObject
      BY ObjectTypes
    <3> QED
      BY <2>2, <3>1 DEF SetFinalizer, DevEnvObject, Live, CopyIsLive, Creating, Labels
  <2>3. CASE StatusUser
    <3>1. [devenv EXCEPT !.user = TRUE] \in DevEnvObject
      BY ObjectTypes
    <3> QED
      BY <2>3, <3>1 DEF StatusUser, DevEnvObject, Live, CopyIsLive, Creating, Labels, KeycloakAtWrite
  <2> QED
    BY <2>1, <2>2, <2>3
<1>2. Live(devenv) /\ UNCHANGED <<kc, cluster>>
  BY DEF StatusRealm, SetFinalizer, StatusUser, CopyIsLive, Creating, Labels
<1>3. /\ Backed'
      /\ Stored' = Stored \/ Stored'.exists
      /\ Accepted(new) => (\A v \in Versions' : Live(v)) /\ Stored' = new
  BY <1>1, <1>2, LiveWrite
<1>4. /\ crLog' \in Seq(DevEnvObject) /\ crLog' # <<>>
      /\ budget' \in [Disturbances -> Nat]
  BY <1>1, WriteTypes
<1>5. ClusterTypeOK' /\ KeycloakTypeOK'
  BY <1>2 DEF cluster, ClusterTypeOK, KeycloakTypeOK
<1>6. GoesLast
  BY <1>3 DEF GoesLast
<1>7. CASE ReturnRequeue
  <2>1. ControllerTypeOK' /\ pc' = "idle" /\ fresh' = FALSE
    BY <1>4, <1>7, ReturnTypes DEF ControllerTypeOK
  <2> QED
    BY <1>3, <1>5, <1>6, <2>1 DEF CopyIsStored, CopyIsLive, Creating, Labels, NobodyRelies,
       KeycloakAtWrite
<1>8. CASE /\ Accepted(new) /\ Keep(new)
           /\ Goto("setFinalizer") \/ Goto("createClient")
  <2>1. /\ devenv' = new /\ Stored' = new /\ pc' \in {"setFinalizer", "createClient"}
        /\ \A v \in Versions' : Live(v)
    BY <1>3, <1>8 DEF Keep, Goto
  <2>2. ControllerTypeOK'
    BY <1>4, <1>8, <2>1 DEF Keep, Goto, ControllerTypeOK, Labels
  <2>3. Versions' \subseteq DevEnvObject
    BY <1>4 DEF Versions
  <2>4. \A v \in Versions' : v.exists /\ v.deleting = devenv'.deleting
    BY <1>1, <2>1, <2>3 DEF Live, DevEnvObject
  <2>5. CopyIsStored'
    BY <2>1, <2>4 DEF CopyIsStored
  <2>6. CopyIsLive' /\ NobodyRelies' /\ KeycloakAtWrite'
    BY <1>1, <2>1 DEF CopyIsLive, NobodyRelies, KeycloakAtWrite, Live
  <2> QED
    BY <1>3, <1>5, <1>6, <2>2, <2>5, <2>6
<1> QED
  BY <1>1, <1>7, <1>8

\* The calls that add to Keycloak.
LEMMA KeycloakSteps ==
    ASSUME Inv, NewRealm \/ CreateClient \/ CreateUser \/ SetPassword
    PROVE  Inv' /\ Stored' = Stored /\ kc \subseteq kc'
<1> USE DEF Inv, TypeOK
<1>1. kc \subseteq kc' /\ KeycloakTypeOK'
  BY DEF NewRealm, CreateClient, CreateUser, SetPassword, NewRealmOk, NewRealmError,
     CreateClientOk, CreateClientNotFound, CreateClientError, CreateUserOk,
     CreateUserRefused, CreateUserError, SetPasswordOk, SetPasswordRefused,
     SetPasswordError, KeycloakTypeOK, KeycloakObjects
<1>2. budget' \in [Disturbances -> Nat]
  BY SpendTypes DEF NewRealm, CreateClient, CreateUser, SetPassword, Disturbances,
     ControllerTypeOK
<1>3. CASE CreateClient /\ Restarted /\ seen' = Current
  <2>1. Relisted
    BY <1>3 DEF CreateClient, Relisted
  <2> QED
    BY <1>1, <1>2, <2>1, RelistedSteps, RelistedLog, InvAtRest
<1>4. CASE UNCHANGED <<crLog, cluster>>
  <2>0. Shortened /\ Stored' = Stored /\ ClusterTypeOK'
    BY <1>4, UnchangedLog DEF Shortened, cluster, ClusterTypeOK
  <2>1. CASE ReturnRequeue \/ ReturnAfter
    <3>1. ControllerTypeOK' /\ pc' = "idle" /\ fresh' = FALSE
      BY <1>2, <1>4, <2>1, ReturnTypes DEF ControllerTypeOK
    <3> QED
      BY <1>1, <2>0, <3>1, InvAtRest
  <2>2. CASE UNCHANGED <<local, queued, timer>>
             /\ \/ NewRealmOk /\ pc = "identity" /\ pc' = "statusRealm"
                \/ pc \in {"createClient", "identity"} /\ pc' \in {"namespace", "createUser"}
                \/ pc = "createUser" /\ pc' = "setPassword"
                \/ SetPasswordOk /\ pc = "setPassword" /\ pc' = "statusUser"
    <3>1. ControllerTypeOK'
      BY <1>2, <1>4, <2>2 DEF local, ControllerTypeOK, Labels
    <3>2. CopyIsLive' /\ NobodyRelies'
      BY <2>2 DEF local, CopyIsLive, NobodyRelies, Creating, Labels
    <3>3. KeycloakAtWrite'
      BY <2>2 DEF KeycloakAtWrite, NewRealmOk, SetPasswordOk
    <3> QED
      BY <1>1, <1>4, <2>0, <2>2, <3>1, <3>2, <3>3, InvGoesOn DEF local
  <2>3. CASE NewRealm
    BY <2>1, <2>2, <2>3 DEF NewRealm, Goto
  <2>4. CASE CreateClient
    BY <1>3, <2>1, <2>2, <2>4 DEF CreateClient, Goto
  <2>5. CASE CreateUser
    BY <2>1, <2>2, <2>5 DEF CreateUser, Goto
  <2>6. CASE SetPassword
    BY <2>1, <2>2, <2>6 DEF SetPassword, Goto
  <2> QED
    BY <2>3, <2>4, <2>5, <2>6
<1>5. \/ CreateClient /\ Restarted /\ seen' = Current
      \/ UNCHANGED <<crLog, cluster>>
  BY DEF NewRealm, CreateClient, CreateUser, SetPassword, cluster
<1> QED
  BY <1>3, <1>4, <1>5

\* The rest of Reconcile, which leaves the DevEnv and Keycloak alone.
LEMMA RestSteps ==
    ASSUME Inv, RestOfReconcile
    PROVE  Inv' /\ Stored' = Stored
<1> USE DEF Inv, TypeOK
<1>1. UNCHANGED <<crLog, budget, kc, builder, ns, volume, seen, orphans>>
  BY DEF RestOfReconcile
<1>2. pods' \in [PodNames -> PodStates]
  BY PodTypes DEF RestOfReconcile, ClusterTypeOK, PodNames
<1>3. ReturnDone \/ ReturnAfter \/ ReturnRequeue
  BY DEF RestOfReconcile
<1>4. TypeOK' /\ pc' = "idle" /\ fresh' = FALSE
  BY <1>1, <1>2, <1>3, ReturnTypes DEF ControllerTypeOK, ClusterTypeOK, KeycloakTypeOK
<1> QED
  BY <1>1, <1>4, UnchangedLog, InvAtRest DEF Shortened

\* The deletion branch.
LEMMA DeletionSteps ==
    ASSUME Inv, DeleteRealm \/ DeleteBuildPod \/ RemoveFinalizer
    PROVE  Inv' /\ GoesLast
<1> USE DEF Inv, TypeOK
<1>1. CASE DeleteRealm
  <2>1. UNCHANGED <<crLog, cluster>> /\ ~Relied(Stored)
    BY <1>1 DEF DeleteRealm, NobodyRelies
  <2>2. Shortened /\ Stored' = Stored /\ ClusterTypeOK'
    BY <2>1, UnchangedLog DEF Shortened, cluster, ClusterTypeOK
  <2>3. KeycloakTypeOK'
    BY <1>1 DEF DeleteRealm, DeleteRealmOk, DeleteRealmNotFound, DeleteRealmError,
       KeycloakTypeOK
  <2>4. budget' \in [Disturbances -> Nat]
    BY <1>1, SpendTypes DEF DeleteRealm, Disturbances, ControllerTypeOK
  <2>5. CASE ReturnRequeue
    <3>1. ControllerTypeOK' /\ pc' = "idle" /\ fresh' = FALSE
      BY <2>1, <2>4, <2>5, ReturnTypes DEF ControllerTypeOK
    <3> QED
      BY <2>1, <2>2, <2>3, <3>1, InvAtRest DEF GoesLast
  <2>6. CASE DeleteRealmOk /\ Goto("deleteBuildPod") /\ UNCHANGED local
    <3>1. pc' = "deleteBuildPod" /\ kc' = {} /\ UNCHANGED <<devenv, fresh>>
      BY <2>6 DEF Goto, DeleteRealmOk, local
    <3>2. ControllerTypeOK'
      BY <2>1, <2>4, <2>6 DEF Goto, local, ControllerTypeOK, Labels
    <3>3. CopyIsLive' /\ KeycloakAtWrite' /\ NobodyRelies'
      BY <1>1, <3>1 DEF DeleteRealm, CopyIsLive, Creating, Labels, KeycloakAtWrite, NobodyRelies
    <3> QED
      BY <2>1, <2>2, <2>3, <3>1, <3>2, <3>3, InvGoesOn DEF GoesLast
  <2> QED
    BY <1>1, <2>5, <2>6 DEF DeleteRealm
<1>2. CASE DeleteBuildPod
  <2>1. /\ UNCHANGED <<crLog, local, kc, builder, ns, volume, seen, orphans>>
        /\ pc = "deleteBuildPod" /\ pc' = "removeFinalizer" /\ UNCHANGED <<queued, timer>>
    BY <1>2 DEF DeleteBuildPod, Goto
  <2>2. pods' \in [PodNames -> PodStates]
    BY <1>2, PodTypes DEF DeleteBuildPod, ClusterTypeOK, PodNames
  <2>3. budget' \in [Disturbances -> Nat]
    BY <1>2, SpendTypes DEF DeleteBuildPod, Disturbances, ControllerTypeOK
  <2>4. TypeOK'
    BY <2>1, <2>2, <2>3 DEF local, ControllerTypeOK, ClusterTypeOK, KeycloakTypeOK, Labels
  <2>5. CopyIsLive' /\ KeycloakAtWrite' /\ NobodyRelies'
    BY <2>1 DEF local, CopyIsLive, Creating, Labels, KeycloakAtWrite, NobodyRelies
  <2>6. Stored' = Stored
    BY <2>1 DEF Stored
  <2> QED
    BY <2>1, <2>4, <2>5, <2>6, InvGoesOn DEF local, GoesLast
<1>3. CASE RemoveFinalizer
  <2>1. /\ Accepted(Absent) \/ Rejected(Absent)
        /\ ReturnDone \/ ReturnRequeue
        /\ UNCHANGED <<kc, builder, ns, volume, pods, seen>>
        /\ pc = "removeFinalizer"
    BY <1>3 DEF RemoveFinalizer
  <2>2. orphans' \subseteq {"namespace", "pvc", "ide"}
    BY <1>3 DEF RemoveFinalizer, LeavesOrphans, Owned, ClusterTypeOK
  <2>3. /\ crLog' \in Seq(DevEnvObject) /\ crLog' # <<>>
        /\ budget' \in [Disturbances -> Nat]
    BY <2>1, WriteTypes, ObjectTypes
  <2>4. TypeOK' /\ pc' = "idle" /\ fresh' = FALSE
    BY <2>1, <2>2, <2>3, ReturnTypes DEF ControllerTypeOK, ClusterTypeOK, KeycloakTypeOK
  <2>5. CASE crLog' = crLog
    BY <2>1, <2>4, <2>5, UnchangedLog, InvAtRest DEF Shortened, GoesLast
  <2>6. CASE crLog' = Append(crLog, Absent)
    <3>1. Stored' = Absent
      BY <2>6, StoredAfter, ObjectTypes DEF ControllerTypeOK
    <3>2. Backed'
      BY <3>1 DEF Backed, Relied, Live, Absent
    <3>3. (CopyIsStored /\ CopyIsLive /\ NobodyRelies /\ KeycloakAtWrite)'
      BY <2>4 DEF CopyIsStored, CopyIsLive, NobodyRelies, KeycloakAtWrite, Creating, Labels
    <3> QED
      BY <2>1, <2>4, <3>2, <3>3 DEF KeycloakAtWrite, GoesLast
  <2> QED
    BY <2>1, <2>5, <2>6 DEF Accepted, Rejected
<1> QED
  BY <1>1, <1>2, <1>3

\* A crash.
LEMMA CrashSteps ==
    ASSUME Inv, Crash, UNCHANGED kc
    PROVE  Inv' /\ Stored' = Stored
<1>1. Relisted /\ budget' \in [Disturbances -> Nat]
  BY SpendTypes DEF Crash, Inv, TypeOK, ControllerTypeOK, Disturbances
<1>2. TypeOK' /\ pc' = "idle" /\ fresh' = FALSE /\ Stored' = Stored
  BY <1>1, RelistedSteps DEF Inv, TypeOK, KeycloakTypeOK
<1> QED
  BY <1>1, <1>2, RelistedLog, InvAtRest

\* Users leave a DevEnv on which somebody relies as it is, or mark it; only a
\* DevEnv without a finalizer goes away by their hand.
LEMMA UserStores ==
    ASSUME Inv, User
    PROVE  /\ ~Relied(Stored')
              \/ /\ Relied(Stored) /\ Live(Stored')
                 /\ Stored'.realm = Stored.realm /\ Stored'.user = Stored.user
           /\ Versions' \subseteq Versions \cup {Stored'}
           /\ Stored.exists /\ ~Stored'.exists => ~Stored.finalizer
<1> USE DEF Inv, TypeOK
<1>1. crLog \in Seq(DevEnvObject) /\ crLog # <<>> /\ Stored \in DevEnvObject
  BY LogOfObjects DEF ControllerTypeOK
<1>2. PICK new \in DevEnvObject :
          /\ crLog' = Append(crLog, new)
          /\ \/ ~Stored.exists /\ \E b \in BOOLEAN : new = Created(b)
             \/ new = Absent /\ ~Stored.finalizer
             \/ new = [Stored EXCEPT !.deleting = TRUE]
             \/ Stored.exists /\ \E b \in BOOLEAN : new = [Stored EXCEPT !.builderName = b]
  <2>1. CASE UserCreates
    BY <2>1, ObjectTypes DEF UserCreates, ForeignWrite, ControllerTypeOK
  <2>2. CASE UserDeletes
    BY <1>1, <2>2, ObjectTypes DEF UserDeletes, ForeignWrite
  <2>3. CASE UserEdits
    BY <1>1, <2>3, ObjectTypes DEF UserEdits, ForeignWrite
  <2> QED
    BY <2>1, <2>2, <2>3 DEF User
<1>3. Stored' = new /\ Versions' \subseteq Versions \cup {new}
  BY <1>1, <1>2, StoredAfter, VersionsAfter
<1>4. CASE ~Stored.exists /\ \E b \in BOOLEAN : new = Created(b)
  BY <1>3, <1>4 DEF Created, Absent, Relied, Live
<1>5. CASE new = Absent /\ ~Stored.finalizer
  BY <1>3, <1>5 DEF Absent, Relied, Live
<1>6. CASE new = [Stored EXCEPT !.deleting = TRUE]
  BY <1>1, <1>3, <1>6 DEF DevEnvObject, Relied, Live
<1>7. CASE Stored.exists /\ \E b \in BOOLEAN : new = [Stored EXCEPT !.builderName = b]
  BY <1>1, <1>3, <1>7 DEF DevEnvObject, Relied, Live
<1> QED
  BY <1>2, <1>4, <1>5, <1>6, <1>7

\* No step of users, events, kubelet, administrators or collector breaks the
\* invariant.
LEMMA SurroundingsInv ==
    ASSUME Inv, Surroundings, UNCHANGED kc
    PROVE  Inv'
<1> USE DEF Inv, TypeOK
<1>1. CASE User
  <2>1. ControllerTypeOK' /\ ClusterTypeOK' /\ fresh' = FALSE /\ UNCHANGED <<devenv, pc>>
    BY <1>1, UserSteps
  <2>2. CopyIsStored' /\ CopyIsLive' /\ KeycloakAtWrite' /\ KeycloakTypeOK'
    BY <2>1 DEF CopyIsStored, CopyIsLive, KeycloakAtWrite, KeycloakTypeOK
  <2>3. Backed'
    BY <1>1, UserStores DEF Backed
  <2>4. NobodyRelies'
    BY <1>1, <2>1, UserStores DEF NobodyRelies
  <2> QED
    BY <2>1, <2>2, <2>3, <2>4
<1>2. CASE Events \/ Delay \/ ClusterSteps
  <2>1. /\ ControllerTypeOK' /\ ClusterTypeOK' /\ Stored' = Stored
        /\ UNCHANGED <<devenv, fresh, pc>>
    BY <1>2, EventSteps, ClusterStepsFrame, ClusterStepsTypes
  <2>2. Versions' \subseteq Versions
    <3>1. CASE Events /\ DevEnvEvent
      BY <3>1, VersionsAfter DEF DevEnvEvent, ControllerTypeOK
    <3>2. CASE UNCHANGED crLog
      BY <3>2 DEF Versions
    <3> QED
      BY <1>2, <3>1, <3>2, ClusterStepsFrame DEF Events, OtherEvent, Delay, TimerFires
  <2>3. CopyIsStored' /\ CopyIsLive' /\ KeycloakAtWrite' /\ KeycloakTypeOK'
    BY <2>1, <2>2 DEF CopyIsStored, CopyIsLive, KeycloakAtWrite, KeycloakTypeOK
  <2>4. Backed' /\ NobodyRelies'
    BY <2>1, <2>2 DEF Backed, NobodyRelies
  <2> QED
    BY <2>1, <2>3, <2>4
<1> QED
  BY <1>1, <1>2 DEF Surroundings, ClusterSteps

\* All steps of Reconcile together.
LEMMA ReconcileSteps ==
    ASSUME Inv, Reconcile
    PROVE  Inv' /\ GoesLast
<1>1. CASE (GetFindsNothing \/ GetFindsDevEnv \/ GetBuilder) /\ UNCHANGED kc
  BY <1>1, ReadingSteps DEF GoesLast
<1>2. CASE DeleteRealm \/ DeleteBuildPod \/ RemoveFinalizer
  BY <1>2, DeletionSteps
<1>3. CASE NewRealm \/ CreateClient \/ CreateUser \/ SetPassword
  BY <1>3, KeycloakSteps DEF GoesLast
<1>4. CASE StatusRealm \/ SetFinalizer \/ StatusUser
  BY <1>4, StatusWriteSteps
<1>5. CASE RestOfReconcile
  BY <1>5, RestSteps DEF GoesLast
<1> QED
  BY <1>1, <1>2, <1>3, <1>4, <1>5 DEF Reconcile, Reads, TakesDown, Identifies

\* A stuttering step changes nothing the invariant speaks of.
LEMMA UnchangedSteps ==
    ASSUME Inv, UNCHANGED vars
    PROVE  Inv' /\ Stored' = Stored
  BY DEF vars, clusterVars, controllerVars, cluster, Inv, TypeOK, ControllerTypeOK,
     ClusterTypeOK, KeycloakTypeOK, CopyIsStored, CopyIsLive, Backed, NobodyRelies,
     KeycloakAtWrite, Stored, Versions

\* The invariant is inductive.
LEMMA InvNext == Inv /\ [Next]_vars => Inv'
<1> SUFFICES ASSUME Inv, [Next]_vars PROVE Inv'
  OBVIOUS
<1>1. CASE Reconcile
  BY <1>1, ReconcileSteps
<1>2. CASE Crash /\ UNCHANGED kc
  BY <1>2, CrashSteps
<1>3. CASE Surroundings /\ UNCHANGED kc
  BY <1>3, SurroundingsInv
<1>4. CASE UNCHANGED vars
  BY <1>4, UnchangedSteps
<1> QED
  BY <1>1, <1>2, <1>3, <1>4 DEF Next

\* A DevEnv with a finalizer goes away only by RemoveFinalizer, and there the
\* realm is gone.
LEMMA EveryStepGuards ==
    ASSUME Inv, [Next]_vars
    PROVE  RealmGoesFirst
<1>1. CASE Reconcile
  BY <1>1, ReconcileSteps DEF GoesLast, RealmGoesFirst
<1>2. CASE Crash /\ UNCHANGED kc
  BY <1>2, CrashSteps DEF RealmGoesFirst
<1>3. CASE User
  BY <1>3, UserStores DEF RealmGoesFirst
<1>4. CASE Events \/ Delay \/ ClusterSteps
  BY <1>4, EventSteps, ClusterStepsFrame DEF Inv, TypeOK, RealmGoesFirst
<1>5. CASE UNCHANGED vars
  BY <1>5, UnchangedSteps DEF RealmGoesFirst
<1> QED
  BY <1>1, <1>2, <1>3, <1>4, <1>5 DEF Next, Surroundings, ClusterSteps

-----------------------------------------------------------------------------
(* Identity implements Lifecycle.                                          *)

LifeStep == [Life!Next]_(Life!vars)

\* The first state of Identity is the first one of Lifecycle.
LEMMA LifeInit == Init => Life!Init
<1> SUFFICES ASSUME Init PROVE Life!Init
  OBVIOUS
<1>1. Stored = Absent
  BY DEF Init, Stored
<1> QED
  BY <1>1 DEF Init, Life!Init, Absent

\* What leaves the stored object alone and only adds to Keycloak is Provide.
LEMMA ProvideStep ==
    ASSUME Stored' = Stored, kc \subseteq kc', KeycloakTypeOK'
    PROVE  LifeStep
<1>1. Life!Provide
  BY DEF Life!Provide, Life!Objects, KeycloakTypeOK, KeycloakObjects
<1> QED
  BY <1>1 DEF LifeStep, Life!Next

\* A realm is taken down when nobody relies on it.
LEMMA TakeDownStep ==
    ASSUME Stored' = Stored, Stored \in DevEnvObject, kc' = {}, ~Relied(Stored)
    PROVE  LifeStep
<1>1. Life!TakeDown
  BY DEF Life!TakeDown, Relied, Live, DevEnvObject
<1> QED
  BY <1>1 DEF LifeStep, Life!Next

\* What leaves both alone is a stutter.
LEMMA LifeStutter ==
    ASSUME Stored' = Stored, kc' = kc
    PROVE  LifeStep
  BY DEF LifeStep, Life!vars

\* The writes of Reconcile show what Keycloak holds, or guard it.
LEMMA StatusWriteLife ==
    ASSUME Inv, StatusRealm \/ SetFinalizer \/ StatusUser
    PROVE  LifeStep
<1> USE DEF Inv, TypeOK
<1>1. kc' = kc /\ Live(devenv) /\ devenv \in DevEnvObject
  BY DEF StatusRealm, SetFinalizer, StatusUser, CopyIsLive, Creating, Labels, ControllerTypeOK
<1>2. PICK new \in DevEnvObject :
          /\ Accepted(new) \/ Rejected(new)
          /\ \/ new = [devenv EXCEPT !.realm = TRUE] /\ "realm" \in kc
             \/ new = [devenv EXCEPT !.finalizer = TRUE]
             \/ new = [devenv EXCEPT !.user = TRUE] /\ {"user", "password"} \subseteq kc
  BY <1>1, ObjectTypes DEF StatusRealm, SetFinalizer, StatusUser, KeycloakAtWrite
<1>3. CASE crLog' = crLog
  BY <1>1, <1>3, LifeStutter DEF Stored
<1>4. CASE fresh /\ crLog' = Append(crLog, new)
  <2>1. Stored' = new /\ devenv = Stored /\ Live(Stored)
    BY <1>1, <1>4, StoredAfter DEF CopyIsStored, ControllerTypeOK
  <2>2. CASE new = [devenv EXCEPT !.realm = TRUE] /\ "realm" \in kc
    <3>1. Life!Show("realm")
      BY <1>1, <2>1, <2>2 DEF Life!Show, Life!Needs, Live, DevEnvObject
    <3> QED
      BY <3>1 DEF LifeStep, Life!Next
  <2>3. CASE new = [devenv EXCEPT !.finalizer = TRUE]
    <3>1. Life!Guard
      BY <1>1, <2>1, <2>3 DEF Life!Guard, Live, DevEnvObject
    <3> QED
      BY <3>1 DEF LifeStep, Life!Next
  <2>4. CASE new = [devenv EXCEPT !.user = TRUE] /\ {"user", "password"} \subseteq kc
    <3>1. Life!Show("user")
      BY <1>1, <2>1, <2>4 DEF Life!Show, Life!Needs, Live, DevEnvObject
    <3> QED
      BY <3>1 DEF LifeStep, Life!Next
  <2> QED
    BY <1>2, <2>2, <2>3, <2>4
<1> QED
  BY <1>2, <1>3, <1>4 DEF Accepted, Rejected

\* The deletion branch takes down what nobody relies on, and lets go last.
LEMMA DeletionLife ==
    ASSUME Inv, DeleteRealm \/ DeleteBuildPod \/ RemoveFinalizer
    PROVE  LifeStep
<1> USE DEF Inv, TypeOK
<1>0. Stored \in DevEnvObject
  BY LogOfObjects DEF ControllerTypeOK
<1>1. CASE DeleteRealm
  <2>1. Stored' = Stored /\ ~Relied(Stored) /\ (kc' = kc \/ kc' = {})
    BY <1>1 DEF DeleteRealm, DeleteRealmOk, DeleteRealmNotFound, DeleteRealmError,
       NobodyRelies, Stored
  <2> QED
    BY <1>0, <2>1, LifeStutter, TakeDownStep
<1>2. CASE DeleteBuildPod
  BY <1>2, LifeStutter DEF DeleteBuildPod, Stored
<1>3. CASE RemoveFinalizer
  <2>1. kc' = kc /\ kc = {} /\ devenv.deleting
    BY <1>3 DEF RemoveFinalizer, KeycloakAtWrite, CopyIsLive
  <2>2. CASE crLog' = crLog
    BY <2>1, <2>2, LifeStutter DEF Stored
  <2>3. CASE fresh /\ crLog' = Append(crLog, Absent)
    <3>1. Stored' = Absent /\ Stored.exists /\ Stored.deleting
      BY <2>1, <2>3, StoredAfter, VersionsOfLog, ObjectTypes
      DEF CopyIsStored, ControllerTypeOK
    <3>2. Life!Leave
      BY <2>1, <3>1 DEF Life!Leave, Absent
    <3> QED
      BY <3>2 DEF LifeStep, Life!Next
  <2> QED
    BY <1>3, <2>2, <2>3 DEF RemoveFinalizer, Accepted, Rejected
<1> QED
  BY <1>1, <1>2, <1>3

\* Users create, edit, mark and, without a finalizer, remove.
LEMMA UserLife ==
    ASSUME Inv, User, kc' = kc
    PROVE  LifeStep
<1> USE DEF Inv, TypeOK
<1>1. crLog \in Seq(DevEnvObject) /\ crLog # <<>> /\ Stored \in DevEnvObject
  BY LogOfObjects DEF ControllerTypeOK
<1>2. CASE UserCreates
  <2>1. PICK b \in BOOLEAN : Stored' = Created(b)
    BY <1>1, <1>2, ObjectTypes, StoredAfter DEF UserCreates, ForeignWrite, ControllerTypeOK
  <2>3. /\ ~Stored.exists /\ Stored'.exists
        /\ ~Stored'.deleting /\ ~Stored'.finalizer /\ ~Stored'.realm /\ ~Stored'.user
    BY <1>2, <2>1 DEF UserCreates, Created, Absent
  <2>2. Life!Appear
    BY <2>3 DEF Life!Appear
  <2> QED
    BY <2>2 DEF LifeStep, Life!Next
<1>3. CASE UserDeletes /\ Stored.finalizer
  <2>1. Stored' = [Stored EXCEPT !.deleting = TRUE] /\ Stored.exists /\ ~Stored.deleting
    BY <1>1, <1>3, ObjectTypes, StoredAfter DEF UserDeletes, ForeignWrite
  <2>2. Life!Mark
    BY <1>1, <1>3, <2>1 DEF Life!Mark, DevEnvObject
  <2> QED
    BY <2>2 DEF LifeStep, Life!Next
<1>4. CASE UserDeletes /\ ~Stored.finalizer
  <2>1. Stored' = Absent /\ Stored.exists
    BY <1>1, <1>4, ObjectTypes, StoredAfter DEF UserDeletes, ForeignWrite
  <2>2. Life!Leave
    BY <1>4, <2>1 DEF Life!Leave, Absent
  <2> QED
    BY <2>2 DEF LifeStep, Life!Next
<1>5. CASE UserEdits
  <2>1. PICK b \in BOOLEAN : Stored' = [Stored EXCEPT !.builderName = b]
    BY <1>1, <1>5, ObjectTypes, StoredAfter DEF UserEdits, ForeignWrite
  <2>2. UNCHANGED Life!vars
    BY <1>1, <2>1 DEF Life!vars, DevEnvObject
  <2> QED
    BY <2>2 DEF LifeStep
<1> QED
  BY <1>2, <1>3, <1>4, <1>5 DEF User

\* Every step of Identity is a step or a stutter of Lifecycle.
LEMMA LifeNext ==
    ASSUME Inv, [Next]_vars
    PROVE  LifeStep
<1>1. CASE (GetFindsNothing \/ GetFindsDevEnv \/ GetBuilder) /\ UNCHANGED kc
  BY <1>1, ReadingSteps, LifeStutter
<1>2. CASE DeleteRealm \/ DeleteBuildPod \/ RemoveFinalizer
  BY <1>2, DeletionLife
<1>3. CASE NewRealm \/ CreateClient \/ CreateUser \/ SetPassword
  BY <1>3, KeycloakSteps, ProvideStep DEF Inv, TypeOK
<1>4. CASE StatusRealm \/ SetFinalizer \/ StatusUser
  BY <1>4, StatusWriteLife
<1>5. CASE RestOfReconcile
  <2>1. kc' = kc
    BY <1>5 DEF RestOfReconcile
  <2> QED
    BY <1>5, <2>1, RestSteps, LifeStutter
<1>6. CASE Crash /\ UNCHANGED kc
  BY <1>6, CrashSteps, LifeStutter
<1>7. CASE User /\ UNCHANGED kc
  BY <1>7, UserLife
<1>8. CASE (Events \/ Delay \/ ClusterSteps) /\ UNCHANGED kc
  BY <1>8, EventSteps, ClusterStepsFrame, LifeStutter DEF Inv, TypeOK
<1>9. CASE UNCHANGED vars
  BY <1>9, UnchangedSteps, LifeStutter DEF vars
<1> QED
  BY <1>1, <1>2, <1>3, <1>4, <1>5, <1>6, <1>7, <1>8, <1>9
  DEF Next, Reconcile, Reads, TakesDown, Identifies, Surroundings, ClusterSteps

-----------------------------------------------------------------------------
(* Theorems.                                                               *)

\* Inv is an invariant of Reconcile's identity part: the worker's copy, what is
\* stored, and what Keycloak holds stay in step through every stale read,
\* failed call and crash.
THEOREM Invariance == Spec => []Inv
<1>1. Init => Inv
  BY InvInit
<1>2. Inv /\ [Next]_vars => Inv'
  BY InvNext
<1> QED
  BY <1>1, <1>2, PTL DEF Spec

\* Every variable of Identity keeps its type, for every bound on the log and
\* every budget of disturbances.
THEOREM TypeCorrect == Spec => []TypeOK
<1>1. Inv => TypeOK
  BY DEF Inv
<1> QED
  BY <1>1, Invariance, PTL

\* The realm of a DevEnv that is registered and not marked as deleted is in
\* Keycloak: a reconcile that still works on the deleted predecessor never
\* takes it (the deletion branch of Reconcile).
THEOREM LiveRealmStaysHolds == Spec => []LiveRealmStays
<1>1. Inv => LiveRealmStays
  BY DEF Inv, Backed, Relied, Live, LiveRealmStays
<1> QED
  BY <1>1, Invariance, PTL

\* A live DevEnv whose status names a user has that user, with its password:
\* no failed call or restart in CreateUser leads to an early status write.
THEOREM RecordedUserCanLogInHolds == Spec => []RecordedUserCanLogIn
<1>1. Inv => RecordedUserCanLogIn
  BY DEF Inv, Backed, Relied, Live, RecordedUserCanLogIn
<1> QED
  BY <1>1, Invariance, PTL

\* No step, of Reconcile or of a user, lets a DevEnv with a finalizer go while
\* its realm is in Keycloak.
THEOREM FinalizerGuardsRealmHolds == Spec => FinalizerGuardsRealm
<1>1. Inv /\ [Next]_vars => [RealmGoesFirst]_vars
  <2> SUFFICES ASSUME Inv, [Next]_vars PROVE RealmGoesFirst
    OBVIOUS
  <2> QED
    BY EveryStepGuards
<1> QED
  BY <1>1, Invariance, PTL DEF Spec, FinalizerGuardsRealm

\* Identity implements Lifecycle: seen through the status and Keycloak, every
\* behaviour of Reconcile is one in which nothing a live DevEnv shows is taken
\* from it and a guarded DevEnv leaves last.
THEOREM ImplementsLifecycleHolds == Spec => ImplementsLifecycle
<1>1. Init => Life!Init
  BY LifeInit
<1>2. Inv /\ [Next]_vars => [Life!Next]_(Life!vars)
  BY LifeNext DEF LifeStep
<1> QED
  BY <1>1, <1>2, Invariance, PTL DEF Spec, ImplementsLifecycle, Life!Spec

=============================================================================
