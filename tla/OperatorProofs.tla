--------------------------- MODULE OperatorProofs ---------------------------
(***************************************************************************)
(* The whole Reconcile keeps what its halves promise, and nobody gets an   *)
(* IDE without a user to log in with, for every lag of the caches and any  *)
(* number of faults, crashes, deletions and re-creations.                  *)
(***************************************************************************)
EXTENDS Operator, IdentityProofs, ProvisioningProofs

-----------------------------------------------------------------------------
(* The inductive invariant: those of the two halves, and what carries the  *)
(* user from the status of a version to the worker's last step.            *)

\* Where Reconcile is when it has seen to the user.
AfterUser == {"namespace", "resetStatus", "ensure", "build", "replaceBuildPod",
              "statusBuilding", "dropBuildPod", "init", "replaceInitPod",
              "statusInitializing", "dropInitPod", "ide"}

HasUser(o) == Live(o) /\ o.user

UserIsThere == {"user", "password"} \subseteq kc

\* A version with a user has only live versions before it, so that a reconcile
\* that takes a realm down has read past all that have a user.
OlderLive ==
    \A i, j \in 1 .. Len(crLog) : i <= j /\ HasUser(crLog[j]) => Live(crLog[i])

VersionsBacked == \A v \in Versions : HasUser(v) => UserIsThere
NoneTakenDown  == pc = "deleteRealm" => \A v \in Versions : ~HasUser(v)
CopyBacked     == pc \in Creating /\ devenv.user => UserIsThere
UserServed     == pc \in AfterUser => KeycloakObjects \subseteq kc

Served == OlderLive /\ VersionsBacked /\ NoneTakenDown /\ CopyBacked /\ UserServed

OperatorInv == Inv /\ ProvisioningInv /\ Served

-----------------------------------------------------------------------------
(* The log.                                                                *)

\* What a step does to the log: nothing, a restart, an event, or one new
\* version, which has a user only if all before it live.
LogStep ==
    \/ crLog' = crLog
    \/ crLog' = <<Stored>>
    \/ Len(crLog) > 1 /\ crLog' = Tail(crLog)
    \/ \E new \in DevEnvObject :
           /\ crLog' = Append(crLog, new)
           /\ HasUser(new) => UserIsThere /\ \A v \in Versions : Live(v)

\* Such a step keeps what Served says of the log.
LEMMA LogStepKeeps ==
    ASSUME crLog \in Seq(DevEnvObject), crLog # <<>>, OlderLive, VersionsBacked,
           kc \subseteq kc', LogStep
    PROVE  OlderLive' /\ VersionsBacked'
<1>1. Len(crLog) \in Nat \ {0}
  BY LogOfObjects
<1>2. UserIsThere => UserIsThere'
  BY DEF UserIsThere
<1>3. CASE crLog' = crLog
  BY <1>2, <1>3 DEF OlderLive, VersionsBacked, Versions
<1>4. CASE crLog' = <<Stored>>
  <2>1. Len(crLog') = 1 /\ crLog'[1] = Stored /\ Stored \in Versions
    BY <1>4, VersionsOfLog
  <2>2. OlderLive'
    BY <2>1 DEF OlderLive, HasUser
  <2>3. VersionsBacked'
    BY <1>2, <1>4, <2>1, VersionsAfter DEF VersionsBacked
  <2> QED
    BY <2>2, <2>3
<1>5. CASE Len(crLog) > 1 /\ crLog' = Tail(crLog)
  <2>1. /\ Len(crLog') = Len(crLog) - 1
        /\ \A i \in 1 .. Len(crLog') : i + 1 \in 1 .. Len(crLog) /\ crLog'[i] = crLog[i + 1]
    BY <1>1, <1>5
  <2>2. ASSUME NEW i \in 1 .. Len(crLog'), NEW j \in 1 .. Len(crLog'),
               i <= j, HasUser(crLog'[j])
        PROVE  Live(crLog'[i])
    <3>1. i + 1 \in 1 .. Len(crLog) /\ j + 1 \in 1 .. Len(crLog) /\ i + 1 <= j + 1
      BY <1>1, <2>1, <2>2
    <3>2. crLog'[i] = crLog[i + 1] /\ crLog'[j] = crLog[j + 1]
      BY <2>1
    <3> QED
      BY <2>2, <3>1, <3>2 DEF OlderLive
  <2>3. VersionsBacked'
    BY <1>2, <1>5, VersionsAfter DEF VersionsBacked
  <2> QED
    BY <2>2, <2>3 DEF OlderLive
<1>6. ASSUME NEW new \in DevEnvObject, crLog' = Append(crLog, new),
             HasUser(new) => UserIsThere /\ \A v \in Versions : Live(v)
      PROVE  OlderLive' /\ VersionsBacked'
  <2>1. /\ Len(crLog') = Len(crLog) + 1 /\ crLog'[Len(crLog) + 1] = new
        /\ \A i \in 1 .. Len(crLog) : crLog'[i] = crLog[i] /\ crLog[i] \in Versions
    BY <1>1, <1>6 DEF Versions
  <2>2. ASSUME NEW i \in 1 .. Len(crLog'), NEW j \in 1 .. Len(crLog'),
               i <= j, HasUser(crLog'[j])
        PROVE  Live(crLog'[i])
    <3>1. CASE j = Len(crLog) + 1
      <4>1. i = Len(crLog) + 1 \/ i \in 1 .. Len(crLog)
        BY <1>1, <2>1
      <4> QED
        BY <1>6, <2>1, <2>2, <3>1, <4>1 DEF HasUser
    <3>2. CASE j \in 1 .. Len(crLog)
      <4>1. i \in 1 .. Len(crLog)
        BY <1>1, <2>2, <3>2
      <4> QED
        BY <2>1, <2>2, <3>2, <4>1 DEF OlderLive
    <3> QED
      BY <1>1, <2>1, <3>1, <3>2
  <2>3. VersionsBacked'
    BY <1>2, <1>6, VersionsAfter DEF VersionsBacked
  <2> QED
    BY <2>2, <2>3 DEF OlderLive
<1> QED
  BY <1>3, <1>4, <1>5, <1>6 DEF LogStep

\* A write of the worker is such a step, if what it writes has no user that its
\* copy has not or that is not there.
LEMMA WriteLogStep ==
    ASSUME Inv, CopyBacked, pc \in Creating, NEW new \in DevEnvObject,
           Accepted(new) \/ Rejected(new), new.user => devenv.user \/ UserIsThere
    PROVE  LogStep
<1>1. (Live(devenv) /\ UserIsThere) \/ ~new.user
  BY DEF Inv, CopyIsLive, CopyBacked
<1>2. crLog' = crLog \/ (fresh /\ crLog' = Append(crLog, new))
  BY DEF Accepted, Rejected
<1>3. fresh => \A v \in Versions : Live(v) \/ ~Live(devenv)
  BY DEF Inv, CopyIsStored, Live
<1> QED
  BY <1>1, <1>2, <1>3 DEF LogStep, HasUser

-----------------------------------------------------------------------------
(* Two ways of keeping Served.                                             *)

\* The worker returns or the process ends.
LEMMA ServedAtRest ==
    ASSUME Inv, Served, kc \subseteq kc', LogStep, pc' = "idle"
    PROVE  Served'
<1>1. OlderLive' /\ VersionsBacked'
  BY LogStepKeeps DEF Inv, TypeOK, ControllerTypeOK, Served
<1>2. (NoneTakenDown /\ CopyBacked /\ UserServed)'
  BY DEF NoneTakenDown, CopyBacked, UserServed, Creating, AfterUser
<1> QED
  BY <1>1, <1>2 DEF Served

\* The worker goes on with a user to whom nothing has happened.
LEMMA ServedGoesOn ==
    ASSUME Inv, Served, kc \subseteq kc', LogStep, pc \in Creating, pc' \in Creating,
           devenv'.user => devenv.user \/ UserIsThere,
           pc' \in AfterUser => KeycloakObjects \subseteq kc'
    PROVE  Served'
<1>1. OlderLive' /\ VersionsBacked'
  BY LogStepKeeps DEF Inv, TypeOK, ControllerTypeOK, Served
<1>2. CopyBacked'
  BY DEF Served, CopyBacked, UserIsThere
<1>3. NoneTakenDown' /\ UserServed'
  BY DEF NoneTakenDown, UserServed, Creating
<1> QED
  BY <1>1, <1>2, <1>3 DEF Served

\* What the steps of others do, which leave the worker where it is.
LEMMA ServedBesides ==
    ASSUME Inv, Served, kc' = kc, LogStep, UNCHANGED <<pc, devenv>>,
           \A v \in Versions' : HasUser(v) => \E w \in Versions : HasUser(w)
    PROVE  Served'
<1>1. OlderLive' /\ VersionsBacked'
  BY LogStepKeeps DEF Inv, TypeOK, ControllerTypeOK, Served
<1>2. NoneTakenDown'
  BY DEF Served, NoneTakenDown
<1>3. CopyBacked' /\ UserServed'
  BY DEF Served, CopyBacked, UserServed, UserIsThere
<1> QED
  BY <1>1, <1>2, <1>3 DEF Served

-----------------------------------------------------------------------------
(* The identity half.                                                      *)

\* Before the DevEnv is created all three parts hold.
LEMMA OperatorInvInit == Init => OperatorInv
<1> SUFFICES ASSUME Init PROVE OperatorInv
  OBVIOUS
<1>1. Inv
  BY InvInit
<1>2. ProvisioningInv
  BY <1>1 DEF Init, Inv, TypeOK, ProvisioningInv, ProvisioningTypeOK, CopyIsCurrent,
     ClaimsNeedNs, ResetWithoutClaim, PhaseAtWrite
<1>3. Len(crLog) = 1 /\ crLog[1] = Absent /\ ~HasUser(Absent)
  BY DEF Init, HasUser, Live, Absent
<1>4. \A i \in 1 .. Len(crLog) : ~HasUser(crLog[i])
  BY <1>3
<1>5. OlderLive /\ VersionsBacked
  BY <1>4 DEF OlderLive, VersionsBacked, Versions
<1>6. NoneTakenDown /\ CopyBacked /\ UserServed
  BY DEF Init, NoneTakenDown, CopyBacked, UserServed, Creating, AfterUser
<1> QED
  BY <1>1, <1>2, <1>5, <1>6 DEF OperatorInv, Served

\* A step that keeps Identity's invariant keeps Provisioning's, unless it is
\* about to write a phase.
LEMMA ProvisioningBesides ==
    ASSUME OperatorInv, Inv', UNCHANGED <<ns, volume>>,
           pc' \notin {"resetStatus", "statusBuilding", "statusInitializing"}
    PROVE  ProvisioningInv'
<1>1. ProvisioningTypeOK' /\ CopyIsCurrent'
  BY DEF Inv, TypeOK, ProvisioningTypeOK, CopyIsStored, CopyIsCurrent
<1> QED
  BY <1>1, ProvisioningAtRest DEF OperatorInv

\* Reading the DevEnv and its Builder: the oldest version decides whether a
\* realm is taken down, and then no later one has a user.
LEMMA ReadingServes ==
    ASSUME OperatorInv, GetFindsNothing \/ GetFindsDevEnv \/ GetBuilder, UNCHANGED kc
    PROVE  OperatorInv' /\ Stored' = Stored
<1> USE DEF OperatorInv
<1>1. Inv' /\ Stored' = Stored
  BY ReadingSteps
<1>2. ProvisioningInv'
  BY ProvisioningReading
<1>3. crLog' = crLog /\ LogStep
  BY DEF GetFindsNothing, GetFindsDevEnv, ReconcileStarts, GetBuilder, LogStep
<1>4. CASE GetFindsNothing
  <2>1. pc' = "idle"
    BY <1>4 DEF GetFindsNothing, ReconcileStarts
  <2> QED
    BY <1>3, <2>1, ServedAtRest, <1>1, <1>2
<1>5. CASE GetFindsDevEnv
  <2>1. /\ Cached.exists /\ devenv' = Cached
        /\ pc' = IF Cached.deleting THEN "deleteRealm" ELSE "getBuilder"
    BY <1>5 DEF GetFindsDevEnv
  <2>2. Versions' = Versions /\ Cached \in Versions
    BY <1>3, VersionsAfter, VersionsOfLog DEF Inv, TypeOK, ControllerTypeOK
  <2>3. OlderLive' /\ VersionsBacked'
    BY <1>3, LogStepKeeps DEF Inv, TypeOK, ControllerTypeOK, Served
  <2>4. NoneTakenDown'
    <3>1. ASSUME NEW j \in 1 .. Len(crLog), HasUser(crLog[j]) PROVE ~Cached.deleting
      <4>1. Len(crLog) \in Nat \ {0} /\ Cached = crLog[1]
        BY LogOfObjects DEF Inv, TypeOK, ControllerTypeOK, Cached
      <4>2. 1 \in 1 .. Len(crLog) /\ 1 <= j
        BY <4>1
      <4>3. Live(crLog[1])
        BY <3>1, <4>2 DEF Served, OlderLive
      <4> QED
        BY <4>1, <4>3 DEF Live
    <3> QED
      BY <2>1, <2>2, <3>1 DEF NoneTakenDown, Versions
  <2>5. CopyBacked'
    BY <2>1, <2>2 DEF CopyBacked, Served, VersionsBacked, HasUser, Live, Creating,
       UserIsThere
  <2>6. UserServed'
    BY <2>1 DEF UserServed, AfterUser
  <2> QED
    BY <1>1, <1>2, <2>3, <2>4, <2>5, <2>6 DEF Served
<1>6. CASE GetBuilder
  <2>1. CASE ReturnRequeue
    <3>1. pc' = "idle"
      BY <2>1 DEF ReturnRequeue
    <3> QED
      BY <1>1, <1>2, <1>3, <3>1, ServedAtRest
  <2>2. CASE UNCHANGED devenv /\ Goto("identity")
    <3>1. pc \in Creating /\ pc' = "identity"
      BY <1>6, <2>2 DEF GetBuilder, Goto, Creating, Labels
    <3> QED
      BY <1>1, <1>2, <1>3, <2>2, <3>1, ServedGoesOn DEF Creating, Labels, AfterUser
  <2> QED
    BY <1>6, <2>1, <2>2 DEF GetBuilder
<1> QED
  BY <1>4, <1>5, <1>6

\* Taking down serves nobody: no version that the cache has still to hear of
\* has a user.
LEMMA DeletionServes ==
    ASSUME OperatorInv, TakesDown
    PROVE  OperatorInv' /\ GoesLast
<1> USE DEF OperatorInv
<1>1. Inv' /\ GoesLast
  BY DeletionSteps DEF TakesDown
<1>2. UNCHANGED <<ns, volume>>
  BY DEF TakesDown, DeleteRealm, DeleteBuildPod, RemoveFinalizer, cluster
<1>3. pc' \in {"idle", "deleteBuildPod", "removeFinalizer"}
  BY DEF TakesDown, DeleteRealm, DeleteBuildPod, RemoveFinalizer, Goto, ReturnRequeue,
     ReturnDone
<1>4. ProvisioningInv'
  BY <1>1, <1>2, <1>3, ProvisioningBesides
<1>5. (NoneTakenDown /\ CopyBacked /\ UserServed)'
  BY <1>3 DEF NoneTakenDown, CopyBacked, UserServed, Creating, AfterUser
<1>6. OlderLive' /\ VersionsBacked'
  <2>1. CASE DeleteRealm
    <3>1. crLog' = crLog /\ Versions' = Versions /\ \A v \in Versions : ~HasUser(v)
      BY <2>1 DEF DeleteRealm, Versions, Served, NoneTakenDown
    <3> QED
      BY <3>1 DEF Served, OlderLive, VersionsBacked
  <2>2. CASE DeleteBuildPod
    <3>1. kc' = kc /\ LogStep
      BY <2>2 DEF DeleteBuildPod, LogStep
    <3> QED
      BY <3>1, LogStepKeeps DEF Inv, TypeOK, ControllerTypeOK, Served
  <2>3. CASE RemoveFinalizer
    <3>1. kc' = kc /\ (crLog' = crLog \/ crLog' = Append(crLog, Absent))
      BY <2>3 DEF RemoveFinalizer, Accepted, Rejected
    <3>2. LogStep
      BY <3>1, ObjectTypes DEF LogStep, HasUser, Live, Absent
    <3> QED
      BY <3>1, <3>2, LogStepKeeps DEF Inv, TypeOK, ControllerTypeOK, Served
  <2> QED
    BY <2>1, <2>2, <2>3 DEF TakesDown
<1> QED
  BY <1>1, <1>4, <1>5, <1>6 DEF Served

\* The calls that add to Keycloak: CreateClient goes on to the namespace only
\* with a copy that has a user, and with realm and client in place.
LEMMA KeycloakServes ==
    ASSUME OperatorInv, NewRealm \/ CreateClient \/ CreateUser \/ SetPassword
    PROVE  OperatorInv' /\ Stored' = Stored /\ kc \subseteq kc'
<1> USE DEF OperatorInv
<1>1. Inv' /\ Stored' = Stored /\ kc \subseteq kc'
  BY KeycloakSteps
<1>2. UNCHANGED <<ns, volume>>
  BY DEF NewRealm, CreateClient, CreateUser, SetPassword, cluster
<1>3. LogStep
  BY DEF NewRealm, CreateClient, CreateUser, SetPassword, Restarted, LogStep
<1>4. CASE pc' = "idle"
  BY <1>1, <1>2, <1>3, <1>4, ProvisioningBesides, ServedAtRest
<1>5. CASE /\ UNCHANGED local /\ pc \in Creating
           /\ pc' \in {"statusRealm", "createUser", "setPassword", "statusUser"}
  <2>1. UNCHANGED devenv /\ pc' \in Creating /\ pc' \notin AfterUser
    BY <1>5 DEF local, Creating, Labels, AfterUser
  <2>2. Served'
    BY <1>1, <1>3, <1>5, <2>1, ServedGoesOn
  <2> QED
    BY <1>1, <1>2, <1>5, <2>2, ProvisioningBesides
<1>6. CASE /\ UNCHANGED local /\ pc \in Creating
           /\ CreateClientOk /\ devenv.user /\ pc' = "namespace"
  <2>1. KeycloakObjects \subseteq kc'
    BY <1>6 DEF CreateClientOk, KeycloakObjects, Served, CopyBacked, UserIsThere
  <2>2. UNCHANGED devenv /\ pc' \in Creating
    BY <1>6 DEF local, Creating, Labels
  <2>3. Served'
    BY <1>1, <1>3, <1>6, <2>1, <2>2, ServedGoesOn
  <2> QED
    BY <1>1, <1>2, <1>6, <2>3, ProvisioningBesides
<1>7. CASE NewRealm
  <2>1. pc \in Creating
    BY <1>7 DEF NewRealm, Creating, Labels
  <2> QED
    BY <1>4, <1>5, <1>7, <2>1 DEF NewRealm, ReturnRequeue, Goto
<1>8. CASE CreateClient
  <2>1. pc \in Creating
    BY <1>8 DEF CreateClient, Creating, Labels
  <2>2. \/ pc' = "idle"
        \/ UNCHANGED local /\ pc' = "createUser"
        \/ UNCHANGED local /\ pc' = "namespace" /\ CreateClientOk /\ devenv.user
    BY <1>8 DEF CreateClient, NeedsUser, ReturnRequeue, ReturnAfter, Restarted, Goto
  <2> QED
    BY <1>4, <1>5, <1>6, <2>1, <2>2
<1>9. CASE CreateUser \/ SetPassword
  <2>1. pc \in Creating
    BY <1>9 DEF CreateUser, SetPassword, Creating, Labels
  <2> QED
    BY <1>4, <1>5, <1>9, <2>1 DEF CreateUser, SetPassword, ReturnRequeue, Goto
<1> QED
  BY <1>7, <1>8, <1>9

\* The writes of realm, finalizer and user.
LEMMA StatusServes ==
    ASSUME OperatorInv, StatusRealm \/ SetFinalizer \/ StatusUser
    PROVE  OperatorInv' /\ GoesLast
<1> USE DEF OperatorInv
<1>1. Inv' /\ GoesLast
  BY StatusWriteSteps
<1>2. UNCHANGED <<ns, volume, kc>> /\ pc \in Creating
  BY DEF StatusRealm, SetFinalizer, StatusUser, cluster, Creating, Labels
<1>3. PICK new \in DevEnvObject :
          /\ Accepted(new) \/ Rejected(new)
          /\ new.user => devenv.user \/ UserIsThere
          /\ \/ pc' = "idle"
             \/ devenv' = new /\ pc' \in {"setFinalizer", "createClient"}
  <2> devenv \in DevEnvObject
    BY DEF Inv, TypeOK, ControllerTypeOK
  <2>1. CASE StatusRealm
    <3>1. [devenv EXCEPT !.realm = TRUE] \in DevEnvObject
      BY ObjectTypes
    <3> QED
      BY <2>1, <3>1 DEF StatusRealm, Keep, Goto, ReturnRequeue, DevEnvObject
  <2>2. CASE SetFinalizer
    <3>1. [devenv EXCEPT !.finalizer = TRUE] \in DevEnvObject
      BY ObjectTypes
    <3> QED
      BY <2>2, <3>1 DEF SetFinalizer, Keep, Goto, ReturnRequeue, DevEnvObject
  <2>3. CASE StatusUser
    <3>1. [devenv EXCEPT !.user = TRUE] \in DevEnvObject
      BY ObjectTypes
    <3> QED
      BY <2>3, <3>1 DEF StatusUser, ReturnRequeue, Inv, KeycloakAtWrite, UserIsThere
  <2> QED
    BY <2>1, <2>2, <2>3
<1>4. LogStep
  BY <1>2, <1>3, WriteLogStep DEF Served
<1>5. Served'
  BY <1>2, <1>3, <1>4, ServedAtRest, ServedGoesOn DEF Creating, Labels, AfterUser
<1> QED
  BY <1>1, <1>2, <1>3, <1>5, ProvisioningBesides

-----------------------------------------------------------------------------
(* The provisioning half.                                                  *)

\* What a step of it does to the DevEnv and the worker: it returns, goes on,
\* writes a phase and returns, writes one and goes on, or the process ends.
ReturnsOnly    == crLog' = crLog /\ pc' = "idle" /\ fresh' = FALSE
GoesOn         == UNCHANGED <<crLog, devenv, fresh>> /\ pc' \in AfterUser
WritesAndGoesOn(phase) ==
    /\ Accepted(WithBuild(phase)) /\ Keep(WithBuild(phase))
    /\ pc' \in AfterUser

ShapeOfProvisions ==
    \/ ReturnsOnly \/ GoesOn \/ Relisted
    \/ \E phase \in BuildPhase : WritesAndReturns(phase) \/ WritesAndGoesOn(phase)

\* Every step of Provisions has one of these shapes.
LEMMA ProvisionsShape ==
    ASSUME Provisions
    PROVE  pc \in AfterUser /\ ShapeOfProvisions
<1> USE DEF AfterUser
<1>0. /\ (ReturnDone \/ ReturnRequeue \/ ReturnAfter) /\ crLog' = crLog
            => ReturnsOnly
      /\ UNCHANGED <<crLog, local>> /\ pc' \in AfterUser => GoesOn
  BY DEF ReturnDone, ReturnRequeue, ReturnAfter, Forget, local, ReturnsOnly, GoesOn
<1>1. CASE Namespace \/ Ensure
  <2>1. pc \in {"namespace", "ensure"} /\ crLog' = crLog
    BY <1>1 DEF Namespace, Ensure
  <2>2. \/ ReturnRequeue \/ ReturnAfter
        \/ UNCHANGED local /\ pc' \in {"ensure", "build", "resetStatus"}
    BY <1>1 DEF Namespace, CreateNamespace, Ensure, Goto
  <2> QED
    BY <1>0, <2>1, <2>2 DEF ShapeOfProvisions
<1>2. CASE BuildPanics
  BY <1>2 DEF BuildPanics, ShapeOfProvisions
<1>3. CASE BuildInitial \/ InitWaiting
  <2>1. pc \in {"build", "init"}
    BY <1>3 DEF BuildInitial, InitWaiting
  <2>2. PICK p \in PodNames, s \in AfterUser, r \in AfterUser : CreatesPod(p, s, r)
    BY <1>3 DEF BuildInitial, InitWaiting, PodNames
  <2>3. crLog' = crLog /\ (ReturnRequeue \/ (UNCHANGED local /\ pc' \in {s, r}))
    BY <2>2 DEF CreatesPod, Goto
  <2> QED
    BY <1>0, <2>1, <2>3 DEF ShapeOfProvisions
<1>4. CASE ReplaceBuildPod \/ ReplaceInitPod \/ DropBuildPod \/ DropInitPod
  <2>1. pc \in {"replaceBuildPod", "replaceInitPod", "dropBuildPod", "dropInitPod"}
    BY <1>4 DEF ReplaceBuildPod, ReplaceInitPod, DropBuildPod, DropInitPod
  <2>2. crLog' = crLog /\ (ReturnRequeue \/ ReturnAfter)
    BY <1>4 DEF ReplaceBuildPod, ReplaceInitPod, DropBuildPod, DropInitPod, DropsPod
  <2> QED
    BY <1>0, <2>1, <2>2 DEF ShapeOfProvisions
<1>5. CASE BuildPassed \/ InitPassed
  <2>1. pc \in {"build", "init"} /\ pc' \in {"init", "ide"} /\ UNCHANGED <<crLog, local>>
    BY <1>5 DEF BuildPassed, InitPassed, Goto
  <2> QED
    BY <1>0, <2>1 DEF ShapeOfProvisions
<1>6. CASE Ide
  <2>1. pc = "ide" /\ crLog' = crLog /\ (ReturnRequeue \/ ReturnDone)
    BY <1>6 DEF Ide, CreateIde, Proxy
  <2> QED
    BY <1>0, <2>1 DEF ShapeOfProvisions
<1>7. CASE ResetStatus \/ StatusBuilding \/ StatusInitializing \/ BuildWithoutBuilder
  <2>1. \E phase \in BuildPhase : WritesAndReturns(phase)
    BY <1>7, PhaseTypes, WritesPhaseReturns DEF ResetStatus, StatusBuilding,
       StatusInitializing, BuildWithoutBuilder, WritesAndReturns
  <2> QED
    BY <1>7, <2>1 DEF ResetStatus, StatusBuilding, StatusInitializing,
       BuildWithoutBuilder, ShapeOfProvisions
<1>8. CASE BuildBuilding \/ InitInitializing
  <2>0. pc \in AfterUser
    BY <1>8 DEF BuildBuilding, InitInitializing
  <2>1. PICK p \in PodNames, back \in BuildPhase, next \in BuildPhase,
             d \in {"dropBuildPod", "dropInitPod"} : Watches(p, back, next, d)
    BY <1>8, PhaseTypes DEF BuildBuilding, InitInitializing, PodNames
  <2>2. CASE WritesPhase(back)
    BY <2>0, <2>2, WritesPhaseReturns DEF ShapeOfProvisions
  <2>3. CASE SetDevEnvStatus(next) /\ Keep(WithBuild(next)) /\ Goto(d)
    BY <2>0, <2>3 DEF SetDevEnvStatus, Goto, WritesAndGoesOn, ShapeOfProvisions
  <2>4. CASE SetDevEnvStatusFails(next) /\ ReturnRequeue /\ UNCHANGED cluster
    BY <2>0, <2>4 DEF WritesAndReturns, ShapeOfProvisions
  <2>5. CASE (ReturnDone \/ ReturnAfter) /\ UNCHANGED crLog
    BY <1>0, <2>0, <2>5 DEF ShapeOfProvisions
  <2> QED
    BY <2>1, <2>2, <2>3, <2>4, <2>5 DEF Watches
<1> QED
  BY <1>1, <1>2, <1>3, <1>4, <1>5, <1>6, <1>7, <1>8 DEF Provisions

\* A phase is written into a copy that is live and keeps realm and user.
LEMMA PhaseInCopy ==
    ASSUME Inv, pc \in Creating, NEW phase \in BuildPhase
    PROVE  /\ Live(devenv) /\ WithBuild(phase) \in DevEnvObject /\ Live(WithBuild(phase))
           /\ WithBuild(phase).realm = devenv.realm
           /\ WithBuild(phase).user = devenv.user
<1>1. devenv \in DevEnvObject
  BY DEF Inv, TypeOK, ControllerTypeOK
<1>2. WithBuild(phase) \in DevEnvObject
  BY <1>1, ObjectTypes DEF WithBuild
<1> QED
  BY <1>1, <1>2 DEF WithBuild, DevEnvObject, Live, Inv, CopyIsLive

\* Such a step keeps what Identity knows of the DevEnv.
LEMMA ProvisionsKeepInv ==
    ASSUME Inv, TypeOK', pc \in AfterUser, ShapeOfProvisions, kc' = kc
    PROVE  Inv'
<1>1. pc \in Creating
  BY DEF AfterUser, Creating, Labels
<1>2. CASE ReturnsOnly
  BY <1>2, UnchangedLog, InvAtRest DEF ReturnsOnly
<1>3. CASE Relisted
  BY <1>3, RelistedLog, InvAtRest DEF Relisted, Restarted, Forget
<1>4. CASE GoesOn
  <2>1. CopyIsLive' /\ KeycloakAtWrite' /\ NobodyRelies'
    BY <1>1, <1>4 DEF GoesOn, Inv, CopyIsLive, KeycloakAtWrite, NobodyRelies, AfterUser
  <2> QED
    BY <1>4, <2>1, InvGoesOn DEF GoesOn
<1>5. ASSUME NEW phase \in BuildPhase, WritesAndReturns(phase) PROVE Inv'
  <2>1. Backed'
    BY <1>1, <1>5, PhaseInCopy, LiveWrite
    DEF WritesAndReturns, SetDevEnvStatus, SetDevEnvStatusFails
  <2>2. pc' = "idle" /\ fresh' = FALSE
    BY <1>5 DEF WritesAndReturns, ReturnRequeue, ReturnAfter, Forget
  <2> QED
    BY <2>1, <2>2 DEF Inv, CopyIsStored, CopyIsLive, NobodyRelies, KeycloakAtWrite,
       Creating, Labels
<1>6. ASSUME NEW phase \in BuildPhase, WritesAndGoesOn(phase) PROVE Inv'
  <2> DEFINE new == WithBuild(phase)
  <2>1. new \in DevEnvObject /\ Live(new)
    BY <1>1, PhaseInCopy
  <2>2. Backed' /\ Stored' = new /\ \A v \in Versions' : Live(v)
    BY <1>1, <1>6, PhaseInCopy, LiveWrite DEF WritesAndGoesOn
  <2>3. devenv' = new /\ pc' \in AfterUser
    BY <1>6 DEF WritesAndGoesOn, Keep
  <2>4. Versions' \subseteq DevEnvObject
    BY DEF TypeOK, ControllerTypeOK, Versions
  <2>5. \A v \in Versions' : v.exists /\ v.deleting = devenv'.deleting
    BY <2>1, <2>2, <2>3, <2>4 DEF Live, DevEnvObject
  <2> HIDE DEF new
  <2>6. CopyIsStored'
    BY <2>2, <2>3, <2>5 DEF CopyIsStored
  <2>7. CopyIsLive' /\ NobodyRelies' /\ KeycloakAtWrite'
    BY <2>1, <2>3 DEF CopyIsLive, NobodyRelies, KeycloakAtWrite, Live, AfterUser
  <2> QED
    BY <2>2, <2>6, <2>7 DEF Inv
<1> QED
  BY <1>2, <1>3, <1>4, <1>5, <1>6 DEF ShapeOfProvisions

\* And what is known of its user.
LEMMA ProvisionsServe ==
    ASSUME OperatorInv, Provisions, UNCHANGED kc
    PROVE  OperatorInv' /\ StoredMoves
<1> USE DEF OperatorInv
<1>1. ProvisioningInv' /\ StoredMoves
  BY ProvisioningSteps DEF ProvisioningReconcile
<1>2. pc \in AfterUser /\ ShapeOfProvisions
  BY ProvisionsShape
<1>3. Inv'
  <2>1. TypeOK'
    BY <1>1 DEF ProvisioningInv, ProvisioningTypeOK, Inv, TypeOK, KeycloakTypeOK
  <2> QED
    BY <1>2, <2>1, ProvisionsKeepInv
<1>4. pc \in Creating /\ (pc' \in AfterUser => pc' \in Creating)
  BY <1>2 DEF AfterUser, Creating, Labels
<1>5. KeycloakObjects \subseteq kc'
  BY <1>2 DEF Served, UserServed
<1>6. CASE ReturnsOnly \/ Relisted
  <2>1. LogStep /\ pc' = "idle"
    BY <1>6 DEF ReturnsOnly, Relisted, Restarted, LogStep
  <2>2. Served'
    BY <2>1, ServedAtRest
  <2> QED
    BY <1>1, <1>3, <2>2
<1>7. CASE GoesOn
  <2>1. LogStep /\ UNCHANGED devenv /\ pc' \in AfterUser
    BY <1>7 DEF GoesOn, LogStep
  <2>2. Served'
    BY <1>4, <1>5, <2>1, ServedGoesOn
  <2> QED
    BY <1>1, <1>3, <2>2
<1>8. ASSUME NEW phase \in BuildPhase, WritesAndReturns(phase) \/ WritesAndGoesOn(phase)
      PROVE  Served'
  <2>1. /\ WithBuild(phase) \in DevEnvObject
        /\ WithBuild(phase).user = devenv.user
    BY <1>4, PhaseInCopy
  <2>2. Accepted(WithBuild(phase)) \/ Rejected(WithBuild(phase))
    BY <1>8 DEF WritesAndReturns, WritesAndGoesOn, SetDevEnvStatus, SetDevEnvStatusFails
  <2>3. LogStep
    BY <1>4, <2>1, <2>2, WriteLogStep DEF Served
  <2>4. CASE WritesAndReturns(phase)
    BY <2>3, <2>4, ServedAtRest DEF WritesAndReturns, ReturnRequeue, ReturnAfter
  <2>5. CASE WritesAndGoesOn(phase)
    <3>1. devenv' = WithBuild(phase) /\ pc' \in AfterUser
      BY <2>5 DEF WritesAndGoesOn, Keep
    <3> QED
      BY <1>4, <1>5, <2>1, <2>3, <3>1, ServedGoesOn
  <2> QED
    BY <1>8, <2>4, <2>5
<1> QED
  BY <1>1, <1>2, <1>3, <1>6, <1>7, <1>8 DEF ShapeOfProvisions

-----------------------------------------------------------------------------
(* Everybody else, and all steps together.                                 *)

\* Users give a DevEnv no user that it has not.
LEMMA UserLogStep ==
    ASSUME Inv, Served, User
    PROVE  /\ LogStep
           /\ \A v \in Versions' : HasUser(v) => \E w \in Versions : HasUser(w)
<1>1. /\ crLog \in Seq(DevEnvObject) /\ crLog # <<>>
      /\ Stored \in DevEnvObject /\ Stored \in Versions
      /\ Len(crLog) \in Nat \ {0}
  BY LogOfObjects, VersionsOfLog DEF Inv, TypeOK, ControllerTypeOK
<1>2. PICK new \in DevEnvObject :
          /\ crLog' = Append(crLog, new)
          /\ HasUser(new) => HasUser(Stored)
  <2>1. CASE UserCreates
    <3>1. PICK b \in BOOLEAN : crLog' = Append(crLog, Created(b))
      BY <2>1 DEF UserCreates, ForeignWrite
    <3>2. Created(b) \in DevEnvObject /\ ~HasUser(Created(b))
      BY ObjectTypes DEF Inv, TypeOK, ControllerTypeOK, Created, Absent, HasUser
    <3> QED
      BY <3>1, <3>2
  <2>2. CASE UserDeletes
    <3>0. [Stored EXCEPT !.deleting = TRUE] \in DevEnvObject /\ Absent \in DevEnvObject
      BY <1>1, ObjectTypes
    <3>1. ~HasUser([Stored EXCEPT !.deleting = TRUE]) /\ ~HasUser(Absent)
      BY <1>1 DEF Absent, HasUser, Live, DevEnvObject
    <3>2. \/ crLog' = Append(crLog, [Stored EXCEPT !.deleting = TRUE])
          \/ crLog' = Append(crLog, Absent)
      BY <2>2 DEF UserDeletes, ForeignWrite
    <3> QED
      BY <3>0, <3>1, <3>2
  <2>3. CASE UserEdits
    <3>1. PICK b \in BOOLEAN : crLog' = Append(crLog, [Stored EXCEPT !.builderName = b])
      BY <2>3 DEF UserEdits, ForeignWrite
    <3>2. /\ [Stored EXCEPT !.builderName = b] \in DevEnvObject
          /\ HasUser([Stored EXCEPT !.builderName = b]) => HasUser(Stored)
      BY <1>1, ObjectTypes DEF HasUser, Live, DevEnvObject
    <3> QED
      BY <3>1, <3>2
  <2> QED
    BY <2>1, <2>2, <2>3 DEF User
<1>3. HasUser(Stored) => UserIsThere /\ \A v \in Versions : Live(v)
  <2>1. ASSUME HasUser(Stored), NEW i \in 1 .. Len(crLog) PROVE Live(crLog[i])
    <3>1. Len(crLog) \in 1 .. Len(crLog) /\ i <= Len(crLog)
      BY <1>1
    <3> QED
      BY <2>1, <3>1 DEF Served, OlderLive, Stored
  <2> QED
    BY <1>1, <2>1 DEF Served, VersionsBacked, Versions
<1>4. Versions' \subseteq Versions \cup {new}
  BY <1>1, <1>2, VersionsAfter
<1> QED
  BY <1>1, <1>2, <1>3, <1>4 DEF LogStep

\* Crashes, users, informers and the cluster keep the invariant.
LEMMA ElsewhereServes ==
    ASSUME OperatorInv, Elsewhere
    PROVE  OperatorInv'
<1> USE DEF OperatorInv
<1>0. kc' = kc
  BY DEF Elsewhere
<1>1. CASE Crash
  <2>1. Inv' /\ ProvisioningInv'
    BY <1>0, <1>1, CrashSteps, RestartSteps
  <2>2. LogStep /\ pc' = "idle"
    BY <1>1 DEF Crash, Relisted, Restarted, LogStep
  <2> QED
    BY <1>0, <2>1, <2>2, ServedAtRest
<1>2. CASE Surroundings
  <2>1. Inv' /\ ProvisioningInv'
    BY <1>0, <1>2, SurroundingsInv, ProvisioningSurroundings
  <2>2. UNCHANGED <<pc, devenv>>
    BY <1>2, SurroundingsSteps DEF Inv, TypeOK
  <2>3. /\ LogStep
        /\ \A v \in Versions' : HasUser(v) => \E w \in Versions : HasUser(w)
    <3>1. CASE User
      BY <3>1, UserLogStep
    <3>2. CASE DevEnvEvent
      <4>1. Len(crLog) > 1 /\ crLog' = Tail(crLog)
        BY <3>2 DEF DevEnvEvent
      <4>2. Versions' \subseteq Versions
        BY <4>1, VersionsAfter DEF Inv, TypeOK, ControllerTypeOK
      <4> QED
        BY <4>1, <4>2 DEF LogStep
    <3>3. CASE crLog' = crLog
      BY <3>3 DEF LogStep, Versions
    <3>4. User \/ DevEnvEvent \/ crLog' = crLog
      BY <1>2, ClusterStepsFrame DEF Surroundings, ClusterSteps, Events, OtherEvent,
         Delay, TimerFires
    <3> QED
      BY <3>1, <3>2, <3>3, <3>4
  <2> QED
    BY <1>0, <2>1, <2>2, <2>3, ServedBesides
<1> QED
  BY <1>1, <1>2 DEF Elsewhere

\* The invariant is inductive.
LEMMA OperatorInvNext == OperatorInv /\ [OperatorNext]_vars => OperatorInv'
<1> SUFFICES ASSUME OperatorInv, [OperatorNext]_vars PROVE OperatorInv'
  OBVIOUS
<1>1. CASE Reads
  BY <1>1, ReadingServes DEF Reads
<1>2. CASE TakesDown
  BY <1>2, DeletionServes
<1>3. CASE Identifies
  BY <1>3, KeycloakServes, StatusServes DEF Identifies
<1>4. CASE Provisions /\ UNCHANGED kc
  BY <1>4, ProvisionsServe
<1>5. CASE Elsewhere
  BY <1>5, ElsewhereServes
<1>6. CASE UNCHANGED vars
  <2>1. Inv'
    BY <1>6, UnchangedSteps DEF OperatorInv
  <2>2. ProvisioningInv'
    BY <1>6, ProvisioningInvNext DEF OperatorInv, vars
  <2>3. Served'
    BY <1>6 DEF OperatorInv, vars, clusterVars, controllerVars, Served, OlderLive,
       VersionsBacked, NoneTakenDown, CopyBacked, UserServed, Versions, UserIsThere
  <2> QED
    BY <2>1, <2>2, <2>3 DEF OperatorInv
<1> QED
  BY <1>1, <1>2, <1>3, <1>4, <1>5, <1>6 DEF OperatorNext, WholeReconcile

-----------------------------------------------------------------------------
(* Who makes an IDE pod.                                                   *)

MakesIde == pods["ide"] = "absent" /\ pods'["ide"] = "pending"

\* Nothing that befalls a pod makes it pending, and the other pods are others.
LEMMA MakesNoIde ==
    ASSUME ClusterTypeOK,
           \/ pods' = pods
           \/ CreatePod("build") \/ CreatePod("init")
           \/ \E p \in PodNames : DeletePod(p)
           \/ \E p \in PodNames, from \in PodStates, to \in PodStates \ {"pending"} :
                  PodMoves(p, from, to)
           \/ \E p \in PodNames : pods' = [pods EXCEPT ![p] = "absent"]
    PROVE  ~MakesIde
  BY DEF MakesIde, ClusterTypeOK, PodNames, CreatePod, DeletePod, Deleted, PodMoves

\* Of all steps of Provisions only the one at "ide" makes one.
LEMMA ProvisionsMakeIde ==
    ASSUME ClusterTypeOK, Provisions, MakesIde
    PROVE  Ide
<1>1. CASE \/ Namespace \/ ResetStatus \/ Ensure \/ BuildPanics \/ StatusBuilding
           \/ BuildBuilding \/ BuildWithoutBuilder \/ BuildPassed \/ StatusInitializing
           \/ InitInitializing \/ InitPassed
  <2>1. pods' = pods
    BY <1>1 DEF Namespace, ResetStatus, Ensure, BuildPanics, StatusBuilding, BuildBuilding,
       BuildWithoutBuilder, BuildPassed, StatusInitializing, InitInitializing, InitPassed,
       WritesPhase, Watches, Relisted, cluster
  <2> QED
    BY <2>1, MakesNoIde
<1>2. CASE BuildInitial \/ InitWaiting
  <2>1. pods' = pods \/ CreatePod("build") \/ CreatePod("init")
    BY <1>2 DEF BuildInitial, InitWaiting, CreatesPod
  <2> QED
    BY <2>1, MakesNoIde
<1>3. CASE ReplaceBuildPod \/ DropBuildPod \/ ReplaceInitPod \/ DropInitPod
  <2>1. pods' = pods \/ \E p \in PodNames : DeletePod(p)
    BY <1>3 DEF ReplaceBuildPod, DropBuildPod, ReplaceInitPod, DropInitPod, DropsPod, PodNames
  <2> QED
    BY <2>1, MakesNoIde
<1> QED
  BY <1>1, <1>2, <1>3 DEF Provisions

\* Nobody else does.
LEMMA OthersMakeNoIde ==
    ASSUME ClusterTypeOK, Surroundings \/ Crash
    PROVE  ~MakesIde
<1>1. CASE Kubelet
  <2>1. \/ pods' = pods
        \/ \E p \in PodNames, from \in PodStates, to \in PodStates \ {"pending"} :
               PodMoves(p, from, to)
    BY <1>1, KubeletMoves, MovesFromTo
  <2> QED
    BY <2>1, MakesNoIde
<1>2. CASE PodTrouble
  <2>1. \/ \E p \in PodNames : DeletePod(p)
        \/ \E p \in PodNames, from \in PodStates, to \in PodStates \ {"pending"} :
               PodMoves(p, from, to)
    BY <1>2, TroubleMoves, MovesFromTo
  <2> QED
    BY <2>1, MakesNoIde
<1>3. CASE NamespaceDrains \/ Collector
  <2>1. \/ pods' = pods
        \/ \E p \in PodNames : DeletePod(p)
        \/ \E p \in PodNames : pods' = [pods EXCEPT ![p] = "absent"]
    BY <1>3 DEF NamespaceDrains, Collector, CollectNamespace, CollectClaim, CollectIde,
       PodNames
  <2> QED
    BY <2>1, MakesNoIde
<1>4. CASE \/ User \/ Events \/ ObjectEvent \/ Delay \/ AdminDeletesNamespace
           \/ NamespaceGoes \/ BuilderChanges \/ Crash
  <2>1. pods' = pods
    BY <1>4 DEF User, Events, ObjectEvent, Delay, AdminDeletesNamespace, NamespaceGoes,
       BuilderChanges, Crash, Relisted, cluster
  <2> QED
    BY <2>1, MakesNoIde
<1> QED
  BY <1>1, <1>2, <1>3, <1>4 DEF Surroundings

\* Of all steps of the whole only the worker's last one makes an IDE.
LEMMA IdeIsMadeLast ==
    ASSUME TypeOK, [OperatorNext]_vars, MakesIde
    PROVE  Provisions /\ pc = "ide"
<1> USE DEF TypeOK
<1>1. CASE Provisions
  BY <1>1, ProvisionsMakeIde DEF Ide
<1>2. CASE Elsewhere
  BY <1>2, OthersMakeNoIde DEF Elsewhere
<1>3. CASE DeleteBuildPod
  <2>1. pods' = pods \/ \E p \in PodNames : DeletePod(p)
    BY <1>3 DEF DeleteBuildPod, PodNames
  <2> QED
    BY <2>1, MakesNoIde
<1>4. CASE Reads \/ DeleteRealm \/ RemoveFinalizer \/ Identifies \/ UNCHANGED vars
  <2>1. pods' = pods
    BY <1>4 DEF Reads, GetFindsNothing, GetFindsDevEnv, ReconcileStarts, GetBuilder,
       DeleteRealm, RemoveFinalizer, Identifies, NewRealm, StatusRealm, SetFinalizer,
       CreateClient, CreateUser, SetPassword, StatusUser, vars, clusterVars, cluster
  <2> QED
    BY <2>1, MakesNoIde
<1> QED
  BY <1>1, <1>2, <1>3, <1>4 DEF OperatorNext, WholeReconcile, TakesDown

\* It is a step of a worker that has seen to the user.
LEMMA IdeIsForUserNext == OperatorInv /\ [OperatorNext]_vars => IdeIsForUser
<1> SUFFICES ASSUME OperatorInv, [OperatorNext]_vars, MakesIde
             PROVE  {"realm", "client", "user", "password"} \subseteq kc
  BY DEF IdeIsForUser, MakesIde
<1>1. pc = "ide"
  BY IdeIsMadeLast DEF OperatorInv, Inv
<1> QED
  BY <1>1 DEF OperatorInv, Served, UserServed, AfterUser, KeycloakObjects

-----------------------------------------------------------------------------
(* What the halves say of every step, for the steps of both.               *)

\* A phase that is written leaves the rest of the DevEnv as it is.
LEMMA StoredMovesLife ==
    ASSUME OperatorInv, StoredMoves, kc' = kc
    PROVE  LifeStep /\ GoesLast
<1>1. Stored \in DevEnvObject
  BY LogOfObjects DEF OperatorInv, Inv, TypeOK, ControllerTypeOK
<1>2. /\ Stored'.exists = Stored.exists /\ Stored'.deleting = Stored.deleting
      /\ Stored'.finalizer = Stored.finalizer
      /\ Stored'.realm = Stored.realm /\ Stored'.user = Stored.user
  BY <1>1 DEF StoredMoves, DevEnvObject
<1>3. UNCHANGED Life!vars
  BY <1>2 DEF Life!vars
<1> QED
  BY <1>2, <1>3 DEF LifeStep, GoesLast

\* Every step of the whole is a step or a stutter of Lifecycle.
LEMMA OperatorLife ==
    ASSUME OperatorInv, [OperatorNext]_vars
    PROVE  LifeStep
<1> USE DEF OperatorInv
<1>1. CASE Provisions /\ UNCHANGED kc
  BY <1>1, ProvisionsServe, StoredMovesLife
<1>2. CASE [Next]_vars
  BY <1>2, LifeNext
<1> QED
  BY <1>1, <1>2 DEF OperatorNext, WholeReconcile, Elsewhere, Next, Reconcile

\* The writes of the identity half leave the phase alone.
LEMMA IdentityKeepsPhase ==
    ASSUME OperatorInv, TakesDown \/ Identifies, Stored.exists, Stored'.exists
    PROVE  Stored'.build = Stored.build
<1> USE DEF OperatorInv
<1>1. Stored \in DevEnvObject /\ devenv \in DevEnvObject
  BY LogOfObjects DEF Inv, TypeOK, ControllerTypeOK
<1>2. CASE DeleteRealm \/ DeleteBuildPod
  BY <1>2 DEF DeleteRealm, DeleteBuildPod, Stored
<1>3. CASE NewRealm \/ CreateClient \/ CreateUser \/ SetPassword
  BY <1>3, KeycloakServes
<1>4. CASE RemoveFinalizer
  <2>1. Stored' = Stored \/ Stored' = Absent
    BY <1>4, WriteTypes, ObjectTypes DEF RemoveFinalizer, Inv, TypeOK
  <2> QED
    BY <2>1 DEF Absent
<1>5. CASE StatusRealm \/ SetFinalizer \/ StatusUser
  <2>1. PICK new \in DevEnvObject :
            (Accepted(new) \/ Rejected(new)) /\ new.build = devenv.build
    <3>1. /\ [devenv EXCEPT !.realm = TRUE] \in DevEnvObject
          /\ [devenv EXCEPT !.finalizer = TRUE] \in DevEnvObject
          /\ [devenv EXCEPT !.user = TRUE] \in DevEnvObject
      BY <1>1, ObjectTypes
    <3> QED
      BY <1>1, <1>5, <3>1 DEF StatusRealm, SetFinalizer, StatusUser, DevEnvObject
  <2>2. Stored' = Stored \/ (fresh /\ Stored' = new)
    BY <2>1, WriteTypes DEF Inv, TypeOK
  <2> QED
    BY <2>1, <2>2 DEF Inv, CopyIsStored
<1> QED
  BY <1>2, <1>3, <1>4, <1>5 DEF TakesDown, Identifies

\* Every step of the whole keeps the stored phase or moves it legally.
LEMMA OperatorMovesLegally ==
    ASSUME OperatorInv, [OperatorNext]_vars, Stored.exists, Stored'.exists
    PROVE  \/ Stored'.build = Stored.build
           \/ /\ LegalWrite(Stored'.build)
              /\ Stored'.build = BuildPhaseInitial /\ BuildIsOver => volume = "none"
<1> USE DEF OperatorInv
<1>1. CASE TakesDown \/ Identifies
  BY <1>1, IdentityKeepsPhase
<1>2. CASE [ProvisioningNext]_clusterVars
  BY <1>2, EveryStepMovesLegally
<1> QED
  BY <1>1, <1>2 DEF OperatorNext, WholeReconcile, Reads, Elsewhere, ProvisioningNext,
     ProvisioningReconcile, vars

-----------------------------------------------------------------------------
(* Theorems.                                                               *)

\* The two halves of Reconcile keep each other's invariants, and the worker that
\* goes on to the namespace has a user in Keycloak until it returns.
THEOREM OperatorInvariance == OperatorSpec => []OperatorInv
<1>1. Init => OperatorInv
  BY OperatorInvInit
<1>2. OperatorInv /\ [OperatorNext]_vars => OperatorInv'
  BY OperatorInvNext
<1> QED
  BY <1>1, <1>2, PTL DEF OperatorSpec

\* No IDE pod is made while realm, client, user or password are missing: the
\* namespace is only reached with a copy whose user is recorded, and no
\* reconcile that takes the realm down can start as long as one is.
THEOREM IdeOnlyForUserHolds == OperatorSpec => IdeOnlyForUser
<1>1. OperatorInv /\ [OperatorNext]_vars => [IdeIsForUser]_vars
  BY IdeIsForUserNext
<1> QED
  BY <1>1, OperatorInvariance, PTL DEF OperatorSpec, IdeOnlyForUser

\* What Identity promises of realm and user holds when the other half is not a
\* single step but all of its own.
THEOREM OperatorKeepsRealmAndUser ==
    OperatorSpec => [](LiveRealmStays /\ RecordedUserCanLogIn)
<1>1. OperatorInv => LiveRealmStays /\ RecordedUserCanLogIn
  BY DEF OperatorInv, Inv, Backed, Relied, Live, LiveRealmStays, RecordedUserCanLogIn
<1> QED
  BY <1>1, OperatorInvariance, PTL

\* The whole of Reconcile implements Lifecycle.
THEOREM OperatorImplementsLifecycle == OperatorSpec => ImplementsLifecycle
<1>1. Init => Life!Init
  BY LifeInit
<1>2. OperatorInv /\ [OperatorNext]_vars => [Life!Next]_(Life!vars)
  BY OperatorLife DEF LifeStep
<1> QED
  BY <1>1, <1>2, OperatorInvariance, PTL DEF OperatorSpec, ImplementsLifecycle, Life!Spec

\* Status.Build moves legally, and never back to Initial over a volume, when the
\* object also carries realm, user and finalizer and may be marked as deleted.
THEOREM OperatorMovesPhases == OperatorSpec => PhaseOrder /\ FinishedVolumeKept
<1>1. OperatorInv /\ [OperatorNext]_vars
          => [MoveOfPhase]_clusterVars /\ [StartsOverWithoutVolume]_clusterVars
  <2> SUFFICES ASSUME OperatorInv, [OperatorNext]_vars
               PROVE  MoveOfPhase /\ StartsOverWithoutVolume
    OBVIOUS
  <2>1. MoveOfPhase
    BY OperatorMovesLegally DEF MoveOfPhase, LegalWrite
  <2>2. BuildIsOver => Stored.build # BuildPhaseInitial
    BY DEF BuildIsOver, BuildPhaseInitial, BuildPhaseWaitForInitializion,
       BuildPhaseInitializing, BuildPhaseRunning
  <2>3. StartsOverWithoutVolume
    BY <2>2, OperatorMovesLegally DEF StartsOverWithoutVolume
  <2> QED
    BY <2>1, <2>3
<1> QED
  BY <1>1, OperatorInvariance, PTL DEF OperatorSpec, PhaseOrder, FinishedVolumeKept

=============================================================================
