----------------------------- MODULE CalmProofs -----------------------------
(***************************************************************************)
(* What the whole Reconcile promises of its pods and its volume as long as *)
(* its reads of the DevEnv are current and nobody edits the object or lets *)
(* a call fail: an IDE pod is made only in phase Running, no build or init *)
(* pod is left behind, and the IDE runs on a volume that has been filled.  *)
(* Users may delete and create, namespaces may go, pods be lost, Builders  *)
(* may change, any number of times.  From these follows that all of        *)
(* Reconcile implements Workspace.tla.                                     *)
(***************************************************************************)
EXTENDS OperatorProofs

-----------------------------------------------------------------------------
(* The conditions.                                                         *)

NoEdit == budget["edit"] = Budget["edit"]

\* No edit, no failed call and no crash so far.
Calm == \A d \in {"edit", "fault", "crash"} : budget[d] = Budget[d]

-----------------------------------------------------------------------------
(* The worker's copy and the stored object.                                *)

\* The UIDs given out are above those still to be given out, so that no DevEnv
\* ever has the UID of the one that the worker still holds.
Numbered(o) == IF o.exists THEN o.uid > budget["create"] ELSE o.uid = 0

BuildNeedsBuilder(o) == o.build = BuildPhaseBuilding => o.builderName

\* The labels after identity, and those at which the Builder has been read.
Onwards == AfterUser \cup {"statusRealm", "setFinalizer", "createClient",
                           "createUser", "setPassword", "statusUser"}

InCreation == Onwards \cup {"identity"}

UidsTell == Numbered(Stored) /\ (pc # "idle" => devenv.exists /\ Numbered(devenv))

\* While the DevEnv that was read is the one that is stored, the worker knows
\* its phase and its Builder.
CopyFollows ==
    pc # "idle" /\ devenv.uid = Stored.uid
        => devenv.build = Stored.build /\ devenv.builderName = Stored.builderName

BuildersFit ==
    /\ BuildNeedsBuilder(Stored)
    /\ pc # "idle" => BuildNeedsBuilder(devenv)
    /\ pc \in InCreation => (hasBuilder <=> devenv.builderName)

\* The guards under which a label was reached.
Reached ==
    /\ pc = "statusBuilding" => hasBuilder
    /\ pc = "replaceInitPod" => devenv.build = BuildPhaseWaitForInitializion
    /\ pc = "init" => devenv.build \notin {BuildPhaseInitial, BuildPhaseBuilding}
    /\ pc = "ide" => devenv.build = BuildPhaseRunning

Tracked == UidsTell /\ CopyFollows /\ BuildersFit /\ Reached

-----------------------------------------------------------------------------
(* Shapes of the steps of Identifies and Provisions.                       *)

\* What the worker writes: its copy with a status or the finalizer changed.
CopyWrite(new) ==
    /\ new \in DevEnvObject /\ new.exists
    /\ new.uid = devenv.uid /\ new.builderName = devenv.builderName
    /\ BuildNeedsBuilder(new)
    /\ new.deleting = devenv.deleting
    /\ devenv.finalizer => new.finalizer
    /\ new.realm => devenv.realm \/ pc = "statusRealm"

Ends ==
    /\ pc' = "idle"
    /\ \/ crLog' = crLog \/ crLog' = <<Stored>>
       \/ \E new \in DevEnvObject : CopyWrite(new) /\ (Accepted(new) \/ Rejected(new))

MovesOn == UNCHANGED <<crLog, devenv, fresh, usedBuilder>> /\ pc' \in Onwards

WritesOn ==
    /\ \E new \in DevEnvObject : CopyWrite(new) /\ Accepted(new) /\ Keep(new)
    /\ pc' \in Onwards

\* A disturbance that is spent leaves the others as they are.
KeepsCreations == budget'["create"] = budget["create"]

\* The disturbances that the worker may meet do not create DevEnvs.
LEMMA SpendOther ==
    ASSUME budget \in [Disturbances -> Nat], NEW d \in Disturbances, d # "create",
           Spend(d) \/ UNCHANGED budget
    PROVE  KeepsCreations
  BY DEF Spend, Disturbances, KeepsCreations

\* Neither do its writes.
LEMMA WritesKeepCreations ==
    ASSUME budget \in [Disturbances -> Nat], NEW new, Accepted(new) \/ Rejected(new)
    PROVE  KeepsCreations
<1>1. Spend("fault") \/ UNCHANGED budget
  BY DEF Accepted, Rejected
<1> QED
  BY <1>1, SpendOther DEF Disturbances

\* The copy with another phase is such a write, unless it is Building without a
\* Builder.
LEMMA PhaseIsCopyWrite ==
    ASSUME Inv, pc \in Creating, NEW phase \in BuildPhase,
           phase = BuildPhaseBuilding => devenv.builderName
    PROVE  CopyWrite(WithBuild(phase))
<1>1. devenv \in DevEnvObject /\ devenv.exists
  BY DEF Inv, TypeOK, ControllerTypeOK, CopyIsLive, Live
<1>2. WithBuild(phase) \in DevEnvObject
  BY <1>1, ObjectTypes DEF WithBuild
<1> QED
  BY <1>1, <1>2 DEF WithBuild, DevEnvObject, CopyWrite, BuildNeedsBuilder

\* Writing a phase and returning ends the reconcile with such a write.
LEMMA PhaseWriteEnds ==
    ASSUME Inv, pc \in Creating, NEW phase \in BuildPhase, WritesAndReturns(phase),
           phase = BuildPhaseBuilding => devenv.builderName
    PROVE  Ends /\ KeepsCreations
<1>1. Accepted(WithBuild(phase)) \/ Rejected(WithBuild(phase))
  BY DEF WritesAndReturns, SetDevEnvStatus, SetDevEnvStatusFails
<1>2. pc' = "idle"
  BY DEF WritesAndReturns, ReturnRequeue, ReturnAfter
<1>3. CopyWrite(WithBuild(phase)) /\ WithBuild(phase) \in DevEnvObject
  BY PhaseIsCopyWrite DEF CopyWrite
<1>4. KeepsCreations
  BY <1>1, WritesKeepCreations DEF Inv, TypeOK, ControllerTypeOK
<1> QED
  BY <1>1, <1>2, <1>3, <1>4 DEF Ends

\* The steps of Provisions that leave the DevEnv alone.
LEMMA QuietStepsShape ==
    ASSUME Inv, Tracked, \/ Namespace \/ Ensure \/ BuildInitial \/ InitWaiting \/ Ide
                         \/ ReplaceBuildPod \/ ReplaceInitPod \/ DropBuildPod \/ DropInitPod
                         \/ BuildPassed \/ InitPassed
    PROVE  (Ends \/ MovesOn) /\ KeepsCreations /\ Reached'
<1> USE DEF Inv, TypeOK, ControllerTypeOK
<1>1. crLog' = crLog
  BY DEF Namespace, Ensure, BuildInitial, InitWaiting, Ide, ReplaceBuildPod, ReplaceInitPod,
     DropBuildPod, DropInitPod, BuildPassed, InitPassed, CreatesPod, DropsPod
<1>2. KeepsCreations
  <2>1. Spend("fault") \/ UNCHANGED budget
    BY DEF Namespace, CreateNamespace, Ensure, BuildInitial, InitWaiting, Ide, CreateIde,
       ReplaceBuildPod, ReplaceInitPod, DropBuildPod, DropInitPod, BuildPassed, InitPassed,
       CreatesPod, DropsPod
  <2> QED
    BY <2>1, SpendOther DEF Disturbances
<1>3. CASE pc' = "idle"
  BY <1>1, <1>2, <1>3 DEF Ends, Reached
<1>4. CASE UNCHANGED local /\ pc' \in Onwards /\ Reached'
  BY <1>1, <1>2, <1>4 DEF MovesOn, local
<1>5. CASE Namespace \/ Ensure
  <2>1. \/ ReturnRequeue \/ ReturnAfter
        \/ UNCHANGED local /\ pc' \in {"ensure", "build", "resetStatus"}
    BY <1>5 DEF Namespace, CreateNamespace, Ensure, Goto
  <2> QED
    BY <1>3, <1>4, <2>1 DEF ReturnRequeue, ReturnAfter, Onwards, AfterUser, Reached
<1>6. CASE BuildInitial
  <2>1. /\ usedBuilder = "ok"
        /\ CreatesPod("build", "statusBuilding", "replaceBuildPod")
    BY <1>6 DEF BuildInitial
  <2>2. ReturnRequeue \/ (UNCHANGED local /\ pc' \in {"statusBuilding", "replaceBuildPod"})
    BY <2>1 DEF CreatesPod, Goto
  <2> QED
    BY <1>3, <1>4, <2>1, <2>2 DEF ReturnRequeue, Onwards, AfterUser, Reached, hasBuilder, local
<1>7. CASE InitWaiting
  <2>1. /\ devenv.build = BuildPhaseWaitForInitializion
        /\ \/ ReturnRequeue
           \/ UNCHANGED local /\ pc' \in {"statusInitializing", "replaceInitPod"}
    BY <1>7 DEF InitWaiting, CreatesPod, Goto
  <2> QED
    BY <1>3, <1>4, <2>1 DEF ReturnRequeue, Onwards, AfterUser, Reached, local
<1>8. CASE \/ Ide \/ ReplaceBuildPod \/ ReplaceInitPod \/ DropBuildPod \/ DropInitPod
  <2>1. ReturnRequeue \/ ReturnAfter \/ ReturnDone
    BY <1>8 DEF Ide, CreateIde, Proxy, ReplaceBuildPod, ReplaceInitPod, DropBuildPod,
       DropInitPod, DropsPod
  <2> QED
    BY <1>3, <2>1 DEF ReturnRequeue, ReturnAfter, ReturnDone
<1>9. CASE BuildPassed
  <2>1. /\ UNCHANGED local /\ pc = "build" /\ pc' = "init"
        /\ devenv.build # BuildPhaseInitial
        /\ hasBuilder => devenv.build # BuildPhaseBuilding
    BY <1>9 DEF BuildPassed, Goto
  <2>2. devenv.build # BuildPhaseBuilding
    BY <2>1 DEF Tracked, BuildersFit, BuildNeedsBuilder, InCreation, Onwards, AfterUser
  <2> QED
    BY <1>4, <2>1, <2>2 DEF local, Onwards, AfterUser, Reached
<1>10. CASE InitPassed
  <2>1. /\ UNCHANGED local /\ pc = "init" /\ pc' = "ide"
        /\ devenv.build \notin {BuildPhaseWaitForInitializion, BuildPhaseInitializing}
    BY <1>10 DEF InitPassed, Goto
  <2>2. devenv.build = BuildPhaseRunning
    BY <2>1, PhaseTypes DEF Tracked, Reached, DevEnvObject
  <2> QED
    BY <1>4, <2>1, <2>2 DEF local, Onwards, AfterUser, Reached
<1> QED
  BY <1>5, <1>6, <1>7, <1>8, <1>9, <1>10

\* Every step of Provisions ends the reconcile, moves on, or writes and moves on.
LEMMA ProvisionsTracked ==
    ASSUME Inv, Tracked, Provisions
    PROVE  (Ends \/ MovesOn \/ WritesOn) /\ KeepsCreations /\ Reached'
<1>0. pc \in AfterUser /\ pc \in Creating
  BY ProvisionsShape DEF AfterUser, Creating, Labels
<1>1. Ends => Reached'
  BY DEF Ends, Reached
<1>2. CASE BuildPanics
  <2>1. Ends
    BY <1>2 DEF BuildPanics, Relisted, Restarted, Ends
  <2>2. KeepsCreations
    BY <1>2 DEF BuildPanics, KeepsCreations
  <2> QED
    BY <1>1, <2>1, <2>2
<1>3. CASE ResetStatus \/ StatusBuilding \/ StatusInitializing \/ BuildWithoutBuilder
  <2>1. PICK phase \in BuildPhase :
            /\ WritesAndReturns(phase)
            /\ phase = BuildPhaseBuilding => StatusBuilding
    <3>1. CASE ResetStatus \/ StatusInitializing \/ StatusBuilding
      BY <3>1, PhaseTypes, WritesPhaseReturns DEF ResetStatus, StatusInitializing,
         StatusBuilding,
         BuildPhaseInitial, BuildPhaseBuilding, BuildPhaseInitializing
    <3>2. CASE BuildWithoutBuilder
      BY <3>2, PhaseTypes DEF BuildWithoutBuilder, WritesAndReturns, BuildPhaseBuilding,
         BuildPhaseWaitForInitializion
    <3> QED
      BY <1>3, <3>1, <3>2
  <2>2. phase = BuildPhaseBuilding => devenv.builderName
    BY <1>0, <2>1 DEF StatusBuilding, Tracked, Reached, BuildersFit, InCreation, Onwards
  <2> QED
    BY <1>0, <1>1, <2>1, <2>2, PhaseWriteEnds
<1>4. CASE BuildBuilding \/ InitInitializing
  <2>1. PICK p \in PodNames, back \in BuildPhase \ {BuildPhaseBuilding},
             next \in BuildPhase \ {BuildPhaseBuilding},
             d \in {"dropBuildPod", "dropInitPod"} : Watches(p, back, next, d)
    <3>1. CASE BuildBuilding
      BY <3>1, PhaseTypes DEF BuildBuilding, PodNames, BuildPhaseBuilding, BuildPhaseInitial,
         BuildPhaseWaitForInitializion
    <3>2. CASE InitInitializing
      BY <3>2, PhaseTypes DEF InitInitializing, PodNames, BuildPhaseBuilding, BuildPhaseRunning,
         BuildPhaseWaitForInitializion
    <3> QED
      BY <1>4, <3>1, <3>2
  <2>2. CASE WritesPhase(back)
    BY <1>0, <1>1, <2>2, WritesPhaseReturns, PhaseWriteEnds
  <2>3. CASE SetDevEnvStatusFails(next) /\ ReturnRequeue /\ UNCHANGED cluster
    <3>1. WritesAndReturns(next)
      BY <2>3 DEF WritesAndReturns
    <3> QED
      BY <1>0, <1>1, <3>1, PhaseWriteEnds
  <2>4. CASE SetDevEnvStatus(next) /\ Keep(WithBuild(next)) /\ Goto(d)
    <3>1. Accepted(WithBuild(next)) /\ Keep(WithBuild(next)) /\ pc' = d
      BY <2>4 DEF SetDevEnvStatus, Goto
    <3>2. CopyWrite(WithBuild(next)) /\ WithBuild(next) \in DevEnvObject
      BY <1>0, PhaseIsCopyWrite DEF CopyWrite
    <3>3. KeepsCreations
      BY <3>1, WritesKeepCreations DEF Inv, TypeOK, ControllerTypeOK
    <3> QED
      BY <3>1, <3>2, <3>3 DEF WritesOn, Onwards, AfterUser, Reached
  <2>5. CASE (ReturnDone \/ ReturnAfter) /\ UNCHANGED <<crLog, budget>>
    BY <1>1, <2>5 DEF ReturnDone, ReturnAfter, Ends, KeepsCreations
  <2> QED
    BY <2>1, <2>2, <2>3, <2>4, <2>5 DEF Watches
<1> QED
  BY <1>2, <1>3, <1>4, QuietStepsShape DEF Provisions

\* So does every step of Identifies.
LEMMA IdentifiesTracked ==
    ASSUME Inv, Tracked, Identifies
    PROVE  (Ends \/ MovesOn \/ WritesOn) /\ KeepsCreations /\ Reached'
<1> USE DEF Inv, TypeOK, ControllerTypeOK
<1>0. pc \in Creating /\ pc \in InCreation /\ pc \notin AfterUser
  BY DEF Identifies, NewRealm, StatusRealm, SetFinalizer, CreateClient, CreateUser,
     SetPassword, StatusUser, Creating, Labels, InCreation, Onwards, AfterUser
<1>1. CASE NewRealm \/ CreateClient \/ CreateUser \/ SetPassword
  <2>1. KeepsCreations
    <3>1. Spend("fault") \/ UNCHANGED budget
      BY <1>1 DEF NewRealm, CreateClient, CreateUser, SetPassword
    <3> QED
      BY <3>1, SpendOther DEF Disturbances
  <2>2. \/ pc' = "idle" /\ (crLog' = crLog \/ crLog' = <<Stored>>)
        \/ /\ UNCHANGED <<crLog, local>>
           /\ pc' \in {"statusRealm", "createUser", "setPassword", "statusUser", "namespace"}
    BY <1>1 DEF NewRealm, CreateClient, CreateUser, SetPassword, ReturnRequeue, ReturnAfter,
       Restarted, Goto
  <2> QED
    BY <2>1, <2>2 DEF Ends, MovesOn, local, Onwards, AfterUser, Reached
<1>2. CASE StatusRealm \/ SetFinalizer \/ StatusUser
  <2>1. devenv \in DevEnvObject /\ devenv.exists /\ BuildNeedsBuilder(devenv)
    BY <1>0 DEF CopyIsLive, Live, Tracked, BuildersFit, Creating
  <2>2. PICK new \in DevEnvObject :
            /\ CopyWrite(new)
            /\ \/ (Accepted(new) \/ Rejected(new)) /\ pc' = "idle"
               \/ Accepted(new) /\ Keep(new) /\ pc' \in {"setFinalizer", "createClient"}
    <3>1. CASE StatusRealm
      <4>1. [devenv EXCEPT !.realm = TRUE] \in DevEnvObject
        BY <2>1, ObjectTypes
      <4> QED
        BY <2>1, <3>1, <4>1 DEF StatusRealm, Goto, ReturnRequeue, DevEnvObject, CopyWrite,
           BuildNeedsBuilder
    <3>2. CASE SetFinalizer
      <4>1. [devenv EXCEPT !.finalizer = TRUE] \in DevEnvObject
        BY <2>1, ObjectTypes
      <4> QED
        BY <2>1, <3>2, <4>1 DEF SetFinalizer, Goto, ReturnRequeue, DevEnvObject, CopyWrite,
           BuildNeedsBuilder
    <3>3. CASE StatusUser
      <4>1. [devenv EXCEPT !.user = TRUE] \in DevEnvObject
        BY <2>1, ObjectTypes
      <4> QED
        BY <2>1, <3>3, <4>1 DEF StatusUser, ReturnRequeue, DevEnvObject, CopyWrite,
           BuildNeedsBuilder
    <3> QED
      BY <1>2, <3>1, <3>2, <3>3
  <2>3. KeepsCreations
    BY <2>2, WritesKeepCreations
  <2>4. (Ends \/ WritesOn) /\ Reached'
    BY <2>2 DEF Ends, WritesOn, Onwards, Reached
  <2> QED
    BY <2>3, <2>4
<1> QED
  BY <1>1, <1>2 DEF Identifies

-----------------------------------------------------------------------------
(* Tracked is inductive as long as nobody edits.                           *)

\* A step of one of the three shapes keeps the copy in step with the object.
LEMMA ShapesKeepTracked ==
    ASSUME Inv, Inv', Tracked, pc \in InCreation, Ends \/ MovesOn \/ WritesOn,
           KeepsCreations, Reached'
    PROVE  Tracked'
<1> USE DEF Inv, TypeOK, ControllerTypeOK
<1>1. /\ crLog \in Seq(DevEnvObject) /\ crLog # <<>>
      /\ Stored \in DevEnvObject /\ devenv \in DevEnvObject
      /\ devenv.exists /\ Numbered(devenv) /\ pc # "idle"
  BY LogOfObjects DEF InCreation, Onwards, AfterUser, Tracked, UidsTell
<1>2. ASSUME NEW new \in DevEnvObject, CopyWrite(new)
      PROVE  Numbered(new)' /\ BuildNeedsBuilder(new)
  BY <1>1, <1>2 DEF CopyWrite, Numbered, KeepsCreations
<1>3. /\ Numbered(Stored) /\ BuildNeedsBuilder(Stored)
      /\ Stored' = Stored => Numbered(Stored)' /\ BuildNeedsBuilder(Stored)'
  BY DEF Tracked, UidsTell, BuildersFit, Numbered, KeepsCreations, BuildNeedsBuilder
<1>4. CASE Ends
  <2>1. Stored' = Stored \/ \E new \in DevEnvObject : CopyWrite(new) /\ Stored' = new
    BY <1>1, <1>4, StoredAfter, WriteTypes DEF Ends
  <2>2. Numbered(Stored)' /\ BuildNeedsBuilder(Stored)'
    BY <1>2, <1>3, <2>1 DEF Numbered, BuildNeedsBuilder
  <2>3. pc' = "idle"
    BY <1>4 DEF Ends
  <2> QED
    BY <2>2, <2>3 DEF Tracked, UidsTell, CopyFollows, BuildersFit, InCreation, Onwards,
       AfterUser
<1>5. CASE MovesOn
  <2>1. UNCHANGED <<Stored, devenv, usedBuilder>>
    BY <1>5 DEF MovesOn, Stored
  <2>2. UidsTell'
    BY <1>1, <1>3, <2>1 DEF UidsTell, Numbered, KeepsCreations
  <2>3. CopyFollows' /\ BuildersFit'
    BY <1>1, <1>3, <2>1 DEF Tracked, CopyFollows, BuildersFit, BuildNeedsBuilder, hasBuilder
  <2> QED
    BY <2>2, <2>3 DEF Tracked
<1>6. CASE WritesOn
  <2>1. PICK new \in DevEnvObject : CopyWrite(new) /\ Accepted(new) /\ Keep(new)
    BY <1>6 DEF WritesOn
  <2>2. Stored' = new /\ devenv' = new /\ usedBuilder' = usedBuilder
    BY <2>1, WriteTypes DEF Keep
  <2>3. Numbered(new)' /\ BuildNeedsBuilder(new) /\ new.exists
    BY <1>2, <2>1 DEF CopyWrite
  <2>4. UidsTell'
    BY <2>2, <2>3 DEF UidsTell, Numbered
  <2>5. CopyFollows' /\ BuildersFit'
    BY <2>1, <2>2, <2>3 DEF Tracked, CopyFollows, BuildersFit, BuildNeedsBuilder, hasBuilder,
       CopyWrite
  <2> QED
    BY <2>4, <2>5 DEF Tracked
<1> QED
  BY <1>4, <1>5, <1>6

\* Reconcile starts with the stored DevEnv when its informer does not lag.
LEMMA CurrentRead ==
    ASSUME "devenv" \notin Lagging, Inv, GetFindsDevEnv
    PROVE  /\ devenv' = Stored /\ fresh' = TRUE /\ Stored.exists
           /\ pc' = IF Stored.deleting THEN "deleteRealm" ELSE "getBuilder"
           /\ pc = "idle" /\ UNCHANGED <<crLog, budget, cluster>>
<1>1. /\ ReconcileStarts /\ Cached.exists /\ devenv' = Cached
      /\ fresh' = (Len(crLog) = 1)
      /\ pc' = IF Cached.deleting THEN "deleteRealm" ELSE "getBuilder"
  BY DEF GetFindsDevEnv
<1>2. Len(crLog) = 1
  BY <1>1 DEF ReconcileStarts, Informers, InSync
<1>3. Cached = Stored
  BY <1>2, StoredAfter DEF Inv, TypeOK, ControllerTypeOK
<1> QED
  BY <1>1, <1>2, <1>3 DEF ReconcileStarts

\* Reading the DevEnv and its Builder.
LEMMA ReadsTracked ==
    ASSUME "devenv" \notin Lagging, Inv, Tracked, GetFindsNothing \/ GetFindsDevEnv \/ GetBuilder
    PROVE  Tracked'
<1>1. UNCHANGED <<crLog, budget>>
  BY DEF GetFindsNothing, GetFindsDevEnv, ReconcileStarts, GetBuilder
<1>2. /\ UNCHANGED <<Stored, budget>>
      /\ Numbered(Stored)' /\ BuildNeedsBuilder(Stored)'
  BY <1>1 DEF Stored, Tracked, UidsTell, BuildersFit, Numbered, BuildNeedsBuilder
<1>3. CASE GetFindsNothing
  <2>1. pc' = "idle" /\ pc = "idle"
    BY <1>3 DEF GetFindsNothing, ReconcileStarts
  <2> QED
    BY <1>2, <2>1 DEF Tracked, UidsTell, CopyFollows, BuildersFit, Reached, InCreation,
       Onwards, AfterUser
<1>4. CASE GetFindsDevEnv
  <2>1. devenv' = Stored' /\ Stored.exists /\ pc' \in {"deleteRealm", "getBuilder"}
    BY <1>2, <1>4, CurrentRead
  <2> QED
    BY <1>2, <2>1 DEF Tracked, UidsTell, CopyFollows, BuildersFit, BuildNeedsBuilder,
       Numbered, Reached, InCreation, Onwards, AfterUser
<1>5. CASE GetBuilder
  <2>1. \/ pc' = "idle"
        \/ /\ UNCHANGED devenv /\ pc = "getBuilder" /\ pc' = "identity"
           /\ devenv.builderName => builder # "absent"
           /\ usedBuilder' = IF devenv.builderName THEN builder ELSE "absent"
    BY <1>5 DEF GetBuilder, Goto, ReturnRequeue
  <2>2. CASE pc' = "idle"
    BY <1>2, <2>2 DEF Tracked, UidsTell, CopyFollows, BuildersFit, Reached, InCreation,
       Onwards, AfterUser
  <2>3. CASE /\ UNCHANGED devenv /\ pc = "getBuilder" /\ pc' = "identity"
             /\ devenv.builderName => builder # "absent"
             /\ usedBuilder' = IF devenv.builderName THEN builder ELSE "absent"
    <3>1. UidsTell'
      BY <1>2, <2>3 DEF Tracked, UidsTell, Numbered
    <3>2. hasBuilder' <=> devenv'.builderName
      BY <2>3 DEF hasBuilder, Inv, TypeOK, ControllerTypeOK, DevEnvObject
    <3>3. CopyFollows' /\ BuildersFit' /\ Reached'
      BY <1>2, <2>3, <3>2 DEF Tracked, CopyFollows, BuildersFit, BuildNeedsBuilder, Reached
    <3> QED
      BY <3>1, <3>3 DEF Tracked
  <2> QED
    BY <2>1, <2>2, <2>3
<1> QED
  BY <1>3, <1>4, <1>5

\* Taking down leaves the object as it is, or nothing of it.
LEMMA TakesDownTracked ==
    ASSUME Inv, Tracked, TakesDown
    PROVE  Tracked' /\ (Stored' = Stored \/ Stored' = Absent)
<1> USE DEF Inv, TypeOK, ControllerTypeOK
<1>1. pc \in {"deleteRealm", "deleteBuildPod", "removeFinalizer"}
  BY DEF TakesDown, DeleteRealm, DeleteBuildPod, RemoveFinalizer
<1>2. KeepsCreations
  <2>1. Spend("fault") \/ UNCHANGED budget
    BY DEF TakesDown, DeleteRealm, DeleteBuildPod, RemoveFinalizer, Accepted, Rejected
  <2> QED
    BY <2>1, SpendOther DEF Disturbances
<1>3. Stored' = Stored \/ Stored' = Absent
  <2>1. CASE RemoveFinalizer
    BY <2>1, WriteTypes, ObjectTypes DEF RemoveFinalizer
  <2>2. CASE DeleteRealm \/ DeleteBuildPod
    BY <2>2 DEF DeleteRealm, DeleteBuildPod, Stored
  <2> QED
    BY <2>1, <2>2 DEF TakesDown
<1>4. Numbered(Stored)' /\ BuildNeedsBuilder(Stored)'
  <2>1. CASE Stored' = Stored
    BY <1>2, <2>1 DEF Tracked, UidsTell, BuildersFit, Numbered, BuildNeedsBuilder,
       KeepsCreations
  <2>2. CASE Stored' = Absent
    BY <2>2 DEF Absent, Numbered, BuildNeedsBuilder, BuildPhaseInitial, BuildPhaseBuilding
  <2> QED
    BY <1>3, <2>1, <2>2
<1>5. CASE pc' = "idle"
  BY <1>3, <1>4, <1>5 DEF Tracked, UidsTell, CopyFollows, BuildersFit, Reached, InCreation,
     Onwards, AfterUser
<1>6. CASE UNCHANGED <<crLog, devenv>> /\ pc' \in {"deleteBuildPod", "removeFinalizer"}
  <2>1. Stored' = Stored
    BY <1>6 DEF Stored
  <2> QED
    BY <1>1, <1>2, <1>3, <1>4, <1>6, <2>1 DEF Tracked, UidsTell, CopyFollows, BuildersFit,
       BuildNeedsBuilder, Numbered, KeepsCreations, Reached, InCreation, Onwards, AfterUser
<1>7. pc' = "idle" \/ (UNCHANGED <<crLog, devenv>> /\ pc' \in {"deleteBuildPod", "removeFinalizer"})
  BY DEF TakesDown, DeleteRealm, DeleteBuildPod, RemoveFinalizer, Goto, ReturnRequeue,
     ReturnDone, local
<1> QED
  BY <1>3, <1>5, <1>6, <1>7

\* A disturbance of which none was spent before and after a step is not spent.
LEMMA NotSpent ==
    ASSUME budget \in [Disturbances -> Nat], NEW d \in Disturbances, budget'[d] = budget[d]
    PROVE  ~Spend(d)
  BY DEF Spend

\* What users do who do not edit: a new DevEnv gets the next UID, one without a
\* finalizer goes, one with a finalizer is marked.
LEMMA UserWrites ==
    ASSUME Inv, User, NoEdit, NoEdit'
    PROVE  \/ /\ ~Stored.exists /\ Spend("create")
              /\ \E b \in BOOLEAN : Stored' = Created(b)
           \/ /\ Stored.exists /\ ~Stored.finalizer /\ Stored' = Absent
              /\ KeepsCreations
           \/ /\ Stored.exists /\ Stored.finalizer
              /\ Stored' = [Stored EXCEPT !.deleting = TRUE]
              /\ KeepsCreations
<1> USE DEF Inv, TypeOK, ControllerTypeOK
<1>1. crLog \in Seq(DevEnvObject) /\ crLog # <<>> /\ Stored \in DevEnvObject
  BY LogOfObjects
<1>2. CASE UserCreates
  <2>1. PICK b \in BOOLEAN : crLog' = Append(crLog, Created(b))
    BY <1>2 DEF UserCreates, ForeignWrite
  <2>2. Created(b) \in DevEnvObject
    BY ObjectTypes
  <2> QED
    BY <1>1, <1>2, <2>1, <2>2, StoredAfter DEF UserCreates
<1>3. CASE UserDeletes
  <2>1. [Stored EXCEPT !.deleting = TRUE] \in DevEnvObject /\ Absent \in DevEnvObject
    BY <1>1, ObjectTypes
  <2>2. \/ ~Stored.finalizer /\ crLog' = Append(crLog, Absent)
        \/ Stored.finalizer /\ crLog' = Append(crLog, [Stored EXCEPT !.deleting = TRUE])
    BY <1>3 DEF UserDeletes, ForeignWrite
  <2>3. \/ ~Stored.finalizer /\ Stored' = Absent
        \/ Stored.finalizer /\ Stored' = [Stored EXCEPT !.deleting = TRUE]
    BY <1>1, <2>1, <2>2, StoredAfter
  <2>4. Stored.exists /\ KeepsCreations
    BY <1>3, SpendOther DEF UserDeletes, Disturbances
  <2> QED
    BY <2>3, <2>4
<1>4. CASE UserEdits
  <2>1. budget'["edit"] = budget["edit"] /\ "edit" \in Disturbances
    BY DEF NoEdit, Disturbances
  <2> QED
    BY <1>4, <2>1, NotSpent DEF UserEdits
<1> QED
  BY <1>2, <1>3, <1>4 DEF User

\* The steps of all others but users.
LEMMA OthersKeepStored ==
    ASSUME Inv, Surroundings, ~User
    PROVE  /\ Stored' = Stored /\ UNCHANGED <<devenv, usedBuilder, pc, fresh>>
           /\ KeepsCreations
<1> USE DEF Inv, TypeOK, ControllerTypeOK
<1>1. CASE Events \/ Delay
  <2>1. Spend("event") \/ UNCHANGED budget
    BY <1>1 DEF Events, DevEnvEvent, OtherEvent, Delay, TimerFires
  <2> QED
    BY <1>1, <2>1, EventSteps, SpendOther DEF Disturbances
<1>2. CASE ClusterSteps
  <2>1. \/ UNCHANGED budget
        \/ \E d \in Disturbances \ {"create"} : Spend(d)
    BY <1>2 DEF ClusterSteps, Kubelet, BuildSucceeds, InitKeepsVolume, InitCopies, InitMarks,
       InitChowns, IdeStarts, PodStops, PodTrouble, PodFails, InitCopyBreaks, PodLost,
       AdminDeletesNamespace, NamespaceDrains, NamespaceGoes, Collector, CollectNamespace,
       CollectClaim, CollectIde, BuilderChanges, ObjectEvent, controllerVars, Disturbances
  <2>2. KeepsCreations
    BY <2>1, SpendOther DEF KeepsCreations
  <2> QED
    BY <1>2, <2>2, ClusterStepsFrame
<1> QED
  BY <1>1, <1>2 DEF Surroundings, ClusterSteps

\* Nobody else sets the copy at odds with the object it was read from.
LEMMA ElsewhereTracked ==
    ASSUME Inv, Tracked, NoEdit, NoEdit', Elsewhere
    PROVE  Tracked'
<1> USE DEF Inv, TypeOK, ControllerTypeOK
<1>1. /\ Stored \in DevEnvObject /\ devenv \in DevEnvObject
      /\ budget["create"] \in Nat
  BY LogOfObjects DEF Disturbances
<1>2. CASE Crash
  <2>1. pc' = "idle" /\ Stored' = Stored
    BY <1>2, StoredAfter DEF Crash, Relisted, Restarted
  <2>2. KeepsCreations
    BY <1>2, SpendOther DEF Crash, Disturbances
  <2> QED
    BY <2>1, <2>2 DEF KeepsCreations, Tracked, UidsTell, CopyFollows, BuildersFit, Numbered,
       BuildNeedsBuilder, Reached, InCreation, Onwards, AfterUser
<1>3. CASE Surroundings /\ ~User
  <2>1. Stored' = Stored /\ UNCHANGED <<devenv, usedBuilder, pc>> /\ KeepsCreations
    BY <1>3, OthersKeepStored
  <2> QED
    BY <2>1 DEF KeepsCreations, Tracked, UidsTell, CopyFollows, BuildersFit, Numbered,
       BuildNeedsBuilder, Reached, hasBuilder
<1>4. CASE User
  <2>1. UNCHANGED <<devenv, usedBuilder, pc>>
    BY <1>4, UserSteps
  <2>2. Reached'
    BY <2>1 DEF Tracked, Reached, hasBuilder
  <2>3. /\ Numbered(Stored)' /\ BuildNeedsBuilder(Stored)'
        /\ pc # "idle" => Numbered(devenv)'
        /\ CopyFollows'
    <3>1. CASE ~Stored.exists /\ Spend("create") /\ \E b \in BOOLEAN : Stored' = Created(b)
      <4>1. /\ Stored'.exists /\ Stored'.uid = budget["create"]
            /\ Stored'.build = BuildPhaseInitial
            /\ budget'["create"] = budget["create"] - 1
        BY <3>1 DEF Created, Absent, Spend, Disturbances
      <4>2. pc # "idle" => devenv.uid > budget["create"] /\ devenv.exists
        BY DEF Tracked, UidsTell, Numbered
      <4>3. Numbered(Stored)' /\ (pc # "idle" => Numbered(devenv)')
        BY <1>1, <2>1, <4>1, <4>2 DEF Numbered, DevEnvObject
      <4>4. CopyFollows'
        BY <1>1, <2>1, <4>1, <4>2 DEF CopyFollows, DevEnvObject
      <4>5. BuildNeedsBuilder(Stored)'
        BY <4>1 DEF BuildNeedsBuilder, BuildPhaseInitial, BuildPhaseBuilding
      <4> QED
        BY <4>3, <4>4, <4>5
    <3>2. CASE Stored' = Absent /\ KeepsCreations
      <4>1. pc # "idle" => devenv.uid > budget["create"] /\ devenv.exists
        BY DEF Tracked, UidsTell, Numbered
      <4>2. ~Stored'.exists /\ Stored'.uid = 0 /\ Stored'.build # BuildPhaseBuilding
        BY <3>2 DEF Absent, BuildPhaseInitial, BuildPhaseBuilding
      <4>3. pc # "idle" => devenv.uid # 0
        BY <1>1, <4>1 DEF DevEnvObject
      <4> QED
        BY <2>1, <3>2, <4>1, <4>2, <4>3 DEF Numbered, BuildNeedsBuilder, CopyFollows,
           KeepsCreations
    <3>3. CASE Stored' = [Stored EXCEPT !.deleting = TRUE] /\ KeepsCreations
      <4>1. /\ Stored'.exists = Stored.exists /\ Stored'.uid = Stored.uid
            /\ Stored'.build = Stored.build /\ Stored'.builderName = Stored.builderName
        BY <1>1, <3>3 DEF DevEnvObject
      <4> QED
        BY <2>1, <3>3, <4>1 DEF Numbered, BuildNeedsBuilder, CopyFollows, KeepsCreations,
           Tracked, UidsTell, BuildersFit
    <3> QED
      BY <1>4, <3>1, <3>2, <3>3, UserWrites
  <2> QED
    BY <2>1, <2>2, <2>3 DEF Tracked, UidsTell, BuildersFit, BuildNeedsBuilder, hasBuilder
<1> QED
  BY <1>2, <1>3, <1>4 DEF Elsewhere

\* Before the first DevEnv there is nothing to be at odds with.
LEMMA TrackedInit == Init => Tracked
<1> SUFFICES ASSUME Init PROVE Tracked
  OBVIOUS
<1>1. Stored = Absent /\ pc = "idle"
  BY DEF Init, Stored
<1> QED
  BY <1>1 DEF Tracked, UidsTell, CopyFollows, BuildersFit, Reached, InCreation, Onwards,
     AfterUser, Numbered, BuildNeedsBuilder, Absent, BuildPhaseInitial, BuildPhaseBuilding

\* All steps together.
LEMMA TrackedNext ==
    ASSUME "devenv" \notin Lagging, OperatorInv, Tracked, NoEdit, NoEdit', [OperatorNext]_vars
    PROVE  Tracked'
<1>1. OperatorInv'
  BY OperatorInvNext
<1>2. CASE Reads
  BY <1>2, ReadsTracked DEF Reads, OperatorInv
<1>3. CASE TakesDown
  BY <1>3, TakesDownTracked DEF OperatorInv
<1>4. CASE Identifies
  <2>1. pc \in InCreation
    BY <1>4 DEF Identifies, NewRealm, StatusRealm, SetFinalizer, CreateClient, CreateUser,
       SetPassword, StatusUser, InCreation, Onwards
  <2> QED
    BY <1>1, <1>4, <2>1, IdentifiesTracked, ShapesKeepTracked DEF OperatorInv
<1>5. CASE Provisions
  <2>1. pc \in InCreation
    BY <1>5, ProvisionsShape DEF InCreation, Onwards
  <2> QED
    BY <1>1, <1>5, <2>1, ProvisionsTracked, ShapesKeepTracked DEF OperatorInv
<1>6. CASE Elsewhere
  BY <1>6, ElsewhereTracked DEF OperatorInv
<1>7. CASE UNCHANGED vars
  BY <1>7 DEF vars, clusterVars, controllerVars, Stored, Tracked, UidsTell, CopyFollows,
     BuildersFit, Reached, Numbered, BuildNeedsBuilder, hasBuilder
<1> QED
  BY <1>2, <1>3, <1>4, <1>5, <1>6, <1>7 DEF OperatorNext, WholeReconcile

-----------------------------------------------------------------------------
(* The finalizer holds the DevEnv that is worked on.                       *)

TakingDown == {"deleteRealm", "deleteBuildPod", "removeFinalizer"}

\* Where Reconcile has set the finalizer, or has read an object that has it.
Guarded == {"createClient", "createUser", "setPassword", "statusUser"} \cup AfterUser

Holds == Stored.exists /\ Stored.finalizer /\ devenv.uid = Stored.uid

\* A DevEnv with a realm has the finalizer, but for the moment in which the
\* worker is about to set it; so a DevEnv for which more than a realm is made,
\* or which is taken down, cannot go or be replaced under the worker.
Protected ==
    /\ pc \in Guarded \/ (pc \in {"getBuilder", "identity"} /\ devenv.realm) => Holds
    /\ pc \in TakingDown => Holds /\ Stored.deleting
    /\ Stored.deleting => Stored.finalizer
    /\ Stored.realm /\ ~Stored.finalizer => pc = "setFinalizer" /\ fresh

\* Calm lets nobody edit, fail a call or end the process.
LEMMA CalmSteps ==
    ASSUME Inv, Calm, Calm'
    PROVE  /\ NoEdit /\ NoEdit' /\ ~Spend("fault") /\ ~Spend("crash") /\ ~Spend("edit")
           /\ \A new : Rejected(new) => ~fresh /\ UNCHANGED crLog
<1>1. \A d \in {"edit", "fault", "crash"} : d \in Disturbances /\ budget'[d] = budget[d]
  BY DEF Calm, Disturbances
<1>2. ~Spend("fault") /\ ~Spend("crash") /\ ~Spend("edit")
  BY <1>1, NotSpent DEF Inv, TypeOK, ControllerTypeOK
<1> QED
  BY <1>2 DEF Calm, NoEdit, Rejected

\* What a step of one of the three shapes leaves in the API server.
LEMMA ShapesStore ==
    ASSUME Inv, Ends \/ MovesOn \/ WritesOn
    PROVE  /\ Stored' = Stored \/ (fresh /\ devenv = Stored /\ CopyWrite(Stored'))
           /\ pc' # "idle" => /\ pc' \in Onwards /\ devenv'.uid = devenv.uid
                              /\ devenv' = devenv \/ devenv' = Stored'
           /\ WritesOn => devenv' = Stored' /\ fresh'
<1> USE DEF Inv, TypeOK, ControllerTypeOK
<1>1. fresh => devenv = Stored
  BY DEF CopyIsStored
<1>2. CASE Ends
  <2>1. Stored' = Stored \/ \E new \in DevEnvObject : fresh /\ CopyWrite(new) /\ Stored' = new
    BY <1>2, StoredAfter, WriteTypes DEF Ends
  <2>2. pc' = "idle" /\ ~WritesOn
    BY <1>2 DEF Ends, WritesOn, Onwards, AfterUser
  <2>3. Stored' = Stored \/ (fresh /\ CopyWrite(Stored'))
    BY <2>1
  <2> QED
    BY <1>1, <2>2, <2>3
<1>3. CASE MovesOn
  <2>1. Stored' = Stored /\ devenv' = devenv
    BY <1>3 DEF MovesOn, Stored
  <2>2. WritesOn => devenv' = Stored' /\ fresh'
    <3>1. ASSUME NEW new \in DevEnvObject, Accepted(new), Keep(new)
          PROVE  devenv' = Stored' /\ fresh'
      BY <3>1, WriteTypes DEF Keep
    <3> QED
      BY <3>1 DEF WritesOn
  <2> QED
    BY <1>3, <2>1, <2>2 DEF MovesOn
<1>4. CASE WritesOn
  <2>1. PICK new \in DevEnvObject : CopyWrite(new) /\ Accepted(new) /\ Keep(new)
    BY <1>4 DEF WritesOn
  <2>2. Stored' = new /\ devenv' = new /\ fresh' = TRUE /\ fresh
    BY <2>1, WriteTypes DEF Keep, Accepted
  <2> QED
    BY <1>1, <1>4, <2>1, <2>2 DEF CopyWrite, WritesOn
<1> QED
  BY <1>2, <1>3, <1>4

\* A reconcile of a DevEnv that is held goes on holding it.
LEMMA HoldsOn ==
    ASSUME Inv, Protected, pc \in Guarded, pc' \in Guarded \cup {"idle"},
           Ends \/ MovesOn \/ WritesOn
    PROVE  Protected' /\ Stored'.exists /\ Stored'.finalizer
<1>1. Holds
  BY DEF Protected
<1>2. /\ Stored'.exists /\ Stored'.finalizer /\ Stored'.uid = devenv.uid
      /\ Stored'.deleting = Stored.deleting
  BY <1>1, ShapesStore DEF Holds, CopyWrite
<1>3. pc' # "idle" => devenv'.uid = devenv.uid
  BY ShapesStore
<1> QED
  BY <1>2, <1>3 DEF Protected, Holds, Guarded, AfterUser, TakingDown

\* The steps that come before, or after, the finalizer is set.
LEMMA IdentifiesProtected ==
    ASSUME Inv, Tracked, Protected, Calm, Calm', Identifies
    PROVE  Protected'
<1> USE DEF Inv, TypeOK, ControllerTypeOK
<1>1. (Ends \/ MovesOn \/ WritesOn) /\ ~Spend("fault")
  BY IdentifiesTracked, CalmSteps
<1>2. CASE NewRealm \/ CreateClient \/ CreateUser \/ SetPassword
  <2>1. Stored' = Stored
    BY <1>2, KeycloakSteps
  <2>2. \/ pc' = "idle"
        \/ /\ UNCHANGED devenv
           /\ pc' = "statusRealm" \/ (pc' \in Guarded /\ (pc \in Guarded
                                              \/ (pc = "identity" /\ devenv.realm)))
    BY <1>2 DEF NewRealm, CreateClient, CreateUser, SetPassword, ReturnRequeue, ReturnAfter,
       Restarted, Goto, local, Guarded, AfterUser
  <2>3. pc # "setFinalizer"
    BY <1>2 DEF NewRealm, CreateClient, CreateUser, SetPassword
  <2> QED
    BY <2>1, <2>2, <2>3 DEF Protected, Holds, Guarded, AfterUser, TakingDown
<1>3. CASE StatusRealm \/ SetFinalizer
  <2>0. pc \in {"statusRealm", "setFinalizer"}
    BY <1>3 DEF StatusRealm, SetFinalizer
  <2>1. CASE pc' = "idle"
    <3>1. ~fresh /\ crLog' = crLog
      BY <1>3, <2>1, CalmSteps DEF StatusRealm, SetFinalizer, Goto
    <3>2. Stored' = Stored
      BY <3>1 DEF Stored
    <3> QED
      BY <2>1, <3>1, <3>2 DEF Protected, Guarded, AfterUser, TakingDown
  <2>2. PICK new \in DevEnvObject :
            pc' # "idle" =>
                /\ fresh /\ Stored' = new /\ devenv' = new /\ fresh'
                /\ CopyWrite(new)
                /\ \/ pc' = "setFinalizer"
                   \/ pc' = "createClient" /\ new.finalizer
    <3>0. devenv \in DevEnvObject /\ devenv.exists /\ BuildNeedsBuilder(devenv)
      BY <2>0 DEF CopyIsLive, Live, Creating, Labels, Tracked, BuildersFit
    <3>1. CASE StatusRealm
      <4> DEFINE new == [devenv EXCEPT !.realm = TRUE]
      <4>1. new \in DevEnvObject
        BY <3>0, ObjectTypes
      <4>2. CopyWrite(new)
        BY <3>0, <3>1, <4>1 DEF StatusRealm, CopyWrite, BuildNeedsBuilder, DevEnvObject
      <4>3. pc' # "idle" => Accepted(new) /\ Keep(new) /\ pc' = "setFinalizer"
        BY <3>1 DEF StatusRealm, Goto, ReturnRequeue
      <4> QED
        BY <4>1, <4>2, <4>3, WriteTypes DEF Accepted, Keep
    <3>2. CASE SetFinalizer
      <4> DEFINE new == [devenv EXCEPT !.finalizer = TRUE]
      <4>1. new \in DevEnvObject
        BY <3>0, ObjectTypes
      <4>2. CopyWrite(new) /\ new.finalizer
        BY <3>0, <3>2, <4>1 DEF SetFinalizer, CopyWrite, BuildNeedsBuilder, DevEnvObject
      <4>3. pc' # "idle" => Accepted(new) /\ Keep(new) /\ pc' = "createClient"
        BY <3>2 DEF SetFinalizer, Goto, ReturnRequeue
      <4> QED
        BY <4>1, <4>2, <4>3, WriteTypes DEF Accepted, Keep
    <3> QED
      BY <1>3, <3>1, <3>2
  <2>3. CASE pc' # "idle"
    <3>1. new.exists /\ (new.deleting => new.finalizer)
      BY <2>2, <2>3 DEF CopyWrite, Protected, CopyIsStored
    <3> QED
      BY <2>2, <2>3, <3>1 DEF Protected, Holds, Guarded, AfterUser, TakingDown
  <2> QED
    BY <2>1, <2>3
<1>4. CASE StatusUser
  <2>1. pc \in Guarded /\ pc' = "idle"
    BY <1>4 DEF StatusUser, ReturnRequeue, Guarded
  <2> QED
    BY <1>1, <2>1, HoldsOn
<1> QED
  BY <1>2, <1>3, <1>4 DEF Identifies

\* Reading, taking down and provisioning.
LEMMA WorkerProtected ==
    ASSUME "devenv" \notin Lagging, OperatorInv, Tracked, Protected, Calm, Calm', WholeReconcile
    PROVE  Protected'
<1> USE DEF OperatorInv, Inv, TypeOK, ControllerTypeOK
<1>1. CASE GetFindsNothing
  <2>1. UNCHANGED <<pc, crLog>> /\ pc = "idle"
    BY <1>1 DEF GetFindsNothing, ReconcileStarts
  <2>2. Stored' = Stored
    BY <2>1 DEF Stored
  <2> QED
    BY <2>1, <2>2 DEF Protected, Guarded, AfterUser, TakingDown
<1>2. CASE GetFindsDevEnv
  <2>1. /\ devenv' = Stored /\ Stored.exists /\ pc = "idle" /\ crLog' = crLog
        /\ pc' = IF Stored.deleting THEN "deleteRealm" ELSE "getBuilder"
    BY <1>2, CurrentRead
  <2>2. Stored' = Stored
    BY <2>1 DEF Stored
  <2> QED
    BY <2>1, <2>2 DEF Protected, Holds, Guarded, AfterUser, TakingDown
<1>3. CASE GetBuilder
  <2>1. pc = "getBuilder" /\ crLog' = crLog /\ (pc' = "idle" \/ (pc' = "identity" /\ UNCHANGED devenv))
    BY <1>3 DEF GetBuilder, ReturnRequeue, Goto
  <2>2. Stored' = Stored
    BY <2>1 DEF Stored
  <2> QED
    BY <2>1, <2>2 DEF Protected, Holds, Guarded, AfterUser, TakingDown
<1>4. CASE TakesDown
  <2>1. pc \in TakingDown
    BY <1>4 DEF TakesDown, DeleteRealm, DeleteBuildPod, RemoveFinalizer, TakingDown
  <2>2. pc' = "idle" \/ (UNCHANGED <<devenv, crLog>> /\ pc' \in TakingDown)
    BY <1>4 DEF TakesDown, DeleteRealm, DeleteBuildPod, RemoveFinalizer, TakingDown, Goto,
       ReturnRequeue, ReturnDone, local
  <2>3. Stored' = Stored \/ Stored' = Absent
    BY <1>4, TakesDownTracked
  <2>4. UNCHANGED crLog => Stored' = Stored
    BY DEF Stored
  <2> QED
    BY <2>1, <2>2, <2>3, <2>4 DEF Protected, Holds, Guarded, AfterUser, TakingDown, Absent
<1>5. CASE Provisions
  <2>1. pc \in Guarded /\ pc' \in Guarded \cup {"idle"}
    BY <1>5, ProvisionsShape DEF ShapeOfProvisions, ReturnsOnly, GoesOn, Relisted, Restarted,
       WritesAndReturns, WritesAndGoesOn, ReturnRequeue, ReturnAfter, Guarded
  <2> QED
    BY <1>5, <2>1, ProvisionsTracked, HoldsOn
<1> QED
  BY <1>1, <1>2, <1>3, <1>4, <1>5, IdentifiesProtected DEF WholeReconcile, Reads

\* What users and others do to a DevEnv that the worker holds: they may mark it.
LEMMA ElsewhereStores ==
    ASSUME Inv, Calm, Calm', Elsewhere
    PROVE  /\ UNCHANGED <<pc, devenv, usedBuilder>>
           /\ \/ Stored' = Stored /\ fresh' = fresh
              \/ /\ ~Stored.exists /\ Stored'.exists
                 /\ ~Stored'.deleting /\ ~Stored'.realm /\ ~Stored'.finalizer
                 /\ Stored'.build = BuildPhaseInitial
              \/ Stored.exists /\ ~Stored.finalizer /\ Stored' = Absent
              \/ /\ Stored.exists /\ Stored.finalizer
                 /\ Stored' = [Stored EXCEPT !.deleting = TRUE]
<1>1. Surroundings
  BY CalmSteps DEF Elsewhere, Crash
<1>2. UNCHANGED <<pc, devenv, usedBuilder>>
  BY <1>1, SurroundingsSteps DEF Inv, TypeOK
<1>3. CASE ~User
  BY <1>1, <1>2, <1>3, OthersKeepStored
<1>4. CASE User
  <2>1. ASSUME NEW b \in BOOLEAN, Stored' = Created(b)
        PROVE  /\ Stored'.exists /\ ~Stored'.deleting /\ ~Stored'.realm /\ ~Stored'.finalizer
               /\ Stored'.build = BuildPhaseInitial
    BY <2>1 DEF Created, Absent
  <2> QED
    BY <1>2, <1>4, <2>1, UserWrites, CalmSteps
<1> QED
  BY <1>3, <1>4

\* Protected is inductive as long as all is calm.
LEMMA ProtectedNext ==
    ASSUME "devenv" \notin Lagging, OperatorInv, Tracked, Protected, Calm, Calm',
           [OperatorNext]_vars
    PROVE  Protected'
<1>1. CASE WholeReconcile
  BY <1>1, WorkerProtected
<1>2. CASE Elsewhere
  <2>1. Stored \in DevEnvObject
    BY LogOfObjects DEF OperatorInv, Inv, TypeOK, ControllerTypeOK
  <2>2. Stored' = [Stored EXCEPT !.deleting = TRUE]
            => /\ Stored'.exists = Stored.exists /\ Stored'.finalizer = Stored.finalizer
               /\ Stored'.uid = Stored.uid /\ Stored'.realm = Stored.realm
               /\ Stored'.deleting
    BY <2>1 DEF DevEnvObject
  <2> QED
    BY <1>2, <2>2, ElsewhereStores DEF OperatorInv, Protected, Holds, Absent
<1>3. CASE UNCHANGED vars
  BY <1>3 DEF vars, clusterVars, controllerVars, Stored, Protected, Holds
<1> QED
  BY <1>1, <1>2, <1>3 DEF OperatorNext

-----------------------------------------------------------------------------
(* The build pod and the init pod.                                         *)

Occupied(p) == pods[p] \notin Going \cup {"absent"}
Finished(p) == pods[p] \in {"succeeded", "finished", "absent"}

\* A build pod belongs to a DevEnv that has a Builder, has the finalizer and is
\* not past the deletion of that pod.
BuildPodInUse ==
    Occupied("build") =>
        /\ Stored.exists /\ Stored.builderName /\ Stored.finalizer
        /\ pc # "removeFinalizer"
        /\ Stored.build \in {BuildPhaseInitial, BuildPhaseBuilding} \/ pc = "dropBuildPod"

InitPodInUse ==
    Occupied("init") /\ Stored.build = BuildPhaseRunning => pc = "dropInitPod"

\* A pod that was missing or finished when Reconcile started is so still, until
\* Reconcile makes one.
SeenTells(p) ==
    /\ seen.pods[p] = "absent" => pods[p] = "absent"
    /\ seen.pods[p] \in {"succeeded", "finished"} => Finished(p)

SeenSince ==
    /\ pc \notin {"idle", "statusBuilding"} => SeenTells("build")
    /\ pc \notin {"idle", "statusInitializing"} => SeenTells("init")

DropsFinished ==
    /\ pc = "dropBuildPod" => Finished("build")
    /\ pc = "dropInitPod" => Finished("init")

PodsInUse == BuildPodInUse /\ InitPodInUse /\ SeenSince /\ DropsFinished

\* What happens to pods that nobody creates: they end and go.
Wears(p) ==
    /\ pods[p] = "absent" => pods'[p] = "absent"
    /\ Finished(p) => Finished(p)'
    /\ Occupied(p)' => Occupied(p)

\* Deletion wears pods, and so does every move that does not start from the end.
LEMMA MovesWear ==
    ASSUME ClusterTypeOK,
           \/ pods' = pods
           \/ \E q \in PodNames : DeletePod(q)
           \/ \E q \in PodNames : LiveMoves(q) \/ GoingMoves(q)
    PROVE  \A p \in PodNames : Wears(p)
<1> USE DEF Wears, Finished, Occupied, ClusterTypeOK, PodMoves, Going
<1>1. ASSUME NEW q \in PodNames, DeletePod(q) PROVE \A p \in PodNames : Wears(p)
  <2>1. /\ Deleted(q) \in Going \cup {"absent"}
        /\ Finished(q) => Deleted(q) = "absent"
    BY DEF Deleted
  <2> QED
    BY <1>1, <2>1 DEF DeletePod
<1>2. ASSUME NEW q \in PodNames, LiveMoves(q) PROVE \A p \in PodNames : Wears(p)
  BY <1>2 DEF LiveMoves
<1>3. ASSUME NEW q \in PodNames, GoingMoves(q) PROVE \A p \in PodNames : Wears(p)
  BY <1>3 DEF GoingMoves
<1> QED
  BY <1>1, <1>2, <1>3

\* Nobody else makes pods.
LEMMA OthersWear ==
    ASSUME ClusterTypeOK, Surroundings
    PROVE  \A p \in PodNames : Wears(p)
<1>1. CASE Kubelet
  BY <1>1, KubeletMoves, MovesWear
<1>2. CASE PodTrouble
  BY <1>2, TroubleMoves, MovesWear
<1>3. CASE NamespaceDrains \/ Collector
  <2>1. \/ pods' = pods
        \/ \E q \in PodNames : DeletePod(q)
    BY <1>3 DEF NamespaceDrains, Collector, CollectNamespace, CollectClaim, CollectIde,
       PodNames
  <2> QED
    BY <2>1, MovesWear
<1>4. CASE \/ User \/ Events \/ ObjectEvent \/ Delay \/ AdminDeletesNamespace
           \/ NamespaceGoes \/ BuilderChanges
  <2>1. pods' = pods
    BY <1>4 DEF User, Events, ObjectEvent, Delay, AdminDeletesNamespace, NamespaceGoes,
       BuilderChanges, cluster
  <2> QED
    BY <2>1, MovesWear
<1> QED
  BY <1>1, <1>2, <1>3, <1>4 DEF Surroundings

\* And the cache of pods stays or becomes what the pods are.
LEMMA OthersSee ==
    ASSUME ClusterTypeOK, Surroundings
    PROVE  seen'.pods = seen.pods \/ (seen'.pods = pods' /\ pods' = pods)
<1>1. CASE ObjectEvent
  <2>1. pods' = pods
    BY <1>1 DEF ObjectEvent
  <2>2. CASE PodEvent
    BY <2>1, <2>2 DEF PodEvent, ClusterTypeOK
  <2>3. CASE NamespaceEvent \/ ClaimEvent
    BY <2>3 DEF NamespaceEvent, ClaimEvent, ClusterTypeOK
  <2> QED
    BY <1>1, <2>2, <2>3 DEF ObjectEvent
<1>2. CASE ~ObjectEvent
  <2>1. seen' = seen
    BY <1>2 DEF Surroundings, User, Events, Delay, Kubelet, PodTrouble, AdminDeletesNamespace,
       NamespaceDrains, NamespaceGoes, Collector, CollectNamespace, CollectClaim, CollectIde,
       BuilderChanges, cluster
  <2> QED
    BY <2>1
<1> QED
  BY <1>1, <1>2

\* Users, events and the cluster keep what is known of the pods.
LEMMA ElsewherePods ==
    ASSUME Inv, Protected, PodsInUse, Calm, Calm', Elsewhere
    PROVE  PodsInUse'
<1> USE DEF Inv, TypeOK, ControllerTypeOK
<1>1. Surroundings
  BY CalmSteps DEF Elsewhere, Crash
<1>2. \A p \in PodNames : Wears(p)
  BY <1>1, OthersWear
<1>3. seen'.pods = seen.pods \/ (seen'.pods = pods' /\ pods' = pods)
  BY <1>1, OthersSee
<1>4. UNCHANGED pc
  BY ElsewhereStores
<1>5. "build" \in PodNames /\ "init" \in PodNames
  BY DEF PodNames
<1>6. SeenSince' /\ DropsFinished'
  BY <1>2, <1>3, <1>4, <1>5 DEF PodsInUse, SeenSince, DropsFinished, SeenTells, Finished, Wears
<1>7. Stored' = [Stored EXCEPT !.deleting = TRUE]
          => /\ Stored'.exists = Stored.exists /\ Stored'.builderName = Stored.builderName
             /\ Stored'.finalizer = Stored.finalizer /\ Stored'.build = Stored.build
  <2>1. Stored \in DevEnvObject
    BY LogOfObjects
  <2> QED
    BY <2>1 DEF DevEnvObject
<1>8. BuildPodInUse' /\ InitPodInUse'
  <2>1. /\ Occupied("build")' => Occupied("build")
        /\ Occupied("init")' => Occupied("init")
    BY <1>2, <1>5 DEF Wears
  <2>2. Absent.build # BuildPhaseRunning /\ BuildPhaseInitial # BuildPhaseRunning
    BY DEF Absent, BuildPhaseInitial, BuildPhaseRunning
  <2>3. CASE Stored' = Stored
    BY <1>4, <2>1, <2>3 DEF PodsInUse, BuildPodInUse, InitPodInUse
  <2>4. CASE ~Stored.exists /\ Stored'.build = BuildPhaseInitial
    BY <2>1, <2>2, <2>4 DEF PodsInUse, BuildPodInUse, InitPodInUse
  <2>5. CASE ~Stored.finalizer /\ Stored' = Absent
    BY <2>1, <2>2, <2>5 DEF PodsInUse, BuildPodInUse, InitPodInUse
  <2>6. CASE Stored' = [Stored EXCEPT !.deleting = TRUE]
    BY <1>4, <1>7, <2>1, <2>6 DEF PodsInUse, BuildPodInUse, InitPodInUse
  <2> QED
    BY <2>3, <2>4, <2>5, <2>6, ElsewhereStores
<1> QED
  BY <1>6, <1>8 DEF PodsInUse

\* A step that wears the pods and starts no drop of one keeps what is known of
\* them, if the stored object goes on warranting those that are left.
LEMMA WornPods ==
    ASSUME PodsInUse, Wears("build"), Wears("init"), seen'.pods = seen.pods,
           pc \notin {"idle", "statusBuilding", "statusInitializing"} \/ pc' = "idle",
           pc' \notin {"dropBuildPod", "dropInitPod", "removeFinalizer"},
           Occupied("build")' => /\ Stored'.exists /\ Stored'.builderName /\ Stored'.finalizer
                                 /\ Stored'.build \in {BuildPhaseInitial, BuildPhaseBuilding},
           Occupied("init")' => Stored'.build # BuildPhaseRunning
    PROVE  PodsInUse'
<1>1. BuildPodInUse' /\ InitPodInUse' /\ DropsFinished'
  BY DEF BuildPodInUse, InitPodInUse, DropsFinished
<1>2. SeenSince'
  BY DEF PodsInUse, SeenSince, SeenTells, Wears, Finished
<1> QED
  BY <1>1, <1>2 DEF PodsInUse

\* Pods that are left as they are have not been made.
LEMMA SamePodsWear ==
    ASSUME NEW p, pods'[p] = pods[p]
    PROVE  Wears(p) /\ (Occupied(p)' <=> Occupied(p))
  BY DEF Wears, Finished, Occupied

\* Reading keeps them, and sees what is there.
LEMMA ReadsPods ==
    ASSUME "pods" \notin Lagging, Inv, PodsInUse, Reads
    PROVE  PodsInUse'
<1>1. UNCHANGED <<crLog, pods, seen>>
  BY DEF Reads, GetFindsNothing, GetFindsDevEnv, ReconcileStarts, GetBuilder, cluster
<1>2. /\ Stored' = Stored /\ pods' = pods /\ seen' = seen
      /\ pc \in {"idle", "getBuilder"}
      /\ pc' \in {"idle", "deleteRealm", "getBuilder", "identity"}
  BY <1>1 DEF Stored, Reads, GetFindsNothing, GetFindsDevEnv, ReconcileStarts, GetBuilder,
     ReturnRequeue, Goto
<1>3. pc = "idle" /\ pc' # "idle" => seen.pods = pods
  <2>1. pc = "idle" /\ pc' # "idle" => ReconcileStarts
    BY DEF Reads, GetFindsNothing, GetFindsDevEnv, ReconcileStarts, GetBuilder
  <2> QED
    BY <2>1 DEF ReconcileStarts, Informers, InSync
<1>4. BuildPodInUse' /\ InitPodInUse' /\ DropsFinished'
  BY <1>2 DEF PodsInUse, BuildPodInUse, InitPodInUse, DropsFinished, Occupied
<1>5. SeenSince'
  BY <1>2, <1>3 DEF PodsInUse, SeenSince, SeenTells, Finished
<1> QED
  BY <1>4, <1>5 DEF PodsInUse

\* Taking down removes the build pod before the finalizer.
LEMMA TakesDownPods ==
    ASSUME Inv, Tracked, PodsInUse, Calm, Calm', TakesDown
    PROVE  PodsInUse'
<1> USE DEF Inv, TypeOK, ClusterTypeOK
<1>0. ~Spend("fault")
  BY CalmSteps
<1>1. CASE DeleteRealm
  <2>1. /\ UNCHANGED <<crLog, pods, seen>> /\ pc = "deleteRealm"
        /\ pc' \in {"idle", "deleteBuildPod"}
    BY <1>1 DEF DeleteRealm, ReturnRequeue, Goto, cluster
  <2>2. Stored' = Stored
    BY <2>1 DEF Stored
  <2> QED
    BY <2>1, <2>2, SamePodsWear, WornPods DEF PodsInUse, BuildPodInUse, InitPodInUse
<1>2. CASE DeleteBuildPod
  <2>1. /\ UNCHANGED <<crLog, seen>> /\ pc = "deleteBuildPod" /\ pc' = "removeFinalizer"
        /\ \/ seen.pods["build"] = "absent" /\ UNCHANGED pods
           \/ DeletePod("build")
    BY <1>0, <1>2 DEF DeleteBuildPod, Goto
  <2>2. Stored' = Stored
    BY <2>1 DEF Stored
  <2>3. SeenTells("build") /\ SeenTells("init")
    BY <2>1 DEF PodsInUse, SeenSince
  <2>4. /\ pods'["build"] \in Going \cup {"absent"} /\ pods'["init"] = pods["init"]
        /\ Finished("build") => pods'["build"] = "absent"
    <3>1. CASE seen.pods["build"] = "absent" /\ UNCHANGED pods
      BY <2>3, <3>1 DEF SeenTells
    <3>2. CASE DeletePod("build")
      <4>1. /\ Deleted("build") \in Going \cup {"absent"}
            /\ Finished("build") => Deleted("build") = "absent"
        BY DEF Deleted, Going, Finished
      <4> QED
        BY <3>2, <4>1 DEF DeletePod, PodNames
    <3> QED
      BY <2>1, <3>1, <3>2
  <2>5. BuildPodInUse' /\ InitPodInUse' /\ DropsFinished'
    BY <2>1, <2>2, <2>4 DEF PodsInUse, BuildPodInUse, InitPodInUse, DropsFinished, Occupied
  <2>6. SeenSince'
    BY <2>1, <2>3, <2>4 DEF SeenSince, SeenTells, Finished
  <2> QED
    BY <2>5, <2>6 DEF PodsInUse
<1>3. CASE RemoveFinalizer
  <2>1. UNCHANGED <<pods, seen>> /\ pc = "removeFinalizer" /\ pc' = "idle"
    BY <1>3 DEF RemoveFinalizer, ReturnRequeue, ReturnDone
  <2>2. ~Occupied("build")
    BY <2>1 DEF PodsInUse, BuildPodInUse
  <2>3. Occupied("init") => Stored'.build # BuildPhaseRunning
    <3>1. Stored' = Stored \/ Stored' = Absent
      BY TakesDownTracked
    <3>2. Absent.build # BuildPhaseRunning
      BY DEF Absent, BuildPhaseInitial, BuildPhaseRunning
    <3> QED
      BY <2>1, <3>1, <3>2 DEF PodsInUse, InitPodInUse
  <2> QED
    BY <2>1, <2>2, <2>3, SamePodsWear, WornPods
<1> QED
  BY <1>1, <1>2, <1>3 DEF TakesDown

\* Identity leaves pods, phase and Builder alone.
LEMMA IdentifiesPods ==
    ASSUME OperatorInv, Tracked, Protected, PodsInUse, Calm, Calm', Identifies
    PROVE  PodsInUse'
<1> USE DEF OperatorInv, Inv, TypeOK, ClusterTypeOK
<1>1. /\ UNCHANGED <<pods, seen>>
      /\ pc \in {"identity", "statusRealm", "setFinalizer", "createClient", "createUser",
                 "setPassword", "statusUser"}
      /\ pc' \in {"idle", "statusRealm", "setFinalizer", "createClient", "createUser",
                  "setPassword", "statusUser", "namespace"}
  BY CalmSteps DEF Identifies, NewRealm, StatusRealm, SetFinalizer, CreateClient, CreateUser,
     SetPassword, StatusUser, Goto, ReturnRequeue, ReturnAfter, cluster
<1>2. Stored' = Stored \/ (devenv = Stored /\ CopyWrite(Stored'))
  BY IdentifiesTracked, ShapesStore
<1>3. /\ Stored'.build = Stored.build
      /\ Stored'.builderName = Stored.builderName
      /\ Stored.exists => Stored'.exists
      /\ Stored.finalizer => Stored'.finalizer
  <2>1. CASE Stored' = Stored
    BY <2>1
  <2>2. CASE devenv = Stored /\ CopyWrite(Stored')
    <3>1. devenv.exists
      BY <1>1 DEF Tracked, UidsTell
    <3> QED
      BY <2>2, <3>1, IdentityKeepsPhase DEF CopyWrite
  <2> QED
    BY <1>2, <2>1, <2>2
<1> QED
  BY <1>1, <1>3, SamePodsWear, WornPods DEF PodsInUse, BuildPodInUse, InitPodInUse

\* The DevEnv that is provisioned is the one that is stored, and only its phase
\* may change.
LEMMA ProvisionsStores ==
    ASSUME OperatorInv, Tracked, Protected, Provisions, kc' = kc
    PROVE  /\ pc \in AfterUser
           /\ Stored.exists /\ Stored.finalizer
           /\ devenv.build = Stored.build /\ devenv.builderName = Stored.builderName
           /\ hasBuilder <=> Stored.builderName
           /\ Stored'.exists /\ Stored'.finalizer /\ Stored'.builderName = Stored.builderName
           /\ Stored' = Stored \/ \E phase \in BuildPhase : Stored' = [Stored EXCEPT !.build = phase]
<1>1. Stored \in DevEnvObject
  BY LogOfObjects DEF OperatorInv, Inv, TypeOK, ControllerTypeOK
<1>2. pc \in AfterUser
  BY ProvisionsShape
<1>3. Holds /\ pc # "idle" /\ pc \in InCreation
  BY <1>2 DEF Protected, Guarded, InCreation, Onwards, AfterUser
<1>4. /\ devenv.build = Stored.build /\ devenv.builderName = Stored.builderName
      /\ hasBuilder <=> devenv.builderName
  BY <1>3 DEF Tracked, CopyFollows, BuildersFit, Holds
<1>5. Stored' = Stored \/ \E phase \in BuildPhase : Stored' = [Stored EXCEPT !.build = phase]
  BY ProvisionsServe DEF StoredMoves
<1> QED
  BY <1>1, <1>2, <1>3, <1>4, <1>5 DEF Holds, DevEnvObject

\* A phase that is written before a return, or not, as the copy is not fresh.
LEMMA PhaseWriteStores ==
    ASSUME Inv, pc \in Creating, NEW phase \in BuildPhase,
           Accepted(WithBuild(phase)) \/ Rejected(WithBuild(phase))
    PROVE  /\ Stored' = Stored \/ Stored'.build = phase
           /\ Accepted(WithBuild(phase)) => Stored'.build = phase
<1>1. WithBuild(phase) \in DevEnvObject
  BY PhaseInCopy
<1>2. WithBuild(phase).build = phase
  BY DEF Inv, TypeOK, ControllerTypeOK, DevEnvObject, WithBuild
<1> QED
  BY <1>1, <1>2, WriteTypes DEF Inv, TypeOK

\* The steps of Provisions that touch neither these pods nor the phase.
LEMMA QuietPods ==
    ASSUME OperatorInv, Tracked, Protected, PodsInUse, kc' = kc, Provisions,
           Namespace \/ Ensure \/ BuildPassed \/ InitPassed \/ Ide \/ BuildPanics
    PROVE  PodsInUse'
<1> USE DEF OperatorInv, Inv, TypeOK, ClusterTypeOK
<1>1. pc \in {"namespace", "ensure", "build", "init", "ide"}
  BY DEF Namespace, Ensure, BuildPassed, InitPassed, Ide, BuildPanics
<1>2. pc' \in {"idle", "ensure", "resetStatus", "build", "init", "ide"}
  BY DEF Namespace, CreateNamespace, Ensure, BuildPassed, InitPassed, Ide, CreateIde, Proxy,
     BuildPanics, Relisted, Restarted, Goto, ReturnRequeue, ReturnAfter, ReturnDone
<1>3. CASE BuildPanics
  <2>1. /\ pods' = pods /\ seen'.pods = pods' /\ pc' = "idle" /\ pc = "build"
        /\ Stored' = Stored
    BY <1>3, StoredAfter DEF BuildPanics, Relisted, Restarted, Current, ControllerTypeOK
  <2>2. BuildPodInUse' /\ InitPodInUse'
    BY <2>1 DEF PodsInUse, BuildPodInUse, InitPodInUse, Occupied
  <2>3. SeenSince' /\ DropsFinished'
    BY <2>1 DEF SeenSince, DropsFinished
  <2> QED
    BY <2>2, <2>3 DEF PodsInUse
<1>4. CASE ~BuildPanics
  <2>1. UNCHANGED <<crLog, seen>>
    BY <1>4 DEF Namespace, Ensure, BuildPassed, InitPassed, Ide, cluster
  <2>2. pods' = pods \/ CreatePod("ide")
    BY <1>4 DEF Namespace, Ensure, BuildPassed, InitPassed, Ide, CreateIde, cluster
  <2>3. pods'["build"] = pods["build"] /\ pods'["init"] = pods["init"]
    BY <2>2 DEF CreatePod, PodNames
  <2>4. Stored' = Stored
    BY <2>1 DEF Stored
  <2> QED
    BY <1>1, <1>2, <2>1, <2>3, <2>4, SamePodsWear, WornPods DEF PodsInUse, BuildPodInUse,
       InitPodInUse
<1> QED
  BY <1>3, <1>4

\* The steps that write a phase and return.
LEMMA PhasesKeepPods ==
    ASSUME OperatorInv, Tracked, Protected, PodsInUse, kc' = kc, Provisions,
           ResetStatus \/ StatusBuilding \/ StatusInitializing \/ BuildWithoutBuilder
    PROVE  PodsInUse'
<1> USE DEF OperatorInv, Inv, TypeOK, ClusterTypeOK
<1>1. pc \in {"resetStatus", "statusBuilding", "statusInitializing", "build"} /\ pc \in Creating
  BY DEF ResetStatus, StatusBuilding, StatusInitializing, BuildWithoutBuilder, Creating, Labels
<1>2. UNCHANGED <<pods, seen>> /\ pc' = "idle"
  BY DEF ResetStatus, StatusBuilding, StatusInitializing, BuildWithoutBuilder, WritesPhase,
     ReturnRequeue, ReturnAfter, cluster
<1>3. PICK phase \in BuildPhase :
          /\ Accepted(WithBuild(phase)) \/ Rejected(WithBuild(phase))
          /\ phase # BuildPhaseRunning
          /\ \/ phase \in {BuildPhaseInitial, BuildPhaseBuilding}
             \/ StatusInitializing \/ BuildWithoutBuilder
  BY PhaseTypes DEF ResetStatus, StatusBuilding, StatusInitializing, BuildWithoutBuilder,
     WritesPhase, SetDevEnvStatus, SetDevEnvStatusFails, BuildPhaseInitial, BuildPhaseBuilding,
     BuildPhaseWaitForInitializion, BuildPhaseInitializing, BuildPhaseRunning
<1>4. Stored' = Stored \/ Stored'.build = phase
  BY <1>1, <1>3, PhaseWriteStores
<1>5. StatusInitializing \/ BuildWithoutBuilder => ~Occupied("build")
  <2>1. CASE StatusInitializing
    <3>1. pc = "statusInitializing" /\ Stored.build = BuildPhaseWaitForInitializion
      BY <2>1, ProvisionsStores DEF StatusInitializing, ProvisioningInv, PhaseAtWrite
    <3> QED
      BY <3>1 DEF PodsInUse, BuildPodInUse, BuildPhaseInitial, BuildPhaseBuilding,
         BuildPhaseWaitForInitializion
  <2>2. CASE BuildWithoutBuilder
    BY <2>2, ProvisionsStores DEF BuildWithoutBuilder, PodsInUse, BuildPodInUse
  <2> QED
    BY <2>1, <2>2
<1>6. Occupied("build") => /\ Stored'.exists /\ Stored'.builderName /\ Stored'.finalizer
                           /\ Stored'.build \in {BuildPhaseInitial, BuildPhaseBuilding}
  BY <1>1, <1>3, <1>4, <1>5, ProvisionsStores DEF PodsInUse, BuildPodInUse
<1>7. Occupied("init") => Stored'.build # BuildPhaseRunning
  BY <1>1, <1>3, <1>4 DEF PodsInUse, InitPodInUse
<1> QED
  BY <1>2, <1>6, <1>7, SamePodsWear, WornPods

\* The steps that make a pod.
LEMMA CreatesPods ==
    ASSUME OperatorInv, Tracked, Protected, PodsInUse, Calm, Calm', kc' = kc, Provisions,
           BuildInitial \/ InitWaiting
    PROVE  PodsInUse'
<1> USE DEF OperatorInv, Inv, TypeOK, ClusterTypeOK
<1>0. ~Spend("fault")
  BY CalmSteps
<1>1. UNCHANGED <<crLog, seen>> /\ pc \in {"build", "init"}
  BY DEF BuildInitial, InitWaiting, CreatesPod
<1>2. Stored' = Stored
  BY <1>1 DEF Stored
<1>3. CASE pods' = pods /\ pc' \in {"idle", "replaceBuildPod", "replaceInitPod"}
  BY <1>1, <1>2, <1>3, SamePodsWear, WornPods DEF PodsInUse, BuildPodInUse, InitPodInUse
<1>4. CASE BuildInitial /\ CreatePod("build") /\ pc' = "statusBuilding"
  <2>1. hasBuilder /\ devenv.build = BuildPhaseInitial
    BY <1>4 DEF BuildInitial, hasBuilder
  <2>2. pods'["init"] = pods["init"]
    BY <1>4 DEF CreatePod
  <2>3. BuildPodInUse'
    BY <1>2, <1>4, <2>1, ProvisionsStores DEF BuildPodInUse
  <2>4. InitPodInUse' /\ DropsFinished'
    BY <1>1, <1>2, <1>4, <2>2 DEF PodsInUse, InitPodInUse, DropsFinished, Occupied
  <2>5. SeenSince'
    BY <1>1, <1>4, <2>2 DEF PodsInUse, SeenSince, SeenTells, Finished
  <2> QED
    BY <2>3, <2>4, <2>5 DEF PodsInUse
<1>5. CASE InitWaiting /\ CreatePod("init") /\ pc' = "statusInitializing"
  <2>1. Stored.build = BuildPhaseWaitForInitializion
    BY <1>5, ProvisionsStores DEF InitWaiting
  <2>2. pods'["build"] = pods["build"]
    BY <1>5 DEF CreatePod
  <2>3. BuildPodInUse' /\ DropsFinished'
    BY <1>1, <1>2, <1>5, <2>2 DEF PodsInUse, BuildPodInUse, DropsFinished, Occupied
  <2>4. InitPodInUse'
    BY <1>2, <2>1 DEF InitPodInUse, BuildPhaseWaitForInitializion, BuildPhaseRunning
  <2>5. SeenSince'
    BY <1>1, <1>5, <2>2 DEF PodsInUse, SeenSince, SeenTells, Finished
  <2> QED
    BY <2>3, <2>4, <2>5 DEF PodsInUse
<1>6. \/ pods' = pods /\ pc' \in {"idle", "replaceBuildPod", "replaceInitPod"}
      \/ BuildInitial /\ CreatePod("build") /\ pc' = "statusBuilding"
      \/ InitWaiting /\ CreatePod("init") /\ pc' = "statusInitializing"
  BY <1>0 DEF BuildInitial, InitWaiting, CreatesPod, Goto, ReturnRequeue
<1> QED
  BY <1>3, <1>4, <1>5, <1>6

\* The steps that delete one leave none that runs.
LEMMA DropsPods ==
    ASSUME OperatorInv, PodsInUse, Calm, Calm',
           ReplaceBuildPod \/ DropBuildPod \/ ReplaceInitPod \/ DropInitPod
    PROVE  PodsInUse'
<1> USE DEF OperatorInv, Inv, TypeOK, ClusterTypeOK
<1>0. ~Spend("fault")
  BY CalmSteps
<1>1. PICK p \in {"build", "init"} :
          /\ DropsPod(p)
          /\ pc \in (IF p = "build" THEN {"replaceBuildPod", "dropBuildPod"}
                                    ELSE {"replaceInitPod", "dropInitPod"})
  BY DEF ReplaceBuildPod, DropBuildPod, ReplaceInitPod, DropInitPod
<1>2. UNCHANGED <<crLog, seen>> /\ pc' = "idle"
  BY <1>1 DEF DropsPod, ReturnAfter, ReturnRequeue
<1>3. Stored' = Stored
  BY <1>2 DEF Stored
<1>4. DeletePod(p) \/ (pods' = pods /\ pods[p] = "absent")
  BY <1>0, <1>1 DEF DropsPod
<1>5. Wears("build") /\ Wears("init")
  BY <1>4, MovesWear DEF PodNames
<1>6. ~Occupied(p)'
  <2>1. Deleted(p) \in Going \cup {"absent"}
    BY DEF Deleted, Going
  <2> QED
    BY <1>4, <2>1 DEF DeletePod, Occupied, PodNames
<1>7. /\ Occupied("build")' => Occupied("build") /\ pc # "dropBuildPod"
      /\ Occupied("init")' => Occupied("init") /\ pc # "dropInitPod"
  BY <1>1, <1>5, <1>6 DEF Wears
<1> QED
  BY <1>2, <1>3, <1>5, <1>7, WornPods DEF PodsInUse, BuildPodInUse, InitPodInUse

\* The steps that watch one move on only when it has finished.
LEMMA WatchesPods ==
    ASSUME OperatorInv, Tracked, Protected, PodsInUse, Calm, Calm', kc' = kc, Provisions,
           NEW p \in {"build", "init"}, NEW back \in BuildPhase, NEW next \in BuildPhase,
           NEW d \in {"dropBuildPod", "dropInitPod"}, Watches(p, back, next, d),
           \/ /\ p = "build" /\ back = BuildPhaseInitial /\ d = "dropBuildPod"
              /\ next = BuildPhaseWaitForInitializion
              /\ pc = "build" /\ Stored.build = BuildPhaseBuilding
           \/ /\ p = "init" /\ back = BuildPhaseWaitForInitializion /\ d = "dropInitPod"
              /\ next = BuildPhaseRunning
              /\ pc = "init" /\ Stored.build = BuildPhaseInitializing
    PROVE  PodsInUse'
<1> USE DEF OperatorInv, Inv, TypeOK, ClusterTypeOK
<1>1. UNCHANGED <<pods, seen>> /\ pc \in {"build", "init"} /\ pc \in Creating
  BY DEF Watches, WritesPhase, cluster, Creating, Labels
<1>2. /\ Stored'.exists /\ Stored'.finalizer /\ Stored'.builderName = Stored.builderName
      /\ p = "init" => ~Occupied("build")
  BY ProvisionsStores DEF PodsInUse, BuildPodInUse, BuildPhaseInitial, BuildPhaseBuilding,
     BuildPhaseInitializing
<1>3. CASE pc' = "idle" /\ (Stored' = Stored \/ Stored'.build = back)
  <2>1. Stored'.build # BuildPhaseRunning
    BY <1>3 DEF BuildPhaseInitial, BuildPhaseBuilding, BuildPhaseWaitForInitializion,
       BuildPhaseInitializing, BuildPhaseRunning
  <2>2. p = "build" => Stored'.build \in {BuildPhaseInitial, BuildPhaseBuilding}
    BY <1>3
  <2> QED
    BY <1>1, <1>2, <1>3, <2>1, <2>2, SamePodsWear, WornPods DEF PodsInUse, BuildPodInUse
<1>4. CASE pc' = d /\ seen.pods[p] \in {"succeeded", "finished"} /\ Stored'.build = next
  <2>1. Finished(p)
    BY <1>1, <1>4 DEF PodsInUse, SeenSince, SeenTells
  <2>2. BuildPodInUse'
    BY <1>1, <1>2, <1>4 DEF PodsInUse, BuildPodInUse, Occupied
  <2>3. InitPodInUse'
    BY <1>4 DEF InitPodInUse, BuildPhaseWaitForInitializion, BuildPhaseRunning
  <2>4. SeenSince' /\ DropsFinished'
    BY <1>1, <1>4, <2>1 DEF PodsInUse, SeenSince, DropsFinished, SeenTells, Finished
  <2> QED
    BY <2>2, <2>3, <2>4 DEF PodsInUse
<1>5. CASE WritesPhase(back)
  <2>1. pc' = "idle" /\ (Accepted(WithBuild(back)) \/ Rejected(WithBuild(back)))
    BY <1>5 DEF WritesPhase, SetDevEnvStatus, SetDevEnvStatusFails, ReturnAfter, ReturnRequeue
  <2> QED
    BY <1>1, <1>3, <2>1, PhaseWriteStores
<1>6. CASE SetDevEnvStatusFails(next) /\ ReturnRequeue
  <2>1. crLog' = crLog /\ pc' = "idle"
    BY <1>6, CalmSteps DEF SetDevEnvStatusFails, ReturnRequeue
  <2>2. Stored' = Stored
    BY <2>1 DEF Stored
  <2> QED
    BY <1>3, <2>1, <2>2
<1>7. CASE /\ seen.pods[p] \in {"succeeded", "finished"}
           /\ SetDevEnvStatus(next) /\ Goto(d)
  <2>1. Stored'.build = next
    BY <1>1, <1>7, PhaseWriteStores DEF SetDevEnvStatus
  <2> QED
    BY <1>4, <1>7, <2>1 DEF Goto
<1>8. CASE (ReturnDone \/ ReturnAfter) /\ crLog' = crLog
  <2>1. Stored' = Stored /\ pc' = "idle"
    BY <1>8 DEF Stored, ReturnDone, ReturnAfter
  <2> QED
    BY <1>3, <2>1
<1> QED
  BY <1>5, <1>6, <1>7, <1>8 DEF Watches

\* All steps of Provisions.
LEMMA ProvisionsPods ==
    ASSUME OperatorInv, Tracked, Protected, PodsInUse, Calm, Calm', kc' = kc, Provisions
    PROVE  PodsInUse'
<1>1. CASE BuildBuilding
  <2>1. Stored.build = BuildPhaseBuilding /\ pc = "build"
    BY <1>1, ProvisionsStores DEF BuildBuilding
  <2> QED
    BY <1>1, <2>1, WatchesPods, PhaseTypes DEF BuildBuilding
<1>2. CASE InitInitializing
  <2>1. Stored.build = BuildPhaseInitializing /\ pc = "init"
    BY <1>2, ProvisionsStores DEF InitInitializing
  <2> QED
    BY <1>2, <2>1, WatchesPods, PhaseTypes DEF InitInitializing
<1> QED
  BY <1>1, <1>2, QuietPods, PhasesKeepPods, CreatesPods, DropsPods DEF Provisions

\* PodsInUse is inductive as long as all is calm.
LEMMA PodsInUseNext ==
    ASSUME "devenv" \notin Lagging, "pods" \notin Lagging, OperatorInv, Tracked, Protected,
           PodsInUse, Calm, Calm', [OperatorNext]_vars
    PROVE  PodsInUse'
<1> USE DEF OperatorInv
<1>1. CASE Reads
  BY <1>1, ReadsPods
<1>2. CASE TakesDown
  BY <1>2, TakesDownPods
<1>3. CASE Identifies
  BY <1>3, IdentifiesPods
<1>4. CASE Provisions /\ UNCHANGED kc
  BY <1>4, ProvisionsPods
<1>5. CASE Elsewhere
  BY <1>5, ElsewherePods
<1>6. CASE UNCHANGED vars
  BY <1>6 DEF vars, clusterVars, controllerVars, cluster, Stored, PodsInUse, BuildPodInUse,
     InitPodInUse, SeenSince, DropsFinished, SeenTells, Finished, Occupied
<1> QED
  BY <1>1, <1>2, <1>3, <1>4, <1>5, <1>6 DEF OperatorNext, WholeReconcile

\* At first there is nothing to protect, and there are no pods.
LEMMA CalmInit == Init => Protected /\ PodsInUse
<1> SUFFICES ASSUME Init PROVE Protected /\ PodsInUse
  OBVIOUS
<1>1. Stored = Absent /\ pc = "idle" /\ pods["build"] = "absent" /\ pods["init"] = "absent"
  BY DEF Init, Stored, NothingThere, PodNames
<1> QED
  BY <1>1 DEF Absent, Protected, Guarded, AfterUser, TakingDown, PodsInUse, BuildPodInUse,
     InitPodInUse, SeenSince, DropsFinished, Occupied

-----------------------------------------------------------------------------
(* The volume.                                                             *)

\* No pod was lost so far.
Kept == budget["podloss"] = Budget["podloss"]

\* What is on the volume goes before another pod starts on it.
Doomed == ns = "terminating" \/ "namespace" \in orphans \/ "pvc" \in orphans

\* Nobody works on the DevEnv any more but to take it down.
Leaving == Stored.exists /\ Stored.deleting /\ pc \in TakingDown \cup {"idle"}

\* Stored phases in which the DevEnv has not made its init pod, or not noted it.
BeforeInit == Stored.build \in {BuildPhaseInitial, BuildPhaseBuilding,
                                BuildPhaseWaitForInitializion}

\* The init pod is the one that the stored DevEnv has made.
InitIsOurs ==
    pc = "statusInitializing" \/ (Stored.exists /\ Stored.build = BuildPhaseInitializing)

\* What the worker goes by, until it makes another init pod or namespace.
InitSeenDone ==
    /\ pc \notin {"idle", "resetStatus", "statusInitializing"}
    /\ seen.pods["init"] \in {"succeeded", "finished"}

\* The script runs, also when its pod is being deleted.
Filling == pods["init"] \in {"copying", "stopping"}

\* Pods of a namespace go before it does, and a new one starts without any.
PodsNeedNs ==
    ns = "absent" \/ pc = "resetStatus" => pods["init"] = "absent" /\ pods["ide"] = "absent"

\* What has once been started on a volume is not outlived by its claim, and what
\* has been orphaned is there, and has been orphaned with its namespace.
ClaimIsUsed ==
    /\ Filling => volume # "none"
    /\ "namespace" \in orphans => ns # "absent"
    /\ "pvc" \in orphans => volume # "none"
    /\ "namespace" \in orphans /\ (Filling \/ volume \in {"marked", "ready"})
           => "pvc" \in orphans

\* An init pod that the DevEnv has not made was left by an earlier one.
InitPodLeft ==
    pods["init"] \in {"pending", "copying", "failed"} /\ pc # "statusInitializing"
            /\ (Stored.exists => BeforeInit)
        => Doomed \/ (Stored.exists /\ Stored.deleting)

\* A script in a pod that is being deleted fills a volume that will go; if the
\* stored DevEnv has made the pod, that is so because the namespace goes.
InitStops ==
    /\ pods["init"] = "stopping" => Doomed \/ Leaving
    /\ InitIsOurs /\ pods["init"] \in {"stopping", "finished"} => ns = "terminating"

\* One that it has made did not start as long as there was something to collect,
\* and so nothing is collected while it lives.
NothingOrphaned ==
    /\ InitIsOurs /\ pods["init"] \in {"copying", "stopping", "succeeded", "finished", "failed"}
           => orphans = {}
    /\ InitSeenDone /\ Stored.exists /\ Stored.build = BuildPhaseInitializing => orphans = {}
    /\ Stored.exists /\ Stored.build = BuildPhaseRunning => orphans = {}

\* A volume that is only half filled is being filled, or will go.
HalfFilled ==
    /\ volume = "marked" => pods["init"] \in {"copying", "failed"} \/ Doomed \/ Leaving
    /\ volume = "marked" /\ pods["init"] = "pending" => "pvc" \in orphans

InitDone ==
    /\ pods["init"] \in {"succeeded", "finished"} => volume = "ready"
    /\ InitSeenDone /\ Stored.exists /\ Stored.build = BuildPhaseInitializing
           => pods["init"] \in {"succeeded", "finished"} \/ ns # "active"

\* Only users make the worker's copy stale, when they delete.
StaleIsDeleted ==
    pc \in Guarded \/ (pc \in {"getBuilder", "identity"} /\ devenv.realm)
        => fresh \/ Stored.deleting

\* Of a DevEnv that counts as running no init pod is under way any more.
RunningReady ==
    Stored.exists /\ Stored.build = BuildPhaseRunning
        => /\ pods["init"] \notin {"pending", "copying", "stopping"}
           /\ ns = "active" => volume = "ready" \/ pc = "resetStatus" \/ Leaving

IdeReady == pods["ide"] \in {"pending", "running"} => volume = "ready"

VolumeInUse ==
    /\ PodsNeedNs /\ ClaimIsUsed /\ InitPodLeft /\ InitStops /\ NothingOrphaned /\ HalfFilled
    /\ InitDone /\ StaleIsDeleted /\ RunningReady /\ IdeReady

\* Neither do its copy's freshness and the rest of the cluster change unless
\* somebody does something about them.
LEMMA VolumeKept ==
    ASSUME VolumeInUse, UNCHANGED <<ns, volume, orphans>>, seen'.pods = seen.pods,
           pods'["init"] = pods["init"], pods'["ide"] = pods["ide"],
           Stored'.exists = Stored.exists, Stored'.build = Stored.build,
           Stored'.deleting = Stored.deleting,
           pc \notin {"idle", "resetStatus", "statusInitializing"} \cup TakingDown,
           pc' \notin {"resetStatus", "statusInitializing"},
           StaleIsDeleted'
    PROVE  VolumeInUse'
<1>1. PodsNeedNs' /\ ClaimIsUsed' /\ IdeReady' /\ InitPodLeft'
  BY DEF VolumeInUse, PodsNeedNs, ClaimIsUsed, Filling, IdeReady, InitPodLeft, BeforeInit, Doomed
<1>2. NothingOrphaned' /\ InitDone'
  BY DEF VolumeInUse, NothingOrphaned, InitDone, InitSeenDone, InitIsOurs
<1>3. ~Leaving
  BY DEF Leaving
<1>4. HalfFilled' /\ RunningReady' /\ InitStops'
  BY <1>3 DEF VolumeInUse, HalfFilled, RunningReady, InitStops, InitIsOurs, Doomed
<1> QED
  BY <1>1, <1>2, <1>4 DEF VolumeInUse

\* The worker's copy is stale only if the DevEnv was marked.
LEMMA WorkerStale ==
    ASSUME "devenv" \notin Lagging, OperatorInv, Tracked, Protected, StaleIsDeleted,
           Calm, Calm', WholeReconcile
    PROVE  StaleIsDeleted'
<1> USE DEF OperatorInv
<1>1. CASE Reads
  <2>1. Stored' = Stored
    <3>1. crLog' = crLog
      BY <1>1 DEF Reads, GetFindsNothing, GetFindsDevEnv, ReconcileStarts, GetBuilder
    <3> QED
      BY <3>1 DEF Stored
  <2>2. CASE GetFindsDevEnv
    BY <2>2, CurrentRead DEF StaleIsDeleted
  <2>3. CASE GetFindsNothing \/ GetBuilder
    <3>1. pc' = "idle" \/ (pc = "getBuilder" /\ pc' = "identity" /\ UNCHANGED <<devenv, fresh>>)
      BY <2>3 DEF GetFindsNothing, ReconcileStarts, GetBuilder, ReturnRequeue, Goto
    <3> QED
      BY <2>1, <3>1 DEF StaleIsDeleted, Guarded, AfterUser
  <2> QED
    BY <1>1, <2>2, <2>3 DEF Reads
<1>2. CASE TakesDown
  <2>1. pc' \in {"idle", "deleteBuildPod", "removeFinalizer"}
    BY <1>2 DEF TakesDown, DeleteRealm, DeleteBuildPod, RemoveFinalizer, Goto, ReturnRequeue,
       ReturnDone
  <2> QED
    BY <2>1 DEF StaleIsDeleted, Guarded, AfterUser
<1>3. CASE Identifies \/ Provisions
  <2>1. Ends \/ MovesOn \/ WritesOn
    BY <1>3, IdentifiesTracked, ProvisionsTracked
  <2>2. CASE Ends
    BY <2>2 DEF Ends, StaleIsDeleted, Guarded, AfterUser
  <2>3. CASE WritesOn
    BY <2>3, ShapesStore DEF StaleIsDeleted
  <2>4. CASE MovesOn
    <3>1. /\ Stored' = Stored /\ UNCHANGED <<devenv, fresh>>
          /\ pc' \notin {"identity", "getBuilder"}
      BY <2>4 DEF MovesOn, Stored, Onwards, AfterUser
    <3>2. pc' \in Guarded => fresh \/ pc \in Guarded \/ (pc = "identity" /\ devenv.realm)
      <4>1. CASE Provisions
        BY <4>1, ProvisionsShape DEF Guarded
      <4>2. CASE NewRealm \/ CreateClient \/ CreateUser \/ SetPassword
        BY <4>2 DEF NewRealm, CreateClient, CreateUser, SetPassword, Goto, ReturnRequeue,
           Guarded,
           AfterUser
      <4>3. CASE StatusRealm \/ SetFinalizer \/ StatusUser
        BY <4>3 DEF StatusRealm, SetFinalizer, StatusUser, Goto, ReturnRequeue, Guarded,
           AfterUser, Accepted
      <4> QED
        BY <1>3, <4>1, <4>2, <4>3 DEF Identifies
    <3> QED
      BY <3>1, <3>2 DEF StaleIsDeleted
  <2> QED
    BY <2>1, <2>2, <2>3, <2>4
<1> QED
  BY <1>1, <1>2, <1>3 DEF WholeReconcile

\* Reading sees the pods as they are.
LEMMA ReadsVolume ==
    ASSUME "devenv" \notin Lagging, "pods" \notin Lagging, OperatorInv, VolumeInUse,
           StaleIsDeleted', Reads
    PROVE  VolumeInUse'
<1>1. UNCHANGED <<crLog, ns, volume, orphans, pods, seen>>
  BY DEF Reads, GetFindsNothing, GetFindsDevEnv, ReconcileStarts, GetBuilder, cluster
<1>2. Stored' = Stored
  BY <1>1 DEF Stored
<1>3. CASE GetBuilder
  <2>1. pc = "getBuilder" /\ pc' \in {"idle", "identity"}
    BY <1>3 DEF GetBuilder, ReturnRequeue, Goto
  <2> QED
    BY <1>1, <1>2, <2>1, VolumeKept DEF TakingDown
<1>4. CASE GetFindsNothing \/ GetFindsDevEnv
  <2>1. /\ pc = "idle" /\ seen.pods = pods
        /\ \/ pc' = "idle"
           \/ pc' = IF Stored.deleting THEN "deleteRealm" ELSE "getBuilder"
    <3>1. pc = "idle" /\ seen.pods = pods /\ (GetFindsNothing => pc' = pc)
      BY <1>4 DEF GetFindsNothing, GetFindsDevEnv, ReconcileStarts, Informers, InSync
    <3> QED
      BY <1>4, <3>1, CurrentRead DEF OperatorInv
  <2>2. PodsNeedNs' /\ ClaimIsUsed' /\ IdeReady' /\ InitPodLeft'
    BY <1>1, <1>2, <2>1 DEF VolumeInUse, PodsNeedNs, ClaimIsUsed, Filling, IdeReady, InitPodLeft,
       BeforeInit, Doomed
  <2>3. NothingOrphaned' /\ InitDone'
    BY <1>1, <1>2, <2>1 DEF VolumeInUse, NothingOrphaned, InitDone, InitSeenDone, InitIsOurs
  <2>4. Leaving => Leaving'
    BY <1>2, <2>1 DEF Leaving, TakingDown
  <2>5. HalfFilled' /\ RunningReady' /\ InitStops'
    BY <1>1, <1>2, <2>1, <2>4 DEF VolumeInUse, HalfFilled, RunningReady, InitStops,
       InitIsOurs, Doomed
  <2> QED
    BY <2>2, <2>3, <2>5 DEF VolumeInUse
<1> QED
  BY <1>3, <1>4 DEF Reads

\* What the owner's end orphans.
LEMMA OwnerGoes ==
    ASSUME DeleteVolumes, Stored.exists, ~Stored'.exists, LeavesOrphans
    PROVE  /\ orphans \subseteq orphans'
           /\ "namespace" \in orphans' <=> "namespace" \in orphans \/ ns # "absent"
           /\ "pvc" \in orphans' <=> "pvc" \in orphans \/ volume # "none"
  BY DEF LeavesOrphans, Owned, There, HasOwner

\* When a DevEnv goes, what is on its volume is doomed.
LEMMA VolumeOrphaned ==
    ASSUME ClusterTypeOK, DeleteVolumes, VolumeInUse, Stored.exists, ~Stored'.exists,
           LeavesOrphans, UNCHANGED <<ns, volume, pods, seen>>,
           pc' = pc \/ (pc' = "idle" /\ pc \in TakingDown), pc # "statusInitializing",
           StaleIsDeleted'
    PROVE  VolumeInUse'
<1>1. /\ orphans \subseteq orphans'
      /\ "namespace" \in orphans' <=> "namespace" \in orphans \/ ns # "absent"
      /\ "pvc" \in orphans' <=> "pvc" \in orphans \/ volume # "none"
  BY OwnerGoes
<1>2. PodsNeedNs' /\ IdeReady' /\ ClaimIsUsed'
  BY <1>1 DEF VolumeInUse, PodsNeedNs, ClaimIsUsed, Filling, IdeReady, TakingDown
<1>3. InitPodLeft'
  BY <1>1 DEF VolumeInUse, InitPodLeft, PodsNeedNs, Doomed
<1>4. NothingOrphaned' /\ InitDone'
  BY DEF VolumeInUse, NothingOrphaned, InitDone, InitSeenDone, InitIsOurs, TakingDown
<1>5. HalfFilled' /\ RunningReady' /\ InitStops'
  BY <1>1 DEF VolumeInUse, HalfFilled, RunningReady, InitStops, InitIsOurs, Doomed,
     ClaimIsUsed, Filling
<1> QED
  BY <1>2, <1>3, <1>4, <1>5 DEF VolumeInUse

\* Taking down leaves the volume to the collector.
LEMMA TakesDownVolume ==
    ASSUME DeleteVolumes, OperatorInv, Tracked, Protected, VolumeInUse, StaleIsDeleted', TakesDown
    PROVE  VolumeInUse'
<1> USE DEF OperatorInv, Inv, TypeOK
<1>1. pc \in TakingDown /\ Holds /\ Stored.deleting
  BY DEF TakesDown, DeleteRealm, DeleteBuildPod, RemoveFinalizer, TakingDown, Protected
<1>2. CASE Stored' = Stored
  <2>1. /\ UNCHANGED <<ns, volume, orphans, seen>>
        /\ pods'["init"] = pods["init"] /\ pods'["ide"] = pods["ide"]
    BY <1>2 DEF TakesDown, DeleteRealm, DeleteBuildPod, RemoveFinalizer, LeavesOrphans, cluster,
       DeletePod, ClusterTypeOK, PodNames
  <2>2. pc' \in TakingDown \cup {"idle"}
    BY DEF TakesDown, DeleteRealm, DeleteBuildPod, RemoveFinalizer, TakingDown, Goto,
       ReturnRequeue,
       ReturnDone
  <2>3. Leaving /\ Leaving'
    BY <1>1, <1>2, <2>2 DEF Leaving, Holds
  <2>4. PodsNeedNs' /\ ClaimIsUsed' /\ IdeReady' /\ InitPodLeft'
    BY <1>1, <1>2, <2>1, <2>2 DEF VolumeInUse, PodsNeedNs, ClaimIsUsed, Filling, IdeReady,
       InitPodLeft,
       BeforeInit, Doomed, TakingDown
  <2>5. NothingOrphaned' /\ InitDone'
    BY <1>1, <1>2, <2>1, <2>2 DEF VolumeInUse, NothingOrphaned, InitDone, InitSeenDone,
       InitIsOurs,
       TakingDown
  <2>6. HalfFilled' /\ RunningReady' /\ InitStops'
    BY <1>1, <1>2, <2>1, <2>2, <2>3 DEF VolumeInUse, TakingDown, HalfFilled, RunningReady,
       InitStops, InitIsOurs, Doomed
  <2> QED
    BY <2>4, <2>5, <2>6 DEF VolumeInUse
<1>3. CASE Stored' # Stored
  <2>1. Stored' = Absent /\ RemoveFinalizer
    BY <1>3, TakesDownTracked DEF TakesDown, DeleteRealm, DeleteBuildPod, Stored
  <2>2. ~Stored'.exists /\ Stored.exists
    BY <1>1, <2>1 DEF Absent, Holds
  <2>3. /\ LeavesOrphans /\ UNCHANGED <<ns, volume, pods, seen>>
        /\ pc' = "idle" /\ pc # "statusInitializing"
    BY <2>1 DEF RemoveFinalizer, ReturnDone, ReturnRequeue
  <2> QED
    BY <1>1, <2>2, <2>3, VolumeOrphaned
<1> QED
  BY <1>2, <1>3

\* Identity has nothing to do with it.
LEMMA IdentifiesVolume ==
    ASSUME OperatorInv, Tracked, VolumeInUse, Calm, Calm', StaleIsDeleted', Identifies
    PROVE  VolumeInUse'
<1> USE DEF OperatorInv, Inv
<1>1. /\ UNCHANGED <<ns, volume, orphans, pods, seen>>
      /\ pc \in {"identity", "statusRealm", "setFinalizer", "createClient", "createUser",
                 "setPassword", "statusUser"}
      /\ pc' \in {"idle", "statusRealm", "setFinalizer", "createClient", "createUser",
                  "setPassword", "statusUser", "namespace"}
  BY CalmSteps DEF Identifies, NewRealm, StatusRealm, SetFinalizer, CreateClient, CreateUser,
     SetPassword, StatusUser, Goto, ReturnRequeue, ReturnAfter, cluster
<1>2. /\ Stored'.exists = Stored.exists /\ Stored'.build = Stored.build
      /\ Stored'.deleting = Stored.deleting
  <2>1. CASE Stored' = Stored
    BY <2>1
  <2>2. CASE devenv = Stored /\ CopyWrite(Stored')
    <3>1. devenv.exists /\ Stored.exists
      BY <1>1, <2>2 DEF Tracked, UidsTell
    <3>2. Stored'.exists /\ Stored'.build = Stored.build /\ Stored'.deleting = Stored.deleting
      BY <2>2, <3>1, IdentityKeepsPhase DEF CopyWrite
    <3> QED
      BY <2>2, <3>1, <3>2, LogOfObjects DEF CopyWrite, DevEnvObject, TypeOK, ControllerTypeOK
  <2> QED
    BY <2>1, <2>2, IdentifiesTracked, ShapesStore
<1> QED
  BY <1>1, <1>2, VolumeKept DEF TakingDown

\* Users who do not edit create, delete or mark a DevEnv.
LEMMA UserVolume ==
    ASSUME DeleteVolumes, OperatorInv, Protected, VolumeInUse, NoEdit, NoEdit', User
    PROVE  VolumeInUse'
<1> USE DEF OperatorInv, Inv, TypeOK
<1>1. /\ LeavesOrphans /\ UNCHANGED <<ns, volume, pods, seen>>
      /\ UNCHANGED <<pc, devenv>>
  BY UserSteps DEF User
<1>2. Stored \in DevEnvObject
  BY LogOfObjects DEF ControllerTypeOK
<1>3. pc \in Guarded \/ (pc \in {"getBuilder", "identity"} /\ devenv.realm)
          => Stored.exists /\ Stored.finalizer
  BY DEF Protected, Holds
<1>4. CASE Stored.exists /\ ~Stored.finalizer /\ Stored' = Absent
  <2>1. ~Stored'.exists
    BY <1>4 DEF Absent
  <2>2. StaleIsDeleted' /\ pc # "statusInitializing"
    BY <1>1, <1>3, <1>4 DEF StaleIsDeleted, Guarded, AfterUser
  <2> QED
    BY <1>1, <1>4, <2>1, <2>2, VolumeOrphaned
<1>5. CASE ~Stored.exists /\ \E b \in BOOLEAN : Stored' = Created(b)
  <2>1. Stored'.exists /\ ~Stored'.deleting /\ Stored'.build = BuildPhaseInitial
    BY <1>5 DEF Created, Absent
  <2>2. orphans' = orphans
    BY <1>1, <1>5 DEF LeavesOrphans
  <2>3. StaleIsDeleted' /\ pc # "statusInitializing"
    BY <1>1, <1>3, <1>5 DEF StaleIsDeleted, Guarded, AfterUser
  <2>4. PodsNeedNs' /\ ClaimIsUsed' /\ IdeReady' /\ InitPodLeft'
    BY <1>1, <1>5, <2>1, <2>2 DEF VolumeInUse, PodsNeedNs, ClaimIsUsed, Filling, IdeReady,
       InitPodLeft,
       BeforeInit, Doomed
  <2>5. NothingOrphaned' /\ InitDone'
    BY <1>1, <2>1, <2>2, <2>3 DEF VolumeInUse, NothingOrphaned, InitDone, InitSeenDone,
       InitIsOurs,
       BuildPhaseInitial, BuildPhaseInitializing, BuildPhaseRunning
  <2>6. HalfFilled' /\ RunningReady' /\ InitStops'
    BY <1>1, <1>5, <2>1, <2>2, <2>3 DEF VolumeInUse, HalfFilled, RunningReady, InitStops,
       InitIsOurs, Doomed,
       Leaving, BuildPhaseInitial, BuildPhaseInitializing, BuildPhaseRunning
  <2> QED
    BY <2>3, <2>4, <2>5, <2>6 DEF VolumeInUse
<1>6. CASE Stored.exists /\ Stored' = [Stored EXCEPT !.deleting = TRUE]
  <2>1. Stored'.exists /\ Stored'.deleting /\ Stored'.build = Stored.build
    BY <1>2, <1>6 DEF DevEnvObject
  <2>2. orphans' = orphans
    BY <1>1, <2>1 DEF LeavesOrphans
  <2>3. PodsNeedNs' /\ ClaimIsUsed' /\ IdeReady' /\ InitPodLeft' /\ StaleIsDeleted'
    BY <1>1, <1>6, <2>1, <2>2 DEF VolumeInUse, PodsNeedNs, ClaimIsUsed, Filling, IdeReady,
       InitPodLeft,
       BeforeInit, Doomed, StaleIsDeleted
  <2>4. NothingOrphaned' /\ InitDone'
    BY <1>1, <1>6, <2>1, <2>2 DEF VolumeInUse, NothingOrphaned, InitDone, InitSeenDone,
       InitIsOurs
  <2>5. HalfFilled' /\ RunningReady' /\ InitStops'
    BY <1>1, <1>6, <2>1, <2>2 DEF VolumeInUse, HalfFilled, RunningReady, InitStops,
       InitIsOurs, Doomed, Leaving
  <2> QED
    BY <2>3, <2>4, <2>5 DEF VolumeInUse
<1> QED
  BY <1>4, <1>5, <1>6, UserWrites

\* How an init pod and its volume move by themselves when no call fails.
InitTurns ==
    \/ pods'["init"] = pods["init"] /\ UNCHANGED volume
    \/ /\ pods["init"] = "pending" /\ pods'["init"] = "copying"
       /\ volume = "empty" /\ UNCHANGED volume /\ orphans = {}
    \/ /\ pods["init"] = "pending" /\ pods'["init"] = "succeeded"
       /\ volume \in {"marked", "ready"} /\ UNCHANGED volume /\ orphans = {}
    \/ /\ Filling /\ pods'["init"] = pods["init"]
       /\ volume = "empty" /\ volume' = "marked"
    \/ /\ pods["init"] = "copying" /\ pods'["init"] = "succeeded"
       /\ volume = "marked" /\ volume' = "ready"
    \/ /\ pods["init"] = "stopping" /\ pods'["init"] = "finished"
       /\ volume = "marked" /\ volume' = "ready"
    \/ /\ pods["init"] \in Going /\ pods'["init"] \in {"killed", "absent"}
       /\ UNCHANGED volume

\* An IDE pod that nobody makes.
IdeTurns ==
    /\ pods["ide"] = "absent" => pods'["ide"] = "absent"
    /\ pods'["ide"] \in {"pending", "running"} => pods["ide"] \in {"pending", "running"}

\* One pod that moves is one pod.
LEMMA OneMoves ==
    ASSUME ClusterTypeOK, NEW p \in PodNames, NEW from, NEW to, PodMoves(p, from, to)
    PROVE  /\ pods[p] = from /\ pods'[p] = to
           /\ \A q \in PodNames \ {p} : pods'[q] = pods[q]
  BY DEF ClusterTypeOK, PodMoves

\* With a prompt collector kubelet moves them like that.
LEMMA KubeletTurns ==
    ASSUME PromptCollector, ClusterTypeOK, ~Spend("fault"), ~Spend("podloss"),
           CollectorIsPrompt, Kubelet \/ PodTrouble
    PROVE  InitTurns /\ IdeTurns
<1> USE DEF PodNames, Going
<1>1. CASE BuildSucceeds \/ IdeStarts
  <2>1. volume' = volume
    BY <1>1 DEF BuildSucceeds, IdeStarts
  <2>2. CASE \/ PodMoves("build", "pending", "succeeded")
             \/ PodMoves("build", "terminating", "finished")
    BY <2>1, <2>2, OneMoves DEF InitTurns, IdeTurns
  <2>3. CASE PodMoves("ide", "pending", "running")
    BY <2>1, <2>3, OneMoves DEF InitTurns, IdeTurns
  <2> QED
    BY <1>1, <2>2, <2>3 DEF BuildSucceeds, IdeStarts
<1>2. CASE PodStops
  <2>1. volume' = volume
    BY <1>2 DEF PodStops
  <2>2. PICK p \in PodNames, from \in Going, to \in {"killed", "absent"} : PodMoves(p, from, to)
    BY <1>2 DEF PodStops
  <2>3. \A q \in PodNames : \/ pods'[q] = pods[q]
                            \/ pods[q] \in Going /\ pods'[q] \in {"killed", "absent"}
    BY <2>2, OneMoves
  <2> QED
    BY <2>1, <2>3 DEF InitTurns, IdeTurns
<1>3. CASE InitKeepsVolume \/ InitCopies
  <2>1. /\ volume' = volume
        /\ \/ volume \in {"marked", "ready"} /\ PodMoves("init", "pending", "succeeded")
           \/ volume = "empty" /\ PodMoves("init", "pending", "copying")
    BY <1>3 DEF InitKeepsVolume, InitCopies
  <2>2. orphans = {}
    BY <2>1, OneMoves DEF CollectorIsPrompt
  <2> QED
    BY <2>1, <2>2, OneMoves DEF InitTurns, IdeTurns
<1>4. CASE InitMarks
  BY <1>4 DEF InitMarks, InitTurns, IdeTurns, Filling
<1>5. CASE InitChowns
  BY <1>5, OneMoves DEF InitChowns, InitEnds, InitTurns, IdeTurns
<1> QED
  BY <1>1, <1>2, <1>3, <1>4, <1>5 DEF Kubelet, PodTrouble, PodFails, InitCopyBreaks, PodLost

\* Whatever does that, the volume stays in use.
LEMMA VolumeTurns ==
    ASSUME ClusterTypeOK, VolumeInUse, ClaimsNeedNs, UNCHANGED <<ns, pc, devenv, fresh>>,
           Stored' = Stored, seen'.pods = seen.pods, InitTurns, IdeTurns,
           orphans' = orphans \/ OrphansRemain
    PROVE  VolumeInUse'
<1>1. /\ orphans' \subseteq orphans
      /\ "namespace" \in orphans /\ ns # "absent" => "namespace" \in orphans'
      /\ "pvc" \in orphans /\ volume' # "none" => "pvc" \in orphans'
  BY DEF OrphansRemain, There
<1> USE DEF Filling, Going
<1>2. volume' = "none" <=> volume = "none"
  BY DEF InitTurns
<1>3. Doomed => Doomed'
  BY <1>1, <1>2 DEF VolumeInUse, ClaimIsUsed, Doomed
<1>4. /\ BeforeInit' <=> BeforeInit
      /\ Leaving' <=> Leaving
      /\ InitIsOurs' <=> InitIsOurs
      /\ InitSeenDone' <=> InitSeenDone
  BY DEF BeforeInit, Leaving, InitIsOurs, InitSeenDone
<1>5. PodsNeedNs' /\ IdeReady' /\ StaleIsDeleted'
  BY DEF VolumeInUse, PodsNeedNs, IdeReady, StaleIsDeleted, InitTurns, IdeTurns
<1>6. ClaimIsUsed'
  BY <1>1, <1>2 DEF VolumeInUse, ClaimIsUsed, InitTurns
<1>7. InitPodLeft'
  BY <1>3, <1>4 DEF VolumeInUse, InitPodLeft, InitTurns
<1>8. NothingOrphaned'
  BY <1>1, <1>4 DEF VolumeInUse, NothingOrphaned, InitTurns
<1>9. InitStops'
  BY <1>3, <1>4 DEF VolumeInUse, InitStops, InitTurns
<1>10. HalfFilled'
  BY <1>1, <1>3, <1>4 DEF VolumeInUse, HalfFilled, InitTurns, InitStops, PodsNeedNs, ClaimIsUsed
<1>11. InitDone'
  <2>1. InitSeenDone /\ Stored.exists /\ Stored.build = BuildPhaseInitializing
            /\ pods["init"] = "finished" => ns # "active"
    BY DEF VolumeInUse, InitStops, InitIsOurs
  <2> QED
    BY <1>4, <2>1 DEF VolumeInUse, InitDone, HalfFilled, InitTurns
<1>12. RunningReady'
  BY <1>4 DEF VolumeInUse, RunningReady, InitTurns
<1> QED
  BY <1>5, <1>6, <1>7, <1>8, <1>9, <1>10, <1>11, <1>12 DEF VolumeInUse

\* Events show the worker what is there.
LEMMA EventsVolume ==
    ASSUME Inv, VolumeInUse, Stored' = Stored, UNCHANGED <<pc, devenv, fresh>>,
           Events \/ ObjectEvent \/ Delay \/ BuilderChanges
    PROVE  VolumeInUse'
<1>1. UNCHANGED <<ns, volume, orphans, pods>>
  BY DEF Events, ObjectEvent, Delay, BuilderChanges, cluster
<1>2. seen'.pods = seen.pods \/ seen'.pods = pods'
  BY OthersSee DEF Surroundings, Inv, TypeOK
<1>3. /\ BeforeInit' <=> BeforeInit
      /\ Leaving' <=> Leaving
      /\ InitIsOurs' <=> InitIsOurs
      /\ Doomed' <=> Doomed
  BY <1>1 DEF BeforeInit, Leaving, InitIsOurs, Doomed
<1>4. /\ PodsNeedNs' /\ IdeReady' /\ StaleIsDeleted' /\ ClaimIsUsed' /\ InitPodLeft'
      /\ HalfFilled' /\ RunningReady'
  BY <1>1, <1>3 DEF VolumeInUse, PodsNeedNs, IdeReady, StaleIsDeleted, ClaimIsUsed, Filling,
     InitPodLeft,
     HalfFilled, RunningReady
<1>5. NothingOrphaned' /\ InitDone' /\ InitStops'
  BY <1>1, <1>2, <1>3 DEF VolumeInUse, NothingOrphaned, InitStops, InitDone, InitSeenDone,
     InitIsOurs
<1> QED
  BY <1>4, <1>5 DEF VolumeInUse

\* A namespace goes with all that is in it.
LEMMA NamespaceVolume ==
    ASSUME ClusterTypeOK, VolumeInUse, Stored' = Stored, UNCHANGED <<pc, devenv, fresh>>,
           AdminDeletesNamespace \/ NamespaceDrains \/ NamespaceGoes
    PROVE  VolumeInUse'
<1>1. /\ BeforeInit' <=> BeforeInit
      /\ Leaving' <=> Leaving
      /\ InitIsOurs' <=> InitIsOurs
  BY DEF BeforeInit, Leaving, InitIsOurs
<1>2. seen' = seen
  BY DEF AdminDeletesNamespace, NamespaceDrains, NamespaceGoes
<1>3. CASE AdminDeletesNamespace
  <2>1. ns' = "terminating" /\ ns = "active" /\ UNCHANGED <<volume, pods, orphans>>
    BY <1>3 DEF AdminDeletesNamespace
  <2>2. Doomed'
    BY <2>1 DEF Doomed
  <2>3. PodsNeedNs' /\ IdeReady' /\ StaleIsDeleted' /\ ClaimIsUsed'
    BY <2>1 DEF VolumeInUse, PodsNeedNs, IdeReady, StaleIsDeleted, ClaimIsUsed, Filling
  <2>4. NothingOrphaned' /\ InitDone' /\ InitStops' /\ InitPodLeft' /\ HalfFilled' /\ RunningReady'
    BY <1>1, <1>2, <2>1, <2>2 DEF VolumeInUse, NothingOrphaned, InitStops, InitDone,
       InitSeenDone,
       InitPodLeft, HalfFilled, RunningReady
  <2> QED
    BY <2>3, <2>4 DEF VolumeInUse
<1>4. CASE NamespaceDrains
  <2>1. ns' = "terminating" /\ ns = "terminating" /\ volume' = volume
    BY <1>4 DEF NamespaceDrains
  <2>2. /\ \/ pods'["init"] = pods["init"]
           \/ pods["init"] # "absent" /\ pods'["init"] \in {"terminating", "absent"}
           \/ pods["init"] = "copying" /\ pods'["init"] = "stopping"
        /\ \/ pods'["ide"] = pods["ide"]
           \/ pods["ide"] # "absent" /\ pods'["ide"] \in Going \cup {"absent"}
    <3>1. PICK p \in {"init", "ide"} : pods[p] \notin Going \cup {"absent"} /\ DeletePod(p)
      BY <1>4 DEF NamespaceDrains
    <3>2. \/ Deleted(p) \in {"terminating", "absent"}
          \/ pods[p] = "copying" /\ Deleted(p) = "stopping"
      BY <3>1 DEF Deleted, Going
    <3> QED
      BY <3>1, <3>2 DEF DeletePod, ClusterTypeOK, PodNames, Going
  <2>3. /\ orphans' \subseteq orphans
        /\ "namespace" \in orphans' <=> "namespace" \in orphans
        /\ "pvc" \in orphans' <=> "pvc" \in orphans
    BY <1>4, <2>1 DEF NamespaceDrains, OrphansRemain, There, VolumeInUse, ClaimIsUsed, Filling
  <2>4. Doomed'
    BY <2>1 DEF Doomed
  <2>5. PodsNeedNs' /\ IdeReady' /\ StaleIsDeleted' /\ ClaimIsUsed'
    BY <2>1, <2>2, <2>3 DEF VolumeInUse, PodsNeedNs, IdeReady, StaleIsDeleted, ClaimIsUsed,
       Filling,
       Going
  <2>6. NothingOrphaned' /\ InitDone' /\ InitStops' /\ InitPodLeft' /\ HalfFilled' /\ RunningReady'
    BY <1>1, <1>2, <2>1, <2>2, <2>3, <2>4 DEF VolumeInUse, NothingOrphaned, InitStops,
       InitDone, InitSeenDone,
       InitPodLeft, HalfFilled, RunningReady
  <2> QED
    BY <2>5, <2>6 DEF VolumeInUse
<1>5. CASE NamespaceGoes
  <2>1. /\ ns' = "absent" /\ volume' = "none" /\ pods' = pods
        /\ pods["init"] = "absent" /\ pods["ide"] = "absent"
    BY <1>5 DEF NamespaceGoes
  <2>2. orphans' \subseteq orphans /\ "namespace" \notin orphans' /\ "pvc" \notin orphans'
    BY <1>5, <2>1 DEF NamespaceGoes, OrphansRemain, There
  <2>3. PodsNeedNs' /\ IdeReady' /\ StaleIsDeleted' /\ ClaimIsUsed'
    BY <2>1, <2>2 DEF VolumeInUse, PodsNeedNs, IdeReady, StaleIsDeleted, ClaimIsUsed, Filling
  <2>4. NothingOrphaned' /\ InitDone' /\ InitStops' /\ InitPodLeft' /\ HalfFilled' /\ RunningReady'
    BY <1>1, <1>2, <2>1, <2>2 DEF VolumeInUse, NothingOrphaned, InitStops, InitDone,
       InitSeenDone,
       InitPodLeft, HalfFilled, RunningReady
  <2> QED
    BY <2>3, <2>4 DEF VolumeInUse
<1> QED
  BY <1>3, <1>4, <1>5

\* The collector takes a claim when no pod uses it, and a namespace with all that
\* is in it.
LEMMA CollectorVolume ==
    ASSUME ClusterTypeOK, VolumeInUse, Stored' = Stored, UNCHANGED <<pc, devenv, fresh>>, Collector
    PROVE  VolumeInUse'
<1>1. /\ BeforeInit' <=> BeforeInit
      /\ Leaving' <=> Leaving
      /\ InitIsOurs' <=> InitIsOurs
  BY DEF BeforeInit, Leaving, InitIsOurs
<1>2. seen' = seen /\ orphans' \subseteq orphans /\ orphans # {}
  BY DEF Collector, CollectNamespace, CollectClaim, CollectIde
<1>3. CASE CollectNamespace
  <2>1. /\ ns' = "terminating" /\ UNCHANGED <<volume, pods>> /\ "namespace" \in orphans
        /\ "namespace" \notin orphans'
        /\ "pvc" \in orphans' <=> "pvc" \in orphans
    BY <1>3 DEF CollectNamespace
  <2>2. Doomed' /\ ns # "absent"
    BY <2>1 DEF Doomed, VolumeInUse, ClaimIsUsed, Filling
  <2>3. PodsNeedNs' /\ IdeReady' /\ StaleIsDeleted' /\ ClaimIsUsed'
    BY <2>1, <2>2 DEF VolumeInUse, PodsNeedNs, IdeReady, StaleIsDeleted, ClaimIsUsed, Filling
  <2>4. NothingOrphaned' /\ InitDone' /\ InitStops' /\ InitPodLeft' /\ HalfFilled' /\ RunningReady'
    BY <1>1, <1>2, <2>1, <2>2 DEF VolumeInUse, NothingOrphaned, InitStops, InitDone,
       InitSeenDone,
       InitPodLeft, HalfFilled, RunningReady
  <2> QED
    BY <2>3, <2>4 DEF VolumeInUse
<1>4. CASE CollectClaim
  <2>1. /\ volume' = "none" /\ UNCHANGED <<ns, pods>>
        /\ pods["init"] = "absent" /\ pods["ide"] = "absent"
        /\ "pvc" \notin orphans'
        /\ "namespace" \in orphans' <=> "namespace" \in orphans
    BY <1>4 DEF CollectClaim
  <2>2. PodsNeedNs' /\ IdeReady' /\ StaleIsDeleted' /\ ClaimIsUsed'
    BY <2>1 DEF VolumeInUse, PodsNeedNs, IdeReady, StaleIsDeleted, ClaimIsUsed, Filling
  <2>3. NothingOrphaned' /\ InitDone' /\ InitStops' /\ InitPodLeft' /\ HalfFilled'
    BY <1>1, <1>2, <2>1 DEF VolumeInUse, NothingOrphaned, InitStops, InitDone, InitSeenDone,
       InitPodLeft,
       HalfFilled
  <2>4. RunningReady'
    BY <1>1, <1>2, <2>1 DEF VolumeInUse, NothingOrphaned, RunningReady
  <2> QED
    BY <2>2, <2>3, <2>4 DEF VolumeInUse
<1>5. CASE CollectIde
  <2>1. /\ UNCHANGED <<ns, volume>> /\ pods'["init"] = pods["init"]
        /\ pods'["ide"] \in {"absent", "terminating", "stopping"}
        /\ pods["ide"] = "absent" => pods'["ide"] = "absent"
        /\ "namespace" \in orphans' <=> "namespace" \in orphans
        /\ "pvc" \in orphans' <=> "pvc" \in orphans
    BY <1>5 DEF CollectIde, DeletePod, Deleted, ClusterTypeOK, PodNames
  <2>2. Doomed' <=> Doomed
    BY <2>1 DEF Doomed
  <2>3. PodsNeedNs' /\ IdeReady' /\ StaleIsDeleted' /\ ClaimIsUsed'
    BY <2>1 DEF VolumeInUse, PodsNeedNs, IdeReady, StaleIsDeleted, ClaimIsUsed, Filling
  <2>4. NothingOrphaned' /\ InitDone' /\ InitStops' /\ InitPodLeft' /\ HalfFilled' /\ RunningReady'
    BY <1>1, <1>2, <2>1, <2>2 DEF VolumeInUse, NothingOrphaned, InitStops, InitDone,
       InitSeenDone,
       InitPodLeft, HalfFilled, RunningReady
  <2> QED
    BY <2>3, <2>4 DEF VolumeInUse
<1> QED
  BY <1>3, <1>4, <1>5 DEF Collector

\* All of these together.
LEMMA ElsewhereVolume ==
    ASSUME DeleteVolumes, PromptCollector, OperatorInv, Protected, VolumeInUse, Calm, Calm',
           Kept, Kept', Elsewhere
    PROVE  VolumeInUse'
<1> USE DEF OperatorInv, Inv, TypeOK, ControllerTypeOK
<1>1. Surroundings /\ ~Spend("fault") /\ NoEdit /\ NoEdit'
  BY CalmSteps DEF Elsewhere, Crash
<1>2. ~Spend("podloss")
  BY NotSpent DEF Kept, Disturbances
<1>3. CASE User
  BY <1>1, <1>3, UserVolume
<1>4. CASE ~User
  <2>1. Stored' = Stored /\ UNCHANGED <<devenv, pc, fresh>>
    BY <1>1, <1>4, OthersKeepStored
  <2>2. CASE Kubelet \/ PodTrouble
    <3>1. UNCHANGED <<ns, seen>> /\ (orphans' = orphans \/ OrphansRemain)
      BY <2>2 DEF Kubelet, PodTrouble
    <3>2. InitTurns /\ IdeTurns
      BY <1>1, <1>2, <2>2, KubeletTurns DEF Elsewhere
    <3> QED
      BY <2>1, <3>1, <3>2, VolumeTurns DEF ProvisioningInv
  <2> QED
    BY <1>1, <1>4, <2>1, <2>2, EventsVolume, NamespaceVolume, CollectorVolume DEF Surroundings
<1> QED
  BY <1>3, <1>4

\* What is created for a DevEnv that is held is not orphaned.
LEMMA CreatedForHeld ==
    ASSUME Protected, pc \in AfterUser, NEW o, CreatedFor(o)
    PROVE  orphans' = orphans
  BY DEF Protected, Guarded, Holds, CreatedFor

\* The steps that make neither namespace, claim nor init pod, and no IDE.
LEMMA QuietVolume ==
    ASSUME OperatorInv, Tracked, Protected, VolumeInUse, StaleIsDeleted', Calm, Calm',
           Provisions, kc' = kc, UNCHANGED <<ns, volume>>,
           \/ (Namespace \/ Ensure \/ Ide) /\ UNCHANGED pods
           \/ BuildPassed \/ InitPassed \/ BuildPanics
           \/ BuildInitial \/ ReplaceBuildPod \/ DropBuildPod
           \/ InitWaiting /\ UNCHANGED pods /\ pc' # "statusInitializing"
    PROVE  VolumeInUse'
<1> USE DEF OperatorInv, Inv, TypeOK, ClusterTypeOK
<1>1. CASE ~BuildPanics
  <2>1. UNCHANGED <<crLog, seen>>
    BY <1>1 DEF Namespace, Ensure, Ide, BuildPassed, InitPassed, BuildInitial, ReplaceBuildPod,
       DropBuildPod, InitWaiting, CreatesPod, DropsPod, cluster
  <2>2. pods' = pods \/ CreatePod("build") \/ DeletePod("build")
    BY <1>1 DEF Namespace, Ensure, Ide, BuildPassed, InitPassed, BuildInitial, ReplaceBuildPod,
       DropBuildPod, InitWaiting, CreatesPod, DropsPod, cluster
  <2>3. pods'["init"] = pods["init"] /\ pods'["ide"] = pods["ide"]
    BY <2>2 DEF CreatePod, DeletePod, PodNames
  <2>4. orphans' = orphans
    <3>1. pc \in AfterUser
      BY ProvisionsShape
    <3>2. \/ orphans' = orphans \/ CreatedFor("namespace") \/ CreatedFor("pvc")
          \/ CreatedFor("ide")
      BY <1>1 DEF Namespace, CreateNamespace, MakesNamespace, Ensure, MakesClaim, Ide, CreateIde,
         BuildPassed, InitPassed, BuildInitial, ReplaceBuildPod, DropBuildPod, InitWaiting,
         CreatesPod, DropsPod, cluster
    <3> QED
      BY <3>1, <3>2, CreatedForHeld
  <2>5. /\ pc \in {"namespace", "ensure", "ide", "build", "init", "replaceBuildPod", "dropBuildPod"}
        /\ pc' # "resetStatus" /\ pc' # "statusInitializing"
    <3>1. pc \in {"namespace", "ensure", "ide", "build", "init", "replaceBuildPod", "dropBuildPod"}
      BY <1>1 DEF Namespace, Ensure, Ide, BuildPassed, InitPassed, BuildInitial, ReplaceBuildPod,
         DropBuildPod, InitWaiting
    <3>2. CASE Namespace
      BY <3>2 DEF Namespace, CreateNamespace, MakesNamespace, Goto, ReturnRequeue, ReturnAfter
    <3>3. CASE Ensure \/ Ide \/ BuildPassed \/ InitPassed
      BY <3>3 DEF Ensure, Ide, CreateIde, Proxy, BuildPassed, InitPassed, Goto, ReturnRequeue,
         ReturnAfter, ReturnDone
    <3>4. CASE BuildInitial \/ ReplaceBuildPod \/ DropBuildPod
      BY <3>4 DEF BuildInitial, ReplaceBuildPod, DropBuildPod, CreatesPod, DropsPod, Goto,
         ReturnRequeue, ReturnAfter
    <3>5. CASE InitWaiting /\ pc' # "statusInitializing"
      BY <3>5 DEF InitWaiting, CreatesPod, Goto, ReturnRequeue
    <3> QED
      BY <1>1, <3>1, <3>2, <3>3, <3>4, <3>5
  <2>6. Stored' = Stored
    BY <2>1 DEF Stored
  <2> QED
    BY <2>1, <2>3, <2>4, <2>5, <2>6, VolumeKept DEF TakingDown
<1>2. CASE BuildPanics
  <2>1. /\ UNCHANGED <<orphans, pods>> /\ pc = "build" /\ pc' = "idle" /\ Stored' = Stored
    BY <1>2, StoredAfter DEF BuildPanics, Relisted, Restarted, ControllerTypeOK
  <2>2. PodsNeedNs' /\ ClaimIsUsed' /\ IdeReady' /\ InitPodLeft'
    BY <2>1 DEF VolumeInUse, PodsNeedNs, ClaimIsUsed, Filling, IdeReady, InitPodLeft,
       BeforeInit, Doomed
  <2>3. NothingOrphaned' /\ InitDone'
    BY <2>1 DEF VolumeInUse, NothingOrphaned, InitDone, InitSeenDone, InitIsOurs
  <2>4. HalfFilled' /\ RunningReady' /\ InitStops'
    BY <2>1 DEF VolumeInUse, HalfFilled, RunningReady, InitStops, InitIsOurs, Doomed, Leaving,
       TakingDown
  <2> QED
    BY <2>2, <2>3, <2>4 DEF VolumeInUse
<1> QED
  BY <1>1, <1>2

\* A new namespace, in which nothing is left, and a new claim.
LEMMA MakesVolume ==
    ASSUME OperatorInv, Tracked, Protected, VolumeInUse, StaleIsDeleted', Calm, Calm',
           Provisions, (Namespace /\ ns' # ns) \/ (Ensure /\ volume' # volume)
    PROVE  VolumeInUse'
<1> USE DEF OperatorInv, Inv, TypeOK
<1>1. /\ UNCHANGED <<crLog, pods, seen>> /\ pc \in {"namespace", "ensure"}
      /\ pc \in AfterUser /\ ~Spend("fault")
  BY CalmSteps DEF Namespace, Ensure, AfterUser
<1>2. Stored' = Stored
  BY <1>1 DEF Stored
<1>3. (BeforeInit' <=> BeforeInit) /\ ~Leaving
  BY <1>1, <1>2 DEF BeforeInit, Leaving, TakingDown
<1>4. CASE Namespace /\ ns' # ns
  <2>1. MakesNamespace /\ volume' = volume /\ pc' = "resetStatus"
    BY <1>1, <1>4 DEF Namespace, CreateNamespace, Goto
  <2>2. /\ ns = "absent" /\ ns' = "active" /\ orphans' = orphans
        /\ volume = "none" /\ pods["init"] = "absent" /\ pods["ide"] = "absent"
        /\ "namespace" \notin orphans
    BY <1>1, <2>1, CreatedForHeld DEF MakesNamespace, VolumeInUse, PodsNeedNs, ProvisioningInv,
       ClaimsNeedNs, ClaimIsUsed, Filling
  <2>3. PodsNeedNs' /\ ClaimIsUsed' /\ IdeReady' /\ InitPodLeft'
    BY <1>1, <2>1, <2>2 DEF VolumeInUse, PodsNeedNs, ClaimIsUsed, Filling, IdeReady, InitPodLeft
  <2>4. NothingOrphaned' /\ InitDone' /\ InitStops' /\ HalfFilled' /\ RunningReady'
    BY <1>1, <1>2, <2>1, <2>2 DEF VolumeInUse, NothingOrphaned, InitStops, InitDone,
       InitSeenDone, HalfFilled,
       RunningReady
  <2> QED
    BY <2>3, <2>4 DEF VolumeInUse
<1>5. CASE Ensure /\ volume' # volume
  <2>1. MakesClaim /\ ns' = ns /\ pc' = "build" /\ pc = "ensure"
    BY <1>1, <1>5 DEF Ensure, Goto
  <2>2. /\ volume = "none" /\ volume' = "empty" /\ orphans' = orphans
    BY <1>1, <2>1, CreatedForHeld DEF MakesClaim
  <2>3. PodsNeedNs' /\ ClaimIsUsed' /\ IdeReady' /\ InitPodLeft'
    BY <1>1, <1>2, <1>3, <2>1, <2>2 DEF VolumeInUse, PodsNeedNs, ClaimIsUsed, Filling,
       IdeReady, InitPodLeft,
       Doomed
  <2>4. NothingOrphaned' /\ InitDone' /\ InitStops' /\ HalfFilled' /\ RunningReady'
    BY <1>1, <1>2, <1>3, <2>1, <2>2 DEF VolumeInUse, NothingOrphaned, InitStops, InitDone,
       InitSeenDone, InitIsOurs, HalfFilled, RunningReady, Doomed
  <2> QED
    BY <2>3, <2>4 DEF VolumeInUse
<1> QED
  BY <1>4, <1>5

\* The phases differ.
LEMMA PhasesDiffer ==
    /\ BuildPhaseInitializing \notin {BuildPhaseInitial, BuildPhaseBuilding,
                                       BuildPhaseWaitForInitializion}
    /\ BuildPhaseRunning \notin {BuildPhaseInitial, BuildPhaseBuilding,
                                  BuildPhaseWaitForInitializion, BuildPhaseInitializing}
  BY DEF BuildPhaseInitial, BuildPhaseBuilding, BuildPhaseWaitForInitializion,
     BuildPhaseInitializing, BuildPhaseRunning

\* A new init pod does not find a half filled volume, unless that is about to go.
LEMMA InitVolume ==
    ASSUME OperatorInv, Tracked, Protected, VolumeInUse, StaleIsDeleted', Calm, Calm',
           InitWaiting, kc' = kc, pods' # pods \/ pc' = "statusInitializing"
    PROVE  VolumeInUse'
<1> USE DEF OperatorInv, Inv, TypeOK
<1>1. /\ UNCHANGED <<crLog, seen, ns, volume, orphans>>
      /\ pc = "init" /\ pc' = "statusInitializing"
      /\ pods["init"] = "absent" /\ ns = "active"
      /\ CreatePod("init")
  BY CalmSteps DEF InitWaiting, CreatesPod, CanCreate, Goto, ReturnRequeue
<1>2. pods'["init"] = "pending" /\ pods'["ide"] = pods["ide"]
  BY <1>1 DEF CreatePod, ClusterTypeOK, PodNames
<1>3. Stored' = Stored
  BY <1>1 DEF Stored
<1>4. ~Leaving
  BY <1>1 DEF Leaving, TakingDown
<1>5. PodsNeedNs' /\ ClaimIsUsed' /\ IdeReady' /\ InitPodLeft'
  BY <1>1, <1>2 DEF VolumeInUse, PodsNeedNs, ClaimIsUsed, Filling, IdeReady, InitPodLeft
<1>6. NothingOrphaned' /\ InitDone' /\ InitStops'
  BY <1>1, <1>2, <1>3 DEF VolumeInUse, NothingOrphaned, InitStops, InitDone, InitSeenDone
<1>7. RunningReady'
  <2>1. Stored.exists /\ Stored.build = BuildPhaseWaitForInitializion
    BY <1>1, ProvisionsStores DEF InitWaiting, Provisions
  <2> QED
    BY <1>3, <2>1, PhasesDiffer DEF RunningReady
<1>8. HalfFilled'
  BY <1>1, <1>2, <1>3, <1>4 DEF VolumeInUse, HalfFilled, ClaimIsUsed, Filling, Doomed
<1> QED
  BY <1>5, <1>6, <1>7, <1>8 DEF VolumeInUse

\* An init pod that is deleted has finished, or is not that of the DevEnv.
LEMMA DropsVolume ==
    ASSUME OperatorInv, Tracked, Protected, PodsInUse, VolumeInUse, StaleIsDeleted', Calm, Calm',
           Provisions, kc' = kc, ReplaceInitPod \/ DropInitPod
    PROVE  VolumeInUse'
<1> USE DEF OperatorInv, Inv, TypeOK
<1>1. /\ UNCHANGED <<crLog, seen, ns, volume, orphans>>
      /\ pc \in {"replaceInitPod", "dropInitPod"} /\ pc' = "idle"
      /\ DeletePod("init") \/ (pods' = pods /\ pods["init"] = "absent")
  BY CalmSteps DEF ReplaceInitPod, DropInitPod, DropsPod, ReturnAfter, ReturnRequeue
<1>2. /\ \/ pods'["init"] \in {"absent", "terminating"}
         \/ pods["init"] \in {"copying", "stopping"} /\ pods'["init"] = "stopping"
      /\ pods'["ide"] = pods["ide"]
      /\ pods["init"] = "absent" => pods'["init"] = "absent"
  <2>1. /\ \/ Deleted("init") \in {"absent", "terminating"}
           \/ pods["init"] \in {"copying", "stopping"} /\ Deleted("init") = "stopping"
        /\ pods["init"] = "absent" => Deleted("init") = "absent"
    BY DEF Deleted
  <2> QED
    BY <1>1, <2>1 DEF DeletePod, ClusterTypeOK, PodNames
<1>3. Stored' = Stored
  BY <1>1 DEF Stored
<1>4. ~Leaving
  BY <1>1 DEF Leaving, TakingDown
<1>5. /\ pods["init"] \in {"copying", "failed"} => Doomed \/ (Stored.exists /\ Stored.deleting)
      /\ pods["init"] \in {"copying", "stopping"} => ~InitIsOurs
  <2>1. CASE pc = "dropInitPod"
    BY <2>1 DEF PodsInUse, DropsFinished, Finished
  <2>2. CASE pc = "replaceInitPod"
    <3>1. Stored.build = BuildPhaseWaitForInitializion
      BY <2>2, ProvisionsStores DEF Tracked, Reached
    <3>2. BeforeInit
      BY <3>1 DEF BeforeInit
    <3> QED
      BY <2>2, <3>1, <3>2, PhasesDiffer DEF VolumeInUse, InitPodLeft, InitIsOurs
  <2> QED
    BY <1>1, <2>1, <2>2
<1>6. PodsNeedNs' /\ ClaimIsUsed' /\ IdeReady' /\ InitPodLeft'
  BY <1>1, <1>2 DEF VolumeInUse, PodsNeedNs, ClaimIsUsed, Filling, IdeReady, InitPodLeft
<1>7. NothingOrphaned' /\ InitDone'
  BY <1>1, <1>2, <1>3, <1>5 DEF VolumeInUse, NothingOrphaned, InitDone, InitSeenDone, InitIsOurs
<1>8. HalfFilled' /\ RunningReady' /\ InitStops'
  BY <1>1, <1>2, <1>3, <1>4, <1>5 DEF VolumeInUse, HalfFilled, RunningReady, InitStops,
     InitIsOurs,
     Doomed, Leaving
<1> QED
  BY <1>6, <1>7, <1>8 DEF VolumeInUse

\* An IDE is made on a volume that is ready.
LEMMA IdeVolume ==
    ASSUME OperatorInv, Tracked, Protected, VolumeInUse, StaleIsDeleted', Provisions, kc' = kc,
           Ide, pods' # pods
    PROVE  VolumeInUse'
<1> USE DEF OperatorInv, Inv, TypeOK
<1>1. /\ UNCHANGED <<crLog, seen, ns, volume>>
      /\ pc = "ide" /\ pc' = "idle" /\ ns = "active"
      /\ CreatePod("ide") /\ CreatedFor("ide")
  BY DEF Ide, CreateIde, CanCreate, ReturnRequeue
<1>2. orphans' = orphans
  BY <1>1, CreatedForHeld DEF AfterUser
<1>3. pods'["init"] = pods["init"]
  BY <1>1 DEF CreatePod, PodNames
<1>4. Stored' = Stored
  BY <1>1 DEF Stored
<1>5. ~Leaving
  BY <1>1 DEF Leaving, TakingDown
<1>6. volume = "ready"
  <2>1. Stored.exists /\ Stored.build = BuildPhaseRunning
    BY <1>1, ProvisionsStores DEF Tracked, Reached
  <2> QED
    BY <1>1, <1>5, <2>1 DEF VolumeInUse, RunningReady
<1>7. PodsNeedNs' /\ ClaimIsUsed' /\ IdeReady' /\ InitPodLeft'
  BY <1>1, <1>2, <1>3, <1>4, <1>6 DEF VolumeInUse, PodsNeedNs, ClaimIsUsed, Filling,
     IdeReady, InitPodLeft,
     BeforeInit, Doomed
<1>8. NothingOrphaned' /\ InitDone' /\ InitStops'
  BY <1>1, <1>2, <1>3, <1>4, <1>5 DEF VolumeInUse, NothingOrphaned, InitStops, InitDone,
     InitSeenDone, InitIsOurs, Doomed
<1>9. HalfFilled' /\ RunningReady'
  BY <1>1, <1>3, <1>4, <1>6 DEF VolumeInUse, HalfFilled, RunningReady
<1> QED
  BY <1>7, <1>8, <1>9 DEF VolumeInUse

\* A phase is written, or rejected as that of a stale copy, and the pods stay.
LEMMA PhaseVolume ==
    ASSUME OperatorInv, VolumeInUse, StaleIsDeleted', UNCHANGED <<ns, volume, pods, seen, orphans>>,
           Stored.exists, Stored'.exists, Stored'.deleting = Stored.deleting,
           pc \in AfterUser, pc' \in {"idle", "dropBuildPod"},
           pc \in {"resetStatus", "statusInitializing"}
               => pc' = "idle" /\ (Stored' # Stored \/ Stored.deleting),
           \/ Stored' = Stored
           \/ BeforeInit' /\ (BeforeInit \/ pods["init"] = "absent") /\ pc # "statusInitializing"
           \/ Stored'.build = BuildPhaseInitializing /\ pc = "statusInitializing"
    PROVE  VolumeInUse'
<1> USE DEF OperatorInv, Inv, TypeOK
<1>1. ~Leaving
  BY DEF Leaving, TakingDown, AfterUser
<1>2. PodsNeedNs' /\ ClaimIsUsed' /\ IdeReady'
  BY DEF VolumeInUse, PodsNeedNs, ClaimIsUsed, Filling, IdeReady
<1>3. InitPodLeft'
  BY PhasesDiffer DEF VolumeInUse, InitPodLeft, BeforeInit, Doomed
<1>4. NothingOrphaned' /\ InitDone' /\ InitStops'
  <2>1. InitSeenDone' => InitSeenDone
    BY DEF InitSeenDone, AfterUser
  <2>2. InitIsOurs' /\ pods["init"] # "absent" => InitIsOurs
    BY PhasesDiffer DEF InitIsOurs, BeforeInit
  <2>3. InitStops'
    BY <1>1, <2>2 DEF VolumeInUse, InitStops, Doomed
  <2>4. NothingOrphaned' /\ InitDone'
    BY <2>1, <2>2, PhasesDiffer DEF VolumeInUse, NothingOrphaned, InitDone, BeforeInit,
       InitSeenDone
  <2> QED
    BY <2>3, <2>4
<1>5. HalfFilled'
  BY <1>1 DEF VolumeInUse, HalfFilled, Doomed
<1>6. RunningReady'
  BY <1>1, PhasesDiffer DEF VolumeInUse, RunningReady, BeforeInit, Leaving
<1> QED
  BY <1>2, <1>3, <1>4, <1>5, <1>6 DEF VolumeInUse

\* The phases that are written next to a pod that is made or not needed.
LEMMA PhasesVolume ==
    ASSUME OperatorInv, Tracked, Protected, VolumeInUse, StaleIsDeleted', Calm, Calm',
           Provisions, kc' = kc,
           ResetStatus \/ StatusBuilding \/ StatusInitializing \/ BuildWithoutBuilder
    PROVE  VolumeInUse'
<1> USE DEF OperatorInv, Inv, TypeOK, ClusterTypeOK
<1>1. /\ UNCHANGED <<ns, volume, pods, seen, orphans>> /\ pc' = "idle"
      /\ pc \in {"resetStatus", "statusBuilding", "statusInitializing", "build"}
      /\ pc \in Creating /\ pc \in AfterUser
  BY DEF ResetStatus, StatusBuilding, StatusInitializing, BuildWithoutBuilder, WritesPhase,
     ReturnRequeue, ReturnAfter, cluster, Creating, Labels, AfterUser
<1>2. Stored.exists /\ Stored'.exists /\ Stored'.deleting = Stored.deleting
  <2>1. Stored \in DevEnvObject
    BY LogOfObjects DEF ControllerTypeOK
  <2> QED
    BY <2>1, ProvisionsStores DEF DevEnvObject
<1>3. \A phase : Rejected(WithBuild(phase)) => Stored' = Stored /\ Stored.deleting
  <2>1. SUFFICES ASSUME NEW phase, Rejected(WithBuild(phase))
                 PROVE  Stored' = Stored /\ Stored.deleting
    OBVIOUS
  <2>2. ~fresh /\ UNCHANGED crLog
    BY <2>1, CalmSteps
  <2>3. pc \in Guarded
    BY <1>1 DEF Guarded
  <2> QED
    BY <2>2, <2>3 DEF Stored, VolumeInUse, StaleIsDeleted
<1>4. CASE ResetStatus
  <2>1. pc = "resetStatus" /\ pods["init"] = "absent"
    BY <1>4 DEF ResetStatus, VolumeInUse, PodsNeedNs
  <2>2. Stored'.build = BuildPhaseInitial \/ (Stored' = Stored /\ Stored.deleting)
    BY <1>1, <1>3, <1>4, PhaseWriteStores, PhaseTypes DEF ResetStatus, WritesPhase,
       SetDevEnvStatus,
       SetDevEnvStatusFails
  <2>3. CASE Stored' = Stored /\ Stored.deleting
    BY <1>1, <1>2, <2>1, <2>3, PhaseVolume
  <2>4. CASE Stored' # Stored /\ Stored'.build = BuildPhaseInitial
    <3>1. BeforeInit'
      BY <2>4 DEF BeforeInit
    <3> QED
      BY <1>1, <1>2, <2>1, <2>4, <3>1, PhaseVolume
  <2>5. CASE Stored' = Stored /\ Stored'.build = BuildPhaseInitial
    <3>1. PodsNeedNs' /\ ClaimIsUsed' /\ IdeReady' /\ InitPodLeft'
      BY <1>1, <2>1 DEF VolumeInUse, PodsNeedNs, ClaimIsUsed, Filling, IdeReady, InitPodLeft
    <3>2. NothingOrphaned' /\ InitDone' /\ InitStops' /\ RunningReady'
      BY <1>1, <2>1, <2>5, PhasesDiffer DEF NothingOrphaned, InitStops, InitDone,
         InitIsOurs, InitSeenDone,
         RunningReady
    <3>3. HalfFilled'
      BY <1>1, <2>1 DEF ProvisioningInv, ResetWithoutClaim, HalfFilled
    <3> QED
      BY <3>1, <3>2, <3>3 DEF VolumeInUse
  <2> QED
    BY <2>2, <2>3, <2>4, <2>5
<1>5. CASE StatusInitializing
  <2>1. /\ pc = "statusInitializing"
        /\ Stored.build = BuildPhaseWaitForInitializion
    BY <1>5, ProvisionsStores DEF StatusInitializing, ProvisioningInv, PhaseAtWrite
  <2>2. Stored'.build = BuildPhaseInitializing \/ (Stored' = Stored /\ Stored.deleting)
    BY <1>1, <1>3, <1>5, PhaseWriteStores, PhaseTypes DEF StatusInitializing, WritesPhase,
       SetDevEnvStatus, SetDevEnvStatusFails
  <2>3. Stored'.build = BuildPhaseInitializing => Stored' # Stored
    BY <2>1, PhasesDiffer
  <2> QED
    BY <1>1, <1>2, <2>1, <2>2, <2>3, PhaseVolume
<1>6. CASE StatusBuilding \/ BuildWithoutBuilder
  <2>1. pc \in {"statusBuilding", "build"} /\ Stored.build = BuildPhaseInitial
    BY <1>6, ProvisionsStores DEF StatusBuilding, BuildWithoutBuilder, ProvisioningInv,
       PhaseAtWrite
  <2>2. \/ Stored' = Stored
        \/ Stored'.build \in {BuildPhaseBuilding, BuildPhaseWaitForInitializion}
    BY <1>1, <1>3, <1>6, PhaseWriteStores, PhaseTypes DEF StatusBuilding, BuildWithoutBuilder,
       WritesPhase, SetDevEnvStatus, SetDevEnvStatusFails
  <2>3. BeforeInit /\ (Stored' # Stored => BeforeInit')
    BY <2>1, <2>2 DEF BeforeInit
  <2> QED
    BY <1>1, <1>2, <2>1, <2>3, PhaseVolume
<1> QED
  BY <1>4, <1>5, <1>6

\* A pod that is watched leads on when it is done, with nothing left to collect.
LEMMA WatchesVolume ==
    ASSUME OperatorInv, Tracked, Protected, PodsInUse, VolumeInUse, StaleIsDeleted', Calm, Calm',
           Provisions, kc' = kc, BuildBuilding \/ InitInitializing
    PROVE  VolumeInUse'
<1> USE DEF OperatorInv, Inv, TypeOK, ClusterTypeOK
<1>1. /\ UNCHANGED <<ns, volume, pods, seen, orphans>> /\ pc \in {"build", "init"}
      /\ pc' \in {"idle", "dropBuildPod", "dropInitPod"}
      /\ pc \in Creating /\ pc \in AfterUser
      /\ pc' = "dropBuildPod" => pc = "build"
  BY DEF BuildBuilding, InitInitializing, Watches, WritesPhase, ReturnRequeue, ReturnAfter,
     ReturnDone, Goto, cluster, Creating, Labels, AfterUser
<1>2. Stored.exists /\ Stored'.exists /\ Stored'.deleting = Stored.deleting
  <2>1. Stored \in DevEnvObject
    BY LogOfObjects DEF ControllerTypeOK
  <2> QED
    BY <2>1, ProvisionsStores DEF DevEnvObject
<1>3. CASE BuildBuilding
  <2>1. pc = "build" /\ Stored.build = BuildPhaseBuilding
    BY <1>3, ProvisionsStores DEF BuildBuilding
  <2>2. \/ Stored' = Stored
        \/ Stored'.build \in {BuildPhaseInitial, BuildPhaseWaitForInitializion}
    <3>1. CASE crLog' = crLog
      BY <3>1 DEF Stored
    <3>2. CASE crLog' # crLog
      <4>1. \E phase \in {BuildPhaseInitial, BuildPhaseWaitForInitializion} :
                Accepted(WithBuild(phase)) \/ Rejected(WithBuild(phase))
        BY <1>3, <3>2 DEF BuildBuilding, Watches, WritesPhase, SetDevEnvStatus,
           SetDevEnvStatusFails
      <4> QED
        BY <1>1, <4>1, PhaseWriteStores, PhaseTypes
    <3> QED
      BY <3>1, <3>2
  <2>3. BeforeInit /\ (Stored' # Stored => BeforeInit') /\ pc' \in {"idle", "dropBuildPod"}
    <3>1. pc' \in {"idle", "dropBuildPod"}
      BY <1>3 DEF BuildBuilding, Watches, WritesPhase, ReturnRequeue, ReturnAfter,
         ReturnDone, Goto
    <3> QED
      BY <2>1, <2>2, <3>1 DEF BeforeInit
  <2> QED
    BY <1>1, <1>2, <2>1, <2>3, PhaseVolume
<1>4. CASE InitInitializing
  <2>1. pc = "init" /\ Stored.build = BuildPhaseInitializing
    BY <1>4, ProvisionsStores DEF InitInitializing
  <2>2. CASE seen.pods["init"] = "absent" /\ WritesPhase(BuildPhaseWaitForInitializion)
    <3>1. pods["init"] = "absent" /\ pc' = "idle"
      BY <2>1, <2>2 DEF PodsInUse, SeenSince, SeenTells, WritesPhase, ReturnRequeue, ReturnAfter
    <3>2. Stored' = Stored \/ Stored'.build = BuildPhaseWaitForInitializion
      BY <1>1, <2>2, PhaseWriteStores, PhaseTypes DEF WritesPhase, SetDevEnvStatus,
         SetDevEnvStatusFails
    <3>3. Stored' = Stored \/ BeforeInit'
      BY <3>2 DEF BeforeInit
    <3> QED
      BY <1>1, <1>2, <2>1, <3>1, <3>3, PhaseVolume
  <2>3. CASE pc' = "idle" /\ Stored' = Stored
    BY <1>1, <1>2, <2>1, <2>3, PhaseVolume
  <2>4. CASE /\ seen.pods["init"] \in {"succeeded", "finished"} /\ pc' = "dropInitPod"
             /\ Accepted(WithBuild(BuildPhaseRunning))
    <3>1. Stored'.build = BuildPhaseRunning
      BY <1>1, <2>4, PhaseWriteStores, PhaseTypes
    <3>2. InitSeenDone /\ orphans = {} /\ ~Leaving
      BY <1>2, <2>1, <2>4 DEF InitSeenDone, VolumeInUse, NothingOrphaned, Leaving, TakingDown
    <3>3. PodsNeedNs' /\ ClaimIsUsed' /\ IdeReady'
      BY <1>1, <2>4 DEF VolumeInUse, PodsNeedNs, ClaimIsUsed, Filling, IdeReady
    <3>4. InitPodLeft' /\ ~InitIsOurs'
      BY <1>2, <2>4, <3>1, PhasesDiffer DEF InitPodLeft, BeforeInit, InitIsOurs
    <3>5. NothingOrphaned' /\ InitStops'
      BY <1>1, <3>1, <3>2, <3>4, PhasesDiffer DEF VolumeInUse, NothingOrphaned, InitStops, Doomed
    <3>6. Finished("init")
      BY <2>1, <2>4 DEF PodsInUse, SeenSince, SeenTells
    <3>7. InitDone' /\ RunningReady'
      BY <1>1, <1>2, <2>1, <3>2, <3>6 DEF VolumeInUse, InitDone, RunningReady, InitSeenDone,
         Finished
    <3>8. HalfFilled'
      BY <1>1, <3>2 DEF VolumeInUse, HalfFilled, Doomed
    <3> QED
      BY <3>3, <3>4, <3>5, <3>7, <3>8 DEF VolumeInUse
  <2>5. \/ seen.pods["init"] = "absent" /\ WritesPhase(BuildPhaseWaitForInitializion)
        \/ /\ seen.pods["init"] \in {"succeeded", "finished"}
           /\ SetDevEnvStatus(BuildPhaseRunning) /\ pc' = "dropInitPod"
        \/ pc' = "idle" /\ crLog' = crLog
    BY <1>4, CalmSteps DEF InitInitializing, Watches, SetDevEnvStatusFails, Goto, ReturnRequeue,
       ReturnDone, ReturnAfter
  <2> QED
    BY <2>2, <2>3, <2>4, <2>5 DEF SetDevEnvStatus, Stored
<1> QED
  BY <1>3, <1>4

\* What the worker does after identity.
LEMMA ProvisionsVolume ==
    ASSUME OperatorInv, Tracked, Protected, PodsInUse, VolumeInUse, StaleIsDeleted', Calm, Calm',
           kc' = kc, Provisions
    PROVE  VolumeInUse'
<1>1. CASE Namespace
  <2>1. UNCHANGED <<volume, pods>>
    BY <1>1 DEF Namespace
  <2> QED
    BY <1>1, <2>1, QuietVolume, MakesVolume
<1>2. CASE Ensure
  <2>1. UNCHANGED <<ns, pods>>
    BY <1>2 DEF Ensure
  <2> QED
    BY <1>2, <2>1, QuietVolume, MakesVolume
<1>3. CASE InitWaiting
  <2>1. UNCHANGED <<ns, volume>>
    BY <1>3 DEF InitWaiting, CreatesPod
  <2> QED
    BY <1>3, <2>1, QuietVolume, InitVolume
<1>4. CASE Ide
  <2>1. UNCHANGED <<ns, volume>>
    BY <1>4 DEF Ide
  <2> QED
    BY <1>4, <2>1, QuietVolume, IdeVolume
<1>5. CASE BuildPassed \/ InitPassed \/ BuildPanics \/ BuildInitial \/ ReplaceBuildPod
           \/ DropBuildPod
  <2>1. UNCHANGED <<ns, volume>>
    BY <1>5 DEF BuildPassed, InitPassed, BuildPanics, Relisted, BuildInitial, ReplaceBuildPod,
       DropBuildPod, CreatesPod, DropsPod, cluster
  <2> QED
    BY <1>5, <2>1, QuietVolume
<1> QED
  BY <1>1, <1>2, <1>3, <1>4, <1>5, DropsVolume, PhasesVolume, WatchesVolume DEF Provisions

\* VolumeInUse is inductive as long as all is calm, no pod is lost, and the claims
\* are the DevEnv's.
LEMMA VolumeInUseNext ==
    ASSUME DeleteVolumes, PromptCollector, "devenv" \notin Lagging, "pods" \notin Lagging,
           OperatorInv, Tracked, Protected, PodsInUse, VolumeInUse,
           Calm, Calm', Kept, Kept', [OperatorNext]_vars
    PROVE  VolumeInUse'
<1>1. CASE WholeReconcile
  <2>1. StaleIsDeleted'
    BY <1>1, WorkerStale DEF VolumeInUse
  <2>2. CASE Reads
    BY <2>1, <2>2, ReadsVolume
  <2>3. CASE TakesDown
    BY <2>1, <2>3, TakesDownVolume
  <2>4. CASE Identifies
    BY <2>1, <2>4, IdentifiesVolume
  <2>5. CASE Provisions /\ UNCHANGED kc
    BY <2>1, <2>5, ProvisionsVolume
  <2> QED
    BY <1>1, <2>2, <2>3, <2>4, <2>5 DEF WholeReconcile
<1>2. CASE Elsewhere
  BY <1>2, ElsewhereVolume
<1>3. CASE UNCHANGED vars
  <2>1. /\ UNCHANGED <<crLog, devenv, fresh, pc, ns, volume, pods, seen, orphans>>
    BY <1>3 DEF vars, clusterVars, controllerVars, cluster
  <2>2. Stored' = Stored
    BY <2>1 DEF Stored
  <2>3. PodsNeedNs' /\ ClaimIsUsed' /\ InitPodLeft' /\ NothingOrphaned' /\ InitStops' /\ HalfFilled'
    BY <2>1, <2>2 DEF VolumeInUse, PodsNeedNs, ClaimIsUsed, Filling, InitPodLeft,
       NothingOrphaned, InitStops,
       HalfFilled, BeforeInit, InitIsOurs, InitSeenDone, Doomed, Leaving
  <2>4. InitDone' /\ StaleIsDeleted' /\ RunningReady' /\ IdeReady'
    BY <2>1, <2>2 DEF VolumeInUse, InitDone, InitSeenDone, StaleIsDeleted, RunningReady,
       IdeReady,
       Leaving
  <2> QED
    BY <2>3, <2>4 DEF VolumeInUse
<1> QED
  BY <1>1, <1>2, <1>3 DEF OperatorNext

\* At first there is no volume and nothing that could be on one.
LEMMA VolumeInit == Init => VolumeInUse
<1> SUFFICES ASSUME Init PROVE VolumeInUse
  OBVIOUS
<1>1. /\ Stored = Absent /\ pc = "idle" /\ ns = "absent" /\ volume = "none" /\ orphans = {}
      /\ \A p \in PodNames : pods[p] = "absent"
  BY DEF Init, Stored, NothingThere
<1>2. pods["init"] = "absent" /\ pods["ide"] = "absent"
  BY <1>1 DEF PodNames
<1>3. ~Stored.exists
  BY <1>1 DEF Absent
<1>4. PodsNeedNs /\ ClaimIsUsed /\ InitPodLeft /\ InitStops /\ NothingOrphaned /\ HalfFilled
  BY <1>1, <1>2, <1>3 DEF PodsNeedNs, ClaimIsUsed, Filling, InitPodLeft, InitStops,
     NothingOrphaned,
     InitIsOurs, InitSeenDone, HalfFilled
<1>5. InitDone /\ StaleIsDeleted /\ RunningReady /\ IdeReady
  BY <1>1, <1>2, <1>3 DEF InitDone, InitSeenDone, StaleIsDeleted, Guarded, AfterUser,
     RunningReady,
     IdeReady
<1> QED
  BY <1>4, <1>5 DEF VolumeInUse

-----------------------------------------------------------------------------
(* The workspace.                                                          *)

\* What the worker has seen of the init pod that it waits for it has seen of the
\* volume, which is lost as a whole or not at all.
SeenReady ==
    InitSeenDone /\ devenv.build = BuildPhaseInitializing => volume \in {"ready", "none"}

\* Nothing fills or empties a volume that has been filled.
LEMMA SeenReadyNext ==
    ASSUME PromptCollector, "devenv" \notin Lagging, "pods" \notin Lagging, OperatorInv, Tracked,
           Protected, VolumeInUse, SeenReady, Calm, Calm', Kept, Kept', [OperatorNext]_vars
    PROVE  SeenReady'
<1> USE DEF OperatorInv, Inv, TypeOK, ControllerTypeOK
<1>1. pods["init"] \in {"succeeded", "finished"} => volume = "ready"
  BY DEF VolumeInUse, InitDone
<1>2. CASE Reads
  <2>1. UNCHANGED <<volume, seen>>
    BY <1>2 DEF Reads, GetFindsNothing, GetFindsDevEnv, GetBuilder, ReconcileStarts, cluster
  <2>2. CASE GetBuilder
    <3>1. pc = "getBuilder" /\ (pc' = "idle" \/ UNCHANGED devenv)
      BY <2>2 DEF GetBuilder, ReturnRequeue
    <3> QED
      BY <2>1, <3>1 DEF SeenReady, InitSeenDone
  <2>3. CASE GetFindsNothing \/ GetFindsDevEnv
    <3>1. pc' = "idle" \/ seen.pods = pods
      BY <2>3 DEF GetFindsNothing, GetFindsDevEnv, ReconcileStarts, Informers, InSync
    <3> QED
      BY <1>1, <2>1, <3>1 DEF SeenReady, InitSeenDone
  <2> QED
    BY <1>2, <2>2, <2>3 DEF Reads
<1>3. CASE TakesDown \/ Identifies
  <2>1. UNCHANGED <<volume, seen>>
    <3>1. TakesDown => UNCHANGED <<volume, seen>>
      BY DEF TakesDown, DeleteRealm, DeleteBuildPod, RemoveFinalizer, cluster
    <3>2. Identifies => UNCHANGED cluster
      BY CalmSteps DEF Identifies, NewRealm, StatusRealm, SetFinalizer, CreateClient, CreateUser,
         SetPassword, StatusUser, cluster
    <3> QED
      BY <1>3, <3>1, <3>2 DEF cluster
  <2>2. pc \notin {"idle", "resetStatus", "statusInitializing"}
    BY <1>3 DEF TakesDown, DeleteRealm, DeleteBuildPod, RemoveFinalizer, Identifies, NewRealm,
       StatusRealm, SetFinalizer, CreateClient, CreateUser, SetPassword, StatusUser
  <2>3. pc' = "idle" \/ devenv'.build = devenv.build
    <3>1. \/ pc' = "idle" \/ UNCHANGED devenv
          \/ devenv' = [devenv EXCEPT !.realm = TRUE]
          \/ devenv' = [devenv EXCEPT !.finalizer = TRUE]
      BY <1>3 DEF TakesDown, DeleteRealm, DeleteBuildPod, RemoveFinalizer, Identifies, NewRealm,
         StatusRealm, SetFinalizer, CreateClient, CreateUser, SetPassword, StatusUser, local, Keep,
         ReturnRequeue, ReturnAfter, ReturnDone, Restarted
    <3> QED
      BY <3>1 DEF DevEnvObject
  <2> QED
    BY <2>1, <2>2, <2>3 DEF SeenReady, InitSeenDone
<1>4. CASE Provisions /\ UNCHANGED kc
  <2>1. CASE ResetStatus \/ StatusBuilding \/ StatusInitializing \/ BuildPanics
    <3>1. pc' = "idle"
      BY <2>1 DEF ResetStatus, StatusBuilding, StatusInitializing, BuildPanics, Relisted,
         Restarted, WritesPhase, ReturnAfter, ReturnRequeue
    <3> QED
      BY <3>1 DEF SeenReady, InitSeenDone
  <2>2. CASE Ensure
    <3>1. /\ seen' = seen /\ pc = "ensure" /\ (pc' = "idle" \/ UNCHANGED devenv)
          /\ volume' = volume \/ (ns = "active" /\ volume = "none")
      BY <2>2 DEF Ensure, MakesClaim, ReturnRequeue, local
    <3>2. InitSeenDone /\ devenv.build = BuildPhaseInitializing /\ ns = "active"
              => volume = "ready"
      BY <1>1, <1>4, ProvisionsStores DEF VolumeInUse, InitDone
    <3> QED
      BY <3>1, <3>2 DEF SeenReady, InitSeenDone
  <2>3. CASE BuildBuilding \/ InitInitializing
    <3>1. /\ UNCHANGED <<volume, seen>> /\ pc \in {"build", "init"}
          /\ \/ pc' = "idle"
             \/ \E phase \in {BuildPhaseWaitForInitializion, BuildPhaseRunning} :
                    devenv' = WithBuild(phase)
      BY <2>3 DEF BuildBuilding, InitInitializing, Watches, WritesPhase, Keep, cluster,
         ReturnRequeue, ReturnAfter, ReturnDone
    <3>2. pc' = "idle" \/ devenv'.build # BuildPhaseInitializing
      BY <3>1, PhasesDiffer DEF WithBuild, DevEnvObject
    <3> QED
      BY <3>2 DEF SeenReady, InitSeenDone
  <2>4. CASE ~(ResetStatus \/ StatusBuilding \/ StatusInitializing \/ BuildPanics \/ Ensure
               \/ BuildBuilding \/ InitInitializing)
    <3>1. /\ UNCHANGED <<volume, seen>> /\ pc \notin {"idle", "resetStatus", "statusInitializing"}
          /\ pc' = "idle" \/ UNCHANGED devenv
      BY <1>4, <2>4 DEF Provisions, Namespace, CreateNamespace, BuildInitial, ReplaceBuildPod,
         DropBuildPod, BuildWithoutBuilder, BuildPassed, InitWaiting, ReplaceInitPod, DropInitPod,
         InitPassed, Ide, CreateIde, Proxy, CreatesPod, DropsPod, WritesPhase, cluster, local,
         ReturnRequeue, ReturnAfter, ReturnDone
    <3> QED
      BY <3>1 DEF SeenReady, InitSeenDone
  <2> QED
    BY <2>1, <2>2, <2>3, <2>4
<1>5. CASE Elsewhere
  <2>1. /\ Surroundings /\ ~Spend("fault") /\ ~Spend("podloss") /\ NoEdit /\ NoEdit'
    BY <1>5, CalmSteps, NotSpent DEF Elsewhere, Crash, Kept, Disturbances
  <2>2. pc' = pc /\ devenv' = devenv
    <3>1. User => pc' = pc /\ devenv' = devenv
      BY UserSteps DEF User
    <3> QED
      BY <2>1, <3>1, OthersKeepStored
  <2>3. CASE Kubelet \/ PodTrouble
    <3>1. seen' = seen
      BY <2>3 DEF Kubelet, PodTrouble
    <3>2. volume \in {"ready", "none"} => volume' = volume
      BY <1>5, <2>1, <2>3, KubeletTurns DEF Elsewhere, InitTurns
    <3> QED
      BY <2>2, <3>1, <3>2 DEF SeenReady, InitSeenDone
  <2>4. CASE NamespaceGoes \/ Collector
    <3>1. seen' = seen /\ volume' \in {volume, "none"}
      BY <2>4 DEF NamespaceGoes, Collector, CollectNamespace, CollectClaim, CollectIde
    <3> QED
      BY <2>2, <3>1 DEF SeenReady, InitSeenDone
  <2>5. CASE ~(Kubelet \/ PodTrouble \/ NamespaceGoes \/ Collector)
    <3>1. volume' = volume
      BY <2>1, <2>5 DEF Surroundings, User, Events, ObjectEvent, Delay, AdminDeletesNamespace,
         NamespaceDrains, BuilderChanges, cluster
    <3> QED
      BY <1>1, <2>1, <2>2, <3>1, OthersSee DEF SeenReady, InitSeenDone
  <2> QED
    BY <2>3, <2>4, <2>5
<1>6. CASE UNCHANGED vars
  BY <1>6 DEF vars, clusterVars, controllerVars, cluster, SeenReady, InitSeenDone
<1> QED
  BY <1>2, <1>3, <1>4, <1>5, <1>6 DEF OperatorNext, WholeReconcile

\* The phase that follows initialization is written when the init pod has been seen to succeed.
LEMMA RunningIsSeen ==
    ASSUME OperatorInv, Tracked, Protected, Calm, Calm', Provisions, kc' = kc,
           Stored'.build = BuildPhaseRunning, Stored.build # BuildPhaseRunning
    PROVE  InitSeenDone /\ devenv.build = BuildPhaseInitializing
<1> USE DEF OperatorInv, Inv, TypeOK
<1>1. \/ /\ pc = "init" /\ devenv.build = BuildPhaseInitializing
         /\ seen.pods["init"] \in {"succeeded", "finished"}
      \/ \E phase \in {BuildPhaseInitial, BuildPhaseBuilding, BuildPhaseWaitForInitializion,
                       BuildPhaseInitializing} :
             /\ pc \in Creating
             /\ Accepted(WithBuild(phase)) \/ Rejected(WithBuild(phase))
  <2>1. crLog' # crLog
    BY DEF Stored
  <2>2. CASE InitInitializing
    BY <2>1, <2>2 DEF InitInitializing, Watches, WritesPhase, SetDevEnvStatus,
       SetDevEnvStatusFails, Creating, Labels
  <2>3. CASE ~InitInitializing
    <3>1. \/ ResetStatus \/ StatusBuilding \/ BuildBuilding \/ BuildWithoutBuilder
          \/ StatusInitializing \/ BuildPanics
      BY <2>1, <2>3 DEF Provisions, Namespace, Ensure, BuildInitial, ReplaceBuildPod,
         DropBuildPod,
         BuildPassed, InitWaiting, ReplaceInitPod, DropInitPod, InitPassed, Ide, CreatesPod, DropsPod
    <3>2. ~BuildPanics
      BY StoredAfter DEF BuildPanics, Relisted, Restarted, ControllerTypeOK
    <3> QED
      BY <2>1, <3>1, <3>2 DEF ResetStatus, StatusBuilding, BuildBuilding, BuildWithoutBuilder,
         StatusInitializing, Watches, WritesPhase, SetDevEnvStatus, SetDevEnvStatusFails,
         Creating, Labels
  <2> QED
    BY <2>2, <2>3
<1> QED
  BY <1>1, PhaseWriteStores, PhaseTypes, PhasesDiffer DEF InitSeenDone

\* What the promise tells apart, and what a step may leave of it.
SpaceStep == [Space!Next]_(Space!vars)

PhaseStays == Stored'.exists = Stored.exists /\ (Stored.exists => Stored'.build = Stored.build)
DiskStays  == (volume' = "none" <=> volume = "none") /\ (volume' = "ready" <=> volume = "ready")
IdeStays   == pods'["ide"] \in {"pending", "running"} <=> pods["ide"] \in {"pending", "running"}

\* What leaves all three alone is a stutter.
LEMMA SpaceStutter ==
    ASSUME PhaseStays, DiskStays, IdeStays
    PROVE  SpaceStep
  BY DEF PhaseStays, DiskStays, IdeStays, SpaceStep, Space!vars

\* The moves of the phase that the promise has.
LEMMA SpacePhase ==
    ASSUME DiskStays, IdeStays,
           \/ Stored.exists /\ ~Stored'.exists
           \/ ~Stored.exists /\ Stored'.exists /\ Stored'.build = BuildPhaseInitial
           \/ /\ Stored.exists /\ Stored'.exists
              /\ \/ /\ Stored'.build = BuildPhaseInitial
                    /\ Stored.build = BuildPhaseBuilding \/ volume = "none"
                 \/ /\ <<Stored.build, Stored'.build>> \in PhaseStep
                    /\ Stored'.build = BuildPhaseRunning => volume \in {"none", "ready"}
    PROVE  SpaceStep
<1> USE DEF DiskStays, IdeStays, BuildPhaseInitial, BuildPhaseBuilding,
        BuildPhaseWaitForInitializion, BuildPhaseInitializing, BuildPhaseRunning
<1>1. CASE Stored.exists /\ ~Stored'.exists
  <2>1. CASE Stored.build # "none"
    BY <1>1, <2>1 DEF SpaceStep, Space!Next, Space!Vanish
  <2>2. CASE Stored.build = "none"
    BY <1>1, <2>2 DEF SpaceStep, Space!vars
  <2> QED
    BY <2>1, <2>2
<1>2. CASE ~Stored.exists /\ Stored'.exists /\ Stored'.build = BuildPhaseInitial
  BY <1>2 DEF SpaceStep, Space!Next, Space!Appear
<1>3. CASE /\ Stored.exists /\ Stored'.exists /\ Stored'.build = BuildPhaseInitial
           /\ Stored.build = BuildPhaseBuilding \/ volume = "none"
  <2>1. CASE Stored.build # "none"
    BY <1>3, <2>1 DEF SpaceStep, Space!Next, Space!StartOver
  <2>2. CASE Stored.build = "none"
    BY <1>3, <2>2 DEF SpaceStep, Space!Next, Space!Appear
  <2> QED
    BY <2>1, <2>2
<1>4. CASE /\ Stored.exists /\ Stored'.exists /\ <<Stored.build, Stored'.build>> \in PhaseStep
           /\ Stored'.build = BuildPhaseRunning => volume \in {"none", "ready"}
  <2>1. CASE Stored'.build = BuildPhaseRunning
    <3>1. Space!Finish
      BY <1>4, <2>1 DEF PhaseStep, Space!Finish
    <3> QED
      BY <3>1 DEF SpaceStep, Space!Next
  <2>2. CASE Stored'.build # BuildPhaseRunning
    <3>1. Space!Advance
      BY <1>4, <2>2 DEF PhaseStep, Space!Advance
    <3> QED
      BY <3>1 DEF SpaceStep, Space!Next
  <2> QED
    BY <2>1, <2>2
<1> QED
  BY <1>1, <1>2, <1>3, <1>4

\* Those of the volume.
LEMMA SpaceDisk ==
    ASSUME PhaseStays, IdeStays, Stored.exists => Stored.build \in BuildPhase,
           \/ /\ volume = "none" /\ volume' = "empty"
              /\ Stored.exists /\ Stored.build # BuildPhaseRunning
           \/ /\ volume \in {"empty", "marked"} /\ volume' = "ready"
              /\ ~(Stored.exists /\ Stored.build = BuildPhaseRunning)
           \/ volume' = "none" /\ pods["ide"] \notin {"pending", "running"}
    PROVE  SpaceStep
<1> USE DEF PhaseStays, IdeStays, BuildPhase, BuildPhaseInitial, BuildPhaseBuilding,
        BuildPhaseWaitForInitializion, BuildPhaseInitializing, BuildPhaseRunning
<1>1. CASE volume = "none" /\ volume' = "empty"
  <2>1. Space!Claim
    BY <1>1 DEF Space!Claim
  <2> QED
    BY <2>1 DEF SpaceStep, Space!Next
<1>2. CASE volume \in {"empty", "marked"} /\ volume' = "ready"
  <2>1. Space!Fill
    BY <1>2 DEF Space!Fill
  <2> QED
    BY <2>1 DEF SpaceStep, Space!Next
<1>3. CASE volume' = "none" /\ pods["ide"] \notin {"pending", "running"}
  <2>1. Space!Drop
    BY <1>3 DEF Space!Drop
  <2> QED
    BY <2>1 DEF SpaceStep, Space!Next
<1> QED
  BY <1>1, <1>2, <1>3

\* Those of the IDE.
LEMMA SpaceIde ==
    ASSUME PhaseStays, DiskStays,
           pods'["ide"] \in {"pending", "running"}
               => \/ pods["ide"] \in {"pending", "running"}
                  \/ Stored.exists /\ Stored.build = BuildPhaseRunning /\ volume = "ready"
    PROVE  SpaceStep
<1> USE DEF PhaseStays, DiskStays, BuildPhaseRunning
<1>1. CASE IdeStays
  BY <1>1, SpaceStutter
<1>2. CASE ~IdeStays /\ pods'["ide"] \in {"pending", "running"}
  <2>1. Space!TurnOn
    BY <1>2 DEF Space!TurnOn, IdeStays
  <2> QED
    BY <2>1 DEF SpaceStep, Space!Next
<1>3. CASE ~IdeStays /\ pods'["ide"] \notin {"pending", "running"}
  <2>1. Space!TurnOff
    BY <1>3 DEF Space!TurnOff, IdeStays
  <2> QED
    BY <2>1 DEF SpaceStep, Space!Next
<1> QED
  BY <1>1, <1>2, <1>3

\* While nothing happens to volume and IDE, the phase moves as it may.
LEMMA PhaseSpace ==
    ASSUME OperatorInv, [OperatorNext]_vars, UNCHANGED volume, pods'["ide"] = pods["ide"],
           Stored.exists,
           Stored'.exists /\ Stored'.build = BuildPhaseRunning /\ Stored.build # BuildPhaseRunning
               => volume \in {"none", "ready"}
    PROVE  SpaceStep
<1> USE DEF OperatorInv, Inv, TypeOK, ControllerTypeOK
<1>1. DiskStays /\ IdeStays
  BY DEF DiskStays, IdeStays
<1>2. CASE ~Stored'.exists
  BY <1>1, <1>2, SpacePhase
<1>3. CASE Stored'.exists /\ Stored'.build = Stored.build
  <2>1. Stored \in DevEnvObject /\ Stored' \in DevEnvObject
    <3>1. OperatorInv'
      BY OperatorInvNext
    <3>2. crLog' \in Seq(DevEnvObject) /\ crLog' # <<>>
      BY <3>1
    <3> QED
      BY <3>2, LogOfObjects DEF Stored
  <2>2. PhaseStays
    BY <1>3, <2>1 DEF PhaseStays, DevEnvObject
  <2> QED
    BY <1>1, <2>2, SpaceStutter
<1>4. CASE Stored'.exists /\ Stored'.build # Stored.build
  <2>1. /\ LegalWrite(Stored'.build)
        /\ Stored'.build = BuildPhaseInitial /\ BuildIsOver => volume = "none"
    BY <1>4, OperatorMovesLegally
  <2>2. Stored.build \in BuildPhase
    BY LogOfObjects DEF DevEnvObject
  <2>3. CASE Stored'.build = BuildPhaseInitial
    <3>1. Stored.build = BuildPhaseBuilding \/ volume = "none"
      BY <1>4, <2>1, <2>2, <2>3, PhaseTypes DEF BuildIsOver
    <3> QED
      BY <1>1, <1>4, <2>3, <3>1, SpacePhase
  <2>4. CASE <<Stored.build, Stored'.build>> \in PhaseStep
    <3>1. Stored'.build = BuildPhaseRunning => Stored.build # BuildPhaseRunning
      BY <1>4
    <3> QED
      BY <1>1, <1>4, <2>4, <3>1, SpacePhase
  <2> QED
    BY <2>1, <2>3, <2>4 DEF LegalWrite
<1> QED
  BY <1>2, <1>3, <1>4

\* The worker before and instead of provisioning.
LEMMA IdentitySpace ==
    ASSUME OperatorInv, Tracked, Protected, Calm, Calm', [OperatorNext]_vars,
           Reads \/ TakesDown \/ Identifies
    PROVE  SpaceStep
<1> USE DEF OperatorInv, Inv, TypeOK, ControllerTypeOK
<1>1. CASE Reads
  <2>1. UNCHANGED <<crLog, volume, pods>>
    BY <1>1 DEF Reads, GetFindsNothing, GetFindsDevEnv, ReconcileStarts, GetBuilder, cluster
  <2> QED
    BY <2>1, SpaceStutter DEF PhaseStays, DiskStays, IdeStays, Stored
<1>2. CASE TakesDown
  <2>1. volume' = volume /\ pods'["ide"] = pods["ide"]
    BY <1>2 DEF TakesDown, DeleteRealm, DeleteBuildPod, RemoveFinalizer, cluster, DeletePod,
       ClusterTypeOK, PodNames
  <2>2. Stored.exists
    <3>1. pc \in TakingDown
      BY <1>2 DEF TakesDown, DeleteRealm, DeleteBuildPod, RemoveFinalizer, TakingDown
    <3> QED
      BY <3>1 DEF Protected, Holds
  <2>3. Stored'.exists => Stored' = Stored
    BY <1>2, TakesDownTracked DEF Absent
  <2> QED
    BY <2>1, <2>2, <2>3, PhaseSpace
<1>3. CASE Identifies
  <2>1. UNCHANGED <<volume, pods>>
    BY <1>3, CalmSteps DEF Identifies, NewRealm, StatusRealm, SetFinalizer, CreateClient,
       CreateUser, SetPassword, StatusUser, cluster
  <2>2. CASE Stored.exists
    <3>1. Stored'.exists => Stored'.build = Stored.build
      BY <1>3, <2>2, IdentityKeepsPhase
    <3> QED
      BY <2>1, <2>2, <3>1, PhaseSpace
  <2>3. CASE ~Stored.exists
    <3>1. Stored' = Stored
      <4>1. Stored' = Stored \/ (devenv = Stored /\ CopyWrite(Stored'))
        BY <1>3, IdentifiesTracked, ShapesStore
      <4>2. pc # "idle" => devenv.exists
        BY DEF Tracked, UidsTell
      <4>3. pc # "idle"
        BY <1>3 DEF Identifies, NewRealm, StatusRealm, SetFinalizer, CreateClient, CreateUser,
           SetPassword, StatusUser
      <4> QED
        BY <2>3, <4>1, <4>2, <4>3
    <3> QED
      BY <2>1, <3>1, SpaceStutter DEF PhaseStays, DiskStays, IdeStays
  <2> QED
    BY <2>2, <2>3
<1> QED
  BY <1>1, <1>2, <1>3

\* The worker's provisioning: a claim is made before the DevEnv counts as
\* running, an IDE afterwards, and everything else is about phases.
LEMMA ProvisionsSpace ==
    ASSUME OperatorInv, Tracked, Protected, VolumeInUse, SeenReady, VolumeInUse', Calm, Calm',
           [OperatorNext]_vars, Provisions, kc' = kc
    PROVE  SpaceStep
<1> USE DEF OperatorInv, Inv, TypeOK, ControllerTypeOK
<1>1. Stored.exists /\ Stored \in DevEnvObject /\ pc \in AfterUser
  BY ProvisionsStores, LogOfObjects
<1>2. CASE Ensure /\ volume' # volume
  <2>1. /\ volume = "none" /\ volume' = "empty" /\ ns = "active"
        /\ pc = "ensure" /\ UNCHANGED <<crLog, pods>>
    BY <1>2 DEF Ensure, MakesClaim
  <2>2. ~Leaving
    BY <2>1 DEF Leaving, TakingDown
  <2>3. Stored.build # BuildPhaseRunning
    BY <1>1, <2>1, <2>2 DEF VolumeInUse, RunningReady
  <2>4. PhaseStays /\ IdeStays
    BY <2>1 DEF PhaseStays, IdeStays, Stored
  <2> QED
    BY <1>1, <2>1, <2>3, <2>4, SpaceDisk DEF DevEnvObject
<1>3. CASE Ide
  <2>1. UNCHANGED <<crLog, volume>> /\ pc = "ide"
    BY <1>3 DEF Ide
  <2>2. Stored.build = BuildPhaseRunning
    BY <2>1, ProvisionsStores DEF Tracked, Reached
  <2>3. pods'["ide"] \in {"pending", "running"} => volume = "ready"
    BY <2>1 DEF VolumeInUse, IdeReady
  <2>4. PhaseStays /\ DiskStays
    BY <2>1 DEF PhaseStays, DiskStays, Stored
  <2> QED
    BY <1>1, <2>2, <2>3, <2>4, SpaceIde
<1>4. CASE ~Ide /\ volume' = volume
  <2>1. \/ pods' = pods
        \/ \E p \in {"build", "init"} : CreatePod(p) \/ DeletePod(p)
    BY <1>4, CalmSteps DEF Provisions, Namespace, ResetStatus, Ensure, BuildPanics, Relisted,
       BuildInitial, StatusBuilding, ReplaceBuildPod, BuildBuilding, DropBuildPod,
       BuildWithoutBuilder, BuildPassed, InitWaiting, StatusInitializing, ReplaceInitPod,
       InitInitializing, DropInitPod, InitPassed, CreatesPod, DropsPod, Watches, WritesPhase,
       cluster
  <2>2. pods'["ide"] = pods["ide"]
    BY <2>1 DEF CreatePod, DeletePod, ClusterTypeOK, PodNames
  <2>3. InitSeenDone /\ devenv.build = BuildPhaseInitializing => volume \in {"none", "ready"}
    BY DEF SeenReady
  <2> QED
    BY <1>1, <1>4, <2>2, <2>3, RunningIsSeen, PhaseSpace
<1>5. Ensure \/ volume' = volume
  BY DEF Provisions, Namespace, ResetStatus, BuildPanics, Relisted, BuildInitial, StatusBuilding,
     ReplaceBuildPod, BuildBuilding, DropBuildPod, BuildWithoutBuilder, BuildPassed, InitWaiting,
     StatusInitializing, ReplaceInitPod, InitInitializing, DropInitPod, InitPassed, Ide, CreatesPod,
     DropsPod, Watches, WritesPhase, cluster
<1> QED
  BY <1>2, <1>3, <1>4, <1>5

\* Users, whose deletion may remove the DevEnv.
LEMMA UserSpace ==
    ASSUME OperatorInv, NoEdit, NoEdit', User
    PROVE  SpaceStep
<1> USE DEF OperatorInv, Inv, TypeOK, ControllerTypeOK
<1>1. UNCHANGED <<volume, pods>>
  BY DEF User
<1>2. DiskStays /\ IdeStays
  BY <1>1 DEF DiskStays, IdeStays
<1>3. CASE ~Stored.exists /\ \E b \in BOOLEAN : Stored' = Created(b)
  <2>1. Stored'.exists /\ Stored'.build = BuildPhaseInitial
    BY <1>3 DEF Created, Absent
  <2> QED
    BY <1>2, <1>3, <2>1, SpacePhase
<1>4. CASE Stored.exists /\ Stored' = Absent
  <2>1. ~Stored'.exists
    BY <1>4 DEF Absent
  <2> QED
    BY <1>2, <1>4, <2>1, SpacePhase
<1>5. CASE Stored' = [Stored EXCEPT !.deleting = TRUE]
  <2>1. PhaseStays
    BY <1>5, LogOfObjects DEF PhaseStays, DevEnvObject
  <2> QED
    BY <1>2, <2>1, SpaceStutter
<1> QED
  BY <1>3, <1>4, <1>5, UserWrites

\* Everybody else: pods fill the volume before the DevEnv counts as running, and
\* nobody takes it from an IDE.
LEMMA ElsewhereSpace ==
    ASSUME PromptCollector, OperatorInv, PodsInUse, VolumeInUse, Calm, Calm', Kept, Kept',
           Elsewhere
    PROVE  SpaceStep
<1> USE DEF OperatorInv, Inv, TypeOK, ControllerTypeOK
<1>1. /\ Surroundings /\ ~Spend("fault") /\ ~Spend("podloss") /\ NoEdit /\ NoEdit'
      /\ CollectorIsPrompt
  BY CalmSteps, NotSpent DEF Elsewhere, Crash, Kept, Disturbances
<1>2. CASE User
  BY <1>1, <1>2, UserSpace
<1>3. CASE ~User
  <2>1. Stored' = Stored
    BY <1>1, <1>3, OthersKeepStored
  <2>2. PhaseStays /\ (Stored.exists => Stored.build \in BuildPhase)
    BY <2>1, LogOfObjects DEF PhaseStays, DevEnvObject
  <2>3. CASE InitChowns
    <3>1. pods["init"] \in {"copying", "stopping"} /\ pods'["ide"] = pods["ide"]
      BY <2>3, OneMoves DEF InitChowns, InitEnds, PodNames
    <3>2. ~(Stored.exists /\ Stored.build = BuildPhaseRunning)
      BY <3>1 DEF VolumeInUse, RunningReady
    <3>3. IdeStays /\ volume = "marked" /\ volume' = "ready"
      BY <2>3, <3>1 DEF IdeStays, InitChowns
    <3> QED
      BY <2>2, <3>2, <3>3, SpaceDisk
  <2>4. CASE (Kubelet \/ PodTrouble) /\ ~InitChowns
    <3>1. DiskStays
      BY <1>1, <2>4 DEF Kubelet, PodTrouble, BuildSucceeds, InitKeepsVolume, InitCopies,
         InitMarks,
         IdeStarts, PodStops, PodFails, PodLost, InitCopyBreaks, DiskStays
    <3>2. pods'["ide"] \in {"pending", "running"} => pods["ide"] \in {"pending", "running"}
      BY <1>1, <2>4, KubeletTurns DEF IdeTurns
    <3> QED
      BY <2>2, <3>1, <3>2, SpaceIde
  <2>5. CASE NamespaceGoes \/ CollectClaim
    <3>1. volume' = "none" /\ pods["ide"] = "absent" /\ pods' = pods
      BY <2>5 DEF NamespaceGoes, CollectClaim
    <3> QED
      BY <2>2, <3>1, SpaceDisk DEF IdeStays
  <2>6. CASE NamespaceDrains \/ CollectIde
    <3>1. \A p \in PodNames : Deleted(p) \in {"absent", "terminating", "stopping"}
      BY DEF Deleted
    <3>2. /\ volume' = volume
          /\ pods'["ide"] \in {pods["ide"], "absent", "terminating", "stopping"}
      BY <2>6, <3>1 DEF NamespaceDrains, CollectIde, DeletePod, ClusterTypeOK, PodNames
    <3> QED
      BY <2>2, <3>2, SpaceIde DEF DiskStays
  <2>7. CASE \/ Events \/ ObjectEvent \/ Delay \/ AdminDeletesNamespace \/ CollectNamespace
             \/ BuilderChanges
    <3>1. UNCHANGED <<volume, pods>>
      BY <2>7 DEF Events, ObjectEvent, Delay, AdminDeletesNamespace, CollectNamespace,
         BuilderChanges, cluster
    <3> QED
      BY <2>2, <3>1, SpaceStutter DEF DiskStays, IdeStays
  <2> QED
    BY <1>1, <1>3, <2>3, <2>4, <2>5, <2>6, <2>7 DEF Surroundings, Collector
<1> QED
  BY <1>2, <1>3

\* Every step of the whole Reconcile is one of the promise, or none.
LEMMA OperatorSpace ==
    ASSUME PromptCollector, OperatorInv, Tracked, Protected, PodsInUse, VolumeInUse, VolumeInUse',
           SeenReady, Calm, Calm', Kept, Kept', [OperatorNext]_vars
    PROVE  SpaceStep
<1>1. CASE UNCHANGED vars
  BY <1>1, SpaceStutter DEF vars, clusterVars, controllerVars, cluster, PhaseStays, DiskStays,
     IdeStays, Stored
<1> QED
  BY <1>1, IdentitySpace, ProvisionsSpace, ElsewhereSpace DEF OperatorNext, WholeReconcile

-----------------------------------------------------------------------------
(* Theorems.                                                               *)

\* The worker that makes an IDE is at "ide", with a copy in phase Running.
LEMMA IdeIsMadeRunning ==
    ASSUME OperatorInv, Tracked, [OperatorNext]_vars, MakesIde
    PROVE  pc = "ide" /\ (devenv.uid = Stored.uid => Stored.build = BuildPhaseRunning)
<1>1. pc = "ide"
  BY IdeIsMadeLast DEF OperatorInv, Inv
<1> QED
  BY <1>1 DEF Tracked, Reached, CopyFollows

\* Whatever fails and wherever the process ends, a DevEnv that is still the one
\* the worker read has phase Running when an IDE is made for it, unless somebody
\* has edited it: what the worker believes of the phase is what is stored.
THEOREM IdeOnlyForItsDevEnv ==
    ASSUME "devenv" \notin Lagging
    PROVE  OperatorSpec /\ []NoEdit
               => [][MakesIde /\ devenv.uid = Stored.uid
                         => Stored.build = BuildPhaseRunning]_vars
<1>1. Init => Tracked
  BY TrackedInit
<1>2. OperatorInv /\ Tracked /\ NoEdit /\ NoEdit' /\ [OperatorNext]_vars => Tracked'
  BY TrackedNext
<1>3. OperatorInv /\ Tracked /\ [OperatorNext]_vars
          => [MakesIde /\ devenv.uid = Stored.uid => Stored.build = BuildPhaseRunning]_vars
  BY IdeIsMadeRunning
<1> QED
  BY <1>1, <1>2, <1>3, OperatorInvariance, PTL DEF OperatorSpec

\* The copy follows the stored object, the finalizer holds it, and the pods that
\* run are accounted for, as long as all is calm.
THEOREM CalmInvariance ==
    ASSUME "devenv" \notin Lagging
    PROVE  OperatorSpec /\ []Calm => [](Tracked /\ Protected)
<1>1. Init => Tracked /\ Protected
  BY TrackedInit, CalmInit
<1>2. OperatorInv /\ Tracked /\ Protected /\ Calm /\ Calm' /\ [OperatorNext]_vars
          => Tracked' /\ Protected'
  <2> SUFFICES ASSUME OperatorInv, Tracked, Protected, Calm, Calm', [OperatorNext]_vars
               PROVE  Tracked' /\ Protected'
    OBVIOUS
  <2>1. NoEdit /\ NoEdit'
    BY DEF Calm, NoEdit
  <2> QED
    BY <2>1, TrackedNext, ProtectedNext
<1> QED
  BY <1>1, <1>2, OperatorInvariance, PTL DEF OperatorSpec

\* The IDE pod is only made for a DevEnv that went through all phases: the
\* finalizer keeps the DevEnv that was read in place until the worker is done.
THEOREM IdeOnlyWhenRunningHolds ==
    ASSUME "devenv" \notin Lagging
    PROVE  OperatorSpec /\ []Calm => IdeOnlyWhenRunning
<1>1. OperatorInv /\ Tracked /\ Protected /\ [OperatorNext]_vars
          => [pods["ide"] = "absent" /\ pods'["ide"] = "pending" /\ Stored.exists
                  => Stored.build = BuildPhaseRunning]_clusterVars
  <2> SUFFICES ASSUME OperatorInv, Tracked, Protected, [OperatorNext]_vars, MakesIde
               PROVE  Stored.build = BuildPhaseRunning
    BY DEF MakesIde
  <2>1. pc = "ide" /\ (devenv.uid = Stored.uid => Stored.build = BuildPhaseRunning)
    BY IdeIsMadeRunning
  <2>2. devenv.uid = Stored.uid
    BY <2>1 DEF Protected, Guarded, AfterUser, Holds
  <2> QED
    BY <2>1, <2>2
<1> QED
  BY <1>1, CalmInvariance, OperatorInvariance, PTL DEF OperatorSpec, IdeOnlyWhenRunning

\* A provisioned DevEnv leaves no build pod and no init pod behind: the phase that
\* follows a pod is only written when the pod has finished and is deleted next.
THEOREM NoStrayPodsHolds ==
    ASSUME "devenv" \notin Lagging, "pods" \notin Lagging
    PROVE  OperatorSpec /\ []Calm => []NoStrayPods
<1>1. Init => PodsInUse
  BY CalmInit
<1>2. OperatorInv /\ Tracked /\ Protected /\ PodsInUse /\ Calm /\ Calm' /\ [OperatorNext]_vars
          => PodsInUse'
  BY PodsInUseNext
<1>3. PodsInUse => NoStrayPods
  <2> SUFFICES ASSUME PodsInUse, pc = "idle", Stored.build = BuildPhaseRunning
               PROVE  ~Occupied("build") /\ ~Occupied("init")
    BY DEF NoStrayPods, Settled, Occupied
  <2> QED
    BY DEF PodsInUse, BuildPodInUse, InitPodInUse, BuildPhaseInitial, BuildPhaseBuilding,
       BuildPhaseRunning
<1> QED
  BY <1>1, <1>2, <1>3, CalmInvariance, OperatorInvariance, PTL DEF OperatorSpec

\* What is on the volume, and what the worker has seen of it, is accounted for as
\* long as no pod is lost either, and the namespace is the DevEnv's.
THEOREM VolumeInvariance ==
    ASSUME DeleteVolumes, PromptCollector, "devenv" \notin Lagging, "pods" \notin Lagging
    PROVE  OperatorSpec /\ [](Calm /\ Kept) => [](PodsInUse /\ VolumeInUse /\ SeenReady)
<1>1. Init => PodsInUse /\ VolumeInUse /\ SeenReady
  BY CalmInit, VolumeInit DEF Init, SeenReady, InitSeenDone
<1>2. OperatorInv /\ Tracked /\ Protected /\ PodsInUse /\ Calm /\ Calm' /\ [OperatorNext]_vars
          => PodsInUse'
  BY PodsInUseNext
<1>3. OperatorInv /\ Tracked /\ Protected /\ PodsInUse /\ VolumeInUse
          /\ Calm /\ Calm' /\ Kept /\ Kept' /\ [OperatorNext]_vars
          => VolumeInUse'
  BY VolumeInUseNext
<1>4. OperatorInv /\ Tracked /\ Protected /\ VolumeInUse /\ SeenReady
          /\ Calm /\ Calm' /\ Kept /\ Kept' /\ [OperatorNext]_vars
          => SeenReady'
  BY SeenReadyNext
<1> QED
  BY <1>1, <1>2, <1>3, <1>4, CalmInvariance, OperatorInvariance, PTL DEF OperatorSpec

\* The IDE runs on a volume that has been filled, however often the DevEnv or its
\* namespace go and come back: a volume that an init pod of a former DevEnv has
\* half filled is collected before the next one takes it over.  Without
\* DeleteVolumes it is not.
THEOREM IdeOnlyOnReadyVolumeHolds ==
    ASSUME DeleteVolumes, PromptCollector, "devenv" \notin Lagging, "pods" \notin Lagging
    PROVE  OperatorSpec /\ [](Calm /\ Kept) => []IdeOnlyOnReadyVolume
<1>1. VolumeInUse => IdeOnlyOnReadyVolume
  BY DEF VolumeInUse, IdeReady, IdeOnlyOnReadyVolume
<1> QED
  BY <1>1, VolumeInvariance, PTL

\* The whole of Reconcile, with its copies and caches, the namespace, the temporary
\* pods, the collector and users who delete and create at any moment, implements
\* the promise about the workspace (lines 219-465).
THEOREM OperatorImplementsWorkspace ==
    ASSUME DeleteVolumes, PromptCollector, "devenv" \notin Lagging, "pods" \notin Lagging
    PROVE  OperatorSpec /\ [](Calm /\ Kept) => ImplementsWorkspace
<1>1. Init => Space!Init
  <2> SUFFICES ASSUME Init PROVE Space!Init
    OBVIOUS
  <2>1. ~Stored.exists /\ volume = "none" /\ pods["ide"] = "absent"
    BY DEF Init, Stored, NothingThere, PodNames, Absent
  <2> QED
    BY <2>1 DEF Space!Init
<1>2. OperatorInv /\ Tracked /\ Protected /\ PodsInUse /\ VolumeInUse /\ VolumeInUse' /\ SeenReady
          /\ Calm /\ Calm' /\ Kept /\ Kept' /\ [OperatorNext]_vars
          => [Space!Next]_(Space!vars)
  BY OperatorSpace DEF SpaceStep
<1> QED
  BY <1>1, <1>2, VolumeInvariance, CalmInvariance, OperatorInvariance, PTL
     DEF OperatorSpec, ImplementsWorkspace, Space!Spec

\* The promise has its own invariant, which with the theorem before this one is
\* one of the operator: an IDE has a filled volume, and a DevEnv that counts as
\* running has none that is still to be filled.
THEOREM WorkspaceUsesFilled == Space!Spec => []Space!UsesFilled
<1>1. Space!Init => Space!UsesFilled
  BY DEF Space!Init, Space!UsesFilled
<1>2. Space!UsesFilled /\ [Space!Next]_(Space!vars) => Space!UsesFilled'
  <2> SUFFICES ASSUME Space!UsesFilled, [Space!Next]_(Space!vars)
               PROVE  Space!UsesFilled'
    OBVIOUS
  <2> USE DEF Space!UsesFilled
  <2>1. CASE Space!Appear \/ Space!Vanish \/ Space!StartOver
    BY <2>1 DEF Space!Appear, Space!Vanish, Space!StartOver
  <2>2. CASE Space!Advance \/ Space!Finish
    BY <2>2 DEF Space!Advance, Space!Finish
  <2>3. CASE Space!Claim \/ Space!Fill \/ Space!Drop
    BY <2>3 DEF Space!Claim, Space!Fill, Space!Drop
  <2>4. CASE Space!TurnOn \/ Space!TurnOff \/ UNCHANGED Space!vars
    BY <2>4 DEF Space!TurnOn, Space!TurnOff, Space!vars
  <2> QED
    BY <2>1, <2>2, <2>3, <2>4 DEF Space!Next
<1> QED
  BY <1>1, <1>2, PTL DEF Space!Spec

\* What the runs show to break with a crash and with a lost pod holds without: a
\* new namespace resets the status before there is another volume, and a DevEnv
\* that counts as running has no volume that is half filled.
THEOREM RunningVolumeHolds ==
    ASSUME DeleteVolumes, PromptCollector, "devenv" \notin Lagging, "pods" \notin Lagging
    PROVE  OperatorSpec /\ [](Calm /\ Kept) => [](NewNamespaceResetsStatus /\ RunningMeansReady)
<1>1. OperatorInv /\ Space!UsesFilled => NewNamespaceResetsStatus /\ RunningMeansReady
  <2> SUFFICES ASSUME OperatorInv, Space!UsesFilled, Stored.exists,
                      Stored.build = BuildPhaseRunning
               PROVE  volume \in {"none", "ready"}
    BY DEF NewNamespaceResetsStatus, RunningMeansReady
  <2> QED
    BY DEF Space!UsesFilled, BuildPhaseRunning
<1> QED
  BY <1>1, OperatorImplementsWorkspace, WorkspaceUsesFilled, OperatorInvariance, PTL
     DEF ImplementsWorkspace

=============================================================================
