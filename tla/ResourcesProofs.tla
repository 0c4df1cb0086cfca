--------------------------- MODULE ResourcesProofs ---------------------------
(***************************************************************************)
(* Proofs about Resources.tla for all DevEnvs, kinds and budgets: types,   *)
(* that no DevEnv's object is ever owned by another, and that a proxy's    *)
(* secret is that of the owner's client although the reconciler keeps it   *)
(* in a field of its own.  Both rest on KeysApart of NamingProofs.  From   *)
(* them follow ProxyLogsIn, by way of what owns an object, and             *)
(* RoutesAreCurrent and EndpointsHaveAddress, by way of how far the worker *)
(* has got.                                                                *)
(***************************************************************************)
EXTENDS Resources, NamingProofs

-----------------------------------------------------------------------------
(* Keys and kinds.                                                         *)

\* The kinds of an instance are kinds of Reconcile, and Steps consists of them.
LEMMA KindsType ==
    /\ Kinds \subseteq AllKinds
    /\ Steps \in Seq(Kinds) /\ Steps # <<>>
<1>1. Steps \in Seq(AllKinds \ {"build", "init"})
    BY ResourcesAssumption
<1>2. /\ Len(Steps) \in Nat /\ DOMAIN Steps = 1 .. Len(Steps)
      /\ Steps \in [1 .. Len(Steps) -> AllKinds \ {"build", "init"}]
    BY <1>1, LenProperties
<1>3. Kinds \subseteq AllKinds
    BY <1>2 DEF Kinds
<1>4. Steps \in [1 .. Len(Steps) -> Kinds]
    BY <1>2 DEF Kinds
<1>5. Steps # <<>>
    <2>1. "ide" \in Kinds BY ResourcesAssumption
    <2>2. PICK i \in DOMAIN Steps : Steps[i] = "ide" BY <2>1 DEF Kinds
    <2> QED BY <1>2, <2>2
<1> QED BY <1>2, <1>3, <1>4, <1>5

\* Every object has one key, and no other object has it.
LEMMA KeyApart ==
    ASSUME NEW k \in Kinds, NEW l \in Kinds, NEW d \in DevEnvs, NEW e \in DevEnvs
    PROVE  /\ key[k][d] \in Keys
           /\ key[k][d] = key[l][e] => k = l /\ d = e
<1>1. key[k][d] = Key(k, d) /\ key[l][e] = Key(l, e)
    BY DEF key
<1>2. key[k][d] \in Keys
    BY DEF Keys
<1>3. /\ k \in AllKinds /\ l \in AllKinds
      /\ d \in DevEnvNames /\ e \in DevEnvNames
      /\ ~Clash(d, e) /\ ~Clash(e, d)
    BY KindsType, ResourcesAssumption
<1> QED BY <1>1, <1>2, <1>3, KeysApart

\* What Changes does to the objects, one by one.
LEMMA ChangesOne ==
    ASSUME TypeOK, NEW kind \in Kinds, NEW d \in DevEnvs, NEW new \in Object,
           NEW called \in SUBSET DevEnvs, Changes(kind, d, new, called)
    PROVE  /\ objects' \in [Keys -> Object]
           /\ seen' \in [Keys -> Object]
           /\ queue' \subseteq DevEnvs
           /\ \A k \in Kinds, e \in DevEnvs :
                  objects'[key[k][e]] = IF k = kind /\ e = d THEN new ELSE objects[key[k][e]]
<1>1. key[kind][d] \in Keys
    BY KeyApart
<1>2. objects' = [objects EXCEPT ![key[kind][d]] = new]
    BY DEF Changes
<1>3. objects' \in [Keys -> Object] /\ seen' \in [Keys -> Object]
    BY <1>1, <1>2 DEF Changes, TypeOK
<1>4. \A o \in Object : Owners(o) \subseteq DevEnvs
    BY DEF Owners, Object
<1>5. queue' \subseteq DevEnvs
    <2>1. objects[key[kind][d]] \in Object BY <1>1 DEF TypeOK
    <2> QED BY <1>4, <2>1 DEF Changes, TypeOK
<1>6. \A k \in Kinds, e \in DevEnvs :
          objects'[key[k][e]] = IF k = kind /\ e = d THEN new ELSE objects[key[k][e]]
    <2> TAKE k \in Kinds, e \in DevEnvs
    <2>1. key[k][e] \in Keys /\ (key[k][e] = key[kind][d] => k = kind /\ e = d)
        BY KeyApart
    <2> QED BY <1>1, <1>2, <2>1 DEF TypeOK
<1> QED BY <1>3, <1>5, <1>6

\* The constructors make objects.
LEMMA NewType ==
    ASSUME TypeOK, current # NoOne, NEW kind \in Kinds
    PROVE  /\ New(kind) \in Object
           /\ New(kind).owner \in {current, NoOne}
           /\ New(kind).there
           /\ kind = "proxySecret" => /\ New(kind).uid = uid[current]
                                      /\ New(kind).val = oauthClientSecret
<1>1. current \in DevEnvs /\ uid[current] \in Nat /\ oauthClientSecret \in Nat /\ DevEnvPodIP \in Nat
    BY DEF TypeOK
<1> QED BY <1>1 DEF New, Object, HasOwner

\* Between two steps of a reconcile there is a next one.
LEMMA Busy ==
    ASSUME TypeOK, current # NoOne
    PROVE  /\ current \in DevEnvs
           /\ Head(todo) \in Kinds /\ Tail(todo) \in Seq(Kinds)
<1>1. todo \in Seq(Kinds) /\ todo # <<>> /\ current \in DevEnvs
    BY DEF TypeOK
<1> QED BY <1>1, HeadTailProperties

\* Advance and Return keep the worker's variables in step.
LEMMA WorkerType ==
    ASSUME TypeOK, current # NoOne, Advance \/ Return
    PROVE  /\ current' \in DevEnvs \cup {NoOne}
           /\ todo' \in Seq(Kinds)
           /\ current' = NoOne <=> todo' = <<>>
           /\ current' \in {current, NoOne}
<1>1. current \in DevEnvs /\ Tail(todo) \in Seq(Kinds)
    BY Busy
<1>2. CASE Advance BY <1>1, <1>2 DEF Advance
<1>3. CASE Return
    <2>1. <<>> \in Seq(Kinds) BY EmptySeq
    <2> QED BY <1>3, <2>1 DEF Return
<1> QED BY <1>2, <1>3

-----------------------------------------------------------------------------
(* Types.                                                                  *)

\* Spending leaves a budget.
LEMMA SpendType ==
    ASSUME TypeOK, NEW what \in Disturbances, Spend(what)
    PROVE  budget' \in [Disturbances -> Nat]
BY DEF Spend, TypeOK

LEMMA InitType == Init => TypeOK
<1> SUFFICES ASSUME Init PROVE TypeOK
    OBVIOUS
<1>1. Nothing \in Object /\ <<>> \in Seq(Kinds)
    BY EmptySeq DEF Nothing, Object
<1>2. objects \in [Keys -> Object] /\ seen \in [Keys -> Object]
    BY <1>1 DEF Init
<1> QED BY <1>1, <1>2, ResourcesAssumption DEF Init, TypeOK

\* Each step of Reconcile keeps the types.
LEMMA StepType ==
    ASSUME TypeOK, Step
    PROVE  TypeOK'
<1>1. current # NoOne /\ current \in DevEnvs /\ Head(todo) \in Kinds
    BY Busy DEF Step
<1> DEFINE kind == Head(todo)
<1>2. ASSUME Advance \/ Return
      PROVE  /\ current' \in DevEnvs \cup {NoOne} /\ todo' \in Seq(Kinds)
             /\ current' = NoOne <=> todo' = <<>>
    BY <1>1, <1>2, WorkerType
<1>3. {current} \in SUBSET DevEnvs /\ {} \in SUBSET DevEnvs
    BY <1>1
<1>4. CASE Found(kind)
    BY <1>2, <1>4 DEF Found, TypeOK, fields
<1>5. CASE Creates(kind)
    <2>1. New(kind) \in Object BY <1>1, NewType
    <2>2. PICK called \in SUBSET DevEnvs : Changes(kind, current, New(kind), called)
        BY <1>3, <1>5 DEF Creates
    <2>3. /\ objects' \in [Keys -> Object] /\ seen' \in [Keys -> Object]
          /\ queue' \subseteq DevEnvs
        BY <1>1, <2>1, <2>2, ChangesOne
    <2>4. Advance \/ Return BY <1>5 DEF Creates
    <2> QED BY <1>2, <1>5, <2>3, <2>4 DEF Creates, TypeOK, fields
<1>6. CASE CreateFails(kind)
    <2>1. New(kind) \in Object BY <1>1, NewType
    <2>2. budget' \in [Disturbances -> Nat]
        BY <1>6, SpendType DEF CreateFails, TypeOK, Disturbances
    <2>3. /\ objects' \in [Keys -> Object] /\ seen' \in [Keys -> Object]
          /\ queue' \subseteq DevEnvs
        <3>1. CASE Changes(kind, current, New(kind), {current})
            BY <1>1, <1>3, <2>1, <3>1, ChangesOne
        <3>2. CASE queue' = queue \cup {current} /\ UNCHANGED <<objects, seen>>
            BY <1>1, <3>2 DEF TypeOK
        <3> QED BY <1>6, <3>1, <3>2 DEF CreateFails
    <2> QED BY <1>2, <1>6, <2>2, <2>3 DEF CreateFails, TypeOK, fields
<1>7. CASE kind = "ide" /\ IdeFound
    <2>1. View("ide") \in Object
        BY <1>1, <1>7, KeyApart DEF View, TypeOK
    <2>2. DevEnvPodIP' \in Nat BY <1>7, <2>1 DEF IdeFound, Object
    <2>3. Advance \/ Return BY <1>7 DEF IdeFound
    <2>4. queue' \subseteq DevEnvs BY <1>1, <1>7 DEF IdeFound, TypeOK
    <2> QED BY <1>2, <1>7, <2>2, <2>3, <2>4 DEF IdeFound, TypeOK
<1>8. CASE kind = "endpoints" /\ EndpointsFound
    <2>1. New("endpoints") \in Object BY <1>1, <1>8, NewType
    <2>2. budget' \in [Disturbances -> Nat]
        BY <1>8, SpendType DEF EndpointsFound, TypeOK, Disturbances
    <2>3. /\ objects' \in [Keys -> Object] /\ seen' \in [Keys -> Object]
          /\ queue' \subseteq DevEnvs
        <3>1. CASE Changes("endpoints", current, New("endpoints"), {})
            BY <1>1, <1>3, <1>8, <2>1, <3>1, ChangesOne
        <3>2. CASE UNCHANGED <<objects, seen, queue>>
            BY <3>2 DEF TypeOK
        <3> QED BY <1>8, <3>1, <3>2 DEF EndpointsFound
    <2> QED BY <1>2, <1>8, <2>2, <2>3 DEF EndpointsFound, TypeOK, fields
<1> QED BY <1>4, <1>5, <1>6, <1>7, <1>8 DEF Step

\* So does every step of the others.
LEMMA OthersType ==
    ASSUME TypeOK, NEW d \in DevEnvs,
           \/ Starts(d) \/ StartFails(d) \/ UserCreates(d) \/ Leaves(d) \/ OtherEvent(d)
    PROVE  TypeOK'
<1>1. CASE Starts(d)
    <2>1. d # NoOne BY ResourcesAssumption DEF NoOne
    <2>2. CASE uid[d] = 0
        BY <1>1, <2>2 DEF Starts, TypeOK, worker, fields
    <2>3. CASE uid[d] # 0
        <3>1. /\ uid' = uid /\ objects' = objects /\ seen' = seen
              /\ overlap' = overlap /\ budget' = budget
              /\ current' = d /\ todo' = Steps /\ queue' = queue \ {d}
              /\ oauthClientSecret' = uid[d] /\ DevEnvPodIP' = DevEnvPodIP
            BY <1>1, <2>3 DEF Starts
        <3>2. todo' \in Seq(Kinds) /\ todo' # <<>>
            BY <3>1, KindsType
        <3>3. current' # NoOne BY <2>1, <3>1
        <3>4. uid[d] \in Nat BY DEF TypeOK
        <3>5. queue' \subseteq DevEnvs BY <3>1 DEF TypeOK
        <3> QED BY <3>1, <3>2, <3>3, <3>4, <3>5 DEF TypeOK
    <2> QED BY <2>2, <2>3
<1>2. CASE StartFails(d)
    BY <1>2, SpendType DEF StartFails, TypeOK, Disturbances
<1>3. CASE UserCreates(d)
    <2>1. budget["create"] \in Nat BY DEF TypeOK, Disturbances
    <2> QED BY <1>3, <2>1, SpendType DEF UserCreates, TypeOK, worker, fields, Disturbances
<1>4. CASE Leaves(d)
    BY <1>4, SpendType DEF Leaves, TypeOK, worker, fields, Disturbances
<1>5. CASE OtherEvent(d)
    BY <1>5, SpendType DEF OtherEvent, TypeOK, worker, fields, Disturbances
<1> QED BY <1>1, <1>2, <1>3, <1>4, <1>5

LEMMA CrashType ==
    ASSUME TypeOK, Crash
    PROVE  TypeOK'
<1>1. <<>> \in Seq(Kinds) BY EmptySeq
<1> QED BY <1>1, SpendType DEF Crash, TypeOK, Disturbances

LEMMA EventType ==
    ASSUME TypeOK, NEW k \in Keys, Event(k)
    PROVE  TypeOK'
<1>1. objects[k] \in Object /\ seen[k] \in Object
    BY DEF TypeOK
<1>2. \A o \in Object : Owners(o) \subseteq DevEnvs
    BY DEF Owners, Object
<1> QED BY <1>1, <1>2 DEF Event, TypeOK, worker, fields

-----------------------------------------------------------------------------
(* What kubelet and the garbage collector do to an object.                 *)

Elsewhere ==
    \/ Kubelet \/ Collector
    \/ \E kind \in Kinds, d \in DevEnvs : PodLost(kind, d)

\* An object that is there goes, or one that is orphaned.
Removed(kind, d, new) ==
    /\ new = Nothing
    /\ \/ Orphan(kind, d)
       \/ kind \in {"ide", "proxyPod"} /\ objects[key[kind][d]].there

\* A pod starts, the proxy's with what the secret says.
Started(kind, d, new) ==
    /\ kind \in {"ide", "proxyPod"} /\ objects[key[kind][d]].there
    /\ \E v \in Nat :
           /\ new = [objects[key[kind][d]] EXCEPT !.val = v]
           /\ kind = "proxyPod" => /\ objects[key["proxySecret"][d]].there
                                  /\ v = objects[key["proxySecret"][d]].val

LEMMA ElsewhereChanges ==
    ASSUME TypeOK, Elsewhere
    PROVE  /\ \E kind \in Kinds, d \in DevEnvs, new \in Object :
                  /\ Changes(kind, d, new, {})
                  /\ Removed(kind, d, new) \/ Started(kind, d, new)
           /\ budget' \in [Disturbances -> Nat] /\ budget'["update"] = budget["update"]
           /\ UNCHANGED <<uid, worker, overlap>>
<1>0. {"ide", "endpoints", "proxyPod", "proxySecret"} \subseteq Kinds
    BY ResourcesAssumption
<1>1. Nothing \in Object
    BY DEF Nothing, Object
<1>2. ASSUME NEW kind \in Kinds, NEW d \in DevEnvs
      PROVE  objects[key[kind][d]] \in Object
    BY KeyApart DEF TypeOK
<1>3. ASSUME NEW kind \in Kinds, NEW d \in DevEnvs, Collect(kind, d)
      PROVE  /\ Changes(kind, d, Nothing, {}) /\ Removed(kind, d, Nothing)
             /\ budget' \in [Disturbances -> Nat] /\ budget' = budget
             /\ UNCHANGED <<uid, worker, overlap>>
    BY <1>3 DEF Collect, Removed, TypeOK
<1>4. ASSUME NEW kind \in Kinds, NEW d \in DevEnvs, PodLost(kind, d)
      PROVE  /\ Changes(kind, d, Nothing, {}) /\ Removed(kind, d, Nothing)
             /\ budget' \in [Disturbances -> Nat] /\ budget'["update"] = budget["update"]
             /\ UNCHANGED <<uid, worker, overlap>>
    <2>1. Spend("podloss") BY <1>4 DEF PodLost
    <2>2. budget' \in [Disturbances -> Nat] BY <2>1, SpendType DEF Disturbances
    <2>3. budget'["update"] = budget["update"] BY <2>1 DEF Spend, TypeOK, Disturbances
    <2> QED BY <1>4, <2>2, <2>3 DEF PodLost, Removed
<1>5. ASSUME NEW d \in DevEnvs, IdeGetsAddress(d)
      PROVE  /\ \E new \in Object : Changes("ide", d, new, {}) /\ Started("ide", d, new)
             /\ budget' \in [Disturbances -> Nat] /\ budget' = budget
             /\ UNCHANGED <<uid, worker, overlap>>
    <2>1. PICK ip \in Addresses :
              Changes("ide", d, [objects[key["ide"][d]] EXCEPT !.val = ip], {})
        BY <1>5 DEF IdeGetsAddress
    <2>2. objects[key["ide"][d]] \in Object BY <1>0, <1>2
    <2>3. ip \in Nat BY ResourcesAssumption
    <2> DEFINE new == [objects[key["ide"][d]] EXCEPT !.val = ip]
    <2>4. new \in Object BY <2>2, <2>3 DEF Object
    <2>5. Started("ide", d, new) BY <1>5, <2>3 DEF Started, IdeGetsAddress
    <2> QED BY <1>5, <2>1, <2>4, <2>5 DEF IdeGetsAddress, TypeOK
<1>6. ASSUME NEW d \in DevEnvs, ProxyStarts(d)
      PROVE  /\ \E new \in Object : Changes("proxyPod", d, new, {}) /\ Started("proxyPod", d, new)
             /\ budget' \in [Disturbances -> Nat] /\ budget' = budget
             /\ UNCHANGED <<uid, worker, overlap>>
    <2> DEFINE secret == objects[key["proxySecret"][d]]
               new == [objects[key["proxyPod"][d]] EXCEPT !.val = secret.val]
    <2>1. objects[key["proxyPod"][d]] \in Object /\ secret \in Object BY <1>0, <1>2
    <2>2. new \in Object /\ secret.val \in Nat
        BY <2>1 DEF Object
    <2>3. Changes("proxyPod", d, new, {}) BY <1>6 DEF ProxyStarts
    <2>4. Started("proxyPod", d, new) BY <1>6, <2>2 DEF Started, ProxyStarts
    <2> QED BY <1>6, <2>2, <2>3, <2>4 DEF ProxyStarts, TypeOK
<1>7. CASE Kubelet
    BY <1>0, <1>5, <1>6, <1>7 DEF Kubelet
<1>8. CASE Collector \/ \E kind \in Kinds, d \in DevEnvs : PodLost(kind, d)
    BY <1>1, <1>3, <1>4, <1>8 DEF Collector
<1> QED BY <1>7, <1>8 DEF Elsewhere

LEMMA ElsewhereType ==
    ASSUME TypeOK, Elsewhere
    PROVE  TypeOK'
<1>1. PICK kind \in Kinds, d \in DevEnvs, new \in Object : Changes(kind, d, new, {})
    BY ElsewhereChanges
<1>2. /\ objects' \in [Keys -> Object] /\ seen' \in [Keys -> Object]
      /\ queue' \subseteq DevEnvs
    <2>1. {} \in SUBSET DevEnvs OBVIOUS
    <2> QED BY <1>1, <2>1, ChangesOne
<1> QED BY <1>2, ElsewhereChanges DEF TypeOK, worker, fields

\* The disjuncts of Next, as the lemmas have them.
LEMMA NextSplit ==
    ASSUME Next
    PROVE  \/ Step \/ Crash \/ Elsewhere
           \/ \E k \in Keys : Event(k)
           \/ \E d \in DevEnvs : \/ Starts(d) \/ StartFails(d) \/ UserCreates(d)
                                 \/ Leaves(d) \/ OtherEvent(d)
BY DEF Next, Elsewhere

LEMMA NextType == TypeOK /\ [Next]_vars => TypeOK'
<1> SUFFICES ASSUME TypeOK, [Next]_vars PROVE TypeOK'
    OBVIOUS
<1>1. CASE UNCHANGED vars
    BY <1>1 DEF vars, TypeOK, worker, fields
<1>2. CASE Next
    BY <1>2, NextSplit, StepType, CrashType, ElsewhereType, EventType, OthersType
<1> QED BY <1>1, <1>2

\* Every variable of Resources keeps its type, and the worker is idle exactly
\* when it has no step left.
THEOREM ResourcesTypeCorrect == Spec => []TypeOK
<1> QED BY InitType, NextType, PTL DEF Spec

-----------------------------------------------------------------------------
(* Owners and secrets.                                                     *)

\* While the worker is on a DevEnv, that DevEnv exists and the field of the
\* reconciler holds its secret.
FieldIsCurrent ==
    current # NoOne => uid[current] # 0 /\ oauthClientSecret = uid[current]

IInv == TypeOK /\ FieldIsCurrent /\ OwnObjects /\ OwnSecret

LEMMA InitIInv == Init => IInv
<1> SUFFICES ASSUME Init PROVE IInv
    OBVIOUS
<1>1. TypeOK BY InitType
<1>2. \A k \in Kinds, d \in DevEnvs : objects[key[k][d]] = Nothing
    BY KeyApart DEF Init
<1>3. "proxySecret" \in Kinds BY ResourcesAssumption
<1>4. OwnObjects BY <1>2 DEF OwnObjects, Nothing
<1>5. OwnSecret BY <1>2, <1>3 DEF OwnSecret, Nothing
<1>6. FieldIsCurrent BY DEF Init, FieldIsCurrent
<1> QED BY <1>1, <1>4, <1>5, <1>6 DEF IInv

\* A change keeps both invariants if what it writes does.
LEMMA ChangeIsOwn ==
    ASSUME TypeOK, OwnObjects, OwnSecret,
           NEW kind \in Kinds, NEW d \in DevEnvs, NEW new \in Object,
           NEW called \in SUBSET DevEnvs, Changes(kind, d, new, called),
           new.owner \in {d, NoOne, objects[key[kind][d]].owner},
           kind = "proxySecret" /\ new.there => new.val = new.uid
    PROVE  OwnObjects' /\ OwnSecret'
<1>1. \A k \in Kinds, e \in DevEnvs :
          objects'[key[k][e]] = IF k = kind /\ e = d THEN new ELSE objects[key[k][e]]
    BY ChangesOne
<1>2. "proxySecret" \in Kinds BY ResourcesAssumption
<1>3. OwnObjects'
    BY <1>1 DEF OwnObjects
<1>4. OwnSecret'
    BY <1>1, <1>2 DEF OwnSecret
<1> QED BY <1>3, <1>4

LEMMA StepIsOwn ==
    ASSUME IInv, Step
    PROVE  FieldIsCurrent' /\ OwnObjects' /\ OwnSecret'
<1>1. /\ TypeOK /\ current # NoOne /\ current \in DevEnvs /\ Head(todo) \in Kinds
      /\ {current} \in SUBSET DevEnvs /\ {} \in SUBSET DevEnvs
    BY Busy DEF Step, IInv
<1> DEFINE kind == Head(todo)
<1>2. /\ New(kind) \in Object
      /\ New(kind).owner \in {current, NoOne}
      /\ kind = "proxySecret" => New(kind).val = New(kind).uid
    <2>1. oauthClientSecret = uid[current] BY <1>1 DEF IInv, FieldIsCurrent
    <2> QED BY <1>1, <2>1, NewType
<1>3. FieldIsCurrent'
    <2>1. current' \in {current, NoOne} /\ UNCHANGED <<uid, oauthClientSecret>>
        BY DEF Step, Found, Creates, CreateFails, IdeFound, EndpointsFound, Advance, Return, fields
    <2> QED BY <2>1 DEF IInv, FieldIsCurrent
<1>4. \/ UNCHANGED objects
      \/ \E called \in SUBSET DevEnvs : Changes(kind, current, New(kind), called)
    BY <1>1 DEF Step, Found, Creates, CreateFails, IdeFound, EndpointsFound
<1>5. CASE UNCHANGED objects
    BY <1>3, <1>5 DEF IInv, OwnObjects, OwnSecret
<1>6. CASE \E called \in SUBSET DevEnvs : Changes(kind, current, New(kind), called)
    BY <1>1, <1>2, <1>3, <1>6, ChangeIsOwn DEF IInv
<1> QED BY <1>4, <1>5, <1>6

LEMMA ElsewhereIsOwn ==
    ASSUME IInv, Elsewhere
    PROVE  FieldIsCurrent' /\ OwnObjects' /\ OwnSecret'
<1>1. PICK kind \in Kinds, d \in DevEnvs, new \in Object :
          /\ Changes(kind, d, new, {})
          /\ Removed(kind, d, new) \/ Started(kind, d, new)
    BY ElsewhereChanges DEF IInv
<1>2. {} \in SUBSET DevEnvs OBVIOUS
<1>3. /\ new.owner \in {NoOne, objects[key[kind][d]].owner}
      /\ kind = "proxySecret" => ~new.there
    <2>1. objects[key[kind][d]] \in Object BY KeyApart DEF IInv, TypeOK
    <2> QED BY <1>1, <2>1 DEF Removed, Started, Nothing, Object
<1>5. OwnObjects' /\ OwnSecret'
    BY <1>1, <1>2, <1>3, ChangeIsOwn DEF IInv
<1>4. UNCHANGED <<uid, worker>>
    BY ElsewhereChanges DEF IInv
<1> QED BY <1>4, <1>5 DEF IInv, FieldIsCurrent, worker, fields

LEMMA NextIInv == IInv /\ [Next]_vars => IInv'
<1> SUFFICES ASSUME IInv, [Next]_vars PROVE IInv'
    OBVIOUS
<1>1. TypeOK' BY NextType DEF IInv
<1>2. CASE UNCHANGED vars
    BY <1>1, <1>2 DEF IInv, FieldIsCurrent, OwnObjects, OwnSecret, vars, worker, fields
<1>3. CASE Step
    BY <1>1, <1>3, StepIsOwn DEF IInv
<1>4. CASE Crash
    BY <1>1, <1>4 DEF Crash, IInv, FieldIsCurrent, OwnObjects, OwnSecret
<1>5. CASE Elsewhere
    BY <1>1, <1>5, ElsewhereIsOwn DEF IInv
<1>6. CASE \E k \in Keys : Event(k)
    BY <1>1, <1>6 DEF Event, IInv, FieldIsCurrent, OwnObjects, OwnSecret, worker, fields
<1>7. ASSUME NEW d \in DevEnvs,
             \/ Starts(d) \/ StartFails(d) \/ UserCreates(d) \/ Leaves(d) \/ OtherEvent(d)
      PROVE  IInv'
    <2>1. OwnObjects' /\ OwnSecret'
        BY <1>7 DEF Starts, StartFails, UserCreates, Leaves, OtherEvent,
                    IInv, OwnObjects, OwnSecret
    <2>2. FieldIsCurrent'
        <3>1. CASE Starts(d)
            BY <3>1 DEF Starts, IInv, FieldIsCurrent, worker, fields
        <3>2. CASE StartFails(d) \/ Leaves(d)
            BY <3>2 DEF StartFails, Leaves, FieldIsCurrent, worker, fields
        <3>3. CASE UserCreates(d)
            BY <3>3 DEF UserCreates, IInv, TypeOK, FieldIsCurrent, worker, fields
        <3>4. CASE OtherEvent(d)
            BY <3>4 DEF OtherEvent, IInv, FieldIsCurrent, worker, fields
        <3> QED BY <1>7, <3>1, <3>2, <3>3, <3>4
    <2> QED BY <1>1, <2>1, <2>2 DEF IInv
<1> QED BY <1>2, <1>3, <1>4, <1>5, <1>6, <1>7, NextSplit

LEMMA IInvHolds == Spec => []IInv
BY InitIInv, NextIInv, PTL DEF Spec

\* No object under a name of one DevEnv is ever owned by another one, for all
\* names of which none is another's proxy, and with any subdomain.
THEOREM OwnObjectsHolds == Spec => []OwnObjects
<1>1. IInv => OwnObjects BY DEF IInv
<1> QED BY <1>1, IInvHolds, PTL

\* The secret that a proxy is given belongs to the client of the DevEnv that
\* owns it, in every interleaving of the DevEnvs that share the reconciler.
THEOREM OwnSecretHolds == Spec => []OwnSecret
<1>1. IInv => OwnSecret BY DEF IInv
<1> QED BY <1>1, IInvHolds, PTL

-----------------------------------------------------------------------------
(* What is there has the owner that its kind calls for, and a DevEnv that   *)
(* found nothing of a predecessor has only objects of its own.             *)

Shape(o, kind, d) ==
    /\ ~o.there => o = Nothing
    /\ o.there => IF HasOwner(kind) THEN o.owner = d /\ o.uid # 0 ELSE o.owner = NoOne

Shaped ==
    \A kind \in Kinds, d \in DevEnvs :
        /\ Shape(objects[key[kind][d]], kind, d)
        /\ Shape(seen[key[kind][d]], kind, d)

Unmixed(d) ==
    uid[d] # 0 /\ ~overlap[d] =>
        /\ \A kind \in Kinds :
               HasOwner(kind) /\ objects[key[kind][d]].there
                   => objects[key[kind][d]].uid = uid[d]
        /\ objects[key["proxyPod"][d]].val \in {0, uid[d]}

KInv == IInv /\ Shaped /\ \A d \in DevEnvs : Unmixed(d)

\* The kinds that the properties name always have an owner.
LEMMA NamedKinds ==
    \A kind \in {"ide", "endpoints", "proxyPod", "proxySecret"} : kind \in Kinds /\ HasOwner(kind)
BY ResourcesAssumption DEF HasOwner

\* What Changes does to the cache and the queue.
LEMMA ChangesSeen ==
    ASSUME TypeOK, NEW kind \in Kinds, NEW d \in DevEnvs, NEW new \in Object,
           NEW called \in SUBSET DevEnvs, Changes(kind, d, new, called)
    PROVE  /\ queue \cup called \subseteq queue'
           /\ kind \notin Lagging =>
                  Owners(objects[key[kind][d]]) \cup Owners(new) \subseteq queue'
           /\ \A k \in Kinds, e \in DevEnvs :
                  seen'[key[k][e]] = IF k = kind /\ e = d /\ kind \notin Lagging
                                     THEN new ELSE seen[key[k][e]]
<1>1. /\ queue \cup called \subseteq queue'
      /\ kind \notin Lagging =>
             Owners(objects[key[kind][d]]) \cup Owners(new) \subseteq queue'
    BY DEF Changes
<1>2. ASSUME NEW k \in Kinds, NEW e \in DevEnvs
      PROVE  seen'[key[k][e]] = IF k = kind /\ e = d /\ kind \notin Lagging
                                THEN new ELSE seen[key[k][e]]
    <2>1. /\ key[k][e] \in Keys /\ key[kind][d] \in Keys
          /\ key[k][e] = key[kind][d] => k = kind /\ e = d
        BY KeyApart
    <2>2. seen \in [Keys -> Object] BY DEF TypeOK
    <2>3. CASE kind \in Lagging BY <2>3 DEF Changes
    <2>4. CASE kind \notin Lagging
        <3>1. seen' = [seen EXCEPT ![key[kind][d]] = new] BY <2>4 DEF Changes
        <3> QED BY <2>1, <2>2, <2>4, <3>1
    <2> QED BY <2>3, <2>4
<1> QED BY <1>1, <1>2

\* What a step of Reconcile does to the objects.
LEMMA StepChanges ==
    ASSUME IInv, Step
    PROVE  /\ current \in DevEnvs /\ current # NoOne /\ Head(todo) \in Kinds
           /\ UNCHANGED <<uid, overlap>>
           /\ Shape(New(Head(todo)), Head(todo), current) /\ New(Head(todo)) \in Object
           /\ \/ UNCHANGED <<objects, seen>>
              \/ \E called \in SUBSET DevEnvs :
                     Changes(Head(todo), current, New(Head(todo)), called)
<1>1. /\ TypeOK /\ current # NoOne /\ current \in DevEnvs /\ Head(todo) \in Kinds
      /\ {current} \in SUBSET DevEnvs /\ {} \in SUBSET DevEnvs
    BY Busy DEF Step, IInv
<1>2. New(Head(todo)) \in Object
    BY <1>1, NewType
<1>3. Shape(New(Head(todo)), Head(todo), current)
    BY <1>1 DEF Shape, New, IInv, FieldIsCurrent
<1>4. UNCHANGED <<uid, overlap>>
    BY DEF Step, Found, Creates, CreateFails, IdeFound, EndpointsFound
<1>5. \/ UNCHANGED <<objects, seen>>
      \/ \E called \in SUBSET DevEnvs :
             Changes(Head(todo), current, New(Head(todo)), called)
    BY <1>1 DEF Step, Found, Creates, CreateFails, IdeFound, EndpointsFound
<1> QED BY <1>1, <1>2, <1>3, <1>4, <1>5

\* A change keeps the shape if what it writes has it.
LEMMA ChangeIsShaped ==
    ASSUME TypeOK, Shaped, NEW kind \in Kinds, NEW d \in DevEnvs, NEW new \in Object,
           NEW called \in SUBSET DevEnvs, Changes(kind, d, new, called), Shape(new, kind, d)
    PROVE  Shaped'
<1>1. \A k \in Kinds, e \in DevEnvs :
          /\ objects'[key[k][e]] = IF k = kind /\ e = d THEN new ELSE objects[key[k][e]]
          /\ seen'[key[k][e]] \in {new, seen[key[k][e]]}
          /\ seen'[key[k][e]] # seen[key[k][e]] => k = kind /\ e = d
    BY ChangesOne, ChangesSeen
<1> SUFFICES ASSUME NEW k \in Kinds, NEW e \in DevEnvs
             PROVE  Shape(objects'[key[k][e]], k, e) /\ Shape(seen'[key[k][e]], k, e)
    BY DEF Shaped
<1>2. Shape(objects[key[k][e]], k, e) /\ Shape(seen[key[k][e]], k, e)
    BY DEF Shaped
<1>3. Shape(objects'[key[k][e]], k, e)
    BY <1>1, <1>2
<1>4. Shape(seen'[key[k][e]], k, e)
    BY <1>1, <1>2
<1> QED BY <1>3, <1>4

\* What is removed or started has the shape that it had.
LEMMA ElsewhereShape ==
    ASSUME TypeOK, Shaped, NEW kind \in Kinds, NEW d \in DevEnvs, NEW new \in Object,
           Removed(kind, d, new) \/ Started(kind, d, new)
    PROVE  Shape(new, kind, d)
<1>1. objects[key[kind][d]] \in Object
    BY KeyApart DEF TypeOK
<1>2. Shape(objects[key[kind][d]], kind, d)
    BY DEF Shaped
<1>3. CASE Removed(kind, d, new)
    BY <1>3 DEF Removed, Nothing, Shape
<1>4. CASE Started(kind, d, new)
    BY <1>1, <1>2, <1>4 DEF Started, Shape, Object
<1> QED BY <1>3, <1>4

\* The cache is filled with what the API server has.
LEMMA EventSeen ==
    ASSUME TypeOK, NEW l \in Keys, Event(l), NEW kind \in Kinds, NEW d \in DevEnvs
    PROVE  /\ objects'[key[kind][d]] = objects[key[kind][d]]
           /\ seen'[key[kind][d]] = IF l = key[kind][d] THEN objects[l] ELSE seen[key[kind][d]]
<1>1. key[kind][d] \in Keys BY KeyApart
<1> QED BY <1>1 DEF Event, TypeOK

LEMMA NextShaped == IInv /\ Shaped /\ [Next]_vars => Shaped'
<1> SUFFICES ASSUME IInv, Shaped, [Next]_vars PROVE Shaped'
    OBVIOUS
<1> USE DEF IInv
<1>1. CASE UNCHANGED <<objects, seen>>
    BY <1>1 DEF Shaped
<1>2. CASE Step
    BY <1>1, <1>2, StepChanges, ChangeIsShaped
<1>3. CASE Crash
    BY <1>3 DEF Crash, Shaped
<1>4. CASE Elsewhere
    <2>1. PICK kind \in Kinds, d \in DevEnvs, new \in Object :
              /\ Changes(kind, d, new, {})
              /\ Removed(kind, d, new) \/ Started(kind, d, new)
        BY <1>4, ElsewhereChanges
    <2>2. {} \in SUBSET DevEnvs OBVIOUS
    <2> QED BY <2>1, <2>2, ElsewhereShape, ChangeIsShaped
<1>5. CASE \E k \in Keys : Event(k)
    <2>1. \A kind \in Kinds, d \in DevEnvs :
              /\ objects'[key[kind][d]] = objects[key[kind][d]]
              /\ seen'[key[kind][d]] \in {objects[key[kind][d]], seen[key[kind][d]]}
        BY <1>5, EventSeen
    <2> QED BY <2>1 DEF Shaped
<1>6. ASSUME NEW d \in DevEnvs,
             \/ Starts(d) \/ StartFails(d) \/ UserCreates(d) \/ Leaves(d) \/ OtherEvent(d)
      PROVE  UNCHANGED <<objects, seen>>
    BY <1>6 DEF Starts, StartFails, UserCreates, Leaves, OtherEvent
<1>7. CASE UNCHANGED vars
    BY <1>1, <1>7 DEF vars
<1> QED BY <1>1, <1>2, <1>3, <1>4, <1>5, <1>6, <1>7, NextSplit

\* When what is written to an object of a DevEnv is its own, nothing is mixed.
LEMMA ChangeIsUnmixed ==
    ASSUME TypeOK, NEW e \in DevEnvs, Unmixed(e), UNCHANGED <<uid, overlap>>,
           NEW kind \in Kinds, NEW d \in DevEnvs, NEW new \in Object,
           NEW called \in SUBSET DevEnvs, Changes(kind, d, new, called),
           d = e /\ uid[d] # 0 /\ ~overlap[d]
               => /\ HasOwner(kind) /\ new.there => new.uid = uid[d]
                  /\ kind = "proxyPod" => new.val \in {0, uid[d]}
    PROVE  Unmixed(e)'
<1>1. \A k \in Kinds :
          objects'[key[k][e]] = IF k = kind /\ e = d THEN new ELSE objects[key[k][e]]
    BY ChangesOne
<1>2. "proxyPod" \in Kinds
    BY NamedKinds
<1> QED BY <1>1, <1>2 DEF Unmixed

LEMMA NextUnmixed ==
    ASSUME KInv, [Next]_vars, NEW e \in DevEnvs
    PROVE  Unmixed(e)'
<1> USE DEF KInv, IInv
<1>0. Unmixed(e) OBVIOUS
<1>1. CASE UNCHANGED <<uid, overlap, objects>>
    BY <1>0, <1>1 DEF Unmixed
<1>2. CASE Step
    <2> DEFINE kind == Head(todo)
    <2>1. /\ kind \in Kinds /\ current \in DevEnvs
          /\ UNCHANGED <<uid, overlap>> /\ New(kind) \in Object
        BY <1>2, StepChanges
    <2>2. /\ HasOwner(kind) => New(kind).uid = uid[current]
          /\ kind = "proxyPod" => New(kind).val = 0
        BY DEF New
    <2>3. CASE UNCHANGED <<objects, seen>> BY <1>1, <2>1, <2>3
    <2>4. ASSUME NEW called \in SUBSET DevEnvs, Changes(kind, current, New(kind), called)
          PROVE  Unmixed(e)'
        BY <1>0, <2>1, <2>2, <2>4, ChangeIsUnmixed
    <2> QED BY <1>2, <2>3, <2>4, StepChanges
<1>3. CASE Crash
    BY <1>1, <1>3 DEF Crash
<1>4. CASE Elsewhere
    <2>1. PICK kind \in Kinds, d \in DevEnvs, new \in Object :
              /\ Changes(kind, d, new, {})
              /\ Removed(kind, d, new) \/ Started(kind, d, new)
        BY <1>4, ElsewhereChanges
    <2>2. {} \in SUBSET DevEnvs /\ UNCHANGED <<uid, overlap>>
        BY <1>4, ElsewhereChanges
    <2>3. ASSUME d = e, uid[d] # 0, ~overlap[d]
          PROVE  /\ HasOwner(kind) /\ new.there => new.uid = uid[d]
                 /\ kind = "proxyPod" => new.val \in {0, uid[d]}
        <3>1. CASE Removed(kind, d, new) BY <3>1 DEF Removed, Nothing
        <3>2. CASE Started(kind, d, new)
            <4>1. objects[key[kind][d]] \in Object BY KeyApart DEF TypeOK
            <4>2. objects[key["proxySecret"][d]].there
                      => objects[key["proxySecret"][d]].val = uid[d]
                BY <1>0, <2>3, NamedKinds DEF Unmixed, OwnSecret
            <4>3. HasOwner(kind) /\ objects[key[kind][d]].there
                      => objects[key[kind][d]].uid = uid[d]
                BY <1>0, <2>3 DEF Unmixed
            <4> QED BY <3>2, <4>1, <4>2, <4>3 DEF Started, Object
        <3> QED BY <2>1, <3>1, <3>2
    <2> QED BY <1>0, <2>1, <2>2, <2>3, ChangeIsUnmixed
<1>5. CASE \E k \in Keys : Event(k)
    BY <1>1, <1>5 DEF Event
<1>6. ASSUME NEW d \in DevEnvs, Starts(d) \/ StartFails(d) \/ OtherEvent(d)
      PROVE  Unmixed(e)'
    BY <1>1, <1>6 DEF Starts, StartFails, OtherEvent
<1>7. ASSUME NEW d \in DevEnvs, Leaves(d)
      PROVE  Unmixed(e)'
    BY <1>0, <1>7 DEF Leaves, Unmixed, TypeOK
<1>8. ASSUME NEW d \in DevEnvs, UserCreates(d)
      PROVE  Unmixed(e)'
    <2>1. CASE e # d
        BY <1>0, <1>8, <2>1 DEF UserCreates, Unmixed, TypeOK
    <2>2. CASE e = d
        <3>1. /\ objects' = objects
              /\ overlap'[d] = \E k \in Keys : objects[k].owner = d
            BY <1>8 DEF UserCreates, TypeOK
        <3>2. ASSUME ~overlap'[d], NEW kind \in Kinds, HasOwner(kind)
              PROVE  ~objects[key[kind][d]].there /\ objects[key[kind][d]] = Nothing
            BY <3>1, <3>2, KeyApart DEF Shaped, Shape
        <3> QED BY <2>2, <3>1, <3>2, NamedKinds DEF Unmixed, Nothing
    <2> QED BY <2>1, <2>2
<1>9. CASE UNCHANGED vars
    BY <1>1, <1>9 DEF vars
<1> QED BY <1>2, <1>3, <1>4, <1>5, <1>6, <1>7, <1>8, <1>9, NextSplit

LEMMA InitKInv == Init => KInv
<1> SUFFICES ASSUME Init PROVE KInv
    OBVIOUS
<1>1. \A k \in Kinds, d \in DevEnvs :
          objects[key[k][d]] = Nothing /\ seen[key[k][d]] = Nothing
    BY KeyApart DEF Init
<1>2. Shaped
    <2>1. \A kind \in Kinds, d \in DevEnvs : Shape(Nothing, kind, d)
        BY DEF Shape, Nothing
    <2> QED BY <1>1, <2>1 DEF Shaped
<1>3. \A d \in DevEnvs : Unmixed(d) BY DEF Init, Unmixed
<1> QED BY <1>2, <1>3, InitIInv DEF KInv

LEMMA NextKInv == KInv /\ [Next]_vars => KInv'
<1> SUFFICES ASSUME KInv, [Next]_vars PROVE KInv'
    OBVIOUS
<1>1. IInv' BY NextIInv DEF KInv
<1>2. Shaped' BY NextShaped DEF KInv
<1>3. \A d \in DevEnvs : Unmixed(d)' BY NextUnmixed
<1> QED BY <1>1, <1>2, <1>3 DEF KInv

LEMMA KInvHolds == Spec => []KInv
BY InitKInv, NextKInv, PTL DEF Spec

\* The proxy logs in with the secret of its DevEnv's client, whatever pods are
\* lost and whatever calls fail, unless the DevEnv overlapped a predecessor.
THEOREM ProxyLogsInHolds == Spec => []ProxyLogsIn
<1>1. KInv => ProxyLogsIn
    BY DEF KInv, Unmixed, ProxyLogsIn
<1> QED BY <1>1, KInvHolds, PTL

-----------------------------------------------------------------------------
(* The endpoints.  A DevEnv that is not queued is on its way to the IDE    *)
(* pod, or between the pod and the endpoints with the pod's address in     *)
(* hand, or its endpoints are right for the pod in the cache, or else the  *)
(* cache is behind with the endpoints and an event is to come.             *)

Left == {todo[i] : i \in DOMAIN todo}

Sorted ==
    /\ \A i, j \in DOMAIN todo : i < j => Position(todo[i]) < Position(todo[j])
    /\ "ide" \in Left => "endpoints" \in Left

EndpointsPending(d) ==
    /\ seen[key["endpoints"][d]].there
    /\ objects[key["endpoints"][d]] # seen[key["endpoints"][d]]

\* Endpoints that the cache does not show yet must not be collected.
EndpointsGood(d) ==
    /\ objects[key["endpoints"][d]].there
    /\ objects[key["endpoints"][d]].val = seen[key["ide"][d]].val
    /\ \/ seen[key["endpoints"][d]].there
       \/ objects[key["endpoints"][d]].uid = uid[d]

Routed(d) ==
    uid[d] # 0 /\ d \notin queue =>
        \/ current = d /\ "ide" \in Left
        \/ /\ current = d /\ "ide" \notin Left /\ "endpoints" \in Left
           /\ DevEnvPodIP = seen[key["ide"][d]].val
        \/ /\ ~(current = d /\ "endpoints" \in Left)
           /\ EndpointsPending(d) \/ EndpointsGood(d)

\* No Update of endpoints has failed, or its answer been lost, so far.
NoUpdateFailed == budget["update"] = Budget["update"]

RInv ==
    /\ KInv /\ Sorted
    /\ budget["update"] <= Budget["update"]
    /\ NoUpdateFailed => \A d \in DevEnvs : Routed(d)

\* The positions that matter.
LEMMA Positions == Position("ide") = 7 /\ Position("endpoints") = 9
<1>1. DOMAIN Order = 1 .. 14 /\ Order[7] = "ide" /\ Order[9] = "endpoints"
    BY DEF Order
<1>2. \A p \in 1 .. 14 : (Order[p] = "ide" => p = 7) /\ (Order[p] = "endpoints" => p = 9)
    BY DEF Order
<1> QED BY <1>1, <1>2 DEF Position

LEMMA PositionType ==
    ASSUME NEW kind \in Kinds
    PROVE  Position(kind) \in 1 .. 14
<1>1. Steps \in Seq(AllKinds \ {"build", "init"})
    BY ResourcesAssumption
<1>2. kind \in AllKinds \ {"build", "init"}
    BY <1>1, LenProperties DEF Kinds
<1>3. DOMAIN Order = 1 .. 14
    BY DEF Order
<1>4. \E p \in DOMAIN Order : Order[p] = kind
    <2>1. kind \in {Order[1], Order[2], Order[3], Order[4], Order[5], Order[6], Order[7],
                    Order[8], Order[9], Order[10], Order[11], Order[12], Order[13], Order[14]}
        BY <1>2 DEF AllKinds, api, Order
    <2> QED BY <1>3, <2>1
<1> QED BY <1>3, <1>4 DEF Position

\* Advance takes the step at hand off the list and leaves the others.
LEMMA TailLeft ==
    ASSUME TypeOK, Sorted, current # NoOne, todo' = Tail(todo)
    PROVE  /\ Sorted'
           /\ \A k : k \in Left' <=> k \in Left /\ k # Head(todo)
           /\ Head(todo) \in Left
           /\ Head(todo) = "endpoints" => "ide" \notin Left
<1> DEFINE n == Len(todo)
<1>1. todo \in Seq(Kinds) /\ todo # <<>>
    BY DEF TypeOK
<1>2. /\ n \in Nat /\ n >= 1 /\ DOMAIN todo = 1 .. n /\ Head(todo) = todo[1]
      /\ Tail(todo) \in Seq(Kinds) /\ Len(Tail(todo)) = n - 1
      /\ DOMAIN Tail(todo) = 1 .. (n - 1)
      /\ \A i \in 1 .. (n - 1) : Tail(todo)[i] = todo[i + 1]
    BY <1>1, HeadTailProperties, LenProperties, EmptySeq
<1>3. \A i, j \in 1 .. n : i < j => Position(todo[i]) < Position(todo[j])
    BY <1>2 DEF Sorted
<1>4. \A i \in 2 .. n : todo[i] # todo[1]
    <2> SUFFICES ASSUME NEW i \in 2 .. n, todo[i] = todo[1] PROVE FALSE
        OBVIOUS
    <2>1. Position(todo[1]) < Position(todo[i]) BY <1>2, <1>3
    <2>2. todo[1] \in Kinds BY <1>1, <1>2
    <2> QED BY <2>1, <2>2, PositionType
<1>5. Left = {todo[i] : i \in 1 .. n} /\ Left' = {todo[i + 1] : i \in 1 .. (n - 1)}
    BY <1>2 DEF Left
<1>6. \A k : k \in Left' <=> k \in Left /\ k # Head(todo)
    <2>1. ASSUME NEW k \in Left' PROVE k \in Left /\ k # Head(todo)
        <3>1. PICK i \in 1 .. (n - 1) : k = todo[i + 1] BY <1>5
        <3>2. i + 1 \in 2 .. n BY <1>2
        <3> QED BY <1>2, <1>4, <1>5, <3>1, <3>2
    <2>2. ASSUME NEW k \in Left, k # Head(todo) PROVE k \in Left'
        <3>1. PICK i \in 1 .. n : k = todo[i] BY <1>5
        <3>2. i # 1 BY <1>2, <2>2, <3>1
        <3>3. i - 1 \in 1 .. (n - 1) /\ i = (i - 1) + 1 BY <1>2, <3>2
        <3> QED BY <1>5, <3>1, <3>3
    <2> QED BY <2>1, <2>2
<1>7. Head(todo) \in Left
    BY <1>2, <1>5
<1>8. Head(todo) = "endpoints" => "ide" \notin Left
    <2> SUFFICES ASSUME Head(todo) = "endpoints", NEW i \in 1 .. n, todo[i] = "ide"
                 PROVE  FALSE
        BY <1>5
    <2>1. i # 1 BY <1>2
    <2>2. Position(todo[1]) < Position(todo[i]) BY <1>2, <1>3, <2>1
    <2> QED BY <1>2, <2>2, Positions
<1>9. Sorted'
    <2>1. todo' = Tail(todo) OBVIOUS
    <2>2. ASSUME NEW i \in DOMAIN todo', NEW j \in DOMAIN todo', i < j
          PROVE  Position(todo'[i]) < Position(todo'[j])
        <3>1. i \in 1 .. (n - 1) /\ j \in 1 .. (n - 1) BY <1>2
        <3>2. i + 1 \in 1 .. n /\ j + 1 \in 1 .. n /\ i + 1 < j + 1 BY <1>2, <2>2, <3>1
        <3>3. todo'[i] = todo[i + 1] /\ todo'[j] = todo[j + 1] BY <1>2, <3>1
        <3> QED BY <1>3, <3>2, <3>3
    <2>3. "ide" \in Left' => "endpoints" \in Left'
        BY <1>6, <1>8 DEF Sorted
    <2> QED BY <2>2, <2>3 DEF Sorted
<1> QED BY <1>6, <1>7, <1>8, <1>9

\* When the endpoints are next, the IDE pod is behind.
LEMMA HeadLeft ==
    ASSUME TypeOK, Sorted, current # NoOne, Head(todo) = "endpoints"
    PROVE  "ide" \notin Left
<1> SUFFICES ASSUME NEW i \in DOMAIN todo, todo[i] = "ide" PROVE FALSE
    BY DEF Left
<1>1. /\ Len(todo) \in Nat /\ DOMAIN todo = 1 .. Len(todo) /\ 1 \in DOMAIN todo
      /\ todo[1] = "endpoints"
    BY HeadTailProperties, LenProperties, EmptySeq DEF TypeOK
<1>2. i # 1 /\ 1 < i BY <1>1
<1>3. Position("endpoints") < Position("ide") BY <1>1, <1>2 DEF Sorted
<1> QED BY <1>3, Positions

\* The list is empty after a return, and before the end of a reconcile it is not.
LEMMA EmptyLeft ==
    /\ todo = <<>> => Left = {} /\ Sorted
    /\ todo' = <<>> => Left' = {} /\ Sorted'
BY DEF Left, Sorted

\* A DevEnv whose objects are not touched, nor its place in a reconcile.
LEMMA RoutedFrame ==
    ASSUME NEW d \in DevEnvs, Routed(d), uid'[d] = uid[d],
           d \in queue => d \in queue',
           objects'[key["endpoints"][d]] = objects[key["endpoints"][d]],
           seen'[key["endpoints"][d]] = seen[key["endpoints"][d]],
           seen'[key["ide"][d]] = seen[key["ide"][d]],
           current' = d <=> current = d,
           current = d => todo' = todo /\ DevEnvPodIP' = DevEnvPodIP
    PROVE  Routed(d)'
<1>1. current = d => Left' = Left
    BY DEF Left
<1> QED BY <1>1 DEF Routed, EndpointsPending, EndpointsGood

\* A step past an object that is neither the IDE pod nor the endpoints.
LEMMA RoutedAdvance ==
    ASSUME TypeOK, Sorted, current # NoOne, Advance, Head(todo) \notin {"ide", "endpoints"},
           NEW d \in DevEnvs, Routed(d), current = d, uid'[d] = uid[d],
           d \in queue => d \in queue', DevEnvPodIP' = DevEnvPodIP,
           objects'[key["endpoints"][d]] = objects[key["endpoints"][d]],
           seen'[key["endpoints"][d]] = seen[key["endpoints"][d]],
           seen'[key["ide"][d]] = seen[key["ide"][d]]
    PROVE  Routed(d)'
<1>1. \A k \in {"ide", "endpoints"} : k \in Left' <=> k \in Left
    BY TailLeft DEF Advance
<1>2. Left' # {} => current' = d
    BY EmptyLeft DEF Advance
<1>3. current' = d => current = d
    OBVIOUS
<1> QED BY <1>1, <1>2, <1>3 DEF Routed, EndpointsPending, EndpointsGood

\* The watch of a kind that does not lag brings the owner back.
LEMMA OwnerQueued ==
    ASSUME TypeOK, Shaped, NEW kind \in Kinds \ Lagging, HasOwner(kind), NEW d \in DevEnvs,
           NEW new \in Object, Shape(new, kind, d), NEW called \in SUBSET DevEnvs,
           Changes(kind, d, new, called), new.there \/ objects[key[kind][d]].there
    PROVE  d \in queue'
<1>1. Owners(objects[key[kind][d]]) \cup Owners(new) \subseteq queue'
    BY ChangesSeen
<1>2. new.owner = d \/ objects[key[kind][d]].owner = d
    BY DEF Shaped, Shape
<1>3. d # NoOne
    BY ResourcesAssumption DEF NoOne
<1> QED BY <1>1, <1>2, <1>3 DEF Owners

LEMMA ElsewhereRouted ==
    ASSUME KInv, Elsewhere, NEW d \in DevEnvs, Routed(d)
    PROVE  Routed(d)'
<1> USE DEF KInv, IInv
<1>1. PICK kind \in Kinds, e \in DevEnvs, new \in Object :
          /\ Changes(kind, e, new, {})
          /\ Removed(kind, e, new) \/ Started(kind, e, new)
    BY ElsewhereChanges
<1>2. {} \in SUBSET DevEnvs /\ UNCHANGED <<uid, current, todo, DevEnvPodIP>>
    BY ElsewhereChanges DEF worker, fields
<1>3. /\ \A k \in Kinds :
             /\ objects'[key[k][d]] = IF k = kind /\ d = e THEN new ELSE objects[key[k][d]]
             /\ seen'[key[k][d]] = IF k = kind /\ d = e /\ kind \notin Lagging
                                   THEN new ELSE seen[key[k][d]]
      /\ queue \subseteq queue'
    BY <1>1, <1>2, ChangesOne, ChangesSeen
<1>4. Shape(new, kind, e)
    BY <1>1, ElsewhereShape
<1>5. CASE d # e \/ kind \notin {"ide", "endpoints"} \/ (kind = "ide" /\ kind \in Lagging)
    BY <1>2, <1>3, <1>5, NamedKinds, RoutedFrame
<1>6. ASSUME d = e, HasOwner(kind)
      PROVE  /\ objects[key[kind][d]].there
             /\ Removed(kind, d, new) /\ kind = "endpoints" => objects[key[kind][d]].uid # uid[d]
    <2>1. Shape(objects[key[kind][d]], kind, d) BY DEF Shaped
    <2> QED BY <1>1, <1>6, <2>1 DEF Removed, Started, Orphan, Shape, Nothing
<1>7. CASE d = e /\ kind \in {"ide", "endpoints"} /\ kind \notin Lagging
    <2>1. d \in queue'
        BY <1>1, <1>2, <1>4, <1>6, <1>7, NamedKinds, OwnerQueued
    <2> QED BY <2>1 DEF Routed
<1>8. CASE d = e /\ kind = "endpoints" /\ kind \in Lagging
    <2>1. new = Nothing /\ objects[key["endpoints"][d]].uid # uid[d]
        BY <1>1, <1>6, <1>8, NamedKinds DEF Removed, Started
    <2>2. /\ objects'[key["endpoints"][d]] = Nothing
          /\ seen'[key["endpoints"][d]] = seen[key["endpoints"][d]]
          /\ seen'[key["ide"][d]] = seen[key["ide"][d]]
        BY <1>3, <1>8, <2>1, NamedKinds
    <2>3. EndpointsPending(d) \/ EndpointsGood(d) => EndpointsPending(d)'
        BY <2>1, <2>2 DEF EndpointsPending, EndpointsGood, Nothing
    <2>4. Left' = Left BY <1>2 DEF Left
    <2> QED BY <1>2, <1>3, <2>2, <2>3, <2>4 DEF Routed
<1> QED BY <1>5, <1>7, <1>8

\* The reconcile of another DevEnv does not come near this one.
LEMMA OtherStepRouted ==
    ASSUME KInv, Step, NEW d \in DevEnvs, d # current, Routed(d)
    PROVE  Routed(d)'
<1> USE DEF KInv, IInv
<1>1. /\ current \in DevEnvs /\ current # NoOne /\ Head(todo) \in Kinds
      /\ UNCHANGED uid /\ New(Head(todo)) \in Object
      /\ \/ UNCHANGED <<objects, seen>>
         \/ \E called \in SUBSET DevEnvs :
                Changes(Head(todo), current, New(Head(todo)), called)
    BY StepChanges
<1>2. /\ queue \subseteq queue'
      /\ current' \in {current, NoOne}
    BY <1>1 DEF Step, Found, Creates, CreateFails, IdeFound, EndpointsFound, Changes,
                Advance, Return
<1>3. \A k \in {"ide", "endpoints"} :
          objects'[key[k][d]] = objects[key[k][d]] /\ seen'[key[k][d]] = seen[key[k][d]]
    <2>1. CASE UNCHANGED <<objects, seen>> BY <2>1
    <2>2. ASSUME NEW called \in SUBSET DevEnvs,
                 Changes(Head(todo), current, New(Head(todo)), called)
          PROVE  \A k \in Kinds :
                     objects'[key[k][d]] = objects[key[k][d]] /\ seen'[key[k][d]] = seen[key[k][d]]
        BY <1>1, <2>2, ChangesOne, ChangesSeen
    <2> QED BY <1>1, <2>1, <2>2, NamedKinds
<1>4. d # NoOne BY ResourcesAssumption DEF NoOne
<1> QED BY <1>1, <1>2, <1>3, <1>4, RoutedFrame

\* A return that puts the request back.
LEMMA ReturnRouted ==
    ASSUME NEW d \in DevEnvs, d \in queue'
    PROVE  Routed(d)'
BY DEF Routed

\* An object that is neither the IDE pod nor the endpoints is found or made.
LEMMA PlainStepRouted ==
    ASSUME KInv, Sorted, current # NoOne, NEW d \in DevEnvs, d = current, Routed(d),
           NEW kind \in Kinds, kind = Head(todo), kind \notin {"ide", "endpoints"},
           Found(kind) \/ Creates(kind)
    PROVE  Routed(d)'
<1> USE DEF KInv, IInv
<1>1. New(kind) \in Object /\ {} \in SUBSET DevEnvs
    BY NewType
<1>2. Advance /\ UNCHANGED <<uid, DevEnvPodIP>>
    BY DEF Found, Creates, fields
<1>3. UNCHANGED <<objects, seen, queue>> \/ Changes(kind, current, New(kind), {})
    BY DEF Found, Creates
<1>4. /\ queue \subseteq queue'
      /\ \A k \in {"ide", "endpoints"} :
             objects'[key[k][d]] = objects[key[k][d]] /\ seen'[key[k][d]] = seen[key[k][d]]
    <2>1. CASE Changes(kind, current, New(kind), {})
        BY <1>1, <2>1, ChangesOne, ChangesSeen, NamedKinds
    <2> QED BY <1>3, <2>1
<1> QED BY <1>2, <1>4, RoutedAdvance

\* The endpoints are made with the address at hand.
LEMMA EndpointsMadeRouted ==
    ASSUME KInv, Sorted, current # NoOne, NEW d \in DevEnvs, d = current, Routed(d),
           Head(todo) = "endpoints", Creates("endpoints")
    PROVE  Routed(d)'
<1> USE DEF KInv, IInv
<1> DEFINE new == New("endpoints")
<1>1. /\ "endpoints" \in Kinds /\ HasOwner("endpoints") /\ "ide" \in Kinds
      /\ {} \in SUBSET DevEnvs
    BY NamedKinds
<1>2. /\ new \in Object /\ new.there /\ new.val = DevEnvPodIP /\ new.uid = uid[d]
      /\ Shape(new, "endpoints", d)
    BY <1>1, NewType DEF New, Shape, FieldIsCurrent
<1>3. Changes("endpoints", d, new, {}) /\ Advance /\ UNCHANGED <<uid, DevEnvPodIP>>
    BY DEF Creates, fields
<1>4. CASE "endpoints" \notin Lagging
    BY <1>1, <1>2, <1>3, <1>4, OwnerQueued, ReturnRouted
<1>5. CASE "endpoints" \in Lagging
    <2>1. /\ objects'[key["endpoints"][d]] = new /\ queue \subseteq queue'
          /\ seen'[key["ide"][d]] = seen[key["ide"][d]]
        BY <1>1, <1>2, <1>3, <1>5, ChangesOne, ChangesSeen
    <2>2. "ide" \notin Left /\ "endpoints" \in Left /\ "endpoints" \notin Left'
        BY <1>3, TailLeft DEF Advance
    <2>3. uid[d] # 0 /\ d \notin queue => new.val = seen[key["ide"][d]].val
        BY <1>2, <2>2 DEF Routed
    <2>4. uid[d] # 0 /\ d \notin queue => EndpointsGood(d)'
        BY <1>2, <1>3, <2>1, <2>3 DEF EndpointsGood
    <2> QED BY <1>3, <2>1, <2>2, <2>4 DEF Routed
<1> QED BY <1>4, <1>5

\* The endpoints are there and compared with the address at hand.
LEMMA EndpointsFoundRouted ==
    ASSUME KInv, Sorted, current # NoOne, NEW d \in DevEnvs, d = current, Routed(d),
           Head(todo) = "endpoints", EndpointsFound, budget' = budget
    PROVE  Routed(d)'
<1> USE DEF KInv, IInv
<1> DEFINE new == New("endpoints")
           k   == key["endpoints"][d]
<1>1. /\ "endpoints" \in Kinds /\ HasOwner("endpoints") /\ "ide" \in Kinds
      /\ {} \in SUBSET DevEnvs
    BY NamedKinds
<1>2. /\ new \in Object /\ new.there /\ new.val = DevEnvPodIP
      /\ Shape(new, "endpoints", d)
    BY <1>1, NewType DEF New, Shape, FieldIsCurrent
<1>3. Advance /\ UNCHANGED <<uid, DevEnvPodIP>> /\ seen[k].there
    BY DEF EndpointsFound, View, fields
<1>4. "ide" \notin Left /\ "endpoints" \in Left /\ "endpoints" \notin Left'
    BY <1>3, TailLeft DEF Advance
<1>5. uid[d] # 0 /\ d \notin queue => DevEnvPodIP = seen[key["ide"][d]].val
    BY <1>4 DEF Routed
<1>6. \/ seen[k].val = DevEnvPodIP /\ UNCHANGED <<objects, seen, queue>>
      \/ Changes("endpoints", d, new, {})
    <2>1. ~Spend("update") BY DEF Spend, TypeOK, Disturbances
    <2> QED BY <2>1 DEF EndpointsFound, View
<1>7. CASE seen[k].val = DevEnvPodIP /\ UNCHANGED <<objects, seen, queue>>
    <2>1. uid[d] # 0 /\ d \notin queue => EndpointsPending(d)' \/ EndpointsGood(d)'
        BY <1>3, <1>5, <1>7 DEF EndpointsPending, EndpointsGood
    <2> QED BY <1>3, <1>4, <1>7, <2>1 DEF Routed
<1>8. CASE Changes("endpoints", d, new, {}) /\ "endpoints" \notin Lagging
    BY <1>1, <1>2, <1>8, OwnerQueued, ReturnRouted
<1>9. CASE Changes("endpoints", d, new, {}) /\ "endpoints" \in Lagging
    <2>1. /\ objects'[k] = new /\ queue \subseteq queue' /\ seen'[k] = seen[k]
          /\ seen'[key["ide"][d]] = seen[key["ide"][d]]
        BY <1>1, <1>2, <1>9, ChangesOne, ChangesSeen
    <2>2. uid[d] # 0 /\ d \notin queue => EndpointsGood(d)'
        BY <1>2, <1>3, <1>5, <2>1 DEF EndpointsGood
    <2> QED BY <1>3, <1>4, <2>1, <2>2 DEF Routed
<1> QED BY <1>6, <1>7, <1>8, <1>9

\* The address of the pod is read.
LEMMA IdeFoundRouted ==
    ASSUME KInv, Sorted, current # NoOne, NEW d \in DevEnvs, d = current,
           Head(todo) = "ide", IdeFound
    PROVE  Routed(d)'
<1> USE DEF KInv, IInv
<1>1. CASE Return /\ queue' = queue \cup {current}
    BY <1>1, ReturnRouted
<1>2. CASE Advance /\ UNCHANGED queue
    <2>1. /\ "endpoints" \in Left' /\ "ide" \notin Left'
        BY <1>2, TailLeft DEF Advance, Sorted
    <2>2. current' = d
        BY <1>2, <2>1, EmptyLeft DEF Advance
    <2>3. DevEnvPodIP' = seen'[key["ide"][d]].val
        BY DEF IdeFound, View
    <2> QED BY <2>1, <2>2, <2>3 DEF Routed
<1> QED BY <1>1, <1>2 DEF IdeFound

LEMMA StepRouted ==
    ASSUME KInv, Sorted, Step, budget'["update"] = budget["update"],
           NEW d \in DevEnvs, Routed(d)
    PROVE  Routed(d)'
<1> USE DEF KInv, IInv
<1>1. /\ current \in DevEnvs /\ current # NoOne /\ Head(todo) \in Kinds
    BY StepChanges
<1> DEFINE kind == Head(todo)
<1>2. CASE d # current
    BY <1>2, OtherStepRouted
<1>3. CASE d = current
    <2>1. CASE CreateFails(kind)
        <3>1. d \in queue' BY <1>3, <2>1 DEF CreateFails, Changes
        <3> QED BY <3>1, ReturnRouted
    <2>2. CASE (Found(kind) \/ Creates(kind)) /\ kind \notin {"ide", "endpoints"}
        BY <1>1, <1>3, <2>2, PlainStepRouted
    <2>3. CASE Creates(kind) /\ kind = "ide"
        <3>1. d \in queue' BY <1>3, <2>3 DEF Creates, Changes
        <3> QED BY <3>1, ReturnRouted
    <2>4. CASE Creates(kind) /\ kind = "endpoints"
        BY <1>1, <1>3, <2>4, EndpointsMadeRouted
    <2>5. CASE kind = "ide" /\ IdeFound
        BY <1>1, <1>3, <2>5, IdeFoundRouted
    <2>6. CASE kind = "endpoints" /\ EndpointsFound
        <3>1. budget' = budget
            BY <2>6 DEF EndpointsFound, Spend, TypeOK, Disturbances
        <3> QED BY <1>1, <1>3, <2>6, <3>1, EndpointsFoundRouted
    <2> QED BY <2>1, <2>2, <2>3, <2>4, <2>5, <2>6 DEF Step, Found
<1> QED BY <1>2, <1>3

LEMMA EventRouted ==
    ASSUME KInv, NEW l \in Keys, Event(l), NEW d \in DevEnvs, Routed(d)
    PROVE  Routed(d)'
<1> USE DEF KInv, IInv
<1>1. \A k \in Kinds :
          /\ objects'[key[k][d]] = objects[key[k][d]]
          /\ seen'[key[k][d]] = IF l = key[k][d] THEN objects[l] ELSE seen[key[k][d]]
    BY EventSeen
<1>2. UNCHANGED <<uid, current, todo, DevEnvPodIP>> /\ queue \subseteq queue'
    BY DEF Event, worker, fields
<1>3. CASE \A k \in {"ide", "endpoints"} : l # key[k][d]
    BY <1>1, <1>2, <1>3, NamedKinds, RoutedFrame
<1>4. ASSUME NEW k \in {"ide", "endpoints"}, l = key[k][d]
      PROVE  Routed(d)'
    <2>1. Shape(objects[l], k, d) /\ Shape(seen[l], k, d) /\ HasOwner(k)
        BY <1>4, NamedKinds DEF Shaped
    <2>2. objects[l].owner = d \/ seen[l].owner = d
        BY <2>1 DEF Shape, Event
    <2>3. d # NoOne BY ResourcesAssumption DEF NoOne
    <2>4. d \in queue' BY <2>2, <2>3 DEF Event, Owners
    <2> QED BY <2>4, ReturnRouted
<1> QED BY <1>3, <1>4

\* The worker starts with another request, or a DevEnv comes or goes.
LEMMA OthersRouted ==
    ASSUME KInv, NEW d \in DevEnvs, Routed(d), NEW e \in DevEnvs,
           \/ Starts(e) \/ StartFails(e) \/ UserCreates(e) \/ Leaves(e) \/ OtherEvent(e)
    PROVE  Routed(d)'
<1> USE DEF KInv, IInv
<1>0. d # NoOne BY ResourcesAssumption DEF NoOne
<1>1. CASE Starts(e)
    <2>1. UNCHANGED <<uid, objects, seen, DevEnvPodIP>> /\ current = NoOne /\ queue' = queue \ {e}
        BY <1>1 DEF Starts, worker, fields
    <2>2. CASE d # e
        <3>1. current' # d BY <1>0, <1>1, <2>1, <2>2 DEF Starts, worker
        <3> QED BY <1>0, <2>1, <2>2, <3>1, RoutedFrame
    <2>3. CASE d = e /\ uid[d] = 0
        BY <2>1, <2>3 DEF Routed
    <2>4. CASE d = e /\ uid[d] # 0
        <3>1. current' = d /\ todo' = Steps BY <1>1, <2>4 DEF Starts
        <3>2. "ide" \in Left' BY <3>1, NamedKinds DEF Left, Kinds
        <3> QED BY <3>1, <3>2 DEF Routed
    <2> QED BY <2>2, <2>3, <2>4
<1>2. CASE StartFails(e) \/ OtherEvent(e)
    BY <1>2, RoutedFrame DEF StartFails, OtherEvent, worker, fields
<1>3. CASE UserCreates(e)
    <2>1. CASE d = e BY <1>3, <2>1, ReturnRouted DEF UserCreates
    <2>2. CASE d # e
        <3>1. uid'[d] = uid[d] BY <1>3, <2>2 DEF UserCreates, TypeOK
        <3> QED BY <1>3, <3>1, RoutedFrame DEF UserCreates, worker, fields
    <2> QED BY <2>1, <2>2
<1>4. CASE Leaves(e)
    <2>1. CASE d = e
        <3>1. uid'[d] = 0 BY <1>4, <2>1 DEF Leaves, TypeOK
        <3> QED BY <3>1 DEF Routed
    <2>2. CASE d # e
        <3>1. uid'[d] = uid[d] BY <1>4, <2>2 DEF Leaves, TypeOK
        <3> QED BY <1>4, <3>1, RoutedFrame DEF Leaves, worker, fields
    <2> QED BY <2>1, <2>2
<1> QED BY <1>1, <1>2, <1>3, <1>4

\* A budget is only spent.
LEMMA BudgetFalls ==
    ASSUME TypeOK, [Next]_vars
    PROVE  budget'["update"] \in Nat /\ budget'["update"] <= budget["update"]
<1>0. budget["update"] \in Nat
    BY DEF TypeOK, Disturbances
<1>1. CASE budget' = budget \/ \E what \in Disturbances : Spend(what)
    BY <1>0, <1>1 DEF Spend, TypeOK, Disturbances
<1>2. CASE Step
    BY <1>1, <1>2 DEF Step, Found, Creates, CreateFails, IdeFound, EndpointsFound, Disturbances
<1>3. CASE Crash
    BY <1>1, <1>3 DEF Crash, Disturbances
<1>4. CASE Elsewhere
    BY <1>0, <1>4, ElsewhereChanges
<1>5. CASE \E k \in Keys : Event(k)
    BY <1>1, <1>5 DEF Event
<1>6. ASSUME NEW d \in DevEnvs,
             \/ Starts(d) \/ StartFails(d) \/ UserCreates(d) \/ Leaves(d) \/ OtherEvent(d)
      PROVE  budget' = budget \/ \E what \in Disturbances : Spend(what)
    BY <1>6 DEF Starts, StartFails, UserCreates, Leaves, OtherEvent, Disturbances
<1>7. CASE UNCHANGED vars
    BY <1>1, <1>7 DEF vars
<1> QED BY <1>1, <1>2, <1>3, <1>4, <1>5, <1>6, <1>7, NextSplit

LEMMA NextSorted == IInv /\ Sorted /\ [Next]_vars => Sorted'
<1> SUFFICES ASSUME IInv, Sorted, [Next]_vars PROVE Sorted'
    OBVIOUS
<1> USE DEF IInv
<1>1. CASE todo' = todo
    BY <1>1 DEF Sorted, Left
<1>2. CASE Step
    <2>1. current # NoOne /\ (Advance \/ Return)
        BY <1>2 DEF Step, Found, Creates, CreateFails, IdeFound, EndpointsFound
    <2> QED BY <2>1, TailLeft, EmptyLeft DEF Advance, Return
<1>3. CASE Crash
    BY <1>3, EmptyLeft DEF Crash
<1>4. CASE Elsewhere
    BY <1>1, <1>4, ElsewhereChanges DEF worker
<1>5. CASE \E k \in Keys : Event(k)
    BY <1>1, <1>5 DEF Event, worker
<1>6. ASSUME NEW d \in DevEnvs,
             \/ StartFails(d) \/ UserCreates(d) \/ Leaves(d) \/ OtherEvent(d)
      PROVE  todo' = todo
    BY <1>6 DEF StartFails, UserCreates, Leaves, OtherEvent, worker
<1>7. ASSUME NEW d \in DevEnvs, Starts(d)
      PROVE  Sorted'
    <2>1. CASE uid[d] = 0
        BY <1>1, <1>7, <2>1 DEF Starts, worker
    <2>2. CASE uid[d] # 0
        <3>1. todo' = Steps BY <1>7, <2>2 DEF Starts
        <3>2. \A i, j \in DOMAIN todo' : i < j => Position(todo'[i]) < Position(todo'[j])
            BY <3>1, ResourcesAssumption
        <3>3. "endpoints" \in Left'
            BY <3>1, NamedKinds DEF Kinds, Left
        <3> QED BY <3>2, <3>3 DEF Sorted
    <2> QED BY <2>1, <2>2
<1>8. CASE UNCHANGED vars
    BY <1>1, <1>8 DEF vars, worker
<1> QED BY <1>1, <1>2, <1>3, <1>4, <1>5, <1>6, <1>7, <1>8, NextSplit

LEMMA NextRInv == RInv /\ [Next]_vars => RInv'
<1> SUFFICES ASSUME RInv, [Next]_vars PROVE RInv'
    OBVIOUS
<1> USE DEF RInv, KInv, IInv
<1>1. KInv' /\ Sorted'
    BY NextKInv, NextSorted
<1>2. /\ budget["update"] \in Nat /\ Budget["update"] \in Nat
      /\ budget'["update"] \in Nat /\ budget'["update"] <= budget["update"]
    BY BudgetFalls, ResourcesAssumption DEF TypeOK, Disturbances
<1>3. budget'["update"] <= Budget["update"]
    BY <1>2
<1>4. ASSUME NoUpdateFailed', NEW d \in DevEnvs
      PROVE  Routed(d)'
    <2>1. NoUpdateFailed /\ budget'["update"] = budget["update"]
        BY <1>2, <1>4 DEF NoUpdateFailed
    <2>2. Routed(d) BY <2>1
    <2>3. CASE Step BY <2>1, <2>2, <2>3, StepRouted
    <2>4. CASE Crash
        <3>1. uid'[d] # 0 => d \in queue' BY <2>4 DEF Crash
        <3> QED BY <3>1 DEF Routed
    <2>5. CASE Elsewhere BY <2>2, <2>5, ElsewhereRouted
    <2>6. CASE \E k \in Keys : Event(k) BY <2>2, <2>6, EventRouted
    <2>7. CASE \E e \in DevEnvs : \/ Starts(e) \/ StartFails(e) \/ UserCreates(e)
                                  \/ Leaves(e) \/ OtherEvent(e)
        BY <2>2, <2>7, OthersRouted
    <2>8. CASE UNCHANGED vars
        BY <2>2, <2>8, RoutedFrame DEF vars, worker, fields
    <2> QED BY <2>3, <2>4, <2>5, <2>6, <2>7, <2>8, NextSplit
<1> QED BY <1>1, <1>3, <1>4

LEMMA InitRInv == Init => RInv
<1> SUFFICES ASSUME Init PROVE RInv
    OBVIOUS
<1>1. Sorted BY EmptyLeft DEF Init
<1>2. \A d \in DevEnvs : Routed(d) BY DEF Init, Routed
<1>3. budget["update"] <= Budget["update"]
    BY ResourcesAssumption DEF Init, Disturbances
<1> QED BY <1>1, <1>2, <1>3, InitKInv DEF RInv

\* When the operator is through, the endpoints of every DevEnv lead to the IDE
\* pod that is there, whatever the caches show late, whatever objects of a
\* predecessor are collected on the way and wherever the process ends, as long
\* as no Update of endpoints has failed: that error is only logged.
THEOREM RoutesAreCurrentHolds == Spec => [](NoUpdateFailed => RoutesAreCurrent)
<1>1. RInv => (NoUpdateFailed => RoutesAreCurrent)
    <2> SUFFICES ASSUME RInv, NoUpdateFailed, Settled, NEW d \in DevEnvs, uid[d] # 0
                 PROVE  objects[key["endpoints"][d]].val = objects[key["ide"][d]].val
        BY DEF RoutesAreCurrent
    <2>1. d # NoOne BY ResourcesAssumption DEF NoOne
    <2>2. EndpointsPending(d) \/ EndpointsGood(d)
        BY <2>1 DEF RInv, Routed, Settled
    <2> QED BY <2>2 DEF EndpointsPending, EndpointsGood, Settled, InSync
<1>2. RInv /\ [Next]_vars => RInv' BY NextRInv
<1> QED BY <1>1, <1>2, InitRInv, PTL DEF Spec

-----------------------------------------------------------------------------
(* The address at hand.  Past the IDE pod the field holds an address, and  *)
(* the endpoints come after the IDE pod.                                   *)

AddressAtHand == current # NoOne /\ "ide" \notin Left => DevEnvPodIP # 0

AInv == IInv /\ Sorted /\ AddressAtHand /\ EndpointsHaveAddress

\* Endpoints have an address as long as what is written to them has one.
LEMMA AddressKept ==
    ASSUME TypeOK, EndpointsHaveAddress, NEW kind \in Kinds, NEW d \in DevEnvs,
           NEW new \in Object, NEW called \in SUBSET DevEnvs,
           Changes(kind, d, new, called),
           kind = "endpoints" /\ new.there => new.val # 0
    PROVE  EndpointsHaveAddress'
<1>1. "endpoints" \in Kinds BY NamedKinds
<1>2. \A e \in DevEnvs :
          objects'[key["endpoints"][e]] = IF kind = "endpoints" /\ e = d
                                          THEN new ELSE objects[key["endpoints"][e]]
    BY <1>1, ChangesOne
<1> QED BY <1>2 DEF EndpointsHaveAddress

\* A step of Reconcile either leaves the objects or writes what New makes.
LEMMA StepAddress ==
    ASSUME AInv, Step
    PROVE  AddressAtHand' /\ EndpointsHaveAddress'
<1> USE DEF AInv, IInv
<1> DEFINE kind == Head(todo)
<1>1. /\ current \in DevEnvs /\ current # NoOne /\ kind \in Kinds /\ New(kind) \in Object
      /\ \/ UNCHANGED <<objects, seen>>
         \/ \E called \in SUBSET DevEnvs : Changes(kind, current, New(kind), called)
    BY StepChanges
<1>2. AddressAtHand'
    <2>1. CASE Return BY <2>1 DEF Return, AddressAtHand
    <2>2. CASE Advance /\ kind # "ide" /\ DevEnvPodIP' = DevEnvPodIP
        BY <1>1, <2>2, TailLeft DEF Advance, AddressAtHand
    <2>3. CASE kind = "ide" /\ IdeFound /\ Advance
        <3>1. DevEnvPodIP' # 0 \/ current' = NoOne
            BY <2>3 DEF IdeFound, Return
        <3> QED BY <3>1 DEF AddressAtHand
    <2> QED BY <2>1, <2>2, <2>3
            DEF Step, Found, Creates, CreateFails, IdeFound, EndpointsFound, fields
<1>3. kind = "endpoints" => New(kind).val # 0
    <2>1. kind = "endpoints" => "ide" \notin Left
        BY <1>1, HeadLeft
    <2> QED BY <1>1, <2>1 DEF AddressAtHand, New
<1>4. EndpointsHaveAddress'
    <2>1. CASE UNCHANGED <<objects, seen>> BY <2>1 DEF EndpointsHaveAddress
    <2> QED BY <1>1, <1>3, <2>1, AddressKept
<1> QED BY <1>2, <1>4

LEMMA NextAInv == AInv /\ [Next]_vars => AInv'
<1> SUFFICES ASSUME AInv, [Next]_vars PROVE AddressAtHand' /\ EndpointsHaveAddress'
    BY NextIInv, NextSorted DEF AInv
<1> USE DEF AInv, IInv
<1>1. CASE Step
    BY <1>1, StepAddress
<1>2. CASE Crash
    BY <1>2 DEF Crash, AddressAtHand, EndpointsHaveAddress
<1>3. CASE Elsewhere
    <2>1. PICK kind \in Kinds, d \in DevEnvs, new \in Object :
              /\ Changes(kind, d, new, {})
              /\ Removed(kind, d, new) \/ Started(kind, d, new)
        BY <1>3, ElsewhereChanges
    <2>2. kind = "endpoints" => ~new.there
        BY <2>1 DEF Removed, Started, Nothing
    <2>3. EndpointsHaveAddress'
        <3>1. {} \in SUBSET DevEnvs OBVIOUS
        <3> QED BY <2>1, <2>2, <3>1, AddressKept
    <2>4. AddressAtHand'
        BY <1>3, ElsewhereChanges DEF worker, fields, AddressAtHand, Left
    <2> QED BY <2>3, <2>4
<1>4. CASE \E k \in Keys : Event(k)
    BY <1>4 DEF Event, worker, fields, AddressAtHand, EndpointsHaveAddress, Left
<1>5. ASSUME NEW d \in DevEnvs,
             \/ Starts(d) \/ StartFails(d) \/ UserCreates(d) \/ Leaves(d) \/ OtherEvent(d)
      PROVE  AddressAtHand' /\ EndpointsHaveAddress'
    <2>1. EndpointsHaveAddress'
        BY <1>5 DEF Starts, StartFails, UserCreates, Leaves, OtherEvent, EndpointsHaveAddress
    <2>2. CASE Starts(d) /\ uid[d] # 0
        <3>1. todo' = Steps BY <2>2 DEF Starts
        <3>2. "ide" \in Left' BY <3>1, NamedKinds DEF Kinds, Left
        <3> QED BY <2>1, <3>2 DEF AddressAtHand
    <2>3. CASE ~(Starts(d) /\ uid[d] # 0)
        <3>1. UNCHANGED <<current, todo, DevEnvPodIP>>
            BY <1>5, <2>3 DEF Starts, StartFails, UserCreates, Leaves, OtherEvent, worker, fields
        <3> QED BY <2>1, <3>1 DEF AddressAtHand, Left
    <2> QED BY <2>2, <2>3
<1>6. CASE UNCHANGED vars
    BY <1>6 DEF vars, worker, fields, AddressAtHand, EndpointsHaveAddress, Left
<1> QED BY <1>1, <1>2, <1>3, <1>4, <1>5, <1>6, NextSplit

\* Endpoints never lack the address that Reconcile compares, whatever fails,
\* however late the caches are, and whichever DevEnv used the field before.
THEOREM EndpointsHaveAddressHolds == Spec => []EndpointsHaveAddress
<1>1. Init => AInv
    <2> SUFFICES ASSUME Init PROVE AInv
        OBVIOUS
    <2>1. IInv /\ Sorted BY InitIInv, EmptyLeft DEF Init
    <2>2. \A d \in DevEnvs : objects[key["endpoints"][d]] = Nothing
        BY NamedKinds, KeyApart DEF Init
    <2>3. EndpointsHaveAddress BY <2>2 DEF EndpointsHaveAddress, Nothing
    <2>4. AddressAtHand BY DEF Init, AddressAtHand
    <2> QED BY <2>1, <2>3, <2>4 DEF AInv
<1>2. AInv => EndpointsHaveAddress BY DEF AInv
<1> QED BY <1>1, <1>2, NextAInv, PTL DEF Spec

=============================================================================
