----------------------------- MODULE Lifecycle -----------------------------
(***************************************************************************)
(* What the operator promises about the identity of one DevEnv, as a user  *)
(* of the Kubernetes API and of Keycloak sees it: what the status shows is *)
(* there for as long as the DevEnv lives, and a DevEnv with the finalizer  *)
(* leaves nothing in Keycloak when it goes.  Copies, caches, retries and   *)
(* crashes do not exist here; Identity.tla implements this module.         *)
(***************************************************************************)
EXTENDS TLAPS

VARIABLES
    life,     \* "none", "live", or "marked" as deleted
    guarded,  \* the finalizer is set
    shown,    \* what the status names
    backing   \* what Keycloak holds

vars == <<life, guarded, shown, backing>>

Objects == {"realm", "client", "user", "password"}

\* What has to be in Keycloak for a field of the status.
Needs(field) == IF field = "realm" THEN {"realm"} ELSE {"user", "password"}

Init == life = "none" /\ guarded = FALSE /\ shown = {} /\ backing = {}

Appear ==
    /\ life = "none" /\ life' = "live"
    /\ UNCHANGED <<guarded, shown, backing>>

\* Keycloak may get objects at any time, for a DevEnv that is gone as well.
Provide ==
    /\ backing' \in SUBSET Objects /\ backing \subseteq backing'
    /\ UNCHANGED <<life, guarded, shown>>

Show(field) ==
    /\ life = "live" /\ Needs(field) \subseteq backing
    /\ shown' = shown \cup {field}
    /\ UNCHANGED <<life, guarded, backing>>

Guard ==
    /\ life = "live" /\ guarded' = TRUE
    /\ UNCHANGED <<life, shown, backing>>

Mark ==
    /\ life = "live" /\ guarded /\ life' = "marked"
    /\ UNCHANGED <<guarded, shown, backing>>

\* Nothing is taken from a live DevEnv that shows something.
TakeDown ==
    /\ life = "live" => shown = {}
    /\ backing' = {}
    /\ UNCHANGED <<life, guarded, shown>>

Leave ==
    /\ life # "none"
    /\ guarded => life = "marked" /\ backing = {}
    /\ life' = "none" /\ guarded' = FALSE /\ shown' = {}
    /\ UNCHANGED backing

Next ==
    \/ Appear \/ Provide \/ Guard \/ Mark \/ TakeDown \/ Leave
    \/ \E field \in {"realm", "user"} : Show(field)

Spec == Init /\ [][Next]_vars

-----------------------------------------------------------------------------

\* While the DevEnv lives, all that its status shows is in Keycloak.
ShownIsBacked == life = "live" => \A field \in shown : Needs(field) \subseteq backing

\* The promise has this invariant, which every implementation inherits.
THEOREM ShownIsBackedHolds == Spec => []ShownIsBacked
<1> DEFINE IInv == ShownIsBacked /\ (life = "none" => shown = {})
<1>1. Init => IInv
  BY DEF Init, ShownIsBacked
<1>2. IInv /\ [Next]_vars => IInv'
  <2> SUFFICES ASSUME IInv, [Next]_vars PROVE IInv'
    OBVIOUS
  <2>1. CASE Appear
    BY <2>1 DEF Appear, ShownIsBacked
  <2>2. CASE Provide
    BY <2>2 DEF Provide, ShownIsBacked
  <2>3. CASE \E field \in {"realm", "user"} : Show(field)
    BY <2>3 DEF Show, ShownIsBacked
  <2>4. CASE Guard \/ Mark \/ TakeDown \/ Leave \/ UNCHANGED vars
    BY <2>4 DEF Guard, Mark, TakeDown, Leave, vars, ShownIsBacked
  <2> QED
    BY <2>1, <2>2, <2>3, <2>4 DEF Next
<1>3. IInv => ShownIsBacked
  OBVIOUS
<1> QED
  BY <1>1, <1>2, <1>3, PTL DEF Spec
=============================================================================
