------------------------------ MODULE Keycloak ------------------------------
(***************************************************************************)
(* The Keycloak server as oauth/keycloak/keycloak.go uses it, for one      *)
(* DevEnv: the realm named after the DevEnv, the client c-n-d-e in it, the *)
(* user and whether the user's initial password has been set.  Each        *)
(* operator is an outcome of a provider call; which outcome a caller gets  *)
(* is decided by kc and by failures.  A failed request may have been       *)
(* carried out.                                                            *)
(***************************************************************************)

VARIABLE kc

KeycloakObjects == {"realm", "client", "user", "password"}

KeycloakTypeOK == kc \in SUBSET KeycloakObjects

\* NewRealm finds the realm or creates it.
NewRealmOk    == kc' = kc \cup {"realm"}
NewRealmError == kc' = kc \/ kc' = kc \cup {"realm"}

\* DeleteRealm removes the realm with everything in it.
DeleteRealmOk       == "realm" \in kc /\ kc' = {}
DeleteRealmNotFound == "realm" \notin kc /\ UNCHANGED kc
DeleteRealmError    == kc' = kc \/ kc' = {}

\* CreateClient creates the client, or accepts that it is there (409).
CreateClientOk       == "realm" \in kc /\ kc' = kc \cup {"client"}
CreateClientNotFound == "realm" \notin kc /\ UNCHANGED kc
CreateClientError    == "realm" \in kc /\ (kc' = kc \/ kc' = kc \cup {"client"})

\* CreateUser creates the user; an existing one is an error.
CreateUserOk      == "realm" \in kc /\ "user" \notin kc /\ kc' = kc \cup {"user"}
CreateUserRefused == ("realm" \notin kc \/ "user" \in kc) /\ UNCHANGED kc
CreateUserError   == "realm" \in kc /\ (kc' = kc \/ kc' = kc \cup {"user"})

SetPasswordOk      == "user" \in kc /\ kc' = kc \cup {"password"}
SetPasswordRefused == "user" \notin kc /\ UNCHANGED kc
SetPasswordError   == "user" \in kc /\ (kc' = kc \/ kc' = kc \cup {"password"})

=============================================================================
