------------------------------- MODULE Naming -------------------------------
(***************************************************************************)
(* The names that initStruct derives for a DevEnv and where the objects of *)
(* that name live.  Names are joined with dashes, so a name is kept as the *)
(* sequence of the words between its dashes and joining is concatenation:  *)
(* "a-b" is <<"a", "b">>.                                                  *)
(***************************************************************************)
EXTENDS Naturals, Sequences

CONSTANTS
    Words,            \* what can stand between two dashes
    SubDomain,        \* words of CNDE_SUBDOMAIN, <<>> when it is not set
    ManagerNamespace  \* words of CNDE_MANAGER_NAMESPACE

\* The operator's own namespace is not one that it makes for a DevEnv: the
\* manifests call it c-n-d-e-system.
ASSUME NamingAssumption ==
    /\ {"cnde", "oauth", "proxy", "ui", "build", "init", "vm", "home", "docker",
        "storage"} \subseteq Words
    /\ SubDomain \in Seq(Words)
    /\ ManagerNamespace \in Seq(Words)
    /\ ManagerNamespace # <<>> /\ ManagerNamespace[1] # "cnde"

DevEnvNames == Seq(Words)

\* Mutant of resourceName: with a subdomain the name of the DevEnv is forgotten.
resourceNameOfSubDomain(name) ==
    IF SubDomain = <<>> THEN <<"cnde">> \o name ELSE <<"cnde">> \o SubDomain

resourceName(name) == <<"cnde">> \o (SubDomain \o name)

serviceAccountName == <<"cnde">>
DevEnvNamespace(name) == resourceName(name)

suffix ==
    [homeClaim   |-> <<"home", "storage">>, vmClaim      |-> <<"vm", "storage">>,
     dockerClaim |-> <<"docker", "storage">>,
     build       |-> <<"build">>,           init         |-> <<"init">>,
     uiIngress   |-> <<"ui">>,              oauthIngress |-> <<"oauth">>,
     proxyPod    |-> <<"oauth", "proxy">>,  proxySecret  |-> <<"oauth", "proxy">>,
     proxyService |-> <<"oauth", "proxy">>]

\* What Reconcile gets or creates, by the name of the variable it is read into,
\* with the kind of the Kubernetes API.
api ==
    [serviceAccount |-> "ServiceAccount", roleBinding |-> "RoleBinding",
     clusterRoleBinding |-> "ClusterRoleBinding",
     vmClaim |-> "PersistentVolumeClaim", homeClaim |-> "PersistentVolumeClaim",
     dockerClaim |-> "PersistentVolumeClaim",
     build |-> "Pod", init |-> "Pod", ide |-> "Pod", proxyPod |-> "Pod",
     service |-> "Service", proxyService |-> "Service", endpoints |-> "Endpoints",
     uiIngress |-> "Ingress", oauthIngress |-> "Ingress", proxySecret |-> "Secret"]

AllKinds == DOMAIN api

InDevEnvNamespace ==
    {"serviceAccount", "roleBinding", "vmClaim", "homeClaim", "dockerClaim", "init", "ide"}

NameOf(kind, name) ==
    CASE kind = "serviceAccount" -> serviceAccountName
      [] kind \in DOMAIN suffix  -> resourceName(name) \o suffix[kind]
      [] OTHER                   -> resourceName(name)

NamespaceOf(kind, name) ==
    CASE kind = "clusterRoleBinding"   -> <<>>
      [] kind \in InDevEnvNamespace    -> DevEnvNamespace(name)
      [] OTHER                         -> ManagerNamespace

\* Two objects of one kind in one namespace with one name are one object.
Key(kind, name) == <<api[kind], NamespaceOf(kind, name), NameOf(kind, name)>>

\* The Service of one DevEnv has the name of the other's proxy Service.
Clash(m, n) == m = n \o <<"oauth", "proxy">>

=============================================================================
