---------------------------- MODULE NamingProofs ----------------------------
(***************************************************************************)
(* The names of initStruct keep the DevEnvs apart: whatever the subdomain  *)
(* and whatever the names of the DevEnvs are, two objects share a key of   *)
(* the API server only if they are the same object of the same DevEnv, or  *)
(* if one DevEnv is named like the other's proxy (Clash).                  *)
(***************************************************************************)
EXTENDS Naming, SequenceTheorems, TLAPS

USE DEF DevEnvNames

\* Joining is injective in what is joined, on either side.
LEMMA CancelLeft ==
    ASSUME NEW s \in Seq(Words), NEW t \in Seq(Words), NEW v \in Seq(Words),
           s \o t = s \o v
    PROVE  t = v
BY ConcatSimplifications

LEMMA CancelRight ==
    ASSUME NEW s \in Seq(Words), NEW t \in Seq(Words), NEW v \in Seq(Words),
           s \o v = t \o v
    PROVE  s = t
BY ConcatSimplifications

LEMMA NothingAdded ==
    ASSUME NEW s \in Seq(Words), NEW t \in Seq(Words), s \o t = s
    PROVE  t = <<>>
BY ConcatSimplifications

\* What initStruct makes of a name are words again, that begin with cnde.
LEMMA ResourceNameType ==
    ASSUME NEW m \in DevEnvNames
    PROVE  /\ resourceName(m) \in Seq(Words)
           /\ resourceName(m) # <<>>
           /\ resourceName(m)[1] = "cnde"
<1>1. <<"cnde">> \in Seq(Words) /\ SubDomain \o m \in Seq(Words)
    BY NamingAssumption, ConcatProperties
<1>2. resourceName(m) \in Seq(Words)
    BY <1>1, ConcatProperties DEF resourceName
<1>3. Len(resourceName(m)) = 1 + Len(SubDomain \o m)
    BY <1>1, ConcatProperties DEF resourceName
<1>4. Len(SubDomain \o m) \in Nat
    BY <1>1, LenProperties
<1>5. resourceName(m)[1] = "cnde"
    <2>1. 1 \in 1 .. Len(<<"cnde">>) + Len(SubDomain \o m) /\ 1 <= Len(<<"cnde">>)
        BY <1>4
    <2>2. (<<"cnde">> \o (SubDomain \o m))[1] = <<"cnde">>[1]
        BY <1>1, <2>1, ConcatProperties
    <2> QED BY <2>2 DEF resourceName
<1> QED BY <1>2, <1>3, <1>4, <1>5, EmptySeq

\* Equal resource names are those of one DevEnv.
LEMMA ResourceNameInjective ==
    ASSUME NEW m \in DevEnvNames, NEW n \in DevEnvNames,
           resourceName(m) = resourceName(n)
    PROVE  m = n
<1>1. <<"cnde">> \in Seq(Words) /\ SubDomain \in Seq(Words)
    BY NamingAssumption
<1>2. SubDomain \o m \in Seq(Words) /\ SubDomain \o n \in Seq(Words)
    BY <1>1, ConcatProperties
<1>3. SubDomain \o m = SubDomain \o n
    BY <1>1, <1>2, CancelLeft DEF resourceName
<1> QED BY <1>1, <1>3, CancelLeft

\* A DevEnv's namespace is never the operator's.
LEMMA NamespacesApart ==
    ASSUME NEW m \in DevEnvNames
    PROVE  DevEnvNamespace(m) # ManagerNamespace
BY ResourceNameType, NamingAssumption DEF DevEnvNamespace

\* What is appended last is the last word.
LEMMA LastWord ==
    ASSUME NEW s \in Seq(Words), NEW t \in Seq(Words),
           NEW a \in Seq(Words), NEW b \in Seq(Words),
           a # <<>>, b # <<>>, s \o a = t \o b
    PROVE  a[Len(a)] = b[Len(b)]
<1>1. /\ Len(a) \in Nat \ {0} /\ Len(b) \in Nat \ {0}
      /\ Len(s) \in Nat /\ Len(t) \in Nat
    BY EmptySeq, LenProperties
<1>2. Len(s) + Len(a) = Len(t) + Len(b)
    BY ConcatProperties
<1>3. (s \o a)[Len(s) + Len(a)] = a[Len(a)]
    BY <1>1, ConcatProperties
<1>4. (t \o b)[Len(t) + Len(b)] = b[Len(b)]
    BY <1>1, ConcatProperties
<1> QED BY <1>2, <1>3, <1>4

\* Suffixes are words, none of them is empty.
LEMMA SuffixType ==
    ASSUME NEW k \in DOMAIN suffix
    PROVE  suffix[k] \in Seq(Words) /\ suffix[k] # <<>>
<1>1. /\ <<"oauth", "proxy">> \in Seq(Words) /\ <<"oauth", "proxy">> # <<>>
      /\ <<"home", "storage">> \in Seq(Words) /\ <<"home", "storage">> # <<>>
      /\ <<"vm", "storage">> \in Seq(Words) /\ <<"vm", "storage">> # <<>>
      /\ <<"docker", "storage">> \in Seq(Words) /\ <<"docker", "storage">> # <<>>
    BY NamingAssumption
<1>2. /\ <<"build">> \in Seq(Words) /\ <<"build">> # <<>>
      /\ <<"init">> \in Seq(Words) /\ <<"init">> # <<>>
      /\ <<"ui">> \in Seq(Words) /\ <<"ui">> # <<>>
      /\ <<"oauth">> \in Seq(Words) /\ <<"oauth">> # <<>>
    BY NamingAssumption
<1>3. suffix[k] \in {<<"oauth", "proxy">>, <<"home", "storage">>, <<"vm", "storage">>,
                     <<"docker", "storage">>, <<"build">>, <<"init">>, <<"ui">>, <<"oauth">>}
    BY DEF suffix
<1> QED BY <1>1, <1>2, <1>3

\* NameOf, kind by kind, where kinds share an API and a place.
LEMMA Names ==
    ASSUME NEW p \in DevEnvNames
    PROVE  /\ NameOf("init", p) = resourceName(p) \o <<"init">>
           /\ NameOf("ide", p) = resourceName(p)
           /\ NameOf("build", p) = resourceName(p) \o <<"build">>
           /\ NameOf("proxyPod", p) = resourceName(p) \o <<"oauth", "proxy">>
           /\ NameOf("service", p) = resourceName(p)
           /\ NameOf("proxyService", p) = resourceName(p) \o <<"oauth", "proxy">>
           /\ NameOf("uiIngress", p) = resourceName(p) \o <<"ui">>
           /\ NameOf("oauthIngress", p) = resourceName(p) \o <<"oauth">>
<1>1. \A k \in {"init", "build", "proxyPod", "proxyService", "uiIngress", "oauthIngress"} :
          k \in DOMAIN suffix /\ k # "serviceAccount"
    BY DEF suffix
<1>2. \A k \in {"ide", "service"} : k \notin DOMAIN suffix /\ k # "serviceAccount"
    BY DEF suffix
<1>3. \A k \in DOMAIN suffix : k # "serviceAccount" => NameOf(k, p) = resourceName(p) \o suffix[k]
    BY DEF NameOf
<1>4. NameOf("ide", p) = resourceName(p) /\ NameOf("service", p) = resourceName(p)
    BY <1>2 DEF NameOf
<1>5. /\ suffix["init"] = <<"init">> /\ suffix["build"] = <<"build">>
      /\ suffix["proxyPod"] = <<"oauth", "proxy">>
      /\ suffix["proxyService"] = <<"oauth", "proxy">>
      /\ suffix["uiIngress"] = <<"ui">> /\ suffix["oauthIngress"] = <<"oauth">>
    BY DEF suffix
<1> QED BY <1>1, <1>3, <1>4, <1>5

\* No name ends in one suffix and in another one with a different last word.
LEMMA EndsApart ==
    ASSUME NEW s \in Seq(Words), NEW t \in Seq(Words)
    PROVE  /\ s \o <<"build">> # t \o <<"oauth", "proxy">>
           /\ s \o <<"ui">> # t \o <<"oauth">>
<1>1. /\ <<"build">> \in Seq(Words) /\ <<"oauth", "proxy">> \in Seq(Words)
      /\ <<"ui">> \in Seq(Words) /\ <<"oauth">> \in Seq(Words)
    BY NamingAssumption
<1>2. s \o <<"build">> = t \o <<"oauth", "proxy">>
        => <<"build">>[Len(<<"build">>)] = <<"oauth", "proxy">>[Len(<<"oauth", "proxy">>)]
    <2>1. <<"build">> # <<>> /\ <<"oauth", "proxy">> # <<>> OBVIOUS
    <2> QED BY <1>1, <2>1, LastWord
<1>3. s \o <<"ui">> = t \o <<"oauth">>
        => <<"ui">>[Len(<<"ui">>)] = <<"oauth">>[Len(<<"oauth">>)]
    <2>1. <<"ui">> # <<>> /\ <<"oauth">> # <<>> OBVIOUS
    <2> QED BY <1>1, <2>1, LastWord
<1> QED BY <1>2, <1>3

\* Objects of one kind in one place have a name of their own for each DevEnv.
LEMMA SameKind ==
    ASSUME NEW k \in AllKinds, NEW m \in DevEnvNames, NEW n \in DevEnvNames,
           Key(k, m) = Key(k, n)
    PROVE  m = n
<1>1. NameOf(k, m) = NameOf(k, n) /\ NamespaceOf(k, m) = NamespaceOf(k, n)
    BY DEF Key
<1>2. CASE k = "serviceAccount"
    BY <1>1, <1>2, ResourceNameInjective
       DEF NamespaceOf, InDevEnvNamespace, DevEnvNamespace
<1>3. CASE k \in DOMAIN suffix
    <2>1. k # "serviceAccount" BY <1>3 DEF suffix
    <2>2. resourceName(m) \o suffix[k] = resourceName(n) \o suffix[k]
        BY <1>1, <1>3, <2>1 DEF NameOf
    <2>3. resourceName(m) = resourceName(n)
        BY <1>3, <2>2, SuffixType, ResourceNameType, CancelRight
    <2> QED BY <2>3, ResourceNameInjective
<1>4. CASE k # "serviceAccount" /\ k \notin DOMAIN suffix
    BY <1>1, <1>4, ResourceNameInjective DEF NameOf
<1> QED BY <1>2, <1>3, <1>4

\* Objects of different kinds share a key only through Clash.
LEMMA OtherKind ==
    ASSUME NEW k \in AllKinds, NEW l \in AllKinds, k # l,
           NEW m \in DevEnvNames, NEW n \in DevEnvNames,
           Key(k, m) = Key(l, n)
    PROVE  Clash(m, n) \/ Clash(n, m)
<1>1. /\ NameOf(k, m) = NameOf(l, n) /\ NamespaceOf(k, m) = NamespaceOf(l, n)
      /\ api[k] = api[l]
    BY DEF Key
<1>2. \/ {k, l} \subseteq {"vmClaim", "homeClaim", "dockerClaim"}
      \/ {k, l} \subseteq {"build", "init", "ide", "proxyPod"}
      \/ {k, l} \subseteq {"service", "proxyService"}
      \/ {k, l} \subseteq {"uiIngress", "oauthIngress"}
    BY <1>1 DEF api, AllKinds
<1>3. CASE {k, l} \subseteq {"vmClaim", "homeClaim", "dockerClaim"}
    <2>1. m = n
        BY <1>1, <1>3, ResourceNameInjective
           DEF NamespaceOf, InDevEnvNamespace, DevEnvNamespace
    <2>2. k \in DOMAIN suffix /\ l \in DOMAIN suffix BY <1>3 DEF suffix
    <2>3. resourceName(m) \o suffix[k] = resourceName(m) \o suffix[l]
        BY <1>1, <1>3, <2>1, <2>2 DEF NameOf
    <2>4. suffix[k] = suffix[l]
        BY <2>2, <2>3, SuffixType, ResourceNameType, CancelLeft
    <2>5. suffix[k][1] # suffix[l][1] BY <1>3 DEF suffix
    <2> QED BY <2>4, <2>5
<1>4. CASE {k, l} \subseteq {"build", "init", "ide", "proxyPod"}
    <2>1. CASE {k, l} = {"init", "ide"}
        <3>1. m = n
            BY <1>1, <2>1, ResourceNameInjective
               DEF NamespaceOf, InDevEnvNamespace, DevEnvNamespace
        <3>2. NameOf("init", m) = NameOf("ide", m)
            <4>1. \/ k = "init" /\ l = "ide"
                  \/ k = "ide" /\ l = "init"
                BY <2>1
            <4> QED BY <1>1, <3>1, <4>1
        <3>3. resourceName(m) \o <<"init">> = resourceName(m)
            BY <3>2, Names
        <3>4. <<"init">> \in Seq(Words) /\ resourceName(m) \in Seq(Words)
            BY NamingAssumption, ResourceNameType
        <3>5. <<"init">> = <<>>
            BY <3>3, <3>4, NothingAdded
        <3> QED BY <3>5
    <2>2. CASE {k, l} = {"build", "proxyPod"}
        <3>1. \/ NameOf("build", m) = NameOf("proxyPod", n)
              \/ NameOf("build", n) = NameOf("proxyPod", m)
            BY <1>1, <2>2
        <3>2. \/ resourceName(m) \o <<"build">> = resourceName(n) \o <<"oauth", "proxy">>
              \/ resourceName(n) \o <<"build">> = resourceName(m) \o <<"oauth", "proxy">>
            BY <3>1, Names
        <3>3. resourceName(m) \in Seq(Words) /\ resourceName(n) \in Seq(Words)
            BY ResourceNameType
        <3> QED BY <3>2, <3>3, EndsApart
    <2>3. CASE {k, l} # {"init", "ide"} /\ {k, l} # {"build", "proxyPod"}
        <3>1. \/ k \in {"init", "ide"} /\ l \in {"build", "proxyPod"}
              \/ l \in {"init", "ide"} /\ k \in {"build", "proxyPod"}
            BY <1>4, <2>3
        <3>2. DevEnvNamespace(m) = ManagerNamespace \/ DevEnvNamespace(n) = ManagerNamespace
            BY <1>1, <3>1 DEF NamespaceOf, InDevEnvNamespace
        <3> QED BY <3>2, NamespacesApart
    <2> QED BY <2>1, <2>2, <2>3
<1>5. CASE {k, l} \subseteq {"service", "proxyService"}
    <2>1. ASSUME NEW p \in DevEnvNames, NEW q \in DevEnvNames,
                 resourceName(p) = resourceName(q) \o <<"oauth", "proxy">>
          PROVE  Clash(p, q)
        <3>1. /\ <<"cnde">> \in Seq(Words) /\ SubDomain \in Seq(Words)
              /\ <<"oauth", "proxy">> \in Seq(Words)
            BY NamingAssumption
        <3>2. /\ SubDomain \o q \in Seq(Words) /\ SubDomain \o p \in Seq(Words)
              /\ q \o <<"oauth", "proxy">> \in Seq(Words)
            BY <3>1, ConcatProperties
        <3>3. SubDomain \o (q \o <<"oauth", "proxy">>) \in Seq(Words)
            BY <3>1, <3>2, ConcatProperties
        <3>4. resourceName(q) \o <<"oauth", "proxy">>
                = <<"cnde">> \o ((SubDomain \o q) \o <<"oauth", "proxy">>)
            BY <3>1, <3>2, ConcatAssociative DEF resourceName
        <3>5. (SubDomain \o q) \o <<"oauth", "proxy">>
                = SubDomain \o (q \o <<"oauth", "proxy">>)
            BY <3>1, ConcatAssociative
        <3>6. <<"cnde">> \o (SubDomain \o p)
                = <<"cnde">> \o (SubDomain \o (q \o <<"oauth", "proxy">>))
            BY <2>1, <3>4, <3>5 DEF resourceName
        <3>7. SubDomain \o p = SubDomain \o (q \o <<"oauth", "proxy">>)
            BY <3>1, <3>2, <3>3, <3>6, CancelLeft
        <3>8. p = q \o <<"oauth", "proxy">>
            BY <3>1, <3>2, <3>7, CancelLeft
        <3> QED BY <3>8 DEF Clash
    <2>2. \/ resourceName(m) = resourceName(n) \o <<"oauth", "proxy">>
          \/ resourceName(n) = resourceName(m) \o <<"oauth", "proxy">>
        <3>1. \/ NameOf("service", m) = NameOf("proxyService", n)
              \/ NameOf("service", n) = NameOf("proxyService", m)
            BY <1>1, <1>5
        <3> QED BY <3>1, Names
    <2> QED BY <2>1, <2>2
<1>6. CASE {k, l} \subseteq {"uiIngress", "oauthIngress"}
    <2>1. \/ NameOf("uiIngress", m) = NameOf("oauthIngress", n)
          \/ NameOf("uiIngress", n) = NameOf("oauthIngress", m)
        BY <1>1, <1>6
    <2>2. \/ resourceName(m) \o <<"ui">> = resourceName(n) \o <<"oauth">>
          \/ resourceName(n) \o <<"ui">> = resourceName(m) \o <<"oauth">>
        BY <2>1, Names
    <2>3. resourceName(m) \in Seq(Words) /\ resourceName(n) \in Seq(Words)
        BY ResourceNameType
    <2> QED BY <2>2, <2>3, EndsApart
<1> QED BY <1>2, <1>3, <1>4, <1>5, <1>6

\* Two DevEnvs of which neither is named like the other's proxy share no object
\* (initStruct, lines 603-660, and the Get and Create calls of Reconcile).
THEOREM KeysApart ==
    ASSUME NEW k \in AllKinds, NEW l \in AllKinds,
           NEW m \in DevEnvNames, NEW n \in DevEnvNames,
           ~Clash(m, n), ~Clash(n, m), Key(k, m) = Key(l, n)
    PROVE  k = l /\ m = n
BY SameKind, OtherKind

=============================================================================
