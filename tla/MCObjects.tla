----------------------------- MODULE MCObjects -----------------------------
(***************************************************************************)
(* The documents the detectors are checked on.                             *)
(***************************************************************************)
EXTENDS Documents, Integers, Sequences, TLC

SeqsUpTo(S, n) == UNION {[1 .. k -> S] : k \in 0 .. n}

Strings(seq) == List([n \in DOMAIN seq |-> Str(seq[n])])

\* A mapping with a field, or one without it.
Optional(field, values) == {<< >>} \cup {field :> v : v \in values}

\* Mappings that have each of the fields in one of the given ways.
Both(S, T)    == {s @@ t : s \in S, t \in T}
Maps(S)       == {Map(s) : s \in S}
WithSpec(S)   == {Map("spec" :> spec) : spec \in S}

-----------------------------------------------------------------------------
(* NetworkPolicies.                                                        *)

Expression(operator, values) ==
  Map([key |-> Str("app"), operator |-> Str(operator), values |-> Strings(values)])

OnX == Map("app" :> Str("x"))

Selectors ==
  {Null, Map(<< >>), Map("matchLabels" :> OnX), Map("matchLabels" :> Null),
   Map("matchLabels" :> Map(<< >>) @@ "matchExpressions" :> List(<< >>)),
   Map("matchLabels" :> Map(<< >>) @@ "matchExpressions" :> List(<<Expression("Exists", << >>)>>)),
   Map("matchExpressions" :> List(<<Expression("In", <<"x", "y">>)>>)),
   Map("matchExpressions" :> List(<<Expression("NotIn", <<"y">>)>>)),
   Map("matchExpressions" :> List(<<Expression("DoesNotExist", << >>)>>))}

Cidr(family, bits) == [family |-> family, bits |-> bits]

Blocks ==
  Maps(Both({"cidr" :> Str(Cidr("IPv4", bits)) : bits \in {<<0>>, << >>}},
            Optional("except", {Null, List(<< >>), Strings(<<Cidr("IPv4", <<0, 1>>)>>)})))
  \cup
  Maps(Both({"cidr" :> Str(Cidr("IPv6", bits)) : bits \in {<<1, 0>>, << >>}},
            Optional("except", {List(<< >>), Strings(<<Cidr("IPv6", <<1, 0, 0>>)>>)})))
  \cup
  {Map("cidr" :> Str(Cidr("none", << >>)))}

Peers ==
  Maps(Both(Optional("podSelector", Selectors), Optional("namespaceSelector", Selectors)))
    \cup Maps(Optional("ipBlock", Blocks))

NarrowPeer == Map("podSelector" :> Map("matchLabels" :> OnX))
BroadPod   == Map("podSelector" :> Map(<< >>))

Rules(key) ==
  {Map(<< >>), Map(key :> Null), Map(key :> List(<< >>)), Map(key :> List(<<NarrowPeer>>)),
   Map(key :> List(<<NarrowPeer, BroadPod>>))}

RuleLists(key) ==
  {List(<< >>), List(<<Map(key :> List(<<NarrowPeer>>))>>),
   List(<<Map(key :> List(<<NarrowPeer>>)), Map(<< >>)>>)}

OpenPolicy == Map("spec" :> Map("ingress" :> List(<<Map(<< >>)>>)))

NetworkPolicies ==
  WithSpec(Maps(
    Both(Both(Optional("podSelector", {Map(<< >>), Map("matchLabels" :> OnX)}),
              Optional("policyTypes", {Strings(t) : t \in SeqsUpTo({"Ingress", "Egress"}, 2)})),
         Both(Optional("ingress", RuleLists("from")), Optional("egress", RuleLists("to"))))))
  \cup WithSpec({Map("ingress" :> List(<<Map("from" :> List(<<peer>>))>>)) : peer \in Peers})
  \cup WithSpec({Map("egress" :> List(<<rule>>)) : rule \in Rules("to")})
  \cup WithSpec({Map("podSelector" :> s @@ "ingress" :> List(<<Map(<< >>)>>)) : s \in Selectors})
  \cup {Map(<< >>), Map("spec" :> Null), OpenPolicy}

-----------------------------------------------------------------------------
(* Pods.                                                                   *)

Cap(prefixes, name, upper) == [name |-> name, prefixes |-> prefixes, upper |-> upper]

Capabilities ==
  {Cap(0, "SYS_ADMIN", TRUE), Cap(1, "SYS_PTRACE", FALSE), Cap(0, "NET_RAW", TRUE),
   Cap(1, "NET_ADMIN", TRUE), Cap(0, "CHOWN", TRUE), Cap(2, "SYS_ADMIN", TRUE)}

Adds(caps) ==
  Map("securityContext" :> Map("capabilities" :> Map("add" :> Strings(caps))))

ContainerLists == {"containers", "initContainers", "ephemeralContainers"}

WithCapabilities ==
  {Map(list :> List(<<Adds(caps)>>)) : list \in ContainerLists, caps \in SeqsUpTo(Capabilities, 2)}
  \cup {Map("initContainers" :> List(<<Adds(<<c>>)>>) @@ "containers" :> List(<<Adds(<<d>>), Adds(<<c>>)>>)) :
          c \in Capabilities, d \in Capabilities}

HostPaths ==
  {<<"">>, <<"etc">>, <<"etc", "ssl", "">>, <<"etcd">>, <<"var">>, <<"var", "run", "x">>, <<"", "etc">>}

Volume(name, path) == Map([name |-> Str(name), hostPath |-> Map("path" :> Str(path))])

Mounting(field, name) == Map(field :> List(<<Map("name" :> Str(name))>>))

WithVolumes ==
  {Map("volumes" :> List(<<Volume("v", p), Volume("w", q), Map("name" :> Str("v"))>>)
       @@ "containers" :> List(<<Mounting("volumeMounts", m)>>)
       @@ list :> List(<<Mounting("volumeDevices", n)>>)) :
     p \in HostPaths, q \in HostPaths, m \in {"v", "x"}, n \in {"w", "x"},
     list \in {"ephemeralContainers", "initContainers"}}
  \cup {Map("volumes" :> List(<<Map([name |-> Str("v"), hostPath |-> Map(<< >>)])>>)
            @@ "containers" :> List(<<Mounting("volumeMounts", "v")>>))}

WithHost ==
  Maps(Both(Both(Optional("hostNetwork", {Bool(TRUE), Bool(FALSE)}),
                 Optional("hostPID", {Bool(TRUE), Str("true")})),
            Both(Optional("hostIPC", {Bool(TRUE)}),
                 {list :> List(<<Map("securityContext" :> Map("privileged" :> p))>>) :
                    p \in {Bool(TRUE), Bool(FALSE), Str("true")}, list \in ContainerLists})))

PrivilegedSpec ==
  Map("containers" :> List(<<Map("securityContext" :> Map("privileged" :> Bool(TRUE)))>>))

Privileged == Map("spec" :> PrivilegedSpec)

\* The documents of a kind with a pod specification where it belongs, or where it
\* belongs in another kind.
InTemplate(spec) == Map("spec" :> Map("template" :> Map("spec" :> spec)))
InJob(spec)      == Map("spec" :> Map("jobTemplate" :> InTemplate(spec)))

Templates(kind) ==
  CASE kind = "Pod" -> WithSpec(WithCapabilities \cup WithVolumes \cup WithHost)
    [] OTHER -> {Privileged} \cup {InTemplate(spec) : spec \in WithHost}
                  \cup {InJob(spec) : spec \in WithHost}

-----------------------------------------------------------------------------
(* SecurityContextConstraints.                                             *)

Escalations ==
  Both(Optional("allowPrivilegeEscalation", {Bool(TRUE), Bool(FALSE)}),
       Optional("defaultAllowPrivilegeEscalation", {Bool(TRUE), Bool(FALSE)}))

Settings ==
  {<< >>}
  \cup {field :> Bool(b) : field \in {"allowPrivilegedContainer", "allowHostNetwork",
          "allowHostPID", "allowHostIPC", "allowHostPorts", "allowHostDirVolumePlugin"},
          b \in BOOLEAN}
  \cup {field :> Strings(caps) : field \in {"allowedCapabilities", "defaultAddCapabilities"},
          caps \in SeqsUpTo({Cap(0, "*", TRUE), Cap(1, "NET_RAW", FALSE), Cap(0, "CHOWN", TRUE)}, 1)}
  \cup {field :> Strings(<<v>>) : field \in {"volumes", "allowedUnsafeSysctls", "seccompProfiles"},
          v \in {"*", "secret"}}
  \cup {field :> Map("type" :> Str(t)) : field \in {"runAsUser", "seLinuxContext", "fsGroup",
          "supplementalGroups"}, t \in {"RunAsAny", "MustRunAs"}}

Groups ==
  {<<"*">>, <<"team">>, <<"system", "authenticated">>, <<"system", "unauthenticated">>,
   <<"system", "serviceaccounts">>, <<"system", "serviceaccounts", "n">>, <<"system", "masters">>}

Subjects ==
  Both(Optional("users", {Strings(<<<<"jane">>>>)}),
       Optional("groups", {Strings(g) : g \in SeqsUpTo(Groups, 2)}))

Named == {<< >>, "users" :> Strings(<<<<"jane">>>>), "groups" :> Strings(<<<<"team">>>>)}

SCCs ==
  Maps(Both(Both(Settings, {"allowPrivilegeEscalation" :> Bool(FALSE)}), Named))
  \cup Maps(Both(Escalations, Named))
  \cup Maps(Both({"allowHostPID" :> Bool(TRUE)}, Subjects))

-----------------------------------------------------------------------------
(* Services, Ingresses and Routes.                                         *)

Services ==
  WithSpec(Maps(Both(
    Optional("type", {Str(t) : t \in {"ClusterIP", "NodePort", "LoadBalancer", "ExternalName"}}),
    Optional("externalIPs", {Strings(<< >>), Strings(<<"192.0.2.1">>), Str("192.0.2.1")}))))

HostNames ==
  {<<"a", "com">>, <<"*", "com">>, <<"b", "a", "com">>, <<"*", "a", "com">>}

IngressRules == {Map(<< >>)} \cup {Map("host" :> Str(host)) : host \in HostNames}

TLSEntries ==
  {Map(<< >>)} \cup {Map("hosts" :> Strings(hosts)) : hosts \in SeqsUpTo(HostNames, 1)}

\* Two entries, each with a host.
TwoEntries(host) == List(<<Map("hosts" :> Strings(<<<<"b", "a", "com">>>>)),
                       Map("hosts" :> Strings(<<host>>))>>)

Ingresses ==
  WithSpec(Maps(Both(Both(
    Optional("rules", {List(rules) : rules \in SeqsUpTo(IngressRules, 2)}),
    Optional("defaultBackend", {Map(<< >>)})),
    Optional("tls", {List(tls) : tls \in SeqsUpTo(TLSEntries, 1)}
                      \cup {TwoEntries(<<"a", "com">>), TwoEntries(<<"*", "com">>)}))))

Routes ==
  WithSpec(Maps(Both(
    Optional("wildcardPolicy", {Str("None"), Str("Subdomain")}),
    Optional("tls", {Null} \cup Maps(Both(
      Optional("termination", {Str("edge"), Str("passthrough")}),
      Optional("insecureEdgeTerminationPolicy", {Str("Allow"), Str("Redirect")})))))))

-----------------------------------------------------------------------------
(* Secrets.                                                                *)

SecretKey(parts, bare) == [parts |-> parts, bare |-> bare]

\* token, and .token or Token; db.password; api_key, of which no part is in the table.
SecretKeys ==
  {SecretKey(<<"token">>, TRUE), SecretKey(<<"token">>, FALSE),
   SecretKey(<<"db", "password">>, FALSE), SecretKey(<<"api", "key">>, FALSE),
   SecretKey(<<"username">>, TRUE)}

Annotated == "annotations" :> Map("kubernetes.io/service-account.name" :> Str("a"))

TokenSecret ==
  Map("metadata" :> Map(Annotated) @@ "stringData" :> Map(SecretKey(<<"token">>, TRUE) :> Str("?")))

KeyMaps == {[key \in {k, l} |-> Str("?")] : k, l \in SecretKeys} \cup {<< >>}

SecretDocs ==
  Maps(Both(Both(Optional("type", {Str(t) : t \in {"Opaque", "kubernetes.io/tls",
                                            "kubernetes.io/service-account-token"}}),
                 Optional("metadata", {Map(Annotated)})),
            Both(Optional("data", Maps(KeyMaps)), Optional("stringData", Maps(KeyMaps)))))

-----------------------------------------------------------------------------

DocumentsOf(map) ==
  CASE map = "networkPolicies" -> NetworkPolicies
    [] map = "services"  -> Services
    [] map = "ingresses" -> Ingresses
    [] map = "routes"    -> Routes
    [] map = "secrets"   -> SecretDocs

=============================================================================
