-------------------------- MODULE DetectorContract --------------------------
(***************************************************************************)
(* What the detectors of Analyze promise, in terms of what an object means *)
(* to the cluster: which pods and addresses a policy admits, which hosts   *)
(* are served, what the host shares with a container.  The API server      *)
(* would accept the objects of an input, where it matters to a definition  *)
(* below (IsWellFormed...).                                                *)
(***************************************************************************)
EXTENDS AnalysisContract

CONSTANTS
  LabelNames, LabelValues,  \* what pods and namespaces may be labelled with
  AddressBits,              \* how long the addresses of each family are
  HostLabels, Unnamed,      \* the labels of host names; one that no manifest writes
  MaxLabels                 \* and how many of them a name may have

\* The rules reported of an object, each with its severity.
Verdict(kind, obj) ==
  {[rule |-> f.rule, severity |-> f.severity] :
     f \in {g \in ToSet(findings) :
              /\ g.kind = kind /\ g.name = obj.name /\ g.namespace = obj.namespace
              /\ g.rule # "KC-013"}}

-----------------------------------------------------------------------------
(* NetworkPolicies.                                                        *)

\* The labels a pod or a namespace may have.
Labels == UNION {[names -> LabelValues] : names \in SUBSET LabelNames}

Meets(labels, expression) ==
  LET label    == At(expression, "key").string
      operator == At(expression, "operator").string
      among    == label \in DOMAIN labels
                    /\ labels[label] \in StringItems(At(expression, "values"))
  IN  CASE operator = "In"           -> among
        [] operator = "NotIn"        -> ~among
        [] operator = "Exists"       -> label \in DOMAIN labels
        [] operator = "DoesNotExist" -> label \notin DOMAIN labels

Selects(selector, labels) ==
  LET wanted == Fields(At(selector, "matchLabels"))
  IN  /\ \A label \in DOMAIN wanted :
           label \in DOMAIN labels /\ wanted[label] = Str(labels[label])
      /\ \A expression \in ItemSet(At(selector, "matchExpressions")) : Meets(labels, expression)

\* Whether a peer is about pods of the policy's own or another namespace, and which
\* of them it lets through.
LooksInto(peer, home, namespaceLabels) ==
  LET namespaces == At(peer, "namespaceSelector")
  IN  IF namespaces # Null THEN Selects(namespaces, namespaceLabels)
      ELSE home /\ At(peer, "podSelector") # Null

LetsThrough(peer, podLabels) ==
  At(peer, "podSelector") # Null => Selects(At(peer, "podSelector"), podLabels)

\* Addresses of either family, and those in a block.
Families == {"IPv4", "IPv6"}

Addresses(family) == [family : {family}, bits : [1 .. AddressBits[family] -> {0, 1}]]

AddressesIn(cidr) ==
  IF cidr = NoPrefix THEN {}
  ELSE {address \in Addresses(cidr.family) : IsPrefix(cidr.bits, address.bits)}

Block(ipBlock) ==
  AddressesIn(StringOr(At(ipBlock, "cidr"), NoPrefix))
    \ UNION {AddressesIn(cidr) : cidr \in StringItems(At(ipBlock, "except"))}

\* No namespace is left out, or no pod of the policy's own, or no address there is.
IsBroad(peer) ==
  \/ DOMAIN peer.fields = {}
  \/ \A namespace \in Labels : LooksInto(peer, FALSE, namespace)
  \/ /\ \A namespace \in Labels : LooksInto(peer, TRUE, namespace)
     /\ \A pod \in Labels : LetsThrough(peer, pod)
  \/ \E family \in Families : Addresses(family) \subseteq Block(At(peer, "ipBlock"))

\* The peers of a rule, no list and an empty one standing for everybody.
AdmitsBroadly(rules, peers) ==
  \E rule \in MapItems(rules) :
    Items(At(rule, peers)) = << >> \/ \E peer \in MapItems(At(rule, peers)) : IsBroad(peer)

\* The directions a policy governs, as Kubernetes defaults them.
Governs(spec) ==
  LET types == StringItems(At(spec, "policyTypes"))
  IN  IF types = {} THEN {"Ingress"} \cup {d \in {"Egress"} : Items(At(spec, "egress")) # << >>}
      ELSE types

\* Where a namespaceSelector is written but null, the code passes over the
\* podSelector beside it.
HidesPodSelector(spec) ==
  \E rule \in MapItems(At(spec, "ingress")) \cup MapItems(At(spec, "egress")) :
    \E peer \in MapItems(At(rule, "from")) \cup MapItems(At(rule, "to")) :
      Has(peer, "namespaceSelector") /\ At(peer, "namespaceSelector") = Null

\* Selectors have labels and expressions, and cidrs fit the addresses: those a block
\* leaves out are of its family.
IsWellFormedSelector(selector) ==
  LET expressions == At(selector, "matchExpressions")
  IN  selector # Null =>
        /\ IsMap(selector) /\ DOMAIN selector.fields \subseteq {"matchLabels", "matchExpressions"}
        /\ At(selector, "matchLabels") = Null \/ IsMap(At(selector, "matchLabels"))
        /\ expressions = Null \/ IsList(expressions)
        /\ Listing(expressions)
        /\ \A e \in ItemSet(expressions) :
             /\ At(e, "operator").string \in {"In", "NotIn", "Exists", "DoesNotExist"}
             /\ At(e, "key").string \in LabelNames
             /\ At(e, "operator").string = "NotIn" =>
                  StringItems(At(e, "values")) \cap LabelValues # {}

IsCidr(cidr, family) ==
  /\ family \in Families /\ cidr.family = family
  /\ cidr.bits \in Seq({0, 1}) /\ Len(cidr.bits) <= AddressBits[family]

IsWellFormedBlock(ipBlock) ==
  LET cidr   == StringOr(At(ipBlock, "cidr"), NoPrefix)
      except == At(ipBlock, "except")
  IN  /\ cidr = NoPrefix \/ IsCidr(cidr, cidr.family)
      /\ except = Null \/ IsList(except)
      /\ Listing(except)
      /\ \A x \in ItemSet(except) : x.type = "string" /\ IsCidr(x.string, cidr.family)

IsWellFormedRule(rule, peers) ==
  /\ At(rule, peers) = Null \/ IsList(At(rule, peers))
  /\ \A peer \in MapItems(At(rule, peers)) :
       /\ IsWellFormedSelector(At(peer, "podSelector"))
       /\ IsWellFormedSelector(At(peer, "namespaceSelector"))
       /\ IsWellFormedBlock(At(peer, "ipBlock"))

IsWellFormedPolicy(spec) ==
  /\ IsWellFormedSelector(At(spec, "podSelector"))
  /\ \A rule \in MapItems(At(spec, "ingress")) : IsWellFormedRule(rule, "from")
  /\ \A rule \in MapItems(At(spec, "egress")) : IsWellFormedRule(rule, "to")

\* A policy is reported for a direction exactly if it governs the direction and some
\* rule lets through everything of a kind: judged by which pods and addresses the
\* peers admit, not by how they are written.  It is HIGH exactly if the policy
\* holds for every pod, whatever its labels.  A null namespaceSelector may hide
\* a broad peer, but never makes one up (networkpolicy.go:15-212).
PoliciesJudged ==
  Returned =>
    \A policy \in res.networkPolicies :
      LET spec     == At(policy.doc, "spec")
          severity == IF \A pod \in Labels : Selects(At(spec, "podSelector"), pod)
                      THEN SeverityHigh ELSE SeverityWarning
          broad    == TripIf("Ingress" \in Governs(spec) /\ AdmitsBroadly(At(spec, "ingress"), "from"),
                             "KC-017", severity)
                      \cup
                      TripIf("Egress" \in Governs(spec) /\ AdmitsBroadly(At(spec, "egress"), "to"),
                             "KC-018", severity)
          verdict  == Verdict("NetworkPolicy", policy)
      IN  /\ verdict \subseteq broad
          /\ verdict # broad => HidesPodSelector(spec)

-----------------------------------------------------------------------------
(* Pods and workloads.                                                     *)

Containers(podSpec) ==
  UNION {MapItems(At(podSpec, field)) :
           field \in {"containers", "initContainers", "ephemeralContainers"}}

\* What containers mount of the volumes, or map as devices.
Mounts(podSpec) ==
  UNION {MapItems(At(c, "volumeMounts")) \cup MapItems(At(c, "volumeDevices")) :
           c \in Containers(podSpec)}

\* A volume and a mount have a name, and a path is absolute: its first segment is
\* what follows the leading slash.
IsNamed(v) ==
  LET name == At(v, "name")
  IN  name.type = "string" /\ name = Str(name.string) /\ name.string # ""

IsPath(v) == v.type = "string" => v.string \in Seq(ToSet(v.string)) \ {<< >>}

IsWellFormedPod(podSpec) ==
  /\ \A v \in MapItems(At(podSpec, "volumes")) \cup Mounts(podSpec) : IsNamed(v)
  /\ \A v \in MapItems(At(podSpec, "volumes")) : IsPath(At(At(v, "hostPath"), "path"))

\* A path as the host resolves it: empty segments lead nowhere.
Resolved(path) == Sublist(path, {n \in DOMAIN path : path[n] # ""})

\* The root, and what is in a directory that gives the host away.
IsSensitive(path) ==
  \/ Resolved(path) = << >>
  \/ \E dir \in {<<"dev">>, <<"etc">>, <<"proc">>, <<"sys">>, <<"var", "run">>,
                 <<"var", "lib", "kubelet">>, <<"var", "lib", "containers">>} :
       IsPrefix(dir, Resolved(path))

\* A path with more than a slash at its end to leave out is compared as it is.
IsPlain(path) == \A n \in 1 .. Len(path) - 1 : path[n] # ""

\* HIGH if one of the things found is, whichever came first.
Worst(found, grave, rule) ==
  TripIf(found # {}, rule, IF found \cap grave # {} THEN SeverityHigh ELSE SeverityWarning)

\* A workload is judged like a Pod with the specification of its template, over all
\* containers whichever list they are in; the severity is that of the worst
\* thing found and not of the last, and a path of the host counts when some
\* container of the pod mounts it (workload_security.go:69-247).
PodsJudged ==
  Returned =>
    \A obj \in res.pods \cup res.workloads :
      LET podSpec    == PodSpec(obj.doc, obj.kind)
          containers == Containers(podSpec)
          Context(c) == At(c, "securityContext")
          privileged == {c \in containers : At(Context(c), "privileged") = Bool(TRUE)}
          shared     == {field \in {"hostNetwork", "hostPID", "hostIPC"} :
                           At(podSpec, field) = Bool(TRUE)}
          dangerous  == {cap \in UNION {StringItems(At(At(Context(c), "capabilities"), "add")) :
                                          c \in containers} :
                           IsOneOf(cap, dangerousCapabilities)}
          paths      == {StringOr(At(At(v, "hostPath"), "path"), <<"?">>) : v \in
                           {w \in MapItems(At(podSpec, "volumes")) :
                              /\ IsMap(At(w, "hostPath"))
                              /\ \E m \in Mounts(podSpec) : At(m, "name") = At(w, "name")}}
      IN  (\A path \in paths : IsPlain(path)) =>
            Verdict(obj.kind, obj) =
              Worst(privileged, privileged, "KC-019")
              \cup Worst(shared, shared, "KC-020")
              \cup Worst(paths, {path \in paths : IsSensitive(path)}, "KC-021")
              \cup Worst(dangerous, {cap \in dangerous : IsOneOf(cap, highRiskCapabilities)},
                         "KC-022")

-----------------------------------------------------------------------------
(* SecurityContextConstraints.                                             *)

\* Those who may ask a cluster for something, and the ones among them that it
\* puts into a group without anybody naming them.
Accounts == {<<"account", "n">>, <<"account", "m">>}
People   == {<<"anonymous">>, <<"person">>} \cup Accounts

Members(group) ==
  CASE group = <<"*">> -> People
    [] group = <<"system", "authenticated">>   -> People \ {<<"anonymous">>}
    [] group = <<"system", "unauthenticated">> -> {<<"anonymous">>}
    [] group = <<"system", "serviceaccounts">> -> Accounts
    [] Front(group) = <<"system", "serviceaccounts">> -> {<<"account", Last(group)>>}
    [] OTHER -> {}

\* Whether a container that does not say may gain privileges, or one may ask to:
\* the default counts first, and privileges are allowed where neither is set.
Escalates(doc) ==
  LET allow   == At(doc, "allowPrivilegeEscalation")
      default == At(doc, "defaultAllowPrivilegeEscalation")
      silent  == IF default # Null THEN default ELSE IF allow # Null THEN allow ELSE Bool(TRUE)
  IN  Bool(TRUE) \in {silent, allow}

\* The default and the permission are Booleans if they are set, and the group of the
\* accounts of a namespace ends with its name, which has no colon.
IsWellFormedSCC(doc) ==
  /\ \A field \in {"allowPrivilegeEscalation", "defaultAllowPrivilegeEscalation"} :
       At(doc, field) \in {Null, Bool(TRUE), Bool(FALSE)}
  /\ \A group \in StringItems(At(doc, "groups")) :
       /\ group \in Seq(ToSet(group))
       /\ IsPrefix(<<"system", "serviceaccounts">>, group) => Len(group) <= 3

Permits(doc) ==
  \/ Escalates(doc)
  \/ \E field \in {"allowPrivilegedContainer", "allowHostNetwork", "allowHostPID",
                   "allowHostIPC", "allowHostPorts", "allowHostDirVolumePlugin"} :
       At(doc, field) = Bool(TRUE)
  \/ \E field \in {"runAsUser", "seLinuxContext", "fsGroup", "supplementalGroups"} :
       At(At(doc, field), "type") = Str("RunAsAny")
  \/ \E field \in {"allowedCapabilities", "defaultAddCapabilities"} :
       \E cap \in StringItems(At(doc, field)) : IsOneOf(cap, dangerousCapabilities)
  \/ AnyCapability \in StringItems(At(doc, "allowedCapabilities"))
  \/ \E field \in {"volumes", "allowedUnsafeSysctls", "seccompProfiles"} :
       "*" \in StringItems(At(doc, field))

\* Constraints are reported exactly if they permit something and name somebody, and
\* are HIGH exactly if they name a group that holds people or accounts nobody put
\* into it (scc.go:11-130).
SCCsJudged ==
  Returned =>
    \A scc \in res.sccs :
      LET named  == StringItems(At(scc.doc, "users")) \cup StringItems(At(scc.doc, "groups"))
          anyone == UNION {Members(group) : group \in StringItems(At(scc.doc, "groups"))}
      IN  Verdict("SecurityContextConstraints", scc) =
            TripIf(Permits(scc.doc) /\ named # {}, "KC-024",
                   IF anyone # {} THEN SeverityHigh ELSE SeverityWarning)

-----------------------------------------------------------------------------
(* Services, Ingresses and Routes.                                         *)

\* Host names a request may carry.
Hosts == UNION {[1 .. n -> HostLabels] : n \in 1 .. MaxLabels}

\* The names a host of a manifest stands for: the "*" of a wildcard is one label.
Matches(host) ==
  CASE host = << >>      -> Hosts
    [] IsWildcard(host)  -> {h \in Hosts : Len(h) = Len(host) /\ IsStrictSuffix(Tail(host), h)}
    [] OTHER             -> {host}

\* What the rules serve.
Routed(spec) == UNION {Matches(HostOf(rule)) : rule \in ItemSet(At(spec, "rules"))}

\* A default backend answers for everything else, whether there are rules or not.
Served(spec) == IF Has(spec, "defaultBackend") THEN Hosts ELSE Routed(spec)

\* What the tls list covers; an entry without hosts covers all.
Encrypted(spec) ==
  UNION {IF StringItems(At(entry, "hosts")) = {} THEN Hosts
         ELSE UNION {Matches(host) : host \in StringItems(At(entry, "hosts"))} :
           entry \in MapItems(At(spec, "tls"))}

\* A host that is written down is a name, but for a "*" in front, and an entry of the
\* tls list does not have an empty one.
IsWritten(host) ==
  host = << >>
    \/ /\ host \in Seq((HostLabels \ {Unnamed}) \cup {"*"}) /\ Len(host) <= MaxLabels
       /\ IF IsWildcard(host) THEN Tail(host) \in Hosts ELSE host \in Hosts

IsWellFormedIngress(spec) ==
  /\ Listing(At(spec, "rules"))
  /\ Has(spec, "defaultBackend") => IsMap(At(spec, "defaultBackend"))
  /\ \A rule \in ItemSet(At(spec, "rules")) : IsMap(rule) /\ IsWritten(HostOf(rule))
  /\ \A entry \in MapItems(At(spec, "tls")) :
       \A host \in StringItems(At(entry, "hosts")) : IsWritten(host) /\ host # << >>

InPlainText(spec, hosts) == ~(hosts \subseteq Encrypted(spec))

\* Among the hosts is a name that nobody wrote down.
AnswersUnnamed(hosts) == \E host \in hosts : Unnamed \in ToSet(host)

\* The two things the detector does not see.  A default backend beside rules:
HidesBackend(spec) == Has(spec, "defaultBackend") /\ Items(At(spec, "rules")) # << >>

\* and that a wildcard of the tls list, though the host of a rule ends like it, is too
\* short to stand for that host, its "*" being one label.
StretchesWildcard(spec) ==
  \E rule \in ItemSet(At(spec, "rules")), entry \in MapItems(At(spec, "tls")) :
    \E host \in StringItems(At(entry, "hosts")) :
      /\ IsWildcard(host) /\ Len(host) < Len(HostOf(rule))
      /\ IsStrictSuffix(Tail(host), HostOf(rule))

\* The verdict on an Ingress: plain says that it is reported as unencrypted, broad
\* that it is reported as broad.
IngressJudged(spec, verdict) ==
  \E plain, broad \in BOOLEAN :
    /\ verdict = TripIf(plain, "KC-026", SeverityWarning)
                   \cup TripIf(broad, "KC-027", SeverityWarning)
    /\ plain => InPlainText(spec, Served(spec))
    /\ broad => AnswersUnnamed(Served(spec))
    /\ InPlainText(spec, Routed(spec)) => plain \/ StretchesWildcard(spec)
    /\ AnswersUnnamed(Routed(spec)) => broad
    /\ ~HidesBackend(spec) =>
         /\ InPlainText(spec, Served(spec)) => plain \/ StretchesWildcard(spec)
         /\ AnswersUnnamed(Served(spec)) => broad

ServiceTypes == {"ClusterIP", "NodePort", "LoadBalancer", "ExternalName"}

IsWellFormedRoute(spec) ==
  LET termination == At(At(spec, "tls"), "termination")
  IN  IsMap(spec) /\ (termination.type = "string" => termination.string # "")

\* An Ingress is reported as unencrypted only if it serves some name that its tls
\* list does not cover, and as broad only if it serves a name that nobody wrote down;
\* such a name among those of the rules is never missed, nor is one of a default
\* backend that stands alone.  The exceptions are written out: what a default backend
\* serves beside rules is not looked at (CatchAllsReported), and a wildcard of the
\* tls list is taken to cover names any number of labels below it.  A Route is
\* reported exactly if it answers in plain text, HIGH if it was told to, or for its
\* whole subdomain; a Service exactly if something outside the cluster can reach it
\* by its type or its addresses (exposure.go:9-183).
ExposureJudged ==
  Returned =>
    /\ \A service \in res.services :
         LET spec == At(service.doc, "spec")
         IN  Verdict("Service", service) =
               TripIf(\/ StringOr(At(spec, "type"), "ClusterIP") # "ClusterIP"
                      \/ StringItems(At(spec, "externalIPs")) # {},
                      "KC-025", SeverityWarning)
    /\ \A ingress \in res.ingresses :
         IngressJudged(At(ingress.doc, "spec"), Verdict("Ingress", ingress))
    /\ \A route \in res.routes :
         LET spec     == At(route.doc, "spec")
             allowed  == At(At(spec, "tls"), "insecureEdgeTerminationPolicy") = Str("Allow")
             ends     == At(At(spec, "tls"), "termination").type = "string"
         IN  Verdict("Route", route) =
               TripIf(allowed \/ ~ends, "KC-026",
                      IF allowed THEN SeverityHigh ELSE SeverityWarning)
               \cup
               TripIf(At(spec, "wildcardPolicy") = Str("Subdomain"), "KC-027", SeverityWarning)

\* "Detects Ingress catch-all or wildcard hosts" (site/docs/reference/rules/network.md:123):
\* a default backend answers for every host that no rule names.
CatchAllsReported ==
  Returned =>
    \A ingress \in res.ingresses :
      Has(At(ingress.doc, "spec"), "defaultBackend") =>
        [rule |-> "KC-027", severity |-> SeverityWarning] \in Verdict("Ingress", ingress)

-----------------------------------------------------------------------------
(* Secrets.                                                                *)

\* The keys of the Secret the cluster would hold: the clear text entries are merged
\* into the others.
Merged(doc) == DOMAIN Fields(At(doc, "data")) \cup DOMAIN Fields(At(doc, "stringData"))

\* The type is a string if it is set, and the annotations are where Kubernetes has
\* them.
IsWellFormedSecret(doc) ==
  LET type == At(doc, "type")
  IN  /\ type.type = "string" => type = Str(type.string)
      /\ ~Has(doc, "metadata.annotations")

\* A Secret is judged by the keys it would have in the cluster, however they are
\* divided between data and stringData: as a token of a service account if it is
\* one by its type, or by its annotation and key, and only otherwise as a
\* credential, never as both (secrets.go:40-133).
SecretsJudged ==
  Returned =>
    \A secret \in res.secrets :
      LET keys  == Merged(secret.doc)
          type  == StringOr(At(secret.doc, "type"), "")
          owned == Has(At(At(secret.doc, "metadata"), "annotations"), ServiceAccountName)
          token == \/ type = "kubernetes.io/service-account-token"
                   \/ owned /\ TokenKey \in keys
          tells == \/ type \in credentialSecretTypes /\ keys # {}
                   \/ \E key \in keys : ToSet(key.parts) \cap credentialKeyNames # {}
      IN  Verdict("Secret", secret) =
            TripIf(token, "KC-029", SeverityHigh)
            \cup TripIf(~token /\ tells, "KC-028", SeverityWarning)

-----------------------------------------------------------------------------

ASSUME ValuesAssumption ==
  /\ LabelValues # {}
  /\ \A family \in Families : AddressBits[family] \in Nat \ {0}
  /\ Unnamed \in HostLabels \ {"*"} /\ MaxLabels \in Nat \ {0}

\* The objects of the inputs are well formed.
ASSUME DocumentsAssumption ==
  \A x \in Inputs :
    /\ \A u \in x.pods \cup x.workloads : IsWellFormedPod(PodSpec(u.doc, u.kind))
    /\ \A scc \in x.sccs : IsWellFormedSCC(scc.doc)
    /\ \A secret \in x.secrets : IsWellFormedSecret(secret.doc)
    /\ \A policy \in x.networkPolicies : IsWellFormedPolicy(At(policy.doc, "spec"))
    /\ \A ingress \in x.ingresses : IsWellFormedIngress(At(ingress.doc, "spec"))
    /\ \A route \in x.routes : IsWellFormedRoute(At(route.doc, "spec"))
    /\ \A service \in x.services :
         At(At(service.doc, "spec"), "type") \in {Null} \cup {Str(type) : type \in ServiceTypes}

=============================================================================
