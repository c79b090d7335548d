-------------------------- MODULE AnalysisContract --------------------------
(***************************************************************************)
(* What Analyze promises about the roles of a set of manifests, in terms   *)
(* of who is given what: a subject is bound to a role everywhere, in some  *)
(* namespace, or nowhere.                                                  *)
(***************************************************************************)
EXTENDS Analysis

\* What the parser gives for a list is one.
Listing(v) == Items(v) \in Seq(ItemSet(v))

\* The lists of a pod specification.
PodLists(podSpec) ==
  /\ \A field \in {"containers", "initContainers", "ephemeralContainers", "volumes"} :
       Listing(At(podSpec, field))
  /\ \A field \in {"containers", "initContainers", "ephemeralContainers"} :
       \A container \in ItemSet(At(podSpec, field)) :
         Listing(At(At(SecurityContext(container), "capabilities"), "add"))

\* What the loader hands over.  The maps are finite and their keys tell apart the
\* objects in them: a ClusterRole by its name, others by namespace and name, a pod
\* or workload by its kind as well, which is no role's.  The rules of a role
\* and the bindings are lists, and so are those in a pod specification.
LoadedInputs ==
  \A x \in Inputs :
    /\ \A map \in {"clusterRoles", "roles", "pods", "workloads", "networkPolicies", "sccs",
                   "services", "ingresses", "routes", "secrets"} : IsFiniteSet(x[map])
    /\ \A cr \in x.clusterRoles : cr.namespace = ""
    /\ \A cr, other \in x.clusterRoles : cr.name = other.name => cr = other
    /\ \A ro, other \in x.roles :
         ro.name = other.name /\ ro.namespace = other.namespace => ro = other
    /\ \A map \in {"networkPolicies", "sccs", "services", "ingresses", "routes", "secrets"} :
         \A obj, other \in x[map] :
           obj.name = other.name /\ obj.namespace = other.namespace => obj = other
    /\ \A u, other \in x.pods \cup x.workloads :
         u.kind = other.kind /\ u.name = other.name /\ u.namespace = other.namespace => u = other
    /\ \A role \in x.clusterRoles \cup x.roles : role.rules \in Seq(Rule)
    /\ \A u \in x.pods : u.kind = "Pod"
    /\ \A u \in x.workloads :
         u.kind \in {"Deployment", "DaemonSet", "StatefulSet", "Job", "CronJob", "ReplicaSet",
                    "ReplicationController", "DeploymentConfig"}
    /\ \A list \in {x.clusterRoleBindings, x.roleBindings} : list \in Seq(ToSet(list))
    /\ \A u \in x.pods \cup x.workloads : PodLists(extractPodSpec(u.doc, u.kind))

ASSUME InputsAssumption == LoadedInputs

Returned == phase = "done"

TypeOK ==
  /\ phase \in Phases
  /\ unvisited \subseteq IF phase = "clusterRoles" THEN res.clusterRoles ELSE res.roles
  /\ phase \notin {"chains", "done"} => chainFindings = << >>
  /\ \A f \in ToSet(findings) : f.severity \in Severity

About(kind, role) ==
  {f \in ToSet(findings) :
     f.kind = kind /\ f.name = role.name /\ f.namespace = role.namespace /\ f.rule # "KC-015"}

-----------------------------------------------------------------------------

\* The roles a binding hands out: a ClusterRoleBinding those of its ClusterRole in
\* every namespace, a RoleBinding a ClusterRole or a Role in its own.
HandsOut(kind, role) ==
  [everywhere |-> \E x \in ToSet(res.clusterRoleBindings) :
                    kind = "ClusterRole" /\ x.roleRef = [kind |-> kind, name |-> role.name],
   somewhere  |-> \E x \in ToSet(res.roleBindings) :
                    /\ x.roleRef = [kind |-> kind, name |-> role.name]
                    /\ kind = "Role" => x.namespace = role.namespace]

\* The severity model across roles and bindings (site/docs/reference/rules.md:75-83):
\* INFO exactly for a role nobody is given; at least HIGH for what is given in
\* every namespace; CRITICAL only for that; never above WARNING for a Role.  Bindings
\* of another namespace, and those to a role of the other kind with the same name,
\* do not count (analyzer.go:418-476).
SeverityFollowsBindings ==
  Returned =>
    /\ \A cr \in res.clusterRoles : \A f \in About("ClusterRole", cr) :
         LET given == HandsOut("ClusterRole", cr)
         IN  /\ f.severity = SeverityInfo <=> ~(given.everywhere \/ given.somewhere)
             /\ given.everywhere => f.severity >= SeverityHigh
             /\ f.severity = SeverityCritical => given.everywhere
    /\ \A ro \in res.roles : \A f \in About("Role", ro) :
         f.severity = IF HandsOut("Role", ro).somewhere THEN SeverityWarning ELSE SeverityInfo

\* What a finding says of a role, but for the severity.
CheckOf(f) == <<f.rule, f.description, f.kind, f.name, f.namespace, f.file>>

ExpectedOf(kind, role, namespace) ==
  {<<RuleOf(key), [check |-> key], kind, role.name, namespace, role.file>> :
     key \in UNION {Triggers(role.rules[n]) : n \in DOMAIN role.rules}}

Expected ==
  (UNION {ExpectedOf("ClusterRole", cr, "") : cr \in res.clusterRoles})
  \cup (UNION {ExpectedOf("Role", ro, ro.namespace) : ro \in res.roles})
  \cup {<<"KC-015", [check |-> "aggregationRule"], "ClusterRole", cr.name, "", cr.file>> :
          cr \in {x \in res.clusterRoles : x.aggregated}}

OnRoles == {n \in DOMAIN findings : findings[n].kind \in {"ClusterRole", "Role"}}

\* No role's findings are lost among those of the others: whatever order the maps
\* are visited in, each role is reported for all that its rules trip, each check
\* once, in its own name and file, an aggregated ClusterRole also as such
\* (analyzer.go:11-57).
EveryRoleReported ==
  Returned =>
    /\ {CheckOf(findings[n]) : n \in OnRoles} = Expected
    /\ \A m, n \in OnRoles : CheckOf(findings[m]) = CheckOf(findings[n]) => m = n

=============================================================================
