------------------------------ MODULE Analysis ------------------------------
(***************************************************************************)
(* Analyze of pkg/analyzer/analyzer.go: the phases that turn the loaded    *)
(* resources into the finding list of a run.                               *)
(*                                                                         *)
(* The scan of one role is taken here by what module RoleScanProofs proves *)
(* of it, RoleFindings; the last phase is the walk of module ChainWalk,    *)
(* step by step.  The detectors of phases 3 to 7 have a module each, which *)
(* says what one object trips; they go over the objects by sorted key.     *)
(***************************************************************************)
EXTENDS RoleRules, Findings, Listings,
        WorkloadSecurity, NetworkPolicies, SecurityConstraints, Exposure, Secrets

CONSTANT Inputs  \* the loaded resources the analysis may be given

VARIABLES
  res,                        \* the loaded resources, never changed
  phase,
  unvisited,                  \* entries the current range has still to visit
  findings,
  pc, unread, refs, r, b,     \* the walk of analyzePrivilegeChains,
  chainFindings               \* and its result

own   == <<phase, unvisited, findings>>
chain == <<pc, unread, refs, r, b, chainFindings>>
vars  == <<res, own, chain>>

Chains == INSTANCE ChainWalk WITH findings <- chainFindings

Phases == {"clusterRoles", "roles", "detectors", "chains", "done"}

-----------------------------------------------------------------------------
(* How a role is bound.                                                    *)

RefersTo(binding, kind, name) == binding.roleRef = [kind |-> kind, name |-> name]

ScopeOf(wide, narrow) ==
  [ClusterWide |-> wide, NamespaceScoped |-> narrow, Unbound |-> ~(wide \/ narrow)]

resolveClusterRoleScope(name) ==
  ScopeOf(\E x \in ToSet(res.clusterRoleBindings) : RefersTo(x, "ClusterRole", name),
          \E x \in ToSet(res.roleBindings) : RefersTo(x, "ClusterRole", name))

\* Mutant: the namespace of the binding not compared.
resolveRoleScope_AnyNamespace(role) ==
  ScopeOf(FALSE, \E x \in ToSet(res.roleBindings) : RefersTo(x, "Role", role.name))

\* A Role is named in its own namespace only, and never bound cluster-wide.
resolveRoleScope(role) ==
  ScopeOf(FALSE,
          \E x \in ToSet(res.roleBindings) :
            RefersTo(x, "Role", role.name) /\ x.namespace = role.namespace)

-----------------------------------------------------------------------------
(* The findings of one role.                                               *)

newFinding(rule, severity, kind, role, check) ==
  [rule |-> rule, severity |-> severity, file |-> role.file, kind |-> kind,
   name |-> role.name, namespace |-> role.namespace,
   description |-> [check |-> check]]

checkRules(role, kind, scope, isNamespaced) ==
  {newFinding(RuleOf(f.key), f.severity, kind, role, f.key) :
     f \in RoleFindings([rules |-> role.rules, scope |-> scope,
                         isNamespaced |-> isNamespaced])}

ClusterRoleFindings(cr) ==
  checkRules(cr, "ClusterRole", resolveClusterRoleScope(cr.name), FALSE)

NamespacedRoleFindings(role) ==
  checkRules(role, "Role", resolveRoleScope(role), TRUE)

\* KC-015, whatever the scope of the role.
AggregatedFinding(cr) ==
  newFinding("KC-015", SeverityInfo, "ClusterRole", cr, "aggregationRule")

\* What a detector finds on an object.  An object has a key of its own, so that
\* appendIfNew never meets a finding of another one.
FindingsOn(kind, obj, trips) ==
  {newFinding(trip.rule, trip.severity, kind, obj, "document") : trip \in trips}

Judged(kind, objs, Judge(_)) == UNION {FindingsOn(kind, obj, Judge(obj.doc)) : obj \in objs}

analyzeWorkloadSecurity(objs) ==
  UNION {FindingsOn(obj.kind, obj, analyzeWorkloadSecurityObject(obj.doc, obj.kind)) :
           obj \in objs}

\* Phases 3 to 7.
DetectorFindings ==
  Listed(analyzeWorkloadSecurity(res.pods))
    \o Listed(analyzeWorkloadSecurity(res.workloads))
    \o Listed(Judged("NetworkPolicy", res.networkPolicies, analyzeNetworkPolicy))
    \o Listed(Judged("SecurityContextConstraints", res.sccs, analyzeSecurityContextConstraint))
    \o Listed(Judged("Service", res.services, analyzeService))
    \o Listed(Judged("Ingress", res.ingresses, analyzeIngress))
    \o Listed(Judged("Route", res.routes, analyzeRoute))
    \o Listed(Judged("Secret", res.secrets, analyzeSecret))

-----------------------------------------------------------------------------

\* Mutant: the kinds that were added last not counted.
IsEmpty_RolesAndPods(loaded) ==
  /\ \A map \in {"clusterRoles", "roles", "serviceAccounts", "pods", "workloads"} :
       loaded[map] = {}
  /\ loaded.clusterRoleBindings = << >> /\ loaded.roleBindings = << >>

IsEmpty(loaded) ==
  /\ \A map \in {"clusterRoles", "roles", "serviceAccounts", "pods", "workloads",
                  "networkPolicies", "sccs", "services", "ingresses", "routes", "secrets"} :
       loaded[map] = {}
  /\ loaded.clusterRoleBindings = << >> /\ loaded.roleBindings = << >>

Init ==
  /\ Chains!Init
  /\ phase = IF IsEmpty(res) THEN "done" ELSE "clusterRoles"
  /\ unvisited = res.clusterRoles
  /\ findings = << >>

\* Mutant: the rules of an aggregated ClusterRole are left aside.
VisitClusterRole_SkipsAggregated ==
  /\ phase = "clusterRoles"
  /\ \E cr \in unvisited :
       /\ unvisited' = unvisited \ {cr}
       /\ findings' =
            IF cr.aggregated THEN appendIfNew(findings, AggregatedFinding(cr))
            ELSE findings \o Listed(ClusterRoleFindings(cr))
  /\ UNCHANGED <<res, phase, chain>>

VisitClusterRole ==
  /\ phase = "clusterRoles"
  /\ \E cr \in unvisited :
       /\ unvisited' = unvisited \ {cr}
       /\ findings' =
            (IF cr.aggregated THEN appendIfNew(findings, AggregatedFinding(cr)) ELSE findings)
              \o Listed(ClusterRoleFindings(cr))
  /\ UNCHANGED <<res, phase, chain>>

\* Mutant: the second range is over the map of the first.
EndClusterRoles_SameMap ==
  /\ phase = "clusterRoles"
  /\ unvisited = {}
  /\ phase' = "roles"
  /\ unvisited' = res.clusterRoles
  /\ UNCHANGED <<res, findings, chain>>

EndClusterRoles ==
  /\ phase = "clusterRoles"
  /\ unvisited = {}
  /\ phase' = "roles"
  /\ unvisited' = res.roles
  /\ UNCHANGED <<res, findings, chain>>

VisitRole ==
  /\ phase = "roles"
  /\ \E role \in unvisited :
       /\ unvisited' = unvisited \ {role}
       /\ findings' = findings \o Listed(NamespacedRoleFindings(role))
  /\ UNCHANGED <<res, phase, chain>>

EndRoles ==
  /\ phase = "roles"
  /\ unvisited = {}
  /\ phase' = "detectors"
  /\ UNCHANGED <<res, unvisited, findings, chain>>

RunDetectors ==
  /\ phase = "detectors"
  /\ findings' = findings \o DetectorFindings
  /\ phase' = "chains"
  /\ UNCHANGED <<res, unvisited, chain>>

WalkChains ==
  /\ phase = "chains"
  /\ Chains!Next
  /\ UNCHANGED own

AppendChains ==
  /\ phase = "chains"
  /\ pc = "done"
  /\ findings' = findings \o chainFindings
  /\ phase' = "done"
  /\ UNCHANGED <<res, unvisited, chain>>

Next ==
  \/ VisitClusterRole \/ EndClusterRoles
  \/ VisitRole        \/ EndRoles
  \/ RunDetectors     \/ WalkChains \/ AppendChains

Spec == Init /\ [][Next]_vars

=============================================================================
