------------------------------ MODULE MCRoles ------------------------------
(***************************************************************************)
(* RoleScan on two families of roles.  Every sequence of up to MaxRules    *)
(* rules from a pool whose members compete for the same keys: a plain      *)
(* grant and wildcard grants of the same resource, and rules that trip     *)
(* several checks at once.  And rules that between them name every API     *)
(* group, resource and verb the checks know, beside ones they do not: all  *)
(* with at most one entry in each list, and those with two groups and two  *)
(* resources, where the product reading of a rule and the list reading of  *)
(* the code could come apart.                                              *)
(***************************************************************************)
EXTENDS RoleContract, FiniteSetsExt

CONSTANT MaxRules

R(groups, resources, verbs) ==
  [apiGroups |-> groups, resources |-> resources, verbs |-> verbs]

Pool == {
  R({""}, {"secrets"}, {"get"}),
  R({""}, {"secrets"}, {"*"}),
  R({""}, {"*", "secrets"}, {"get"}),
  R({"*"}, {"pods"}, {"list"}),
  R({"*"}, {"*"}, {"*"}),
  R({RBACGroup}, {"clusterroles", "rolebindings"}, {"escalate", "patch"}),
  R({"apps"}, {"deployments", "secrets"}, {"create"}) }

Scope(wide, namespaced) ==
  [ClusterWide |-> wide, NamespaceScoped |-> namespaced,
   Unbound |-> ~wide /\ ~namespaced]

\* A Role is never bound by a ClusterRoleBinding.
Uses ==
  {[scope |-> Scope(w, n), isNamespaced |-> FALSE] : w, n \in BOOLEAN}
  \cup {[scope |-> Scope(FALSE, n), isNamespaced |-> TRUE] : n \in BOOLEAN}

Orders ==
  {[rules |-> rs, scope |-> u.scope, isNamespaced |-> u.isNamespaced] :
     rs \in UNION {[1 .. n -> Pool] : n \in 0 .. MaxRules}, u \in Uses}

-----------------------------------------------------------------------------

AllGroups == {"", "*", "apps", "batch", "example.com", RBACGroup, NetworkGroup,
              SCCGroup, CSRGroup, OpenShiftApps}

AllResources ==
  DOMAIN dangerousResources \cup rbacGroupResources
    \cup UNION {{a.resource : a \in Assets[id]} : id \in DOMAIN Assets}
    \cup escalationWorkloadResources \cup csrResources
    \cup {"serviceaccounts/token", "securitycontextconstraints", "widgets"}

AllVerbs == DOMAIN dangerousVerbs \cup escalationMutationVerbs
              \cup {"get", "use", "approve", "sign"}

AtMostOne(S) == {{}} \cup {{x} : x \in S}

SingleRules ==
  {R(g, r, v) : g \in AtMostOne(AllGroups), r \in AtMostOne(AllResources),
                v \in AtMostOne(AllVerbs)}

CrossRules ==
  {R(g, r, {v}) :
     g \in kSubset(2, {"", "apps", RBACGroup, CSRGroup}),
     r \in kSubset(2, {"secrets", "clusterroles", "pods", "deployments",
                       "certificatesigningrequests/status", "serviceaccounts/token"}),
     v \in {"create", "update", "approve"}}

\* Two rules that confer a power only when taken together.
SplitRules == {
  <<R({""}, {"pods"}, {"get"}), R({"batch"}, {"widgets"}, {"create"})>>,
  <<R({RBACGroup}, {"roles"}, {"get"}), R({"apps"}, {"widgets"}, {"patch"})>>,
  <<R({SCCGroup}, {"securitycontextconstraints"}, {"get"}),
    R({""}, {"widgets"}, {"use"})>> }

Bound == [ClusterWide |-> TRUE, NamespaceScoped |-> FALSE, Unbound |-> FALSE]

PowersOfOne ==
  {[rules |-> rs, scope |-> Bound, isNamespaced |-> FALSE] :
     rs \in {<<r>> : r \in SingleRules \cup CrossRules} \cup SplitRules}

MCInputs == Orders \cup PowersOfOne

=============================================================================
