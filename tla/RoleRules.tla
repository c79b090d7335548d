------------------------------ MODULE RoleRules ------------------------------
(***************************************************************************)
(* The checks that pkg/analyzer makes on one RBAC rule of a ClusterRole or *)
(* Role (rules.go, and the has*Permission / has*Combo functions of         *)
(* analyzer.go).                                                           *)
(*                                                                         *)
(* A rule is a record of three sets of strings.  The YAML lists are        *)
(* ordered and may repeat an entry; every check asks only for membership,  *)
(* and the loops of checkRules are modelled in RoleScan as visiting the    *)
(* entries in any order.                                                   *)
(***************************************************************************)
EXTENDS Models

Rule == [verbs : SUBSET STRING, resources : SUBSET STRING,
         apiGroups : SUBSET STRING]

Core           == ""
RBACGroup      == "rbac.authorization.k8s.io"
NetworkGroup   == "networking.k8s.io"
SCCGroup       == "security.openshift.io"
CSRGroup       == "certificates.k8s.io"
OpenShiftApps  == "apps.openshift.io"

-----------------------------------------------------------------------------
(* The tables of rules.go.                                                 *)

dangerousVerbs ==
  [v \in {"*", "escalate", "impersonate", "bind"} |->
     IF v = "*"           THEN "KC-002" ELSE
     IF v = "escalate"    THEN "KC-003" ELSE
     IF v = "impersonate" THEN "KC-004" ELSE "KC-005"]

podSubresources == {"pods/exec", "pods/attach", "pods/log",
                    "pods/ephemeralcontainers", "pods/portforward"}

\* Mutant: a resource missing from the list of its group.
coreGroupResources_NoVolumes ==
  {"secrets", "nodes", "nodes/proxy", "pods/exec", "pods/attach", "pods/log",
   "pods/ephemeralcontainers", "pods/portforward"}

coreGroupResources ==
  {"secrets", "nodes", "nodes/proxy", "persistentvolumes", "pods/exec",
   "pods/attach", "pods/log", "pods/ephemeralcontainers", "pods/portforward"}

rbacGroupResources ==
  {"clusterroles", "clusterrolebindings", "roles", "rolebindings"}

networkingGroupResources == {"networkpolicies"}

dangerousResources ==
  [r \in {"*", "secrets", "nodes", "nodes/proxy", "persistentvolumes", "clusterroles",
           "clusterrolebindings", "networkpolicies"} \cup podSubresources |->
     IF r = "*"                                       THEN "KC-001" ELSE
     IF r = "secrets"                                 THEN "KC-006" ELSE
     IF r \in podSubresources                         THEN "KC-007" ELSE
     IF r \in {"nodes", "nodes/proxy"}                THEN "KC-008" ELSE
     IF r = "persistentvolumes"                       THEN "KC-009" ELSE
     IF r \in {"clusterroles", "clusterrolebindings"} THEN "KC-010" ELSE "KC-016"]

escalationBindingResources == rbacGroupResources

escalationWorkloadResources ==
  {"pods", "deployments", "daemonsets", "statefulsets", "jobs", "cronjobs",
   "replicasets", "replicationcontrollers", "deploymentconfigs"}

escalationMutationVerbs == {"create", "patch", "update"}

-----------------------------------------------------------------------------
(* API group filters.                                                      *)

hasWildcardAPIGroup(groups) == "*" \in groups

\* apiGroupMatchesSCC, apiGroupMatchesCSR, apiGroupMatchesEscalationBinding
\* and the group loop of hasServiceAccountTokenPermission: the same test, each
\* with its own group.
MatchesGroup(groups, group) == groups \cap {"*", group} # {}

\* Mutant: the case of the networking group forgotten.
apiGroupMatchesResource_NoNetworking(groups, res) ==
  \/ res = "*"
  \/ "*" \in groups
  \/ res \in coreGroupResources /\ Core      \in groups
  \/ res \in rbacGroupResources /\ RBACGroup \in groups

apiGroupMatchesResource(groups, res) ==
  \/ res = "*"
  \/ "*" \in groups
  \/ res \in coreGroupResources       /\ Core         \in groups
  \/ res \in rbacGroupResources       /\ RBACGroup    \in groups
  \/ res \in networkingGroupResources /\ NetworkGroup \in groups

apiGroupMatchesEscalationWorkload(groups, res) ==
  \/ res = "*"
  \/ "*" \in groups
  \/ res \in {"pods", "replicationcontrollers"} /\ Core \in groups
  \/ res \in {"deployments", "daemonsets", "statefulsets", "replicasets"}
       /\ "apps" \in groups
  \/ res \in {"jobs", "cronjobs"} /\ "batch" \in groups
  \/ res = "deploymentconfigs" /\ OpenShiftApps \in groups

-----------------------------------------------------------------------------
(* Checks on a whole rule.                                                 *)

hasWildcards(rule) == "*" \in rule.verbs \/ "*" \in rule.resources

hasSCCUsePermission(rule) ==
  /\ MatchesGroup(rule.apiGroups, SCCGroup)
  /\ rule.verbs \cap {"use", "*"} # {}
  /\ rule.resources \cap {"securitycontextconstraints", "*"} # {}

csrSubresources ==
  {"certificatesigningrequests/approval", "certificatesigningrequests/status"}

csrResources == {"*", "certificatesigningrequests", "signers"} \cup csrSubresources

hasCSRApprovalPermission(rule) ==
  /\ MatchesGroup(rule.apiGroups, CSRGroup)
  /\ \E res \in rule.resources \cap csrResources, verb \in rule.verbs :
       \/ verb \in {"*", "approve", "sign"}
       \/ verb \in {"update", "patch"} /\ res \in {"*"} \cup csrSubresources

\* Mutant: the API group not looked at.
hasServiceAccountTokenPermission_AnyGroup(rule) ==
  /\ rule.resources \cap {"serviceaccounts/token", "*"} # {}
  /\ rule.verbs \cap {"create", "*"} # {}

hasServiceAccountTokenPermission(rule) ==
  /\ MatchesGroup(rule.apiGroups, Core)
  /\ rule.resources \cap {"serviceaccounts/token", "*"} # {}
  /\ rule.verbs \cap {"create", "*"} # {}

hasEscalationBindingCombo(rule) ==
  /\ rule.verbs \cap (escalationMutationVerbs \cup {"*"}) # {}
  /\ rule.resources \cap (escalationBindingResources \cup {"*"}) # {}
  /\ MatchesGroup(rule.apiGroups, RBACGroup)

hasEscalationPodCombo(rule) ==
  /\ rule.verbs \cap {"create", "*"} # {}
  /\ \/ /\ "*" \in rule.resources
        /\ rule.apiGroups \cap {"*", Core, "apps", "batch", OpenShiftApps} # {}
     \/ \E res \in rule.resources \cap escalationWorkloadResources :
          apiGroupMatchesEscalationWorkload(rule.apiGroups, res)

-----------------------------------------------------------------------------
(* The keys of checkRules' "seen" map.  Every check uses ruleID|role but   *)
(* the one for wildcard API groups, which uses KC-001|apiGroup|role; the   *)
(* role is the same for a whole scan and is left out.                      *)

APIGroupKey == "KC-001|apiGroup"

\* The rules about roles, and their keys.
RoleRuleIDs ==
  {"KC-001", "KC-002", "KC-003", "KC-004", "KC-005", "KC-006", "KC-007",
   "KC-008", "KC-009", "KC-010", "KC-011", "KC-012", "KC-016", "KC-023",
   "KC-030", "KC-031"}

Keys == RoleRuleIDs \cup {APIGroupKey}

\* The rule ID of the finding reported under a key.
RuleOf(key) == IF key = APIGroupKey THEN "KC-001" ELSE key

\* Mutant: a wildcard API group rated by the verbs and resources beside it.
CountsAsWildcard_RuleOnly(rule, key) == hasWildcards(rule)

\* A finding on wildcard API groups is always rated as a wildcard.
CountsAsWildcard(rule, key) == key = APIGroupKey \/ hasWildcards(rule)

GroupKeys(rule) ==
  IF hasWildcardAPIGroup(rule.apiGroups) THEN {APIGroupKey} ELSE {}

VerbKeys(rule) ==
  {dangerousVerbs[v] : v \in rule.verbs \cap DOMAIN dangerousVerbs}

FlaggedResources(rule) ==
  {r \in rule.resources \cap DOMAIN dangerousResources :
     apiGroupMatchesResource(rule.apiGroups, r)}

ResourceKeys(rule) == {dangerousResources[r] : r \in FlaggedResources(rule)}

\* The single-finding checks that end the loop body, in the code's order.
ComboKeys(rule) ==
  (IF hasSCCUsePermission(rule)              THEN {"KC-023"} ELSE {}) \cup
  (IF hasCSRApprovalPermission(rule)         THEN {"KC-031"} ELSE {}) \cup
  (IF hasServiceAccountTokenPermission(rule) THEN {"KC-030"} ELSE {}) \cup
  (IF hasEscalationBindingCombo(rule)        THEN {"KC-011"} ELSE {}) \cup
  (IF hasEscalationPodCombo(rule)            THEN {"KC-012"} ELSE {})

\* Every key one rule can report under.
Triggers(rule) ==
  GroupKeys(rule) \cup VerbKeys(rule) \cup ResourceKeys(rule) \cup ComboKeys(rule)

-----------------------------------------------------------------------------
(* What a scan of a whole role returns, without its walk.                  *)

\* newFinding, with the severity computed just before every call of it.  The
\* role's kind, name, namespace and file are the same for the whole scan.
RoleFinding(role, key, rule) ==
  LET sev == computeSeverity(role.scope, CountsAsWildcard(rule, key))
  IN  [key      |-> key,
       severity |-> IF role.isNamespaced THEN capSeverity(sev, SeverityWarning)
                                         ELSE sev]

\* The keys some rule before number k trips.
KeysBefore(role, k) == UNION {Triggers(role.rules[j]) : j \in 1 .. k - 1}

\* Every key reports once, for the first rule that trips it.
RoleFindings(role) ==
  UNION { {RoleFinding(role, key, role.rules[k]) :
             key \in Triggers(role.rules[k]) \ KeysBefore(role, k)} :
          k \in DOMAIN role.rules }

=============================================================================
