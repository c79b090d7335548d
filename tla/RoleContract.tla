---------------------------- MODULE RoleContract ----------------------------
(***************************************************************************)
(* What a role scan promises, stated without its walk: in terms of the     *)
(* rules as a set of facts, and of what Kubernetes lets the role do.       *)
(***************************************************************************)
EXTENDS RoleScan

Returned == pc = "done"

Reported == {findings[n].key : n \in DOMAIN findings}

-----------------------------------------------------------------------------
(* The list the scan returns, given the order of the rules.                *)

\* The returned list is RoleFindings, once each: one finding per key that some
\* rule trips, with the severity of the first rule that trips it, and no check of
\* any rule is lost behind the findings of the rules before it
\* (analyzer.go:60-205).
ScanContract ==
  Returned =>
    /\ \A a, b \in DOMAIN findings : findings[a].key = findings[b].key => a = b
    /\ {findings[n] : n \in DOMAIN findings} = RoleFindings(input)

-----------------------------------------------------------------------------
(* Severity.                                                               *)

\* The rating the severity model gives a wildcard at this role's scope.
WildcardSeverity ==
  LET s == computeSeverity(input.scope, TRUE)
  IN  IF input.isNamespaced THEN capSeverity(s, SeverityWarning) ELSE s

UsesWildcard(r) == hasWildcards(r) \/ hasWildcardAPIGroup(r.apiGroups)

\* A wildcard anywhere in the role reaches the threshold test of the command
\* line: although earlier rules may have claimed the keys of a wildcard rule at a
\* lower severity, some finding carries the wildcard severity
\* (the seen test of analyzer.go:76,92,113).
WildcardNeverMasked ==
  (Returned /\ \E k \in DOMAIN input.rules : UsesWildcard(input.rules[k])) =>
    \E n \in DOMAIN findings : findings[n].severity = WildcardSeverity

\* The severity table of the documentation read finding by finding: what a
\* wildcard rule trips at cluster scope is CRITICAL
\* (site/docs/reference/rules.md:77).
WildcardFindingsCritical ==
  (Returned /\ input.scope.ClusterWide /\ ~input.isNamespaced) =>
    \A n \in DOMAIN findings, k \in DOMAIN input.rules :
      (hasWildcards(input.rules[k]) /\ findings[n].key \in Triggers(input.rules[k]))
        => findings[n].severity = SeverityCritical

\* A role is reported once per rule ID: the comment on "seen" says "rule_id per
\* resource", and the fingerprint built from both is documented as the key for
\* deduplication (analyzer.go:62, pkg/analyzer/analyzer_test.go:749).
RuleReportedOnce ==
  \A a, b \in DOMAIN findings :
    RuleOf(findings[a].key) = RuleOf(findings[b].key) => a = b

-----------------------------------------------------------------------------
(* Kubernetes' reading of a rule: it grants the product of its groups,     *)
(* resources and verbs, where "*" stands for all of them.                  *)

Permission(groups, resources, verbs) ==
  [group : groups, resource : resources, verb : verbs]

\* The rule reaches the resource of the group, with its verbs whatever they are.
Covers(r, asset) ==
  /\ r.apiGroups \cap {asset.group, "*"} # {}
  /\ r.resources \cap {asset.resource, "*"} # {}

Grants(r, p) == Covers(r, p) /\ r.verbs \cap {p.verb, "*"} # {}

\* The permissions behind each of the checks on combinations.
CSRNames == {"certificatesigningrequests/approval", "certificatesigningrequests/status"}

Powers ==
  [id \in {"KC-011", "KC-012", "KC-023", "KC-030", "KC-031"} |->
     CASE id = "KC-011" ->
            Permission({"rbac.authorization.k8s.io"},
              {"roles", "clusterroles", "rolebindings", "clusterrolebindings"},
              {"create", "patch", "update"})
       [] id = "KC-012" ->
            Permission({""}, {"pods", "replicationcontrollers"}, {"create"})
            \cup Permission({"apps"}, {"deployments", "daemonsets", "statefulsets",
                                       "replicasets"}, {"create"})
            \cup Permission({"batch"}, {"jobs", "cronjobs"}, {"create"})
            \cup Permission({"apps.openshift.io"}, {"deploymentconfigs"}, {"create"})
       [] id = "KC-023" ->
            Permission({"security.openshift.io"}, {"securitycontextconstraints"}, {"use"})
       [] id = "KC-030" -> Permission({""}, {"serviceaccounts/token"}, {"create"})
       [] id = "KC-031" ->
            Permission({"certificates.k8s.io"}, CSRNames, {"update", "patch"})
            \cup Permission({"certificates.k8s.io"},
                   CSRNames \cup {"certificatesigningrequests", "signers"},
                   {"approve", "sign"})]

SomeRuleGrants(perms) ==
  \E k \in DOMAIN input.rules, p \in perms : Grants(input.rules[k], p)

\* The checks on combinations are exact: a role is reported for a power exactly
\* when one of its rules, taken by itself, grants a permission that confers it.
\* In particular two rules that name the verb and the resource separately do not
\* add up, and a rule naming a resource under another group is not reported
\* (analyzer.go:126-202, 207-321).
PowersExact ==
  Returned => \A id \in DOMAIN Powers : id \in Reported <=> SomeRuleGrants(Powers[id])

-----------------------------------------------------------------------------
(* Access to a sensitive resource, whatever the verb, and verbs that are   *)
(* dangerous on any resource.  Two readings of the code are shared: a rule *)
(* with an empty list of verbs, which the cluster refuses, counts as any   *)
(* other; and "*/log" (that subresource of every resource) counts as a     *)
(* name.                                                                   *)

ResourcesOf(groups, resources) == [group : groups, resource : resources]

\* What each rule ID on access is about (site/docs/reference/rules/rbac.md:136-241,
\* network.md; pods/portforward is in the code's table only).
Assets ==
  [id \in {"KC-006", "KC-007", "KC-008", "KC-009", "KC-010", "KC-016"} |->
     CASE id = "KC-006" -> ResourcesOf({""}, {"secrets"})
       [] id = "KC-007" -> ResourcesOf({""}, {"pods/exec", "pods/attach", "pods/log",
                             "pods/ephemeralcontainers", "pods/portforward"})
       [] id = "KC-008" -> ResourcesOf({""}, {"nodes", "nodes/proxy"})
       [] id = "KC-009" -> ResourcesOf({""}, {"persistentvolumes"})
       [] id = "KC-010" -> ResourcesOf({"rbac.authorization.k8s.io"},
                             {"clusterroles", "clusterrolebindings"})
       [] id = "KC-016" -> ResourcesOf({"networking.k8s.io"}, {"networkpolicies"})]

Escalations ==
  [id \in {"KC-003", "KC-004", "KC-005"} |->
     CASE id = "KC-003" -> "escalate" [] id = "KC-004" -> "impersonate" [] id = "KC-005" -> "bind"]

SomeRuleCovers(assets) ==
  \E k \in DOMAIN input.rules, a \in assets : Covers(input.rules[k], a)

SomeRuleHasVerb(verbs) == \E k \in DOMAIN input.rules : verbs \cap input.rules[k].verbs # {}

\* No access is granted in silence and none is made up.  A role that reaches a
\* listed resource with any verb, by its name or by a wildcard in either list, is
\* reported under its rule ID or as a wildcard, in spite of the filter on API
\* groups; and it is reported under the rule ID only if it does reach one, never
\* for a resource of that name in another group, nor for a group named in one rule
\* and a resource in another.  The same of the dangerous verbs
\* (analyzer.go:88-124, rules.go:57-104, 235-257).
AccessExact ==
  Returned =>
    /\ \A id \in DOMAIN Assets :
         /\ SomeRuleCovers(Assets[id]) => {id, "KC-001"} \cap Reported # {}
         /\ id \in Reported => SomeRuleCovers(Assets[id])
    /\ \A id \in DOMAIN Escalations :
         /\ SomeRuleHasVerb({Escalations[id], "*"}) => {id, "KC-002"} \cap Reported # {}
         /\ id \in Reported => SomeRuleHasVerb({Escalations[id]})

-----------------------------------------------------------------------------
\* Every call of checkRules returns (the loops of analyzer.go:64-203 are over
\* finite lists that nobody grows).
ScanReturns == <>Returned

=============================================================================
