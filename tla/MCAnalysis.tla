----------------------------- MODULE MCAnalysis -----------------------------
(***************************************************************************)
(* Analysis on roles of one name and both kinds, Roles of that name in two *)
(* namespaces, and bindings that refer to each of them or to none; and on  *)
(* the objects the detectors look at, in module MCObjects.                 *)
(***************************************************************************)
EXTENDS DetectorContract, MCObjects

R(groups, resources, verbs) ==
  [apiGroups |-> groups, resources |-> resources, verbs |-> verbs]

Plain    == R({""}, {"secrets"}, {"get"})
Wildcard == R({"*"}, {"*"}, {"*"})

ClusterRole(name, aggregated, rules) ==
  [name |-> name, namespace |-> "", file |-> "cr", aggregated |-> aggregated, rules |-> rules]

Role(name, ns, rules) == [name |-> name, namespace |-> ns, file |-> "r", rules |-> rules]

Binding(name, ns, kind, role) ==
  [name |-> name, namespace |-> ns, file |-> "b",
   roleRef |-> [kind |-> kind, name |-> role],
   subjects |-> {[kind |-> "ServiceAccount", name |-> "a", namespace |-> "n"]}]

ClusterRoleLists ==
  SUBSET {ClusterRole("x", FALSE, <<Plain, Wildcard>>), ClusterRole("y", TRUE, <<Plain>>)}

RoleLists ==
  SUBSET {Role("x", "n", <<Plain>>), Role("x", "m", <<Wildcard, Plain>>)}

ClusterRoleBindingLists ==
  {<< >>, <<Binding("c", "", "ClusterRole", "x")>>, <<Binding("c", "", "Role", "x")>>,
   <<Binding("c", "", "ClusterRole", "cluster-admin")>>,
   <<Binding("c", "", "ClusterRole", "x"), Binding("d", "", "ClusterRole", "y")>>}

RoleBindingLists ==
  {<< >>, <<Binding("c", "n", "ClusterRole", "x")>>, <<Binding("c", "n", "Role", "x")>>,
   <<Binding("c", "m", "Role", "x"), Binding("d", "m", "ClusterRole", "y")>>}

Pod ==
  [kind |-> "Pod", name |-> "p", namespace |-> "n", sa |-> "a", file |-> "p", doc |-> Privileged]

Nothing ==
  [map \in {"clusterRoles", "roles", "serviceAccounts", "pods", "workloads", "networkPolicies",
            "sccs", "services", "ingresses", "routes", "secrets"} |-> {}]
    @@ [map \in {"clusterRoleBindings", "roleBindings"} |-> << >>]

RoleInputs ==
  {[Nothing EXCEPT !.clusterRoles = crs, !.roles = ros, !.clusterRoleBindings = wide,
                   !.roleBindings = narrow, !.pods = pods, !.serviceAccounts = accounts] :
     crs \in ClusterRoleLists, ros \in RoleLists, wide \in ClusterRoleBindingLists,
     narrow \in RoleBindingLists, pods \in SUBSET {Pod}, accounts \in {{}, {"a"}}}

\* An object of each document, and one more of the same name elsewhere.
Pair(doc, other) ==
  {[name |-> "o", namespace |-> "n", file |-> "f", doc |-> doc],
   [name |-> "o", namespace |-> "m", file |-> "f", doc |-> other]}

Objects(docs) == {Pair(doc, CHOOSE other \in docs : TRUE) : doc \in docs}

\* The pods of a kind, each as that kind has them.
PodsOf(kind, docs) ==
  {{[kind |-> kind, name |-> "w", namespace |-> "n", sa |-> "a", file |-> "w", doc |-> doc]} :
     doc \in docs}

ObjectInputs ==
  UNION {{[Nothing EXCEPT ![map] = objs] : objs \in Objects(DocumentsOf(map))} :
           map \in {"networkPolicies", "services", "ingresses", "routes", "secrets"}}
  \cup {[Nothing EXCEPT !.sccs = {[name |-> "o", namespace |-> "", file |-> "f", doc |-> doc]}] :
          doc \in SCCs}
  \cup {[Nothing EXCEPT !.pods = pods] : pods \in PodsOf("Pod", Templates("Pod"))}
  \cup {[Nothing EXCEPT !.workloads = workloads] :
          workloads \in UNION {PodsOf(kind, Templates(kind)) : kind \in {"Deployment", "CronJob"}}}
  \cup {[Nothing EXCEPT !.pods = {Pod}, !.networkPolicies = Pair(OpenPolicy, OpenPolicy),
                        !.secrets = Pair(TokenSecret, TokenSecret),
                        !.workloads = UNION PodsOf("CronJob", {InJob(PrivilegedSpec)})]}

MCInputs == RoleInputs \cup ObjectInputs

MCAddressBits == [IPv4 |-> 2, IPv6 |-> 3]

=============================================================================
