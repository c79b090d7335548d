---------------------------- MODULE MCChainRuns ----------------------------
(***************************************************************************)
(* ChainRuns on small clusters: two namespaces, pods and a workload that   *)
(* share or do not share an account, and lists of up to MaxBindings        *)
(* bindings, among them RoleBindings of one name declared in two files.    *)
(***************************************************************************)
EXTENDS ChainRuns

CONSTANT MaxBindings

Ref(kind, name, ns, sa) ==
  [kind |-> kind, name |-> name, namespace |-> ns, sa |-> sa, file |-> ns]

SA(name, ns) == [kind |-> "ServiceAccount", name |-> name, namespace |-> ns]

User(name) == [kind |-> "User", name |-> name, namespace |-> ""]

Binding(name, ns, file, kind, role, subjects) ==
  [name |-> name, namespace |-> ns, file |-> file,
   roleRef |-> [kind |-> kind, name |-> role], subjects |-> subjects]

Pods      == {Ref("Pod", "p", "n", "a"), Ref("Pod", "q", "n", "b"),
              Ref("Pod", "p", "m", "a")}
Workloads == {Ref("Deployment", "p", "n", "a")}

Admins == Binding("admins", "", "f", "ClusterRole", "cluster-admin", {SA("a", "n"), User("b")})
Others == Binding("others", "", "g", "ClusterRole", "cluster-admin", {SA("a", "m"), SA("b", "n")})
Views  == Binding("views",  "", "g", "ClusterRole", "view", {SA("b", "n")})

RoleBindings == {
  Binding("x", "n", "f", "ClusterRole", "edit", {SA("a", "n")}),
  Binding("x", "n", "g", "ClusterRole", "view", {SA("b", "n"), SA("a", "m")}),
  Binding("x", "m", "g", "ClusterRole", "edit", {SA("a", "m"), User("a")}),
  Binding("y", "n", "f", "Role", "edit", {SA("a", "n")}) }

UpTo(S, n) == UNION {[1 .. k -> S] : k \in 0 .. n}

MCInputs ==
  [pods : SUBSET Pods, workloads : SUBSET Workloads,
   clusterRoleBindings : {<< >>, <<Admins>>, <<Views>>, <<Admins, Others>>, <<Others, Admins>>},
   roleBindings : UpTo(RoleBindings, MaxBindings)]

=============================================================================
