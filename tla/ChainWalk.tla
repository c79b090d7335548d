------------------------------ MODULE ChainWalk ------------------------------
(***************************************************************************)
(* analyzePrivilegeChains of pkg/analyzer/analyzer.go: the walk from pods  *)
(* and workloads over their service accounts to the bindings and roles.    *)
(*                                                                         *)
(* The pods and the workloads are Go maps: the range over each visits its  *)
(* entries in an order that differs from run to run, here any order.  The  *)
(* bindings are slices, in load order, and may repeat a name.              *)
(***************************************************************************)
EXTENDS Findings

CONSTANT Inputs  \* the loaded resources the analysis may be given

VARIABLES
  res,       \* the loaded resources, never changed
  pc,
  unread,    \* map entries the current range has still to visit
  refs,      \* saRefs: the pods and workloads, in visiting order
  r, b,      \* indices of the current ref and binding
  findings

vars == <<res, pc, unread, refs, r, b, findings>>

PC == {"pods", "workloads", "clusterBindings", "roleBindings", "standalone", "done"}

ref == refs[r]
crb == res.clusterRoleBindings[b]
rb  == res.roleBindings[b]

\* Mutant: the namespace of the subject not compared.
bindingReferencesSubject_AnyNamespace(binding, user) ==
  \E s \in binding.subjects : s.kind = "ServiceAccount" /\ s.name = user.sa

\* Whether a binding names the service account of a ref, in its namespace.
bindingReferencesSubject(binding, user) ==
  [kind |-> "ServiceAccount", name |-> user.sa, namespace |-> user.namespace]
    \in binding.subjects

IsClusterAdmin(binding) ==
  binding.roleRef = [kind |-> "ClusterRole", name |-> "cluster-admin"]

NamesClusterRole(binding) == binding.roleRef.kind = "ClusterRole"

\* The facts a description quotes: a role, the binding that grants it, and the
\* ref that uses it, if the description names one.
Description(binding, users) ==
  [role |-> binding.roleRef.name, binding |-> binding.name, users |-> users]

\* KC-013: a pod or workload that runs with cluster-admin.
ClusterAdminFinding(user, binding) ==
  [rule |-> "KC-013", severity |-> SeverityCritical, file |-> user.file,
   kind |-> user.kind, name |-> user.name, namespace |-> user.namespace,
   description |-> Description(binding, {user})]

\* KC-014: a RoleBinding that refers to a ClusterRole.
RoleBindingFinding(binding, users) ==
  [rule |-> "KC-014", severity |-> SeverityWarning, file |-> binding.file,
   kind |-> "RoleBinding", name |-> binding.name, namespace |-> binding.namespace,
   description |-> Description(binding, users)]

Init ==
  /\ res \in Inputs
  /\ pc = "pods"
  /\ unread = res.pods
  /\ refs = << >>
  /\ r = 1
  /\ b = 1
  /\ findings = << >>

-----------------------------------------------------------------------------

CollectRef ==
  /\ pc \in {"pods", "workloads"}
  /\ \E entry \in unread :
       /\ unread' = unread \ {entry}
       /\ refs' = Append(refs, entry)
  /\ UNCHANGED <<res, pc, r, b, findings>>

EndPods ==
  /\ pc = "pods"
  /\ unread = {}
  /\ unread' = res.workloads
  /\ pc' = "workloads"
  /\ UNCHANGED <<res, refs, r, b, findings>>

\* Mutant: the last ref is not looked at.
AtRef_LastMissed(n) == IF n < Len(refs) THEN "clusterBindings" ELSE "standalone"

\* The head of the loop over saRefs, for the ref with the given index.
AtRef(n) == IF n <= Len(refs) THEN "clusterBindings" ELSE "standalone"

EndWorkloads ==
  /\ pc = "workloads"
  /\ unread = {}
  /\ pc' = AtRef(r)
  /\ UNCHANGED <<res, unread, refs, r, b, findings>>

CheckClusterRoleBinding ==
  /\ pc = "clusterBindings"
  /\ b <= Len(res.clusterRoleBindings)
  /\ findings' = IF bindingReferencesSubject(crb, ref) /\ IsClusterAdmin(crb)
                 THEN appendIfNew(findings, ClusterAdminFinding(ref, crb))
                 ELSE findings
  /\ b' = b + 1
  /\ UNCHANGED <<res, pc, unread, refs, r>>

EndClusterRoleBindings ==
  /\ pc = "clusterBindings"
  /\ b > Len(res.clusterRoleBindings)
  /\ b' = 1
  /\ pc' = "roleBindings"
  /\ UNCHANGED <<res, unread, refs, r, findings>>

CheckRoleBinding ==
  /\ pc = "roleBindings"
  /\ b <= Len(res.roleBindings)
  /\ findings' = IF bindingReferencesSubject(rb, ref) /\ NamesClusterRole(rb)
                 THEN appendIfNew(findings, RoleBindingFinding(rb, {ref}))
                 ELSE findings
  /\ b' = b + 1
  /\ UNCHANGED <<res, pc, unread, refs, r>>

\* Mutant: the end of the refs tested before the index advances.
EndRoleBindings_RunsPast ==
  /\ pc = "roleBindings"
  /\ b > Len(res.roleBindings)
  /\ b' = 1
  /\ r' = r + 1
  /\ pc' = AtRef(r)
  /\ UNCHANGED <<res, unread, refs, findings>>

EndRoleBindings ==
  /\ pc = "roleBindings"
  /\ b > Len(res.roleBindings)
  /\ b' = 1
  /\ r' = r + 1
  /\ pc' = AtRef(r + 1)
  /\ UNCHANGED <<res, unread, refs, findings>>

\* Mutant: a binding to a Role is skipped without going on to the next.
CheckStandalone_Stays ==
  /\ pc = "standalone"
  /\ b <= Len(res.roleBindings)
  /\ NamesClusterRole(rb)
  /\ findings' = appendIfNew(findings, RoleBindingFinding(rb, {}))
  /\ b' = b + 1
  /\ UNCHANGED <<res, pc, unread, refs, r>>

\* The pass that reports a RoleBinding nobody in the manifests uses.
CheckStandalone ==
  /\ pc = "standalone"
  /\ b <= Len(res.roleBindings)
  /\ findings' = IF NamesClusterRole(rb)
                 THEN appendIfNew(findings, RoleBindingFinding(rb, {}))
                 ELSE findings
  /\ b' = b + 1
  /\ UNCHANGED <<res, pc, unread, refs, r>>

EndStandalone ==
  /\ pc = "standalone"
  /\ b > Len(res.roleBindings)
  /\ pc' = "done"
  /\ UNCHANGED <<res, unread, refs, r, b, findings>>

Next ==
  \/ CollectRef              \/ EndPods  \/ EndWorkloads
  \/ CheckClusterRoleBinding \/ EndClusterRoleBindings
  \/ CheckRoleBinding        \/ EndRoleBindings
  \/ CheckStandalone         \/ EndStandalone

\* One goroutine, finite maps and slices that nobody grows.
Spec == Init /\ [][Next]_vars /\ WF_vars(Next)

=============================================================================
