---------------------------- MODULE ChainContract ----------------------------
(***************************************************************************)
(* What the privilege chain analysis promises, whatever order the maps are *)
(* visited in.                                                             *)
(***************************************************************************)
EXTENDS ChainWalk, FiniteSetsExt, SequencesExt

\* What the loader hands over: a pod or workload is the only one of its kind, name
\* and namespace (they are keys of maps); the bindings are sequences, and a subject
\* is known by its kind, name and namespace.
LoadedInputs ==
  \A x \in Inputs :
    /\ \A u, v \in x.pods \cup x.workloads :
         <<u.kind, u.name, u.namespace>> = <<v.kind, v.name, v.namespace>> => u = v
    /\ \A list \in {x.clusterRoleBindings, x.roleBindings} :
         /\ list \in Seq(ToSet(list))
         /\ \A binding \in ToSet(list) : \A s \in binding.subjects :
              s = [kind |-> s.kind, name |-> s.name, namespace |-> s.namespace]

Returned == pc = "done"

Users       == res.pods \cup res.workloads
Wide        == ToSet(res.clusterRoleBindings)
Narrow      == {x \in ToSet(res.roleBindings) : NamesClusterRole(x)}

\* A binding reaches the account a pod or workload runs as.
Reaches(x, u) ==
  \E s \in x.subjects :
    s.kind = "ServiceAccount" /\ s.name = u.sa /\ s.namespace = u.namespace

AdminUsers == {u \in Users : \E x \in Wide : Reaches(x, u) /\ IsClusterAdmin(x)}

\* What the exit code, the counts and a suppression file can depend on, and the
\* file of a KC-013.
Verdict(f) ==
  <<Fingerprint(f), f.severity, IF f.rule = "KC-013" THEN f.file ELSE "">>

TypeOK ==
  /\ res \in Inputs
  /\ pc \in PC
  /\ unread \subseteq Users
  /\ ToSet(refs) \subseteq Users
  /\ pc \in {"clusterBindings", "roleBindings"} => r \in DOMAIN refs
  /\ r \in 1 .. Len(refs) + 1
  /\ b \in 1 .. Max({Len(res.clusterRoleBindings), Len(res.roleBindings)}) + 1
  /\ \A f \in ToSet(findings) : f.rule \in {"KC-013", "KC-014"} /\ f.severity \in Severity

-----------------------------------------------------------------------------

\* The verdicts are those of the relation "runs as, is bound to, refers to" on
\* the resources, each once: one KC-013 per pod or workload whose account a
\* ClusterRoleBinding gives cluster-admin, one KC-014 per RoleBinding to a
\* ClusterRole, used or not (analyzer.go:360-413).
ChainsReported ==
  Returned =>
    /\ \A m, n \in DOMAIN findings :
         Fingerprint(findings[m]) = Fingerprint(findings[n]) => m = n
    /\ Fingerprints(findings) =
         {<<"KC-013", u.kind, u.name, u.namespace>> : u \in AdminUsers}
         \cup {<<"KC-014", "RoleBinding", x.name, x.namespace>> : x \in Narrow}

\* A description is true of the manifests: the binding it names exists under that
\* name, refers to the role it names, and reaches the account of the ref it
\* names; and the file of the finding declares what the finding is about.  Hard
\* for a KC-014 that stands for several bindings of one name, whose facts
\* must all come from one of them (analyzer.go:388-395,404-411).
DescriptionsTrue ==
  \A f \in ToSet(findings) :
    \/ /\ f.rule = "KC-013"
       /\ \E u \in Users, x \in Wide :
            f = ClusterAdminFinding(u, x) /\ Reaches(x, u) /\ IsClusterAdmin(x)
    \/ /\ f.rule = "KC-014"
       /\ \E x \in Narrow :
            \/ f = RoleBindingFinding(x, {})
            \/ \E u \in Users : f = RoleBindingFinding(x, {u})
                                  /\ Reaches(x, u)

\* A RoleBinding that some pod or workload uses is reported with a user, never by
\* the plain message of the standalone pass: that pass must run after the whole
\* loop over the refs, since the first finding of a fingerprint stays
\* (analyzer.go:381-413).
UsersNamed ==
  \A f \in ToSet(findings) :
    (/\ f.rule = "KC-014"
     /\ \E u \in Users, x \in Narrow :
          /\ Fingerprint(f) = Fingerprint(RoleBindingFinding(x, {}))
          /\ Reaches(x, u))
      => f.description.users # {}

=============================================================================
