---------------------------- MODULE ClusterFetch ----------------------------
(***************************************************************************)
(* LoadFromCluster of pkg/loader/cluster.go: five kubectl calls dump the   *)
(* cluster into a temporary directory, which LoadManifests then reads      *)
(* (module ManifestLoader, step by step).  The cluster goes on changing    *)
(* from one call to the next.  kubectl is external: a call fails or lists  *)
(* what exists at that moment.                                             *)
(***************************************************************************)
EXTENDS Integers, Sequences, FiniteSets, Listings, SequencesExt

CONSTANTS
  Clusters,        \* what may exist at the start: sets of objects
  Creatable,       \* objects that may appear while the call runs
  MaxChanges,      \* bound on the changes of the cluster during the call
  Namespaces,      \* values of --namespace
  MaxFileSize, MaxDocsPerFile

VARIABLES
  cluster,         \* the objects that exist
  served,          \* the optional kinds whose API group the server has
  namespace,       \* of the call
  changes,
  always, ever,    \* history: what existed all the time, and at some time
  step,
  tmpDir,          \* "none", "present", "removed", or "left" behind
  dumps,           \* the files in it, by name
  outcome,         \* "none", "ok" or "error"
  said,            \* the dumps of optional resources that were warned about
  failed,          \* history: the mandatory steps that failed
  args, paths, entries, pruned, back, file, docs, pc, objects, bindings, warnings, opened

environment == <<cluster, served, namespace, changes, always, ever>>
loader == <<args, paths, entries, pruned, back, file, docs, pc, objects, bindings,
            warnings, opened>>
call   == <<step, tmpDir, dumps, outcome, said, failed>>
vars   == <<environment, call, loader>>

\* Default excludes are off: the temporary directory is ours.
Loader == INSTANCE ManifestLoader WITH Excluded <- {}, Inputs <- {<< >>}

-----------------------------------------------------------------------------
(* The five dumps.                                                         *)

ClusterScoped == {"ClusterRole", "ClusterRoleBinding"}
Namespaced ==
  {"Role", "RoleBinding", "ServiceAccount", "Service", "Ingress", "Deployment",
   "DaemonSet", "StatefulSet", "Job", "CronJob", "ReplicaSet", "ReplicationController",
   "Pod", "NetworkPolicy"}

Mandatory == {"cluster-scoped", "namespaced"}
Optional  == {"openshift-scc", "openshift-workloads", "openshift-routes"}

KindsOf(dump) ==
  CASE dump = "cluster-scoped"      -> ClusterScoped
    [] dump = "namespaced"          -> Namespaced
    [] dump = "openshift-scc"       -> {"SecurityContextConstraints"}
    [] dump = "openshift-workloads" -> {"DeploymentConfig"}
    [] dump = "openshift-routes"    -> {"Route"}

FetchedKinds == UNION {KindsOf(dump) : dump \in Mandatory \cup Optional}

\* What the server guarantees: a namespaced object has a namespace and no other
\* does, kubectl lists the kinds fetched under the apiVersions the loader takes
\* them from, and two objects differ in kind, namespace or name.
IsResource(o) ==
  /\ o.type = "object"
  /\ o.kind \in FetchedKinds =>
       /\ Loader!IsKept(o)
       /\ o.namespace = "" <=> o.kind \in ClusterScoped \cup {"SecurityContextConstraints"}

ASSUME ClustersAssumption ==
  /\ MaxChanges \in Nat
  /\ \A o \in Creatable \cup UNION Clusters : IsResource(o)
  /\ \A start \in Clusters :
       /\ IsFiniteSet(start)
       /\ \A o, p \in start : Loader!Key(o) = Loader!Key(p) => o = p

\* The dumps that respect --namespace.
IsNamespaced(dump) == dump \notin {"cluster-scoped", "openshift-scc"}

Following(s) ==
  CASE s = "cluster-scoped"      -> "namespaced"
    [] s = "namespaced"          -> "openshift-scc"
    [] s = "openshift-scc"       -> "openshift-workloads"
    [] s = "openshift-workloads" -> "openshift-routes"
    [] s = "openshift-routes"    -> "load"

\* filepath.WalkDir visits them in lexical order.
WalkOrder == <<"cluster-scoped", "namespaced", "openshift-routes", "openshift-scc",
               "openshift-workloads">>

\* Mutant: a namespaced dump fetched with -A.
InScope_AllNamespaces(dump, o) ==
  o.kind \in KindsOf(dump) /\ (dump = "namespaced" /\ namespace # "" => o.namespace = namespace)

InScope(dump, o) ==
  o.kind \in KindsOf(dump) /\ (IsNamespaced(dump) /\ namespace # "" => o.namespace = namespace)

AsFile(dump, ds, size) ==
  [name |-> dump, yaml |-> TRUE, readable |-> TRUE, size |-> size, docs |-> ds, more |-> << >>]

\* kubectl prints the objects as one list; its size is taken as their number.
ListDump(dump, found) ==
  AsFile(dump, <<[type |-> "list", split |-> TRUE, items |-> Listed(found)]>>,
         Cardinality(found))

Listing(dump) == {o \in cluster : InScope(dump, o)}

\* What a failed write may leave: an unparseable part, or one that ends between
\* two objects and parses.
Remains(dump) ==
  {AsFile(dump, <<[type |-> "junk", split |-> TRUE]>>, 1)}
  \cup {ListDump(dump, part) : part \in SUBSET Listing(dump)}

\* os.WriteFile: the file is made, or its content replaced.
Written(dump, content) ==
  [d \in DOMAIN dumps \cup {dump} |-> IF d = dump THEN content ELSE dumps[d]]

-----------------------------------------------------------------------------

Init ==
  /\ cluster \in Clusters
  /\ served \in SUBSET UNION {KindsOf(dump) : dump \in Optional}
  /\ \A dump \in Optional : \A o \in cluster : o.kind \in KindsOf(dump) => o.kind \in served
  /\ namespace \in Namespaces
  /\ changes = 0
  /\ always = cluster /\ ever = cluster
  /\ step = "start"
  /\ tmpDir = "none" /\ dumps = << >>
  /\ outcome = "none" /\ said = {} /\ failed = {}
  /\ args = << >> /\ paths = << >> /\ entries = << >> /\ pruned = {} /\ back = "paths"
  /\ file = Loader!NoFile /\ docs = << >> /\ pc = "idle"
  /\ objects = {} /\ bindings = << >> /\ warnings = {} /\ opened = << >>

(* The cluster.  What happens after the last call cannot be seen.          *)

Change(now) ==
  /\ step \in Mandatory \cup Optional
  /\ changes < MaxChanges
  /\ changes' = changes + 1
  /\ cluster' = now
  /\ always' = always \cap now
  /\ ever' = ever \cup now
  /\ UNCHANGED <<served, namespace, call, loader>>

Create ==
  \E o \in Creatable \ cluster :
    /\ (\E dump \in Optional : o.kind \in KindsOf(dump)) => o.kind \in served
    /\ \A other \in cluster : Loader!Key(other) # Loader!Key(o)
    /\ Change(cluster \cup {o})

Delete == \E o \in cluster : Change(cluster \ {o})

(* The call.                                                               *)

\* No kubectl, or no temporary directory.
StartFails ==
  /\ step = "start"
  /\ outcome' = "error" /\ failed' = {"start"}
  /\ step' = "returned"
  /\ UNCHANGED <<environment, tmpDir, dumps, said, loader>>

MakeTempDir ==
  /\ step = "start"
  /\ tmpDir' = "present"
  /\ step' = "cluster-scoped"
  /\ UNCHANGED <<environment, dumps, outcome, said, failed, loader>>

\* Mutant: the directory removed at the end of a successful call only.
FetchFails_NoDefer ==
  /\ step \in Mandatory
  /\ outcome' = "error" /\ failed' = failed \cup {step}
  /\ step' = "returned"
  /\ UNCHANGED <<environment, tmpDir, dumps, said, loader>>

\* Mutant: the error is noted and the call goes on.
FetchFails_NoReturn ==
  /\ step \in Mandatory
  /\ outcome' = "error" /\ failed' = failed \cup {step}
  /\ step' = Following(step)
  /\ UNCHANGED <<environment, tmpDir, dumps, said, loader>>

\* kubectl fails, or the dump cannot be written: an error, but first the
\* deferred removal.
FetchFails ==
  /\ step \in Mandatory
  /\ outcome' = "error" /\ failed' = failed \cup {step}
  /\ step' = "cleanup"
  /\ UNCHANGED <<environment, tmpDir, dumps, said, loader>>

\* Mutant: a dump that cannot be fetched is taken as one that was.
Fetch_Unchecked ==
  /\ step \in Mandatory
  /\ \E found \in {{}, Listing(step)} :
       /\ dumps' = Written(step, ListDump(step, found))
       /\ failed' = IF found = Listing(step) THEN failed ELSE failed \cup {step}
  /\ step' = Following(step)
  /\ UNCHANGED <<environment, tmpDir, outcome, said, loader>>

Fetch ==
  /\ step \in Mandatory
  /\ dumps' = Written(step, ListDump(step, Listing(step)))
  /\ step' = Following(step)
  /\ UNCHANGED <<environment, tmpDir, outcome, said, failed, loader>>

\* Mutant: only a failed discovery is worth a warning.
FetchOptionalFails_Quiet ==
  /\ step \in Optional
  /\ said' = IF KindsOf(step) \subseteq served THEN said ELSE said \cup {step}
  /\ \/ UNCHANGED dumps
     \/ /\ KindsOf(step) \subseteq served
        /\ \E left \in Remains(step) : dumps' = Written(step, left)
  /\ step' = Following(step)
  /\ UNCHANGED <<environment, tmpDir, outcome, failed, loader>>

\* Discovery, kubectl or the write fails: a warning, and the call goes on with
\* what is in the directory.
FetchOptionalFails ==
  /\ step \in Optional
  /\ said' = said \cup {step}
  /\ \/ UNCHANGED dumps
     \/ /\ KindsOf(step) \subseteq served
        /\ \E left \in Remains(step) : dumps' = Written(step, left)
  /\ step' = Following(step)
  /\ UNCHANGED <<environment, tmpDir, outcome, failed, loader>>

\* A server without the API group is no fault.
SkipOptional ==
  /\ step \in Optional
  /\ ~(KindsOf(step) \subseteq served)
  /\ step' = Following(step)
  /\ UNCHANGED <<environment, tmpDir, dumps, outcome, said, failed, loader>>

FetchOptional ==
  /\ step \in Optional
  /\ KindsOf(step) \subseteq served
  /\ dumps' = Written(step, ListDump(step, Listing(step)))
  /\ step' = Following(step)
  /\ UNCHANGED <<environment, tmpDir, outcome, said, failed, loader>>

TempDirEntries ==
  LET present == Sublist(WalkOrder, {n \in DOMAIN WalkOrder : WalkOrder[n] \in DOMAIN dumps})
  IN  <<[type |-> "dir", name |-> "tmp", path |-> << >>]>>
      \o [n \in DOMAIN present |-> [type |-> "file", name |-> present[n],
                                    path |-> <<present[n]>>, file |-> dumps[present[n]]]]

CallLoader ==
  /\ step = "load" /\ pc = "idle"
  /\ args' = <<[type |-> "dir", entries |-> TempDirEntries]>>
  /\ paths' = args'
  /\ pc' = "paths"
  /\ UNCHANGED <<environment, call, entries, pruned, back, file, docs, objects, bindings,
                 warnings, opened>>

LoadStep ==
  /\ step = "load"
  /\ Loader!Load
  /\ UNCHANGED <<environment, call>>

LoaderReturns ==
  /\ step = "load" /\ pc = "loaded"
  /\ outcome' = "ok"
  /\ step' = "cleanup"
  /\ UNCHANGED <<environment, tmpDir, dumps, said, failed, loader>>

\* The result of the removal is not looked at: it may leave some of the files.
Cleanup ==
  /\ step = "cleanup"
  /\ \/ tmpDir' = "removed" /\ dumps' = << >>
     \/ /\ tmpDir' = "left"
        /\ \E rest \in SUBSET DOMAIN dumps : dumps' = [dump \in rest |-> dumps[dump]]
  /\ step' = "returned"
  /\ UNCHANGED <<environment, outcome, said, failed, loader>>

-----------------------------------------------------------------------------

Program ==
  \/ StartFails \/ MakeTempDir
  \/ FetchFails \/ Fetch
  \/ FetchOptionalFails \/ SkipOptional \/ FetchOptional
  \/ CallLoader \/ LoadStep \/ LoaderReturns \/ Cleanup

Next == Program \/ Create \/ Delete

\* kubectl returns, with or without success; the cluster owes us nothing.
Spec == Init /\ [][Next]_vars /\ WF_vars(Program)

=============================================================================
