--------------------------- MODULE FetchContract ---------------------------
(***************************************************************************)
(* What LoadFromCluster promises about a cluster that goes on changing     *)
(* while it is read, and about the directory it reads it through.          *)
(***************************************************************************)
EXTENDS ClusterFetch

Dumps == Mandatory \cup Optional

TypeOK ==
  /\ always \subseteq cluster /\ cluster \subseteq ever
  /\ changes \in 0 .. MaxChanges
  /\ step \in {"start", "load", "cleanup", "returned"} \cup Dumps
  /\ tmpDir = "none" <=> (step = "start" \/ "start" \in failed)
  /\ tmpDir \in {"none", "present", "removed", "left"}
  /\ tmpDir \in {"none", "removed"} => dumps = << >>
  /\ DOMAIN dumps \subseteq Dumps
  /\ outcome = "none" <=> step \in Dumps \cup {"start", "load"}

\* An object as the loader returned it.
IsOf(x, o) == x.key = Loader!Key(o) /\ x.doc = o.doc

Holds(o) == (\E x \in objects : IsOf(x, o)) \/ (\E n \in DOMAIN bindings : IsOf(bindings[n], o))

\* Cluster-wide objects, and those of the namespace the user asked for.
Asked(o) == o.namespace = "" \/ namespace \in {"", o.namespace}

\* A dump was given up with a word: by the fetch, or by the loader for a limit.
GivenUp(dump) ==
  dump \in said \/ [about |-> <<"skipping">>, file |-> dump] \in warnings

-----------------------------------------------------------------------------

\* A partial fetch does not look like a small cluster.  When the call succeeds,
\* every object of the kinds it fetches, in the namespace it was asked for, that
\* existed from its start to its end is returned, unless stderr names the dump
\* it belongs to; so a dump above the file size limit, a part of a file left by
\* a failed write, or an object created or deleted meanwhile never costs
\* anything else (cluster.go:33-56, 59-78, 90-113, loader.go:165-168).
NothingMissedSilently ==
  outcome = "ok" =>
    \A o \in always : \A dump \in Dumps :
      o.kind \in KindsOf(dump) /\ Asked(o) => Holds(o) \/ GivenUp(dump)

\* Nothing is invented: what is returned existed at some time during the call, in
\* the namespace asked for if it is namespaced (cluster.go:33-52).
NothingInvented ==
  outcome = "ok" =>
    \A x \in objects \cup ToSet(bindings) :
      \E o \in ever : IsOf(x, o) /\ Asked(o)

\* "OpenShift API groups are discovered separately so vanilla Kubernetes scans do
\* not fail" (cluster.go:43): the call fails exactly when something mandatory
\* does, and then returns after it, with no later call to kubectl.
FailsForMandatoryOnly ==
  /\ outcome = "error" <=> failed # {}
  /\ failed # {} => step \in {"cleanup", "returned"} /\ Cardinality(failed) = 1

\* The dumps do not stay on disk.  However the call ends, the directory it made is
\* gone in the end, or its removal was tried and failed (cluster.go:27-31).
DumpsRemoved == <>[](step = "returned" /\ tmpDir \in {"none", "removed", "left"})

=============================================================================
