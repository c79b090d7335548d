------------------------- MODULE ClusterFetchProofs -------------------------
(***************************************************************************)
(* Proofs that LoadFromCluster fails exactly for what is mandatory, and    *)
(* that a successful call returns nothing that was not there and misses    *)
(* nothing it does not speak of: for every cluster, however often it       *)
(* changes while it is read, and for every size and limit.                 *)
(***************************************************************************)
EXTENDS FetchContract, ListingsProofs, SequenceTheorems

\* The inductive invariant: beside the contract, where the call is, that only the
\* start or a mandatory step can have failed, and that until the call returns
\* there is no outcome and nothing has failed.
IInv ==
  /\ FailsForMandatoryOnly
  /\ step \in {"start", "load", "cleanup", "returned"} \cup Dumps
  /\ failed \subseteq {"start"} \cup Mandatory
  /\ step \in {"start", "load"} \cup Dumps => outcome = "none"
  /\ outcome \in {"none", "ok", "error"}
  /\ step \in {"cleanup", "returned"} => outcome # "none"

\* The steps lead from each dump to the next, and from the last to the loader.
LEMMA FollowingDump ==
  ASSUME NEW dump \in Dumps
  PROVE  Following(dump) \in Dumps \cup {"load"}
BY DEF Dumps, Mandatory, Optional, Following

LEMMA FetchBegins == Init => IInv
BY DEF Init, IInv, FailsForMandatoryOnly, Dumps, Mandatory, Optional

\* A step that fails when nothing has failed before it is the only one.
LEMMA FirstFailure ==
  ASSUME NEW s, failed = {}, failed' = failed \cup {s}
  PROVE  failed' = {s} /\ Cardinality(failed') = 1
BY FS_Singleton

LEMMA FetchKeeps ==
  ASSUME IInv, [Next]_vars
  PROVE  IInv'
<1>1. CASE Create \/ Delete
  BY <1>1 DEF Create, Delete, Change, call, IInv, FailsForMandatoryOnly, Dumps
<1>2. CASE StartFails
  <2>1. failed' = failed \cup {"start"} /\ failed = {}
    BY <1>2 DEF StartFails, IInv, FailsForMandatoryOnly
  <2>2. failed' = {"start"} /\ Cardinality(failed') = 1
    BY <2>1, FirstFailure
  <2> QED
    BY <1>2, <2>2 DEF StartFails, IInv, FailsForMandatoryOnly, Dumps, Mandatory, Optional
<1>3. CASE MakeTempDir
  BY <1>3 DEF MakeTempDir, IInv, FailsForMandatoryOnly, Dumps, Mandatory, Optional
<1>4. CASE FetchFails
  <2>1. failed' = failed \cup {step} /\ failed = {} /\ step \in Mandatory
    BY <1>4 DEF FetchFails, IInv, FailsForMandatoryOnly, Mandatory
  <2>2. failed' = {step} /\ Cardinality(failed') = 1
    BY <2>1, FirstFailure
  <2> QED
    BY <1>4, <2>1, <2>2 DEF FetchFails, IInv, FailsForMandatoryOnly, Dumps, Mandatory, Optional
<1>5. CASE Fetch \/ FetchOptionalFails \/ SkipOptional \/ FetchOptional
  <2>1. /\ step \in Dumps /\ step' = Following(step)
        /\ UNCHANGED <<outcome, failed>>
    BY <1>5 DEF Fetch, FetchOptionalFails, SkipOptional, FetchOptional, Dumps
  <2>2. step' \in Dumps \cup {"load"}
    BY <2>1, FollowingDump
  <2>3. failed = {} /\ outcome = "none"
    BY <2>1 DEF IInv, FailsForMandatoryOnly, Dumps, Mandatory, Optional
  <2> QED
    BY <2>1, <2>2, <2>3 DEF IInv, FailsForMandatoryOnly, Dumps, Mandatory, Optional
<1>6. CASE CallLoader \/ LoadStep
  <2>1. UNCHANGED <<step, outcome, failed>>
    BY <1>6 DEF CallLoader, LoadStep, call
  <2> QED
    BY <2>1 DEF IInv, FailsForMandatoryOnly
<1>7. CASE LoaderReturns
  <2>1. /\ step = "load" /\ step' = "cleanup"
        /\ outcome' = "ok" /\ failed' = failed
    BY <1>7 DEF LoaderReturns
  <2>2. failed = {}
    BY <2>1 DEF IInv, FailsForMandatoryOnly
  <2> QED
    BY <2>1, <2>2 DEF IInv, FailsForMandatoryOnly, Dumps, Mandatory, Optional
<1>8. CASE Cleanup
  <2>1. /\ step = "cleanup" /\ step' = "returned"
        /\ UNCHANGED <<outcome, failed>>
    BY <1>8 DEF Cleanup
  <2> QED
    BY <2>1 DEF IInv, FailsForMandatoryOnly, Dumps, Mandatory, Optional
<1>9. CASE UNCHANGED vars
  BY <1>9 DEF vars, call, IInv, FailsForMandatoryOnly, Dumps
<1> QED
  BY <1>1, <1>2, <1>3, <1>4, <1>5, <1>6, <1>7, <1>8, <1>9 DEF Next, Program

\* LoadFromCluster fails if the start or a mandatory dump does, for no other
\* reason, and goes no further then (cluster.go:22-88).
THEOREM FetchFailsForMandatoryOnly == Spec => []FailsForMandatoryOnly
<1>1. IInv => FailsForMandatoryOnly
  BY DEF IInv
<1> QED
  BY <1>1, FetchBegins, FetchKeeps, PTL DEF Spec

-----------------------------------------------------------------------------
(* What the call reads.                                                    *)

\* The objects a dump may hold: they existed, are fetched, and were asked for.
Found == {o \in ever : Asked(o) /\ o.kind \in FetchedKinds}

Junk == [type |-> "junk", split |-> TRUE]

ListOf(items) == [type |-> "list", split |-> TRUE, items |-> items]

Documents == {Junk} \cup {ListOf(items) : items \in Seq(Found)} \cup Found

\* A dump is a list of such objects, or junk.
IsDump(dump, f) ==
  \E d \in {Junk} \cup {ListOf(items) : items \in Seq(Found)} : \E size :
    f = AsFile(dump, <<d>>, size)

Carries(d, o) == d.type = "list" /\ \E n \in DOMAIN d.items : d.items[n] = o

\* What the loader can make of them.
Results == {Loader!Stored(o, [name |-> dump]) : o \in Found, dump \in Dumps}

\* The dumps whose turn is over.
Passed(s) ==
  CASE s = "namespaced"          -> {"cluster-scoped"}
    [] s = "openshift-scc"       -> Mandatory
    [] s = "openshift-workloads" -> Mandatory \cup {"openshift-scc"}
    [] s = "openshift-routes"    -> Mandatory \cup {"openshift-scc", "openshift-workloads"}
    [] s = "load"                -> Dumps
    [] OTHER                     -> {}

\* The server: what always existed never meets another object of its key.
ServerInv ==
  /\ changes \in 0 .. MaxChanges
  /\ always \subseteq cluster /\ cluster \subseteq ever
  /\ IsFiniteSet(cluster)
  /\ \A o \in ever : IsResource(o)
  /\ \A o, p \in cluster : Loader!Key(o) = Loader!Key(p) => o = p
  /\ \A o \in always, p \in ever : Loader!Key(o) = Loader!Key(p) => o = p
  /\ \A dump \in Optional : \A o \in cluster : o.kind \in KindsOf(dump) => o.kind \in served

\* The directory.
DirInv ==
  /\ tmpDir = "none" <=> (step = "start" \/ "start" \in failed)
  /\ tmpDir \in {"none", "present", "removed", "left"}
  /\ step \in Dumps \cup {"load", "cleanup"} => tmpDir = "present"
  /\ tmpDir \in {"none", "removed"} => dumps = << >>
  /\ DOMAIN dumps \subseteq Dumps
  /\ \A dump \in DOMAIN dumps : IsDump(dump, dumps[dump])

\* A dump whose turn is over holds what always existed of its kinds, or was
\* spoken of.
DumpsInv ==
  \A dump \in Passed(step) : \A o \in always :
    o.kind \in KindsOf(dump) /\ Asked(o) =>
      \/ dump \in said
      \/ dump \in DOMAIN dumps /\ Carries(dumps[dump].docs[1], o)

FetchInv == IInv /\ ServerInv /\ DirInv /\ DumpsInv

-----------------------------------------------------------------------------
(* The server and the dumps.                                               *)

LEMMA PassedNext ==
  ASSUME NEW s \in Dumps
  PROVE  Passed(Following(s)) = Passed(s) \cup {s} /\ s \notin Passed(s)
BY DEF Dumps, Mandatory, Optional, Following, Passed

LEMMA PassedDumps ==
  ASSUME NEW s
  PROVE  Passed(s) \subseteq Dumps
BY DEF Dumps, Mandatory, Optional, Passed

\* Dumps stay what they are: more objects may be found, none is lost.
LEMMA DumpsStay ==
  ASSUME DirInv, Found \subseteq Found', UNCHANGED dumps
  PROVE  \A dump \in DOMAIN dumps' : IsDump(dump, dumps[dump])'
<1>1. \A items \in Seq(Found) : items \in Seq(Found')
  OBVIOUS
<1> QED
  BY <1>1 DEF IsDump, DirInv

\* A list of existing objects of the kinds of a dump is a dump.
LEMMA ListingIsDump ==
  ASSUME FetchInv, NEW dump \in Dumps, NEW part, part \subseteq Listing(dump)
  PROVE  /\ IsDump(dump, ListDump(dump, part))
         /\ \A o \in part : Carries(ListDump(dump, part).docs[1], o)
<1>1. IsFiniteSet(part)
  BY FS_Subset DEF FetchInv, ServerInv, Listing
<1>2. ListsOnce(Listed(part), part)
  BY <1>1, ListedOnce
<1>3. part \subseteq Found
  <2> SUFFICES ASSUME NEW o \in part PROVE o \in Found
    OBVIOUS
  <2>1. o \in ever /\ IsResource(o) /\ InScope(dump, o)
    BY DEF Listing, FetchInv, ServerInv
  <2>2. o.kind \in KindsOf(dump) /\ o.kind \in FetchedKinds
    BY <2>1 DEF InScope, FetchedKinds, Dumps
  <2>3. Asked(o)
    <3>1. CASE IsNamespaced(dump)
      BY <2>1, <3>1 DEF InScope, Asked
    <3>2. CASE ~IsNamespaced(dump)
      <4>1. o.kind \in ClusterScoped \cup {"SecurityContextConstraints"}
        BY <2>2, <3>2 DEF IsNamespaced, KindsOf
      <4> QED
        BY <2>1, <2>2, <4>1 DEF IsResource, Asked
    <3> QED
      BY <3>1, <3>2
  <2> QED
    BY <2>1, <2>2, <2>3 DEF Found
<1>4. Listed(part) \in Seq(Found)
  BY <1>2, <1>3 DEF ListsOnce
<1> QED
  BY <1>2, <1>4, Zenon DEF IsDump, ListDump, ListOf, Carries, AsFile, ListsOnce

LEMMA ServerBegins == Init => ServerInv
<1> SUFFICES ASSUME Init PROVE ServerInv
  OBVIOUS
<1>1. cluster \in Clusters /\ always = cluster /\ ever = cluster /\ changes = 0
  BY DEF Init
<1> QED
  BY <1>1, ClustersAssumption DEF Init, ServerInv

\* Whatever else changes, the server does not.
LEMMA ServerStays ==
  ASSUME ServerInv, UNCHANGED environment
  PROVE  ServerInv' /\ Found' = Found
BY DEF environment, ServerInv, Found, Asked

LEMMA ServerChanges ==
  ASSUME ServerInv, Create \/ Delete
  PROVE  ServerInv' /\ Found \subseteq Found' /\ always' \subseteq always
<1>1. CASE Create
  <2>1. PICK o \in Creatable \ cluster :
          /\ (\E dump \in Optional : o.kind \in KindsOf(dump)) => o.kind \in served
          /\ \A other \in cluster : Loader!Key(other) # Loader!Key(o)
          /\ Change(cluster \cup {o})
    BY <1>1 DEF Create
  <2>2. IsFiniteSet(cluster \cup {o})
    BY FS_AddElement DEF ServerInv
  <2>3. IsResource(o)
    BY ClustersAssumption
  <2>4. /\ cluster' = cluster \cup {o} /\ always' = always /\ ever' = ever \cup {o}
        /\ changes' \in 0 .. MaxChanges
        /\ UNCHANGED <<served, namespace>>
    BY <2>1, ClustersAssumption DEF Change, ServerInv
  <2>5. \A x \in always, y \in ever' : Loader!Key(x) = Loader!Key(y) => x = y
    BY <2>1, <2>4 DEF ServerInv
  <2>6. \A x, y \in cluster' : Loader!Key(x) = Loader!Key(y) => x = y
    BY <2>1, <2>4 DEF ServerInv
  <2>7. Found \subseteq Found'
    BY <2>4 DEF Found, Asked
  <2>8. ServerInv'
    BY <2>1, <2>2, <2>3, <2>4, <2>5, <2>6 DEF ServerInv
  <2> QED
    BY <2>4, <2>7, <2>8
<1>2. CASE Delete
  <2>1. PICK o \in cluster : Change(cluster \ {o})
    BY <1>2 DEF Delete
  <2>2. /\ cluster' = cluster \ {o} /\ always' = always \cap cluster' /\ ever' = ever \cup cluster'
        /\ changes' \in 0 .. MaxChanges
        /\ UNCHANGED <<served, namespace>>
    BY <2>1, ClustersAssumption DEF Change, ServerInv
  <2>3. IsFiniteSet(cluster')
    BY <2>2, FS_Subset DEF ServerInv
  <2>4. ever' = ever
    BY <2>2 DEF ServerInv
  <2>5. Found \subseteq Found'
    BY <2>2, <2>4 DEF Found, Asked
  <2> QED
    BY <2>2, <2>3, <2>4, <2>5 DEF ServerInv
<1> QED
  BY <1>1, <1>2

\* Only a change of the cluster changes the cluster.
LEMMA ServerKeeps ==
  ASSUME ServerInv, [Next]_vars
  PROVE  ServerInv' /\ Found \subseteq Found' /\ always' \subseteq always /\ UNCHANGED namespace
<1>1. CASE Create \/ Delete
  BY <1>1, ServerChanges DEF Create, Delete, Change
<1>2. CASE Program \/ UNCHANGED vars
  <2>1. UNCHANGED environment
    BY <1>2 DEF Program, StartFails, MakeTempDir, FetchFails, Fetch, FetchOptionalFails, SkipOptional,
                FetchOptional, CallLoader, LoadStep, LoaderReturns, Cleanup, vars
  <2> QED
    BY <2>1, ServerStays DEF environment
<1> QED
  BY <1>1, <1>2 DEF Next

\* Writing a dump of what the server lists keeps the others.
LEMMA WriteKeeps ==
  ASSUME NEW dump \in Dumps, NEW f, IsDump(dump, f), dumps' = Written(dump, f),
         DOMAIN dumps \subseteq Dumps, \A d \in DOMAIN dumps : IsDump(d, dumps[d])
  PROVE  /\ DOMAIN dumps' = DOMAIN dumps \cup {dump}
         /\ dumps'[dump] = f
         /\ \A d \in DOMAIN dumps \ {dump} : dumps'[d] = dumps[d]
         /\ \A d \in DOMAIN dumps' : IsDump(d, dumps'[d])
BY DEF Written

LEMMA DirBegins == Init => DirInv /\ DumpsInv
BY DEF Init, DirInv, DumpsInv, Passed, Dumps, Mandatory, Optional

\* Where the call takes a dump's turn: what the directory holds afterwards.
LEMMA TurnKeeps ==
  ASSUME FetchInv, Fetch \/ FetchOptionalFails \/ SkipOptional \/ FetchOptional
  PROVE  DirInv' /\ DumpsInv'
<1>1. /\ step \in Dumps /\ step' = Following(step)
      /\ UNCHANGED environment /\ UNCHANGED <<tmpDir, failed>>
      /\ said \subseteq said'
  BY DEF Fetch, FetchOptionalFails, SkipOptional, FetchOptional, Dumps
<1>2. Found' = Found /\ UNCHANGED <<namespace, always, cluster>>
  BY <1>1, ServerStays DEF FetchInv, environment
<1>3. tmpDir = "present" /\ failed = {}
  BY <1>1 DEF FetchInv, DirInv, IInv, FailsForMandatoryOnly, Dumps, Mandatory, Optional
<1>4. step' \notin {"start"} /\ step \notin Passed(step) /\ Passed(step') = Passed(step) \cup {step}
  BY <1>1, FollowingDump, PassedNext DEF Dumps, Mandatory, Optional
<1>5. ASSUME /\ DOMAIN dumps' \subseteq Dumps
             /\ \A d \in DOMAIN dumps' : IsDump(d, dumps'[d])
      PROVE  DirInv'
  <2>1. \A d \in DOMAIN dumps' : IsDump(d, dumps[d])'
    BY <1>2, <1>5 DEF IsDump
  <2> QED
    BY <1>1, <1>3, <1>4, <1>5, <2>1 DEF FetchInv, DirInv
<1>6. ASSUME /\ \A d \in DOMAIN dumps \ {step} : d \in DOMAIN dumps' /\ dumps'[d] = dumps[d]
             /\ \A o \in always : o.kind \in KindsOf(step) /\ Asked(o) =>
                  \/ step \in said'
                  \/ step \in DOMAIN dumps' /\ Carries(dumps'[step].docs[1], o)
      PROVE  DumpsInv'
  BY <1>1, <1>2, <1>4, <1>6 DEF FetchInv, DumpsInv, Asked, environment
<1>7. ASSUME NEW part, part \subseteq Listing(step), dumps' = Written(step, ListDump(step, part))
      PROVE  /\ DirInv'
             /\ \A d \in DOMAIN dumps \ {step} : d \in DOMAIN dumps' /\ dumps'[d] = dumps[d]
             /\ step \in DOMAIN dumps'
             /\ \A o \in part : Carries(dumps'[step].docs[1], o)
  <2>1. IsDump(step, ListDump(step, part))
    BY <1>1, <1>7, ListingIsDump
  <2>2. /\ DOMAIN dumps' = DOMAIN dumps \cup {step}
        /\ dumps'[step] = ListDump(step, part)
        /\ \A d \in DOMAIN dumps \ {step} : dumps'[d] = dumps[d]
        /\ \A d \in DOMAIN dumps' : IsDump(d, dumps'[d])
    BY <1>1, <1>7, <2>1, WriteKeeps DEF FetchInv, DirInv
  <2>3. DirInv'
    BY <1>1, <1>5, <2>2 DEF FetchInv, DirInv
  <2>4. \A o \in part : Carries(dumps'[step].docs[1], o)
    BY <1>1, <1>7, <2>2, ListingIsDump
  <2> QED
    BY <2>2, <2>3, <2>4
<1>8. CASE Fetch \/ FetchOptional
  <2>1. dumps' = Written(step, ListDump(step, Listing(step)))
    BY <1>8 DEF Fetch, FetchOptional
  <2>2. /\ DirInv'
        /\ \A d \in DOMAIN dumps \ {step} : d \in DOMAIN dumps' /\ dumps'[d] = dumps[d]
        /\ step \in DOMAIN dumps'
        /\ \A o \in Listing(step) : Carries(dumps'[step].docs[1], o)
    BY <1>7, <2>1
  <2>3. ASSUME NEW o \in always, o.kind \in KindsOf(step), Asked(o)
        PROVE  o \in Listing(step)
    <3>1. o \in cluster /\ IsResource(o)
      BY DEF FetchInv, ServerInv
    <3>2. o.kind \in FetchedKinds
      BY <1>1, <2>3 DEF FetchedKinds, Dumps
    <3>3. IsNamespaced(step) => o.kind \notin ClusterScoped \cup {"SecurityContextConstraints"}
      BY <1>1, <2>3
      DEF IsNamespaced, KindsOf, Dumps, Mandatory, Optional, ClusterScoped, Namespaced
    <3> QED
      BY <2>3, <3>1, <3>2, <3>3 DEF Listing, InScope, Asked, IsResource
  <2> QED
    BY <1>6, <2>2, <2>3
<1>9. CASE FetchOptionalFails
  <2>1. step \in said'
    BY <1>9 DEF FetchOptionalFails
  <2>2. CASE UNCHANGED dumps
    BY <1>5, <1>6, <2>1, <2>2 DEF FetchInv, DirInv
  <2>3. CASE \E left \in Remains(step) : dumps' = Written(step, left)
    <3>1. PICK left \in Remains(step) : dumps' = Written(step, left)
      BY <2>3
    <3>2. CASE left = AsFile(step, <<Junk>>, 1)
      <4>1. IsDump(step, left)
        BY <3>2 DEF IsDump
      <4>2. /\ DOMAIN dumps' = DOMAIN dumps \cup {step}
            /\ \A d \in DOMAIN dumps \ {step} : dumps'[d] = dumps[d]
            /\ \A d \in DOMAIN dumps' : IsDump(d, dumps'[d])
        BY <1>1, <3>1, <4>1, WriteKeeps DEF FetchInv, DirInv
      <4> QED
        BY <1>1, <1>5, <1>6, <2>1, <4>2 DEF FetchInv, DirInv
    <3>3. CASE \E part \in SUBSET Listing(step) : left = ListDump(step, part)
      BY <1>6, <1>7, <2>1, <3>1, <3>3
    <3> QED
      BY <3>1, <3>2, <3>3 DEF Remains, Junk
  <2> QED
    BY <1>9, <2>2, <2>3 DEF FetchOptionalFails
<1>10. CASE SkipOptional
  <2>1. UNCHANGED dumps /\ step \in Optional /\ ~(KindsOf(step) \subseteq served)
    BY <1>10 DEF SkipOptional
  <2>2. \A o \in always : o.kind \notin KindsOf(step)
    <3> SUFFICES ASSUME NEW o \in always, o.kind \in KindsOf(step) PROVE FALSE
      OBVIOUS
    <3>1. o.kind \in served
      BY <2>1 DEF FetchInv, ServerInv
    <3>2. KindsOf(step) = {o.kind}
      BY <2>1 DEF Optional, KindsOf
    <3> QED
      BY <2>1, <3>1, <3>2
  <2> QED
    BY <1>5, <1>6, <2>1, <2>2 DEF FetchInv, DirInv
<1> QED
  BY <1>8, <1>9, <1>10

\* Every other step leaves the dumps alone, until they are removed.
LEMMA DirKeeps ==
  ASSUME FetchInv, [Next]_vars
  PROVE  DirInv' /\ DumpsInv'
<1>1. Found \subseteq Found' /\ always' \subseteq always /\ UNCHANGED namespace
  BY ServerKeeps DEF FetchInv
<1>2. CASE Create \/ Delete
  <2>1. UNCHANGED call
    BY <1>2 DEF Create, Delete, Change
  <2>2. \A d \in DOMAIN dumps' : IsDump(d, dumps[d])'
    BY <1>1, <2>1, DumpsStay DEF FetchInv, call
  <2> QED
    BY <1>1, <2>1, <2>2 DEF call, FetchInv, DirInv, DumpsInv, Asked
<1>3. CASE Fetch \/ FetchOptionalFails \/ SkipOptional \/ FetchOptional
  BY <1>3, TurnKeeps
<1>4. CASE StartFails \/ MakeTempDir \/ FetchFails \/ LoaderReturns \/ CallLoader \/ LoadStep
           \/ UNCHANGED vars
  <2>1. UNCHANGED environment /\ UNCHANGED <<dumps, said>>
    BY <1>4 DEF StartFails, MakeTempDir, FetchFails, LoaderReturns, CallLoader, LoadStep, call, vars
  <2>2. Found' = Found
    BY <2>1, ServerStays DEF FetchInv
  <2>3. \A d \in DOMAIN dumps' : IsDump(d, dumps[d])'
    BY <2>1, <2>2, DumpsStay DEF FetchInv
  <2>4. Passed(step') = {} \/ step' = step
    BY <1>4 DEF StartFails, MakeTempDir, FetchFails, LoaderReturns, CallLoader, LoadStep, call, vars,
                Passed
  <2>5. DumpsInv'
    BY <2>1, <2>4 DEF FetchInv, DumpsInv, environment, Asked
  <2>6. /\ tmpDir' = "none" <=> (step' = "start" \/ "start" \in failed')
        /\ tmpDir' \in {"none", "present", "removed", "left"}
        /\ step' \in Dumps \cup {"load", "cleanup"} => tmpDir' = "present"
        /\ tmpDir' \in {"none", "removed"} => dumps' = << >>
    <3>1. CASE StartFails \/ MakeTempDir
      BY <2>1, <3>1 DEF StartFails, MakeTempDir, FetchInv, DirInv, IInv, FailsForMandatoryOnly,
                        Dumps, Mandatory, Optional
    <3>2. CASE FetchFails
      BY <2>1, <3>2 DEF FetchFails, FetchInv, DirInv, IInv, FailsForMandatoryOnly,
                        Dumps, Mandatory, Optional
    <3>3. CASE LoaderReturns
      BY <2>1, <3>3 DEF LoaderReturns, FetchInv, DirInv, Dumps, Mandatory, Optional
    <3>4. CASE CallLoader \/ LoadStep \/ UNCHANGED vars
      BY <2>1, <3>4 DEF CallLoader, LoadStep, vars, call, FetchInv, DirInv
    <3> QED
      BY <1>4, <3>1, <3>2, <3>3, <3>4
  <2> QED
    BY <2>1, <2>3, <2>5, <2>6 DEF FetchInv, DirInv
<1>5. CASE Cleanup
  <2>1. /\ step = "cleanup" /\ step' = "returned" /\ UNCHANGED <<failed, environment>>
        /\ tmpDir' \in {"removed", "left"} /\ (tmpDir' = "removed" => dumps' = << >>)
    BY <1>5 DEF Cleanup
  <2>2. /\ DOMAIN dumps' \subseteq DOMAIN dumps
        /\ \A d \in DOMAIN dumps' : dumps'[d] = dumps[d]
    BY <1>5 DEF Cleanup
  <2>3. Found' = Found
    BY <2>1, ServerStays DEF FetchInv
  <2>4. \A d \in DOMAIN dumps' : IsDump(d, dumps[d])'
    BY <2>2, <2>3 DEF IsDump, FetchInv, DirInv
  <2>5. Passed(step') = {}
    BY <2>1 DEF Passed
  <2>6. tmpDir = "present" /\ tmpDir # "none" /\ step # "start"
    BY <2>1 DEF FetchInv, DirInv
  <2>7. DirInv'
    BY <2>1, <2>2, <2>4, <2>6 DEF FetchInv, DirInv, Dumps, Mandatory, Optional
  <2> QED
    BY <2>5, <2>7 DEF DumpsInv
<1> QED
  BY <1>2, <1>3, <1>4, <1>5 DEF Next, Program

LEMMA FetchInvHolds == Spec => []FetchInv
<1>1. Init => FetchInv
  BY FetchBegins, ServerBegins, DirBegins DEF FetchInv
<1>2. FetchInv /\ [Next]_vars => FetchInv'
  BY FetchKeeps, ServerKeeps, DirKeeps DEF FetchInv
<1> QED
  BY <1>1, <1>2, PTL DEF Spec

\* The state of a call is of its kind, and nothing of the cluster stays in a
\* directory that has been removed (cluster.go:27-31, 33-52).
THEOREM FetchTypes == Spec => []TypeOK
<1>1. FetchInv => TypeOK
  BY DEF FetchInv, IInv, ServerInv, DirInv, TypeOK, Dumps, Mandatory, Optional
<1> QED
  BY <1>1, FetchInvHolds, PTL

-----------------------------------------------------------------------------
(* The loader in the directory.                                            *)

TempDir == [type |-> "dir", name |-> "tmp", path |-> << >>]

TempFile(dump) == [type |-> "file", name |-> dump, path |-> <<dump>>, file |-> dumps[dump]]

TempEntries == {TempDir} \cup {TempFile(dump) : dump \in DOMAIN dumps}

LoaderPath == [type |-> "dir", entries |-> TempDirEntries]

\* What has been loaded was found, at any time of the call.
LoadedInv ==
  /\ pc \in {"idle", "paths", "walk", "file", "read", "docs", "loaded"}
  /\ step \in {"start"} \cup Dumps => pc = "idle"
  /\ pc = "idle" => objects = {} /\ bindings = << >> /\ paths = << >> /\ entries = << >>
  /\ pruned = {}
  /\ objects \subseteq Results
  /\ bindings \in Seq(Results)

\* What is still to be loaded is in the directory.
ReadingInv ==
  /\ paths # << >> => pc = "paths" /\ paths = <<LoaderPath>>
  /\ pc \notin {"walk", "file", "read", "docs"} => entries = << >>
  /\ entries \in Seq(TempEntries)
  /\ pc \in {"file", "read", "docs"} => back = "walk" /\ \E dump \in DOMAIN dumps : file = dumps[dump]
  /\ pc = "docs" => docs \in Seq(Documents)

\* Where an object of a dump is while the directory is read: in a dump not read
\* yet, among the documents in hand, loaded, or in a dump that was refused.
Ahead(dump) ==
  \/ pc = "idle" \/ paths # << >>
  \/ \E n \in DOMAIN entries : entries[n] = TempFile(dump)
  \/ pc \in {"file", "read"} /\ file = dumps[dump]

InHand(o) == pc = "docs" /\ \E n \in DOMAIN docs : docs[n] = o \/ Carries(docs[n], o)

Refused(dump) == [about |-> <<"skipping">>, file |-> dump] \in warnings

WhereaboutsInv ==
  \A dump \in DOMAIN dumps : \A o \in always :
    Carries(dumps[dump].docs[1], o) => Ahead(dump) \/ InHand(o) \/ Holds(o) \/ Refused(dump)

LoaderInv ==
  /\ LoadedInv
  /\ step = "load" => ReadingInv /\ WhereaboutsInv
  /\ NothingMissedSilently

\* Taking the first element off a list leaves the others.
LEMMA HeadAndTail ==
  ASSUME NEW S, NEW s \in Seq(S), s # << >>
  PROVE  /\ Head(s) \in S /\ Tail(s) \in Seq(S)
         /\ \A n \in DOMAIN s : s[n] = Head(s) \/ \E m \in DOMAIN Tail(s) : Tail(s)[m] = s[n]
<1>1. /\ Len(s) \in Nat /\ Len(s) > 0 /\ DOMAIN s = 1 .. Len(s)
      /\ Tail(s) \in Seq(S) /\ DOMAIN Tail(s) = 1 .. Len(s) - 1
      /\ Head(s) = s[1]
  OBVIOUS
<1>2. \A m \in 1 .. Len(s) - 1 : Tail(s)[m] = s[m + 1]
  OBVIOUS
<1>3. ASSUME NEW n \in DOMAIN s, n # 1
      PROVE  \E m \in DOMAIN Tail(s) : Tail(s)[m] = s[n]
  <2>1. n - 1 \in DOMAIN Tail(s) /\ (n - 1) + 1 = n
    BY <1>1, <1>3
  <2> QED
    BY <2>1, <1>1, <1>2
<1> QED
  BY <1>1, <1>3

LEMMA OnlyOne ==
  ASSUME NEW x
  PROVE  Tail(<<x>>) = << >>
<1>1. <<x>> \in Seq({x}) /\ Len(<<x>>) = 1
  OBVIOUS
<1>2. Tail(<<x>>) \in Seq({x}) /\ Len(Tail(<<x>>)) = 0
  BY <1>1
<1> QED
  BY <1>2, EmptySeq

\* The walk of the directory meets every dump.
LEMMA DumpsWalked ==
  ASSUME DirInv
  PROVE  /\ TempDirEntries \in Seq(TempEntries)
         /\ \A dump \in DOMAIN dumps : \E n \in DOMAIN TempDirEntries :
              TempDirEntries[n] = TempFile(dump)
<1> DEFINE kept    == {n \in DOMAIN WalkOrder : WalkOrder[n] \in DOMAIN dumps}
           present == Sublist(WalkOrder, kept)
           files   == [n \in DOMAIN present |-> TempFile(present[n])]
<1>1. WalkOrder \in Seq(Dumps) /\ kept \in SUBSET DOMAIN WalkOrder
  BY DEF WalkOrder, Dumps, Mandatory, Optional
<1>2. /\ present \in Seq(Dumps)
      /\ \A i \in DOMAIN present : \E n \in kept : present[i] = WalkOrder[n]
      /\ \A n \in kept : \E i \in DOMAIN present : present[i] = WalkOrder[n]
  BY <1>1, SublistKeeps
<1>3. \A dump \in Dumps : \E n \in DOMAIN WalkOrder : WalkOrder[n] = dump
  <2>1. /\ 1 \in DOMAIN WalkOrder /\ 2 \in DOMAIN WalkOrder /\ 3 \in DOMAIN WalkOrder
        /\ 4 \in DOMAIN WalkOrder /\ 5 \in DOMAIN WalkOrder
    BY DEF WalkOrder
  <2>2. /\ WalkOrder[1] = "cluster-scoped" /\ WalkOrder[2] = "namespaced"
        /\ WalkOrder[3] = "openshift-routes" /\ WalkOrder[4] = "openshift-scc"
        /\ WalkOrder[5] = "openshift-workloads"
    BY DEF WalkOrder
  <2> QED
    BY <2>1, <2>2 DEF Dumps, Mandatory, Optional
<1>4. /\ \A n \in kept : WalkOrder[n] \in DOMAIN dumps
      /\ \A dump \in DOMAIN dumps : \E n \in kept : WalkOrder[n] = dump
  BY <1>3 DEF DirInv
<1>5. TempDirEntries = <<TempDir>> \o files
  BY Zenon DEF TempDirEntries, TempDir, TempFile
<1> HIDE DEF kept, present
<1>6. files \in Seq(TempEntries) /\ DOMAIN files = DOMAIN present
  <2>1. Len(present) \in Nat /\ DOMAIN present = 1 .. Len(present)
    BY <1>2
  <2>2. \A n \in DOMAIN present : files[n] \in TempEntries
    BY <1>2, <1>4 DEF TempEntries
  <2> QED
    BY <2>1, <2>2
<1>7. \A n \in DOMAIN files : files[n] = TempFile(present[n])
  BY <1>6
<1> HIDE DEF files
<1>8. <<TempDir>> \in Seq(TempEntries)
  BY DEF TempEntries
<1>9. TempDirEntries \in Seq(TempEntries)
  BY <1>5, <1>6, <1>8
<1>10. ASSUME NEW dump \in DOMAIN dumps
       PROVE  \E n \in DOMAIN TempDirEntries : TempDirEntries[n] = TempFile(dump)
  <2>1. PICK n \in DOMAIN files : present[n] = dump
    BY <1>2, <1>4, <1>6
  <2>2. files[n] = TempFile(dump)
    BY <1>7, <2>1
  <2>3. n \in 1 .. Len(files) /\ Len(files) \in Nat
    BY <1>6, <2>1
  <2>4. n + 1 \in DOMAIN TempDirEntries /\ TempDirEntries[n + 1] = files[n]
    BY <1>5, <1>6, <1>8, <2>3
  <2> QED
    BY <2>2, <2>4
<1> QED
  BY <1>9, <1>10

LEMMA OneKept ==
  ASSUME NEW S, NEW d \in S
  PROVE  /\ Sublist(<<d>>, {1}) \in Seq(S)
         /\ \E n \in DOMAIN Sublist(<<d>>, {1}) : Sublist(<<d>>, {1})[n] = d
<1> DEFINE one == <<d>>
<1>1. one \in Seq(S) /\ {1} \in SUBSET DOMAIN one /\ one[1] = d
  OBVIOUS
<1> HIDE DEF one
<1>2. /\ Sublist(one, {1}) \in Seq(S)
      /\ \A m \in {1} : \E n \in DOMAIN Sublist(one, {1}) : Sublist(one, {1})[n] = one[m]
  BY <1>1, SublistKeeps
<1> QED
  BY <1>1, <1>2 DEF one

\* A dump is one document, and splitting it gives that document.
LEMMA DumpSplit ==
  ASSUME NEW dump, NEW f, IsDump(dump, f)
  PROVE  /\ f.name = dump /\ f.yaml
         /\ f.docs[1] \in Documents
         /\ Loader!splitYAMLDocs(f.docs) \in Seq(Documents)
         /\ \E n \in DOMAIN Loader!splitYAMLDocs(f.docs) : Loader!splitYAMLDocs(f.docs)[n] = f.docs[1]
<1>1. PICK d \in {Junk} \cup {ListOf(items) : items \in Seq(Found)} :
        \E size : f = AsFile(dump, <<d>>, size)
  BY DEF IsDump
<1>2. PICK size : f = AsFile(dump, <<d>>, size)
  BY <1>1
<1>3. f.name = dump /\ f.yaml /\ f.docs = <<d>> /\ d \in Documents
  BY <1>2 DEF AsFile, Documents
<1>4. {n \in DOMAIN <<d>> : n = 1 \/ <<d>>[n].split} = {1}
  OBVIOUS
<1>5. Loader!splitYAMLDocs(<<d>>) = Sublist(<<d>>, {n \in DOMAIN <<d>> : n = 1 \/ <<d>>[n].split})
  BY Zenon DEF Loader!splitYAMLDocs, Loader!Sublist, Sublist
<1>6. Loader!splitYAMLDocs(f.docs) = Sublist(<<d>>, {1})
  BY <1>3, <1>4, <1>5
<1> QED
  BY <1>3, <1>6, OneKept

\* While the loader works nothing else changes.
LEMMA WorldStays ==
  ASSUME UNCHANGED <<environment, call>>
  PROVE  /\ Found' = Found /\ Documents' = Documents /\ Results' = Results
         /\ TempEntries' = TempEntries /\ LoaderPath' = LoaderPath
         /\ UNCHANGED <<step, dumps, always, ever, namespace>>
         /\ \A dump : TempFile(dump)' = TempFile(dump)
<1>1. UNCHANGED <<step, dumps, always, ever, namespace>>
  BY DEF environment, call
<1>2. Found' = Found
  BY <1>1 DEF Found, Asked
<1>3. Documents' = Documents /\ Results' = Results
  BY <1>2 DEF Documents, Results
<1>4. (\A dump : TempFile(dump)' = TempFile(dump)) /\ TempEntries' = TempEntries
  BY <1>1 DEF TempFile, TempEntries
<1>5. LoaderPath' = LoaderPath
  BY <1>1 DEF LoaderPath, TempDirEntries
<1> QED
  BY <1>1, <1>2, <1>3, <1>4, <1>5

\* The path is the directory, no link, no file, and it is there.
LEMMA OnlyTheDirectory ==
  ASSUME ReadingInv
  PROVE  /\ ~Loader!PathMissing /\ ~Loader!PathIsLink /\ ~Loader!PathIsFile
         /\ Loader!PathIsDir => paths = <<LoaderPath>>
<1>1. \A type : Loader!AtPath(type) => paths = <<LoaderPath>> /\ type = "dir"
  BY DEF Loader!AtPath, ReadingInv, LoaderPath
<1> QED
  BY <1>1 DEF Loader!PathMissing, Loader!PathIsLink, Loader!PathIsFile, Loader!PathIsDir

\* The walk prunes nothing and takes every dump.
LEMMA WalkTakesDumps ==
  ASSUME ReadingInv, LoadedInv, DirInv
  PROVE  /\ ~Loader!PruneDir
         /\ Loader!TakeFile => \E dump \in DOMAIN dumps : Head(entries) = TempFile(dump)
         /\ Loader!PassEntry => Head(entries) = TempDir
<1>1. \A e : ~Loader!ToPrune(e) /\ ~Loader!IsPruned(e)
  BY DEF Loader!ToPrune, Loader!IsPruned, LoadedInv
<1>2. entries # << >> => Head(entries) \in TempEntries
  BY DEF ReadingInv
<1>3. ~Loader!ToProcess(TempDir)
  BY DEF Loader!ToProcess, TempDir
<1>4. \A dump \in DOMAIN dumps : Loader!ToProcess(TempFile(dump))
  <2> SUFFICES ASSUME NEW dump \in DOMAIN dumps PROVE Loader!ToProcess(TempFile(dump))
    OBVIOUS
  <2>1. dumps[dump].yaml
    BY DumpSplit DEF DirInv
  <2> QED
    BY <2>1 DEF Loader!ToProcess, TempFile
<1> QED
  BY <1>1, <1>2, <1>3, <1>4
  DEF Loader!PruneDir, Loader!TakeFile, Loader!PassEntry, Loader!entry, TempEntries

\* The documents in hand: a list holds objects of the dump, an object is one.
LEMMA DocumentInHand ==
  ASSUME ReadingInv, ServerInv, NEW type, Loader!AtDoc(type)
  PROVE  /\ pc = "docs" /\ docs # << >> /\ docs \in Seq(Documents)
         /\ Loader!document = Head(docs) /\ Head(docs).type = type
         /\ type = "junk" => \A o : ~Carries(Head(docs), o) /\ Head(docs) \notin Found
         /\ type = "list" => Head(docs).items \in Seq(Found) /\ Head(docs) \notin Found
         /\ type = "object" => Head(docs) \in Found /\ (\A o : ~Carries(Head(docs), o))
<1>1. /\ pc = "docs" /\ docs # << >> /\ docs \in Seq(Documents)
      /\ Loader!document = Head(docs) /\ Head(docs).type = type
  BY DEF Loader!AtDoc, Loader!document, ReadingInv
<1>2. Head(docs) \in Documents
  BY <1>1
<1>3. \A o \in Found : o.type = "object"
  BY DEF Found, ServerInv, IsResource
<1>4. Junk.type = "junk" /\ \A items : ListOf(items).type = "list" /\ ListOf(items).items = items
  BY DEF Junk, ListOf
<1> QED
  BY <1>1, <1>2, <1>3, <1>4 DEF Documents, Carries

\* What is found is kept, and what is stored stands for it.
LEMMA FoundIsKept ==
  ASSUME ServerInv, NEW o \in Found, NEW dump \in Dumps, NEW f, f.name = dump
  PROVE  /\ Loader!IsKept(o)
         /\ Loader!Stored(o, f) \in Results
         /\ IsOf(Loader!Stored(o, f), o)
<1>1. Loader!IsKept(o)
  BY DEF Found, ServerInv, IsResource
<1>2. Loader!Stored(o, f) = Loader!Stored(o, [name |-> dump])
  BY DEF Loader!Stored
<1>3. IsOf(Loader!Stored(o, f), o)
  BY DEF Loader!Stored, IsOf
<1> QED
  BY <1>1, <1>2, <1>3 DEF Results

\* A step of the loader keeps what is loaded among the results, and what is to be
\* loaded in the directory.
LEMMA LoadKeepsReading ==
  ASSUME FetchInv, LoadedInv, ReadingInv, step = "load", Loader!Load, UNCHANGED <<environment, call>>
  PROVE  LoadedInv' /\ ReadingInv'
<1>0. /\ Found' = Found /\ Documents' = Documents /\ Results' = Results
      /\ TempEntries' = TempEntries /\ LoaderPath' = LoaderPath
      /\ UNCHANGED <<step, dumps>>
  BY WorldStays
<1>1. step' \notin {"start"} \cup Dumps /\ DirInv /\ ServerInv
  BY <1>0 DEF Dumps, Mandatory, Optional, FetchInv
<1> USE DEF Loader!result, Loader!log
<1>2. CASE Loader!PathIsDir
  <2>1. TempDirEntries \in Seq(TempEntries) /\ Head(paths).entries = TempDirEntries
    BY <1>1, <1>2, DumpsWalked, OnlyTheDirectory DEF LoaderPath
  <2>2. Tail(paths) = << >>
    BY <1>2, OnlyTheDirectory, OnlyOne
  <2> QED
    BY <1>0, <1>1, <1>2, <2>1, <2>2 DEF Loader!PathIsDir, LoadedInv, ReadingInv
<1>3. CASE Loader!EndPaths \/ Loader!EndWalk \/ Loader!StatFile \/ Loader!EndDocs \/ Loader!RefuseFile
  <2>1. UNCHANGED <<paths, entries, pruned, back, file, docs, objects, bindings>>
    BY <1>3 DEF Loader!EndPaths, Loader!EndWalk, Loader!StatFile, Loader!EndDocs, Loader!RefuseFile
  <2>2. /\ pc' \in {"paths", "walk", "read", "loaded"}
        /\ pc' = "paths" => entries = << >> /\ paths = << >>
        /\ pc' = "loaded" => entries = << >> /\ paths = << >>
        /\ pc' = "read" => pc = "file"
        /\ pc' = "walk" => paths = << >>
    BY <1>3 DEF Loader!EndPaths, Loader!EndWalk, Loader!StatFile, Loader!EndDocs, Loader!RefuseFile,
                ReadingInv
  <2> QED
    BY <1>0, <1>1, <2>1, <2>2 DEF LoadedInv, ReadingInv
<1>4. CASE Loader!TakeFile
  <2>1. PICK dump \in DOMAIN dumps : Head(entries) = TempFile(dump)
    BY <1>1, <1>4, WalkTakesDumps
  <2>2. file' = dumps[dump]
    BY <1>4, <2>1 DEF Loader!TakeFile, Loader!entry, TempFile
  <2>3. Tail(entries) \in Seq(TempEntries)
    BY <1>4, HeadAndTail DEF Loader!TakeFile, ReadingInv
  <2> QED
    BY <1>0, <1>1, <1>4, <2>2, <2>3 DEF Loader!TakeFile, LoadedInv, ReadingInv
<1>5. CASE Loader!PassEntry
  <2>1. Tail(entries) \in Seq(TempEntries)
    BY <1>5, HeadAndTail DEF Loader!PassEntry, ReadingInv
  <2> QED
    BY <1>0, <1>1, <1>5, <2>1 DEF Loader!PassEntry, LoadedInv, ReadingInv
<1>6. CASE Loader!AcceptFile
  <2>1. PICK dump \in DOMAIN dumps : file = dumps[dump]
    BY <1>6 DEF Loader!AcceptFile, ReadingInv
  <2>2. Loader!splitYAMLDocs(file.docs) \in Seq(Documents)
    BY <1>1, <2>1, DumpSplit DEF DirInv
  <2> QED
    BY <1>0, <1>1, <1>6, <2>2 DEF Loader!AcceptFile, LoadedInv, ReadingInv
<1>7. CASE Loader!SkipJunk \/ Loader!IgnoreObject
  <2>1. /\ pc = "docs" /\ docs # << >> /\ docs' = Tail(docs)
        /\ UNCHANGED <<paths, entries, pruned, back, file, pc, objects, bindings>>
    BY <1>7 DEF Loader!SkipJunk, Loader!IgnoreObject, Loader!AtDoc
  <2>2. Tail(docs) \in Seq(Documents)
    BY <2>1, HeadAndTail DEF ReadingInv
  <2> QED
    BY <1>0, <1>1, <2>1, <2>2 DEF LoadedInv, ReadingInv
<1>8. CASE Loader!UnwrapList
  <2>1. Loader!AtDoc("list")
    BY <1>8 DEF Loader!UnwrapList
  <2>2. /\ pc = "docs" /\ docs # << >> /\ docs \in Seq(Documents)
        /\ Head(docs).items \in Seq(Found)
    BY <1>1, <2>1, DocumentInHand
  <2>3. Tail(docs) \in Seq(Documents) /\ Head(docs).items \in Seq(Documents)
    BY <2>2, HeadAndTail DEF Documents
  <2>4. docs' = Head(docs).items \o Tail(docs)
    BY <1>8 DEF Loader!UnwrapList, Loader!document
  <2>5. docs' \in Seq(Documents)
    BY <2>3, <2>4
  <2> QED
    BY <1>0, <1>1, <1>8, <2>2, <2>5 DEF Loader!UnwrapList, LoadedInv, ReadingInv
<1>9. CASE Loader!AppendBinding \/ Loader!StoreObject
  <2>1. Loader!AtDoc("object")
    BY <1>9 DEF Loader!AppendBinding, Loader!StoreObject
  <2>2. /\ pc = "docs" /\ docs # << >> /\ docs \in Seq(Documents)
        /\ Head(docs) \in Found /\ Loader!document = Head(docs)
    BY <1>1, <2>1, DocumentInHand
  <2>3. Tail(docs) \in Seq(Documents)
    BY <2>2, HeadAndTail
  <2>4. PICK dump \in DOMAIN dumps : file = dumps[dump]
    BY <2>2 DEF ReadingInv
  <2>5. file.name = dump /\ dump \in Dumps
    BY <1>1, <2>4, DumpSplit DEF DirInv
  <2>6. Loader!Stored(Loader!document, file) \in Results
    BY <1>1, <2>2, <2>5, FoundIsKept
  <2>7. objects' \subseteq Results /\ bindings' \in Seq(Results)
    BY <1>9, <2>6 DEF Loader!AppendBinding, Loader!StoreObject, LoadedInv
  <2>8. docs' = Tail(docs) /\ UNCHANGED <<paths, entries, pruned, back, file, pc>>
    BY <1>9 DEF Loader!AppendBinding, Loader!StoreObject
  <2> QED
    BY <1>0, <1>1, <2>2, <2>3, <2>7, <2>8 DEF LoadedInv, ReadingInv
<1> QED
  BY <1>1, <1>2, <1>3, <1>4, <1>5, <1>6, <1>7, <1>8, <1>9, OnlyTheDirectory, WalkTakesDumps
  DEF Loader!Load

\* What a dump carries was found.
LEMMA CarriedIsFound ==
  ASSUME DirInv, NEW dump \in DOMAIN dumps, NEW o, Carries(dumps[dump].docs[1], o)
  PROVE  o \in Found
<1>1. PICK d \in {Junk} \cup {ListOf(items) : items \in Seq(Found)} :
        \E size : dumps[dump] = AsFile(dump, <<d>>, size)
  BY DEF IsDump, DirInv
<1>2. dumps[dump].docs[1] = d
  BY <1>1 DEF AsFile
<1>3. PICK items \in Seq(Found) : d = ListOf(items)
  BY <1>1, <1>2 DEF Carries, Junk
<1> QED
  BY <1>2, <1>3 DEF Carries, ListOf

\* What is loaded stays loaded: of two objects with one key, one is gone for good.
LEMMA StaysLoaded ==
  ASSUME FetchInv, LoadedInv, ReadingInv, NEW o \in always, Holds(o),
         Loader!AppendBinding \/ Loader!StoreObject \/ UNCHANGED <<objects, bindings>>
  PROVE  Holds(o)'
<1>1. CASE UNCHANGED <<objects, bindings>>
  BY <1>1 DEF Holds
<1>2. CASE Loader!AppendBinding
  <2>1. /\ objects' = objects
        /\ bindings' = Append(bindings, Loader!Stored(Loader!document, file))
    BY <1>2 DEF Loader!AppendBinding
  <2>2. \A n \in DOMAIN bindings : n \in DOMAIN bindings' /\ bindings'[n] = bindings[n]
    BY <2>1 DEF LoadedInv
  <2> QED
    BY <2>1, <2>2 DEF Holds
<1>3. CASE Loader!StoreObject
  <2>1. Loader!AtDoc("object")
    BY <1>3 DEF Loader!StoreObject
  <2>2. Loader!document \in Found /\ pc = "docs"
    BY <2>1, DocumentInHand DEF FetchInv
  <2> DEFINE stored == Loader!Stored(Loader!document, file)
             same   == {x \in objects : x.key = Loader!Key(Loader!document)}
  <2>3. bindings' = bindings /\ objects' = (objects \ same) \cup {stored}
    BY <1>3 DEF Loader!StoreObject
  <2>4. CASE \E n \in DOMAIN bindings : IsOf(bindings[n], o)
    BY <2>3, <2>4 DEF Holds
  <2>5. CASE \E x \in objects : IsOf(x, o)
    <3>1. PICK x \in objects : IsOf(x, o)
      BY <2>5
    <3>2. CASE x \notin same
      BY <2>3, <3>1, <3>2 DEF Holds
    <3>3. CASE x \in same
      <4>1. Loader!Key(o) = Loader!Key(Loader!document)
        BY <3>1, <3>3 DEF IsOf
      <4>2. o = Loader!document
        BY <2>2, <4>1 DEF FetchInv, ServerInv, Found
      <4>3. IsOf(stored, o)
        BY <4>2 DEF Loader!Stored, IsOf
      <4> QED
        BY <2>3, <4>3 DEF Holds
    <3> QED
      BY <3>2, <3>3
  <2> QED
    BY <2>4, <2>5 DEF Holds
<1> QED
  BY <1>1, <1>2, <1>3

\* A step of the loader does not lose sight of an object.
LEMMA LoadKeepsSight ==
  ASSUME FetchInv, LoadedInv, ReadingInv, step = "load", Loader!Load, UNCHANGED <<environment, call>>,
         NEW dump \in DOMAIN dumps, NEW o \in always, Carries(dumps[dump].docs[1], o),
         Ahead(dump) \/ InHand(o) \/ Holds(o) \/ Refused(dump)
  PROVE  Ahead(dump)' \/ InHand(o)' \/ Holds(o)' \/ Refused(dump)'
<1>0. DirInv /\ ServerInv /\ dumps' = dumps /\ TempFile(dump)' = TempFile(dump)
  BY WorldStays DEF FetchInv
<1>1. o \in Found
  BY <1>0, CarriedIsFound
<1> USE DEF Loader!result, Loader!log
<1>2. Holds(o) => Holds(o)'
  <2>1. Loader!AppendBinding \/ Loader!StoreObject \/ UNCHANGED <<objects, bindings>>
    BY DEF Loader!Load, Loader!PathMissing, Loader!PathIsLink, Loader!PathIsDir, Loader!PathIsFile,
           Loader!EndPaths, Loader!PruneDir, Loader!TakeFile, Loader!PassEntry, Loader!EndWalk,
           Loader!StatFile, Loader!RefuseFile, Loader!AcceptFile, Loader!SkipJunk,
           Loader!UnwrapList, Loader!IgnoreObject, Loader!EndDocs
  <2> QED
    BY <2>1, StaysLoaded
<1>3. Refused(dump) => Refused(dump)'
  <2>1. warnings \subseteq warnings'
    BY DEF Loader!Load, Loader!PathMissing, Loader!PathIsLink, Loader!PathIsDir, Loader!PathIsFile,
           Loader!EndPaths, Loader!PruneDir, Loader!TakeFile, Loader!PassEntry, Loader!EndWalk,
           Loader!StatFile, Loader!RefuseFile, Loader!AcceptFile, Loader!SkipJunk,
           Loader!UnwrapList, Loader!IgnoreObject, Loader!AppendBinding, Loader!StoreObject,
           Loader!EndDocs
  <2> QED
    BY <2>1 DEF Refused
<1>4. CASE Loader!PathIsDir
  <2>1. entries' = TempDirEntries
    BY <1>4, OnlyTheDirectory DEF Loader!PathIsDir, LoaderPath
  <2>2. \E n \in DOMAIN TempDirEntries : TempDirEntries[n] = TempFile(dump)
    BY <1>0, DumpsWalked
  <2> QED
    BY <1>0, <2>1, <2>2 DEF Ahead
<1>5. CASE Loader!EndPaths \/ Loader!EndWalk \/ Loader!EndDocs
  <2>1. pc' # "idle" /\ UNCHANGED <<paths, entries, file>>
    BY <1>5 DEF Loader!EndPaths, Loader!EndWalk, Loader!EndDocs, ReadingInv
  <2>2. ~InHand(o) /\ (Ahead(dump) => \E n \in DOMAIN entries : entries[n] = TempFile(dump))
    BY <1>5 DEF Loader!EndPaths, Loader!EndWalk, Loader!EndDocs, InHand, Ahead, ReadingInv
  <2> QED
    BY <1>0, <1>2, <1>3, <2>1, <2>2 DEF Ahead
<1>6. CASE Loader!TakeFile \/ Loader!PassEntry
  <2>1. /\ pc = "walk" /\ entries # << >> /\ entries' = Tail(entries)
        /\ paths = << >> /\ ~InHand(o)
        /\ entries \in Seq(TempEntries)
    BY <1>6 DEF Loader!TakeFile, Loader!PassEntry, ReadingInv, InHand
  <2>2. ASSUME NEW n \in DOMAIN entries, entries[n] = TempFile(dump)
        PROVE  Ahead(dump)'
    <3>1. CASE entries[n] = Head(entries)
      <4>1. Head(entries) # TempDir
        BY <2>2, <3>1 DEF TempDir, TempFile
      <4>2. Loader!TakeFile
        BY <1>0, <1>6, <4>1, WalkTakesDumps
      <4>3. pc' = "file" /\ file' = dumps[dump]
        BY <2>2, <3>1, <4>2 DEF Loader!TakeFile, Loader!entry, TempFile
      <4> QED
        BY <1>0, <4>3 DEF Ahead
    <3>2. CASE \E m \in DOMAIN Tail(entries) : Tail(entries)[m] = entries[n]
      BY <1>0, <2>1, <2>2, <3>2 DEF Ahead
    <3> QED
      BY <2>1, <3>1, <3>2, HeadAndTail
  <2> QED
    BY <1>2, <1>3, <2>1, <2>2 DEF Ahead
<1>7. CASE Loader!StatFile
  BY <1>0, <1>2, <1>3, <1>7 DEF Loader!StatFile, Ahead, InHand
<1>8. CASE Loader!RefuseFile
  <2>1. /\ pc \in {"file", "read"} /\ pc' = "walk" /\ UNCHANGED <<paths, entries>>
        /\ [about |-> <<"skipping">>, file |-> file.name] \in warnings'
        /\ paths = << >> /\ ~InHand(o)
    BY <1>8 DEF Loader!RefuseFile, ReadingInv, InHand
  <2>2. CASE file = dumps[dump]
    <3>1. file.name = dump
      BY <1>0, <2>2, DumpSplit DEF DirInv
    <3> QED
      BY <2>1, <3>1 DEF Refused
  <2>3. CASE file # dumps[dump]
    BY <1>0, <1>2, <1>3, <2>1, <2>3 DEF Ahead
  <2> QED
    BY <2>2, <2>3
<1>9. CASE Loader!AcceptFile
  <2>1. /\ pc = "read" /\ pc' = "docs" /\ UNCHANGED <<paths, entries>>
        /\ docs' = Loader!splitYAMLDocs(file.docs)
        /\ paths = << >> /\ ~InHand(o)
    BY <1>9 DEF Loader!AcceptFile, ReadingInv, InHand
  <2>2. CASE file = dumps[dump]
    <3>1. \E n \in DOMAIN docs' : docs'[n] = dumps[dump].docs[1]
      BY <1>0, <2>1, <2>2, DumpSplit DEF DirInv
    <3> QED
      BY <2>1, <3>1 DEF InHand
  <2>3. CASE file # dumps[dump]
    BY <1>0, <1>2, <1>3, <2>1, <2>3 DEF Ahead
  <2> QED
    BY <2>2, <2>3
<1>10. CASE Loader!SkipJunk \/ Loader!UnwrapList \/ Loader!IgnoreObject \/ Loader!AppendBinding
            \/ Loader!StoreObject
  <2>1. PICK type \in {"junk", "list", "object"} : Loader!AtDoc(type)
    BY <1>10 DEF Loader!SkipJunk, Loader!UnwrapList, Loader!IgnoreObject, Loader!AppendBinding,
                 Loader!StoreObject
  <2>2. /\ pc = "docs" /\ docs # << >> /\ docs \in Seq(Documents)
        /\ Loader!document = Head(docs) /\ Head(docs).type = type
    BY <1>0, <2>1, DocumentInHand
  <2>3. UNCHANGED <<pc, paths, entries, file>> /\ paths = << >>
    BY <1>10, <2>2 DEF Loader!SkipJunk, Loader!UnwrapList, Loader!IgnoreObject, Loader!AppendBinding,
                 Loader!StoreObject, ReadingInv
  <2>4. Ahead(dump) => Ahead(dump)'
    BY <1>0, <2>3 DEF Ahead
  <2>5. Tail(docs) \in Seq(Documents)
    BY <2>2, HeadAndTail
  <2>6. ASSUME NEW m \in DOMAIN Tail(docs)
        PROVE  \E n \in DOMAIN docs' : docs'[n] = Tail(docs)[m]
    <3>1. CASE Loader!UnwrapList
      <4>1. Head(docs).items \in Seq(Found)
        BY <1>0, <3>1, DocumentInHand DEF Loader!UnwrapList
      <4>2. docs' = Head(docs).items \o Tail(docs)
        BY <2>2, <3>1 DEF Loader!UnwrapList
      <4>3. m + Len(Head(docs).items) \in DOMAIN docs' /\ docs'[m + Len(Head(docs).items)] = Tail(docs)[m]
        BY <2>5, <4>1, <4>2
      <4> QED
        BY <4>3
    <3>2. CASE ~Loader!UnwrapList
      <4>1. docs' = Tail(docs)
        BY <1>10, <3>2 DEF Loader!SkipJunk, Loader!IgnoreObject, Loader!AppendBinding,
                           Loader!StoreObject
      <4> QED
        BY <4>1
    <3> QED
      BY <3>1, <3>2
  <2>7. ASSUME Head(docs) = o \/ Carries(Head(docs), o)
        PROVE  InHand(o)' \/ Holds(o)'
    <3>1. CASE Loader!SkipJunk
      BY <1>0, <1>1, <2>7, <3>1, DocumentInHand DEF Loader!SkipJunk
    <3>2. CASE Loader!UnwrapList
      <4>1. Head(docs).items \in Seq(Found) /\ Head(docs) \notin Found
        BY <1>0, <3>2, DocumentInHand DEF Loader!UnwrapList
      <4>2. docs' = Head(docs).items \o Tail(docs)
        BY <2>2, <3>2 DEF Loader!UnwrapList
      <4>3. PICK n \in DOMAIN Head(docs).items : Head(docs).items[n] = o
        BY <1>1, <2>7, <4>1 DEF Carries
      <4>4. n \in DOMAIN docs' /\ docs'[n] = o
        BY <2>5, <4>1, <4>2, <4>3
      <4> QED
        BY <2>2, <2>3, <4>4 DEF InHand
    <3>3. CASE Loader!IgnoreObject \/ Loader!AppendBinding \/ Loader!StoreObject
      <4>1. Loader!AtDoc("object")
        BY <3>3 DEF Loader!IgnoreObject, Loader!AppendBinding, Loader!StoreObject
      <4>2. Head(docs) = o
        BY <1>0, <2>7, <4>1, DocumentInHand
      <4>3. PICK d \in DOMAIN dumps : file = dumps[d]
        BY <2>2 DEF ReadingInv
      <4>4. file.name = d /\ d \in Dumps
        BY <1>0, <4>3, DumpSplit DEF DirInv
      <4>5. Loader!IsKept(o) /\ IsOf(Loader!Stored(o, file), o)
        BY <1>0, <1>1, <4>4, FoundIsKept
      <4>6. CASE Loader!IgnoreObject
        BY <2>2, <4>2, <4>5, <4>6 DEF Loader!IgnoreObject
      <4>7. CASE Loader!AppendBinding
        <5>1. bindings' = Append(bindings, Loader!Stored(o, file))
          BY <2>2, <4>2, <4>7 DEF Loader!AppendBinding
        <5>2. Len(bindings) + 1 \in DOMAIN bindings' /\ bindings'[Len(bindings) + 1] = Loader!Stored(o, file)
          BY <5>1 DEF LoadedInv
        <5> QED
          BY <4>5, <5>2 DEF Holds
      <4>8. CASE Loader!StoreObject
        <5>1. Loader!Stored(o, file) \in objects'
          BY <2>2, <4>2, <4>8 DEF Loader!StoreObject
        <5> QED
          BY <4>5, <5>1 DEF Holds
      <4> QED
        BY <3>3, <4>6, <4>7, <4>8
    <3> QED
      BY <1>10, <3>1, <3>2, <3>3
  <2>8. InHand(o) => InHand(o)' \/ Holds(o)'
    <3>1. ASSUME NEW n \in DOMAIN docs, docs[n] = o \/ Carries(docs[n], o), docs[n] # Head(docs)
          PROVE  InHand(o)'
      <4>1. PICK m \in DOMAIN Tail(docs) : Tail(docs)[m] = docs[n]
        BY <2>2, <3>1, HeadAndTail
      <4> QED
        BY <2>2, <2>3, <2>6, <3>1, <4>1 DEF InHand
    <3> QED
      BY <2>7, <3>1 DEF InHand
  <2> QED
    BY <1>2, <1>3, <2>4, <2>8
<1> QED
  BY <1>0, <1>4, <1>5, <1>6, <1>7, <1>8, <1>9, <1>10, OnlyTheDirectory, WalkTakesDumps DEF Loader!Load

-----------------------------------------------------------------------------
(* The whole call.                                                         *)

LEMMA LoaderBegins == Init => LoaderInv
BY DEF Init, LoaderInv, LoadedInv, NothingMissedSilently, Dumps, Mandatory, Optional

\* At the end of the load everything is loaded or refused.
LEMMA LoadComplete ==
  ASSUME FetchInv, ReadingInv, WhereaboutsInv, step = "load", pc = "loaded",
         NEW o \in always, NEW dump \in Dumps, o.kind \in KindsOf(dump), Asked(o)
  PROVE  Holds(o) \/ GivenUp(dump)
<1>1. dump \in said \/ (dump \in DOMAIN dumps /\ Carries(dumps[dump].docs[1], o))
  BY DEF FetchInv, DumpsInv, Passed
<1>2. ~Ahead(dump) /\ ~InHand(o)
  BY DEF Ahead, InHand, ReadingInv
<1> QED
  BY <1>1, <1>2 DEF WhereaboutsInv, GivenUp, Refused

LEMMA LoaderKeeps ==
  ASSUME FetchInv, LoaderInv, [Next]_vars
  PROVE  LoaderInv'
<1>0. Found \subseteq Found' /\ Results \subseteq Results'
  BY ServerKeeps DEF FetchInv, Results
<1>1. CASE Create \/ Delete
  <2>1. step \in Dumps /\ UNCHANGED <<call, loader>>
    BY <1>1 DEF Create, Delete, Change, Dumps
  <2>2. step # "load" /\ outcome = "none" /\ pc = "idle"
    BY <2>1 DEF FetchInv, IInv, LoaderInv, LoadedInv, Dumps, Mandatory, Optional
  <2> QED
    BY <1>0, <2>1, <2>2 DEF call, loader, LoaderInv, LoadedInv, NothingMissedSilently
<1>2. CASE StartFails \/ MakeTempDir \/ FetchFails \/ Fetch \/ FetchOptionalFails \/ SkipOptional
           \/ FetchOptional
  <2>1. UNCHANGED loader /\ step \in {"start"} \cup Dumps
    BY <1>2 DEF StartFails, MakeTempDir, FetchFails, Fetch, FetchOptionalFails, SkipOptional,
                FetchOptional, Dumps
  <2>2. outcome' # "ok"
    BY <1>2, <2>1
    DEF StartFails, MakeTempDir, FetchFails, Fetch, FetchOptionalFails, SkipOptional,
        FetchOptional, FetchInv, IInv
  <2>3. pc = "idle" /\ paths = << >> /\ entries = << >>
    BY <2>1 DEF LoaderInv, LoadedInv
  <2>4. LoadedInv'
    BY <1>0, <2>1, <2>3 DEF loader, LoaderInv, LoadedInv
  <2>5. ReadingInv' /\ WhereaboutsInv'
    BY <2>1, <2>3 DEF loader, ReadingInv, WhereaboutsInv, Ahead
  <2> QED
    BY <2>2, <2>4, <2>5 DEF LoaderInv, NothingMissedSilently
<1>3. CASE CallLoader
  <2>1. /\ step = "load" /\ pc = "idle" /\ pc' = "paths" /\ paths' = <<LoaderPath>>
        /\ UNCHANGED <<environment, call, entries, pruned, objects, bindings>>
    BY <1>3 DEF CallLoader, LoaderPath
  <2>2. LoadedInv' /\ LoaderPath' = LoaderPath /\ outcome' = "none" /\ entries' = << >>
    BY <2>1, <1>0, WorldStays DEF LoaderInv, LoadedInv, call, FetchInv, IInv, Dumps, Mandatory, Optional
  <2>3. ReadingInv' /\ WhereaboutsInv'
    BY <2>1, <2>2 DEF ReadingInv, WhereaboutsInv, Ahead
  <2> QED
    BY <2>2, <2>3 DEF LoaderInv, NothingMissedSilently
<1>4. CASE LoadStep
  <2>1. step = "load" /\ Loader!Load /\ UNCHANGED <<environment, call>>
    BY <1>4 DEF LoadStep
  <2>2. LoadedInv' /\ ReadingInv'
    BY <2>1, LoadKeepsReading DEF LoaderInv
  <2>3. WhereaboutsInv'
    BY <2>1, LoadKeepsSight, WorldStays DEF LoaderInv, WhereaboutsInv
  <2>4. outcome' = "none"
    BY <2>1 DEF call, FetchInv, IInv
  <2> QED
    BY <2>2, <2>3, <2>4 DEF LoaderInv, NothingMissedSilently
<1>5. CASE LoaderReturns
  <2>1. /\ step = "load" /\ pc = "loaded" /\ step' = "cleanup" /\ UNCHANGED loader
        /\ UNCHANGED <<environment, said>>
    BY <1>5 DEF LoaderReturns
  <2>2. LoadedInv'
    BY <1>0, <2>1 DEF loader, LoaderInv, LoadedInv, Dumps, Mandatory, Optional
  <2>3. \A o \in always : \A dump \in Dumps :
          o.kind \in KindsOf(dump) /\ Asked(o) => Holds(o) \/ GivenUp(dump)
    BY <2>1, LoadComplete DEF LoaderInv
  <2>4. NothingMissedSilently'
    BY <2>1, <2>3 DEF NothingMissedSilently, environment, loader, Asked, Holds, GivenUp
  <2> QED
    BY <2>1, <2>2, <2>4 DEF LoaderInv
<1>6. CASE Cleanup
  <2>1. /\ step = "cleanup" /\ step' = "returned" /\ UNCHANGED loader
        /\ UNCHANGED <<environment, said, outcome>>
    BY <1>6 DEF Cleanup
  <2>2. LoadedInv'
    BY <1>0, <2>1 DEF loader, LoaderInv, LoadedInv, Dumps, Mandatory, Optional
  <2>3. NothingMissedSilently'
    BY <2>1 DEF LoaderInv, NothingMissedSilently, environment, loader, Asked, Holds, GivenUp
  <2> QED
    BY <2>1, <2>2, <2>3 DEF LoaderInv
<1>7. CASE UNCHANGED vars
  <2>1. UNCHANGED <<environment, call>> /\ UNCHANGED loader
    BY <1>7 DEF vars
  <2>2. /\ Documents' = Documents /\ Results' = Results /\ TempEntries' = TempEntries
        /\ LoaderPath' = LoaderPath /\ UNCHANGED <<step, dumps, always, namespace, outcome, said>>
        /\ \A dump : TempFile(dump)' = TempFile(dump)
    BY <2>1, WorldStays DEF call
  <2>3. LoadedInv' /\ NothingMissedSilently'
    BY <2>1, <2>2 DEF loader, LoaderInv, LoadedInv, NothingMissedSilently, Asked, Holds, GivenUp
  <2>4. step = "load" => ReadingInv' /\ WhereaboutsInv'
    BY <2>1, <2>2 DEF loader, LoaderInv, ReadingInv, WhereaboutsInv, Ahead, InHand, Holds, Refused
  <2> QED
    BY <2>2, <2>3, <2>4 DEF LoaderInv
<1> QED
  BY <1>1, <1>2, <1>3, <1>4, <1>5, <1>6, <1>7 DEF Next, Program

LEMMA LoaderInvHolds == Spec => [](FetchInv /\ LoaderInv)
<1>1. FetchInv /\ LoaderInv /\ [Next]_vars => LoaderInv'
  BY LoaderKeeps
<1> QED
  BY <1>1, LoaderBegins, FetchInvHolds, PTL DEF Spec

\* Nothing an object of the cluster could have shown is lost in silence: not by a
\* dump that fails, by one above a limit, or by a change of the cluster meanwhile
\* (cluster.go:33-56, 59-78, 90-113, loader.go:165-168).
THEOREM FetchMissesNothingSilently == Spec => []NothingMissedSilently
<1>1. LoaderInv => NothingMissedSilently
  BY DEF LoaderInv
<1> QED
  BY <1>1, LoaderInvHolds, PTL

\* Whatever is returned was in the cluster during the call, in the namespace asked
\* for (cluster.go:33-52).
THEOREM FetchInventsNothing == Spec => []NothingInvented
<1>1. ASSUME FetchInv, LoaderInv PROVE NothingInvented
  <2>1. ASSUME NEW x \in Results
        PROVE  \E o \in ever : IsOf(x, o) /\ Asked(o)
    <3>1. PICK o \in Found, dump \in Dumps : x = Loader!Stored(o, [name |-> dump])
      BY <2>1 DEF Results
    <3>2. IsOf(x, o)
      BY <3>1 DEF Loader!Stored, IsOf
    <3> QED
      BY <3>2 DEF Found
  <2>2. objects \subseteq Results /\ ToSet(bindings) \subseteq Results
    BY <1>1 DEF LoaderInv, LoadedInv, ToSet
  <2> QED
    BY <2>1, <2>2 DEF NothingInvented
<1> QED
  BY <1>1, LoaderInvHolds, PTL

=============================================================================
