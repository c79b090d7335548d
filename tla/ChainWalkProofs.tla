--------------------------- MODULE ChainWalkProofs ---------------------------
(***************************************************************************)
(* Proofs about the privilege chain analysis, for every set of Inputs that *)
(* satisfies LoadedInputs: any pods, workloads and bindings, and any order *)
(* in which the maps are visited.                                          *)
(***************************************************************************)
EXTENDS ChainContract, TLAPS

\* No fingerprint twice in a list.
DistinctIn(list) ==
  \A m, n \in DOMAIN list : Fingerprint(list[m]) = Fingerprint(list[n]) => m = n

\* Everything the walk can find.
Candidates ==
  {ClusterAdminFinding(u, x) : u \in Users, x \in Wide}
  \cup {RoleBindingFinding(x, users) : x \in Narrow, users \in SUBSET Users}

\* Where the walk is.
Place ==
  /\ res \in Inputs
  /\ pc \in PC
  /\ unread \subseteq Users
  /\ refs \in Seq(Users)
  /\ r \in 1 .. Len(refs) + 1
  /\ pc \in {"pods", "workloads"} => r = 1 /\ b = 1
  /\ pc \in {"clusterBindings", "roleBindings"} => r <= Len(refs)
  /\ pc \in {"standalone", "done"} => r = Len(refs) + 1
  /\ b \in Nat \ {0}
  /\ pc = "clusterBindings" => b <= Len(res.clusterRoleBindings) + 1
  /\ pc \in {"roleBindings", "standalone", "done"} => b <= Len(res.roleBindings) + 1
  /\ pc = "done" => b > Len(res.roleBindings)
  /\ findings \in Seq(Candidates)

\* No pod or workload is left out of refs.
Collected ==
  /\ pc = "pods" => res.pods \subseteq unread \cup ToSet(refs)
  /\ pc = "workloads" => Users \subseteq unread \cup ToSet(refs)
  /\ pc \notin {"pods", "workloads"} => Users \subseteq ToSet(refs)

\* The fingerprints of the findings on a user and on a RoleBinding.
AdminPrint(u) == <<"KC-013", u.kind, u.name, u.namespace>>
UsePrint(x)   == <<"KC-014", "RoleBinding", x.name, x.namespace>>

\* The ClusterRoleBindings behind the walk have been reported for the refs they
\* reach, and so have the RoleBindings, and the standalone ones.
AdminsReported ==
  \A n \in DOMAIN refs, m \in DOMAIN res.clusterRoleBindings :
    /\ \/ n < r
       \/ n = r /\ pc = "roleBindings"
       \/ n = r /\ pc = "clusterBindings" /\ m < b
    /\ Reaches(res.clusterRoleBindings[m], refs[n])
    /\ IsClusterAdmin(res.clusterRoleBindings[m])
    => AdminPrint(refs[n]) \in Fingerprints(findings)

UsesReported ==
  \A n \in DOMAIN refs, m \in DOMAIN res.roleBindings :
    /\ n < r \/ (n = r /\ pc = "roleBindings" /\ m < b)
    /\ Reaches(res.roleBindings[m], refs[n])
    /\ NamesClusterRole(res.roleBindings[m])
    => UsePrint(res.roleBindings[m]) \in Fingerprints(findings)

\* The pass over the RoleBindings alone reports what it has behind it.
StandaloneReported ==
  pc \in {"standalone", "done"} =>
    \A m \in DOMAIN res.roleBindings :
      m < b /\ NamesClusterRole(res.roleBindings[m]) =>
        UsePrint(res.roleBindings[m]) \in Fingerprints(findings)

\* Before the standalone pass every KC-014 names a user.
UsersFirst ==
  pc \notin {"standalone", "done"} =>
    \A f \in ToSet(findings) : f.rule = "KC-014" => f.description.users # {}

\* A finding whose description is true of the resources.
TrueOf(f) ==
  \/ /\ f.rule = "KC-013"
     /\ \E u \in Users, x \in Wide :
          f = ClusterAdminFinding(u, x) /\ Reaches(x, u) /\ IsClusterAdmin(x)
  \/ /\ f.rule = "KC-014"
     /\ \E x \in Narrow :
          \/ f = RoleBindingFinding(x, {})
          \/ \E u \in Users : f = RoleBindingFinding(x, {u}) /\ Reaches(x, u)

\* The inductive invariant.  That the verdicts are complete holds only at the end
\* of the walk and depends on the whole walk behind the indices, which is what
\* AdminsReported and UsesReported record; UsersNamed holds because every
\* use has been reported before the pass that names no user begins.
IInv ==
  /\ Place
  /\ Collected
  /\ AdminsReported
  /\ UsesReported
  /\ StandaloneReported
  /\ UsersFirst
  /\ DistinctIn(findings)
  /\ DescriptionsTrue
  /\ UsersNamed

-----------------------------------------------------------------------------

\* What the append that deduplicates does to a finding list.
LEMMA Appended ==
  ASSUME NEW S, NEW list \in Seq(S), NEW f \in S
  PROVE  /\ appendIfNew(list, f) \in Seq(S)
         /\ Fingerprints(appendIfNew(list, f)) = Fingerprints(list) \cup {Fingerprint(f)}
         /\ ToSet(appendIfNew(list, f)) \subseteq ToSet(list) \cup {f}
         /\ Fingerprint(f) \in Fingerprints(list) => appendIfNew(list, f) = list
         /\ DistinctIn(list) => DistinctIn(appendIfNew(list, f))
<1>1. CASE Fingerprint(f) \in Fingerprints(list)
  BY <1>1 DEF appendIfNew
<1>2. CASE Fingerprint(f) \notin Fingerprints(list)
  <2>1. appendIfNew(list, f) = Append(list, f)
    BY <1>2 DEF appendIfNew
  <2> DEFINE longer == Append(list, f)
  <2>2. /\ longer \in Seq(S)
        /\ DOMAIN longer = DOMAIN list \cup {Len(list) + 1}
        /\ \A n \in DOMAIN list : longer[n] = list[n]
        /\ longer[Len(list) + 1] = f
    OBVIOUS
  <2> HIDE DEF longer
  <2>3. Fingerprints(longer) = Fingerprints(list) \cup {Fingerprint(f)}
    BY <2>2 DEF Fingerprints
  <2>4. ToSet(longer) \subseteq ToSet(list) \cup {f}
    BY <2>2 DEF ToSet
  <2>5. ASSUME DistinctIn(list), NEW m \in DOMAIN longer, NEW n \in DOMAIN longer,
               Fingerprint(longer[m]) = Fingerprint(longer[n])
        PROVE  m = n
    <3>1. \A k \in DOMAIN list : Fingerprint(list[k]) # Fingerprint(f)
      BY <1>2 DEF Fingerprints
    <3> QED
      BY <2>2, <2>5, <3>1 DEF DistinctIn
  <2> QED
    BY <1>2, <2>1, <2>2, <2>3, <2>4, <2>5 DEF DistinctIn, longer
<1> QED
  BY <1>1, <1>2

\* The larger of two lengths.
LEMMA MaxOfTwo ==
  ASSUME NEW m \in Nat, NEW n \in Nat
  PROVE  Max({m, n}) \in Nat /\ Max({m, n}) >= m /\ Max({m, n}) >= n
<1>1. \E x \in {m, n} : \A y \in {m, n} : x >= y
  OBVIOUS
<1> QED
  BY <1>1 DEF Max

-----------------------------------------------------------------------------

\* The bindings are sequences, and the code's look for a subject is Reaches.
LEMMA Bindings ==
  ASSUME LoadedInputs, res \in Inputs
  PROVE  /\ res.clusterRoleBindings \in Seq(Wide)
         /\ res.roleBindings \in Seq(ToSet(res.roleBindings))
         /\ \A x \in Wide \cup ToSet(res.roleBindings), u \in Users :
              bindingReferencesSubject(x, u) <=> Reaches(x, u)
<1>1. /\ res.clusterRoleBindings \in Seq(Wide)
      /\ res.roleBindings \in Seq(ToSet(res.roleBindings))
  BY DEF LoadedInputs, Wide
<1>2. ASSUME NEW x \in Wide \cup ToSet(res.roleBindings), NEW u \in Users
      PROVE  bindingReferencesSubject(x, u) <=> Reaches(x, u)
  <2>1. \A s \in x.subjects : s = [kind |-> s.kind, name |-> s.name, namespace |-> s.namespace]
    BY <1>2 DEF LoadedInputs, Wide
  <2>2. ASSUME bindingReferencesSubject(x, u) PROVE Reaches(x, u)
    BY <2>2 DEF bindingReferencesSubject, Reaches
  <2>3. ASSUME Reaches(x, u) PROVE bindingReferencesSubject(x, u)
    <3>1. PICK s \in x.subjects :
            s.kind = "ServiceAccount" /\ s.name = u.sa /\ s.namespace = u.namespace
      BY <2>3 DEF Reaches
    <3> QED
      BY <2>1, <3>1 DEF bindingReferencesSubject
  <2> QED
    BY <2>2, <2>3
<1> QED
  BY <1>1, <1>2

\* A true finding may be added anywhere.
LEMMA Added ==
  ASSUME IInv, UNCHANGED res, NEW f \in Candidates, TrueOf(f),
         findings' = appendIfNew(findings, f)
  PROVE  /\ findings' \in Seq(Candidates')
         /\ Fingerprints(findings') = Fingerprints(findings) \cup {Fingerprint(f)}
         /\ ToSet(findings') \subseteq ToSet(findings) \cup {f}
         /\ DistinctIn(findings)'
         /\ DescriptionsTrue'
<1>1. findings \in Seq(Candidates) /\ DistinctIn(findings) /\ DescriptionsTrue
  BY DEF IInv, Place
<1>2. /\ findings' \in Seq(Candidates)
      /\ Fingerprints(findings') = Fingerprints(findings) \cup {Fingerprint(f)}
      /\ ToSet(findings') \subseteq ToSet(findings) \cup {f}
      /\ DistinctIn(findings')
  BY <1>1, Appended
<1>3. Candidates' = Candidates /\ Users' = Users /\ Wide' = Wide /\ Narrow' = Narrow
  BY DEF Candidates, Users, Wide, Narrow
<1>4. DistinctIn(findings)'
  BY <1>2 DEF DistinctIn
<1>5. \A g \in ToSet(findings') : TrueOf(g)
  BY <1>1, <1>2 DEF DescriptionsTrue, TrueOf
<1>6. DescriptionsTrue'
  BY <1>3, <1>5 DEF DescriptionsTrue, TrueOf
<1> QED
  BY <1>2, <1>3, <1>4, <1>6


\* What no step but an append touches.
LEMMA Kept ==
  ASSUME IInv, UNCHANGED <<res, findings>>
  PROVE  /\ findings' \in Seq(Candidates')
         /\ DistinctIn(findings)' /\ DescriptionsTrue' /\ UsersNamed'
<1>1. Candidates' = Candidates /\ Users' = Users /\ Wide' = Wide /\ Narrow' = Narrow
  BY DEF Candidates, Users, Wide, Narrow
<1>2. findings' \in Seq(Candidates')
  BY <1>1 DEF IInv, Place
<1>3. DistinctIn(findings)'
  BY DEF IInv, DistinctIn
<1>4. DescriptionsTrue'
  BY <1>1 DEF IInv, DescriptionsTrue
<1>5. UsersNamed'
  BY <1>1 DEF IInv, UsersNamed
<1> QED
  BY <1>2, <1>3, <1>4, <1>5

\* The walk begins with nothing found.
LEMMA InvariantHolds ==
  ASSUME LoadedInputs, Init
  PROVE  IInv
<1>1. Place
  BY DEF Init, Place, PC, Users
<1>2. Collected /\ AdminsReported /\ UsesReported /\ StandaloneReported
  BY DEF Init, Collected, AdminsReported, UsesReported, StandaloneReported
<1>3. ToSet(findings) = {} /\ DOMAIN findings = {}
  BY DEF Init, ToSet
<1> QED
  BY <1>1, <1>2, <1>3 DEF IInv, UsersFirst, DistinctIn, DescriptionsTrue, UsersNamed

\* The steps that collect the refs.
LEMMA CollectKeeps ==
  ASSUME LoadedInputs, IInv, CollectRef \/ EndPods \/ EndWorkloads
  PROVE  IInv'
<1>0. Place /\ Collected
  BY DEF IInv
<1>1. /\ findings' \in Seq(Candidates')
      /\ DistinctIn(findings)' /\ DescriptionsTrue' /\ UsersNamed'
  BY Kept DEF CollectRef, EndPods, EndWorkloads
<1>2. Users' = Users /\ Len(res.clusterRoleBindings) \in Nat /\ Len(res.roleBindings) \in Nat
  BY <1>0, Bindings DEF Users, CollectRef, EndPods, EndWorkloads, Place
<1>3. CASE CollectRef
  <2>1. PICK entry \in unread : unread' = unread \ {entry} /\ refs' = Append(refs, entry)
    BY <1>3 DEF CollectRef
  <2>2. entry \in Users /\ refs \in Seq(Users) /\ r = 1 /\ b = 1
    BY <1>0, <1>3, <2>1 DEF Place, CollectRef
  <2>3. /\ refs' \in Seq(Users)
        /\ Len(refs') = Len(refs) + 1 /\ Len(refs) \in Nat
        /\ DOMAIN refs' = 1 .. Len(refs) + 1
        /\ \A n \in DOMAIN refs : refs'[n] = refs[n]
        /\ refs'[Len(refs) + 1] = entry
    BY <2>1, <2>2
  <2>4. ToSet(refs') = ToSet(refs) \cup {entry}
    BY <2>2, <2>3 DEF ToSet
  <2>5. Place'
    BY <1>0, <1>1, <1>2, <1>3, <2>1, <2>2, <2>3 DEF Place, CollectRef
  <2>6. Collected'
    BY <1>0, <1>2, <1>3, <2>1, <2>4 DEF Collected, CollectRef
  <2>7. AdminsReported' /\ UsesReported' /\ StandaloneReported' /\ UsersFirst'
    BY <1>3, <2>2, <2>3 DEF IInv, CollectRef, AdminsReported, UsesReported,
                            StandaloneReported, UsersFirst
  <2> QED
    BY <1>1, <2>5, <2>6, <2>7 DEF IInv
<1>4. CASE EndPods
  <2>1. Place'
    BY <1>0, <1>1, <1>2, <1>4 DEF Place, EndPods, PC, Users
  <2>2. Collected'
    BY <1>0, <1>2, <1>4 DEF Collected, EndPods, Users
  <2>3. AdminsReported' /\ UsesReported' /\ StandaloneReported' /\ UsersFirst'
    BY <1>4 DEF IInv, EndPods, AdminsReported, UsesReported, StandaloneReported, UsersFirst
  <2> QED
    BY <1>1, <2>1, <2>2, <2>3 DEF IInv
<1>5. CASE EndWorkloads
  <2>1. Len(refs) \in Nat /\ DOMAIN refs = 1 .. Len(refs) /\ r = 1 /\ b = 1
    BY <1>0, <1>5 DEF Place, EndWorkloads
  <2>2. Place'
    BY <1>0, <1>1, <1>2, <1>5, <2>1 DEF Place, EndWorkloads, AtRef, PC
  <2>3. Collected'
    BY <1>0, <1>2, <1>5 DEF Collected, EndWorkloads, AtRef
  <2>4. DOMAIN res.clusterRoleBindings \subseteq Nat \ {0} /\ DOMAIN res.roleBindings \subseteq Nat \ {0}
    BY <1>0, Bindings DEF Place
  <2>5. AdminsReported' /\ UsesReported' /\ StandaloneReported'
    BY <1>5, <2>1, <2>4 DEF EndWorkloads, AtRef, AdminsReported, UsesReported,
                            StandaloneReported
  <2>6. UsersFirst'
    BY <1>5 DEF IInv, EndWorkloads, UsersFirst
  <2> QED
    BY <1>1, <2>2, <2>3, <2>5, <2>6 DEF IInv
<1> QED
  BY <1>3, <1>4, <1>5


\* What the fields of a finding are.
LEMMA Facts ==
  /\ \A u, x : /\ ClusterAdminFinding(u, x).rule = "KC-013"
              /\ Fingerprint(ClusterAdminFinding(u, x)) = AdminPrint(u)
  /\ \A x, users : /\ RoleBindingFinding(x, users).rule = "KC-014"
                  /\ RoleBindingFinding(x, users).description.users = users
                  /\ Fingerprint(RoleBindingFinding(x, users)) = UsePrint(x)
BY DEF ClusterAdminFinding, RoleBindingFinding, Fingerprint, AdminPrint, UsePrint, Description

\* The walk over the ClusterRoleBindings, for one ref.
LEMMA ClusterBindingsKeep ==
  ASSUME LoadedInputs, IInv, CheckClusterRoleBinding \/ EndClusterRoleBindings
  PROVE  IInv'
<1>0. /\ Place /\ Collected /\ AdminsReported /\ UsesReported /\ UsersFirst /\ UsersNamed
      /\ pc = "clusterBindings"
      /\ UNCHANGED <<res, unread, refs, r>>
  BY DEF IInv, CheckClusterRoleBinding, EndClusterRoleBindings
<1>1. /\ refs \in Seq(Users) /\ r \in DOMAIN refs /\ ref \in Users
      /\ r \in 1 .. Len(refs) /\ Len(refs) \in Nat
      /\ b \in Nat \ {0}
  BY <1>0 DEF Place, ref
<1>2. /\ DOMAIN res.clusterRoleBindings = 1 .. Len(res.clusterRoleBindings)
      /\ DOMAIN res.roleBindings = 1 .. Len(res.roleBindings)
      /\ Len(res.clusterRoleBindings) \in Nat /\ Len(res.roleBindings) \in Nat
      /\ Users' = Users /\ Narrow' = Narrow
  BY <1>0, Bindings DEF Place, Users, Narrow
<1>3. CASE CheckClusterRoleBinding
  <2>1. b \in DOMAIN res.clusterRoleBindings /\ b' = b + 1 /\ pc' = pc /\ crb \in Wide
    BY <1>1, <1>2, <1>3 DEF CheckClusterRoleBinding, crb, Wide, ToSet
  <2> DEFINE f == ClusterAdminFinding(ref, crb)
  <2>2. /\ findings' \in Seq(Candidates')
        /\ Fingerprints(findings) \subseteq Fingerprints(findings')
        /\ \A g \in ToSet(findings') : g \in ToSet(findings) \/ g.rule = "KC-013"
        /\ DistinctIn(findings)' /\ DescriptionsTrue'
        /\ Reaches(crb, ref) /\ IsClusterAdmin(crb) =>
             AdminPrint(ref) \in Fingerprints(findings')
    <3>1. bindingReferencesSubject(crb, ref) <=> Reaches(crb, ref)
      BY <1>0, <1>1, <2>1, Bindings DEF Place
    <3>2. CASE Reaches(crb, ref) /\ IsClusterAdmin(crb)
      <4>1. findings' = appendIfNew(findings, f)
        BY <1>3, <3>1, <3>2 DEF CheckClusterRoleBinding
      <4>2. f \in Candidates /\ TrueOf(f)
        BY <1>1, <2>1, <3>2, Facts DEF Candidates, TrueOf
      <4>3. Fingerprint(f) = AdminPrint(ref) /\ f.rule = "KC-013"
        BY Facts
      <4> QED
        BY <1>0, <4>1, <4>2, <4>3, Added
    <3>3. CASE ~(Reaches(crb, ref) /\ IsClusterAdmin(crb))
      <4>1. findings' = findings
        BY <1>3, <3>1, <3>3 DEF CheckClusterRoleBinding
      <4> QED
        BY <1>0, <3>3, <4>1, Kept
    <3> QED
      BY <3>2, <3>3
  <2> HIDE DEF f
  <2>3. Place'
    BY <1>0, <1>1, <1>2, <2>1, <2>2 DEF Place
  <2>4. Collected'
    BY <1>0, <1>2, <2>1 DEF Collected
  <2>5. AdminsReported'
    <3>1. ASSUME NEW n \in DOMAIN refs, NEW m \in DOMAIN res.clusterRoleBindings,
                 n < r \/ (n = r /\ m < b + 1),
                 Reaches(res.clusterRoleBindings[m], refs[n]),
                 IsClusterAdmin(res.clusterRoleBindings[m])
          PROVE  AdminPrint(refs[n]) \in Fingerprints(findings')
      <4>1. CASE n < r \/ (n = r /\ m < b)
        BY <1>0, <2>2, <3>1, <4>1 DEF AdminsReported
      <4>2. CASE n = r /\ m = b
        BY <2>2, <3>1, <4>2 DEF ref, crb
      <4> QED
        BY <1>1, <1>2, <2>1, <3>1, <4>1, <4>2
    <3>2. \A u, x : Reaches(x, u)' = Reaches(x, u) /\ IsClusterAdmin(x)' = IsClusterAdmin(x)
      BY DEF Reaches, IsClusterAdmin
    <3> QED
      BY <1>0, <2>1, <3>1 DEF AdminsReported
  <2>6. UsesReported' /\ StandaloneReported'
    BY <1>0, <2>1, <2>2 DEF UsesReported, StandaloneReported
  <2>7. UsersFirst' /\ UsersNamed'
    BY <1>0, <1>2, <2>1, <2>2 DEF UsersFirst, UsersNamed
  <2> QED
    BY <2>2, <2>3, <2>4, <2>5, <2>6, <2>7 DEF IInv
<1>4. CASE EndClusterRoleBindings
  <2>1. /\ b > Len(res.clusterRoleBindings) /\ b' = 1 /\ pc' = "roleBindings"
        /\ findings' = findings
    BY <1>4 DEF EndClusterRoleBindings
  <2>2. /\ findings' \in Seq(Candidates')
        /\ DistinctIn(findings)' /\ DescriptionsTrue' /\ UsersNamed'
    BY <1>0, <2>1, Kept
  <2>3. Place'
    BY <1>0, <1>1, <1>2, <2>1, <2>2 DEF Place, PC
  <2>4. Collected' /\ UsersFirst' /\ StandaloneReported'
    BY <1>0, <1>2, <2>1 DEF Collected, UsersFirst, StandaloneReported
  <2>5. AdminsReported'
    BY <1>0, <1>1, <1>2, <2>1 DEF AdminsReported
  <2>6. UsesReported'
    BY <1>0, <1>1, <1>2, <2>1 DEF UsesReported
  <2> QED
    BY <2>2, <2>3, <2>4, <2>5, <2>6 DEF IInv
<1> QED
  BY <1>3, <1>4


\* The walk over the RoleBindings, for one ref.
LEMMA RoleBindingsKeep ==
  ASSUME LoadedInputs, IInv, CheckRoleBinding \/ EndRoleBindings
  PROVE  IInv'
<1>0. /\ Place /\ Collected /\ AdminsReported /\ UsesReported /\ UsersFirst /\ UsersNamed
      /\ pc = "roleBindings"
      /\ UNCHANGED <<res, unread, refs>>
  BY DEF IInv, CheckRoleBinding, EndRoleBindings
<1>1. /\ refs \in Seq(Users) /\ r \in DOMAIN refs /\ ref \in Users
      /\ r \in 1 .. Len(refs) /\ Len(refs) \in Nat /\ DOMAIN refs = 1 .. Len(refs)
      /\ b \in Nat \ {0}
  BY <1>0 DEF Place, ref
<1>2. /\ DOMAIN res.clusterRoleBindings = 1 .. Len(res.clusterRoleBindings)
      /\ DOMAIN res.roleBindings = 1 .. Len(res.roleBindings)
      /\ Len(res.clusterRoleBindings) \in Nat /\ Len(res.roleBindings) \in Nat
      /\ Users' = Users /\ Narrow' = Narrow
  BY <1>0, Bindings DEF Place, Users, Narrow
<1>3. CASE CheckRoleBinding
  <2>1. /\ b \in DOMAIN res.roleBindings /\ b' = b + 1 /\ pc' = pc /\ r' = r
        /\ rb \in ToSet(res.roleBindings)
    BY <1>1, <1>2, <1>3 DEF CheckRoleBinding, rb, ToSet
  <2> DEFINE f == RoleBindingFinding(rb, {ref})
  <2>2. /\ findings' \in Seq(Candidates')
        /\ Fingerprints(findings) \subseteq Fingerprints(findings')
        /\ \A g \in ToSet(findings') : g \in ToSet(findings) \/ g.description.users # {}
        /\ DistinctIn(findings)' /\ DescriptionsTrue'
        /\ Reaches(rb, ref) /\ NamesClusterRole(rb) =>
             UsePrint(rb) \in Fingerprints(findings')
    <3>1. bindingReferencesSubject(rb, ref) <=> Reaches(rb, ref)
      BY <1>0, <1>1, <2>1, Bindings DEF Place
    <3>2. CASE Reaches(rb, ref) /\ NamesClusterRole(rb)
      <4>1. findings' = appendIfNew(findings, f)
        BY <1>3, <3>1, <3>2 DEF CheckRoleBinding
      <4>2. rb \in Narrow
        BY <2>1, <3>2 DEF Narrow
      <4>3. f \in Candidates
        <5>1. {ref} \in SUBSET Users
          BY <1>1
        <5> QED
          BY <4>2, <5>1 DEF Candidates
      <4>4. /\ Fingerprint(f) = UsePrint(rb)
            /\ f.description.users # {}
            /\ f.rule = "KC-014"
        BY Facts
      <4>5. TrueOf(f)
        BY <1>1, <3>2, <4>2, <4>4 DEF TrueOf
      <4> HIDE DEF f
      <4>6. /\ findings' \in Seq(Candidates')
            /\ Fingerprints(findings') = Fingerprints(findings) \cup {Fingerprint(f)}
            /\ ToSet(findings') \subseteq ToSet(findings) \cup {f}
            /\ DistinctIn(findings)' /\ DescriptionsTrue'
        BY <1>0, <4>1, <4>3, <4>5, Added
      <4> QED
        BY <4>4, <4>6
    <3>3. CASE ~(Reaches(rb, ref) /\ NamesClusterRole(rb))
      <4>1. findings' = findings
        BY <1>3, <3>1, <3>3 DEF CheckRoleBinding
      <4> QED
        BY <1>0, <3>3, <4>1, Kept
    <3> QED
      BY <3>2, <3>3
  <2> HIDE DEF f
  <2>3. Place'
    BY <1>0, <1>1, <1>2, <2>1, <2>2 DEF Place
  <2>4. Collected'
    BY <1>0, <1>2, <2>1 DEF Collected
  <2>5. UsesReported'
    <3>1. ASSUME NEW n \in DOMAIN refs, NEW m \in DOMAIN res.roleBindings,
                 n < r \/ (n = r /\ m < b + 1),
                 Reaches(res.roleBindings[m], refs[n]),
                 NamesClusterRole(res.roleBindings[m])
          PROVE  UsePrint(res.roleBindings[m]) \in Fingerprints(findings')
      <4>1. CASE n < r \/ (n = r /\ m < b)
        BY <1>0, <2>2, <3>1, <4>1 DEF UsesReported
      <4>2. CASE n = r /\ m = b
        BY <2>2, <3>1, <4>2 DEF ref, rb
      <4> QED
        BY <1>1, <1>2, <2>1, <3>1, <4>1, <4>2
    <3> QED
      BY <1>0, <2>1, <3>1 DEF UsesReported
  <2>6. AdminsReported' /\ StandaloneReported'
    BY <1>0, <2>1, <2>2 DEF AdminsReported, StandaloneReported
  <2>7. UsersFirst' /\ UsersNamed'
    BY <1>0, <1>2, <2>1, <2>2 DEF UsersFirst, UsersNamed
  <2> QED
    BY <2>2, <2>3, <2>4, <2>5, <2>6, <2>7 DEF IInv
<1>4. CASE EndRoleBindings
  <2>1. /\ b > Len(res.roleBindings) /\ b' = 1 /\ r' = r + 1 /\ findings' = findings
        /\ pc' = IF r + 1 <= Len(refs) THEN "clusterBindings" ELSE "standalone"
    BY <1>4 DEF EndRoleBindings, AtRef
  <2>2. /\ findings' \in Seq(Candidates')
        /\ DistinctIn(findings)' /\ DescriptionsTrue' /\ UsersNamed'
    BY <1>0, <2>1, Kept
  <2>3. Place'
    BY <1>0, <1>1, <1>2, <2>1, <2>2 DEF Place, PC
  <2>4. Collected' /\ UsersFirst' /\ StandaloneReported'
    BY <1>0, <1>2, <2>1 DEF Collected, UsersFirst, StandaloneReported
  <2>5. AdminsReported'
    BY <1>0, <1>1, <1>2, <2>1 DEF AdminsReported
  <2>6. UsesReported'
    BY <1>0, <1>1, <1>2, <2>1 DEF UsesReported
  <2> QED
    BY <2>2, <2>3, <2>4, <2>5, <2>6 DEF IInv
<1> QED
  BY <1>3, <1>4

\* The pass over the RoleBindings that nobody was found to use.
LEMMA StandaloneKeeps ==
  ASSUME LoadedInputs, IInv, CheckStandalone \/ EndStandalone
  PROVE  IInv'
<1>0. /\ Place /\ Collected /\ AdminsReported /\ UsesReported /\ StandaloneReported
      /\ UsersFirst /\ UsersNamed
      /\ pc = "standalone"
      /\ UNCHANGED <<res, unread, refs, r>>
  BY DEF IInv, CheckStandalone, EndStandalone
<1>1. /\ refs \in Seq(Users) /\ Len(refs) \in Nat /\ DOMAIN refs = 1 .. Len(refs)
      /\ r = Len(refs) + 1 /\ b \in Nat \ {0}
  BY <1>0 DEF Place
<1>2. /\ DOMAIN res.roleBindings = 1 .. Len(res.roleBindings)
      /\ Len(res.roleBindings) \in Nat
      /\ Users' = Users /\ Narrow' = Narrow
  BY <1>0, Bindings DEF Place, Users, Narrow
<1>3. CASE CheckStandalone
  <2>1. /\ b \in DOMAIN res.roleBindings /\ b' = b + 1 /\ pc' = pc
        /\ rb \in ToSet(res.roleBindings)
    BY <1>1, <1>2, <1>3 DEF CheckStandalone, rb, ToSet
  <2>2. \A u \in Users, x \in Narrow : Reaches(x, u) => UsePrint(x) \in Fingerprints(findings)
    <3>1. ASSUME NEW u \in Users, NEW x \in Narrow, Reaches(x, u)
          PROVE  UsePrint(x) \in Fingerprints(findings)
      <4>1. PICK n \in DOMAIN refs : refs[n] = u
        BY <1>0 DEF Collected, ToSet
      <4>2. PICK m \in DOMAIN res.roleBindings : res.roleBindings[m] = x
        BY DEF Narrow, ToSet
      <4>3. n < r
        BY <1>1, <4>1
      <4> QED
        BY <1>0, <3>1, <4>1, <4>2, <4>3 DEF UsesReported, Narrow
    <3> QED
      BY <3>1
  <2> DEFINE f == RoleBindingFinding(rb, {})
  <2>3. /\ findings' \in Seq(Candidates')
        /\ Fingerprints(findings) \subseteq Fingerprints(findings')
        /\ \A g \in ToSet(findings') :
             g \in ToSet(findings) \/ Fingerprint(g) \notin Fingerprints(findings)
        /\ DistinctIn(findings)' /\ DescriptionsTrue'
        /\ NamesClusterRole(rb) => UsePrint(rb) \in Fingerprints(findings')
    <3>1. CASE NamesClusterRole(rb)
      <4>1. findings' = appendIfNew(findings, f)
        BY <1>3, <3>1 DEF CheckStandalone
      <4>2. rb \in Narrow
        BY <2>1, <3>1 DEF Narrow
      <4>3. f \in Candidates /\ TrueOf(f)
        BY <4>2, Facts DEF Candidates, TrueOf
      <4>4. Fingerprint(f) = UsePrint(rb)
        BY Facts
      <4>5. Fingerprint(f) \in Fingerprints(findings) => findings' = findings
        BY <4>1 DEF appendIfNew
      <4> HIDE DEF f
      <4> QED
        BY <1>0, <4>1, <4>3, <4>4, <4>5, Added
    <3>2. CASE ~NamesClusterRole(rb)
      <4>1. findings' = findings
        BY <1>3, <3>2 DEF CheckStandalone
      <4> QED
        BY <1>0, <3>2, <4>1, Kept
    <3> QED
      BY <3>1, <3>2
  <2> HIDE DEF f
  <2>4. Place'
    BY <1>0, <1>1, <1>2, <2>1, <2>3 DEF Place
  <2>5. Collected' /\ UsersFirst'
    BY <1>0, <1>2, <2>1 DEF Collected, UsersFirst
  <2>6. AdminsReported' /\ UsesReported'
    BY <1>0, <2>1, <2>3 DEF AdminsReported, UsesReported
  <2>7. StandaloneReported'
    <3>1. ASSUME NEW m \in DOMAIN res.roleBindings, m < b + 1,
                 NamesClusterRole(res.roleBindings[m])
          PROVE  UsePrint(res.roleBindings[m]) \in Fingerprints(findings')
      <4>1. CASE m < b
        BY <1>0, <2>3, <3>1, <4>1 DEF StandaloneReported
      <4>2. CASE m = b
        BY <2>3, <3>1, <4>2 DEF rb
      <4> QED
        BY <1>1, <1>2, <3>1, <4>1, <4>2
    <3> QED
      BY <1>0, <2>1, <3>1 DEF StandaloneReported
  <2>8. UsersNamed'
    <3>1. ASSUME NEW g \in ToSet(findings'), g.rule = "KC-014",
                 NEW u \in Users, NEW x \in Narrow,
                 Fingerprint(g) = Fingerprint(RoleBindingFinding(x, {})), Reaches(x, u)
          PROVE  g.description.users # {}
      <4>1. Fingerprint(g) \in Fingerprints(findings)
        BY <2>2, <3>1, Facts
      <4> QED
        BY <1>0, <2>3, <3>1, <4>1 DEF UsersNamed
    <3> QED
      BY <1>2, <3>1 DEF UsersNamed
  <2> QED
    BY <2>3, <2>4, <2>5, <2>6, <2>7, <2>8 DEF IInv
<1>4. CASE EndStandalone
  <2>1. b > Len(res.roleBindings) /\ b' = b /\ pc' = "done" /\ findings' = findings
    BY <1>4 DEF EndStandalone
  <2>2. /\ findings' \in Seq(Candidates')
        /\ DistinctIn(findings)' /\ DescriptionsTrue' /\ UsersNamed'
    BY <1>0, <2>1, Kept
  <2>3. Place'
    BY <1>0, <1>1, <1>2, <2>1, <2>2 DEF Place, PC
  <2>4. /\ Collected' /\ UsersFirst' /\ StandaloneReported'
        /\ AdminsReported' /\ UsesReported'
    BY <1>0, <1>2, <2>1 DEF Collected, UsersFirst, StandaloneReported, AdminsReported, UsesReported
  <2> QED
    BY <2>2, <2>3, <2>4 DEF IInv
<1> QED
  BY <1>3, <1>4

\* Every step keeps the invariant.
LEMMA InvariantKept ==
  ASSUME LoadedInputs, IInv, [Next]_vars
  PROVE  IInv'
<1>1. CASE CollectRef \/ EndPods \/ EndWorkloads
  BY <1>1, CollectKeeps
<1>2. CASE CheckClusterRoleBinding \/ EndClusterRoleBindings
  BY <1>2, ClusterBindingsKeep
<1>3. CASE CheckRoleBinding \/ EndRoleBindings
  BY <1>3, RoleBindingsKeep
<1>4. CASE CheckStandalone \/ EndStandalone
  BY <1>4, StandaloneKeeps
<1>5. CASE UNCHANGED vars
  <2>1. UNCHANGED <<res, pc, unread, refs, r, b, findings>>
    BY <1>5 DEF vars
  <2>2. Candidates' = Candidates /\ Users' = Users /\ DistinctIn(findings)'
        /\ DescriptionsTrue' /\ UsersNamed'
    BY <2>1, Kept DEF Candidates, Users, Wide, Narrow
  <2> QED
    BY <2>1, <2>2 DEF IInv, Place, Collected, AdminsReported, UsesReported,
                      StandaloneReported, UsersFirst
<1> QED
  BY <1>1, <1>2, <1>3, <1>4, <1>5 DEF Next

\* The verdicts the resources amount to, a function of them alone.
AdminVerdicts == {<<AdminPrint(u), SeverityCritical, u.file>> : u \in AdminUsers}
UseVerdicts   == {<<UsePrint(x), SeverityWarning, "">> : x \in Narrow}

\* They are all reported when the walk returns.
LEMMA EveryChainReported ==
  ASSUME LoadedInputs, IInv, Returned
  PROVE  /\ \A u \in AdminUsers : AdminPrint(u) \in Fingerprints(findings)
         /\ \A x \in Narrow : UsePrint(x) \in Fingerprints(findings)
<1>1. /\ Place /\ Collected /\ AdminsReported /\ StandaloneReported /\ pc = "done"
  BY DEF IInv, Returned
<1>2. /\ refs \in Seq(Users) /\ Len(refs) \in Nat /\ DOMAIN refs = 1 .. Len(refs)
      /\ r = Len(refs) + 1 /\ Users \subseteq ToSet(refs)
  BY <1>1 DEF Place, Collected
<1>3. /\ DOMAIN res.roleBindings = 1 .. Len(res.roleBindings)
      /\ Len(res.roleBindings) \in Nat
      /\ b > Len(res.roleBindings) /\ b \in Nat
  BY <1>1, Bindings DEF Place
<1>4. ASSUME NEW u \in AdminUsers PROVE AdminPrint(u) \in Fingerprints(findings)
  <2>1. PICK x \in Wide : Reaches(x, u) /\ IsClusterAdmin(x)
    BY DEF AdminUsers
  <2>2. PICK n \in DOMAIN refs : refs[n] = u
    BY <1>2 DEF AdminUsers, ToSet
  <2>3. PICK m \in DOMAIN res.clusterRoleBindings : res.clusterRoleBindings[m] = x
    BY DEF Wide, ToSet
  <2>4. n < r
    BY <1>2, <2>2
  <2> QED
    BY <1>1, <2>1, <2>2, <2>3, <2>4 DEF AdminsReported
<1>5. ASSUME NEW x \in Narrow PROVE UsePrint(x) \in Fingerprints(findings)
  <2>1. PICK m \in DOMAIN res.roleBindings : res.roleBindings[m] = x
    BY DEF Narrow, ToSet
  <2>2. m < b
    BY <1>3, <2>1
  <2> QED
    BY <1>1, <2>1, <2>2 DEF StandaloneReported, Narrow
<1> QED
  BY <1>4, <1>5

\* And nothing else is, at any time.
LEMMA OnlyChainsReported ==
  ASSUME LoadedInputs, IInv, NEW f \in ToSet(findings)
  PROVE  \/ /\ f.rule = "KC-013" /\ f.severity = SeverityCritical
            /\ \E u \in AdminUsers : Fingerprint(f) = AdminPrint(u) /\ f.file = u.file
         \/ /\ f.rule = "KC-014" /\ f.severity = SeverityWarning
            /\ \E x \in Narrow : Fingerprint(f) = UsePrint(x)
<1>1. DescriptionsTrue
  BY DEF IInv
<1>2. CASE f.rule = "KC-013"
  <2>1. PICK u \in Users, x \in Wide :
          f = ClusterAdminFinding(u, x) /\ Reaches(x, u) /\ IsClusterAdmin(x)
    BY <1>1, <1>2, Facts DEF DescriptionsTrue
  <2>2. f.severity = SeverityCritical /\ f.file = u.file
    BY <2>1 DEF ClusterAdminFinding
  <2> QED
    BY <1>2, <2>1, <2>2, Facts DEF AdminUsers
<1>3. CASE f.rule # "KC-013"
  <2>1. PICK x \in Narrow, users \in SUBSET Users : f = RoleBindingFinding(x, users)
    <3>1. \A u \in Users : {u} \in SUBSET Users
      OBVIOUS
    <3> QED
      BY <1>1, <1>3, <3>1 DEF DescriptionsTrue
  <2>2. f.severity = SeverityWarning
    BY <2>1 DEF RoleBindingFinding
  <2> QED
    BY <2>1, <2>2, Facts
<1> QED
  BY <1>2, <1>3

\* So the verdicts of a walk that has returned are those of the resources.
LEMMA VerdictsDetermined ==
  ASSUME LoadedInputs, IInv, Returned
  PROVE  {Verdict(f) : f \in ToSet(findings)} = AdminVerdicts \cup UseVerdicts
<1>1. ASSUME NEW f \in ToSet(findings) PROVE Verdict(f) \in AdminVerdicts \cup UseVerdicts
  BY OnlyChainsReported DEF Verdict, AdminVerdicts, UseVerdicts
<1>2. ASSUME NEW u \in AdminUsers
      PROVE  \E f \in ToSet(findings) : Verdict(f) = <<AdminPrint(u), SeverityCritical, u.file>>
  <2>1. PICK f \in ToSet(findings) : Fingerprint(f) = AdminPrint(u)
    BY EveryChainReported DEF Fingerprints, ToSet
  <2>2. f.rule = "KC-013"
    BY <2>1 DEF Fingerprint, AdminPrint
  <2>3. PICK v \in AdminUsers : Fingerprint(f) = AdminPrint(v) /\ f.file = v.file
    BY <2>2, OnlyChainsReported
  <2>4. u = v
    <3>1. res \in Inputs /\ u \in res.pods \cup res.workloads /\ v \in res.pods \cup res.workloads
      BY DEF IInv, Place, AdminUsers, Users
    <3>2. <<u.kind, u.name, u.namespace>> = <<v.kind, v.name, v.namespace>>
      BY <2>1, <2>3 DEF AdminPrint
    <3> QED
      BY <3>1, <3>2 DEF LoadedInputs
  <2>5. f.severity = SeverityCritical
    BY <2>2, OnlyChainsReported
  <2> QED
    BY <2>1, <2>2, <2>3, <2>4, <2>5 DEF Verdict
<1>3. ASSUME NEW x \in Narrow
      PROVE  \E f \in ToSet(findings) : Verdict(f) = <<UsePrint(x), SeverityWarning, "">>
  <2>1. PICK f \in ToSet(findings) : Fingerprint(f) = UsePrint(x)
    BY EveryChainReported DEF Fingerprints, ToSet
  <2>2. f.rule = "KC-014"
    BY <2>1 DEF Fingerprint, UsePrint
  <2>3. f.severity = SeverityWarning
    BY <2>2, OnlyChainsReported
  <2> QED
    BY <2>1, <2>2, <2>3 DEF Verdict
<1> QED
  BY <1>1, <1>2, <1>3 DEF AdminVerdicts, UseVerdicts

-----------------------------------------------------------------------------

\* IInv is an invariant of the walk.
THEOREM ChainInvariant == ASSUME LoadedInputs PROVE Spec => []IInv
<1>1. Init => IInv
  BY InvariantHolds
<1>2. IInv /\ [Next]_vars => IInv'
  BY InvariantKept
<1> QED
  BY <1>1, <1>2, PTL DEF Spec

\* Every variable keeps its type, and the indices never leave the slices they
\* run over: a binding looked at exists, and so does the ref
\* (analyzer.go:347-413).
THEOREM ChainTypeCorrect == ASSUME LoadedInputs PROVE Spec => []TypeOK
<1>1. IInv => TypeOK
  <2> SUFFICES ASSUME IInv PROVE TypeOK
    OBVIOUS
  <2>1. Place
    BY DEF IInv
  <2>2. /\ refs \in Seq(Users) /\ Len(refs) \in Nat /\ DOMAIN refs = 1 .. Len(refs)
        /\ ToSet(refs) \subseteq Users
    BY <2>1 DEF Place, ToSet
  <2>3. /\ Len(res.clusterRoleBindings) \in Nat
        /\ Len(res.roleBindings) \in Nat
    BY <2>1, Bindings DEF Place
  <2> DEFINE most == Max({Len(res.clusterRoleBindings), Len(res.roleBindings)})
  <2>4. /\ most \in Nat
        /\ most >= Len(res.clusterRoleBindings) /\ most >= Len(res.roleBindings)
    BY <2>3, MaxOfTwo
  <2> HIDE DEF most
  <2>5. b \in 1 .. most + 1
    BY <2>1, <2>3, <2>4 DEF Place, PC
  <2>6. \A f \in Candidates : f.rule \in {"KC-013", "KC-014"} /\ f.severity \in Severity
    <3>1. SeverityCritical \in Severity /\ SeverityWarning \in Severity
      BY DEF SeverityInfo, SeverityCritical, SeverityWarning, Severity
    <3>2. \A u, x : ClusterAdminFinding(u, x).severity = SeverityCritical
      BY DEF ClusterAdminFinding
    <3>3. \A x, users : RoleBindingFinding(x, users).severity = SeverityWarning
      BY DEF RoleBindingFinding
    <3> QED
      BY <3>1, <3>2, <3>3, Facts DEF Candidates
  <2>7. \A f \in ToSet(findings) : f \in Candidates
    BY <2>1 DEF Place, ToSet
  <2>8. pc \in {"clusterBindings", "roleBindings"} => r \in DOMAIN refs
    BY <2>1, <2>2 DEF Place
  <2> QED
    BY <2>1, <2>2, <2>5, <2>6, <2>7, <2>8 DEF TypeOK, Place, most
<1> QED
  BY <1>1, ChainInvariant, PTL

\* When the walk returns, the findings are those of the relation "runs as, is
\* bound to, refers to", each once, whatever order the maps were visited in
\* (analyzer.go:360-413).
THEOREM ChainsAllReported == ASSUME LoadedInputs PROVE Spec => []ChainsReported
<1>1. IInv => ChainsReported
  <2> SUFFICES ASSUME IInv, Returned PROVE ChainsReported
    BY DEF ChainsReported
  <2>1. Fingerprints(findings) =
          {AdminPrint(u) : u \in AdminUsers} \cup {UsePrint(x) : x \in Narrow}
    <3>1. ASSUME NEW f \in ToSet(findings)
          PROVE  \/ \E u \in AdminUsers : Fingerprint(f) = AdminPrint(u)
                 \/ \E x \in Narrow : Fingerprint(f) = UsePrint(x)
      BY OnlyChainsReported
    <3> QED
      BY <3>1, EveryChainReported DEF Fingerprints, ToSet
  <2>2. DistinctIn(findings)
    BY DEF IInv
  <2> QED
    BY <2>1, <2>2 DEF ChainsReported, DistinctIn, AdminPrint, UsePrint
<1> QED
  BY <1>1, ChainInvariant, PTL

\* What a description names exists and grants what it says, at every moment of
\* the walk (analyzer.go:388-395,404-411).
THEOREM DescriptionsAreTrue == ASSUME LoadedInputs PROVE Spec => []DescriptionsTrue
<1>1. IInv => DescriptionsTrue
  BY DEF IInv
<1> QED
  BY <1>1, ChainInvariant, PTL

\* A RoleBinding that a pod or workload uses is never reported without its user
\* (analyzer.go:381-413).
THEOREM UsersAreNamed == ASSUME LoadedInputs PROVE Spec => []UsersNamed
<1>1. IInv => UsersNamed
  BY DEF IInv
<1> QED
  BY <1>1, ChainInvariant, PTL


-----------------------------------------------------------------------------
(* Which of several bindings a finding speaks of: the first in load order. *)

\* A ClusterRoleBinding gives cluster-admin to a user; a RoleBinding to a
\* ClusterRole reaches a user; and one is there at all.
Admits(m, u) ==
  Reaches(res.clusterRoleBindings[m], u) /\ IsClusterAdmin(res.clusterRoleBindings[m])

Serves(m, u) == Reaches(res.roleBindings[m], u) /\ NamesClusterRole(res.roleBindings[m])

SamePrint(k, m) == UsePrint(res.roleBindings[k]) = UsePrint(res.roleBindings[m])

\* The first of its list to do so, for a RoleBinding among those of its name.
FirstAdmits(m, u) ==
  /\ m \in DOMAIN res.clusterRoleBindings /\ u \in Users /\ Admits(m, u)
  /\ \A k \in DOMAIN res.clusterRoleBindings : k < m => ~Admits(k, u)

FirstServes(m, u) ==
  /\ m \in DOMAIN res.roleBindings /\ u \in Users /\ Serves(m, u)
  /\ \A k \in DOMAIN res.roleBindings : k < m => ~(SamePrint(k, m) /\ Serves(k, u))

FirstOfPrint(m) ==
  /\ m \in DOMAIN res.roleBindings /\ NamesClusterRole(res.roleBindings[m])
  /\ \A k \in DOMAIN res.roleBindings :
       k < m => ~(SamePrint(k, m) /\ NamesClusterRole(res.roleBindings[k]))

\* Every finding speaks of such a first binding.
SpeaksOfFirst(f) ==
  \/ \E m \in DOMAIN res.clusterRoleBindings, u \in Users :
       f = ClusterAdminFinding(u, res.clusterRoleBindings[m]) /\ FirstAdmits(m, u)
  \/ \E m \in DOMAIN res.roleBindings, u \in Users :
       f = RoleBindingFinding(res.roleBindings[m], {u}) /\ FirstServes(m, u)
  \/ \E m \in DOMAIN res.roleBindings :
       f = RoleBindingFinding(res.roleBindings[m], {}) /\ FirstOfPrint(m)

FirstsNamed == \A f \in ToSet(findings) : SpeaksOfFirst(f)

\* Nothing but the resources decides whether a finding speaks of the first.
LEMMA SpeaksUnchanged ==
  ASSUME UNCHANGED res
  PROVE  \A f : SpeaksOfFirst(f)' <=> SpeaksOfFirst(f)
BY DEF SpeaksOfFirst, FirstAdmits, FirstServes, FirstOfPrint, Admits, Serves, SamePrint, Users,
       Reaches, IsClusterAdmin, NamesClusterRole, UsePrint, ClusterAdminFinding,
       RoleBindingFinding, Description

\* A finding appended speaks of the first binding, because whatever an earlier one
\* would have given rise to is in the list already.
LEMMA FirstsKept ==
  ASSUME LoadedInputs, IInv, FirstsNamed, [Next]_vars
  PROVE  FirstsNamed'
<1>0. Place /\ AdminsReported /\ UsesReported /\ StandaloneReported
  BY DEF IInv
<1>1. UNCHANGED res
  BY DEF vars, Next, CollectRef, EndPods, EndWorkloads, CheckClusterRoleBinding,
         EndClusterRoleBindings, CheckRoleBinding, EndRoleBindings, CheckStandalone, EndStandalone
<1>2. findings \in Seq(Candidates)
  BY <1>0 DEF Place
<1>3. ASSUME findings' = findings PROVE FirstsNamed'
  BY <1>1, <1>3, SpeaksUnchanged DEF FirstsNamed
<1>4. ASSUME NEW f \in Candidates, findings' = appendIfNew(findings, f),
             Fingerprint(f) \notin Fingerprints(findings) => SpeaksOfFirst(f)
      PROVE  FirstsNamed'
  <2>1. ToSet(findings') \subseteq ToSet(findings) \cup {f}
        /\ (Fingerprint(f) \in Fingerprints(findings) => findings' = findings)
    BY <1>2, <1>4, Appended
  <2>2. \A g \in ToSet(findings') : SpeaksOfFirst(g)
    BY <1>4, <2>1 DEF FirstsNamed
  <2> QED
    BY <1>1, <2>2, SpeaksUnchanged DEF FirstsNamed
<1>5. /\ res.clusterRoleBindings \in Seq(Wide)
      /\ res.roleBindings \in Seq(ToSet(res.roleBindings))
      /\ DOMAIN res.clusterRoleBindings = 1 .. Len(res.clusterRoleBindings)
      /\ DOMAIN res.roleBindings = 1 .. Len(res.roleBindings)
      /\ Len(res.clusterRoleBindings) \in Nat /\ Len(res.roleBindings) \in Nat
  BY <1>0, Bindings DEF Place
<1>6. CASE CheckClusterRoleBinding
  <2>0. pc = "clusterBindings" /\ b <= Len(res.clusterRoleBindings) /\ b \in Nat \ {0}
    BY <1>0, <1>6 DEF CheckClusterRoleBinding, Place
  <2>1. /\ b \in DOMAIN res.clusterRoleBindings /\ crb \in Wide
        /\ r \in DOMAIN refs /\ ref \in Users /\ pc = "clusterBindings" /\ r \in Nat
    <3>1. b \in DOMAIN res.clusterRoleBindings
      BY <1>5, <2>0
    <3>3. crb \in Wide
      BY <3>1 DEF crb, Wide, ToSet
    <3>2. r \in DOMAIN refs /\ ref \in Users /\ r \in Nat
      BY <1>0, <2>0 DEF Place, ref
    <3> QED
      BY <2>0, <3>1, <3>2, <3>3
  <2>2. bindingReferencesSubject(crb, ref) <=> Reaches(crb, ref)
    BY <1>0, <2>1, Bindings DEF Place
  <2>3. CASE ~(Reaches(crb, ref) /\ IsClusterAdmin(crb))
    BY <1>3, <1>6, <2>2, <2>3 DEF CheckClusterRoleBinding
  <2>4. CASE Reaches(crb, ref) /\ IsClusterAdmin(crb)
    <3> DEFINE f == ClusterAdminFinding(ref, crb)
    <3>1. findings' = appendIfNew(findings, f) /\ f \in Candidates
      BY <1>6, <2>1, <2>2, <2>4 DEF CheckClusterRoleBinding, Candidates
    <3>2. ASSUME Fingerprint(f) \notin Fingerprints(findings) PROVE SpeaksOfFirst(f)
      <4>1. AdminPrint(refs[r]) \notin Fingerprints(findings)
        BY <3>2, Facts DEF ref
      <4>2. \A k \in DOMAIN res.clusterRoleBindings : k < b => ~Admits(k, ref)
        BY <1>0, <2>1, <4>1 DEF AdminsReported, Admits, ref
      <4>3. FirstAdmits(b, ref)
        BY <2>1, <2>4, <4>2 DEF FirstAdmits, Admits, crb
      <4> QED
        BY <2>1, <4>3 DEF SpeaksOfFirst, crb
    <3> HIDE DEF f
    <3> QED
      BY <1>4, <3>1, <3>2
  <2> QED
    BY <2>3, <2>4
<1>7. CASE CheckRoleBinding
  <2>0. pc = "roleBindings" /\ b <= Len(res.roleBindings) /\ b \in Nat \ {0}
    BY <1>0, <1>7 DEF CheckRoleBinding, Place
  <2>1. /\ b \in DOMAIN res.roleBindings /\ rb \in ToSet(res.roleBindings)
        /\ r \in DOMAIN refs /\ ref \in Users /\ pc = "roleBindings" /\ r \in Nat
    <3>1. b \in DOMAIN res.roleBindings /\ rb \in ToSet(res.roleBindings)
      BY <1>5, <2>0 DEF rb, ToSet
    <3>2. r \in DOMAIN refs /\ ref \in Users /\ r \in Nat
      BY <1>0, <2>0 DEF Place, ref
    <3> QED
      BY <2>0, <3>1, <3>2
  <2>2. bindingReferencesSubject(rb, ref) <=> Reaches(rb, ref)
    BY <1>0, <2>1, Bindings DEF Place
  <2>3. CASE ~(Reaches(rb, ref) /\ NamesClusterRole(rb))
    BY <1>3, <1>7, <2>2, <2>3 DEF CheckRoleBinding
  <2>4. CASE Reaches(rb, ref) /\ NamesClusterRole(rb)
    <3> DEFINE f == RoleBindingFinding(rb, {ref})
    <3>1. findings' = appendIfNew(findings, f)
      BY <1>7, <2>2, <2>4 DEF CheckRoleBinding
    <3>2. f \in Candidates
      <4>1. rb \in Narrow /\ {ref} \in SUBSET Users
        BY <2>1, <2>4 DEF Narrow
      <4> QED
        BY <4>1 DEF Candidates
    <3>3. ASSUME Fingerprint(f) \notin Fingerprints(findings) PROVE SpeaksOfFirst(f)
      <4>1. UsePrint(res.roleBindings[b]) \notin Fingerprints(findings)
        BY <3>3, Facts DEF rb
      <4>2. \A k \in DOMAIN res.roleBindings : k < b => ~(SamePrint(k, b) /\ Serves(k, ref))
        BY <1>0, <2>1, <4>1 DEF UsesReported, Serves, SamePrint, ref
      <4>3. FirstServes(b, ref)
        BY <2>1, <2>4, <4>2 DEF FirstServes, Serves, rb
      <4> QED
        BY <2>1, <4>3 DEF SpeaksOfFirst, rb
    <3> HIDE DEF f
    <3> QED
      BY <1>4, <3>1, <3>2, <3>3
  <2> QED
    BY <2>3, <2>4
<1>8. CASE CheckStandalone
  <2>1. b \in DOMAIN res.roleBindings /\ rb \in ToSet(res.roleBindings) /\ pc = "standalone"
    BY <1>0, <1>5, <1>8 DEF CheckStandalone, Place, rb, ToSet
  <2>2. CASE ~NamesClusterRole(rb)
    BY <1>3, <1>8, <2>2 DEF CheckStandalone
  <2>3. CASE NamesClusterRole(rb)
    <3> DEFINE f == RoleBindingFinding(rb, {})
    <3>1. findings' = appendIfNew(findings, f)
      BY <1>8, <2>3 DEF CheckStandalone
    <3>2. f \in Candidates
      <4>1. rb \in Narrow /\ {} \in SUBSET Users
        BY <2>1, <2>3 DEF Narrow
      <4> QED
        BY <4>1 DEF Candidates
    <3>3. ASSUME Fingerprint(f) \notin Fingerprints(findings) PROVE SpeaksOfFirst(f)
      <4>1. UsePrint(res.roleBindings[b]) \notin Fingerprints(findings)
        BY <3>3, Facts DEF rb
      <4>2. \A k \in DOMAIN res.roleBindings :
              k < b => ~(SamePrint(k, b) /\ NamesClusterRole(res.roleBindings[k]))
        BY <1>0, <2>1, <4>1 DEF StandaloneReported, SamePrint
      <4>3. FirstOfPrint(b)
        BY <2>1, <2>3, <4>2 DEF FirstOfPrint, rb
      <4> QED
        BY <2>1, <4>3 DEF SpeaksOfFirst, rb
    <3> HIDE DEF f
    <3> QED
      BY <1>4, <3>1, <3>2, <3>3
  <2> QED
    BY <2>2, <2>3
<1>9. CASE \/ CollectRef \/ EndPods \/ EndWorkloads \/ EndClusterRoleBindings
           \/ EndRoleBindings \/ EndStandalone \/ UNCHANGED vars
  BY <1>3, <1>9 DEF CollectRef, EndPods, EndWorkloads, EndClusterRoleBindings,
                    EndRoleBindings, EndStandalone, vars
<1> QED
  BY <1>6, <1>7, <1>8, <1>9 DEF Next

\* No RoleBinding name stands for uses by two pods or workloads.
OneUserEach ==
  \A u, v \in Users, x, y \in ToSet(res.roleBindings) :
    UsePrint(x) = UsePrint(y) /\ Reaches(x, u) /\ Reaches(y, v) => u = v

\* The findings the resources then amount to, a function of them alone.
IsDetermined(f) ==
  \/ \E m \in DOMAIN res.clusterRoleBindings, u \in Users :
       f = ClusterAdminFinding(u, res.clusterRoleBindings[m]) /\ FirstAdmits(m, u)
  \/ \E m \in DOMAIN res.roleBindings, u \in Users :
       f = RoleBindingFinding(res.roleBindings[m], {u}) /\ FirstServes(m, u)
  \/ \E m \in DOMAIN res.roleBindings :
       /\ f = RoleBindingFinding(res.roleBindings[m], {}) /\ FirstOfPrint(m)
       /\ \A k \in DOMAIN res.roleBindings, u \in Users : SamePrint(k, m) => ~Serves(k, u)

Determined == {f \in Candidates : IsDetermined(f)}

\* A finding with a fingerprint is on the first binding it can speak of.
LEMMA FirstsUnique ==
  ASSUME LoadedInputs, IInv
  PROVE  /\ \A m, k, u, v :
              /\ FirstAdmits(m, u) /\ FirstAdmits(k, v) /\ AdminPrint(u) = AdminPrint(v)
              => u = v /\ m = k
         /\ \A m, k, u : FirstServes(m, u) /\ FirstServes(k, u) /\ SamePrint(k, m) => m = k
         /\ \A m, k : FirstOfPrint(m) /\ FirstOfPrint(k) /\ SamePrint(k, m) => m = k
<1>1. /\ DOMAIN res.clusterRoleBindings \subseteq Nat /\ DOMAIN res.roleBindings \subseteq Nat
  BY Bindings DEF IInv, Place
<1>2. ASSUME NEW m, NEW k, NEW u, NEW v,
             FirstAdmits(m, u), FirstAdmits(k, v), AdminPrint(u) = AdminPrint(v)
      PROVE  u = v /\ m = k
  <2>1. u = v
    <3>1. res \in Inputs /\ u \in res.pods \cup res.workloads /\ v \in res.pods \cup res.workloads
      BY <1>2 DEF IInv, Place, FirstAdmits, Users
    <3>2. <<u.kind, u.name, u.namespace>> = <<v.kind, v.name, v.namespace>>
      BY <1>2 DEF AdminPrint
    <3> QED
      BY <3>1, <3>2 DEF LoadedInputs
  <2>2. ~(m < k) /\ ~(k < m) /\ m \in Nat /\ k \in Nat
    BY <1>1, <1>2, <2>1 DEF FirstAdmits
  <2> QED
    BY <2>1, <2>2
<1>3. ASSUME NEW m, NEW k, NEW u, FirstServes(m, u), FirstServes(k, u), SamePrint(k, m)
      PROVE  m = k
  <2>1. ~(m < k) /\ ~(k < m) /\ m \in Nat /\ k \in Nat
    BY <1>1, <1>3 DEF FirstServes, SamePrint
  <2> QED
    BY <2>1
<1>4. ASSUME NEW m, NEW k, FirstOfPrint(m), FirstOfPrint(k), SamePrint(k, m)
      PROVE  m = k
  <2>1. ~(m < k) /\ ~(k < m) /\ m \in Nat /\ k \in Nat
    BY <1>1, <1>4 DEF FirstOfPrint, SamePrint
  <2> QED
    BY <2>1
<1> QED
  BY <1>2, <1>3, <1>4

\* Where no binding is shared, the findings of a walk that has returned are those of the
\* resources, descriptions and all.
LEMMA FindingsDetermined ==
  ASSUME LoadedInputs, IInv, FirstsNamed, OneUserEach, Returned
  PROVE  ToSet(findings) = Determined
<1>0. UsersNamed /\ res \in Inputs
  BY DEF IInv, Place
<1>1. \A m \in DOMAIN res.roleBindings : res.roleBindings[m] \in ToSet(res.roleBindings)
  BY DEF ToSet
<1>2. \A m \in DOMAIN res.clusterRoleBindings : res.clusterRoleBindings[m] \in Wide
  BY DEF ToSet, Wide
<1>3. ASSUME NEW f \in ToSet(findings) PROVE IsDetermined(f)
  <2>1. CASE \E m \in DOMAIN res.clusterRoleBindings, u \in Users :
               f = ClusterAdminFinding(u, res.clusterRoleBindings[m]) /\ FirstAdmits(m, u)
    BY <2>1 DEF IsDetermined
  <2>2. CASE \E m \in DOMAIN res.roleBindings, u \in Users :
               f = RoleBindingFinding(res.roleBindings[m], {u}) /\ FirstServes(m, u)
    BY <2>2 DEF IsDetermined
  <2>3. CASE \E m \in DOMAIN res.roleBindings :
               f = RoleBindingFinding(res.roleBindings[m], {}) /\ FirstOfPrint(m)
    <3>1. PICK m \in DOMAIN res.roleBindings :
            f = RoleBindingFinding(res.roleBindings[m], {}) /\ FirstOfPrint(m)
      BY <2>3
    <3>2. ASSUME NEW k \in DOMAIN res.roleBindings, NEW u \in Users, SamePrint(k, m), Serves(k, u)
          PROVE  FALSE
      <4>1. res.roleBindings[k] \in Narrow
        BY <1>1, <3>2 DEF Narrow, Serves
      <4>2. f.rule = "KC-014" /\ f.description.users = {}
            /\ Fingerprint(f) = Fingerprint(RoleBindingFinding(res.roleBindings[k], {}))
        BY <3>1, <3>2, Facts DEF SamePrint
      <4>3. f.description.users # {}
        <5>1. \E v \in Users, x \in Narrow :
                /\ Fingerprint(f) = Fingerprint(RoleBindingFinding(x, {})) /\ Reaches(x, v)
          BY <3>2, <4>1, <4>2 DEF Serves
        <5> QED
          BY <1>0, <4>2, <5>1 DEF UsersNamed
      <4> QED
        BY <4>2, <4>3
    <3> QED
      BY <3>1, <3>2 DEF IsDetermined
  <2> QED
    BY <2>1, <2>2, <2>3 DEF FirstsNamed, SpeaksOfFirst
<1>4. ASSUME NEW m \in DOMAIN res.clusterRoleBindings, NEW u \in Users, FirstAdmits(m, u)
      PROVE  ClusterAdminFinding(u, res.clusterRoleBindings[m]) \in ToSet(findings)
  <2>1. u \in AdminUsers
    BY <1>2, <1>4 DEF FirstAdmits, Admits, AdminUsers
  <2>2. PICK f \in ToSet(findings) : Fingerprint(f) = AdminPrint(u)
    BY <2>1, EveryChainReported DEF Fingerprints, ToSet
  <2>3. PICK k \in DOMAIN res.clusterRoleBindings, v \in Users :
          f = ClusterAdminFinding(v, res.clusterRoleBindings[k]) /\ FirstAdmits(k, v)
    <3>1. \A x, users : Fingerprint(RoleBindingFinding(x, users)) # AdminPrint(u)
      BY Facts DEF UsePrint, AdminPrint
    <3>2. SpeaksOfFirst(f)
      BY DEF FirstsNamed
    <3> QED
      BY <2>2, <3>1, <3>2 DEF SpeaksOfFirst
  <2>4. AdminPrint(v) = AdminPrint(u)
    BY <2>2, <2>3, Facts
  <2>5. u = v /\ m = k
    BY <1>4, <2>3, <2>4, FirstsUnique
  <2> QED
    BY <2>3, <2>5
\* What stands for a RoleBinding in the list.
<1>5. ASSUME NEW m \in DOMAIN res.roleBindings, NamesClusterRole(res.roleBindings[m])
      PROVE  \E f \in ToSet(findings), k \in DOMAIN res.roleBindings :
               /\ SamePrint(k, m)
               /\ \/ f = RoleBindingFinding(res.roleBindings[k], {}) /\ FirstOfPrint(k)
                  \/ \E u \in Users :
                       f = RoleBindingFinding(res.roleBindings[k], {u}) /\ FirstServes(k, u)
  <2>1. res.roleBindings[m] \in Narrow
    BY <1>1, <1>5 DEF Narrow
  <2>2. PICK f \in ToSet(findings) : Fingerprint(f) = UsePrint(res.roleBindings[m])
    BY <2>1, EveryChainReported DEF Fingerprints, ToSet
  <2>3. \A u, x : Fingerprint(ClusterAdminFinding(u, x)) # UsePrint(res.roleBindings[m])
    BY Facts DEF UsePrint, AdminPrint
  <2>4. \A k, users : f = RoleBindingFinding(res.roleBindings[k], users) => SamePrint(k, m)
    BY <2>2, Facts DEF SamePrint
  <2> QED
    BY <2>2, <2>3, <2>4 DEF FirstsNamed, SpeaksOfFirst
<1>6. ASSUME NEW m \in DOMAIN res.roleBindings, NEW u \in Users, FirstServes(m, u)
      PROVE  RoleBindingFinding(res.roleBindings[m], {u}) \in ToSet(findings)
  <2>1. Serves(m, u) /\ res.roleBindings[m] \in Narrow
    BY <1>1, <1>6 DEF FirstServes, Serves, Narrow
  <2>2. PICK f \in ToSet(findings), k \in DOMAIN res.roleBindings :
               /\ SamePrint(k, m)
               /\ \/ f = RoleBindingFinding(res.roleBindings[k], {}) /\ FirstOfPrint(k)
                  \/ \E v \in Users :
                       f = RoleBindingFinding(res.roleBindings[k], {v}) /\ FirstServes(k, v)
    BY <1>5, <2>1 DEF Serves
  <2>3. f # RoleBindingFinding(res.roleBindings[k], {})
    <3> SUFFICES ASSUME f = RoleBindingFinding(res.roleBindings[k], {}) PROVE FALSE
      OBVIOUS
    <3>1. f.rule = "KC-014" /\ f.description.users = {}
          /\ Fingerprint(f) = Fingerprint(RoleBindingFinding(res.roleBindings[m], {}))
      BY <2>2, Facts DEF SamePrint
    <3>2. \E v \in Users, x \in Narrow :
            Fingerprint(f) = Fingerprint(RoleBindingFinding(x, {})) /\ Reaches(x, v)
      BY <2>1, <3>1 DEF Serves
    <3> QED
      BY <1>0, <3>1, <3>2 DEF UsersNamed
  <2>4. PICK v \in Users :
          f = RoleBindingFinding(res.roleBindings[k], {v}) /\ FirstServes(k, v)
    BY <2>2, <2>3
  <2>5. u = v
    BY <1>1, <2>1, <2>2, <2>4 DEF OneUserEach, FirstServes, Serves, SamePrint
  <2>6. m = k
    BY <1>6, <2>2, <2>4, <2>5, FirstsUnique
  <2> QED
    BY <2>4, <2>5, <2>6
<1>7. ASSUME NEW m \in DOMAIN res.roleBindings, FirstOfPrint(m),
             \A k \in DOMAIN res.roleBindings, u \in Users : SamePrint(k, m) => ~Serves(k, u)
      PROVE  RoleBindingFinding(res.roleBindings[m], {}) \in ToSet(findings)
  <2>1. PICK f \in ToSet(findings), k \in DOMAIN res.roleBindings :
               /\ SamePrint(k, m)
               /\ \/ f = RoleBindingFinding(res.roleBindings[k], {}) /\ FirstOfPrint(k)
                  \/ \E v \in Users :
                       f = RoleBindingFinding(res.roleBindings[k], {v}) /\ FirstServes(k, v)
    BY <1>5, <1>7 DEF FirstOfPrint
  <2>2. f = RoleBindingFinding(res.roleBindings[k], {}) /\ FirstOfPrint(k)
    BY <1>7, <2>1 DEF FirstServes
  <2>3. m = k
    BY <1>7, <2>1, <2>2, FirstsUnique
  <2> QED
    BY <2>2, <2>3
<1>8. \A f : IsDetermined(f) => f \in ToSet(findings)
  BY <1>4, <1>6, <1>7 DEF IsDetermined
<1>9. \A f \in ToSet(findings) : f \in Candidates
  BY DEF IInv, Place, ToSet
<1> QED
  BY <1>3, <1>8, <1>9 DEF Determined

=============================================================================
