--------------------------- MODULE AnalysisProofs ---------------------------
(***************************************************************************)
(* Proofs about Analyze, for every set of Inputs that satisfies Loaded-    *)
(* Inputs and whose objects are well formed: any number of roles with any  *)
(* rules, any bindings and documents, and any order in which the maps are  *)
(* visited.                                                                *)
(*                                                                         *)
(* The promises hold only when Analyze returns.  The first part is about   *)
(* roles.  IInv is what holds on the way: the findings on roles are        *)
(* exactly those on the roles visited so far, each at one place            *)
(* (HoldsOnce).  The visits add to them (ClusterRoleKeeps, RoleKeeps); the *)
(* detectors and the walk over the chains only append findings on other    *)
(* objects (DetectorsFound, WalkKeeps).  That an unordered set of findings *)
(* becomes a list without loss is the theorem of module ListingsProofs.    *)
(*                                                                         *)
(* The second part is about one object: the detector finds what the        *)
(* contract names (PodsAgree, SCCsAgree, SecretsAgree, IngressesAgree,     *)
(* PoliciesAgree and so on).  The checks on pods go over lists and keep    *)
(* the highest severity on the way.  That it is the severity of the worst  *)
(* thing found, in whatever order the lists have them, is an induction     *)
(* over the list (Raised); what the lists hold comes from the theorems on  *)
(* Sublist and FlattenSeq of module ListingsProofs (ContainersListed to    *)
(* CapabilitiesFound).  Those on hosts, selectors and blocks of addresses  *)
(* compare how a thing is written with what it lets through: the one that  *)
(* is left out is a name nobody wrote (Covering), the labels of a pod that *)
(* an expression turns away (ExpressionLeavesOut), or an address with      *)
(* another first bit (BlocksAgree).                                        *)
(*                                                                         *)
(* The third part is about the detectors in the run.  OInv is what holds   *)
(* on the way, along with IInv: of the objects that are no roles, the      *)
(* finding list has what the detectors and the chains found, from the      *)
(* phase on that appends it, and nothing else.  A key tells apart the      *)
(* objects, so the verdict on one at the end is what its detector found on *)
(* it (VerdictIs).                                                         *)
(***************************************************************************)
EXTENDS DetectorContract, ListingsProofs, SequenceTheorems

\* A finding on a role.
OnRole(f) == f.kind \in {"ClusterRole", "Role"}

\* The list has the findings on roles in S, each at one place.
HoldsOnce(list, S) ==
  /\ list \in Seq(ToSet(list))
  /\ {f \in ToSet(list) : OnRole(f)} = S
  /\ \A m, n \in DOMAIN list : OnRole(list[m]) /\ list[m] = list[n] => m = n

\* Lists put one after the other hold what both hold.
LEMMA Joined ==
  ASSUME NEW p, NEW q
  PROVE  /\ p \in Seq(ToSet(p)) /\ q \in Seq(ToSet(q)) =>
              p \o q \in Seq(ToSet(p \o q)) /\ ToSet(p \o q) = ToSet(p) \cup ToSet(q)
         /\ \A S, T : HoldsOnce(p, S) /\ HoldsOnce(q, T) /\ S \cap T = {}
              => HoldsOnce(p \o q, S \cup T)
<1> SUFFICES ASSUME p \in Seq(ToSet(p)), q \in Seq(ToSet(q))
             PROVE  /\ p \o q \in Seq(ToSet(p \o q))
                    /\ ToSet(p \o q) = ToSet(p) \cup ToSet(q)
                    /\ \A S, T : HoldsOnce(p, S) /\ HoldsOnce(q, T) /\ S \cap T = {}
                             => HoldsOnce(p \o q, S \cup T)
  BY DEF HoldsOnce
<1> DEFINE U == ToSet(p) \cup ToSet(q)
           w == p \o q
<1>1. p \in Seq(U) /\ q \in Seq(U)
  <2>1. \A s, A, B : s \in Seq(A) /\ A \subseteq B => s \in Seq(B)
    OBVIOUS
  <2> QED
    BY <2>1
<1> HIDE DEF U
<1>2. /\ w \in Seq(U)
      /\ DOMAIN p = 1 .. Len(p) /\ DOMAIN q = 1 .. Len(q)
      /\ Len(p) \in Nat /\ Len(q) \in Nat
      /\ DOMAIN w = 1 .. Len(p) + Len(q)
      /\ \A n \in DOMAIN w : w[n] = IF n <= Len(p) THEN p[n] ELSE q[n - Len(p)]
  BY <1>1, ConcatProperties
<1> HIDE DEF w
<1>3. \A n \in DOMAIN p : n \in DOMAIN w /\ w[n] = p[n]
  BY <1>2
<1>4. \A n \in DOMAIN q : n + Len(p) \in DOMAIN w /\ w[n + Len(p)] = q[n]
  BY <1>2
<1>5. ToSet(w) = U
  <2>1. \A n \in DOMAIN w : w[n] \in U
    BY <1>2 DEF U, ToSet
  <2>2. \A x \in ToSet(p) : x \in ToSet(w)
    BY <1>3 DEF ToSet
  <2>3. \A x \in ToSet(q) : x \in ToSet(w)
    BY <1>4 DEF ToSet
  <2>4. \A x \in ToSet(w) : x \in U
    BY <2>1 DEF ToSet
  <2> QED
    BY <2>2, <2>3, <2>4 DEF U
<1>6. ASSUME NEW S, NEW T, HoldsOnce(p, S), HoldsOnce(q, T), S \cap T = {}
      PROVE  HoldsOnce(w, S \cup T)
  <2>1. {f \in ToSet(w) : OnRole(f)} = S \cup T
    BY <1>5, <1>6 DEF HoldsOnce, U
  <2>2. ASSUME NEW m \in DOMAIN w, NEW n \in DOMAIN w, OnRole(w[m]), w[m] = w[n]
        PROVE  m = n
    <3>1. CASE m <= Len(p) /\ n <= Len(p)
      BY <1>2, <1>6, <2>2, <3>1 DEF HoldsOnce
    <3>2. CASE m > Len(p) /\ n > Len(p)
      <4>1. m - Len(p) \in DOMAIN q /\ n - Len(p) \in DOMAIN q
            /\ w[m] = q[m - Len(p)] /\ w[n] = q[n - Len(p)]
        BY <1>2, <3>2
      <4>2. m - Len(p) = n - Len(p)
        BY <1>6, <2>2, <4>1 DEF HoldsOnce
      <4> QED
        BY <1>2, <4>2
    <3>3. \A k \in DOMAIN w : OnRole(w[k]) =>
            IF k <= Len(p) THEN w[k] \in S ELSE w[k] \in T
      <4> SUFFICES ASSUME NEW k \in DOMAIN w, OnRole(w[k])
                   PROVE  IF k <= Len(p) THEN w[k] \in S ELSE w[k] \in T
        OBVIOUS
      <4>1. k <= Len(p) => k \in DOMAIN p /\ w[k] = p[k]
        BY <1>2
      <4>2. ~(k <= Len(p)) => k - Len(p) \in DOMAIN q /\ w[k] = q[k - Len(p)]
        BY <1>2
      <4> QED
        BY <1>6, <4>1, <4>2 DEF HoldsOnce, ToSet
    <3> QED
      BY <1>2, <1>6, <2>2, <3>1, <3>2, <3>3
  <2> QED
    BY <1>2, <1>5, <2>1, <2>2 DEF HoldsOnce
<1> QED
  BY <1>2, <1>5, <1>6 DEF w, U

\* A set of findings in some order holds those of its members that are on roles.
LEMMA Disjoined ==
  ASSUME NEW S, IsFiniteSet(S)
  PROVE  HoldsOnce(Listed(S), {f \in S : OnRole(f)})
BY ListedOnce DEF ListsOnce, HoldsOnce, ToSet

\* Append adds the one finding.
LEMMA OneAppended ==
  ASSUME NEW p, NEW S, HoldsOnce(p, S), NEW f, OnRole(f), f \notin S
  PROVE  HoldsOnce(Append(p, f), S \cup {f})
<1>1. HoldsOnce(<<f>>, {f})
  BY DEF HoldsOnce, ToSet
<1>2. Append(p, f) = p \o <<f>>
  <2>1. p \in Seq(ToSet(p) \cup {f})
    BY DEF HoldsOnce
  <2> QED
    BY <2>1
<1> QED
  BY <1>1, <1>2, Joined

-----------------------------------------------------------------------------

\* A rule trips no check but those of the tables (rules.go).
LEMMA KeysOfRules ==
  ASSUME NEW entry
  PROVE  Triggers(entry) \subseteq Keys
<1>1. VerbKeys(entry) \subseteq Keys
  BY DEF VerbKeys, dangerousVerbs, Keys, RoleRuleIDs
<1>2. \A n \in DOMAIN dangerousResources : dangerousResources[n] \in Keys
  BY DEF dangerousResources, coreGroupResources, podSubresources, Keys, RoleRuleIDs
<1>3. ResourceKeys(entry) \subseteq Keys
  BY <1>2 DEF ResourceKeys, FlaggedResources
<1>4. GroupKeys(entry) \subseteq Keys
  BY DEF GroupKeys, Keys
<1>5. ComboKeys(entry) \subseteq Keys
  BY DEF ComboKeys, Keys, RoleRuleIDs
<1> QED
  BY <1>1, <1>3, <1>4, <1>5 DEF Triggers

\* There are finitely many checks.
LEMMA KeysFinite == IsFiniteSet(Keys)
<1> DEFINE key == <<"KC-001", "KC-002", "KC-003", "KC-004", "KC-005", "KC-006", "KC-007",
                    "KC-008", "KC-009", "KC-010", "KC-011", "KC-012", "KC-016", "KC-023",
                    "KC-030", "KC-031", APIGroupKey>>
<1>1. IsFiniteSet({key[n] : n \in 1 .. 17})
  <2>1. \A n \in Nat : IsFiniteSet(1 .. n)
    BY FS_Interval
  <2> HIDE DEF key
  <2> QED
    BY <2>1, FiniteRange, 17 \in Nat
<1>2. Keys \subseteq {key[n] : n \in 1 .. 17}
  BY DEF Keys, RoleRuleIDs
<1> QED
  BY <1>1, <1>2, FS_Subset

\* The role findings are one for each key that some rule trips.
LEMMA RoleFacts ==
  ASSUME NEW role, role.rules \in Seq(Rule)
  PROVE  /\ IsFiniteSet(RoleFindings(role))
         /\ \A f \in RoleFindings(role) :
              \E k \in DOMAIN role.rules :
                f.key \in Triggers(role.rules[k]) /\ f = RoleFinding(role, f.key, role.rules[k])
         /\ \A k \in DOMAIN role.rules : \A key \in Triggers(role.rules[k]) :
              \E f \in RoleFindings(role) : f.key = key
         /\ \A f, g \in RoleFindings(role) : f.key = g.key => f = g
<1> DEFINE rules == role.rules
           First(k, key) == key \in Triggers(rules[k]) \ KeysBefore(role, k)
<1>0. DOMAIN rules = 1 .. Len(rules) /\ Len(rules) \in Nat
  OBVIOUS
<1>1. ASSUME NEW f \in RoleFindings(role)
      PROVE  \E k \in DOMAIN rules : First(k, f.key) /\ f = RoleFinding(role, f.key, rules[k])
  <2>1. PICK k \in DOMAIN rules :
          f \in {RoleFinding(role, key, rules[k]) :
                   key \in Triggers(rules[k]) \ KeysBefore(role, k)}
    BY <1>1 DEF RoleFindings
  <2>2. PICK key \in Triggers(rules[k]) \ KeysBefore(role, k) : f = RoleFinding(role, key, rules[k])
    BY <2>1
  <2>3. f.key = key
    BY <2>2 DEF RoleFinding
  <2> QED
    BY <2>2, <2>3
<1>2. ASSUME NEW k \in DOMAIN rules, NEW key \in Triggers(rules[k])
      PROVE  \E f \in RoleFindings(role) : f.key = key
  <2> DEFINE K == {j \in DOMAIN rules : key \in Triggers(rules[j])}
  <2>1. PICK j \in K : \A l \in K : j <= l
    <3>1. K \subseteq Nat /\ K # {}
      BY <1>0, <1>2
    <3> HIDE DEF K
    <3> QED
      BY <3>1, LeastNumber
  <2>2. \A l \in 1 .. j - 1 : l \in DOMAIN rules /\ key \notin Triggers(rules[l])
    BY <1>0, <2>1
  <2>3. First(j, key)
    BY <2>2 DEF KeysBefore
  <2>4. RoleFinding(role, key, rules[j]) \in RoleFindings(role)
    BY <2>3 DEF RoleFindings
  <2>5. RoleFinding(role, key, rules[j]).key = key
    BY DEF RoleFinding
  <2> QED
    BY <2>4, <2>5
<1>3. ASSUME NEW f \in RoleFindings(role), NEW g \in RoleFindings(role), f.key = g.key
      PROVE  f = g
  <2>1. PICK k \in DOMAIN rules : First(k, f.key) /\ f = RoleFinding(role, f.key, rules[k])
    BY <1>1
  <2>2. PICK j \in DOMAIN rules : First(j, g.key) /\ g = RoleFinding(role, g.key, rules[j])
    BY <1>1
  <2>3. j = k
    <3>1. ~(j < k)
      <4>1. j < k => j \in 1 .. k - 1
        BY <1>0
      <4> QED
        BY <1>3, <2>1, <2>2, <4>1 DEF KeysBefore
    <3>2. ~(k < j)
      <4>1. k < j => k \in 1 .. j - 1
        BY <1>0
      <4> QED
        BY <1>3, <2>1, <2>2, <4>1 DEF KeysBefore
    <3> QED
      BY <1>0, <3>1, <3>2
  <2> QED
    BY <1>3, <2>1, <2>2, <2>3
<1>4. IsFiniteSet(RoleFindings(role))
  <2> DEFINE keyOf == [f \in RoleFindings(role) |-> f.key]
  <2>1. \A f \in RoleFindings(role) : f.key \in Keys
    BY <1>1, KeysOfRules
  <2>2. keyOf \in [RoleFindings(role) -> Keys]
    BY <2>1
  <2>3. keyOf \in Injection(RoleFindings(role), Keys)
    BY <1>3, <2>2 DEF Injection, IsInjective
  <2> QED
    BY <2>3, KeysFinite, FS_Injection
<1>5. \A f \in RoleFindings(role) :
        \E k \in DOMAIN role.rules :
          f.key \in Triggers(role.rules[k]) /\ f = RoleFinding(role, f.key, role.rules[k])
  BY <1>1
<1> HIDE DEF rules, First
<1> QED
  BY <1>2, <1>3, <1>4, <1>5 DEF rules

-----------------------------------------------------------------------------

\* A detector finds finitely many things on any document.
LEMMA TripsFinite ==
  ASSUME NEW doc, NEW kind
  PROVE  /\ IsFiniteSet(analyzeWorkloadSecurityObject(doc, kind))
         /\ IsFiniteSet(analyzeNetworkPolicy(doc))
         /\ IsFiniteSet(analyzeSecurityContextConstraint(doc))
         /\ IsFiniteSet(analyzeService(doc))
         /\ IsFiniteSet(analyzeIngress(doc))
         /\ IsFiniteSet(analyzeRoute(doc))
         /\ IsFiniteSet(analyzeSecret(doc))
<1>1. IsFiniteSet({}) /\ \A x : IsFiniteSet({x})
  BY FS_EmptySet, FS_Singleton
<1>2. \A c, rule, severity : IsFiniteSet(TripIf(c, rule, severity))
  BY <1>1 DEF TripIf
<1>3. \A S, T : IsFiniteSet(S) /\ IsFiniteSet(T) => IsFiniteSet(S \cup T)
  BY FS_Union
<1>4. IsFiniteSet(analyzeWorkloadSecurityObject(doc, kind))
  BY <1>2, <1>3, Zenon DEF analyzeWorkloadSecurityObject
<1>5. IsFiniteSet(analyzeNetworkPolicy(doc))
  BY <1>2, <1>3, Zenon DEF analyzeNetworkPolicy
<1>6. IsFiniteSet(analyzeSecurityContextConstraint(doc)) /\ IsFiniteSet(analyzeService(doc))
  BY <1>2, Zenon DEF analyzeSecurityContextConstraint, analyzeService
<1>7. IsFiniteSet(analyzeIngress(doc)) /\ IsFiniteSet(analyzeRoute(doc))
  BY <1>1, <1>2, <1>3, Zenon DEF analyzeIngress, analyzeRoute
<1>8. IsFiniteSet(analyzeSecret(doc))
  BY <1>1, Zenon DEF analyzeSecret
<1> QED
  BY <1>4, <1>5, <1>6, <1>7, <1>8

\* The list has the findings in S, each at one place if it is on a role; none of them is.
Reports(list, S) == HoldsOnce(list, {}) /\ ToSet(list) = S

\* What a detector finds on objects, given the kind of each and what each trips.
FoundOn(kindOf, objs, trips) == UNION {FindingsOn(kindOf[obj], obj, trips[obj]) : obj \in objs}

\* A detector's findings on finitely many objects.
LEMMA FoundOnObjects ==
  ASSUME NEW objs, IsFiniteSet(objs), NEW kindOf, NEW trips,
         \A obj \in objs : /\ IsFiniteSet(trips[obj])
                           /\ kindOf[obj] \notin {"ClusterRole", "Role"}
  PROVE  Reports(Listed(FoundOn(kindOf, objs, trips)), FoundOn(kindOf, objs, trips))
<1> DEFINE found == [obj \in objs |-> FindingsOn(kindOf[obj], obj, trips[obj])]
           all   == UNION {found[obj] : obj \in objs}
<1>1. ASSUME NEW obj \in objs
      PROVE  IsFiniteSet(found[obj]) /\ \A f \in found[obj] : ~OnRole(f)
  <2> DEFINE findingOf ==
               [trip \in trips[obj] |->
                  newFinding(trip.rule, trip.severity, kindOf[obj], obj, "document")]
             image == {findingOf[trip] : trip \in trips[obj]}
  <2>1. found[obj] = image
    BY DEF FindingsOn
  <2> HIDE DEF findingOf
  <2>2. IsFiniteSet(image)
    BY FiniteRange
  <2> HIDE DEF image
  <2>3. IsFiniteSet(found[obj])
    BY <2>1, <2>2
  <2>4. \A f \in found[obj] : f.kind = kindOf[obj]
    BY DEF FindingsOn, newFinding
  <2> QED
    BY <2>3, <2>4 DEF OnRole
<1>2. all = FoundOn(kindOf, objs, trips)
  BY DEF FoundOn
<1> HIDE DEF found
<1>3. IsFiniteSet({found[obj] : obj \in objs})
  BY FiniteRange
<1>4. IsFiniteSet(all)
  BY <1>1, <1>3, FS_UNION
<1>5. {f \in all : OnRole(f)} = {}
  BY <1>1
<1> HIDE DEF all
<1>6. HoldsOnce(Listed(all), {f \in all : OnRole(f)})
  BY <1>4, Disjoined
<1>7. ListsOnce(Listed(all), all)
  BY <1>4, ListedOnce
<1>8. Reports(Listed(all), all)
  BY <1>5, <1>6, <1>7 DEF ListsOnce, ToSet, Reports
<1> QED
  BY <1>2, <1>8
-----------------------------------------------------------------------------

\* The checks some rule of a role trips.
KeysOf(role) == UNION {Triggers(role.rules[n]) : n \in DOMAIN role.rules}

\* The rating of one finding, as RoleFinding has it.
Rated(scope, isNamespaced, wildcard) ==
  IF isNamespaced THEN capSeverity(computeSeverity(scope, wildcard), SeverityWarning)
  ELSE computeSeverity(scope, wildcard)

\* A finding that reports a check on a role.
IsCheck(f, role, kind, scope, isNamespaced, key) ==
  /\ f.rule = RuleOf(key) /\ f.description = [check |-> key]
  /\ f.kind = kind /\ f.name = role.name /\ f.namespace = role.namespace /\ f.file = role.file
  /\ \E wildcard \in BOOLEAN : f.severity = Rated(scope, isNamespaced, wildcard)

\* checkRules reports each check that is tripped, once, and no other.
LEMMA CheckedFacts ==
  ASSUME NEW role, role.rules \in Seq(Rule), NEW kind, NEW scope, NEW isNamespaced
  PROVE  /\ IsFiniteSet(checkRules(role, kind, scope, isNamespaced))
         /\ \A f \in checkRules(role, kind, scope, isNamespaced) :
              \E key \in KeysOf(role) : IsCheck(f, role, kind, scope, isNamespaced, key)
         /\ \A key \in KeysOf(role) : \E f \in checkRules(role, kind, scope, isNamespaced) :
              IsCheck(f, role, kind, scope, isNamespaced, key)
         /\ \A f, g \in checkRules(role, kind, scope, isNamespaced) :
              f.description = g.description => f = g
<1> DEFINE arg == [rules |-> role.rules, scope |-> scope, isNamespaced |-> isNamespaced]
           F   == RoleFindings(arg)
           of  == [f \in F |-> newFinding(RuleOf(f.key), f.severity, kind, role, f.key)]
           C   == {of[f] : f \in F}
<1>1. checkRules(role, kind, scope, isNamespaced) = C
  BY DEF checkRules
<1>2. /\ IsFiniteSet(F)
      /\ \A f \in F :
           \E k \in DOMAIN role.rules :
             f.key \in Triggers(role.rules[k]) /\ f = RoleFinding(arg, f.key, role.rules[k])
      /\ \A k \in DOMAIN role.rules : \A key \in Triggers(role.rules[k]) :
           \E f \in F : f.key = key
      /\ \A f, g \in F : f.key = g.key => f = g
  <2>1. arg.rules = role.rules
    OBVIOUS
  <2> HIDE DEF arg
  <2> QED
    BY <2>1, RoleFacts
<1>3. \A f \in F : \E wildcard \in BOOLEAN : f.severity = Rated(scope, isNamespaced, wildcard)
  <2> SUFFICES ASSUME NEW f \in F
               PROVE  \E wildcard \in BOOLEAN : f.severity = Rated(scope, isNamespaced, wildcard)
    OBVIOUS
  <2>1. PICK k \in DOMAIN role.rules : f = RoleFinding(arg, f.key, role.rules[k])
    BY <1>2
  <2>2. CountsAsWildcard(role.rules[k], f.key) \in BOOLEAN
    BY DEF CountsAsWildcard, hasWildcards
  <2>3. RoleFinding(arg, f.key, role.rules[k]).severity
          = Rated(scope, isNamespaced, CountsAsWildcard(role.rules[k], f.key))
    BY DEF RoleFinding, Rated
  <2> QED
    BY <2>1, <2>2, <2>3
<1> HIDE DEF F, arg
<1>4. \A f \in F : f.key \in KeysOf(role)
  BY <1>2 DEF KeysOf
<1>5. ASSUME NEW key \in KeysOf(role) PROVE \E f \in F : f.key = key
  <2>1. PICK k \in DOMAIN role.rules : key \in Triggers(role.rules[k])
    BY DEF KeysOf
  <2> QED
    BY <1>2, <2>1
<1>6. \A f \in F : IsCheck(of[f], role, kind, scope, isNamespaced, f.key)
  BY <1>3 DEF IsCheck, newFinding
<1>7. \A f \in F : of[f].description = [check |-> f.key]
  BY DEF newFinding
<1> HIDE DEF of
<1>8. IsFiniteSet(C)
  BY <1>2, FiniteRange
<1>9. \A f, g \in F : of[f].description = of[g].description => of[f] = of[g]
  <2>1. \A k, l : [check |-> k] = [check |-> l] => k = l
    <3> SUFFICES ASSUME NEW k, NEW l, [check |-> k] = [check |-> l] PROVE k = l
      OBVIOUS
    <3>1. [check |-> k].check = [check |-> l].check
      OBVIOUS
    <3> QED
      BY <3>1
  <2> SUFFICES ASSUME NEW f \in F, NEW g \in F, of[f].description = of[g].description
               PROVE  of[f] = of[g]
    OBVIOUS
  <2>2. f.key = g.key
    <3>1. [check |-> f.key] = [check |-> g.key]
      BY <1>7
    <3> QED
      BY <2>1, <3>1
  <2>3. f = g
    BY <1>2, <2>2
  <2> QED
    BY <2>3
<1> QED
  BY <1>1, <1>4, <1>5, <1>6, <1>8, <1>9

\* All that is found on a ClusterRole.
OfClusterRole(cr) ==
  ClusterRoleFindings(cr) \cup (IF cr.aggregated THEN {AggregatedFinding(cr)} ELSE {})

\* KC-015 is the rule of no check on the rules of a role.
LEMMA KeyNames == "KC-015" \notin Keys /\ \A key \in Keys : RuleOf(key) # "KC-015"
BY DEF Keys, RoleRuleIDs, RuleOf, APIGroupKey

\* What the loader hands over, for the resources of this run.
LEMMA InputFacts ==
  ASSUME res \in Inputs
  PROVE  /\ IsFiniteSet(res.clusterRoles) /\ IsFiniteSet(res.roles)
         /\ IsFiniteSet(res.pods) /\ IsFiniteSet(res.workloads)
         /\ IsFiniteSet(res.networkPolicies) /\ IsFiniteSet(res.sccs)
         /\ IsFiniteSet(res.services) /\ IsFiniteSet(res.ingresses)
         /\ IsFiniteSet(res.routes) /\ IsFiniteSet(res.secrets)
         /\ \A cr \in res.clusterRoles : cr.namespace = Core
         /\ \A cr, other \in res.clusterRoles : cr.name = other.name => cr = other
         /\ \A ro, other \in res.roles :
              ro.name = other.name /\ ro.namespace = other.namespace => ro = other
         /\ \A role \in res.clusterRoles \cup res.roles : role.rules \in Seq(Rule)
         /\ \A u \in res.pods \cup res.workloads : u.kind \notin {"ClusterRole", "Role"}
<1>1. \A map \in {"clusterRoles", "roles", "pods", "workloads", "networkPolicies", "sccs",
                   "services", "ingresses", "routes", "secrets"} : IsFiniteSet(res[map])
  BY InputsAssumption DEF LoadedInputs
<1>2. \A cr \in res.clusterRoles : cr.namespace = Core
  BY InputsAssumption, Zenon DEF LoadedInputs, Core
<1>3. /\ \A cr, other \in res.clusterRoles : cr.name = other.name => cr = other
      /\ \A ro, other \in res.roles :
           ro.name = other.name /\ ro.namespace = other.namespace => ro = other
      /\ \A role \in res.clusterRoles \cup res.roles : role.rules \in Seq(Rule)
  BY InputsAssumption, Zenon DEF LoadedInputs
<1>4. /\ \A u \in res.pods : u.kind = "Pod"
      /\ \A u \in res.workloads :
           u.kind \in {"Deployment", "DaemonSet", "StatefulSet", "Job", "CronJob", "ReplicaSet",
                    "ReplicationController", "DeploymentConfig"}
  BY InputsAssumption, Zenon DEF LoadedInputs
<1>5. \A u \in res.pods \cup res.workloads : u.kind \notin {"ClusterRole", "Role"}
  BY <1>4
<1> QED
  BY <1>1, <1>2, <1>3, <1>5

\* What a detector finds on objects of one kind.
OfKind(kind, objs, trips) == UNION {FindingsOn(kind, obj, trips[obj]) : obj \in objs}

\* The objects of one list are of one kind, which is not a role's.
LEMMA FoundOnOneKind ==
  ASSUME NEW objs, IsFiniteSet(objs), NEW kind, kind \notin {"ClusterRole", "Role"}, NEW trips,
         \A obj \in objs : IsFiniteSet(trips[obj])
  PROVE  Reports(Listed(OfKind(kind, objs, trips)), OfKind(kind, objs, trips))
<1> DEFINE kindOf == [obj \in objs |-> kind]
<1>1. \A obj \in objs : kindOf[obj] = kind
  OBVIOUS
<1>2. OfKind(kind, objs, trips) = FoundOn(kindOf, objs, trips)
  BY <1>1 DEF OfKind, FoundOn
<1> HIDE DEF kindOf
<1>3. Reports(Listed(FoundOn(kindOf, objs, trips)), FoundOn(kindOf, objs, trips))
  BY <1>1, FoundOnObjects
<1> QED
  BY <1>2, <1>3

\* What the detectors find on the objects of a kind, and on all.
OnPods       == analyzeWorkloadSecurity(res.pods)
OnWorkloads  == analyzeWorkloadSecurity(res.workloads)
OnPolicies == Judged("NetworkPolicy", res.networkPolicies, analyzeNetworkPolicy)
OnSCCs == Judged("SecurityContextConstraints", res.sccs, analyzeSecurityContextConstraint)
OnServices == Judged("Service", res.services, analyzeService)
OnIngresses == Judged("Ingress", res.ingresses, analyzeIngress)
OnRoutes == Judged("Route", res.routes, analyzeRoute)
OnSecrets == Judged("Secret", res.secrets, analyzeSecret)

OnObjects ==
  OnPods \cup OnWorkloads \cup OnPolicies \cup OnSCCs
    \cup OnServices \cup OnIngresses \cup OnRoutes \cup OnSecrets

\* The detectors report that, and nothing on a role (phases 3 to 7).
LEMMA DetectorsFound ==
  ASSUME res \in Inputs
  PROVE  Reports(DetectorFindings, OnObjects)
<1>1. Reports(Listed(OnPods), OnPods) /\ Reports(Listed(OnWorkloads), OnWorkloads)
  <2>1. ASSUME NEW objs \in {res.pods, res.workloads}
        PROVE  Reports(Listed(analyzeWorkloadSecurity(objs)), analyzeWorkloadSecurity(objs))
    <3> DEFINE kindOf == [obj \in objs |-> obj.kind]
               trips  == [obj \in objs |-> analyzeWorkloadSecurityObject(obj.doc, obj.kind)]
    <3>1. IsFiniteSet(objs) /\ \A obj \in objs : kindOf[obj] \notin {"ClusterRole", "Role"}
      BY InputFacts
    <3>2. \A obj \in objs : IsFiniteSet(trips[obj])
      BY TripsFinite
    <3>3. analyzeWorkloadSecurity(objs) = FoundOn(kindOf, objs, trips)
      BY DEF analyzeWorkloadSecurity, FoundOn
    <3> HIDE DEF kindOf, trips
    <3>4. Reports(Listed(FoundOn(kindOf, objs, trips)), FoundOn(kindOf, objs, trips))
      BY <3>1, <3>2, FoundOnObjects
    <3> QED
      BY <3>3, <3>4
  <2> QED
    BY <2>1 DEF OnPods, OnWorkloads
<1>2. Reports(Listed(OnPolicies), OnPolicies)
  <2> DEFINE trips == [obj \in res.networkPolicies |-> analyzeNetworkPolicy(obj.doc)]
  <2>1. \A obj \in res.networkPolicies : IsFiniteSet(trips[obj])
    BY TripsFinite
  <2>2. OnPolicies = OfKind("NetworkPolicy", res.networkPolicies, trips)
    BY DEF OnPolicies, Judged, OfKind
  <2> HIDE DEF trips
  <2>3. Reports(Listed(OfKind("NetworkPolicy", res.networkPolicies, trips)),
                OfKind("NetworkPolicy", res.networkPolicies, trips))
    BY <2>1, InputFacts, FoundOnOneKind
  <2> QED
    BY <2>2, <2>3
<1>3. Reports(Listed(OnSCCs), OnSCCs)
  <2> DEFINE trips == [obj \in res.sccs |-> analyzeSecurityContextConstraint(obj.doc)]
  <2>1. \A obj \in res.sccs : IsFiniteSet(trips[obj])
    BY TripsFinite
  <2>2. OnSCCs = OfKind("SecurityContextConstraints", res.sccs, trips)
    BY DEF OnSCCs, Judged, OfKind
  <2> HIDE DEF trips
  <2>3. Reports(Listed(OfKind("SecurityContextConstraints", res.sccs, trips)),
                OfKind("SecurityContextConstraints", res.sccs, trips))
    BY <2>1, InputFacts, FoundOnOneKind
  <2> QED
    BY <2>2, <2>3
<1>4. Reports(Listed(OnServices), OnServices)
  <2> DEFINE trips == [obj \in res.services |-> analyzeService(obj.doc)]
  <2>1. \A obj \in res.services : IsFiniteSet(trips[obj])
    BY TripsFinite
  <2>2. OnServices = OfKind("Service", res.services, trips)
    BY DEF OnServices, Judged, OfKind
  <2> HIDE DEF trips
  <2>3. Reports(Listed(OfKind("Service", res.services, trips)),
                OfKind("Service", res.services, trips))
    BY <2>1, InputFacts, FoundOnOneKind
  <2> QED
    BY <2>2, <2>3
<1>5. Reports(Listed(OnIngresses), OnIngresses)
  <2> DEFINE trips == [obj \in res.ingresses |-> analyzeIngress(obj.doc)]
  <2>1. \A obj \in res.ingresses : IsFiniteSet(trips[obj])
    BY TripsFinite
  <2>2. OnIngresses = OfKind("Ingress", res.ingresses, trips)
    BY DEF OnIngresses, Judged, OfKind
  <2> HIDE DEF trips
  <2>3. Reports(Listed(OfKind("Ingress", res.ingresses, trips)),
                OfKind("Ingress", res.ingresses, trips))
    BY <2>1, InputFacts, FoundOnOneKind
  <2> QED
    BY <2>2, <2>3
<1>6. Reports(Listed(OnRoutes), OnRoutes)
  <2> DEFINE trips == [obj \in res.routes |-> analyzeRoute(obj.doc)]
  <2>1. \A obj \in res.routes : IsFiniteSet(trips[obj])
    BY TripsFinite
  <2>2. OnRoutes = OfKind("Route", res.routes, trips)
    BY DEF OnRoutes, Judged, OfKind
  <2> HIDE DEF trips
  <2>3. Reports(Listed(OfKind("Route", res.routes, trips)),
                OfKind("Route", res.routes, trips))
    BY <2>1, InputFacts, FoundOnOneKind
  <2> QED
    BY <2>2, <2>3
<1>7. Reports(Listed(OnSecrets), OnSecrets)
  <2> DEFINE trips == [obj \in res.secrets |-> analyzeSecret(obj.doc)]
  <2>1. \A obj \in res.secrets : IsFiniteSet(trips[obj])
    BY TripsFinite
  <2>2. OnSecrets = OfKind("Secret", res.secrets, trips)
    BY DEF OnSecrets, Judged, OfKind
  <2> HIDE DEF trips
  <2>3. Reports(Listed(OfKind("Secret", res.secrets, trips)),
                OfKind("Secret", res.secrets, trips))
    BY <2>1, InputFacts, FoundOnOneKind
  <2> QED
    BY <2>2, <2>3
<1> DEFINE p  == Listed(OnPods)
           w  == Listed(OnWorkloads)
           l2 == Listed(OnPolicies)
           l3 == Listed(OnSCCs)
           l4 == Listed(OnServices)
           l5 == Listed(OnIngresses)
           l6 == Listed(OnRoutes)
           l7 == Listed(OnSecrets)
<1>8. DetectorFindings = p \o w \o l2 \o l3 \o l4 \o l5 \o l6 \o l7
  BY Zenon DEF DetectorFindings, OnPods, OnWorkloads, OnPolicies, OnSCCs, OnServices,
               OnIngresses, OnRoutes, OnSecrets
<1> HIDE DEF p, w, l2, l3, l4, l5, l6, l7
<1>9. \A a, other, S, T : Reports(a, S) /\ Reports(other, T) => Reports(a \o other, S \cup T)
  <2> SUFFICES ASSUME NEW a, NEW other, NEW S, NEW T, Reports(a, S), Reports(other, T)
               PROVE  Reports(a \o other, S \cup T)
    BY Zenon
  <2>1. HoldsOnce(a \o other, {} \cup {}) /\ ToSet(a \o other) = ToSet(a) \cup ToSet(other)
    BY Joined DEF Reports, HoldsOnce
  <2>2. {} \cup {} = {}
    OBVIOUS
  <2> QED
    BY <2>1, <2>2 DEF Reports
<1>10. Reports(p \o w \o l2 \o l3, OnPods \cup OnWorkloads \cup OnPolicies \cup OnSCCs)
  BY <1>1, <1>2, <1>3, <1>9 DEF p, w, l2, l3
<1>11. Reports(p \o w \o l2 \o l3 \o l4 \o l5 \o l6 \o l7, OnObjects)
  BY <1>4, <1>5, <1>6, <1>7, <1>9, <1>10 DEF OnObjects, l4, l5, l6, l7
<1> QED
  BY <1>8, <1>11
-----------------------------------------------------------------------------

\* All that is found on a Role.
OfRole(role) == NamespacedRoleFindings(role)

\* The roles the two ranges have behind them.
VisitedClusterRoles ==
  IF phase = "clusterRoles" THEN res.clusterRoles \ unvisited ELSE res.clusterRoles

VisitedRoles == IF phase = "clusterRoles" THEN {} ELSE res.roles \ unvisited

\* The findings on them.
OnVisited ==
  (UNION {OfClusterRole(cr) : cr \in VisitedClusterRoles})
  \cup (UNION {OfRole(role) : role \in VisitedRoles})

Users == res.pods \cup res.workloads

\* The walk of the chains is inside its lists, and has found nothing on a role.
ChainPlace ==
  /\ refs \in Seq(Users)
  /\ unread \subseteq Users
  /\ r \in Nat \ {0}
  /\ pc \in {"clusterBindings", "roleBindings"} => r <= Len(refs)
  /\ HoldsOnce(chainFindings, {})

\* The phases take the maps one after the other.
Place ==
  /\ res \in Inputs
  /\ phase \in Phases
  /\ unvisited \subseteq IF phase = "clusterRoles" THEN res.clusterRoles ELSE res.roles
  /\ phase \notin {"clusterRoles", "roles"} => unvisited = {}
  /\ phase \notin {"chains", "done"} => chainFindings = << >>

\* The inductive invariant: at every point of the run the findings on roles are
\* those on the roles visited, each at one place of the list.
IInv ==
  /\ Place
  /\ ChainPlace
  /\ HoldsOnce(findings, OnVisited)

\* A finding tells the role it is on.
LEMMA OnRoleFacts ==
  ASSUME res \in Inputs
  PROVE  /\ \A cr \in res.clusterRoles :
              /\ IsFiniteSet(ClusterRoleFindings(cr))
              /\ \A f \in ClusterRoleFindings(cr) : f.rule # "KC-015"
              /\ \A f \in OfClusterRole(cr) : f.kind = "ClusterRole" /\ f.name = cr.name
         /\ \A role \in res.roles :
              /\ IsFiniteSet(OfRole(role))
              /\ \A f \in OfRole(role) :
                   f.kind = "Role" /\ f.name = role.name /\ f.namespace = role.namespace
<1>1. \A role \in res.clusterRoles \cup res.roles : KeysOf(role) \subseteq Keys
  BY KeysOfRules DEF KeysOf
<1>2. ASSUME NEW cr \in res.clusterRoles
      PROVE  /\ IsFiniteSet(ClusterRoleFindings(cr))
             /\ \A f \in ClusterRoleFindings(cr) : f.rule # "KC-015"
             /\ \A f \in OfClusterRole(cr) : f.kind = "ClusterRole" /\ f.name = cr.name
  <2>1. cr.rules \in Seq(Rule)
    BY InputFacts
  <2>2. /\ IsFiniteSet(ClusterRoleFindings(cr))
        /\ \A f \in ClusterRoleFindings(cr) :
             \E key \in KeysOf(cr) :
               IsCheck(f, cr, "ClusterRole", resolveClusterRoleScope(cr.name), FALSE, key)
    BY <2>1, CheckedFacts DEF ClusterRoleFindings
  <2>3. \A f \in ClusterRoleFindings(cr) :
          f.rule # "KC-015" /\ f.kind = "ClusterRole" /\ f.name = cr.name
    BY <1>1, <2>2, KeyNames DEF IsCheck
  <2>4. AggregatedFinding(cr).kind = "ClusterRole" /\ AggregatedFinding(cr).name = cr.name
    BY DEF AggregatedFinding, newFinding
  <2> QED
    BY <2>2, <2>3, <2>4 DEF OfClusterRole
<1>3. ASSUME NEW role \in res.roles
      PROVE  /\ IsFiniteSet(OfRole(role))
             /\ \A f \in OfRole(role) :
                  f.kind = "Role" /\ f.name = role.name /\ f.namespace = role.namespace
  <2>1. role.rules \in Seq(Rule)
    BY InputFacts
  <2>2. /\ IsFiniteSet(OfRole(role))
        /\ \A f \in OfRole(role) :
             \E key \in KeysOf(role) :
               IsCheck(f, role, "Role", resolveRoleScope(role), TRUE, key)
    BY <2>1, CheckedFacts DEF OfRole, NamespacedRoleFindings
  <2> QED
    BY <2>2 DEF IsCheck
<1> QED
  BY <1>2, <1>3

\* The analysis begins with nothing visited and nothing found.
LEMMA AnalysisBegins == Init => IInv
<1> SUFFICES ASSUME Init PROVE IInv
  OBVIOUS
<1>1. /\ res \in Inputs /\ pc = "pods" /\ unread = res.pods /\ refs = << >> /\ r = 1
      /\ chainFindings = << >> /\ findings = << >> /\ unvisited = res.clusterRoles
      /\ phase = IF IsEmpty(res) THEN "done" ELSE "clusterRoles"
  BY DEF Init, Chains!Init
<1>2. phase = "done" => res.clusterRoles = {} /\ res.roles = {}
  BY <1>1 DEF IsEmpty
<1>3. HoldsOnce(<< >>, {})
  BY DEF HoldsOnce, ToSet
<1>4. OnVisited = {}
  BY <1>1, <1>2 DEF OnVisited, VisitedClusterRoles, VisitedRoles
<1>5. Place
  BY <1>1, <1>2 DEF Place, Phases
<1>6. ChainPlace
  BY <1>1, <1>3 DEF ChainPlace, Users
<1> QED
  BY <1>1, <1>3, <1>4, <1>5, <1>6 DEF IInv

\* A finding of a walk over pods, workloads and bindings is on no role.
LEMMA OneMoreChain ==
  ASSUME NEW list, HoldsOnce(list, {}), NEW f, ~OnRole(f)
  PROVE  HoldsOnce(Chains!appendIfNew(list, f), {})
<1>1. HoldsOnce(<<f>>, {})
  BY DEF HoldsOnce, ToSet
<1>2. Append(list, f) = list \o <<f>>
  <2>1. list \in Seq(ToSet(list) \cup {f})
    BY DEF HoldsOnce
  <2> QED
    BY <2>1
<1>3. HoldsOnce(Append(list, f), {} \cup {})
  BY <1>1, <1>2, Joined
<1>4. {} \cup {} = {}
  OBVIOUS
<1> QED
  BY <1>3, <1>4 DEF Chains!appendIfNew

\* No step of the walk over the chains finds anything on a role.
LEMMA WalkKeeps ==
  ASSUME IInv, Chains!Next
  PROVE  ChainPlace'
<1> USE DEF IInv
<1>0. res' = res /\ Users' = Users
  BY DEF Chains!Next, Chains!CollectRef, Chains!EndPods, Chains!EndWorkloads,
         Chains!CheckClusterRoleBinding, Chains!EndClusterRoleBindings,
         Chains!CheckRoleBinding, Chains!EndRoleBindings,
         Chains!CheckStandalone, Chains!EndStandalone, Users
<1>1. CASE Chains!CollectRef
  <2>1. PICK entry \in unread : unread' = unread \ {entry} /\ refs' = Append(refs, entry)
    BY <1>1 DEF Chains!CollectRef
  <2>2. entry \in Users
    BY DEF ChainPlace
  <2>3. refs' \in Seq(Users) /\ unread' \subseteq Users
    BY <2>1, <2>2 DEF ChainPlace
  <2> QED
    BY <1>0, <1>1, <2>3 DEF ChainPlace, Chains!CollectRef
<1>2. CASE Chains!EndPods
  BY <1>0, <1>2 DEF ChainPlace, Chains!EndPods, Users
<1>3. CASE Chains!EndWorkloads
  BY <1>0, <1>3 DEF ChainPlace, Chains!EndWorkloads, Chains!AtRef
<1>4. CASE Chains!CheckClusterRoleBinding
  <2>1. refs[r] \in Users /\ r \in Nat
    BY <1>4 DEF ChainPlace, Chains!CheckClusterRoleBinding
  <2>2. ~OnRole(Chains!ClusterAdminFinding(refs[r], res.clusterRoleBindings[b]))
    BY <2>1, InputFacts DEF Users, OnRole, Place, Chains!ClusterAdminFinding
  <2>3. HoldsOnce(chainFindings', {})
    BY <1>4, <2>2, OneMoreChain
    DEF ChainPlace, Chains!CheckClusterRoleBinding, Chains!ref, Chains!crb
  <2> QED
    BY <1>0, <1>4, <2>3 DEF ChainPlace, Chains!CheckClusterRoleBinding
<1>5. CASE Chains!EndClusterRoleBindings
  BY <1>0, <1>5 DEF ChainPlace, Chains!EndClusterRoleBindings
<1>6. ASSUME NEW users
      PROVE  ~OnRole(Chains!RoleBindingFinding(res.roleBindings[b], users))
  BY DEF OnRole, Chains!RoleBindingFinding
<1>7. CASE Chains!CheckRoleBinding
  <2>1. HoldsOnce(chainFindings', {})
    BY <1>6, <1>7, OneMoreChain DEF ChainPlace, Chains!CheckRoleBinding, Chains!rb
  <2> QED
    BY <1>0, <1>7, <2>1 DEF ChainPlace, Chains!CheckRoleBinding
<1>8. CASE Chains!EndRoleBindings
  BY <1>0, <1>8 DEF ChainPlace, Chains!EndRoleBindings, Chains!AtRef
<1>9. CASE Chains!CheckStandalone
  <2>1. HoldsOnce(chainFindings', {})
    BY <1>6, <1>9, OneMoreChain DEF ChainPlace, Chains!CheckStandalone, Chains!rb
  <2> QED
    BY <1>0, <1>9, <2>1 DEF ChainPlace, Chains!CheckStandalone
<1>10. CASE Chains!EndStandalone
  BY <1>0, <1>10 DEF ChainPlace, Chains!EndStandalone
<1> QED
  BY <1>1, <1>2, <1>3, <1>4, <1>5, <1>7, <1>8, <1>9, <1>10 DEF Chains!Next

\* A visit of a ClusterRole adds what is found on it.  appendIfNew really appends: no
\* other ClusterRole has its name.
LEMMA ClusterRoleKeeps ==
  ASSUME IInv, VisitClusterRole
  PROVE  IInv'
<1> USE DEF IInv
<1>1. PICK cr \in unvisited :
        /\ unvisited' = unvisited \ {cr}
        /\ findings' = (IF cr.aggregated THEN appendIfNew(findings, AggregatedFinding(cr))
                        ELSE findings) \o Listed(ClusterRoleFindings(cr))
  BY DEF VisitClusterRole
<1>2. phase = "clusterRoles" /\ UNCHANGED <<res, phase, chain>>
  BY DEF VisitClusterRole
<1>3. cr \in res.clusterRoles /\ res \in Inputs
  BY <1>2 DEF Place
<1>4. ChainPlace'
  BY <1>2 DEF ChainPlace, chain, Users
<1>5. Place'
  BY <1>1, <1>2 DEF Place, Phases, chain
<1>6. \A f \in OnVisited : ~(f.kind = "ClusterRole" /\ f.name = cr.name)
  <2>1. \A other \in res.clusterRoles \ unvisited : \A f \in OfClusterRole(other) : f.name # cr.name
    BY <1>3, OnRoleFacts, InputFacts
  <2> QED
    BY <1>2, <2>1 DEF OnVisited, VisitedClusterRoles, VisitedRoles
<1> DEFINE begun == IF cr.aggregated THEN appendIfNew(findings, AggregatedFinding(cr)) ELSE findings
           agg   == IF cr.aggregated THEN {AggregatedFinding(cr)} ELSE {}
<1>7. HoldsOnce(begun, OnVisited \cup agg)
  <2>1. CASE ~cr.aggregated
    BY <2>1
  <2>2. CASE cr.aggregated
    <3> DEFINE new == AggregatedFinding(cr)
    <3>1. /\ new.kind = "ClusterRole" /\ new.name = cr.name /\ OnRole(new)
          /\ Fingerprint(new)[2] = new.kind /\ Fingerprint(new)[3] = new.name
      BY DEF AggregatedFinding, newFinding, OnRole, Fingerprint
    <3>2. \A f : Fingerprint(f)[2] = f.kind /\ Fingerprint(f)[3] = f.name
      BY DEF Fingerprint
    <3>3. \A f \in ToSet(findings) : Fingerprint(f) # Fingerprint(new)
      <4> SUFFICES ASSUME NEW f \in ToSet(findings), Fingerprint(f) = Fingerprint(new) PROVE FALSE
        OBVIOUS
      <4>1. f.kind = "ClusterRole" /\ f.name = cr.name
        BY <3>1, <3>2
      <4>2. f \in OnVisited
        BY <4>1 DEF HoldsOnce, OnRole
      <4> QED
        BY <1>6, <4>1, <4>2
    <3>4. Fingerprint(new) \notin Fingerprints(findings)
      BY <3>3 DEF Fingerprints, ToSet
    <3>5. new \notin OnVisited
      BY <1>6, <3>1
    <3> HIDE DEF new
    <3>6. HoldsOnce(Append(findings, new), OnVisited \cup {new})
      BY <3>1, <3>5, OneAppended
    <3> QED
      BY <2>2, <3>4, <3>6 DEF appendIfNew, new
  <2> QED
    BY <2>1, <2>2
<1>8. HoldsOnce(Listed(ClusterRoleFindings(cr)), ClusterRoleFindings(cr))
  <2>1. IsFiniteSet(ClusterRoleFindings(cr))
    BY <1>3, OnRoleFacts
  <2>2. \A f \in ClusterRoleFindings(cr) : OnRole(f)
    BY <1>3, OnRoleFacts DEF OnRole, OfClusterRole
  <2>3. {f \in ClusterRoleFindings(cr) : OnRole(f)} = ClusterRoleFindings(cr)
    BY <2>2
  <2>4. HoldsOnce(Listed(ClusterRoleFindings(cr)), {f \in ClusterRoleFindings(cr) : OnRole(f)})
    BY <2>1, Disjoined
  <2> QED
    BY <2>3, <2>4
<1>9. (OnVisited \cup agg) \cap ClusterRoleFindings(cr) = {}
  <2>1. \A f \in ClusterRoleFindings(cr) :
          f.rule # "KC-015" /\ f.kind = "ClusterRole" /\ f.name = cr.name
    BY <1>3, OnRoleFacts DEF OfClusterRole
  <2>2. AggregatedFinding(cr).rule = "KC-015"
    BY DEF AggregatedFinding, newFinding
  <2> QED
    BY <1>6, <2>1, <2>2
<1>10. OnVisited' = (OnVisited \cup agg) \cup ClusterRoleFindings(cr)
  <2>1. VisitedClusterRoles' = VisitedClusterRoles \cup {cr}
    BY <1>1, <1>2, <1>3 DEF VisitedClusterRoles
  <2>2. VisitedRoles = {} /\ VisitedRoles' = {}
    BY <1>2 DEF VisitedRoles
  <2>3. \A x : OfClusterRole(x)' = OfClusterRole(x)
    BY <1>2 DEF OfClusterRole, ClusterRoleFindings, resolveClusterRoleScope
  <2>4. OfClusterRole(cr) = ClusterRoleFindings(cr) \cup agg
    BY DEF OfClusterRole
  <2> HIDE DEF agg
  <2>5. OnVisited = UNION {OfClusterRole(x) : x \in VisitedClusterRoles}
    BY <2>2 DEF OnVisited
  <2>6. OnVisited' = UNION {OfClusterRole(x) : x \in VisitedClusterRoles \cup {cr}}
    BY <2>1, <2>2, <2>3 DEF OnVisited
  <2> QED
    BY <2>4, <2>5, <2>6
<1>11. HoldsOnce(findings', OnVisited')
  <2>1. findings' = begun \o Listed(ClusterRoleFindings(cr))
    BY <1>1
  <2> HIDE DEF begun, agg
  <2> QED
    BY <1>7, <1>8, <1>9, <1>10, <2>1, Joined
<1> QED
  BY <1>4, <1>5, <1>11 DEF HoldsOnce

\* A visit of a Role adds what is found on it.
LEMMA RoleKeeps ==
  ASSUME IInv, VisitRole
  PROVE  IInv'
<1> USE DEF IInv
<1>1. PICK role \in unvisited :
        /\ unvisited' = unvisited \ {role}
        /\ findings' = findings \o Listed(NamespacedRoleFindings(role))
  BY DEF VisitRole
<1>2. phase = "roles" /\ UNCHANGED <<res, phase, chain>>
  BY DEF VisitRole
<1>3. role \in res.roles /\ res \in Inputs
  BY <1>2 DEF Place
<1>4. ChainPlace'
  BY <1>2 DEF ChainPlace, chain, Users
<1>5. Place'
  BY <1>1, <1>2 DEF Place, Phases, chain
<1>6. \A f \in OnVisited :
        ~(f.kind = "Role" /\ f.name = role.name /\ f.namespace = role.namespace)
  <2>1. \A other \in res.roles \ unvisited : \A f \in OfRole(other) :
          ~(f.name = role.name /\ f.namespace = role.namespace)
    BY <1>3, OnRoleFacts, InputFacts
  <2>2. \A cr \in res.clusterRoles : \A f \in OfClusterRole(cr) : f.kind # "Role"
    BY <1>3, OnRoleFacts
  <2> QED
    BY <1>2, <2>1, <2>2 DEF OnVisited, VisitedClusterRoles, VisitedRoles
<1>7. HoldsOnce(Listed(OfRole(role)), OfRole(role))
  <2>1. IsFiniteSet(OfRole(role))
    BY <1>3, OnRoleFacts
  <2>2. \A f \in OfRole(role) : OnRole(f)
    BY <1>3, OnRoleFacts DEF OnRole
  <2>3. {f \in OfRole(role) : OnRole(f)} = OfRole(role)
    BY <2>2
  <2>4. HoldsOnce(Listed(OfRole(role)), {f \in OfRole(role) : OnRole(f)})
    BY <2>1, Disjoined
  <2> QED
    BY <2>3, <2>4
<1>8. OnVisited \cap OfRole(role) = {}
  BY <1>3, <1>6, OnRoleFacts
<1>9. OnVisited' = OnVisited \cup OfRole(role)
  <2>1. VisitedRoles' = VisitedRoles \cup {role}
    BY <1>1, <1>2, <1>3 DEF VisitedRoles
  <2>2. VisitedClusterRoles' = VisitedClusterRoles
    BY <1>2 DEF VisitedClusterRoles
  <2>3. \A x : OfClusterRole(x)' = OfClusterRole(x)
    BY <1>2 DEF OfClusterRole, ClusterRoleFindings, resolveClusterRoleScope
  <2>4. \A x : OfRole(x)' = OfRole(x)
    BY <1>2 DEF OfRole, NamespacedRoleFindings, resolveRoleScope
  <2>5. OnVisited' = (UNION {OfClusterRole(x) : x \in VisitedClusterRoles})
                       \cup (UNION {OfRole(x) : x \in VisitedRoles \cup {role}})
    BY <2>1, <2>2, <2>3, <2>4 DEF OnVisited
  <2> QED
    BY <2>5 DEF OnVisited
<1>10. HoldsOnce(findings', OnVisited')
  <2>1. findings' = findings \o Listed(OfRole(role))
    BY <1>1 DEF OfRole
  <2> QED
    BY <1>7, <1>8, <1>9, <2>1, Joined
<1> QED
  BY <1>4, <1>5, <1>10 DEF HoldsOnce

\* The steps that visit no role and walk no chain.
LEMMA PhaseKeeps ==
  ASSUME IInv, EndClusterRoles \/ EndRoles \/ RunDetectors \/ AppendChains
  PROVE  IInv'
<1> USE DEF IInv
<1>1. UNCHANGED <<res, chain>> /\ ChainPlace'
  BY DEF EndClusterRoles, EndRoles, RunDetectors, AppendChains, ChainPlace, chain, Users
<1>2. Place'
  BY <1>1 DEF EndClusterRoles, EndRoles, RunDetectors, AppendChains, Place, Phases, chain
<1>3. OnVisited' = OnVisited
  <2>1. VisitedClusterRoles' = VisitedClusterRoles
    BY <1>1 DEF EndClusterRoles, EndRoles, RunDetectors, AppendChains, VisitedClusterRoles
  <2>2. VisitedRoles' = VisitedRoles
    BY <1>1 DEF EndClusterRoles, EndRoles, RunDetectors, AppendChains, VisitedRoles
  <2>3. \A x : OfClusterRole(x)' = OfClusterRole(x)
    BY <1>1 DEF OfClusterRole, ClusterRoleFindings, resolveClusterRoleScope
  <2>4. \A x : OfRole(x)' = OfRole(x)
    BY <1>1 DEF OfRole, NamespacedRoleFindings, resolveRoleScope
  <2> QED
    BY <2>1, <2>2, <2>3, <2>4 DEF OnVisited
<1>4. \A list : HoldsOnce(list, {}) => HoldsOnce(findings \o list, OnVisited)
  <2> SUFFICES ASSUME NEW list, HoldsOnce(list, {})
               PROVE  HoldsOnce(findings \o list, OnVisited)
    BY Zenon
  <2>1. HoldsOnce(findings \o list, OnVisited \cup {})
    BY Joined
  <2>2. OnVisited \cup {} = OnVisited
    OBVIOUS
  <2> QED
    BY <2>1, <2>2
<1>5. HoldsOnce(findings', OnVisited)
  <2>1. CASE EndClusterRoles \/ EndRoles
    BY <2>1 DEF EndClusterRoles, EndRoles
  <2>2. CASE RunDetectors
    BY <1>4, <2>2, DetectorsFound DEF RunDetectors, Place, Reports
  <2>3. CASE AppendChains
    BY <1>4, <2>3 DEF AppendChains, ChainPlace
  <2> QED
    BY <2>1, <2>2, <2>3
<1> QED
  BY <1>1, <1>2, <1>3, <1>5 DEF HoldsOnce

\* Whatever order the maps are visited in, the findings on roles are those on the
\* roles visited so far, none of them lost or doubled by the phases that follow.
THEOREM AnalysisInvariant == Spec => []IInv
<1>1. ASSUME IInv, WalkChains PROVE IInv'
  <2>1. ChainPlace'
    BY <1>1, WalkKeeps DEF WalkChains
  <2>2. UNCHANGED own /\ res' = res /\ phase = "chains"
    BY <1>1 DEF WalkChains, Chains!Next, Chains!CollectRef, Chains!EndPods, Chains!EndWorkloads,
         Chains!CheckClusterRoleBinding, Chains!EndClusterRoleBindings,
         Chains!CheckRoleBinding, Chains!EndRoleBindings,
         Chains!CheckStandalone, Chains!EndStandalone
  <2>3. Place'
    BY <1>1, <2>2 DEF IInv, Place, own
  <2>4. OnVisited' = OnVisited
    BY <2>2 DEF OnVisited, VisitedClusterRoles, VisitedRoles, own,
                OfClusterRole, ClusterRoleFindings, resolveClusterRoleScope,
                OfRole, NamespacedRoleFindings, resolveRoleScope
  <2> QED
    BY <1>1, <2>1, <2>2, <2>3, <2>4 DEF IInv, HoldsOnce, own
<1>2. ASSUME IInv, UNCHANGED vars PROVE IInv'
  <2>1. UNCHANGED <<res, own, chain>> /\ UNCHANGED <<phase, unvisited, findings>>
    BY <1>2 DEF vars, own
  <2>2. UNCHANGED <<pc, unread, refs, r, b, chainFindings>>
    BY <2>1 DEF chain
  <2>3. OnVisited' = OnVisited
    BY <2>1 DEF OnVisited, VisitedClusterRoles, VisitedRoles,
                OfClusterRole, ClusterRoleFindings, resolveClusterRoleScope,
                OfRole, NamespacedRoleFindings, resolveRoleScope
  <2>4. Place' /\ ChainPlace'
    BY <1>2, <2>1, <2>2 DEF IInv, Place, ChainPlace, Users, HoldsOnce
  <2> QED
    BY <1>2, <2>1, <2>3, <2>4 DEF IInv, HoldsOnce
<1>3. IInv /\ [Next]_vars => IInv'
  BY <1>1, <1>2, ClusterRoleKeeps, RoleKeeps, PhaseKeeps DEF Next
<1> QED
  BY AnalysisBegins, <1>3, PTL DEF Spec
-----------------------------------------------------------------------------

\* When Analyze returns, every role has been visited.
LEMMA AtReturn ==
  ASSUME IInv, Returned
  PROVE  /\ res \in Inputs
         /\ HoldsOnce(findings, OnVisited)
         /\ OnVisited = (UNION {OfClusterRole(cr) : cr \in res.clusterRoles})
                          \cup (UNION {OfRole(role) : role \in res.roles})
<1>1. VisitedClusterRoles = res.clusterRoles /\ VisitedRoles = res.roles
  BY DEF IInv, Returned, Place, VisitedClusterRoles, VisitedRoles
<1> QED
  BY <1>1 DEF IInv, Place, OnVisited

\* What is then found about a role is what its rules trip.
LEMMA FoundAbout ==
  ASSUME IInv, Returned
  PROVE  /\ \A cr \in res.clusterRoles : \A f \in About("ClusterRole", cr) :
              \E wildcard \in BOOLEAN :
                f.severity = Rated(resolveClusterRoleScope(cr.name), FALSE, wildcard)
         /\ \A role \in res.roles : \A f \in About("Role", role) :
              \E wildcard \in BOOLEAN :
                f.severity = Rated(resolveRoleScope(role), TRUE, wildcard)
<1>1. ASSUME NEW cr \in res.clusterRoles, NEW f \in About("ClusterRole", cr)
      PROVE  \E wildcard \in BOOLEAN :
               f.severity = Rated(resolveClusterRoleScope(cr.name), FALSE, wildcard)
  <2>1. f \in ToSet(findings) /\ f.kind = "ClusterRole" /\ f.name = cr.name /\ f.rule # "KC-015"
    BY <1>1 DEF About
  <2>2. f \in OnVisited
    BY <2>1, AtReturn DEF HoldsOnce, OnRole
  <2>3. \A role \in res.roles : f \notin OfRole(role)
    BY <2>1, AtReturn, OnRoleFacts
  <2>4. PICK other \in res.clusterRoles : f \in OfClusterRole(other)
    BY <2>2, <2>3, AtReturn
  <2>5. other = cr
    BY <2>1, <2>4, AtReturn, OnRoleFacts, InputFacts
  <2>6. AggregatedFinding(cr).rule = "KC-015"
    BY DEF AggregatedFinding, newFinding
  <2>7. f \in ClusterRoleFindings(cr)
    BY <2>1, <2>4, <2>5, <2>6 DEF OfClusterRole
  <2>8. cr.rules \in Seq(Rule)
    BY AtReturn, InputFacts
  <2>9. PICK key \in KeysOf(cr) :
          IsCheck(f, cr, "ClusterRole", resolveClusterRoleScope(cr.name), FALSE, key)
    BY <2>7, <2>8, CheckedFacts DEF ClusterRoleFindings
  <2> QED
    BY <2>9 DEF IsCheck
<1>2. ASSUME NEW role \in res.roles, NEW f \in About("Role", role)
      PROVE  \E wildcard \in BOOLEAN : f.severity = Rated(resolveRoleScope(role), TRUE, wildcard)
  <2>1. /\ f \in ToSet(findings) /\ f.kind = "Role"
        /\ f.name = role.name /\ f.namespace = role.namespace
    BY <1>2 DEF About
  <2>2. f \in OnVisited
    BY <2>1, AtReturn DEF HoldsOnce, OnRole
  <2>3. \A cr \in res.clusterRoles : f \notin OfClusterRole(cr)
    BY <2>1, AtReturn, OnRoleFacts
  <2>4. PICK other \in res.roles : f \in OfRole(other)
    BY <2>2, <2>3, AtReturn
  <2>5. other = role
    BY <2>1, <2>4, AtReturn, OnRoleFacts, InputFacts
  <2>6. role.rules \in Seq(Rule)
    BY AtReturn, InputFacts
  <2>7. PICK key \in KeysOf(role) : IsCheck(f, role, "Role", resolveRoleScope(role), TRUE, key)
    BY <2>4, <2>5, <2>6, CheckedFacts DEF OfRole, NamespacedRoleFindings
  <2> QED
    BY <2>7 DEF IsCheck
<1> QED
  BY <1>1, <1>2

\* The resolved scope is the relation "is handed out" of the contract.
LEMMA ScopeIsHandsOut ==
  ASSUME NEW role
  PROVE  LET wide   == HandsOut("ClusterRole", role).everywhere
             narrow == HandsOut("ClusterRole", role).somewhere
             inOwn   == HandsOut("Role", role).somewhere
         IN  /\ wide \in BOOLEAN /\ narrow \in BOOLEAN /\ inOwn \in BOOLEAN
             /\ resolveClusterRoleScope(role.name) = ScopeOf(wide, narrow)
             /\ resolveRoleScope(role) = ScopeOf(FALSE, inOwn)
<1>1. (\E x \in ToSet(res.clusterRoleBindings) : RefersTo(x, "ClusterRole", role.name))
        = HandsOut("ClusterRole", role).everywhere
  BY DEF RefersTo, HandsOut
<1>2. (\E x \in ToSet(res.roleBindings) : RefersTo(x, "ClusterRole", role.name))
        = HandsOut("ClusterRole", role).somewhere
  BY DEF RefersTo, HandsOut
<1>3. (\E x \in ToSet(res.roleBindings) :
         RefersTo(x, "Role", role.name) /\ x.namespace = role.namespace)
        = HandsOut("Role", role).somewhere
  BY DEF RefersTo, HandsOut
<1>4. HandsOut("ClusterRole", role).everywhere \in BOOLEAN
      /\ HandsOut("ClusterRole", role).somewhere \in BOOLEAN
      /\ HandsOut("Role", role).somewhere \in BOOLEAN
  BY DEF HandsOut
<1>5. resolveClusterRoleScope(role.name)
        = ScopeOf(HandsOut("ClusterRole", role).everywhere, HandsOut("ClusterRole", role).somewhere)
  BY <1>1, <1>2, Zenon DEF resolveClusterRoleScope
<1>6. resolveRoleScope(role) = ScopeOf(FALSE, HandsOut("Role", role).somewhere)
  BY <1>3, Zenon DEF resolveRoleScope
<1> QED
  BY <1>4, <1>5, <1>6

\* The severity table, by scope.
LEMMA Rates ==
  ASSUME NEW scope, NEW w \in BOOLEAN
  PROVE  /\ scope.Unbound => computeSeverity(scope, w) = SeverityInfo
         /\ ~scope.Unbound /\ scope.ClusterWide =>
              computeSeverity(scope, w) \in {SeverityHigh, SeverityCritical}
         /\ ~scope.Unbound /\ ~scope.ClusterWide /\ scope.NamespaceScoped =>
              computeSeverity(scope, w) \in {SeverityWarning, SeverityHigh}
BY DEF computeSeverity, SeverityInfo, SeverityWarning, SeverityHigh, SeverityCritical

\* The rating of a finding, by scope.
LEMMA Ratings ==
  ASSUME NEW wide \in BOOLEAN, NEW narrow \in BOOLEAN, NEW w \in BOOLEAN
  PROVE  /\ Rated(ScopeOf(wide, narrow), FALSE, w) \in
              IF wide THEN {SeverityHigh, SeverityCritical}
              ELSE IF narrow THEN {SeverityWarning, SeverityHigh} ELSE {SeverityInfo}
         /\ Rated(ScopeOf(FALSE, narrow), TRUE, w) =
              IF narrow THEN SeverityWarning ELSE SeverityInfo
<1>1. ASSUME NEW any \in BOOLEAN
      PROVE  LET scope == ScopeOf(any, narrow)
             IN  /\ scope.Unbound <=> ~(any \/ narrow)
                 /\ scope.ClusterWide <=> any
                 /\ scope.NamespaceScoped <=> narrow
  BY DEF ScopeOf
<1>2. computeSeverity(ScopeOf(wide, narrow), w) \in
        IF wide THEN {SeverityHigh, SeverityCritical}
        ELSE IF narrow THEN {SeverityWarning, SeverityHigh} ELSE {SeverityInfo}
  BY <1>1, Rates
<1>3. computeSeverity(ScopeOf(FALSE, narrow), w) \in
        IF narrow THEN {SeverityWarning, SeverityHigh} ELSE {SeverityInfo}
  <2>1. FALSE \in BOOLEAN
    OBVIOUS
  <2> QED
    BY <1>1, <2>1, Rates
<1>4. Rated(ScopeOf(wide, narrow), FALSE, w) = computeSeverity(ScopeOf(wide, narrow), w)
  BY DEF Rated
<1>5. Rated(ScopeOf(FALSE, narrow), TRUE, w)
        = capSeverity(computeSeverity(ScopeOf(FALSE, narrow), w), SeverityWarning)
  BY DEF Rated
<1>6. capSeverity(SeverityInfo, SeverityWarning) = SeverityInfo
      /\ capSeverity(SeverityWarning, SeverityWarning) = SeverityWarning
      /\ capSeverity(SeverityHigh, SeverityWarning) = SeverityWarning
  BY DEF capSeverity, SeverityInfo, SeverityWarning, SeverityHigh
<1> QED
  BY <1>2, <1>3, <1>4, <1>5, <1>6

\* The severity model holds across roles and bindings, for any roles and bindings: INFO
\* exactly for a role nobody is given, HIGH or more for what is given in every
\* namespace, CRITICAL only for that, and a Role is never above WARNING.
THEOREM SeveritiesFollow == Spec => []SeverityFollowsBindings
<1>1. IInv => SeverityFollowsBindings
  <2> SUFFICES ASSUME IInv, Returned PROVE SeverityFollowsBindings
    BY DEF SeverityFollowsBindings
  <2>1. ASSUME NEW cr \in res.clusterRoles, NEW f \in About("ClusterRole", cr)
        PROVE  LET given == HandsOut("ClusterRole", cr)
               IN  /\ f.severity = SeverityInfo <=> ~(given.everywhere \/ given.somewhere)
                   /\ given.everywhere => f.severity >= SeverityHigh
                   /\ f.severity = SeverityCritical => given.everywhere
    <3> DEFINE wide   == HandsOut("ClusterRole", cr).everywhere
               narrow == HandsOut("ClusterRole", cr).somewhere
    <3>1. PICK w \in BOOLEAN : f.severity = Rated(resolveClusterRoleScope(cr.name), FALSE, w)
      BY <2>1, FoundAbout
    <3>2. /\ wide \in BOOLEAN /\ narrow \in BOOLEAN
          /\ f.severity = Rated(ScopeOf(wide, narrow), FALSE, w)
      BY <3>1, ScopeIsHandsOut
    <3> HIDE DEF wide, narrow
    <3>3. f.severity \in
            IF wide THEN {SeverityHigh, SeverityCritical}
            ELSE IF narrow THEN {SeverityWarning, SeverityHigh} ELSE {SeverityInfo}
      BY <3>2, Ratings
    <3>4. /\ f.severity = SeverityInfo <=> ~(wide \/ narrow)
          /\ wide => f.severity >= SeverityHigh
          /\ f.severity = SeverityCritical => wide
      BY <3>3 DEF SeverityInfo, SeverityWarning, SeverityHigh, SeverityCritical
    <3> QED
      BY <3>4 DEF wide, narrow
  <2>2. ASSUME NEW role \in res.roles, NEW f \in About("Role", role)
        PROVE  f.severity = IF HandsOut("Role", role).somewhere THEN SeverityWarning
                            ELSE SeverityInfo
    <3> DEFINE narrow == HandsOut("Role", role).somewhere
    <3>1. PICK w \in BOOLEAN : f.severity = Rated(resolveRoleScope(role), TRUE, w)
      BY <2>2, FoundAbout
    <3>2. narrow \in BOOLEAN /\ f.severity = Rated(ScopeOf(FALSE, narrow), TRUE, w)
      BY <3>1, ScopeIsHandsOut
    <3> HIDE DEF narrow
    <3>3. f.severity = IF narrow THEN SeverityWarning ELSE SeverityInfo
      BY <3>2, Ratings
    <3> QED
      BY <3>3 DEF narrow
  <2> QED
    BY <2>1, <2>2, Zenon DEF SeverityFollowsBindings
<1> QED
  BY AnalysisInvariant, <1>1, PTL
-----------------------------------------------------------------------------

\* KC-015 as CheckOf has it.
AggregatedCheck(cr) ==
  <<"KC-015", [check |-> "aggregationRule"], "ClusterRole", cr.name, Core, cr.file>>

\* A check on a role as CheckOf has it.
CheckRow(key, kind, role, namespace) ==
  <<RuleOf(key), [check |-> key], kind, role.name, namespace, role.file>>

\* What CheckOf keeps of a finding.
LEMMA CheckFields ==
  ASSUME NEW f, NEW g
  PROVE  CheckOf(f) = CheckOf(g) =>
           /\ f.rule = g.rule /\ f.description = g.description /\ f.kind = g.kind
           /\ f.name = g.name /\ f.namespace = g.namespace
BY DEF CheckOf

\* checkRules reports what the contract expects of the rules.
LEMMA ChecksOf ==
  ASSUME NEW role, role.rules \in Seq(Rule), NEW kind, NEW scope, NEW isNamespaced
  PROVE  {CheckOf(f) : f \in checkRules(role, kind, scope, isNamespaced)}
           = {CheckRow(key, kind, role, role.namespace) : key \in KeysOf(role)}
<1> DEFINE F == checkRules(role, kind, scope, isNamespaced)
           C == {CheckOf(f) : f \in F}
           E == {CheckRow(key, kind, role, role.namespace) : key \in KeysOf(role)}
<1>1. \A f, key : IsCheck(f, role, kind, scope, isNamespaced, key)
                    => CheckOf(f) = CheckRow(key, kind, role, role.namespace)
  BY DEF IsCheck, CheckOf, CheckRow
<1>2. ASSUME NEW f \in F PROVE CheckOf(f) \in E
  <2>1. PICK key \in KeysOf(role) : IsCheck(f, role, kind, scope, isNamespaced, key)
    BY CheckedFacts
  <2> QED
    BY <1>1, <2>1
<1>3. ASSUME NEW key \in KeysOf(role) PROVE CheckRow(key, kind, role, role.namespace) \in C
  <2>1. PICK f \in F : IsCheck(f, role, kind, scope, isNamespaced, key)
    BY CheckedFacts
  <2> QED
    BY <1>1, <2>1
<1> QED
  BY <1>2, <1>3

\* The expectation in the same form.
LEMMA ExpectedRows ==
  ASSUME NEW kind, NEW role, NEW namespace
  PROVE  ExpectedOf(kind, role, namespace)
           = {CheckRow(key, kind, role, namespace) : key \in KeysOf(role)}
BY DEF ExpectedOf, CheckRow, KeysOf

\* The roles' part of Expected, with the name of the empty namespace.
LEMMA ExpectedUnfolded ==
  Expected = (UNION {ExpectedOf("ClusterRole", cr, Core) : cr \in res.clusterRoles})
               \cup (UNION {ExpectedOf("Role", ro, ro.namespace) : ro \in res.roles})
               \cup {AggregatedCheck(cr) : cr \in {x \in res.clusterRoles : x.aggregated}}
BY Zenon DEF Expected, AggregatedCheck, Core

\* What is found on a role is what is expected of it.
LEMMA ChecksAreExpected ==
  ASSUME res \in Inputs
  PROVE  /\ \A cr \in res.clusterRoles :
              {CheckOf(f) : f \in OfClusterRole(cr)}
                = ExpectedOf("ClusterRole", cr, Core)
                    \cup (IF cr.aggregated THEN {AggregatedCheck(cr)} ELSE {})
         /\ \A role \in res.roles :
              {CheckOf(f) : f \in OfRole(role)} = ExpectedOf("Role", role, role.namespace)
<1>1. ASSUME NEW cr \in res.clusterRoles
      PROVE  {CheckOf(f) : f \in OfClusterRole(cr)}
               = ExpectedOf("ClusterRole", cr, Core)
                   \cup (IF cr.aggregated THEN {AggregatedCheck(cr)} ELSE {})
  <2> DEFINE C == {CheckOf(f) : f \in ClusterRoleFindings(cr)}
  <2>1. cr.rules \in Seq(Rule) /\ cr.namespace = Core
    BY InputFacts
  <2>2. C = {CheckRow(key, "ClusterRole", cr, cr.namespace) : key \in KeysOf(cr)}
    BY <2>1, ChecksOf DEF ClusterRoleFindings
  <2>3. C = ExpectedOf("ClusterRole", cr, Core)
    BY <2>1, <2>2, ExpectedRows
  <2>4. CheckOf(AggregatedFinding(cr)) = AggregatedCheck(cr)
    BY <2>1 DEF CheckOf, AggregatedFinding, newFinding, AggregatedCheck
  <2>5. {CheckOf(f) : f \in OfClusterRole(cr)}
          = C \cup (IF cr.aggregated THEN {CheckOf(AggregatedFinding(cr))} ELSE {})
    BY DEF OfClusterRole
  <2> QED
    BY <2>3, <2>4, <2>5
<1>2. ASSUME NEW role \in res.roles
      PROVE  {CheckOf(f) : f \in OfRole(role)} = ExpectedOf("Role", role, role.namespace)
  <2>1. role.rules \in Seq(Rule)
    BY InputFacts
  <2>2. {CheckOf(f) : f \in OfRole(role)}
          = {CheckRow(key, "Role", role, role.namespace) : key \in KeysOf(role)}
    BY <2>1, ChecksOf DEF OfRole, NamespacedRoleFindings
  <2> QED
    BY <2>2, ExpectedRows
<1> QED
  BY <1>1, <1>2

\* What a finding says of a role, but for the severity, tells it from all others.
LEMMA ChecksDiffer ==
  ASSUME IInv, Returned, NEW f \in OnVisited, NEW g \in OnVisited, CheckOf(f) = CheckOf(g)
  PROVE  f = g
<1>1. /\ f.rule = g.rule /\ f.description = g.description /\ f.kind = g.kind
      /\ f.name = g.name /\ f.namespace = g.namespace
  BY CheckFields
<1>2. CASE f.kind = "Role"
  <2>1. /\ \A cr \in res.clusterRoles : f \notin OfClusterRole(cr) /\ g \notin OfClusterRole(cr)
    BY <1>1, <1>2, AtReturn, OnRoleFacts
  <2>2. PICK role \in res.roles : f \in OfRole(role)
    BY <2>1, AtReturn
  <2>3. PICK other \in res.roles : g \in OfRole(other)
    BY <2>1, AtReturn
  <2>4. other = role
    BY <1>1, <2>2, <2>3, AtReturn, OnRoleFacts, InputFacts
  <2>5. role.rules \in Seq(Rule)
    BY AtReturn, InputFacts
  <2> QED
    BY <1>1, <2>2, <2>3, <2>4, <2>5, CheckedFacts DEF OfRole, NamespacedRoleFindings
<1>3. CASE f.kind # "Role"
  <2>1. \A role \in res.roles : f \notin OfRole(role) /\ g \notin OfRole(role)
    BY <1>1, <1>3, AtReturn, OnRoleFacts
  <2>2. PICK cr \in res.clusterRoles : f \in OfClusterRole(cr)
    BY <2>1, AtReturn
  <2>3. PICK other \in res.clusterRoles : g \in OfClusterRole(other)
    BY <2>1, AtReturn
  <2>4. other = cr
    BY <1>1, <2>2, <2>3, AtReturn, OnRoleFacts, InputFacts
  <2>5. cr.rules \in Seq(Rule)
    BY AtReturn, InputFacts
  <2>6. \A x \in ClusterRoleFindings(cr) : x.rule # "KC-015"
    BY AtReturn, OnRoleFacts
  <2>7. AggregatedFinding(cr).rule = "KC-015"
    BY DEF AggregatedFinding, newFinding
  <2>8. CASE f \in ClusterRoleFindings(cr)
    <3>1. g \in ClusterRoleFindings(cr)
      BY <1>1, <2>3, <2>4, <2>6, <2>7, <2>8 DEF OfClusterRole
    <3> QED
      BY <1>1, <2>5, <2>8, <3>1, CheckedFacts DEF ClusterRoleFindings
  <2>9. CASE f \notin ClusterRoleFindings(cr)
    <3>1. f = AggregatedFinding(cr)
      BY <2>2, <2>9 DEF OfClusterRole
    <3>2. g = AggregatedFinding(cr)
      BY <1>1, <2>3, <2>4, <2>6, <2>7, <3>1 DEF OfClusterRole
    <3> QED
      BY <3>1, <3>2
  <2> QED
    BY <2>8, <2>9
<1> QED
  BY <1>2, <1>3

\* Every role is reported for all that its rules trip and for nothing else, each check
\* once: none is lost among the findings of the other phases.
THEOREM RolesAllReported == Spec => []EveryRoleReported
<1>1. IInv => EveryRoleReported
  <2> SUFFICES ASSUME IInv, Returned PROVE EveryRoleReported
    BY DEF EveryRoleReported
  <2>1. \A n \in OnRoles : n \in DOMAIN findings /\ OnRole(findings[n]) /\ findings[n] \in OnVisited
    BY AtReturn DEF OnRoles, OnRole, HoldsOnce, ToSet
  <2>2. \A f \in OnVisited : \E n \in OnRoles : findings[n] = f
    BY AtReturn DEF OnRoles, OnRole, HoldsOnce, ToSet
  <2>3. \A m, n \in OnRoles : CheckOf(findings[m]) = CheckOf(findings[n]) => m = n
    BY <2>1, AtReturn, ChecksDiffer DEF HoldsOnce
  <2>4. {CheckOf(findings[n]) : n \in OnRoles} = {CheckOf(f) : f \in OnVisited}
    BY <2>1, <2>2
  <2>5. ASSUME NEW f \in OnVisited PROVE CheckOf(f) \in Expected
    <3>1. CASE \E cr \in res.clusterRoles : f \in OfClusterRole(cr)
      <4>1. PICK cr \in res.clusterRoles : f \in OfClusterRole(cr)
        BY <3>1
      <4>2. CheckOf(f) \in ExpectedOf("ClusterRole", cr, Core)
            \/ (cr.aggregated /\ CheckOf(f) = AggregatedCheck(cr))
        BY <4>1, AtReturn, ChecksAreExpected
      <4> QED
        BY <4>2, ExpectedUnfolded
    <3>2. CASE \E role \in res.roles : f \in OfRole(role)
      <4>1. PICK role \in res.roles : f \in OfRole(role)
        BY <3>2
      <4>2. CheckOf(f) \in ExpectedOf("Role", role, role.namespace)
        BY <4>1, AtReturn, ChecksAreExpected
      <4> QED
        BY <4>2, ExpectedUnfolded
    <3> QED
      BY <3>1, <3>2, AtReturn
  <2>6. ASSUME NEW e \in Expected PROVE \E f \in OnVisited : CheckOf(f) = e
    <3>1. CASE \E cr \in res.clusterRoles :
                 e \in ExpectedOf("ClusterRole", cr, Core)
                       \cup (IF cr.aggregated THEN {AggregatedCheck(cr)} ELSE {})
      <4>1. PICK cr \in res.clusterRoles : e \in {CheckOf(f) : f \in OfClusterRole(cr)}
        BY <3>1, AtReturn, ChecksAreExpected
      <4>2. PICK f \in OfClusterRole(cr) : CheckOf(f) = e
        BY <4>1
      <4> QED
        BY <4>2, AtReturn
    <3>2. CASE \E role \in res.roles : e \in ExpectedOf("Role", role, role.namespace)
      <4>1. PICK role \in res.roles : e \in {CheckOf(f) : f \in OfRole(role)}
        BY <3>2, AtReturn, ChecksAreExpected
      <4>2. PICK f \in OfRole(role) : CheckOf(f) = e
        BY <4>1
      <4> QED
        BY <4>2, AtReturn
    <3> QED
      BY <3>1, <3>2, ExpectedUnfolded
  <2>7. {CheckOf(findings[n]) : n \in OnRoles} = Expected
    BY <2>4, <2>5, <2>6
  <2> QED
    BY <2>3, <2>7, Zenon DEF EveryRoleReported
<1> QED
  BY AnalysisInvariant, <1>1, PTL

-----------------------------------------------------------------------------
(* One object.                                                             *)

\* A list has the elements of a set, each at some place.
IsListOf(list, S) == list \in Seq(S) /\ \A x \in S : \E n \in DOMAIN list : list[n] = x

\* A list is one of its own elements.
LEMMA OwnElements ==
  ASSUME NEW list, list \in Seq(ToSet(list))
  PROVE  IsListOf(list, ToSet(list))
BY DEF IsListOf, ToSet

\* Two lists one after the other.
LEMMA ListedTogether ==
  ASSUME NEW p, NEW S, IsListOf(p, S), NEW q, NEW T, IsListOf(q, T)
  PROVE  IsListOf(p \o q, S \cup T)
<1> DEFINE U == S \cup T
           w == p \o q
<1>1. p \in Seq(U) /\ q \in Seq(U)
  <2>1. \A s, A, B : s \in Seq(A) /\ A \subseteq B => s \in Seq(B)
    OBVIOUS
  <2> QED
    BY <2>1 DEF IsListOf
<1> HIDE DEF U
<1>2. /\ w \in Seq(U)
      /\ DOMAIN p = 1 .. Len(p) /\ DOMAIN q = 1 .. Len(q)
      /\ Len(p) \in Nat /\ Len(q) \in Nat
      /\ DOMAIN w = 1 .. Len(p) + Len(q)
      /\ \A n \in DOMAIN w : w[n] = IF n <= Len(p) THEN p[n] ELSE q[n - Len(p)]
  BY <1>1, ConcatProperties
<1> HIDE DEF w
<1>3. \A n \in DOMAIN p : n \in DOMAIN w /\ w[n] = p[n]
  BY <1>2
<1>4. \A n \in DOMAIN q : n + Len(p) \in DOMAIN w /\ w[n + Len(p)] = q[n]
  BY <1>2
<1>5. \A x \in S : \E n \in DOMAIN w : w[n] = x
  BY <1>3 DEF IsListOf
<1>6. \A x \in T : \E n \in DOMAIN w : w[n] = x
  BY <1>4 DEF IsListOf
<1> QED
  BY <1>2, <1>5, <1>6 DEF IsListOf, U, w

\* The elements at some of the places of a list.
LEMMA SomeOf ==
  ASSUME NEW list, NEW S, IsListOf(list, S), NEW T \in SUBSET S,
         NEW kept \in SUBSET DOMAIN list, \A n \in DOMAIN list : n \in kept <=> list[n] \in T
  PROVE  IsListOf(Sublist(list, kept), T)
<1> DEFINE sub == Sublist(list, kept)
<1>1. /\ sub \in Seq(S)
      /\ \A i \in DOMAIN sub : \E m \in kept : sub[i] = list[m]
      /\ \A m \in kept : \E i \in DOMAIN sub : sub[i] = list[m]
  BY SublistKeeps DEF IsListOf
<1> HIDE DEF sub
<1>2. \A i \in DOMAIN sub : sub[i] \in T
  BY <1>1
<1>3. sub \in Seq(T)
  BY <1>1, <1>2
<1>4. \A x \in T : \E n \in DOMAIN list : n \in kept /\ list[n] = x
  BY DEF IsListOf
<1> QED
  BY <1>1, <1>3, <1>4 DEF IsListOf, sub

\* A list of no elements, and of some.
LEMMA EmptyOrNot ==
  ASSUME NEW list, NEW S, IsListOf(list, S)
  PROVE  Len(list) \in Nat /\ DOMAIN list = 1 .. Len(list) /\ (Len(list) = 0 <=> S = {})
<1>1. list \in Seq(S) /\ Len(list) \in Nat /\ DOMAIN list = 1 .. Len(list)
  BY DEF IsListOf
<1>2. ASSUME Len(list) = 0, NEW x \in S PROVE FALSE
  BY <1>1, <1>2 DEF IsListOf
<1>3. Len(list) # 0 => 1 \in DOMAIN list /\ list[1] \in S
  BY <1>1
<1> QED
  BY <1>1, <1>2, <1>3

-----------------------------------------------------------------------------

\* The severity after n things.
LEMMA Raised ==
  ASSUME NEW found, Len(found) \in Nat, NEW high
  PROVE  RaisedBy(found, high) =
           IF Len(found) = 0 THEN SeverityInfo
           ELSE IF high \cap (1 .. Len(found)) # {} THEN SeverityHigh ELSE SeverityWarning
<1> DEFINE N == Len(found)
           Rises(after) ==
             after = [n \in 0 .. N |->
                        IF n = 0 THEN SeverityInfo ELSE Raise(after[n - 1], n \in high)]
           chosen == CHOOSE after : Rises(after)
           Worst0(n) == IF n = 0 THEN SeverityInfo
                        ELSE IF high \cap (1 .. n) # {} THEN SeverityHigh ELSE SeverityWarning
<1>1. RaisedBy(found, high) = chosen[N]
  BY Zenon DEF RaisedBy
<1>2. \E after : Rises(after)
  <2> DEFINE after == [n \in 0 .. N |-> Worst0(n)]
  <2>1. ASSUME NEW n \in 0 .. N
        PROVE  after[n] = IF n = 0 THEN SeverityInfo ELSE Raise(after[n - 1], n \in high)
    <3>1. CASE n = 0
      BY <3>1
    <3>2. CASE n # 0
      <4>1. n - 1 \in 0 .. N /\ (1 .. n) = (1 .. n - 1) \cup {n}
        BY <3>2
      <4>2. after[n - 1] = Worst0(n - 1) /\ after[n] = Worst0(n)
        BY <4>1
      <4>3. Worst0(n) = Raise(Worst0(n - 1), n \in high)
        BY <4>1, <3>2 DEF Raise, SeverityInfo, SeverityWarning, SeverityHigh
      <4> QED
        BY <4>2, <4>3, <3>2
    <3> QED
      BY <3>1, <3>2
  <2>2. after = [n \in 0 .. N |-> after[n]]
    OBVIOUS
  <2> HIDE DEF after
  <2>3. Rises(after)
    BY <2>1, <2>2
  <2> QED
    BY <2>3
<1>3. Rises(chosen)
  BY <1>2
<1> HIDE DEF chosen
<1>4. \A n \in 0 .. N :
        chosen[n] = IF n = 0 THEN SeverityInfo ELSE Raise(chosen[n - 1], n \in high)
  BY <1>3
<1> DEFINE good == {n \in 0 .. N : chosen[n] = Worst0(n)}
<1>5. 0 \in good
  BY <1>4
<1>6. ASSUME NEW n \in 1 .. N, n - 1 \in good PROVE n \in good
  <2>1. chosen[n] = Raise(Worst0(n - 1), n \in high) /\ (1 .. n) = (1 .. n - 1) \cup {n}
    BY <1>4, <1>6
  <2>2. Worst0(n) = Raise(Worst0(n - 1), n \in high)
    BY <2>1 DEF Raise, SeverityInfo, SeverityWarning, SeverityHigh
  <2> QED
    BY <2>1, <2>2
<1>7. N \in good
  <2> HIDE DEF good, N
  <2>1. N \in Nat
    BY DEF N
  <2>2. \A n \in 0 .. N : n \in good
    BY <1>5, <1>6, <2>1, Upward
  <2> QED
    BY <2>1, <2>2
<1> QED
  BY <1>1, <1>7

\* A check over a list gives the verdict on what it lists, in whatever order that is:
\* found and grave say which of the set there are.
LEMMA Tripped ==
  ASSUME NEW list, NEW S, IsListOf(list, S), NEW high \in SUBSET DOMAIN list,
         NEW found, found = {} <=> S = {},
         NEW grave, found \cap grave = {} <=> high = {}, NEW rule
  PROVE  TripIf(RaisedBy(list, high) # SeverityInfo, rule, RaisedBy(list, high))
           = Worst(found, grave, rule)
<1>1. Len(list) \in Nat /\ DOMAIN list = 1 .. Len(list) /\ (Len(list) = 0 <=> S = {})
  BY EmptyOrNot
<1>2. high \cap (1 .. Len(list)) = high
  BY <1>1
<1>3. RaisedBy(list, high) = IF found = {} THEN SeverityInfo
                             ELSE IF found \cap grave # {} THEN SeverityHigh ELSE SeverityWarning
  BY <1>1, <1>2, Raised
<1> QED
  BY <1>3 DEF Worst, TripIf, SeverityInfo, SeverityWarning, SeverityHigh

-----------------------------------------------------------------------------
(* The lists of a pod specification.                                       *)

\* A list as the parser gives it has its items.
LEMMA ItemsListed ==
  ASSUME NEW v, Listing(v)
  PROVE  IsListOf(Items(v), ItemSet(v))
BY DEF Listing, IsListOf, ItemSet

\* All containers, whichever list they are in.
LEMMA ContainersListed ==
  ASSUME NEW podSpec, PodLists(podSpec)
  PROVE  IsListOf(AllContainers(podSpec), Containers(podSpec))
<1> DEFINE a == Items(At(podSpec, "containers"))
           i == Items(At(podSpec, "initContainers"))
           e == Items(At(podSpec, "ephemeralContainers"))
           A == ItemSet(At(podSpec, "containers"))
           I == ItemSet(At(podSpec, "initContainers"))
           E == ItemSet(At(podSpec, "ephemeralContainers"))
           listed == a \o i \o e
           S == (A \cup I) \cup E
           kept == {n \in DOMAIN listed : IsMap(listed[n])}
           T == {x \in S : IsMap(x)}
<1>1. IsListOf(a, A) /\ IsListOf(i, I) /\ IsListOf(e, E)
  BY ItemsListed DEF PodLists
<1>2. Containers(podSpec) = T
  BY DEF Containers, MapItems
<1>3. AllContainers(podSpec) = Sublist(listed, kept)
  BY DEF AllContainers
<1> HIDE DEF a, i, e, A, I, E
<1>4. IsListOf(listed, S)
  BY <1>1, ListedTogether
<1> HIDE DEF listed
<1>5. \A n \in DOMAIN listed : listed[n] \in S
  BY <1>4 DEF IsListOf
<1> HIDE DEF S
<1>6. IsListOf(Sublist(listed, kept), T)
  <2>1. T \in SUBSET S /\ kept \in SUBSET DOMAIN listed
        /\ \A n \in DOMAIN listed : n \in kept <=> listed[n] \in T
    BY <1>5
  <2> HIDE DEF T, kept
  <2> QED
    BY <1>4, <2>1, SomeOf
<1> QED
  BY <1>2, <1>3, <1>6

\* The elements of a list of the elements of a set are those of the set.
LEMMA ListElements ==
  ASSUME NEW list, NEW S, IsListOf(list, S)
  PROVE  ToSet(list) = S
BY DEF IsListOf, ToSet

\* The privileged containers.
LEMMA PrivilegedFound ==
  ASSUME NEW podSpec, PodLists(podSpec)
  PROVE  IsListOf(privilegedContainers(podSpec),
                  {c \in Containers(podSpec) :
                     At(At(c, "securityContext"), "privileged") = Bool(TRUE)})
<1> DEFINE list == AllContainers(podSpec)
           S == Containers(podSpec)
           T == {c \in S : At(At(c, "securityContext"), "privileged") = Bool(TRUE)}
           kept == {n \in DOMAIN list : IsTrue(At(SecurityContext(list[n]), "privileged"))}
<1>1. IsListOf(list, S)
  BY ContainersListed
<1>2. privilegedContainers(podSpec) = Sublist(list, kept)
  BY DEF privilegedContainers
<1> HIDE DEF list, S
<1>3. \A n \in DOMAIN list : list[n] \in S
  BY <1>1 DEF IsListOf
<1>4. T \in SUBSET S /\ kept \in SUBSET DOMAIN list
      /\ \A n \in DOMAIN list : n \in kept <=> list[n] \in T
  BY <1>3 DEF IsTrue, SecurityContext
<1> HIDE DEF T, kept
<1>5. IsListOf(Sublist(list, kept), T)
  BY <1>1, <1>4, SomeOf
<1> QED
  BY <1>2, <1>5 DEF S, T

\* The names containers mount, without those of nobody.
LEMMA MountedNames ==
  ASSUME NEW podSpec, PodLists(podSpec)
  PROVE  MountedVolumes(podSpec) = {StringOr(At(m, "name"), "") : m \in Mounts(podSpec)} \ {""}
<1>1. ToSet(AllContainers(podSpec)) = Containers(podSpec)
  BY ContainersListed, ListElements
<1> QED
  BY <1>1, Zenon DEF MountedVolumes, Mounts

\* The volumes of the host that some container mounts.
HostVolumes(podSpec) ==
  {v \in MapItems(At(podSpec, "volumes")) :
     /\ IsMap(At(v, "hostPath"))
     /\ \E m \in Mounts(podSpec) : At(m, "name") = At(v, "name")}

\* The code compares the names of volumes and mounts, where a missing one would be read
\* as empty; on a well-formed pod it finds the volumes of the host that are mounted.
LEMMA PathsFound ==
  ASSUME NEW podSpec, PodLists(podSpec), IsWellFormedPod(podSpec)
  PROVE  IsListOf(hostPathDetails(podSpec), HostVolumes(podSpec))
<1> DEFINE list == Items(At(podSpec, "volumes"))
           S == ItemSet(At(podSpec, "volumes"))
           T == HostVolumes(podSpec)
           kept == {n \in DOMAIN list :
                      /\ IsMap(At(list[n], "hostPath"))
                      /\ StringOr(At(list[n], "name"), "") \in MountedVolumes(podSpec)}
<1>1. IsListOf(list, S)
  BY ItemsListed DEF PodLists
<1>2. hostPathDetails(podSpec) = Sublist(list, kept)
  BY DEF hostPathDetails
<1>3. \A v : IsMap(At(v, "hostPath")) => IsMap(v)
  BY DEF IsMap, At, Has, Fields, Null
<1>4. T = {v \in S : IsMap(v) /\ IsMap(At(v, "hostPath"))
                     /\ \E m \in Mounts(podSpec) : At(m, "name") = At(v, "name")}
  BY DEF HostVolumes, MapItems
<1>5. ASSUME NEW v \in S, IsMap(v)
      PROVE  StringOr(At(v, "name"), "") \in MountedVolumes(podSpec)
               <=> \E m \in Mounts(podSpec) : At(m, "name") = At(v, "name")
  <2>1. \A x \in Mounts(podSpec) \cup {v} :
          /\ At(x, "name").type = "string" /\ At(x, "name") = Str(At(x, "name").string)
          /\ StringOr(At(x, "name"), "") = At(x, "name").string
          /\ StringOr(At(x, "name"), "") # ""
    <3>1. v \in MapItems(At(podSpec, "volumes"))
      BY <1>5 DEF MapItems
    <3> QED
      BY <3>1 DEF IsWellFormedPod, IsNamed, StringOr
  <2>2. MountedVolumes(podSpec) = {StringOr(At(m, "name"), "") : m \in Mounts(podSpec)} \ {""}
    BY MountedNames
  <2>3. \A m \in Mounts(podSpec) :
          StringOr(At(m, "name"), "") = StringOr(At(v, "name"), "")
             <=> At(m, "name") = At(v, "name")
    BY <2>1
  <2> QED
    BY <2>1, <2>2, <2>3
<1> HIDE DEF list, S
<1>6. \A n \in DOMAIN list : list[n] \in S
  BY <1>1 DEF IsListOf
<1>7. T \in SUBSET S /\ kept \in SUBSET DOMAIN list
      /\ \A n \in DOMAIN list : n \in kept <=> list[n] \in T
  BY <1>3, <1>4, <1>5, <1>6
<1> HIDE DEF T, kept
<1>8. IsListOf(Sublist(list, kept), T)
  BY <1>1, <1>7, SomeOf
<1> QED
  BY <1>2, <1>8 DEF T

\* The capabilities containers add that are dangerous.
LEMMA CapabilitiesFound ==
  ASSUME NEW podSpec, PodLists(podSpec)
  PROVE  IsListOf(capabilityDetails(podSpec),
                  {v \in UNION {ItemSet(At(At(SecurityContext(c), "capabilities"), "add")) :
                                  c \in Containers(podSpec)} :
                     v.type = "string" /\ IsOneOf(v.string, dangerousCapabilities)})
<1> DEFINE list == AllContainers(podSpec)
           S == Containers(podSpec)
           Adds(c) == At(At(SecurityContext(c), "capabilities"), "add")
           Bad(v) == v.type = "string" /\ IsOneOf(v.string, dangerousCapabilities)
           BadOf(c) == {v \in ItemSet(Adds(c)) : Bad(v)}
           T == {v \in UNION {ItemSet(Adds(c)) : c \in S} : Bad(v)}
           seqs == [n \in DOMAIN list |-> AddedCapabilities(list[n])]
<1>1. IsListOf(list, S)
  BY ContainersListed
<1>2. capabilityDetails(podSpec) = FlattenSeq(seqs)
  BY DEF capabilityDetails
<1>3. ASSUME NEW c \in S PROVE IsListOf(AddedCapabilities(c), BadOf(c))
  <2> DEFINE add == Items(Adds(c))
             kept == {n \in DOMAIN add : add[n].type = "string"
                                         /\ IsOneOf(add[n].string, dangerousCapabilities)}
  <2>1. Listing(Adds(c))
    BY DEF PodLists, Containers, MapItems
  <2>2. IsListOf(add, ItemSet(Adds(c)))
    BY <2>1, ItemsListed
  <2>3. AddedCapabilities(c) = Sublist(add, kept)
    BY DEF AddedCapabilities
  <2>4. BadOf(c) \in SUBSET ItemSet(Adds(c))
    OBVIOUS
  <2>5. \A n \in DOMAIN add : n \in kept <=> add[n] \in BadOf(c)
    <3>1. \A n \in DOMAIN add : add[n] \in ItemSet(Adds(c))
      BY <2>2 DEF IsListOf
    <3> HIDE DEF add
    <3> QED
      BY <3>1
  <2>6. kept \in SUBSET DOMAIN add
    OBVIOUS
  <2> HIDE DEF kept, add, BadOf
  <2>7. IsListOf(Sublist(add, kept), BadOf(c))
    BY <2>2, <2>4, <2>5, <2>6, SomeOf
  <2> QED
    BY <2>3, <2>7
<1>4. \A x \in T : \E c \in S : x \in BadOf(c)
  OBVIOUS
<1>5. \A c \in S : BadOf(c) \subseteq T
  OBVIOUS
<1> HIDE DEF list, S, BadOf, T
<1>6. /\ DOMAIN list = 1 .. Len(list) /\ Len(list) \in Nat
      /\ \A n \in DOMAIN list : list[n] \in S
      /\ \A c \in S : \E n \in DOMAIN list : list[n] = c
  BY <1>1 DEF IsListOf
<1>7. \A n \in DOMAIN list : seqs[n] \in Seq(T)
  <2>1. \A c \in S : AddedCapabilities(c) \in Seq(BadOf(c))
    BY <1>3 DEF IsListOf
  <2>2. \A s, X, Y : s \in Seq(X) /\ X \subseteq Y => s \in Seq(Y)
    OBVIOUS
  <2> QED
    BY <1>5, <1>6, <2>1, <2>2
<1>8. seqs \in Seq(Seq(T)) /\ Len(seqs) = Len(list)
  BY <1>6, <1>7
<1>9. ElementsOf(FlattenSeq(seqs), T, seqs, Len(seqs))
  BY <1>8, Flattened
<1>10. ASSUME NEW x \in T PROVE \E i \in DOMAIN FlattenSeq(seqs) : FlattenSeq(seqs)[i] = x
  <2>1. PICK c \in S : x \in BadOf(c)
    BY <1>4
  <2>2. PICK n \in DOMAIN list : list[n] = c
    BY <1>6
  <2>3. PICK m \in DOMAIN seqs[n] : seqs[n][m] = x
    BY <1>3, <2>1, <2>2 DEF IsListOf
  <2>4. n \in 1 .. Len(seqs)
    BY <1>6, <1>8
  <2> HIDE DEF seqs
  <2> QED
    BY <1>9, <2>3, <2>4 DEF ElementsOf
<1>11. IsListOf(FlattenSeq(seqs), T)
  BY <1>9, <1>10 DEF ElementsOf, IsListOf
<1> QED
  BY <1>2, <1>11 DEF T, S

-----------------------------------------------------------------------------
(* The paths of the host.                                                  *)

\* The segment after a slash at the end, by a name; it is none of a directory's.
Blank == ""

\* No name the comparisons use is the empty string.
LEMMA BlankFacts == \A x \in {"dev", "etc", "proc", "sys", "var", "?", "<unspecified>"} : x # Blank
BY Zenon DEF Blank

\* Prefixes, segment by segment.
LEMMA PrefixOf ==
  ASSUME NEW S, NEW s \in Seq(S), NEW T, NEW t \in Seq(T)
  PROVE  IsPrefix(s, t) <=> Len(s) <= Len(t) /\ \A i \in 1 .. Len(s) : s[i] = t[i]
<1> DEFINE N == Len(s)
           p == SubSeq(s, 1, N)
           q == SubSeq(t, 1, N)
<1>1. N \in Nat /\ Len(t) \in Nat
  OBVIOUS
<1>2. p \in Seq(S) /\ Len(p) = N /\ \A i \in 1 .. N : p[i] = s[i]
  OBVIOUS
<1>3. N <= Len(t) => q \in Seq(T) /\ Len(q) = N /\ \A i \in 1 .. N : q[i] = t[i]
  OBVIOUS
<1>4. IsPrefix(s, t) <=> N <= Len(t) /\ p = q
  BY Zenon DEF IsPrefix
<1> HIDE DEF p, q, N
<1>5. N <= Len(t) => (p = q <=> \A i \in 1 .. N : p[i] = q[i])
  BY <1>1, <1>2, <1>3
<1> QED
  BY <1>2, <1>3, <1>4, <1>5 DEF N

\* A path of so many segments.
IsPathOf(path, N, first) ==
  (\E S : path \in Seq(S)) /\ Len(path) = N /\ path[1] = first

\* Paths of up to three segments.
LEMMA ShortPaths ==
  ASSUME NEW x, NEW y, NEW z
  PROVE  IsPathOf(<<x>>, 1, x) /\ IsPathOf(<<x, y>>, 2, x) /\ IsPathOf(<<x, y, z>>, 3, x)
<1>1. <<x>> \in Seq({x}) /\ <<x, y>> \in Seq({x, y}) /\ <<x, y, z>> \in Seq({x, y, z})
  OBVIOUS
<1>2. Len(<<x>>) = 1 /\ Len(<<x, y>>) = 2 /\ Len(<<x, y, z>>) = 3
  OBVIOUS
<1>3. <<x>>[1] = x /\ <<x, y>>[1] = x /\ <<x, y, z>>[1] = x
  OBVIOUS
<1> QED
  BY <1>1, <1>2, <1>3 DEF IsPathOf

\* The directories the code compares with, and those of the contract.
CodeDirs ==
  {<<"dev">>, <<"etc">>, <<"etc", "kubernetes">>, <<"proc">>, <<"sys">>,
   <<"var", "lib", "kubelet">>, <<"var", "lib", "containers">>, <<"var", "run">>}

Dirs ==
  {<<"dev">>, <<"etc">>, <<"proc">>, <<"sys">>, <<"var", "run">>,
   <<"var", "lib", "kubelet">>, <<"var", "lib", "containers">>}

\* Their first segments; etc/kubernetes is the only one the contract leaves out.
LEMMA DirFacts ==
  /\ \A dir \in CodeDirs : (\E S : dir \in Seq(S)) /\ Len(dir) \in 1 .. 3
                           /\ dir[1] \in {"dev", "etc", "proc", "sys", "var"}
  /\ Dirs \subseteq CodeDirs
  /\ \A dir \in CodeDirs : dir \in Dirs \/ dir = <<"etc", "kubernetes">>
<1>1. ASSUME NEW dir \in CodeDirs
      PROVE  \E n \in 1 .. 3 : \E first \in {"dev", "etc", "proc", "sys", "var"} :
               IsPathOf(dir, n, first)
  <2>1. \A x, y, z :
          IsPathOf(<<x>>, 1, x) /\ IsPathOf(<<x, y>>, 2, x) /\ IsPathOf(<<x, y, z>>, 3, x)
    BY ShortPaths
  <2>2. IsPathOf(<<"dev">>, 1, "dev") /\ IsPathOf(<<"etc">>, 1, "etc")
        /\ IsPathOf(<<"proc">>, 1, "proc") /\ IsPathOf(<<"sys">>, 1, "sys")
    BY <2>1
  <2>3. IsPathOf(<<"etc", "kubernetes">>, 2, "etc") /\ IsPathOf(<<"var", "run">>, 2, "var")
    BY <2>1
  <2>4. IsPathOf(<<"var", "lib", "kubelet">>, 3, "var")
        /\ IsPathOf(<<"var", "lib", "containers">>, 3, "var")
    BY <2>1
  <2> QED
    BY <2>2, <2>3, <2>4 DEF CodeDirs
<1>2. \A dir \in CodeDirs : (\E S : dir \in Seq(S)) /\ Len(dir) \in 1 .. 3
                            /\ dir[1] \in {"dev", "etc", "proc", "sys", "var"}
  BY <1>1 DEF IsPathOf
<1>3. Dirs \subseteq CodeDirs /\ \A dir \in CodeDirs : dir \in Dirs \/ dir = <<"etc", "kubernetes">>
  BY DEF Dirs, CodeDirs
<1> QED
  BY <1>2, <1>3

\* What is in a directory in /etc is in /etc.
LEMMA SameDirs ==
  ASSUME NEW S, NEW path \in Seq(S)
  PROVE  (\E dir \in CodeDirs : IsPrefix(dir, path)) <=> (\E dir \in Dirs : IsPrefix(dir, path))
<1> DEFINE two == <<"etc", "kubernetes">>
           one == <<"etc">>
<1>1. /\ (\E S1 : two \in Seq(S1)) /\ Len(two) = 2 /\ two[1] = "etc"
      /\ (\E S1 : one \in Seq(S1)) /\ Len(one) = 1 /\ one[1] = "etc"
  BY ShortPaths DEF IsPathOf
<1>2. one \in Dirs /\ \A dir \in CodeDirs : dir \in Dirs \/ dir = two
  BY DirFacts DEF Dirs
<1> HIDE DEF one, two
<1>3. IsPrefix(two, path) => IsPrefix(one, path)
  BY <1>1, PrefixOf
<1> QED
  BY <1>2, <1>3, DirFacts

\* What a path of one segment is in.
LEMMA OneSegment ==
  ASSUME NEW x, x \notin {"dev", "etc", "proc", "sys", "var"}
  PROVE  ~\E dir \in CodeDirs : IsPrefix(dir, <<x>>)
<1> DEFINE path == <<x>>
<1>1. (\E S : path \in Seq(S)) /\ Len(path) = 1 /\ path[1] = x
  BY ShortPaths DEF IsPathOf
<1> HIDE DEF path
<1>2. ASSUME NEW dir \in CodeDirs PROVE ~IsPrefix(dir, path)
  <2>1. (\E S : dir \in Seq(S)) /\ Len(dir) \in 1 .. 3 /\ dir[1] # x
    BY DirFacts
  <2> QED
    BY <1>1, <2>1, PrefixOf
<1> QED
  BY <1>2 DEF path

\* A plain path is compared as the host resolves it.
LEMMA SensitiveAlike ==
  ASSUME NEW S, NEW path \in Seq(S), path # << >>, IsPlain(path)
  PROVE  sensitiveHostPath(path) <=> IsSensitive(path)
<1> DEFINE N    == Len(path)
           root == <<Blank>>
           kept == {n \in DOMAIN path : path[n] # Blank}
           InCode(p) == \E dir \in CodeDirs : IsPrefix(dir, p)
           InDirs(p) == \E dir \in Dirs : IsPrefix(dir, p)
<1>1. N \in Nat /\ N >= 1 /\ DOMAIN path = 1 .. N /\ \A n \in 1 .. N : path[n] \in S
  OBVIOUS
<1>2. (\E T : root \in Seq(T)) /\ Len(root) = 1 /\ root[1] = Blank
  BY ShortPaths DEF IsPathOf
<1>3. sensitiveHostPath(path) <=> Trimmed(path) = root \/ InCode(Trimmed(path))
  BY Zenon DEF sensitiveHostPath, CodeDirs, Blank
<1>4. IsSensitive(path) <=> Resolved(path) = << >> \/ InDirs(Resolved(path))
  BY Zenon DEF IsSensitive, Dirs
<1>5. Resolved(path) = Sublist(path, kept)
  BY Zenon DEF Resolved, Blank
<1>6. \A n \in 1 .. N - 1 : path[n] # Blank
  BY Zenon DEF IsPlain, Blank
<1>7. \A k \in 0 .. N : kept = 1 .. k => Resolved(path) = SubSeq(path, 1, k)
  BY <1>5, FirstKept
<1>8. \A k \in 1 .. N : LET p == SubSeq(path, 1, k)
                        IN  p \in Seq(S) /\ Len(p) = k /\ p[1] = path[1]
  OBVIOUS
<1>9. Trimmed(path) = IF N > 1 /\ path[N] = Blank THEN SubSeq(path, 1, N - 1) ELSE path
  BY Zenon DEF Trimmed, Last, Front, Blank
<1>10. SubSeq(path, 1, N) = path /\ SubSeq(path, 1, 0) = << >>
  OBVIOUS
<1>11. kept = {n \in 1 .. N : path[n] # Blank}
  BY <1>1
<1> HIDE DEF N, root, kept, InCode, InDirs
<1>12. CASE path[N] # Blank
  <2>1. kept = 1 .. N
    BY <1>1, <1>6, <1>11, <1>12
  <2>2. Resolved(path) = path /\ Trimmed(path) = path
    BY <1>1, <1>7, <1>9, <1>10, <1>12, <2>1
  <2>3. path # root
    BY <1>2, <1>12 DEF N
  <2> QED
    BY <1>3, <1>4, <2>2, <2>3, SameDirs DEF InCode, InDirs
<1>13. CASE path[N] = Blank /\ N = 1
  <2>1. path = root
    BY <1>1, <1>2, <1>13 DEF N
  <2>2. kept = 1 .. 0
    BY <1>11, <1>13
  <2>3. Resolved(path) = << >> /\ Trimmed(path) = path
    BY <1>1, <1>7, <1>9, <1>10, <1>13, <2>2
  <2> QED
    BY <1>3, <1>4, <2>1, <2>3
<1>14. CASE path[N] = Blank /\ N # 1
  <2> DEFINE front == SubSeq(path, 1, N - 1)
  <2>1. kept = 1 .. N - 1
    BY <1>1, <1>6, <1>11, <1>14
  <2>2. Resolved(path) = front /\ Trimmed(path) = front
    BY <1>1, <1>7, <1>9, <1>14, <2>1
  <2>3. front \in Seq(S) /\ Len(front) = N - 1 /\ front[1] = path[1] /\ path[1] # Blank
    BY <1>1, <1>6, <1>8, <1>14
  <2> HIDE DEF front
  <2>4. front # << >> /\ front # root
    BY <1>1, <1>2, <1>14, <2>3
  <2> QED
    BY <1>3, <1>4, <2>2, <2>3, <2>4, SameDirs DEF InCode, InDirs
<1> QED
  BY <1>12, <1>13, <1>14

\* What stands for no path is no path of the host.
LEMMA NoPath ==
  ASSUME NEW x \in {"?", "<unspecified>"}
  PROVE  /\ <<x>> \in Seq({x}) \ {<< >>} /\ IsPlain(<<x>>)
         /\ ~sensitiveHostPath(<<x>>) /\ ~IsSensitive(<<x>>)
<1> DEFINE path == <<x>>
           root == <<Blank>>
<1>0. x \notin {"dev", "etc", "proc", "sys", "var"}
  OBVIOUS
<1>1. path \in Seq({x}) /\ Len(path) = 1 /\ path[1] = x
      /\ (\E S : root \in Seq(S)) /\ Len(root) = 1 /\ root[1] = Blank
  BY ShortPaths DEF IsPathOf
<1>2. ~\E dir \in CodeDirs : IsPrefix(dir, path)
  BY <1>0, OneSegment
<1> HIDE DEF path, root
<1>3. path # << >> /\ path # root
  BY <1>1, BlankFacts
<1>4. IsPlain(path)
  <2>1. IsPlain(path) <=> \A n \in 1 .. Len(path) - 1 : path[n] # Blank
    BY Zenon DEF IsPlain, Blank
  <2> QED
    BY <1>1, <2>1
<1>5. Trimmed(path) = path
  <2>1. Trimmed(path) = IF Len(path) > 1 /\ Last(path) = Blank THEN Front(path) ELSE path
    BY Zenon DEF Trimmed, Blank
  <2> QED
    BY <1>1, <2>1
<1>6. sensitiveHostPath(path) <=>
        Trimmed(path) = root \/ \E dir \in CodeDirs : IsPrefix(dir, Trimmed(path))
  BY Zenon DEF sensitiveHostPath, CodeDirs, root, Blank
<1>7. ~sensitiveHostPath(path)
  BY <1>2, <1>3, <1>5, <1>6
<1>8. ~IsSensitive(path)
  BY <1>1, <1>3, <1>4, <1>7, SensitiveAlike
<1> QED
  BY <1>1, <1>3, <1>4, <1>7, <1>8 DEF path

-----------------------------------------------------------------------------
(* One pod specification.                                                  *)

\* The code takes the specification where Kubernetes has it.
LEMMA SamePodSpec ==
  ASSUME NEW doc, NEW kind
  PROVE  extractPodSpec(doc, kind) = PodSpec(doc, kind)
BY PodSpecPlaces DEF extractPodSpec

\* What the contract asks of a pod specification, by name.
PrivilegedOf(podSpec) ==
  {c \in Containers(podSpec) : At(At(c, "securityContext"), "privileged") = Bool(TRUE)}

SharedOf(podSpec) ==
  {field \in {"hostNetwork", "hostPID", "hostIPC"} : At(podSpec, field) = Bool(TRUE)}

DangerousOf(podSpec) ==
  {cap \in UNION {StringItems(At(At(At(c, "securityContext"), "capabilities"), "add")) :
                    c \in Containers(podSpec)} :
     IsOneOf(cap, dangerousCapabilities)}

PathOf(v) == StringOr(At(At(v, "hostPath"), "path"), <<"?">>)

PathsOf(podSpec) == {PathOf(v) : v \in HostVolumes(podSpec)}

PodVerdict(podSpec) ==
  Worst(PrivilegedOf(podSpec), PrivilegedOf(podSpec), "KC-019")
  \cup Worst(SharedOf(podSpec), SharedOf(podSpec), "KC-020")
  \cup Worst(PathsOf(podSpec), {path \in PathsOf(podSpec) : IsSensitive(path)}, "KC-021")
  \cup Worst(DangerousOf(podSpec),
             {cap \in DangerousOf(podSpec) : IsOneOf(cap, highRiskCapabilities)}, "KC-022")

\* The detector finds on a pod specification what the contract asks.
LEMMA PodsAgree ==
  ASSUME NEW doc, NEW kind, NEW podSpec, podSpec = extractPodSpec(doc, kind),
         PodLists(podSpec), IsWellFormedPod(podSpec),
         \A path \in PathsOf(podSpec) : IsPlain(path)
  PROVE  analyzeWorkloadSecurityObject(doc, kind) = PodVerdict(podSpec)
<1> DEFINE privileged   == privilegedContainers(podSpec)
           paths        == hostPathDetails(podSpec)
           capabilities == capabilityDetails(podSpec)
           sensitive    == {n \in DOMAIN paths : sensitiveHostPath(HostPath(paths[n]))}
           grave        == {n \in DOMAIN capabilities :
                              IsOneOf(capabilities[n].string, highRiskCapabilities)}
           host         == IF hostNamespaces(podSpec) = {} THEN SeverityInfo ELSE SeverityHigh
           Tripping(severity, rule) == TripIf(severity # SeverityInfo, rule, severity)
<1>1. analyzeWorkloadSecurityObject(doc, kind) =
        Tripping(RaisedBy(privileged, DOMAIN privileged), "KC-019")
        \cup Tripping(host, "KC-020")
        \cup Tripping(RaisedBy(paths, sensitive), "KC-021")
        \cup Tripping(RaisedBy(capabilities, grave), "KC-022")
  BY DEF analyzeWorkloadSecurityObject
<1>2. Tripping(RaisedBy(privileged, DOMAIN privileged), "KC-019")
        = Worst(PrivilegedOf(podSpec), PrivilegedOf(podSpec), "KC-019")
  <2> DEFINE P == PrivilegedOf(podSpec)
  <2>1. IsListOf(privileged, P)
    BY PrivilegedFound DEF PrivilegedOf
  <2> HIDE DEF privileged, P
  <2>2. DOMAIN privileged = {} <=> P = {}
    BY <2>1, EmptyOrNot
  <2>3. P \cap P = P
    OBVIOUS
  <2> QED
    BY <2>1, <2>2, <2>3, Tripped DEF P
<1>3. Tripping(host, "KC-020") = Worst(SharedOf(podSpec), SharedOf(podSpec), "KC-020")
  <2>1. hostNamespaces(podSpec) = SharedOf(podSpec)
    BY DEF hostNamespaces, SharedOf, IsTrue
  <2> QED
    BY <2>1 DEF Worst, TripIf, SeverityInfo, SeverityHigh
<1>4. Tripping(RaisedBy(paths, sensitive), "KC-021")
        = Worst(PathsOf(podSpec), {path \in PathsOf(podSpec) : IsSensitive(path)}, "KC-021")
  <2> DEFINE V == HostVolumes(podSpec)
             found == PathsOf(podSpec)
             bad == {path \in found : IsSensitive(path)}
  <2>1. IsListOf(paths, V)
    BY PathsFound
  <2>2. ASSUME NEW v \in V
        PROVE  sensitiveHostPath(HostPath(v)) <=> IsSensitive(PathOf(v))
    <3> DEFINE x == At(At(v, "hostPath"), "path")
    <3>1. IsPath(x) /\ IsPlain(PathOf(v))
      BY DEF IsWellFormedPod, HostVolumes, PathsOf
    <3>2. CASE x.type = "string"
      <4>1. HostPath(v) = x.string /\ PathOf(v) = x.string
        BY <3>2 DEF HostPath, PathOf, StringOr
      <4>2. x.string \in Seq(ToSet(x.string)) /\ x.string # << >>
        BY <3>1, <3>2 DEF IsPath
      <4> HIDE DEF x
      <4> QED
        BY <3>1, <4>1, <4>2, SensitiveAlike
    <3>3. CASE x.type # "string"
      <4>1. HostPath(v) = <<"<unspecified>">> /\ PathOf(v) = <<"?">>
        BY <3>3 DEF HostPath, PathOf, StringOr
      <4> QED
        BY <4>1, NoPath
    <3> QED
      BY <3>2, <3>3
  <2>3. found = {PathOf(v) : v \in V}
    BY DEF PathsOf
  <2> HIDE DEF paths, V, found
  <2>4. /\ \A n \in DOMAIN paths : paths[n] \in V
        /\ \A v \in V : \E n \in DOMAIN paths : paths[n] = v
    BY <2>1 DEF IsListOf
  <2>5. found = {} <=> V = {}
    BY <2>3
  <2>6. found \cap bad = {} <=> sensitive = {}
    <3>1. ASSUME NEW n \in sensitive PROVE PathOf(paths[n]) \in found \cap bad
      BY <2>2, <2>3, <2>4
    <3>2. ASSUME NEW path \in found \cap bad PROVE \E n \in DOMAIN paths : n \in sensitive
      <4>1. PICK v \in V : path = PathOf(v)
        BY <2>3
      <4> QED
        BY <2>2, <2>4, <4>1
    <3> QED
      BY <3>1, <3>2
  <2>7. sensitive \in SUBSET DOMAIN paths
    OBVIOUS
  <2> HIDE DEF sensitive, bad
  <2> QED
    BY <2>1, <2>5, <2>6, <2>7, Tripped DEF bad, found
<1>5. Tripping(RaisedBy(capabilities, grave), "KC-022")
        = Worst(DangerousOf(podSpec),
                {cap \in DangerousOf(podSpec) : IsOneOf(cap, highRiskCapabilities)}, "KC-022")
  <2> DEFINE A == UNION {ItemSet(At(At(SecurityContext(c), "capabilities"), "add")) :
                           c \in Containers(podSpec)}
             V == {v \in A : v.type = "string" /\ IsOneOf(v.string, dangerousCapabilities)}
             found == DangerousOf(podSpec)
             bad == {cap \in found : IsOneOf(cap, highRiskCapabilities)}
  <2>1. IsListOf(capabilities, V)
    BY CapabilitiesFound
  <2>2. (\A v \in V : v.string \in found) /\ \A cap \in found : \E v \in V : v.string = cap
    BY DEF DangerousOf, StringItems, SecurityContext
  <2> HIDE DEF capabilities, A, V, found
  <2>3. /\ \A n \in DOMAIN capabilities : capabilities[n] \in V
        /\ \A v \in V : \E n \in DOMAIN capabilities : capabilities[n] = v
    BY <2>1 DEF IsListOf
  <2>4. found = {} <=> V = {}
    BY <2>2
  <2>5. found \cap bad = {} <=> grave = {}
    <3>1. ASSUME NEW n \in grave PROVE capabilities[n].string \in found \cap bad
      BY <2>2, <2>3
    <3>2. ASSUME NEW cap \in found \cap bad PROVE \E n \in DOMAIN capabilities : n \in grave
      <4>1. PICK v \in V : v.string = cap
        BY <2>2
      <4> QED
        BY <2>3, <4>1
    <3> QED
      BY <3>1, <3>2
  <2>6. grave \in SUBSET DOMAIN capabilities
    OBVIOUS
  <2> HIDE DEF grave, bad
  <2> QED
    BY <2>1, <2>4, <2>5, <2>6, Tripped DEF bad, found
<1> HIDE DEF privileged, paths, capabilities, sensitive, grave, host, Tripping
<1> QED
  BY <1>1, <1>2, <1>3, <1>4, <1>5 DEF PodVerdict

-----------------------------------------------------------------------------
(* SecurityContextConstraints and Secrets.                                 *)

\* What is not set is no Boolean.
LEMMA NullIsNoBool ==
  /\ Null.type = "null" /\ Null # Bool(TRUE) /\ Null # Bool(FALSE)
  /\ Bool(TRUE).type = "bool" /\ Bool(FALSE).type = "bool"
<1>1. Null.type = "null" /\ Bool(TRUE).type = "bool" /\ Bool(FALSE).type = "bool"
  BY DEF Null, Bool
<1>2. Null # Bool(TRUE) /\ Null # Bool(FALSE)
  BY <1>1
<1> QED
  BY <1>1, <1>2

\* The code asks for either field to be true or both to be unset; the contract follows
\* what a container gets.  They agree.
LEMMA EscalationAgrees ==
  ASSUME NEW doc, IsWellFormedSCC(doc)
  PROVE  PrivilegeEscalation(doc) <=> Escalates(doc)
<1> DEFINE allow   == At(doc, "allowPrivilegeEscalation")
           default == At(doc, "defaultAllowPrivilegeEscalation")
           silent  == IF default # Null THEN default
                      ELSE IF allow # Null THEN allow ELSE Bool(TRUE)
<1>1. allow \in {Null, Bool(TRUE), Bool(FALSE)} /\ default \in {Null, Bool(TRUE), Bool(FALSE)}
  BY DEF IsWellFormedSCC
<1>2. PrivilegeEscalation(doc) <=>
        allow = Bool(TRUE) \/ default = Bool(TRUE) \/ (allow.type # "bool" /\ default.type # "bool")
  BY Zenon DEF PrivilegeEscalation, IsTrue
<1>3. Escalates(doc) <=> silent = Bool(TRUE) \/ allow = Bool(TRUE)
  BY DEF Escalates
<1> HIDE DEF allow, default
<1> QED
  BY <1>1, <1>2, <1>3, NullIsNoBool

\* The settings the code collects are those that permit something.
LEMMA PermitsAgree ==
  ASSUME NEW doc, IsWellFormedSCC(doc)
  PROVE  permissiveSCCSettings(doc) # {} <=> Permits(doc)
<1> DEFINE S1 == {field \in {"allowPrivilegedContainer", "allowHostNetwork", "allowHostPID",
                             "allowHostIPC", "allowHostPorts", "allowHostDirVolumePlugin"} :
                    IsTrue(At(doc, field))}
           S2 == {field \in {"allowPrivilegeEscalation"} : PrivilegeEscalation(doc)}
           S3 == {field \in {"allowedCapabilities"} : AnyCapability \in StringItems(At(doc, field))}
           S4 == {field \in {"allowedCapabilities", "defaultAddCapabilities"} :
                    \E capability \in StringItems(At(doc, field)) :
                      IsOneOf(capability, dangerousCapabilities)}
           S5 == {field \in {"volumes", "allowedUnsafeSysctls", "seccompProfiles"} :
                    "*" \in StringItems(At(doc, field))}
           S6 == {field \in {"runAsUser", "seLinuxContext", "fsGroup", "supplementalGroups"} :
                    At(At(doc, field), "type") = Str("RunAsAny")}
<1>1. permissiveSCCSettings(doc) = S1 \cup S2 \cup S3 \cup S4 \cup S5 \cup S6
  BY Zenon DEF permissiveSCCSettings
<1>2. Permits(doc) <=>
        \/ Escalates(doc) \/ S1 # {} \/ S6 # {} \/ S4 # {}
        \/ AnyCapability \in StringItems(At(doc, "allowedCapabilities")) \/ S5 # {}
  BY Zenon DEF Permits, IsTrue
<1>3. S2 # {} <=> Escalates(doc)
  BY EscalationAgrees
<1>4. S3 # {} <=> AnyCapability \in StringItems(At(doc, "allowedCapabilities"))
  OBVIOUS
<1> HIDE DEF S1, S2, S3, S4, S5, S6
<1> QED
  BY <1>1, <1>2, <1>3, <1>4

\* A name of one part more than two given ones.
LEMMA OneMorePart ==
  ASSUME NEW S, NEW group \in Seq(S), NEW T, NEW two \in Seq(T), Len(two) = 2,
         IsPrefix(two, group) => Len(group) <= 3
  PROVE  IsPrefix(two, group) /\ two # group <=> Front(group) = two
<1> DEFINE front == SubSeq(group, 1, Len(group) - 1)
<1>1. Len(group) \in Nat /\ DOMAIN group = 1 .. Len(group)
  OBVIOUS
<1>2. IsPrefix(two, group) <=> 2 <= Len(group) /\ \A i \in 1 .. 2 : two[i] = group[i]
  <2>1. IsPrefix(two, group) <=>
          Len(two) <= Len(group) /\ \A i \in 1 .. Len(two) : two[i] = group[i]
    BY PrefixOf
  <2> QED
    BY <2>1
<1>3. Len(group) # 0 => /\ front \in Seq(S) /\ Len(front) = Len(group) - 1
                        /\ \A i \in 1 .. Len(group) - 1 : front[i] = group[i]
  <2> DEFINE M == Len(group) - 1
  <2>1. Len(group) # 0 => M \in Nat /\ M <= Len(group)
    BY <1>1
  <2> HIDE DEF M
  <2>2. ASSUME M \in Nat, M <= Len(group)
        PROVE  LET p == SubSeq(group, 1, M)
               IN  p \in Seq(S) /\ Len(p) = M /\ \A i \in 1 .. M : p[i] = group[i]
    BY <2>2
  <2> QED
    BY <2>1, <2>2 DEF M
<1>4. Len(group) = 0 => front = << >>
  OBVIOUS
<1>5. front = Front(group)
  BY DEF Front
<1> HIDE DEF front
<1>6. ASSUME IsPrefix(two, group), two # group PROVE front = two
  <2>1. Len(group) = 3
    <3>1. Len(group) = 2 => two = group
      BY <1>1, <1>2, <1>6
    <3> QED
      BY <1>1, <1>2, <1>6, <3>1
  <2> QED
    BY <1>2, <1>3, <1>6, <2>1
<1>7. ASSUME front = two PROVE IsPrefix(two, group) /\ two # group
  <2>1. Len(group) = 3
    <3>1. Len(group) # 0
      BY <1>4, <1>7
    <3>2. Len(front) = Len(group) - 1
      BY <1>3, <3>1
    <3>3. Len(group) - 1 = 2
      BY <1>7, <3>2, Zenon
    <3> QED
      BY <3>3
  <2>2. \A i \in 1 .. 2 : two[i] = group[i]
    BY <1>3, <1>7, <2>1
  <2> QED
    BY <1>2, <2>1, <2>2
<1> QED
  BY <1>5, <1>6, <1>7

\* A group is broad exactly if it has members.
LEMMA BroadAgrees ==
  ASSUME NEW group, group \in Seq(ToSet(group)),
         IsPrefix(<<"system", "serviceaccounts">>, group) => Len(group) <= 3
  PROVE  broadSCCGroup(group) <=> Members(group) # {}
<1> DEFINE sa  == <<"system", "serviceaccounts">>
           star == <<"*">>
           auth == <<"system", "authenticated">>
           unauth == <<"system", "unauthenticated">>
<1>1. (\E T : sa \in Seq(T)) /\ Len(sa) = 2 /\ (IsPrefix(sa, group) => Len(group) <= 3)
  BY ShortPaths DEF IsPathOf
<1>2. People # {} /\ People \ {<<"anonymous">>} # {} /\ Accounts # {}
  <2>1. <<"account", "n">> \in Accounts /\ <<"account", "n">> \in People
    BY DEF People, Accounts
  <2>2. <<"account", "n">> # <<"anonymous">>
    OBVIOUS
  <2> QED
    BY <2>1, <2>2
<1>3. broadSCCGroup(group) <=>
        group \in {star, auth, unauth, sa} \/ (IsPrefix(sa, group) /\ sa # group)
  BY Zenon DEF broadSCCGroup, IsStrictPrefix
<1>4. Members(group) =
        CASE group = star -> People
          [] group = auth -> People \ {<<"anonymous">>}
          [] group = unauth -> {<<"anonymous">>}
          [] group = sa -> Accounts
          [] Front(group) = sa -> {<<"account", Last(group)>>}
          [] OTHER -> {}
  BY Zenon DEF Members
<1> HIDE DEF star, auth, unauth, sa
<1>5. IsPrefix(sa, group) /\ sa # group <=> Front(group) = sa
  BY <1>1, OneMorePart
<1>6. CASE group \in {star, auth, unauth, sa}
  <2>1. Members(group) # {}
    BY <1>2, <1>4, <1>6
  <2> QED
    BY <1>3, <1>6, <2>1
<1>7. CASE group \notin {star, auth, unauth, sa}
  <2>1. Members(group) = IF Front(group) = sa THEN {<<"account", Last(group)>>} ELSE {}
    BY <1>4, <1>7
  <2> QED
    BY <1>3, <1>5, <1>7, <2>1
<1> QED
  BY <1>6, <1>7

\* The verdict of the contract on constraints.
SCCVerdict(doc) ==
  LET named  == StringItems(At(doc, "users")) \cup StringItems(At(doc, "groups"))
      anyone == UNION {Members(group) : group \in StringItems(At(doc, "groups"))}
  IN  TripIf(Permits(doc) /\ named # {}, "KC-024",
             IF anyone # {} THEN SeverityHigh ELSE SeverityWarning)

\* The detector finds on constraints what the contract asks.
LEMMA SCCsAgree ==
  ASSUME NEW doc, IsWellFormedSCC(doc)
  PROVE  analyzeSecurityContextConstraint(doc) = SCCVerdict(doc)
<1> DEFINE groups == StringItems(At(doc, "groups"))
           anyone == UNION {Members(group) : group \in groups}
           broad == \E group \in groups : broadSCCGroup(group)
           named == StringItems(At(doc, "users")) \cup StringItems(At(doc, "groups"))
<1>1. \A group \in groups : broadSCCGroup(group) <=> Members(group) # {}
  BY BroadAgrees DEF IsWellFormedSCC
<1>2. broad <=> anyone # {}
  BY <1>1
<1>3. permissiveSCCSettings(doc) # {} <=> Permits(doc)
  BY PermitsAgree
<1>4. analyzeSecurityContextConstraint(doc) =
        TripIf(permissiveSCCSettings(doc) # {} /\ named # {}, "KC-024",
               IF broad THEN SeverityHigh ELSE SeverityWarning)
  BY Zenon DEF analyzeSecurityContextConstraint, sccSubjects
<1>5. SCCVerdict(doc) =
        TripIf(Permits(doc) /\ named # {}, "KC-024",
               IF anyone # {} THEN SeverityHigh ELSE SeverityWarning)
  BY Zenon DEF SCCVerdict
<1> HIDE DEF groups, anyone, broad, named
<1> QED
  BY <1>2, <1>3, <1>4, <1>5 DEF TripIf

\* The verdict of the contract on a Secret.
SecretVerdict(doc) ==
  LET keys  == Merged(doc)
      type  == StringOr(At(doc, "type"), "")
      owned == Has(At(At(doc, "metadata"), "annotations"), ServiceAccountName)
      token == \/ type = "kubernetes.io/service-account-token"
               \/ owned /\ TokenKey \in keys
      tells == \/ type \in credentialSecretTypes /\ keys # {}
               \/ \E key \in keys : ToSet(key.parts) \cap credentialKeyNames # {}
  IN  TripIf(token, "KC-029", SeverityHigh)
      \cup TripIf(~token /\ tells, "KC-028", SeverityWarning)

\* The detector finds on a Secret what the contract asks.
LEMMA SecretsAgree ==
  ASSUME NEW doc, IsWellFormedSecret(doc)
  PROVE  analyzeSecret(doc) = SecretVerdict(doc)
<1> DEFINE keys == Merged(doc)
           type == StringOr(At(doc, "type"), Blank)
           owned == Has(At(At(doc, "metadata"), "annotations"), ServiceAccountName)
           token == type = "kubernetes.io/service-account-token" \/ (owned /\ TokenKey \in keys)
           tells == \/ type \in credentialSecretTypes /\ keys # {}
                    \/ \E key \in keys : ToSet(key.parts) \cap credentialKeyNames # {}
<1>1. SecretVerdict(doc) = TripIf(token, "KC-029", SeverityHigh)
                             \cup TripIf(~token /\ tells, "KC-028", SeverityWarning)
  BY Zenon DEF SecretVerdict, Blank
<1>2. Entries(doc) = keys
  BY DEF Entries, Merged
<1>3. Annotations(doc) = At(At(doc, "metadata"), "annotations")
  <2>1. At(doc, "metadata.annotations") = Null
    BY Zenon DEF IsWellFormedSecret, At
  <2>2. ~IsMap(Null)
    BY DEF IsMap, Null
  <2> QED
    BY <2>1, <2>2, Zenon DEF Annotations
<1>4. At(doc, "type") = Str("kubernetes.io/service-account-token")
        <=> type = "kubernetes.io/service-account-token"
  <2> DEFINE v == At(doc, "type")
             name == "kubernetes.io/service-account-token"
  <2>1. v.type = "string" => v = Str(v.string)
    BY Zenon DEF IsWellFormedSecret
  <2>2. type = IF v.type = "string" THEN v.string ELSE Blank
    BY DEF StringOr
  <2>3. Str(name).type = "string" /\ Str(name).string = name
    BY DEF Str
  <2>4. name # Blank
    BY Zenon DEF Blank
  <2> HIDE DEF v, name, type
  <2>5. ASSUME v = Str(name) PROVE type = name
    BY <2>2, <2>3, <2>5
  <2>6. ASSUME type = name PROVE v = Str(name)
    BY <2>1, <2>2, <2>4, <2>6
  <2> QED
    BY <2>5, <2>6 DEF v, name, type
<1>5. TokenKey \in keys <=> Has(At(doc, "data"), TokenKey) \/ Has(At(doc, "stringData"), TokenKey)
  BY DEF Merged, Has
<1>6. isLongLivedServiceAccountToken(doc) <=> token
  BY <1>3, <1>4, <1>5, Zenon DEF isLongLivedServiceAccountToken
<1>7. \A key : isCredentialKey(key) <=> ToSet(key.parts) \cap credentialKeyNames # {}
  <2> SUFFICES ASSUME NEW key
               PROVE  isCredentialKey(key) <=> ToSet(key.parts) \cap credentialKeyNames # {}
    BY Zenon
  <2> DEFINE parts == key.parts
             names == credentialKeyNames
  <2>1. isCredentialKey(key) <=> \E n \in DOMAIN parts : parts[n] \in names
    BY Zenon DEF isCredentialKey
  <2> HIDE DEF parts, names
  <2>2. (\E n \in DOMAIN parts : parts[n] \in names) <=> ToSet(parts) \cap names # {}
    BY DEF ToSet
  <2> QED
    BY <2>1, <2>2 DEF parts, names
<1>8. knownCredentialType(doc) \/ credentialKeys(doc) # {} <=> tells
  <2>1. knownCredentialType(doc) <=> type \in credentialSecretTypes /\ keys # {}
    BY <1>2, Zenon DEF knownCredentialType, Blank
  <2>2. credentialKeys(doc) = {key \in keys : isCredentialKey(key)}
    BY <1>2, Zenon DEF credentialKeys
  <2> HIDE DEF keys, type
  <2> QED
    BY <1>7, <2>1, <2>2
<1>9. analyzeSecret(doc) =
        IF isLongLivedServiceAccountToken(doc)
        THEN {[rule |-> "KC-029", severity |-> SeverityHigh]}
        ELSE IF knownCredentialType(doc) \/ credentialKeys(doc) # {}
             THEN {[rule |-> "KC-028", severity |-> SeverityWarning]} ELSE {}
  BY Zenon DEF analyzeSecret
<1> HIDE DEF token, tells
<1> QED
  BY <1>1, <1>6, <1>8, <1>9 DEF TripIf

-----------------------------------------------------------------------------
(* Services, Ingresses and Routes.                                         *)

\* The k-th element from the end.
FromEnd(s, k) == s[Len(s) - k + 1]

\* Suffixes, element by element from the end.
LEMMA SuffixOf ==
  ASSUME NEW S, NEW s \in Seq(S), NEW T, NEW t \in Seq(T)
  PROVE  IsStrictSuffix(s, t)
           <=> Len(s) < Len(t) /\ \A k \in 1 .. Len(s) : FromEnd(s, k) = FromEnd(t, k)
<1> DEFINE p == Reverse(s)
           q == Reverse(t)
<1>1. p \in Seq(S) /\ Len(p) = Len(s) /\ \A k \in 1 .. Len(s) : p[k] = FromEnd(s, k)
  BY DEF Reverse, FromEnd
<1>2. q \in Seq(T) /\ Len(q) = Len(t) /\ \A k \in 1 .. Len(t) : q[k] = FromEnd(t, k)
  BY DEF Reverse, FromEnd
<1>3. IsStrictSuffix(s, t) <=> IsPrefix(p, q) /\ s # t
  BY Zenon DEF IsStrictSuffix, IsSuffix
<1>4. Len(s) \in Nat /\ Len(t) \in Nat
  OBVIOUS
<1> HIDE DEF p, q
<1>5. IsPrefix(p, q)
        <=> Len(s) <= Len(t) /\ \A k \in 1 .. Len(s) : FromEnd(s, k) = FromEnd(t, k)
  <2>1. IsPrefix(p, q) <=> Len(p) <= Len(q) /\ \A i \in 1 .. Len(p) : p[i] = q[i]
    BY <1>1, <1>2, PrefixOf
  <2>2. Len(s) <= Len(t) => \A k \in 1 .. Len(s) : p[k] = FromEnd(s, k) /\ q[k] = FromEnd(t, k)
    BY <1>1, <1>2, <1>4
  <2>3. Len(p) = Len(s) /\ Len(q) = Len(t)
    BY <1>1, <1>2
  <2> QED
    BY <2>1, <2>2, <2>3
<1>6. ASSUME Len(s) = Len(t), \A k \in 1 .. Len(s) : FromEnd(s, k) = FromEnd(t, k)
      PROVE  s = t
  <2>1. \A i \in 1 .. Len(s) : s[i] = t[i]
    <3> TAKE i \in 1 .. Len(s)
    <3> DEFINE k == Len(s) - i + 1
    <3>1. k \in 1 .. Len(s) /\ Len(s) - k + 1 = i
      BY <1>4
    <3> QED
      BY <1>6, <3>1 DEF FromEnd
  <2> QED
    BY <1>6, <2>1
<1> QED
  BY <1>3, <1>4, <1>5, <1>6

\* Host names are sequences of labels.
LEMMA HostNames ==
  /\ \A h \in Hosts : h \in Seq(HostLabels) /\ Len(h) \in 1 .. MaxLabels
  /\ \A h \in Seq(HostLabels) : Len(h) \in 1 .. MaxLabels => h \in Hosts
<1>1. MaxLabels \in Nat
  BY ValuesAssumption
<1>2. ASSUME NEW h \in Hosts PROVE h \in Seq(HostLabels) /\ Len(h) \in 1 .. MaxLabels
  <2>1. PICK n \in 1 .. MaxLabels : h \in [1 .. n -> HostLabels]
    BY DEF Hosts
  <2> QED
    BY <1>1, <2>1
<1>3. ASSUME NEW h \in Seq(HostLabels), Len(h) \in 1 .. MaxLabels PROVE h \in Hosts
  <2>1. h \in [1 .. Len(h) -> HostLabels]
    OBVIOUS
  <2> QED
    BY <1>3, <2>1 DEF Hosts
<1> QED
  BY <1>2, <1>3

\* A label in front of what follows a wildcard makes a name that it stands for.
Below(host) == <<Unnamed>> \o Tail(host)

\* What is written is a name or, but for the "*", one; the name below it nobody writes.
LEMMA WrittenHosts ==
  ASSUME NEW host, IsWritten(host), host # << >>
  PROVE  /\ \E T : host \in Seq(T)
         /\ Len(host) \in Nat \ {0}
         /\ Unnamed \notin ToSet(host)
         /\ ~IsWildcard(host) => host \in Hosts
         /\ IsWildcard(host) =>
              /\ Len(host) > 1
              /\ Tail(host) \in Seq(HostLabels) /\ Len(Tail(host)) = Len(host) - 1
              /\ \A k \in 1 .. Len(host) - 1 : FromEnd(Tail(host), k) = FromEnd(host, k)
              /\ Below(host) \in Hosts /\ Below(host) \in Seq(HostLabels)
              /\ Len(Below(host)) = Len(host)
              /\ \A k \in 1 .. Len(host) - 1 : FromEnd(Below(host), k) = FromEnd(host, k)
              /\ Unnamed \in ToSet(Below(host))
<1> DEFINE Written == (HostLabels \ {Unnamed}) \cup {"*"}
<1>1. /\ host \in Seq(Written) /\ Len(host) <= MaxLabels
      /\ IF IsWildcard(host) THEN Tail(host) \in Hosts ELSE host \in Hosts
  BY Zenon DEF IsWritten
<1>2. Unnamed \in HostLabels /\ Unnamed \notin Written /\ MaxLabels \in Nat
  BY ValuesAssumption
<1> HIDE DEF Written
<1>3. Len(host) \in Nat \ {0} /\ DOMAIN host = 1 .. Len(host)
  BY <1>1
<1>4. Unnamed \notin ToSet(host)
  BY <1>1, <1>2 DEF ToSet
<1>5. ASSUME IsWildcard(host)
      PROVE  /\ Len(host) > 1
             /\ Tail(host) \in Seq(HostLabels) /\ Len(Tail(host)) = Len(host) - 1
             /\ \A k \in 1 .. Len(host) - 1 : FromEnd(Tail(host), k) = FromEnd(host, k)
             /\ Below(host) \in Hosts /\ Below(host) \in Seq(HostLabels)
             /\ Len(Below(host)) = Len(host)
             /\ \A k \in 1 .. Len(host) - 1 : FromEnd(Below(host), k) = FromEnd(host, k)
             /\ Unnamed \in ToSet(Below(host))
  <2> DEFINE tail  == Tail(host)
             below == <<Unnamed>> \o tail
             N     == Len(host)
  <2>1. N > 1
    BY <1>5 DEF IsWildcard
  <2>2. tail \in Seq(HostLabels)
    BY <1>1, <1>5, HostNames
  <2>3. Len(tail) = N - 1 /\ \A i \in 1 .. N - 1 : tail[i] = host[i + 1]
    BY <1>1, <1>3
  <2>4. <<Unnamed>> \in Seq(HostLabels) /\ Len(<<Unnamed>>) = 1 /\ <<Unnamed>>[1] = Unnamed
    BY <1>2
  <2> DEFINE one == <<Unnamed>>
  <2> HIDE DEF tail, N, one
  <2>5. /\ below \in Seq(HostLabels) /\ Len(below) = N
        /\ DOMAIN below = 1 .. N
        /\ below[1] = Unnamed /\ \A i \in 2 .. N : below[i] = tail[i - 1]
    <3>1. below = one \o tail
      BY DEF one
    <3>2. one \in Seq(HostLabels) /\ Len(one) = 1 /\ one[1] = Unnamed
      BY <2>4 DEF one
    <3> HIDE DEF below
    <3>3. N \in Nat
      BY <1>3 DEF N
    <3>4. /\ below \in Seq(HostLabels) /\ Len(below) = Len(one) + Len(tail)
          /\ \A i \in 1 .. Len(one) + Len(tail) :
               below[i] = IF i <= Len(one) THEN one[i] ELSE tail[i - Len(one)]
      BY <2>2, <3>1, <3>2, ConcatProperties
    <3>5. DOMAIN below = 1 .. Len(below) /\ Len(one) + Len(tail) = N
      BY <2>3, <3>2, <3>3, <3>4
    <3> QED
      BY <2>1, <3>2, <3>3, <3>4, <3>5
  <2> HIDE DEF below
  <2>6. N \in Nat /\ Len(host) = N
    BY <1>3 DEF N
  <2>7. \A k \in 1 .. N - 1 : FromEnd(tail, k) = FromEnd(host, k)
    BY <2>3, <2>6 DEF FromEnd
  <2>8. \A k \in 1 .. N - 1 : FromEnd(below, k) = FromEnd(host, k)
    BY <2>3, <2>5, <2>6 DEF FromEnd
  <2>9. Unnamed \in ToSet(below)
    BY <2>1, <2>5, <2>6 DEF ToSet
  <2>10. below \in Hosts
    BY <1>1, <2>1, <2>5, <2>6, <1>2, HostNames
  <2> QED
    BY <2>1, <2>2, <2>3, <2>5, <2>6, <2>7, <2>8, <2>9, <2>10 DEF tail, below, Below
<1> QED
  BY <1>1, <1>3, <1>4, <1>5, Zenon

\* A name of one label that nobody writes.
LEMMA UnnamedHost ==
  /\ <<Unnamed>> \in Hosts /\ <<Unnamed>> \in Seq(HostLabels)
  /\ Len(<<Unnamed>>) = 1 /\ Unnamed \in ToSet(<<Unnamed>>)
<1>1. <<Unnamed>> \in Seq(HostLabels) /\ Len(<<Unnamed>>) = 1 /\ 1 \in 1 .. MaxLabels
  BY ValuesAssumption
<1>2. Unnamed \in ToSet(<<Unnamed>>)
  <2>1. 1 \in DOMAIN <<Unnamed>> /\ <<Unnamed>>[1] = Unnamed
    OBVIOUS
  <2> QED
    BY <2>1, Zenon DEF ToSet
<1> QED
  BY <1>1, <1>2, HostNames

\* The names a wildcard stands for end like it.
LEMMA WildcardStandsFor ==
  ASSUME NEW host, IsWritten(host), host # << >>, IsWildcard(host), NEW T, NEW t \in Seq(T)
  PROVE  IsStrictSuffix(Tail(host), t)
           <=> /\ Len(host) - 1 < Len(t)
               /\ \A k \in 1 .. Len(host) - 1 : FromEnd(host, k) = FromEnd(t, k)
<1>1. /\ Tail(host) \in Seq(HostLabels) /\ Len(Tail(host)) = Len(host) - 1
      /\ \A k \in 1 .. Len(host) - 1 : FromEnd(Tail(host), k) = FromEnd(host, k)
  BY WrittenHosts
<1> DEFINE tail == Tail(host)
<1> HIDE DEF tail
<1>2. tail \in Seq(HostLabels) /\ Len(tail) = Len(host) - 1
      /\ \A k \in 1 .. Len(host) - 1 : FromEnd(tail, k) = FromEnd(host, k)
  BY <1>1 DEF tail
<1>3. IsStrictSuffix(tail, t)
        <=> Len(tail) < Len(t) /\ \A k \in 1 .. Len(tail) : FromEnd(tail, k) = FromEnd(t, k)
  BY <1>2, SuffixOf
<1> QED
  BY <1>2, <1>3 DEF tail

\* What a host of a manifest stands for, case by case.
LEMMA StandsFor ==
  ASSUME NEW host, IsWritten(host)
  PROVE  /\ host = << >> => ~IsWildcard(host) /\ Matches(host) = Hosts
         /\ host # << >> /\ IsWildcard(host) =>
              Matches(host) = {h \in Hosts : Len(h) = Len(host) /\ IsStrictSuffix(Tail(host), h)}
         /\ host # << >> /\ ~IsWildcard(host) => Matches(host) = {host}
         /\ Matches(host) \subseteq Hosts
<1>1. host = << >> => ~IsWildcard(host)
  <2>1. Len(<< >>) = 0
    OBVIOUS
  <2> QED
    BY <2>1 DEF IsWildcard
<1>2. CASE host = << >>
  BY <1>1, <1>2, Zenon DEF Matches
<1>3. CASE host # << >> /\ IsWildcard(host)
  BY <1>3 DEF Matches
<1>4. CASE host # << >> /\ ~IsWildcard(host)
  <2>1. Matches(host) = {host}
    BY <1>4 DEF Matches
  <2> QED
    BY <1>4, <2>1, WrittenHosts
<1> QED
  BY <1>1, <1>2, <1>3, <1>4

\* The host of a rule ends like a wildcard of the list that is too short for it.
Stretched(host, tlsHosts) ==
  \E h \in tlsHosts : IsWildcard(h) /\ Len(h) < Len(host) /\ IsStrictSuffix(Tail(h), host)

\* Hosts of a list cover what a host stands for only if the code finds it covered by
\* one of them, since otherwise a name that nobody wrote down is left out; and they do
\* cover it then, unless it is for a wildcard that is too short.
LEMMA Covering ==
  ASSUME NEW host, IsWritten(host),
         NEW tlsHosts, \A h \in tlsHosts : IsWritten(h) /\ h # << >>
  PROVE  /\ Matches(host) \subseteq UNION {Matches(h) : h \in tlsHosts}
               => host # << >> /\ ingressHostCovered(host, tlsHosts)
         /\ host # << >> /\ ingressHostCovered(host, tlsHosts) =>
               \/ Matches(host) \subseteq UNION {Matches(h) : h \in tlsHosts}
               \/ Stretched(host, tlsHosts)
         /\ (\E h \in Matches(host) : Unnamed \in ToSet(h)) <=> host = << >> \/ IsWildcard(host)
<1> DEFINE covered == UNION {Matches(h) : h \in tlsHosts}
<1>1. \A name : name \in covered <=> \E h \in tlsHosts : name \in Matches(h)
  OBVIOUS
<1>2. ingressHostCovered(host, tlsHosts)
        <=> \E h \in tlsHosts : h = host \/ (IsWildcard(h) /\ IsStrictSuffix(Tail(h), host))
  BY Zenon DEF ingressHostCovered
<1> HIDE DEF covered
<1>3. ASSUME NEW name \in Hosts, Unnamed \in ToSet(name), NEW h \in tlsHosts
      PROVE  name \in Matches(h)
               <=> IsWildcard(h) /\ Len(name) = Len(h) /\ IsStrictSuffix(Tail(h), name)
  BY <1>3, StandsFor, WrittenHosts
\* A wildcard that the host ends like has its length, if it is not too short.
<1>4. ASSUME ~Stretched(host, tlsHosts), host # << >>,
             NEW h \in tlsHosts, IsWildcard(h), IsStrictSuffix(Tail(h), host)
      PROVE  Len(h) = Len(host)
  <2>1. Len(h) \in Nat /\ Len(host) \in Nat /\ \E T : host \in Seq(T)
    BY <1>4, WrittenHosts
  <2>2. Len(h) - 1 < Len(host)
    BY <1>4, <2>1, WildcardStandsFor
  <2>3. ~(Len(h) < Len(host))
    BY <1>4 DEF Stretched
  <2> QED
    BY <2>1, <2>2, <2>3
<1>5. CASE host = << >>
  <2> DEFINE name == <<Unnamed>>
  <2>1. name \in Hosts /\ name \in Seq(HostLabels) /\ Len(name) = 1 /\ Unnamed \in ToSet(name)
    BY UnnamedHost
  <2> HIDE DEF name
  <2>2. ASSUME NEW h \in tlsHosts PROVE name \notin Matches(h)
    <3>1. IsWildcard(h) => Len(h) # 1
      <4>1. IsWildcard(h) => Len(h) > 1 /\ Len(h) \in Nat
        BY WrittenHosts
      <4> DEFINE n == Len(h)
      <4> HIDE DEF n
      <4>2. IsWildcard(h) => n > 1 /\ n \in Nat
        BY <4>1 DEF n
      <4>3. IsWildcard(h) => n # 1
        BY <4>2
      <4> QED
        BY <4>3 DEF n
    <3>2. name \in Matches(h) => IsWildcard(h) /\ Len(name) = Len(h)
      BY <1>3, <2>1
    <3> QED
      BY <2>1, <3>1, <3>2, Zenon
  <2>3. name \in Matches(host) /\ name \notin covered
    BY <1>1, <1>5, <2>1, <2>2, StandsFor
  <2> QED
    BY <1>5, <2>1, <2>3 DEF covered
<1>6. CASE host # << >> /\ ~IsWildcard(host)
  <2>1. Matches(host) = {host} /\ Unnamed \notin ToSet(host) /\ host \in Hosts
    BY <1>6, StandsFor, WrittenHosts
  <2>2. ASSUME NEW h \in tlsHosts
        PROVE  host \in Matches(h)
                 <=> \/ h = host
                     \/ IsWildcard(h) /\ Len(host) = Len(h) /\ IsStrictSuffix(Tail(h), host)
    BY <1>6, <2>1, StandsFor
  <2>3. ~Stretched(host, tlsHosts) /\ ingressHostCovered(host, tlsHosts) => host \in covered
    BY <1>1, <1>2, <1>4, <1>6, <2>2
  <2>4. host \in covered => ingressHostCovered(host, tlsHosts)
    BY <1>1, <1>2, <2>2
  <2> QED
    BY <1>6, <2>1, <2>3, <2>4 DEF covered
<1>7. CASE host # << >> /\ IsWildcard(host)
  <2> DEFINE name == Below(host)
  <2>1. /\ name \in Hosts /\ name \in Seq(HostLabels) /\ Len(name) = Len(host)
        /\ \A k \in 1 .. Len(host) - 1 : FromEnd(name, k) = FromEnd(host, k)
        /\ Unnamed \in ToSet(name) /\ Len(host) \in Nat
    BY <1>7, WrittenHosts
  <2> HIDE DEF name
  <2>2. name \in Matches(host)
    <3>1. IsStrictSuffix(Tail(host), name)
      BY <1>7, <2>1, WildcardStandsFor
    <3> QED
      BY <1>7, <2>1, <3>1, StandsFor
  <2>3. \A h \in Matches(host) :
          h \in Hosts /\ Len(h) = Len(host) /\ IsStrictSuffix(Tail(host), h)
    BY <1>7, StandsFor
  <2>4. ASSUME NEW h \in tlsHosts, IsWildcard(h), Len(h) = Len(host),
               IsStrictSuffix(Tail(h), host)
        PROVE  Matches(host) \subseteq Matches(h)
    <3> SUFFICES ASSUME NEW other \in Matches(host)
                 PROVE  other \in Matches(h)
      OBVIOUS
    <3>1. other \in Hosts /\ other \in Seq(HostLabels) /\ Len(other) = Len(host)
      BY <2>3, HostNames
    <3>2. \A k \in 1 .. Len(host) - 1 : FromEnd(host, k) = FromEnd(other, k)
      BY <1>7, <2>3, <3>1, WildcardStandsFor
    <3>3. \E T : host \in Seq(T)
      BY <1>7, WrittenHosts
    <3>4. \A k \in 1 .. Len(h) - 1 : FromEnd(h, k) = FromEnd(host, k)
      BY <2>4, <3>3, WildcardStandsFor
    <3>5. IsStrictSuffix(Tail(h), other)
      BY <2>1, <2>4, <3>1, <3>2, <3>4, WildcardStandsFor
    <3> QED
      BY <2>4, <3>1, <3>5, StandsFor
  <2>5. ASSUME NEW h \in tlsHosts, IsWildcard(h), IsStrictSuffix(Tail(h), name)
        PROVE  IsStrictSuffix(Tail(h), host)
    <3>1. /\ Len(h) - 1 < Len(name) /\ Len(h) \in Nat
          /\ \A k \in 1 .. Len(h) - 1 : FromEnd(h, k) = FromEnd(name, k)
      BY <2>1, <2>5, WildcardStandsFor, WrittenHosts
    <3>2. /\ Len(h) - 1 < Len(host)
          /\ \A k \in 1 .. Len(h) - 1 : FromEnd(h, k) = FromEnd(host, k)
      BY <2>1, <3>1
    <3>3. \E T : host \in Seq(T)
      BY <1>7, WrittenHosts
    <3> QED
      BY <2>5, <3>2, <3>3, WildcardStandsFor
  <2>6. ASSUME ingressHostCovered(host, tlsHosts), ~Stretched(host, tlsHosts)
        PROVE  Matches(host) \subseteq covered
    <3>1. PICK h \in tlsHosts : h = host \/ (IsWildcard(h) /\ IsStrictSuffix(Tail(h), host))
      BY <1>2, <2>6
    <3>2. Matches(host) \subseteq Matches(h)
      BY <1>4, <1>7, <2>4, <2>6, <3>1
    <3> QED
      BY <1>1, <3>2
  <2>7. ASSUME Matches(host) \subseteq covered PROVE ingressHostCovered(host, tlsHosts)
    <3>1. PICK h \in tlsHosts : name \in Matches(h)
      BY <1>1, <2>2, <2>7
    <3> QED
      BY <1>2, <1>3, <2>1, <2>5, <3>1
  <2> QED
    BY <1>7, <2>1, <2>2, <2>6, <2>7 DEF covered
<1> QED
  BY <1>5, <1>6, <1>7

\* What the detector finds on an Ingress is what the contract lets it find.
LEMMA IngressesAgree ==
  ASSUME NEW doc, NEW spec, spec = At(doc, "spec"), IsWellFormedIngress(spec)
  PROVE  IngressJudged(spec, analyzeIngress(doc))
<1> DEFINE rules    == At(spec, "rules")
           tls      == At(spec, "tls")
           entries  == MapItems(tls)
           tlsHosts == UNION {StringItems(At(entry, "hosts")) : entry \in entries}
           default  == Has(spec, "defaultBackend")
           routed   == Routed(spec)
           served   == Served(spec)
           secured  == Encrypted(spec)
           listed   == UNION {Matches(h) : h \in tlsHosts}
           some     == Items(rules) # << >> \/ default
           plain    == some /\ ingressHasUnencryptedHosts(spec)
           broad    == some /\ ingressHasBroadHost(spec)
<1>1. /\ Listing(rules)
      /\ \A rule \in ItemSet(rules) : IsMap(rule) /\ IsWritten(HostOf(rule))
      /\ \A h \in tlsHosts : IsWritten(h) /\ h # << >>
  BY Zenon DEF IsWellFormedIngress
<1>2. Items(rules) = << >> <=> ItemSet(rules) = {}
  BY <1>1 DEF Listing, ItemSet
<1>3. MapItems(rules) = ItemSet(rules)
  BY <1>1 DEF MapItems
<1>4. Items(tls) = << >> => entries = {} /\ tlsHosts = {}
  <2>1. Items(tls) = << >> => ItemSet(tls) = {}
    BY DEF ItemSet
  <2> QED
    BY <2>1 DEF MapItems
<1>5. \A entry \in entries : CoversAll(entry) => Hosts \subseteq secured
  BY Zenon DEF Encrypted, CoversAll
<1>6. (~\E entry \in entries : CoversAll(entry)) => secured = listed
  <2> DEFINE CoveredBy(entry) ==
               IF StringItems(At(entry, "hosts")) = {} THEN Hosts
               ELSE UNION {Matches(h) : h \in StringItems(At(entry, "hosts"))}
  <2>1. secured = UNION {CoveredBy(entry) : entry \in entries}
    BY Zenon DEF Encrypted
  <2>2. ASSUME ~\E entry \in entries : CoversAll(entry), NEW entry \in entries
        PROVE  CoveredBy(entry) = UNION {Matches(h) : h \in StringItems(At(entry, "hosts"))}
    BY <2>2 DEF CoversAll
  <2> HIDE DEF CoveredBy, entries
  <2> QED
    BY <2>1, <2>2 DEF listed
<1>7. /\ routed = UNION {Matches(HostOf(rule)) : rule \in ItemSet(rules)}
      /\ served = IF default THEN Matches(<< >>) ELSE routed
      /\ Matches(<< >>) = Hosts
  <2>1. Matches(<< >>) = Hosts
    <3>1. IsWritten(<< >>)
      BY DEF IsWritten
    <3> QED
      BY <3>1, StandsFor
  <2> QED
    BY <2>1, Zenon DEF Served, Routed
<1>8. /\ ingressHasBroadHost(spec)
            <=> IF Items(rules) = << >> THEN default
                ELSE \E rule \in ItemSet(rules) : HostOf(rule) = << >> \/ IsWildcard(HostOf(rule))
      /\ ingressHasUnencryptedHosts(spec)
            <=> \/ Items(tls) = << >>
                \/ /\ ~\E entry \in entries : CoversAll(entry)
                   /\ IF Items(rules) = << >> THEN default
                      ELSE \E rule \in ItemSet(rules) :
                             HostOf(rule) = << >> \/ ~ingressHostCovered(HostOf(rule), tlsHosts)
      /\ analyzeIngress(doc) = TripIf(plain, "KC-026", SeverityWarning)
                               \cup TripIf(broad, "KC-027", SeverityWarning)
  <2>1. analyzeIngress(doc) =
            IF Items(rules) = << >> /\ ~default THEN {}
            ELSE TripIf(ingressHasUnencryptedHosts(spec), "KC-026", SeverityWarning)
                 \cup TripIf(ingressHasBroadHost(spec), "KC-027", SeverityWarning)
    BY Zenon DEF analyzeIngress, hasDefaultBackend
  <2>2. analyzeIngress(doc) = TripIf(plain, "KC-026", SeverityWarning)
                               \cup TripIf(broad, "KC-027", SeverityWarning)
    BY <2>1, Zenon DEF TripIf
  <2> QED
    BY <1>3, <2>2, Zenon DEF ingressHasBroadHost, ingressHasUnencryptedHosts, hasDefaultBackend
<1>9. IsWritten(<< >>)
  BY DEF IsWritten
<1>10. /\ StretchesWildcard(spec)
             <=> \E rule \in ItemSet(rules) : Stretched(HostOf(rule), tlsHosts)
       /\ HidesBackend(spec) <=> default /\ Items(rules) # << >>
  BY Zenon DEF StretchesWildcard, Stretched, HidesBackend
<1> HIDE DEF rules, tls, entries, tlsHosts, default, routed, served, secured, listed
<1>11. \A host : IsWritten(host) =>
         /\ Matches(host) \subseteq listed => host # << >> /\ ingressHostCovered(host, tlsHosts)
         /\ host # << >> /\ ingressHostCovered(host, tlsHosts) =>
              Matches(host) \subseteq listed \/ Stretched(host, tlsHosts)
         /\ (\E h \in Matches(host) : Unnamed \in ToSet(h)) <=> host = << >> \/ IsWildcard(host)
         /\ Matches(host) \subseteq Hosts
  BY <1>1, Covering, StandsFor DEF listed
<1>12. routed \subseteq Hosts /\ routed \subseteq served
  BY <1>1, <1>7, <1>11
\* What is broad.
<1>13. Items(rules) # << >> => (broad <=> AnswersUnnamed(routed))
  BY <1>1, <1>7, <1>8, <1>11 DEF AnswersUnnamed
<1>14. Items(rules) = << >> => (broad <=> AnswersUnnamed(served)) /\ ~AnswersUnnamed(routed)
  <2>1. \E host \in Hosts : Unnamed \in ToSet(host)
    BY UnnamedHost
  <2> QED
    BY <1>2, <1>7, <1>8, <2>1 DEF AnswersUnnamed
\* What is not encrypted.
<1>15. tlsHosts = {} => \A host : ~ingressHostCovered(host, tlsHosts)
  BY Zenon DEF ingressHostCovered
<1>16. ASSUME Items(rules) # << >>
       PROVE  /\ plain => ~(routed \subseteq secured)
              /\ ~(routed \subseteq secured) => plain \/ StretchesWildcard(spec)
  <2> DEFINE uncovered == \E rule \in ItemSet(rules) :
                            HostOf(rule) = << >> \/ ~ingressHostCovered(HostOf(rule), tlsHosts)
  <2>1. uncovered => ~(routed \subseteq listed)
    BY <1>1, <1>7, <1>11
  <2>2. ~(routed \subseteq listed) => uncovered \/ StretchesWildcard(spec)
    BY <1>1, <1>7, <1>10, <1>11
  <2>3. Items(tls) = << >> => uncovered
    BY <1>2, <1>4, <1>15, <1>16
  <2> HIDE DEF uncovered
  <2>4. plain <=> Items(tls) = << >>
                    \/ (~(\E entry \in entries : CoversAll(entry)) /\ uncovered)
    BY <1>8, <1>16 DEF uncovered
  <2> QED
    BY <1>4, <1>5, <1>6, <1>12, <2>1, <2>2, <2>3, <2>4
<1>17. ASSUME Items(rules) = << >>
       PROVE  /\ plain <=> ~(served \subseteq secured)
              /\ routed \subseteq secured
  <2>1. routed = {}
    BY <1>2, <1>7, <1>17
  <2>2. ~(Hosts \subseteq listed)
    BY <1>7, <1>9, <1>11
  <2>3. plain <=> default /\ (Items(tls) = << >> \/ ~\E entry \in entries : CoversAll(entry))
    BY <1>8, <1>17
  <2> QED
    BY <1>4, <1>5, <1>6, <1>7, <2>1, <2>2, <2>3
<1> HIDE DEF plain, broad
<1>18. /\ plain => ~(served \subseteq secured)
       /\ broad => AnswersUnnamed(served)
       /\ ~(routed \subseteq secured) => plain \/ StretchesWildcard(spec)
       /\ AnswersUnnamed(routed) => broad
       /\ ~HidesBackend(spec) =>
            /\ ~(served \subseteq secured) => plain \/ StretchesWildcard(spec)
            /\ AnswersUnnamed(served) => broad
  <2>1. AnswersUnnamed(routed) => AnswersUnnamed(served)
    BY <1>12 DEF AnswersUnnamed
  <2>2. Items(rules) # << >> /\ ~HidesBackend(spec) => served = routed
    BY <1>7, <1>10
  <2> QED
    BY <1>12, <1>13, <1>14, <1>16, <1>17, <2>1, <2>2
<1>19. plain \in BOOLEAN /\ broad \in BOOLEAN
  BY DEF plain, broad
<1> QED
  BY <1>8, <1>18, <1>19, Zenon DEF IngressJudged, InPlainText, served, routed, secured

\* The verdict of the contract on a Service.
ServiceVerdict(spec) ==
  TripIf(\/ StringOr(At(spec, "type"), "ClusterIP") # "ClusterIP"
         \/ StringItems(At(spec, "externalIPs")) # {},
         "KC-025", SeverityWarning)

\* The detector finds on a Service what the contract asks.
LEMMA ServicesAgree ==
  ASSUME NEW doc, NEW spec, spec = At(doc, "spec"),
         At(spec, "type") \in {Null} \cup {Str(type) : type \in ServiceTypes}
  PROVE  analyzeService(doc) = ServiceVerdict(spec)
<1> DEFINE v        == At(spec, "type")
           external == StringItems(At(spec, "externalIPs"))
           Outside  == {"LoadBalancer", "NodePort", "ExternalName"}
<1>1. v = Null \/ \E type \in ServiceTypes : v = Str(type)
  OBVIOUS
<1>2. /\ Null.type = "null"
      /\ \A type : Str(type).type = "string" /\ Str(type).string = type
  BY DEF Null, Str
<1>3. \A type \in ServiceTypes : type = "ClusterIP" \/ type \in Outside
  BY DEF ServiceTypes
<1>4. "ClusterIP" \notin Outside
  OBVIOUS
<1> HIDE DEF v, external, Outside
<1>5. v \in {Str(type) : type \in Outside} <=> StringOr(v, "ClusterIP") # "ClusterIP"
  <2>1. CASE v = Null
    <3>1. StringOr(v, "ClusterIP") = "ClusterIP"
      BY <1>2, <2>1 DEF StringOr
    <3>2. \A type : v # Str(type)
      BY <1>2, <2>1
    <3> QED
      BY <3>1, <3>2
  <2>2. ASSUME NEW type \in ServiceTypes, v = Str(type)
        PROVE  v \in {Str(t) : t \in Outside} <=> StringOr(v, "ClusterIP") # "ClusterIP"
    <3>1. StringOr(v, "ClusterIP") = type
      BY <1>2, <2>2 DEF StringOr
    <3>2. \A t : v = Str(t) => t = type
      BY <1>2, <2>2
    <3> QED
      BY <1>3, <1>4, <2>2, <3>1, <3>2
  <2> QED
    BY <1>1, <2>1, <2>2
<1>6. {Str("LoadBalancer"), Str("NodePort"), Str("ExternalName")} = {Str(type) : type \in Outside}
  BY DEF Outside
<1>7. /\ analyzeService(doc) =
            TripIf(v \in {Str(type) : type \in Outside} \/ external # {}, "KC-025", SeverityWarning)
      /\ ServiceVerdict(spec) =
            TripIf(StringOr(v, "ClusterIP") # "ClusterIP" \/ external # {}, "KC-025",
                   SeverityWarning)
  BY <1>6, Zenon DEF analyzeService, ServiceVerdict, v, external
<1> QED
  BY <1>5, <1>7, Zenon DEF TripIf

\* The verdict of the contract on a Route.
RouteVerdict(spec) ==
  LET allowed  == At(At(spec, "tls"), "insecureEdgeTerminationPolicy") = Str("Allow")
      ends     == At(At(spec, "tls"), "termination").type = "string"
  IN  TripIf(allowed \/ ~ends, "KC-026", IF allowed THEN SeverityHigh ELSE SeverityWarning)
      \cup TripIf(At(spec, "wildcardPolicy") = Str("Subdomain"), "KC-027", SeverityWarning)

\* The detector finds on a Route what the contract asks.
LEMMA RoutesAgree ==
  ASSUME NEW doc, NEW spec, spec = At(doc, "spec"), IsWellFormedRoute(spec)
  PROVE  analyzeRoute(doc) = RouteVerdict(spec)
<1> DEFINE termination == At(At(spec, "tls"), "termination")
           allowed     == At(At(spec, "tls"), "insecureEdgeTerminationPolicy") = Str("Allow")
           ends        == termination.type = "string"
           below       == At(spec, "wildcardPolicy") = Str("Subdomain")
           hasTLS      == StringOr(termination, Blank) # Blank
<1>1. IsMap(spec) /\ (ends => termination.string # Blank)
  BY Zenon DEF IsWellFormedRoute, Blank
<1>2. hasTLS <=> ends
  BY <1>1, Zenon DEF StringOr
<1>3. analyzeRoute(doc) =
        TripIf(allowed, "KC-026", SeverityHigh)
        \cup TripIf(~allowed /\ ~hasTLS, "KC-026", SeverityWarning)
        \cup TripIf(below, "KC-027", SeverityWarning)
  BY <1>1, Zenon DEF analyzeRoute, Blank
<1>4. RouteVerdict(spec) =
        TripIf(allowed \/ ~ends, "KC-026", IF allowed THEN SeverityHigh ELSE SeverityWarning)
        \cup TripIf(below, "KC-027", SeverityWarning)
  BY Zenon DEF RouteVerdict
<1> HIDE DEF allowed, ends, below, hasTLS
<1> QED
  BY <1>2, <1>3, <1>4 DEF TripIf

-----------------------------------------------------------------------------
(* NetworkPolicies.                                                        *)

\* Nothing is in a field that holds nothing.
LEMMA NothingIn ==
  /\ ~IsMap(Null) /\ ~IsList(Null) /\ DOMAIN Fields(Null) = {}
  /\ Items(Null) = << >> /\ ItemSet(Null) = {}
<1>1. ~IsMap(Null) /\ ~IsList(Null)
  BY DEF IsMap, IsList, Null
<1>2. Fields(Null) = << >> /\ Items(Null) = << >>
  BY <1>1, Zenon DEF Fields, Items
<1>3. DOMAIN << >> = {}
  OBVIOUS
<1>4. ItemSet(Null) = {}
  BY <1>2, <1>3 DEF ItemSet
<1> QED
  BY <1>1, <1>2, <1>3, <1>4

\* A pod may have no labels at all, or only one with any value.
LEMMA LabelsThereAre ==
  /\ \E none \in Labels : DOMAIN none = {}
  /\ \A name \in LabelNames, value \in LabelValues :
       \E one \in Labels : name \in DOMAIN one /\ one[name] = value
<1>1. \A names \in SUBSET LabelNames : \A label \in [names -> LabelValues] : label \in Labels
  BY DEF Labels
<1>2. \E none \in Labels : DOMAIN none = {}
  <2> DEFINE none == [name \in {} |-> name]
  <2>1. none \in [{} -> LabelValues] /\ DOMAIN none = {}
    OBVIOUS
  <2> QED
    BY <1>1, <2>1
<1>3. ASSUME NEW name \in LabelNames, NEW value \in LabelValues
      PROVE  \E one \in Labels : name \in DOMAIN one /\ one[name] = value
  <2> DEFINE one == [n \in {name} |-> value]
  <2>1. one \in [{name} -> LabelValues] /\ name \in DOMAIN one /\ one[name] = value
    OBVIOUS
  <2>2. {name} \in SUBSET LabelNames
    OBVIOUS
  <2> HIDE DEF one
  <2> QED
    BY <1>1, <2>1, <2>2
<1> QED
  BY <1>2, <1>3

\* An expression leaves out some labels.
LEMMA ExpressionLeavesOut ==
  ASSUME NEW e, At(e, "operator").string \in {"In", "NotIn", "Exists", "DoesNotExist"},
         At(e, "key").string \in LabelNames,
         At(e, "operator").string = "NotIn" => StringItems(At(e, "values")) \cap LabelValues # {}
  PROVE  \E labels \in Labels : ~Meets(labels, e)
<1> DEFINE label    == At(e, "key").string
           operator == At(e, "operator").string
           values   == StringItems(At(e, "values"))
<1>1. \A labels :
        /\ operator = "In"     => (Meets(labels, e)
                                     <=> label \in DOMAIN labels /\ labels[label] \in values)
        /\ operator = "NotIn"  => (Meets(labels, e)
                                     <=> ~(label \in DOMAIN labels /\ labels[label] \in values))
        /\ operator = "Exists" => (Meets(labels, e) <=> label \in DOMAIN labels)
        /\ operator = "DoesNotExist" => (Meets(labels, e) <=> label \notin DOMAIN labels)
  <2> TAKE labels
  <2> DEFINE among == label \in DOMAIN labels /\ labels[label] \in values
             has   == label \in DOMAIN labels
  <2>1. Meets(labels, e) =
          CASE operator = "In"           -> among
            [] operator = "NotIn"        -> ~among
            [] operator = "Exists"       -> has
            [] operator = "DoesNotExist" -> ~has
    BY Zenon DEF Meets
  <2>2. among \in BOOLEAN /\ has \in BOOLEAN
    OBVIOUS
  <2> HIDE DEF among, has, operator
  <2>3. /\ operator = "In" => Meets(labels, e) = among
        /\ operator = "NotIn" => Meets(labels, e) = ~among
        /\ operator = "Exists" => Meets(labels, e) = has
        /\ operator = "DoesNotExist" => Meets(labels, e) = ~has
    BY <2>1
  <2> QED
    BY <2>2, <2>3 DEF among, has
<1>2. /\ operator \in {"In", "NotIn", "Exists", "DoesNotExist"} /\ label \in LabelNames
      /\ operator = "NotIn" => values \cap LabelValues # {}
      /\ LabelValues # {}
  BY ValuesAssumption
<1> HIDE DEF label, operator, values
<1>3. PICK none \in Labels : DOMAIN none = {}
  BY LabelsThereAre
<1>4. CASE operator \in {"In", "Exists"}
  BY <1>1, <1>3, <1>4
<1>5. CASE operator = "NotIn"
  <2>1. PICK value \in LabelValues : value \in values
    BY <1>2, <1>5
  <2>2. PICK one \in Labels : label \in DOMAIN one /\ one[label] = value
    BY <1>2, LabelsThereAre
  <2> QED
    BY <1>1, <1>5, <2>1, <2>2
<1>6. CASE operator = "DoesNotExist"
  <2>1. PICK value \in LabelValues : TRUE
    BY <1>2
  <2>2. PICK one \in Labels : label \in DOMAIN one /\ one[label] = value
    BY <1>2, LabelsThereAre
  <2> QED
    BY <1>1, <1>6, <2>2
<1> QED
  BY <1>2, <1>4, <1>5, <1>6

\* A selector selects everything if, and only if, it is written that way.
LEMMA SelectorsAgree ==
  ASSUME NEW selector, IsWellFormedSelector(selector)
  PROVE  (\A labels \in Labels : Selects(selector, labels))
           <=> selector = Null \/ selectorSelectsAll(selector)
<1> DEFINE wanted      == At(selector, "matchLabels")
           expressions == At(selector, "matchExpressions")
<1>1. \A labels : Selects(selector, labels) <=>
        /\ \A label \in DOMAIN Fields(wanted) :
             label \in DOMAIN labels /\ Fields(wanted)[label] = Str(labels[label])
        /\ \A e \in ItemSet(expressions) : Meets(labels, e)
  BY Zenon DEF Selects
<1>2. CASE selector = Null
  <2>1. wanted = Null /\ expressions = Null
    BY <1>2, NothingIn DEF At, Has
  <2> HIDE DEF wanted, expressions
  <2> QED
    BY <1>1, <1>2, <2>1, NothingIn
<1>3. CASE selector # Null
  <2>1. /\ IsMap(selector) /\ DOMAIN selector.fields \subseteq {"matchLabels", "matchExpressions"}
        /\ wanted = Null \/ IsMap(wanted)
        /\ expressions = Null \/ IsList(expressions)
        /\ Listing(expressions)
    BY <1>3, Zenon DEF IsWellFormedSelector
  <2>2. \A e \in ItemSet(expressions) : \E labels \in Labels : ~Meets(labels, e)
    <3>1. \A e \in ItemSet(expressions) :
             /\ At(e, "operator").string \in {"In", "NotIn", "Exists", "DoesNotExist"}
             /\ At(e, "key").string \in LabelNames
             /\ At(e, "operator").string = "NotIn" =>
                  StringItems(At(e, "values")) \cap LabelValues # {}
      BY <1>3, Zenon DEF IsWellFormedSelector
    <3> QED
      BY <3>1, ExpressionLeavesOut
  <2>3. "matchLabels" \notin DOMAIN selector.fields => wanted = Null
    BY <2>1, Zenon DEF At, Has, Fields
  <2>4. "matchExpressions" \notin DOMAIN selector.fields => expressions = Null
    BY <2>1, Zenon DEF At, Has, Fields
  <2>5. selectorSelectsAll(selector) <=>
          /\ wanted = Null \/ (IsMap(wanted) /\ DOMAIN wanted.fields = {})
          /\ expressions = Null \/ (IsList(expressions) /\ expressions.items = << >>)
    <3> DEFINE NoLabels      == wanted = Null \/ (IsMap(wanted) /\ DOMAIN wanted.fields = {})
               NoExpressions == expressions = Null
                                  \/ (IsList(expressions) /\ expressions.items = << >>)
               Passes(key) ==
                 LET v == At(selector, key)
                 IN  CASE key = "matchLabels"      -> v = Null \/ (IsMap(v) /\ DOMAIN v.fields = {})
                       [] key = "matchExpressions" -> v = Null \/ (IsList(v) /\ v.items = << >>)
                       [] OTHER -> FALSE
    <3>1. selectorSelectsAll(selector)
            <=> IsMap(selector) /\ \A key \in DOMAIN selector.fields : Passes(key)
      BY Zenon DEF selectorSelectsAll
    <3>2. NoLabels \in BOOLEAN /\ NoExpressions \in BOOLEAN
      OBVIOUS
    <3>3. Passes("matchLabels") = NoLabels /\ Passes("matchExpressions") = NoExpressions
      OBVIOUS
    <3> HIDE DEF Passes, NoLabels, NoExpressions
    <3>4. selectorSelectsAll(selector)
            <=> /\ "matchLabels" \in DOMAIN selector.fields => NoLabels
                /\ "matchExpressions" \in DOMAIN selector.fields => NoExpressions
      BY <2>1, <3>1, <3>3
    <3> QED
      BY <2>3, <2>4, <3>4 DEF NoLabels, NoExpressions
  <2> HIDE DEF wanted, expressions
  <2>6. (wanted = Null \/ (IsMap(wanted) /\ DOMAIN wanted.fields = {}))
          <=> DOMAIN Fields(wanted) = {}
    BY <2>1, NothingIn, Zenon DEF Fields
  <2>7. (expressions = Null \/ (IsList(expressions) /\ expressions.items = << >>))
          <=> ItemSet(expressions) = {}
    <3>1. Items(expressions) = << >> <=> ItemSet(expressions) = {}
      BY <2>1 DEF Listing, ItemSet
    <3> QED
      BY <2>1, <3>1, NothingIn, Zenon DEF Items
  <2>8. PICK none \in Labels : DOMAIN none = {}
    BY LabelsThereAre
  <2> QED
    BY <1>1, <1>3, <2>2, <2>5, <2>6, <2>7, <2>8
<1> QED
  BY <1>2, <1>3

\* No address is out of a block exactly if it has neither a prefix nor exceptions: an
\* address with another first bit, or one of the first exception, is left out.
LEMMA BlocksAgree ==
  ASSUME NEW ipBlock, IsWellFormedBlock(ipBlock)
  PROVE  (\E family \in Families : Addresses(family) \subseteq Block(ipBlock))
           <=> ipBlockMatchesAllIPs(ipBlock)
<1> DEFINE cidr   == StringOr(At(ipBlock, "cidr"), NoPrefix)
           except == At(ipBlock, "except")
           out    == StringItems(except)
           block  == Block(ipBlock)
<1>1. /\ cidr = NoPrefix \/ IsCidr(cidr, cidr.family)
      /\ except = Null \/ IsList(except)
      /\ Listing(except)
      /\ \A x \in ItemSet(except) : x.type = "string" /\ IsCidr(x.string, cidr.family)
  BY Zenon DEF IsWellFormedBlock
<1>2. ipBlockMatchesAllIPs(ipBlock) <=>
        /\ cidr # NoPrefix /\ cidr.bits = << >>
        /\ except = Null \/ (IsList(except) /\ except.items = << >>)
  BY Zenon DEF ipBlockMatchesAllIPs
<1>3. \A address : address \in block <=>
        address \in AddressesIn(cidr) /\ \A c \in out : address \notin AddressesIn(c)
  BY DEF Block
<1> HIDE DEF cidr, except, out, block
<1>4. (except = Null \/ (IsList(except) /\ except.items = << >>)) <=> out = {}
  <2>1. Items(except) = << >> <=> ItemSet(except) = {}
    BY <1>1 DEF Listing, ItemSet
  <2>2. out = {} <=> ItemSet(except) = {}
    BY <1>1 DEF out, StringItems
  <2> QED
    BY <1>1, <2>1, <2>2, NothingIn, Zenon DEF Items
<1>5. \A c \in out : IsCidr(c, cidr.family)
  BY <1>1 DEF out, StringItems
<1>6. /\ NoPrefix.family \notin Families
      /\ \A family \in Families : AddressBits[family] \in Nat \ {0}
  BY ValuesAssumption DEF NoPrefix, Families
<1>7. \A c : c # NoPrefix =>
        \A address : address \in AddressesIn(c)
                        <=> address \in Addresses(c.family) /\ IsPrefix(c.bits, address.bits)
  BY Zenon DEF AddressesIn
<1>8. AddressesIn(NoPrefix) = {}
  BY Zenon DEF AddressesIn
<1>9. \A family, address : address \in Addresses(family) =>
        address.family = family /\ address.bits \in [1 .. AddressBits[family] -> {0, 1}]
  BY DEF Addresses
<1>10. \A family : \A bits \in [1 .. AddressBits[family] -> {0, 1}] :
         \E address \in Addresses(family) : address.bits = bits
  <2> TAKE family
  <2> TAKE bits \in [1 .. AddressBits[family] -> {0, 1}]
  <2> DEFINE address == [family |-> family, bits |-> bits]
  <2>1. address \in Addresses(family) /\ address.bits = bits
    BY DEF Addresses
  <2> QED
    BY <2>1
\* Bits begin an address if they are its first.
<1>11. ASSUME NEW c, NEW family \in Families, IsCidr(c, family),
              NEW bits \in [1 .. AddressBits[family] -> {0, 1}]
       PROVE  IsPrefix(c.bits, bits) <=> \A i \in 1 .. Len(c.bits) : c.bits[i] = bits[i]
  <2> DEFINE N == AddressBits[family]
             p == c.bits
  <2>1. N \in Nat /\ bits \in [1 .. N -> {0, 1}] /\ p \in Seq({0, 1}) /\ Len(p) <= N
    BY <1>6, <1>11 DEF IsCidr
  <2> HIDE DEF N, p
  <2>2. bits \in Seq({0, 1}) /\ Len(bits) = N
    BY <2>1
  <2>3. IsPrefix(p, bits) <=> Len(p) <= Len(bits) /\ \A i \in 1 .. Len(p) : p[i] = bits[i]
    <3>1. (\E S : p \in Seq(S)) /\ (\E T : bits \in Seq(T))
      BY <2>1, <2>2
    <3> QED
      BY <3>1, PrefixOf
  <2> QED
    BY <2>1, <2>2, <2>3 DEF p
<1>12. ASSUME cidr # NoPrefix, cidr.bits = << >>, out = {}
       PROVE  \E family \in Families : Addresses(family) \subseteq block
  <2>1. cidr.family \in Families /\ IsCidr(cidr, cidr.family)
    BY <1>1, <1>12 DEF IsCidr
  <2>2. ASSUME NEW address \in Addresses(cidr.family) PROVE address \in block
    <3>1. address.bits \in [1 .. AddressBits[cidr.family] -> {0, 1}]
      BY <1>9
    <3>2. Len(cidr.bits) = 0
      BY <1>12
    <3>3. IsPrefix(cidr.bits, address.bits)
      BY <1>11, <2>1, <3>1, <3>2
    <3> QED
      BY <1>3, <1>7, <1>12, <3>3
  <2> QED
    BY <2>1, <2>2
<1>13. ASSUME NEW family \in Families, Addresses(family) \subseteq block
       PROVE  cidr # NoPrefix /\ cidr.bits = << >> /\ out = {}
  <2> DEFINE N == AddressBits[family]
  <2>1. N \in Nat \ {0}
    BY <1>6
  <2>2. /\ cidr # NoPrefix /\ cidr.family = family /\ IsCidr(cidr, family)
        /\ \A bits \in [1 .. N -> {0, 1}] : IsPrefix(cidr.bits, bits)
    <3>1. \A bits \in [1 .. N -> {0, 1}] : \E address \in Addresses(family) :
            address.bits = bits /\ address \in AddressesIn(cidr)
      BY <1>3, <1>10, <1>13
    <3>2. [i \in 1 .. N |-> 0] \in [1 .. N -> {0, 1}]
      OBVIOUS
    <3>3. \E address : address \in Addresses(family) /\ address \in AddressesIn(cidr)
      BY <3>1, <3>2
    <3>4. cidr # NoPrefix /\ cidr.family = family
      BY <1>7, <1>8, <1>9, <3>3
    <3> QED
      BY <1>1, <1>7, <3>1, <3>4
  <2>3. /\ cidr.bits \in Seq({0, 1}) /\ Len(cidr.bits) <= N
        /\ \A bits \in [1 .. N -> {0, 1}] : \A i \in 1 .. Len(cidr.bits) : cidr.bits[i] = bits[i]
    BY <1>11, <2>2 DEF IsCidr
  <2>4. cidr.bits = << >>
    <3> SUFFICES ASSUME cidr.bits # << >> PROVE FALSE
      OBVIOUS
    <3> DEFINE p == cidr.bits
    <3>1. p \in Seq({0, 1}) /\ p # << >>
      BY <2>3
    <3> HIDE DEF p, N
    <3>2. 1 \in 1 .. Len(p) /\ p[1] \in {0, 1}
      BY <3>1
    <3> DEFINE other == [i \in 1 .. N |-> 1 - p[1]]
    <3>3. other \in [1 .. N -> {0, 1}] /\ other[1] = 1 - p[1]
      BY <2>1, <3>2 DEF N
    <3> HIDE DEF other
    <3>4. p[1] = other[1]
      BY <2>3, <3>2, <3>3 DEF p, N
    <3> QED
      BY <3>2, <3>3, <3>4
  <2>5. out = {}
    <3> SUFFICES ASSUME NEW c \in out PROVE FALSE
      OBVIOUS
    <3> DEFINE bits == [i \in 1 .. N |-> IF i <= Len(c.bits) THEN c.bits[i] ELSE 0]
    <3>1. IsCidr(c, family) /\ c # NoPrefix /\ c.family = family
      BY <1>5, <1>6, <2>2 DEF IsCidr
    <3>2. c.bits \in Seq({0, 1}) /\ Len(c.bits) <= N
      BY <3>1 DEF IsCidr
    <3>3. bits \in [1 .. N -> {0, 1}] /\ \A i \in 1 .. Len(c.bits) : c.bits[i] = bits[i]
      <4> DEFINE p == c.bits
      <4>1. p \in Seq({0, 1}) /\ Len(p) <= N /\ Len(p) \in Nat /\ N \in Nat
            /\ \A i \in 1 .. Len(p) : p[i] \in {0, 1}
        BY <2>1, <3>2
      <4> HIDE DEF p, N
      <4>2. [i \in 1 .. N |-> IF i <= Len(p) THEN p[i] ELSE 0] \in [1 .. N -> {0, 1}]
        BY <4>1
      <4>3. \A i \in 1 .. Len(p) : p[i] = [j \in 1 .. N |-> IF j <= Len(p) THEN p[j] ELSE 0][i]
        BY <4>1
      <4> QED
        BY <4>2, <4>3 DEF p
    <3> HIDE DEF bits, N
    <3>4. IsPrefix(c.bits, bits)
      BY <1>11, <3>1, <3>3 DEF N
    <3>5. PICK address \in Addresses(family) : address.bits = bits
      BY <1>10, <3>3 DEF N
    <3> QED
      BY <1>3, <1>7, <1>13, <3>1, <3>4, <3>5
  <2> QED
    BY <2>2, <2>4, <2>5
<1> QED
  BY <1>2, <1>4, <1>12, <1>13 DEF block

\* A namespaceSelector that is written but null.
Hides(peer) == Has(peer, "namespaceSelector") /\ At(peer, "namespaceSelector") = Null

\* A peer the code finds broad leaves nothing of its kind out; one that leaves nothing
\* out is found unless a null selector hides it.
LEMMA PeersAgree ==
  ASSUME NEW peer,
         IsWellFormedSelector(At(peer, "podSelector")),
         IsWellFormedSelector(At(peer, "namespaceSelector")),
         IsWellFormedBlock(At(peer, "ipBlock"))
  PROVE  /\ BroadPeer(peer) => IsBroad(peer)
         /\ IsBroad(peer) => BroadPeer(peer) \/ Hides(peer)
<1> DEFINE pods       == At(peer, "podSelector")
           namespaces == At(peer, "namespaceSelector")
           written    == Has(peer, "namespaceSelector")
           empty      == DOMAIN peer.fields = {}
           broadBlock == \E family \in Families :
                           Addresses(family) \subseteq Block(At(peer, "ipBlock"))
<1>1. BroadPeer(peer) <=>
        \/ empty
        \/ selectorSelectsAll(namespaces)
        \/ (selectorSelectsAll(pods) /\ ~written)
        \/ ipBlockMatchesAllIPs(At(peer, "ipBlock"))
  BY Zenon DEF BroadPeer
<1>2. IsBroad(peer) <=>
        \/ empty
        \/ \A namespace \in Labels : LooksInto(peer, FALSE, namespace)
        \/ /\ \A namespace \in Labels : LooksInto(peer, TRUE, namespace)
           /\ \A pod \in Labels : LetsThrough(peer, pod)
        \/ broadBlock
  BY Zenon DEF IsBroad
<1>3. ipBlockMatchesAllIPs(At(peer, "ipBlock")) <=> broadBlock
  BY BlocksAgree, Zenon
<1>4. /\ (\A labels \in Labels : Selects(pods, labels)) <=> pods = Null \/ selectorSelectsAll(pods)
      /\ (\A labels \in Labels : Selects(namespaces, labels))
            <=> namespaces = Null \/ selectorSelectsAll(namespaces)
  BY SelectorsAgree, Zenon
<1>5. \A home \in BOOLEAN : \A labels :
        LooksInto(peer, home, labels)
          <=> IF namespaces # Null THEN Selects(namespaces, labels) ELSE home /\ pods # Null
  BY Zenon DEF LooksInto
<1>6. \A labels : LetsThrough(peer, labels) <=> (pods # Null => Selects(pods, labels))
  BY Zenon DEF LetsThrough
<1>7. \A selector : selectorSelectsAll(selector) => selector # Null
  BY NothingIn, Zenon DEF selectorSelectsAll
<1>8. ~written => namespaces = Null
  BY Zenon DEF At
<1>9. Hides(peer) <=> written /\ namespaces = Null
  BY Zenon DEF Hides
<1>10. \E labels : labels \in Labels
  BY LabelsThereAre
<1> HIDE DEF pods, namespaces, written, empty, broadBlock
<1>11. (\A labels \in Labels : LooksInto(peer, FALSE, labels)) <=> selectorSelectsAll(namespaces)
  BY <1>4, <1>5, <1>7, <1>10
<1>12. namespaces = Null =>
         (/\ \A labels \in Labels : LooksInto(peer, TRUE, labels)
          /\ \A labels \in Labels : LetsThrough(peer, labels)) <=> selectorSelectsAll(pods)
  BY <1>4, <1>5, <1>6, <1>7, <1>10
<1>13. namespaces # Null =>
         ((\A labels \in Labels : LooksInto(peer, TRUE, labels)) => selectorSelectsAll(namespaces))
  BY <1>4, <1>5
<1> QED
  BY <1>1, <1>2, <1>3, <1>8, <1>9, <1>11, <1>12, <1>13

\* Lists of rules, no list of peers and an empty one being everybody.
LEMMA PeerListsAgree ==
  ASSUME NEW rules, NEW peers,
         \A rule \in MapItems(rules) : IsWellFormedRule(rule, peers)
  PROVE  /\ broadNetworkPolicyPeers(rules, peers) => AdmitsBroadly(rules, peers)
         /\ AdmitsBroadly(rules, peers) =>
              \/ broadNetworkPolicyPeers(rules, peers)
              \/ \E rule \in MapItems(rules) : \E peer \in MapItems(At(rule, peers)) : Hides(peer)
<1>1. ASSUME NEW rule \in MapItems(rules)
      PROVE  /\ BroadRule(rule, peers) =>
                  \/ Items(At(rule, peers)) = << >>
                  \/ \E peer \in MapItems(At(rule, peers)) : IsBroad(peer)
             /\ Items(At(rule, peers)) = << >> => BroadRule(rule, peers)
             /\ \A peer \in MapItems(At(rule, peers)) :
                  IsBroad(peer) => BroadRule(rule, peers) \/ Hides(peer)
  <2> DEFINE listed == At(rule, peers)
  <2>1. /\ listed = Null \/ IsList(listed)
        /\ \A peer \in MapItems(listed) :
             /\ IsWellFormedSelector(At(peer, "podSelector"))
             /\ IsWellFormedSelector(At(peer, "namespaceSelector"))
             /\ IsWellFormedBlock(At(peer, "ipBlock"))
    BY Zenon DEF IsWellFormedRule
  <2>2. BroadRule(rule, peers) <=>
          \/ listed = Null
          \/ IsList(listed) /\ listed.items = << >>
          \/ \E peer \in MapItems(listed) : BroadPeer(peer)
    BY Zenon DEF BroadRule
  <2> HIDE DEF listed
  <2>3. Items(listed) = << >> <=> listed = Null \/ (IsList(listed) /\ listed.items = << >>)
    BY <2>1, NothingIn, Zenon DEF Items
  <2>4. \A peer \in MapItems(listed) :
          /\ BroadPeer(peer) => IsBroad(peer)
          /\ IsBroad(peer) => BroadPeer(peer) \/ Hides(peer)
    BY <2>1, PeersAgree
  <2> QED
    BY <2>2, <2>3, <2>4 DEF listed
<1> QED
  BY <1>1, Zenon DEF broadNetworkPolicyPeers, AdmitsBroadly

\* The directions, as the code has them.
LEMMA DirectionsAgree ==
  ASSUME NEW spec
  PROVE  \A direction \in {"Ingress", "Egress"} :
           networkPolicyDirectionEnabled(spec, direction) <=> direction \in Governs(spec)
<1> DEFINE types == StringItems(At(spec, "policyTypes"))
           some  == Items(At(spec, "egress")) # << >>
<1>1. Governs(spec) = IF types = {} THEN {"Ingress"} \cup {d \in {"Egress"} : some} ELSE types
  BY Zenon DEF Governs
<1>2. \A direction : networkPolicyDirectionEnabled(spec, direction)
                      <=> IF types # {} THEN direction \in types ELSE direction = "Ingress" \/ some
  BY Zenon DEF networkPolicyDirectionEnabled
<1> HIDE DEF types, some
<1> QED
  BY <1>1, <1>2

\* The verdict of the contract on a NetworkPolicy.
PolicyVerdict(spec) ==
  LET severity == IF \A pod \in Labels : Selects(At(spec, "podSelector"), pod)
                  THEN SeverityHigh ELSE SeverityWarning
  IN  TripIf("Ingress" \in Governs(spec) /\ AdmitsBroadly(At(spec, "ingress"), "from"),
             "KC-017", severity)
      \cup TripIf("Egress" \in Governs(spec) /\ AdmitsBroadly(At(spec, "egress"), "to"),
                  "KC-018", severity)

\* The detector finds on a NetworkPolicy what the contract asks, and misses nothing
\* but what a null selector hides.
LEMMA PoliciesAgree ==
  ASSUME NEW doc, NEW spec, spec = At(doc, "spec"), IsWellFormedPolicy(spec)
  PROVE  /\ analyzeNetworkPolicy(doc) \subseteq PolicyVerdict(spec)
         /\ analyzeNetworkPolicy(doc) # PolicyVerdict(spec) => HidesPodSelector(spec)
<1> DEFINE inward   == "Ingress" \in Governs(spec)
           outward  == "Egress" \in Governs(spec)
           ingress  == At(spec, "ingress")
           egress   == At(spec, "egress")
           severity == IF \A pod \in Labels : Selects(At(spec, "podSelector"), pod)
                       THEN SeverityHigh ELSE SeverityWarning
<1>1. /\ IsWellFormedSelector(At(spec, "podSelector"))
      /\ \A rule \in MapItems(ingress) : IsWellFormedRule(rule, "from")
      /\ \A rule \in MapItems(egress) : IsWellFormedRule(rule, "to")
  BY Zenon DEF IsWellFormedPolicy
<1>2. networkPolicySeverity(spec) = severity
  <2> DEFINE selector == At(spec, "podSelector")
  <2>1. (\A pod \in Labels : Selects(selector, pod))
          <=> selector = Null \/ selectorSelectsAll(selector)
    BY <1>1, SelectorsAgree
  <2>2. networkPolicySeverity(spec) =
          IF selector = Null \/ selectorSelectsAll(selector) THEN SeverityHigh ELSE SeverityWarning
    BY Zenon DEF networkPolicySeverity
  <2> HIDE DEF selector
  <2> QED
    BY <2>1, <2>2 DEF selector
<1>3. PolicyVerdict(spec) =
        TripIf(inward /\ AdmitsBroadly(ingress, "from"), "KC-017", severity)
        \cup TripIf(outward /\ AdmitsBroadly(egress, "to"), "KC-018", severity)
  BY Zenon DEF PolicyVerdict
<1>4. analyzeNetworkPolicy(doc) =
        TripIf(inward /\ broadNetworkPolicyPeers(ingress, "from"), "KC-017", severity)
        \cup TripIf(outward /\ broadNetworkPolicyPeers(egress, "to"), "KC-018", severity)
  <2> DEFINE In  == networkPolicyDirectionEnabled(spec, "Ingress")
             Out == networkPolicyDirectionEnabled(spec, "Egress")
  <2>1. (In <=> inward) /\ (Out <=> outward)
    BY DirectionsAgree
  <2>2. analyzeNetworkPolicy(doc) =
          TripIf(In /\ broadNetworkPolicyPeers(ingress, "from"), "KC-017",
                 networkPolicySeverity(spec))
          \cup TripIf(Out /\ broadNetworkPolicyPeers(egress, "to"), "KC-018",
                      networkPolicySeverity(spec))
    BY Zenon DEF analyzeNetworkPolicy
  <2> HIDE DEF In, Out, inward, outward, severity
  <2> QED
    BY <1>2, <2>1, <2>2, Zenon DEF TripIf
<1>5. HidesPodSelector(spec) <=>
        \E rule \in MapItems(ingress) \cup MapItems(egress) :
          \E peer \in MapItems(At(rule, "from")) \cup MapItems(At(rule, "to")) : Hides(peer)
  BY Zenon DEF HidesPodSelector, Hides
<1> HIDE DEF inward, outward, ingress, egress, severity
<1>6. /\ broadNetworkPolicyPeers(ingress, "from") => AdmitsBroadly(ingress, "from")
      /\ AdmitsBroadly(ingress, "from") =>
           broadNetworkPolicyPeers(ingress, "from") \/ HidesPodSelector(spec)
  BY <1>1, <1>5, PeerListsAgree
<1>7. /\ broadNetworkPolicyPeers(egress, "to") => AdmitsBroadly(egress, "to")
      /\ AdmitsBroadly(egress, "to") =>
           broadNetworkPolicyPeers(egress, "to") \/ HidesPodSelector(spec)
  BY <1>1, <1>5, PeerListsAgree
<1> QED
  BY <1>3, <1>4, <1>6, <1>7 DEF TripIf

-----------------------------------------------------------------------------

\* A verdict of a detector: rules with a severity of the scale, never that of a chain.
IsTrips(S) ==
  \A t \in S : /\ t = [rule |-> t.rule, severity |-> t.severity]
               /\ t.rule # "KC-013"
               /\ t.severity \in Severity

\* One rule with one severity.
LEMMA OneTrip ==
  ASSUME NEW rule, rule # "KC-013", NEW severity \in Severity
  PROVE  IsTrips({[rule |-> rule, severity |-> severity]})
BY DEF IsTrips

\* Nothing at all.
LEMMA NoTrips == IsTrips({})
BY DEF IsTrips

\* Two verdicts together.
LEMMA MoreTrips ==
  ASSUME NEW S, NEW T, IsTrips(S), IsTrips(T)
  PROVE  IsTrips(S \cup T)
BY DEF IsTrips

\* What RaisedBy gives is a severity.
LEMMA RaisedIsSeverity ==
  ASSUME NEW list, NEW S, IsListOf(list, S), NEW high
  PROVE  RaisedBy(list, high) \in Severity
<1>1. Len(list) \in Nat
  BY EmptyOrNot
<1> QED
  BY <1>1, Raised
  DEF Severity, SeverityInfo, SeverityWarning, SeverityHigh, SeverityCritical

\* Every detector gives one, on any document of the shape the parser gives it.
LEMMA DetectorsTrip ==
  ASSUME NEW doc
  PROVE  /\ IsTrips(analyzeNetworkPolicy(doc))
         /\ IsTrips(analyzeSecurityContextConstraint(doc))
         /\ IsTrips(analyzeService(doc))
         /\ IsTrips(analyzeIngress(doc))
         /\ IsTrips(analyzeRoute(doc))
         /\ IsTrips(analyzeSecret(doc))
<1>1. SeverityWarning \in Severity /\ SeverityHigh \in Severity
  BY DEF Severity, SeverityInfo, SeverityWarning, SeverityHigh, SeverityCritical
<1>2. \A rule, severity : rule # "KC-013" /\ severity \in Severity
                            => IsTrips({[rule |-> rule, severity |-> severity]})
  BY OneTrip
<1>3. \A c, rule, severity : rule # "KC-013" /\ severity \in Severity
                               => IsTrips(TripIf(c, rule, severity))
  BY <1>2, NoTrips DEF TripIf
<1>4. \A S, T : IsTrips(S) /\ IsTrips(T) => IsTrips(S \cup T)
  BY MoreTrips
<1>5. /\ "KC-017" # "KC-013" /\ "KC-018" # "KC-013" /\ "KC-024" # "KC-013"
      /\ "KC-025" # "KC-013" /\ "KC-026" # "KC-013" /\ "KC-027" # "KC-013"
      /\ "KC-028" # "KC-013" /\ "KC-029" # "KC-013"
  OBVIOUS
<1>6. IsTrips(analyzeNetworkPolicy(doc))
  <2>1. \A spec : networkPolicySeverity(spec) \in Severity
    BY <1>1, Zenon DEF networkPolicySeverity
  <2> QED
    BY <1>3, <1>4, <1>5, <2>1, Zenon DEF analyzeNetworkPolicy
<1>7. IsTrips(analyzeSecurityContextConstraint(doc))
  <2>1. \A c : (IF c THEN SeverityHigh ELSE SeverityWarning) \in Severity
    BY <1>1
  <2> QED
    BY <1>3, <1>5, <2>1, Zenon DEF analyzeSecurityContextConstraint
<1>8. IsTrips(analyzeService(doc))
  BY <1>1, <1>3, <1>5, Zenon DEF analyzeService
<1>9. IsTrips(analyzeIngress(doc))
  BY <1>1, <1>3, <1>4, <1>5, NoTrips, Zenon DEF analyzeIngress
<1>10. IsTrips(analyzeRoute(doc))
  BY <1>1, <1>3, <1>4, <1>5, NoTrips, Zenon DEF analyzeRoute
<1>11. IsTrips(analyzeSecret(doc))
  BY <1>1, <1>2, <1>5, NoTrips, Zenon DEF analyzeSecret
<1> QED
  BY <1>6, <1>7, <1>8, <1>9, <1>10, <1>11

\* So does the detector of pods and workloads.
LEMMA WorkloadsTrip ==
  ASSUME NEW doc, NEW kind, NEW podSpec, podSpec = extractPodSpec(doc, kind),
         PodLists(podSpec), IsWellFormedPod(podSpec)
  PROVE  IsTrips(analyzeWorkloadSecurityObject(doc, kind))
<1> DEFINE privileged   == privilegedContainers(podSpec)
           paths        == hostPathDetails(podSpec)
           capabilities == capabilityDetails(podSpec)
           sensitive    == {n \in DOMAIN paths : sensitiveHostPath(HostPath(paths[n]))}
           grave        == {n \in DOMAIN capabilities :
                              IsOneOf(capabilities[n].string, highRiskCapabilities)}
           host         == IF hostNamespaces(podSpec) = {} THEN SeverityInfo ELSE SeverityHigh
           Tripping(severity, rule) == TripIf(severity # SeverityInfo, rule, severity)
<1>1. analyzeWorkloadSecurityObject(doc, kind) =
        Tripping(RaisedBy(privileged, DOMAIN privileged), "KC-019")
        \cup Tripping(host, "KC-020")
        \cup Tripping(RaisedBy(paths, sensitive), "KC-021")
        \cup Tripping(RaisedBy(capabilities, grave), "KC-022")
  BY DEF analyzeWorkloadSecurityObject
<1>2. \A severity \in Severity : \A rule \in {"KC-019", "KC-020", "KC-021", "KC-022"} :
        IsTrips(Tripping(severity, rule))
  BY OneTrip, NoTrips DEF TripIf
<1>3. host \in Severity
  BY DEF Severity, SeverityInfo, SeverityWarning, SeverityHigh, SeverityCritical
<1>4. RaisedBy(privileged, DOMAIN privileged) \in Severity
  BY PrivilegedFound, RaisedIsSeverity
<1>5. RaisedBy(paths, sensitive) \in Severity
  BY PathsFound, RaisedIsSeverity
<1>6. RaisedBy(capabilities, grave) \in Severity
  BY CapabilitiesFound, RaisedIsSeverity
<1>7. \A S, T : IsTrips(S) /\ IsTrips(T) => IsTrips(S \cup T)
  BY MoreTrips
<1> HIDE DEF privileged, paths, capabilities, sensitive, grave, host, Tripping
<1> QED
  BY <1>1, <1>2, <1>3, <1>4, <1>5, <1>6, <1>7
-----------------------------------------------------------------------------

\* A finding on an object says which, and what is said of it is one of its trips.
LEMMA FindingFacts ==
  ASSUME NEW kind, NEW obj, NEW trips
  PROVE  /\ \A f \in FindingsOn(kind, obj, trips) :
              /\ f.kind = kind /\ f.name = obj.name /\ f.namespace = obj.namespace
              /\ \E t \in trips : f.rule = t.rule /\ f.severity = t.severity
         /\ \A t \in trips : \E f \in FindingsOn(kind, obj, trips) :
              f.rule = t.rule /\ f.severity = t.severity
<1> DEFINE of(t) == newFinding(t.rule, t.severity, kind, obj, "document")
<1>1. FindingsOn(kind, obj, trips) = {of(t) : t \in trips}
  BY DEF FindingsOn
<1>2. \A t : /\ of(t).kind = kind /\ of(t).name = obj.name /\ of(t).namespace = obj.namespace
             /\ of(t).rule = t.rule /\ of(t).severity = t.severity
  BY DEF newFinding
<1> HIDE DEF of
<1> QED
  BY <1>1, <1>2

\* The kinds of workloads.
WorkloadKinds ==
  {"Deployment", "DaemonSet", "StatefulSet", "Job", "CronJob", "ReplicaSet",
   "ReplicationController", "DeploymentConfig"}

\* What the loader hands over of pods and workloads, and how keys tell objects apart.
LEMMA ObjectFacts ==
  ASSUME res \in Inputs
  PROVE  /\ \A u \in Users : u.kind \in {"Pod"} \cup WorkloadKinds
         /\ \A u, other \in Users :
              u.kind = other.kind /\ u.name = other.name /\ u.namespace = other.namespace
                => u = other
         /\ \A objs \in {res.networkPolicies, res.sccs, res.services, res.ingresses,
                         res.routes, res.secrets} : \A obj, other \in objs :
              obj.name = other.name /\ obj.namespace = other.namespace => obj = other
         /\ \A u \in Users : /\ PodLists(extractPodSpec(u.doc, u.kind))
                             /\ IsWellFormedPod(extractPodSpec(u.doc, u.kind))
         /\ \A scc \in res.sccs : IsWellFormedSCC(scc.doc)
         /\ \A secret \in res.secrets : IsWellFormedSecret(secret.doc)
         /\ \A policy \in res.networkPolicies : IsWellFormedPolicy(At(policy.doc, "spec"))
         /\ \A ingress \in res.ingresses : IsWellFormedIngress(At(ingress.doc, "spec"))
         /\ \A route \in res.routes : IsWellFormedRoute(At(route.doc, "spec"))
         /\ \A service \in res.services :
              At(At(service.doc, "spec"), "type")
                \in {Null} \cup {Str(type) : type \in ServiceTypes}
<1>1. /\ \A u \in res.pods : u.kind = "Pod"
      /\ \A u \in res.workloads : u.kind \in WorkloadKinds
  BY InputsAssumption, Zenon DEF LoadedInputs, WorkloadKinds
<1>2. \A u \in Users : u.kind \in {"Pod"} \cup WorkloadKinds
  BY <1>1 DEF Users
<1>3. \A u, other \in Users :
        u.kind = other.kind /\ u.name = other.name /\ u.namespace = other.namespace => u = other
  BY InputsAssumption, Zenon DEF LoadedInputs, Users
<1>4. \A map \in {"networkPolicies", "sccs", "services", "ingresses", "routes", "secrets"} :
        \A obj, other \in res[map] :
          obj.name = other.name /\ obj.namespace = other.namespace => obj = other
  BY InputsAssumption, Zenon DEF LoadedInputs
<1>5. \A objs \in {res.networkPolicies, res.sccs, res.services, res.ingresses,
                   res.routes, res.secrets} : \A obj, other \in objs :
        obj.name = other.name /\ obj.namespace = other.namespace => obj = other
  BY <1>4
<1>6. \A u \in Users : PodLists(extractPodSpec(u.doc, u.kind))
  BY InputsAssumption, Zenon DEF LoadedInputs, Users
<1>7. \A u \in Users : IsWellFormedPod(PodSpec(u.doc, u.kind))
  BY DocumentsAssumption, Zenon DEF Users
<1>8. \A u \in Users : IsWellFormedPod(extractPodSpec(u.doc, u.kind))
  BY <1>7, SamePodSpec
<1>9. /\ \A scc \in res.sccs : IsWellFormedSCC(scc.doc)
      /\ \A secret \in res.secrets : IsWellFormedSecret(secret.doc)
      /\ \A policy \in res.networkPolicies : IsWellFormedPolicy(At(policy.doc, "spec"))
      /\ \A ingress \in res.ingresses : IsWellFormedIngress(At(ingress.doc, "spec"))
      /\ \A route \in res.routes : IsWellFormedRoute(At(route.doc, "spec"))
      /\ \A service \in res.services :
           At(At(service.doc, "spec"), "type")
             \in {Null} \cup {Str(type) : type \in ServiceTypes}
  BY DocumentsAssumption, Zenon
<1> QED
  BY <1>2, <1>3, <1>5, <1>6, <1>8, <1>9

\* What is found on a pod or a workload, and on an object of the other kinds.
OnUser(u) == FindingsOn(u.kind, u, analyzeWorkloadSecurityObject(u.doc, u.kind))

\* The findings on objects are those on each of them.
LEMMA ObjectsFound ==
  /\ \A f \in OnPods \cup OnWorkloads : \E u \in Users : f \in OnUser(u)
  /\ \A u \in Users : OnUser(u) \subseteq OnObjects
  /\ \A f : f \in OnPolicies <=> \E obj \in res.networkPolicies :
       f \in FindingsOn("NetworkPolicy", obj, analyzeNetworkPolicy(obj.doc))
  /\ \A f : f \in OnSCCs <=> \E obj \in res.sccs :
       f \in FindingsOn("SecurityContextConstraints", obj,
                        analyzeSecurityContextConstraint(obj.doc))
  /\ \A f : f \in OnServices <=> \E obj \in res.services :
       f \in FindingsOn("Service", obj, analyzeService(obj.doc))
  /\ \A f : f \in OnIngresses <=> \E obj \in res.ingresses :
       f \in FindingsOn("Ingress", obj, analyzeIngress(obj.doc))
  /\ \A f : f \in OnRoutes <=> \E obj \in res.routes :
       f \in FindingsOn("Route", obj, analyzeRoute(obj.doc))
  /\ \A f : f \in OnSecrets <=> \E obj \in res.secrets :
       f \in FindingsOn("Secret", obj, analyzeSecret(obj.doc))
  /\ OnPolicies \cup OnSCCs \cup OnServices \cup OnIngresses \cup OnRoutes \cup OnSecrets
       \subseteq OnObjects
<1>1. \A f \in OnPods \cup OnWorkloads : \E u \in Users : f \in OnUser(u)
  BY DEF OnPods, OnWorkloads, analyzeWorkloadSecurity, Users, OnUser
<1>2. \A u \in Users : OnUser(u) \subseteq OnPods \cup OnWorkloads
  BY DEF OnPods, OnWorkloads, analyzeWorkloadSecurity, Users, OnUser
<1>3. \A f : f \in OnPolicies <=> \E obj \in res.networkPolicies :
       f \in FindingsOn("NetworkPolicy", obj, analyzeNetworkPolicy(obj.doc))
  BY DEF OnPolicies, Judged
<1>4. \A f : f \in OnSCCs <=> \E obj \in res.sccs :
       f \in FindingsOn("SecurityContextConstraints", obj,
                        analyzeSecurityContextConstraint(obj.doc))
  BY DEF OnSCCs, Judged
<1>5. \A f : f \in OnServices <=> \E obj \in res.services :
       f \in FindingsOn("Service", obj, analyzeService(obj.doc))
  BY DEF OnServices, Judged
<1>6. \A f : f \in OnIngresses <=> \E obj \in res.ingresses :
       f \in FindingsOn("Ingress", obj, analyzeIngress(obj.doc))
  BY DEF OnIngresses, Judged
<1>7. \A f : f \in OnRoutes <=> \E obj \in res.routes :
       f \in FindingsOn("Route", obj, analyzeRoute(obj.doc))
  BY DEF OnRoutes, Judged
<1>8. \A f : f \in OnSecrets <=> \E obj \in res.secrets :
       f \in FindingsOn("Secret", obj, analyzeSecret(obj.doc))
  BY DEF OnSecrets, Judged
<1> QED
  BY <1>1, <1>2, <1>3, <1>4, <1>5, <1>6, <1>7, <1>8 DEF OnObjects

\* Every finding on an object has a severity and is none of a chain; its kind tells
\* which list the object is from.
LEMMA ObjectFindings ==
  ASSUME res \in Inputs
  PROVE  /\ \A f \in OnObjects : f.severity \in Severity /\ f.rule # "KC-013"
         /\ \A f \in OnObjects : f.kind \in {"Pod"} \cup WorkloadKinds
              => \E u \in Users : f \in OnUser(u)
         /\ \A f \in OnObjects :
              /\ f.kind = "NetworkPolicy"              => f \in OnPolicies
              /\ f.kind = "SecurityContextConstraints" => f \in OnSCCs
              /\ f.kind = "Service"                    => f \in OnServices
              /\ f.kind = "Ingress"                    => f \in OnIngresses
              /\ f.kind = "Route"                      => f \in OnRoutes
              /\ f.kind = "Secret"                     => f \in OnSecrets
<1>1. \A kind, obj, trips : IsTrips(trips) =>
        \A f \in FindingsOn(kind, obj, trips) :
          f.kind = kind /\ f.severity \in Severity /\ f.rule # "KC-013"
  <2> SUFFICES ASSUME NEW kind, NEW obj, NEW trips, IsTrips(trips),
                      NEW f \in FindingsOn(kind, obj, trips)
               PROVE  f.kind = kind /\ f.severity \in Severity /\ f.rule # "KC-013"
    BY Zenon
  <2> QED
    BY FindingFacts DEF IsTrips
<1>2. \A u \in Users : IsTrips(analyzeWorkloadSecurityObject(u.doc, u.kind))
  BY ObjectFacts, WorkloadsTrip
<1>3. \A f \in OnPods \cup OnWorkloads :
        f.kind \in {"Pod"} \cup WorkloadKinds /\ f.severity \in Severity /\ f.rule # "KC-013"
  <2> SUFFICES ASSUME NEW f \in OnPods \cup OnWorkloads
               PROVE  /\ f.kind \in {"Pod"} \cup WorkloadKinds
                      /\ f.severity \in Severity /\ f.rule # "KC-013"
    OBVIOUS
  <2>1. PICK u \in Users : f \in OnUser(u)
    BY ObjectsFound
  <2> QED
    BY <1>1, <1>2, <2>1, ObjectFacts DEF OnUser
<1>4. \A f \in OnPolicies : f.kind = "NetworkPolicy" /\ f.severity \in Severity /\ f.rule # "KC-013"
  BY <1>1, ObjectsFound, DetectorsTrip
<1>5. \A f \in OnSCCs : /\ f.kind = "SecurityContextConstraints"
                        /\ f.severity \in Severity /\ f.rule # "KC-013"
  BY <1>1, ObjectsFound, DetectorsTrip
<1>6. \A f \in OnServices : f.kind = "Service" /\ f.severity \in Severity /\ f.rule # "KC-013"
  BY <1>1, ObjectsFound, DetectorsTrip
<1>7. \A f \in OnIngresses : f.kind = "Ingress" /\ f.severity \in Severity /\ f.rule # "KC-013"
  BY <1>1, ObjectsFound, DetectorsTrip
<1>8. \A f \in OnRoutes : f.kind = "Route" /\ f.severity \in Severity /\ f.rule # "KC-013"
  BY <1>1, ObjectsFound, DetectorsTrip
<1>9. \A f \in OnSecrets : f.kind = "Secret" /\ f.severity \in Severity /\ f.rule # "KC-013"
  BY <1>1, ObjectsFound, DetectorsTrip
<1>10. \A f \in OnObjects : f.severity \in Severity /\ f.rule # "KC-013"
  BY <1>3, <1>4, <1>5, <1>6, <1>7, <1>8, <1>9 DEF OnObjects
<1>11. \A f \in OnObjects : f.kind \in {"Pod"} \cup WorkloadKinds => f \in OnPods \cup OnWorkloads
  BY <1>4, <1>5, <1>6, <1>7, <1>8, <1>9 DEF OnObjects, WorkloadKinds
<1>12. \A f \in OnObjects :
         /\ f.kind = "NetworkPolicy"              => f \in OnPolicies
         /\ f.kind = "SecurityContextConstraints" => f \in OnSCCs
         /\ f.kind = "Service"                    => f \in OnServices
         /\ f.kind = "Ingress"                    => f \in OnIngresses
         /\ f.kind = "Route"                      => f \in OnRoutes
         /\ f.kind = "Secret"                     => f \in OnSecrets
  BY <1>3, <1>4, <1>5, <1>6, <1>7, <1>8, <1>9 DEF OnObjects, WorkloadKinds
<1> QED
  BY <1>10, <1>11, <1>12, ObjectsFound
-----------------------------------------------------------------------------

\* The findings of a list that are on no role.
OnOthers(list) == {f \in ToSet(list) : ~OnRole(f)}

\* What the walk over the chains reports.
ChainFacts ==
  \A f \in ToSet(chainFindings) :
    f.severity \in Severity /\ (f.rule = "KC-013" \/ f.kind = "RoleBinding")

\* What the phases have found so far on objects other than roles.
Others ==
  (IF phase \in {"chains", "done"} THEN OnObjects ELSE {})
    \cup (IF phase = "done" THEN ToSet(chainFindings) ELSE {})

\* Of the other objects the list has what the detectors and the chains found, from
\* the phase on that appends it, and nothing else.
OInv == ChainFacts /\ OnOthers(findings) = Others

\* Lists put one after the other.
LEMMA OthersJoined ==
  ASSUME NEW p, NEW q, p \in Seq(ToSet(p)), q \in Seq(ToSet(q))
  PROVE  OnOthers(p \o q) = OnOthers(p) \cup OnOthers(q)
<1>1. ToSet(p \o q) = ToSet(p) \cup ToSet(q)
  BY Joined
<1> QED
  BY <1>1 DEF OnOthers

\* One finding more.
LEMMA SetAppended ==
  ASSUME NEW list, list \in Seq(ToSet(list)), NEW f
  PROVE  /\ ToSet(Append(list, f)) = ToSet(list) \cup {f}
         /\ Append(list, f) \in Seq(ToSet(Append(list, f)))
<1> DEFINE one == <<f>>
<1>1. one \in Seq(ToSet(one)) /\ ToSet(one) = {f}
  BY DEF ToSet
<1>2. Append(list, f) = list \o one
  <2>1. list \in Seq(ToSet(list) \cup {f})
    OBVIOUS
  <2> QED
    BY <2>1
<1> HIDE DEF one
<1>3. list \o one \in Seq(ToSet(list \o one)) /\ ToSet(list \o one) = ToSet(list) \cup ToSet(one)
  BY <1>1, Joined
<1> QED
  BY <1>1, <1>2, <1>3

\* The list of a walk grows by one finding at most.
LEMMA ChainAppended ==
  ASSUME NEW list, list \in Seq(ToSet(list)), NEW f
  PROVE  ToSet(Chains!appendIfNew(list, f)) \subseteq ToSet(list) \cup {f}
BY SetAppended DEF Chains!appendIfNew

\* The walk reports chains only.
LEMMA WalkReports ==
  ASSUME IInv, ChainFacts, Chains!Next
  PROVE  ChainFacts'
<1>1. chainFindings \in Seq(ToSet(chainFindings))
  BY DEF IInv, ChainPlace, HoldsOnce
<1>2. Chains!SeverityCritical \in Severity /\ Chains!SeverityWarning \in Severity
  BY DEF Severity, SeverityInfo, SeverityCritical, Chains!SeverityCritical, Chains!SeverityWarning
<1>3. \A user, binding :
        /\ Chains!ClusterAdminFinding(user, binding).severity \in Severity
        /\ Chains!ClusterAdminFinding(user, binding).rule = "KC-013"
  BY <1>2 DEF Chains!ClusterAdminFinding
<1>4. \A binding, users :
        /\ Chains!RoleBindingFinding(binding, users).severity \in Severity
        /\ Chains!RoleBindingFinding(binding, users).kind = "RoleBinding"
  BY <1>2 DEF Chains!RoleBindingFinding
<1>5. \A f : /\ f.severity \in Severity /\ (f.rule = "KC-013" \/ f.kind = "RoleBinding")
             /\ chainFindings' \in {chainFindings, Chains!appendIfNew(chainFindings, f)}
             => ChainFacts'
  <2> SUFFICES ASSUME NEW f, f.severity \in Severity, f.rule = "KC-013" \/ f.kind = "RoleBinding",
                      chainFindings' \in {chainFindings, Chains!appendIfNew(chainFindings, f)}
               PROVE  ChainFacts'
    OBVIOUS
  <2>1. ToSet(Chains!appendIfNew(chainFindings, f)) \subseteq ToSet(chainFindings) \cup {f}
    BY <1>1, ChainAppended
  <2>2. ToSet(chainFindings') \subseteq ToSet(chainFindings) \cup {f}
    BY <2>1
  <2> QED
    BY <2>2 DEF ChainFacts
<1>6. CASE Chains!CheckClusterRoleBinding
  BY <1>3, <1>5, <1>6 DEF Chains!CheckClusterRoleBinding
<1>7. CASE Chains!CheckRoleBinding
  BY <1>4, <1>5, <1>7 DEF Chains!CheckRoleBinding
<1>8. CASE Chains!CheckStandalone
  BY <1>4, <1>5, <1>8 DEF Chains!CheckStandalone
<1>9. ASSUME chainFindings' = chainFindings PROVE ChainFacts'
  BY <1>9 DEF ChainFacts
<1>10. \/ Chains!CheckClusterRoleBinding \/ Chains!CheckRoleBinding \/ Chains!CheckStandalone
       \/ chainFindings' = chainFindings
  BY DEF Chains!Next, Chains!CollectRef, Chains!EndPods, Chains!EndWorkloads,
         Chains!EndClusterRoleBindings, Chains!EndRoleBindings, Chains!EndStandalone
<1> QED
  BY <1>6, <1>7, <1>8, <1>9, <1>10

\* Nothing is loaded in the run that ends at once.
LEMMA OthersBegin == Init => OInv
<1> SUFFICES ASSUME Init PROVE OInv
  OBVIOUS
<1>1. /\ chainFindings = << >> /\ findings = << >>
      /\ phase = IF IsEmpty(res) THEN "done" ELSE "clusterRoles"
  BY DEF Init, Chains!Init
<1>2. ToSet(<< >>) = {}
  BY DEF ToSet
<1>3. IsEmpty(res) => OnObjects = {}
  <2> SUFFICES ASSUME IsEmpty(res), NEW f \in OnObjects PROVE FALSE
    OBVIOUS
  <2>1. /\ res.pods = {} /\ res.workloads = {} /\ res.networkPolicies = {} /\ res.sccs = {}
        /\ res.services = {} /\ res.ingresses = {} /\ res.routes = {} /\ res.secrets = {}
    BY DEF IsEmpty
  <2> QED
    BY <2>1, ObjectsFound DEF OnObjects, Users
<1> QED
  BY <1>1, <1>2, <1>3 DEF OInv, ChainFacts, OnOthers, Others

\* The visits of the roles append findings on roles only.
LEMMA VisitsKeepOthers ==
  ASSUME IInv, OInv, VisitClusterRole \/ VisitRole
  PROVE  OInv'
<1>1. phase \in {"clusterRoles", "roles"} /\ UNCHANGED <<res, phase, chain>>
  BY DEF VisitClusterRole, VisitRole
<1>2. /\ res \in Inputs
      /\ unvisited \subseteq IF phase = "clusterRoles" THEN res.clusterRoles ELSE res.roles
  BY DEF IInv, Place
<1>3. findings \in Seq(ToSet(findings))
  BY DEF IInv, HoldsOnce
<1>4. \A S : IsFiniteSet(S) => Listed(S) \in Seq(ToSet(Listed(S))) /\ ToSet(Listed(S)) = S
  <2> SUFFICES ASSUME NEW S, IsFiniteSet(S)
               PROVE  Listed(S) \in Seq(ToSet(Listed(S))) /\ ToSet(Listed(S)) = S
    OBVIOUS
  <2>1. ListsOnce(Listed(S), S)
    BY ListedOnce
  <2> QED
    BY <2>1 DEF ListsOnce, ToSet
<1>5. OnOthers(findings') = OnOthers(findings)
  <2>1. CASE VisitClusterRole
    <3>1. PICK cr \in unvisited :
            findings' = (IF cr.aggregated THEN appendIfNew(findings, AggregatedFinding(cr))
                         ELSE findings) \o Listed(ClusterRoleFindings(cr))
      BY <2>1 DEF VisitClusterRole
    <3> DEFINE begun == IF cr.aggregated THEN appendIfNew(findings, AggregatedFinding(cr))
                        ELSE findings
               list  == Listed(ClusterRoleFindings(cr))
    <3>2. cr \in res.clusterRoles
      BY <1>2, <2>1, <3>1 DEF VisitClusterRole
    <3>3. AggregatedFinding(cr).kind = "ClusterRole"
      BY DEF AggregatedFinding, newFinding
    <3>4. /\ ToSet(Append(findings, AggregatedFinding(cr)))
               = ToSet(findings) \cup {AggregatedFinding(cr)}
          /\ Append(findings, AggregatedFinding(cr))
               \in Seq(ToSet(Append(findings, AggregatedFinding(cr))))
      BY <1>3, SetAppended
    <3>5. begun \in Seq(ToSet(begun)) /\ OnOthers(begun) = OnOthers(findings)
      BY <1>3, <3>3, <3>4 DEF appendIfNew, OnOthers, OnRole
    <3>6. /\ IsFiniteSet(ClusterRoleFindings(cr))
          /\ \A f \in ClusterRoleFindings(cr) : f.kind = "ClusterRole"
      BY <1>2, <3>2, OnRoleFacts DEF OfClusterRole
    <3>7. list \in Seq(ToSet(list)) /\ ToSet(list) = ClusterRoleFindings(cr)
      BY <1>4, <3>6
    <3>8. OnOthers(list) = {}
      BY <3>6, <3>7 DEF OnOthers, OnRole
    <3>9. findings' = begun \o list
      BY <3>1
    <3> HIDE DEF begun, list
    <3>10. OnOthers(begun \o list) = OnOthers(begun) \cup OnOthers(list)
      BY <3>5, <3>7, OthersJoined
    <3> QED
      BY <3>5, <3>8, <3>9, <3>10
  <2>2. CASE VisitRole
    <3>1. PICK role \in unvisited : findings' = findings \o Listed(NamespacedRoleFindings(role))
      BY <2>2 DEF VisitRole
    <3> DEFINE list == Listed(NamespacedRoleFindings(role))
    <3>2. role \in res.roles
      BY <1>2, <2>2, <3>1 DEF VisitRole
    <3>3. /\ IsFiniteSet(NamespacedRoleFindings(role))
          /\ \A f \in NamespacedRoleFindings(role) : f.kind = "Role"
      BY <1>2, <3>2, OnRoleFacts DEF OfRole
    <3>4. list \in Seq(ToSet(list)) /\ ToSet(list) = NamespacedRoleFindings(role)
      BY <1>4, <3>3
    <3>5. OnOthers(list) = {}
      BY <3>3, <3>4 DEF OnOthers, OnRole
    <3>6. findings' = findings \o list
      BY <3>1
    <3> HIDE DEF list
    <3>7. OnOthers(findings \o list) = OnOthers(findings) \cup OnOthers(list)
      BY <1>3, <3>4, OthersJoined
    <3> QED
      BY <3>5, <3>6, <3>7
  <2> QED
    BY <2>1, <2>2
<1>6. Others = {} /\ Others' = {}
  BY <1>1 DEF Others
<1>7. ChainFacts'
  BY <1>1 DEF OInv, ChainFacts, chain
<1>8. OnOthers(findings)' = OnOthers(findings')
  BY DEF OnOthers
<1> QED
  BY <1>5, <1>6, <1>7, <1>8 DEF OInv

\* The phases after them append what the detectors and the chains report.
LEMMA PhasesKeepOthers ==
  ASSUME IInv, OInv, EndClusterRoles \/ EndRoles \/ RunDetectors \/ AppendChains
  PROVE  OInv'
<1>1. UNCHANGED <<res, chain>>
  BY DEF EndClusterRoles, EndRoles, RunDetectors, AppendChains
<1>2. ChainFacts'
  BY <1>1 DEF OInv, ChainFacts, chain
<1>3. OnObjects' = OnObjects
  BY <1>1 DEF OnObjects, OnPods, OnWorkloads, OnPolicies, OnSCCs, OnServices, OnIngresses,
              OnRoutes, OnSecrets, analyzeWorkloadSecurity, Judged
<1>4. chainFindings' = chainFindings
  BY <1>1 DEF chain
<1>5. findings \in Seq(ToSet(findings)) /\ res \in Inputs
  BY DEF IInv, HoldsOnce, Place
<1>6. \A list : HoldsOnce(list, {})
        => list \in Seq(ToSet(list)) /\ OnOthers(list) = ToSet(list)
  BY DEF HoldsOnce, OnOthers
<1>7. CASE EndClusterRoles \/ EndRoles
  BY <1>2, <1>7 DEF EndClusterRoles, EndRoles, OInv, Others, OnOthers
<1>8. CASE RunDetectors
  <2>1. HoldsOnce(DetectorFindings, {}) /\ ToSet(DetectorFindings) = OnObjects
    BY <1>5, DetectorsFound DEF Reports
  <2>2. OnOthers(findings \o DetectorFindings) = OnOthers(findings) \cup OnObjects
    BY <1>5, <1>6, <2>1, OthersJoined
  <2>3. phase = "detectors" /\ phase' = "chains" /\ findings' = findings \o DetectorFindings
    BY <1>8 DEF RunDetectors
  <2>4. Others = {} /\ Others' = OnObjects
    BY <1>3, <2>3 DEF Others
  <2>5. OnOthers(findings)' = OnOthers(findings \o DetectorFindings)
    BY <2>3 DEF OnOthers
  <2> QED
    BY <1>2, <2>2, <2>4, <2>5 DEF OInv
<1>9. CASE AppendChains
  <2>1. HoldsOnce(chainFindings, {})
    BY DEF IInv, ChainPlace
  <2>2. OnOthers(findings \o chainFindings) = OnOthers(findings) \cup ToSet(chainFindings)
    BY <1>5, <1>6, <2>1, OthersJoined
  <2>3. phase = "chains" /\ phase' = "done" /\ findings' = findings \o chainFindings
    BY <1>9 DEF AppendChains
  <2>4. Others = OnObjects /\ Others' = OnObjects \cup ToSet(chainFindings)
    BY <1>3, <1>4, <2>3 DEF Others
  <2>5. OnOthers(findings)' = OnOthers(findings \o chainFindings)
    BY <2>3 DEF OnOthers
  <2> QED
    BY <1>2, <2>2, <2>4, <2>5 DEF OInv
<1> QED
  BY <1>7, <1>8, <1>9

\* Nothing found on an object other than a role is lost or made up on the way.
THEOREM OthersInvariant == Spec => []OInv
<1>1. ASSUME IInv, OInv, WalkChains PROVE OInv'
  <2>1. ChainFacts'
    BY <1>1, WalkReports DEF WalkChains, OInv
  <2>2. phase = "chains" /\ UNCHANGED own /\ res' = res
    BY <1>1 DEF WalkChains, Chains!Next, Chains!CollectRef, Chains!EndPods, Chains!EndWorkloads,
         Chains!CheckClusterRoleBinding, Chains!EndClusterRoleBindings,
         Chains!CheckRoleBinding, Chains!EndRoleBindings,
         Chains!CheckStandalone, Chains!EndStandalone
  <2>3. Others' = Others
    BY <2>2 DEF own, Others, OnObjects, OnPods, OnWorkloads, OnPolicies, OnSCCs, OnServices,
                OnIngresses, OnRoutes, OnSecrets, analyzeWorkloadSecurity, Judged
  <2> QED
    BY <1>1, <2>1, <2>2, <2>3 DEF OInv, own, OnOthers
<1>2. ASSUME OInv, UNCHANGED vars PROVE OInv'
  <2>1. UNCHANGED <<res, phase, findings, chainFindings>>
    BY <1>2 DEF vars, own, chain
  <2>2. Others' = Others
    BY <2>1 DEF Others, OnObjects, OnPods, OnWorkloads, OnPolicies, OnSCCs, OnServices,
                OnIngresses, OnRoutes, OnSecrets, analyzeWorkloadSecurity, Judged
  <2> QED
    BY <1>2, <2>1, <2>2 DEF OInv, ChainFacts, OnOthers
<1>3. IInv /\ OInv /\ [Next]_vars => OInv'
  BY <1>1, <1>2, VisitsKeepOthers, PhasesKeepOthers DEF Next
<1> QED
  BY AnalysisInvariant, OthersBegin, <1>3, PTL DEF Spec
-----------------------------------------------------------------------------

\* A finding on a role is rated on the scale.
LEMMA RatedIsSeverity ==
  ASSUME NEW wide \in BOOLEAN, NEW narrow \in BOOLEAN, NEW w \in BOOLEAN
  PROVE  /\ Rated(ScopeOf(wide, narrow), FALSE, w) \in Severity
         /\ Rated(ScopeOf(FALSE, narrow), TRUE, w) \in Severity
<1>1. {SeverityInfo, SeverityWarning, SeverityHigh, SeverityCritical} \subseteq Severity
  BY DEF Severity, SeverityInfo, SeverityWarning, SeverityHigh, SeverityCritical
<1>2. Rated(ScopeOf(wide, narrow), FALSE, w)
        \in {SeverityInfo, SeverityWarning, SeverityHigh, SeverityCritical}
  BY Ratings
<1>3. Rated(ScopeOf(FALSE, narrow), TRUE, w) \in {SeverityInfo, SeverityWarning}
  BY Ratings
<1> QED
  BY <1>1, <1>2, <1>3

\* So is everything found on the roles visited so far.
LEMMA RolesRated ==
  ASSUME IInv
  PROVE  \A f \in OnVisited : f.severity \in Severity
<1>1. /\ res \in Inputs
      /\ VisitedClusterRoles \subseteq res.clusterRoles /\ VisitedRoles \subseteq res.roles
  BY DEF IInv, Place, VisitedClusterRoles, VisitedRoles
<1>2. ASSUME NEW cr \in res.clusterRoles, NEW f \in OfClusterRole(cr)
      PROVE  f.severity \in Severity
  <2>1. AggregatedFinding(cr).severity \in Severity
    BY DEF AggregatedFinding, newFinding, Severity, SeverityInfo, SeverityCritical
  <2>2. CASE f \in ClusterRoleFindings(cr)
    <3>1. cr.rules \in Seq(Rule)
      BY <1>1, InputFacts
    <3>2. PICK key \in KeysOf(cr) :
            IsCheck(f, cr, "ClusterRole", resolveClusterRoleScope(cr.name), FALSE, key)
      BY <2>2, <3>1, CheckedFacts DEF ClusterRoleFindings
    <3>3. PICK w \in BOOLEAN : f.severity = Rated(resolveClusterRoleScope(cr.name), FALSE, w)
      BY <3>2 DEF IsCheck
    <3>4. \E wide, narrow \in BOOLEAN : resolveClusterRoleScope(cr.name) = ScopeOf(wide, narrow)
      BY ScopeIsHandsOut
    <3> QED
      BY <3>3, <3>4, RatedIsSeverity
  <2> QED
    BY <2>1, <2>2 DEF OfClusterRole
<1>3. ASSUME NEW role \in res.roles, NEW f \in OfRole(role)
      PROVE  f.severity \in Severity
  <2>1. role.rules \in Seq(Rule)
    BY <1>1, InputFacts
  <2>2. PICK key \in KeysOf(role) : IsCheck(f, role, "Role", resolveRoleScope(role), TRUE, key)
    BY <1>3, <2>1, CheckedFacts DEF OfRole, NamespacedRoleFindings
  <2>3. PICK w \in BOOLEAN : f.severity = Rated(resolveRoleScope(role), TRUE, w)
    BY <2>2 DEF IsCheck
  <2>4. \E narrow \in BOOLEAN : resolveRoleScope(role) = ScopeOf(FALSE, narrow)
    BY ScopeIsHandsOut
  <2> QED
    BY <2>3, <2>4, RatedIsSeverity
<1> QED
  BY <1>1, <1>2, <1>3 DEF OnVisited

\* The analysis stays in its phases and its maps, and every finding it lists, on a
\* role, an object or a chain, has a severity of the scale.
THEOREM AnalysisTypes == Spec => []TypeOK
<1>1. ASSUME IInv, OInv, NEW f \in ToSet(findings)
      PROVE  f.severity \in Severity
  <2>1. CASE OnRole(f)
    <3>1. f \in OnVisited
      BY <1>1, <2>1 DEF IInv, HoldsOnce
    <3> QED
      BY <1>1, <3>1, RolesRated
  <2>2. CASE ~OnRole(f)
    <3>1. f \in OnObjects \/ f \in ToSet(chainFindings)
      BY <1>1, <2>2 DEF OInv, OnOthers, Others
    <3>2. res \in Inputs
      BY <1>1 DEF IInv, Place
    <3> QED
      BY <1>1, <3>1, <3>2, ObjectFindings DEF OInv, ChainFacts
  <2> QED
    BY <2>1, <2>2
<1>2. IInv /\ OInv => TypeOK
  BY <1>1 DEF TypeOK, IInv, Place
<1> QED
  BY AnalysisInvariant, OthersInvariant, <1>2, PTL

\* What is reported of an object at the end is what its detector finds on it.
LEMMA VerdictIs ==
  ASSUME IInv, OInv, Returned,
         NEW kind, kind \notin {"ClusterRole", "Role", "RoleBinding"},
         NEW obj, NEW trips, IsTrips(trips), FindingsOn(kind, obj, trips) \subseteq OnObjects,
         \A f \in OnObjects :
           f.kind = kind /\ f.name = obj.name /\ f.namespace = obj.namespace
             => f \in FindingsOn(kind, obj, trips)
  PROVE  Verdict(kind, obj) = trips
<1> DEFINE About1 == {g \in ToSet(findings) :
                        /\ g.kind = kind /\ g.name = obj.name /\ g.namespace = obj.namespace
                        /\ g.rule # "KC-013"}
<1>1. Verdict(kind, obj) = {[rule |-> f.rule, severity |-> f.severity] : f \in About1}
  BY DEF Verdict
<1>2. OnOthers(findings) = OnObjects \cup ToSet(chainFindings)
  BY DEF OInv, Others, Returned
<1>3. ASSUME NEW f \in About1
      PROVE  f \in FindingsOn(kind, obj, trips)
  <2>1. f \in OnOthers(findings)
    BY DEF OnOthers, OnRole
  <2>2. f \notin ToSet(chainFindings)
    BY DEF OInv, ChainFacts
  <2> QED
    BY <1>2, <2>1, <2>2
<1>4. ASSUME NEW f \in FindingsOn(kind, obj, trips)
      PROVE  f \in About1
  <2>1. f \in ToSet(findings)
    BY <1>2, <1>4 DEF OnOthers
  <2> QED
    BY <1>4, <2>1, FindingFacts DEF IsTrips
<1> HIDE DEF About1
<1>5. ASSUME NEW f \in About1
      PROVE  [rule |-> f.rule, severity |-> f.severity] \in trips
  <2>1. PICK t \in trips : f.rule = t.rule /\ f.severity = t.severity
    BY <1>3, FindingFacts
  <2> QED
    BY <2>1 DEF IsTrips
<1>6. ASSUME NEW t \in trips
      PROVE  \E f \in About1 : t = [rule |-> f.rule, severity |-> f.severity]
  <2>1. PICK f \in FindingsOn(kind, obj, trips) : f.rule = t.rule /\ f.severity = t.severity
    BY FindingFacts
  <2> QED
    BY <1>4, <2>1 DEF IsTrips
<1> QED
  BY <1>1, <1>5, <1>6

\* What a pod runs as, shares with the host and mounts is reported for every pod and
\* workload, each thing with the severity of the worst instance wherever in the
\* lists it stands, and nothing else is.
THEOREM PodsReported == Spec => []PodsJudged
<1>1. ASSUME IInv, OInv, Returned, NEW obj \in res.pods \cup res.workloads,
             NEW podSpec, podSpec = PodSpec(obj.doc, obj.kind),
             \A path \in PathsOf(podSpec) : IsPlain(path)
      PROVE  Verdict(obj.kind, obj) = PodVerdict(podSpec)
  <2> DEFINE trips == analyzeWorkloadSecurityObject(obj.doc, obj.kind)
  <2>1. obj \in Users /\ res \in Inputs
    BY <1>1 DEF IInv, Place, Users
  <2>2. podSpec = extractPodSpec(obj.doc, obj.kind)
    BY <1>1, SamePodSpec
  <2>3. PodLists(podSpec) /\ IsWellFormedPod(podSpec) /\ obj.kind \in {"Pod"} \cup WorkloadKinds
    BY <2>1, <2>2, ObjectFacts
  <2>4. IsTrips(trips)
    BY <2>2, <2>3, WorkloadsTrip
  <2>5. trips = PodVerdict(podSpec)
    BY <1>1, <2>2, <2>3, PodsAgree
  <2> HIDE DEF trips
  <2>6. OnUser(obj) = FindingsOn(obj.kind, obj, trips)
    BY DEF OnUser, trips
  <2>7. FindingsOn(obj.kind, obj, trips) \subseteq OnObjects
    BY <2>1, <2>6, ObjectsFound
  <2>8. ASSUME NEW f \in OnObjects, f.kind = obj.kind,
               f.name = obj.name, f.namespace = obj.namespace
        PROVE  f \in FindingsOn(obj.kind, obj, trips)
    <3>1. PICK u \in Users : f \in OnUser(u)
      BY <2>1, <2>3, <2>8, ObjectFindings
    <3>2. u.kind = f.kind /\ u.name = f.name /\ u.namespace = f.namespace
      BY <3>1, FindingFacts DEF OnUser
    <3>3. u = obj
      BY <2>1, <2>8, <3>2, ObjectFacts
    <3> QED
      BY <2>6, <3>1, <3>3
  <2>9. obj.kind \notin {"ClusterRole", "Role", "RoleBinding"}
    BY <2>3 DEF WorkloadKinds
  <2>10. Verdict(obj.kind, obj) = trips
    BY <1>1, <2>4, <2>7, <2>8, <2>9, VerdictIs
  <2> QED
    BY <2>5, <2>10
<1>2. ASSUME IInv, OInv PROVE PodsJudged
  <2>1. SUFFICES ASSUME Returned, NEW obj \in res.pods \cup res.workloads,
                        \A path \in PathsOf(PodSpec(obj.doc, obj.kind)) : IsPlain(path)
                 PROVE  Verdict(obj.kind, obj) = PodVerdict(PodSpec(obj.doc, obj.kind))
    BY Zenon DEF PodsJudged, PodVerdict, PathsOf, PathOf, HostVolumes, PrivilegedOf, SharedOf,
                 DangerousOf
  <2> QED
    BY <1>1, <1>2, <2>1
<1> QED
  BY AnalysisInvariant, OthersInvariant, <1>2, PTL

\* The objects of one kind, which are told apart by name and namespace: trips says
\* what the detector finds on each of them, and all are the findings on objects.
JudgedBy(kind, objs, trips, all) ==
  /\ kind \notin {"ClusterRole", "Role", "RoleBinding"}
  /\ \A obj, other \in objs :
       obj.name = other.name /\ obj.namespace = other.namespace => obj = other
  /\ \A obj \in objs : /\ IsTrips(trips[obj])
                        /\ FindingsOn(kind, obj, trips[obj]) \subseteq all
  /\ \A f \in all : f.kind = kind => \E obj \in objs : f \in FindingsOn(kind, obj, trips[obj])

\* The verdict on each is what the detector finds on it.
LEMMA KindIsJudged ==
  ASSUME IInv, OInv, Returned,
         NEW kind, NEW objs, NEW trips, JudgedBy(kind, objs, trips, OnObjects)
  PROVE  \A obj \in objs : Verdict(kind, obj) = trips[obj]
<1> SUFFICES ASSUME NEW obj \in objs
             PROVE  Verdict(kind, obj) = trips[obj]
  OBVIOUS
<1>1. /\ kind \notin {"ClusterRole", "Role", "RoleBinding"}
      /\ IsTrips(trips[obj]) /\ FindingsOn(kind, obj, trips[obj]) \subseteq OnObjects
  BY Zenon DEF JudgedBy
<1>2. ASSUME NEW f \in OnObjects, f.kind = kind, f.name = obj.name, f.namespace = obj.namespace
      PROVE  f \in FindingsOn(kind, obj, trips[obj])
  <2>1. PICK other \in objs : f \in FindingsOn(kind, other, trips[other])
    BY <1>2, Zenon DEF JudgedBy
  <2>2. other.name = obj.name /\ other.namespace = obj.namespace
    BY <1>2, <2>1, FindingFacts
  <2>3. other = obj
    BY <2>2, Zenon DEF JudgedBy
  <2> QED
    BY <2>1, <2>3
<1> QED
  BY <1>1, <1>2, VerdictIs

\* Constraints are reported exactly if they permit something and name somebody.
THEOREM SCCsReported == Spec => []SCCsJudged
<1>1. ASSUME IInv, OInv, Returned, NEW scc \in res.sccs
      PROVE  Verdict("SecurityContextConstraints", scc) = analyzeSecurityContextConstraint(scc.doc)
  <2> DEFINE trips == [obj \in res.sccs |-> analyzeSecurityContextConstraint(obj.doc)]
  <2>1. \A obj \in res.sccs : trips[obj] = analyzeSecurityContextConstraint(obj.doc)
    OBVIOUS
  <2> HIDE DEF trips
  <2>2. \A obj \in res.sccs : IsTrips(trips[obj])
    BY <2>1, DetectorsTrip
  <2>3. \A obj \in res.sccs :
          FindingsOn("SecurityContextConstraints", obj, trips[obj]) \subseteq OnObjects
    BY <2>1, ObjectsFound
  <2>4. \A f \in OnObjects : f.kind = "SecurityContextConstraints" =>
          \E obj \in res.sccs : f \in FindingsOn("SecurityContextConstraints", obj, trips[obj])
    <3>1. \A f \in OnObjects : f.kind = "SecurityContextConstraints" => f \in OnSCCs
      BY <1>1, ObjectFindings DEF IInv, Place
    <3> QED
      BY <2>1, <3>1, ObjectsFound
  <2>5. \A obj, other \in res.sccs :
          obj.name = other.name /\ obj.namespace = other.namespace => obj = other
    BY <1>1, ObjectFacts DEF IInv, Place
  <2>6. JudgedBy("SecurityContextConstraints", res.sccs, trips, OnObjects)
    BY <2>2, <2>3, <2>4, <2>5 DEF JudgedBy
  <2>7. \A obj \in res.sccs : Verdict("SecurityContextConstraints", obj) = trips[obj]
    BY <1>1, <2>6, KindIsJudged
  <2> QED
    BY <1>1, <2>1, <2>7
<1>2. ASSUME IInv, OInv PROVE SCCsJudged
  <2>1. SUFFICES ASSUME Returned, NEW scc \in res.sccs
                 PROVE  Verdict("SecurityContextConstraints", scc) = SCCVerdict(scc.doc)
    BY Zenon DEF SCCsJudged, SCCVerdict
  <2>2. IsWellFormedSCC(scc.doc)
    BY <1>2, ObjectFacts DEF IInv, Place
  <2> QED
    BY <1>1, <1>2, <2>1, <2>2, SCCsAgree
<1> QED
  BY AnalysisInvariant, OthersInvariant, <1>2, PTL

\* A Secret is judged by the keys it would have in the cluster, as a token or as a
\* credential and never as both.
THEOREM SecretsReported == Spec => []SecretsJudged
<1>1. ASSUME IInv, OInv, Returned, NEW secret \in res.secrets
      PROVE  Verdict("Secret", secret) = analyzeSecret(secret.doc)
  <2> DEFINE trips == [obj \in res.secrets |-> analyzeSecret(obj.doc)]
  <2>1. \A obj \in res.secrets : trips[obj] = analyzeSecret(obj.doc)
    OBVIOUS
  <2> HIDE DEF trips
  <2>2. \A obj \in res.secrets : IsTrips(trips[obj])
    BY <2>1, DetectorsTrip
  <2>3. \A obj \in res.secrets : FindingsOn("Secret", obj, trips[obj]) \subseteq OnObjects
    BY <2>1, ObjectsFound
  <2>4. \A f \in OnObjects : f.kind = "Secret" =>
          \E obj \in res.secrets : f \in FindingsOn("Secret", obj, trips[obj])
    <3>1. \A f \in OnObjects : f.kind = "Secret" => f \in OnSecrets
      BY <1>1, ObjectFindings DEF IInv, Place
    <3> QED
      BY <2>1, <3>1, ObjectsFound
  <2>5. \A obj, other \in res.secrets :
          obj.name = other.name /\ obj.namespace = other.namespace => obj = other
    BY <1>1, ObjectFacts DEF IInv, Place
  <2>6. JudgedBy("Secret", res.secrets, trips, OnObjects)
    BY <2>2, <2>3, <2>4, <2>5 DEF JudgedBy
  <2>7. \A obj \in res.secrets : Verdict("Secret", obj) = trips[obj]
    BY <1>1, <2>6, KindIsJudged
  <2> QED
    BY <1>1, <2>1, <2>7
<1>2. ASSUME IInv, OInv PROVE SecretsJudged
  <2>1. SUFFICES ASSUME Returned, NEW secret \in res.secrets
                 PROVE  Verdict("Secret", secret) = SecretVerdict(secret.doc)
    BY Zenon DEF SecretsJudged, SecretVerdict
  <2>2. IsWellFormedSecret(secret.doc)
    BY <1>2, ObjectFacts DEF IInv, Place
  <2> QED
    BY <1>1, <1>2, <2>1, <2>2, SecretsAgree
<1> QED
  BY AnalysisInvariant, OthersInvariant, <1>2, PTL

\* Services and Routes are reported exactly if something outside the cluster reaches
\* them, in plain text or below a whole domain; Ingresses only if some name they serve
\* is not encrypted, or nobody wrote it down, and always then but for the exceptions of
\* ExposureJudged.
THEOREM ExposureReported == Spec => []ExposureJudged
<1>1. ASSUME IInv, OInv, Returned, NEW service \in res.services
      PROVE  Verdict("Service", service) = analyzeService(service.doc)
  <2> DEFINE trips == [obj \in res.services |-> analyzeService(obj.doc)]
  <2>1. \A obj \in res.services : trips[obj] = analyzeService(obj.doc)
    OBVIOUS
  <2> HIDE DEF trips
  <2>2. \A obj \in res.services : IsTrips(trips[obj])
    BY <2>1, DetectorsTrip
  <2>3. \A obj \in res.services : FindingsOn("Service", obj, trips[obj]) \subseteq OnObjects
    BY <2>1, ObjectsFound
  <2>4. \A f \in OnObjects : f.kind = "Service" =>
          \E obj \in res.services : f \in FindingsOn("Service", obj, trips[obj])
    <3>1. \A f \in OnObjects : f.kind = "Service" => f \in OnServices
      BY <1>1, ObjectFindings DEF IInv, Place
    <3> QED
      BY <2>1, <3>1, ObjectsFound
  <2>5. \A obj, other \in res.services :
          obj.name = other.name /\ obj.namespace = other.namespace => obj = other
    BY <1>1, ObjectFacts DEF IInv, Place
  <2>6. JudgedBy("Service", res.services, trips, OnObjects)
    BY <2>2, <2>3, <2>4, <2>5 DEF JudgedBy
  <2>7. \A obj \in res.services : Verdict("Service", obj) = trips[obj]
    BY <1>1, <2>6, KindIsJudged
  <2> QED
    BY <1>1, <2>1, <2>7
<1>2. ASSUME IInv, OInv, Returned, NEW ingress \in res.ingresses
      PROVE  Verdict("Ingress", ingress) = analyzeIngress(ingress.doc)
  <2> DEFINE trips == [obj \in res.ingresses |-> analyzeIngress(obj.doc)]
  <2>1. \A obj \in res.ingresses : trips[obj] = analyzeIngress(obj.doc)
    OBVIOUS
  <2> HIDE DEF trips
  <2>2. \A obj \in res.ingresses : IsTrips(trips[obj])
    BY <2>1, DetectorsTrip
  <2>3. \A obj \in res.ingresses : FindingsOn("Ingress", obj, trips[obj]) \subseteq OnObjects
    BY <2>1, ObjectsFound
  <2>4. \A f \in OnObjects : f.kind = "Ingress" =>
          \E obj \in res.ingresses : f \in FindingsOn("Ingress", obj, trips[obj])
    <3>1. \A f \in OnObjects : f.kind = "Ingress" => f \in OnIngresses
      BY <1>2, ObjectFindings DEF IInv, Place
    <3> QED
      BY <2>1, <3>1, ObjectsFound
  <2>5. \A obj, other \in res.ingresses :
          obj.name = other.name /\ obj.namespace = other.namespace => obj = other
    BY <1>2, ObjectFacts DEF IInv, Place
  <2>6. JudgedBy("Ingress", res.ingresses, trips, OnObjects)
    BY <2>2, <2>3, <2>4, <2>5 DEF JudgedBy
  <2>7. \A obj \in res.ingresses : Verdict("Ingress", obj) = trips[obj]
    BY <1>2, <2>6, KindIsJudged
  <2> QED
    BY <1>2, <2>1, <2>7
<1>3. ASSUME IInv, OInv, Returned, NEW route \in res.routes
      PROVE  Verdict("Route", route) = analyzeRoute(route.doc)
  <2> DEFINE trips == [obj \in res.routes |-> analyzeRoute(obj.doc)]
  <2>1. \A obj \in res.routes : trips[obj] = analyzeRoute(obj.doc)
    OBVIOUS
  <2> HIDE DEF trips
  <2>2. \A obj \in res.routes : IsTrips(trips[obj])
    BY <2>1, DetectorsTrip
  <2>3. \A obj \in res.routes : FindingsOn("Route", obj, trips[obj]) \subseteq OnObjects
    BY <2>1, ObjectsFound
  <2>4. \A f \in OnObjects : f.kind = "Route" =>
          \E obj \in res.routes : f \in FindingsOn("Route", obj, trips[obj])
    <3>1. \A f \in OnObjects : f.kind = "Route" => f \in OnRoutes
      BY <1>3, ObjectFindings DEF IInv, Place
    <3> QED
      BY <2>1, <3>1, ObjectsFound
  <2>5. \A obj, other \in res.routes :
          obj.name = other.name /\ obj.namespace = other.namespace => obj = other
    BY <1>3, ObjectFacts DEF IInv, Place
  <2>6. JudgedBy("Route", res.routes, trips, OnObjects)
    BY <2>2, <2>3, <2>4, <2>5 DEF JudgedBy
  <2>7. \A obj \in res.routes : Verdict("Route", obj) = trips[obj]
    BY <1>3, <2>6, KindIsJudged
  <2> QED
    BY <1>3, <2>1, <2>7
<1>4. ASSUME IInv, OInv PROVE ExposureJudged
  <2>1. SUFFICES ASSUME Returned
                 PROVE  /\ \A service \in res.services :
                             Verdict("Service", service) = ServiceVerdict(At(service.doc, "spec"))
                        /\ \A ingress \in res.ingresses :
                             IngressJudged(At(ingress.doc, "spec"), Verdict("Ingress", ingress))
                        /\ \A route \in res.routes :
                             Verdict("Route", route) = RouteVerdict(At(route.doc, "spec"))
    BY Zenon DEF ExposureJudged, ServiceVerdict, RouteVerdict
  <2>2. res \in Inputs
    BY <1>4 DEF IInv, Place
  <2>3. \A service \in res.services :
          analyzeService(service.doc) = ServiceVerdict(At(service.doc, "spec"))
    BY <2>2, ObjectFacts, ServicesAgree
  <2>4. \A ingress \in res.ingresses :
          IngressJudged(At(ingress.doc, "spec"), analyzeIngress(ingress.doc))
    BY <2>2, ObjectFacts, IngressesAgree
  <2>5. \A route \in res.routes :
          analyzeRoute(route.doc) = RouteVerdict(At(route.doc, "spec"))
    BY <2>2, ObjectFacts, RoutesAgree
  <2> QED
    BY <1>1, <1>2, <1>3, <1>4, <2>1, <2>3, <2>4, <2>5
<1> QED
  BY AnalysisInvariant, OthersInvariant, <1>4, PTL

\* A policy is reported for a direction exactly if some rule of it leaves out no pod,
\* no namespace or no address, but for a peer that a null selector hides.
THEOREM PoliciesReported == Spec => []PoliciesJudged
<1>1. ASSUME IInv, OInv, Returned, NEW policy \in res.networkPolicies
      PROVE  Verdict("NetworkPolicy", policy) = analyzeNetworkPolicy(policy.doc)
  <2> DEFINE trips == [obj \in res.networkPolicies |-> analyzeNetworkPolicy(obj.doc)]
  <2>1. \A obj \in res.networkPolicies : trips[obj] = analyzeNetworkPolicy(obj.doc)
    OBVIOUS
  <2> HIDE DEF trips
  <2>2. \A obj \in res.networkPolicies : IsTrips(trips[obj])
    BY <2>1, DetectorsTrip
  <2>3. \A obj \in res.networkPolicies :
          FindingsOn("NetworkPolicy", obj, trips[obj]) \subseteq OnObjects
    BY <2>1, ObjectsFound
  <2>4. \A f \in OnObjects : f.kind = "NetworkPolicy" =>
          \E obj \in res.networkPolicies : f \in FindingsOn("NetworkPolicy", obj, trips[obj])
    <3>1. \A f \in OnObjects : f.kind = "NetworkPolicy" => f \in OnPolicies
      BY <1>1, ObjectFindings DEF IInv, Place
    <3> QED
      BY <2>1, <3>1, ObjectsFound
  <2>5. \A obj, other \in res.networkPolicies :
          obj.name = other.name /\ obj.namespace = other.namespace => obj = other
    BY <1>1, ObjectFacts DEF IInv, Place
  <2>6. JudgedBy("NetworkPolicy", res.networkPolicies, trips, OnObjects)
    BY <2>2, <2>3, <2>4, <2>5 DEF JudgedBy
  <2>7. \A obj \in res.networkPolicies : Verdict("NetworkPolicy", obj) = trips[obj]
    BY <1>1, <2>6, KindIsJudged
  <2> QED
    BY <1>1, <2>1, <2>7
<1>2. ASSUME IInv, OInv PROVE PoliciesJudged
  <2>1. SUFFICES ASSUME Returned, NEW policy \in res.networkPolicies
                 PROVE  LET spec == At(policy.doc, "spec")
                        IN  /\ Verdict("NetworkPolicy", policy) \subseteq PolicyVerdict(spec)
                            /\ Verdict("NetworkPolicy", policy) # PolicyVerdict(spec)
                                 => HidesPodSelector(spec)
    BY Zenon DEF PoliciesJudged, PolicyVerdict
  <2>2. IsWellFormedPolicy(At(policy.doc, "spec"))
    BY <1>2, ObjectFacts DEF IInv, Place
  <2> QED
    BY <1>1, <1>2, <2>1, <2>2, PoliciesAgree
<1> QED
  BY AnalysisInvariant, OthersInvariant, <1>2, PTL

=============================================================================
