--------------------------- MODULE ChainRunsProofs ---------------------------
(***************************************************************************)
(* Proof that two runs of the privilege chain analysis agree on the        *)
(* verdicts, for every set of Inputs that satisfies InputsAssumption.  The *)
(* invariant of ChainWalkProofs holds of either run, in the second one     *)
(* under the names of the instance Other.                                  *)
(***************************************************************************)
EXTENDS ChainRuns, ChainWalkProofs

Other == INSTANCE ChainWalkProofs WITH
           pc <- pc2, unread <- unread2, refs <- refs2, r <- r2, b <- b2,
           findings <- findings2

\* Other speaks of the same inputs, and Second of the same run as Other.
LEMMA OtherInputs == Other!LoadedInputs
BY InputsAssumption DEF LoadedInputs, Other!LoadedInputs, ToSet, Other!ToSet

LEMMA OtherStep ==
  ASSUME [Second!Next]_(Second!vars)
  PROVE  [Other!Next]_(Other!vars)
<1>1. CASE UNCHANGED Second!vars
  BY <1>1 DEF Second!vars, Other!vars
<1>2. CASE Second!CollectRef
  BY <1>2 DEF Second!CollectRef, Other!CollectRef, Other!Next
<1>3. CASE Second!EndPods
  BY <1>3 DEF Second!EndPods, Other!EndPods, Other!Next
<1>4. CASE Second!EndWorkloads
  BY <1>4 DEF Second!EndWorkloads, Other!EndWorkloads, Second!AtRef, Other!AtRef, Other!Next
<1>5. CASE Second!CheckClusterRoleBinding
  <2>1. Other!CheckClusterRoleBinding
    BY <1>5 DEF Second!CheckClusterRoleBinding, Other!CheckClusterRoleBinding,
                Second!crb, Other!crb, Second!ref, Other!ref,
                Second!bindingReferencesSubject, Other!bindingReferencesSubject,
                Second!IsClusterAdmin, Other!IsClusterAdmin,
                Second!appendIfNew, Other!appendIfNew,
                Second!Fingerprints, Other!Fingerprints,
                Second!Fingerprint, Other!Fingerprint,
                Second!ClusterAdminFinding, Other!ClusterAdminFinding,
                Second!Description, Other!Description,
                Second!SeverityCritical, Other!SeverityCritical
  <2> QED
    BY <2>1 DEF Other!Next
<1>6. CASE Second!EndClusterRoleBindings
  BY <1>6 DEF Second!EndClusterRoleBindings, Other!EndClusterRoleBindings, Other!Next
<1>7. CASE Second!CheckRoleBinding
  <2>1. Other!CheckRoleBinding
    BY <1>7 DEF Second!CheckRoleBinding, Other!CheckRoleBinding,
                Second!rb, Other!rb, Second!ref, Other!ref,
                Second!bindingReferencesSubject, Other!bindingReferencesSubject,
                Second!NamesClusterRole, Other!NamesClusterRole,
                Second!appendIfNew, Other!appendIfNew,
                Second!Fingerprints, Other!Fingerprints,
                Second!Fingerprint, Other!Fingerprint,
                Second!RoleBindingFinding, Other!RoleBindingFinding,
                Second!Description, Other!Description,
                Second!SeverityWarning, Other!SeverityWarning
  <2> QED
    BY <2>1 DEF Other!Next
<1>8. CASE Second!EndRoleBindings
  BY <1>8 DEF Second!EndRoleBindings, Other!EndRoleBindings, Second!AtRef, Other!AtRef, Other!Next
<1>9. CASE Second!CheckStandalone
  <2>1. Other!CheckStandalone
    BY <1>9 DEF Second!CheckStandalone, Other!CheckStandalone, Second!rb, Other!rb,
                Second!NamesClusterRole, Other!NamesClusterRole,
                Second!appendIfNew, Other!appendIfNew,
                Second!Fingerprints, Other!Fingerprints,
                Second!Fingerprint, Other!Fingerprint,
                Second!RoleBindingFinding, Other!RoleBindingFinding,
                Second!Description, Other!Description,
                Second!SeverityWarning, Other!SeverityWarning
  <2> QED
    BY <2>1 DEF Other!Next
<1>10. CASE Second!EndStandalone
  BY <1>10 DEF Second!EndStandalone, Other!EndStandalone, Other!Next
<1> QED
  BY <1>1, <1>2, <1>3, <1>4, <1>5, <1>6, <1>7, <1>8, <1>9, <1>10 DEF Second!Next

\* A step of one run is a stutter of the other.
LEMMA RunsStep ==
  ASSUME [RunsNext]_runsVars
  PROVE  [Next]_vars /\ [Second!Next]_(Second!vars)
<1>1. CASE RunFirst
  <2>1. UNCHANGED res
    BY <1>1 DEF RunFirst, Next, CollectRef, EndPods, EndWorkloads, CheckClusterRoleBinding,
                EndClusterRoleBindings, CheckRoleBinding, EndRoleBindings,
                CheckStandalone, EndStandalone
  <2> QED
    BY <1>1, <2>1 DEF RunFirst, own2, Second!vars
<1>2. CASE RunSecond
  <2>1. UNCHANGED res
    BY <1>2 DEF RunSecond, Second!Next, Second!CollectRef, Second!EndPods, Second!EndWorkloads,
                Second!CheckClusterRoleBinding, Second!EndClusterRoleBindings,
                Second!CheckRoleBinding, Second!EndRoleBindings,
                Second!CheckStandalone, Second!EndStandalone
  <2> QED
    BY <1>2, <2>1 DEF RunSecond, own1, vars
<1>3. CASE UNCHANGED runsVars
  BY <1>3 DEF runsVars, own1, own2, vars, Second!vars
<1> QED
  BY <1>1, <1>2, <1>3 DEF RunsNext

\* The invariant of the walk holds of both runs.
THEOREM RunsInvariant == RunsSpec => [](IInv /\ Other!IInv)
<1>1. RunsInit => IInv /\ Other!IInv
  <2>1. ASSUME RunsInit PROVE Other!Init
    BY <2>1 DEF RunsInit, Second!Init, Other!Init
  <2> QED
    BY <2>1, InputsAssumption, InvariantHolds, OtherInputs, Other!InvariantHolds DEF RunsInit
<1>2. (IInv /\ Other!IInv) /\ [RunsNext]_runsVars => (IInv /\ Other!IInv)'
  <2> SUFFICES ASSUME IInv, Other!IInv, [RunsNext]_runsVars
               PROVE  IInv' /\ Other!IInv'
    OBVIOUS
  <2>1. [Next]_vars /\ [Other!Next]_(Other!vars)
    BY RunsStep, OtherStep
  <2>2. IInv'
    BY <2>1, InputsAssumption, InvariantKept
  <2>3. Other!IInv'
    BY <2>1, OtherInputs, Other!InvariantKept
  <2> QED
    BY <2>2, <2>3
<1> QED
  BY <1>1, <1>2, PTL DEF RunsSpec

\* Two runs on the same manifests agree on the verdicts, in whatever order each of
\* them visits the maps (analyzer.go:337-413).
THEOREM VerdictsAgree == RunsSpec => []VerdictsRepeat
<1>1. IInv /\ Other!IInv => VerdictsRepeat
  <2> SUFFICES ASSUME IInv, Other!IInv, BothReturned PROVE VerdictsRepeat
    BY DEF VerdictsRepeat
  <2>1. Returned /\ Other!Returned
    BY DEF BothReturned, Second!Returned, Other!Returned
  <2>2. {Verdict(f) : f \in ToSet(findings)} = AdminVerdicts \cup UseVerdicts
    BY <2>1, InputsAssumption, VerdictsDetermined
  <2>3. {Other!Verdict(f) : f \in Other!ToSet(findings2)} =
          Other!AdminVerdicts \cup Other!UseVerdicts
    BY <2>1, OtherInputs, Other!VerdictsDetermined
  <2>4. Other!ToSet(findings2) = ToSet(findings2)
    BY DEF ToSet, Other!ToSet
  <2>5. \A f : Other!Verdict(f) = Verdict(f)
    BY DEF Verdict, Other!Verdict, Fingerprint, Other!Fingerprint
  <2>6. Other!AdminVerdicts = AdminVerdicts
    <3>1. Other!AdminUsers = AdminUsers
      BY DEF Other!AdminUsers, AdminUsers, Other!Users, Users, Other!Wide, Wide,
             Other!Reaches, Reaches, Other!IsClusterAdmin, IsClusterAdmin, Other!ToSet, ToSet
    <3>2. Other!SeverityCritical = SeverityCritical /\ \A u : Other!AdminPrint(u) = AdminPrint(u)
      BY DEF Other!SeverityCritical, SeverityCritical, Other!AdminPrint, AdminPrint
    <3> QED
      BY <3>1, <3>2 DEF Other!AdminVerdicts, AdminVerdicts
  <2>7. Other!UseVerdicts = UseVerdicts
    <3>1. Other!Narrow = Narrow
      BY DEF Other!Narrow, Narrow, Other!NamesClusterRole, NamesClusterRole, Other!ToSet, ToSet
    <3>2. Other!SeverityWarning = SeverityWarning /\ \A x : Other!UsePrint(x) = UsePrint(x)
      BY DEF Other!SeverityWarning, SeverityWarning, Other!UsePrint, UsePrint
    <3> QED
      BY <3>1, <3>2 DEF Other!UseVerdicts, UseVerdicts
  <2> QED
    BY <2>2, <2>3, <2>4, <2>5, <2>6, <2>7 DEF VerdictsRepeat
<1> QED
  BY <1>1, RunsInvariant, PTL

\* Every finding of either run speaks of the first binding it could speak of.
LEMMA RunsSpeakOfFirst == RunsSpec => [](FirstsNamed /\ Other!FirstsNamed)
<1>1. RunsInit => FirstsNamed /\ Other!FirstsNamed
  <2> SUFFICES ASSUME RunsInit PROVE FirstsNamed /\ Other!FirstsNamed
    OBVIOUS
  <2>1. findings = << >> /\ findings2 = << >>
    BY DEF RunsInit, Init, Second!Init
  <2>2. ToSet(findings) = {} /\ Other!ToSet(findings2) = {}
    BY <2>1 DEF ToSet, Other!ToSet
  <2> QED
    BY <2>2 DEF FirstsNamed, Other!FirstsNamed
<1>2. /\ IInv /\ Other!IInv /\ FirstsNamed /\ Other!FirstsNamed /\ [RunsNext]_runsVars
      => FirstsNamed' /\ Other!FirstsNamed'
  <2> SUFFICES ASSUME IInv, Other!IInv, FirstsNamed, Other!FirstsNamed, [RunsNext]_runsVars
               PROVE  FirstsNamed' /\ Other!FirstsNamed'
    OBVIOUS
  <2>1. [Next]_vars /\ [Other!Next]_(Other!vars)
    BY RunsStep, OtherStep
  <2>2. FirstsNamed'
    BY <2>1, InputsAssumption, FirstsKept
  <2>3. Other!FirstsNamed'
    BY <2>1, OtherInputs, Other!FirstsKept
  <2> QED
    BY <2>2, <2>3
<1> QED
  BY <1>1, <1>2, RunsInvariant, PTL DEF RunsSpec

\* Either run means the same by the findings of the resources.
LEMMA DeterminedAlike ==
  /\ OneUserEach => Other!OneUserEach
  /\ Other!Determined = Determined
<1>1. Other!Users = Users /\ Other!Wide = Wide /\ Other!Narrow = Narrow
  BY DEF Other!Users, Users, Other!Wide, Wide, Other!Narrow, Narrow,
         Other!NamesClusterRole, NamesClusterRole, Other!ToSet, ToSet
<1>2. /\ \A x, u : Other!Reaches(x, u) <=> Reaches(x, u)
      /\ \A x : /\ Other!IsClusterAdmin(x) <=> IsClusterAdmin(x)
                /\ Other!NamesClusterRole(x) <=> NamesClusterRole(x)
                /\ Other!UsePrint(x) = UsePrint(x)
      /\ \A u : Other!AdminPrint(u) = AdminPrint(u)
  BY DEF Other!Reaches, Reaches, Other!IsClusterAdmin, IsClusterAdmin,
         Other!NamesClusterRole, NamesClusterRole, Other!UsePrint, UsePrint,
         Other!AdminPrint, AdminPrint
<1>3. /\ \A u, x : Other!ClusterAdminFinding(u, x) = ClusterAdminFinding(u, x)
      /\ \A x, users : Other!RoleBindingFinding(x, users) = RoleBindingFinding(x, users)
  BY DEF Other!ClusterAdminFinding, ClusterAdminFinding,
         Other!RoleBindingFinding, RoleBindingFinding, Other!Description, Description,
         Other!SeverityCritical, SeverityCritical, Other!SeverityWarning, SeverityWarning
<1>4. /\ \A m, u : Other!FirstAdmits(m, u) <=> FirstAdmits(m, u)
      /\ \A m, u : Other!FirstServes(m, u) <=> FirstServes(m, u)
      /\ \A m : Other!FirstOfPrint(m) <=> FirstOfPrint(m)
      /\ \A m, u : Other!Serves(m, u) <=> Serves(m, u)
      /\ \A k, m : Other!SamePrint(k, m) <=> SamePrint(k, m)
  BY <1>1, <1>2 DEF Other!FirstAdmits, FirstAdmits, Other!FirstServes, FirstServes,
                    Other!FirstOfPrint, FirstOfPrint, Other!Admits, Admits,
                    Other!Serves, Serves, Other!SamePrint, SamePrint
<1>5. \A f : Other!IsDetermined(f) <=> IsDetermined(f)
  BY <1>1, <1>3, <1>4 DEF Other!IsDetermined, IsDetermined
<1>6. Other!Candidates = Candidates
  BY <1>1, <1>3 DEF Other!Candidates, Candidates
<1>7. OneUserEach => Other!OneUserEach
  BY <1>1, <1>2 DEF Other!OneUserEach, OneUserEach, Other!ToSet, ToSet
<1> QED
  BY <1>5, <1>6, <1>7 DEF Other!Determined, Determined

\* Where no RoleBinding name stands for the uses of two pods or workloads, two runs on
\* the same manifests agree on every finding, its description included: which of
\* several bindings it speaks of is decided by the order of the slices, not by
\* that of the maps (analyzer.go:360-413).
THEOREM FindingsAgree == RunsSpec => []FindingsRepeatUnlessShared
<1>1. IInv /\ Other!IInv /\ FirstsNamed /\ Other!FirstsNamed => FindingsRepeatUnlessShared
  <2> SUFFICES ASSUME IInv, Other!IInv, FirstsNamed, Other!FirstsNamed, BothReturned, ~Shared
               PROVE  ToSet(findings) = ToSet(findings2)
    BY DEF FindingsRepeatUnlessShared
  <2>1. Returned /\ Other!Returned
    BY DEF BothReturned, Second!Returned, Other!Returned
  <2>2. OneUserEach
    <3> SUFFICES ASSUME NEW u \in Users, NEW v \in Users,
                        NEW x \in ToSet(res.roleBindings), NEW y \in ToSet(res.roleBindings),
                        UsePrint(x) = UsePrint(y), Reaches(x, u), Reaches(y, v), u # v
                 PROVE  FALSE
      BY DEF OneUserEach
    <3>1. x.name = y.name /\ x.namespace = y.namespace
      BY DEF UsePrint
    <3> QED
      BY <3>1 DEF Shared, Reaches
  <2>3. ToSet(findings) = Determined
    BY <2>1, <2>2, InputsAssumption, FindingsDetermined
  <2>4. Other!ToSet(findings2) = Other!Determined
    BY <2>1, <2>2, OtherInputs, DeterminedAlike, Other!FindingsDetermined
  <2>5. Other!ToSet(findings2) = ToSet(findings2)
    BY DEF ToSet, Other!ToSet
  <2> QED
    BY <2>3, <2>4, <2>5, DeterminedAlike
<1> QED
  BY <1>1, RunsInvariant, RunsSpeakOfFirst, PTL

=============================================================================
