--------------------------- MODULE RoleScanProofs ---------------------------
(***************************************************************************)
(* Proofs about the scan of a role, for every set of Inputs: roles with    *)
(* any number of rules over any strings, at any scope.                     *)
(*                                                                         *)
(* TypeOK is inductive.  ScanContract is not: it speaks of the returned    *)
(* list alone.  IInv says what the walk has achieved at every point: the   *)
(* keys seen are exactly the keys reported (SeenIsReported), none of them  *)
(* twice (KeyOnce), each justified by the first rule that trips it         *)
(* (Justified), and no key of what has been examined is missing, neither   *)
(* of the rules before the current one (RulesBehind) nor of the checks of  *)
(* the current one that are over (ChecksBehind).                           *)
(***************************************************************************)
EXTENDS RoleContract, TLAPS

Key(n) == findings[n].key

SeenIsReported == seen = Reported

KeyOnce == \A a, b \in DOMAIN findings : Key(a) = Key(b) => a = b

\* Rule number k is the first to trip the check of the given key.
FirstTriggers(k, key) ==
  key \in Triggers(input.rules[k]) \ KeysBefore(input, k)

Justified ==
  \A n \in DOMAIN findings : \E k \in DOMAIN input.rules :
    /\ FirstTriggers(k, Key(n))
    /\ findings[n] = RoleFinding(input, Key(n), input.rules[k])

RulesBehind ==
  \A k \in DOMAIN input.rules : k < i => Triggers(input.rules[k]) \subseteq seen

\* The checks that follow each check of a rule.
After(p) ==
  CASE p = "groups"    -> {"verbs", "resources", "scc", "csr", "token", "bindings", "pods"}
    [] p = "verbs"     -> {"resources", "scc", "csr", "token", "bindings", "pods"}
    [] p = "resources" -> {"scc", "csr", "token", "bindings", "pods"}
    [] p = "scc"       -> {"csr", "token", "bindings", "pods"}
    [] p = "csr"       -> {"token", "bindings", "pods"}
    [] p = "token"     -> {"bindings", "pods"}
    [] p = "bindings"  -> {"pods"}

ChecksBehind ==
  /\ pc \in After("groups")    => GroupKeys(rule) \subseteq seen
  /\ pc = "verbs" => todo \subseteq rule.verbs
  /\ pc = "verbs" =>
       \A v \in (rule.verbs \cap DOMAIN dangerousVerbs) \ todo : dangerousVerbs[v] \in seen
  /\ pc \in After("verbs")     => VerbKeys(rule) \subseteq seen
  /\ pc = "resources" =>
       \A r \in FlaggedResources(rule) \ todo : dangerousResources[r] \in seen
  /\ pc \in After("resources") => ResourceKeys(rule) \subseteq seen
  /\ pc \in After("scc")      /\ hasSCCUsePermission(rule)              => "KC-023" \in seen
  /\ pc \in After("csr")      /\ hasCSRApprovalPermission(rule)         => "KC-031" \in seen
  /\ pc \in After("token")    /\ hasServiceAccountTokenPermission(rule) => "KC-030" \in seen
  /\ pc \in After("bindings") /\ hasEscalationBindingCombo(rule)        => "KC-011" \in seen

EndOfWalk == pc = "done" => i = Len(input.rules) + 1

IInv ==
  /\ TypeOK
  /\ SeenIsReported
  /\ KeyOnce
  /\ Justified
  /\ RulesBehind
  /\ ChecksBehind
  /\ EndOfWalk

-----------------------------------------------------------------------------

\* Every rating is one of the four severities (computeSeverity, capSeverity).
LEMMA FindingType ==
  ASSUME NEW key \in Keys, NEW r, input \in Input
  PROVE  RoleFinding(input, key, r) \in [key : Keys, severity : Severity]
<1>1. input.scope \in BindingScope
  BY DEF Input
<1>2. \A w \in BOOLEAN : computeSeverity(input.scope, w) \in Severity
  BY <1>1 DEF BindingScope, computeSeverity, Severity, SeverityInfo,
              SeverityWarning, SeverityHigh, SeverityCritical
<1>3. CountsAsWildcard(r, key) \in BOOLEAN
  BY DEF CountsAsWildcard, hasWildcards
<1> QED
  BY <1>2, <1>3 DEF RoleFinding, capSeverity, Severity, SeverityInfo,
                    SeverityWarning, SeverityHigh, SeverityCritical

\* The verb table and the resource table report known rules only.
LEMMA TableTypes ==
  /\ \A v \in DOMAIN dangerousVerbs : dangerousVerbs[v] \in Keys
  /\ \A r \in DOMAIN dangerousResources : dangerousResources[r] \in Keys
<1>1. \A v \in DOMAIN dangerousVerbs : dangerousVerbs[v] \in Keys
  BY DEF dangerousVerbs, Keys, RoleRuleIDs
<1>2. \A r \in DOMAIN dangerousResources : dangerousResources[r] \in Keys
  BY DEF dangerousResources, coreGroupResources, podSubresources, Keys, RoleRuleIDs
<1> QED
  BY <1>1, <1>2

\* What a check does to the key set and the findings.
Reports(key) == Report(key) \/ UNCHANGED <<seen, findings>>

\* Reporting keeps the types of the key set and of the finding list.
LEMMA ReportType ==
  ASSUME TypeOK, NEW key \in Keys, Reports(key)
  PROVE  /\ seen' \subseteq Keys
         /\ findings' \in Seq([key : Keys, severity : Severity])
<1>1. CASE UNCHANGED <<seen, findings>>
  BY <1>1 DEF TypeOK
<1>2. CASE Report(key) /\ key \notin seen
  <2>1. RoleFinding(input, key, rule) \in [key : Keys, severity : Severity]
    BY FindingType DEF TypeOK
  <2>2. /\ seen' = seen \cup {key}
        /\ findings' = Append(findings, RoleFinding(input, key, rule))
    BY <1>2 DEF Report
  <2>3. /\ seen \subseteq Keys
        /\ findings \in Seq([key : Keys, severity : Severity])
    BY DEF TypeOK
  <2> QED
    BY <2>1, <2>2, <2>3
<1> QED
  BY <1>1, <1>2 DEF Reports, Report

\* A check that hands over to another one of the same rule keeps TypeOK.
LEMMA MoveOnType ==
  ASSUME TypeOK, NEW here, here # "done", NEW next \in PC, MoveOn(here, next),
         NEW ruleID \in Keys, Reports(ruleID)
  PROVE  TypeOK'
<1>1. /\ seen' \subseteq Keys
      /\ findings' \in Seq([key : Keys, severity : Severity])
  BY ReportType
<1> QED
  BY <1>1 DEF TypeOK, MoveOn

\* TypeOK is an invariant of every role scan, whatever the roles: in particular
\* the walk never examines a rule beyond the end of the list.
THEOREM TypeCorrect == Spec => []TypeOK
<1>1. Init => TypeOK
  BY InputsAssumption DEF Init, TypeOK, Input, PC, Checks
<1>2. TypeOK /\ [Next]_vars => TypeOK'
  <2> SUFFICES ASSUME TypeOK, [Next]_vars PROVE TypeOK'
    OBVIOUS
  <2>0. /\ pc # "done" => rule \in Rule
        /\ PC = {"groups", "verbs", "resources", "scc", "csr", "token",
                 "bindings", "pods", "done"}
        /\ {"KC-011", "KC-012", "KC-023", "KC-030", "KC-031"} \subseteq Keys
    <3>1. input.rules \in Seq(Rule)
      BY DEF TypeOK, Input
    <3> QED
      BY <3>1 DEF TypeOK, PC, Checks, rule, Keys, RoleRuleIDs
  <2>1. CASE CheckAPIGroups
    <3>1. /\ seen' \subseteq Keys
          /\ findings' \in Seq([key : Keys, severity : Severity])
      <4>1. Reports(APIGroupKey)
        BY <2>1 DEF CheckAPIGroups, ReportIf, Reports
      <4> QED
        BY <4>1, ReportType DEF Keys
    <3> QED
      BY <2>0, <2>1, <3>1 DEF CheckAPIGroups, Rule, TypeOK
  <2>2. CASE CheckVerb
    <3>1. PICK verb \in todo : /\ todo' = todo \ {verb}
                               /\ ReportIf(verb \in DOMAIN dangerousVerbs,
                                           dangerousVerbs[verb])
      BY <2>2 DEF CheckVerb
    <3>2. /\ seen' \subseteq Keys
          /\ findings' \in Seq([key : Keys, severity : Severity])
      <4>1. CASE verb \in DOMAIN dangerousVerbs
        BY <3>1, <4>1, ReportType, TableTypes DEF ReportIf, Reports
      <4>2. CASE verb \notin DOMAIN dangerousVerbs
        BY <3>1, <4>2 DEF ReportIf, TypeOK
      <4> QED
        BY <4>1, <4>2
    <3> QED
      BY <2>2, <3>1, <3>2 DEF CheckVerb, TypeOK
  <2>3. CASE EndVerbs
    BY <2>0, <2>3 DEF EndVerbs, Rule, TypeOK
  <2>4. CASE CheckResource
    <3>1. PICK res \in todo : /\ todo' = todo \ {res}
                              /\ ReportIf(res \in FlaggedResources(rule),
                                          dangerousResources[res])
      BY <2>4 DEF CheckResource
    <3>2. /\ seen' \subseteq Keys
          /\ findings' \in Seq([key : Keys, severity : Severity])
      <4>1. CASE res \in FlaggedResources(rule)
        <5>1. dangerousResources[res] \in Keys
          BY <4>1, TableTypes DEF FlaggedResources
        <5> QED
          BY <3>1, <4>1, <5>1, ReportType DEF ReportIf, Reports
      <4>2. CASE res \notin FlaggedResources(rule)
        BY <3>1, <4>2 DEF ReportIf, TypeOK
      <4> QED
        BY <4>1, <4>2
    <3> QED
      BY <2>4, <3>1, <3>2 DEF CheckResource, TypeOK
  <2>5. CASE EndResources
    BY <2>0, <2>5 DEF EndResources, TypeOK
  <2>6. CASE CheckSCCUse
    <3>1. MoveOn("scc", "csr") /\ Reports("KC-023")
      BY <2>6 DEF CheckSCCUse, ReportIf, Reports
    <3> QED
      BY <2>0, <3>1, MoveOnType
  <2>7. CASE CheckCSRApproval
    <3>1. MoveOn("csr", "token") /\ Reports("KC-031")
      BY <2>7 DEF CheckCSRApproval, ReportIf, Reports
    <3> QED
      BY <2>0, <3>1, MoveOnType
  <2>8. CASE CheckTokenAccess
    <3>1. MoveOn("token", "bindings") /\ Reports("KC-030")
      BY <2>8 DEF CheckTokenAccess, ReportIf, Reports
    <3> QED
      BY <2>0, <3>1, MoveOnType
  <2>9. CASE CheckEscalationBinding
    <3>1. MoveOn("bindings", "pods") /\ Reports("KC-011")
      BY <2>9 DEF CheckEscalationBinding, ReportIf, Reports
    <3> QED
      BY <2>0, <3>1, MoveOnType
  <2>10. CASE CheckEscalationPod
    <3>1. Reports("KC-012")
      BY <2>10 DEF CheckEscalationPod, ReportIf, Reports
    <3>2. /\ seen' \subseteq Keys
          /\ findings' \in Seq([key : Keys, severity : Severity])
      BY <2>0, <3>1, ReportType
    <3>3. i \in 1 .. Len(input.rules) /\ Len(input.rules) \in Nat
      BY <2>10 DEF CheckEscalationPod, TypeOK, Input
    <3>4. pc' \in PC /\ (pc' # "done" => i' \in 1 .. Len(input.rules))
      BY <2>0, <2>10, <3>3 DEF CheckEscalationPod
    <3>5. DOMAIN input.rules = 1 .. Len(input.rules)
      BY DEF TypeOK, Input
    <3> QED
      BY <2>10, <3>2, <3>3, <3>4, <3>5 DEF CheckEscalationPod, TypeOK
  <2>11. CASE UNCHANGED vars
    BY <2>11 DEF vars, TypeOK
  <2> QED
    BY <2>1, <2>2, <2>3, <2>4, <2>5, <2>6, <2>7, <2>8, <2>9, <2>10, <2>11 DEF Next
<1> QED
  BY <1>1, <1>2, PTL DEF Spec

-----------------------------------------------------------------------------

\* The part of the invariant that is about the findings alone.
FindingsInv == SeenIsReported /\ KeyOnce /\ Justified

\* A check of the current rule that reports a key the rule trips keeps FindingsInv: a
\* new key has no finding yet, and no rule behind trips it.
LEMMA CoreStep ==
  ASSUME TypeOK, FindingsInv, RulesBehind, pc # "done", input' = input, NEW key,
         \/ Report(key) /\ key \in Triggers(rule)
         \/ UNCHANGED <<seen, findings>>
  PROVE  FindingsInv' /\ seen \subseteq seen'
<1> USE DEF FindingsInv, SeenIsReported, KeyOnce, Justified, Key
<1>1. CASE UNCHANGED <<seen, findings>>
  <2>1. Justified'
    BY <1>1 DEF FirstTriggers, RoleFinding
  <2> QED
    BY <1>1, <2>1 DEF Reported
<1>2. CASE Report(key) /\ key \in Triggers(rule) /\ key \notin seen
  <2> DEFINE new == RoleFinding(input, key, rule)
             N   == Len(findings)
  <2>1. /\ seen' = seen \cup {key}
        /\ findings' = Append(findings, new)
    BY <1>2 DEF Report
  <2>2. /\ N \in Nat /\ DOMAIN findings = 1 .. N
        /\ DOMAIN findings' = 1 .. N + 1
        /\ \A n \in 1 .. N : findings'[n] = findings[n]
        /\ findings'[N + 1] = new
    BY <2>1 DEF TypeOK
  <2>3. new.key = key
    BY DEF RoleFinding
  <2>4. SeenIsReported'
    <3>1. Reported' = {findings'[n].key : n \in 1 .. N + 1}
      BY <2>2 DEF Reported
    <3>2. Reported = {findings[n].key : n \in 1 .. N}
      BY <2>2 DEF Reported
    <3>3. Reported' = Reported \cup {key}
      BY <2>2, <2>3, <3>1, <3>2
    <3> QED
      BY <2>1, <3>3
  <2>5. \A n \in 1 .. N : findings[n].key # key
    BY <1>2, <2>2 DEF Reported
  <2>6. KeyOnce'
    BY <2>2, <2>3, <2>5
  <2>7. /\ DOMAIN input.rules = 1 .. Len(input.rules)
        /\ Len(input.rules) \in Nat
        /\ i \in DOMAIN input.rules
    BY DEF TypeOK, Input
  <2>8. FirstTriggers(i, key)
    <3>1. key \in Triggers(input.rules[i])
      BY <1>2 DEF rule
    <3>2. ASSUME NEW j \in 1 .. i - 1 PROVE key \notin Triggers(input.rules[j])
      <4>1. j \in DOMAIN input.rules /\ j < i
        BY <2>7
      <4> QED
        BY <1>2, <4>1 DEF RulesBehind
    <3> QED
      BY <3>1, <3>2 DEF FirstTriggers, KeysBefore
  <2>9. \A n \in DOMAIN findings' : \E k \in DOMAIN input'.rules :
          /\ FirstTriggers(k, findings'[n].key)
          /\ findings'[n] = RoleFinding(input, findings'[n].key, input.rules[k])
    BY <2>2, <2>3, <2>7, <2>8 DEF rule
  <2>10. Justified'
    BY <2>9 DEF FirstTriggers, RoleFinding
  <2> QED
    BY <2>1, <2>4, <2>6, <2>10
<1> QED
  BY <1>1, <1>2 DEF Report

\* A check that stays on the current rule and keeps FindingsInv keeps all of IInv that
\* does not depend on the check.
LEMMA SameRuleStep ==
  ASSUME IInv, pc # "done", pc' # "done", input' = input, i' = i, NEW key,
         \/ Report(key) /\ key \in Triggers(rule)
         \/ UNCHANGED <<seen, findings>>
  PROVE  /\ FindingsInv'
         /\ RulesBehind'
         /\ EndOfWalk'
         /\ rule' = rule
         /\ seen \subseteq seen'
<1>1. FindingsInv' /\ seen \subseteq seen'
  BY CoreStep DEF IInv, FindingsInv
<1>2. RulesBehind'
  BY <1>1 DEF IInv, RulesBehind
<1>3. rule' = rule
  BY DEF rule
<1> QED
  BY <1>1, <1>2, <1>3 DEF EndOfWalk

\* IInv is inductive.
LEMMA StepKeepsIInv == IInv /\ TypeOK' /\ [Next]_vars => IInv'
<1> SUFFICES ASSUME IInv, TypeOK', [Next]_vars PROVE IInv'
  OBVIOUS
<1> USE DEF IInv, FindingsInv
<1>0. \A key : Report(key) => key \in seen'
  BY DEF Report
<1>1. CASE CheckAPIGroups
  <2>1. hasWildcardAPIGroup(rule.apiGroups) =>
          APIGroupKey \in GroupKeys(rule) /\ GroupKeys(rule) \subseteq Triggers(rule)
    BY DEF GroupKeys, Triggers
  <2>2. /\ FindingsInv' /\ RulesBehind' /\ EndOfWalk'
        /\ rule' = rule /\ seen \subseteq seen'
    BY <1>1, <2>1, SameRuleStep DEF CheckAPIGroups, ReportIf
  <2>3. GroupKeys(rule) \subseteq seen'
    BY <1>0, <1>1 DEF CheckAPIGroups, ReportIf, GroupKeys
  <2>4. ChecksBehind'
    BY <1>1, <2>2, <2>3 DEF ChecksBehind, CheckAPIGroups, After
  <2> QED
    BY <2>2, <2>4
<1>2. CASE CheckVerb
  <2>1. PICK verb \in todo : /\ todo' = todo \ {verb}
                             /\ ReportIf(verb \in DOMAIN dangerousVerbs,
                                         dangerousVerbs[verb])
    BY <1>2 DEF CheckVerb
  <2>2. CASE verb \in DOMAIN dangerousVerbs
    <3>1. /\ Report(dangerousVerbs[verb])
          /\ dangerousVerbs[verb] \in Triggers(rule)
      BY <1>2, <2>1, <2>2 DEF CheckVerb, ReportIf, ChecksBehind, Triggers, VerbKeys
    <3>2. /\ FindingsInv' /\ RulesBehind' /\ EndOfWalk'
          /\ rule' = rule /\ seen \subseteq seen'
      BY <1>2, <3>1, SameRuleStep DEF CheckVerb
    <3>3. ChecksBehind'
      BY <1>0, <1>2, <2>1, <3>1, <3>2 DEF ChecksBehind, CheckVerb, After
    <3> QED
      BY <3>2, <3>3
  <2>3. CASE verb \notin DOMAIN dangerousVerbs
    <3>1. UNCHANGED <<seen, findings>>
      BY <2>1, <2>3 DEF ReportIf
    <3>2. /\ FindingsInv' /\ RulesBehind' /\ EndOfWalk' /\ rule' = rule
      BY <1>2, <3>1, SameRuleStep DEF CheckVerb
    <3>3. ChecksBehind'
      BY <1>2, <2>1, <2>3, <3>1, <3>2 DEF ChecksBehind, CheckVerb, After
    <3> QED
      BY <3>2, <3>3
  <2> QED
    BY <2>2, <2>3
<1>3. CASE EndVerbs
  <2>1. /\ FindingsInv' /\ RulesBehind' /\ EndOfWalk' /\ rule' = rule
    BY <1>3, SameRuleStep DEF EndVerbs
  <2>2. VerbKeys(rule) \subseteq seen
    BY <1>3 DEF EndVerbs, ChecksBehind, VerbKeys
  <2>3. ChecksBehind'
    BY <1>3, <2>1, <2>2 DEF ChecksBehind, EndVerbs, After, FlaggedResources
  <2> QED
    BY <2>1, <2>3
<1>4. CASE CheckResource
  <2>1. PICK res \in todo : /\ todo' = todo \ {res}
                            /\ ReportIf(res \in FlaggedResources(rule),
                                        dangerousResources[res])
    BY <1>4 DEF CheckResource
  <2>2. res \in FlaggedResources(rule) =>
          /\ Report(dangerousResources[res])
          /\ dangerousResources[res] \in Triggers(rule)
    BY <2>1 DEF ReportIf, Triggers, ResourceKeys
  <2>3. res \notin FlaggedResources(rule) => UNCHANGED <<seen, findings>>
    BY <2>1 DEF ReportIf
  <2>4. /\ FindingsInv' /\ RulesBehind' /\ EndOfWalk'
        /\ rule' = rule /\ seen \subseteq seen'
    BY <1>4, <2>2, <2>3, SameRuleStep DEF CheckResource
  <2>5. ChecksBehind'
    BY <1>0, <1>4, <2>1, <2>2, <2>4 DEF ChecksBehind, CheckResource, After
  <2> QED
    BY <2>4, <2>5
<1>5. CASE EndResources
  <2>1. /\ FindingsInv' /\ RulesBehind' /\ EndOfWalk' /\ rule' = rule
    BY <1>5, SameRuleStep DEF EndResources
  <2>2. ResourceKeys(rule) \subseteq seen
    BY <1>5 DEF EndResources, ChecksBehind, ResourceKeys
  <2>3. ChecksBehind'
    BY <1>5, <2>1, <2>2 DEF ChecksBehind, EndResources, After
  <2> QED
    BY <2>1, <2>3
<1>6. CASE CheckSCCUse
  <2>1. hasSCCUsePermission(rule) => "KC-023" \in Triggers(rule)
    BY DEF Triggers, ComboKeys
  <2>2. /\ FindingsInv' /\ RulesBehind' /\ EndOfWalk'
        /\ rule' = rule /\ seen \subseteq seen'
    BY <1>6, <2>1, SameRuleStep DEF CheckSCCUse, MoveOn, ReportIf
  <2>3. hasSCCUsePermission(rule) => "KC-023" \in seen'
    BY <1>0, <1>6 DEF CheckSCCUse, ReportIf
  <2>4. ChecksBehind'
    BY <1>6, <2>2, <2>3 DEF ChecksBehind, CheckSCCUse, MoveOn, After
  <2> QED
    BY <2>2, <2>4
<1>7. CASE CheckCSRApproval
  <2>1. hasCSRApprovalPermission(rule) => "KC-031" \in Triggers(rule)
    BY DEF Triggers, ComboKeys
  <2>2. /\ FindingsInv' /\ RulesBehind' /\ EndOfWalk'
        /\ rule' = rule /\ seen \subseteq seen'
    BY <1>7, <2>1, SameRuleStep DEF CheckCSRApproval, MoveOn, ReportIf
  <2>3. hasCSRApprovalPermission(rule) => "KC-031" \in seen'
    BY <1>0, <1>7 DEF CheckCSRApproval, ReportIf
  <2>4. ChecksBehind'
    BY <1>7, <2>2, <2>3 DEF ChecksBehind, CheckCSRApproval, MoveOn, After
  <2> QED
    BY <2>2, <2>4
<1>8. CASE CheckTokenAccess
  <2>1. hasServiceAccountTokenPermission(rule) => "KC-030" \in Triggers(rule)
    BY DEF Triggers, ComboKeys
  <2>2. /\ FindingsInv' /\ RulesBehind' /\ EndOfWalk'
        /\ rule' = rule /\ seen \subseteq seen'
    BY <1>8, <2>1, SameRuleStep DEF CheckTokenAccess, MoveOn, ReportIf
  <2>3. hasServiceAccountTokenPermission(rule) => "KC-030" \in seen'
    BY <1>0, <1>8 DEF CheckTokenAccess, ReportIf
  <2>4. ChecksBehind'
    BY <1>8, <2>2, <2>3 DEF ChecksBehind, CheckTokenAccess, MoveOn, After
  <2> QED
    BY <2>2, <2>4
<1>9. CASE CheckEscalationBinding
  <2>1. hasEscalationBindingCombo(rule) => "KC-011" \in Triggers(rule)
    BY DEF Triggers, ComboKeys
  <2>2. /\ FindingsInv' /\ RulesBehind' /\ EndOfWalk'
        /\ rule' = rule /\ seen \subseteq seen'
    BY <1>9, <2>1, SameRuleStep DEF CheckEscalationBinding, MoveOn, ReportIf
  <2>3. hasEscalationBindingCombo(rule) => "KC-011" \in seen'
    BY <1>0, <1>9 DEF CheckEscalationBinding, ReportIf
  <2>4. ChecksBehind'
    BY <1>9, <2>2, <2>3 DEF ChecksBehind, CheckEscalationBinding, MoveOn, After
  <2> QED
    BY <2>2, <2>4
<1>10. CASE CheckEscalationPod
  <2>1. hasEscalationPodCombo(rule) => "KC-012" \in Triggers(rule)
    BY DEF Triggers, ComboKeys
  <2>2. pc = "pods" /\ input' = input
    BY <1>10 DEF CheckEscalationPod
  <2>3. FindingsInv' /\ seen \subseteq seen'
    BY <1>10, <2>1, <2>2, CoreStep DEF CheckEscalationPod, ReportIf
  <2>4. Triggers(rule) \subseteq seen'
    <3>1. hasEscalationPodCombo(rule) => "KC-012" \in seen'
      BY <1>0, <1>10 DEF CheckEscalationPod, ReportIf
    <3> QED
      BY <2>2, <2>3, <3>1 DEF ChecksBehind, After, Triggers, ComboKeys
  <2>5. i \in 1 .. Len(input.rules) /\ Len(input.rules) \in Nat
    BY <2>2 DEF TypeOK, Input
  <2>6. RulesBehind'
    <3> SUFFICES ASSUME NEW k \in DOMAIN input.rules, k < i + 1
                 PROVE  Triggers(input.rules[k]) \subseteq seen'
      BY <1>10, <2>2 DEF RulesBehind, CheckEscalationPod
    <3>1. k < i \/ k = i
      BY <2>5 DEF TypeOK, Input
    <3> QED
      BY <2>3, <2>4, <3>1 DEF RulesBehind, rule
  <2>7. ChecksBehind'
    BY <1>10 DEF ChecksBehind, CheckEscalationPod, After
  <2>8. EndOfWalk'
    BY <1>10, <2>2, <2>5 DEF EndOfWalk, CheckEscalationPod
  <2> QED
    BY <2>3, <2>6, <2>7, <2>8
<1>11. CASE UNCHANGED vars
  <2> USE <1>11 DEF vars
  <2>1. FindingsInv'
    BY DEF SeenIsReported, KeyOnce, Justified, Reported, Key, FirstTriggers, RoleFinding
  <2>2. RulesBehind' /\ ChecksBehind' /\ EndOfWalk'
    BY DEF RulesBehind, ChecksBehind, EndOfWalk, rule
  <2> QED
    BY <2>1, <2>2
<1> QED
  BY <1>1, <1>2, <1>3, <1>4, <1>5, <1>6, <1>7, <1>8, <1>9, <1>10, <1>11 DEF Next

\* The invariant holds of every role scan.
THEOREM WalkInvariant == Spec => []IInv
<1>1. Init => IInv
  <2> SUFFICES ASSUME Init PROVE IInv
    OBVIOUS
  <2>1. input \in Input
    BY InputsAssumption DEF Init
  <2>2. TypeOK
    BY <2>1 DEF Init, TypeOK, Input, PC, Checks
  <2>3. SeenIsReported /\ KeyOnce /\ Justified
    BY DEF Init, SeenIsReported, KeyOnce, Justified, Reported
  <2>4. RulesBehind
    BY <2>1 DEF Init, RulesBehind, Input
  <2>5. ChecksBehind
    BY DEF Init, ChecksBehind, After
  <2>6. EndOfWalk
    BY DEF Init, EndOfWalk
  <2> QED
    BY <2>2, <2>3, <2>4, <2>5, <2>6 DEF IInv
<1> QED
  BY <1>1, TypeCorrect, StepKeepsIInv, PTL DEF Spec

\* When the scan returns, everything any rule trips has been reported.
LEMMA AllReported ==
  ASSUME IInv, Returned
  PROVE  \A k \in DOMAIN input.rules : Triggers(input.rules[k]) \subseteq Reported
<1>1. \A k \in DOMAIN input.rules : k < i
  BY DEF IInv, EndOfWalk, Returned, TypeOK, Input
<1> QED
  BY <1>1 DEF IInv, RulesBehind, SeenIsReported

\* ScanContract holds of every role scan: no finding is lost, none is repeated,
\* and each has the severity of the first rule that trips it.
THEOREM ScanKeepsContract == Spec => []ScanContract
<1>1. IInv /\ Returned => ScanContract
  <2> SUFFICES ASSUME IInv, Returned PROVE ScanContract
    OBVIOUS
  <2>1. \A k \in DOMAIN input.rules : Triggers(input.rules[k]) \subseteq Reported
    BY AllReported
  <2>2. ASSUME NEW n \in DOMAIN findings
        PROVE  findings[n] \in RoleFindings(input)
    BY DEF IInv, Justified, FirstTriggers, RoleFindings
  <2>3. ASSUME NEW f \in RoleFindings(input)
        PROVE  \E n \in DOMAIN findings : findings[n] = f
    <3>0. PICK k \in DOMAIN input.rules :
            \E key \in Triggers(input.rules[k]) :
              FirstTriggers(k, key) /\ f = RoleFinding(input, key, input.rules[k])
      BY <2>3 DEF RoleFindings, FirstTriggers
    <3>1. PICK key \in Triggers(input.rules[k]) :
            /\ FirstTriggers(k, key)
            /\ f = RoleFinding(input, key, input.rules[k])
      BY <3>0
    <3>2. PICK n \in DOMAIN findings : Key(n) = key
      <4>1. key \in Reported
        BY <2>1, <3>1 DEF FirstTriggers
      <4> QED
        BY <4>1 DEF Reported, Key
    <3>3. PICK j \in DOMAIN input.rules :
            /\ FirstTriggers(j, key)
            /\ findings[n] = RoleFinding(input, key, input.rules[j])
      BY <3>2 DEF IInv, Justified
    <3>4. j = k
      <4>1. j \in Nat /\ k \in Nat /\ 1 <= j /\ 1 <= k
        BY DEF IInv, TypeOK, Input
      <4>2. ~(j < k) /\ ~(k < j)
        <5>1. j < k => j \in 1 .. k - 1
          BY <4>1
        <5>2. k < j => k \in 1 .. j - 1
          BY <4>1
        <5> QED
          BY <3>1, <3>3, <5>1, <5>2 DEF FirstTriggers, KeysBefore
      <4> QED
        BY <4>1, <4>2
    <3> QED
      BY <3>1, <3>3, <3>4
  <2>4. KeyOnce
    BY DEF IInv
  <2> QED
    BY <2>2, <2>3, <2>4 DEF ScanContract, KeyOnce, Key
<1>2. ~Returned => ScanContract
  BY DEF ScanContract
<1> QED
  BY <1>1, <1>2, WalkInvariant, PTL

-----------------------------------------------------------------------------

\* Only a wildcard in the verbs reports KC-002 and only one in the resources
\* KC-001: the keys of the two wildcard checks are not shared with another check.
LEMMA WildcardKeys ==
  ASSUME NEW r
  PROVE  /\ "KC-002" \in Triggers(r) <=> "*" \in r.verbs
         /\ "KC-001" \in Triggers(r) <=> "*" \in r.resources
         /\ APIGroupKey \in Triggers(r) <=> hasWildcardAPIGroup(r.apiGroups)
<1>1. "KC-002" \in VerbKeys(r) <=> "*" \in r.verbs
  BY DEF VerbKeys, dangerousVerbs
<1>2. "KC-001" \notin VerbKeys(r) /\ APIGroupKey \notin VerbKeys(r)
  BY DEF VerbKeys, dangerousVerbs, APIGroupKey
<1>3. "KC-001" \in ResourceKeys(r) <=> "*" \in r.resources
  BY DEF ResourceKeys, FlaggedResources, dangerousResources, podSubresources,
         coreGroupResources, apiGroupMatchesResource
<1>4. "KC-002" \notin ResourceKeys(r) /\ APIGroupKey \notin ResourceKeys(r)
  BY DEF ResourceKeys, FlaggedResources, dangerousResources, podSubresources,
         coreGroupResources, APIGroupKey
<1>5. {"KC-001", "KC-002", APIGroupKey} \cap ComboKeys(r) = {}
  BY DEF ComboKeys, APIGroupKey
<1>6. GroupKeys(r) = {"KC-001|apiGroup"} \/ GroupKeys(r) = {}
  BY DEF GroupKeys, APIGroupKey
<1> QED
  BY <1>1, <1>2, <1>3, <1>4, <1>5, <1>6 DEF Triggers, GroupKeys, APIGroupKey

\* WildcardNeverMasked holds of every role scan: the three wildcard checks have
\* keys of their own, so a rule without a wildcard never claims one of them.
THEOREM ScanRatesWildcards == Spec => []WildcardNeverMasked
<1>1. IInv => WildcardNeverMasked
  <2> SUFFICES ASSUME IInv, Returned, NEW k \in DOMAIN input.rules,
                      UsesWildcard(input.rules[k])
               PROVE  \E n \in DOMAIN findings : findings[n].severity = WildcardSeverity
    BY DEF WildcardNeverMasked
  <2>1. PICK key \in {"KC-001", "KC-002", APIGroupKey} : key \in Triggers(input.rules[k])
    BY WildcardKeys DEF UsesWildcard, hasWildcards
  <2>2. PICK n \in DOMAIN findings : Key(n) = key
    <3>1. key \in Reported
      BY <2>1, AllReported
    <3> QED
      BY <3>1 DEF Reported, Key
  <2>3. PICK j \in DOMAIN input.rules :
          /\ key \in Triggers(input.rules[j])
          /\ findings[n] = RoleFinding(input, key, input.rules[j])
    BY <2>2 DEF IInv, Justified, FirstTriggers
  <2>4. CountsAsWildcard(input.rules[j], key)
    BY <2>1, <2>3, WildcardKeys DEF CountsAsWildcard, hasWildcards
  <2>5. findings[n].severity = WildcardSeverity
    BY <2>3, <2>4 DEF RoleFinding, WildcardSeverity, computeSeverity
  <2> QED
    BY <2>5
<1> QED
  BY <1>1, WalkInvariant, PTL

-----------------------------------------------------------------------------
(* What Kubernetes grants, against what the scan reports.                   *)

\* The rule, taken by itself, grants one of the permissions.
GrantsOne(r, perms) == \E p \in perms : Grants(r, p)

\* A rule grants a permission of a product when it reaches one group, one resource
\* and one verb of it, each by name or by the wildcard.
LEMMA GrantsProduct ==
  ASSUME NEW r, NEW groups, NEW resources, NEW verbs
  PROVE  GrantsOne(r, Permission(groups, resources, verbs)) <=>
           \E g \in groups, res \in resources, v \in verbs :
             /\ r.apiGroups \cap {g, "*"} # {}
             /\ r.resources \cap {res, "*"} # {}
             /\ r.verbs \cap {v, "*"} # {}
<1>1. ASSUME GrantsOne(r, Permission(groups, resources, verbs))
      PROVE  \E g \in groups, res \in resources, v \in verbs :
             /\ r.apiGroups \cap {g, "*"} # {}
             /\ r.resources \cap {res, "*"} # {}
             /\ r.verbs \cap {v, "*"} # {}
  BY <1>1 DEF GrantsOne, Permission, Grants, Covers
<1>2. ASSUME NEW g \in groups, NEW res \in resources, NEW v \in verbs,
             r.apiGroups \cap {g, "*"} # {},
             r.resources \cap {res, "*"} # {},
             r.verbs \cap {v, "*"} # {}
      PROVE  GrantsOne(r, Permission(groups, resources, verbs))
  <2> DEFINE p == [group |-> g, resource |-> res, verb |-> v]
  <2>1. p \in Permission(groups, resources, verbs)
    BY DEF Permission
  <2>2. Grants(r, p)
    BY <1>2 DEF Grants, Covers
  <2> QED
    BY <2>1, <2>2 DEF GrantsOne
<1> QED
  BY <1>1, <1>2

\* hasEscalationBindingCombo is exact for the changes to roles and bindings.
LEMMA BindingPower ==
  ASSUME NEW r
  PROVE  hasEscalationBindingCombo(r) <=> GrantsOne(r, Powers["KC-011"])
<1>1. Powers["KC-011"] = Permission({"rbac.authorization.k8s.io"},
              {"roles", "clusterroles", "rolebindings", "clusterrolebindings"},
              {"create", "patch", "update"})
  BY DEF Powers
<1> QED
  BY <1>1, GrantsProduct DEF hasEscalationBindingCombo, escalationMutationVerbs,
     escalationBindingResources, rbacGroupResources, MatchesGroup, RBACGroup

\* hasSCCUsePermission is exact for the use of a SecurityContextConstraint.
LEMMA SCCPower ==
  ASSUME NEW r
  PROVE  hasSCCUsePermission(r) <=> GrantsOne(r, Powers["KC-023"])
<1>1. Powers["KC-023"] = Permission({"security.openshift.io"}, {"securitycontextconstraints"}, {"use"})
  BY DEF Powers
<1> QED
  BY <1>1, GrantsProduct DEF hasSCCUsePermission, MatchesGroup, SCCGroup

\* hasServiceAccountTokenPermission is exact for the creation of tokens.
LEMMA TokenPower ==
  ASSUME NEW r
  PROVE  hasServiceAccountTokenPermission(r) <=> GrantsOne(r, Powers["KC-030"])
<1>1. Powers["KC-030"] = Permission({Core}, {"serviceaccounts/token"}, {"create"})
  BY Zenon DEF Powers, Core
<1> QED
  BY <1>1, GrantsProduct DEF hasServiceAccountTokenPermission, MatchesGroup

\* hasCSRApprovalPermission is exact for the approval and the signing of
\* certificate requests, in spite of its two ways to match.
LEMMA CSRPower ==
  ASSUME NEW r
  PROVE  hasCSRApprovalPermission(r) <=> GrantsOne(r, Powers["KC-031"])
<1> DEFINE A == Permission({"certificates.k8s.io"}, CSRNames, {"update", "patch"})
           B == Permission({"certificates.k8s.io"},
                   CSRNames \cup {"certificatesigningrequests", "signers"},
                   {"approve", "sign"})
<1>1. Powers["KC-031"] = A \cup B
  BY DEF Powers
<1>2. GrantsOne(r, A \cup B) <=> GrantsOne(r, A) \/ GrantsOne(r, B)
  BY DEF GrantsOne
<1>3. GrantsOne(r, A) <=>
        /\ MatchesGroup(r.apiGroups, CSRGroup)
        /\ r.resources \cap (CSRNames \cup {"*"}) # {}
        /\ r.verbs \cap {"update", "patch", "*"} # {}
  BY GrantsProduct DEF MatchesGroup, CSRGroup, CSRNames
<1>4. GrantsOne(r, B) <=>
        /\ MatchesGroup(r.apiGroups, CSRGroup)
        /\ r.resources \cap csrResources # {}
        /\ r.verbs \cap {"approve", "sign", "*"} # {}
  BY GrantsProduct DEF MatchesGroup, CSRGroup, CSRNames, csrResources, csrSubresources
<1> HIDE DEF A, B
<1> QED
  BY <1>1, <1>2, <1>3, <1>4 DEF hasCSRApprovalPermission, CSRNames, csrResources, csrSubresources

\* hasEscalationPodCombo is exact for the creation of workloads: each of them in
\* its own group, or all of a group by the wildcard.
LEMMA PodPower ==
  ASSUME NEW r
  PROVE  hasEscalationPodCombo(r) <=> GrantsOne(r, Powers["KC-012"])
<1> DEFINE A == Permission({Core}, {"pods", "replicationcontrollers"}, {"create"})
           B == Permission({"apps"}, {"deployments", "daemonsets", "statefulsets",
                                       "replicasets"}, {"create"})
           C == Permission({"batch"}, {"jobs", "cronjobs"}, {"create"})
           D == Permission({"apps.openshift.io"}, {"deploymentconfigs"}, {"create"})
           G(g, names) == /\ MatchesGroup(r.apiGroups, g)
                          /\ r.resources \cap (names \cup {"*"}) # {}
                          /\ r.verbs \cap {"create", "*"} # {}
<1>1. Powers["KC-012"] = A \cup B \cup C \cup D
  BY Zenon DEF Powers, Core
<1>2. GrantsOne(r, A \cup B \cup C \cup D)
        <=> GrantsOne(r, A) \/ GrantsOne(r, B) \/ GrantsOne(r, C) \/ GrantsOne(r, D)
  BY DEF GrantsOne
<1>3. GrantsOne(r, A) <=> G(Core, {"pods", "replicationcontrollers"})
  BY GrantsProduct DEF MatchesGroup
<1>4. GrantsOne(r, B)
        <=> G("apps", {"deployments", "daemonsets", "statefulsets", "replicasets"})
  BY GrantsProduct DEF MatchesGroup
<1>5. GrantsOne(r, C) <=> G("batch", {"jobs", "cronjobs"})
  BY GrantsProduct DEF MatchesGroup
<1>6. GrantsOne(r, D) <=> G("apps.openshift.io", {"deploymentconfigs"})
  BY GrantsProduct DEF MatchesGroup
<1> HIDE DEF A, B, C, D
<1> QED
  BY <1>1, <1>2, <1>3, <1>4, <1>5, <1>6 DEF hasEscalationPodCombo, MatchesGroup,
     OpenShiftApps, escalationWorkloadResources, apiGroupMatchesEscalationWorkload

\* The keys of the checks on combinations are not shared with the table checks.
LEMMA ComboTriggers ==
  ASSUME NEW r
  PROVE  /\ "KC-011" \in Triggers(r) <=> hasEscalationBindingCombo(r)
         /\ "KC-012" \in Triggers(r) <=> hasEscalationPodCombo(r)
         /\ "KC-023" \in Triggers(r) <=> hasSCCUsePermission(r)
         /\ "KC-030" \in Triggers(r) <=> hasServiceAccountTokenPermission(r)
         /\ "KC-031" \in Triggers(r) <=> hasCSRApprovalPermission(r)
<1> DEFINE combos == {"KC-011", "KC-012", "KC-023", "KC-030", "KC-031"}
<1>1. combos \cap VerbKeys(r) = {}
  BY DEF VerbKeys, dangerousVerbs
<1>2. combos \cap ResourceKeys(r) = {}
  BY DEF ResourceKeys, FlaggedResources, dangerousResources
<1>3. combos \cap GroupKeys(r) = {}
  BY DEF GroupKeys, APIGroupKey
<1>4. \A id \in combos : id \in Triggers(r) <=> id \in ComboKeys(r)
  BY <1>1, <1>2, <1>3 DEF Triggers
<1> QED
  BY <1>4 DEF ComboKeys

\* A rule trips the check of a power exactly when it grants one of its permissions.
LEMMA PowerTriggers ==
  ASSUME NEW r, NEW id \in DOMAIN Powers
  PROVE  id \in Triggers(r) <=> GrantsOne(r, Powers[id])
<1>1. id \in {"KC-011", "KC-012", "KC-023", "KC-030", "KC-031"}
  BY DEF Powers
<1> QED
  BY <1>1, ComboTriggers, BindingPower, PodPower, SCCPower, TokenPower, CSRPower

\* At the end of the scan the keys reported are those some rule trips.
LEMMA ReportedAtEnd ==
  ASSUME IInv, Returned, NEW key
  PROVE  key \in Reported <=> \E k \in DOMAIN input.rules : key \in Triggers(input.rules[k])
<1>1. ASSUME key \in Reported
      PROVE  \E k \in DOMAIN input.rules : key \in Triggers(input.rules[k])
  BY <1>1 DEF Reported, IInv, Justified, FirstTriggers, Key
<1> QED
  BY <1>1, AllReported

\* PowersExact holds of every role scan, whatever the rules: the five checks on
\* combinations report a role exactly when one of its rules grants the power.
THEOREM ScanFindsPowers == Spec => []PowersExact
<1>1. IInv => PowersExact
  <2> SUFFICES ASSUME IInv, Returned, NEW id \in DOMAIN Powers
               PROVE  id \in Reported <=> SomeRuleGrants(Powers[id])
    BY DEF PowersExact
  <2>1. id \in Reported <=> \E k \in DOMAIN input.rules : GrantsOne(input.rules[k], Powers[id])
    BY ReportedAtEnd, PowerTriggers
  <2> QED
    BY <2>1 DEF SomeRuleGrants, GrantsOne
<1> QED
  BY <1>1, WalkInvariant, PTL

\* The names that the code's table of resources has for a rule ID.
NamesFor(id) == {n \in DOMAIN dangerousResources : dangerousResources[n] = id}

\* The filter on API groups lets a resource pass in one group, named or by "*".
InGroup(n, group) ==
  \A groups : apiGroupMatchesResource(groups, n) <=> groups \cap {group, "*"} # {}

\* A rule reaches one of some resources of one group when it has the group and one
\* of the resources, each by its name or by "*".
LEMMA CoversProduct ==
  ASSUME NEW r, NEW g, NEW names, names # {}
  PROVE  (\E a \in ResourcesOf({g}, names) : Covers(r, a))
           <=> /\ r.apiGroups \cap {g, "*"} # {}
               /\ r.resources \cap (names \cup {"*"}) # {}
<1>1. ASSUME NEW a \in ResourcesOf({g}, names), Covers(r, a)
      PROVE  /\ r.apiGroups \cap {g, "*"} # {}
             /\ r.resources \cap (names \cup {"*"}) # {}
  BY <1>1 DEF ResourcesOf, Covers
<1>2. ASSUME NEW name \in names, r.apiGroups \cap {g, "*"} # {},
             r.resources \cap {name, "*"} # {}
      PROVE  \E a \in ResourcesOf({g}, names) : Covers(r, a)
  <2> DEFINE asset == [group |-> g, resource |-> name]
  <2>1. asset \in ResourcesOf({g}, names) /\ Covers(r, asset)
    BY <1>2 DEF ResourcesOf, Covers
  <2> QED
    BY <2>1
<1> QED
  BY <1>1, <1>2

\* The tables are in step: the resources of a rule ID are those of the table, all in
\* one API group, which is the one the filter lets them pass in.
LEMMA TablesInStep ==
  ASSUME NEW id \in DOMAIN Assets
  PROVE  \E g : /\ Assets[id] = ResourcesOf({g}, NamesFor(id))
                /\ NamesFor(id) # {}
                /\ \A n \in NamesFor(id) : InGroup(n, g)
<1>1. CASE id = "KC-006"
  <2> DEFINE names == {"secrets"}
  <2>1. Assets[id] = ResourcesOf({Core}, names)
    BY <1>1, Zenon DEF Assets, Core
  <2>2. names = NamesFor(id)
    BY <1>1 DEF NamesFor, dangerousResources, podSubresources
  <2>3. \A n \in names : InGroup(n, Core)
    BY DEF InGroup, apiGroupMatchesResource, coreGroupResources, rbacGroupResources,
           networkingGroupResources
  <2> QED
    BY <2>1, <2>2, <2>3
<1>2. CASE id = "KC-007"
  <2> DEFINE names == {"pods/exec", "pods/attach", "pods/log",
                     "pods/ephemeralcontainers", "pods/portforward"}
  <2>1. Assets[id] = ResourcesOf({Core}, names)
    BY <1>2, Zenon DEF Assets, Core
  <2>2. names = NamesFor(id)
    BY <1>2 DEF NamesFor, dangerousResources, podSubresources
  <2>3. \A n \in names : InGroup(n, Core)
    BY DEF InGroup, apiGroupMatchesResource, coreGroupResources, rbacGroupResources,
           networkingGroupResources
  <2> QED
    BY <2>1, <2>2, <2>3
<1>3. CASE id = "KC-008"
  <2> DEFINE names == {"nodes", "nodes/proxy"}
  <2>1. Assets[id] = ResourcesOf({Core}, names)
    BY <1>3, Zenon DEF Assets, Core
  <2>2. names = NamesFor(id)
    BY <1>3 DEF NamesFor, dangerousResources, podSubresources
  <2>3. \A n \in names : InGroup(n, Core)
    BY DEF InGroup, apiGroupMatchesResource, coreGroupResources, rbacGroupResources,
           networkingGroupResources
  <2> QED
    BY <2>1, <2>2, <2>3
<1>4. CASE id = "KC-009"
  <2> DEFINE names == {"persistentvolumes"}
  <2>1. Assets[id] = ResourcesOf({Core}, names)
    BY <1>4, Zenon DEF Assets, Core
  <2>2. names = NamesFor(id)
    BY <1>4 DEF NamesFor, dangerousResources, podSubresources
  <2>3. \A n \in names : InGroup(n, Core)
    BY DEF InGroup, apiGroupMatchesResource, coreGroupResources, rbacGroupResources,
           networkingGroupResources
  <2> QED
    BY <2>1, <2>2, <2>3
<1>5. CASE id = "KC-010"
  <2> DEFINE names == {"clusterroles", "clusterrolebindings"}
  <2>1. Assets[id] = ResourcesOf({RBACGroup}, names)
    BY <1>5, Zenon DEF Assets, RBACGroup
  <2>2. names = NamesFor(id)
    BY <1>5 DEF NamesFor, dangerousResources, podSubresources
  <2>3. \A n \in names : InGroup(n, RBACGroup)
    BY DEF InGroup, apiGroupMatchesResource, coreGroupResources, rbacGroupResources,
           networkingGroupResources
  <2> QED
    BY <2>1, <2>2, <2>3
<1>6. CASE id = "KC-016"
  <2> DEFINE names == {"networkpolicies"}
  <2>1. Assets[id] = ResourcesOf({NetworkGroup}, names)
    BY <1>6, Zenon DEF Assets, NetworkGroup
  <2>2. names = NamesFor(id)
    BY <1>6 DEF NamesFor, dangerousResources, podSubresources
  <2>3. \A n \in names : InGroup(n, NetworkGroup)
    BY DEF InGroup, apiGroupMatchesResource, coreGroupResources, rbacGroupResources,
           networkingGroupResources
  <2> QED
    BY <2>1, <2>2, <2>3
<1> QED
  BY <1>1, <1>2, <1>3, <1>4, <1>5, <1>6 DEF Assets

\* A rule trips the check of a rule ID on access exactly if it names one of its
\* resources and has a group the filter accepts: no other check has that key.
LEMMA AssetKey ==
  ASSUME NEW r, NEW id \in DOMAIN Assets
  PROVE  id \in Triggers(r) <=> \E n \in NamesFor(id) \cap r.resources :
                                  apiGroupMatchesResource(r.apiGroups, n)
<1>1. id \notin VerbKeys(r)
  BY DEF Assets, VerbKeys, dangerousVerbs
<1>2. id \notin GroupKeys(r) \cup ComboKeys(r)
  BY DEF Assets, GroupKeys, APIGroupKey, ComboKeys
<1>3. id \in ResourceKeys(r) <=> \E n \in NamesFor(id) \cap r.resources :
                                   apiGroupMatchesResource(r.apiGroups, n)
  BY DEF ResourceKeys, FlaggedResources, NamesFor
<1> QED
  BY <1>1, <1>2, <1>3 DEF Triggers

\* A rule that reaches an asset trips its check or the one for wildcards, and a rule
\* that trips its check reaches one.
LEMMA AssetTriggers ==
  ASSUME NEW r, NEW id \in DOMAIN Assets
  PROVE  /\ (\E a \in Assets[id] : Covers(r, a)) => {id, "KC-001"} \cap Triggers(r) # {}
         /\ id \in Triggers(r) => \E a \in Assets[id] : Covers(r, a)
<1>1. PICK g : /\ Assets[id] = ResourcesOf({g}, NamesFor(id))
               /\ NamesFor(id) # {}
               /\ \A n \in NamesFor(id) : InGroup(n, g)
  BY TablesInStep
<1>2. (\E a \in Assets[id] : Covers(r, a))
        <=> /\ r.apiGroups \cap {g, "*"} # {}
            /\ r.resources \cap (NamesFor(id) \cup {"*"}) # {}
  BY <1>1, CoversProduct
<1>3. id \in Triggers(r)
        <=> r.apiGroups \cap {g, "*"} # {} /\ r.resources \cap NamesFor(id) # {}
  BY <1>1, AssetKey DEF InGroup
<1>4. "*" \in r.resources => "KC-001" \in Triggers(r)
  BY WildcardKeys
<1> QED
  BY <1>2, <1>3, <1>4

\* The same of the dangerous verbs, of which the wildcard has a check of its own.
LEMMA EscalationTriggers ==
  ASSUME NEW r, NEW id \in DOMAIN Escalations
  PROVE  /\ {Escalations[id], "*"} \cap r.verbs # {} => {id, "KC-002"} \cap Triggers(r) # {}
         /\ id \in Triggers(r) => Escalations[id] \in r.verbs
<1>1. \A v \in DOMAIN dangerousVerbs : dangerousVerbs[v] = id <=> v = Escalations[id]
  BY DEF Escalations, dangerousVerbs
<1>2. Escalations[id] \in DOMAIN dangerousVerbs
  BY DEF Escalations, dangerousVerbs
<1>3. id \in VerbKeys(r) <=> Escalations[id] \in r.verbs
  BY <1>1, <1>2 DEF VerbKeys
<1>4. id \notin GroupKeys(r) \cup ComboKeys(r)
  BY DEF Escalations, GroupKeys, APIGroupKey, ComboKeys
<1>5. id \notin ResourceKeys(r)
  BY DEF Escalations, ResourceKeys, FlaggedResources, dangerousResources
<1>6. "*" \in r.verbs => "KC-002" \in Triggers(r)
  BY WildcardKeys
<1> QED
  BY <1>3, <1>4, <1>5, <1>6 DEF Triggers

\* AccessExact holds of every role scan: every asset and dangerous verb that a rule
\* of the role reaches is reported under its rule ID or as a wildcard, and nothing is
\* reported under the rule ID that no rule reaches.
THEOREM ScanFindsAccess == Spec => []AccessExact
<1>1. IInv => AccessExact
  <2> SUFFICES ASSUME IInv, Returned PROVE AccessExact
    BY DEF AccessExact
  <2>1. ASSUME NEW id \in DOMAIN Assets
        PROVE  /\ SomeRuleCovers(Assets[id]) => {id, "KC-001"} \cap Reported # {}
               /\ id \in Reported => SomeRuleCovers(Assets[id])
    <3>1. SomeRuleCovers(Assets[id])
            <=> \E k \in DOMAIN input.rules :
                  \E a \in Assets[id] : Covers(input.rules[k], a)
      BY DEF SomeRuleCovers
    <3> QED
      BY <3>1, AssetTriggers, ReportedAtEnd
  <2>2. ASSUME NEW id \in DOMAIN Escalations
        PROVE  /\ SomeRuleHasVerb({Escalations[id], "*"}) => {id, "KC-002"} \cap Reported # {}
               /\ id \in Reported => SomeRuleHasVerb({Escalations[id]})
    BY EscalationTriggers, ReportedAtEnd DEF SomeRuleHasVerb
  <2> QED
    BY <2>1, <2>2 DEF AccessExact
<1> QED
  BY <1>1, WalkInvariant, PTL

=============================================================================
