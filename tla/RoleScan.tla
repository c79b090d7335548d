------------------------------ MODULE RoleScan ------------------------------
(***************************************************************************)
(* checkRules of pkg/analyzer/analyzer.go: the scan of the rules of one    *)
(* ClusterRole or Role.                                                    *)
(*                                                                         *)
(* The scan makes its checks on one rule after the other and never goes    *)
(* back.  Its map "seen" lets each key report once, so the FIRST rule that *)
(* trips a check fixes the severity of its finding, and every later rule   *)
(* is silent about it.  What the finding list is worth in the end is       *)
(* therefore a property of the whole walk; module RoleContract says what   *)
(* it promises.                                                            *)
(***************************************************************************)
EXTENDS RoleRules, Sequences

CONSTANT Inputs  \* the roles scanned: rules, binding scope, isNamespaced

Input == [rules : Seq(Rule), scope : BindingScope, isNamespaced : BOOLEAN]

ASSUME InputsAssumption == Inputs \subseteq Input

VARIABLES
  input,     \* the arguments of the call
  i,         \* index of the rule being examined
  pc,        \* the check that is next
  todo,      \* entries of the verbs (or resources) loop still to visit
  seen,      \* the keys that have reported
  findings   \* the findings so far, in order

vars == <<input, i, pc, todo, seen, findings>>

Checks == <<"groups", "verbs", "resources", "scc", "csr", "token",
            "bindings", "pods">>
PC     == {Checks[n] : n \in DOMAIN Checks} \cup {"done"}

rule == input.rules[i]

TypeOK ==
  /\ input \in Input
  /\ i \in 1 .. Len(input.rules) + 1
  /\ pc \in PC
  /\ pc # "done" => i \in DOMAIN input.rules
  /\ todo \subseteq STRING
  /\ seen \subseteq Keys
  /\ findings \in Seq([key : Keys, severity : Severity])

Init ==
  /\ input \in Inputs
  /\ i = 1
  /\ pc = IF input.rules = << >> THEN "done" ELSE "groups"
  /\ todo = {}
  /\ seen = {}
  /\ findings = << >>

-----------------------------------------------------------------------------

\* The body of every check that holds: report once per key.
Report(key) ==
  IF key \in seen
  THEN UNCHANGED <<seen, findings>>
  ELSE /\ seen' = seen \cup {key}
       /\ findings' = Append(findings, RoleFinding(input, key, rule))

ReportIf(holds, key) == IF holds THEN Report(key) ELSE UNCHANGED <<seen, findings>>

CheckAPIGroups ==
  /\ pc = "groups"
  /\ ReportIf(hasWildcardAPIGroup(rule.apiGroups), APIGroupKey)
  /\ pc' = "verbs"
  /\ todo' = rule.verbs
  /\ UNCHANGED <<input, i>>

CheckVerb ==
  /\ pc = "verbs"
  /\ \E verb \in todo :
       /\ todo' = todo \ {verb}
       /\ ReportIf(verb \in DOMAIN dangerousVerbs, dangerousVerbs[verb])
  /\ UNCHANGED <<input, i, pc>>

EndVerbs ==
  /\ pc = "verbs"
  /\ todo = {}
  /\ pc' = "resources"
  /\ todo' = rule.resources
  /\ UNCHANGED <<input, i, seen, findings>>

\* Mutant: "continue" before the loop has advanced.
CheckResource_Stays ==
  /\ pc = "resources"
  /\ \E res \in todo :
       /\ todo' = IF res \in FlaggedResources(rule) THEN todo \ {res} ELSE todo
       /\ ReportIf(res \in FlaggedResources(rule), dangerousResources[res])
  /\ UNCHANGED <<input, i, pc>>

CheckResource ==
  /\ pc = "resources"
  /\ \E res \in todo :
       /\ todo' = todo \ {res}
       /\ ReportIf(res \in FlaggedResources(rule), dangerousResources[res])
  /\ UNCHANGED <<input, i, pc>>

EndResources ==
  /\ pc = "resources"
  /\ todo = {}
  /\ pc' = "scc"
  /\ UNCHANGED <<input, i, todo, seen, findings>>

\* The checks that report at most one finding and hand over to the next.
MoveOn(here, next) ==
  /\ pc = here
  /\ pc' = next
  /\ UNCHANGED <<input, i, todo>>

CheckSCCUse ==
  /\ MoveOn("scc", "csr")
  /\ ReportIf(hasSCCUsePermission(rule), "KC-023")

CheckCSRApproval ==
  /\ MoveOn("csr", "token")
  /\ ReportIf(hasCSRApprovalPermission(rule), "KC-031")

CheckTokenAccess ==
  /\ MoveOn("token", "bindings")
  /\ ReportIf(hasServiceAccountTokenPermission(rule), "KC-030")

CheckEscalationBinding ==
  /\ MoveOn("bindings", "pods")
  /\ ReportIf(hasEscalationBindingCombo(rule), "KC-011")

\* Mutant: "seen" declared inside the loop over the rules.
CheckEscalationPod_Forgets ==
  /\ pc = "pods"
  /\ findings' = IF hasEscalationPodCombo(rule) /\ "KC-012" \notin seen
                 THEN Append(findings, RoleFinding(input, "KC-012", rule)) ELSE findings
  /\ seen' = {}
  /\ i' = i + 1
  /\ pc' = IF i = Len(input.rules) THEN "done" ELSE "groups"
  /\ UNCHANGED <<input, todo>>

\* Mutant: the loop runs one rule too far.
CheckEscalationPod_RunsPast ==
  /\ pc = "pods"
  /\ ReportIf(hasEscalationPodCombo(rule), "KC-012")
  /\ i' = i + 1
  /\ pc' = IF i > Len(input.rules) THEN "done" ELSE "groups"
  /\ UNCHANGED <<input, todo>>

\* The last check of the loop body, and the step to the next rule.
CheckEscalationPod ==
  /\ pc = "pods"
  /\ ReportIf(hasEscalationPodCombo(rule), "KC-012")
  /\ i' = i + 1
  /\ pc' = IF i = Len(input.rules) THEN "done" ELSE "groups"
  /\ UNCHANGED <<input, todo>>

Next ==
  \/ CheckAPIGroups
  \/ CheckVerb              \/ EndVerbs
  \/ CheckResource          \/ EndResources
  \/ CheckSCCUse            \/ CheckCSRApproval    \/ CheckTokenAccess
  \/ CheckEscalationBinding \/ CheckEscalationPod

\* The scan is one goroutine and a Go loop body does not stop by itself.
Spec == Init /\ [][Next]_vars /\ WF_vars(Next)

=============================================================================
