----------------------------- MODULE Extraction -----------------------------
(***************************************************************************)
(* The extract functions of pkg/loader/loader.go: what the loader keeps of *)
(* a document beside the document itself.                                  *)
(***************************************************************************)
EXTENDS Documents

extractRules(doc) == SelectSeq(Items(At(doc, "rules")), IsMap)

extractBinding(doc) ==
  [roleRef  |-> IF IsMap(At(doc, "roleRef")) THEN At(doc, "roleRef") ELSE Null,
   subjects |-> SelectSeq(Items(At(doc, "subjects")), IsMap)]

\* The account named by a pod spec: the deprecated field counts when the other
\* names none.
AccountOf(podSpec) ==
  LET named      == StringOr(At(podSpec, "serviceAccountName"), "")
      deprecated == StringOr(At(podSpec, "serviceAccount"), "")
  IN  IF named # "" THEN named ELSE IF deprecated # "" THEN deprecated ELSE "default"

extractServiceAccountName(doc) == AccountOf(At(doc, "spec"))

\* Mutant: the template looked for beside the job template.
extractWorkloadServiceAccountName_NoJobTemplate(doc, kind) ==
  AccountOf(At(At(At(doc, "spec"), "template"), "spec"))

extractWorkloadServiceAccountName(doc, kind) ==
  LET spec == IF kind = "CronJob" THEN At(At(At(doc, "spec"), "jobTemplate"), "spec")
              ELSE At(doc, "spec")
  IN  AccountOf(At(At(spec, "template"), "spec"))

=============================================================================
