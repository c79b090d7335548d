---------------------------- MODULE Suppressions ----------------------------
(***************************************************************************)
(* pkg/suppression: the entries of a suppressions file and the findings    *)
(* they mark.  A mark never removes a finding; only the exit code of the   *)
(* command and the rendering of the finding depend on it.                  *)
(***************************************************************************)
EXTENDS Sequences

\* An entry without a namespace covers every namespace.
matches(f, entry) ==
  /\ f.rule = entry.rule
  /\ f.name = entry.name
  /\ entry.namespace \in {"", f.namespace}

ApplySuppressions(findings, entries) ==
  [n \in DOMAIN findings |->
     [findings[n] EXCEPT !.suppressed =
        @ \/ \E m \in DOMAIN entries : matches(findings[n], entries[m])]]

\* LoadSuppressions refuses a file it cannot read, that exceeds the size limit or
\* does not parse, and one with an incomplete entry.
Acceptable(supFile) ==
  /\ supFile.fault = "none"
  /\ \A m \in DOMAIN supFile.entries :
       supFile.entries[m].rule # "" /\ supFile.entries[m].name # ""

=============================================================================
