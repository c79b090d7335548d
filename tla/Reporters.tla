----------------------------- MODULE Reporters -----------------------------
(***************************************************************************)
(* pkg/reporter: what each format shows of a list of findings.  Wording    *)
(* and layout are left out.  The console sorts the lines of a group by     *)
(* rule, lines of one rule in no fixed order: a group is a bag here.       *)
(***************************************************************************)
EXTENDS Findings, Listings

Formats == {"console", "json", "sarif"}  \* the formats newReporter knows

Resource(f) == [namespace |-> f.namespace, kind |-> f.kind, name |-> f.name]

SeverityString(s) ==
  CASE s = SeverityInfo     -> "INFO"
    [] s = SeverityWarning  -> "WARNING"
    [] s = SeverityHigh     -> "HIGH"
    [] s = SeverityCritical -> "CRITICAL"

\* The severities the console goes through; their order is layout.
severityOrder == {SeverityCritical, SeverityHigh, SeverityWarning, SeverityInfo}

Line(f) ==
  [rule |-> f.rule, resource |-> Resource(f), file |-> f.file, suppressed |-> f.suppressed]

\* The bag of what stands at the places of a list, or of anything that has places.
Tally(f) == [x \in {f[p] : p \in DOMAIN f} |-> Cardinality({p \in DOMAIN f : f[p] = x})]

\* The findings of a severity, and the accepted ones.
Group(findings, s)   == {n \in DOMAIN findings : findings[n].severity = s}
Suppressed(findings) == {n \in DOMAIN findings : findings[n].suppressed}

\* Mutant: accepted findings left out of the groups, but not of the totals.
GroupOf_Open(findings, s) ==
  [severity |-> SeverityString(s),
   lines    |-> Tally([n \in Group(findings, s) \ Suppressed(findings) |-> Line(findings[n])])]

GroupOf(findings, s) ==
  [severity |-> SeverityString(s),
   lines    |-> Tally([n \in Group(findings, s) |-> Line(findings[n])])]

Console(findings) ==
  [format |-> "console",
   groups |-> {GroupOf(findings, s) : s \in {t \in severityOrder : Group(findings, t) # {}}},
   total  |-> Len(findings),
   suppressed |-> Cardinality(Suppressed(findings)),
   counts |-> [s \in Severity |-> Cardinality(Group(findings, s))]]

JSON(findings) ==
  [format |-> "json",
   findings |-> [n \in DOMAIN findings |->
      [rule |-> findings[n].rule, severity |-> SeverityString(findings[n].severity),
       resource |-> Resource(findings[n]), file |-> findings[n].file,
       suppressed |-> findings[n].suppressed, fingerprint |-> Fingerprint(findings[n])]]]

severityToSARIFLevel(s) ==
  CASE s \in {SeverityCritical, SeverityHigh} -> "error"
    [] s = SeverityWarning -> "warning"
    [] s = SeverityInfo    -> "note"

\* Mutant: the mark of an accepted finding dropped.
Result_NoSuppression(f) ==
  [ruleId |-> f.rule, level |-> severityToSARIFLevel(f.severity),
   severity |-> SeverityString(f.severity), resource |-> Resource(f), file |-> f.file,
   fingerprint |-> Fingerprint(f), suppressions |-> << >>]

\* The level is coarser than the severity, which goes with the properties.
Result(f) ==
  [ruleId |-> f.rule, level |-> severityToSARIFLevel(f.severity),
   severity |-> SeverityString(f.severity), resource |-> Resource(f), file |-> f.file,
   fingerprint |-> Fingerprint(f),
   suppressions |-> IF f.suppressed THEN <<"inSource">> ELSE << >>]

\* Each rule is described once, where it first occurs.
RulesSeen(findings) ==
  Sublist([n \in DOMAIN findings |-> findings[n].rule],
          {n \in DOMAIN findings : \A m \in 1 .. n - 1 : findings[m].rule # findings[n].rule})

SARIF(findings) ==
  [format  |-> "sarif",
   rules   |-> RulesSeen(findings),
   results |-> [n \in DOMAIN findings |-> Result(findings[n])]]

Render(format, findings) ==
  CASE format = "console" -> Console(findings)
    [] format = "json"    -> JSON(findings)
    [] format = "sarif"   -> SARIF(findings)

=============================================================================
