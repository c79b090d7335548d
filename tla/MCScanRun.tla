------------------------------ MODULE MCScanRun ------------------------------
(***************************************************************************)
(* ScanRun on every combination of flags, for analyses of up to two        *)
(* findings around the threshold and suppressions that accept none, one or *)
(* both of them.                                                           *)
(***************************************************************************)
EXTENDS RunContract

Finding(rule, name, ns, severity) ==
  [rule |-> rule, kind |-> "Pod", name |-> name, namespace |-> ns, file |-> "f",
   severity |-> severity, suppressed |-> FALSE]

Low   == Finding("KC-006", "a", "n", SeverityWarning)
High  == Finding("KC-006", "a", "m", SeverityHigh)
Admin == Finding("KC-013", "a", "n", SeverityCritical)

Analyses == {<< >>, <<Low>>, <<High>>, <<Admin>>, <<Low, High>>, <<Admin, High>>, <<Low, Low>>,
              <<Low, Admin, High, Admin>>}

Entry(rule, name, ns) == [rule |-> rule, name |-> name, namespace |-> ns]

Lists == {<< >>, <<Entry("KC-006", "a", "")>>, <<Entry("KC-006", "a", "m")>>,
          <<Entry("KC-013", "b", ""), Entry("KC-013", "a", "n")>>,
          <<Entry("KC-006", "a", ""), Entry("KC-013", "", "")>>}

Suppressing ==
  {[given |-> FALSE, fault |-> "none", entries |-> << >>]}
  \cup {[given |-> TRUE, fault |-> "none", entries |-> l] : l \in Lists}
  \cup {[given |-> TRUE, fault |-> f, entries |-> << >>] :
          f \in {"unreadable", "toolarge", "unparsable"}}

MCInputs ==
  [failOn : {"LOW", "WARNING", "HIGH"}, loads : BOOLEAN,
   findings : Analyses, suppressions : Suppressing, quiet : BOOLEAN,
   format : {"console", "json", "sarif", "xml"}, output : {"none", "json", "sarif"},
   outputFormat : {"", "sarif", "xml"}]

=============================================================================
