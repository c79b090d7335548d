------------------------------- MODULE ScanRun -------------------------------
(***************************************************************************)
(* The run function of cmd/kube-chainsaw/main.go and main's exit code: one *)
(* invocation of the command line.  Loading and analysing are taken as a   *)
(* whole here (ManifestLoader, RoleScan and ChainWalk model them): they    *)
(* fail, or yield the findings of the invocation.                          *)
(***************************************************************************)
EXTENDS Reporters, Suppressions

CONSTANT Inputs  \* the invocations considered

VARIABLES
  job,        \* the invocation: flags, and what the run will meet
  pc,
  findings,
  stdout,     \* what was printed, all of it or a part: [text, whole], or Nothing
  report,     \* what the output file holds: likewise
  exit        \* "running", or how the process ended

vars == <<job, pc, findings, stdout, report, exit>>

PC == {"arguments", "load", "suppress", "print", "write", "threshold", "done"}

Nothing == [text |-> [format |-> ""], whole |-> FALSE]

NoSeverity == -1

\* The word is read whatever its case and the blanks around it.
ParseSeverity(word) ==
  CASE word = "INFO"     -> SeverityInfo
    [] word = "WARNING"  -> SeverityWarning
    [] word = "HIGH"     -> SeverityHigh
    [] word = "CRITICAL" -> SeverityCritical
    [] OTHER             -> NoSeverity

\* resolveOutputFormat: the extension decides only when --output-format is not
\* given.
resolveOutputFormat(j) ==
  IF j.outputFormat # "" THEN j.outputFormat
  ELSE IF j.output = "sarif" THEN "sarif" ELSE "json"

\* Mutant: a finding at the threshold passes.
Exceeds_Above(f, failOn) == ~f.suppressed /\ f.severity > failOn

Exceeds(f, failOn) == ~f.suppressed /\ f.severity >= failOn

Init ==
  /\ job \in Inputs
  /\ pc = "arguments"
  /\ findings = << >>
  /\ stdout = Nothing
  /\ report = Nothing
  /\ exit = "running"

-----------------------------------------------------------------------------

Doing(here) == pc = here /\ UNCHANGED job

Continue(next) == pc' = next /\ UNCHANGED exit

\* Mutant: what failed is tried again.
Fail_Retried == UNCHANGED <<exit, pc>>

\* Mutant: the error is noted and the run goes on.
Fail_GoesOn == exit' = "error" /\ pc' = "threshold"

\* Every error but the threshold sentinel makes main exit with code 2.
Fail == exit' = "error" /\ pc' = "done"

ParseArguments ==
  /\ Doing("arguments")
  /\ IF ParseSeverity(job.failOn) \in Severity THEN Continue("load") ELSE Fail
  /\ UNCHANGED <<findings, stdout, report>>

\* A missing path, no path at all, or a cluster that cannot be read.
LoadFails ==
  /\ Doing("load")
  /\ ~job.loads
  /\ Fail
  /\ UNCHANGED <<findings, stdout, report>>

LoadAndAnalyze ==
  /\ Doing("load")
  /\ job.loads
  /\ findings' = job.findings
  /\ Continue("suppress")
  /\ UNCHANGED <<stdout, report>>

Suppress ==
  /\ Doing("suppress")
  /\ IF job.suppressions.given
     THEN IF Acceptable(job.suppressions)
          THEN /\ findings' = ApplySuppressions(findings, job.suppressions.entries)
               /\ Continue("print")
          ELSE Fail /\ UNCHANGED findings
     ELSE Continue("print") /\ UNCHANGED findings
  /\ UNCHANGED <<stdout, report>>

\* The result of the print is not looked at: what could not be printed is lost.
PrintReport ==
  /\ Doing("print")
  /\ IF job.quiet THEN Continue("write") /\ UNCHANGED stdout
     ELSE IF job.format \in Formats
          THEN /\ \E whole \in BOOLEAN :
                    stdout' = [text |-> Render(job.format, findings), whole |-> whole]
               /\ Continue("write")
          ELSE Fail /\ UNCHANGED stdout
  /\ UNCHANGED <<findings, report>>

NoReport ==
  /\ Doing("write")
  /\ job.output = "none"
  /\ Continue("threshold")
  /\ UNCHANGED <<findings, stdout, report>>

\* The report format is looked at only now, after the print.
ReportFormatUnknown ==
  /\ Doing("write")
  /\ job.output # "none"
  /\ resolveOutputFormat(job) \notin Formats
  /\ Fail
  /\ UNCHANGED <<findings, stdout, report>>

\* os.WriteFile truncates and writes; when it fails, the file may not exist, or
\* hold a part of the report.
WriteReport ==
  /\ Doing("write")
  /\ job.output # "none"
  /\ resolveOutputFormat(job) \in Formats
  /\ LET Written(whole) ==
           [text |-> Render(resolveOutputFormat(job), findings), whole |-> whole]
     IN  \/ report' = Written(TRUE) /\ Continue("threshold")
         \/ report' \in {Nothing, Written(FALSE)} /\ Fail
  /\ UNCHANGED <<findings, stdout>>

Threshold ==
  /\ Doing("threshold")
  /\ exit' = IF \E n \in DOMAIN findings : Exceeds(findings[n], ParseSeverity(job.failOn))
             THEN "blocked" ELSE "pass"
  /\ pc' = "done"
  /\ UNCHANGED <<findings, stdout, report>>

Next ==
  \/ ParseArguments \/ LoadFails \/ LoadAndAnalyze \/ Suppress \/ PrintReport
  \/ NoReport \/ ReportFormatUnknown \/ WriteReport \/ Threshold

\* The process runs until it exits; it waits for nobody.
Spec == Init /\ [][Next]_vars /\ WF_vars(Next)

=============================================================================
