----------------------------- MODULE RunContract -----------------------------
(***************************************************************************)
(* What an invocation promises: that it implements ExitGate, for the job   *)
(* its flags, manifests and suppressions amount to.                        *)
(***************************************************************************)
EXTENDS ScanRun

\* What an analysis may yield: findings with a rating each, none of them marked, and
\* a list of entries, if any.
ASSUME InputsAssumption ==
  \A j \in Inputs :
    /\ j.findings \in Seq({j.findings[n] : n \in DOMAIN j.findings})
    /\ \A n \in DOMAIN j.findings :
         LET f == j.findings[n]
         IN  /\ f.severity \in Severity
             /\ f = [rule |-> f.rule, kind |-> f.kind, name |-> f.name,
                     namespace |-> f.namespace, file |-> f.file, severity |-> f.severity,
                     suppressed |-> FALSE]

RenderedType(x) ==
  x = Nothing \/ (x.text.format \in Formats /\ x.whole \in BOOLEAN)

TypeOK ==
  /\ pc \in PC
  /\ exit \in {"running", "pass", "blocked", "error"}
  /\ exit # "running" <=> pc = "done"
  /\ findings # << >> => Len(findings) = Len(job.findings)
  /\ RenderedType(stdout) /\ RenderedType(report)

-----------------------------------------------------------------------------

\* An entry accepts a finding of its rule on a resource of its name, in its
\* namespace or, if it has none, in any.
Accepts(entry, f) ==
  <<entry.rule, entry.name>> = <<f.rule, f.name>>
    /\ (entry.namespace = "" \/ entry.namespace = f.namespace)

Accepted(f) ==
  /\ job.suppressions.given
  /\ \E m \in DOMAIN job.suppressions.entries : Accepts(job.suppressions.entries[m], f)

BadSuppressions ==
  job.suppressions.given /\
    \/ job.suppressions.fault # "none"
    \/ \E m \in DOMAIN job.suppressions.entries :
         "" \in {job.suppressions.entries[m].rule, job.suppressions.entries[m].name}

\* The format the output file asks for.
FileFormat ==
  IF job.outputFormat # "" THEN job.outputFormat
  ELSE IF job.output = "sarif" THEN "sarif" ELSE "json"

\* The severity a word of the command line or of a report stands for.
SeverityOf(word) == CHOOSE s \in Severity : SeverityString(s) = word

Faulty ==
  \/ \A s \in Severity : SeverityString(s) # job.failOn
  \/ ~job.loads
  \/ BadSuppressions
  \/ ~job.quiet /\ job.format \notin Formats
  \/ job.output # "none" /\ FileFormat \notin Formats

Blocked ==
  \E n \in DOMAIN job.findings :
    ~Accepted(job.findings[n]) /\ job.findings[n].severity >= SeverityOf(job.failOn)

\* What a reader of a report learns of a finding, and the finding that each place of
\* a report shows: the lines of a group have its severity.
Fact(rule, severity, resource, file, suppressed) ==
  [rule |-> rule, severity |-> severity, resource |-> resource, file |-> file,
   suppressed |-> suppressed]

LinesOf(text) ==
  UNION {UNION {[group : {g}, line : {l}, copy : 1 .. g.lines[l]] : l \in DOMAIN g.lines} :
           g \in text.groups}

Shown(text) ==
  CASE text.format = "console" ->
         [p \in LinesOf(text) |->
            Fact(p.line.rule, SeverityOf(p.group.severity), p.line.resource, p.line.file,
                 p.line.suppressed)]
    [] text.format = "json" ->
         [n \in DOMAIN text.findings |->
            LET f == text.findings[n]
            IN  Fact(f.rule, SeverityOf(f.severity), f.resource, f.file, f.suppressed)]
    [] text.format = "sarif" ->
         [n \in DOMAIN text.results |->
            LET r == text.results[n]
            IN  Fact(r.ruleId, SeverityOf(r.severity), r.resource, r.file,
                     r.suppressions # << >>)]

\* What there is to learn about the findings of a job.
Owed ==
  [n \in DOMAIN job.findings |->
     LET f == job.findings[n]
     IN  Fact(f.rule, f.severity, Resource(f), f.file, Accepted(f))]

\* A report is complete when it shows every finding, the accepted ones marked.
Complete(x) ==
  /\ x.whole
  /\ x.text.format = FileFormat
  /\ Tally(Shown(x.text)) = Tally(Owed)

GateJob ==
  [blocked |-> ~Faulty /\ Blocked, wantsFile |-> job.output # "none", faulty |-> Faulty]

GateReport ==
  IF report = Nothing THEN "untouched" ELSE IF Complete(report) THEN "complete" ELSE "damaged"

Gate == INSTANCE ExitGate WITH job <- GateJob, code <- exit, report <- GateReport

\* Every step of an invocation is one of the gate, or nothing to it: it blocks
\* exactly when some finding at or above the threshold is not accepted; a verdict
\* comes with the complete report in the file that was asked for, in which
\* accepted findings are marked and not dropped; everything that is wrong with
\* the job ends in an error, and never touches the file (main.go:74-170).
GateSteps == Gate!Steps

\* An invocation goes on as long as the gate has something to do: every one ends in
\* a verdict or an error (main.go:40-72).
GateEnds == Gate!Fairness

-----------------------------------------------------------------------------

\* Facts of a report that its reader sums up or looks elsewhere for: the totals of
\* the console, the descriptions and the levels of SARIF.
Consistent(text) ==
  LET shown  == Shown(text)
      places == DOMAIN shown
  IN  /\ text.format = "console" =>
           /\ text.total = Cardinality(places)
           /\ text.suppressed = Cardinality({p \in places : shown[p].suppressed})
           /\ \A s \in Severity :
                text.counts[s] = Cardinality({p \in places : shown[p].severity = s})
      /\ text.format = "sarif" =>
           /\ \A p \in places :
                Cardinality({n \in DOMAIN text.rules : text.rules[n] = shown[p].rule}) = 1
           /\ \A n \in DOMAIN text.results :
                text.results[n].level = "error" <=>
                  SeverityOf(text.results[n].severity) >= SeverityHigh

\* The verdict can be read off what was printed and off the file, in whatever
\* format each is: a process that gave one is blocked exactly if the report shows
\* a finding at or above the threshold that is not marked as accepted, and what
\* the report counts is what it shows (console.go:15-102, sarif.go:14-105).
VerdictShown ==
  exit \in {"pass", "blocked"} =>
    \A x \in {stdout, report} : x.whole =>
      /\ exit = "blocked" <=>
           \E p \in DOMAIN Shown(x.text) :
             ~Shown(x.text)[p].suppressed
               /\ Shown(x.text)[p].severity >= SeverityOf(job.failOn)
      /\ Consistent(x.text)

=============================================================================
