# kube-chainsaw: specification and verification

TLA+ models of kube-chainsaw, the TLC runs that check them on small instances,
and proofs checked by TLAPS. Every definition is a translation of the Go source;
`PROJECT.json` (`map`) names the lines.

kube-chainsaw reads Kubernetes manifests (or a live cluster, through kubectl),
looks for RBAC and other security risks, marks the findings that a suppressions
file accepts, prints and writes reports, and ends with an exit code that a
pipeline uses as a gate. It is one goroutine per process. What makes it hard is
order, loss, and reading between the lines: the order of rules, files and Go maps
decides which of several candidates a first-wins or last-wins table keeps; filters,
limits and late errors decide what is dropped, with or without a word; a cluster
changes while it is read; and what a document means to Kubernetes depends on what
it leaves out.

## Inventory

| Component | State it keeps | Operations | Interacts with |
|---|---|---|---|
| Command line run (`cmd/kube-chainsaw/main.go`) | flags, finding list, exit code | parse, load, analyse, suppress, print, write, threshold | calls all the others in this order; writes stdout and the output file |
| Manifest loader (`pkg/loader/loader.go`) | `LoadedResources`: maps by kind and key, slices of bindings | loop over paths, directory walk, file limits, template substitution, splitting, categorize, extraction | reads the file system, warns on stderr |
| Cluster loader (`pkg/loader/cluster.go`) | a temporary directory | kubectl get into files, optional API groups | runs kubectl, calls the manifest loader |
| Analysis (`analyzer.go`, `Analyze`) | finding list | eight phases over the loaded resources | calls the scan of each role, five detectors, the chain analysis |
| Role scan (`checkRules`, `rules.go`) | `seen`, finding list of one role | eight checks per rule | uses the binding scope of the role |
| Privilege chains (`analyzePrivilegeChains`) | list of pods and workloads, finding list | collect, walk over bindings, standalone pass | joins pods, accounts, bindings, roles |
| Detectors (`networkpolicy.go`, `workload_security.go`, `scc.go`, `exposure.go`, `secrets.go`) | none across objects | checks on one object at a time | append to the finding list |
| Suppressions (`pkg/suppression`) | entries | load, match, mark | marks findings in place |
| Reporters (`pkg/reporter`) | none | render console, JSON, SARIF | read the marked findings |
| Version (`internal/version`) | a build constant | none | printed by the command line and SARIF |

What makes each correct:

- *Role scan*: what is reported is exactly what the rules grant, whatever their
  order; a wildcard is never rated below its severity because of rules before it.
- *Privilege chains*: one finding per chain, true descriptions, the same verdict
  in every order of the maps.
- *Analysis*: severities follow who is bound to what, across names, kinds and
  namespaces; no role's findings swallow another's.
- *Manifest loader*: the result is a function of the files as they were read, a
  file that grows meanwhile included; what is lost is named.
- *Cluster loader*: a partial fetch does not look like a small cluster, whatever
  the cluster does meanwhile; nothing stays on disk.
- *Detectors*: what is reported of an object is what the object means to the
  cluster, however it is written down.
- *Reporters*: the verdict can be read off every format.
- *Command line run*: the exit code is the verdict on what was not accepted; an
  error never looks like a verdict; a verdict comes with a complete report.

## Modules

Components, in the order they build on each other:

| Module | Models | State and actions |
|---|---|---|
| `Models` | severities, `BindingScope`, `computeSeverity`, `capSeverity` | operators only |
| `RoleRules` | the tables of `rules.go`, the API group filters, the `has*` checks, the keys of `seen`; `RoleFindings`: the findings of a whole role | operators only |
| `RoleScan` | `checkRules` | `i` the loop index, `pc` the check that is next, `todo` the rest of the inner loop, `seen`, `findings`; one action per check of the loop body |
| `Listings` | lists out of sets (`Listed`, the order of a Go map) and out of lists (`Sublist`, what a loop keeps) | operators only |
| `Findings` | `ComputeFingerprint`, `appendIfNew` | operators only |
| `ChainWalk` | `analyzePrivilegeChains` | `unread` the rest of a Go map range, `refs`, the indices `r` and `b`, `findings`; one action per loop body and per loop end |
| `Documents` | parsed YAML values and the conversions the code reads them with (`asStringMap`, `toStringSlice`, ...) | operators only |
| `NetworkPolicies`, `WorkloadSecurity`, `SecurityConstraints`, `Exposure`, `Secrets` | the five detectors, each on one object | operators only |
| `Analysis` | `Analyze`, `IsEmpty`, `resolveClusterRoleScope`, `resolveRoleScope`; composes `RoleFindings` (one step per role), the detectors (one step for all) and `ChainWalk` (step by step) | `phase`, `unvisited`, `findings` and the variables of the walk |
| `Extraction` | rules, subjects, `roleRef` and service account names, from a document | operators only |
| `ManifestLoader` | `LoadManifests`, `walkDir`, `processFile`, `splitYAMLDocs`, `categorize` for every kind | `paths`, `entries`, `file`, `docs`: what the nested loops have left; `objects`, `bindings`, `warnings`: the result. `StatFile` and the read after it are two steps, and `GrowFile` (another process) may come between them |
| `ClusterFetch` | `LoadFromCluster`; composes `ManifestLoader` step by step, as an instance over the temporary directory | `step`, `tmpDir`, `dumps`, `outcome`; `Create` and `Delete` change the cluster between any two calls of kubectl |
| `Suppressions` | `LoadSuppressions` (as acceptance), `ApplySuppressions`, `matches` | operators only |
| `Reporters` | the console, JSON and SARIF renderers: groups, totals, rules, levels, marks | operators only |
| `ScanRun` | `run`, `main`; builds on `Suppressions` and `Reporters` | `pc` the step, `findings`, `stdout`, `report`, `exit`; one action per step and error path |

What they promise, and the proofs:

| Module | Contents |
|---|---|
| `RoleContract`, `ChainContract`, `AnalysisContract`, `DetectorContract`, `LoaderContract`, `FetchContract` | the properties of the component, stated over what the input means (Kubernetes' reading of a rule, a selector, a host, ...) rather than over how the code goes through it |
| `ChainRuns` | two runs on the same manifests, the second an instance of `ChainContract`: what may differ between them |
| `ExitGate`, `RunContract` | an abstract gate that ends in a verdict or an error; the refinement of it by `ScanRun`, and what a report shows its reader |
| `RoleScanProofs`, `ChainWalkProofs`, `ChainRunsProofs`, `AnalysisProofs`, `LoaderProofs`, `ClusterFetchProofs`, `ScanRunProofs` | theorems about the component of that name |
| `ListingsProofs` | theorems about `Listings`, about `FlattenSeq`, and about where a pod specification is, that the others use |
| `MCRoles`, `MCChainRuns`, `MCAnalysis` with `MCObjects`, `MCLoader`, `MCClusterFetch`, `MCScanRun` | the constants of the runs |

In the component modules, an operator under a comment that begins "Mutant:" is a
plausible bug in the operator it is named after; no specification uses it, and
putting it in the place of that operator makes a property fail (`PROJECT.json`,
`mutants`).

### Abstractions

- A rule is three sets: every check asks only for membership, and entries of a
  list are visited in any order, which includes the order of the list.
  `resourceNames` only enters descriptions and is left out.
- A finding keeps what decisions read. Descriptions are kept as the facts they
  quote where a property is about them (`ChainWalk`), else as the check that made
  them.
- SHA-256 is injective.
- A directory is the sequence of entries that `filepath.WalkDir` visits. A file is
  its documents; its size is a number beside them. Parsing is external: a document
  arrives as a value, or as junk that the parser rejects. A document remembers
  whether the line before it matches the regular expression of `splitYAMLDocs`. Lines
  that end with a carriage return do not, and such documents stay glued to the one
  before them, of which the parser returns the first.
- The preprocessing of templates is modelled for names: any expression becomes one
  placeholder.
- A value of a document is null, a string, a Boolean, a list or a map. A field may
  hold a value of a type it should not have, and be missing. Names that checks take
  apart come taken apart: hosts as labels, paths and groups as segments, keys of a
  Secret as parts, a cidr as the family of its addresses and the bits they begin with.
- What an object means to the cluster is stated over constants of `DetectorContract`:
  the labels that pods and namespaces may have (`LabelNames`, `LabelValues`), the
  length of the addresses of each family (`AddressBits`), and the labels and lengths of
  host names (`HostLabels`, `MaxLabels`), of which one label (`Unnamed`) is in no
  manifest. The model of the code does not know them.
- One call of kubectl lists the cluster at one moment; the dump is as large as the
  number of objects in it. The objects of a cluster have API versions that
  `categorize` accepts.
- `ScanRun` takes loading and analysing as one step with an outcome. A rendering is
  what a reader can tell from it: groups, lines, counts, results, levels, marks. The
  lines of a group are a bag (`Tally`: a line, and how many times it is there). A
  write succeeds, or leaves nothing or a part of a file.
- Errors of rendering (JSON encoding of plain structs) do not occur. Where the code
  sorts a rendering, order within a group is left out.

### What the models pin without comment from the documentation

These choices of the code are visible in the definitions and, where noted, in a
property's exceptions. The documentation does not say otherwise, but where a run is
named.

- `PoliciesJudged`: a `namespaceSelector` that is written but null hides a
  `podSelector` beside it, so a broad peer may pass.
- `PodsJudged`: host paths such as `//etc` are compared as they are written.
- `SCCsJudged`: groups other than the ones in the table, such as
  `system:authenticated:oauth`, are taken as named on purpose.
- `AccessExact`: a rule without verbs, which the cluster refuses, counts as any other;
  `*/log`, that subresource of every resource, is a name like any other.
- `ExposureJudged`: what a default backend serves beside rules is not looked at
  (`HidesBackend`; run `exposure_catchall`), and a wildcard in a TLS list is taken to
  cover names any number of labels below it, where Kubernetes has one
  (`StretchesWildcard`).
- `SecretsJudged`: keys such as `api_key` are not in the table of credential-like
  names, though `apikey` is.
- `ReportFormatUnknown`, `PrintReport`: formats are validated when they are used, and
  a format that is not used is no fault of the job.
- `Suppress`: a suppressions file above its limit ends the run.
- `PrintReport`: the result of printing is not looked at.

## Runs

| Run | Checks | Bounds | Shows |
|---|---|---|---|
| `role_scan` | `TypeOK`, `ScanContract`, `WildcardNeverMasked`, `PowersExact`, `AccessExact`, `ScanReturns` | every sequence of up to 3 rules from a pool of 7, with every scope; every rule with at most one entry per list over all groups, resources and verbs that the tables name and one of each they do not; rules with two groups and two resources; pairs of rules that grant something only together | the order of rules never loses a check or hides a wildcard; the tables agree with Kubernetes' reading of a rule as a product |
| `chain_runs` | `TypeOK`, `ChainsReported`, `DescriptionsTrue`, `UsersNamed`, `VerdictsRepeat`, `FindingsRepeatUnlessShared`, `RunsReturn` | up to 3 pods and a workload in two namespaces, up to 2 bindings of each kind, two runs | chains are reported once and truthfully in every map order; which parts of the output do not depend on the order |
| `analysis` | `TypeOK`, `SeverityFollowsBindings`, `EveryRoleReported`, `PoliciesJudged`, `PodsJudged`, `SCCsJudged`, `ExposureJudged`, `SecretsJudged` | a ClusterRole and two Roles of one name, an aggregated ClusterRole, up to 2 bindings of each kind; and pools of documents per kind | scopes are resolved by kind, name and namespace; the list is complete; each detector agrees with the cluster, but for the exceptions its property names |
| `loader` | `TypeOK`, `LoadContract`, `LossesReported`, `Returns` | up to 2 arguments, directories of up to 2 segments (`MaxSegments`), 13 files, of which two may grow, lists nested up to two deep (`MaxNesting`), `MaxFileSize` 1, `MaxDocsPerFile` 4 | what is loaded is a function of the files as they were read, and losses are named |
| `cluster_fetch` | `TypeOK`, `NothingMissedSilently`, `NothingInvented`, `FailsForMandatoryOnly`, `DumpsRemoved` | 5 clusters in two namespaces, with and without `--namespace`, one change (`MaxChanges`), any API groups served | while the cluster changes and calls fail, nothing is missed without a warning or invented, and the directory goes |
| `scan_run` | `TypeOK`, `VerdictShown`, `GateSteps`, `GateEnds` | combinations of all flags, 8 lists of up to 4 findings around the threshold, up to 2 entries, three ways a suppressions file fails | `ScanRun` implements `ExitGate`, step by step, and ends; each format shows the verdict |

Why these bounds suffice. Two rules are enough for one to claim the key of another,
and the third checks that what the second claims is kept. Bindings of one name in
two files are the hard case of the chains, and need two; a pod and a workload of one
account, pods of two accounts, and pods of one name in two namespaces are all among
three pods and a workload. A file limit is met from both
sides by sizes 1 and 2 and by 4 and 5 documents. One change of the cluster is
enough to put it before or after each of the five calls, and two objects of one dump
exceed the file limit where one does not; a larger number of changes adds no new
case for an object, which a property judges by itself. The pools of documents vary
the fields that a detector reads, alone and together with the fields that change their
meaning, and include missing, null, empty and ill-typed ones. The rest of an object,
and other objects, are not read. What these documents mean is judged over one label
name with two values, one of which a selector can turn away, addresses of 2 and 3
bits, enough for a block that is not all of them, and host names of up to three
labels, one more than a wildcard has behind its "*"; `AnalysisProofs` shows the
agreement for all others.

The calls modelled here end, so deadlock is not checked: a state in which the
call has returned has no successor. `ScanReturns`, `RunsReturn`, `Returns`,
`DumpsRemoved` and `GateEnds` exclude any other one. `Analysis` states no fairness and
its run is about safety alone: the loops of its phases are ranges over finite maps, and
the chain walk, its only inner loop of steps, is checked by `chain_runs`.

**Fairness.** Weak fairness of the program's own steps, and nothing more: a single
goroutine that can take a step takes one. No step waits for anybody. In
`ManifestLoader` it is on `Load`, not on `GrowFile`; in `ClusterFetch` on `Program`, not
on the changes of the cluster. The latter says that kubectl returns, with or without
success, which no timeout in the code enforces (`cluster.go:103`). With these
liveness properties, those of the form "when it has returned, ..." are statements
about every call.

### Disagreements with the documentation

Each of these runs ends with a counterexample to something that the repository
says of the program.

| Run | Property | Text |
|---|---|---|
| `role_once` | `RuleReportedOnce` | "deduplicate: rule_id per resource" (`analyzer.go:62`), "fire KC-001 only once for the role" (`analyzer_test.go:749`): a role with wildcard resources and wildcard groups gets two, with one fingerprint |
| `role_critical` | `WildcardFindingsCritical` | the severity table (`rules.md:77`): a rule without wildcards listed first keeps the finding it shares with a wildcard rule at HIGH |
| `chain_same` | `FindingsRepeat` | "Same manifests always produce same findings" (`overview.md:129`): descriptions name whichever pod the map yields first |
| `exposure_catchall` | `CatchAllsReported` | "Detects Ingress catch-all or wildcard hosts" (`network.md:123`): a default backend beside rules with plain hosts is not reported |
| `loader_refusals` | `RefusalsReported` | "Files exceeding these limits are logged to stderr and skipped" (`cli.md:174`): not logged when named on the command line |
| `loader_documents` | `EveryDocumentRead` | "splitYAMLDocs splits a multi-document YAML string on "---" separators" (`loader.go:213`): not where the line ends with a carriage return |

The loop over the arguments drops every error of a file named there, so the cause of
`loader_refusals` also makes a named file that cannot be read look empty, although
`cli.md:65` gives exit code 2 for "permission denied".

## Proofs

TLC checks the instances above; these theorems hold for all values of the
constants. Each rests on an inductive invariant of the module, in three
steps: the initial states satisfy it, every action keeps it, and it implies the
property. Whatever a theorem takes for granted about the inputs is an `ASSUME`
that TLC evaluates on the inputs of the runs.

**`RoleScanProofs`**, for every set of roles (any number of rules over any strings,
any scope), from `RoleScan`'s `InputsAssumption` that the inputs are roles:
`TypeCorrect`, `WalkInvariant`, `ScanKeepsContract`, `ScanRatesWildcards`,
`ScanFindsPowers`, `ScanFindsAccess`.

`ScanContract` speaks of the end of the walk only and is not inductive. `IInv` says
where the walk is: the keys in `seen` are those that the rules before `i` trip,
and those that the checks already made on rule `i` trip; every finding is the one
the first rule with its key yields; no key is found twice. Each action either
moves `pc` within the rule, for which `CoreStep` shows that what it may report is
what the rule trips at this check, or completes the rule, after which the keys of
the rule are all seen. At the end the rules before `i` are all the rules, which
gives the contract (`AllReported`). A wildcard rule always trips a key that only
wildcard rules can trip (`WildcardKeys`): KC-001 and KC-002 are tripped by "*"
only, so the first rule to claim one of them is itself rated as a wildcard. That is
why the order of rules cannot hide a wildcard, though it can lower the other
findings of a wildcard rule (run `role_critical`). `Analysis` uses `RoleFindings`
for a whole scan; `ScanKeepsContract` is what justifies it.

The last two theorems are about the tables rather than the walk, for whatever groups,
resources and verbs a rule names, known to the tables or not. The checks on
combinations a rule trips are those whose power it grants in the reading of Kubernetes,
where a rule is the product of its lists (`PowersExact`). And each sensitive resource
that a rule reaches, with any verb, is reported, while a custom resource of the same
name is not (`AccessExact`): the table of resources by rule ID and the tables by API
group, which the code keeps apart, are in step (`TablesInStep`).

**`ListingsProofs`**: `ListedOnce` (a finite set, listed, has every member at one
place and nothing else), `SublistInOrder` (a sublist has the elements at the places
kept, one by one, in the order of the list) and from it `SublistKeeps` (it has what was
kept, and nothing else), with lemmas on `FlattenSeq` and on the place of a pod specification. These operators are recursive
functions inside folds. The theorems show first that a function with the recursive
equation exists and then that the equation gives the result; both are inductions.
They go by a least counterexample, taken from the well-foundedness of strict
inclusion on finite sets (`LeastSet`, `LeastNumber`), because induction theorems
that take an operator cannot be applied.

**`ChainWalkProofs`**, for any pods, workloads and bindings and any order of the
maps: `ChainInvariant`, `ChainTypeCorrect`, `ChainsAllReported`,
`DescriptionsAreTrue`, `UsersAreNamed`. The hypothesis of each is `LoadedInputs`
(`ChainContract`): pods and workloads are unique by kind, name and namespace, and
bindings come in sequences, which is what the loader's maps and slices give; TLC
evaluates it on the inputs of `chain_runs`.

What is reported is complete only at the end. `IInv` records what lies behind the
indices: `Collected`, that no pod or workload is left out of `refs`; `AdminsReported`
and `UsesReported`, that each binding the walk has passed has reported the refs it
reaches; `StandaloneReported`, the same of the last pass; and, the other way
round, that every finding is one whose description is true (`TrueOf`) and that no
fingerprint is there twice. `UsersFirst` says that before the last pass every
KC-014 names a user: the order of the two passes is what makes `UsersNamed` hold,
and the proof breaks where they are swapped.

**`ChainRunsProofs`**: `RunsInvariant`, both runs keep that invariant;
`VerdictsAgree`: the verdicts of a run that has returned are a set determined by the
resources alone, so two runs agree on them for every input; and `FindingsAgree`: they
agree on everything, descriptions included, unless two users share a binding. The
second needs to know more of a run than `IInv` says, namely that a finding names the
*first* binding that yields it; `FirstsNamed` is that strengthening.

**`AnalysisProofs`**, from `LoadedInputs` (`AnalysisContract`), the uniqueness that the
loader's maps give: `AnalysisInvariant`, `SeveritiesFollow`, `RolesAllReported`. At any
time the findings on roles are exactly those of the roles visited so far, each at one
place of the list (`HoldsOnce`); a visit adds to them, and the detectors and the walk
over the chains append findings on other objects only. When `Analyze` has returned
every role was visited, which gives `EveryRoleReported`; that a scope is computed
from the bindings that name the role by kind, name and namespace gives
`SeverityFollowsBindings`.

From the same and from `DocumentsAssumption`, the module proves about the detectors
`OthersInvariant`, `AnalysisTypes`, `PodsReported`, `SCCsReported`, `SecretsReported`,
`ExposureReported`, `PoliciesReported`. The invariant
`OInv` is the counterpart of `IInv` for findings on other objects: none before the
detectors run, afterwards those of every object and no others, and from the walk over
the chains only those about privilege chains. What remains is that a detector, on one
document, agrees with the definition over what the document means to the cluster
(`PodsAgree`, `SCCsAgree`, `SecretsAgree`, `ServicesAgree`, `IngressesAgree`, `RoutesAgree`,
`PoliciesAgree`); `KindIsJudged` carries that over from the document to what `Analyze`
returns.

For hosts and policies the code looks at how something is written and the definition
at what it admits, so one direction needs a witness for what is left out:

- A host name that no manifest writes: an Ingress with a wildcard serves one whose
  label under the wildcard is `Unnamed`, and a TLS entry that covers that one covers
  every name under the wildcard (`StandsFor`, `Covering`). So the code, which compares
  the hosts as they are written, finds no host uncovered that is covered, and misses
  one only if a wildcard of the list is too short for it (`Stretched`). It has to be a
  label nobody writes: were all labels named in the TLS list,
  a wildcard would be covered without an entry that covers it.
- The labels that a selector turns away: none at all if it asks for a label, one with
  the value that a `NotIn` excludes, and so on for each operator (`ExpressionLeavesOut`).
  So a selector that selects all labels is one without labels and expressions, which is
  what the code looks for (`SelectorsAgree`).
- An address that a block leaves out: one with another bit where the block has its
  first, or one of an `except` (`BlocksAgree`). So a block with all addresses of a family
  is one of no bits without exceptions. From these follow the agreement on peers,
  lists of peers, directions and policies (`PeersAgree` to `PoliciesAgree`), but for a
  null `namespaceSelector`, which hides the `podSelector` beside it from the code.

`ValuesAssumption` says that the constants are not empty: there is a label value, an
address has a bit, a name has a label, and `Unnamed` is one. `DocumentsAssumption` is about shape: volumes
and mounts have names, host paths are absolute, the two flags of an SCC on escalation
are Booleans or missing, a group of service accounts has at most three segments, a
Secret has no field "metadata.annotations" beside its metadata, selectors have labels
and expressions with one of the four operators (a `NotIn` with a value some label may
have), a cidr is no longer than its addresses and its exceptions are of its family,
a host is a name or a "*" before one, a Service has one of the four types, the
termination of a Route is not empty. The API server rejects or drops anything else. `PodsJudged`
leaves out paths that are not plain (see above), and so does its theorem.

**`LoaderProofs`**, for every file tree: `LoaderInvariant`, `LoaderTypes`,
`LoadKeepsContract`, `LossesNamed`. `TreesAssumption` (`LoaderContract`) says what a
tree is: a walk visits a directory before what is in it, a document is junk, an object
or a list, lists nest no deeper than `MaxNesting`, a number without a bound of its own,
and sizes and limits are natural numbers. `LoadContract` speaks of the end of the
call only. On the way, `LoaderInv` says where each of the nested loops is:

- `CallInv`: the paths that are left are a suffix of the arguments, none of those
  behind it is missing; a file that is in hand is one of the shape of a file, and the
  walk is over when the call goes on to the next path.
- `WalkInv`: the entries that are left are the end of some walk, and every excluded
  directory the walk has passed was pruned or lies below one that was. So an entry is
  skipped exactly when the contract does not count it, although the code decides by
  the directory it met and the contract by the segments of the path.
- `SightInv`: the files handled, and those of the entries and arguments still ahead,
  are together `Found`, in order; and every file handled that a walk found and the
  limits refused is named in a warning.
- `StoreInv`: the objects declared by the documents read so far, and those that the
  documents in hand still declare, are together `AllStored`; of the former, `objects`
  has the last under each key, `bindings` the bindings, and what is in neither is
  named in a warning.

The code takes nested lists apart one by one, in the middle of a document. The
contract does it for all documents at once, one level of lists at a time, as a
function of the level. Both give the same sequence because the leaves of two lists,
one after the other, are the leaves of the one and of the other (`LeavesLists`), and a
list has the leaves of its items (`LeavesOfOne`): when `UnwrapList` puts the items in the
place of a list, the leaves of what is left do not change.

**`ClusterFetchProofs`**, for every cluster and however it changes, from
`ClustersAssumption` (a cluster is a finite set of objects that differ in kind,
namespace or name): `FetchFailsForMandatoryOnly`, `FetchTypes`,
`FetchMissesNothingSilently`, `FetchInventsNothing`. `IInv` says that only the start or
a mandatory step can have failed, and that there is no outcome before the call is
over; `FetchInv` adds what each dump holds, against the history of the cluster (`ever`,
`always`): the objects that existed when it was written, or a part of them after a
failed write. `LoaderInv` follows the manifest loader through those dumps: an object
that existed all the time is in a dump still to be read, among the documents in hand,
in the result, or in a dump that was refused with a warning (`WhereaboutsInv`), and
what is in the result was found in the cluster (`LoadedInv`). Keys of different dumps
differ in kind, so no dump overwrites what another one brought.

**`ScanRunProofs`**, from `RunContract`'s `InputsAssumption` on what an analysis
yields: `RunTypeCorrect`, `ExitIsVerdict`, `VerdictsAreShown`, `ImplementsGate`. `IInv` has
two parts. `RunInv` says what the steps behind `pc` have ruled out (`Checked`) and that
between the suppressions and the threshold exactly the accepted findings are marked
(`Marked`); so the test of the threshold is the verdict. `Reports` says that whatever was
printed or written is a rendering of those findings, in the format that was asked for,
and that a run which has come to the threshold has left the file complete.

What remains is about the renderers alone: each shows every finding of a list, as
often as it is there, with its mark (`RenderShows`). JSON and SARIF have a place per
finding. The console has groups, and in a group lines of which only the number of
copies is known. Findings say the same exactly if they have one severity and one line
(`AlikeIsSame`), so a fact has as many places there as findings, and the bags agree
(`ConsoleShows`). The totals count over many facts: from equal bags `TalliesPair` joins
the bijections between the places of each fact, which gives as many places for any
set of facts. That the SARIF rules name each rule once (`RulesOnce`) rests on
`SublistInOrder`.

`ImplementsGate` is `Spec => GateSteps`, under the refinement mapping of `RunContract`: the
initial states are those of the gate (`GateBegins`), and a step is one of the gate or
nothing to it (`GateKeeps`). The steps that fail before the file is touched are `GiveUp`
(`GivesUp`), `WriteReport` is the gate's `WriteReport` or `WriteFails`, and the step at
the threshold is `GiveVerdict`; all others stutter.

Only model-checked: the liveness properties `ScanReturns`, `RunsReturn`, `Returns`,
`DumpsRemoved` and `GateEnds`.
They hold under weak fairness, and the installed provers neither compute where an
action is enabled nor apply an induction over the steps that are left. The proofs
above cover what a step may do; the runs show that one is taken until the call has
returned.

## Not modelled

- `internal/version`, a build constant.
- YAML and JSON parsing and encoding, wording and layout of descriptions,
  remediation texts and reports, colours.
- Command line parsing itself (cobra): `ScanRun` starts from the flags.
- Template expressions outside names: a placeholder elsewhere is a string like any
  other.
- From files to exit code in one model: `ScanRun` takes the findings of an analysis as
  given. Each of the three stages is checked against inputs of the shape the one
  before it yields, and no step of one is visible to another, so a product would
  add states and no behaviours.

## Plan

Every component but the version is modelled, and every safety property that a passing
run checks is proved. What could be added, most useful first:

1. Proofs of the liveness properties, with a measure that every step lowers, once the
   provers can reason about where an action is enabled.
2. `InputsAssumption` of `RunContract` and `LoadedInputs` as consequences of `LoaderProofs`
   and `AnalysisProofs`, so that the three stages rest on each other by theorems.
3. Larger runs: more bindings in `chain_runs`, more changes in `cluster_fetch`. The
   theorems make them less pressing.
