--------------------------- MODULE ManifestLoader ---------------------------
(***************************************************************************)
(* LoadManifests of pkg/loader/loader.go: from the paths of the command    *)
(* line to the loaded resources.                                           *)
(*                                                                         *)
(* A path names nothing, a symbolic link, a file or a directory.  A        *)
(* directory is the sequence of entries filepath.WalkDir visits, itself    *)
(* first; the entries below a directory follow it.  A file is the sequence *)
(* of its documents, and what another process may append while it is open. *)
(* A document is junk (what the YAML parser rejects, or no mapping), a     *)
(* list of documents, or an object; it follows a separator line that the   *)
(* loader recognises, or one that only the YAML parser does.               *)
(***************************************************************************)
EXTENDS SequencesExt, Integers, Extraction, Listings

CONSTANTS
  Inputs,         \* the sequences of paths a call may be given
  Excluded,       \* buildExcludes: the directory names that are not walked
  MaxFileSize,
  MaxDocsPerFile

VARIABLES
  args,         \* the paths of the call
  paths,        \* those still to be loaded
  entries,      \* rest of the directory being walked
  pruned,       \* directories that WalkDir was told to skip
  back,         \* who called processFile: the loop over paths, or the walk
  file,         \* the file being processed, or NoFile
  docs,         \* rest of its documents
  pc,
  objects,      \* the maps of LoadedResources, by kind, namespace and name
  bindings,     \* the slices of LoadedResources, in load order
  warnings,     \* what went to stderr
  opened        \* history: the files processed, as they were when read

vars == <<args, paths, entries, pruned, back, file, docs, pc,
          objects, bindings, warnings, opened>>

PC == {"paths", "walk", "file", "read", "docs", "loaded", "error"}

NoFile == [name |-> ""]

-----------------------------------------------------------------------------
(* Categorizing an object.                                                 *)

workloadKinds ==
  {"Deployment", "DaemonSet", "StatefulSet", "Job", "CronJob", "ReplicaSet",
   "ReplicationController", "DeploymentConfig"}

BindingKinds == {"ClusterRoleBinding", "RoleBinding"}

\* The kinds with a case that stores their objects in a map or a slice.
ClusterKinds == {"ClusterRole", "ClusterRoleBinding", "SecurityContextConstraints"}

\* namespacedKind
NamespacedKinds ==
  {"Role", "RoleBinding", "ServiceAccount", "Service", "Ingress", "Route", "Secret",
   "Pod", "NetworkPolicy"} \cup workloadKinds

\* The apiVersion each kind is taken from.  That of the RBAC kinds and of
\* ServiceAccounts is not looked at.
APIVersions(kind) ==
  CASE kind \in {"Service", "Secret", "Pod", "ReplicationController"} -> {"v1"}
    [] kind \in {"Ingress", "NetworkPolicy"} -> {"networking.k8s.io/v1"}
    [] kind = "Route" -> {"route.openshift.io/v1"}
    [] kind = "SecurityContextConstraints" -> {"security.openshift.io/v1"}
    [] kind \in {"Deployment", "DaemonSet", "StatefulSet", "ReplicaSet"} -> {"apps/v1"}
    [] kind \in {"Job", "CronJob"} -> {"batch/v1"}
    [] kind = "DeploymentConfig" -> {"apps.openshift.io/v1"}
    [] OTHER -> STRING

\* The text substitution that makes templates parseable: whatever the expression
\* between the braces says, the same placeholder takes its place.
Preprocessed(name) ==
  [name EXCEPT !.expr = IF @ = "" THEN "" ELSE "placeholder-value"]

\* The namespace an object is filed under.
Namespace(obj) ==
  IF obj.kind \in ClusterKinds THEN ""
  ELSE IF obj.namespace = "" THEN "default" ELSE obj.namespace

\* The kind is in the key of a workload, and decides on the map of the others.
Key(obj) == <<obj.kind, Namespace(obj), Preprocessed(obj.name)>>

\* The objects that reach a map or a slice.
IsKept(obj) ==
  /\ obj.metadata
  /\ obj.kind \in ClusterKinds \cup NamespacedKinds
  /\ obj.apiVersion \in APIVersions(obj.kind)

\* What is read out of the document when it is stored.
Extracted(obj) ==
  CASE obj.kind \in {"ClusterRole", "Role"} -> [rules |-> extractRules(obj.doc)]
    [] obj.kind \in BindingKinds -> extractBinding(obj.doc)
    [] obj.kind = "Pod" -> [account |-> extractServiceAccountName(obj.doc)]
    [] obj.kind \in workloadKinds ->
         [account |-> extractWorkloadServiceAccountName(obj.doc, obj.kind)]
    [] OTHER -> << >>

Stored(obj, origin) ==
  [key |-> Key(obj), file |-> origin.name, doc |-> obj.doc, extracted |-> Extracted(obj)]

\* The file is split at the separator lines that yamlDocSepRe matches: not at
\* one that ends with a carriage return, for instance.  Of the documents that
\* stay together the parser returns the first.
splitYAMLDocs(ds) == Sublist(ds, {n \in DOMAIN ds : n = 1 \/ ds[n].split})

-----------------------------------------------------------------------------

Init ==
  /\ args \in Inputs
  /\ paths = args
  /\ entries = << >>
  /\ pruned = {}
  /\ back = "paths"
  /\ file = NoFile
  /\ docs = << >>
  /\ pc = "paths"
  /\ objects = {}
  /\ bindings = << >>
  /\ warnings = {}
  /\ opened = << >>

result == <<objects, bindings>>
log    == <<warnings, opened>>

(* The loop over the arguments.                                            *)

AtPath(type) == pc = "paths" /\ paths # << >> /\ Head(paths).type = type

\* Lstat fails: the call returns the error and no resources at all.
PathMissing ==
  /\ AtPath("missing")
  /\ pc' = "error"
  /\ UNCHANGED <<args, paths, entries, pruned, back, file, docs, result, log>>

PathIsLink ==
  /\ AtPath("symlink")
  /\ paths' = Tail(paths)
  /\ UNCHANGED <<args, entries, pruned, back, file, docs, pc, result, log>>

PathIsDir ==
  /\ AtPath("dir")
  /\ entries' = Head(paths).entries
  /\ pruned' = {}
  /\ paths' = Tail(paths)
  /\ pc' = "walk"
  /\ UNCHANGED <<args, back, file, docs, result, log>>

\* A file named on the command line is loaded whatever its extension.
PathIsFile ==
  /\ AtPath("file")
  /\ file' = Head(paths).file
  /\ paths' = Tail(paths)
  /\ back' = "paths"
  /\ pc' = "file"
  /\ UNCHANGED <<args, entries, pruned, docs, result, log>>

EndPaths ==
  /\ pc = "paths"
  /\ paths = << >>
  /\ pc' = "loaded"
  /\ UNCHANGED <<args, paths, entries, pruned, back, file, docs, result, log>>

(* The walk of a directory.                                                *)

entry == Head(entries)

\* Below a directory the walk was told to skip: WalkDir does not visit it.
IsPruned(e) == \E dir \in pruned : IsStrictPrefix(dir, e.path)

\* Mutant: the root of the walk excluded too.
ToPrune_Root(e) == e.type = "dir" /\ e.name \in Excluded

\* An excluded directory is skipped, but not when it is the root of the walk.
ToPrune(e) == e.type = "dir" /\ e.name \in Excluded /\ e.path # << >>

ToProcess(e) == e.type = "file" /\ e.file.yaml

PruneDir ==
  /\ pc = "walk" /\ entries # << >>
  /\ ~IsPruned(entry) /\ ToPrune(entry)
  /\ pruned' = pruned \cup {entry.path}
  /\ entries' = Tail(entries)
  /\ UNCHANGED <<args, paths, back, file, docs, pc, result, log>>

\* Mutant: the walk ends with the first file.
TakeFile_EndsWalk ==
  /\ pc = "walk" /\ entries # << >>
  /\ ~IsPruned(entry) /\ ToProcess(entry)
  /\ file' = entry.file
  /\ entries' = Tail(entries)
  /\ back' = "paths"
  /\ pc' = "file"
  /\ UNCHANGED <<args, paths, pruned, docs, result, log>>

TakeFile ==
  /\ pc = "walk" /\ entries # << >>
  /\ ~IsPruned(entry) /\ ToProcess(entry)
  /\ file' = entry.file
  /\ entries' = Tail(entries)
  /\ back' = "walk"
  /\ pc' = "file"
  /\ UNCHANGED <<args, paths, pruned, docs, result, log>>

\* Symbolic links, entries that cannot be accessed, directories to descend into
\* and files that are not manifests; and what is pruned.
PassEntry ==
  /\ pc = "walk" /\ entries # << >>
  /\ IsPruned(entry) \/ ~(ToPrune(entry) \/ ToProcess(entry))
  /\ entries' = Tail(entries)
  /\ UNCHANGED <<args, paths, pruned, back, file, docs, pc, result, log>>

EndWalk ==
  /\ pc = "walk"
  /\ entries = << >>
  /\ pc' = "paths"
  /\ UNCHANGED <<args, paths, entries, pruned, back, file, docs, result, log>>

(* processFile.                                                            *)

\* The open file as it is when fstat has looked at it.
StatFails == ~file.readable \/ file.size > MaxFileSize

TooManyDocs == Len(splitYAMLDocs(file.docs)) > MaxDocsPerFile

StatFile ==
  /\ pc = "file"
  /\ ~StatFails
  /\ pc' = "read"
  /\ UNCHANGED <<args, paths, entries, pruned, back, file, docs, result, log>>

\* Another process appends to the file between fstat and the read.
GrowFile ==
  /\ pc = "read"
  /\ file.more # << >>
  /\ file' = [file EXCEPT !.docs = @ \o file.more, !.more = << >>]
  /\ UNCHANGED <<args, paths, entries, pruned, back, docs, pc, result, log>>

\* Mutant: the walk drops the error as well.
RefuseFile_Silent ==
  /\ \/ pc = "file" /\ StatFails
     \/ pc = "read" /\ TooManyDocs
  /\ opened' = Append(opened, file)
  /\ pc' = back
  /\ UNCHANGED <<args, paths, entries, pruned, back, file, docs, result, warnings>>

\* The file cannot be opened or read, or exceeds a limit.  The walk reports it;
\* the loop over the arguments drops the error.
RefuseFile ==
  /\ \/ pc = "file" /\ StatFails
     \/ pc = "read" /\ TooManyDocs
  /\ opened' = Append(opened, file)
  /\ warnings' = IF back = "walk"
                 THEN warnings \cup {[about |-> <<"skipping">>, file |-> file.name]}
                 ELSE warnings
  /\ pc' = back
  /\ UNCHANGED <<args, paths, entries, pruned, back, file, docs, result>>

AcceptFile ==
  /\ pc = "read"
  /\ ~TooManyDocs
  /\ docs' = splitYAMLDocs(file.docs)
  /\ opened' = Append(opened, file)
  /\ pc' = "docs"
  /\ UNCHANGED <<args, paths, entries, pruned, back, file, result, warnings>>

document == Head(docs)

AtDoc(type) == pc = "docs" /\ docs # << >> /\ document.type = type

SkipJunk ==
  /\ AtDoc("junk")
  /\ docs' = Tail(docs)
  /\ UNCHANGED <<args, paths, entries, pruned, back, file, pc, result, log>>

\* Mutant: for each item, the call is made on the list again.
UnwrapList_Again ==
  /\ AtDoc("list")
  /\ docs' = IF document.items = << >> THEN Tail(docs) ELSE docs
  /\ UNCHANGED <<args, paths, entries, pruned, back, file, pc, result, log>>

\* categorize calls itself on the items of a list, in order.
UnwrapList ==
  /\ AtDoc("list")
  /\ docs' = document.items \o Tail(docs)
  /\ UNCHANGED <<args, paths, entries, pruned, back, file, pc, result, log>>

IgnoreObject ==
  /\ AtDoc("object")
  /\ ~IsKept(document)
  /\ docs' = Tail(docs)
  /\ UNCHANGED <<args, paths, entries, pruned, back, file, pc, result, log>>

AppendBinding ==
  /\ AtDoc("object")
  /\ IsKept(document) /\ document.kind \in BindingKinds
  /\ bindings' = Append(bindings, Stored(document, file))
  /\ docs' = Tail(docs)
  /\ UNCHANGED <<args, paths, entries, pruned, back, file, pc, objects, warnings, opened>>

\* A map holds one object per key: the last one replaces the others, and a
\* warning names the file it came from.
StoreObject ==
  /\ AtDoc("object")
  /\ IsKept(document) /\ document.kind \notin BindingKinds
  /\ LET same == {o \in objects : o.key = Key(document)}
     IN  /\ objects' = (objects \ same) \cup {Stored(document, file)}
         /\ warnings' = IF same = {} THEN warnings
                        ELSE warnings \cup {[about |-> Key(document), file |-> file.name]}
  /\ docs' = Tail(docs)
  /\ UNCHANGED <<args, paths, entries, pruned, back, file, pc, bindings, opened>>

EndDocs ==
  /\ pc = "docs"
  /\ docs = << >>
  /\ pc' = back
  /\ UNCHANGED <<args, paths, entries, pruned, back, file, docs, result, log>>

-----------------------------------------------------------------------------

\* The steps of the call.
Load ==
  \/ PathMissing \/ PathIsLink \/ PathIsDir \/ PathIsFile \/ EndPaths
  \/ PruneDir    \/ TakeFile   \/ PassEntry \/ EndWalk
  \/ StatFile    \/ RefuseFile \/ AcceptFile
  \/ SkipJunk    \/ UnwrapList \/ IgnoreObject \/ AppendBinding
  \/ StoreObject \/ EndDocs

Next == Load \/ GrowFile

\* One goroutine, over a tree and documents that are finite.  Nothing makes a
\* file grow.
Spec == Init /\ [][Next]_vars /\ WF_vars(Load)

=============================================================================
