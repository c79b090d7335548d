--------------------------- MODULE LoaderContract ---------------------------
(***************************************************************************)
(* What LoadManifests promises, as a function of the file tree: which      *)
(* files count, which objects they declare, and what becomes of each.      *)
(***************************************************************************)
EXTENDS ManifestLoader

CONSTANTS
  Documents,      \* what a file may hold, the items of lists included
  MaxNesting      \* how deep a list may hold lists

Returned == pc \in {"loaded", "error"}

TypeOK ==
  /\ IsSuffix(paths, args)
  /\ pc \in PC
  /\ back \in {"paths", "walk"}
  /\ pc \in {"file", "read", "docs"} => file # NoFile
  /\ back = "paths" /\ pc \in {"file", "read", "docs"} => entries = << >>
  /\ \A o \in objects : o.key[1] \notin BindingKinds
  /\ \A n \in DOMAIN bindings : bindings[n].key[1] \in BindingKinds

-----------------------------------------------------------------------------
(* The tree read as a set of declarations.                                 *)

\* A file counts unless a directory above it, the root aside, is excluded.
Counts(e) ==
  /\ e.type = "file" /\ e.file.yaml
  /\ \A n \in 1 .. Len(e.path) - 1 : e.path[n] \notin Excluded

FoundAmong(es) ==
  FlattenSeq([n \in DOMAIN es |->
    IF Counts(es[n]) THEN <<[file |-> es[n].file, by |-> "dir"]>> ELSE << >>])

FoundIn(arg) ==
  CASE arg.type = "file" -> <<[file |-> arg.file, by |-> "file"]>>
    [] arg.type = "dir"  -> FoundAmong(arg.entries)
    [] OTHER -> << >>

\* The files of the tree, and whether they were found by name or by walking a
\* directory.
FoundUnder(as) == FlattenSeq([n \in DOMAIN as |-> FoundIn(as[n])])

Found == FoundUnder(args)

\* The documents of a list with one level of lists taken apart, and with every level.
Unwrapped(ds) ==
  FlattenSeq([n \in DOMAIN ds |-> IF ds[n].type = "list" THEN ds[n].items ELSE <<ds[n]>>])

Levels(ds) ==
  LET level[k \in 0 .. MaxNesting] == IF k = 0 THEN ds ELSE Unwrapped(level[k - 1])
  IN  level

Leaves(ds) == Levels(ds)[MaxNesting]

\* A document that declares an object, in however many lists it is.
Declares(leaf) == leaf.type = "object" /\ IsKept(leaf)

\* A file is loaded if it could be read, its size was within the limit before it
\* was read, and so is the number of its documents when it was.
IsTaken(f) ==
  /\ f.readable
  /\ f.size <= MaxFileSize
  /\ Len(splitYAMLDocs(f.docs)) <= MaxDocsPerFile

\* The account the pods of an object run under.
Account(obj) ==
  LET podSpec    == PodSpec(obj.doc, obj.kind)
      name       == At(podSpec, "serviceAccountName")
      deprecated == At(podSpec, "serviceAccount")
      Names(v)   == v.type = "string" /\ v.string # ""
  IN  IF Names(name) THEN name.string
      ELSE IF Names(deprecated) THEN deprecated.string ELSE "default"

\* What is stored of an object, its account by the definition above.
StoredAs(obj, origin) ==
  LET stored == Stored(obj, origin)
  IN  IF obj.kind \in workloadKinds \cup {"Pod"}
      THEN [stored EXCEPT !.extracted = [account |-> Account(obj)]] ELSE stored

StoredFrom(ds, f) ==
  LET leaves == Leaves(ds)
  IN  FlattenSeq([n \in DOMAIN leaves |->
        IF Declares(leaves[n]) THEN <<StoredAs(leaves[n], f)>> ELSE << >>])

StoredOf(f) == IF IsTaken(f) THEN StoredFrom(splitYAMLDocs(f.docs), f) ELSE << >>

AllStored == FlattenSeq([n \in DOMAIN opened |-> StoredOf(opened[n])])

IsBinding(o) == o.key[1] \in BindingKinds

BindingsAmong(all) ==
  FlattenSeq([n \in DOMAIN all |-> IF IsBinding(all[n]) THEN <<all[n]>> ELSE << >>])

\* Of the other objects, the last one under each key.
LastAmong(all) ==
  {all[n] : n \in {m \in DOMAIN all :
    ~IsBinding(all[m]) /\ \A k \in m + 1 .. Len(all) : all[k].key # all[m].key}}

\* A file when it was read is the file that was found, or what that had grown into.
IsReadOf(f, found) ==
  /\ f.name = found.name /\ f.readable = found.readable /\ f.size = found.size
  /\ f.docs \in {found.docs, found.docs \o found.more}

-----------------------------------------------------------------------------

\* A call that succeeds has read the files of the tree in visiting order, each
\* as it was or as it had grown meanwhile, and returns, of every object they
\* declare under one key, the last in that order, with the account its pods run
\* under, and every binding; a file that is refused contributes nothing, and a
\* call with a missing path does not succeed whatever was loaded before
\* (loader.go:66-104, 157-211, 221-425).
LoadContract ==
  /\ pc = "loaded" =>
       /\ Len(opened) = Len(Found)
       /\ \A n \in DOMAIN opened : IsReadOf(opened[n], Found[n].file)
       /\ objects = LastAmong(AllStored)
       /\ bindings = BindingsAmong(AllStored)
  /\ pc = "error" <=> (Returned /\ \E n \in DOMAIN args : args[n].type = "missing")

\* Nothing found by walking a directory is lost in silence: a file that is
\* refused is named on stderr, and an object that was read and is not returned,
\* because a later one has its key or only had another template expression
\* in its name, is named there too (loader.go:145-147, 251-253).
LossesReported ==
  pc = "loaded" =>
    /\ \A n \in DOMAIN opened :
         Found[n].by = "dir" /\ ~IsTaken(opened[n]) =>
           [about |-> <<"skipping">>, file |-> opened[n].name] \in warnings
    /\ \A o \in ToSet(AllStored) :
         ~IsBinding(o) /\ o \notin objects => \E w \in warnings : w.about = o.key

\* "Files exceeding these limits are logged to stderr and skipped"
\* (site/docs/reference/cli.md): whichever way they were named.
RefusalsReported ==
  pc = "loaded" =>
    \A f \in {found.file : found \in ToSet(Found)} :
      f.size > MaxFileSize \/ Len(splitYAMLDocs(f.docs)) > MaxDocsPerFile =>
        [about |-> <<"skipping">>, file |-> f.name] \in warnings

\* "splitYAMLDocs splits a multi-document YAML string on "---" separators"
\* (pkg/loader/loader.go:213): of a file that is loaded, every document counts,
\* whichever way the lines of the file end.
EveryDocumentRead ==
  pc = "loaded" =>
    \A n \in DOMAIN opened : IsTaken(opened[n]) =>
      \A d \in ToSet(Leaves(opened[n].docs)) : Declares(d) =>
        \/ \E o \in objects : o.key = Key(d)
        \/ \E m \in DOMAIN bindings : bindings[m].key = Key(d)

\* Every call of LoadManifests returns (loader.go:81-101).
Returns == <>Returned

-----------------------------------------------------------------------------

\* A file and its documents.
IsFile(f) ==
  /\ f = [name |-> f.name, yaml |-> f.yaml, readable |-> f.readable, size |-> f.size,
          docs |-> f.docs, more |-> f.more]
  /\ f.size \in Nat /\ f.docs \in Seq(Documents) /\ f.more \in Seq(Documents)

\* WalkDir visits a directory before what is in it.
IsWalk(es) ==
  /\ es \in Seq(ToSet(es))
  /\ \A n \in DOMAIN es :
       LET path == es[n].path
       IN  /\ path \in Seq(ToSet(path))
           /\ es[n].type = "file" => IsFile(es[n].file)
           /\ es[n].type = "dir" /\ path # << >> => es[n].name = path[Len(path)]
           /\ \A k \in 1 .. Len(path) - 1 : \E m \in 1 .. n - 1 :
                es[m].type = "dir" /\ es[m].path = SubSeq(path, 1, k)

IsArgument(arg) ==
  /\ arg.type \in {"missing", "symlink", "file", "dir"}
  /\ arg.type = "file" => IsFile(arg.file)
  /\ arg.type = "dir" => IsWalk(arg.entries)

\* The inputs are file trees, and a document is a tree as well: lists do not nest
\* without end.
ASSUME TreesAssumption ==
  /\ MaxFileSize \in Nat /\ MaxDocsPerFile \in Nat /\ MaxNesting \in Nat
  /\ \A d \in Documents :
       /\ d.type \in {"junk", "list", "object"}
       /\ d.type = "list" => d.items \in Seq(Documents)
       /\ \A leaf \in ToSet(Leaves(<<d>>)) : leaf.type # "list"
  /\ \A arguments \in Inputs :
       /\ arguments \in Seq(ToSet(arguments))
       /\ \A arg \in ToSet(arguments) : IsArgument(arg)

=============================================================================
