------------------------------ MODULE MCLoader ------------------------------
(***************************************************************************)
(* ManifestLoader on up to two arguments: missing paths, links, files, and *)
(* directories with up to MaxSegments entries or excluded subtrees.  The   *)
(* files declare objects whose keys collide within a file, across files,   *)
(* through the default namespace, and through templates.                   *)
(***************************************************************************)
EXTENDS LoaderContract

CONSTANT MaxSegments

Plain(n)     == [expr |-> "", rest |-> n]
Templated(e) == [expr |-> e, rest |-> ""]

Junk == [type |-> "junk", split |-> TRUE]
ListOf(items) == [type |-> "list", split |-> TRUE, items |-> items]
Object(kind, version, name, ns, doc) ==
  [type |-> "object", split |-> TRUE, kind |-> kind, apiVersion |-> version, name |-> name,
   namespace |-> ns, metadata |-> TRUE, doc |-> doc]

\* Behind a separator line that the loader does not recognise.
Unsplit(doc) == [doc EXCEPT !.split = FALSE]

RBAC == "rbac.authorization.k8s.io/v1"

\* Documents that differ, some of them with entries of the wrong type.
Rules(tag) == Map([rules |-> List(<<Map([tag |-> Str(tag)]), Str("no mapping")>>)])
BoundTo(role) ==
  Map([roleRef  |-> Map([kind |-> Str("ClusterRole"), name |-> Str(role)]),
       subjects |-> List(<<Str("no mapping"), Map([kind |-> Str("ServiceAccount")])>>)])
SpecOf(account)  == Map([serviceAccountName |-> Str(account)])
Deprecated(account) == Map([serviceAccount |-> Str(account), serviceAccountName |-> Str("")])
Spec1(spec)       == Map([spec |-> spec])
Template(podSpec) == Map([template |-> Spec1(podSpec)])

Role(name, ns, tag)        == Object("Role", RBAC, Plain(name), ns, Rules(tag))
ClusterRole(name, ns, tag) == Object("ClusterRole", RBAC, name, ns, Rules(tag))
RoleBinding(name, ns, doc) == Object("RoleBinding", RBAC, Plain(name), ns, doc)

File(name, ds) ==
  [name |-> name, yaml |-> TRUE, readable |-> TRUE, size |-> 1, docs |-> ds, more |-> << >>]

Twice   == File("twice", <<ClusterRole(Plain("a"), "", "1"), Junk,
                           ClusterRole(Plain("a"), "", "2")>>)
Default == File("default",
             <<ListOf(<<Role("x", "", "3"), Junk,
                        ListOf(<<RoleBinding("x", "n", BoundTo("a"))>>)>>)>>)
Explicit == File("explicit",
             <<Role("x", "default", "5"),
               ClusterRole(Plain("a"), "n", "6"),
               RoleBinding("x", "n", Map([subjects |-> Str("no list")]))>>)
Charts  == File("charts", <<ClusterRole(Templated(".name"), "", "8"),
                            ClusterRole(Templated(".other"), "", "9")>>)
Others  == File("others",
             <<Object("Deployment", "apps/v1beta1", Plain("p"), "n", Spec1(Template(SpecOf("s")))),
               [Role("y", "n", "11") EXCEPT !.metadata = FALSE],
               [ClusterRole(Plain("b"), "", "12") EXCEPT !.apiVersion = "v1"],
               Object("ConfigMap", "v1", Plain("c"), "n", Map(<< >>))>>)

\* Objects of one name and different kinds, whose pod specs are nested differently.
Work == File("work",
             <<Object("Pod", "v1", Plain("w"), "n", Spec1(Deprecated("old"))),
               Object("Job", "batch/v1", Plain("w"), "n", Spec1(Template(SpecOf("s")))),
               Object("CronJob", "batch/v1", Plain("w"), "",
                      Spec1(Map([jobTemplate |-> Spec1(Template(SpecOf("nightly"))),
                                 template    |-> Spec1(SpecOf("misplaced"))]))),
               Object("Deployment", "apps/v1", Plain("w"), "n", Spec1(Str("no mapping")))>>)

Large   == [Twice EXCEPT !.name = "large", !.size = MaxFileSize + 1]
Many    == [Explicit EXCEPT !.name = "many", !.docs = @ \o <<Junk, Junk>>]
Locked  == [Default EXCEPT !.name = "locked", !.readable = FALSE]
Text    == [Twice EXCEPT !.name = "text", !.yaml = FALSE]

\* Files that may grow while they are open, one of them past a limit.
Growing  == [Twice EXCEPT !.name = "growing", !.more = <<ClusterRole(Plain("a"), "", "20")>>]
Swelling == [Work EXCEPT !.name = "swelling", !.more = <<Junk>>]

\* A file from another system: its lines end with a carriage return.
Foreign == [Twice EXCEPT !.name = "foreign",
            !.docs = <<Role("f", "n", "30"), Unsplit(Role("g", "n", "31"))>>]

AllTheFiles ==
  {Twice, Default, Explicit, Charts, Others, Work, Large, Many, Locked, Text, Growing,
   Swelling, Foreign}

InFiles == UNION {ToSet(f.docs) \cup ToSet(f.more) : f \in AllTheFiles}

Inside(ds) == UNION {ToSet(d.items) : d \in {x \in ds : x.type = "list"}}

\* Lists in the files hold lists, and those hold none.
MCDocuments == InFiles \cup Inside(InFiles) \cup Inside(Inside(InFiles))

Dir(name, path)  == [type |-> "dir", name |-> name, path |-> path]
In(path, f)      == [type |-> "file", name |-> f.name, path |-> path \o <<f.name>>, file |-> f]
Other(type)      == [type |-> type, name |-> type, path |-> <<type>>]

\* Consecutive entries of a walk: a file, a link, a directory that cannot be
\* read, or a directory with its files.
Segments ==
  {<<In(<< >>, f)>> : f \in AllTheFiles}
  \cup {<<Other("symlink")>>, <<Other("denied")>>}
  \cup {<<Dir(d, <<d>>), In(<<d>>, Explicit), Dir("sub", <<d, "sub">>), In(<<d, "sub">>, Twice)>> :
          d \in {"vendor", "rbac"}}

Directory(name, segs) ==
  [type |-> "dir", entries |-> <<Dir(name, << >>)>> \o FlattenSeq(segs)]

Directories ==
  {Directory("base", s) : s \in UNION {[1 .. n -> Segments] : n \in 0 .. MaxSegments}}
  \cup {Directory("vendor", <<s>>) : s \in Segments}

FileArgs == {[type |-> "file", file |-> f] : f \in AllTheFiles}

FewArgs == {[type |-> "missing"], [type |-> "symlink"]} \cup FileArgs

MCInputs ==
  {<< >>} \cup {<<a>> : a \in FewArgs \cup Directories}
    \cup {<<a, d>> : a \in FewArgs, d \in Directories}
    \cup {<<d, a>> : a \in FewArgs, d \in {Directory("base", <<s>>) : s \in Segments}}

MCExcluded == {".git", "vendor", "node_modules", "bin"}

=============================================================================
