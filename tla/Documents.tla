----------------------------- MODULE Documents -----------------------------
(***************************************************************************)
(* Values of a parsed manifest, and the conversions the code reads them    *)
(* with.  A field holds anything: a value of the wrong type is treated as  *)
(* if it were missing, except where the code asks for the key itself.      *)
(***************************************************************************)
EXTENDS Integers, Sequences

Null        == [type |-> "null"]
Str(s)      == [type |-> "string", string |-> s]
Bool(b)     == [type |-> "bool", bool |-> b]
List(items) == [type |-> "list", items |-> items]
Map(fields) == [type |-> "map", fields |-> fields]

IsMap(v)  == v.type = "map"
IsList(v) == v.type = "list"

\* The items of a list or of what is read as one, and the entries of a map.
Items(v)  == IF IsList(v) THEN v.items ELSE << >>
Fields(v) == IF IsMap(v) THEN v.fields ELSE << >>

\* asStringMap lets a missing map be read like an empty one.
Has(v, field) == field \in DOMAIN Fields(v)
At(v, field)  == IF Has(v, field) THEN v.fields[field] ELSE Null

ItemSet(v) == {Items(v)[n] : n \in DOMAIN Items(v)}

\* Entries of a list that are mappings; the others are passed over.
MapItems(v) == {x \in ItemSet(v) : IsMap(x)}

\* toStringSlice as a set: the entries of a list that are strings.
StringItems(v) == {x.string : x \in {y \in ItemSet(v) : y.type = "string"}}

\* The strings of a list of values, "" for a field that holds none.
StringOr(v, default) == IF v.type = "string" THEN v.string ELSE default

IsTrue(v) == v = Bool(TRUE)

\* What a detector says of a document: one rule, if the condition holds.
TripIf(condition, rule, severity) ==
  IF condition THEN {[rule |-> rule, severity |-> severity]} ELSE {}

\* Where Kubernetes has the pod specification of an object.
PodSpecPath(kind) ==
  CASE kind = "Pod"     -> <<"spec">>
    [] kind = "CronJob" -> <<"spec", "jobTemplate", "spec", "template", "spec">>
    [] OTHER            -> <<"spec", "template", "spec">>

\* The account is read from it, and it is the one that is judged.
PodSpec(doc, kind) ==
  LET path == PodSpecPath(kind)
      below[n \in 0 .. Len(path)] == IF n = 0 THEN doc ELSE At(below[n - 1], path[n])
  IN  below[Len(path)]

=============================================================================
