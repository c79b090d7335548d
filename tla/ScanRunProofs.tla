---------------------------- MODULE ScanRunProofs ----------------------------
(***************************************************************************)
(* Proofs about an invocation, for every combination of flags, every list  *)
(* of findings and every list of suppression entries: first what a         *)
(* rendering shows of a list, then the run, then that it implements the    *)
(* gate.                                                                   *)
(***************************************************************************)
EXTENDS RunContract, ListingsProofs

\* The places of a value, and of the values in a set.
PlacesOf(f, x) == {p \in DOMAIN f : f[p] = x}

PlacesIn(f, X) == {p \in DOMAIN f : f[p] \in X}

\* Where the bags are equal, each value stands equally often, and so do the values of
\* any set: the places of each value are paired one to one.
LEMMA TalliesPair ==
  ASSUME NEW f, NEW g, IsFiniteSet(DOMAIN f), Tally(f) = Tally(g),
         \A x : IsFiniteSet(PlacesOf(g, x)), NEW X
  PROVE  Cardinality(PlacesIn(g, X)) = Cardinality(PlacesIn(f, X))
<1> DEFINE V    == {f[p] : p \in DOMAIN f}
           W(x) == PlacesOf(g, x)
           U(x) == PlacesOf(f, x)
<1>1. V = {g[p] : p \in DOMAIN g} /\ \A x \in V : Cardinality(U(x)) = Cardinality(W(x))
  <2>1. /\ DOMAIN Tally(f) = V /\ DOMAIN Tally(g) = {g[p] : p \in DOMAIN g}
        /\ \A x \in V : Tally(f)[x] = Cardinality(U(x))
        /\ \A x \in {g[p] : p \in DOMAIN g} : Tally(g)[x] = Cardinality(W(x))
    BY DEF Tally, PlacesOf
  <2> QED
    BY <2>1
<1>2. \A x \in V : ExistsBijection(U(x), W(x))
  <2>1. \A x : IsFiniteSet(U(x)) /\ IsFiniteSet(W(x))
    BY FS_Subset DEF PlacesOf
  <2> HIDE DEF U, W
  <2> QED
    BY <1>1, <2>1, FS_SameCardinalityBij
<1> DEFINE pair(x) == CHOOSE b : b \in Bijection(U(x), W(x))
           h       == [p \in PlacesIn(f, X) |-> pair(f[p])[p]]
<1>3. ASSUME NEW x \in V
      PROVE  /\ \A p \in U(x) : pair(x)[p] \in W(x)
             /\ \A p, q \in U(x) : pair(x)[p] = pair(x)[q] => p = q
             /\ \A q \in W(x) : \E p \in U(x) : pair(x)[p] = q
  <2>1. \E b : b \in Bijection(U(x), W(x))
    BY <1>2 DEF ExistsBijection
  <2>2. pair(x) \in Bijection(U(x), W(x))
    BY <2>1
  <2> HIDE DEF pair, U, W
  <2> QED
    BY <2>2 DEF Bijection, Injection, Surjection, IsInjective
<1> HIDE DEF pair
<1>4. \A p \in PlacesIn(f, X) : f[p] \in V /\ f[p] \in X /\ p \in U(f[p])
  BY DEF PlacesIn, PlacesOf
<1>5. h \in [PlacesIn(f, X) -> PlacesIn(g, X)]
  <2>1. ASSUME NEW p \in PlacesIn(f, X) PROVE h[p] \in PlacesIn(g, X)
    <3>1. h[p] \in W(f[p])
      BY <1>3, <1>4
    <3> QED
      BY <1>4, <3>1 DEF PlacesIn, PlacesOf
  <2> QED
    BY <2>1
<1>6. ASSUME NEW p \in PlacesIn(f, X), NEW q \in PlacesIn(f, X), h[p] = h[q] PROVE p = q
  <2>1. h[p] = pair(f[p])[p] /\ h[q] = pair(f[q])[q]
    OBVIOUS
  <2>2. h[p] \in W(f[p]) /\ h[q] \in W(f[q])
    BY <1>3, <1>4, <2>1
  <2>3. f[p] = f[q]
    BY <1>6, <2>2 DEF PlacesOf
  <2> QED
    BY <1>3, <1>4, <1>6, <2>1, <2>3
<1>7. ASSUME NEW q \in PlacesIn(g, X) PROVE \E p \in PlacesIn(f, X) : h[p] = q
  <2>1. g[q] \in V /\ q \in W(g[q]) /\ g[q] \in X
    BY <1>1 DEF PlacesIn, PlacesOf
  <2>2. PICK p \in U(g[q]) : pair(g[q])[p] = q
    BY <1>3, <2>1
  <2>3. p \in PlacesIn(f, X) /\ f[p] = g[q]
    BY <2>1, <2>2 DEF PlacesIn, PlacesOf
  <2> QED
    BY <2>2, <2>3
<1> HIDE DEF h
<1>8. ExistsBijection(PlacesIn(f, X), PlacesIn(g, X))
  BY <1>5, <1>6, <1>7 DEF ExistsBijection, Bijection, Injection, Surjection, IsInjective
<1>9. IsFiniteSet(PlacesIn(f, X))
  BY FS_Subset DEF PlacesIn
<1> QED
  BY <1>8, <1>9, FS_Bijection

-----------------------------------------------------------------------------
(* What a rendering shows of a list.                                       *)

\* What there is to show, and a list that can be rendered.
Facts(list) ==
  [n \in DOMAIN list |->
     LET f == list[n]
     IN  Fact(f.rule, f.severity, Resource(f), f.file, f.suppressed)]

Ratable(list) ==
  /\ list \in Seq({list[n] : n \in DOMAIN list})
  /\ \A n \in DOMAIN list : list[n].severity \in Severity /\ list[n].suppressed \in BOOLEAN

\* Every severity has a word of its own.
LEMMA Words ==
  /\ \A s \in Severity : SeverityOf(SeverityString(s)) = s
  /\ \A s, t \in Severity : SeverityString(s) = SeverityString(t) => s = t
  /\ severityOrder = Severity
<1>1. \A s \in Severity : s \in {0, 1, 2, 3}
  BY DEF Severity, SeverityInfo, SeverityCritical
<1>2. /\ SeverityString(0) = "INFO" /\ SeverityString(1) = "WARNING"
      /\ SeverityString(2) = "HIGH" /\ SeverityString(3) = "CRITICAL"
  BY DEF SeverityString, SeverityInfo, SeverityWarning, SeverityHigh, SeverityCritical
<1>3. \A s, t \in Severity : SeverityString(s) = SeverityString(t) => s = t
  BY <1>1, <1>2
<1>4. ASSUME NEW s \in Severity PROVE SeverityOf(SeverityString(s)) = s
  BY <1>3 DEF SeverityOf
<1>5. {0, 1, 2, 3} \subseteq Severity
  BY DEF Severity, SeverityInfo, SeverityCritical
<1>6. severityOrder = Severity
  BY <1>1, <1>5 DEF severityOrder, SeverityInfo, SeverityWarning, SeverityHigh, SeverityCritical
<1> QED
  BY <1>3, <1>4, <1>6

\* The lists of JSON and of SARIF are the facts themselves.
LEMMA ListsShow ==
  ASSUME NEW list, Ratable(list)
  PROVE  Shown(JSON(list)) = Facts(list) /\ Shown(SARIF(list)) = Facts(list)
<1>1. Shown(JSON(list)) = Facts(list)
  <2> DEFINE R(f) == [rule |-> f.rule, severity |-> SeverityString(f.severity),
                      resource |-> Resource(f), file |-> f.file,
                      suppressed |-> f.suppressed, fingerprint |-> Fingerprint(f)]
             S(r) == Fact(r.rule, SeverityOf(r.severity), r.resource, r.file, r.suppressed)
             rs   == [n \in DOMAIN list |-> R(list[n])]
  <2>1. JSON(list).format = "json" /\ JSON(list).findings = rs
    BY DEF JSON
  <2>2. Shown(JSON(list)) = [n \in DOMAIN rs |-> S(rs[n])]
    BY <2>1 DEF Shown
  <2>3. ASSUME NEW n \in DOMAIN list PROVE S(rs[n]) = Facts(list)[n]
    <3> DEFINE f == list[n]
    <3>1. f.severity \in Severity /\ rs[n] = R(f)
      BY DEF Ratable
    <3>2. SeverityOf(SeverityString(f.severity)) = f.severity
      BY <3>1, Words
    <3>3. Facts(list)[n] = Fact(f.rule, f.severity, Resource(f), f.file, f.suppressed)
      BY DEF Facts
    <3> HIDE DEF f
    <3>4. S(R(f)) = Fact(f.rule, f.severity, Resource(f), f.file, f.suppressed)
      BY <3>2
    <3> QED
      BY <3>1, <3>3, <3>4
  <2>4. DOMAIN rs = DOMAIN list /\ Facts(list) = [n \in DOMAIN list |-> Facts(list)[n]]
    BY DEF Facts
  <2> HIDE DEF rs, S, R
  <2> QED
    BY <2>2, <2>3, <2>4
<1>2. Shown(SARIF(list)) = Facts(list)
  <2> DEFINE S(r) == Fact(r.ruleId, SeverityOf(r.severity), r.resource, r.file,
                          r.suppressions # << >>)
             rs   == [n \in DOMAIN list |-> Result(list[n])]
  <2>1. SARIF(list).format = "sarif" /\ SARIF(list).results = rs
    BY DEF SARIF
  <2>2. Shown(SARIF(list)) = [n \in DOMAIN rs |-> S(rs[n])]
    BY <2>1 DEF Shown
  <2>3. ASSUME NEW n \in DOMAIN list PROVE S(rs[n]) = Facts(list)[n]
    <3> DEFINE f == list[n]
               r == Result(f)
    <3>1. f.severity \in Severity /\ f.suppressed \in BOOLEAN /\ rs[n] = r
      BY DEF Ratable
    <3>2. SeverityOf(SeverityString(f.severity)) = f.severity
      BY <3>1, Words
    <3>3. Facts(list)[n] = Fact(f.rule, f.severity, Resource(f), f.file, f.suppressed)
      BY DEF Facts
    <3> HIDE DEF f
    <3>4. /\ r.ruleId = f.rule /\ r.severity = SeverityString(f.severity)
          /\ r.resource = Resource(f) /\ r.file = f.file
          /\ r.suppressions = IF f.suppressed THEN <<"inSource">> ELSE << >>
      BY DEF Result
    <3>5. (r.suppressions # << >>) = f.suppressed
      <4>1. <<"inSource">> # << >>
        OBVIOUS
      <4> QED
        BY <3>1, <3>4, <4>1
    <3> HIDE DEF r
    <3>6. S(r) = Fact(f.rule, f.severity, Resource(f), f.file, f.suppressed)
      BY <3>2, <3>4, <3>5
    <3> QED
      BY <3>1, <3>3, <3>6
  <2>4. DOMAIN rs = DOMAIN list /\ Facts(list) = [n \in DOMAIN list |-> Facts(list)[n]]
    BY DEF Facts
  <2> HIDE DEF rs, S
  <2> QED
    BY <2>2, <2>3, <2>4
<1> QED
  BY <1>1, <1>2

\* The lines of a group: the findings of the severity that read alike.
Alike(list, s, l) == {n \in Group(list, s) : Line(list[n]) = l}

LEMMA GroupLines ==
  ASSUME NEW list, NEW s
  PROVE  /\ GroupOf(list, s).severity = SeverityString(s)
         /\ DOMAIN GroupOf(list, s).lines = {Line(list[n]) : n \in Group(list, s)}
         /\ \A l \in DOMAIN GroupOf(list, s).lines :
              GroupOf(list, s).lines[l] = Cardinality(Alike(list, s, l))
<1> DEFINE G == Group(list, s)
           w == [n \in G |-> Line(list[n])]
           V == {w[n] : n \in DOMAIN w}
<1>1. GroupOf(list, s).severity = SeverityString(s) /\ GroupOf(list, s).lines = Tally(w)
  BY DEF GroupOf
<1>2. DOMAIN Tally(w) = V /\ \A l \in V : Tally(w)[l] = Cardinality({n \in DOMAIN w : w[n] = l})
  BY DEF Tally
<1>3. V = {Line(list[n]) : n \in G}
  OBVIOUS
<1>4. \A l : {n \in DOMAIN w : w[n] = l} = Alike(list, s, l)
  BY DEF Alike
<1> HIDE DEF V, w
<1> QED
  BY <1>1, <1>2, <1>3, <1>4

\* What the console says of a line: its fact, with the severity of the group.
FactOfLine(s, l) == Fact(l.rule, s, l.resource, l.file, l.suppressed)

\* Findings are alike exactly if the facts are the same.
LEMMA AlikeIsSame ==
  ASSUME NEW list, NEW m \in DOMAIN list
  PROVE  /\ Facts(list)[m] = FactOfLine(list[m].severity, Line(list[m]))
         /\ \A n \in DOMAIN list :
              Facts(list)[n] = Facts(list)[m] <=>
                n \in Alike(list, list[m].severity, Line(list[m]))
<1>1. ASSUME NEW n \in DOMAIN list
      PROVE  /\ Facts(list)[n] = FactOfLine(list[n].severity, Line(list[n]))
             /\ Facts(list)[n].severity = list[n].severity
             /\ Line(list[n]) = [rule |-> Facts(list)[n].rule,
                                 resource |-> Facts(list)[n].resource,
                                 file |-> Facts(list)[n].file,
                                 suppressed |-> Facts(list)[n].suppressed]
  <2> DEFINE f == list[n]
             x == Fact(f.rule, f.severity, Resource(f), f.file, f.suppressed)
             l == Line(f)
  <2>1. Facts(list)[n] = x
    BY DEF Facts
  <2> HIDE DEF f
  <2>2. /\ l.rule = f.rule /\ l.resource = Resource(f) /\ l.file = f.file
        /\ l.suppressed = f.suppressed
        /\ l = [rule |-> f.rule, resource |-> Resource(f), file |-> f.file,
                suppressed |-> f.suppressed]
    BY DEF Line
  <2>3. /\ x.rule = f.rule /\ x.severity = f.severity /\ x.resource = Resource(f)
        /\ x.file = f.file /\ x.suppressed = f.suppressed
    BY DEF Fact
  <2>4. x = FactOfLine(f.severity, l)
    BY <2>2 DEF FactOfLine
  <2> HIDE DEF x, l
  <2> QED
    BY <2>1, <2>2, <2>3, <2>4 DEF f, l
<1> QED
  BY <1>1 DEF Alike, Group

\* So many copies of a line.
Copies(g, l, k) == {[group |-> g, line |-> l, copy |-> c] : c \in 1 .. k}

LEMMA CopiesOfLine ==
  ASSUME NEW g, NEW l, NEW k \in Nat
  PROVE  IsFiniteSet(Copies(g, l, k)) /\ Cardinality(Copies(g, l, k)) = k
<1> DEFINE b == [c \in 1 .. k |-> [group |-> g, line |-> l, copy |-> c]]
<1>1. b \in Bijection(1 .. k, Copies(g, l, k))
  BY DEF Bijection, Injection, Surjection, IsInjective, Copies
<1>2. ExistsBijection(1 .. k, Copies(g, l, k))
  BY <1>1 DEF ExistsBijection
<1>3. IsFiniteSet(1 .. k) /\ Cardinality(1 .. k) = k
  BY FS_Interval
<1> QED
  BY <1>2, <1>3, FS_Bijection

\* Every line of the console is that of findings which read alike, and there are as
\* many of it.
LEMMA ConsoleShows ==
  ASSUME NEW list, Ratable(list)
  PROVE  /\ Tally(Shown(Console(list))) = Tally(Facts(list))
         /\ \A x : IsFiniteSet(PlacesOf(Shown(Console(list)), x))
<1> DEFINE text  == Console(list)
           shown == Shown(text)
           Used  == {t \in severityOrder : Group(list, t) # {}}
           G(s)  == GroupOf(list, s)
           C(s, l) == Cardinality(Alike(list, s, l))
<1>1. text.format = "console" /\ text.groups = {G(s) : s \in Used}
  BY DEF Console
<1>2. DOMAIN list = 1 .. Len(list) /\ Len(list) \in Nat /\ IsFiniteSet(DOMAIN list)
  <2>1. DOMAIN list = 1 .. Len(list) /\ Len(list) \in Nat
    BY DEF Ratable
  <2> QED
    BY <2>1, FS_Interval
<1>3. shown = [p \in LinesOf(text) |->
                 Fact(p.line.rule, SeverityOf(p.group.severity), p.line.resource, p.line.file,
                      p.line.suppressed)]
  BY <1>1 DEF Shown
<1>4. \A s, t \in Used : s \in Severity /\ (G(s) = G(t) => s = t)
  BY GroupLines, Words
<1>5. ASSUME NEW p
      PROVE  p \in LinesOf(text) <=>
               \E s \in Used : \E l \in DOMAIN G(s).lines : \E c \in 1 .. G(s).lines[l] :
                 p = [group |-> G(s), line |-> l, copy |-> c]
  <2> HIDE DEF text, G, Used
  <2>1. p \in LinesOf(text) <=>
          \E g \in text.groups : \E l \in DOMAIN g.lines : \E c \in 1 .. g.lines[l] :
            p = [group |-> g, line |-> l, copy |-> c]
    <3> DEFINE Block(g, l) == [group : {g}, line : {l}, copy : 1 .. g.lines[l]]
    <3>1. LinesOf(text) = UNION {UNION {Block(g, l) : l \in DOMAIN g.lines} : g \in text.groups}
      BY DEF LinesOf
    <3>2. \A g, l : p \in Block(g, l) <=>
                      \E c \in 1 .. g.lines[l] : p = [group |-> g, line |-> l, copy |-> c]
      OBVIOUS
    <3> HIDE DEF Block
    <3>3. p \in LinesOf(text) <=>
            \E g \in text.groups : \E l \in DOMAIN g.lines : p \in Block(g, l)
      BY <3>1
    <3> QED
      BY <3>2, <3>3
  <2> QED
    BY <1>1, <2>1
<1>6. ASSUME NEW s \in Used, NEW l \in DOMAIN G(s).lines
      PROVE  /\ G(s).lines[l] = C(s, l) /\ C(s, l) \in Nat /\ C(s, l) >= 1
             /\ \A c \in 1 .. C(s, l) :
                  shown[[group |-> G(s), line |-> l, copy |-> c]] = FactOfLine(s, l)
  <2>1. G(s).lines[l] = C(s, l)
    BY GroupLines
  <2>2. Alike(list, s, l) # {} /\ Alike(list, s, l) \subseteq DOMAIN list
    BY GroupLines DEF Alike, Group
  <2>3. C(s, l) \in Nat /\ C(s, l) # 0
    BY <1>2, <2>2, FS_Subset, FS_EmptySet, FS_CardinalityType
  <2>4. ASSUME NEW c \in 1 .. C(s, l)
        PROVE  shown[[group |-> G(s), line |-> l, copy |-> c]] = FactOfLine(s, l)
    <3> DEFINE p == [group |-> G(s), line |-> l, copy |-> c]
    <3>1. p \in LinesOf(text)
      BY <1>5, <2>1
    <3>2. p.line = l /\ p.group = G(s) /\ SeverityOf(p.group.severity) = s
      BY <1>4, GroupLines, Words
    <3> HIDE DEF p, text, shown
    <3> QED
      BY <1>3, <3>1, <3>2 DEF FactOfLine, p
  <2> QED
    BY <2>1, <2>3, <2>4
<1>7. ASSUME NEW m \in DOMAIN list
      PROVE  LET s == list[m].severity
                 l == Line(list[m])
             IN  s \in Used /\ l \in DOMAIN G(s).lines /\ Facts(list)[m] = FactOfLine(s, l)
  <2> DEFINE s == list[m].severity
             l == Line(list[m])
  <2>1. s \in Severity /\ m \in Group(list, s)
    BY DEF Ratable, Group
  <2>2. s \in Used /\ l \in DOMAIN G(s).lines
    BY <2>1, Words, GroupLines
  <2> QED
    BY <2>2, AlikeIsSame
<1>8. ASSUME NEW p \in LinesOf(text)
      PROVE  \E m \in DOMAIN list :
               \E c \in 1 .. C(list[m].severity, Line(list[m])) :
                 /\ p = [group |-> G(list[m].severity), line |-> Line(list[m]), copy |-> c]
                 /\ shown[p] = Facts(list)[m]
  <2>1. PICK s, l, c :
          /\ s \in Used /\ l \in DOMAIN G(s).lines /\ c \in 1 .. G(s).lines[l]
          /\ p = [group |-> G(s), line |-> l, copy |-> c]
    BY <1>5
  <2>2. PICK m \in Group(list, s) : l = Line(list[m])
    BY <2>1, GroupLines
  <2>3. m \in DOMAIN list /\ list[m].severity = s
    BY <2>2 DEF Group
  <2>4. c \in 1 .. C(s, l) /\ shown[p] = FactOfLine(s, l)
    BY <1>6, <2>1
  <2>5. Facts(list)[m] = FactOfLine(s, l)
    BY <2>2, <2>3, <1>7
  <2> HIDE DEF shown, G, C, Used, text
  <2> QED
    BY <2>1, <2>2, <2>3, <2>4, <2>5
<1>9. ASSUME NEW m \in DOMAIN list
      PROVE  LET s == list[m].severity
                 l == Line(list[m])
             IN  /\ PlacesOf(shown, Facts(list)[m]) =
                      Copies(G(s), l, C(s, l))
                 /\ C(s, l) \in Nat /\ C(s, l) >= 1
                 /\ PlacesOf(Facts(list), Facts(list)[m]) = Alike(list, s, l)
  <2> DEFINE s == list[m].severity
             l == Line(list[m])
             x == Facts(list)[m]
  <2>1. s \in Used /\ l \in DOMAIN G(s).lines /\ x = FactOfLine(s, l)
    BY <1>7
  <2>2. /\ G(s).lines[l] = C(s, l) /\ C(s, l) \in Nat /\ C(s, l) >= 1
        /\ \A c \in 1 .. C(s, l) : shown[[group |-> G(s), line |-> l, copy |-> c]] = x
    BY <1>6, <2>1
  <2>3. DOMAIN shown = LinesOf(text)
    BY <1>3
  <2>4. ASSUME NEW c \in 1 .. C(s, l)
        PROVE  [group |-> G(s), line |-> l, copy |-> c] \in PlacesOf(shown, x)
    <3>1. [group |-> G(s), line |-> l, copy |-> c] \in LinesOf(text)
      BY <1>5, <2>1, <2>2
    <3> HIDE DEF shown, x, s, l, text, G
    <3> QED
      BY <2>2, <2>3, <3>1 DEF PlacesOf
  <2>5. ASSUME NEW p \in PlacesOf(shown, x)
        PROVE  \E c \in 1 .. C(s, l) : p = [group |-> G(s), line |-> l, copy |-> c]
    <3>1. p \in LinesOf(text) /\ shown[p] = x
      BY <2>3 DEF PlacesOf
    <3>2. PICK n, c :
            /\ n \in DOMAIN list /\ c \in 1 .. C(list[n].severity, Line(list[n]))
            /\ p = [group |-> G(list[n].severity), line |-> Line(list[n]), copy |-> c]
            /\ shown[p] = Facts(list)[n]
      BY <1>8, <3>1
    <3>3. n \in Alike(list, s, l)
      BY <3>1, <3>2, AlikeIsSame
    <3>4. list[n].severity = s /\ Line(list[n]) = l
      BY <3>3 DEF Alike, Group
    <3> HIDE DEF shown, x, s, l, text, G, C
    <3> QED
      BY <3>2, <3>4
  <2>6. PlacesOf(Facts(list), x) = Alike(list, s, l)
    <3>1. DOMAIN Facts(list) = DOMAIN list
      BY DEF Facts
    <3> QED
      BY <3>1, AlikeIsSame DEF PlacesOf, Alike, Group
  <2> HIDE DEF shown, x, s, l, text, G, C
  <2> QED
    BY <2>2, <2>4, <2>5, <2>6 DEF x, s, l, Copies
<1>10. \A g, l : \A k \in Nat :
         IsFiniteSet(Copies(g, l, k)) /\ Cardinality(Copies(g, l, k)) = k
  BY CopiesOfLine
<1>11. {shown[p] : p \in DOMAIN shown} = {Facts(list)[m] : m \in DOMAIN Facts(list)}
  <2>1. DOMAIN shown = LinesOf(text) /\ DOMAIN Facts(list) = DOMAIN list
    BY <1>3 DEF Facts
  <2>2. \A m \in DOMAIN list : \E p \in DOMAIN shown : shown[p] = Facts(list)[m]
    <3>1. \A m \in DOMAIN list : PlacesOf(shown, Facts(list)[m]) # {}
      <4>1. \A k \in Nat : k >= 1 => 1 \in 1 .. k
        OBVIOUS
      <4>2. ASSUME NEW m \in DOMAIN list PROVE PlacesOf(shown, Facts(list)[m]) # {}
        <5> DEFINE s == list[m].severity
                   l == Line(list[m])
                   k == C(s, l)
        <5>1. /\ PlacesOf(shown, Facts(list)[m]) =
                   Copies(G(s), l, k)
              /\ 1 \in 1 .. k
          BY <1>9, <4>1
        <5> HIDE DEF shown, s, l, k, G
        <5> QED
          BY <5>1 DEF Copies
      <4> QED
        BY <4>2
    <3> HIDE DEF shown
    <3> QED
      BY <3>1 DEF PlacesOf
  <2> HIDE DEF shown, text
  <2> QED
    BY <1>8, <2>1, <2>2
<1>12. ASSUME NEW x \in {Facts(list)[m] : m \in DOMAIN Facts(list)}
       PROVE  /\ IsFiniteSet(PlacesOf(shown, x))
              /\ Cardinality(PlacesOf(shown, x)) = Cardinality(PlacesOf(Facts(list), x))
  <2>1. PICK m \in DOMAIN list : x = Facts(list)[m]
    BY DEF Facts
  <2> DEFINE s == list[m].severity
             l == Line(list[m])
             k == C(s, l)
  <2>2. /\ PlacesOf(shown, x) = Copies(G(s), l, k)
        /\ k \in Nat /\ Cardinality(PlacesOf(Facts(list), x)) = k
    BY <1>9, <2>1
  <2>3. IsFiniteSet(Copies(G(s), l, k)) /\ Cardinality(Copies(G(s), l, k)) = k
    BY <1>10, <2>2
  <2> HIDE DEF shown, s, l, k, G
  <2> QED
    BY <2>2, <2>3
<1>13. Tally(shown) = Tally(Facts(list))
  <2> HIDE DEF shown
  <2> QED
    BY <1>11, <1>12 DEF Tally, PlacesOf
<1>14. ASSUME NEW x PROVE IsFiniteSet(PlacesOf(shown, x))
  <2>1. CASE x \in {shown[p] : p \in DOMAIN shown}
    BY <1>11, <1>12, <2>1
  <2>2. CASE x \notin {shown[p] : p \in DOMAIN shown}
    <3>1. PlacesOf(shown, x) = {}
      BY <2>2 DEF PlacesOf
    <3> QED
      BY <3>1, FS_EmptySet
  <2> QED
    BY <2>1, <2>2
<1> QED
  BY <1>13, <1>14

\* A fact has what it was made of.
LEMMA FactsOf ==
  ASSUME NEW list
  PROVE  /\ DOMAIN Facts(list) = DOMAIN list
         /\ \A n \in DOMAIN list : /\ Facts(list)[n].rule = list[n].rule
                                   /\ Facts(list)[n].severity = list[n].severity
                                   /\ Facts(list)[n].suppressed = list[n].suppressed
<1>1. \A rule, severity, resource, file, suppressed :
        LET x == Fact(rule, severity, resource, file, suppressed)
        IN  x.rule = rule /\ x.severity = severity /\ x.suppressed = suppressed
  BY DEF Fact
<1> QED
  BY <1>1 DEF Facts

\* Each rule of a list is named once.
LEMMA RulesOnce ==
  ASSUME NEW list, list \in Seq({list[n] : n \in DOMAIN list}), NEW p \in DOMAIN list
  PROVE  Cardinality({n \in DOMAIN RulesSeen(list) : RulesSeen(list)[n] = list[p].rule}) = 1
<1> DEFINE rules == [n \in DOMAIN list |-> list[n].rule]
           kept  == {n \in DOMAIN list : \A m \in 1 .. n - 1 : list[m].rule # list[n].rule}
           S     == {list[n].rule : n \in DOMAIN list}
           part  == RulesSeen(list)
           r     == list[p].rule
<1>1. DOMAIN list = 1 .. Len(list) /\ Len(list) \in Nat
  OBVIOUS
<1>2. rules \in Seq(S) /\ DOMAIN rules = DOMAIN list /\ Len(rules) = Len(list)
  <2>1. rules \in [1 .. Len(list) -> S]
    BY <1>1
  <2>2. rules \in Seq(S)
    BY <1>1, <2>1, SeqDef
  <2> QED
    BY <1>1, <2>2
<1>3. kept \in SUBSET DOMAIN rules /\ part = Sublist(rules, kept)
  BY <1>2 DEF RulesSeen
<1>4. PICK place : Places(place, part, rules, kept, Len(rules))
  BY <1>2, <1>3, SublistInOrder
<1>5. part \in Seq(S)
  BY <1>2, <1>3, SublistInOrder
<1>6. PICK m \in DOMAIN list :
        list[m].rule = r /\ \A k \in DOMAIN list : list[k].rule = r => m <= k
  <2> DEFINE K == {k \in DOMAIN list : list[k].rule = r}
  <2>1. K # {} /\ K \subseteq Nat
    BY <1>1
  <2> HIDE DEF K, r
  <2>2. PICK m \in K : \A k \in K : m <= k
    BY <2>1, LeastNumber
  <2> QED
    BY <2>2 DEF K
<1>7. m \in kept
  <2>1. ASSUME NEW k \in 1 .. m - 1 PROVE list[k].rule # list[m].rule
    <3>1. k \in DOMAIN list /\ ~(m <= k)
      BY <1>1, <1>6
    <3> QED
      BY <1>6, <3>1
  <2> QED
    BY <1>6, <2>1
<1>8. PICK i \in DOMAIN part : place[i] = m
  BY <1>1, <1>2, <1>4, <1>7 DEF Places
<1>9. part[i] = r
  BY <1>2, <1>4, <1>6, <1>8 DEF Places
<1>10. ASSUME NEW j \in DOMAIN part, part[j] = r PROVE j = i
  <2>1. place[j] \in kept /\ place[j] \in DOMAIN list /\ list[place[j]].rule = r
    BY <1>1, <1>2, <1>4, <1>10 DEF Places
  <2>2. m <= place[j] /\ m \in Nat /\ place[j] \in Nat
    BY <1>1, <1>6, <2>1
  <2>3. place[j] = m
    <3>1. m \in 1 .. place[j] - 1 => list[m].rule # list[place[j]].rule
      BY <2>1
    <3> QED
      BY <1>1, <1>6, <2>1, <2>2, <3>1
  <2>4. i \in Nat /\ j \in Nat
    BY <1>5
  <2>5. ~(i < j) /\ ~(j < i)
    BY <1>4, <1>8, <2>2, <2>3 DEF Places
  <2> QED
    BY <2>4, <2>5
<1> HIDE DEF part, r
<1>11. {n \in DOMAIN part : part[n] = r} = {i}
  BY <1>9, <1>10
<1>12. Cardinality({i}) = 1
  BY FS_Singleton
<1> QED
  BY <1>11, <1>12 DEF part, r

\* What a rendering shows are the facts, and what it counts is what it shows.
LEMMA RenderShows ==
  ASSUME NEW list, Ratable(list), NEW format \in Formats
  PROVE  /\ Tally(Shown(Render(format, list))) = Tally(Facts(list))
         /\ Consistent(Render(format, list))
         /\ Render(format, list).format = format
<1>1. /\ Console(list).format = "console" /\ JSON(list).format = "json"
      /\ SARIF(list).format = "sarif"
  BY DEF Console, JSON, SARIF
<1>2. CASE format = "console"
  <2> DEFINE text  == Console(list)
             shown == Shown(text)
             facts == Facts(list)
             V     == {facts[n] : n \in DOMAIN facts}
  <2>0. Render(format, list) = text
    BY <1>2 DEF Render
  <2>1. DOMAIN facts = DOMAIN list /\ IsFiniteSet(DOMAIN list) /\ Cardinality(DOMAIN list) = Len(list)
    <3>1. DOMAIN list = 1 .. Len(list) /\ Len(list) \in Nat
      BY DEF Ratable
    <3>2. \A k \in Nat : IsFiniteSet(1 .. k) /\ Cardinality(1 .. k) = k
      BY FS_Interval
    <3>3. DOMAIN facts = DOMAIN list
      BY FactsOf
    <3> HIDE DEF facts
    <3> QED
      BY <3>1, <3>2, <3>3
  <2>2. Tally(shown) = Tally(facts) /\ \A x : IsFiniteSet(PlacesOf(shown, x))
    BY ConsoleShows
  <2>3. V = {shown[p] : p \in DOMAIN shown}
    <3>1. \A f : DOMAIN Tally(f) = {f[p] : p \in DOMAIN f}
      BY DEF Tally
    <3> HIDE DEF shown, facts
    <3> QED
      BY <2>2, <3>1
  <2>4. \A X : Cardinality(PlacesIn(shown, X)) = Cardinality(PlacesIn(facts, X))
    BY <2>1, <2>2, TalliesPair
  <2>5. text.total = Cardinality(DOMAIN shown)
    <3>1. PlacesIn(shown, V) = DOMAIN shown /\ PlacesIn(facts, V) = DOMAIN facts
      <4> HIDE DEF shown, facts
      <4> QED
        BY <2>3 DEF PlacesIn
    <3>2. text.total = Len(list)
      BY DEF Console
    <3> QED
      BY <2>1, <2>4, <3>1, <3>2
  <2>6. text.suppressed = Cardinality({p \in DOMAIN shown : shown[p].suppressed})
    <3> DEFINE X == {x \in V : x.suppressed}
    <3>1. PlacesIn(shown, X) = {p \in DOMAIN shown : shown[p].suppressed}
      <4> HIDE DEF shown, facts
      <4> QED
        BY <2>3 DEF PlacesIn
    <3>2. PlacesIn(facts, X) = {n \in DOMAIN facts : facts[n].suppressed}
      <4> HIDE DEF shown, facts
      <4> QED
        BY DEF PlacesIn
    <3>3. {n \in DOMAIN facts : facts[n].suppressed} = Suppressed(list)
      BY FactsOf DEF Suppressed
    <3>4. text.suppressed = Cardinality(Suppressed(list))
      BY DEF Console
    <3> QED
      BY <2>4, <3>1, <3>2, <3>3, <3>4
  <2>7. ASSUME NEW s \in Severity
        PROVE  text.counts[s] = Cardinality({p \in DOMAIN shown : shown[p].severity = s})
    <3> DEFINE X == {x \in V : x.severity = s}
    <3>1. PlacesIn(shown, X) = {p \in DOMAIN shown : shown[p].severity = s}
      <4> HIDE DEF shown, facts
      <4> QED
        BY <2>3 DEF PlacesIn
    <3>2. PlacesIn(facts, X) = {n \in DOMAIN facts : facts[n].severity = s}
      <4> HIDE DEF shown, facts
      <4> QED
        BY DEF PlacesIn
    <3>3. {n \in DOMAIN facts : facts[n].severity = s} = Group(list, s)
      BY FactsOf DEF Group
    <3>4. text.counts[s] = Cardinality(Group(list, s))
      BY DEF Console
    <3> QED
      BY <2>4, <3>1, <3>2, <3>3, <3>4
  <2>8. Consistent(text)
    <3>1. text.format # "sarif"
      BY <1>1
    <3> HIDE DEF text
    <3> QED
      BY <2>5, <2>6, <2>7, <3>1 DEF Consistent
  <2> QED
    BY <1>1, <1>2, <2>0, <2>2, <2>8
<1>3. CASE format = "json"
  <2>1. Render(format, list) = JSON(list)
    BY <1>3 DEF Render
  <2>2. Consistent(JSON(list))
    BY <1>1 DEF Consistent
  <2> QED
    BY <1>1, <1>3, <2>1, <2>2, ListsShow
<1>4. CASE format = "sarif"
  <2> DEFINE text == SARIF(list)
  <2>1. Render(format, list) = text
    BY <1>4 DEF Render
  <2>2. Shown(text) = Facts(list)
    BY ListsShow
  <2>3. ASSUME NEW p \in DOMAIN Shown(text)
        PROVE  Cardinality({n \in DOMAIN text.rules : text.rules[n] = Shown(text)[p].rule}) = 1
    <3>1. text.rules = RulesSeen(list)
      BY DEF SARIF
    <3>2. p \in DOMAIN list /\ Shown(text)[p].rule = list[p].rule
      BY <2>2, FactsOf
    <3> HIDE DEF text
    <3> QED
      BY <3>1, <3>2, RulesOnce DEF Ratable
  <2>4. ASSUME NEW n \in DOMAIN text.results
        PROVE  text.results[n].level = "error" <=>
                 SeverityOf(text.results[n].severity) >= SeverityHigh
    <3> DEFINE r == Result(list[n])
               s == list[n].severity
    <3>1. n \in DOMAIN list /\ text.results[n] = r
      BY DEF SARIF
    <3>2. s \in Severity
      BY <3>1 DEF Ratable
    <3>3. r.level = severityToSARIFLevel(s) /\ r.severity = SeverityString(s)
      BY DEF Result
    <3>4. SeverityOf(SeverityString(s)) = s
      BY <3>2, Words
    <3>5. severityToSARIFLevel(s) = "error" <=> s >= SeverityHigh
      BY <3>2 DEF severityToSARIFLevel, Severity, SeverityInfo, SeverityWarning, SeverityHigh,
                  SeverityCritical
    <3> HIDE DEF text, r, s
    <3> QED
      BY <3>1, <3>3, <3>4, <3>5
  <2>5. text.format = "sarif"
    BY <1>1
  <2> HIDE DEF text
  <2>6. Consistent(text)
    BY <2>3, <2>4, <2>5 DEF Consistent
  <2> QED
    BY <1>4, <2>1, <2>2, <2>5, <2>6
<1> QED
  BY <1>2, <1>3, <1>4 DEF Formats

-----------------------------------------------------------------------------
(* The invariant of a run.                                                 *)

\* The exit code is the verdict on what is not accepted, and comes only from a job
\* with nothing wrong; an error comes from a fault of the job, or from the file.
Verdicts ==
  /\ exit \in {"pass", "blocked"} => ~Faulty /\ (exit = "blocked" <=> Blocked)
  /\ exit = "error" => Faulty \/ job.output # "none"

\* The findings are those of the analysis, with exactly the accepted ones marked.
Marked ==
  Ratable(findings) /\ Len(findings) = Len(job.findings) /\ Facts(findings) = Owed

\* What the steps behind pc have ruled out.
Checked ==
  /\ pc \in {"load", "suppress", "print", "write", "threshold"} =>
       ParseSeverity(job.failOn) \in Severity
  /\ pc \in {"suppress", "print", "write", "threshold"} => job.loads
  /\ pc \in {"print", "write", "threshold"} => ~BadSuppressions
  /\ pc \in {"write", "threshold"} => job.quiet \/ job.format \in Formats
  /\ pc = "threshold" => job.output = "none" \/ FileFormat \in Formats

RunInv ==
  /\ job \in Inputs
  /\ TypeOK
  /\ pc \in {"arguments", "load"} => findings = << >>
  /\ pc = "suppress" => findings = job.findings
  /\ pc \in {"print", "write", "threshold"} => Marked
  /\ Checked
  /\ Verdicts

\* What was printed or written, if anything, is a rendering of the findings.
Rendering(x, format) ==
  \/ x = Nothing
  \/ /\ Marked /\ format \in Formats
     /\ x \in [text : {Render(format, findings)}, whole : BOOLEAN]

\* What stands where at which step: the file is complete before there is a verdict.
Reports ==
  /\ Rendering(stdout, job.format) /\ Rendering(report, FileFormat)
  /\ pc \in {"arguments", "load", "suppress", "print"} => stdout = Nothing
  /\ pc \in {"arguments", "load", "suppress", "print", "write"} => report = Nothing
  /\ pc = "threshold" => IF job.output = "none" THEN report = Nothing ELSE Complete(report)

IInv == RunInv /\ Reports

-----------------------------------------------------------------------------

\* The word of --fail-on names at most one severity.
LEMMA FailOn ==
  /\ ParseSeverity(job.failOn) \in Severity <=>
       \E s \in Severity : SeverityString(s) = job.failOn
  /\ ParseSeverity(job.failOn) \in Severity =>
       SeverityOf(job.failOn) = ParseSeverity(job.failOn)
<1>1. \A s \in Severity : s \in {0, 1, 2, 3}
  BY DEF Severity, SeverityInfo, SeverityCritical
<1>2. /\ SeverityString(0) = "INFO" /\ SeverityString(1) = "WARNING"
      /\ SeverityString(2) = "HIGH" /\ SeverityString(3) = "CRITICAL"
  BY DEF SeverityString, SeverityInfo, SeverityWarning, SeverityHigh, SeverityCritical
<1>3. {0, 1, 2, 3} \subseteq Severity
  BY DEF Severity, SeverityInfo, SeverityCritical
<1>4. /\ job.failOn = "INFO" => ParseSeverity(job.failOn) = 0
      /\ job.failOn = "WARNING" => ParseSeverity(job.failOn) = 1
      /\ job.failOn = "HIGH" => ParseSeverity(job.failOn) = 2
      /\ job.failOn = "CRITICAL" => ParseSeverity(job.failOn) = 3
      /\ job.failOn \notin {"INFO", "WARNING", "HIGH", "CRITICAL"} =>
           ParseSeverity(job.failOn) = -1
  BY DEF ParseSeverity, NoSeverity, SeverityInfo, SeverityWarning, SeverityHigh,
         SeverityCritical
<1>5. -1 \notin Severity
  BY DEF Severity, SeverityInfo, SeverityCritical
<1>6. ParseSeverity(job.failOn) \in Severity <=>
        \E s \in Severity : SeverityString(s) = job.failOn
  BY <1>1, <1>2, <1>3, <1>4, <1>5
<1>7. ASSUME ParseSeverity(job.failOn) \in Severity
      PROVE  SeverityOf(job.failOn) = ParseSeverity(job.failOn)
  <2>1. \A s, t \in Severity : SeverityString(s) = SeverityString(t) => s = t
    BY <1>1, <1>2
  <2>2. SeverityString(ParseSeverity(job.failOn)) = job.failOn
    BY <1>2, <1>4, <1>5, <1>7
  <2> QED
    BY <1>7, <2>1, <2>2 DEF SeverityOf
<1> QED
  BY <1>6, <1>7

\* A rendering says in which format it is.
LEMMA Rendered ==
  ASSUME NEW format \in Formats, NEW list
  PROVE  Render(format, list).format \in Formats
<1>1. Console(list).format = "console" /\ JSON(list).format = "json" /\ SARIF(list).format = "sarif"
  BY DEF Console, JSON, SARIF
<1> QED
  BY <1>1 DEF Render, Formats

\* What a job owes its reader.
LEMMA OwedOf ==
  ASSUME NEW list, DOMAIN list = DOMAIN job.findings
  PROVE  Facts(list) = Owed <=>
           \A n \in DOMAIN list :
             Facts(list)[n] =
               Fact(job.findings[n].rule, job.findings[n].severity, Resource(job.findings[n]),
                    job.findings[n].file, Accepted(job.findings[n]))
BY DEF Facts, Owed

\* Suppressing marks exactly what is accepted.
LEMMA SuppressionMarks ==
  ASSUME job \in Inputs, findings = job.findings,
         \/ /\ job.suppressions.given
            /\ findings' = ApplySuppressions(findings, job.suppressions.entries)
         \/ ~job.suppressions.given /\ findings' = findings,
         UNCHANGED job
  PROVE  Marked'
<1> DEFINE entries == job.suppressions.entries
           Hit(n)  == job.suppressions.given /\ \E m \in DOMAIN entries :
                                                 matches(findings[n], entries[m])
<1>1. /\ findings \in Seq({findings[n] : n \in DOMAIN findings})
      /\ \A n \in DOMAIN findings :
           LET f == findings[n]
           IN  /\ f.severity \in Severity
               /\ f = [rule |-> f.rule, kind |-> f.kind, name |-> f.name,
                       namespace |-> f.namespace, file |-> f.file, severity |-> f.severity,
                       suppressed |-> FALSE]
  BY InputsAssumption
<1>2. DOMAIN findings = 1 .. Len(findings) /\ Len(findings) \in Nat
  BY <1>1
<1>3. DOMAIN findings' = DOMAIN findings
  BY DEF ApplySuppressions
<1>4. ASSUME NEW n \in DOMAIN findings
      PROVE  findings'[n] = [findings[n] EXCEPT !.suppressed = Hit(n)]
  <2> DEFINE f == findings[n]
             h == \E m \in DOMAIN entries : matches(findings[n], entries[m])
  <2>1. f = [rule |-> f.rule, kind |-> f.kind, name |-> f.name, namespace |-> f.namespace,
             file |-> f.file, severity |-> f.severity, suppressed |-> FALSE]
    BY <1>1
  <2>2. CASE job.suppressions.given
    <3>1. findings'[n] = [f EXCEPT !.suppressed = @ \/ h]
      BY <2>2 DEF ApplySuppressions
    <3>2. (Hit(n) <=> h) /\ h \in BOOLEAN /\ Hit(n) \in BOOLEAN
      BY <2>2
    <3> HIDE DEF f, h, Hit
    <3>3. [f EXCEPT !.suppressed = @ \/ h] = [f EXCEPT !.suppressed = Hit(n)]
      BY <2>1, <3>2
    <3> QED
      BY <3>1, <3>3 DEF f
  <2>3. CASE ~job.suppressions.given
    <3>1. findings'[n] = f /\ Hit(n) = FALSE
      BY <2>3
    <3> HIDE DEF f, Hit
    <3>2. f = [f EXCEPT !.suppressed = FALSE]
      BY <2>1
    <3> QED
      BY <3>1, <3>2 DEF f
  <2> QED
    BY <2>2, <2>3
<1>5. \A n \in DOMAIN findings : Hit(n) = Accepted(job.findings[n])
  BY DEF matches, Accepted, Accepts
<1>6. \A n : Hit(n) \in BOOLEAN
  OBVIOUS
<1> HIDE DEF Hit
<1>7. ASSUME NEW n \in DOMAIN findings
      PROVE  /\ findings'[n].severity \in Severity /\ findings'[n].suppressed \in BOOLEAN
             /\ Facts(findings')[n] =
                  Fact(findings[n].rule, findings[n].severity, Resource(findings[n]),
                       findings[n].file, Accepted(findings[n]))
  <2> DEFINE f == findings[n]
             g == [f EXCEPT !.suppressed = Hit(n)]
  <2>1. /\ f.severity \in Severity
        /\ f = [rule |-> f.rule, kind |-> f.kind, name |-> f.name, namespace |-> f.namespace,
                file |-> f.file, severity |-> f.severity, suppressed |-> FALSE]
    BY <1>1
  <2> HIDE DEF f
  <2>2. /\ g.rule = f.rule /\ g.kind = f.kind /\ g.name = f.name
        /\ g.namespace = f.namespace /\ g.file = f.file /\ g.severity = f.severity
        /\ g.suppressed = Hit(n)
    BY <2>1
  <2> HIDE DEF g
  <2>3. Resource(g) = Resource(f)
    BY <2>2 DEF Resource
  <2>4. findings'[n] = g
    BY <1>4 DEF f, g
  <2>5. Facts(findings')[n] = Fact(g.rule, g.severity, Resource(g), g.file, g.suppressed)
    BY <1>3, <2>4 DEF Facts
  <2>6. Hit(n) = Accepted(f)
    BY <1>5 DEF f
  <2> QED
    BY <1>6, <2>1, <2>2, <2>3, <2>4, <2>5, <2>6 DEF f
<1>8. Len(findings') = Len(findings) /\ findings' \in Seq({findings'[n] : n \in DOMAIN findings'})
  <2> DEFINE S == {findings'[n] : n \in DOMAIN findings'}
  <2>1. findings' = [n \in 1 .. Len(findings) |-> findings'[n]]
    <3>1. CASE job.suppressions.given
      <4> DEFINE G(n) == [findings[n] EXCEPT !.suppressed =
                            @ \/ \E m \in DOMAIN entries : matches(findings[n], entries[m])]
      <4>1. findings' = [n \in 1 .. Len(findings) |-> G(n)]
        BY <1>2, <3>1 DEF ApplySuppressions
      <4> HIDE DEF G
      <4> QED
        BY <4>1
    <3>2. CASE ~job.suppressions.given
      BY <1>1, <1>2, <3>2
    <3> QED
      BY <3>1, <3>2
  <2>2. findings' \in [1 .. Len(findings) -> S]
    BY <1>2, <1>3, <2>1
  <2>3. findings' \in Seq(S)
    BY <1>2, <2>2, SeqDef
  <2> QED
    BY <1>2, <2>2, <2>3
<1>9. Facts(findings') = Owed
  BY <1>3, <1>7, OwedOf
<1>10. Owed' = Owed
  BY DEF Owed, Accepted, Accepts
<1> QED
  BY <1>3, <1>7, <1>8, <1>9, <1>10 DEF Marked, Ratable

\* What makes a job faulty does not change, and is what the steps test.
LEMMA Faults ==
  /\ Faulty <=> \/ ParseSeverity(job.failOn) \notin Severity
                \/ ~job.loads
                \/ BadSuppressions
                \/ ~job.quiet /\ job.format \notin Formats
                \/ job.output # "none" /\ FileFormat \notin Formats
  /\ BadSuppressions <=> job.suppressions.given /\ ~Acceptable(job.suppressions)
  /\ FileFormat = resolveOutputFormat(job)
<1>1. BadSuppressions <=> job.suppressions.given /\ ~Acceptable(job.suppressions)
  BY DEF BadSuppressions, Acceptable
<1>2. FileFormat = resolveOutputFormat(job)
  BY DEF FileFormat, resolveOutputFormat
<1>3. (\A s \in Severity : SeverityString(s) # job.failOn) <=>
        ParseSeverity(job.failOn) \notin Severity
  BY FailOn
<1> QED
  BY <1>1, <1>2, <1>3 DEF Faulty

\* What speaks of the job alone stays as it is.
LEMMA JobKept ==
  ASSUME UNCHANGED job
  PROVE  /\ Faulty' = Faulty /\ Blocked' = Blocked /\ BadSuppressions' = BadSuppressions
         /\ FileFormat' = FileFormat
         /\ \A f : Accepted(f)' = Accepted(f)
         /\ Owed' = Owed
<1>1. \A f : Accepted(f)' = Accepted(f)
  BY DEF Accepted, Accepts
<1>2. BadSuppressions' = BadSuppressions /\ FileFormat' = FileFormat
  BY DEF BadSuppressions, FileFormat
<1>3. Faulty' = Faulty
  BY <1>2 DEF Faulty
<1>4. Blocked' = Blocked
  BY <1>1 DEF Blocked, SeverityOf
<1>5. Owed' = Owed
  BY <1>1 DEF Owed
<1> QED
  BY <1>1, <1>2, <1>3, <1>4, <1>5

\* What is owed of a finding, and what of it decides.
LEMMA OwedFacts ==
  /\ DOMAIN Owed = DOMAIN job.findings
  /\ \A n \in DOMAIN job.findings : /\ Owed[n].severity = job.findings[n].severity
                                    /\ Owed[n].suppressed = Accepted(job.findings[n])
<1>1. \A rule, severity, resource, file, suppressed :
        LET x == Fact(rule, severity, resource, file, suppressed)
        IN  x.severity = severity /\ x.suppressed = suppressed
  BY DEF Fact
<1>2. \A n \in DOMAIN job.findings :
        Owed[n] = Fact(job.findings[n].rule, job.findings[n].severity,
                       Resource(job.findings[n]), job.findings[n].file,
                       Accepted(job.findings[n]))
  BY DEF Owed
<1>3. DOMAIN Owed = DOMAIN job.findings
  BY DEF Owed
<1> QED
  BY <1>1, <1>2, <1>3

\* The test of the threshold is the verdict.
LEMMA ThresholdIsVerdict ==
  ASSUME Marked, job \in Inputs, ParseSeverity(job.failOn) \in Severity
  PROVE  (\E n \in DOMAIN findings : Exceeds(findings[n], ParseSeverity(job.failOn))) <=> Blocked
<1>1. DOMAIN findings = DOMAIN job.findings
  BY OwedFacts, FactsOf DEF Marked
<1>2. SeverityOf(job.failOn) = ParseSeverity(job.failOn)
  BY FailOn
<1>3. \A n \in DOMAIN findings :
        /\ findings[n].severity = job.findings[n].severity
        /\ findings[n].suppressed = Accepted(job.findings[n])
  BY <1>1, OwedFacts, FactsOf DEF Marked
<1>4. \A n \in DOMAIN job.findings :
        Exceeds(findings[n], ParseSeverity(job.failOn)) <=>
          ~Accepted(job.findings[n]) /\ job.findings[n].severity >= SeverityOf(job.failOn)
  BY <1>1, <1>2, <1>3 DEF Exceeds
<1> QED
  BY <1>1, <1>4 DEF Blocked

-----------------------------------------------------------------------------

LEMMA RunBegins == Init => RunInv
BY DEF Init, RunInv, TypeOK, PC, RenderedType, Checked, Verdicts

LEMMA RunKeeps ==
  ASSUME RunInv, [Next]_vars
  PROVE  RunInv'
<1>0. job \in Inputs /\ TypeOK /\ Checked /\ Verdicts
  BY DEF RunInv
<1>1. CASE ParseArguments
  <2>1. UNCHANGED <<job, findings, stdout, report>> /\ pc = "arguments" /\ findings = << >>
    BY <1>1 DEF ParseArguments, Doing, RunInv
  <2>2. CASE ParseSeverity(job.failOn) \in Severity
    <3>1. pc' = "load" /\ exit' = exit
      BY <1>1, <2>2 DEF ParseArguments, Continue
    <3> QED
      BY <1>0, <2>1, <2>2, <3>1 DEF RunInv, TypeOK, PC, RenderedType, Checked, Verdicts
  <2>3. CASE ParseSeverity(job.failOn) \notin Severity
    <3>1. pc' = "done" /\ exit' = "error" /\ Faulty'
      BY <1>1, <2>1, <2>3, Faults, JobKept DEF ParseArguments, Fail
    <3> QED
      BY <1>0, <2>1, <3>1 DEF RunInv, TypeOK, PC, RenderedType, Checked, Verdicts
  <2> QED
    BY <2>2, <2>3
<1>2. CASE LoadFails
  <2>1. /\ UNCHANGED <<job, findings, stdout, report>> /\ findings = << >>
        /\ pc' = "done" /\ exit' = "error" /\ Faulty
    BY <1>2, Faults DEF LoadFails, Doing, Fail, RunInv
  <2>2. Faulty'
    BY <2>1, JobKept
  <2> QED
    BY <1>0, <2>1, <2>2 DEF RunInv, TypeOK, PC, RenderedType, Checked, Verdicts
<1>3. CASE LoadAndAnalyze
  <2>1. /\ UNCHANGED <<job, stdout, report, exit>> /\ findings' = job.findings
        /\ pc = "load" /\ pc' = "suppress" /\ job.loads
    BY <1>3 DEF LoadAndAnalyze, Doing, Continue
  <2> QED
    BY <1>0, <2>1 DEF RunInv, TypeOK, PC, RenderedType, Checked, Verdicts
<1>4. CASE Suppress
  <2>1. UNCHANGED <<job, stdout, report>> /\ pc = "suppress" /\ findings = job.findings
    BY <1>4 DEF Suppress, Doing, RunInv
  <2>2. CASE BadSuppressions
    <3>1. pc' = "done" /\ exit' = "error" /\ findings' = findings /\ Faulty
      BY <1>4, <2>2, Faults DEF Suppress, Fail
    <3>2. Faulty'
      BY <2>1, <3>1, JobKept
    <3> QED
      BY <1>0, <2>1, <3>1, <3>2 DEF RunInv, TypeOK, PC, RenderedType, Checked, Verdicts
  <2>3. CASE ~BadSuppressions
    <3>1. /\ pc' = "print" /\ exit' = exit
          /\ \/ /\ job.suppressions.given
                /\ findings' = ApplySuppressions(findings, job.suppressions.entries)
             \/ ~job.suppressions.given /\ findings' = findings
      BY <1>4, <2>3, Faults DEF Suppress, Continue
    <3>2. Marked' /\ ~BadSuppressions'
      BY <1>0, <2>1, <2>3, <3>1, SuppressionMarks, JobKept
    <3>3. TypeOK'
      BY <1>0, <2>1, <3>1, <3>2 DEF TypeOK, PC, RenderedType, Marked
    <3> QED
      BY <1>0, <2>1, <3>1, <3>2, <3>3 DEF RunInv, TypeOK, Checked, Verdicts
  <2> QED
    BY <2>2, <2>3
<1>5. CASE PrintReport
  <2>1. UNCHANGED <<job, findings, report>> /\ pc = "print" /\ Marked
    BY <1>5 DEF PrintReport, Doing, RunInv
  <2>2. Marked' /\ BadSuppressions' = BadSuppressions
    BY <2>1, JobKept DEF Marked
  <2>3. CASE job.quiet \/ job.format \in Formats
    <3>1. pc' = "write" /\ exit' = exit
      BY <1>5, <2>3 DEF PrintReport, Continue
    <3>2. RenderedType(stdout)'
      BY <1>0, <1>5, <2>3, Rendered DEF PrintReport, RenderedType, TypeOK
    <3> QED
      BY <1>0, <2>1, <2>2, <2>3, <3>1, <3>2
      DEF RunInv, TypeOK, PC, RenderedType, Checked, Verdicts
  <2>4. CASE ~(job.quiet \/ job.format \in Formats)
    <3>1. pc' = "done" /\ exit' = "error" /\ stdout' = stdout /\ Faulty
      BY <1>5, <2>4, Faults DEF PrintReport, Fail
    <3>2. Faulty'
      BY <2>1, <3>1, JobKept
    <3> QED
      BY <1>0, <2>1, <3>1, <3>2 DEF RunInv, TypeOK, PC, RenderedType, Checked, Verdicts
  <2> QED
    BY <2>3, <2>4
<1>6. CASE NoReport
  <2>1. /\ UNCHANGED <<job, findings, stdout, report, exit>> /\ pc = "write"
        /\ pc' = "threshold" /\ job.output = "none" /\ Marked
    BY <1>6 DEF NoReport, Doing, Continue, RunInv
  <2>2. Marked' /\ BadSuppressions' = BadSuppressions
    BY <2>1, JobKept DEF Marked
  <2> QED
    BY <1>0, <2>1, <2>2 DEF RunInv, TypeOK, PC, RenderedType, Checked, Verdicts
<1>7. CASE ReportFormatUnknown
  <2>1. /\ UNCHANGED <<job, findings, stdout, report>>
        /\ pc' = "done" /\ exit' = "error" /\ job.output # "none"
    BY <1>7 DEF ReportFormatUnknown, Doing, Fail
  <2> QED
    BY <1>0, <2>1 DEF RunInv, TypeOK, PC, RenderedType, Checked, Verdicts
<1>8. CASE WriteReport
  <2>1. /\ UNCHANGED <<job, findings, stdout>> /\ pc = "write" /\ Marked
        /\ job.output # "none" /\ resolveOutputFormat(job) \in Formats
    BY <1>8 DEF WriteReport, Doing, RunInv
  <2>2. Marked' /\ BadSuppressions' = BadSuppressions /\ FileFormat' \in Formats
    BY <2>1, JobKept, Faults DEF Marked
  <2>3. RenderedType(report)'
    <3> DEFINE text == Render(resolveOutputFormat(job), findings)
    <3>1. text.format \in Formats
      BY <2>1, Rendered
    <3> HIDE DEF text
    <3>2. CASE report' = Nothing
      BY <3>2 DEF RenderedType, Nothing
    <3>3. CASE report' # Nothing
      <4>1. PICK w \in BOOLEAN : report' = [text |-> text, whole |-> w]
        BY <1>8, <3>3 DEF WriteReport, text
      <4>2. report'.text = text /\ report'.whole \in BOOLEAN
        BY <4>1
      <4> QED
        BY <3>1, <4>2 DEF RenderedType
    <3> QED
      BY <3>2, <3>3
  <2>4. \/ pc' = "threshold" /\ exit' = exit
        \/ pc' = "done" /\ exit' = "error"
    BY <1>8 DEF WriteReport, Continue, Fail
  <2> QED
    BY <1>0, <2>1, <2>2, <2>3, <2>4 DEF RunInv, TypeOK, PC, RenderedType, Checked, Verdicts
<1>9. CASE Threshold
  <2>1. /\ UNCHANGED <<job, findings, stdout, report>> /\ pc = "threshold" /\ pc' = "done"
        /\ exit' = IF \E n \in DOMAIN findings :
                         Exceeds(findings[n], ParseSeverity(job.failOn))
                   THEN "blocked" ELSE "pass"
        /\ Marked
    BY <1>9 DEF Threshold, Doing, RunInv
  <2>2. ~Faulty
    BY <1>0, <2>1, Faults DEF Checked
  <2>3. exit' = IF Blocked THEN "blocked" ELSE "pass"
    BY <1>0, <2>1, ThresholdIsVerdict DEF Checked
  <2>4. ~Faulty' /\ Blocked' = Blocked
    BY <2>1, <2>2, JobKept
  <2>5. Verdicts'
    BY <2>3, <2>4 DEF Verdicts
  <2> QED
    BY <1>0, <2>1, <2>3, <2>5 DEF RunInv, TypeOK, PC, RenderedType, Checked
<1>10. CASE UNCHANGED vars
  <2>1. UNCHANGED <<job, pc, findings, stdout, report, exit>>
    BY <1>10 DEF vars
  <2>2. /\ Faulty' = Faulty /\ Blocked' = Blocked /\ BadSuppressions' = BadSuppressions
        /\ FileFormat' = FileFormat
    BY <2>1, JobKept
  <2>3. Marked' = Marked
    BY <2>1, JobKept DEF Marked
  <2> QED
    BY <2>1, <2>2, <2>3 DEF RunInv, TypeOK, RenderedType, Checked, Verdicts
<1> QED
  BY <1>1, <1>2, <1>3, <1>4, <1>5, <1>6, <1>7, <1>8, <1>9, <1>10 DEF Next

\* A rendering of what is marked right is complete, and shows the verdict.
LEMMA RenderingComplete ==
  ASSUME Marked, NEW format \in Formats, NEW x,
         x \in [text : {Render(format, findings)}, whole : {TRUE}]
  PROVE  /\ format = FileFormat => Complete(x)
         /\ Blocked <=> \E p \in DOMAIN Shown(x.text) :
                          /\ ~Shown(x.text)[p].suppressed
                          /\ Shown(x.text)[p].severity >= SeverityOf(job.failOn)
         /\ Consistent(x.text)
<1> DEFINE shown == Shown(x.text)
<1>1. /\ x.text = Render(format, findings) /\ x.whole
      /\ Tally(shown) = Tally(Owed) /\ Consistent(x.text) /\ x.text.format = format
  BY RenderShows DEF Marked
<1>2. {shown[p] : p \in DOMAIN shown} = {Owed[n] : n \in DOMAIN Owed}
  <2>1. \A f : DOMAIN Tally(f) = {f[p] : p \in DOMAIN f}
    BY DEF Tally
  <2> HIDE DEF shown
  <2> QED
    BY <1>1, <2>1
<1> HIDE DEF shown
<1>3. Blocked <=> \E n \in DOMAIN Owed :
                    ~Owed[n].suppressed /\ Owed[n].severity >= SeverityOf(job.failOn)
  BY OwedFacts DEF Blocked
<1>4. Blocked <=> \E p \in DOMAIN shown :
                    ~shown[p].suppressed /\ shown[p].severity >= SeverityOf(job.failOn)
  BY <1>2, <1>3
<1> QED
  BY <1>1, <1>4 DEF Complete, shown

\* Nothing is not a rendering, and a part of one is not complete.
LEMMA NothingShown ==
  /\ ~Nothing.whole /\ ~Complete(Nothing)
  /\ \A x : x.whole => x # Nothing
<1>1. Nothing.whole = FALSE
  BY DEF Nothing
<1> QED
  BY <1>1 DEF Complete

\* What was printed and written stays what it is.
LEMMA ReportsSame ==
  ASSUME UNCHANGED <<job, findings>>
  PROVE  /\ Marked' = Marked
         /\ stdout' = stdout => Rendering(stdout, job.format)' = Rendering(stdout, job.format)
         /\ report' = report => /\ Rendering(report, FileFormat)' = Rendering(report, FileFormat)
                               /\ Complete(report)' = Complete(report)
<1>1. Owed' = Owed /\ FileFormat' = FileFormat
  BY JobKept
<1>2. Marked' = Marked
  BY <1>1 DEF Marked
<1>3. ASSUME stdout' = stdout
      PROVE  Rendering(stdout, job.format)' = Rendering(stdout, job.format)
  BY <1>2, <1>3 DEF Rendering
<1>4. ASSUME report' = report
      PROVE  /\ Rendering(report, FileFormat)' = Rendering(report, FileFormat)
             /\ Complete(report)' = Complete(report)
  BY <1>1, <1>2, <1>4 DEF Rendering, Complete
<1> QED
  BY <1>2, <1>3, <1>4

LEMMA ReportsBegin == Init => Reports
BY DEF Init, Reports, Rendering

LEMMA ReportsKeep ==
  ASSUME IInv, [Next]_vars
  PROVE  Reports'
<1>0. Reports /\ RunInv
  BY DEF IInv
<1>1. CASE ParseArguments \/ LoadFails \/ LoadAndAnalyze \/ Suppress
  <2>1. /\ pc \in {"arguments", "load", "suppress"} /\ UNCHANGED <<stdout, report>>
        /\ pc' # "threshold"
    BY <1>1 DEF ParseArguments, LoadFails, LoadAndAnalyze, Suppress, Doing, Continue, Fail
  <2>2. stdout' = Nothing /\ report' = Nothing
    BY <1>0, <2>1 DEF Reports
  <2> QED
    BY <2>1, <2>2 DEF Reports, Rendering
<1>2. CASE PrintReport
  <2>1. /\ pc = "print" /\ UNCHANGED <<job, findings, report>> /\ pc' \in {"write", "done"}
        /\ Marked
    BY <1>0, <1>2 DEF PrintReport, Doing, Continue, Fail, RunInv
  <2>2. report' = Nothing /\ stdout = Nothing
    BY <1>0, <2>1 DEF Reports
  <2>3. \/ stdout' = Nothing
        \/ /\ job.format \in Formats
           /\ stdout' \in [text : {Render(job.format, findings)}, whole : BOOLEAN]
    BY <1>2, <2>2 DEF PrintReport
  <2>4. Marked'
    BY <2>1, ReportsSame
  <2>5. Rendering(stdout, job.format)' /\ Rendering(report, FileFormat)'
    BY <2>1, <2>2, <2>3, <2>4 DEF Rendering
  <2> QED
    BY <2>1, <2>2, <2>5 DEF Reports
<1>3. CASE NoReport \/ ReportFormatUnknown \/ Threshold
  <2>1. /\ UNCHANGED <<job, findings, stdout, report>> /\ pc \in {"write", "threshold"}
        /\ \/ pc' = "done"
           \/ pc = "write" /\ pc' = "threshold" /\ job.output = "none"
    BY <1>3 DEF NoReport, ReportFormatUnknown, Threshold, Doing, Continue, Fail
  <2> QED
    BY <1>0, <2>1, ReportsSame DEF Reports
<1>4. CASE WriteReport
  <2>1. /\ pc = "write" /\ UNCHANGED <<job, findings, stdout>> /\ Marked
        /\ job.output # "none" /\ FileFormat \in Formats /\ FileFormat' = FileFormat
    BY <1>0, <1>4, Faults, JobKept DEF WriteReport, Doing, RunInv
  <2>2. \/ /\ report' \in [text : {Render(FileFormat, findings)}, whole : {TRUE}]
           /\ pc' = "threshold"
        \/ /\ \/ report' = Nothing
              \/ report' \in [text : {Render(FileFormat, findings)}, whole : {FALSE}]
           /\ pc' = "done"
    <3> DEFINE text == Render(FileFormat, findings)
    <3>1. \/ report' = [text |-> text, whole |-> TRUE] /\ pc' = "threshold"
          \/ report' \in {Nothing, [text |-> text, whole |-> FALSE]} /\ pc' = "done"
      BY <1>4, Faults DEF WriteReport, Continue, Fail
    <3>2. \A w : [text |-> text, whole |-> w] \in [text : {text}, whole : {w}]
      OBVIOUS
    <3> HIDE DEF text
    <3> QED
      BY <3>1, <3>2 DEF text
  <2>3. Marked' /\ Rendering(stdout, job.format)'
    BY <1>0, <2>1, ReportsSame DEF Reports
  <2>4. Rendering(report, FileFormat)'
    <3>1. \/ report' = Nothing
          \/ report' \in [text : {Render(FileFormat, findings)}, whole : BOOLEAN]
      BY <2>2
    <3> QED
      BY <2>1, <2>3, <3>1 DEF Rendering
  <2>5. pc' = "threshold" => Complete(report)'
    <3>1. ASSUME pc' = "threshold" PROVE Complete(report')
      BY <2>1, <2>2, <3>1, RenderingComplete
    <3>2. Complete(report)' <=> Complete(report')
      <4>1. Owed' = Owed
        BY <2>1, JobKept
      <4> QED
        BY <2>1, <4>1 DEF Complete
    <3> QED
      BY <3>1, <3>2
  <2> QED
    BY <2>1, <2>2, <2>3, <2>4, <2>5 DEF Reports
<1>5. CASE UNCHANGED vars
  <2>1. UNCHANGED <<job, pc, findings, stdout, report>>
    BY <1>5 DEF vars
  <2> QED
    BY <1>0, <2>1, ReportsSame DEF Reports
<1> QED
  BY <1>1, <1>2, <1>3, <1>4, <1>5 DEF Next

LEMMA InvBegins == Init => IInv
BY RunBegins, ReportsBegin DEF IInv

LEMMA InvKeeps == IInv /\ [Next]_vars => IInv'
BY RunKeeps, ReportsKeep DEF IInv

-----------------------------------------------------------------------------

\* The process has ended exactly when run has, and what it printed and wrote are
\* renderings of all the findings (main.go:74-170).
THEOREM RunTypeCorrect == Spec => []TypeOK
<1>1. IInv => TypeOK
  BY DEF IInv, RunInv
<1> QED
  BY <1>1, InvBegins, InvKeeps, PTL DEF Spec

\* The process is blocked exactly if a finding at or above the threshold is not
\* accepted, gives a verdict only on a job with nothing wrong, and an error
\* only on a faulty one or when the file could not be written (main.go:74-170).
THEOREM ExitIsVerdict == Spec => []Verdicts
<1>1. IInv => Verdicts
  BY DEF IInv, RunInv
<1> QED
  BY <1>1, InvBegins, InvKeeps, PTL DEF Spec

\* Whatever was printed or written whole, in any format, shows the verdict: an open
\* finding at or above the threshold exactly when the process is blocked, and
\* totals that are those of what is shown (console.go:15-102, sarif.go:14-105).
THEOREM VerdictsAreShown == Spec => []VerdictShown
<1>1. IInv => VerdictShown
  <2> SUFFICES ASSUME IInv, exit \in {"pass", "blocked"}, NEW x \in {stdout, report}, x.whole
               PROVE  /\ exit = "blocked" <=>
                           \E p \in DOMAIN Shown(x.text) :
                             ~Shown(x.text)[p].suppressed
                               /\ Shown(x.text)[p].severity >= SeverityOf(job.failOn)
                      /\ Consistent(x.text)
    BY DEF VerdictShown
  <2>1. exit = "blocked" <=> Blocked
    BY DEF IInv, RunInv, Verdicts
  <2>2. x # Nothing
    BY NothingShown
  <2>3. PICK format \in Formats : x \in [text : {Render(format, findings)}, whole : BOOLEAN]
    BY <2>2 DEF IInv, Reports, Rendering
  <2>4. Marked
    BY <2>2 DEF IInv, Reports, Rendering
  <2>5. x \in [text : {Render(format, findings)}, whole : {TRUE}]
    BY <2>3
  <2> QED
    BY <2>1, <2>4, <2>5, RenderingComplete
<1> QED
  BY <1>1, InvBegins, InvKeeps, PTL DEF Spec

-----------------------------------------------------------------------------
(* The run implements the gate, step by step.                              *)

\* A job and its report as the gate sees them, when they stay what they are.
LEMMA GateSame ==
  ASSUME UNCHANGED job
  PROVE  /\ GateJob' = GateJob
         /\ UNCHANGED report => GateReport' = GateReport
<1>1. GateJob' = GateJob
  BY JobKept DEF GateJob
<1>2. ASSUME UNCHANGED report PROVE GateReport' = GateReport
  <2>1. Complete(report)' = Complete(report)
    BY <1>2, JobKept DEF Complete
  <2> QED
    BY <1>2, <2>1 DEF GateReport
<1> QED
  BY <1>1, <1>2

LEMMA GateBegins == Init => Gate!Init
<1> SUFFICES ASSUME Init PROVE Gate!Init
  OBVIOUS
<1>1. exit = "running" /\ report = Nothing
  BY DEF Init
<1>2. GateReport = "untouched"
  BY <1>1 DEF GateReport
<1>3. GateJob \in Gate!Job
  <2> DEFINE b == ~Faulty /\ Blocked
             w == job.output # "none"
             f == Faulty
  <2>1. b \in BOOLEAN /\ w \in BOOLEAN /\ f \in BOOLEAN
    BY DEF Faulty
  <2>2. GateJob = [blocked |-> b, wantsFile |-> w, faulty |-> f]
    BY DEF GateJob
  <2> HIDE DEF b, w, f
  <2> QED
    BY <2>1, <2>2 DEF Gate!Job
<1> QED
  BY <1>1, <1>2, <1>3 DEF Gate!Init

\* An error before the file was touched is the gate giving up.
LEMMA GivesUp ==
  ASSUME UNCHANGED <<job, report>>, exit = "running", exit' = "error", report = Nothing, Faulty
  PROVE  Gate!GiveUp
<1>1. GateReport = "untouched" /\ GateJob.faulty
  BY DEF GateReport, GateJob
<1>2. GateJob' = GateJob /\ GateReport' = GateReport
  BY GateSame
<1> QED
  BY <1>1, <1>2 DEF Gate!GiveUp

LEMMA GateKeeps ==
  ASSUME IInv, [Next]_vars
  PROVE  [Gate!Next]_(Gate!vars)
<1>0. RunInv /\ Reports /\ TypeOK /\ Checked
  BY DEF IInv, RunInv
<1>1. pc # "done" => exit = "running"
  BY <1>0 DEF TypeOK
<1>2. ASSUME UNCHANGED <<job, report, exit>> PROVE UNCHANGED Gate!vars
  BY <1>2, GateSame DEF Gate!vars
<1>3. CASE ParseArguments
  <2>1. /\ UNCHANGED <<job, report>> /\ pc = "arguments" /\ report = Nothing
        /\ exit' = exit \/ (exit' = "error" /\ ParseSeverity(job.failOn) \notin Severity)
    BY <1>0, <1>3 DEF ParseArguments, Doing, Continue, Fail, Reports
  <2> QED
    BY <1>1, <1>2, <2>1, Faults, GivesUp DEF Gate!Next
<1>4. CASE LoadFails
  <2>1. /\ UNCHANGED <<job, report>> /\ pc = "load" /\ report = Nothing /\ exit' = "error"
        /\ ~job.loads
    BY <1>0, <1>4 DEF LoadFails, Doing, Fail, Reports
  <2> QED
    BY <1>1, <2>1, Faults, GivesUp DEF Gate!Next
<1>5. CASE LoadAndAnalyze \/ NoReport
  BY <1>2, <1>5 DEF LoadAndAnalyze, NoReport, Doing, Continue
<1>6. CASE Suppress
  <2>1. /\ UNCHANGED <<job, report>> /\ pc = "suppress" /\ report = Nothing
        /\ exit' = exit \/ (exit' = "error" /\ BadSuppressions)
    BY <1>0, <1>6, Faults DEF Suppress, Doing, Continue, Fail, Reports
  <2> QED
    BY <1>1, <1>2, <2>1, Faults, GivesUp DEF Gate!Next
<1>7. CASE PrintReport
  <2>1. /\ UNCHANGED <<job, report>> /\ pc = "print" /\ report = Nothing
        /\ exit' = exit \/ (exit' = "error" /\ ~job.quiet /\ job.format \notin Formats)
    BY <1>0, <1>7 DEF PrintReport, Doing, Continue, Fail, Reports
  <2> QED
    BY <1>1, <1>2, <2>1, Faults, GivesUp DEF Gate!Next
<1>8. CASE ReportFormatUnknown
  <2>1. /\ UNCHANGED <<job, report>> /\ pc = "write" /\ report = Nothing /\ exit' = "error"
        /\ job.output # "none" /\ FileFormat \notin Formats
    BY <1>0, <1>8, Faults DEF ReportFormatUnknown, Doing, Fail, Reports
  <2> QED
    BY <1>1, <2>1, Faults, GivesUp DEF Gate!Next
<1>9. CASE WriteReport
  <2>1. /\ UNCHANGED job /\ pc = "write" /\ report = Nothing /\ exit = "running"
        /\ job.output # "none" /\ FileFormat \in Formats
    BY <1>0, <1>1, <1>9, Faults DEF WriteReport, Doing, Reports
  <2>2. ~Faulty
    BY <1>0, <2>1, Faults DEF Checked
  <2>3. GateReport = "untouched" /\ GateJob.wantsFile /\ ~GateJob.faulty /\ GateJob' = GateJob
    BY <2>1, <2>2, GateSame DEF GateReport, GateJob
  <2>4. CASE pc' = "threshold"
    <3>1. Reports' /\ job'.output # "none"
      BY <2>1, ReportsKeep
    <3>2. Complete(report)'
      BY <2>4, <3>1 DEF Reports
    <3>3. report' # Nothing
      BY <3>2, NothingShown DEF Complete
    <3>4. GateReport' = "complete" /\ Nothing' = Nothing
      BY <3>2, <3>3 DEF GateReport, Nothing
    <3>5. exit' = exit
      BY <1>9, <2>4 DEF WriteReport, Continue, Fail
    <3> QED
      BY <2>1, <2>3, <3>4, <3>5 DEF Gate!Next, Gate!WriteReport
  <2>5. CASE pc' # "threshold"
    <3>1. /\ exit' = "error"
          /\ \/ report' = Nothing
             \/ report' = [text |-> Render(resolveOutputFormat(job), findings), whole |-> FALSE]
      BY <1>9, <2>5 DEF WriteReport, Continue, Fail
    <3>2. ~Complete(report)'
      <4> DEFINE text == Render(resolveOutputFormat(job), findings)
      <4>1. Nothing.whole = FALSE /\ [text |-> text, whole |-> FALSE].whole = FALSE
        BY DEF Nothing
      <4> HIDE DEF text
      <4>2. report'.whole = FALSE
        BY <3>1, <4>1 DEF text
      <4> QED
        BY <4>2 DEF Complete
    <3>3. GateReport' \in {"untouched", "damaged"}
      BY <3>2 DEF GateReport
    <3> QED
      BY <2>1, <2>3, <3>1, <3>3 DEF Gate!Next, Gate!WriteFails
  <2> QED
    BY <2>4, <2>5
<1>10. CASE Threshold
  <2>1. /\ UNCHANGED <<job, report>> /\ pc = "threshold" /\ exit = "running"
        /\ exit' \in {"pass", "blocked"}
    BY <1>1, <1>10 DEF Threshold, Doing
  <2>2. ~Faulty
    BY <1>0, <2>1, Faults DEF Checked
  <2>3. exit' = IF Blocked THEN "blocked" ELSE "pass"
    <3>1. RunInv'
      BY <1>0, RunKeeps
    <3>2. exit' = "blocked" <=> Blocked'
      BY <2>1, <3>1 DEF RunInv, Verdicts
    <3> QED
      BY <2>1, <3>2, JobKept
  <2>4. GateReport = IF GateJob.wantsFile THEN "complete" ELSE "untouched"
    <3>1. CASE job.output = "none"
      BY <1>0, <2>1, <3>1 DEF Reports, GateReport, GateJob
    <3>2. CASE job.output # "none"
      <4>1. Complete(report) /\ report # Nothing
        BY <1>0, <2>1, <3>2, NothingShown DEF Reports
      <4> QED
        BY <3>2, <4>1 DEF GateReport, GateJob
    <3> QED
      BY <3>1, <3>2
  <2>5. /\ GateJob' = GateJob /\ GateReport' = GateReport
        /\ ~GateJob.faulty /\ (GateJob.blocked <=> Blocked)
    BY <2>1, <2>2, GateSame DEF GateJob
  <2> QED
    BY <2>1, <2>3, <2>4, <2>5 DEF Gate!Next, Gate!GiveVerdict
<1>11. CASE UNCHANGED vars
  BY <1>2, <1>11 DEF vars
<1> QED
  BY <1>3, <1>4, <1>5, <1>6, <1>7, <1>8, <1>9, <1>10, <1>11 DEF Next

\* An invocation implements the gate: it begins as one, and every step of it is a
\* step of the gate or nothing to it (main.go:74-170).
THEOREM ImplementsGate == Spec => GateSteps
<1>1. Init => Gate!Init
  BY GateBegins
<1>2. IInv /\ [Next]_vars => [Gate!Next]_(Gate!vars)
  BY GateKeeps
<1> QED
  BY <1>1, <1>2, InvBegins, InvKeeps, PTL DEF Spec, GateSteps, Gate!Steps

=============================================================================
