---------------------------- MODULE LoaderProofs ----------------------------
(***************************************************************************)
(* Proofs about LoadManifests, for every set of Inputs that satisfies      *)
(* TreesAssumption: trees of any size, with lists in lists to any depth,   *)
(* and files that may grow before they are read.                           *)
(*                                                                         *)
(* The first parts are about the contract's operators: that lists can be   *)
(* taken apart one by one as well as level by level (LeavesLists,          *)
(* LeavesOfOne), what one more document or file adds to what is stored,    *)
(* and that the walk, which prunes directories as it meets them, takes     *)
(* the files that the contract counts (TakesWhatCounts).  Then come the    *)
(* four parts of LoaderInv, each with the lemma that a step keeps it       *)
(* (CallStep, WalkStep, SightStep, StoreStep), and the theorems.           *)
(***************************************************************************)
EXTENDS LoaderContract, ListingsProofs

-----------------------------------------------------------------------------
(* Lists of documents, level by level.                                     *)

\* What the assumption says of documents.
LEMMA DocumentsAre ==
  /\ MaxNesting \in Nat
  /\ \A d \in Documents :
       /\ d.type \in {"junk", "list", "object"}
       /\ d.type = "list" => d.items \in Seq(Documents)
       /\ \A leaf \in ToSet(Leaves(<<d>>)) : leaf.type # "list"
BY TreesAssumption

IsFlat(ds) == \A n \in DOMAIN ds : ds[n].type # "list"

\* The items of a list, or the document itself.
ItemsOf == [d \in Documents |-> IF d.type = "list" THEN d.items ELSE <<d>>]

LEMMA ItemsTaken == Takes(ItemsOf, Documents, Seq(Documents))
<1>1. ASSUME NEW d \in Documents
      PROVE  (IF d.type = "list" THEN d.items ELSE <<d>>) \in Seq(Documents)
  <2>1. <<d>> \in Seq(Documents)
    OBVIOUS
  <2>2. d.type = "list" => d.items \in Seq(Documents)
    BY DocumentsAre
  <2> QED
    BY <2>1, <2>2
<1> DEFINE Ds == Seq(Documents)
<1>2. \A d \in Documents : (IF d.type = "list" THEN d.items ELSE <<d>>) \in Ds
  BY <1>1
<1> HIDE DEF Ds
<1>3. ItemsOf \in [Documents -> Ds]
  BY <1>2 DEF ItemsOf
<1> QED
  BY <1>3 DEF Takes, Ds

LEMMA UnwrappedIs ==
  ASSUME NEW ds \in Seq(Documents)
  PROVE  Unwrapped(ds) = Mapped(ItemsOf, ds)
<1>1. \A n \in DOMAIN ds : ds[n] \in Documents
  OBVIOUS
<1>2. EachOf(ItemsOf, ds) =
        [n \in DOMAIN ds |-> IF ds[n].type = "list" THEN ds[n].items ELSE <<ds[n]>>]
  BY <1>1 DEF EachOf, ItemsOf
<1> QED
  BY <1>2 DEF Unwrapped, Mapped

\* Lists one after the other, lists of no lists, and one document.
LEMMA UnwrappedLists ==
  /\ \A p, q \in Seq(Documents) : Unwrapped(p \o q) = Unwrapped(p) \o Unwrapped(q)
  /\ \A p \in Seq(Documents) : Unwrapped(p) \in Seq(Documents) /\ (IsFlat(p) => Unwrapped(p) = p)
  /\ \A d \in Documents : Unwrapped(<<d>>) = IF d.type = "list" THEN d.items ELSE <<d>>
<1>1. ASSUME NEW p \in Seq(Documents), NEW q \in Seq(Documents)
      PROVE  Unwrapped(p \o q) = Unwrapped(p) \o Unwrapped(q)
  <2>1. p \o q \in Seq(Documents)
    OBVIOUS
  <2>2. Mapped(ItemsOf, p \o q) = Mapped(ItemsOf, p) \o Mapped(ItemsOf, q)
    BY ItemsTaken, MappedConcat
  <2> QED
    BY <2>1, <2>2, UnwrappedIs
<1>2. ASSUME NEW p \in Seq(Documents)
      PROVE  Unwrapped(p) \in Seq(Documents) /\ (IsFlat(p) => Unwrapped(p) = p)
  <2>1. Mapped(ItemsOf, p) \in Seq(Documents)
    BY ItemsTaken, MappedLists
  <2>2. ASSUME IsFlat(p) PROVE Mapped(ItemsOf, p) = p
    <3>1. \A n \in DOMAIN p : ItemsOf[p[n]] = <<p[n]>>
      BY <2>2 DEF IsFlat, ItemsOf
    <3> QED
      BY <3>1, ItemsTaken, MappedSame
  <2> QED
    BY <2>1, <2>2, UnwrappedIs
<1>3. ASSUME NEW d \in Documents
      PROVE  Unwrapped(<<d>>) = IF d.type = "list" THEN d.items ELSE <<d>>
  <2>1. <<d>> \in Seq(Documents)
    OBVIOUS
  <2>2. Mapped(ItemsOf, <<d>>) = ItemsOf[d]
    BY ItemsTaken, MappedLists
  <2> QED
    BY <2>1, <2>2, UnwrappedIs DEF ItemsOf
<1> QED
  BY <1>1, <1>2, <1>3

\* The equation of the levels.
HasLevels(level, ds) ==
  level = [k \in 0 .. MaxNesting |-> IF k = 0 THEN ds ELSE Unwrapped(level[k - 1])]

\* The levels are lists of documents, each the unwrapped one before.
LEMMA LevelsAre ==
  ASSUME NEW ds \in Seq(Documents)
  PROVE  /\ Levels(ds)[0] = ds
         /\ \A k \in 1 .. MaxNesting : Levels(ds)[k] = Unwrapped(Levels(ds)[k - 1])
         /\ \A k \in 0 .. MaxNesting : Levels(ds)[k] \in Seq(Documents)
<1> DEFINE K    == MaxNesting
           Ds   == Seq(Documents)
           step == [n \in 1 .. K |-> [s \in Ds |-> Unwrapped(s)]]
<1>1. K \in Nat
  BY DocumentsAre
<1>2. \A s \in Ds : Unwrapped(s) \in Ds
  BY UnwrappedLists
<1>3. step \in [1 .. K -> [Ds -> Ds]] /\ \A n \in 1 .. K : \A s \in Ds : step[n][s] = Unwrapped(s)
  BY <1>2
<1>4. ds \in Ds
  OBVIOUS
<1> HIDE DEF Ds, step
<1>5. PICK states \in [0 .. K -> Ds] : Leads(states, ds, step, K)
  BY <1>1, <1>3, <1>4, Iterates
<1>6. \E level : HasLevels(level, ds)
  <2>1. states[0] = ds
    BY <1>5 DEF Leads
  <2>2. \A k \in 1 .. K : states[k] = Unwrapped(states[k - 1])
    <3> SUFFICES ASSUME NEW k \in 1 .. K PROVE states[k] = Unwrapped(states[k - 1])
      OBVIOUS
    <3>1. k - 1 \in 0 .. K
      BY <1>1
    <3>2. states[k - 1] \in Ds
      BY <3>1
    <3> QED
      BY <1>3, <1>5, <3>2 DEF Leads
  <2>3. states = [k \in 0 .. K |-> IF k = 0 THEN ds ELSE Unwrapped(states[k - 1])]
    <3>1. \A k \in 0 .. K : k = 0 \/ k \in 1 .. K
      BY <1>1
    <3>2. \A k \in 0 .. K : states[k] = IF k = 0 THEN ds ELSE Unwrapped(states[k - 1])
      BY <2>1, <2>2, <3>1
    <3> QED
      BY <3>2
  <2> QED
    BY <2>3 DEF HasLevels
<1>7. Levels(ds) = CHOOSE level : HasLevels(level, ds)
  BY Zenon DEF Levels, HasLevels
<1>8. HasLevels(Levels(ds), ds)
  BY <1>6, <1>7
<1> DEFINE lv == Levels(ds)
<1>9. \A k \in 0 .. K : lv[k] = IF k = 0 THEN ds ELSE Unwrapped(lv[k - 1])
  BY <1>8 DEF HasLevels
<1> HIDE DEF lv
<1>10. lv[0] = ds /\ \A k \in 1 .. K : k \in 0 .. K /\ lv[k] = Unwrapped(lv[k - 1])
  BY <1>1, <1>9
<1> DEFINE good == {k \in 0 .. K : lv[k] \in Ds}
<1>11. \A k \in 0 .. K : k \in good
  <2>1. 0 \in good
    BY <1>1, <1>4, <1>10
  <2>2. ASSUME NEW k \in 1 .. K, k - 1 \in good PROVE k \in good
    BY <1>2, <1>10, <2>2
  <2> HIDE DEF good, K
  <2> QED
    BY <1>1, <2>1, <2>2, Upward
<1> QED
  BY <1>10, <1>11 DEF lv, Ds

\* Every level of two lists is that of the one and that of the other.
LEMMA LevelsConcat ==
  ASSUME NEW p \in Seq(Documents), NEW q \in Seq(Documents)
  PROVE  \A k \in 0 .. MaxNesting : Levels(p \o q)[k] = Levels(p)[k] \o Levels(q)[k]
<1> DEFINE K == MaxNesting
           w == p \o q
           good == {k \in 0 .. K : Levels(w)[k] = Levels(p)[k] \o Levels(q)[k]}
<1>1. K \in Nat
  BY DocumentsAre
<1>2. w \in Seq(Documents)
  OBVIOUS
<1>3. 0 \in good
  <2> HIDE DEF w
  <2>1. Levels(w)[0] = w /\ Levels(p)[0] = p /\ Levels(q)[0] = q
    BY <1>2, LevelsAre
  <2>2. 0 \in 0 .. K
    BY <1>1
  <2> QED
    BY <2>1, <2>2 DEF w
<1>4. ASSUME NEW k \in 1 .. K, k - 1 \in good PROVE k \in good
  <2> HIDE DEF w
  <2>1. k \in 0 .. K /\ k - 1 \in 0 .. K
    BY <1>1
  <2>2. /\ Levels(w)[k] = Unwrapped(Levels(w)[k - 1])
        /\ Levels(p)[k] = Unwrapped(Levels(p)[k - 1]) /\ Levels(p)[k - 1] \in Seq(Documents)
        /\ Levels(q)[k] = Unwrapped(Levels(q)[k - 1]) /\ Levels(q)[k - 1] \in Seq(Documents)
    BY <1>2, <2>1, LevelsAre
  <2>3. Levels(w)[k - 1] = Levels(p)[k - 1] \o Levels(q)[k - 1]
    BY <1>4
  <2> DEFINE a == Levels(p)[k - 1]
             b == Levels(q)[k - 1]
  <2>4. a \in Seq(Documents) /\ b \in Seq(Documents)
    BY <2>2
  <2> HIDE DEF a, b
  <2>5. Unwrapped(a \o b) = Unwrapped(a) \o Unwrapped(b)
    BY <2>4, UnwrappedLists
  <2>6. Levels(w)[k] = Levels(p)[k] \o Levels(q)[k]
    BY <2>2, <2>3, <2>5 DEF a, b
  <2> QED
    BY <2>1, <2>6
<1> QED
  <2> HIDE DEF good, K
  <2>1. \A k \in 0 .. K : k \in good
    BY <1>1, <1>3, <1>4, Upward
  <2> QED
    BY <2>1 DEF good, K

\* The leaves of two lists, of a list of documents, and of a document.
LEMMA LeavesLists ==
  /\ \A p, q \in Seq(Documents) : Leaves(p \o q) = Leaves(p) \o Leaves(q)
  /\ \A p \in Seq(Documents) : Leaves(p) \in Seq(Documents) /\ IsFlat(Leaves(p))
<1>1. MaxNesting \in 0 .. MaxNesting
  BY DocumentsAre
<1>2. ASSUME NEW p \in Seq(Documents), NEW q \in Seq(Documents)
      PROVE  Leaves(p \o q) = Leaves(p) \o Leaves(q)
  BY <1>1, LevelsConcat DEF Leaves
<1>3. ASSUME NEW p \in Seq(Documents) PROVE Leaves(p) \in Seq(Documents)
  BY <1>1, LevelsAre DEF Leaves
<1>4. ASSUME NEW p \in Seq(Documents) PROVE IsFlat(Leaves(p))
  <2> DEFINE Start(n) == SubSeq(p, 1, n)
             good == {n \in 0 .. Len(p) : IsFlat(Leaves(Start(n)))}
  <2>1. /\ Start(0) = << >> /\ Start(Len(p)) = p
        /\ \A n \in 1 .. Len(p) : /\ Start(n) = Append(Start(n - 1), p[n])
                                  /\ Start(n - 1) \in Seq(Documents) /\ p[n] \in Documents
    BY FirstElements
  <2> HIDE DEF Start
  <2>2. Len(p) \in Nat
    OBVIOUS
  <2>3. 0 \in good
    <3>1. << >> \in Seq(Documents) /\ << >> \o << >> = << >>
      OBVIOUS
    <3>2. Leaves(<< >>) = Leaves(<< >>) \o Leaves(<< >>)
      BY <1>2, <3>1
    <3> DEFINE none == Leaves(<< >>)
    <3>3. none \in Seq(Documents)
      BY <1>3, <3>1
    <3> HIDE DEF none
    <3>4. none = << >>
      <4>1. none = none \o none
        BY <3>2 DEF none
      <4> QED
        BY <3>3, <4>1, ConcatEqualIffEmpty
    <3>5. IsFlat(Leaves(<< >>))
      BY <3>4 DEF none, IsFlat
    <3>6. 0 \in 0 .. Len(p)
      BY <2>2
    <3> QED
      BY <2>1, <3>5, <3>6
  <2>4. ASSUME NEW n \in 1 .. Len(p), n - 1 \in good PROVE n \in good
    <3> DEFINE s == Start(n - 1)
               x == p[n]
               a == Leaves(s)
               b == Leaves(<<x>>)
    <3>1. Start(n) = Append(s, x) /\ s \in Seq(Documents) /\ x \in Documents
      BY <2>1
    <3>2. IsFlat(a) /\ n \in 0 .. Len(p)
      BY <2>2, <2>4
    <3> HIDE DEF s, x
    <3>3. <<x>> \in Seq(Documents) /\ s \o <<x>> = Append(s, x)
      BY <3>1
    <3>4. a \in Seq(Documents) /\ b \in Seq(Documents) /\ Leaves(Append(s, x)) = a \o b
      BY <1>2, <1>3, <3>1, <3>3
    <3>5. IsFlat(b)
      BY <3>1, DocumentsAre DEF IsFlat, ToSet
    <3> HIDE DEF a, b
    <3>6. IsFlat(a \o b)
      <4>1. \A m \in DOMAIN (a \o b) : \/ m \in DOMAIN a /\ (a \o b)[m] = a[m]
                                       \/ m - Len(a) \in DOMAIN b /\ (a \o b)[m] = b[m - Len(a)]
        BY <3>4
      <4> QED
        BY <3>2, <3>5, <4>1 DEF IsFlat
    <3>7. IsFlat(Leaves(Start(n)))
      BY <3>1, <3>4, <3>6
    <3> QED
      BY <3>2, <3>7
  <2>5. Len(p) \in good
    <3> HIDE DEF good
    <3>1. \A n \in 0 .. Len(p) : n \in good
      BY <2>2, <2>3, <2>4, Upward
    <3> QED
      BY <2>2, <3>1
  <2> QED
    BY <2>1, <2>5
<1> QED
  BY <1>2, <1>3, <1>4

\* A list has the leaves of its items, and another document is its own leaf.
LEMMA LeavesOfOne ==
  ASSUME NEW d \in Documents
  PROVE  Leaves(<<d>>) = IF d.type = "list" THEN Leaves(d.items) ELSE <<d>>
<1> DEFINE K   == MaxNesting
           one == <<d>>
<1>1. K \in Nat
  BY DocumentsAre
<1>2. one \in Seq(Documents)
  OBVIOUS
<1>3. Unwrapped(one) = IF d.type = "list" THEN d.items ELSE one
  BY UnwrappedLists
<1>4. IsFlat(Leaves(one))
  BY <1>2, LeavesLists
<1> HIDE DEF one
<1>5. CASE d.type # "list"
  <2> DEFINE good == {k \in 0 .. K : Levels(one)[k] = one}
  <2>1. 0 \in good
    BY <1>1, <1>2, LevelsAre
  <2>2. ASSUME NEW k \in 1 .. K, k - 1 \in good PROVE k \in good
    <3>1. Levels(one)[k] = Unwrapped(Levels(one)[k - 1]) /\ k \in 0 .. K
      BY <1>1, <1>2, LevelsAre
    <3> QED
      BY <1>3, <1>5, <2>2, <3>1
  <2>3. K \in good
    <3> HIDE DEF good
    <3>1. \A k \in 0 .. K : k \in good
      BY <1>1, <2>1, <2>2, Upward
    <3> QED
      BY <1>1, <3>1
  <2> QED
    BY <1>5, <2>3 DEF Leaves, one
<1>6. CASE d.type = "list"
  <2> DEFINE items == d.items
  <2>1. items \in Seq(Documents)
    BY <1>6, DocumentsAre
  <2>2. Unwrapped(one) = items
    BY <1>3, <1>6
  <2> HIDE DEF items
  <2>3. /\ Levels(one)[0] = one /\ Levels(items)[0] = items
        /\ \A k \in 1 .. K : /\ Levels(one)[k] = Unwrapped(Levels(one)[k - 1])
                            /\ Levels(items)[k] = Unwrapped(Levels(items)[k - 1])
        /\ \A k \in 0 .. K : Levels(items)[k] \in Seq(Documents)
    BY <1>2, <2>1, LevelsAre
  <2>4. K # 0
    <3> SUFFICES ASSUME K = 0 PROVE FALSE
      OBVIOUS
    <3>1. Leaves(one) = one
      BY <2>3 DEF Leaves
    <3>2. one[1].type # "list"
      BY <1>4, <3>1 DEF IsFlat, one
    <3> QED
      BY <1>6, <3>2 DEF one
  <2> DEFINE M == K - 1
             good == {k \in 0 .. M : Levels(one)[k + 1] = Levels(items)[k]}
  <2>5. M \in Nat /\ M + 1 = K /\ M \in 0 .. K /\ K \in 1 .. K
    BY <1>1, <2>4
  <2>6. 0 \in good
    <3>1. 0 \in 0 .. M /\ 1 \in 1 .. K /\ 0 + 1 = 1 /\ 1 - 1 = 0
      BY <2>5
    <3> HIDE DEF M
    <3>2. Levels(one)[1] = Unwrapped(Levels(one)[0])
      BY <2>3, <3>1
    <3> QED
      BY <2>2, <2>3, <3>1, <3>2
  <2>7. ASSUME NEW k \in 1 .. M, k - 1 \in good PROVE k \in good
    <3>1. /\ k \in 0 .. M /\ k + 1 \in 1 .. K /\ k \in 1 .. K /\ (k + 1) - 1 = k /\ (k - 1) + 1 = k
      BY <2>5
    <3>2. Levels(one)[k] = Levels(items)[k - 1]
      BY <2>7, <3>1
    <3> HIDE DEF M
    <3>3. Levels(one)[k + 1] = Unwrapped(Levels(one)[k]) /\ Levels(items)[k] = Unwrapped(Levels(items)[k - 1])
      BY <2>3, <3>1
    <3> QED
      BY <3>1, <3>2, <3>3
  <2>8. M \in good
    <3> HIDE DEF good, M
    <3>1. \A k \in 0 .. M : k \in good
      BY <2>5, <2>6, <2>7, Upward
    <3> QED
      BY <2>5, <3>1
  <2>9. Leaves(one) = Levels(items)[M]
    BY <2>5, <2>8 DEF Leaves
  <2>10. Levels(items)[K] = Unwrapped(Levels(items)[M])
    BY <2>3, <2>5
  <2> HIDE DEF M
  <2>11. Unwrapped(Levels(items)[M]) = Levels(items)[M]
    BY <1>4, <2>3, <2>5, <2>9, UnwrappedLists
  <2>12. Leaves(items) = Leaves(one)
    BY <2>9, <2>10, <2>11 DEF Leaves
  <2> QED
    BY <1>6, <2>12 DEF items, one
<1> QED
  BY <1>5, <1>6

-----------------------------------------------------------------------------
(* What is stored of one document, and of a list of them.                  *)

\* The account of the contract is the one the code computes from the same place.
LEMMA AccountIs ==
  ASSUME NEW obj
  PROVE  Account(obj) = AccountOf(PodSpec(obj.doc, obj.kind))
<1> DEFINE podSpec == PodSpec(obj.doc, obj.kind)
           a == At(podSpec, "serviceAccountName")
           b == At(podSpec, "serviceAccount")
           Text(v)  == StringOr(v, "")
           Given(v) == StringOr(v, "") # ""
           Names(v) == v.type = "string" /\ v.string # ""
<1>1. /\ AccountOf(podSpec) = IF Given(a) THEN Text(a) ELSE IF Given(b) THEN Text(b) ELSE "default"
      /\ Account(obj) = IF Names(a) THEN a.string ELSE IF Names(b) THEN b.string ELSE "default"
  BY Zenon DEF AccountOf, Account
<1>2. \A v : Given(v) <=> Names(v)
  BY Zenon DEF StringOr
<1>3. \A v : Names(v) => Text(v) = v.string
  BY Zenon DEF StringOr
<1> HIDE DEF a, b, Names, Text, Given, podSpec
<1>4. AccountOf(podSpec) = Account(obj)
  BY <1>1, <1>2, <1>3
<1> QED
  BY <1>4 DEF podSpec

LEMMA StoredAlike ==
  ASSUME NEW obj, NEW f
  PROVE  StoredAs(obj, f) = Stored(obj, f)
<1> DEFINE stored == Stored(obj, f)
<1>1. stored = [key |-> Key(obj), file |-> f.name, doc |-> obj.doc, extracted |-> Extracted(obj)]
  BY DEF Stored
<1>2. CASE obj.kind \in workloadKinds \cup {"Pod"}
  <2> DEFINE x == [account |-> Account(obj)]
  <2>1. Extracted(obj) = x
    <3>1. CASE obj.kind = "Pod"
      <4>1. Extracted(obj) = [account |-> extractServiceAccountName(obj.doc)]
        <5>1. /\ obj.kind \notin {"ClusterRole", "Role"} /\ obj.kind \notin BindingKinds
              /\ obj.kind \notin workloadKinds
          BY <3>1 DEF workloadKinds, BindingKinds
        <5> QED
          BY <3>1, <5>1 DEF Extracted
      <4>2. PodSpec(obj.doc, obj.kind) = At(obj.doc, "spec")
        BY <3>1, PodSpecPlaces
      <4> QED
        BY <4>1, <4>2, AccountIs DEF extractServiceAccountName
    <3>2. CASE obj.kind \in workloadKinds
      <4>1. /\ obj.kind \notin {"ClusterRole", "Role"} /\ obj.kind \notin BindingKinds
            /\ obj.kind # "Pod"
        BY <3>2 DEF workloadKinds, BindingKinds
      <4>2. Extracted(obj) = [account |-> extractWorkloadServiceAccountName(obj.doc, obj.kind)]
        BY <3>2, <4>1 DEF Extracted
      <4>3. AccountOf(PodSpec(obj.doc, obj.kind)) = extractWorkloadServiceAccountName(obj.doc, obj.kind)
        BY <4>1, PodSpecPlaces DEF extractWorkloadServiceAccountName
      <4> QED
        BY <4>2, <4>3, AccountIs
    <3> QED
      BY <1>2, <3>1, <3>2
  <2>2. StoredAs(obj, f) = [stored EXCEPT !.extracted = x]
    BY <1>2 DEF StoredAs
  <2> HIDE DEF x
  <2>3. [stored EXCEPT !.extracted = x] = stored
    BY <1>1, <2>1
  <2> QED
    BY <2>2, <2>3
<1>3. CASE obj.kind \notin workloadKinds \cup {"Pod"}
  BY <1>3 DEF StoredAs
<1> QED
  BY <1>2, <1>3

\* What one document contributes.
FromLeaf(f) == [d \in Documents |-> IF Declares(d) THEN <<Stored(d, f)>> ELSE << >>]

\* All that a file with this name may contribute.
StoresOf(f) == {Stored(d, f) : d \in Documents}

LEMMA FromLeafTaken ==
  ASSUME NEW f
  PROVE  Takes(FromLeaf(f), Documents, Seq(StoresOf(f)))
<1> DEFINE S == Seq(StoresOf(f))
           yields(d) == IF Declares(d) THEN <<Stored(d, f)>> ELSE << >>
<1>1. ASSUME NEW d \in Documents PROVE yields(d) \in S
  <2> DEFINE x == Stored(d, f)
             T == StoresOf(f)
  <2>1. x \in T
    BY DEF StoresOf
  <2> HIDE DEF x, T
  <2>2. <<x>> \in Seq(T) /\ << >> \in Seq(T)
    BY <2>1
  <2> QED
    BY <2>2 DEF x, T
<1> HIDE DEF S
<1>2. [d \in Documents |-> yields(d)] \in [Documents -> S]
  BY <1>1
<1> QED
  BY <1>2 DEF Takes, FromLeaf, S

LEMMA StoredFromIs ==
  ASSUME NEW ds \in Seq(Documents), NEW f
  PROVE  StoredFrom(ds, f) = Mapped(FromLeaf(f), Leaves(ds))
<1> DEFINE leaves == Leaves(ds)
<1>1. leaves \in Seq(Documents)
  BY LeavesLists
<1>2. StoredFrom(ds, f) =
        FlattenSeq([n \in DOMAIN leaves |->
          IF Declares(leaves[n]) THEN <<StoredAs(leaves[n], f)>> ELSE << >>])
  BY DEF StoredFrom
<1> HIDE DEF leaves
<1>3. \A n \in DOMAIN leaves : leaves[n] \in Documents
  BY <1>1
<1>4. EachOf(FromLeaf(f), leaves) =
        [n \in DOMAIN leaves |-> IF Declares(leaves[n]) THEN <<StoredAs(leaves[n], f)>> ELSE << >>]
  BY <1>3, StoredAlike DEF EachOf, FromLeaf
<1> QED
  BY <1>2, <1>4 DEF Mapped, leaves

\* The documents that are left, as the steps of the loader consume them.
LEMMA StoredFromHead ==
  ASSUME NEW ds \in Seq(Documents), NEW f, ds # << >>
  PROVE  /\ StoredFrom(ds, f) \in Seq(StoresOf(f))
         /\ Head(ds).type = "list" =>
              StoredFrom(ds, f) = StoredFrom(Head(ds).items \o Tail(ds), f)
         /\ Head(ds).type # "list" =>
              StoredFrom(ds, f) =
                (IF Declares(Head(ds)) THEN <<Stored(Head(ds), f)>> ELSE << >>)
                  \o StoredFrom(Tail(ds), f)
<1> DEFINE x == Head(ds)
           q == Tail(ds)
           one == <<x>>
           g == FromLeaf(f)
           S == StoresOf(f)
<1>1. x \in Documents /\ q \in Seq(Documents) /\ one \in Seq(Documents) /\ ds = one \o q
  OBVIOUS
<1>2. Takes(g, Documents, Seq(S))
  BY FromLeafTaken
<1>3. Leaves(one) = IF x.type = "list" THEN Leaves(x.items) ELSE one
  BY <1>1, LeavesOfOne
<1>4. x.type = "list" => x.items \in Seq(Documents)
  BY <1>1, DocumentsAre
<1>5. Mapped(g, one) = IF Declares(x) THEN <<Stored(x, f)>> ELSE << >>
  BY <1>1, <1>2, MappedLists DEF FromLeaf
<1>6. \A s \in Seq(Documents) : StoredFrom(s, f) = Mapped(g, Leaves(s)) /\ Leaves(s) \in Seq(Documents)
  BY StoredFromIs, LeavesLists
<1> HIDE DEF x, q, one, g, S
<1>7. ASSUME NEW p \in Seq(Documents)
      PROVE  StoredFrom(p \o q, f) = Mapped(g, Leaves(p)) \o StoredFrom(q, f)
  <2> DEFINE a == Leaves(p)
             b == Leaves(q)
  <2>1. p \o q \in Seq(Documents)
    BY <1>1
  <2>2. Leaves(p \o q) = a \o b
    BY <1>1, LeavesLists
  <2>3. a \in Seq(Documents) /\ b \in Seq(Documents)
    BY <1>1, <1>6
  <2> HIDE DEF a, b
  <2>4. Mapped(g, a \o b) = Mapped(g, a) \o Mapped(g, b)
    BY <1>2, <2>3, MappedConcat
  <2>5. StoredFrom(p \o q, f) = Mapped(g, a \o b)
    BY <1>6, <2>1, <2>2
  <2>6. StoredFrom(q, f) = Mapped(g, b)
    BY <1>1, <1>6 DEF b
  <2> QED
    BY <2>4, <2>5, <2>6 DEF a
<1>8. StoredFrom(ds, f) = Mapped(g, Leaves(one)) \o StoredFrom(q, f)
  BY <1>1, <1>7
<1>9. StoredFrom(ds, f) \in Seq(S)
  <2>1. Mapped(g, Leaves(ds)) \in Seq(S)
    BY <1>2, <1>6, MappedLists
  <2> QED
    BY <1>6, <2>1
<1>10. x.type = "list" => StoredFrom(ds, f) = StoredFrom(x.items \o q, f)
  BY <1>3, <1>4, <1>7, <1>8
<1>11. x.type # "list" =>
         StoredFrom(ds, f) = (IF Declares(x) THEN <<Stored(x, f)>> ELSE << >>) \o StoredFrom(q, f)
  BY <1>3, <1>5, <1>8
<1> QED
  BY <1>9, <1>10, <1>11 DEF x, q, S

LEMMA StoredFromNone ==
  ASSUME NEW f
  PROVE  StoredFrom(<< >>, f) = << >>
<1> DEFINE none == << >>
<1>1. none \in Seq(Documents) /\ none \o none = none
  OBVIOUS
<1>2. Takes(FromLeaf(f), Documents, Seq(StoresOf(f)))
  BY FromLeafTaken
<1>3. Leaves(none) = << >>
  <2> DEFINE leaves == Leaves(none)
  <2>1. leaves \in Seq(Documents)
    BY <1>1, LeavesLists
  <2>2. leaves = leaves \o leaves
    <3> HIDE DEF none
    <3> QED
      BY <1>1, LeavesLists
  <2> HIDE DEF leaves
  <2>3. leaves = << >>
    BY <2>1, <2>2, ConcatEqualIffEmpty
  <2> QED
    BY <2>3 DEF leaves
<1>4. Mapped(FromLeaf(f), << >>) = << >>
  BY <1>2, MappedLists
<1>5. StoredFrom(none, f) = Mapped(FromLeaf(f), Leaves(none))
  BY <1>1, StoredFromIs
<1> QED
  BY <1>3, <1>4, <1>5

-----------------------------------------------------------------------------
(* What all the files together contribute, one more at a time.             *)

IsListing(s) == s \in Seq(ToSet(s))

LEMMA ListingsAre ==
  /\ \A S : \A s \in Seq(S) : IsListing(s) /\ ToSet(s) \subseteq S
  /\ IsListing(<< >>)
<1>1. ASSUME NEW S, NEW s \in Seq(S) PROVE IsListing(s) /\ ToSet(s) \subseteq S
  <2>1. /\ DOMAIN s = 1 .. Len(s) /\ Len(s) \in Nat /\ \A n \in 1 .. Len(s) : s[n] \in S
        /\ s = [n \in 1 .. Len(s) |-> s[n]]
    OBVIOUS
  <2> DEFINE T == ToSet(s)
  <2>2. \A n \in 1 .. Len(s) : s[n] \in T
    BY <2>1 DEF ToSet
  <2>3. T \subseteq S
    BY <2>1 DEF ToSet
  <2> HIDE DEF T
  <2>4. s \in Seq(T)
    BY <2>1, <2>2
  <2> QED
    BY <2>3, <2>4 DEF IsListing, T
<1>2. << >> \in Seq({})
  OBVIOUS
<1> QED
  BY <1>1, <1>2

StoredOfAll(fs) == FlattenSeq([n \in DOMAIN fs |-> StoredOf(fs[n])])

\* The number of documents does not grow when the file is split.
LEMMA SplitDocs ==
  ASSUME NEW ds \in Seq(Documents)
  PROVE  splitYAMLDocs(ds) \in Seq(Documents)
BY SublistKeeps DEF splitYAMLDocs

LEMMA StoredOfIs ==
  ASSUME NEW f, IsFile(f)
  PROVE  StoredOf(f) \in Seq(StoresOf(f))
<1> DEFINE ds == splitYAMLDocs(f.docs)
           S  == StoresOf(f)
<1>1. ds \in Seq(Documents)
  BY SplitDocs DEF IsFile
<1>2. << >> \in Seq(S)
  OBVIOUS
<1> HIDE DEF ds, S
<1>3. StoredFrom(ds, f) \in Seq(S)
  BY <1>1, <1>2, StoredFromHead, StoredFromNone DEF S
<1>4. StoredOf(f) = IF IsTaken(f) THEN StoredFrom(ds, f) ELSE << >>
  BY DEF StoredOf, ds
<1> QED
  BY <1>2, <1>3, <1>4 DEF S

LEMMA StoredOfNext ==
  ASSUME NEW fs, IsListing(fs), \A n \in DOMAIN fs : IsFile(fs[n]), NEW f, IsFile(f)
  PROVE  /\ IsListing(StoredOfAll(fs))
         /\ StoredOfAll(Append(fs, f)) = StoredOfAll(fs) \o StoredOf(f)
<1> DEFINE T == ToSet(fs) \cup {f}
           S == UNION {StoresOf(x) : x \in T}
           g == [x \in T |-> StoredOf(x)]
           Q == Seq(S)
<1>1. fs \in Seq(T) /\ f \in T
  BY DEF IsListing
<1>2. \A x \in T : IsFile(x)
  BY DEF ToSet
<1>3. \A x \in T : StoresOf(x) \subseteq S
  OBVIOUS
<1>4. ASSUME NEW x \in T PROVE StoredOf(x) \in Q
  <2> DEFINE R == StoresOf(x)
  <2>1. StoredOf(x) \in Seq(R)
    BY <1>2, StoredOfIs
  <2>2. R \subseteq S
    BY <1>3
  <2> HIDE DEF S, R, T
  <2> QED
    BY <2>1, <2>2
<1> HIDE DEF T, S
<1>5. Takes(g, T, Seq(S))
  <2> HIDE DEF Q
  <2>1. g \in [T -> Q]
    BY <1>4
  <2> QED
    BY <2>1 DEF Takes, Q
<1>6. ASSUME NEW s \in Seq(T) PROVE StoredOfAll(s) = Mapped(g, s)
  <2>1. \A n \in DOMAIN s : s[n] \in T
    OBVIOUS
  <2>2. EachOf(g, s) = [n \in DOMAIN s |-> StoredOf(s[n])]
    BY <2>1 DEF EachOf
  <2> QED
    BY <2>2 DEF StoredOfAll, Mapped
<1>7. Append(fs, f) \in Seq(T)
  BY <1>1
<1>8. Mapped(g, Append(fs, f)) = Mapped(g, fs) \o g[f]
  <2> HIDE DEF g
  <2> QED
    BY <1>1, <1>5, MappedEnds
<1>9. Mapped(g, fs) \in Seq(S)
  <2> HIDE DEF g
  <2> QED
    BY <1>1, <1>5, MappedLists
<1>10. StoredOfAll(Append(fs, f)) = StoredOfAll(fs) \o StoredOf(f)
  BY <1>1, <1>6, <1>7, <1>8
<1>11. StoredOfAll(fs) \in Seq(S)
  BY <1>1, <1>6, <1>9
<1> QED
  BY <1>10, <1>11, ListingsAre

\* The bindings of a list, and of the list with one more.
LEMMA BindingsNext ==
  ASSUME NEW S, NEW all \in Seq(S), NEW x \in S
  PROVE  /\ BindingsAmong(all) \in Seq(S)
         /\ \A n \in DOMAIN BindingsAmong(all) : IsBinding(BindingsAmong(all)[n])
         /\ BindingsAmong(Append(all, x)) =
              IF IsBinding(x) THEN Append(BindingsAmong(all), x) ELSE BindingsAmong(all)
<1> DEFINE g == [y \in S |-> IF IsBinding(y) THEN <<y>> ELSE << >>]
           Q == Seq(S)
<1>1. \A y \in S : (IF IsBinding(y) THEN <<y>> ELSE << >>) \in Q
  OBVIOUS
<1>2. Takes(g, S, Seq(S))
  <2> HIDE DEF Q
  <2>1. g \in [S -> Q]
    BY <1>1
  <2> QED
    BY <2>1 DEF Takes, Q
<1>3. ASSUME NEW s \in Seq(S) PROVE BindingsAmong(s) = Mapped(g, s)
  <2>1. \A n \in DOMAIN s : s[n] \in S
    OBVIOUS
  <2>2. EachOf(g, s) = [n \in DOMAIN s |-> IF IsBinding(s[n]) THEN <<s[n]>> ELSE << >>]
    BY <2>1 DEF EachOf
  <2> QED
    BY <2>2 DEF BindingsAmong, Mapped
<1>4. \A y \in S : \A m \in DOMAIN g[y] : IsBinding(g[y][m])
  OBVIOUS
<1>5. g[x] = IF IsBinding(x) THEN <<x>> ELSE << >>
  OBVIOUS
<1>6. Append(all, x) \in Seq(S) /\ \A n \in DOMAIN all : all[n] \in S
  OBVIOUS
<1> HIDE DEF g
<1> DEFINE b == BindingsAmong(all)
<1>7. b \in Seq(S) /\ \A i \in DOMAIN b : \E n \in DOMAIN all : \E m \in DOMAIN g[all[n]] :
        b[i] = g[all[n]][m]
  <2>1. /\ Mapped(g, all) \in Seq(S)
        /\ \A i \in DOMAIN Mapped(g, all) : \E n \in DOMAIN all : \E m \in DOMAIN g[all[n]] :
             Mapped(g, all)[i] = g[all[n]][m]
    BY <1>2, MappedLists
  <2> QED
    BY <1>3, <2>1
<1>8. BindingsAmong(Append(all, x)) = b \o g[x]
  <2>1. Mapped(g, Append(all, x)) = Mapped(g, all) \o g[x]
    BY <1>2, MappedEnds
  <2> DEFINE w == Append(all, x)
  <2>2. w \in Seq(S)
    BY <1>6
  <2> HIDE DEF w
  <2>3. BindingsAmong(w) = Mapped(g, w) /\ b = Mapped(g, all)
    BY <1>3, <2>2
  <2> QED
    BY <2>1, <2>3 DEF w
<1> HIDE DEF b
<1>9. \A i \in DOMAIN b : IsBinding(b[i])
  BY <1>4, <1>6, <1>7
<1>10. b \o <<x>> = Append(b, x) /\ b \o << >> = b
  BY <1>7
<1> QED
  BY <1>5, <1>7, <1>8, <1>9, <1>10 DEF b

\* The last objects under their keys, and of the list with one more.
LEMMA LastNext ==
  ASSUME NEW S, NEW all \in Seq(S), NEW x \in S
  PROVE  LastAmong(Append(all, x)) =
           IF IsBinding(x) THEN LastAmong(all)
           ELSE {o \in LastAmong(all) : o.key # x.key} \cup {x}
<1> DEFINE N == Len(all)
           w == Append(all, x)
           IsLast(s, m) == ~IsBinding(s[m]) /\ \A k \in m + 1 .. Len(s) : s[k].key # s[m].key
<1>1. /\ N \in Nat /\ Len(w) = N + 1 /\ DOMAIN all = 1 .. N /\ DOMAIN w = 1 .. N + 1
      /\ w[N + 1] = x /\ \A n \in 1 .. N : w[n] = all[n]
  OBVIOUS
<1> HIDE DEF w
<1>2. \A o : o \in LastAmong(all) <=> \E m \in 1 .. N : IsLast(all, m) /\ o = all[m]
  BY <1>1 DEF LastAmong
<1>3. \A o : o \in LastAmong(w) <=> \E m \in 1 .. N + 1 : IsLast(w, m) /\ o = w[m]
  BY <1>1 DEF LastAmong
<1>4. IsLast(w, N + 1) <=> ~IsBinding(x)
  BY <1>1
<1>5. \A m \in 1 .. N : IsLast(w, m) <=> IsLast(all, m) /\ x.key # all[m].key
  <2> SUFFICES ASSUME NEW m \in 1 .. N
               PROVE  IsLast(w, m) <=> IsLast(all, m) /\ x.key # all[m].key
    OBVIOUS
  <2>1. \A k : k \in m + 1 .. N + 1 <=> k \in m + 1 .. N \/ k = N + 1
    BY <1>1
  <2>2. \A k \in m + 1 .. N : w[k] = all[k]
    BY <1>1
  <2>3. w[m] = all[m] /\ Len(w) = N + 1 /\ w[N + 1] = x
    BY <1>1
  <2> QED
    BY <2>1, <2>2, <2>3
<1>6. \A m \in 1 .. N : IsLast(all, m) /\ IsBinding(x) => x.key # all[m].key
  BY DEF IsBinding
<1>7. \A n : n \in 1 .. N + 1 <=> n \in 1 .. N \/ n = N + 1
  BY <1>1
<1> HIDE DEF IsLast, N
<1>8. \A o : o \in LastAmong(w) <=>
        \/ \E m \in 1 .. N : IsLast(all, m) /\ x.key # all[m].key /\ o = all[m]
        \/ ~IsBinding(x) /\ o = x
  BY <1>1, <1>3, <1>4, <1>5, <1>7
<1>9. CASE IsBinding(x)
  <2>1. \A o : o \in LastAmong(w) <=> o \in LastAmong(all)
    BY <1>2, <1>6, <1>8, <1>9
  <2>2. LastAmong(w) = LastAmong(all)
    BY <2>1 DEF LastAmong
  <2> QED
    BY <1>9, <2>2 DEF w
<1>10. CASE ~IsBinding(x)
  <2> DEFINE A == LastAmong(all)
             B == LastAmong(w)
  <2>1. \A o : o \in B <=> (o \in A /\ o.key # x.key) \/ o = x
    BY <1>2, <1>8, <1>10
  <2> HIDE DEF A, B
  <2>2. B = {o \in A : o.key # x.key} \cup {x}
    BY <2>1
  <2> QED
    BY <1>10, <2>2 DEF A, B, w
<1> QED
  BY <1>9, <1>10

LEMMA NoneAmong ==
  /\ BindingsAmong(<< >>) = << >> /\ LastAmong(<< >>) = {}
  /\ StoredOfAll(<< >>) = << >>
<1>1. FlattenSeq(<< >>) = << >>
  BY DEF FlattenSeq
<1> QED
  BY <1>1 DEF BindingsAmong, LastAmong, StoredOfAll

-----------------------------------------------------------------------------
(* The files of the tree, as the calls and the walk come to them.          *)

\* What is left of a list behind its first k elements.
LEMMA RestSteps ==
  ASSUME NEW T, NEW s \in Seq(T), NEW k \in 0 .. Len(s), NEW q, q = SubSeq(s, k + 1, Len(s))
  PROVE  /\ q \in Seq(T) /\ Len(q) = Len(s) - k
         /\ q # << >> => /\ k + 1 \in 1 .. Len(s) /\ Head(q) = s[k + 1]
                         /\ Tail(q) = SubSeq(s, (k + 1) + 1, Len(s))
<1> DEFINE N == Len(s)
<1>1. N \in Nat /\ k \in Nat /\ k <= N /\ \A n \in 1 .. N : s[n] \in T
  OBVIOUS
<1>2. q = [i \in 1 .. N - k |-> s[k + i]] /\ Len(q) = N - k /\ q \in Seq(T)
  OBVIOUS
<1>3. ASSUME q # << >>
      PROVE  /\ k + 1 \in 1 .. N /\ Head(q) = s[k + 1]
             /\ Tail(q) = SubSeq(s, (k + 1) + 1, N)
  <2>1. k + 1 \in 1 .. N
    BY <1>1, <1>2, <1>3
  <2>2. Head(q) = s[k + 1]
    BY <1>1, <1>2, <2>1
  <2>3. Tail(q) = [i \in 1 .. N - (k + 1) |-> s[(k + 1) + i]]
    BY <1>1, <1>2, <1>3, <2>1
  <2>4. SubSeq(s, (k + 1) + 1, N) = [i \in 1 .. N - (k + 1) |-> s[(k + 1) + i]]
    BY <1>1, <2>1
  <2> QED
    BY <2>1, <2>2, <2>3, <2>4
<1> QED
  BY <1>2, <1>3

SightOf(e) == [file |-> e.file, by |-> "dir"]

LEMMA AmongSteps ==
  ASSUME NEW T, NEW es \in Seq(T)
  PROVE  /\ IsListing(FoundAmong(es))
         /\ es # << >> =>
              FoundAmong(es) =
                (IF Counts(Head(es)) THEN <<SightOf(Head(es))>> ELSE << >>) \o FoundAmong(Tail(es))
<1> DEFINE S == {SightOf(e) : e \in T}
           Q == Seq(S)
           g == [e \in T |-> IF Counts(e) THEN <<SightOf(e)>> ELSE << >>]
<1>1. ASSUME NEW e \in T PROVE (IF Counts(e) THEN <<SightOf(e)>> ELSE << >>) \in Q
  <2> DEFINE x == SightOf(e)
  <2>1. x \in S
    OBVIOUS
  <2> HIDE DEF x, S
  <2>2. <<x>> \in Seq(S) /\ << >> \in Seq(S)
    BY <2>1
  <2> QED
    BY <2>2 DEF x
<1> HIDE DEF S
<1>2. Takes(g, T, Seq(S))
  <2> HIDE DEF Q
  <2>1. g \in [T -> Q]
    BY <1>1
  <2> QED
    BY <2>1 DEF Takes, Q
<1>3. ASSUME NEW s \in Seq(T) PROVE FoundAmong(s) = Mapped(g, s)
  <2>1. \A n \in DOMAIN s : s[n] \in T
    OBVIOUS
  <2>2. EachOf(g, s) =
          [n \in DOMAIN s |-> IF Counts(s[n]) THEN <<[file |-> s[n].file, by |-> "dir"]>> ELSE << >>]
    BY <2>1 DEF EachOf, SightOf
  <2> QED
    BY <2>2 DEF FoundAmong, Mapped
<1>4. \A e \in T : g[e] = IF Counts(e) THEN <<SightOf(e)>> ELSE << >>
  OBVIOUS
<1> HIDE DEF g
<1>5. Mapped(g, es) \in Seq(S)
  BY <1>2, MappedLists
<1>6. IsListing(FoundAmong(es))
  BY <1>3, <1>5, ListingsAre
<1>7. ASSUME es # << >>
      PROVE  FoundAmong(es) =
               (IF Counts(Head(es)) THEN <<SightOf(Head(es))>> ELSE << >>) \o FoundAmong(Tail(es))
  <2> DEFINE x == Head(es)
             q == Tail(es)
  <2>1. x \in T /\ q \in Seq(T)
    BY <1>7
  <2>2. Mapped(g, es) = g[x] \o Mapped(g, q)
    BY <1>2, <1>7, MappedEnds
  <2> HIDE DEF x, q
  <2>3. FoundAmong(es) = (IF Counts(x) THEN <<SightOf(x)>> ELSE << >>) \o FoundAmong(q)
    BY <1>3, <1>4, <2>1, <2>2
  <2> QED
    BY <2>3 DEF x, q
<1> QED
  BY <1>6, <1>7

AreArguments(T) == \A arg \in T : IsArgument(arg)

LEMMA UnderSteps ==
  ASSUME NEW T, AreArguments(T), NEW rest \in Seq(T)
  PROVE  /\ IsListing(FoundUnder(rest))
         /\ \A arg \in T : IsListing(FoundIn(arg))
         /\ rest # << >> => FoundUnder(rest) = FoundIn(Head(rest)) \o FoundUnder(Tail(rest))
<1> DEFINE S == UNION {ToSet(FoundIn(arg)) : arg \in T}
           Q == Seq(S)
           g == [arg \in T |-> FoundIn(arg)]
<1>1. ASSUME NEW arg \in T PROVE IsListing(FoundIn(arg))
  <2>1. CASE arg.type = "file"
    <3> DEFINE x == [file |-> arg.file, by |-> "file"]
    <3>1. FoundIn(arg) = <<x>>
      BY <2>1 DEF FoundIn
    <3> HIDE DEF x
    <3>2. <<x>> \in Seq({x})
      OBVIOUS
    <3> QED
      BY <3>1, <3>2, ListingsAre
  <2>2. CASE arg.type = "dir"
    <3>1. FoundIn(arg) = FoundAmong(arg.entries)
      BY <2>2 DEF FoundIn
    <3>2. arg.entries \in Seq(ToSet(arg.entries))
      BY <2>2 DEF AreArguments, IsArgument, IsWalk
    <3> QED
      BY <3>1, <3>2, AmongSteps
  <2>3. CASE arg.type # "file" /\ arg.type # "dir"
    <3>1. FoundIn(arg) = << >>
      BY <2>3 DEF FoundIn
    <3> QED
      BY <3>1, ListingsAre
  <2> QED
    BY <2>1, <2>2, <2>3
<1>2. ASSUME NEW arg \in T PROVE FoundIn(arg) \in Q
  <2> DEFINE R == ToSet(FoundIn(arg))
  <2>1. FoundIn(arg) \in Seq(R)
    BY <1>1 DEF IsListing
  <2>2. R \subseteq S
    OBVIOUS
  <2> HIDE DEF R, S
  <2> QED
    BY <2>1, <2>2
<1> HIDE DEF S
<1>3. Takes(g, T, Seq(S))
  <2> HIDE DEF Q
  <2>1. g \in [T -> Q]
    BY <1>2
  <2> QED
    BY <2>1 DEF Takes, Q
<1>4. ASSUME NEW s \in Seq(T) PROVE FoundUnder(s) = Mapped(g, s)
  <2>1. \A n \in DOMAIN s : s[n] \in T
    OBVIOUS
  <2>2. EachOf(g, s) = [n \in DOMAIN s |-> FoundIn(s[n])]
    BY <2>1 DEF EachOf
  <2> QED
    BY <2>2 DEF FoundUnder, Mapped
<1>5. \A arg \in T : g[arg] = FoundIn(arg)
  OBVIOUS
<1> HIDE DEF g
<1>6. Mapped(g, rest) \in Seq(S)
  BY <1>3, MappedLists
<1>7. IsListing(FoundUnder(rest))
  BY <1>4, <1>6, ListingsAre
<1>8. rest # << >> => Mapped(g, rest) = g[Head(rest)] \o Mapped(g, Tail(rest))
  BY <1>3, MappedEnds
<1>9. rest # << >> => Head(rest) \in T /\ Tail(rest) \in Seq(T)
  OBVIOUS
<1>10. rest # << >> => FoundUnder(rest) = FoundIn(Head(rest)) \o FoundUnder(Tail(rest))
  BY <1>4, <1>5, <1>8, <1>9
<1> QED
  BY <1>1, <1>7, <1>10

LEMMA NoneFound == FoundAmong(<< >>) = << >> /\ FoundUnder(<< >>) = << >>
<1>1. FlattenSeq(<< >>) = << >>
  BY DEF FlattenSeq
<1> QED
  BY <1>1 DEF FoundAmong, FoundUnder

-----------------------------------------------------------------------------
(* The excluded directories.                                               *)

LEMMA StrictPrefixes ==
  ASSUME NEW A, NEW p \in Seq(A), NEW B, NEW q \in Seq(B)
  PROVE  IsStrictPrefix(p, q) <=> Len(p) < Len(q) /\ \A n \in 1 .. Len(p) : p[n] = q[n]
<1>1. /\ Len(p) \in Nat /\ Len(q) \in Nat
      /\ SubSeq(p, 1, Len(p)) = [n \in 1 .. Len(p) |-> p[n]]
      /\ p = [n \in 1 .. Len(p) |-> p[n]] /\ q = [n \in 1 .. Len(q) |-> q[n]]
  OBVIOUS
<1>2. ASSUME Len(p) <= Len(q)
      PROVE  SubSeq(q, 1, Len(p)) = [n \in 1 .. Len(p) |-> q[n]]
  BY <1>1, <1>2
<1>3. ASSUME IsStrictPrefix(p, q)
      PROVE  Len(p) < Len(q) /\ \A n \in 1 .. Len(p) : p[n] = q[n]
  <2>1. Len(p) <= Len(q) /\ SubSeq(p, 1, Len(p)) = SubSeq(q, 1, Len(p)) /\ p # q
    BY <1>3 DEF IsStrictPrefix, IsPrefix
  <2>2. [n \in 1 .. Len(p) |-> p[n]] = [n \in 1 .. Len(p) |-> q[n]]
    BY <1>1, <1>2, <2>1
  <2>3. \A n \in 1 .. Len(p) : p[n] = q[n]
    BY <2>2
  <2>4. Len(p) # Len(q)
    BY <1>1, <2>1, <2>2
  <2>5. Len(p) \in Nat /\ Len(q) \in Nat
    OBVIOUS
  <2>6. Len(p) < Len(q)
    BY <2>1, <2>4, <2>5
  <2> QED
    BY <2>3, <2>6
<1>4. ASSUME Len(p) < Len(q), \A n \in 1 .. Len(p) : p[n] = q[n]
      PROVE  IsStrictPrefix(p, q)
  <2>1. SubSeq(p, 1, Len(p)) = SubSeq(q, 1, Len(p))
    BY <1>1, <1>2, <1>4
  <2>2. p # q /\ Len(p) <= Len(q)
    BY <1>1, <1>4
  <2> QED
    BY <2>1, <2>2 DEF IsStrictPrefix, IsPrefix
<1> QED
  BY <1>3, <1>4

\* What the walk keeps of the directories it has passed: an excluded one was
\* pruned, or is itself below one that was.
Marked(es, k) ==
  \A j \in 1 .. k : ToPrune(es[j]) => es[j].path \in pruned \/ IsPruned(es[j])

PrunedAre == \A dir \in pruned : IsListing(dir) /\ dir # << >> /\ dir[Len(dir)] \in Excluded

\* So the walk takes the files that count.
LEMMA TakesWhatCounts ==
  ASSUME NEW es, IsWalk(es), NEW k \in 1 .. Len(es), Marked(es, k - 1), PrunedAre
  PROVE  Counts(es[k]) <=> ToProcess(es[k]) /\ ~IsPruned(es[k])
<1> DEFINE e    == es[k]
           path == e.path
<1>1. k \in DOMAIN es /\ DOMAIN es = 1 .. Len(es) /\ Len(es) \in Nat
  BY DEF IsWalk
<1>2. IsListing(path)
  BY <1>1 DEF IsWalk, IsListing
<1>3. \A n \in 1 .. Len(path) - 1 : \E m \in 1 .. k - 1 :
        es[m].type = "dir" /\ es[m].path = SubSeq(path, 1, n)
  BY <1>1 DEF IsWalk
<1>4. \A m \in 1 .. k - 1 :
        /\ IsListing(es[m].path)
        /\ es[m].type = "dir" /\ es[m].path # << >> => es[m].name = es[m].path[Len(es[m].path)]
  <2>1. \A m \in 1 .. k - 1 : m \in DOMAIN es
    BY <1>1
  <2> QED
    BY <2>1 DEF IsWalk, IsListing
<1>5. ASSUME Counts(e) PROVE ToProcess(e) /\ ~IsPruned(e)
  <2>1. \A n \in 1 .. Len(path) - 1 : path[n] \notin Excluded
    BY <1>5 DEF Counts
  <2>2. ASSUME NEW dir \in pruned, IsStrictPrefix(dir, path) PROVE FALSE
    <3>1. dir \in Seq(ToSet(dir)) /\ path \in Seq(ToSet(path)) /\ dir # << >> /\ dir[Len(dir)] \in Excluded
      BY <1>2, <2>2 DEF PrunedAre, IsListing
    <3> HIDE DEF path
    <3>2. Len(dir) < Len(path) /\ \A n \in 1 .. Len(dir) : dir[n] = path[n]
      BY <2>2, <3>1, StrictPrefixes
    <3>3. Len(dir) \in 1 .. Len(dir) /\ Len(dir) \in 1 .. Len(path) - 1
      BY <3>1, <3>2
    <3> QED
      BY <2>1, <3>1, <3>2, <3>3
  <2> QED
    BY <1>5, <2>2 DEF Counts, ToProcess, IsPruned
<1>6. ASSUME ToProcess(e), ~IsPruned(e) PROVE Counts(e)
  <2>1. ASSUME NEW n \in 1 .. Len(path) - 1, path[n] \in Excluded PROVE FALSE
    <3>1. PICK m \in 1 .. k - 1 : es[m].type = "dir" /\ es[m].path = SubSeq(path, 1, n)
      BY <1>3
    <3> DEFINE above == es[m].path
    <3>2. path \in Seq(ToSet(path)) /\ above \in Seq(ToSet(above))
      BY <1>2, <1>4 DEF IsListing
    <3>3. Len(above) = n /\ n < Len(path) /\ \A i \in 1 .. n : above[i] = path[i]
      <4> HIDE DEF path
      <4> QED
        BY <3>1, <3>2
    <3>4. above # << >> /\ above[n] \in Excluded
      BY <2>1, <3>2, <3>3
    <3>5. ToPrune(es[m])
      BY <1>4, <3>1, <3>3, <3>4 DEF ToPrune
    <3>6. above \in pruned \/ IsPruned(es[m])
      BY <3>5 DEF Marked
    <3> HIDE DEF above, path
    <3>7. IsStrictPrefix(above, path)
      BY <3>2, <3>3, StrictPrefixes
    <3>8. CASE above \in pruned
      BY <1>6, <3>7, <3>8 DEF IsPruned, path
    <3>9. CASE IsPruned(es[m])
      <4>1. PICK dir \in pruned : IsStrictPrefix(dir, above)
        BY <3>9 DEF IsPruned, above
      <4>2. dir \in Seq(ToSet(dir))
        BY DEF PrunedAre, IsListing
      <4>3. Len(dir) < Len(above) /\ \A i \in 1 .. Len(dir) : dir[i] = above[i]
        BY <3>2, <4>1, <4>2, StrictPrefixes
      <4>4. Len(dir) < Len(path) /\ \A i \in 1 .. Len(dir) : dir[i] = path[i]
        BY <3>2, <3>3, <4>2, <4>3
      <4>5. IsStrictPrefix(dir, path)
        BY <3>2, <4>2, <4>4, StrictPrefixes
      <4> QED
        BY <1>6, <4>5 DEF IsPruned, path
    <3> QED
      BY <3>6, <3>8, <3>9
  <2> QED
    BY <1>6, <2>1 DEF Counts, ToProcess
<1> QED
  BY <1>5, <1>6

-----------------------------------------------------------------------------
(* Where the call is.                                                      *)

Handling == pc \in {"file", "read", "docs"}

Behind(s, k) == SubSeq(s, k + 1, Len(s))

PathsLeft ==
  \E k \in 0 .. Len(args) :
    paths = Behind(args, k) /\ \A n \in 1 .. k : args[n].type # "missing"

CallInv ==
  /\ args \in Inputs
  /\ pc \in PC
  /\ back \in {"paths", "walk"}
  /\ PathsLeft
  /\ pc = "error" => paths # << >> /\ Head(paths).type = "missing"
  /\ pc = "loaded" => paths = << >>
  /\ Handling => IsFile(file)
  /\ pc \in {"read", "docs"} => file.readable /\ file.size <= MaxFileSize
  /\ docs \in Seq(Documents)
  /\ pc # "walk" /\ ~(Handling /\ back = "walk") => entries = << >>
  /\ IsListing(opened)
  /\ \A n \in DOMAIN opened : IsFile(opened[n])

WalkInv ==
  /\ PrunedAre
  /\ \E es : /\ IsWalk(es)
             /\ \E k \in 0 .. Len(es) : entries = Behind(es, k) /\ Marked(es, k)

\* The arguments of the call.
LEMMA ArgumentsAre ==
  ASSUME args \in Inputs
  PROVE  args \in Seq(ToSet(args)) /\ AreArguments(ToSet(args))
BY TreesAssumption DEF AreArguments

\* The next path.
LEMMA PathSteps ==
  ASSUME args \in Inputs, PathsLeft
  PROVE  /\ paths \in Seq(ToSet(args))
         /\ paths # << >> =>
              /\ IsArgument(Head(paths))
              /\ Head(paths).type # "missing" =>
                   \E k \in 0 .. Len(args) :
                     Tail(paths) = Behind(args, k) /\ \A n \in 1 .. k : args[n].type # "missing"
<1> DEFINE T == ToSet(args)
<1>1. args \in Seq(T) /\ AreArguments(T)
  BY ArgumentsAre
<1>2. PICK k \in 0 .. Len(args) :
        paths = Behind(args, k) /\ \A n \in 1 .. k : args[n].type # "missing"
  BY DEF PathsLeft
<1> HIDE DEF T
<1>3. /\ paths \in Seq(T)
      /\ paths # << >> => /\ k + 1 \in 1 .. Len(args) /\ Head(paths) = args[k + 1]
                          /\ Tail(paths) = Behind(args, k + 1)
  BY <1>1, <1>2, RestSteps DEF Behind
<1>4. ASSUME paths # << >>
      PROVE  /\ IsArgument(Head(paths))
             /\ Head(paths).type # "missing" =>
                  \E j \in 0 .. Len(args) :
                    Tail(paths) = Behind(args, j) /\ \A n \in 1 .. j : args[n].type # "missing"
  <2>1. k + 1 \in 1 .. Len(args) /\ Head(paths) = args[k + 1] /\ Tail(paths) = Behind(args, k + 1)
    BY <1>3, <1>4
  <2>2. args[k + 1] \in T
    BY <1>1, <2>1
  <2>3. IsArgument(Head(paths))
    BY <1>1, <2>1, <2>2 DEF AreArguments
  <2>4. ASSUME Head(paths).type # "missing"
        PROVE  \A n \in 1 .. k + 1 : args[n].type # "missing"
    <3>1. \A n \in 1 .. k + 1 : n \in 1 .. k \/ n = k + 1
      BY <1>2
    <3> QED
      BY <1>2, <2>1, <2>4, <3>1
  <2>5. k + 1 \in 0 .. Len(args)
    BY <2>1
  <2> QED
    BY <2>1, <2>3, <2>4, <2>5
<1> QED
  BY <1>3, <1>4 DEF T

\* The next entry of the walk.
LEMMA EntrySteps ==
  ASSUME WalkInv, entries # << >>
  PROVE  /\ \E T : entries \in Seq(T)
         /\ entry.type = "file" => IsFile(entry.file)
         /\ Counts(entry) <=> ToProcess(entry) /\ ~IsPruned(entry)
         /\ ToPrune(entry) => /\ IsListing(entry.path) /\ entry.path # << >>
                              /\ entry.path[Len(entry.path)] \in Excluded
         /\ \E es : /\ IsWalk(es)
                    /\ \E k \in 1 .. Len(es) :
                         entry = es[k] /\ Tail(entries) = Behind(es, k) /\ Marked(es, k - 1)
<1>1. PICK es : IsWalk(es) /\ \E k \in 0 .. Len(es) : entries = Behind(es, k) /\ Marked(es, k)
  BY DEF WalkInv
<1>2. PICK k \in 0 .. Len(es) : entries = Behind(es, k) /\ Marked(es, k)
  BY <1>1
<1> DEFINE T == ToSet(es)
<1>3. es \in Seq(T) /\ DOMAIN es = 1 .. Len(es) /\ Len(es) \in Nat
  BY <1>1 DEF IsWalk
<1> HIDE DEF T
<1>4. /\ entries \in Seq(T) /\ k + 1 \in 1 .. Len(es) /\ entry = es[k + 1]
      /\ Tail(entries) = Behind(es, k + 1)
  BY <1>2, <1>3, RestSteps DEF Behind, entry
<1>5. PICK m \in 1 .. Len(es) : m = k + 1 /\ m - 1 = k
  BY <1>2, <1>3, <1>4
<1>6. Marked(es, m - 1) /\ entry = es[m] /\ Tail(entries) = Behind(es, m) /\ m \in DOMAIN es
  BY <1>2, <1>3, <1>4, <1>5
<1>7. PrunedAre
  BY DEF WalkInv
<1>8. Counts(entry) <=> ToProcess(entry) /\ ~IsPruned(entry)
  BY <1>1, <1>6, <1>7, TakesWhatCounts
<1>9. entry.type = "file" => IsFile(entry.file)
  BY <1>1, <1>6 DEF IsWalk
<1>10. ToPrune(entry) => /\ IsListing(entry.path) /\ entry.path # << >>
                         /\ entry.path[Len(entry.path)] \in Excluded
  <2>1. /\ IsListing(entry.path)
        /\ entry.type = "dir" /\ entry.path # << >> => entry.name = entry.path[Len(entry.path)]
    BY <1>1, <1>6 DEF IsWalk, IsListing
  <2> QED
    BY <2>1 DEF ToPrune
<1> QED
  BY <1>1, <1>4, <1>6, <1>8, <1>9, <1>10

LEMMA WalkStep ==
  ASSUME CallInv, WalkInv, [Next]_vars
  PROVE  WalkInv'
<1>1. CASE PathIsDir
  <2>1. PICK es : IsWalk(es) /\ entries' = es /\ pruned' = {}
    BY <1>1, PathSteps DEF PathIsDir, AtPath, CallInv, IsArgument
  <2>2. 0 \in 0 .. Len(es) /\ Behind(es, 0) = es
    BY <2>1 DEF IsWalk, Behind
  <2>3. Marked(es, 0)'
    BY DEF Marked
  <2>4. PrunedAre'
    BY <2>1 DEF PrunedAre
  <2> QED
    BY <2>1, <2>2, <2>3, <2>4 DEF WalkInv
<1>2. ASSUME entries # << >>, entries' = Tail(entries),
             \/ pruned' = pruned /\ (ToPrune(entry) => IsPruned(entry))
             \/ pruned' = pruned \cup {entry.path} /\ ToPrune(entry)
      PROVE  WalkInv'
  <2>1. PICK es : /\ IsWalk(es)
                  /\ \E k \in 1 .. Len(es) :
                       entry = es[k] /\ Tail(entries) = Behind(es, k) /\ Marked(es, k - 1)
    BY <1>2, EntrySteps
  <2>2. PICK k \in 1 .. Len(es) :
          entry = es[k] /\ Tail(entries) = Behind(es, k) /\ Marked(es, k - 1)
    BY <2>1
  <2>3. k \in 0 .. Len(es)
    OBVIOUS
  <2>4. \A j \in 1 .. k : j \in 1 .. k - 1 \/ j = k
    BY <2>2
  <2>5. pruned \subseteq pruned'
    BY <1>2
  <2>6. ASSUME NEW j \in 1 .. k, ToPrune(es[j])
        PROVE  es[j].path \in pruned' \/ \E dir \in pruned' : IsStrictPrefix(dir, es[j].path)
    <3>1. CASE j \in 1 .. k - 1
      BY <2>2, <2>5, <2>6, <3>1 DEF Marked, IsPruned
    <3>2. CASE j = k
      BY <1>2, <2>2, <2>5, <2>6, <3>2 DEF IsPruned
    <3> QED
      BY <2>4, <3>1, <3>2
  <2>7. Marked(es, k)'
    BY <2>6 DEF Marked, ToPrune, IsPruned
  <2>8. PrunedAre'
    BY <1>2, EntrySteps DEF PrunedAre, WalkInv
  <2> QED
    BY <1>2, <2>1, <2>2, <2>3, <2>7, <2>8 DEF WalkInv
<1>3. ASSUME UNCHANGED <<entries, pruned>> PROVE WalkInv'
  BY <1>3 DEF WalkInv, PrunedAre, Marked, IsPruned, ToPrune
<1>4. CASE PruneDir
  BY <1>2, <1>4 DEF PruneDir
<1>5. CASE TakeFile
  BY <1>2, <1>5 DEF TakeFile, ToProcess, ToPrune
<1>6. CASE PassEntry
  BY <1>2, <1>6 DEF PassEntry
<1>7. CASE ~(PathIsDir \/ PruneDir \/ TakeFile \/ PassEntry)
  BY <1>3, <1>7 DEF Next, Load, vars, PathMissing, PathIsLink, PathIsFile, EndPaths, EndWalk,
       StatFile, GrowFile, RefuseFile, AcceptFile, SkipJunk, UnwrapList, IgnoreObject,
       AppendBinding, StoreObject, EndDocs
<1> QED
  BY <1>1, <1>4, <1>5, <1>6, <1>7

LEMMA CallStep ==
  ASSUME CallInv, WalkInv, [Next]_vars
  PROVE  CallInv'
<1> USE DEF PC, Handling
<1>1. CASE PathMissing
  BY <1>1 DEF PathMissing, AtPath, result, log, CallInv, PathsLeft
<1>2. ASSUME paths # << >>, Head(paths).type # "missing", paths' = Tail(paths), args' = args
      PROVE  PathsLeft'
  BY <1>2, PathSteps DEF CallInv, PathsLeft
<1>3. CASE PathIsLink
  BY <1>2, <1>3 DEF PathIsLink, AtPath, result, log, CallInv
<1>4. CASE PathIsDir
  BY <1>2, <1>4 DEF PathIsDir, AtPath, result, log, CallInv
<1>5. CASE PathIsFile
  <2>1. IsFile(Head(paths).file)
    BY <1>5, PathSteps DEF PathIsFile, AtPath, CallInv, IsArgument
  <2>2. IsFile(file')
    BY <1>5, <2>1 DEF PathIsFile
  <2>3. IsFile(file)'
    BY <2>2 DEF IsFile
  <2> QED
    BY <1>2, <1>5, <2>3 DEF PathIsFile, AtPath, result, log, CallInv
<1>6. CASE EndPaths
  BY <1>6 DEF EndPaths, result, log, CallInv, PathsLeft
<1>7. CASE PruneDir
  BY <1>7 DEF PruneDir, result, log, CallInv, PathsLeft
<1>8. CASE TakeFile
  <2>1. IsFile(entry.file)
    BY <1>8, EntrySteps DEF TakeFile, ToProcess
  <2>2. IsFile(file)'
    BY <1>8, <2>1 DEF TakeFile, IsFile
  <2> QED
    BY <1>8, <2>2 DEF TakeFile, result, log, CallInv, PathsLeft
<1>9. CASE PassEntry
  BY <1>9 DEF PassEntry, result, log, CallInv, PathsLeft
<1>10. CASE EndWalk
  BY <1>10 DEF EndWalk, result, log, CallInv, PathsLeft
<1>11. CASE StatFile
  <2>1. file.readable /\ file.size <= MaxFileSize
    <3>1. file.size \in Nat /\ ~(file.size > MaxFileSize) /\ file.readable
      BY <1>11 DEF StatFile, StatFails, CallInv, IsFile
    <3> QED
      BY <3>1, TreesAssumption
  <2> QED
    BY <1>11, <2>1 DEF StatFile, result, log, CallInv, PathsLeft
<1>12. CASE GrowFile
  <2>1. file' = [file EXCEPT !.docs = @ \o file.more, !.more = << >>] /\ IsFile(file)
    BY <1>12 DEF GrowFile, CallInv
  <2>2. /\ \E n, y, r, s, d, m :
             file = [name |-> n, yaml |-> y, readable |-> r, size |-> s, docs |-> d, more |-> m]
        /\ file.size \in Nat /\ file.docs \o file.more \in Seq(Documents)
    BY <2>1 DEF IsFile
  <2>3. PICK n, y, r, s, d, m :
          file = [name |-> n, yaml |-> y, readable |-> r, size |-> s, docs |-> d, more |-> m]
    BY <2>2
  <2>4. s \in Nat /\ d \o m \in Seq(Documents)
    BY <2>2, <2>3
  <2>5. file' = [name |-> n, yaml |-> y, readable |-> r, size |-> s, docs |-> d \o m,
                 more |-> << >>]
    BY <2>1, <2>3
  <2>6. IsFile(file)' /\ file'.readable = file.readable /\ file'.size = file.size
    BY <2>3, <2>4, <2>5 DEF IsFile
  <2> QED
    BY <1>12, <2>6 DEF GrowFile, result, log, CallInv, PathsLeft
<1>13. ASSUME opened' = Append(opened, file), IsFile(file)
       PROVE  IsListing(opened)' /\ \A n \in DOMAIN opened' : IsFile(opened'[n])
  <2>1. IsListing(opened) /\ \A n \in DOMAIN opened : IsFile(opened[n])
    BY DEF CallInv
  <2> DEFINE T == ToSet(opened) \cup {file}
             w == Append(opened, file)
  <2>2. w \in Seq(T)
    BY <2>1 DEF IsListing
  <2>3. \A n \in DOMAIN w : IsFile(w[n])
    <3>1. \A n \in DOMAIN w : (n \in DOMAIN opened /\ w[n] = opened[n]) \/ w[n] = file
      BY <2>1 DEF IsListing
    <3> QED
      BY <1>13, <2>1, <3>1
  <2> HIDE DEF T, w
  <2>4. IsListing(w)
    BY <2>2, ListingsAre
  <2>5. opened' = w
    BY <1>13 DEF w
  <2>6. IsListing(opened)'
    BY <2>4, <2>5 DEF IsListing, ToSet
  <2> QED
    BY <2>3, <2>5, <2>6
<1>14. ASSUME opened' = Append(opened, file), IsFile(file)
       PROVE  \A n \in DOMAIN opened' : IsFile(opened[n])'
  BY <1>13, <1>14 DEF IsFile
<1>15. CASE RefuseFile
  BY <1>13, <1>14, <1>15 DEF RefuseFile, result, log, CallInv, PathsLeft
<1>16. CASE AcceptFile
  <2>1. splitYAMLDocs(file.docs) \in Seq(Documents)
    BY <1>16, SplitDocs DEF AcceptFile, CallInv, IsFile
  <2> QED
    BY <1>13, <1>14, <1>16, <2>1 DEF AcceptFile, result, log, CallInv, PathsLeft
<1>17. ASSUME docs # << >>
       PROVE  /\ Tail(docs) \in Seq(Documents)
              /\ document.type = "list" => document.items \o Tail(docs) \in Seq(Documents)
  <2>1. docs \in Seq(Documents) /\ document \in Documents /\ Tail(docs) \in Seq(Documents)
    BY <1>17 DEF CallInv, document
  <2>2. document.type = "list" => document.items \in Seq(Documents)
    BY <2>1, DocumentsAre
  <2> QED
    BY <2>1, <2>2
<1>18. ASSUME pc = "docs", UNCHANGED <<args, paths, entries, back, file, opened>>,
              docs' \in Seq(Documents), pc' \in {"docs", back}
       PROVE  CallInv'
  BY <1>18 DEF CallInv, PathsLeft
<1>19. CASE SkipJunk \/ UnwrapList \/ IgnoreObject \/ AppendBinding \/ StoreObject
  BY <1>17, <1>18, <1>19 DEF SkipJunk, UnwrapList, IgnoreObject, AppendBinding, StoreObject,
       AtDoc, result, log
<1>20. CASE EndDocs
  BY <1>18, <1>20 DEF EndDocs, CallInv, result, log
<1>21. CASE UNCHANGED vars
  BY <1>21 DEF vars, CallInv, PathsLeft
<1> QED
  BY <1>1, <1>3, <1>4, <1>5, <1>6, <1>7, <1>8, <1>9, <1>10, <1>11, <1>12, <1>15, <1>16,
     <1>19, <1>20, <1>21 DEF Next, Load

-----------------------------------------------------------------------------
(* The files found, against the files handled.                             *)

InHand == pc \in {"file", "read"}

Seen == IF InHand THEN Append(opened, file) ELSE opened

Ahead == FoundAmong(entries) \o FoundUnder(paths)

SightsAre(done) ==
  /\ IsListing(done)
  /\ Found = done \o Ahead
  /\ Len(done) = Len(Seen)
  /\ \A n \in 1 .. Len(done) : IsReadOf(Seen[n], done[n].file)
  /\ InHand => /\ done[Len(done)].by = "dir" => back = "walk"
               /\ file = done[Len(done)].file \/ file.more = << >>
  /\ \A n \in 1 .. Len(opened) :
       done[n].by = "dir" /\ ~IsTaken(opened[n]) =>
         [about |-> <<"skipping">>, file |-> opened[n].name] \in warnings

SightInv == \E done : SightsAre(done)

LEMMA Concats ==
  \A p, q, r : IsListing(p) /\ IsListing(q) /\ IsListing(r) =>
    /\ IsListing(p \o q) /\ (p \o q) \o r = p \o (q \o r)
    /\ << >> \o p = p /\ p \o << >> = p
<1> SUFFICES ASSUME NEW p, NEW q, NEW r, IsListing(p), IsListing(q), IsListing(r)
             PROVE  /\ IsListing(p \o q) /\ (p \o q) \o r = p \o (q \o r)
                    /\ << >> \o p = p /\ p \o << >> = p
  OBVIOUS
<1> DEFINE T == (ToSet(p) \cup ToSet(q)) \cup ToSet(r)
<1>1. p \in Seq(T) /\ q \in Seq(T) /\ r \in Seq(T)
  BY DEF IsListing
<1> HIDE DEF T
<1>2. p \o q \in Seq(T) /\ << >> \o p = p /\ p \o << >> = p
  BY <1>1
<1>3. (p \o q) \o r = p \o (q \o r)
  BY <1>1, ConcatAssociative
<1> QED
  BY <1>2, <1>3, ListingsAre

\* One element behind the others.
LEMMA OneMoreListed ==
  ASSUME NEW p, NEW x, NEW r, IsListing(p), IsListing(r)
  PROVE  /\ IsListing(Append(p, x)) /\ Append(p, x) \o r = p \o (<<x>> \o r)
         /\ Len(Append(p, x)) = Len(p) + 1 /\ Append(p, x)[Len(p) + 1] = x
         /\ \A n \in 1 .. Len(p) : Append(p, x)[n] = p[n]
         /\ Len(p) \in Nat /\ DOMAIN p = 1 .. Len(p)
<1> DEFINE T == ToSet(p) \cup {x}
<1>1. p \in Seq(T) /\ x \in T
  BY DEF IsListing
<1> HIDE DEF T
<1>2. /\ Append(p, x) \in Seq(T) /\ Append(p, x) = p \o <<x>> /\ <<x>> \in Seq(T)
      /\ Len(Append(p, x)) = Len(p) + 1 /\ Append(p, x)[Len(p) + 1] = x
      /\ \A n \in 1 .. Len(p) : Append(p, x)[n] = p[n]
      /\ Len(p) \in Nat /\ DOMAIN p = 1 .. Len(p)
  BY <1>1
<1> DEFINE one == <<x>>
<1>3. IsListing(one) /\ IsListing(Append(p, x))
  BY <1>2, ListingsAre
<1> HIDE DEF one
<1>4. (p \o one) \o r = p \o (one \o r)
  BY <1>3, Concats
<1> QED
  BY <1>2, <1>3, <1>4 DEF one

\* What is ahead, and how a step consumes it.
LEMMA AheadIs ==
  ASSUME CallInv, WalkInv
  PROVE  /\ IsListing(FoundAmong(entries)) /\ IsListing(FoundUnder(paths)) /\ IsListing(Ahead)
         /\ entries = << >> => Ahead = FoundUnder(paths)
         /\ paths # << >> => /\ FoundUnder(paths) = FoundIn(Head(paths)) \o FoundUnder(Tail(paths))
                             /\ IsListing(FoundIn(Head(paths)))
                             /\ IsListing(FoundUnder(Tail(paths)))
         /\ entries # << >> =>
              /\ Counts(entry) => Ahead = <<SightOf(entry)>> \o (FoundAmong(Tail(entries)) \o FoundUnder(paths))
              /\ ~Counts(entry) => Ahead = FoundAmong(Tail(entries)) \o FoundUnder(paths)
              /\ IsListing(FoundAmong(Tail(entries)) \o FoundUnder(paths))
<1> DEFINE T == ToSet(args)
           U == FoundUnder(paths)
           F == FoundAmong(entries)
<1>1. args \in Inputs /\ PathsLeft
  BY DEF CallInv
<1>2. AreArguments(T) /\ paths \in Seq(T)
  BY <1>1, ArgumentsAre, PathSteps
<1>3. PICK es : IsWalk(es) /\ \E k \in 0 .. Len(es) : entries = Behind(es, k)
  BY DEF WalkInv
<1>4. PICK k \in 0 .. Len(es) : entries = Behind(es, k)
  BY <1>3
<1> DEFINE E == ToSet(es)
<1>5. es \in Seq(E)
  BY <1>3 DEF IsWalk
<1> HIDE DEF T, E
<1>6. entries \in Seq(E)
  BY <1>4, <1>5, RestSteps DEF Behind
<1>7. IsListing(F) /\ IsListing(U)
  BY <1>2, <1>6, AmongSteps, UnderSteps
<1>8. IsListing(Ahead) /\ (entries = << >> => Ahead = U)
  <2>1. IsListing(F \o U) /\ << >> \o U = U
    <3> HIDE DEF F, U
    <3> QED
      BY <1>7, Concats
  <2> QED
    BY <2>1, NoneFound DEF Ahead
<1>9. ASSUME paths # << >>
      PROVE  /\ U = FoundIn(Head(paths)) \o FoundUnder(Tail(paths))
             /\ IsListing(FoundIn(Head(paths))) /\ IsListing(FoundUnder(Tail(paths)))
  <2>1. Head(paths) \in T /\ Tail(paths) \in Seq(T)
    BY <1>2, <1>9
  <2> QED
    BY <1>2, <1>9, <2>1, UnderSteps
<1>10. ASSUME entries # << >>
       PROVE  /\ Counts(entry) => Ahead = <<SightOf(entry)>> \o (FoundAmong(Tail(entries)) \o U)
              /\ ~Counts(entry) => Ahead = FoundAmong(Tail(entries)) \o U
              /\ IsListing(FoundAmong(Tail(entries)) \o U)
  <2> DEFINE R   == FoundAmong(Tail(entries))
             x   == SightOf(entry)
             one == <<x>>
  <2>1. Tail(entries) \in Seq(E)
    BY <1>6, <1>10
  <2>2. IsListing(R)
    BY <2>1, AmongSteps
  <2>3. F = (IF Counts(entry) THEN one ELSE << >>) \o R
    BY <1>6, <1>10, AmongSteps DEF entry
  <2>4. IsListing(one)
    <3> HIDE DEF x
    <3>1. one \in Seq({x})
      OBVIOUS
    <3> QED
      BY <3>1, ListingsAre
  <2> HIDE DEF R, one, U
  <2>5. (one \o R) \o U = one \o (R \o U) /\ << >> \o R = R /\ IsListing(R \o U)
    BY <1>7, <2>2, <2>4, Concats
  <2>6. Ahead = F \o U
    BY DEF Ahead, U
  <2> HIDE DEF F
  <2> QED
    BY <2>3, <2>5, <2>6 DEF one, R
<1> QED
  BY <1>7, <1>8, <1>9, <1>10

\* A step that neither takes up a file nor is done with one.
LEMMA SameSights ==
  ASSUME SightInv, args' = args, Ahead' = Ahead, InHand' <=> InHand,
         UNCHANGED <<opened, file, back>>, warnings \subseteq warnings'
  PROVE  SightInv'
<1>1. PICK done : SightsAre(done)
  BY DEF SightInv
<1>2. Seen' = Seen
  BY DEF Seen
<1>3. Found' = Found
  BY DEF Found
<1>4. SightsAre(done)'
  BY <1>1, <1>2, <1>3 DEF SightsAre
<1> QED
  BY <1>4 DEF SightInv

\* A step that takes up the next file.
LEMMA NextSight ==
  ASSUME SightInv, args' = args, ~InHand, InHand', UNCHANGED <<opened, warnings>>,
         NEW x, IsListing(opened), IsListing(Ahead'), Ahead = <<x>> \o Ahead', file' = x.file,
         x.by = "dir" => back' = "walk"
  PROVE  SightInv'
<1>1. PICK done : SightsAre(done)
  BY DEF SightInv
<1>2. PICK rest : rest = Ahead'
  OBVIOUS
<1>3. PICK more : more = Append(done, x)
  OBVIOUS
<1>4. /\ IsListing(done) /\ Found = done \o Ahead /\ Len(done) = Len(opened)
      /\ \A n \in 1 .. Len(done) : IsReadOf(opened[n], done[n].file)
      /\ \A n \in 1 .. Len(opened) :
           done[n].by = "dir" /\ ~IsTaken(opened[n]) =>
             [about |-> <<"skipping">>, file |-> opened[n].name] \in warnings
  BY <1>1 DEF SightsAre, Seen
<1>5. /\ IsListing(more) /\ Found = more \o rest /\ Len(more) = Len(done) + 1
      /\ more[Len(done) + 1] = x /\ \A n \in 1 .. Len(done) : more[n] = done[n]
      /\ Len(done) \in Nat
  <2>1. IsListing(rest) /\ Ahead = <<x>> \o rest
    BY <1>2
  <2>2. /\ IsListing(Append(done, x)) /\ Append(done, x) \o rest = done \o (<<x>> \o rest)
        /\ Len(Append(done, x)) = Len(done) + 1 /\ Append(done, x)[Len(done) + 1] = x
        /\ \A n \in 1 .. Len(done) : Append(done, x)[n] = done[n]
        /\ Len(done) \in Nat
    BY <1>4, <2>1, OneMoreListed
  <2> QED
    BY <1>3, <1>4, <2>1, <2>2
<1>6. PICK f : f = file'
  OBVIOUS
<1>7. /\ Seen' = Append(opened, f) /\ Len(Append(opened, f)) = Len(opened) + 1
      /\ Append(opened, f)[Len(opened) + 1] = f
      /\ \A n \in 1 .. Len(opened) : Append(opened, f)[n] = opened[n]
  BY <1>6, OneMoreListed DEF Seen
<1>8. IsReadOf(f, x.file)
  BY <1>6 DEF IsReadOf
<1>9. \A n \in 1 .. Len(more) : n \in 1 .. Len(done) \/ n = Len(done) + 1
  BY <1>5
<1>10. \A n \in 1 .. Len(more) : IsReadOf(Append(opened, f)[n], more[n].file)
  BY <1>4, <1>5, <1>7, <1>8, <1>9
<1>11. Found' = Found
  BY DEF Found
<1>12. SightsAre(more)'
  BY <1>2, <1>4, <1>5, <1>6, <1>7, <1>10, <1>11 DEF SightsAre
<1> QED
  BY <1>12 DEF SightInv

\* A step that is done with the file in hand.
LEMMA SightDone ==
  ASSUME SightInv, UNCHANGED <<args, entries, paths>>, InHand, ~InHand', IsListing(opened),
         opened' = Append(opened, file), warnings \subseteq warnings',
         back = "walk" /\ ~IsTaken(file) =>
           [about |-> <<"skipping">>, file |-> file.name] \in warnings'
  PROVE  SightInv'
<1>1. PICK done : SightsAre(done)
  BY DEF SightInv
<1>2. Seen' = Seen /\ opened' = Seen
  BY DEF Seen
<1>3. Found' = Found /\ Ahead' = Ahead
  BY DEF Found, Ahead
<1>4. PICK w : w = Seen
  OBVIOUS
<1>5. /\ Len(w) = Len(opened) + 1 /\ w[Len(opened) + 1] = file
      /\ \A n \in 1 .. Len(opened) : w[n] = opened[n]
      /\ Len(opened) \in Nat
  BY <1>4, OneMoreListed, ListingsAre DEF Seen
<1>6. /\ Len(done) = Len(w)
      /\ done[Len(done)].by = "dir" => back = "walk"
      /\ \A n \in 1 .. Len(opened) :
           done[n].by = "dir" /\ ~IsTaken(opened[n]) =>
             [about |-> <<"skipping">>, file |-> opened[n].name] \in warnings
  BY <1>1, <1>4 DEF SightsAre
<1>7. \A n \in 1 .. Len(w) : n \in 1 .. Len(opened) \/ n = Len(opened) + 1
  BY <1>5
<1>8. \A n \in 1 .. Len(w) :
        done[n].by = "dir" /\ ~IsTaken(w[n]) =>
          [about |-> <<"skipping">>, file |-> w[n].name] \in warnings'
  <2> SUFFICES ASSUME NEW n \in 1 .. Len(w), done[n].by = "dir", ~IsTaken(w[n])
               PROVE  [about |-> <<"skipping">>, file |-> w[n].name] \in warnings'
    OBVIOUS
  <2>1. CASE n \in 1 .. Len(opened)
    BY <1>5, <1>6, <2>1
  <2>2. CASE n = Len(opened) + 1
    <3>1. n = Len(done) /\ w[n] = file
      BY <1>5, <1>6, <2>2
    <3> QED
      BY <1>6, <3>1
  <2> QED
    BY <1>7, <2>1, <2>2
<1>9. SightsAre(done)'
  BY <1>1, <1>2, <1>3, <1>4, <1>8 DEF SightsAre
<1> QED
  BY <1>9 DEF SightInv

LEMMA SightStep ==
  ASSUME CallInv, WalkInv, WalkInv', CallInv', SightInv, [Next]_vars
  PROVE  SightInv'
<1> USE DEF PC
<1>0. IsListing(opened)
  BY DEF CallInv
<1>1. CASE PathMissing \/ EndPaths \/ EndWalk \/ StatFile \/ UNCHANGED vars
  <2>1. UNCHANGED <<args, entries, paths, opened, file, back, warnings>> /\ (InHand' <=> InHand)
    BY <1>1 DEF PathMissing, EndPaths, EndWalk, StatFile, vars, result, log, InHand, AtPath
  <2>2. Ahead' = Ahead
    BY <2>1 DEF Ahead
  <2> QED
    BY <2>1, <2>2, SameSights
<1>2. CASE PathIsLink
  <2>1. /\ paths # << >> /\ entries = << >> /\ Head(paths).type = "symlink"
        /\ paths' = Tail(paths) /\ UNCHANGED <<args, entries, opened, file, back, warnings, pc>>
    BY <1>2 DEF PathIsLink, AtPath, result, log, CallInv, Handling
  <2> DEFINE U == FoundUnder(Tail(paths))
  <2>2. Ahead = FoundIn(Head(paths)) \o U /\ FoundIn(Head(paths)) = << >> /\ IsListing(U)
    BY <2>1, AheadIs DEF FoundIn
  <2>3. Ahead' = FoundAmong(<< >>) \o U
    BY <2>1 DEF Ahead
  <2> HIDE DEF U
  <2>4. Ahead' = Ahead
    BY <2>2, <2>3, NoneFound
  <2>5. (InHand' <=> InHand) /\ warnings \subseteq warnings'
    BY <2>1 DEF InHand
  <2> QED
    BY <2>1, <2>4, <2>5, SameSights
<1>3. CASE PathIsDir
  <2>1. /\ paths # << >> /\ entries = << >> /\ Head(paths).type = "dir"
        /\ paths' = Tail(paths) /\ UNCHANGED <<args, opened, file, back, warnings>>
        /\ entries' = Head(paths).entries /\ pc = "paths" /\ pc' = "walk"
    BY <1>3 DEF PathIsDir, AtPath, result, log, CallInv, Handling
  <2>2. Ahead = FoundIn(Head(paths)) \o FoundUnder(Tail(paths))
    BY <2>1, AheadIs
  <2>3. FoundIn(Head(paths)) = FoundAmong(Head(paths).entries)
    BY <2>1 DEF FoundIn
  <2>4. Ahead' = Ahead
    BY <2>1, <2>2, <2>3 DEF Ahead
  <2>5. (InHand' <=> InHand) /\ warnings \subseteq warnings'
    BY <2>1 DEF InHand
  <2> QED
    BY <2>1, <2>4, <2>5, SameSights
<1>4. CASE PathIsFile
  <2>1. /\ paths # << >> /\ entries = << >> /\ Head(paths).type = "file"
        /\ paths' = Tail(paths) /\ UNCHANGED <<args, entries, opened, warnings>>
        /\ file' = Head(paths).file /\ pc = "paths" /\ pc' = "file"
    BY <1>4 DEF PathIsFile, AtPath, result, log, CallInv, Handling
  <2>2. PICK x : x = [file |-> Head(paths).file, by |-> "file"]
    OBVIOUS
  <2>3. PICK rest : rest = FoundUnder(Tail(paths))
    OBVIOUS
  <2>4. Ahead = <<x>> \o rest /\ IsListing(rest)
    BY <2>1, <2>2, <2>3, AheadIs DEF FoundIn
  <2>5. Ahead' = FoundAmong(<< >>) \o rest
    BY <2>1, <2>3 DEF Ahead
  <2>6. Ahead' = rest
    BY <2>4, <2>5, NoneFound, Concats
  <2>7. IsListing(Ahead')
    BY <2>4, <2>6
  <2>8. ~InHand /\ InHand' /\ file' = x.file /\ x.by # "dir"
    BY <2>1, <2>2 DEF InHand
  <2> QED
    BY <1>0, <2>1, <2>4, <2>6, <2>7, <2>8, NextSight
<1>5. ASSUME entries # << >>, entries' = Tail(entries), ~Counts(entry),
             UNCHANGED <<args, paths, opened, file, back, warnings, pc>>
      PROVE  SightInv'
  <2>1. Ahead' = Ahead
    BY <1>5, AheadIs DEF Ahead
  <2>2. (InHand' <=> InHand) /\ warnings \subseteq warnings'
    BY <1>5 DEF InHand
  <2> QED
    BY <1>5, <2>1, <2>2, SameSights
<1>6. CASE PruneDir
  <2>1. entries # << >> /\ ToPrune(entry)
    BY <1>6 DEF PruneDir
  <2>2. ~Counts(entry)
    BY <2>1, EntrySteps DEF ToPrune, ToProcess
  <2> QED
    BY <1>5, <1>6, <2>1, <2>2 DEF PruneDir, result, log
<1>7. CASE PassEntry
  <2>1. entries # << >> /\ (IsPruned(entry) \/ ~ToProcess(entry))
    BY <1>7 DEF PassEntry
  <2>2. ~Counts(entry)
    BY <2>1, EntrySteps
  <2> QED
    BY <1>5, <1>7, <2>1, <2>2 DEF PassEntry, result, log
<1>8. CASE TakeFile
  <2>1. /\ entries # << >> /\ Counts(entry) /\ entries' = Tail(entries)
        /\ file' = entry.file /\ back' = "walk" /\ pc = "walk" /\ pc' = "file"
        /\ UNCHANGED <<args, paths, opened, warnings>>
    BY <1>8, EntrySteps DEF TakeFile, result, log
  <2>2. PICK x : x = SightOf(entry)
    OBVIOUS
  <2>3. Ahead = <<x>> \o Ahead' /\ IsListing(Ahead')
    <3>1. PICK rest : rest = FoundAmong(Tail(entries)) \o FoundUnder(paths)
      OBVIOUS
    <3>2. Ahead' = rest
      BY <2>1, <3>1 DEF Ahead
    <3>3. Ahead = <<x>> \o rest /\ IsListing(rest)
      BY <2>1, <2>2, <3>1, AheadIs
    <3> QED
      BY <3>2, <3>3
  <2>4. ~InHand /\ InHand' /\ file' = x.file
    BY <2>1, <2>2 DEF InHand, SightOf
  <2> QED
    BY <1>0, <2>1, <2>3, <2>4, NextSight
<1>9. CASE GrowFile
  <2>1. /\ InHand /\ InHand' /\ file.more # << >>
        /\ UNCHANGED <<args, paths, entries, back, opened, warnings>>
        /\ file' = [file EXCEPT !.docs = @ \o file.more, !.more = << >>]
    BY <1>9 DEF GrowFile, result, log, InHand
  <2>2. PICK done : SightsAre(done)
    BY DEF SightInv
  <2>3. Ahead' = Ahead /\ Found' = Found
    BY <2>1 DEF Ahead, Found
  <2>4. PICK f, g : f = file /\ g = file'
    OBVIOUS
  <2>5. /\ g.name = f.name /\ g.readable = f.readable /\ g.size = f.size
        /\ g.docs = f.docs \o f.more /\ g.more = << >>
    <3>1. \E n, y, r, s, d, m :
            f = [name |-> n, yaml |-> y, readable |-> r, size |-> s, docs |-> d, more |-> m]
      BY <2>1, <2>4 DEF CallInv, Handling, InHand, IsFile
    <3> QED
      BY <2>1, <2>4, <3>1
  <2>6. /\ Len(done) = Len(opened) + 1 /\ Len(opened) \in Nat
        /\ Seen = Append(opened, f) /\ Seen' = Append(opened, g)
        /\ \A h : /\ Len(Append(opened, h)) = Len(opened) + 1
                  /\ Append(opened, h)[Len(opened) + 1] = h
                  /\ \A n \in 1 .. Len(opened) : Append(opened, h)[n] = opened[n]
    <3>1. \A h : /\ Len(Append(opened, h)) = Len(opened) + 1 /\ Len(opened) \in Nat
                 /\ Append(opened, h)[Len(opened) + 1] = h
                 /\ \A n \in 1 .. Len(opened) : Append(opened, h)[n] = opened[n]
      BY <1>0, ListingsAre, OneMoreListed
    <3>2. Seen = Append(opened, f) /\ Seen' = Append(opened, g)
      BY <2>1, <2>4 DEF Seen
    <3> QED
      BY <2>2, <3>1, <3>2 DEF SightsAre
  <2>7. f = done[Len(done)].file
    BY <2>1, <2>2, <2>4 DEF SightsAre
  <2>8. IsReadOf(g, done[Len(done)].file)
    BY <2>5, <2>7 DEF IsReadOf
  <2>9. \A n \in 1 .. Len(done) : n \in 1 .. Len(opened) \/ n = Len(opened) + 1
    BY <2>6
  <2>10. \A n \in 1 .. Len(opened) : n \in 1 .. Len(done) /\ IsReadOf(opened[n], done[n].file)
    BY <2>2, <2>6 DEF SightsAre
  <2>11. \A n \in 1 .. Len(done) : IsReadOf(Append(opened, g)[n], done[n].file)
    BY <2>6, <2>8, <2>9, <2>10
  <2>12. /\ IsListing(done) /\ Found = done \o Ahead
         /\ done[Len(done)].by = "dir" => back = "walk"
         /\ \A n \in 1 .. Len(opened) :
              done[n].by = "dir" /\ ~IsTaken(opened[n]) =>
                [about |-> <<"skipping">>, file |-> opened[n].name] \in warnings
    BY <2>1, <2>2 DEF SightsAre
  <2>13. SightsAre(done)'
    BY <2>1, <2>3, <2>4, <2>5, <2>6, <2>11, <2>12 DEF SightsAre
  <2> QED
    BY <2>13 DEF SightInv
<1>10. CASE RefuseFile
  <2>1. /\ InHand /\ opened' = Append(opened, file) /\ pc' = back
        /\ UNCHANGED <<args, paths, entries>> /\ warnings \subseteq warnings'
        /\ back = "walk" => [about |-> <<"skipping">>, file |-> file.name] \in warnings'
    BY <1>10 DEF RefuseFile, result, InHand
  <2>2. ~InHand'
    BY <2>1 DEF InHand, CallInv
  <2> QED
    BY <1>0, <2>1, <2>2, SightDone
<1>11. CASE AcceptFile
  <2>1. /\ InHand /\ ~InHand' /\ opened' = Append(opened, file)
        /\ UNCHANGED <<args, paths, entries>> /\ warnings \subseteq warnings'
    BY <1>11 DEF AcceptFile, result, InHand
  <2>2. IsTaken(file)
    <3>1. file.readable /\ file.size <= MaxFileSize
      BY <1>11 DEF AcceptFile, CallInv
    <3>2. Len(splitYAMLDocs(file.docs)) <= MaxDocsPerFile
      <4>1. splitYAMLDocs(file.docs) \in Seq(Documents)
        BY <1>11, SplitDocs DEF AcceptFile, CallInv, Handling, IsFile
      <4>2. ~(Len(splitYAMLDocs(file.docs)) > MaxDocsPerFile)
        BY <1>11 DEF AcceptFile, TooManyDocs
      <4> DEFINE n == Len(splitYAMLDocs(file.docs))
      <4>3. n \in Nat
        BY <4>1
      <4> HIDE DEF n
      <4>4. ~(n > MaxDocsPerFile) => n <= MaxDocsPerFile
        BY <4>3, TreesAssumption
      <4> QED
        BY <4>2, <4>4 DEF n
    <3> QED
      BY <3>1, <3>2 DEF IsTaken
  <2> QED
    BY <1>0, <2>1, <2>2, SightDone
<1>12. CASE SkipJunk \/ UnwrapList \/ IgnoreObject \/ AppendBinding \/ StoreObject \/ EndDocs
  <2>1. UNCHANGED <<args, paths, entries, opened, file, back>> /\ warnings \subseteq warnings'
    BY <1>12 DEF SkipJunk, UnwrapList, IgnoreObject, AppendBinding, StoreObject, EndDocs,
         result, log
  <2>2. ~InHand /\ ~InHand'
    BY <1>12 DEF SkipJunk, UnwrapList, IgnoreObject, AppendBinding, StoreObject, EndDocs,
         AtDoc, InHand, CallInv
  <2>3. Ahead' = Ahead
    BY <2>1 DEF Ahead
  <2> QED
    BY <2>1, <2>2, <2>3, SameSights
<1> QED
  BY <1>1, <1>2, <1>3, <1>4, <1>6, <1>7, <1>8, <1>9, <1>10, <1>11, <1>12 DEF Next, Load

-----------------------------------------------------------------------------
(* What is stored, against what the files declare.                         *)

\* What the documents that are left will contribute.
Waiting == IF pc = "docs" THEN StoredFrom(docs, file) ELSE << >>

StoresAre(all) ==
  /\ IsListing(all)
  /\ AllStored = all \o Waiting
  /\ objects = LastAmong(all)
  /\ bindings = BindingsAmong(all)
  /\ \A o \in ToSet(all) :
       ~IsBinding(o) /\ o \notin objects => \E w \in warnings : w.about = o.key

StoreInv == \E all : StoresAre(all)

LEMMA SameStores ==
  ASSUME StoreInv, AllStored' = AllStored, Waiting' = Waiting, UNCHANGED <<objects, bindings>>,
         warnings \subseteq warnings'
  PROVE  StoreInv'
<1>1. PICK all : StoresAre(all)
  BY DEF StoreInv
<1>2. StoresAre(all)'
  BY <1>1 DEF StoresAre, IsBinding
<1> QED
  BY <1>2 DEF StoreInv

\* A file that is handled contributes what its documents will.
LEMMA StoresNext ==
  ASSUME CallInv, StoreInv, pc # "docs", IsFile(file), opened' = Append(opened, file),
         Waiting' = StoredOf(file), UNCHANGED <<objects, bindings>>, warnings \subseteq warnings'
  PROVE  StoreInv'
<1>1. PICK all : StoresAre(all)
  BY DEF StoreInv
<1>2. PICK next : next = StoredOf(file)
  OBVIOUS
<1>3. /\ AllStored = StoredOfAll(opened) /\ AllStored' = StoredOfAll(Append(opened, file))
  BY DEF AllStored, StoredOfAll
<1>4. AllStored' = AllStored \o next
  BY <1>2, <1>3, StoredOfNext DEF CallInv
<1>5. IsListing(all) /\ AllStored = all
  <2>1. IsListing(all) /\ AllStored = all \o << >>
    BY <1>1 DEF StoresAre, Waiting
  <2> QED
    BY <2>1, Concats
<1>6. StoresAre(all)'
  BY <1>1, <1>2, <1>4, <1>5 DEF StoresAre, IsBinding
<1> QED
  BY <1>6 DEF StoreInv

\* The document at the front.
LEMMA WaitingSteps ==
  ASSUME CallInv, pc = "docs", docs # << >>
  PROVE  /\ document.type = "list" => Waiting = StoredFrom(document.items \o Tail(docs), file)
         /\ document.type = "junk" => Waiting = StoredFrom(Tail(docs), file)
         /\ document.type = "object" /\ ~IsKept(document) =>
              Waiting = StoredFrom(Tail(docs), file)
         /\ document.type = "object" /\ IsKept(document) =>
              Waiting = <<Stored(document, file)>> \o StoredFrom(Tail(docs), file)
         /\ IsListing(StoredFrom(Tail(docs), file))
<1>1. docs \in Seq(Documents) /\ Waiting = StoredFrom(docs, file) /\ document = Head(docs)
  BY DEF CallInv, Waiting, document
<1>2. Tail(docs) \in Seq(Documents)
  BY <1>1
<1> DEFINE rest == StoredFrom(Tail(docs), file)
<1>3. IsListing(rest)
  <2>1. CASE Tail(docs) = << >>
    BY <2>1, StoredFromNone, ListingsAre
  <2>2. CASE Tail(docs) # << >>
    BY <1>2, <2>2, StoredFromHead, ListingsAre
  <2> QED
    BY <2>1, <2>2
<1>4. /\ document.type = "list" => Waiting = StoredFrom(document.items \o Tail(docs), file)
      /\ document.type # "list" =>
           Waiting = (IF Declares(document) THEN <<Stored(document, file)>> ELSE << >>) \o rest
  BY <1>1, StoredFromHead
<1> HIDE DEF rest
<1>5. << >> \o rest = rest
  BY <1>3, Concats
<1>6. Declares(document) <=> document.type = "object" /\ IsKept(document)
  BY DEF Declares
<1> QED
  BY <1>3, <1>4, <1>5, <1>6 DEF rest

\* One more object is stored.
LEMMA StoreOne ==
  ASSUME StoreInv, NEW x, NEW rest, IsListing(rest), Waiting = <<x>> \o rest, Waiting' = rest,
         AllStored' = AllStored, warnings \subseteq warnings',
         IsBinding(x) => bindings' = Append(bindings, x) /\ objects' = objects,
         ~IsBinding(x) =>
           /\ bindings' = bindings
           /\ objects' = (objects \ {o \in objects : o.key = x.key}) \cup {x}
           /\ {o \in objects : o.key = x.key} # {} => \E w \in warnings' : w.about = x.key
  PROVE  StoreInv'
<1>1. PICK all : StoresAre(all)
  BY DEF StoreInv
<1>2. PICK more : more = Append(all, x)
  OBVIOUS
<1>3. IsListing(all) /\ AllStored = all \o (<<x>> \o rest)
  BY <1>1 DEF StoresAre
<1>4. IsListing(more) /\ AllStored = more \o rest
  BY <1>2, <1>3, OneMoreListed
<1> DEFINE S == ToSet(all) \cup {x}
<1>5. all \in Seq(S) /\ x \in S
  BY <1>3 DEF IsListing
<1>6. ToSet(more) = S
  <2>1. /\ DOMAIN all = 1 .. Len(all) /\ DOMAIN more = 1 .. Len(all) + 1 /\ Len(all) \in Nat
        /\ more[Len(all) + 1] = x /\ \A n \in 1 .. Len(all) : more[n] = all[n]
    BY <1>2, <1>5
  <2>2. \A y : y \in ToSet(more) <=> \E n \in 1 .. Len(all) + 1 : y = more[n]
    BY <2>1 DEF ToSet
  <2>3. \A y : y \in ToSet(all) <=> \E n \in 1 .. Len(all) : y = all[n]
    BY <2>1 DEF ToSet
  <2>4. \A n : n \in 1 .. Len(all) + 1 <=> n \in 1 .. Len(all) \/ n = Len(all) + 1
    BY <2>1
  <2>5. \A y : y \in ToSet(more) <=> y \in ToSet(all) \/ y = x
    <3>1. ASSUME NEW n \in 1 .. Len(all) + 1
          PROVE  more[n] \in ToSet(all) \/ more[n] = x
      <4>1. CASE n \in 1 .. Len(all)
        BY <2>1, <2>3, <4>1
      <4>2. CASE n = Len(all) + 1
        BY <2>1, <4>2
      <4> QED
        BY <2>4, <4>1, <4>2
    <3>2. ASSUME NEW n \in 1 .. Len(all) PROVE all[n] \in ToSet(more)
      BY <2>1, <2>2, <2>4
    <3>3. x \in ToSet(more)
      <4>1. Len(all) + 1 \in 1 .. Len(all) + 1
        BY <2>1
      <4> QED
        BY <2>1, <2>2, <4>1
    <3> QED
      BY <2>2, <2>3, <3>1, <3>2, <3>3
  <2> DEFINE A == ToSet(more)
             B == ToSet(all)
  <2> HIDE DEF A, B
  <2>6. A = B \cup {x}
    BY <2>5 DEF A, B
  <2> QED
    BY <2>6 DEF A, B
<1>7. bindings' = BindingsAmong(more)
  <2> HIDE DEF S
  <2>1. BindingsAmong(more) = IF IsBinding(x) THEN Append(bindings, x) ELSE bindings
    BY <1>1, <1>2, <1>5, BindingsNext DEF StoresAre
  <2> QED
    BY <2>1
<1>8. objects' = LastAmong(more)
  <2> HIDE DEF S
  <2>1. LastAmong(more) = IF IsBinding(x) THEN objects ELSE {o \in objects : o.key # x.key} \cup {x}
    BY <1>1, <1>2, <1>5, LastNext DEF StoresAre
  <2>2. objects \ {o \in objects : o.key = x.key} = {o \in objects : o.key # x.key}
    OBVIOUS
  <2> QED
    BY <2>1, <2>2
<1>9. ASSUME NEW o \in S, ~IsBinding(o), o \notin objects'
      PROVE  \E w \in warnings' : w.about = o.key
  <2>1. CASE o = x
    BY <1>9, <2>1
  <2>2. CASE o \in ToSet(all) /\ o \notin objects
    BY <1>1, <1>9, <2>2 DEF StoresAre
  <2>3. CASE o \in objects
    <3>1. ~IsBinding(x) /\ o.key = x.key
      BY <1>9, <2>3
    <3> QED
      BY <2>3, <3>1
  <2> QED
    BY <1>9, <2>1, <2>2, <2>3
<1>10. StoresAre(more)'
  BY <1>4, <1>6, <1>7, <1>8, <1>9 DEF StoresAre, IsBinding
<1> QED
  BY <1>10 DEF StoreInv

LEMMA StoreStep ==
  ASSUME CallInv, CallInv', StoreInv, [Next]_vars
  PROVE  StoreInv'
<1> USE DEF PC
<1>1. ASSUME pc # "docs", pc' # "docs", UNCHANGED <<objects, bindings, opened, warnings>>
      PROVE  StoreInv'
  BY <1>1, SameStores DEF AllStored, Waiting
<1>2. CASE PathMissing \/ PathIsLink \/ PathIsDir \/ PathIsFile \/ EndPaths \/ PruneDir
             \/ TakeFile \/ PassEntry \/ EndWalk \/ StatFile \/ GrowFile
  <2>1. pc # "docs" /\ pc' # "docs"
    BY <1>2 DEF PathMissing, PathIsLink, PathIsDir, PathIsFile, EndPaths, PruneDir, TakeFile,
         PassEntry, EndWalk, StatFile, GrowFile, AtPath
  <2>2. UNCHANGED <<objects, bindings, opened, warnings>>
    BY <1>2 DEF PathMissing, PathIsLink, PathIsDir, PathIsFile, EndPaths, PruneDir, TakeFile,
         PassEntry, EndWalk, StatFile, GrowFile, result, log
  <2> QED
    BY <1>1, <2>1, <2>2
<1>3. CASE RefuseFile
  <2>1. /\ pc \in {"file", "read"} /\ pc' = back /\ opened' = Append(opened, file)
        /\ UNCHANGED <<objects, bindings>> /\ warnings \subseteq warnings'
        /\ (pc = "file" /\ StatFails) \/ TooManyDocs
    BY <1>3 DEF RefuseFile, result
  <2>2. IsFile(file) /\ Waiting' = << >>
    BY <2>1 DEF CallInv, Handling, Waiting
  <2>3. ~IsTaken(file)
    <3>1. StatFails => ~IsTaken(file)
      <4>1. file.size \in Nat
        BY <2>2 DEF IsFile
      <4>2. file.size > MaxFileSize => ~(file.size <= MaxFileSize)
        BY <4>1, TreesAssumption
      <4> QED
        BY <4>2 DEF StatFails, IsTaken
    <3>2. TooManyDocs => ~IsTaken(file)
      <4> DEFINE n == Len(splitYAMLDocs(file.docs))
      <4>1. n \in Nat
        <5>1. splitYAMLDocs(file.docs) \in Seq(Documents)
          BY <2>2, SplitDocs DEF IsFile
        <5> QED
          BY <5>1
      <4> HIDE DEF n
      <4>2. n > MaxDocsPerFile => ~(n <= MaxDocsPerFile)
        BY <4>1, TreesAssumption
      <4> QED
        BY <4>2 DEF TooManyDocs, IsTaken, n
    <3> QED
      BY <2>1, <3>1, <3>2
  <2>4. Waiting' = StoredOf(file)
    BY <2>2, <2>3 DEF StoredOf
  <2> QED
    BY <2>1, <2>2, <2>4, StoresNext
<1>4. CASE AcceptFile
  <2>1. /\ pc = "read" /\ pc' = "docs" /\ opened' = Append(opened, file) /\ ~TooManyDocs
        /\ docs' = splitYAMLDocs(file.docs)
        /\ UNCHANGED <<objects, bindings, warnings, file>>
    BY <1>4 DEF AcceptFile, result
  <2>2. IsFile(file) /\ file.readable /\ file.size <= MaxFileSize
    BY <2>1 DEF CallInv, Handling
  <2>3. IsTaken(file)
    <3> DEFINE n == Len(splitYAMLDocs(file.docs))
    <3>1. n \in Nat
      <4>1. splitYAMLDocs(file.docs) \in Seq(Documents)
        BY <2>2, SplitDocs DEF IsFile
      <4> QED
        BY <4>1
    <3> HIDE DEF n
    <3>2. ~(n > MaxDocsPerFile) => n <= MaxDocsPerFile
      BY <3>1, TreesAssumption
    <3> QED
      BY <2>1, <2>2, <3>2 DEF TooManyDocs, IsTaken, n
  <2>4. Waiting' = StoredOf(file)
    BY <2>1, <2>3 DEF Waiting, StoredOf
  <2> QED
    BY <2>1, <2>2, <2>4, StoresNext
<1>5. CASE SkipJunk \/ UnwrapList \/ IgnoreObject
  <2>1. /\ pc = "docs" /\ pc' = "docs" /\ docs # << >>
        /\ UNCHANGED <<objects, bindings, warnings, opened, file>>
    BY <1>5 DEF SkipJunk, UnwrapList, IgnoreObject, AtDoc, result, log
  <2>2. Waiting = StoredFrom(docs', file)
    <3>1. CASE SkipJunk
      <4>1. document.type = "junk" /\ docs' = Tail(docs)
        BY <3>1 DEF SkipJunk, AtDoc
      <4> QED
        BY <2>1, <4>1, WaitingSteps
    <3>2. CASE UnwrapList
      <4>1. document.type = "list" /\ docs' = document.items \o Tail(docs)
        BY <3>2 DEF UnwrapList, AtDoc
      <4> QED
        BY <2>1, <4>1, WaitingSteps
    <3>3. CASE IgnoreObject
      <4>1. document.type = "object" /\ ~IsKept(document) /\ docs' = Tail(docs)
        BY <3>3 DEF IgnoreObject, AtDoc
      <4> QED
        BY <2>1, <4>1, WaitingSteps
    <3> QED
      BY <1>5, <3>1, <3>2, <3>3
  <2>3. Waiting' = Waiting /\ AllStored' = AllStored
    BY <2>1, <2>2 DEF Waiting, AllStored
  <2> QED
    BY <2>1, <2>3, SameStores
<1>6. CASE AppendBinding \/ StoreObject
  <2>1. /\ pc = "docs" /\ pc' = "docs" /\ docs # << >> /\ docs' = Tail(docs)
        /\ document.type = "object" /\ IsKept(document) /\ UNCHANGED <<opened, file>>
    BY <1>6 DEF AppendBinding, StoreObject, AtDoc
  <2>2. PICK x : x = Stored(document, file)
    OBVIOUS
  <2>3. PICK rest : rest = StoredFrom(Tail(docs), file)
    OBVIOUS
  <2>4. Waiting = <<x>> \o rest /\ IsListing(rest) /\ Waiting' = rest
    BY <2>1, <2>2, <2>3, WaitingSteps DEF Waiting
  <2>5. x.key = Key(document)
    BY <2>2 DEF Stored
  <2>6. IsBinding(x) <=> document.kind \in BindingKinds
    BY <2>5 DEF IsBinding, Key
  <2>7. AllStored' = AllStored
    BY <2>1 DEF AllStored
  <2>8. CASE AppendBinding
    <3>1. IsBinding(x) /\ bindings' = Append(bindings, x) /\ objects' = objects /\ warnings' = warnings
      BY <2>2, <2>6, <2>8 DEF AppendBinding
    <3> QED
      BY <2>4, <2>7, <3>1, StoreOne
  <2>9. CASE StoreObject
    <3>1. /\ ~IsBinding(x) /\ bindings' = bindings
          /\ objects' = (objects \ {o \in objects : o.key = x.key}) \cup {x}
      BY <2>2, <2>5, <2>6, <2>9 DEF StoreObject
    <3>2. /\ warnings \subseteq warnings'
          /\ {o \in objects : o.key = x.key} # {} =>
               [about |-> x.key, file |-> file.name] \in warnings'
      BY <2>5, <2>9 DEF StoreObject
    <3>3. {o \in objects : o.key = x.key} # {} => \E w \in warnings' : w.about = x.key
      BY <3>2
    <3> QED
      BY <2>4, <2>7, <3>1, <3>2, <3>3, StoreOne
  <2> QED
    BY <1>6, <2>8, <2>9
<1>7. CASE EndDocs
  <2>1. /\ pc = "docs" /\ pc' = back /\ docs = << >>
        /\ UNCHANGED <<objects, bindings, warnings, opened>>
    BY <1>7 DEF EndDocs, result, log
  <2>2. Waiting = << >> /\ Waiting' = << >>
    BY <2>1, StoredFromNone DEF Waiting, CallInv
  <2>3. AllStored' = AllStored
    BY <2>1 DEF AllStored
  <2> QED
    BY <2>1, <2>2, <2>3, SameStores
<1>8. CASE UNCHANGED vars
  <2>1. UNCHANGED <<objects, bindings, warnings, opened, docs, file, pc>>
    BY <1>8 DEF vars
  <2>2. Waiting' = Waiting /\ AllStored' = AllStored
    BY <2>1 DEF Waiting, AllStored
  <2> QED
    BY <2>1, <2>2, SameStores
<1> QED
  BY <1>2, <1>3, <1>4, <1>5, <1>6, <1>7, <1>8 DEF Next, Load

-----------------------------------------------------------------------------
(* The theorems.                                                           *)

\* The inductive invariant: the call is somewhere in the tree (CallInv), the
\* walk knows the excluded directories it has passed (WalkInv), the files handled
\* and those ahead are the files of the tree (SightInv), and what is stored is
\* what the documents read so far declare (StoreInv).
LoaderInv == CallInv /\ WalkInv /\ SightInv /\ StoreInv

LEMMA LoaderStarts == Init => LoaderInv
<1> SUFFICES ASSUME Init PROVE LoaderInv
  OBVIOUS
<1>1. /\ args \in Inputs /\ paths = args /\ entries = << >> /\ pruned = {} /\ back = "paths"
      /\ docs = << >> /\ pc = "paths" /\ objects = {} /\ bindings = << >> /\ warnings = {}
      /\ opened = << >>
  BY Zenon DEF Init
<1>2. args \in Seq(ToSet(args)) /\ AreArguments(ToSet(args))
  BY <1>1, ArgumentsAre
<1>3. CallInv
  <2>1. PathsLeft
    <3>1. 0 \in 0 .. Len(args) /\ Behind(args, 0) = args
      BY <1>2 DEF Behind
    <3>2. \A n \in 1 .. 0 : args[n].type # "missing"
      OBVIOUS
    <3> QED
      BY <1>1, <3>1, <3>2 DEF PathsLeft
  <2>2. docs \in Seq(Documents) /\ IsListing(opened) /\ \A n \in DOMAIN opened : IsFile(opened[n])
    BY <1>1, ListingsAre
  <2> QED
    BY <1>1, <2>1, <2>2 DEF CallInv, PC, Handling
<1>4. WalkInv
  <2> DEFINE es == << >>
  <2>1. IsWalk(es) /\ 0 \in 0 .. Len(es) /\ Behind(es, 0) = es
    BY DEF IsWalk, Behind
  <2>2. Marked(es, 0) /\ PrunedAre
    BY <1>1 DEF Marked, PrunedAre
  <2> QED
    BY <1>1, <2>1, <2>2 DEF WalkInv
<1>5. SightInv
  <2> DEFINE done == << >>
  <2>1. Ahead = FoundUnder(args) /\ IsListing(FoundUnder(args))
    BY <1>1, <1>3, <1>4, AheadIs
  <2>2. Found = done \o Ahead
    <3>1. << >> \o FoundUnder(args) = FoundUnder(args)
      BY <2>1, Concats
    <3> QED
      BY <2>1, <3>1 DEF Found
  <2>3. IsListing(done) /\ Len(done) = Len(Seen) /\ Len(done) = 0 /\ Len(opened) = 0
    BY <1>1, ListingsAre DEF Seen, InHand
  <2> HIDE DEF done
  <2>4. SightsAre(done)
    BY <1>1, <2>2, <2>3 DEF SightsAre, InHand
  <2> QED
    BY <2>4 DEF SightInv
<1>6. StoreInv
  <2> DEFINE all == << >>
  <2>1. IsListing(all) /\ all \o << >> = all /\ ToSet(all) = {}
    BY ListingsAre DEF ToSet
  <2>2. AllStored = all
    BY <1>1, NoneAmong DEF AllStored, StoredOfAll
  <2>3. objects = LastAmong(all) /\ bindings = BindingsAmong(all)
    BY <1>1, NoneAmong
  <2>4. Waiting = << >>
    BY <1>1 DEF Waiting
  <2> HIDE DEF all
  <2>5. StoresAre(all)
    BY <2>1, <2>2, <2>3, <2>4 DEF StoresAre
  <2> QED
    BY <2>5 DEF StoreInv
<1> QED
  BY <1>3, <1>4, <1>5, <1>6 DEF LoaderInv

LEMMA LoaderSteps == LoaderInv /\ [Next]_vars => LoaderInv'
<1> SUFFICES ASSUME LoaderInv, [Next]_vars PROVE LoaderInv'
  OBVIOUS
<1>1. CallInv /\ WalkInv /\ SightInv /\ StoreInv
  BY DEF LoaderInv
<1>2. WalkInv'
  BY <1>1, WalkStep
<1>3. CallInv'
  BY <1>1, CallStep
<1>4. SightInv'
  BY <1>1, <1>2, <1>3, SightStep
<1>5. StoreInv'
  BY <1>1, <1>3, StoreStep
<1> QED
  BY <1>2, <1>3, <1>4, <1>5 DEF LoaderInv

THEOREM LoaderInvariant == Spec => []LoaderInv
  BY LoaderStarts, LoaderSteps, PTL DEF Spec

\* Nothing is left of the path list or of a walk that the call was not given, a
\* file is open whenever one is handled, and the maps and the slices hold what
\* belongs in each.
THEOREM LoaderTypes == Spec => []TypeOK
<1>1. LoaderInv => TypeOK
  <2> SUFFICES ASSUME LoaderInv PROVE TypeOK
    OBVIOUS
  <2>1. CallInv /\ StoreInv
    BY DEF LoaderInv
  <2>2. IsSuffix(paths, args)
    <3> DEFINE N == Len(args)
    <3>1. args \in Seq(ToSet(args))
      BY <2>1, ArgumentsAre DEF CallInv
    <3>2. PICK k \in 0 .. N : paths = Behind(args, k)
      BY <2>1 DEF CallInv, PathsLeft
    <3>3. /\ N \in Nat /\ Len(paths) = N - k
          /\ \A i \in 1 .. N - k : paths[i] = args[k + i]
      BY <3>1, <3>2 DEF Behind
    <3> HIDE DEF N
    <3> DEFINE M == Len(paths)
               a == Reverse(paths)
               b == Reverse(args)
    <3>4. /\ a = [i \in 1 .. M |-> paths[(M - i) + 1]] /\ b = [i \in 1 .. N |-> args[(N - i) + 1]]
          /\ M = N - k /\ M \in Nat /\ M <= N
      BY <3>2, <3>3 DEF Reverse, N
    <3>5. ASSUME NEW i \in 1 .. M PROVE a[i] = b[i]
      <4>1. /\ (M - i) + 1 \in 1 .. N - k /\ k + ((M - i) + 1) = (N - i) + 1 /\ i \in 1 .. N
        BY <3>2, <3>3, <3>4
      <4> HIDE DEF a, b, M
      <4>2. a[i] = paths[(M - i) + 1] /\ b[i] = args[(N - i) + 1]
        BY <3>4, <4>1
      <4> QED
        BY <3>3, <4>1, <4>2
    <3>6. a \in Seq(ToSet(args)) /\ b \in Seq(ToSet(args)) /\ Len(a) = M /\ Len(b) = N
      <4> DEFINE T == ToSet(args)
      <4>1. paths \in Seq(T)
        BY <2>1, PathSteps DEF CallInv
      <4> HIDE DEF T
      <4>2. a \in Seq(T) /\ Len(a) = M
        BY <4>1 DEF Reverse
      <4>3. b \in Seq(T) /\ Len(b) = N
        BY <3>1 DEF Reverse, N, T
      <4> QED
        BY <4>2, <4>3 DEF T
    <3> HIDE DEF a, b, M
    <3>7. SubSeq(a, 1, M) = SubSeq(b, 1, M)
      <4>1. SubSeq(a, 1, M) = [i \in 1 .. M |-> a[i]] /\ SubSeq(b, 1, M) = [i \in 1 .. M |-> b[i]]
        BY <3>4, <3>6
      <4> QED
        BY <3>5, <4>1
    <3> QED
      BY <3>4, <3>6, <3>7 DEF IsSuffix, IsPrefix, a, b
  <2>3. pc \in {"file", "read", "docs"} => file # NoFile
    <3> DEFINE empty == ""
    <3>1. NoFile = [name |-> empty]
      BY Zenon DEF NoFile
    <3> HIDE DEF empty
    <3>2. DOMAIN NoFile = {"name"}
      BY <3>1
    <3>3. ASSUME Handling PROVE file # NoFile
      <4>1. PICK n, y, r, s, d, m :
              file = [name |-> n, yaml |-> y, readable |-> r, size |-> s, docs |-> d, more |-> m]
        BY <2>1, <3>3 DEF CallInv, IsFile
      <4>2. "yaml" \in DOMAIN file
        BY <4>1
      <4> QED
        BY <3>2, <4>2
    <3> QED
      BY <3>3 DEF Handling
  <2>4. PICK all : StoresAre(all)
    BY <2>1 DEF StoreInv
  <2>5. \A o \in objects : o.key[1] \notin BindingKinds
    BY <2>4 DEF StoresAre, LastAmong, IsBinding
  <2>6. \A n \in DOMAIN bindings : bindings[n].key[1] \in BindingKinds
    <3>1. CASE all = << >>
      BY <2>4, <3>1, NoneAmong DEF StoresAre
    <3>2. CASE all # << >>
      <4> DEFINE S == ToSet(all)
      <4>1. all \in Seq(S)
        BY <2>4 DEF StoresAre, IsListing
      <4>2. Head(all) \in S
        <5> HIDE DEF S
        <5> QED
          BY <3>2, <4>1
      <4> HIDE DEF S
      <4>3. \A n \in DOMAIN BindingsAmong(all) : IsBinding(BindingsAmong(all)[n])
        BY <4>1, <4>2, BindingsNext
      <4> QED
        BY <2>4, <4>3 DEF StoresAre, IsBinding
    <3> QED
      BY <3>1, <3>2
  <2>7. back = "paths" /\ pc \in {"file", "read", "docs"} => entries = << >>
    BY <2>1 DEF CallInv, Handling
  <2> QED
    BY <2>1, <2>2, <2>3, <2>5, <2>6, <2>7 DEF TypeOK, CallInv
<1> QED
  BY <1>1, LoaderInvariant, PTL

\* At the end nothing is ahead.
LEMMA AtTheEnd ==
  ASSUME LoaderInv, pc = "loaded"
  PROVE  /\ SightsAre(Found) /\ IsListing(opened) /\ Len(opened) = Len(Found)
         /\ StoresAre(AllStored)
<1>1. CallInv /\ WalkInv /\ SightInv /\ StoreInv
  BY DEF LoaderInv
<1>2. paths = << >> /\ entries = << >> /\ IsListing(opened)
  BY <1>1 DEF CallInv, Handling
<1>3. Ahead = << >>
  BY <1>1, <1>2, AheadIs, NoneFound
<1>4. PICK done : SightsAre(done)
  BY <1>1 DEF SightInv
<1>5. IsListing(done) /\ Found = done \o << >> /\ Len(done) = Len(opened)
  BY <1>3, <1>4 DEF SightsAre, Seen, InHand
<1>6. Found = done
  BY <1>5, Concats
<1>7. PICK all : StoresAre(all)
  BY <1>1 DEF StoreInv
<1>8. IsListing(all) /\ AllStored = all \o << >>
  BY <1>7 DEF StoresAre, Waiting
<1>9. AllStored = all
  BY <1>8, Concats
<1> QED
  BY <1>2, <1>4, <1>5, <1>6, <1>7, <1>9

\* Whatever the tree: a call that succeeds has read every file that counts, once
\* for each way it was named, and returns the last object under each key and all
\* the bindings; a missing path fails it.
THEOREM LoadKeepsContract == Spec => []LoadContract
<1>1. LoaderInv => LoadContract
  <2> SUFFICES ASSUME LoaderInv PROVE LoadContract
    OBVIOUS
  <2>1. CallInv
    BY DEF LoaderInv
  <2>2. ASSUME pc = "loaded"
        PROVE  /\ Len(opened) = Len(Found)
               /\ \A n \in DOMAIN opened : IsReadOf(opened[n], Found[n].file)
               /\ objects = LastAmong(AllStored)
               /\ bindings = BindingsAmong(AllStored)
    <3>1. /\ SightsAre(Found) /\ IsListing(opened) /\ Len(opened) = Len(Found)
          /\ StoresAre(AllStored)
      BY <2>2, AtTheEnd
    <3>2. DOMAIN opened = 1 .. Len(Found)
      BY <3>1 DEF IsListing
    <3>3. Seen = opened
      BY <2>2 DEF Seen, InHand
    <3> QED
      BY <3>1, <3>2, <3>3 DEF SightsAre, StoresAre
  <2>3. args \in Seq(ToSet(args))
    BY <2>1, ArgumentsAre DEF CallInv
  <2>4. PICK k \in 0 .. Len(args) :
          paths = Behind(args, k) /\ \A n \in 1 .. k : args[n].type # "missing"
    BY <2>1 DEF CallInv, PathsLeft
  <2> DEFINE T == ToSet(args)
  <2> HIDE DEF T
  <2>5. /\ Len(paths) = Len(args) - k
        /\ paths # << >> => k + 1 \in 1 .. Len(args) /\ Head(paths) = args[k + 1]
    BY <2>3, <2>4, RestSteps DEF Behind
  <2>6. DOMAIN args = 1 .. Len(args) /\ Len(args) \in Nat
    BY <2>3
  <2>7. ASSUME pc = "error" PROVE Returned /\ \E n \in DOMAIN args : args[n].type = "missing"
    BY <2>1, <2>5, <2>6, <2>7 DEF CallInv, Returned
  <2>8. ASSUME pc = "loaded" PROVE ~\E n \in DOMAIN args : args[n].type = "missing"
    <3>1. Len(paths) = 0
      BY <2>1, <2>8 DEF CallInv
    <3>2. k = Len(args)
      BY <2>4, <2>5, <2>6, <3>1
    <3> QED
      BY <2>4, <2>6, <3>2
  <2> QED
    BY <2>2, <2>7, <2>8 DEF LoadContract, Returned
<1> QED
  BY <1>1, LoaderInvariant, PTL

\* Whatever the tree: of what a directory holds nothing is lost that stderr does
\* not name.
THEOREM LossesNamed == Spec => []LossesReported
<1>1. LoaderInv => LossesReported
  <2> SUFFICES ASSUME LoaderInv, pc = "loaded"
               PROVE  /\ \A n \in DOMAIN opened :
                           Found[n].by = "dir" /\ ~IsTaken(opened[n]) =>
                             [about |-> <<"skipping">>, file |-> opened[n].name] \in warnings
                      /\ \A o \in ToSet(AllStored) :
                           ~IsBinding(o) /\ o \notin objects =>
                             \E w \in warnings : w.about = o.key
    BY DEF LossesReported
  <2>1. SightsAre(Found) /\ IsListing(opened) /\ StoresAre(AllStored)
    BY AtTheEnd
  <2>2. DOMAIN opened = 1 .. Len(opened)
    BY <2>1 DEF IsListing
  <2> QED
    BY <2>1, <2>2 DEF SightsAre, StoresAre
<1> QED
  BY <1>1, LoaderInvariant, PTL

=============================================================================
