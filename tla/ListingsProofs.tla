--------------------------- MODULE ListingsProofs ---------------------------
(***************************************************************************)
(* What Listed returns, for every finite set: each element at one place.   *)
(*                                                                         *)
(* Listed is a fold, and a fold is a choice: FoldSet chooses a function on *)
(* the subsets of the set that satisfies the equation of the recursion.    *)
(* The proof shows first that there is exactly one (ListsExist), then what *)
(* it yields (ListedOnce).  Both inductions are over the finite subsets,   *)
(* and take the form of a least counterexample: strict inclusion between   *)
(* finite sets is well founded, so a nonempty family of them has a least   *)
(* one (LeastSet).                                                         *)
(*                                                                         *)
(* The lemmas after them are about Sublist, FlattenSeq and the place of a  *)
(* pod specification in a document, which more than one module uses.       *)
(***************************************************************************)
EXTENDS Listings, Documents, Integers, SequencesExt, FiniteSetTheorems, SequenceTheorems, TLAPS

\* A nonempty family of finite sets has one that contains no other of them.
LEMMA LeastSet ==
  ASSUME NEW S, NEW T, T \subseteq FiniteSubsetsOf(S), T # {}
  PROVE  \E x \in T : \A y \in T : ~(y \subseteq x /\ y # x)
<1>1. IsWellFoundedOn(StrictSubsetOrdering(S), FiniteSubsetsOf(S))
  BY FS_StrictSubsetOrderingWellFounded
<1>2. PICK x \in T : \A y \in T : <<y, x>> \notin StrictSubsetOrdering(S)
  BY <1>1, WFMin, Zenon
<1>3. ASSUME NEW y \in T, y \subseteq x, y # x PROVE FALSE
  <2>1. y \in SUBSET S /\ x \in SUBSET S
    BY DEF FiniteSubsetsOf
  <2>2. <<y, x>> \in StrictSubsetOrdering(S)
    BY <1>3, <2>1 DEF StrictSubsetOrdering
  <2> QED
    BY <1>2, <2>2
<1>4. \A y \in T : ~(y \subseteq x /\ y # x)
  BY <1>3
<1> QED
  BY <1>4

\* The image of a finite set is finite.
LEMMA FiniteRange ==
  ASSUME NEW S, IsFiniteSet(S), NEW f
  PROVE  IsFiniteSet({f[x] : x \in S})
<1> DEFINE T == {f[x] : x \in S}
           g == [x \in S |-> f[x]]
<1>1. g \in Surjection(S, T)
  BY DEF Surjection
<1> HIDE DEF g, T
<1>2. IsFiniteSet(T)
  BY <1>1, FS_Surjection
<1> QED
  BY <1>2 DEF T

\* A nonempty set of naturals has a least one.
LEMMA LeastNumber ==
  ASSUME NEW K, K \subseteq Nat, K # {}
  PROVE  \E k \in K : \A j \in K : k <= j
<1> DEFINE T == {1 .. k : k \in K}
<1>1. T \subseteq FiniteSubsetsOf(Nat) /\ T # {}
  <2>1. \A k \in K : IsFiniteSet(1 .. k) /\ 1 .. k \subseteq Nat
    BY FS_Interval
  <2> QED
    BY <2>1 DEF FiniteSubsetsOf
<1> HIDE DEF T
<1>2. PICK x \in T : \A y \in T : ~(y \subseteq x /\ y # x)
  BY <1>1, LeastSet
<1>3. PICK k \in K : x = 1 .. k
  BY DEF T
<1>4. ASSUME NEW j \in K PROVE k <= j
  <2>1. 1 .. j \in T
    BY DEF T
  <2>2. ~(1 .. j \subseteq 1 .. k /\ 1 .. j # 1 .. k)
    BY <1>2, <1>3, <2>1
  <2>3. j < k => 1 .. j \subseteq 1 .. k /\ k \in 1 .. k /\ k \notin 1 .. j
    OBVIOUS
  <2> QED
    BY <2>2, <2>3
<1> QED
  BY <1>4

-----------------------------------------------------------------------------
(* The recursion of the fold.                                              *)

\* The element a step of the fold takes, which is listed last.
LastOf(s) == CHOOSE x \in s : TRUE

\* The step: all but one element, then that one.
ListStep(list, s) == IF s = {} THEN << >> ELSE Append(list[s \ {LastOf(s)}], LastOf(s))

\* The equation of the recursion, over the subsets of s.
Lists(list, s) == list = [t \in SUBSET s |-> ListStep(list, t)]

\* What satisfies the equation over s does so over the subsets of s.
LEMMA RestrictedLists ==
  ASSUME NEW s, NEW t, t \subseteq s, NEW list, Lists(list, s)
  PROVE  Lists([u \in SUBSET t |-> list[u]], t)
<1> DEFINE cut == [u \in SUBSET t |-> list[u]]
<1>1. ASSUME NEW u \in SUBSET t PROVE cut[u] = ListStep(cut, u)
  <2>1. u \in SUBSET s /\ u \ {LastOf(u)} \in SUBSET t
    OBVIOUS
  <2>2. list[u] = ListStep(list, u)
    BY <2>1 DEF Lists
  <2>3. ListStep(cut, u) = ListStep(list, u)
    BY <2>1 DEF ListStep
  <2> QED
    BY <2>2, <2>3
<1> QED
  BY <1>1 DEF Lists

\* The equation has exactly one solution.
ListedOneWay(s) ==
  /\ \E list : Lists(list, s)
  /\ \A l1, l2 : Lists(l1, s) /\ Lists(l2, s) => l1 = l2

\* It does over every finite set.  In a least set for which it did not, every proper
\* subset would have its own solution; they agree with each other (step 5), and
\* put together they solve the equation for the set itself (steps 6 and 7).
LEMMA ListsExist ==
  ASSUME NEW S, IsFiniteSet(S)
  PROVE  ListedOneWay(S)
<1> DEFINE T == {s \in FiniteSubsetsOf(S) : ~ListedOneWay(s)}
<1> SUFFICES ASSUME T # {} PROVE FALSE
  <2>1. S \in FiniteSubsetsOf(S)
    BY DEF FiniteSubsetsOf
  <2> QED
    BY <2>1
<1>1. PICK s \in T : \A t \in T : ~(t \subseteq s /\ t # s)
  <2>1. T \subseteq FiniteSubsetsOf(S)
    OBVIOUS
  <2> HIDE DEF T
  <2> QED
    BY <2>1, LeastSet
<1>2. ASSUME NEW t, t \subseteq s, t # s PROVE ListedOneWay(t)
  <2>1. t \in FiniteSubsetsOf(S)
    BY <1>2, FS_Subset DEF FiniteSubsetsOf
  <2> QED
    BY <1>1, <1>2, <2>1
<1> HIDE DEF T
<1> DEFINE A(t) == CHOOSE list : Lists(list, t)
           rest == s \ {LastOf(s)}
<1>3. s # {} => rest \subseteq s /\ rest # s
  BY DEF LastOf
<1>4. ASSUME NEW t, t \subseteq s, t # s PROVE Lists(A(t), t)
  BY <1>2, <1>4 DEF ListedOneWay
<1> HIDE DEF A
<1>5. ASSUME NEW t, t \subseteq s, t # s, NEW u, u \subseteq t
      PROVE  A(t)[u] = A(u)[u]
  <2> DEFINE cut == [v \in SUBSET u |-> A(t)[v]]
  <2>1. Lists(cut, u)
    BY <1>4, <1>5, RestrictedLists
  <2>2. u \subseteq s /\ u # s
    BY <1>5
  <2>3. Lists(A(u), u) /\ ListedOneWay(u)
    BY <1>2, <1>4, <2>2
  <2>4. cut = A(u)
    BY <2>1, <2>3 DEF ListedOneWay
  <2>5. cut[u] = A(t)[u]
    OBVIOUS
  <2> QED
    BY <2>4, <2>5
<1> DEFINE f == [t \in SUBSET s |->
                   IF t # s THEN A(t)[t]
                   ELSE IF s = {} THEN << >> ELSE Append(A(rest)[rest], LastOf(s))]
<1>6. \A t \in SUBSET s : f[t] = ListStep(f, t)
  <2> SUFFICES ASSUME NEW t \in SUBSET s PROVE f[t] = ListStep(f, t)
    OBVIOUS
  <2>1. CASE t = s
    BY <1>3, <2>1 DEF ListStep
  <2>2. CASE t # s
    <3> DEFINE u == t \ {LastOf(t)}
    <3>1. f[t] = A(t)[t]
      BY <2>2
    <3>2. A(t)[t] = ListStep(A(t), t)
      <4>1. Lists(A(t), t)
        BY <1>4, <2>2
      <4> QED
        BY <4>1 DEF Lists
    <3>3. CASE t = {}
      BY <3>1, <3>2, <3>3 DEF ListStep
    <3>4. CASE t # {}
      <4>1. u \subseteq t /\ u # t /\ u \in SUBSET s /\ u # s
        BY <2>2, <3>4 DEF LastOf
      <4>2. A(t)[u] = A(u)[u]
        BY <1>5, <2>2, <4>1
      <4>3. f[u] = A(u)[u]
        BY <4>1
      <4> HIDE DEF f, u
      <4> QED
        BY <3>1, <3>2, <3>4, <4>2, <4>3 DEF ListStep, u
    <3> QED
      BY <3>3, <3>4
  <2> QED
    BY <2>1, <2>2
<1>7. Lists(f, s)
  BY <1>6 DEF Lists
<1>8. ASSUME NEW l1, NEW l2, Lists(l1, s), Lists(l2, s) PROVE l1 = l2
  <2>1. ASSUME NEW t, t \subseteq s, t # s PROVE l1[t] = l2[t]
    <3> DEFINE c1 == [v \in SUBSET t |-> l1[v]]
               c2 == [v \in SUBSET t |-> l2[v]]
    <3>1. Lists(c1, t) /\ Lists(c2, t)
      BY <1>8, <2>1, RestrictedLists
    <3>2. c1 = c2
      BY <1>2, <2>1, <3>1 DEF ListedOneWay
    <3>3. c1[t] = l1[t] /\ c2[t] = l2[t]
      OBVIOUS
    <3> QED
      BY <3>2, <3>3
  <2>2. l1[s] = l2[s]
    <3>1. l1[s] = ListStep(l1, s) /\ l2[s] = ListStep(l2, s)
      BY <1>8 DEF Lists
    <3> QED
      BY <1>3, <2>1, <3>1 DEF ListStep
  <2>3. \A t \in SUBSET s : l1[t] = l2[t]
    BY <2>1, <2>2
  <2>4. l1 = [t \in SUBSET s |-> l1[t]] /\ l2 = [t \in SUBSET s |-> l2[t]]
    BY <1>8 DEF Lists
  <2> QED
    BY <2>3, <2>4
<1>9. ListedOneWay(s)
  BY <1>7, <1>8 DEF ListedOneWay
<1> QED
  BY <1>1, <1>9 DEF T

\* The choice that FoldSet makes, with Append as its operation.
Iteration(S) ==
  CHOOSE iter : iter =
    [s \in SUBSET S |-> IF s = {} THEN << >>
                        ELSE LET x == CHOOSE x \in s : TRUE
                             IN  Append(iter[s \ {x}], x)]

\* Listed is the fold, read off its definition.
LEMMA ListedUnfolded ==
  ASSUME NEW S
  PROVE  Listed(S) = Iteration(S)[S]
BY Zenon DEF Listed, FoldSet, MapThenFoldSet, Iteration

\* The choice satisfies the equation.
LEMMA IterLists ==
  ASSUME NEW S, IsFiniteSet(S)
  PROVE  Lists(Iteration(S), S)
<1>1. \E list : Lists(list, S)
  BY ListsExist DEF ListedOneWay
<1>2. Iteration(S) = CHOOSE list : Lists(list, S)
  BY Zenon DEF Iteration, Lists, ListStep, LastOf
<1> QED
  BY <1>1, <1>2

-----------------------------------------------------------------------------
(* What it yields.                                                         *)

\* The list holds the elements of the set, each at one place.
ListsOnce(list, s) ==
  /\ list \in Seq(s)
  /\ {list[n] : n \in DOMAIN list} = s
  /\ \A m, n \in DOMAIN list : list[m] = list[n] => m = n

\* A new element at the end keeps it so.
LEMMA OneMore ==
  ASSUME NEW s, NEW x, x \notin s, NEW list, ListsOnce(list, s)
  PROVE  ListsOnce(Append(list, x), s \cup {x})
<1> DEFINE more == Append(list, x)
           N    == Len(list)
<1>1. /\ N \in Nat /\ DOMAIN list = 1 .. N
      /\ DOMAIN more = 1 .. N + 1
      /\ \A n \in 1 .. N : more[n] = list[n]
      /\ more[N + 1] = x
  BY DEF ListsOnce
<1>2. more \in Seq(s \cup {x})
  <2>1. list \in Seq(s \cup {x})
    BY DEF ListsOnce
  <2> QED
    BY <2>1
<1>3. {more[n] : n \in DOMAIN more} = s \cup {x}
  <2>1. ASSUME NEW y \in s PROVE \E n \in DOMAIN more : more[n] = y
    <3>1. PICK n \in DOMAIN list : list[n] = y
      BY DEF ListsOnce
    <3> QED
      BY <1>1, <3>1
  <2>2. \E n \in DOMAIN more : more[n] = x
    BY <1>1
  <2>3. ASSUME NEW n \in DOMAIN more PROVE more[n] \in s \cup {x}
    BY <1>1 DEF ListsOnce
  <2> HIDE DEF more
  <2> QED
    BY <2>1, <2>2, <2>3
<1>4. \A m, n \in DOMAIN more : more[m] = more[n] => m = n
  BY <1>1 DEF ListsOnce
<1> QED
  BY <1>2, <1>3, <1>4 DEF ListsOnce

\* Listed turns every finite set into a list of its elements without repetition:
\* nothing is lost and nothing is doubled when findings or objects are put in order.
THEOREM ListedOnce ==
  ASSUME NEW S, IsFiniteSet(S)
  PROVE  ListsOnce(Listed(S), S)
<1> DEFINE it == Iteration(S)
           T == {s \in FiniteSubsetsOf(S) : ~ListsOnce(it[s], s)}
<1>1. \A s \in SUBSET S : it[s] = ListStep(it, s)
  BY IterLists DEF Lists
<1> HIDE DEF it
<1>2. ASSUME T # {} PROVE FALSE
  <2>1. PICK s \in T : \A t \in T : ~(t \subseteq s /\ t # s)
    <3>1. T \subseteq FiniteSubsetsOf(S)
      OBVIOUS
    <3> HIDE DEF T
    <3> QED
      BY <1>2, <3>1, LeastSet
  <2>2. s \in SUBSET S /\ IsFiniteSet(s)
    BY DEF FiniteSubsetsOf
  <2>3. ListsOnce(it[s], s)
    <3>1. CASE s = {}
      <4>1. it[s] = << >>
        BY <1>1, <2>2, <3>1 DEF ListStep
      <4> QED
        BY <3>1, <4>1 DEF ListsOnce
    <3>2. CASE s # {}
      <4> DEFINE x == LastOf(s)
                 t == s \ {x}
      <4>1. x \in s /\ t \subseteq s /\ t # s /\ s = t \cup {x} /\ x \notin t
        BY <3>2 DEF LastOf
      <4>2. t \in FiniteSubsetsOf(S)
        BY <2>2, <4>1, FS_Subset DEF FiniteSubsetsOf
      <4>3. it[s] = Append(it[t], x)
        BY <1>1, <2>2, <3>2 DEF ListStep
      <4> HIDE DEF x, t
      <4>4. ListsOnce(it[t], t)
        BY <2>1, <4>1, <4>2
      <4> QED
        BY <4>1, <4>3, <4>4, OneMore
    <3> QED
      BY <3>1, <3>2
  <2> QED
    BY <2>1, <2>3
<1>3. ListsOnce(it[S], S)
  <2>1. S \in FiniteSubsetsOf(S)
    BY DEF FiniteSubsetsOf
  <2> QED
    BY <1>2, <2>1
<1> QED
  BY <1>3, ListedUnfolded DEF it

-----------------------------------------------------------------------------
(* The part of a list at the positions kept.                               *)

\* What is left of the first n elements, from what is left of those before the
\* n-th.
SublistStep(upTo, list, kept, n) ==
  IF n = 0 THEN << >>
  ELSE IF n \in kept THEN Append(upTo[n - 1], list[n])
  ELSE upTo[n - 1]

\* upTo[n] is left of the first n elements, for every n up to N.
LeavesUpTo(upTo, list, kept, N) ==
  upTo = [n \in 0 .. N |-> SublistStep(upTo, list, kept, n)]

LeavesSome(list, kept, N) == \E upTo : LeavesUpTo(upTo, list, kept, N)

\* The recursive function of Sublist.
UpTo(list, kept) ==
  CHOOSE upTo : upTo = [n \in 0 .. Len(list) |->
                          IF n = 0 THEN << >>
                          ELSE IF n \in kept THEN Append(upTo[n - 1], list[n])
                          ELSE upTo[n - 1]]

\* Sublist is the last value of such a function.
LEMMA SublistUnfolded ==
  ASSUME NEW list, NEW kept
  PROVE  Sublist(list, kept) = UpTo(list, kept)[Len(list)]
BY Zenon DEF Sublist, UpTo

\* There is such a function for every length: the least length without one would
\* have a predecessor with one.
LEMMA SublistsExist ==
  ASSUME NEW list, NEW kept, NEW N \in Nat
  PROVE  LeavesSome(list, kept, N)
<1> DEFINE K == {k \in Nat : ~LeavesSome(list, kept, k)}
<1> SUFFICES ASSUME K # {} PROVE FALSE
  OBVIOUS
<1>1. PICK k \in K : \A j \in K : k <= j
  BY LeastNumber
<1>2. CASE k = 0
  <2> DEFINE one == [n \in 0 .. 0 |-> << >>]
  <2>1. one = [n \in 0 .. 0 |-> SublistStep(one, list, kept, n)]
    BY DEF SublistStep
  <2>2. LeavesUpTo(one, list, kept, 0)
    BY <2>1 DEF LeavesUpTo
  <2> HIDE DEF one
  <2> QED
    BY <1>1, <1>2, <2>2 DEF LeavesSome
<1>3. CASE k # 0
  <2>1. k \in Nat /\ k - 1 \in Nat /\ LeavesSome(list, kept, k - 1)
    BY <1>1, <1>3
  <2>2. PICK upTo : LeavesUpTo(upTo, list, kept, k - 1)
    BY <2>1 DEF LeavesSome
  <2> DEFINE more == [n \in 0 .. k |-> IF n = k THEN SublistStep(upTo, list, kept, k) ELSE upTo[n]]
  <2>3. ASSUME NEW n \in 0 .. k
        PROVE  more[n] = SublistStep(more, list, kept, n)
    <3>1. CASE n = k
      <4>1. more[k - 1] = upTo[k - 1]
        BY <2>1
      <4> QED
        BY <3>1, <4>1, <1>3 DEF SublistStep
    <3>2. CASE n # k
      <4>1. n \in 0 .. k - 1 /\ (n # 0 => n - 1 \in 0 .. k - 1)
        BY <3>2, <2>1
      <4>2. upTo[n] = SublistStep(upTo, list, kept, n)
        BY <4>1, <2>2 DEF LeavesUpTo
      <4>3. n # 0 => more[n - 1] = upTo[n - 1]
        BY <4>1, <2>1
      <4>4. more[n] = upTo[n]
        BY <3>2
      <4> QED
        BY <4>2, <4>3, <4>4 DEF SublistStep
    <3> QED
      BY <3>1, <3>2
  <2>4. more = [n \in 0 .. k |-> more[n]]
    OBVIOUS
  <2> HIDE DEF more
  <2>5. LeavesUpTo(more, list, kept, k)
    BY <2>3, <2>4 DEF LeavesUpTo
  <2> QED
    BY <1>1, <2>5 DEF LeavesSome
<1> QED
  BY <1>2, <1>3

\* So the one that is chosen has those values, at every position.
LEMMA UpToLeaves ==
  ASSUME NEW S, NEW list \in Seq(S), NEW kept
  PROVE  LeavesUpTo(UpTo(list, kept), list, kept, Len(list))
<1>1. Len(list) \in Nat
  OBVIOUS
<1>2. LeavesSome(list, kept, Len(list))
  BY <1>1, SublistsExist
<1>3. UpTo(list, kept) = CHOOSE upTo : LeavesUpTo(upTo, list, kept, Len(list))
  BY Zenon DEF UpTo, LeavesUpTo, SublistStep
<1> QED
  BY <1>2, <1>3 DEF LeavesSome

\* What has been kept of the first n elements, at which of their places, in order.
Places(place, part, list, kept, n) ==
  /\ place \in [DOMAIN part -> kept \cap (1 .. n)]
  /\ \A i \in DOMAIN part : part[i] = list[place[i]]
  /\ \A i, j \in DOMAIN part : i < j => place[i] < place[j]
  /\ \A m \in kept \cap (1 .. n) : \E i \in DOMAIN part : place[i] = m

KeptOf(part, S, list, kept, n) ==
  part \in Seq(S) /\ \E place : Places(place, part, list, kept, n)

\* One element more is kept.
LEMMA KeptNext ==
  ASSUME NEW S, NEW list, NEW kept, NEW n \in Nat, n \in kept, n # 0, list[n] \in S,
         NEW part, KeptOf(part, S, list, kept, n - 1)
  PROVE  KeptOf(Append(part, list[n]), S, list, kept, n)
<1> DEFINE more == Append(part, list[n])
           N    == Len(part)
<1>1. /\ N \in Nat /\ DOMAIN part = 1 .. N
      /\ DOMAIN more = 1 .. N + 1
      /\ \A i \in 1 .. N : more[i] = part[i]
      /\ more[N + 1] = list[n]
      /\ more \in Seq(S)
  BY DEF KeptOf
<1>2. /\ kept \cap (1 .. n) = (kept \cap (1 .. n - 1)) \cup {n}
      /\ n \in kept \cap (1 .. n)
      /\ \A m \in kept \cap (1 .. n - 1) : m \in Nat /\ m < n
  OBVIOUS
<1>3. PICK place : Places(place, part, list, kept, n - 1)
  BY DEF KeptOf
<1> HIDE DEF more, N
<1> DEFINE next == [i \in 1 .. N + 1 |-> IF i = N + 1 THEN n ELSE place[i]]
<1>4. /\ \A i \in 1 .. N : next[i] = place[i] /\ place[i] \in kept \cap (1 .. n - 1)
      /\ next[N + 1] = n /\ DOMAIN next = 1 .. N + 1
      /\ \A i \in 1 .. N + 1 : i # N + 1 => i \in 1 .. N
  BY <1>1, <1>3 DEF Places
<1>5. next \in [DOMAIN more -> kept \cap (1 .. n)]
  BY <1>1, <1>2, <1>4
<1> HIDE DEF next
<1>6. \A i \in DOMAIN more : more[i] = list[next[i]]
  BY <1>1, <1>3, <1>4 DEF Places
<1>7. ASSUME NEW i \in DOMAIN more, NEW j \in DOMAIN more, i < j PROVE next[i] < next[j]
  <2>1. i \in 1 .. N
    BY <1>1, <1>7
  <2>2. CASE j = N + 1
    BY <1>2, <1>4, <2>1, <2>2
  <2>3. CASE j # N + 1
    BY <1>1, <1>3, <1>4, <1>7, <2>1, <2>3 DEF Places
  <2> QED
    BY <2>2, <2>3
<1>8. ASSUME NEW m \in kept \cap (1 .. n) PROVE \E i \in DOMAIN more : next[i] = m
  <2>1. CASE m = n
    <3>1. N + 1 \in DOMAIN more
      BY <1>1
    <3> QED
      BY <1>4, <2>1, <3>1
  <2>2. CASE m # n
    <3>1. PICK i \in DOMAIN part : place[i] = m
      BY <1>2, <1>3, <2>2 DEF Places
    <3>2. i \in 1 .. N /\ i \in DOMAIN more
      BY <1>1, <3>1
    <3> QED
      BY <1>4, <3>1, <3>2
  <2> QED
    BY <2>1, <2>2
<1>9. Places(next, more, list, kept, n)
  BY <1>5, <1>6, <1>7, <1>8 DEF Places
<1> QED
  BY <1>1, <1>9 DEF KeptOf, more

\* Sublist takes the elements at the positions named one by one, in their order: no
\* position is left out, and none is taken twice.
THEOREM SublistInOrder ==
  ASSUME NEW S, NEW list \in Seq(S), NEW kept \in SUBSET DOMAIN list
  PROVE  /\ Sublist(list, kept) \in Seq(S)
         /\ \E place : Places(place, Sublist(list, kept), list, kept, Len(list))
<1> DEFINE upTo == UpTo(list, kept)
           N    == Len(list)
           K    == {k \in 0 .. N : ~KeptOf(upTo[k], S, list, kept, k)}
<1>1. N \in Nat /\ DOMAIN list = 1 .. N /\ (\A n \in 1 .. N : list[n] \in S)
  OBVIOUS
<1>2. \A n \in 0 .. N : upTo[n] = SublistStep(upTo, list, kept, n)
  BY UpToLeaves DEF LeavesUpTo
<1> HIDE DEF upTo
<1>3. ASSUME K # {} PROVE FALSE
  <2>0. K \subseteq Nat
    BY <1>1
  <2>1. PICK k \in K : \A j \in K : k <= j
    BY <1>3, <2>0, LeastNumber, Zenon
  <2>2. k \in 0 .. N /\ upTo[k] = SublistStep(upTo, list, kept, k)
    BY <1>2
  <2>3. CASE k = 0
    <3>1. upTo[k] = << >>
      BY <2>2, <2>3 DEF SublistStep
    <3>2. kept \cap (1 .. 0) = {}
      OBVIOUS
    <3>3. Places(<< >>, << >>, list, kept, 0)
      BY <3>2 DEF Places
    <3>4. KeptOf(upTo[k], S, list, kept, k)
      BY <3>1, <3>3, <2>3 DEF KeptOf
    <3> QED
      BY <3>4
  <2>4. CASE k # 0
    <3>1. k - 1 \in 0 .. N /\ k \in Nat /\ k - 1 < k
      BY <2>2, <2>4, <1>1
    <3>2. KeptOf(upTo[k - 1], S, list, kept, k - 1)
      <4>1. k - 1 \notin K
        BY <2>0, <2>1, <3>1
      <4> QED
        BY <4>1, <3>1
    <3>3. CASE k \in kept
      <4>1. upTo[k] = Append(upTo[k - 1], list[k])
        BY <2>2, <2>4, <3>3 DEF SublistStep
      <4>2. list[k] \in S
        BY <1>1, <2>2, <2>4
      <4>3. KeptOf(upTo[k], S, list, kept, k)
        BY <4>1, <4>2, <3>1, <3>2, <3>3, <2>4, KeptNext
      <4> QED
        BY <4>3
    <3>4. CASE k \notin kept
      <4>1. upTo[k] = upTo[k - 1]
        BY <2>2, <2>4, <3>4 DEF SublistStep
      <4>2. kept \cap (1 .. k) = kept \cap (1 .. k - 1)
        BY <3>1, <3>4
      <4>3. KeptOf(upTo[k], S, list, kept, k)
        BY <4>1, <4>2, <3>2 DEF KeptOf, Places
      <4> QED
        BY <4>3
    <3> QED
      BY <3>3, <3>4
  <2> QED
    BY <2>3, <2>4
<1>4. KeptOf(upTo[N], S, list, kept, N)
  BY <1>1, <1>3
<1>5. Sublist(list, kept) = upTo[N]
  BY SublistUnfolded, Zenon DEF upTo
<1> QED
  BY <1>4, <1>5 DEF KeptOf

\* Sublist keeps the elements at the positions named, and no others: a file is
\* split without losing or inventing a document.
THEOREM SublistKeeps ==
  ASSUME NEW S, NEW list \in Seq(S), NEW kept \in SUBSET DOMAIN list
  PROVE  /\ Sublist(list, kept) \in Seq(S)
         /\ \A i \in DOMAIN Sublist(list, kept) : \E m \in kept :
              Sublist(list, kept)[i] = list[m]
         /\ \A m \in kept : \E i \in DOMAIN Sublist(list, kept) :
              Sublist(list, kept)[i] = list[m]
<1> DEFINE part == Sublist(list, kept)
<1>1. PICK place : Places(place, part, list, kept, Len(list))
  BY SublistInOrder
<1>2. part \in Seq(S)
  BY SublistInOrder
<1>3. kept \cap (1 .. Len(list)) = kept
  OBVIOUS
<1> HIDE DEF part
<1> QED
  BY <1>1, <1>2, <1>3 DEF Places, part

-----------------------------------------------------------------------------
(* What holds up to a number, and states that follow from each other.      *)

\* What holds of zero, and of each number if of the one before, holds of all.
LEMMA Upward ==
  ASSUME NEW N \in Nat, NEW good, 0 \in good, \A n \in 1 .. N : n - 1 \in good => n \in good
  PROVE  \A n \in 0 .. N : n \in good
<1> DEFINE K == {n \in 0 .. N : n \notin good}
<1> SUFFICES ASSUME K # {} PROVE FALSE
  OBVIOUS
<1>1. K \subseteq Nat
  OBVIOUS
<1>2. PICK k \in K : \A j \in K : k <= j
  BY <1>1, LeastNumber, Zenon
<1>3. k \in 1 .. N /\ k - 1 \in 0 .. N /\ k - 1 < k
  BY <1>2
<1>4. k - 1 \in good
  BY <1>2, <1>3
<1> QED
  BY <1>2, <1>3, <1>4

\* Each state is a step from the one before.
Leads(states, a, step, N) ==
  states[0] = a /\ \A n \in 1 .. N : states[n] = step[n][states[n - 1]]

\* There are such states for every list of steps.
LEMMA Iterates ==
  ASSUME NEW S, NEW a \in S, NEW N \in Nat, NEW step \in [1 .. N -> [S -> S]]
  PROVE  \E states \in [0 .. N -> S] : Leads(states, a, step, N)
<1> DEFINE good == {n \in 0 .. N : \E states \in [0 .. n -> S] : Leads(states, a, step, n)}
<1>1. 0 \in good
  <2> DEFINE one == [n \in 0 .. 0 |-> a]
  <2>1. one \in [0 .. 0 -> S] /\ Leads(one, a, step, 0)
    BY DEF Leads
  <2> QED
    BY <2>1
<1>2. ASSUME NEW n \in 1 .. N, n - 1 \in good PROVE n \in good
  <2>1. PICK states \in [0 .. n - 1 -> S] : Leads(states, a, step, n - 1)
    BY <1>2
  <2> DEFINE more == [m \in 0 .. n |-> IF m = n THEN step[n][states[n - 1]] ELSE states[m]]
  <2>2. step[n][states[n - 1]] \in S
    BY <1>2, <2>1
  <2>3. more \in [0 .. n -> S]
    BY <2>1, <2>2
  <2>4. more[0] = a /\ more[n] = step[n][states[n - 1]] /\ \A m \in 0 .. n - 1 : more[m] = states[m]
    BY <2>1 DEF Leads
  <2> HIDE DEF more
  <2>5. ASSUME NEW m \in 1 .. n PROVE more[m] = step[m][more[m - 1]]
    BY <2>1, <2>4, <2>5 DEF Leads
  <2>6. Leads(more, a, step, n)
    BY <2>4, <2>5 DEF Leads
  <2> QED
    BY <2>3, <2>6
<1>3. N \in good
  <2> HIDE DEF good
  <2>1. \A n \in 0 .. N : n \in good
    BY <1>1, <1>2, Upward
  <2> QED
    BY <2>1
<1> QED
  BY <1>3

\* What is left of a list when the first k elements are kept.
LEMMA FirstKept ==
  ASSUME NEW S, NEW list \in Seq(S), NEW k \in 0 .. Len(list)
  PROVE  Sublist(list, 1 .. k) = SubSeq(list, 1, k)
<1> DEFINE kept == 1 .. k
           N    == Len(list)
           upTo == UpTo(list, kept)
           Part(n) == SubSeq(list, 1, IF n < k THEN n ELSE k)
           good == {n \in 0 .. N : upTo[n] = Part(n)}
<1>1. N \in Nat /\ DOMAIN list = 1 .. N /\ k \in Nat /\ k <= N
  OBVIOUS
<1>2. \A n \in 0 .. N : upTo[n] = SublistStep(upTo, list, kept, n)
  BY UpToLeaves DEF LeavesUpTo
<1> HIDE DEF upTo
<1>3. 0 \in good
  <2>1. upTo[0] = << >>
    BY <1>1, <1>2 DEF SublistStep
  <2>2. SubSeq(list, 1, 0) = << >>
    OBVIOUS
  <2>3. Part(0) = SubSeq(list, 1, 0)
    BY <1>1
  <2> HIDE DEF Part
  <2> QED
    BY <1>1, <2>1, <2>2, <2>3
<1>4. ASSUME NEW n \in 1 .. N, n - 1 \in good PROVE n \in good
  <2>1. upTo[n] = SublistStep(upTo, list, kept, n) /\ upTo[n - 1] = Part(n - 1)
    BY <1>1, <1>2, <1>4
  <2>2. CASE n <= k
    <3>1. upTo[n] = Append(SubSeq(list, 1, n - 1), list[n])
      BY <1>1, <2>1, <2>2 DEF SublistStep
    <3>2. Append(SubSeq(list, 1, n - 1), list[n]) = SubSeq(list, 1, n)
      BY <1>1
    <3> QED
      BY <1>1, <2>2, <3>1, <3>2
  <2>3. CASE ~(n <= k)
    <3>1. upTo[n] = upTo[n - 1]
      BY <1>1, <2>1, <2>3 DEF SublistStep
    <3>2. (IF n < k THEN n ELSE k) = k /\ (IF n - 1 < k THEN n - 1 ELSE k) = k
      BY <1>1, <2>3
    <3>3. Part(n) = SubSeq(list, 1, k) /\ Part(n - 1) = SubSeq(list, 1, k)
      BY <3>2
    <3> HIDE DEF Part
    <3> QED
      BY <2>1, <3>1, <3>3
  <2> QED
    BY <2>2, <2>3
<1>5. upTo[N] = Part(N)
  <2> HIDE DEF good
  <2>1. \A n \in 0 .. N : n \in good
    BY <1>1, <1>3, <1>4, Upward
  <2> QED
    BY <1>1, <2>1 DEF good
<1>6. Sublist(list, kept) = upTo[N]
  BY SublistUnfolded, Zenon DEF upTo
<1> QED
  BY <1>1, <1>5, <1>6

-----------------------------------------------------------------------------
(* The lists of a list, one after the other.                               *)

\* The equation of the recursion.
Flattens(flatten, seqs) ==
  flatten = [i \in 1 .. Len(seqs) |-> IF i = 1 THEN seqs[i] ELSE flatten[i - 1] \o seqs[i]]

\* FlattenSeq is the last value of a function that satisfies it.
LEMMA FlattenUnfolded ==
  ASSUME NEW seqs, Len(seqs) # 0
  PROVE  FlattenSeq(seqs) = (CHOOSE flatten : Flattens(flatten, seqs))[Len(seqs)]
BY Zenon DEF FlattenSeq, Flattens

\* The elements of the first n lists.
ElementsOf(flat, S, seqs, n) ==
  /\ flat \in Seq(S)
  /\ \A i \in DOMAIN flat : \E k \in 1 .. n : \E m \in DOMAIN seqs[k] : flat[i] = seqs[k][m]
  /\ \A k \in 1 .. n : \A m \in DOMAIN seqs[k] : \E i \in DOMAIN flat : flat[i] = seqs[k][m]

\* One list more.
LEMMA OneListMore ==
  ASSUME NEW S, NEW seqs, NEW n \in Nat, n # 0, seqs[n] \in Seq(S),
         NEW flat, ElementsOf(flat, S, seqs, n - 1)
  PROVE  ElementsOf(flat \o seqs[n], S, seqs, n)
<1> DEFINE last == seqs[n]
           more == flat \o last
<1>1. /\ flat \in Seq(S) /\ last \in Seq(S) /\ more \in Seq(S)
      /\ Len(flat) \in Nat /\ Len(last) \in Nat
      /\ DOMAIN flat = 1 .. Len(flat) /\ DOMAIN last = 1 .. Len(last)
      /\ DOMAIN more = 1 .. Len(flat) + Len(last)
      /\ \A i \in DOMAIN more : more[i] = IF i <= Len(flat) THEN flat[i] ELSE last[i - Len(flat)]
  BY ConcatProperties DEF ElementsOf
<1> HIDE DEF more, last
<1>2. 1 .. n = (1 .. n - 1) \cup {n}
  OBVIOUS
<1>3. ASSUME NEW i \in DOMAIN more
      PROVE  \E k \in 1 .. n : \E m \in DOMAIN seqs[k] : more[i] = seqs[k][m]
  <2>1. CASE i <= Len(flat)
    <3>1. i \in DOMAIN flat /\ more[i] = flat[i]
      BY <1>1, <1>3, <2>1
    <3>2. PICK k \in 1 .. n - 1 : \E m \in DOMAIN seqs[k] : flat[i] = seqs[k][m]
      BY <3>1 DEF ElementsOf
    <3> QED
      BY <1>2, <3>1, <3>2
  <2>2. CASE ~(i <= Len(flat))
    <3>1. i - Len(flat) \in DOMAIN last /\ more[i] = last[i - Len(flat)]
      BY <1>1, <1>3, <2>2
    <3> QED
      BY <1>2, <3>1 DEF last
  <2> QED
    BY <2>1, <2>2
<1>4. ASSUME NEW k \in 1 .. n, NEW m \in DOMAIN seqs[k]
      PROVE  \E i \in DOMAIN more : more[i] = seqs[k][m]
  <2>1. CASE k = n
    <3>1. m \in DOMAIN last
      BY <1>4, <2>1 DEF last
    <3>2. m + Len(flat) \in DOMAIN more /\ more[m + Len(flat)] = last[m]
      BY <1>1, <3>1
    <3> QED
      BY <2>1, <3>2 DEF last
  <2>2. CASE k # n
    <3>1. PICK i \in DOMAIN flat : flat[i] = seqs[k][m]
      BY <1>2, <1>4, <2>2 DEF ElementsOf
    <3>2. i \in DOMAIN more /\ more[i] = flat[i]
      BY <1>1
    <3> QED
      BY <3>1, <3>2
  <2> QED
    BY <2>1, <2>2
<1> QED
  BY <1>1, <1>3, <1>4 DEF ElementsOf, more, last

\* FlattenSeq adds list after list.
LEMMA FlattenSteps ==
  ASSUME NEW S, NEW seqs \in Seq(Seq(S)), Len(seqs) # 0
  PROVE  \E flat : /\ FlattenSeq(seqs) = flat[Len(seqs)]
                   /\ flat[1] = seqs[1]
                   /\ \A i \in 2 .. Len(seqs) : flat[i] = flat[i - 1] \o seqs[i]
<1> DEFINE N == Len(seqs)
           M == N - 1
           chosen == CHOOSE flatten : Flattens(flatten, seqs)
           step == [n \in 1 .. M |-> [s \in Seq(S) |-> s \o seqs[n + 1]]]
<1>1. N \in Nat /\ \A n \in 1 .. N : seqs[n] \in Seq(S)
  OBVIOUS
<1>2. M \in Nat /\ M + 1 = N
  BY <1>1
<1>3. \E flatten : Flattens(flatten, seqs)
  <2>1. step \in [1 .. M -> [Seq(S) -> Seq(S)]]
    <3>1. ASSUME NEW n \in 1 .. M, NEW s \in Seq(S) PROVE s \o seqs[n + 1] \in Seq(S)
      <4>1. seqs[n + 1] \in Seq(S)
        BY <1>1, <1>2
      <4> QED
        BY <4>1
    <3> QED
      BY <3>1
  <2>2. \A n \in 1 .. M, s \in Seq(S) : step[n][s] = s \o seqs[n + 1]
    OBVIOUS
  <2>3. seqs[1] \in Seq(S)
    BY <1>1
  <2> HIDE DEF step, M
  <2>4. PICK states \in [0 .. M -> Seq(S)] : Leads(states, seqs[1], step, M)
    BY <1>2, <2>1, <2>3, Iterates
  <2> DEFINE flatten == [i \in 1 .. N |-> states[i - 1]]
  <2>5. ASSUME NEW i \in 1 .. N
        PROVE  flatten[i] = IF i = 1 THEN seqs[i] ELSE flatten[i - 1] \o seqs[i]
    <3>1. CASE i = 1
      BY <2>4, <3>1 DEF Leads
    <3>2. CASE i # 1
      <4>1. i - 1 \in 1 .. M /\ i - 1 \in 1 .. N /\ (i - 1) + 1 = i
        BY <1>2, <3>2
      <4>2. states[i - 1] = step[i - 1][states[(i - 1) - 1]]
        BY <2>4, <4>1 DEF Leads
      <4>3. states[(i - 1) - 1] \in Seq(S)
        BY <2>4, <4>1, <1>2
      <4>4. step[i - 1][states[(i - 1) - 1]] = states[(i - 1) - 1] \o seqs[i]
        BY <2>2, <4>1, <4>3
      <4>5. flatten[i] = states[i - 1] /\ flatten[i - 1] = states[(i - 1) - 1]
        BY <4>1
      <4> HIDE DEF flatten
      <4> QED
        BY <3>2, <4>2, <4>4, <4>5
    <3> QED
      BY <3>1, <3>2
  <2>6. flatten = [i \in 1 .. N |-> flatten[i]]
    OBVIOUS
  <2> HIDE DEF flatten
  <2>7. Flattens(flatten, seqs)
    BY <2>5, <2>6 DEF Flattens
  <2> QED
    BY <2>7
<1>4. Flattens(chosen, seqs)
  BY <1>3
<1> HIDE DEF chosen
<1>5. \A i \in 1 .. N : chosen[i] = IF i = 1 THEN seqs[i] ELSE chosen[i - 1] \o seqs[i]
  BY <1>4 DEF Flattens
<1>6. FlattenSeq(seqs) = chosen[N]
  BY FlattenUnfolded DEF chosen
<1>7. 1 \in 1 .. N /\ \A i \in 2 .. N : i \in 1 .. N /\ i # 1
  BY <1>1
<1> HIDE DEF N
<1>8. chosen[1] = seqs[1] /\ \A i \in 2 .. N : chosen[i] = chosen[i - 1] \o seqs[i]
  BY <1>5, <1>7
<1> QED
  BY <1>6, <1>8 DEF N

\* FlattenSeq has the elements of all the lists, and no others.
LEMMA Flattened ==
  ASSUME NEW S, NEW seqs \in Seq(Seq(S))
  PROVE  ElementsOf(FlattenSeq(seqs), S, seqs, Len(seqs))
<1> DEFINE N == Len(seqs)
<1>1. N \in Nat /\ \A n \in 1 .. N : seqs[n] \in Seq(S)
  OBVIOUS
<1>2. CASE N = 0
  <2>1. seqs = << >> /\ FlattenSeq(seqs) = seqs
    BY <1>2 DEF FlattenSeq
  <2>2. ElementsOf(<< >>, S, seqs, 0)
    BY DEF ElementsOf
  <2>3. ElementsOf(FlattenSeq(seqs), S, seqs, 0)
    BY <2>1, <2>2
  <2> QED
    BY <1>2, <2>3, Zenon
<1>3. CASE N # 0
  <2> DEFINE M == N - 1
  <2>1. M \in Nat /\ M + 1 = N
    BY <1>1, <1>3
  <2>2. PICK chosen : /\ FlattenSeq(seqs) = chosen[Len(seqs)]
                      /\ chosen[1] = seqs[1]
                      /\ \A i \in 2 .. Len(seqs) : chosen[i] = chosen[i - 1] \o seqs[i]
    BY <1>3, FlattenSteps
  <2> DEFINE good == {n \in 0 .. M : ElementsOf(chosen[n + 1], S, seqs, n + 1)}
  <2>5. ElementsOf(chosen[1], S, seqs, 1)
    <3>1. chosen[1] = seqs[1] /\ seqs[1] \in Seq(S)
      BY <1>1, <1>3, <2>2
    <3> QED
      BY <3>1 DEF ElementsOf
  <2>6. 0 \in good
    BY <2>1, <2>5
  <2>7. ASSUME NEW n \in 1 .. M, n - 1 \in good PROVE n \in good
    <3> DEFINE i == n + 1
    <3>1. i \in 1 .. N /\ i # 1 /\ i \in Nat /\ i # 0 /\ i - 1 = n /\ (n - 1) + 1 = n /\ n \in 0 .. M
      BY <2>1
    <3>2. ElementsOf(chosen[n], S, seqs, n)
      BY <2>7, <3>1
    <3>3. chosen[i] = chosen[n] \o seqs[i] /\ seqs[i] \in Seq(S)
      <4>1. i \in 2 .. N
        BY <1>1, <3>1
      <4> HIDE DEF i
      <4>2. chosen[i] = chosen[i - 1] \o seqs[i]
        BY <2>2, <4>1
      <4> QED
        BY <1>1, <3>1, <4>2
    <3> HIDE DEF i, good
    <3>4. ElementsOf(chosen[n] \o seqs[i], S, seqs, i)
      BY <3>1, <3>2, <3>3, OneListMore
    <3>5. ElementsOf(chosen[i], S, seqs, i)
      BY <3>3, <3>4, Zenon
    <3> QED
      BY <3>1, <3>5 DEF i, good
  <2>8. M \in good
    <3> HIDE DEF good, M
    <3>1. \A n \in 0 .. M : n \in good
      BY <2>1, <2>6, <2>7, Upward
    <3> QED
      BY <2>1, <3>1
  <2>9. ElementsOf(chosen[M + 1], S, seqs, M + 1)
    BY <2>8
  <2>10. FlattenSeq(seqs) = chosen[N]
    BY <2>2
  <2> HIDE DEF M, N
  <2> QED
    BY <2>1, <2>9, <2>10 DEF N
<1> QED
  BY <1>2, <1>3

\* A list of lists that ends with one more: it comes last.
LEMMA FlattenAppend ==
  ASSUME NEW S, NEW seqs \in Seq(Seq(S)), NEW x \in Seq(S)
  PROVE  FlattenSeq(Append(seqs, x)) = FlattenSeq(seqs) \o x
<1> DEFINE N == Len(seqs)
           more == Append(seqs, x)
<1>1. /\ N \in Nat /\ more \in Seq(Seq(S)) /\ Len(more) = N + 1 /\ N + 1 \in Nat
      /\ \A n \in 1 .. N : more[n] = seqs[n]
      /\ more[N + 1] = x
  OBVIOUS
<1> HIDE DEF more
<1>2. PICK longer : /\ FlattenSeq(more) = longer[N + 1]
                    /\ longer[1] = more[1]
                    /\ \A i \in 2 .. N + 1 : longer[i] = longer[i - 1] \o more[i]
  <2>1. Len(more) # 0
    BY <1>1
  <2>2. \E longer : /\ FlattenSeq(more) = longer[Len(more)]
                    /\ longer[1] = more[1]
                    /\ \A i \in 2 .. Len(more) : longer[i] = longer[i - 1] \o more[i]
    BY <1>1, <2>1, FlattenSteps
  <2> HIDE DEF N
  <2> QED
    BY <1>1, <2>2
<1>3. CASE N = 0
  <2>1. FlattenSeq(seqs) = << >>
    BY <1>3 DEF FlattenSeq
  <2>2. FlattenSeq(more) = x
    BY <1>1, <1>2, <1>3
  <2>3. << >> \o x = x
    BY ConcatEmptySeq
  <2> QED
    BY <2>1, <2>2, <2>3 DEF more
<1>4. CASE N # 0
  <2>1. PICK flat : /\ FlattenSeq(seqs) = flat[N]
                    /\ flat[1] = seqs[1]
                    /\ \A i \in 2 .. N : flat[i] = flat[i - 1] \o seqs[i]
    BY <1>4, FlattenSteps
  <2> DEFINE good == {n \in 0 .. N - 1 : longer[n + 1] = flat[n + 1]}
  <2> HIDE DEF N
  <2>2. 0 \in good
    <3>1. 0 \in 0 .. N - 1 /\ 0 + 1 = 1 /\ 1 \in 1 .. N
      BY <1>1, <1>4
    <3>2. longer[1] = flat[1]
      BY <1>1, <1>2, <2>1, <3>1
    <3> QED
      BY <3>1, <3>2
  <2>3. ASSUME NEW n \in 1 .. N - 1, n - 1 \in good PROVE n \in good
    <3>1. /\ n + 1 \in 2 .. N /\ n + 1 \in 2 .. N + 1 /\ n + 1 \in 1 .. N /\ (n + 1) - 1 = n
          /\ (n - 1) + 1 = n /\ n \in 0 .. N - 1
      BY <1>1, <1>4
    <3>2. longer[n] = flat[n]
      BY <2>3, <3>1
    <3>3. longer[n + 1] = longer[n] \o more[n + 1] /\ flat[n + 1] = flat[n] \o seqs[n + 1]
      BY <1>2, <2>1, <3>1
    <3>4. longer[n + 1] = flat[n + 1]
      BY <1>1, <3>1, <3>2, <3>3
    <3> QED
      BY <3>1, <3>4
  <2>4. N - 1 \in good
    <3> HIDE DEF good
    <3>1. N - 1 \in Nat
      BY <1>1, <1>4
    <3>2. \A n \in 0 .. N - 1 : n \in good
      BY <2>2, <2>3, <3>1, Upward
    <3> QED
      BY <3>1, <3>2
  <2>5. longer[N] = flat[N]
    BY <1>1, <1>4, <2>4
  <2>6. longer[N + 1] = longer[N] \o x
    <3>1. N + 1 \in 2 .. N + 1 /\ (N + 1) - 1 = N
      BY <1>1, <1>4
    <3> QED
      BY <1>1, <1>2, <3>1
  <2> QED
    BY <1>2, <2>1, <2>5, <2>6 DEF more
<1> QED
  BY <1>3, <1>4

\* Nothing, and one list.
LEMMA FlattenFew ==
  ASSUME NEW S, NEW x \in Seq(S)
  PROVE  FlattenSeq(<< >>) = << >> /\ FlattenSeq(<<x>>) = x
<1>1. FlattenSeq(<< >>) = << >>
  BY DEF FlattenSeq
<1>2. Append(<< >>, x) = <<x>> /\ << >> \in Seq(Seq(S))
  OBVIOUS
<1>3. << >> \o x = x
  BY ConcatEmptySeq
<1> QED
  BY <1>1, <1>2, <1>3, FlattenAppend

\* A list that grows by one element at a time.
LEMMA FirstElements ==
  ASSUME NEW S, NEW q \in Seq(S)
  PROVE  /\ SubSeq(q, 1, 0) = << >> /\ SubSeq(q, 1, Len(q)) = q
         /\ \A n \in 1 .. Len(q) : /\ SubSeq(q, 1, n) = Append(SubSeq(q, 1, n - 1), q[n])
                                   /\ SubSeq(q, 1, n - 1) \in Seq(S) /\ q[n] \in S
<1>1. SubSeq(q, 1, 0) = << >>
  BY SubSeqEmpty
<1>2. SubSeq(q, 1, Len(q)) = q
  BY SubSeqFull
<1>3. ASSUME NEW n \in 1 .. Len(q)
      PROVE  /\ SubSeq(q, 1, n) = Append(SubSeq(q, 1, n - 1), q[n])
             /\ SubSeq(q, 1, n - 1) \in Seq(S) /\ q[n] \in S
  <2>1. Len(q) \in Nat /\ n \in Nat /\ 1 \in 1 .. Len(q) /\ n \in 1 .. Len(q)
    OBVIOUS
  <2>2. SubSeq(q, 1, n) = SubSeq(q, 1, n - 1) \o <<q[n]>>
    BY <2>1, SubSeqRecursiveSecond
  <2>3. SubSeq(q, 1, n - 1) \in Seq(S)
    <3>1. n - 1 \in Int /\ \A i \in 1 .. n - 1 : q[i] \in S
      BY <2>1
    <3> QED
      BY <3>1, SubSeqProperties
  <2>4. q[n] \in S
    BY <2>1
  <2>5. \A s \in Seq(S), e \in S : s \o <<e>> = Append(s, e)
    OBVIOUS
  <2> QED
    BY <2>2, <2>3, <2>4, <2>5
<1> QED
  BY <1>1, <1>2, <1>3

\* The last list of the second.
LEMMA FlattenNext ==
  ASSUME NEW S, NEW p \in Seq(Seq(S)), NEW s \in Seq(Seq(S)), NEW x \in Seq(S),
         FlattenSeq(p \o s) = FlattenSeq(p) \o FlattenSeq(s)
  PROVE  FlattenSeq(p \o Append(s, x)) = FlattenSeq(p) \o FlattenSeq(Append(s, x))
<1>1. p \o Append(s, x) = Append(p \o s, x) /\ p \o s \in Seq(Seq(S))
  <2> DEFINE T == Seq(S)
  <2>1. p \in Seq(T) /\ s \in Seq(T) /\ <<x>> \in Seq(T)
    OBVIOUS
  <2> HIDE DEF T
  <2>2. (p \o s) \o <<x>> = p \o (s \o <<x>>)
    BY <2>1, ConcatAssociative
  <2>3. \A U : \A t \in Seq(U), e \in U : t \o <<e>> = Append(t, e)
    OBVIOUS
  <2> USE DEF T
  <2> QED
    BY <2>2, <2>3
<1>2. FlattenSeq(Append(p \o s, x)) = FlattenSeq(p \o s) \o x
  BY <1>1, FlattenAppend
<1>3. FlattenSeq(Append(s, x)) = FlattenSeq(s) \o x
  BY FlattenAppend
<1>4. FlattenSeq(p) \in Seq(S) /\ FlattenSeq(s) \in Seq(S)
  BY Flattened DEF ElementsOf
<1>5. (FlattenSeq(p) \o FlattenSeq(s)) \o x = FlattenSeq(p) \o (FlattenSeq(s) \o x)
  BY <1>4, ConcatAssociative
<1> QED
  BY <1>1, <1>2, <1>3, <1>5

\* Two lists of lists, one after the other.
LEMMA FlattenConcat ==
  ASSUME NEW S, NEW p \in Seq(Seq(S)), NEW q \in Seq(Seq(S))
  PROVE  FlattenSeq(p \o q) = FlattenSeq(p) \o FlattenSeq(q)
<1> DEFINE Start(n) == SubSeq(q, 1, n)
           good == {n \in 0 .. Len(q) :
                      FlattenSeq(p \o Start(n)) = FlattenSeq(p) \o FlattenSeq(Start(n))}
<1>1. /\ Start(0) = << >> /\ Start(Len(q)) = q
      /\ \A n \in 1 .. Len(q) : /\ Start(n) = Append(Start(n - 1), q[n])
                                /\ Start(n - 1) \in Seq(Seq(S)) /\ q[n] \in Seq(S)
  BY FirstElements
<1> HIDE DEF Start
<1>2. Len(q) \in Nat
  OBVIOUS
<1>3. \A seqs \in Seq(Seq(S)) : FlattenSeq(seqs) \in Seq(S)
  BY Flattened DEF ElementsOf
<1>4. 0 \in good
  <2>1. p \o << >> = p /\ FlattenSeq(p) \o << >> = FlattenSeq(p) /\ FlattenSeq(<< >>) = << >>
    <3>1. FlattenSeq(p) \in Seq(S)
      BY <1>3
    <3>2. FlattenSeq(<< >>) = << >>
      BY DEF FlattenSeq
    <3> QED
      BY <3>1, <3>2, ConcatEmptySeq
  <2>2. 0 \in 0 .. Len(q)
    BY <1>2
  <2>3. FlattenSeq(p \o Start(0)) = FlattenSeq(p) \o FlattenSeq(Start(0))
    BY <1>1, <2>1
  <2> QED
    BY <2>2, <2>3
<1>5. ASSUME NEW n \in 1 .. Len(q), n - 1 \in good PROVE n \in good
  <2> DEFINE s == Start(n - 1)
             x == q[n]
  <2>1. Start(n) = Append(s, x) /\ s \in Seq(Seq(S)) /\ x \in Seq(S)
    BY <1>1
  <2>2. FlattenSeq(p \o s) = FlattenSeq(p) \o FlattenSeq(s)
    BY <1>5
  <2>3. n \in 0 .. Len(q)
    BY <1>2
  <2> HIDE DEF s, x
  <2>4. FlattenSeq(p \o Append(s, x)) = FlattenSeq(p) \o FlattenSeq(Append(s, x))
    BY <2>1, <2>2, FlattenNext
  <2>8. FlattenSeq(p \o Start(n)) = FlattenSeq(p) \o FlattenSeq(Start(n))
    BY <2>1, <2>4
  <2> QED
    BY <2>3, <2>8
<1>6. Len(q) \in good
  <2> HIDE DEF good
  <2>1. \A n \in 0 .. Len(q) : n \in good
    BY <1>2, <1>4, <1>5, Upward
  <2> QED
    BY <1>2, <2>1
<1> QED
  BY <1>1, <1>6

-----------------------------------------------------------------------------
(* A list of the lists that a function has for the elements of another.    *)

EachOf(f, list) == [n \in DOMAIN list |-> f[list[n]]]

Mapped(f, list) == FlattenSeq(EachOf(f, list))

\* The functions in question.
Takes(f, T, Q) == f \in [T -> Q]

\* A function applied to each element.
LEMMA EachType ==
  ASSUME NEW Q, NEW T, NEW f, Takes(f, T, Q), NEW p \in Seq(T)
  PROVE  /\ EachOf(f, p) \in Seq(Q) /\ Len(EachOf(f, p)) = Len(p) /\ Len(p) \in Nat
         /\ DOMAIN p = 1 .. Len(p)
         /\ \A n \in 1 .. Len(p) : EachOf(f, p)[n] = f[p[n]]
<1>1. DOMAIN p = 1 .. Len(p) /\ Len(p) \in Nat /\ \A n \in 1 .. Len(p) : p[n] \in T
  OBVIOUS
<1>2. \A n \in 1 .. Len(p) : f[p[n]] \in Q
  BY <1>1 DEF Takes
<1>3. EachOf(f, p) \in [1 .. Len(p) -> Q]
  BY <1>1, <1>2 DEF EachOf
<1>4. \A n \in Nat : \A g \in [1 .. n -> Q] : g \in Seq(Q) /\ Len(g) = n
  OBVIOUS
<1> HIDE DEF EachOf
<1>5. EachOf(f, p) \in Seq(Q) /\ Len(EachOf(f, p)) = Len(p)
  BY <1>1, <1>3, <1>4
<1> QED
  BY <1>1, <1>5 DEF EachOf

LEMMA EachConcat ==
  ASSUME NEW Q, NEW T, NEW f, Takes(f, T, Q), NEW p \in Seq(T), NEW q \in Seq(T)
  PROVE  EachOf(f, p \o q) = EachOf(f, p) \o EachOf(f, q)
<1> DEFINE a == EachOf(f, p)
           b == EachOf(f, q)
           c == EachOf(f, p \o q)
<1>1. /\ p \o q \in Seq(T) /\ Len(p \o q) = Len(p) + Len(q)
      /\ \A n \in 1 .. Len(p) + Len(q) : (p \o q)[n] = IF n <= Len(p) THEN p[n] ELSE q[n - Len(p)]
  BY ConcatProperties
<1>2. /\ a \in Seq(Q) /\ Len(a) = Len(p) /\ \A n \in 1 .. Len(p) : a[n] = f[p[n]]
      /\ b \in Seq(Q) /\ Len(b) = Len(q) /\ \A n \in 1 .. Len(q) : b[n] = f[q[n]]
      /\ c \in Seq(Q) /\ Len(c) = Len(p \o q) /\ \A n \in 1 .. Len(p \o q) : c[n] = f[(p \o q)[n]]
      /\ Len(p) \in Nat /\ Len(q) \in Nat
  <2>1. \A s \in Seq(T) :
          /\ EachOf(f, s) \in Seq(Q) /\ Len(EachOf(f, s)) = Len(s) /\ Len(s) \in Nat
          /\ \A n \in 1 .. Len(s) : EachOf(f, s)[n] = f[s[n]]
    BY EachType
  <2> DEFINE w == p \o q
  <2>2. w \in Seq(T)
    BY <1>1
  <2> HIDE DEF w
  <2>3. /\ EachOf(f, w) \in Seq(Q) /\ Len(EachOf(f, w)) = Len(w)
        /\ \A n \in 1 .. Len(w) : EachOf(f, w)[n] = f[w[n]]
    BY <2>1, <2>2
  <2> QED
    BY <2>1, <2>3 DEF w
<1> HIDE DEF a, b, c
<1>3. /\ a \o b \in Seq(Q) /\ Len(a \o b) = Len(p) + Len(q)
      /\ \A n \in 1 .. Len(p) + Len(q) : (a \o b)[n] = IF n <= Len(p) THEN a[n] ELSE b[n - Len(p)]
  <2>1. a \in Seq(Q) /\ b \in Seq(Q)
    BY <1>2
  <2>2. /\ a \o b \in Seq(Q) /\ Len(a \o b) = Len(a) + Len(b)
        /\ \A n \in 1 .. Len(a) + Len(b) : (a \o b)[n] = IF n <= Len(a) THEN a[n] ELSE b[n - Len(a)]
    BY <2>1, ConcatProperties
  <2>3. Len(a) = Len(p) /\ Len(b) = Len(q)
    BY <1>2
  <2> QED
    BY <2>2, <2>3
<1>4. ASSUME NEW n \in 1 .. Len(p) + Len(q) PROVE c[n] = (a \o b)[n]
  <2>1. c[n] = f[(p \o q)[n]]
    BY <1>1, <1>2
  <2>2. CASE n <= Len(p)
    <3>1. n \in 1 .. Len(p)
      BY <1>2, <2>2
    <3> QED
      BY <1>1, <1>2, <1>3, <2>1, <2>2, <3>1
  <2>3. CASE ~(n <= Len(p))
    <3>1. n - Len(p) \in 1 .. Len(q)
      BY <1>2, <2>3
    <3> QED
      BY <1>1, <1>2, <1>3, <2>1, <2>3, <3>1
  <2> QED
    BY <2>2, <2>3
<1>5. c = a \o b
  BY <1>1, <1>2, <1>3, <1>4, SeqEqual
<1> QED
  BY <1>5 DEF a, b, c

\* What such lists have in common.
LEMMA MappedConcat ==
  ASSUME NEW S, NEW T, NEW f, Takes(f, T, Seq(S)), NEW p \in Seq(T), NEW q \in Seq(T)
  PROVE  Mapped(f, p \o q) = Mapped(f, p) \o Mapped(f, q)
<1>1. EachOf(f, p) \in Seq(Seq(S)) /\ EachOf(f, q) \in Seq(Seq(S))
  BY EachType
<1>2. EachOf(f, p \o q) = EachOf(f, p) \o EachOf(f, q)
  BY EachConcat
<1>3. FlattenSeq(EachOf(f, p) \o EachOf(f, q)) = FlattenSeq(EachOf(f, p)) \o FlattenSeq(EachOf(f, q))
  <2> DEFINE a == EachOf(f, p)
             b == EachOf(f, q)
  <2>1. a \in Seq(Seq(S)) /\ b \in Seq(Seq(S))
    BY <1>1
  <2> HIDE DEF a, b
  <2>2. FlattenSeq(a \o b) = FlattenSeq(a) \o FlattenSeq(b)
    BY <2>1, FlattenConcat
  <2> QED
    BY <2>2 DEF a, b
<1> QED
  BY <1>2, <1>3, Zenon DEF Mapped

\* The list of no element, of one, and what is in it.
LEMMA MappedLists ==
  ASSUME NEW S, NEW T, NEW f, Takes(f, T, Seq(S))
  PROVE  /\ Mapped(f, << >>) = << >>
         /\ \A x \in T : Mapped(f, <<x>>) = f[x]
         /\ \A p \in Seq(T) :
              /\ Mapped(f, p) \in Seq(S)
              /\ \A i \in DOMAIN Mapped(f, p) : \E n \in DOMAIN p : \E m \in DOMAIN f[p[n]] :
                   Mapped(f, p)[i] = f[p[n]][m]
<1>1. Mapped(f, << >>) = << >>
  <2>1. EachOf(f, << >>) = << >>
    BY DEF EachOf
  <2>2. FlattenSeq(<< >>) = << >>
    BY DEF FlattenSeq
  <2> QED
    BY <2>1, <2>2 DEF Mapped
<1>2. ASSUME NEW x \in T PROVE Mapped(f, <<x>>) = f[x]
  <2>1. EachOf(f, <<x>>) = <<f[x]>>
    BY DEF EachOf
  <2>2. f[x] \in Seq(S)
    BY DEF Takes
  <2>3. FlattenSeq(<<f[x]>>) = f[x]
    BY <2>2, FlattenFew
  <2> QED
    BY <2>1, <2>3 DEF Mapped
<1>3. ASSUME NEW p \in Seq(T)
      PROVE  /\ Mapped(f, p) \in Seq(S)
             /\ \A i \in DOMAIN Mapped(f, p) : \E n \in DOMAIN p : \E m \in DOMAIN f[p[n]] :
                  Mapped(f, p)[i] = f[p[n]][m]
  <2> DEFINE seqs == EachOf(f, p)
             flat == FlattenSeq(seqs)
  <2>1. seqs \in Seq(Seq(S)) /\ Len(seqs) = Len(p) /\ DOMAIN p = 1 .. Len(p)
        /\ \A n \in 1 .. Len(p) : seqs[n] = f[p[n]]
    BY EachType
  <2>2. Mapped(f, p) = flat
    BY DEF Mapped
  <2> HIDE DEF seqs
  <2>3. ElementsOf(flat, S, seqs, Len(seqs))
    BY <2>1, Flattened
  <2> HIDE DEF flat
  <2>4. flat \in Seq(S)
    BY <2>3 DEF ElementsOf
  <2>5. ASSUME NEW i \in DOMAIN flat
        PROVE  \E n \in DOMAIN p : \E m \in DOMAIN f[p[n]] : flat[i] = f[p[n]][m]
    <3>1. PICK k \in 1 .. Len(seqs) : \E m \in DOMAIN seqs[k] : flat[i] = seqs[k][m]
      BY <2>3, <2>5 DEF ElementsOf
    <3>2. k \in DOMAIN p /\ seqs[k] = f[p[k]]
      BY <2>1
    <3> QED
      BY <3>1, <3>2
  <2> QED
    BY <2>2, <2>4, <2>5
<1> QED
  BY <1>1, <1>2, <1>3

\* The first element, and the others; all but the last, and the last.
LEMMA MappedEnds ==
  ASSUME NEW S, NEW T, NEW f, Takes(f, T, Seq(S)), NEW p \in Seq(T)
  PROVE  /\ p # << >> => Mapped(f, p) = f[Head(p)] \o Mapped(f, Tail(p))
         /\ \A x \in T : Mapped(f, Append(p, x)) = Mapped(f, p) \o f[x]
<1>1. ASSUME p # << >>
      PROVE  Mapped(f, p) = f[Head(p)] \o Mapped(f, Tail(p))
  <2> DEFINE x == Head(p)
             q == Tail(p)
  <2>1. x \in T /\ q \in Seq(T) /\ <<x>> \in Seq(T) /\ <<x>> \o q = p
    BY <1>1
  <2> HIDE DEF x, q
  <2>2. Mapped(f, <<x>> \o q) = Mapped(f, <<x>>) \o Mapped(f, q)
    <3> DEFINE one == <<x>>
    <3>1. one \in Seq(T)
      BY <2>1
    <3> HIDE DEF one
    <3>2. Mapped(f, one \o q) = Mapped(f, one) \o Mapped(f, q)
      BY <2>1, <3>1, MappedConcat
    <3> QED
      BY <3>2 DEF one
  <2>3. Mapped(f, <<x>>) = f[x]
    BY <2>1, MappedLists
  <2>4. Mapped(f, p) = f[x] \o Mapped(f, q)
    BY <2>1, <2>2, <2>3
  <2> QED
    BY <2>4 DEF x, q
<1>2. ASSUME NEW x \in T PROVE Mapped(f, Append(p, x)) = Mapped(f, p) \o f[x]
  <2>1. <<x>> \in Seq(T) /\ p \o <<x>> = Append(p, x)
    OBVIOUS
  <2>2. Mapped(f, p \o <<x>>) = Mapped(f, p) \o Mapped(f, <<x>>)
    <3> DEFINE one == <<x>>
    <3>1. one \in Seq(T)
      BY <2>1
    <3> HIDE DEF one
    <3>2. Mapped(f, p \o one) = Mapped(f, p) \o Mapped(f, one)
      BY <3>1, MappedConcat
    <3> QED
      BY <3>2 DEF one
  <2>3. Mapped(f, <<x>>) = f[x]
    BY MappedLists
  <2> QED
    BY <2>1, <2>2, <2>3
<1> QED
  BY <1>1, <1>2

\* Lists of one element each give the list back.
LEMMA MappedSame ==
  ASSUME NEW T, NEW p \in Seq(T), NEW f, Takes(f, T, Seq(T)),
         \A n \in DOMAIN p : f[p[n]] = <<p[n]>>
  PROVE  Mapped(f, p) = p
<1> DEFINE Start(n) == SubSeq(p, 1, n)
           good == {n \in 0 .. Len(p) : Mapped(f, Start(n)) = Start(n)}
<1>1. /\ Start(0) = << >> /\ Start(Len(p)) = p
      /\ \A n \in 1 .. Len(p) : /\ Start(n) = Append(Start(n - 1), p[n])
                                /\ Start(n - 1) \in Seq(T) /\ p[n] \in T
  BY FirstElements
<1> HIDE DEF Start
<1>2. Len(p) \in Nat /\ DOMAIN p = 1 .. Len(p)
  OBVIOUS
<1>3. 0 \in good
  <2>1. 0 \in 0 .. Len(p)
    BY <1>2
  <2>2. Mapped(f, << >>) = << >>
    BY MappedLists
  <2> QED
    BY <1>1, <2>1, <2>2
<1>4. ASSUME NEW n \in 1 .. Len(p), n - 1 \in good PROVE n \in good
  <2> DEFINE s == Start(n - 1)
             x == p[n]
  <2>1. Start(n) = Append(s, x) /\ s \in Seq(T) /\ x \in T
    BY <1>1
  <2>2. Mapped(f, s) = s
    BY <1>4
  <2>3. f[x] = <<x>> /\ n \in 0 .. Len(p)
    BY <1>2
  <2> HIDE DEF s, x, good
  <2>4. Mapped(f, Append(s, x)) = Mapped(f, s) \o f[x]
    BY <2>1, MappedEnds
  <2>5. s \o <<x>> = Append(s, x)
    BY <2>1
  <2>6. Mapped(f, Start(n)) = Start(n)
    BY <2>1, <2>2, <2>3, <2>4, <2>5
  <2> QED
    BY <2>3, <2>6 DEF good
<1>5. Len(p) \in good
  <2> HIDE DEF good
  <2>1. \A n \in 0 .. Len(p) : n \in good
    BY <1>2, <1>3, <1>4, Upward
  <2> QED
    BY <1>2, <2>1
<1> QED
  BY <1>1, <1>5

-----------------------------------------------------------------------------
(* Where a document has its pod specification.                             *)

\* The places of PodSpecPath, one field after the other.
LEMMA PodSpecPlaces ==
  ASSUME NEW doc, NEW kind
  PROVE  PodSpec(doc, kind) =
           IF kind = "Pod" THEN At(doc, "spec")
           ELSE IF kind = "CronJob"
           THEN At(At(At(At(At(doc, "spec"), "jobTemplate"), "spec"), "template"), "spec")
           ELSE At(At(At(doc, "spec"), "template"), "spec")
<1> DEFINE Below(path, below) ==
             below = [n \in 0 .. Len(path) |-> IF n = 0 THEN doc ELSE At(below[n - 1], path[n])]
           path == PodSpecPath(kind)
           chosen == CHOOSE below : Below(path, below)
<1>1. PodSpec(doc, kind) = chosen[Len(path)]
  BY Zenon DEF PodSpec
<1>2. (\E below : Below(path, below)) =>
        chosen[0] = doc /\ \A n \in 1 .. Len(path) : chosen[n] = At(chosen[n - 1], path[n])
  <2> SUFFICES ASSUME NEW below0, Below(path, below0)
               PROVE  /\ chosen[0] = doc
                      /\ \A n \in 1 .. Len(path) : chosen[n] = At(chosen[n - 1], path[n])
    OBVIOUS
  <2>1. Below(path, chosen)
    OBVIOUS
  <2> HIDE DEF chosen
  <2>2. Len(path) \in Nat
    BY DEF PodSpecPath
  <2> QED
    BY <2>1, <2>2
<1> HIDE DEF chosen
<1>3. CASE kind = "Pod"
  <2>1. path = <<"spec">>
    BY <1>3 DEF PodSpecPath
  <2> DEFINE below == [n \in 0 .. 1 |-> IF n = 0 THEN doc ELSE At(doc, "spec")]
  <2>2. Below(path, below)
    BY <2>1
  <2>3. Len(path) = 1 /\ path[1] = "spec"
    BY <2>1
  <2> HIDE DEF path, below, Below
  <2>4. chosen[0] = doc /\ chosen[1] = At(chosen[0], "spec")
    BY <1>2, <2>2, <2>3
  <2> QED
    BY <1>1, <1>3, <2>3, <2>4
<1>4. CASE kind = "CronJob"
  <2> DEFINE s == At(doc, "spec")
             j == At(s, "jobTemplate")
             t == At(j, "spec")
             u == At(t, "template")
             below == [n \in 0 .. 5 |-> IF n = 0 THEN doc ELSE IF n = 1 THEN s ELSE
                         IF n = 2 THEN j ELSE IF n = 3 THEN t ELSE IF n = 4 THEN u
                         ELSE At(u, "spec")]
  <2>1. /\ Len(path) = 5 /\ path[1] = "spec" /\ path[2] = "jobTemplate" /\ path[3] = "spec"
        /\ path[4] = "template" /\ path[5] = "spec"
    BY <1>4 DEF PodSpecPath
  <2> HIDE DEF path
  <2>2. \A n \in 0 .. 5 : below[n] = IF n = 0 THEN doc ELSE At(below[n - 1], path[n])
    BY <2>1
  <2>3. Below(path, below)
    <3>1. below = [n \in 0 .. 5 |-> below[n]]
      OBVIOUS
    <3> HIDE DEF below
    <3> QED
      BY <2>1, <2>2, <3>1
  <2> HIDE DEF below, Below
  <2>4. chosen[0] = doc /\ \A n \in 1 .. 5 : chosen[n] = At(chosen[n - 1], path[n])
    BY <1>2, <2>1, <2>3
  <2>5. /\ chosen[1] = At(doc, "spec") /\ chosen[2] = At(chosen[1], "jobTemplate")
        /\ chosen[3] = At(chosen[2], "spec") /\ chosen[4] = At(chosen[3], "template")
        /\ chosen[5] = At(chosen[4], "spec")
    BY <2>1, <2>4
  <2> QED
    BY <1>1, <1>4, <2>1, <2>5
<1>5. CASE kind # "Pod" /\ kind # "CronJob"
  <2> DEFINE s == At(doc, "spec")
             u == At(s, "template")
             below == [n \in 0 .. 3 |-> IF n = 0 THEN doc ELSE IF n = 1 THEN s ELSE
                         IF n = 2 THEN u ELSE At(u, "spec")]
  <2>1. Len(path) = 3 /\ path[1] = "spec" /\ path[2] = "template" /\ path[3] = "spec"
    BY <1>5 DEF PodSpecPath
  <2> HIDE DEF path
  <2>2. \A n \in 0 .. 3 : below[n] = IF n = 0 THEN doc ELSE At(below[n - 1], path[n])
    BY <2>1
  <2>3. Below(path, below)
    <3>1. below = [n \in 0 .. 3 |-> below[n]]
      OBVIOUS
    <3> HIDE DEF below
    <3> QED
      BY <2>1, <2>2, <3>1
  <2> HIDE DEF below, Below
  <2>4. chosen[0] = doc /\ \A n \in 1 .. 3 : chosen[n] = At(chosen[n - 1], path[n])
    BY <1>2, <2>1, <2>3
  <2>5. /\ chosen[1] = At(doc, "spec") /\ chosen[2] = At(chosen[1], "template")
        /\ chosen[3] = At(chosen[2], "spec")
    BY <2>1, <2>4
  <2> QED
    BY <1>1, <1>5, <2>1, <2>5
<1> QED
  BY <1>3, <1>4, <1>5

=============================================================================
