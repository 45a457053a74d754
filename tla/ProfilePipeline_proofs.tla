------------------------ MODULE ProfilePipeline_proofs ------------------------
(***************************************************************************)
(* Proofs about ProfilePipeline for every set of editions, answers,        *)
(* settings, ports and connections: what a prepared configuration was      *)
(* prepared from, and from it each property of the module.  The lists are  *)
(* filtered and searched by position; the facts about that come first.     *)
(***************************************************************************)
EXTENDS ProfilePipeline, FiniteSetTheorems, WellFoundedInduction,
        SequenceTheorems, TLAPS

\* The order on numbers, as a relation.
Less == {ss \in Nat \X Nat : ss[1] < ss[2]}

\* It has no infinite descent, which stands in for induction below.
LEMMA LessWellFounded == IsWellFoundedOn(Less, Nat)
BY NatLessThanWellFounded DEF OpToRel, Less

\* A set of numbers that is not empty has a least one, which Min is.
LEMMA Least ==
  ASSUME NEW S \in SUBSET Nat, S # {}
  PROVE  Min(S) \in S /\ \A y \in S : Min(S) <= y
<1>1. PICK x \in S : \A y \in S : ~ (<<y, x>> \in Less)
  BY LessWellFounded, WFMin
<1>2. ASSUME NEW y \in S PROVE x <= y
  <2>1. x \in Nat /\ y \in Nat /\ ~ (<<y, x>> \in Less)
    BY <1>1
  <2>2. ~ (y < x)
    BY <2>1 DEF Less
  <2> QED
    BY <2>1, <2>2
<1> QED
  BY <1>2 DEF Min

\* Induction, over a set instead of a predicate.
LEMMA Numbers ==
  ASSUME NEW S, 0 \in S, \A n \in Nat : n \in S => n + 1 \in S
  PROVE  Nat \subseteq S
<1> DEFINE T == Nat \ S
<1>1. SUFFICES ASSUME T # {} PROVE FALSE
  OBVIOUS
<1>2. Min(T) \in T /\ \A y \in T : Min(T) <= y
  <2>1. T \in SUBSET Nat
    OBVIOUS
  <2> HIDE DEF T
  <2> QED
    BY <1>1, <2>1, Least
<1>3. Min(T) \in Nat /\ Min(T) # 0 /\ Min(T) - 1 \in Nat /\ (Min(T) - 1) + 1 = Min(T)
      /\ ~ (Min(T) <= Min(T) - 1)
  BY <1>2
<1> QED
  BY <1>2, <1>3

\* Max of a set of positions is in it.
LEMMA Greatest ==
  ASSUME NEW n \in Nat, NEW S \in SUBSET (1 .. n), S # {}
  PROVE  Max(S) \in S
<1> DEFINE U == {n - y : y \in S}
<1>0. \A y \in S : y \in Nat /\ y <= n
  OBVIOUS
<1>1. U \in SUBSET Nat /\ U # {}
  <2>1. \A y \in S : n - y \in Nat
    BY <1>0
  <2>2. PICK y \in S : TRUE
    OBVIOUS
  <2>3. n - y \in U
    BY <2>2
  <2> QED
    BY <2>1, <2>3
<1>2. Min(U) \in U /\ \A y \in U : Min(U) <= y
  <2> HIDE DEF U
  <2> QED
    BY <1>1, Least
<1>3. PICK x \in S : Min(U) = n - x
  BY <1>2
<1>4. \A y \in S : x >= y
  <2>1. TAKE y \in S
  <2>2. n - y \in U
    OBVIOUS
  <2>3. n - x <= n - y /\ x \in Nat /\ y \in Nat
    BY <1>0, <1>2, <1>3, <2>2
  <2> QED
    BY <2>3
<1> QED
  BY <1>4 DEF Max

-----------------------------------------------------------------------------
(* Lists.                                                                  *)

\* A list has positions from one on.
LEMMA ListIs ==
  ASSUME NEW x, IsList(x)
  PROVE  Len(x) \in Nat /\ DOMAIN x = 1 .. Len(x) /\ x = [i \in 1 .. Len(x) |-> x[i]]
<1>1. x \in Seq(Range(x))
  BY DEF IsList
<1> QED
  BY <1>1, LenProperties

\* A function from the positions up to n is a list of length n.
LEMMA IsAList ==
  ASSUME NEW n \in Nat, NEW x, x = [i \in 1 .. n |-> x[i]]
  PROVE  IsList(x) /\ Len(x) = n /\ DOMAIN x = 1 .. n
<1>1. DOMAIN x = 1 .. n
  OBVIOUS
<1>2. \A i \in 1 .. n : x[i] \in Range(x)
  BY <1>1 DEF Range
<1>3. x \in [1 .. n -> Range(x)]
  BY <1>2
<1>4. x \in Seq(Range(x))
  BY <1>3, SeqDef
<1> QED
  BY <1>1, <1>4, LenProperties DEF IsList

\* c is a followed by b.
Joined(c, a, b) ==
  /\ IsList(c) /\ Len(a) \in Nat /\ Len(b) \in Nat
  /\ Len(c) = Len(a) + Len(b) /\ DOMAIN c = 1 .. Len(a) + Len(b)
  /\ \A i \in 1 .. Len(a) : c[i] = a[i]
  /\ \A i \in 1 .. Len(b) : c[Len(a) + i] = b[i]

\* Concatenation puts one list behind the other.
LEMMA ConcatIs ==
  ASSUME NEW a, NEW b, IsList(a), IsList(b)
  PROVE  Joined(a \o b, a, b)
<1> DEFINE S == Range(a) \cup Range(b)
           c == a \o b
<1>1. a \in Seq(S) /\ b \in Seq(S) /\ Len(a) \in Nat /\ Len(b) \in Nat
  BY SeqMonotonic, ListIs DEF IsList
<1>2. /\ c \in Seq(S) /\ Len(c) = Len(a) + Len(b)
      /\ \A i \in 1 .. Len(a) + Len(b) : c[i] = IF i <= Len(a) THEN a[i] ELSE b[i - Len(a)]
  BY <1>1, ConcatProperties
<1>3. DOMAIN c = 1 .. Len(c) /\ Len(c) \in Nat /\ c \in [1 .. Len(c) -> S]
  BY <1>2, LenProperties
<1>4. IsList(c)
  BY <1>3, IsAList
<1>5. \A i \in 1 .. Len(a) : c[i] = a[i]
  BY <1>1, <1>2
<1>6. \A i \in 1 .. Len(b) : c[Len(a) + i] = b[i]
  <2>1. TAKE i \in 1 .. Len(b)
  <2>2. Len(a) + i \in 1 .. Len(a) + Len(b) /\ ~ (Len(a) + i <= Len(a)) /\ Len(a) + i - Len(a) = i
    BY <1>1
  <2> QED
    BY <1>2, <2>2
<1> QED
  BY <1>1, <1>2, <1>3, <1>4, <1>5, <1>6 DEF Joined

\* It has the elements of both.
LEMMA ConcatRange ==
  ASSUME NEW a, NEW b, IsList(a), IsList(b)
  PROVE  Range(a \o b) = Range(a) \cup Range(b)
<1> DEFINE c == a \o b
<1>0. Len(a) \in Nat /\ Len(b) \in Nat /\ DOMAIN a = 1 .. Len(a) /\ DOMAIN b = 1 .. Len(b)
  BY ListIs
<1>1. /\ DOMAIN c = 1 .. Len(a) + Len(b)
      /\ \A i \in 1 .. Len(a) : c[i] = a[i]
      /\ \A i \in 1 .. Len(b) : c[Len(a) + i] = b[i]
  BY ConcatIs DEF Joined
<1> HIDE DEF c
<1>2. ASSUME NEW x \in Range(c) PROVE x \in Range(a) \cup Range(b)
  <2>1. PICK i \in 1 .. Len(a) + Len(b) : x = c[i]
    BY <1>1 DEF Range
  <2>2. CASE i <= Len(a)
    <3>1. i \in 1 .. Len(a)
      BY <2>2, <1>0
    <3> QED
      BY <3>1, <2>1, <1>0, <1>1 DEF Range
  <2>3. CASE ~ (i <= Len(a))
    <3>1. i - Len(a) \in 1 .. Len(b) /\ Len(a) + (i - Len(a)) = i
      BY <2>3, <1>0
    <3>2. c[i] = b[i - Len(a)]
      BY <3>1, <1>1
    <3> QED
      BY <3>1, <3>2, <2>1, <1>0 DEF Range
  <2> QED
    BY <2>2, <2>3
<1>3. Range(a) \subseteq Range(c)
  <2>1. \A i \in 1 .. Len(a) : i \in DOMAIN c
    BY <1>0, <1>1
  <2> QED
    BY <1>0, <1>1, <2>1 DEF Range
<1>4. Range(b) \subseteq Range(c)
  <2>1. \A i \in 1 .. Len(b) : Len(a) + i \in DOMAIN c
    BY <1>0, <1>1
  <2> QED
    BY <1>0, <1>1, <2>1 DEF Range
<1> QED
  BY <1>2, <1>3, <1>4 DEF c

-----------------------------------------------------------------------------
(* Filters.                                                                *)

\* The elements of S before x.
Below(S, x) == {y \in S : y < x}

\* How many there are grows by one past an element of S.
LEMMA BelowIs ==
  ASSUME NEW n \in Nat, NEW S \in SUBSET (1 .. n), NEW x \in Nat
  PROVE  /\ IsFiniteSet(S) /\ IsFiniteSet(Below(S, x))
         /\ Cardinality(Below(S, x)) \in Nat /\ Cardinality(Below(S, x)) <= Cardinality(S)
         /\ Cardinality(S) \in Nat
         /\ Cardinality(Below(S, x + 1)) =
               IF x \in S THEN Cardinality(Below(S, x)) + 1 ELSE Cardinality(Below(S, x))
<1>1. IsFiniteSet(S)
  <2>1. IsFiniteSet(1 .. n)
    BY FS_Interval
  <2> QED
    BY <2>1, FS_Subset
<1>2. Below(S, x) \in SUBSET S
  BY DEF Below
<1>3. IsFiniteSet(Below(S, x)) /\ Cardinality(Below(S, x)) <= Cardinality(S)
  BY <1>1, <1>2, FS_Subset
<1>4. Cardinality(Below(S, x)) \in Nat /\ Cardinality(S) \in Nat
  BY <1>1, <1>3, FS_CardinalityType
<1>5. x \notin Below(S, x)
  BY DEF Below
<1>6. Below(S, x + 1) = IF x \in S THEN Below(S, x) \cup {x} ELSE Below(S, x)
  <2>1. \A y \in S : y \in Nat
    OBVIOUS
  <2>2. \A y \in S : y < x + 1 <=> y < x \/ y = x
    BY <2>1
  <2> QED
    BY <2>2 DEF Below
<1>7. Cardinality(Below(S, x) \cup {x}) = Cardinality(Below(S, x)) + 1
  BY <1>3, <1>5, FS_AddElement
<1> QED
  BY <1>1, <1>3, <1>4, <1>6, <1>7

\* A later element has more elements before it.
LEMMA BelowGrows ==
  ASSUME NEW n \in Nat, NEW S \in SUBSET (1 .. n), NEW x \in S, NEW y \in Nat, x < y
  PROVE  Cardinality(Below(S, x)) < Cardinality(Below(S, y))
<1>0. \A z \in S : z \in Nat
  OBVIOUS
<1>1. x \in Nat /\ x + 1 \in Nat
  BY <1>0
<1>2. Cardinality(Below(S, x + 1)) = Cardinality(Below(S, x)) + 1 /\ Cardinality(Below(S, x)) \in Nat
  BY <1>1, BelowIs
<1>3. Below(S, x + 1) \in SUBSET Below(S, y)
  <2>1. \A z \in S : z < x + 1 => z < y
    BY <1>0, <1>1
  <2> QED
    BY <2>1 DEF Below
<1>4. IsFiniteSet(Below(S, y)) /\ Cardinality(Below(S, y)) \in Nat
  BY BelowIs
<1>5. Cardinality(Below(S, x + 1)) <= Cardinality(Below(S, y))
  BY <1>3, <1>4, FS_Subset
<1> QED
  BY <1>2, <1>4, <1>5

\* Every rank below the number of elements is some element's.
LEMMA RankTaken ==
  ASSUME NEW n \in Nat, NEW S \in SUBSET (1 .. n), NEW k \in 1 .. Cardinality(S)
  PROVE  \E x \in S : Cardinality(Below(S, x)) = k - 1
<1> DEFINE Good == {m \in Nat : k <= Cardinality(Below(S, m)) =>
                                   \E x \in S : Cardinality(Below(S, x)) = k - 1}
<1>0. k \in Nat /\ k >= 1 /\ Cardinality(S) \in Nat
  <2>1. Cardinality(S) \in Nat
    BY BelowIs
  <2> QED
    BY <2>1
<1>1. 0 \in Good
  <2>0. \A z \in S : z \in Nat /\ ~ (z < 0)
    OBVIOUS
  <2>1. Below(S, 0) = {}
    BY <2>0 DEF Below
  <2> QED
    BY <2>1, <1>0, FS_EmptySet
<1>2. ASSUME NEW m \in Nat, m \in Good PROVE m + 1 \in Good
  <2>1. Cardinality(Below(S, m)) \in Nat
        /\ Cardinality(Below(S, m + 1)) =
              IF m \in S THEN Cardinality(Below(S, m)) + 1 ELSE Cardinality(Below(S, m))
    BY BelowIs
  <2> QED
    BY <2>1, <1>2, <1>0
<1>3. Nat \subseteq Good
  <2> HIDE DEF Good
  <2> QED
    BY <1>1, <1>2, Numbers
<1>4. Below(S, n + 1) = S
  <2>1. \A z \in S : z < n + 1
    OBVIOUS
  <2> QED
    BY <2>1 DEF Below
<1>5. n + 1 \in Good
  BY <1>3
<1> QED
  BY <1>4, <1>5

\* InOrder lists every element of a set of positions, once and in order.
LEMMA InOrderIs ==
  ASSUME NEW n \in Nat, NEW S \in SUBSET (1 .. n)
  PROVE  /\ Cardinality(S) \in Nat
         /\ InOrder(S) \in [1 .. Cardinality(S) -> S]
         /\ \A x \in S : \E k \in 1 .. Cardinality(S) : InOrder(S)[k] = x
         /\ \A j, k \in 1 .. Cardinality(S) : j < k => InOrder(S)[j] < InOrder(S)[k]
<1> DEFINE m == Cardinality(S)
           e == InOrder(S)
<1>0. m \in Nat /\ \A x \in S : x \in Nat
  <2>1. 0 \in Nat
    OBVIOUS
  <2>2. m \in Nat
    BY <2>1, BelowIs
  <2> QED
    BY <2>2
<1>1. DOMAIN e = 1 .. m /\ \A k \in 1 .. m : e[k] \in S /\ Cardinality(Below(S, e[k])) = k - 1
  <2>1. e = [k \in 1 .. m |-> CHOOSE x \in S : Cardinality(Below(S, x)) = k - 1]
    BY DEF InOrder, Below
  <2>2. ASSUME NEW k \in 1 .. m
        PROVE  e[k] \in S /\ Cardinality(Below(S, e[k])) = k - 1
    <3>1. e[k] = CHOOSE x \in S : Cardinality(Below(S, x)) = k - 1
      BY <2>1
    <3>2. \E x \in S : Cardinality(Below(S, x)) = k - 1
      BY RankTaken
    <3> QED
      BY <3>1, <3>2
  <2> QED
    BY <2>1, <2>2
<1>2. e \in [1 .. m -> S]
  <2>1. e = [k \in 1 .. m |-> CHOOSE x \in S : Cardinality({y \in S : y < x}) = k - 1]
    BY DEF InOrder
  <2> HIDE DEF e
  <2> QED
    BY <2>1, <1>1
<1>3. ASSUME NEW x \in S PROVE \E k \in 1 .. m : e[k] = x
  <2> DEFINE k == Cardinality(Below(S, x)) + 1
  <2>0. x \in Nat
    BY <1>0
  <2>1. /\ Cardinality(Below(S, x)) \in Nat
        /\ Cardinality(Below(S, x + 1)) = Cardinality(Below(S, x)) + 1
        /\ Cardinality(Below(S, x + 1)) <= m
    <3>1. x + 1 \in Nat
      BY <2>0
    <3>2. Cardinality(Below(S, x + 1)) <= m
      BY <3>1, BelowIs
    <3> QED
      BY <2>0, <3>2, BelowIs
  <2>2. k \in 1 .. m /\ k - 1 = Cardinality(Below(S, x))
    BY <2>1, <1>0
  <2>3. e[k] \in S /\ Cardinality(Below(S, e[k])) = Cardinality(Below(S, x))
    BY <2>2, <1>1
  <2>4. e[k] \in Nat
    BY <2>3, <1>0
  <2>5. ~ (e[k] < x) /\ ~ (x < e[k])
    <3>1. ~ (Cardinality(Below(S, x)) < Cardinality(Below(S, x)))
      BY <2>1
    <3>2. ~ (x < e[k])
      BY <3>1, <2>3, <2>4, BelowGrows
    <3>3. ~ (e[k] < x)
      BY <3>1, <2>0, <2>3, BelowGrows
    <3> QED
      BY <3>2, <3>3
  <2>6. e[k] = x
    BY <2>0, <2>4, <2>5
  <2> QED
    BY <2>2, <2>6
<1>4. ASSUME NEW j \in 1 .. m, NEW k \in 1 .. m, j < k PROVE e[j] < e[k]
  <2>1. e[j] \in S /\ e[k] \in S /\ Cardinality(Below(S, e[j])) < Cardinality(Below(S, e[k]))
    BY <1>1, <1>4, <1>0
  <2>0. e[j] \in Nat /\ e[k] \in Nat
    BY <2>1, <1>0
  <2>2. e[j] \in Nat /\ e[k] \in Nat /\ Cardinality(Below(S, e[j])) \in Nat
        /\ Cardinality(Below(S, e[k])) \in Nat
    <3>1. Cardinality(Below(S, e[j])) \in Nat
      BY <2>0, BelowIs
    <3>2. Cardinality(Below(S, e[k])) \in Nat
      BY <2>0, BelowIs
    <3> QED
      BY <2>0, <3>1, <3>2
  <2>3. e[j] # e[k]
    BY <2>1, <2>2
  <2>4. ~ (e[k] < e[j])
    BY <2>1, <2>2, BelowGrows
  <2> QED
    BY <2>2, <2>3, <2>4
<1> QED
  BY <1>0, <1>2, <1>3, <1>4

\* At keeps the elements at the given positions in their order.
LEMMA AtIs ==
  ASSUME NEW list, IsList(list), NEW S \in SUBSET (DOMAIN list)
  PROVE  /\ IsList(At(list, S)) /\ Len(At(list, S)) = Cardinality(S)
         /\ DOMAIN At(list, S) = 1 .. Cardinality(S) /\ Cardinality(S) \in Nat
         /\ InOrder(S) \in [1 .. Cardinality(S) -> S]
         /\ \A x \in S : \E k \in 1 .. Cardinality(S) : InOrder(S)[k] = x
         /\ \A j, k \in 1 .. Cardinality(S) : j < k => InOrder(S)[j] < InOrder(S)[k]
         /\ \A k \in 1 .. Cardinality(S) : At(list, S)[k] = list[InOrder(S)[k]]
<1>1. Len(list) \in Nat /\ DOMAIN list = 1 .. Len(list)
  BY ListIs
<1>2. /\ Cardinality(S) \in Nat
      /\ InOrder(S) \in [1 .. Cardinality(S) -> S]
      /\ \A x \in S : \E k \in 1 .. Cardinality(S) : InOrder(S)[k] = x
      /\ \A j, k \in 1 .. Cardinality(S) : j < k => InOrder(S)[j] < InOrder(S)[k]
  BY <1>1, InOrderIs
<1>3. \A k \in 1 .. Cardinality(S) : At(list, S)[k] = list[InOrder(S)[k]]
  BY DEF At
<1>4. At(list, S) = [k \in 1 .. Cardinality(S) |-> At(list, S)[k]]
  BY DEF At
<1>5. IsList(At(list, S)) /\ Len(At(list, S)) = Cardinality(S) /\ DOMAIN At(list, S) = 1 .. Cardinality(S)
  BY <1>2, <1>4, IsAList
<1> QED
  BY <1>2, <1>3, <1>5

-----------------------------------------------------------------------------
(* The first rule that hits.                                               *)

\* The first rule that hits decides.
LEMMA FirstIs ==
  ASSUME NEW rules, IsList(rules), NEW hits \in SUBSET (DOMAIN rules), NEW k \in hits,
         \A j \in hits : k <= j, NEW otherwise
  PROVE  FirstSays(rules, hits, otherwise) = Says(rules[k])
<1>1. Len(rules) \in Nat /\ DOMAIN rules = 1 .. Len(rules)
  BY ListIs
<1>2. hits \in SUBSET Nat /\ hits # {} /\ \A j \in hits : j \in Nat
  BY <1>1
<1>3. Min(hits) \in hits /\ \A y \in hits : Min(hits) <= y
  BY <1>2, Least
<1>4. Min(hits) <= k /\ k <= Min(hits) /\ Min(hits) \in Nat /\ k \in Nat
  BY <1>2, <1>3
<1>5. Min(hits) = k
  BY <1>4
<1> QED
  BY <1>2, <1>5 DEF FirstSays

\* Some rule hits, and the first that does decides.
LEMMA FirstExists ==
  ASSUME NEW rules, IsList(rules), NEW hits \in SUBSET (DOMAIN rules), hits # {}, NEW otherwise
  PROVE  \E k \in hits : /\ \A j \in hits : k <= j
                         /\ FirstSays(rules, hits, otherwise) = Says(rules[k])
<1>1. Len(rules) \in Nat /\ DOMAIN rules = 1 .. Len(rules)
  BY ListIs
<1>2. hits \in SUBSET Nat
  BY <1>1
<1>3. Min(hits) \in hits /\ \A y \in hits : Min(hits) <= y
  BY <1>2, Least
<1> QED
  BY <1>3 DEF FirstSays

\* What comes after the first rule that hits does not matter.
LEMMA ConcatDecides ==
  ASSUME NEW a, NEW b, IsList(a), IsList(b), NEW c, Hits(a, c) # {}, NEW o1, NEW o2
  PROVE  Decision(a \o b, o1, c) = Decision(a, o2, c)
<1> DEFINE ab == a \o b
<1>0. IsList(ab) /\ Len(a) \in Nat /\ Len(b) \in Nat /\ DOMAIN a = 1 .. Len(a)
      /\ DOMAIN ab = 1 .. Len(a) + Len(b) /\ \A i \in 1 .. Len(a) : ab[i] = a[i]
  BY ListIs, ConcatIs DEF Joined
<1> HIDE DEF ab
<1>1. Hits(a, c) \in SUBSET (DOMAIN a) /\ Hits(ab, c) \in SUBSET (DOMAIN ab)
  BY DEF Hits
<1>2. PICK k \in Hits(a, c) : /\ \A j \in Hits(a, c) : k <= j
                              /\ FirstSays(a, Hits(a, c), o2) = Says(a[k])
  BY <1>1, FirstExists
<1>3. k \in 1 .. Len(a) /\ k \in Nat /\ ab[k] = a[k] /\ k \in DOMAIN ab
  BY <1>0, <1>1
<1>4. k \in Hits(ab, c)
  BY <1>3, <1>2 DEF Hits
<1>5. ASSUME NEW j \in Hits(ab, c) PROVE k <= j
  <2>1. j \in 1 .. Len(a) + Len(b) /\ j \in Nat
    BY <1>0, <1>1
  <2>2. CASE j <= Len(a)
    <3>1. j \in 1 .. Len(a) /\ ab[j] = a[j] /\ j \in DOMAIN a
      BY <2>1, <2>2, <1>0
    <3>2. j \in Hits(a, c)
      BY <3>1 DEF Hits
    <3> QED
      BY <3>2, <1>2
  <2>3. CASE ~ (j <= Len(a))
    BY <2>1, <2>3, <1>0, <1>3
  <2> QED
    BY <2>2, <2>3
<1>6. FirstSays(ab, Hits(ab, c), o1) = Says(ab[k])
  BY <1>0, <1>1, <1>4, <1>5, FirstIs
<1> QED
  BY <1>2, <1>3, <1>6 DEF Decision, ab

-----------------------------------------------------------------------------
(* The program's own route rules.                                          *)

\* The rule of the sniffing switch, and what comes before the user's choices.
SniffRule == [match |-> <<>>, verb |-> "sniff", to |-> NoTag]
Opening(s) == <<Hijack, LanBypass>> \o Sniffing(s)

\* Lists of none, one and two elements.
LEMMA NoneIs == IsList(<<>>) /\ Len(<<>>) = 0 /\ \A i \in 1 .. 0 : FALSE
<1>1. <<>> \in Seq(Range(<<>>)) /\ Len(<<>>) = 0
  BY EmptySeq
<1> QED
  BY <1>1 DEF IsList

LEMMA OneIs ==
  ASSUME NEW x
  PROVE  IsList(<<x>>) /\ Len(<<x>>) = 1 /\ Range(<<x>>) = {x} /\ \A i \in 1 .. 1 : <<x>>[i] = x
<1>1. <<x>> \in Seq({x}) /\ Len(<<x>>) = 1 /\ Range(<<x>>) = {x} /\ <<x>>[1] = x
  BY DEF Range
<1>2. \A i \in 1 .. 1 : i = 1
  OBVIOUS
<1> QED
  BY <1>1, <1>2 DEF IsList

LEMMA TwoIs ==
  ASSUME NEW x, NEW y
  PROVE  IsList(<<x, y>>) /\ Len(<<x, y>>) = 2 /\ \A i \in 1 .. 2 : <<x, y>>[i] \in {x, y}
<1>1. <<x, y>> \in Seq({x, y}) /\ Len(<<x, y>>) = 2
  OBVIOUS
<1>2. Range(<<x, y>>) = {x, y}
  BY DEF Range
<1>3. \A i \in 1 .. 2 : i = 1 \/ i = 2
  OBVIOUS
<1> QED
  BY <1>1, <1>2, <1>3 DEF IsList

\* The opening of the route has these rules alone.
LEMMA OpeningIs ==
  ASSUME NEW s
  PROVE  /\ IsList(Opening(s)) /\ Len(Opening(s)) \in {2, 3}
         /\ \A i \in 1 .. Len(Opening(s)) : Opening(s)[i] \in {Hijack, LanBypass, SniffRule}
<1> DEFINE two == <<Hijack, LanBypass>>
<1>1. IsList(two) /\ Len(two) = 2 /\ \A i \in 1 .. 2 : two[i] \in {Hijack, LanBypass}
  BY TwoIs
<1>2. /\ IsList(Sniffing(s)) /\ Len(Sniffing(s)) \in {0, 1}
      /\ \A i \in 1 .. Len(Sniffing(s)) : Sniffing(s)[i] = SniffRule
  <2>1. Sniffing(s) = <<SniffRule>> \/ Sniffing(s) = <<>>
    BY DEF Sniffing, SniffRule
  <2>2. CASE Sniffing(s) = <<SniffRule>>
    BY <2>2, OneIs
  <2>3. CASE Sniffing(s) = <<>>
    BY <2>3, NoneIs
  <2> QED
    BY <2>1, <2>2, <2>3
<1>0. Joined(two \o Sniffing(s), two, Sniffing(s))
  BY <1>1, <1>2, ConcatIs
<1> HIDE DEF two
<1>3. /\ IsList(two \o Sniffing(s)) /\ Len(two \o Sniffing(s)) = 2 + Len(Sniffing(s))
      /\ \A i \in 1 .. 2 : (two \o Sniffing(s))[i] = two[i]
      /\ \A i \in 1 .. Len(Sniffing(s)) : (two \o Sniffing(s))[2 + i] = Sniffing(s)[i]
  BY <1>0, <1>1, <1>2 DEF Joined
<1>4. ASSUME NEW i \in 1 .. 2 + Len(Sniffing(s))
      PROVE  (two \o Sniffing(s))[i] \in {Hijack, LanBypass, SniffRule}
  <2>1. CASE i <= 2
    <3>1. i \in 1 .. 2
      BY <2>1, <1>2
    <3> QED
      BY <3>1, <1>1, <1>3
  <2>2. CASE ~ (i <= 2)
    <3>1. i - 2 \in 1 .. Len(Sniffing(s)) /\ 2 + (i - 2) = i
      BY <2>2, <1>2
    <3> QED
      BY <3>1, <1>2, <1>3
  <2> QED
    BY <2>1, <2>2
<1> QED
  BY <1>2, <1>3, <1>4 DEF Opening, two

\* The user's rules in the core's shape are a list.
LEMMA CustomIs ==
  ASSUME NEW s, IsList(s.rules)
  PROVE  IsList(CustomRules(s))
<1> DEFINE rules == [i \in DOMAIN s.rules |-> Normalized(s.rules[i])]
           S == {i \in DOMAIN rules : IsEnabled(s.rules[i]) /\ Meaningful(rules[i])}
<1>1. Len(s.rules) \in Nat /\ DOMAIN s.rules = 1 .. Len(s.rules)
  BY ListIs
<1>2. rules = [i \in 1 .. Len(s.rules) |-> rules[i]]
  BY <1>1
<1>3. S \in SUBSET (DOMAIN rules)
  OBVIOUS
<1>4. CustomRules(s) = At(rules, S)
  BY DEF CustomRules
<1> HIDE DEF rules, S
<1> QED
  BY <1>1, <1>2, <1>3, <1>4, IsAList, AtIs

\* The rule for a list of picked applications.
AppList(A, to) == [match |-> [app |-> A], verb |-> "route", to |-> to]

\* AppRule is that rule, or nothing for an empty list.
LEMMA AppRuleIs ==
  ASSUME NEW list, NEW to
  PROVE  /\ IsList(AppRule(list, to)) /\ Len(AppRule(list, to)) \in {0, 1}
         /\ Names(list) # {} => /\ Len(AppRule(list, to)) = 1
                                /\ AppRule(list, to)[1] = AppList(Names(list), to)
         /\ \A i \in 1 .. Len(AppRule(list, to)) : AppRule(list, to)[i] = AppList(Names(list), to)
<1>1. CASE Names(list) = {}
  <2>1. AppRule(list, to) = <<>>
    BY <1>1 DEF AppRule
  <2> QED
    BY <1>1, <2>1, NoneIs
<1>2. CASE Names(list) # {}
  <2>1. AppRule(list, to) = <<AppList(Names(list), to)>>
    BY <1>2 DEF AppRule, AppList
  <2> QED
    BY <2>1, OneIs
<1> QED
  BY <1>1, <1>2

\* Where the rules for picked applications stand in the route.
LEMMA RouteIs ==
  ASSUME NEW s, IsList(s.rules)
  PROVE  LET r == BuildRoute(s)
             n == Len(Opening(s))
             d == Len(AppRule(s.direct, "direct"))
         IN /\ IsList(r) /\ Len(r) \in Nat /\ DOMAIN r = 1 .. Len(r)
            /\ n \in {2, 3} /\ d \in {0, 1} /\ n <= Len(r)
            /\ \A i \in 1 .. n : r[i] \in {Hijack, LanBypass, SniffRule}
            /\ \A i \in n + 1 .. n + d : i \in DOMAIN r /\ r[i] = AppList(Names(s.direct), "direct")
            /\ Names(s.direct) # {} => d = 1
            /\ Names(s.vpn) # {} => /\ n + d + 1 \in DOMAIN r
                                    /\ r[n + d + 1] = AppList(Names(s.vpn), "proxy")
<1> DEFINE f == Opening(s)
           dd == AppRule(s.direct, "direct")
           v == AppRule(s.vpn, "proxy")
           u == CustomRules(s)
           fd == f \o dd
           fdv == fd \o v
           r == fdv \o u
           n == Len(f)
           d == Len(dd)
<1>0. BuildRoute(s) = r
  BY DEF BuildRoute, Opening
<1>1. /\ IsList(f) /\ n \in {2, 3} /\ \A i \in 1 .. n : f[i] \in {Hijack, LanBypass, SniffRule}
  BY OpeningIs
<1>2. /\ IsList(dd) /\ d \in {0, 1} /\ (Names(s.direct) # {} => d = 1)
      /\ \A i \in 1 .. d : dd[i] = AppList(Names(s.direct), "direct")
  BY AppRuleIs
<1>3. /\ IsList(v) /\ Len(v) \in {0, 1}
      /\ Names(s.vpn) # {} => Len(v) = 1 /\ v[1] = AppList(Names(s.vpn), "proxy")
  BY AppRuleIs
<1>4. IsList(u) /\ Len(u) \in Nat
  BY CustomIs, ListIs
<1> HIDE DEF f, dd, v, u
<1>5. /\ IsList(fd) /\ Len(fd) = n + d
      /\ \A i \in 1 .. n : fd[i] = f[i]
      /\ \A i \in 1 .. d : fd[n + i] = dd[i]
  <2>1. Joined(fd, f, dd)
    BY <1>1, <1>2, ConcatIs
  <2> HIDE DEF fd
  <2> QED
    BY <2>1 DEF Joined
<1> HIDE DEF fd
<1>6. /\ IsList(fdv) /\ Len(fdv) = n + d + Len(v)
      /\ \A i \in 1 .. n + d : fdv[i] = fd[i]
      /\ \A i \in 1 .. Len(v) : fdv[n + d + i] = v[i]
  <2>1. Joined(fdv, fd, v)
    BY <1>3, <1>5, ConcatIs
  <2> HIDE DEF fdv
  <2> QED
    BY <2>1, <1>5 DEF Joined
<1> HIDE DEF fdv
<1>7. /\ IsList(r) /\ Len(r) = n + d + Len(v) + Len(u) /\ DOMAIN r = 1 .. Len(r)
      /\ \A i \in 1 .. n + d + Len(v) : r[i] = fdv[i]
  <2>1. Joined(r, fdv, u)
    BY <1>4, <1>6, ConcatIs
  <2> HIDE DEF r
  <2> QED
    BY <2>1, <1>6 DEF Joined
<1> HIDE DEF r, n, d
<1>8. Len(r) \in Nat /\ n <= Len(r) /\ n + d <= Len(r)
  BY <1>1, <1>2, <1>3, <1>4, <1>7
<1>9. \A i \in 1 .. n : r[i] \in {Hijack, LanBypass, SniffRule}
  <2>1. \A i \in 1 .. n : i \in 1 .. n + d /\ i \in 1 .. n + d + Len(v)
    BY <1>1, <1>2, <1>3
  <2> QED
    BY <2>1, <1>1, <1>5, <1>6, <1>7
<1>10. ASSUME NEW i \in n + 1 .. n + d
       PROVE  i \in DOMAIN r /\ r[i] = AppList(Names(s.direct), "direct")
  <2>1. i - n \in 1 .. d /\ n + (i - n) = i /\ i \in 1 .. n + d /\ i \in 1 .. n + d + Len(v)
        /\ i \in 1 .. Len(r)
    BY <1>1, <1>2, <1>3, <1>4, <1>7
  <2>2. fd[i] = dd[i - n]
    BY <2>1, <1>5
  <2> QED
    BY <2>1, <2>2, <1>2, <1>6, <1>7
<1>11. ASSUME Names(s.vpn) # {}
       PROVE  n + d + 1 \in DOMAIN r /\ r[n + d + 1] = AppList(Names(s.vpn), "proxy")
  <2>1. n + d + 1 \in 1 .. n + d + Len(v) /\ 1 \in 1 .. Len(v) /\ n + d + 1 \in 1 .. Len(r)
    BY <1>11, <1>1, <1>2, <1>3, <1>4, <1>7
  <2>2. fdv[n + d + 1] = v[1]
    BY <2>1, <1>6
  <2> QED
    BY <2>1, <2>2, <1>11, <1>3, <1>7
<1> QED
  BY <1>0, <1>1, <1>2, <1>7, <1>8, <1>9, <1>10, <1>11 DEF n, d, f, dd

-----------------------------------------------------------------------------
(* What is stored.                                                         *)

\* sanitize_bundle_config leaves an Xray configuration one.
LEMMA SanitizedXray ==
  ASSUME NEW p, IsXray(p)
  PROVE  IsXray(Sanitized(p))
<1> DEFINE ins == [i \in DOMAIN p.inbounds |->
                     IF p.inbounds[i].listen = Everywhere
                     THEN [p.inbounds[i] EXCEPT !.listen = Local] ELSE p.inbounds[i]]
           q == [p EXCEPT !.inbounds = ins]
<1>1. /\ DOMAIN p = {"inbounds", "outbounds", "balancers", "api", "rules"}
      /\ IsList(p.inbounds) /\ IsList(p.outbounds) /\ IsList(p.rules)
      /\ \A l \in Range(p.inbounds) : DOMAIN l = {"tag", "protocol", "listen", "port"}
      /\ \A o \in Range(p.outbounds) : DOMAIN o = {"tag", "protocol", "dialer", "legacy"}
  BY DEF IsXray
<1>2. Sanitized(p) = q
  BY <1>1 DEF Sanitized
<1>3. /\ DOMAIN q = DOMAIN p /\ q.inbounds = ins /\ q.outbounds = p.outbounds
      /\ q.rules = p.rules
  BY <1>1
<1>4. Len(p.inbounds) \in Nat /\ DOMAIN p.inbounds = 1 .. Len(p.inbounds)
  BY <1>1, ListIs
<1>5. ins = [i \in 1 .. Len(p.inbounds) |-> ins[i]]
  BY <1>4
<1>6. IsList(ins) /\ DOMAIN ins = 1 .. Len(p.inbounds)
  <2> HIDE DEF ins
  <2> QED
    BY <1>4, <1>5, IsAList
<1>7. ASSUME NEW l \in Range(ins) PROVE DOMAIN l = {"tag", "protocol", "listen", "port"}
  <2>1. PICK i \in 1 .. Len(p.inbounds) : l = ins[i]
    <3> HIDE DEF ins
    <3> QED
      BY <1>6 DEF Range
  <2>2. p.inbounds[i] \in Range(p.inbounds)
    BY <1>4 DEF Range
  <2>3. DOMAIN p.inbounds[i] = {"tag", "protocol", "listen", "port"}
    BY <1>1, <2>2
  <2> QED
    BY <1>4, <2>1, <2>3
<1> HIDE DEF ins, q
<1> QED
  BY <1>1, <1>2, <1>3, <1>6, <1>7 DEF IsXray

\* What remains of parsed entries is a list.
LEMMA NodesIs ==
  ASSUME NEW n \in Nat, NEW parsed, parsed = [i \in 1 .. n |-> parsed[i]]
  PROVE  IsList(Nodes(parsed))
<1>1. IsList(parsed)
  BY IsAList
<1>2. {i \in DOMAIN parsed : parsed[i] # None} \in SUBSET (DOMAIN parsed)
  OBVIOUS
<1> QED
  BY <1>1, <1>2, AtIs DEF Nodes

\* The cap keeps a list, of the same elements.
LEMMA FirstOnes ==
  ASSUME NEW list, IsList(list)
  PROVE  LET kept == SubSeq(list, 1, Min({MaxItems, Len(list)})) IN
         IsList(kept) /\ Range(kept) \subseteq Range(list)
<1> DEFINE m == Min({MaxItems, Len(list)})
           kept == SubSeq(list, 1, m)
<1>1. Len(list) \in Nat /\ DOMAIN list = 1 .. Len(list) /\ MaxItems \in Nat
  BY ListIs, MaxItemsAssumption DEF MaxItemsAssumption
<1>2. m \in Nat /\ m <= Len(list)
  <2>1. {MaxItems, Len(list)} \in SUBSET Nat /\ {MaxItems, Len(list)} # {}
    BY <1>1
  <2>2. Min({MaxItems, Len(list)}) \in {MaxItems, Len(list)}
        /\ \A y \in {MaxItems, Len(list)} : Min({MaxItems, Len(list)}) <= y
    BY <2>1, Least
  <2> QED
    BY <2>2, <1>1
<1> HIDE DEF m
<1>3. \A i \in 1 .. m : list[i] \in Range(list)
  <2>1. \A i \in 1 .. m : i \in 1 .. Len(list)
    BY <1>1, <1>2
  <2> QED
    BY <1>1, <2>1 DEF Range
<1>4. kept \in Seq(Range(list))
  BY <1>2, <1>3, SubSeqProperties
<1>5. Len(kept) \in Nat /\ kept \in [1 .. Len(kept) -> Range(list)]
  <2> HIDE DEF kept
  <2> QED
    BY <1>4, LenProperties
<1>6. IsList(kept) /\ Range(kept) \subseteq Range(list)
  <2> HIDE DEF kept
  <2> QED
    BY <1>5, IsAList DEF Range
<1> QED
  BY <1>6 DEF m

\* A child is an item's configuration, on the desktop sanitized.
LEMMA ChildrenAre ==
  ASSUME NEW items, IsList(items), NEW capped \in BOOLEAN, NEW i \in DOMAIN Children(items, capped)
  PROVE  \E item \in Range(items) :
            Children(items, capped)[i] \in {item.config, Sanitized(item.config)}
<1> DEFINE kept == IF capped THEN SubSeq(items, 1, Min({MaxItems, Len(items)})) ELSE items
<1>1. Range(kept) \subseteq Range(items)
  BY FirstOnes
<1>2. Children(items, capped)
        = [k \in DOMAIN kept |-> IF capped THEN Sanitized(kept[k].config) ELSE kept[k].config]
  BY DEF Children
<1> HIDE DEF kept
<1>3. i \in DOMAIN kept
  BY <1>2
<1>4. kept[i] \in Range(items)
  BY <1>1, <1>3 DEF Range
<1> QED
  BY <1>2, <1>3, <1>4

\* Classified links are a list of nodes that is not empty.
LEMMA LinksAreLists ==
  ASSUME NEW items, IsList(items), NEW capped \in BOOLEAN, NEW st,
         \/ st = ClassifyLinks(items, capped) \/ st = ClassifyYaml(items),
         st # None
  PROVE  st.kind = "links" /\ IsList(st.nodes) /\ st.nodes # <<>>
<1>1. Len(items) \in Nat /\ DOMAIN items = 1 .. Len(items)
  BY ListIs
<1>2. CASE st = ClassifyYaml(items)
  <2> DEFINE parsed == [i \in DOMAIN items |-> ParseClash(items[i])]
  <2>1. st = Links(Nodes(parsed)) /\ Nodes(parsed) # <<>>
    BY <1>2 DEF ClassifyYaml
  <2>2. parsed = [i \in 1 .. Len(items) |-> parsed[i]]
    BY <1>1
  <2> HIDE DEF parsed
  <2>3. IsList(Nodes(parsed))
    BY <1>1, <2>2, NodesIs
  <2> QED
    BY <2>1, <2>3 DEF Links
<1>3. CASE st = ClassifyLinks(items, capped)
  <2> DEFINE parsed == [i \in DOMAIN items |-> ParseLink(items[i])]
             nodes == Nodes(parsed)
             R == {i \in DOMAIN nodes : Real(nodes[i])}
             real == At(nodes, R)
             kept == IF capped THEN SubSeq(real, 1, Min({MaxItems, Len(real)})) ELSE real
  <2>1. st = Links(kept) /\ kept # <<>>
    BY <1>3 DEF ClassifyLinks
  <2>2. parsed = [i \in 1 .. Len(items) |-> parsed[i]]
    BY <1>1
  <2> HIDE DEF parsed
  <2>3. IsList(nodes)
    BY <1>1, <2>2, NodesIs
  <2>4. R \in SUBSET (DOMAIN nodes)
    OBVIOUS
  <2> HIDE DEF nodes, R
  <2>5. IsList(real)
    BY <2>3, <2>4, AtIs
  <2> HIDE DEF real
  <2>6. IsList(kept)
    BY <2>5, FirstOnes
  <2> HIDE DEF kept
  <2> QED
    BY <2>1, <2>6 DEF Links
<1> QED
  BY <1>2, <1>3

\* What Classify accepts: nodes, or configurations of one engine.
LEMMA StoredIs ==
  ASSUME NEW b \in Bodies, NEW desktop \in BOOLEAN, NEW st, st = Classify(b, desktop), st # None
  PROVE  /\ st.kind = "links" => IsList(st.nodes) /\ st.nodes # <<>>
         /\ st.kind = "singbox" => \A i \in DOMAIN st.configs : IsSingbox(st.configs[i])
         /\ st.kind = "xray" => \A i \in DOMAIN st.configs : IsXray(st.configs[i])
<1>1. /\ IsList(b.items)
      /\ b.shape = "json" =>
           \A item \in Range(b.items) :
              /\ item.marks = {"singbox"} => IsSingbox(item.config)
              /\ item.marks = {"xray"} => IsXray(item.config)
  BY BodiesAssumption DEF BodiesAssumption
<1>2. Len(b.items) \in Nat /\ DOMAIN b.items = 1 .. Len(b.items)
  BY <1>1, ListIs
<1>3. CASE b.shape # "json"
  <2>1. st = ClassifyYaml(b.items) \/ st = ClassifyLinks(b.items, desktop)
    BY <1>3 DEF Classify
  <2>2. st.kind = "links" /\ IsList(st.nodes) /\ st.nodes # <<>>
    BY <1>1, <2>1, LinksAreLists
  <2> QED
    BY <2>2
<1>4. CASE b.shape = "json"
  <2>1. st = ClassifyJson(b.items, desktop)
    BY <1>4 DEF Classify
  <2>2. CASE \A i \in DOMAIN b.items : b.items[i].like /\ b.items[i].node # None
    <3> DEFINE nodes == [i \in DOMAIN b.items |-> b.items[i].node]
    <3>1. st = Links(nodes) /\ b.items # <<>>
      BY <2>1, <2>2 DEF ClassifyJson
    <3>2. nodes = [i \in 1 .. Len(b.items) |-> nodes[i]]
      BY <1>2
    <3> HIDE DEF nodes
    <3>3. IsList(nodes) /\ Len(nodes) = Len(b.items)
      BY <1>2, <3>2, IsAList
    <3>4. nodes # <<>>
      <4>1. Len(b.items) # 0
        BY <1>1, <3>1, EmptySeq DEF IsList
      <4> QED
        BY <3>3, <4>1, NoneIs
    <3> QED
      BY <3>1, <3>3, <3>4 DEF Links
  <2>3. CASE ~ (\A i \in DOMAIN b.items : b.items[i].like /\ b.items[i].node # None)
    <3>1. OneEngine(b.items) /\ b.items # <<>>
          /\ st = Bundle(CHOOSE engine \in b.items[1].marks : TRUE, Children(b.items, desktop))
      BY <2>1, <2>3 DEF ClassifyJson
    <3>2. PICK engine \in {"singbox", "xray"} : \A i \in DOMAIN b.items : b.items[i].marks = {engine}
      BY <3>1 DEF OneEngine
    <3>3. 1 \in DOMAIN b.items
      <4>1. b.items \in Seq(Range(b.items))
        BY <1>1 DEF IsList
      <4>2. Len(b.items) \in Nat \ {0}
        BY <3>1, <4>1, EmptySeq
      <4> QED
        BY <1>2, <4>2
    <3>4. (CHOOSE e \in b.items[1].marks : TRUE) = engine
      BY <3>2, <3>3
    <3>5. st.kind = engine /\ st.configs = Children(b.items, desktop)
      BY <3>1, <3>4 DEF Bundle
    <3>6. \A item \in Range(b.items) : item.marks = {engine}
      BY <3>2 DEF Range
    <3>7. ASSUME NEW i \in DOMAIN st.configs
          PROVE  \E item \in Range(b.items) :
                    item.marks = {engine}
                    /\ st.configs[i] \in {item.config, Sanitized(item.config)}
      <4>1. i \in DOMAIN Children(b.items, desktop)
        BY <3>5
      <4> QED
        BY <4>1, <1>1, <3>5, <3>6, ChildrenAre
    <3>8. CASE engine = "singbox"
      <4>1. ASSUME NEW i \in DOMAIN st.configs PROVE IsSingbox(st.configs[i])
        <5>1. PICK item \in Range(b.items) :
                 item.marks = {"singbox"}
                 /\ st.configs[i] \in {item.config, Sanitized(item.config)}
          BY <3>7, <3>8
        <5>2. IsSingbox(item.config)
          BY <1>1, <1>4, <5>1
        <5>3. Sanitized(item.config) = item.config
          BY <5>2 DEF IsSingbox, Sanitized
        <5> QED
          BY <5>1, <5>2, <5>3
      <4> QED
        BY <3>5, <3>8, <4>1
    <3>9. CASE engine = "xray"
      <4>1. ASSUME NEW i \in DOMAIN st.configs PROVE IsXray(st.configs[i])
        <5>1. PICK item \in Range(b.items) :
                 item.marks = {"xray"}
                 /\ st.configs[i] \in {item.config, Sanitized(item.config)}
          BY <3>7, <3>9
        <5>2. IsXray(item.config)
          BY <1>1, <1>4, <5>1
        <5> QED
          BY <5>1, <5>2, SanitizedXray
      <4> QED
        BY <3>5, <3>9, <4>1
    <3> QED
      BY <3>2, <3>8, <3>9
  <2> QED
    BY <2>2, <2>3
<1> QED
  BY <1>3, <1>4

-----------------------------------------------------------------------------
(* The inductive invariant: a configuration is one preparation of what is   *)
(* stored, with the settings as they are.                                  *)

LinksPrepared ==
  /\ stored.kind = "links"
  /\ IF Desktop
     THEN config = Unproxied("singbox",
                             Build(LinkTags, settings.pick, settings, Windows), None)
     ELSE /\ LinkConfig(stored.nodes) # None
          /\ config = Unproxied("xray", LinkConfig(stored.nodes), None)

SingboxPrepared ==
  /\ stored.kind = "singbox"
  /\ \E i \in DOMAIN stored.configs :
        LET p == stored.configs[i] IN
        /\ MergeReady(p, settings, Windows) # None
        /\ config = Unproxied("singbox", MergeReady(p, settings, Windows), p)

XrayPrepared ==
  /\ stored.kind = "xray"
  /\ \E i \in DOMAIN stored.configs :
        LET p == stored.configs[i] IN
        IF Desktop
        THEN \E socks, http \in Ports :
                LET x == PrepareDesktop(p, settings, socks, http) IN
                /\ x # None
                /\ config = [engine |-> "xray", value |-> x.config, http |-> x.http,
                             socks |-> x.socks, unavailable |-> x.unavailable, from |-> p]
        ELSE /\ PrepareAndroid(p, settings) # None
             /\ config = Unproxied("xray", PrepareAndroid(p, settings), p)

IInv ==
  /\ edition \in Editions /\ body \in Bodies /\ settings \in Settings
  /\ stage \in {"stored", "ready"} => stored # None /\ stored = Classify(body, Desktop)
  /\ stage = "ready" => LinksPrepared \/ SingboxPrepared \/ XrayPrepared

\* Every step keeps it.
LEMMA IInvStep == IInv /\ [Next]_vars => IInv'
<1> SUFFICES ASSUME IInv, [Next]_vars PROVE IInv'
  OBVIOUS
<1> USE DEF IInv
<1>1. CASE Import
  <2>1. stage' \in {"refused", "stored"} /\ (stage' = "stored" => stored' # None)
        /\ stored' = Classify(body, Desktop) /\ edition' = edition /\ body' = body
        /\ settings' = settings
    BY <1>1 DEF Import
  <2>2. Desktop' = Desktop
    BY <2>1 DEF Desktop
  <2> QED
    BY <2>1, <2>2
<1>2. CASE PrepareLinks
  <2>1. stage = "stored" /\ stored.kind = "links" /\ edition' = edition /\ body' = body
        /\ stored' = stored /\ settings' = settings
    BY <1>2 DEF PrepareLinks, Ready
  <2>2. Desktop' = Desktop /\ Windows' = Windows /\ LinkTags' = LinkTags
    BY <2>1 DEF Desktop, Windows, LinkTags
  <2>3. stage' = "ready" => LinksPrepared'
    BY <1>2, <2>1, <2>2 DEF PrepareLinks, Ready, LinksPrepared, Prepared, Unproxied, None
  <2> QED
    BY <2>1, <2>2, <2>3
<1>3. CASE PrepareSingbox
  <2>1. stage = "stored" /\ stored.kind = "singbox" /\ edition' = edition /\ body' = body
        /\ stored' = stored /\ settings' = settings
    BY <1>3 DEF PrepareSingbox, Ready
  <2>2. Desktop' = Desktop /\ Windows' = Windows
    BY <2>1 DEF Desktop, Windows
  <2>3. stage' = "ready" => SingboxPrepared'
    BY <1>3, <2>1, <2>2 DEF PrepareSingbox, Ready, SingboxPrepared, Prepared, Unproxied, None
  <2> QED
    BY <2>1, <2>2, <2>3
<1>4. CASE PrepareXray
  <2>1. stage = "stored" /\ stored.kind = "xray" /\ edition' = edition /\ body' = body
        /\ stored' = stored /\ settings' = settings
    BY <1>4 DEF PrepareXray, Ready
  <2>2. Desktop' = Desktop /\ Windows' = Windows
    BY <2>1 DEF Desktop, Windows
  <2>3. ASSUME stage' = "ready" PROVE XrayPrepared'
    <3>1. PICK i \in DOMAIN stored.configs :
             LET p == stored.configs[i] IN
             IF Desktop
             THEN \E socks, http \in Ports :
                    LET x == PrepareDesktop(p, settings, socks, http) IN
                    Ready(IF x = None THEN None
                          ELSE [engine |-> "xray", value |-> x.config,
                                http |-> x.http, socks |-> x.socks,
                                unavailable |-> x.unavailable, from |-> p])
             ELSE Ready(Prepared("xray", PrepareAndroid(p, settings), p))
      BY <1>4 DEF PrepareXray
    <3>2. CASE Desktop
      <4>1. PICK socks, http \in Ports :
              LET x == PrepareDesktop(stored.configs[i], settings, socks, http) IN
              Ready(IF x = None THEN None
                    ELSE [engine |-> "xray", value |-> x.config,
                          http |-> x.http, socks |-> x.socks,
                          unavailable |-> x.unavailable, from |-> stored.configs[i]])
        BY <3>1, <3>2
      <4> DEFINE x == PrepareDesktop(stored.configs[i], settings, socks, http)
      <4>2. x # None /\ config' = [engine |-> "xray", value |-> x.config, http |-> x.http,
                                   socks |-> x.socks, unavailable |-> x.unavailable,
                                   from |-> stored.configs[i]]
        BY <2>3, <4>1 DEF Ready
      <4> QED
        BY <2>1, <2>2, <3>2, <4>2 DEF XrayPrepared
    <3>3. CASE ~ Desktop
      <4>1. Ready(Prepared("xray", PrepareAndroid(stored.configs[i], settings), stored.configs[i]))
        BY <3>1, <3>3
      <4>2. PrepareAndroid(stored.configs[i], settings) # None
            /\ config' = Unproxied("xray", PrepareAndroid(stored.configs[i], settings), stored.configs[i])
        BY <2>3, <4>1 DEF Ready, Prepared
      <4> QED
        BY <2>1, <2>2, <3>3, <4>2 DEF XrayPrepared
    <3> QED
      BY <3>2, <3>3
  <2> QED
    BY <2>1, <2>2, <2>3
<1>5. CASE UNCHANGED vars
  BY <1>5 DEF vars, LinkTags, LinksPrepared, SingboxPrepared, XrayPrepared, Desktop, Windows
<1> QED
  BY <1>1, <1>2, <1>3, <1>4, <1>5 DEF Next

\* In every reachable state a configuration that is ready is what the
\* commands make of the stored profile, one of its children and the settings.
THEOREM Invariance == Spec => []IInv
<1>1. Init => IInv
  BY DEF Init, IInv
<1> QED
  BY <1>1, IInvStep, PTL DEF Spec

-----------------------------------------------------------------------------
(* What a prepared configuration is.                                       *)

\* A sing-box configuration is built from links
SingboxBuilt ==
  /\ ~ Merged /\ stored.kind = "links" /\ IsList(stored.nodes) /\ config.http = 0
  /\ config.value = Build(LinkTags, settings.pick, settings, Windows)

\* or merged into a provider's own.
SingboxMerged ==
  /\ Merged /\ IsSingbox(config.from) /\ config.http = 0
  /\ MergeReady(config.from, settings, Windows) # None
  /\ config.value = MergeReady(config.from, settings, Windows)

\* The user's rules are a list.
LEMMA SettingsAre == IInv => IsList(settings.rules)
BY SettingsAssumption DEF IInv, SettingsAssumption

\* What is stored when a configuration is ready.
LEMMA StoredLists ==
  ASSUME IInv, stage = "ready"
  PROVE  /\ stored.kind = "links" => IsList(stored.nodes) /\ stored.nodes # <<>>
         /\ stored.kind = "singbox" => \A i \in DOMAIN stored.configs : IsSingbox(stored.configs[i])
         /\ stored.kind = "xray" => \A i \in DOMAIN stored.configs : IsXray(stored.configs[i])
<1>1. body \in Bodies /\ stored # None /\ stored = Classify(body, Desktop)
  BY DEF IInv
<1>2. Desktop \in BOOLEAN
  BY DEF Desktop
<1> QED
  BY <1>1, <1>2, StoredIs

\* A provider's configuration is one.
LEMMA NotNone ==
  /\ \A p : IsSingbox(p) => p # None
  /\ \A p : IsXray(p) => p # None
<1>1. DOMAIN None = {"none"}
  BY DEF None
<1>2. "rules" \notin DOMAIN None
  BY <1>1
<1> QED
  BY <1>2 DEF IsSingbox, IsXray

\* There is no other way to a sing-box configuration.
LEMMA ForSingbox == IInv /\ Running("singbox") => SingboxBuilt \/ SingboxMerged
<1> SUFFICES ASSUME IInv, Running("singbox") PROVE SingboxBuilt \/ SingboxMerged
  OBVIOUS
<1>1. stage = "ready" /\ config.engine = "singbox"
  BY DEF Running
<1>2. LinksPrepared \/ SingboxPrepared \/ XrayPrepared
  BY <1>1 DEF IInv
<1>3. CASE LinksPrepared
  <2>1. Desktop
    BY <1>1, <1>3 DEF LinksPrepared, Unproxied
  <2>2. config = Unproxied("singbox",
                   Build(LinkTags, settings.pick, settings, Windows), None)
    BY <2>1, <1>3 DEF LinksPrepared
  <2>3. stored.kind = "links"
    BY <1>3 DEF LinksPrepared
  <2>4. IsList(stored.nodes) /\ stored.nodes # <<>>
    BY <1>1, <2>3, StoredLists
  <2> QED
    BY <2>2, <2>3, <2>4 DEF SingboxBuilt, Unproxied, Merged
<1>4. CASE SingboxPrepared
  <2>1. PICK i \in DOMAIN stored.configs :
           /\ MergeReady(stored.configs[i], settings, Windows) # None
           /\ config = Unproxied("singbox", MergeReady(stored.configs[i], settings, Windows),
                                 stored.configs[i])
    BY <1>4 DEF SingboxPrepared
  <2>2. IsSingbox(stored.configs[i])
    BY <1>1, <1>4, StoredLists DEF SingboxPrepared
  <2>3. config.from = stored.configs[i] /\ config.http = 0
        /\ config.value = MergeReady(stored.configs[i], settings, Windows)
    BY <2>1 DEF Unproxied
  <2> QED
    BY <2>1, <2>2, <2>3, NotNone DEF SingboxMerged, Merged
<1>5. CASE XrayPrepared
  BY <1>1, <1>5 DEF XrayPrepared, Unproxied
<1> QED
  BY <1>2, <1>3, <1>4, <1>5

\* The parts of a merged configuration.
LEMMA MergedIs ==
  ASSUME SingboxMerged
  PROVE  /\ Merged /\ IsSingbox(config.from) /\ TagsUnique(config.from)
         /\ ProxyTarget(config.from) # NoTag /\ TargetsValid(settings, config.from)
         /\ config.value.outbounds = config.from.outbounds \o Standard(settings, config.from)
         /\ config.value.rules = LocalRules(settings, config.from) \o config.from.rules
         /\ config.value.final = Alias(settings.final, config.from)
         /\ config.value.resolver = Resolver(settings, config.from, Windows)
         /\ config.value.dns = IF ~ Windows \/ NoDnsPolicy(settings) THEN config.from.dns
                               ELSE MergeDns(settings, config.from)
<1> DEFINE os == config.from.outbounds \o Standard(settings, config.from)
           rs == LocalRules(settings, config.from) \o config.from.rules
           fs == Alias(settings.final, config.from)
           res == Resolver(settings, config.from, Windows)
           dns == IF ~ Windows \/ NoDnsPolicy(settings) THEN config.from.dns
                  ELSE MergeDns(settings, config.from)
<1>1. /\ Merged /\ IsSingbox(config.from)
      /\ config.value = MergeReady(config.from, settings, Windows)
      /\ MergeReady(config.from, settings, Windows) # None
  BY DEF SingboxMerged
<1>2. TagsUnique(config.from) /\ ProxyTarget(config.from) # NoTag /\ TargetsValid(settings, config.from)
  BY <1>1 DEF MergeReady
<1>3. MergeReady(config.from, settings, Windows) =
        [outbounds |-> os, rules |-> rs, final |-> fs, resolver |-> res, dns |-> dns]
  BY <1>2 DEF MergeReady, MergedRules
<1> HIDE DEF os, rs, fs, res, dns
<1>4. /\ config.value.outbounds = os /\ config.value.rules = rs /\ config.value.final = fs
      /\ config.value.resolver = res /\ config.value.dns = dns
  BY <1>1, <1>3
<1> QED
  BY <1>1, <1>2, <1>4 DEF os, rs, fs, res, dns

\* LocalRules are the route's, with the provider's names for outbounds.
LEMMA LocalIs ==
  ASSUME NEW s, NEW p, IsList(s.rules)
  PROVE  /\ IsList(LocalRules(s, p)) /\ Len(LocalRules(s, p)) = Len(BuildRoute(s))
         /\ DOMAIN LocalRules(s, p) = DOMAIN BuildRoute(s)
         /\ \A i \in DOMAIN BuildRoute(s) :
               LocalRules(s, p)[i] = [match |-> BuildRoute(s)[i].match,
                                      verb |-> BuildRoute(s)[i].verb,
                                      to |-> Alias(BuildRoute(s)[i].to, p)]
<1> DEFINE r == BuildRoute(s)
           l == LocalRules(s, p)
<1>1. Len(r) \in Nat /\ DOMAIN r = 1 .. Len(r)
  BY RouteIs
<1>2. l = [i \in 1 .. Len(r) |-> [match |-> r[i].match, verb |-> r[i].verb, to |-> Alias(r[i].to, p)]]
  BY <1>1 DEF LocalRules
<1> HIDE DEF r, l
<1>3. l = [i \in 1 .. Len(r) |-> l[i]]
  BY <1>2
<1>4. IsList(l) /\ Len(l) = Len(r) /\ DOMAIN l = 1 .. Len(r)
  BY <1>1, <1>3, IsAList
<1> QED
  BY <1>1, <1>2, <1>4 DEF r, l

\* What was put before the provider's list can be told from it.
LEMMA OursIs ==
  ASSUME NEW a, NEW b, IsList(a), IsList(b)
  PROVE  Ours(a \o b, b) = a
<1> DEFINE c == a \o b
           d == SubSeq(c, 1, Len(a))
<1>1. Joined(c, a, b)
  BY ConcatIs
<1> HIDE DEF c
<1>2. Len(a) \in Nat /\ Len(b) \in Nat /\ Len(c) - Len(b) = Len(a)
      /\ \A i \in 1 .. Len(a) : c[i] = a[i]
  BY <1>1 DEF Joined
<1>3. a \in Seq(Range(a)) /\ DOMAIN a = 1 .. Len(a)
  BY ListIs DEF IsList
<1>4. \A i \in 1 .. Len(a) : c[i] \in Range(a)
  BY <1>2, <1>3 DEF Range
<1>5. /\ d \in Seq(Range(a))
      /\ Len(d) = IF 1 <= Len(a) THEN Len(a) - 1 + 1 ELSE 0
      /\ \A i \in 1 .. Len(a) - 1 + 1 : d[i] = c[1 + i - 1]
  BY <1>2, <1>4, SubSeqProperties
<1> HIDE DEF d
<1>6. Len(d) = Len(a)
  BY <1>2, <1>5
<1>7. \A i \in 1 .. Len(d) : d[i] = a[i]
  BY <1>2, <1>5, <1>6
<1>8. d = a
  BY <1>3, <1>5, <1>6, <1>7, SeqEqual
<1> QED
  BY <1>2, <1>8 DEF Ours, c, d

-----------------------------------------------------------------------------
(* The user decides.                                                       *)

\* An ordinary connection passes the rules before the picked applications.
LEMMA OpeningMisses ==
  ASSUME NEW c, Ordinary(c), NEW r \in {Hijack, LanBypass, SniffRule}
  PROVE  ~ (Matches(r.match, c) /\ r.verb \notin PassingVerbs)
<1>1. CASE r = Hijack
  <2>1. c.port # 53
    BY DEF Ordinary
  <2>2. r.match = [port |-> {53}]
    BY <1>1 DEF Hijack
  <2>3. DOMAIN r.match = {"port"} /\ r.match["port"] = {53}
    BY <2>2
  <2>4. ~ Holds("port", {53}, c)
    BY <2>1 DEF Holds
  <2> QED
    BY <2>3, <2>4 DEF Matches
<1>2. CASE r = LanBypass
  <2>1. c.ip # "lan"
    BY DEF Ordinary
  <2>2. r.match = [lan |-> {"lan"}]
    BY <1>2 DEF LanBypass
  <2>3. DOMAIN r.match = {"lan"} /\ r.match["lan"] = {"lan"}
    BY <2>2
  <2>4. ~ Holds("lan", {"lan"}, c)
    BY <2>1 DEF Holds
  <2> QED
    BY <2>3, <2>4 DEF Matches
<1>3. CASE r = SniffRule
  BY <1>3 DEF SniffRule, PassingVerbs
<1> QED
  BY <1>1, <1>2, <1>3

\* The rule for picked applications hits their connections and no others.
LEMMA AppMatches ==
  ASSUME NEW c, NEW A, NEW to
  PROVE  /\ Matches(AppList(A, to).match, c) <=> c.app \in A
         /\ AppList(A, to).verb = "route" /\ AppList(A, to).to = to
         /\ "route" \notin PassingVerbs
<1>1. AppList(A, to).match = [app |-> A]
  BY DEF AppList
<1>2. DOMAIN [app |-> A] = {"app"} /\ [app |-> A]["app"] = A
  OBVIOUS
<1>3. Holds("app", A, c) <=> c.app \in A
  BY DEF Holds
<1> QED
  BY <1>1, <1>2, <1>3 DEF Matches, AppList, PassingVerbs

\* Rules with the matches and the verbs of the program's route.
Shaped(l, s) ==
  /\ IsList(l) /\ DOMAIN l = DOMAIN BuildRoute(s)
  /\ \A i \in DOMAIN l : l[i].match = BuildRoute(s)[i].match /\ l[i].verb = BuildRoute(s)[i].verb

\* A rule with no hit before it decides.
LEMMA FirstHit ==
  ASSUME NEW l, IsList(l), NEW c, NEW k \in DOMAIN l,
         Matches(l[k].match, c), l[k].verb \notin PassingVerbs,
         \A j \in 1 .. k - 1 : ~ (Matches(l[j].match, c) /\ l[j].verb \notin PassingVerbs),
         NEW o
  PROVE  Hits(l, c) # {} /\ Decision(l, o, c) = Says(l[k])
<1>0. Len(l) \in Nat /\ DOMAIN l = 1 .. Len(l)
  BY ListIs
<1>1. Hits(l, c) \in SUBSET (DOMAIN l) /\ k \in Hits(l, c)
  BY DEF Hits
<1>2. ASSUME NEW j \in Hits(l, c) PROVE k <= j
  <2>1. j \in DOMAIN l /\ Matches(l[j].match, c) /\ l[j].verb \notin PassingVerbs
    BY DEF Hits
  <2>2. j \notin 1 .. k - 1
    BY <2>1
  <2> QED
    BY <1>0, <2>1, <2>2
<1> QED
  BY <1>1, <1>2, FirstIs DEF Decision

\* The rules for picked applications decide for them, direct before VPN.
LEMMA PickedApps ==
  ASSUME NEW s, IsList(s.rules), NEW l, Shaped(l, s), NEW c, Ordinary(c), NEW o
  PROVE  /\ c.app \in Names(s.direct) =>
              \E k \in DOMAIN l : /\ BuildRoute(s)[k] = AppList(Names(s.direct), "direct")
                                  /\ Hits(l, c) # {} /\ Decision(l, o, c) = Says(l[k])
         /\ c.app \in Names(s.vpn) \ Names(s.direct) =>
              \E k \in DOMAIN l : /\ BuildRoute(s)[k] = AppList(Names(s.vpn), "proxy")
                                  /\ Hits(l, c) # {} /\ Decision(l, o, c) = Says(l[k])
<1> DEFINE r == BuildRoute(s)
           n == Len(Opening(s))
           d == Len(AppRule(s.direct, "direct"))
<1>1. /\ IsList(r) /\ Len(r) \in Nat /\ DOMAIN r = 1 .. Len(r)
      /\ n \in {2, 3} /\ d \in {0, 1}
      /\ \A i \in 1 .. n : r[i] \in {Hijack, LanBypass, SniffRule}
      /\ \A i \in n + 1 .. n + d : i \in DOMAIN r /\ r[i] = AppList(Names(s.direct), "direct")
      /\ Names(s.direct) # {} => d = 1
      /\ Names(s.vpn) # {} => /\ n + d + 1 \in DOMAIN r
                              /\ r[n + d + 1] = AppList(Names(s.vpn), "proxy")
  BY RouteIs
<1> HIDE DEF r, n, d
<1>2. /\ IsList(l) /\ DOMAIN l = DOMAIN r
      /\ \A i \in DOMAIN l : l[i].match = r[i].match /\ l[i].verb = r[i].verb
  BY DEF Shaped, r
<1>3. ASSUME NEW j \in 1 .. n, j \in DOMAIN l
      PROVE  ~ (Matches(l[j].match, c) /\ l[j].verb \notin PassingVerbs)
  BY <1>1, <1>2, <1>3, OpeningMisses
<1>4. ASSUME c.app \in Names(s.direct)
      PROVE  \E k \in DOMAIN l : /\ r[k] = AppList(Names(s.direct), "direct")
                                 /\ Hits(l, c) # {} /\ Decision(l, o, c) = Says(l[k])
  <2>1. n + 1 \in n + 1 .. n + d
    BY <1>1, <1>4
  <2>2. n + 1 \in DOMAIN l /\ r[n + 1] = AppList(Names(s.direct), "direct")
    BY <2>1, <1>1, <1>2
  <2>3. Matches(l[n + 1].match, c) /\ l[n + 1].verb \notin PassingVerbs
    BY <2>2, <1>2, <1>4, AppMatches
  <2>4. ASSUME NEW j \in 1 .. (n + 1) - 1
        PROVE  ~ (Matches(l[j].match, c) /\ l[j].verb \notin PassingVerbs)
    <3>1. j \in 1 .. n /\ j \in DOMAIN l
      BY <1>1, <1>2, <2>2
    <3> QED
      BY <3>1, <1>3
  <2>5. Hits(l, c) # {} /\ Decision(l, o, c) = Says(l[n + 1])
    BY <1>2, <2>2, <2>3, <2>4, FirstHit
  <2> QED
    BY <2>2, <2>5
<1>5. ASSUME c.app \in Names(s.vpn) \ Names(s.direct)
      PROVE  \E k \in DOMAIN l : /\ r[k] = AppList(Names(s.vpn), "proxy")
                                 /\ Hits(l, c) # {} /\ Decision(l, o, c) = Says(l[k])
  <2> DEFINE k == n + d + 1
  <2>1. k \in DOMAIN l /\ r[k] = AppList(Names(s.vpn), "proxy")
    BY <1>1, <1>2, <1>5
  <2>2. Matches(l[k].match, c) /\ l[k].verb \notin PassingVerbs
    BY <2>1, <1>2, <1>5, AppMatches
  <2>3. ASSUME NEW j \in 1 .. k - 1
        PROVE  ~ (Matches(l[j].match, c) /\ l[j].verb \notin PassingVerbs)
    <3>1. j \in DOMAIN l /\ j \in Nat
      BY <1>1, <1>2, <2>1
    <3>2. CASE j \in 1 .. n
      BY <3>1, <3>2, <1>3
    <3>3. CASE j \notin 1 .. n
      <4>1. j \in n + 1 .. n + d
        BY <3>1, <3>3, <1>1
      <4>2. r[j] = AppList(Names(s.direct), "direct")
        BY <4>1, <1>1
      <4> QED
        BY <3>1, <4>2, <1>2, <1>5, AppMatches
    <3> QED
      BY <3>2, <3>3
  <2>4. Hits(l, c) # {} /\ Decision(l, o, c) = Says(l[k])
    <3> HIDE DEF k
    <3> QED
      BY <1>2, <2>1, <2>2, <2>3, FirstHit
  <2> QED
    BY <2>1, <2>4
<1> QED
  BY <1>4, <1>5 DEF r

\* A list of three.
LEMMA ThreeIs ==
  ASSUME NEW x, NEW y, NEW z
  PROVE  /\ IsList(<<x, y, z>>) /\ DOMAIN <<x, y, z>> = 1 .. 3
         /\ \A i \in 1 .. 3 : <<x, y, z>>[i] \in {x, y, z}
<1>1. <<x, y, z>> \in Seq({x, y, z}) /\ Len(<<x, y, z>>) = 3
  OBVIOUS
<1>2. Range(<<x, y, z>>) = {x, y, z}
  BY DEF Range
<1>3. \A i \in 1 .. 3 : i = 1 \/ i = 2 \/ i = 3
  OBVIOUS
<1> QED
  BY <1>1, <1>2, <1>3 DEF IsList

\* The nodes that are left for Config::build are a list.
LEMMA LinkTagsAre == IsList(stored.nodes) => IsList(LinkTags)
<1> SUFFICES ASSUME IsList(stored.nodes) PROVE IsList(LinkTags)
  OBVIOUS
<1>1. ASSUME NEW nodes, IsList(nodes), NEW S \in SUBSET (DOMAIN nodes)
      PROVE  IsList(At(nodes, S))
  BY <1>1, AtIs
<1> DEFINE d == Distinct(stored.nodes)
           u == Supported(d)
           t == NodeTags(u)
<1>2. IsList(d)
  BY <1>1 DEF Distinct
<1> HIDE DEF d
<1>3. IsList(u)
  BY <1>1, <1>2 DEF Supported
<1> HIDE DEF u
<1>4. Len(u) \in Nat /\ DOMAIN u = 1 .. Len(u)
  BY <1>3, ListIs
<1>5. t = [i \in 1 .. Len(u) |-> t[i]]
  BY <1>4 DEF NodeTags
<1> HIDE DEF t
<1>6. IsList(t)
  BY <1>4, <1>5, IsAList
<1> QED
  BY <1>6 DEF LinkTags, t, u, d

\* The outbounds of Config::build and their members.
LEMMA BuiltOutbounds ==
  ASSUME NEW tags, IsList(tags), NEW pick
  PROVE  LET outs == Groups(tags, pick) \o [i \in DOMAIN tags |-> Node(tags[i])] IN
         /\ TagsOf(outs) = {"proxy", "direct", "block"} \cup Range(tags)
                              \cup (IF tags = <<>> THEN {} ELSE {"auto"})
         /\ \A o \in Range(outs) :
               Range(o.members) \cup {o.default} \subseteq {NoTag, "direct", "auto"} \cup Range(tags)
<1> DEFINE a == [tag |-> "auto", members |-> tags, default |-> NoTag]
           two == IF tags = <<>> THEN <<"direct">> ELSE <<"auto">> \o tags
           b == [tag |-> "proxy", members |-> two, default |-> DefaultTag(tags, pick)]
           bcd == <<b, Node("direct"), Node("block")>>
           one == IF tags = <<>> THEN <<>> ELSE <<a>>
           g == one \o bcd
           each == [i \in DOMAIN tags |-> Node(tags[i])]
<1>1. Groups(tags, pick) = g
  BY DEF Groups
<1>2. Range(two) \subseteq {"direct", "auto"} \cup Range(tags)
  <2> DEFINE auto == <<"auto">>
  <2>1. IsList(auto) /\ Range(auto) = {"auto"} /\ Range(<<"direct">>) = {"direct"}
    BY OneIs
  <2> HIDE DEF auto
  <2>2. Range(auto \o tags) = Range(auto) \cup Range(tags)
    BY <2>1, ConcatRange
  <2> QED
    BY <2>1, <2>2 DEF auto
<1> HIDE DEF two
<1>3. /\ a.tag = "auto" /\ a.members = tags /\ a.default = NoTag
      /\ b.tag = "proxy" /\ b.members = two /\ b.default \in {"auto"} \cup Range(tags)
  BY DEF DefaultTag
<1> HIDE DEF a, b
<1>4. IsList(one) /\ Range(one) = IF tags = <<>> THEN {} ELSE {a}
  <2>1. Range(<<>>) = {}
    BY DEF Range
  <2> QED
    BY <2>1, NoneIs, OneIs
<1>5. IsList(bcd) /\ Range(bcd) = {b, Node("direct"), Node("block")}
  <2>1. IsList(bcd)
    BY ThreeIs
  <2>2. Range(bcd) = {b, Node("direct"), Node("block")}
    BY DEF Range
  <2> QED
    BY <2>1, <2>2
<1>6. IsList(each) /\ Range(each) = {Node(t) : t \in Range(tags)}
  <2>1. Len(tags) \in Nat /\ DOMAIN tags = 1 .. Len(tags)
    BY ListIs
  <2>2. each = [i \in 1 .. Len(tags) |-> each[i]] /\ \A i \in 1 .. Len(tags) : each[i] = Node(tags[i])
    BY <2>1
  <2> HIDE DEF each
  <2>3. IsList(each) /\ DOMAIN each = 1 .. Len(tags)
    BY <2>1, <2>2, IsAList
  <2> QED
    BY <2>1, <2>2, <2>3 DEF Range
<1> HIDE DEF one, bcd, each
<1>7. IsList(g) /\ Range(g) = Range(one) \cup {b, Node("direct"), Node("block")}
  <2>1. Joined(one \o bcd, one, bcd)
    BY <1>4, <1>5, ConcatIs
  <2>2. Range(one \o bcd) = Range(one) \cup Range(bcd)
    BY <1>4, <1>5, ConcatRange
  <2> QED
    BY <2>1, <2>2, <1>4, <1>5 DEF Joined
<1> HIDE DEF g
<1>8. Range(g \o each) = Range(g) \cup Range(each)
  BY <1>6, <1>7, ConcatRange
<1>9. \A t : Node(t).tag = t /\ Range(Node(t).members) = {} /\ Node(t).default = NoTag
  <2>1. \A t : Node(t).tag = t /\ Node(t).members = <<>> /\ Node(t).default = NoTag
    BY DEF Node
  <2>2. Range(<<>>) = {}
    BY DEF Range
  <2> QED
    BY <2>1, <2>2
<1> DEFINE outs == g \o each
<1>10. Range(outs) = Range(one) \cup {b, Node("direct"), Node("block")} \cup {Node(t) : t \in Range(tags)}
  BY <1>6, <1>7, <1>8
<1> HIDE DEF outs
<1>11. TagsOf(outs) = {"proxy", "direct", "block"} \cup Range(tags)
                        \cup (IF tags = <<>> THEN {} ELSE {"auto"})
  BY <1>3, <1>4, <1>9, <1>10 DEF TagsOf
<1>12. \A o \in Range(outs) :
          Range(o.members) \cup {o.default} \subseteq {NoTag, "direct", "auto"} \cup Range(tags)
  <2> DEFINE M == {NoTag, "direct", "auto"} \cup Range(tags)
  <2>1. Range(a.members) \cup {a.default} \subseteq M
    BY <1>3
  <2>2. Range(b.members) \cup {b.default} \subseteq M
    BY <1>2, <1>3
  <2>3. \A t : Range(Node(t).members) \cup {Node(t).default} \subseteq M
    BY <1>9
  <2>4. \A o \in Range(outs) : o \in {a, b} \/ \E t : o = Node(t)
    BY <1>4, <1>10
  <2> HIDE DEF M
  <2>5. \A o \in Range(outs) : Range(o.members) \cup {o.default} \subseteq M
    BY <2>1, <2>2, <2>3, <2>4
  <2> QED
    BY <2>5 DEF M
<1> QED
  BY <1>1, <1>11, <1>12 DEF outs, each

\* ensure_standard_outbounds adds the helpers that local rules name.
LEMMA StandardIs ==
  ASSUME NEW s, NEW p
  PROVE  /\ IsList(Standard(s, p))
         /\ Range(Standard(s, p)) =
               {Node(tag) : tag \in (LocalTargets(s, p) \cap {"direct", "block"}) \ TagsOf(p.outbounds)}
<1> DEFINE missing == (LocalTargets(s, p) \cap {"direct", "block"}) \ TagsOf(p.outbounds)
           d == IF "direct" \in missing THEN <<Node("direct")>> ELSE <<>>
           b == IF "block" \in missing THEN <<Node("block")>> ELSE <<>>
<1>1. ASSUME NEW tag
      PROVE  LET l == IF tag \in missing THEN <<Node(tag)>> ELSE <<>> IN
             IsList(l) /\ Range(l) = {Node(t) : t \in missing \cap {tag}}
  <2> HIDE DEF missing
  <2>1. CASE tag \in missing
    BY <2>1, OneIs
  <2>2. CASE tag \notin missing
    <3>1. Range(<<>>) = {}
      BY DEF Range
    <3> QED
      BY <2>2, <3>1, NoneIs
  <2> QED
    BY <2>1, <2>2
<1>2. IsList(d) /\ Range(d) = {Node(t) : t \in missing \cap {"direct"}}
  BY <1>1
<1>3. IsList(b) /\ Range(b) = {Node(t) : t \in missing \cap {"block"}}
  BY <1>1
<1>4. Standard(s, p) = d \o b
  BY DEF Standard
<1>5. missing \subseteq {"direct", "block"}
  OBVIOUS
<1> HIDE DEF d, b, missing
<1>6. IsList(d \o b) /\ Range(d \o b) = Range(d) \cup Range(b)
  <2>1. Joined(d \o b, d, b)
    BY <1>2, <1>3, ConcatIs
  <2> QED
    BY <2>1, <1>2, <1>3, ConcatRange DEF Joined
<1>7. Range(d) \cup Range(b) = {Node(t) : t \in missing}
  BY <1>2, <1>3, <1>5
<1> QED
  BY <1>4, <1>6, <1>7 DEF missing

\* The tags with them.
LEMMA MergedTags ==
  ASSUME NEW s, NEW p, IsList(p.outbounds)
  PROVE  TagsOf(p.outbounds \o Standard(s, p)) =
            TagsOf(p.outbounds) \cup (LocalTargets(s, p) \cap {"direct", "block"})
<1>1. Range(p.outbounds \o Standard(s, p)) = Range(p.outbounds) \cup Range(Standard(s, p))
  BY StandardIs, ConcatRange
<1>2. \A tag : Node(tag).tag = tag
  BY DEF Node
<1>3. {o.tag : o \in Range(Standard(s, p))} =
         (LocalTargets(s, p) \cap {"direct", "block"}) \ TagsOf(p.outbounds)
  BY <1>2, StandardIs
<1> QED
  BY <1>1, <1>3 DEF TagsOf

\* The provider's target is an outbound of the provider.
LEMMA TargetIs ==
  ASSUME NEW p, ProxyTarget(p) # NoTag
  PROVE  ProxyTarget(p) \in TagsOf(p.outbounds)
BY DEF ProxyTarget

\* What the program's own names stand for in a provider's configuration.
LEMMA AliasIs ==
  ASSUME NEW p, ProxyTarget(p) # NoTag
  PROVE  Alias("direct", p) = "direct" /\ Alias("block", p) = "block"
         /\ Alias("proxy", p) = ProxyTarget(p)
<1>1. "proxy" \in TagsOf(p.outbounds) => ProxyTarget(p) = "proxy"
  BY DEF ProxyTarget
<1> QED
  BY <1>1 DEF Alias

\* Without a hit among the program's own rules the decision is left to the
\* provider, if it has rules.
LEMMA OwnDecision ==
  ASSUME NEW a, NEW b, IsList(a), IsList(b), NEW c, NEW o,
         Decision(a, IF b # <<>> THEN Theirs ELSE o, c) # Theirs
  PROVE  Decision(a \o b, o, c) = Decision(a, IF b # <<>> THEN Theirs ELSE o, c)
<1>1. CASE Hits(a, c) # {}
  BY <1>1, ConcatDecides
<1>2. CASE Hits(a, c) = {}
  <2>1. Decision(a, IF b # <<>> THEN Theirs ELSE o, c) = IF b # <<>> THEN Theirs ELSE o
    BY <1>2 DEF Decision, FirstSays
  <2>2. b = <<>>
    BY <2>1
  <2>3. a \o b = a
    BY <2>2, ConcatEmptySeq DEF IsList
  <2> QED
    BY <2>2, <2>3
<1> QED
  BY <1>1, <1>2

\* The invariant implies the property.
LEMMA Decides == IInv => UserDecides
<1> SUFFICES ASSUME IInv, Running("singbox"), NEW c \in Traffic, Ordinary(c)
             PROVE  LET decision == Decision(config.value.rules, Routed(config.value.final), c) IN
                    /\ OurDecision(c) # Theirs => decision = OurDecision(c)
                    /\ c.app \in Names(settings.direct) => decision = Routed("direct")
                    /\ c.app \in Names(settings.vpn) \ Names(settings.direct) =>
                         /\ decision = Routed(IF Merged THEN ProxyTarget(config.from) ELSE "proxy")
                         /\ EndsOutside \/ IntoTunnel(decision)
  BY DEF UserDecides
<1> DEFINE s == settings
           final == Routed(config.value.final)
<1>1. IsList(s.rules)
  BY SettingsAre
<1>4. ASSUME NEW tag, tag \in TagsOf(config.value.outbounds), tag \notin {"direct", "block"}
      PROVE  IntoTunnel(Routed(tag))
  <2>1. Routed(tag).verb = "route" /\ Routed(tag).to = tag
    BY DEF Routed
  <2> QED
    BY <1>4, <2>1 DEF IntoTunnel, Tunnels
<1>2. CASE SingboxBuilt
  <2> DEFINE r == BuildRoute(s)
  <2>1. config.value.rules = r /\ ~ Merged
    BY <1>2 DEF SingboxBuilt, Build
  <2>2. Shaped(r, s)
    BY <1>1, RouteIs DEF Shaped
  <2>3. OurDecision(c) = Decision(config.value.rules, final, c)
    BY <2>1 DEF OurDecision, OurRules
  <2>4. ASSUME c.app \in Names(s.direct) PROVE Decision(r, final, c) = Routed("direct")
    <3>1. PICK k \in DOMAIN r : r[k] = AppList(Names(s.direct), "direct")
                                /\ Decision(r, final, c) = Says(r[k])
      BY <1>1, <2>2, <2>4, PickedApps
    <3> QED
      BY <3>1 DEF Says, Routed, AppList
  <2>5. ASSUME c.app \in Names(s.vpn) \ Names(s.direct) PROVE Decision(r, final, c) = Routed("proxy")
    <3>1. PICK k \in DOMAIN r : r[k] = AppList(Names(s.vpn), "proxy")
                                /\ Decision(r, final, c) = Says(r[k])
      BY <1>1, <2>2, <2>5, PickedApps
    <3> QED
      BY <3>1 DEF Says, Routed, AppList
  <2>6. IntoTunnel(Routed("proxy"))
    <3>1. IsList(LinkTags)
      BY <1>2, LinkTagsAre DEF SingboxBuilt
    <3>2. config.value.outbounds =
             Groups(LinkTags, s.pick) \o [i \in DOMAIN LinkTags |-> Node(LinkTags[i])]
      BY <1>2 DEF SingboxBuilt, Build
    <3>3. "proxy" \in TagsOf(config.value.outbounds)
      BY <3>1, <3>2, BuiltOutbounds
    <3> QED
      BY <3>3, <1>4
  <2> QED
    BY <2>1, <2>3, <2>4, <2>5, <2>6
<1>3. CASE SingboxMerged
  <2> DEFINE p == config.from
             l == LocalRules(s, p)
             o == IF p.rules # <<>> THEN Theirs ELSE final
             decision == Decision(config.value.rules, final, c)
  <2>1. /\ config.value.rules = l \o p.rules /\ Merged /\ ProxyTarget(p) # NoTag
        /\ IsList(p.rules)
    <3>1. IsSingbox(p)
      BY <1>3, MergedIs
    <3> QED
      BY <1>3, <3>1, MergedIs DEF IsSingbox
  <2>2. /\ IsList(l) /\ DOMAIN l = DOMAIN BuildRoute(s)
        /\ \A i \in DOMAIN l : l[i] = [match |-> BuildRoute(s)[i].match,
                                       verb |-> BuildRoute(s)[i].verb,
                                       to |-> Alias(BuildRoute(s)[i].to, p)]
    BY <1>1, LocalIs
  <2> HIDE DEF l
  <2>3. Shaped(l, s)
    <3>1. ASSUME NEW i \in DOMAIN l
          PROVE  l[i].match = BuildRoute(s)[i].match /\ l[i].verb = BuildRoute(s)[i].verb
      BY <2>2
    <3> QED
      BY <2>2, <3>1 DEF Shaped
  <2>4. OurDecision(c) = Decision(l, o, c)
    <3>1. OurRules = l
      BY <2>1, <2>2, OursIs DEF OurRules
    <3> QED
      BY <2>1, <3>1 DEF OurDecision
  <2>5. OurDecision(c) # Theirs => decision = OurDecision(c)
    BY <2>1, <2>2, <2>4, OwnDecision
  <2>6. ASSUME NEW k \in DOMAIN l, NEW A, NEW to, BuildRoute(s)[k] = AppList(A, to),
               Hits(l, c) # {}, Decision(l, o, c) = Says(l[k])
        PROVE  decision = Routed(Alias(to, p))
    <3>1. decision = Decision(l, o, c)
      BY <2>1, <2>2, <2>6, ConcatDecides
    <3>2. l[k] = [match |-> [app |-> A], verb |-> "route", to |-> Alias(to, p)]
      BY <2>2, <2>6 DEF AppList
    <3> QED
      BY <2>6, <3>1, <3>2 DEF Says, Routed
  <2>7. c.app \in Names(s.direct) => decision = Routed("direct")
    <3>1. ASSUME c.app \in Names(s.direct) PROVE decision = Routed(Alias("direct", p))
      <4>1. PICK k \in DOMAIN l : /\ BuildRoute(s)[k] = AppList(Names(s.direct), "direct")
                                  /\ Hits(l, c) # {} /\ Decision(l, o, c) = Says(l[k])
        BY <1>1, <2>3, <3>1, PickedApps
      <4> QED
        BY <4>1, <2>6
    <3> QED
      BY <3>1, <2>1, AliasIs
  <2>8. c.app \in Names(s.vpn) \ Names(s.direct) => decision = Routed(ProxyTarget(p))
    <3>1. ASSUME c.app \in Names(s.vpn) \ Names(s.direct) PROVE decision = Routed(Alias("proxy", p))
      <4>1. PICK k \in DOMAIN l : /\ BuildRoute(s)[k] = AppList(Names(s.vpn), "proxy")
                                  /\ Hits(l, c) # {} /\ Decision(l, o, c) = Says(l[k])
        BY <1>1, <2>3, <3>1, PickedApps
      <4> QED
        BY <4>1, <2>6
    <3> QED
      BY <3>1, <2>1, AliasIs
  <2>9. EndsOutside \/ IntoTunnel(Routed(ProxyTarget(p)))
    <3>1. config.value.outbounds = p.outbounds \o Standard(s, p) /\ IsList(p.outbounds)
      BY <1>3, MergedIs DEF IsSingbox
    <3>2. ProxyTarget(p) \in TagsOf(config.value.outbounds)
      BY <2>1, <3>1, TargetIs, MergedTags
    <3> QED
      BY <2>1, <3>2, <1>4 DEF EndsOutside
  <2> QED
    BY <2>1, <2>5, <2>7, <2>8, <2>9
<1> QED
  BY <1>2, <1>3, ForSingbox

\* A picked application goes where the user said: direct, or to what stands
\* for the tunnel, which is an outbound other than "direct" and "block" unless
\* the provider ends with one of these.  The provider's rules never overrule
\* the program's (build_route, merge_route_documents, resolve_proxy_target).
THEOREM UserDecidesAlways == Spec => []UserDecides
BY Invariance, Decides, PTL

-----------------------------------------------------------------------------
(* DNS follows the route.                                                  *)

\* What a list of DNS rules leaves open the next list decides.
LEMMA DnsConcat ==
  ASSUME NEW a, NEW b, IsList(a), IsList(b), NEW q, NEW o
  PROVE  IsList(a \o b) /\ DnsDecision(a \o b, o, q) = DnsDecision(a, DnsDecision(b, o, q), q)
<1> DEFINE ab == a \o b
<1>1. Joined(ab, a, b)
  BY ConcatIs
<1> HIDE DEF ab
<1>2. /\ IsList(ab) /\ Len(a) \in Nat /\ Len(b) \in Nat /\ DOMAIN a = 1 .. Len(a)
      /\ DOMAIN b = 1 .. Len(b) /\ DOMAIN ab = 1 .. Len(a) + Len(b)
      /\ \A i \in 1 .. Len(a) : ab[i] = a[i]
      /\ \A i \in 1 .. Len(b) : ab[Len(a) + i] = b[i]
  BY <1>1, ListIs DEF Joined
<1>3. /\ DnsHits(a, q) \in SUBSET (DOMAIN a) /\ DnsHits(b, q) \in SUBSET (DOMAIN b)
      /\ DnsHits(ab, q) \in SUBSET (DOMAIN ab)
  BY DEF DnsHits
<1>4. ASSUME NEW i \in 1 .. Len(a) PROVE i \in DnsHits(ab, q) <=> i \in DnsHits(a, q)
  <2>1. i \in DOMAIN a /\ i \in DOMAIN ab /\ ab[i] = a[i]
    BY <1>2
  <2> QED
    BY <2>1 DEF DnsHits
<1>5. ASSUME NEW i \in 1 .. Len(b) PROVE Len(a) + i \in DnsHits(ab, q) <=> i \in DnsHits(b, q)
  <2>1. i \in DOMAIN b /\ Len(a) + i \in DOMAIN ab /\ ab[Len(a) + i] = b[i]
    BY <1>2
  <2> QED
    BY <2>1 DEF DnsHits
<1>6. CASE DnsHits(a, q) # {}
  <2>1. PICK k \in DnsHits(a, q) : /\ \A j \in DnsHits(a, q) : k <= j
                                   /\ FirstSays(a, DnsHits(a, q), DnsDecision(b, o, q)) = Says(a[k])
    BY <1>2, <1>3, <1>6, FirstExists
  <2>2. k \in 1 .. Len(a) /\ ab[k] = a[k] /\ k \in DnsHits(ab, q)
    BY <1>2, <1>3, <1>4
  <2>3. ASSUME NEW j \in DnsHits(ab, q) PROVE k <= j
    <3>1. j \in 1 .. Len(a) + Len(b)
      BY <1>2, <1>3
    <3>2. CASE j <= Len(a)
      <4>1. j \in 1 .. Len(a)
        BY <3>1, <3>2, <1>2
      <4> QED
        BY <4>1, <1>4, <2>1
    <3>3. CASE ~ (j <= Len(a))
      BY <3>1, <3>3, <2>2, <1>2
    <3> QED
      BY <3>2, <3>3
  <2>4. FirstSays(ab, DnsHits(ab, q), o) = Says(ab[k])
    BY <1>2, <1>3, <2>2, <2>3, FirstIs
  <2> QED
    BY <1>2, <2>1, <2>2, <2>4 DEF DnsDecision, ab
<1>7. CASE DnsHits(a, q) = {}
  <2>1. DnsDecision(a, DnsDecision(b, o, q), q) = DnsDecision(b, o, q)
    BY <1>7 DEF DnsDecision, FirstSays
  <2>2. ASSUME NEW j \in DnsHits(ab, q) PROVE j - Len(a) \in DnsHits(b, q) /\ j \in Int
    <3>1. j \in 1 .. Len(a) + Len(b)
      BY <1>2, <1>3
    <3>2. j \notin 1 .. Len(a)
      BY <1>4, <1>7
    <3>3. j - Len(a) \in 1 .. Len(b) /\ Len(a) + (j - Len(a)) = j
      BY <3>1, <3>2, <1>2
    <3> QED
      BY <3>3, <1>5
  <2>3. CASE DnsHits(b, q) = {}
    <3>1. DnsHits(ab, q) = {}
      BY <2>2, <2>3
    <3> QED
      BY <1>2, <2>1, <2>3, <3>1 DEF DnsDecision, FirstSays, ab
  <2>4. CASE DnsHits(b, q) # {}
    <3>1. PICK k \in DnsHits(b, q) : /\ \A j \in DnsHits(b, q) : k <= j
                                     /\ FirstSays(b, DnsHits(b, q), o) = Says(b[k])
      <4> DEFINE h == DnsHits(b, q)
      <4>1. h \in SUBSET (DOMAIN b) /\ h # {}
        BY <1>3, <2>4
      <4> HIDE DEF h
      <4>2. \E k \in h : (\A j \in h : k <= j) /\ FirstSays(b, h, o) = Says(b[k])
        BY <4>1, FirstExists
      <4> QED
        BY <4>2 DEF h
    <3>2. k \in 1 .. Len(b) /\ Len(a) + k \in DnsHits(ab, q) /\ ab[Len(a) + k] = b[k]
      BY <1>2, <1>3, <1>5
    <3>3. ASSUME NEW j \in DnsHits(ab, q) PROVE Len(a) + k <= j
      <4>1. k <= j - Len(a) /\ j \in Int
        BY <2>2, <3>1
      <4> QED
        BY <4>1, <3>2, <1>2
    <3>4. FirstSays(ab, DnsHits(ab, q), o) = Says(ab[Len(a) + k])
      <4> DEFINE m == Len(a) + k
      <4>1. m \in DnsHits(ab, q) /\ \A j \in DnsHits(ab, q) : m <= j
        BY <3>2, <3>3
      <4> HIDE DEF m
      <4>2. FirstSays(ab, DnsHits(ab, q), o) = Says(ab[m])
        BY <1>2, <1>3, <4>1, FirstIs
      <4> QED
        BY <4>2 DEF m
    <3> QED
      BY <1>2, <2>1, <3>1, <3>2, <3>4 DEF DnsDecision, ab
  <2> QED
    BY <2>3, <2>4
<1> QED
  BY <1>6, <1>7

\* No rule decides nothing.
LEMMA DnsNone == \A q, o : DnsDecision(<<>>, o, q) = o
<1>1. \A q : DnsHits(<<>>, q) = {}
  BY DEF DnsHits
<1> QED
  BY <1>1 DEF DnsDecision, FirstSays

\* One rule decides what it matches.
LEMMA DnsOne ==
  ASSUME NEW x, NEW q, NEW o
  PROVE  DnsDecision(<<x>>, o, q) = IF MatchesAll(x.match, q) THEN Says(x) ELSE o
<1> DEFINE l == <<x>>
<1>1. IsList(l) /\ Len(l) = 1 /\ l[1] = x /\ DOMAIN l = {1}
  BY OneIs
<1> HIDE DEF l
<1>2. CASE MatchesAll(x.match, q)
  <2>1. DnsHits(l, q) = {1}
    BY <1>1, <1>2 DEF DnsHits
  <2>2. FirstSays(l, DnsHits(l, q), o) = Says(l[1])
    BY <1>1, <2>1, FirstIs
  <2> QED
    BY <1>1, <1>2, <2>2 DEF DnsDecision, l
<1>3. CASE ~ MatchesAll(x.match, q)
  <2>1. DnsHits(l, q) = {}
    BY <1>1, <1>3 DEF DnsHits
  <2> QED
    BY <1>3, <2>1 DEF DnsDecision, FirstSays, l
<1> QED
  BY <1>2, <1>3

\* The first of the projected rules that a query meets decides.
FirstOf(S, r, q, j) ==
  /\ j \in S /\ MatchesAll(r[j].match, q)
  /\ \A i \in S : i < j => ~ MatchesAll(r[i].match, q)

\* What the projected rules say is what the first that matches says.
LEMMA ProjectedSay ==
  ASSUME NEW r, IsList(r), NEW local, NEW remote, NEW q, NEW o
  PROVE  LET P == ProjectedRules(r, local, remote) IN
         /\ IsList(P)
         /\ \/ \E j : FirstOf(Projected(r), r, q, j)
                      /\ DnsDecision(P, o, q) = Says(DnsRule(r[j], local, remote))
            \/ /\ \A j \in Projected(r) : ~ MatchesAll(r[j].match, q)
               /\ DnsDecision(P, o, q) = o
<1> DEFINE P == ProjectedRules(r, local, remote)
           S == Projected(r)
           n == Cardinality(S)
           e == InOrder(S)
           kept == At(r, S)
<1>0. S \in SUBSET (DOMAIN r)
  BY DEF Projected
<1>00. DOMAIN r = 1 .. Len(r) /\ Len(r) \in Nat
  BY ListIs
<1>1. /\ IsList(kept) /\ DOMAIN kept = 1 .. n /\ n \in Nat /\ e \in [1 .. n -> S]
      /\ \A x \in S : \E k \in 1 .. n : e[k] = x
      /\ \A j, k \in 1 .. n : j < k => e[j] < e[k]
      /\ \A k \in 1 .. n : kept[k] = r[e[k]]
  <2> HIDE DEF S
  <2> QED
    BY <1>0, AtIs
<1>2. P = [i \in DOMAIN kept |-> DnsRule(kept[i], local, remote)]
  BY DEF ProjectedRules
<1> HIDE DEF P, S, n, e, kept
<1>3. P = [i \in 1 .. n |-> P[i]] /\ \A i \in 1 .. n : P[i] = DnsRule(r[e[i]], local, remote)
  BY <1>1, <1>2
<1>4. IsList(P) /\ Len(P) = n /\ DOMAIN P = 1 .. n
  BY <1>1, <1>3, IsAList
<1>5. ASSUME NEW i \in 1 .. n PROVE P[i].match = r[e[i]].match
  <2>1. P[i] = DnsRule(r[e[i]], local, remote)
    BY <1>3
  <2> QED
    BY <2>1 DEF DnsRule
<1>6. DnsHits(P, q) = {i \in 1 .. n : MatchesAll(r[e[i]].match, q)}
  BY <1>4, <1>5 DEF DnsHits
<1>7. CASE DnsHits(P, q) # {}
  <2>1. PICK k \in DnsHits(P, q) : /\ \A j \in DnsHits(P, q) : k <= j
                                   /\ FirstSays(P, DnsHits(P, q), o) = Says(P[k])
    <3>1. DnsHits(P, q) \in SUBSET (DOMAIN P)
      BY DEF DnsHits
    <3> QED
      BY <3>1, <1>4, <1>7, FirstExists
  <2>2. k \in 1 .. n /\ MatchesAll(r[e[k]].match, q) /\ e[k] \in S
    BY <1>1, <1>6
  <2>3. ASSUME NEW i \in S, i < e[k] PROVE ~ MatchesAll(r[i].match, q)
    <3>1. PICK m \in 1 .. n : e[m] = i
      BY <1>1
    <3>2. i \in Nat /\ e[k] \in Nat
      BY <1>0, <1>00, <2>2
    <3>3. ~ (e[k] < e[m]) /\ e[k] # e[m]
      BY <2>3, <3>1, <3>2
    <3>4. ~ (k < m) /\ k # m
      BY <1>1, <2>2, <3>1, <3>3
    <3>5. m \notin DnsHits(P, q)
      BY <2>1, <2>2, <3>1, <3>4, <1>1
    <3> QED
      BY <3>1, <3>5, <1>6
  <2>4. FirstOf(S, r, q, e[k])
    BY <2>2, <2>3 DEF FirstOf
  <2> QED
    BY <1>3, <1>4, <2>1, <2>2, <2>4 DEF DnsDecision, P, S
<1>8. CASE DnsHits(P, q) = {}
  <2>1. \A j \in S : ~ MatchesAll(r[j].match, q)
    BY <1>1, <1>6, <1>8
  <2> QED
    BY <1>4, <1>8, <2>1 DEF DnsDecision, FirstSays, P, S
<1> QED
  BY <1>7, <1>8

\* The loop's remote_barrier at its end.
Barrier(r) == BarrierWithin(r, Len(r))

\* What the rules for DNS make of a query of any process but the shared one.
LEMMA WindowsSay ==
  ASSUME NEW r, IsList(r), NEW local, NEW remote, NEW asked, NEW q, q.app # Shared,
         NEW tail, IsList(tail), NEW o
  PROVE  LET d == WindowsDnsRules(r, local, remote, asked) \o tail IN
         /\ IsList(WindowsDnsRules(r, local, remote, asked)) /\ IsList(d)
         /\ \/ \E j : FirstOf(Projected(r), r, q, j)
                      /\ DnsDecision(d, o, q) = Says(DnsRule(r[j], local, remote))
            \/ /\ \A j \in Projected(r) : ~ MatchesAll(r[j].match, q)
               /\ DnsDecision(d, o, q) = IF Barrier(r) THEN Routed(remote)
                                         ELSE DnsDecision(tail, o, q)
<1> DEFINE P == ProjectedRules(r, local, remote)
           S == SharedRule(asked, local)
           B == BarrierRule(r, remote)
           t == DnsDecision(tail, o, q)
<1>1. IsList(P)
  BY ProjectedSay
<1>2. IsList(S) /\ \A x : DnsDecision(S, x, q) = x
  <2> DEFINE rule == [match |-> [app |-> {Shared}], verb |-> "route", to |-> local]
  <2>1. CASE S = <<>>
    BY <2>1, NoneIs, DnsNone
  <2>2. CASE S = <<rule>>
    <3>1. rule.match = [app |-> {Shared}]
      OBVIOUS
    <3>2. DOMAIN [app |-> {Shared}] = {"app"} /\ [app |-> {Shared}]["app"] = {Shared}
      OBVIOUS
    <3>3. ~ Holds("app", {Shared}, q)
      BY DEF Holds
    <3>4. ~ MatchesAll(rule.match, q)
      BY <3>1, <3>2, <3>3 DEF MatchesAll
    <3> HIDE DEF rule
    <3> QED
      BY <2>2, <3>4, OneIs, DnsOne
  <2>3. S = <<>> \/ S = <<rule>>
    BY DEF SharedRule
  <2> QED
    BY <2>1, <2>2, <2>3
<1>3. IsList(B) /\ DnsDecision(B, t, q) = IF Barrier(r) THEN Routed(remote) ELSE t
  <2>1. CASE Barrier(r)
    <3>1. B = <<CatchAll(remote)>>
      BY <2>1 DEF BarrierRule, Barrier
    <3>2. MatchesAll(CatchAll(remote).match, q) /\ Says(CatchAll(remote)) = Routed(remote)
      BY DEF CatchAll, MatchesAll, Says, Routed
    <3> QED
      BY <2>1, <3>1, <3>2, OneIs, DnsOne
  <2>2. CASE ~ Barrier(r)
    <3>1. B = <<>>
      BY <2>2 DEF BarrierRule, Barrier
    <3> QED
      BY <2>2, <3>1, NoneIs, DnsNone
  <2> QED
    BY <2>1, <2>2
<1>4. WindowsDnsRules(r, local, remote, asked) = (P \o S) \o B
  BY DEF WindowsDnsRules
<1> HIDE DEF P, S, B, t
<1>5. IsList(P \o S) /\ \A x : DnsDecision(P \o S, x, q) = DnsDecision(P, x, q)
  BY <1>1, <1>2, DnsConcat
<1> DEFINE PS == P \o S
<1>50. PS = P \o S
  OBVIOUS
<1> HIDE DEF PS
<1>6. IsList(PS \o B) /\ \A x : DnsDecision(PS \o B, x, q) = DnsDecision(PS, DnsDecision(B, x, q), q)
  BY <1>3, <1>5, <1>50, DnsConcat
<1> DEFINE W == PS \o B
<1>60. W = PS \o B
  OBVIOUS
<1> HIDE DEF W
<1>7. IsList(W \o tail) /\ DnsDecision(W \o tail, o, q) = DnsDecision(W, t, q)
  BY <1>6, <1>60, DnsConcat DEF t
<1>8. DnsDecision(W \o tail, o, q) = DnsDecision(P, IF Barrier(r) THEN Routed(remote) ELSE t, q)
  BY <1>3, <1>5, <1>50, <1>6, <1>60, <1>7
<1> DEFINE x == IF Barrier(r) THEN Routed(remote) ELSE t
<1>9. \/ \E j : FirstOf(Projected(r), r, q, j)
                /\ DnsDecision(P, x, q) = Says(DnsRule(r[j], local, remote))
      \/ /\ \A j \in Projected(r) : ~ MatchesAll(r[j].match, q)
         /\ DnsDecision(P, x, q) = x
  <2> HIDE DEF x
  <2> QED
    BY ProjectedSay DEF P
<1>10. WindowsDnsRules(r, local, remote, asked) = W
  BY <1>4, <1>50, <1>60
<1> QED
  BY <1>6, <1>60, <1>7, <1>8, <1>9, <1>10 DEF t

-----------------------------------------------------------------------------
\* The rules before a barrier, as a connection and its query meet them.

\* A rule that can be projected says the same of a connection and its query.
LEMMA ProjectedMeet ==
  ASSUME NEW rule, Projectable(rule), NEW c, NEW q, q.app = c.app, q.site = c.site
  PROVE  Matches(rule.match, c) <=> MatchesAll(rule.match, q)
<1>1. ASSUME NEW key \in DOMAIN rule.match, NEW same \in DOMAIN rule.match, Group(same) = Group(key)
      PROVE  same = key
  <2>1. key \in {"app", "site"} /\ same \in {"app", "site"}
    BY DEF Projectable
  <2>2. Group("app") = "process" /\ Group("site") = "destination"
    BY DEF Group
  <2> QED
    BY <1>1, <2>1, <2>2
<1>2. ASSUME NEW key \in DOMAIN rule.match, NEW values
      PROVE  Holds(key, values, c) <=> Holds(key, values, q)
  <2>1. key \in {"app", "site"}
    BY DEF Projectable
  <2>2. /\ Holds("app", values, c) <=> c.app \in values
        /\ Holds("app", values, q) <=> q.app \in values
        /\ Holds("site", values, c) <=> c.site \in values
        /\ Holds("site", values, q) <=> q.site \in values
    BY DEF Holds
  <2> QED
    BY <2>1, <2>2
<1>3. Matches(rule.match, c) <=> MatchesAll(rule.match, c)
  BY <1>1 DEF Matches, MatchesAll
<1>4. MatchesAll(rule.match, c) <=> MatchesAll(rule.match, q)
  BY <1>2 DEF MatchesAll
<1> QED
  BY <1>3, <1>4

\* A rule that a connection hits and no query rule before a barrier stands
\* for is one that leads past the tunnel.
LEMMA NoTunnelFirst ==
  ASSUME NEW r, IsList(r), NEW n \in 0 .. Len(r), ~ BarrierWithin(r, n),
         NEW m \in 1 .. n, NEW c, Ordinary(c), NEW q, q.app = c.app, q.site = c.site,
         Matches(r[m].match, c), r[m].verb \notin PassingVerbs,
         ~ (m \in Projected(r) /\ MatchesAll(r[m].match, q))
  PROVE  r[m].verb = "hijack-dns" \/ Direct(r[m])
<1>0. Len(r) \in Nat /\ DOMAIN r = 1 .. Len(r) /\ m \in DOMAIN r /\ m \in Nat
  BY ListIs
<1> SUFFICES ASSUME r[m].verb # "hijack-dns", ~ Direct(r[m]) PROVE FALSE
  OBVIOUS
<1>1. r[m] # LanBypass
  BY OpeningMisses
<1>2. ~ Ignored(r[m])
  BY <1>1 DEF Ignored
<1>3. ~ RaisesBarrier(r[m])
  BY <1>2 DEF BarrierWithin
<1>4. Projectable(r[m])
  BY <1>3 DEF RaisesBarrier
<1>5. m \in Projected(r)
  BY <1>0, <1>2, <1>3, <1>4 DEF Projected
<1>6. MatchesAll(r[m].match, q)
  BY <1>4, ProjectedMeet
<1> QED
  BY <1>5, <1>6

\* The route with the outbounds of the configuration it is written to.
Renamed(l, s) ==
  Shaped(l, s) /\ \A i \in DOMAIN l : BuildRoute(s)[i].to = "direct" => l[i].to = "direct"

\* A query that goes to the local server belongs to connections that the
\* route leaves outside the tunnel, or to none of the program's rules.
LEMMA LocalOnlyPast ==
  ASSUME NEW s, IsList(s.rules), NEW l, Renamed(l, s), NEW local, NEW remote, local # remote,
         NEW asked, NEW tail, IsList(tail), NEW o, NEW x,
         NEW c, Ordinary(c), NEW q, q.app # Shared, q.app = c.app, q.site = c.site,
         NEW D, D = DnsDecision(WindowsDnsRules(BuildRoute(s), local, remote, asked) \o tail, o, q),
         D.verb = "route", D.to = local
  PROVE  \/ Decision(l, x, c).verb = "hijack-dns" \/ Decision(l, x, c).to = "direct"
         \/ Decision(l, x, c) = x /\ D = DnsDecision(tail, o, q)
<1> DEFINE r == BuildRoute(s)
<1>1. IsList(r) /\ Len(r) \in Nat /\ DOMAIN r = 1 .. Len(r)
  BY RouteIs
<1>2. \/ \E j : FirstOf(Projected(r), r, q, j) /\ D = Says(DnsRule(r[j], local, remote))
      \/ /\ \A j \in Projected(r) : ~ MatchesAll(r[j].match, q)
         /\ D = IF Barrier(r) THEN Routed(remote) ELSE DnsDecision(tail, o, q)
  BY <1>1, WindowsSay
<1>3. /\ IsList(l) /\ DOMAIN l = DOMAIN r
      /\ \A i \in DOMAIN l : /\ l[i].match = r[i].match /\ l[i].verb = r[i].verb
                             /\ Direct(r[i]) => l[i].to = "direct"
  BY DEF Renamed, Shaped, Direct
<1> HIDE DEF r
<1>4. ASSUME NEW n \in 0 .. Len(r), ~ BarrierWithin(r, n), NEW m \in Hits(l, c), m <= n,
             ~ (m \in Projected(r) /\ MatchesAll(r[m].match, q))
      PROVE  Says(l[m]).verb = "hijack-dns" \/ Says(l[m]).to = "direct"
  <2>1. m \in DOMAIN l /\ Matches(l[m].match, c) /\ l[m].verb \notin PassingVerbs
    BY DEF Hits
  <2>2. m \in 1 .. n /\ Matches(r[m].match, c) /\ r[m].verb \notin PassingVerbs
    BY <1>1, <1>3, <1>4, <2>1
  <2>3. r[m].verb = "hijack-dns" \/ Direct(r[m])
    BY <1>1, <1>4, <2>2, NoTunnelFirst
  <2>4. l[m].verb = "hijack-dns" \/ l[m].to = "direct"
    BY <1>3, <2>1, <2>3
  <2> QED
    BY <2>4 DEF Says
<1>5. Hits(l, c) \in SUBSET (DOMAIN l)
  BY DEF Hits
<1>6. CASE Hits(l, c) # {}
  <2>1. PICK m \in Hits(l, c) : (\A i \in Hits(l, c) : m <= i) /\ Decision(l, x, c) = Says(l[m])
    BY <1>3, <1>5, <1>6, FirstExists DEF Decision
  <2>2. m \in 1 .. Len(r)
    BY <1>1, <1>3, <1>5
  <2>3. ASSUME NEW j, FirstOf(Projected(r), r, q, j), D = Says(DnsRule(r[j], local, remote))
        PROVE  Says(l[m]).verb = "hijack-dns" \/ Says(l[m]).to = "direct"
    <3>1. j \in Projected(r) /\ MatchesAll(r[j].match, q)
          /\ \A i \in Projected(r) : i < j => ~ MatchesAll(r[i].match, q)
      BY <2>3 DEF FirstOf
    <3>2. /\ j \in DOMAIN r /\ Projectable(r[j]) /\ ~ RaisesBarrier(r[j]) /\ ~ Ignored(r[j])
          /\ ~ (Direct(r[j]) /\ BarrierWithin(r, j - 1))
      BY <3>1 DEF Projected
    <3>3. DnsRule(r[j], local, remote).verb = "route" /\ DnsRule(r[j], local, remote).to = local
      BY <2>3 DEF Says
    <3>4. ~ Refuses(r[j]) /\ Direct(r[j])
      BY <3>3 DEF DnsRule
    <3>5. r[j].verb \notin PassingVerbs
      BY <3>2 DEF Ignored
    <3>6. Matches(r[j].match, c)
      BY <3>1, <3>2, ProjectedMeet
    <3>7. j \in Hits(l, c) /\ j \in 1 .. Len(r)
      BY <1>1, <1>3, <3>2, <3>5, <3>6 DEF Hits
    <3>8. CASE m = j
      BY <1>1, <1>3, <2>2, <3>4, <3>8 DEF Says
    <3>9. CASE m # j
      <4>1. m < j /\ j - 1 \in 0 .. Len(r) /\ m <= j - 1
        BY <2>1, <2>2, <3>7, <3>9, <1>1
      <4>2. ~ BarrierWithin(r, j - 1)
        BY <3>2, <3>4
      <4>3. ~ (m \in Projected(r) /\ MatchesAll(r[m].match, q))
        BY <3>1, <4>1
      <4> QED
        BY <1>4, <4>1, <4>2, <4>3
    <3> QED
      BY <3>8, <3>9
  <2>4. ASSUME \A j \in Projected(r) : ~ MatchesAll(r[j].match, q),
               D = IF Barrier(r) THEN Routed(remote) ELSE DnsDecision(tail, o, q)
        PROVE  Says(l[m]).verb = "hijack-dns" \/ Says(l[m]).to = "direct"
    <3>1. ~ Barrier(r)
      BY <2>4 DEF Routed
    <3>2. ~ BarrierWithin(r, Len(r)) /\ Len(r) \in 0 .. Len(r) /\ m <= Len(r)
      BY <3>1, <1>1, <2>2 DEF Barrier
    <3> QED
      BY <1>4, <2>4, <3>2
  <2> QED
    BY <1>2, <2>1, <2>3, <2>4
<1>7. CASE Hits(l, c) = {}
  <2>0. Decision(l, x, c) = x
    BY <1>7 DEF Decision, FirstSays
  <2>1. ASSUME NEW j, FirstOf(Projected(r), r, q, j), D = Says(DnsRule(r[j], local, remote))
        PROVE  FALSE
    <3>1. j \in Projected(r) /\ MatchesAll(r[j].match, q)
      BY <2>1 DEF FirstOf
    <3>2. j \in DOMAIN r /\ Projectable(r[j]) /\ ~ Ignored(r[j])
      BY <3>1 DEF Projected
    <3>3. r[j].verb \notin PassingVerbs /\ Matches(r[j].match, c)
      BY <3>1, <3>2, ProjectedMeet DEF Ignored
    <3>4. j \in Hits(l, c)
      BY <1>3, <3>2, <3>3 DEF Hits
    <3> QED
      BY <3>4, <1>7
  <2>2. D = IF Barrier(r) THEN Routed(remote) ELSE DnsDecision(tail, o, q)
    BY <1>2, <2>1
  <2>3. ~ Barrier(r)
    BY <2>2 DEF Routed
  <2> QED
    BY <2>0, <2>2, <2>3
<1> QED
  BY <1>6, <1>7

\* The queries of an application picked for direct access.
LEMMA PickedAsksLocal ==
  ASSUME NEW s, IsList(s.rules), NEW local, NEW remote, NEW asked, NEW tail, IsList(tail),
         NEW o, NEW q, q.app # Shared, q.app \in Names(s.direct)
  PROVE  DnsDecision(WindowsDnsRules(BuildRoute(s), local, remote, asked) \o tail, o, q)
            = Routed(local)
<1> DEFINE r == BuildRoute(s)
           n == Len(Opening(s))
           D == DnsDecision(WindowsDnsRules(r, local, remote, asked) \o tail, o, q)
           A == Names(s.direct)
<1>1. /\ IsList(r) /\ Len(r) \in Nat /\ DOMAIN r = 1 .. Len(r) /\ n \in {2, 3}
      /\ \A i \in 1 .. n : r[i] \in {Hijack, LanBypass, SniffRule}
      /\ n + 1 \in DOMAIN r /\ r[n + 1] = AppList(A, "direct")
  <2> DEFINE d == Len(AppRule(s.direct, "direct"))
  <2>1. /\ IsList(r) /\ Len(r) \in Nat /\ DOMAIN r = 1 .. Len(r) /\ n \in {2, 3} /\ d = 1
        /\ \A i \in 1 .. n : r[i] \in {Hijack, LanBypass, SniffRule}
        /\ \A i \in n + 1 .. n + d : i \in DOMAIN r /\ r[i] = AppList(A, "direct")
    BY RouteIs
  <2> HIDE DEF r, n, d
  <2>2. n + 1 \in n + 1 .. n + d
    BY <2>1
  <2> QED
    BY <2>1, <2>2
<1>2. \/ \E j : FirstOf(Projected(r), r, q, j) /\ D = Says(DnsRule(r[j], local, remote))
      \/ \A j \in Projected(r) : ~ MatchesAll(r[j].match, q)
  BY <1>1, WindowsSay
<1> HIDE DEF r, n, D
<1>3. \A i \in 1 .. n : Ignored(r[i])
  <2>1. Ignored(Hijack) /\ Ignored(LanBypass) /\ Ignored(SniffRule)
    BY DEF Ignored, Hijack, SniffRule, PassingVerbs
  <2> QED
    BY <1>1, <2>1
<1>4. ~ BarrierWithin(r, n)
  BY <1>3 DEF BarrierWithin
<1>5. /\ r[n + 1].match = [app |-> A] /\ r[n + 1].verb = "route" /\ r[n + 1].to = "direct"
  BY <1>1 DEF AppList
<1>6. DOMAIN [app |-> A] = {"app"} /\ [app |-> A]["app"] = A
  OBVIOUS
<1>7. ~ Ignored(r[n + 1])
  <2>1. LanBypass.match = [lan |-> {"lan"}]
    BY DEF LanBypass
  <2>2. DOMAIN LanBypass.match = {"lan"}
    BY <2>1
  <2>3. r[n + 1] # LanBypass
    BY <2>2, <1>5, <1>6
  <2> QED
    BY <2>3, <1>5 DEF Ignored, PassingVerbs
<1>8. Projectable(r[n + 1]) /\ ~ Refuses(r[n + 1]) /\ ~ RaisesBarrier(r[n + 1])
  BY <1>5, <1>6 DEF Projectable, Refuses, RaisesBarrier
<1>9. n + 1 \in Projected(r)
  <2>1. (n + 1) - 1 = n
    BY <1>1
  <2> QED
    BY <1>1, <1>4, <1>7, <1>8, <2>1 DEF Projected
<1>10. MatchesAll(r[n + 1].match, q)
  <2>1. Holds("app", A, q)
    BY DEF Holds
  <2> QED
    BY <1>5, <1>6, <2>1 DEF MatchesAll
<1>11. PICK j : FirstOf(Projected(r), r, q, j) /\ D = Says(DnsRule(r[j], local, remote))
  BY <1>2, <1>9, <1>10
<1>12. j = n + 1
  <2>1. j \in Projected(r) /\ ~ (n + 1 < j)
    BY <1>9, <1>10, <1>11 DEF FirstOf
  <2>2. j \in DOMAIN r /\ ~ Ignored(r[j])
    BY <2>1 DEF Projected
  <2>3. j \notin 1 .. n
    BY <1>3, <2>2
  <2> QED
    BY <1>1, <2>1, <2>2, <2>3
<1>13. DnsRule(r[n + 1], local, remote) = [match |-> r[n + 1].match, verb |-> "route", to |-> local]
  BY <1>5, <1>8 DEF DnsRule, Direct
<1> QED
  BY <1>11, <1>12, <1>13 DEF D, r, Says, Routed

\* The tags of the program's own DNS servers: two, and the provider's are
\* others.
LEMMA FreshAre ==
  ASSUME NEW p, IsSingbox(p)
  PROVE  /\ Fresh(LocalTags, p) # Fresh(RemoteTags, p)
         /\ Fresh(LocalTags, p) # NoTag /\ Fresh(RemoteTags, p) # NoTag
         /\ ~ HasServer(p, Fresh(LocalTags, p)) /\ ~ HasServer(p, Fresh(RemoteTags, p))
<1>1. ASSUME NEW tags, DOMAIN tags = 1 .. 3, Free(tags, p) # {}
      PROVE  \E i \in 1 .. 3 : Fresh(tags, p) = tags[i] /\ ~ HasServer(p, tags[i])
  <2>1. Free(tags, p) \in SUBSET Nat
    BY <1>1 DEF Free
  <2>2. Min(Free(tags, p)) \in Free(tags, p)
    BY <1>1, <2>1, Least
  <2> QED
    BY <1>1, <2>2 DEF Free, Fresh
<1> DEFINE L == {"cloakwire-local", "cloakwire-local-1", "cloakwire-local-2"}
           R == {"cloakwire-remote", "cloakwire-remote-1", "cloakwire-remote-2"}
<1>2. DOMAIN LocalTags = 1 .. 3 /\ \A i \in 1 .. 3 : LocalTags[i] \in L
  BY ThreeIs DEF LocalTags
<1>3. DOMAIN RemoteTags = 1 .. 3 /\ \A i \in 1 .. 3 : RemoteTags[i] \in R
  BY ThreeIs DEF RemoteTags
<1>4. Fresh(LocalTags, p) \in L /\ ~ HasServer(p, Fresh(LocalTags, p))
  BY <1>1, <1>2 DEF IsSingbox
<1>5. Fresh(RemoteTags, p) \in R /\ ~ HasServer(p, Fresh(RemoteTags, p))
  BY <1>1, <1>3 DEF IsSingbox
<1> QED
  BY <1>4, <1>5 DEF NoTag

\* Where the rules for DNS send a query.
LEMMA Servers ==
  ASSUME NEW r, IsList(r), NEW local, NEW remote, NEW asked, NEW q, q.app # Shared,
         NEW tail, IsList(tail), NEW o, NEW D,
         D = DnsDecision(WindowsDnsRules(r, local, remote, asked) \o tail, o, q), D.verb = "route"
  PROVE  D.to \in {local, remote} \/ D = DnsDecision(tail, o, q)
<1>1. \/ \E j : D = Says(DnsRule(r[j], local, remote))
      \/ D = IF Barrier(r) THEN Routed(remote) ELSE DnsDecision(tail, o, q)
  BY WindowsSay
<1>2. ASSUME NEW j, D = Says(DnsRule(r[j], local, remote)) PROVE D.to \in {local, remote}
  BY <1>2 DEF Says, DnsRule
<1> QED
  BY <1>1, <1>2 DEF Routed

\* The two halves of the property, where the program builds everything.
LEMMA BuiltFollows ==
  ASSUME IInv, SingboxBuilt, Windows, NEW q, q.app # Shared
  PROVE  /\ Outside(OurServer(q)) =>
              \A c : c.app = q.app /\ c.site = q.site /\ Ordinary(c) => ~ IntoTunnel(OurDecision(c))
         /\ q.app \in Names(settings.direct) => Outside(OurServer(q))
<1> DEFINE s == settings
           r == BuildRoute(s)
           asked == Names(s.direct) # {}
           W == WindowsDnsRules(r, "local", "remote", asked)
           servers == <<LocalServer("local"), RemoteServer(s, "remote", "proxy", "local")>>
           last == IF s.final = "direct" THEN "local" ELSE "remote"
           dns == BuildDns(s, Windows)
           D == OurServer(q)
           tail == <<>>
<1>00. tail = <<>>
  OBVIOUS
<1>01. IsList(tail)
  BY NoneIs
<1> HIDE DEF tail
<1>0. IsList(s.rules)
  BY SettingsAre
<1>1. ~ Merged /\ config.value.rules = r /\ config.value.final = s.final /\ config.value.dns = dns
  BY DEF SingboxBuilt, Build
<1>2. dns = [servers |-> servers, rules |-> W, final |-> last]
  BY DEF BuildDns
<1> HIDE DEF asked, dns
<1>3. IsList(r)
  BY <1>0, RouteIs
<1>4. IsList(W) /\ W \o <<>> = W
  <2> DEFINE any == [app |-> NoTag]
  <2>1. any.app # Shared
    BY DEF NoTag, Shared
  <2> HIDE DEF any
  <2>2. IsList(W)
    BY <1>3, <2>1, NoneIs, WindowsSay
  <2> QED
    BY <2>2, ConcatEmptySeq DEF IsList
<1>5. D = DnsDecision(W \o tail, Routed(last), q)
  <2> HIDE DEF W, servers, last
  <2>1. config.value.dns.rules = W /\ config.value.dns.final = last
    BY <1>1, <1>2
  <2> QED
    BY <1>00, <1>1, <1>4, <2>1 DEF OurServer, OurDnsRules
<1>6. /\ config.value.dns.servers = servers
      /\ \A sv \in Range(servers) : sv.detour \in {NoTag, "direct"} <=> sv.tag = "local"
      /\ \E sv \in Range(servers) : sv.tag = "local"
  <2> HIDE DEF W, servers, last
  <2>2. config.value.dns.servers = servers
    BY <1>1, <1>2
  <2> DEFINE a == LocalServer("local")
             b == RemoteServer(s, "remote", "proxy", "local")
  <2>3. a.tag = "local" /\ a.detour = NoTag /\ b.tag = "remote" /\ b.detour = "proxy"
    BY DEF LocalServer, RemoteServer
  <2> HIDE DEF a, b
  <2>1. servers = <<a, b>>
    BY DEF a, b, servers
  <2>4. Range(<<a, b>>) = {a, b}
    BY DEF Range
  <2> QED
    BY <2>1, <2>2, <2>3, <2>4 DEF NoTag
<1> HIDE DEF r, W, servers, last, D
<1>7. Outside(D) <=> D.verb = "route" /\ D.to = "local"
  BY <1>6 DEF Outside
<1>8. ASSUME Outside(D), NEW c, c.app = q.app, c.site = q.site, Ordinary(c)
      PROVE  ~ IntoTunnel(OurDecision(c))
  <2>1. D.verb = "route" /\ D.to = "local"
    BY <1>7, <1>8
  <2>2. Renamed(r, s)
    BY <1>0, <1>3 DEF Renamed, Shaped, r
  <2>3. OurDecision(c) = Decision(r, Routed(s.final), c)
    BY <1>1 DEF OurDecision, OurRules
  <2>4. \/ Decision(r, Routed(s.final), c).verb = "hijack-dns"
        \/ Decision(r, Routed(s.final), c).to = "direct"
        \/ /\ Decision(r, Routed(s.final), c) = Routed(s.final)
           /\ D = DnsDecision(tail, Routed(last), q)
    <3>1. q.app = c.app /\ q.site = c.site /\ "local" # "remote"
      BY <1>8
    <3>2. D = DnsDecision(WindowsDnsRules(BuildRoute(s), "local", "remote", asked) \o tail,
                          Routed(last), q)
      BY <1>5 DEF W, r
    <3> QED
      BY <1>01, <1>0, <1>8, <2>1, <2>2, <3>1, <3>2, LocalOnlyPast
  <2>5. CASE D = DnsDecision(tail, Routed(last), q)
    <3>1. D = Routed(last)
      BY <1>00, <2>5, DnsNone
    <3>2. last = "local"
      BY <2>1, <3>1 DEF Routed
    <3>3. s.final = "direct"
      BY <3>2 DEF last
    <3>4. Routed(s.final).to = "direct"
      BY <3>3 DEF Routed
    <3> QED
      BY <2>3, <2>4, <3>4 DEF IntoTunnel, Tunnels
  <2> QED
    BY <2>3, <2>4, <2>5 DEF IntoTunnel, Tunnels
<1>9. ASSUME q.app \in Names(s.direct) PROVE Outside(D)
  <2>1. D = Routed("local")
    <3>2. D = DnsDecision(WindowsDnsRules(BuildRoute(s), "local", "remote", asked) \o tail,
                          Routed(last), q)
      BY <1>5 DEF W, r
    <3> HIDE DEF s
    <3> QED
      BY <1>01, <1>0, <1>9, <3>2, PickedAsksLocal
  <2> QED
    BY <1>7, <2>1 DEF Routed
<1> QED
  BY <1>8, <1>9 DEF D

\* The program's own part of a merged configuration.
LEMMA MergedFollows ==
  ASSUME IInv, SingboxMerged, Windows, NEW q, q.app # Shared
  PROVE  /\ Outside(OurServer(q)) /\ ~ EndsOutside =>
              \A c : c.app = q.app /\ c.site = q.site /\ Ordinary(c) => ~ IntoTunnel(OurDecision(c))
         /\ q.app \in Names(settings.direct) => Outside(OurServer(q))
<1> DEFINE s == settings
           p == config.from
           r == BuildRoute(s)
           l == LocalRules(s, p)
           final == Alias(s.final, p)
           D == OurServer(q)
<1>0. IsList(s.rules)
  BY SettingsAre
<1>1. /\ Merged /\ IsSingbox(p) /\ NoTag \notin TagsOf(p.outbounds) /\ ProxyTarget(p) # NoTag
      /\ config.value.outbounds = p.outbounds \o Standard(s, p)
      /\ config.value.rules = l \o p.rules
      /\ config.value.final = final
      /\ config.value.dns = IF NoDnsPolicy(s) THEN p.dns ELSE MergeDns(s, p)
  BY MergedIs DEF TagsUnique
<1>2. IsList(p.outbounds) /\ IsList(p.rules) /\ IsList(p.dns.servers) /\ IsList(p.dns.rules)
  BY <1>1 DEF IsSingbox
<1>3. /\ IsList(l) /\ IsList(r) /\ DOMAIN l = DOMAIN r
      /\ \A i \in DOMAIN r : l[i] = [match |-> r[i].match, verb |-> r[i].verb, to |-> Alias(r[i].to, p)]
  BY <1>0, LocalIs, RouteIs
<1> HIDE DEF l
<1>4. Renamed(l, s)
  <2>1. ASSUME NEW i \in DOMAIN l
        PROVE  /\ l[i].match = r[i].match /\ l[i].verb = r[i].verb
               /\ r[i].to = "direct" => l[i].to = "direct"
    <3>1. Alias("direct", p) = "direct"
      BY <1>1, AliasIs
    <3>2. l[i] = [match |-> r[i].match, verb |-> r[i].verb, to |-> Alias(r[i].to, p)]
      BY <1>3
    <3> QED
      BY <3>1, <3>2
  <2> QED
    BY <1>3, <2>1 DEF Renamed, Shaped
<1>5. NoTag \notin Tunnels
  <2>1. TagsOf(config.value.outbounds) = TagsOf(p.outbounds) \cup (LocalTargets(s, p) \cap {"direct", "block"})
    BY <1>1, <1>2, MergedTags
  <2> QED
    BY <1>1, <2>1 DEF Tunnels, NoTag
<1>6. \A c : OurDecision(c) = Decision(l, IF p.rules # <<>> THEN Theirs ELSE Routed(final), c)
  <2>1. OurRules = l
    BY <1>1, <1>2, <1>3, OursIs DEF OurRules
  <2> QED
    BY <1>1, <2>1 DEF OurDecision
<1>7. CASE NoDnsPolicy(s)
  <2>1. config.value.dns = p.dns
    BY <1>1, <1>7
  <2>2. OurDnsRules = <<>>
    <3>1. p.dns.rules = <<>> \o p.dns.rules
      BY <1>2, ConcatEmptySeq DEF IsList
    <3>2. Ours(<<>> \o p.dns.rules, p.dns.rules) = <<>>
      BY <1>2, NoneIs, OursIs
    <3>3. OurDnsRules = Ours(p.dns.rules, p.dns.rules)
      BY <1>1, <2>1 DEF OurDnsRules
    <3> QED
      BY <3>1, <3>2, <3>3
  <2>3. D = Theirs
    BY <1>1, <2>2, DnsNone DEF OurServer
  <2>4. ~ Outside(D)
    BY <2>3 DEF Outside, Theirs
  <2>5. Names(s.direct) = {}
    BY <1>7 DEF NoDnsPolicy
  <2> QED
    BY <2>4, <2>5
<1>8. CASE ~ NoDnsPolicy(s)
  <2> DEFINE local == Fresh(LocalTags, p)
             remote == Fresh(RemoteTags, p)
             asked == Names(s.direct) # {}
             W == WindowsDnsRules(r, local, remote, asked)
             tail == IF final = "direct" THEN <<CatchAll(local)>> ELSE <<>>
             a == LocalServer(local)
             b == RemoteServer(s, remote, ProxyTarget(p), local)
             last == MergeDns(s, p).final
  <2>1. /\ config.value.dns.servers = p.dns.servers \o <<a, b>>
        /\ config.value.dns.rules = (W \o tail) \o p.dns.rules
    <3>1. config.value.dns = MergeDns(s, p)
      BY <1>1, <1>8
    <3> DEFINE sv == p.dns.servers \o <<a, b>>
               ru == (W \o tail) \o p.dns.rules
               fi == IF final = "direct" THEN local
                     ELSE IF s.ownRemote \/ p.dns.servers = <<>> THEN remote ELSE p.dns.final
    <3>2. MergeDns(s, p) = [servers |-> sv, rules |-> ru, final |-> fi]
      BY DEF MergeDns
    <3> HIDE DEF sv, ru, fi
    <3>3. config.value.dns.servers = sv /\ config.value.dns.rules = ru
      BY <3>1, <3>2
    <3> QED
      BY <3>3 DEF sv, ru
  <2>2. local # remote /\ ~ HasServer(p, local) /\ ~ HasServer(p, remote)
    BY <1>1, FreshAre
  <2>3. /\ a.tag = local /\ a.detour = NoTag /\ b.tag = remote
        /\ b.detour # NoTag /\ (~ EndsOutside => b.detour # "direct")
    <3>1. a.tag = local /\ a.detour = NoTag /\ b.tag = remote /\ b.detour = ProxyTarget(p)
      BY DEF LocalServer, RemoteServer
    <3> QED
      BY <1>1, <3>1 DEF EndsOutside
  <2> HIDE DEF local, remote, asked, a, b
  <2>4. Range(config.value.dns.servers) = Range(p.dns.servers) \cup {a, b}
    <3>1. IsList(<<a, b>>)
      BY TwoIs
    <3>2. Range(<<a, b>>) = {a, b}
      BY DEF Range
    <3>3. Range(p.dns.servers \o <<a, b>>) = Range(p.dns.servers) \cup Range(<<a, b>>)
      BY <1>2, <3>1, ConcatRange
    <3> QED
      BY <2>1, <3>2, <3>3
  <2>5. ASSUME D.verb = "route", D.to = local PROVE Outside(D)
    BY <2>3, <2>4, <2>5 DEF Outside
  <2>6. ~ (Outside(D) /\ ~ EndsOutside /\ D.to = remote)
    BY <2>2, <2>3, <2>4 DEF Outside, HasServer
  <2>7. IsList(tail)
    BY NoneIs, OneIs
  <2>8. /\ final = "direct" => DnsDecision(tail, Theirs, q) = Routed(local)
        /\ final # "direct" => DnsDecision(tail, Theirs, q) = Theirs
    <3>1. MatchesAll(CatchAll(local).match, q) /\ Says(CatchAll(local)) = Routed(local)
      BY DEF CatchAll, MatchesAll, Says, Routed
    <3> QED
      BY <3>1, DnsOne, DnsNone
  <2> HIDE DEF W, tail, r, D
  <2>9. IsList(W) /\ IsList(W \o tail)
    <3> DEFINE any == [app |-> NoTag]
    <3>1. any.app # Shared
      BY DEF NoTag, Shared
    <3> HIDE DEF any
    <3> QED
      BY <1>3, <2>7, <3>1, WindowsSay DEF W
  <2>10. D = DnsDecision(W \o tail, Theirs, q)
    <3>1. OurDnsRules = W \o tail
      <4> DEFINE wt == W \o tail
      <4>1. IsList(wt) /\ config.value.dns.rules = wt \o p.dns.rules
        BY <2>1, <2>9
      <4> HIDE DEF wt
      <4>2. OurDnsRules = wt
        BY <1>1, <1>2, <4>1, OursIs DEF OurDnsRules
      <4> QED
        BY <4>2 DEF wt
    <3> QED
      BY <1>1, <3>1 DEF OurServer, D
  <2>11. D = DnsDecision(WindowsDnsRules(BuildRoute(s), local, remote, asked) \o tail, Theirs, q)
    BY <2>10 DEF W, r
  <2>12. ASSUME q.app \in Names(s.direct) PROVE Outside(D)
    <3>1. D = Routed(local)
      BY <1>0, <2>7, <2>11, <2>12, PickedAsksLocal
    <3> QED
      BY <2>5, <3>1 DEF Routed
  <2>13. ASSUME Outside(D), ~ EndsOutside, NEW c, c.app = q.app, c.site = q.site, Ordinary(c)
         PROVE  ~ IntoTunnel(OurDecision(c))
    <3> DEFINE x == IF p.rules # <<>> THEN Theirs ELSE Routed(final)
    <3>1. D.verb = "route"
      BY <2>13 DEF Outside
    <3>2. D.to \in {local, remote} \/ D = DnsDecision(tail, Theirs, q)
      BY <1>3, <2>7, <2>10, <3>1, Servers DEF W
    <3>3. D.to = local
      BY <2>6, <2>8, <2>13, <3>1, <3>2 DEF Theirs, Routed
    <3>4. q.app = c.app /\ q.site = c.site
      BY <2>13
    <3> HIDE DEF x
    <3>5. \/ Decision(l, x, c).verb = "hijack-dns" \/ Decision(l, x, c).to = "direct"
          \/ Decision(l, x, c) = x /\ D = DnsDecision(tail, Theirs, q)
      BY <1>0, <1>4, <2>2, <2>7, <2>11, <2>13, <3>1, <3>3, <3>4, LocalOnlyPast
    <3>6. OurDecision(c) = Decision(l, x, c)
      BY <1>6 DEF x
    <3>7. CASE Decision(l, x, c) = x /\ D = DnsDecision(tail, Theirs, q)
      <4>1. final = "direct"
        BY <2>8, <3>1, <3>7 DEF Theirs
      <4>2. x.to = NoTag \/ x.to = "direct"
        BY <4>1 DEF x, Theirs, Routed
      <4> QED
        BY <1>5, <3>6, <3>7, <4>2 DEF IntoTunnel, Tunnels
    <3> QED
      BY <3>5, <3>6, <3>7 DEF IntoTunnel, Tunnels
  <2> QED
    BY <2>12, <2>13 DEF D
<1> QED
  BY <1>7, <1>8

\* The invariant implies the property.
LEMMA Follows == IInv => DnsFollowsRoute
<1> SUFFICES ASSUME IInv, Running("singbox"), Windows, NEW q \in Traffic, q.app # Shared
             PROVE  /\ Outside(OurServer(q)) /\ ~ EndsOutside =>
                         \A c \in Traffic : c.app = q.app /\ c.site = q.site /\ Ordinary(c) =>
                                                ~ IntoTunnel(OurDecision(c))
                    /\ q.app \in Names(settings.direct) => Outside(OurServer(q))
  BY DEF DnsFollowsRoute
<1>1. CASE SingboxBuilt
  BY <1>1, BuiltFollows
<1>2. CASE SingboxMerged
  BY <1>2, MergedFollows
<1> QED
  BY <1>1, <1>2, ForSingbox

\* On Windows no query leaves the tunnel for a connection that enters it
\* (unless the provider's tunnel itself ends outside), and no picked direct
\* application waits for the tunnel (windows_dns_rules).
THEOREM DnsFollows == Spec => []DnsFollowsRoute
BY Invariance, Follows, PTL

-----------------------------------------------------------------------------
(* What a prepared Xray configuration is.                                  *)

\* An Xray configuration is made of links on the phone
XrayLinks ==
  /\ ~ Desktop /\ ~ Merged /\ config.http = 0 /\ IsList(stored.nodes)
  /\ LinkConfig(stored.nodes) # None /\ config.value = LinkConfig(stored.nodes)

\* or prepared from a provider's own on the desktop
XrayDesktop ==
  /\ Desktop /\ Merged /\ IsXray(config.from)
  /\ \E socks, http \in Ports :
        LET x == PrepareDesktop(config.from, settings, socks, http) IN
        x # None /\ config.value = x.config /\ config.http = x.http /\ config.socks = x.socks

\* or on the phone.
XrayPhone ==
  /\ ~ Desktop /\ Merged /\ IsXray(config.from) /\ config.http = 0
  /\ PrepareAndroid(config.from, settings) # None
  /\ config.value = PrepareAndroid(config.from, settings)

\* There is no other way to an Xray configuration.
LEMMA ForXray == IInv /\ Running("xray") => XrayLinks \/ XrayDesktop \/ XrayPhone
<1> SUFFICES ASSUME IInv, Running("xray") PROVE XrayLinks \/ XrayDesktop \/ XrayPhone
  OBVIOUS
<1>1. stage = "ready" /\ config.engine = "xray"
  BY DEF Running
<1>2. LinksPrepared \/ SingboxPrepared \/ XrayPrepared
  BY <1>1 DEF IInv
<1>3. CASE LinksPrepared
  <2>1. ~ Desktop
    BY <1>1, <1>3 DEF LinksPrepared, Unproxied
  <2>2. LinkConfig(stored.nodes) # None /\ config = Unproxied("xray", LinkConfig(stored.nodes), None)
    BY <2>1, <1>3 DEF LinksPrepared
  <2>3. stored.kind = "links"
    BY <1>3 DEF LinksPrepared
  <2>4. IsList(stored.nodes)
    BY <1>1, <2>3, StoredLists
  <2> QED
    BY <2>1, <2>2, <2>4 DEF XrayLinks, Unproxied, Merged
<1>4. CASE SingboxPrepared
  BY <1>1, <1>4 DEF SingboxPrepared, Unproxied
<1>5. CASE XrayPrepared
  <2>1. stored.kind = "xray"
    BY <1>5 DEF XrayPrepared
  <2>2. \A i \in DOMAIN stored.configs : IsXray(stored.configs[i])
    BY <1>1, <2>1, StoredLists
  <2>3. CASE Desktop
    <3>1. PICK i \in DOMAIN stored.configs, socks, http \in Ports :
             LET x == PrepareDesktop(stored.configs[i], settings, socks, http) IN
             /\ x # None
             /\ config = [engine |-> "xray", value |-> x.config, http |-> x.http,
                          socks |-> x.socks, unavailable |-> x.unavailable,
                          from |-> stored.configs[i]]
      BY <1>5, <2>3 DEF XrayPrepared
    <3> DEFINE x == PrepareDesktop(stored.configs[i], settings, socks, http)
               p == stored.configs[i]
    <3>2. IsXray(p)
      BY <2>2
    <3> HIDE DEF x, p
    <3>3. /\ x # None /\ config.from = p /\ config.value = x.config
          /\ config.http = x.http /\ config.socks = x.socks
      BY <3>1 DEF x, p
    <3>4. Merged
      BY <3>2, <3>3, NotNone DEF Merged
    <3>5. x = PrepareDesktop(config.from, settings, socks, http)
      BY <3>3 DEF x, p
    <3> QED
      BY <2>3, <3>2, <3>3, <3>4, <3>5 DEF XrayDesktop
  <2>4. CASE ~ Desktop
    <3>1. PICK i \in DOMAIN stored.configs :
             /\ PrepareAndroid(stored.configs[i], settings) # None
             /\ config = Unproxied("xray", PrepareAndroid(stored.configs[i], settings),
                                   stored.configs[i])
      BY <1>5, <2>4 DEF XrayPrepared
    <3>2. config.from = stored.configs[i] /\ config.http = 0
          /\ config.value = PrepareAndroid(stored.configs[i], settings)
      BY <3>1 DEF Unproxied
    <3>3. IsXray(stored.configs[i])
      BY <2>2
    <3> QED
      BY <2>4, <3>1, <3>2, <3>3, NotNone DEF XrayPhone, Merged
  <2> QED
    BY <2>3, <2>4
<1> QED
  BY <1>2, <1>3, <1>4, <1>5

-----------------------------------------------------------------------------
(* The user's rules in it.                                                 *)

\* The fields of an outbound.
OutboundKeys == {"tag", "protocol", "dialer", "legacy"}

\* What routing is merged into: the provider's, or that with listeners.
Based(q, p) ==
  /\ DOMAIN q = {"inbounds", "outbounds", "balancers", "api", "rules"}
  /\ q.outbounds = p.outbounds /\ q.balancers = p.balancers /\ q.rules = p.rules

\* The outbounds after the merge, with a blackhole where one is needed.
Outs(q, s) ==
  IF NeedsBlock(s, q) THEN Append(q.outbounds, Outbound(BlockTag, "blackhole")) ELSE q.outbounds

\* The parts of what merge_routing returns.
LEMMA RoutingMerged ==
  ASSUME NEW q, NEW p, IsXray(p), Based(q, p), NEW s, MergeRouting(q, s) # None
  PROVE  LET m == MergeRouting(q, s) IN
         /\ DOMAIN m = {"inbounds", "outbounds", "balancers", "api", "rules"}
         /\ m.inbounds = q.inbounds /\ m.balancers = p.balancers
         /\ m.rules = TranslatedRules(s, q) \o p.rules
         /\ m.outbounds = Outs(q, s)
         /\ NoTag \notin Tags(p.outbounds)
         /\ NeedsBlock(s, q) => BlockTag \notin Tags(p.outbounds)
<1> DEFINE os == Outs(q, s)
           rs == TranslatedRules(s, q) \o q.rules
<1>1. /\ Tagged(q.outbounds) /\ ~ (NeedsBlock(s, q) /\ BlockTag \in Tags(q.outbounds))
      /\ MergeRouting(q, s) = [q EXCEPT !.outbounds = os, !.rules = rs]
  BY DEF MergeRouting, Outs
<1> HIDE DEF os, rs
<1> DEFINE m == MergeRouting(q, s)
<1>2. /\ DOMAIN m = {"inbounds", "outbounds", "balancers", "api", "rules"}
      /\ m.inbounds = q.inbounds /\ m.balancers = p.balancers /\ m.rules = rs /\ m.outbounds = os
  BY <1>1 DEF Based
<1>3. q.rules = p.rules /\ q.outbounds = p.outbounds
  BY DEF Based
<1> QED
  BY <1>1, <1>2, <1>3 DEF os, rs, Tagged

\* The outbounds are the provider's and that blackhole.
LEMMA OutsAre ==
  ASSUME NEW q, NEW p, IsXray(p), Based(q, p), NEW s
  PROVE  /\ IsList(Outs(q, s))
         /\ Range(Outs(q, s)) = Range(p.outbounds) \cup
               (IF NeedsBlock(s, q) THEN {Outbound(BlockTag, "blackhole")} ELSE {})
         /\ \A o \in Range(Outs(q, s)) : DOMAIN o = OutboundKeys
<1> DEFINE b == Outbound(BlockTag, "blackhole")
           a == Append(p.outbounds, b)
<1>1. IsList(p.outbounds) /\ q.outbounds = p.outbounds
      /\ \A o \in Range(p.outbounds) : DOMAIN o = OutboundKeys
  BY DEF IsXray, Based, OutboundKeys
<1>2. DOMAIN b = OutboundKeys
  BY DEF Outbound, OutboundKeys
<1> HIDE DEF b
<1>3. IsList(a) /\ Range(a) = Range(p.outbounds) \cup {b}
  <2>1. IsList(<<b>>) /\ Range(<<b>>) = {b}
    BY OneIs
  <2>2. a = p.outbounds \o <<b>>
    BY <1>1, AppendIsConcat DEF IsList
  <2> DEFINE one == <<b>>
  <2> HIDE DEF one
  <2>3. IsList(one) /\ Range(one) = {b} /\ a = p.outbounds \o one
    BY <2>1, <2>2 DEF one
  <2>4. Joined(p.outbounds \o one, p.outbounds, one)
    BY <1>1, <2>3, ConcatIs
  <2> QED
    BY <1>1, <2>3, <2>4, ConcatRange DEF Joined
<1> HIDE DEF a
<1>4. CASE NeedsBlock(s, q)
  <2>1. Outs(q, s) = a
    BY <1>1, <1>4 DEF Outs, a, b
  <2> QED
    BY <1>1, <1>2, <1>3, <1>4, <2>1 DEF b
<1>5. CASE ~ NeedsBlock(s, q)
  BY <1>1, <1>5 DEF Outs
<1> QED
  BY <1>4, <1>5

\* What both ways of preparing have in common.
MergedXray(v, p, s, q) ==
  /\ Based(q, p) /\ v.balancers = p.balancers /\ IsList(v.outbounds)
  /\ v.rules = TranslatedRules(s, q) \o p.rules
  /\ \A o \in Range(Outs(q, s)) :
        \E u \in Range(v.outbounds) : u.tag = o.tag /\ u.protocol = o.protocol
  /\ \A u \in Range(v.outbounds) :
        u = ProtectedOutbound
        \/ \E o \in Range(Outs(q, s)) :
              /\ u.tag = o.tag /\ u.protocol = o.protocol
              /\ {u.dialer, u.legacy} \subseteq
                    {o.dialer, o.legacy} \cup (TagsOf(v.outbounds) \cap {Protected})

\* ensure_managed_http_inbound touches the listeners alone.
LEMMA InboundsEnsured ==
  ASSUME NEW p, IsXray(p), NEW socks, NEW http
  PROVE  Based(EnsureInbounds(p, socks, http), p)
BY DEF Based, EnsureInbounds, IsXray

\* chain_to_protected touches the chain alone.
LEMMA ChainedIs ==
  ASSUME NEW o, DOMAIN o = OutboundKeys
  PROVE  /\ DOMAIN Chained(o) = OutboundKeys
         /\ Chained(o).tag = o.tag /\ Chained(o).protocol = o.protocol
         /\ {Chained(o).dialer, Chained(o).legacy} \subseteq {Protected, o.dialer, o.legacy}
BY DEF Chained, Chain, OutboundKeys

\* Both ways of preparing leave the merged rules and outbounds.
LEMMA DesktopIs ==
  ASSUME XrayDesktop
  PROVE  \E q : MergedXray(config.value, config.from, settings, q)
<1> DEFINE p == config.from
<1>1. PICK socks, http \in Ports :
         LET x == PrepareDesktop(p, settings, socks, http) IN x # None /\ config.value = x.config
  BY DEF XrayDesktop
<1> DEFINE q == EnsureInbounds(p, socks, http)
           m == MergeRouting(q, settings)
<1>2. m # None /\ config.value = [m EXCEPT !.api = Loopback]
  BY <1>1 DEF PrepareDesktop
<1>3. IsXray(p) /\ Based(q, p)
  BY InboundsEnsured DEF XrayDesktop
<1> HIDE DEF q
<1>4. /\ DOMAIN m = {"inbounds", "outbounds", "balancers", "api", "rules"}
      /\ m.balancers = p.balancers /\ m.rules = TranslatedRules(settings, q) \o p.rules
      /\ m.outbounds = Outs(q, settings)
  BY <1>2, <1>3, RoutingMerged
<1> HIDE DEF m
<1>5. /\ config.value.balancers = p.balancers
      /\ config.value.rules = TranslatedRules(settings, q) \o p.rules
      /\ config.value.outbounds = Outs(q, settings)
  <2> DEFINE rs == TranslatedRules(settings, q) \o p.rules
             os == Outs(q, settings)
  <2>1. m.rules = rs /\ m.outbounds = os
    BY <1>4
  <2> HIDE DEF rs, os
  <2>2. config.value.balancers = p.balancers /\ config.value.rules = rs /\ config.value.outbounds = os
    BY <1>2, <1>4, <2>1
  <2> QED
    BY <2>2 DEF rs, os
<1>6. IsList(config.value.outbounds)
  BY <1>3, <1>5, OutsAre
<1>7. MergedXray(config.value, p, settings, q)
  BY <1>3, <1>5, <1>6 DEF MergedXray
<1> QED
  BY <1>7

\* On the phone the outbounds are chained, the protected one is among them,
\* and the first stays the first.
LEMMA PhoneIs ==
  ASSUME XrayPhone
  PROVE  /\ MergedXray(config.value, config.from, settings, config.from)
         /\ Range(config.value.outbounds) =
               {Chained(o) : o \in Range(Outs(config.from, settings))}
               \cup (IF Protected \in Tags(Outs(config.from, settings)) THEN {}
                     ELSE {ProtectedOutbound})
         /\ Outs(config.from, settings) # <<>>
         /\ config.value.outbounds[1] = Chained(Outs(config.from, settings)[1])
         /\ NoTag \notin Tags(config.from.outbounds)
<1> DEFINE p == config.from
           m == MergeRouting(p, settings)
           os == Outs(p, settings)
           ch == [i \in DOMAIN os |-> Chained(os[i])]
           last == IF Protected \in Tags(os) THEN <<>> ELSE <<ProtectedOutbound>>
           rs == TranslatedRules(settings, p) \o p.rules
<1>1. IsXray(p) /\ Based(p, p)
  BY DEF XrayPhone, IsXray, Based
<1>2. m # None /\ m.outbounds # <<>> /\ config.value = NormalizeBundle(m)
  BY DEF XrayPhone, PrepareAndroid, NormalizeBundle
<1>3. /\ DOMAIN m = {"inbounds", "outbounds", "balancers", "api", "rules"}
      /\ m.balancers = p.balancers /\ m.rules = rs /\ m.outbounds = os
      /\ NoTag \notin Tags(p.outbounds)
  <2>1. m # None
    BY <1>2
  <2> HIDE DEF p
  <2> QED
    BY <1>1, <2>1, RoutingMerged
<1>4. /\ IsList(os) /\ \A o \in Range(os) : DOMAIN o = OutboundKeys
  BY <1>1, OutsAre
<1>5. os # <<>>
  BY <1>2, <1>3
<1> HIDE DEF os, rs
<1>6. config.value = [m EXCEPT !.outbounds = ch \o last]
  BY <1>2, <1>3 DEF NormalizeBundle
<1> DEFINE both == ch \o last
<1> HIDE DEF m, both
<1>7. /\ config.value.balancers = p.balancers /\ config.value.rules = rs
      /\ config.value.outbounds = both
  BY <1>3, <1>6 DEF both
<1>8. /\ Len(os) \in Nat /\ DOMAIN os = 1 .. Len(os) /\ 1 \in DOMAIN os
  <2>1. os \in Seq(Range(os))
    BY <1>4 DEF IsList
  <2>2. Len(os) \in Nat /\ DOMAIN os = 1 .. Len(os)
    BY <1>4, ListIs
  <2>3. Len(os) # 0
    BY <1>5, <2>1, EmptySeq
  <2> QED
    BY <2>2, <2>3
<1>9. IsList(ch) /\ Len(ch) = Len(os) /\ DOMAIN ch = 1 .. Len(os)
      /\ \A i \in 1 .. Len(os) : ch[i] = Chained(os[i])
  <2>1. ch = [i \in 1 .. Len(os) |-> ch[i]] /\ \A i \in 1 .. Len(os) : ch[i] = Chained(os[i])
    BY <1>8
  <2> HIDE DEF ch
  <2> QED
    BY <1>8, <2>1, IsAList
<1>10. IsList(last) /\ Range(last) = IF Protected \in Tags(os) THEN {} ELSE {ProtectedOutbound}
  <2>1. Range(<<>>) = {}
    BY DEF Range
  <2> QED
    BY <2>1, NoneIs, OneIs
<1> HIDE DEF ch, last
<1>11. Range(ch) = {Chained(o) : o \in Range(os)}
  BY <1>8, <1>9 DEF Range
<1>12. IsList(both) /\ Range(both) = Range(ch) \cup Range(last) /\ both[1] = ch[1]
  <2>1. Joined(both, ch, last)
    BY <1>9, <1>10, ConcatIs DEF both
  <2>2. Range(both) = Range(ch) \cup Range(last)
    BY <1>9, <1>10, ConcatRange DEF both
  <2>3. 1 \in 1 .. Len(ch)
    BY <1>8, <1>9
  <2> QED
    BY <2>1, <2>2, <2>3 DEF Joined
<1>13. both[1] = Chained(os[1])
  BY <1>8, <1>9, <1>12
<1>14. ASSUME NEW o \in Range(os)
       PROVE  \E u \in Range(both) : u.tag = o.tag /\ u.protocol = o.protocol
  <2>1. Chained(o) \in Range(both) /\ Chained(o).tag = o.tag /\ Chained(o).protocol = o.protocol
    BY <1>4, <1>11, <1>12, ChainedIs
  <2> QED
    BY <2>1
<1>15. ASSUME NEW u \in Range(both)
       PROVE  u = ProtectedOutbound
              \/ \E o \in Range(os) :
                    /\ u.tag = o.tag /\ u.protocol = o.protocol
                    /\ {u.dialer, u.legacy} \subseteq {Protected, o.dialer, o.legacy}
  <2>1. u \in Range(last) \/ \E o \in Range(os) : u = Chained(o)
    BY <1>11, <1>12
  <2>2. u \in Range(last) => u = ProtectedOutbound
    BY <1>10
  <2>3. ASSUME NEW o \in Range(os), u = Chained(o)
        PROVE  /\ u.tag = o.tag /\ u.protocol = o.protocol
               /\ {u.dialer, u.legacy} \subseteq {Protected, o.dialer, o.legacy}
    BY <1>4, <2>3, ChainedIs
  <2> QED
    BY <2>1, <2>2, <2>3
<1>16. Protected \in TagsOf(both)
  <2>1. CASE Protected \in Tags(os)
    <3>1. PICK o \in Range(os) : o.tag = Protected
      BY <2>1 DEF Tags
    <3>2. PICK u \in Range(both) : u.tag = o.tag
      BY <1>14
    <3> QED
      BY <3>1, <3>2 DEF TagsOf
  <2>2. CASE Protected \notin Tags(os)
    <3>1. ProtectedOutbound \in Range(both)
      BY <2>2, <1>10, <1>12
    <3>2. ProtectedOutbound.tag = Protected
      BY DEF ProtectedOutbound, Outbound
    <3> QED
      BY <3>1, <3>2 DEF TagsOf
  <2> QED
    BY <2>1, <2>2
<1>17. MergedXray(config.value, p, settings, p)
  <2>1. ASSUME NEW u \in Range(both)
        PROVE  u = ProtectedOutbound
               \/ \E o \in Range(os) :
                     /\ u.tag = o.tag /\ u.protocol = o.protocol
                     /\ {u.dialer, u.legacy} \subseteq
                           {o.dialer, o.legacy} \cup (TagsOf(both) \cap {Protected})
    BY <1>15, <1>16
  <2> QED
    BY <1>1, <1>7, <1>12, <1>14, <2>1 DEF MergedXray, os, rs
<1> QED
  BY <1>3, <1>5, <1>7, <1>10, <1>11, <1>12, <1>13, <1>17 DEF os

-----------------------------------------------------------------------------
(* The user's rules in an Xray configuration.                              *)

\* The enabled rules are some of the user's.
LEMMA EnabledAre ==
  ASSUME NEW s, IsList(s.rules), NEW q
  PROVE  /\ IsList(EnabledRules(s)) /\ Applied(s, q) \in SUBSET (DOMAIN EnabledRules(s))
         /\ \A i \in DOMAIN EnabledRules(s) : EnabledRules(s)[i] \in Range(s.rules)
<1> DEFINE S == {i \in DOMAIN s.rules : IsEnabled(s.rules[i])}
<1>1. S \in SUBSET (DOMAIN s.rules) /\ EnabledRules(s) = At(s.rules, S)
  BY DEF EnabledRules
<1> HIDE DEF S
<1>2. /\ IsList(At(s.rules, S)) /\ DOMAIN At(s.rules, S) = 1 .. Cardinality(S)
      /\ InOrder(S) \in [1 .. Cardinality(S) -> S]
      /\ \A k \in 1 .. Cardinality(S) : At(s.rules, S)[k] = s.rules[InOrder(S)[k]]
  BY <1>1, AtIs
<1>3. \A k \in 1 .. Cardinality(S) : At(s.rules, S)[k] \in Range(s.rules)
  BY <1>1, <1>2 DEF Range
<1> QED
  BY <1>1, <1>2, <1>3 DEF Applied

\* Each of them is one that was enabled and that Xray can run.
LEMMA TranslatedAre ==
  ASSUME NEW s, IsList(s.rules), NEW q
  PROVE  /\ IsList(TranslatedRules(s, q))
         /\ \A k \in DOMAIN TranslatedRules(s, q) : \E i \in Applied(s, q) :
               TranslatedRules(s, q)[k] = Translate(EnabledRules(s)[i], q)
<1> DEFINE rules == EnabledRules(s)
           S == Applied(s, q)
           n == Cardinality(S)
           applied == At(rules, S)
           t == TranslatedRules(s, q)
<1>1. IsList(rules) /\ S \in SUBSET (DOMAIN rules)
  BY EnabledAre
<1>2. t = [i \in DOMAIN applied |-> Translate(applied[i], q)]
  BY DEF TranslatedRules
<1> HIDE DEF rules, S, t
<1>3. /\ DOMAIN applied = 1 .. n /\ n \in Nat /\ InOrder(S) \in [1 .. n -> S]
      /\ \A k \in 1 .. n : applied[k] = rules[InOrder(S)[k]]
  BY <1>1, AtIs
<1> HIDE DEF applied, n
<1>4. t = [i \in 1 .. n |-> t[i]] /\ \A i \in 1 .. n : t[i] = Translate(rules[InOrder(S)[i]], q)
  BY <1>2, <1>3
<1>5. IsList(t) /\ DOMAIN t = 1 .. n
  BY <1>3, <1>4, IsAList
<1>6. \A k \in DOMAIN t : \E i \in S : t[k] = Translate(rules[i], q)
  BY <1>3, <1>4, <1>5
<1> QED
  BY <1>5, <1>6 DEF rules, S, t

\* What the translation matches, the rule matches.
LEMMA TranslatedMatches ==
  ASSUME NEW rule, Translatable(rule), NEW c, MatchesAll(TranslatedMatch(rule.match), c)
  PROVE  Matches(Stripped(rule.match), c)
<1> DEFINE m == rule.match
           t == TranslatedMatch(m)
           s == Stripped(m)
           Name(k) == IF k = "range" THEN "port" ELSE k
<1>1. /\ DOMAIN m \subseteq Fields /\ \A k \in DOMAIN m : m[k] # {}
  BY DEF Translatable
<1>2. DOMAIN s = DOMAIN m /\ \A k \in DOMAIN m : s[k] = m[k]
  BY <1>1 DEF Stripped
<1>3. /\ DOMAIN t = {Name(k) : k \in DOMAIN m}
      /\ \A f \in DOMAIN t : t[f] = IF f = "port" /\ "range" \in DOMAIN m THEN m.range ELSE m[f]
  <2>1. DOMAIN m \cap Fields = DOMAIN m
    BY <1>1
  <2> QED
    BY <2>1 DEF TranslatedMatch
<1>4. \A f \in DOMAIN t : Holds(f, t[f], c)
  BY DEF MatchesAll
<1> HIDE DEF s, t
<1>5. ASSUME NEW key \in DOMAIN m
      PROVE  \E same \in DOMAIN m : Group(same) = Group(key) /\ Holds(same, m[same], c)
  <2>1. key \in {"site", "ip", "port", "range"}
    BY <1>1 DEF Fields
  <2>2. Name(key) \in DOMAIN t
    BY <1>3
  <2>3. Holds(Name(key), t[Name(key)], c)
    BY <1>4, <2>2
  <2>4. CASE key \in {"port", "range"} /\ "range" \in DOMAIN m
    <3>1. Name(key) = "port" /\ t["port"] = m["range"]
      BY <1>3, <2>2, <2>4
    <3>2. Holds("port", m["range"], c)
      BY <2>3, <3>1
    <3>3. Holds("range", m["range"], c)
      BY <3>2 DEF Holds
    <3>4. Group("range") = Group(key)
      BY <2>4 DEF Group
    <3> QED
      BY <2>4, <3>3, <3>4
  <2>5. CASE ~ (key \in {"port", "range"} /\ "range" \in DOMAIN m)
    <3>1. Name(key) = key /\ t[key] = m[key]
      BY <1>3, <2>1, <2>2, <2>5
    <3>2. Holds(key, m[key], c)
      BY <2>3, <3>1
    <3> QED
      BY <3>2
  <2> QED
    BY <2>4, <2>5
<1> QED
  BY <1>2, <1>5 DEF Matches, s

\* A rejected connection ends in a blackhole.
LEMMA BlockIs ==
  ASSUME NEW q, NEW p, IsXray(p), Based(q, p), NEW s, NEW i \in Applied(s, q),
         EnabledRules(s)[i].kind = "reject"
  PROVE  \E o \in Range(Outs(q, s)) : o.tag = BlockTarget(q) /\ o.protocol = "blackhole"
<1>1. /\ q.outbounds = p.outbounds
      /\ Range(Outs(q, s)) = Range(p.outbounds) \cup
            (IF NeedsBlock(s, q) THEN {Outbound(BlockTag, "blackhole")} ELSE {})
  BY OutsAre DEF Based
<1>2. CASE Blackholes(q) # {}
  <2>1. DOMAIN p.outbounds = 1 .. Len(p.outbounds) /\ Len(p.outbounds) \in Nat
    BY ListIs DEF IsXray
  <2>2. Blackholes(q) \in SUBSET (DOMAIN p.outbounds)
    BY <1>1 DEF Blackholes
  <2>3. Blackholes(q) \in SUBSET Nat
    BY <2>1, <2>2
  <2>4. Min(Blackholes(q)) \in Blackholes(q)
    BY <1>2, <2>3, Least
  <2> DEFINE k == Min(Blackholes(q))
  <2>5. k \in DOMAIN p.outbounds /\ p.outbounds[k].protocol = "blackhole"
    BY <1>1, <2>4 DEF Blackholes
  <2>6. BlockTarget(q) = p.outbounds[k].tag
    BY <1>1, <1>2 DEF BlockTarget
  <2> HIDE DEF k
  <2>7. p.outbounds[k] \in Range(p.outbounds)
    BY <2>5 DEF Range
  <2> QED
    BY <1>1, <2>5, <2>6, <2>7
<1>3. CASE Blackholes(q) = {}
  <2>1. NeedsBlock(s, q) /\ BlockTarget(q) = BlockTag
    BY <1>3 DEF NeedsBlock, BlockTarget
  <2> DEFINE b == Outbound(BlockTag, "blackhole")
  <2>2. b.tag = BlockTag /\ b.protocol = "blackhole"
    BY DEF Outbound
  <2>3. b \in Range(Outs(q, s))
    BY <1>1, <2>1
  <2> HIDE DEF b
  <2> QED
    BY <2>1, <2>2, <2>3
<1> QED
  BY <1>2, <1>3

\* Every merged Xray configuration is one of the two.
LEMMA MergedXrayIs ==
  ASSUME IInv, Running("xray"), Merged
  PROVE  IsXray(config.from) /\ \E q : MergedXray(config.value, config.from, settings, q)
<1>1. XrayDesktop \/ XrayPhone
  BY ForXray DEF XrayLinks
<1>2. IsXray(config.from)
  BY <1>1 DEF XrayDesktop, XrayPhone
<1>3. \E q : MergedXray(config.value, config.from, settings, q)
  BY <1>1, DesktopIs, PhoneIs
<1> QED
  BY <1>2, <1>3

\* The invariant implies the property.
LEMMA Widens == IInv => NothingWidened
<1> SUFFICES ASSUME IInv, Running("xray"), Merged PROVE NothingWidened
  BY DEF NothingWidened
<1> DEFINE s == settings
           p == config.from
           v == config.value
           given == Ours(v.rules, p.rules)
           rules == EnabledRules(s)
           meant == [i \in DOMAIN rules |->
                        [match |-> Stripped(rules[i].match), kind |-> rules[i].kind,
                         to |-> rules[i].to]]
           Gets(to) == IF \E o \in Range(v.outbounds) : o.tag = to /\ o.protocol = "blackhole"
                       THEN "reject" ELSE to
<1>1. PICK q : MergedXray(v, p, s, q)
  BY MergedXrayIs
<1>2. IsXray(p) /\ IsList(p.rules) /\ Based(q, p)
  BY <1>1, MergedXrayIs DEF IsXray, MergedXray
<1>3. /\ v.rules = TranslatedRules(s, q) \o p.rules
      /\ \A o \in Range(Outs(q, s)) :
           \E u \in Range(v.outbounds) : u.tag = o.tag /\ u.protocol = o.protocol
  BY <1>1 DEF MergedXray
<1>4. /\ IsList(TranslatedRules(s, q))
      /\ \A k \in DOMAIN TranslatedRules(s, q) : \E i \in Applied(s, q) :
            TranslatedRules(s, q)[k] = Translate(EnabledRules(s)[i], q)
  BY SettingsAre, TranslatedAre
<1>5. given = TranslatedRules(s, q)
  BY <1>2, <1>3, <1>4, OursIs
<1> HIDE DEF given
<1>6. ASSUME NEW k \in DOMAIN given
      PROVE  \E i \in DOMAIN meant :
                /\ \A c \in Traffic : MatchesAll(given[k].match, c) => Matches(meant[i].match, c)
                /\ Gets(given[k].to) = IF meant[i].kind = "reject" THEN "reject"
                                       ELSE Gets(meant[i].to)
  <2>1. PICK i \in Applied(s, q) : given[k] = Translate(rules[i], q)
    BY <1>4, <1>5
  <2>2. i \in DOMAIN rules /\ Translatable(rules[i])
    BY DEF Applied, Applies
  <2>3. /\ i \in DOMAIN meant /\ meant[i].match = Stripped(rules[i].match)
        /\ meant[i].kind = rules[i].kind /\ meant[i].to = rules[i].to
    BY <2>2
  <2>4. /\ given[k].match = TranslatedMatch(rules[i].match)
        /\ given[k].to = IF rules[i].kind = "reject" THEN BlockTarget(q) ELSE rules[i].to
    BY <2>1 DEF Translate
  <2> HIDE DEF meant
  <2>5. ASSUME NEW c \in Traffic, MatchesAll(given[k].match, c) PROVE Matches(meant[i].match, c)
    BY <2>2, <2>3, <2>4, <2>5, TranslatedMatches
  <2>6. CASE rules[i].kind = "reject"
    <3>1. PICK o \in Range(Outs(q, s)) : o.tag = BlockTarget(q) /\ o.protocol = "blackhole"
      BY <1>2, <2>6, BlockIs
    <3>2. \E u \in Range(v.outbounds) : u.tag = BlockTarget(q) /\ u.protocol = "blackhole"
      BY <1>3, <3>1
    <3> QED
      BY <2>3, <2>4, <2>5, <2>6, <3>2
  <2>7. CASE rules[i].kind # "reject"
    BY <2>3, <2>4, <2>5, <2>7
  <2> QED
    BY <2>6, <2>7
<1> QED
  BY <1>6 DEF NothingWidened, given

\* A rule that Xray is given means no more than the user's (translate_rule,
\* merge_routing).
THEOREM NothingWidens == Spec => []NothingWidened
BY Invariance, Widens, PTL

-----------------------------------------------------------------------------
(* The names in what the program builds.                                   *)

\* The outbounds that the program's route rules name.
LEMMA RouteTargets ==
  ASSUME NEW s, IsList(s.rules)
  PROVE  \A r \in Range(BuildRoute(s)) :
            r.to \in {NoTag, "direct", "proxy"} \cup {u.to : u \in Range(s.rules)}
<1> DEFINE T == {NoTag, "direct", "proxy"} \cup {u.to : u \in Range(s.rules)}
           f == Opening(s)
           d == AppRule(s.direct, "direct")
           v == AppRule(s.vpn, "proxy")
           u == CustomRules(s)
           fd == f \o d
           fdv == fd \o v
<1>1. IsList(f) /\ \A x \in Range(f) : x.to \in T
  <2>1. Hijack.to = NoTag /\ LanBypass.to = "direct" /\ SniffRule.to = NoTag
    BY DEF Hijack, LanBypass, SniffRule
  <2>2. /\ IsList(f) /\ DOMAIN f = 1 .. Len(f)
        /\ \A i \in 1 .. Len(f) : f[i] \in {Hijack, LanBypass, SniffRule}
    BY OpeningIs, ListIs
  <2> HIDE DEF f
  <2>3. \A x \in Range(f) : x \in {Hijack, LanBypass, SniffRule}
    BY <2>2 DEF Range
  <2> QED
    BY <2>1, <2>2, <2>3
<1>2. ASSUME NEW list, NEW to \in {"direct", "proxy"}
      PROVE  IsList(AppRule(list, to)) /\ \A x \in Range(AppRule(list, to)) : x.to \in T
  <2> DEFINE a == AppRule(list, to)
  <2>1. /\ IsList(a) /\ DOMAIN a = 1 .. Len(a)
        /\ \A i \in 1 .. Len(a) : a[i] = AppList(Names(list), to)
    BY AppRuleIs, ListIs
  <2>2. AppList(Names(list), to).to = to
    BY DEF AppList
  <2> HIDE DEF a
  <2>3. \A x \in Range(a) : x = AppList(Names(list), to)
    BY <2>1 DEF Range
  <2> QED
    BY <2>1, <2>2, <2>3 DEF a
<1>3. IsList(u) /\ \A x \in Range(u) : x.to \in T
  <2> DEFINE rules == [i \in DOMAIN s.rules |-> Normalized(s.rules[i])]
             S == {i \in DOMAIN rules : IsEnabled(s.rules[i]) /\ Meaningful(rules[i])}
  <2>1. Len(s.rules) \in Nat /\ DOMAIN s.rules = 1 .. Len(s.rules)
    BY ListIs
  <2>2. rules = [i \in 1 .. Len(s.rules) |-> rules[i]]
        /\ \A i \in DOMAIN s.rules : rules[i] = Normalized(s.rules[i])
    BY <2>1
  <2>3. S \in SUBSET (DOMAIN rules)
    OBVIOUS
  <2>4. u = At(rules, S)
    BY DEF CustomRules
  <2> HIDE DEF rules, S, u
  <2>5. IsList(rules) /\ DOMAIN rules = DOMAIN s.rules
    BY <2>1, <2>2, IsAList
  <2>6. /\ IsList(u) /\ DOMAIN u = 1 .. Cardinality(S)
        /\ InOrder(S) \in [1 .. Cardinality(S) -> S]
        /\ \A k \in 1 .. Cardinality(S) : u[k] = rules[InOrder(S)[k]]
    BY <2>3, <2>4, <2>5, AtIs
  <2>7. ASSUME NEW x \in Range(u) PROVE x.to \in T
    <3>1. PICK k \in 1 .. Cardinality(S) : x = u[k]
      BY <2>6 DEF Range
    <3>2. PICK i \in DOMAIN s.rules : x = Normalized(s.rules[i])
      BY <2>2, <2>3, <2>5, <2>6, <3>1
    <3>3. x.to = s.rules[i].to /\ s.rules[i] \in Range(s.rules)
      BY <3>2 DEF Normalized, Range
    <3> QED
      BY <3>3
  <2> QED
    BY <2>6, <2>7
<1>4. IsList(d) /\ IsList(v) /\ (\A x \in Range(d) : x.to \in T) /\ \A x \in Range(v) : x.to \in T
  BY <1>2
<1> HIDE DEF f, d, v, u
<1>5. IsList(fd) /\ Range(fd) = Range(f) \cup Range(d)
  <2>1. Joined(f \o d, f, d)
    BY <1>1, <1>4, ConcatIs
  <2> QED
    BY <2>1, <1>1, <1>4, ConcatRange DEF Joined
<1> HIDE DEF fd
<1>6. IsList(fdv) /\ Range(fdv) = Range(fd) \cup Range(v)
  <2>1. Joined(fd \o v, fd, v)
    BY <1>4, <1>5, ConcatIs
  <2> QED
    BY <2>1, <1>4, <1>5, ConcatRange DEF Joined
<1> HIDE DEF fdv
<1>7. Range(fdv \o u) = Range(fdv) \cup Range(u)
  BY <1>3, <1>6, ConcatRange
<1>8. BuildRoute(s) = fdv \o u
  BY DEF BuildRoute, Opening, f, d, v, u, fd, fdv
<1> HIDE DEF T
<1> QED
  BY <1>1, <1>3, <1>4, <1>5, <1>6, <1>7, <1>8 DEF T

\* The servers that the rules for DNS name.
LEMMA DnsTargets ==
  ASSUME NEW r, IsList(r), NEW local, NEW remote, NEW asked
  PROVE  /\ IsList(WindowsDnsRules(r, local, remote, asked))
         /\ \A x \in Range(WindowsDnsRules(r, local, remote, asked)) : x.to \in {NoTag, local, remote}
<1> DEFINE T == {NoTag, local, remote}
           P == ProjectedRules(r, local, remote)
           S == SharedRule(asked, local)
           B == BarrierRule(r, remote)
           PS == P \o S
<1>1. IsList(P) /\ \A x \in Range(P) : x.to \in T
  <2>1. IsList(P)
    BY ProjectedSay
  <2>2. \A rule : DnsRule(rule, local, remote).to \in T
    BY DEF DnsRule
  <2>3. \A x \in Range(P) : \E rule : x = DnsRule(rule, local, remote)
    BY DEF ProjectedRules, Range
  <2> QED
    BY <2>1, <2>2, <2>3
<1>2. IsList(S) /\ \A x \in Range(S) : x.to \in T
  <2> DEFINE rule == [match |-> [app |-> {Shared}], verb |-> "route", to |-> local]
  <2>1. rule.to = local
    OBVIOUS
  <2>2. S = <<>> \/ S = <<rule>>
    BY DEF SharedRule
  <2> HIDE DEF rule
  <2>3. Range(<<>>) = {}
    BY DEF Range
  <2> QED
    BY <2>1, <2>2, <2>3, NoneIs, OneIs
<1>3. IsList(B) /\ \A x \in Range(B) : x.to \in T
  <2>1. CatchAll(remote).to = remote
    BY DEF CatchAll
  <2>2. B = <<>> \/ B = <<CatchAll(remote)>>
    BY DEF BarrierRule
  <2>3. Range(<<>>) = {}
    BY DEF Range
  <2> QED
    BY <2>1, <2>2, <2>3, NoneIs, OneIs
<1>4. WindowsDnsRules(r, local, remote, asked) = PS \o B
  BY DEF WindowsDnsRules
<1> HIDE DEF P, S, B, T
<1>5. IsList(PS) /\ Range(PS) = Range(P) \cup Range(S)
  <2>1. Joined(P \o S, P, S)
    BY <1>1, <1>2, ConcatIs
  <2> QED
    BY <2>1, <1>1, <1>2, ConcatRange DEF Joined
<1> HIDE DEF PS
<1>6. IsList(PS \o B) /\ Range(PS \o B) = Range(PS) \cup Range(B)
  <2>1. Joined(PS \o B, PS, B)
    BY <1>3, <1>5, ConcatIs
  <2> QED
    BY <2>1, <1>3, <1>5, ConcatRange DEF Joined
<1> QED
  BY <1>1, <1>2, <1>3, <1>4, <1>5, <1>6 DEF T

\* Every name the program puts in what it builds has a definition.
LEMMA BuiltNames ==
  ASSUME IInv, SingboxBuilt, config.engine = "singbox"
  PROVE  /\ Loose(config.value) \subseteq LeftLoose
         /\ Asked(config.value) \subseteq Answering(config.value)
<1> DEFINE s == settings
           r == BuildRoute(s)
           v == config.value
           tags == LinkTags
           outs == Groups(tags, s.pick) \o [i \in DOMAIN tags |-> Node(tags[i])]
           dns == BuildDns(s, Windows)
           asked == Names(s.direct) # {}
           a == LocalServer("local")
           b == RemoteServer(s, "remote", "proxy", "local")
           W == WindowsDnsRules(r, "local", "remote", asked)
           rules == IF Windows THEN W ELSE <<>>
           last == IF Windows /\ s.final = "direct" THEN "local" ELSE "remote"
<1>0. IsList(s.rules) /\ IsList(tags) /\ IsList(r)
  BY SettingsAre, LinkTagsAre, RouteIs DEF SingboxBuilt
<1>1. ~ Merged /\ v = Build(tags, s.pick, s, Windows)
  BY DEF SingboxBuilt
<1>00. stored.kind = "links"
  BY DEF SingboxBuilt
<1> HIDE DEF tags
<1>2. v = [outbounds |-> outs, rules |-> r, final |-> s.final, resolver |-> "local", dns |-> dns]
  BY <1>1 DEF Build
<1>3. dns = [servers |-> <<a, b>>, rules |-> rules, final |-> last]
  BY DEF BuildDns
<1>4. /\ TagsOf(outs) = {"proxy", "direct", "block"} \cup Range(tags)
                           \cup (IF tags = <<>> THEN {} ELSE {"auto"})
      /\ \A o \in Range(outs) :
            Range(o.members) \cup {o.default} \subseteq {NoTag, "direct", "auto"} \cup Range(tags)
  BY <1>0, BuiltOutbounds
<1>5. \A x \in Range(r) : x.to \in {NoTag, "direct", "proxy"} \cup {u.to : u \in Range(s.rules)}
  BY <1>0, RouteTargets
<1> HIDE DEF asked
<1>6. \A x \in Range(rules) : x.to \in {NoTag, "local", "remote"}
  <2>1. Range(<<>>) = {}
    BY DEF Range
  <2>2. \A x \in Range(W) : x.to \in {NoTag, "local", "remote"}
    <3> HIDE DEF r
    <3> QED
      BY <1>0, DnsTargets
  <2> HIDE DEF W
  <2> QED
    BY <2>1, <2>2
<1>7. /\ a.tag = "local" /\ a.detour = NoTag /\ b.tag = "remote" /\ b.detour = "proxy"
      /\ a.resolver = NoTag /\ b.resolver \in {NoTag, "local"}
      /\ Range(<<a, b>>) = {a, b}
  <2>1. /\ a.tag = "local" /\ a.detour = NoTag /\ b.tag = "remote" /\ b.detour = "proxy"
        /\ a.resolver = NoTag /\ b.resolver \in {NoTag, "local"}
    BY DEF LocalServer, RemoteServer
  <2> HIDE DEF a, b
  <2>2. Range(<<a, b>>) = {a, b}
    BY DEF Range
  <2> QED
    BY <2>1, <2>2
<1>8. last \in {"local", "remote"}
  OBVIOUS
<1> DEFINE servers == <<a, b>>
<1> HIDE DEF outs, r, dns, a, b, W, rules, last, servers
<1>9. /\ v.outbounds = outs /\ v.rules = r /\ v.final = s.final /\ v.resolver = "local"
      /\ v.dns = dns
  BY <1>2
<1>10. v.dns.servers = servers /\ v.dns.rules = rules /\ v.dns.final = last /\ Range(servers) = {a, b}
  BY <1>3, <1>7, <1>9 DEF servers
<1> HIDE DEF v
<1>11. Asked(v) \subseteq Answering(v)
  BY <1>6, <1>7, <1>8, <1>9, <1>10 DEF Asked, Answering
<1>12. Named(v) \subseteq {NoTag, "direct", "proxy", "auto"} \cup Chosen \cup Range(tags)
  <2>1. Named(v) = {v.final} \cup {x.to : x \in Range(v.rules)}
                   \cup {x.detour : x \in Range(v.dns.servers)}
                   \cup UNION {Range(o.members) \cup {o.default} : o \in Range(v.outbounds)}
    BY DEF Named
  <2>2. {x.detour : x \in Range(v.dns.servers)} \subseteq {NoTag, "proxy"}
    BY <1>7, <1>10
  <2>3. UNION {Range(o.members) \cup {o.default} : o \in Range(v.outbounds)}
          \subseteq {NoTag, "direct", "auto"} \cup Range(tags)
    BY <1>4, <1>9
  <2>4. {x.to : x \in Range(v.rules)} \subseteq {NoTag, "direct", "proxy"} \cup Chosen
    BY <1>5, <1>9 DEF Chosen
  <2>5. v.final \in Chosen
    BY <1>9 DEF Chosen
  <2> QED
    BY <2>1, <2>2, <2>3, <2>4, <2>5
<1>13. /\ {NoTag, "direct", "proxy", "block"} \cup Range(tags) \subseteq Defined(v)
       /\ tags # <<>> => "auto" \in Defined(v)
  BY <1>4, <1>9 DEF Defined
<1>14. LeftLoose = (Chosen \ {"proxy", "auto", "direct", "block"})
                     \cup (IF tags = <<>> THEN {"auto"} ELSE {})
  BY <1>1, <1>00 DEF LeftLoose, NoNode, tags
<1>15. Loose(v) \subseteq LeftLoose
  BY <1>12, <1>13, <1>14 DEF Loose
<1> QED
  BY <1>11, <1>15 DEF v

-----------------------------------------------------------------------------
(* The names in what the program merges.                                   *)

\* The DNS part of a merged configuration.
LEMMA MergedDnsIs ==
  ASSUME NEW s, IsList(s.rules), NEW p, IsSingbox(p)
  PROVE  LET d == MergeDns(s, p)
             local == Fresh(LocalTags, p)
             remote == Fresh(RemoteTags, p)
         IN /\ \E a, b : /\ Range(d.servers) = Range(p.dns.servers) \cup {a, b}
                         /\ a.tag = local /\ b.tag = remote
                         /\ a.detour = NoTag /\ b.detour = ProxyTarget(p)
                         /\ a.resolver = NoTag /\ b.resolver \in {NoTag, local}
            /\ \A x \in Range(d.rules) : x.to \in {NoTag, local, remote} \/ x \in Range(p.dns.rules)
            /\ d.final \in {local, remote, p.dns.final}
<1> DEFINE local == Fresh(LocalTags, p)
           remote == Fresh(RemoteTags, p)
           final == Alias(s.final, p)
           asked == Names(s.direct) # {}
           W == WindowsDnsRules(BuildRoute(s), local, remote, asked)
           tail == IF final = "direct" THEN <<CatchAll(local)>> ELSE <<>>
           a == LocalServer(local)
           b == RemoteServer(s, remote, ProxyTarget(p), local)
           ab == <<a, b>>
           sv == p.dns.servers \o ab
           wt == W \o tail
           ru == wt \o p.dns.rules
           fi == IF final = "direct" THEN local
                 ELSE IF s.ownRemote \/ p.dns.servers = <<>> THEN remote ELSE p.dns.final
           d == MergeDns(s, p)
<1>0. IsList(p.dns.servers) /\ IsList(p.dns.rules) /\ IsList(BuildRoute(s))
  BY RouteIs DEF IsSingbox
<1>1. d = [servers |-> sv, rules |-> ru, final |-> fi]
  BY DEF MergeDns
<1>2. /\ a.tag = local /\ b.tag = remote /\ a.detour = NoTag /\ b.detour = ProxyTarget(p)
      /\ a.resolver = NoTag /\ b.resolver \in {NoTag, local}
  BY DEF LocalServer, RemoteServer
<1>3. fi \in {local, remote, p.dns.final}
  OBVIOUS
<1> HIDE DEF fi, asked, local, remote
<1>4. IsList(tail) /\ \A x \in Range(tail) : x.to = local
  <2>1. Range(<<>>) = {}
    BY DEF Range
  <2>2. CatchAll(local).to = local
    BY DEF CatchAll
  <2> QED
    BY <2>1, <2>2, NoneIs, OneIs
<1>5. IsList(W) /\ \A x \in Range(W) : x.to \in {NoTag, local, remote}
  BY <1>0, DnsTargets
<1> HIDE DEF a, b, W, tail
<1>6. IsList(ab) /\ Range(ab) = {a, b}
  <2>1. IsList(ab)
    BY TwoIs
  <2>2. Range(ab) = {a, b}
    BY DEF Range
  <2> QED
    BY <2>1, <2>2
<1> HIDE DEF ab
<1>7. Range(sv) = Range(p.dns.servers) \cup {a, b}
  <2>1. Range(p.dns.servers \o ab) = Range(p.dns.servers) \cup Range(ab)
    BY <1>0, <1>6, ConcatRange
  <2> QED
    BY <1>6, <2>1
<1>8. IsList(wt) /\ Range(wt) = Range(W) \cup Range(tail)
  <2>1. Joined(W \o tail, W, tail)
    BY <1>4, <1>5, ConcatIs
  <2>2. Range(W \o tail) = Range(W) \cup Range(tail)
    BY <1>4, <1>5, ConcatRange
  <2> QED
    BY <2>1, <2>2 DEF Joined
<1> HIDE DEF wt
<1>9. Range(wt \o p.dns.rules) = Range(wt) \cup Range(p.dns.rules)
  BY <1>0, <1>8, ConcatRange
<1> HIDE DEF sv, ru, d
<1>10. d.servers = sv /\ d.rules = ru /\ d.final = fi
  BY <1>1
<1>11. \A x \in Range(ru) : x.to \in {NoTag, local, remote} \/ x \in Range(p.dns.rules)
  BY <1>4, <1>5, <1>8, <1>9 DEF ru
<1> QED
  BY <1>2, <1>3, <1>7, <1>10, <1>11 DEF local, remote, d

\* Merging leaves no name open that the provider did not leave open.
LEMMA MergedNames ==
  ASSUME IInv, SingboxMerged, config.engine = "singbox"
  PROVE  /\ Loose(config.value) \subseteq LeftLoose
         /\ Asked(config.value) \ Answering(config.value)
               \subseteq Asked(config.from) \ Answering(config.from)
<1> DEFINE s == settings
           p == config.from
           v == config.value
           l == LocalRules(s, p)
           final == Alias(s.final, p)
           local == Fresh(LocalTags, p)
           remote == Fresh(RemoteTags, p)
           own == TagsOf(p.outbounds) \cup (LocalTargets(s, p) \cap {"direct", "block"})
<1>0. IsList(s.rules)
  BY SettingsAre
<1>1. /\ Merged /\ IsSingbox(p) /\ ProxyTarget(p) # NoTag /\ TargetsValid(s, p)
      /\ v.outbounds = p.outbounds \o Standard(s, p)
      /\ v.rules = l \o p.rules /\ v.final = final
      /\ v.resolver = Resolver(s, p, Windows)
      /\ v.dns = IF ~ Windows \/ NoDnsPolicy(s) THEN p.dns ELSE MergeDns(s, p)
  BY MergedIs
<1>2. IsList(p.outbounds) /\ IsList(p.rules) /\ IsList(l)
  BY <1>0, <1>1, LocalIs DEF IsSingbox
<1>3. LocalTargets(s, p) \subseteq own
  BY <1>1 DEF TargetsValid
<1>4. final \in own /\ \A x \in Range(l) : x.to \in {NoTag} \cup own
  <2>1. LocalTargets(s, p) = {final} \cup ({x.to : x \in Range(l)} \ {NoTag})
    BY DEF LocalTargets
  <2> HIDE DEF final, l, own
  <2> QED
    BY <1>3, <2>1
<1>5. TagsOf(v.outbounds) = own
  BY <1>1, <1>2, MergedTags
<1>6. \A o \in Range(v.outbounds) :
         o \in Range(p.outbounds) \/ (Range(o.members) = {} /\ o.default = NoTag)
  <2>1. Range(v.outbounds) = Range(p.outbounds) \cup Range(Standard(s, p))
    BY <1>1, <1>2, StandardIs, ConcatRange
  <2>2. \A o \in Range(Standard(s, p)) : \E tag : o = Node(tag)
    BY StandardIs
  <2>3. \A tag : Range(Node(tag).members) = {} /\ Node(tag).default = NoTag
    <3>1. \A tag : Node(tag).members = <<>> /\ Node(tag).default = NoTag
      BY DEF Node
    <3>2. Range(<<>>) = {}
      BY DEF Range
    <3> QED
      BY <3>1, <3>2
  <2>4. \A o \in Range(Standard(s, p)) : Range(o.members) = {} /\ o.default = NoTag
    BY <2>2, <2>3
  <2> QED
    BY <2>1, <2>4
<1>7. Range(v.rules) = Range(l) \cup Range(p.rules)
  <2> HIDE DEF l
  <2> QED
    BY <1>1, <1>2, ConcatRange
<1>8. /\ \A x \in Range(v.dns.servers) :
            \/ x \in Range(p.dns.servers)
            \/ x.detour \in {NoTag, ProxyTarget(p)} /\ x.resolver \in Answering(v)
      /\ Answering(p) \subseteq Answering(v)
      /\ \A x \in Range(v.dns.rules) : x.to \in Answering(v) \/ x \in Range(p.dns.rules)
      /\ v.dns.final \in Answering(v) \cup {p.dns.final}
      /\ Windows /\ ~ NoDnsPolicy(s) => local \in Answering(v)
  <2>1. CASE ~ Windows \/ NoDnsPolicy(s)
    <3>1. v.dns = p.dns
      BY <1>1, <2>1
    <3> HIDE DEF v, p
    <3> QED
      BY <2>1, <3>1 DEF Answering
  <2>2. CASE Windows /\ ~ NoDnsPolicy(s)
    <3> DEFINE d == MergeDns(s, p)
    <3>1. v.dns = d
      BY <1>1, <2>2
    <3>2. /\ \E a, b : /\ Range(d.servers) = Range(p.dns.servers) \cup {a, b}
                       /\ a.tag = local /\ b.tag = remote
                       /\ a.detour = NoTag /\ b.detour = ProxyTarget(p)
                       /\ a.resolver = NoTag /\ b.resolver \in {NoTag, local}
          /\ \A x \in Range(d.rules) : x.to \in {NoTag, local, remote} \/ x \in Range(p.dns.rules)
          /\ d.final \in {local, remote, p.dns.final}
      BY <1>0, <1>1, MergedDnsIs
    <3> HIDE DEF v, p, d, local, remote
    <3>3. {NoTag, local, remote} \cup Answering(p) \subseteq Answering(v)
      BY <3>1, <3>2 DEF Answering
    <3>4. \A x \in Range(d.servers) :
             \/ x \in Range(p.dns.servers)
             \/ x.detour \in {NoTag, ProxyTarget(p)} /\ x.resolver \in {NoTag, local}
      BY <3>2
    <3> QED
      BY <3>1, <3>2, <3>3, <3>4
  <2> QED
    BY <2>1, <2>2
<1>9. v.resolver \in Answering(v) \cup {p.resolver}
  <2>1. \/ v.resolver = "local" /\ HasServer(p, "local")
        \/ v.resolver = p.resolver
        \/ v.resolver = local /\ Windows /\ ~ NoDnsPolicy(s)
    BY <1>1 DEF Resolver
  <2>2. HasServer(p, "local") => "local" \in Answering(p)
    BY DEF HasServer, Answering
  <2> QED
    BY <1>8, <2>1, <2>2
<1> HIDE DEF own, v, p, l, final
<1>10. Asked(v) \subseteq Answering(v) \cup Asked(p)
  <2>1. v.resolver \in Answering(v) \cup Asked(p)
    BY <1>9 DEF Asked
  <2>2. v.dns.final \in Answering(v) \cup Asked(p)
    BY <1>8 DEF Asked
  <2>3. {x.to : x \in Range(v.dns.rules)} \subseteq Answering(v) \cup Asked(p)
    BY <1>8 DEF Asked
  <2>4. {x.resolver : x \in Range(v.dns.servers)} \subseteq Answering(v) \cup Asked(p)
    BY <1>8 DEF Asked
  <2> QED
    BY <2>1, <2>2, <2>3, <2>4 DEF Asked
<1>11. Asked(v) \ Answering(v) \subseteq Asked(p) \ Answering(p)
  BY <1>8, <1>10
<1>12. Defined(v) = {NoTag} \cup own /\ Defined(p) = {NoTag} \cup TagsOf(p.outbounds)
  BY <1>5 DEF Defined
<1>13. ProxyTarget(p) \in own
  BY <1>1, TargetIs DEF own
<1>14. Named(v) \subseteq Defined(v) \cup Named(p)
  <2>1. \A w : Named(w) = {w.final} \cup {x.to : x \in Range(w.rules)}
                   \cup {x.detour : x \in Range(w.dns.servers)}
                   \cup UNION {Range(o.members) \cup {o.default} : o \in Range(w.outbounds)}
    BY DEF Named
  <2>2. {x.detour : x \in Range(v.dns.servers)} \subseteq Defined(v) \cup Named(p)
    BY <1>8, <1>12, <1>13, <2>1
  <2>3. UNION {Range(o.members) \cup {o.default} : o \in Range(v.outbounds)}
          \subseteq {NoTag} \cup Named(p)
    <3> DEFINE N(o) == Range(o.members) \cup {o.default}
    <3>1. \A o \in Range(v.outbounds) : N(o) \subseteq {NoTag} \/ o \in Range(p.outbounds)
      BY <1>6
    <3>2. UNION {N(o) : o \in Range(p.outbounds)} \subseteq Named(p)
      BY <2>1
    <3> HIDE DEF N
    <3>3. UNION {N(o) : o \in Range(v.outbounds)} \subseteq {NoTag} \cup Named(p)
      BY <3>1, <3>2
    <3> QED
      BY <3>3 DEF N
  <2>4. {x.to : x \in Range(v.rules)} \subseteq Defined(v) \cup Named(p)
    BY <1>4, <1>7, <1>12, <2>1
  <2>5. v.final \in Defined(v)
    BY <1>1, <1>4, <1>12
  <2>6. NoTag \in Defined(v)
    BY <1>12
  <2> QED
    BY <2>1, <2>2, <2>3, <2>4, <2>5, <2>6
<1>15. Defined(p) \subseteq Defined(v)
  BY <1>12 DEF own
<1>16. Loose(v) \subseteq Loose(p)
  BY <1>14, <1>15 DEF Loose
<1> QED
  BY <1>1, <1>11, <1>16 DEF LeftLoose, v, p

-----------------------------------------------------------------------------
(* The names in an Xray configuration, and its listeners.                  *)

\* Every name in a configuration of links has a definition.
LEMMA LinkNames ==
  ASSUME XrayLinks, config.engine = "xray"
  PROVE  Loose(config.value) = {}
<1> DEFINE nodes == stored.nodes
           mapped == At(nodes, {i \in DOMAIN nodes : CanMap(nodes[i])})
           each == [i \in DOMAIN mapped |-> Dialed(mapped[i].tag, mapped[i].protocol, Protected)]
           helpers == <<Outbound("direct", "freedom"), Outbound("block", "blackhole"),
                        ProtectedOutbound>>
           outs == each \o helpers
           rule == [match |-> [port |-> {443}], to |-> "block"]
           rules == <<rule>>
           ins == <<Listener("socks-in", "socks", SocksPort)>>
           v == config.value
<1>1. v = [inbounds |-> ins, outbounds |-> outs, balancers |-> {}, api |-> NoTag, rules |-> rules]
  BY DEF XrayLinks, LinkConfig
<1>2. rule.to = "block"
  OBVIOUS
<1> HIDE DEF rule
<1>3. Range(rules) = {rule}
  BY DEF Range
<1>4. /\ {"block", Protected} \subseteq TagsOf(outs)
      /\ \A o \in Range(outs) : {o.dialer, o.legacy} \subseteq {NoTag, Protected}
  <2>1. IsList(each) /\ \A o \in Range(each) : {o.dialer, o.legacy} \subseteq {NoTag, Protected}
    <3>1. {i \in DOMAIN nodes : CanMap(nodes[i])} \in SUBSET (DOMAIN nodes)
      OBVIOUS
    <3>2. IsList(mapped)
      BY <3>1, AtIs DEF XrayLinks
    <3>3. Len(mapped) \in Nat /\ DOMAIN mapped = 1 .. Len(mapped)
      BY <3>2, ListIs
    <3> HIDE DEF mapped
    <3>4. each = [i \in 1 .. Len(mapped) |-> each[i]]
      BY <3>3
    <3>5. \A tag, protocol : LET o == Dialed(tag, protocol, Protected) IN
                             o.dialer = Protected /\ o.legacy = NoTag
      BY DEF Dialed, Outbound
    <3>6. \A i \in 1 .. Len(mapped) : {each[i].dialer, each[i].legacy} \subseteq {NoTag, Protected}
      BY <3>3, <3>5
    <3> HIDE DEF each
    <3>7. IsList(each) /\ DOMAIN each = 1 .. Len(mapped)
      BY <3>3, <3>4, IsAList
    <3> QED
      BY <3>6, <3>7 DEF Range
  <2>2. IsList(helpers)
    BY ThreeIs
  <2> DEFINE a == Outbound("direct", "freedom")
             b == Outbound("block", "blackhole")
             c == ProtectedOutbound
  <2>3. /\ b.tag = "block" /\ c.tag = Protected
        /\ a.dialer = NoTag /\ b.dialer = NoTag /\ c.dialer = NoTag
        /\ a.legacy = NoTag /\ b.legacy = NoTag /\ c.legacy = NoTag
    BY DEF Outbound, ProtectedOutbound
  <2>4. Range(helpers) = {a, b, c}
    <3> HIDE DEF a, b, c
    <3>1. helpers = <<a, b, c>>
      BY DEF a, b, c
    <3>2. Range(<<a, b, c>>) = {a, b, c}
      BY DEF Range
    <3> QED
      BY <3>1, <3>2
  <2> HIDE DEF each, helpers, a, b, c
  <2>5. Range(each \o helpers) = Range(each) \cup Range(helpers)
    BY <2>1, <2>2, ConcatRange
  <2> QED
    BY <2>1, <2>3, <2>4, <2>5 DEF TagsOf
<1> HIDE DEF ins, outs, rules, v
<1>5. v.outbounds = outs /\ v.rules = rules
  BY <1>1
<1>6. Named(v) \subseteq {"block", NoTag, Protected}
  BY <1>2, <1>3, <1>4, <1>5 DEF Named
<1>7. {"block", NoTag, Protected} \subseteq Defined(v)
  BY <1>4, <1>5 DEF Defined
<1> QED
  BY <1>6, <1>7 DEF Loose, v

\* Merging and chaining keep every tag that a rule may name.
LEMMA MergedXrayNames ==
  ASSUME IInv, Running("xray"), Merged
  PROVE  Loose(config.value) \subseteq LeftLoose
<1> DEFINE s == settings
           p == config.from
           v == config.value
<1>0. config.engine = "xray" /\ IsList(s.rules)
  BY SettingsAre DEF Running
<1>1. PICK q : MergedXray(v, p, s, q)
  BY MergedXrayIs
<1>2. IsXray(p) /\ IsList(p.rules) /\ Based(q, p)
  BY <1>1, MergedXrayIs DEF IsXray, MergedXray
<1>3. /\ v.balancers = p.balancers /\ v.rules = TranslatedRules(s, q) \o p.rules
      /\ \A o \in Range(Outs(q, s)) :
           \E u \in Range(v.outbounds) : u.tag = o.tag /\ u.protocol = o.protocol
  BY <1>1 DEF MergedXray
<1>4. /\ IsList(TranslatedRules(s, q))
      /\ \A k \in DOMAIN TranslatedRules(s, q) : \E i \in Applied(s, q) :
            TranslatedRules(s, q)[k] = Translate(EnabledRules(s)[i], q)
  BY <1>0, TranslatedAre
<1>5. Range(v.rules) = Range(TranslatedRules(s, q)) \cup Range(p.rules)
  BY <1>2, <1>3, <1>4, ConcatRange
<1>6. TagsOf(p.outbounds) \subseteq TagsOf(Outs(q, s))
  BY <1>2, OutsAre DEF TagsOf
<1>7. TagsOf(Outs(q, s)) \subseteq TagsOf(v.outbounds)
  BY <1>3 DEF TagsOf
<1>8. \A w : /\ Named(w) = {x.to : x \in Range(w.rules)}
                            \cup UNION {{o.dialer, o.legacy} : o \in Range(w.outbounds)}
             /\ Defined(w) = {NoTag} \cup TagsOf(w.outbounds) \cup w.balancers
  BY <1>0 DEF Named, Defined
<1>9. ASSUME NEW x \in Range(TranslatedRules(s, q)) PROVE x.to \in Defined(v)
  <2>1. PICK i \in Applied(s, q) : x = Translate(EnabledRules(s)[i], q)
    BY <1>4 DEF Range
  <2>2. Applies(EnabledRules(s)[i], q)
    BY DEF Applied
  <2>3. CASE EnabledRules(s)[i].kind = "reject"
    <3>1. x.to = BlockTarget(q)
      BY <2>1, <2>3 DEF Translate
    <3>2. PICK o \in Range(Outs(q, s)) : o.tag = BlockTarget(q)
      BY <1>2, <2>3, BlockIs
    <3>3. x.to \in TagsOf(Outs(q, s))
      BY <3>1, <3>2 DEF TagsOf
    <3> QED
      BY <1>7, <1>8, <3>3
  <2>4. CASE EnabledRules(s)[i].kind # "reject"
    <3>1. x.to = EnabledRules(s)[i].to
      BY <2>1, <2>4 DEF Translate
    <3>2. Target(EnabledRules(s)[i], q)
      BY <2>2, <2>4 DEF Applies
    <3>3. x.to \in TagsOf(p.outbounds) \cup p.balancers
      BY <1>2, <3>1, <3>2 DEF Target, Based, Tags, TagsOf
    <3> QED
      BY <1>3, <1>6, <1>7, <1>8, <3>3
  <2> QED
    BY <2>3, <2>4
<1>10. Defined(p) \subseteq Defined(v)
  BY <1>3, <1>6, <1>7, <1>8
<1>11. ASSUME NEW u \in Range(v.outbounds)
       PROVE  {u.dialer, u.legacy} \subseteq Defined(v) \cup Named(p)
  <2>1. CASE u = ProtectedOutbound
    <3>1. u.dialer = NoTag /\ u.legacy = NoTag
      BY <2>1 DEF ProtectedOutbound, Outbound
    <3> QED
      BY <3>1, <1>8
  <2>2. ASSUME NEW o \in Range(Outs(q, s)),
               {u.dialer, u.legacy} \subseteq
                  {o.dialer, o.legacy} \cup (TagsOf(v.outbounds) \cap {Protected})
        PROVE  {u.dialer, u.legacy} \subseteq Defined(v) \cup Named(p)
    <3> DEFINE end == Outbound(BlockTag, "blackhole")
    <3>1. end.dialer = NoTag /\ end.legacy = NoTag
      BY DEF Outbound
    <3>2. o \in Range(p.outbounds) \/ o = end
      BY <1>2, OutsAre
    <3>3. o \in Range(p.outbounds) => {o.dialer, o.legacy} \subseteq Named(p)
      BY <1>8
    <3>4. NoTag \in Defined(v) /\ TagsOf(v.outbounds) \subseteq Defined(v)
      BY <1>8
    <3> HIDE DEF end, v, p
    <3> QED
      BY <2>2, <3>1, <3>2, <3>3, <3>4
  <2> QED
    BY <1>1, <2>1, <2>2 DEF MergedXray
<1>12. Named(v) \subseteq Defined(v) \cup Named(p)
  <2> DEFINE D(o) == {o.dialer, o.legacy}
  <2>1. \A u \in Range(v.outbounds) : D(u) \subseteq Defined(v) \cup Named(p)
    BY <1>11
  <2>2. Named(v) = {x.to : x \in Range(v.rules)} \cup UNION {D(o) : o \in Range(v.outbounds)}
    BY <1>8
  <2>3. {x.to : x \in Range(v.rules)} \subseteq Defined(v) \cup Named(p)
    BY <1>5, <1>8, <1>9
  <2> HIDE DEF D
  <2> QED
    BY <2>1, <2>2, <2>3
<1>13. Loose(v) \subseteq Loose(p)
  BY <1>10, <1>12 DEF Loose
<1> QED
  BY <1>13 DEF LeftLoose

\* The ports for the system proxy are those of listeners.
LEMMA Listening ==
  ASSUME XrayDesktop
  PROVE  /\ Listens(config.http, "http", {Local})
         /\ Listens(config.socks, "socks",
                    {Local} \cup {l.listen : l \in Range(config.from.inbounds)})
<1> DEFINE p == config.from
<1>1. PICK socks, http \in Ports :
         LET x == PrepareDesktop(p, settings, socks, http) IN
         x # None /\ config.value = x.config /\ config.http = x.http /\ config.socks = x.socks
  BY DEF XrayDesktop
<1> DEFINE q == EnsureInbounds(p, socks, http)
           m == MergeRouting(q, settings)
           H == HttpInbounds(p)
           S == SocksInbounds(p)
           own == [i \in DOMAIN p.inbounds |->
                     IF i \in H /\ p.inbounds[i].tag = NoTag
                     THEN [p.inbounds[i] EXCEPT !.tag = ManagedHttp] ELSE p.inbounds[i]]
           ls == Listener(ManagedSocks, "socks", socks)
           lh == Listener(ManagedHttp, "http", http)
           ss == IF S = {} THEN <<ls>> ELSE <<>>
           hh == IF H = {} THEN <<lh>> ELSE <<>>
           os == own \o ss
           all == os \o hh
<1>2. /\ ~ InboundsRefused(p) /\ m # None /\ config.value = [m EXCEPT !.api = Loopback]
      /\ config.http = HttpPort(p, http) /\ config.socks = SocksOf(p, socks)
  BY <1>1 DEF PrepareDesktop
<1>3. IsXray(p) /\ Based(q, p)
  BY InboundsEnsured DEF XrayDesktop
<1>4. /\ IsList(p.inbounds) /\ Len(p.inbounds) \in Nat /\ DOMAIN p.inbounds = 1 .. Len(p.inbounds)
      /\ \A i \in DOMAIN p.inbounds : DOMAIN p.inbounds[i] = {"tag", "protocol", "listen", "port"}
  BY <1>3, ListIs DEF IsXray, Range
<1>5. q.inbounds = all
  <2>1. q = [p EXCEPT !.inbounds = all]
    BY DEF EnsureInbounds
  <2> HIDE DEF all
  <2> QED
    BY <1>3, <2>1 DEF IsXray
<1>6. config.value.inbounds = all
  <2> HIDE DEF q, all
  <2>1. DOMAIN m = {"inbounds", "outbounds", "balancers", "api", "rules"} /\ m.inbounds = q.inbounds
    BY <1>2, <1>3, RoutingMerged
  <2> HIDE DEF m
  <2> QED
    BY <1>2, <1>5, <2>1
<1>7. \A i \in DOMAIN p.inbounds : /\ own[i].port = p.inbounds[i].port
                                   /\ own[i].protocol = p.inbounds[i].protocol
                                   /\ own[i].listen = p.inbounds[i].listen
  BY <1>4
<1>8. own = [i \in 1 .. Len(p.inbounds) |-> own[i]]
  BY <1>4
<1>9. /\ ls.protocol = "socks" /\ ls.listen = Local /\ ls.port = socks
      /\ lh.protocol = "http" /\ lh.listen = Local /\ lh.port = http
  BY DEF Listener, Local, Loopback
<1> HIDE DEF own, ls, lh
<1>10. IsList(own) /\ DOMAIN own = DOMAIN p.inbounds
  BY <1>4, <1>8, IsAList
<1>11. IsList(ss) /\ Range(ss) = IF S = {} THEN {ls} ELSE {}
  <2>1. Range(<<>>) = {}
    BY DEF Range
  <2> HIDE DEF S
  <2> QED
    BY <2>1, NoneIs, OneIs
<1>12. IsList(hh) /\ Range(hh) = IF H = {} THEN {lh} ELSE {}
  <2>1. Range(<<>>) = {}
    BY DEF Range
  <2> HIDE DEF H
  <2> QED
    BY <2>1, NoneIs, OneIs
<1> HIDE DEF ss, hh
<1>13. IsList(os) /\ Range(os) = Range(own) \cup Range(ss)
  <2>1. Joined(own \o ss, own, ss)
    BY <1>10, <1>11, ConcatIs
  <2>2. Range(own \o ss) = Range(own) \cup Range(ss)
    BY <1>10, <1>11, ConcatRange
  <2> QED
    BY <2>1, <2>2 DEF Joined
<1> HIDE DEF os
<1>14. Range(all) = Range(own) \cup Range(ss) \cup Range(hh)
  <2>1. Range(os \o hh) = Range(os) \cup Range(hh)
    BY <1>12, <1>13, ConcatRange
  <2> QED
    BY <1>13, <2>1
<1>15. H \in SUBSET (1 .. Len(p.inbounds)) /\ S \in SUBSET (1 .. Len(p.inbounds))
  BY <1>4 DEF HttpInbounds, SocksInbounds
<1>16. Listens(config.http, "http", {Local})
  <2>1. CASE H = {}
    <3>1. config.http = http
      BY <1>2, <2>1 DEF HttpPort
    <3>2. lh \in Range(config.value.inbounds)
      BY <1>6, <1>12, <1>14, <2>1
    <3> QED
      BY <1>9, <3>1, <3>2 DEF Listens
  <2>2. CASE H # {}
    <3> DEFINE k == Min(H)
    <3>1. k \in H
      <4>1. H \in SUBSET Nat
        BY <1>15
      <4> HIDE DEF H
      <4> QED
        BY <2>2, <4>1, Least
    <3>2. config.http = p.inbounds[k].port
      BY <1>2, <2>2 DEF HttpPort
    <3> HIDE DEF k
    <3>3. k \in DOMAIN p.inbounds /\ p.inbounds[k].protocol = "http" /\ p.inbounds[k].listen = Local
      BY <1>2, <3>1 DEF InboundsRefused, HttpInbounds, Local, Loopback
    <3>4. own[k] \in Range(config.value.inbounds)
      BY <1>6, <1>10, <1>14, <3>3 DEF Range
    <3>5. own[k].port = config.http /\ own[k].protocol = "http" /\ own[k].listen = Local
      BY <1>7, <3>2, <3>3
    <3> QED
      BY <3>4, <3>5 DEF Listens
  <2> QED
    BY <2>1, <2>2
<1>17. Listens(config.socks, "socks", {Local} \cup {l.listen : l \in Range(p.inbounds)})
  <2>1. CASE S = {}
    <3>1. config.socks = socks
      BY <1>2, <2>1 DEF SocksOf
    <3>2. ls \in Range(config.value.inbounds)
      BY <1>6, <1>11, <1>14, <2>1
    <3> QED
      BY <1>9, <3>1, <3>2 DEF Listens
  <2>2. CASE S # {}
    <3> DEFINE k == Max(S)
    <3>1. k \in S
      <4> HIDE DEF S
      <4> QED
        BY <1>4, <1>15, <2>2, Greatest
    <3>2. config.socks = p.inbounds[k].port
      BY <1>2, <2>2 DEF SocksOf
    <3> HIDE DEF k
    <3>3. k \in DOMAIN p.inbounds /\ p.inbounds[k].protocol = "socks"
          /\ p.inbounds[k] \in Range(p.inbounds)
      BY <3>1 DEF SocksInbounds, Range
    <3>4. own[k] \in Range(config.value.inbounds)
      BY <1>6, <1>10, <1>14, <3>3 DEF Range
    <3>5. own[k].port = config.socks /\ own[k].protocol = "socks"
          /\ own[k].listen \in {l.listen : l \in Range(p.inbounds)}
      BY <1>7, <3>2, <3>3
    <3> QED
      BY <3>4, <3>5 DEF Listens
  <2> QED
    BY <2>1, <2>2
<1> QED
  BY <1>16, <1>17

\* A configuration that is ready is for one of the two engines.
LEMMA Engines == IInv /\ stage = "ready" => Running("singbox") \/ Running("xray")
BY DEF IInv, LinksPrepared, SingboxPrepared, XrayPrepared, Unproxied, Running

\* The invariant implies the property.
LEMMA Dangles == IInv => NothingDangles
<1> SUFFICES ASSUME IInv, stage = "ready" PROVE NothingDangles
  BY DEF NothingDangles
<1>1. CASE Running("singbox")
  <2>1. config.engine = "singbox" /\ (SingboxBuilt \/ SingboxMerged)
    BY <1>1, ForSingbox DEF Running
  <2>2. CASE SingboxBuilt
    <3>1. Loose(config.value) \subseteq LeftLoose /\ Asked(config.value) \subseteq Answering(config.value)
      BY <2>1, <2>2, BuiltNames
    <3>2. config.http = 0
      BY <2>2 DEF SingboxBuilt
    <3> QED
      BY <3>1, <3>2 DEF NothingDangles
  <2>3. CASE SingboxMerged
    <3>1. /\ Loose(config.value) \subseteq LeftLoose
          /\ Asked(config.value) \ Answering(config.value)
                \subseteq Asked(config.from) \ Answering(config.from)
      BY <2>1, <2>3, MergedNames
    <3>2. config.http = 0 /\ Merged
      BY <2>3 DEF SingboxMerged
    <3> QED
      BY <3>1, <3>2 DEF NothingDangles
  <2> QED
    BY <2>1, <2>2, <2>3
<1>2. CASE Running("xray")
  <2>1. config.engine = "xray" /\ (XrayLinks \/ XrayDesktop \/ XrayPhone)
    BY <1>2, ForXray DEF Running
  <2>2. Loose(config.value) \subseteq LeftLoose
    <3>1. CASE Merged
      BY <1>2, <3>1, MergedXrayNames
    <3>2. CASE ~ Merged
      <4>1. XrayLinks
        BY <2>1, <3>2 DEF XrayDesktop, XrayPhone
      <4> QED
        BY <2>1, <4>1, LinkNames
    <3> QED
      BY <3>1, <3>2
  <2>3. config.http # 0 => /\ Listens(config.http, "http", {Local})
                           /\ Listens(config.socks, "socks",
                                {Local} \cup {l.listen : l \in Range(config.from.inbounds)})
    <3>1. ASSUME config.http # 0 PROVE XrayDesktop
      BY <2>1, <3>1 DEF XrayLinks, XrayPhone
    <3> QED
      BY <3>1, Listening
  <2> QED
    BY <2>1, <2>2, <2>3 DEF NothingDangles
<1> QED
  BY <1>1, <1>2, Engines

\* No configuration names what the program did not define or the provider
\* leave open, and the system proxy's ports are listened on (Config::build,
\* merge_ready_config, ensure_managed_http_inbound).
THEOREM NothingEverDangles == Spec => []NothingDangles
BY Invariance, Dangles, PTL

-----------------------------------------------------------------------------
(* No traffic of the phone leaves past the tunnel.                         *)

\* In a list with as many tags as elements no two have the same tag.
LEMMA TagsTell ==
  ASSUME NEW list, IsList(list), Cardinality(Tags(list)) = Len(list),
         NEW i \in DOMAIN list, NEW j \in DOMAIN list, list[i].tag = list[j].tag
  PROVE  i = j
<1> DEFINE n == Len(list)
           T == Tags(list)
           f == [k \in 1 .. n |-> list[k].tag]
<1>1. n \in Nat /\ DOMAIN list = 1 .. n
  BY ListIs
<1>2. f \in [1 .. n -> T] /\ \A t \in T : \E k \in 1 .. n : f[k] = t
  <2>1. \A k \in 1 .. n : list[k].tag \in T
    BY <1>1 DEF Tags, Range
  <2>2. \A t \in T : \E k \in 1 .. n : list[k].tag = t
    BY <1>1 DEF Tags, Range
  <2> QED
    BY <2>1, <2>2
<1> HIDE DEF f, T, n
<1>3. IsFiniteSet(1 .. n) /\ Cardinality(1 .. n) = n
  <2>1. n \in Int /\ 1 \in Int
    BY <1>1
  <2>2. /\ IsFiniteSet(1 .. n)
        /\ Cardinality(1 .. n) = IF 1 > n THEN 0 ELSE n - 1 + 1
    BY <2>1, FS_Interval
  <2> QED
    BY <1>1, <2>2
<1>4. f \in Surjection(1 .. n, T)
  BY <1>2 DEF Surjection
<1>5. Cardinality(1 .. n) = Cardinality(T)
  BY <1>3 DEF T, n
<1>6. f \in Injection(1 .. n, T)
  BY <1>3, <1>4, <1>5, FS_SurjSameCardinalityImpliesInj
<1>7. \A a, b \in 1 .. n : f[a] = f[b] => a = b
  BY <1>2, <1>6 DEF Injection, IsInjective
<1> QED
  BY <1>1, <1>7 DEF f

\* A node of the links dials through the protected outbound.
LEMMA LinksProtected ==
  ASSUME XrayLinks, Cardinality(Tags(config.value.outbounds)) = Len(config.value.outbounds),
         NEW o \in Range(config.value.outbounds), o.tag \in Entry(config.value), Dialing(o)
  PROVE  o.dialer = Protected
<1> DEFINE nodes == stored.nodes
           mapped == At(nodes, {i \in DOMAIN nodes : CanMap(nodes[i])})
           each == [i \in DOMAIN mapped |-> Dialed(mapped[i].tag, mapped[i].protocol, Protected)]
           d == Outbound("direct", "freedom")
           b == Outbound("block", "blackhole")
           helpers == <<d, b, ProtectedOutbound>>
           outs == each \o helpers
           rule == [match |-> [port |-> {443}], to |-> "block"]
           rules == <<rule>>
           ins == <<Listener("socks-in", "socks", SocksPort)>>
           v == config.value
           m == Len(mapped)
<1>1. /\ v = [inbounds |-> ins, outbounds |-> outs, balancers |-> {}, api |-> NoTag, rules |-> rules]
      /\ mapped # <<>>
  BY DEF XrayLinks, LinkConfig
<1>2. IsList(mapped)
  <2>1. {i \in DOMAIN nodes : CanMap(nodes[i])} \in SUBSET (DOMAIN nodes)
    OBVIOUS
  <2> QED
    BY <2>1, AtIs DEF XrayLinks
<1>3. m \in Nat /\ DOMAIN mapped = 1 .. m /\ m # 0
  <2>1. m # 0
    BY <1>1, <1>2, EmptySeq DEF IsList
  <2> QED
    BY <1>2, <2>1, ListIs
<1>4. rule.to = "block"
  OBVIOUS
<1> HIDE DEF rule, mapped, m
<1>5. Range(rules) = {rule}
  BY DEF Range
<1>6. IsList(each) /\ Len(each) = m /\ \A i \in 1 .. m : each[i].dialer = Protected
  <2>1. each = [i \in 1 .. m |-> each[i]]
    BY <1>3
  <2>2. ASSUME NEW i \in 1 .. m PROVE each[i].dialer = Protected
    BY <1>3 DEF Dialed, Outbound
  <2> HIDE DEF each
  <2> QED
    BY <1>3, <2>1, <2>2, IsAList
<1>7. IsList(helpers) /\ Len(helpers) = 3 /\ DOMAIN helpers = 1 .. 3
      /\ helpers[1] = d /\ helpers[2] = b /\ helpers[3] = ProtectedOutbound
  <2> HIDE DEF d, b
  <2>1. IsList(helpers) /\ DOMAIN helpers = 1 .. 3
    BY ThreeIs
  <2> QED
    BY <2>1
<1>8. /\ d.tag = "direct" /\ b.tag = "block" /\ b.protocol = "blackhole"
      /\ ProtectedOutbound.tag = Protected
  BY DEF Outbound, ProtectedOutbound
<1> HIDE DEF each, helpers, d, b
<1>9. Joined(outs, each, helpers)
  BY <1>6, <1>7, ConcatIs
<1> HIDE DEF outs, ins, rules, v
<1>10. v.outbounds = outs /\ v.rules = rules /\ v.balancers = {}
  BY <1>1
<1>11. /\ IsList(outs) /\ Len(outs) = m + 3 /\ DOMAIN outs = 1 .. m + 3
       /\ \A i \in 1 .. m : outs[i].dialer = Protected
       /\ outs[m + 1] = d /\ outs[m + 2] = b /\ outs[m + 3] = ProtectedOutbound
  BY <1>3, <1>6, <1>7, <1>9 DEF Joined
<1>12. Entry(v) = {outs[1].tag, "block"}
  BY <1>4, <1>5, <1>10 DEF Entry
<1>13. /\ Cardinality(Tags(outs)) = Len(outs) /\ o \in Range(outs)
       /\ o.tag \in {outs[1].tag, "block"} /\ o.protocol \notin Silent /\ o.tag # Protected
  BY <1>10, <1>12 DEF v, Dialing
<1>14. PICK k \in 1 .. m + 3 : o = outs[k]
  BY <1>11, <1>13 DEF Range
<1>15. 1 \in DOMAIN outs /\ m + 2 \in DOMAIN outs /\ 1 \in 1 .. m
  BY <1>3, <1>11
<1>16. CASE o.tag = outs[1].tag
  <2>1. k = 1
    BY <1>11, <1>13, <1>14, <1>15, <1>16, TagsTell
  <2> QED
    BY <1>11, <1>14, <1>15, <2>1
<1>17. CASE o.tag = "block"
  <2>1. k = m + 2
    <3>1. outs[k].tag = outs[m + 2].tag
      BY <1>8, <1>11, <1>14, <1>17
    <3> HIDE DEF m
    <3> DEFINE h == m + 2
    <3>2. h \in DOMAIN outs /\ k \in DOMAIN outs /\ outs[k].tag = outs[h].tag
      BY <1>11, <1>14, <1>15, <3>1
    <3> HIDE DEF h
    <3>3. k = h
      BY <1>11, <1>13, <3>2, TagsTell
    <3> QED
      BY <3>3 DEF h
  <2>2. o.protocol = "blackhole"
    BY <1>8, <1>11, <1>14, <2>1
  <2> QED
    BY <1>13, <2>2 DEF Silent
<1> QED
  BY <1>13, <1>16, <1>17

\* Where a chained outbound dials: where its provider wrote, else the
\* protected one.
LEMMA ChainedDials ==
  ASSUME NEW w, DOMAIN w = OutboundKeys, Dialing(w), w.protocol \in Chainable
  PROVE  Chained(w).dialer = IF Written(w) \in {NoTag, Blank} THEN Protected ELSE Written(w)
<1>1. Chained(w) = Chain(w)
  BY DEF Chained, Dialing, Chainable, Dialers
<1>2. CASE w.dialer \notin {NoTag, Blank}
  BY <1>1, <1>2 DEF Chain, Written
<1>3. CASE w.dialer \in {NoTag, Blank}
  <2>1. Chain(w).dialer = IF w.legacy \in {NoTag, Blank} THEN Protected ELSE w.legacy
    BY <1>3 DEF Chain, OutboundKeys
  <2>2. Written(w) = w.legacy
    BY <1>3 DEF Written
  <2> QED
    BY <1>1, <2>1, <2>2
<1> QED
  BY <1>2, <1>3

\* An outbound of a prepared configuration reaches the protected one.
LEMMA PhoneProtected ==
  ASSUME XrayPhone, ChainsEnd(config.from), AllChainable(config.from),
         NEW o \in Range(config.value.outbounds), Dialing(o),
         NEW tags, o.dialer \in tags, Stays(config.value, tags)
  PROVE  Protected \in tags
<1> DEFINE p == config.from
           v == config.value
           outs == Outs(p, settings)
           dialing == {w \in Range(p.outbounds) : Dialing(w)}
           some == {w \in dialing : w.tag \in tags}
           end == Outbound(BlockTag, "blackhole")
           last == IF Protected \in Tags(outs) THEN {} ELSE {ProtectedOutbound}
<1>1. IsXray(p) /\ Based(p, p)
  BY DEF XrayPhone, IsXray, Based
<1>2. /\ Range(outs) = Range(p.outbounds) \cup (IF NeedsBlock(settings, p) THEN {end} ELSE {})
      /\ \A w \in Range(outs) : DOMAIN w = OutboundKeys
  BY <1>1, OutsAre
<1>3. Range(v.outbounds) = {Chained(w) : w \in Range(outs)} \cup last
  BY PhoneIs
<1>4. ~ Dialing(ProtectedOutbound) /\ ~ Dialing(end)
  BY DEF Dialing, Silent, ProtectedOutbound, Outbound
<1> SUFFICES ASSUME Protected \notin tags PROVE FALSE
  OBVIOUS
<1> HIDE DEF outs, end, last
\* Every dialing outbound of the prepared configuration is one of the
\* provider's, and every one of the provider's is chained in it.
<1>5. ASSUME NEW u \in Range(v.outbounds), Dialing(u) PROVE \E w \in dialing : u = Chained(w)
  <2>1. PICK w \in Range(outs) : u = Chained(w)
    BY <1>3, <1>4, <1>5 DEF last
  <2>2. w.tag = u.tag /\ w.protocol = u.protocol
    BY <1>2, <2>1, ChainedIs
  <2>3. Dialing(w)
    BY <1>5, <2>2 DEF Dialing
  <2>4. w \in Range(p.outbounds)
    BY <1>2, <1>4, <2>3
  <2> QED
    BY <2>1, <2>3, <2>4
<1>6. ASSUME NEW w \in dialing
      PROVE  /\ Chained(w) \in Range(v.outbounds) /\ Dialing(Chained(w)) /\ Chained(w).tag = w.tag
             /\ Chained(w).dialer = IF Written(w) \in {NoTag, Blank} THEN Protected ELSE Written(w)
  <2>1. w \in Range(outs) /\ DOMAIN w = OutboundKeys /\ Dialing(w) /\ w.protocol \in Chainable
    BY <1>2 DEF AllChainable
  <2>2. Chained(w).tag = w.tag /\ Chained(w).protocol = w.protocol
    BY <2>1, ChainedIs
  <2> QED
    BY <1>3, <2>1, <2>2, ChainedDials DEF Dialing
\* One whose dialer is among the tags was written to dial another that is.
<1>7. ASSUME NEW w \in dialing, Chained(w).dialer \in tags
      PROVE  \E other \in some : Written(w) = other.tag
  <2>1. Chained(w).dialer # Protected
    BY <1>7
  <2>2. Written(w) \notin {NoTag, Blank, Protected} /\ Written(w) \in tags
    BY <1>6, <1>7, <2>1
  <2>3. Written(w) \in {NoTag, Blank, Protected} \cup {x.tag : x \in dialing}
    BY DEF ChainsEnd
  <2> QED
    BY <2>2, <2>3
<1>8. some # {}
  <2>1. PICK w \in dialing : o = Chained(w)
    BY <1>5
  <2> QED
    BY <2>1, <1>7
<1>9. PICK w \in some : \A other \in some : Written(w) # other.tag
  <2>1. some \in SUBSET dialing
    OBVIOUS
  <2> QED
    BY <1>8, <2>1 DEF ChainsEnd
<1>10. Chained(w).dialer \in tags
  BY <1>6, <1>9 DEF Stays
<1> QED
  BY <1>7, <1>9, <1>10

\* The invariant implies the property.
LEMMA Dials == IInv => DialsProtected
<1> SUFFICES ASSUME IInv, Running("xray"), ~ Desktop,
                    Merged => ChainsEnd(config.from) /\ AllChainable(config.from),
                    Cardinality(Tags(config.value.outbounds)) = Len(config.value.outbounds),
                    NEW o \in Range(config.value.outbounds),
                    o.tag \in Entry(config.value), Dialing(o)
             PROVE  EndsProtected(config.value, o)
  BY DEF DialsProtected
<1>1. XrayLinks \/ XrayPhone
  BY ForXray DEF XrayDesktop
<1>2. CASE XrayLinks
  BY <1>2, LinksProtected DEF EndsProtected
<1>3. CASE XrayPhone
  <2>1. ChainsEnd(config.from) /\ AllChainable(config.from)
    BY <1>3 DEF XrayPhone
  <2> QED
    BY <1>3, <2>1, PhoneProtected DEF EndsProtected
<1> QED
  BY <1>1, <1>2, <1>3

\* On the phone the chain of dialers ends at the protected outbound wherever
\* traffic enters, for a provider whose own chains end and who dials with
\* none of the protocols left unchained (normalize_bundle, link_config).
THEOREM DialsAlwaysProtected == Spec => []DialsProtected
BY Invariance, Dials, PTL
===============================================================================
