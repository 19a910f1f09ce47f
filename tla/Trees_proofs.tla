---------------------------- MODULE Trees_proofs ----------------------------
(***************************************************************************)
(* What the walks of all passes rest on: induction over the nodes of a     *)
(* tree, the order and nesting of its subtrees, the declarations in scope  *)
(* at a node, that the recursive functions over the nodes are defined, and *)
(* sequences, the stacks among them.                                       *)
(***************************************************************************)
EXTENDS TypeRules, TreeWalk, WellFoundedInduction, FiniteSetTheorems,
        SequenceTheorems, TLAPS

(***************************************************************************)
(* Induction.  A set of numbers has a least member and, when bounded, a    *)
(* greatest one; an induction takes the least counterexample.              *)
(***************************************************************************)
LEMMA Least ==
  ASSUME NEW T \in SUBSET Nat, T # {}
  PROVE  \E m \in T : \A k \in T : m <= k
<1>1. \E x \in T : \A y \in T : ~ (<<y, x>> \in OpToRel(<,Nat))
  BY NatLessThanWellFounded, WFMin, Zenon
<1>2. PICK x \in T : \A y \in T : ~ (<<y, x>> \in OpToRel(<,Nat))
  BY <1>1
<1>3. \A y \in T : ~ (y < x)
  BY <1>2 DEF OpToRel
<1>4. QED
  BY <1>3

LEMMA Greatest ==
  ASSUME NEW n \in Nat, NEW T \in SUBSET (0 .. n), T # {}
  PROVE  \E m \in T : \A k \in T : k <= m
<1> DEFINE U == {k \in 0 .. n : n - k \in T}
<1>1. PICK t \in T : TRUE
  OBVIOUS
<1>2. n - t \in U /\ U \in SUBSET Nat
  OBVIOUS
<1>3. PICK m \in U : \A k \in U : m <= k
  <2> HIDE DEF U
  <2> QED
    BY <1>2, Least
<1>4. \A k \in T : n - k \in U /\ k \in 0 .. n
  OBVIOUS
<1>5. n - m \in T /\ \A k \in T : k <= n - m
  BY <1>3, <1>4
<1>6. QED
  BY <1>5

LEMMA MaxGreatest ==
  ASSUME NEW n \in Nat, NEW T \in SUBSET (0 .. n), T # {}
  PROVE  Max(T) \in T /\ \A k \in T : k <= Max(T)
<1>1. \E m \in T : \A k \in T : m >= k
  <2>1. PICK m \in T : \A k \in T : k <= m
    BY Greatest
  <2>2. \A k \in T : m >= k
    BY <2>1
  <2>3. QED
    BY <2>2
<1>2. Max(T) \in T /\ \A k \in T : Max(T) >= k
  BY <1>1 DEF Max
<1>3. QED
  BY <1>2

(***************************************************************************)
(* Recursion.  A function on S may be defined by its values at nodes of a  *)
(* lower rank: F(<< n, g >>), the value at n given a function g, looks at  *)
(* no others.                                                              *)
(***************************************************************************)
LooksBelow(S, V, N, rank, F) ==
  /\ V # {}
  /\ N \in Nat
  /\ rank \in [S -> 0 .. N]
  /\ F \in [S \X [S -> V] -> V]
  /\ \A n \in S, g \in [S -> V], h \in [S -> V] :
       (\A m \in S : rank[m] < rank[n] => g[m] = h[m]) => F[<< n, g >>] = F[<< n, h >>]

LEMMA Recursion ==
  ASSUME NEW S, NEW V, NEW N, NEW rank, NEW F, LooksBelow(S, V, N, rank, F)
  PROVE  \E g \in [S -> V] : \A n \in S : g[n] = F[<< n, g >>]
<1> USE DEF LooksBelow
<1> DEFINE Below(k, g) == \A n \in S : rank[n] < k => g[n] = F[<< n, g >>]
           Bad == {k \in Nat : ~ \E g \in [S -> V] : Below(k, g)}
<1>1. 0 \notin Bad
  <2>1. PICK v \in V : TRUE
    OBVIOUS
  <2>2. [n \in S |-> v] \in [S -> V] /\ Below(0, [n \in S |-> v])
    OBVIOUS
  <2>3. QED
    BY <2>2
<1>2. ASSUME NEW k \in Nat, k \notin Bad PROVE k + 1 \notin Bad
  <2>1. PICK g \in [S -> V] : Below(k, g)
    BY <1>2
  <2> DEFINE h == [n \in S |-> IF rank[n] < k THEN g[n] ELSE F[<< n, g >>]]
  <2>2. h \in [S -> V]
    OBVIOUS
  <2>3. \A n \in S : rank[n] < k + 1 => F[<< n, h >>] = F[<< n, g >>]
    <3> TAKE n \in S
    <3> HAVE rank[n] < k + 1
    <3>1. \A m \in S : rank[m] < rank[n] => h[m] = g[m]
      OBVIOUS
    <3> HIDE DEF h
    <3>2. QED
      BY <2>2, <3>1
  <2>4. Below(k + 1, h)
    BY <2>1, <2>3
  <2> HIDE DEF h, Below
  <2>5. QED
    BY <2>2, <2>4
<1>3. Bad = {}
  <2>1. SUFFICES ASSUME Bad # {} PROVE FALSE
    OBVIOUS
  <2>2. PICK k \in Bad : \A j \in Bad : k <= j
    <3> HIDE DEF Below, Bad
    <3>1. Bad \in SUBSET Nat
      BY DEF Bad
    <3>2. QED
      BY <2>1, <3>1, Least
  <2>3. k \in Nat
    BY <2>2
  <2> HIDE DEF Bad
  <2>4. k # 0 /\ k - 1 \in Nat /\ k - 1 \notin Bad
    BY <1>1, <2>2, <2>3
  <2>5. (k - 1) + 1 = k
    BY <2>3
  <2>6. (k - 1) + 1 \notin Bad
    BY <1>2, <2>4
  <2>7. QED
    BY <2>2, <2>5, <2>6
<1>4. PICK g \in [S -> V] : Below(N + 1, g)
  <2>1. N + 1 \notin Bad
    <3> HIDE DEF Bad
    <3> QED
      BY <1>3
  <2>2. QED
    BY <2>1, SMTT(30)
<1>5. QED
  BY <1>4

(***************************************************************************)
(* Nodes and their children.                                               *)
(***************************************************************************)
LEMMA NodeShape ==
  ASSUME NEW t, IsTree(t), NEW n \in DOMAIN t
  PROVE  /\ DOMAIN t = 1 .. Len(t) /\ Len(t) \in Nat \ {0} /\ n \in Nat
         /\ t[n].span \in Nat \ {0}
         /\ t[n].kids \in Seq(Nat \ {0}) /\ Len(t[n].kids) \in Nat
         /\ \A i \in 1 .. Len(t[n].kids) :
              /\ Kid(t, n, i) \in DOMAIN t
              /\ Kid(t, n, i) = KidStart(t, n, i)
         /\ n + t[n].span = KidStart(t, n, Len(t[n].kids) + 1)
         /\ t[n].kind \in NodeKinds
         /\ KidsFit(t, n)
<1>1. DOMAIN t = 1 .. Len(t) /\ Len(t) \in Nat \ {0}
  BY DEF IsTree
<1>2. /\ t[n].span \in Nat \ {0} /\ LaidOut(t, n) /\ t[n].kind \in NodeKinds
      /\ KidsFit(t, n)
  BY <1>1 DEF IsTree
<1>3. QED
  BY <1>1, <1>2 DEF LaidOut

LEMMA KidsApart ==
  ASSUME NEW t, IsTree(t), NEW n \in DOMAIN t,
         NEW i \in 1 .. Len(t[n].kids), NEW j \in 1 .. Len(t[n].kids), i < j
  PROVE  Kid(t, n, i) + t[Kid(t, n, i)].span <= Kid(t, n, j)
<1> DEFINE K == Len(t[n].kids)
           Bad == {k \in Nat : /\ i < k /\ k <= K
                               /\ ~ Kid(t, n, i) + t[Kid(t, n, i)].span <= Kid(t, n, k)}
<1>1. K \in Nat
  BY NodeShape
<1>2. SUFFICES ASSUME Bad # {} PROVE FALSE
  BY <1>1
<1>3. PICK k \in Bad : \A m \in Bad : k <= m
  <2>1. Bad \in SUBSET Nat
    OBVIOUS
  <2> HIDE DEF Bad
  <2>2. QED
    BY <1>2, <2>1, Least
<1>4. k - 1 \in 1 .. K /\ k \in 1 .. K /\ k - 1 \notin Bad
  BY <1>1, <1>3
<1>5. Kid(t, n, k) = Kid(t, n, k - 1) + t[Kid(t, n, k - 1)].span
  BY <1>4, NodeShape DEF KidStart
<1>6. /\ Kid(t, n, k - 1) \in Nat /\ t[Kid(t, n, k - 1)].span \in Nat
      /\ Kid(t, n, i) \in Nat /\ t[Kid(t, n, i)].span \in Nat
  BY <1>4, NodeShape
<1>7. CASE k - 1 = i
  BY <1>3, <1>5, <1>6, <1>7
<1>8. CASE i < k - 1
  <2>1. Kid(t, n, i) + t[Kid(t, n, i)].span <= Kid(t, n, k - 1)
    BY <1>4, <1>8
  <2>2. QED
    BY <1>3, <1>5, <1>6, <2>1
<1>9. QED
  BY <1>3, <1>4, <1>7, <1>8

LEMMA KidsInside ==
  ASSUME NEW t, IsTree(t), NEW n \in DOMAIN t, NEW i \in 1 .. Len(t[n].kids)
  PROVE  /\ n < Kid(t, n, i)
         /\ Kid(t, n, i) + t[Kid(t, n, i)].span <= n + t[n].span
<1> DEFINE K == Len(t[n].kids)
           End(k) == Kid(t, n, k) + t[Kid(t, n, k)].span
<1>1. K \in Nat /\ 1 \in 1 .. K /\ K \in 1 .. K /\ n \in Nat /\ t[n].span \in Nat
  BY NodeShape
<1>2. \A k \in 1 .. K : Kid(t, n, k) \in Nat /\ t[Kid(t, n, k)].span \in Nat \ {0}
  BY NodeShape
<1>3. Kid(t, n, 1) = n + 1
  BY <1>1, NodeShape DEF KidStart
<1>4. End(K) = n + t[n].span
  <2>1. n + t[n].span = KidStart(t, n, K + 1)
    BY NodeShape
  <2>2. K + 1 # 1 /\ (K + 1) - 1 = K
    BY <1>1
  <2>3. QED
    BY <2>1, <2>2 DEF KidStart
<1>5. i = 1 \/ End(1) <= Kid(t, n, i)
  BY <1>1, KidsApart
<1>6. i = K \/ End(i) <= Kid(t, n, K)
  BY <1>1, KidsApart
<1>7. n < Kid(t, n, i)
  BY <1>1, <1>2, <1>3, <1>5
<1>8. End(i) <= End(K)
  <2>1. End(i) \in Nat /\ Kid(t, n, K) \in Nat /\ t[Kid(t, n, K)].span \in Nat
    BY <1>1, <1>2
  <2>2. QED
    BY <1>6, <2>1
<1>9. QED
  BY <1>4, <1>7, <1>8

\* The subtree of a node is the node and the subtrees of its children.
LEMMA KidsCover ==
  ASSUME NEW t, IsTree(t), NEW n \in DOMAIN t, NEW m \in Nat,
         Within(t, m, n), m # n
  PROVE  \E i \in 1 .. Len(t[n].kids) : Within(t, m, Kid(t, n, i))
<1> DEFINE K == Len(t[n].kids)
           T == {i \in 1 .. K : Kid(t, n, i) <= m}
<1>1. K \in Nat /\ n \in Nat /\ n < m /\ m < KidStart(t, n, K + 1)
  BY NodeShape DEF Within
<1>2. K # 0
  BY <1>1 DEF KidStart
<1>3. Kid(t, n, 1) = n + 1 /\ 1 \in 1 .. K
  BY <1>1, <1>2, NodeShape DEF KidStart
<1>4. T \in SUBSET (0 .. K) /\ T # {}
  BY <1>1, <1>3
<1>5. PICK i \in T : \A j \in T : j <= i
  <2> HIDE DEF T
  <2> QED
    BY <1>1, <1>4, Greatest
<1>6. i \in 1 .. K /\ Kid(t, n, i) <= m /\ i + 1 \notin T /\ i + 1 \in Nat
  BY <1>1, <1>5
<1>7. KidStart(t, n, i + 1) = Kid(t, n, i) + t[Kid(t, n, i)].span
  BY <1>6 DEF KidStart
<1>8. m < KidStart(t, n, i + 1)
  <2>1. CASE i = K
    BY <1>1, <2>1
  <2>2. CASE i # K
    <3>1. i + 1 \in 1 .. K
      BY <1>1, <1>6, <2>2
    <3>2. Kid(t, n, i + 1) = KidStart(t, n, i + 1) /\ Kid(t, n, i + 1) \in Nat
      BY <3>1, NodeShape
    <3>3. QED
      BY <1>6, <3>1, <3>2
  <2>3. QED
    BY <2>1, <2>2
<1>9. QED
  BY <1>6, <1>7, <1>8 DEF Within

(***************************************************************************)
(* Subtrees: of two, one holds the other or they are apart.                *)
(***************************************************************************)
LEMMA SubtreesNested ==
  ASSUME NEW t, IsTree(t), NEW a \in DOMAIN t, NEW b \in DOMAIN t, Within(t, b, a)
  PROVE  b + t[b].span <= a + t[a].span
<1> DEFINE Bad == {c \in 0 .. Len(t) : /\ c \in DOMAIN t /\ Within(t, b, c)
                                       /\ ~ b + t[b].span <= c + t[c].span}
<1>1. SUFFICES ASSUME Bad # {} PROVE FALSE
  <2>1. a \in 0 .. Len(t)
    BY NodeShape
  <2>2. QED
    BY <2>1
<1>2. PICK c \in Bad : \A d \in Bad : d <= c
  <2>1. Bad \in SUBSET (0 .. Len(t)) /\ Len(t) \in Nat
    BY NodeShape
  <2> HIDE DEF Bad
  <2>2. QED
    BY <1>1, <2>1, Greatest
<1>3. c \in DOMAIN t /\ Within(t, b, c) /\ c # b /\ b \in Nat
  BY <1>2, NodeShape
<1>4. PICK i \in 1 .. Len(t[c].kids) : Within(t, b, Kid(t, c, i))
  BY <1>3, KidsCover
<1> DEFINE d == Kid(t, c, i)
<1>5. d \in DOMAIN t /\ c < d /\ d + t[d].span <= c + t[c].span
  BY <1>3, NodeShape, KidsInside
<1> HIDE DEF d
<1>6. /\ b + t[b].span \in Nat /\ c + t[c].span \in Nat /\ d + t[d].span \in Nat
      /\ c \in Nat /\ d \in 0 .. Len(t)
  <2>1. \A n \in DOMAIN t : n \in 0 .. Len(t) /\ n \in Nat /\ t[n].span \in Nat
    BY NodeShape
  <2>2. QED
    BY <1>3, <1>5, <2>1, SMTT(30)
<1>7. d \in Bad
  BY <1>2, <1>4, <1>5, <1>6 DEF d
<1>8. QED
  BY <1>2, <1>5, <1>6, <1>7

\* What a child of n lies in: the child itself, and all that n lies in.
LEMMA AroundKid ==
  ASSUME NEW t, IsTree(t), NEW n \in DOMAIN t, NEW i \in 1 .. Len(t[n].kids),
         NEW b \in DOMAIN t
  PROVE  Within(t, Kid(t, n, i), b) <=> Within(t, n, b) \/ b = Kid(t, n, i)
<1> PICK k : k = Kid(t, n, i)
  OBVIOUS
<1>1. /\ k \in DOMAIN t /\ n < k /\ k + t[k].span <= n + t[n].span
      /\ n \in Nat /\ k \in Nat /\ b \in Nat
      /\ t[n].span \in Nat \ {0} /\ t[k].span \in Nat \ {0} /\ t[b].span \in Nat \ {0}
  BY NodeShape, KidsInside
<1>2. ASSUME Within(t, n, b) PROVE Within(t, k, b)
  BY <1>1, <1>2, SubtreesNested, SMTT(30) DEF Within
<1>3. Within(t, k, k)
  BY <1>1 DEF Within
<1>4. ASSUME Within(t, k, b), b # k PROVE Within(t, n, b)
  <2>1. b < k /\ k < b + t[b].span
    BY <1>1, <1>4 DEF Within
  <2>2. SUFFICES ASSUME n < b PROVE FALSE
    BY <1>1, <2>1 DEF Within
  <2>3. PICK j \in 1 .. Len(t[n].kids) : Within(t, b, Kid(t, n, j))
    <3>1. Within(t, b, n) /\ b # n
      BY <1>1, <2>1, <2>2 DEF Within
    <3>2. QED
      BY <1>1, <3>1, KidsCover
  <2> PICK m : m = Kid(t, n, j)
    OBVIOUS
  <2>4. m \in DOMAIN t /\ m \in Nat /\ t[m].span \in Nat /\ b + t[b].span <= m + t[m].span
    BY <2>3, NodeShape, SubtreesNested
  <2>5. CASE j < i
    BY <1>1, <2>1, <2>4, <2>5, KidsApart, SMTT(30)
  <2>6. CASE i < j
    <3>1. k + t[k].span <= m /\ m <= b
      BY <2>3, <2>6, KidsApart DEF Within
    <3>2. QED
      BY <1>1, <2>1, <2>4, <3>1
  <2>7. CASE i = j
    BY <1>1, <2>1, <2>3, <2>7 DEF Within
  <2>8. QED
    BY <2>5, <2>6, <2>7
<1>5. QED
  BY <1>2, <1>3, <1>4

LEMMA OneParent ==
  ASSUME NEW t, IsTree(t), NEW n \in DOMAIN t, NEW i \in 1 .. Len(t[n].kids),
         NEW m \in DOMAIN t, NEW j \in 1 .. Len(t[m].kids), Kid(t, n, i) = Kid(t, m, j)
  PROVE  n = m /\ i = j
<1> PICK k : k = Kid(t, n, i)
  OBVIOUS
<1>1. /\ n \in Nat /\ m \in Nat /\ k \in Nat /\ n < k /\ m < k
      /\ k + t[k].span <= n + t[n].span /\ k + t[k].span <= m + t[m].span
      /\ t[k].span \in Nat \ {0} /\ t[n].span \in Nat /\ t[m].span \in Nat
  BY NodeShape, KidsInside
<1>2. Within(t, k, n) /\ Within(t, k, m)
  BY <1>1, SMTT(30) DEF Within
<1>3. Within(t, n, m) /\ Within(t, m, n)
  BY <1>1, <1>2, AroundKid
<1>4. n = m
  BY <1>1, <1>3 DEF Within
<1>5. i < j \/ j < i \/ i = j
  BY NodeShape
<1>6. CASE i < j
  BY <1>1, <1>4, <1>6, KidsApart
<1>7. CASE j < i
  BY <1>1, <1>4, <1>7, KidsApart
<1>8. QED
  BY <1>4, <1>5, <1>6, <1>7

LEMMA Parent ==
  ASSUME NEW t, IsTree(t), NEW m \in DOMAIN t, m # 1
  PROVE  \E n \in DOMAIN t : \E i \in 1 .. Len(t[n].kids) : m = Kid(t, n, i)
<1> DEFINE T == {n \in 0 .. Len(t) : n \in DOMAIN t /\ Within(t, m, n) /\ n # m}
<1>1. DOMAIN t = 1 .. Len(t) /\ Len(t) \in Nat \ {0} /\ m \in Nat
  BY NodeShape
<1>2. 1 \in T
  BY <1>1 DEF IsTree, Within
<1>3. PICK n \in T : \A k \in T : k <= n
  <2>1. T \in SUBSET (0 .. Len(t)) /\ Len(t) \in Nat
    BY <1>1
  <2> HIDE DEF T
  <2>2. QED
    BY <1>2, <2>1, Greatest
<1>4. n \in DOMAIN t /\ Within(t, m, n) /\ n # m
  BY <1>3
<1>5. PICK i \in 1 .. Len(t[n].kids) : Within(t, m, Kid(t, n, i))
  BY <1>1, <1>4, KidsCover
<1>6. Kid(t, n, i) \in DOMAIN t /\ n < Kid(t, n, i) /\ n \in Nat
  BY <1>4, NodeShape, KidsInside
<1>7. Kid(t, n, i) = m
  <2>1. SUFFICES ASSUME Kid(t, n, i) # m PROVE FALSE
    OBVIOUS
  <2>2. Kid(t, n, i) \in T
    BY <1>1, <1>5, <1>6, <2>1
  <2> HIDE DEF T
  <2>3. QED
    BY <1>1, <1>3, <1>6, <2>2
<1>8. QED
  BY <1>4, <1>7

(***************************************************************************)
(* Functions are declared at the top, so the bodies of two are apart and   *)
(* the function around a node is the one whose body holds it.              *)
(***************************************************************************)
LEMMA KidsOfRoot ==
  ASSUME NEW t, IsProgram(t), NEW n \in DOMAIN t,
         n = 1 \/ t[n].kind \in {"Program", "Function"}
  PROVE  n = 1 \/ \E i \in 1 .. Len(t[1].kids) : n = Kid(t, 1, i)
<1>1. IsTree(t) /\ 1 \in DOMAIN t
  BY NodeShape DEF IsProgram, IsTree
<1>2. SUFFICES ASSUME n # 1 PROVE \E i \in 1 .. Len(t[1].kids) : n = Kid(t, 1, i)
  OBVIOUS
<1>3. ASSUME NEW m \in DOMAIN t, NEW i \in 1 .. Len(t[m].kids),
             t[Kid(t, m, i)].kind \in {"Program", "Function"}
      PROVE  t[m].kind = "Program" /\ t[Kid(t, m, i)].kind = "Function"
  <2>1. KidsFit(t, m) /\ t[m].kind \in NodeKinds /\ Len(t[m].kids) \in Nat
    BY <1>1, NodeShape
  <2>2. QED
    BY <1>3, <2>1
       DEF KidsFit, ExpressionKinds, LiteralKinds, StatementKinds, NodeKinds, DeclKinds
<1>4. PICK m \in DOMAIN t : \E i \in 1 .. Len(t[m].kids) : n = Kid(t, m, i)
  BY <1>1, <1>2, Parent
<1>5. t[m].kind = "Program"
  BY <1>2, <1>3, <1>4
<1>6. m = 1
  <2>1. SUFFICES ASSUME m # 1 PROVE FALSE
    OBVIOUS
  <2>2. PICK k \in DOMAIN t : \E j \in 1 .. Len(t[k].kids) : m = Kid(t, k, j)
    BY <1>1, <2>1, Parent
  <2>3. QED
    BY <1>3, <1>5, <2>2
<1>7. QED
  BY <1>4, <1>6

LEMMA BodyShape ==
  ASSUME NEW t, IsTree(t), NEW f \in FunctionsOf(t)
  PROVE  /\ f \in DOMAIN t
         /\ Len(t[f].kids) \in 1 .. Len(t[f].kids)
         /\ Body(t, f) = Kid(t, f, Len(t[f].kids))
         /\ Body(t, f) \in DOMAIN t
         /\ t[Body(t, f)].kind = "Compound"
<1>1. f \in DOMAIN t /\ t[f].kind = "Function"
  BY DEF FunctionsOf, NodesOf
<1> DEFINE K == Len(t[f].kids)
<1>2. K \in Nat /\ KidsFit(t, f)
  BY <1>1, NodeShape
<1>3. K \in 1 .. K
  BY <1>1, <1>2 DEF KidsFit
<1>4. Kid(t, f, K) \in DOMAIN t
  BY <1>1, <1>3, NodeShape
<1>5. t[Kid(t, f, K)].kind = "Compound"
  BY <1>1, <1>2 DEF KidsFit
<1>6. QED
  BY <1>1, <1>3, <1>4, <1>5 DEF Body, LastKid

\* No body lies around a program or a function, nor around a child of the root.
LEMMA NoBodyAroundRoot ==
  ASSUME NEW t, IsProgram(t), NEW n \in DOMAIN t, NEW f \in FunctionsOf(t),
         Within(t, n, Body(t, f))
  PROVE  n # 1 /\ t[n].kind # "Function" /\ ~ \E i \in 1 .. Len(t[1].kids) : n = Kid(t, 1, i)
<1>1. /\ IsTree(t) /\ 1 \in DOMAIN t /\ t[1].kind = "Program"
      /\ Body(t, f) \in DOMAIN t /\ t[Body(t, f)].kind = "Compound"
  BY BodyShape, NodeShape DEF IsProgram, IsTree
<1>2. ~ Within(t, 1, Body(t, f))
  <2>1. Body(t, f) \in Nat \ {0} /\ Body(t, f) # 1
    BY <1>1, NodeShape
  <2>2. QED
    BY <2>1 DEF Within
<1>3. ASSUME NEW i \in 1 .. Len(t[1].kids), n = Kid(t, 1, i) PROVE FALSE
  <2>1. n = Body(t, f)
    BY <1>1, <1>2, <1>3, AroundKid
  <2>2. Len(t[f].kids) \in 1 .. Len(t[f].kids) /\ n = Kid(t, f, Len(t[f].kids))
        /\ f \in DOMAIN t /\ t[f].kind = "Function"
    BY <1>1, <2>1, BodyShape DEF FunctionsOf, NodesOf
  <2>3. f = 1
    BY <1>1, <1>3, <2>2, OneParent
  <2>4. QED
    BY <1>1, <2>2, <2>3
<1>4. QED
  BY <1>2, <1>3, KidsOfRoot

LEMMA EnclosingKid ==
  ASSUME NEW t, IsProgram(t), NEW n \in DOMAIN t, NEW i \in 1 .. Len(t[n].kids),
         t[n].kind # "Function"
  PROVE  EnclosingFunction(t, Kid(t, n, i)) = EnclosingFunction(t, n)
<1>1. IsTree(t)
  BY DEF IsProgram
<1>2. ASSUME NEW f \in FunctionsOf(t)
      PROVE  Within(t, Kid(t, n, i), Body(t, f)) <=> Within(t, n, Body(t, f))
  <2>1. f \in DOMAIN t /\ t[f].kind = "Function" /\ Body(t, f) \in DOMAIN t
        /\ Len(t[f].kids) \in 1 .. Len(t[f].kids) /\ Body(t, f) = Kid(t, f, Len(t[f].kids))
    BY <1>1, BodyShape DEF FunctionsOf, NodesOf
  <2>2. Body(t, f) # Kid(t, n, i)
    BY <1>1, <2>1, OneParent
  <2>3. QED
    BY <1>1, <2>1, <2>2, AroundKid
<1>3. {f \in FunctionsOf(t) : Within(t, Kid(t, n, i), Body(t, f))} =
      {f \in FunctionsOf(t) : Within(t, n, Body(t, f))}
  BY <1>2
<1>4. QED
  BY <1>3 DEF EnclosingFunction

LEMMA EnclosingTop ==
  ASSUME NEW t, IsProgram(t), NEW n \in DOMAIN t,
         n = 1 \/ t[n].kind = "Function" \/ \E i \in 1 .. Len(t[1].kids) : n = Kid(t, 1, i)
  PROVE  EnclosingFunction(t, n) = nullptr
<1>1. {f \in FunctionsOf(t) : Within(t, n, Body(t, f))} = {}
  BY NoBodyAroundRoot
<1>2. QED
  BY <1>1 DEF EnclosingFunction

LEMMA EnclosingParameter ==
  ASSUME NEW t, IsProgram(t), NEW f \in FunctionsOf(t), NEW i \in 1 .. Len(t[f].kids) - 1
  PROVE  EnclosingFunction(t, Kid(t, f, i)) = nullptr
<1> PICK k : k = Len(t[f].kids)
  OBVIOUS
<1>1. IsTree(t) /\ f \in DOMAIN t /\ t[f].kind = "Function" /\ k \in 1 .. k
  BY BodyShape DEF IsProgram, FunctionsOf, NodesOf
<1>2. i \in 1 .. Len(t[f].kids) /\ i # Len(t[f].kids)
  BY <1>1
<1>3. ASSUME NEW g \in FunctionsOf(t), Within(t, Kid(t, f, i), Body(t, g))
      PROVE  FALSE
  <2>1. /\ g \in DOMAIN t /\ Body(t, g) \in DOMAIN t
        /\ Len(t[g].kids) \in 1 .. Len(t[g].kids) /\ Body(t, g) = Kid(t, g, Len(t[g].kids))
    BY <1>1, BodyShape
  <2>2. ~ Within(t, f, Body(t, g))
    BY <1>1, NoBodyAroundRoot
  <2>3. Body(t, g) = Kid(t, f, i)
    BY <1>1, <1>2, <1>3, <2>1, <2>2, AroundKid
  <2>4. f = g /\ i = Len(t[g].kids)
    <3> PICK j : j = Len(t[g].kids)
      OBVIOUS
    <3>1. Kid(t, f, i) = Kid(t, g, j) /\ j \in 1 .. Len(t[g].kids)
      BY <2>1, <2>3
    <3>2. QED
      BY <1>1, <1>2, <2>1, <3>1, OneParent
  <2>5. QED
    BY <1>2, <2>4
<1>4. {g \in FunctionsOf(t) : Within(t, Kid(t, f, i), Body(t, g))} = {}
  BY <1>3
<1>5. QED
  BY <1>4 DEF EnclosingFunction

LEMMA EnclosingBody ==
  ASSUME NEW t, IsProgram(t), NEW f \in FunctionsOf(t)
  PROVE  EnclosingFunction(t, Body(t, f)) = f
<1>1. /\ IsTree(t) /\ f \in DOMAIN t /\ t[f].kind = "Function" /\ Body(t, f) \in DOMAIN t
      /\ Len(t[f].kids) \in 1 .. Len(t[f].kids) /\ Body(t, f) = Kid(t, f, Len(t[f].kids))
  BY BodyShape DEF IsProgram, FunctionsOf, NodesOf
<1>2. Within(t, Body(t, f), Body(t, f))
  BY <1>1, AroundKid
<1>3. ASSUME NEW g \in FunctionsOf(t), Within(t, Body(t, f), Body(t, g))
      PROVE  g = f
  <2>1. /\ g \in DOMAIN t /\ Body(t, g) \in DOMAIN t
        /\ Len(t[g].kids) \in 1 .. Len(t[g].kids) /\ Body(t, g) = Kid(t, g, Len(t[g].kids))
    BY <1>1, BodyShape
  <2>2. ~ Within(t, f, Body(t, g))
    BY <1>1, NoBodyAroundRoot
  <2>3. Body(t, g) = Body(t, f)
    BY <1>1, <1>3, <2>1, <2>2, AroundKid
  <2> PICK i : i = Len(t[f].kids)
    OBVIOUS
  <2> PICK j : j = Len(t[g].kids)
    OBVIOUS
  <2>4. /\ Kid(t, f, i) = Kid(t, g, j)
        /\ i \in 1 .. Len(t[f].kids) /\ j \in 1 .. Len(t[g].kids)
    BY <1>1, <2>1, <2>3
  <2>5. QED
    BY <1>1, <2>1, <2>4, OneParent
<1>4. {g \in FunctionsOf(t) : Within(t, Body(t, f), Body(t, g))} = {f}
  BY <1>2, <1>3
<1>5. f \in Nat /\ Max({f}) = f
  <2>1. f \in Nat
    BY <1>1, NodeShape
  <2>2. QED
    BY <2>1 DEF Max
<1>6. QED
  BY <1>4, <1>5 DEF EnclosingFunction

(***************************************************************************)
(* The recursive functions over the nodes of a tree.                       *)
(***************************************************************************)
\* A node is at itself, or where its first child is.
LEMMA LocationsDefined ==
  ASSUME NEW t, IsTree(t)
  PROVE  /\ Locations(t) = [n \in DOMAIN t |-> IF t[n].kind \in StartsWithChild
                                              THEN Locations(t)[n + 1] ELSE n]
         /\ \A n \in DOMAIN t : LocationOf(t, n) \in DOMAIN t
<1> DEFINE V == DOMAIN t
           At(g, n) == IF t[n].kind \in StartsWithChild THEN g[n + 1] ELSE n
           F == [x \in V \X [V -> V] |-> At(x[2], x[1])]
           rank == [n \in V |-> Len(t) - n]
           P(loc) == loc = [n \in DOMAIN t |-> At(loc, n)]
<1>1. V = 1 .. Len(t) /\ Len(t) \in Nat \ {0} /\ V # {}
  BY DEF IsTree
<1>2. ASSUME NEW n \in V, t[n].kind \in StartsWithChild PROVE n + 1 \in V
  <2>1. KidsFit(t, n) /\ Len(t[n].kids) \in Nat
    BY NodeShape
  <2>2. 1 \in 1 .. Len(t[n].kids)
    BY <1>2, <2>1, SMTT(30) DEF KidsFit, StartsWithChild
  <2>3. Kid(t, n, 1) \in V /\ Kid(t, n, 1) = n + 1
    BY <2>2, NodeShape DEF KidStart
  <2>4. QED
    BY <2>3
<1>3. \E g : P(g)
  <2>1. rank \in [V -> 0 .. Len(t)]
    BY <1>1
  <2>2. F \in [V \X [V -> V] -> V]
    BY <1>2
  <2>3. ASSUME NEW n \in V, NEW g \in [V -> V], NEW h \in [V -> V],
               \A m \in V : rank[m] < rank[n] => g[m] = h[m]
        PROVE  F[<< n, g >>] = F[<< n, h >>]
    <3>1. t[n].kind \in StartsWithChild => g[n + 1] = h[n + 1]
      BY <1>1, <1>2, <2>3
    <3>2. QED
      BY <3>1
  <2> HIDE DEF rank, F, V
  <2>4. \E g \in [V -> V] : \A n \in V : g[n] = F[<< n, g >>]
    <3>1. LooksBelow(V, V, Len(t), rank, F)
      BY <1>1, <2>1, <2>2, <2>3 DEF LooksBelow
    <3>2. QED
      BY <3>1, Recursion
  <2>5. PICK g \in [V -> V] : \A n \in V : g[n] = F[<< n, g >>]
    BY <2>4
  <2>6. P(g)
    BY <2>5 DEF F, V
  <2>7. QED
    BY <2>6
<1>4. Locations(t) = CHOOSE g : P(g)
  BY DEF Locations
<1>5. P(Locations(t))
  <2> HIDE DEF P
  <2> QED
    BY <1>3, <1>4
<1>6. ASSUME NEW n \in V PROVE Locations(t)[n] \in V
  <2> DEFINE Bad == {m \in 0 .. Len(t) : m \in V /\ Locations(t)[m] \notin V}
  <2>1. SUFFICES ASSUME Bad # {} PROVE FALSE
    BY <1>1
  <2>2. PICK m \in Bad : \A k \in Bad : k <= m
    <3>1. Bad \in SUBSET (0 .. Len(t)) /\ Len(t) \in Nat
      BY <1>1
    <3> HIDE DEF Bad
    <3>2. QED
      BY <2>1, <3>1, Greatest
  <2>3. m \in V /\ Locations(t)[m] = At(Locations(t), m) /\ Locations(t)[m] \notin V
    BY <1>5, <2>2
  <2>4. t[m].kind \in StartsWithChild
    BY <2>3
  <2>5. m + 1 \in V /\ Locations(t)[m + 1] \notin V /\ m + 1 \in 0 .. Len(t)
    BY <1>1, <1>2, <2>3, <2>4
  <2>6. QED
    BY <1>1, <2>2, <2>3, <2>5
<1>7. QED
  BY <1>5, <1>6 DEF LocationOf

(***************************************************************************)
(* Statements.                                                             *)
(***************************************************************************)
LEMMA KidsSequence ==
  ASSUME NEW t, IsTree(t), NEW n \in DOMAIN t
  PROVE  /\ Kids(t, n) \in Seq(DOMAIN t)
         /\ Len(Kids(t, n)) = Len(t[n].kids)
         /\ Len(t[n].kids) \in Nat
         /\ \A i \in 1 .. Len(t[n].kids) : Kids(t, n)[i] = Kid(t, n, i)
<1>1. DOMAIN t[n].kids = 1 .. Len(t[n].kids) /\ Len(t[n].kids) \in Nat
  BY NodeShape
<1>2. \A i \in 1 .. Len(t[n].kids) : Kid(t, n, i) \in DOMAIN t
  BY NodeShape
<1>3. Kids(t, n) \in [1 .. Len(t[n].kids) -> DOMAIN t]
  BY <1>1, <1>2 DEF Kids
<1>4. Kids(t, n) \in Seq(DOMAIN t)
  BY <1>1, <1>3, SeqDef
<1>5. QED
  BY <1>1, <1>3, <1>4 DEF Kids

\* A block is its local variables and then its statements.
LEMMA BlockParts ==
  ASSUME NEW t, IsTree(t), NEW n \in DOMAIN t, t[n].kind = "Compound"
  PROVE  /\ t[n].locals \in 0 .. Len(t[n].kids) /\ Len(t[n].kids) \in Nat
         /\ LocalDecls(t, n) \in Seq(DOMAIN t) /\ Len(LocalDecls(t, n)) = t[n].locals
         /\ \A i \in 1 .. t[n].locals :
              /\ LocalDecls(t, n)[i] = Kid(t, n, i)
              /\ t[Kid(t, n, i)].kind \in {"Variable", "Array"}
         /\ Statements(t, n) \in Seq(DOMAIN t)
         /\ Len(Statements(t, n)) = Len(t[n].kids) - t[n].locals
         /\ \A i \in 1 .. Len(t[n].kids) - t[n].locals :
              /\ Statements(t, n)[i] = Kid(t, n, t[n].locals + i)
              /\ t[n].locals + i \in 1 .. Len(t[n].kids)
              /\ t[Kid(t, n, t[n].locals + i)].kind \in StatementKinds
<1> DEFINE ks == Kids(t, n)
<1> PICK l : l = t[n].locals
  OBVIOUS
<1> PICK k : k = Len(t[n].kids)
  OBVIOUS
<1>1. ks \in Seq(DOMAIN t) /\ Len(ks) = k /\ k \in Nat /\ \A i \in 1 .. k : ks[i] = Kid(t, n, i)
  BY KidsSequence
<1>2. /\ l \in 0 .. k
      /\ \A i \in 1 .. l : t[Kid(t, n, i)].kind \in {"Variable", "Array"}
      /\ \A i \in l + 1 .. k : t[Kid(t, n, i)].kind \in StatementKinds
  BY NodeShape DEF KidsFit
<1> HIDE DEF ks
<1>3. \A i \in 1 .. k : ks[i] \in DOMAIN t
  BY <1>1
<1>4. /\ SubSeq(ks, 1, l) \in Seq(DOMAIN t) /\ Len(SubSeq(ks, 1, l)) = l
      /\ \A i \in 1 .. l : SubSeq(ks, 1, l)[i] = ks[i]
  <2>1. \A i \in 1 .. l : ks[i] \in DOMAIN t
    BY <1>2, <1>3
  <2>2. l \in Int /\ (1 > l => l = 0)
    BY <1>1, <1>2
  <2>3. /\ SubSeq(ks, 1, l) \in Seq(DOMAIN t)
        /\ Len(SubSeq(ks, 1, l)) = IF 1 <= l THEN l - 1 + 1 ELSE 0
        /\ \A i \in 1 .. l - 1 + 1 : SubSeq(ks, 1, l)[i] = ks[1 + i - 1]
    BY <2>1, <2>2, SubSeqProperties
  <2>4. QED
    BY <1>1, <1>2, <2>3
<1>5. /\ SubSeq(ks, l + 1, k) \in Seq(DOMAIN t) /\ Len(SubSeq(ks, l + 1, k)) = k - l
      /\ \A i \in 1 .. k - l : SubSeq(ks, l + 1, k)[i] = ks[l + i]
  <2>1. \A i \in l + 1 .. k : ks[i] \in DOMAIN t
    BY <1>2, <1>3
  <2>2. l + 1 \in Int /\ k \in Int
    BY <1>1, <1>2
  <2>3. /\ SubSeq(ks, l + 1, k) \in Seq(DOMAIN t)
        /\ Len(SubSeq(ks, l + 1, k)) = IF l + 1 <= k THEN k - (l + 1) + 1 ELSE 0
        /\ \A i \in 1 .. k - (l + 1) + 1 : SubSeq(ks, l + 1, k)[i] = ks[(l + 1) + i - 1]
    BY <2>1, <2>2, SubSeqProperties
  <2>4. l \in Nat /\ k \in Nat /\ l <= k /\ k - (l + 1) + 1 = k - l
    BY <1>1, <1>2
  <2>5. ASSUME NEW i \in 1 .. k - l PROVE SubSeq(ks, l + 1, k)[i] = ks[l + i]
    <3>1. (l + 1) + i - 1 = l + i
      BY <2>4
    <3>2. QED
      BY <2>3, <2>4, <3>1
  <2>6. Len(SubSeq(ks, l + 1, k)) = k - l
    <3>1. CASE l + 1 <= k
      BY <2>3, <2>4, <3>1
    <3>2. CASE ~ l + 1 <= k
      BY <2>3, <2>4, <3>2
    <3>3. QED
      BY <3>1, <3>2
  <2>7. QED
    BY <2>3, <2>5, <2>6
<1>6. LocalDecls(t, n) = SubSeq(ks, 1, l) /\ Statements(t, n) = SubSeq(ks, l + 1, k)
  BY DEF LocalDecls, Statements, ks
<1>7. \A i \in 1 .. l : LocalDecls(t, n)[i] = Kid(t, n, i)
  BY <1>1, <1>2, <1>4, <1>6
<1>8. ASSUME NEW i \in 1 .. k - l
      PROVE  /\ Statements(t, n)[i] = Kid(t, n, l + i) /\ l + i \in 1 .. k
             /\ t[Kid(t, n, l + i)].kind \in StatementKinds
  <2>1. l + i \in 1 .. k /\ l + i \in l + 1 .. k
    BY <1>1, <1>2
  <2>2. QED
    BY <1>1, <1>2, <1>5, <1>6, <2>1
<1>9. QED
  BY <1>1, <1>2, <1>4, <1>5, <1>6, <1>7, <1>8

LEMMA FrontParts ==
  ASSUME NEW S, NEW s \in Seq(S), s # << >>
  PROVE  /\ Len(s) \in Nat \ {0}
         /\ Front(s) \in Seq(S) /\ Len(Front(s)) = Len(s) - 1
         /\ \A i \in 1 .. Len(s) - 1 : Front(s)[i] = s[i]
<1> PICK k : k = Len(s)
  OBVIOUS
<1>1. k \in Nat \ {0} /\ \A i \in 1 .. k : s[i] \in S
  BY EmptySeq
<1>2. /\ SubSeq(s, 1, k - 1) \in Seq(S)
      /\ Len(SubSeq(s, 1, k - 1)) = IF 1 <= k - 1 THEN k - 1 - 1 + 1 ELSE 0
      /\ \A i \in 1 .. k - 1 - 1 + 1 : SubSeq(s, 1, k - 1)[i] = s[1 + i - 1]
  <2>1. \A i \in 1 .. k - 1 : s[i] \in S
    BY <1>1
  <2>2. k - 1 \in Int
    BY <1>1
  <2>3. QED
    BY <2>1, <2>2, SubSeqProperties
<1>3. Len(SubSeq(s, 1, k - 1)) = k - 1
  BY <1>1, <1>2
<1>4. \A i \in 1 .. k - 1 : SubSeq(s, 1, k - 1)[i] = s[i]
  BY <1>1, <1>2
<1>5. QED
  BY <1>1, <1>2, <1>3, <1>4 DEF Front

LEMMA MembersTyped ==
  ASSUME NEW A, NEW B, NEW s \in Seq(A), \A i \in 1 .. Len(s) : s[i] \in B
  PROVE  s \in Seq(B)
<1>1. Len(s) \in Nat /\ s = [i \in 1 .. Len(s) |-> s[i]]
  OBVIOUS
<1>2. s \in [1 .. Len(s) -> B]
  BY <1>1
<1>3. QED
  BY <1>1, <1>2, SeqDef

\* A function is its parameters and then its body.
LEMMA FunctionParts ==
  ASSUME NEW t, IsTree(t), NEW n \in DOMAIN t, t[n].kind = "Function"
  PROVE  /\ Len(t[n].kids) \in Nat \ {0}
         /\ Parameters(t, n) \in Seq(DeclsOf(t)) /\ Len(Parameters(t, n)) = Len(t[n].kids) - 1
         /\ \A i \in 1 .. Len(t[n].kids) - 1 :
              /\ Parameters(t, n)[i] = Kid(t, n, i)
              /\ i \in 1 .. Len(t[n].kids)
              /\ t[Kid(t, n, i)].kind = "Parameter"
         /\ Body(t, n) = Kid(t, n, Len(t[n].kids))
         /\ Body(t, n) \in DOMAIN t
         /\ t[Body(t, n)].kind = "Compound"
<1> DEFINE ks == Kids(t, n)
<1> PICK k : k = Len(t[n].kids)
  OBVIOUS
<1>1. ks \in Seq(DOMAIN t) /\ Len(ks) = k /\ k \in Nat /\ \A i \in 1 .. k : ks[i] = Kid(t, n, i)
  BY KidsSequence
<1>2. /\ k \in Nat \ {0}
      /\ \A i \in 1 .. k - 1 : t[Kid(t, n, i)].kind = "Parameter"
  BY <1>1, NodeShape DEF KidsFit
<1>3. /\ Body(t, n) = Kid(t, n, k) /\ Body(t, n) \in DOMAIN t /\ t[Body(t, n)].kind = "Compound"
  <2>1. n \in FunctionsOf(t)
    BY DEF FunctionsOf, NodesOf
  <2>2. QED
    BY <2>1, BodyShape
<1>4. /\ Parameters(t, n) \in Seq(DOMAIN t) /\ Len(Parameters(t, n)) = k - 1
      /\ \A i \in 1 .. k - 1 : Parameters(t, n)[i] = ks[i]
  <2>1. ks # << >>
    BY <1>1, <1>2
  <2>2. QED
    BY <1>1, <2>1, FrontParts DEF Parameters
<1> HIDE DEF ks
<1>5. \A i \in 1 .. k - 1 : i \in 1 .. k
  BY <1>1
<1>6. \A i \in 1 .. k - 1 : ks[i] \in DeclsOf(t)
  <2>1. \A i \in 1 .. k - 1 : Kid(t, n, i) \in DOMAIN t
    BY <1>5, NodeShape
  <2>2. QED
    BY <1>1, <1>2, <1>5, <2>1 DEF DeclsOf, DeclKinds
<1>7. Parameters(t, n) \in Seq(DeclsOf(t))
  BY <1>4, <1>6, MembersTyped
<1>8. \A i \in 1 .. k - 1 : Parameters(t, n)[i] = Kid(t, n, i)
  BY <1>1, <1>4, <1>5
<1>9. QED
  BY <1>1, <1>2, <1>3, <1>4, <1>5, <1>7, <1>8

LEMMA StatementsInside ==
  ASSUME NEW t, IsTree(t), NEW n \in NodesOf(t, StatementKinds)
  PROVE  /\ n \in DOMAIN t /\ n \in Nat /\ t[n].kind \in StatementKinds
         /\ t[n].kind = "While" => Len(t[n].kids) = 2
         /\ t[n].kind = "If" => Len(t[n].kids) \in {2, 3}
         /\ t[n].kind \in {"If", "While"} =>
              Kid(t, n, 2) \in NodesOf(t, StatementKinds) /\ n < Kid(t, n, 2)
         /\ t[n].kind = "If" /\ Len(t[n].kids) = 3 =>
              Kid(t, n, 3) \in NodesOf(t, StatementKinds) /\ n < Kid(t, n, 3)
         /\ t[n].kind = "Compound" =>
              \A i \in DOMAIN Statements(t, n) :
                /\ Statements(t, n)[i] \in NodesOf(t, StatementKinds)
                /\ n < Statements(t, n)[i]
<1>1. n \in DOMAIN t /\ n \in Nat /\ t[n].kind \in StatementKinds
  BY NodeShape DEF NodesOf
<1>2. KidsFit(t, n) /\ Len(t[n].kids) \in Nat
  BY <1>1, NodeShape
<1>3. ASSUME t[n].kind \in {"If", "While"}, NEW i \in 2 .. Len(t[n].kids)
      PROVE  Kid(t, n, i) \in NodesOf(t, StatementKinds) /\ n < Kid(t, n, i)
  <2>1. i \in 1 .. Len(t[n].kids) /\ t[Kid(t, n, i)].kind \in StatementKinds
    BY <1>2, <1>3 DEF KidsFit
  <2>2. Kid(t, n, i) \in DOMAIN t /\ n < Kid(t, n, i)
    BY <1>1, <2>1, NodeShape, KidsInside
  <2>3. QED
    BY <2>1, <2>2 DEF NodesOf
<1>4. ASSUME t[n].kind = "Compound", NEW i \in DOMAIN Statements(t, n)
      PROVE  Statements(t, n)[i] \in NodesOf(t, StatementKinds) /\ n < Statements(t, n)[i]
  <2> PICK l : l = t[n].locals
    OBVIOUS
  <2>1. i \in 1 .. Len(t[n].kids) - l
    BY <1>1, <1>4, BlockParts
  <2>2. /\ Statements(t, n)[i] = Kid(t, n, l + i) /\ l + i \in 1 .. Len(t[n].kids)
        /\ t[Kid(t, n, l + i)].kind \in StatementKinds
    BY <1>1, <1>4, <2>1, BlockParts
  <2>3. Kid(t, n, l + i) \in DOMAIN t /\ n < Kid(t, n, l + i)
    BY <1>1, <2>2, NodeShape, KidsInside
  <2>4. QED
    BY <2>2, <2>3 DEF NodesOf
<1>5. /\ t[n].kind = "While" => Len(t[n].kids) = 2
      /\ t[n].kind = "If" => Len(t[n].kids) \in {2, 3}
  BY <1>2 DEF KidsFit
<1>6. ASSUME t[n].kind \in {"If", "While"}
      PROVE  Kid(t, n, 2) \in NodesOf(t, StatementKinds) /\ n < Kid(t, n, 2)
  <2>1. 2 \in 2 .. Len(t[n].kids)
    BY <1>5, <1>6, SMTT(30)
  <2>2. QED
    BY <1>3, <1>6, <2>1
<1>7. ASSUME t[n].kind = "If", Len(t[n].kids) = 3
      PROVE  Kid(t, n, 3) \in NodesOf(t, StatementKinds) /\ n < Kid(t, n, 3)
  BY <1>3, <1>7
<1>8. QED
  BY <1>1, <1>4, <1>5, <1>6, <1>7

LEMMA OutcomeCases ==
  ASSUME NEW t, IsTree(t), NEW n \in NodesOf(t, StatementKinds), NEW out
  PROVE  /\ t[n].kind = "Return" => OutcomeOf(t, out, n) = {"returns"}
         /\ t[n].kind = "ExpressionStmt" => OutcomeOf(t, out, n) = {"falls"}
         /\ t[n].kind = "Compound" =>
              OutcomeOf(t, out, n) =
                {o \in {"falls", "returns"} :
                   IF o = "falls"
                   THEN \A i \in DOMAIN Statements(t, n) : o \in out[Statements(t, n)[i]]
                   ELSE \E i \in {i \in DOMAIN Statements(t, n) :
                                   \A j \in 1 .. i - 1 : "falls" \in out[Statements(t, n)[j]]} :
                          o \in out[Statements(t, n)[i]]}
         /\ t[n].kind = "While" => OutcomeOf(t, out, n) = out[Kid(t, n, 2)] \cup {"falls"}
         /\ t[n].kind = "If" =>
              OutcomeOf(t, out, n) = out[Kid(t, n, 2)] \cup
                (IF Len(t[n].kids) = 3 THEN out[Kid(t, n, 3)] ELSE {"falls"})
<1>1. CASE t[n].kind = "Return"
  BY <1>1, Zenon DEF OutcomeOf
<1>2. CASE t[n].kind = "ExpressionStmt"
  BY <1>2, Zenon DEF OutcomeOf
<1>3. CASE t[n].kind = "Compound"
  BY <1>3, Zenon DEF OutcomeOf
<1>4. CASE t[n].kind = "While"
  BY <1>4, Zenon DEF OutcomeOf
<1>5. CASE t[n].kind = "If"
  BY <1>5, Zenon DEF OutcomeOf
<1>6. QED
  BY <1>1, <1>2, <1>3, <1>4, <1>5, Zenon

LEMMA OutcomesDefined ==
  ASSUME NEW t, IsTree(t)
  PROVE  OutcomesOf(t) = [n \in NodesOf(t, StatementKinds) |-> OutcomeOf(t, OutcomesOf(t), n)]
<1> DEFINE S == NodesOf(t, StatementKinds)
           V == SUBSET {"falls", "returns"}
           F == [x \in S \X [S -> V] |-> OutcomeOf(t, x[2], x[1])]
           rank == [n \in S |-> Len(t) - n]
           P(out) == out = [n \in S |-> OutcomeOf(t, out, n)]
<1>1. Len(t) \in Nat /\ \A n \in S : n \in 1 .. Len(t)
  BY DEF IsTree, NodesOf
<1>2. V # {} /\ rank \in [S -> 0 .. Len(t)]
  BY <1>1
<1>3. F \in [S \X [S -> V] -> V]
  <2>1. ASSUME NEW n \in S, NEW g \in [S -> V] PROVE OutcomeOf(t, g, n) \in V
    <3>1. t[n].kind \in StatementKinds
      BY StatementsInside
    <3>2. CASE t[n].kind \in {"Return", "ExpressionStmt"}
      BY <3>2, OutcomeCases
    <3>3. CASE t[n].kind = "Compound"
      BY <3>3, OutcomeCases
    <3>4. CASE t[n].kind = "While"
      <4>1. g[Kid(t, n, 2)] \in V
        BY <3>4, StatementsInside
      <4>2. QED
        BY <3>4, <4>1, OutcomeCases
    <3>5. CASE t[n].kind = "If"
      <4>1. g[Kid(t, n, 2)] \in V /\ (Len(t[n].kids) = 3 => g[Kid(t, n, 3)] \in V)
        BY <3>5, StatementsInside
      <4>2. QED
        BY <3>5, <4>1, OutcomeCases
    <3>6. QED
      BY <3>1, <3>2, <3>3, <3>4, <3>5 DEF StatementKinds
  <2>2. QED
    BY <2>1
<1>4. ASSUME NEW n \in S, NEW g \in [S -> V], NEW h \in [S -> V],
             \A m \in S : rank[m] < rank[n] => g[m] = h[m]
      PROVE  F[<< n, g >>] = F[<< n, h >>]
  <2>1. \A m \in S : n < m => g[m] = h[m]
    BY <1>1, <1>4
  <2>2. OutcomeOf(t, g, n) = OutcomeOf(t, h, n)
    <3>1. t[n].kind \in StatementKinds
      BY StatementsInside
    <3>2. CASE t[n].kind \in {"Return", "ExpressionStmt"}
      BY <3>2, OutcomeCases, ZenonT(40)
    <3>3. CASE t[n].kind = "Compound"
      <4>1. DOMAIN Statements(t, n) = 1 .. Len(t[n].kids) - t[n].locals
        BY <3>3, BlockParts, StatementsInside
      <4>2. \A i \in DOMAIN Statements(t, n) : g[Statements(t, n)[i]] = h[Statements(t, n)[i]]
        BY <2>1, <3>3, StatementsInside
      <4>3. \A i \in DOMAIN Statements(t, n) : \A j \in 1 .. i - 1 : j \in DOMAIN Statements(t, n)
        BY <3>3, <4>1, BlockParts, StatementsInside
      <4>4. {i \in DOMAIN Statements(t, n) :
               \A j \in 1 .. i - 1 : "falls" \in g[Statements(t, n)[j]]} =
            {i \in DOMAIN Statements(t, n) :
               \A j \in 1 .. i - 1 : "falls" \in h[Statements(t, n)[j]]}
        BY <4>2, <4>3
      <4>5. (\A i \in DOMAIN Statements(t, n) : "falls" \in g[Statements(t, n)[i]]) <=>
            (\A i \in DOMAIN Statements(t, n) : "falls" \in h[Statements(t, n)[i]])
        BY <4>2
      <4> DEFINE R(f) == {i \in DOMAIN Statements(t, n) :
                            \A j \in 1 .. i - 1 : "falls" \in f[Statements(t, n)[j]]}
                 O(f) == {o \in {"falls", "returns"} :
                            IF o = "falls"
                            THEN \A i \in DOMAIN Statements(t, n) : o \in f[Statements(t, n)[i]]
                            ELSE \E i \in R(f) : o \in f[Statements(t, n)[i]]}
      <4>6. R(g) = R(h)
        BY <4>4
      <4>7. O(g) = O(h)
        <5>1. R(h) \subseteq DOMAIN Statements(t, n)
          OBVIOUS
        <5> HIDE DEF R
        <5>2. QED
          BY <4>2, <4>5, <4>6, <5>1
      <4>8. OutcomeOf(t, g, n) = O(g) /\ OutcomeOf(t, h, n) = O(h)
        BY <3>3, OutcomeCases
      <4>9. QED
        BY <4>7, <4>8
    <3>4. CASE t[n].kind = "While"
      <4>1. g[Kid(t, n, 2)] = h[Kid(t, n, 2)]
        BY <2>1, <3>4, StatementsInside
      <4>2. \A f : OutcomeOf(t, f, n) = f[Kid(t, n, 2)] \cup {"falls"}
        BY <3>4, OutcomeCases
      <4>3. QED
        BY <4>1, <4>2
    <3>5. CASE t[n].kind = "If"
      <4>1. g[Kid(t, n, 2)] = h[Kid(t, n, 2)]
            /\ (Len(t[n].kids) = 3 => g[Kid(t, n, 3)] = h[Kid(t, n, 3)])
        BY <2>1, <3>5, StatementsInside
      <4>2. \A f : OutcomeOf(t, f, n) = f[Kid(t, n, 2)] \cup
                      (IF Len(t[n].kids) = 3 THEN f[Kid(t, n, 3)] ELSE {"falls"})
        BY <3>5, OutcomeCases
      <4>3. QED
        BY <4>1, <4>2
    <3>6. QED
      BY <3>1, <3>2, <3>3, <3>4, <3>5 DEF StatementKinds
  <2>3. QED
    BY <2>2
<1>5. \E g : P(g)
  <2> HIDE DEF rank, F, V, S
  <2>1. LooksBelow(S, V, Len(t), rank, F)
    BY <1>1, <1>2, <1>3, <1>4 DEF LooksBelow
  <2>2. PICK g \in [S -> V] : \A n \in S : g[n] = F[<< n, g >>]
    BY <2>1, Recursion
  <2>3. P(g)
    BY <2>2 DEF F
  <2>4. QED
    BY <2>3
<1>6. OutcomesOf(t) = CHOOSE g : P(g)
  BY DEF OutcomesOf
<1>7. QED
  <2> HIDE DEF P
  <2>1. P(OutcomesOf(t))
    BY <1>5, <1>6
  <2>2. QED
    BY <2>1 DEF P

\* Whether control may fall out of a statement, by its kind.
LEMMA FallsThrough ==
  ASSUME NEW t, IsTree(t), NEW n \in NodesOf(t, StatementKinds)
  PROVE  LET Falls(m) == "falls" \in OutcomesOf(t)[m]
         IN  /\ t[n].kind = "Return" => ~ Falls(n)
             /\ t[n].kind \in {"ExpressionStmt", "While"} => Falls(n)
             /\ t[n].kind = "Compound" =>
                  (Falls(n) <=> \A i \in DOMAIN Statements(t, n) : Falls(Statements(t, n)[i]))
             /\ t[n].kind = "If" =>
                  (Falls(n) <=> \/ Len(t[n].kids) = 2
                                \/ Falls(Kid(t, n, 2))
                                \/ Falls(Kid(t, n, 3)))
<1> PICK out : out = OutcomesOf(t)
  OBVIOUS
<1>1. out[n] = OutcomeOf(t, out, n)
  BY OutcomesDefined
<1>2. CASE t[n].kind \in {"Return", "ExpressionStmt", "While"}
  BY <1>1, <1>2, OutcomeCases
<1>3. CASE t[n].kind = "Compound"
  BY <1>1, <1>3, OutcomeCases
<1>4. CASE t[n].kind = "If"
  <2>1. Len(t[n].kids) \in {2, 3}
    BY <1>4, StatementsInside
  <2>2. QED
    BY <1>1, <1>4, <2>1, OutcomeCases
<1>5. QED
  BY <1>2, <1>3, <1>4

(***************************************************************************)
(* The stack of a walk.                                                    *)
(***************************************************************************)
\* Continue leaves the work below the top as it is and puts the first of the
\* new tasks on top.
LEMMA ContinueStack ==
  ASSUME NEW S, stack \in Seq(S), stack # << >>,
         NEW tasks \in Seq(S), Continue(tasks)
  PROVE  /\ stack' \in Seq(S)
         /\ Len(stack') = Len(stack) - 1 + Len(tasks)
         /\ \A i \in 1 .. Len(stack) - 1 : stack'[i] = stack[i]
         /\ \A i \in 1 .. Len(tasks) :
              stack'[Len(stack) - 1 + i] = tasks[Len(tasks) - i + 1]
<1> DEFINE below == Front(stack)
           above == Reverse(tasks)
<1>1. Len(stack) \in Nat \ {0} /\ Len(tasks) \in Nat
  BY EmptySeq
<1>2. /\ below \in Seq(S) /\ Len(below) = Len(stack) - 1
      /\ \A i \in 1 .. Len(stack) - 1 : below[i] = stack[i]
  BY FrontParts
<1>3. above \in [1 .. Len(tasks) -> S]
  BY <1>1 DEF Reverse
<1>4. /\ above \in Seq(S) /\ Len(above) = Len(tasks)
      /\ \A i \in 1 .. Len(tasks) : above[i] = tasks[Len(tasks) - i + 1]
  BY <1>1, <1>3, SeqDef, LenProperties DEF Reverse
<1>5. stack' = below \o above
  BY DEF Continue
<1> HIDE DEF below, above
<1>6. stack' \in Seq(S) /\ Len(stack') = Len(below) + Len(above)
  <2>1. below \o above \in Seq(S)
    BY <1>2, <1>4
  <2>2. Len(below \o above) = Len(below) + Len(above)
    BY <1>2, <1>4, ConcatProperties
  <2>3. QED
    BY <1>5, <2>1, <2>2
<1>7. \A i \in 1 .. Len(below) : stack'[i] = below[i]
  BY <1>2, <1>4, <1>5
<1>8. \A i \in 1 .. Len(above) : stack'[Len(below) + i] = above[i]
  BY <1>2, <1>4, <1>5, SMTT(30)
<1>9. QED
  BY <1>1, <1>2, <1>4, <1>6, <1>7, <1>8
(***************************************************************************)
(* What the uses of a program without faults mean.                         *)
(***************************************************************************)
LEMMA OwnerAround ==
  ASSUME NEW t, IsProgram(t), NEW d \in DOMAIN t, d # 1
  PROVE  /\ Owner(t, d) \in ScopesAround(t, d)
         /\ \A a \in ScopesAround(t, d) : a <= Owner(t, d)
         /\ Owner(t, d) \in 1 .. Len(t)
<1>1. /\ IsTree(t) /\ DOMAIN t = 1 .. Len(t) /\ Len(t) \in Nat \ {0}
      /\ t[1].kind = "Program" /\ t[1].span = Len(t)
  BY NodeShape DEF IsProgram, IsTree
<1>2. 1 \in ScopesAround(t, d)
  BY <1>1 DEF ScopesAround, OpensScope, Within
<1>3. ScopesAround(t, d) \in SUBSET (0 .. Len(t))
  BY <1>1 DEF ScopesAround
<1>4. \A a \in ScopesAround(t, d) : a \in 1 .. Len(t)
  BY <1>1 DEF ScopesAround
<1>5. QED
  BY <1>1, <1>2, <1>3, <1>4, MaxGreatest DEF Owner

LEMMA ReferentsTyped ==
  ASSUME NEW t, IsProgram(t), Meaning(t).faults = {}
  PROVE  /\ DOMAIN Meaning(t).referents = UsesOf(t)
         /\ \A n \in UsesOf(t) :
              /\ Meaning(t).referents[n] \in DeclsOf(t) \cup BuiltinDecls
              /\ Decl(t, Meaning(t).referents[n]).type \in Type
<1> DEFINE owner == [d \in DeclsOf(t) |-> Owner(t, d)]
           InForce(n) == {d \in DeclsOf(t) : /\ d < n
                                             /\ t[d].name = t[n].name
                                             /\ Within(t, n, owner[d])}
           Innermost(ds) == CHOOSE d \in ds : \A e \in ds : owner[e] <= owner[d]
           referents == [n \in UsesOf(t) |-> IF InForce(n) = {} THEN BuiltinNamed(t[n].name)
                                                               ELSE Innermost(InForce(n))]
<1>1. Meaning(t).referents = referents
  BY DEF Meaning
<1>2. ASSUME NEW n \in UsesOf(t) PROVE referents[n] # nullptr
  BY <1>2 DEF Meaning
<1>3. /\ IsTree(t) /\ DOMAIN t = 1 .. Len(t) /\ Len(t) \in Nat \ {0}
      /\ t[1].kind = "Program"
  BY NodeShape DEF IsProgram, IsTree
<1>4. owner \in [DeclsOf(t) -> 0 .. Len(t)]
  <2>1. ASSUME NEW d \in DeclsOf(t) PROVE Owner(t, d) \in 0 .. Len(t)
    <3>1. d \in DOMAIN t /\ d # 1
      BY <1>3 DEF DeclsOf, DeclKinds
    <3>2. QED
      BY <1>3, <3>1, OwnerAround
  <2>2. QED
    BY <2>1
<1> HIDE DEF owner
<1>5. ASSUME NEW ds \in SUBSET DeclsOf(t), ds # {} PROVE Innermost(ds) \in ds
  <2> DEFINE T == {owner[d] : d \in ds}
  <2>1. T \in SUBSET (0 .. Len(t)) /\ T # {} /\ Len(t) \in Nat
    BY <1>3, <1>4, <1>5
  <2>2. PICK m \in T : \A k \in T : k <= m
    <3> HIDE DEF T
    <3> QED
      BY <2>1, Greatest
  <2>3. PICK d \in ds : m = owner[d]
    BY <2>2
  <2>4. \A e \in ds : owner[e] <= owner[d]
    BY <2>2, <2>3
  <2>5. QED
    BY <2>4
<1>6. ASSUME NEW x, BuiltinNamed(x) # nullptr PROVE BuiltinNamed(x) \in BuiltinDecls
  <2> DEFINE named == {b \in BuiltinDecls : g_builtins[-b].name = x}
  <2>1. named # {} /\ BuiltinNamed(x) = Min(named)
    BY <1>6 DEF BuiltinNamed
  <2>2. \E b \in named : \A c \in named : b <= c
    BY <2>1 DEF BuiltinDecls
  <2>3. Min(named) \in named
    BY <2>2 DEF Min
  <2>4. QED
    BY <2>1, <2>3
<1>7. ASSUME NEW n \in UsesOf(t) PROVE referents[n] \in DeclsOf(t) \cup BuiltinDecls
  <2>1. InForce(n) \in SUBSET DeclsOf(t)
    OBVIOUS
  <2> HIDE DEF InForce, Innermost
  <2>2. QED
    BY <1>2, <1>5, <1>6, <2>1
<1>8. ASSUME NEW d \in DeclsOf(t) \cup BuiltinDecls PROVE Decl(t, d).type \in Type
  <2>1. CASE d \in BuiltinDecls
    BY <2>1 DEF Decl, BuiltinDecls, g_builtins, Type, PrimitiveType, Int32, Void, Primitive
  <2>2. CASE d \notin BuiltinDecls
    <3>1. d \in DOMAIN t /\ t[d].kind \in DeclKinds
      BY <2>2 DEF DeclsOf
    <3>2. t[d].type \in Type
      BY <1>3, <3>1 DEF IsTree
    <3>3. QED
      BY <2>2, <3>2 DEF Decl
  <2>3. QED
    BY <2>1, <2>2
<1>9. QED
  <2> HIDE DEF InForce, Innermost
  <2>1. DOMAIN referents = UsesOf(t)
    OBVIOUS
  <2> HIDE DEF referents
  <2>2. QED
    BY <1>1, <1>7, <1>8, <2>1

\* The function around a node is a function.
LEMMA EnclosingTyped ==
  ASSUME NEW t, IsTree(t), NEW n
  PROVE  EnclosingFunction(t, n) \in {nullptr} \cup FunctionsOf(t)
<1> DEFINE around == {f \in FunctionsOf(t) : Within(t, n, Body(t, f))}
<1>1. around = {} => EnclosingFunction(t, n) = nullptr
  BY DEF EnclosingFunction
<1>2. ASSUME around # {} PROVE EnclosingFunction(t, n) \in FunctionsOf(t)
  <2>1. Len(t) \in Nat /\ around \in SUBSET (0 .. Len(t))
    BY DEF IsTree, FunctionsOf, NodesOf
  <2>2. EnclosingFunction(t, n) = Max(around)
    BY <1>2 DEF EnclosingFunction
  <2>3. Max(around) \in around
    <3> HIDE DEF around
    <3> QED
      BY <1>2, <2>1, MaxGreatest
  <2>4. QED
    BY <2>2, <2>3
<1>3. QED
  BY <1>1, <1>2

(***************************************************************************)
(* Work.  A task k of a walk owes the results of the nodes o[k] and uses   *)
(* those of the nodes u[k].  A list of tasks that are done in turn is in   *)
(* order when no task owes what an earlier one owes or uses.               *)
(***************************************************************************)
Subtree(t, n) == {m \in DOMAIN t : Within(t, m, n)}

KidSet(t, n) == {Kid(t, n, i) : i \in 1 .. Len(t[n].kids)}

InTurn(tasks, o, u) ==
  \A a, b \in 1 .. Len(tasks) :
    a < b => o[tasks[b]] \cap (o[tasks[a]] \cup u[tasks[a]]) = {}

\* The stack holds the next task last.
StackInTurn(s, o, u) ==
  \A a, b \in 1 .. Len(s) : a < b => o[s[a]] \cap (o[s[b]] \cup u[s[b]]) = {}

Pending(s, o) == UNION {o[s[i]] : i \in 1 .. Len(s)}

\* The given tasks do what is left of the task on top, but for the nodes done.
Replaces(tasks, done, o, u) ==
  /\ InTurn(tasks, o, u)
  /\ \A a \in 1 .. Len(tasks) : o[tasks[a]] \cup u[tasks[a]] \subseteq o[Top] \cup u[Top]
  /\ Pending(tasks, o) = o[Top] \ done
  /\ done \subseteq o[Top]

LEMMA WalkStep ==
  ASSUME NEW S, stack \in Seq(S), stack # << >>, NEW tasks \in Seq(S), Continue(tasks),
         NEW o, NEW u, NEW done, StackInTurn(stack, o, u), Replaces(tasks, done, o, u)
  PROVE  /\ StackInTurn(stack', o, u)
         /\ Pending(stack', o) = Pending(stack, o) \ done
<1> PICK k : k = Len(stack)
  OBVIOUS
<1> PICK l : l = Len(tasks)
  OBVIOUS
<1>1. k \in Nat \ {0} /\ l \in Nat /\ Top = stack[k]
  BY EmptySeq DEF Top, Last
<1>2. /\ Len(stack') = k - 1 + l
      /\ \A i \in 1 .. k - 1 : stack'[i] = stack[i]
      /\ \A i \in 1 .. l : stack'[k - 1 + i] = tasks[l - i + 1]
  BY ContinueStack
<1>3. \A j \in 1 .. Len(stack') :
        \/ j \in 1 .. k - 1 /\ stack'[j] = stack[j]
        \/ l - (j - (k - 1)) + 1 \in 1 .. l /\ stack'[j] = tasks[l - (j - (k - 1)) + 1]
  <2>1. TAKE j \in 1 .. Len(stack')
  <2>2. CASE j <= k - 1
    <3>1. Len(stack') \in Nat
      BY <1>1, <1>2
    <3>2. j \in 1 .. k - 1
      BY <1>1, <2>2, <3>1
    <3>3. QED
      BY <1>2, <3>2
  <2>3. CASE ~ j <= k - 1
    <3>1. j - (k - 1) \in 1 .. l /\ k - 1 + (j - (k - 1)) = j
      BY <1>1, <1>2, <2>3
    <3>2. stack'[k - 1 + (j - (k - 1))] = tasks[l - (j - (k - 1)) + 1]
      BY <1>2, <3>1
    <3>3. l - (j - (k - 1)) + 1 \in 1 .. l
      BY <1>1, <3>1
    <3>4. QED
      BY <3>1, <3>2, <3>3
  <2>4. QED
    BY <1>1, <2>2, <2>3
<1>4. \A i \in 1 .. k - 1 : o[stack[i]] \cap (o[Top] \cup u[Top]) = {}
  BY <1>1, SMTT(30) DEF StackInTurn
<1>5. ASSUME NEW a \in 1 .. Len(stack'), NEW b \in 1 .. Len(stack'), a < b
      PROVE  o[stack'[a]] \cap (o[stack'[b]] \cup u[stack'[b]]) = {}
  <2> PICK x : x = l - (a - (k - 1)) + 1
    OBVIOUS
  <2> PICK y : y = l - (b - (k - 1)) + 1
    OBVIOUS
  <2>1. CASE a \in 1 .. k - 1 /\ b \in 1 .. k - 1
    <3>1. stack'[a] = stack[a] /\ stack'[b] = stack[b] /\ a \in 1 .. k /\ b \in 1 .. k
      BY <1>1, <1>2, <2>1
    <3>2. QED
      BY <1>5, <3>1 DEF StackInTurn
  <2>2. CASE a \in 1 .. k - 1 /\ b \notin 1 .. k - 1
    <3>1. stack'[a] = stack[a] /\ y \in 1 .. l /\ stack'[b] = tasks[y]
      BY <1>2, <1>3, <2>2
    <3>2. QED
      BY <1>4, <2>2, <3>1 DEF Replaces
  <2>3. CASE a \notin 1 .. k - 1
    <3>1. b \notin 1 .. k - 1
      BY <1>1, <1>2, <1>5, <2>3
    <3>2. x \in 1 .. l /\ y \in 1 .. l /\ stack'[a] = tasks[x] /\ stack'[b] = tasks[y]
      BY <1>3, <2>3, <3>1
    <3>3. y < x
      BY <1>1, <1>2, <1>5
    <3>4. QED
      BY <3>2, <3>3 DEF Replaces, InTurn
  <2>4. QED
    BY <2>1, <2>2, <2>3
<1>6. StackInTurn(stack', o, u)
  BY <1>5 DEF StackInTurn
<1> DEFINE below == UNION {o[stack[i]] : i \in 1 .. k - 1}
<1>7. Pending(stack, o) = below \cup o[Top]
  <2>1. \A i \in 1 .. k : i \in 1 .. k - 1 \/ i = k
    BY <1>1
  <2>2. \A i \in 1 .. k - 1 : i \in 1 .. k
    BY <1>1
  <2>3. k \in 1 .. k
    BY <1>1
  <2>4. QED
    BY <1>1, <2>1, <2>2, <2>3 DEF Pending
<1>8. Pending(stack', o) = below \cup Pending(tasks, o)
  <2>1. ASSUME NEW x, x \in Pending(stack', o) PROVE x \in below \cup Pending(tasks, o)
    <3>1. PICK j \in 1 .. Len(stack') : x \in o[stack'[j]]
      BY <2>1 DEF Pending
    <3>2. CASE j \in 1 .. k - 1 /\ stack'[j] = stack[j]
      BY <3>1, <3>2
    <3> PICK a : a = l - (j - (k - 1)) + 1
      OBVIOUS
    <3>3. CASE a \in 1 .. l /\ stack'[j] = tasks[a]
      BY <3>1, <3>3 DEF Pending
    <3>4. QED
      BY <1>3, <3>2, <3>3
  <2>2. ASSUME NEW x, x \in below PROVE x \in Pending(stack', o)
    <3>1. PICK i \in 1 .. k - 1 : x \in o[stack[i]]
      BY <2>2
    <3>2. i \in 1 .. Len(stack')
      BY <1>1, <1>2
    <3>3. QED
      BY <1>2, <3>1, <3>2 DEF Pending
  <2>3. ASSUME NEW x, x \in Pending(tasks, o) PROVE x \in Pending(stack', o)
    <3>1. PICK a \in 1 .. l : x \in o[tasks[a]]
      BY <2>3 DEF Pending
    <3> PICK i : i = l - a + 1
      OBVIOUS
    <3>2. i \in 1 .. l /\ l - i + 1 = a /\ k - 1 + i \in 1 .. Len(stack')
      BY <1>1, <1>2
    <3>3. stack'[k - 1 + i] = tasks[a]
      BY <1>2, <3>2
    <3>4. QED
      BY <3>1, <3>2, <3>3 DEF Pending
  <2> HIDE DEF below
  <2>4. QED
    BY <2>1, <2>2, <2>3
<1>9. below \cap o[Top] = {}
  BY <1>4
<1>10. Pending(stack', o) = Pending(stack, o) \ done
  <2> HIDE DEF below
  <2>1. QED
    BY <1>7, <1>8, <1>9 DEF Replaces
<1>11. QED
  BY <1>6, <1>10

(***************************************************************************)
(* Contexts.  A task k runs in the context c[k] and leaves the context     *)
(* a[k] behind, for the next one to run in; the walk ends in the context   *)
(* last.                                                                   *)
(***************************************************************************)
Chained(s, c, a, current, last) ==
  /\ s = << >> => current = last
  /\ s # << >> => c[s[Len(s)]] = current /\ a[s[1]] = last
  /\ \A i \in 2 .. Len(s) : a[s[i]] = c[s[i - 1]]

\* The given tasks lead from the context current to that the top task leaves.
Leads(tasks, c, a, current) ==
  /\ tasks = << >> => current = a[Top]
  /\ tasks # << >> => c[tasks[1]] = current /\ a[tasks[Len(tasks)]] = a[Top]
  /\ \A i \in 1 .. Len(tasks) - 1 : a[tasks[i]] = c[tasks[i + 1]]

LEMMA ContextStep ==
  ASSUME NEW S, stack \in Seq(S), stack # << >>, NEW tasks \in Seq(S), Continue(tasks),
         NEW c, NEW a, NEW current, NEW next, NEW last,
         Chained(stack, c, a, current, last), Leads(tasks, c, a, next)
  PROVE  Chained(stack', c, a, next, last)
<1> PICK k : k = Len(stack)
  OBVIOUS
<1> PICK l : l = Len(tasks)
  OBVIOUS
<1>1. k \in Nat \ {0} /\ l \in Nat /\ Top = stack[k]
  BY EmptySeq DEF Top, Last
<1>2. /\ stack' \in Seq(S)
      /\ Len(stack') = k - 1 + l
      /\ \A i \in 1 .. k - 1 : stack'[i] = stack[i]
      /\ \A i \in 1 .. l : stack'[k - 1 + i] = tasks[l - i + 1]
  BY ContinueStack
<1>3. /\ a[stack[1]] = last
      /\ \A i \in 2 .. k : a[stack[i]] = c[stack[i - 1]]
  BY DEF Chained
<1>4. tasks = << >> <=> l = 0
  BY EmptySeq
<1>5. ASSUME NEW j \in 1 .. Len(stack'), j > k - 1
      PROVE  \E i \in 1 .. l : i = l - (j - (k - 1)) + 1 /\ stack'[j] = tasks[i]
  <2>1. j - (k - 1) \in 1 .. l /\ k - 1 + (j - (k - 1)) = j
    BY <1>1, <1>2, <1>5
  <2>2. stack'[k - 1 + (j - (k - 1))] = tasks[l - (j - (k - 1)) + 1]
    BY <1>2, <2>1
  <2>3. l - (j - (k - 1)) + 1 \in 1 .. l
    BY <1>1, <2>1
  <2>4. QED
    BY <2>1, <2>2, <2>3
<1>6. ASSUME stack' = << >> PROVE next = last
  <2>1. l = 0 /\ k = 1
    BY <1>1, <1>2, <1>6
  <2>2. QED
    BY <1>1, <1>3, <1>4, <2>1 DEF Leads
<1>7. ASSUME stack' # << >> PROVE c[stack'[Len(stack')]] = next /\ a[stack'[1]] = last
  <2>1. Len(stack') \in Nat \ {0}
    BY <1>2, <1>7, EmptySeq
  <2>2. CASE l = 0
    <3>1. Len(stack') = k - 1 /\ k - 1 \in 1 .. k - 1 /\ 1 \in 1 .. k - 1 /\ k \in 2 .. k
      BY <1>1, <1>2, <2>1, <2>2
    <3>2. stack'[k - 1] = stack[k - 1] /\ stack'[1] = stack[1]
      BY <1>2, <3>1
    <3>3. a[stack[k]] = c[stack[k - 1]]
      BY <1>3, <3>1
    <3>4. QED
      BY <1>1, <1>3, <1>4, <2>2, <3>1, <3>2, <3>3 DEF Leads
  <2>3. CASE l # 0
    <3>1. l \in 1 .. l /\ l - l + 1 = 1
      BY <1>1, <2>3
    <3>2. stack'[k - 1 + l] = tasks[1]
      BY <1>2, <3>1
    <3>3. c[tasks[1]] = next /\ a[tasks[l]] = a[Top]
      BY <1>4, <2>3 DEF Leads
    <3>4. CASE k = 1
      <4>1. 1 \in 1 .. l /\ l - 1 + 1 = l /\ k - 1 + 1 = 1
        BY <1>1, <2>3, <3>4
      <4>2. stack'[k - 1 + 1] = tasks[l - 1 + 1]
        BY <1>2, <4>1
      <4>3. QED
        BY <1>1, <1>2, <1>3, <3>2, <3>3, <3>4, <4>1, <4>2
    <3>5. CASE k # 1
      <4>1. 1 \in 1 .. k - 1
        BY <1>1, <3>5
      <4>2. QED
        BY <1>2, <1>3, <3>2, <3>3, <4>1
    <3>6. QED
      BY <3>4, <3>5
  <2>4. QED
    BY <2>2, <2>3
<1>8. ASSUME NEW j \in 2 .. Len(stack') PROVE a[stack'[j]] = c[stack'[j - 1]]
  <2>1. Len(stack') \in Nat /\ j \in 1 .. Len(stack') /\ j - 1 \in 1 .. Len(stack')
    BY <1>1, <1>2
  <2>2. CASE j <= k - 1
    <3>1. j \in 1 .. k - 1 /\ j - 1 \in 1 .. k - 1 /\ j \in 2 .. k
      BY <1>1, <2>1, <2>2
    <3>2. QED
      BY <1>2, <1>3, <3>1
  <2>3. CASE j = k
    <3>1. k - 1 \in 1 .. k - 1 /\ k \in 2 .. k
      BY <1>1, <2>3
    <3>2. stack'[j - 1] = stack[k - 1] /\ c[stack[k - 1]] = a[Top]
      BY <1>1, <1>2, <1>3, <2>3, <3>1
    <3>3. PICK i \in 1 .. l : i = l - (j - (k - 1)) + 1 /\ stack'[j] = tasks[i]
      BY <1>1, <1>5, <2>1, <2>3
    <3>4. i = l /\ l # 0
      BY <1>1, <2>3, <3>3
    <3>5. QED
      BY <1>4, <3>2, <3>3, <3>4 DEF Leads
  <2>4. CASE k < j
    <3>1. j > k - 1 /\ j - 1 > k - 1
      BY <1>1, <2>1, <2>4
    <3>2. PICK x \in 1 .. l : x = l - (j - (k - 1)) + 1 /\ stack'[j] = tasks[x]
      BY <1>5, <2>1, <3>1
    <3>3. PICK y \in 1 .. l : y = l - (j - 1 - (k - 1)) + 1 /\ stack'[j - 1] = tasks[y]
      BY <1>5, <2>1, <3>1
    <3>4. y = x + 1 /\ x \in 1 .. l - 1
      BY <1>1, <2>1, <3>2, <3>3
    <3>5. QED
      BY <3>2, <3>3, <3>4 DEF Leads
  <2>5. QED
    BY <1>1, <2>1, <2>2, <2>3, <2>4
<1>9. QED
  BY <1>6, <1>7, <1>8 DEF Chained

(***************************************************************************)
(* The visit of a node: its children in their order, tasks that use them,  *)
(* and an end.  Task i is about child child[i].                            *)
(***************************************************************************)
LEMMA SubtreeParts ==
  ASSUME NEW t, IsTree(t), NEW n \in DOMAIN t
  PROVE  /\ n \in Subtree(t, n)
         /\ \A i \in 1 .. Len(t[n].kids) :
              /\ Kid(t, n, i) \in Subtree(t, Kid(t, n, i))
              /\ Subtree(t, Kid(t, n, i)) \subseteq Subtree(t, n)
              /\ n \notin Subtree(t, Kid(t, n, i))
         /\ \A i, j \in 1 .. Len(t[n].kids) :
              i # j => Subtree(t, Kid(t, n, i)) \cap Subtree(t, Kid(t, n, j)) = {}
         /\ \A m \in Subtree(t, n) :
              m = n \/ \E i \in 1 .. Len(t[n].kids) : m \in Subtree(t, Kid(t, n, i))
<1>1. \A m \in DOMAIN t : m \in Nat /\ t[m].span \in Nat \ {0}
  BY NodeShape
<1>2. \A m \in DOMAIN t : m \in Subtree(t, m)
  BY <1>1 DEF Subtree, Within
<1>3. \A i \in 1 .. Len(t[n].kids) : Kid(t, n, i) \in DOMAIN t
  BY NodeShape
<1>4. \A i \in 1 .. Len(t[n].kids) :
        n < Kid(t, n, i) /\ Kid(t, n, i) + t[Kid(t, n, i)].span <= n + t[n].span
  BY KidsInside
<1>5. ASSUME NEW i \in 1 .. Len(t[n].kids)
      PROVE  /\ Subtree(t, Kid(t, n, i)) \subseteq Subtree(t, n)
             /\ n \notin Subtree(t, Kid(t, n, i))
  <2> PICK k : k = Kid(t, n, i)
    OBVIOUS
  <2>1. k \in Nat /\ t[k].span \in Nat /\ n \in Nat /\ t[n].span \in Nat
        /\ n < k /\ k + t[k].span <= n + t[n].span
    BY <1>1, <1>3, <1>4
  <2>2. ASSUME NEW m \in Nat, Within(t, m, k) PROVE Within(t, m, n) /\ m # n
    BY <2>1, <2>2 DEF Within
  <2>3. QED
    BY <1>1, <2>2 DEF Subtree
<1>6. ASSUME NEW i \in 1 .. Len(t[n].kids), NEW j \in 1 .. Len(t[n].kids), i < j
      PROVE  Subtree(t, Kid(t, n, i)) \cap Subtree(t, Kid(t, n, j)) = {}
  <2> PICK k : k = Kid(t, n, i)
    OBVIOUS
  <2> PICK l : l = Kid(t, n, j)
    OBVIOUS
  <2>1. /\ k \in Nat /\ t[k].span \in Nat /\ l \in Nat /\ t[l].span \in Nat
        /\ k + t[k].span <= l
    BY <1>1, <1>3, <1>6, KidsApart
  <2>2. ASSUME NEW m \in Nat, Within(t, m, k), Within(t, m, l) PROVE FALSE
    BY <2>1, <2>2 DEF Within
  <2>3. QED
    BY <1>1, <2>2 DEF Subtree
<1>7. \A i, j \in 1 .. Len(t[n].kids) : i # j => i < j \/ j < i
  BY NodeShape
<1>8. \A m \in Subtree(t, n) :
        m = n \/ \E i \in 1 .. Len(t[n].kids) : m \in Subtree(t, Kid(t, n, i))
  BY <1>1, KidsCover DEF Subtree
<1>9. QED
  BY <1>2, <1>3, <1>5, <1>6, <1>7, <1>8

VisitPlan(t, n, tasks, o, u, child) ==
  /\ Len(tasks) \in Nat \ {0}
  /\ o[Top] = Subtree(t, n)
  /\ \A a \in 1 .. Len(tasks) - 1 :
       /\ child[a] \in 1 .. Len(t[n].kids)
       /\ o[tasks[a]] \cup u[tasks[a]] \subseteq Subtree(t, Kid(t, n, child[a]))
  /\ \A a, b \in 1 .. Len(tasks) - 1 :
       a < b => child[a] # child[b] \/ o[tasks[b]] = {} \/ o[tasks[a]] \cup u[tasks[a]] = {}
  /\ \A i \in 1 .. Len(t[n].kids) :
       \E a \in 1 .. Len(tasks) - 1 : o[tasks[a]] = Subtree(t, Kid(t, n, i))
  /\ o[tasks[Len(tasks)]] = {n}
  /\ u[tasks[Len(tasks)]] \subseteq KidSet(t, n)

LEMMA VisitReplaces ==
  ASSUME NEW t, IsTree(t), NEW n \in DOMAIN t, NEW tasks, NEW o, NEW u, NEW child,
         VisitPlan(t, n, tasks, o, u, child)
  PROVE  Replaces(tasks, {}, o, u)
<1> PICK l : l = Len(tasks)
  OBVIOUS
<1>1. l \in Nat \ {0} /\ \A a \in 1 .. l : a \in 1 .. l - 1 \/ a = l
  BY DEF VisitPlan
<1>2. /\ \A a \in 1 .. l - 1 :
           /\ child[a] \in 1 .. Len(t[n].kids)
           /\ o[tasks[a]] \cup u[tasks[a]] \subseteq Subtree(t, Kid(t, n, child[a]))
      /\ \A a, b \in 1 .. l - 1 :
           a < b => child[a] # child[b] \/ o[tasks[b]] = {} \/ o[tasks[a]] \cup u[tasks[a]] = {}
      /\ o[tasks[l]] = {n} /\ u[tasks[l]] \subseteq KidSet(t, n) /\ o[Top] = Subtree(t, n)
  BY DEF VisitPlan
<1>3. \A i \in 1 .. Len(t[n].kids) :
        /\ Kid(t, n, i) \in Subtree(t, Kid(t, n, i))
        /\ Subtree(t, Kid(t, n, i)) \subseteq Subtree(t, n)
        /\ n \notin Subtree(t, Kid(t, n, i))
  BY SubtreeParts
<1>4. InTurn(tasks, o, u)
  <2>1. SUFFICES ASSUME NEW a \in 1 .. l, NEW b \in 1 .. l, a < b
                 PROVE  o[tasks[b]] \cap (o[tasks[a]] \cup u[tasks[a]]) = {}
    BY DEF InTurn
  <2>2. a \in 1 .. l - 1
    BY <1>1, <2>1
  <2>3. CASE b = l
    <3>1. o[tasks[b]] = {n}
      BY <1>2, <2>3
    <3>2. o[tasks[a]] \cup u[tasks[a]] \subseteq Subtree(t, Kid(t, n, child[a]))
          /\ n \notin Subtree(t, Kid(t, n, child[a]))
      BY <1>2, <1>3, <2>2
    <3>3. QED
      BY <3>1, <3>2
  <2>4. CASE b # l
    <3>1. b \in 1 .. l - 1
      BY <1>1, <2>4
    <3>2. CASE o[tasks[b]] = {} \/ o[tasks[a]] \cup u[tasks[a]] = {}
      BY <3>2
    <3>3. CASE child[a] # child[b]
      <4>1. Subtree(t, Kid(t, n, child[a])) \cap Subtree(t, Kid(t, n, child[b])) = {}
        BY <1>2, <2>2, <3>1, <3>3, SubtreeParts
      <4>2. QED
        BY <1>2, <2>2, <3>1, <4>1
    <3>4. QED
      BY <1>2, <2>1, <2>2, <3>1, <3>2, <3>3
  <2>5. QED
    BY <2>3, <2>4
<1>5. \A a \in 1 .. l : o[tasks[a]] \cup u[tasks[a]] \subseteq Subtree(t, n)
  <2>1. \A a \in 1 .. l - 1 : o[tasks[a]] \cup u[tasks[a]] \subseteq Subtree(t, n)
    BY <1>2, <1>3
  <2>2. {n} \cup KidSet(t, n) \subseteq Subtree(t, n)
    BY <1>3, SubtreeParts DEF KidSet
  <2>3. QED
    BY <1>1, <1>2, <2>1, <2>2
<1>6. Pending(tasks, o) = Subtree(t, n)
  <2>1. Pending(tasks, o) \subseteq Subtree(t, n)
    BY <1>5 DEF Pending
  <2>2. ASSUME NEW m \in Subtree(t, n) PROVE m \in Pending(tasks, o)
    <3>1. CASE m = n
      <4>1. l \in 1 .. l
        BY <1>1
      <4>2. o[tasks[l]] = {n}
        BY <1>2
      <4>3. \E a \in 1 .. l : m \in o[tasks[a]]
        BY <3>1, <4>1, <4>2, Zenon
      <4>4. QED
        BY <4>3 DEF Pending
    <3>2. CASE m # n
      <4>1. PICK i \in 1 .. Len(t[n].kids) : m \in Subtree(t, Kid(t, n, i))
        BY <3>2, SubtreeParts
      <4>2. PICK a \in 1 .. l - 1 : o[tasks[a]] = Subtree(t, Kid(t, n, i))
        BY DEF VisitPlan
      <4>3. a \in 1 .. l
        BY <1>1
      <4>4. QED
        BY <4>1, <4>2, <4>3 DEF Pending
    <3>3. QED
      BY <3>1, <3>2
  <2>3. QED
    BY <2>1, <2>2
<1>7. QED
  BY <1>2, <1>4, <1>5, <1>6 DEF Replaces

\* How many children a node of each kind has, and that the operands of
\* expressions and statements are expressions.
LEMMA KidCounts ==
  ASSUME NEW t, IsTree(t), NEW n \in DOMAIN t
  PROVE  /\ t[n].kind = "If" => Len(t[n].kids) \in {2, 3}
         /\ t[n].kind = "While" => Len(t[n].kids) = 2
         /\ t[n].kind \in {"Assignment", "Additive", "Multiplicative", "Relational"} =>
              Len(t[n].kids) = 2
         /\ t[n].kind \in {"ImplicitCast", "Subscript"} => Len(t[n].kids) = 1
         /\ t[n].kind \in {"Return", "ExpressionStmt"} => Len(t[n].kids) \in {0, 1}
         /\ t[n].kind \in {"Variable", "Array", "Parameter", "VariableExpr"} \cup LiteralKinds =>
              Len(t[n].kids) = 0
<1>1. KidsFit(t, n)
  BY NodeShape
<1>2. QED
  BY <1>1, Zenon DEF KidsFit

LEMMA Operands ==
  ASSUME NEW t, IsTree(t), NEW n \in DOMAIN t, NEW i \in 1 .. Len(t[n].kids),
         \/ t[n].kind \in {"Return", "ExpressionStmt"} \cup ExpressionKinds
         \/ t[n].kind \in {"If", "While"} /\ i = 1
  PROVE  Kid(t, n, i) \in NodesOf(t, ExpressionKinds)
<1>1. KidsFit(t, n) /\ Kid(t, n, i) \in DOMAIN t
  BY NodeShape
<1>2. 1 \in 1 .. 1
  OBVIOUS
<1>3. t[Kid(t, n, i)].kind \in ExpressionKinds
  BY <1>1, <1>2, Zenon DEF KidsFit
<1>4. QED
  BY <1>1, <1>3 DEF NodesOf

LEMMA FourInARow ==
  ASSUME NEW a, NEW b, NEW c, NEW d
  PROVE  << a, b, c >> \o << d >> = << a, b, c, d >>
<1> DEFINE S == {a, b, c, d}
           s == << a, b, c >>
           r == << d >>
           q == << a, b, c, d >>
<1>1. /\ s \in Seq(S) /\ Len(s) = 3 /\ s[1] = a /\ s[2] = b /\ s[3] = c
      /\ r \in Seq(S) /\ Len(r) = 1 /\ r[1] = d
      /\ q \in Seq(S) /\ Len(q) = 4 /\ q[1] = a /\ q[2] = b /\ q[3] = c /\ q[4] = d
  OBVIOUS
<1> HIDE DEF S, s, r, q
<1>2. /\ s \o r \in Seq(S) /\ Len(s \o r) = 3 + 1
      /\ \A i \in 1 .. 3 + 1 : (s \o r)[i] = IF i <= 3 THEN s[i] ELSE r[i - 3]
  <2>1. /\ s \o r \in Seq(S) /\ Len(s \o r) = Len(s) + Len(r)
        /\ \A i \in 1 .. Len(s) + Len(r) :
             (s \o r)[i] = IF i <= Len(s) THEN s[i] ELSE r[i - Len(s)]
    BY <1>1, ConcatProperties
  <2>2. QED
    BY <1>1, <2>1
<1>3. \A i \in 1 .. 3 + 1 : i = 1 \/ i = 2 \/ i = 3 \/ i = 4
  OBVIOUS
<1>4. /\ 1 \in 1 .. 3 + 1 /\ 1 <= 3 /\ 2 \in 1 .. 3 + 1 /\ 2 <= 3
      /\ 3 \in 1 .. 3 + 1 /\ 3 <= 3 /\ 4 \in 1 .. 3 + 1 /\ ~ 4 <= 3 /\ 4 - 3 = 1
  OBVIOUS
<1>5. \A i \in 1 .. 3 + 1 : (s \o r)[i] = q[i]
  BY <1>1, <1>2, <1>3, <1>4
<1>6. Len(s \o r) = Len(q)
  BY <1>1, <1>2
<1>7. s \o r = q
  BY <1>1, <1>2, <1>5, <1>6, SeqEqual
<1>8. QED
  BY <1>7 DEF s, r, q

LEMMA ThreeInARow ==
  ASSUME NEW a, NEW b, NEW c
  PROVE  << a, b >> \o << c >> = << a, b, c >>
<1> DEFINE S == {a, b, c}
           s == << a, b >>
           r == << c >>
           q == << a, b, c >>
<1>1. /\ s \in Seq(S) /\ Len(s) = 2 /\ s[1] = a /\ s[2] = b
      /\ r \in Seq(S) /\ Len(r) = 1 /\ r[1] = c
      /\ q \in Seq(S) /\ Len(q) = 3 /\ q[1] = a /\ q[2] = b /\ q[3] = c
  OBVIOUS
<1> HIDE DEF S, s, r, q
<1>2. /\ s \o r \in Seq(S) /\ Len(s \o r) = Len(s) + Len(r)
      /\ \A i \in 1 .. Len(s) + Len(r) :
           (s \o r)[i] = IF i <= Len(s) THEN s[i] ELSE r[i - Len(s)]
  BY <1>1, ConcatProperties
<1>3. /\ Len(s \o r) = 3 /\ \A i \in 1 .. 3 : i = 1 \/ i = 2 \/ i = 3
      /\ 1 \in 1 .. 2 + 1 /\ 2 \in 1 .. 2 + 1 /\ 3 \in 1 .. 2 + 1
      /\ 3 - 2 = 1 /\ 1 <= 2 /\ 2 <= 2 /\ ~ 3 <= 2
  BY <1>1, <1>2
<1>4. (s \o r)[1] = a /\ (s \o r)[2] = b /\ (s \o r)[3] = c
  BY <1>1, <1>2, <1>3
<1>5. \A i \in 1 .. Len(s \o r) : (s \o r)[i] = q[i]
  BY <1>1, <1>3, <1>4
<1>6. s \o r = q
  BY <1>1, <1>2, <1>3, <1>5, SeqEqual
<1>7. QED
  BY <1>6 DEF s, r, q

LEMMA TwoInARow ==
  ASSUME NEW a, NEW b
  PROVE  << a >> \o << b >> = << a, b >>
<1> DEFINE S == {a, b}
           s == << a >>
           r == << b >>
           q == << a, b >>
<1>1. /\ s \in Seq(S) /\ Len(s) = 1 /\ s[1] = a
      /\ r \in Seq(S) /\ Len(r) = 1 /\ r[1] = b
      /\ q \in Seq(S) /\ Len(q) = 2 /\ q[1] = a /\ q[2] = b
  OBVIOUS
<1> HIDE DEF S, s, r, q
<1>2. /\ s \o r \in Seq(S) /\ Len(s \o r) = Len(s) + Len(r)
      /\ \A i \in 1 .. Len(s) + Len(r) :
           (s \o r)[i] = IF i <= Len(s) THEN s[i] ELSE r[i - Len(s)]
  BY <1>1, ConcatProperties
<1>3. /\ Len(s \o r) = 2 /\ \A i \in 1 .. 2 : i = 1 \/ i = 2
      /\ 1 \in 1 .. 1 + 1 /\ 2 \in 1 .. 1 + 1 /\ 2 - 1 = 1 /\ 1 <= 1 /\ ~ 2 <= 1
  BY <1>1, <1>2
<1>4. (s \o r)[1] = a /\ (s \o r)[2] = b
  BY <1>1, <1>2, <1>3
<1>5. \A i \in 1 .. Len(s \o r) : (s \o r)[i] = q[i]
  BY <1>1, <1>3, <1>4
<1>6. s \o r = q
  BY <1>1, <1>2, <1>3, <1>5, SeqEqual
<1>7. QED
  BY <1>6 DEF s, r, q

\* A list with one task behind it.
LEMMA OneMore ==
  ASSUME NEW S, NEW s \in Seq(S), NEW x \in S
  PROVE  /\ s \o << x >> \in Seq(S) /\ Len(s \o << x >>) = Len(s) + 1
         /\ \A i \in 1 .. Len(s) : (s \o << x >>)[i] = s[i]
         /\ (s \o << x >>)[Len(s) + 1] = x
<1>1. << x >> \in Seq(S) /\ Len(<< x >>) = 1 /\ << x >>[1] = x
  OBVIOUS
<1>2. PICK l : l = Len(s)
  OBVIOUS
<1>3. PICK r : r = s \o << x >>
  OBVIOUS
<1>4. /\ r \in Seq(S) /\ Len(r) = Len(s) + 1
      /\ \A i \in 1 .. Len(s) + 1 : r[i] = IF i <= Len(s) THEN s[i] ELSE << x >>[i - Len(s)]
  BY <1>1, <1>3, ConcatProperties
<1>5. l \in Nat
  BY <1>2
<1>6. l + 1 \in 1 .. l + 1 /\ ~ l + 1 <= l /\ (l + 1) - l = 1
      /\ \A i \in 1 .. l : i \in 1 .. l + 1 /\ i <= l
  BY <1>5
<1>7. QED
  BY <1>1, <1>2, <1>3, <1>4, <1>6

(***************************************************************************)
(* A field of the nodes is a function of the nodes where it is set.        *)
(***************************************************************************)
IsField(field) == field = [n \in DOMAIN field |-> field[n]]

LEMMA FieldAssigned ==
  ASSUME NEW field, NEW n, NEW v
  PROVE  IsField(Assigned(field, n, v))
  BY DEF IsField, Assigned

LEMMA FieldEmpty == IsField(<< >>)
<1>1. DOMAIN << >> = {}
  OBVIOUS
<1>2. << >> = [n \in {} |-> << >>[n]]
  OBVIOUS
<1>3. QED
  BY <1>1, <1>2 DEF IsField

(***************************************************************************)
(* The types of the rules.                                                 *)
(***************************************************************************)
LEMMA BasicTypes ==
  Void \in Type /\ Int32 \in Type /\ Float \in Type /\ Bool \in Type
BY DEF Void, Int32, Float, Bool, Type, Primitive, PrimitiveType

ArgumentTypes(t, ty, n) == [i \in DOMAIN t[n].kids |-> ty[Kid(t, n, i)]]

TypedByKind(t, r, ty, n) ==
  LET kid(i) == ty[Kid(t, n, i)]
      decl == Decl(t, r[n])
      both(allowed) == kid(1) = kid(2) /\ kid(1) \in allowed
      is(result) == TypeOf(t, r, ty, n) = result
      rule(condition, result) == is(IF condition THEN result ELSE IllTyped)
  IN  /\ t[n].kind = "IntLiteral" => is(Int32)
      /\ t[n].kind = "FloatLiteral" => is(Float)
      /\ t[n].kind = "BoolLiteral" => is(Bool)
      /\ t[n].kind = "ImplicitCast" => is(kid(1))
      /\ t[n].kind = "VariableExpr" => rule(decl.kind # "Function", decl.type)
      /\ t[n].kind = "Subscript" =>
           rule(decl.kind # "Function" /\ decl.type.kind = "Array" /\ kid(1) = Int32,
                Primitive(decl.type.base))
      /\ t[n].kind = "Call" =>
           rule(decl.kind = "Function" /\ ArgumentTypes(t, ty, n) = ParameterTypes(t, r[n]),
                decl.type)
      /\ t[n].kind = "Assignment" => rule(both(Type) /\ kid(1).kind = "Primitive", Void)
      /\ t[n].kind \in {"Additive", "Multiplicative"} => rule(both(Arithmetic), kid(1))
      /\ t[n].kind = "Relational" =>
           rule(both(Arithmetic) \/ (both({Bool}) /\ t[n].operation \in {"EQ", "NEQ"}), Bool)

LEMMA TypeCases ==
  ASSUME NEW t, NEW r, NEW ty, NEW n
  PROVE  TypedByKind(t, r, ty, n)
<1>1. CASE t[n].kind = "IntLiteral"
  BY <1>1, Zenon DEF TypeOf, TypedByKind
<1>2. CASE t[n].kind = "FloatLiteral"
  BY <1>2, Zenon DEF TypeOf, TypedByKind
<1>3. CASE t[n].kind = "BoolLiteral"
  BY <1>3, Zenon DEF TypeOf, TypedByKind
<1>4. CASE t[n].kind = "ImplicitCast"
  BY <1>4, Zenon DEF TypeOf, TypedByKind
<1>5. CASE t[n].kind = "VariableExpr"
  BY <1>5, Zenon DEF TypeOf, TypedByKind
<1>6. CASE t[n].kind = "Subscript"
  BY <1>6, Zenon DEF TypeOf, TypedByKind
<1>7. CASE t[n].kind = "Call"
  BY <1>7, Zenon DEF TypeOf, TypedByKind, ArgumentTypes
<1>8. CASE t[n].kind = "Assignment"
  BY <1>8, Zenon DEF TypeOf, TypedByKind
<1>9. CASE t[n].kind = "Additive"
  BY <1>9, Zenon DEF TypeOf, TypedByKind
<1>10. CASE t[n].kind = "Multiplicative"
  BY <1>10, Zenon DEF TypeOf, TypedByKind
<1>11. CASE t[n].kind = "Relational"
  BY <1>11, Zenon DEF TypeOf, TypedByKind
<1>12. QED
  BY <1>1, <1>2, <1>3, <1>4, <1>5, <1>6, <1>7, <1>8, <1>9, <1>10, <1>11, Zenon DEF TypedByKind

LEMMA ExpressionsInside ==
  ASSUME NEW t, IsTree(t), NEW n \in NodesOf(t, ExpressionKinds)
  PROVE  /\ n \in DOMAIN t /\ n \in Nat /\ t[n].kind \in ExpressionKinds
         /\ DOMAIN t[n].kids = 1 .. Len(t[n].kids) /\ Len(t[n].kids) \in Nat
         /\ \A i \in 1 .. Len(t[n].kids) :
              Kid(t, n, i) \in NodesOf(t, ExpressionKinds) /\ n < Kid(t, n, i)
         /\ t[n].kind \in {"Assignment", "Additive", "Multiplicative", "Relational"} =>
              1 \in 1 .. Len(t[n].kids) /\ 2 \in 1 .. Len(t[n].kids)
         /\ t[n].kind \in {"ImplicitCast", "Subscript"} => 1 \in 1 .. Len(t[n].kids)
         /\ t[n].kind \in UseKinds => n \in UsesOf(t)
<1>1. n \in DOMAIN t /\ t[n].kind \in ExpressionKinds
  BY DEF NodesOf
<1>2. /\ n \in Nat /\ t[n].kids \in Seq(Nat \ {0}) /\ Len(t[n].kids) \in Nat
  BY <1>1, NodeShape
<1>3. ASSUME NEW i \in 1 .. Len(t[n].kids)
      PROVE  Kid(t, n, i) \in NodesOf(t, ExpressionKinds) /\ n < Kid(t, n, i)
  BY <1>1, Operands, KidsInside
<1>4. /\ t[n].kind \in {"Assignment", "Additive", "Multiplicative", "Relational"} =>
           Len(t[n].kids) = 2
      /\ t[n].kind \in {"ImplicitCast", "Subscript"} => Len(t[n].kids) = 1
  BY <1>1, KidCounts
<1>5. ASSUME t[n].kind \in {"Assignment", "Additive", "Multiplicative", "Relational"}
      PROVE  1 \in 1 .. Len(t[n].kids) /\ 2 \in 1 .. Len(t[n].kids)
  <2>1. Len(t[n].kids) = 2
    BY <1>4, <1>5, Zenon
  <2>2. 1 \in 1 .. 2 /\ 2 \in 1 .. 2
    OBVIOUS
  <2>3. QED
    BY <2>1, <2>2, Zenon
<1>6. ASSUME t[n].kind \in {"ImplicitCast", "Subscript"} PROVE 1 \in 1 .. Len(t[n].kids)
  <2>1. Len(t[n].kids) = 1
    BY <1>4, <1>6
  <2>2. QED
    BY <2>1
<1>7. t[n].kind \in UseKinds => n \in UsesOf(t)
  BY <1>1 DEF UsesOf
<1>8. QED
  BY <1>1, <1>2, <1>3, <1>5, <1>6, <1>7

\* The uses of a linked tree refer to something that has a type.
Linking(t, r) ==
  \A n \in UsesOf(t) :
    /\ Decl(t, r[n]).type \in Type
    /\ Decl(t, r[n]).kind = "Function" => ParameterTypes(t, r[n]) \in Seq(Type)

LEMMA TypesInside ==
  ASSUME NEW t, NEW r, IsTree(t), Linking(t, r), NEW n \in NodesOf(t, ExpressionKinds),
         NEW g \in [NodesOf(t, ExpressionKinds) -> Type \cup {IllTyped}]
  PROVE  TypeOf(t, r, g, n) \in Type \cup {IllTyped}
<1>1. /\ t[n].kind \in ExpressionKinds
      /\ \A i \in 1 .. Len(t[n].kids) : Kid(t, n, i) \in NodesOf(t, ExpressionKinds)
      /\ t[n].kind \in {"Assignment", "Additive", "Multiplicative", "Relational"} =>
           1 \in 1 .. Len(t[n].kids)
      /\ t[n].kind \in {"ImplicitCast", "Subscript"} => 1 \in 1 .. Len(t[n].kids)
      /\ t[n].kind \in UseKinds => n \in UsesOf(t)
  BY ExpressionsInside
<1>2. \A i \in 1 .. Len(t[n].kids) : g[Kid(t, n, i)] \in Type \cup {IllTyped}
  BY <1>1
<1>3. TypedByKind(t, r, g, n)
  BY TypeCases
<1>4. CASE t[n].kind \in LiteralKinds
  <2>1. TypeOf(t, r, g, n) \in {Int32, Float, Bool}
    BY <1>3, <1>4, Zenon DEF LiteralKinds, TypedByKind
  <2>2. QED
    BY <2>1, BasicTypes
<1>5. CASE t[n].kind = "ImplicitCast"
  <2>1. TypeOf(t, r, g, n) = g[Kid(t, n, 1)]
    BY <1>3, <1>5, Zenon DEF TypedByKind
  <2>2. QED
    BY <1>1, <1>2, <1>5, <2>1
<1>6. CASE t[n].kind \in UseKinds
  <2>1. /\ Decl(t, r[n]).type \in Type
        /\ Primitive(Decl(t, r[n]).type.base) \in Type
    <3>1. Decl(t, r[n]).type \in Type
      BY <1>1, <1>6 DEF Linking
    <3>2. QED
      BY <3>1 DEF Type, Primitive
  <2>2. TypeOf(t, r, g, n) \in
          {Decl(t, r[n]).type, Primitive(Decl(t, r[n]).type.base), IllTyped}
    <3>1. CASE t[n].kind = "VariableExpr"
      BY <1>3, <3>1, Zenon DEF TypedByKind
    <3>2. CASE t[n].kind = "Subscript"
      BY <1>3, <3>2, Zenon DEF TypedByKind
    <3>3. CASE t[n].kind = "Call"
      BY <1>3, <3>3, Zenon DEF TypedByKind
    <3>4. QED
      BY <1>6, <3>1, <3>2, <3>3 DEF UseKinds
  <2>3. QED
    BY <2>1, <2>2
<1>7. CASE t[n].kind \in {"Assignment", "Relational"}
  <2>1. TypeOf(t, r, g, n) \in {Void, Bool, IllTyped}
    BY <1>3, <1>7, Zenon DEF TypedByKind
  <2>2. QED
    BY <2>1, BasicTypes
<1>8. CASE t[n].kind \in {"Additive", "Multiplicative"}
  <2>1. TypeOf(t, r, g, n) \in {g[Kid(t, n, 1)], IllTyped}
    BY <1>3, <1>8, Zenon DEF TypedByKind
  <2>2. g[Kid(t, n, 1)] \in Type \cup {IllTyped}
    BY <1>1, <1>2, <1>8
  <2>3. QED
    BY <2>1, <2>2
<1>9. QED
  BY <1>1, <1>4, <1>5, <1>6, <1>7, <1>8 DEF ExpressionKinds, UseKinds

LEMMA TypesLookBelow ==
  ASSUME NEW t, NEW r, IsTree(t), NEW n \in NodesOf(t, ExpressionKinds), NEW g, NEW h,
         \A m \in NodesOf(t, ExpressionKinds) : n < m => g[m] = h[m]
  PROVE  TypeOf(t, r, g, n) = TypeOf(t, r, h, n)
<1>1. /\ t[n].kind \in ExpressionKinds
      /\ DOMAIN t[n].kids = 1 .. Len(t[n].kids)
      /\ \A i \in 1 .. Len(t[n].kids) :
           Kid(t, n, i) \in NodesOf(t, ExpressionKinds) /\ n < Kid(t, n, i)
      /\ t[n].kind \in {"Assignment", "Additive", "Multiplicative", "Relational"} =>
           1 \in 1 .. Len(t[n].kids) /\ 2 \in 1 .. Len(t[n].kids)
      /\ t[n].kind \in {"ImplicitCast", "Subscript"} => 1 \in 1 .. Len(t[n].kids)
  BY ExpressionsInside
<1>2. \A i \in 1 .. Len(t[n].kids) : g[Kid(t, n, i)] = h[Kid(t, n, i)]
  BY <1>1
<1>3. TypedByKind(t, r, g, n) /\ TypedByKind(t, r, h, n)
  BY TypeCases
<1>4. CASE t[n].kind \in LiteralKinds \cup {"VariableExpr"}
  BY <1>3, <1>4 DEF LiteralKinds, TypedByKind
<1>5. CASE t[n].kind \in {"ImplicitCast", "Subscript"}
  <2>1. g[Kid(t, n, 1)] = h[Kid(t, n, 1)]
    BY <1>1, <1>2, <1>5
  <2>2. QED
    BY <1>3, <1>5, <2>1 DEF TypedByKind
<1>6. CASE t[n].kind = "Call"
  <2>1. ArgumentTypes(t, g, n) = ArgumentTypes(t, h, n)
    BY <1>1, <1>2 DEF ArgumentTypes
  <2>2. QED
    BY <1>3, <1>6, <2>1 DEF TypedByKind
<1>7. CASE t[n].kind \in {"Assignment", "Additive", "Multiplicative", "Relational"}
  <2>1. g[Kid(t, n, 1)] = h[Kid(t, n, 1)] /\ g[Kid(t, n, 2)] = h[Kid(t, n, 2)]
    BY <1>1, <1>2, <1>7
  <2>2. QED
    BY <1>3, <1>7, <2>1 DEF TypedByKind
<1>8. QED
  BY <1>1, <1>4, <1>5, <1>6, <1>7 DEF ExpressionKinds, LiteralKinds

LEMMA TypesDefined ==
  ASSUME NEW t, NEW r, IsTree(t), Linking(t, r)
  PROVE  TypesOf(t, r) =
           [n \in NodesOf(t, ExpressionKinds) |-> TypeOf(t, r, TypesOf(t, r), n)]
<1> DEFINE S == NodesOf(t, ExpressionKinds)
           V == Type \cup {IllTyped}
           F == [x \in S \X [S -> V] |-> TypeOf(t, r, x[2], x[1])]
           rank == [n \in S |-> Len(t) - n]
           P(ty) == ty = [n \in S |-> TypeOf(t, r, ty, n)]
<1>1. Len(t) \in Nat /\ \A n \in S : n \in 1 .. Len(t)
  BY DEF IsTree, NodesOf
<1>2. V # {} /\ rank \in [S -> 0 .. Len(t)]
  BY <1>1
<1>3. F \in [S \X [S -> V] -> V]
  <2>1. \A n \in S : \A g \in [S -> V] : TypeOf(t, r, g, n) \in V
    BY TypesInside
  <2> HIDE DEF S, V
  <2>2. QED
    BY <2>1
<1>4. ASSUME NEW n \in S, NEW g \in [S -> V], NEW h \in [S -> V],
             \A m \in S : rank[m] < rank[n] => g[m] = h[m]
      PROVE  F[<< n, g >>] = F[<< n, h >>]
  <2>1. \A m \in S : n < m => g[m] = h[m]
    BY <1>1, <1>4
  <2>2. TypeOf(t, r, g, n) = TypeOf(t, r, h, n)
    BY <2>1, TypesLookBelow
  <2> HIDE DEF S, V
  <2>3. QED
    BY <2>2
<1>5. \E g : P(g)
  <2> HIDE DEF rank, F, V, S
  <2>1. LooksBelow(S, V, Len(t), rank, F)
    BY <1>1, <1>2, <1>3, <1>4 DEF LooksBelow
  <2>2. PICK g \in [S -> V] : \A n \in S : g[n] = F[<< n, g >>]
    BY <2>1, Recursion
  <2>3. P(g)
    BY <2>2 DEF F
  <2>4. QED
    BY <2>3
<1>6. TypesOf(t, r) = CHOOSE g : P(g)
  BY DEF TypesOf
<1>7. QED
  <2> HIDE DEF P
  <2>1. P(TypesOf(t, r))
    BY <1>5, <1>6
  <2>2. QED
    BY <2>1 DEF P

LEMMA ReferentsLink ==
  ASSUME NEW t, IsProgram(t), Meaning(t).faults = {}
  PROVE  Linking(t, Meaning(t).referents)
<1>1. IsTree(t)
  BY DEF IsProgram
<1>2. \A n \in UsesOf(t) :
        /\ Meaning(t).referents[n] \in DeclsOf(t) \cup BuiltinDecls
        /\ Decl(t, Meaning(t).referents[n]).type \in Type
  BY ReferentsTyped
<1>3. ASSUME NEW d \in DeclsOf(t) \cup BuiltinDecls, Decl(t, d).kind = "Function"
      PROVE  ParameterTypes(t, d) \in Seq(Type)
  <2>1. CASE d \in BuiltinDecls
    <3>1. d \in {-1, -2} /\ ParameterTypes(t, d) = g_builtins[-d].parameters
      BY <2>1 DEF ParameterTypes, BuiltinDecls
    <3>2. g_builtins[1].parameters = << >> /\ g_builtins[2].parameters = << Int32 >>
      BY DEF g_builtins
    <3>3. -d \in {1, 2}
      BY <3>1
    <3>4. ParameterTypes(t, d) = << >> \/ ParameterTypes(t, d) = << Int32 >>
      BY <3>1, <3>2, <3>3
    <3>5. << >> \in Seq(Type) /\ << Int32 >> \in Seq(Type)
      BY BasicTypes
    <3>6. QED
      BY <3>4, <3>5
  <2>2. CASE d \notin BuiltinDecls
    <3>1. d \in DOMAIN t /\ t[d].kind = "Function"
      BY <1>3, <2>2 DEF Decl, DeclsOf
    <3>2. Parameters(t, d) \in Seq(DeclsOf(t))
      BY <1>1, <3>1, FunctionParts
    <3>3. \A m \in DeclsOf(t) : t[m].type \in Type
      BY <1>1 DEF DeclsOf, IsTree
    <3>4. [i \in DOMAIN Parameters(t, d) |-> t[Parameters(t, d)[i]].type] \in Seq(Type)
      BY <3>2, <3>3
    <3>5. QED
      BY <2>2, <3>4 DEF ParameterTypes
  <2>3. QED
    BY <2>1, <2>2
<1>4. QED
  BY <1>2, <1>3 DEF Linking

(***************************************************************************)
(* Sequences.                                                              *)
(***************************************************************************)
IsSequence(s) == s \in Seq({s[i] : i \in DOMAIN s})

LEMMA SequenceParts ==
  ASSUME NEW s, IsSequence(s)
  PROVE  Len(s) \in Nat /\ DOMAIN s = 1 .. Len(s) /\ s = [i \in 1 .. Len(s) |-> s[i]]
BY DEF IsSequence

LEMMA SequenceMade ==
  ASSUME NEW n \in Nat, NEW s, s = [i \in 1 .. n |-> s[i]]
  PROVE  IsSequence(s) /\ Len(s) = n
<1>1. DOMAIN s = 1 .. n
  OBVIOUS
<1>2. s \in [1 .. n -> {s[i] : i \in DOMAIN s}]
  BY <1>1
<1>3. s \in Seq({s[i] : i \in DOMAIN s})
  BY <1>2
<1>4. QED
  BY <1>1, <1>3 DEF IsSequence

LEMMA SequenceOf ==
  ASSUME NEW S, NEW s \in Seq(S)
  PROVE  IsSequence(s)
<1>1. Len(s) \in Nat /\ s = [i \in 1 .. Len(s) |-> s[i]]
  OBVIOUS
<1>2. QED
  BY <1>1, SequenceMade

LEMMA Joined ==
  ASSUME NEW a, IsSequence(a), NEW b, IsSequence(b)
  PROVE  /\ IsSequence(a \o b)
         /\ Len(a \o b) = Len(a) + Len(b)
         /\ \A i \in 1 .. Len(a) : (a \o b)[i] = a[i]
         /\ \A i \in 1 .. Len(b) : (a \o b)[Len(a) + i] = b[i]
         /\ \A i \in 1 .. Len(a \o b) :
              \/ i \in 1 .. Len(a) /\ (a \o b)[i] = a[i]
              \/ i - Len(a) \in 1 .. Len(b) /\ (a \o b)[i] = b[i - Len(a)]
<1> DEFINE S == {a[i] : i \in DOMAIN a} \cup {b[i] : i \in DOMAIN b}
<1>1. a \in Seq(S) /\ b \in Seq(S)
  <2>1. {a[i] : i \in DOMAIN a} \subseteq S /\ {b[i] : i \in DOMAIN b} \subseteq S
    OBVIOUS
  <2> HIDE DEF S
  <2>2. QED
    BY <2>1 DEF IsSequence
<1> HIDE DEF S
<1> PICK c : c = a \o b
  OBVIOUS
<1> PICK m : m = Len(a)
  OBVIOUS
<1> PICK n : n = Len(b)
  OBVIOUS
<1>2. /\ c \in Seq(S) /\ Len(c) = m + n
      /\ \A i \in 1 .. m + n : c[i] = IF i <= m THEN a[i] ELSE b[i - m]
  BY <1>1, ConcatProperties
<1>3. m \in Nat /\ n \in Nat
  BY <1>1
<1>4. IsSequence(c)
  <2>1. c \in Seq(S)
    BY <1>2
  <2>2. QED
    BY <2>1, SequenceOf
<1>5. \A i \in 1 .. m : i \in 1 .. m + n /\ i <= m
  BY <1>3
<1>6. \A i \in 1 .. n : m + i \in 1 .. m + n /\ ~ m + i <= m /\ (m + i) - m = i
  BY <1>3
<1>7. \A i \in 1 .. m + n : i \in 1 .. m \/ (~ i <= m /\ i - m \in 1 .. n)
  BY <1>3
<1>8. /\ \A i \in 1 .. m : c[i] = a[i]
      /\ \A i \in 1 .. n : c[m + i] = b[i]
  BY <1>2, <1>5, <1>6
<1>9. \A i \in 1 .. m + n : \/ i \in 1 .. m /\ c[i] = a[i]
                            \/ i - m \in 1 .. n /\ c[i] = b[i - m]
  BY <1>2, <1>5, <1>7
<1>10. QED
  BY <1>2, <1>4, <1>8, <1>9

LEMMA ShortSequences ==
  /\ IsSequence(<< >>) /\ Len(<< >>) = 0
  /\ \A x : IsSequence(<< x >>) /\ Len(<< x >>) = 1 /\ << x >>[1] = x
  /\ \A x, y : /\ IsSequence(<< x, y >>) /\ Len(<< x, y >>) = 2
               /\ << x, y >>[1] = x /\ << x, y >>[2] = y
<1>1. IsSequence(<< >>) /\ Len(<< >>) = 0
  <2>1. << >> \in Seq({<< >>[i] : i \in DOMAIN << >>})
    OBVIOUS
  <2>2. QED
    BY <2>1 DEF IsSequence
<1>2. ASSUME NEW x PROVE IsSequence(<< x >>) /\ Len(<< x >>) = 1 /\ << x >>[1] = x
  <2>1. << x >> = [i \in 1 .. 1 |-> << x >>[i]]
    OBVIOUS
  <2>2. 1 \in Nat
    OBVIOUS
  <2>3. QED
    BY <2>1, <2>2, SequenceMade
<1>3. ASSUME NEW x, NEW y
      PROVE  /\ IsSequence(<< x, y >>) /\ Len(<< x, y >>) = 2
             /\ << x, y >>[1] = x /\ << x, y >>[2] = y
  <2>1. << x, y >> = [i \in 1 .. 2 |-> << x, y >>[i]]
    OBVIOUS
  <2>2. 2 \in Nat
    OBVIOUS
  <2>3. QED
    BY <2>1, <2>2, SequenceMade
<1>4. QED
  BY <1>1, <1>2, <1>3

\* The sequence c is sequence a with x behind it.
Extends(c, a, x) ==
  /\ IsSequence(c) /\ Len(c) = Len(a) + 1
  /\ \A i \in 1 .. Len(a) : c[i] = a[i]
  /\ c[Len(a) + 1] = x

LEMMA OneAdded ==
  ASSUME NEW a, IsSequence(a), NEW b, IsSequence(b)
  PROVE  Len(b) = 1 => Extends(a \o b, a, b[1])
<1> PICK c : c = a \o b
  OBVIOUS
<1>1. /\ IsSequence(c) /\ Len(c) = Len(a) + Len(b)
      /\ \A i \in 1 .. Len(a) : c[i] = a[i]
      /\ \A i \in 1 .. Len(b) : c[Len(a) + i] = b[i]
      /\ \A i \in 1 .. Len(c) :
           \/ i \in 1 .. Len(a) /\ c[i] = a[i]
           \/ i - Len(a) \in 1 .. Len(b) /\ c[i] = b[i - Len(a)]
  BY Joined
<1>2. 1 \in 1 .. 1
  OBVIOUS
<1>3. QED
  BY <1>1, <1>2 DEF Extends

LEMMA LastAdded ==
  ASSUME NEW a, IsSequence(a), NEW x
  PROVE  Extends(a \o << x >>, a, x)
<1>1. IsSequence(<< x >>) /\ Len(<< x >>) = 1 /\ << x >>[1] = x
  BY ShortSequences
<1>2. Extends(a \o << x >>, a, << x >>[1])
  BY <1>1, OneAdded, Zenon
<1>3. QED
  BY <1>1, <1>2

LEMMA ShortJoined ==
  ASSUME NEW x, NEW y, NEW z
  PROVE  /\ << x >> \o << >> = << x >>
         /\ << x >> \o << y >> = << x, y >>
         /\ << x, y >> \o << >> = << x, y >>
         /\ << x, y >> \o << z >> = << x, y, z >>
<1>1. ASSUME NEW S, NEW s \in Seq(S) PROVE s \o << >> = s
  BY ConcatEmptySeq
<1>2. << x >> \in Seq({x, y}) /\ << x, y >> \in Seq({x, y})
  OBVIOUS
<1>3. << x >> \o << >> = << x >> /\ << x, y >> \o << >> = << x, y >>
  BY <1>1, <1>2
<1>4. << x >> \o << y >> = << x, y >>
  <2>1. PICK c : c = << x >> \o << y >>
    OBVIOUS
  <2>2. IsSequence(<< x >>) /\ Len(<< x >>) = 1 /\ << x >>[1] = x
    BY ShortSequences
  <2>3. Extends(c, << x >>, y)
    BY <2>1, <2>2, LastAdded
  <2>4. IsSequence(c) /\ Len(c) = 2 /\ c[1] = x /\ c[2] = y
    BY <2>2, <2>3 DEF Extends
  <2>5. c = [i \in 1 .. 2 |-> c[i]]
    BY <2>4, SequenceParts
  <2>6. << x, y >> = [i \in 1 .. 2 |-> << x, y >>[i]] /\ << x, y >>[1] = x /\ << x, y >>[2] = y
    OBVIOUS
  <2>7. \A i \in 1 .. 2 : i = 1 \/ i = 2
    OBVIOUS
  <2>8. c = << x, y >>
    BY <2>4, <2>5, <2>6, <2>7
  <2>9. QED
    BY <2>1, <2>8
<1>5. << x, y >> \o << z >> = << x, y, z >>
  <2>1. PICK c : c = << x, y >> \o << z >>
    OBVIOUS
  <2>2. /\ IsSequence(<< x, y >>) /\ Len(<< x, y >>) = 2
        /\ << x, y >>[1] = x /\ << x, y >>[2] = y
    BY ShortSequences
  <2>3. Extends(c, << x, y >>, z)
    BY <2>1, <2>2, LastAdded
  <2>4. IsSequence(c) /\ Len(c) = 3 /\ c[1] = x /\ c[2] = y /\ c[3] = z
    BY <2>2, <2>3 DEF Extends
  <2>5. c = [i \in 1 .. 3 |-> c[i]]
    BY <2>4, SequenceParts
  <2>6. /\ << x, y, z >> = [i \in 1 .. 3 |-> << x, y, z >>[i]]
        /\ << x, y, z >>[1] = x /\ << x, y, z >>[2] = y /\ << x, y, z >>[3] = z
    OBVIOUS
  <2>7. \A i \in 1 .. 3 : i = 1 \/ i = 2 \/ i = 3
    OBVIOUS
  <2>8. c = << x, y, z >>
    BY <2>4, <2>5, <2>6, <2>7
  <2>9. QED
    BY <2>1, <2>8
<1>6. QED
  BY <1>3, <1>4, <1>5

AreSequences(w, a, b, c) == IsSequence(w) /\ IsSequence(a) /\ IsSequence(b) /\ IsSequence(c)

LEMMA Regrouped ==
  ASSUME NEW w, NEW a, NEW b, NEW c, AreSequences(w, a, b, c)
  PROVE  w \o a \o b \o c = w \o (a \o b \o c)
<1>1. PICK S : /\ w \in Seq(S) /\ a \in Seq(S) /\ b \in Seq(S) /\ c \in Seq(S)
  <2>1. PICK W : W = {w[i] : i \in DOMAIN w}
    OBVIOUS
  <2>2. PICK A : A = {a[i] : i \in DOMAIN a}
    OBVIOUS
  <2>3. PICK B : B = {b[i] : i \in DOMAIN b}
    OBVIOUS
  <2>4. PICK C : C = {c[i] : i \in DOMAIN c}
    OBVIOUS
  <2>5. w \in Seq(W) /\ a \in Seq(A) /\ b \in Seq(B) /\ c \in Seq(C)
    BY <2>1, <2>2, <2>3, <2>4 DEF IsSequence, AreSequences
  <2>6. PICK S : W \subseteq S /\ A \subseteq S /\ B \subseteq S /\ C \subseteq S
    <3>1. PICK S : S = W \cup A \cup B \cup C
      OBVIOUS
    <3>2. QED
      BY <3>1
  <2>7. ASSUME NEW T, T \subseteq S, NEW q \in Seq(T) PROVE q \in Seq(S)
    BY <2>7
  <2>8. w \in Seq(S) /\ a \in Seq(S)
    BY <2>5, <2>6, <2>7
  <2>9. b \in Seq(S) /\ c \in Seq(S)
    BY <2>5, <2>6, <2>7
  <2>10. QED
    BY <2>8, <2>9
<1>2. \A x, y, z \in Seq(S) : (x \o y) \o z = x \o (y \o z)
  BY ConcatAssociative
<1>3. a \o b \in Seq(S) /\ w \o a \in Seq(S)
  BY <1>1
<1>4. (w \o a) \o b = w \o (a \o b)
  BY <1>1, <1>2
<1>5. (w \o (a \o b)) \o c = w \o ((a \o b) \o c)
  BY <1>1, <1>2, <1>3
<1>6. QED
  BY <1>4, <1>5

\* The places of two sequences, one behind the other.
LEMMA PlacesSplit ==
  ASSUME NEW d \in Nat, NEW l \in Nat
  PROVE  /\ \A i \in 1 .. d + l : i \in 1 .. d \/ \E j \in 1 .. l : d + j = i
         /\ \A i \in 1 .. (d + l) - 1 :
              i \in 1 .. d \/ \E j \in 1 .. l - 1 : j \in 1 .. l /\ d + j = i
         /\ \A i \in 1 .. (d + l) - 1 : i \in 1 .. d + l
         /\ d + l # 0 => d + l \in 1 .. d + l
<1>1. ASSUME NEW i \in 1 .. d + l, i \notin 1 .. d
      PROVE  \E j \in 1 .. l : d + j = i /\ (i # d + l => j \in 1 .. l - 1)
  <2>1. i - d \in 1 .. l /\ d + (i - d) = i /\ (i # d + l => i - d \in 1 .. l - 1)
    BY <1>1
  <2>2. QED
    BY <2>1
<1>2. \A i \in 1 .. (d + l) - 1 : i \in 1 .. d + l /\ i # d + l
  OBVIOUS
<1>3. QED
  BY <1>1, <1>2

LEMMA MinLeast ==
  ASSUME NEW T \in SUBSET Nat, T # {}
  PROVE  Min(T) \in T /\ \A k \in T : Min(T) <= k
<1>1. \E m \in T : \A k \in T : m <= k
  BY Least
<1>2. QED
  BY <1>1 DEF Min

(***************************************************************************)
(* Iteration.  The sets within 0, 1, 2 ... jumps grow until one is closed. *)
(***************************************************************************)
Jumps(N, m, next, g) ==
  /\ N \in Nat /\ m \in 1 .. N /\ next \in [1 .. N -> SUBSET (1 .. N)]
  /\ g \in [0 .. N -> SUBSET (1 .. N)]
  /\ g[0] = {m}
  /\ \A p, k \in 0 .. N : k = p + 1 => g[k] = g[p] \cup UNION {next[b] : b \in g[p]}

LEMMA JumpsGrow ==
  ASSUME NEW N, NEW m, NEW next, NEW g, Jumps(N, m, next, g), NEW p \in 0 .. N, NEW q \in 0 .. N,
         p <= q
  PROVE  g[p] \subseteq g[q]
<1> DEFINE Bad == {k \in 0 .. N : p <= k /\ ~ g[p] \subseteq g[k]}
<1>1. N \in Nat
  BY DEF Jumps
<1>2. ASSUME Bad # {} PROVE FALSE
  <2>1. Bad \in SUBSET Nat
    OBVIOUS
  <2>2. PICK k \in Bad : \A j \in Bad : k <= j
    <3> HIDE DEF Bad
    <3>1. QED
      BY <1>2, <2>1, Least
  <2>3. k # p /\ k \in 0 .. N /\ p <= k
    BY <2>2
  <2>4. PICK j \in 0 .. N : k = j + 1 /\ p <= j /\ ~ k <= j
    BY <1>1, <2>3
  <2>5. g[p] \subseteq g[j]
    BY <2>2, <2>4
  <2>6. g[j] \subseteq g[k]
    BY <2>3, <2>4 DEF Jumps
  <2>7. QED
    BY <2>2, <2>5, <2>6
<1>3. q \notin Bad
  BY <1>2
<1>4. QED
  BY <1>3

LEMMA FewJumpsEnough ==
  ASSUME NEW N, NEW m, NEW next, NEW g, Jumps(N, m, next, g)
  PROVE  \E S \in SUBSET g[N] : m \in S /\ \A b \in S : next[b] \subseteq S
<1> DEFINE Small == {k \in 0 .. N : Cardinality(g[k]) <= k}
<1>1. N \in Nat /\ IsFiniteSet(1 .. N) /\ Cardinality(1 .. N) = N
  <2>1. N \in Nat
    BY DEF Jumps
  <2>2. 1 \in Int /\ N \in Int
    BY <2>1
  <2>3. IsFiniteSet(1 .. N) /\ Cardinality(1 .. N) = IF 1 > N THEN 0 ELSE N - 1 + 1
    BY <2>2, FS_Interval
  <2>4. QED
    BY <2>1, <2>3
<1>2. ASSUME NEW k \in 0 .. N
      PROVE  IsFiniteSet(g[k]) /\ Cardinality(g[k]) \in Nat /\ Cardinality(g[k]) <= N
  <2>1. g[k] \in SUBSET (1 .. N)
    BY DEF Jumps
  <2>2. IsFiniteSet(g[k]) /\ Cardinality(g[k]) <= Cardinality(1 .. N)
    BY <1>1, <2>1, FS_Subset
  <2>3. Cardinality(g[k]) \in Nat
    BY <2>2, FS_CardinalityType
  <2>4. QED
    BY <1>1, <2>2, <2>3
<1>3. N \in Small
  BY <1>1, <1>2
<1>4. Small \in SUBSET Nat /\ Small # {}
  BY <1>3
<1>5. PICK k \in Small : \A j \in Small : k <= j
  <2> HIDE DEF Small
  <2>1. QED
    BY <1>4, Least
<1>6. Cardinality(g[0]) = 1
  BY FS_Singleton DEF Jumps
<1>7. PICK p \in 0 .. N : k = p + 1 /\ p <= N /\ ~ k <= p
  <2>1. k # 0
    BY <1>1, <1>5, <1>6
  <2>2. k \in 0 .. N /\ N \in Nat
    BY <1>1, <1>5
  <2> HIDE DEF Small
  <2>3. k - 1 \in 0 .. N /\ k = (k - 1) + 1 /\ k - 1 <= N /\ ~ k <= k - 1
    BY <2>1, <2>2
  <2>4. QED
    BY <2>3
<1>8. p \notin Small
  BY <1>5, <1>7
<1>9. g[p] = g[k]
  <2>1. g[p] \subseteq g[k]
    <3>1. p \in 0 .. N /\ k \in 0 .. N /\ p <= k
      BY <1>1, <1>5, <1>7
    <3>2. QED
      BY <3>1, JumpsGrow
  <2>2. Cardinality(g[k]) <= Cardinality(g[p])
    BY <1>2, <1>5, <1>7, <1>8
  <2>3. IsFiniteSet(g[k]) /\ Cardinality(g[k]) \in Nat /\ Cardinality(g[p]) \in Nat
    BY <1>2, <1>5
  <2>4. /\ Cardinality(g[p]) <= Cardinality(g[k])
        /\ Cardinality(g[k]) = Cardinality(g[p]) => g[k] = g[p]
    <3>1. g[p] \in SUBSET g[k]
      BY <2>1
    <3>2. QED
      BY <2>3, <3>1, FS_Subset
  <2>5. QED
    BY <2>2, <2>3, <2>4
<1>10. \A b \in g[p] : next[b] \subseteq g[p]
  <2>1. g[k] = g[p] \cup UNION {next[b] : b \in g[p]}
    BY <1>5, <1>7 DEF Jumps
  <2>2. QED
    BY <1>9, <2>1
<1>11. m \in g[p]
  <2>1. 0 \in 0 .. N /\ 0 <= p
    BY <1>1, <1>7
  <2>2. g[0] \subseteq g[p]
    BY <1>7, <2>1, JumpsGrow
  <2>3. QED
    BY <2>2 DEF Jumps
<1>12. g[p] \subseteq g[N]
  <2>1. N \in 0 .. N
    BY <1>1
  <2>2. QED
    BY <1>7, <2>1, JumpsGrow
<1>13. QED
  BY <1>10, <1>11, <1>12

LEMMA JumpsDefined ==
  ASSUME NEW N \in Nat, NEW m \in 1 .. N, NEW next \in [1 .. N -> SUBSET (1 .. N)]
  PROVE  \E g : Jumps(N, m, next, g)
<1> DEFINE S == 0 .. N
           V == SUBSET (1 .. N)
           F == [x \in S \X [S -> V] |->
                   IF x[1] = 0 THEN {m}
                   ELSE x[2][x[1] - 1] \cup UNION {next[b] : b \in x[2][x[1] - 1]}]
           rank == [n \in S |-> n]
<1>1. V # {} /\ rank \in [S -> 0 .. N]
  OBVIOUS
<1>2. \A n \in S : n # 0 => n - 1 \in S /\ n - 1 < n
  OBVIOUS
<1>3. ASSUME NEW n \in S, NEW g \in [S -> V]
      PROVE  (IF n = 0 THEN {m} ELSE g[n - 1] \cup UNION {next[b] : b \in g[n - 1]}) \in V
  <2>1. CASE n = 0
    BY <2>1
  <2>2. CASE n # 0
    <3>1. g[n - 1] \in V
      BY <1>2, <2>2
    <3>2. \A b \in g[n - 1] : next[b] \in V
      BY <3>1
    <3>3. QED
      BY <2>2, <3>1, <3>2
  <2>3. QED
    BY <2>1, <2>2
<1>4. F \in [S \X [S -> V] -> V]
  BY <1>3
<1>5. ASSUME NEW n \in S, NEW g \in [S -> V], NEW h \in [S -> V],
             \A k \in S : rank[k] < rank[n] => g[k] = h[k]
      PROVE  F[<< n, g >>] = F[<< n, h >>]
  <2>1. n # 0 => g[n - 1] = h[n - 1]
    BY <1>2, <1>5
  <2>2. QED
    BY <2>1
<1>6. PICK g \in [S -> V] : \A n \in S : g[n] = F[<< n, g >>]
  <2>1. LooksBelow(S, V, N, rank, F)
    <3> HIDE DEF S, V, F, rank
    <3>1. QED
      BY <1>1, <1>4, <1>5 DEF LooksBelow
  <2>2. QED
    <3> HIDE DEF S, V, F, rank
    <3>1. QED
      BY <2>1, Recursion
<1>made. ASSUME NEW n \in S
         PROVE  g[n] = IF n = 0 THEN {m}
                       ELSE g[n - 1] \cup UNION {next[b] : b \in g[n - 1]}
  <2>1. g[n] = F[<< n, g >>] /\ << n, g >> \in S \X [S -> V]
    BY <1>6
  <2>2. QED
    BY <2>1
<1>7. g[0] = {m}
  <2>1. 0 \in S
    OBVIOUS
  <2>2. QED
    BY <1>made, <2>1
<1>8. ASSUME NEW p \in S, NEW k \in S, k = p + 1
      PROVE  g[k] = g[p] \cup UNION {next[b] : b \in g[p]}
  <2>1. k # 0 /\ k - 1 = p
    BY <1>8
  <2>2. QED
    BY <1>made, <2>1
<1>9. QED
  BY <1>6, <1>7, <1>8 DEF Jumps

\* Steps from x that stay in V.
Iterates(V, x, T, N, g) ==
  g \in [0 .. N -> V] /\ \A k \in 0 .. N : g[k] = IF k = 0 THEN x ELSE T[g[k - 1]]

LEMMA Iterated ==
  ASSUME NEW V, NEW x \in V, NEW T \in [V -> V], NEW N \in Nat
  PROVE  \E g : Iterates(V, x, T, N, g)
<1> DEFINE S == 0 .. N
           F == [y \in S \X [S -> V] |-> IF y[1] = 0 THEN x ELSE T[y[2][y[1] - 1]]]
           rank == [n \in S |-> n]
<1>1. V # {} /\ rank \in [S -> 0 .. N]
  OBVIOUS
<1>2. \A n \in S : n # 0 => n - 1 \in S /\ n - 1 < n
  OBVIOUS
<1>3. ASSUME NEW n \in S, NEW g \in [S -> V]
      PROVE  (IF n = 0 THEN x ELSE T[g[n - 1]]) \in V
  BY <1>2
<1>4. F \in [S \X [S -> V] -> V]
  BY <1>3
<1>5. ASSUME NEW n \in S, NEW g \in [S -> V], NEW h \in [S -> V],
             \A k \in S : rank[k] < rank[n] => g[k] = h[k]
      PROVE  F[<< n, g >>] = F[<< n, h >>]
  <2>1. n # 0 => g[n - 1] = h[n - 1]
    BY <1>2, <1>5
  <2>2. QED
    BY <2>1
<1>6. PICK g \in [S -> V] : \A n \in S : g[n] = F[<< n, g >>]
  <2>1. LooksBelow(S, V, N, rank, F)
    <3> HIDE DEF S, F, rank
    <3>1. QED
      BY <1>1, <1>4, <1>5 DEF LooksBelow
  <2>2. QED
    <3> HIDE DEF S, F, rank
    <3>1. QED
      BY <2>1, Recursion
<1>7. ASSUME NEW n \in S
      PROVE  g[n] = IF n = 0 THEN x ELSE T[g[n - 1]]
  <2>1. g[n] = F[<< n, g >>] /\ << n, g >> \in S \X [S -> V]
    BY <1>6
  <2>2. QED
    BY <2>1
<1>8. QED
  BY <1>7 DEF Iterates

(***************************************************************************)
(* Declarations: those in scope at a node, and the trees they belong to.   *)
(***************************************************************************)
Visible(t, m) ==
  IF m = 1 THEN {}
  ELSE BuiltinDecls \cup {d \in DeclsOf(t) : d < m /\ Within(t, m, Owner(t, d))}

IsBody(t, k) == t[k].kind = "Compound" /\ t[k].is_function_body

\* The body of a function is the last child of it.
LEMMA BodyIsLast ==
  ASSUME NEW t, IsTree(t), NEW n \in DOMAIN t, NEW i \in 1 .. Len(t[n].kids),
         IsBody(t, Kid(t, n, i))
  PROVE  t[n].kind = "Function" /\ i = Len(t[n].kids)
<1>1. KidsFit(t, n) /\ Len(t[n].kids) \in Nat
  BY NodeShape
<1>2. t[n].kind = "Function"
  BY <1>1, Zenon DEF KidsFit, IsBody
<1>3. \A j \in 1 .. Len(t[n].kids) - 1 : t[Kid(t, n, j)].kind = "Parameter"
  BY <1>2, FunctionParts
<1>4. i \in 1 .. Len(t[n].kids) - 1 \/ i = Len(t[n].kids)
  BY <1>1
<1>5. QED
  BY <1>2, <1>3, <1>4 DEF IsBody

\* A declaration inside a subtree belongs to a scope of that subtree.
LEMMA OwnedInside ==
  ASSUME NEW t, IsProgram(t), NEW k \in DOMAIN t, k # 1, ~ IsBody(t, k),
         NEW d \in DeclsOf(t), Within(t, d, k), d # k
  PROVE  k <= Owner(t, d)
<1>1. IsTree(t) /\ d \in DOMAIN t /\ t[d].kind \in DeclKinds
  BY DEF IsProgram, DeclsOf
<1>2. \A m \in DOMAIN t : m \in Nat \ {0} /\ t[m].span \in Nat \ {0} /\ m <= Len(t)
  BY <1>1, NodeShape
<1>3. k < d
  BY <1>1, <1>2 DEF Within
<1>4. d # 1
  BY <1>1, <1>2, <1>3
<1>5. /\ Owner(t, d) \in Nat
      /\ \A a \in DOMAIN t : a < d /\ OpensScope(t, a) /\ Within(t, d, a) => a <= Owner(t, d)
  <2>1. /\ \A a \in ScopesAround(t, d) : a <= Owner(t, d)
        /\ Owner(t, d) \in 1 .. Len(t)
    BY <1>1, <1>4, OwnerAround
  <2>2. \A a \in DOMAIN t : a < d => a \in 1 .. d - 1
    BY <1>1, <1>2
  <2>3. QED
    BY <2>1, <2>2 DEF ScopesAround
<1>6. PICK p \in DOMAIN t : \E i \in 1 .. Len(t[p].kids) : d = Kid(t, p, i)
  BY <1>1, <1>4, Parent
<1>7. PICK i \in 1 .. Len(t[p].kids) : d = Kid(t, p, i)
  BY <1>6
<1>8. Within(t, p, k) /\ p < d /\ Within(t, d, p) /\ p # 1
  <2>1. Within(t, p, k)
    BY <1>1, <1>7, AroundKid
  <2>2. p < d
    BY <1>1, <1>7, KidsInside
  <2>3. Within(t, d, p)
    <3>1. Within(t, p, p)
      BY <1>2 DEF Within
    <3>2. QED
      BY <1>1, <1>7, <3>1, AroundKid
  <2>4. p # 1
    BY <1>2, <2>1 DEF Within
  <2>5. QED
    BY <2>1, <2>2, <2>3, <2>4
<1>9. t[p].kind \in {"Program", "Function", "Compound"}
  <2>1. KidsFit(t, p) /\ t[p].kind \in NodeKinds /\ Len(t[p].kids) \in Nat
    BY <1>1, NodeShape
  <2>2. t[Kid(t, p, i)].kind \in DeclKinds
    BY <1>1, <1>7
  <2>3. QED
    BY <2>1, <2>2
       DEF KidsFit, ExpressionKinds, LiteralKinds, StatementKinds, NodeKinds, DeclKinds
<1>10. CASE OpensScope(t, p)
  BY <1>2, <1>5, <1>8, <1>10 DEF Within
<1>11. CASE ~ OpensScope(t, p)
  <2>1. IsBody(t, p)
    <3>1. KidsFit(t, p)
      BY <1>1, NodeShape
    <3>2. t[p].kind = "Compound"
      BY <1>9, <1>11 DEF OpensScope
    <3>3. QED
      BY <1>11, <3>2 DEF OpensScope, IsBody
  <2>2. PICK q \in DOMAIN t : \E j \in 1 .. Len(t[q].kids) : p = Kid(t, q, j)
    BY <1>1, <1>8, Parent
  <2>3. PICK j \in 1 .. Len(t[q].kids) : p = Kid(t, q, j)
    BY <2>2
  <2>4. t[q].kind = "Function"
    BY <1>1, <2>1, <2>3, BodyIsLast
  <2>5. Within(t, q, k)
    BY <1>1, <1>8, <2>1, <2>3, AroundKid
  <2>6. q < d /\ Within(t, d, q)
    <3>1. q < p
      BY <1>1, <2>3, KidsInside
    <3>2. Within(t, p, q)
      <4>1. Within(t, q, q)
        BY <1>2 DEF Within
      <4>2. QED
        BY <1>1, <2>3, <4>1, AroundKid
    <3>3. Within(t, d, q)
      BY <1>1, <1>7, <3>2, AroundKid
    <3>4. QED
      BY <1>1, <1>2, <1>8, <3>1, <3>3
  <2>7. QED
    BY <1>2, <1>5, <2>4, <2>5, <2>6 DEF OpensScope, Within
<1>12. QED
  BY <1>10, <1>11

\* What is visible at a child of n: what is at n, n, and the children before.
LEMMA VisibleAtKid ==
  ASSUME NEW t, IsProgram(t), NEW n \in DOMAIN t, NEW i \in 1 .. Len(t[n].kids),
         NEW d \in DeclsOf(t), d \in Visible(t, Kid(t, n, i))
  PROVE  /\ Within(t, n, Owner(t, d))
         /\ d <= n \/ \E l \in 1 .. i - 1 : d = Kid(t, n, l)
<1>1. IsTree(t) /\ d \in DOMAIN t /\ t[1].kind = "Program"
  BY DEF IsProgram, DeclsOf
<1>2. \A m \in DOMAIN t : m \in Nat \ {0} /\ t[m].span \in Nat \ {0}
  BY <1>1, NodeShape
<1> PICK k : k = Kid(t, n, i)
  OBVIOUS
<1> PICK o : o = Owner(t, d)
  OBVIOUS
<1>3. k \in DOMAIN t /\ n < k /\ k + t[k].span <= n + t[n].span
  BY <1>1, NodeShape, KidsInside
<1>4. d \notin BuiltinDecls
  BY <1>1, <1>2 DEF BuiltinDecls
<1>5. d < k /\ Within(t, k, o)
  BY <1>4 DEF Visible
<1>6. d # 1
  BY <1>1 DEF DeclsOf, DeclKinds
<1>7. o \in DOMAIN t /\ o < d
  <2>1. o \in ScopesAround(t, d) /\ o \in 1 .. Len(t)
    BY <1>1, <1>6, OwnerAround
  <2>2. DOMAIN t = 1 .. Len(t) /\ d \in Nat
    BY <1>1, NodeShape
  <2>3. QED
    BY <2>1, <2>2 DEF ScopesAround
<1>8. Within(t, n, o)
  <2>1. o # k
    BY <1>1, <1>2, <1>3, <1>5, <1>7
  <2>2. QED
    BY <1>1, <1>5, <1>7, <2>1, AroundKid
<1>9. ASSUME n < d PROVE \E l \in 1 .. i - 1 : d = Kid(t, n, l)
  <2>1. Within(t, d, n)
    BY <1>1, <1>2, <1>3, <1>5, <1>9 DEF Within
  <2>2. PICK l \in 1 .. Len(t[n].kids) : Within(t, d, Kid(t, n, l))
    BY <1>1, <1>2, <1>9, <2>1, KidsCover
  <2> PICK m : m = Kid(t, n, l)
    OBVIOUS
  <2>3. m \in DOMAIN t /\ n < m
    BY <1>1, NodeShape, KidsInside
  <2>4. l < i
    <3>1. m <= d
      BY <2>2 DEF Within
    <3>2. m < k
      BY <1>1, <1>2, <1>3, <1>5, <2>3, <3>1
    <3>3. i < l => k <= m
      <4>1. i < l => k + t[k].span <= m
        BY <1>1, KidsApart
      <4>2. QED
        BY <1>2, <1>3, <2>3, <4>1
    <3>4. Len(t[n].kids) \in Nat
      BY <1>1, NodeShape
    <3>5. QED
      BY <1>2, <1>3, <2>3, <3>2, <3>3, <3>4
  <2>5. m # 1 /\ ~ IsBody(t, m)
    <3>1. IsBody(t, m) => l = Len(t[n].kids)
      BY <1>1, BodyIsLast
    <3>2. Len(t[n].kids) \in Nat /\ l # Len(t[n].kids)
      BY <1>1, <2>4, NodeShape
    <3>3. QED
      BY <1>2, <2>3, <3>1, <3>2
  <2>6. ASSUME d # m PROVE FALSE
    <3>1. m <= o
      BY <2>2, <2>3, <2>5, <2>6, OwnedInside
    <3>2. QED
      BY <1>2, <1>7, <1>8, <2>3, <3>1 DEF Within
  <2>7. l \in 1 .. i - 1
    BY <2>4
  <2>8. QED
    BY <2>6, <2>7
<1>10. QED
  BY <1>1, <1>2, <1>8, <1>9

\* The order of the visits: what is visible at a node is visible at its
\* children, and what is visible at the next child was visible before or is
\* the child before.
LEMMA VisibleInTurn ==
  ASSUME NEW t, IsProgram(t), NEW n \in DOMAIN t, NEW i \in 1 .. Len(t[n].kids)
  PROVE  /\ Visible(t, n) \subseteq Visible(t, Kid(t, n, i))
         /\ Visible(t, Kid(t, n, i)) \subseteq
              BuiltinDecls \cup Visible(t, n) \cup ({n} \cap DeclsOf(t)) \cup
              ({Kid(t, n, l) : l \in 1 .. i - 1} \cap DeclsOf(t))
         /\ \A j \in 1 .. i - 1 : Visible(t, Kid(t, n, j)) \subseteq Visible(t, Kid(t, n, i))
         /\ i # 1 => Visible(t, Kid(t, n, i)) \subseteq
                       Visible(t, Kid(t, n, i - 1)) \cup ({Kid(t, n, i - 1)} \cap DeclsOf(t))
<1>1. IsTree(t) /\ t[1].kind = "Program"
  BY DEF IsProgram
<1>2. \A m \in DOMAIN t : m \in Nat \ {0} /\ t[m].span \in Nat \ {0}
  BY <1>1, NodeShape
<1>3. Len(t[n].kids) \in Nat /\ \A j \in 1 .. Len(t[n].kids) :
        Kid(t, n, j) \in DOMAIN t /\ n < Kid(t, n, j) /\ Kid(t, n, j) # 1
  <2>1. /\ Len(t[n].kids) \in Nat
        /\ \A j \in 1 .. Len(t[n].kids) : Kid(t, n, j) \in DOMAIN t
    BY <1>1, NodeShape
  <2>2. \A j \in 1 .. Len(t[n].kids) : n < Kid(t, n, j)
    BY <1>1, KidsInside
  <2>3. QED
    BY <1>2, <2>1, <2>2
<1>4. \A d \in DeclsOf(t) : d \in DOMAIN t /\ d \in Nat /\ d # 1 /\ d \notin BuiltinDecls
  BY <1>1, <1>2 DEF DeclsOf, DeclKinds, BuiltinDecls
<1>5. ASSUME NEW d \in DeclsOf(t) PROVE Owner(t, d) \in DOMAIN t
  <2>1. Owner(t, d) \in 1 .. Len(t)
    BY <1>4, OwnerAround
  <2>2. QED
    BY <1>1, <2>1 DEF IsTree
<1>6. ASSUME NEW d \in DeclsOf(t), NEW j \in 1 .. Len(t[n].kids),
             Within(t, n, Owner(t, d)), d < Kid(t, n, j)
      PROVE  d \in Visible(t, Kid(t, n, j))
  <2>1. Within(t, Kid(t, n, j), Owner(t, d))
    BY <1>1, <1>5, <1>6, AroundKid
  <2>2. QED
    BY <1>3, <1>6, <2>1 DEF Visible
<1>7. Visible(t, n) \subseteq Visible(t, Kid(t, n, i))
  <2>1. SUFFICES ASSUME n # 1, NEW d \in DeclsOf(t), d < n, Within(t, n, Owner(t, d))
                 PROVE  d \in Visible(t, Kid(t, n, i))
    BY <1>3 DEF Visible
  <2>2. d < Kid(t, n, i)
    BY <1>2, <1>3, <1>4, <2>1
  <2>3. QED
    BY <1>6, <2>1, <2>2
<1>8. ASSUME NEW d \in Visible(t, Kid(t, n, i)), d \notin BuiltinDecls
      PROVE  d \in DeclsOf(t)
  BY <1>3, <1>8 DEF Visible
<1>9. \A d \in Visible(t, Kid(t, n, i)) : d \notin BuiltinDecls =>
        /\ d \in DeclsOf(t) /\ Within(t, n, Owner(t, d))
        /\ d <= n \/ \E l \in 1 .. i - 1 : d = Kid(t, n, l)
  BY <1>8, VisibleAtKid
<1>10. ASSUME NEW d \in DeclsOf(t), Within(t, n, Owner(t, d)), d < n PROVE d \in Visible(t, n)
  <2>1. n # 1
    BY <1>2, <1>4, <1>10
  <2>2. QED
    BY <1>10, <2>1 DEF Visible
<1>11. Visible(t, Kid(t, n, i)) \subseteq
         BuiltinDecls \cup Visible(t, n) \cup ({n} \cap DeclsOf(t)) \cup
         ({Kid(t, n, l) : l \in 1 .. i - 1} \cap DeclsOf(t))
  <2>1. \A d \in DeclsOf(t) : d <= n => d < n \/ d = n
    BY <1>2, <1>4
  <2>2. QED
    BY <1>9, <1>10, <2>1
<1>12. ASSUME NEW j \in 1 .. i - 1
       PROVE  Visible(t, Kid(t, n, j)) \subseteq Visible(t, Kid(t, n, i))
  <2>1. j \in 1 .. Len(t[n].kids) /\ j < i
    BY <1>3
  <2>2. Kid(t, n, j) < Kid(t, n, i)
    <3>1. Kid(t, n, j) + t[Kid(t, n, j)].span <= Kid(t, n, i)
      BY <1>1, <2>1, KidsApart
    <3>2. Kid(t, n, j) \in Nat /\ t[Kid(t, n, j)].span \in Nat \ {0} /\ Kid(t, n, i) \in Nat
      BY <1>2, <1>3, <2>1
    <3>3. QED
      BY <3>1, <3>2
  <2>3. ASSUME NEW d \in Visible(t, Kid(t, n, j)), d \notin BuiltinDecls
        PROVE  d \in Visible(t, Kid(t, n, i))
    <3>1. d \in DeclsOf(t) /\ d < Kid(t, n, j)
      BY <1>3, <2>1, <2>3 DEF Visible
    <3>2. Within(t, n, Owner(t, d))
      BY <2>1, <2>3, <3>1, VisibleAtKid
    <3>3. d < Kid(t, n, i)
      BY <1>2, <1>3, <1>4, <2>1, <2>2, <3>1
    <3>4. QED
      BY <1>6, <3>1, <3>2, <3>3
  <2>4. BuiltinDecls \subseteq Visible(t, Kid(t, n, i))
    BY <1>3 DEF Visible
  <2>5. QED
    BY <2>3, <2>4
<1>13. ASSUME i # 1
       PROVE  Visible(t, Kid(t, n, i)) \subseteq
                Visible(t, Kid(t, n, i - 1)) \cup ({Kid(t, n, i - 1)} \cap DeclsOf(t))
  <2> PICK j : j = i - 1
    OBVIOUS
  <2>1. j \in 1 .. Len(t[n].kids)
    BY <1>3, <1>13
  <2>2. BuiltinDecls \subseteq Visible(t, Kid(t, n, j))
    BY <1>3, <2>1 DEF Visible
  <2>3. ASSUME NEW d \in Visible(t, Kid(t, n, i)), d \notin BuiltinDecls
        PROVE  d \in Visible(t, Kid(t, n, j)) \cup ({Kid(t, n, j)} \cap DeclsOf(t))
    <3>1. /\ d \in DeclsOf(t) /\ Within(t, n, Owner(t, d))
          /\ d <= n \/ \E l \in 1 .. i - 1 : d = Kid(t, n, l)
      BY <1>9, <2>3
    <3>2. CASE d <= n
      <4>1. d < Kid(t, n, j)
        BY <1>2, <1>3, <1>4, <2>1, <3>1, <3>2
      <4>2. QED
        BY <1>6, <2>1, <3>1, <4>1
    <3>3. ASSUME NEW l \in 1 .. i - 1, d = Kid(t, n, l)
          PROVE  d \in Visible(t, Kid(t, n, j)) \cup ({Kid(t, n, j)} \cap DeclsOf(t))
      <4>1. l \in 1 .. Len(t[n].kids) /\ (l < j \/ l = j)
        BY <1>3
      <4>2. CASE l = j
        BY <3>1, <3>3, <4>2
      <4>3. CASE l < j
        <5>1. Kid(t, n, l) + t[Kid(t, n, l)].span <= Kid(t, n, j)
          BY <1>1, <2>1, <4>1, <4>3, KidsApart
        <5>2. Kid(t, n, l) \in Nat /\ t[Kid(t, n, l)].span \in Nat \ {0} /\ Kid(t, n, j) \in Nat
          BY <1>2, <1>3, <2>1, <4>1
        <5>3. d < Kid(t, n, j)
          BY <3>3, <5>1, <5>2
        <5>4. QED
          BY <1>6, <2>1, <3>1, <5>3
      <4>4. QED
        BY <4>1, <4>2, <4>3
    <3>4. QED
      BY <3>1, <3>2, <3>3
  <2>4. QED
    BY <2>2, <2>3
<1>14. QED
  BY <1>7, <1>11, <1>12, <1>13

LEMMA VisibleTyped ==
  ASSUME NEW t, NEW m
  PROVE  Visible(t, m) \subseteq DeclsOf(t) \cup BuiltinDecls
BY DEF Visible

\* A use refers to a declaration that is visible.
LEMMA ReferentVisible ==
  ASSUME NEW t, IsProgram(t), Meaning(t).faults = {}, NEW n \in UsesOf(t)
  PROVE  Meaning(t).referents[n] \in Visible(t, n)
<1> DEFINE owner == [d \in DeclsOf(t) |-> Owner(t, d)]
           InForce(m) == {d \in DeclsOf(t) : /\ d < m
                                             /\ t[d].name = t[m].name
                                             /\ Within(t, m, owner[d])}
           Innermost(ds) == CHOOSE d \in ds : \A e \in ds : owner[e] <= owner[d]
           referents == [m \in UsesOf(t) |-> IF InForce(m) = {} THEN BuiltinNamed(t[m].name)
                                                               ELSE Innermost(InForce(m))]
<1>1. Meaning(t).referents = referents
  BY DEF Meaning
<1>2. IsTree(t) /\ DOMAIN t = 1 .. Len(t) /\ Len(t) \in Nat \ {0} /\ t[1].kind = "Program"
  BY NodeShape DEF IsProgram, IsTree
<1>3. n # 1
  BY <1>2 DEF UsesOf, UseKinds
<1>4. \A d \in DeclsOf(t) : owner[d] = Owner(t, d) /\ owner[d] \in 0 .. Len(t)
  <2>1. ASSUME NEW d \in DeclsOf(t) PROVE Owner(t, d) \in 0 .. Len(t)
    <3>1. d \in DOMAIN t /\ d # 1
      BY <1>2 DEF DeclsOf, DeclKinds
    <3>2. QED
      BY <1>2, <3>1, OwnerAround
  <2>2. QED
    BY <2>1
<1> HIDE DEF owner
<1>5. ASSUME InForce(n) # {} PROVE Innermost(InForce(n)) \in InForce(n)
  <2> DEFINE T == {owner[d] : d \in InForce(n)}
  <2>1. T \in SUBSET (0 .. Len(t)) /\ T # {} /\ Len(t) \in Nat
    BY <1>2, <1>4, <1>5
  <2>2. PICK m \in T : \A k \in T : k <= m
    <3> HIDE DEF T
    <3> QED
      BY <2>1, Greatest
  <2>3. PICK d \in InForce(n) : m = owner[d]
    BY <2>2
  <2>4. \A e \in InForce(n) : owner[e] <= owner[d]
    BY <2>2, <2>3
  <2> HIDE DEF InForce
  <2>5. QED
    BY <2>4
<1>6. InForce(n) \subseteq Visible(t, n)
  BY <1>3, <1>4 DEF Visible
<1>7. referents[n] = IF InForce(n) = {} THEN BuiltinNamed(t[n].name) ELSE Innermost(InForce(n))
  OBVIOUS
<1>8. InForce(n) = {} => referents[n] \in BuiltinDecls
  <2>1. ASSUME InForce(n) = {} PROVE referents[n] \in BuiltinDecls
    <3>1. referents[n] \in DeclsOf(t) \cup BuiltinDecls
      BY <1>1, ReferentsTyped
    <3>2. referents[n] = BuiltinNamed(t[n].name)
      BY <1>7, <2>1
    <3>3. referents[n] # nullptr
      <4>1. \A m \in UsesOf(t) : Meaning(t).referents[m] # nullptr
        BY DEF Meaning
      <4>2. QED
        BY <1>1, <4>1
    <3> DEFINE named == {b \in BuiltinDecls : g_builtins[-b].name = t[n].name}
    <3>4. named # {} /\ BuiltinNamed(t[n].name) = Min(named)
      BY <3>2, <3>3 DEF BuiltinNamed
    <3>5. \E b \in named : \A c \in named : b <= c
      BY <3>4 DEF BuiltinDecls
    <3>6. Min(named) \in named
      BY <3>5 DEF Min
    <3>7. QED
      BY <3>2, <3>4, <3>6
  <2>2. QED
    BY <2>1
<1>9. BuiltinDecls \subseteq Visible(t, n)
  BY <1>3 DEF Visible
<1> HIDE DEF InForce, Innermost, referents
<1>10. QED
  BY <1>1, <1>5, <1>6, <1>7, <1>8, <1>9

\* A declaration at the top is in the scope of the program only.
LEMMA TopLevelDepth ==
  ASSUME NEW t, IsProgram(t), NEW i \in 1 .. Len(t[1].kids)
  PROVE  Depth(t, Kid(t, 1, i)) = 0
<1> PICK n : n = Kid(t, 1, i)
  OBVIOUS
<1>1. IsTree(t) /\ 1 \in DOMAIN t /\ t[1].kind = "Program" /\ n \in DOMAIN t
      /\ DOMAIN t = 1 .. Len(t) /\ Len(t) \in Nat
  BY NodeShape DEF IsProgram, IsTree
<1>2. n > 1 /\ n \in Nat
  BY <1>1, NodeShape, KidsInside
<1>3. Within(t, n, 1)
  BY <1>1, <1>2 DEF Within, IsTree
<1>4. ASSUME NEW a \in 1 .. n - 1, Within(t, n, a) PROVE a = 1
  <2>1. a \in DOMAIN t /\ a # n
    BY <1>1, <1>2
  <2>2. Within(t, 1, a)
    BY <1>1, <1>4, <2>1, AroundKid
  <2>3. QED
    BY <2>2 DEF Within
<1>5. ScopesAround(t, n) = {1}
  BY <1>1, <1>2, <1>3, <1>4 DEF ScopesAround, OpensScope
<1>6. Cardinality({1}) = 1
  BY FS_Singleton
<1>7. Depth(t, n) = Cardinality({1}) - 1
  BY <1>5 DEF Depth
<1>8. QED
  BY <1>6, <1>7
=============================================================================
