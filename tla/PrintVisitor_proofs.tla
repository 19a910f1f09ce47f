------------------------ MODULE PrintVisitor_proofs ------------------------
(***************************************************************************)
(* Proofs about the printer, for every tree of the shape that the parser   *)
(* builds.  The depth of a line, which the code counts up and down, is a   *)
(* property of the place in the tree, and so is the place of a line among  *)
(* the others.  The invariant leads from the place and depth reached,      *)
(* through the pending tasks, to the end of the tree at depth zero.        *)
(***************************************************************************)
EXTENDS PrintVisitor, Trees_proofs

(***************************************************************************)
(* The depth of the line of every node, from the depth of its parent.      *)
(***************************************************************************)
Binary == {"Additive", "Multiplicative", "Relational"}

LabelKinds == Binary \cup {"Subscript", "Call"}

Deeper(t, n) ==
  IF t[n].kind = "Function" THEN 0 ELSE IF t[n].kind \in LabelKinds THEN 2 ELSE 1

IsDepth(t, d) ==
  /\ d \in [DOMAIN t -> Nat]
  /\ d[1] = 0
  /\ \A n \in DOMAIN t : \A i \in 1 .. Len(t[n].kids) : d[Kid(t, n, i)] = d[n] + Deeper(t, n)

DepthOf(t) == CHOOSE d : IsDepth(t, d)

HasKid(t, m, n) == \E i \in 1 .. Len(t[m].kids) : n = Kid(t, m, i)

ParentOf(t, n) == CHOOSE m \in DOMAIN t : HasKid(t, m, n)

LEMMA ParentFound ==
  ASSUME NEW t, IsTree(t), NEW n \in DOMAIN t, n # 1
  PROVE  /\ ParentOf(t, n) \in DOMAIN t
         /\ HasKid(t, ParentOf(t, n), n)
         /\ ParentOf(t, n) < n
<1>1. \E m \in DOMAIN t : HasKid(t, m, n)
  BY Parent DEF HasKid
<1>2. ParentOf(t, n) \in DOMAIN t /\ HasKid(t, ParentOf(t, n), n)
  BY <1>1 DEF ParentOf
<1>3. ParentOf(t, n) < n
  BY <1>2, KidsInside DEF HasKid
<1>4. QED
  BY <1>2, <1>3

LEMMA ParentOfKid ==
  ASSUME NEW t, IsTree(t), NEW n \in DOMAIN t, NEW i \in 1 .. Len(t[n].kids)
  PROVE  /\ Kid(t, n, i) \in DOMAIN t /\ Kid(t, n, i) # 1
         /\ ParentOf(t, Kid(t, n, i)) = n
<1>1. Kid(t, n, i) \in DOMAIN t /\ n < Kid(t, n, i) /\ n \in 1 .. Len(t) /\ Len(t) \in Nat
  BY NodeShape, KidsInside
<1>2. Kid(t, n, i) # 1
  BY <1>1
<1>3. HasKid(t, ParentOf(t, Kid(t, n, i)), Kid(t, n, i)) /\ ParentOf(t, Kid(t, n, i)) \in DOMAIN t
  BY <1>1, <1>2, ParentFound
<1>4. ParentOf(t, Kid(t, n, i)) = n
  BY <1>3, OneParent DEF HasKid
<1>5. QED
  BY <1>1, <1>2, <1>4

LEMMA DepthExists ==
  ASSUME NEW t, IsTree(t)
  PROVE  IsDepth(t, DepthOf(t))
<1> DEFINE S == DOMAIN t
           At(g, n) == IF n = 1 THEN 0 ELSE g[ParentOf(t, n)] + Deeper(t, ParentOf(t, n))
           F == [x \in S \X [S -> Nat] |-> At(x[2], x[1])]
           rank == [n \in S |-> n]
<1>1. S = 1 .. Len(t) /\ Len(t) \in Nat \ {0}
  BY DEF IsTree
<1>2. ASSUME NEW g \in [S -> Nat], NEW n \in S
      PROVE  At(g, n) \in Nat
  BY <1>2, ParentFound DEF Deeper
<1>3. F \in [S \X [S -> Nat] -> Nat]
  <2> HIDE DEF At, S
  <2>1. QED
    BY <1>2
<1>4. ASSUME NEW n \in S, NEW g \in [S -> Nat], NEW h \in [S -> Nat],
             \A m \in S : rank[m] < rank[n] => g[m] = h[m]
      PROVE  F[<< n, g >>] = F[<< n, h >>]
  <2>1. At(g, n) = At(h, n)
    BY <1>4, ParentFound
  <2> HIDE DEF At, S
  <2>2. QED
    BY <2>1
<1>5. \E d : IsDepth(t, d)
  <2>1. rank \in [S -> 0 .. Len(t)]
    BY <1>1
  <2> HIDE DEF rank, F, S
  <2>2. LooksBelow(S, Nat, Len(t), rank, F)
    BY <1>1, <1>3, <1>4, <2>1 DEF LooksBelow
  <2>3. PICK d \in [S -> Nat] : \A n \in S : d[n] = F[<< n, d >>]
    BY <2>2, Recursion
  <2>4. \A n \in S : d[n] = At(d, n)
    BY <2>3 DEF F
  <2>5. d[1] = 0
    BY <1>1, <2>4
  <2>6. ASSUME NEW n \in DOMAIN t, NEW i \in 1 .. Len(t[n].kids)
        PROVE  d[Kid(t, n, i)] = d[n] + Deeper(t, n)
    BY <2>4, ParentOfKid DEF S
  <2>7. IsDepth(t, d)
    BY <2>5, <2>6 DEF IsDepth, S
  <2>8. QED
    BY <2>7
<1>6. QED
  BY <1>5 DEF DepthOf

\* Nothing is deeper than twice the number of nodes before it; and what lies
\* below a node is deeper by at least as much as its children are.
LEMMA DepthBounds ==
  ASSUME NEW t, IsTree(t), NEW d, IsDepth(t, d), NEW n \in DOMAIN t
  PROVE  /\ d[n] \in Nat /\ n \in 1 .. Len(t) /\ Len(t) \in Nat /\ d[n] <= 2 * (n - 1)
         /\ \A m \in DOMAIN t : Within(t, m, n) /\ m # n => d[m] >= d[n] + Deeper(t, n)
<1>1. DOMAIN t = 1 .. Len(t) /\ Len(t) \in Nat \ {0}
  BY DEF IsTree
<1>2. d \in [DOMAIN t -> Nat] /\ d[1] = 0
  BY DEF IsDepth
<1>3. ASSUME NEW m \in DOMAIN t, m # 1
      PROVE  /\ ParentOf(t, m) \in DOMAIN t /\ ParentOf(t, m) < m
             /\ HasKid(t, ParentOf(t, m), m)
             /\ d[m] = d[ParentOf(t, m)] + Deeper(t, ParentOf(t, m))
  BY <1>3, ParentFound DEF IsDepth, HasKid
<1>4. \A m : Deeper(t, m) \in 0 .. 2
  BY DEF Deeper
<1>5. d[n] <= 2 * (n - 1)
  <2> DEFINE Bad == {m \in DOMAIN t : d[m] > 2 * (m - 1)}
  <2>1. SUFFICES ASSUME Bad # {} PROVE FALSE
    BY <1>1, <1>2
  <2>2. PICK m \in Bad : \A k \in Bad : m <= k
    <3>1. Bad \in SUBSET Nat
      BY <1>1
    <3> HIDE DEF Bad
    <3>2. QED
      BY <2>1, <3>1, Least
  <2>3. m # 1
    BY <1>2, <2>2
  <2>4. ParentOf(t, m) \notin Bad /\ ParentOf(t, m) \in DOMAIN t /\ ParentOf(t, m) < m
    BY <1>1, <1>3, <2>2, <2>3
  <2> PICK p : p = ParentOf(t, m)
    OBVIOUS
  <2>5. d[p] <= 2 * (p - 1) /\ d[m] = d[p] + Deeper(t, p) /\ p < m /\ p \in DOMAIN t /\ m \in DOMAIN t
    BY <1>1, <1>2, <1>3, <2>2, <2>3, <2>4
  <2>6. QED
    BY <1>1, <1>2, <1>4, <2>2, <2>5
<1>6. \A m \in DOMAIN t : Within(t, m, n) /\ m # n => d[m] >= d[n] + Deeper(t, n)
  <2> DEFINE Bad == {m \in DOMAIN t : Within(t, m, n) /\ m # n /\ d[m] < d[n] + Deeper(t, n)}
  <2>0. \A m \in DOMAIN t : d[m] \in Nat /\ Deeper(t, n) \in Nat /\ d[n] \in Nat
    BY <1>2, <1>4
  <2>1. SUFFICES ASSUME Bad # {} PROVE FALSE
    BY <2>0
  <2>2. PICK m \in Bad : \A k \in Bad : m <= k
    <3>1. Bad \in SUBSET Nat
      BY <1>1
    <3> HIDE DEF Bad
    <3>2. QED
      BY <2>1, <3>1, Least
  <2>3. m \in DOMAIN t /\ n \in DOMAIN t /\ Within(t, m, n) /\ m # n
    BY <2>2
  <2>4. n < m /\ m # 1
    BY <1>1, <2>3 DEF Within
  <2> PICK p : p = ParentOf(t, m)
    OBVIOUS
  <2>5. p \in DOMAIN t /\ p < m /\ HasKid(t, p, m) /\ d[m] = d[p] + Deeper(t, p)
    BY <1>3, <2>3, <2>4
  <2>6. Within(t, p, n)
    BY <2>3, <2>5, AroundKid DEF HasKid
  <2>7. CASE p = n
    BY <1>2, <1>4, <2>2, <2>5, <2>7
  <2>8. CASE p # n
    <3>1. p \notin Bad
      BY <1>1, <2>2, <2>3, <2>5
    <3>2. d[p] >= d[n] + Deeper(t, n)
      BY <2>0, <2>5, <2>6, <2>8, <3>1
    <3>3. QED
      BY <1>4, <2>0, <2>2, <2>5, <3>2
  <2>9. QED
    BY <2>7, <2>8
<1>7. QED
  BY <1>1, <1>2, <1>5, <1>6

(***************************************************************************)
(* The place of every line among the others: the label before a child k,   *)
(* the line of node n, the line that stands for a missing expression of n. *)
(***************************************************************************)
LabelKey(k) == 3 * k - 1

NodeKey(n) == 3 * n

SemicolonKey(n) == 3 * n + 1

\* The children first to last of node n are below the label.
Group(t, n, says, first, last) ==
  /\ first \in 1 .. Len(t[n].kids) /\ last \in first .. Len(t[n].kids)
  /\ \/ t[n].kind \in Binary /\ says = "Left" /\ first = 1 /\ last = 1
     \/ t[n].kind \in Binary /\ says = "Right" /\ first = 2 /\ last = 2
     \/ t[n].kind = "Subscript" /\ says = "Index" /\ first = 1 /\ last = Len(t[n].kids)
     \/ t[n].kind = "Call" /\ says = "Arguments" /\ first = 1 /\ last = Len(t[n].kids)

\* Child i of n is the first below a label.
Leading(t, n, i) == \E says \in Labels : \E j \in 1 .. Len(t[n].kids) : Group(t, n, says, i, j)

Labelled(t, m) ==
  \E n \in DOMAIN t : \E i \in 1 .. Len(t[n].kids) : m = Kid(t, n, i) /\ Leading(t, n, i)

Keys(t) == {NodeKey(n) : n \in DOMAIN t} \cup {LabelKey(m) : m \in {m \in DOMAIN t : Labelled(t, m)}}

IsNodeLine(t, d, shown, line, key) ==
  /\ line.node \in DOMAIN t /\ key = NodeKey(line.node)
  /\ line.says = t[line.node].kind /\ line.depth = d[line.node]
  /\ line.type = shown[line.node]

IsLabelLine(t, d, line, key) ==
  /\ line.node \in DOMAIN t /\ line.depth = d[line.node] + 1
  /\ line.says \in Labels /\ line.type = NoType
  /\ \E i \in 1 .. Len(t[line.node].kids) : \E j \in 1 .. Len(t[line.node].kids) :
       Group(t, line.node, line.says, i, j) /\ key = LabelKey(Kid(t, line.node, i))

IsSemicolonLine(t, d, line, key) ==
  /\ line.node \in DOMAIN t /\ line.depth = d[line.node] + 1
  /\ line.says = "Semicolon" /\ line.type = NoType
  /\ t[line.node].kind = "ExpressionStmt" /\ Len(t[line.node].kids) = 0
  /\ key = SemicolonKey(line.node)

IsLine(t, d, shown, line, key) ==
  \/ IsNodeLine(t, d, shown, line, key)
  \/ IsLabelLine(t, d, line, key)
  \/ IsSemicolonLine(t, d, line, key)

\* The lines are those of the places before limit, in order.
Written(t, d, shown, lines, keys, limit) ==
  /\ lines = [i \in 1 .. Len(lines) |-> lines[i]] /\ Len(lines) \in Nat
  /\ keys \in [1 .. Len(lines) -> Nat]
  /\ \A i \in 1 .. Len(lines) : IsLine(t, d, shown, lines[i], keys[i]) /\ keys[i] < limit
  /\ \A i, j \in 1 .. Len(lines) : i < j => keys[i] < keys[j]
  /\ \A key \in Keys(t) : key < limit => \E i \in 1 .. Len(lines) : keys[i] = key

\* The given lines, at their places, are those from one place to another.
Covers(t, d, shown, lines, keys, from, to) ==
  /\ Len(lines) \in Nat /\ lines \in Seq({lines[i] : i \in 1 .. Len(lines)})
  /\ from <= to
  /\ \A i \in 1 .. Len(lines) :
       /\ IsLine(t, d, shown, lines[i], keys[i])
       /\ keys[i] \in from .. to - 1
  /\ \A i, j \in 1 .. Len(lines) : i < j => keys[i] < keys[j]
  /\ \A key \in Keys(t) : key \in from .. to - 1 => \E i \in 1 .. Len(lines) : keys[i] = key

LEMMA LinesWritten ==
  ASSUME NEW t, NEW d, NEW shown, NEW lines, NEW keys, NEW from \in Nat, NEW to \in Nat,
         NEW more, NEW extra,
         IsTree(t), Written(t, d, shown, lines, keys, from),
         Covers(t, d, shown, more, extra, from, to)
  PROVE  \E all : Written(t, d, shown, lines \o more, all, to)
<1> PICK n : n = Len(lines)
  OBVIOUS
<1> PICK k : k = Len(more)
  OBVIOUS
<1>1. /\ n \in Nat /\ k \in Nat /\ lines = [i \in 1 .. n |-> lines[i]]
      /\ more \in Seq({more[i] : i \in 1 .. k})
  BY DEF Written, Covers
<1> PICK out : out = lines \o more
  OBVIOUS
<1>2. /\ out = [i \in 1 .. n + k |-> out[i]] /\ Len(out) = n + k
      /\ \A i \in 1 .. n : out[i] = lines[i]
      /\ \A i \in 1 .. k : out[n + i] = more[i]
  <2>1. lines \in Seq({lines[i] : i \in 1 .. n})
    BY <1>1
  <2> DEFINE A == {lines[i] : i \in 1 .. n} \cup {more[i] : i \in 1 .. k}
  <2>2. lines \in Seq(A) /\ more \in Seq(A)
    BY <1>1, <2>1
  <2> HIDE DEF A
  <2>3. out \in Seq(A) /\ Len(out) = n + k
    BY <2>2
  <2>4. \A i \in 1 .. n : out[i] = lines[i]
    BY <1>1, <2>2
  <2>5. \A i \in 1 .. k : out[n + i] = more[i]
    BY <1>1, <2>2
  <2>6. out = [i \in 1 .. Len(out) |-> out[i]]
    <3>1. \A s \in Seq(A) : s = [i \in 1 .. Len(s) |-> s[i]]
      OBVIOUS
    <3>2. QED
      BY <2>3, <3>1
  <2>7. out = [i \in 1 .. n + k |-> out[i]]
    BY <2>3, <2>6, Zenon
  <2>8. QED
    BY <2>3, <2>4, <2>5, <2>7, Zenon
<1> DEFINE key(i) == IF i <= n THEN keys[i] ELSE extra[i - n]
           all == [i \in 1 .. n + k |-> key(i)]
<1>3. \A i \in 1 .. n : all[i] = keys[i] /\ i \in 1 .. n + k
  BY <1>1
<1>4. \A i \in 1 .. k : all[n + i] = extra[i] /\ n + i \in 1 .. n + k
  <2>1. ASSUME NEW i \in 1 .. k
        PROVE  n + i \in 1 .. n + k /\ ~ n + i <= n /\ n + i - n = i
    BY <1>1
  <2>2. QED
    BY <2>1
<1> HIDE DEF all
<1>5. \A i \in 1 .. n + k : i \in 1 .. n \/ \E j \in 1 .. k : i = n + j
  <2>1. ASSUME NEW i \in 1 .. n + k, i \notin 1 .. n
        PROVE  i - n \in 1 .. k /\ i = n + (i - n)
    BY <1>1, <2>1
  <2>2. QED
    BY <2>1
<1>6. /\ \A i \in 1 .. n : /\ IsLine(t, d, shown, lines[i], keys[i])
                           /\ keys[i] \in Nat /\ keys[i] < from
      /\ \A i, j \in 1 .. n : i < j => keys[i] < keys[j]
      /\ \A x \in Keys(t) : x < from => \E i \in 1 .. n : keys[i] = x
  BY DEF Written
<1>7. /\ from <= to
      /\ \A i \in 1 .. k : /\ IsLine(t, d, shown, more[i], extra[i])
                           /\ extra[i] \in from .. to - 1
      /\ \A i, j \in 1 .. k : i < j => extra[i] < extra[j]
      /\ \A x \in Keys(t) : x \in from .. to - 1 => \E i \in 1 .. k : extra[i] = x
  BY DEF Covers
<1>8. ASSUME NEW i \in 1 .. n + k
      PROVE  IsLine(t, d, shown, out[i], all[i]) /\ all[i] \in Nat /\ all[i] < to
  <2>1. CASE i \in 1 .. n
    BY <1>2, <1>3, <1>6, <1>7, <2>1
  <2>2. CASE \E j \in 1 .. k : i = n + j
    BY <1>2, <1>4, <1>7, <2>2
  <2>3. QED
    BY <1>5, <2>1, <2>2
<1>9. ASSUME NEW i \in 1 .. n + k, NEW j \in 1 .. n + k, i < j
      PROVE  all[i] < all[j]
  <2>1. CASE j \in 1 .. n
    <3>1. i \in 1 .. n
      BY <1>1, <1>9, <2>1
    <3>2. QED
      BY <1>3, <1>6, <1>9, <2>1, <3>1
  <2>2. CASE \E y \in 1 .. k : j = n + y
    <3>1. PICK y \in 1 .. k : j = n + y
      BY <2>2
    <3>2. CASE i \in 1 .. n
      <4>1. all[i] \in Nat /\ all[i] < from
        BY <1>3, <1>6, <3>2
      <4>2. all[j] \in from .. to - 1
        BY <1>4, <1>7, <3>1
      <4>3. QED
        BY <4>1, <4>2
    <3>3. CASE \E x \in 1 .. k : i = n + x
      <4>1. PICK x \in 1 .. k : i = n + x
        BY <3>3
      <4>2. x < y
        BY <1>1, <1>9, <3>1, <4>1
      <4>3. QED
        BY <1>4, <1>7, <3>1, <4>1, <4>2
    <3>4. QED
      BY <1>5, <3>2, <3>3
  <2>3. QED
    BY <1>5, <2>1, <2>2
<1>10. ASSUME NEW x \in Keys(t), x < to
       PROVE  \E i \in 1 .. n + k : all[i] = x
  <2>1. x \in Nat
    BY <1>10 DEF Keys, NodeKey, LabelKey, IsTree
  <2>2. CASE x < from
    BY <1>3, <1>6, <2>2
  <2>3. CASE ~ x < from
    <3>1. x \in from .. to - 1
      BY <1>10, <2>1, <2>3
    <3>2. QED
      BY <1>4, <1>7, <3>1
  <2>4. QED
    BY <2>2, <2>3
<1>11. all \in [1 .. n + k -> Nat]
  BY <1>8 DEF all
<1>12. Written(t, d, shown, out, all, to)
  <2>1. PICK len : len = n + k
    OBVIOUS
  <2>2. Len(out) = len /\ len \in Nat /\ out = [i \in 1 .. len |-> out[i]]
    BY <1>1, <1>2, <2>1
  <2>3. QED
    BY <1>8, <1>9, <1>10, <1>11, <2>1, <2>2, Zenon DEF Written
<1>13. QED
  BY <1>12

(***************************************************************************)
(* The way through the pending tasks: the next line and the depth at which *)
(* each of them starts and ends.                                           *)
(***************************************************************************)
PrintTask ==
  [op : {"visit", "leave"}, node : Nat] \cup
  [op : {"label"}, node : Nat, says : Labels, below : Seq(Nat)]

Place == [key : Nat, depth : Nat]

At(key, depth) == [key |-> key, depth |-> depth]

\* Where the visit of a node starts: behind its label, if it has one.
VisitKey(t, n) == IF Labelled(t, n) THEN NodeKey(n) ELSE LabelKey(n)

EndKey(t, n) == LabelKey(n + t[n].span)

Takes(t, d, task, p, q) ==
  LET n == task.node
  IN  /\ n \in DOMAIN t
      /\ task.op = "visit" => p = At(VisitKey(t, n), d[n]) /\ q = At(EndKey(t, n), d[n])
      /\ task.op = "label" =>
           \E i \in 1 .. Len(t[n].kids) : \E j \in 1 .. Len(t[n].kids) :
             /\ Group(t, n, task.says, i, j)
             /\ Len(task.below) = j - i + 1
             /\ \A k \in 1 .. j - i + 1 : task.below[k] = Kid(t, n, i + k - 1)
             /\ p = At(LabelKey(Kid(t, n, i)), d[n] + 1)
             /\ q = At(EndKey(t, Kid(t, n, j)), d[n] + 1)
      /\ task.op = "leave" =>
           p.key = q.key /\ p.depth = q.depth + 1 /\ p.depth \in {d[n] + 1, d[n] + 2}

\* Task i, counted from below, starts at way[i] and ends at way[i - 1].
Along(t, d, s, way) ==
  /\ way \in [0 .. Len(s) -> Place]
  /\ way[0] = At(EndKey(t, 1), 0)
  /\ \A i \in 1 .. Len(s) : Takes(t, d, s[i], way[i], way[i - 1])

\* Task i, counted in order, starts at way[i - 1] and ends at way[i].
Forward(t, d, tasks, way, p, q) ==
  /\ way \in [0 .. Len(tasks) -> Place]
  /\ way[0] = p /\ way[Len(tasks)] = q
  /\ \A i \in 1 .. Len(tasks) : Takes(t, d, tasks[i], way[i - 1], way[i])

\* The tasks lead from p to where the top task ends.
Replaced(t, d, tasks, way, on, p) ==
  /\ stack \in Seq(PrintTask) /\ stack # << >>
  /\ tasks \in Seq(PrintTask) /\ Continue(tasks)
  /\ Along(t, d, stack, way)
  /\ Forward(t, d, tasks, on, p, way[Len(stack) - 1])

LEMMA WayStep ==
  ASSUME NEW t, NEW d, NEW tasks, NEW way, NEW on, NEW p, Replaced(t, d, tasks, way, on, p)
  PROVE  \E new : Along(t, d, stack', new) /\ new[Len(stack')] = p
<1> PICK k : k = Len(stack)
  OBVIOUS
<1> PICK l : l = Len(tasks)
  OBVIOUS
<1> PICK m : m = Len(stack')
  OBVIOUS
<1>1. k \in Nat \ {0} /\ l \in Nat
  BY EmptySeq DEF Replaced
<1>2. /\ m = k - 1 + l
      /\ \A i \in 1 .. k - 1 : stack'[i] = stack[i]
      /\ \A i \in 1 .. l : stack'[k - 1 + i] = tasks[l - i + 1]
  BY ContinueStack DEF Replaced
<1>3. /\ way \in [0 .. k -> Place] /\ way[0] = At(EndKey(t, 1), 0)
      /\ \A i \in 1 .. k : Takes(t, d, stack[i], way[i], way[i - 1])
  BY DEF Along, Replaced
<1>4. /\ on \in [0 .. l -> Place] /\ on[0] = p /\ on[l] = way[k - 1]
      /\ \A i \in 1 .. l : Takes(t, d, tasks[i], on[i - 1], on[i])
  BY DEF Forward, Replaced
<1> DEFINE new == [j \in 0 .. m |-> IF j <= k - 1 THEN way[j] ELSE on[l - (j - (k - 1))]]
<1>5. \A j \in 0 .. k - 1 : j \in 0 .. m /\ new[j] = way[j]
  BY <1>1, <1>2
<1>6. ASSUME NEW i \in 0 .. l
      PROVE  k - 1 + i \in 0 .. m /\ new[k - 1 + i] = on[l - i]
  <2>1. k - 1 + i \in 0 .. m /\ l - (k - 1 + i - (k - 1)) = l - i
    BY <1>1, <1>2
  <2>2. CASE i = 0
    <3>1. k - 1 + i = k - 1 /\ k - 1 \in 0 .. k - 1 /\ l - i = l
      BY <1>1, <2>2
    <3>2. QED
      BY <1>4, <1>5, <2>1, <3>1
  <2>3. CASE i # 0
    <3>1. ~ k - 1 + i <= k - 1
      BY <1>1, <2>3
    <3>2. QED
      BY <2>1, <3>1
  <2>4. QED
    BY <2>2, <2>3
<1> HIDE DEF new
<1>7. new[m] = p
  <2>1. l \in 0 .. l /\ l - l = 0 /\ m = k - 1 + l
    BY <1>1, <1>2
  <2>2. QED
    BY <1>4, <1>6, <2>1
<1>8. new[0] = At(EndKey(t, 1), 0)
  <2>1. 0 \in 0 .. k - 1
    BY <1>1
  <2>2. QED
    BY <1>3, <1>5, <2>1
<1>9. ASSUME NEW j \in 0 .. m
      PROVE  j \in 0 .. k - 1 \/ \E i \in 1 .. l : j = k - 1 + i
  <2>1. CASE j <= k - 1
    BY <1>1, <2>1
  <2>2. CASE ~ j <= k - 1
    <3>1. j - (k - 1) \in 1 .. l /\ j = k - 1 + (j - (k - 1))
      BY <1>1, <1>2, <2>2
    <3>2. QED
      BY <3>1
  <2>3. QED
    BY <2>1, <2>2
<1>10. ASSUME NEW j \in 0 .. m PROVE new[j] \in Place
  <2>1. CASE j \in 0 .. k - 1
    <3>1. j \in 0 .. k
      BY <1>1, <2>1
    <3>2. QED
      BY <1>3, <1>5, <2>1, <3>1
  <2>2. CASE \E i \in 1 .. l : j = k - 1 + i
    <3>1. PICK i \in 1 .. l : j = k - 1 + i
      BY <2>2
    <3>2. i \in 0 .. l /\ l - i \in 0 .. l
      BY <1>1
    <3>3. QED
      BY <1>4, <1>6, <3>1, <3>2
  <2>3. QED
    BY <1>9, <2>1, <2>2
<1>11. ASSUME NEW j \in 1 .. m PROVE Takes(t, d, stack'[j], new[j], new[j - 1])
  <2>1. CASE j \in 0 .. k - 1
    <3>1. j \in 1 .. k - 1 /\ j \in 1 .. k /\ j - 1 \in 0 .. k - 1
      BY <1>1, <2>1
    <3>2. QED
      BY <1>2, <1>3, <1>5, <2>1, <3>1
  <2>2. CASE \E i \in 1 .. l : j = k - 1 + i
    <3>1. PICK i \in 1 .. l : j = k - 1 + i
      BY <2>2
    <3>2. /\ i \in 0 .. l /\ i - 1 \in 0 .. l /\ j - 1 = k - 1 + (i - 1)
          /\ l - i + 1 \in 1 .. l /\ l - i + 1 - 1 = l - i /\ l - (i - 1) = l - i + 1
      BY <1>1, <3>1
    <3>3. new[j] = on[l - i] /\ new[j - 1] = on[l - i + 1] /\ stack'[j] = tasks[l - i + 1]
      BY <1>2, <1>6, <3>1, <3>2
    <3>4. Takes(t, d, tasks[l - i + 1], on[l - i + 1 - 1], on[l - i + 1])
      BY <1>4, <3>2
    <3>5. QED
      BY <3>2, <3>3, <3>4
  <2>3. j \in 0 .. m
    BY <1>1, <1>2
  <2>4. QED
    BY <1>9, <2>1, <2>2, <2>3
<1>12. new \in [0 .. m -> Place]
  BY <1>10 DEF new
<1>13. Along(t, d, stack', new)
  BY <1>8, <1>11, <1>12 DEF Along
<1>14. QED
  BY <1>7, <1>13

LEMMA NoForward ==
  ASSUME NEW t, NEW d, NEW tasks, Len(tasks) = 0, NEW p \in Place
  PROVE  \E on : Forward(t, d, tasks, on, p, p)
<1> DEFINE on == [i \in 0 .. 0 |-> p]
<1>1. on \in [0 .. 0 -> Place] /\ on[0] = p /\ 1 .. 0 = {}
  OBVIOUS
<1>2. Forward(t, d, tasks, on, p, p)
  BY <1>1 DEF Forward
<1>3. QED
  BY <1>2

OneTaskMore(tasks, more, task) ==
  /\ Len(tasks) \in Nat /\ Len(more) = Len(tasks) + 1
  /\ \A i \in 1 .. Len(tasks) : more[i] = tasks[i]
  /\ more[Len(tasks) + 1] = task

LEMMA ForwardMore ==
  ASSUME NEW t, NEW d, NEW tasks, NEW more, NEW task, OneTaskMore(tasks, more, task),
         NEW on, NEW p, NEW q, NEW r \in Place,
         Forward(t, d, tasks, on, p, q), Takes(t, d, task, q, r)
  PROVE  \E new : Forward(t, d, more, new, p, r)
<1> PICK l : l = Len(tasks)
  OBVIOUS
<1>1. /\ l \in Nat /\ Len(more) = l + 1 /\ more[l + 1] = task
      /\ \A i \in 1 .. l : more[i] = tasks[i]
  BY DEF OneTaskMore
<1>2. /\ on \in [0 .. l -> Place] /\ on[0] = p /\ on[l] = q
      /\ \A i \in 1 .. l : Takes(t, d, tasks[i], on[i - 1], on[i])
  BY DEF Forward
<1> DEFINE new == [i \in 0 .. l + 1 |-> IF i <= l THEN on[i] ELSE r]
<1>3. new[l + 1] = r /\ \A i \in 0 .. l : new[i] = on[i]
  BY <1>1
<1>4. new \in [0 .. l + 1 -> Place]
  BY <1>1, <1>2
<1> HIDE DEF new
<1>5. ASSUME NEW i \in 1 .. l + 1
      PROVE  Takes(t, d, more[i], new[i - 1], new[i])
  <2>1. CASE i \in 1 .. l
    <3>1. i \in 0 .. l /\ i - 1 \in 0 .. l
      BY <1>1, <2>1
    <3>2. QED
      BY <1>1, <1>2, <1>3, <2>1, <3>1
  <2>2. CASE i = l + 1
    <3>1. i - 1 = l /\ l \in 0 .. l
      BY <1>1, <2>2
    <3>2. QED
      BY <1>1, <1>2, <1>3, <2>2, <3>1
  <2>3. QED
    BY <1>1, <2>1, <2>2
<1>6. new[0] = p
  BY <1>1, <1>2, <1>3
<1>7. Forward(t, d, more, new, p, r)
  BY <1>1, <1>3, <1>4, <1>5, <1>6 DEF Forward
<1>8. QED
  BY <1>7

LEMMA LeaveForward ==
  ASSUME NEW t, NEW d, NEW tasks \in Seq(PrintTask), NEW n \in DOMAIN t, NEW key \in Nat,
         NEW depth \in Nat, depth \in {d[n], d[n] + 1}, d[n] \in Nat,
         NEW on, NEW p, Forward(t, d, tasks, on, p, At(key, depth + 1))
  PROVE  \E new : Forward(t, d, Append(tasks, Leave(n)), new, p, At(key, depth))
<1>1. OneTaskMore(tasks, Append(tasks, Leave(n)), Leave(n))
  BY DEF OneTaskMore
<1>2. Takes(t, d, Leave(n), At(key, depth + 1), At(key, depth))
  BY DEF Takes, Leave, At
<1>3. At(key, depth) \in Place
  BY DEF Place, At
<1>4. QED
  BY <1>1, <1>2, <1>3, ForwardMore

LEMMA LabelledKid ==
  ASSUME NEW t, IsTree(t), NEW n \in DOMAIN t, NEW i \in 1 .. Len(t[n].kids)
  PROVE  /\ Labelled(t, Kid(t, n, i)) <=> Leading(t, n, i)
         /\ t[n].kind \notin LabelKinds => ~ Labelled(t, Kid(t, n, i))
         /\ ~ Labelled(t, 1)
<1>1. ASSUME Labelled(t, Kid(t, n, i)) PROVE Leading(t, n, i)
  <2>1. PICK m \in DOMAIN t : \E j \in 1 .. Len(t[m].kids) :
          Kid(t, n, i) = Kid(t, m, j) /\ Leading(t, m, j)
    BY <1>1 DEF Labelled
  <2>2. PICK j \in 1 .. Len(t[m].kids) : Kid(t, n, i) = Kid(t, m, j) /\ Leading(t, m, j)
    BY <2>1
  <2>3. QED
    BY <2>2, OneParent
<1>2. ASSUME Leading(t, n, i) PROVE Labelled(t, Kid(t, n, i))
  BY <1>2 DEF Labelled
<1>3. Leading(t, n, i) => t[n].kind \in LabelKinds
  BY DEF Leading, Group, LabelKinds
<1>4. ~ Labelled(t, 1)
  BY ParentOfKid DEF Labelled
<1>5. QED
  BY <1>1, <1>2, <1>3, <1>4

\* The visits of some children of a node, from the first of them to the last.
KidRun(t, n, ns, i, j) ==
  /\ i \in 1 .. Len(t[n].kids) /\ j \in i .. Len(t[n].kids)
  /\ ns \in Seq(Nat) /\ Len(ns) = j - i + 1
  /\ \A k \in 1 .. j - i + 1 : ns[k] = Kid(t, n, i + k - 1)
  /\ \A x \in i + 1 .. j : ~ Leading(t, n, x)

LEMMA VisitTasks ==
  ASSUME NEW ns \in Seq(Nat)
  PROVE  /\ VisitAll(ns) \in Seq(PrintTask) /\ Len(VisitAll(ns)) = Len(ns) /\ Len(ns) \in Nat
         /\ \A k \in 1 .. Len(ns) : VisitAll(ns)[k] = Visit(ns[k])
<1>1. \A m \in Nat : Visit(m) \in PrintTask
  BY DEF Visit, PrintTask
<1>2. QED
  BY <1>1 DEF VisitAll

LEMMA KidsForward ==
  ASSUME NEW t, IsTree(t), NEW d, IsDepth(t, d), NEW n \in DOMAIN t, NEW i, NEW j, NEW ns,
         KidRun(t, n, ns, i, j), NEW depth, depth = d[n] + Deeper(t, n)
  PROVE  \E on : Forward(t, d, VisitAll(ns), on, At(VisitKey(t, Kid(t, n, i)), depth),
                         At(EndKey(t, Kid(t, n, j)), depth))
<1> PICK K : K = Len(t[n].kids)
  OBVIOUS
<1>1. /\ K \in Nat /\ i \in 1 .. K /\ j \in i .. K /\ ns \in Seq(Nat) /\ Len(ns) = j - i + 1
      /\ \A k \in 1 .. j - i + 1 : ns[k] = Kid(t, n, i + k - 1)
      /\ \A x \in i + 1 .. j : ~ Leading(t, n, x)
  BY NodeShape DEF KidRun
<1> PICK l : l = j - i + 1
  OBVIOUS
<1>2. l \in Nat \ {0} /\ Len(ns) = l /\ \A k \in 1 .. l : i + k - 1 \in 1 .. K
  BY <1>1
<1>3. ASSUME NEW x \in 1 .. K
      PROVE  /\ Kid(t, n, x) \in DOMAIN t /\ Kid(t, n, x) \in Nat \ {0}
             /\ t[Kid(t, n, x)].span \in Nat \ {0}
             /\ d[Kid(t, n, x)] = depth /\ depth \in Nat
  <2>1. Kid(t, n, x) \in DOMAIN t /\ Kid(t, n, x) = KidStart(t, n, x)
    BY NodeShape
  <2>2. Kid(t, n, x) \in Nat \ {0} /\ t[Kid(t, n, x)].span \in Nat \ {0}
    BY <2>1, NodeShape
  <2>3. d[Kid(t, n, x)] = depth /\ d[Kid(t, n, x)] \in Nat
    BY <2>1 DEF IsDepth
  <2>4. QED
    BY <2>1, <2>2, <2>3
<1> DEFINE on == [k \in 0 .. l |-> IF k = 0 THEN At(VisitKey(t, Kid(t, n, i)), depth)
                                   ELSE At(EndKey(t, Kid(t, n, i + k - 1)), depth)]
<1>4. ASSUME NEW x \in 1 .. K
      PROVE  /\ At(VisitKey(t, Kid(t, n, x)), depth) \in Place
             /\ At(EndKey(t, Kid(t, n, x)), depth) \in Place
  BY <1>3 DEF At, Place, VisitKey, EndKey, NodeKey, LabelKey
<1>5. /\ on[0] = At(VisitKey(t, Kid(t, n, i)), depth)
      /\ \A k \in 1 .. l : on[k] = At(EndKey(t, Kid(t, n, i + k - 1)), depth)
  BY <1>2
<1>6. on \in [0 .. l -> Place]
  <2>1. ASSUME NEW k \in 0 .. l PROVE on[k] \in Place
    <3>1. CASE k = 0
      BY <1>1, <1>4, <1>5, <3>1
    <3>2. CASE k \in 1 .. l
      BY <1>2, <1>4, <1>5, <3>2
    <3>3. QED
      BY <1>2, <3>1, <3>2
  <2>2. QED
    BY <2>1
<1> HIDE DEF on
<1>7. ASSUME NEW k \in 1 .. l
      PROVE  Takes(t, d, Visit(Kid(t, n, i + k - 1)), on[k - 1], on[k])
  <2> PICK x : x = i + k - 1
    OBVIOUS
  <2>1. x \in 1 .. K /\ on[k] = At(EndKey(t, Kid(t, n, x)), depth)
    BY <1>2, <1>5
  <2>2. on[k - 1] = At(VisitKey(t, Kid(t, n, x)), depth)
    <3>1. CASE k = 1
      <4>1. x = i /\ k - 1 = 0
        BY <1>1, <3>1
      <4>2. QED
        BY <1>5, <4>1
    <3>2. CASE k # 1
      <4>1. k - 1 \in 1 .. l /\ i + (k - 1) - 1 = x - 1 /\ x - 1 \in 1 .. K /\ x # 1
            /\ x \in i + 1 .. j
        BY <1>1, <1>2, <2>1, <3>2
      <4>2. on[k - 1] = At(EndKey(t, Kid(t, n, x - 1)), depth)
        BY <1>5, <4>1
      <4>3. Kid(t, n, x) = Kid(t, n, x - 1) + t[Kid(t, n, x - 1)].span
        BY <2>1, <4>1, NodeShape DEF KidStart
      <4>4. ~ Labelled(t, Kid(t, n, x))
        BY <1>1, <2>1, <4>1, LabelledKid
      <4>5. QED
        BY <4>2, <4>3, <4>4 DEF EndKey, VisitKey
    <3>3. QED
      BY <3>1, <3>2
  <2>3. QED
    BY <1>3, <2>1, <2>2 DEF Takes, Visit
<1>8. /\ Len(VisitAll(ns)) = l
      /\ \A k \in 1 .. l : VisitAll(ns)[k] = Visit(Kid(t, n, i + k - 1))
  BY <1>1, <1>2, VisitTasks
<1>9. on[l] = At(EndKey(t, Kid(t, n, j)), depth)
  <2>1. l \in 1 .. l /\ i + l - 1 = j
    BY <1>1, <1>2
  <2>2. QED
    BY <1>5, <2>1
<1>10. Forward(t, d, VisitAll(ns), on, At(VisitKey(t, Kid(t, n, i)), depth),
               At(EndKey(t, Kid(t, n, j)), depth))
  BY <1>5, <1>6, <1>7, <1>8, <1>9 DEF Forward
<1>11. QED
  BY <1>10

LEMMA KeysNatural ==
  ASSUME NEW t, IsTree(t), NEW n \in DOMAIN t
  PROVE  /\ n \in 1 .. Len(t) /\ Len(t) \in Nat /\ n + t[n].span \in Nat \ {0}
         /\ NodeKey(n) \in Nat /\ LabelKey(n) \in Nat /\ VisitKey(t, n) \in {LabelKey(n), NodeKey(n)}
         /\ EndKey(t, n) \in Nat /\ LabelKey(n + 1) \in Nat
         /\ LabelKey(n + 1) = NodeKey(n) + 2 /\ NodeKey(n) = LabelKey(n) + 1
         /\ SemicolonKey(n) = NodeKey(n) + 1 /\ SemicolonKey(n) \in Nat
BY NodeShape, SMTT(30) DEF NodeKey, LabelKey, VisitKey, EndKey, SemicolonKey

LEMMA AllKids ==
  ASSUME NEW t, IsTree(t), NEW n \in DOMAIN t
  PROVE  /\ Kids(t, n) \in Seq(Nat) /\ Len(Kids(t, n)) = Len(t[n].kids) /\ Len(t[n].kids) \in Nat
         /\ \A k \in 1 .. Len(t[n].kids) : Kids(t, n)[k] = Kid(t, n, k)
         /\ Len(t[n].kids) = 0 => n + t[n].span = n + 1
         /\ Len(t[n].kids) # 0 =>
              /\ Kid(t, n, 1) = n + 1
              /\ n + t[n].span = LastKid(t, n) + t[LastKid(t, n)].span
<1>1. /\ Kids(t, n) \in Seq(DOMAIN t) /\ DOMAIN t \subseteq Nat
      /\ Len(Kids(t, n)) = Len(t[n].kids) /\ Len(t[n].kids) \in Nat
      /\ \A k \in 1 .. Len(t[n].kids) : Kids(t, n)[k] = Kid(t, n, k)
  BY KidsSequence, NodeShape
<1>2. n + t[n].span = KidStart(t, n, Len(t[n].kids) + 1)
  BY NodeShape
<1>3. ASSUME Len(t[n].kids) = 0 PROVE n + t[n].span = n + 1
  BY <1>2, <1>3 DEF KidStart
<1>4. ASSUME Len(t[n].kids) # 0
      PROVE  Kid(t, n, 1) = n + 1 /\ n + t[n].span = LastKid(t, n) + t[LastKid(t, n)].span
  <2>1. 1 \in 1 .. Len(t[n].kids) /\ Len(t[n].kids) + 1 # 1
        /\ Len(t[n].kids) + 1 - 1 = Len(t[n].kids)
    BY <1>1, <1>4
  <2>2. Kid(t, n, 1) = KidStart(t, n, 1)
    BY <2>1, NodeShape
  <2>3. QED
    BY <1>2, <2>1, <2>2 DEF KidStart, LastKid
<1>5. Kids(t, n) \in Seq(Nat)
  BY <1>1
<1>6. QED
  BY <1>1, <1>3, <1>4, <1>5

LEMMA Descent ==
  ASSUME NEW t, IsTree(t), NEW d, IsDepth(t, d), NEW n \in DOMAIN t, t[n].kind \notin LabelKinds,
         NEW depth \in Nat, Len(t[n].kids) = 0 \/ depth = d[n] + Deeper(t, n)
  PROVE  \E on : Forward(t, d, VisitAll(Kids(t, n)), on, At(LabelKey(n + 1), depth),
                         At(EndKey(t, n), depth))
<1> PICK K : K = Len(t[n].kids)
  OBVIOUS
<1>1. /\ Kids(t, n) \in Seq(Nat) /\ Len(Kids(t, n)) = K /\ K \in Nat
      /\ \A k \in 1 .. K : Kids(t, n)[k] = Kid(t, n, k)
      /\ K = 0 => n + t[n].span = n + 1
      /\ K # 0 => /\ Kid(t, n, 1) = n + 1
                  /\ n + t[n].span = LastKid(t, n) + t[LastKid(t, n)].span
      /\ LastKid(t, n) = Kid(t, n, K)
  BY AllKids DEF LastKid
<1>2. CASE K = 0
  <2>1. Len(VisitAll(Kids(t, n))) = 0
    BY <1>1, <1>2, VisitTasks
  <2>2. At(LabelKey(n + 1), depth) \in Place
    BY KeysNatural DEF At, Place
  <2>3. EndKey(t, n) = LabelKey(n + 1)
    BY <1>1, <1>2 DEF EndKey
  <2>4. QED
    BY <2>1, <2>2, <2>3, NoForward
<1>3. CASE K # 0
  <2>1. 1 \in 1 .. K /\ K \in 1 .. K /\ K - 1 + 1 = K /\ 1 + 1 .. K \subseteq 1 .. K
    BY <1>1, <1>3
  <2>2. \A x \in 1 .. K : ~ Leading(t, n, x) /\ ~ Labelled(t, Kid(t, n, x))
    BY LabelledKid
  <2>3. KidRun(t, n, Kids(t, n), 1, K)
    <3>1. \A k \in 1 .. K : Kid(t, n, 1 + k - 1) = Kid(t, n, k)
      <4>1. \A k \in 1 .. K : 1 + k - 1 = k
        BY <1>1
      <4>2. QED
        BY <4>1
    <3>2. QED
      BY <1>1, <2>1, <2>2, <3>1 DEF KidRun
  <2>4. VisitKey(t, Kid(t, n, 1)) = LabelKey(n + 1)
    BY <1>1, <1>3, <2>1, <2>2 DEF VisitKey
  <2>5. EndKey(t, Kid(t, n, K)) = EndKey(t, n)
    BY <1>1, <1>3 DEF EndKey
  <2>6. depth = d[n] + Deeper(t, n)
    BY <1>3
  <2>7. \E on : Forward(t, d, VisitAll(Kids(t, n)), on, At(VisitKey(t, Kid(t, n, 1)), depth),
                        At(EndKey(t, Kid(t, n, K)), depth))
    BY <2>3, <2>6, KidsForward
  <2>8. QED
    BY <2>4, <2>5, <2>7
<1>4. QED
  BY <1>2, <1>3

\* The labels below a node: one for each side of an operation, or one for all.
KidsFrom(t, n, ns, i, j) ==
  /\ ns \in Seq(Nat) /\ Len(ns) = j - i + 1
  /\ \A k \in 1 .. j - i + 1 : ns[k] = Kid(t, n, i + k - 1)

LEMMA LabelTask ==
  ASSUME NEW t, IsTree(t), NEW d, IsDepth(t, d), NEW n \in DOMAIN t, NEW says \in Labels,
         NEW i, NEW j, NEW ns, Group(t, n, says, i, j), KidsFrom(t, n, ns, i, j)
  PROVE  /\ Label(says, n, ns) \in PrintTask
         /\ Takes(t, d, Label(says, n, ns), At(LabelKey(Kid(t, n, i)), d[n] + 1),
                  At(EndKey(t, Kid(t, n, j)), d[n] + 1))
         /\ At(LabelKey(Kid(t, n, i)), d[n] + 1) \in Place
         /\ At(EndKey(t, Kid(t, n, j)), d[n] + 1) \in Place
<1>1. i \in 1 .. Len(t[n].kids) /\ j \in 1 .. Len(t[n].kids) /\ n \in Nat /\ d[n] \in Nat
  BY NodeShape DEF Group, IsDepth
<1>2. /\ Label(says, n, ns) \in PrintTask
      /\ Label(says, n, ns).op = "label" /\ Label(says, n, ns).node = n
      /\ Label(says, n, ns).says = says /\ Label(says, n, ns).below = ns
  BY <1>1 DEF PrintTask, Label, KidsFrom
<1>3. Takes(t, d, Label(says, n, ns), At(LabelKey(Kid(t, n, i)), d[n] + 1),
            At(EndKey(t, Kid(t, n, j)), d[n] + 1))
  BY <1>1, <1>2 DEF Takes, KidsFrom
<1>4. Kid(t, n, i) \in DOMAIN t /\ Kid(t, n, j) \in DOMAIN t
  BY <1>1, NodeShape
<1>5. LabelKey(Kid(t, n, i)) \in Nat /\ EndKey(t, Kid(t, n, j)) \in Nat
  BY <1>4, KeysNatural
<1>6. QED
  BY <1>1, <1>2, <1>3, <1>5 DEF At, Place

LEMMA OneLabel ==
  ASSUME NEW t, IsTree(t), NEW d, IsDepth(t, d), NEW n \in DOMAIN t,
         NEW says, Group(t, n, says, 1, Len(t[n].kids)), says \in {"Index", "Arguments"}
  PROVE  LET tasks == << Label(says, n, Kids(t, n)) >>
         IN  /\ tasks \in Seq(PrintTask)
             /\ \E on : Forward(t, d, tasks, on, At(LabelKey(n + 1), d[n] + 1),
                                At(EndKey(t, n), d[n] + 1))
<1> PICK K : K = Len(t[n].kids)
  OBVIOUS
<1> PICK task : task = Label(says, n, Kids(t, n))
  OBVIOUS
<1>1. /\ Kids(t, n) \in Seq(Nat) /\ Len(Kids(t, n)) = K /\ K \in Nat \ {0}
      /\ \A k \in 1 .. K : Kids(t, n)[k] = Kid(t, n, k)
      /\ Kid(t, n, 1) = n + 1 /\ EndKey(t, Kid(t, n, K)) = EndKey(t, n)
  <2>1. K # 0
    BY AllKids DEF Group
  <2>2. QED
    BY <2>1, AllKids DEF EndKey, LastKid
<1>2. KidsFrom(t, n, Kids(t, n), 1, K)
  <2>1. K - 1 + 1 = K /\ \A k \in 1 .. K : 1 + k - 1 = k
    BY <1>1
  <2>2. QED
    BY <1>1, <2>1 DEF KidsFrom
<1>3. says \in Labels
  BY DEF Labels
<1>4. /\ task \in PrintTask
      /\ Takes(t, d, task, At(LabelKey(n + 1), d[n] + 1), At(EndKey(t, n), d[n] + 1))
      /\ At(LabelKey(n + 1), d[n] + 1) \in Place /\ At(EndKey(t, n), d[n] + 1) \in Place
  BY <1>1, <1>2, <1>3, LabelTask
<1>5. Len(<< >>) = 0 /\ OneTaskMore(<< >>, << task >>, task)
  BY DEF OneTaskMore
<1>6. \E on : Forward(t, d, << >>, on, At(LabelKey(n + 1), d[n] + 1), At(LabelKey(n + 1), d[n] + 1))
  BY <1>4, <1>5, NoForward
<1>7. \E on : Forward(t, d, << task >>, on, At(LabelKey(n + 1), d[n] + 1), At(EndKey(t, n), d[n] + 1))
  BY <1>4, <1>5, <1>6, ForwardMore
<1>8. << task >> \in Seq(PrintTask)
  BY <1>4
<1>9. QED
  BY <1>7, <1>8

LEMMA TwoLabels ==
  ASSUME NEW t, IsTree(t), NEW d, IsDepth(t, d), NEW n \in DOMAIN t, t[n].kind \in Binary
  PROVE  LET tasks == << Label("Left", n, << Kid(t, n, 1) >>), Label("Right", n, << Kid(t, n, 2) >>) >>
         IN  /\ tasks \in Seq(PrintTask)
             /\ \E on : Forward(t, d, tasks, on, At(LabelKey(n + 1), d[n] + 1),
                                At(EndKey(t, n), d[n] + 1))
<1> PICK left : left = Label("Left", n, << Kid(t, n, 1) >>)
  OBVIOUS
<1> PICK right : right = Label("Right", n, << Kid(t, n, 2) >>)
  OBVIOUS
<1>1. Len(t[n].kids) = 2
  BY KidCounts DEF Binary
<1>2. /\ 1 \in 1 .. Len(t[n].kids) /\ 2 \in 1 .. Len(t[n].kids)
      /\ Kid(t, n, 1) \in Nat /\ Kid(t, n, 2) \in Nat /\ Kid(t, n, 1) = n + 1
      /\ EndKey(t, Kid(t, n, 2)) = EndKey(t, n)
      /\ LabelKey(Kid(t, n, 2)) = EndKey(t, Kid(t, n, 1))
  <2>0. 1 \in 1 .. Len(t[n].kids) /\ 2 \in 1 .. Len(t[n].kids) /\ Len(t[n].kids) # 0
    BY <1>1
  <2>1. /\ 1 \in 1 .. Len(t[n].kids) /\ 2 \in 1 .. Len(t[n].kids) /\ Len(t[n].kids) # 0
        /\ Kid(t, n, 1) \in DOMAIN t /\ Kid(t, n, 2) \in DOMAIN t
    BY <2>0, NodeShape
  <2>2. Kid(t, n, 2) = Kid(t, n, 1) + t[Kid(t, n, 1)].span
    BY <2>1, NodeShape DEF KidStart
  <2>3. LastKid(t, n) = Kid(t, n, 2)
    BY <1>1 DEF LastKid
  <2>4. QED
    BY <2>1, <2>2, <2>3, AllKids, NodeShape, SMTT(30) DEF EndKey
<1>3. Group(t, n, "Left", 1, 1) /\ Group(t, n, "Right", 2, 2)
  BY <1>1, <1>2 DEF Group
<1>4. \A m \in Nat : /\ << m >> \in Seq(Nat) /\ Len(<< m >>) = 1 - 1 + 1 /\ Len(<< m >>) = 2 - 2 + 1
                     /\ << m >>[1] = m
  OBVIOUS
<1>5. "Left" \in Labels /\ "Right" \in Labels
  BY DEF Labels
<1>6. /\ left \in PrintTask
      /\ Takes(t, d, left, At(LabelKey(Kid(t, n, 1)), d[n] + 1), At(EndKey(t, Kid(t, n, 1)), d[n] + 1))
      /\ At(LabelKey(Kid(t, n, 1)), d[n] + 1) \in Place
      /\ At(EndKey(t, Kid(t, n, 1)), d[n] + 1) \in Place
  <2>1. KidsFrom(t, n, << Kid(t, n, 1) >>, 1, 1)
    BY <1>2, <1>4 DEF KidsFrom
  <2>2. QED
    BY <1>2, <1>3, <1>4, <1>5, <2>1, LabelTask
<1>7. /\ right \in PrintTask
      /\ Takes(t, d, right, At(LabelKey(Kid(t, n, 2)), d[n] + 1), At(EndKey(t, Kid(t, n, 2)), d[n] + 1))
      /\ At(EndKey(t, Kid(t, n, 2)), d[n] + 1) \in Place
  <2>1. KidsFrom(t, n, << Kid(t, n, 2) >>, 2, 2)
    BY <1>2, <1>4 DEF KidsFrom
  <2>2. QED
    BY <1>2, <1>3, <1>4, <1>5, <2>1, LabelTask
<1>8. /\ Len(<< >>) = 0 /\ OneTaskMore(<< >>, << left >>, left)
      /\ OneTaskMore(<< left >>, << left, right >>, right)
  BY DEF OneTaskMore
<1> PICK p : p = At(LabelKey(n + 1), d[n] + 1)
  OBVIOUS
<1>9. \E on : Forward(t, d, << >>, on, p, p)
  BY <1>2, <1>6, <1>8, NoForward
<1>10. \E on : Forward(t, d, << left >>, on, p, At(EndKey(t, Kid(t, n, 1)), d[n] + 1))
  BY <1>2, <1>6, <1>8, <1>9, ForwardMore
<1>11. \E on : Forward(t, d, << left, right >>, on, p, At(EndKey(t, Kid(t, n, 2)), d[n] + 1))
  BY <1>2, <1>7, <1>8, <1>10, ForwardMore
<1>12. << left, right >> \in Seq(PrintTask)
  BY <1>6, <1>7
<1>13. QED
  BY <1>2, <1>11, <1>12

(***************************************************************************)
(* The invariant: the lines are those before the place reached, which is   *)
(* at the current depth, and the way from there ends at depth zero.        *)
(***************************************************************************)
Shown == [n \in DOMAIN ast |-> TypeShown(n)]

Reached(t, d, shown, s, depth, lines) ==
  \E way : \E keys :
    /\ Along(t, d, s, way)
    /\ way[Len(s)].depth = depth
    /\ Written(t, d, shown, lines, keys, way[Len(s)].key)

IInv ==
  /\ ast \in Programs
  /\ stack \in Seq(PrintTask)
  /\ DOMAIN type \subseteq NodesOf(ast, ExpressionKinds)
  /\ \A n \in DOMAIN ast : TypeShown(n) \in Type \cup {NoType, IllTyped}
  /\ Reached(ast, DepthOf(ast), Shown, stack, m_currentDepth, m_output)

\* The tasks go on from a place behind the lines, to where the top task ends.
Advances(tasks, lines, extra) ==
  LET d == DepthOf(ast)
  IN  /\ tasks \in Seq(PrintTask) /\ Continue(tasks) /\ UNCHANGED << ast, fields >>
      /\ m_output' = m_output \o lines
      /\ \A p \in Place : \A q \in Place :
           Takes(ast, d, Top, p, q) /\ p.depth = m_currentDepth =>
             \E next \in Place :
               /\ next.depth = m_currentDepth'
               /\ Covers(ast, d, Shown, lines, extra, p.key, next.key)
               /\ \E on : Forward(ast, d, tasks, on, next, q)

LEMMA SameShown ==
  ASSUME UNCHANGED << ast, fields >>
  PROVE  /\ ast' = ast /\ referent' = referent /\ type' = type /\ Shown' = Shown
         /\ \A n : TypeShown(n)' = TypeShown(n)
<1>1. ast' = ast /\ referent' = referent /\ type' = type
  BY DEF fields
<1>2. ASSUME NEW n PROVE TypeShown(n)' = TypeShown(n)
  BY <1>1, Zenon DEF TypeShown, Decl
<1>3. Shown' = Shown
  BY <1>1, <1>2 DEF Shown
<1>4. QED
  BY <1>1, <1>2, <1>3

LEMMA TreeShaped ==
  ASSUME IInv
  PROVE  IsProgram(ast) /\ IsTree(ast) /\ IsDepth(ast, DepthOf(ast))
BY ProgramsAssumption, DepthExists DEF IInv, IsProgram

LEMMA TopReached ==
  ASSUME IInv, stack # << >>
  PROVE  /\ Top \in PrintTask
         /\ \E way : \E keys :
              /\ Along(ast, DepthOf(ast), stack, way)
              /\ way[Len(stack)] \in Place /\ way[Len(stack) - 1] \in Place
              /\ way[Len(stack)].depth = m_currentDepth
              /\ Written(ast, DepthOf(ast), Shown, m_output, keys, way[Len(stack)].key)
              /\ Takes(ast, DepthOf(ast), Top, way[Len(stack)], way[Len(stack) - 1])
<1> PICK k : k = Len(stack)
  OBVIOUS
<1>1. stack \in Seq(PrintTask) /\ k \in Nat \ {0} /\ Top = stack[k] /\ k \in 1 .. k
      /\ k \in 0 .. k /\ k - 1 \in 0 .. k /\ stack[k] \in PrintTask
  BY EmptySeq DEF IInv, Top, Last
<1>2. PICK way, keys : /\ Along(ast, DepthOf(ast), stack, way)
                       /\ way[k].depth = m_currentDepth
                       /\ Written(ast, DepthOf(ast), Shown, m_output, keys, way[k].key)
  BY DEF IInv, Reached
<1>3. /\ way \in [0 .. k -> Place]
      /\ Takes(ast, DepthOf(ast), stack[k], way[k], way[k - 1])
  BY <1>1, <1>2 DEF Along
<1>4. QED
  BY <1>1, <1>2, <1>3

LEMMA StepKeeps ==
  ASSUME IInv, stack # << >>, NEW tasks, NEW lines, NEW extra, Advances(tasks, lines, extra)
  PROVE  IInv'
<1> PICK d : d = DepthOf(ast)
  OBVIOUS
<1>1. /\ tasks \in Seq(PrintTask) /\ Continue(tasks) /\ UNCHANGED << ast, fields >>
      /\ m_output' = m_output \o lines
  BY DEF Advances
<1>2. /\ ast' = ast /\ type' = type /\ Shown' = Shown
      /\ \A n : TypeShown(n)' = TypeShown(n)
  BY <1>1, SameShown
<1>3. PICK way, keys : /\ Along(ast, d, stack, way)
                       /\ way[Len(stack)] \in Place /\ way[Len(stack) - 1] \in Place
                       /\ way[Len(stack)].depth = m_currentDepth
                       /\ Written(ast, d, Shown, m_output, keys, way[Len(stack)].key)
                       /\ Takes(ast, d, Top, way[Len(stack)], way[Len(stack) - 1])
  BY TopReached
<1>4. PICK next \in Place :
        /\ next.depth = m_currentDepth'
        /\ Covers(ast, d, Shown, lines, extra, way[Len(stack)].key, next.key)
        /\ \E on : Forward(ast, d, tasks, on, next, way[Len(stack) - 1])
  BY <1>3 DEF Advances
<1>5. stack \in Seq(PrintTask) /\ IsTree(ast)
  BY TreeShaped DEF IInv
<1>6. PICK new : Along(ast, d, stack', new) /\ new[Len(stack')] = next
  <2>1. PICK on : Forward(ast, d, tasks, on, next, way[Len(stack) - 1])
    BY <1>4
  <2>2. Replaced(ast, d, tasks, way, on, next)
    BY <1>1, <1>3, <1>5, <2>1 DEF Replaced
  <2>3. \E new : Along(ast, d, stack', new) /\ new[Len(stack')] = next
    BY <2>1, <2>2, WayStep
  <2>4. QED
    BY <2>3
<1>7. way[Len(stack)].key \in Nat /\ next.key \in Nat
  BY <1>3, <1>4 DEF Place
<1>8. PICK all : Written(ast, d, Shown, m_output \o lines, all, next.key)
  BY <1>3, <1>4, <1>5, <1>7, LinesWritten
<1>9. Reached(ast, d, Shown, stack', m_currentDepth', m_output')
  BY <1>1, <1>4, <1>6, <1>8 DEF Reached
<1>10. Reached(ast, DepthOf(ast), Shown, stack, m_currentDepth, m_output)'
  BY <1>2, <1>9
<1>11. stack' \in Seq(PrintTask)
  BY <1>1, <1>5, ContinueStack
<1>12. /\ (ast \in Programs)'
       /\ (DOMAIN type \subseteq NodesOf(ast, ExpressionKinds))'
       /\ (\A n \in DOMAIN ast : TypeShown(n) \in Type \cup {NoType, IllTyped})'
  <2>1. (ast \in Programs)' /\ (DOMAIN type \subseteq NodesOf(ast, ExpressionKinds))'
    BY <1>2 DEF IInv
  <2>2. \A n \in DOMAIN ast : TypeShown(n) \in Type \cup {NoType, IllTyped}
    BY DEF IInv
  <2>3. \A n \in DOMAIN ast' : TypeShown(n)' \in Type \cup {NoType, IllTyped}
    BY <1>2, <2>2
  <2>4. QED
    BY <2>1, <2>3
<1>13. QED
  BY <1>10, <1>11, <1>12 DEF IInv

\* The line of a node, and what may follow it at once.
LEMMA NodeCovered ==
  ASSUME NEW t, IsTree(t), NEW d, NEW shown, NEW line, NEW n \in DOMAIN t,
         IsNodeLine(t, d, shown, line, NodeKey(n))
  PROVE  Covers(t, d, shown, << line >>, << NodeKey(n) >>, VisitKey(t, n), LabelKey(n + 1))
<1>1. /\ n \in Nat /\ LabelKey(n + 1) = 3 * n + 2 /\ NodeKey(n) = 3 * n
      /\ VisitKey(t, n) \in {3 * n - 1, 3 * n}
      /\ ~ Labelled(t, n) <=> VisitKey(t, n) = 3 * n - 1
  BY NodeShape DEF LabelKey, NodeKey, VisitKey
<1>2. ASSUME NEW key \in Keys(t), key \in VisitKey(t, n) .. LabelKey(n + 1) - 1
      PROVE  key = NodeKey(n)
  <2>1. CASE \E m \in DOMAIN t : key = NodeKey(m)
    <3>1. PICK m \in DOMAIN t : key = NodeKey(m)
      BY <2>1
    <3>2. m \in Nat /\ key = 3 * m
      BY <3>1, NodeShape DEF NodeKey
    <3>3. QED
      BY <1>1, <1>2, <3>2
  <2>2. CASE \E m \in DOMAIN t : Labelled(t, m) /\ key = LabelKey(m)
    <3>1. PICK m \in DOMAIN t : Labelled(t, m) /\ key = LabelKey(m)
      BY <2>2
    <3>2. m \in Nat /\ key = 3 * m - 1
      BY <3>1, NodeShape DEF LabelKey
    <3>3. m = n /\ VisitKey(t, n) = 3 * n - 1
      BY <1>1, <1>2, <3>2
    <3>4. QED
      BY <1>1, <3>1, <3>3
  <2>3. QED
    BY <2>1, <2>2 DEF Keys
<1>3. NodeKey(n) \in VisitKey(t, n) .. LabelKey(n + 1) - 1 /\ VisitKey(t, n) <= LabelKey(n + 1)
  BY <1>1
<1>4. << line >> \in Seq({<< line >>[i] : i \in 1 .. Len(<< line >>)}) /\ Len(<< line >>) = 1
      /\ << line >>[1] = line
  OBVIOUS
<1>5. << NodeKey(n) >>[1] = NodeKey(n)
  OBVIOUS
<1>6. IsLine(t, d, shown, line, NodeKey(n))
  BY DEF IsLine
<1>7. \A i \in 1 .. 1 : i = 1
  OBVIOUS
<1>8. QED
  BY <1>2, <1>3, <1>4, <1>5, <1>6, <1>7 DEF Covers

LEMMA SemicolonCovered ==
  ASSUME NEW t, IsTree(t), NEW d, NEW shown, NEW line, NEW more, NEW n \in DOMAIN t,
         IsNodeLine(t, d, shown, line, NodeKey(n)), IsSemicolonLine(t, d, more, SemicolonKey(n))
  PROVE  Covers(t, d, shown, << line, more >>, << NodeKey(n), SemicolonKey(n) >>,
                VisitKey(t, n), LabelKey(n + 1))
<1>1. Covers(t, d, shown, << line >>, << NodeKey(n) >>, VisitKey(t, n), LabelKey(n + 1))
  BY NodeCovered
<1>2. /\ << line >>[1] = line /\ Len(<< line >>) = 1 /\ << NodeKey(n) >>[1] = NodeKey(n)
      /\ << line, more >>[1] = line /\ << line, more >>[2] = more /\ Len(<< line, more >>) = 2
      /\ << NodeKey(n), SemicolonKey(n) >>[1] = NodeKey(n)
      /\ << NodeKey(n), SemicolonKey(n) >>[2] = SemicolonKey(n)
  OBVIOUS
<1>3. \A key \in Keys(t) : key \in VisitKey(t, n) .. LabelKey(n + 1) - 1 => key = NodeKey(n)
  <2>1. ASSUME NEW key \in Keys(t), key \in VisitKey(t, n) .. LabelKey(n + 1) - 1
        PROVE  key = NodeKey(n)
    <3>1. \E i \in 1 .. 1 : << NodeKey(n) >>[i] = key
      BY <1>1, <1>2, <2>1 DEF Covers
    <3>2. QED
      BY <1>2, <3>1
  <2>2. QED
    BY <2>1
<1>4. /\ SemicolonKey(n) = NodeKey(n) + 1 /\ NodeKey(n) \in Nat
      /\ VisitKey(t, n) \in {NodeKey(n) - 1, NodeKey(n)}
      /\ LabelKey(n + 1) = NodeKey(n) + 2
  BY NodeShape DEF SemicolonKey, NodeKey, VisitKey, LabelKey
<1>5. /\ NodeKey(n) \in VisitKey(t, n) .. LabelKey(n + 1) - 1
      /\ SemicolonKey(n) \in VisitKey(t, n) .. LabelKey(n + 1) - 1
      /\ VisitKey(t, n) <= LabelKey(n + 1) /\ NodeKey(n) < SemicolonKey(n)
  BY <1>4
<1>6. IsLine(t, d, shown, line, NodeKey(n)) /\ IsLine(t, d, shown, more, SemicolonKey(n))
  BY DEF IsLine
<1>7. << line, more >> \in Seq({<< line, more >>[i] : i \in 1 .. Len(<< line, more >>)})
  OBVIOUS
<1>8. /\ \A i \in 1 .. 2 : i = 1 \/ i = 2
      /\ \A i, j \in 1 .. 2 : i < j => i = 1 /\ j = 2
      /\ 1 \in 1 .. 2
  OBVIOUS
<1>9. QED
  BY <1>2, <1>3, <1>5, <1>6, <1>7, <1>8 DEF Covers

\* The visit on top is at the depth of its node.
LEMMA AtVisit ==
  ASSUME IInv, stack # << >>, Top.op = "visit"
  PROVE  /\ Top.node \in DOMAIN ast
         /\ m_currentDepth = DepthOf(ast)[Top.node] /\ m_currentDepth \in Nat
<1>1. PICK p \in Place : \E q : Takes(ast, DepthOf(ast), Top, p, q) /\ p.depth = m_currentDepth
  BY TopReached
<1>2. /\ Top.node \in DOMAIN ast
      /\ p = At(VisitKey(ast, Top.node), DepthOf(ast)[Top.node])
  BY <1>1 DEF Takes
<1>3. p.depth = DepthOf(ast)[Top.node] /\ p.depth \in Nat
  BY <1>2 DEF At, Place
<1>4. QED
  BY <1>1, <1>2, <1>3

\* What a visit does: the line of its node, and the tasks behind it.
VisitDoes(n, tasks, lines, extra) ==
  LET d == DepthOf(ast)
  IN  /\ stack # << >> /\ Top.op = "visit" /\ n = Top.node
      /\ tasks \in Seq(PrintTask) /\ Continue(tasks) /\ UNCHANGED << ast, fields >>
      /\ m_output' = m_output \o lines /\ m_currentDepth' \in Nat
      /\ Covers(ast, d, Shown, lines, extra, VisitKey(ast, n), LabelKey(n + 1))
      /\ \E on : Forward(ast, d, tasks, on, At(LabelKey(n + 1), m_currentDepth'),
                         At(EndKey(ast, n), m_currentDepth))

LEMMA VisitKeeps ==
  ASSUME IInv, NEW n, NEW tasks, NEW lines, NEW extra, VisitDoes(n, tasks, lines, extra)
  PROVE  IInv'
<1> PICK d : d = DepthOf(ast)
  OBVIOUS
<1>1. /\ stack # << >> /\ Top.op = "visit" /\ n = Top.node
      /\ tasks \in Seq(PrintTask) /\ Continue(tasks) /\ UNCHANGED << ast, fields >>
      /\ m_output' = m_output \o lines /\ m_currentDepth' \in Nat
      /\ Covers(ast, d, Shown, lines, extra, VisitKey(ast, n), LabelKey(n + 1))
      /\ \E on : Forward(ast, d, tasks, on, At(LabelKey(n + 1), m_currentDepth'),
                         At(EndKey(ast, n), m_currentDepth))
  BY DEF VisitDoes
<1>2. n \in DOMAIN ast /\ m_currentDepth = d[n]
  BY <1>1, AtVisit
<1>3. At(LabelKey(n + 1), m_currentDepth') \in Place
  <2>1. LabelKey(n + 1) \in Nat
    BY <1>2, TreeShaped, KeysNatural
  <2>2. QED
    BY <1>1, <2>1 DEF At, Place
<1>4. ASSUME NEW p \in Place, NEW q \in Place, Takes(ast, d, Top, p, q)
      PROVE  \E next \in Place :
               /\ next.depth = m_currentDepth'
               /\ Covers(ast, d, Shown, lines, extra, p.key, next.key)
               /\ \E on : Forward(ast, d, tasks, on, next, q)
  <2>1. p = At(VisitKey(ast, n), d[n]) /\ q = At(EndKey(ast, n), d[n])
    BY <1>1, <1>4 DEF Takes
  <2>2. \A x, y : At(x, y).key = x /\ At(x, y).depth = y
    BY DEF At
  <2> PICK next : next = At(LabelKey(n + 1), m_currentDepth')
    OBVIOUS
  <2>3. /\ next \in Place /\ next.depth = m_currentDepth'
        /\ next.key = LabelKey(n + 1) /\ p.key = VisitKey(ast, n)
    BY <1>3, <2>1, <2>2
  <2>4. \E on : Forward(ast, d, tasks, on, next, q)
    BY <1>1, <1>2, <2>1
  <2>5. QED
    BY <1>1, <2>3, <2>4
<1>5. Advances(tasks, lines, extra)
  BY <1>1, <1>4 DEF Advances
<1>6. QED
  BY <1>1, <1>5, StepKeeps

LEMMA OwnLine ==
  ASSUME IInv, stack # << >>, Top.op = "visit"
  PROVE  IsNodeLine(ast, DepthOf(ast), Shown, NodeLine(Top.node), NodeKey(Top.node))
<1>1. Top.node \in DOMAIN ast /\ m_currentDepth = DepthOf(ast)[Top.node]
  BY AtVisit
<1>2. Shown[Top.node] = TypeShown(Top.node)
  BY <1>1 DEF Shown
<1>3. QED
  BY <1>1, <1>2 DEF IsNodeLine, NodeLine, Line

\* The plain visits: the children of the node are one deeper, or none, or at
\* the depth of the node when that is a function.
LEMMA NestedKeeps ==
  ASSUME IInv, NEW kinds, VisitNested(kinds), kinds \cap (LabelKinds \cup {"Function"}) = {}
  PROVE  IInv'
<1> PICK n : n = Top.node
  OBVIOUS
<1> PICK d : d = DepthOf(ast)
  OBVIOUS
<1> PICK tasks : tasks = VisitAll(Kids(ast, n))
  OBVIOUS
<1>1. /\ stack # << >> /\ Top.op = "visit" /\ ast[n].kind \in kinds
      /\ m_output' = m_output \o << NodeLine(n) >>
      /\ m_currentDepth' = m_currentDepth + 1 /\ Continue(Append(tasks, Leave(n)))
      /\ UNCHANGED << ast, fields >>
  BY DEF VisitNested, Visiting, Doing, WriteLines, Nested
<1>2. /\ n \in DOMAIN ast /\ m_currentDepth = d[n] /\ m_currentDepth \in Nat
      /\ IsTree(ast) /\ IsDepth(ast, d)
  BY <1>1, AtVisit, TreeShaped
<1>3. ast[n].kind \notin LabelKinds /\ Deeper(ast, n) = 1
  BY <1>1 DEF Deeper
<1>4. \E on : Forward(ast, d, tasks, on, At(LabelKey(n + 1), m_currentDepth + 1),
                      At(EndKey(ast, n), m_currentDepth + 1))
  BY <1>2, <1>3, Descent
<1>5. tasks \in Seq(PrintTask)
  BY <1>2, AllKids, VisitTasks
<1>6. \E on : Forward(ast, d, Append(tasks, Leave(n)), on,
                      At(LabelKey(n + 1), m_currentDepth + 1), At(EndKey(ast, n), m_currentDepth))
  <2>1. EndKey(ast, n) \in Nat /\ m_currentDepth \in {d[n], d[n] + 1} /\ d[n] \in Nat
    BY <1>2, KeysNatural
  <2>2. QED
    BY <1>2, <1>4, <1>5, <2>1, LeaveForward
<1>7. Append(tasks, Leave(n)) \in Seq(PrintTask)
  <2>1. Leave(n) \in PrintTask
    BY <1>2, NodeShape DEF Leave, PrintTask
  <2>2. QED
    BY <1>5, <2>1
<1>8. Covers(ast, d, Shown, << NodeLine(n) >>, << NodeKey(n) >>, VisitKey(ast, n), LabelKey(n + 1))
  BY <1>1, <1>2, OwnLine, NodeCovered
<1>9. VisitDoes(n, Append(tasks, Leave(n)), << NodeLine(n) >>, << NodeKey(n) >>)
  <2>1. m_currentDepth' \in Nat
    BY <1>1, <1>2
  <2>2. QED
    BY <1>1, <1>2, <1>6, <1>7, <1>8, <2>1, Zenon DEF VisitDoes
<1>10. QED
  BY <1>9, VisitKeeps

LEMMA FlatKeeps ==
  ASSUME IInv, NEW kinds, VisitFlat(kinds),
         \/ kinds \subseteq {"Variable", "Array", "Parameter", "VariableExpr", "Function"} \cup LiteralKinds
         \/ ast[Top.node].kind \notin LabelKinds /\ ast[Top.node].kids = << >>
  PROVE  IInv'
<1> PICK n : n = Top.node
  OBVIOUS
<1> PICK d : d = DepthOf(ast)
  OBVIOUS
<1> PICK tasks : tasks = VisitAll(Kids(ast, n))
  OBVIOUS
<1>1. /\ stack # << >> /\ Top.op = "visit" /\ ast[n].kind \in kinds
      /\ m_output' = m_output \o << NodeLine(n) >>
      /\ m_currentDepth' = m_currentDepth /\ Continue(tasks)
      /\ UNCHANGED << ast, fields >>
  BY DEF VisitFlat, Visiting, Doing, WriteLines
<1>2. /\ n \in DOMAIN ast /\ m_currentDepth = d[n] /\ m_currentDepth \in Nat
      /\ IsTree(ast) /\ IsDepth(ast, d)
  BY <1>1, AtVisit, TreeShaped
<1>3. /\ ast[n].kind \notin LabelKinds
      /\ Len(ast[n].kids) = 0 \/ m_currentDepth = d[n] + Deeper(ast, n)
  <2>1. CASE ast[n].kind = "Function"
    BY <1>2, <2>1 DEF LabelKinds, Binary, Deeper
  <2>2. CASE ast[n].kind \in {"Variable", "Array", "Parameter", "VariableExpr"} \cup LiteralKinds
    BY <1>2, <2>2, KidCounts DEF LabelKinds, Binary, LiteralKinds
  <2>3. CASE ast[n].kind \notin LabelKinds /\ ast[n].kids = << >>
    BY <2>3
  <2>4. QED
    BY <1>1, <2>1, <2>2, <2>3
<1>4. \E on : Forward(ast, d, tasks, on, At(LabelKey(n + 1), m_currentDepth),
                      At(EndKey(ast, n), m_currentDepth))
  BY <1>2, <1>3, Descent
<1>5. tasks \in Seq(PrintTask)
  BY <1>2, AllKids, VisitTasks
<1>6. Covers(ast, d, Shown, << NodeLine(n) >>, << NodeKey(n) >>, VisitKey(ast, n), LabelKey(n + 1))
  BY <1>1, <1>2, OwnLine, NodeCovered
<1>7. VisitDoes(n, tasks, << NodeLine(n) >>, << NodeKey(n) >>)
  BY <1>1, <1>2, <1>4, <1>5, <1>6 DEF VisitDoes
<1>8. QED
  BY <1>7, VisitKeeps

LEMMA ExpressionStmtKeeps ==
  ASSUME IInv, VisitExpressionStmt
  PROVE  IInv'
<1> PICK n : n = Top.node
  OBVIOUS
<1> PICK d : d = DepthOf(ast)
  OBVIOUS
<1> PICK tasks : tasks = VisitAll(Kids(ast, n))
  OBVIOUS
<1> PICK semicolon : semicolon = LabelLine("Semicolon", n, m_currentDepth + 1)
  OBVIOUS
<1>1. /\ stack # << >> /\ Top.op = "visit" /\ ast[n].kind = "ExpressionStmt"
      /\ m_output' = m_output \o (<< NodeLine(n) >> \o IF ast[n].kids = << >> THEN << semicolon >> ELSE << >>)
      /\ m_currentDepth' = m_currentDepth + 1 /\ Continue(Append(tasks, Leave(n)))
      /\ UNCHANGED << ast, fields >>
  BY Zenon DEF VisitExpressionStmt, Visiting, Doing, WriteLines, Nested
<1>2. /\ n \in DOMAIN ast /\ m_currentDepth = d[n] /\ m_currentDepth \in Nat
      /\ IsTree(ast) /\ IsDepth(ast, d)
  BY <1>1, AtVisit, TreeShaped
<1>3. ast[n].kind \notin LabelKinds /\ Deeper(ast, n) = 1
  BY <1>1 DEF Deeper, LabelKinds, Binary
<1>4. \E on : Forward(ast, d, tasks, on, At(LabelKey(n + 1), m_currentDepth + 1),
                      At(EndKey(ast, n), m_currentDepth + 1))
  BY <1>2, <1>3, Descent
<1>5. tasks \in Seq(PrintTask)
  BY <1>2, AllKids, VisitTasks
<1>6. \E on : Forward(ast, d, Append(tasks, Leave(n)), on,
                      At(LabelKey(n + 1), m_currentDepth + 1), At(EndKey(ast, n), m_currentDepth))
  <2>1. EndKey(ast, n) \in Nat /\ m_currentDepth \in {d[n], d[n] + 1} /\ d[n] \in Nat
    BY <1>2, KeysNatural
  <2>2. QED
    BY <1>2, <1>4, <1>5, <2>1, LeaveForward
<1>7. Append(tasks, Leave(n)) \in Seq(PrintTask)
  <2>1. Leave(n) \in PrintTask
    BY <1>2, NodeShape DEF Leave, PrintTask
  <2>2. QED
    BY <1>5, <2>1
<1>8. \E lines : \E extra :
        /\ m_output' = m_output \o lines
        /\ Covers(ast, d, Shown, lines, extra, VisitKey(ast, n), LabelKey(n + 1))
  <2>1. IsNodeLine(ast, d, Shown, NodeLine(n), NodeKey(n))
    BY <1>1, OwnLine
  <2>2. CASE ast[n].kids = << >>
    <3>1. IsSemicolonLine(ast, d, semicolon, SemicolonKey(n))
      BY <1>1, <1>2, <2>2 DEF IsSemicolonLine, LabelLine, Line
    <3>2. << NodeLine(n) >> \o << semicolon >> = << NodeLine(n), semicolon >>
      BY TwoInARow
    <3>3. m_output' = m_output \o << NodeLine(n), semicolon >>
      BY <1>1, <2>2, <3>2, Zenon
    <3>4. QED
      BY <1>2, <2>1, <3>1, <3>3, SemicolonCovered
  <2>3. CASE ast[n].kids # << >>
    <3>1. << NodeLine(n) >> \o << >> = << NodeLine(n) >>
      OBVIOUS
    <3>2. m_output' = m_output \o << NodeLine(n) >>
      BY <1>1, <2>3, <3>1, Zenon
    <3>3. QED
      BY <1>2, <2>1, <3>2, NodeCovered
  <2>4. QED
    BY <2>2, <2>3
<1>9. PICK lines, extra : VisitDoes(n, Append(tasks, Leave(n)), lines, extra)
  <2>1. m_currentDepth' \in Nat
    BY <1>1, <1>2
  <2>2. QED
    BY <1>1, <1>2, <1>6, <1>7, <1>8, <2>1, Zenon DEF VisitDoes
<1>10. QED
  BY <1>9, VisitKeeps

\* The visits that write labels below their node.
LEMMA LabellingKeeps ==
  ASSUME IInv, stack # << >>, Top.op = "visit", NEW tasks \in Seq(PrintTask),
         WriteLines(<< NodeLine(Top.node) >>), Nested(Top.node, tasks), UNCHANGED << ast, fields >>,
         NEW on, Forward(ast, DepthOf(ast), tasks, on,
                         At(LabelKey(Top.node + 1), DepthOf(ast)[Top.node] + 1),
                         At(EndKey(ast, Top.node), DepthOf(ast)[Top.node] + 1))
  PROVE  IInv'
<1> PICK n : n = Top.node
  OBVIOUS
<1> PICK d : d = DepthOf(ast)
  OBVIOUS
<1>1. /\ m_output' = m_output \o << NodeLine(n) >>
      /\ m_currentDepth' = m_currentDepth + 1 /\ Continue(Append(tasks, Leave(n)))
  BY DEF WriteLines, Nested
<1>2. /\ n \in DOMAIN ast /\ m_currentDepth = d[n] /\ m_currentDepth \in Nat
      /\ IsTree(ast) /\ IsDepth(ast, d)
  BY <1>1, AtVisit, TreeShaped
<1>3. \E go : Forward(ast, d, tasks, go, At(LabelKey(n + 1), m_currentDepth + 1),
                      At(EndKey(ast, n), m_currentDepth + 1))
  BY <1>2
<1>4. \E go : Forward(ast, d, Append(tasks, Leave(n)), go,
                      At(LabelKey(n + 1), m_currentDepth + 1), At(EndKey(ast, n), m_currentDepth))
  <2>1. EndKey(ast, n) \in Nat /\ m_currentDepth \in {d[n], d[n] + 1} /\ d[n] \in Nat
    BY <1>2, KeysNatural
  <2>2. QED
    BY <1>2, <1>3, <2>1, LeaveForward
<1>5. Append(tasks, Leave(n)) \in Seq(PrintTask)
  <2>1. Leave(n) \in PrintTask
    BY <1>2, NodeShape DEF Leave, PrintTask
  <2>2. QED
    BY <2>1
<1>6. Covers(ast, d, Shown, << NodeLine(n) >>, << NodeKey(n) >>, VisitKey(ast, n), LabelKey(n + 1))
  BY <1>2, OwnLine, NodeCovered
<1>7. VisitDoes(n, Append(tasks, Leave(n)), << NodeLine(n) >>, << NodeKey(n) >>)
  <2>1. m_currentDepth' \in Nat
    BY <1>1, <1>2
  <2>2. QED
    BY <1>1, <1>2, <1>4, <1>5, <1>6, <2>1, Zenon DEF VisitDoes
<1>8. QED
  BY <1>7, VisitKeeps

LEMMA SubscriptKeeps ==
  ASSUME IInv, VisitSubscript
  PROVE  IInv'
<1> PICK n : n = Top.node
  OBVIOUS
<1> PICK tasks : tasks = << Label("Index", n, Kids(ast, n)) >>
  OBVIOUS
<1>1. /\ stack # << >> /\ Top.op = "visit" /\ ast[n].kind = "Subscript"
      /\ WriteLines(<< NodeLine(n) >>) /\ Nested(n, tasks) /\ UNCHANGED << ast, fields >>
  BY Zenon DEF VisitSubscript, Visiting, Doing
<1>2. n \in DOMAIN ast /\ IsTree(ast) /\ IsDepth(ast, DepthOf(ast))
  BY <1>1, AtVisit, TreeShaped
<1>3. Group(ast, n, "Index", 1, Len(ast[n].kids))
  <2>1. Len(ast[n].kids) = 1
    BY <1>1, <1>2, KidCounts
  <2>2. QED
    BY <1>1, <2>1 DEF Group
<1>4. /\ tasks \in Seq(PrintTask)
      /\ \E on : Forward(ast, DepthOf(ast), tasks, on, At(LabelKey(n + 1), DepthOf(ast)[n] + 1),
                         At(EndKey(ast, n), DepthOf(ast)[n] + 1))
  BY <1>2, <1>3, OneLabel
<1>5. QED
  BY <1>1, <1>4, LabellingKeeps

LEMMA CallKeeps ==
  ASSUME IInv, VisitCall
  PROVE  IInv'
<1> PICK n : n = Top.node
  OBVIOUS
<1> PICK tasks : tasks = << Label("Arguments", n, Kids(ast, n)) >>
  OBVIOUS
<1>1. /\ stack # << >> /\ Top.op = "visit" /\ ast[n].kind = "Call"
      /\ WriteLines(<< NodeLine(n) >>) /\ UNCHANGED << ast, fields >>
      /\ \/ ast[n].kids # << >> /\ Nested(n, tasks)
         \/ ast[n].kids = << >> /\ Continue(<< >>) /\ m_currentDepth' = m_currentDepth
  BY Zenon DEF VisitCall, Visiting, Doing
<1>2. /\ n \in DOMAIN ast /\ IsTree(ast) /\ IsDepth(ast, DepthOf(ast))
      /\ m_currentDepth = DepthOf(ast)[n] /\ m_currentDepth \in Nat
  BY <1>1, AtVisit, TreeShaped
<1>3. CASE ast[n].kids # << >> /\ Nested(n, tasks)
  <2>1. Group(ast, n, "Arguments", 1, Len(ast[n].kids))
    <3>1. ast[n].kids \in Seq(Nat \ {0})
      BY <1>2, NodeShape
    <3>2. Len(ast[n].kids) \in Nat \ {0}
      BY <1>3, <3>1, EmptySeq
    <3>3. QED
      BY <1>1, <3>2 DEF Group
  <2>2. /\ tasks \in Seq(PrintTask)
        /\ \E on : Forward(ast, DepthOf(ast), tasks, on, At(LabelKey(n + 1), DepthOf(ast)[n] + 1),
                           At(EndKey(ast, n), DepthOf(ast)[n] + 1))
    BY <1>2, <2>1, OneLabel
  <2>3. QED
    BY <1>1, <1>3, <2>2, LabellingKeeps
<1>4. CASE ast[n].kids = << >> /\ Continue(<< >>) /\ m_currentDepth' = m_currentDepth
  <2>1. At(LabelKey(n + 1), m_currentDepth) \in Place /\ EndKey(ast, n) = LabelKey(n + 1)
    <3>1. LabelKey(n + 1) \in Nat
      BY <1>2, KeysNatural
    <3>2. n + ast[n].span = n + 1
      BY <1>2, <1>4, AllKids
    <3>3. QED
      BY <1>2, <3>1, <3>2 DEF At, Place, EndKey
  <2>2. Len(<< >>) = 0 /\ << >> \in Seq(PrintTask)
    OBVIOUS
  <2>3. \E on : Forward(ast, DepthOf(ast), << >>, on, At(LabelKey(n + 1), m_currentDepth'),
                        At(EndKey(ast, n), m_currentDepth))
    BY <1>4, <2>1, <2>2, NoForward
  <2>4. Covers(ast, DepthOf(ast), Shown, << NodeLine(n) >>, << NodeKey(n) >>,
               VisitKey(ast, n), LabelKey(n + 1))
    BY <1>1, <1>2, OwnLine, NodeCovered
  <2>5. VisitDoes(n, << >>, << NodeLine(n) >>, << NodeKey(n) >>)
    BY <1>1, <1>2, <1>4, <2>2, <2>3, <2>4 DEF VisitDoes, WriteLines
  <2>6. QED
    BY <2>5, VisitKeeps
<1>5. QED
  BY <1>1, <1>3, <1>4

LEMMA BinaryKeeps ==
  ASSUME IInv, VisitBinary
  PROVE  IInv'
<1> PICK n : n = Top.node
  OBVIOUS
<1> PICK tasks : tasks = << Label("Left", n, << Kid(ast, n, 1) >>),
                            Label("Right", n, << Kid(ast, n, 2) >>) >>
  OBVIOUS
<1>1. /\ stack # << >> /\ Top.op = "visit" /\ ast[n].kind \in Binary
      /\ WriteLines(<< NodeLine(n) >>) /\ Nested(n, tasks) /\ UNCHANGED << ast, fields >>
  BY Zenon DEF VisitBinary, Visiting, Doing, Binary
<1>2. n \in DOMAIN ast /\ IsTree(ast) /\ IsDepth(ast, DepthOf(ast))
  BY <1>1, AtVisit, TreeShaped
<1>3. /\ tasks \in Seq(PrintTask)
      /\ \E on : Forward(ast, DepthOf(ast), tasks, on, At(LabelKey(n + 1), DepthOf(ast)[n] + 1),
                         At(EndKey(ast, n), DepthOf(ast)[n] + 1))
  BY <1>1, <1>2, TwoLabels
<1>4. QED
  BY <1>1, <1>3, LabellingKeeps

\* A label stands for itself between the lines before it and its first child.
LEMMA LabelCovered ==
  ASSUME NEW t, IsTree(t), NEW d, NEW shown, NEW line, NEW m \in DOMAIN t,
         IsLabelLine(t, d, line, LabelKey(m))
  PROVE  Covers(t, d, shown, << line >>, << LabelKey(m) >>, LabelKey(m), NodeKey(m))
<1>1. LabelKey(m) \in Nat /\ NodeKey(m) = LabelKey(m) + 1
  BY KeysNatural
<1>2. /\ << line >> \in Seq({<< line >>[i] : i \in 1 .. Len(<< line >>)}) /\ Len(<< line >>) = 1
      /\ << line >>[1] = line /\ << LabelKey(m) >>[1] = LabelKey(m)
  OBVIOUS
<1>3. IsLine(t, d, shown, line, LabelKey(m))
  BY DEF IsLine
<1>4. \A key \in LabelKey(m) .. NodeKey(m) - 1 : key = LabelKey(m)
  BY <1>1
<1>5. LabelKey(m) \in LabelKey(m) .. NodeKey(m) - 1 /\ LabelKey(m) <= NodeKey(m)
  BY <1>1
<1>6. \A i \in 1 .. 1 : i = 1
  OBVIOUS
<1>7. QED
  BY <1>2, <1>3, <1>4, <1>5, <1>6 DEF Covers

LEMMA GroupRun ==
  ASSUME NEW t, IsTree(t), NEW n \in DOMAIN t, NEW says \in Labels, NEW i, NEW j, NEW ns \in Seq(Nat),
         Group(t, n, says, i, j), Len(ns) = j - i + 1,
         \A k \in 1 .. j - i + 1 : ns[k] = Kid(t, n, i + k - 1)
  PROVE  /\ KidRun(t, n, ns, i, j) /\ Labelled(t, Kid(t, n, i)) /\ Deeper(t, n) = 2
         /\ i \in 1 .. Len(t[n].kids) /\ j \in 1 .. Len(t[n].kids)
<1>1. /\ i \in 1 .. Len(t[n].kids) /\ j \in i .. Len(t[n].kids) /\ Len(t[n].kids) \in Nat
      /\ t[n].kind \in LabelKinds
      /\ i = j \/ (t[n].kind \in {"Subscript", "Call"} /\ i = 1)
  <2>1. i \in 1 .. Len(t[n].kids) /\ j \in i .. Len(t[n].kids) /\ Len(t[n].kids) \in Nat
    BY NodeShape DEF Group
  <2>2. t[n].kind \in LabelKinds /\ (i = j \/ (t[n].kind \in {"Subscript", "Call"} /\ i = 1))
    BY DEF Group, LabelKinds
  <2>3. QED
    BY <2>1, <2>2
<1>2. j \in 1 .. Len(t[n].kids)
  BY <1>1
<1>3. Leading(t, n, i)
  BY <1>2 DEF Leading
<1>4. ASSUME NEW x \in i + 1 .. j PROVE ~ Leading(t, n, x)
  <2>1. t[n].kind \in {"Subscript", "Call"} /\ i = 1 /\ x # 1
    BY <1>1
  <2>2. t[n].kind \notin Binary
    BY <2>1 DEF Binary
  <2>3. QED
    BY <2>1, <2>2 DEF Leading, Group
<1>5. Labelled(t, Kid(t, n, i))
  BY <1>1, <1>3, LabelledKid
<1>6. Deeper(t, n) = 2
  BY <1>1 DEF Deeper, LabelKinds, Binary
<1>7. KidRun(t, n, ns, i, j)
  BY <1>1, <1>4 DEF KidRun
<1>8. QED
  BY <1>1, <1>2, <1>5, <1>6, <1>7

LEMMA LabelKeeps ==
  ASSUME IInv, PrintLabel
  PROVE  IInv'
<1> PICK n : n = Top.node
  OBVIOUS
<1> PICK d : d = DepthOf(ast)
  OBVIOUS
<1> PICK says : says = Top.says
  OBVIOUS
<1> PICK ns : ns = Top.below
  OBVIOUS
<1> PICK line : line = LabelLine(says, n, m_currentDepth)
  OBVIOUS
<1> PICK tasks : tasks = VisitAll(ns)
  OBVIOUS
<1>1. /\ stack # << >> /\ Top.op = "label"
      /\ m_output' = m_output \o << line >>
      /\ m_currentDepth' = m_currentDepth + 1 /\ Continue(Append(tasks, Leave(n)))
      /\ UNCHANGED << ast, fields >>
  BY Zenon DEF PrintLabel, Doing, WriteLines, Nested
<1>2. IsTree(ast) /\ IsDepth(ast, d) /\ Top \in PrintTask
  BY <1>1, TreeShaped, TopReached
<1>3. says \in Labels /\ ns \in Seq(Nat)
  BY <1>1, <1>2 DEF PrintTask
<1>4. PICK p \in Place, q \in Place : Takes(ast, d, Top, p, q) /\ p.depth = m_currentDepth
  BY <1>1, TopReached
<1>5. n \in DOMAIN ast /\ n \in Nat /\ d[n] \in Nat
  BY <1>2, <1>4, NodeShape DEF Takes, IsDepth
<1>6. PICK i \in 1 .. Len(ast[n].kids), j \in 1 .. Len(ast[n].kids) :
        /\ Group(ast, n, says, i, j)
        /\ Len(ns) = j - i + 1
        /\ \A k \in 1 .. j - i + 1 : ns[k] = Kid(ast, n, i + k - 1)
        /\ p = At(LabelKey(Kid(ast, n, i)), d[n] + 1)
        /\ q = At(EndKey(ast, Kid(ast, n, j)), d[n] + 1)
  BY <1>1, <1>4 DEF Takes
<1>7. KidRun(ast, n, ns, i, j) /\ Labelled(ast, Kid(ast, n, i)) /\ Deeper(ast, n) = 2
  BY <1>2, <1>3, <1>5, <1>6, GroupRun
<1> PICK m : m = Kid(ast, n, i)
  OBVIOUS
<1> PICK e : e = EndKey(ast, Kid(ast, n, j))
  OBVIOUS
<1>8. /\ p.key = LabelKey(m) /\ p.depth = d[n] + 1 /\ m_currentDepth = d[n] + 1
      /\ q = At(e, d[n] + 1)
  BY <1>4, <1>6 DEF At
<1>9. m \in DOMAIN ast /\ e \in Nat /\ NodeKey(m) \in Nat
  <2>1. m \in DOMAIN ast /\ Kid(ast, n, j) \in DOMAIN ast
    BY <1>2, <1>5, <1>6, NodeShape
  <2>2. QED
    BY <1>2, <2>1, KeysNatural
<1>10. IsLabelLine(ast, d, line, LabelKey(m))
  BY <1>3, <1>5, <1>6, <1>8 DEF IsLabelLine, LabelLine, Line
<1> PICK next : next = At(NodeKey(m), d[n] + 2)
  OBVIOUS
<1>11. /\ next \in Place /\ next.key = NodeKey(m) /\ next.depth = m_currentDepth'
  <2>1. d[n] + 2 \in Nat /\ m_currentDepth' = d[n] + 2
    BY <1>1, <1>5, <1>8
  <2>2. QED
    BY <1>9, <2>1 DEF At, Place
<1>12. \E on : Forward(ast, d, tasks, on, next, At(e, d[n] + 2))
  <2>1. VisitKey(ast, m) = NodeKey(m)
    BY <1>7 DEF VisitKey
  <2>2. d[n] + 2 = d[n] + Deeper(ast, n)
    BY <1>7
  <2>3. QED
    BY <1>2, <1>5, <1>7, <2>1, <2>2, KidsForward
<1>13. tasks \in Seq(PrintTask)
  BY <1>3, VisitTasks
<1>14. \E on : Forward(ast, d, Append(tasks, Leave(n)), on, next, q)
  <2>1. d[n] + 1 \in Nat /\ d[n] + 1 \in {d[n], d[n] + 1} /\ d[n] + 1 + 1 = d[n] + 2
    BY <1>5
  <2>2. PICK on : Forward(ast, d, tasks, on, next, At(e, d[n] + 1 + 1))
    BY <1>12, <2>1
  <2>3. \E go : Forward(ast, d, Append(tasks, Leave(n)), go, next, At(e, d[n] + 1))
    BY <1>5, <1>9, <1>13, <2>1, <2>2, LeaveForward
  <2>4. QED
    BY <1>8, <2>3
<1>15. Append(tasks, Leave(n)) \in Seq(PrintTask)
  <2>1. Leave(n) \in PrintTask
    BY <1>5 DEF Leave, PrintTask
  <2>2. QED
    BY <1>13, <2>1
<1>16. Covers(ast, d, Shown, << line >>, << LabelKey(m) >>, LabelKey(m), NodeKey(m))
  BY <1>2, <1>9, <1>10, LabelCovered
<1>17. Advances(Append(tasks, Leave(n)), << line >>, << LabelKey(m) >>)
  <2>1. ASSUME NEW x \in Place, NEW y \in Place, Takes(ast, d, Top, x, y), x.depth = m_currentDepth
        PROVE  \E z \in Place :
                 /\ z.depth = m_currentDepth'
                 /\ Covers(ast, d, Shown, << line >>, << LabelKey(m) >>, x.key, z.key)
                 /\ \E on : Forward(ast, d, Append(tasks, Leave(n)), on, z, y)
    <3>1. x = p /\ y = q
      <4>1. PICK a \in 1 .. Len(ast[n].kids), b \in 1 .. Len(ast[n].kids) :
              /\ Group(ast, n, says, a, b)
              /\ x = At(LabelKey(Kid(ast, n, a)), d[n] + 1)
              /\ y = At(EndKey(ast, Kid(ast, n, b)), d[n] + 1)
        BY <1>1, <2>1 DEF Takes
      <4>2. a = i /\ b = j
        BY <1>6, <4>1 DEF Group, Binary
      <4>3. QED
        BY <1>6, <4>1, <4>2
    <3>2. QED
      BY <1>8, <1>11, <1>14, <1>16, <3>1
  <2>2. QED
    BY <1>1, <1>15, <2>1 DEF Advances
<1>18. QED
  BY <1>1, <1>17, StepKeeps

LEMMA LeaveKeeps ==
  ASSUME IInv, LeaveNest
  PROVE  IInv'
<1> PICK d : d = DepthOf(ast)
  OBVIOUS
<1>1. /\ stack # << >> /\ Top.op = "leave" /\ m_currentDepth' = m_currentDepth - 1
      /\ Continue(<< >>) /\ UNCHANGED << ast, fields >> /\ m_output' = m_output
  BY DEF LeaveNest
<1>2. m_output \o << >> = m_output
  <2>1. m_output = [i \in 1 .. Len(m_output) |-> m_output[i]] /\ Len(m_output) \in Nat
    BY <1>1, TopReached DEF Written
  <2>2. m_output \in Seq({m_output[i] : i \in 1 .. Len(m_output)})
    BY <2>1
  <2>3. QED
    BY <2>2
<1>3. << >> \in Seq(PrintTask) /\ Len(<< >>) = 0
  OBVIOUS
<1>4. ASSUME NEW p \in Place, NEW q \in Place, Takes(ast, d, Top, p, q), p.depth = m_currentDepth
      PROVE  \E next \in Place :
               /\ next.depth = m_currentDepth'
               /\ Covers(ast, d, Shown, << >>, << >>, p.key, next.key)
               /\ \E on : Forward(ast, d, << >>, on, next, q)
  <2>1. p.key = q.key /\ p.depth = q.depth + 1
    BY <1>1, <1>4 DEF Takes
  <2>2. q.depth \in Nat /\ p.key \in Nat
    BY <1>4 DEF Place
  <2>3. q.depth = m_currentDepth'
    BY <1>1, <1>4, <2>1, <2>2
  <2>4. Covers(ast, d, Shown, << >>, << >>, p.key, q.key)
    <3>1. /\ Len(<< >>) \in Nat /\ << >> \in Seq({<< >>[i] : i \in 1 .. Len(<< >>)})
          /\ 1 .. Len(<< >>) = {}
      OBVIOUS
    <3>2. p.key <= q.key /\ p.key .. q.key - 1 = {}
      BY <2>1, <2>2
    <3>3. QED
      BY <3>1, <3>2, Zenon DEF Covers
  <2>5. \E on : Forward(ast, d, << >>, on, q, q)
    BY <1>3, NoForward
  <2>6. QED
    BY <2>3, <2>4, <2>5
<1>5. Advances(<< >>, << >>, << >>)
  BY <1>1, <1>2, <1>3, <1>4 DEF Advances
<1>6. QED
  BY <1>1, <1>5, StepKeeps

\* The walk leaves the tree as it is.
LEMMA TreeStays ==
  ASSUME [Next]_vars
  PROVE  ast' = ast /\ referent' = referent /\ type' = type
<1>1. CASE UNCHANGED vars
  BY <1>1 DEF vars, fields
<1>2. CASE Next
  BY <1>2 DEF Next, VisitProgram, VisitVariable, VisitFunction, VisitStatement, VisitReturn,
     VisitExpressionStmt, VisitAssignment, VisitImplicitCast, VisitVariableExpr, VisitSubscript,
     VisitCall, VisitBinary, VisitLiteral, PrintLabel, LeaveNest, VisitNested, VisitFlat, fields
<1>3. QED
  BY <1>1, <1>2

LEMMA StepIInv ==
  ASSUME IInv, [Next]_vars
  PROVE  IInv'
<1>1. CASE VisitProgram
  <2>1. {"Program"} \cap (LabelKinds \cup {"Function"}) = {}
    BY DEF LabelKinds, Binary
  <2>2. QED
    BY <1>1, <2>1, NestedKeeps DEF VisitProgram
<1>2. CASE VisitVariable
  <2>1. {"Variable", "Array", "Parameter"} \subseteq
          {"Variable", "Array", "Parameter", "VariableExpr", "Function"} \cup LiteralKinds
    OBVIOUS
  <2>2. QED
    BY <1>2, <2>1, FlatKeeps DEF VisitVariable
<1>3. CASE VisitFunction
  <2>1. {"Function"} \subseteq
          {"Variable", "Array", "Parameter", "VariableExpr", "Function"} \cup LiteralKinds
    OBVIOUS
  <2>2. QED
    BY <1>3, <2>1, FlatKeeps DEF VisitFunction
<1>4. CASE VisitStatement
  <2>1. {"Compound", "If", "While"} \cap (LabelKinds \cup {"Function"}) = {}
    BY DEF LabelKinds, Binary
  <2>2. QED
    BY <1>4, <2>1, NestedKeeps DEF VisitStatement
<1>5. CASE VisitReturn
  <2>1. {"Return"} \cap (LabelKinds \cup {"Function"}) = {}
    BY DEF LabelKinds, Binary
  <2>2. ast[Top.node].kind = "Return"
    BY <1>5 DEF VisitReturn, Visiting, Doing
  <2>3. ast[Top.node].kind \notin LabelKinds
    BY <2>2 DEF LabelKinds, Binary
  <2>4. CASE ast[Top.node].kids = << >> /\ VisitFlat({"Return"})
    BY <2>3, <2>4, FlatKeeps
  <2>5. CASE VisitNested({"Return"})
    BY <2>1, <2>5, NestedKeeps
  <2>6. QED
    BY <1>5, <2>4, <2>5 DEF VisitReturn
<1>6. CASE VisitExpressionStmt
  BY <1>6, ExpressionStmtKeeps
<1>7. CASE VisitAssignment
  <2>1. {"Assignment"} \cap (LabelKinds \cup {"Function"}) = {}
    BY DEF LabelKinds, Binary
  <2>2. QED
    BY <1>7, <2>1, NestedKeeps DEF VisitAssignment
<1>8. CASE VisitImplicitCast
  <2>1. {"ImplicitCast"} \cap (LabelKinds \cup {"Function"}) = {}
    BY DEF LabelKinds, Binary
  <2>2. QED
    BY <1>8, <2>1, NestedKeeps DEF VisitImplicitCast
<1>9. CASE VisitVariableExpr
  <2>1. {"VariableExpr"} \subseteq
          {"Variable", "Array", "Parameter", "VariableExpr", "Function"} \cup LiteralKinds
    OBVIOUS
  <2>2. QED
    BY <1>9, <2>1, FlatKeeps DEF VisitVariableExpr
<1>10. CASE VisitLiteral
  <2>1. Literals \subseteq
          {"Variable", "Array", "Parameter", "VariableExpr", "Function"} \cup LiteralKinds
    BY DEF Literals, LiteralKinds
  <2>2. QED
    BY <1>10, <2>1, FlatKeeps DEF VisitLiteral
<1>11. CASE VisitSubscript
  BY <1>11, SubscriptKeeps
<1>12. CASE VisitCall
  BY <1>12, CallKeeps
<1>13. CASE VisitBinary
  BY <1>13, BinaryKeeps
<1>14. CASE PrintLabel
  BY <1>14, LabelKeeps
<1>15. CASE LeaveNest
  BY <1>15, LeaveKeeps
<1>16. CASE UNCHANGED vars
  <2>1. /\ UNCHANGED << ast, fields >> /\ stack' = stack /\ m_currentDepth' = m_currentDepth
        /\ m_output' = m_output
    BY <1>16 DEF vars
  <2>2. ast' = ast /\ type' = type /\ Shown' = Shown /\ \A n : TypeShown(n)' = TypeShown(n)
    BY <2>1, SameShown
  <2>3. Reached(ast, DepthOf(ast), Shown, stack, m_currentDepth, m_output)'
    BY <2>1, <2>2 DEF IInv
  <2>4. (\A n \in DOMAIN ast : TypeShown(n) \in Type \cup {NoType, IllTyped})'
    <3>1. \A n \in DOMAIN ast : TypeShown(n) \in Type \cup {NoType, IllTyped}
      BY DEF IInv
    <3>2. \A n \in DOMAIN ast' : TypeShown(n)' \in Type \cup {NoType, IllTyped}
      BY <2>2, <3>1
    <3>3. QED
      BY <3>2
  <2>5. /\ (ast \in Programs)' /\ (stack \in Seq(PrintTask))'
        /\ (DOMAIN type \subseteq NodesOf(ast, ExpressionKinds))'
    BY <2>1, <2>2 DEF IInv
  <2>6. QED
    BY <2>3, <2>4, <2>5 DEF IInv
<1>17. QED
  BY <1>1, <1>2, <1>3, <1>4, <1>5, <1>6, <1>7, <1>8, <1>9, <1>10, <1>11, <1>12, <1>13, <1>14,
     <1>15, <1>16 DEF Next

LEMMA KindsApart ==
  DeclKinds \cap ExpressionKinds = {} /\ UseKinds \subseteq ExpressionKinds
BY DEF DeclKinds, ExpressionKinds, UseKinds, LiteralKinds

\* The types an outline shows are types, when the fields of the nodes hold some.
LEMMA ShownTyped ==
  ASSUME IsTree(ast), DOMAIN type \subseteq NodesOf(ast, ExpressionKinds),
         \A n \in DOMAIN type : type[n] \in Type \cup {IllTyped},
         \A n \in DOMAIN referent : Decl(ast, referent[n]).type \in Type
  PROVE  \A n \in DOMAIN ast : TypeShown(n) \in Type \cup {NoType, IllTyped}
<1> SUFFICES ASSUME NEW n \in DOMAIN ast PROVE TypeShown(n) \in Type \cup {NoType, IllTyped}
  OBVIOUS
<1>1. CASE ast[n].kind \in DeclKinds
  <2>1. n \notin DOMAIN type
    BY <1>1, KindsApart DEF NodesOf
  <2>2. ast[n].type \in Type
    BY <1>1 DEF IsTree
  <2>3. CASE n \notin DOMAIN referent
    <3>1. TypeShown(n) = ast[n].type
      BY <1>1, <2>1, <2>3, Zenon DEF TypeShown
    <3>2. QED
      BY <2>2, <3>1
  <2>4. CASE n \in DOMAIN referent
    <3>1. TypeShown(n) \in {ast[n].type, Decl(ast, referent[n]).type}
      BY <1>1, <2>1, <2>4, Zenon DEF TypeShown
    <3>2. QED
      BY <2>2, <2>4, <3>1
  <2>5. QED
    BY <2>3, <2>4
<1>2. CASE ast[n].kind \notin DeclKinds
  <2>1. CASE n \in DOMAIN type /\ ast[n].kind \notin Literals
    <3>1. TypeShown(n) = type[n]
      BY <1>2, <2>1, Zenon DEF TypeShown
    <3>2. QED
      BY <2>1, <3>1
  <2>2. CASE n \in DOMAIN referent \ DOMAIN type
    <3>1. TypeShown(n) = Decl(ast, referent[n]).type
      BY <1>2, <2>2, Zenon DEF TypeShown
    <3>2. QED
      BY <2>2, <3>1
  <2>3. CASE /\ ~ (n \in DOMAIN type /\ ast[n].kind \notin Literals)
             /\ n \notin DOMAIN referent \ DOMAIN type
    <3>1. TypeShown(n) = NoType
      BY <1>2, <2>3, Zenon DEF TypeShown
    <3>2. QED
      BY <3>1
  <2>4. QED
    BY <2>1, <2>2, <2>3
<1>3. QED
  BY <1>1, <1>2

LEMMA TypesTyped ==
  ASSUME NEW t, NEW r, IsTree(t), Linking(t, r)
  PROVE  /\ DOMAIN TypesOf(t, r) = NodesOf(t, ExpressionKinds)
         /\ \A n \in NodesOf(t, ExpressionKinds) : TypesOf(t, r)[n] \in Type \cup {IllTyped}
<1> DEFINE S == NodesOf(t, ExpressionKinds)
           V == Type \cup {IllTyped}
           known(n) == IF TypesOf(t, r)[n] \in V THEN TypesOf(t, r)[n] ELSE IllTyped
           g == [n \in S |-> known(n)]
           Bad == {n \in S : TypesOf(t, r)[n] \notin V}
<1>1. TypesOf(t, r) = [n \in S |-> TypeOf(t, r, TypesOf(t, r), n)]
  BY TypesDefined
<1>2. Bad = {}
  <2>1. SUFFICES ASSUME Bad # {} PROVE FALSE
    OBVIOUS
  <2>2. Len(t) \in Nat /\ Bad \in SUBSET (0 .. Len(t))
    BY DEF IsTree, NodesOf
  <2>3. PICK n \in Bad : \A k \in Bad : k <= n
    <3> HIDE DEF Bad
    <3>1. QED
      BY <2>1, <2>2, Greatest
  <2>4. n \in S /\ n \in Nat /\ \A m \in S : m \in Nat
    BY <2>2 DEF IsTree, NodesOf
  <2>5. \A m \in S : n < m => g[m] = TypesOf(t, r)[m]
    BY <2>3, <2>4
  <2>6. g \in [S -> V]
    OBVIOUS
  <2>7. TypeOf(t, r, g, n) = TypeOf(t, r, TypesOf(t, r), n)
    <3> HIDE DEF g
    <3>1. QED
      BY <2>4, <2>5, TypesLookBelow
  <2>8. TypeOf(t, r, g, n) \in V
    <3> HIDE DEF g
    <3>1. QED
      BY <2>4, <2>6, TypesInside
  <2>9. TypesOf(t, r)[n] = TypeOf(t, r, TypesOf(t, r), n)
    BY <1>1, <2>4, Zenon
  <2>10. QED
    BY <2>3, <2>7, <2>8, <2>9
<1>3. DOMAIN TypesOf(t, r) = S
  BY <1>1, Zenon
<1>4. QED
  BY <1>2, <1>3

LEMMA InitFields ==
  ASSUME Init
  PROVE  /\ DOMAIN type \subseteq NodesOf(ast, ExpressionKinds)
         /\ \A n \in DOMAIN type : type[n] \in Type \cup {IllTyped}
         /\ \A n \in DOMAIN referent : Decl(ast, referent[n]).type \in Type
<1>1. IsProgram(ast) /\ IsTree(ast)
  BY ProgramsAssumption DEF Init, IsProgram
<1>2. DOMAIN << >> = {}
  OBVIOUS
<1> PICK linked : linked = Meaning(ast).referents
  OBVIOUS
<1>3. CASE referent = << >> /\ type = << >>
  BY <1>2, <1>3
<1>4. CASE Meaning(ast).faults = {} /\ referent = linked
           /\ (type = << >> \/ type = TypesOf(ast, linked))
  <2>1. Linking(ast, linked)
    BY <1>1, <1>4, ReferentsLink
  <2>2. /\ DOMAIN TypesOf(ast, linked) = NodesOf(ast, ExpressionKinds)
        /\ \A n \in NodesOf(ast, ExpressionKinds) : TypesOf(ast, linked)[n] \in Type \cup {IllTyped}
    BY <1>1, <2>1, TypesTyped
  <2>3. DOMAIN linked = UsesOf(ast) /\ \A n \in UsesOf(ast) : Decl(ast, linked[n]).type \in Type
    BY <1>1, <1>4, ReferentsTyped
  <2>4. \A n \in DOMAIN referent : Decl(ast, referent[n]).type \in Type
    BY <1>4, <2>3
  <2>5. CASE type = << >>
    BY <1>2, <2>4, <2>5
  <2>6. CASE type = TypesOf(ast, linked)
    BY <2>2, <2>4, <2>6
  <2>7. QED
    BY <1>4, <2>5, <2>6
<1>5. QED
  BY <1>3, <1>4, Zenon DEF Init

LEMMA InitIInv ==
  ASSUME Init
  PROVE  IInv
<1> PICK d : d = DepthOf(ast)
  OBVIOUS
<1>1. /\ ast \in Programs /\ IsTree(ast) /\ IsDepth(ast, d)
      /\ stack = << Visit(1) >> /\ m_currentDepth = 0 /\ m_output = << >>
  BY ProgramsAssumption, DepthExists DEF Init, IsProgram
<1>2. 1 \in DOMAIN ast /\ d[1] = 0
  BY <1>1 DEF IsTree, IsDepth
<1>3. Visit(1) \in PrintTask /\ Visit(1).op = "visit" /\ Visit(1).node = 1
  BY DEF Visit, PrintTask
<1>4. ~ Labelled(ast, 1)
  BY <1>1, ParentOfKid DEF Labelled
<1>5. VisitKey(ast, 1) = 2
  BY <1>4 DEF VisitKey, LabelKey
<1>6. EndKey(ast, 1) \in Nat
  BY <1>1, <1>2, KeysNatural
<1> DEFINE way == [i \in 0 .. 1 |-> IF i = 0 THEN At(EndKey(ast, 1), 0) ELSE At(2, 0)]
<1>7. Along(ast, d, stack, way)
  <2>1. way \in [0 .. 1 -> Place] /\ way[0] = At(EndKey(ast, 1), 0) /\ way[1] = At(2, 0)
    BY <1>6 DEF At, Place
  <2>2. Takes(ast, d, Visit(1), At(2, 0), At(EndKey(ast, 1), 0))
    BY <1>2, <1>3, <1>5 DEF Takes
  <2>3. Len(stack) = 1 /\ stack[1] = Visit(1)
    BY <1>1
  <2>4. \A i \in 1 .. 1 : i = 1 /\ i - 1 = 0
    OBVIOUS
  <2> HIDE DEF way
  <2>5. QED
    BY <2>1, <2>2, <2>3, <2>4 DEF Along
<1>8. way[Len(stack)].depth = m_currentDepth /\ way[Len(stack)].key = 2
  <2>1. Len(stack) = 1 /\ way[1] = At(2, 0)
    BY <1>1
  <2>2. QED
    BY <1>1, <2>1 DEF At
<1>9. Written(ast, d, Shown, m_output, << >>, 2)
  <2>1. /\ Len(m_output) = 0 /\ m_output = [i \in 1 .. 0 |-> m_output[i]] /\ 1 .. 0 = {}
        /\ << >> \in [1 .. 0 -> Nat]
    BY <1>1
  <2>2. ASSUME NEW key \in Keys(ast), key < 2 PROVE FALSE
    <3>1. PICK n \in DOMAIN ast : key = NodeKey(n) \/ key = LabelKey(n)
      BY DEF Keys
    <3>2. n \in 1 .. Len(ast) /\ Len(ast) \in Nat
      BY <1>1, <3>1, KeysNatural
    <3>3. QED
      BY <2>2, <3>1, <3>2 DEF NodeKey, LabelKey
  <2>3. QED
    BY <2>1, <2>2 DEF Written
<1>10. Reached(ast, d, Shown, stack, m_currentDepth, m_output)
  <2> HIDE DEF way
  <2>1. QED
    BY <1>7, <1>8, <1>9 DEF Reached
<1>11. stack \in Seq(PrintTask)
  BY <1>1, <1>3
<1>12. \A n \in DOMAIN ast : TypeShown(n) \in Type \cup {NoType, IllTyped}
  BY <1>1, InitFields, ShownTyped
<1>13. QED
  BY <1>1, <1>10, <1>11, <1>12, InitFields DEF IInv

LEMMA Invariance == Spec => []IInv
BY InitIInv, StepIInv, PTL DEF Spec

(***************************************************************************)
(* What the invariant gives.                                               *)
(***************************************************************************)
LEMMA LinesKnown ==
  ASSUME IInv
  PROVE  \A i \in DOMAIN m_output : \E key : IsLine(ast, DepthOf(ast), Shown, m_output[i], key)
<1>1. PICK way, keys : Written(ast, DepthOf(ast), Shown, m_output, keys, way[Len(stack)].key)
  BY DEF IInv, Reached
<1>2. DOMAIN m_output = 1 .. Len(m_output)
  BY <1>1 DEF Written
<1>3. QED
  BY <1>1, <1>2 DEF Written

LEMMA DepthBounded ==
  ASSUME IInv
  PROVE  /\ m_currentDepth \in 0 .. 2 * Len(ast)
         /\ \A i \in 1 .. Len(stack) : stack[i].node \in DOMAIN ast
<1> PICK d : d = DepthOf(ast)
  OBVIOUS
<1>1. IsTree(ast) /\ IsDepth(ast, d) /\ Len(ast) \in Nat
  BY TreeShaped DEF IsTree
<1>2. PICK way : Along(ast, d, stack, way) /\ way[Len(stack)].depth = m_currentDepth
  BY DEF IInv, Reached
<1>3. \A i \in 1 .. Len(stack) : Takes(ast, d, stack[i], way[i], way[i - 1])
  BY <1>2 DEF Along
<1>4. \A i \in 1 .. Len(stack) : stack[i].node \in DOMAIN ast
  BY <1>3 DEF Takes
<1>5. CASE stack = << >>
  <2>1. Len(stack) = 0 /\ way[0] = At(EndKey(ast, 1), 0)
    BY <1>2, <1>5 DEF Along
  <2>2. m_currentDepth = 0
    BY <1>2, <2>1 DEF At
  <2>3. QED
    BY <1>1, <1>4, <2>2
<1>6. CASE stack # << >>
  <2> PICK n : n = Top.node
    OBVIOUS
  <2>1. PICK p \in Place, q \in Place : Takes(ast, d, Top, p, q) /\ p.depth = m_currentDepth
    BY <1>6, TopReached
  <2>2. n \in DOMAIN ast
    BY <2>1 DEF Takes
  <2>3. d[n] \in Nat /\ n \in 1 .. Len(ast) /\ d[n] <= 2 * (n - 1)
    BY <1>1, <2>2, DepthBounds
  <2>4. m_currentDepth \in {d[n], d[n] + 1, d[n] + 2}
    <3>1. Top.op \in {"visit", "leave", "label"}
      BY <1>6, TopReached DEF PrintTask
    <3>2. CASE Top.op = "visit"
      BY <2>1, <3>2 DEF Takes, At
    <3>3. CASE Top.op = "label"
      BY <2>1, <3>3 DEF Takes, At
    <3>4. CASE Top.op = "leave"
      BY <2>1, <3>4 DEF Takes
    <3>5. QED
      BY <3>1, <3>2, <3>3, <3>4
  <2>5. QED
    BY <1>1, <1>4, <2>3, <2>4
<1>7. QED
  BY <1>5, <1>6

LEMMA IInvTypeOK ==
  ASSUME IInv
  PROVE  PrintTypeOK
<1> PICK d : d = DepthOf(ast)
  OBVIOUS
<1>1. IsTree(ast) /\ IsDepth(ast, d) /\ Len(ast) \in Nat
  BY TreeShaped DEF IsTree
<1>2. DOMAIN stack = 1 .. Len(stack)
  BY DEF IInv
<1>3. ASSUME NEW i \in DOMAIN m_output
      PROVE  /\ m_output[i].node \in DOMAIN ast
             /\ m_output[i].says \in Labels \cup {ast[m_output[i].node].kind}
             /\ m_output[i].depth \in 0 .. 2 * Len(ast)
             /\ m_output[i].type \in Type \cup {NoType, IllTyped}
  <2> PICK n : n = m_output[i].node
    OBVIOUS
  <2>1. PICK key : IsLine(ast, d, Shown, m_output[i], key)
    BY LinesKnown
  <2>2. n \in DOMAIN ast
    BY <2>1 DEF IsLine, IsNodeLine, IsLabelLine, IsSemicolonLine
  <2>3. d[n] \in Nat /\ n \in 1 .. Len(ast) /\ d[n] <= 2 * (n - 1)
    BY <1>1, <2>2, DepthBounds
  <2>4. Shown[n] \in Type \cup {NoType, IllTyped}
    BY <2>2 DEF IInv, Shown
  <2>5. /\ m_output[i].says \in Labels \cup {ast[n].kind}
        /\ m_output[i].depth \in {d[n], d[n] + 1}
        /\ m_output[i].type \in {Shown[n], NoType}
    <3>1. "Semicolon" \in Labels
      BY DEF Labels
    <3>2. QED
      BY <2>1, <3>1 DEF IsLine, IsNodeLine, IsLabelLine, IsSemicolonLine
  <2>6. m_output[i].depth \in 0 .. 2 * Len(ast)
    BY <1>1, <2>3, <2>5
  <2>7. QED
    BY <2>2, <2>4, <2>5, <2>6
<1>4. QED
  BY <1>2, <1>3, DepthBounded DEF PrintTypeOK

\* The depth of the printer never passes below zero nor beyond twice the size
\* of the tree, and every line is of a node of the tree and shows a type, a
\* missing one or none.
THEOREM PrintTypeCorrect == Spec => []PrintTypeOK
BY Invariance, IInvTypeOK, PTL

\* Every expression but a literal that has a type shows it, also a use, whose
\* declaration has another type when it is subscripted.
TypesAreShown ==
  \A i \in NodeLines :
    m_output[i].node \in DOMAIN type /\ m_output[i].says \notin Literals =>
      m_output[i].type = type[m_output[i].node]

LEMMA IInvTypesShown ==
  ASSUME IInv
  PROVE  TypesAreShown
<1> SUFFICES ASSUME NEW i \in NodeLines, m_output[i].node \in DOMAIN type,
                    m_output[i].says \notin Literals
             PROVE  m_output[i].type = type[m_output[i].node]
  BY DEF TypesAreShown
<1> PICK n : n = m_output[i].node
  OBVIOUS
<1>1. i \in DOMAIN m_output /\ m_output[i].says \notin Labels
  BY DEF NodeLines
<1>2. PICK key : IsLine(ast, DepthOf(ast), Shown, m_output[i], key)
  BY <1>1, LinesKnown
<1>3. n \in DOMAIN ast /\ m_output[i].says = ast[n].kind /\ m_output[i].type = Shown[n]
  BY <1>1, <1>2 DEF IsLine, IsNodeLine, IsLabelLine, IsSemicolonLine, Labels
<1>4. ast[n].kind \notin DeclKinds /\ n \in DOMAIN type /\ ast[n].kind \notin Literals
  BY <1>3, KindsApart DEF IInv, NodesOf
<1>5. TypeShown(n) = type[n]
  BY <1>4, Zenon DEF TypeShown
<1>6. QED
  BY <1>3, <1>5 DEF Shown

(***************************************************************************)
(* Reading the finished outline.                                           *)
(***************************************************************************)
Outline(keys) == Written(ast, DepthOf(ast), Shown, m_output, keys, EndKey(ast, 1))

LEMMA OutlineThere ==
  ASSUME IInv, Finished
  PROVE  \E keys : Outline(keys)
<1>1. PICK way, keys :
        /\ Along(ast, DepthOf(ast), stack, way)
        /\ Written(ast, DepthOf(ast), Shown, m_output, keys, way[Len(stack)].key)
  BY DEF IInv, Reached
<1>2. Len(stack) = 0
  BY DEF Finished
<1>3. way[Len(stack)] = At(EndKey(ast, 1), 0)
  BY <1>1, <1>2 DEF Along
<1>4. way[Len(stack)].key = EndKey(ast, 1)
  BY <1>3 DEF At
<1>5. Written(ast, DepthOf(ast), Shown, m_output, keys, EndKey(ast, 1))
  BY <1>1, <1>4
<1>6. QED
  BY <1>5 DEF Outline

LEMMA OutlineParts ==
  ASSUME IInv, NEW keys, Outline(keys)
  PROVE  /\ DOMAIN m_output = 1 .. Len(m_output) /\ Len(m_output) \in Nat
         /\ \A i \in DOMAIN m_output :
              /\ keys[i] \in Nat
              /\ \/ IsNodeLine(ast, DepthOf(ast), Shown, m_output[i], keys[i])
                 \/ IsLabelLine(ast, DepthOf(ast), m_output[i], keys[i])
                 \/ IsSemicolonLine(ast, DepthOf(ast), m_output[i], keys[i])
         /\ \A i, j \in DOMAIN m_output : i < j <=> keys[i] < keys[j]
         /\ \A key \in Keys(ast) : \E i \in DOMAIN m_output : keys[i] = key
<1> PICK d : d = DepthOf(ast)
  OBVIOUS
<1> PICK l : l = Len(m_output)
  OBVIOUS
<1>1. /\ m_output = [i \in 1 .. l |-> m_output[i]] /\ l \in Nat
      /\ keys \in [1 .. l -> Nat]
      /\ \A i \in 1 .. l : IsLine(ast, d, Shown, m_output[i], keys[i])
      /\ \A i, j \in 1 .. l : i < j => keys[i] < keys[j]
      /\ \A key \in Keys(ast) : key < EndKey(ast, 1) => \E i \in 1 .. l : keys[i] = key
  BY DEF Outline, Written
<1>2. DOMAIN m_output = 1 .. l
  BY <1>1
<1>3. ASSUME NEW key \in Keys(ast) PROVE key < EndKey(ast, 1)
  <2>1. PICK n \in DOMAIN ast : key = NodeKey(n) \/ key = LabelKey(n)
    BY DEF Keys
  <2>2. ast[1].span = Len(ast) /\ Len(ast) \in Nat /\ n \in 1 .. Len(ast)
    BY TreeShaped DEF IsTree
  <2>3. QED
    BY <2>1, <2>2 DEF EndKey, NodeKey, LabelKey
<1>4. ASSUME NEW i \in 1 .. l, NEW j \in 1 .. l, keys[i] < keys[j] PROVE i < j
  <2>1. i = j \/ j < i \/ i < j
    BY <1>1
  <2>2. keys[i] \in Nat /\ keys[j] \in Nat
    BY <1>1
  <2>3. CASE i = j
    BY <1>4, <2>2, <2>3
  <2>4. CASE j < i
    BY <1>1, <1>4, <2>2, <2>4
  <2>5. QED
    BY <2>1, <2>3, <2>4
<1>5. QED
  BY <1>1, <1>2, <1>3, <1>4 DEF IsLine

LEMMA LabelsApart ==
  /\ NodeKinds \cap Labels = {} /\ "Semicolon" \in Labels /\ "Function" \notin Labels
  /\ "Parameter" \notin Labels
BY DEF NodeKinds, Labels, DeclKinds, StatementKinds, ExpressionKinds, LiteralKinds

LEMMA NodeLinesAre ==
  ASSUME IInv, NEW keys, Outline(keys)
  PROVE  /\ \A i \in NodeLines :
              /\ i \in DOMAIN m_output
              /\ IsNodeLine(ast, DepthOf(ast), Shown, m_output[i], keys[i])
         /\ \A n \in DOMAIN ast : \E i \in NodeLines : m_output[i].node = n /\ keys[i] = NodeKey(n)
<1> PICK d : d = DepthOf(ast)
  OBVIOUS
<1>1. IsTree(ast) /\ \A n \in DOMAIN ast : n \in Nat /\ ast[n].kind \in NodeKinds
  BY TreeShaped, NodeShape
<1>2. ASSUME NEW i \in NodeLines
      PROVE  i \in DOMAIN m_output /\ IsNodeLine(ast, d, Shown, m_output[i], keys[i])
  <2>1. i \in DOMAIN m_output /\ m_output[i].says \notin Labels
    BY DEF NodeLines
  <2>2. QED
    BY <2>1, OutlineParts, LabelsApart DEF IsLabelLine, IsSemicolonLine
<1>3. ASSUME NEW n \in DOMAIN ast
      PROVE  \E i \in NodeLines : m_output[i].node = n /\ keys[i] = NodeKey(n)
  <2>1. NodeKey(n) \in Keys(ast)
    BY DEF Keys
  <2>2. PICK i \in DOMAIN m_output : keys[i] = NodeKey(n)
    BY <2>1, OutlineParts
  <2>3. ~ IsLabelLine(ast, d, m_output[i], keys[i])
    <3>1. ASSUME IsLabelLine(ast, d, m_output[i], keys[i]) PROVE FALSE
      <4>0. PICK m \in DOMAIN ast : \E x \in 1 .. Len(ast[m].kids) : keys[i] = LabelKey(Kid(ast, m, x))
        BY <3>1 DEF IsLabelLine
      <4>1. PICK x \in 1 .. Len(ast[m].kids) : keys[i] = LabelKey(Kid(ast, m, x))
        BY <4>0
      <4>2. Kid(ast, m, x) \in DOMAIN ast
        BY <1>1, NodeShape
      <4>3. QED
        BY <1>1, <2>2, <4>1, <4>2 DEF NodeKey, LabelKey
    <3>2. QED
      BY <3>1
  <2>4. ~ IsSemicolonLine(ast, d, m_output[i], keys[i])
    BY <1>1, <2>2 DEF IsSemicolonLine, NodeKey, SemicolonKey
  <2>5. IsNodeLine(ast, d, Shown, m_output[i], keys[i])
    BY <2>3, <2>4, OutlineParts
  <2>6. m_output[i].node = n /\ m_output[i].says \notin Labels
    BY <1>1, <2>2, <2>5, LabelsApart DEF IsNodeLine, NodeKey
  <2>7. QED
    BY <2>2, <2>6 DEF NodeLines
<1>4. QED
  BY <1>2, <1>3

\* The parent is the last node before n whose subtree n lies in.
LEMMA ParentLast ==
  ASSUME NEW t, IsTree(t), NEW p \in DOMAIN t, NEW i \in 1 .. Len(t[p].kids)
  PROVE  ParentIn(t, Kid(t, p, i)) = p
<1> PICK n : n = Kid(t, p, i)
  OBVIOUS
<1> DEFINE T == {m \in 1 .. n - 1 : Within(t, n, m)}
<1>1. /\ n \in DOMAIN t /\ p < n /\ n + t[n].span <= p + t[p].span
      /\ DOMAIN t = 1 .. Len(t) /\ Len(t) \in Nat /\ t[n].span \in Nat \ {0}
      /\ t[p].span \in Nat \ {0}
  BY NodeShape, KidsInside
<1>2. p \in T
  BY <1>1 DEF Within
<1>3. ASSUME NEW m \in T PROVE m <= p
  <2>1. m \in DOMAIN t /\ m # n /\ Within(t, n, m)
    BY <1>1
  <2>2. Within(t, p, m)
    BY <2>1, AroundKid
  <2>3. QED
    BY <2>2 DEF Within
<1>4. T \in SUBSET (0 .. n)
  BY <1>1
<1>5. Max(T) \in T /\ \A k \in T : k <= Max(T)
  <2> HIDE DEF T
  <2>1. T # {} /\ n \in Nat
    BY <1>1, <1>2
  <2>2. QED
    BY <1>4, <2>1, MaxGreatest
<1>6. Max(T) = p
  <2>1. Max(T) \in Nat /\ p \in Nat
    BY <1>1, <1>5
  <2>2. p <= Max(T) /\ Max(T) <= p
    BY <1>2, <1>3, <1>5
  <2> HIDE DEF T
  <2>3. QED
    BY <2>1, <2>2
<1>7. QED
  BY <1>6 DEF ParentIn

LEMMA MaxIs ==
  ASSUME NEW n \in Nat, NEW T \in SUBSET (0 .. n), NEW j \in T, \A k \in T : k <= j
  PROVE  Max(T) = j
<1>1. Max(T) \in T /\ \A k \in T : k <= Max(T)
  <2>1. T # {}
    OBVIOUS
  <2>2. QED
    BY <2>1, MaxGreatest
<1> PICK m : m = Max(T)
  OBVIOUS
<1>0. T # {} /\ m \in T /\ \A k \in T : k <= m
  BY <1>1
<1>2. m \in T /\ j \in T /\ m <= j /\ j <= m
  BY <1>0
<1>3. m = j
  <2>1. m \in Nat /\ j \in Nat
    BY <1>2
  <2>2. QED
    BY <1>2, <2>1
<1>4. QED
  BY <1>3

(***************************************************************************)
(* The line that opens the lines of child c of p: the label above it, or   *)
(* the line of p.                                                          *)
(***************************************************************************)
Opening(t, p, c, key, says) ==
  \/ t[p].kind \notin LabelKinds /\ key = NodeKey(p) /\ says = t[p].kind
  \/ \E a : \E b : Group(t, p, says, a, b) /\ c \in a .. b /\ key = LabelKey(Kid(t, p, a))

LEMMA OpeningExists ==
  ASSUME NEW t, IsTree(t), NEW p \in DOMAIN t, NEW c \in 1 .. Len(t[p].kids)
  PROVE  \E key : Opening(t, p, c, key, SideOf(t, p, Kid(t, p, c)))
<1> PICK l : l = Len(t[p].kids)
  OBVIOUS
<1>1. l \in Nat /\ c \in 1 .. l /\ KidsFit(t, p)
  BY NodeShape
<1>2. CASE t[p].kind \in Binary
  <2>1. l = 2
    BY <1>1, <1>2 DEF KidsFit, Binary
  <2>2. CASE c = 1
    <3>1. SideOf(t, p, Kid(t, p, c)) = "Left"
      BY <1>2, <2>2 DEF SideOf, Binary
    <3>2. Group(t, p, "Left", 1, 1)
      BY <1>2, <2>1 DEF Group
    <3>3. QED
      BY <2>2, <3>1, <3>2 DEF Opening
  <2>3. CASE c = 2
    <3>1. Kid(t, p, 1) # Kid(t, p, c)
      <4>1. 1 \in 1 .. Len(t[p].kids) /\ 1 # c
        BY <2>1, <2>3
      <4>2. SUFFICES ASSUME Kid(t, p, 1) = Kid(t, p, c) PROVE 1 = c
        BY <4>1
      <4>3. QED
        BY <4>1, <4>2, OneParent
    <3>2. SideOf(t, p, Kid(t, p, c)) = "Right"
      BY <1>2, <3>1 DEF SideOf, Binary
    <3>3. Group(t, p, "Right", 2, 2)
      BY <1>2, <2>1 DEF Group
    <3>4. QED
      BY <2>3, <3>2, <3>3 DEF Opening
  <2>4. QED
    BY <1>1, <2>1, <2>2, <2>3
<1>3. CASE t[p].kind = "Subscript"
  <2>1. SideOf(t, p, Kid(t, p, c)) = "Index"
    BY <1>3 DEF SideOf
  <2>2. Group(t, p, "Index", 1, l)
    BY <1>1, <1>3 DEF Group
  <2>3. QED
    BY <1>1, <2>1, <2>2 DEF Opening
<1>4. CASE t[p].kind = "Call"
  <2>1. SideOf(t, p, Kid(t, p, c)) = "Arguments"
    BY <1>4 DEF SideOf
  <2>2. Group(t, p, "Arguments", 1, l)
    BY <1>1, <1>4 DEF Group
  <2>3. QED
    BY <1>1, <2>1, <2>2 DEF Opening
<1>5. CASE t[p].kind \notin LabelKinds
  <2>1. SideOf(t, p, Kid(t, p, c)) = t[p].kind
    BY <1>5 DEF SideOf, LabelKinds, Binary
  <2>2. QED
    BY <1>5, <2>1 DEF Opening
<1>6. QED
  BY <1>2, <1>3, <1>4, <1>5 DEF LabelKinds

\* It is written, before the line of the child, and is less deep.
LEMMA OpensBefore ==
  ASSUME NEW t, IsTree(t), NEW d, IsDepth(t, d), NEW shown,
         NEW p \in DOMAIN t, NEW c \in 1 .. Len(t[p].kids), t[p].kind # "Function",
         NEW key, NEW says, Opening(t, p, c, key, says)
  PROVE  /\ key \in Keys(t) /\ key \in Nat /\ NodeKey(p) <= key /\ key < NodeKey(Kid(t, p, c))
         /\ \A line : IsLine(t, d, shown, line, key) =>
              line.depth < d[Kid(t, p, c)] /\ line.node = p /\ line.says = says
<1> PICK n : n = Kid(t, p, c)
  OBVIOUS
<1>1. /\ n \in DOMAIN t /\ n \in Nat /\ p \in Nat /\ p < n /\ Len(t[p].kids) \in Nat
      /\ d[n] = d[p] + Deeper(t, p) /\ d[p] \in Nat
  BY NodeShape, KidsInside, DepthBounds DEF IsDepth
<1>2. \A m \in DOMAIN t : m \in Nat
  BY NodeShape
<1>3. CASE t[p].kind \notin LabelKinds /\ key = NodeKey(p) /\ says = t[p].kind
  <2>1. key \in Keys(t) /\ key \in Nat /\ key < NodeKey(n)
    BY <1>1, <1>3 DEF Keys, NodeKey
  <2>2. Deeper(t, p) = 1
    BY <1>3 DEF Deeper
  <2>3. ASSUME NEW line, IsLine(t, d, shown, line, key)
        PROVE  line.depth < d[n] /\ line.node = p /\ line.says = says
    <3>1. ~ IsLabelLine(t, d, line, key)
      <4>1. SUFFICES ASSUME NEW m \in DOMAIN t,
                            NEW x \in 1 .. Len(t[m].kids), key = LabelKey(Kid(t, m, x))
                     PROVE  FALSE
        BY DEF IsLabelLine
      <4>2. Kid(t, m, x) \in Nat
        BY <1>2, NodeShape
      <4>3. QED
        BY <1>1, <1>3, <4>1, <4>2 DEF NodeKey, LabelKey
    <3>2. ~ IsSemicolonLine(t, d, line, key)
      BY <1>1, <1>2, <1>3 DEF IsSemicolonLine, SemicolonKey, NodeKey
    <3>3. IsNodeLine(t, d, shown, line, key)
      BY <2>3, <3>1, <3>2 DEF IsLine
    <3>4. line.node = p /\ line.depth = d[line.node] /\ line.says = t[line.node].kind
      BY <1>1, <1>2, <1>3, <3>3 DEF IsNodeLine, NodeKey
    <3>5. QED
      BY <1>1, <1>3, <2>2, <3>4
  <2>4. QED
    BY <1>3, <2>1, <2>3
<1>4. ASSUME NEW a, NEW b, Group(t, p, says, a, b), c \in a .. b, key = LabelKey(Kid(t, p, a))
      PROVE  /\ key \in Keys(t) /\ key \in Nat /\ NodeKey(p) <= key /\ key < NodeKey(n)
             /\ \A line : IsLine(t, d, shown, line, key) =>
                  line.depth < d[n] /\ line.node = p /\ line.says = says
  <2> PICK k : k = Kid(t, p, a)
    OBVIOUS
  <2>1. a \in 1 .. Len(t[p].kids) /\ b \in 1 .. Len(t[p].kids) /\ t[p].kind \in LabelKinds /\ a <= c
    BY <1>1, <1>4 DEF Group, LabelKinds
  <2>2. k \in DOMAIN t /\ k \in Nat /\ p < k
    BY <1>2, <2>1, NodeShape, KidsInside
  <2>3. k <= n
    <3>1. CASE a = c
      BY <1>1, <3>1
    <3>2. CASE a < c
      <4>1. k + t[k].span <= n /\ t[k].span \in Nat
        BY <2>1, <2>2, <3>2, KidsApart, NodeShape
      <4>2. QED
        BY <1>1, <2>2, <4>1
    <3>3. QED
      BY <1>1, <2>1, <3>1, <3>2
  <2>4. says \in Labels
    BY <1>4 DEF Group, Labels
  <2>5. Labelled(t, k)
    BY <1>4, <2>1, <2>4 DEF Labelled, Leading
  <2>6. key \in Keys(t)
    BY <1>4, <2>2, <2>5 DEF Keys
  <2>7. key \in Nat /\ NodeKey(p) <= key /\ key < NodeKey(n)
    BY <1>1, <1>4, <2>2, <2>3 DEF LabelKey, NodeKey
  <2>8. Deeper(t, p) = 2
    BY <2>1 DEF Deeper, LabelKinds, Binary
  <2>9. ASSUME NEW line, IsLine(t, d, shown, line, key)
        PROVE  line.depth < d[n] /\ line.node = p /\ line.says = says
    <3>1. ~ IsNodeLine(t, d, shown, line, key) /\ ~ IsSemicolonLine(t, d, line, key)
      BY <1>2, <1>4, <2>2 DEF IsNodeLine, IsSemicolonLine, NodeKey, SemicolonKey, LabelKey
    <3>2. IsLabelLine(t, d, line, key)
      BY <2>9, <3>1 DEF IsLine
    <3>3. /\ line.node \in DOMAIN t /\ line.depth = d[line.node] + 1
          /\ \E i \in 1 .. Len(t[line.node].kids) : \E j \in 1 .. Len(t[line.node].kids) :
               Group(t, line.node, line.says, i, j) /\ key = LabelKey(Kid(t, line.node, i))
      BY <3>2 DEF IsLabelLine
    <3>4. PICK i \in 1 .. Len(t[line.node].kids) : \E j \in 1 .. Len(t[line.node].kids) :
               Group(t, line.node, line.says, i, j) /\ key = LabelKey(Kid(t, line.node, i))
      BY <3>3
    <3>5. Kid(t, line.node, i) \in Nat
      BY <1>2, <3>3, NodeShape
    <3>6. Kid(t, line.node, i) = Kid(t, p, a)
      BY <1>4, <2>2, <3>4, <3>5 DEF LabelKey
    <3>7. line.node = p /\ i = a
      BY <2>1, <3>3, <3>6, OneParent
    <3>8. line.says = says
      <4>1. PICK j : Group(t, p, line.says, a, j)
        BY <3>4, <3>7
      <4>2. QED
        BY <1>4, <4>1 DEF Group, Binary
    <3>9. QED
      BY <1>1, <2>8, <3>3, <3>7, <3>8
  <2>10. QED
    BY <2>6, <2>7, <2>9
<1>5. QED
  BY <1>3, <1>4 DEF Opening

\* No line between the opening line and the child is less deep than the child.
LEMMA Passed ==
  ASSUME NEW t, IsTree(t), NEW d, IsDepth(t, d), NEW shown,
         NEW p \in DOMAIN t, NEW c \in 1 .. Len(t[p].kids), t[p].kind # "Function",
         NEW key, NEW says, Opening(t, p, c, key, says),
         NEW line, NEW at \in Nat, IsLine(t, d, shown, line, at),
         key < at, at < NodeKey(Kid(t, p, c))
  PROVE  line.depth >= d[Kid(t, p, c)]
<1> PICK n : n = Kid(t, p, c)
  OBVIOUS
<1>1. /\ n \in DOMAIN t /\ n \in Nat /\ p \in Nat /\ p < n /\ Len(t[p].kids) \in Nat
      /\ d[n] = d[p] + Deeper(t, p) /\ d[p] \in Nat /\ Deeper(t, p) \in Nat
      /\ t[n].span \in Nat \ {0} /\ n + t[n].span <= p + t[p].span /\ t[p].span \in Nat
  BY NodeShape, KidsInside, DepthBounds DEF IsDepth, Deeper
<1>2. \A m \in DOMAIN t : m \in Nat /\ d[m] \in Nat
  BY NodeShape, DepthBounds
<1>3. key \in Nat /\ NodeKey(p) <= key
  BY OpensBefore
<1>4. ASSUME NEW m \in DOMAIN t, p < m, m < n
      PROVE  d[m] >= d[n]
  <2>1. Within(t, m, p) /\ m # p
    BY <1>1, <1>2, <1>4 DEF Within
  <2>2. d[m] >= d[p] + Deeper(t, p)
    BY <1>4, <2>1, DepthBounds
  <2>3. QED
    BY <1>1, <2>2
<1>5. CASE IsNodeLine(t, d, shown, line, at)
  <2>1. line.node \in DOMAIN t /\ at = NodeKey(line.node) /\ line.depth = d[line.node]
    BY <1>5 DEF IsNodeLine
  <2>2. p < line.node /\ line.node < n
    BY <1>1, <1>2, <1>3, <2>1, SMTT(30) DEF NodeKey
  <2>3. QED
    BY <1>4, <2>1, <2>2
<1>6. CASE IsSemicolonLine(t, d, line, at)
  <2>1. /\ line.node \in DOMAIN t /\ at = SemicolonKey(line.node)
        /\ line.depth = d[line.node] + 1 /\ Len(t[line.node].kids) = 0
    BY <1>6 DEF IsSemicolonLine
  <2>2. p <= line.node /\ line.node < n
    BY <1>1, <1>2, <1>3, <2>1, SMTT(30) DEF NodeKey, SemicolonKey
  <2>3. p # line.node
    BY <2>1
  <2>4. d[line.node] >= d[n]
    BY <1>1, <1>2, <1>4, <2>1, <2>2, <2>3, SMTT(30)
  <2>5. QED
    BY <1>1, <1>2, <2>1, <2>4
<1>7. CASE IsLabelLine(t, d, line, at)
  <2> PICK m : m = line.node
    OBVIOUS
  <2>1. /\ m \in DOMAIN t /\ line.depth = d[m] + 1
        /\ \E i \in 1 .. Len(t[m].kids) : \E j \in 1 .. Len(t[m].kids) :
             Group(t, m, line.says, i, j) /\ at = LabelKey(Kid(t, m, i))
    BY <1>7 DEF IsLabelLine
  <2>2. PICK i \in 1 .. Len(t[m].kids) : \E j \in 1 .. Len(t[m].kids) :
             Group(t, m, line.says, i, j) /\ at = LabelKey(Kid(t, m, i))
    BY <2>1
  <2>3. PICK j \in 1 .. Len(t[m].kids) :
             Group(t, m, line.says, i, j) /\ at = LabelKey(Kid(t, m, i))
    BY <2>2
  <2> PICK k : k = Kid(t, m, i)
    OBVIOUS
  <2>4. k \in DOMAIN t /\ k \in Nat
    BY <1>2, <2>1, NodeShape
  <2>5. p < k /\ k <= n
    BY <1>1, <1>3, <2>3, <2>4, SMTT(30) DEF LabelKey, NodeKey
  <2>6. m # p
    <3>1. SUFFICES ASSUME m = p PROVE FALSE
      OBVIOUS
    <3>2. t[p].kind \in LabelKinds
      BY <2>3, <3>1 DEF Group, LabelKinds
    <3>3. PICK a, b : Group(t, p, says, a, b) /\ c \in a .. b /\ key = LabelKey(Kid(t, p, a))
      BY <3>2 DEF Opening
    <3>4. a \in 1 .. Len(t[p].kids) /\ b \in Nat /\ a <= c /\ c <= b
      BY <1>1, <3>3 DEF Group
    <3>5. Kid(t, p, a) \in Nat /\ i \in 1 .. Len(t[p].kids) /\ i \in Nat
      BY <1>2, <3>1, <3>4, NodeShape
    <3>6. Kid(t, p, a) < k
      BY <2>3, <2>4, <3>3, <3>5 DEF LabelKey
    <3>7. Group(t, p, line.says, i, j)
      BY <2>3, <3>1
    <3>8. CASE t[p].kind \in Binary
      <4>1. a = c
        BY <3>3, <3>4, <3>8 DEF Group, Binary
      <4>2. QED
        BY <1>1, <2>4, <2>5, <3>5, <3>6, <4>1
    <3>9. CASE t[p].kind \in {"Subscript", "Call"}
      <4>1. i = 1 /\ a = 1
        BY <3>3, <3>7, <3>9 DEF Group, Binary
      <4>2. QED
        BY <2>4, <3>1, <3>5, <3>6, <4>1
    <3>10. QED
      BY <3>2, <3>8, <3>9 DEF LabelKinds
  <2>7. k # n
    <3>1. SUFFICES ASSUME Kid(t, m, i) = Kid(t, p, c) PROVE m = p
      BY <2>6
    <3>2. QED
      BY <2>1, <3>1, OneParent
  <2>8. k < n /\ Within(t, k, p) /\ k # p
    BY <1>1, <2>4, <2>5, <2>7, SMTT(30) DEF Within
  <2>9. Within(t, m, p)
    BY <2>1, <2>8, AroundKid
  <2>10. d[m] >= d[p] + Deeper(t, p)
    BY <2>1, <2>6, <2>9, DepthBounds
  <2>11. QED
    BY <1>1, <1>2, <2>1, <2>10
<1>8. QED
  BY <1>5, <1>6, <1>7 DEF IsLine

\* Parameters and bodies, as the outline shows them, are those of functions.
LEMMA KidOfFunction ==
  ASSUME NEW t, IsProgram(t), NEW d, IsDepth(t, d),
         NEW p \in DOMAIN t, NEW c \in 1 .. Len(t[p].kids)
  PROVE  t[p].kind = "Function" <=>
           \/ t[Kid(t, p, c)].kind = "Parameter"
           \/ t[Kid(t, p, c)].kind = "Compound" /\ d[Kid(t, p, c)] = 1
<1> PICK n : n = Kid(t, p, c)
  OBVIOUS
<1>1. IsTree(t) /\ t[1].kind = "Program" /\ 1 \in DOMAIN t
  BY DEF IsProgram, IsTree
<1>2. /\ d[1] = 0 /\ d[p] \in Nat /\ d[n] = d[p] + Deeper(t, p)
      /\ KidsFit(t, p) /\ t[p].kind \in NodeKinds /\ Len(t[p].kids) \in Nat
  BY <1>1, NodeShape DEF IsDepth
<1>3. ASSUME t[p].kind = "Function"
      PROVE  d[p] = 1
  <2>1. p # 1
    BY <1>1, <1>3
  <2>2. PICK x \in 1 .. Len(t[1].kids) : p = Kid(t, 1, x)
    BY <1>3, <2>1, KidsOfRoot
  <2>3. d[p] = d[1] + Deeper(t, 1) /\ Deeper(t, 1) = 1
    BY <1>1, <2>2 DEF IsDepth, Deeper, LabelKinds, Binary
  <2>4. QED
    BY <1>2, <2>3
<1>4. ASSUME t[p].kind = "Function"
      PROVE  t[n].kind = "Parameter" \/ (t[n].kind = "Compound" /\ d[n] = 1)
  <2>1. d[n] = 1
    BY <1>2, <1>3, <1>4 DEF Deeper
  <2>2. t[n].kind \in {"Parameter", "Compound"}
    BY <1>2, <1>4 DEF KidsFit
  <2>3. QED
    BY <2>1, <2>2
<1>5. ASSUME t[n].kind = "Parameter"
      PROVE  t[p].kind = "Function"
  <2>1. CASE t[p].kind = "Compound"
    BY <1>2, <1>5, <2>1 DEF KidsFit, StatementKinds
  <2>2. CASE t[p].kind \in {"If", "While"}
    BY <1>2, <1>5, <2>2 DEF KidsFit, StatementKinds, ExpressionKinds, LiteralKinds
  <2>3. CASE t[p].kind = "Program"
    BY <1>2, <1>5, <2>3 DEF KidsFit
  <2>4. CASE t[p].kind \in {"Return", "ExpressionStmt"} \cup ExpressionKinds
    BY <1>2, <1>5, <2>4 DEF KidsFit, ExpressionKinds, LiteralKinds
  <2>5. CASE t[p].kind \in {"Variable", "Array", "Parameter"}
    BY <1>2, <1>5, <2>5 DEF KidsFit
  <2>6. QED
    BY <1>2, <2>1, <2>2, <2>3, <2>4, <2>5 DEF NodeKinds, DeclKinds, StatementKinds
<1>6. ASSUME t[n].kind = "Compound", d[n] = 1, t[p].kind # "Function"
      PROVE  FALSE
  <2>1. d[p] = 0
    BY <1>2, <1>6 DEF Deeper
  <2>2. p # 1
    BY <1>1, <1>2, <1>6 DEF KidsFit
  <2>3. PICK q \in DOMAIN t : \E x \in 1 .. Len(t[q].kids) : p = Kid(t, q, x)
    BY <1>1, <2>2, Parent
  <2>4. PICK x \in 1 .. Len(t[q].kids) : p = Kid(t, q, x)
    BY <2>3
  <2>5. d[p] = d[q] + Deeper(t, q) /\ d[q] \in Nat
    BY <2>4 DEF IsDepth
  <2>6. t[q].kind = "Function" /\ d[q] = 0
    BY <2>1, <2>5 DEF Deeper
  <2>7. q # 1
    BY <1>1, <2>6
  <2>8. PICK y \in 1 .. Len(t[1].kids) : q = Kid(t, 1, y)
    BY <2>6, <2>7, KidsOfRoot
  <2>9. d[q] = d[1] + Deeper(t, 1) /\ Deeper(t, 1) = 1
    BY <1>1, <2>8 DEF IsDepth, Deeper, LabelKinds, Binary
  <2>10. QED
    BY <1>2, <2>6, <2>9
<1>7. QED
  BY <1>4, <1>5, <1>6

\* Functions are not inside one another.
LEMMA FunctionsApart ==
  ASSUME NEW t, IsProgram(t), NEW p \in DOMAIN t, NEW m \in DOMAIN t,
         t[p].kind = "Function", t[m].kind = "Function", Within(t, m, p)
  PROVE  m = p
<1>1. /\ IsTree(t) /\ t[1].kind = "Program" /\ 1 \in DOMAIN t /\ p # 1 /\ m # 1
  BY DEF IsProgram, IsTree
<1>2. PICK x \in 1 .. Len(t[1].kids) : p = Kid(t, 1, x)
  BY <1>1, KidsOfRoot
<1>3. PICK y \in 1 .. Len(t[1].kids) : m = Kid(t, 1, y)
  BY <1>1, KidsOfRoot
<1>4. /\ p \in Nat /\ m \in Nat /\ t[p].span \in Nat \ {0} /\ t[m].span \in Nat \ {0}
      /\ Len(t[1].kids) \in Nat
  BY <1>1, NodeShape
<1>5. CASE x < y
  <2>1. p + t[p].span <= m
    BY <1>1, <1>2, <1>3, <1>5, KidsApart
  <2>2. QED
    BY <1>4, <2>1 DEF Within
<1>6. CASE y < x
  <2>1. m + t[m].span <= p
    BY <1>1, <1>2, <1>3, <1>6, KidsApart
  <2>2. QED
    BY <1>4, <2>1 DEF Within
<1>7. CASE x = y
  BY <1>2, <1>3, <1>7
<1>8. QED
  BY <1>2, <1>3, <1>4, <1>5, <1>6, <1>7

LEMMA LineDepth ==
  ASSUME NEW t, IsTree(t), NEW d, IsDepth(t, d), NEW shown, NEW line, NEW key,
         IsLine(t, d, shown, line, key)
  PROVE  line.depth \in Nat
<1>1. \A m \in DOMAIN t : d[m] \in Nat /\ d[m] + 1 \in Nat
  BY DEF IsDepth
<1>2. QED
  BY <1>1 DEF IsLine, IsNodeLine, IsLabelLine, IsSemicolonLine

\* Only the first line is the root's.
LEMMA NotTheRoot ==
  ASSUME IInv, NEW keys, Outline(keys), NEW i \in NodeLines \ {1}
  PROVE  m_output[i].node \in DOMAIN ast /\ m_output[i].node # 1
<1> PICK d : d = DepthOf(ast)
  OBVIOUS
<1>1. IsTree(ast) /\ \A m \in DOMAIN ast : m \in Nat \ {0}
  <2>1. IsTree(ast)
    BY TreeShaped
  <2>2. QED
    BY <2>1, NodeShape
<1>2. /\ i \in DOMAIN m_output /\ keys[i] = NodeKey(m_output[i].node)
      /\ m_output[i].node \in DOMAIN ast
  BY NodeLinesAre DEF IsNodeLine
<1>3. SUFFICES ASSUME m_output[i].node = 1 PROVE FALSE
  BY <1>2
<1>4. 1 \in DOMAIN m_output /\ 1 < i /\ i \in DOMAIN m_output
  BY <1>2, OutlineParts
<1>5. keys[1] < 3 /\ keys[1] \in Nat
  BY <1>2, <1>3, <1>4, OutlineParts DEF NodeKey
<1>6. \/ IsNodeLine(ast, d, Shown, m_output[1], keys[1])
      \/ IsLabelLine(ast, d, m_output[1], keys[1])
      \/ IsSemicolonLine(ast, d, m_output[1], keys[1])
  BY <1>4, OutlineParts
<1>7. CASE IsNodeLine(ast, d, Shown, m_output[1], keys[1])
  BY <1>1, <1>5, <1>7 DEF IsNodeLine, NodeKey
<1>8. CASE IsSemicolonLine(ast, d, m_output[1], keys[1])
  BY <1>1, <1>5, <1>8 DEF IsSemicolonLine, SemicolonKey
<1>9. CASE IsLabelLine(ast, d, m_output[1], keys[1])
  <2>1. PICK m \in DOMAIN ast : \E x \in 1 .. Len(ast[m].kids) : keys[1] = LabelKey(Kid(ast, m, x))
    BY <1>9 DEF IsLabelLine
  <2>2. PICK x \in 1 .. Len(ast[m].kids) : keys[1] = LabelKey(Kid(ast, m, x))
    BY <2>1
  <2>3. Kid(ast, m, x) \in Nat /\ m \in Nat \ {0} /\ m < Kid(ast, m, x)
    BY <1>1, NodeShape, KidsInside
  <2>4. QED
    BY <1>5, <2>2, <2>3 DEF LabelKey
<1>10. QED
  BY <1>6, <1>7, <1>8, <1>9

\* Read by its depth, the line of a child is below the line that opens it.
LEMMA AboveKid ==
  ASSUME IInv, NEW keys, Outline(keys), NEW i \in NodeLines,
         NEW p \in DOMAIN ast, NEW c \in 1 .. Len(ast[p].kids),
         m_output[i].node = Kid(ast, p, c), ast[p].kind # "Function"
  PROVE  /\ m_output[Above(i)].node = p
         /\ m_output[Above(i)].says = SideOf(ast, p, Kid(ast, p, c))
<1> PICK d : d = DepthOf(ast)
  OBVIOUS
<1> PICK n : n = Kid(ast, p, c)
  OBVIOUS
<1> PICK l : l = Len(m_output)
  OBVIOUS
<1>1. IsProgram(ast) /\ IsTree(ast) /\ IsDepth(ast, d) /\ n \in DOMAIN ast /\ d[n] \in Nat
  <2>1. IsProgram(ast) /\ IsTree(ast) /\ IsDepth(ast, d)
    BY TreeShaped
  <2>2. QED
    BY <2>1, NodeShape, DepthBounds
<1>2. /\ DOMAIN m_output = 1 .. l /\ l \in Nat
      /\ \A x \in 1 .. l : keys[x] \in Nat /\ IsLine(ast, d, Shown, m_output[x], keys[x])
      /\ \A x, y \in 1 .. l : x < y <=> keys[x] < keys[y]
      /\ \A k \in Keys(ast) : \E x \in 1 .. l : keys[x] = k
  BY OutlineParts DEF IsLine
<1>3. /\ i \in 1 .. l /\ keys[i] = NodeKey(n)
      /\ m_output[i].says = ast[n].kind /\ m_output[i].depth = d[n]
  BY <1>2, NodeLinesAre DEF IsNodeLine
<1>4. ~ (m_output[i].says = "Parameter" \/ (m_output[i].says = "Compound" /\ m_output[i].depth = 1))
  BY <1>1, <1>3, KidOfFunction
<1> PICK says : says = SideOf(ast, p, n)
  OBVIOUS
<1>5. PICK key : Opening(ast, p, c, key, says)
  BY <1>1, OpeningExists
<1>6. /\ key \in Keys(ast) /\ key \in Nat /\ key < NodeKey(n)
      /\ \A line : IsLine(ast, d, Shown, line, key) =>
           line.depth < d[n] /\ line.node = p /\ line.says = says
  BY <1>1, <1>5, OpensBefore
<1>7. PICK j \in 1 .. l : keys[j] = key
  BY <1>2, <1>6
<1>8. j < i /\ m_output[j].depth < d[n] /\ m_output[j].node = p /\ m_output[j].says = says
  BY <1>2, <1>3, <1>6, <1>7
<1> DEFINE T == {x \in 1 .. i - 1 : m_output[x].depth < m_output[i].depth}
<1>9. ASSUME NEW x \in T
      PROVE  x <= j
  <2>1. x \in 1 .. l /\ x < i /\ m_output[x].depth < d[n]
    BY <1>2, <1>3
  <2>2. SUFFICES ASSUME j < x PROVE FALSE
    BY <2>1
  <2>3. key < keys[x] /\ keys[x] < NodeKey(n) /\ keys[x] \in Nat
        /\ IsLine(ast, d, Shown, m_output[x], keys[x])
    BY <1>2, <1>3, <1>7, <2>1, <2>2
  <2>4. m_output[x].depth >= d[n]
    BY <1>1, <1>5, <2>3, Passed
  <2>5. m_output[x].depth \in Nat
    BY <1>1, <2>3, LineDepth
  <2>6. QED
    BY <1>1, <2>1, <2>4, <2>5
<1>10. Max(T) = j
  <2>1. j \in T
    BY <1>2, <1>3, <1>7, <1>8
  <2>2. i \in Nat /\ T \in SUBSET (0 .. i)
    BY <1>2, <1>3
  <2> HIDE DEF T
  <2>3. QED
    BY <1>9, <2>1, <2>2, MaxIs
<1>11. Above(i) = Max(T)
  <2>1. T = {x \in 1 .. i - 1 :
               IF m_output[i].says = "Parameter" \/ (m_output[i].says = "Compound" /\ m_output[i].depth = 1)
               THEN m_output[x].says = "Function"
               ELSE m_output[x].depth < m_output[i].depth}
    BY <1>4
  <2> HIDE DEF T
  <2>2. QED
    BY <2>1, Zenon DEF Above
<1>12. QED
  BY <1>8, <1>10, <1>11

\* The parameters and the body of a function are below its line.
LEMMA AboveFunctionKid ==
  ASSUME IInv, NEW keys, Outline(keys), NEW i \in NodeLines,
         NEW p \in DOMAIN ast, NEW c \in 1 .. Len(ast[p].kids),
         m_output[i].node = Kid(ast, p, c), ast[p].kind = "Function"
  PROVE  /\ m_output[Above(i)].node = p
         /\ m_output[Above(i)].says = SideOf(ast, p, Kid(ast, p, c))
<1> PICK d : d = DepthOf(ast)
  OBVIOUS
<1> PICK n : n = Kid(ast, p, c)
  OBVIOUS
<1> PICK l : l = Len(m_output)
  OBVIOUS
<1>1. /\ IsProgram(ast) /\ IsTree(ast) /\ IsDepth(ast, d) /\ n \in DOMAIN ast
      /\ \A m \in DOMAIN ast : m \in Nat
  <2>1. IsProgram(ast) /\ IsTree(ast) /\ IsDepth(ast, d)
    BY TreeShaped
  <2>2. QED
    BY <2>1, NodeShape
<1>2. /\ DOMAIN m_output = 1 .. l /\ l \in Nat
      /\ \A x \in 1 .. l :
           /\ keys[x] \in Nat
           /\ \/ IsNodeLine(ast, d, Shown, m_output[x], keys[x])
              \/ IsLabelLine(ast, d, m_output[x], keys[x])
              \/ IsSemicolonLine(ast, d, m_output[x], keys[x])
      /\ \A x, y \in 1 .. l : x < y <=> keys[x] < keys[y]
  BY OutlineParts
<1>3. /\ i \in 1 .. l /\ keys[i] = NodeKey(n)
      /\ m_output[i].says = ast[n].kind /\ m_output[i].depth = d[n]
  BY <1>2, NodeLinesAre DEF IsNodeLine
<1>4. m_output[i].says = "Parameter" \/ (m_output[i].says = "Compound" /\ m_output[i].depth = 1)
  BY <1>1, <1>3, KidOfFunction
<1>5. PICK j \in NodeLines : m_output[j].node = p /\ keys[j] = NodeKey(p)
  BY NodeLinesAre
<1>6. j \in 1 .. l /\ m_output[j].says = "Function"
  BY <1>2, <1>5, NodeLinesAre DEF IsNodeLine
<1>7. /\ p < n /\ p \in Nat /\ n \in Nat /\ ast[n].span \in Nat \ {0} /\ ast[p].span \in Nat
      /\ n + ast[n].span <= p + ast[p].span
  BY <1>1, NodeShape, KidsInside
<1>8. j < i
  BY <1>2, <1>3, <1>5, <1>6, <1>7 DEF NodeKey
<1> DEFINE T == {x \in 1 .. i - 1 : m_output[x].says = "Function"}
<1>9. ASSUME NEW x \in T
      PROVE  x <= j
  <2>1. x \in 1 .. l /\ x < i /\ m_output[x].says = "Function"
    BY <1>2, <1>3
  <2>2. SUFFICES ASSUME j < x PROVE FALSE
    BY <1>6, <2>1
  <2>3. IsNodeLine(ast, d, Shown, m_output[x], keys[x])
    BY <1>2, <2>1, LabelsApart DEF IsLabelLine, IsSemicolonLine
  <2> PICK m : m = m_output[x].node
    OBVIOUS
  <2>4. m \in DOMAIN ast /\ ast[m].kind = "Function" /\ keys[x] = NodeKey(m)
    BY <2>1, <2>3 DEF IsNodeLine
  <2>5. NodeKey(p) < NodeKey(m) /\ NodeKey(m) < NodeKey(n)
    BY <1>2, <1>3, <1>5, <1>6, <2>1, <2>2, <2>4
  <2>6. p < m /\ m < n
    BY <1>1, <1>7, <2>4, <2>5 DEF NodeKey
  <2>7. Within(ast, m, p)
    BY <1>1, <1>7, <2>4, <2>6 DEF Within
  <2>8. QED
    BY <1>1, <1>7, <2>4, <2>6, <2>7, FunctionsApart
<1>10. Max(T) = j
  <2>1. j \in T
    BY <1>2, <1>3, <1>6, <1>8
  <2>2. i \in Nat /\ T \in SUBSET (0 .. i)
    BY <1>2, <1>3
  <2> HIDE DEF T
  <2>3. QED
    BY <1>9, <2>1, <2>2, MaxIs
<1>11. Above(i) = Max(T)
  <2>1. T = {x \in 1 .. i - 1 :
               IF m_output[i].says = "Parameter" \/ (m_output[i].says = "Compound" /\ m_output[i].depth = 1)
               THEN m_output[x].says = "Function"
               ELSE m_output[x].depth < m_output[i].depth}
    BY <1>4
  <2> HIDE DEF T
  <2>2. QED
    BY <2>1, Zenon DEF Above
<1>12. SideOf(ast, p, n) = "Function"
  BY DEF SideOf
<1>13. QED
  BY <1>5, <1>6, <1>10, <1>11, <1>12

LEMMA IInvOutline ==
  ASSUME IInv
  PROVE  OutlineShowsTree
<1>1. SUFFICES ASSUME Finished
      PROVE  /\ {m_output[i].node : i \in NodeLines} = DOMAIN ast
             /\ \A i, j \in NodeLines : i < j => m_output[i].node < m_output[j].node
             /\ \A i \in NodeLines \ {1} :
                  /\ m_output[Above(i)].node = ParentIn(ast, m_output[i].node)
                  /\ m_output[Above(i)].says =
                       SideOf(ast, ParentIn(ast, m_output[i].node), m_output[i].node)
  BY DEF OutlineShowsTree
<1>2. PICK keys : Outline(keys)
  BY <1>1, OutlineThere
<1>3. IsTree(ast) /\ \A m \in DOMAIN ast : m \in Nat
  <2>1. IsTree(ast)
    BY TreeShaped
  <2>2. QED
    BY <2>1, NodeShape
<1>4. \A i \in NodeLines :
        /\ i \in DOMAIN m_output /\ m_output[i].node \in DOMAIN ast
        /\ keys[i] = NodeKey(m_output[i].node)
  BY <1>2, NodeLinesAre DEF IsNodeLine
<1>5. {m_output[i].node : i \in NodeLines} = DOMAIN ast
  <2>1. \A n \in DOMAIN ast : \E i \in NodeLines : m_output[i].node = n
    BY <1>2, NodeLinesAre
  <2>2. QED
    BY <1>4, <2>1
<1>6. ASSUME NEW i \in NodeLines, NEW j \in NodeLines, i < j
      PROVE  m_output[i].node < m_output[j].node
  <2>1. i \in DOMAIN m_output /\ j \in DOMAIN m_output
    BY <1>4
  <2>2. keys[i] < keys[j]
    BY <1>2, <1>6, <2>1, OutlineParts
  <2>3. m_output[i].node \in Nat /\ m_output[j].node \in Nat
    BY <1>3, <1>4
  <2>4. QED
    BY <1>4, <2>2, <2>3 DEF NodeKey
<1>7. ASSUME NEW i \in NodeLines \ {1}
      PROVE  /\ m_output[Above(i)].node = ParentIn(ast, m_output[i].node)
             /\ m_output[Above(i)].says =
                  SideOf(ast, ParentIn(ast, m_output[i].node), m_output[i].node)
  <2> PICK n : n = m_output[i].node
    OBVIOUS
  <2>1. n \in DOMAIN ast /\ n # 1
    BY <1>2, NotTheRoot
  <2>2. PICK p \in DOMAIN ast : \E c \in 1 .. Len(ast[p].kids) : n = Kid(ast, p, c)
    BY <1>3, <2>1, Parent
  <2>3. PICK c \in 1 .. Len(ast[p].kids) : n = Kid(ast, p, c)
    BY <2>2
  <2>4. ParentIn(ast, n) = p
    BY <1>3, <2>3, ParentLast
  <2>5. m_output[i].node = Kid(ast, p, c)
    BY <2>3
  <2>6. /\ m_output[Above(i)].node = p
        /\ m_output[Above(i)].says = SideOf(ast, p, Kid(ast, p, c))
    <3>1. CASE ast[p].kind = "Function"
      BY <1>2, <2>5, <3>1, AboveFunctionKid
    <3>2. CASE ast[p].kind # "Function"
      BY <1>2, <2>5, <3>2, AboveKid
    <3>3. QED
      BY <3>1, <3>2
  <2>7. QED
    BY <2>3, <2>4, <2>6, Zenon
<1>8. QED
  BY <1>5, <1>6, <1>7

\* The printed outline, read by its indentation alone, is the tree.
THEOREM OutlineIsTree == Spec => []OutlineShowsTree
BY Invariance, IInvOutline, PTL
=============================================================================
